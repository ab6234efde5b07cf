---------------------------- MODULE MCWebClients ----------------------------
(* An instance of WebClients for TLC. *)
EXTENDS WebClients

\* A configuration whose light logo is good and whose colour is not, and one
\* the other way round.
MCBrandFiles == {[logoUrl |-> "good", logoUrlDark |-> "bad", token |-> "bad"],
                 [logoUrl |-> "bad", logoUrlDark |-> "good", token |-> "good"]}

\* Two teams with a project of the same name, and a key that goes.
Key(id, t, p, n, goneAt) ==
  [id |-> id, name |-> p \o "-" \o id, owner |-> "ann", team |-> t, project |-> p,
   projectId |-> t \o "-" \o p, requests |-> n, goneAt |-> goneAt]

MCSeedKeys == {Key("k1", "a", "bot", 1, 9), Key("k2", "a", "web", 1, 1),
               Key("k3", "b", "bot", 3, 9)}

\* k2 does not call all of its team's models.
MCKeyModels == [k \in {"k1", "k2", "k3"} |-> IF k = "k2" THEN {"m1"} ELSE {"m1", "m2"}]

MCModelWeight == [a |-> [m1 |-> 1, m2 |-> 3], b |-> [m1 |-> 1, m2 |-> 1]]

MCByTeam == <<[a |-> 8, b |-> 4], [a |-> 16, b |-> 2], [a |-> 8, b |-> 0]>>

\* One team has requests with and without a price, the other none with one.
Cell(t, u, p, k, m, priced, s) ==
  [team |-> t, person |-> u, project |-> p, projectId |-> t \o "/" \o p, key |-> k, model |-> m,
   priced |-> priced, spend |-> s]

MCRequests == {Cell("a", "ann", "bot", "k1", "m1", TRUE, <<1, 0, 2>>),
               Cell("a", "ann", "bot", "k1", "m2", FALSE, <<0, 1, 1>>),
               Cell("a", "bob", "web", "k2", "m1", TRUE, <<5, 0, 0>>),
               Cell("b", "bob", "bot", "k3", "m2", FALSE, <<0, 2, 0>>)}

MCQuarters  == [r \in {"6h", "24h", "7d"} |->
                  CASE r = "6h" -> 1 [] r = "24h" -> 4 [] r = "7d" -> 8]
MCTrendDays == [r \in {"6h", "24h", "7d"} |-> IF r = "7d" THEN 2 ELSE 3]

MCVerdictOf == [id \in 1 .. 4 |->
                  CASE id \in {1, 4} -> "allowed" [] id = 2 -> "blocked" [] id = 3 -> "truncated"]

\* Calls that say nothing but how to dismiss, or only a time; with and without
\* an action, a type and a priority.
Says(t, p, time, action, d) ==
  [type |-> t, priority |-> p, timeout |-> time, actionProps |-> action, dismissible |-> d]

MCToastOptions == {Says(Unsaid, Unsaid, Unsaid, FALSE, "false"),
                   Says(Unsaid, Unsaid, "short", FALSE, Unsaid),
                   Says("success", Unsaid, "short", FALSE, Unsaid),
                   Says("warning", Unsaid, Unsaid, FALSE, Unsaid),
                   Says("error", Unsaid, Never, TRUE, Unsaid),
                   Says("custom", "high", "short", TRUE, "false")}

\* Bound: of the two users, only Ann has a range in storage that is none.
OneStaleRange == savedRange["bob"] # Junk

\* Bound: on the key manager's page a mishap takes the place of a submit, unless
\* it has cost the user a new key: then they may submit again.
MishapForSubmit == submits + revokes + mishaps <= MaxSubmits \/ unseen # {}

\* Bound: by project and by person, Spend is of a week, of the ledger as it was, and
\* waits for one request at a time.
WeekByTheRest ==
  choice.dim \in {"project", "person"}
    => choice.range = "7d" /\ growth + outages = 0 /\ Len(asked) <= 1

\* Bound: while a polling page is followed, the ledger changes or a request fails.
GrowthOrOutage == growth + outages <= 1
=============================================================================
