----------------------------- MODULE SpendView ------------------------------
(***************************************************************************)
(* The pages of the usage console that poll (usage-console/console/src):   *)
(* Overview, Spend and Keys.  Each reads the control plane through useLive *)
(* (state/live.ts), which asks at once and then at an interval, and whose  *)
(* effect starts anew when its path changes.  With VITE_DATA=mock nothing  *)
(* is asked and the pages show fixtures (data/mock.ts, spend-data.ts).     *)
(*                                                                         *)
(* An amount of money is a whole number, a day has four quarters, and an   *)
(* event with the render and the effects it causes is one step.            *)
(***************************************************************************)
EXTENDS Lists, FiniteSetsExt, SequencesExt

CONSTANTS
  SeedKeys,       \* the demo tenant's keys: [id, name, owner, team, project, projectId, requests]
  KeyModels,      \* per key, the models it calls
  ModelWeight,    \* per team, the weights of its models
  ByTeam,         \* per day, the demo teams' spend
  Requests,       \* the server's ledger at the start, as cells
  Quarters,       \* windowDays: per range, the quarters of a day it covers
  TrendDays,      \* trendDays: per range, the days the chart shows
  TopN,           \* the groups with a series of their own (5 in the code)
  Year, NewYear,  \* days in a year, and the day that one begins on
  Dims,           \* Spend's dimensions, "team" among them
  MaxAsked,       \* bound: requests on their way, per page
  MaxGrowth,      \* bound: changes of the ledger
  MaxOutages      \* bound: requests that fail

Today    == Len(ByTeam)
Clock    == 4 * Today - 1   \* now: the last quarter of today
NoGroup  == "none"
NoAnswer == -1        \* no answer yet
Demo     == -2        \* the demo's view

\* A range of more than a day covers a part of every day that its chart shows.
ASSUME SpendAssumptions ==
  /\ "24h" \in DOMAIN Quarters /\ DOMAIN TrendDays = DOMAIN Quarters
  /\ "team" \in Dims /\ TopN \in Nat \ {0} /\ MaxAsked \in Nat \ {0}
  /\ MaxGrowth \in Nat /\ MaxOutages \in Nat
  /\ NewYear \in 1 .. Year /\ Year \in Nat /\ Today \in 1 .. Year
  /\ \A r \in DOMAIN Quarters :
       /\ Quarters[r] \in Nat \ {0} /\ TrendDays[r] \in 1 .. Today
       /\ Quarters[r] > 4 => Quarters[r] >= 4 * (TrendDays[r] - 1)

\* The demo's keys, whose teams have all of the spend, and the server's ledger.
ASSUME LedgerAssumptions ==
  /\ IsFiniteSet(SeedKeys) /\ IsFiniteSet(DOMAIN ModelWeight) /\ IsFiniteSet(Requests)
  /\ \A k \in SeedKeys :
       /\ k.requests \in Nat \ {0} /\ k.goneAt \in Nat /\ k.team \in DOMAIN ModelWeight
       /\ \A l \in SeedKeys : l.id = k.id => l = k
       /\ IsFiniteSet(KeyModels[k.id])
       /\ KeyModels[k.id] \cap DOMAIN ModelWeight[k.team] # {}
  /\ \A t \in DOMAIN ModelWeight :
       /\ \E k \in SeedKeys : k.team = t
       /\ \A m \in DOMAIN ModelWeight[t] : ModelWeight[t][m] \in Nat \ {0}
       /\ \A d \in 1 .. Today : ByTeam[d][t] \in Nat
  /\ \A c \in Requests :
       /\ c = [team |-> c.team, person |-> c.person, project |-> c.project,
               projectId |-> c.projectId, key |-> c.key, model |-> c.model,
               priced |-> c.priced, spend |-> c.spend]
       /\ c.priced \in BOOLEAN /\ c.spend \in [1 .. Today -> Nat]

VARIABLES
  dataMode,     \* "api" or "mock"
  onPage,       \* the page that is mounted
  choice,       \* the range picked, and Spend's dimension
  openKey,      \* ?key= of the Keys page
  list,         \* the Keys page's list
  held,         \* the page's useLive: its state
  asked,        \* its requests on their way, in the order sent
  growth,       \* how often the ledger has changed
  out,            \* history: the file or the link to Traffic of the last step
  outages

keysVars  == <<openKey, list>>
spendVars == <<dataMode, onPage, choice, keysVars, held, asked, growth, out, outages>>

PollingPages == {"overview", "spend", "keys"}

\* The path a page asks for.  Overview has a second hook, for its chart, with
\* a path and a state of its own that behave as the first's do.
PathOf(page, c) == [range |-> IF page = "keys" THEN NoGroup ELSE c.range,
                    dim   |-> IF page = "spend" THEN c.dim ELSE NoGroup]

path == PathOf(onPage, choice)

\* What a page shows before an answer: Overview the fixture of 24 hours, in
\* either mode; Spend an empty view, or the demo's; Keys what hydrate() read.
initial(page, c) ==
  [path |-> IF page = "overview" THEN PathOf(page, [c EXCEPT !.range = "24h"])
            ELSE PathOf(page, c),
   at   |-> IF page = "spend" /\ dataMode = "mock" THEN Demo ELSE NoAnswer]

FirstState(page, c) == [path |-> PathOf(page, c), data |-> initial(page, c),
                        loaded |-> dataMode = "mock"]

\* live: the effect that asks has not been cleaned up.
Request(p) == [path |-> p, live |-> TRUE, at |-> NoAnswer]

\* The first load of an effect; in mock mode there is none.
load(p) == IF dataMode = "api" THEN <<Request(p)>> ELSE <<>>

KeyIds == {k.id : k \in SeedKeys}

\* The server's keys after so many changes; hydrate() has read the first.
KeysAt(n) == {k.id : k \in {x \in SeedKeys : x.goneAt > n}}

\* KeysPage starts with the list that hydrate() read.
seedList == KeysAt(0)

SpendTypeOK ==
  /\ dataMode \in {"api", "mock"} /\ onPage \in PollingPages
  /\ choice.range \in DOMAIN Quarters /\ choice.dim \in Dims
  /\ list \subseteq KeyIds /\ (openKey # NoGroup => onPage = "keys")
  /\ Len(asked) <= MaxAsked /\ (dataMode = "mock" => asked = <<>>)
  /\ \A i \in 1 .. Len(asked) : asked[i].live => asked[i].path = path
  /\ held.data.at \in Demo .. growth
  /\ held.loaded /\ dataMode = "api" => held.data.at >= 0

\* Overview is the page the console opens on.
SpendInit ==
  /\ dataMode \in {"api", "mock"} /\ onPage = "overview"
  /\ choice = [range |-> "24h", dim |-> "team"] /\ openKey = NoGroup
  /\ list = seedList /\ held = FirstState(onPage, choice) /\ asked = load(path)
  /\ growth = 0 /\ out = {} /\ outages = 0

-----------------------------------------------------------------------------
(* useLive *)

\* "A new path shows `initial` until its first answer, not the old path's data"
\* (live.ts:28); in mock mode the state of the mount is returned.
Live ==
  IF dataMode = "api" /\ held.path # path
    THEN [path |-> path, data |-> initial(onPage, choice), loaded |-> FALSE]
    ELSE held

\* Mutant: the answers of the old effect are still taken.
cleanupForgotten(rs) == rs

\* The cleanup of an effect.
cleanup(rs) == [i \in DOMAIN rs |-> [rs[i] EXCEPT !.live = FALSE]]

\* The render after a choice: a path that changes ends the effect and starts
\* another, which asks at once.
Rerender(c) ==
  /\ choice' = c
  /\ asked' = IF PathOf(onPage, c) = path THEN asked
              ELSE cleanup(asked) \o load(PathOf(onPage, c))
  /\ Len(asked') <= MaxAsked
  /\ out' = {}
  /\ UNCHANGED <<dataMode, onPage, keysVars, held, growth, outages>>

\* The interval's load, whether or not the last one has been answered.
poll ==
  /\ dataMode = "api" /\ Len(asked) < MaxAsked
  /\ asked' = Append(asked, Request(path)) /\ out' = {}
  /\ UNCHANGED <<dataMode, onPage, choice, keysVars, held, growth, outages>>

\* The server reads its ledger for a request, at one time for all the queries
\* that it makes; answers may overtake each other.
ServerReads(i) ==
  /\ i \in 1 .. Len(asked) /\ asked[i].at = NoAnswer
  /\ asked' = [asked EXCEPT ![i].at = growth] /\ out' = {}
  /\ UNCHANGED <<dataMode, onPage, choice, keysVars, held, growth, outages>>

\* The answer to an effect that has been cleaned up is dropped.
liveAnswer(i) ==
  LET r == asked[i] IN
  /\ i \in 1 .. Len(asked) /\ r.at # NoAnswer
  /\ held' = IF r.live THEN [path |-> r.path, loaded |-> TRUE,
                             data |-> [path |-> r.path, at |-> r.at]]
             ELSE held
  /\ list' = IF r.live /\ onPage = "keys" THEN KeysAt(r.at) ELSE list
  /\ asked' = RemoveAt(asked, i) /\ out' = {}
  /\ UNCHANGED <<dataMode, onPage, choice, openKey, growth, outages>>

\* "A failed poll keeps the last answer" (live.ts:6).
liveFailure(i) ==
  /\ i \in 1 .. Len(asked) /\ outages < MaxOutages /\ outages' = outages + 1
  /\ asked' = RemoveAt(asked, i) /\ out' = {}
  /\ UNCHANGED <<dataMode, onPage, choice, keysVars, held, growth>>

-----------------------------------------------------------------------------
(* The figures *)

SumOver(S, f(_)) == SumFunction([x \in S |-> f(x)])

\* The weight of the models a key calls.
wSum(k) == SumOver(KeyModels[k.id] \cap DOMAIN ModelWeight[k.team],
                   LAMBDA m : ModelWeight[k.team][m])

totalReq(t) == SumOver({k \in SeedKeys : k.team = t}, LAMBDA k : k.requests)

\* What a team spent on a day, times a key's share of it for a model, above the
\* line and below it.
share(d, k, m) == ByTeam[d][k.team] * k.requests * ModelWeight[k.team][m]
whole(k) == totalReq(k.team) * wSum(k)

\* The unit of money is such that every share is a whole number of it.
ASSUME SharesAreWhole ==
  \A k \in SeedKeys, m \in UNION {KeyModels[x.id] : x \in SeedKeys}, d \in 1 .. Today :
    m \in DOMAIN ModelWeight[k.team] => whole(k) * (share(d, k, m) \div whole(k)) = share(d, k, m)

\* cells: a key and a model it calls, with their share of the team's spend.
cells ==
  UNION {
    {[team |-> k.team, person |-> k.owner, project |-> k.project, projectId |-> k.projectId,
      key |-> k.name, keyId |-> k.id, model |-> m, priced |-> TRUE,
      spend |-> [d \in 1 .. Today |-> share(d, k, m) \div whole(k)]]
     : m \in KeyModels[k.id] \cap DOMAIN ModelWeight[k.team]}
    : k \in SeedKeys}

\* The server's ledger, as the cells of usage.go, which grows on its last day.
\* A project is the model resource that was called.  The spend of a cell without
\* a price counts its requests.
Ledger(at) == {[c EXCEPT !.spend[Today] = @ + at] : c \in Requests}

\* What a view is made of.
Cells(view) == IF view.at = Demo THEN cells ELSE Ledger(view.at)

\* The spend of the trailing quarters that end offset days ago (teamSpendOver).
Trailing(spend, quarters, offset) ==
  SumOver(1 .. Today - offset, LAMBDA d :
    LET left == quarters - 4 * (Today - offset - d)
    IN spend[d] * (IF left > 4 THEN 4 ELSE IF left < 0 THEN 0 ELSE left))

\* The previous window, or for a short range the same window yesterday.
prevOffset(range) == Max({1, (Quarters[range] + 3) \div 4})

\* The demo groups projects by their id, "as the control plane does: names repeat
\* across teams" (spend-data.ts:148); the server groups them by their name
\* (spendDims, spend.go:35).
GroupOf(view, c) ==
  IF view.path.dim = "project" /\ view.at = Demo THEN c.projectId ELSE c[view.path.dim]

\* breakdown, or the server's spendRows: the rows of a view.
rows(view) ==
  LET range == view.path.range
      Group(g) == {c \in Cells(view) : GroupOf(view, c) = g}
      Over(S, offset) == SumOver(S, LAMBDA c : Trailing(c.spend, Quarters[range], offset))
  IN {[id |-> g,
       spendUsd     |-> Over({c \in Group(g) : c.priced}, 0),
       prevSpendUsd |-> Over({c \in Group(g) : c.priced}, prevOffset(range)),
       unpriced     |-> Over({c \in Group(g) : ~c.priced}, 0)]
      : g \in {GroupOf(view, c) : c \in Cells(view)}}

\* trend: charts group projects by their name.
TrendGroup(view, c) == c[view.path.dim]

\* A group's spend on a day.
dayValue(view, d, g) ==
  SumOver({c \in Cells(view) : c.priced /\ TrendGroup(view, c) = g},
          LAMBDA c : 4 * c.spend[d])

charted(view) == Today - TrendDays[view.path.range] + 1 .. Today

\* Every group, ranked by its spend of all the days.
order(view) ==
  LET groups == {TrendGroup(view, c) : c \in Cells(view)}
      total  == [g \in groups |-> SumOver(1 .. Today, LAMBDA d : dayValue(view, d, g))]
  IN CHOOSE s \in [1 .. Cardinality(groups) -> groups] :
       \A i, j \in DOMAIN s : i < j => s[i] # s[j] /\ total[s[i]] >= total[s[j]]

\* The groups that fold into "Other".
rest(gs) == SubSeq(gs, TopN + 1, Len(gs))

\* TrendChart: the groups with spend on a charted day, in that order.
present(view, all) ==
  RowsAt(all, {i \in DOMAIN all : \E d \in charted(view) : dayValue(view, d, all[i]) > 0})

\* The first have a series of their own.  A day's bars are listed from the base up.
stacks(view, gs) ==
  LET top   == SubSeq(gs, 1, Min({TopN, Len(gs)}))
      other == rest(gs)
  IN [d \in charted(view) |->
       [i \in DOMAIN top |-> dayValue(view, d, top[i])]
         \o IF other = <<>> THEN <<>>
            ELSE <<SumOver(DOMAIN other, LAMBDA i : dayValue(view, d, other[i]))>>]

bars(view) == stacks(view, present(view, order(view)))

\* StackedBars: the parts of a bar stand on each other.
barHeight(parts) == SumOver(DOMAIN parts, LAMBDA i : parts[i])

\* The greatest power of ten that is no more than the number.
tens[raw \in Nat] == IF raw < 10 THEN 1 ELSE 10 * tens[raw \div 10]

\* The power of ten that niceTicks steps by; at a power of ten the logarithm
\* may fall short of the whole number.
powers(raw) == IF tens[raw] = raw THEN {raw, raw \div 10} ELSE {tens[raw]}

\* niceTicks, in hundredths: about four steps of a round size.
niceTicks(max, pow) ==
  LET raw  == 25 * max
      step == Min({x \in {pow, 2 * pow, (5 * pow) \div 2, 5 * pow, 10 * pow} : x >= raw})
      top  == (100 * max + step - 1) \div step
  IN [i \in 1 .. top + 1 |-> (i - 1) * step]

\* The ticks of a chart, which end where its bars are drawn up to.
axes(chart) ==
  LET max == Max({barHeight(chart[d]) : d \in DOMAIN chart} \cup {0})
  IN IF max <= 0 THEN {<<0>>} ELSE {niceTicks(max, pow) : pow \in powers(25 * max)}

\* Mutant: a row with a request that has no price has none.
spendCellBare(r) == IF r.unpriced > 0 THEN NoAnswer ELSE r.spendUsd

\* A cell of the table or the file: "no price" is NoAnswer.
\* "No priced spend but unpriced requests: no price, not $0" (spend.tsx:370,
\* csv.ts:18).
spendCell(r) == IF r.unpriced > 0 /\ r.spendUsd = 0 THEN NoAnswer ELSE r.spendUsd

\* spendCsv: the lines of the file.
spendCsv(rs) ==
  {[id |-> r.id, spend |-> spendCell(r), unpriced |-> r.unpriced] : r \in rs}

\* What Spend shows, by view.
Views == [path : [range : DOMAIN Quarters, dim : Dims], at : {Demo} \cup 0 .. MaxGrowth]

Figures ==
  [view \in Views |->
    LET chart == bars(view)
    IN [rows |-> rows(view), bars |-> chart, axes |-> axes(chart)]]

-----------------------------------------------------------------------------
(* What the user does *)

pickRange(r) == r # choice.range /\ Rerender([choice EXCEPT !.range = r])

\* The demo does not offer Person.
setDim(d) ==
  /\ onPage = "spend" /\ d # choice.dim /\ (dataMode = "mock" => d # "person")
  /\ Rerender([choice EXCEPT !.dim = d])

\* Another page, whose hooks start afresh; answers to the page that has gone
\* find nobody.  Spend starts by team.
goTo(page, k) ==
  /\ page # onPage /\ (k # NoGroup => page = "keys")
  /\ onPage' = page /\ openKey' = k /\ list' = seedList
  /\ choice' = [choice EXCEPT !.dim = "team"]
  /\ held' = FirstState(page, choice') /\ asked' = load(PathOf(page, choice'))
  /\ out' = {}
  /\ UNCHANGED <<dataMode, growth, outages>>

\* A key of the list, or back to all of them: the page stays.
chooseKey(k) ==
  /\ onPage = "keys" /\ k # openKey
  /\ openKey' = k /\ out' = {}
  /\ UNCHANGED <<dataMode, onPage, choice, list, held, asked, growth, outages>>

\* "Export CSV", enabled once the view is loaded and has rows.
downloadCsv ==
  /\ onPage = "spend" /\ Live.loaded /\ Figures[Live.data].rows # {}
  /\ out' = {[kind |-> "csv", view |-> Live.data, lines |-> spendCsv(Figures[Live.data].rows)]}
  /\ UNCHANGED <<dataMode, onPage, choice, keysVars, held, asked, growth, outages>>

\* Mutant: the link takes every group for a team.
hrefOfTeam(dim, id) == [dim |-> "team", id |-> id]

\* A row's link to the receipts behind it.  Providers and the rows that the
\* server marks noDrill, which have none, are left out.
trafficHref(dim, id) == [dim |-> dim, id |-> id]

\* The requests that Traffic lists for a link: it has no filter for a person, and
\* takes a project by its id.
Selects(href, c) ==
  CASE href.dim = "person"  -> TRUE
    [] href.dim = "project" -> c.projectId = href.id
    [] OTHER                -> c[href.dim] = href.id

\* BreakdownTable: a row is clicked.
drill ==
  /\ onPage = "spend" /\ Live.loaded
  /\ \E r \in Figures[Live.data].rows :
       out' = {[kind |-> "row", view |-> Live.data, row |-> r,
                href |-> trafficHref(choice.dim, r.id)]}
  /\ UNCHANGED <<dataMode, onPage, choice, keysVars, held, asked, growth, outages>>

\* The label of a bar is the day of the year.
dayLabel(d) == (d - NewYear) % Year

\* useWindow reads the label as the last such day that is not to come.
dayOf(label) ==
  LET d == ((Today - NewYear) \div Year) * Year + NewYear + label
  IN IF 4 * (d - 1) > Clock THEN d - Year ELSE d

\* The window of Traffic, in quarters: the range, narrowed to a day.
useWindow(range, label) ==
  [since |-> Max({Clock - Quarters[range], 4 * (dayOf(label) - 1)}), before |-> 4 * dayOf(label)]

\* TrendChart: the bar of a day is clicked.  The server's buckets for a range of
\* a day or less are finer, and link to their own limits.
openBar(d) ==
  /\ onPage = "spend" /\ Live.loaded /\ d \in charted(Live.data)
  /\ Live.data.at # Demo => Quarters[choice.range] > 4
  /\ out' = {[kind |-> "bar", day |-> d, shown |-> Live.data.path.range, range |-> choice.range,
               window |-> useWindow(choice.range, dayLabel(d))]}
  /\ UNCHANGED <<dataMode, onPage, choice, keysVars, held, asked, growth, outages>>

\* Requests are made, and a key may go.
LedgerGrows ==
  /\ growth < MaxGrowth /\ growth' = growth + 1 /\ out' = {}
  /\ UNCHANGED <<dataMode, onPage, choice, keysVars, held, asked, outages>>

SpendNext ==
  \/ \E r \in DOMAIN Quarters : pickRange(r)
  \/ \E d \in Dims : setDim(d)
  \/ \E page \in PollingPages, k \in KeyIds \cup {NoGroup} : goTo(page, k)
  \/ \E k \in KeyIds \cup {NoGroup} : chooseKey(k)
  \/ \E d \in 1 .. Today : openBar(d)
  \/ downloadCsv \/ drill \/ LedgerGrows \/ poll
  \/ \E i \in 1 .. MaxAsked : ServerReads(i) \/ liveAnswer(i) \/ liveFailure(i)

\* The interval fires, and the server answers what it is asked.
SpendFairness ==
  /\ WF_spendVars(poll)
  /\ \A i \in 1 .. MaxAsked : WF_spendVars(ServerReads(i) \/ liveAnswer(i))

SpendSpec == SpendInit /\ [][SpendNext]_spendVars /\ SpendFairness

-----------------------------------------------------------------------------
(* Properties *)

Made(kind) == {x \in out : x.kind = kind}

\* With the control plane, a file that is exported holds the range and the
\* dimension on the screen, however late the answers of an earlier choice come.
FileIsOfChoice == dataMode = "api" => \A file \in Made("csv") : file.view.path = path

\* Once loaded, a view stays loaded until its user chooses another: no late
\* answer of another choice puts the page back to waiting.
LoadedStays == [][
  (Live.loaded /\ UNCHANGED <<onPage, choice>>) => Live'.loaded]_spendVars

\* What was spent in all, in a quarter of each day: by the demo's teams, or
\* with a price in the ledger.
Spent(at) ==
  [d \in 1 .. Today |->
    IF at = Demo THEN SumOver(DOMAIN ModelWeight, LAMBDA t : ByTeam[d][t])
    ELSE SumOver({c \in Ledger(at) : c.priced}, LAMBDA c : c.spend[d])]

\* "the breakdown and the trend reconcile to the same totals" (spend-data.ts:4):
\* by every dimension the rows add up to what was spent in the window, and the
\* bars of each day, the others folded in, to what was spent on that day.
TotalsReconcile ==
  onPage = "spend" /\ Live.loaded =>
    LET view  == Live.data
        shown == Figures[view]
    IN
    /\ SumOver(shown.rows, LAMBDA r : r.spendUsd)
         = Trailing(Spent(view.at), Quarters[view.path.range], 0)
    /\ \A d \in charted(view) :
         SumOver(DOMAIN shown.bars[d], LAMBDA i : shown.bars[d][i]) = 4 * Spent(view.at)[d]

\* An exported file is whole: its figures add up to what was spent in the
\* window, whatever part of it has no price, and it has a line for every group.
FileAddsUp ==
  \A file \in Made("csv") :
    /\ SumOver({l \in file.lines : l.spend # NoAnswer}, LAMBDA l : l.spend)
         = Trailing(Spent(file.view.at), Quarters[file.view.path.range], 0)
    /\ \A c \in Cells(file.view) :
         \E l \in file.lines : l.id = GroupOf(file.view, c)

\* "the axis carries round values" (charts.tsx:165): no bar is cut off, the top
\* tick is the first at or above the highest, and there are at most five.
AxisFits ==
  onPage = "spend" /\ Live.loaded =>
    \A ticks \in Figures[Live.data].axes :
      LET spent   == {4 * Spent(Live.data.at)[d] : d \in charted(Live.data)}
          highest == 100 * Max(spent)
      IN /\ ticks[Len(ticks)] >= highest /\ Len(ticks) <= 5
         /\ Len(ticks) > 1 => ticks[Len(ticks) - 1] < highest

\* "Click any row to open the receipts behind it" (spend.tsx:415): what Traffic
\* selects by the link makes up the row, no more and no less.  That does not hold
\* of the control plane's projects, whose row has the name that no id is equal to,
\* so that nothing is selected, nor of its persons, for whom everything is.
RowOpensItsReceipts ==
  \A x \in Made("row") :
    LET selected == {c \in Cells(x.view) : Selects(x.href, c)}
        Spend(priced) == SumOver({c \in selected : c.priced = priced},
          LAMBDA c : Trailing(c.spend, Quarters[x.view.path.range], 0))
    IN (dataMode = "api" /\ x.view.path.dim \notin {"project", "person"})
         => Spend(TRUE) = x.row.spendUsd /\ Spend(FALSE) = x.row.unpriced

\* The bar of a day opens what the range has of that very day, across a new year
\* too, and for a range of more than a day that is never nothing, where the chart is
\* of the range: in the demo it stays that of the range the page was opened with.
BarOpensItsDay ==
  \A x \in Made("bar") :
    LET opened == {q \in 0 .. 4 * Today - 1 : x.window.since <= q /\ q < x.window.before}
        day    == {q \in 4 * (x.day - 1) .. 4 * x.day - 1 : q >= Clock - Quarters[x.range]}
    IN opened = day /\ (x.shown = x.range /\ Quarters[x.range] > 4 => day # {})

\* A key that the server has all along is found, whether its page is opened
\* from the list or by a link, before /keys has been answered.
OpenKeyIsFound ==
  onPage = "keys" /\ openKey \in KeysAt(MaxGrowth) => openKey \in list

\* A view that is waited for is shown in the end, though requests fail, unless
\* its user turns to other views for ever.
ViewLoads == []<>(Live.loaded) \/ []<><<path' # path>>_spendVars

\* Rows, bars, file and axis are four computations of the same figures, and agree
\* on what was spent.
FiguresReconcile == TotalsReconcile /\ FileAddsUp /\ AxisFits

\* What the page leads to holds what the page shows, be it a row, a bar or a key.
LinksOpenWhatIsShown == RowOpensItsReceipts /\ BarOpensItsDay /\ OpenKeyIsFound

\* The page follows its user's choice: nothing of an earlier one is exported, no
\* late answer takes the view away, and in the end the view comes.
ViewsFollowChoice == []FileIsOfChoice /\ LoadedStays /\ ViewLoads
=============================================================================
