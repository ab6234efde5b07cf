---------------------------- MODULE ReceiptRows -----------------------------
(***************************************************************************)
(* The receipts a tab of the usage console holds outside its Traffic list  *)
(* (class ReceiptStream, usage-console/console/src/state/app-state.tsx):   *)
(* the live rows, newest arrival first, that the Overview and Keys pages   *)
(* read, and the copies by id that the drawer shows.                       *)
(*                                                                         *)
(* With the control plane, events wait in a queue that a timer flushes as  *)
(* one batch, and pages of the Traffic list bring copies of their own.     *)
(* With VITE_DATA=mock a timer makes receipts and settles the streamed     *)
(* ones.  All receipts are of one key and one model.                       *)
(*                                                                         *)
(* A receipt is "open" before it has settled.  In the demo it is then in   *)
(* flight.  The control plane never says so: what was served it sends at   *)
(* once, and anew when its token counts are in (stream.go in               *)
(* usage-console/server/internal/openmeter).                               *)
(***************************************************************************)
EXTENDS Lists, SequencesExt, FiniteSetsExt

CONSTANTS
  RowIds,        \* receipts; the seed is the first of them
  FirstRow,
  VerdictOf,     \* what the gateway did: "allowed", "blocked" or "truncated"
  RowCap,        \* the live rows kept (600 in the code)
  ByIdCap,       \* the copies kept (20,000 in the code)
  MaxStreams,    \* the demo's receipts that may stream at a time (7 in the code)
  MaxAsides      \* bound: events that do not come, and pages read

NoPrice == -1
NoPage  == [id |-> FirstRow, state |-> "none"]

ASSUME RowAssumptions ==
  /\ FirstRow \in RowIds /\ RowCap \in Nat \ {0} /\ MaxStreams \in Nat \ {0}
  /\ ByIdCap \in Nat /\ ByIdCap >= RowCap + MaxStreams - 1 /\ MaxAsides \in Nat
  /\ VerdictOf \in [RowIds -> {"allowed", "blocked", "truncated"}]

VARIABLES
  rowsMode,     \* "api" or "mock"
  made,         \* how far each receipt is, where it is made
  liveRows,     \* rows
  byId,         \* in the order of insertion
  pending,      \* events that wait for the flush
  readPage,     \* a receipt on its way in a page of the Traffic list
  heard,        \* history: receipts whose settled copy a batch has brought
  joined,       \* history: those new to the rows that a batch brought twice
  overtaken,    \* history: those whose page was read before they settled
  asides

rowsVars == <<rowsMode, made, liveRows, byId, pending, readPage, heard, joined, overtaken, asides>>

Copies == [id : RowIds, state : {"open", "settled"}]
RowIdsOf(s) == {s[i].id : i \in DOMAIN s}

RowsTypeOK ==
  /\ rowsMode \in {"api", "mock"} /\ made \in [RowIds -> {"absent", "open", "settled"}]
  /\ Len(liveRows) <= RowCap /\ Range(liveRows) \subseteq Copies
  /\ Len(byId) <= ByIdCap /\ Range(byId) \subseteq Copies
  /\ Cardinality(RowIdsOf(byId)) = Len(byId)
  /\ \A r \in Range(liveRows) \cup Range(byId) \cup Range(pending) :
       made[r.id] \in {r.state, "settled"}

\* hydrate() may read a receipt before its tokens are in, and the hub's next poll
\* may send what it has read; the fixtures hold no receipt that is open.
RowsInit ==
  /\ rowsMode \in {"api", "mock"}
  /\ \E state \in {"open", "settled"} :
       /\ state = "open" => rowsMode = "api" /\ VerdictOf[FirstRow] = "allowed"
       /\ made = [id \in RowIds |-> IF id = FirstRow THEN state ELSE "absent"]
       /\ liveRows = <<[id |-> FirstRow, state |-> state]>>
  /\ byId = liveRows /\ readPage = NoPage
  /\ pending = <<>> \/ (rowsMode = "api" /\ pending = liveRows)
  /\ heard = {} /\ joined = {} /\ overtaken = {} /\ asides = 0

-----------------------------------------------------------------------------
(* The class *)

\* byId is a Map: a receipt it has moves to the end, and past the cap the
\* oldest goes.
rememberCopy(copies, r) ==
  LET kept == Append(RowsAt(copies, {i \in DOMAIN copies : copies[i].id # r.id}), r)
  IN IF Len(kept) > ByIdCap THEN Tail(kept) ELSE kept

\* "Known means in the live rows: byId also holds receipts loaded elsewhere"
\* (app-state.tsx:213).
knownIn(rows, copies) == RowIdsOf(rows)

\* Mutant: every event is a new row.
patchedNever(rows, batch) == rows

\* Rows that the batch settles are replaced where they are.
patched(rows, batch) ==
  [i \in DOMAIN rows |->
    IF rows[i].id \in RowIdsOf(batch)
      THEN batch[Max({j \in DOMAIN batch : batch[j].id = rows[i].id})]
      ELSE rows[i]]

\* What becomes a new row.  `known` is not added to while the batch is gone
\* through: a new receipt that it brings twice is new twice.
fresh(batch, known) == RowsAt(batch, {i \in DOMAIN batch : batch[i].id \notin known})

cutRows(rows) == SubSeq(rows, 1, Min({RowCap, Len(rows)}))

\* upsertMany: new rows on top, the last of the batch first.
upsertMany(batch) ==
  LET new == fresh(batch, knownIn(liveRows, byId)) IN
  /\ liveRows' = IF new = <<>> THEN patched(liveRows, batch)
                 ELSE cutRows(Reverse(new) \o patched(liveRows, batch))
  /\ byId' = FoldLeft(rememberCopy, byId, batch)
  /\ heard' = heard \cup {r.id : r \in {x \in Range(batch) : x.state = "settled"}}
  /\ joined' = joined \cup {new[i].id : i \in {j \in DOMAIN new :
                              \E k \in 1 .. j - 1 : new[k].id = new[j].id}}

-----------------------------------------------------------------------------
(* With the control plane *)

\* The hub's poll finds a request, or the tokens of one it has sent without: a
\* request that was not served waits for none.  The event may not come: the
\* connection was lost, or Traffic has narrowed the stream.
ReceiptEvent(id) ==
  /\ rowsMode = "api" /\ made[id] # "settled"
  /\ \E state \in {"open", "settled"} \ {made[id]} :
       /\ state = "open" => VerdictOf[id] = "allowed"
       /\ made' = [made EXCEPT ![id] = state]
       /\ \/ pending' = Append(pending, [id |-> id, state |-> state]) /\ UNCHANGED asides
          \/ asides < MaxAsides /\ asides' = asides + 1 /\ UNCHANGED pending
  /\ UNCHANGED <<rowsMode, liveRows, byId, readPage, heard, joined, overtaken>>

flushRows ==
  /\ pending # <<>> /\ pending' = <<>>
  /\ upsertMany(pending)
  /\ UNCHANGED <<rowsMode, made, readPage, overtaken, asides>>

\* The server reads a page of the Traffic list.
PageRead(id) ==
  /\ rowsMode = "api" /\ readPage = NoPage /\ made[id] # "absent"
  /\ asides < MaxAsides /\ asides' = asides + 1
  /\ readPage' = [id |-> id, state |-> made[id]]
  /\ UNCHANGED <<rowsMode, made, liveRows, byId, pending, heard, joined, overtaken>>

\* Its receipts are remembered, whatever is known of them by then.
pageComes ==
  /\ readPage # NoPage /\ readPage' = NoPage
  /\ byId' = rememberCopy(byId, readPage)
  /\ overtaken' = IF readPage.state = "open" /\ readPage.id \in heard
                  THEN overtaken \cup {readPage.id} ELSE overtaken
  /\ UNCHANGED <<rowsMode, made, liveRows, pending, heard, joined, asides>>

-----------------------------------------------------------------------------
(* The demo *)

Streaming == {id \in RowIds : made[id] = "open"}

\* simulate: a receipt is made, streamed or not.  One comes every 0.7 s at most
\* and streams for 4.4 s at most, which is how MaxStreams can.
simulatedTick(id) ==
  /\ rowsMode = "mock" /\ made[id] = "absent"
  /\ \E state \in {"open", "settled"} :
       /\ state = "open" => Cardinality(Streaming) < MaxStreams
       /\ made' = [made EXCEPT ![id] = state]
       /\ upsertMany(<<[id |-> id, state |-> state]>>)
  /\ UNCHANGED <<rowsMode, pending, readPage, overtaken, asides>>

\* "settle the row in place when the stream ends" (app-state.tsx:197).
settleCopy(c) == [c EXCEPT !.state = "settled"]

\* A streamed receipt's timer; one that byId has lost is left alone.
simulatedSettle(id) ==
  /\ rowsMode = "mock" /\ made[id] = "open"
  /\ made' = [made EXCEPT ![id] = "settled"]
  /\ IF id \in RowIdsOf(byId)
       THEN upsertMany(<<settleCopy(CHOOSE c \in Range(byId) : c.id = id)>>)
       ELSE UNCHANGED <<liveRows, byId, heard, joined>>
  /\ UNCHANGED <<rowsMode, pending, readPage, overtaken, asides>>

RowsNext ==
  \/ \E id \in RowIds : ReceiptEvent(id) \/ PageRead(id) \/ simulatedTick(id) \/ simulatedSettle(id)
  \/ flushRows \/ pageComes

-----------------------------------------------------------------------------
(* What the pages read *)

\* Rows in flight are left out, which only the demo has.
counted(r) == rowsMode = "api" \/ r.state = "settled"

\* The server prices what was served (complete); in the demo a refused request
\* costs nothing (makeReceipt).
unpriced == IF rowsMode = "api" THEN {"blocked", "truncated"} ELSE {"truncated"}

costUsd(r) == IF VerdictOf[r.id] \in unpriced THEN NoPrice
              ELSE IF VerdictOf[r.id] = "allowed" /\ r.state = "settled" THEN 1 ELSE 0

\* KeyDetail's figures for the model.
topModels ==
  LET done   == {i \in DOMAIN liveRows : counted(liveRows[i])}
      priced == {i \in done : costUsd(liveRows[i]) # NoPrice}
  IN [n |-> Cardinality(done), unpriced |-> Cardinality(done) - Cardinality(priced),
      cost |-> SumFunction([i \in priced |-> costUsd(liveRows[i])])]

\* The table of the models, and the number of receipts it is said to be from,
\* which counts rows in flight too.
modelTable ==
  LET m == topModels IN
  [from |-> Len(liveRows), requests |-> m.n, noPrice |-> m.unpriced,
   cost |-> IF m.unpriced > 0 /\ m.cost = 0 THEN NoPrice ELSE m.cost]

\* "Recent blocks", which lists rows in flight too.
blocks == RowsAt(liveRows, {i \in DOMAIN liveRows : VerdictOf[liveRows[i].id] # "allowed"})

-----------------------------------------------------------------------------
(* Properties *)

\* The rows that Keys counts and lists hold a receipt once, whatever the
\* batches, the pages and the cap do, unless one batch brought it twice: that "is
\* new, in its settled form" (app-state.tsx:223), and yet becomes two rows.
OneRowPerReceipt ==
  /\ \A i, j \in DOMAIN liveRows : i # j /\ liveRows[i].id = liveRows[j].id
       => liveRows[i].id \in joined
  /\ RowIdsOf(blocks) \cap joined = {} => Cardinality(RowIdsOf(blocks)) = Len(blocks)

\* Where no row is there twice, the top models of a key count a request once, and
\* its cost once: requests and spend are those of the receipts that are among the
\* rows, in the demo of those whose usage has come.  They are never from more
\* receipts than the table says.
FiguresCountOnce ==
  LET done == {r \in Range(liveRows) : counted(r)}
      Numbered(rs) == Cardinality({r.id : r \in rs})
      served == Numbered({r \in done : VerdictOf[r.id] = "allowed" /\ r.state = "settled"})
      table  == modelTable
  IN /\ table.requests <= table.from
     /\ RowIdsOf(liveRows) \cap joined = {} =>
          /\ table.requests = Numbered(done)
          /\ table.noPrice = Numbered({r \in done : VerdictOf[r.id] \in unpriced})
          /\ table.cost \in {served} \cup IF table.noPrice > 0 /\ served = 0 THEN {NoPrice} ELSE {}

\* A receipt whose settled copy has come is shown as open no longer: not among the
\* rows, unless its two copies came in one batch; not in the drawer, unless a page
\* that was read before it settled came later.
SettlesInPlace ==
  \A id \in heard :
    LET Open(s) == [id |-> id, state |-> "open"] \in Range(s) IN
    /\ Open(liveRows) => id \in joined
    /\ Open(byId) => id \in overtaken

\* What a batch brings that was no row becomes one, though the drawer knew it
\* from a page or the rows had lost it, unless the batch alone is more than the
\* rows may be.
ArrivalsAreShown == [][
  flushRows => \/ Len(pending) > RowCap
               \/ RowIdsOf(pending) \subseteq RowIdsOf(liveRows) \cup RowIdsOf(liveRows')]_rowsVars

\* In the demo a row that streams has a timer that will settle it, and the copy
\* that the timer needs: none streams for ever, whatever the caps throw out.
StreamsWillSettle ==
  \A r \in Range(liveRows) :
    (rowsMode = "mock" /\ r.state = "open")
      => made[r.id] = "open" /\ r.id \in RowIdsOf(byId)

\* The rows follow the receipts: each one that comes becomes one row, is counted
\* once, and settles where it stands, but for those that one batch brings twice.
RowsFollowReceipts ==
  [](OneRowPerReceipt /\ FiguresCountOnce /\ SettlesInPlace /\ StreamsWillSettle)
    /\ ArrivalsAreShown

RowsSpec == RowsInit /\ [][RowsNext]_rowsVars
=============================================================================
