---------------------------- MODULE TrafficFeed -----------------------------
(***************************************************************************)
(* The usage console's Traffic list in the browser                         *)
(* (usage-console/console/src/state/traffic-feed.ts, state/app-state.tsx,  *)
(* pages/traffic.tsx): the first page of a query, older pages as the       *)
(* reader scrolls, and the tab's one event stream, narrowed to the page's  *)
(* filters, that settles rows and puts new ones on top.                    *)
(*                                                                         *)
(* The three answers race.  A request is read by the server in one step    *)
(* (FirstRead, OlderRead) and its answer reaches the page in a later one;  *)
(* an event of the stream waits on the wire, then in the queue that a      *)
(* timer flushes.  A handler of the page, with the render and the effects  *)
(* it causes and their microtasks, is one step.                            *)
(*                                                                         *)
(* A receipt is its id; a page's and an event's copy of it says how far it *)
(* was then.  Receipts may arrive late, that is, after newer ones.         *)
(***************************************************************************)
EXTENDS Lists, SequencesExt

CONSTANTS
  Ids, Early,           \* the receipts, and those stored from the start
  Streamed,             \* those that are stored before their tokens are
  TsOf,                 \* their times, in 1 .. MaxTs
  MaxTs,
  Queries,              \* what the filters and the window can be
  FilterOf, Selects,    \* a query's filters, and the receipts they select
  SinceOf, BeforeOf,    \* its window; an open one has no end (NoTs)
  Page, MaxRows,        \* PAGE, MAX_ROWS
  MaxFaults,            \* bound: failed requests, lost events, cut-short reads
  MaxMoves              \* bound: changes of the query, reloads, pauses

NoTs      == 0
NoId      == 0
NoQuery   == "closed"   \* the page is not shown
NoFilters == "all"      \* the empty query string of the stream

ASSUME FeedAssumptions ==
  /\ IsFiniteSet(Ids) /\ Ids \subseteq Nat \ {NoId}
  /\ Early \subseteq Ids /\ Streamed \subseteq Ids
  /\ MaxTs \in Nat \ {0} /\ TsOf \in [Ids -> 1 .. MaxTs]
  /\ NoQuery \notin Queries
  /\ SinceOf \in [Queries -> Nat] /\ BeforeOf \in [Queries -> Nat]
  /\ \A q \in Queries : Selects[FilterOf[q]] \subseteq Ids
  /\ \A q \in Queries : FilterOf[q] = NoFilters => Selects[FilterOf[q]] = Ids
  \* A page holds more than the receipts of one instant.
  /\ \A t \in 1 .. MaxTs : Cardinality({id \in Ids : TsOf[id] = t}) < Page
  /\ Page \in Nat /\ MaxRows \in Nat \ {0} /\ MaxFaults \in Nat /\ MaxMoves \in Nat

VARIABLES
  stored,      \* the server's copy of each receipt
  query,       \* the page's query (key)
  feed,        \* useApiFeed's state, for that query
  loadingOlder, dropped, sampledFor,
  first,       \* the request for the first page
  older,       \* the request for an older page
  stream,      \* the tab's EventSource and what the server sends over it
  wire, queue, \* events on their way, and those waiting for the flush
  frozenTop,   \* the time the paused view is held at
  holes,       \* history: how rows of this load came to be missing
  faults, moves

pageVars   == <<query, loadingOlder, sampledFor>>
streamVars == <<stream, wire, queue>>
feedVars   == <<stored, pageVars, feed, dropped, first, older, streamVars, frozenTop, holes, faults, moves>>

(***************************************************************************)
(* Data.  An open receipt is one whose token counts are not in yet.        *)
(***************************************************************************)
Misses == {"lost", "sampled", "dropped", "outrun"}
Stages == {"none", "sent", "read", "failed"}
States == {"absent", "open", "settled"}
Rows   == [id : Ids, state : {"open", "settled"}]
Notices == [id : {NoId}, state : {"dropped", "sampling", "unsampled"}]
Notice(what) == [id |-> NoId, state |-> what]
Row(id) == [id |-> id, state |-> stored[id]]
Ts(row) == TsOf[row.id]
IdsOf(rows) == {rows[i].id : i \in DOMAIN rows}

\* What the filters and the window of q let through.
inWindow(q, id) == SinceOf[q] <= TsOf[id] /\ (BeforeOf[q] # NoTs => TsOf[id] < BeforeOf[q])
matches(q, id)  == id \in Selects[FilterOf[q]] /\ inWindow(q, id)

\* rows.filter(...): the rows of the receipts in ids.
Filtered(rows, ids) == RowsAt(rows, {i \in DOMAIN rows : rows[i].id \in ids})

\* Sorted as .sort((a, b) => b.ts - a.ts): newest first, and stable.
NewestFirst(rows) ==
  LET ahead == [i \in DOMAIN rows |->
                  {j \in DOMAIN rows : \/ Ts(rows[j]) > Ts(rows[i])
                                       \/ Ts(rows[j]) = Ts(rows[i]) /\ j < i}]
      order == Ranked(DOMAIN rows, ahead)
  IN  [k \in DOMAIN rows |-> rows[order[k]]]

\* Date.now(): nothing that is stored lies ahead.
Now == Max({TsOf[id] : id \in {i \in Ids : stored[i] # "absent"}} \cup {1})

\* Mutant: asks from the oldest row on, not from the instant after it.
nextBeforeOldest(f) ==
  IF f.continueBefore # NoTs THEN f.continueBefore
  ELSE IF f.rows = <<>> THEN NoTs ELSE Ts(Last(f.rows))

\* before is exclusive: ask from the instant after the oldest row, or from
\* where the server stopped looking.
nextBefore(f) ==
  IF f.continueBefore # NoTs THEN f.continueBefore
  ELSE IF f.rows = <<>> THEN NoTs ELSE Ts(Last(f.rows)) + 1

NoFeed    == [rows |-> <<>>, loaded |-> FALSE, reachedEnd |-> FALSE, continueBefore |-> NoTs]
NoRequest == [at |-> "none", rows |-> <<>>, continueBefore |-> NoTs]
NoOlder   == [at |-> "none", q |-> NoQuery, stale |-> FALSE, before |-> NoTs,
              rows |-> <<>>, continueBefore |-> NoTs]

FeedTypeOK ==
  /\ stored \in [Ids -> States]
  /\ query \in Queries \cup {NoQuery}
  /\ feed \in [rows : Seq(Rows), loaded : BOOLEAN, reachedEnd : BOOLEAN,
               continueBefore : 0 .. MaxTs + 1]
  /\ loadingOlder \in BOOLEAN /\ dropped \in BOOLEAN /\ sampledFor \in BOOLEAN
  /\ first \in [at : Stages, rows : Seq(Rows), continueBefore : 0 .. MaxTs + 1]
  /\ older \in [at : Stages, q : Queries \cup {NoQuery}, stale : BOOLEAN, before : 0 .. MaxTs + 1,
                rows : Seq(Rows), continueBefore : 0 .. MaxTs + 1]
  /\ stream \in [started : BOOLEAN, query : {FilterOf[q] : q \in Queries} \cup {NoFilters},
                 ready : BOOLEAN, tailed : BOOLEAN, thinned : BOOLEAN, sampling : BOOLEAN]
  /\ wire \in Seq(Rows \cup Notices) /\ queue \in Seq(Rows)
  /\ Len(feed.rows) <= MaxRows + Cardinality(Ids)
  /\ frozenTop \in 0 .. MaxTs
  /\ faults \in 0 .. MaxFaults /\ moves \in 0 .. MaxMoves

FeedInit ==
  /\ stored = [id \in Ids |-> IF id \in Early THEN "settled" ELSE "absent"]
  /\ query = NoQuery /\ feed = NoFeed
  /\ loadingOlder = FALSE /\ dropped = FALSE /\ sampledFor = FALSE
  /\ first = NoRequest /\ older = NoOlder
  /\ stream = [started |-> FALSE, query |-> NoFilters, ready |-> FALSE, tailed |-> FALSE,
               thinned |-> FALSE, sampling |-> FALSE]
  /\ wire = <<>> /\ queue = <<>>
  /\ frozenTop = NoTs
  /\ holes = {} /\ faults = 0 /\ moves = 0

(***************************************************************************)
(* The server: GET /receipts and GET /stream/traffic                       *)
(* (usage-console/server/internal/openmeter/receipts.go and stream.go).    *)
(*                                                                         *)
(* A read (scanRequests and complete) is one step, and so is a change with *)
(* the poll of the hub that finds it: an event may wait on the wire, as it *)
(* waits for the poll.  An instant stands for a second, which is what the  *)
(* times of the events are.                                                *)
(***************************************************************************)
\* EachEvent: the receipts of the window of q that lie before `before`, newest
\* first; of one instant in any fixed order.
ServerOrder(q, before) ==
  LET found == {i \in Ids : stored[i] # "absent" /\ SinceOf[q] <= TsOf[i]
                             /\ (before # NoTs => TsOf[i] < before)}
      ahead == [i \in found |-> {j \in found : \/ TsOf[j] > TsOf[i]
                                               \/ TsOf[j] = TsOf[i] /\ j < i}]
      order == Ranked(found, ahead)
  IN  [k \in DOMAIN order |-> Row(order[k])]

Selected(q, rows) == Filtered(rows, Selects[FilterOf[q]])

\* scanRequests: the first Page rows of q before `before`.
ServerPage(q, before) ==
  LET found == Selected(q, ServerOrder(q, before)) IN SubSeq(found, 1, Min({Page, Len(found)}))

\* The same, where the server reads no further than the n-th receipt
\* (receiptScanCap) and says from where to carry on.  It never stops within the
\* newest instant.
ReadUpTo(q, before, n) ==
  LET order == ServerOrder(q, before) IN
  [rows |-> Selected(q, SubSeq(order, 1, n)), continueBefore |-> Ts(order[n]) + 1]
CutsShort(q, before) ==
  {n \in DOMAIN ServerOrder(q, before) :
     LET order == ServerOrder(q, before) IN
     /\ Ts(order[n]) < Ts(order[1])
     /\ Len(ReadUpTo(q, before, n).rows) < Page}

\* The server answers a request r for rows of q before `before`.
Answers(r, q, before) ==
  {[r EXCEPT !.at = "read", !.rows = ServerPage(q, before), !.continueBefore = NoTs]}
Stops(r, q, before) ==
  {[r EXCEPT !.at = "read", !.rows = ReadUpTo(q, before, n).rows,
             !.continueBefore = ReadUpTo(q, before, n).continueBefore] :
     n \in CutsShort(q, before)}

FirstRead ==
  /\ first.at = "sent"
  /\ \/ first' \in Answers(first, query, BeforeOf[query]) /\ UNCHANGED faults
     \/ /\ faults < MaxFaults /\ faults' = faults + 1
        /\ first' \in Stops(first, query, BeforeOf[query]) \cup {[first EXCEPT !.at = "failed"]}
  \* What was missed up to now is in the page, unless an older copy is there first.
  /\ holes' = CASE first'.at = "failed" -> holes \cup {"failed"}
                [] first'.at = "read" /\ wire \o queue \o feed.rows = <<>> ->
                     holes \ Misses
                [] OTHER -> holes
  /\ UNCHANGED <<stored, pageVars, feed, dropped, older, streamVars, frozenTop, moves>>

OlderRead ==
  /\ older.at = "sent"
  /\ \/ older' \in Answers(older, older.q, older.before) /\ UNCHANGED faults
     \/ /\ faults < MaxFaults /\ faults' = faults + 1
        /\ older' \in Stops(older, older.q, older.before) \cup {[older EXCEPT !.at = "failed"]}
  /\ UNCHANGED <<stored, pageVars, feed, dropped, first, streamVars, frozenTop, holes, moves>>

\* subscribe and the hub's first good read, the baseline: only changes after it
\* are sent.
StreamReady ==
  /\ stream.started /\ ~stream.ready
  /\ stream' = [stream EXCEPT !.ready = TRUE]
  /\ UNCHANGED <<stored, pageVars, feed, dropped, first, older, wire, queue, frozenTop, holes, faults, moves>>

Sends(id) == stream.started /\ stream.ready /\ id \in Selects[stream.query]
Concerns(id) == query # NoQuery /\ matches(query, id)

\* History: the list misses id's change; an older copy may still be to come.
Missed(id, how) ==
  (IF Concerns(id) THEN {IF stream.tailed THEN how ELSE "lost"} ELSE {}) \cup
  (IF id \in IdsOf(wire) THEN {"outrun"} ELSE {})

\* A receipt is stored or settles, and the hub sends it (update); or it is left
\* out: of a sampled stream; of one whose buffer is full, or whose hub could not
\* read so far, of which the stream tells; or silently, because it is older than
\* what the hub reads (streamWindow) or was taken for settled before all of its
\* tokens were in.
ReceiptChanges(id) ==
  /\ stored[id] # "settled"
  /\ stored' = [stored EXCEPT ![id] =
                  IF @ = "absent" /\ id \in Streamed THEN "open" ELSE "settled"]
  /\ \/ /\ wire' = IF Sends(id) THEN Append(wire, [id |-> id, state |-> stored'[id]]) ELSE wire
        /\ holes' = IF Concerns(id) /\ ~(Sends(id) /\ stream.tailed) THEN holes \cup {"lost"} ELSE holes
        /\ UNCHANGED faults
     \/ /\ Sends(id) /\ stream.thinned
        /\ holes' = holes \cup Missed(id, "sampled")
        /\ UNCHANGED <<wire, faults>>
     \/ /\ Sends(id) /\ faults < MaxFaults /\ faults' = faults + 1
        /\ wire' = Append(wire, Notice("dropped"))
        /\ holes' = holes \cup Missed(id, "dropped")
     \/ /\ Sends(id) /\ faults < MaxFaults /\ faults' = faults + 1
        /\ holes' = holes \cup Missed(id, "lost")
        /\ UNCHANGED wire
  /\ UNCHANGED <<pageVars, feed, dropped, first, older, stream, queue, frozenTop, moves>>

\* The server starts or stops sampling, and says so first (external: the event
\* is part of the console's protocol, which no server of the repository sends).
StreamThins ==
  /\ stream.ready
  /\ IF stream.thinned THEN UNCHANGED faults ELSE faults < MaxFaults /\ faults' = faults + 1
  /\ stream' = [stream EXCEPT !.thinned = ~@]
  /\ wire' = Append(wire, Notice(IF stream.thinned THEN "unsampled" ELSE "sampling"))
  /\ UNCHANGED <<stored, pageVars, feed, dropped, first, older, queue, frozenTop, holes, moves>>

\* The connection breaks; the EventSource opens it again by itself.
StreamBreaks ==
  /\ stream.ready /\ faults < MaxFaults /\ faults' = faults + 1
  /\ stream' = [stream EXCEPT !.ready = FALSE, !.thinned = FALSE]
  /\ wire' = <<>>
  /\ holes' = IF query # NoQuery THEN holes \cup {"lost"} ELSE holes
  /\ UNCHANGED <<stored, pageVars, feed, dropped, first, older, queue, frozenTop, moves>>

(***************************************************************************)
(* The tab's stream (class ReceiptStream).                                 *)
(***************************************************************************)
\* applyLive: settles known rows in place and puts new ones on top.
Latest(batch, id) == batch[Max({i \in DOMAIN batch : batch[i].id = id})]
Fresh(rows, batch) ==
  LET firsts == {i \in DOMAIN batch :
                   /\ batch[i].id \notin IdsOf(rows)
                   /\ \A j \in 1 .. i - 1 : batch[j].id # batch[i].id}
      news == RowsAt(batch, firsts)
  IN  NewestFirst([k \in DOMAIN news |-> Latest(batch, news[k].id)])
UpToMax(rows) == SubSeq(rows, 1, Min({MaxRows, Len(rows)}))

\* Mutant: a receipt that settles is put on top like a new one.
applyLiveOnTop(rows, batch) ==
  UpToMax(Fresh(<<>>, batch) \o Filtered(rows, Ids \ IdsOf(batch)))

applyLive(rows, batch) ==
  UpToMax(Fresh(rows, batch)
          \o [i \in DOMAIN rows |-> IF rows[i].id \in IdsOf(batch) THEN Latest(batch, rows[i].id)
                                                                  ELSE rows[i]])

\* onReceipts of the page's tailer; a batch with nothing in the window is
\* passed over.  (History: a trimmed row that no older page will bring back,
\* because the next one starts further down or is under way.)
onReceipts(batch) ==
  LET live == Filtered(batch, {id \in Ids : inWindow(query, id)})
      rows == applyLive(feed.rows, live)
      gone == (IdsOf(feed.rows) \cup IdsOf(live)) \ IdsOf(rows)
      next == [feed EXCEPT !.rows = rows, !.reachedEnd = @ /\ Len(rows) < MaxRows]
      lost == /\ gone # {}
              /\ \/ \E id \in gone : TsOf[id] >= nextBefore(next)
                 \/ older.at # "none" \/ first.at # "none"
  IN  IF live = <<>> THEN UNCHANGED <<feed, holes>>
      ELSE /\ feed' = next
           /\ holes' = IF lost THEN holes \cup {"trimmed"} ELSE holes

\* An event arrives: a receipt joins the queue, the rest is told at once.
StreamEvent ==
  /\ wire # <<>>
  /\ wire' = Tail(wire)
  /\ LET event == Head(wire) IN
     /\ queue' = IF event.id # NoId THEN Append(queue, event) ELSE queue
     /\ dropped' = (dropped \/ (event.state = "dropped" /\ stream.tailed))
     /\ stream' = [stream EXCEPT !.sampling = CASE event.state = "sampling" -> TRUE
                                                [] event.state = "unsampled" -> FALSE
                                                [] OTHER -> @]
     /\ sampledFor' = (sampledFor \/ (event.state = "sampling" /\ query # NoQuery))
  /\ UNCHANGED <<stored, query, feed, loadingOlder, first, older, frozenTop, holes, faults, moves>>

\* The timer: the batch goes to the page, if that is tailing.
flush ==
  /\ queue # <<>>
  /\ queue' = <<>>
  /\ IF stream.tailed THEN onReceipts(queue) ELSE UNCHANGED <<feed, holes>>
  /\ UNCHANGED <<stored, pageVars, dropped, first, older, stream, wire, frozenTop, faults, moves>>

\* Another surface subscribes, which starts the stream if nothing has.
subscribe ==
  /\ ~stream.started
  /\ stream' = [stream EXCEPT !.started = TRUE]
  /\ UNCHANGED <<stored, pageVars, feed, dropped, first, older, wire, queue, frozenTop, holes, faults, moves>>

\* A new connection: the old one's events are gone, and it is not sampled.
connected(filters) ==
  [started |-> TRUE, query |-> filters, ready |-> FALSE, tailed |-> FALSE,
   thinned |-> FALSE, sampling |-> FALSE]

\* A window that has closed has no tail.
Tails(q) == q # NoQuery /\ ~(BeforeOf[q] # NoTs /\ BeforeOf[q] <= Now)

\* Mutant: the microtask of untail widens the stream whether or not the next
\* query has narrowed it meanwhile.
retailWidened(q) ==
  [IF stream.tailed /\ stream.query # NoFilters THEN connected(NoFilters) ELSE stream
   EXCEPT !.started = TRUE, !.tailed = Tails(q)]

\* The page's effect ends and, for q, runs again: untail, tail, and then the
\* microtask that widens the stream unless it was narrowed again.
retail(q) ==
  LET narrow == Tails(q) /\ ~(stream.started /\ stream.query = FilterOf[q])
      widen  == ~Tails(q) /\ stream.tailed /\ stream.query # NoFilters
  IN  [CASE narrow -> connected(FilterOf[q])
         [] widen  -> connected(NoFilters)
         [] OTHER  -> stream
       EXCEPT !.tailed = Tails(q)]

(***************************************************************************)
(* The list (useApiFeed).                                                  *)
(***************************************************************************)
\* Mutant: noted only when sampling starts, not for a list that starts later.
sampledStillNever(q) == FALSE

\* The effect that notes that the list of q has been sampled.
sampledStill(q) == q # NoQuery /\ stream.sampling

\* The effect for query q: the last load is put aside, the first page asked
\* for, the stream narrowed.  It runs after the effect that notes, from the
\* connection there was so far, that the stream is sampled; that note names the
\* load it is of, so a new load starts without the old one's.
startLoad(q) ==
  /\ feed' = NoFeed
  /\ dropped' = FALSE
  /\ first' = IF q = NoQuery THEN NoRequest ELSE [NoRequest EXCEPT !.at = "sent"]
  /\ stream' = retail(q)
  /\ wire' = IF [stream' EXCEPT !.tailed = stream.tailed] = stream THEN wire ELSE <<>>
  /\ queue' = <<>>
  /\ sampledFor' = sampledStill(q)
  /\ holes' = IF wire' = <<>> THEN {} ELSE holes \cap {"outrun"}

\* An older page that was asked for before the list was loaded anew.
outdated(o) == IF o.at = "none" THEN o ELSE [o EXCEPT !.stale = TRUE]

\* The filters, the range or the window change, or the page opens.
setFilter(q) ==
  /\ moves < MaxMoves /\ moves' = moves + 1
  /\ q \in Queries /\ q # query
  /\ query' = q
  /\ startLoad(q)
  /\ older' = outdated(older)
  /\ UNCHANGED <<stored, loadingOlder, frozenTop, faults>>

\* The page is left, and with it goes its state; no answer finds it any more.
leavePage ==
  /\ query # NoQuery
  /\ query' = NoQuery
  /\ startLoad(NoQuery)
  /\ older' = NoOlder
  /\ loadingOlder' = FALSE
  /\ frozenTop' = NoTs
  /\ UNCHANGED <<stored, faults, moves>>

\* "Reload the list", which the page offers after drops and after sampling.
wasSampled == stream.sampling \/ sampledFor
reload ==
  /\ moves < MaxMoves /\ moves' = moves + 1
  /\ query # NoQuery
  /\ dropped \/ (wasSampled /\ ~stream.sampling)
  /\ startLoad(query)
  /\ older' = outdated(older)
  /\ UNCHANGED <<stored, query, loadingOlder, frozenTop, faults>>

\* The first page can race the stream; keep whichever copy is already there.
mergeNewer(have, page) ==
  IF have = <<>> THEN page
  ELSE NewestFirst(have \o Filtered(page, Ids \ IdsOf(have)))
\* Mutant: a failed first page leaves the list loading.
firstFailedWaits ==
  /\ first.at = "failed"
  /\ first' = NoRequest
  /\ UNCHANGED <<stored, pageVars, feed, dropped, older, streamVars, frozenTop, holes, faults, moves>>

firstFailed ==
  /\ first.at = "failed"
  /\ first' = NoRequest
  /\ feed' = [feed EXCEPT !.loaded = TRUE]
  /\ UNCHANGED <<stored, pageVars, dropped, older, streamVars, frozenTop, holes, faults, moves>>

\* The first page arrives.  (History: a row of the stream that is older than
\* the page becomes the last one, and older pages start from there.)
firstAnswered ==
  /\ first.at = "read"
  /\ first' = NoRequest
  /\ feed' = [rows |-> mergeNewer(feed.rows, first.rows), loaded |-> TRUE,
              reachedEnd |-> Len(first.rows) < Page /\ first.continueBefore = NoTs,
              continueBefore |-> first.continueBefore]
  /\ holes' = IF /\ first.continueBefore = NoTs /\ Len(first.rows) = Page
                 /\ \E r \in Range(feed.rows) : Ts(r) < Ts(Last(first.rows))
              THEN holes \cup {"overtaken"} ELSE holes
  /\ UNCHANGED <<stored, pageVars, dropped, older, streamVars, frozenTop, faults, moves>>

\* The rows of a view that is held at the time top, or is not held.
Held(rows, top) ==
  IF top = NoTs THEN rows ELSE Filtered(rows, {id \in Ids : TsOf[id] <= top})
visible == Held(feed.rows, frozenTop)

\* The reader nears the end of the table, which is there unless it would be
\* empty.
NearEnd == query # NoQuery /\ visible # <<>>

\* The next page is asked for, one at a time.
loadOlder ==
  /\ NearEnd
  /\ ~loadingOlder /\ ~feed.reachedEnd /\ feed.loaded /\ nextBefore(feed) # NoTs
  /\ loadingOlder' = TRUE
  /\ older' = [NoOlder EXCEPT !.at = "sent", !.q = query, !.before = nextBefore(feed)]
  /\ UNCHANGED <<stored, query, feed, dropped, sampledFor, first, streamVars, frozenTop, holes, faults, moves>>

\* The answer is for the query that the list shows, or is dropped.
ForThisQuery == query = older.q

\* Mutant: rows that are there already are appended once more.
appendedAgain(rows, page) == page

\* The rows of an older page that the list does not have.
notSeen(rows, page) == Filtered(page, Ids \ IdsOf(rows))

olderAnswered ==
  /\ older.at = "read"
  /\ older' = NoOlder
  /\ loadingOlder' = (loadingOlder /\ ~ForThisQuery)
  /\ LET fresh == notSeen(feed.rows, older.rows)
         ended == older.continueBefore = NoTs /\ (Len(older.rows) < Page \/ fresh = <<>>)
     IN  /\ feed' = IF ForThisQuery
                    THEN [feed EXCEPT !.rows = @ \o fresh, !.reachedEnd = ended,
                                      !.continueBefore = older.continueBefore]
                    ELSE feed
         \* History: late rows, which the stream has put on top, can make up a
         \* full page in which nothing is new, although more lies below it.
         /\ holes' = IF ~ForThisQuery THEN holes
                     ELSE holes \cup (IF older.stale THEN {"outdated"} ELSE {})
                                \cup (IF ended /\ Len(older.rows) = Page THEN {"allSeen"} ELSE {})
  /\ UNCHANGED <<stored, query, dropped, sampledFor, first, streamVars, frozenTop, faults, moves>>

olderFailed ==
  /\ older.at = "failed"
  /\ older' = NoOlder
  /\ loadingOlder' = (loadingOlder /\ ~ForThisQuery)
  /\ UNCHANGED <<stored, query, sampledFor, feed, dropped, first, streamVars, frozenTop, holes, faults, moves>>

\* The reader pauses the list, points at it or moves the focus into it: the
\* view is held at the newest row.
freeze ==
  /\ query # NoQuery /\ frozenTop = NoTs
  /\ moves < MaxMoves /\ moves' = moves + 1
  /\ frozenTop' = IF feed.rows = <<>> THEN Now ELSE Ts(Head(feed.rows))
  /\ UNCHANGED <<stored, pageVars, feed, dropped, first, older, streamVars, holes, faults>>

resume ==
  /\ frozenTop # NoTs
  /\ frozenTop' = NoTs
  /\ UNCHANGED <<stored, pageVars, feed, dropped, first, older, streamVars, holes, faults, moves>>

(***************************************************************************)
(* The specification.                                                      *)
(***************************************************************************)
FeedServer ==
  \/ FirstRead \/ OlderRead \/ StreamReady \/ StreamThins \/ StreamBreaks
  \/ \E id \in Ids : ReceiptChanges(id)

FeedTab ==
  \/ StreamEvent \/ flush \/ subscribe
  \/ firstAnswered \/ firstFailed \/ olderAnswered \/ olderFailed

FeedReader ==
  \/ \E q \in Queries : setFilter(q)
  \/ leavePage \/ reload \/ loadOlder \/ freeze \/ resume

FeedNext == FeedServer \/ FeedTab \/ FeedReader

\* A request does not stay open for ever: the server's answer reaches the page,
\* or the browser gives up on it.
FeedFairness == []<>(first.at = "none") /\ []<>(older.at = "none")

FeedSpec == FeedInit /\ [][FeedNext]_feedVars /\ FeedFairness

(***************************************************************************)
(* Properties.                                                             *)
(***************************************************************************)
\* However pages, older pages and events overlap, no receipt is listed twice.
NoReceiptTwice == Cardinality(IdsOf(feed.rows)) = Len(feed.rows)

\* The list only ever holds receipts that its filters and its window select:
\* nothing of the last query and nothing of a stream that is narrowed to
\* other filters, although the page filters no event itself.
OnlyMatchingRows == query # NoQuery => \A r \in Range(feed.rows) : matches(query, r.id)

\* Nothing is on its way to the list.
Quiet == first.at = "none" /\ older.at = "none" /\ wire = <<>> /\ queue = <<>>

\* The list goes down past id: to its last row, or to where the server says.
ReachesDownTo(id) ==
  IF feed.continueBefore # NoTs THEN TsOf[id] >= feed.continueBefore
  ELSE feed.rows # <<>> /\ TsOf[id] > Ts(Last(feed.rows))

\* Once nothing is on its way, the list shows every receipt it reaches down to,
\* as the server has it, and "that's everything" is true; unless one of the
\* ways to miss a row that are noted in `holes` has occurred.
ListIsExact ==
  query # NoQuery /\ feed.loaded /\ Quiet /\ holes = {} =>
    \A id \in Ids :
      stored[id] # "absent" /\ matches(query, id) /\ (feed.reachedEnd \/ ReachesDownTo(id))
        => Row(id) \in Range(feed.rows)

\* "Never silently drop": a receipt that the server left out of the stream is
\* missing from no list that does not say so, once the notice has arrived.
GapsAreSaid ==
  query # NoQuery /\ wire = <<>> /\ "lost" \notin holes =>
    /\ "dropped" \in holes => dropped
    /\ "sampled" \in holes => wasSampled

\* The receipts above the i-th row.
Above(rows, i) == {rows[j].id : j \in 1 .. i - 1}

\* What has come to be above a row that both lists have: news, and nothing else.
MovedBy(news, was, is) ==
  \A i \in DOMAIN was, k \in DOMAIN is :
    was[i].id = is[k].id => Above(is, k) = Above(was, i) \cup news

\* What a batch brings into the view that the list did not have.  Into a held
\* view it brings only receipts that come late, or within the second of the row
\* that the view is held at.
Newcomers ==
  {id \in (IF queue' = <<>> THEN IdsOf(queue) ELSE {}) \ IdsOf(feed.rows) :
     inWindow(query, id) /\ (frozenTop # NoTs => TsOf[id] <= frozenTop)}

\* Once a list is loaded, a row of the view, held or not, has above it exactly
\* the rows it had, and the newcomers of the batch that is applied: "rows never
\* move under the pointer" is true of a held view but for those.  A row
\* disappears only at the end of a list that is full.
OnlyNewcomersMoveRows ==
  [][query' = query /\ frozenTop' = frozenTop /\ feed.loaded /\ feed'.loaded /\ feed' # feed =>
       /\ \A was \in {visible}, is \in {visible'} : MovedBy(Newcomers, was, is)
       /\ IdsOf(feed.rows) \subseteq IdsOf(feed'.rows) \/ Len(feed'.rows) = MaxRows]_feedVars

\* A list comes to show its first page, or that there is none, whatever fails.
FirstPageComes == query # NoQuery ~> (feed.loaded \/ query = NoQuery)

\* The wait for an older page ends, unless the list is loaded anew meanwhile:
\* then the reader can go on scrolling.
OlderPageReturns == (loadingOlder /\ ~older.stale /\ older.q = query) ~> (~loadingOlder \/ older.stale)

\* The list holds receipts as the server sends them, each of them once, and what
\* is on its way to it is bounded.
ListWellFormed == FeedTypeOK /\ NoReceiptTwice

\* No wait for a page is endless, at the top of the list or at its end.
PagesCome == FirstPageComes /\ OlderPageReturns

(***************************************************************************)
(* The inductive invariant.                                                *)
(***************************************************************************)
Distinct(rows) == \A i, j \in DOMAIN rows : rows[i].id = rows[j].id => i = j

\* Nothing that can come to the list has a receipt twice.
RowsOnce == Distinct(feed.rows) /\ Distinct(first.rows) /\ Distinct(older.rows)

AllMatch(q, rows) == \A i \in DOMAIN rows : matches(q, rows[i].id)

\* A page that ends before `before` stays within the window of q.
Within(q, before) == before # NoTs /\ BeforeOf[q] # NoTs => before <= BeforeOf[q]

\* The list, the first page on its way and the older page are of what they were
\* asked for; the older page may be of a query that has gone.
PagesMatch ==
  /\ query # NoQuery => AllMatch(query, feed.rows) /\ Within(query, feed.continueBefore)
  /\ first.at # "none" => query # NoQuery
  /\ first.at = "read" => AllMatch(query, first.rows) /\ Within(query, first.continueBefore)
  /\ older.at # "none" =>
       older.q # NoQuery /\ older.before # NoTs /\ Within(older.q, older.before)
  /\ older.at = "read" =>
       AllMatch(older.q, older.rows) /\ Within(older.q, older.continueBefore)

\* The page tails only a stream that is narrowed to its filters, and no event of
\* an earlier connection is left.
StreamMatches ==
  /\ stream.tailed => query # NoQuery /\ stream.query = FilterOf[query]
  /\ \A i \in DOMAIN wire : wire[i].id # NoId => wire[i].id \in Selects[stream.query]
  /\ \A i \in DOMAIN queue : queue[i].id \in Selects[stream.query]

OnWire(what) == \E i \in DOMAIN wire : wire[i].state = what

\* Whatever the server leaves out it has announced, and the page has heard, or
\* will hear, of it.
GapsTold ==
  /\ stream.thinned => OnWire("sampling") \/ stream.sampling
  /\ stream.thinned =>
       \A i \in DOMAIN wire :
         wire[i].state = "unsampled" => \E j \in DOMAIN wire : i < j /\ wire[j].state = "sampling"
  /\ query # NoQuery /\ stream.sampling => sampledFor
  /\ query # NoQuery /\ "lost" \notin holes =>
       /\ "dropped" \in holes => dropped \/ (stream.tailed /\ OnWire("dropped"))
       /\ "sampled" \in holes => sampledFor \/ OnWire("sampling")

FeedInv == FeedTypeOK /\ RowsOnce /\ PagesMatch /\ StreamMatches /\ GapsTold

\* The first page is asked for only by a list that shows nothing as loaded, so
\* its rows, which are sorted in among those there, move none of a loaded list.
LoadsOnce == first.at # "none" => ~feed.loaded

-----------------------------------------------------------------------------
(* Why a quiet list is exact. *)

\* Events travel only over a connection that is open.
StreamOpen == (stream.ready => stream.started) /\ (wire # <<>> => stream.ready)

\* An older page that is not outdated was asked for by the list as it is.
OlderIsOurs == older.at # "none" /\ ~older.stale => older.q = query /\ feed.loaded

FailureIsNoted == first.at = "failed" => "failed" \in holes

\* The page has yet to see the latest copy of the receipt.
Pending(id) == stream.tailed /\ id \in IdsOf(queue) \cup IdsOf(wire)

\* The last event of a receipt on the wire, and in the queue of one that is not
\* on the wire, has it as the server does.
WireIsCurrent ==
  "outrun" \notin holes =>
    \A i \in DOMAIN wire :
      wire[i].id # NoId /\ (\A j \in DOMAIN wire : wire[j].id = wire[i].id => j <= i)
        => wire[i] = Row(wire[i].id)
QueueIsCurrent ==
  stream.tailed =>
    \A id \in IdsOf(queue) \ IdsOf(wire) : matches(query, id) => Latest(queue, id) = Row(id)

\* Rows that nothing will replace, neither an event nor a copy of the receipts
\* in `but`, are the server's.
AreCurrent(rows, but) ==
  \A i \in DOMAIN rows :
    rows[i].id \notin but /\ ~Pending(rows[i].id) => rows[i] = Row(rows[i].id)

Accounted(id) == id \in IdsOf(feed.rows) \/ Pending(id)

\* What the server left for the next page.
LiesBelow(answer, id) ==
  IF answer.continueBefore # NoTs THEN TsOf[id] < answer.continueBefore
  ELSE Len(answer.rows) = Page /\ \A i \in DOMAIN answer.rows : TsOf[id] <= Ts(answer.rows[i])

IsComplete(answer, before) ==
  \A id \in Ids :
    stored[id] # "absent" /\ matches(query, id) /\ (before # NoTs => TsOf[id] < before)
      => Accounted(id) \/ id \in IdsOf(answer.rows) \/ LiesBelow(answer, id)

ListReaches(id) == feed.reachedEnd \/ (nextBefore(feed) # NoTs /\ TsOf[id] >= nextBefore(feed))

ListIsComplete ==
  /\ \A id \in Ids : stored[id] # "absent" /\ matches(query, id) /\ ListReaches(id) => Accounted(id)
  /\ nextBefore(feed) = NoTs => feed.reachedEnd

\* While no row has come to be missing.
NothingMissing ==
  /\ QueueIsCurrent
  /\ AreCurrent(feed.rows, {})
  /\ feed.loaded => ListIsComplete
  /\ first.at = "read" => AreCurrent(first.rows, IdsOf(feed.rows)) /\ IsComplete(first, NoTs)
  /\ older.at # "none" /\ ~older.stale => older.before = nextBefore(feed) /\ feed.rows # <<>>
  /\ older.at = "read" /\ ~older.stale =>
       AreCurrent(older.rows, IdsOf(feed.rows)) /\ IsComplete(older, older.before)

ExactInv ==
  /\ FeedInv /\ LoadsOnce
  /\ StreamOpen /\ OlderIsOurs /\ FailureIsNoted /\ WireIsCurrent
  /\ query # NoQuery /\ holes = {} => NothingMissing
=============================================================================
