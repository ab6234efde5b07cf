--------------------------- MODULE MCTrafficFeed ----------------------------
(* Instances of TrafficFeed for TLC. *)
EXTENDS TrafficFeed

\* Six receipts, of which 3 and 4 share an instant.  2 is stored late: it lies
\* below a first page of three, and above the receipt that an older page brings.
MCTsOf == [id \in Ids |-> IF id <= 3 THEN id ELSE id - 1]

MCFilterOf == [q \in Queries |-> IF q = "team" THEN "team" ELSE "all"]
MCSelects  == [f \in {"all", "team"} |-> IF f = "all" THEN Ids ELSE {1, 3, 6}]
MCSinceOf  == [q \in Queries |-> 1]
MCBeforeOf == [q \in Queries |-> IF q = "team" THEN 5 ELSE 0]

\* Bound: a fault takes the place of one of the reader's moves.  Only these two
\* are cut, and neither is something the page waits for.
FaultForMove == faults + moves <= MaxMoves
=============================================================================
