---------------------------- MODULE WantedMarks ----------------------------
(***************************************************************************)
(* The marks readers leave on titles drawn without a picture, on their way *)
(* to the database (catalog/wants.go, Store.Close): reads put them in a    *)
(* bounded buffer and never wait, one goroutine writes them in batches,    *)
(* and a store that is closed writes what is in hand first.  A mark is its *)
(* number.  What the statement does to the rows is in Posters.             *)
(***************************************************************************)
EXTENDS Naturals, Sequences, FiniteSets

CONSTANTS
    Reads,
    Room,           \* wantQueue: marks in the buffer
    BatchSize,      \* wantBatch: marks in one statement
    MostBlank,      \* bound: titles without a picture on one screen
    MaxMarks        \* bound: marks made

ASSUME WantedMarksAssumption ==
    {Room, BatchSize, MostBlank, MaxMarks} \subseteq Nat \ {0}

VARIABLES
    buffer,         \* the channel
    reading,        \* reading[r]: the marks a read has still to put in it,
                    \* and whether it has seen that the store is not stopped
    pending,        \* what the collector holds
    collector,      \* "run", "drain" or "done"
    stop,           \* the store has been told to stop
    made,           \* the marks made so far
    taken,          \* marks put in the buffer before the stop
    tried           \* marks a statement has been tried for

markVars == <<buffer, reading, pending, collector, stop, made, taken, tried>>

NotReading == [left |-> {}, clear |-> FALSE]
Least(s) == CHOOSE m \in s : \A n \in s : m <= n

MarksInit ==
    /\ buffer = <<>> /\ pending = {} /\ collector = "run"
    /\ reading = [r \in Reads |-> NotReading]
    /\ stop = FALSE /\ made = 0 /\ taken = {} /\ tried = {}

\* A read drew n cards without a picture: Films calls wantPoster with them.
WantPosters(r, n) ==
    /\ reading[r] = NotReading /\ made + n <= MaxMarks
    /\ made' = made + n
    /\ reading' = [reading EXCEPT ![r].left = (made + 1)..(made + n)]
    /\ UNCHANGED <<buffer, pending, collector, stop, taken, tried>>

\* wantPoster, before each mark: a stopped store gets no more of them.
LookForStop(r) ==
    /\ reading[r].left # {} /\ ~reading[r].clear
    /\ reading' = [reading EXCEPT ![r] = IF stop THEN NotReading ELSE [@ EXCEPT !.clear = TRUE]]
    /\ UNCHANGED <<buffer, pending, collector, stop, made, taken, tried>>

\* The send, which may come after the stop it did not see.  A full buffer
\* drops the mark and those that are left.
Send(r) ==
    /\ reading[r].clear
    /\ LET m == Least(reading[r].left) IN
        IF Len(buffer) < Room
          THEN /\ buffer' = Append(buffer, m)
               /\ reading' = [reading EXCEPT ![r] = [left |-> @.left \ {m}, clear |-> FALSE]]
               /\ taken' = IF stop THEN taken ELSE taken \cup {m}
          ELSE /\ reading' = [reading EXCEPT ![r] = NotReading]
               /\ UNCHANGED <<buffer, taken>>
    /\ UNCHANGED <<pending, collector, stop, made, tried>>

\* flush: one statement for all of them, whether it succeeds or not.
FlushWants(marks) == tried' = tried \cup marks /\ pending' = {}

\* A mark is received.  While draining the batch has no limit.
Collect ==
    /\ collector \in {"run", "drain"} /\ buffer # <<>>
    /\ buffer' = Tail(buffer)
    /\ IF collector = "run" /\ Cardinality(pending) + 1 >= BatchSize
         THEN FlushWants(pending \cup {Head(buffer)})
         ELSE pending' = pending \cup {Head(buffer)} /\ UNCHANGED tried
    /\ UNCHANGED <<reading, collector, stop, made, taken>>

TimerFires ==
    /\ collector = "run" /\ pending # {}
    /\ FlushWants(pending)
    /\ UNCHANGED <<buffer, reading, collector, stop, made, taken>>

\* Store.Close, which then waits for the collector.
Close ==
    /\ ~stop /\ stop' = TRUE
    /\ UNCHANGED <<buffer, reading, pending, collector, made, taken, tried>>

\* Slip: what is in the buffer is left there.
StopsAtOnce ==
    /\ collector = "run" /\ stop
    /\ collector' = "done" /\ FlushWants(pending)
    /\ UNCHANGED <<buffer, reading, stop, made, taken>>

\* The select chooses among what is ready: the stop may be seen late, or
\* with marks still in the buffer.
SeeStop ==
    /\ collector = "run" /\ stop
    /\ collector' = "drain"
    /\ UNCHANGED <<buffer, reading, pending, stop, made, taken, tried>>

Finish ==
    /\ collector = "drain" /\ buffer = <<>>
    /\ collector' = "done" /\ FlushWants(pending)
    /\ UNCHANGED <<buffer, reading, stop, made, taken>>

MarksNext ==
    \/ \E r \in Reads : LookForStop(r) \/ Send(r) \/ \E n \in 1..MostBlank : WantPosters(r, n)
    \/ Collect \/ TimerFires \/ Close \/ SeeStop \/ Finish

MarksSpec == MarksInit /\ [][MarksNext]_markVars

-----------------------------------------------------------------------------
\* A store that has closed has tried to write every mark its buffer took
\* before it was told to stop, however the stop falls between a read's look
\* and its send and between the collector's batches ("those are marks a
\* reader has made and a shutdown is no reason to lose them").
MarksSurviveStop ==
    /\ taken \subseteq tried \cup pending \cup {buffer[i] : i \in DOMAIN buffer}
    /\ collector = "done" => taken \subseteq tried
=============================================================================
