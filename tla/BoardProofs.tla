----------------------------- MODULE BoardProofs -----------------------------
(***************************************************************************)
(* Proofs about Board, for any jobs, any interval and any order of notes,  *)
(* calls and ticks.                                                        *)
(*                                                                         *)
(* NewsOnceInOrder is a sum of three sequences: a note lengthens the sum   *)
(* at its end, a delivery and a send move the border between two of them.  *)
(* EditsAreSpaced needs what the timer stands for: while one is armed, the *)
(* standing message will be an interval old by the time it fires; whoever  *)
(* rewrites it first leaves no timer behind.                               *)
(***************************************************************************)
EXTENDS Board, SequenceTheorems, TLAPS

Loops == [at : {"wait", "push", "flush", "call"}, batch : Seq(Nat), news : BOOLEAN,
          text : [Jobs -> Nat] \cup {<<>>}, then : {"wake", "timer"}]

BoardTypes ==
    /\ line \in [Jobs -> Nat] /\ noted \in Nat
    /\ pushes \in Seq(Nat) /\ told \in Seq(Nat) /\ pushed \in Seq(Nat)
    /\ lastEdit \in 0..LongAgo /\ timer \in 0..LongAgo
    /\ loop \in Loops

\* Messages are held only while they are being sent.
BatchIsSent == loop.at # "push" => loop.batch = <<>>

\* When the timer fires the last edit is an interval ago.
TimerOutlastsEdit == timer > 0 /\ lastEdit # 0 => lastEdit + timer > LongAgo

\* The standing message is written for news, or an interval after it was,
\* and a timer that led to the writing is not armed any more.
WritingIsDue ==
    /\ loop.at = "flush" /\ ~loop.news => lastEdit \in {0, LongAgo}
    /\ loop.at \in {"flush", "call"} /\ loop.then = "timer" => timer = 0
    /\ loop.at = "push" => loop.then = "wake"

BoardInductive ==
    BoardTypes /\ BatchIsSent /\ TimerOutlastsEdit /\ WritingIsDue /\ NewsOnceInOrder

\* The first of a sequence goes over to the end of another.
LEMMA HeadGoesOver ==
    ASSUME NEW s \in Seq(Nat), NEW b \in Seq(Nat), b # <<>>
    PROVE  Append(s, Head(b)) \o Tail(b) = s \o b
<1>1. Head(b) \in Nat /\ Tail(b) \in Seq(Nat) /\ Len(Tail(b)) = Len(b) - 1
      /\ \A i \in 1..Len(Tail(b)) : Tail(b)[i] = b[i + 1]
  BY HeadTailProperties
<1>2. <<Head(b)>> \in Seq(Nat) /\ Append(s, Head(b)) = s \o <<Head(b)>>
  BY <1>1, AppendIsConcat
<1>3. <<Head(b)>> \o Tail(b) = b
  <2>1. Len(<<Head(b)>>) = 1 /\ <<Head(b)>>[1] = Head(b) /\ Head(b) = b[1] /\ Len(b) \in Nat
    BY LenProperties
  <2>2. /\ <<Head(b)>> \o Tail(b) \in Seq(Nat)
        /\ Len(<<Head(b)>> \o Tail(b)) = 1 + Len(Tail(b))
        /\ \A i \in 1..(1 + Len(Tail(b))) :
              (<<Head(b)>> \o Tail(b))[i] = IF i <= 1 THEN <<Head(b)>>[i] ELSE Tail(b)[i - 1]
    BY <1>1, <1>2, <2>1, ConcatProperties
  <2>3. \A i \in 1..Len(b) : (<<Head(b)>> \o Tail(b))[i] = b[i]
    <3> TAKE i \in 1..Len(b)
    <3>1. CASE i = 1
      BY <1>1, <2>1, <2>2, <3>1
    <3>2. CASE i # 1
      <4>1. i - 1 \in 1..Len(Tail(b)) /\ i \in 1..(1 + Len(Tail(b))) /\ ~(i <= 1)
        BY <1>1, <2>1, <3>2
      <4> QED
        BY <1>1, <2>2, <4>1
    <3> QED
      BY <3>1, <3>2
  <2> QED
    BY <1>1, <2>1, <2>2, <2>3, SeqEqual
<1> QED
  BY <1>1, <1>2, <1>3, ConcatAssociative

\* Nobody but the loop's own steps touches these.
LEMMA LoopAtRest ==
    /\ Waiting.at = "wait" /\ Waiting.batch = <<>> /\ Waiting.news = FALSE
    /\ Waiting.then = "timer" /\ Waiting \in Loops
<1> QED
  BY EmptySeq DEF Waiting, Loops

\* A job's note.
LEMMA NoteKeeps ==
    ASSUME BoardInductive, NEW j \in Jobs, NEW change \in BOOLEAN, Note(j, change)
    PROVE  BoardInductive'
<1>1. noted' \in Nat /\ line' \in [Jobs -> Nat]
  BY DEF BoardInductive, BoardTypes, Note
<1>2. UNCHANGED <<lastEdit, timer, loop, told>> /\ loop.batch \in Seq(Nat)
  BY DEF BoardInductive, BoardTypes, Note, board, Loops
<1>3. CASE change
  <2>1. pushes' = Append(pushes, noted') /\ pushed' = Append(pushed, noted')
    BY <1>3 DEF Note
  <2>2. pushes' \in Seq(Nat) /\ pushed' \in Seq(Nat)
    BY <1>1, <2>1, AppendProperties DEF BoardInductive, BoardTypes
  <2> DEFINE ahead == told \o loop.batch
  <2>3. ahead \in Seq(Nat) /\ pushed = ahead \o pushes
    BY <1>2, ConcatProperties DEF BoardInductive, BoardTypes, NewsOnceInOrder
  <2> HIDE DEF ahead
  <2>4. ahead \o Append(pushes, noted') = Append(ahead \o pushes, noted')
    <3>1. Append(pushes, noted') = pushes \o <<noted'>> /\ <<noted'>> \in Seq(Nat)
      BY <1>1, AppendIsConcat DEF BoardInductive, BoardTypes
    <3>2. Append(ahead \o pushes, noted') = (ahead \o pushes) \o <<noted'>>
      BY <1>1, <2>3, AppendIsConcat DEF BoardInductive, BoardTypes
    <3> QED
      BY <2>3, <3>1, <3>2, ConcatAssociative DEF BoardInductive, BoardTypes
  <2>5. NewsOnceInOrder'
    BY <1>2, <2>1, <2>3, <2>4 DEF NewsOnceInOrder, ahead
  <2> QED
    BY <1>1, <1>2, <2>2, <2>5
    DEF BoardInductive, BoardTypes, BatchIsSent, TimerOutlastsEdit, WritingIsDue, LongAgo
<1>4. CASE ~change
  <2>1. UNCHANGED <<pushes, pushed>>
    BY <1>4 DEF Note
  <2> QED
    BY <1>1, <1>2, <2>1
    DEF BoardInductive, BoardTypes, BatchIsSent, TimerOutlastsEdit, WritingIsDue, NewsOnceInOrder, LongAgo
<1> QED
  BY <1>3, <1>4

\* What is to be sent is taken, one by one, in order.
LEMMA SendingKeeps ==
    ASSUME BoardInductive, Deliver \/ SendPush
    PROVE  BoardInductive'
<1>1. BoardTypes /\ BatchIsSent /\ loop \in Loops /\ loop.batch \in Seq(Nat)
  BY DEF BoardInductive, BoardTypes, Loops
<1>2. CASE Deliver
  <2> DEFINE some == pushes # <<>>
             next == [Waiting EXCEPT !.at = "push", !.batch = pushes, !.news = some, !.then = "wake"]
  <2>1. loop' = next /\ pushes' = <<>> /\ UNCHANGED <<line, lastEdit, timer, told, noted, pushed>>
    BY <1>2 DEF Deliver, board
  <2>2. loop.batch = <<>> /\ pushes \in Seq(Nat) /\ some \in BOOLEAN
    BY <1>1, <1>2 DEF Deliver, BatchIsSent, BoardTypes
  <2> HIDE DEF some
  <2>3. next \in Loops /\ next.at = "push" /\ next.batch = pushes /\ next.then = "wake"
    BY <2>2, LoopAtRest DEF Waiting, Loops
  <2> HIDE DEF next
  <2>4. BoardTypes' /\ pushes' \in Seq(Nat)
    BY <2>1, <2>3, <1>1, EmptySeq DEF BoardTypes, LongAgo
  <2>5. NewsOnceInOrder'
    <3>1. (told \o <<>>) \o pushes = (told \o pushes) \o <<>>
      BY <1>1, <2>2, ConcatEmptySeq, ConcatProperties DEF BoardTypes
    <3> QED
      BY <2>1, <2>2, <2>3, <3>1 DEF BoardInductive, NewsOnceInOrder
  <2> QED
    BY <2>1, <2>3, <2>4, <2>5 DEF BoardInductive, BatchIsSent, TimerOutlastsEdit, WritingIsDue, LongAgo
<1>3. CASE SendPush
  <2> DEFINE rest == Tail(loop.batch)
  <2>1. loop.at = "push" /\ loop.batch # <<>> /\ told' = Append(told, Head(loop.batch))
        /\ loop' = [loop EXCEPT !.batch = rest] /\ UNCHANGED <<line, lastEdit, timer, pushes, noted, pushed>>
    BY <1>3 DEF SendPush, board, box
  <2>2. Head(loop.batch) \in Nat /\ rest \in Seq(Nat)
    BY <1>1, <2>1, HeadTailProperties
  <2>3. Append(told, Head(loop.batch)) \o rest = told \o loop.batch
    BY <1>1, <2>1, HeadGoesOver DEF BoardTypes
  <2> HIDE DEF rest
  <2>4. loop' \in Loops /\ loop'.at = "push" /\ loop'.batch = rest /\ loop'.then = loop.then
    BY <1>1, <2>1, <2>2 DEF Loops
  <2>5. told' \in Seq(Nat)
    BY <1>1, <2>1, <2>2, AppendProperties DEF BoardTypes
  <2>6. BoardTypes'
    BY <2>1, <2>4, <2>5, <1>1 DEF BoardTypes, LongAgo
  <2>7. NewsOnceInOrder'
    BY <2>1, <2>3, <2>4 DEF BoardInductive, NewsOnceInOrder
  <2> QED
    BY <2>1, <2>4, <2>6, <2>7 DEF BoardInductive, BatchIsSent, TimerOutlastsEdit, WritingIsDue, LongAgo
<1> QED
  BY <1>2, <1>3

\* A loop that leaves its batch empty keeps the order of the news.
LEMMA OrderKept ==
    ASSUME BoardInductive, loop.batch = <<>>, loop'.batch = <<>>, UNCHANGED <<pushes, told, pushed>>
    PROVE  NewsOnceInOrder'
<1> QED
  BY DEF BoardInductive, NewsOnceInOrder

\* The loop decides what follows a delivery, or its timer fires.
LEMMA TimerKeeps ==
    ASSUME BoardInductive, AfterPushes \/ Fire
    PROVE  BoardInductive'
<1>1. BoardTypes /\ loop \in Loops /\ loop.batch = <<>> /\ UNCHANGED <<line, pushes, lastEdit, told, noted, pushed>>
  BY DEF BoardInductive, BoardTypes, BatchIsSent, AfterPushes, Fire, box, board
<1>2. Every \in Nat \ {0} /\ LongAgo = Every + 1 /\ LongAgo \in Nat /\ lastEdit \in 0..LongAgo /\ timer \in 0..LongAgo
  BY <1>1, BoardAssumption DEF BoardTypes, LongAgo
<1>3. TimerOutlastsEdit /\ WritingIsDue
  BY DEF BoardInductive
<1>4. CASE AfterPushes /\ (loop.news \/ Due)
  <2>1. loop' = [loop EXCEPT !.at = "flush"] /\ UNCHANGED timer /\ loop.at = "push"
    BY <1>4 DEF AfterPushes
  <2>2. loop' \in Loops /\ loop'.at = "flush" /\ loop'.batch = <<>> /\ loop'.news = loop.news /\ loop'.then = loop.then
    BY <1>1, <2>1 DEF Loops
  <2>3. ~loop.news => lastEdit \in {0, LongAgo}
    BY <1>4 DEF Due
  <2>4. BoardTypes'
    BY <1>1, <2>1, <2>2 DEF BoardTypes, LongAgo
  <2>5. TimerOutlastsEdit'
    BY <1>1, <1>3, <2>1 DEF TimerOutlastsEdit, LongAgo
  <2>6. loop.then = "wake"
    BY <1>3, <2>1 DEF WritingIsDue
  <2> QED
    BY <1>1, <1>2, <1>3, <2>1, <2>2, <2>3, <2>4, <2>5, <2>6, OrderKept
    DEF BoardInductive, BatchIsSent, WritingIsDue
<1>5. CASE AfterPushes /\ ~(loop.news \/ Due)
  <2>1. loop' = Waiting /\ timer' = IF ~dirty THEN 0 ELSE IF timer = 0 THEN LongAgo ELSE timer
    BY <1>5 DEF AfterPushes
  <2>2. timer' \in {0, LongAgo, timer} /\ LongAgo' = LongAgo
    BY <2>1 DEF LongAgo
  <2>3. TimerOutlastsEdit'
    <3>1. CASE timer' = 0
      BY <3>1 DEF TimerOutlastsEdit
    <3>2. CASE timer' = LongAgo
      BY <1>1, <1>2, <2>2, <3>2 DEF TimerOutlastsEdit
    <3>3. CASE timer' = timer
      BY <1>1, <1>3, <2>2, <3>3 DEF TimerOutlastsEdit
    <3> QED
      BY <2>2, <3>1, <3>2, <3>3
  <2>4. BoardTypes'
    BY <1>1, <1>2, <2>1, <2>2, LoopAtRest DEF BoardTypes
  <2> QED
    BY <1>1, <2>1, <2>3, <2>4, LoopAtRest, OrderKept DEF BoardInductive, BatchIsSent, WritingIsDue
<1>6. CASE Fire
  <2>1. timer = 1 /\ timer' = 0 /\ loop' = [Waiting EXCEPT !.at = "flush"]
    BY <1>6 DEF Fire
  <2>2. loop' \in Loops /\ loop'.at = "flush" /\ loop'.batch = <<>> /\ loop'.news = FALSE /\ loop'.then = "timer"
    BY <2>1, LoopAtRest DEF Waiting, Loops
  <2>3. lastEdit \in {0, LongAgo}
    BY <1>2, <1>3, <2>1 DEF TimerOutlastsEdit
  <2> QED
    BY <1>1, <1>2, <2>1, <2>2, <2>3, OrderKept
    DEF BoardInductive, BoardTypes, BatchIsSent, TimerOutlastsEdit, WritingIsDue, LongAgo
<1> QED
  BY <1>4, <1>5, <1>6

\* The loop goes back to its select, from wherever it was writing.
LEMMA RestKeeps ==
    ASSUME BoardInductive, loop.at \in {"flush", "call"}, loop' = Waiting, Rest,
           lastEdit' = lastEdit \/ lastEdit' = Just,
           UNCHANGED <<line, pushes, told, noted, pushed>>
    PROVE  BoardInductive'
<1>1. BoardTypes /\ loop \in Loops /\ loop.batch = <<>>
  BY DEF BoardInductive, BoardTypes, BatchIsSent
<1>2. Every \in Nat \ {0} /\ LongAgo = Every + 1 /\ lastEdit \in 0..LongAgo
  BY <1>1, BoardAssumption DEF BoardTypes, LongAgo
<1>3. timer' = 0
  <2>1. loop.then \in {"wake", "timer"}
    BY <1>1 DEF Loops
  <2> QED
    BY <2>1 DEF BoardInductive, WritingIsDue, Rest
<1>4. lastEdit' \in 0..LongAgo
  BY <1>2 DEF Just
<1>5. BoardTypes'
  BY <1>1, <1>2, <1>3, <1>4, LoopAtRest DEF BoardTypes, LongAgo
<1>6. TimerOutlastsEdit'
  BY <1>3 DEF TimerOutlastsEdit
<1> QED
  BY <1>1, <1>5, <1>6, LoopAtRest, OrderKept DEF BoardInductive, BatchIsSent, WritingIsDue

\* A tick brings the timer and the age of the last edit on together.
LEMMA BoardTickKeeps ==
    ASSUME BoardInductive, Tick
    PROVE  BoardInductive'
<1>1. BoardTypes /\ TimerOutlastsEdit /\ WritingIsDue /\ UNCHANGED <<line, pushes, loop, told, noted, pushed>>
  BY DEF BoardInductive, Tick
<1>2. Every \in Nat \ {0} /\ LongAgo = Every + 1 /\ LongAgo' = LongAgo /\ lastEdit \in 0..LongAgo /\ timer \in 0..LongAgo
  BY <1>1, BoardAssumption DEF BoardTypes, LongAgo
<1>3. /\ lastEdit' = IF lastEdit = 0 \/ lastEdit = LongAgo THEN lastEdit ELSE lastEdit + 1
      /\ timer' = IF timer > 1 THEN timer - 1 ELSE timer
  BY DEF Tick, Older
<1>4. lastEdit' \in 0..LongAgo /\ timer' \in 0..LongAgo
  BY <1>2, <1>3
<1>5. TimerOutlastsEdit'
  BY <1>1, <1>2, <1>3 DEF TimerOutlastsEdit
<1>6. WritingIsDue'
  BY <1>1, <1>2, <1>3 DEF WritingIsDue
<1> QED
  BY <1>1, <1>2, <1>4, <1>5, <1>6 DEF BoardInductive, BoardTypes, BatchIsSent, NewsOnceInOrder

\* No step breaks the invariant.
LEMMA BoardStep ==
    ASSUME BoardInductive, [BoardNext]_boardVars
    PROVE  BoardInductive'
<1>1. CASE UNCHANGED boardVars
  BY <1>1 DEF boardVars, box, board, BoardInductive, BoardTypes, BatchIsSent, TimerOutlastsEdit,
              WritingIsDue, NewsOnceInOrder, LongAgo
<1>2. CASE FlushBoard
  <2>1. UNCHANGED <<line, pushes, lastEdit, told, noted, pushed>> /\ loop.at = "flush"
    BY <1>2 DEF FlushBoard, board
  <2>2. CASE loop' = Waiting /\ Rest
    BY <2>1, <2>2, RestKeeps
  <2>3. CASE loop' = [loop EXCEPT !.at = "call", !.text = line] /\ UNCHANGED timer
    <3>1. BoardTypes /\ loop \in Loops /\ loop.batch = <<>> /\ line \in [Jobs -> Nat]
      BY <2>1 DEF BoardInductive, BoardTypes, BatchIsSent
    <3>2. loop' \in Loops /\ loop'.at = "call" /\ loop'.batch = <<>> /\ loop'.then = loop.then
      BY <2>3, <3>1 DEF Loops
    <3>3. BoardTypes'
      BY <2>1, <2>3, <3>1, <3>2 DEF BoardTypes, LongAgo
    <3> QED
      BY <2>1, <2>3, <3>1, <3>2, <3>3, OrderKept
      DEF BoardInductive, BatchIsSent, TimerOutlastsEdit, WritingIsDue, LongAgo
  <2> QED
    BY <1>2, <2>2, <2>3 DEF FlushBoard
<1>3. CASE Call
  BY <1>3, RestKeeps DEF Call, Written
<1>4. CASE CallFails
  BY <1>4, RestKeeps DEF CallFails, box, board
<1>5. CASE Delete
  BY <1>5 DEF Delete, box, board, BoardInductive, BoardTypes, BatchIsSent, TimerOutlastsEdit,
              WritingIsDue, NewsOnceInOrder, LongAgo
<1> QED
  BY <1>1, <1>2, <1>3, <1>4, <1>5, NoteKeeps, SendingKeeps, TimerKeeps, BoardTickKeeps
  DEF BoardNext, BoardWork

\* It holds of the first state, and so of every one.
LEMMA BoardAlways == BoardSpec => []BoardInductive
<1>1. BoardInit => BoardInductive
  <2> SUFFICES ASSUME BoardInit PROVE BoardInductive
    OBVIOUS
  <2>1. LongAgo \in Nat
    BY BoardAssumption DEF LongAgo
  <2>2. BoardTypes
    BY <2>1, EmptySeq, LoopAtRest DEF BoardInit, BoardTypes, Quiet
  <2>3. NewsOnceInOrder
    BY EmptySeq, ConcatEmptySeq, LoopAtRest DEF BoardInit, NewsOnceInOrder
  <2> QED
    BY <2>2, <2>3, LoopAtRest DEF BoardInit, BoardInductive, BatchIsSent, TimerOutlastsEdit, WritingIsDue
<1> QED
  BY <1>1, BoardStep, PTL DEF BoardSpec

\* Every change of state a job noted has been tried, is being sent or waits
\* to be, once and in the order it was noted.
THEOREM NewsKeepsItsOrder == BoardSpec => []NewsOnceInOrder
<1>1. BoardInductive => NewsOnceInOrder
  BY DEF BoardInductive
<1> QED
  BY <1>1, BoardAlways, PTL

\* With no news the standing message is rewritten a full interval after the
\* last time, whatever timer was armed before.
THEOREM EditsKeepTheirDistance == BoardSpec => EditsAreSpaced
<1>1. BoardInductive /\ [BoardNext]_boardVars
      => [loop.at = "flush" /\ loop'.at = "call" /\ ~loop.news /\ lastEdit # 0
            => lastEdit = LongAgo]_boardVars
  BY DEF BoardInductive, WritingIsDue
<1> QED
  BY <1>1, BoardAlways, PTL DEF BoardSpec, EditsAreSpaced
=============================================================================
