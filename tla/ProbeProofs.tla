------------------------------ MODULE ProbeProofs ------------------------------
(***************************************************************************)
(* Proofs about the two things a map does behind its answer: it marks the  *)
(* titles whose posters are wanted (WantedMarks) and probes the pictures   *)
(* it shows (Pictures). For any readers, room and batches, and any films,  *)
(* visits and windows.                                                     *)
(*                                                                         *)
(* MarksSurviveStop is inductive once it is known that the collector only  *)
(* drains after the stop: a mark taken earlier is in the buffer, in hand   *)
(* or tried, draining ends with the first two empty, and what is sent      *)
(* afterwards does not count as taken.                                     *)
(*                                                                         *)
(* GoneIsTwoMisses is inductive with what the memory means (MemoIsTrue: a  *)
(* miss that is remembered is as old as the time its picture has been      *)
(* missing, less one) and with what a visit has been told (VisitsAreTrue), *)
(* which may be older than what the memory says now.                       *)
(***************************************************************************)
EXTENDS WantedMarks, Pictures, SequenceTheorems, TLAPS
-----------------------------------------------------------------------------
(* Wanted marks.                                                           *)

\* What may be in the buffer: the mark a read sends is the least it has left.
Marks == {Least(s) : s \in SUBSET Nat}

MarksTypes ==
    /\ buffer \in Seq(Marks)
    /\ reading \in [Reads -> [left : SUBSET Nat, clear : BOOLEAN]]
    /\ collector \in {"run", "drain", "done"}
    /\ stop \in BOOLEAN
    /\ made \in Nat

InHand == pending \cup {buffer[i] : i \in DOMAIN buffer}

MarksInductive ==
    /\ MarksTypes
    /\ collector # "run" => stop
    /\ taken \subseteq tried \cup InHand
    /\ collector = "done" => taken \subseteq tried

\* A mark that is sent is the last of the buffer.
LEMMA SentIsHeld ==
    ASSUME NEW b \in Seq(Marks), NEW m \in Marks
    PROVE  /\ Append(b, m) \in Seq(Marks)
           /\ {Append(b, m)[i] : i \in DOMAIN Append(b, m)} = {b[i] : i \in DOMAIN b} \cup {m}
<1>1. Append(b, m) \in Seq(Marks) /\ DOMAIN Append(b, m) = 1..(Len(b) + 1)
  OBVIOUS
<1>2. DOMAIN b = 1..Len(b) /\ Len(b) \in Nat
  OBVIOUS
<1>3. \A i \in 1..Len(b) : Append(b, m)[i] = b[i]
  OBVIOUS
<1>4. Append(b, m)[Len(b) + 1] = m
  OBVIOUS
<1> QED
  BY <1>1, <1>2, <1>3, <1>4

\* A mark that is received is the first of the buffer, and the rest stay.
LEMMA ReceivedWasHeld ==
    ASSUME NEW b \in Seq(Marks), b # <<>>
    PROVE  /\ Tail(b) \in Seq(Marks)
           /\ {b[i] : i \in DOMAIN b} = {Tail(b)[i] : i \in DOMAIN Tail(b)} \cup {Head(b)}
<1>1. Tail(b) \in Seq(Marks) /\ DOMAIN Tail(b) = 1..(Len(b) - 1)
  OBVIOUS
<1>2. DOMAIN b = 1..Len(b) /\ Len(b) \in Nat /\ Len(b) > 0 /\ Head(b) = b[1]
  OBVIOUS
<1>3. \A i \in 1..(Len(b) - 1) : Tail(b)[i] = b[i + 1]
  OBVIOUS
<1>4. \A i \in 2..Len(b) : i - 1 \in 1..(Len(b) - 1) /\ b[i] = Tail(b)[i - 1]
  BY <1>2, <1>3
<1>5. {b[i] : i \in DOMAIN b} \subseteq {Tail(b)[i] : i \in DOMAIN Tail(b)} \cup {Head(b)}
  <2> SUFFICES ASSUME NEW i \in DOMAIN b
               PROVE  b[i] \in {Tail(b)[j] : j \in DOMAIN Tail(b)} \cup {Head(b)}
    OBVIOUS
  <2>1. CASE i = 1
    BY <2>1, <1>2
  <2>2. CASE i # 1
    <3>1. i \in 2..Len(b)
      BY <2>2, <1>2
    <3>2. i - 1 \in DOMAIN Tail(b) /\ b[i] = Tail(b)[i - 1]
      BY <3>1, <1>1, <1>4
    <3> QED
      BY <3>2
  <2> QED
    BY <2>1, <2>2
<1>6. {Tail(b)[i] : i \in DOMAIN Tail(b)} \cup {Head(b)} \subseteq {b[i] : i \in DOMAIN b}
  BY <1>1, <1>2, <1>3
<1> QED
  BY <1>1, <1>5, <1>6

\* No step breaks the invariant.
LEMMA MarksStep ==
    ASSUME WantedMarksAssumption, MarksInductive, [MarksNext]_markVars
    PROVE  MarksInductive'
<1> USE WantedMarksAssumption DEF WantedMarksAssumption, MarksInductive, MarksTypes, InHand
<1>1. ASSUME NEW r \in Reads, NEW n \in 1..MostBlank, WantPosters(r, n) PROVE MarksInductive'
  <2> DEFINE fresh == (made + 1)..(made + n)
  <2>1. fresh \in SUBSET Nat /\ made' \in Nat
    BY <1>1 DEF WantPosters
  <2>2. reading' = [reading EXCEPT ![r].left = fresh]
    BY <1>1 DEF WantPosters
  <2> HIDE DEF fresh
  <2>3. reading' \in [Reads -> [left : SUBSET Nat, clear : BOOLEAN]]
    BY <2>1, <2>2
  <2> QED
    BY <1>1, <2>1, <2>3 DEF WantPosters
<1>2. ASSUME NEW r \in Reads, LookForStop(r) PROVE MarksInductive'
  <2>1. reading' \in [Reads -> [left : SUBSET Nat, clear : BOOLEAN]]
    <3>1. CASE stop
      BY <1>2, <3>1 DEF LookForStop, NotReading
    <3>2. CASE ~stop
      <4>1. reading' = [reading EXCEPT ![r] = [reading[r] EXCEPT !.clear = TRUE]]
        BY <1>2, <3>2 DEF LookForStop
      <4>2. [reading[r] EXCEPT !.clear = TRUE] \in [left : SUBSET Nat, clear : BOOLEAN]
        OBVIOUS
      <4> QED
        BY <4>1, <4>2
    <3> QED
      BY <3>1, <3>2
  <2> QED
    BY <1>2, <2>1 DEF LookForStop
<1>3. ASSUME NEW r \in Reads, Send(r) PROVE MarksInductive'
  <2> DEFINE m == Least(reading[r].left)
  <2>1. m \in Marks
    BY DEF Marks
  <2>2. CASE Len(buffer) < Room
    <3>1. buffer' = Append(buffer, m) /\ reading' \in [Reads -> [left : SUBSET Nat, clear : BOOLEAN]]
      <4>1. /\ buffer' = Append(buffer, m)
            /\ reading' = [reading EXCEPT ![r] = [left |-> reading[r].left \ {m}, clear |-> FALSE]]
        BY <1>3, <2>2 DEF Send
      <4> HIDE DEF m
      <4>2. reading[r].left \ {m} \in SUBSET Nat
        OBVIOUS
      <4>3. [left |-> reading[r].left \ {m}, clear |-> FALSE] \in [left : SUBSET Nat, clear : BOOLEAN]
        BY <4>2
      <4> QED
        BY <4>1, <4>3
    <3>2. taken' = IF stop THEN taken ELSE taken \cup {m}
      BY <1>3, <2>2 DEF Send
    <3>3. buffer' \in Seq(Marks) /\ InHand' = InHand \cup {m}
      <4>1. buffer' = Append(buffer, m) /\ pending' = pending
        BY <1>3, <3>1 DEF Send
      <4> HIDE DEF m
      <4>2. /\ buffer' \in Seq(Marks)
            /\ {buffer'[i] : i \in DOMAIN buffer'} = {buffer[i] : i \in DOMAIN buffer} \cup {m}
        <5>1. buffer \in Seq(Marks)
          OBVIOUS
        <5>2. /\ Append(buffer, m) \in Seq(Marks)
              /\ {Append(buffer, m)[i] : i \in DOMAIN Append(buffer, m)} = {buffer[i] : i \in DOMAIN buffer} \cup {m}
          BY <2>1, <5>1, SentIsHeld, Zenon
        <5> QED
          BY <4>1, <5>2, Zenon
      <4> QED
        BY <4>1, <4>2
    <3>4. UNCHANGED <<pending, collector, stop, made, tried>>
      BY <1>3 DEF Send
    <3> HIDE DEF m, InHand
    <3>5. taken' \subseteq tried' \cup InHand'
      BY <3>2, <3>3, <3>4
    <3> QED
      BY <3>1, <3>2, <3>3, <3>4, <3>5
  <2>3. CASE ~(Len(buffer) < Room)
    <3>1. reading' = [reading EXCEPT ![r] = NotReading] /\ UNCHANGED <<buffer, pending, collector, stop, made, taken, tried>>
      BY <1>3, <2>3 DEF Send
    <3>2. NotReading \in [left : SUBSET Nat, clear : BOOLEAN]
      BY DEF NotReading
    <3>3. reading' \in [Reads -> [left : SUBSET Nat, clear : BOOLEAN]]
      BY <3>1, <3>2
    <3> QED
      BY <3>1, <3>3
  <2> QED
    BY <2>2, <2>3
<1>4. ASSUME Collect PROVE MarksInductive'
  <2>1. buffer' = Tail(buffer) /\ buffer # <<>> /\ UNCHANGED <<reading, collector, stop, made, taken>>
    BY <1>4 DEF Collect
  <2>2. /\ buffer' \in Seq(Marks)
        /\ {buffer[i] : i \in DOMAIN buffer} = {buffer'[i] : i \in DOMAIN buffer'} \cup {Head(buffer)}
    BY <2>1, ReceivedWasHeld
  <2>3. \/ tried' = tried \cup pending \cup {Head(buffer)} /\ pending' = {}
        \/ pending' = pending \cup {Head(buffer)} /\ tried' = tried
    BY <1>4 DEF Collect, FlushWants
  <2>4. collector # "done"
    BY <1>4 DEF Collect
  <2> QED
    BY <2>1, <2>2, <2>3, <2>4
<1>5. ASSUME TimerFires PROVE MarksInductive'
  BY <1>5 DEF TimerFires, FlushWants
<1>6. ASSUME Close PROVE MarksInductive'
  BY <1>6 DEF Close
<1>7. ASSUME SeeStop PROVE MarksInductive'
  BY <1>7 DEF SeeStop
<1>8. ASSUME Finish PROVE MarksInductive'
  <2>1. {buffer[i] : i \in DOMAIN buffer} = {}
    BY <1>8 DEF Finish
  <2> QED
    BY <1>8, <2>1 DEF Finish, FlushWants
<1>9. CASE UNCHANGED markVars
  BY <1>9 DEF markVars
<1> QED
  BY <1>1, <1>2, <1>3, <1>4, <1>5, <1>6, <1>7, <1>8, <1>9 DEF MarksNext

\* wants.go, Store.Close: a store that has closed has tried to write every
\* mark its buffer took before it was told to stop.
THEOREM MarksAreTried ==
    ASSUME WantedMarksAssumption
    PROVE  MarksSpec => []MarksSurviveStop
<1>1. MarksInit => MarksInductive
  <2> SUFFICES ASSUME MarksInit PROVE MarksInductive
    OBVIOUS
  <2> USE DEF MarksInit
  <2>1. NotReading \in [left : SUBSET Nat, clear : BOOLEAN]
    BY DEF NotReading
  <2>2. buffer \in Seq(Marks)
    OBVIOUS
  <2>3. MarksTypes
    BY <2>1, <2>2 DEF MarksTypes
  <2> QED
    BY <2>3 DEF MarksInductive
<1>2. MarksInductive /\ [MarksNext]_markVars => MarksInductive'
  BY MarksStep
<1>3. MarksInductive => MarksSurviveStop
  BY DEF MarksInductive, MarksSurviveStop, InHand
<1> QED
  BY <1>1, <1>2, <1>3, PTL DEF MarksSpec

-----------------------------------------------------------------------------
(* Pictures.                                                               *)

Verdicts == [is : {"none", "alive", "gone", "miss"}, age : 0..Window]
Looks == [at : {"away", "look", "ask", "heard"}, left : Seq(Pool),
          heard : {"none", "hit", "miss", "silent"}, gone : SUBSET Pool, slow : BOOLEAN]

PicturesTypes ==
    /\ memo \in [Pool -> Verdicts]
    /\ screen \in [Visits -> Looks]
    /\ marking \subseteq Pool /\ written \subseteq Pool
    /\ missedFor \in [Pool -> 0..(Window + 1)]

\* A miss that is remembered is at least as old as its window shows, and a
\* picture remembered as gone has missed a window apart.
MemoIsTrue ==
    \A f \in Pool :
        /\ memo[f].is = "miss" => missedFor[f] > memo[f].age
        /\ memo[f].is = "gone" => missedFor[f] = Window + 1

\* What a visit was told is so, and what it hears now has been counted.
VisitsAreTrue ==
    \A v \in Visits :
        /\ screen[v].at # "away" => screen[v].left # <<>>
        /\ \A f \in screen[v].gone : missedFor[f] = Window + 1
        /\ screen[v].at = "heard" /\ screen[v].heard = "miss" => missedFor[On(v)] > 0

PicturesInductive == PicturesTypes /\ MemoIsTrue /\ VisitsAreTrue /\ GoneIsTwoMisses

\* The screen of one visit, whatever the others do.
LEMMA OneLook ==
    ASSUME PicturesTypes, NEW v \in Visits
    PROVE  /\ screen[v] \in Looks
           /\ screen[v].left \in Seq(Pool) /\ screen[v].gone \subseteq Pool
           /\ screen[v].left # <<>> => On(v) \in Pool /\ Tail(screen[v].left) \in Seq(Pool)
           /\ screen[v].left # <<>> /\ Len(screen[v].left) # 1 => Tail(screen[v].left) # <<>>
<1>1. screen[v] \in Looks
  BY DEF PicturesTypes
<1>2. screen[v].left \in Seq(Pool) /\ screen[v].gone \subseteq Pool
  BY <1>1 DEF Looks
<1>3. ASSUME screen[v].left # <<>>
      PROVE  On(v) \in Pool /\ Tail(screen[v].left) \in Seq(Pool)
             /\ Len(Tail(screen[v].left)) = Len(screen[v].left) - 1
  BY <1>2, <1>3, HeadTailProperties DEF On
<1>4. ASSUME screen[v].left # <<>>, Len(screen[v].left) # 1
      PROVE  Tail(screen[v].left) # <<>>
  <2>1. Len(screen[v].left) - 1 # 0
    BY <1>2, <1>4, LenProperties
  <2> QED
    BY <2>1, <1>3, <1>4, EmptySeq
<1> QED
  BY <1>1, <1>2, <1>3, <1>4

\* A visit that comes to a candidate that is passed over, or to the end of
\* its era, keeps what the invariant says if what it was told is so.
LEMMA PassKeeps ==
    ASSUME PicturesInductive, NEW v \in Visits, NEW gone \in BOOLEAN,
           screen[v].at # "away", Pass(v, gone),
           gone => missedFor[On(v)] = Window + 1,
           UNCHANGED <<written, missedFor>>
    PROVE  /\ screen' \in [Visits -> Looks] /\ marking' \subseteq Pool
           /\ VisitsAreTrue' /\ GoneIsTwoMisses'
<1> DEFINE all == IF gone THEN screen[v].gone \cup {On(v)} ELSE screen[v].gone
           next == [Nobody EXCEPT !.at = "look", !.left = Tail(screen[v].left), !.gone = all]
<1>1. screen[v].left # <<>> /\ On(v) \in Pool
  BY OneLook DEF PicturesInductive, VisitsAreTrue
<1>2. all \subseteq Pool /\ \A f \in all : missedFor[f] = Window + 1
  BY <1>1, OneLook DEF PicturesInductive, VisitsAreTrue
<1>3. Nobody \in Looks
  BY EmptySeq DEF Nobody, Looks
<1> HIDE DEF all
<1>4. CASE Len(screen[v].left) = 1
  <2>1. screen' = [screen EXCEPT ![v] = Nobody] /\ marking' = marking \cup all
    BY <1>4 DEF Pass, Settle, all
  <2>2. screen' \in [Visits -> Looks] /\ marking' \subseteq Pool
    BY <2>1, <1>2, <1>3 DEF PicturesInductive, PicturesTypes
  <2>3. GoneIsTwoMisses'
    BY <2>1, <1>2 DEF PicturesInductive, GoneIsTwoMisses
  <2>4. VisitsAreTrue'
    BY <2>1, <2>2 DEF PicturesInductive, PicturesTypes, VisitsAreTrue, Nobody, On
  <2> QED
    BY <2>2, <2>3, <2>4
<1>5. CASE Len(screen[v].left) # 1
  <2>1. screen' = [screen EXCEPT ![v] = next] /\ UNCHANGED marking
    BY <1>5 DEF Pass, all
  <2>2. Tail(screen[v].left) \in Seq(Pool) /\ Tail(screen[v].left) # <<>>
    BY <1>1, <1>5, OneLook DEF PicturesInductive
  <2>3. next \in Looks /\ next.left # <<>> /\ next.gone = all /\ next.at = "look"
    BY <2>2, <1>2 DEF Nobody, Looks
  <2> HIDE DEF next
  <2>4. screen' \in [Visits -> Looks] /\ marking' \subseteq Pool
    BY <2>1, <2>3 DEF PicturesInductive, PicturesTypes
  <2>5. GoneIsTwoMisses'
    BY <2>1 DEF PicturesInductive, GoneIsTwoMisses
  <2>6. VisitsAreTrue'
    BY <2>1, <2>3, <1>2 DEF PicturesInductive, PicturesTypes, VisitsAreTrue, On
  <2> QED
    BY <2>4, <2>5, <2>6
<1> QED
  BY <1>4, <1>5

\* The same of a visit whose era is settled.
LEMMA SettleKeeps ==
    ASSUME PicturesInductive, NEW v \in Visits, Settle(v, screen[v].gone),
           UNCHANGED <<written, missedFor>>
    PROVE  /\ screen' \in [Visits -> Looks] /\ marking' \subseteq Pool
           /\ VisitsAreTrue' /\ GoneIsTwoMisses'
<1>1. Nobody \in Looks
  BY EmptySeq DEF Nobody, Looks
<1>2. screen[v].gone \subseteq Pool
  BY OneLook DEF PicturesInductive
<1>3. screen' \in [Visits -> Looks] /\ marking' \subseteq Pool
  BY <1>1, <1>2 DEF PicturesInductive, PicturesTypes, Settle
<1>4. VisitsAreTrue'
  BY DEF PicturesInductive, PicturesTypes, VisitsAreTrue, Settle, Nobody, On
<1>5. GoneIsTwoMisses'
  BY DEF PicturesInductive, VisitsAreTrue, GoneIsTwoMisses, Settle
<1> QED
  BY <1>3, <1>4, <1>5

\* What a visit stores of a miss it heard: a first one, or the second once
\* the window has passed since the first.
LEMMA MissKeeps ==
    ASSUME PicturesInductive, NEW v \in Visits, RememberMiss(v)
    PROVE  PicturesInductive'
<1> DEFINE confirmed == memo[On(v)] = [Miss EXCEPT !.age = Window]
<1>1. PicturesTypes /\ MemoIsTrue /\ On(v) \in Pool /\ missedFor[On(v)] > 0
  BY OneLook DEF PicturesInductive, VisitsAreTrue, RememberMiss
<1>2. memo[On(v)] \in Verdicts /\ missedFor[On(v)] \in 0..(Window + 1)
  BY <1>1 DEF PicturesTypes
<1>3. confirmed => missedFor[On(v)] = Window + 1
  BY <1>1, <1>2, PicturesAssumption DEF MemoIsTrue, Miss
<1>4. Pass(v, confirmed) /\ UNCHANGED <<written, missedFor>> /\ screen[v].at # "away"
  BY DEF RememberMiss
<1>5. memo' = [memo EXCEPT ![On(v)] = IF confirmed THEN Stuck ELSE Miss]
  BY DEF RememberMiss
<1> HIDE DEF confirmed
<1>6. screen' \in [Visits -> Looks] /\ marking' \subseteq Pool /\ VisitsAreTrue' /\ GoneIsTwoMisses'
  BY <1>3, <1>4, PassKeeps DEF confirmed
<1>7. memo' \in [Pool -> Verdicts]
  BY <1>1, <1>5, PicturesAssumption DEF PicturesTypes, Verdicts, Stuck, Miss
<1>8. MemoIsTrue'
  BY <1>1, <1>3, <1>4, <1>5 DEF PicturesTypes, MemoIsTrue, Stuck, Miss
<1> QED
  BY <1>1, <1>4, <1>6, <1>7, <1>8 DEF PicturesInductive, PicturesTypes

\* Time passes: every kept time, and every film's own, grows alike.
LEMMA TickKeeps ==
    ASSUME PicturesInductive, PicturesTick
    PROVE  PicturesInductive'
<1>1. PicturesTypes /\ MemoIsTrue /\ VisitsAreTrue /\ UNCHANGED <<marking, written>>
  BY DEF PicturesInductive, PicturesTick
<1>2. ASSUME NEW f \in Pool
      PROVE  /\ missedFor'[f] = IF missedFor[f] \in {0, Window + 1} THEN missedFor[f] ELSE missedFor[f] + 1
             /\ memo'[f] = IF memo[f].is = "miss" THEN [memo[f] EXCEPT !.age = Aged(@)] ELSE memo[f]
             /\ missedFor[f] \in 0..(Window + 1) /\ memo[f] \in Verdicts
  BY <1>1 DEF PicturesTick, PicturesTypes
<1>3. ASSUME NEW f \in Pool
      PROVE  /\ missedFor'[f] \in 0..(Window + 1) /\ missedFor'[f] >= missedFor[f]
             /\ missedFor[f] > 0 /\ missedFor[f] < Window + 1 => missedFor'[f] = missedFor[f] + 1
  <2>1. missedFor[f] \in 0..(Window + 1) /\ Window \in Nat
    BY <1>2, PicturesAssumption
  <2>2. CASE missedFor[f] = 0 \/ missedFor[f] = Window + 1
    <3>1. missedFor'[f] = missedFor[f]
      BY <1>2, <2>2
    <3> QED
      BY <2>1, <2>2, <3>1
  <2>3. CASE missedFor[f] # 0 /\ missedFor[f] # Window + 1
    <3>1. missedFor'[f] = missedFor[f] + 1
      BY <1>2, <2>3
    <3> QED
      BY <2>1, <2>3, <3>1
  <2> QED
    BY <2>2, <2>3
<1>4. ASSUME NEW f \in Pool
      PROVE  /\ memo'[f] \in Verdicts /\ memo'[f].is = memo[f].is
             /\ memo[f].is = "miss" => memo'[f].age = IF memo[f].age = Window THEN Window ELSE memo[f].age + 1
  <2>1. memo[f] \in Verdicts /\ memo[f].age \in 0..Window /\ Window \in Nat
    BY <1>2, PicturesAssumption DEF Verdicts
  <2>2. CASE memo[f].is = "miss"
    <3> DEFINE age == Aged(memo[f].age)
    <3>1. age \in 0..Window /\ age = IF memo[f].age = Window THEN Window ELSE memo[f].age + 1
      BY <2>1 DEF Aged
    <3>2. memo'[f] = [memo[f] EXCEPT !.age = age]
      BY <1>2, <2>2
    <3> HIDE DEF age
    <3>3. memo'[f] \in Verdicts /\ memo'[f].is = memo[f].is /\ memo'[f].age = age
      BY <2>1, <3>1, <3>2 DEF Verdicts
    <3> QED
      BY <3>1, <3>3
  <2>3. CASE memo[f].is # "miss"
    <3>1. memo'[f] = memo[f]
      BY <1>2, <2>3
    <3> QED
      BY <2>1, <2>3, <3>1
  <2> QED
    BY <2>2, <2>3
<1>5. missedFor' \in [Pool -> 0..(Window + 1)] /\ memo' \in [Pool -> Verdicts]
  BY <1>3, <1>4 DEF PicturesTick
<1>6. ASSUME NEW v \in Visits
      PROVE  /\ screen'[v] \in Looks /\ screen'[v].at = screen[v].at /\ screen'[v].left = screen[v].left
             /\ screen'[v].heard = screen[v].heard /\ screen'[v].gone = screen[v].gone
  <2> DEFINE slow == screen[v].at \in {"ask", "heard"}
  <2>1. screen[v] \in Looks /\ screen'[v] = [screen[v] EXCEPT !.slow = slow] /\ slow \in BOOLEAN
    BY <1>1 DEF PicturesTick, PicturesTypes
  <2> HIDE DEF slow
  <2> QED
    BY <2>1 DEF Looks
<1>7. screen' \in [Visits -> Looks]
  BY <1>6 DEF PicturesTick
<1>8. MemoIsTrue'
  <2> SUFFICES ASSUME NEW f \in Pool
               PROVE  /\ memo'[f].is = "miss" => missedFor'[f] > memo'[f].age
                      /\ memo'[f].is = "gone" => missedFor'[f] = Window + 1
    BY DEF MemoIsTrue
  <2>1. memo[f].age \in 0..Window
    BY <1>2 DEF Verdicts
  <2>2. missedFor[f] \in 0..(Window + 1) /\ missedFor'[f] \in 0..(Window + 1) /\ Window \in Nat
    BY <1>2, <1>3, PicturesAssumption
  <2>3. CASE memo[f].is = "miss"
    <3>1. missedFor[f] > memo[f].age /\ memo'[f].is = "miss"
      BY <2>3, <1>1, <1>4 DEF MemoIsTrue
    <3>2. memo'[f].age = IF memo[f].age = Window THEN Window ELSE memo[f].age + 1
      BY <2>3, <1>4
    <3>3. missedFor[f] < Window + 1 => missedFor'[f] = missedFor[f] + 1
      BY <1>3, <2>1, <2>2, <3>1
    <3>4. missedFor'[f] >= missedFor[f]
      BY <1>3
    <3> QED
      BY <2>1, <2>2, <3>1, <3>2, <3>3, <3>4
  <2>4. CASE memo[f].is = "gone"
    <3>1. missedFor'[f] = missedFor[f]
      BY <2>4, <1>1, <1>2 DEF MemoIsTrue
    <3> QED
      BY <2>4, <3>1, <1>1, <1>4 DEF MemoIsTrue
  <2>5. memo'[f].is = memo[f].is
    BY <1>4
  <2> QED
    BY <2>3, <2>4, <2>5
<1>9. ASSUME NEW f \in Pool, missedFor[f] = Window + 1
      PROVE  missedFor'[f] = Window + 1
  BY <1>2, <1>9
<1>10. VisitsAreTrue'
  <2> SUFFICES ASSUME NEW v \in Visits
               PROVE  /\ screen'[v].at # "away" => screen'[v].left # <<>>
                      /\ \A f \in screen'[v].gone : missedFor'[f] = Window + 1
                      /\ screen'[v].at = "heard" /\ screen'[v].heard = "miss" => missedFor'[Head(screen'[v].left)] > 0
    BY DEF VisitsAreTrue, On
  <2>1. \A f \in screen'[v].gone : missedFor'[f] = Window + 1
    BY <1>1, <1>6, <1>9, OneLook DEF VisitsAreTrue
  <2>2. ASSUME screen[v].at = "heard", screen[v].heard = "miss"
        PROVE  missedFor'[Head(screen[v].left)] > 0
    <3>1. Head(screen[v].left) \in Pool /\ missedFor[Head(screen[v].left)] > 0
      BY <1>1, <2>2, OneLook DEF VisitsAreTrue, On
    <3>2. missedFor[Head(screen[v].left)] \in 0..(Window + 1) /\ Window \in Nat
      BY <3>1, <1>2, PicturesAssumption
    <3>3. /\ missedFor'[Head(screen[v].left)] \in 0..(Window + 1)
          /\ missedFor'[Head(screen[v].left)] >= missedFor[Head(screen[v].left)]
      BY <3>1, <1>3
    <3> QED
      BY <3>1, <3>2, <3>3
  <2> QED
    BY <1>1, <1>6, <2>1, <2>2 DEF VisitsAreTrue
<1>11. GoneIsTwoMisses'
  BY <1>1, <1>9 DEF PicturesInductive, GoneIsTwoMisses, PicturesTypes
<1> QED
  BY <1>1, <1>5, <1>7, <1>8, <1>10, <1>11 DEF PicturesInductive, PicturesTypes

\* No step breaks the invariant.
LEMMA PicturesStep ==
    ASSUME PicturesInductive, [PicturesNext]_pictureVars
    PROVE  PicturesInductive'
<1>1. PicturesTypes /\ MemoIsTrue /\ VisitsAreTrue /\ GoneIsTwoMisses
  BY DEF PicturesInductive
<1>2. Nobody \in Looks
  BY EmptySeq DEF Nobody, Looks
<1>3. CASE UNCHANGED pictureVars
  BY <1>3, <1>1 DEF PicturesInductive, PicturesTypes, MemoIsTrue, VisitsAreTrue, GoneIsTwoMisses, On, pictureVars
<1>4. ASSUME NEW v \in Visits, Arrive(v)
      PROVE  PicturesInductive'
  <2>1. PICK s \in Draws : screen' = [screen EXCEPT ![v] = [Nobody EXCEPT !.at = "look", !.left = s]]
    BY <1>4 DEF Arrive
  <2>2. PICK n \in 1..Depth : s \in [1..n -> Pool]
    BY <2>1 DEF Draws
  <2>3. n \in Nat \ {0}
    BY <2>2, PicturesAssumption
  <2>4. s \in Seq(Pool) /\ s # <<>>
    BY <2>2, <2>3, SeqDef
  <2>5. [Nobody EXCEPT !.at = "look", !.left = s] \in Looks
    BY <2>4 DEF Nobody, Looks
  <2>6. screen' \in [Visits -> Looks]
    BY <2>1, <2>5, <1>1 DEF PicturesTypes
  <2>7. VisitsAreTrue'
    BY <2>1, <2>4, <1>1, <1>4 DEF VisitsAreTrue, PicturesTypes, Nobody, On, Arrive
  <2> QED
    BY <2>6, <2>7, <1>1, <1>4 DEF Arrive, PicturesInductive, PicturesTypes, MemoIsTrue, GoneIsTwoMisses
<1>5. ASSUME NEW v \in Visits, LookAt(v)
      PROVE  PicturesInductive'
  <2>1. UNCHANGED <<memo, written, missedFor>> /\ screen[v].at = "look"
    BY <1>5 DEF LookAt
  <2>2. On(v) \in Pool
    BY <2>1, <1>1, OneLook DEF VisitsAreTrue
  <2>3. CASE screen' = [screen EXCEPT ![v].at = "ask"] /\ UNCHANGED marking
    <3>1. screen[v] \in Looks /\ [screen[v] EXCEPT !.at = "ask"] \in Looks
      BY <1>1 DEF PicturesTypes, Looks
    <3>2. screen' \in [Visits -> Looks]
      BY <2>3, <3>1, <1>1 DEF PicturesTypes
    <3>3. VisitsAreTrue'
      BY <2>1, <2>3, <3>1, <1>1 DEF VisitsAreTrue, PicturesTypes, Looks, On
    <3> QED
      BY <2>1, <2>3, <3>2, <3>3, <1>1 DEF PicturesInductive, PicturesTypes, MemoIsTrue, GoneIsTwoMisses
  <2>4. CASE Settle(v, screen[v].gone)
    BY <2>1, <2>4, <1>1, SettleKeeps DEF PicturesInductive, PicturesTypes, MemoIsTrue
  <2>5. CASE memo[On(v)].is = "gone" /\ Pass(v, TRUE)
    <3>1. missedFor[On(v)] = Window + 1
      BY <2>2, <2>5, <1>1 DEF MemoIsTrue
    <3>2. screen' \in [Visits -> Looks] /\ marking' \subseteq Pool /\ VisitsAreTrue' /\ GoneIsTwoMisses'
      BY <2>1, <2>5, <3>1, PassKeeps
    <3> QED
      BY <2>1, <3>2, <1>1 DEF PicturesInductive, PicturesTypes, MemoIsTrue
  <2>6. CASE Pass(v, FALSE)
    <3>1. screen' \in [Visits -> Looks] /\ marking' \subseteq Pool /\ VisitsAreTrue' /\ GoneIsTwoMisses'
      BY <2>1, <2>6, PassKeeps
    <3> QED
      BY <2>1, <3>1, <1>1 DEF PicturesInductive, PicturesTypes, MemoIsTrue
  <2> QED
    BY <1>5, <2>3, <2>4, <2>5, <2>6 DEF LookAt
<1>6. ASSUME NEW v \in Visits, Hear(v)
      PROVE  PicturesInductive'
  <2>1. PICK h \in {"hit", "miss", "silent"} :
            /\ screen' = [screen EXCEPT ![v].at = "heard", ![v].heard = h]
            /\ IF h = "miss" THEN missedFor' = [missedFor EXCEPT ![On(v)] = IF @ = 0 THEN 1 ELSE @]
               ELSE UNCHANGED missedFor
    BY <1>6 DEF Hear
  <2>2. UNCHANGED <<memo, marking, written>> /\ screen[v].at = "ask" /\ On(v) \in Pool
    BY <1>6, <1>1, OneLook DEF Hear, VisitsAreTrue
  <2>3. /\ missedFor' \in [Pool -> 0..(Window + 1)]
        /\ h = "miss" => missedFor'[On(v)] > 0
        /\ \A f \in Pool : missedFor[f] > 0 => missedFor'[f] = missedFor[f]
        /\ \A f \in Pool : missedFor'[f] >= missedFor[f]
    BY <2>1, <2>2, <1>1, PicturesAssumption DEF PicturesTypes
  <2>4. screen[v] \in Looks /\ [screen[v] EXCEPT !.at = "heard", !.heard = h] \in Looks
    BY <1>1, <2>1 DEF PicturesTypes, Looks
  <2>5. screen' = [screen EXCEPT ![v] = [screen[v] EXCEPT !.at = "heard", !.heard = h]]
    BY <2>1, <2>4, <1>1 DEF PicturesTypes, Looks
  <2>6. screen' \in [Visits -> Looks]
    BY <2>4, <2>5, <1>1 DEF PicturesTypes
  <2>7. ASSUME NEW f \in Pool, missedFor[f] = Window + 1
        PROVE  missedFor'[f] = Window + 1
    BY <2>3, <2>7, PicturesAssumption
  <2>8. MemoIsTrue'
    BY <2>2, <2>3, <2>7, <1>1, PicturesAssumption DEF MemoIsTrue, PicturesTypes, Verdicts
  <2>9. VisitsAreTrue'
    <3> SUFFICES ASSUME NEW w \in Visits
                 PROVE  /\ screen'[w].at # "away" => screen'[w].left # <<>>
                        /\ \A f \in screen'[w].gone : missedFor'[f] = Window + 1
                        /\ screen'[w].at = "heard" /\ screen'[w].heard = "miss" => missedFor'[Head(screen'[w].left)] > 0
      BY DEF VisitsAreTrue, On
    <3>1. screen'[w].left = screen[w].left /\ screen'[w].gone = screen[w].gone
      BY <2>4, <2>5, <1>1 DEF PicturesTypes, Looks
    <3>2. \A f \in screen'[w].gone : missedFor'[f] = Window + 1
      BY <3>1, <2>7, <1>1, OneLook DEF VisitsAreTrue
    <3>3. CASE w = v
      BY <3>1, <3>2, <3>3, <2>1, <2>2, <2>3, <2>4, <2>5, <1>1 DEF VisitsAreTrue, PicturesTypes, Looks, On
    <3>4. CASE w # v
      <4>1. screen'[w] = screen[w]
        BY <3>4, <2>5, <1>1 DEF PicturesTypes
      <4>2. screen[w].at # "away" => Head(screen[w].left) \in Pool
        BY <1>1, OneLook DEF VisitsAreTrue, On
      <4> QED
        BY <4>1, <4>2, <3>2, <2>3, <1>1, PicturesAssumption DEF VisitsAreTrue, PicturesTypes, On
    <3> QED
      BY <3>3, <3>4
  <2>10. GoneIsTwoMisses'
    BY <2>2, <2>7, <1>1 DEF GoneIsTwoMisses, PicturesTypes
  <2> QED
    BY <2>2, <2>3, <2>6, <2>8, <2>9, <2>10, <1>1 DEF PicturesInductive, PicturesTypes
<1>7. ASSUME NEW v \in Visits, RememberHit(v)
      PROVE  PicturesInductive'
  <2>1. Settle(v, screen[v].gone) /\ UNCHANGED <<written, missedFor>> /\ On(v) \in Pool
        /\ memo' = [memo EXCEPT ![On(v)] = Alive]
    BY <1>7, <1>1, OneLook DEF RememberHit, VisitsAreTrue
  <2>2. memo' \in [Pool -> Verdicts] /\ MemoIsTrue'
    BY <2>1, <1>1, PicturesAssumption DEF PicturesTypes, Verdicts, MemoIsTrue, Alive
  <2> QED
    BY <2>1, <2>2, <1>1, SettleKeeps DEF PicturesInductive, PicturesTypes
<1>8. ASSUME NEW v \in Visits, RememberNothing(v)
      PROVE  PicturesInductive'
  <2>1. UNCHANGED <<written, missedFor>> /\ On(v) \in Pool /\ screen[v].at # "away"
    BY <1>8, <1>1, OneLook DEF RememberNothing, VisitsAreTrue
  <2>2. CASE memo[On(v)].is = "miss" /\ memo' = [memo EXCEPT ![On(v)] = Miss] /\ Pass(v, FALSE)
    <3>1. screen' \in [Visits -> Looks] /\ marking' \subseteq Pool /\ VisitsAreTrue' /\ GoneIsTwoMisses'
      BY <2>1, <2>2, PassKeeps
    <3>2. memo[On(v)] \in Verdicts /\ missedFor[On(v)] > 0
      BY <2>1, <2>2, <1>1, PicturesAssumption DEF MemoIsTrue, PicturesTypes, Verdicts
    <3>3. memo' \in [Pool -> Verdicts] /\ MemoIsTrue'
      BY <2>1, <2>2, <3>2, <1>1, PicturesAssumption DEF PicturesTypes, Verdicts, MemoIsTrue, Miss
    <3> QED
      BY <2>1, <3>1, <3>3, <1>1 DEF PicturesInductive, PicturesTypes
  <2>3. CASE Settle(v, screen[v].gone) /\ UNCHANGED memo
    BY <2>1, <2>3, <1>1, SettleKeeps DEF PicturesInductive, PicturesTypes, MemoIsTrue
  <2> QED
    BY <1>8, <2>2, <2>3 DEF RememberNothing
<1>9. ASSUME NEW f \in Pool, MarkPosterDead(f)
      PROVE  PicturesInductive'
  BY <1>1, <1>9 DEF MarkPosterDead, PicturesInductive, PicturesTypes, MemoIsTrue, VisitsAreTrue, GoneIsTwoMisses, On
<1>10. ASSUME NEW f \in Pool, TakeDown(f)
       PROVE  PicturesInductive'
  BY <1>1, <1>10 DEF TakeDown, PicturesInductive, PicturesTypes, MemoIsTrue, VisitsAreTrue, GoneIsTwoMisses, On
<1>11. CASE Restart
  BY <1>1, <1>2, <1>11, PicturesAssumption
  DEF Restart, PicturesInductive, PicturesTypes, MemoIsTrue, VisitsAreTrue, GoneIsTwoMisses, On,
      Unknown, Nobody, Verdicts
<1> QED
  BY <1>3, <1>4, <1>5, <1>6, <1>7, <1>8, <1>9, <1>10, <1>11, MissKeeps, TickKeeps DEF PicturesNext, Probe

\* A picture is written off, or about to be, only after two misses a whole
\* window apart, whatever visits look at once and store over each other.
THEOREM WrittenOffAfterTwoMisses == PicturesSpec => []GoneIsTwoMisses
<1>1. PicturesInit => PicturesInductive
  BY EmptySeq, PicturesAssumption
  DEF PicturesInit, PicturesInductive, PicturesTypes, MemoIsTrue, VisitsAreTrue, GoneIsTwoMisses,
      Unknown, Nobody, Verdicts, Looks
<1>2. PicturesInductive => GoneIsTwoMisses
  BY DEF PicturesInductive
<1> QED
  BY <1>1, <1>2, PicturesStep, PTL DEF PicturesSpec
=============================================================================
