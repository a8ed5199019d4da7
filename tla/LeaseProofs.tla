----------------------------- MODULE LeaseProofs ----------------------------
(***************************************************************************)
(* Proofs about Lease for any set of processes, any of the four loops, and *)
(* any number of publishes, failed passes, lost connections, deploys and   *)
(* crashes.                                                                *)
(*                                                                         *)
(* TypeOK, OnlyTheHolderWorks and NoWakeLost are each kept by every step   *)
(* once TypeOK is: no further strengthening is needed.  That the wakes of  *)
(* two loops on one channel are not counted is why NoWakeLost asks for     *)
(* Alone(l).                                                               *)
(***************************************************************************)
EXTENDS Lease, TLAPS

\* At the start nobody holds the lease and nothing runs.
LEMMA InitHolds == Init => TypeOK /\ OnlyTheHolderWorks /\ NoWakeLost
BY LeaseAssumption DEF Init, TypeOK, OnlyTheHolderWorks, Working, NoWakeLost

\* A poke fills channels that are signals', whichever signal it answers.
LEMMA PokesAreSignals == \A s \in Signals : Pokes(s) \subseteq Signals
BY DEF Pokes

\* No step breaks the type invariant.
LEMMA TypeStep == TypeOK /\ [Next]_vars => TypeOK'
<1> SUFFICES ASSUME TypeOK, [Next]_vars PROVE TypeOK'
  OBVIOUS
<1> USE LeaseAssumption, PokesAreSignals DEF TypeOK, holder, work, bounds
<1>1. ASSUME NEW r \in Runners, TakeLease(r) PROVE TypeOK'
  BY <1>1 DEF TakeLease
<1>2. ASSUME NEW r \in Runners, StopWork(r) PROVE TypeOK'
  BY <1>2 DEF StopWork
<1>3. ASSUME NEW r \in Runners, LetGo(r) PROVE TypeOK'
  BY <1>3 DEF LetGo, Forgotten
<1>4. ASSUME NEW r \in Runners, ConnectionEnds(r) PROVE TypeOK'
  BY <1>4 DEF ConnectionEnds, Trouble
<1>5. ASSUME NEW r \in Runners, Shutdown(r) PROVE TypeOK'
  BY <1>5 DEF Shutdown, Trouble
<1>6. ASSUME NEW r \in Runners, Dies(r) PROVE TypeOK'
  BY <1>6 DEF Dies, Forgotten, Trouble
<1>7. ASSUME NEW r \in Runners, Starts(r) PROVE TypeOK'
  BY <1>7 DEF Starts
<1>8. ASSUME NEW r \in Runners, NEW s \in Signals, Listen(r, s) PROVE TypeOK'
  BY <1>8 DEF Listen
<1>9. ASSUME NEW r \in Runners, NEW s \in Signals, Hear(r, s) PROVE TypeOK'
  BY <1>9 DEF Hear
<1>10. ASSUME NEW r \in Runners, NEW l \in Loops, EndPass(r, l) PROVE TypeOK'
  BY <1>10 DEF EndPass, Turn
<1>11. ASSUME NEW r \in Runners, NEW l \in Loops, PassFails(r, l) PROVE TypeOK'
  BY <1>11 DEF PassFails, Turn, Trouble
<1>12. ASSUME NEW r \in Runners, NEW l \in Loops, Wait(r, l) PROVE TypeOK'
  BY <1>12 DEF Wait, Turn
<1>13. ASSUME NEW r \in Runners, NEW l \in Loops, TakeWake(r, l) PROVE TypeOK'
  BY <1>13 DEF TakeWake, Turn
<1>14. ASSUME NEW r \in Runners, NEW l \in Loops, Backstop(r, l) PROVE TypeOK'
  BY <1>14 DEF Backstop, Turn
<1>15. ASSUME NEW r \in Runners, NEW l \in Loops, Return(r, l) PROVE TypeOK'
  BY <1>15 DEF Return
<1>16. ASSUME NEW s \in Signals, MakeWork(s) PROVE TypeOK'
  BY <1>16 DEF MakeWork, Woken
<1>17. ASSUME NEW s \in Signals, Notify(s) PROVE TypeOK'
  BY <1>17 DEF Notify, Woken
<1>18. ASSUME NEW s \in Signals, NotifyFails(s) PROVE TypeOK'
  BY <1>18 DEF NotifyFails, Woken, Trouble
<1>19. CASE Reaped
  BY <1>19 DEF Reaped
<1>20. CASE UNCHANGED vars
  BY <1>20 DEF vars, holder, work, bounds
<1> QED
  BY <1>1, <1>2, <1>3, <1>4, <1>5, <1>6, <1>7, <1>8, <1>9, <1>10, <1>11, <1>12, <1>13, <1>14, <1>15, <1>16, <1>17, <1>18, <1>19, <1>20 DEF Next, Holds, Listens, LoopSteps

\* A step takes the lease from a process that has loops running only by ending
\* its connection, and that is remembered until its loops are back.
LEMMA HolderStep == TypeOK /\ OnlyTheHolderWorks /\ [Next]_vars => OnlyTheHolderWorks'
<1> SUFFICES ASSUME TypeOK /\ OnlyTheHolderWorks, [Next]_vars PROVE OnlyTheHolderWorks'
  OBVIOUS
<1> USE LeaseAssumption DEF TypeOK, OnlyTheHolderWorks, Working, holder, work, bounds
<1>1. ASSUME NEW r \in Runners, TakeLease(r) PROVE OnlyTheHolderWorks'
  BY <1>1 DEF TakeLease
<1>2. ASSUME NEW r \in Runners, StopWork(r) PROVE OnlyTheHolderWorks'
  BY <1>2 DEF StopWork
<1>3. ASSUME NEW r \in Runners, LetGo(r) PROVE OnlyTheHolderWorks'
  BY <1>3 DEF LetGo, Forgotten
<1>4. ASSUME NEW r \in Runners, ConnectionEnds(r) PROVE OnlyTheHolderWorks'
  BY <1>4 DEF ConnectionEnds, Trouble
<1>5. ASSUME NEW r \in Runners, Shutdown(r) PROVE OnlyTheHolderWorks'
  BY <1>5 DEF Shutdown, Trouble
<1>6. ASSUME NEW r \in Runners, Dies(r) PROVE OnlyTheHolderWorks'
  BY <1>6 DEF Dies, Forgotten, Trouble
<1>7. ASSUME NEW r \in Runners, Starts(r) PROVE OnlyTheHolderWorks'
  BY <1>7 DEF Starts
<1>8. ASSUME NEW r \in Runners, NEW s \in Signals, Listen(r, s) PROVE OnlyTheHolderWorks'
  BY <1>8 DEF Listen
<1>9. ASSUME NEW r \in Runners, NEW s \in Signals, Hear(r, s) PROVE OnlyTheHolderWorks'
  BY <1>9 DEF Hear
<1>10. ASSUME NEW r \in Runners, NEW l \in Loops, EndPass(r, l) PROVE OnlyTheHolderWorks'
  BY <1>10 DEF EndPass, Turn
<1>11. ASSUME NEW r \in Runners, NEW l \in Loops, PassFails(r, l) PROVE OnlyTheHolderWorks'
  BY <1>11 DEF PassFails, Turn, Trouble
<1>12. ASSUME NEW r \in Runners, NEW l \in Loops, Wait(r, l) PROVE OnlyTheHolderWorks'
  BY <1>12 DEF Wait, Turn
<1>13. ASSUME NEW r \in Runners, NEW l \in Loops, TakeWake(r, l) PROVE OnlyTheHolderWorks'
  BY <1>13 DEF TakeWake, Turn
<1>14. ASSUME NEW r \in Runners, NEW l \in Loops, Backstop(r, l) PROVE OnlyTheHolderWorks'
  BY <1>14 DEF Backstop, Turn
<1>15. ASSUME NEW r \in Runners, NEW l \in Loops, Return(r, l) PROVE OnlyTheHolderWorks'
  BY <1>15 DEF Return
<1>16. ASSUME NEW s \in Signals, MakeWork(s) PROVE OnlyTheHolderWorks'
  BY <1>16 DEF MakeWork, Woken
<1>17. ASSUME NEW s \in Signals, Notify(s) PROVE OnlyTheHolderWorks'
  BY <1>17 DEF Notify, Woken
<1>18. ASSUME NEW s \in Signals, NotifyFails(s) PROVE OnlyTheHolderWorks'
  BY <1>18 DEF NotifyFails, Woken, Trouble
<1>19. CASE Reaped
  BY <1>19 DEF Reaped
<1>20. CASE UNCHANGED vars
  BY <1>20 DEF vars, holder, work, bounds
<1> QED
  BY <1>1, <1>2, <1>3, <1>4, <1>5, <1>6, <1>7, <1>8, <1>9, <1>10, <1>11, <1>12, <1>13, <1>14, <1>15, <1>16, <1>17, <1>18, <1>19, <1>20 DEF Next, Holds, Listens, LoopSteps

\* News a sleeping loop has not seen stays on its way to it: from the sender to
\* the connection, from there to its channel, and out of the channel only into
\* the loop itself.
LEMMA WakeStep == TypeOK /\ NoWakeLost /\ [Next]_vars => NoWakeLost'
<1> SUFFICES ASSUME TypeOK /\ NoWakeLost, [Next]_vars PROVE NoWakeLost'
  OBVIOUS
<1> USE LeaseAssumption DEF TypeOK, NoWakeLost, Coming, Woken, Alone, holder, work, bounds
<1>1. ASSUME NEW r \in Runners, TakeLease(r) PROVE NoWakeLost'
  BY <1>1 DEF TakeLease
<1>2. ASSUME NEW r \in Runners, StopWork(r) PROVE NoWakeLost'
  BY <1>2 DEF StopWork
<1>3. ASSUME NEW r \in Runners, LetGo(r) PROVE NoWakeLost'
  BY <1>3 DEF LetGo, Forgotten
<1>4. ASSUME NEW r \in Runners, ConnectionEnds(r) PROVE NoWakeLost'
  BY <1>4 DEF ConnectionEnds, Trouble
<1>5. ASSUME NEW r \in Runners, Shutdown(r) PROVE NoWakeLost'
  BY <1>5 DEF Shutdown, Trouble
<1>6. ASSUME NEW r \in Runners, Dies(r) PROVE NoWakeLost'
  BY <1>6 DEF Dies, Forgotten, Trouble
<1>7. ASSUME NEW r \in Runners, Starts(r) PROVE NoWakeLost'
  BY <1>7 DEF Starts
<1>8. ASSUME NEW r \in Runners, NEW s \in Signals, Listen(r, s) PROVE NoWakeLost'
  BY <1>8 DEF Listen
<1>9. ASSUME NEW r \in Runners, NEW s \in Signals, Hear(r, s) PROVE NoWakeLost'
  BY <1>9 DEF Hear
<1>10. ASSUME NEW r \in Runners, NEW l \in Loops, EndPass(r, l) PROVE NoWakeLost'
  BY <1>10 DEF EndPass, Turn
<1>11. ASSUME NEW r \in Runners, NEW l \in Loops, PassFails(r, l) PROVE NoWakeLost'
  BY <1>11 DEF PassFails, Turn, Trouble
<1>12. ASSUME NEW r \in Runners, NEW l \in Loops, Wait(r, l) PROVE NoWakeLost'
  BY <1>12 DEF Wait, Turn
<1>13. ASSUME NEW r \in Runners, NEW l \in Loops, TakeWake(r, l) PROVE NoWakeLost'
  BY <1>13 DEF TakeWake, Turn
<1>14. ASSUME NEW r \in Runners, NEW l \in Loops, Backstop(r, l) PROVE NoWakeLost'
  BY <1>14 DEF Backstop, Turn
<1>15. ASSUME NEW r \in Runners, NEW l \in Loops, Return(r, l) PROVE NoWakeLost'
  BY <1>15 DEF Return
<1>16. ASSUME NEW s \in Signals, MakeWork(s) PROVE NoWakeLost'
  BY <1>16 DEF MakeWork, Woken
<1>17. ASSUME NEW s \in Signals, Notify(s) PROVE NoWakeLost'
  BY <1>17 DEF Notify, Woken
<1>18. ASSUME NEW s \in Signals, NotifyFails(s) PROVE NoWakeLost'
  BY <1>18 DEF NotifyFails, Woken, Trouble
<1>19. CASE Reaped
  BY <1>19 DEF Reaped
<1>20. CASE UNCHANGED vars
  BY <1>20 DEF vars, holder, work, bounds
<1> QED
  BY <1>1, <1>2, <1>3, <1>4, <1>5, <1>6, <1>7, <1>8, <1>9, <1>10, <1>11, <1>12, <1>13, <1>14, <1>15, <1>16, <1>17, <1>18, <1>19, <1>20 DEF Next, Holds, Listens, LoopSteps

\* The type invariant of the lease and its loops holds in every state.
THEOREM TypeCorrect == Spec => []TypeOK
<1>1. Init => TypeOK
  BY InitHolds
<1> QED
  BY <1>1, TypeStep, PTL DEF Spec

\* "Nothing starts until this process holds the lease, and everything stops if
\* it loses it" (runner.go): at every moment a process with a job running
\* either holds the lease or had its connection ended by the server.
THEOREM HolderWorksAlone == Spec => []OnlyTheHolderWorks
<1>1. Init => OnlyTheHolderWorks
  BY InitHolds
<1> QED
  BY <1>1, HolderStep, TypeCorrect, PTL DEF Spec

\* A loop that is alone on its channel never sleeps over work it was told of,
\* in whatever order passes, pokes and notifications fall.
THEOREM WakesAreKept == Spec => []NoWakeLost
<1>1. Init => NoWakeLost
  BY InitHolds
<1> QED
  BY <1>1, WakeStep, TypeCorrect, PTL DEF Spec
=============================================================================
