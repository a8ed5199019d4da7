-------------------------------- MODULE Lease -------------------------------
(***************************************************************************)
(* Which process runs the background jobs, and how their loops learn that  *)
(* there is work: HoldLease, listen, notify and waitFor of                 *)
(* internal/catalog/lease.go, Runner.run of runner.go and the four fill    *)
(* loops it starts.                                                        *)
(*                                                                         *)
(* The lease is an advisory lock on one connection, and the connection     *)
(* carries the notifications too.  A loop runs a pass, waits to be woken   *)
(* or for its backstop, and runs another.  What a pass does is left to the *)
(* modules about the jobs: here work is only whether there is some the     *)
(* loop's last look did not see.                                           *)
(***************************************************************************)
EXTENDS Naturals

CONSTANTS
    Runners,        \* the processes
    Loops,          \* the loops run, of those of Channel
    MaxNews,        \* bound: times somebody makes work
    MaxTroubles,    \* bound: passes and notifications that fail, connections
                    \* that end, processes that stop or die
    Nobody, Orphan  \* the lease is free, or its process is dead

Signals == {"catalog_published", "poster_wanted", "poster_ready"}

\* The channel of Wakes each loop waits on.
Channel == [posters |-> "catalog_published", tmdb_ids |-> "catalog_published",
            tmdb_posters |-> "poster_wanted", colours |-> "poster_ready"]

\* The channels the listener pokes for a signal.
Pokes(signal) == IF signal = "catalog_published" THEN Signals ELSE {signal}

Woken(signal) == {l \in Loops : Channel[l] \in Pokes(signal)}

ASSUME LeaseAssumption ==
    /\ Loops \subseteq DOMAIN Channel
    /\ MaxNews \in Nat /\ MaxTroubles \in Nat
    /\ Nobody \notin Runners /\ Orphan \notin Runners /\ Nobody # Orphan

VARIABLES
    lease,          \* whose connection holds LeaseKey
    at,             \* "down", "asking", "working" or "stopping"
    leaving,        \* the processes told to stop
    cut,            \* the holders whose connection ended before they let it go
    heard,          \* the signals each holder has LISTENed for
    pending,        \* the notifications on its connection not yet read
    wake,           \* the channels with a wake in them
    loop,           \* "off", "pass", "done" or "wait"
    owed,           \* the loops with work their last look did not see
    excused,        \* the loops a failed pass, or a notification nobody could
                    \* hear, leaves to their backstop (no code keeps it)
    sending,        \* signals of work that is committed, not yet sent
    news, troubles

holder == <<cut, heard, pending, wake, loop>>
work == <<owed, excused, sending>>
bounds == <<news, troubles>>
vars == <<lease, at, leaving, holder, work, bounds>>

Init ==
    /\ lease = Nobody
    /\ at = [r \in Runners |-> "asking"] /\ leaving = {} /\ cut = {}
    /\ heard = [r \in Runners |-> {}] /\ pending = [r \in Runners |-> {}]
    /\ wake = [r \in Runners |-> {}]
    /\ loop = [r \in Runners |-> [l \in Loops |-> "off"]]
    /\ owed = {} /\ excused = {} /\ sending = {}
    /\ news = 0 /\ troubles = 0

Working(r) == \E l \in Loops : loop[r][l] # "off"

Trouble == troubles < MaxTroubles /\ troubles' = troubles + 1

-----------------------------------------------------------------------------
(* Holding the lease.                                                      *)

\* Not getting it is a stutter: it is asked for again after LeaseRetry.  The
\* loops start at once, with empty channels, while the connection has still
\* to LISTEN.
TakeLease(r) ==
    /\ at[r] = "asking" /\ lease = Nobody
    /\ lease' = r
    /\ at' = [at EXCEPT ![r] = "working"]
    /\ loop' = [loop EXCEPT ![r] = [l \in Loops |-> "pass"]]
    /\ UNCHANGED <<leaving, cut, heard, pending, wake, work, bounds>>

\* One statement per signal, in this order.
Listen(r, signal) ==
    /\ at[r] = "working" /\ lease = r
    /\ heard[r] = CASE signal = "catalog_published" -> {}
                    [] signal = "poster_wanted"     -> {"catalog_published"}
                    [] signal = "poster_ready"      -> {"catalog_published", "poster_wanted"}
    /\ heard' = [heard EXCEPT ![r] = @ \cup {signal}]
    /\ UNCHANGED <<lease, at, leaving, cut, pending, wake, loop, work, bounds>>

\* Slip: a wake is sent to the loops that wait, and kept for nobody.
HearAwake(r, signal) ==
    /\ at[r] = "working" /\ heard[r] = Signals
    /\ signal \in pending[r]
    /\ pending' = [pending EXCEPT ![r] = @ \ {signal}]
    /\ loop' = [loop EXCEPT ![r] = [l \in Loops |-> IF l \in Woken(signal) /\ @[l] = "wait"
                                                   THEN "pass" ELSE @[l]]]
    /\ UNCHANGED <<lease, at, leaving, cut, heard, wake, work, bounds>>

\* A channel holds one wake: a second poke changes nothing.
Hear(r, signal) ==
    /\ at[r] = "working" /\ heard[r] = Signals
    /\ signal \in pending[r]
    /\ pending' = [pending EXCEPT ![r] = @ \ {signal}]
    /\ wake' = [wake EXCEPT ![r] = @ \cup Pokes(signal)]
    /\ UNCHANGED <<lease, at, leaving, cut, heard, loop, work, bounds>>

\* listen returns, because the connection is gone or the process is told to
\* stop, and the work's context is cancelled.
StopWork(r) ==
    /\ at[r] = "working"
    /\ lease # r \/ r \in leaving
    /\ at' = [at EXCEPT ![r] = "stopping"]
    /\ UNCHANGED <<lease, leaving, holder, work, bounds>>

\* Slip: the channels outlive the holding.
ForgottenButWakes(r) ==
    /\ heard' = [heard EXCEPT ![r] = {}]
    /\ pending' = [pending EXCEPT ![r] = {}]
    /\ cut' = cut \ {r}
    /\ UNCHANGED wake

\* The connection and the channels are one holding's own.
Forgotten(r) ==
    /\ heard' = [heard EXCEPT ![r] = {}]
    /\ pending' = [pending EXCEPT ![r] = {}]
    /\ wake' = [wake EXCEPT ![r] = {}]
    /\ cut' = cut \ {r}

\* Slip: the connection is left open.
LetGoOpen(r) ==
    /\ at[r] = "stopping" /\ ~Working(r)
    /\ at' = [at EXCEPT ![r] = IF r \in leaving THEN "down" ELSE "asking"]
    /\ Forgotten(r)
    /\ UNCHANGED <<lease, leaving, loop, work, bounds>>

\* Slip: the loops are not waited for.
LetGoEarly(r) ==
    /\ at[r] = "stopping"
    /\ lease' = IF lease = r THEN Nobody ELSE lease
    /\ at' = [at EXCEPT ![r] = IF r \in leaving THEN "down" ELSE "asking"]
    /\ Forgotten(r)
    /\ UNCHANGED <<leaving, loop, work, bounds>>

\* The connection is closed only when every loop has come back.
LetGo(r) ==
    /\ at[r] = "stopping" /\ ~Working(r)
    /\ lease' = IF lease = r THEN Nobody ELSE lease
    /\ at' = [at EXCEPT ![r] = IF r \in leaving THEN "down" ELSE "asking"]
    /\ Forgotten(r)
    /\ UNCHANGED <<leaving, loop, work, bounds>>

-----------------------------------------------------------------------------
(* The loops.                                                              *)

\* Once the context is cancelled a loop can only return.
Turn(r, l, from, to) ==
    /\ at[r] = "working" /\ loop[r][l] = from
    /\ loop' = [loop EXCEPT ![r][l] = to]

\* The last query of a pass finds nothing it has not tried.  What is left of
\* the pass is a report.
EndPass(r, l) ==
    /\ Turn(r, l, "pass", "done")
    /\ owed' = owed \ {l}
    /\ excused' = excused \ {l}
    /\ UNCHANGED <<lease, at, leaving, cut, heard, pending, wake, sending, bounds>>

\* It ends with an error, a spent quota or rows it failed at.
PassFails(r, l) ==
    /\ Turn(r, l, "pass", "done")
    /\ Trouble
    /\ owed' = owed \cup {l}
    /\ excused' = excused \cup {l}
    /\ UNCHANGED <<lease, at, leaving, cut, heard, pending, wake, sending, news>>

Wait(r, l) ==
    /\ Turn(r, l, "done", "wait")
    /\ UNCHANGED <<lease, at, leaving, cut, heard, pending, wake, work, bounds>>

TakeWake(r, l) ==
    /\ Turn(r, l, "wait", "pass")
    /\ Channel[l] \in wake[r]
    /\ wake' = [wake EXCEPT ![r] = @ \ {Channel[l]}]
    /\ UNCHANGED <<lease, at, leaving, cut, heard, pending, work, bounds>>

\* Slip: only a wake ends the wait.
NoBackstop(r, l) == FALSE

Backstop(r, l) ==
    /\ Turn(r, l, "wait", "pass")
    /\ UNCHANGED <<lease, at, leaving, cut, heard, pending, wake, work, bounds>>

\* The cancelled context ends a pass and a wait alike.
Return(r, l) ==
    /\ at[r] = "stopping" /\ loop[r][l] # "off"
    /\ loop' = [loop EXCEPT ![r][l] = "off"]
    /\ UNCHANGED <<lease, at, leaving, cut, heard, pending, wake, work, bounds>>

-----------------------------------------------------------------------------
(* Work.                                                                   *)

\* Rows are committed, and then the signal is sent.
MakeWork(signal) ==
    /\ news < MaxNews
    /\ news' = news + 1
    /\ Woken(signal) # {} /\ signal \notin sending
    /\ sending' = sending \cup {signal}
    /\ owed' = owed \cup Woken(signal)
    /\ UNCHANGED <<lease, at, leaving, holder, excused, troubles>>

\* Only a connection that has LISTENed gets it.
Notify(signal) ==
    /\ signal \in sending
    /\ sending' = sending \ {signal}
    /\ pending' = [r \in Runners |->
                    IF lease = r /\ signal \in heard[r]
                      THEN pending[r] \cup {signal} ELSE pending[r]]
    /\ excused' = IF \E r \in Runners : lease = r /\ signal \in heard[r]
                    THEN excused ELSE excused \cup Woken(signal)
    /\ UNCHANGED <<lease, at, leaving, cut, heard, wake, loop, owed, bounds>>

NotifyFails(signal) ==
    /\ signal \in sending /\ Trouble
    /\ sending' = sending \ {signal}
    /\ excused' = excused \cup Woken(signal)
    /\ UNCHANGED <<lease, at, leaving, holder, owed, news>>

-----------------------------------------------------------------------------
(* Connections and processes.                                              *)

\* The server ends the connection; the process finds out some time later.
ConnectionEnds(r) ==
    /\ Trouble
    /\ lease = r
    /\ lease' = Nobody
    /\ cut' = cut \cup {r}
    /\ UNCHANGED <<at, leaving, heard, pending, wake, loop, work, news>>

Shutdown(r) ==
    /\ Trouble
    /\ at[r] # "down" /\ r \notin leaving
    /\ leaving' = leaving \cup {r}
    /\ at' = [at EXCEPT ![r] = IF @ = "asking" THEN "down" ELSE @]
    /\ UNCHANGED <<lease, holder, work, news>>

Dies(r) ==
    /\ Trouble
    /\ at[r] # "down"
    /\ at' = [at EXCEPT ![r] = "down"]
    /\ lease' = IF lease = r THEN Orphan ELSE lease
    /\ Forgotten(r)
    /\ loop' = [loop EXCEPT ![r] = [l \in Loops |-> "off"]]
    /\ UNCHANGED <<leaving, work, news>>

Reaped ==
    /\ lease = Orphan
    /\ lease' = Nobody
    /\ UNCHANGED <<at, leaving, holder, work, bounds>>

\* A new container.
Starts(r) ==
    /\ at[r] = "down"
    /\ at' = [at EXCEPT ![r] = "asking"]
    /\ leaving' = leaving \ {r}
    /\ UNCHANGED <<lease, holder, work, bounds>>

-----------------------------------------------------------------------------
Holds(r) == TakeLease(r) \/ StopWork(r) \/ LetGo(r)

Listens(r) == \E s \in Signals : Listen(r, s) \/ Hear(r, s)

LoopSteps(r, l) == EndPass(r, l) \/ Wait(r, l) \/ TakeWake(r, l) \/ Backstop(r, l) \/ Return(r, l)

Next ==
    \/ \E r \in Runners :
         \/ Holds(r) \/ Listens(r)
         \/ ConnectionEnds(r) \/ Shutdown(r) \/ Dies(r) \/ Starts(r)
         \/ \E l \in Loops : LoopSteps(r, l) \/ PassFails(r, l)
    \/ \E s \in Signals : MakeWork(s) \/ Notify(s) \/ NotifyFails(s)
    \/ Reaped

Spec == Init /\ [][Next]_vars

\* Every loop and every holder runs on, a process without the lease goes on
\* asking; a dead client's session ends and its container is replaced.
Fairness ==
    /\ \A r \in Runners :
         /\ WF_vars(TakeLease(r)) /\ WF_vars(StopWork(r) \/ LetGo(r)) /\ WF_vars(Starts(r))
         /\ \A l \in Loops : WF_vars(LoopSteps(r, l))
    /\ WF_vars(Reaped)

FairSpec == Spec /\ Fairness
-----------------------------------------------------------------------------
(* What must hold.                                                         *)

\* Every variable keeps its values; only a process that is up holds the lease,
\* and nothing of one holding, neither connection nor channels, is left for
\* the next.
TypeOK ==
    /\ lease \in Runners \cup {Nobody, Orphan}
    /\ at \in [Runners -> {"down", "asking", "working", "stopping"}]
    /\ leaving \subseteq Runners /\ cut \subseteq Runners
    /\ heard \in [Runners -> SUBSET Signals] /\ pending \in [Runners -> SUBSET Signals]
    /\ wake \in [Runners -> SUBSET Signals]
    /\ loop \in [Runners -> [Loops -> {"off", "pass", "done", "wait"}]]
    /\ owed \subseteq Loops /\ excused \subseteq Loops /\ sending \subseteq Signals
    /\ news \in 0..MaxNews /\ troubles \in 0..MaxTroubles
    /\ \A r \in Runners : at[r] \in {"down", "asking"} =>
         /\ lease # r /\ r \notin cut
         /\ heard[r] = {} /\ pending[r] = {} /\ wake[r] = {}

\* "Nothing starts until this process holds the lease, and everything stops
\* if it loses it" (runner.go:76): a process with a loop running holds the
\* lease, unless its connection was ended and it has still to be told.
OnlyTheHolderWorks == \A r \in Runners : Working(r) => lease = r \/ r \in cut

\* A loop asleep with work it has not seen has a wake coming, unless a pass
\* or a notification failed.
Coming(r, l) ==
    \/ Channel[l] \in wake[r]
    \/ \E s \in sending \cup pending[r] : l \in Woken(s)

Alone(l) == \A k \in Loops : Channel[k] = Channel[l] => k = l

\* ... wherever a loop is the only one that waits on its channel: no order of
\* passes, wakes and notifications loses the news.
NoWakeLost ==
    \A r \in Runners, l \in Loops :
        /\ lease = r /\ at[r] = "working" /\ loop[r][l] \in {"done", "wait"}
        /\ Alone(l) /\ l \in owed \ excused
        => Coming(r, l)

\* "A new generation brings new titles, which need posters" (lease.go:164)
\* and "is the only thing that brings new titles" to match (tmdbids.go:283):
\* the same of every loop, so that the timer "is no longer how new work is
\* found" (lease.go:188).
EveryLoopIsTold ==
    \A r \in Runners, l \in Loops :
        lease = r /\ at[r] = "working" /\ loop[r][l] \in {"done", "wait"} /\ l \in owed \ excused
            => Coming(r, l)

\* The jobs do not stop for good at a deploy, a crash or a dropped connection.
AlwaysARunner == []<>(\E r \in Runners : lease = r /\ at[r] = "working")

\* Whatever was lost on the way, no loop is left with work for ever.
WorkIsSeen == \A l \in Loops : []<>(l \notin owed)
=============================================================================
