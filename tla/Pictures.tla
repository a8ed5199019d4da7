------------------------------ MODULE Pictures ------------------------------
(***************************************************************************)
(* The cold screen's question whether a poster is still there              *)
(* (catalog/posterprobe.go, FirstRun and firstLive in catalog/search.go).  *)
(* The image edges replay a miss for a while, so a first one only keeps    *)
(* the film off the screen; a second one past that window writes it off.   *)
(* The memo of the first is read before the request and again after it,    *)
(* by as many visits at once as there are, without a lock around the two.  *)
(*                                                                         *)
(* A film has one address here.  A time that is kept is how many ticks ago *)
(* it was, up to the window and no further.                                *)
(***************************************************************************)
EXTENDS Naturals, Sequences, FiniteSets

CONSTANTS
    Pool,           \* the pool of one era
    Visits,
    Depth,          \* firstRunDepth: candidates of an era
    Window,         \* posterMissTTL, in ticks
    Fragile,        \* bound: the films whose picture may be taken down
    MaxSpent        \* bound: silent hosts, replayed misses, statements that
                    \* fail, processes that end

\* A request is over well within the window: see PicturesTick.
ASSUME PicturesAssumption ==
    /\ Window \in Nat \ {0, 1} /\ Depth \in Nat \ {0} /\ MaxSpent \in Nat
    /\ Fragile \subseteq Pool

VARIABLES
    up,             \* the pictures the host has
    memo,           \* posterVerdict
    screen,         \* screen[v]: how far its look through the era has come
    marking,        \* films about to be marked, off the request
    written,        \* films with status 'dead'
    missedFor,      \* how long ago each film's first miss was heard, 0 if
                    \* none was (no code keeps it)
    spent           \* the faults so far

pictureVars == <<up, memo, screen, marking, written, missedFor, spent>>

Unknown == [is |-> "none", age |-> 0]
Alive == [is |-> "alive", age |-> 0]
Stuck == [is |-> "gone", age |-> 0]
Miss == [is |-> "miss", age |-> 0]
\* left: the candidates it has still to look at.  gone: those it was told
\* are gone.  slow: a tick has passed since it asked.
Nobody == [at |-> "away", left |-> <<>>, heard |-> "none", gone |-> {}, slow |-> FALSE]

PicturesInit ==
    /\ up = Pool
    /\ memo = [f \in Pool |-> Unknown]
    /\ screen = [v \in Visits |-> Nobody]
    /\ marking = {} /\ written = {}
    /\ missedFor = [f \in Pool |-> 0]
    /\ spent = 0

Fault == spent < MaxSpent /\ spent' = spent + 1
On(v) == Head(screen[v].left)
Draws == {s \in UNION {[1..n -> Pool] : n \in 1..Depth} : \A i, j \in DOMAIN s : i # j => s[i] # s[j]}

\* FirstRun's query: candidates of the era in a random order.
Arrive(v) ==
    /\ screen[v] = Nobody
    /\ \E s \in Draws : screen' = [screen EXCEPT ![v] = [Nobody EXCEPT !.at = "look", !.left = s]]
    /\ UNCHANGED <<up, memo, marking, written, missedFor, spent>>

\* The era is settled, by a film that is shown or by having none: what the
\* host said is gone is marked behind the answer.
Settle(v, gone) ==
    /\ screen' = [screen EXCEPT ![v] = Nobody]
    /\ marking' = marking \cup gone

\* A candidate is passed over, for being gone or only missing.
Pass(v, gone) ==
    LET all == IF gone THEN screen[v].gone \cup {On(v)} ELSE screen[v].gone
    IN  IF Len(screen[v].left) = 1 THEN Settle(v, all)
        ELSE /\ screen' = [screen EXCEPT ![v] = [Nobody EXCEPT !.at = "look", !.left = Tail(screen[v].left),
                                                             !.gone = all]]
             /\ UNCHANGED marking

\* rememberPosterGone up to its request.
LookAt(v) ==
    /\ screen[v].at = "look"
    /\ LET m == memo[On(v)] IN
        \/ m.is = "alive" /\ Settle(v, screen[v].gone)
        \/ m.is = "gone" /\ Pass(v, TRUE)
        \/ m.is = "miss" /\ m.age < Window /\ Pass(v, FALSE)
        \/ /\ m.is = "none" \/ (m.is = "miss" /\ m.age = Window)
           /\ screen' = [screen EXCEPT ![v].at = "ask"]
           /\ UNCHANGED marking
    /\ UNCHANGED <<up, memo, written, missedFor, spent>>

\* askPoster: there, not there (an edge may replay an old miss), or no
\* answer that means either.
Hear(v) ==
    /\ screen[v].at = "ask"
    /\ \/ On(v) \in up /\ screen' = [screen EXCEPT ![v].at = "heard", ![v].heard = "hit"] /\ UNCHANGED <<missedFor, spent>>
       \/ /\ IF On(v) \in up THEN Fault ELSE UNCHANGED spent
          /\ screen' = [screen EXCEPT ![v].at = "heard", ![v].heard = "miss"]
          /\ missedFor' = [missedFor EXCEPT ![On(v)] = IF @ = 0 THEN 1 ELSE @]
       \/ Fault /\ screen' = [screen EXCEPT ![v].at = "heard", ![v].heard = "silent"] /\ UNCHANGED missedFor
    /\ UNCHANGED <<up, memo, marking, written>>

\* Slip: the second miss counts without the window having passed.
RememberSoon(v) ==
    LET m == memo[On(v)] IN
    /\ screen[v].at = "heard" /\ screen[v].heard = "miss"
    /\ memo' = [memo EXCEPT ![On(v)] = IF m.is = "miss" THEN Stuck ELSE Miss]
    /\ Pass(v, m.is = "miss")
    /\ UNCHANGED <<up, written, missedFor, spent>>

\* Slip: a miss begins the window again, confirmed or not.
RememberAnew(v) ==
    /\ screen[v].at = "heard" /\ screen[v].heard = "miss"
    /\ memo' = [memo EXCEPT ![On(v)] = Miss]
    /\ Pass(v, FALSE)
    /\ UNCHANGED <<up, written, missedFor, spent>>

\* A miss: the memo is looked at again, and is the answer of whoever stored
\* last.  Anything but an old miss is overwritten by a new one.
RememberMiss(v) ==
    LET confirmed == memo[On(v)] = [Miss EXCEPT !.age = Window] IN
    /\ screen[v].at = "heard" /\ screen[v].heard = "miss"
    /\ memo' = [memo EXCEPT ![On(v)] = IF confirmed THEN Stuck ELSE Miss]
    /\ Pass(v, confirmed)
    /\ UNCHANGED <<up, written, missedFor, spent>>

RememberHit(v) ==
    /\ screen[v].at = "heard" /\ screen[v].heard = "hit"
    /\ memo' = [memo EXCEPT ![On(v)] = Alive]
    /\ Settle(v, screen[v].gone)
    /\ UNCHANGED <<up, written, missedFor, spent>>

\* No answer: an earlier miss is kept and its window begun again, and a film
\* without one is shown.
RememberNothing(v) ==
    /\ screen[v].at = "heard" /\ screen[v].heard = "silent"
    /\ IF memo[On(v)].is = "miss"
         THEN memo' = [memo EXCEPT ![On(v)] = Miss] /\ Pass(v, FALSE)
         ELSE Settle(v, screen[v].gone) /\ UNCHANGED memo
    /\ UNCHANGED <<up, written, missedFor, spent>>

\* MarkPosterDead, whose error nobody looks at.
MarkPosterDead(f) ==
    /\ f \in marking /\ marking' = marking \ {f}
    /\ \/ written' = written \cup {f} /\ UNCHANGED spent
       \/ Fault /\ UNCHANGED written
    /\ UNCHANGED <<up, memo, screen, missedFor>>

TakeDown(f) ==
    /\ f \in up \cap Fragile /\ up' = up \ {f}
    /\ UNCHANGED <<memo, screen, marking, written, missedFor, spent>>

Aged(age) == IF age = Window THEN age ELSE age + 1

\* posterHTTP gives up after two seconds: a request meets one tick at most.
PicturesTick ==
    /\ \A v \in Visits : ~screen[v].slow
    /\ memo' = [f \in Pool |-> IF memo[f].is = "miss" THEN [memo[f] EXCEPT !.age = Aged(@)] ELSE memo[f]]
    /\ screen' = [v \in Visits |-> [screen[v] EXCEPT !.slow = screen[v].at \in {"ask", "heard"}]]
    /\ missedFor' = [f \in Pool |-> IF missedFor[f] \in {0, Window + 1} THEN missedFor[f] ELSE missedFor[f] + 1]
    /\ UNCHANGED <<up, marking, written, spent>>

\* What is remembered and owed goes with the process.
Restart ==
    /\ Fault
    /\ memo' = [f \in Pool |-> Unknown]
    /\ screen' = [v \in Visits |-> Nobody]
    /\ marking' = {}
    /\ UNCHANGED <<up, written, missedFor>>

Probe(v) == LookAt(v) \/ Hear(v) \/ RememberMiss(v) \/ RememberHit(v) \/ RememberNothing(v)

PicturesNext ==
    \/ \E v \in Visits : Arrive(v) \/ Probe(v)
    \/ \E f \in Pool : MarkPosterDead(f) \/ TakeDown(f)
    \/ PicturesTick \/ Restart

\* Requests come to an end, the marking goroutine runs, and time passes.
PicturesFairness ==
    /\ \A v \in Visits : WF_pictureVars(Probe(v))
    /\ \A f \in Pool : WF_pictureVars(MarkPosterDead(f))
    /\ SF_pictureVars(PicturesTick)

PicturesSpec == PicturesInit /\ [][PicturesNext]_pictureVars /\ PicturesFairness

-----------------------------------------------------------------------------
\* A picture is written off only if its address has missed twice a whole
\* window apart, whatever visits ask at once and store over each other, and
\* whatever silence comes in between ("a second, once that window has
\* passed, is the picture actually being gone").
GoneIsTwoMisses == \A f \in marking \cup written : missedFor[f] = Window + 1

\* A picture that is gone, and that nobody has seen since the process began,
\* is written off when the cold screen keeps coming to it: two visits that
\* confirm it at once may each undo what the other stored, but not for ever.
GoneIsWrittenOff ==
    \A f \in Pool :
        /\ <>[](f \notin up /\ memo[f].is # "alive")
        /\ []<>(\E v \in Visits : screen[v].at = "look" /\ On(v) = f)
        => <>(f \in written)
=============================================================================
