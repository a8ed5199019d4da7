------------------------------- MODULE Board -------------------------------
(***************************************************************************)
(* What the jobs say to a chat (telegram/telegram.go): a new message for a *)
(* change of state, and one standing message rewritten in place with each  *)
(* job's last line.  Any job's goroutine notes; one goroutine sends.  The  *)
(* lock is not held over a call, so notes arrive while a message is out.   *)
(*                                                                         *)
(* A text is the number of the note it says.                               *)
(* A time that is kept is how many ticks ago it was, counted from 1 up to  *)
(* the interval and no further; 0 is the zero time, or no timer.           *)
(***************************************************************************)
EXTENDS Naturals, Sequences

CONSTANTS
    Jobs,
    Every,          \* boardEvery, in ticks
    MaxNotes,       \* bound: what the jobs say
    MaxBotches      \* bound: calls that fail, standing messages deleted

ASSUME BoardAssumption ==
    Every \in Nat \ {0} /\ {MaxNotes, MaxBotches} \subseteq Nat

VARIABLES
    line,           \* line[j]: what the job said last; 0 before it has
    pushes,         \* the messages not yet taken to be sent
    dirty, since,   \* a line has changed, and how long ago
    lastBoard, lastEdit,
    boardID,
    wake, timer,    \* the loop's channel, and how long until its timer fires
    loop,           \* where the loop is
    chat,           \* the standing messages in the chat: id -> what it says
    told,           \* the messages that were tried, in order
    noted, pushed,  \* the notes so far; those that are changes of state
    botched

box == <<line, pushes, dirty, since>>
board == <<lastBoard, lastEdit, boardID>>
boardVars == <<box, board, wake, timer, loop, chat, told, noted, pushed, botched>>

\* batch: messages being sent.  news: the delivery had any.  text, id: the
\* standing message being written.  then: what follows, by who asked for it.
Waiting == [at |-> "wait", batch |-> <<>>, news |-> FALSE, text |-> <<>>, then |-> "timer"]
Quiet == [j \in Jobs |-> 0]
Gone == <<>>

BoardInit ==
    /\ line = Quiet /\ pushes = <<>> /\ dirty = FALSE /\ since = 0
    /\ lastBoard = <<>> /\ lastEdit = 0 /\ boardID = 0
    /\ wake = FALSE /\ timer = 0 /\ loop = Waiting
    /\ chat = <<>> /\ told = <<>> /\ noted = 0 /\ pushed = <<>>
    /\ botched = 0

-----------------------------------------------------------------------------
Just == 1
LongAgo == Every + 1
Older(t) == IF t \in {0, LongAgo} THEN t ELSE t + 1

\* Note: a job says something new; pushes says it is a change of state.
Note(j, change) ==
    /\ noted < MaxNotes /\ noted' = noted + 1
    /\ line' = [line EXCEPT ![j] = noted']
    /\ dirty' = TRUE
    /\ since' = IF since = 0 THEN Just ELSE since
    /\ pushes' = IF change THEN Append(pushes, noted') ELSE pushes
    /\ pushed' = IF change THEN Append(pushed, noted') ELSE pushed
    /\ wake' = TRUE
    /\ UNCHANGED <<board, timer, loop, chat, told, botched>>

\* A job says what it said last: nothing is noted of progress like that.
\* (A stutter, and so left out of Next.)

-----------------------------------------------------------------------------
(* The loop.                                                               *)

Due == dirty /\ since = LongAgo /\ lastEdit \in {0, LongAgo}

\* Slip: what is being sent is not taken off the list.
LeavesThem ==
    /\ loop.at = "wait" /\ wake
    /\ wake' = FALSE
    /\ loop' = [Waiting EXCEPT !.at = "push", !.batch = pushes, !.news = pushes # <<>>, !.then = "wake"]
    /\ UNCHANGED <<box, board, timer, chat, told, noted, pushed, botched>>

\* deliver begins: sendPushes takes what is there.
Deliver ==
    /\ loop.at = "wait" /\ wake
    /\ wake' = FALSE
    /\ loop' = [Waiting EXCEPT !.at = "push", !.batch = pushes, !.news = pushes # <<>>, !.then = "wake"]
    /\ pushes' = <<>>
    /\ UNCHANGED <<line, dirty, since, board, timer, chat, told, noted, pushed, botched>>

\* One of them is tried; whether it arrives is not looked at.
SendPush ==
    /\ loop.at = "push" /\ loop.batch # <<>>
    /\ told' = Append(told, Head(loop.batch))
    /\ loop' = [loop EXCEPT !.batch = Tail(@)]
    /\ UNCHANGED <<box, board, wake, timer, chat, noted, pushed, botched>>

\* Slip: no timer is armed for what is not yet due.
NeverArmed ==
    /\ loop.at = "push" /\ loop.batch = <<>>
    /\ loop' = IF loop.news \/ Due THEN [loop EXCEPT !.at = "flush"] ELSE Waiting
    /\ UNCHANGED <<box, board, wake, timer, chat, told, noted, pushed, botched>>

\* The standing message is due after news, or once a line is old enough.
\* Otherwise a timer is armed for what is not yet written.
AfterPushes ==
    /\ loop.at = "push" /\ loop.batch = <<>>
    /\ IF loop.news \/ Due THEN loop' = [loop EXCEPT !.at = "flush"] /\ UNCHANGED timer
       ELSE /\ loop' = Waiting
            /\ timer' = IF ~dirty THEN 0 ELSE IF timer = 0 THEN LongAgo ELSE timer
    /\ UNCHANGED <<box, board, wake, chat, told, noted, pushed, botched>>

Fire ==
    /\ loop.at = "wait" /\ timer = 1
    /\ timer' = 0
    /\ loop' = [Waiting EXCEPT !.at = "flush"]
    /\ UNCHANGED <<box, board, wake, chat, told, noted, pushed, botched>>

\* Slip: a timer that was armed before a delivery is left to fire.
LeftArmed == UNCHANGED timer

\* The loop goes back to its select; a delivery that rewrote the message, or
\* tried to, drops the timer.
Rest == timer' = IF loop.then = "wake" THEN 0 ELSE timer

\* flushBoard: nothing to write, or the call goes out.
FlushBoard ==
    /\ loop.at = "flush"
    /\ IF ~dirty \/ line = lastBoard
         THEN /\ dirty' = FALSE /\ since' = IF dirty THEN 0 ELSE since
              /\ loop' = Waiting /\ Rest
         ELSE /\ loop' = [loop EXCEPT !.at = "call", !.text = line]
              /\ UNCHANGED <<dirty, since, timer>>
    /\ UNCHANGED <<line, pushes, board, wake, chat, told, noted, pushed, botched>>

\* The answer is good: what was written is remembered, and a line that has
\* changed since is still to be written.
Written(id) ==
    /\ lastBoard' = loop.text /\ lastEdit' = Just
    /\ boardID' = id
    /\ dirty' = (line # loop.text) /\ since' = IF line = loop.text THEN 0 ELSE since
    /\ loop' = Waiting /\ Rest

NewID == Len(chat) + 1

\* sendMessage the first time and when the message to edit is gone;
\* editMessage otherwise.
Call ==
    /\ loop.at = "call"
    /\ IF boardID # 0 /\ chat[boardID] # Gone
         THEN chat' = [chat EXCEPT ![boardID] = loop.text] /\ Written(boardID)
         ELSE chat' = Append(chat, loop.text) /\ Written(NewID)
    /\ UNCHANGED <<line, pushes, wake, told, noted, pushed, botched>>

\* The call fails, before or after it was heard.  Nothing tries again.
CallFails ==
    /\ loop.at = "call"
    /\ botched < MaxBotches /\ botched' = botched + 1
    /\ \/ UNCHANGED chat
       \/ chat' = IF boardID # 0 /\ chat[boardID] # Gone
                    THEN [chat EXCEPT ![boardID] = loop.text] ELSE Append(chat, loop.text)
    /\ loop' = Waiting /\ Rest
    /\ UNCHANGED <<box, board, wake, told, noted, pushed>>

\* Somebody deletes the standing message.
Delete ==
    /\ boardID # 0 /\ chat[boardID] # Gone
    /\ botched < MaxBotches /\ botched' = botched + 1
    /\ chat' = [chat EXCEPT ![boardID] = Gone]
    /\ UNCHANGED <<box, board, wake, timer, loop, told, noted, pushed>>

Tick ==
    /\ since' = Older(since) /\ lastEdit' = Older(lastEdit)
    /\ timer' = IF timer > 1 THEN timer - 1 ELSE timer
    /\ UNCHANGED <<line, pushes, dirty, lastBoard, boardID, wake, loop, chat, told, noted, pushed, botched>>

BoardWork == Deliver \/ SendPush \/ AfterPushes \/ Fire \/ FlushBoard \/ Call

BoardNext ==
    \/ \E j \in Jobs, change \in BOOLEAN : Note(j, change)
    \/ BoardWork \/ CallFails \/ Delete \/ Tick

BoardFairness == WF_boardVars(BoardWork) /\ WF_boardVars(Tick)

BoardSpec == BoardInit /\ [][BoardNext]_boardVars /\ BoardFairness

-----------------------------------------------------------------------------
\* A change of state is tried once, and they are tried in the order the jobs
\* made them, though jobs note while others are being sent.
NewsOnceInOrder == pushed = told \o loop.batch \o pushes

\* A phone that nothing has happened for is left alone: with no news, the
\* standing message is rewritten a full interval after the last time, even
\* with a timer armed before it.
EditsAreSpaced ==
    [][loop.at = "flush" /\ loop'.at = "call" /\ ~loop.news /\ lastEdit # 0
        => lastEdit = LongAgo]_boardVars

\* When no call fails, what each job said last comes to stand in the chat.
\* (After a failed call it waits for the next note: nothing else tries.)
BoardCatchesUp ==
    [](botched = 0) => <>[](noted = 0 \/ (boardID # 0 /\ chat[boardID] = line))
=============================================================================
