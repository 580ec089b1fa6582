------------------------------ MODULE Converse ------------------------------
(***************************************************************************)
(* The Converse API (core/services/converse.ts) for one user of one bot:   *)
(* a request sends an event and waits until the event engine reports that  *)
(* the event is done, or a timer fires.  What the bot replies meanwhile is *)
(* gathered in an entry of _responseMap.                                   *)
(*                                                                         *)
(* The entry and the three kinds of listeners are keyed by the user, not   *)
(* by the request: requests, the processing of their events (one at a time *)
(* in the order sent, MemoryQueue) and the sending of the replies (another *)
(* queue) meet there.  Listeners run where their event is emitted.         *)
(***************************************************************************)
EXTENDS Integers, FiniteSets, SequencesExt

CONSTANTS
  MaxRequests,      \* bound: calls of sendMessage
  MaxReplies,       \* bound: replies of the bot to each event
  MaxInstructions,  \* bound: instructions the dialog engine runs for each event
  MaxAttempts,      \* how often the queue serves a failing event
  Patient           \* whether the client waits for an answer or an error
                    \* before it sends the next message

ASSUME ConverseAssumption ==
  /\ {MaxRequests, MaxReplies, MaxInstructions} \subseteq Nat
  /\ MaxAttempts \in Nat \ {0}
  /\ Patient \in BOOLEAN

Requests == 1..MaxRequests
Reply == Requests \X (1..MaxReplies)

VARIABLES
  req,       \* the requests: their outcome, timer, actionRunning and answer
  event,     \* the events of the requests, in the engine
  onDone,    \* the requests that have a listener (once) for "done"
  onAction,  \* the requests that have listeners for "action.start" and ".end"
  delays,    \* listeners of "done" in their 250 ms: of request q, for event r
  maps,      \* the responses of all the entries made so far
  entry,     \* _responseMap[userKey]: an index of maps, 0 when it is undefined
  outgoing,  \* the outgoing queue
  deaf,      \* history: requests whose timer was set in the middle of an action
  dropped    \* history: replies deleted with the entry of a failed request

vars == <<req, event, onDone, onAction, delays, maps, entry, outgoing, deaf, dropped>>
engine == <<event, outgoing>>

Open(r) == req[r].at \in {"sent", "resolved", "rejected"}
Busy == {"chain", "dialog", "action", "done"}  \* what keeps the incoming queue

Init ==
  /\ req = [r \in Requests |-> [at |-> "none", timer |-> "unset", acting |-> FALSE,
                                map |-> 0, answer |-> {}]]
  /\ event = [r \in Requests |-> [at |-> "none", attempts |-> 0, replies |-> 0, actions |-> 0]]
  /\ onDone = {}
  /\ onAction = {}
  /\ delays = {}
  /\ maps = <<>>
  /\ entry = 0
  /\ outgoing = <<>>
  /\ deaf = {}
  /\ dropped = {}

-----------------------------------------------------------------------------
(* The request. *)

\* sendMessage up to its wait.  Outside production an event that does not
\* validate makes it throw, without the clean-up of finally.
SendMessage(r) ==
  /\ req[r].at = "none"
  /\ \A q \in Requests : q < r => req[q].at # "none"
  /\ Patient => \A q \in Requests : ~ Open(q)
  /\ onDone' = onDone \cup {r}
  /\ \/ /\ req' = [req EXCEPT ![r].at = "sent"]
        /\ event' = [event EXCEPT ![r].at = "queued", ![r].attempts = 0]
     \/ /\ req' = [req EXCEPT ![r].at = "failed"]
        /\ UNCHANGED event
  /\ UNCHANGED <<onAction, delays, maps, entry, outgoing, deaf, dropped>>

\* _createTimeoutPromise has read the configuration.
SetTimer(r) ==
  /\ req[r].at # "none"
  /\ req[r].timer = "unset"
  /\ req' = [req EXCEPT ![r].timer = "armed"]
  /\ onAction' = onAction \cup {r}
  /\ deaf' = deaf \cup IF \E q \in Requests : event[q].at = "action" THEN {r} ELSE {}
  /\ UNCHANGED <<engine, onDone, delays, maps, entry, dropped>>

\* Mutant of TimerFires: a running action does not hold the timeout back.
TimerFiresAnyway(r) ==
  /\ req[r].at = "sent"
  /\ req[r].timer = "armed"
  /\ req' = [req EXCEPT ![r].timer = "fired", ![r].at = "rejected"]
  /\ UNCHANGED <<engine, onDone, onAction, delays, maps, entry, deaf, dropped>>

\* The timer fires; the request is rejected unless an action is running.  (The
\* timer of a request that has settled is left out: it would change nothing.)
TimerFires(r) ==
  /\ req[r].at = "sent"
  /\ req[r].timer = "armed"
  /\ req' = [req EXCEPT ![r].timer = "fired",
                        ![r].at = IF req[r].acting THEN "sent" ELSE "rejected"]
  /\ UNCHANGED <<engine, onDone, onAction, delays, maps, entry, deaf, dropped>>

\* The 250 ms of a listener of "done" are over: the request gets the entry, or
\* an error when there is none.  It counts when the request still waits.
DelayOver(q, r) ==
  /\ <<q, r>> \in delays
  /\ delays' = delays \ {<<q, r>>}
  /\ req' = IF req[q].at # "sent" THEN req
            ELSE [req EXCEPT ![q].at = IF entry = 0 THEN "rejected" ELSE "resolved",
                             ![q].map = entry]
  /\ UNCHANGED <<engine, onDone, onAction, maps, entry, deaf, dropped>>

\* Mutant of Finally: the entry is kept.
FinallyKeepsEntry(r) ==
  /\ req[r].at \in {"resolved", "rejected"}
  /\ req' = [req EXCEPT ![r].at = IF @ = "resolved" THEN "answered" ELSE "failed",
                        ![r].answer = IF req[r].map = 0 THEN {} ELSE maps[req[r].map]]
  /\ onDone' = {}
  /\ onAction' = {}
  /\ UNCHANGED <<engine, delays, maps, entry, deaf, dropped>>

\* finally: all the listeners and the entry of the user are removed, and the
\* client gets the responses gathered so far.
Finally(r) ==
  /\ req[r].at \in {"resolved", "rejected"}
  /\ req' = [req EXCEPT ![r].at = IF @ = "resolved" THEN "answered" ELSE "failed",
                        ![r].answer = IF req[r].map = 0 THEN {} ELSE maps[req[r].map]]
  /\ onDone' = {}
  /\ onAction' = {}
  /\ entry' = 0
  /\ dropped' = dropped \cup IF req[r].at = "rejected" /\ entry # 0 THEN maps[entry] ELSE {}
  /\ UNCHANGED <<engine, delays, maps, deaf>>

-----------------------------------------------------------------------------
(* The event of request r in the event engine (botpress.ts, dialog-engine). *)

Moves(r, from, to) == event[r].at = from /\ event' = [event EXCEPT ![r].at = to]

StartEvent(r) ==
  /\ \A q \in Requests : event[q].at \notin Busy /\ (q < r => event[q].at # "queued")
  /\ event[r].at = "queued"
  /\ event' = [event EXCEPT ![r].at = "chain", ![r].attempts = @ + 1]
  /\ UNCHANGED <<req, onDone, onAction, delays, maps, entry, outgoing, deaf, dropped>>

\* The responses are added to the entry, which is made when there is none.
MakeEntry(replies) ==
  IF entry = 0
    THEN maps' = Append(maps, replies) /\ entry' = Len(maps) + 1
    ELSE maps' = [maps EXCEPT ![entry] = @ \cup replies] /\ UNCHANGED entry

\* The chain ends, with converse.capture.context called or not (it is the last
\* middleware: the event may be swallowed before), and the event goes on to the
\* dialog engine or not (a handler may have paused it, whether it was captured or not).
ChainEnds(r) ==
  /\ Moves(r, "chain", "dialog") \/ Moves(r, "chain", "over")
  /\ MakeEntry({}) \/ UNCHANGED <<maps, entry>>
  /\ UNCHANGED <<req, onDone, onAction, delays, outgoing, deaf, dropped>>

\* A middleware or a hook fails: the queue serves the event again, or gives up.
EventFails(r) ==
  /\ event[r].at \in {"chain", "dialog"}
  /\ event' = [event EXCEPT ![r].at = IF event[r].attempts < MaxAttempts THEN "queued" ELSE "over"]
  /\ UNCHANGED <<req, onDone, onAction, delays, maps, entry, outgoing, deaf, dropped>>

\* The bot replies: replyToEvent, by an instruction or for a suggestion.
Replies(r) ==
  /\ event[r].at \in {"dialog", "action"}
  /\ event[r].replies < MaxReplies
  /\ event' = [event EXCEPT ![r].replies = @ + 1]
  /\ outgoing' = Append(outgoing, <<r, event[r].replies + 1>>)
  /\ UNCHANGED <<req, onDone, onAction, delays, maps, entry, deaf, dropped>>

\* An instruction starts: action.start.
ActionStarts(r) ==
  /\ event[r].actions < MaxInstructions
  /\ event[r].at = "dialog"
  /\ event' = [event EXCEPT ![r].at = "action", ![r].actions = @ + 1]
  /\ req' = [q \in Requests |-> IF q \in onAction THEN [req[q] EXCEPT !.acting = TRUE] ELSE req[q]]
  /\ deaf' = {}
  /\ UNCHANGED <<onDone, onAction, delays, maps, entry, outgoing, dropped>>

\* Mutant of ActionEnds: the timer is not set again.
ActionEndsWithoutRefresh(r) ==
  /\ Moves(r, "action", "dialog")
  /\ req' = [q \in Requests |-> IF q \in onAction THEN [req[q] EXCEPT !.acting = FALSE] ELSE req[q]]
  /\ UNCHANGED <<onDone, onAction, delays, maps, entry, outgoing, deaf, dropped>>

\* The instruction ends, well or not: action.end sets the timer again, also
\* when it has fired.
ActionEnds(r) ==
  /\ Moves(r, "action", "dialog")
  /\ req' = [q \in Requests |-> IF q \in onAction
                                THEN [req[q] EXCEPT !.acting = FALSE, !.timer = "armed"] ELSE req[q]]
  /\ UNCHANGED <<onDone, onAction, delays, maps, entry, outgoing, deaf, dropped>>

\* done is emitted: the listeners, of whichever requests, are called once, and
\* the engine awaits them.
EmitDone(r) ==
  /\ Moves(r, "dialog", "done")
  /\ delays' = delays \cup {<<q, r>> : q \in onDone}
  /\ onDone' = {}
  /\ UNCHANGED <<req, onAction, maps, entry, outgoing, deaf, dropped>>

EndEvent(r) ==
  /\ \A x \in delays : x[2] # r
  /\ Moves(r, "done", "over")
  /\ UNCHANGED <<req, onDone, onAction, delays, maps, entry, outgoing, deaf, dropped>>

\* The outgoing queue serves a reply; converse.capture.payload is called or
\* not (it is the last middleware).
SendReply ==
  /\ outgoing # <<>>
  /\ outgoing' = Tail(outgoing)
  /\ MakeEntry({Head(outgoing)}) \/ UNCHANGED <<maps, entry>>
  /\ UNCHANGED <<req, event, onDone, onAction, delays, deaf, dropped>>

Settles(r) == SetTimer(r) \/ TimerFires(r) \/ ActionEnds(r) \/ Finally(r)

Next ==
  \/ \E r \in Requests :
       \/ SendMessage(r) \/ Settles(r)
       \/ StartEvent(r) \/ ChainEnds(r) \/ EventFails(r) \/ Replies(r)
       \/ ActionStarts(r) \/ EmitDone(r) \/ EndEvent(r)
  \/ \E x \in delays : DelayOver(x[1], x[2])
  \/ SendReply

Spec == Init /\ [][Next]_vars

(***************************************************************************)
(* Timers fire, the configuration is read, promises resume their awaiters  *)
(* and instructions end (actions have a timeout of their own); a request   *)
(* and its event take finitely many of these steps.  Nothing is asked of   *)
(* the middleware, the hooks and the queues.                               *)
(***************************************************************************)
FairSpec == Spec /\ WF_vars(\E r \in Requests : Settles(r))

-----------------------------------------------------------------------------
(* Properties *)

RequestState == [at : {"none", "sent", "resolved", "rejected", "answered", "failed"},
                 timer : {"unset", "armed", "fired"}, acting : BOOLEAN,
                 map : Nat, answer : SUBSET Reply]
EventState == [at : Busy \cup {"none", "queued", "over"}, attempts : 0..MaxAttempts,
               replies : 0..MaxReplies, actions : 0..MaxInstructions]

TypeOK ==
  /\ req \in [Requests -> RequestState]
  /\ \A r \in Requests : req[r].map <= Len(maps)
  /\ event \in [Requests -> EventState]
  /\ {onDone, onAction, deaf} \subseteq SUBSET Requests
  /\ delays \subseteq Requests \X Requests
  /\ maps \in Seq(SUBSET Reply)
  /\ entry \in 0..Len(maps)
  /\ outgoing \in Seq(Reply)
  /\ dropped \subseteq Reply

\* Each reply that was captured is given to a client that waits for its answers
\* once: it waits in the entry of the user, or is in the answer of one request,
\* or was deleted with a request that failed, and never two of these.
EachReplyOnce ==
  \A k \in DOMAIN maps : \A y \in maps[k] :
    LET answers == {r \in Requests : y \in req[r].answer}
    IN  Cardinality(answers) = IF k = entry \/ y \in dropped THEN 0 ELSE 1

(***************************************************************************)
(* What makes this inductive, for a client that waits: one request is open *)
(* and has the entry that is there; a reply is captured once, in one       *)
(* entry; an entry that is no longer there was given away as a whole.      *)
(***************************************************************************)
AttemptsLeft ==
  \A r \in Requests : event[r].at \in {"none", "queued"} => event[r].attempts < MaxAttempts

OneOpen == \A q, r \in Requests : Open(q) /\ Open(r) => q = r

ResolvedWithEntry ==
  \A r \in Requests :
    /\ req[r].at # "answered" => req[r].answer = {}
    /\ req[r].at \in {"none", "sent", "rejected"} => req[r].map = 0
    /\ req[r].at = "resolved" => req[r].map = entry /\ entry # 0

Sent(y) == y[2] <= event[y[1]].replies

CapturedOnce ==
  /\ \A k, m \in DOMAIN maps : k # m => maps[k] \cap maps[m] = {}
  /\ \A i, j \in DOMAIN outgoing : i # j => outgoing[i] # outgoing[j]
  /\ \A i \in DOMAIN outgoing : Sent(outgoing[i]) /\ \A k \in DOMAIN maps : outgoing[i] \notin maps[k]
  /\ \A k \in DOMAIN maps : \A y \in maps[k] : Sent(y)

Given(y) == y \in dropped \/ \E r \in Requests : y \in req[r].answer

GivenOnce ==
  /\ \A k \in DOMAIN maps : \A y \in maps[k] : Given(y) <=> k # entry
  /\ \A r \in Requests : \A y \in req[r].answer : \E k \in DOMAIN maps : y \in maps[k]
  /\ \A y \in dropped : \E k \in DOMAIN maps : y \in maps[k]
  /\ \A r \in Requests : req[r].answer \cap dropped = {}
  /\ \A q, r \in Requests : q # r => req[q].answer \cap req[r].answer = {}

\* What the requests of a user share (ConverseService, sendMessage and its
\* listeners): the inductive invariant, and each reply given once.
RepliesInv ==
  /\ TypeOK
  /\ AttemptsLeft
  /\ OneOpen
  /\ ResolvedWithEntry
  /\ CapturedOnce
  /\ GivenOnce
  /\ EachReplyOnce

(***************************************************************************)
(* Why no request is cut short, for a client that waits: one event is      *)
(* processed at a time, a request that waits with its timer set listens to *)
(* the instructions, and so knows of the one that runs unless it is deaf.  *)
(***************************************************************************)
Timed(r) == req[r].at = "sent" /\ req[r].timer # "unset"
Acts == \E q \in Requests : event[q].at = "action"

OneBusy == \A q, r \in Requests : event[q].at \in Busy /\ event[r].at \in Busy => q = r

ActionsHeard ==
  /\ OneBusy
  /\ \A r \in Requests : req[r].at = "none" => req[r].timer = "unset" /\ r \notin onAction
  /\ \A r \in Requests : Timed(r) => r \in onAction
  /\ \A r \in Requests \ deaf : Timed(r) /\ Acts => req[r].acting = TRUE

\* A request is not timed out in the middle of an action, except one that began
\* before the request had read its timeout.
ActionsNotCutShort ==
  [][\A r \in Requests :
       (req[r].timer # req'[r].timer /\ req'[r].at # req[r].at)
         => r \in deaf \/ ~ Acts]_vars

\* Every request is answered or fails in the end, although its event may hang
\* in the engine, or never be reported as done: the timeout is what ends it.
RequestsSettle ==
  \A r \in Requests : req[r].at = "sent" ~> req[r].at \in {"answered", "failed"}
=============================================================================
