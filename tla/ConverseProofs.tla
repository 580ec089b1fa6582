---------------------------- MODULE ConverseProofs ----------------------------
(* Replies are given once, and no request is timed out in the middle of an     *)
(* instruction, for any number of requests, replies, instructions and          *)
(* attempts, to a client that waits for each answer.                           *)
EXTENDS Converse, SequenceTheorems, FiniteSetTheorems, TLAPS

-----------------------------------------------------------------------------
(* Requests, events and entries. *)

\* What a step may set in a request and in an event.
LEMMA RequestSets ==
  ASSUME NEW q \in RequestState,
         NEW at \in {"none", "sent", "resolved", "rejected", "answered", "failed"},
         NEW timer \in {"unset", "armed", "fired"}, NEW acting \in BOOLEAN,
         NEW map \in Nat, NEW answer \in SUBSET Reply
  PROVE  /\ [q EXCEPT !.at = at] \in RequestState
         /\ [q EXCEPT !.timer = timer] \in RequestState
         /\ [q EXCEPT !.acting = acting] \in RequestState
         /\ [q EXCEPT !.timer = timer, !.at = at] \in RequestState
         /\ [q EXCEPT !.acting = acting, !.timer = timer] \in RequestState
         /\ [q EXCEPT !.at = at, !.map = map] \in RequestState
         /\ [q EXCEPT !.at = at, !.answer = answer] \in RequestState
BY DEF RequestState

LEMMA RequestFields ==
  ASSUME NEW q \in RequestState
  PROVE  /\ q.at \in {"none", "sent", "resolved", "rejected", "answered", "failed"}
         /\ q.timer \in {"unset", "armed", "fired"} /\ q.acting \in BOOLEAN
         /\ q.map \in Nat /\ q.answer \subseteq Reply
BY DEF RequestState

LEMMA EventSets ==
  ASSUME NEW v \in EventState, NEW at \in Busy \cup {"none", "queued", "over"},
         NEW attempts \in 0..MaxAttempts, NEW replies \in 0..MaxReplies,
         NEW actions \in 0..MaxInstructions
  PROVE  /\ [v EXCEPT !.at = at] \in EventState
         /\ [v EXCEPT !.replies = replies] \in EventState
         /\ [v EXCEPT !.at = at, !.attempts = attempts] \in EventState
         /\ [v EXCEPT !.at = at, !.actions = actions] \in EventState
BY DEF EventState

LEMMA EventFields ==
  ASSUME NEW v \in EventState
  PROVE  /\ v.at \in Busy \cup {"none", "queued", "over"} /\ v.attempts \in 0..MaxAttempts
         /\ v.replies \in 0..MaxReplies /\ v.actions \in 0..MaxInstructions
BY DEF EventState

\* Each reply is given once because entries and answers are disjoint.
LEMMA GivenMeansOnce == TypeOK /\ CapturedOnce /\ GivenOnce => EachReplyOnce
<1> SUFFICES ASSUME TypeOK, CapturedOnce, GivenOnce,
                    NEW k \in DOMAIN maps, NEW y \in maps[k]
             PROVE  Cardinality({r \in Requests : y \in req[r].answer}) =
                      IF k = entry \/ y \in dropped THEN 0 ELSE 1
  BY DEF EachReplyOnce
<1> DEFINE answers == {r \in Requests : y \in req[r].answer}
<1>1. Given(y) <=> k # entry
  BY DEF GivenOnce
<1>2. CASE k = entry \/ y \in dropped
  <2>1. answers = {}
    BY <1>1, <1>2 DEF Given, GivenOnce
  <2>. QED BY <1>2, <2>1, FS_EmptySet
<1>3. CASE ~ (k = entry \/ y \in dropped)
  <2>1. PICK r \in Requests : y \in req[r].answer
    BY <1>1, <1>3 DEF Given
  <2>2. answers = {r}
    BY <2>1 DEF GivenOnce
  <2>. QED BY <1>3, <2>2, FS_Singleton
<1>. QED BY <1>2, <1>3

\* What does not change which replies are where, nor who is open.
Kept ==
  /\ \A r \in Requests : /\ req'[r].at = req[r].at
                         /\ req'[r].map = req[r].map
                         /\ req'[r].answer = req[r].answer
                         /\ event'[r].replies = event[r].replies
  /\ UNCHANGED <<maps, entry, outgoing, dropped>>

LEMMA KeptKeeps ==
  ASSUME RepliesInv, TypeOK', AttemptsLeft', Kept
  PROVE  RepliesInv'
<1>1. OneOpen' /\ ResolvedWithEntry'
  BY DEF RepliesInv, Kept, OneOpen, Open, ResolvedWithEntry
<1>2. CapturedOnce'
  <2>1. ASSUME NEW y \in Reply, Sent(y) PROVE Sent(y)'
    BY <2>1 DEF Kept, Sent, Reply
  <2>2. \A i \in DOMAIN outgoing : outgoing[i] \in Reply
    BY ElementOfSeq, LenProperties DEF RepliesInv, TypeOK
  <2>3. \A k \in DOMAIN maps : maps[k] \subseteq Reply
    BY ElementOfSeq, LenProperties DEF RepliesInv, TypeOK
  <2>. QED BY <2>1, <2>2, <2>3 DEF RepliesInv, Kept, CapturedOnce
<1>3. GivenOnce'
  BY DEF RepliesInv, Kept, GivenOnce, Given
<1>4. RepliesInv'
  BY <1>1, <1>2, <1>3, GivenMeansOnce, PTL DEF RepliesInv
<1>. QED BY <1>4

-----------------------------------------------------------------------------
(* The steps that move no reply. *)

LEMMA Types ==
  ASSUME RepliesInv
  PROVE  /\ req \in [Requests -> RequestState] /\ event \in [Requests -> EventState]
         /\ \A r \in Requests : req[r] \in RequestState /\ event[r] \in EventState
         /\ maps \in Seq(SUBSET Reply) /\ Len(maps) \in Nat /\ DOMAIN maps = 1..Len(maps)
         /\ \A k \in DOMAIN maps : maps[k] \subseteq Reply
         /\ entry \in 0..Len(maps)
         /\ outgoing \in Seq(Reply) /\ Len(outgoing) \in Nat
         /\ DOMAIN outgoing = 1..Len(outgoing)
         /\ \A i \in DOMAIN outgoing : outgoing[i] \in Reply
         /\ MaxAttempts \in Nat \ {0} /\ MaxReplies \in Nat /\ MaxInstructions \in Nat
<1>1. TypeOK
  BY DEF RepliesInv
<1>2. maps \in Seq(SUBSET Reply) /\ outgoing \in Seq(Reply)
  BY <1>1 DEF TypeOK
<1>3. /\ Len(maps) \in Nat /\ DOMAIN maps = 1..Len(maps)
      /\ \A k \in DOMAIN maps : maps[k] \in SUBSET Reply
  BY <1>2, LenProperties, ElementOfSeq
<1>4. /\ Len(outgoing) \in Nat /\ DOMAIN outgoing = 1..Len(outgoing)
      /\ \A i \in DOMAIN outgoing : outgoing[i] \in Reply
  BY <1>2, LenProperties, ElementOfSeq
<1>. QED BY <1>1, <1>3, <1>4, ConverseAssumption DEF TypeOK, ConverseAssumption

\* A step of an event that changes its stage, and does not serve it again
\* unless it has attempts left.
LEMMA EventMoves ==
  ASSUME RepliesInv, NEW r \in Requests, NEW v \in EventState,
         event' = [event EXCEPT ![r] = v],
         v.replies = event[r].replies,
         v.at \in {"none", "queued"} => v.attempts < MaxAttempts
  PROVE  /\ event' \in [Requests -> EventState]
         /\ AttemptsLeft'
         /\ \A q \in Requests : event'[q].replies = event[q].replies
<1>1. event' \in [Requests -> EventState]
  BY Types
<1>2. \A q \in Requests : event'[q] = IF q = r THEN v ELSE event[q]
  BY Types
<1>. QED BY <1>1, <1>2 DEF RepliesInv, AttemptsLeft

\* Other variables of TypeOK when only events move.
LEMMA EventTypes ==
  ASSUME RepliesInv, event' \in [Requests -> EventState],
         onDone' \subseteq Requests, delays' \subseteq Requests \X Requests,
         UNCHANGED <<req, onAction, maps, entry, outgoing, deaf, dropped>>
  PROVE  TypeOK'
BY DEF RepliesInv, TypeOK

LEMMA StartEventInv ==
  ASSUME RepliesInv, NEW r \in Requests, StartEvent(r)
  PROVE  RepliesInv'
<1> DEFINE v == [event[r] EXCEPT !.at = "chain", !.attempts = event[r].attempts + 1]
<1>1. /\ event' = [event EXCEPT ![r] = v] /\ event[r].at = "queued"
      /\ UNCHANGED <<req, onDone, onAction, delays, maps, entry, outgoing, deaf, dropped>>
  BY DEF StartEvent
<1>2. event[r] \in EventState /\ event[r].attempts + 1 \in 0..MaxAttempts
  <2>1. event[r].attempts < MaxAttempts /\ event[r] \in EventState /\ MaxAttempts \in Nat
    BY <1>1, Types DEF RepliesInv, AttemptsLeft
  <2>. QED BY <2>1, EventFields
<1>3. v \in EventState /\ v.at = "chain" /\ v.replies = event[r].replies
  BY <1>2, EventSets DEF Busy, EventState
<1> HIDE DEF v
<1>4. /\ event' \in [Requests -> EventState] /\ AttemptsLeft'
      /\ \A q \in Requests : event'[q].replies = event[q].replies
  BY <1>1, <1>3, EventMoves
<1>5. TypeOK'
  BY <1>1, <1>4, EventTypes DEF RepliesInv, TypeOK
<1>. QED BY <1>1, <1>4, <1>5, KeptKeeps DEF Kept

\* The other steps of the event that leave entries and requests alone.
LEMMA EventOnly ==
  ASSUME RepliesInv, NEW r \in Requests,
         NEW at \in Busy \cup {"queued", "over"},
         event' = [event EXCEPT ![r].at = at],
         at = "queued" => event[r].attempts < MaxAttempts,
         onDone' \subseteq Requests, delays' \subseteq Requests \X Requests,
         UNCHANGED <<req, onAction, maps, entry, outgoing, deaf, dropped>>
  PROVE  RepliesInv'
<1> DEFINE v == [event[r] EXCEPT !.at = at]
<1>1. event' = [event EXCEPT ![r] = v]
  OBVIOUS
<1>2. event[r] \in EventState /\ event[r].attempts \in 0..MaxAttempts
      /\ event[r].replies \in 0..MaxReplies /\ event[r].actions \in 0..MaxInstructions
  BY Types, EventFields
<1>3. /\ v \in EventState /\ v.at = at /\ v.replies = event[r].replies
      /\ v.attempts = event[r].attempts
  BY <1>2, EventSets DEF EventState
<1> HIDE DEF v
<1>4. v.at \in {"none", "queued"} => v.attempts < MaxAttempts
  BY <1>3 DEF Busy
<1>5. /\ event' \in [Requests -> EventState] /\ AttemptsLeft'
      /\ \A q \in Requests : event'[q].replies = event[q].replies
  BY <1>1, <1>3, <1>4, EventMoves
<1>6. TypeOK'
  BY <1>5, EventTypes
<1>. QED BY <1>5, <1>6, KeptKeeps DEF Kept

LEMMA EventFailsInv ==
  ASSUME RepliesInv, NEW r \in Requests, EventFails(r)
  PROVE  RepliesInv'
<1> DEFINE at == IF event[r].attempts < MaxAttempts THEN "queued" ELSE "over"
<1>1. /\ event' = [event EXCEPT ![r].at = at]
      /\ UNCHANGED <<req, onDone, onAction, delays, maps, entry, outgoing, deaf, dropped>>
  BY DEF EventFails
<1>2. at \in Busy \cup {"queued", "over"} /\ (at = "queued" => event[r].attempts < MaxAttempts)
  OBVIOUS
<1>3. onDone \subseteq Requests /\ delays \subseteq Requests \X Requests
  BY DEF RepliesInv, TypeOK
<1> HIDE DEF at
<1>. QED BY <1>1, <1>2, <1>3, EventOnly

LEMMA EmitDoneInv ==
  ASSUME RepliesInv, NEW r \in Requests, EmitDone(r)
  PROVE  RepliesInv'
<1>1. /\ event' = [event EXCEPT ![r].at = "done"]
      /\ onDone' = {} /\ delays' = delays \cup {<<q, r>> : q \in onDone}
      /\ UNCHANGED <<req, onAction, maps, entry, outgoing, deaf, dropped>>
  BY DEF EmitDone, Moves
<1>2. delays' \subseteq Requests \X Requests
  BY <1>1 DEF RepliesInv, TypeOK
<1>. QED BY <1>1, <1>2, EventOnly DEF Busy

LEMMA EndEventInv ==
  ASSUME RepliesInv, NEW r \in Requests, EndEvent(r)
  PROVE  RepliesInv'
<1>1. /\ event' = [event EXCEPT ![r].at = "over"]
      /\ UNCHANGED <<req, onDone, onAction, delays, maps, entry, outgoing, deaf, dropped>>
  BY DEF EndEvent, Moves
<1>2. onDone \subseteq Requests /\ delays \subseteq Requests \X Requests
  BY DEF RepliesInv, TypeOK
<1>. QED BY <1>1, <1>2, EventOnly

\* A step that changes the timers and flags of requests, with at most the
\* stage of an event.
LEMMA RequestsKept ==
  ASSUME RepliesInv, req' \in [Requests -> RequestState],
         \A q \in Requests : /\ req'[q].at = req[q].at
                             /\ req'[q].map = req[q].map
                             /\ req'[q].answer = req[q].answer,
         event' \in [Requests -> EventState], AttemptsLeft',
         \A q \in Requests : event'[q].replies = event[q].replies,
         {onDone', onAction', deaf'} \subseteq SUBSET Requests,
         delays' \subseteq Requests \X Requests,
         UNCHANGED <<maps, entry, outgoing, dropped>>
  PROVE  RepliesInv'
<1>1. TypeOK'
  BY DEF RepliesInv, TypeOK
<1>. QED BY <1>1, KeptKeeps DEF Kept

LEMMA SetTimerInv ==
  ASSUME RepliesInv, NEW r \in Requests, SetTimer(r)
  PROVE  RepliesInv'
<1> DEFINE q == [req[r] EXCEPT !.timer = "armed"]
<1>1. /\ req' = [req EXCEPT ![r] = q] /\ onAction' = onAction \cup {r}
      /\ deaf' \subseteq deaf \cup {r}
      /\ UNCHANGED <<event, outgoing, onDone, delays, maps, entry, dropped>>
  BY DEF SetTimer, engine
<1>2. /\ q \in RequestState /\ q.at = req[r].at /\ q.map = req[r].map /\ q.answer = req[r].answer
  <2>1. req[r] \in RequestState
    BY Types
  <2>. QED BY <2>1 DEF RequestState
<1> HIDE DEF q
<1>3. /\ req' \in [Requests -> RequestState]
      /\ \A p \in Requests : /\ req'[p].at = req[p].at
                             /\ req'[p].map = req[p].map
                             /\ req'[p].answer = req[p].answer
  BY <1>1, <1>2, Types
<1>4. /\ {onDone', onAction', deaf'} \subseteq SUBSET Requests
      /\ delays' \subseteq Requests \X Requests
  <2>1. /\ onDone \subseteq Requests /\ onAction \subseteq Requests /\ deaf \subseteq Requests
        /\ delays \subseteq Requests \X Requests
    BY DEF RepliesInv, TypeOK
  <2>. QED BY <1>1, <2>1
<1>5. event' \in [Requests -> EventState] /\ AttemptsLeft'
  BY <1>1, Types DEF RepliesInv, AttemptsLeft
<1>. QED BY <1>1, <1>3, <1>4, <1>5, RequestsKept

\* The listeners of the instructions.
LEMMA ActionsInv ==
  ASSUME RepliesInv, NEW r \in Requests, ActionStarts(r) \/ ActionEnds(r)
  PROVE  RepliesInv'
<1>0. /\ event[r] \in EventState /\ event[r].attempts \in 0..MaxAttempts
      /\ event[r].replies \in 0..MaxReplies /\ event[r].actions \in 0..MaxInstructions
      /\ MaxInstructions \in Nat
  BY Types, EventFields
<1>1. PICK v \in EventState : /\ event' = [event EXCEPT ![r] = v]
                              /\ v.replies = event[r].replies /\ v.at \in {"action", "dialog"}
  <2>1. CASE ActionStarts(r)
    <3> DEFINE v == [event[r] EXCEPT !.at = "action", !.actions = event[r].actions + 1]
    <3>1. event' = [event EXCEPT ![r] = v] /\ event[r].actions < MaxInstructions
      BY <2>1 DEF ActionStarts
    <3>2. event[r].actions + 1 \in 0..MaxInstructions
      BY <1>0, <3>1
    <3>3. v \in EventState /\ v.replies = event[r].replies /\ v.at = "action"
      BY <1>0, <3>2, EventSets DEF Busy, EventState
    <3> HIDE DEF v
    <3>. QED BY <3>1, <3>3
  <2>2. CASE ActionEnds(r)
    <3> DEFINE v == [event[r] EXCEPT !.at = "dialog"]
    <3>1. event' = [event EXCEPT ![r] = v]
      BY <2>2 DEF ActionEnds, Moves
    <3>2. v \in EventState /\ v.replies = event[r].replies /\ v.at = "dialog"
      BY <1>0, EventSets DEF Busy, EventState
    <3> HIDE DEF v
    <3>. QED BY <3>1, <3>2
  <2>. QED BY <2>1, <2>2
<1>2. /\ event' \in [Requests -> EventState] /\ AttemptsLeft'
      /\ \A q \in Requests : event'[q].replies = event[q].replies
  BY <1>1, EventMoves
<1>3. /\ req' \in [Requests -> RequestState]
      /\ \A p \in Requests : /\ req'[p].at = req[p].at
                             /\ req'[p].map = req[p].map
                             /\ req'[p].answer = req[p].answer
  <2>1. ASSUME NEW p \in Requests
        PROVE  /\ [req[p] EXCEPT !.acting = TRUE] \in RequestState
               /\ [req[p] EXCEPT !.acting = TRUE].at = req[p].at
               /\ [req[p] EXCEPT !.acting = TRUE].map = req[p].map
               /\ [req[p] EXCEPT !.acting = TRUE].answer = req[p].answer
               /\ [req[p] EXCEPT !.acting = FALSE, !.timer = "armed"] \in RequestState
               /\ [req[p] EXCEPT !.acting = FALSE, !.timer = "armed"].at = req[p].at
               /\ [req[p] EXCEPT !.acting = FALSE, !.timer = "armed"].map = req[p].map
               /\ [req[p] EXCEPT !.acting = FALSE, !.timer = "armed"].answer = req[p].answer
               /\ req[p] \in RequestState
    BY Types DEF RequestState
  <2>2. CASE ActionStarts(r)
    BY <2>1, <2>2 DEF ActionStarts
  <2>3. CASE ActionEnds(r)
    BY <2>1, <2>3 DEF ActionEnds
  <2>. QED BY <2>2, <2>3
<1>4. /\ {onDone', onAction', deaf'} \subseteq SUBSET Requests
      /\ delays' \subseteq Requests \X Requests
      /\ UNCHANGED <<maps, entry, outgoing, dropped>>
  BY DEF RepliesInv, TypeOK, ActionStarts, ActionEnds
<1>. QED BY <1>2, <1>3, <1>4, RequestsKept

-----------------------------------------------------------------------------
(* The steps of the requests. *)

\* A step that settles a request without an answer: entries and replies stay.
LEMMA RequestMoves ==
  ASSUME RepliesInv, NEW r \in Requests, NEW q \in RequestState,
         req' = [req EXCEPT ![r] = q], q.answer = {}, q.map <= Len(maps), q.at # "answered",
         req[r].at # "answered",
         q.at \in {"none", "sent", "rejected"} => q.map = 0,
         q.at = "resolved" => q.map = entry /\ entry # 0,
         q.at \in {"sent", "resolved", "rejected"} => \A p \in Requests \ {r} : ~ Open(p),
         event' \in [Requests -> EventState], AttemptsLeft',
         \A p \in Requests : event'[p].replies = event[p].replies,
         {onDone', onAction', deaf'} \subseteq SUBSET Requests,
         delays' \subseteq Requests \X Requests,
         UNCHANGED <<maps, entry, outgoing, dropped>>
  PROVE  RepliesInv'
<1>1. /\ req' \in [Requests -> RequestState] /\ req'[r] = q
      /\ \A p \in Requests \ {r} : req'[p] = req[p]
  BY Types
<1>2. TypeOK'
  BY <1>1 DEF RepliesInv, TypeOK
<1>3. OneOpen'
  BY <1>1 DEF RepliesInv, OneOpen, Open
<1>4. ResolvedWithEntry'
  BY <1>1 DEF RepliesInv, ResolvedWithEntry
<1>5. CapturedOnce'
  <2>1. ASSUME NEW y \in Reply, Sent(y) PROVE Sent(y)'
    BY <2>1 DEF Sent, Reply
  <2>. QED BY <2>1, Types DEF RepliesInv, CapturedOnce
<1>6. \A p \in Requests : req'[p].answer = req[p].answer
  BY <1>1 DEF RepliesInv, ResolvedWithEntry
<1>7. GivenOnce'
  BY <1>6 DEF RepliesInv, GivenOnce, Given
<1>8. RepliesInv'
  BY <1>2, <1>3, <1>4, <1>5, <1>7, GivenMeansOnce, PTL DEF RepliesInv
<1>. QED BY <1>8

\* The only open request.
LEMMA OnlyOpen ==
  ASSUME RepliesInv, NEW r \in Requests, Open(r)
  PROVE  \A p \in Requests \ {r} : ~ Open(p)
BY DEF RepliesInv, OneOpen

\* What holds of a request before it is answered.
LEMMA Unanswered ==
  ASSUME RepliesInv, NEW r \in Requests, req[r].at # "answered"
  PROVE  /\ req[r] \in RequestState /\ req[r].answer = {} /\ req[r].map <= Len(maps)
         /\ req[r].map \in Nat
         /\ req[r].at \in {"none", "sent", "rejected"} => req[r].map = 0
         /\ req[r].at = "resolved" => req[r].map = entry /\ entry # 0
<1>1. req[r] \in RequestState
  BY Types
<1>. QED BY <1>1, RequestFields DEF RepliesInv, ResolvedWithEntry, TypeOK

LEMMA SendMessageInv ==
  ASSUME Patient, RepliesInv, NEW r \in Requests, SendMessage(r)
  PROVE  RepliesInv'
<1>0. /\ req[r].at = "none" /\ (\A p \in Requests : ~ Open(p))
      /\ onDone' = onDone \cup {r}
      /\ UNCHANGED <<onAction, delays, maps, entry, outgoing, deaf, dropped>>
  BY DEF SendMessage
<1>1. /\ req[r] \in RequestState /\ req[r].answer = {} /\ req[r].map = 0
      /\ req[r].map <= Len(maps)
  BY <1>0, Unanswered
<1>2. PICK at \in {"sent", "failed"} : req' = [req EXCEPT ![r].at = at]
  BY DEF SendMessage
<1> DEFINE q == [req[r] EXCEPT !.at = at]
<1>3. /\ req' = [req EXCEPT ![r] = q] /\ q \in RequestState
      /\ q.at = at /\ q.answer = {} /\ q.map = 0
  BY <1>1, <1>2 DEF RequestState
<1> HIDE DEF q
<1>4. /\ event' \in [Requests -> EventState] /\ AttemptsLeft'
      /\ \A p \in Requests : event'[p].replies = event[p].replies
  <2>1. CASE event' = event
    BY <2>1, Types DEF RepliesInv, AttemptsLeft
  <2>2. CASE event' # event
    <3> DEFINE v == [event[r] EXCEPT !.at = "queued", !.attempts = 0]
    <3>1. event' = [event EXCEPT ![r] = v] /\ req' = [req EXCEPT ![r].at = "sent"]
      BY <2>2 DEF SendMessage
    <3>2. event[r] \in EventState
      BY Types
    <3>3. v \in EventState /\ v.replies = event[r].replies /\ v.attempts < MaxAttempts
      <4>1. 0 \in 0..MaxAttempts /\ 0 < MaxAttempts
        BY Types
      <4>. QED BY <3>2, <4>1 DEF EventState
    <3> HIDE DEF v
    <3>. QED BY <3>1, <3>3, EventMoves
  <2>. QED BY <2>1, <2>2
<1>5. /\ {onDone', onAction', deaf'} \subseteq SUBSET Requests
      /\ delays' \subseteq Requests \X Requests
  BY <1>0 DEF RepliesInv, TypeOK
<1>. QED BY <1>0, <1>1, <1>3, <1>4, <1>5, RequestMoves

LEMMA TimerFiresInv ==
  ASSUME RepliesInv, NEW r \in Requests, TimerFires(r)
  PROVE  RepliesInv'
<1>0. /\ req[r].at = "sent" /\ Open(r)
      /\ UNCHANGED <<event, outgoing, onDone, onAction, delays, maps, entry, deaf, dropped>>
  BY DEF TimerFires, engine, Open
<1>1. /\ req[r] \in RequestState /\ req[r].answer = {} /\ req[r].map = 0
      /\ req[r].map <= Len(maps)
  BY <1>0, Unanswered
<1>2. PICK at \in {"sent", "rejected"} : req' = [req EXCEPT ![r].timer = "fired", ![r].at = at]
  BY DEF TimerFires
<1> DEFINE q == [req[r] EXCEPT !.timer = "fired", !.at = at]
<1>3. /\ req' = [req EXCEPT ![r] = q] /\ q \in RequestState
      /\ q.at = at /\ q.answer = {} /\ q.map = 0
  BY <1>1, <1>2 DEF RequestState
<1> HIDE DEF q
<1>4. /\ event' \in [Requests -> EventState] /\ AttemptsLeft'
      /\ {onDone', onAction', deaf'} \subseteq SUBSET Requests
      /\ delays' \subseteq Requests \X Requests
  BY <1>0, Types DEF RepliesInv, AttemptsLeft, TypeOK
<1>. QED BY <1>0, <1>1, <1>3, <1>4, OnlyOpen, RequestMoves

LEMMA DelayOverInv ==
  ASSUME RepliesInv, NEW x \in delays, DelayOver(x[1], x[2])
  PROVE  RepliesInv'
<1> DEFINE r == x[1]
<1>0. /\ delays \subseteq Requests \X Requests /\ delays' \subseteq delays
      /\ {onDone, onAction, deaf} \subseteq SUBSET Requests
      /\ UNCHANGED <<event, outgoing, onDone, onAction, maps, entry, deaf, dropped>>
  BY DEF RepliesInv, TypeOK, DelayOver, engine
<1>1. r \in Requests
  BY <1>0
<1>2. /\ req' = IF req[r].at # "sent" THEN req
                ELSE [req EXCEPT ![r].at = IF entry = 0 THEN "rejected" ELSE "resolved",
                                 ![r].map = entry]
  BY DEF DelayOver
<1> HIDE DEF r
<1>3. /\ event' \in [Requests -> EventState] /\ AttemptsLeft'
      /\ {onDone', onAction', deaf'} \subseteq SUBSET Requests
      /\ delays' \subseteq Requests \X Requests
  BY <1>0, Types DEF RepliesInv, AttemptsLeft
<1>4. CASE req[r].at # "sent"
  BY <1>0, <1>2, <1>3, <1>4, Types, RequestsKept
<1>5. CASE req[r].at = "sent"
  <2> DEFINE at == IF entry = 0 THEN "rejected" ELSE "resolved"
             q == [req[r] EXCEPT !.at = at, !.map = entry]
  <2>1. req' = [req EXCEPT ![r] = q]
    BY <1>2, <1>5
  <2>2. req[r] \in RequestState /\ req[r].answer = {} /\ entry \in Nat /\ entry <= Len(maps)
    BY <1>1, <1>5, Unanswered, Types
  <2>3. /\ q \in RequestState /\ q.answer = {} /\ q.map = entry
        /\ q.at = at
    BY <2>2 DEF RequestState
  <2>4. Open(r)
    BY <1>5 DEF Open
  <2>5. /\ q.at \in {"rejected", "resolved"}
        /\ q.at = "rejected" => q.map = 0
        /\ q.at = "resolved" => q.map = entry /\ entry # 0
    BY <2>3
  <2> HIDE DEF q, at
  <2>. QED BY <1>0, <1>1, <1>3, <1>5, <2>1, <2>2, <2>3, <2>4, <2>5, OnlyOpen, RequestMoves
<1>. QED BY <1>4, <1>5

\* The entry of the user is given away: to the request, or to nobody.
LEMMA FinallyInv ==
  ASSUME RepliesInv, NEW r \in Requests, Finally(r)
  PROVE  RepliesInv'
<1> DEFINE answer == IF req[r].map = 0 THEN {} ELSE maps[req[r].map]
           at == IF req[r].at = "resolved" THEN "answered" ELSE "failed"
           q == [req[r] EXCEPT !.at = at, !.answer = answer]
<1>1. /\ req[r].at \in {"resolved", "rejected"} /\ Open(r)
      /\ req' = [req EXCEPT ![r] = q]
      /\ onDone' = {} /\ onAction' = {} /\ entry' = 0
      /\ dropped' = dropped \cup IF req[r].at = "rejected" /\ entry # 0 THEN maps[entry] ELSE {}
      /\ UNCHANGED <<event, outgoing, delays, maps, deaf>>
  BY DEF Finally, engine, Open
<1>2. /\ req[r] \in RequestState /\ req[r].answer = {} /\ req[r].map <= Len(maps)
      /\ req[r].map \in Nat
      /\ req[r].at = "rejected" => req[r].map = 0
      /\ req[r].at = "resolved" => req[r].map = entry /\ entry # 0
  BY <1>1, Unanswered
<1>3. /\ entry \in 0..Len(maps) /\ Len(maps) \in Nat /\ DOMAIN maps = 1..Len(maps)
      /\ \A k \in DOMAIN maps : maps[k] \subseteq Reply
  BY Types
<1>4. answer \subseteq Reply
  BY <1>2, <1>3
<1>5. q \in RequestState /\ q.at = at /\ q.answer = answer /\ q.map = req[r].map
  BY <1>2, <1>4 DEF RequestState
<1>6. /\ at \in {"answered", "failed"}
      /\ at = "failed" => answer = {}
      /\ answer = {} \/ (entry \in DOMAIN maps /\ answer = maps[entry] /\ dropped' = dropped)
      /\ \/ entry = 0 /\ answer = {} /\ dropped' = dropped
         \/ entry \in DOMAIN maps /\ answer = maps[entry] /\ dropped' = dropped
         \/ entry \in DOMAIN maps /\ answer = {} /\ dropped' = dropped \cup maps[entry]
  BY <1>1, <1>2, <1>3
<1> HIDE DEF q, at, answer
<1>7. /\ req' \in [Requests -> RequestState] /\ req'[r] = q
      /\ \A p \in Requests \ {r} : req'[p] = req[p]
  BY <1>1, <1>5, Types
<1>8. TypeOK'
  <2>1. dropped' \subseteq Reply
    BY <1>3, <1>6 DEF RepliesInv, TypeOK
  <2>2. \A p \in Requests : req'[p].map <= Len(maps')
    BY <1>1, <1>2, <1>5, <1>7 DEF RepliesInv, TypeOK
  <2>. QED BY <1>1, <1>3, <1>7, <2>1, <2>2 DEF RepliesInv, TypeOK
<1>9. AttemptsLeft'
  BY <1>1 DEF RepliesInv, AttemptsLeft
<1>10. \A p \in Requests : ~ Open(p)'
  BY <1>1, <1>5, <1>6, <1>7, OnlyOpen DEF Open
<1>11. OneOpen'
  BY <1>10 DEF OneOpen
<1>12. ResolvedWithEntry'
  <2>1. ASSUME NEW p \in Requests
        PROVE  /\ req'[p].at # "answered" => req'[p].answer = {}
               /\ req'[p].at \in {"none", "sent", "rejected"} => req'[p].map = 0
               /\ req'[p].at # "resolved"
    <3>1. CASE p = r
      BY <1>5, <1>6, <1>7, <3>1
    <3>2. CASE p # r
      BY <1>7, <1>10, <3>2 DEF RepliesInv, ResolvedWithEntry, Open
    <3>. QED BY <3>1, <3>2
  <2>. QED BY <2>1 DEF ResolvedWithEntry
<1>13. CapturedOnce'
  BY <1>1 DEF RepliesInv, CapturedOnce, Sent
<1>14. \A p \in Requests : req'[p].answer = IF p = r THEN answer ELSE req[p].answer
  BY <1>5, <1>7
<1>15. GivenOnce'
  <2>1. ASSUME NEW y, entry \in DOMAIN maps, y \in maps[entry]
        PROVE  y \notin dropped /\ \A p \in Requests : y \notin req[p].answer
    BY <2>1 DEF RepliesInv, GivenOnce, Given
  <2>2. ASSUME NEW k \in DOMAIN maps, NEW y \in maps[k] PROVE Given(y)'
    <3>1. CASE k = entry
      <4>1. entry # 0
        BY <1>3, <3>1
      <4>2. CASE answer = maps[entry]
        BY <1>14, <3>1, <4>2 DEF Given
      <4>3. CASE dropped' = dropped \cup maps[entry]
        BY <3>1, <4>3 DEF Given
      <4>. QED BY <1>6, <4>1, <4>2, <4>3
    <3>2. CASE k # entry
      <4>1. Given(y)
        BY <3>2 DEF RepliesInv, GivenOnce
      <4>. QED BY <1>2, <1>6, <1>14, <4>1 DEF Given
    <3>. QED BY <3>1, <3>2
  <2>3. \A k \in DOMAIN maps' : \A y \in maps'[k] : Given(y)' <=> k # entry'
    BY <1>1, <1>3, <2>2
  <2>4. \A p \in Requests : \A y \in req'[p].answer : \E k \in DOMAIN maps : y \in maps[k]
    <3> SUFFICES ASSUME NEW p \in Requests, NEW y \in req'[p].answer
                 PROVE  \E k \in DOMAIN maps : y \in maps[k]
      OBVIOUS
    <3>1. CASE p = r
      BY <1>6, <1>14, <3>1
    <3>2. CASE p # r
      BY <1>14, <3>2 DEF RepliesInv, GivenOnce
    <3>. QED BY <3>1, <3>2
  <2>4a. \A y \in dropped' : \E k \in DOMAIN maps : y \in maps[k]
    BY <1>6 DEF RepliesInv, GivenOnce
  <2>5. \A p \in Requests : req'[p].answer \cap dropped' = {}
    BY <1>2, <1>6, <1>14, <2>1 DEF RepliesInv, GivenOnce
  <2>6. \A p, s \in Requests : p # s => req'[p].answer \cap req'[s].answer = {}
    BY <1>6, <1>14, <2>1 DEF RepliesInv, GivenOnce
  <2>. QED BY <1>1, <2>3, <2>4, <2>4a, <2>5, <2>6 DEF GivenOnce
<1>16. RepliesInv'
  BY <1>8, <1>9, <1>11, <1>12, <1>13, <1>15, GivenMeansOnce, PTL DEF RepliesInv
<1>. QED BY <1>16

-----------------------------------------------------------------------------
(* The steps that move replies. *)

\* converse.capture.*: the replies ys are in the entry of the user, made or there.
LEMMA EntryMade ==
  ASSUME RepliesInv, NEW ys \in SUBSET Reply, MakeEntry(ys)
  PROVE  /\ maps' \in Seq(SUBSET Reply) /\ Len(maps') \in Nat /\ Len(maps) <= Len(maps')
         /\ DOMAIN maps' = 1..Len(maps')
         /\ entry' \in DOMAIN maps'
         /\ entry # 0 => entry' = entry
         /\ entry = 0 => entry' \notin DOMAIN maps
         /\ \A k \in DOMAIN maps : k \in DOMAIN maps' /\ maps[k] \subseteq maps'[k]
         /\ \A k \in DOMAIN maps' : \A y \in maps'[k] :
              \/ k \in DOMAIN maps /\ y \in maps[k]
              \/ k = entry' /\ y \in ys
<1>0. /\ maps \in Seq(SUBSET Reply) /\ Len(maps) \in Nat /\ DOMAIN maps = 1..Len(maps)
      /\ \A k \in DOMAIN maps : maps[k] \subseteq Reply
      /\ entry \in 0..Len(maps)
  BY Types
<1>1. CASE entry = 0
  <2>1. maps' = Append(maps, ys) /\ entry' = Len(maps) + 1
    BY <1>1 DEF MakeEntry
  <2>2. /\ Append(maps, ys) \in Seq(SUBSET Reply)
        /\ Len(Append(maps, ys)) = Len(maps) + 1
        /\ \A k \in 1..Len(maps) : Append(maps, ys)[k] = maps[k]
        /\ Append(maps, ys)[Len(maps) + 1] = ys
    BY <1>0, AppendProperties
  <2>3. DOMAIN maps' = 1..(Len(maps) + 1)
    BY <2>1, <2>2, LenProperties
  <2>. QED BY <1>0, <1>1, <2>1, <2>2, <2>3
<1>2. CASE entry # 0
  <2>1. maps' = [maps EXCEPT ![entry] = @ \cup ys] /\ entry' = entry /\ entry \in DOMAIN maps
    BY <1>0, <1>2 DEF MakeEntry
  <2>2. maps[entry] \cup ys \in SUBSET Reply
    BY <1>0, <2>1
  <2>3. /\ maps' \in Seq(SUBSET Reply) /\ Len(maps') = Len(maps)
        /\ \A k \in 1..Len(maps) : maps'[k] = IF k = entry THEN maps[entry] \cup ys ELSE maps[k]
    BY <1>0, <2>1, <2>2, ExceptSeq
  <2>4. DOMAIN maps' = DOMAIN maps
    BY <2>1
  <2>. QED BY <1>0, <1>2, <2>1, <2>3, <2>4
<1>. QED BY <1>1, <1>2

\* They were in no entry before.
LEMMA CaptureInv ==
  ASSUME RepliesInv, NEW ys \in SUBSET Reply, MakeEntry(ys),
         \A y \in ys : Sent(y) /\ \A k \in DOMAIN maps : y \notin maps[k],
         event' \in [Requests -> EventState], AttemptsLeft',
         \A q \in Requests : event'[q].replies = event[q].replies,
         outgoing' \in Seq(Reply),
         \A i, j \in DOMAIN outgoing' : i # j => outgoing'[i] # outgoing'[j],
         \A i \in DOMAIN outgoing' :
           /\ outgoing'[i] \in Reply /\ outgoing'[i] \notin ys /\ Sent(outgoing'[i])
           /\ \A k \in DOMAIN maps : outgoing'[i] \notin maps[k],
         UNCHANGED <<req, onDone, onAction, delays, deaf, dropped>>
  PROVE  RepliesInv'
<1>0. /\ maps' \in Seq(SUBSET Reply) /\ Len(maps') \in Nat /\ Len(maps) <= Len(maps')
      /\ DOMAIN maps' = 1..Len(maps')
      /\ entry' \in DOMAIN maps'
      /\ entry # 0 => entry' = entry
      /\ entry = 0 => entry' \notin DOMAIN maps
      /\ \A k \in DOMAIN maps : k \in DOMAIN maps' /\ maps[k] \subseteq maps'[k]
      /\ \A k \in DOMAIN maps' : \A y \in maps'[k] :
           \/ k \in DOMAIN maps /\ y \in maps[k]
           \/ k = entry' /\ y \in ys
  BY EntryMade
<1>1. ASSUME NEW y \in Reply, Sent(y) PROVE Sent(y)'
  BY <1>1 DEF Sent, Reply
<1>2. TypeOK'
  <2>1. \A r \in Requests : req[r].map \in Nat /\ req[r].map <= Len(maps) /\ Len(maps) \in Nat
    BY Types, RequestFields DEF RepliesInv, TypeOK
  <2>2. \A r \in Requests : req'[r].map <= Len(maps')
    BY <1>0, <2>1
  <2>. QED BY <1>0, <2>2 DEF RepliesInv, TypeOK
<1>3. OneOpen'
  BY DEF RepliesInv, OneOpen, Open
<1>4. ResolvedWithEntry'
  BY <1>0 DEF RepliesInv, ResolvedWithEntry
<1>5. CapturedOnce'
  <2>1. \A k, m \in DOMAIN maps' : k # m => maps'[k] \cap maps'[m] = {}
    <3> SUFFICES ASSUME NEW k \in DOMAIN maps', NEW m \in DOMAIN maps', k # m,
                        NEW y, y \in maps'[k], y \in maps'[m]
                 PROVE  FALSE
      OBVIOUS
    <3>1. /\ (k \in DOMAIN maps /\ y \in maps[k]) \/ (k = entry' /\ y \in ys)
          /\ (m \in DOMAIN maps /\ y \in maps[m]) \/ (m = entry' /\ y \in ys)
      BY <1>0
    <3>. QED BY <3>1 DEF RepliesInv, CapturedOnce
  <2>2. \A i \in DOMAIN outgoing' :
          Sent(outgoing[i])' /\ \A k \in DOMAIN maps' : outgoing'[i] \notin maps'[k]
    BY <1>0, <1>1
  <2>3. \A k \in DOMAIN maps' : \A y \in maps'[k] : Sent(y)'
    <3> SUFFICES ASSUME NEW k \in DOMAIN maps', NEW y \in maps'[k] PROVE Sent(y)'
      OBVIOUS
    <3>1. y \in Reply /\ Sent(y)
      BY <1>0, Types DEF RepliesInv, CapturedOnce
    <3>. QED BY <1>1, <3>1
  <2>. QED BY <2>1, <2>2, <2>3 DEF CapturedOnce
<1>6. GivenOnce'
  <2>1. ASSUME NEW y \in ys PROVE ~ Given(y)
    BY <2>1 DEF RepliesInv, GivenOnce, Given
  <2>2. ASSUME NEW k \in DOMAIN maps', NEW y \in maps'[k] PROVE Given(y)' <=> k # entry'
    <3>1. Given(y)' <=> Given(y)
      BY DEF Given
    <3>2. CASE k \in DOMAIN maps /\ y \in maps[k]
      <4>1. Given(y) <=> k # entry
        BY <3>2 DEF RepliesInv, GivenOnce
      <4>2. k # 0
        BY <3>2, Types
      <4>. QED BY <1>0, <3>1, <3>2, <4>1, <4>2
    <3>3. CASE k = entry' /\ y \in ys
      BY <2>1, <3>1, <3>3
    <3>. QED BY <1>0, <3>2, <3>3
  <2>3. /\ \A r \in Requests : \A y \in req'[r].answer : \E k \in DOMAIN maps' : y \in maps'[k]
        /\ \A y \in dropped' : \E k \in DOMAIN maps' : y \in maps'[k]
    BY <1>0 DEF RepliesInv, GivenOnce
  <2>. QED BY <2>2, <2>3 DEF RepliesInv, GivenOnce
<1>7. RepliesInv'
  BY <1>2, <1>3, <1>4, <1>5, <1>6, GivenMeansOnce, PTL DEF RepliesInv
<1>. QED BY <1>7

LEMMA ChainEndsInv ==
  ASSUME RepliesInv, NEW r \in Requests, ChainEnds(r)
  PROVE  RepliesInv'
<1>0. /\ UNCHANGED <<req, onDone, onAction, delays, outgoing, deaf, dropped>>
      /\ onDone \subseteq Requests /\ delays \subseteq Requests \X Requests
  BY DEF ChainEnds, RepliesInv, TypeOK
<1>1. ASSUME NEW at \in {"dialog", "over"}, Moves(r, "chain", at), MakeEntry({})
      PROVE  RepliesInv'
  <2> DEFINE v == [event[r] EXCEPT !.at = at]
  <2>1. event' = [event EXCEPT ![r] = v]
    BY <1>1 DEF Moves
  <2>2. event[r] \in EventState
    BY Types
  <2>3. v \in EventState /\ v.at = at /\ v.replies = event[r].replies
    BY <2>2 DEF EventState, Busy
  <2> HIDE DEF v
  <2>4. /\ event' \in [Requests -> EventState] /\ AttemptsLeft'
        /\ \A q \in Requests : event'[q].replies = event[q].replies
    BY <2>1, <2>3, EventMoves
  <2>5. outgoing' = outgoing /\ outgoing \in Seq(Reply) /\ \A i \in DOMAIN outgoing : outgoing[i] \in Reply
    BY <1>0, Types
  <2>6. /\ \A i, j \in DOMAIN outgoing : i # j => outgoing[i] # outgoing[j]
        /\ \A i \in DOMAIN outgoing :
             Sent(outgoing[i]) /\ \A k \in DOMAIN maps : outgoing[i] \notin maps[k]
    BY DEF RepliesInv, CapturedOnce
  <2>. QED BY <1>0, <1>1, <2>4, <2>5, <2>6, CaptureInv
<1>2. CASE Moves(r, "chain", "dialog") /\ UNCHANGED <<maps, entry>>
  <2>1. event' = [event EXCEPT ![r].at = "dialog"]
    BY <1>2 DEF Moves
  <2>. QED BY <1>0, <1>2, <2>1, EventOnly DEF Busy
<1>3. CASE Moves(r, "chain", "over") /\ UNCHANGED <<maps, entry>>
  <2>1. event' = [event EXCEPT ![r].at = "over"]
    BY <1>3 DEF Moves
  <2>. QED BY <1>0, <1>3, <2>1, EventOnly
<1>. QED BY <1>1, <1>2, <1>3 DEF ChainEnds

\* A reply is numbered after those the event has had: it is none of them.
LEMMA RepliesStep ==
  ASSUME RepliesInv, NEW r \in Requests, Replies(r)
  PROVE  RepliesInv'
<1>0. /\ event[r] \in EventState /\ event[r].replies \in 0..MaxReplies
      /\ outgoing \in Seq(Reply) /\ Len(outgoing) \in Nat
      /\ DOMAIN outgoing = 1..Len(outgoing)
      /\ \A i \in DOMAIN outgoing : outgoing[i] \in Reply
      /\ \A k \in DOMAIN maps : maps[k] \subseteq Reply
      /\ event \in [Requests -> EventState] /\ MaxReplies \in Nat
  BY Types, EventFields
<1>n. PICK n \in Nat : n = event[r].replies + 1
  BY <1>0
<1> DEFINE y0 == <<r, n>>
           v == [event[r] EXCEPT !.replies = n]
<1>1. /\ event' = [event EXCEPT ![r] = v] /\ event[r].replies < MaxReplies
      /\ event[r].at \in {"dialog", "action"}
      /\ outgoing' = Append(outgoing, y0)
      /\ UNCHANGED <<req, onDone, onAction, delays, maps, entry, deaf, dropped>>
  BY <1>n DEF Replies
<1>2. n \in 1..MaxReplies /\ y0 \in Reply
  BY <1>0, <1>1, <1>n DEF Reply
<1>3. v \in EventState /\ v.replies = n /\ v.at = event[r].at
  <2>1. event[r] \in EventState /\ n \in 0..MaxReplies
    BY <1>0, <1>2
  <2>. QED BY <2>1 DEF EventState
<1>4. ~ Sent(y0)
  BY <1>0, <1>n DEF Sent
<1>5. y0[1] = r /\ y0[2] = n
  OBVIOUS
<1> HIDE DEF v
<1>6. event' \in [Requests -> EventState] /\ \A q \in Requests : event'[q] = IF q = r THEN v ELSE event[q]
  BY <1>0, <1>1, <1>3
<1>7. ASSUME NEW y \in Reply, Sent(y) PROVE Sent(y)'
  <2>1. y[1] \in Requests /\ y[2] \in Nat
    BY DEF Reply
  <2>2. ASSUME NEW q \in Requests
        PROVE  /\ event[q].replies \in Nat /\ event'[q].replies \in Nat
               /\ event[q].replies <= event'[q].replies
    <3>1. event[q].replies \in Nat /\ event[r].replies \in Nat
      BY Types, EventFields
    <3>2. event'[q].replies = IF q = r THEN n ELSE event[q].replies
      BY <1>3, <1>6
    <3>. QED BY <1>n, <3>1, <3>2
  <2>. QED BY <1>7, <2>1, <2>2 DEF Sent
<1> HIDE DEF y0
<1>8. Sent(y0)'
  <2>1. event'[r].replies = n
    BY <1>3, <1>6
  <2>2. n <= n
    BY <1>n
  <2>. QED BY <1>5, <2>1, <2>2 DEF Sent
<1>9. /\ outgoing' \in Seq(Reply) /\ DOMAIN outgoing' = 1..(Len(outgoing) + 1)
      /\ \A i \in DOMAIN outgoing : outgoing'[i] = outgoing[i]
      /\ outgoing'[Len(outgoing) + 1] = y0
  <2>1. /\ Append(outgoing, y0) \in Seq(Reply)
        /\ Len(Append(outgoing, y0)) = Len(outgoing) + 1
        /\ \A i \in 1..Len(outgoing) : Append(outgoing, y0)[i] = outgoing[i]
        /\ Append(outgoing, y0)[Len(outgoing) + 1] = y0
    BY <1>0, <1>2, AppendProperties
  <2>2. DOMAIN Append(outgoing, y0) = 1..Len(Append(outgoing, y0))
    BY <2>1, LenProperties
  <2>. QED BY <1>0, <1>1, <2>1, <2>2
<1>10. /\ \A i \in DOMAIN outgoing : outgoing[i] # y0
       /\ \A k \in DOMAIN maps : y0 \notin maps[k]
  BY <1>4 DEF RepliesInv, CapturedOnce
<1>11. ASSUME NEW i \in DOMAIN outgoing'
       PROVE  i \in DOMAIN outgoing \/ (i = Len(outgoing) + 1 /\ outgoing'[i] = y0)
  BY <1>0, <1>9
<1>12. TypeOK'
  BY <1>1, <1>6, <1>9 DEF RepliesInv, TypeOK
<1>13. AttemptsLeft'
  BY <1>1, <1>3, <1>6 DEF RepliesInv, AttemptsLeft
<1>14. OneOpen' /\ ResolvedWithEntry'
  BY <1>1 DEF RepliesInv, OneOpen, Open, ResolvedWithEntry
<1>15. CapturedOnce'
  <2>1. \A i, j \in DOMAIN outgoing' : i # j => outgoing'[i] # outgoing'[j]
    BY <1>9, <1>10, <1>11 DEF RepliesInv, CapturedOnce
  <2>2. ASSUME NEW i \in DOMAIN outgoing'
        PROVE  Sent(outgoing[i])' /\ \A k \in DOMAIN maps : outgoing'[i] \notin maps[k]
    <3>1. CASE i \in DOMAIN outgoing
      <4>1. outgoing'[i] = outgoing[i] /\ Sent(outgoing[i]) /\ outgoing[i] \in Reply
            /\ \A k \in DOMAIN maps : outgoing[i] \notin maps[k]
        BY <1>0, <1>9, <3>1 DEF RepliesInv, CapturedOnce
      <4>. QED BY <1>7, <4>1
    <3>2. CASE outgoing'[i] = y0
      BY <1>8, <1>10, <3>2 DEF Sent
    <3>. QED BY <1>11, <3>1, <3>2
  <2>3. ASSUME NEW k \in DOMAIN maps, NEW y \in maps[k] PROVE Sent(y)'
    BY <1>0, <1>7 DEF RepliesInv, CapturedOnce
  <2>4. \A k, m \in DOMAIN maps : k # m => maps[k] \cap maps[m] = {}
    BY DEF RepliesInv, CapturedOnce
  <2>. QED BY <1>1, <2>1, <2>2, <2>3, <2>4 DEF CapturedOnce
<1>16. GivenOnce'
  BY <1>1 DEF RepliesInv, GivenOnce, Given
<1>17. RepliesInv'
  BY <1>12, <1>13, <1>14, <1>15, <1>16, GivenMeansOnce, PTL DEF RepliesInv
<1>. QED BY <1>17

\* The first reply leaves the outgoing queue.
LEMMA SendReplyInv ==
  ASSUME RepliesInv, SendReply
  PROVE  RepliesInv'
<1> DEFINE y0 == Head(outgoing)
<1>1. /\ outgoing # <<>> /\ outgoing' = Tail(outgoing)
      /\ MakeEntry({y0}) \/ UNCHANGED <<maps, entry>>
      /\ UNCHANGED <<req, event, onDone, onAction, delays, deaf, dropped>>
  BY DEF SendReply
<1>2. /\ outgoing \in Seq(Reply) /\ Len(outgoing) \in Nat
      /\ DOMAIN outgoing = 1..Len(outgoing)
      /\ \A i \in DOMAIN outgoing : outgoing[i] \in Reply
      /\ event \in [Requests -> EventState]
  BY Types
<1>3. /\ Tail(outgoing) \in Seq(Reply) /\ Len(Tail(outgoing)) = Len(outgoing) - 1
      /\ \A i \in 1..(Len(outgoing) - 1) : Tail(outgoing)[i] = outgoing[i + 1]
      /\ y0 = outgoing[1] /\ Len(outgoing) > 0
  BY <1>1, <1>2, EmptySeq, HeadTailProperties
<1>4. DOMAIN outgoing' = 1..(Len(outgoing) - 1)
  BY <1>1, <1>3, LenProperties
<1>5. /\ 1 \in DOMAIN outgoing
      /\ \A i \in DOMAIN outgoing' : /\ i + 1 \in DOMAIN outgoing /\ i + 1 # 1
                                     /\ outgoing'[i] = outgoing[i + 1]
      /\ \A i, j \in DOMAIN outgoing' : i # j => i + 1 # j + 1
  BY <1>1, <1>2, <1>3, <1>4
<1> HIDE DEF y0
<1>6. /\ \A i, j \in DOMAIN outgoing : i # j => outgoing[i] # outgoing[j]
      /\ \A i \in DOMAIN outgoing :
           Sent(outgoing[i]) /\ \A k \in DOMAIN maps : outgoing[i] \notin maps[k]
  BY DEF RepliesInv, CapturedOnce
<1>7. /\ \A i, j \in DOMAIN outgoing' : i # j => outgoing'[i] # outgoing'[j]
      /\ \A i \in DOMAIN outgoing' :
           /\ outgoing'[i] \in Reply /\ outgoing'[i] # y0 /\ Sent(outgoing'[i])
           /\ \A k \in DOMAIN maps : outgoing'[i] \notin maps[k]
  BY <1>2, <1>3, <1>5, <1>6
<1>8. y0 \in Reply /\ Sent(y0) /\ \A k \in DOMAIN maps : y0 \notin maps[k]
  BY <1>2, <1>3, <1>5, <1>6
<1>9. event' \in [Requests -> EventState] /\ AttemptsLeft'
  BY <1>1, <1>2 DEF RepliesInv, AttemptsLeft
<1>10. outgoing' \in Seq(Reply)
  BY <1>1, <1>3
<1>11. CASE MakeEntry({y0})
  BY <1>1, <1>7, <1>8, <1>9, <1>10, <1>11, CaptureInv
<1>12. CASE UNCHANGED <<maps, entry>>
  <2>1. TypeOK'
    BY <1>1, <1>10, <1>12 DEF RepliesInv, TypeOK
  <2>2. OneOpen' /\ ResolvedWithEntry' /\ GivenOnce'
    BY <1>1, <1>12 DEF RepliesInv, OneOpen, Open, ResolvedWithEntry, GivenOnce, Given
  <2>3. CapturedOnce'
    <3>1. \A i \in DOMAIN outgoing' : Sent(outgoing[i])' /\ \A k \in DOMAIN maps : outgoing'[i] \notin maps[k]
      BY <1>1, <1>7 DEF Sent
    <3>2. \A k \in DOMAIN maps : \A y \in maps[k] : Sent(y)'
      BY <1>1 DEF RepliesInv, CapturedOnce, Sent
    <3>3. \A k, m \in DOMAIN maps : k # m => maps[k] \cap maps[m] = {}
      BY DEF RepliesInv, CapturedOnce
    <3>. QED BY <1>7, <1>12, <3>1, <3>2, <3>3 DEF CapturedOnce
  <2>4. RepliesInv'
    BY <1>9, <2>1, <2>2, <2>3, GivenMeansOnce, PTL DEF RepliesInv
  <2>. QED BY <2>4
<1>. QED BY <1>1, <1>11, <1>12

-----------------------------------------------------------------------------
(* The invariant. *)

LEMMA RepliesStart == Init => RepliesInv
<1> SUFFICES ASSUME Init PROVE RepliesInv
  OBVIOUS
<1>1. [at |-> "none", timer |-> "unset", acting |-> FALSE, map |-> 0, answer |-> {}] \in RequestState
  BY DEF RequestState
<1>2. [at |-> "none", attempts |-> 0, replies |-> 0, actions |-> 0] \in EventState
  BY ConverseAssumption DEF EventState, ConverseAssumption
<1>3. /\ maps \in Seq(SUBSET Reply) /\ outgoing \in Seq(Reply) /\ Len(maps) = 0
      /\ DOMAIN maps = {} /\ DOMAIN outgoing = {} /\ entry = 0
  BY DEF Init
<1>4. TypeOK
  BY <1>1, <1>2, <1>3 DEF Init, TypeOK
<1>5. AttemptsLeft /\ OneOpen /\ ResolvedWithEntry
  BY ConverseAssumption DEF Init, AttemptsLeft, OneOpen, Open, ResolvedWithEntry, ConverseAssumption
<1>6. CapturedOnce
  BY <1>3 DEF CapturedOnce
<1>7. GivenOnce
  BY <1>3 DEF Init, GivenOnce
<1>. QED BY <1>4, <1>5, <1>6, <1>7, GivenMeansOnce DEF RepliesInv

LEMMA RepliesNext ==
  ASSUME Patient
  PROVE  RepliesInv /\ [Next]_vars => RepliesInv'
<1> SUFFICES ASSUME RepliesInv, [Next]_vars PROVE RepliesInv'
  OBVIOUS
<1>1. ASSUME NEW r \in Requests, Settles(r) PROVE RepliesInv'
  BY <1>1, SetTimerInv, TimerFiresInv, ActionsInv, FinallyInv DEF Settles
<1>2. ASSUME NEW r \in Requests,
             \/ SendMessage(r) \/ StartEvent(r) \/ ChainEnds(r) \/ EventFails(r)
             \/ Replies(r) \/ ActionStarts(r) \/ EmitDone(r) \/ EndEvent(r)
      PROVE  RepliesInv'
  BY <1>2, SendMessageInv, StartEventInv, ChainEndsInv, EventFailsInv, RepliesStep,
     ActionsInv, EmitDoneInv, EndEventInv
<1>3. ASSUME NEW x \in delays, DelayOver(x[1], x[2]) PROVE RepliesInv'
  <2>1. x[1] \in Requests /\ x[2] \in Requests
    BY <1>3 DEF RepliesInv, TypeOK
  <2>. QED BY <1>3, <2>1, DelayOverInv
<1>4. CASE UNCHANGED vars
  <2>1. TypeOK' /\ AttemptsLeft' /\ Kept
    BY <1>4 DEF vars, RepliesInv, TypeOK, AttemptsLeft, Kept
  <2>. QED BY <2>1, KeptKeeps
<1>. QED BY <1>1, <1>2, <1>3, <1>4, SendReplyInv DEF Next

\* Each reply of the bot that the Converse API captured is given to its client
\* once (ConverseService: sendMessage, its listeners and its clean-up), whatever
\* the numbers of requests, replies and instructions, when the client waits for
\* an answer or an error before it sends its next message.
THEOREM RepliesGivenOnce ==
  ASSUME Patient
  PROVE  Spec => []RepliesInv
BY RepliesStart, RepliesNext, PTL DEF Spec

-----------------------------------------------------------------------------
(* No request is timed out in the middle of an instruction.  The invariant is *)
(* ActionsHeard; that one request is open (OneOpen, above) is why the clean-up *)
(* of a request takes the listeners of no other that waits.                    *)

\* A step that moves one event, to an instruction only from the event's own
\* processing, and leaves the requests alone.
LEMMA OneEventMoves ==
  ASSUME RepliesInv, ActionsHeard, NEW r \in Requests,
         \A q \in Requests \ {r} : event'[q].at = event[q].at,
         event'[r].at \in Busy => \/ event[r].at \in Busy
                                  \/ \A q \in Requests : event[q].at \notin Busy
  PROVE  OneBusy'
BY DEF ActionsHeard, OneBusy

\* When no instruction starts and the requests keep what they hear.
LEMMA HearingKept ==
  ASSUME ActionsHeard, OneBusy', Acts' => Acts, UNCHANGED <<req, onAction, deaf>>
  PROVE  ActionsHeard'
<1>1. \A r \in Requests : Timed(r)' <=> Timed(r)
  BY DEF Timed
<1>. QED BY <1>1 DEF ActionsHeard

\* A step that changes one request, which waits on, settles or has its timer
\* set, while no event moves.
LEMMA HearerMoves ==
  ASSUME RepliesInv, ActionsHeard, NEW r \in Requests,
         \A q \in Requests \ {r} : req'[q] = req[q],
         req'[r].at # "none", req'[r].at = "sent" => req[r].at = "sent",
         req'[r].timer = "unset" <=> req[r].timer = "unset", req'[r].acting = req[r].acting,
         \A q \in Requests : event'[q].at = event[q].at,
         UNCHANGED <<onAction, deaf>>
  PROVE  ActionsHeard'
<1>1. OneBusy'
  BY DEF ActionsHeard, OneBusy
<1>2. Acts' <=> Acts
  BY DEF Acts
<1>3. \A q \in Requests : Timed(q)' => Timed(q)
  BY DEF Timed
<1>4. \A q \in Requests : req'[q].acting = req[q].acting
  OBVIOUS
<1>5. \A q \in Requests : req'[q].at = "none" => req'[q].timer = "unset" /\ q \notin onAction
  BY DEF ActionsHeard
<1>. QED BY <1>1, <1>2, <1>3, <1>4, <1>5 DEF ActionsHeard

LEMMA SendMessageHeard ==
  ASSUME RepliesInv, ActionsHeard, NEW r \in Requests, SendMessage(r)
  PROVE  ActionsHeard'
<1>1. req[r].at = "none" /\ req[r].timer = "unset" /\ UNCHANGED <<onAction, deaf>>
  BY DEF SendMessage, ActionsHeard
<1>2. /\ \A q \in Requests \ {r} : req'[q] = req[q]
      /\ req'[r].at # "none" /\ req'[r].timer = "unset"
  BY <1>1, Types DEF SendMessage, RequestState
<1>3. /\ \A q \in Requests \ {r} : event'[q].at = event[q].at
      /\ event'[r].at \in {event[r].at, "queued"}
  BY Types DEF SendMessage, EventState
<1>4. OneBusy'
  BY <1>3, OneEventMoves DEF Busy
<1>5. Acts' => Acts
  BY <1>3 DEF Acts
<1>6. \A q \in Requests : Timed(q)' => Timed(q) /\ req'[q] = req[q]
  BY <1>2 DEF Timed
<1>7. \A q \in Requests : req'[q].at = "none" => req'[q].timer = "unset" /\ q \notin onAction
  BY <1>2 DEF ActionsHeard
<1>. QED BY <1>1, <1>4, <1>5, <1>6, <1>7 DEF ActionsHeard

LEMMA SetTimerHeard ==
  ASSUME RepliesInv, ActionsHeard, NEW r \in Requests, SetTimer(r)
  PROVE  ActionsHeard'
<1>1. /\ req[r].at # "none" /\ event' = event /\ onAction' = onAction \cup {r}
      /\ deaf' = deaf \cup IF Acts THEN {r} ELSE {}
  BY DEF SetTimer, engine, Acts
<1>2. \A q \in Requests : req'[q].at = req[q].at /\ (q # r => req'[q] = req[q])
  BY Types DEF SetTimer, RequestState
<1>3. OneBusy' /\ (Acts' <=> Acts)
  BY <1>1 DEF ActionsHeard, OneBusy, Acts
<1>4. \A q \in Requests : Timed(q)' => q = r \/ (Timed(q) /\ req'[q] = req[q])
  BY <1>2 DEF Timed
<1>5. \A q \in Requests : req'[q].at = "none" => req'[q].timer = "unset" /\ q \notin onAction'
  BY <1>1, <1>2 DEF ActionsHeard
<1>. QED BY <1>1, <1>3, <1>4, <1>5 DEF ActionsHeard

LEMMA TimerFiresHeard ==
  ASSUME RepliesInv, ActionsHeard, NEW r \in Requests, TimerFires(r)
  PROVE  ActionsHeard'
<1>1. /\ req[r].at = "sent" /\ req[r].timer = "armed" /\ UNCHANGED <<event, onAction, deaf>>
  BY DEF TimerFires, engine
<1>2. /\ \A q \in Requests \ {r} : req'[q] = req[q]
      /\ req'[r].at \in {"sent", "rejected"} /\ req'[r].timer = "fired"
      /\ req'[r].acting = req[r].acting
  BY Types DEF TimerFires, RequestState
<1>. QED BY <1>1, <1>2, HearerMoves

LEMMA DelayOverHeard ==
  ASSUME RepliesInv, ActionsHeard, NEW x \in delays, DelayOver(x[1], x[2])
  PROVE  ActionsHeard'
<1> DEFINE r == x[1]
<1>1. r \in Requests /\ UNCHANGED <<event, onAction, deaf>>
  BY DEF DelayOver, RepliesInv, TypeOK, engine
<1>2. req' = IF req[r].at # "sent" THEN req
             ELSE [req EXCEPT ![r].at = IF entry = 0 THEN "rejected" ELSE "resolved",
                              ![r].map = entry]
  BY DEF DelayOver
<1> HIDE DEF r
<1>3. CASE req[r].at = "sent"
  <2>1. /\ \A q \in Requests \ {r} : req'[q] = req[q]
        /\ req'[r].at \in {"rejected", "resolved"} /\ req'[r].timer = req[r].timer
        /\ req'[r].acting = req[r].acting
    BY <1>1, <1>2, <1>3, Types DEF RequestState
  <2>. QED BY <1>1, <2>1, HearerMoves
<1>4. CASE req[r].at # "sent"
  <2>1. UNCHANGED <<req, event, onAction, deaf>>
    BY <1>1, <1>2, <1>4
  <2>2. OneBusy' /\ (Acts' => Acts)
    BY <2>1 DEF ActionsHeard, OneBusy, Acts
  <2>. QED BY <2>1, <2>2, HearingKept
<1>. QED BY <1>3, <1>4

\* The clean-up takes all the listeners: no other request waits.
LEMMA FinallyHeard ==
  ASSUME RepliesInv, ActionsHeard, NEW r \in Requests, Finally(r)
  PROVE  ActionsHeard'
<1>1. Open(r) /\ onAction' = {} /\ UNCHANGED <<event, deaf>>
  BY DEF Finally, Open, engine
<1>2. /\ \A q \in Requests \ {r} : req'[q] = req[q]
      /\ req'[r].at \in {"answered", "failed"}
  BY Types DEF Finally, RequestState
<1>3. \A q \in Requests : ~ Timed(q)'
  BY <1>1, <1>2, OnlyOpen DEF Timed, Open
<1>4. OneBusy'
  BY <1>1 DEF ActionsHeard, OneBusy
<1>5. \A q \in Requests : req'[q].at = "none" => req'[q].timer = "unset" /\ q \notin onAction'
  BY <1>1, <1>2 DEF ActionsHeard
<1>. QED BY <1>3, <1>4, <1>5 DEF ActionsHeard

\* The instruction that starts is heard by all that listen.
LEMMA ActionStartsHeard ==
  ASSUME RepliesInv, ActionsHeard, NEW r \in Requests, ActionStarts(r)
  PROVE  ActionsHeard'
<1>1. event[r].at = "dialog" /\ onAction' = onAction /\ deaf' = {}
  BY DEF ActionStarts
<1>2. ASSUME NEW q \in Requests
      PROVE  /\ req'[q].at = req[q].at /\ req'[q].timer = req[q].timer
             /\ q \in onAction => req'[q].acting = TRUE
  BY Types DEF ActionStarts, RequestState
<1>3. \A q \in Requests \ {r} : event'[q].at = event[q].at
  BY Types DEF ActionStarts, EventState
<1>4. OneBusy'
  BY <1>1, <1>3, OneEventMoves DEF Busy
<1>5. \A q \in Requests : Timed(q)' <=> Timed(q)
  BY <1>2 DEF Timed
<1>. QED BY <1>1, <1>2, <1>4, <1>5 DEF ActionsHeard

\* It was the only one: when it ends, none runs.
LEMMA ActionEndsHeard ==
  ASSUME RepliesInv, ActionsHeard, NEW r \in Requests, ActionEnds(r)
  PROVE  ActionsHeard'
<1>1. event[r].at = "action" /\ UNCHANGED <<onAction, deaf>>
  BY DEF ActionEnds, Moves
<1>2. /\ \A q \in Requests \ {r} : event'[q].at = event[q].at
      /\ event'[r].at = "dialog"
  BY Types DEF ActionEnds, Moves, EventState
<1>3. ASSUME NEW q \in Requests
      PROVE  req'[q].at = req[q].at /\ (q \notin onAction => req'[q] = req[q])
  BY Types DEF ActionEnds, RequestState
<1>4. OneBusy'
  BY <1>1, <1>2, OneEventMoves DEF Busy
<1>5. ~ Acts'
  BY <1>1, <1>2 DEF Acts, ActionsHeard, OneBusy, Busy
<1>6. \A q \in Requests : Timed(q)' => q \in onAction
  BY <1>3 DEF Timed, ActionsHeard
<1>7. \A q \in Requests : req'[q].at = "none" => req'[q].timer = "unset" /\ q \notin onAction
  BY <1>3 DEF ActionsHeard
<1>. QED BY <1>1, <1>4, <1>5, <1>6, <1>7 DEF ActionsHeard

\* The other steps of an event.
LEMMA EventHeard ==
  ASSUME RepliesInv, ActionsHeard, NEW r \in Requests,
         \/ StartEvent(r) \/ ChainEnds(r) \/ EventFails(r)
         \/ Replies(r) \/ EmitDone(r) \/ EndEvent(r)
  PROVE  ActionsHeard'
<1>1. UNCHANGED <<req, onAction, deaf>>
  BY DEF StartEvent, ChainEnds, EventFails, Replies, EmitDone, EndEvent
<1>2. /\ \A q \in Requests \ {r} : event'[q].at = event[q].at
      /\ event'[r].at = "action" => event[r].at = "action"
      /\ event'[r].at \in Busy => \/ event[r].at \in Busy
                                  \/ \A q \in Requests : event[q].at \notin Busy
  <2>1. event \in [Requests -> EventState]
    BY Types
  <2>2. CASE StartEvent(r)
    BY <2>1, <2>2 DEF StartEvent, EventState
  <2>3. CASE ChainEnds(r)
    BY <2>1, <2>3 DEF ChainEnds, Moves, Busy, EventState
  <2>4. CASE EventFails(r)
    BY <2>1, <2>4 DEF EventFails, Busy, EventState
  <2>5. CASE Replies(r)
    BY <2>1, <2>5 DEF Replies, EventState
  <2>6. CASE EmitDone(r)
    BY <2>1, <2>6 DEF EmitDone, Moves, Busy, EventState
  <2>7. CASE EndEvent(r)
    BY <2>1, <2>7 DEF EndEvent, Moves, Busy, EventState
  <2>. QED BY <2>2, <2>3, <2>4, <2>5, <2>6, <2>7
<1>3. OneBusy'
  BY <1>2, OneEventMoves
<1>4. Acts' => Acts
  BY <1>2 DEF Acts
<1>. QED BY <1>1, <1>3, <1>4, HearingKept

LEMMA HeardStart == Init => ActionsHeard
BY DEF Init, ActionsHeard, OneBusy, Timed, Busy

LEMMA HeardNext == RepliesInv /\ ActionsHeard /\ [Next]_vars => ActionsHeard'
<1> SUFFICES ASSUME RepliesInv, ActionsHeard, [Next]_vars PROVE ActionsHeard'
  OBVIOUS
<1>1. ASSUME NEW r \in Requests, Settles(r) PROVE ActionsHeard'
  BY <1>1, SetTimerHeard, TimerFiresHeard, ActionEndsHeard, FinallyHeard DEF Settles
<1>2. ASSUME NEW r \in Requests,
             \/ SendMessage(r) \/ StartEvent(r) \/ ChainEnds(r) \/ EventFails(r)
             \/ Replies(r) \/ ActionStarts(r) \/ EmitDone(r) \/ EndEvent(r)
      PROVE  ActionsHeard'
  BY <1>2, SendMessageHeard, ActionStartsHeard, EventHeard
<1>3. ASSUME NEW x \in delays, DelayOver(x[1], x[2]) PROVE ActionsHeard'
  BY <1>3, DelayOverHeard
<1>4. CASE SendReply \/ UNCHANGED vars
  <2>1. UNCHANGED <<req, event, onAction, deaf>>
    BY <1>4 DEF SendReply, vars
  <2>2. OneBusy' /\ (Acts' => Acts)
    BY <2>1 DEF ActionsHeard, OneBusy, Acts
  <2>. QED BY <2>1, <2>2, HearingKept
<1>. QED BY <1>1, <1>2, <1>3, <1>4 DEF Next

\* A step that changes the timer of a request and settles it is its timer's.
LEMMA TimedOut ==
  ASSUME RepliesInv, ActionsHeard, [Next]_vars, NEW r \in Requests,
         req[r].timer # req'[r].timer, req'[r].at # req[r].at
  PROVE  r \in deaf \/ ~ Acts
<1>0. req \in [Requests -> RequestState]
  BY Types
<1>1. ASSUME NEW q \in Requests, SetTimer(q) \/ ActionEnds(q) PROVE FALSE
  <2>1. req[r] \in RequestState
    BY <1>0
  <2>2. CASE SetTimer(q)
    BY <1>0, <2>1, <2>2 DEF SetTimer, RequestState
  <2>3. CASE ActionEnds(q)
    <3>1. req'[r] = IF r \in onAction THEN [req[r] EXCEPT !.acting = FALSE, !.timer = "armed"]
                                      ELSE req[r]
      BY <2>3 DEF ActionEnds
    <3>. QED BY <2>1, <3>1 DEF RequestState
  <2>. QED BY <1>1, <2>2, <2>3
<1>2. ASSUME NEW q \in Requests, Finally(q) \/ SendMessage(q) PROVE FALSE
  BY <1>0, <1>2 DEF Finally, SendMessage, RequestState
<1>3. ASSUME NEW q \in Requests, TimerFires(q) PROVE r \in deaf \/ ~ Acts
  <2>1. q = r /\ req[r].at = "sent" /\ req[r].timer = "armed" /\ req[r].acting # TRUE
    BY <1>0, <1>3 DEF TimerFires, RequestState
  <2>. QED BY <2>1 DEF ActionsHeard, Timed
<1>4. ASSUME NEW q \in Requests, ActionStarts(q) PROVE FALSE
  BY <1>0, <1>4 DEF ActionStarts, RequestState
<1>5. ASSUME NEW x \in delays, DelayOver(x[1], x[2]) PROVE FALSE
  <2>1. x[1] \in Requests
    BY DEF RepliesInv, TypeOK
  <2>. QED BY <1>0, <1>5, <2>1 DEF DelayOver, RequestState
<1>6. ASSUME NEW q \in Requests,
             \/ StartEvent(q) \/ ChainEnds(q) \/ EventFails(q)
             \/ Replies(q) \/ EmitDone(q) \/ EndEvent(q)
      PROVE  FALSE
  BY <1>6 DEF StartEvent, ChainEnds, EventFails, Replies, EmitDone, EndEvent
<1>7. CASE SendReply \/ UNCHANGED vars
  BY <1>7 DEF SendReply, vars
<1>. QED BY <1>1, <1>2, <1>3, <1>4, <1>5, <1>6, <1>7 DEF Next, Settles

\* The timeout of a request (ConverseService, _createTimeoutPromise) does not end
\* it while an instruction runs, unless that instruction began before the
\* request had read its timeout: for any numbers of requests, replies and
\* instructions, when the client waits before it sends its next message.
THEOREM NotCutShort ==
  ASSUME Patient
  PROVE  Spec => ActionsNotCutShort
<1>1. Spec => [](RepliesInv /\ ActionsHeard)
  BY RepliesStart, RepliesNext, HeardStart, HeardNext, PTL DEF Spec
<1>2. RepliesInv /\ ActionsHeard /\ [Next]_vars =>
        [\A r \in Requests :
           (req[r].timer # req'[r].timer /\ req'[r].at # req[r].at)
             => r \in deaf \/ ~ Acts]_vars
  BY TimedOut
<1>. QED BY <1>1, <1>2, PTL DEF Spec, ActionsNotCutShort

=============================================================================
