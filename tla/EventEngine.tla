---------------------------- MODULE EventEngine ----------------------------
(***************************************************************************)
(* The event engine (core/services/middleware/event-engine.ts) and the     *)
(* middleware chain it runs (middleware.ts), for one direction: an event   *)
(* sent is queued, and when its turn comes goes through the "before" hook, *)
(* the registered middleware in order, and, for incoming events, the       *)
(* "after" hook (hooks and decision engine).                               *)
(*                                                                         *)
(* The queue is ConversationFIFO, which MemoryQueue implements.  Handlers  *)
(* are activities of their own: each answers once, never, or after the     *)
(* engine has given up waiting for it, and may go on touching its event.   *)
(***************************************************************************)
EXTENDS Integers, Sequences, FiniteSets, SequencesExt

CONSTANTS
  Events,       \* the events sent, each once
  Convs,        \* the conversations
  ConvOf,       \* the conversation of each event
  MaxAttempts,  \* how many times the queue serves a failing event
  Middlewares,  \* the middleware that may be registered
  Order,        \* the "order" field of each middleware definition
  Loaded,       \* the middleware registered before the first event
  Pausers,      \* the middleware that may set event.isPause (hitl, hitlnext)
  Directions,   \* the queues the run is about: "incoming", "outgoing"
  MaxSent,      \* bound: calls of sendEvent, for each queue
  MaxChanges    \* bound: calls of register and removeMiddleware, for each queue

ASSUME EngineAssumption ==
  /\ ConvOf \in [Events -> Convs]
  /\ MaxAttempts \in Nat \ {0}
  /\ Order \in [Middlewares -> Int]
  /\ Loaded \in Seq(Middlewares)
  /\ \A k, m \in DOMAIN Loaded : k < m => /\ Loaded[k] # Loaded[m]
                                         /\ Order[Loaded[k]] <= Order[Loaded[m]]
  /\ Pausers \subseteq Middlewares
  /\ Directions \subseteq {"incoming", "outgoing"}
  /\ {MaxSent, MaxChanges} \subseteq [Directions -> Nat]

VARIABLES
  status, arrival, attempts,  \* the queue: see ConversationFIFO
  direction,   \* which of the two queues this is
  registered,  \* incomingMiddleware or outgoingMiddleware: sorted definitions
  changes,     \* bound: calls of register and removeMiddleware so far
  phase,       \* what the engine does with each event
  chain,       \* the stack of the MiddlewareChain built for each event
  pos,         \* the handler of the stack that run() awaits
  answer,      \* what the awaited handler answered before its timer, or "none"
  timedOut,    \* the flag timedOut of the awaited handler
  running,     \* handlers called that have not answered yet
  late,        \* those of them whose timer has fired
  paused,      \* event.isPause
  seen,        \* history: the handlers called in the attempt under way
  steady,      \* history: middleware registered all along that attempt
  muted,       \* history: isPause was set before the end of a chain
  swallowed    \* history: a handler swallowed the event before its timer

queueVars == <<status, arrival, attempts>>
chainVars == <<chain, pos, answer, timedOut, seen, running, late>>
setup == <<direction, registered, changes>>
vars == <<queueVars, setup, phase, chainVars, paused, steady,
          muted, swallowed>>

Q == INSTANCE ConversationFIFO WITH Jobs <- Events

Answers == {"next", "swallow", "error"}
Invocation == [event : Events, attempt : 1..MaxAttempts, mw : Middlewares]

Sent == Cardinality({e \in Events : status[e] # "new"})

Awaited(e) == [event |-> e, attempt |-> attempts[e], mw |-> chain[e][pos[e]]]

Init ==
  /\ Q!Init
  /\ direction \in Directions
  /\ registered = Loaded
  /\ changes = 0
  /\ phase = [e \in Events |-> "idle"]
  /\ chain = [e \in Events |-> <<>>]
  /\ pos = [e \in Events |-> 0]
  /\ answer = [e \in Events |-> "none"]
  /\ timedOut = [e \in Events |-> FALSE]
  /\ running = {}
  /\ late = {}
  /\ paused = [e \in Events |-> FALSE]
  /\ seen = [e \in Events |-> <<>>]
  /\ steady = [e \in Events |-> {}]
  /\ muted = [e \in Events |-> FALSE]
  /\ swallowed = [e \in Events |-> FALSE]

-----------------------------------------------------------------------------
(* Registration: modules register when they load, and remove when they     *)
(* unload, while events are being processed.                               *)

\* push and sortBy: a stable sort puts m after those of the same order.
Register(m) ==
  /\ changes < MaxChanges[direction]
  /\ m \notin ToSet(registered)
  /\ \E i \in 1..(Len(registered) + 1) :
       /\ \A k \in DOMAIN registered : k < i <=> Order[registered[k]] <= Order[m]
       /\ registered' = InsertAt(registered, i, m)
  /\ changes' = changes + 1
  /\ UNCHANGED <<queueVars, direction, phase, chainVars, paused, steady, muted, swallowed>>

\* removeMiddleware: the list is replaced, the chains built from it are not.
RemoveMiddleware(m) ==
  /\ changes < MaxChanges[direction]
  /\ \E k \in DOMAIN registered :
       /\ registered[k] = m
       /\ registered' = RemoveAt(registered, k)
  /\ changes' = changes + 1
  /\ steady' = [e \in Events |-> steady[e] \ {m}]
  /\ UNCHANGED <<queueVars, direction, phase, chainVars, paused, muted, swallowed>>

-----------------------------------------------------------------------------
(* The subscriber of the queue. *)

\* sendEvent: the event joins the queue of its conversation.
SendEvent(e) ==
  /\ Sent < MaxSent[direction]
  /\ arrival' = [arrival EXCEPT ![e] = Sent + 1]
  /\ Q!Submit(e)
  /\ UNCHANGED <<setup, phase, chainVars, paused, steady, muted, swallowed>>

\* The queue hands the event to the subscriber, which awaits the before hook.
Start(e) ==
  /\ Q!Serve(e)
  /\ phase' = [phase EXCEPT ![e] = "before"]
  /\ UNCHANGED <<setup, chainVars, paused, steady, muted, swallowed>>

\* The promise of the subscriber rejects: the queue retries or gives up.
Fail(e) ==
  /\ Q!Retry(e) \/ Q!Abandon(e)
  /\ phase' = [phase EXCEPT ![e] = "idle"]

\* run() has left its loop.  An outgoing event is stored and is done; an
\* incoming one is stored and done when it is paused, and else goes on to the
\* after hook.
\* Mutant of EndChain: event.isPause is not looked at.
EndChainUnpaused(e) ==
  IF direction = "incoming"
    THEN phase' = [phase EXCEPT ![e] = "after"] /\ UNCHANGED queueVars
    ELSE phase' = [phase EXCEPT ![e] = "idle"] /\ Q!Finish(e)
EndChain(e) ==
  IF direction = "incoming" /\ ~ paused[e]
    THEN phase' = [phase EXCEPT ![e] = "after"] /\ UNCHANGED queueVars
    ELSE phase' = [phase EXCEPT ![e] = "idle"] /\ Q!Finish(e)

\* run() calls the k-th handler of the stack and starts a timer; there is no
\* more handler, and the chain ends.
Call(e, stack, k) ==
  /\ chain' = [chain EXCEPT ![e] = stack]
  /\ pos' = [pos EXCEPT ![e] = k]
  /\ answer' = [answer EXCEPT ![e] = "none"]
  /\ timedOut' = [timedOut EXCEPT ![e] = FALSE]
  /\ IF k <= Len(stack)
       THEN /\ seen' = [seen EXCEPT ![e] = (IF k = 1 THEN <<>> ELSE @) \o <<stack[k]>>]
            /\ running' = running \cup
                 {[event |-> e, attempt |-> attempts[e], mw |-> stack[k]]}
            /\ phase' = [phase EXCEPT ![e] = "chain"]
            /\ UNCHANGED queueVars
       ELSE /\ seen' = [seen EXCEPT ![e] = IF k = 1 THEN <<>> ELSE @]
            /\ EndChain(e)
            /\ UNCHANGED running
  /\ UNCHANGED late

\* The before hook is done: the chain is built from the list as it is now.
BeforeDone(e) ==
  /\ phase[e] = "before"
  /\ steady' = [steady EXCEPT ![e] = ToSet(registered)]
  /\ Call(e, registered, 1)
  /\ UNCHANGED <<setup, paused, muted, swallowed>>

BeforeFails(e) ==
  /\ phase[e] = "before"
  /\ Fail(e)
  /\ UNCHANGED <<setup, chainVars, paused, steady, muted, swallowed>>

-----------------------------------------------------------------------------
(* The handlers and the timer. *)

\* A handler calls next(), or throws.  It counts when run() still awaits it.
Answer(i, a) ==
  /\ i \in running
  /\ running' = running \ {i}
  /\ late' = late \ {i}
  /\ answer' = IF /\ phase[i.event] = "chain"
                  /\ i = Awaited(i.event)
                  /\ ~ timedOut[i.event]
               THEN [answer EXCEPT ![i.event] = a]
               ELSE answer
  /\ UNCHANGED <<queueVars, setup, phase, chain, pos, timedOut,
                 paused, seen, steady, muted, swallowed>>

\* A handler, awaited or not, sets event.isPause.
SetPause(i) ==
  /\ i \in running
  /\ i.mw \in Pausers
  /\ paused' = [paused EXCEPT ![i.event] = TRUE]
  /\ muted' = [muted EXCEPT ![i.event] = @ \/ phase[i.event] = "chain"]
  /\ UNCHANGED <<queueVars, setup, phase, chainVars, steady, swallowed>>

\* The timer of the awaited handler fires.  The answer may already be there:
\* promises settle asynchronously.
TimerFires(e) ==
  /\ phase[e] = "chain"
  /\ ~ timedOut[e]
  /\ timedOut' = [timedOut EXCEPT ![e] = TRUE]
  /\ late' = late \cup ({Awaited(e)} \cap running)
  /\ UNCHANGED <<queueVars, setup, phase, chain, pos, answer,
                 running, paused, seen, steady, muted, swallowed>>

-----------------------------------------------------------------------------
(* run() goes on when the race between handler and timer is decided. *)

\* Mutant of NextHandler: the list is read again where the stack was copied.
NextHandlerLive(e) ==
  /\ phase[e] = "chain"
  /\ answer[e] # "error"
  /\ timedOut[e] \/ answer[e] = "next"
  /\ Call(e, registered, pos[e] + 1)
  /\ UNCHANGED <<setup, paused, steady, muted, swallowed>>

\* Mutant of NextHandler: the timer does not end the wait.
NextHandlerUntimed(e) ==
  /\ phase[e] = "chain"
  /\ answer[e] = "next"
  /\ Call(e, chain[e], pos[e] + 1)
  /\ UNCHANGED <<setup, paused, steady, muted, swallowed>>

\* Mutant of NextHandler: the handler is not awaited.
NextHandlerUnawaited(e) ==
  /\ phase[e] = "chain"
  /\ answer[e] # "error"
  /\ Call(e, chain[e], pos[e] + 1)
  /\ UNCHANGED <<setup, paused, steady, muted, swallowed>>

\* The timer fired (whatever the handler answered but an error), or the
\* handler asked for the next one.
NextHandler(e) ==
  /\ phase[e] = "chain"
  /\ answer[e] # "error"
  /\ timedOut[e] \/ answer[e] = "next"
  /\ Call(e, chain[e], pos[e] + 1)
  /\ UNCHANGED <<setup, paused, steady, muted, swallowed>>

\* Mutant of Swallow: continue where the code breaks out of the loop.
SwallowAndContinue(e) ==
  /\ phase[e] = "chain"
  /\ answer[e] = "swallow"
  /\ ~ timedOut[e]
  /\ swallowed' = [swallowed EXCEPT ![e] = TRUE]
  /\ Call(e, chain[e], pos[e] + 1)
  /\ UNCHANGED <<setup, paused, steady, muted>>

\* The handler swallowed the event: the rest of the stack is skipped, and the
\* chain ends as it does otherwise.
Swallow(e) ==
  /\ phase[e] = "chain"
  /\ answer[e] = "swallow"
  /\ ~ timedOut[e]
  /\ swallowed' = [swallowed EXCEPT ![e] = TRUE]
  /\ EndChain(e)
  /\ UNCHANGED <<setup, chainVars, paused, steady, muted>>

\* The handler answered with an error before the timer: run() rejects.
HandlerFails(e) ==
  /\ phase[e] = "chain"
  /\ answer[e] = "error"
  /\ Fail(e)
  /\ UNCHANGED <<setup, chainVars, paused, steady, muted, swallowed>>

Continue(e) == NextHandler(e) \/ Swallow(e) \/ HandlerFails(e)

\* The after hook: hooks, decision engine, end of a converse call.
AfterDone(e) ==
  /\ phase[e] = "after"
  /\ phase' = [phase EXCEPT ![e] = "idle"]
  /\ Q!Finish(e)
  /\ UNCHANGED <<setup, chainVars, paused, steady, muted, swallowed>>

AfterFails(e) ==
  /\ phase[e] = "after"
  /\ Fail(e)
  /\ UNCHANGED <<setup, chainVars, paused, steady, muted, swallowed>>

Hook(e) == BeforeDone(e) \/ BeforeFails(e) \/ AfterDone(e) \/ AfterFails(e)

Next ==
  \/ \E m \in Middlewares : Register(m) \/ RemoveMiddleware(m)
  \/ \E e \in Events :
       SendEvent(e) \/ Start(e) \/ Hook(e) \/ TimerFires(e) \/ Continue(e)
  \/ \E i \in running : SetPause(i) \/ \E a \in Answers : Answer(i, a)

Spec == Init /\ [][Next]_vars

(***************************************************************************)
(* The queue serves (MemoryQueue), timers fire, promises that are settled  *)
(* resume their awaiters and the hooks settle.  Handlers owe nothing.      *)
(***************************************************************************)
FairSpec ==
  /\ Spec
  /\ \A e \in Events :
       /\ WF_vars(Start(e))
       /\ WF_vars(Hook(e))
       /\ WF_vars(TimerFires(e))
       /\ WF_vars(Continue(e))

-----------------------------------------------------------------------------
(* Properties *)

TypeOK ==
  /\ Q!TypeOK
  /\ registered \in Seq(Middlewares)
  /\ direction \in Directions
  /\ changes \in 0..MaxChanges[direction]
  /\ phase \in [Events -> {"idle", "before", "chain", "after"}]
  /\ chain \in [Events -> Seq(Middlewares)]
  /\ pos \in [Events -> Nat]
  /\ answer \in [Events -> Answers \cup {"none"}]
  /\ timedOut \in [Events -> BOOLEAN]
  /\ running \subseteq Invocation
  /\ late \subseteq running
  /\ paused \in [Events -> BOOLEAN]
  /\ seen \in [Events -> Seq(Middlewares)]
  /\ steady \in [Events -> SUBSET Middlewares]
  /\ muted \in [Events -> BOOLEAN]
  /\ swallowed \in [Events -> BOOLEAN]

\* At any time a conversation has at most one handler at work that has not been
\* given up by its timer: a handler may rely on nobody else touching the event,
\* and the session behind it, for as long as it answers in time.
OneHandlerAtATime ==
  \A i, j \in running \ late : ConvOf[i.event] = ConvOf[j.event] => i = j

(***************************************************************************)
(* What makes these inductive: the engine has an event while the queue     *)
(* serves it, one of a conversation; a handler at work that was not given  *)
(* up is the one run() awaits; lists and chains are in order; what was     *)
(* called is the beginning of the chain, all of it where no handler        *)
(* swallowed.                                                              *)
(***************************************************************************)
ServedOneByOne ==
  /\ \A e \in Events : /\ phase[e] # "idle" <=> status[e] = "serving"
                       /\ status[e] = "serving" => attempts[e] >= 1
  /\ \A e, f \in Events :
       ConvOf[e] = ConvOf[f] /\ status[e] = "serving" /\ status[f] = "serving" => e = f

OnlyAwaited ==
  \A i \in running \ late :
    /\ phase[i.event] = "chain"
    /\ i = Awaited(i.event)
    /\ answer[i.event] = "none"
    /\ ~ timedOut[i.event]

InOrder(s) ==
  \A k, m \in DOMAIN s : k < m => s[k] # s[m] /\ Order[s[k]] <= Order[s[m]]

Ordered == InOrder(registered) /\ \A e \in Events : InOrder(chain[e])

SeenSoFar ==
  \A e \in Events :
    /\ Len(seen[e]) <= Len(chain[e])
    /\ \A k \in DOMAIN seen[e] : seen[e][k] = chain[e][k]
    /\ phase[e] = "chain" => pos[e] \in DOMAIN chain[e] /\ Len(seen[e]) = pos[e]
    /\ steady[e] \subseteq ToSet(chain[e])
    /\ (phase[e] = "after" \/ status[e] = "done") /\ ~ swallowed[e]
       => Len(seen[e]) = Len(chain[e])

MutedStaysPaused == \A e \in Events : muted[e] => paused[e] /\ phase[e] # "after"

SwallowedIsDone ==
  \A e \in Events : swallowed[e] /\ direction = "outgoing" => status[e] = "done"

\* The chains of the events (MiddlewareChain.run): the inductive invariant.
ChainInv ==
  /\ TypeOK
  /\ ServedOneByOne
  /\ OnlyAwaited
  /\ Ordered
  /\ SeenSoFar
  /\ MutedStaysPaused
  /\ SwallowedIsDone
  /\ OneHandlerAtATime

\* Although middleware come and go while a chain runs, handlers are called in
\* the order of their definitions and none twice in an attempt; and an event
\* that was not swallowed reaches the after hook, or its end, only when each
\* middleware that was registered all along has seen it.
NoneSkipped ==
  \A e \in Events :
    /\ \A k, m \in DOMAIN seen[e] :
         k < m => /\ seen[e][k] # seen[e][m]
                  /\ Order[seen[e][k]] <= Order[seen[e][m]]
    /\ /\ phase[e] = "after" \/ (status[e] = "done" /\ ~ paused[e])
       /\ ~ swallowed[e]
       => steady[e] \subseteq ToSet(seen[e])

\* An event that a handler paused while its chain was running is not given to
\* the decision engine, in that attempt or in a later one.
PauseMutesTheBot == \A e \in Events : muted[e] => phase[e] # "after"

\* A message that a channel has taken (swallowed in time) is sent once: no
\* handler is called for that outgoing event any more.
SwallowIsFinal ==
  [][\A e \in Events :
       swallowed[e] /\ direction = "outgoing" => seen'[e] = seen[e] /\ phase'[e] = phase[e]]_vars

\* Every event sent is settled in the end, even when no handler ever answers.
EventsSettle ==
  \A e \in Events : (status[e] # "new") ~> (status[e] \in {"done", "abandoned"})

\* What the SDK says of a handler that does not call next(): the middleware
\* times out and the processing of the event stops.
TimeoutStopsProcessing ==
  [][\A e \in Events :
       phase[e] = "chain" /\ timedOut[e] /\ answer[e] = "none"
         => seen'[e] = seen[e]]_vars
=============================================================================
