---------------------------- MODULE DialogEngine ----------------------------
(***************************************************************************)
(* The dialog engine (core/services/dialog/dialog-engine.ts): one event at *)
(* a time, it walks the flows of a bot from where the context of the       *)
(* session stands, running the instructions of each node, until it has to  *)
(* wait for the user, the flow ends, or an error ends the event.  It is    *)
(* called by the decision engine (decision-engine.ts), which restores and  *)
(* persists the state of the event, and by the dialog janitor, for the     *)
(* sessions whose context has expired.                                     *)
(*                                                                         *)
(* processEvent and _transition call each other without awaiting in a try  *)
(* block, so that an exception is seen by the .catch of the transitions    *)
(* taken so far and by nothing else: "catchers" counts them.  Conditions,  *)
(* actions and rendering are choices; bots are given as data.              *)
(***************************************************************************)
EXTENDS Integers, Sequences, FiniteSets

CONSTANTS
  Bots,        \* the bots: their flows and nodes (see MCDialogEngine)
  MaxEvents,   \* bound: events by session
  MaxJumps,    \* bound: calls of jumpTo by actions during an event
  MaxEntries   \* how often a node may be entered: 3 in _detectInfiniteLoop

(***************************************************************************)
(* A bot is [node, start, catchAll, timeout, ndu, parent, under]: node     *)
(* maps <<flow, name>> to [enter, waits, receive, next, calls, ends],      *)
(* start a flow to the name of its start node, catchAll a flow to          *)
(* transitions, timeout a flow to its timeoutNode.  calls is the flow of a *)
(* skill-call node, "" for the others; ends whether a node is of type      *)
(* success or failure.  ndu says whether the events have gone through the  *)
(* NDU engine; then flows are workflows, with their parent, and under has  *)
(* those pairs of flows of which the name of the one begins with that of   *)
(* the other.  A destination is [kind, to, sure]: "flow", "node", "return" *)
(* (# or # and a node), "reenter" (##), "END", or "none" (a red port).     *)
(***************************************************************************)
\* The names of flows and nodes, those that the engine itself writes among them.
Name == {"", "error.flow.json"} \cup STRING

Kinds == {"flow", "node", "return", "reenter", "END", "none"}
Destination == [kind : Kinds, to : Name, sure : BOOLEAN]
FlowNode == [enter : Seq({"say", "action"}), waits : BOOLEAN, receive : Seq({"say", "action"}),
             next : Seq(Destination), calls : Name, ends : BOOLEAN]

\* A bot as the flow service loads it: every node is of a flow, whose name is
\* that of a file; the destinations need not exist.
IsBot(b) ==
  /\ "" \notin DOMAIN b.start
  /\ DOMAIN b.node \subseteq (DOMAIN b.start) \X Name
  /\ \A x \in DOMAIN b.node : b.node[x] \in FlowNode
  /\ \A f \in DOMAIN b.start : /\ {f, b.start[f], b.timeout[f], b.parent[f]} \subseteq Name
                              /\ b.catchAll[f] \in Seq(Destination)

ASSUME EngineAssumption ==
  /\ {MaxEvents, MaxJumps} \subseteq Nat
  /\ MaxEntries \in Nat \ {0}
  /\ \A b \in Bots : IsBot(b)

VARIABLES
  bot,       \* the bot
  stored,    \* the context persisted with the session
  kept,      \* the workflows persisted with the session
  event,     \* a message, or the janitor's timeout; and whether it has
             \* event.state.workflow, which a state out of Redis lacks
  ctx,       \* event.state.context
  workflows, \* event.state.session: the workflows, and the current one
  pc,        \* what processEvent or _transition does next
  instr,     \* the instruction under way
  rest,      \* the instructions behind it
  dest,      \* the destination of the transition under way
  catchers,  \* the .catch handlers of the transitions taken
  visits,    \* __stacktrace: how often each node is in it
  jumps,     \* bound: calls of jumpTo by the actions of this event
  events,    \* bound
  cameBack,  \* history: the node a subflow has just returned to, or <<>>
  stranded,  \* history: the flag has persisted a context where an event failed
  bare       \* history: a workflow was changed without event.state.workflow

session == <<bot, stored, kept, events, event, stranded>>
step == <<instr, rest, dest>>
vars == <<session, ctx, workflows, pc, step, catchers, visits, jumps, cameBack, bare>>

NoDest == [kind |-> "none", to |-> "", sure |-> TRUE]
TimeoutFlow == "timeout.flow.json"
ErrorFlow == [kind |-> "flow", to |-> "error.flow.json", sure |-> TRUE]

Empty == [flow |-> "", node |-> "", hasQueue |-> FALSE, queue |-> <<>>,
          jumped |-> FALSE, jumpPoints |-> <<>>]

NoWorkflow == [status |-> "none", parent |-> ""]
NoWorkflows == [current |-> "", of |-> [f \in DOMAIN bot.start |-> NoWorkflow]]

NoEvent == [kind |-> "none", getter |-> TRUE]
NoVisits == [x \in DOMAIN bot.node |-> 0]

Found(f, n) == <<f, n>> \in DOMAIN bot.node
FlowFound(f) == f \in DOMAIN bot.start /\ Found(f, bot.start[f])

-----------------------------------------------------------------------------
(* Instructions, tagged with the node they were made for (queue-builder.ts *)
(* and factory.ts).                                                        *)

Instr(do, d, f, n) == [do |-> do, dest |-> d, of |-> <<f, n>>]
NoInstr == Instr("wait", NoDest, "", "")
Instrs(kinds, f, n) == [k \in DOMAIN kinds |-> Instr(kinds[k], NoDest, f, n)]
Nexts(dests, f, n) == [k \in DOMAIN dests |-> Instr("transition", dests[k], f, n)]

\* The elements of s that are in T, in their order: SelectSeq, as a function
\* that can be reasoned about.
SelectIn(s, T) ==
  LET f[i \in 0..Len(s)] ==
        IF i = 0 THEN <<>> ELSE IF s[i] \in T THEN Append(f[i - 1], s[i]) ELSE f[i - 1]
  IN  f[Len(s)]

\* createTransition(flow, node): catch-all transitions to the node are skipped.
TransitionsOf(f, n) ==
  LET catchAll == bot.catchAll[f]
      elsewhere == {catchAll[k] : k \in {k \in DOMAIN catchAll : catchAll[k].to # n}}
  IN  Nexts(SelectIn(catchAll, elsewhere) \o bot.node[<<f, n>>].next, f, n)

\* build() after hasJumped(): the catch-all transitions of the flow come first.
QueueOf(f, n, jumped) ==
  LET x == bot.node[<<f, n>>]
  IN  (IF jumped THEN Nexts(bot.catchAll[f], f, n) ELSE <<>>)
      \o Instrs(x.enter, f, n)
      \o (IF x.waits THEN Instrs(<<"wait">> \o x.receive, f, n) ELSE <<>>)
      \o TransitionsOf(f, n)

-----------------------------------------------------------------------------
Init ==
  /\ bot \in Bots
  /\ stored = Empty
  /\ kept = NoWorkflows
  /\ event = NoEvent
  /\ ctx = Empty
  /\ workflows = NoWorkflows
  /\ pc = "idle"
  /\ instr = NoInstr
  /\ rest = <<>>
  /\ dest = NoDest
  /\ catchers = 0
  /\ visits = NoVisits
  /\ jumps = 0
  /\ events = 0
  /\ cameBack = <<>>
  /\ stranded = FALSE
  /\ bare = FALSE

Jumped(c, f, n) == [c EXCEPT !.flow = f, !.node = n, !.hasQueue = FALSE,
                             !.queue = <<>>, !.jumped = TRUE]

\* A message comes in, and the state of its session is restored.
Receive ==
  /\ pc = "idle"
  /\ events < MaxEvents
  /\ events' = events + 1
  /\ \E getter \in {TRUE, ~ bot.ndu} : event' = [kind |-> "message", getter |-> getter]
  /\ ctx' = stored
  /\ workflows' = kept
  /\ pc' = "decide"
  /\ UNCHANGED <<bot, stored, kept, stranded, bare, step, catchers, visits, jumps, cameBack>>

\* The event is over, and its state with it, but for what is persisted.
Over ==
  /\ pc' = "idle"
  /\ event' = NoEvent
  /\ ctx' = Empty
  /\ workflows' = NoWorkflows
  /\ instr' = NoInstr
  /\ rest' = <<>>
  /\ dest' = NoDest
  /\ catchers' = 0
  /\ visits' = NoVisits
  /\ jumps' = 0
  /\ cameBack' = <<>>
  /\ UNCHANGED <<bot, events>>

\* The decision engine: the suggestion that was elected, or an action of the NDU
\* engine, may jump; then the flows are executed or not (there was an answer and
\* nothing else, or SKIP_DIALOG_ENGINE is set; FORCE_PERSIST_STATE may be set
\* then).  When the flow to jump to does not exist the event fails, as if it was
\* not executed, and is not persisted.
Decide ==
  /\ pc = "decide"
  /\ \E x \in DOMAIN bot.node \cup {<<>>} :
       LET jumps_to == IF x = <<>> THEN ctx ELSE Jumped(ctx, x[1], x[2])
       IN  \/ /\ pc' = "enter"
              /\ ctx' = jumps_to
              /\ visits' = IF x = <<>> THEN visits ELSE [visits EXCEPT ![x] = 1]
              /\ UNCHANGED <<session, workflows, step, catchers, jumps, cameBack>>
           \/ /\ Over
              /\ stored' \in {stored, jumps_to}
              /\ UNCHANGED <<kept, stranded>>
  /\ UNCHANGED bare

\* processTimeout looks for a node: the one named timeout in the flow, the flow's
\* timeoutNode, the start of the flow timeout.
TimeoutNode ==
  LET own == {<<stored.flow, "timeout">>} \cap DOMAIN bot.node
      named == {<<stored.flow, bot.timeout[stored.flow]>>} \cap DOMAIN bot.node
      last == {x \in DOMAIN bot.node : x[1] = TimeoutFlow /\ x[2] = bot.start[TimeoutFlow]}
  IN  CHOOSE x \in IF own # {} THEN own ELSE IF named # {} THEN named
                   ELSE IF last # {} THEN last ELSE {<<>>} : TRUE

\* The janitor meets the session, whose context has expired: the context is
\* emptied when there is nothing to run.
Timeout ==
  /\ pc = "idle"
  /\ events < MaxEvents
  /\ stored # Empty
  /\ events' = events + 1
  /\ LET x == IF stored.flow \in DOMAIN bot.start THEN TimeoutNode ELSE <<>>
     IN  IF x = <<>> THEN stored' = Empty /\ UNCHANGED <<event, ctx, workflows, pc>>
         ELSE /\ event' = [kind |-> "timeout", getter |-> TRUE]
              /\ ctx' = Jumped(stored, x[1], x[2])
              /\ workflows' = kept
              /\ pc' = "enter"
              /\ UNCHANGED stored
  /\ UNCHANGED <<bot, kept, stranded, bare, step, catchers, visits, jumps, cameBack>>

\* What is persisted of the workflows: onAfterEventProcessed drops the completed.
Dropped(w) == [w EXCEPT !.of = [f \in DOMAIN w.of |-> IF w.of[f].status = "completed"
                                                     THEN NoWorkflow ELSE w.of[f]]]

\* Every promise resolves: the state of a message is persisted, unless this
\* fails; of a timeout, whether there is something left to run decides whether
\* the janitor leaves the context that the session had.
FinishWith(c, w) ==
  /\ Over
  /\ \/ /\ event.kind = "message"
        /\ stored' = c
        /\ kept' = Dropped(w)
        /\ stranded' = FALSE
     \/ /\ event.kind = "message"
        /\ UNCHANGED <<stored, kept, stranded>>
     \/ /\ event.kind = "timeout"
        /\ stored' = IF c.queue = <<>> THEN Empty ELSE stored
        /\ UNCHANGED <<kept, stranded>>

Finish(c) == FinishWith(c, workflows) /\ UNCHANGED bare

\* Mutant of Abandoned: the state of an event that failed is persisted.
AbandonedPersisted(c) == stored' = c /\ UNCHANGED stranded

\* An event that failed.  The decision engine's own error flow, which is named
\* 'error', is never found; then nothing is persisted, unless FORCE_PERSIST_STATE
\* is set (an NDU event throws before that).  The janitor empties the context.
Abandoned(c) ==
  IF event.kind = "timeout" THEN stored' = Empty /\ UNCHANGED stranded
  ELSE \/ UNCHANGED <<stored, stranded>>
       \/ ~ bot.ndu /\ stored' = c /\ stranded' = TRUE

\* Mutant of FailWith: the error flow is not left to the transitions before.
FailForever(c, w) ==
  \/ catchers = 0 /\ Over /\ Abandoned(c) /\ UNCHANGED kept
  \/ /\ catchers > 0
     /\ ctx' = c
     /\ workflows' = w
     /\ pc' = "transition"
     /\ dest' = ErrorFlow
     /\ UNCHANGED <<session, catchers, instr, rest, visits, jumps, cameBack>>

\* An exception: the last transition that can catch it goes to the error flow.
FailWith(c, w) ==
  \/ catchers = 0 /\ Over /\ Abandoned(c) /\ UNCHANGED kept
  \/ /\ catchers > 0
     /\ ctx' = c
     /\ workflows' = w
     /\ pc' = "transition"
     /\ dest' = ErrorFlow
     /\ catchers' = catchers - 1
     /\ UNCHANGED <<session, instr, rest, visits, jumps, cameBack>>

Fail(c) == FailWith(c, workflows) /\ UNCHANGED bare

-----------------------------------------------------------------------------
(* processEvent, up to the first instruction. *)

DefaultFlow == IF bot.ndu /\ event.kind = "message" THEN "misunderstood.flow.json" ELSE "main.flow.json"

\* initializeContext: the default flow, from its start node.
InitializeContext ==
  /\ pc = "enter"
  /\ ctx = Empty
  /\ FlowFound(DefaultFlow)
  /\ LET f == DefaultFlow
     IN  /\ ctx' = [Empty EXCEPT !.flow = f, !.node = bot.start[f]]
         /\ visits' = [visits EXCEPT ![<<f, bot.start[f]>>] = @ + 1]
  /\ UNCHANGED <<session, workflows, pc, step, catchers, jumps, cameBack, bare>>

\* The flow or the node of the context does not exist.
EnterFails ==
  /\ pc = "enter"
  /\ IF ctx = Empty THEN ~ FlowFound(DefaultFlow) ELSE ~ Found(ctx.flow, ctx.node)
  /\ Fail(ctx)

AtNode == pc = "enter" /\ ctx # Empty /\ Found(ctx.flow, ctx.node)

\* state.workflow is the current one, when there is one.
Known(w) == event.getter /\ w.current # "" /\ w.of[w.current].status # "none"

\* Mutant of ChangeWorkflow: the parent of a workflow stays active.
ChangeWorkflowKeepsParent(w, f) ==
  LET here == w.current IN
  IF ~ Known(w) THEN [w EXCEPT !.of[f] = [status |-> "active", parent |-> bot.parent[f]]]
  ELSE IF <<f, here>> \in bot.under THEN [w EXCEPT !.of[f] = [status |-> "active", parent |-> here]]
  ELSE IF w.of[here].parent # "" /\ w.of[f].status # "none"
       THEN [w EXCEPT !.of[here].status = "completed", !.of[f].status = "active"]
  ELSE [w EXCEPT !.of[here].status = "completed"]

\* The flow f is not the current workflow: this one is unknown, or becomes the
\* parent, or is completed; then its parent goes on.
ChangeWorkflow(w, f) ==
  LET here == w.current IN
  IF ~ Known(w) THEN [w EXCEPT !.of[f] = [status |-> "active", parent |-> bot.parent[f]]]
  ELSE IF <<f, here>> \in bot.under
       THEN [w EXCEPT !.of[here].status = "pending", !.of[f] = [status |-> "active", parent |-> here]]
  ELSE IF w.of[here].parent # "" /\ w.of[f].status # "none"
       THEN [w EXCEPT !.of[here].status = "completed", !.of[f].status = "active"]
  ELSE [w EXCEPT !.of[here].status = "completed"]

\* What a node of type success or failure completes is the workflow that was
\* current before its flow was entered.
Completed(w, was) == IF Known(was) THEN [w EXCEPT !.of[was.current].status = "completed"] ELSE w

\* processEvent at the node of the context, as far as workflows go.
EnterWorkflow ==
  IF ~ bot.ndu \/ event.kind = "timeout" THEN workflows
  ELSE LET f == ctx.flow
           w == IF workflows.current = f THEN workflows
                ELSE [ChangeWorkflow(workflows, f) EXCEPT !.current = f]
       IN  IF bot.node[<<f, ctx.node>>].ends THEN Completed(w, workflows) ELSE w

EntersBare == bare' = (bare \/ (~ event.getter /\ workflows.current # ctx.flow))

\* Mutant of ExitingSubflow: the jump point that was used is not looked at.
ExitingSubflowNever == FALSE

\* The first used jump point is the node where we are, and not to be executed.
ExitingSubflow ==
  \E k \in DOMAIN ctx.jumpPoints :
    LET j == ctx.jumpPoints[k]
    IN  /\ j.used
        /\ \A i \in 1..(k - 1) : ~ ctx.jumpPoints[i].used
        /\ j.flow = ctx.flow
        /\ j.node = ctx.node
        /\ ~ j.executeNode

JumpPoint == [flow |-> ctx.flow, node |-> ctx.node, used |-> FALSE, executeNode |-> FALSE]
AtStart(f, points) == [Empty EXCEPT !.flow = f, !.node = bot.start[f], !.jumpPoints = points]

\* A skill-call node: on to the start node of its flow.
GoToSubflow ==
  /\ AtNode
  /\ bot.node[<<ctx.flow, ctx.node>>].calls # ""
  /\ ~ ExitingSubflow
  /\ LET f == bot.node[<<ctx.flow, ctx.node>>].calls
     IN  \/ ~ FlowFound(f) /\ FailWith(ctx, EnterWorkflow)
         \/ /\ FlowFound(f)
            /\ ctx' = AtStart(f, Append(ctx.jumpPoints, JumpPoint))
            /\ workflows' = EnterWorkflow
            /\ UNCHANGED <<session, pc, step, catchers, visits, jumps, cameBack>>
  /\ EntersBare

\* Mutant of QueueToRun: hasJumped is not looked at.
QueueToRunIgnoresJump ==
  IF ctx.hasQueue THEN ctx.queue ELSE QueueOf(ctx.flow, ctx.node, ctx.jumped)

QueueToRun ==
  IF ctx.jumped \/ ~ ctx.hasQueue THEN QueueOf(ctx.flow, ctx.node, ctx.jumped)
                                  ELSE ctx.queue

\* The queue of the context, or that of the node; its first instruction.
TakeInstruction ==
  /\ AtNode
  /\ bot.node[<<ctx.flow, ctx.node>>].calls = "" \/ ExitingSubflow
  /\ IF QueueToRun = <<>>
       THEN FinishWith(Empty, EnterWorkflow)
       ELSE /\ instr' = Head(QueueToRun)
            /\ rest' = Tail(QueueToRun)
            /\ ctx' = [ctx EXCEPT !.jumped = FALSE]
            /\ pc' = "run"
            /\ workflows' = EnterWorkflow
            /\ UNCHANGED <<session, dest, catchers, visits, jumps, cameBack>>
  /\ EntersBare

-----------------------------------------------------------------------------
(* The instruction. *)

WithQueue(c, queue) == [c EXCEPT !.hasQueue = TRUE, !.queue = queue]
WithoutQueue(c) == [c EXCEPT !.hasQueue = FALSE, !.queue = <<>>]

\* An action or a say is done, or the condition of a transition is false: the
\* next instruction follows.
RunOn ==
  /\ pc = "run"
  /\ instr.do \in {"say", "action"} \/ (instr.do = "transition" /\ ~ instr.dest.sure)
  /\ ctx' = WithQueue(ctx, rest)
  /\ pc' = "enter"
  /\ UNCHANGED <<session, workflows, bare, step, catchers, visits, jumps, cameBack>>

\* An action calls jumpTo: the queue that is then assigned is the old node's,
\* but hasJumped makes processEvent rebuild it.
RunJumpTo ==
  /\ pc = "run"
  /\ instr.do = "action"
  /\ jumps < MaxJumps
  /\ jumps' = jumps + 1
  /\ \E x \in DOMAIN bot.node :
       /\ ctx' = WithQueue(Jumped(ctx, x[1], x[2]), rest)
       /\ visits' = [visits EXCEPT ![x] = @ + 1]
  /\ pc' = "enter"
  /\ cameBack' = <<>>
  /\ UNCHANGED <<session, workflows, bare, step, catchers>>

\* An action throws: ActionStrategy makes it a transition to the error flow.
RunActionFails ==
  /\ pc = "run"
  /\ instr.do = "action"
  /\ ctx' = WithoutQueue(ctx)
  /\ pc' = "transition"
  /\ dest' = ErrorFlow
  /\ catchers' = catchers + 1
  /\ UNCHANGED <<session, workflows, bare, instr, rest, visits, jumps, cameBack>>

\* A say that cannot be rendered, arguments or a condition that throw: the
\* error is reported and the event ends; the queue of the context is kept.
RunThrows ==
  /\ pc = "run"
  /\ instr.do \in {"say", "action", "transition"}
  /\ Finish(ctx)

\* A wait: the rest is for the next event.
RunWait ==
  /\ pc = "run"
  /\ instr.do = "wait"
  /\ Finish(WithQueue(ctx, rest))

\* The condition of a transition is true.
RunTransition ==
  /\ pc = "run"
  /\ instr.do = "transition"
  /\ IF instr.dest.kind = "none"
       THEN Finish(Empty)
       ELSE /\ ctx' = WithoutQueue(ctx)
            /\ pc' = "transition"
            /\ dest' = instr.dest
            /\ catchers' = catchers + 1
            /\ UNCHANGED <<session, workflows, bare, instr, rest, visits, jumps, cameBack>>

-----------------------------------------------------------------------------
(* _transition *)

\* Mutant of LoopDetected: there is no limit.
LoopDetectedNever == FALSE

LoopDetected == \E x \in DOMAIN visits : visits[x] >= MaxEntries

\* The context without the jump points that are used up.
Unused(points) == SelectIn(points, {points[k] : k \in {k \in DOMAIN points : ~ points[k].used}})
Cleaned == [ctx EXCEPT !.jumpPoints = Unused(@)]

LoopFails == pc = "transition" /\ LoopDetected /\ Fail(ctx)

\* _findFlow fails after the jump points were filtered.
FlowMissing ==
  /\ dest.kind = "flow"
  /\ ~ FlowFound(dest.to)
  /\ Fail(Cleaned)

ToFlow ==
  /\ dest.kind = "flow"
  /\ FlowFound(dest.to)
  /\ ctx' = AtStart(dest.to, Append(Cleaned.jumpPoints, JumpPoint))
  /\ visits' = [visits EXCEPT ![<<dest.to, bot.start[dest.to]>>] = @ + 1]
  /\ pc' = "enter"
  /\ cameBack' = <<>>
  /\ UNCHANGED <<session, workflows, bare, step, catchers, jumps>>

\* The node is found, or not, by processEvent.
ToNode ==
  /\ dest.kind = "node"
  /\ ctx' = [Cleaned EXCEPT !.node = dest.to]
  /\ visits' = IF Found(ctx.flow, dest.to)
               THEN [visits EXCEPT ![<<ctx.flow, dest.to>>] = @ + 1] ELSE visits
  /\ pc' = "enter"
  /\ cameBack' = <<>>
  /\ UNCHANGED <<session, workflows, bare, step, catchers, jumps>>

\* Back to the last jump point, or another node of its flow, with its
\* transitions only.  Without a jump point the event ends where it is.
Return ==
  LET points == Cleaned.jumpPoints
      n == Len(points)
      point == points[n]
      node == IF dest.to = "" THEN point.node ELSE dest.to
      used == [points EXCEPT ![n].used = TRUE,
                             ![n].executeNode = (dest.kind = "reenter")]
  IN  /\ dest.kind \in {"return", "reenter"}
      /\ \/ /\ points = <<>>
            /\ Finish(Cleaned)
         \/ /\ points # <<>>
            /\ ~ Found(point.flow, node)
            /\ Fail([Cleaned EXCEPT !.jumpPoints = used])
         \/ /\ points # <<>>
            /\ Found(point.flow, node)
            /\ ctx' = [WithQueue(Cleaned, TransitionsOf(point.flow, node)) EXCEPT
                         !.flow = point.flow, !.node = node, !.jumpPoints = used]
            /\ visits' = [visits EXCEPT ![<<point.flow, node>>] = @ + 1]
            /\ pc' = "enter"
            /\ cameBack' = IF dest.kind = "return" /\ dest.to = ""
                           THEN <<point.flow, node>> ELSE <<>>
            /\ UNCHANGED <<session, workflows, bare, step, catchers, jumps>>

\* END: the context is deleted.
ToEnd ==
  /\ dest.kind = "END"
  /\ Finish(Empty)

Transition ==
  /\ pc = "transition"
  /\ ~ LoopDetected
  /\ FlowMissing \/ ToFlow \/ ToNode \/ Return \/ ToEnd

ProcessEvent ==
  \/ Decide
  \/ InitializeContext \/ EnterFails \/ GoToSubflow \/ TakeInstruction
  \/ RunOn \/ RunJumpTo \/ RunActionFails \/ RunThrows \/ RunWait \/ RunTransition
  \/ LoopFails \/ Transition

Next == Receive \/ Timeout \/ ProcessEvent

Spec == Init /\ [][Next]_vars

\* The promises of the engine settle.
FairSpec == Spec /\ WF_vars(ProcessEvent)

-----------------------------------------------------------------------------
(* Properties *)

Instruction == [do : {"say", "action", "wait", "transition"}, dest : Destination,
                of : Name \X Name]
Points == [flow : Name, node : Name, used : BOOLEAN, executeNode : BOOLEAN]
Context == [flow : Name, node : Name, hasQueue : BOOLEAN, queue : Seq(Instruction),
            jumped : BOOLEAN, jumpPoints : Seq(Points)]
Workflow == [status : {"none", "active", "pending", "completed"}, parent : Name]
Workflows == [current : DOMAIN bot.start \cup {""}, of : [DOMAIN bot.start -> Workflow]]

TypeOK ==
  /\ bot \in Bots
  /\ stored \in Context /\ ctx \in Context
  /\ kept \in Workflows /\ workflows \in Workflows
  /\ event \in [kind : {"none", "message", "timeout"}, getter : BOOLEAN]
  /\ stranded \in BOOLEAN /\ bare \in BOOLEAN
  /\ pc \in {"idle", "decide", "enter", "run", "transition"}
  /\ instr \in Instruction
  /\ rest \in Seq(Instruction)
  /\ dest \in Destination
  /\ pc = "transition" => dest.kind # "none"
  /\ catchers \in Nat
  /\ visits \in [DOMAIN bot.node -> Nat]
  /\ jumps \in 0..MaxJumps
  /\ events \in 0..MaxEvents

\* Whatever the flows and the conditions, an event enters a node a bounded
\* number of times, error flows included: loops end.
EntriesBounded == \A x \in DOMAIN visits : visits[x] <= MaxEntries + jumps

\* The processing of an event (processEvent and its recursion): the types, and
\* its bound.
EngineInv == TypeOK /\ EntriesBounded

\* The session never points at a node that does not exist, from where no event
\* could ever be processed: an event that led there is not persisted, but by
\* FORCE_PERSIST_STATE.
StoredContextRunnable == stranded \/ stored = Empty \/ Found(stored.flow, stored.node)

\* Only one workflow is active at a time, the current one (WorkflowHistory in the
\* SDK), over subflows, returns, errors and events; unless the workflow was
\* changed by an event whose state came out of Redis.
OneWorkflowActive ==
  bare \/ \A f \in DOMAIN workflows.of : workflows.of[f].status = "active" => f = workflows.current

\* What the next event of the session finds is sound: its context and workflows.
SessionSound == StoredContextRunnable /\ OneWorkflowActive

Matches(c) == \A k \in DOMAIN c.queue : c.queue[k].of = <<c.flow, c.node>>

\* The instructions run are those of the node the context names, over waits,
\* jumps and returns, when the event started from a context that matched (it
\* does not after an instruction threw right behind a jump of an action).
OwnInstructions ==
  pc = "run" /\ Matches(stored) => instr.of = <<ctx.flow, ctx.node>>

\* A node that a subflow returned to takes its transitions: it is not entered
\* again, and the subflow with it, before one of them is taken.
NotReentered ==
  [][pc = "enter" /\ cameBack # <<>> /\ ctx' # Empty => ctx'.flow = ctx.flow]_vars

\* The processing of every event ends (jumps by actions being bounded).
EventsEnd == pc # "idle" ~> pc = "idle"
=============================================================================
