-------------------------- MODULE DialogEngineProofs --------------------------
(* For every bot, any number of events and jumps: the processing of an event  *)
(* enters nodes a bounded number of times, runs the instructions of the node  *)
(* it stands at, and leaves behind a session that the next event can go on    *)
(* from.                                                                      *)
EXTENDS DialogEngine, SequenceTheorems, WellFoundedInduction, TLAPS

-----------------------------------------------------------------------------
(* Selections of sequences. *)

\* Induction over the natural numbers, for a set: from the least counterexample.
LEMMA Induction ==
  ASSUME NEW T, 0 \in T, \A k \in Nat : k \in T => k + 1 \in T
  PROVE  Nat \subseteq T
<1>1. SUFFICES ASSUME Nat \ T # {} PROVE FALSE
  OBVIOUS
<1>2. PICK m \in Nat \ T : \A k \in Nat \ T : ~ (<<k, m>> \in OpToRel(<, Nat))
  BY <1>1, NatLessThanWellFounded, WFMin, Zenon
<1>3. m # 0
  BY <1>2
<1>4. m - 1 \in Nat /\ m - 1 < m /\ <<m - 1, m>> \in Nat \X Nat
  BY <1>3
<1>5. m - 1 \in T
  BY <1>2, <1>4 DEF OpToRel
<1>6. m - 1 + 1 \in T
  BY <1>4, <1>5
<1>7. m - 1 + 1 = m
  OBVIOUS
<1>8. QED
  BY <1>6, <1>7

SelectStep(s, T, f, i) ==
  IF i = 0 THEN <<>> ELSE IF s[i] \in T THEN Append(f[i - 1], s[i]) ELSE f[i - 1]

\* The function that SelectIn is defined by exists.
LEMMA SelectInExists ==
  ASSUME NEW s, NEW T, NEW n \in Nat
  PROVE  \E f : f = [i \in 0..n |-> SelectStep(s, T, f, i)]
<1> DEFINE Body(g, i) == SelectStep(s, T, g, i)
           Good == {m \in Nat : \E f : f = [i \in 0..m |-> Body(f, i)]}
<1>1. 0 \in Good
  <2> DEFINE g == [i \in 0..0 |-> <<>>]
  <2>1. g = [i \in 0..0 |-> Body(g, i)]
    BY DEF SelectStep
  <2> HIDE DEF g, Body
  <2>2. QED
    BY <2>1
<1>2. ASSUME NEW m \in Nat, m \in Good PROVE m + 1 \in Good
  <2>1. PICK h : h = [i \in 0..m |-> Body(h, i)]
    BY <1>2
  <2> DEFINE g == [i \in 0..(m + 1) |-> IF i = m + 1 THEN Body(h, i) ELSE h[i]]
  <2>2. ASSUME NEW i \in 0..(m + 1) PROVE g[i] = Body(g, i)
    <3>1. CASE i = 0
      BY <2>1, <3>1 DEF SelectStep
    <3>2. CASE i # 0
      <4>1. i - 1 \in 0..m /\ i - 1 # m + 1 /\ i - 1 \in 0..(m + 1)
        BY <3>2
      <4>2. g[i - 1] = h[i - 1]
        BY <4>1
      <4>3. g[i] = Body(h, i)
        <5>1. CASE i = m + 1
          BY <5>1
        <5>2. CASE i # m + 1
          <6>1. i \in 0..m
            BY <5>2
          <6>2. h[i] = Body(h, i)
            <7> HIDE DEF Body
            <7>1. QED
              BY <6>1, <2>1
          <6>3. g[i] = h[i]
            BY <5>2
          <6>4. QED
            BY <6>2, <6>3, Zenon
        <5>3. QED
          BY <5>1, <5>2
      <4>4. Body(h, i) = Body(g, i)
        <5> HIDE DEF g
        <5>1. QED
          BY <4>2 DEF SelectStep
      <4>5. QED
        BY <4>3, <4>4, Zenon
    <3>3. QED
      BY <3>1, <3>2
  <2>3. g = [i \in 0..(m + 1) |-> Body(g, i)]
    <3>1. g = [i \in 0..(m + 1) |-> g[i]]
      OBVIOUS
    <3> HIDE DEF g, Body
    <3>2. QED
      BY <3>1, <2>2
  <2> HIDE DEF g, Body
  <2>4. m + 1 \in Nat
    OBVIOUS
  <2>5. QED
    BY <2>3, <2>4
<1>3. n \in Good
  <2> HIDE DEF Good
  <2>1. QED
    BY <1>1, <1>2, Induction
<1>4. QED
  BY <1>3

\* What is selected is a sequence of elements of the set.
LEMMA SelectInSeq ==
  ASSUME NEW S, NEW T, NEW s \in Seq(S)
  PROVE  SelectIn(s, T) \in Seq(S \cap T)
<1>e. \E g : g = [i \in 0..Len(s) |-> SelectStep(s, T, g, i)]
  <2>1. Len(s) \in Nat
    OBVIOUS
  <2>2. QED
    BY <2>1, SelectInExists, Zenon
<1> DEFINE f[i \in 0..Len(s)] ==
        IF i = 0 THEN <<>> ELSE IF s[i] \in T THEN Append(f[i - 1], s[i]) ELSE f[i - 1]
<1>1. Len(s) \in Nat
  OBVIOUS
<1>2. f = [i \in 0..Len(s) |-> SelectStep(s, T, f, i)]
  BY <1>e, Zenon DEF SelectStep
<1>3. SelectIn(s, T) = f[Len(s)]
  BY DEF SelectIn
<1> DEFINE Good == {k \in Nat : k <= Len(s) => f[k] \in Seq(S \cap T)}
<1> HIDE DEF f
<1>4. f[0] = <<>>
  <2>1. 0 \in 0..Len(s)
    BY <1>1
  <2>2. QED
    BY ONLY <2>1, <1>2 DEF SelectStep
<1>5. 0 \in Good
  <2>1. f[0] \in Seq(S \cap T)
    BY <1>4, EmptySeq
  <2>2. QED
    BY <2>1
<1>6. ASSUME NEW k \in Nat, k \in Good PROVE k + 1 \in Good
  <2>1. SUFFICES ASSUME k + 1 <= Len(s) PROVE f[k + 1] \in Seq(S \cap T)
    OBVIOUS
  <2>2. f[k] \in Seq(S \cap T)
    BY <1>1, <1>6, <2>1
  <2>3. k + 1 \in 1..Len(s) /\ k + 1 \in 0..Len(s) /\ k + 1 # 0 /\ k + 1 - 1 = k
    BY <1>1, <2>1
  <2>4. s[k + 1] \in S
    BY <2>3
  <2>5. f[k + 1] = IF s[k + 1] \in T THEN Append(f[k], s[k + 1]) ELSE f[k]
    <3>1. f[k + 1] = SelectStep(s, T, f, k + 1)
      BY ONLY <1>2, <2>3, Zenon
    <3>2. QED
      BY ONLY <3>1, <2>3 DEF SelectStep
  <2>6. CASE s[k + 1] \in T
    <3>1. s[k + 1] \in S \cap T
      BY <2>4, <2>6
    <3>2. Append(f[k], s[k + 1]) \in Seq(S \cap T)
      BY ONLY <2>2, <3>1, AppendProperties
    <3>3. QED
      BY <2>5, <2>6, <3>2
  <2>7. QED
    BY <2>2, <2>5, <2>6
<1>7. Len(s) \in Good
  <2> HIDE DEF Good
  <2>1. QED
    BY <1>1, <1>5, <1>6, Induction
<1>8. QED
  BY <1>1, <1>3, <1>7

-----------------------------------------------------------------------------
(* Bots, instructions and contexts. *)

LEMMA BotFacts ==
  ASSUME NEW b \in Bots
  PROVE  /\ "" \notin DOMAIN b.start
         /\ \A x \in DOMAIN b.node : /\ x[1] \in DOMAIN b.start /\ x[1] \in Name
                                     /\ x[2] \in Name /\ x = <<x[1], x[2]>>
                                     /\ b.node[x] \in FlowNode
         /\ \A f \in DOMAIN b.start : /\ f \in Name /\ b.start[f] \in Name
                                      /\ b.timeout[f] \in Name /\ b.parent[f] \in Name
                                      /\ b.catchAll[f] \in Seq(Destination)
<1>1. IsBot(b)
  BY EngineAssumption DEF EngineAssumption
<1>2. \A f \in DOMAIN b.start : /\ f \in Name /\ b.start[f] \in Name
                               /\ b.timeout[f] \in Name /\ b.parent[f] \in Name
                               /\ b.catchAll[f] \in Seq(Destination)
  BY <1>1 DEF IsBot
<1>3. ASSUME NEW x \in DOMAIN b.node
      PROVE  x[1] \in DOMAIN b.start /\ x[2] \in Name /\ x = <<x[1], x[2]>>
  <2>1. x \in (DOMAIN b.start) \X Name
    BY <1>1 DEF IsBot
  <2>. QED BY <2>1
<1>4. "" \notin DOMAIN b.start /\ \A x \in DOMAIN b.node : b.node[x] \in FlowNode
  BY <1>1 DEF IsBot
<1>. QED BY <1>2, <1>3, <1>4

LEMMA NodeFacts ==
  ASSUME NEW x \in FlowNode
  PROVE  /\ x.enter \in Seq({"say", "action"}) /\ x.receive \in Seq({"say", "action"})
         /\ x.next \in Seq(Destination) /\ x.calls \in Name /\ x.waits \in BOOLEAN
BY DEF FlowNode

\* The instructions of a sequence were made for the node n of the flow f.
MadeFor(queue, f, n) == \A k \in DOMAIN queue : queue[k].of = <<f, n>>

LEMMA DestinationsKnown ==
  /\ NoDest \in Destination /\ ErrorFlow \in Destination
  /\ ErrorFlow.kind = "flow" /\ "flow" # "none"
BY DEF NoDest, ErrorFlow, Destination, Kinds, Name

LEMMA FunctionIsSeq ==
  ASSUME NEW S, NEW n \in Nat, NEW f \in [1..n -> S]
  PROVE  f \in Seq(S)
OBVIOUS

LEMMA InstrsMade ==
  ASSUME NEW kinds \in Seq({"say", "action", "wait"}), NEW f \in Name, NEW n \in Name
  PROVE  Instrs(kinds, f, n) \in Seq(Instruction) /\ MadeFor(Instrs(kinds, f, n), f, n)
<1>1. NoDest \in Destination
  BY DestinationsKnown
<1>2. \A k \in 1..Len(kinds) : kinds[k] \in {"say", "action", "wait"}
  BY ElementOfSeq
<1>3. DOMAIN kinds = 1..Len(kinds) /\ Len(kinds) \in Nat
  BY LenProperties
<1>4. \A k \in 1..Len(kinds) : Instr(kinds[k], NoDest, f, n) \in Instruction
  BY <1>1, <1>2 DEF Instr, Instruction
<1>5. Instrs(kinds, f, n) \in [1..Len(kinds) -> Instruction]
  BY <1>3, <1>4 DEF Instrs
<1>6. Instrs(kinds, f, n) \in Seq(Instruction)
  BY ONLY <1>3, <1>5, FunctionIsSeq
<1>7. MadeFor(Instrs(kinds, f, n), f, n)
  BY DEF MadeFor, Instrs, Instr
<1>. QED BY <1>6, <1>7

LEMMA NextsMade ==
  ASSUME NEW dests \in Seq(Destination), NEW f \in Name, NEW n \in Name
  PROVE  Nexts(dests, f, n) \in Seq(Instruction) /\ MadeFor(Nexts(dests, f, n), f, n)
<1>1. \A k \in 1..Len(dests) : dests[k] \in Destination
  BY ElementOfSeq
<1>2. DOMAIN dests = 1..Len(dests) /\ Len(dests) \in Nat
  BY LenProperties
<1>3. \A k \in 1..Len(dests) : Instr("transition", dests[k], f, n) \in Instruction
  BY <1>1 DEF Instr, Instruction
<1>4. Nexts(dests, f, n) \in [1..Len(dests) -> Instruction]
  BY <1>2, <1>3 DEF Nexts
<1>5. Nexts(dests, f, n) \in Seq(Instruction)
  BY ONLY <1>2, <1>4, FunctionIsSeq
<1>6. MadeFor(Nexts(dests, f, n), f, n)
  BY DEF MadeFor, Nexts, Instr
<1>. QED BY <1>5, <1>6

\* What holds of two queues holds of them one behind the other.
LEMMA MadeForBoth ==
  ASSUME NEW p \in Seq(Instruction), NEW q \in Seq(Instruction), NEW f, NEW n,
         MadeFor(p, f, n), MadeFor(q, f, n)
  PROVE  p \o q \in Seq(Instruction) /\ MadeFor(p \o q, f, n)
<1>1. p \o q \in Seq(Instruction)
  BY ConcatProperties
<1>2. /\ DOMAIN p = 1..Len(p) /\ Len(p) \in Nat
      /\ DOMAIN q = 1..Len(q) /\ Len(q) \in Nat
      /\ DOMAIN (p \o q) = 1..Len(p \o q)
  BY <1>1, LenProperties
<1>3. /\ Len(p \o q) = Len(p) + Len(q)
      /\ \A i \in 1..(Len(p) + Len(q)) : (p \o q)[i] = IF i <= Len(p) THEN p[i] ELSE q[i - Len(p)]
  BY ConcatProperties
<1>4. ASSUME NEW i \in 1..(Len(p) + Len(q)) PROVE (p \o q)[i].of = <<f, n>>
  <2>1. CASE i <= Len(p)
    <3>1. i \in DOMAIN p /\ (p \o q)[i] = p[i]
      BY <1>2, <1>3, <2>1
    <3>2. p[i].of = <<f, n>>
      BY <3>1 DEF MadeFor
    <3>. QED BY <3>1, <3>2
  <2>2. CASE ~ (i <= Len(p))
    <3>1. i - Len(p) \in DOMAIN q /\ (p \o q)[i] = q[i - Len(p)]
      BY <1>2, <1>3, <2>2
    <3>2. q[i - Len(p)].of = <<f, n>>
      BY <3>1 DEF MadeFor
    <3>. QED BY <3>1, <3>2
  <2>. QED BY <2>1, <2>2
<1>. QED BY <1>1, <1>2, <1>3, <1>4 DEF MadeFor

LEMMA TransitionsMade ==
  ASSUME bot \in Bots, NEW f, NEW n, Found(f, n)
  PROVE  TransitionsOf(f, n) \in Seq(Instruction) /\ MadeFor(TransitionsOf(f, n), f, n)
<1>1. /\ f \in DOMAIN bot.start /\ f \in Name /\ n \in Name
      /\ bot.node[<<f, n>>] \in FlowNode
  BY BotFacts DEF Found
<1>2. bot.catchAll[f] \in Seq(Destination) /\ bot.node[<<f, n>>].next \in Seq(Destination)
  BY <1>1, BotFacts, NodeFacts
<1> DEFINE catchAll == bot.catchAll[f]
           elsewhere == {catchAll[k] : k \in {k \in DOMAIN catchAll : catchAll[k].to # n}}
           dests == SelectIn(catchAll, elsewhere) \o bot.node[<<f, n>>].next
<1>3. SelectIn(catchAll, elsewhere) \in Seq(Destination)
  <2> HIDE DEF elsewhere, catchAll
  <2>1. catchAll \in Seq(Destination)
    BY <1>2 DEF catchAll
  <2>2. SelectIn(catchAll, elsewhere) \in Seq(Destination \cap elsewhere)
    BY <2>1, SelectInSeq
  <2>. QED BY <2>2
<1>4. dests \in Seq(Destination)
  <2> HIDE DEF elsewhere, catchAll
  <2>. QED BY <1>2, <1>3, ConcatProperties
<1>5. TransitionsOf(f, n) = Nexts(dests, f, n)
  BY DEF TransitionsOf
<1> HIDE DEF dests
<1>. QED BY <1>1, <1>4, <1>5, NextsMade

LEMMA QueueMade ==
  ASSUME bot \in Bots, NEW f, NEW n, Found(f, n), NEW jumped \in BOOLEAN
  PROVE  QueueOf(f, n, jumped) \in Seq(Instruction) /\ MadeFor(QueueOf(f, n, jumped), f, n)
<1>1. /\ f \in DOMAIN bot.start /\ f \in Name /\ n \in Name
      /\ bot.node[<<f, n>>] \in FlowNode
  BY BotFacts DEF Found
<1> DEFINE x == bot.node[<<f, n>>]
           first == IF jumped THEN Nexts(bot.catchAll[f], f, n) ELSE <<>>
           onEnter == Instrs(x.enter, f, n)
           onReceive == IF x.waits THEN Instrs(<<"wait">> \o x.receive, f, n) ELSE <<>>
           next == TransitionsOf(f, n)
<1>2. /\ x.enter \in Seq({"say", "action"}) /\ x.receive \in Seq({"say", "action"})
  BY <1>1, NodeFacts
<1>3. x.enter \in Seq({"say", "action", "wait"}) /\ <<"wait">> \o x.receive \in Seq({"say", "action", "wait"})
  <2>1. x.enter \in Seq({"say", "action", "wait"}) /\ x.receive \in Seq({"say", "action", "wait"})
    BY <1>2
  <2>2. <<"wait">> \in Seq({"say", "action", "wait"})
    OBVIOUS
  <2> HIDE DEF x
  <2>. QED BY <2>1, <2>2, ConcatProperties
<1>4. <<>> \in Seq(Instruction) /\ MadeFor(<<>>, f, n)
  BY EmptySeq DEF MadeFor
<1>5. first \in Seq(Instruction) /\ MadeFor(first, f, n)
  BY <1>1, <1>4, BotFacts, NextsMade
<1>6. onEnter \in Seq(Instruction) /\ MadeFor(onEnter, f, n)
  BY <1>1, <1>3, InstrsMade
<1>7. onReceive \in Seq(Instruction) /\ MadeFor(onReceive, f, n)
  BY <1>1, <1>3, <1>4, InstrsMade
<1>8. next \in Seq(Instruction) /\ MadeFor(next, f, n)
  BY TransitionsMade
<1>9. QueueOf(f, n, jumped) = first \o onEnter \o onReceive \o next
  BY DEF QueueOf
<1> HIDE DEF first, onEnter, onReceive, next
<1>10. first \o onEnter \in Seq(Instruction) /\ MadeFor(first \o onEnter, f, n)
  BY <1>5, <1>6, MadeForBoth
<1>11. first \o onEnter \o onReceive \in Seq(Instruction) /\ MadeFor(first \o onEnter \o onReceive, f, n)
  BY <1>7, <1>10, MadeForBoth
<1>12. /\ first \o onEnter \o onReceive \o next \in Seq(Instruction)
       /\ MadeFor(first \o onEnter \o onReceive \o next, f, n)
  BY ONLY <1>8, <1>11, MadeForBoth
<1>. QED BY ONLY <1>9, <1>12, Zenon

\* What the steps make of a context.
LEMMA ContextFields ==
  ASSUME NEW c \in Context
  PROVE  /\ c.flow \in Name /\ c.node \in Name /\ c.hasQueue \in BOOLEAN
         /\ c.queue \in Seq(Instruction) /\ c.jumped \in BOOLEAN /\ c.jumpPoints \in Seq(Points)
BY DEF Context

LEMMA EmptyContext ==
  /\ Empty \in Context /\ Empty.flow = "" /\ Empty.queue = <<>> /\ Empty.jumpPoints = <<>>
  /\ ~ Empty.hasQueue /\ ~ Empty.jumped
<1>1. <<>> \in Seq(Instruction) /\ <<>> \in Seq(Points)
  BY EmptySeq
<1>. QED BY <1>1 DEF Empty, Context, Name

\* A context that was jumped to, has a queue or jump points is not the empty one.
LEMMA NotEmpty ==
  ASSUME NEW c \in Context, c.jumped \/ c.hasQueue \/ c.flow # "" \/ c.jumpPoints # <<>>
  PROVE  c # Empty
BY EmptyContext

LEMMA JumpedContext ==
  ASSUME NEW c \in Context, NEW f \in Name, NEW n \in Name
  PROVE  /\ Jumped(c, f, n) \in Context /\ Jumped(c, f, n) # Empty
         /\ Jumped(c, f, n).flow = f /\ Jumped(c, f, n).node = n
         /\ Jumped(c, f, n).jumped = TRUE /\ Jumped(c, f, n).queue = <<>>
<1>1. <<>> \in Seq(Instruction)
  BY EmptySeq
<1>2. /\ Jumped(c, f, n) \in Context /\ Jumped(c, f, n).jumped = TRUE
      /\ Jumped(c, f, n).flow = f /\ Jumped(c, f, n).node = n /\ Jumped(c, f, n).queue = <<>>
  BY <1>1 DEF Jumped, Context
<1>. QED BY <1>2, NotEmpty

LEMMA QueuedContext ==
  ASSUME NEW c \in Context, NEW queue \in Seq(Instruction)
  PROVE  /\ WithQueue(c, queue) \in Context /\ WithQueue(c, queue) # Empty
         /\ WithQueue(c, queue).flow = c.flow /\ WithQueue(c, queue).node = c.node
         /\ WithQueue(c, queue).queue = queue /\ WithQueue(c, queue).hasQueue = TRUE
         /\ WithQueue(c, queue).jumped = c.jumped
         /\ WithQueue(c, queue).jumpPoints = c.jumpPoints
<1>1. /\ WithQueue(c, queue) \in Context /\ WithQueue(c, queue).hasQueue = TRUE
      /\ WithQueue(c, queue).flow = c.flow /\ WithQueue(c, queue).node = c.node
      /\ WithQueue(c, queue).queue = queue /\ WithQueue(c, queue).jumped = c.jumped
      /\ WithQueue(c, queue).jumpPoints = c.jumpPoints
  BY DEF WithQueue, Context
<1>. QED BY <1>1, NotEmpty

LEMMA UnqueuedContext ==
  ASSUME NEW c \in Context
  PROVE  /\ WithoutQueue(c) \in Context /\ WithoutQueue(c).queue = <<>>
         /\ WithoutQueue(c).flow = c.flow /\ WithoutQueue(c).node = c.node
<1>1. <<>> \in Seq(Instruction)
  BY EmptySeq
<1>. QED BY <1>1 DEF WithoutQueue, Context

LEMMA UnjumpedContext ==
  ASSUME NEW c \in Context
  PROVE  /\ [c EXCEPT !.jumped = FALSE] \in Context
         /\ [c EXCEPT !.jumped = FALSE].flow = c.flow /\ [c EXCEPT !.jumped = FALSE].node = c.node
         /\ [c EXCEPT !.jumped = FALSE].jumpPoints = c.jumpPoints
BY DEF Context

LEMMA JumpPointType ==
  ASSUME ctx \in Context
  PROVE  JumpPoint \in Points
BY DEF JumpPoint, Points, Context

LEMMA UnusedPoints ==
  ASSUME NEW points \in Seq(Points)
  PROVE  /\ Unused(points) \in Seq(Points)
         /\ \A k \in DOMAIN Unused(points) : ~ Unused(points)[k].used
<1> DEFINE free == {points[k] : k \in {k \in DOMAIN points : ~ points[k].used}}
<1>1. \A j \in free : ~ j.used
  OBVIOUS
<1>2. Unused(points) = SelectIn(points, free)
  BY DEF Unused
<1> HIDE DEF free
<1>3. Unused(points) \in Seq(Points \cap free)
  BY <1>2, SelectInSeq
<1>4. \A k \in DOMAIN Unused(points) : Unused(points)[k] \in Points \cap free
  BY ONLY <1>3, ElementOfSeq, LenProperties
<1>. QED BY <1>1, <1>3, <1>4

LEMMA CleanedContext ==
  ASSUME ctx \in Context
  PROVE  /\ Cleaned \in Context /\ Cleaned.flow = ctx.flow /\ Cleaned.node = ctx.node
         /\ Cleaned.queue = ctx.queue /\ Cleaned.jumped = ctx.jumped
         /\ Cleaned.hasQueue = ctx.hasQueue
         /\ Cleaned.jumpPoints \in Seq(Points)
         /\ \A k \in DOMAIN Cleaned.jumpPoints : ~ Cleaned.jumpPoints[k].used
<1>1. ctx.jumpPoints \in Seq(Points)
  BY ContextFields
<1> DEFINE points == Unused(ctx.jumpPoints)
<1>2. points \in Seq(Points) /\ \A k \in DOMAIN points : ~ points[k].used
  BY <1>1, UnusedPoints
<1>3. Cleaned = [ctx EXCEPT !.jumpPoints = points]
  BY DEF Cleaned
<1> HIDE DEF points
<1>4. Cleaned \in Context
  BY <1>2, <1>3 DEF Context
<1>. QED BY <1>2, <1>3, <1>4 DEF Context

LEMMA AtStartContext ==
  ASSUME bot \in Bots, NEW f \in Name, FlowFound(f), NEW points \in Seq(Points), NEW j \in Points
  PROVE  /\ AtStart(f, Append(points, j)) \in Context
         /\ AtStart(f, Append(points, j)).flow = f
         /\ AtStart(f, Append(points, j)).node = bot.start[f]
         /\ AtStart(f, Append(points, j)).queue = <<>>
         /\ AtStart(f, Append(points, j)) # Empty
<1>1. Append(points, j) \in Seq(Points) /\ Append(points, j) # <<>>
  BY AppendProperties
<1>2. bot.start[f] \in Name
  BY BotFacts DEF FlowFound
<1>3. <<>> \in Seq(Instruction)
  BY EmptySeq
<1> DEFINE more == Append(points, j)
<1>4. AtStart(f, more) = [Empty EXCEPT !.flow = f, !.node = bot.start[f], !.jumpPoints = more]
  BY DEF AtStart
<1>5. more \in Seq(Points) /\ more # <<>>
  BY <1>1
<1> HIDE DEF more
<1>6. /\ AtStart(f, more) \in Context /\ AtStart(f, more).flow = f
      /\ AtStart(f, more).node = bot.start[f] /\ AtStart(f, more).queue = <<>>
      /\ AtStart(f, more).jumpPoints = more
  BY <1>2, <1>3, <1>4, <1>5 DEF Empty, Context
<1>7. AtStart(f, more) # Empty
  BY <1>5, <1>6, NotEmpty
<1>. QED BY <1>6, <1>7 DEF more

-----------------------------------------------------------------------------
(* Workflows. *)

OneActive(w) == \A f \in DOMAIN w.of : w.of[f].status = "active" => f = w.current

LEMMA WorkflowSets ==
  ASSUME NEW x \in Workflow, NEW status \in {"none", "active", "pending", "completed"}
  PROVE  [x EXCEPT !.status = status] \in Workflow
BY DEF Workflow

LEMMA NoWorkflowsType == NoWorkflows \in Workflows /\ OneActive(NoWorkflows)
BY DEF NoWorkflows, NoWorkflow, Workflows, Workflow, OneActive, Name

LEMMA DroppedWorkflows ==
  ASSUME NEW w \in Workflows, OneActive(w) \/ bare'
  PROVE  Dropped(w) \in Workflows /\ (OneActive(Dropped(w)) \/ bare')
<1>1. NoWorkflow \in Workflow /\ NoWorkflow.status = "none"
  BY DEF NoWorkflow, Workflow, Name
<1>2. Dropped(w) \in Workflows
  BY <1>1 DEF Dropped, Workflows
<1>3. ASSUME OneActive(w) PROVE OneActive(Dropped(w))
  BY <1>1, <1>3 DEF Dropped, Workflows, OneActive
<1>. QED BY <1>2, <1>3

LEMMA WorkflowsAt ==
  ASSUME NEW w \in Workflows, NEW f \in DOMAIN bot.start,
         NEW o \in [DOMAIN bot.start -> Workflow], NEW v, v = [w EXCEPT !.of = o]
  PROVE  /\ [v EXCEPT !.current = f] \in Workflows
         /\ (\A g \in DOMAIN o : o[g].status = "active" => g = f) => OneActive([v EXCEPT !.current = f])
<1>1. [v EXCEPT !.current = f].of = o /\ [v EXCEPT !.current = f].current = f
  BY DEF Workflows
<1>2. [v EXCEPT !.current = f] \in Workflows
  BY DEF Workflows
<1> DEFINE u == [v EXCEPT !.current = f]
<1> HIDE DEF u
<1>. QED BY <1>1, <1>2 DEF u, OneActive

\* The flow f becomes the current workflow: no other one is active then.
LEMMA ChangedWorkflows ==
  ASSUME bot \in Bots, NEW w \in Workflows, NEW f \in DOMAIN bot.start, w.current # f
  PROVE  /\ [ChangeWorkflow(w, f) EXCEPT !.current = f] \in Workflows
         /\ event.getter /\ OneActive(w) => OneActive([ChangeWorkflow(w, f) EXCEPT !.current = f])
<1> DEFINE here == w.current
           started == [status |-> "active", parent |-> bot.parent[f]]
           called == [status |-> "active", parent |-> here]
<1>1. /\ w.of \in [DOMAIN bot.start -> Workflow] /\ here \in DOMAIN bot.start \cup {""}
      /\ here \in Name /\ "" \notin DOMAIN bot.start
      /\ w = [current |-> here, of |-> w.of]
  <2>1. /\ w.of \in [DOMAIN bot.start -> Workflow] /\ here \in DOMAIN bot.start \cup {""}
        /\ w = [current |-> here, of |-> w.of]
    BY DEF Workflows
  <2>2. "" \notin DOMAIN bot.start /\ here \in Name
    BY <2>1, BotFacts DEF Name
  <2>. QED BY <2>1, <2>2
<1>2. started \in Workflow /\ called \in Workflow
  BY <1>1, BotFacts DEF Workflow
<1>4. \A g \in DOMAIN bot.start : w.of[g] \in Workflow
  BY <1>1
<1>5. CASE ~ Known(w)
  <2> DEFINE o == [w.of EXCEPT ![f] = started]
  <2>1. ChangeWorkflow(w, f) = [w EXCEPT !.of = o]
    BY <1>1, <1>5 DEF ChangeWorkflow
  <2>2. o \in [DOMAIN bot.start -> Workflow]
    BY <1>1, <1>2
  <2>3. ASSUME event.getter, OneActive(w) PROVE \A g \in DOMAIN o : o[g].status = "active" => g = f
    BY <1>1, <1>5, <2>3 DEF OneActive, Known
  <2> HIDE DEF o
  <2>. QED BY <2>1, <2>2, <2>3, WorkflowsAt
<1>6. CASE Known(w) /\ <<f, here>> \in bot.under
  <2>1. here \in DOMAIN bot.start
    BY <1>1, <1>6 DEF Known
  <2> DEFINE pending == [w.of[here] EXCEPT !.status = "pending"]
             o == [w.of EXCEPT ![here] = pending, ![f] = called]
  <2>2. pending \in Workflow /\ pending.status = "pending"
    BY <1>4, <2>1 DEF Workflow
  <2>3. ChangeWorkflow(w, f) = [w EXCEPT !.of = o]
    BY <1>1, <1>6 DEF ChangeWorkflow
  <2> HIDE DEF pending
  <2>4. o \in [DOMAIN bot.start -> Workflow]
    BY <1>1, <1>2, <2>1, <2>2
  <2>5. ASSUME OneActive(w) PROVE \A g \in DOMAIN o : o[g].status = "active" => g = f
    BY <1>1, <2>1, <2>2, <2>5 DEF OneActive
  <2> HIDE DEF o
  <2>. QED BY <2>3, <2>4, <2>5, WorkflowsAt
<1> DEFINE completed == [w.of[here] EXCEPT !.status = "completed"]
           resumed == [w.of[f] EXCEPT !.status = "active"]
<1>7. resumed \in Workflow
  BY <1>4 DEF Workflow
<1>8. ASSUME here \in DOMAIN bot.start
      PROVE  completed \in Workflow /\ completed.status = "completed"
  BY <1>4, <1>8 DEF Workflow
<1>9. CASE Known(w) /\ ~ (<<f, here>> \in bot.under) /\ w.of[here].parent # "" /\ w.of[f].status # "none"
  <2>1. here \in DOMAIN bot.start
    BY <1>1, <1>9 DEF Known
  <2> DEFINE o == [w.of EXCEPT ![here] = completed, ![f] = resumed]
  <2>2. ChangeWorkflow(w, f) = [w EXCEPT !.of = o]
    BY <1>1, <1>9 DEF ChangeWorkflow
  <2> HIDE DEF completed, resumed
  <2>3. o \in [DOMAIN bot.start -> Workflow]
    BY <1>1, <1>7, <1>8, <2>1
  <2>4. ASSUME OneActive(w) PROVE \A g \in DOMAIN o : o[g].status = "active" => g = f
    BY <1>1, <1>8, <2>1, <2>4 DEF OneActive
  <2> HIDE DEF o
  <2>. QED BY <2>2, <2>3, <2>4, WorkflowsAt
<1>10. CASE Known(w) /\ ~ (<<f, here>> \in bot.under) /\ ~ (w.of[here].parent # "" /\ w.of[f].status # "none")
  <2>1. here \in DOMAIN bot.start
    BY <1>1, <1>10 DEF Known
  <2> DEFINE o == [w.of EXCEPT ![here] = completed]
  <2>2. ChangeWorkflow(w, f) = [w EXCEPT !.of = o]
    BY <1>1, <1>10 DEF ChangeWorkflow
  <2> HIDE DEF completed, resumed
  <2>3. o \in [DOMAIN bot.start -> Workflow]
    BY <1>1, <1>8, <2>1
  <2>4. ASSUME OneActive(w) PROVE \A g \in DOMAIN o : o[g].status = "active" => g = f
    BY <1>1, <1>8, <2>1, <2>4 DEF OneActive
  <2> HIDE DEF o
  <2>. QED BY <2>2, <2>3, <2>4, WorkflowsAt
<1>. QED BY <1>5, <1>6, <1>9, <1>10

LEMMA CompletedWorkflows ==
  ASSUME bot \in Bots, NEW w \in Workflows, NEW was \in Workflows
  PROVE  Completed(w, was) \in Workflows /\ (OneActive(w) => OneActive(Completed(w, was)))
<1>1. CASE ~ Known(was)
  BY <1>1 DEF Completed
<1>2. CASE Known(was)
  <2> DEFINE here == was.current
             completed == [w.of[here] EXCEPT !.status = "completed"]
             o == [w.of EXCEPT ![here] = completed]
  <2>1. /\ here \in DOMAIN bot.start /\ w.of \in [DOMAIN bot.start -> Workflow]
        /\ w.current \in DOMAIN bot.start \cup {""}
    BY <1>2 DEF Known, Workflows
  <2>2. w.of[here] \in Workflow
    BY <2>1
  <2>3. completed \in Workflow /\ completed.status = "completed"
    BY <2>2 DEF Workflow
  <2>4. Completed(w, was) = [w EXCEPT !.of = o]
    BY <1>2 DEF Completed
  <2> HIDE DEF here, completed
  <2>5. o \in [DOMAIN bot.start -> Workflow] /\ \A g \in DOMAIN bot.start : o[g].status = "active" => w.of[g].status = "active"
    BY <2>1, <2>3
  <2>6. [w EXCEPT !.of = o] \in Workflows /\ [w EXCEPT !.of = o].current = w.current /\ [w EXCEPT !.of = o].of = o
    <3> HIDE DEF o
    <3>. QED BY <2>1, <2>5 DEF Workflows
  <2>7. ASSUME OneActive(w) PROVE OneActive([w EXCEPT !.of = o])
    <3>1. DOMAIN o = DOMAIN bot.start /\ DOMAIN w.of = DOMAIN bot.start
      BY <2>1
    <3> HIDE DEF o
    <3>. QED BY <2>5, <2>6, <2>7, <3>1 DEF OneActive
  <2>. QED BY <2>4, <2>6, <2>7
<1>. QED BY <1>1, <1>2

\* Entering a node leaves one workflow active, if the event knows the current one.
LEMMA EnteredWorkflows ==
  ASSUME bot \in Bots, workflows \in Workflows, AtNode, EntersBare, bare \in BOOLEAN,
         bare \/ OneActive(workflows), event.getter \in BOOLEAN
  PROVE  /\ EnterWorkflow \in Workflows /\ (bare' \/ OneActive(EnterWorkflow))
         /\ bare' \in BOOLEAN /\ (bare => bare')
<1>1. bare' \in BOOLEAN /\ (bare => bare') /\ (~ event.getter /\ workflows.current # ctx.flow => bare')
  BY DEF EntersBare
<1>2. CASE ~ bot.ndu \/ event.kind = "timeout"
  BY <1>1, <1>2 DEF EnterWorkflow
<1>3. CASE ~ (~ bot.ndu \/ event.kind = "timeout")
  <2> DEFINE f == ctx.flow
             w == IF workflows.current = f THEN workflows
                  ELSE [ChangeWorkflow(workflows, f) EXCEPT !.current = f]
  <2>1. f \in DOMAIN bot.start
    <3>1. <<ctx.flow, ctx.node>> \in DOMAIN bot.node
      BY DEF AtNode, Found
    <3>2. <<ctx.flow, ctx.node>>[1] \in DOMAIN bot.start
      BY <3>1, BotFacts
    <3>. QED BY <3>2
  <2>2. w \in Workflows /\ (bare' \/ OneActive(w))
    BY <1>1, <2>1, ChangedWorkflows
  <2>3. EnterWorkflow = IF bot.node[<<f, ctx.node>>].ends THEN Completed(w, workflows) ELSE w
    BY <1>3 DEF EnterWorkflow
  <2> HIDE DEF w
  <2>4. Completed(w, workflows) \in Workflows /\ (bare' \/ OneActive(Completed(w, workflows)))
    BY <2>2, CompletedWorkflows
  <2>. QED BY <1>1, <2>2, <2>3, <2>4
<1>. QED BY <1>2, <1>3

-----------------------------------------------------------------------------
(* The inductive invariant.                                                  *)

\* Nodes are entered a bounded number of times, and not at all by an event that
\* has yet to initialize its context.
VisitsInv ==
  /\ EntriesBounded
  /\ pc \in {"idle", "decide"} \/ (pc = "enter" /\ ctx = Empty) => visits = NoVisits

\* The node of the context exists where its instructions run, and there is no
\* queue where a transition is taken; only an error comes from anywhere.
StandsInv ==
  /\ pc = "run" \/ (pc = "transition" /\ dest.kind # "flow") => Found(ctx.flow, ctx.node)
  /\ pc = "transition" /\ dest.kind # "flow" => ctx.queue = <<>>
  /\ pc = "decide" => ctx = stored

\* From a context that matched, the queue is that of the node.
FollowsInv ==
  Matches(stored) =>
    /\ pc = "enter" /\ ~ ctx.jumped => Matches(ctx)
    /\ pc = "run" => instr.of = <<ctx.flow, ctx.node>> /\ MadeFor(rest, ctx.flow, ctx.node)

\* What is kept between the events has one active workflow, too.
WorkflowsInv == bare \/ (OneActive(workflows) /\ OneActive(kept))

\* Back at a node, its jump point says so until a transition is taken.
ReturnInv ==
  /\ pc \in {"idle", "decide"} => cameBack = <<>>
  /\ cameBack # <<>> /\ pc \in {"enter", "run"} => ExitingSubflow
  /\ cameBack # <<>> /\ pc = "enter" => ctx.hasQueue

DialogInv ==
  /\ TypeOK /\ VisitsInv /\ StandsInv /\ StoredContextRunnable
  /\ FollowsInv /\ WorkflowsInv /\ ReturnInv

LEMMA Types ==
  ASSUME DialogInv
  PROVE  /\ bot \in Bots /\ stored \in Context /\ ctx \in Context
         /\ kept \in Workflows /\ workflows \in Workflows
         /\ event \in [kind : {"none", "message", "timeout"}, getter : BOOLEAN]
         /\ stranded \in BOOLEAN /\ bare \in BOOLEAN
         /\ pc \in {"idle", "decide", "enter", "run", "transition"}
         /\ instr \in Instruction /\ rest \in Seq(Instruction) /\ dest \in Destination
         /\ catchers \in Nat /\ visits \in [DOMAIN bot.node -> Nat]
         /\ jumps \in 0..MaxJumps /\ events \in 0..MaxEvents
         /\ MaxEntries \in Nat \ {0} /\ MaxJumps \in Nat /\ MaxEvents \in Nat
BY EngineAssumption DEF DialogInv, TypeOK, EngineAssumption

\* What is constant while the bot is.
LEMMA SameBot ==
  ASSUME bot' = bot
  PROVE  /\ Workflows' = Workflows /\ NoWorkflows' = NoWorkflows /\ NoVisits' = NoVisits
         /\ \A f, n : Found(f, n)' <=> Found(f, n)
BY DEF Workflows, NoWorkflows, NoWorkflow, NoVisits, Found

LEMMA RunnableIsFound ==
  ASSUME NEW c \in Context, Found(c.flow, c.node), bot \in Bots
  PROVE  c # Empty
<1>1. <<c.flow, c.node>>[1] \in DOMAIN bot.start /\ "" \notin DOMAIN bot.start
  BY BotFacts DEF Found
<1>. QED BY <1>1, EmptyContext

-----------------------------------------------------------------------------
(* The end of an event, and an exception that a transition catches. *)

Sound(c) == c \in Context /\ (c = Empty \/ Found(c.flow, c.node))

\* An event ends and leaves a sound session behind.
Ends ==
  /\ Over
  /\ stored' \in Context /\ stranded' \in BOOLEAN /\ (stranded' \/ Sound(stored'))
  /\ kept' \in Workflows /\ bare' \in BOOLEAN /\ (bare' \/ OneActive(kept'))

\* The processing goes on at the error flow.
Errs ==
  /\ pc' = "transition" /\ dest' = ErrorFlow
  /\ ctx' \in Context /\ workflows' \in Workflows /\ catchers' \in Nat
  /\ bare' \in BOOLEAN /\ (bare => bare') /\ (bare' \/ OneActive(workflows'))
  /\ UNCHANGED <<session, instr, rest, visits, jumps, cameBack>>

LEMMA NoInstrType == NoInstr \in Instruction
BY DestinationsKnown DEF NoInstr, Instr, Instruction, Name

LEMMA EndsKeeps ==
  ASSUME DialogInv, Ends
  PROVE  DialogInv'
<1>1. /\ pc' = "idle" /\ event' = NoEvent /\ ctx' = Empty /\ workflows' = NoWorkflows
      /\ instr' = NoInstr /\ rest' = <<>> /\ dest' = NoDest /\ catchers' = 0
      /\ visits' = NoVisits /\ jumps' = 0 /\ cameBack' = <<>> /\ bot' = bot /\ events' = events
  BY DEF Ends, Over
<1>2. TypeOK'
  <2>1. NoEvent \in [kind : {"none", "message", "timeout"}, getter : BOOLEAN]
    BY DEF NoEvent
  <2>2. NoVisits \in [DOMAIN bot.node -> Nat]
    BY DEF NoVisits
  <2>3. <<>> \in Seq(Instruction)
    BY EmptySeq
  <2>4. workflows' \in Workflows' /\ kept' \in Workflows' /\ bot' \in Bots
    BY <1>1, Types, NoWorkflowsType, SameBot DEF Ends
  <2>5. /\ event' \in [kind : {"none", "message", "timeout"}, getter : BOOLEAN]
        /\ visits' \in [DOMAIN bot'.node -> Nat] /\ rest' \in Seq(Instruction)
    BY ONLY <1>1, <2>1, <2>2, <2>3
  <2>6. /\ ctx' \in Context /\ instr' \in Instruction /\ dest' \in Destination
        /\ stored' \in Context /\ stranded' \in BOOLEAN /\ bare' \in BOOLEAN
    BY <1>1, EmptyContext, NoInstrType, DestinationsKnown DEF Ends
  <2>7. /\ pc' \in {"idle", "decide", "enter", "run", "transition"} /\ pc' # "transition"
        /\ catchers' \in Nat /\ jumps' \in 0..MaxJumps /\ events' \in 0..MaxEvents
    BY <1>1, Types
  <2>. QED BY <2>4, <2>5, <2>6, <2>7 DEF TypeOK
<1>3. VisitsInv'
  <2>1. \A x \in DOMAIN NoVisits : NoVisits[x] <= MaxEntries + 0
    BY Types DEF NoVisits
  <2>. QED BY <1>1, <2>1, SameBot DEF VisitsInv, EntriesBounded
<1>4. StandsInv' /\ FollowsInv' /\ ReturnInv'
  BY <1>1 DEF StandsInv, FollowsInv, ReturnInv
<1>5. StoredContextRunnable'
  BY <1>1, SameBot DEF Ends, Sound, StoredContextRunnable
<1>6. WorkflowsInv'
  BY <1>1, NoWorkflowsType DEF Ends, WorkflowsInv
<1>. QED BY <1>2, <1>3, <1>4, <1>5, <1>6 DEF DialogInv

LEMMA ErrsKeeps ==
  ASSUME DialogInv, Errs
  PROVE  DialogInv'
<1>1. /\ pc' = "transition" /\ dest' = ErrorFlow /\ dest'.kind = "flow" /\ bot' = bot
      /\ stored' = stored /\ kept' = kept /\ events' = events /\ event' = event
      /\ stranded' = stranded /\ instr' = instr /\ rest' = rest /\ visits' = visits
      /\ jumps' = jumps /\ cameBack' = cameBack
  BY DestinationsKnown DEF Errs, session
<1>2. TypeOK'
  BY <1>1, Types, DestinationsKnown, SameBot DEF Errs, TypeOK
<1>3. VisitsInv'
  BY <1>1 DEF DialogInv, VisitsInv, EntriesBounded
<1>4. StandsInv' /\ FollowsInv' /\ ReturnInv'
  BY <1>1 DEF StandsInv, FollowsInv, ReturnInv
<1>5. StoredContextRunnable'
  BY <1>1, SameBot DEF DialogInv, StoredContextRunnable
<1>6. WorkflowsInv'
  BY <1>1 DEF DialogInv, Errs, WorkflowsInv
<1>. QED BY <1>2, <1>3, <1>4, <1>5, <1>6 DEF DialogInv

\* Every promise resolves.
LEMMA FinishEnds ==
  ASSUME DialogInv, NEW c, NEW w, Sound(c), w \in Workflows, bare' \in BOOLEAN, (bare => bare'),
         bare' \/ OneActive(w), FinishWith(c, w)
  PROVE  Ends
<1>1. Dropped(w) \in Workflows /\ (OneActive(Dropped(w)) \/ bare')
  BY DroppedWorkflows
<1>2. CASE stored' = c /\ kept' = Dropped(w) /\ stranded' = FALSE
  BY <1>1, <1>2 DEF FinishWith, Ends, Sound
<1>3. stranded \/ Sound(stored)
  BY Types DEF DialogInv, StoredContextRunnable, Sound
<1>4. kept \in Workflows /\ (bare' \/ OneActive(kept)) /\ stored \in Context /\ stranded \in BOOLEAN
  BY Types DEF DialogInv, WorkflowsInv
<1>5. CASE UNCHANGED <<stored, kept, stranded>>
  BY <1>3, <1>4, <1>5 DEF FinishWith, Ends
<1>6. CASE stored' \in {Empty, stored} /\ UNCHANGED <<kept, stranded>>
  BY <1>3, <1>4, <1>6, EmptyContext DEF FinishWith, Ends, Sound
<1>7. \/ stored' = c /\ kept' = Dropped(w) /\ stranded' = FALSE
      \/ UNCHANGED <<stored, kept, stranded>>
      \/ stored' \in {Empty, stored} /\ UNCHANGED <<kept, stranded>>
  BY DEF FinishWith
<1>. QED BY <1>2, <1>5, <1>6, <1>7

\* An exception ends the event, or is caught.
LEMMA FailEndsOrErrs ==
  ASSUME DialogInv, NEW c \in Context, NEW w \in Workflows, bare' \in BOOLEAN, (bare => bare'),
         bare' \/ OneActive(w), FailWith(c, w)
  PROVE  Ends \/ Errs
<1>1. kept \in Workflows /\ (bare' \/ OneActive(kept)) /\ stored \in Context /\ stranded \in BOOLEAN
      /\ (stranded \/ Sound(stored)) /\ catchers \in Nat
  BY Types DEF DialogInv, WorkflowsInv, StoredContextRunnable, Sound
<1>2. CASE Over /\ Abandoned(c) /\ UNCHANGED kept
  <2>1. \/ stored' = Empty /\ UNCHANGED stranded
        \/ UNCHANGED <<stored, stranded>>
        \/ stored' = c /\ stranded' = TRUE
    BY <1>2 DEF Abandoned
  <2>. QED BY <1>1, <1>2, <2>1, EmptyContext DEF Ends, Sound
<1>3. CASE /\ catchers > 0 /\ ctx' = c /\ workflows' = w /\ pc' = "transition" /\ dest' = ErrorFlow
           /\ catchers' = catchers - 1 /\ UNCHANGED <<session, instr, rest, visits, jumps, cameBack>>
  BY <1>1, <1>3 DEF Errs
<1>. QED BY <1>2, <1>3 DEF FailWith

-----------------------------------------------------------------------------
(* The steps of the processing of an event. *)

LEMMA MoveTypes ==
  ASSUME DialogInv, UNCHANGED session, ctx' \in Context, workflows' \in Workflows,
         bare' \in BOOLEAN, (bare => bare'), bare' \/ OneActive(workflows'),
         pc' \in {"enter", "run", "transition"}, pc' = "transition" => dest'.kind # "none",
         instr' \in Instruction, rest' \in Seq(Instruction), dest' \in Destination,
         catchers' \in Nat, visits' \in [DOMAIN bot.node -> Nat], jumps' \in 0..MaxJumps
  PROVE  TypeOK' /\ StoredContextRunnable' /\ WorkflowsInv'
<1>1. /\ bot' = bot /\ stored' = stored /\ kept' = kept /\ events' = events /\ event' = event
      /\ stranded' = stranded
  BY DEF session
<1>2. TypeOK'
  <2>1. kept' \in Workflows' /\ workflows' \in Workflows' /\ bot' \in Bots /\ stored' \in Context
        /\ stranded' \in BOOLEAN /\ events' \in 0..MaxEvents
    BY <1>1, Types, SameBot
  <2>2. /\ event' \in [kind : {"none", "message", "timeout"}, getter : BOOLEAN]
        /\ visits' \in [DOMAIN bot'.node -> Nat]
    BY <1>1, Types
  <2>. QED BY <2>1, <2>2 DEF TypeOK
<1>3. StoredContextRunnable'
  BY <1>1, SameBot DEF DialogInv, StoredContextRunnable
<1>4. WorkflowsInv'
  BY <1>1 DEF DialogInv, WorkflowsInv
<1>. QED BY <1>2, <1>3, <1>4

\* A node is entered by a transition, which a loop would have ended, by a jump,
\* which is counted, or before any other.
LEMMA NodeEntered ==
  ASSUME DialogInv, NEW x \in DOMAIN bot.node, bot' = bot,
         visits' = [visits EXCEPT ![x] = @ + 1],
         \/ jumps' = jumps /\ ~ LoopDetected
         \/ jumps' = jumps + 1
         \/ jumps' = jumps /\ visits = NoVisits
  PROVE  visits' \in [DOMAIN bot.node -> Nat] /\ EntriesBounded'
<1>1. /\ visits \in [DOMAIN bot.node -> Nat] /\ MaxEntries \in Nat \ {0} /\ jumps \in Nat
      /\ \A y \in DOMAIN bot.node : visits[y] \in Nat /\ visits[y] <= MaxEntries + jumps
      /\ DOMAIN visits = DOMAIN bot.node
  BY Types DEF DialogInv, VisitsInv, EntriesBounded
<1>2. /\ visits' \in [DOMAIN bot.node -> Nat] /\ DOMAIN visits' = DOMAIN bot.node
      /\ \A y \in DOMAIN bot.node : visits'[y] = IF y = x THEN visits[x] + 1 ELSE visits[y]
  BY <1>1
<1>3. CASE jumps' = jumps /\ ~ LoopDetected
  <2>1. ~ (visits[x] >= MaxEntries)
    BY <1>1, <1>3 DEF LoopDetected
  <2>. QED BY <1>1, <1>2, <1>3, <2>1 DEF EntriesBounded
<1>4. CASE jumps' = jumps + 1
  BY <1>1, <1>2, <1>4 DEF EntriesBounded
<1>5. CASE jumps' = jumps /\ visits = NoVisits
  <2>1. visits[x] = 0
    BY <1>5 DEF NoVisits
  <2>. QED BY <1>1, <1>2, <1>5, <2>1 DEF EntriesBounded
<1>. QED BY <1>2, <1>3, <1>4, <1>5

LEMMA NamesOfNode ==
  ASSUME bot \in Bots, NEW x \in DOMAIN bot.node
  PROVE  /\ x[1] \in Name /\ x[2] \in Name /\ x = <<x[1], x[2]>> /\ Found(x[1], x[2])
         /\ x[1] \in DOMAIN bot.start
BY BotFacts DEF Found

LEMMA ReceiveKeeps ==
  ASSUME DialogInv, Receive
  PROVE  DialogInv'
<1>1. /\ pc = "idle" /\ pc' = "decide" /\ events < MaxEvents /\ events' = events + 1
      /\ ctx' = stored /\ workflows' = kept
      /\ bot' = bot /\ stored' = stored /\ kept' = kept /\ stranded' = stranded /\ bare' = bare
      /\ instr' = instr /\ rest' = rest /\ dest' = dest /\ catchers' = catchers
      /\ visits' = visits /\ jumps' = jumps /\ cameBack' = cameBack
  BY DEF Receive, step
<1>2. event' \in [kind : {"none", "message", "timeout"}, getter : BOOLEAN]
  <2>1. PICK getter \in {TRUE, ~ bot.ndu} : event' = [kind |-> "message", getter |-> getter]
    BY DEF Receive
  <2>2. getter \in BOOLEAN
    BY <2>1
  <2>. QED BY <2>1, <2>2
<1>3. TypeOK'
  <2>1. kept' \in Workflows' /\ workflows' \in Workflows' /\ bot' \in Bots /\ stored' \in Context
        /\ ctx' \in Context /\ visits' \in [DOMAIN bot'.node -> Nat]
    BY <1>1, Types, SameBot
  <2>2. /\ instr' \in Instruction /\ rest' \in Seq(Instruction) /\ dest' \in Destination
        /\ stranded' \in BOOLEAN /\ bare' \in BOOLEAN /\ catchers' \in Nat
        /\ jumps' \in 0..MaxJumps /\ events' \in 0..MaxEvents
    BY <1>1, Types
  <2>. QED BY <1>1, <1>2, <2>1, <2>2 DEF TypeOK
<1>4. VisitsInv' /\ StandsInv' /\ FollowsInv' /\ WorkflowsInv' /\ ReturnInv'
  BY <1>1, SameBot DEF DialogInv, VisitsInv, EntriesBounded, StandsInv, FollowsInv, WorkflowsInv, ReturnInv
<1>5. StoredContextRunnable'
  BY <1>1, SameBot DEF DialogInv, StoredContextRunnable
<1>. QED BY <1>3, <1>4, <1>5 DEF DialogInv

LEMMA DecideKeeps ==
  ASSUME DialogInv, Decide
  PROVE  DialogInv'
<1>1. pc = "decide" /\ ctx = stored /\ visits = NoVisits /\ cameBack = <<>> /\ bare' = bare
  BY DEF Decide, DialogInv, StandsInv, VisitsInv, ReturnInv
<1>2. PICK x \in DOMAIN bot.node \cup {<<>>} :
        LET jumps_to == IF x = <<>> THEN ctx ELSE Jumped(ctx, x[1], x[2])
        IN  \/ /\ pc' = "enter"
               /\ ctx' = jumps_to
               /\ visits' = IF x = <<>> THEN visits ELSE [visits EXCEPT ![x] = 1]
               /\ UNCHANGED <<session, workflows, step, catchers, jumps, cameBack>>
            \/ /\ Over
               /\ stored' \in {stored, jumps_to}
               /\ UNCHANGED <<kept, stranded>>
  BY DEF Decide
<1> DEFINE jumps_to == IF x = <<>> THEN ctx ELSE Jumped(ctx, x[1], x[2])
<1>3. x # <<>> => /\ x \in DOMAIN bot.node /\ x[1] \in Name /\ x[2] \in Name /\ Found(x[1], x[2])
  BY <1>2, Types, NamesOfNode
<1>4. /\ jumps_to \in Context /\ (stranded \/ Sound(jumps_to))
      /\ x # <<>> => jumps_to.jumped = TRUE /\ jumps_to # Empty
  <2>1. CASE x = <<>>
    BY <1>1, <2>1, Types DEF DialogInv, StoredContextRunnable, Sound
  <2>2. CASE x # <<>>
    <3>1. jumps_to = Jumped(ctx, x[1], x[2])
      BY <2>2
    <3> HIDE DEF jumps_to
    <3>2. jumps_to \in Context /\ jumps_to.flow = x[1] /\ jumps_to.node = x[2]
         /\ jumps_to.jumped = TRUE /\ jumps_to # Empty
      <4>1. x[1] \in Name /\ x[2] \in Name /\ ctx \in Context
        BY <1>3, <2>2, Types
      <4>2. PICK c \in Context, f \in Name, n \in Name : c = ctx /\ f = x[1] /\ n = x[2]
        BY <4>1
      <4>3. /\ Jumped(c, f, n) \in Context /\ Jumped(c, f, n) # Empty
            /\ Jumped(c, f, n).flow = f /\ Jumped(c, f, n).node = n
            /\ Jumped(c, f, n).jumped = TRUE
        BY JumpedContext
      <4>4. jumps_to = Jumped(c, f, n)
        BY <3>1, <4>2 DEF Jumped
      <4>. QED BY ONLY <4>2, <4>3, <4>4
    <3>. QED BY <1>3, <2>2, <3>2 DEF Sound
  <2>. QED BY <2>1, <2>2
<1>5. CASE Over /\ stored' \in {stored, jumps_to} /\ UNCHANGED <<kept, stranded>>
  <2>1. stored \in Context /\ (stranded \/ Sound(stored)) /\ kept \in Workflows /\ stranded \in BOOLEAN
        /\ bare \in BOOLEAN /\ (bare \/ OneActive(kept))
    BY Types DEF DialogInv, StoredContextRunnable, Sound, WorkflowsInv
  <2> HIDE DEF jumps_to
  <2>2. Ends
    BY <1>1, <1>4, <1>5, <2>1 DEF Ends
  <2>. QED BY <2>2, EndsKeeps
<1>6. CASE /\ pc' = "enter" /\ ctx' = jumps_to
           /\ visits' = IF x = <<>> THEN visits ELSE [visits EXCEPT ![x] = 1]
           /\ UNCHANGED <<session, workflows, step, catchers, jumps, cameBack>>
  <2>1. /\ bot' = bot /\ stored' = stored /\ jumps' = jumps /\ cameBack' = <<>> /\ workflows' = workflows
        /\ instr' = instr /\ rest' = rest /\ dest' = dest /\ catchers' = catchers /\ UNCHANGED session
    BY <1>1, <1>6 DEF session, step
  <2>2. visits' \in [DOMAIN bot.node -> Nat] /\ EntriesBounded'
    <3>1. /\ visits \in [DOMAIN bot.node -> Nat] /\ MaxEntries \in Nat \ {0} /\ jumps \in Nat
          /\ \A y \in DOMAIN bot.node : visits[y] = 0
      BY <1>1, Types DEF NoVisits
    <3>2. CASE x = <<>>
      BY <1>6, <2>1, <3>1, <3>2 DEF EntriesBounded
    <3>3. CASE x # <<>>
      <4>1. visits' = [visits EXCEPT ![x] = 1] /\ x \in DOMAIN bot.node
        BY <1>3, <1>6, <3>3
      <4>2. /\ visits' \in [DOMAIN bot.node -> Nat] /\ DOMAIN visits' = DOMAIN bot.node
            /\ \A y \in DOMAIN bot.node : visits'[y] = IF y = x THEN 1 ELSE visits[y]
        BY ONLY <3>1, <4>1
      <4>. QED BY <2>1, <3>1, <4>2 DEF EntriesBounded
    <3>. QED BY <3>2, <3>3
  <2>3. VisitsInv'
    <3>1. pc' = "enter" /\ (ctx' = Empty => visits' = NoVisits')
      BY <1>1, <1>4, <1>6, <2>1, SameBot
    <3>. QED BY <2>2, <3>1 DEF VisitsInv
  <2> HIDE DEF jumps_to
  <2>4. TypeOK' /\ StoredContextRunnable' /\ WorkflowsInv'
    BY <1>1, <1>4, <1>6, <2>1, <2>2, MoveTypes, Types DEF DialogInv, WorkflowsInv
  <2>5. StandsInv' /\ ReturnInv'
    BY <1>6, <2>1 DEF StandsInv, ReturnInv
  <2>6. FollowsInv'
    <3>1. CASE x = <<>>
      <4>1. ctx' = stored'
        BY <1>1, <1>6, <2>1, <3>1 DEF jumps_to
      <4>. QED BY <1>6, <4>1 DEF FollowsInv
    <3>2. CASE x # <<>>
      BY <1>4, <1>6, <3>2 DEF FollowsInv
    <3>. QED BY <3>1, <3>2
  <2>. QED BY <2>3, <2>4, <2>5, <2>6 DEF DialogInv
<1>. QED BY <1>2, <1>5, <1>6

LEMMA TimeoutNodeFound == TimeoutNode \in DOMAIN bot.node \cup {<<>>}
<1> DEFINE own == {<<stored.flow, "timeout">>} \cap DOMAIN bot.node
           named == {<<stored.flow, bot.timeout[stored.flow]>>} \cap DOMAIN bot.node
           last == {x \in DOMAIN bot.node : x[1] = TimeoutFlow /\ x[2] = bot.start[TimeoutFlow]}
           found == IF own # {} THEN own ELSE IF named # {} THEN named
                    ELSE IF last # {} THEN last ELSE {<<>>}
<1>1. own \subseteq DOMAIN bot.node /\ named \subseteq DOMAIN bot.node /\ last \subseteq DOMAIN bot.node
  OBVIOUS
<1>2. TimeoutNode = CHOOSE x \in found : TRUE
  BY DEF TimeoutNode
<1> HIDE DEF own, named, last
<1>3. found # {} /\ found \subseteq DOMAIN bot.node \cup {<<>>}
  BY <1>1
<1> HIDE DEF found
<1>. QED BY <1>2, <1>3

LEMMA TimeoutKeeps ==
  ASSUME DialogInv, Timeout
  PROVE  DialogInv'
<1> DEFINE x == IF stored.flow \in DOMAIN bot.start THEN TimeoutNode ELSE <<>>
<1>1. x \in DOMAIN bot.node \cup {<<>>}
  BY TimeoutNodeFound
<1>2. /\ pc = "idle" /\ events < MaxEvents /\ events' = events + 1
      /\ bot' = bot /\ kept' = kept /\ stranded' = stranded /\ bare' = bare
      /\ instr' = instr /\ rest' = rest /\ dest' = dest /\ catchers' = catchers
      /\ visits' = visits /\ jumps' = jumps /\ cameBack' = cameBack
      /\ IF x = <<>> THEN stored' = Empty /\ UNCHANGED <<event, ctx, workflows, pc>>
         ELSE /\ event' = [kind |-> "timeout", getter |-> TRUE]
              /\ ctx' = Jumped(stored, x[1], x[2])
              /\ workflows' = kept
              /\ pc' = "enter"
              /\ UNCHANGED stored
  BY DEF Timeout, step
<1> HIDE DEF x
<1>3. x # <<>> => ctx' \in Context /\ ctx' # Empty /\ ctx'.jumped = TRUE
  <2>1. SUFFICES ASSUME x # <<>> PROVE ctx' \in Context /\ ctx' # Empty /\ ctx'.jumped = TRUE
    OBVIOUS
  <2>2. x \in DOMAIN bot.node
    BY <1>1, <2>1
  <2>3. PICK f \in Name, n \in Name : f = x[1] /\ n = x[2]
    BY <2>2, Types, NamesOfNode
  <2>4. ctx' = Jumped(stored, f, n)
    BY <1>2, <2>1, <2>3 DEF Jumped
  <2>5. stored \in Context
    BY Types
  <2>. QED BY ONLY <2>4, <2>5, JumpedContext
<1>4. TypeOK'
  <2>1. kept' \in Workflows' /\ workflows' \in Workflows' /\ bot' \in Bots /\ stored' \in Context
        /\ ctx' \in Context /\ visits' \in [DOMAIN bot'.node -> Nat]
    BY <1>2, <1>3, Types, SameBot, EmptyContext
  <2>2. event' \in [kind : {"none", "message", "timeout"}, getter : BOOLEAN]
    <3>1. event' = event \/ event' = [kind |-> "timeout", getter |-> TRUE]
      BY <1>2
    <3>2. event \in [kind : {"none", "message", "timeout"}, getter : BOOLEAN]
      BY Types
    <3>3. [kind |-> "timeout", getter |-> TRUE] \in [kind : {"none", "message", "timeout"}, getter : BOOLEAN]
      OBVIOUS
    <3>. QED BY ONLY <3>1, <3>2, <3>3, Zenon
  <2>3. /\ instr' \in Instruction /\ rest' \in Seq(Instruction) /\ dest' \in Destination
        /\ stranded' \in BOOLEAN /\ bare' \in BOOLEAN /\ catchers' \in Nat
        /\ jumps' \in 0..MaxJumps /\ events' \in 0..MaxEvents
    BY <1>2, Types
  <2>4. pc' \in {"idle", "enter"}
    BY <1>2
  <2>. QED BY <2>1, <2>2, <2>3, <2>4 DEF TypeOK
<1>5. VisitsInv'
  <2>1. visits = NoVisits /\ EntriesBounded
    BY <1>2 DEF DialogInv, VisitsInv
  <2>. QED BY <1>2, <2>1, SameBot DEF VisitsInv, EntriesBounded
<1>6. StandsInv' /\ WorkflowsInv'
  BY <1>2 DEF DialogInv, StandsInv, WorkflowsInv
<1>7. FollowsInv'
  BY <1>2, <1>3 DEF FollowsInv
<1>8. ReturnInv'
  BY <1>2 DEF DialogInv, ReturnInv
<1>9. StoredContextRunnable'
  BY <1>2, SameBot DEF DialogInv, StoredContextRunnable
<1>. QED BY <1>4, <1>5, <1>6, <1>7, <1>8, <1>9 DEF DialogInv

LEMMA InitializeContextKeeps ==
  ASSUME DialogInv, InitializeContext
  PROVE  DialogInv'
<1> DEFINE f == DefaultFlow
           n == bot.start[f]
<1>1. /\ pc = "enter" /\ pc' = "enter" /\ ctx = Empty /\ FlowFound(f)
      /\ ctx' = [Empty EXCEPT !.flow = f, !.node = n]
      /\ visits' = [visits EXCEPT ![<<f, n>>] = @ + 1]
      /\ UNCHANGED session /\ bot' = bot /\ stored' = stored
      /\ workflows' = workflows /\ bare' = bare /\ instr' = instr /\ rest' = rest /\ dest' = dest
      /\ catchers' = catchers /\ jumps' = jumps /\ cameBack' = cameBack
  BY DEF InitializeContext, session, step
<1> HIDE DEF f
<1>2. <<f, n>> \in DOMAIN bot.node /\ f \in Name /\ n \in Name /\ f # ""
  <2>1. <<f, n>> \in DOMAIN bot.node /\ f \in DOMAIN bot.start
    BY <1>1 DEF FlowFound, Found
  <2>. QED BY <2>1, Types, BotFacts
<1> HIDE DEF n
<1>3. ctx' \in Context /\ ctx'.flow = f /\ ctx'.queue = <<>>
  <2>1. <<>> \in Seq(Instruction) /\ <<>> \in Seq(Points)
    BY EmptySeq
  <2>. QED BY <1>1, <1>2, <2>1 DEF Empty, Context
<1>4. ctx' # Empty
  BY <1>2, <1>3, EmptyContext
<1>5. visits = NoVisits
  BY <1>1 DEF DialogInv, VisitsInv
<1>6. visits' \in [DOMAIN bot.node -> Nat] /\ EntriesBounded'
  BY <1>1, <1>2, <1>5, NodeEntered
<1>7. TypeOK' /\ StoredContextRunnable' /\ WorkflowsInv'
  BY <1>1, <1>3, <1>6, MoveTypes, Types DEF DialogInv, WorkflowsInv
<1>8. VisitsInv' /\ StandsInv'
  BY <1>1, <1>4, <1>6 DEF VisitsInv, StandsInv
<1>9. FollowsInv'
  <2>1. ctx'.queue = <<>>
    BY <1>3
  <2>. QED BY <1>1, <2>1 DEF FollowsInv, Matches
<1>10. ReturnInv'
  <2>1. cameBack = <<>>
    BY <1>1, EmptyContext DEF DialogInv, ReturnInv
  <2>. QED BY <1>1, <2>1 DEF ReturnInv
<1>. QED BY <1>7, <1>8, <1>9, <1>10 DEF DialogInv

LEMMA EnterFailsKeeps ==
  ASSUME DialogInv, EnterFails
  PROVE  DialogInv'
<1>1. FailWith(ctx, workflows) /\ bare' = bare
  BY DEF EnterFails, Fail
<1>2. ctx \in Context /\ workflows \in Workflows /\ bare \in BOOLEAN /\ (bare \/ OneActive(workflows))
  BY Types DEF DialogInv, WorkflowsInv
<1>3. Ends \/ Errs
  BY <1>1, <1>2, FailEndsOrErrs
<1>. QED BY <1>3, EndsKeeps, ErrsKeeps

LEMMA GoToSubflowKeeps ==
  ASSUME DialogInv, GoToSubflow
  PROVE  DialogInv'
<1> DEFINE f == bot.node[<<ctx.flow, ctx.node>>].calls
<1>1. /\ AtNode /\ EntersBare /\ ~ ExitingSubflow /\ bot \in Bots /\ ctx \in Context
      /\ workflows \in Workflows /\ event.getter \in BOOLEAN
      /\ bare \in BOOLEAN /\ (bare \/ OneActive(workflows))
  BY Types DEF GoToSubflow, DialogInv, WorkflowsInv
<1>2. /\ EnterWorkflow \in Workflows /\ (bare' \/ OneActive(EnterWorkflow))
      /\ bare' \in BOOLEAN /\ (bare => bare')
  BY <1>1, EnteredWorkflows
<1>3. CASE FailWith(ctx, EnterWorkflow)
  <2>1. Ends \/ Errs
    BY <1>1, <1>2, <1>3, FailEndsOrErrs
  <2>. QED BY <2>1, EndsKeeps, ErrsKeeps
<1>4. CASE /\ FlowFound(f)
           /\ ctx' = AtStart(f, Append(ctx.jumpPoints, JumpPoint))
           /\ workflows' = EnterWorkflow
           /\ UNCHANGED <<session, pc, step, catchers, visits, jumps, cameBack>>
  <2>1. /\ bot' = bot /\ stored' = stored /\ jumps' = jumps /\ cameBack' = cameBack
        /\ instr' = instr /\ rest' = rest /\ dest' = dest /\ catchers' = catchers /\ UNCHANGED session
        /\ pc = "enter" /\ pc' = "enter" /\ visits' = visits
    BY <1>1, <1>4 DEF session, step, AtNode
  <2>2. f \in Name
    <3>1. <<ctx.flow, ctx.node>> \in DOMAIN bot.node
      BY <1>1 DEF AtNode, Found
    <3>2. bot.node[<<ctx.flow, ctx.node>>] \in FlowNode
      BY <1>1, <3>1, BotFacts
    <3>. QED BY <3>2, NodeFacts
  <2>3. ctx.jumpPoints \in Seq(Points) /\ JumpPoint \in Points
    BY <1>1, ContextFields, JumpPointType
  <2> HIDE DEF f
  <2>4. ctx' \in Context /\ ctx' # Empty /\ ctx'.queue = <<>>
    BY <1>1, <1>4, <2>2, <2>3, AtStartContext
  <2>5. TypeOK' /\ StoredContextRunnable' /\ WorkflowsInv'
    BY <1>2, <1>4, <2>1, <2>4, MoveTypes, Types
  <2>6. VisitsInv' /\ StandsInv'
    BY <2>1, <2>4 DEF DialogInv, VisitsInv, EntriesBounded, StandsInv
  <2>7. FollowsInv'
    BY <2>1, <2>4 DEF FollowsInv, Matches
  <2>8. ReturnInv'
    <3>1. cameBack = <<>>
      BY <1>1, <2>1 DEF DialogInv, ReturnInv
    <3>. QED BY <2>1, <3>1 DEF ReturnInv
  <2>. QED BY <2>5, <2>6, <2>7, <2>8 DEF DialogInv
<1>. QED BY <1>3, <1>4 DEF GoToSubflow

LEMMA QueueToRunMade ==
  ASSUME DialogInv, AtNode
  PROVE  /\ QueueToRun \in Seq(Instruction)
         /\ Matches(stored) => MadeFor(QueueToRun, ctx.flow, ctx.node)
<1>1. /\ bot \in Bots /\ ctx \in Context /\ Found(ctx.flow, ctx.node) /\ ctx.jumped \in BOOLEAN
      /\ ctx.queue \in Seq(Instruction) /\ pc = "enter"
  BY Types, ContextFields DEF AtNode
<1>2. /\ QueueOf(ctx.flow, ctx.node, ctx.jumped) \in Seq(Instruction)
      /\ MadeFor(QueueOf(ctx.flow, ctx.node, ctx.jumped), ctx.flow, ctx.node)
  BY <1>1, QueueMade
<1>3. CASE ctx.jumped \/ ~ ctx.hasQueue
  BY <1>2, <1>3 DEF QueueToRun
<1>4. CASE ~ (ctx.jumped \/ ~ ctx.hasQueue)
  <2>1. QueueToRun = ctx.queue
    BY <1>4 DEF QueueToRun
  <2>2. Matches(stored) => Matches(ctx)
    BY <1>1, <1>4 DEF DialogInv, FollowsInv
  <2>. QED BY <1>1, <2>1, <2>2 DEF Matches, MadeFor
<1>. QED BY <1>3, <1>4

LEMMA TakeInstructionKeeps ==
  ASSUME DialogInv, TakeInstruction
  PROVE  DialogInv'
<1>1. /\ AtNode /\ EntersBare /\ bot \in Bots /\ ctx \in Context
      /\ workflows \in Workflows /\ event.getter \in BOOLEAN
      /\ bare \in BOOLEAN /\ (bare \/ OneActive(workflows))
  BY Types DEF TakeInstruction, DialogInv, WorkflowsInv
<1>2. /\ EnterWorkflow \in Workflows /\ (bare' \/ OneActive(EnterWorkflow))
      /\ bare' \in BOOLEAN /\ (bare => bare')
  BY <1>1, EnteredWorkflows
<1>3. CASE QueueToRun = <<>>
  <2>1. FinishWith(Empty, EnterWorkflow)
    BY <1>3 DEF TakeInstruction
  <2>2. Sound(Empty)
    BY EmptyContext DEF Sound
  <2>3. Ends
    BY <1>2, <2>1, <2>2, FinishEnds
  <2>. QED BY <2>3, EndsKeeps
<1>4. CASE QueueToRun # <<>>
  <2> DEFINE q == QueueToRun
  <2>1. /\ instr' = Head(q) /\ rest' = Tail(q) /\ ctx' = [ctx EXCEPT !.jumped = FALSE]
        /\ pc' = "run" /\ workflows' = EnterWorkflow /\ UNCHANGED session
        /\ bot' = bot /\ stored' = stored /\ dest' = dest /\ catchers' = catchers /\ visits' = visits
        /\ jumps' = jumps /\ cameBack' = cameBack
    BY <1>4 DEF TakeInstruction, session
  <2>2. q \in Seq(Instruction) /\ q # <<>> /\ (Matches(stored) => MadeFor(q, ctx.flow, ctx.node))
    BY <1>1, <1>4, QueueToRunMade
  <2> HIDE DEF q
  <2>3. /\ Head(q) \in Instruction /\ Tail(q) \in Seq(Instruction)
        /\ Len(q) \in Nat \ {0} /\ DOMAIN q = 1..Len(q) /\ Head(q) = q[1]
        /\ DOMAIN Tail(q) = 1..(Len(q) - 1) /\ \A k \in 1..(Len(q) - 1) : Tail(q)[k] = q[k + 1]
    <3>1. /\ Head(q) \in Instruction /\ Tail(q) \in Seq(Instruction) /\ Len(Tail(q)) = Len(q) - 1
          /\ \A k \in 1..Len(Tail(q)) : Tail(q)[k] = q[k + 1]
      BY ONLY <2>2, HeadTailProperties
    <3>2. Len(q) \in Nat \ {0} /\ DOMAIN q = 1..Len(q) /\ DOMAIN Tail(q) = 1..Len(Tail(q))
      BY ONLY <2>2, <3>1, EmptySeq, LenProperties
    <3>3. Head(q) = q[1]
      BY ONLY <2>2
    <3>. QED BY ONLY <3>1, <3>2, <3>3
  <2>4. /\ ctx' \in Context /\ ctx'.flow = ctx.flow /\ ctx'.node = ctx.node
        /\ ctx'.jumpPoints = ctx.jumpPoints
    BY <1>1, <2>1, UnjumpedContext
  <2>5. TypeOK' /\ StoredContextRunnable' /\ WorkflowsInv'
    BY <1>2, <2>1, <2>3, <2>4, MoveTypes, Types
  <2>6. VisitsInv'
    BY <2>1 DEF DialogInv, VisitsInv, EntriesBounded
  <2>7. StandsInv'
    <3>1. Found(ctx.flow, ctx.node)'
      BY <1>1, <2>1, <2>4 DEF AtNode, Found
    <3>. QED BY <2>1, <3>1 DEF StandsInv
  <2>8. FollowsInv'
    <3>1. SUFFICES ASSUME Matches(stored)
                   PROVE  Head(q).of = <<ctx.flow, ctx.node>> /\ MadeFor(Tail(q), ctx.flow, ctx.node)
      BY <2>1, <2>4 DEF FollowsInv, Matches
    <3>. QED BY <2>2, <2>3, <3>1 DEF MadeFor
  <2>9. ReturnInv'
    <3>1. pc = "enter"
      BY <1>1 DEF AtNode
    <3>2. cameBack # <<>> => ExitingSubflow'
      BY <2>1, <2>4, <3>1 DEF DialogInv, ReturnInv, ExitingSubflow
    <3>. QED BY <2>1, <3>2 DEF ReturnInv
  <2>. QED BY <2>5, <2>6, <2>7, <2>8, <2>9 DEF DialogInv
<1>. QED BY <1>3, <1>4

LEMMA RunOnKeeps ==
  ASSUME DialogInv, RunOn
  PROVE  DialogInv'
<1>1. /\ pc = "run" /\ pc' = "enter" /\ ctx' = WithQueue(ctx, rest) /\ UNCHANGED session
      /\ bot' = bot /\ stored' = stored /\ workflows' = workflows /\ bare' = bare /\ instr' = instr
      /\ rest' = rest /\ dest' = dest /\ catchers' = catchers /\ visits' = visits
      /\ jumps' = jumps /\ cameBack' = cameBack
  BY DEF RunOn, session, step
<1>2. /\ ctx' \in Context /\ ctx' # Empty /\ ctx'.flow = ctx.flow /\ ctx'.node = ctx.node
      /\ ctx'.queue = rest /\ ctx'.hasQueue = TRUE /\ ctx'.jumpPoints = ctx.jumpPoints
  BY <1>1, Types, QueuedContext
<1>3. TypeOK' /\ StoredContextRunnable' /\ WorkflowsInv'
  BY <1>1, <1>2, MoveTypes, Types DEF DialogInv, WorkflowsInv
<1>4. VisitsInv' /\ StandsInv'
  BY <1>1, <1>2 DEF DialogInv, VisitsInv, EntriesBounded, StandsInv
<1>5. FollowsInv'
  BY <1>1, <1>2 DEF DialogInv, FollowsInv, Matches, MadeFor
<1>6. ReturnInv'
  <2>1. cameBack # <<>> => ExitingSubflow'
    BY <1>1, <1>2 DEF DialogInv, ReturnInv, ExitingSubflow
  <2>. QED BY <1>1, <1>2, <2>1 DEF ReturnInv
<1>. QED BY <1>3, <1>4, <1>5, <1>6 DEF DialogInv

LEMMA RunJumpToKeeps ==
  ASSUME DialogInv, RunJumpTo
  PROVE  DialogInv'
<1>1. /\ pc = "run" /\ pc' = "enter" /\ UNCHANGED session /\ jumps < MaxJumps /\ jumps' = jumps + 1
      /\ bot' = bot /\ stored' = stored /\ workflows' = workflows /\ bare' = bare /\ instr' = instr
      /\ rest' = rest /\ dest' = dest /\ catchers' = catchers /\ cameBack' = <<>>
  BY DEF RunJumpTo, session, step
<1>2. PICK x \in DOMAIN bot.node : /\ ctx' = WithQueue(Jumped(ctx, x[1], x[2]), rest)
                                   /\ visits' = [visits EXCEPT ![x] = @ + 1]
  BY DEF RunJumpTo
<1>3. /\ ctx' \in Context /\ ctx' # Empty /\ ctx'.jumped = TRUE
  <2>1. PICK f \in Name, n \in Name : f = x[1] /\ n = x[2]
    BY Types, NamesOfNode
  <2> DEFINE c == Jumped(ctx, f, n)
  <2>2. ctx' = WithQueue(c, rest)
    BY <1>2, <2>1 DEF Jumped
  <2>3. c \in Context /\ c.jumped = TRUE /\ rest \in Seq(Instruction)
    BY Types, JumpedContext
  <2> HIDE DEF c
  <2>. QED BY ONLY <2>2, <2>3, QueuedContext
<1>4. visits' \in [DOMAIN bot.node -> Nat] /\ EntriesBounded'
  BY <1>1, <1>2, NodeEntered
<1>5. TypeOK' /\ StoredContextRunnable' /\ WorkflowsInv'
  <2>1. jumps' \in 0..MaxJumps
    BY <1>1, Types
  <2>. QED BY <1>1, <1>3, <1>4, <2>1, MoveTypes, Types DEF DialogInv, WorkflowsInv
<1>6. VisitsInv' /\ StandsInv' /\ FollowsInv' /\ ReturnInv'
  BY <1>1, <1>3, <1>4 DEF VisitsInv, StandsInv, FollowsInv, ReturnInv
<1>. QED BY <1>5, <1>6 DEF DialogInv

LEMMA RunActionFailsKeeps ==
  ASSUME DialogInv, RunActionFails
  PROVE  DialogInv'
<1>1. Errs
  BY Types, UnqueuedContext DEF RunActionFails, Errs, DialogInv, WorkflowsInv
<1>. QED BY <1>1, ErrsKeeps

\* The event ends where the instruction stands.
LEMMA FinishHere ==
  ASSUME DialogInv, NEW c, Finish(c), Sound(c)
  PROVE  DialogInv'
<1>1. FinishWith(c, workflows) /\ bare' = bare
  BY DEF Finish
<1>2. workflows \in Workflows /\ bare \in BOOLEAN /\ (bare \/ OneActive(workflows))
  BY Types DEF DialogInv, WorkflowsInv
<1>3. Ends
  BY <1>1, <1>2, FinishEnds
<1>. QED BY <1>3, EndsKeeps

LEMMA RunThrowsOrWaitsKeeps ==
  ASSUME DialogInv, RunThrows \/ RunWait
  PROVE  DialogInv'
<1>1. pc = "run" /\ (Finish(ctx) \/ Finish(WithQueue(ctx, rest)))
  BY DEF RunThrows, RunWait
<1>2. ctx \in Context /\ Found(ctx.flow, ctx.node) /\ rest \in Seq(Instruction)
  BY <1>1, Types DEF DialogInv, StandsInv
<1>3. Sound(ctx)
  BY <1>2 DEF Sound
<1>4. Sound(WithQueue(ctx, rest))
  BY <1>2, QueuedContext DEF Sound
<1>. QED BY <1>1, <1>3, <1>4, FinishHere

LEMMA RunTransitionKeeps ==
  ASSUME DialogInv, RunTransition
  PROVE  DialogInv'
<1>1. CASE instr.dest.kind = "none"
  <2>1. Finish(Empty)
    BY <1>1 DEF RunTransition
  <2>2. Sound(Empty)
    BY EmptyContext DEF Sound
  <2>. QED BY <2>1, <2>2, FinishHere
<1>2. CASE instr.dest.kind # "none"
  <2>1. /\ pc = "run" /\ pc' = "transition" /\ ctx' = WithoutQueue(ctx) /\ UNCHANGED session
        /\ bot' = bot /\ stored' = stored /\ workflows' = workflows /\ bare' = bare /\ instr' = instr
        /\ rest' = rest /\ dest' = instr.dest /\ catchers' = catchers + 1 /\ visits' = visits
        /\ jumps' = jumps /\ cameBack' = cameBack
    BY <1>2 DEF RunTransition, session
  <2>2. ctx' \in Context /\ ctx'.queue = <<>> /\ ctx'.flow = ctx.flow /\ ctx'.node = ctx.node
    BY <2>1, Types, UnqueuedContext
  <2>3. instr.dest \in Destination
    BY Types DEF Instruction
  <2>4. TypeOK' /\ StoredContextRunnable' /\ WorkflowsInv'
    BY <1>2, <2>1, <2>2, <2>3, MoveTypes, Types DEF DialogInv, WorkflowsInv
  <2>5. VisitsInv' /\ FollowsInv' /\ ReturnInv'
    BY <2>1 DEF DialogInv, VisitsInv, EntriesBounded, FollowsInv, ReturnInv
  <2>6. StandsInv'
    <3>1. Found(ctx.flow, ctx.node)
      BY <2>1 DEF DialogInv, StandsInv
    <3>. QED BY <2>1, <2>2, <3>1, SameBot DEF StandsInv
  <2>. QED BY <2>4, <2>5, <2>6 DEF DialogInv
<1>. QED BY <1>1, <1>2

-----------------------------------------------------------------------------
(* Transitions. *)

\* A transition fails, from whatever context.
LEMMA FailHere ==
  ASSUME DialogInv, NEW c \in Context, Fail(c)
  PROVE  DialogInv'
<1>1. FailWith(c, workflows) /\ bare' = bare
  BY DEF Fail
<1>2. workflows \in Workflows /\ bare \in BOOLEAN /\ (bare \/ OneActive(workflows))
  BY Types DEF DialogInv, WorkflowsInv
<1>3. Ends \/ Errs
  BY <1>1, <1>2, FailEndsOrErrs
<1>. QED BY <1>3, EndsKeeps, ErrsKeeps

LEMMA ToFlowKeeps ==
  ASSUME DialogInv, pc = "transition", ~ LoopDetected, ToFlow
  PROVE  DialogInv'
<1> DEFINE f == dest.to
           n == bot.start[f]
<1>1. /\ pc' = "enter" /\ FlowFound(f) /\ UNCHANGED session
      /\ ctx' = AtStart(f, Append(Cleaned.jumpPoints, JumpPoint))
      /\ visits' = [visits EXCEPT ![<<f, n>>] = @ + 1]
      /\ bot' = bot /\ stored' = stored /\ workflows' = workflows /\ bare' = bare /\ instr' = instr
      /\ rest' = rest /\ dest' = dest /\ catchers' = catchers /\ jumps' = jumps /\ cameBack' = <<>>
  BY DEF ToFlow, session, step
<1>2. f \in Name /\ <<f, n>> \in DOMAIN bot.node
  BY <1>1, Types DEF Destination, FlowFound, Found
<1>3. Cleaned.jumpPoints \in Seq(Points) /\ JumpPoint \in Points
  BY Types, CleanedContext, JumpPointType
<1> HIDE DEF f
<1>4. ctx' \in Context /\ ctx' # Empty /\ ctx'.queue = <<>>
  BY <1>1, <1>2, <1>3, Types, AtStartContext
<1> HIDE DEF n
<1>5. visits' \in [DOMAIN bot.node -> Nat] /\ EntriesBounded'
  BY <1>1, <1>2, NodeEntered
<1>6. TypeOK' /\ StoredContextRunnable' /\ WorkflowsInv'
  BY <1>1, <1>4, <1>5, MoveTypes, Types DEF DialogInv, WorkflowsInv
<1>7. VisitsInv' /\ StandsInv' /\ ReturnInv'
  BY <1>1, <1>4, <1>5 DEF VisitsInv, StandsInv, ReturnInv
<1>8. FollowsInv'
  BY <1>1, <1>4 DEF FollowsInv, Matches
<1>. QED BY <1>6, <1>7, <1>8 DEF DialogInv

LEMMA ToNodeKeeps ==
  ASSUME DialogInv, pc = "transition", ~ LoopDetected, ToNode
  PROVE  DialogInv'
<1> DEFINE n == dest.to
<1>1. /\ pc' = "enter" /\ dest.kind = "node" /\ UNCHANGED session
      /\ ctx' = [Cleaned EXCEPT !.node = n]
      /\ visits' = IF Found(ctx.flow, n) THEN [visits EXCEPT ![<<ctx.flow, n>>] = @ + 1] ELSE visits
      /\ bot' = bot /\ stored' = stored /\ workflows' = workflows /\ bare' = bare /\ instr' = instr
      /\ rest' = rest /\ dest' = dest /\ catchers' = catchers /\ jumps' = jumps /\ cameBack' = <<>>
  BY DEF ToNode, session, step
<1>2. Found(ctx.flow, ctx.node) /\ ctx.queue = <<>> /\ n \in Name
  BY <1>1, Types DEF DialogInv, StandsInv, Destination
<1>3. Cleaned \in Context /\ Cleaned.flow = ctx.flow /\ Cleaned.queue = <<>>
  BY <1>2, Types, CleanedContext
<1> HIDE DEF n
<1>4. ctx' \in Context /\ ctx'.flow = ctx.flow /\ ctx'.queue = <<>>
  BY <1>1, <1>2, <1>3 DEF Context
<1>5. ctx' # Empty
  <2>1. <<ctx.flow, ctx.node>>[1] \in DOMAIN bot.start /\ "" \notin DOMAIN bot.start
    BY <1>2, Types, BotFacts DEF Found
  <2>. QED BY <1>4, <2>1, EmptyContext
<1>6. visits' \in [DOMAIN bot.node -> Nat] /\ EntriesBounded'
  <2>1. CASE Found(ctx.flow, n)
    <3>1. <<ctx.flow, n>> \in DOMAIN bot.node /\ visits' = [visits EXCEPT ![<<ctx.flow, n>>] = @ + 1]
      BY <1>1, <2>1 DEF Found
    <3>. QED BY <1>1, <3>1, NodeEntered
  <2>2. CASE ~ Found(ctx.flow, n)
    BY <1>1, <2>2, Types DEF DialogInv, VisitsInv, EntriesBounded
  <2>. QED BY <2>1, <2>2
<1>7. TypeOK' /\ StoredContextRunnable' /\ WorkflowsInv'
  BY <1>1, <1>4, <1>6, MoveTypes, Types DEF DialogInv, WorkflowsInv
<1>8. VisitsInv' /\ StandsInv' /\ ReturnInv'
  BY <1>1, <1>5, <1>6 DEF VisitsInv, StandsInv, ReturnInv
<1>9. FollowsInv'
  BY <1>1, <1>4 DEF FollowsInv, Matches
<1>. QED BY <1>7, <1>8, <1>9 DEF DialogInv

\* The last jump point is used, and no other one.
LastUsed(points, e) ==
  [points EXCEPT ![Len(points)].used = TRUE, ![Len(points)].executeNode = e]

LEMMA PointUsed ==
  ASSUME NEW points \in Seq(Points), points # <<>>, NEW executeNode \in BOOLEAN,
         \A k \in DOMAIN points : ~ points[k].used
  PROVE  /\ Len(points) \in Nat \ {0} /\ points[Len(points)] \in Points
         /\ LastUsed(points, executeNode) \in Seq(Points)
         /\ DOMAIN LastUsed(points, executeNode) = 1..Len(points)
         /\ LastUsed(points, executeNode)[Len(points)].used = TRUE
         /\ LastUsed(points, executeNode)[Len(points)].executeNode = executeNode
         /\ LastUsed(points, executeNode)[Len(points)].flow = points[Len(points)].flow
         /\ LastUsed(points, executeNode)[Len(points)].node = points[Len(points)].node
         /\ \A i \in 1..(Len(points) - 1) : ~ LastUsed(points, executeNode)[i].used
<1> DEFINE n == Len(points)
           last == [points[n] EXCEPT !.used = TRUE, !.executeNode = executeNode]
           used == [points EXCEPT ![n] = last]
<1>1. n \in Nat \ {0} /\ DOMAIN points = 1..n
  BY EmptySeq, LenProperties
<1>2. points[n] \in Points
  BY <1>1, ElementOfSeq
<1>3. /\ last \in Points /\ last.used = TRUE /\ last.executeNode = executeNode
      /\ last.flow = points[n].flow /\ last.node = points[n].node
  BY <1>2 DEF Points
<1>4. LastUsed(points, executeNode) = used
  BY <1>1 DEF LastUsed
<1> HIDE DEF last, n
<1>5. used \in Seq(Points)
  BY <1>1, <1>3, ExceptSeq
<1>6. DOMAIN used = 1..n /\ \A i \in 1..n : used[i] = IF i = n THEN last ELSE points[i]
  BY <1>1
<1> HIDE DEF used
<1>7. \A i \in 1..(n - 1) : ~ used[i].used
  <2>1. SUFFICES ASSUME NEW i \in 1..(n - 1) PROVE ~ used[i].used
    OBVIOUS
  <2>2. i \in DOMAIN points /\ used[i] = points[i]
    BY <1>1, <1>6
  <2>3. ~ points[i].used
    BY <2>2
  <2>. QED BY <2>2, <2>3
<1>8. n \in 1..n
  BY <1>1
<1>. QED BY <1>1, <1>2, <1>3, <1>4, <1>5, <1>6, <1>7, <1>8 DEF n

LEMMA ReturnKeeps ==
  ASSUME DialogInv, pc = "transition", ~ LoopDetected, Return
  PROVE  DialogInv'
<1> DEFINE points == Cleaned.jumpPoints
           n == Len(points)
           point == points[n]
           node == IF dest.to = "" THEN point.node ELSE dest.to
           used == [points EXCEPT ![n].used = TRUE, ![n].executeNode = (dest.kind = "reenter")]
<1>1. dest.kind \in {"return", "reenter"}
  BY DEF Return
<1>2. /\ Found(ctx.flow, ctx.node) /\ Cleaned \in Context /\ Cleaned.flow = ctx.flow
      /\ Cleaned.node = ctx.node /\ points \in Seq(Points)
      /\ \A k \in DOMAIN points : ~ points[k].used
  BY <1>1, Types, CleanedContext DEF DialogInv, StandsInv
<1>3. CASE points = <<>>
  <2>1. Finish(Cleaned)
    BY <1>3 DEF Return
  <2>2. Sound(Cleaned)
    BY <1>2 DEF Sound
  <2>. QED BY <2>1, <2>2, FinishHere
<1>4. CASE points # <<>>
  <2>1. /\ n \in Nat \ {0} /\ point \in Points /\ used \in Seq(Points)
        /\ DOMAIN used = 1..n /\ used[n].used = TRUE /\ used[n].executeNode = (dest.kind = "reenter")
        /\ used[n].flow = point.flow /\ used[n].node = point.node
        /\ \A i \in 1..(n - 1) : ~ used[i].used
    <3>1. PICK e \in BOOLEAN : e = (dest.kind = "reenter")
      OBVIOUS
    <3>2. PICK p \in Seq(Points) : p = points
      BY <1>2
    <3>3. /\ Len(p) \in Nat \ {0} /\ p[Len(p)] \in Points /\ LastUsed(p, e) \in Seq(Points)
          /\ DOMAIN LastUsed(p, e) = 1..Len(p) /\ LastUsed(p, e)[Len(p)].used = TRUE
          /\ LastUsed(p, e)[Len(p)].executeNode = e
          /\ LastUsed(p, e)[Len(p)].flow = p[Len(p)].flow
          /\ LastUsed(p, e)[Len(p)].node = p[Len(p)].node
          /\ \A i \in 1..(Len(p) - 1) : ~ LastUsed(p, e)[i].used
      BY <1>2, <1>4, <3>2, PointUsed
    <3>4. used = LastUsed(p, e)
      BY <3>1, <3>2 DEF LastUsed
    <3> HIDE DEF points, used
    <3>. QED BY <3>1, <3>2, <3>3, <3>4
  <2>2. /\ dest.to \in Name /\ point.flow \in Name /\ node \in Name
    BY <2>1, Types DEF Destination, Points
  <2>3. CASE ~ Found(point.flow, node) /\ Fail([Cleaned EXCEPT !.jumpPoints = used])
    <3> HIDE DEF used
    <3>1. [Cleaned EXCEPT !.jumpPoints = used] \in Context
      BY <1>2, <2>1 DEF Context
    <3>. QED BY <2>3, <3>1, FailHere
  <2>4. CASE /\ Found(point.flow, node)
             /\ ctx' = [WithQueue(Cleaned, TransitionsOf(point.flow, node)) EXCEPT
                          !.flow = point.flow, !.node = node, !.jumpPoints = used]
             /\ visits' = [visits EXCEPT ![<<point.flow, node>>] = @ + 1]
             /\ pc' = "enter"
             /\ cameBack' = IF dest.kind = "return" /\ dest.to = ""
                            THEN <<point.flow, node>> ELSE <<>>
             /\ UNCHANGED <<session, workflows, bare, step, catchers, jumps>>
    <3>1. /\ UNCHANGED session /\ bot' = bot /\ stored' = stored /\ workflows' = workflows
          /\ bare' = bare /\ instr' = instr /\ rest' = rest /\ dest' = dest /\ catchers' = catchers
          /\ jumps' = jumps
      BY <2>4 DEF session, step
    <3> DEFINE queue == TransitionsOf(point.flow, node)
               queued == WithQueue(Cleaned, queue)
    <3>2. queue \in Seq(Instruction) /\ MadeFor(queue, point.flow, node)
      BY <2>4, Types, TransitionsMade
    <3> HIDE DEF queue
    <3>3. queued \in Context /\ queued.queue = queue /\ queued.hasQueue = TRUE
      BY <1>2, <3>2, QueuedContext
    <3>4. ctx' = [queued EXCEPT !.flow = point.flow, !.node = node, !.jumpPoints = used]
      BY <2>4 DEF queue
    <3> HIDE DEF queued
    <3>5. /\ ctx' \in Context /\ ctx'.flow = point.flow /\ ctx'.node = node
          /\ ctx'.jumpPoints = used /\ ctx'.queue = queue /\ ctx'.hasQueue = TRUE
      <4> HIDE DEF used, node, point
      <4>. QED BY <2>1, <2>2, <3>3, <3>4 DEF Context
    <3>6. ctx' # Empty
      BY <3>5, NotEmpty
    <3>7. visits' \in [DOMAIN bot.node -> Nat] /\ EntriesBounded'
      <4>1. <<point.flow, node>> \in DOMAIN bot.node
        BY <2>4 DEF Found
      <4> HIDE DEF point, node
      <4>. QED BY <2>4, <3>1, <4>1, NodeEntered
    <3>8. TypeOK' /\ StoredContextRunnable' /\ WorkflowsInv'
      <4>1. pc' = "enter"
        BY <2>4
      <4> HIDE DEF points, n, point, node, used
      <4>2. /\ bare \in BOOLEAN /\ workflows \in Workflows /\ (bare \/ OneActive(workflows))
            /\ rest \in Seq(Instruction) /\ catchers \in Nat /\ jumps \in 0..MaxJumps
            /\ instr \in Instruction /\ dest \in Destination
        BY Types DEF DialogInv, WorkflowsInv
      <4>3. catchers' = catchers
        BY <2>4
      <4>4. /\ workflows' \in Workflows /\ bare' \in BOOLEAN /\ (bare => bare')
            /\ (bare' \/ OneActive(workflows')) /\ instr' \in Instruction
            /\ rest' \in Seq(Instruction) /\ dest' \in Destination
            /\ catchers' \in Nat /\ jumps' \in 0..MaxJumps
        BY <3>1, <4>2, <4>3
      <4>. QED BY <3>1, <3>5, <3>7, <4>1, <4>4, MoveTypes
    <3>9. VisitsInv' /\ StandsInv'
      BY <2>4, <3>6, <3>7 DEF VisitsInv, StandsInv
    <3>10. FollowsInv'
      BY <2>4, <3>2, <3>5 DEF FollowsInv, Matches, MadeFor
    <3>11. cameBack' # <<>> => ExitingSubflow'
      <4>1. SUFFICES ASSUME cameBack' # <<>> PROVE ExitingSubflow'
        OBVIOUS
      <4>2. dest.kind = "return" /\ node = point.node
        BY <2>4, <4>1
      <4>5. used[n].used = TRUE /\ used[n].executeNode = FALSE
        BY <2>1, <4>2
      <4> HIDE DEF used, node, point, n, points
      <4>6. n \in 1..n
        BY <2>1
      <4>3. /\ n \in DOMAIN ctx'.jumpPoints /\ ctx'.jumpPoints[n].used
            /\ \A i \in 1..(n - 1) : ~ ctx'.jumpPoints[i].used
            /\ ctx'.jumpPoints[n].flow = ctx'.flow /\ ctx'.jumpPoints[n].node = ctx'.node
            /\ ~ ctx'.jumpPoints[n].executeNode
        BY <2>1, <3>5, <4>2, <4>5, <4>6
      <4>. QED BY <4>3 DEF ExitingSubflow
    <3>12. ReturnInv'
      BY <2>4, <3>5, <3>11 DEF ReturnInv
    <3>. QED BY <3>8, <3>9, <3>10, <3>12 DEF DialogInv
  <2>. QED BY <1>4, <2>3, <2>4 DEF Return
<1>. QED BY <1>3, <1>4

LEMMA TransitionKeeps ==
  ASSUME DialogInv, LoopFails \/ Transition
  PROVE  DialogInv'
<1>1. CASE LoopFails
  BY <1>1, Types, FailHere DEF LoopFails
<1>2. CASE Transition
  <2>1. pc = "transition" /\ ~ LoopDetected
    BY <1>2 DEF Transition
  <2>2. CASE FlowMissing
    BY <2>2, Types, CleanedContext, FailHere DEF FlowMissing
  <2>3. CASE ToFlow
    BY <2>1, <2>3, ToFlowKeeps
  <2>4. CASE ToNode
    BY <2>1, <2>4, ToNodeKeeps
  <2>5. CASE Return
    BY <2>1, <2>5, ReturnKeeps
  <2>6. CASE ToEnd
    <3>1. Sound(Empty)
      BY EmptyContext DEF Sound
    <3>. QED BY <2>6, <3>1, FinishHere DEF ToEnd
  <2>. QED BY <1>2, <2>2, <2>3, <2>4, <2>5, <2>6 DEF Transition
<1>. QED BY <1>1, <1>2

-----------------------------------------------------------------------------
(* The invariant holds, and what the runs check follows. *)

LEMMA InitHolds == Init => DialogInv
<1> SUFFICES ASSUME Init PROVE DialogInv
  OBVIOUS
<1>1. /\ bot \in Bots /\ stored = Empty /\ kept = NoWorkflows /\ event = NoEvent /\ ctx = Empty
      /\ workflows = NoWorkflows /\ pc = "idle" /\ instr = NoInstr /\ rest = <<>> /\ dest = NoDest
      /\ catchers = 0 /\ visits = NoVisits /\ jumps = 0 /\ events = 0 /\ cameBack = <<>>
      /\ stranded = FALSE /\ bare = FALSE
  BY DEF Init
<1>2. MaxEntries \in Nat \ {0} /\ MaxJumps \in Nat /\ MaxEvents \in Nat
  BY EngineAssumption DEF EngineAssumption
<1>3. visits \in [DOMAIN bot.node -> Nat] /\ EntriesBounded
  BY <1>1, <1>2 DEF NoVisits, EntriesBounded
<1>4. event \in [kind : {"none", "message", "timeout"}, getter : BOOLEAN]
  BY <1>1 DEF NoEvent
<1>5. /\ stored \in Context /\ ctx \in Context /\ kept \in Workflows /\ workflows \in Workflows
      /\ instr \in Instruction /\ rest \in Seq(Instruction) /\ dest \in Destination
      /\ OneActive(workflows) /\ OneActive(kept)
  BY <1>1, EmptyContext, NoWorkflowsType, NoInstrType, DestinationsKnown, EmptySeq
<1>6. TypeOK
  <2>1. stranded \in BOOLEAN /\ bare \in BOOLEAN
    BY <1>1
  <2>2. /\ pc \in {"idle", "decide", "enter", "run", "transition"} /\ pc # "transition"
        /\ catchers \in Nat /\ jumps \in 0..MaxJumps /\ events \in 0..MaxEvents
    BY <1>1, <1>2
  <2>. QED BY <1>1, <1>3, <1>4, <1>5, <2>1, <2>2 DEF TypeOK
<1>7. VisitsInv /\ StandsInv /\ StoredContextRunnable /\ WorkflowsInv /\ ReturnInv
  BY <1>1, <1>3, <1>5 DEF VisitsInv, StandsInv, StoredContextRunnable, WorkflowsInv, ReturnInv
<1>8. FollowsInv
  BY <1>1 DEF FollowsInv
<1>. QED BY <1>6, <1>7, <1>8 DEF DialogInv

LEMMA NextKeeps == DialogInv /\ [Next]_vars => DialogInv'
<1> SUFFICES ASSUME DialogInv, [Next]_vars PROVE DialogInv'
  OBVIOUS
<1>1. CASE Receive
  BY <1>1, ReceiveKeeps
<1>2. CASE Timeout
  BY <1>2, TimeoutKeeps
<1>3. CASE ProcessEvent
  <2>1. CASE Decide
    BY <2>1, DecideKeeps
  <2>2. CASE InitializeContext
    BY <2>2, InitializeContextKeeps
  <2>3. CASE EnterFails
    BY <2>3, EnterFailsKeeps
  <2>4. CASE GoToSubflow
    BY <2>4, GoToSubflowKeeps
  <2>5. CASE TakeInstruction
    BY <2>5, TakeInstructionKeeps
  <2>6. CASE RunOn
    BY <2>6, RunOnKeeps
  <2>7. CASE RunJumpTo
    BY <2>7, RunJumpToKeeps
  <2>8. CASE RunActionFails
    BY <2>8, RunActionFailsKeeps
  <2>9. CASE RunThrows \/ RunWait
    BY <2>9, RunThrowsOrWaitsKeeps
  <2>10. CASE RunTransition
    BY <2>10, RunTransitionKeeps
  <2>11. CASE LoopFails \/ Transition
    BY <2>11, TransitionKeeps
  <2>. QED
    BY <1>3, <2>1, <2>2, <2>3, <2>4, <2>5, <2>6, <2>7, <2>8, <2>9, <2>10, <2>11 DEF ProcessEvent
<1>4. CASE UNCHANGED vars
  <2>1. /\ UNCHANGED session /\ UNCHANGED step /\ ctx' = ctx /\ workflows' = workflows /\ pc' = pc
        /\ catchers' = catchers /\ visits' = visits /\ jumps' = jumps /\ cameBack' = cameBack
        /\ bare' = bare
    BY <1>4 DEF vars
  <2>2. /\ bot' = bot /\ stored' = stored /\ kept' = kept /\ events' = events /\ event' = event
        /\ stranded' = stranded /\ instr' = instr /\ rest' = rest /\ dest' = dest
    BY <2>1 DEF session, step
  <2>3. TypeOK'
    <3>1. /\ kept' \in Workflows' /\ workflows' \in Workflows' /\ bot' \in Bots /\ stored' \in Context
          /\ ctx' \in Context /\ visits' \in [DOMAIN bot'.node -> Nat]
      BY <2>1, <2>2, Types, SameBot
    <3>. QED BY <2>1, <2>2, <3>1 DEF DialogInv, TypeOK
  <2>4. VisitsInv' /\ StandsInv' /\ StoredContextRunnable'
    BY <2>1, <2>2, SameBot
    DEF DialogInv, VisitsInv, EntriesBounded, StandsInv, StoredContextRunnable
  <2>5. FollowsInv' /\ WorkflowsInv' /\ ReturnInv'
    BY <2>1, <2>2 DEF DialogInv, FollowsInv, Matches, MadeFor, WorkflowsInv, OneActive, ReturnInv,
                      ExitingSubflow
  <2>. QED BY <2>3, <2>4, <2>5 DEF DialogInv
<1>. QED BY <1>1, <1>2, <1>3, <1>4 DEF Next

\* The inductive invariant holds in every state, whatever the bots.
THEOREM DialogInvHolds == Spec => []DialogInv
BY InitHolds, NextKeeps, PTL DEF Spec

\* However the flows of a bot lead to each other, and whatever conditions, actions
\* and errors do, no event enters a node more often than _detectInfiniteLoop allows,
\* but for the jumps of actions.
THEOREM EngineInvHolds == Spec => []EngineInv
<1>1. DialogInv => EngineInv
  BY DEF DialogInv, VisitsInv, EngineInv
<1>. QED BY <1>1, DialogInvHolds, PTL

\* What is persisted of a session names a node that exists, unless FORCE_PERSIST_STATE
\* persisted it where an event failed, and only the current workflow is active, unless
\* the state of an event came out of Redis.
THEOREM SessionSoundHolds == Spec => []SessionSound
<1>1. DialogInv => SessionSound
  BY DEF DialogInv, WorkflowsInv, SessionSound, OneWorkflowActive, OneActive
<1>. QED BY <1>1, DialogInvHolds, PTL

\* processEvent runs the instructions of the node that the context names.
THEOREM OwnInstructionsHold == Spec => []OwnInstructions
<1>1. DialogInv => OwnInstructions
  BY DEF DialogInv, FollowsInv, OwnInstructions
<1>. QED BY <1>1, DialogInvHolds, PTL

\* A step of processEvent at a node that a subflow came back to.
LEMMA StaysAtNode ==
  ASSUME DialogInv, Next, pc = "enter", cameBack # <<>>, ctx' # Empty
  PROVE  ctx'.flow = ctx.flow
<1>1. ctx \in Context /\ ctx # Empty /\ ExitingSubflow
  BY Types, NotEmpty DEF DialogInv, ReturnInv
<1>2. EnterFails \/ TakeInstruction
  <2>1. ~ InitializeContext /\ ~ GoToSubflow
    BY <1>1 DEF InitializeContext, GoToSubflow
  <2>2. ~ Receive /\ ~ Timeout /\ ~ Decide
    BY DEF Receive, Timeout, Decide
  <2>3. ~ RunOn /\ ~ RunJumpTo /\ ~ RunActionFails /\ ~ RunThrows /\ ~ RunWait /\ ~ RunTransition
    BY DEF RunOn, RunJumpTo, RunActionFails, RunThrows, RunWait, RunTransition
  <2>4. ~ LoopFails /\ ~ Transition
    BY DEF LoopFails, Transition
  <2>. QED BY <2>1, <2>2, <2>3, <2>4 DEF Next, ProcessEvent
<1>3. CASE EnterFails
  <2>1. ctx' = Empty \/ ctx' = ctx
    BY <1>3 DEF EnterFails, Fail, FailWith, Over
  <2>. QED BY <2>1
<1>4. CASE TakeInstruction
  <2>1. ctx' = Empty \/ ctx' = [ctx EXCEPT !.jumped = FALSE]
    BY <1>4 DEF TakeInstruction, FinishWith, Over
  <2>. QED BY <1>1, <2>1 DEF Context
<1>. QED BY <1>2, <1>3, <1>4

\* A node that a subflow returned to does not enter the subflow again before one of
\* its transitions is taken: its jump point, which _transition has marked, says so
\* for as long.
THEOREM NotReenteredHolds == Spec => NotReentered
<1>1. DialogInv /\ [Next]_vars
      => [pc = "enter" /\ cameBack # <<>> /\ ctx' # Empty => ctx'.flow = ctx.flow]_vars
  BY StaysAtNode
<1>. QED BY <1>1, DialogInvHolds, PTL DEF Spec, NotReentered
=============================================================================
