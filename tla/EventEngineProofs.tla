--------------------------- MODULE EventEngineProofs ---------------------------
(* The middleware chain, for any events, conversations, middleware and bounds. *)
EXTENDS EventEngine, SequenceTheorems, TLAPS

-----------------------------------------------------------------------------
(* Lists of middleware. *)

\* One more element at the end.
LEMMA AddLast ==
  ASSUME NEW S, NEW s \in Seq(S), NEW x \in S
  PROVE  /\ s \o <<x>> \in Seq(S)
         /\ Len(s \o <<x>>) = Len(s) + 1
         /\ \A k \in 1..Len(s) : (s \o <<x>>)[k] = s[k]
         /\ (s \o <<x>>)[Len(s) + 1] = x
<1>1. <<x>> \in Seq(S) /\ Len(<<x>>) = 1 /\ <<x>>[1] = x
  OBVIOUS
<1>2. Len(s) \in Nat
  BY LenProperties
<1>3. /\ s \o <<x>> \in Seq(S)
      /\ Len(s \o <<x>>) = Len(s) + Len(<<x>>)
      /\ \A k \in 1..(Len(s) + Len(<<x>>)) : (s \o <<x>>)[k] =
           IF k <= Len(s) THEN s[k] ELSE <<x>>[k - Len(s)]
  BY <1>1, ConcatProperties
<1>. QED BY <1>1, <1>2, <1>3

\* The first k - 1 elements, and those from the k-th on.
LEMMA FrontAndRest ==
  ASSUME NEW S, NEW s \in Seq(S), NEW k \in 1..(Len(s) + 1)
  PROVE  /\ SubSeq(s, 1, k - 1) \in Seq(S)
         /\ Len(SubSeq(s, 1, k - 1)) = k - 1
         /\ \A i \in 1..(k - 1) : SubSeq(s, 1, k - 1)[i] = s[i]
         /\ SubSeq(s, k, Len(s)) \in Seq(S)
         /\ Len(SubSeq(s, k, Len(s))) = Len(s) - (k - 1)
         /\ \A i \in 1..(Len(s) - (k - 1)) : SubSeq(s, k, Len(s))[i] = s[i + (k - 1)]
<1>1. Len(s) \in Nat /\ \A i \in 1..Len(s) : s[i] \in S
  BY LenProperties, ElementOfSeq
<1>2. /\ Len(SubSeq(s, 1, k - 1)) = k - 1
      /\ SubSeq(s, 1, k - 1) \in Seq(S)
      /\ \A i \in 1..(k - 1) : SubSeq(s, 1, k - 1)[i] = s[1 + i - 1]
  BY <1>1, SubSeqProperties
<1>3. /\ SubSeq(s, k, Len(s)) \in Seq(S)
      /\ Len(SubSeq(s, k, Len(s))) = IF k <= Len(s) THEN Len(s) - k + 1 ELSE 0
      /\ \A i \in 1..(Len(s) - k + 1) : SubSeq(s, k, Len(s))[i] = s[k + i - 1]
  BY <1>1, SubSeqProperties
<1>. QED BY <1>1, <1>2, <1>3

\* Taking out the k-th element shifts those that follow it.
LEMMA RemoveAtProperties ==
  ASSUME NEW S, NEW s \in Seq(S), NEW k \in 1..Len(s)
  PROVE  /\ RemoveAt(s, k) \in Seq(S)
         /\ Len(RemoveAt(s, k)) = Len(s) - 1
         /\ \A i \in 1..(Len(s) - 1) :
              RemoveAt(s, k)[i] = IF i < k THEN s[i] ELSE s[i + 1]
<1>1. Len(s) \in Nat
  BY LenProperties
<1> DEFINE front == SubSeq(s, 1, k - 1)
           rest == SubSeq(s, k + 1, Len(s))
<1>2. /\ front \in Seq(S) /\ Len(front) = k - 1
      /\ \A i \in 1..(k - 1) : front[i] = s[i]
  BY <1>1, FrontAndRest
<1>3. /\ rest \in Seq(S) /\ Len(rest) = Len(s) - k
      /\ \A i \in 1..(Len(s) - k) : rest[i] = s[i + k]
  <2>1. k + 1 \in 1..(Len(s) + 1) /\ (k + 1) - 1 = k
    BY <1>1
  <2>. QED BY <2>1, FrontAndRest
<1>4. RemoveAt(s, k) = front \o rest
  BY DEF RemoveAt
<1> HIDE DEF front, rest
<1>5. /\ front \o rest \in Seq(S)
      /\ Len(front \o rest) = Len(front) + Len(rest)
      /\ \A i \in 1..(Len(front) + Len(rest)) : (front \o rest)[i] =
           IF i <= Len(front) THEN front[i] ELSE rest[i - Len(front)]
  BY <1>2, <1>3, ConcatProperties
<1>6. Len(front) + Len(rest) = Len(s) - 1
  BY <1>1, <1>2, <1>3
<1>7. ASSUME NEW i \in 1..(Len(s) - 1)
      PROVE  (front \o rest)[i] = IF i < k THEN s[i] ELSE s[i + 1]
  <2>1. CASE i < k
    BY <2>1, <1>1, <1>2, <1>5, <1>6
  <2>2. CASE ~ (i < k)
    <3>1. (front \o rest)[i] = rest[i - (k - 1)]
      BY <2>2, <1>1, <1>2, <1>5, <1>6
    <3>2. i - (k - 1) \in 1..(Len(s) - k) /\ (i - (k - 1)) + k = i + 1
      BY <2>2, <1>1
    <3>. QED BY <2>2, <3>1, <3>2, <1>3
  <2>. QED BY <2>1, <2>2
<1>. QED BY <1>4, <1>5, <1>6, <1>7

\* Putting in an element at place p shifts those from there on.
LEMMA InsertAtProperties ==
  ASSUME NEW S, NEW s \in Seq(S), NEW x \in S, NEW p \in 1..(Len(s) + 1)
  PROVE  /\ InsertAt(s, p, x) \in Seq(S)
         /\ Len(InsertAt(s, p, x)) = Len(s) + 1
         /\ \A i \in 1..(p - 1) : InsertAt(s, p, x)[i] = s[i]
         /\ InsertAt(s, p, x)[p] = x
         /\ \A i \in (p + 1)..(Len(s) + 1) : InsertAt(s, p, x)[i] = s[i - 1]
<1>1. Len(s) \in Nat
  BY LenProperties
<1> DEFINE front == SubSeq(s, 1, p - 1)
           rest == SubSeq(s, p, Len(s))
           new == front \o <<x>>
<1>2. /\ front \in Seq(S) /\ Len(front) = p - 1
      /\ \A i \in 1..(p - 1) : front[i] = s[i]
      /\ rest \in Seq(S) /\ Len(rest) = Len(s) - (p - 1)
      /\ \A i \in 1..(Len(s) - (p - 1)) : rest[i] = s[i + (p - 1)]
  BY FrontAndRest
<1>3. InsertAt(s, p, x) = new \o rest
  BY DEF InsertAt
<1> HIDE DEF front, rest
<1>4. /\ new \in Seq(S) /\ Len(new) = p
      /\ \A i \in 1..(p - 1) : new[i] = s[i]
      /\ new[p] = x
  <2>1. /\ new \in Seq(S) /\ Len(new) = Len(front) + 1
        /\ \A i \in 1..Len(front) : new[i] = front[i]
        /\ new[Len(front) + 1] = x
    <3>1. front \in Seq(S)
      BY <1>2
    <3>. QED BY ONLY <3>1, x \in S, AddLast
  <2>2. (p - 1) + 1 = p
    BY <1>1
  <2>. QED BY <1>2, <2>1, <2>2
<1> HIDE DEF new
<1>5. /\ new \o rest \in Seq(S)
      /\ Len(new \o rest) = Len(new) + Len(rest)
      /\ \A i \in 1..(Len(new) + Len(rest)) : (new \o rest)[i] =
           IF i <= Len(new) THEN new[i] ELSE rest[i - Len(new)]
  <2>1. new \in Seq(S) /\ rest \in Seq(S)
    BY <1>2, <1>4
  <2>. QED BY ONLY <2>1, ConcatProperties
<1>6. Len(new) + Len(rest) = Len(s) + 1
  BY <1>1, <1>2, <1>4
<1>7. ASSUME NEW i \in 1..p PROVE (new \o rest)[i] = new[i]
  BY <1>1, <1>4, <1>5, <1>6
<1>8. ASSUME NEW i \in (p + 1)..(Len(s) + 1) PROVE (new \o rest)[i] = s[i - 1]
  <2>1. (new \o rest)[i] = rest[i - p]
    BY <1>1, <1>4, <1>5, <1>6
  <2>2. i - p \in 1..(Len(s) - (p - 1)) /\ (i - p) + (p - 1) = i - 1
    BY <1>1
  <2>. QED BY <2>1, <2>2, <1>2
<1>9. \A i \in 1..(p - 1) : (new \o rest)[i] = s[i]
  <2>1. \A i \in 1..(p - 1) : i \in 1..p
    BY <1>1
  <2>. QED BY <2>1, <1>4, <1>7
<1>10. (new \o rest)[p] = x
  BY <1>1, <1>4, <1>7
<1>. QED BY <1>3, <1>5, <1>6, <1>8, <1>9, <1>10

\* Taking an element out keeps the order of the others.
LEMMA RemoveAtKeepsOrder ==
  ASSUME NEW s \in Seq(Middlewares), NEW k \in DOMAIN s, InOrder(s)
  PROVE  RemoveAt(s, k) \in Seq(Middlewares) /\ InOrder(RemoveAt(s, k))
<1>1. Len(s) \in Nat /\ DOMAIN s = 1..Len(s) /\ k \in 1..Len(s)
  BY LenProperties
<1> DEFINE r == RemoveAt(s, k)
<1>2. /\ r \in Seq(Middlewares) /\ Len(r) = Len(s) - 1
      /\ \A i \in 1..(Len(s) - 1) : r[i] = IF i < k THEN s[i] ELSE s[i + 1]
  BY <1>1, RemoveAtProperties
<1> HIDE DEF r
<1>3. DOMAIN r = 1..(Len(s) - 1)
  BY <1>2, LenProperties
<1>4. ASSUME NEW i \in DOMAIN r, NEW m \in DOMAIN r, i < m
      PROVE  r[i] # r[m] /\ Order[r[i]] <= Order[r[m]]
  <2> DEFINE a == IF i < k THEN i ELSE i + 1
             b == IF m < k THEN m ELSE m + 1
  <2>1. a \in DOMAIN s /\ b \in DOMAIN s /\ a < b
    BY <1>1, <1>3, <1>4
  <2>2. r[i] = s[a] /\ r[m] = s[b]
    BY <1>2, <1>3
  <2> HIDE DEF a, b
  <2>. QED BY <2>1, <2>2 DEF InOrder
<1>5. InOrder(r)
  BY <1>4 DEF InOrder
<1>. QED BY <1>2, <1>5 DEF r

\* A new element put after those of the same order, and before those of a
\* higher one, keeps the order.
LEMMA InsertAtKeepsOrder ==
  ASSUME NEW s \in Seq(Middlewares), NEW m \in Middlewares, NEW p \in 1..(Len(s) + 1),
         Order \in [Middlewares -> Int], InOrder(s), m \notin ToSet(s),
         \A k \in DOMAIN s : k < p <=> Order[s[k]] <= Order[m]
  PROVE  InsertAt(s, p, m) \in Seq(Middlewares) /\ InOrder(InsertAt(s, p, m))
<1>1. Len(s) \in Nat /\ DOMAIN s = 1..Len(s)
  BY LenProperties
<1> DEFINE r == InsertAt(s, p, m)
<1>2. /\ r \in Seq(Middlewares) /\ Len(r) = Len(s) + 1
      /\ \A i \in 1..(p - 1) : r[i] = s[i]
      /\ r[p] = m
      /\ \A i \in (p + 1)..(Len(s) + 1) : r[i] = s[i - 1]
  BY ONLY InsertAtProperties, s \in Seq(Middlewares), m \in Middlewares, p \in 1..(Len(s) + 1)
<1> HIDE DEF r
<1>3. DOMAIN r = 1..(Len(s) + 1)
  BY <1>2, LenProperties
<1>4. ASSUME NEW k \in DOMAIN s
      PROVE  /\ s[k] # m /\ Order[s[k]] \in Int /\ Order[m] \in Int
             /\ k < p => Order[s[k]] <= Order[m]
             /\ ~ (k < p) => Order[m] <= Order[s[k]]
  <2>1. s[k] \in Middlewares
    BY ElementOfSeq, <1>1
  <2>2. s[k] # m
    BY DEF ToSet
  <2>. QED BY <2>1, <2>2
<1>5. ASSUME NEW i \in DOMAIN r, NEW k \in DOMAIN r, i < k
      PROVE  r[i] # r[k] /\ Order[r[i]] <= Order[r[k]]
  <2>1. i \in 1..(Len(s) + 1) /\ k \in 1..(Len(s) + 1)
    BY <1>3
  <2>2. CASE k < p
    <3>1. i \in 1..(p - 1) /\ k \in 1..(p - 1) /\ i \in 1..Len(s) /\ k \in 1..Len(s)
      BY ONLY <2>1, <2>2, <1>1, <1>5, p \in 1..(Len(s) + 1)
    <3>. QED BY ONLY <3>1, <1>1, <1>2, <1>5, InOrder(s) DEF InOrder
  <2>3. CASE k = p
    <3>1. i \in 1..(p - 1) /\ i \in 1..Len(s) /\ i < p
      BY ONLY <2>1, <2>3, <1>1, <1>5, p \in 1..(Len(s) + 1)
    <3>2. s[i] # m /\ Order[s[i]] <= Order[m]
      BY ONLY <3>1, <1>1, <1>4
    <3>. QED BY ONLY <2>3, <3>1, <3>2, <1>2
  <2>4. CASE k > p /\ i < p
    <3>1. /\ i \in 1..(p - 1) /\ i \in 1..Len(s) /\ k - 1 \in 1..Len(s)
          /\ i < k - 1 /\ k \in (p + 1)..(Len(s) + 1)
      BY ONLY <2>1, <2>4, <1>1, <1>5, p \in 1..(Len(s) + 1)
    <3>. QED BY ONLY <3>1, <1>1, <1>2, InOrder(s) DEF InOrder
  <2>5. CASE k > p /\ i = p
    <3>1. k - 1 \in 1..Len(s) /\ ~ (k - 1 < p) /\ k \in (p + 1)..(Len(s) + 1)
      BY ONLY <2>1, <2>5, <1>1, <1>5, p \in 1..(Len(s) + 1)
    <3>2. s[k - 1] # m /\ Order[m] <= Order[s[k - 1]]
      BY ONLY <3>1, <1>1, <1>4
    <3>. QED BY ONLY <2>5, <3>1, <3>2, <1>2
  <2>6. CASE i > p
    <3>1. /\ i - 1 \in 1..Len(s) /\ k - 1 \in 1..Len(s) /\ i - 1 < k - 1
          /\ i \in (p + 1)..(Len(s) + 1) /\ k \in (p + 1)..(Len(s) + 1)
      BY ONLY <2>1, <2>6, <1>1, <1>5, p \in 1..(Len(s) + 1)
    <3>. QED BY ONLY <3>1, <1>1, <1>2, InOrder(s) DEF InOrder
  <2>. QED BY ONLY <2>1, <2>2, <2>3, <2>4, <2>5, <2>6, <1>5, p \in 1..(Len(s) + 1), <1>1
<1>6. InOrder(r)
  BY <1>5 DEF InOrder
<1>. QED BY <1>2, <1>6 DEF r

-----------------------------------------------------------------------------
(* The invariant, event by event. *)

\* What ChainInv says of one event alone.
EventOK(e) ==
  /\ phase[e] # "idle" <=> status[e] = "serving"
  /\ status[e] = "serving" => attempts[e] >= 1
  /\ InOrder(chain[e])
  /\ Len(seen[e]) <= Len(chain[e])
  /\ \A k \in DOMAIN seen[e] : seen[e][k] = chain[e][k]
  /\ phase[e] = "chain" => pos[e] \in DOMAIN chain[e] /\ Len(seen[e]) = pos[e]
  /\ steady[e] \subseteq ToSet(chain[e])
  /\ (phase[e] = "after" \/ status[e] = "done") /\ ~ swallowed[e]
     => Len(seen[e]) = Len(chain[e])
  /\ muted[e] => paused[e] /\ phase[e] # "after"
  /\ swallowed[e] /\ direction = "outgoing" => status[e] = "done"

\* One event of a conversation is served at a time.
OneServed ==
  \A e, f \in Events :
    ConvOf[e] = ConvOf[f] /\ status[e] = "serving" /\ status[f] = "serving" => e = f

EventsOK == InOrder(registered) /\ \A e \in Events : EventOK(e)

LEMMA InvByEvent ==
  ChainInv <=> TypeOK /\ OneServed /\ OnlyAwaited /\ EventsOK /\ OneHandlerAtATime
BY DEF ChainInv, EventsOK, EventOK, OneServed, ServedOneByOne, Ordered, SeenSoFar,
       MutedStaysPaused, SwallowedIsDone

\* A handler at work belongs to an event of the run.
LEMMA HandlersEvent ==
  ASSUME TypeOK, NEW i \in running
  PROVE  i \in Invocation /\ i.event \in Events
BY DEF TypeOK, Invocation

\* Two handlers at work in one conversation are of the event that is served,
\* and both are the one that run() awaits.
LEMMA AwaitedExclude ==
  TypeOK /\ OneServed /\ OnlyAwaited /\ EventsOK => OneHandlerAtATime
<1> SUFFICES ASSUME TypeOK, OneServed, OnlyAwaited, EventsOK,
                    NEW i \in running \ late, NEW j \in running \ late,
                    ConvOf[i.event] = ConvOf[j.event]
             PROVE  i = j
  BY DEF OneHandlerAtATime
<1>1. i.event \in Events /\ j.event \in Events
  BY HandlersEvent
<1>2. /\ phase[i.event] = "chain" /\ i = Awaited(i.event)
      /\ phase[j.event] = "chain" /\ j = Awaited(j.event)
  BY DEF OnlyAwaited
<1>3. status[i.event] = "serving" /\ status[j.event] = "serving"
  BY <1>1, <1>2 DEF EventsOK, EventOK
<1>4. i.event = j.event
  BY <1>1, <1>3 DEF OneServed
<1>. QED BY <1>2, <1>4

\* A step does not touch an event.
Unmoved(e) ==
  /\ status'[e] = status[e] /\ attempts'[e] = attempts[e] /\ phase'[e] = phase[e]
  /\ chain'[e] = chain[e] /\ pos'[e] = pos[e] /\ seen'[e] = seen[e]
  /\ answer'[e] = answer[e] /\ timedOut'[e] = timedOut[e]
  /\ steady'[e] \subseteq steady[e]
  /\ paused'[e] = paused[e] /\ muted'[e] = muted[e] /\ swallowed'[e] = swallowed[e]

LEMMA UnmovedKeeps ==
  ASSUME NEW e \in Events, EventOK(e), Unmoved(e), direction' = direction
  PROVE  EventOK(e)'
<1>1. InOrder(chain[e])' <=> InOrder(chain[e])
  BY DEF Unmoved, InOrder
<1>2. steady'[e] \subseteq ToSet(chain'[e])
  BY DEF Unmoved, EventOK
<1>. QED BY <1>1, <1>2 DEF Unmoved, EventOK

\* What has to be shown of a step that touches one event only.
LEMMA OneEventMoves ==
  ASSUME ChainInv, TypeOK', NEW e \in Events,
         registered' = registered, direction' = direction,
         \A f \in Events \ {e} : Unmoved(f),
         EventOK(e)',
         status'[e] = "serving" /\ status[e] # "serving"
           => \A f \in Events : ConvOf[f] = ConvOf[e] => status[f] # "serving",
         \A i \in running' \ late' :
           IF i.event = e
             THEN /\ phase'[e] = "chain" /\ i = Awaited(e)'
                  /\ answer'[e] = "none" /\ ~ timedOut'[e]
             ELSE i \in running \ late
  PROVE  ChainInv'
<1>0. /\ TypeOK /\ OneServed /\ OnlyAwaited /\ InOrder(registered)
      /\ \A f \in Events : EventOK(f)
  BY InvByEvent DEF EventsOK
<1>1. ASSUME NEW f \in Events PROVE EventOK(f)'
  <2>1. CASE f = e
    BY <2>1
  <2>2. CASE f # e
    BY <1>0, <2>2, UnmovedKeeps
  <2>. QED BY <2>1, <2>2
<1>2. OneServed'
  <2> SUFFICES ASSUME NEW f \in Events, NEW g \in Events, ConvOf[f] = ConvOf[g],
                      status'[f] = "serving", status'[g] = "serving"
               PROVE  f = g
    BY DEF OneServed
  <2>1. CASE f # e /\ g # e
    BY <1>0, <2>1 DEF Unmoved, OneServed
  <2>2. CASE f = e /\ g # e
    <3>1. status[g] = "serving"
      BY <2>2 DEF Unmoved
    <3>. QED BY <1>0, <2>2, <3>1 DEF OneServed
  <2>3. CASE g = e /\ f # e
    <3>1. status[f] = "serving"
      BY <2>3 DEF Unmoved
    <3>. QED BY <1>0, <2>3, <3>1 DEF OneServed
  <2>. QED BY <2>1, <2>2, <2>3
<1>3. OnlyAwaited'
  <2> SUFFICES ASSUME NEW i \in running' \ late'
               PROVE  /\ phase'[i.event] = "chain" /\ i = Awaited(i.event)'
                      /\ answer'[i.event] = "none" /\ ~ timedOut'[i.event]
    BY DEF OnlyAwaited
  <2>1. CASE i.event = e
    BY <2>1 DEF Awaited
  <2>2. CASE i.event # e
    <3>1. i \in running \ late
      BY <2>2
    <3>2. i.event \in Events \ {e}
      BY <1>0, <2>2, <3>1, HandlersEvent
    <3>3. Unmoved(i.event)
      BY <3>2
    <3>4. /\ phase[i.event] = "chain" /\ i = Awaited(i.event)
          /\ answer[i.event] = "none" /\ ~ timedOut[i.event]
      BY <1>0, <3>1 DEF OnlyAwaited
    <3>. QED BY <3>3, <3>4 DEF Unmoved, Awaited
  <2>. QED BY <2>1, <2>2
<1>4. EventsOK'
  BY <1>0, <1>1 DEF EventsOK, InOrder
<1>5. ChainInv'
  BY <1>2, <1>3, <1>4, InvByEvent, AwaitedExclude, PTL
<1>. QED BY <1>5
-----------------------------------------------------------------------------
(* The queue. *)

LEMMA QueueServes ==
  ASSUME TypeOK, NEW e \in Events, Q!Serve(e)
  PROVE  /\ Q!TypeOK'
         /\ status[e] = "waiting" /\ status'[e] = "serving" /\ attempts'[e] >= 1
         /\ \A f \in Events \ {e} : status'[f] = status[f] /\ attempts'[f] = attempts[f]
         /\ \A f \in Events : ConvOf[f] = ConvOf[e] => status[f] # "serving"
<1>1. /\ status \in [Events -> {"new", "waiting", "serving"} \cup Q!Settled]
      /\ arrival \in [Events -> Nat]
      /\ attempts \in [Events -> 0..MaxAttempts]
  BY DEF TypeOK, Q!TypeOK
<1>2. /\ status[e] = "waiting" /\ attempts[e] < MaxAttempts
      /\ status' = [status EXCEPT ![e] = "serving"]
      /\ attempts' = [attempts EXCEPT ![e] = @ + 1]
      /\ arrival' = arrival
      /\ \A f \in Events : ConvOf[e] = ConvOf[f] => status[f] # "serving"
  BY DEF Q!Serve, Q!SameConv
<1>3. MaxAttempts \in Nat
  BY EngineAssumption DEF EngineAssumption
<1>4. attempts[e] + 1 \in 1..MaxAttempts
  BY <1>1, <1>2, <1>3
<1>. QED BY <1>1, <1>2, <1>4 DEF Q!TypeOK

\* The event is settled, or waits to be served again.
LEMMA QueueMoves ==
  ASSUME TypeOK, NEW e \in Events, Q!Finish(e) \/ Q!Retry(e) \/ Q!Abandon(e)
  PROVE  /\ Q!TypeOK'
         /\ status[e] = "serving"
         /\ Q!Finish(e) => status'[e] = "done"
         /\ Q!Retry(e) \/ Q!Abandon(e) => status'[e] \in {"waiting", "abandoned"}
         /\ attempts' = attempts
         /\ \A f \in Events \ {e} : status'[f] = status[f]
<1>1. /\ status \in [Events -> {"new", "waiting", "serving"} \cup Q!Settled]
      /\ arrival \in [Events -> Nat]
      /\ attempts \in [Events -> 0..MaxAttempts]
  BY DEF TypeOK, Q!TypeOK
<1>2. /\ status[e] = "serving" /\ arrival' = arrival /\ attempts' = attempts
      /\ Q!Finish(e) => status' = [status EXCEPT ![e] = "done"]
      /\ Q!Retry(e) => status' = [status EXCEPT ![e] = "waiting"]
      /\ Q!Abandon(e) => status' = [status EXCEPT ![e] = "abandoned"]
  BY DEF Q!Finish, Q!Retry, Q!Abandon
<1>. QED BY <1>1, <1>2 DEF Q!TypeOK, Q!Settled

\* The queue is left alone.
LEMMA QueueRests ==
  ASSUME TypeOK, UNCHANGED queueVars
  PROVE  Q!TypeOK' /\ status' = status /\ attempts' = attempts
BY DEF TypeOK, Q!TypeOK, queueVars

-----------------------------------------------------------------------------
(* The steps: registration and the queue. *)

LEMMA InitInv == Init => ChainInv
<1> SUFFICES ASSUME Init PROVE ChainInv
  OBVIOUS
<1> USE EngineAssumption DEF EngineAssumption
<1>1. TypeOK
  <2>1. Q!TypeOK
    BY DEF Init, Q!Init, Q!TypeOK
  <2>2. changes \in 0..MaxChanges[direction] /\ direction \in Directions
    BY DEF Init
  <2>. QED BY <2>1, <2>2 DEF Init, TypeOK
<1>2. EventsOK
  BY DEF Init, Q!Init, EventsOK, EventOK, InOrder
<1>3. OneServed /\ OnlyAwaited /\ OneHandlerAtATime
  BY DEF Init, Q!Init, OneServed, OnlyAwaited, OneHandlerAtATime
<1>. QED BY <1>1, <1>2, <1>3, InvByEvent

\* A step of the registration: no event moves.
LEMMA ListMoves ==
  ASSUME ChainInv, registered' \in Seq(Middlewares), InOrder(registered'),
         changes < MaxChanges[direction], changes' = changes + 1,
         steady' \in [Events -> SUBSET Middlewares],
         \A e \in Events : steady'[e] \subseteq steady[e],
         UNCHANGED <<queueVars, direction, phase, chainVars, paused, muted, swallowed>>
  PROVE  ChainInv'
<1>0. /\ TypeOK /\ OneServed /\ OnlyAwaited /\ EventsOK /\ OneHandlerAtATime
  BY InvByEvent
<1>1. TypeOK'
  <2>1. Q!TypeOK'
    BY <1>0, QueueRests
  <2>2. changes' \in 0..MaxChanges[direction']
    <3>1. direction \in Directions /\ changes \in 0..MaxChanges[direction]
      BY <1>0 DEF TypeOK
    <3>2. MaxChanges[direction] \in Nat
      BY <3>1, EngineAssumption DEF EngineAssumption
    <3>. QED BY <3>1, <3>2
  <2>. QED BY <1>0, <2>1, <2>2 DEF TypeOK, chainVars
<1>2. EventsOK'
  <2>1. InOrder(registered)'
    BY DEF InOrder
  <2>2. ASSUME NEW e \in Events PROVE EventOK(e)'
    <3>1. Unmoved(e)
      BY DEF Unmoved, queueVars, chainVars
    <3>. QED BY <1>0, <3>1, UnmovedKeeps DEF EventsOK
  <2>. QED BY <2>1, <2>2 DEF EventsOK
<1>3. OneServed' /\ OnlyAwaited' /\ OneHandlerAtATime'
  BY <1>0 DEF OneServed, OnlyAwaited, OneHandlerAtATime, Awaited, queueVars, chainVars
<1>4. ChainInv'
  BY <1>1, <1>2, <1>3, InvByEvent, PTL
<1>. QED BY <1>4

LEMMA RegisterInv ==
  ASSUME ChainInv, NEW m \in Middlewares, Register(m)
  PROVE  ChainInv'
<1>0. TypeOK /\ EventsOK
  BY InvByEvent
<1>1. PICK p \in 1..(Len(registered) + 1) :
        /\ \A k \in DOMAIN registered : k < p <=> Order[registered[k]] <= Order[m]
        /\ registered' = InsertAt(registered, p, m)
  BY DEF Register
<1>2. /\ registered \in Seq(Middlewares) /\ InOrder(registered)
      /\ m \notin ToSet(registered) /\ Order \in [Middlewares -> Int]
  BY <1>0, EngineAssumption DEF TypeOK, EventsOK, Register, EngineAssumption
<1>3. registered' \in Seq(Middlewares) /\ InOrder(registered')
  <2>1. InsertAt(registered, p, m) \in Seq(Middlewares)
        /\ InOrder(InsertAt(registered, p, m))
    BY <1>1, <1>2, InsertAtKeepsOrder
  <2>. QED BY <1>1, <2>1 DEF InOrder
<1>4. steady' = steady /\ steady \in [Events -> SUBSET Middlewares]
  BY <1>0 DEF Register, TypeOK
<1>. QED BY <1>3, <1>4, ListMoves DEF Register

LEMMA RemoveInv ==
  ASSUME ChainInv, NEW m \in Middlewares, RemoveMiddleware(m)
  PROVE  ChainInv'
<1>0. TypeOK /\ EventsOK
  BY InvByEvent
<1>1. PICK k \in DOMAIN registered : registered' = RemoveAt(registered, k)
  BY DEF RemoveMiddleware
<1>2. registered \in Seq(Middlewares) /\ InOrder(registered)
  BY <1>0 DEF TypeOK, EventsOK
<1>3. registered' \in Seq(Middlewares) /\ InOrder(registered')
  <2>1. RemoveAt(registered, k) \in Seq(Middlewares) /\ InOrder(RemoveAt(registered, k))
    BY <1>2, RemoveAtKeepsOrder
  <2>. QED BY <1>1, <2>1 DEF InOrder
<1>4. /\ steady' \in [Events -> SUBSET Middlewares]
      /\ \A e \in Events : steady'[e] \subseteq steady[e]
  BY <1>0 DEF RemoveMiddleware, TypeOK
<1>. QED BY <1>3, <1>4, ListMoves DEF RemoveMiddleware

LEMMA SendEventInv ==
  ASSUME ChainInv, NEW e \in Events, SendEvent(e)
  PROVE  ChainInv'
<1>0. TypeOK /\ OnlyAwaited /\ EventsOK
  BY InvByEvent
<1>1. /\ status[e] = "new" /\ status' = [status EXCEPT ![e] = "waiting"]
      /\ arrival' = [arrival EXCEPT ![e] = arrival'[e]] /\ arrival'[e] \in Nat
      /\ attempts' = attempts
      /\ UNCHANGED <<setup, phase, chainVars, paused, steady, muted, swallowed>>
  BY DEF SendEvent, Q!Submit
<1>2. TypeOK'
  <2>1. Q!TypeOK'
    BY <1>0, <1>1 DEF TypeOK, Q!TypeOK
  <2>. QED BY <1>0, <1>1, <2>1 DEF TypeOK, chainVars, setup
<1>3. status \in [Events -> {"new", "waiting", "serving"} \cup Q!Settled]
  BY <1>0 DEF TypeOK, Q!TypeOK
<1>4. \A f \in Events \ {e} : Unmoved(f)
  BY <1>1, <1>3 DEF Unmoved, chainVars
<1>5. EventOK(e)'
  <2>1. EventOK(e)
    BY <1>0 DEF EventsOK
  <2>. QED BY <1>1, <1>3, <2>1 DEF EventOK, InOrder, chainVars, setup
<1>6. \A i \in running' \ late' : i.event # e /\ i \in running \ late
  BY <1>0, <1>1, <1>3 DEF OnlyAwaited, EventsOK, EventOK, chainVars
<1>. QED BY <1>1, <1>2, <1>3, <1>4, <1>5, <1>6, OneEventMoves DEF setup

LEMMA StartInv ==
  ASSUME ChainInv, NEW e \in Events, Start(e)
  PROVE  ChainInv'
<1>0. TypeOK /\ OnlyAwaited /\ EventsOK
  BY InvByEvent
<1>1. /\ phase' = [phase EXCEPT ![e] = "before"]
      /\ UNCHANGED <<setup, chainVars, paused, steady, muted, swallowed>>
  BY DEF Start
<1>2. /\ Q!TypeOK'
      /\ status[e] = "waiting" /\ status'[e] = "serving" /\ attempts'[e] >= 1
      /\ \A f \in Events \ {e} : status'[f] = status[f] /\ attempts'[f] = attempts[f]
      /\ \A f \in Events : ConvOf[f] = ConvOf[e] => status[f] # "serving"
  BY <1>0, QueueServes DEF Start
<1>3. TypeOK'
  BY <1>0, <1>1, <1>2 DEF TypeOK, chainVars, setup
<1>4. phase \in [Events -> {"idle", "before", "chain", "after"}]
  BY <1>0 DEF TypeOK
<1>5. \A f \in Events \ {e} : Unmoved(f)
  BY <1>1, <1>2, <1>4 DEF Unmoved, chainVars
<1>6. EventOK(e)'
  <2>1. EventOK(e)
    BY <1>0 DEF EventsOK
  <2>. QED BY <1>1, <1>2, <1>4, <2>1 DEF EventOK, InOrder, chainVars, setup
<1>7. \A i \in running' \ late' : i.event # e /\ i \in running \ late
  BY <1>0, <1>1, <1>2 DEF OnlyAwaited, EventsOK, EventOK, chainVars
<1>. QED BY <1>1, <1>2, <1>3, <1>5, <1>6, <1>7, OneEventMoves DEF setup

-----------------------------------------------------------------------------
(* The steps: the end of an attempt. *)

\* No handler of an event is at work but those its timer gave up.
Quiet(e) == \A i \in running \ late : i.event # e

\* While run() has no handler to await, or the awaited one has answered or was
\* given up, the event is quiet.
LEMMA NotAwaiting ==
  ASSUME ChainInv, NEW e \in Events,
         phase[e] # "chain" \/ answer[e] # "none" \/ timedOut[e]
  PROVE  Quiet(e)
BY InvByEvent DEF OnlyAwaited, Quiet

\* The attempt is over: the event fails, or is done after its after hook.
LEMMA AttemptEnds ==
  ASSUME ChainInv, NEW e \in Events, Quiet(e),
         phase' = [phase EXCEPT ![e] = "idle"],
         Q!Retry(e) \/ Q!Abandon(e) \/ (Q!Finish(e) /\ phase[e] = "after"),
         UNCHANGED <<setup, chainVars, paused, steady, muted, swallowed>>
  PROVE  ChainInv'
<1>0. TypeOK /\ OnlyAwaited /\ EventsOK
  BY InvByEvent
<1>1. /\ Q!TypeOK'
      /\ status[e] = "serving"
      /\ status'[e] \in {"waiting", "abandoned"} \/ (status'[e] = "done" /\ phase[e] = "after")
      /\ attempts' = attempts
      /\ \A f \in Events \ {e} : status'[f] = status[f]
  BY <1>0, QueueMoves
<1>2. phase \in [Events -> {"idle", "before", "chain", "after"}]
  BY <1>0 DEF TypeOK
<1>3. TypeOK'
  BY <1>0, <1>1, <1>2 DEF TypeOK, chainVars, setup
<1>4. \A f \in Events \ {e} : Unmoved(f)
  BY <1>1, <1>2 DEF Unmoved, chainVars
<1>5. EventOK(e)'
  <2>1. EventOK(e)
    BY <1>0 DEF EventsOK
  <2>. QED BY <1>1, <1>2, <2>1 DEF EventOK, InOrder, chainVars, setup
<1>6. \A i \in running' \ late' : i.event # e /\ i \in running \ late
  BY DEF Quiet, chainVars
<1>. QED BY <1>1, <1>3, <1>4, <1>5, <1>6, OneEventMoves DEF setup

LEMMA EventFails ==
  ASSUME ChainInv, NEW e \in Events, Quiet(e), Fail(e),
         UNCHANGED <<setup, chainVars, paused, steady, muted, swallowed>>
  PROVE  ChainInv'
BY AttemptEnds DEF Fail

LEMMA HookInv ==
  ASSUME ChainInv, NEW e \in Events, BeforeFails(e) \/ AfterFails(e) \/ AfterDone(e)
  PROVE  ChainInv'
<1>1. Quiet(e)
  BY NotAwaiting DEF BeforeFails, AfterFails, AfterDone
<1>2. CASE BeforeFails(e)
  BY <1>1, <1>2, EventFails DEF BeforeFails
<1>3. CASE AfterFails(e)
  BY <1>1, <1>3, EventFails DEF AfterFails
<1>4. CASE AfterDone(e)
  BY <1>1, <1>4, AttemptEnds DEF AfterDone
<1>. QED BY <1>2, <1>3, <1>4

LEMMA HandlerFailsInv ==
  ASSUME ChainInv, NEW e \in Events, HandlerFails(e)
  PROVE  ChainInv'
<1>1. Quiet(e)
  BY NotAwaiting DEF HandlerFails
<1>. QED BY <1>1, EventFails DEF HandlerFails

-----------------------------------------------------------------------------
(* The steps: handlers and timers. *)

LEMMA AnswerInv ==
  ASSUME ChainInv, NEW i \in running, NEW a \in Answers, Answer(i, a)
  PROVE  ChainInv'
<1> DEFINE e == i.event
<1>0. TypeOK /\ OnlyAwaited /\ EventsOK
  BY InvByEvent
<1>1. e \in Events
  BY <1>0, HandlersEvent
<1> HIDE DEF e
<1>2. /\ running' = running \ {i} /\ late' = late \ {i}
      /\ UNCHANGED <<queueVars, setup, phase, chain, pos, timedOut,
                     paused, seen, steady, muted, swallowed>>
  BY DEF Answer
<1>3. \/ answer' = answer
      \/ answer' = [answer EXCEPT ![e] = a] /\ i = Awaited(e)
  BY DEF Answer, e
<1>4. /\ answer' \in [Events -> Answers \cup {"none"}]
      /\ \A f \in Events \ {e} : answer'[f] = answer[f]
  <2>1. answer \in [Events -> Answers \cup {"none"}]
    BY <1>0 DEF TypeOK
  <2>2. CASE answer' = answer
    BY <2>1, <2>2
  <2>3. CASE answer' = [answer EXCEPT ![e] = a]
    BY <2>1, <2>3, <1>1
  <2>. QED BY <1>3, <2>2, <2>3
<1>5. TypeOK'
  <2>1. Q!TypeOK'
    BY <1>0, <1>2, QueueRests
  <2>. QED BY <1>0, <1>2, <1>4, <2>1 DEF TypeOK, setup
<1>6. \A f \in Events \ {e} : Unmoved(f)
  BY <1>2, <1>4 DEF Unmoved, queueVars
<1>7. EventOK(e)'
  <2>1. EventOK(e)
    BY <1>0, <1>1 DEF EventsOK
  <2>. QED BY <1>2, <2>1 DEF EventOK, InOrder, queueVars, setup
<1>8. ASSUME NEW j \in running' \ late'
      PROVE  IF j.event = e
               THEN /\ phase'[e] = "chain" /\ j = Awaited(e)'
                    /\ answer'[e] = "none" /\ ~ timedOut'[e]
               ELSE j \in running \ late
  <2>1. j \in running \ late /\ j # i
    BY <1>2
  <2>2. CASE j.event = e
    <3>1. /\ phase[e] = "chain" /\ j = Awaited(e)
          /\ answer[e] = "none" /\ ~ timedOut[e]
      BY <1>0, <2>1, <2>2 DEF OnlyAwaited
    <3>2. answer' = answer
      BY <1>3, <2>1, <3>1
    <3>. QED BY <1>2, <2>2, <3>1, <3>2 DEF Awaited, queueVars
  <2>. QED BY <2>1, <2>2
<1>9. status' = status
  BY <1>2 DEF queueVars
<1>. QED BY <1>1, <1>2, <1>5, <1>6, <1>7, <1>8, <1>9, OneEventMoves DEF setup

LEMMA SetPauseInv ==
  ASSUME ChainInv, NEW i \in running, SetPause(i)
  PROVE  ChainInv'
<1> DEFINE e == i.event
<1>0. TypeOK /\ OnlyAwaited /\ EventsOK
  BY InvByEvent
<1>1. e \in Events
  BY <1>0, HandlersEvent
<1>2. /\ paused' = [paused EXCEPT ![e] = TRUE]
      /\ muted' = [muted EXCEPT ![e] = @ \/ phase[e] = "chain"]
      /\ UNCHANGED <<queueVars, setup, phase, chainVars, steady, swallowed>>
  BY DEF SetPause
<1> HIDE DEF e
<1>3. paused \in [Events -> BOOLEAN] /\ muted \in [Events -> BOOLEAN]
  BY <1>0 DEF TypeOK
<1>4. TypeOK'
  <2>1. Q!TypeOK'
    BY <1>0, <1>2, QueueRests
  <2>2. paused' \in [Events -> BOOLEAN] /\ muted' \in [Events -> BOOLEAN]
    BY <1>1, <1>2, <1>3
  <2>. QED BY <1>0, <1>2, <2>1, <2>2 DEF TypeOK, setup, chainVars
<1>5. \A f \in Events \ {e} : Unmoved(f)
  BY <1>2, <1>3 DEF Unmoved, queueVars, chainVars
<1>6. EventOK(e)'
  <2>1. EventOK(e)
    BY <1>0, <1>1 DEF EventsOK
  <2>2. paused'[e] /\ (muted'[e] <=> muted[e] \/ phase[e] = "chain")
    BY <1>1, <1>2, <1>3
  <2>3. muted'[e] => paused'[e] /\ phase'[e] # "after"
    BY <1>2, <2>1, <2>2 DEF EventOK
  <2>. QED BY <1>2, <2>1, <2>3 DEF EventOK, InOrder, queueVars, setup, chainVars
<1>7. ASSUME NEW j \in running' \ late'
      PROVE  IF j.event = e
               THEN /\ phase'[e] = "chain" /\ j = Awaited(e)'
                    /\ answer'[e] = "none" /\ ~ timedOut'[e]
               ELSE j \in running \ late
  BY <1>0, <1>2 DEF OnlyAwaited, Awaited, queueVars, chainVars
<1>8. status' = status
  BY <1>2 DEF queueVars
<1>. QED BY <1>1, <1>2, <1>4, <1>5, <1>6, <1>7, <1>8, OneEventMoves DEF setup

LEMMA TimerFiresInv ==
  ASSUME ChainInv, NEW e \in Events, TimerFires(e)
  PROVE  ChainInv'
<1>0. TypeOK /\ OnlyAwaited /\ EventsOK
  BY InvByEvent
<1>1. /\ timedOut' = [timedOut EXCEPT ![e] = TRUE]
      /\ late' = late \cup ({Awaited(e)} \cap running)
      /\ UNCHANGED <<queueVars, setup, phase, chain, pos, answer,
                     running, paused, seen, steady, muted, swallowed>>
  BY DEF TimerFires
<1>2. TypeOK'
  <2>1. Q!TypeOK'
    BY <1>0, <1>1, QueueRests
  <2>2. timedOut' \in [Events -> BOOLEAN] /\ late' \subseteq running'
    BY <1>0, <1>1 DEF TypeOK
  <2>. QED BY <1>0, <1>1, <2>1, <2>2 DEF TypeOK, setup
<1>3. \A f \in Events \ {e} : Unmoved(f)
  BY <1>0, <1>1 DEF Unmoved, queueVars, TypeOK
<1>4. EventOK(e)'
  <2>1. EventOK(e)
    BY <1>0 DEF EventsOK
  <2>. QED BY <1>1, <2>1 DEF EventOK, InOrder, queueVars, setup
<1>5. ASSUME NEW j \in running' \ late'
      PROVE  j.event # e /\ j \in running \ late
  <2>1. j \in running \ late /\ j # Awaited(e)
    BY <1>1
  <2>. QED BY <1>0, <2>1 DEF OnlyAwaited
<1>6. status' = status
  BY <1>1 DEF queueVars
<1>. QED BY <1>1, <1>2, <1>3, <1>4, <1>5, <1>6, OneEventMoves DEF setup

-----------------------------------------------------------------------------
(* The steps: run() goes on. *)

\* After its last handler the event goes on to the after hook, or is done.
LEMMA ChainEnds ==
  ASSUME TypeOK, NEW e \in Events, status[e] = "serving", EndChain(e)
  PROVE  /\ Q!TypeOK'
         /\ phase' \in [Events -> {"idle", "before", "chain", "after"}]
         /\ \/ phase'[e] = "after" /\ status'[e] = "serving" /\ direction = "incoming" /\ ~ paused[e]
            \/ phase'[e] = "idle" /\ status'[e] = "done"
         /\ attempts' = attempts
         /\ \A f \in Events \ {e} : status'[f] = status[f] /\ phase'[f] = phase[f]
<1>0. phase \in [Events -> {"idle", "before", "chain", "after"}]
  BY DEF TypeOK
<1>1. CASE direction = "incoming" /\ ~ paused[e]
  <2>1. phase' = [phase EXCEPT ![e] = "after"] /\ UNCHANGED queueVars
    BY <1>1 DEF EndChain
  <2>2. Q!TypeOK' /\ status' = status /\ attempts' = attempts
    BY <2>1, QueueRests
  <2>. QED BY <1>0, <1>1, <2>1, <2>2
<1>2. CASE ~ (direction = "incoming" /\ ~ paused[e])
  <2>1. phase' = [phase EXCEPT ![e] = "idle"] /\ Q!Finish(e)
    BY <1>2 DEF EndChain
  <2>2. /\ Q!TypeOK' /\ status'[e] = "done" /\ attempts' = attempts
        /\ \A f \in Events \ {e} : status'[f] = status[f]
    BY <2>1, QueueMoves
  <2>. QED BY <1>0, <2>1, <2>2
<1>. QED BY <1>1, <1>2

LEMMA SwallowInv ==
  ASSUME ChainInv, NEW e \in Events, Swallow(e)
  PROVE  ChainInv'
<1>0. TypeOK /\ OnlyAwaited /\ EventsOK
  BY InvByEvent
<1>1. EventOK(e)
  BY <1>0 DEF EventsOK
<1>2. /\ phase[e] = "chain" /\ answer[e] = "swallow" /\ EndChain(e)
      /\ swallowed' = [swallowed EXCEPT ![e] = TRUE]
      /\ UNCHANGED <<setup, chainVars, paused, steady, muted>>
  BY DEF Swallow
<1>3. /\ Q!TypeOK'
      /\ phase' \in [Events -> {"idle", "before", "chain", "after"}]
      /\ \/ phase'[e] = "after" /\ status'[e] = "serving" /\ direction = "incoming" /\ ~ paused[e]
         \/ phase'[e] = "idle" /\ status'[e] = "done"
      /\ attempts' = attempts
      /\ \A f \in Events \ {e} : status'[f] = status[f] /\ phase'[f] = phase[f]
  BY <1>0, <1>1, <1>2, ChainEnds DEF EventOK
<1>4. swallowed' \in [Events -> BOOLEAN] /\ swallowed'[e]
      /\ \A f \in Events \ {e} : swallowed'[f] = swallowed[f]
  BY <1>0, <1>2 DEF TypeOK
<1>5. TypeOK'
  BY <1>0, <1>2, <1>3, <1>4 DEF TypeOK, chainVars, setup
<1>6. \A f \in Events \ {e} : Unmoved(f)
  BY <1>2, <1>3, <1>4 DEF Unmoved, chainVars
<1>7. EventOK(e)'
  BY <1>1, <1>2, <1>3, <1>4 DEF EventOK, InOrder, chainVars, setup
<1>8. \A i \in running' \ late' : i.event # e /\ i \in running \ late
  BY <1>2, NotAwaiting DEF Quiet, chainVars
<1>9. status[e] = "serving"
  BY <1>1, <1>2 DEF EventOK
<1>. QED BY <1>2, <1>5, <1>6, <1>7, <1>8, <1>9, OneEventMoves DEF setup

\* run() takes the next step of a stack, of which it has called the first
\* k - 1 handlers.
LEMMA CallInv ==
  ASSUME ChainInv, NEW e \in Events, Quiet(e),
         NEW stack \in Seq(Middlewares), InOrder(stack), NEW k \in 1..(Len(stack) + 1),
         \/ k = 1 /\ phase[e] = "before"
         \/ /\ phase[e] = "chain" /\ stack = chain[e] /\ k = pos[e] + 1 /\ k > 1
            /\ steady' = steady,
         Call(e, stack, k),
         steady' \in [Events -> SUBSET Middlewares],
         steady'[e] \subseteq ToSet(stack),
         \A f \in Events \ {e} : steady'[f] = steady[f],
         UNCHANGED <<setup, paused, muted, swallowed>>
  PROVE  ChainInv'
<1>0. TypeOK /\ OnlyAwaited /\ EventsOK
  BY InvByEvent
<1>1. EventOK(e)
  BY <1>0 DEF EventsOK
<1>2. status[e] = "serving" /\ Len(stack) \in Nat /\ DOMAIN stack = 1..Len(stack)
  BY <1>1, LenProperties DEF EventOK
<1> DEFINE base == IF k = 1 THEN <<>> ELSE seen[e]
<1>3. /\ base \in Seq(Middlewares) /\ Len(base) = k - 1
      /\ \A n \in 1..(k - 1) : base[n] = stack[n]
  <2>1. CASE k = 1
    BY <2>1
  <2>2. CASE k # 1
    <3>1. /\ phase[e] = "chain" /\ stack = chain[e] /\ k = pos[e] + 1
      BY <2>2
    <3>2. seen[e] \in Seq(Middlewares) /\ pos[e] \in Nat
      BY <1>0 DEF TypeOK
    <3>3. /\ Len(seen[e]) = pos[e] /\ \A n \in DOMAIN seen[e] : seen[e][n] = stack[n]
      BY <1>1, <3>1 DEF EventOK
    <3>4. DOMAIN seen[e] = 1..pos[e]
      BY <3>2, <3>3, LenProperties
    <3>5. k - 1 = pos[e]
      BY <3>1, <3>2
    <3>. QED BY <2>2, <3>2, <3>3, <3>4, <3>5
  <2>. QED BY <2>1, <2>2
<1>4. /\ chain' = [chain EXCEPT ![e] = stack]
      /\ pos' = [pos EXCEPT ![e] = k]
      /\ answer' = [answer EXCEPT ![e] = "none"]
      /\ timedOut' = [timedOut EXCEPT ![e] = FALSE]
      /\ late' = late
  BY DEF Call
<1>5. /\ chain' \in [Events -> Seq(Middlewares)] /\ chain'[e] = stack
      /\ pos' \in [Events -> Nat] /\ pos'[e] = k
      /\ answer' \in [Events -> Answers \cup {"none"}] /\ answer'[e] = "none"
      /\ timedOut' \in [Events -> BOOLEAN] /\ timedOut'[e] = FALSE
      /\ \A f \in Events \ {e} : /\ chain'[f] = chain[f] /\ pos'[f] = pos[f]
                                 /\ answer'[f] = answer[f] /\ timedOut'[f] = timedOut[f]
  <2>1. k \in Nat
    BY <1>2
  <2>. QED BY <1>0, <1>4, <2>1 DEF TypeOK
<1>6. CASE k <= Len(stack)
  <2> DEFINE called == [event |-> e, attempt |-> attempts[e], mw |-> stack[k]]
  <2>1. /\ seen' = [seen EXCEPT ![e] = base \o <<stack[k]>>]
        /\ running' = running \cup {called}
        /\ phase' = [phase EXCEPT ![e] = "chain"]
        /\ UNCHANGED queueVars
    BY <1>6 DEF Call
  <2>2. k \in DOMAIN stack /\ stack[k] \in Middlewares
    BY <1>2, <1>6, ElementOfSeq
  <2>3. /\ base \o <<stack[k]>> \in Seq(Middlewares)
        /\ Len(base \o <<stack[k]>>) = k
        /\ \A n \in 1..k : (base \o <<stack[k]>>)[n] = stack[n]
    <3> HIDE DEF base
    <3>1. /\ base \o <<stack[k]>> \in Seq(Middlewares)
          /\ Len(base \o <<stack[k]>>) = Len(base) + 1
          /\ \A n \in 1..Len(base) : (base \o <<stack[k]>>)[n] = base[n]
          /\ (base \o <<stack[k]>>)[Len(base) + 1] = stack[k]
      <4>1. base \in Seq(Middlewares) /\ stack[k] \in Middlewares
        BY <1>3, <2>2
      <4>. QED BY ONLY <4>1, AddLast
    <3>2. (k - 1) + 1 = k
      BY <1>2
    <3>. QED BY <1>2, <1>3, <3>1, <3>2
  <2>4. /\ seen' \in [Events -> Seq(Middlewares)] /\ Len(seen'[e]) = k
        /\ \A n \in 1..k : seen'[e][n] = stack[n]
        /\ DOMAIN seen'[e] = 1..k
        /\ \A f \in Events \ {e} : seen'[f] = seen[f]
    <3> HIDE DEF base
    <3>1. seen' \in [Events -> Seq(Middlewares)] /\ seen'[e] = base \o <<stack[k]>>
      BY <1>0, <2>1, <2>3 DEF TypeOK
    <3>2. \A f \in Events \ {e} : seen'[f] = seen[f]
      BY <1>0, <2>1 DEF TypeOK
    <3>3. DOMAIN (base \o <<stack[k]>>) = 1..k
      BY <2>3, LenProperties
    <3>. QED BY <3>1, <3>2, <3>3, <2>3
  <2> HIDE DEF base
  <2>5. called \in Invocation
    <3>1. attempts[e] \in 0..MaxAttempts /\ attempts[e] >= 1
      BY <1>0, <1>1, <1>2 DEF TypeOK, Q!TypeOK, EventOK
    <3>2. attempts[e] \in 1..MaxAttempts
      BY <3>1, EngineAssumption DEF EngineAssumption
    <3>. QED BY <2>2, <3>2 DEF Invocation
  <2>6. /\ Q!TypeOK' /\ status' = status /\ attempts' = attempts
    BY <1>0, <2>1, QueueRests
  <2>7. /\ phase' \in [Events -> {"idle", "before", "chain", "after"}] /\ phase'[e] = "chain"
        /\ \A f \in Events \ {e} : phase'[f] = phase[f]
    BY <1>0, <2>1 DEF TypeOK
  <2>8. called.event = e /\ called = Awaited(e)'
    BY <1>5, <2>6 DEF Awaited
  <2> HIDE DEF called
  <2>9. TypeOK'
    <3>1. running' \subseteq Invocation /\ late' \subseteq running'
      BY <1>0, <1>4, <2>1, <2>5 DEF TypeOK
    <3>. QED BY <1>0, <1>5, <2>4, <2>6, <2>7, <3>1 DEF TypeOK, setup
  <2>10. \A f \in Events \ {e} : Unmoved(f)
    BY <1>5, <2>4, <2>6, <2>7 DEF Unmoved
  <2>11. EventOK(e)'
    <3>1. InOrder(chain[e])'
      BY <1>5 DEF InOrder
    <3>2. /\ Len(seen'[e]) <= Len(chain'[e])
          /\ \A n \in DOMAIN seen'[e] : seen'[e][n] = chain'[e][n]
          /\ pos'[e] \in DOMAIN chain'[e] /\ Len(seen'[e]) = pos'[e]
          /\ steady'[e] \subseteq ToSet(chain'[e])
      BY <1>2, <1>5, <1>6, <2>2, <2>4
    <3>3. /\ muted'[e] => paused'[e]
          /\ swallowed'[e] /\ direction' = "outgoing" => status'[e] = "done"
          /\ status'[e] = "serving" /\ attempts'[e] >= 1
      BY <1>1, <1>2, <2>6 DEF EventOK, setup
    <3>. QED BY <2>7, <3>1, <3>2, <3>3 DEF EventOK
  <2>12. ASSUME NEW i \in running' \ late'
         PROVE  IF i.event = e
                  THEN /\ phase'[e] = "chain" /\ i = Awaited(e)'
                       /\ answer'[e] = "none" /\ ~ timedOut'[e]
                  ELSE i \in running \ late
    <3>1. CASE i \in running
      BY <1>4, <3>1 DEF Quiet
    <3>2. CASE i \notin running
      <4>1. i = called
        BY <2>1, <3>2
      <4>. QED BY <1>5, <2>7, <2>8, <4>1
    <3>. QED BY <3>1, <3>2
  <2>13. registered' = registered /\ direction' = direction
    BY DEF setup
  <2>. QED BY <2>6, <2>9, <2>10, <2>11, <2>12, <2>13, OneEventMoves
<1>7. CASE ~ (k <= Len(stack))
  <2>1. seen' = [seen EXCEPT ![e] = base] /\ EndChain(e) /\ running' = running
    BY <1>7 DEF Call
  <2>2. k - 1 = Len(stack)
    BY <1>2, <1>7
  <2> HIDE DEF base
  <2>3. /\ seen' \in [Events -> Seq(Middlewares)] /\ seen'[e] = base
        /\ \A f \in Events \ {e} : seen'[f] = seen[f]
    BY <1>0, <1>3, <2>1 DEF TypeOK
  <2>4. DOMAIN base = 1..(k - 1)
    BY <1>3, LenProperties
  <2>5. /\ Q!TypeOK'
        /\ phase' \in [Events -> {"idle", "before", "chain", "after"}]
        /\ \/ phase'[e] = "after" /\ status'[e] = "serving" /\ direction = "incoming" /\ ~ paused[e]
           \/ phase'[e] = "idle" /\ status'[e] = "done"
        /\ attempts' = attempts
        /\ \A f \in Events \ {e} : status'[f] = status[f] /\ phase'[f] = phase[f]
    BY <1>0, <1>2, <2>1, ChainEnds
  <2>6. TypeOK'
    <3>1. running' \subseteq Invocation /\ late' \subseteq running'
      BY <1>0, <1>4, <2>1 DEF TypeOK
    <3>. QED BY <1>0, <1>5, <2>3, <2>5, <3>1 DEF TypeOK, setup
  <2>7. \A f \in Events \ {e} : Unmoved(f)
    BY <1>5, <2>3, <2>5 DEF Unmoved
  <2>8. EventOK(e)'
    <3>1. InOrder(chain[e])'
      BY <1>5 DEF InOrder
    <3>2. /\ Len(seen'[e]) = Len(chain'[e])
          /\ \A n \in DOMAIN seen'[e] : seen'[e][n] = chain'[e][n]
          /\ steady'[e] \subseteq ToSet(chain'[e])
      BY <1>3, <1>5, <2>2, <2>3, <2>4
    <3>3. /\ muted'[e] => paused'[e] /\ phase'[e] # "after"
          /\ swallowed'[e] /\ direction' = "outgoing" => status'[e] = "done"
          /\ status'[e] = "serving" => attempts'[e] >= 1
      BY <1>1, <1>2, <2>5 DEF EventOK, setup
    <3>4. Len(seen'[e]) <= Len(chain'[e])
      BY <1>2, <1>5, <3>2
    <3>. QED BY <2>5, <3>1, <3>2, <3>3, <3>4 DEF EventOK
  <2>9. \A i \in running' \ late' : i.event # e /\ i \in running \ late
    BY <1>4, <2>1 DEF Quiet
  <2>10. registered' = registered /\ direction' = direction
    BY DEF setup
  <2>. QED BY <1>2, <2>6, <2>7, <2>8, <2>9, <2>10, OneEventMoves
<1>. QED BY <1>6, <1>7

LEMMA BeforeDoneInv ==
  ASSUME ChainInv, NEW e \in Events, BeforeDone(e)
  PROVE  ChainInv'
<1>0. TypeOK /\ EventsOK
  BY InvByEvent
<1>1. /\ phase[e] = "before" /\ Call(e, registered, 1)
      /\ steady' = [steady EXCEPT ![e] = ToSet(registered)]
      /\ UNCHANGED <<setup, paused, muted, swallowed>>
  BY DEF BeforeDone
<1>2. registered \in Seq(Middlewares) /\ InOrder(registered)
  BY <1>0 DEF TypeOK, EventsOK
<1>3. ToSet(registered) \subseteq Middlewares /\ 1 \in 1..(Len(registered) + 1)
  BY <1>2, ElementOfSeq, LenProperties DEF ToSet
<1>4. /\ steady' \in [Events -> SUBSET Middlewares]
      /\ steady'[e] = ToSet(registered)
      /\ \A f \in Events \ {e} : steady'[f] = steady[f]
  BY <1>0, <1>1, <1>3 DEF TypeOK
<1>5. Quiet(e)
  BY <1>1, NotAwaiting
<1>. QED BY <1>1, <1>2, <1>3, <1>4, <1>5, CallInv

LEMMA NextHandlerInv ==
  ASSUME ChainInv, NEW e \in Events, NextHandler(e)
  PROVE  ChainInv'
<1>0. TypeOK /\ EventsOK
  BY InvByEvent
<1>1. /\ phase[e] = "chain" /\ Call(e, chain[e], pos[e] + 1)
      /\ timedOut[e] \/ answer[e] = "next"
      /\ steady' = steady
      /\ UNCHANGED <<setup, paused, muted, swallowed>>
  BY DEF NextHandler
<1>2. chain[e] \in Seq(Middlewares) /\ steady \in [Events -> SUBSET Middlewares]
  BY <1>0 DEF TypeOK
<1>3. InOrder(chain[e]) /\ pos[e] \in DOMAIN chain[e] /\ steady[e] \subseteq ToSet(chain[e])
  BY <1>0, <1>1 DEF EventsOK, EventOK
<1>4. pos[e] + 1 \in 1..(Len(chain[e]) + 1) /\ pos[e] + 1 > 1
  BY <1>2, <1>3, LenProperties
<1>5. Quiet(e)
  BY <1>1, NotAwaiting
<1>. QED BY <1>1, <1>2, <1>3, <1>4, <1>5, CallInv

-----------------------------------------------------------------------------
(* The theorems. *)

LEMMA NextInv == ChainInv /\ [Next]_vars => ChainInv'
<1> SUFFICES ASSUME ChainInv, [Next]_vars PROVE ChainInv'
  OBVIOUS
<1>1. ASSUME NEW m \in Middlewares, Register(m) \/ RemoveMiddleware(m) PROVE ChainInv'
  BY <1>1, RegisterInv, RemoveInv
<1>2. ASSUME NEW e \in Events, SendEvent(e) \/ Start(e) PROVE ChainInv'
  BY <1>2, SendEventInv, StartInv
<1>3. ASSUME NEW e \in Events, Hook(e) PROVE ChainInv'
  BY <1>3, BeforeDoneInv, HookInv DEF Hook
<1>4. ASSUME NEW e \in Events, TimerFires(e) PROVE ChainInv'
  BY <1>4, TimerFiresInv
<1>5. ASSUME NEW e \in Events, Continue(e) PROVE ChainInv'
  BY <1>5, NextHandlerInv, SwallowInv, HandlerFailsInv DEF Continue
<1>6. ASSUME NEW i \in running, SetPause(i) \/ \E a \in Answers : Answer(i, a) PROVE ChainInv'
  BY <1>6, SetPauseInv, AnswerInv
<1>7. CASE UNCHANGED vars
  <2>1. /\ UNCHANGED <<queueVars, setup, phase, chainVars, paused, steady, muted, swallowed>>
    BY <1>7 DEF vars
  <2>2. TypeOK /\ OneServed /\ OnlyAwaited /\ EventsOK /\ OneHandlerAtATime
    BY InvByEvent
  <2>3. TypeOK'
    <3>1. Q!TypeOK'
      BY <2>1, <2>2, QueueRests
    <3>. QED BY <2>1, <2>2, <3>1 DEF TypeOK, setup, chainVars
  <2>4. EventsOK'
    BY <2>1, <2>2 DEF EventsOK, EventOK, InOrder, setup, chainVars, queueVars
  <2>5. OneServed' /\ OnlyAwaited' /\ OneHandlerAtATime'
    BY <2>1, <2>2 DEF OneServed, OnlyAwaited, OneHandlerAtATime, Awaited, chainVars, queueVars
  <2>6. ChainInv'
    BY <2>3, <2>4, <2>5, InvByEvent, PTL
  <2>. QED BY <2>6
<1>. QED BY <1>1, <1>2, <1>3, <1>4, <1>5, <1>6, <1>7 DEF Next

\* Whatever handlers do, and whenever their timers fire, the chain of each event
\* is run in order, and a conversation has one handler at work at a time.
THEOREM ChainInvariance == Spec => []ChainInv
<1>1. Init => ChainInv
  BY InitInv
<1>2. ChainInv /\ [Next]_vars => ChainInv'
  BY NextInv
<1>. QED BY <1>1, <1>2, PTL DEF Spec

\* An event whose chain ended without a swallow was given to every middleware
\* registered all along, each once and in order.
THEOREM CompleteChains == Spec => []NoneSkipped
<1>1. ChainInv => NoneSkipped
  <2> SUFFICES ASSUME ChainInv, NEW e \in Events
               PROVE  /\ InOrder(seen[e])
                      /\ (phase[e] = "after" \/ status[e] = "done") /\ ~ swallowed[e]
                         => steady[e] \subseteq ToSet(seen[e])
    BY DEF NoneSkipped, InOrder
  <2>1. /\ seen[e] \in Seq(Middlewares) /\ chain[e] \in Seq(Middlewares)
        /\ EventOK(e)
    BY InvByEvent DEF TypeOK, EventsOK
  <2>2. /\ DOMAIN seen[e] = 1..Len(seen[e]) /\ Len(seen[e]) \in Nat
        /\ DOMAIN chain[e] = 1..Len(chain[e]) /\ Len(chain[e]) \in Nat
    BY <2>1, LenProperties
  <2>3. DOMAIN seen[e] \subseteq DOMAIN chain[e]
    BY <2>1, <2>2 DEF EventOK
  <2>4. InOrder(seen[e])
    BY <2>1, <2>3 DEF EventOK, InOrder
  <2>5. ASSUME phase[e] = "after" \/ status[e] = "done", ~ swallowed[e]
        PROVE  steady[e] \subseteq ToSet(seen[e])
    <3>1. DOMAIN seen[e] = DOMAIN chain[e]
      BY <2>1, <2>2, <2>5 DEF EventOK
    <3>. QED BY <2>1, <3>1 DEF EventOK, ToSet
  <2>. QED BY <2>4, <2>5
<1>. QED BY <1>1, ChainInvariance, PTL

\* A pause set while the chain was running keeps the decision engine out.
THEOREM PauseHolds == Spec => []PauseMutesTheBot
<1>1. ChainInv => PauseMutesTheBot
  BY DEF ChainInv, MutedStaysPaused, PauseMutesTheBot
<1>. QED BY <1>1, ChainInvariance, PTL

\* What a step does to an event that is done.
LEMMA DoneRests ==
  ASSUME ChainInv, [Next]_vars, NEW e \in Events, status[e] = "done"
  PROVE  seen'[e] = seen[e] /\ phase'[e] = phase[e]
<1>0. TypeOK /\ phase[e] = "idle"
  BY InvByEvent DEF EventsOK, EventOK, TypeOK
<1>1. seen \in [Events -> Seq(Middlewares)]
      /\ phase \in [Events -> {"idle", "before", "chain", "after"}]
  BY <1>0 DEF TypeOK
<1>2. ASSUME NEW m \in Middlewares, Register(m) \/ RemoveMiddleware(m)
      PROVE  seen' = seen /\ phase' = phase
  BY <1>2 DEF Register, RemoveMiddleware, chainVars
<1>3. ASSUME NEW f \in Events, SendEvent(f)
      PROVE  seen' = seen /\ phase' = phase
  BY <1>3 DEF SendEvent, chainVars
<1>4. ASSUME NEW f \in Events, Start(f)
      PROVE  seen'[e] = seen[e] /\ phase'[e] = phase[e]
  <2>1. f # e
    BY <1>0, <1>4, QueueServes DEF Start
  <2>. QED BY <1>1, <1>4, <2>1 DEF Start, chainVars
<1>5. ASSUME NEW f \in Events, phase[f] # "idle", NEW stack, NEW k, Call(f, stack, k)
      PROVE  seen'[e] = seen[e] /\ phase'[e] = phase[e]
  BY <1>0, <1>1, <1>5 DEF Call, EndChain
<1>6. ASSUME NEW f \in Events, Hook(f)
      PROVE  seen'[e] = seen[e] /\ phase'[e] = phase[e]
  BY <1>0, <1>1, <1>5, <1>6
     DEF Hook, BeforeDone, BeforeFails, AfterDone, AfterFails, Fail, chainVars
<1>7. ASSUME NEW f \in Events, Continue(f)
      PROVE  seen'[e] = seen[e] /\ phase'[e] = phase[e]
  <2>1. CASE NextHandler(f)
    BY <1>5, <2>1 DEF NextHandler
  <2>2. CASE Swallow(f)
    BY <1>0, <1>1, <2>2 DEF Swallow, EndChain, chainVars
  <2>3. CASE HandlerFails(f)
    BY <1>0, <1>1, <2>3 DEF HandlerFails, Fail, chainVars
  <2>. QED BY <1>7, <2>1, <2>2, <2>3 DEF Continue
<1>8. ASSUME NEW f \in Events, TimerFires(f)
      PROVE  seen' = seen /\ phase' = phase
  BY <1>8 DEF TimerFires
<1>9. ASSUME NEW i \in running, SetPause(i) \/ \E a \in Answers : Answer(i, a)
      PROVE  seen' = seen /\ phase' = phase
  BY <1>9 DEF SetPause, Answer, chainVars
<1>10. CASE UNCHANGED vars
  BY <1>10 DEF vars, chainVars
<1>. QED BY <1>2, <1>3, <1>4, <1>6, <1>7, <1>8, <1>9, <1>10 DEF Next

\* A message that a channel took in time is not handed to any handler again.
THEOREM SentOnce == Spec => SwallowIsFinal
<1>1. ChainInv /\ [Next]_vars =>
        [\A e \in Events :
           swallowed[e] /\ direction = "outgoing" => seen'[e] = seen[e] /\ phase'[e] = phase[e]]_vars
  BY DoneRests DEF ChainInv, SwallowedIsDone
<1>. QED BY <1>1, ChainInvariance, PTL DEF Spec, SwallowIsFinal
=============================================================================
