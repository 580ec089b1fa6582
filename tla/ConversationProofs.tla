------------------------- MODULE ConversationProofs -------------------------
(***************************************************************************)
(* Theorems about what carries a conversation from one event to the next:  *)
(* first the queue that its events pass (MemoryQueue), then the session    *)
(* that they leave behind (SessionState).                                  *)
(***************************************************************************)
EXTENDS MemoryQueue, SessionState, SequenceTheorems, FiniteSetTheorems, TLAPS

-----------------------------------------------------------------------------
(* The three ways the array changes. *)

\* splice(k, 1) shifts what follows position k by one.
LEMMA RemoveAtProperties ==
  ASSUME NEW S, NEW s \in Seq(S), NEW k \in DOMAIN s
  PROVE  /\ RemoveAt(s, k) \in Seq(S)
         /\ Len(RemoveAt(s, k)) = Len(s) - 1
         /\ \A i \in 1..(Len(s) - 1) :
              RemoveAt(s, k)[i] = IF i < k THEN s[i] ELSE s[i + 1]
<1>1. k \in 1..Len(s) /\ Len(s) \in Nat
  BY LenProperties
<1> DEFINE front == SubSeq(s, 1, k - 1)
           back == SubSeq(s, k + 1, Len(s))
<1>2. front \in Seq(S) /\ Len(front) = k - 1 /\ \A i \in 1..(k - 1) : front[i] = s[i]
  <2>1. \A i \in 1..(k - 1) : s[i] \in S
    BY <1>1, ElementOfSeq
  <2>2. Len(front) = k - 1 /\ \A i \in 1..(k - 1) : front[i] = s[1 + i - 1]
    BY <1>1, SubSeqProperties
  <2>3. front \in Seq(S)
    BY <1>1, <2>1, SubSeqProperties
  <2>. QED BY <1>1, <2>2, <2>3
<1>3. /\ back \in Seq(S)
      /\ Len(back) = Len(s) - k
      /\ \A i \in 1..(Len(s) - k) : back[i] = s[k + i]
  <2>1. back \in Seq(S) /\ Len(back) = IF k + 1 <= Len(s) THEN Len(s) - (k + 1) + 1 ELSE 0
    BY <1>1, SubSeqProperties
  <2>2. \A i \in 1..(Len(s) - k) : back[i] = s[k + 1 + i - 1]
    BY <1>1, SubSeqProperties
  <2>. QED BY <1>1, <2>1, <2>2
<1>4. RemoveAt(s, k) = front \o back
  BY DEF RemoveAt
<1>. HIDE DEF front, back
<1>5. /\ front \o back \in Seq(S)
      /\ Len(front \o back) = Len(front) + Len(back)
      /\ \A i \in 1..(Len(front) + Len(back)) : (front \o back)[i] =
            IF i <= Len(front) THEN front[i] ELSE back[i - Len(front)]
  BY <1>2, <1>3, ConcatProperties
<1>6. Len(front) + Len(back) = Len(s) - 1
  BY <1>1, <1>2, <1>3
<1>7. ASSUME NEW i \in 1..(Len(s) - 1)
      PROVE  (front \o back)[i] = IF i < k THEN s[i] ELSE s[i + 1]
  <2>1. CASE i < k
    BY <2>1, <1>1, <1>2, <1>5, <1>6
  <2>2. CASE ~ (i < k)
    <3>0. i \in 1..(Len(front) + Len(back)) /\ ~ (i <= Len(front)) /\ Len(front) = k - 1
      BY <2>2, <1>1, <1>2, <1>6
    <3>1. (front \o back)[i] = back[i - (k - 1)]
      BY <1>5, <3>0
    <3>2. i - (k - 1) \in 1..(Len(s) - k) /\ k + (i - (k - 1)) = i + 1
      BY <2>2, <1>1
    <3>. QED BY <2>2, <3>1, <3>2, <1>3
  <2>. QED BY <2>1, <2>2
<1>. QED BY <1>4, <1>5, <1>6, <1>7

\* unshift puts the element first and shifts the others.
LEMMA UnshiftProperties ==
  ASSUME NEW S, NEW s \in Seq(S), NEW e \in S
  PROVE  /\ <<e>> \o s \in Seq(S)
         /\ Len(<<e>> \o s) = Len(s) + 1
         /\ (<<e>> \o s)[1] = e
         /\ \A i \in 1..Len(s) : (<<e>> \o s)[i + 1] = s[i]
<1>1. <<e>> \in Seq(S) /\ Len(<<e>>) = 1 /\ <<e>>[1] = e
  OBVIOUS
<1>2. Len(s) \in Nat
  BY LenProperties
<1>3. /\ <<e>> \o s \in Seq(S)
      /\ Len(<<e>> \o s) = Len(<<e>>) + Len(s)
      /\ \A i \in 1..(Len(<<e>>) + Len(s)) :
            (<<e>> \o s)[i] = IF i <= Len(<<e>>) THEN <<e>>[i] ELSE s[i - Len(<<e>>)]
  BY <1>1, ConcatProperties
<1>. QED BY <1>1, <1>2, <1>3

-----------------------------------------------------------------------------
(* The inductive invariant. *)

LEMMA MaxAttemptsType == MaxAttempts \in Nat \ {0}
BY QueueAssumption DEF MaxAttempts

LEMMA InitIInv == Init => IInv
<1> SUFFICES ASSUME Init PROVE IInv
  OBVIOUS
<1> USE DEF Init
<1>1. TypeOK
  BY DEF TypeOK
<1>2. DOMAIN queue = {}
  OBVIOUS
<1>3. OneAtATime /\ NoJobLost
  BY <1>2 DEF OneAtATime, NoJobLost, IsWaiting, IsServed, Settled
<1>4. ArrayInOrder /\ ServedIsOldest /\ ArrivalsRanked /\ RetriesCounted
  BY <1>2 DEF ArrayInOrder, ServedIsOldest, ArrivalsRanked, RetriesCounted
<1>5. RetriesBounded /\ InOrder
  BY MaxAttemptsType DEF RetriesBounded, InOrder
<1>. QED BY <1>1, <1>3, <1>4, <1>5 DEF IInv

\* A new job goes behind every other and is younger than every other.
LEMMA EnqueueIInv == ASSUME IInv, NEW j \in Jobs, Enqueue(j) PROVE IInv'
<1> DEFINE w == [job |-> j, retries |-> InitialRetries]
<1> USE DEF IInv
<1>1. TypeOK
  OBVIOUS
<1>2. w \in Wrapper
  BY QueueAssumption DEF Wrapper
<1>3. /\ fate[j] = "new"
      /\ queue' = Append(queue, w)
      /\ ticks' = ticks + 1
      /\ clock' = clock + 1
      /\ arrival' = [arrival EXCEPT ![j] = clock + 1]
      /\ fate' = [fate EXCEPT ![j] = "live"]
      /\ UNCHANGED <<lock, calls, draining, attempts>>
  BY DEF Enqueue
<1>4. /\ queue' \in Seq(Wrapper)
      /\ Len(queue) \in Nat
      /\ DOMAIN queue = 1..Len(queue)
      /\ DOMAIN queue' = 1..(Len(queue) + 1)
      /\ \A k \in 1..Len(queue) : queue'[k] = queue[k]
      /\ queue'[Len(queue) + 1] = w
  BY <1>1, <1>2, <1>3, AppendProperties, LenProperties DEF TypeOK
<1>5. TypeOK'
  BY <1>1, <1>3, <1>4 DEF TypeOK
<1>6. ~ IsWaiting(j) /\ ~ IsServed(j)
  BY <1>3 DEF NoJobLost
<1>7. \A k \in 1..Len(queue) : queue[k].job \in Jobs /\ queue[k].job # j
  <2>1. \A k \in 1..Len(queue) : queue[k] \in Wrapper
    BY <1>1, ElementOfSeq DEF TypeOK
  <2>2. \A k \in 1..Len(queue) : queue[k].job # j
    BY <1>4, <1>6 DEF IsWaiting
  <2>. QED BY <2>1, <2>2 DEF Wrapper
<1>8. \A c \in calls : c.job \in Jobs /\ c.job # j
  BY <1>1, <1>6 DEF TypeOK, Call, IsServed
<1>9. OneAtATime'
  BY <1>3 DEF OneAtATime, SameConv
<1>10. NoJobLost'
  <2>1. \A i \in Jobs : IsWaiting(i)' <=> i = j \/ IsWaiting(i)
    BY <1>4, <1>7 DEF IsWaiting
  <2>2. \A i \in Jobs : IsServed(i)' <=> IsServed(i)
    BY <1>3 DEF IsServed
  <2>3. \A i \in Jobs : fate'[i] = IF i = j THEN "live" ELSE fate[i]
    BY <1>1, <1>3 DEF TypeOK
  <2>4. ASSUME NEW i \in Jobs, NEW k \in DOMAIN queue', NEW m \in DOMAIN queue',
               queue'[k].job = i, queue'[m].job = i
        PROVE  k = m
    BY <1>4, <1>7, <2>4 DEF NoJobLost
  <2>. QED BY <1>6, <2>1, <2>2, <2>3, <2>4 DEF NoJobLost
<1>11. \A i \in Jobs : /\ arrival'[i] = IF i = j THEN clock + 1 ELSE arrival[i]
                       /\ arrival[i] <= clock
                       /\ arrival[i] \in Nat
  BY <1>1, <1>3 DEF TypeOK, ArrivalsRanked
<1>12. ArrayInOrder'
  <2> SUFFICES ASSUME NEW k \in 1..(Len(queue) + 1), NEW m \in 1..(Len(queue) + 1),
                      k < m, ConvAt(k)' = ConvAt(m)'
               PROVE  arrival'[queue'[k].job] < arrival'[queue'[m].job]
    BY <1>4 DEF ArrayInOrder
  <2>0. k \in 1..Len(queue) /\ queue'[k] = queue[k] /\ clock \in Nat
    BY <1>1, <1>4 DEF TypeOK
  <2>1. CASE m = Len(queue) + 1
    <3>1. queue'[m].job = j
      BY <2>1, <1>4
    <3>. QED BY <2>0, <3>1, <1>7, <1>11
  <2>2. CASE m # Len(queue) + 1
    <3>1. m \in 1..Len(queue) /\ queue'[m] = queue[m]
      BY <2>2, <1>4
    <3>2. ConvAt(k) = ConvAt(m)
      BY <2>0, <3>1 DEF ConvAt
    <3>3. arrival[queue[k].job] < arrival[queue[m].job]
      BY <2>0, <3>1, <3>2, <1>4 DEF ArrayInOrder
    <3>. QED BY <2>0, <3>1, <3>3, <1>7, <1>11
  <2>. QED BY <2>1, <2>2
<1>13. ServedIsOldest'
  <2> SUFFICES ASSUME NEW c \in calls, NEW k \in 1..(Len(queue) + 1),
                      ConvAt(k)' = ConvOf[c.job]
               PROVE  arrival'[c.job] < arrival'[queue'[k].job]
    BY <1>3, <1>4 DEF ServedIsOldest
  <2>1. CASE k = Len(queue) + 1
    BY <2>1, <1>1, <1>4, <1>8, <1>11 DEF TypeOK
  <2>2. CASE k # Len(queue) + 1
    BY <2>2, <1>4, <1>7, <1>8, <1>11 DEF ServedIsOldest, ConvAt
  <2>. QED BY <2>1, <2>2
<1>14. ArrivalsRanked'
  BY <1>1, <1>3, <1>11 DEF TypeOK, ArrivalsRanked
<1>15. attempts[j] = 0 /\ arrival[j] = 0
  BY <1>3 DEF ArrivalsRanked
<1>16. RetriesCounted'
  BY <1>3, <1>4, <1>7, <1>15, MaxAttemptsType, QueueAssumption DEF RetriesCounted
<1>17. RetriesBounded'
  BY <1>1, <1>3 DEF RetriesBounded, TypeOK
<1>18. InOrder'
  <2> SUFFICES ASSUME NEW i \in Jobs, NEW k \in Jobs, SameConv(i, k), arrival'[i] # 0,
                      arrival'[i] < arrival'[k], attempts'[k] > 0
               PROVE  fate'[i] \in Settled
    BY DEF InOrder, SameConv
  <2>1. k # j /\ i # j
    BY <1>1, <1>3, <1>11, <1>15 DEF TypeOK
  <2>. QED BY <2>1, <1>1, <1>3, <1>11 DEF InOrder, TypeOK
<1>. QED BY <1>5, <1>9, <1>10, <1>12, <1>13, <1>14, <1>16, <1>17, <1>18

\* Types of what is in the array and in process.
LEMMA QueueTypes ==
  ASSUME IInv
  PROVE  /\ Len(queue) \in Nat
         /\ DOMAIN queue = 1..Len(queue)
         /\ \A k \in 1..Len(queue) :
              /\ queue[k] \in Wrapper
              /\ queue[k].job \in Jobs
              /\ queue[k].retries \in Nat
              /\ ConvAt(k) \in Convs
         /\ \A c \in calls : /\ c \in Call
                             /\ c.job \in Jobs
                             /\ c.retries \in Nat
                             /\ ConvOf[c.job] \in Convs
<1>1. queue \in Seq(Wrapper) /\ calls \subseteq Call
  BY DEF IInv, TypeOK
<1>2. /\ Len(queue) \in Nat
      /\ DOMAIN queue = 1..Len(queue)
      /\ \A k \in 1..Len(queue) : queue[k] \in Wrapper
  BY <1>1, LenProperties, ElementOfSeq
<1>. QED BY <1>1, <1>2, QueueAssumption DEF Wrapper, Call, ConvAt

\* An array that keeps some elements of another, in order, keeps what holds of
\* the other: g says where each element comes from.
LEMMA SubArray ==
  ASSUME IInv,
         queue' \in Seq(Wrapper),
         NEW g \in [1..Len(queue') -> 1..Len(queue)],
         \A i, m \in 1..Len(queue') : i < m => g[i] < g[m],
         \A i \in 1..Len(queue') : queue'[i] = queue[g[i]],
         arrival' = arrival
  PROVE  /\ DOMAIN queue' = 1..Len(queue')
         /\ Len(queue') \in Nat
         /\ ArrayInOrder'
         /\ \A k, m \in DOMAIN queue' : queue'[k].job = queue'[m].job => k = m
         /\ \A j \in Jobs : IsWaiting(j)' => IsWaiting(j)
<1>1. DOMAIN queue' = 1..Len(queue') /\ Len(queue') \in Nat
  BY LenProperties
<1>2. /\ DOMAIN queue = 1..Len(queue)
      /\ Len(queue) \in Nat
      /\ \A k \in 1..Len(queue) : queue[k].job \in Jobs
  BY QueueTypes
<1>3. ArrayInOrder'
  <2> SUFFICES ASSUME NEW k \in 1..Len(queue'), NEW m \in 1..Len(queue'),
                      k < m, ConvAt(k)' = ConvAt(m)'
               PROVE  arrival'[queue'[k].job] < arrival'[queue'[m].job]
    BY <1>1 DEF ArrayInOrder
  <2>1. g[k] \in DOMAIN queue /\ g[m] \in DOMAIN queue /\ g[k] < g[m]
    BY <1>2
  <2>2. ConvAt(g[k]) = ConvAt(g[m])
    BY DEF ConvAt
  <2>. QED BY <2>1, <2>2 DEF IInv, ArrayInOrder
<1>4. ASSUME NEW k \in 1..Len(queue'), NEW m \in 1..Len(queue'),
             queue'[k].job = queue'[m].job
      PROVE  k = m
  <2>1. g[k] \in DOMAIN queue /\ g[m] \in DOMAIN queue
    BY <1>2
  <2>2. queue[g[k]].job = queue[g[m]].job /\ queue[g[m]].job \in Jobs
    BY <1>2, <1>4
  <2>3. g[k] = g[m]
    BY <2>1, <2>2 DEF IInv, NoJobLost
  <2>. QED BY <2>3, <1>1, <1>2
<1>5. ASSUME NEW j \in Jobs, IsWaiting(j)' PROVE IsWaiting(j)
  <2>1. PICK k \in 1..Len(queue') : queue'[k].job = j
    BY <1>1, <1>5 DEF IsWaiting
  <2>2. g[k] \in DOMAIN queue /\ queue[g[k]].job = j
    BY <2>1, <1>2
  <2>. QED BY <2>2 DEF IsWaiting
<1>. QED BY <1>1, <1>3, <1>4, <1>5

\* The job at position k of the array leaves it: where the others come from.
LEMMA Removal ==
  ASSUME IInv, NEW k \in DOMAIN queue, queue' = RemoveAt(queue, k), arrival' = arrival
  PROVE  /\ queue' \in Seq(Wrapper)
         /\ DOMAIN queue' = 1..Len(queue')
         /\ ArrayInOrder'
         /\ \A i, m \in DOMAIN queue' : queue'[i].job = queue'[m].job => i = m
         /\ \A i \in DOMAIN queue' : \E m \in DOMAIN queue : m # k /\ queue'[i] = queue[m]
         /\ \A j \in Jobs : IsWaiting(j)' <=> IsWaiting(j) /\ j # queue[k].job
<1> DEFINE g == [i \in 1..Len(queue') |-> IF i < k THEN i ELSE i + 1]
<1>1. /\ Len(queue) \in Nat
      /\ DOMAIN queue = 1..Len(queue)
      /\ k \in 1..Len(queue)
      /\ \A m \in 1..Len(queue) : queue[m].job \in Jobs
  BY QueueTypes
<1>2. /\ queue' \in Seq(Wrapper)
      /\ Len(queue') = Len(queue) - 1
      /\ \A i \in 1..(Len(queue) - 1) :
           queue'[i] = IF i < k THEN queue[i] ELSE queue[i + 1]
  BY RemoveAtProperties DEF IInv, TypeOK
<1>3. g \in [1..Len(queue') -> 1..Len(queue)]
  BY <1>1, <1>2
<1>4. /\ \A i, m \in 1..Len(queue') : i < m => g[i] < g[m]
      /\ \A i \in 1..Len(queue') : queue'[i] = queue[g[i]] /\ g[i] # k
  BY <1>1, <1>2
<1>5. /\ DOMAIN queue' = 1..Len(queue')
      /\ ArrayInOrder'
      /\ \A i, m \in DOMAIN queue' : queue'[i].job = queue'[m].job => i = m
      /\ \A j \in Jobs : IsWaiting(j)' => IsWaiting(j)
  <2> HIDE DEF g
  <2>. QED BY <1>2, <1>3, <1>4, SubArray
<1>6. \A i \in DOMAIN queue' : \E m \in DOMAIN queue : m # k /\ queue'[i] = queue[m]
  <2> HIDE DEF g
  <2>. QED BY <1>1, <1>3, <1>4, <1>5
<1>7. ASSUME NEW j \in Jobs, IsWaiting(j)' PROVE j # queue[k].job
  BY <1>1, <1>5, <1>6, <1>7 DEF IInv, NoJobLost, IsWaiting
<1>8. ASSUME NEW j \in Jobs, IsWaiting(j), j # queue[k].job PROVE IsWaiting(j)'
  <2>1. PICK m \in DOMAIN queue : queue[m].job = j
    BY <1>8 DEF IsWaiting
  <2>2. CASE m < k
    <3>1. m \in DOMAIN queue' /\ queue'[m] = queue[m]
      BY <2>1, <2>2, <1>1, <1>2, <1>5
    <3>. QED BY <2>1, <3>1 DEF IsWaiting
  <2>3. CASE m > k
    <3>1. m - 1 \in DOMAIN queue' /\ queue'[m - 1] = queue[m]
      BY <2>1, <2>3, <1>1, <1>2, <1>5
    <3>. QED BY <2>1, <3>1 DEF IsWaiting
  <2>. QED BY <2>1, <2>2, <2>3, <1>1, <1>8
<1>. QED BY <1>2, <1>5, <1>6, <1>7, <1>8

\* A tick takes the first job whose conversation is not locked, or nothing.
LEMMA TickBodyIInv ==
  ASSUME IInv, TickBody, ticks' \in Nat, UNCHANGED <<draining, clock, arrival, fate>>
  PROVE  IInv'
<1>1. CASE UNCHANGED <<queue, lock, calls, attempts>>
  BY <1>1 DEF IInv, TypeOK, OneAtATime, NoJobLost, ArrayInOrder, ServedIsOldest,
     ArrivalsRanked, RetriesCounted, RetriesBounded, InOrder, IsWaiting, IsServed, ConvAt
<1>2. ASSUME NEW k \in DOMAIN queue,
             IsNext(k),
             queue' = RemoveAt(queue, k),
             lock' = lock \cup {ConvAt(k)},
             calls' = calls \cup {[job |-> queue[k].job,
                                   retries |-> queue[k].retries, sub |-> 1]},
             attempts' = [attempts EXCEPT ![queue[k].job] = @ + 1]
      PROVE  IInv'
  <2> DEFINE j == queue[k].job
             d == [job |-> j, retries |-> queue[k].retries, sub |-> 1]
  <2>1. /\ Len(queue) \in Nat
        /\ DOMAIN queue = 1..Len(queue)
        /\ \A m \in 1..Len(queue) : /\ queue[m].job \in Jobs
                                    /\ queue[m].retries \in Nat
                                    /\ ConvAt(m) \in Convs
        /\ \A c \in calls : c.job \in Jobs
    BY QueueTypes
  <2>2. /\ queue' \in Seq(Wrapper)
        /\ ArrayInOrder'
        /\ \A i, m \in DOMAIN queue' : queue'[i].job = queue'[m].job => i = m
        /\ \A i \in DOMAIN queue' : \E m \in DOMAIN queue : m # k /\ queue'[i] = queue[m]
        /\ \A i \in Jobs : IsWaiting(i)' <=> IsWaiting(i) /\ i # j
    BY <1>2, Removal
  <2>3. j \in Jobs /\ d \in Call /\ d.job = j /\ ConvOf[j] = ConvAt(k)
    BY <2>1, QueueAssumption DEF Call, ConvAt
  <2>4. IsWaiting(j) /\ ~ IsServed(j) /\ fate[j] = "live"
    BY <2>3 DEF IInv, NoJobLost, IsWaiting
  <2>5. \A i \in Jobs : attempts'[i] = IF i = j THEN attempts[i] + 1 ELSE attempts[i]
    BY <1>2, <2>3 DEF IInv, TypeOK
  <2>6. TypeOK'
    BY <1>2, <2>1, <2>2, <2>3 DEF IInv, TypeOK
  <2>7. ConvAt(k) \notin lock
    BY <1>2 DEF IsNext
  <2>8. OneAtATime'
    <3>1. lock' = {ConvOf[c.job] : c \in calls'}
      BY <1>2, <2>3 DEF IInv, OneAtATime
    <3>2. \A c \in calls : ConvOf[c.job] \in lock
      BY DEF IInv, OneAtATime
    <3>3. \A b, c \in calls' : SameConv(b.job, c.job) => b = c
      BY <1>2, <2>3, <2>7, <3>2 DEF IInv, OneAtATime, SameConv
    <3>. QED BY <3>1, <3>3 DEF OneAtATime, SameConv
  <2>9. NoJobLost'
    <3>1. \A i \in Jobs : IsServed(i)' <=> IsServed(i) \/ i = j
      BY <1>2, <2>3 DEF IsServed
    <3>. QED BY <2>2, <2>4, <3>1 DEF IInv, NoJobLost
  <2>10. ServedIsOldest'
    <3> SUFFICES ASSUME NEW c \in calls', NEW i \in DOMAIN queue',
                        ConvAt(i)' = ConvOf[c.job]
                 PROVE  arrival[c.job] < arrival[queue'[i].job]
      BY DEF ServedIsOldest
    <3>1. PICK m \in DOMAIN queue : m # k /\ queue'[i] = queue[m]
      BY <2>2
    <3>2. ConvAt(m) = ConvOf[c.job]
      BY <3>1 DEF ConvAt
    <3>3. CASE c \in calls
      BY <3>1, <3>2, <3>3 DEF IInv, ServedIsOldest
    <3>4. CASE c = d
      <4>1. ConvAt(m) = ConvAt(k)
        BY <2>3, <3>2, <3>4
      <4>2. k < m
        BY <1>2, <2>1, <2>7, <3>1, <4>1 DEF IsNext
      <4>. QED BY <2>3, <3>1, <3>4, <4>1, <4>2 DEF IInv, ArrayInOrder
    <3>. QED BY <1>2, <3>3, <3>4
  <2>11. ArrivalsRanked'
    BY <2>4, <2>5 DEF IInv, ArrivalsRanked
  <2>12. attempts[j] \in Nat /\ attempts[j] < MaxAttempts
         /\ queue[k].retries = InitialRetries + attempts[j]
    BY <2>3 DEF IInv, TypeOK, RetriesCounted
  <2>13. RetriesCounted'
    <3>1. ASSUME NEW i \in DOMAIN queue'
          PROVE  /\ queue'[i].retries = InitialRetries + attempts'[queue'[i].job]
                 /\ attempts'[queue'[i].job] < MaxAttempts
      <4>1. PICK m \in DOMAIN queue : m # k /\ queue'[i] = queue[m]
        BY <2>2
      <4>2. queue[m].job # j
        BY <2>1, <4>1 DEF IInv, NoJobLost
      <4>. QED BY <2>1, <2>5, <4>1, <4>2 DEF IInv, RetriesCounted
    <3>2. ASSUME NEW c \in calls'
          PROVE  /\ c.retries + 1 = InitialRetries + attempts'[c.job]
                 /\ attempts'[c.job] \in 1..MaxAttempts
      <4>1. CASE c \in calls
        <5>1. c.job # j
          BY <2>4, <4>1 DEF IsServed
        <5>. QED BY <2>1, <2>5, <4>1, <5>1 DEF IInv, RetriesCounted
      <4>2. CASE c = d
        BY <2>3, <2>5, <2>12, <4>2, MaxAttemptsType, QueueAssumption
      <4>. QED BY <1>2, <4>1, <4>2
    <3>. QED BY <3>1, <3>2 DEF RetriesCounted
  <2>14. RetriesBounded'
    BY <2>4, <2>5, <2>12, MaxAttemptsType DEF IInv, RetriesBounded
  <2>15. InOrder'
    <3> SUFFICES ASSUME NEW i \in Jobs, NEW m \in Jobs, SameConv(i, m), arrival[i] # 0,
                        arrival[i] < arrival[m], attempts'[m] > 0
                 PROVE  fate[i] \in Settled
      BY DEF InOrder, SameConv
    <3>1. CASE m # j
      BY <2>5, <3>1 DEF IInv, InOrder
    <3>2. CASE m = j
      <4>1. SUFFICES ASSUME fate[i] = "live" PROVE FALSE
        BY DEF IInv, TypeOK, ArrivalsRanked
      <4>2. CASE IsServed(i)
        BY <2>3, <2>7, <3>2, <4>2 DEF IInv, OneAtATime, IsServed, SameConv
      <4>3. CASE IsWaiting(i)
        <5>1. PICK p \in DOMAIN queue : queue[p].job = i
          BY <4>3 DEF IsWaiting
        <5>2. ConvAt(p) = ConvAt(k)
          BY <2>3, <3>2, <5>1 DEF SameConv, ConvAt
        <5>3. ~ (p < k)
          BY <1>2, <2>1, <2>7, <5>2 DEF IsNext
        <5>4. ~ (k < p)
          <6>1. arrival[i] \in Nat /\ arrival[j] \in Nat
            BY <2>3 DEF IInv, TypeOK
          <6>. QED BY <3>2, <5>1, <5>2, <6>1 DEF IInv, ArrayInOrder
        <5>5. arrival[i] \in Nat /\ i # j
          BY <3>2 DEF IInv, TypeOK
        <5>. QED BY <2>1, <5>1, <5>3, <5>4, <5>5
      <4>. QED BY <4>1, <4>2, <4>3 DEF IInv, NoJobLost
    <3>. QED BY <3>1, <3>2
  <2>. QED BY <2>2, <2>6, <2>8, <2>9, <2>10, <2>11, <2>13, <2>14, <2>15 DEF IInv
<1>. QED BY <1>1, <1>2 DEF TickBody

\* What every step keeps that only drops waiting jobs: D are the jobs dropped.
LEMMA DropIInv ==
  ASSUME IInv,
         NEW D \in SUBSET Jobs,
         NEW v \in {"taken", "cancelled"},
         queue' \in Seq(Wrapper),
         ArrayInOrder',
         \A i, m \in DOMAIN queue' : queue'[i].job = queue'[m].job => i = m,
         \A i \in DOMAIN queue' : \E m \in DOMAIN queue : queue'[i] = queue[m],
         \A j \in D : IsWaiting(j),
         \A j \in Jobs : IsWaiting(j)' <=> IsWaiting(j) /\ j \notin D,
         fate' = [j \in Jobs |-> IF j \in D THEN v ELSE fate[j]],
         UNCHANGED <<lock, ticks, calls, draining, clock, arrival, attempts>>
  PROVE  IInv'
<1>1. TypeOK'
  BY DEF IInv, TypeOK, Settled
<1>2. OneAtATime'
  BY DEF IInv, OneAtATime, SameConv
<1>3. NoJobLost'
  <2>1. \A j \in Jobs : IsServed(j)' <=> IsServed(j)
    BY DEF IsServed
  <2>2. \A j \in D : fate[j] = "live" /\ ~ IsServed(j)
    BY DEF IInv, NoJobLost
  <2>. QED BY <2>1, <2>2 DEF IInv, NoJobLost
<1>4. ServedIsOldest'
  <2> SUFFICES ASSUME NEW c \in calls, NEW k \in DOMAIN queue',
                      ConvAt(k)' = ConvOf[c.job]
               PROVE  arrival[c.job] < arrival[queue'[k].job]
    BY DEF ServedIsOldest
  <2>1. PICK m \in DOMAIN queue : queue'[k] = queue[m]
    OBVIOUS
  <2>. QED BY <2>1 DEF IInv, ServedIsOldest, ConvAt
<1>5. ArrivalsRanked'
  BY DEF IInv, ArrivalsRanked, NoJobLost
<1>6. RetriesCounted'
  BY DEF IInv, RetriesCounted
<1>7. RetriesBounded'
  BY DEF IInv, RetriesBounded
<1>8. InOrder'
  BY DEF IInv, InOrder, Settled, SameConv
<1>. QED BY <1>1, <1>2, <1>3, <1>4, <1>5, <1>6, <1>7, <1>8 DEF IInv

LEMMA DequeueIInv == ASSUME IInv, Dequeue PROVE IInv'
<1>1. /\ queue # <<>>
      /\ queue' = Tail(queue)
      /\ fate' = [fate EXCEPT ![Head(queue).job] = "taken"]
      /\ UNCHANGED <<lock, ticks, calls, draining, clock, arrival, attempts>>
  BY DEF Dequeue
<1>2. /\ Len(queue) \in Nat
      /\ DOMAIN queue = 1..Len(queue)
      /\ \A m \in 1..Len(queue) : queue[m].job \in Jobs
      /\ queue \in Seq(Wrapper)
  BY QueueTypes DEF IInv, TypeOK
<1>3. 1 \in DOMAIN queue /\ Head(queue) = queue[1]
  BY <1>1, <1>2, EmptySeq
<1>4. queue' = RemoveAt(queue, 1)
  <2>1. /\ Tail(queue) \in Seq(Wrapper)
        /\ Len(Tail(queue)) = Len(queue) - 1
        /\ \A i \in 1..Len(Tail(queue)) : Tail(queue)[i] = queue[i + 1]
    BY <1>1, <1>2, HeadTailProperties
  <2>2. /\ RemoveAt(queue, 1) \in Seq(Wrapper)
        /\ Len(RemoveAt(queue, 1)) = Len(queue) - 1
        /\ \A i \in 1..(Len(queue) - 1) :
             RemoveAt(queue, 1)[i] = IF i < 1 THEN queue[i] ELSE queue[i + 1]
    BY <1>2, <1>3, RemoveAtProperties
  <2>3. \A i \in 1..Len(Tail(queue)) : Tail(queue)[i] = RemoveAt(queue, 1)[i]
    BY <1>2, <2>1, <2>2
  <2>4. Tail(queue) = RemoveAt(queue, 1)
    BY <2>1, <2>2, <2>3, SeqEqual
  <2>. QED BY <1>1, <2>4
<1>5. /\ queue' \in Seq(Wrapper)
      /\ ArrayInOrder'
      /\ \A i, m \in DOMAIN queue' : queue'[i].job = queue'[m].job => i = m
      /\ \A i \in DOMAIN queue' : \E m \in DOMAIN queue : m # 1 /\ queue'[i] = queue[m]
      /\ \A j \in Jobs : IsWaiting(j)' <=> IsWaiting(j) /\ j # queue[1].job
  BY <1>1, <1>3, <1>4, Removal
<1>6. queue[1].job \in Jobs /\ IsWaiting(queue[1].job)
  BY <1>2, <1>3 DEF IsWaiting
<1>7. fate' = [j \in Jobs |-> IF j \in {queue[1].job} THEN "taken" ELSE fate[j]]
  BY <1>1, <1>3, <1>6 DEF IInv, TypeOK
<1> DEFINE D == {queue[1].job}
<1>8. /\ D \in SUBSET Jobs
      /\ \A j \in D : IsWaiting(j)
      /\ \A j \in Jobs : IsWaiting(j)' <=> IsWaiting(j) /\ j \notin D
      /\ fate' = [j \in Jobs |-> IF j \in D THEN "taken" ELSE fate[j]]
      /\ \A i \in DOMAIN queue' : \E m \in DOMAIN queue : queue'[i] = queue[m]
  BY <1>5, <1>6, <1>7
<1> HIDE DEF D
<1>. QED BY <1>1, <1>5, <1>8, DropIInv

LEMMA CancelAllIInv == ASSUME IInv, NEW v \in Convs, CancelAll(v) PROVE IInv'
<1> DEFINE kept == {k \in DOMAIN queue : ConvAt(k) # v}
           D == {j \in Jobs : ConvOf[j] = v /\ IsWaiting(j)}
<1>1. /\ Len(queue) \in Nat
      /\ DOMAIN queue = 1..Len(queue)
      /\ \A m \in 1..Len(queue) : queue[m] \in Wrapper /\ queue[m].job \in Jobs
  BY QueueTypes
<1>2. IsFiniteSet(kept) /\ Cardinality(kept) \in Nat
  <2>1. IsFiniteSet(1..Len(queue)) /\ kept \in SUBSET (1..Len(queue))
    BY <1>1, FS_Interval
  <2>. QED BY <2>1, FS_Subset, FS_CardinalityType
<1> DEFINE n == Cardinality(kept)
<1>3. PICK f \in [1..n -> kept] :
        /\ \A i, j \in DOMAIN f : i < j => f[i] < f[j]
        /\ queue' = [i \in DOMAIN f |-> queue[f[i]]]
  BY DEF CancelAll
<1>4. /\ \A m \in kept : m \in 1..Len(queue) /\ ConvAt(m) # v
      /\ \A m \in 1..Len(queue) : ConvAt(m) # v => m \in kept
  BY <1>1
<1>5. UNCHANGED <<lock, ticks, calls, draining, clock, arrival, attempts>>
      /\ fate' = [j \in Jobs |-> IF j \in D THEN "cancelled" ELSE fate[j]]
  BY DEF CancelAll
<1> HIDE DEF kept, n
<1>6. n \in Nat
  BY <1>2 DEF n
<1>7. /\ queue' \in Seq(Wrapper)
      /\ Len(queue') = n
      /\ DOMAIN queue' = 1..n
      /\ \A i \in 1..n : queue'[i] = queue[f[i]] /\ f[i] \in kept
  <2>1. \A i \in 1..n : queue[f[i]] \in Wrapper
    BY <1>1, <1>3, <1>4
  <2>2. queue' = [i \in 1..n |-> queue[f[i]]]
    BY <1>3
  <2>3. queue' \in Seq(Wrapper)
    BY <1>6, <2>1, <2>2, IsASeq
  <2>. QED BY <1>3, <1>6, <2>2, <2>3, LenProperties
<1>8. /\ ArrayInOrder'
      /\ \A i, m \in DOMAIN queue' : queue'[i].job = queue'[m].job => i = m
      /\ \A j \in Jobs : IsWaiting(j)' => IsWaiting(j)
  <2>1. f \in [1..Len(queue') -> 1..Len(queue)]
    BY <1>3, <1>4, <1>7
  <2>. QED BY <2>1, <1>3, <1>5, <1>7, SubArray
\* The increasing map f misses no position that is kept.
<1>9. \A m \in kept : \E i \in 1..n : f[i] = m
  <2>1. \A i, j \in 1..n : f[i] = f[j] => i = j
    <3> SUFFICES ASSUME NEW i \in 1..n, NEW j \in 1..n, f[i] = f[j], i < j PROVE FALSE
      BY <1>6
    <3>. QED BY <1>1, <1>3, <1>4
  <2>2. f \in Injection(1..n, kept)
    BY <1>3, <2>1 DEF Injection, IsInjective
  <2>3. IsFiniteSet(1..n) /\ Cardinality(1..n) = Cardinality(kept)
    BY <1>6, FS_Interval DEF n
  <2>4. f \in Surjection(1..n, kept)
    BY <1>2, <2>2, <2>3, FS_Injection
  <2>. QED BY <2>4 DEF Surjection
<1>10. \A j \in Jobs : IsWaiting(j)' <=> IsWaiting(j) /\ j \notin D
  <2>1. ASSUME NEW j \in Jobs, IsWaiting(j)' PROVE j \notin D
    BY <1>4, <1>7, <2>1 DEF IsWaiting, ConvAt
  <2>2. ASSUME NEW j \in Jobs, IsWaiting(j), j \notin D PROVE IsWaiting(j)'
    <3>1. PICK m \in 1..Len(queue) : queue[m].job = j
      BY <1>1, <2>2 DEF IsWaiting
    <3>2. m \in kept
      BY <1>4, <2>2, <3>1 DEF ConvAt
    <3>. QED BY <1>7, <1>9, <3>1, <3>2 DEF IsWaiting
  <2>. QED BY <1>8, <2>1, <2>2
<1>11. D \in SUBSET Jobs /\ \A j \in D : IsWaiting(j)
  OBVIOUS
<1>12. \A i \in DOMAIN queue' : \E m \in DOMAIN queue : queue'[i] = queue[m]
  BY <1>1, <1>4, <1>7
<1> HIDE DEF D
<1>. QED BY <1>5, <1>7, <1>8, <1>10, <1>11, <1>12, DropIInv

\* The finally block frees the conversation of the job, and only that one.
LEMMA ReleaseOneAtATime ==
  ASSUME IInv, NEW c \in calls, calls' = calls \ {c}, lock' = lock \ {ConvOf[c.job]}
  PROVE  /\ OneAtATime'
         /\ ~ IsServed(c.job)'
         /\ \A j \in Jobs : j # c.job => (IsServed(j)' <=> IsServed(j))
<1>1. \A b, d \in calls : SameConv(b.job, d.job) => b = d
  BY DEF IInv, OneAtATime
<1>2. lock' = {ConvOf[b.job] : b \in calls'}
  BY <1>1 DEF IInv, OneAtATime, SameConv
<1>3. \A b, d \in calls' : SameConv(b.job, d.job)' => b = d
  BY <1>1 DEF SameConv
<1>. QED BY <1>1, <1>2, <1>3 DEF OneAtATime, IsServed, SameConv

LEMMA NextSubscriberIInv == ASSUME IInv, NEW c \in calls, NextSubscriber(c) PROVE IInv'
<1> DEFINE d == [c EXCEPT !.sub = @ + 1]
<1>1. /\ c.sub < NumSubscribers
      /\ calls' = (calls \ {c}) \cup {d}
      /\ UNCHANGED <<queue, lock, ticks, draining, clock, arrival, fate, attempts>>
  BY DEF NextSubscriber
<1>2. c \in Call /\ d \in Call /\ d.job = c.job /\ d.retries = c.retries
  BY <1>1, QueueTypes, QueueAssumption DEF Call
<1> HIDE DEF d
<1>3. TypeOK'
  BY <1>1, <1>2 DEF IInv, TypeOK
<1>4. OneAtATime'
  <2>1. lock' = {ConvOf[b.job] : b \in calls'}
    BY <1>1, <1>2 DEF IInv, OneAtATime
  <2>2. \A a, b \in calls' : SameConv(a.job, b.job)' => a = b
    BY <1>1, <1>2 DEF IInv, OneAtATime, SameConv
  <2>. QED BY <2>1, <2>2 DEF OneAtATime
<1>5. NoJobLost'
  <2>1. \A j \in Jobs : /\ IsServed(j)' <=> IsServed(j)
                        /\ IsWaiting(j)' <=> IsWaiting(j)
    BY <1>1, <1>2 DEF IsServed, IsWaiting
  <2>. QED BY <1>1, <2>1 DEF IInv, NoJobLost
<1>6. ArrayInOrder' /\ ServedIsOldest'
  BY <1>1, <1>2 DEF IInv, ArrayInOrder, ServedIsOldest, ConvAt
<1>7. ArrivalsRanked' /\ RetriesCounted' /\ RetriesBounded' /\ InOrder'
  BY <1>1, <1>2 DEF IInv, ArrivalsRanked, RetriesCounted, RetriesBounded, InOrder, SameConv
<1>. QED BY <1>3, <1>4, <1>5, <1>6, <1>7 DEF IInv

\* A job leaves the system, done or abandoned.
LEMMA LeaveIInv ==
  ASSUME IInv,
         NEW c \in calls,
         NEW v \in {"done", "abandoned"},
         v = "abandoned" => attempts[c.job] = MaxAttempts,
         fate' = [fate EXCEPT ![c.job] = v],
         calls' = calls \ {c},
         lock' = lock \ {ConvOf[c.job]},
         ticks' \in Nat,
         UNCHANGED <<queue, draining, clock, arrival, attempts>>
  PROVE  IInv'
<1>1. c.job \in Jobs /\ IsServed(c.job) /\ fate[c.job] = "live"
  BY QueueTypes DEF IInv, NoJobLost, IsServed
<1>2. \A j \in Jobs : fate'[j] = IF j = c.job THEN v ELSE fate[j]
  BY <1>1 DEF IInv, TypeOK
<1>3. TypeOK'
  BY <1>1 DEF IInv, TypeOK, Settled
<1>4. /\ OneAtATime'
      /\ ~ IsServed(c.job)'
      /\ \A j \in Jobs : j # c.job => (IsServed(j)' <=> IsServed(j))
  BY ReleaseOneAtATime
<1>5. NoJobLost'
  <2>1. \A j \in Jobs : IsWaiting(j)' <=> IsWaiting(j)
    BY DEF IsWaiting
  <2>. QED BY <1>1, <1>2, <1>4, <2>1 DEF IInv, NoJobLost
<1>6. ArrayInOrder' /\ ServedIsOldest'
  BY DEF IInv, ArrayInOrder, ServedIsOldest, ConvAt
<1>7. ArrivalsRanked' /\ RetriesCounted' /\ RetriesBounded'
  BY <1>1, <1>2 DEF IInv, ArrivalsRanked, RetriesCounted, RetriesBounded
<1>8. InOrder'
  BY <1>2 DEF IInv, InOrder, Settled, SameConv
<1>. QED BY <1>3, <1>4, <1>5, <1>6, <1>7, <1>8 DEF IInv

LEMMA CompleteIInv == ASSUME IInv, NEW c \in calls, Complete(c) PROVE IInv'
<1>1. ticks' \in Nat
  BY DEF Complete, Release, IInv, TypeOK
<1>. QED BY <1>1, LeaveIInv DEF Complete, Release

LEMMA AbandonIInv == ASSUME IInv, NEW c \in calls, FailAndAbandon(c) PROVE IInv'
<1>1. ticks' \in Nat
  BY DEF FailAndAbandon, Release, IInv, TypeOK
<1>2. attempts[c.job] = MaxAttempts
  <2>1. /\ c.retries \in Nat
        /\ c.retries + 1 > MaxRetries
        /\ c.retries + 1 = InitialRetries + attempts[c.job]
        /\ attempts[c.job] \in 1..MaxAttempts
    BY QueueTypes DEF FailAndAbandon, IInv, RetriesCounted
  <2>. QED BY <2>1, QueueAssumption DEF MaxAttempts
<1>. QED BY <1>1, <1>2, LeaveIInv DEF FailAndAbandon, Release

\* A failed job goes before every other: it is the oldest of its conversation.
LEMMA RetryIInv == ASSUME IInv, NEW c \in calls, FailAndRetry(c) PROVE IInv'
<1> DEFINE w == [job |-> c.job, retries |-> c.retries + 1]
<1>1. /\ c.retries + 1 <= MaxRetries
      /\ queue' = <<w>> \o queue
      /\ calls' = calls \ {c}
      /\ lock' = lock \ {ConvOf[c.job]}
      /\ ticks' = ticks + 1 + (IF queue' # <<>> THEN 1 ELSE 0)
      /\ UNCHANGED <<draining, clock, arrival, fate, attempts>>
  BY DEF FailAndRetry, Release
<1>2. /\ Len(queue) \in Nat
      /\ DOMAIN queue = 1..Len(queue)
      /\ \A k \in 1..Len(queue) : queue[k].job \in Jobs
      /\ c.job \in Jobs
      /\ c.retries \in Nat
  BY QueueTypes
<1>3. w \in Wrapper
  BY <1>2 DEF Wrapper
<1>4. IsServed(c.job) /\ ~ IsWaiting(c.job) /\ fate[c.job] = "live"
  BY <1>2 DEF IInv, NoJobLost, IsServed
<1>5. /\ queue' \in Seq(Wrapper)
      /\ Len(queue') = Len(queue) + 1
      /\ DOMAIN queue' = 1..(Len(queue) + 1)
      /\ queue'[1] = w
      /\ \A k \in 1..Len(queue) : queue'[k + 1] = queue[k]
  BY <1>1, <1>2, <1>3, UnshiftProperties, LenProperties DEF IInv, TypeOK
<1>6. \A k \in DOMAIN queue' :
         \/ k = 1
         \/ k - 1 \in DOMAIN queue /\ queue'[k] = queue[k - 1]
  BY <1>2, <1>5
<1>7. TypeOK'
  BY <1>1, <1>5 DEF IInv, TypeOK
<1>8. /\ OneAtATime'
      /\ ~ IsServed(c.job)'
      /\ \A j \in Jobs : j # c.job => (IsServed(j)' <=> IsServed(j))
  BY <1>1, ReleaseOneAtATime
<1> HIDE DEF w
<1>9. w.job = c.job /\ w.retries = c.retries + 1
  BY DEF w
<1>10. NoJobLost'
  <2>1. ASSUME NEW j \in Jobs PROVE IsWaiting(j)' <=> IsWaiting(j) \/ j = c.job
    <3>1. ASSUME IsWaiting(j)' PROVE IsWaiting(j) \/ j = c.job
      BY <1>5, <1>6, <1>9, <3>1 DEF IsWaiting
    <3>2. ASSUME IsWaiting(j) PROVE IsWaiting(j)'
      <4>1. PICK k \in 1..Len(queue) : queue[k].job = j
        BY <1>2, <3>2 DEF IsWaiting
      <4>2. k + 1 \in DOMAIN queue' /\ queue'[k + 1] = queue[k]
        BY <1>2, <1>5
      <4>. QED BY <4>1, <4>2 DEF IsWaiting
    <3>3. ASSUME j = c.job PROVE IsWaiting(j)'
      <4>1. 1 \in DOMAIN queue' /\ queue'[1].job = c.job
        BY <1>2, <1>5, <1>9
      <4>. QED BY <3>3, <4>1 DEF IsWaiting
    <3>. QED BY <3>1, <3>2, <3>3
  <2>2. ASSUME NEW k \in DOMAIN queue', NEW m \in DOMAIN queue',
               queue'[k].job = queue'[m].job
        PROVE  k = m
    <3>1. CASE k # 1 /\ m # 1
      <4>1. k - 1 = m - 1
        BY <1>2, <1>6, <2>2, <3>1 DEF IInv, NoJobLost
      <4>. QED BY <1>2, <1>5, <4>1
    <3>2. CASE k = 1 /\ m # 1
      BY <1>4, <1>5, <1>6, <1>9, <2>2, <3>2 DEF IsWaiting
    <3>3. CASE k # 1 /\ m = 1
      BY <1>4, <1>5, <1>6, <1>9, <2>2, <3>3 DEF IsWaiting
    <3>. QED BY <3>1, <3>2, <3>3
  <2>. QED BY <1>1, <1>4, <1>8, <2>1, <2>2 DEF IInv, NoJobLost
<1>11. ArrayInOrder'
  <2> SUFFICES ASSUME NEW k \in DOMAIN queue', NEW m \in DOMAIN queue',
                      k < m, ConvAt(k)' = ConvAt(m)'
               PROVE  arrival[queue'[k].job] < arrival[queue'[m].job]
    BY <1>1 DEF ArrayInOrder
  <2>1. m - 1 \in DOMAIN queue /\ queue'[m] = queue[m - 1]
    BY <1>5, <1>2, <1>6
  <2>2. CASE k = 1
    <3>1. ConvAt(m - 1) = ConvOf[c.job]
      BY <1>5, <1>9, <2>1, <2>2 DEF ConvAt
    <3>. QED BY <1>5, <1>9, <2>1, <2>2, <3>1 DEF IInv, ServedIsOldest
  <2>3. CASE k # 1
    <3>1. k - 1 \in DOMAIN queue /\ queue'[k] = queue[k - 1] /\ k - 1 < m - 1
      BY <1>2, <1>5, <1>6, <2>3
    <3>2. ConvAt(k - 1) = ConvAt(m - 1)
      BY <2>1, <3>1 DEF ConvAt
    <3>. QED BY <2>1, <3>1, <3>2 DEF IInv, ArrayInOrder
  <2>. QED BY <2>2, <2>3
<1>12. ServedIsOldest'
  <2> SUFFICES ASSUME NEW b \in calls', NEW k \in DOMAIN queue',
                      ConvAt(k)' = ConvOf[b.job]
               PROVE  arrival[b.job] < arrival[queue'[k].job]
    BY <1>1 DEF ServedIsOldest
  <2>1. b \in calls /\ ConvOf[b.job] # ConvOf[c.job]
    BY <1>1 DEF IInv, OneAtATime, SameConv
  <2>2. k # 1
    BY <1>5, <1>9, <2>1 DEF ConvAt
  <2>3. k - 1 \in DOMAIN queue /\ queue'[k] = queue[k - 1]
    BY <1>6, <2>2
  <2>4. ConvAt(k - 1) = ConvOf[b.job]
    BY <2>3 DEF ConvAt
  <2>. QED BY <2>1, <2>3, <2>4 DEF IInv, ServedIsOldest
<1>13. ArrivalsRanked' /\ RetriesBounded' /\ InOrder'
  BY <1>1 DEF IInv, ArrivalsRanked, RetriesBounded, InOrder, SameConv
<1>14. RetriesCounted'
  <2>1. /\ c.retries + 1 = InitialRetries + attempts[c.job]
        /\ attempts[c.job] \in 1..MaxAttempts
    BY DEF IInv, RetriesCounted
  <2>2. attempts[c.job] < MaxAttempts
    BY <1>1, <1>2, <2>1, QueueAssumption DEF MaxAttempts
  <2>3. ASSUME NEW k \in DOMAIN queue'
        PROVE  /\ queue'[k].retries = InitialRetries + attempts[queue'[k].job]
               /\ attempts[queue'[k].job] < MaxAttempts
    BY <1>5, <1>6, <1>9, <2>1, <2>2 DEF IInv, RetriesCounted
  <2>. QED BY <1>1, <2>3 DEF IInv, RetriesCounted
<1>. QED BY <1>7, <1>8, <1>10, <1>11, <1>12, <1>13, <1>14 DEF IInv

LEMMA NextIInv == IInv /\ [Next]_vars => IInv'
<1> SUFFICES ASSUME IInv, [Next]_vars PROVE IInv'
  OBVIOUS
<1>1. CASE \E j \in Jobs : Enqueue(j)
  BY <1>1, EnqueueIInv
<1>2. CASE Dequeue
  BY <1>2, DequeueIInv
<1>3. CASE \E v \in Convs : CancelAll(v)
  BY <1>3, CancelAllIInv
<1>4. CASE Dispose
  <2>1. UNCHANGED <<queue, lock, ticks, calls, clock, arrival, fate, attempts>> /\ draining' = FALSE
    BY <1>4 DEF Dispose
  <2>2. TypeOK' BY <2>1 DEF IInv, TypeOK
  <2>3. OneAtATime' /\ NoJobLost' BY <2>1 DEF IInv, OneAtATime, NoJobLost, IsWaiting, IsServed
  <2>. QED BY <2>1, <2>2, <2>3 DEF IInv, ArrayInOrder, ServedIsOldest, ArrivalsRanked, RetriesCounted,
     RetriesBounded, InOrder, IsWaiting, IsServed, ConvAt, SameConv
<1>5. CASE Tick
  <2>1. ticks' \in Nat
    BY <1>5 DEF Tick, IInv, TypeOK
  <2>. QED BY <1>5, <2>1, TickBodyIInv DEF Tick
<1>6. CASE Drain
  <2>1. ticks' \in Nat
    BY <1>6 DEF Drain, IInv, TypeOK
  <2>. QED BY <1>6, <2>1, TickBodyIInv DEF Drain
<1>7. ASSUME NEW c \in calls, Settle(c) PROVE IInv'
  BY <1>7, NextSubscriberIInv, CompleteIInv, RetryIInv, AbandonIInv DEF Settle
<1>8. CASE UNCHANGED vars
  BY <1>8 DEF vars, IInv, TypeOK, OneAtATime, NoJobLost, ArrayInOrder, ServedIsOldest,
     ArrivalsRanked, RetriesCounted, RetriesBounded, InOrder, IsWaiting, IsServed, ConvAt,
     SameConv
<1>. QED BY <1>1, <1>2, <1>3, <1>4, <1>5, <1>6, <1>7, <1>8 DEF Next

\* The bookkeeping of the queue (array, locks, calls in process, retry counts)
\* is never broken, for any jobs, conversations, subscribers and retry bounds.
THEOREM Invariance == Spec => []IInv
BY InitIInv, NextIInv, PTL DEF Spec

\* The queue keeps its types.
THEOREM TypeCorrect == Spec => []TypeOK
<1>1. IInv => TypeOK
  BY DEF IInv
<1>. QED BY <1>1, Invariance, PTL

\* Two events of a conversation are never processed at once, and a
\* conversation is locked exactly while one of its events is processed.
THEOREM MutualExclusion == Spec => []OneAtATime
<1>1. IInv => OneAtATime
  BY DEF IInv
<1>. QED BY <1>1, Invariance, PTL

\* No event is lost or duplicated by retries, cancellations and dequeues.
THEOREM NothingLost == Spec => []NoJobLost
<1>1. IInv => NoJobLost
  BY DEF IInv
<1>. QED BY <1>1, Invariance, PTL

\* The events of a conversation are handed over in the order of their arrival,
\* retries included.
THEOREM ConversationOrder == Spec => []InOrder
<1>1. IInv => InOrder
  BY DEF IInv
<1>. QED BY <1>1, Invariance, PTL

\* An event is handed over at most MaxAttempts times, and abandoned only then.
THEOREM BoundedRetries == Spec => []RetriesBounded
<1>1. IInv => RetriesBounded
  BY DEF IInv
<1>. QED BY <1>1, Invariance, PTL

-----------------------------------------------------------------------------
(* No wake-up is lost. *)

LEMMA ReadyConvsFinite ==
  ASSUME IInv
  PROVE  /\ ReadyConvs \subseteq Convs
         /\ IsFiniteSet(ReadyConvs)
         /\ Cardinality(ReadyConvs) \in Nat
<1>1. ReadyConvs \in SUBSET Convs
  BY QueueTypes DEF ReadyConvs
<1>. QED BY <1>1, QueueAssumption, FS_Subset, FS_CardinalityType

\* A tick that takes nothing finds every waiting conversation locked.
LEMMA IdleTick ==
  ASSUME IInv, ~ \E k \in DOMAIN queue : IsNext(k)
  PROVE  ReadyConvs = {}
<1> SUFFICES ASSUME NEW m \in DOMAIN queue, ConvAt(m) \notin lock
             PROVE  FALSE
  BY DEF ReadyConvs
<1> DEFINE free == {k \in DOMAIN queue : ConvAt(k) \notin lock}
<1>1. /\ Len(queue) \in Nat
      /\ DOMAIN queue = 1..Len(queue)
  BY QueueTypes
<1>2. free # {} /\ free \subseteq Nat
  BY <1>1
<1> DEFINE R == {ss \in Nat \X Nat : ss[1] < ss[2]}
<1>3. IsWellFoundedOn(R, Nat)
  BY NatLessThanWellFounded, Zenon DEF OpToRel
<1>4. \A i, k \in Nat : i < k => <<i, k>> \in R
  OBVIOUS
<1> HIDE DEF free, R
<1>5. PICK k \in free : \A i \in free : ~ (<<i, k>> \in R)
  BY <1>2, <1>3, WFMin
<1>6. \A i \in free : ~ (i < k)
  BY <1>2, <1>4, <1>5
<1> USE DEF free
<1>7. IsNext(k)
  BY <1>1, <1>6 DEF IsNext
<1>. QED BY <1>7

WakeupInv == IInv /\ NoLostWakeup

\* Ready conversations that are not new are paid for by the ticks there were.
LEMMA FewerReady ==
  ASSUME WakeupInv, IInv', ReadyConvs' \subseteq ReadyConvs, ticks' = ticks
  PROVE  NoLostWakeup'
<1>1. IsFiniteSet(ReadyConvs) /\ Cardinality(ReadyConvs) <= ticks /\ ticks \in Nat
  BY ReadyConvsFinite DEF WakeupInv, NoLostWakeup, IInv, TypeOK
<1>2. Cardinality(ReadyConvs') <= Cardinality(ReadyConvs) /\ Cardinality(ReadyConvs') \in Nat
  BY <1>1, FS_Subset, FS_CardinalityType
<1>. QED BY <1>1, <1>2, FS_CardinalityType DEF NoLostWakeup

LEMMA OneMoreReady ==
  ASSUME WakeupInv, IInv', NEW v, ReadyConvs' \subseteq ReadyConvs \cup {v},
         ticks' \in Nat, ticks' >= ticks + 1
  PROVE  NoLostWakeup'
<1>1. IsFiniteSet(ReadyConvs) /\ Cardinality(ReadyConvs) <= ticks /\ ticks \in Nat
      /\ Cardinality(ReadyConvs) \in Nat
  BY ReadyConvsFinite DEF WakeupInv, NoLostWakeup, IInv, TypeOK
<1>2. /\ IsFiniteSet(ReadyConvs \cup {v})
      /\ Cardinality(ReadyConvs \cup {v}) <= Cardinality(ReadyConvs) + 1
      /\ Cardinality(ReadyConvs \cup {v}) \in Nat
  <2>1. /\ IsFiniteSet(ReadyConvs \cup {v})
        /\ Cardinality(ReadyConvs \cup {v}) =
             IF v \in ReadyConvs THEN Cardinality(ReadyConvs) ELSE Cardinality(ReadyConvs) + 1
    BY <1>1, FS_AddElement
  <2>. QED BY <1>1, <2>1
<1>3. IsFiniteSet(ReadyConvs') /\ Cardinality(ReadyConvs') <= Cardinality(ReadyConvs \cup {v})
  BY <1>2, FS_Subset
<1>4. Cardinality(ReadyConvs') \in Nat
  BY <1>3, FS_CardinalityType
<1>. QED BY <1>1, <1>2, <1>3, <1>4 DEF NoLostWakeup

LEMMA OneLessReady ==
  ASSUME WakeupInv, IInv', NEW v \in ReadyConvs, ReadyConvs' \subseteq ReadyConvs \ {v},
         ticks' \in {ticks, ticks - 1}
  PROVE  NoLostWakeup'
<1>1. IsFiniteSet(ReadyConvs) /\ Cardinality(ReadyConvs) <= ticks /\ ticks \in Nat
      /\ Cardinality(ReadyConvs) \in Nat
  BY ReadyConvsFinite DEF WakeupInv, NoLostWakeup, IInv, TypeOK
<1>2. /\ IsFiniteSet(ReadyConvs \ {v})
      /\ Cardinality(ReadyConvs \ {v}) = Cardinality(ReadyConvs) - 1
  BY <1>1, FS_RemoveElement
<1>3. IsFiniteSet(ReadyConvs') /\ Cardinality(ReadyConvs') <= Cardinality(ReadyConvs \ {v})
  BY <1>2, FS_Subset
<1>4. Cardinality(ReadyConvs') \in Nat
  BY <1>3, FS_CardinalityType
<1>. QED BY <1>1, <1>2, <1>3, <1>4 DEF NoLostWakeup

\* What is ready, in terms of jobs.
LEMMA ReadyByJob ==
  ASSUME IInv
  PROVE  ReadyConvs = {ConvOf[j] : j \in {i \in Jobs : IsWaiting(i)}} \ lock
BY QueueTypes DEF ReadyConvs, ConvAt, IsWaiting

\* A tick pays for the conversation it takes; one that takes none owes none.
LEMMA TickBodyWakeup ==
  ASSUME WakeupInv, IInv', TickBody, ticks' \in {ticks, ticks - 1}, ticks' \in Nat
  PROVE  NoLostWakeup'
<1> USE DEF WakeupInv
<1>1. CASE /\ ~ \E k \in DOMAIN queue : IsNext(k)
           /\ UNCHANGED <<queue, lock, calls, attempts>>
  <2>1. ReadyConvs = {}
    BY <1>1, IdleTick
  <2>2. ReadyConvs' = {}
    BY <1>1, <2>1 DEF ReadyConvs, ConvAt
  <2>. QED BY <2>2, FS_EmptySet DEF NoLostWakeup
<1>2. ASSUME NEW k \in DOMAIN queue, IsNext(k), queue' = RemoveAt(queue, k),
             lock' = lock \cup {ConvAt(k)}
      PROVE  NoLostWakeup'
  <2>1. ConvAt(k) \in ReadyConvs
    BY <1>2 DEF ReadyConvs, IsNext
  <2>2. /\ Len(queue) \in Nat
        /\ DOMAIN queue = 1..Len(queue)
        /\ queue \in Seq(Wrapper)
    BY QueueTypes DEF IInv, TypeOK
  <2>3. /\ queue' \in Seq(Wrapper)
        /\ Len(queue') = Len(queue) - 1
        /\ \A i \in 1..(Len(queue) - 1) :
             queue'[i] = IF i < k THEN queue[i] ELSE queue[i + 1]
    BY <1>2, <2>2, RemoveAtProperties
  <2>4. \A i \in DOMAIN queue' : \E m \in DOMAIN queue : queue'[i] = queue[m]
    <3>1. DOMAIN queue' = 1..(Len(queue) - 1)
      BY <2>3, LenProperties
    <3>2. ASSUME NEW i \in DOMAIN queue' PROVE \E m \in DOMAIN queue : queue'[i] = queue[m]
      <4>1. i \in DOMAIN queue /\ i + 1 \in DOMAIN queue
        BY <2>2, <3>1
      <4>2. queue'[i] = queue[i] \/ queue'[i] = queue[i + 1]
        BY <2>3, <3>1
      <4>. QED BY <4>1, <4>2
    <3>. QED BY <3>2
  <2>5. ReadyConvs' \subseteq ReadyConvs \ {ConvAt(k)}
    BY <1>2, <2>4 DEF ReadyConvs, ConvAt
  <2>. QED BY <2>1, <2>5, OneLessReady
<1>. QED BY <1>1, <1>2 DEF TickBody

\* A job in process that settles frees one conversation and schedules a tick
\* for it if any job waits.
LEMMA ReleaseWakeup ==
  ASSUME WakeupInv, IInv', NEW c \in calls, NEW n \in {0, 1},
         Release(c, n),
         \/ n = 0 /\ queue' = queue
         \/ n = 1 /\ \A j \in Jobs : IsWaiting(j)' => IsWaiting(j) \/ j = c.job
  PROVE  NoLostWakeup'
<1> USE DEF WakeupInv
<1>1. ReadyConvs = {ConvOf[j] : j \in {i \in Jobs : IsWaiting(i)}} \ lock
  BY ReadyByJob
<1>2. ReadyConvs' = {ConvOf[j] : j \in {i \in Jobs : IsWaiting(i)'}} \ lock'
  <2>1. (ReadyConvs = {ConvOf[j] : j \in {i \in Jobs : IsWaiting(i)}} \ lock)'
    BY ReadyByJob, PTL
  <2>. QED BY <2>1
<1>3. lock' = lock \ {ConvOf[c.job]}
  BY DEF Release
<1>4. \A j \in Jobs : IsWaiting(j)' => IsWaiting(j) \/ j = c.job
  BY DEF IsWaiting
<1>5. ReadyConvs' \subseteq ReadyConvs \cup {ConvOf[c.job]}
  BY <1>1, <1>2, <1>3, <1>4
<1>6. ticks \in Nat /\ ticks' = ticks + n + (IF queue' # <<>> THEN 1 ELSE 0)
  BY DEF Release, IInv, TypeOK
<1>7. CASE ticks' >= ticks + 1
  BY <1>5, <1>6, <1>7, OneMoreReady
<1>8. CASE queue' = <<>>
  <2>1. ReadyConvs' = {}
    BY <1>8 DEF ReadyConvs
  <2>. QED BY <1>6, <2>1, FS_EmptySet DEF NoLostWakeup
<1>. QED BY <1>6, <1>7, <1>8

LEMMA NextWakeup == WakeupInv /\ IInv' /\ [Next]_vars => NoLostWakeup'
<1> SUFFICES ASSUME WakeupInv, IInv', [Next]_vars PROVE NoLostWakeup'
  OBVIOUS
<1> USE DEF WakeupInv
<1>0. ticks \in Nat /\ ticks' \in Nat
  BY DEF IInv, TypeOK
<1>1. ASSUME NEW j \in Jobs, Enqueue(j) PROVE NoLostWakeup'
  <2>1. queue \in Seq(Wrapper) /\ [job |-> j, retries |-> InitialRetries] \in Wrapper
    BY QueueAssumption DEF IInv, TypeOK, Wrapper
  <2>2. \A k \in DOMAIN queue' :
          \/ queue'[k].job = j
          \/ k \in DOMAIN queue /\ queue'[k] = queue[k]
    BY <1>1, <2>1, AppendProperties, LenProperties DEF Enqueue
  <2>3. ReadyConvs' \subseteq ReadyConvs \cup {ConvOf[j]}
    <3>1. \A k \in DOMAIN queue' :
            ConvAt(k)' = ConvOf[j] \/ (k \in DOMAIN queue /\ ConvAt(k)' = ConvAt(k))
      BY <2>2 DEF ConvAt
    <3>2. lock' = lock
      BY <1>1 DEF Enqueue
    <3>3. ASSUME NEW k \in DOMAIN queue', ConvAt(k)' \notin lock
          PROVE  ConvAt(k)' \in ReadyConvs \cup {ConvOf[j]}
      BY <3>1, <3>3 DEF ReadyConvs
    <3>4. \A v \in ReadyConvs' : v \notin lock /\ \E k \in DOMAIN queue' : v = ConvAt(k)'
      BY <3>2 DEF ReadyConvs
    <3>. QED BY <3>3, <3>4
  <2>4. ticks' >= ticks + 1
    BY <1>0, <1>1 DEF Enqueue
  <2>. QED BY <1>0, <2>3, <2>4, OneMoreReady
<1>2. CASE Dequeue
  <2>1. /\ queue \in Seq(Wrapper)
        /\ queue # <<>>
        /\ queue' = Tail(queue)
        /\ UNCHANGED <<lock, ticks>>
    BY <1>2 DEF Dequeue, IInv, TypeOK
  <2>2. \A k \in DOMAIN queue' : k + 1 \in DOMAIN queue /\ queue'[k] = queue[k + 1]
    BY <2>1, HeadTailProperties, LenProperties
  <2>3. ReadyConvs' \subseteq ReadyConvs
    BY <2>1, <2>2 DEF ReadyConvs, ConvAt
  <2>. QED BY <2>1, <2>3, FewerReady
<1>3. ASSUME NEW v \in Convs, CancelAll(v) PROVE NoLostWakeup'
  <2> DEFINE kept == {k \in DOMAIN queue : ConvAt(k) # v}
  <2>1. PICK f \in [1..Cardinality(kept) -> kept] : queue' = [i \in DOMAIN f |-> queue[f[i]]]
    BY <1>3 DEF CancelAll
  <2>2. \A k \in DOMAIN queue' : f[k] \in DOMAIN queue /\ queue'[k] = queue[f[k]]
    BY <2>1
  <2>3. UNCHANGED <<lock, ticks>>
    BY <1>3 DEF CancelAll
  <2> HIDE DEF kept
  <2>4. ReadyConvs' \subseteq ReadyConvs
    BY <2>2, <2>3 DEF ReadyConvs, ConvAt
  <2>. QED BY <2>3, <2>4, FewerReady
<1>4. CASE Tick
  BY <1>0, <1>4, TickBodyWakeup DEF Tick
<1>5. CASE Drain
  BY <1>0, <1>5, TickBodyWakeup DEF Drain
<1>6. CASE UNCHANGED <<queue, lock, ticks>>
  <2>1. ReadyConvs' \subseteq ReadyConvs
    BY <1>6 DEF ReadyConvs, ConvAt
  <2>. QED BY <1>6, <2>1, FewerReady
<1>7. ASSUME NEW c \in calls, Settle(c) PROVE NoLostWakeup'
  <2>1. CASE NextSubscriber(c)
    BY <1>6, <2>1 DEF NextSubscriber
  <2>2. CASE Complete(c) \/ FailAndAbandon(c)
    BY <2>2, ReleaseWakeup DEF Complete, FailAndAbandon
  <2>3. CASE FailAndRetry(c)
    <3>1. [job |-> c.job, retries |-> c.retries + 1] \in Wrapper /\ queue \in Seq(Wrapper)
      <4>1. c.job \in Jobs /\ c.retries \in Nat
        BY QueueTypes
      <4>. QED BY <4>1 DEF Wrapper, IInv, TypeOK
    <3>2. /\ queue' = <<[job |-> c.job, retries |-> c.retries + 1]>> \o queue
          /\ Release(c, 1)
      BY <2>3 DEF FailAndRetry
    <3>3. \A k \in DOMAIN queue' :
            \/ queue'[k].job = c.job
            \/ k - 1 \in DOMAIN queue /\ queue'[k] = queue[k - 1]
      <4>1. /\ queue' \in Seq(Wrapper)
            /\ Len(queue') = Len(queue) + 1
            /\ queue'[1].job = c.job
            /\ \A i \in 1..Len(queue) : queue'[i + 1] = queue[i]
        BY <3>1, <3>2, UnshiftProperties
      <4>2. DOMAIN queue' = 1..(Len(queue) + 1) /\ DOMAIN queue = 1..Len(queue)
            /\ Len(queue) \in Nat
        BY <3>1, <4>1, LenProperties
      <4>. QED BY <4>1, <4>2
    <3>4. \A j \in Jobs : IsWaiting(j)' => IsWaiting(j) \/ j = c.job
      BY <3>3 DEF IsWaiting
    <3>. QED BY <3>2, <3>4, ReleaseWakeup
  <2>. QED BY <1>7, <2>1, <2>2, <2>3 DEF Settle
<1>8. Dispose \/ UNCHANGED vars => UNCHANGED <<queue, lock, ticks>>
  BY DEF Dispose, vars
<1>. QED BY <1>1, <1>2, <1>3, <1>4, <1>5, <1>6, <1>7, <1>8 DEF Next

\* Each conversation that has a job to take has a tick scheduled for it: the
\* drain timer is never what a conversation waits for.
THEOREM WakeupsSuffice == Spec => []NoLostWakeup
<1>1. Init => NoLostWakeup
  <2>1. ASSUME Init PROVE ReadyConvs = {}
    BY <2>1 DEF Init, ReadyConvs
  <2>. QED BY <2>1, FS_EmptySet DEF Init, NoLostWakeup
<1>2. IInv /\ NoLostWakeup /\ IInv' /\ [Next]_vars => NoLostWakeup'
  BY NextWakeup DEF WakeupInv
<1>. QED BY <1>1, <1>2, Invariance, PTL DEF Spec

-----------------------------------------------------------------------------
(* The refinement of ConversationFIFO.  Each step of the queue is a step of the *)
(* abstract queue on the same jobs, or leaves what that sees alone.             *)

\* Where a job stands, from the array and the calls alone.
LEMMA StatusMeans ==
  ASSUME IInv, NEW j \in Jobs
  PROVE  /\ Status[j] = "waiting" <=> IsWaiting(j)
         /\ Status[j] = "serving" <=> IsServed(j)
         /\ ~ IsWaiting(j) /\ ~ IsServed(j) => Status[j] = fate[j]
         /\ Status[j] = "new" <=> fate[j] = "new"
         /\ IsWaiting(j) \/ IsServed(j) <=> fate[j] = "live"
<1>1. /\ fate[j] = "live" <=> IsWaiting(j) \/ IsServed(j)
      /\ ~ (IsWaiting(j) /\ IsServed(j))
      /\ fate[j] \in {"new", "live"} \cup Settled
  BY DEF IInv, NoJobLost, TypeOK
<1>. QED BY <1>1, SMT DEF Status, Settled

LEMMA StatusMeansNext ==
  ASSUME IInv', NEW j \in Jobs
  PROVE  /\ Status'[j] = "waiting" <=> IsWaiting(j)'
         /\ Status'[j] = "serving" <=> IsServed(j)'
         /\ ~ IsWaiting(j)' /\ ~ IsServed(j)' => Status'[j] = fate'[j]
<1>1. /\ fate'[j] = "live" <=> IsWaiting(j)' \/ IsServed(j)'
      /\ ~ (IsWaiting(j)' /\ IsServed(j)')
      /\ fate'[j] \in {"new", "live"} \cup Settled
  BY DEF IInv, NoJobLost, TypeOK
<1>. QED BY <1>1, SMT DEF Status, Settled

\* A step that moves one job.
LEMMA OneJobMoves ==
  ASSUME NEW j \in Jobs, \A i \in Jobs \ {j} : Status'[i] = Status[i]
  PROVE  Status' = [Status EXCEPT ![j] = Status'[j]]
BY DEF Status

\* A step that moves none.
LEMMA NoJobMoves ==
  ASSUME \A j \in Jobs : Status'[j] = Status[j]
  PROVE  Status' = Status
BY DEF Status

\* Who waits is in the array; who is served is in a call.
LEMMA WhoWaits ==
  ASSUME IInv, NEW i \in Jobs, Status[i] = "waiting"
  PROVE  \E m \in DOMAIN queue : queue[m].job = i
BY StatusMeans DEF IsWaiting

\* The first job of a conversation in the array is the first of the conversation.
LEMMA FirstInArray ==
  ASSUME IInv, NEW k \in DOMAIN queue,
         \A m \in DOMAIN queue : ConvAt(m) = ConvAt(k) => k <= m
  PROVE  Fifo!IsFirst(queue[k].job)
<1> SUFFICES ASSUME NEW i \in Jobs, ConvOf[i] = ConvOf[queue[k].job], Status[i] = "waiting"
             PROVE  arrival[queue[k].job] <= arrival[i]
  BY DEF Fifo!IsFirst, Fifo!SameConv
<1>1. PICK m \in DOMAIN queue : queue[m].job = i
  BY WhoWaits
<1>2. /\ k \in Nat /\ m \in Nat /\ queue[k].job \in Jobs
  BY QueueTypes
<1>3. k <= m
  BY <1>1 DEF ConvAt
<1>4. CASE k = m
  BY <1>1, <1>2, <1>4 DEF IInv, TypeOK
<1>5. CASE k < m
  <2>1. arrival[queue[k].job] < arrival[queue[m].job]
    BY <1>1, <1>5 DEF IInv, ArrayInOrder, ConvAt
  <2>. QED BY <1>1, <1>2, <2>1 DEF IInv, TypeOK
<1>. QED BY <1>2, <1>3, <1>4, <1>5

-----------------------------------------------------------------------------
(* The steps. *)

LEMMA EnqueueSubmits ==
  ASSUME IInv, IInv', NEW j \in Jobs, Enqueue(j)
  PROVE  Fifo!Submit(j)
<1>1. /\ fate[j] = "new"
      /\ queue' = Append(queue, [job |-> j, retries |-> InitialRetries])
      /\ arrival' = [arrival EXCEPT ![j] = clock + 1]
      /\ fate' = [fate EXCEPT ![j] = "live"]
      /\ calls' = calls /\ attempts' = attempts
  BY DEF Enqueue
<1>2. /\ clock \in Nat /\ arrival \in [Jobs -> Nat] /\ fate \in [Jobs -> {"new", "live"} \cup Settled]
      /\ \A i \in Jobs : arrival[i] <= clock
  BY DEF IInv, TypeOK, ArrivalsRanked
<1>3. \A i \in Jobs : IsServed(i)' <=> IsServed(i)
  BY <1>1 DEF IsServed
<1>4. Status[j] = "new" /\ ~ IsServed(j)
  BY <1>1, StatusMeans
<1>5. Status'[j] = "waiting"
  BY <1>1, <1>2, <1>3, <1>4, SMT DEF Status
<1>6. \A i \in Jobs \ {j} : Status'[i] = Status[i]
  BY <1>1, <1>2, <1>3, SMT DEF Status
<1>7. Status' = [Status EXCEPT ![j] = "waiting"]
  BY <1>5, <1>6, OneJobMoves
<1>8. arrival'[j] = clock + 1
  BY <1>1, <1>2
<1>9. \A i \in Jobs : arrival[i] < arrival'[j]
  BY <1>2, <1>8
<1>10. arrival'[j] \in Nat /\ arrival' = [arrival EXCEPT ![j] = arrival'[j]]
  BY <1>1, <1>2, <1>8
<1>. QED BY <1>1, <1>4, <1>7, <1>9, <1>10 DEF Fifo!Submit

LEMMA DequeueTakes ==
  ASSUME IInv, IInv', Dequeue
  PROVE  \E j \in Jobs : Fifo!Take(j)
<1> DEFINE j == queue[1].job
<1>1. /\ queue # <<>>
      /\ fate' = [fate EXCEPT ![Head(queue).job] = "taken"]
      /\ UNCHANGED <<calls, arrival, attempts>>
  BY DEF Dequeue
<1>2. /\ 1 \in DOMAIN queue /\ Head(queue) = queue[1] /\ j \in Jobs
      /\ \A m \in DOMAIN queue : 1 <= m
  <2>1. queue \in Seq(Wrapper)
    BY DEF IInv, TypeOK
  <2>2. Len(queue) # 0
    BY <1>1, <2>1, EmptySeq
  <2>. QED BY <1>1, <2>1, <2>2, QueueTypes
<1>3. IsWaiting(j) /\ fate[j] = "live"
  BY <1>2, StatusMeans DEF IsWaiting
<1>4. Status[j] = "waiting"
  BY <1>2, <1>3, StatusMeans
<1>5. Fifo!IsFirst(j)
  BY <1>2, FirstInArray
<1>6. fate' = [fate EXCEPT ![j] = "taken"] /\ fate \in [Jobs -> {"new", "live"} \cup Settled]
  BY <1>1, <1>2 DEF IInv, TypeOK
<1>7. \A i \in Jobs : IsServed(i)' <=> IsServed(i)
  BY <1>1 DEF IsServed
<1> HIDE DEF j
<1>8. Status'[j] = "taken"
  BY <1>2, <1>6 DEF Status
<1>9. \A i \in Jobs \ {j} : Status'[i] = Status[i]
  BY <1>6, <1>7, SMT DEF Status
<1>10. Status' = [Status EXCEPT ![j] = "taken"]
  BY <1>2, <1>8, <1>9, OneJobMoves
<1>. QED BY <1>1, <1>2, <1>4, <1>5, <1>10 DEF Fifo!Take

LEMMA CancelAllCancels ==
  ASSUME IInv, IInv', NEW c \in Convs, CancelAll(c)
  PROVE  Fifo!Cancel(c)
<1>1. /\ fate' = [j \in Jobs |-> IF ConvOf[j] = c /\ IsWaiting(j) THEN "cancelled" ELSE fate[j]]
      /\ UNCHANGED <<calls, arrival, attempts>>
  BY DEF CancelAll
<1>2. ASSUME NEW j \in Jobs
      PROVE  Status'[j] = IF ConvOf[j] = c /\ Status[j] = "waiting" THEN "cancelled" ELSE Status[j]
  <2>1. IsServed(j)' <=> IsServed(j)
    BY <1>1 DEF IsServed
  <2>2. CASE ConvOf[j] = c /\ IsWaiting(j)
    BY <1>1, <2>2, StatusMeans DEF Status
  <2>3. CASE ~ (ConvOf[j] = c /\ IsWaiting(j))
    <3>1. fate'[j] = fate[j]
      BY <1>1, <2>3
    <3>2. Status'[j] = Status[j]
      BY <2>1, <3>1 DEF Status
    <3>. QED BY <2>3, <3>2, StatusMeans
  <2>. QED BY <2>2, <2>3
<1>3. Status' = [j \in Jobs |-> IF ConvOf[j] = c /\ Status[j] = "waiting" THEN "cancelled" ELSE Status[j]]
  BY <1>2 DEF Status
<1>. QED BY <1>1, <1>3 DEF Fifo!Cancel

\* A tick, or the drain timer.
LEMMA TickBodyServes ==
  ASSUME IInv, IInv', TickBody, UNCHANGED <<arrival, fate>>
  PROVE  (\E j \in Jobs : Fifo!Serve(j)) \/ UNCHANGED <<Status, arrival, attempts>>
<1>1. CASE UNCHANGED <<queue, lock, calls, attempts>>
  <2>1. \A j \in Jobs : Status'[j] = Status[j]
    BY <1>1 DEF Status, IsServed
  <2>. QED BY <1>1, <2>1, NoJobMoves
<1>2. ASSUME NEW k \in DOMAIN queue, IsNext(k),
             calls' = calls \cup {[job |-> queue[k].job, retries |-> queue[k].retries, sub |-> 1]},
             attempts' = [attempts EXCEPT ![queue[k].job] = @ + 1]
      PROVE  \E j \in Jobs : Fifo!Serve(j)
  <2> DEFINE j == queue[k].job
             call == [job |-> j, retries |-> queue[k].retries, sub |-> 1]
  <2>1. j \in Jobs /\ IsWaiting(j) /\ k \in Nat /\ \A m \in DOMAIN queue : m \in Nat /\ m >= 1
    BY QueueTypes DEF IsWaiting
  <2>2. Status[j] = "waiting" /\ fate[j] = "live"
    BY <2>1, StatusMeans
  <2>3. \A m \in DOMAIN queue : ConvAt(m) = ConvAt(k) => k <= m
    <3> SUFFICES ASSUME NEW m \in DOMAIN queue, ConvAt(m) = ConvAt(k), m < k
                 PROVE  FALSE
      BY <2>1
    <3>1. m \in 1..(k - 1)
      BY <2>1
    <3>. QED BY <1>2, <3>1 DEF IsNext
  <2>4. Fifo!IsFirst(j)
    BY <2>3, FirstInArray
  <2>5. ASSUME NEW i \in Jobs, ConvOf[i] = ConvOf[j], Status[i] = "serving" PROVE FALSE
    <3>1. PICK c \in calls : c.job = i
      BY <2>5, StatusMeans DEF IsServed
    <3>2. ConvAt(k) \in lock
      BY <2>5, <3>1 DEF IInv, OneAtATime, ConvAt
    <3>. QED BY <1>2, <3>2 DEF IsNext
  <2>6. attempts[j] < MaxAttempts
    BY DEF IInv, RetriesCounted
  <2>7. call.job = j /\ calls' = calls \cup {call}
    BY <1>2
  <2>8. attempts' = [attempts EXCEPT ![j] = @ + 1]
    BY <1>2
  <2> HIDE DEF j, call
  <2>9. \A i \in Jobs : IsServed(i)' <=> IsServed(i) \/ i = j
    BY <2>7 DEF IsServed
  <2>10. Status'[j] = "serving"
    BY <2>1, <2>2, <2>9 DEF Status
  <2>11. \A i \in Jobs \ {j} : Status'[i] = Status[i]
    BY <2>9 DEF Status
  <2>12. Status' = [Status EXCEPT ![j] = "serving"]
    BY <2>1, <2>10, <2>11, OneJobMoves
  <2>13. Fifo!Serve(j)
    BY <2>2, <2>4, <2>5, <2>6, <2>8, <2>12 DEF Fifo!Serve, Fifo!SameConv
  <2>. QED BY <2>1, <2>13
<1>. QED BY <1>1, <1>2 DEF TickBody

\* What the settling of a call does to the jobs.
LEMMA CallEnds ==
  ASSUME IInv, NEW c \in calls, calls' = calls \ {c}
  PROVE  /\ c.job \in Jobs /\ IsServed(c.job) /\ Status[c.job] = "serving" /\ fate[c.job] = "live"
         /\ ~ IsServed(c.job)'
         /\ \A i \in Jobs \ {c.job} : IsServed(i)' <=> IsServed(i)
<1>1. c.job \in Jobs /\ IsServed(c.job)
  BY QueueTypes DEF IsServed
<1>2. \A d \in calls : d.job = c.job => d = c
  BY DEF IInv, OneAtATime, SameConv
<1>. QED BY <1>1, <1>2, StatusMeans DEF IsServed

LEMMA CompleteFinishes ==
  ASSUME IInv, NEW c \in calls, Complete(c)
  PROVE  \E j \in Jobs : Fifo!Finish(j)
<1>1. /\ fate' = [fate EXCEPT ![c.job] = "done"] /\ calls' = calls \ {c}
      /\ UNCHANGED <<arrival, attempts>>
  BY DEF Complete, Release
<1>2. fate \in [Jobs -> {"new", "live"} \cup Settled]
  BY DEF IInv, TypeOK
<1>3. Status'[c.job] = "done"
  BY <1>1, <1>2, CallEnds DEF Status
<1>4. \A i \in Jobs \ {c.job} : Status'[i] = Status[i]
  BY <1>1, <1>2, CallEnds DEF Status
<1>5. Status' = [Status EXCEPT ![c.job] = "done"]
  BY <1>1, <1>3, <1>4, CallEnds, OneJobMoves
<1>. QED BY <1>1, <1>5, CallEnds DEF Fifo!Finish

LEMMA FailureAbandons ==
  ASSUME IInv, IInv', NEW c \in calls, FailAndAbandon(c)
  PROVE  \E j \in Jobs : Fifo!Abandon(j)
<1>1. /\ fate' = [fate EXCEPT ![c.job] = "abandoned"] /\ calls' = calls \ {c}
      /\ UNCHANGED <<arrival, attempts>>
  BY DEF FailAndAbandon, Release
<1>2. fate \in [Jobs -> {"new", "live"} \cup Settled]
  BY DEF IInv, TypeOK
<1>3. Status'[c.job] = "abandoned" /\ fate'[c.job] = "abandoned"
  BY <1>1, <1>2, CallEnds DEF Status
<1>4. \A i \in Jobs \ {c.job} : Status'[i] = Status[i]
  BY <1>1, <1>2, CallEnds DEF Status
<1>5. Status' = [Status EXCEPT ![c.job] = "abandoned"]
  BY <1>1, <1>3, <1>4, CallEnds, OneJobMoves
<1>6. attempts[c.job] = MaxAttempts
  BY <1>1, <1>3, CallEnds DEF IInv, RetriesBounded
<1>. QED BY <1>1, <1>5, <1>6, CallEnds DEF Fifo!Abandon

LEMMA FailureRetries ==
  ASSUME IInv, IInv', NEW c \in calls, FailAndRetry(c)
  PROVE  \E j \in Jobs : Fifo!Retry(j)
<1>1. /\ calls' = calls \ {c} /\ c.retries + 1 <= MaxRetries
      /\ UNCHANGED <<arrival, attempts, fate>>
  BY DEF FailAndRetry, Release
<1>2. Status'[c.job] = "waiting"
  BY <1>1, CallEnds DEF Status
<1>3. \A i \in Jobs \ {c.job} : Status'[i] = Status[i]
  BY <1>1, CallEnds DEF Status
<1>4. Status' = [Status EXCEPT ![c.job] = "waiting"]
  BY <1>1, <1>2, <1>3, CallEnds, OneJobMoves
<1>5. attempts[c.job] < MaxAttempts
  <2>1. c.retries + 1 = InitialRetries + attempts[c.job] /\ attempts[c.job] \in 1..MaxAttempts
    BY DEF IInv, RetriesCounted
  <2>. QED BY <1>1, <2>1, QueueAssumption DEF MaxAttempts
<1>. QED BY <1>1, <1>4, <1>5, CallEnds DEF Fifo!Retry

LEMMA SubscribersPass ==
  ASSUME IInv, NEW c \in calls, NextSubscriber(c)
  PROVE  UNCHANGED <<Status, arrival, attempts>>
<1> DEFINE d == [c EXCEPT !.sub = @ + 1]
<1>1. calls' = (calls \ {c}) \cup {d} /\ UNCHANGED <<arrival, attempts, fate>>
  BY DEF NextSubscriber
<1>2. d.job = c.job
  BY QueueTypes DEF Call
<1> HIDE DEF d
<1>3. \A i \in Jobs : IsServed(i)' <=> IsServed(i)
  BY <1>1, <1>2 DEF IsServed
<1>4. \A i \in Jobs : Status'[i] = Status[i]
  BY <1>1, <1>3 DEF Status
<1>. QED BY <1>1, <1>4, NoJobMoves

-----------------------------------------------------------------------------
LEMMA InitRefines == Init => Fifo!Init
<1> SUFFICES ASSUME Init PROVE Fifo!Init
  OBVIOUS
<1>1. Status = [j \in Jobs |-> "new"]
  BY DEF Init, Status
<1>. QED BY <1>1 DEF Init, Fifo!Init

LEMMA NextRefines == IInv /\ IInv' /\ [Next]_vars => [Fifo!Next]_(Fifo!vars)
<1> SUFFICES ASSUME IInv, IInv', [Next]_vars PROVE Fifo!Next \/ UNCHANGED <<Status, arrival, attempts>>
  BY DEF Fifo!vars
<1>1. ASSUME NEW j \in Jobs, Enqueue(j) PROVE Fifo!Next
  BY <1>1, EnqueueSubmits DEF Fifo!Next
<1>2. ASSUME Dequeue PROVE Fifo!Next
  BY <1>2, DequeueTakes DEF Fifo!Next
<1>3. ASSUME NEW c \in Convs, CancelAll(c) PROVE Fifo!Next
  BY <1>3, CancelAllCancels DEF Fifo!Next
<1>4. ASSUME Dispose PROVE UNCHANGED <<Status, arrival, attempts>>
  <2>1. \A j \in Jobs : Status'[j] = Status[j]
    BY <1>4 DEF Dispose, Status, IsServed
  <2>. QED BY <1>4, <2>1, NoJobMoves DEF Dispose
<1>5. ASSUME Tick PROVE Fifo!Next \/ UNCHANGED <<Status, arrival, attempts>>
  BY <1>5, TickBodyServes DEF Tick, Fifo!Next
<1>6. ASSUME Drain PROVE Fifo!Next \/ UNCHANGED <<Status, arrival, attempts>>
  BY <1>6, TickBodyServes DEF Drain, Fifo!Next
<1>7. ASSUME NEW c \in calls, Settle(c) PROVE Fifo!Next \/ UNCHANGED <<Status, arrival, attempts>>
  BY <1>7, SubscribersPass, CompleteFinishes, FailureRetries, FailureAbandons DEF Settle, Fifo!Next
<1>8. ASSUME UNCHANGED vars PROVE UNCHANGED <<Status, arrival, attempts>>
  <2>1. \A j \in Jobs : Status'[j] = Status[j]
    BY <1>8 DEF vars, Status, IsServed
  <2>. QED BY <1>8, <2>1, NoJobMoves DEF vars
<1>. QED BY <1>1, <1>2, <1>3, <1>4, <1>5, <1>6, <1>7, <1>8 DEF Next

\* The queue of memory-queue.ts is a ConversationFIFO, for any number of jobs,
\* conversations, subscribers and retries: what the event engine is shown to do
\* on top of ConversationFIFO it does on top of the queue.
THEOREM Refinement == Spec => ImplementsFifo
BY InitRefines, NextRefines, Invariance, PTL DEF Spec, ImplementsFifo, Fifo!Spec

-----------------------------------------------------------------------------
(* The sessions.  Every lemma of the form ...Does says what an action does to *)
(* the session it is for; every one of the form ...Keeps, that the sessions    *)
(* which have not raced stay whole.                                           *)

LEMMA Bounds ==
  /\ MaxTurns \in Nat /\ BatchSize \in Nat /\ BatchSize > 0
  /\ None \in 0..MaxTurns
  BY SessionAssumption DEF SessionAssumption, None

-----------------------------------------------------------------------------
(* What the steps do to the types. *)

LEMMA RowsAreRows ==
  /\ NoRow \in Row /\ ~ NoRow.exists /\ NoRow.ctx = None /\ NoRow.turns = {}
  /\ NewRow \in Row /\ NewRow.exists /\ NewRow.ctx = None /\ NewRow.turns = {}
  /\ NoKey \in Key /\ ~ NoKey.exists
  BY Bounds DEF NoRow, NewRow, NoKey, Row, Key, None, Expiry

LEMMA SavesIsRow ==
  ASSUME NEW w, w.ctx \in 0..MaxTurns, w.copy \in Row, w.turns \subseteq Turns
  PROVE  /\ Saves(w) \in Row /\ Saves(w).exists
         /\ Saves(w).turns = w.turns
         /\ Saves(w).ctx = NewContext(w)
  BY DEF Saves, NewContext, Row, Expiry

LEMMA RowFields ==
  ASSUME NEW r \in Row
  PROVE  /\ r.exists \in BOOLEAN /\ r.ctx \in 0..MaxTurns /\ r.turns \subseteq Turns
         /\ [r EXCEPT !.ctxExpiry = "past"] \in Row
         /\ [r EXCEPT !.sesExpiry = "past"] \in Row
         /\ \A b \in BOOLEAN : [r EXCEPT !.ctx = IF b THEN None ELSE @, !.ctxExpiry = "future", !.sesExpiry = "future"] \in Row
  BY Bounds DEF Row, Expiry

LEMMA WorkerFields ==
  ASSUME NEW w \in Worker
  PROVE  /\ w.at \in {"idle", "process", "write"}
         /\ w.ctx \in 0..MaxTurns /\ w.turns \subseteq Turns
         /\ w.copy \in Row /\ w.ignoreContext \in BOOLEAN
         /\ \A S \in SUBSET Turns : [w EXCEPT !.turns = S] \in Worker
         /\ [w EXCEPT !.at = "process"] \in Worker
  BY DEF Worker

LEMMA IdleIsWorker == Idle \in Worker /\ Idle.at = "idle"
  BY RowsAreRows, Bounds DEF Idle, Worker

Begun(c, S) == [Idle EXCEPT !.at = "process", !.ctx = c, !.turns = S]

LEMMA BegunIsWorker ==
  ASSUME NEW c \in 0..MaxTurns, NEW S \in SUBSET Turns
  PROVE  /\ Begun(c, S) \in Worker
         /\ Begun(c, S).at = "process" /\ Begun(c, S).ctx = c /\ Begun(c, S).turns = S
<1>1. Begun(c, S) \in Worker /\ Begun(c, S).at = "process"
  BY RowsAreRows DEF Worker, Begun, Idle
<1>2. Begun(c, S).ctx = c /\ Begun(c, S).turns = S
  BY DEF Begun, Idle
<1>. QED BY <1>1, <1>2

Flights == [at : {"idle", "read", "update"}, todo : Seq(Element), copy : Row, writes : [Sessions -> Row]]
Sweeps == [at : {"idle", "list", "next", "timeout", "write"},
           todo : SUBSET Sessions, of : SUBSET Sessions, copy : Row, reset : BOOLEAN]

LEMMA FlightFields ==
  ASSUME NEW f \in Flights
  PROVE  /\ f.at \in {"idle", "read", "update"}
         /\ f.todo \in Seq(Element) /\ f.copy \in Row /\ f.writes \in [Sessions -> Row]
  BY DEF Flights

LEMMA NoFlightIsFlight ==
  /\ NoFlight \in Flights /\ NoFlight.at = "idle" /\ NoFlight.todo = <<>>
  /\ NoFlight.writes = [s \in Sessions |-> NoRow]
  BY RowsAreRows DEF NoFlight, Flights

LEMMA RestingSweeps == Resting \in Sweeps /\ Resting.at = "idle" /\ Resting.of = {}
  BY RowsAreRows DEF Resting, Sweeps

\* SessionTypeOK, with its records named.
Types ==
  /\ row \in [Sessions -> Row]
  /\ worker \in [Sessions -> Worker]
  /\ events \in 0..MaxTurns /\ turn \in [Sessions -> 0..events]
  /\ \A s \in Sessions : worker[s].at # "idle" => turn[s] > 0
  /\ janitor \in Sweeps
  /\ janitor.at = "next" => janitor.todo # {}
  /\ redis \in Modes
  /\ key \in [Sessions -> Key]
  /\ batch \in Seq(Element)
  /\ flight \in Flights
  /\ flight.at = "update" => flight.todo # <<>>
  /\ deleting \cup lost \subseteq Sessions
  /\ saved \in [Sessions -> SUBSET Turns]
  /\ left \in [Sessions -> 0..MaxTurns]
  /\ raced \in [Sessions -> BOOLEAN]
  /\ ~ redis => key = [s \in Sessions |-> NoKey] /\ batch = <<>> /\ flight = NoFlight /\ deleting = {}

LEMMA TypesAre == SessionTypeOK <=> Types
  BY DEF SessionTypeOK, Types, Flights, Sweeps

LEMMA TurnNumber ==
  ASSUME Types, NEW s \in Sessions
  PROVE  /\ turn[s] \in 0..MaxTurns
         /\ worker[s].at # "idle" => turn[s] \in Turns /\ worker[s].turns \cup {turn[s]} \subseteq Turns
<1>1. events \in 0..MaxTurns /\ turn[s] \in 0..events /\ worker[s] \in Worker
      /\ (worker[s].at # "idle" => turn[s] > 0) BY DEF Types
<1>2. worker[s].turns \subseteq Turns BY <1>1, WorkerFields
<1>. QED BY <1>1, <1>2, Bounds DEF Turns

-----------------------------------------------------------------------------
(* The types are kept. *)

LEMMA TypesInit == SessionInit => SessionTypeOK
<1> SUFFICES ASSUME SessionInit PROVE Types BY TypesAre
<1>1. events \in 0..MaxTurns /\ turn \in [Sessions -> 0..events] BY Bounds DEF SessionInit
<1>2. row \in [Sessions -> Row] /\ key \in [Sessions -> Key] BY RowsAreRows DEF SessionInit
<1>3. worker \in [Sessions -> Worker] BY IdleIsWorker DEF SessionInit
<1>4. saved \in [Sessions -> SUBSET Turns] BY DEF SessionInit
<1>5. left \in [Sessions -> 0..MaxTurns] BY Bounds DEF SessionInit
<1>9. \A s \in Sessions : worker[s].at = "idle" BY IdleIsWorker DEF SessionInit
<1>6. batch \in Seq(Element) BY DEF SessionInit
<1>7. flight \in Flights /\ flight.at = "idle" BY NoFlightIsFlight DEF SessionInit
<1>8. janitor \in Sweeps /\ janitor.at # "next" BY RestingSweeps DEF SessionInit
<1>. QED BY <1>1, <1>2, <1>3, <1>4, <1>5, <1>6, <1>7, <1>8, <1>9 DEF SessionInit, Types

LEMMA RacesType ==
  ASSUME raced \in [Sessions -> BOOLEAN], NEW S, Races(S)
  PROVE  /\ raced' \in [Sessions -> BOOLEAN]
         /\ \A x \in Sessions : raced'[x] <=> raced[x] \/ x \in S
  BY DEF Races

LEMMA TypesStep == SessionTypeOK /\ [SessionNext]_sessionVars => SessionTypeOK'
<1> SUFFICES ASSUME Types, [SessionNext]_sessionVars PROVE Types'
  BY TypesAre, PTL
<1>1. ASSUME NEW s \in Sessions, Restore(s) PROVE Types'
  <2>1. row[s] \in Row /\ key[s] \in Key BY DEF Types
  <2>2. /\ Begun(key[s].ctx, key[s].turns) \in Worker
        /\ Begun(row[s].ctx, row[s].turns) \in Worker
    BY <2>1, RowFields, BegunIsWorker DEF Key
  <2>3. worker' \in [Sessions -> Worker]
    <3>1. PICK b \in BOOLEAN : worker' = [worker EXCEPT ![s] = Begun((IF b THEN key[s] ELSE row[s]).ctx,
                                                                    (IF b THEN key[s] ELSE row[s]).turns)]
      <4>1. PICK fails \in BOOLEAN :
              worker' = [worker EXCEPT ![s] = Begun((IF key[s].exists /\ ~ fails THEN key[s] ELSE row[s]).ctx,
                                                    (IF key[s].exists /\ ~ fails THEN key[s] ELSE row[s]).turns)]
        BY <1>1 DEF Restore, Begun
      <4>2. CASE key[s].exists /\ ~ fails BY <4>1, <4>2
      <4>3. CASE ~ (key[s].exists /\ ~ fails) BY <4>1, <4>3
      <4>. QED BY <4>2, <4>3
    <3>2. CASE b BY <2>2, <3>1, <3>2 DEF Types
    <3>3. CASE ~ b BY <2>2, <3>1, <3>3 DEF Types
    <3>. QED BY <3>2, <3>3
  <2>4. events' \in 0..MaxTurns /\ turn' \in [Sessions -> 0..events']
    BY <1>1, Bounds DEF Restore, Types
  <2>5. saved' \in [Sessions -> SUBSET Turns] /\ left' \in [Sessions -> 0..MaxTurns]
    BY <1>1, Bounds DEF Restore, Types
  <2>6. raced' \in [Sessions -> BOOLEAN]
    BY <1>1, RacesType DEF Restore, Types
  <2>7. \A x \in Sessions : worker'[x].at # "idle" => turn'[x] > 0
    <3>1. \A x \in Sessions \ {s} : worker'[x] = worker[x] /\ turn'[x] = turn[x]
      BY <1>1 DEF Restore, Types
    <3>2. turn'[s] = turn[s] + 1 /\ turn[s] \in 0..events /\ events \in 0..MaxTurns BY <1>1 DEF Restore, Types
    <3>3. turn'[s] > 0 BY <3>2, Bounds
    <3>. QED BY <3>1, <3>3 DEF Types
  <2>. QED BY <1>1, <2>3, <2>4, <2>5, <2>6, <2>7 DEF Restore, cached, Types
<1>2. ASSUME NEW s \in Sessions, NEW ign \in BOOLEAN, NEW ctx \in {None, turn[s]}, SaveRead(s, ign, ctx) PROVE Types'
  <2> DEFINE current == IF row[s].exists THEN row[s] ELSE NewRow
  <2> DEFINE w == [at |-> "write", ctx |-> ctx, turns |-> worker[s].turns \cup {turn[s]},
                   copy |-> current, ignoreContext |-> ign]
  <2>1. row[s] \in Row /\ current \in Row BY RowsAreRows DEF Types
  <2>2. turn[s] \in Turns /\ ctx \in 0..MaxTurns BY <1>2, Bounds, TurnNumber DEF SaveRead
  <2>3. worker[s].turns \cup {turn[s]} \subseteq Turns BY <2>2, WorkerFields DEF Types
  <2>4. w \in Worker BY <2>1, <2>2, <2>3 DEF Worker
  <2>5. row' = [row EXCEPT ![s] = current] /\ worker' = [worker EXCEPT ![s] = w] /\ turn' = turn /\ events' = events
    BY <1>2 DEF SaveRead, bounds
  <2>6. row' \in [Sessions -> Row] /\ worker' \in [Sessions -> Worker]
    BY <2>1, <2>4, <2>5 DEF Types
  <2>7. saved' \in [Sessions -> SUBSET Turns] /\ left' \in [Sessions -> 0..MaxTurns]
    BY <1>2, Bounds DEF SaveRead, Types
  <2>8. raced' \in [Sessions -> BOOLEAN]
    BY <1>2 DEF SaveRead, Types, JanitorHolds
  <2>9. \A x \in Sessions : worker'[x].at # "idle" => turn'[x] > 0
    BY <2>5, <2>2 DEF Types, Turns
  <2>. QED BY <1>2, <2>5, <2>6, <2>7, <2>8, <2>9 DEF SaveRead, cached, bounds, Types
<1>3. ASSUME NEW s \in Sessions, SaveWrite(s) PROVE Types'
  <2>1. worker[s] \in Worker /\ turn[s] \in Turns BY <1>3, TurnNumber DEF Types, SaveWrite
  <2>2. Saves(worker[s]) \in Row BY <2>1, SavesIsRow, WorkerFields
  <2>3. [worker[s] EXCEPT !.at = "process"] \in Worker /\ worker[s].ctx \in 0..MaxTurns BY <2>1, WorkerFields
  <2>4. worker' \in [Sessions -> Worker] BY <1>3, <2>3, IdleIsWorker DEF SaveWrite, Types
  <2>5. row' \in [Sessions -> Row] BY <1>3, <2>2 DEF SaveWrite, Types
  <2>6. saved' \in [Sessions -> SUBSET Turns] BY <1>3, <2>1 DEF SaveWrite, Types
  <2>7. left' \in [Sessions -> 0..MaxTurns] BY <1>3, <2>3 DEF SaveWrite, Types
  <2>8. raced' \in [Sessions -> BOOLEAN] BY <1>3, RacesType DEF SaveWrite, Types
  <2>9. \A x \in Sessions : worker'[x].at # "idle" => turn'[x] > 0
    BY <1>3, <2>1 DEF SaveWrite, Types, Turns
  <2>. QED BY <1>3, <2>4, <2>5, <2>6, <2>7, <2>8, <2>9 DEF SaveWrite, cached, bounds, Types
<1>4. ASSUME NEW s \in Sessions, NEW ign \in BOOLEAN, NEW ctx \in {None, turn[s], worker[s].ctx},
             PersistToRedis(s, ign, ctx) PROVE Types'
  <2> DEFINE e == [of |-> s, ctx |-> ctx, turns |-> worker[s].turns \cup {turn[s]}, ignoreContext |-> ign]
             k == [exists |-> TRUE, ctx |-> ctx, turns |-> worker[s].turns \cup {turn[s]}]
  <2>1. worker[s] \in Worker /\ turn[s] \in Turns BY <1>4, TurnNumber DEF Types, PersistToRedis
  <2>2. worker[s].turns \cup {turn[s]} \subseteq Turns /\ ctx \in 0..MaxTurns
    BY <1>4, <2>1, WorkerFields, Bounds, TurnNumber DEF PersistToRedis
  <2>3. e \in Element /\ k \in Key BY <2>2 DEF Element, Key
  <2>4. batch' = Append(batch, e) /\ key' = [key EXCEPT ![s] = k] BY <1>4 DEF PersistToRedis
  <2>5. batch' \in Seq(Element) /\ key' \in [Sessions -> Key] BY <2>3, <2>4 DEF Types
  <2>6. worker' \in [Sessions -> Worker]
    <3>1. [worker[s] EXCEPT !.turns = worker[s].turns \cup {turn[s]}] \in Worker
      BY <2>1, <2>2, WorkerFields
    <3>. QED BY <1>4, <3>1, IdleIsWorker DEF PersistToRedis, Types
  <2>7. saved' \in [Sessions -> SUBSET Turns] /\ left' \in [Sessions -> 0..MaxTurns]
    BY <1>4, <2>1, <2>2 DEF PersistToRedis, Types
  <2>9. \A x \in Sessions : worker'[x].at # "idle" => turn'[x] > 0
    BY <1>4, <2>1 DEF PersistToRedis, Types, Turns
  <2>. QED BY <1>4, <2>5, <2>6, <2>7, <2>9 DEF PersistToRedis, bounds, Types
<1>5. ASSUME NEW s \in Sessions, Give(s) PROVE Types'
  BY <1>5, IdleIsWorker DEF Give, Types, cached, bounds, histories
<1>6. ASSUME NEW s \in Sessions, DeleteDialogSession(s) PROVE Types'
  <2>1. row' \in [Sessions -> Row] BY <1>6, RowsAreRows DEF DeleteDialogSession, Types
  <2>2. /\ saved' \in [Sessions -> SUBSET Turns] /\ left' \in [Sessions -> 0..MaxTurns]
    <3>1. CASE redis
      <4>1. saved' = [saved EXCEPT ![s] = {}] /\ left' = [left EXCEPT ![s] = None]
        BY <1>6, <3>1 DEF DeleteDialogSession
      <4>. QED BY <4>1, Bounds DEF Types
    <3>2. CASE ~ redis BY <1>6, <3>2 DEF DeleteDialogSession, Types
    <3>. QED BY <3>1, <3>2
  <2>5. deleting' \cup lost' \subseteq Sessions
    BY <1>6 DEF DeleteDialogSession, Types
  <2>3. raced' \in [Sessions -> BOOLEAN]
    BY <1>6, RacesType DEF DeleteDialogSession, Types
  <2>4. /\ redis' = redis /\ key' = key /\ batch' = batch /\ flight' = flight
        /\ ~ redis => deleting' = deleting
    BY <1>6 DEF DeleteDialogSession
  <2>. QED BY <1>6, <2>1, <2>2, <2>3, <2>4, <2>5 DEF DeleteDialogSession, Types
<1>7. ASSUME NEW s \in Sessions, DeleteKey(s) PROVE Types'
  <2>1. key' \in [Sessions -> Key] BY <1>7, RowsAreRows DEF DeleteKey, Types
  <2>. QED BY <1>7, <2>1 DEF DeleteKey, Types, bounds, histories
<1>8. ASSUME NEW s \in Sessions, Expire(s) PROVE Types'
  <2>1. row' \in [Sessions -> Row]
    <3>1. row[s] \in Row BY DEF Types
    <3>. QED BY <1>8, <3>1, RowFields DEF Expire, Types
  <2>2. key' \in [Sessions -> Key] 
    BY <1>8, RowsAreRows DEF Expire, Types
  <2>4. raced' \in [Sessions -> BOOLEAN]
    BY <1>8, RacesType DEF Expire, Types
  <2>3. ~ redis => key' = key BY <1>8, RowsAreRows DEF Expire, Types
  <2>. QED BY <1>8, <2>1, <2>2, <2>3, <2>4 DEF Expire, Types
<1>9. CASE Sweep
  <2>1. row' \in [Sessions -> Row] BY <1>9, RowsAreRows DEF Sweep, Types
  <2>2. janitor' \in Sweeps /\ janitor'.at = "list" BY <1>9, RestingSweeps DEF Sweep, Sweeps
  <2>. QED BY <1>9, <2>1, <2>2 DEF Sweep, Types, cached, bounds, histories
<1>10. CASE List
  <2>1. janitor' \in Sweeps /\ (janitor'.at = "next" => janitor'.todo # {})
    BY <1>10, RestingSweeps DEF List, Types, Sweeps
  <2>. QED BY <1>10, <2>1 DEF List, Types, cached, bounds, histories
<1>11. ASSUME NEW s \in Sessions, Timeout(s) PROVE Types'
  <2>1. janitor' \in Sweeps /\ janitor'.at # "next"
    BY <1>11 DEF Timeout, Types, Sweeps
  <2>. QED BY <1>11, <2>1 DEF Timeout, Types, cached, bounds, histories
<1>12. ASSUME NEW s \in Sessions, Reread(s) PROVE Types'
  <2>1. janitor' \in Sweeps /\ janitor'.at # "next"
    BY <1>12, RestingSweeps DEF Reread, Types, Sweeps
  <2>. QED BY <1>12, <2>1 DEF Reread, Types, cached, bounds, histories
<1>13. ASSUME NEW s \in Sessions, Reset(s) PROVE Types'
  <2>1. janitor' \in Sweeps /\ (janitor'.at = "next" => janitor'.todo # {})
    BY <1>13, RestingSweeps, RowsAreRows DEF Reset, Types, Sweeps
  <2>2. janitor.copy \in Row /\ janitor.reset \in BOOLEAN BY DEF Types, Sweeps
  <2>3. row' \in [Sessions -> Row]
    BY <1>13, <2>2, RowFields DEF Reset, Types
  <2>. QED BY <1>13, <2>1, <2>3 DEF Reset, Types, cached, bounds, histories
<1>14. CASE RunTask
  <2> DEFINE n == IF Len(batch) >= BatchSize THEN BatchSize ELSE Len(batch)
             f == [NoFlight EXCEPT !.at = "read", !.todo = SubSeq(batch, 1, n)]
  <2>1. n \in 0..Len(batch) /\ batch \in Seq(Element) BY Bounds DEF Types
  <2> HIDE DEF n
  <2>2. SubSeq(batch, 1, n) \in Seq(Element) /\ SubSeq(batch, n + 1, Len(batch)) \in Seq(Element)
    BY <2>1
  <2>3. f \in Flights /\ f.at = "read" BY <2>2, NoFlightIsFlight DEF Flights
  <2>4. flight' = f /\ batch' = SubSeq(batch, n + 1, Len(batch)) BY <1>14 DEF RunTask, Taken, n
  <2>5. redis BY <1>14 DEF RunTask, Types
  <2>. QED BY <1>14, <2>2, <2>3, <2>4, <2>5 DEF RunTask, Types, bounds, histories
<1>15. CASE FlushRead
  <2> DEFINE s == Head(flight.todo).of
             current == IF row[s].exists THEN row[s] ELSE NewRow
  <2>1. flight.todo \in Seq(Element) /\ flight.todo # <<>> BY <1>15, FlightFields DEF FlushRead, Types
  <2>2. Head(flight.todo) \in Element BY <2>1
  <2>3. s \in Sessions BY <2>2 DEF Element
  <2>4. current \in Row BY <2>3, RowsAreRows DEF Types
  <2>5. row' = [row EXCEPT ![s] = current] /\ flight' = [flight EXCEPT !.at = "update", !.copy = current]
    BY <1>15 DEF FlushRead
  <2>8. flight'.todo # <<>> BY <2>1, <2>5 DEF Types, Flights
  <2> HIDE DEF s, current
  <2>6. row' \in [Sessions -> Row] /\ flight' \in Flights BY <2>3, <2>4, <2>5 DEF Types, Flights
  <2>7. redis BY <1>15, NoFlightIsFlight DEF FlushRead, Types
  <2>. QED BY <1>15, <2>6, <2>7, <2>8 DEF FlushRead, Types, bounds, histories
<1>16. CASE FlushUpdate
  <2> DEFINE e == Head(flight.todo)
             w == [ctx |-> e.ctx, turns |-> e.turns, copy |-> flight.copy, ignoreContext |-> e.ignoreContext]
             f == [flight EXCEPT !.at = "read", !.todo = Tail(@), !.copy = NoRow,
                     !.writes = IF row[e.of].exists THEN [@ EXCEPT ![e.of] = Saves(w)] ELSE @]
  <2>1. flight.todo \in Seq(Element) /\ flight.todo # <<>> BY <1>16, FlightFields DEF FlushUpdate, Types
  <2>2. e \in Element /\ Tail(flight.todo) \in Seq(Element) BY <2>1
  <2>3. /\ w.ctx \in 0..MaxTurns /\ w.turns \subseteq Turns /\ w.copy \in Row /\ e.of \in Sessions
    BY <2>2, FlightFields DEF Element, Types
  <2>4. Saves(w) \in Row BY <2>3, SavesIsRow
  <2>5. flight' = f BY <1>16 DEF FlushUpdate
  <2> HIDE DEF e, w
  <2>6. flight' \in Flights /\ flight'.at = "read" BY <2>2, <2>3, <2>4, <2>5, RowsAreRows DEF Types, Flights
  <2>7. redis BY <1>16, NoFlightIsFlight DEF FlushUpdate, Types
  <2>8. raced' \in [Sessions -> BOOLEAN] BY <1>16, RacesType DEF FlushUpdate, Types
  <2>. QED BY <1>16, <2>6, <2>7, <2>8 DEF FlushUpdate, Types, bounds
<1>17. CASE Commit
  <2>1. row' \in [Sessions -> Row] BY <1>17, FlightFields DEF Commit, Types
  <2>2. raced' \in [Sessions -> BOOLEAN] BY <1>17, RacesType DEF Commit, Types
  <2>. QED BY <1>17, <2>1, <2>2, NoFlightIsFlight DEF Commit, Types, bounds
<1>18. CASE Abort
  BY <1>18, NoFlightIsFlight DEF Abort, Types
<1>19. CASE Crash
  <2>1. worker' \in [Sessions -> Worker] /\ \A x \in Sessions : worker'[x].at = "idle"
    BY <1>19, IdleIsWorker DEF Crash
  <2>2. raced' \in [Sessions -> BOOLEAN] BY <1>19, RacesType DEF Crash, Types
  <2>3. lost' \cup deleting' \subseteq Sessions BY <1>19 DEF Crash, Types
  <2>. QED BY <1>19, <2>1, <2>2, <2>3, NoFlightIsFlight, RestingSweeps DEF Crash, Types
<1>20. CASE UNCHANGED sessionVars
  BY <1>20 DEF sessionVars, cached, bounds, histories, Types
<1>. QED BY <1>1, <1>2, <1>3, <1>4, <1>5, <1>6, <1>7, <1>8, <1>9, <1>10, <1>11, <1>12, <1>13, <1>14, <1>15,
            <1>16, <1>17, <1>18, <1>19, <1>20 DEF SessionNext, Event, JanitorStep, FlushStep

-----------------------------------------------------------------------------
(* The newest element of a session: in a sequence that grows, that is cut  *)
(* in two, and that loses its head.                                        *)

LEMMA NoneInEmpty ==
  ASSUME NEW s, NEW m
  PROVE  /\ ~ Holds(<<>>, s, m)
         /\ \A S : NewestHas(<<>>, s, S)
         /\ \A c : NewestLeaves(<<>>, s, c)
  BY DEF Holds, NewestHas, NewestLeaves

LEMMA AppendHolds ==
  ASSUME NEW q \in Seq(Element), NEW e \in Element, NEW s, NEW m
  PROVE  Holds(Append(q, e), s, m) <=> Holds(q, s, m) \/ Of(e, s, m)
<1> DEFINE r == Append(q, e)
<1>1. /\ DOMAIN q = 1..Len(q) /\ DOMAIN r = 1..(Len(q) + 1) /\ Len(q) \in Nat
      /\ r[Len(q) + 1] = e /\ \A k \in 1..Len(q) : r[k] = q[k]
  OBVIOUS
<1> HIDE DEF r
<1>2. ASSUME NEW k \in DOMAIN r, Of(r[k], s, m) PROVE Holds(q, s, m) \/ Of(e, s, m)
  <2>1. CASE k = Len(q) + 1 BY <1>1, <1>2, <2>1
  <2>2. CASE k \in 1..Len(q) BY <1>1, <1>2, <2>2 DEF Holds
  <2>. QED BY <1>1, <2>1, <2>2
<1>3. Holds(q, s, m) => Holds(r, s, m) BY <1>1 DEF Holds
<1>4. Of(e, s, m) => Holds(r, s, m) BY <1>1 DEF Holds
<1>. QED BY <1>2, <1>3, <1>4 DEF Holds, r

LEMMA AppendNewest ==
  ASSUME NEW q \in Seq(Element), NEW e \in Element, NEW s, NEW m, NEW k, Newest(Append(q, e), s, m, k)
  PROVE  IF Of(e, s, m) THEN Append(q, e)[k] = e
         ELSE Newest(q, s, m, k) /\ Append(q, e)[k] = q[k]
<1> DEFINE r == Append(q, e)
<1>1. /\ DOMAIN q = 1..Len(q) /\ DOMAIN r = 1..(Len(q) + 1) /\ Len(q) \in Nat
      /\ r[Len(q) + 1] = e /\ \A j \in 1..Len(q) : r[j] = q[j]
  OBVIOUS
<1>2. Newest(r, s, m, k) OBVIOUS
<1> HIDE DEF r
<1>3. k \in 1..(Len(q) + 1) /\ Of(r[k], s, m) /\ \A j \in 1..(Len(q) + 1) : j > k => ~ Of(r[j], s, m)
  BY <1>1, <1>2 DEF Newest
<1>4. CASE Of(e, s, m)
  <2>1. k = Len(q) + 1 BY <1>1, <1>3, <1>4
  <2>. QED BY <1>1, <1>4, <2>1 DEF r
<1>5. CASE ~ Of(e, s, m)
  <2>1. k \in 1..Len(q) BY <1>1, <1>3, <1>5
  <2>2. Newest(q, s, m, k) BY <1>1, <1>3, <2>1 DEF Newest
  <2>. QED BY <1>1, <1>5, <2>1, <2>2 DEF r
<1>. QED BY <1>4, <1>5

LEMMA AppendHas ==
  ASSUME NEW q \in Seq(Element), NEW e \in Element, NEW s
  PROVE  /\ \A S : (IF Of(e, s, FALSE) THEN S \subseteq e.turns ELSE NewestHas(q, s, S))
                     => NewestHas(Append(q, e), s, S)
         /\ \A c : (IF Of(e, s, TRUE) THEN e.ctx = c ELSE NewestLeaves(q, s, c))
                     => NewestLeaves(Append(q, e), s, c)
<1> DEFINE r == Append(q, e)
<1>1. \A m, k : Newest(r, s, m, k) => IF Of(e, s, m) THEN r[k] = e ELSE Newest(q, s, m, k) /\ r[k] = q[k]
  BY AppendNewest
<1>2. \A m, k : Newest(q, s, m, k) => k \in DOMAIN q BY DEF Newest
<1> HIDE DEF r
<1>3. ASSUME NEW S, IF Of(e, s, FALSE) THEN S \subseteq e.turns ELSE NewestHas(q, s, S)
      PROVE  NewestHas(r, s, S)
  <2>1. CASE Of(e, s, FALSE) BY <1>1, <1>3, <2>1 DEF NewestHas
  <2>2. CASE ~ Of(e, s, FALSE) BY <1>1, <1>2, <1>3, <2>2 DEF NewestHas
  <2>. QED BY <2>1, <2>2
<1>4. ASSUME NEW c, IF Of(e, s, TRUE) THEN e.ctx = c ELSE NewestLeaves(q, s, c)
      PROVE  NewestLeaves(r, s, c)
  <2>1. CASE Of(e, s, TRUE) BY <1>1, <1>4, <2>1 DEF NewestLeaves
  <2>2. CASE ~ Of(e, s, TRUE) BY <1>1, <1>2, <1>4, <2>2 DEF NewestLeaves
  <2>. QED BY <2>1, <2>2
<1>. QED BY <1>3, <1>4 DEF r

LEMMA CutHolds ==
  ASSUME NEW q \in Seq(Element), NEW n \in 0..Len(q), NEW s, NEW m
  PROVE  Holds(q, s, m) <=> Holds(SubSeq(q, 1, n), s, m) \/ Holds(SubSeq(q, n + 1, Len(q)), s, m)
<1> DEFINE a == SubSeq(q, 1, n)
           b == SubSeq(q, n + 1, Len(q))
<1>1. /\ DOMAIN q = 1..Len(q) /\ Len(q) \in Nat
      /\ DOMAIN a = 1..n /\ DOMAIN b = 1..(Len(q) - n)
      /\ \A k \in 1..n : a[k] = q[k]
      /\ \A k \in 1..(Len(q) - n) : b[k] = q[k + n]
  OBVIOUS
<1> HIDE DEF a, b
<1>2. Holds(a, s, m) => Holds(q, s, m) BY <1>1 DEF Holds
<1>3. ASSUME NEW k \in 1..(Len(q) - n), Of(b[k], s, m) PROVE Holds(q, s, m)
  <2>1. k + n \in DOMAIN q /\ b[k] = q[k + n] BY <1>1
  <2>. QED BY <1>3, <2>1 DEF Holds
<1>4. ASSUME NEW k \in 1..Len(q), Of(q[k], s, m) PROVE Holds(a, s, m) \/ Holds(b, s, m)
  <2>1. CASE k <= n BY <1>1, <1>4, <2>1 DEF Holds
  <2>2. CASE k > n
    <3>1. k - n \in DOMAIN b /\ b[k - n] = q[k] BY <1>1, <2>2
    <3>. QED BY <1>4, <3>1 DEF Holds
  <2>. QED BY <2>1, <2>2
<1>5. Holds(b, s, m) => Holds(q, s, m) BY <1>1, <1>3 DEF Holds
<1>6. Holds(q, s, m) => Holds(a, s, m) \/ Holds(b, s, m)
  <2>1. Holds(q, s, m) => \E k \in 1..Len(q) : Of(q[k], s, m) BY <1>1 DEF Holds
  <2>. QED BY <2>1, <1>4
<1>. QED BY <1>2, <1>5, <1>6 DEF a, b

LEMMA CutNewest ==
  ASSUME NEW q \in Seq(Element), NEW n \in 0..Len(q), NEW s, NEW m, NEW k
  PROVE  /\ Newest(SubSeq(q, n + 1, Len(q)), s, m, k) =>
              Newest(q, s, m, k + n) /\ k + n \in DOMAIN q /\ SubSeq(q, n + 1, Len(q))[k] = q[k + n]
         /\ Newest(SubSeq(q, 1, n), s, m, k) /\ ~ Holds(SubSeq(q, n + 1, Len(q)), s, m) =>
              Newest(q, s, m, k) /\ k \in DOMAIN q /\ SubSeq(q, 1, n)[k] = q[k]
<1> DEFINE a == SubSeq(q, 1, n)
           b == SubSeq(q, n + 1, Len(q))
<1>1. /\ DOMAIN q = 1..Len(q) /\ Len(q) \in Nat
      /\ DOMAIN a = 1..n /\ DOMAIN b = 1..(Len(q) - n)
      /\ \A j \in 1..n : a[j] = q[j]
      /\ \A j \in 1..(Len(q) - n) : b[j] = q[j + n]
  OBVIOUS
<1> HIDE DEF a, b
<1>2. ASSUME Newest(b, s, m, k) PROVE Newest(q, s, m, k + n) /\ k + n \in DOMAIN q /\ b[k] = q[k + n]
  <2>1. k \in 1..(Len(q) - n) /\ Of(b[k], s, m) /\ \A j \in 1..(Len(q) - n) : j > k => ~ Of(b[j], s, m)
    BY <1>1, <1>2 DEF Newest
  <2>2. ASSUME NEW j \in 1..Len(q), j > k + n PROVE ~ Of(q[j], s, m)
    <3>1. j - n \in 1..(Len(q) - n) /\ j - n > k /\ b[j - n] = q[j] BY <1>1, <2>1, <2>2
    <3>. QED BY <2>1, <3>1
  <2>. QED BY <1>1, <2>1, <2>2 DEF Newest
<1>3. ASSUME Newest(a, s, m, k), ~ Holds(b, s, m) PROVE Newest(q, s, m, k) /\ k \in DOMAIN q /\ a[k] = q[k]
  <2>1. k \in 1..n /\ Of(a[k], s, m) /\ \A j \in 1..n : j > k => ~ Of(a[j], s, m)
    BY <1>1, <1>3 DEF Newest
  <2>2. ASSUME NEW j \in 1..Len(q), j > k PROVE ~ Of(q[j], s, m)
    <3>1. CASE j <= n BY <1>1, <2>1, <2>2, <3>1
    <3>2. CASE j > n
      <4>1. j - n \in DOMAIN b /\ b[j - n] = q[j] BY <1>1, <3>2
      <4>. QED BY <1>3, <4>1 DEF Holds
    <3>. QED BY <3>1, <3>2
  <2>. QED BY <1>1, <2>1, <2>2 DEF Newest
<1>. QED BY <1>2, <1>3 DEF a, b

LEMMA CutHas ==
  ASSUME NEW q \in Seq(Element), NEW n \in 0..Len(q), NEW s
  PROVE  /\ \A S : NewestHas(q, s, S) =>
              /\ NewestHas(SubSeq(q, n + 1, Len(q)), s, S)
              /\ ~ Holds(SubSeq(q, n + 1, Len(q)), s, FALSE) => NewestHas(SubSeq(q, 1, n), s, S)
         /\ \A c : NewestLeaves(q, s, c) =>
              /\ NewestLeaves(SubSeq(q, n + 1, Len(q)), s, c)
              /\ ~ Holds(SubSeq(q, n + 1, Len(q)), s, TRUE) => NewestLeaves(SubSeq(q, 1, n), s, c)
<1> DEFINE a == SubSeq(q, 1, n)
           b == SubSeq(q, n + 1, Len(q))
<1>1. \A m, k : /\ Newest(b, s, m, k) => Newest(q, s, m, k + n) /\ k + n \in DOMAIN q /\ b[k] = q[k + n]
                /\ Newest(a, s, m, k) /\ ~ Holds(b, s, m) => Newest(q, s, m, k) /\ k \in DOMAIN q /\ a[k] = q[k]
  BY CutNewest
<1> HIDE DEF a, b
<1>2. ASSUME NEW S, NewestHas(q, s, S)
      PROVE  NewestHas(b, s, S) /\ (~ Holds(b, s, FALSE) => NewestHas(a, s, S))
  BY <1>1, <1>2 DEF NewestHas
<1>3. ASSUME NEW c, NewestLeaves(q, s, c)
      PROVE  NewestLeaves(b, s, c) /\ (~ Holds(b, s, TRUE) => NewestLeaves(a, s, c))
  <2>1. NewestLeaves(b, s, c)
    <3>1. ASSUME NEW k \in DOMAIN b, Newest(b, s, TRUE, k) PROVE b[k].ctx = c
      <4>1. Newest(q, s, TRUE, k + n) /\ k + n \in DOMAIN q /\ b[k] = q[k + n] BY <1>1, <3>1
      <4>. QED BY <1>3, <4>1 DEF NewestLeaves
    <3>. QED BY <3>1 DEF NewestLeaves
  <2>2. ~ Holds(b, s, TRUE) => NewestLeaves(a, s, c) BY <1>1, <1>3 DEF NewestLeaves
  <2>. QED BY <2>1, <2>2
<1>. QED BY <1>2, <1>3 DEF a, b

LEMMA TailHolds ==
  ASSUME NEW q \in Seq(Element), q # <<>>, NEW s, NEW m
  PROVE  /\ Holds(q, s, m) <=> Of(Head(q), s, m) \/ Holds(Tail(q), s, m)
         /\ \A k : Newest(Tail(q), s, m, k) =>
                Newest(q, s, m, k + 1) /\ k + 1 \in DOMAIN q /\ Tail(q)[k] = q[k + 1]
         /\ ~ Holds(Tail(q), s, m) /\ Of(Head(q), s, m) => Newest(q, s, m, 1) /\ 1 \in DOMAIN q
<1> DEFINE b == Tail(q)
<1>1. /\ DOMAIN q = 1..Len(q) /\ Len(q) \in Nat /\ Len(q) > 0 /\ Head(q) = q[1]
      /\ DOMAIN b = 1..(Len(q) - 1)
      /\ \A j \in 1..(Len(q) - 1) : b[j] = q[j + 1]
  OBVIOUS
<1> HIDE DEF b
<1>2. ASSUME NEW j \in 1..Len(q), Of(q[j], s, m) PROVE Of(q[1], s, m) \/ Holds(b, s, m)
  <2>1. CASE j = 1 BY <1>2, <2>1
  <2>2. CASE j > 1
    <3>1. j - 1 \in DOMAIN b /\ b[j - 1] = q[j] BY <1>1, <2>2
    <3>. QED BY <1>2, <3>1 DEF Holds
  <2>. QED BY <2>1, <2>2
<1>3. ASSUME NEW j \in 1..(Len(q) - 1), Of(b[j], s, m) PROVE Holds(q, s, m)
  <2>1. j + 1 \in DOMAIN q /\ b[j] = q[j + 1] BY <1>1
  <2>. QED BY <1>3, <2>1 DEF Holds
<1>4. Holds(q, s, m) => Of(q[1], s, m) \/ Holds(b, s, m)
  <2>1. Holds(q, s, m) => \E j \in 1..Len(q) : Of(q[j], s, m) BY <1>1 DEF Holds
  <2>. QED BY <2>1, <1>2
<1>5. Holds(b, s, m) => Holds(q, s, m)
  <2>1. Holds(b, s, m) => \E j \in 1..(Len(q) - 1) : Of(b[j], s, m) BY <1>1 DEF Holds
  <2>. QED BY <2>1, <1>3
<1>6. Of(q[1], s, m) => Holds(q, s, m) BY <1>1 DEF Holds
<1>7. ASSUME NEW k, Newest(b, s, m, k)
      PROVE  Newest(q, s, m, k + 1) /\ k + 1 \in DOMAIN q /\ b[k] = q[k + 1]
  <2>1. k \in 1..(Len(q) - 1) /\ Of(b[k], s, m) /\ \A j \in 1..(Len(q) - 1) : j > k => ~ Of(b[j], s, m)
    BY <1>1, <1>7 DEF Newest
  <2>2. ASSUME NEW j \in 1..Len(q), j > k + 1 PROVE ~ Of(q[j], s, m)
    <3>1. j - 1 \in 1..(Len(q) - 1) /\ j - 1 > k /\ b[j - 1] = q[j] BY <1>1, <2>1, <2>2
    <3>. QED BY <2>1, <3>1
  <2>. QED BY <1>1, <2>1, <2>2 DEF Newest
<1>8. ASSUME ~ Holds(b, s, m), Of(q[1], s, m) PROVE Newest(q, s, m, 1) /\ 1 \in DOMAIN q
  <2>1. ASSUME NEW j \in 1..Len(q), j > 1 PROVE ~ Of(q[j], s, m)
    <3>1. j - 1 \in DOMAIN b /\ b[j - 1] = q[j] BY <1>1, <2>1
    <3>. QED BY <1>8, <3>1 DEF Holds
  <2>. QED BY <1>1, <1>8, <2>1 DEF Newest
<1>. QED BY <1>1, <1>4, <1>5, <1>6, <1>7, <1>8 DEF b

LEMMA TailHas ==
  ASSUME NEW q \in Seq(Element), q # <<>>, NEW s
  PROVE  /\ \A S : NewestHas(q, s, S) =>
              /\ NewestHas(Tail(q), s, S)
              /\ ~ Holds(Tail(q), s, FALSE) /\ Of(Head(q), s, FALSE) => S \subseteq Head(q).turns
         /\ \A c : NewestLeaves(q, s, c) =>
              /\ NewestLeaves(Tail(q), s, c)
              /\ ~ Holds(Tail(q), s, TRUE) /\ Of(Head(q), s, TRUE) => Head(q).ctx = c
<1> DEFINE b == Tail(q)
<1>1. Head(q) = q[1] OBVIOUS
<1>2. \A m, k : Newest(b, s, m, k) => Newest(q, s, m, k + 1) /\ k + 1 \in DOMAIN q /\ b[k] = q[k + 1]
  BY TailHolds
<1>3. \A m : ~ Holds(b, s, m) /\ Of(q[1], s, m) => Newest(q, s, m, 1) /\ 1 \in DOMAIN q
  BY <1>1, TailHolds
<1> HIDE DEF b
<1>4. ASSUME NEW S, NewestHas(q, s, S)
      PROVE  NewestHas(b, s, S) /\ (~ Holds(b, s, FALSE) /\ Of(q[1], s, FALSE) => S \subseteq q[1].turns)
  BY <1>2, <1>3, <1>4 DEF NewestHas
<1>5. ASSUME NEW c, NewestLeaves(q, s, c)
      PROVE  NewestLeaves(b, s, c) /\ (~ Holds(b, s, TRUE) /\ Of(q[1], s, TRUE) => q[1].ctx = c)
  BY <1>2, <1>3, <1>5 DEF NewestLeaves
<1>. QED BY <1>1, <1>4, <1>5 DEF b

LEMMA UnwrittenIs ==
  ASSUME NEW s
  PROVE  /\ Unwritten(s) <=> Locked(s) \/ Holds(batch, s, FALSE) \/ Holds(flight.todo, s, FALSE)
         /\ InFlight(s) <=> Locked(s) \/ Holds(flight.todo, s, FALSE)
  BY DEF Unwritten, InFlight, Holds, Of, Range

LEMMA MovesAreElements ==
  ASSUME NEW q, NEW s, Holds(q, s, TRUE)
  PROVE  Holds(q, s, FALSE)
  BY DEF Holds, Of

-----------------------------------------------------------------------------
(* What the steps of an event do. *)

\* Nothing that belongs to x changes.
Untouched(x) ==
  /\ row'[x] = row[x] /\ worker'[x] = worker[x] /\ turn'[x] = turn[x] /\ key'[x] = key[x]
  /\ saved'[x] = saved[x] /\ left'[x] = left[x] /\ raced'[x] = raced[x]
  /\ (x \in deleting' <=> x \in deleting) /\ (x \in lost' <=> x \in lost)

LEMMA RestoreDoes ==
  ASSUME Types, NEW s \in Sessions, Restore(s)
  PROVE  /\ UNCHANGED <<row, janitor, redis, key, batch, flight, deleting, lost>>
         /\ \A x \in Sessions \ {s} : Untouched(x)
         /\ worker'[s].at = "process"
         /\ raced[s] \/ s \in deleting => raced'[s]
         /\ \/ /\ key[s].exists
               /\ saved'[s] = saved[s] /\ left'[s] = left[s]
               /\ worker'[s].ctx = key[s].ctx /\ worker'[s].turns = key[s].turns
            \/ /\ key[s].exists
               /\ saved'[s] = saved[s] /\ left'[s] = left[s]
               /\ worker'[s].ctx = row[s].ctx /\ worker'[s].turns = row[s].turns
               /\ raced'[s] \/ (~ Unwritten(s) /\ s \notin lost /\ row[s].exists)
            \/ /\ ~ key[s].exists
               /\ worker'[s].ctx = row[s].ctx /\ worker'[s].turns = row[s].turns
               /\ IF redis /\ ~ row[s].exists THEN saved'[s] = {} /\ left'[s] = None
                  ELSE saved'[s] = saved[s] /\ left'[s] = left[s]
<1> USE DEF Types
<1>0. row[s] \in Row /\ key[s] \in Key OBVIOUS
<1>1. PICK fails \in BOOLEAN :
        /\ fails => key[s].exists
        /\ worker' = [worker EXCEPT ![s] = Begun((IF key[s].exists /\ ~ fails THEN key[s] ELSE row[s]).ctx,
                                                 (IF key[s].exists /\ ~ fails THEN key[s] ELSE row[s]).turns)]
        /\ saved' = IF redis /\ ~ key[s].exists /\ ~ row[s].exists THEN [saved EXCEPT ![s] = {}] ELSE saved
        /\ left' = IF redis /\ ~ key[s].exists /\ ~ row[s].exists THEN [left EXCEPT ![s] = None] ELSE left
        /\ Races({x \in {s} : x \in deleting \/ (fails /\ (Unwritten(x) \/ x \in lost \/ ~ row[x].exists))})
  BY DEF Restore, Begun
<1>2. /\ UNCHANGED <<row, janitor, redis, key, batch, flight, deleting, lost>>
      /\ turn' = [turn EXCEPT ![s] = @ + 1]
  BY DEF Restore, cached
<1>3. \A x \in Sessions : raced'[x] <=> raced[x] \/
        (x = s /\ (x \in deleting \/ (fails /\ (Unwritten(x) \/ x \in lost \/ ~ row[x].exists))))
  BY <1>1, RacesType
<1>3a. \A x \in Sessions : raced[x] \in BOOLEAN /\ raced'[x] \in BOOLEAN
  BY <1>1, RacesType
<1>4. ASSUME NEW x \in Sessions \ {s} PROVE Untouched(x)
  <2>1. raced'[x] = raced[x] BY <1>3, <1>3a
  <2>. QED BY <1>1, <1>2, <2>1 DEF Untouched
<1>5. (IF key[s].exists /\ ~ fails THEN key[s] ELSE row[s]).ctx \in 0..MaxTurns
      /\ (IF key[s].exists /\ ~ fails THEN key[s] ELSE row[s]).turns \in SUBSET Turns
  BY <1>0, RowFields DEF Key
<1>6. /\ worker'[s].at = "process"
      /\ worker'[s].ctx = (IF key[s].exists /\ ~ fails THEN key[s] ELSE row[s]).ctx
      /\ worker'[s].turns = (IF key[s].exists /\ ~ fails THEN key[s] ELSE row[s]).turns
  BY <1>1, <1>5, BegunIsWorker
<1>7. IF redis /\ ~ key[s].exists /\ ~ row[s].exists THEN saved'[s] = {} /\ left'[s] = None
      ELSE saved'[s] = saved[s] /\ left'[s] = left[s]
  BY <1>1
<1>8. fails => key[s].exists BY <1>1
<1>9. key[s].exists \in BOOLEAN BY <1>0 DEF Key
<1> HIDE DEF Types
<1>10. CASE key[s].exists /\ ~ fails BY <1>2, <1>3, <1>4, <1>6, <1>7, <1>10
<1>11. CASE fails BY <1>2, <1>3, <1>4, <1>6, <1>7, <1>8, <1>11
<1>12. CASE ~ key[s].exists BY <1>2, <1>3, <1>4, <1>6, <1>7, <1>12
<1>. QED BY <1>10, <1>11, <1>12

LEMMA SaveReadDoes ==
  ASSUME Types, NEW s \in Sessions, NEW ign \in BOOLEAN, NEW ctx \in {None, turn[s]}, SaveRead(s, ign, ctx)
  PROVE  /\ UNCHANGED <<turn, janitor, redis, key, batch, flight, deleting, lost>>
         /\ \A x \in Sessions \ {s} : Untouched(x)
         /\ ~ redis /\ worker[s].at = "process" /\ worker'[s].at = "write"
         /\ worker'[s].turns = worker[s].turns \cup {turn[s]} /\ worker'[s].copy = row'[s]
         /\ IF row[s].exists THEN row'[s] = row[s] /\ saved'[s] = saved[s] /\ left'[s] = left[s] /\ raced'[s] = raced[s]
            ELSE row'[s] = NewRow /\ saved'[s] = {} /\ left'[s] = None /\ (raced'[s] <=> JanitorHolds(s))
<1> USE DEF Types, SaveRead
<1>1. UNCHANGED <<turn, janitor, redis, key, batch, flight, deleting, lost>> BY DEF cached
<1>2. ~ redis /\ worker[s].at = "process" OBVIOUS
<1>3. worker'[s].at = "write" /\ worker'[s].turns = worker[s].turns \cup {turn[s]} /\ worker'[s].copy = row'[s]
  OBVIOUS
<1>4. ASSUME NEW x \in Sessions \ {s} PROVE Untouched(x)
  <2>1. row'[x] = row[x] /\ worker'[x] = worker[x] /\ saved'[x] = saved[x] /\ left'[x] = left[x] OBVIOUS
  <2>2. raced'[x] = raced[x] OBVIOUS
  <2>. QED BY <1>1, <2>1, <2>2 DEF Untouched
<1>5. CASE row[s].exists BY <1>1, <1>2, <1>3, <1>4, <1>5
<1>6. CASE ~ row[s].exists
  <2>1. row'[s] = NewRow /\ saved'[s] = {} /\ left'[s] = None /\ (raced'[s] <=> JanitorHolds(s)) BY <1>6
  <2>. QED BY <1>1, <1>2, <1>3, <1>4, <1>6, <2>1
<1>. QED BY <1>5, <1>6

LEMMA SaveWriteDoes ==
  ASSUME Types, NEW s \in Sessions, SaveWrite(s)
  PROVE  /\ UNCHANGED <<turn, janitor, redis, key, batch, flight, deleting, lost>>
         /\ \A x \in Sessions \ {s} : Untouched(x)
         /\ worker[s].at = "write" /\ worker'[s].at \in {"idle", "process"}
         /\ worker'[s].at = "process" => worker'[s].turns = worker[s].turns
         /\ raced[s] => raced'[s]
         /\ IF row[s].exists
              THEN /\ row'[s] \in Row /\ row'[s].exists /\ row'[s].turns = worker[s].turns
                   /\ row'[s].ctx = NewContext(worker[s])
                   /\ saved'[s] = saved[s] \cup {turn[s]}
                   /\ left'[s] = IF worker[s].ignoreContext THEN left[s] ELSE worker[s].ctx
                   /\ JanitorHolds(s) => raced'[s]
              ELSE row'[s] = row[s] /\ saved'[s] = saved[s] /\ left'[s] = left[s]
<1> USE DEF Types
<1>1. UNCHANGED <<turn, janitor, redis, key, batch, flight, deleting, lost>> BY DEF cached, SaveWrite
<1>2. worker[s] \in Worker /\ worker[s].at = "write" BY DEF SaveWrite
<1>3. worker' = [worker EXCEPT ![s] = Idle] \/ worker' = [worker EXCEPT ![s] = [worker[s] EXCEPT !.at = "process"]]
  BY DEF SaveWrite
<1>4. worker'[s].at \in {"idle", "process"} /\ (worker'[s].at = "process" => worker'[s].turns = worker[s].turns)
  BY <1>2, <1>3, IdleIsWorker DEF Worker
<1>5. Saves(worker[s]) \in Row /\ Saves(worker[s]).exists /\ Saves(worker[s]).turns = worker[s].turns
      /\ Saves(worker[s]).ctx = NewContext(worker[s])
  BY <1>2, SavesIsRow, WorkerFields
<1>6. CASE row[s].exists
  <2>1. /\ row' = [row EXCEPT ![s] = Saves(worker[s])] /\ saved' = [saved EXCEPT ![s] = @ \cup {turn[s]}]
        /\ left' = IF worker[s].ignoreContext THEN left ELSE [left EXCEPT ![s] = worker[s].ctx]
        /\ Races({x \in {s} : JanitorHolds(x)})
    BY <1>6 DEF SaveWrite
  <2>2. /\ \A x \in Sessions : raced'[x] <=> raced[x] \/ (x = s /\ JanitorHolds(x))
        /\ \A x \in Sessions : raced[x] \in BOOLEAN /\ raced'[x] \in BOOLEAN
    BY <2>1, RacesType
  <2>3. ASSUME NEW x \in Sessions \ {s} PROVE Untouched(x)
    <3>1. raced'[x] = raced[x] BY <2>2
    <3>2. worker'[x] = worker[x] BY <1>3
    <3>. QED BY <1>1, <2>1, <3>1, <3>2 DEF Untouched
  <2>4. /\ row'[s] \in Row /\ row'[s].exists /\ row'[s].turns = worker[s].turns
        /\ row'[s].ctx = NewContext(worker[s])
    BY <1>5, <2>1
  <2>5. /\ saved'[s] = saved[s] \cup {turn[s]}
        /\ left'[s] = IF worker[s].ignoreContext THEN left[s] ELSE worker[s].ctx
        /\ JanitorHolds(s) \/ raced[s] => raced'[s]
    BY <2>1, <2>2
  <2>. QED BY <1>1, <1>2, <1>4, <1>6, <2>3, <2>4, <2>5
<1>7. CASE ~ row[s].exists
  <2>1. UNCHANGED <<row, saved, left, raced>> BY <1>7 DEF SaveWrite
  <2>2. ASSUME NEW x \in Sessions \ {s} PROVE Untouched(x)
    <3>2. worker'[x] = worker[x] BY <1>3
    <3>. QED BY <1>1, <2>1, <3>2 DEF Untouched
  <2>. QED BY <1>1, <1>2, <1>4, <1>7, <2>1, <2>2
<1>. QED BY <1>6, <1>7

LEMMA PersistDoes ==
  ASSUME Types, NEW s \in Sessions, NEW ign \in BOOLEAN, NEW ctx \in {None, turn[s], worker[s].ctx},
         PersistToRedis(s, ign, ctx)
  PROVE  /\ UNCHANGED <<row, turn, janitor, redis, flight, deleting, lost, raced>>
         /\ \A x \in Sessions \ {s} : Untouched(x)
         /\ redis /\ worker[s].at = "process" /\ worker'[s].at \in {"idle", "process"}
         /\ key'[s].exists /\ key'[s].ctx = ctx /\ key'[s].turns = worker[s].turns \cup {turn[s]}
         /\ \E e \in Element : /\ batch' = Append(batch, e) /\ e.of = s /\ e.ctx = ctx
                               /\ e.turns = worker[s].turns \cup {turn[s]} /\ e.ignoreContext = ign
         /\ worker'[s].at = "process" =>
              worker'[s].turns = worker[s].turns \cup {turn[s]} /\ worker'[s].ctx = worker[s].ctx
         /\ saved'[s] = saved[s] \cup {turn[s]}
         /\ left'[s] = IF ign THEN left[s] ELSE ctx
         /\ ign \/ worker'[s].at = "idle"
         /\ ign => ctx = worker[s].ctx
<1> USE DEF Types
<1> DEFINE turns == worker[s].turns \cup {turn[s]}
           e == [of |-> s, ctx |-> ctx, turns |-> turns, ignoreContext |-> ign]
<1>1. UNCHANGED <<row, turn, janitor, redis, flight, deleting, lost, raced>> BY DEF PersistToRedis
<1>2. redis /\ worker[s] \in Worker /\ worker[s].at = "process" /\ (ign => ctx = worker[s].ctx) BY DEF PersistToRedis
<1>3. worker' = [worker EXCEPT ![s] = Idle] \/ worker' = [worker EXCEPT ![s] = [worker[s] EXCEPT !.turns = turns]]
  BY DEF PersistToRedis
<1>4. /\ key' = [key EXCEPT ![s] = [exists |-> TRUE, ctx |-> ctx, turns |-> turns]]
      /\ batch' = Append(batch, e) /\ saved' = [saved EXCEPT ![s] = @ \cup {turn[s]}]
      /\ left' = IF ign THEN left ELSE [left EXCEPT ![s] = ctx]
  BY DEF PersistToRedis
<1>5. turns \subseteq Turns /\ ctx \in 0..MaxTurns
  BY <1>2, TurnNumber, WorkerFields, Bounds
<1>6. e \in Element /\ e.of = s /\ e.ctx = ctx /\ e.turns = turns /\ e.ignoreContext = ign
  BY <1>5 DEF Element
<1>7. worker'[s].at \in {"idle", "process"}
      /\ (worker'[s].at = "process" => worker'[s].turns = turns /\ worker'[s].ctx = worker[s].ctx)
  <2>1. CASE worker' = [worker EXCEPT ![s] = Idle] BY <2>1, IdleIsWorker
  <2>2. CASE worker' = [worker EXCEPT ![s] = [worker[s] EXCEPT !.turns = turns]]
    <3>1. worker'[s] = [worker[s] EXCEPT !.turns = turns] BY <2>2
    <3>. QED BY <1>2, <3>1 DEF Worker
  <2>. QED BY <1>3, <2>1, <2>2
<1>12. ign \/ worker'[s].at = "idle"
  <2>1. CASE ~ ign
    <3>1. worker' = [worker EXCEPT ![s] = Idle] BY <2>1 DEF PersistToRedis
    <3>. QED BY <3>1, IdleIsWorker
  <2>. QED BY <2>1
<1>8. key'[s].exists /\ key'[s].ctx = ctx /\ key'[s].turns = turns BY <1>4
<1>9. saved'[s] = saved[s] \cup {turn[s]} /\ left'[s] = IF ign THEN left[s] ELSE ctx BY <1>4
<1>10. ASSUME NEW x \in Sessions \ {s} PROVE Untouched(x)
  <2>1. worker'[x] = worker[x] BY <1>3
  <2>. QED BY <1>1, <1>4, <2>1 DEF Untouched
<1> HIDE DEF turns, e, Types
<1>11. \E d \in Element : /\ batch' = Append(batch, d) /\ d.of = s /\ d.ctx = ctx
                          /\ d.turns = turns /\ d.ignoreContext = ign
  BY <1>4, <1>6
<1>. QED BY <1>1, <1>2, <1>7, <1>8, <1>9, <1>10, <1>11, <1>12 DEF turns

LEMMA GiveDoes ==
  ASSUME Types, NEW s \in Sessions, Give(s)
  PROVE  /\ UNCHANGED <<row, turn, janitor, redis, key, batch, flight, deleting, lost, saved, left, raced>>
         /\ \A x \in Sessions \ {s} : Untouched(x)
         /\ worker'[s].at = "idle"
  BY IdleIsWorker DEF Give, Types, cached, histories, Untouched

LEMMA DeleteDoes ==
  ASSUME Types, NEW s \in Sessions, DeleteDialogSession(s)
  PROVE  /\ UNCHANGED <<worker, turn, janitor, redis, key, batch, flight, lost>>
         /\ \A x \in Sessions \ {s} : Untouched(x)
         /\ row'[s] = NoRow /\ ~ Locked(s) /\ s \notin deleting
         /\ raced[s] => raced'[s]
         /\ IF redis
            THEN /\ s \in deleting' /\ saved'[s] = {} /\ left'[s] = None
                 /\ worker[s].at # "idle" \/ Unwritten(s) => raced'[s]
            ELSE s \notin deleting' /\ saved'[s] = saved[s] /\ left'[s] = left[s]
<1>1. /\ UNCHANGED <<worker, turn, janitor, redis, key, batch, flight, lost>>
      /\ ~ Locked(s) /\ s \notin deleting /\ row' = [row EXCEPT ![s] = NoRow]
  BY DEF DeleteDialogSession
<1>2. row'[s] = NoRow /\ \A x \in Sessions \ {s} : row'[x] = row[x] BY <1>1 DEF Types
<1>3. CASE redis
  <2>1. /\ deleting' = deleting \cup {s}
        /\ saved' = [saved EXCEPT ![s] = {}] /\ left' = [left EXCEPT ![s] = None]
        /\ Races({x \in {s} : worker[x].at # "idle" \/ Unwritten(x)})
    BY <1>3 DEF DeleteDialogSession
  <2>2. /\ \A x \in Sessions : raced'[x] <=> raced[x] \/ (x = s /\ (worker[x].at # "idle" \/ Unwritten(x)))
        /\ \A x \in Sessions : raced[x] \in BOOLEAN /\ raced'[x] \in BOOLEAN
    BY <2>1, RacesType DEF Types
  <2>3. saved'[s] = {} /\ left'[s] = None
        /\ \A x \in Sessions \ {s} : saved'[x] = saved[x] /\ left'[x] = left[x]
    BY <2>1 DEF Types
  <2>4. \A x \in Sessions \ {s} : Untouched(x) BY <1>1, <1>2, <2>1, <2>2, <2>3 DEF Untouched
  <2>. QED BY <1>1, <1>2, <1>3, <2>1, <2>2, <2>3, <2>4
<1>4. CASE ~ redis
  <2>1. UNCHANGED <<deleting, saved, left, raced>> BY <1>4 DEF DeleteDialogSession
  <2>2. \A x \in Sessions \ {s} : Untouched(x) BY <1>1, <1>2, <2>1 DEF Untouched
  <2>. QED BY <1>1, <1>2, <1>4, <2>1, <2>2
<1>. QED BY <1>3, <1>4

LEMMA DeleteKeyDoes ==
  ASSUME Types, NEW s \in Sessions, DeleteKey(s)
  PROVE  /\ UNCHANGED <<row, worker, turn, janitor, redis, batch, flight, lost, saved, left, raced>>
         /\ \A x \in Sessions \ {s} : Untouched(x)
         /\ s \in deleting /\ s \notin deleting' /\ key'[s] = NoKey
  BY DEF DeleteKey, Types, histories, Untouched

LEMMA ExpireDoes ==
  ASSUME Types, NEW s \in Sessions, Expire(s), ~ row[s].exists => row[s] = NoRow
  PROVE  /\ UNCHANGED <<worker, turn, janitor, redis, batch, flight, deleting, lost, saved, left>>
         /\ \A x \in Sessions \ {s} : Untouched(x)
         /\ \/ /\ key'[s] = key[s] /\ (raced'[s] <=> raced[s])
               /\ row'[s].exists /\ row[s].exists
               /\ row'[s].ctx = row[s].ctx /\ row'[s].turns = row[s].turns
            \/ /\ row' = row /\ key[s].exists /\ key'[s] = NoKey
               /\ raced[s] \/ Unwritten(s) \/ s \in lost => raced'[s]
<1>1. UNCHANGED <<worker, turn, janitor, redis, batch, flight, deleting, saved, left, lost>>
  BY DEF Expire
<1>2. row[s] \in Row BY DEF Types
<1>3. CASE /\ row[s].ctxExpiry = "future" /\ row' = [row EXCEPT ![s].ctxExpiry = "past"]
           /\ UNCHANGED <<key, raced>>
  <2>1. row[s].exists BY <1>3 DEF NoRow
  <2>2. row'[s] = [row[s] EXCEPT !.ctxExpiry = "past"] /\ \A x \in Sessions \ {s} : row'[x] = row[x]
    BY <1>3 DEF Types
  <2>3. row'[s].exists = row[s].exists /\ row'[s].ctx = row[s].ctx /\ row'[s].turns = row[s].turns
    BY <1>2, <2>2 DEF Row
  <2>. QED BY <1>1, <1>3, <2>1, <2>2, <2>3 DEF Untouched
<1>4. CASE /\ row[s].sesExpiry = "future" /\ row' = [row EXCEPT ![s].sesExpiry = "past"]
           /\ UNCHANGED <<key, raced>>
  <2>1. row[s].exists BY <1>4 DEF NoRow
  <2>2. row'[s] = [row[s] EXCEPT !.sesExpiry = "past"] /\ \A x \in Sessions \ {s} : row'[x] = row[x]
    BY <1>4 DEF Types
  <2>3. row'[s].exists = row[s].exists /\ row'[s].ctx = row[s].ctx /\ row'[s].turns = row[s].turns
    BY <1>2, <2>2 DEF Row
  <2>. QED BY <1>1, <1>4, <2>1, <2>2, <2>3 DEF Untouched
<1>5. CASE /\ key[s].exists /\ key' = [key EXCEPT ![s] = NoKey] /\ row' = row
           /\ Races({x \in {s} : Unwritten(x) \/ x \in lost})
  <2>1. /\ \A x \in Sessions : raced'[x] <=> raced[x] \/ (x = s /\ (Unwritten(x) \/ x \in lost))
        /\ \A x \in Sessions : raced[x] \in BOOLEAN /\ raced'[x] \in BOOLEAN
    BY <1>5, RacesType DEF Types
  <2>2. key'[s] = NoKey /\ \A x \in Sessions \ {s} : key'[x] = key[x] BY <1>5 DEF Types
  <2>. QED BY <1>1, <1>5, <2>1, <2>2 DEF Untouched
<1>. QED BY <1>3, <1>4, <1>5 DEF Expire

-----------------------------------------------------------------------------
(* What the steps of the batch do. *)

LEMMA RunTaskDoes ==
  ASSUME Types, RunTask
  PROVE  /\ UNCHANGED <<row, worker, turn, janitor, redis, key, deleting, saved, left, lost, raced>>
         /\ flight.at = "idle" /\ flight'.at = "read" /\ redis
         /\ flight'.writes = [s \in Sessions |-> NoRow]
         /\ \E n \in 0..Len(batch) : /\ flight'.todo = SubSeq(batch, 1, n)
                                     /\ batch' = SubSeq(batch, n + 1, Len(batch))
<1> DEFINE n == IF Len(batch) >= BatchSize THEN BatchSize ELSE Len(batch)
<1>1. n \in 0..Len(batch) BY Bounds DEF Types
<1> HIDE DEF n
<1>2. /\ flight' = [NoFlight EXCEPT !.at = "read", !.todo = SubSeq(batch, 1, n)]
      /\ batch' = SubSeq(batch, n + 1, Len(batch)) /\ flight.at = "idle" /\ batch # <<>>
      /\ UNCHANGED <<row, worker, turn, janitor, redis, key, deleting, saved, left, lost, raced>>
  BY DEF RunTask, Taken, n, histories
<1>3. flight'.at = "read" /\ flight'.todo = SubSeq(batch, 1, n) /\ flight'.writes = [s \in Sessions |-> NoRow]
  BY <1>2 DEF NoFlight
<1>4. redis BY <1>2 DEF Types
<1>. QED BY <1>1, <1>2, <1>3, <1>4

LEMMA FlushReadDoes ==
  ASSUME Types, FlushRead
  PROVE  /\ UNCHANGED <<worker, turn, janitor, redis, key, batch, deleting, saved, left, lost, raced>>
         /\ flight.at = "read" /\ flight.todo # <<>> /\ flight'.at = "update"
         /\ flight'.todo = flight.todo /\ flight'.writes = flight.writes /\ redis
         /\ \E s \in Sessions :
              /\ flight.todo[1].of = s /\ Holds(flight.todo, s, FALSE)
              /\ \A x \in Sessions \ {s} : row'[x] = row[x]
              /\ row'[s] = (IF row[s].exists THEN row[s] ELSE NewRow)
              /\ flight'.copy = row'[s]
<1> DEFINE s == Head(flight.todo).of
<1>1. flight \in Flights /\ flight.at = "read" /\ flight.todo \in Seq(Element) /\ flight.todo # <<>>
  BY FlightFields DEF FlushRead, Types
<1>2. Head(flight.todo) \in Element /\ Head(flight.todo) = flight.todo[1] /\ 1 \in DOMAIN flight.todo BY <1>1
<1>3. s \in Sessions /\ flight.todo[1].of = s BY <1>2 DEF Element
<1>4. Holds(flight.todo, s, FALSE) BY <1>2, <1>3 DEF Holds, Of
<1>5. /\ row' = [row EXCEPT ![s] = IF row[s].exists THEN row[s] ELSE NewRow]
      /\ flight' = [flight EXCEPT !.at = "update", !.copy = IF row[s].exists THEN row[s] ELSE NewRow]
  BY DEF FlushRead
<1> HIDE DEF s
<1>6. /\ \A x \in Sessions \ {s} : row'[x] = row[x]
      /\ row'[s] = (IF row[s].exists THEN row[s] ELSE NewRow)
  BY <1>3, <1>5 DEF Types
<1>7. /\ flight'.at = "update" /\ flight'.copy = row'[s] /\ flight'.todo = flight.todo
      /\ flight'.writes = flight.writes
  BY <1>1, <1>5, <1>6 DEF Flights
<1>8. UNCHANGED <<worker, turn, janitor, redis, key, batch, deleting, saved, left, lost, raced>>
  BY DEF FlushRead, histories
<1>9. redis BY <1>1, NoFlightIsFlight DEF Types
<1>. QED BY <1>1, <1>3, <1>4, <1>6, <1>7, <1>8, <1>9

LEMMA FlushUpdateDoes ==
  ASSUME Types, FlushUpdate
  PROVE  /\ UNCHANGED <<row, worker, turn, janitor, redis, key, batch, deleting, saved, left, lost>>
         /\ flight.at = "update" /\ flight.todo # <<>> /\ flight'.at = "read"
         /\ flight'.todo = Tail(flight.todo) /\ redis
         /\ \E e \in Element :
              /\ e = Head(flight.todo) /\ e = flight.todo[1]
              /\ \A x \in Sessions : x = e.of \/ (flight'.writes[x] = flight.writes[x] /\ (raced'[x] <=> raced[x]))
              /\ raced[e.of] => raced'[e.of]
              /\ IF row[e.of].exists
                 THEN /\ flight'.writes[e.of].exists /\ flight'.writes[e.of].turns = e.turns
                      /\ flight'.writes[e.of].ctx = IF e.ignoreContext THEN flight.copy.ctx ELSE e.ctx
                 ELSE flight'.writes[e.of] = flight.writes[e.of]
              /\ Locked(e.of) /\ row[e.of].exists /\ e.ignoreContext /\ flight.writes[e.of].ctx # flight.copy.ctx
                   => raced'[e.of]
<1> DEFINE e == Head(flight.todo)
           w == [ctx |-> e.ctx, turns |-> e.turns, copy |-> flight.copy, ignoreContext |-> e.ignoreContext]
<1>1. flight \in Flights /\ flight.at = "update" /\ flight.todo \in Seq(Element) /\ flight.todo # <<>>
  BY FlightFields DEF FlushUpdate, Types
<1>2. e \in Element /\ e = flight.todo[1] BY <1>1
<1>3. /\ w.ctx \in 0..MaxTurns /\ w.turns \subseteq Turns /\ w.copy \in Row /\ e.of \in Sessions
      /\ w.ctx = e.ctx /\ w.turns = e.turns /\ w.copy = flight.copy /\ w.ignoreContext = e.ignoreContext
  BY <1>1, <1>2, FlightFields DEF Element
<1>4. /\ flight' = [flight EXCEPT !.at = "read", !.todo = Tail(@), !.copy = NoRow,
                      !.writes = IF row[e.of].exists THEN [@ EXCEPT ![e.of] = Saves(w)] ELSE @]
      /\ Races({x \in {e.of} : Locked(x) /\ e.ignoreContext /\ flight.writes[x].ctx # Saves(w).ctx})
      /\ UNCHANGED <<row, worker, turn, janitor, redis, key, batch, deleting, saved, left, lost>>
  BY DEF FlushUpdate
<1> HIDE DEF e, w
<1>5. Saves(w).exists /\ Saves(w).turns = e.turns /\ Saves(w).ctx = IF e.ignoreContext THEN flight.copy.ctx ELSE e.ctx
  BY <1>3, SavesIsRow DEF NewContext
<1>6. /\ flight'.at = "read" /\ flight'.todo = Tail(flight.todo)
      /\ flight'.writes = IF row[e.of].exists THEN [flight.writes EXCEPT ![e.of] = Saves(w)] ELSE flight.writes
  BY <1>1, <1>4 DEF Flights
<1>7. /\ \A x \in Sessions : raced'[x] <=> raced[x] \/
            (x = e.of /\ Locked(x) /\ e.ignoreContext /\ flight.writes[x].ctx # Saves(w).ctx)
  BY <1>4, RacesType DEF Types
<1>8. flight.writes \in [Sessions -> Row] BY <1>1, FlightFields
<1>9. redis BY <1>1, NoFlightIsFlight DEF Types
<1>10. \A x \in Sessions : x = e.of \/ (flight'.writes[x] = flight.writes[x] /\ (raced'[x] <=> raced[x]))
  BY <1>6, <1>7, <1>8
<1>11. IF row[e.of].exists THEN flight'.writes[e.of] = Saves(w) ELSE flight'.writes[e.of] = flight.writes[e.of]
  BY <1>3, <1>6, <1>8
<1>12. /\ raced[e.of] => raced'[e.of]
       /\ IF row[e.of].exists
          THEN /\ flight'.writes[e.of].exists /\ flight'.writes[e.of].turns = e.turns
               /\ flight'.writes[e.of].ctx = IF e.ignoreContext THEN flight.copy.ctx ELSE e.ctx
          ELSE flight'.writes[e.of] = flight.writes[e.of]
       /\ Locked(e.of) /\ row[e.of].exists /\ e.ignoreContext /\ flight.writes[e.of].ctx # flight.copy.ctx
            => raced'[e.of]
  BY <1>3, <1>5, <1>7, <1>11
<1>. QED BY <1>1, <1>2, <1>4, <1>6, <1>9, <1>10, <1>12 DEF e

LEMMA CommitDoes ==
  ASSUME Types, Commit
  PROVE  /\ UNCHANGED <<worker, turn, janitor, redis, key, batch, deleting, saved, left, lost>>
         /\ flight.at = "read" /\ flight.todo = <<>> /\ flight' = NoFlight /\ redis
         /\ \A x \in Sessions : row'[x] = IF Locked(x) THEN flight.writes[x] ELSE row[x]
         /\ \A x \in Sessions : raced'[x] <=> raced[x] \/ (Locked(x) /\ JanitorHolds(x))
<1>1. \A x \in Sessions : raced'[x] <=> raced[x] \/ (Locked(x) /\ JanitorHolds(x))
  BY RacesType DEF Commit, Types
<1>2. redis BY NoFlightIsFlight DEF Commit, Types
<1>. QED BY <1>1, <1>2 DEF Commit

LEMMA CrashDoes ==
  ASSUME Types, Crash
  PROVE  /\ UNCHANGED <<row, turn, redis, key, saved, left>>
         /\ \A x \in Sessions : worker'[x].at = "idle"
         /\ janitor' = Resting /\ batch' = <<>> /\ flight' = NoFlight /\ deleting' = {}
         /\ \A x \in Sessions : x \in lost' <=> x \in lost \/ Unwritten(x)
         /\ \A x \in Sessions : raced'[x] <=> raced[x] \/ x \in deleting
<1>1. \A x \in Sessions : raced'[x] <=> raced[x] \/ x \in deleting
  BY RacesType DEF Crash, Types
<1>2. \A x \in Sessions : worker'[x].at = "idle" BY IdleIsWorker DEF Crash
<1>. QED BY <1>1, <1>2 DEF Crash

-----------------------------------------------------------------------------
(* How the parts of the state fit. *)

LEMMA FormsInit == SessionInit => Forms
  BY IdleIsWorker, NoFlightIsFlight, RestingSweeps, RowsAreRows DEF SessionInit, Forms, Locked

LEMMA LockedSame ==
  ASSUME NEW s, flight' = flight
  PROVE  Locked(s)' <=> Locked(s)
  BY DEF Locked

\* A step that leaves the transaction alone, and deletes no row that it has locked.
LEMMA FormsFrame ==
  ASSUME Types, Types', Forms, flight' = flight, redis' = redis, lost' = lost,
         \A x \in Sessions : /\ ~ row'[x].exists => row'[x] = NoRow
                             /\ Locked(x) /\ row[x].exists => row'[x].exists
         ,
         \A x \in Sessions : worker'[x].at = "write" => ~ redis /\ turn'[x] \in worker'[x].turns,
         \A x, y \in janitor'.of : x = y,
         janitor'.at = "write" => janitor'.copy.exists
  PROVE  Forms'
  BY LockedSame DEF Forms

LEMMA FormsStep == SessionTypeOK /\ SessionTypeOK' /\ Forms /\ [SessionNext]_sessionVars => Forms'
<1> SUFFICES ASSUME Types, Types', Forms, [SessionNext]_sessionVars PROVE Forms'
  BY TypesAre, PTL
<1>0. \A x \in Sessions : row[x] \in Row /\ worker[x] \in Worker BY DEF Types
<1>1. ASSUME NEW s \in Sessions, Restore(s) PROVE Forms'
  BY <1>1, RestoreDoes, FormsFrame DEF Forms, Untouched
<1>2. ASSUME NEW s \in Sessions, NEW ign \in BOOLEAN, NEW ctx \in {None, turn[s]}, SaveRead(s, ign, ctx) PROVE Forms'
  BY <1>2, SaveReadDoes, RowsAreRows, FormsFrame DEF Forms, Untouched
<1>3. ASSUME NEW s \in Sessions, SaveWrite(s) PROVE Forms'
  <2>1. \A x \in Sessions \ {s} : Untouched(x) BY <1>3, SaveWriteDoes
  <2>2. worker'[s].at # "write" /\ (row'[s] = row[s] \/ row'[s].exists) BY <1>3, SaveWriteDoes
  <2>3. UNCHANGED <<turn, janitor, redis, flight, lost>> BY <1>3, SaveWriteDoes
  <2>. QED BY <2>1, <2>2, <2>3, FormsFrame DEF Forms, Untouched
<1>4. ASSUME NEW s \in Sessions, NEW ign \in BOOLEAN, NEW ctx \in {None, turn[s], worker[s].ctx},
             PersistToRedis(s, ign, ctx) PROVE Forms'
  <2>1. \A x \in Sessions \ {s} : Untouched(x) BY <1>4, PersistDoes
  <2>2. worker'[s].at # "write" BY <1>4, PersistDoes
  <2>3. UNCHANGED <<row, turn, janitor, redis, flight, lost>> BY <1>4, PersistDoes
  <2>. QED BY <2>1, <2>2, <2>3, FormsFrame DEF Forms, Untouched
<1>5. ASSUME NEW s \in Sessions, Give(s) PROVE Forms'
  BY <1>5, GiveDoes, FormsFrame DEF Forms, Untouched
<1>6. ASSUME NEW s \in Sessions, DeleteDialogSession(s) PROVE Forms'
  <2>1. \A x \in Sessions \ {s} : Untouched(x) BY <1>6, DeleteDoes
  <2>2. row'[s] = NoRow /\ ~ Locked(s) /\ UNCHANGED <<worker, turn, janitor, redis, flight, lost>> BY <1>6, DeleteDoes
  <2>. QED BY <2>1, <2>2, FormsFrame DEF Forms, Untouched
<1>7. ASSUME NEW s \in Sessions, DeleteKey(s) PROVE Forms'
  BY <1>7, DeleteKeyDoes, FormsFrame DEF Forms
<1>8. ASSUME NEW s \in Sessions, Expire(s) PROVE Forms'
  <2>1. /\ UNCHANGED <<worker, turn, janitor, redis, flight, lost>>
        /\ \A x \in Sessions \ {s} : Untouched(x)
        /\ row'[s].exists \/ row' = row
    BY <1>8, ExpireDoes DEF Forms
  <2>. QED BY <2>1, FormsFrame DEF Forms, Untouched
<1>9. CASE Sweep
  <2>1. \A x \in Sessions : row'[x] = IF row[x].sesExpiry = "past" THEN NoRow ELSE row[x]
    BY <1>9 DEF Sweep
  <2>2. janitor'.of = {} /\ janitor'.at = "list" BY <1>9 DEF Sweep, Resting
  <2>. QED BY <1>9, <2>1, <2>2, RowsAreRows, FormsFrame DEF Sweep, Forms, cached, histories
<1>10. CASE List
  <2>1. (\A x, y \in janitor'.of : x = y) /\ janitor'.at # "write"
    BY <1>10, RestingSweeps DEF List, Types, Sweeps, Forms
  <2>. QED BY <1>10, <2>1, FormsFrame DEF List, Forms, cached, histories
<1>11. ASSUME NEW s \in Sessions, Timeout(s) PROVE Forms'
  <2>1. (\A x, y \in janitor'.of : x = y) /\ janitor'.at # "write" BY <1>11 DEF Timeout
  <2>. QED BY <1>11, <2>1, FormsFrame DEF Timeout, Forms, cached, histories
<1>12. ASSUME NEW s \in Sessions, Reread(s) PROVE Forms'
  <2>1. \A x, y \in janitor'.of : x = y BY <1>12, RestingSweeps DEF Reread, Types, Sweeps, Forms
  <2>2. janitor'.at = "write" => janitor'.copy.exists BY <1>12, RestingSweeps DEF Reread, Types, Sweeps
  <2>. QED BY <1>12, <2>1, <2>2, FormsFrame DEF Reread, Forms, cached, histories
<1>13. ASSUME NEW s \in Sessions, Reset(s) PROVE Forms'
  <2>1. (\A x, y \in janitor'.of : x = y) /\ janitor'.at # "write"
    BY <1>13, RestingSweeps DEF Reset, Types, Sweeps, Forms
  <2>2. ~ Locked(s) /\ \A x \in Sessions \ {s} : row'[x] = row[x] BY <1>13 DEF Reset, Types
  <2>3. ~ row'[s].exists => row'[s] = NoRow
    <3>1. CASE ~ row[s].exists BY <1>13, <3>1 DEF Reset, Forms
    <3>2. CASE row[s].exists
      <4>1. row'[s] = [janitor.copy EXCEPT !.ctx = IF janitor.reset THEN None ELSE @,
                           !.ctxExpiry = "future", !.sesExpiry = "future"]
        BY <1>13, <3>2 DEF Reset, Types
      <4>2. janitor.copy \in Row /\ janitor.copy.exists BY <1>13 DEF Reset, Types, Sweeps, Forms
      <4>. QED BY <4>1, <4>2 DEF Row
    <3>. QED BY <3>1, <3>2
  <2>. QED BY <1>13, <2>1, <2>2, <2>3, FormsFrame DEF Reset, Forms, cached, histories
<1>14. CASE RunTask
  <2>1. \A x \in Sessions : ~ Locked(x)' BY <1>14, RunTaskDoes, RowsAreRows DEF Locked
  <2>. QED BY <1>14, <2>1, RunTaskDoes DEF Forms
<1>15. CASE FlushRead
  <2>1. \A x \in Sessions : (Locked(x)' <=> Locked(x)) BY <1>15, FlushReadDoes DEF Locked
  <2>2. \A x \in Sessions : row'[x] = row[x] \/ row'[x].exists BY <1>15, FlushReadDoes, RowsAreRows
  <2>3. UNCHANGED <<worker, turn, janitor, redis, lost>> /\ flight'.at = "update" BY <1>15, FlushReadDoes
  <2>. QED BY <2>1, <2>2, <2>3 DEF Forms
<1>16. CASE FlushUpdate
  <2>1. \A x \in Sessions : Locked(x)' => Locked(x) \/ row[x].exists BY <1>16, FlushUpdateDoes DEF Locked
  <2>2. UNCHANGED <<row, worker, turn, janitor, redis, lost>> /\ flight'.at = "read" BY <1>16, FlushUpdateDoes
  <2>. QED BY <2>1, <2>2 DEF Forms
<1>17. CASE Commit
  <2>1. \A x \in Sessions : ~ Locked(x)' BY <1>17, CommitDoes, NoFlightIsFlight, RowsAreRows DEF Locked
  <2>2. \A x \in Sessions : row'[x] = row[x] \/ row'[x].exists BY <1>17, CommitDoes DEF Locked
  <2>. QED BY <1>17, <2>1, <2>2, CommitDoes DEF Forms
<1>18. CASE Abort
  <2>1. \A x \in Sessions : ~ Locked(x)' BY <1>18, NoFlightIsFlight, RowsAreRows DEF Locked, Abort
  <2>2. redis BY <1>18, NoFlightIsFlight DEF Abort, Types
  <2>. QED BY <1>18, <2>1, <2>2 DEF Forms, Abort
<1>19. CASE Crash
  <2>1. \A x \in Sessions : ~ Locked(x)' BY <1>19, CrashDoes, NoFlightIsFlight, RowsAreRows DEF Locked
  <2>2. ~ redis => lost' = {}
    <3>1. ASSUME ~ redis, NEW x \in Sessions PROVE ~ Unwritten(x)
      <4>1. batch = <<>> /\ flight.todo = <<>> BY <3>1, NoFlightIsFlight DEF Types
      <4>2. ~ Locked(x) BY <3>1, NoFlightIsFlight, RowsAreRows DEF Types, Locked
      <4>. QED BY <4>1, <4>2, UnwrittenIs, NoneInEmpty
    <3>2. ~ redis => lost = {} BY DEF Forms
    <3>3. lost' \subseteq Sessions BY DEF Types
    <3>. QED BY <1>19, <3>1, <3>2, <3>3, CrashDoes
  <2>3. UNCHANGED <<row, redis>> /\ janitor'.of = {} /\ janitor'.at = "idle" /\ flight' = NoFlight /\ \A x \in Sessions : worker'[x].at = "idle"
    BY <1>19, CrashDoes, RestingSweeps
  <2>. QED BY <2>1, <2>2, <2>3 DEF Forms
<1>20. CASE UNCHANGED sessionVars
  BY <1>20, FormsFrame DEF sessionVars, cached, bounds, histories, Forms
<1>. QED BY <1>1, <1>2, <1>3, <1>4, <1>5, <1>6, <1>7, <1>8, <1>9, <1>10, <1>11, <1>12, <1>13, <1>14, <1>15,
            <1>16, <1>17, <1>18, <1>19, <1>20 DEF SessionNext, Event, JanitorStep, FlushStep

-----------------------------------------------------------------------------
(* What each session keeps, step by step. *)

LEMMA WholeInit == SessionInit => \A s \in Sessions : Whole(s)
<1> SUFFICES ASSUME SessionInit, NEW s \in Sessions PROVE Whole(s) OBVIOUS
<1>1. /\ row[s] = NoRow /\ ~ row[s].exists /\ row[s].ctx = None /\ ~ key[s].exists
      /\ worker[s].at = "idle" /\ janitor.at = "idle"
      /\ batch = <<>> /\ flight.todo = <<>> /\ flight.at = "idle" /\ ~ Locked(s) /\ deleting = {} /\ lost = {}
      /\ saved[s] = {} /\ left[s] = None
  BY IdleIsWorker, NoFlightIsFlight, RestingSweeps, RowsAreRows DEF SessionInit, Locked
<1>2. ~ Unwritten(s) BY <1>1, UnwrittenIs, NoneInEmpty
<1>3. EventHasAll(s) /\ KeyHasAll(s) /\ JanitorHasRow(s)
  BY <1>1, <1>2 DEF EventHasAll, KeyHasAll, JanitorHasRow, JanitorHolds
<1>4. RowWillHaveTurns(s) /\ RowWillHaveContext(s)
  BY <1>1, NoneInEmpty DEF RowWillHaveTurns, RowWillHaveContext, Updating
<1>. QED BY <1>3, <1>4 DEF Whole

\* The row of x loses its context, or is deleted, if it changes at all.
RowKept(x) ==
  row'[x].exists => row[x].exists /\ row'[x].turns = row[x].turns /\ row'[x].ctx \in {row[x].ctx, None}

\* What the janitor holds of x it has held, and the row has kept its context.
JanitorKept(x) ==
  JanitorHolds(x)' => /\ JanitorHolds(x) /\ janitor'.copy = janitor.copy
                      /\ row'[x].exists => row'[x].ctx = row[x].ctx

LEMMA EventFrame ==
  ASSUME NEW x \in Sessions, worker'[x] = worker[x], saved'[x] = saved[x], left'[x] = left[x], redis' = redis,
         row'[x].exists => row[x].exists, x \in deleting' => x \in deleting, EventHasAll(x)
  PROVE  EventHasAll(x)'
  BY DEF EventHasAll

LEMMA KeyFrame ==
  ASSUME NEW x \in Sessions, key'[x] = key[x], saved'[x] = saved[x], left'[x] = left[x],
         row'[x].exists => row[x].exists, x \in deleting' <=> x \in deleting, x \in lost' => x \in lost,
         worker[x].at = "idle" => worker'[x].at = "idle", Unwritten(x)' => Unwritten(x), KeyHasAll(x)
  PROVE  KeyHasAll(x)'
  BY DEF KeyHasAll

LEMMA BatchFrame ==
  ASSUME NEW x \in Sessions, batch' = batch, flight' = flight
  PROVE  /\ Locked(x)' <=> Locked(x)
         /\ Updating(x)' <=> Updating(x)
         /\ Unwritten(x)' <=> Unwritten(x)
  BY DEF Locked, Updating, Unwritten

LEMMA RowFrame ==
  ASSUME NEW x \in Sessions, Forms', RowKept(x), batch' = batch, flight' = flight,
         saved'[x] = saved[x], left'[x] = left[x], x \in lost' <=> x \in lost,
         RowWillHaveTurns(x), RowWillHaveContext(x)
  PROVE  RowWillHaveTurns(x)' /\ RowWillHaveContext(x)'
<1>0. row'[x].exists \/ row'[x].ctx = None BY RowsAreRows DEF Forms
<1>1. RowWillHaveTurns(x)' BY BatchFrame DEF RowWillHaveTurns, RowKept
<1>2. RowWillHaveContext(x)' BY <1>0, BatchFrame DEF RowWillHaveContext, RowKept
<1>. QED BY <1>1, <1>2

LEMMA JanitorFrame ==
  ASSUME NEW x \in Sessions, RowKept(x), JanitorKept(x), Locked(x)' <=> Locked(x), Updating(x)' <=> Updating(x), x \in lost' <=> x \in lost,
         JanitorHasRow(x)
  PROVE  JanitorHasRow(x)'
  BY DEF JanitorHasRow, RowKept, JanitorKept

LEMMA Frame ==
  ASSUME NEW x \in Sessions, Forms', RowKept(x), JanitorKept(x),
         worker'[x] = worker[x], key'[x] = key[x], saved'[x] = saved[x], left'[x] = left[x],
         x \in deleting' <=> x \in deleting, x \in lost' <=> x \in lost,
         batch' = batch, flight' = flight, redis' = redis, Whole(x)
  PROVE  Whole(x)'
  BY EventFrame, KeyFrame, RowFrame, JanitorFrame, BatchFrame DEF Whole, RowKept

LEMMA UntouchedFrame ==
  ASSUME NEW x \in Sessions, Forms', Untouched(x),
         batch' = batch, flight' = flight, redis' = redis, janitor' = janitor, Whole(x)
  PROVE  Whole(x)'
<1>1. RowKept(x) /\ JanitorKept(x) BY DEF Untouched, RowKept, JanitorKept, JanitorHolds
<1>. QED BY <1>1, Frame DEF Untouched

Kept == \A x \in Sessions : raced'[x] \/ Whole(x)'


\* One session is touched, and is whole if it has not raced.
LEMMA Others ==
  ASSUME NEW s \in Sessions, \A x \in Sessions : raced[x] \/ Whole(x), Forms',
         \A x \in Sessions \ {s} : Untouched(x), batch' = batch, flight' = flight, redis' = redis, janitor' = janitor,
         raced'[s] \/ Whole(s)'
  PROVE  Kept
<1>1. ASSUME NEW x \in Sessions \ {s}, ~ raced'[x] PROVE Whole(x)'
  <2>1. Untouched(x) OBVIOUS
  <2>2. Whole(x) BY <1>1, <2>1 DEF Untouched
  <2>. QED BY <2>1, <2>2, UntouchedFrame
<1>. QED BY <1>1 DEF Kept

LEMMA UpdatingIsUnwritten ==
  ASSUME Types, NEW s \in Sessions, Updating(s)
  PROVE  Holds(flight.todo, s, FALSE)
<1>1. flight.todo \in Seq(Element) /\ flight.todo # <<>> BY FlightFields DEF Types, Updating
<1>2. 1 \in DOMAIN flight.todo BY <1>1
<1>. QED BY <1>2 DEF Updating, Holds, Of

LEMMA NotHeld ==
  ASSUME NEW q, NEW s, ~ Holds(q, s, FALSE)
  PROVE  /\ ~ Holds(q, s, TRUE)
         /\ \A S : NewestHas(q, s, S)
         /\ \A c : NewestLeaves(q, s, c)
  BY DEF Holds, Of, NewestHas, NewestLeaves, Newest

\* When nothing of a session is to be written, the row has it all.
Rested ==
  \A s \in Sessions : ~ Unwritten(s) =>
    /\ ~ Locked(s) /\ ~ Updating(s)
    /\ RowWillHaveTurns(s) <=> (row[s].exists /\ s \notin lost => saved[s] \subseteq row[s].turns)
    /\ RowWillHaveContext(s) <=> (s \notin lost => row[s].ctx \in {None, left[s]})

LEMMA RestedHolds == Types => Rested
<1> SUFFICES ASSUME Types, NEW s \in Sessions, ~ Unwritten(s)
             PROVE  /\ ~ Locked(s) /\ ~ Updating(s)
                    /\ RowWillHaveTurns(s) <=> (row[s].exists /\ s \notin lost => saved[s] \subseteq row[s].turns)
                    /\ RowWillHaveContext(s) <=> (s \notin lost => row[s].ctx \in {None, left[s]})
  BY DEF Rested
<1>1. ~ Locked(s) /\ ~ Holds(batch, s, FALSE) /\ ~ Holds(flight.todo, s, FALSE) BY UnwrittenIs
<1>2. ~ Updating(s) BY <1>1, UpdatingIsUnwritten
<1>3. RowWillHaveTurns(s) <=> (row[s].exists /\ s \notin lost => saved[s] \subseteq row[s].turns)
  BY <1>1, NotHeld DEF RowWillHaveTurns
<1>4. RowWillHaveContext(s) <=> (s \notin lost => row[s].ctx \in {None, left[s]})
  BY <1>1, <1>2, NotHeld DEF RowWillHaveContext
<1>. QED BY <1>1, <1>2, <1>3, <1>4

\* Without Redis nothing is ever to be written.
LEMMA NoRedis ==
  ASSUME Types, Forms, ~ redis, NEW s \in Sessions
  PROVE  ~ Unwritten(s) /\ ~ key[s].exists /\ deleting = {} /\ lost = {} /\ flight = NoFlight
<1>1. batch = <<>> /\ flight = NoFlight /\ deleting = {} /\ key[s] = NoKey BY DEF Types
<1>2. ~ Locked(s) BY <1>1, NoFlightIsFlight, RowsAreRows DEF Locked
<1>3. ~ Unwritten(s) BY <1>1, <1>2, NoFlightIsFlight, UnwrittenIs, NoneInEmpty
<1>. QED BY <1>1, <1>3, RowsAreRows DEF Forms

LEMMA RestoreKeeps ==
  ASSUME Types, Types', Forms, Forms', \A x \in Sessions : raced[x] \/ Whole(x), NEW s \in Sessions, Restore(s)
  PROVE  Kept
<1>1. /\ UNCHANGED <<row, janitor, redis, key, batch, flight, deleting, lost>>
      /\ \A x \in Sessions \ {s} : Untouched(x)
      /\ worker'[s].at = "process" /\ (raced[s] \/ s \in deleting => raced'[s])
  BY RestoreDoes
<1> SUFFICES ASSUME ~ raced'[s] PROVE Whole(s)' BY <1>1, Others
<1>2. Whole(s) /\ s \notin deleting BY <1>1
<1>3. ~ Unwritten(s) /\ row[s].exists /\ s \notin lost =>
        saved[s] \subseteq row[s].turns /\ row[s].ctx \in {None, left[s]}
  BY <1>2, RestedHolds DEF Rested, Whole
<1>4. RowKept(s) /\ JanitorHasRow(s)'
  <2>1. RowKept(s) /\ JanitorKept(s) BY <1>1 DEF RowKept, JanitorKept, JanitorHolds
  <2>. QED BY <1>1, <1>2, <2>1, JanitorFrame, BatchFrame DEF Whole
<1>5. CASE saved'[s] = saved[s] /\ left'[s] = left[s] /\ ~ (redis /\ ~ key[s].exists /\ ~ row[s].exists)
  <2>1. RowWillHaveTurns(s)' /\ RowWillHaveContext(s)' BY <1>1, <1>2, <1>4, <1>5, RowFrame DEF Whole
  <2>2. KeyHasAll(s)' BY <1>1, <1>2, <1>5, BatchFrame DEF Whole, KeyHasAll
  <2>3. \/ worker'[s].ctx = key[s].ctx /\ worker'[s].turns = key[s].turns /\ key[s].exists
        \/ /\ worker'[s].ctx = row[s].ctx /\ worker'[s].turns = row[s].turns
           /\ ~ key[s].exists \/ (~ Unwritten(s) /\ s \notin lost /\ row[s].exists)
    BY RestoreDoes
  <2>4. EventHasAll(s)' BY <1>1, <1>2, <1>3, <1>5, <2>3 DEF Whole, EventHasAll, KeyHasAll
  <2>. QED BY <1>4, <2>1, <2>2, <2>4 DEF Whole
<1>6. CASE redis /\ ~ row[s].exists /\ ~ key[s].exists
  <2>1. worker'[s].ctx = row[s].ctx /\ saved'[s] = {} /\ left'[s] = None BY <1>6, RestoreDoes
  <2>2. row[s].ctx = None BY <1>6, RowsAreRows DEF Forms
  <2>3. ~ Unwritten(s) BY <1>2, <1>6 DEF Whole, KeyHasAll
  <2>4. ~ Unwritten(s)' BY <1>1, <2>3, BatchFrame
  <2>5. RowWillHaveTurns(s)' /\ RowWillHaveContext(s)'
    <3>1. Rested' BY RestedHolds, PTL
    <3>. QED BY <1>1, <1>6, <2>1, <2>2, <2>4, <3>1 DEF Rested
  <2>6. EventHasAll(s)' BY <1>1, <1>2, <2>1, <2>2 DEF EventHasAll
  <2>7. KeyHasAll(s)' BY <1>1, <1>2, <1>6, <2>4 DEF KeyHasAll
  <2>. QED BY <1>4, <2>5, <2>6, <2>7 DEF Whole
<1>. QED BY <1>5, <1>6, RestoreDoes

LEMMA SaveReadKeeps ==
  ASSUME Types, Types', Forms, Forms', \A x \in Sessions : raced[x] \/ Whole(x),
         NEW s \in Sessions, NEW ign \in BOOLEAN, NEW ctx \in {None, turn[s]}, SaveRead(s, ign, ctx)
  PROVE  Kept
<1>1. /\ UNCHANGED <<turn, janitor, redis, key, batch, flight, deleting, lost>>
      /\ \A x \in Sessions \ {s} : Untouched(x)
      /\ ~ redis /\ worker[s].at = "process" /\ worker'[s].at = "write"
      /\ worker'[s].turns = worker[s].turns \cup {turn[s]} /\ worker'[s].copy = row'[s]
  BY SaveReadDoes
<1>2. ~ Unwritten(s) /\ ~ key[s].exists /\ deleting = {} /\ lost = {} BY <1>1, NoRedis
<1>3. ~ Unwritten(s)' BY <1>1, <1>2, BatchFrame
<1>4. KeyHasAll(s)' BY <1>1, <1>2, <1>3 DEF KeyHasAll
<1> SUFFICES ASSUME ~ raced'[s] PROVE Whole(s)' BY <1>1, Others
<1>5. CASE row[s].exists
  <2>1. row'[s] = row[s] /\ saved'[s] = saved[s] /\ left'[s] = left[s] /\ raced'[s] = raced[s] BY <1>5, SaveReadDoes
  <2>2. Whole(s) BY <2>1
  <2>3. saved[s] \subseteq row[s].turns /\ row[s].ctx \in {None, left[s]}
    BY <1>2, <1>5, <2>2, RestedHolds DEF Rested, Whole
  <2>4. EventHasAll(s)' BY <1>1, <1>5, <2>1, <2>2, <2>3 DEF Whole, EventHasAll
  <2>5. RowKept(s) /\ JanitorKept(s) BY <1>1, <2>1 DEF RowKept, JanitorKept, JanitorHolds
  <2>6. RowWillHaveTurns(s)' /\ RowWillHaveContext(s)' BY <1>1, <2>1, <2>2, <2>5, RowFrame DEF Whole
  <2>7. JanitorHasRow(s)' BY <1>1, <2>2, <2>5, JanitorFrame, BatchFrame DEF Whole
  <2>. QED BY <1>4, <2>4, <2>6, <2>7 DEF Whole
<1>6. CASE ~ row[s].exists
  <2>1. row'[s] = NewRow /\ saved'[s] = {} /\ left'[s] = None /\ ~ JanitorHolds(s) BY <1>6, SaveReadDoes
  <2>2. Rested' BY RestedHolds, PTL
  <2>3. RowWillHaveTurns(s)' /\ RowWillHaveContext(s)' BY <1>3, <2>1, <2>2, RowsAreRows DEF Rested
  <2>4. EventHasAll(s)' BY <1>1, <2>1, RowsAreRows DEF EventHasAll
  <2>5. JanitorHasRow(s)' BY <1>1, <2>1 DEF JanitorHasRow, JanitorHolds
  <2>. QED BY <1>4, <2>3, <2>4, <2>5 DEF Whole
<1>. QED BY <1>5, <1>6

LEMMA SaveWriteKeeps ==
  ASSUME Types, Types', Forms, Forms', \A x \in Sessions : raced[x] \/ Whole(x), NEW s \in Sessions, SaveWrite(s)
  PROVE  Kept
<1>1. /\ UNCHANGED <<turn, janitor, redis, key, batch, flight, deleting, lost>>
      /\ \A x \in Sessions \ {s} : Untouched(x)
      /\ worker[s].at = "write" /\ worker'[s].at \in {"idle", "process"}
      /\ worker'[s].at = "process" => worker'[s].turns = worker[s].turns
      /\ raced[s] => raced'[s]
  BY SaveWriteDoes
<1>2. ~ redis /\ turn[s] \in worker[s].turns BY <1>1 DEF Forms
<1>3. ~ Unwritten(s) /\ ~ key[s].exists /\ deleting = {} /\ lost = {} BY <1>2, NoRedis
<1>4. ~ Unwritten(s)' BY <1>1, <1>3, BatchFrame
<1>5. KeyHasAll(s)' BY <1>1, <1>3, <1>4 DEF KeyHasAll
<1> SUFFICES ASSUME ~ raced'[s] PROVE Whole(s)' BY <1>1, Others
<1>6. Whole(s) BY <1>1
<1>7. CASE row[s].exists
  <2>1. /\ row'[s].exists /\ row'[s].turns = worker[s].turns /\ row'[s].ctx = NewContext(worker[s])
        /\ saved'[s] = saved[s] \cup {turn[s]}
        /\ left'[s] = IF worker[s].ignoreContext THEN left[s] ELSE worker[s].ctx
        /\ ~ JanitorHolds(s)
    BY <1>7, SaveWriteDoes
  <2>2. saved'[s] \subseteq worker[s].turns BY <1>1, <1>2, <1>6, <1>7, <2>1 DEF Whole, EventHasAll
  <2>3. row'[s].ctx \in {None, left'[s]}
    BY <1>1, <1>6, <1>7, <2>1 DEF Whole, EventHasAll, NewContext
  <2>4. Rested' BY RestedHolds, PTL
  <2>5. RowWillHaveTurns(s)' /\ RowWillHaveContext(s)' BY <1>4, <2>1, <2>2, <2>3, <2>4 DEF Rested
  <2>6. EventHasAll(s)' BY <1>1, <1>2, <2>2 DEF EventHasAll
  <2>7. JanitorHasRow(s)' BY <1>1, <2>1 DEF JanitorHasRow, JanitorHolds
  <2>. QED BY <1>5, <2>5, <2>6, <2>7 DEF Whole
<1>8. CASE ~ row[s].exists
  <2>1. row'[s] = row[s] /\ saved'[s] = saved[s] /\ left'[s] = left[s] BY <1>8, SaveWriteDoes
  <2>2. RowKept(s) /\ JanitorKept(s) BY <1>1, <2>1 DEF RowKept, JanitorKept, JanitorHolds
  <2>3. RowWillHaveTurns(s)' /\ RowWillHaveContext(s)' BY <1>1, <1>6, <2>1, <2>2, RowFrame DEF Whole
  <2>4. JanitorHasRow(s)' BY <1>1, <1>6, <2>2, JanitorFrame, BatchFrame DEF Whole
  <2>5. EventHasAll(s)' BY <1>1, <1>2, <1>8, <2>1 DEF EventHasAll
  <2>. QED BY <1>5, <2>3, <2>4, <2>5 DEF Whole
<1>. QED BY <1>7, <1>8

LEMMA PersistKeeps ==
  ASSUME Types, Types', Forms, Forms', \A x \in Sessions : raced[x] \/ Whole(x), NEW s \in Sessions,
         NEW ign \in BOOLEAN, NEW ctx \in {None, turn[s], worker[s].ctx}, PersistToRedis(s, ign, ctx)
  PROVE  Kept
<1>1. /\ UNCHANGED <<row, turn, janitor, redis, flight, deleting, lost, raced>>
      /\ \A x \in Sessions \ {s} : Untouched(x)
      /\ redis /\ worker[s].at = "process" /\ worker'[s].at \in {"idle", "process"}
      /\ key'[s].exists /\ key'[s].ctx = ctx /\ key'[s].turns = worker[s].turns \cup {turn[s]}
      /\ worker'[s].at = "process" =>
           worker'[s].turns = worker[s].turns \cup {turn[s]} /\ worker'[s].ctx = worker[s].ctx
      /\ saved'[s] = saved[s] \cup {turn[s]}
      /\ left'[s] = IF ign THEN left[s] ELSE ctx
      /\ ign \/ worker'[s].at = "idle"
      /\ ign => ctx = worker[s].ctx
  BY PersistDoes
<1>2. PICK e \in Element : /\ batch' = Append(batch, e) /\ e.of = s /\ e.ctx = ctx
                           /\ e.turns = worker[s].turns \cup {turn[s]} /\ e.ignoreContext = ign
  BY PersistDoes
<1>3. batch \in Seq(Element) BY DEF Types
<1>4. \A x \in Sessions, m \in BOOLEAN : Of(e, x, m) <=> x = s /\ (m => ~ ign) BY <1>2 DEF Of
<1>5. \A x \in Sessions : \A m \in BOOLEAN : Holds(batch', x, m) <=> Holds(batch, x, m) \/ (x = s /\ (m => ~ ign))
  BY <1>2, <1>3, <1>4, AppendHolds
<1>6. \A x \in Sessions : (Locked(x)' <=> Locked(x)) /\ (Updating(x)' <=> Updating(x))
  BY <1>1 DEF Locked, Updating
<1>7. \A x \in Sessions : Unwritten(x)' <=> Unwritten(x) \/ x = s
  <2>1. \A x \in Sessions : Unwritten(x)' <=> Locked(x)' \/ Holds(batch', x, FALSE) \/ Holds(flight'.todo, x, FALSE)
    BY DEF Unwritten, Holds, Of, Range
  <2>2. \A x \in Sessions : Holds(batch', x, FALSE) <=> Holds(batch, x, FALSE) \/ x = s BY <1>5
  <2>. QED BY <1>1, <1>6, <2>1, <2>2, UnwrittenIs
<1>8. ASSUME NEW x \in Sessions, ~ raced'[x] PROVE Whole(x)'
  <2>1. Whole(x) BY <1>1, <1>8
  <2>2. RowKept(x) /\ JanitorKept(x) BY <1>1 DEF RowKept, JanitorKept, JanitorHolds
  <2>3. JanitorHasRow(x)' BY <1>1, <1>6, <2>1, <2>2, JanitorFrame DEF Whole
  <2>4. CASE x # s
    <3>1. Untouched(x) BY <1>1, <2>4
    <3>2. EventHasAll(x)' BY <1>1, <2>1, <3>1, EventFrame DEF Whole, Untouched
    <3>3. KeyHasAll(x)' BY <1>1, <1>7, <2>1, <2>4, <3>1, KeyFrame DEF Whole, Untouched
    <3>4. NewestHas(batch', x, saved[x]) /\ NewestLeaves(batch', x, left[x])
      <4>1. NewestHas(batch, x, saved[x]) /\ NewestLeaves(batch, x, left[x])
        BY <2>1 DEF Whole, RowWillHaveTurns, RowWillHaveContext
      <4>2. ~ Of(e, x, FALSE) /\ ~ Of(e, x, TRUE) BY <1>4, <2>4
      <4>. QED BY <1>2, <1>3, <4>1, <4>2, AppendHas
    <3>5. /\ Holds(batch', x, FALSE) <=> Holds(batch, x, FALSE)
          /\ Holds(batch', x, TRUE) <=> Holds(batch, x, TRUE)
      BY <1>5, <2>4
    <3>6. saved'[x] = saved[x] /\ left'[x] = left[x] BY <3>1 DEF Untouched
    <3>7. RowWillHaveTurns(x)' BY <1>1, <1>6, <2>1, <3>4, <3>5, <3>6 DEF Whole, RowWillHaveTurns
    <3>8. RowWillHaveContext(x)' BY <1>1, <1>6, <2>1, <3>4, <3>5, <3>6 DEF Whole, RowWillHaveContext
    <3>. QED BY <2>3, <3>2, <3>3, <3>7, <3>8 DEF Whole
  <2>5. CASE x = s
    <3>1. /\ saved[s] \subseteq worker[s].turns /\ worker[s].ctx \in {None, left[s]} /\ s \notin deleting
      BY <1>1, <2>1, <2>5 DEF Whole, EventHasAll
    <3>2. saved'[s] \subseteq worker[s].turns \cup {turn[s]} /\ ctx \in {None, left'[s]}
      BY <1>1, <3>1
    <3>3. EventHasAll(s)'
      <4>1. worker'[s].at = "process" => worker'[s].ctx \in {None, left'[s]}
        <5>1. CASE ign BY <1>1, <3>1, <5>1
        <5>2. CASE ~ ign BY <1>1, <5>2
        <5>. QED BY <5>1, <5>2
      <4>. QED BY <1>1, <3>1, <3>2, <4>1 DEF EventHasAll
    <3>4. KeyHasAll(s)' BY <1>1, <3>1, <3>2 DEF KeyHasAll
    <3>5. RowWillHaveTurns(s)'
      <4>1. Holds(batch', s, FALSE) BY <1>5
      <4>2. NewestHas(batch', s, saved'[s])
        <5>1. Of(e, s, FALSE) BY <1>4
        <5>2. saved'[s] \subseteq e.turns BY <1>2, <3>2
        <5>. QED BY <1>2, <1>3, <5>1, <5>2, AppendHas
      <4>. QED BY <4>1, <4>2 DEF RowWillHaveTurns
    <3>6. RowWillHaveContext(s)'
      <4>1. CASE ~ ign
        <5>1. Holds(batch', s, TRUE) BY <1>5, <4>1
        <5>2. Of(e, s, TRUE) /\ e.ctx = left'[s] BY <1>1, <1>2, <1>4, <4>1
        <5>3. NewestLeaves(batch', s, left'[s]) BY <1>2, <1>3, <5>2, AppendHas
        <5>. QED BY <5>1, <5>3 DEF RowWillHaveContext
      <4>2. CASE ign
        <5>1. Holds(batch', s, TRUE) <=> Holds(batch, s, TRUE) BY <1>5, <4>2
        <5>2. ~ Of(e, s, TRUE) BY <1>4, <4>2
        <5>3. NewestLeaves(batch, s, left[s]) BY <2>1, <2>5 DEF Whole, RowWillHaveContext
        <5>4. NewestLeaves(batch', s, left[s]) BY <1>2, <1>3, <5>2, <5>3, AppendHas
        <5>5. left'[s] = left[s] BY <1>1, <4>2
        <5>6. RowWillHaveContext(s) BY <2>1, <2>5 DEF Whole
        <5>. QED BY <1>1, <1>6, <5>1, <5>4, <5>5, <5>6 DEF RowWillHaveContext
      <4>. QED BY <4>1, <4>2
    <3>. QED BY <2>3, <2>5, <3>3, <3>4, <3>5, <3>6 DEF Whole
  <2>. QED BY <2>4, <2>5
<1>. QED BY <1>8 DEF Kept

LEMMA GiveKeeps ==
  ASSUME Types, Types', Forms, Forms', \A x \in Sessions : raced[x] \/ Whole(x), NEW s \in Sessions, Give(s)
  PROVE  Kept
<1>1. /\ UNCHANGED <<row, turn, janitor, redis, key, batch, flight, deleting, lost, saved, left, raced>>
      /\ \A x \in Sessions \ {s} : Untouched(x)
      /\ worker'[s].at = "idle"
  BY GiveDoes
<1> SUFFICES ASSUME ~ raced'[s] PROVE Whole(s)' BY <1>1, Others
<1>2. Whole(s) BY <1>1
<1>3. RowKept(s) /\ JanitorKept(s) BY <1>1 DEF RowKept, JanitorKept, JanitorHolds
<1>4. EventHasAll(s)' BY <1>1 DEF EventHasAll
<1>5. KeyHasAll(s)' BY <1>1, <1>2, BatchFrame, KeyFrame DEF Whole
<1>6. RowWillHaveTurns(s)' /\ RowWillHaveContext(s)' BY <1>1, <1>2, <1>3, RowFrame DEF Whole
<1>7. JanitorHasRow(s)' BY <1>1, <1>2, <1>3, JanitorFrame, BatchFrame DEF Whole
<1>. QED BY <1>4, <1>5, <1>6, <1>7 DEF Whole

LEMMA DeleteKeeps ==
  ASSUME Types, Types', Forms, Forms', \A x \in Sessions : raced[x] \/ Whole(x),
         NEW s \in Sessions, DeleteDialogSession(s)
  PROVE  Kept
<1>1. /\ UNCHANGED <<worker, turn, janitor, redis, key, batch, flight, lost>>
      /\ \A x \in Sessions \ {s} : Untouched(x)
      /\ row'[s] = NoRow /\ ~ Locked(s) /\ s \notin deleting /\ (raced[s] => raced'[s])
  BY DeleteDoes
<1> SUFFICES ASSUME ~ raced'[s] PROVE Whole(s)' BY <1>1, Others
<1>2. Whole(s) BY <1>1
<1>3. ~ row'[s].exists /\ row'[s].ctx = None BY <1>1, RowsAreRows
<1>4. CASE redis
  <2>1. s \in deleting' /\ saved'[s] = {} /\ left'[s] = None /\ worker[s].at = "idle" /\ ~ Unwritten(s)
    BY <1>4, DeleteDoes DEF Types, Worker
  <2>2. ~ Unwritten(s)' BY <1>1, <2>1, BatchFrame
  <2>3. Rested' BY RestedHolds, PTL
  <2>4. RowWillHaveTurns(s)' /\ RowWillHaveContext(s)' BY <1>3, <2>2, <2>3 DEF Rested
  <2>5. EventHasAll(s)' BY <1>1, <2>1 DEF EventHasAll
  <2>6. KeyHasAll(s)' BY <1>1, <1>3, <2>1, <2>2 DEF KeyHasAll
  <2>7. JanitorHasRow(s)' BY <1>3 DEF JanitorHasRow
  <2>. QED BY <2>4, <2>5, <2>6, <2>7 DEF Whole
<1>5. CASE ~ redis
  <2>1. s \notin deleting' /\ saved'[s] = saved[s] /\ left'[s] = left[s] BY <1>5, DeleteDoes
  <2>2. RowKept(s) /\ JanitorKept(s) BY <1>1, <1>3 DEF RowKept, JanitorKept, JanitorHolds
  <2>. QED BY <1>1, <1>2, <2>1, <2>2, Frame
<1>. QED BY <1>4, <1>5

LEMMA DeleteKeyKeeps ==
  ASSUME Types, Types', Forms, Forms', \A x \in Sessions : raced[x] \/ Whole(x), NEW s \in Sessions, DeleteKey(s)
  PROVE  Kept
<1>1. /\ UNCHANGED <<row, worker, turn, janitor, redis, batch, flight, lost, saved, left, raced>>
      /\ \A x \in Sessions \ {s} : Untouched(x)
      /\ s \in deleting /\ s \notin deleting' /\ ~ key'[s].exists
  BY DeleteKeyDoes, RowsAreRows
<1> SUFFICES ASSUME ~ raced'[s] PROVE Whole(s)' BY <1>1, Others
<1>2. Whole(s) BY <1>1
<1>3. worker[s].at = "idle" /\ ~ row[s].exists /\ ~ Unwritten(s) BY <1>1, <1>2 DEF Whole, KeyHasAll
<1>4. EventHasAll(s)' BY <1>1, <1>3 DEF EventHasAll
<1>5. KeyHasAll(s)' BY <1>1, <1>3, BatchFrame DEF KeyHasAll
<1>6. RowKept(s) /\ JanitorKept(s) BY <1>1 DEF RowKept, JanitorKept, JanitorHolds
<1>7. RowWillHaveTurns(s)' /\ RowWillHaveContext(s)' BY <1>1, <1>2, <1>6, RowFrame DEF Whole
<1>8. JanitorHasRow(s)' BY <1>1, <1>2, <1>6, JanitorFrame, BatchFrame DEF Whole
<1>. QED BY <1>4, <1>5, <1>7, <1>8 DEF Whole

LEMMA ExpireKeeps ==
  ASSUME Types, Types', Forms, Forms', \A x \in Sessions : raced[x] \/ Whole(x), NEW s \in Sessions, Expire(s)
  PROVE  Kept
<1>1. /\ UNCHANGED <<worker, turn, janitor, redis, batch, flight, deleting, lost, saved, left>>
      /\ \A x \in Sessions \ {s} : Untouched(x)
      /\ \/ /\ key'[s] = key[s] /\ (raced'[s] <=> raced[s])
            /\ row'[s].exists /\ row[s].exists
            /\ row'[s].ctx = row[s].ctx /\ row'[s].turns = row[s].turns
         \/ /\ row' = row /\ key[s].exists /\ key'[s] = NoKey
            /\ raced[s] \/ Unwritten(s) \/ s \in lost => raced'[s]
  BY ExpireDoes DEF Forms
<1> SUFFICES ASSUME ~ raced'[s] PROVE Whole(s)' BY <1>1, Others
<1>2. Whole(s) BY <1>1
<1>3. RowKept(s) /\ JanitorKept(s) BY <1>1 DEF RowKept, JanitorKept, JanitorHolds
<1>4. CASE key'[s] = key[s] BY <1>1, <1>2, <1>3, <1>4, Frame
<1>5. CASE row' = row /\ key'[s] = NoKey /\ ~ Unwritten(s) /\ s \notin lost
  <2>1. ~ key'[s].exists BY <1>5, RowsAreRows
  <2>2. EventHasAll(s)' BY <1>1, <1>2, <1>3, EventFrame DEF Whole, RowKept
  <2>3. KeyHasAll(s)' BY <1>1, <1>2, <1>5, <2>1, BatchFrame DEF Whole, KeyHasAll
  <2>4. RowWillHaveTurns(s)' /\ RowWillHaveContext(s)' BY <1>1, <1>2, <1>3, RowFrame DEF Whole
  <2>5. JanitorHasRow(s)' BY <1>1, <1>2, <1>3, JanitorFrame, BatchFrame DEF Whole
  <2>. QED BY <2>2, <2>3, <2>4, <2>5 DEF Whole
<1>. QED BY <1>1, <1>4, <1>5

\* What the janitor keeps of every session.
LEMMA SweepKeeps ==
  ASSUME Types, Types', Forms, Forms', \A x \in Sessions : raced[x] \/ Whole(x), Sweep
  PROVE  Kept
<1>1. UNCHANGED <<worker, redis, key, batch, flight, deleting, saved, left, lost, raced>>
  BY DEF Sweep, cached, histories
<1>2. janitor'.at = "list" BY DEF Sweep, Resting
<1>3. \A x \in Sessions : row'[x] = IF row[x].sesExpiry = "past" THEN NoRow ELSE row[x] BY DEF Sweep
<1>4. ASSUME NEW x \in Sessions, ~ raced'[x] PROVE Whole(x)'
  <2>1. RowKept(x) BY <1>3, RowsAreRows DEF RowKept
  <2>2. JanitorKept(x) BY <1>2 DEF JanitorKept, JanitorHolds
  <2>. QED BY <1>1, <1>4, <2>1, <2>2, Frame
<1>. QED BY <1>4 DEF Kept

LEMMA NoRowKeeps ==
  ASSUME Types, Types', Forms, Forms', \A x \in Sessions : raced[x] \/ Whole(x),
         UNCHANGED <<row, worker, redis, key, batch, flight, deleting, saved, left, lost, raced>>,
         janitor'.at # "write" \/ janitor' = janitor
  PROVE  Kept
<1>1. ASSUME NEW x \in Sessions, ~ raced'[x] PROVE Whole(x)'
  <2>1. RowKept(x) /\ JanitorKept(x) BY DEF RowKept, JanitorKept, JanitorHolds
  <2>. QED BY <1>1, <2>1, Frame
<1>. QED BY <1>1 DEF Kept

LEMMA RereadKeeps ==
  ASSUME Types, Types', Forms, Forms', \A x \in Sessions : raced[x] \/ Whole(x), NEW s \in Sessions, Reread(s)
  PROVE  Kept
<1>1. UNCHANGED <<row, worker, redis, key, batch, flight, deleting, saved, left, lost, raced>>
  BY DEF Reread, cached, histories
<1>2. CASE ~ row[s].exists
  <2>1. janitor'.at = "idle" BY <1>2, RestingSweeps DEF Reread
  <2>. QED BY <1>1, <2>1, NoRowKeeps
<1>3. CASE row[s].exists
  <2>1. janitor'.copy = row[s] /\ \A x \in janitor'.of : x = s
    BY <1>3 DEF Reread, Forms, Types, Sweeps
  <2>2. ASSUME NEW x \in Sessions, ~ raced'[x] PROVE Whole(x)'
    <3>1. Whole(x) BY <1>1, <2>2
    <3>2. JanitorHasRow(x)' BY <1>1, <2>1 DEF JanitorHasRow, JanitorHolds
    <3>3. RowKept(x) BY <1>1 DEF RowKept
    <3>4. EventHasAll(x)' BY <1>1, <3>1, EventFrame DEF Whole
    <3>5. KeyHasAll(x)' BY <1>1, <3>1, BatchFrame, KeyFrame DEF Whole
    <3>6. RowWillHaveTurns(x)' /\ RowWillHaveContext(x)' BY <1>1, <3>1, <3>3, RowFrame DEF Whole
    <3>. QED BY <3>2, <3>4, <3>5, <3>6 DEF Whole
  <2>. QED BY <2>2 DEF Kept
<1>. QED BY <1>2, <1>3

LEMMA ResetKeeps ==
  ASSUME Types, Types', Forms, Forms', \A x \in Sessions : raced[x] \/ Whole(x), NEW s \in Sessions, Reset(s)
  PROVE  Kept
<1>1. UNCHANGED <<worker, redis, key, batch, flight, deleting, saved, left, lost, raced>>
  BY DEF Reset, cached, histories
<1>2. JanitorHolds(s) /\ ~ Locked(s) BY DEF Reset, JanitorHolds
<1>3. janitor'.at # "write" BY RestingSweeps DEF Reset, Types, Sweeps
<1>4. \A x \in Sessions \ {s} : row'[x] = row[x] BY DEF Reset, Types
<1>5. /\ ~ row[s].exists => row'[s] = row[s]
      /\ row[s].exists => row'[s].turns = janitor.copy.turns /\ row'[s].ctx \in {janitor.copy.ctx, None}
  <2>1. CASE ~ row[s].exists BY <2>1 DEF Reset
  <2>2. CASE row[s].exists
    <3>1. row'[s] = [janitor.copy EXCEPT !.ctx = IF janitor.reset THEN None ELSE @,
                           !.ctxExpiry = "future", !.sesExpiry = "future"]
      BY <2>2 DEF Reset, Types
    <3>2. janitor.copy \in Row BY DEF Types, Sweeps
    <3>. QED BY <2>2, <3>1, <3>2 DEF Row
  <2>. QED BY <2>1, <2>2
<1>6. ASSUME NEW x \in Sessions, ~ raced'[x] PROVE Whole(x)'
  <2>1. Whole(x) BY <1>1, <1>6
  <2>2. JanitorKept(x) BY <1>3 DEF JanitorKept, JanitorHolds
  <2>3. CASE x # s \/ ~ row[s].exists \/ (~ Updating(s) /\ s \notin lost)
    <3>1. row'[x] = row[x] => RowKept(x) BY DEF RowKept
    <3>2. x = s /\ row[s].exists /\ ~ Updating(s) /\ s \notin lost => RowKept(x)
      <4> SUFFICES ASSUME x = s, row[s].exists, ~ Updating(s), s \notin lost PROVE RowKept(x) OBVIOUS
      <4>1. janitor.copy.ctx = row[s].ctx /\ janitor.copy.turns = row[s].turns
        BY <1>2, <2>1 DEF Whole, JanitorHasRow
      <4>. QED BY <1>5, <4>1 DEF RowKept
    <3>3. RowKept(x) BY <1>4, <1>5, <2>3, <3>1, <3>2
    <3>. QED BY <1>1, <2>1, <2>2, <3>3, Frame
  <2>4. CASE x = s /\ row[s].exists /\ (Updating(s) \/ s \in lost)
    <3>1. EventHasAll(s)' BY <1>1, <2>1, <2>4, EventFrame DEF Whole
    <3>2. KeyHasAll(s)' BY <1>1, <2>1, <2>4, BatchFrame, KeyFrame DEF Whole
    <3>3. JanitorHasRow(s)' BY <1>3 DEF JanitorHasRow, JanitorHolds
    <3>4. (Locked(s)' <=> Locked(s)) /\ (Updating(s)' <=> Updating(s)) BY <1>1, BatchFrame
    <3>5. Updating(s) => Holds(flight.todo, s, FALSE) BY UpdatingIsUnwritten
    <3>6. RowWillHaveTurns(s)' BY <1>1, <2>1, <2>4, <3>4, <3>5 DEF Whole, RowWillHaveTurns
    <3>7. RowWillHaveContext(s)' BY <1>1, <1>2, <2>1, <2>4, <3>4 DEF Whole, RowWillHaveContext
    <3>. QED BY <2>4, <3>1, <3>2, <3>3, <3>6, <3>7 DEF Whole
  <2>. QED BY <2>3, <2>4
<1>. QED BY <1>6 DEF Kept

\* What the transaction keeps of every session.
LEMMA RunTaskKeeps ==
  ASSUME Types, Types', Forms, Forms', \A x \in Sessions : raced[x] \/ Whole(x), RunTask
  PROVE  Kept
<1>1. /\ UNCHANGED <<row, worker, turn, janitor, redis, key, deleting, saved, left, lost, raced>>
      /\ flight.at = "idle" /\ flight'.at = "read"
      /\ flight'.writes = [s \in Sessions |-> NoRow]
  BY RunTaskDoes
<1>2. PICK n \in 0..Len(batch) : /\ flight'.todo = SubSeq(batch, 1, n)
                                 /\ batch' = SubSeq(batch, n + 1, Len(batch))
  BY RunTaskDoes
<1>3. batch \in Seq(Element) BY DEF Types
<1>4. flight = NoFlight /\ flight.todo = <<>> BY <1>1, NoFlightIsFlight DEF Forms
<1>5. \A x \in Sessions : ~ Locked(x) /\ ~ Updating(x) /\ ~ Locked(x)' /\ ~ Updating(x)'
  BY <1>1, <1>4, NoFlightIsFlight, RowsAreRows DEF Locked, Updating
<1>6. \A x, m : ~ Holds(flight.todo, x, m) BY <1>4, NoneInEmpty
<1>7. \A x, m : Holds(batch, x, m) <=> Holds(flight'.todo, x, m) \/ Holds(batch', x, m)
  BY <1>2, <1>3, CutHolds
<1>8. \A x \in Sessions : Unwritten(x)' <=> Unwritten(x)
  <2>1. \A x \in Sessions : Unwritten(x)' <=> Locked(x)' \/ Holds(batch', x, FALSE) \/ Holds(flight'.todo, x, FALSE)
    BY DEF Unwritten, Holds, Of, Range
  <2>. QED BY <1>5, <1>6, <1>7, <2>1, UnwrittenIs
<1>9. ASSUME NEW x \in Sessions, ~ raced'[x] PROVE Whole(x)'
  <2>1. Whole(x) BY <1>1, <1>9
  <2>2. EventHasAll(x)' BY <1>1, <2>1, EventFrame DEF Whole
  <2>3. KeyHasAll(x)' BY <1>1, <1>8, <2>1, KeyFrame DEF Whole
  <2>4. JanitorHasRow(x)' BY <1>1, <1>5, <2>1 DEF Whole, JanitorHasRow, JanitorHolds
  <2>5. /\ NewestHas(batch', x, saved[x])
        /\ ~ Holds(batch', x, FALSE) => NewestHas(flight'.todo, x, saved[x])
    BY <1>2, <1>3, <2>1, CutHas DEF Whole, RowWillHaveTurns
  <2>6. /\ NewestLeaves(batch', x, left[x])
        /\ ~ Holds(batch', x, TRUE) => NewestLeaves(flight'.todo, x, left[x])
    BY <1>2, <1>3, <2>1, CutHas DEF Whole, RowWillHaveContext
  <2>7. RowWillHaveTurns(x)' BY <1>1, <1>5, <1>6, <1>7, <2>1, <2>5 DEF Whole, RowWillHaveTurns
  <2>8. RowWillHaveContext(x)' BY <1>1, <1>5, <1>6, <1>7, <2>1, <2>6 DEF Whole, RowWillHaveContext
  <2>. QED BY <2>2, <2>3, <2>4, <2>7, <2>8 DEF Whole
<1>. QED BY <1>9 DEF Kept

LEMMA FlushReadKeeps ==
  ASSUME Types, Types', Forms, Forms', \A x \in Sessions : raced[x] \/ Whole(x), FlushRead
  PROVE  Kept
<1>1. /\ UNCHANGED <<worker, turn, janitor, redis, key, batch, deleting, saved, left, lost, raced>>
      /\ flight.at = "read" /\ flight'.at = "update"
      /\ flight'.todo = flight.todo /\ flight'.writes = flight.writes /\ redis
  BY FlushReadDoes
<1>2. PICK s \in Sessions :
        /\ flight.todo[1].of = s /\ Holds(flight.todo, s, FALSE)
        /\ \A x \in Sessions \ {s} : row'[x] = row[x]
        /\ row'[s] = (IF row[s].exists THEN row[s] ELSE NewRow)
        /\ flight'.copy = row'[s]
  BY FlushReadDoes
<1>3. \A x \in Sessions : /\ Locked(x)' <=> Locked(x)
                          /\ Unwritten(x)' <=> Unwritten(x)
                          /\ ~ Updating(x)
                          /\ Updating(x)' <=> x = s
  BY <1>1, <1>2 DEF Locked, Unwritten, Updating
<1>4. ASSUME NEW x \in Sessions, ~ raced'[x] PROVE Whole(x)'
  <2>1. Whole(x) BY <1>1, <1>4
  <2>2. CASE x # s
    <3>1. row'[x] = row[x] BY <1>2, <2>2
    <3>2. EventHasAll(x)' BY <1>1, <2>1, <3>1, EventFrame DEF Whole
    <3>3. KeyHasAll(x)' BY <1>1, <1>3, <2>1, <3>1, KeyFrame DEF Whole
    <3>4. JanitorHasRow(x)' BY <1>1, <1>3, <2>1, <2>2, <3>1 DEF Whole, JanitorHasRow, JanitorHolds
    <3>5. RowWillHaveTurns(x)' BY <1>1, <1>3, <2>1, <3>1 DEF Whole, RowWillHaveTurns
    <3>6. RowWillHaveContext(x)' BY <1>1, <1>3, <2>1, <2>2, <3>1 DEF Whole, RowWillHaveContext
    <3>. QED BY <3>2, <3>3, <3>4, <3>5, <3>6 DEF Whole
  <2>3. CASE x = s
    <3>1. Unwritten(s) BY <1>2, UnwrittenIs
    <3>2. key[s].exists /\ s \notin deleting BY <2>1, <2>3, <3>1 DEF Whole, KeyHasAll
    <3>3. EventHasAll(s)' BY <1>1, <2>1, <2>3 DEF Whole, EventHasAll
    <3>4. KeyHasAll(s)' BY <1>1, <1>3, <2>1, <2>3, <3>2 DEF Whole, KeyHasAll
    <3>5. JanitorHasRow(s)' BY <1>3 DEF JanitorHasRow
    <3>6. RowWillHaveTurns(s)' BY <1>1, <1>2, <2>1, <2>3 DEF Whole, RowWillHaveTurns
    <3>7. row'[s].ctx \in {row[s].ctx, None} BY <1>2, RowsAreRows
    <3>8. RowWillHaveContext(s)' BY <1>1, <1>2, <1>3, <2>1, <2>3, <3>7 DEF Whole, RowWillHaveContext
    <3>. QED BY <2>3, <3>3, <3>4, <3>5, <3>6, <3>8 DEF Whole
  <2>. QED BY <2>2, <2>3
<1>. QED BY <1>4 DEF Kept

LEMMA FlushUpdateKeeps ==
  ASSUME Types, Types', Forms, Forms', \A x \in Sessions : raced[x] \/ Whole(x), FlushUpdate
  PROVE  Kept
<1>1. /\ UNCHANGED <<row, worker, turn, janitor, redis, key, batch, deleting, saved, left, lost>>
      /\ flight.at = "update" /\ flight.todo # <<>> /\ flight'.at = "read"
      /\ flight'.todo = Tail(flight.todo)
  BY FlushUpdateDoes
<1>2. PICK e \in Element :
        /\ e = Head(flight.todo) /\ e = flight.todo[1]
        /\ \A x \in Sessions : x = e.of \/ (flight'.writes[x] = flight.writes[x] /\ (raced'[x] <=> raced[x]))
        /\ raced[e.of] => raced'[e.of]
        /\ IF row[e.of].exists
           THEN /\ flight'.writes[e.of].exists /\ flight'.writes[e.of].turns = e.turns
                /\ flight'.writes[e.of].ctx = IF e.ignoreContext THEN flight.copy.ctx ELSE e.ctx
           ELSE flight'.writes[e.of] = flight.writes[e.of]
        /\ Locked(e.of) /\ row[e.of].exists /\ e.ignoreContext /\ flight.writes[e.of].ctx # flight.copy.ctx
             => raced'[e.of]
  BY FlushUpdateDoes
<1>3. flight.todo \in Seq(Element) BY FlightFields DEF Types
<1>4. \A x, m : Holds(flight.todo, x, m) <=> Of(e, x, m) \/ Holds(flight'.todo, x, m)
  BY <1>1, <1>2, <1>3, TailHolds
<1>5. \A x \in Sessions : Updating(x) <=> x = e.of BY <1>1, <1>2 DEF Updating
<1>6. \A x \in Sessions : ~ Updating(x)' BY <1>1 DEF Updating
<1>7. e.of \in Sessions /\ e.ignoreContext \in BOOLEAN BY DEF Element
<1>8. \A x \in Sessions : x # e.of => (Locked(x)' <=> Locked(x)) BY <1>2 DEF Locked
<1>9. \A x \in Sessions : Unwritten(x)' => Unwritten(x)
  <2>1. \A x \in Sessions : Unwritten(x)' <=> Locked(x)' \/ Holds(batch', x, FALSE) \/ Holds(flight'.todo, x, FALSE)
    BY DEF Unwritten, Holds, Of, Range
  <2>2. Holds(flight.todo, e.of, FALSE) BY <1>4 DEF Of
  <2>. QED BY <1>1, <1>4, <1>8, <2>1, <2>2, UnwrittenIs
<1>10. ASSUME NEW x
       PROVE  /\ \A S : NewestHas(flight.todo, x, S) =>
                   /\ NewestHas(flight'.todo, x, S)
                   /\ ~ Holds(flight'.todo, x, FALSE) /\ Of(e, x, FALSE) => S \subseteq e.turns
              /\ \A c : NewestLeaves(flight.todo, x, c) =>
                   /\ NewestLeaves(flight'.todo, x, c)
                   /\ ~ Holds(flight'.todo, x, TRUE) /\ Of(e, x, TRUE) => e.ctx = c
  <2>1. e = Head(flight.todo) /\ flight'.todo = Tail(flight.todo) BY <1>1, <1>2
  <2>. QED BY ONLY <1>1, <1>3, <2>1, TailHas
<1>11. ASSUME NEW x \in Sessions, ~ raced'[x] PROVE Whole(x)'
  <2>1. Whole(x) BY <1>2, <1>11
  <2>2. EventHasAll(x)' BY <1>1, <2>1, EventFrame DEF Whole
  <2>3. KeyHasAll(x)' BY <1>1, <1>9, <2>1, KeyFrame DEF Whole
  <2>4. ~ Holds(batch, x, FALSE) =>
          /\ NewestHas(flight'.todo, x, saved[x])
          /\ ~ Holds(flight'.todo, x, FALSE) /\ Of(e, x, FALSE) => saved[x] \subseteq e.turns
    <3>1. ~ Holds(batch, x, FALSE) => NewestHas(flight.todo, x, saved[x]) BY <2>1 DEF Whole, RowWillHaveTurns
    <3>. QED BY <1>10, <3>1
  <2>5. ~ Holds(batch, x, TRUE) =>
          /\ NewestLeaves(flight'.todo, x, left[x])
          /\ ~ Holds(flight'.todo, x, TRUE) /\ Of(e, x, TRUE) => e.ctx = left[x]
    <3>1. ~ Holds(batch, x, TRUE) => NewestLeaves(flight.todo, x, left[x]) BY <2>1 DEF Whole, RowWillHaveContext
    <3>. QED BY <1>10, <3>1
  <2>6. CASE x # e.of
    <3>1. ~ Of(e, x, FALSE) /\ ~ Of(e, x, TRUE) BY <2>6 DEF Of
    <3>2. (Locked(x)' <=> Locked(x)) /\ flight'.writes[x] = flight.writes[x] /\ ~ Updating(x) /\ ~ Updating(x)'
      BY <1>2, <1>5, <1>6, <1>8, <2>6
    <3>3. JanitorHasRow(x)' BY <1>1, <2>1, <3>2 DEF Whole, JanitorHasRow, JanitorHolds
    <3>4. RowWillHaveTurns(x)' BY <1>1, <1>4, <2>1, <2>4, <3>1, <3>2 DEF Whole, RowWillHaveTurns
    <3>5. RowWillHaveContext(x)' BY <1>1, <1>4, <2>1, <2>5, <3>1, <3>2 DEF Whole, RowWillHaveContext
    <3>. QED BY <2>2, <2>3, <3>3, <3>4, <3>5 DEF Whole
  <2>7. CASE x = e.of /\ row[x].exists
    <3>1. /\ Locked(x)' /\ flight'.writes[x].turns = e.turns
          /\ flight'.writes[x].ctx = IF e.ignoreContext THEN flight.copy.ctx ELSE e.ctx
          /\ Locked(x) /\ e.ignoreContext => flight.writes[x].ctx = flight.copy.ctx
      BY <1>2, <1>11, <2>7 DEF Locked
    <3>2. Of(e, x, FALSE) /\ (Of(e, x, TRUE) <=> ~ e.ignoreContext) BY <2>7 DEF Of
    <3>3. JanitorHasRow(x)' BY <3>1 DEF JanitorHasRow
    <3>4. RowWillHaveTurns(x)' BY <1>1, <2>1, <2>4, <3>1, <3>2 DEF Whole, RowWillHaveTurns
    <3>5. ~ Holds(batch, x, TRUE) /\ ~ Holds(flight'.todo, x, TRUE) /\ x \notin lost =>
            flight'.writes[x].ctx \in {None, left[x]}
      <4>1. CASE ~ e.ignoreContext BY <2>5, <3>1, <3>2, <4>1
      <4>2. CASE e.ignoreContext
        <5>1. Holds(flight.todo, x, TRUE) <=> Holds(flight'.todo, x, TRUE) BY <1>4, <3>2, <4>2
        <5>2. Updating(x) BY <1>5, <2>7
        <5>. QED BY <2>1, <3>1, <4>2, <5>1, <5>2 DEF Whole, RowWillHaveContext
      <4>. QED BY <1>7, <4>1, <4>2
    <3>6. NewestLeaves(batch, x, left[x]) BY <2>1 DEF Whole, RowWillHaveContext
    <3>7. RowWillHaveContext(x)' BY <1>1, <2>5, <3>1, <3>5, <3>6 DEF RowWillHaveContext
    <3>. QED BY <2>2, <2>3, <3>3, <3>4, <3>7 DEF Whole
  <2>8. CASE x = e.of /\ ~ row[x].exists
    <3>1. ~ Locked(x) BY <2>8 DEF Forms
    <3>2. ~ Locked(x)' BY <1>2, <2>8, <3>1 DEF Locked
    <3>3. row[x].ctx = None BY <2>8, RowsAreRows DEF Forms
    <3>4. JanitorHasRow(x)' BY <1>1, <2>8 DEF JanitorHasRow
    <3>5. NewestHas(batch, x, saved[x]) /\ NewestLeaves(batch, x, left[x])
      BY <2>1 DEF Whole, RowWillHaveTurns, RowWillHaveContext
    <3>6. RowWillHaveTurns(x)' BY <1>1, <2>4, <2>8, <3>2, <3>5 DEF RowWillHaveTurns
    <3>7. RowWillHaveContext(x)' BY <1>1, <1>6, <2>5, <3>2, <3>3, <3>5 DEF RowWillHaveContext
    <3>. QED BY <2>2, <2>3, <3>4, <3>6, <3>7 DEF Whole
  <2>. QED BY <2>6, <2>7, <2>8
<1>. QED BY <1>11 DEF Kept

\* Nothing is left in the transaction.
LEMMA Landed ==
  ASSUME Types, flight' = NoFlight, batch' = batch, NEW x \in Sessions
  PROVE  /\ ~ Locked(x)' /\ ~ Updating(x)' /\ (\A m : ~ Holds(flight'.todo, x, m))
         /\ Unwritten(x)' => Unwritten(x)
<1>1. ~ Locked(x)' /\ ~ Updating(x)' BY NoFlightIsFlight, RowsAreRows DEF Locked, Updating
<1>2. \A m : ~ Holds(flight'.todo, x, m) BY NoFlightIsFlight, NoneInEmpty
<1>3. Unwritten(x)' <=> Locked(x)' \/ Holds(batch', x, FALSE) \/ Holds(flight'.todo, x, FALSE)
  BY DEF Unwritten, Holds, Of, Range
<1>. QED BY <1>1, <1>2, <1>3, UnwrittenIs

LEMMA CommitKeeps ==
  ASSUME Types, Types', Forms, Forms', \A x \in Sessions : raced[x] \/ Whole(x), Commit
  PROVE  Kept
<1>1. /\ UNCHANGED <<worker, turn, janitor, redis, key, batch, deleting, saved, left, lost>>
      /\ flight.at = "read" /\ flight.todo = <<>> /\ flight' = NoFlight
      /\ \A x \in Sessions : row'[x] = IF Locked(x) THEN flight.writes[x] ELSE row[x]
      /\ \A x \in Sessions : raced'[x] <=> raced[x] \/ (Locked(x) /\ JanitorHolds(x))
  BY CommitDoes
<1>2. ASSUME NEW x \in Sessions, ~ raced'[x] PROVE Whole(x)'
  <2>1. Whole(x) /\ (Locked(x) => ~ JanitorHolds(x)) BY <1>1, <1>2
  <2>2. row'[x].exists => row[x].exists BY <1>1 DEF Forms
  <2>3. /\ ~ Locked(x)' /\ ~ Updating(x)' /\ ~ Updating(x)
        /\ \A m : ~ Holds(flight'.todo, x, m) /\ ~ Holds(flight.todo, x, m)
        /\ Unwritten(x)' => Unwritten(x)
    BY <1>1, Landed, NoneInEmpty DEF Updating
  <2>4. NewestHas(flight'.todo, x, saved[x]) /\ NewestLeaves(flight'.todo, x, left[x])
    BY <2>3, NotHeld
  <2>5. EventHasAll(x)' BY <1>1, <2>1, <2>2, EventFrame DEF Whole
  <2>6. KeyHasAll(x)' BY <1>1, <2>1, <2>2, <2>3, KeyFrame DEF Whole
  <2>7. JanitorHasRow(x)' BY <1>1, <2>1, <2>3 DEF Whole, JanitorHasRow, JanitorHolds
  <2>8. RowWillHaveTurns(x)' BY <1>1, <2>1, <2>3, <2>4 DEF Whole, RowWillHaveTurns
  <2>9. RowWillHaveContext(x)' BY <1>1, <2>1, <2>3, <2>4 DEF Whole, RowWillHaveContext
  <2>. QED BY <2>5, <2>6, <2>7, <2>8, <2>9 DEF Whole
<1>. QED BY <1>2 DEF Kept

LEMMA AbortKeeps ==
  ASSUME Types, Types', Forms, Forms', \A x \in Sessions : raced[x] \/ Whole(x), Abort
  PROVE  Kept
<1>1. /\ UNCHANGED <<row, worker, turn, janitor, redis, key, batch, deleting, saved, left, raced>>
      /\ flight' = NoFlight /\ lost' = lost \cup {s \in Sessions : InFlight(s)}
  BY DEF Abort
<1>2. ASSUME NEW x \in Sessions, ~ raced'[x] PROVE Whole(x)'
  <2>1. Whole(x) BY <1>1, <1>2
  <2>2. /\ ~ Locked(x)' /\ ~ Updating(x)'
        /\ \A m : ~ Holds(flight'.todo, x, m)
        /\ Unwritten(x)' => Unwritten(x)
    BY <1>1, Landed
  <2>3. x \in lost' <=> x \in lost \/ Locked(x) \/ Holds(flight.todo, x, FALSE) BY <1>1, UnwrittenIs
  <2>4. x \notin lost' => ~ Updating(x) /\ ~ Holds(flight.todo, x, TRUE)
    BY <2>3, UpdatingIsUnwritten, MovesAreElements
  <2>5. NewestHas(flight'.todo, x, saved[x]) /\ NewestLeaves(flight'.todo, x, left[x])
    BY <2>2, NotHeld
  <2>6. EventHasAll(x)' BY <1>1, <2>1, EventFrame DEF Whole
  <2>7. KeyHasAll(x)'
    <3>1. x \in lost' => x \in lost \/ Unwritten(x) BY <2>3, UnwrittenIs
    <3>. QED BY <1>1, <2>1, <2>2, <3>1 DEF Whole, KeyHasAll
  <2>8. JanitorHasRow(x)' BY <1>1, <2>1, <2>3, <2>4 DEF Whole, JanitorHasRow, JanitorHolds
  <2>9. RowWillHaveTurns(x)' BY <1>1, <2>1, <2>2, <2>3, <2>5 DEF Whole, RowWillHaveTurns
  <2>10. RowWillHaveContext(x)' BY <1>1, <2>1, <2>2, <2>3, <2>4, <2>5 DEF Whole, RowWillHaveContext
  <2>. QED BY <2>6, <2>7, <2>8, <2>9, <2>10 DEF Whole
<1>. QED BY <1>2 DEF Kept

LEMMA CrashKeeps ==
  ASSUME Types, Types', Forms, Forms', \A x \in Sessions : raced[x] \/ Whole(x), Crash
  PROVE  Kept
<1>1. /\ UNCHANGED <<row, turn, redis, key, saved, left>>
      /\ \A x \in Sessions : worker'[x].at = "idle"
      /\ janitor'.at = "idle" /\ batch' = <<>> /\ flight' = NoFlight /\ deleting' = {}
      /\ \A x \in Sessions : x \in lost' <=> x \in lost \/ Unwritten(x)
      /\ \A x \in Sessions : raced'[x] <=> raced[x] \/ x \in deleting
  BY CrashDoes, RestingSweeps
<1>2. Rested /\ Rested' BY RestedHolds, PTL
<1>3. ASSUME NEW x \in Sessions, ~ raced'[x] PROVE Whole(x)'
  <2>1. Whole(x) /\ x \notin deleting BY <1>1, <1>3
  <2>2. ~ Unwritten(x)'
    <3>1. ~ Locked(x)' BY <1>1, NoFlightIsFlight, RowsAreRows DEF Locked
    <3>2. ~ Holds(batch', x, FALSE) /\ ~ Holds(flight'.todo, x, FALSE) BY <1>1, NoFlightIsFlight, NoneInEmpty
    <3>3. Unwritten(x)' <=> Locked(x)' \/ Holds(batch', x, FALSE) \/ Holds(flight'.todo, x, FALSE)
      BY DEF Unwritten, Holds, Of, Range
    <3>. QED BY <3>1, <3>2, <3>3
  <2>3. EventHasAll(x)' BY <1>1 DEF EventHasAll
  <2>4. KeyHasAll(x)' BY <1>1, <2>1, <2>2 DEF Whole, KeyHasAll
  <2>5. JanitorHasRow(x)' BY <1>1 DEF JanitorHasRow, JanitorHolds
  <2>6. x \notin lost' => x \notin lost /\ ~ Unwritten(x) BY <1>1
  <2>7. RowWillHaveTurns(x)' /\ RowWillHaveContext(x)'
    BY <1>1, <1>2, <2>1, <2>2, <2>6 DEF Rested, Whole
  <2>. QED BY <2>3, <2>4, <2>5, <2>7 DEF Whole
<1>. QED BY <1>3 DEF Kept

LEMMA StepKeeps ==
  SessionTypeOK /\ SessionTypeOK' /\ Forms /\ Forms' /\ (\A x \in Sessions : raced[x] \/ Whole(x)) /\ [SessionNext]_sessionVars => Kept
<1> SUFFICES ASSUME Types, Types', Forms, Forms', \A x \in Sessions : raced[x] \/ Whole(x), [SessionNext]_sessionVars PROVE Kept
  BY TypesAre, PTL
<1>1. ASSUME NEW s \in Sessions, Event(s) PROVE Kept
  BY <1>1, RestoreKeeps, SaveReadKeeps, SaveWriteKeeps, PersistKeeps, GiveKeeps DEF Event
<1>2. ASSUME NEW s \in Sessions, DeleteDialogSession(s) \/ DeleteKey(s) \/ Expire(s) PROVE Kept
  BY <1>2, DeleteKeeps, DeleteKeyKeeps, ExpireKeeps
<1>3. CASE Sweep BY <1>3, SweepKeeps
<1>4. CASE JanitorStep
  <2>1. CASE List
    <3>1. janitor'.at # "write" BY <2>1, RestingSweeps DEF List, Types, Sweeps
    <3>. QED BY <2>1, <3>1, NoRowKeeps DEF List, cached, histories
  <2>2. ASSUME NEW s \in Sessions, Timeout(s) PROVE Kept
    <3>1. janitor'.at # "write" BY <2>2 DEF Timeout
    <3>. QED BY <2>2, <3>1, NoRowKeeps DEF Timeout, cached, histories
  <2>. QED BY <1>4, <2>1, <2>2, RereadKeeps, ResetKeeps DEF JanitorStep
<1>5. CASE RunTask BY <1>5, RunTaskKeeps
<1>6. CASE FlushStep BY <1>6, FlushReadKeeps, FlushUpdateKeeps, CommitKeeps DEF FlushStep
<1>7. CASE Abort BY <1>7, AbortKeeps
<1>8. CASE Crash BY <1>8, CrashKeeps
<1>9. CASE UNCHANGED sessionVars BY <1>9, NoRowKeeps DEF sessionVars, cached, histories
<1>. QED BY <1>1, <1>2, <1>3, <1>4, <1>5, <1>6, <1>7, <1>8, <1>9 DEF SessionNext

-----------------------------------------------------------------------------
(* The theorems. *)

\* A session that has not raced is whole in every reachable state.
THEOREM SessionInvHolds == SessionSpec => []SessionInv
<1>1. SessionInit => SessionInv BY TypesInit, FormsInit, WholeInit DEF SessionInv
<1>2. SessionInv /\ [SessionNext]_sessionVars => SessionInv'
  BY TypesStep, FormsStep, StepKeeps DEF SessionInv, Kept
<1>. QED BY <1>1, <1>2, PTL DEF SessionSpec

LEMMA SessionInvKeeps ==
  ASSUME SessionInv, NEW s \in Sessions, ~ raced[s], s \notin deleting
  PROVE  /\ Session(s).exists => saved[s] \subseteq Session(s).turns
         /\ row[s].exists /\ ~ Unwritten(s) /\ s \notin lost => saved[s] \subseteq row[s].turns
         /\ Session(s).ctx \in {None, left[s]}
<1>1. Types /\ Forms /\ Whole(s) BY TypesAre DEF SessionInv
<1>2. ~ Unwritten(s) /\ s \notin lost =>
        (row[s].exists => saved[s] \subseteq row[s].turns) /\ row[s].ctx \in {None, left[s]}
  BY <1>1, RestedHolds DEF Rested, Whole
<1>3. ~ row[s].exists => row[s].ctx = None BY <1>1, RowsAreRows DEF Forms
<1>4. CASE key[s].exists BY <1>1, <1>2, <1>4 DEF Session, Whole, KeyHasAll
<1>5. CASE ~ key[s].exists
  <2>1. ~ Unwritten(s) /\ (s \in lost => ~ row[s].exists) BY <1>1, <1>5 DEF Whole, KeyHasAll
  <2>. QED BY <1>2, <1>3, <1>5, <2>1 DEF Session
<1>. QED BY <1>4, <1>5

\* The types, and a conversation never finds a context that it had left.
THEOREM RowsHold == SessionSpec => []RowsInv
<1>1. SessionInv => RowsInv
  BY SessionInvKeeps DEF SessionInv, RowsInv, ContextNeverOld
<1>. QED BY <1>1, SessionInvHolds, PTL

\* A turn that was persisted stays in the session, and reaches the row.
THEOREM TurnsKeptHolds == SessionSpec => []TurnsKept
<1>1. SessionInv => TurnsKept
  BY SessionInvKeeps DEF SessionInv, TurnsKept
<1>. QED BY <1>1, SessionInvHolds, PTL
=============================================================================
