------------------------ MODULE EventCollectorProofs ------------------------
(* Theorems about EventCollector, for any events, batch size, number of      *)
(* retries and database.                                                     *)
EXTENDS EventCollector, SequenceTheorems, FiniteSetTheorems, WellFoundedInduction, TLAPS

-----------------------------------------------------------------------------
(* Entries and sequences of entries. *)

LEMMA EntryFields ==
  ASSUME NEW e \in Entry
  PROVE  e.id \in Ids /\ e.ver \in 1..MaxVersion /\ e.retry \in 0..(MaxRetryAttempts - 1)
BY DEF Entry

LEMMA SeqOfEntries ==
  ASSUME NEW s \in Seq(Entry)
  PROVE  /\ Len(s) \in Nat /\ DOMAIN s = 1..Len(s)
         /\ \A k \in DOMAIN s : /\ s[k] \in Entry /\ s[k].id \in Ids
                                /\ s[k].ver \in 1..MaxVersion /\ s[k].ver \in Nat
                                /\ s[k].retry \in 0..(MaxRetryAttempts - 1)
<1>1. Len(s) \in Nat /\ DOMAIN s = 1..Len(s) /\ \A k \in DOMAIN s : s[k] \in Entry
  BY LenProperties, ElementOfSeq
<1>. QED BY <1>1, EntryFields, CollectorAssumption DEF CollectorAssumption

LEMMA SeqMade ==
  ASSUME NEW S, NEW n \in Nat, NEW s \in [1..n -> S]
  PROVE  s \in Seq(S) /\ Len(s) = n
OBVIOUS

\* What TypeOK says of the entries.
LEMMA Types ==
  ASSUME TypeOK
  PROVE  /\ batch \in Seq(Entry) /\ Len(batch) \in Nat /\ DOMAIN batch = 1..Len(batch)
         /\ \A k \in DOMAIN batch : /\ batch[k] \in Entry /\ batch[k].id \in Ids
                                    /\ batch[k].ver \in 1..MaxVersion /\ batch[k].ver \in Nat
         /\ \A f \in flights : /\ f.entries \in Seq(Entry)
                               /\ \A k \in DOMAIN f.entries :
                                    /\ f.entries[k] \in Entry /\ f.entries[k].id \in Ids
                                    /\ f.entries[k].ver \in 1..MaxVersion /\ f.entries[k].ver \in Nat
                                    /\ f.entries[k].retry \in 0..(MaxRetryAttempts - 1)
         /\ \A id \in Ids : rows[id] \in 0..MaxVersion /\ stored[id] \in 0..MaxVersion
         /\ \A id \in Ids, v \in 1..MaxVersion : tries[id][v] \in 0..MaxRetryAttempts
         /\ MaxVersion \in Nat /\ MaxRetryAttempts \in Nat \ {0} /\ BatchSize \in Nat \ {0}
<1>1. batch \in Seq(Entry) /\ \A f \in flights : f.entries \in Seq(Entry)
  BY DEF TypeOK
<1>. QED BY <1>1, SeqOfEntries, CollectorAssumption DEF TypeOK, CollectorAssumption

\* Of the positions of a sequence that are in a set the last one.
LEMMA LastPosition ==
  ASSUME NEW n \in Nat, NEW ks \in SUBSET (1..n), ks # {}
  PROVE  \E k \in ks : \A i \in ks : i <= k
<1> DEFINE left == {n - k : k \in ks}
<1>1. left \subseteq Nat /\ left # {}
  OBVIOUS
<1>2. PICK m \in left : \A y \in left : <<y, m>> \notin OpToRel(<, Nat)
  BY <1>1, NatLessThanWellFounded, WFMin
<1>3. PICK k \in ks : m = n - k
  BY <1>2
<1>4. ASSUME NEW i \in ks PROVE i <= k
  <2>1. <<n - i, m>> \notin OpToRel(<, Nat) /\ n - i \in Nat /\ m \in Nat
    BY <1>1, <1>2
  <2>2. ~ (n - i < m)
    BY <2>1 DEF OpToRel
  <2>. QED BY <1>3, <2>2
<1>. QED BY <1>4

-----------------------------------------------------------------------------
(* The steps that touch no entry. *)

LEMMA KeepsInv ==
  ASSUME CollectInv, {started', busy'} \subseteq BOOLEAN,
         UNCHANGED <<database, batch, busy, flights, rows, histories>>
  PROVE  CollectInv'
<1>1. UNCHANGED <<stored, tries, dropped, pruned, requeued>>
  BY DEF histories
<1>2. TypeOK'
  BY <1>1 DEF CollectInv, TypeOK
<1>3. OneFlight'
  BY DEF CollectInv, OneFlight
<1>4. EntriesCounted'
  BY <1>1 DEF CollectInv, EntriesCounted, Counted, NoneTwice, Apart
<1>5. InTurn'
  BY <1>1 DEF CollectInv, InTurn
<1>6. GivenUpInTime' /\ LastVersionKept'
  BY <1>1 DEF CollectInv, GivenUpInTime, LastVersionKept, Pending, Holds
<1>. QED BY <1>2, <1>3, <1>4, <1>5, <1>6 DEF CollectInv

-----------------------------------------------------------------------------
(* storeEvent. *)

\* The new version has a position p in the batch; nothing else moves, and what
\* it replaces is of the same event.
LEMMA Stores ==
  ASSUME TypeOK, NEW id \in Ids, StoreEvent(id),
         NEW entry \in Entry, entry = [id |-> id, ver |-> stored[id] + 1, retry |-> 0]
  PROVE  /\ batch' \in Seq(Entry)
         /\ \E p \in DOMAIN batch' :
              /\ batch'[p] = entry
              /\ \A k \in DOMAIN batch' \ {p} : k \in DOMAIN batch /\ batch'[k] = batch[k]
              /\ \A k \in DOMAIN batch \ {p} : k \in DOMAIN batch' /\ batch'[k] = batch[k]
              /\ p \in DOMAIN batch => batch[p].id = id
              /\ p \in DOMAIN batch \/ \A k \in DOMAIN batch : batch[k].id # id
<1>1. batch \in Seq(Entry) /\ Len(batch) \in Nat /\ DOMAIN batch = 1..Len(batch)
  BY Types
<1>2. CASE (\A k \in DOMAIN batch : batch[k].id # id) /\ batch' = Append(batch, entry)
  <2>1. /\ batch' \in Seq(Entry) /\ Len(batch') = Len(batch) + 1
        /\ \A i \in 1..Len(batch) : batch'[i] = batch[i]
        /\ batch'[Len(batch) + 1] = entry
    BY <1>1, <1>2, AppendProperties
  <2>2. DOMAIN batch' = 1..(Len(batch) + 1)
    BY <2>1, LenProperties
  <2>. QED BY <1>1, <1>2, <2>1, <2>2
<1>3. CASE \E k \in DOMAIN batch : batch[k].id = id /\ batch' = ReplaceAt(batch, k, entry)
  <2>1. PICK p \in DOMAIN batch : batch[p].id = id /\ batch' = ReplaceAt(batch, p, entry)
    BY <1>3
  <2>2. batch' = [batch EXCEPT ![p] = entry]
    BY <2>1 DEF ReplaceAt
  <2>3. batch' \in Seq(Entry)
    BY <1>1, <2>2, ExceptSeq
  <2>. QED BY <2>1, <2>2, <2>3
<1>. QED BY <1>2, <1>3 DEF StoreEvent

LEMMA StoreEventInv ==
  ASSUME CollectInv, NEW id \in Ids, StoreEvent(id)
  PROVE  CollectInv'
<1> DEFINE v == stored[id] + 1
           entry == [id |-> id, ver |-> v, retry |-> 0]
<1>0. TypeOK
  BY DEF CollectInv
<1>1. /\ stored[id] < MaxVersion /\ stored[id] \in Nat /\ v \in 1..MaxVersion
      /\ stored' = [stored EXCEPT ![id] = v]
      /\ UNCHANGED <<database, started, busy, flights, rows, tries, dropped, pruned, requeued>>
  BY <1>0, Types DEF StoreEvent
<1>2. 0 \in 0..(MaxRetryAttempts - 1)
  BY <1>0, Types
<1>3. entry \in Entry /\ entry.id = id /\ entry.ver = v /\ entry.retry = 0
  BY <1>1, <1>2 DEF Entry
<1>4. /\ batch' \in Seq(Entry)
      /\ \E p \in DOMAIN batch' :
           /\ batch'[p] = entry
           /\ \A k \in DOMAIN batch' \ {p} : k \in DOMAIN batch /\ batch'[k] = batch[k]
           /\ \A k \in DOMAIN batch \ {p} : k \in DOMAIN batch' /\ batch'[k] = batch[k]
           /\ p \in DOMAIN batch => batch[p].id = id
           /\ p \in DOMAIN batch \/ \A k \in DOMAIN batch : batch[k].id # id
  BY <1>0, <1>3, Stores
<1> HIDE DEF entry
<1>5. PICK p \in DOMAIN batch' :
           /\ batch'[p] = entry
           /\ \A k \in DOMAIN batch' \ {p} : k \in DOMAIN batch /\ batch'[k] = batch[k]
           /\ \A k \in DOMAIN batch \ {p} : k \in DOMAIN batch' /\ batch'[k] = batch[k]
           /\ p \in DOMAIN batch => batch[p].id = id
           /\ p \in DOMAIN batch \/ \A k \in DOMAIN batch : batch[k].id # id
  BY <1>4
<1>6. /\ stored'[id] = v /\ \A i \in Ids \ {id} : stored'[i] = stored[i]
      /\ stored' \in [Ids -> 0..MaxVersion]
  BY <1>0, <1>1 DEF TypeOK
<1>6a. \A i \in Ids : stored[i] <= stored'[i] /\ stored[i] \in Nat /\ stored'[i] \in Nat
  BY <1>0, <1>1, <1>6, Types
<1>7. TypeOK'
  BY <1>0, <1>1, <1>4, <1>6 DEF TypeOK
<1>8. OneFlight'
  BY <1>1 DEF CollectInv, OneFlight
<1>9. tries[id][v] = 0
  <2>1. tries[id][v] # 0 => v <= stored[id]
    BY <1>1 DEF CollectInv, EntriesCounted
  <2>. QED BY <1>1, <2>1
<1>10. \A k \in DOMAIN batch : batch[k].ver \in Nat /\ (batch[k].id = id => batch[k].ver < v)
  <2>1. \A k \in DOMAIN batch : batch[k].ver <= stored[batch[k].id]
    BY DEF CollectInv, EntriesCounted, Counted
  <2>. QED BY <1>0, <1>1, <2>1, Types
<1>11. \A f \in flights : \A k \in DOMAIN f.entries :
         f.entries[k].ver \in Nat /\ (f.entries[k].id = id => f.entries[k].ver < v)
  <2>1. \A f \in flights : \A k \in DOMAIN f.entries : f.entries[k].ver <= stored[f.entries[k].id]
    BY DEF CollectInv, EntriesCounted, Counted
  <2>. QED BY <1>0, <1>1, <2>1, Types
<1>12. EntriesCounted'
  <2>1. Counted(batch)'
    <3> SUFFICES ASSUME NEW k \in DOMAIN batch'
                 PROVE  /\ batch'[k].retry = tries'[batch'[k].id][batch'[k].ver]
                        /\ batch'[k].ver <= stored'[batch'[k].id]
      BY DEF Counted
    <3>1. CASE k = p
      BY <1>1, <1>3, <1>5, <1>6, <1>9, <3>1
    <3>2. CASE k # p
      <4>1. k \in DOMAIN batch /\ batch'[k] = batch[k] /\ batch[k].id \in Ids /\ batch[k].ver \in Nat
        BY <1>0, <1>5, <3>2, Types
      <4>2. batch[k].retry = tries[batch[k].id][batch[k].ver] /\ batch[k].ver <= stored[batch[k].id]
        BY <4>1 DEF CollectInv, EntriesCounted, Counted
      <4>. QED BY <1>1, <1>6a, <4>1, <4>2
    <3>. QED BY <3>1, <3>2
  <2>2. NoneTwice(batch)'
    BY <1>3, <1>5, <1>10 DEF CollectInv, EntriesCounted, NoneTwice, Same
  <2>3. ASSUME NEW f \in flights
        PROVE  Counted(f.entries)' /\ NoneTwice(f.entries)' /\ Apart(batch, f.entries)'
    <3>1. Counted(f.entries)'
      <4> SUFFICES ASSUME NEW k \in DOMAIN f.entries
                   PROVE  /\ f.entries[k].retry = tries'[f.entries[k].id][f.entries[k].ver]
                          /\ f.entries[k].ver <= stored'[f.entries[k].id]
        BY DEF Counted
      <4>1. f.entries[k].id \in Ids /\ f.entries[k].ver \in Nat
        BY <1>0, Types
      <4>2. /\ f.entries[k].retry = tries[f.entries[k].id][f.entries[k].ver]
            /\ f.entries[k].ver <= stored[f.entries[k].id]
        BY DEF CollectInv, EntriesCounted, Counted
      <4>. QED BY <1>1, <1>6a, <4>1, <4>2
    <3>2. NoneTwice(f.entries)'
      BY DEF CollectInv, EntriesCounted, NoneTwice, Same
    <3>3. Apart(batch, f.entries)'
      BY <1>3, <1>5, <1>11 DEF CollectInv, EntriesCounted, Apart, Same
    <3>. QED BY <3>1, <3>2, <3>3
  <2>4. \A i \in Ids : rows'[i] <= stored'[i]
    <3>1. \A i \in Ids : rows[i] <= stored[i] /\ rows[i] \in Nat
      BY <1>0, Types DEF CollectInv, EntriesCounted
    <3>. QED BY <1>1, <1>6a, <3>1
  <2>5. \A i \in Ids, w \in 1..MaxVersion : tries'[i][w] # 0 => w <= stored'[i]
    <3>1. \A i \in Ids, w \in 1..MaxVersion : tries[i][w] # 0 => w <= stored[i]
      BY DEF CollectInv, EntriesCounted
    <3>. QED BY <1>1, <1>6a, <3>1
  <2>. QED BY <1>1, <2>1, <2>2, <2>3, <2>4, <2>5 DEF EntriesCounted
<1>13. InTurn'
  <2> SUFFICES ASSUME NEW i \in Ids, i \notin requeued
      PROVE  /\ \A k, m \in DOMAIN batch' : batch'[k].id = i /\ batch'[m].id = i => k = m
             /\ \A k \in DOMAIN batch' : batch'[k].id = i => rows[i] < batch'[k].ver
             /\ \A f \in flights :
                  /\ \A k, m \in DOMAIN f.entries : f.entries[k].id = i /\ f.entries[m].id = i => k = m
                  /\ \A k \in DOMAIN f.entries : f.entries[k].id = i =>
                       /\ IF f.stage = "insert" THEN rows[i] < f.entries[k].ver
                                                ELSE rows[i] = f.entries[k].ver
                       /\ \A m \in DOMAIN batch' : batch'[m].id = i => f.entries[k].ver < batch'[m].ver
    BY <1>1 DEF InTurn
  <2>1. /\ \A k, m \in DOMAIN batch : batch[k].id = i /\ batch[m].id = i => k = m
        /\ \A k \in DOMAIN batch : batch[k].id = i => rows[i] < batch[k].ver
        /\ \A f \in flights :
             /\ \A k, m \in DOMAIN f.entries : f.entries[k].id = i /\ f.entries[m].id = i => k = m
             /\ \A k \in DOMAIN f.entries : f.entries[k].id = i =>
                  /\ IF f.stage = "insert" THEN rows[i] < f.entries[k].ver
                                           ELSE rows[i] = f.entries[k].ver
                  /\ \A m \in DOMAIN batch : batch[m].id = i => f.entries[k].ver < batch[m].ver
    BY DEF CollectInv, InTurn
  <2>2. \A k, m \in DOMAIN batch' : batch'[k].id = i /\ batch'[m].id = i => k = m
    BY <1>3, <1>5, <2>1
  <2>3. \A k \in DOMAIN batch' : batch'[k].id = i => rows[i] < batch'[k].ver
    <3>1. rows[id] <= stored[id] /\ rows[id] \in Nat
      BY <1>0, Types DEF CollectInv, EntriesCounted
    <3>2. rows[id] < v
      BY <1>1, <3>1
    <3>. QED BY <1>3, <1>5, <2>1, <3>2
  <2>4. ASSUME NEW f \in flights, NEW k \in DOMAIN f.entries, f.entries[k].id = i,
               NEW m \in DOMAIN batch', batch'[m].id = i
        PROVE  f.entries[k].ver < batch'[m].ver
    <3>1. CASE m = p
      BY <1>3, <1>5, <1>11, <2>4, <3>1
    <3>2. CASE m # p
      BY <1>5, <2>1, <2>4, <3>2
    <3>. QED BY <3>1, <3>2
  <2>. QED BY <2>1, <2>2, <2>3, <2>4
<1>14. \A i \in Ids, w \in 1..MaxVersion : Pending(i, w)' => Pending(i, w) \/ (i = id /\ w = v)
  BY <1>1, <1>3, <1>5 DEF Pending, Holds
<1>15. GivenUpInTime'
  <2>1. <<id, v>> \notin dropped
    <3>1. MaxRetryAttempts # 0
      BY CollectorAssumption DEF CollectorAssumption
    <3>. QED BY <1>1, <1>9, <3>1 DEF CollectInv, GivenUpInTime
  <2>. QED BY <1>1, <1>14, <2>1 DEF CollectInv, GivenUpInTime
<1>16. LastVersionKept'
  <2> SUFFICES ASSUME NEW i \in Ids
               PROVE  \/ stored'[i] = 0
                      \/ Pending(i, stored[i])'
                      \/ rows'[i] = stored'[i]
                      \/ <<i, stored'[i]>> \in pruned' \cup dropped'
                      \/ i \in requeued'
    BY DEF LastVersionKept
  <2>1. CASE i = id
    BY <1>3, <1>5, <1>6, <2>1 DEF Pending, Holds
  <2>2. CASE i # id
    <3>1. Pending(i, stored[i]) => Pending(i, stored[i])'
      BY <1>1, <1>5, <1>6, <2>2 DEF Pending, Holds
    <3>. QED BY <1>1, <1>6, <2>2, <3>1 DEF CollectInv, LastVersionKept
  <2>. QED BY <2>1, <2>2
<1>. QED BY <1>7, <1>8, <1>12, <1>13, <1>15, <1>16 DEF CollectInv

-----------------------------------------------------------------------------
(* The transactions. *)

\* A transaction is the only one.
LEMMA OnlyFlight ==
  ASSUME CollectInv, NEW f \in flights
  PROVE  flights = {f} /\ busy = TRUE
<1>1. (busy <=> flights # {}) /\ busy \in BOOLEAN /\ \A g \in flights : g = f
  BY DEF CollectInv, OneFlight, TypeOK
<1>. QED BY <1>1

\* The first n entries of the batch, and what follows them.
LEMMA Splits ==
  ASSUME NEW n \in 1..Len(batch), batch \in Seq(Entry)
  PROVE  /\ SubSeq(batch, 1, n) \in Seq(Entry) /\ SubSeq(batch, n + 1, Len(batch)) \in Seq(Entry)
         /\ DOMAIN SubSeq(batch, 1, n) = 1..n
         /\ DOMAIN SubSeq(batch, n + 1, Len(batch)) = 1..(Len(batch) - n)
         /\ \A k \in 1..n : SubSeq(batch, 1, n)[k] = batch[k]
         /\ \A k \in 1..(Len(batch) - n) : SubSeq(batch, n + 1, Len(batch))[k] = batch[n + k]
<1>1. Len(batch) \in Nat /\ DOMAIN batch = 1..Len(batch) /\ n \in Nat
  BY LenProperties
<1>2. \A k \in 1..Len(batch) : batch[k] \in Entry
  BY <1>1, ElementOfSeq
<1>3. /\ SubSeq(batch, 1, n) \in Seq(Entry) /\ Len(SubSeq(batch, 1, n)) = n
      /\ \A k \in 1..n : SubSeq(batch, 1, n)[k] = batch[k]
  <2>1. \A k \in 1..n : batch[k] \in Entry
    BY <1>1, <1>2
  <2>2. SubSeq(batch, 1, n) = [k \in 1..n |-> batch[k]]
    BY <1>1
  <2>. QED BY <1>1, <2>1, <2>2
<1>4. /\ SubSeq(batch, n + 1, Len(batch)) \in Seq(Entry)
      /\ Len(SubSeq(batch, n + 1, Len(batch))) = Len(batch) - n
      /\ \A k \in 1..(Len(batch) - n) : SubSeq(batch, n + 1, Len(batch))[k] = batch[n + k]
  <2>1. \A k \in 1..(Len(batch) - n) : n + k \in 1..Len(batch) /\ batch[n + k] \in Entry
    BY <1>1, <1>2
  <2>2. SubSeq(batch, n + 1, Len(batch)) = [k \in 1..(Len(batch) - n) |-> batch[n + k]]
    BY <1>1
  <2>3. Len(batch) - n \in Nat
    BY <1>1
  <2>. QED BY <1>1, <2>1, <2>2, <2>3
<1>. QED BY <1>1, <1>3, <1>4, LenProperties

LEMMA RunTaskInv ==
  ASSUME CollectInv, RunTask
  PROVE  CollectInv'
<1>0. TypeOK /\ ~ busy /\ flights = {} /\ batch # <<>>
  BY DEF CollectInv, OneFlight, RunTask
<1>1. /\ batch \in Seq(Entry) /\ Len(batch) \in Nat /\ DOMAIN batch = 1..Len(batch)
      /\ BatchSize \in Nat \ {0}
      /\ \A k \in DOMAIN batch : batch[k].ver \in Nat
  BY <1>0, Types
<1>2. Len(batch) # 0
  BY <1>0, <1>1, EmptySeq
<1>3. PICK n \in 1..Len(batch) :
        /\ flights' = flights \cup {[entries |-> SubSeq(batch, 1, n), stage |-> "insert"]}
        /\ batch' = SubSeq(batch, n + 1, Len(batch))
  <2> DEFINE n == IF Len(batch) >= BatchSize THEN BatchSize ELSE Len(batch)
  <2>1. n \in 1..Len(batch)
    BY <1>1, <1>2
  <2>. QED BY <2>1 DEF RunTask
<1> DEFINE es == SubSeq(batch, 1, n)
           g == [entries |-> es, stage |-> "insert"]
<1>4. /\ es \in Seq(Entry) /\ batch' \in Seq(Entry)
      /\ DOMAIN es = 1..n /\ DOMAIN batch' = 1..(Len(batch) - n)
      /\ \A k \in 1..n : es[k] = batch[k]
      /\ \A k \in 1..(Len(batch) - n) : batch'[k] = batch[n + k]
  BY <1>1, <1>3, Splits
<1>5. flights' = {g} /\ g.entries = es /\ g.stage = "insert"
  BY <1>0, <1>3
<1>6. busy' = TRUE /\ UNCHANGED <<database, started, rows, stored, tries, dropped, pruned, requeued>>
  BY DEF RunTask, histories
<1>g. g \in [entries : Seq(Entry), stage : {"insert", "cleanup"}]
  BY <1>4
<1> HIDE DEF es, g
<1>7. /\ \A k \in DOMAIN es : k \in DOMAIN batch /\ es[k] = batch[k]
      /\ \A k \in DOMAIN batch' : n + k \in DOMAIN batch /\ batch'[k] = batch[n + k]
      /\ \A k \in DOMAIN es, m \in DOMAIN batch' : k # n + m
      /\ \A k, m \in DOMAIN batch' : n + k = n + m => k = m
  BY <1>1, <1>4
<1>8. \A k \in DOMAIN batch : \/ k \in DOMAIN es /\ es[k] = batch[k]
                              \/ \E m \in DOMAIN batch' : batch'[m] = batch[k]
  <2> SUFFICES ASSUME NEW k \in DOMAIN batch, k \notin DOMAIN es
               PROVE  k - n \in DOMAIN batch' /\ batch'[k - n] = batch[k]
    BY <1>7
  <2>1. k - n \in 1..(Len(batch) - n) /\ n + (k - n) = k
    BY <1>1, <1>4
  <2>. QED BY <1>4, <2>1
<1>9. TypeOK'
  BY <1>0, <1>4, <1>5, <1>6, <1>g DEF TypeOK
<1>10. OneFlight'
  BY <1>5, <1>6 DEF OneFlight
<1>11. EntriesCounted'
  <2>1. Counted(batch)' /\ NoneTwice(batch)'
    BY <1>6, <1>7 DEF CollectInv, EntriesCounted, Counted, NoneTwice
  <2>2. ASSUME NEW f \in flights'
        PROVE  Counted(f.entries)' /\ NoneTwice(f.entries)' /\ Apart(batch, f.entries)'
    <3>1. f.entries = es
      BY <1>5
    <3>2. Counted(f.entries)' /\ NoneTwice(f.entries)'
      BY <1>6, <1>7, <3>1 DEF CollectInv, EntriesCounted, Counted, NoneTwice
    <3>3. Apart(batch, f.entries)'
      BY <1>7, <3>1 DEF CollectInv, EntriesCounted, NoneTwice, Apart, Same
    <3>. QED BY <3>2, <3>3
  <2>. QED BY <1>6, <2>1, <2>2 DEF CollectInv, EntriesCounted
<1>12. InTurn'
  <2> SUFFICES ASSUME NEW id \in Ids, id \notin requeued
      PROVE  /\ \A i, j \in DOMAIN batch' : batch'[i].id = id /\ batch'[j].id = id => i = j
             /\ \A k \in DOMAIN batch' : batch'[k].id = id => rows[id] < batch'[k].ver
             /\ \A i, j \in DOMAIN es : es[i].id = id /\ es[j].id = id => i = j
             /\ \A k \in DOMAIN es : es[k].id = id =>
                  /\ rows[id] < es[k].ver
                  /\ \A m \in DOMAIN batch' : batch'[m].id = id => es[k].ver < batch'[m].ver
    BY <1>5, <1>6 DEF InTurn
  <2>1. /\ \A i, j \in DOMAIN batch : batch[i].id = id /\ batch[j].id = id => i = j
        /\ \A k \in DOMAIN batch : batch[k].id = id => rows[id] < batch[k].ver
    BY DEF CollectInv, InTurn
  <2>. QED BY <1>7, <2>1
<1>13. \A id \in Ids, v \in 1..MaxVersion : Pending(id, v)' <=> Pending(id, v)
  BY <1>0, <1>5, <1>7, <1>8 DEF Pending, Holds
<1>14. GivenUpInTime'
  BY <1>6, <1>13 DEF CollectInv, GivenUpInTime
<1>15. LastVersionKept'
  <2> SUFFICES ASSUME NEW id \in Ids, Pending(id, stored[id]) PROVE Pending(id, stored[id])'
    BY <1>6 DEF CollectInv, LastVersionKept
  <2>. QED BY <1>0, <1>5, <1>6, <1>8 DEF Pending, Holds
<1>. QED BY <1>9, <1>10, <1>11, <1>12, <1>14, <1>15 DEF CollectInv

\* The row of an event whose entries were never put back gets the version of
\* its one entry in the transaction, a newer one.
LEMMA CommitRows ==
  ASSUME CollectInv, NEW f \in flights, Commit(f), NEW id \in Ids
  PROVE  /\ rows'[id] \in 0..MaxVersion /\ rows'[id] <= stored[id]
         /\ (\A k \in DOMAIN f.entries : f.entries[k].id # id) => rows'[id] = rows[id]
         /\ id \notin requeued =>
              \A k \in DOMAIN f.entries :
                f.entries[k].id = id => rows'[id] = f.entries[k].ver /\ rows[id] < rows'[id]
<1> DEFINE ks == {k \in DOMAIN f.entries : f.entries[k].id = id}
           k0 == CHOOSE k \in ks : \A i \in ks : i <= k
<1>0. TypeOK /\ f.stage = "insert"
  BY DEF CollectInv, Commit
<1>1. /\ f.entries \in Seq(Entry) /\ Len(f.entries) \in Nat /\ DOMAIN f.entries = 1..Len(f.entries)
      /\ \A k \in DOMAIN f.entries : f.entries[k].ver \in 1..MaxVersion
  BY <1>0, Types, SeqOfEntries
<1>2. rows'[id] = IF ks = {} THEN rows[id] ELSE f.entries[k0].ver
  BY DEF Commit
<1>3. ks # {} => k0 \in ks
  <2>1. ks \subseteq 1..Len(f.entries)
    BY <1>1
  <2>2. ks # {} => \E k \in ks : \A i \in ks : i <= k
    BY <1>1, <2>1, LastPosition
  <2>. QED BY <2>2
<1>4. rows[id] \in 0..MaxVersion /\ rows[id] <= stored[id] /\ MaxVersion \in Nat
  BY <1>0, Types DEF CollectInv, EntriesCounted
<1>5. \A k \in ks : f.entries[k].ver \in 1..MaxVersion /\ f.entries[k].ver <= stored[id]
  BY <1>1 DEF CollectInv, EntriesCounted, Counted
<1>6. ASSUME id \notin requeued, NEW k \in ks
      PROVE  k = k0 /\ rows[id] < f.entries[k].ver
  BY <1>0, <1>3, <1>6 DEF CollectInv, InTurn
<1> HIDE DEF k0
<1>7. ASSUME ks # {} PROVE rows'[id] = f.entries[k0].ver /\ k0 \in ks
  BY <1>2, <1>3, <1>7
<1>8. rows'[id] \in 0..MaxVersion /\ rows'[id] <= stored[id]
  BY <1>2, <1>4, <1>5, <1>7
<1>9. (\A k \in DOMAIN f.entries : f.entries[k].id # id) => rows'[id] = rows[id]
  BY <1>2
<1>10. ASSUME id \notin requeued, NEW k \in DOMAIN f.entries, f.entries[k].id = id
       PROVE  rows'[id] = f.entries[k].ver /\ rows[id] < rows'[id]
  <2>1. k \in ks
    BY <1>10
  <2>. QED BY <1>6, <1>7, <1>10, <2>1
<1>. QED BY <1>8, <1>9, <1>10

LEMMA CommitInv ==
  ASSUME CollectInv, NEW f \in flights, Commit(f)
  PROVE  CollectInv'
<1>0. TypeOK /\ flights = {f} /\ busy = TRUE /\ f.stage = "insert"
  BY OnlyFlight DEF CollectInv, Commit
<1>1. UNCHANGED <<database, batch, started, stored, tries, dropped, pruned, requeued>>
  BY DEF Commit, histories
<1>2. /\ f \in [entries : Seq(Entry), stage : {"insert", "cleanup"}]
      /\ batch \in Seq(Entry)
  BY <1>0 DEF TypeOK
<1>3. /\ \A g \in flights' : g.entries = f.entries /\ g.stage = "cleanup"
      /\ flights' \subseteq [entries : Seq(Entry), stage : {"insert", "cleanup"}]
      /\ \A g, h \in flights' : g = h
      /\ busy' \in BOOLEAN /\ (busy' <=> flights' # {})
      /\ flights' = {} \/ \E g \in flights' : g.entries = f.entries
  <2> DEFINE g0 == [f EXCEPT !.stage = "cleanup"]
  <2>1. /\ g0 \in [entries : Seq(Entry), stage : {"insert", "cleanup"}]
        /\ g0.entries = f.entries /\ g0.stage = "cleanup"
    BY <1>2
  <2>2. (flights' = {} /\ busy' = FALSE) \/ (flights' = {g0} /\ busy' = TRUE)
    BY <1>0 DEF Commit
  <2> HIDE DEF g0
  <2>. QED BY <2>1, <2>2
<1>4. rows' \in [Ids -> 0..MaxVersion] /\ \A id \in Ids : rows'[id] <= stored[id]
  <2>1. \A id \in Ids : rows'[id] \in 0..MaxVersion /\ rows'[id] <= stored[id]
    BY CommitRows
  <2>2. DOMAIN rows' = Ids /\ rows' = [id \in Ids |-> rows'[id]]
    BY DEF Commit
  <2>. QED BY <2>1, <2>2
<1>5. TypeOK'
  BY <1>0, <1>1, <1>3, <1>4 DEF TypeOK
<1>6. OneFlight'
  BY <1>3 DEF OneFlight
<1>7. EntriesCounted'
  <2>1. \A g \in flights' : g.entries = f.entries
    BY <1>3
  <2>2. Counted(batch)' /\ NoneTwice(batch)'
    BY <1>1 DEF CollectInv, EntriesCounted, Counted, NoneTwice
  <2>3. ASSUME NEW g \in flights'
        PROVE  Counted(g.entries)' /\ NoneTwice(g.entries)' /\ Apart(batch, g.entries)'
    BY <1>1, <2>1 DEF CollectInv, EntriesCounted, Counted, NoneTwice, Apart
  <2>4. \A id \in Ids, v \in 1..MaxVersion : tries'[id][v] # 0 => v <= stored'[id]
    BY <1>1 DEF CollectInv, EntriesCounted
  <2>. QED BY <1>1, <1>4, <2>2, <2>3, <2>4 DEF EntriesCounted
<1>8. InTurn'
  <2> SUFFICES ASSUME NEW id \in Ids, id \notin requeued
      PROVE  /\ \A i, j \in DOMAIN batch : batch[i].id = id /\ batch[j].id = id => i = j
             /\ \A k \in DOMAIN batch : batch[k].id = id => rows'[id] < batch[k].ver
             /\ \A i, j \in DOMAIN f.entries : f.entries[i].id = id /\ f.entries[j].id = id => i = j
             /\ \A k \in DOMAIN f.entries : f.entries[k].id = id =>
                  /\ rows'[id] = f.entries[k].ver
                  /\ \A m \in DOMAIN batch : batch[m].id = id => f.entries[k].ver < batch[m].ver
    BY <1>1, <1>3 DEF InTurn
  <2>1. /\ \A i, j \in DOMAIN batch : batch[i].id = id /\ batch[j].id = id => i = j
        /\ \A k \in DOMAIN batch : batch[k].id = id => rows[id] < batch[k].ver
        /\ \A i, j \in DOMAIN f.entries : f.entries[i].id = id /\ f.entries[j].id = id => i = j
        /\ \A k \in DOMAIN f.entries : f.entries[k].id = id =>
             \A m \in DOMAIN batch : batch[m].id = id => f.entries[k].ver < batch[m].ver
    BY DEF CollectInv, InTurn
  <2>2. /\ (\A k \in DOMAIN f.entries : f.entries[k].id # id) => rows'[id] = rows[id]
        /\ \A k \in DOMAIN f.entries : f.entries[k].id = id => rows'[id] = f.entries[k].ver
    BY CommitRows
  <2>. QED BY <2>1, <2>2
<1>9. \A id \in Ids, v \in 1..MaxVersion : Pending(id, v)' => Pending(id, v)
  BY <1>0, <1>1, <1>3 DEF Pending, Holds
<1>10. GivenUpInTime'
  BY <1>1, <1>9 DEF CollectInv, GivenUpInTime
<1>11. LastVersionKept'
  <2> SUFFICES ASSUME NEW id \in Ids, stored[id] # 0, id \notin requeued,
                      <<id, stored[id]>> \notin pruned \cup dropped,
                      ~ Pending(id, stored[id])'
               PROVE  rows'[id] = stored[id]
    BY <1>1 DEF LastVersionKept
  <2>1. /\ (\A k \in DOMAIN f.entries : f.entries[k].id # id) => rows'[id] = rows[id]
        /\ \A k \in DOMAIN f.entries :
             f.entries[k].id = id => rows'[id] = f.entries[k].ver /\ rows[id] < rows'[id]
        /\ rows'[id] <= stored[id] /\ rows'[id] \in 0..MaxVersion
    BY CommitRows
  <2>2. Pending(id, stored[id]) \/ rows[id] = stored[id]
    BY DEF CollectInv, LastVersionKept
  <2>3. CASE Pending(id, stored[id])
    <3>1. Holds(f.entries, id, stored[id])
      BY <1>0, <1>1, <2>3 DEF Pending, Holds
    <3>. QED BY <2>1, <3>1 DEF Holds
  <2>4. CASE rows[id] = stored[id]
    <3>1. stored[id] \in 0..MaxVersion /\ MaxVersion \in Nat
      BY <1>0, Types
    <3>. QED BY <2>1, <2>4, <3>1
  <2>. QED BY <2>2, <2>3, <2>4
<1>. QED BY <1>5, <1>6, <1>7, <1>8, <1>10, <1>11 DEF CollectInv

\* The entries of the transaction are the rows when the clean-up looks at them.
LEMMA CleanupInv ==
  ASSUME CollectInv, NEW f \in flights, Cleanup(f)
  PROVE  CollectInv'
<1>0. TypeOK /\ flights = {f} /\ f.stage = "cleanup"
  BY OnlyFlight DEF CollectInv, Cleanup
<1>1. /\ flights' = {} /\ busy' = FALSE
      /\ UNCHANGED <<database, batch, started, stored, tries, dropped, requeued>>
  BY <1>0 DEF Cleanup
<1>2. PICK old \in SUBSET {id \in Ids : rows[id] # 0} :
        /\ rows' = [id \in Ids |-> IF id \in old THEN 0 ELSE rows[id]]
        /\ pruned' = pruned \cup {<<id, rows[id]>> : id \in old}
  BY DEF Cleanup
<1>3. /\ \A id \in Ids : rows[id] \in 0..MaxVersion /\ rows[id] \in Nat
      /\ \A id \in Ids : stored[id] \in Nat /\ rows[id] <= stored[id]
      /\ \A k \in DOMAIN batch : batch[k].id \in Ids /\ batch[k].ver \in 1..MaxVersion
      /\ MaxVersion \in Nat
  BY <1>0, Types DEF CollectInv, EntriesCounted
<1>4. TypeOK'
  <2>1. rows' \in [Ids -> 0..MaxVersion]
    BY <1>2, <1>3
  <2>2. \A id \in old : <<id, rows[id]>> \in Ids \X (1..MaxVersion)
    BY <1>2, <1>3
  <2>3. pruned' \subseteq Ids \X (1..MaxVersion)
    BY <1>0, <1>2, <2>2 DEF TypeOK
  <2>. QED BY <1>0, <1>1, <2>1, <2>3 DEF TypeOK
<1>5. OneFlight'
  BY <1>1 DEF OneFlight
<1>6. EntriesCounted'
  <2>1. Counted(batch)' /\ NoneTwice(batch)'
    BY <1>1 DEF CollectInv, EntriesCounted, Counted, NoneTwice
  <2>2. \A id \in Ids : rows'[id] <= stored'[id]
    BY <1>1, <1>2, <1>3
  <2>3. \A id \in Ids, v \in 1..MaxVersion : tries'[id][v] # 0 => v <= stored'[id]
    BY <1>1 DEF CollectInv, EntriesCounted
  <2>. QED BY <1>1, <2>1, <2>2, <2>3 DEF EntriesCounted
<1>7. InTurn'
  <2> SUFFICES ASSUME NEW id \in Ids, id \notin requeued
      PROVE  /\ \A i, j \in DOMAIN batch : batch[i].id = id /\ batch[j].id = id => i = j
             /\ \A k \in DOMAIN batch : batch[k].id = id => rows'[id] < batch[k].ver
    BY <1>1 DEF InTurn
  <2>1. /\ \A i, j \in DOMAIN batch : batch[i].id = id /\ batch[j].id = id => i = j
        /\ \A k \in DOMAIN batch : batch[k].id = id => rows[id] < batch[k].ver
    BY DEF CollectInv, InTurn
  <2>2. rows'[id] \in {0, rows[id]}
    BY <1>2
  <2>. QED BY <1>3, <2>1, <2>2
<1>8. \A id \in Ids, v \in 1..MaxVersion : Pending(id, v)' => Pending(id, v)
  BY <1>1 DEF Pending
<1>9. GivenUpInTime'
  BY <1>1, <1>8 DEF CollectInv, GivenUpInTime
<1>10. LastVersionKept'
  <2> SUFFICES ASSUME NEW id \in Ids, stored[id] # 0, id \notin requeued,
                      <<id, stored[id]>> \notin pruned' \cup dropped,
                      ~ Pending(id, stored[id])'
               PROVE  rows'[id] = stored[id]
    BY <1>1 DEF LastVersionKept
  <2>1. rows[id] = stored[id]
    <3>1. Pending(id, stored[id]) \/ rows[id] = stored[id]
      BY <1>2 DEF CollectInv, LastVersionKept
    <3>2. CASE Pending(id, stored[id])
      <4>1. Holds(f.entries, id, stored[id])
        BY <1>0, <1>1, <3>2 DEF Pending, Holds
      <4>. QED BY <1>0, <4>1 DEF Holds, CollectInv, InTurn
    <3>. QED BY <3>1, <3>2
  <2>2. id \notin old
    BY <1>2, <2>1
  <2>. QED BY <1>2, <2>1, <2>2
<1>. QED BY <1>4, <1>5, <1>6, <1>7, <1>9, <1>10 DEF CollectInv

\* What the catch block puts back: each position of the batch is an old one, or
\* holds an entry of the transaction that has attempts left, a different one
\* each, with its failure counted.
LEMMA PutsBack ==
  ASSUME CollectInv, NEW f \in flights, Requeue(f)
  PROVE  /\ batch' \in Seq(Entry)
         /\ \A k \in DOMAIN batch : k \in DOMAIN batch' /\ batch'[k] = batch[k]
         /\ \E h \in [DOMAIN batch' \ DOMAIN batch -> DOMAIN f.entries] :
              /\ \A i, j \in DOMAIN h : h[i] = h[j] => i = j
              /\ \A i \in DOMAIN h : /\ KeptForRetry(f.entries[h[i]])
                                     /\ batch'[i] = Raised(f.entries[h[i]])
<1> DEFINE kept == {k \in DOMAIN f.entries : KeptForRetry(f.entries[k])}
<1>0. TypeOK
  BY DEF CollectInv
<1>1. PICK g \in [1..Cardinality(kept) -> kept] :
        /\ \A i, j \in DOMAIN g : i < j => g[i] < g[j]
        /\ batch' = batch \o [i \in DOMAIN g |-> Raised(f.entries[g[i]])]
  BY DEF Requeue
<1> DEFINE back == [i \in DOMAIN g |-> Raised(f.entries[g[i]])]
<1>2. /\ f.entries \in Seq(Entry) /\ Len(f.entries) \in Nat /\ DOMAIN f.entries = 1..Len(f.entries)
      /\ batch \in Seq(Entry) /\ Len(batch) \in Nat /\ DOMAIN batch = 1..Len(batch)
  BY <1>0, Types, SeqOfEntries
<1>3. Cardinality(kept) \in Nat
  <2>1. IsFiniteSet(1..Len(f.entries))
    BY <1>2, FS_Interval
  <2>2. IsFiniteSet(kept)
    BY <1>2, <2>1, FS_Subset
  <2>. QED BY <2>2, FS_CardinalityType
<1> DEFINE n == Cardinality(kept)
<1> HIDE DEF n
<1>4. n \in Nat /\ DOMAIN g = 1..n /\ \A i \in 1..n : g[i] \in kept
  BY <1>1, <1>3 DEF n
<1> DEFINE m == Len(batch)
<1>m. m \in Nat
  BY <1>2
<1>5. \A e \in Entry : KeptForRetry(e) => Raised(e) \in Entry
  <2> SUFFICES ASSUME NEW e \in Entry, KeptForRetry(e) PROVE Raised(e) \in Entry
    OBVIOUS
  <2>1. e.retry \in 0..(MaxRetryAttempts - 1) /\ MaxRetryAttempts \in Nat
    BY EntryFields, CollectorAssumption DEF CollectorAssumption
  <2>2. Raised(e) = [e EXCEPT !.retry = e.retry + 1] /\ Raised(e).retry < MaxRetryAttempts
    BY DEF Raised, KeptForRetry
  <2>3. [e EXCEPT !.retry = e.retry + 1].retry = e.retry + 1
    BY DEF Entry
  <2>4. e.retry + 1 \in 0..(MaxRetryAttempts - 1)
    BY <2>1, <2>2, <2>3
  <2>. QED BY <2>2, <2>4 DEF Entry
<1>6. \A i \in 1..n : /\ g[i] \in DOMAIN f.entries /\ KeptForRetry(f.entries[g[i]])
                      /\ f.entries[g[i]] \in Entry /\ Raised(f.entries[g[i]]) \in Entry
  <2>1. \A k \in DOMAIN f.entries : f.entries[k] \in Entry
    BY <1>2, SeqOfEntries
  <2>. QED BY <1>4, <1>5, <2>1
<1>7. back \in Seq(Entry) /\ Len(back) = n /\ \A i \in 1..n : back[i] = Raised(f.entries[g[i]])
  <2> DEFINE R(i) == Raised(f.entries[g[i]])
  <2>1. back = [i \in 1..n |-> R(i)]
    BY <1>4
  <2>r. \A i \in 1..n : R(i) \in Entry
    BY <1>6
  <2> HIDE DEF R
  <2>2. back \in [1..n -> Entry]
    BY <2>1, <2>r
  <2> HIDE DEF back
  <2>3. back \in Seq(Entry) /\ Len(back) = n
    BY <1>4, <2>2, SeqMade
  <2>. QED BY <2>1, <2>3 DEF R
<1> HIDE DEF back
<1>8. /\ batch' \in Seq(Entry) /\ Len(batch') = m + n
      /\ \A i \in 1..(m + n) : batch'[i] = IF i <= m THEN batch[i] ELSE back[i - m]
  <2>1. batch' = batch \o back
    BY <1>1 DEF back
  <2>. QED BY <1>2, <1>7, <2>1, ConcatProperties
<1> HIDE DEF m
<1>9. DOMAIN batch' = 1..(m + n) /\ DOMAIN batch = 1..m
  BY <1>2, <1>8, LenProperties DEF m
<1>10. \A k \in DOMAIN batch : k \in DOMAIN batch' /\ batch'[k] = batch[k]
  BY <1>4, <1>8, <1>9, <1>m
<1> DEFINE D == DOMAIN batch' \ DOMAIN batch
           h == [i \in D |-> g[i - m]]
<1>11. \A i \in DOMAIN batch' \ DOMAIN batch :
         i - m \in 1..n /\ ~ (i <= m) /\ i \in 1..(m + n) /\ i \in Nat
  BY <1>4, <1>9, <1>m
<1>12. h \in [DOMAIN batch' \ DOMAIN batch -> DOMAIN f.entries]
  BY <1>6, <1>11
<1>h. DOMAIN h = D /\ \A i \in D : h[i] = g[i - m]
  OBVIOUS
<1> HIDE DEF h
<1>13. ASSUME NEW i \in DOMAIN h, NEW j \in DOMAIN h, h[i] = h[j] PROVE i = j
  <2>1. i - m \in 1..n /\ j - m \in 1..n /\ g[i - m] = g[j - m] /\ i \in Nat /\ j \in Nat
    BY <1>11, <1>13, <1>h
  <2>2. g[i - m] \in 1..Len(f.entries)
    BY <1>2, <1>6, <2>1
  <2>3. \A a, b \in 1..n : a < b => g[a] < g[b]
    BY <1>1, <1>4
  <2>4. \A a, b \in 1..n : g[a] = g[b] /\ g[a] \in 1..Len(f.entries) => ~ (a < b) /\ ~ (b < a)
    BY ONLY <1>2, <2>3
  <2>5. ~ (i - m < j - m) /\ ~ (j - m < i - m)
    BY ONLY <2>1, <2>2, <2>4
  <2>. QED BY <1>m, <2>1, <2>5
<1>14. ASSUME NEW i \in DOMAIN h
       PROVE  KeptForRetry(f.entries[h[i]]) /\ batch'[i] = Raised(f.entries[h[i]])
  <2>1. h[i] = g[i - m] /\ batch'[i] = back[i - m] /\ i - m \in 1..n
    BY <1>8, <1>11, <1>h
  <2>. QED BY <1>6, <1>7, <2>1
<1>. QED BY <1>8, <1>10, <1>12, <1>13, <1>14, <1>h

LEMMA AbortInv ==
  ASSUME CollectInv, NEW f \in flights, Abort(f)
  PROVE  CollectInv'
<1>0. TypeOK /\ flights = {f} /\ f.stage = "insert"
  BY OnlyFlight DEF CollectInv, Abort
<1>1. /\ flights' = {} /\ busy' = FALSE
      /\ UNCHANGED <<database, started, rows, stored, pruned>>
  BY <1>0 DEF Abort
<1>2. /\ dropped' = dropped \cup {<<f.entries[k].id, f.entries[k].ver>> :
              k \in {l \in DOMAIN f.entries : ~ KeptForRetry(f.entries[l])}}
      /\ requeued' = requeued \cup {f.entries[k].id :
              k \in {l \in DOMAIN f.entries : KeptForRetry(f.entries[l])}}
      /\ tries' = [id \in Ids |-> [v \in 1..MaxVersion |->
                     tries[id][v] + IF Holds(f.entries, id, v) THEN 1 ELSE 0]]
  BY DEF Abort, Requeue
<1>3. Requeue(f)
  BY DEF Abort
<1>4. /\ batch' \in Seq(Entry)
      /\ \A k \in DOMAIN batch : k \in DOMAIN batch' /\ batch'[k] = batch[k]
  BY <1>3, PutsBack
<1>5. PICK h \in [DOMAIN batch' \ DOMAIN batch -> DOMAIN f.entries] :
        /\ \A i, j \in DOMAIN h : h[i] = h[j] => i = j
        /\ \A i \in DOMAIN h : /\ KeptForRetry(f.entries[h[i]])
                               /\ batch'[i] = Raised(f.entries[h[i]])
  BY <1>3, PutsBack
<1>6. /\ \A k \in DOMAIN f.entries :
           /\ f.entries[k] \in Entry /\ f.entries[k].id \in Ids
           /\ f.entries[k].ver \in 1..MaxVersion /\ f.entries[k].retry \in 0..(MaxRetryAttempts - 1)
      /\ \A k \in DOMAIN batch : batch[k].id \in Ids /\ batch[k].ver \in 1..MaxVersion
      /\ MaxRetryAttempts \in Nat \ {0} /\ MaxVersion \in Nat
      /\ \A id \in Ids, v \in 1..MaxVersion : tries[id][v] \in 0..MaxRetryAttempts
      /\ \A id \in Ids : stored[id] \in Nat /\ rows[id] \in Nat /\ rows[id] <= stored[id]
  BY <1>0, Types DEF CollectInv, EntriesCounted
<1>7. /\ Counted(batch) /\ NoneTwice(batch) /\ Counted(f.entries) /\ NoneTwice(f.entries)
      /\ Apart(batch, f.entries)
  BY DEF CollectInv, EntriesCounted
\* An entry that comes back, and one that does not.
<1>8. ASSUME NEW e \in Entry
      PROVE  /\ Raised(e).id = e.id /\ Raised(e).ver = e.ver /\ Raised(e).retry = e.retry + 1
             /\ KeptForRetry(e) <=> e.retry + 1 < MaxRetryAttempts
  BY DEF Raised, KeptForRetry, Entry
<1>9. ASSUME NEW i \in DOMAIN batch', i \notin DOMAIN batch
      PROVE  /\ h[i] \in DOMAIN f.entries /\ KeptForRetry(f.entries[h[i]])
             /\ batch'[i].id = f.entries[h[i]].id /\ batch'[i].ver = f.entries[h[i]].ver
             /\ batch'[i].retry = f.entries[h[i]].retry + 1
  BY <1>5, <1>6, <1>8, <1>9
<1>10. ASSUME NEW k \in DOMAIN f.entries
       PROVE  /\ tries'[f.entries[k].id][f.entries[k].ver] = f.entries[k].retry + 1
              /\ f.entries[k].ver <= stored[f.entries[k].id]
  <2>1. Holds(f.entries, f.entries[k].id, f.entries[k].ver)
    BY DEF Holds
  <2>2. /\ f.entries[k].retry = tries[f.entries[k].id][f.entries[k].ver]
        /\ f.entries[k].ver <= stored[f.entries[k].id]
    BY <1>7 DEF Counted
  <2>. QED BY <1>2, <1>6, <2>1, <2>2
<1>11. ASSUME NEW id \in Ids, NEW v \in 1..MaxVersion, ~ Holds(f.entries, id, v)
       PROVE  tries'[id][v] = tries[id][v]
  BY <1>2, <1>6, <1>11
<1>12. ASSUME NEW k \in DOMAIN batch
       PROVE  tries'[batch[k].id][batch[k].ver] = batch[k].retry
  <2>1. ~ Holds(f.entries, batch[k].id, batch[k].ver)
    BY <1>7 DEF Apart, Same, Holds
  <2>. QED BY <1>6, <1>7, <1>11, <2>1 DEF Counted
<1>13. TypeOK'
  <2>1. ASSUME NEW id \in Ids, NEW v \in 1..MaxVersion
        PROVE  tries'[id][v] \in 0..MaxRetryAttempts
    <3>1. CASE Holds(f.entries, id, v)
      <4>1. PICK k \in DOMAIN f.entries : f.entries[k].id = id /\ f.entries[k].ver = v
        BY <3>1 DEF Holds
      <4>. QED BY <1>6, <1>10, <4>1
    <3>2. CASE ~ Holds(f.entries, id, v)
      BY <1>6, <1>11, <3>2
    <3>. QED BY <3>1, <3>2
  <2>2. tries' \in [Ids -> [1..MaxVersion -> 0..MaxRetryAttempts]]
    <3> DEFINE t(id, v) == tries[id][v] + IF Holds(f.entries, id, v) THEN 1 ELSE 0
    <3>1. tries' = [id \in Ids |-> [v \in 1..MaxVersion |-> t(id, v)]]
      BY <1>2
    <3> HIDE DEF t
    <3>2. \A id \in Ids, v \in 1..MaxVersion : t(id, v) \in 0..MaxRetryAttempts
      BY <2>1, <3>1
    <3>. QED BY <3>1, <3>2
  <2>3. dropped' \subseteq Ids \X (1..MaxVersion)
    BY <1>0, <1>2, <1>6 DEF TypeOK
  <2>4. requeued' \subseteq Ids
    BY <1>0, <1>2, <1>6 DEF TypeOK
  <2>. QED BY <1>0, <1>1, <1>4, <2>2, <2>3, <2>4 DEF TypeOK
<1>14. OneFlight'
  BY <1>1 DEF OneFlight
<1>15. EntriesCounted'
  <2>1. Counted(batch)'
    <3> SUFFICES ASSUME NEW k \in DOMAIN batch'
                 PROVE  /\ batch'[k].retry = tries'[batch'[k].id][batch'[k].ver]
                        /\ batch'[k].ver <= stored[batch'[k].id]
      BY <1>1 DEF Counted
    <3>1. CASE k \in DOMAIN batch
      BY <1>4, <1>7, <1>12, <3>1 DEF Counted
    <3>2. CASE k \notin DOMAIN batch
      BY <1>9, <1>10, <3>2
    <3>. QED BY <3>1, <3>2
  <2>2. NoneTwice(batch)'
    <3> SUFFICES ASSUME NEW i \in DOMAIN batch', NEW j \in DOMAIN batch', Same(batch'[i], batch'[j])
                 PROVE  i = j
      BY DEF NoneTwice
    <3>1. CASE i \in DOMAIN batch /\ j \in DOMAIN batch
      BY <1>4, <1>7, <3>1 DEF NoneTwice
    <3>2. CASE i \in DOMAIN batch /\ j \notin DOMAIN batch
      BY <1>4, <1>7, <1>9, <3>2 DEF Apart, Same
    <3>3. CASE i \notin DOMAIN batch /\ j \in DOMAIN batch
      BY <1>4, <1>7, <1>9, <3>3 DEF Apart, Same
    <3>4. CASE i \notin DOMAIN batch /\ j \notin DOMAIN batch
      <4>1. h[i] = h[j]
        BY <1>7, <1>9, <3>4 DEF NoneTwice, Same
      <4>. QED BY <1>5, <3>4, <4>1
    <3>. QED BY <3>1, <3>2, <3>3, <3>4
  <2>3. ASSUME NEW id \in Ids, NEW v \in 1..MaxVersion, tries'[id][v] # 0
        PROVE  v <= stored[id]
    <3>1. CASE Holds(f.entries, id, v)
      BY <1>10, <3>1 DEF Holds
    <3>2. CASE ~ Holds(f.entries, id, v)
      BY <1>11, <2>3, <3>2 DEF CollectInv, EntriesCounted
    <3>. QED BY <3>1, <3>2
  <2>. QED BY <1>1, <1>6, <2>1, <2>2, <2>3 DEF EntriesCounted
\* Of an event none of whose entries was put back nothing is new in the batch.
<1>16. ASSUME NEW id \in Ids, id \notin requeued', NEW k \in DOMAIN batch', batch'[k].id = id
       PROVE  k \in DOMAIN batch /\ batch'[k] = batch[k]
  <2>1. CASE k \notin DOMAIN batch
    BY <1>2, <1>9, <1>16, <2>1
  <2>. QED BY <1>4, <2>1
<1>17. InTurn'
  <2> SUFFICES ASSUME NEW id \in Ids, id \notin requeued'
      PROVE  /\ \A i, j \in DOMAIN batch' : batch'[i].id = id /\ batch'[j].id = id => i = j
             /\ \A k \in DOMAIN batch' : batch'[k].id = id => rows[id] < batch'[k].ver
    BY <1>1 DEF InTurn
  <2>1. id \notin requeued
    BY <1>2
  <2>2. /\ \A i, j \in DOMAIN batch : batch[i].id = id /\ batch[j].id = id => i = j
        /\ \A k \in DOMAIN batch : batch[k].id = id => rows[id] < batch[k].ver
    BY <2>1 DEF CollectInv, InTurn
  <2>. QED BY <1>16, <2>2
<1>18. ASSUME NEW id \in Ids, NEW v \in 1..MaxVersion
       PROVE  Pending(id, v)' => \/ Holds(batch, id, v)
                                \/ \E k \in DOMAIN f.entries :
                                     /\ f.entries[k].id = id /\ f.entries[k].ver = v
                                     /\ KeptForRetry(f.entries[k])
  BY <1>1, <1>4, <1>9 DEF Pending, Holds
<1>19. GivenUpInTime'
  <2> SUFFICES ASSUME NEW id \in Ids, NEW v \in 1..MaxVersion
               PROVE  /\ tries'[id][v] = MaxRetryAttempts <=> <<id, v>> \in dropped'
                      /\ <<id, v>> \in dropped' => ~ Pending(id, v)'
    BY DEF GivenUpInTime
  <2>0. /\ tries[id][v] = MaxRetryAttempts <=> <<id, v>> \in dropped
        /\ <<id, v>> \in dropped => ~ Pending(id, v)
    BY DEF CollectInv, GivenUpInTime
  <2>1. CASE Holds(f.entries, id, v)
    <3>1. PICK k \in DOMAIN f.entries : f.entries[k].id = id /\ f.entries[k].ver = v
      BY <2>1 DEF Holds
    <3>2. \A l \in DOMAIN f.entries : f.entries[l].id = id /\ f.entries[l].ver = v => l = k
      BY <1>7, <3>1 DEF NoneTwice, Same
    <3>3. ~ Holds(batch, id, v)
      BY <1>7, <3>1 DEF Apart, Same, Holds
    <3>4. <<id, v>> \notin dropped
      BY <1>0, <2>0, <2>1 DEF Pending
    <3>5. tries'[id][v] = f.entries[k].retry + 1
      BY <1>10, <3>1
    <3>6. KeptForRetry(f.entries[k]) <=> f.entries[k].retry + 1 < MaxRetryAttempts
      BY <1>6, <1>8
    <3>7. tries'[id][v] = MaxRetryAttempts <=> ~ KeptForRetry(f.entries[k])
      <4>1. f.entries[k].retry \in 0..(MaxRetryAttempts - 1) /\ MaxRetryAttempts \in Nat \ {0}
        BY <1>6
      <4>. QED BY <3>5, <3>6, <4>1
    <3>8. <<id, v>> \in dropped' <=> ~ KeptForRetry(f.entries[k])
      BY <1>2, <3>1, <3>2, <3>4
    <3>9. Pending(id, v)' => KeptForRetry(f.entries[k])
      BY <1>18, <3>2, <3>3
    <3>. QED BY <3>7, <3>8, <3>9
  <2>2. CASE ~ Holds(f.entries, id, v)
    <3>1. tries'[id][v] = tries[id][v]
      BY <1>11, <2>2
    <3>2. <<id, v>> \in dropped' <=> <<id, v>> \in dropped
      BY <1>2, <2>2 DEF Holds
    <3>3. Pending(id, v)' => Pending(id, v)
      BY <1>18, <2>2 DEF Pending, Holds
    <3>. QED BY <2>0, <3>1, <3>2, <3>3
  <2>. QED BY <2>1, <2>2
<1>20. LastVersionKept'
  <2> SUFFICES ASSUME NEW id \in Ids, Pending(id, stored[id]), id \notin requeued',
                      <<id, stored[id]>> \notin dropped'
               PROVE  Pending(id, stored[id])'
    BY <1>1, <1>2 DEF CollectInv, LastVersionKept
  <2>1. ~ Holds(f.entries, id, stored[id])
    BY <1>2 DEF Holds
  <2>2. Holds(batch, id, stored[id])
    BY <1>0, <2>1 DEF Pending
  <2>. QED BY <1>1, <1>4, <2>2 DEF Pending, Holds
<1>. QED BY <1>13, <1>14, <1>15, <1>17, <1>19, <1>20 DEF CollectInv

-----------------------------------------------------------------------------
(* The invariant and what follows from it. *)

LEMMA CollectStart == Init => CollectInv
<1> SUFFICES ASSUME Init PROVE CollectInv
  OBVIOUS
<1>1. batch \in Seq(Entry) /\ DOMAIN batch = {} /\ flights = {}
  BY DEF Init
<1>2. /\ \A id \in Ids : rows[id] = 0 /\ stored[id] = 0
      /\ \A id \in Ids, v \in 1..MaxVersion : tries[id][v] = 0
      /\ MaxRetryAttempts \in Nat \ {0} /\ MaxVersion \in Nat
  BY CollectorAssumption DEF Init, CollectorAssumption
<1>3. TypeOK
  <2>1. 0 \in 0..MaxVersion /\ 0 \in 0..MaxRetryAttempts
    BY <1>2
  <2>2. rows \in [Ids -> 0..MaxVersion] /\ stored \in [Ids -> 0..MaxVersion]
    BY <2>1 DEF Init
  <2>3. tries \in [Ids -> [1..MaxVersion -> 0..MaxRetryAttempts]]
    BY <2>1 DEF Init
  <2>. QED BY <1>1, <2>2, <2>3 DEF Init, TypeOK
<1>4. OneFlight /\ EntriesCounted /\ InTurn
  BY <1>1, <1>2 DEF Init, OneFlight, EntriesCounted, Counted, NoneTwice, InTurn
<1>5. GivenUpInTime /\ LastVersionKept
  BY <1>1, <1>2 DEF Init, GivenUpInTime, LastVersionKept
<1>. QED BY <1>3, <1>4, <1>5 DEF CollectInv

LEMMA CollectNext == CollectInv /\ [Next]_vars => CollectInv'
<1> SUFFICES ASSUME CollectInv, [Next]_vars PROVE CollectInv'
  OBVIOUS
<1>1. CASE Start \/ Stop \/ UNCHANGED vars
  <2>1. /\ UNCHANGED <<database, batch, busy, flights, rows, histories>>
        /\ {started', busy'} \subseteq BOOLEAN
    BY <1>1 DEF Start, Stop, vars, histories, CollectInv, TypeOK
  <2>. QED BY <2>1, KeepsInv
<1>2. ASSUME NEW id \in Ids, StoreEvent(id) PROVE CollectInv'
  BY <1>2, StoreEventInv
<1>3. ASSUME NEW f \in flights, Commit(f) \/ Cleanup(f) \/ Abort(f) PROVE CollectInv'
  BY <1>3, CommitInv, CleanupInv, AbortInv
<1>. QED BY <1>1, <1>2, <1>3, RunTaskInv DEF Next, Settle

\* The bookkeeping of the batch and its transactions (EventCollector), for any
\* events, batch size, number of retries and database.
THEOREM Collected == Spec => []CollectInv
BY CollectStart, CollectNext, PTL DEF Spec

\* The version of an entry is given up exactly when MaxRetryAttempts
\* transactions with it have failed (_runTask, its catch block).
THEOREM GivenUp == Spec => []BatchInv
<1>1. CollectInv => BatchInv
  BY DEF CollectInv, BatchInv
<1>. QED BY <1>1, Collected, PTL

\* The last version of an event that was stored (storeEvent) waits, is under
\* way, is in the table or was given up or pruned, unless one of the event's
\* entries was put back by a transaction that failed.
THEOREM LastKept == Spec => []LastVersionKept
<1>1. CollectInv => LastVersionKept
  BY DEF CollectInv
<1>. QED BY <1>1, Collected, PTL

\* A transaction writes a newer version, the clean-up deletes.
LEMMA RowsGoForward ==
  ASSUME CollectInv, [Next]_vars, NEW id \in Ids, id \notin requeued, rows'[id] # 0
  PROVE  rows'[id] >= rows[id]
<1>0. rows[id] \in Nat /\ TypeOK
  BY Types DEF CollectInv
<1>1. ASSUME rows' = rows PROVE rows'[id] >= rows[id]
  BY <1>0, <1>1
<1>2. ASSUME NEW f \in flights, Commit(f) PROVE rows'[id] >= rows[id]
  BY <1>0, <1>2, CommitRows
<1>3. ASSUME NEW f \in flights, Cleanup(f) PROVE rows'[id] >= rows[id]
  BY <1>0, <1>3 DEF Cleanup
<1>4. ASSUME NEW f \in flights, Abort(f) PROVE rows' = rows
  BY <1>4 DEF Abort
<1>5. ASSUME Start \/ Stop \/ RunTask \/ UNCHANGED vars PROVE rows' = rows
  BY <1>5 DEF Start, Stop, RunTask, vars
<1>6. ASSUME NEW i \in Ids, StoreEvent(i) PROVE rows' = rows
  BY <1>6 DEF StoreEvent
<1>. QED BY <1>1, <1>2, <1>3, <1>4, <1>5, <1>6 DEF Next, Settle

\* The row of an event does not go back to an older version (the transaction of
\* _runTask), unless one of the event's entries was put back.
THEOREM RowsForward == Spec => RowsNeverGoBack
<1>1. CollectInv /\ [Next]_vars =>
        [\A id \in Ids :
           id \notin requeued /\ rows'[id] # 0 => rows'[id] >= rows[id]]_vars
  BY RowsGoForward
<1>. QED BY <1>1, Collected, PTL DEF Spec, RowsNeverGoBack

=============================================================================
