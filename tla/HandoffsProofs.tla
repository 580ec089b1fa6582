---------------------------- MODULE HandoffsProofs ----------------------------
(* Theorems about Handoffs, for any users, agents, requests, handoffs,      *)
(* messages, restarts and evictions.                                        *)
EXTENDS Handoffs, WellFoundedInduction, TLAPS

LEMMA Constants ==
  /\ Requests \subseteq Nat \ {0} /\ Handoffs \subseteq Nat \ {0} /\ Messages \subseteq Nat \ {0}
  /\ MaxHandoffs \in Nat /\ MaxLapses \in Nat
  /\ \A u \in Users : u \notin Requests /\ u # None
  /\ Users \subseteq Threads /\ Requests \subseteq Threads
BY HandoffsAssumption DEF Requests, Handoffs, Messages, Threads, None

\* A set of handoffs has a last one.
LEMMA LastHandoff ==
  ASSUME NEW S \in SUBSET Handoffs, S # {}
  PROVE  \E h \in S : \A g \in S : g <= h
<1> DEFINE Rest == {MaxHandoffs - h : h \in S}
<1>1. Rest \subseteq Nat /\ Rest # {}
  <2>1. ASSUME NEW h \in S PROVE MaxHandoffs - h \in Nat
    <3>1. h \in 1..MaxHandoffs
      BY DEF Handoffs
    <3>. QED BY <3>1, Constants
  <2>2. PICK h \in S : TRUE
    OBVIOUS
  <2>3. MaxHandoffs - h \in Rest
    OBVIOUS
  <2>. QED BY <2>1, <2>3
<1> DEFINE Less == OpToRel(<, Nat)
<1>2. \A x, y \in Nat : <<y, x>> \in Less <=> y < x
  BY DEF OpToRel
<1>3a. IsWellFoundedOn(Less, Nat)
  BY NatLessThanWellFounded
<1>. HIDE DEF Less, Rest
<1>3. PICK x \in Rest : \A y \in Rest : ~ (<<y, x>> \in Less)
  BY <1>1, <1>3a, WFMin
<1>3b. ASSUME NEW y \in Rest PROVE x <= y
  <2>1. x \in Nat /\ y \in Nat
    BY <1>1
  <2>2. ~ (y < x)
    BY <2>1, <1>2, <1>3
  <2>. QED BY <2>1, <2>2
<1>. USE DEF Rest
<1>4. PICK h \in S : x = MaxHandoffs - h
  OBVIOUS
<1>5. ASSUME NEW g \in S PROVE g <= h
  <2>1. MaxHandoffs - h <= MaxHandoffs - g
    BY <1>3b, <1>4
  <2>. QED BY <2>1, Constants
<1>. QED BY <1>5

-----------------------------------------------------------------------------
(* The types. *)

LEMMA IdleTypes == NoRow \in Row /\ IdleRequest \in RequestRecord /\ IdleMessage \in MessageRecord
BY DEF NoRow, IdleRequest, IdleMessage, Row, RequestRecord, MessageRecord, None

LEMMA OverType == ASSUME NEW q \in RequestRecord PROVE Over(q) \in RequestRecord
BY DEF Over, IdleRequest, RequestRecord, None

LEMMA MovedType ==
  ASSUME NEW q \in RequestRecord, NEW at \in {"insert", "cache", "update", "expire"}
  PROVE  [q EXCEPT !.at = at] \in RequestRecord
BY DEF RequestRecord

LEMMA DestinationType ==
  ASSUME TypeOK, NEW h \in Handoffs, NEW t PROVE Destination(t, h) \in Threads \cup {None}
BY Constants DEF Destination, TypeOK, Row

LEMMA WarmType ==
  ASSUME TypeOK, NEW t \in Threads
  PROVE  /\ Warm(t) \in Handoffs \cup {None}
         /\ Warm(t) # None => t \in {rows[Warm(t)].user, rows[Warm(t)].thread}
<1> DEFINE of == {h \in Handoffs : IsActive(h) /\ t \in {rows[h].user, rows[h].thread}}
<1>1. CASE of = {}
  BY <1>1 DEF Warm
<1>2. CASE of # {}
  <2>1. \E h \in of : \A g \in of : g <= h
    BY <1>2, LastHandoff
  <2>2. Warm(t) = CHOOSE h \in of : \A g \in of : g <= h
    BY <1>2 DEF Warm
  <2>3. Warm(t) \in of
    BY <2>1, <2>2
  <2>. QED BY <2>3
<1>. QED BY <1>1, <1>2

\* The types of the functions of the model, by the step that changes them.
LEMMA TypesKept == HandoffInv /\ Next => TypeOK'
<1> SUFFICES ASSUME HandoffInv, Next PROVE TypeOK'
  OBVIOUS
<1>0. TypeOK
  BY DEF HandoffInv
<1>1. ASSUME NEW r \in Requests, Request(r) PROVE TypeOK'
  <2>1. PICK q : request' = [request EXCEPT ![r] = q] /\ q \in RequestRecord
    <3>1. ASSUME NEW u \in Users
          PROVE  [IdleRequest EXCEPT !.kind = "create", !.at = "look", !.user = u] \in RequestRecord
      BY IdleTypes DEF RequestRecord
    <3>2. ASSUME NEW h \in Handoffs, NEW kind \in {"tags", "assign", "resolve"}, NEW a \in Agents
          PROVE  [kind |-> kind, at |-> IF kind = "tags" THEN "update" ELSE "find",
                  user |-> rows[h].user, handoff |-> h, agent |-> a] \in RequestRecord
      BY <1>0 DEF TypeOK, Row, RequestRecord
    <3>. QED BY <1>1, <3>1, <3>2 DEF Request
  <2>2. request' \in [Requests -> RequestRecord]
    BY <1>0, <2>1 DEF TypeOK
  <2>. QED BY <1>0, <1>1, <2>2 DEF Request, TypeOK
<1>2. ASSUME NEW r \in Requests, Look(r) \/ Cache(r) \/ Find(r) \/ Update(r) \/ Expire(r)
      PROVE  request' \in [Requests -> RequestRecord]
  <2>1. \/ request' = [request EXCEPT ![r] = Over(request[r])]
        \/ \E at \in {"insert", "cache", "update", "expire"} : request' = [request EXCEPT ![r] = [request[r] EXCEPT !.at = at]]
    BY <1>2 DEF Look, Cache, Find, Update, Expire, Ends, Goto
  <2>2. Over(request[r]) \in RequestRecord
    BY <1>0, OverType DEF TypeOK
  <2>3. ASSUME NEW at \in {"insert", "cache", "update", "expire"} PROVE [request[r] EXCEPT !.at = at] \in RequestRecord
    BY <1>0, MovedType DEF TypeOK
  <2>. QED BY <1>0, <2>1, <2>2, <2>3 DEF TypeOK
<1>3. ASSUME NEW r \in Requests, Look(r) PROVE TypeOK'
  BY <1>0, <1>2, <1>3 DEF Look, TypeOK
<1>4. ASSUME NEW r \in Requests, Insert(r) PROVE TypeOK'
  <2>1. PICK h \in Handoffs :
          /\ rows' = [rows EXCEPT ![h] = [NoRow EXCEPT !.status = "pending", !.user = request[r].user]]
          /\ request' = [request EXCEPT ![r].handoff = h, ![r].at = "cache"]
    BY <1>4 DEF Insert
  <2>2. [NoRow EXCEPT !.status = "pending", !.user = request[r].user] \in Row
    BY <1>0, IdleTypes DEF TypeOK, RequestRecord, Row, Active
  <2>3. [request[r] EXCEPT !.handoff = h, !.at = "cache"] \in RequestRecord
    BY <1>0 DEF TypeOK, RequestRecord
  <2>4. rows' \in [Handoffs -> Row] /\ request' \in [Requests -> RequestRecord]
    BY <1>0, <2>1, <2>2, <2>3 DEF TypeOK
  <2>. QED BY <1>0, <1>4, <2>4 DEF Insert, TypeOK
<1>5. ASSUME NEW r \in Requests, Cache(r) PROVE TypeOK'
  <2>1. cache' \in [Threads -> Handoffs \cup {None}]
    BY <1>0, <1>5 DEF Cache, CacheHandoff, TypeOK, RequestRecord
  <2>. QED BY <1>0, <1>2, <1>5, <2>1 DEF Cache, TypeOK
<1>6. ASSUME NEW r \in Requests, Find(r) PROVE TypeOK'
  BY <1>0, <1>2, <1>6 DEF Find, TypeOK
<1>7. ASSUME NEW r \in Requests, Update(r) PROVE TypeOK'
  <2>1. request[r].kind \in {"tags", "assign", "resolve"} /\ request[r].handoff \in Handoffs
    BY <1>7 DEF Update, HandoffInv, RequestsKnow
  <2>2. PICK h \in Handoffs : h = request[r].handoff
    BY <2>1
  <2>3. /\ [rows[h] EXCEPT !.status = "assigned", !.agent = request[r].agent, !.thread = r] \in Row
        /\ [rows[h] EXCEPT !.status = "resolved"] \in Row
    <3>1. rows[h] \in Row /\ request[r].agent \in Agents \cup {None}
      BY <1>0 DEF TypeOK, RequestRecord
    <3>. QED BY <3>1 DEF Row, Active
  <2>4. \/ rows' = rows
        \/ rows' = [rows EXCEPT ![h] = [rows[h] EXCEPT !.status = "assigned", !.agent = request[r].agent, !.thread = r]]
        \/ rows' = [rows EXCEPT ![h] = [rows[h] EXCEPT !.status = "resolved"]]
    BY <1>7, <2>1, <2>2 DEF Update
  <2>5. rows' \in [Handoffs -> Row]
    BY <1>0, <2>3, <2>4 DEF TypeOK
  <2>. QED BY <1>0, <1>2, <1>7, <2>5 DEF Update, TypeOK
<1>8. ASSUME NEW r \in Requests, Expire(r) PROVE TypeOK'
  BY <1>0, <1>2, <1>8 DEF Expire, ExpireHandoff, TypeOK
<1>9. ASSUME NEW m \in Messages, Send(m) PROVE TypeOK'
  <2>1. PICK t \in Users \cup {rows[h].thread : h \in {g \in Handoffs : rows[g].thread # None}}
                       \cup {q \in Requests : cache[q] # None} :
          message' = [message EXCEPT ![m] = IF cache[t] = None THEN [IdleMessage EXCEPT !.at = "bot"]
                                            ELSE [at |-> "read", from |-> t, handoff |-> cache[t], to |-> None]]
    BY <1>9 DEF Send
  <2>2. t \in Threads
    BY <1>0, Constants DEF TypeOK, Row, Threads
  <2>3. /\ [IdleMessage EXCEPT !.at = "bot"] \in MessageRecord
        /\ [at |-> "read", from |-> t, handoff |-> cache[t], to |-> None] \in MessageRecord
    BY <1>0, <2>2, IdleTypes DEF TypeOK, MessageRecord
  <2>4. message' \in [Messages -> MessageRecord]
    BY <1>0, <2>1, <2>3 DEF TypeOK
  <2>. QED BY <1>0, <1>9, <2>4 DEF Send, TypeOK
<1>10. ASSUME NEW m \in Messages, Pipe(m) PROVE TypeOK'
  <2>1. message[m].handoff \in Handoffs
    BY <1>10 DEF Pipe, HandoffInv, NoCrossTalk
  <2>2. Destination(message[m].from, message[m].handoff) \in Threads \cup {None}
    BY <1>0, <2>1, DestinationType
  <2>3. [message[m] EXCEPT !.at = "piped", !.to = Destination(message[m].from, message[m].handoff)] \in MessageRecord
    BY <1>0, <2>2 DEF TypeOK, MessageRecord
  <2>4. message' \in [Messages -> MessageRecord]
    BY <1>0, <1>10, <2>3 DEF Pipe, TypeOK
  <2>. QED BY <1>0, <1>10, <2>4 DEF Pipe, TypeOK
<1>11. CASE Evict
  BY <1>0, <1>11, Constants DEF Evict, ExpireHandoff, TypeOK
<1>12. CASE Restart
  <2>1. cache' \in [Threads -> Handoffs \cup {None}]
    BY <1>0, <1>12, WarmType DEF Restart
  <2>2. request' \in [Requests -> RequestRecord]
    BY <1>0, <1>12, OverType DEF Restart, TypeOK
  <2>3. ASSUME NEW m \in Messages PROVE [message[m] EXCEPT !.at = "piped"] \in MessageRecord
    BY <1>0 DEF TypeOK, MessageRecord
  <2>4. message' \in [Messages -> MessageRecord]
    BY <1>0, <1>12, <2>3 DEF Restart, TypeOK
  <2>5. lapses' \in 0..MaxLapses
    BY <1>0, <1>12, Constants DEF Restart, TypeOK
  <2>. QED BY <1>0, <1>12, <2>1, <2>2, <2>4, <2>5 DEF Restart, TypeOK
<1>. QED BY <1>1, <1>3, <1>4, <1>5, <1>6, <1>7, <1>8, <1>9, <1>10, <1>11, <1>12 DEF Next

-----------------------------------------------------------------------------
(* What no step changes: the user of a handoff, and the handoff of a thread. *)

UsersStay == \A h \in Handoffs : rows[h].user # None => rows'[h].user = rows[h].user
ThreadsStay ==
  \A r \in Requests : Assigned(r) => Assigned(r)' /\ request'[r].handoff = request[r].handoff

LEMMA StepKeeps == HandoffInv /\ Next => UsersStay /\ ThreadsStay
<1> SUFFICES ASSUME HandoffInv, Next PROVE UsersStay /\ ThreadsStay
  OBVIOUS
<1>0. rows \in [Handoffs -> Row] /\ request \in [Requests -> RequestRecord]
  BY DEF HandoffInv, TypeOK
<1>1. UsersStay
  <2>1. ASSUME NEW r \in Requests, Insert(r) PROVE UsersStay
    <3>1. PICK h \in Handoffs : ~ Exists(h) /\ rows' = [rows EXCEPT ![h] = [NoRow EXCEPT !.status = "pending", !.user = request[r].user]]
      BY <2>1 DEF Insert
    <3>2. rows[h].user = None
      BY <3>1 DEF HandoffInv, ThreadsOwned, NoRow
    <3>. QED BY <1>0, <3>1, <3>2 DEF UsersStay
  <2>2. ASSUME NEW r \in Requests, Update(r) PROVE UsersStay
    <3>1. request[r].kind \in {"tags", "assign", "resolve"} /\ request[r].handoff \in Handoffs
      BY <2>2 DEF Update, HandoffInv, RequestsKnow
    <3>2. PICK h \in Handoffs : h = request[r].handoff
      BY <3>1
    <3>3. CASE rows' = [rows EXCEPT ![h].status = "assigned", ![h].agent = request[r].agent, ![h].thread = r]
      BY <1>0, <3>3 DEF UsersStay, Row
    <3>4. CASE rows' = [rows EXCEPT ![h].status = "resolved"]
      BY <1>0, <3>4 DEF UsersStay, Row
    <3>5. CASE rows' = rows
      BY <3>5 DEF UsersStay
    <3>. QED BY <2>2, <3>1, <3>2, <3>3, <3>4, <3>5 DEF Update
  <2>3. CASE rows' = rows
    BY <2>3 DEF UsersStay
  <2>. QED
    BY <2>1, <2>2, <2>3 DEF Next, Request, Look, Cache, Find, Expire, Send, Pipe, Evict, Restart
<1>2. ThreadsStay
  <2>1. ASSUME NEW r \in Requests, NEW q, request' = [request EXCEPT ![r] = q],
               Assigned(r) => q.at = "over" /\ q.handoff = request[r].handoff
        PROVE  ThreadsStay
    BY <1>0, <2>1 DEF ThreadsStay, Assigned
  <2>2. ASSUME NEW r \in Requests, Request(r) PROVE ThreadsStay
    <3>1. ~ Assigned(r)
      BY <2>2 DEF Request, NextRequest, Assigned
    <3>. QED BY <2>1, <2>2, <3>1 DEF Request
  <2>3. ASSUME NEW r \in Requests, Look(r) \/ Insert(r) \/ Find(r) \/ Update(r) \/ Expire(r) PROVE ThreadsStay
    <3>1. ~ Assigned(r)
      BY <2>3 DEF Look, Insert, Find, Update, Expire, Assigned
    <3>2. \E q : request' = [request EXCEPT ![r] = q]
      BY <2>3 DEF Look, Insert, Find, Update, Expire, Ends, Goto
    <3>. QED BY <2>1, <3>1, <3>2
  <2>4. ASSUME NEW r \in Requests, Cache(r) PROVE ThreadsStay
    <3>1. request' = [request EXCEPT ![r] = Over(request[r])]
      BY <2>4 DEF Cache, Ends
    <3>2. Assigned(r) => Over(request[r]).at = "over" /\ Over(request[r]).handoff = request[r].handoff
      BY <2>4 DEF Cache, Assigned, Over, IdleRequest
    <3>. QED BY <2>1, <3>1, <3>2
  <2>5. CASE Restart
    <3>1. ASSUME NEW r \in Requests, Assigned(r) PROVE request'[r].at = "over" /\ request'[r].handoff = request[r].handoff
      BY <2>5, <3>1 DEF Restart, Assigned, Live, Over, IdleRequest
    <3>. QED BY <3>1 DEF ThreadsStay, Assigned
  <2>6. CASE request' = request
    BY <2>6 DEF ThreadsStay, Assigned
  <2>. QED BY <2>2, <2>3, <2>4, <2>5, <2>6 DEF Next, Send, Pipe, Evict
<1>. QED BY <1>1, <1>2

ThreadsKept == \A t \in Threads, h \in Handoffs : IsThreadOf(t, h) => IsThreadOf(t, h)'

LEMMA StepKeepsThreads == HandoffInv /\ Next => ThreadsKept
<1> SUFFICES ASSUME HandoffInv, Next, NEW t \in Threads, NEW h \in Handoffs, IsThreadOf(t, h) PROVE IsThreadOf(t, h)'
  BY DEF ThreadsKept
<1>0. UsersStay /\ ThreadsStay
  BY StepKeeps
<1>1. CASE t \in Users
  BY <1>0, <1>1, Constants DEF IsThreadOf, UsersStay
<1>2. CASE t \notin Users
  BY <1>0, <1>2 DEF IsThreadOf, ThreadsStay, Threads
<1>. QED BY <1>1, <1>2

-----------------------------------------------------------------------------
(* The facts about threads, requests, the cache and the messages. *)

Owned(h) ==
  /\ IF Exists(h) THEN rows[h].user \in Users ELSE rows[h] = NoRow
  /\ rows[h].thread # None => \E t \in Threads : t = rows[h].thread /\ IsThreadOf(t, h)

LEMMA OwnedMeans == TypeOK => (ThreadsOwned <=> \A h \in Handoffs : Owned(h))
<1> SUFFICES ASSUME TypeOK PROVE ThreadsOwned <=> \A h \in Handoffs : Owned(h)
  OBVIOUS
<1>1. \A h \in Handoffs : rows[h].thread \in Threads \cup {None}
  BY DEF TypeOK, Row, Threads
<1>. QED BY <1>1 DEF ThreadsOwned, Owned

LEMMA ThreadsOwnedKept == HandoffInv /\ Next => ThreadsOwned'
<1> SUFFICES ASSUME HandoffInv, Next PROVE ThreadsOwned'
  OBVIOUS
<1> SUFFICES \A h \in Handoffs : Owned(h)'
  <2>1. rows' \in [Handoffs -> Row]
    BY TypesKept DEF TypeOK
  <2>. QED BY <2>1 DEF ThreadsOwned, Owned, Row, Threads
<1>0. rows \in [Handoffs -> Row] /\ request \in [Requests -> RequestRecord] /\ \A h \in Handoffs : Owned(h)
  BY OwnedMeans DEF HandoffInv, TypeOK
<1>k. ThreadsKept
  BY StepKeepsThreads
<1>1. ASSUME NEW h \in Handoffs, rows'[h] = rows[h] PROVE Owned(h)'
  BY <1>0, <1>k, <1>1 DEF Owned, ThreadsKept, Exists
<1>2. CASE rows' = rows
  BY <1>1, <1>2
<1>3. ASSUME NEW r \in Requests, Insert(r), NEW g \in Handoffs PROVE Owned(g)'
  <2>1. PICK h \in Handoffs :
          rows' = [rows EXCEPT ![h] = [NoRow EXCEPT !.status = "pending", !.user = request[r].user]]
    BY <1>3 DEF Insert
  <2>2. request[r].user \in Users
    BY <1>3 DEF Insert, HandoffInv, RequestsKnow
  <2>3. rows'[h].status = "pending" /\ rows'[h].user \in Users /\ rows'[h].thread = None
    BY <1>0, <2>1, <2>2 DEF NoRow
  <2>4. CASE g = h
    BY <2>3, <2>4 DEF Owned, Exists
  <2>5. CASE g # h
    BY <1>0, <1>1, <2>1, <2>5
  <2>. QED BY <2>4, <2>5
<1>4. ASSUME NEW r \in Requests, Update(r), NEW g \in Handoffs PROVE Owned(g)'
  <2>1. /\ request[r].kind \in {"tags", "assign", "resolve"} /\ request[r].handoff \in Handoffs
        /\ rows[request[r].handoff].user \in Users
    BY <1>4 DEF Update, HandoffInv, RequestsKnow
  <2>2. PICK h \in Handoffs : h = request[r].handoff
    BY <2>1
  <2>3. rows[h].user \in Users
    BY <2>1, <2>2
  <2>4. Exists(h)
    <3>1. Owned(h)
      BY <1>0
    <3>2. ASSUME ~ Exists(h) PROVE FALSE
      <4>1. rows[h] = NoRow
        BY <3>1, <3>2 DEF Owned
      <4>2. rows[h].user = None
        BY <4>1 DEF NoRow
      <4>. QED BY <2>3, <4>2, Constants
    <3>. QED BY <3>2
  <2>5. CASE rows' = [rows EXCEPT ![h].status = "assigned", ![h].agent = request[r].agent, ![h].thread = r]
             /\ request[r].kind = "assign"
    <3>1. rows'[h].status = "assigned" /\ rows'[h].user \in Users /\ rows'[h].thread = r
      BY <1>0, <2>3, <2>5 DEF Row
    <3>2. request' = [request EXCEPT ![r].at = "cache"]
      BY <1>4, <2>5 DEF Update, Goto
    <3>3. request'[r].at = "cache" /\ request'[r].kind = "assign" /\ request'[r].handoff = h
      BY <1>0, <2>2, <2>5, <3>2 DEF RequestRecord
    <3>4. IsThreadOf(r, h)'
      BY <3>3, Constants DEF IsThreadOf, Assigned
    <3>5. CASE g = h
      BY <3>1, <3>4, <3>5 DEF Owned, Exists, Threads
    <3>6. CASE g # h
      BY <1>0, <1>1, <2>5, <3>6
    <3>. QED BY <3>5, <3>6
  <2>6. CASE rows' = [rows EXCEPT ![h].status = "resolved"]
    <3>1. /\ rows'[h].status = "resolved" /\ rows'[h].user \in Users /\ rows'[h].thread = rows[h].thread
      BY <1>0, <2>3, <2>6 DEF Row
    <3>2. CASE g = h
      <4>1. Owned(h)
        BY <1>0
      <4>. QED BY <1>k, <3>1, <3>2, <4>1 DEF Owned, ThreadsKept, Exists
    <3>3. CASE g # h
      BY <1>0, <1>1, <2>6, <3>3
    <3>. QED BY <3>2, <3>3
  <2>. QED BY <1>2, <1>4, <2>1, <2>2, <2>5, <2>6 DEF Update
<1>. QED
  BY <1>2, <1>3, <1>4 DEF Next, Request, Look, Cache, Find, Expire, Send, Pipe, Evict, Restart

CachedRight(t) == cache[t] # None => \E h \in Handoffs : h = cache[t] /\ IsThreadOf(t, h)

LEMMA CacheMeans == TypeOK => (CachedUnderItsThread <=> \A t \in Threads : CachedRight(t))
  BY DEF CachedUnderItsThread, CachedRight, TypeOK

LEMMA CacheKept == HandoffInv /\ Next => CachedUnderItsThread'
<1> SUFFICES ASSUME HandoffInv, Next PROVE \A t \in Threads : CachedRight(t)'
  BY TypesKept DEF CachedUnderItsThread, CachedRight, TypeOK
<1>0. TypeOK /\ \A t \in Threads : CachedRight(t)
  BY CacheMeans DEF HandoffInv
<1>c. cache \in [Threads -> Handoffs \cup {None}]
  BY <1>0 DEF TypeOK
<1>k. ThreadsKept
  BY StepKeepsThreads
<1>1. ASSUME NEW t \in Threads, cache'[t] \in {cache[t], None} PROVE CachedRight(t)'
  BY <1>0, <1>k, <1>1 DEF CachedRight, ThreadsKept
<1>2. ASSUME cache' = cache \/ \E t \in Threads : ExpireHandoff(t), NEW s \in Threads PROVE CachedRight(s)'
  BY <1>c, <1>1, <1>2 DEF ExpireHandoff
<1>4. ASSUME NEW r \in Requests, Cache(r), NEW s \in Threads PROVE CachedRight(s)'
  <2>1. /\ request[r].handoff \in Handoffs /\ request[r].user \in Users
        /\ rows[request[r].handoff].user = request[r].user /\ request[r].at = "cache"
    BY <1>4 DEF Cache, HandoffInv, RequestsKnow
  <2> DEFINE thread == IF request[r].kind = "assign" THEN r ELSE request[r].user
             h == request[r].handoff
  <2>2. thread \in Threads /\ h \in Handoffs /\ IsThreadOf(thread, h)
    BY <2>1, Constants DEF IsThreadOf, Assigned, Threads
  <2>3. cache' = [cache EXCEPT ![thread] = h]
    BY <1>4 DEF Cache, CacheHandoff
  <2>. HIDE DEF thread, h
  <2>4. PICK k \in Handoffs : k = h
    BY <2>2
  <2>5. PICK u \in Threads : u = thread
    BY <2>2
  <2>6. IsThreadOf(u, k)'
    BY <1>k, <2>2, <2>4, <2>5 DEF ThreadsKept
  <2>7. CASE s = u
    BY <1>c, <2>3, <2>4, <2>5, <2>6, <2>7 DEF CachedRight
  <2>8. CASE s # u
    BY <1>c, <1>1, <2>3, <2>5, <2>8
  <2>. QED BY <2>7, <2>8
<1>5. ASSUME Restart, NEW t \in Threads PROVE CachedRight(t)'
  <2>1. cache'[t] = Warm(t)
    BY <1>5 DEF Restart
  <2>2. ASSUME NEW h \in Handoffs, t \in {rows[h].user, rows[h].thread} PROVE IsThreadOf(t, h)
    <3>1. Owned(h)
      BY <1>0, OwnedMeans DEF HandoffInv
    <3>4. t # None
      BY Constants DEF Threads, None
    <3>2. CASE rows[h].thread = t
      BY <3>1, <3>2, <3>4 DEF Owned
    <3>3. CASE rows[h].user = t
      BY <3>1, <3>3, <3>4, Constants DEF Owned, NoRow, IsThreadOf
    <3>. QED BY <2>2, <3>2, <3>3
  <2>3. ASSUME cache'[t] # None PROVE \E h \in Handoffs : h = cache'[t] /\ IsThreadOf(t, h)'
    <3>1. PICK h \in Handoffs : h = cache'[t] /\ t \in {rows[h].user, rows[h].thread}
      BY <1>0, <2>1, <2>3, WarmType
    <3>. QED BY <1>k, <2>2, <3>1 DEF ThreadsKept
  <2>. QED BY <2>3 DEF CachedRight
<1>. QED
  <2>1. ASSUME NEW r \in Requests, Expire(r) PROVE request[r].user \in Threads
    BY <2>1 DEF Expire, HandoffInv, RequestsKnow, Threads
  <2>. QED
    BY <1>2, <1>4, <1>5, <2>1 DEF Next, Request, Look, Insert, Find, Update, Expire, Send, Pipe, Evict

\* What request record q knows of table t.
Knows(q, t) ==
  /\ q.at \in {"look", "insert"} => q.kind = "create" /\ q.user \in Users
  /\ q.at \in {"find", "update", "cache", "expire"} =>
       q.handoff \in Handoffs /\ q.user \in Users /\ t[q.handoff].user = q.user
  /\ q.at = "update" => q.kind \in {"tags", "assign", "resolve"}
  /\ q.at = "find" => q.kind \in {"assign", "resolve"}

LEMMA RequestsKnowKept == HandoffInv /\ Next => RequestsKnow'
<1> SUFFICES ASSUME HandoffInv, Next PROVE RequestsKnow'
  OBVIOUS
<1>0. /\ request \in [Requests -> RequestRecord] /\ rows \in [Handoffs -> Row]
      /\ \A r \in Requests : Knows(request[r], rows)
  BY DEF HandoffInv, TypeOK, RequestsKnow, Knows
<1>k. UsersStay
  BY StepKeeps
<1>1. ASSUME NEW q, Knows(q, rows) PROVE Knows(q, rows')
  BY <1>k, <1>1, Constants DEF Knows, UsersStay
<1>2. ASSUME NEW r \in Requests, NEW q, request' = [request EXCEPT ![r] = q], Knows(q, rows')
      PROVE  RequestsKnow'
  <2>1. ASSUME NEW s \in Requests PROVE Knows(request'[s], rows')
    <3>1. CASE s = r
      BY <1>0, <1>2, <3>1
    <3>2. CASE s # r
      BY <1>0, <1>1, <1>2, <3>2
    <3>. QED BY <3>1, <3>2
  <2>. QED BY <2>1 DEF RequestsKnow, Knows
<1>3. ASSUME NEW r \in Requests, Request(r) PROVE RequestsKnow'
  <2>1. ASSUME NEW u \in Users
        PROVE  Knows([IdleRequest EXCEPT !.kind = "create", !.at = "look", !.user = u], rows')
    BY DEF Knows, IdleRequest
  <2>2. ASSUME NEW h \in Handoffs, Exists(h), NEW kind \in {"tags", "assign", "resolve"}, NEW a
        PROVE  Knows([kind |-> kind, at |-> IF kind = "tags" THEN "update" ELSE "find",
                      user |-> rows[h].user, handoff |-> h, agent |-> a], rows)
    BY <2>2 DEF Knows, HandoffInv, ThreadsOwned
  <2>. QED BY <1>1, <1>2, <1>3, <2>1, <2>2 DEF Request
<1>4. ASSUME NEW r \in Requests, request' = [request EXCEPT ![r] = Over(request[r])] PROVE RequestsKnow'
  <2>1. Knows(Over(request[r]), rows')
    BY DEF Knows, Over, IdleRequest
  <2>. QED BY <1>2, <1>4, <2>1
<1>5. ASSUME NEW r \in Requests, NEW at \in {"insert", "update", "cache", "expire"},
             request' = [request EXCEPT ![r].at = at],
             Knows([request[r] EXCEPT !.at = at], rows)
      PROVE  RequestsKnow'
  BY <1>1, <1>2, <1>5
<1>6. ASSUME NEW r \in Requests, Look(r) PROVE RequestsKnow'
  <2>1. Knows([request[r] EXCEPT !.at = "insert"], rows)
    BY <1>0, <1>6 DEF Look, Knows, RequestRecord
  <2>. QED BY <1>4, <1>5, <1>6, <2>1 DEF Look, Ends, Goto
<1>7. ASSUME NEW r \in Requests, Insert(r) PROVE RequestsKnow'
  <2>1. PICK h \in Handoffs :
          /\ rows' = [rows EXCEPT ![h] = [NoRow EXCEPT !.status = "pending", !.user = request[r].user]]
          /\ request' = [request EXCEPT ![r].handoff = h, ![r].at = "cache"]
    BY <1>7 DEF Insert
  <2>2. request[r].user \in Users
    BY <1>0, <1>7 DEF Insert, Knows
  <2>3. rows'[h].user = request[r].user
    BY <1>0, <2>1 DEF NoRow
  <2>4. Knows([request[r] EXCEPT !.handoff = h, !.at = "cache"], rows')
    BY <1>0, <2>2, <2>3 DEF Knows, RequestRecord
  <2>5. request' = [request EXCEPT ![r] = [request[r] EXCEPT !.handoff = h, !.at = "cache"]]
    BY <1>0, <2>1
  <2>. QED BY <1>2, <2>4, <2>5
<1>8. ASSUME NEW r \in Requests, Find(r) PROVE RequestsKnow'
  <2>1. Knows([request[r] EXCEPT !.at = "update"], rows)
    BY <1>0, <1>8 DEF Find, Knows, RequestRecord
  <2>. QED BY <1>4, <1>5, <1>8, <2>1 DEF Find, Ends, Goto
<1>9. ASSUME NEW r \in Requests, Update(r) PROVE RequestsKnow'
  <2>1. ASSUME NEW at \in {"cache", "expire"} PROVE Knows([request[r] EXCEPT !.at = at], rows)
    BY <1>0, <1>9 DEF Update, Knows, RequestRecord
  <2>. QED BY <1>5, <1>9, <2>1 DEF Update, Goto
<1>10. CASE Restart
  <2>1. ASSUME NEW r \in Requests PROVE Knows(request'[r], rows')
    <3>1. Knows(Over(request[r]), rows')
      BY DEF Knows, Over, IdleRequest
    <3>2. Knows(request[r], rows')
      BY <1>0, <1>1
    <3>. QED BY <1>10, <3>1, <3>2 DEF Restart
  <2>. QED BY <2>1 DEF RequestsKnow, Knows
<1>11. CASE UNCHANGED request
  BY <1>0, <1>1, <1>11 DEF RequestsKnow, Knows
<1>. QED
  BY <1>3, <1>4, <1>6, <1>7, <1>8, <1>9, <1>10, <1>11 DEF Next, Cache, Expire, Ends, Send, Pipe, Evict

-----------------------------------------------------------------------------
(* The messages. *)

\* A message record that leads nowhere else than within its conversation.
Among(a, b) ==
  \E h \in Handoffs :
    /\ IsThreadOf(a, h) /\ IsThreadOf(b, h)
    /\ {a, b} \cap Users # {} /\ {a, b} \cap Requests # {}

LEMMA AmongKept ==
  ASSUME ThreadsKept, NEW a \in Threads, NEW b \in Threads, Among(a, b) PROVE Among(a, b)'
BY DEF Among, ThreadsKept

LEMMA DestinationAmong ==
  ASSUME HandoffInv, NEW t \in Threads, NEW h \in Handoffs, IsThreadOf(t, h), Destination(t, h) # None
  PROVE  Destination(t, h) \in Threads /\ Among(t, Destination(t, h))
<1>0. /\ rows[h].user \in Users \cup {None}
      /\ rows[h].thread \in Requests \cup {None}
      /\ rows[h].thread # None => IsThreadOf(rows[h].thread, h)
  BY DEF HandoffInv, TypeOK, Row, ThreadsOwned
<1>1. CASE rows[h].user = t
  <2>1. Destination(t, h) = rows[h].thread
    BY <1>1 DEF Destination
  <2>2. t \in Users
    BY <1>0, <1>1, Constants DEF Threads, None
  <2>. QED BY <1>0, <2>1, <2>2, Constants DEF Among
<1>2. CASE rows[h].user # t
  <2>1. Destination(t, h) = rows[h].user /\ rows[h].thread = t
    BY <1>2 DEF Destination
  <2>2. rows[h].user \in Users /\ t \in Requests
    BY <1>0, <2>1, Constants DEF Threads, None
  <2>3. IsThreadOf(rows[h].user, h)
    BY <2>2 DEF IsThreadOf
  <2>. QED BY <2>1, <2>2, <2>3, Constants DEF Among
<1>. QED BY <1>1, <1>2

\* What message record q may be.
Talks(q) ==
  /\ q.at = "read" => q.handoff \in Handoffs /\ q.from \in Threads /\ IsThreadOf(q.from, q.handoff)
  /\ q.to # None => q.from \in Threads /\ Among(q.from, q.to)

LEMMA TalksMeans == NoCrossTalk <=> \A m \in Messages : Talks(message[m])
BY DEF NoCrossTalk, Talks, Among

LEMMA NoCrossTalkKept == HandoffInv /\ Next => NoCrossTalk'
<1> SUFFICES ASSUME HandoffInv, Next PROVE NoCrossTalk'
  OBVIOUS
<1>0. /\ message \in [Messages -> MessageRecord] /\ cache \in [Threads -> Handoffs \cup {None}]
      /\ \A m \in Messages : Talks(message[m])
  BY TalksMeans DEF HandoffInv, TypeOK
<1>k. ThreadsKept
  BY StepKeepsThreads
<1>1. ASSUME NEW q \in MessageRecord, Talks(q) PROVE Talks(q)'
  <2>1. ASSUME q.at = "read" PROVE q.handoff \in Handoffs /\ q.from \in Threads /\ IsThreadOf(q.from, q.handoff)'
    BY <1>k, <1>1, <2>1 DEF Talks, ThreadsKept
  <2>2. ASSUME q.to # None PROVE q.from \in Threads /\ Among(q.from, q.to)'
    <3>1. q.from \in Threads /\ q.to \in Threads /\ Among(q.from, q.to)
      BY <1>1, <2>2 DEF Talks, MessageRecord
    <3>. QED BY <1>k, <3>1, AmongKept
  <2>. QED BY <2>1, <2>2 DEF Talks
<1>2. ASSUME \A m \in Messages : \E q \in MessageRecord : Talks(q) /\ message'[m] = q
      PROVE  NoCrossTalk'
  <2>1. ASSUME NEW m \in Messages
        PROVE  /\ message'[m].at = "read" =>
                    message'[m].handoff \in Handoffs /\ message'[m].from \in Threads
                      /\ \E t \in Threads, h \in Handoffs :
                           t = message'[m].from /\ h = message'[m].handoff /\ IsThreadOf(t, h)'
               /\ message'[m].to # None =>
                    message'[m].from \in Threads
                      /\ \E a, b \in Threads : a = message'[m].from /\ b = message'[m].to /\ Among(a, b)'
    <3>1. PICK q \in MessageRecord : Talks(q) /\ message'[m] = q
      BY <1>2
    <3>2. Talks(q)'
      BY <1>1, <3>1
    <3>3. q.to # None => q.to \in Threads
      BY DEF MessageRecord
    <3>. QED BY <3>1, <3>2, <3>3 DEF Talks
  <2>. QED BY <2>1 DEF NoCrossTalk, Among
<1>3. ASSUME NEW m \in Messages, NEW q \in MessageRecord, Talks(q), message' = [message EXCEPT ![m] = q]
      PROVE  NoCrossTalk'
  BY <1>0, <1>2, <1>3
<1>4. ASSUME NEW m \in Messages, Send(m) PROVE NoCrossTalk'
  <2>1. PICK t \in Users \cup {rows[h].thread : h \in {g \in Handoffs : rows[g].thread # None}}
                       \cup {q \in Requests : cache[q] # None} :
          message' = [message EXCEPT ![m] = IF cache[t] = None THEN [IdleMessage EXCEPT !.at = "bot"]
                                            ELSE [at |-> "read", from |-> t, handoff |-> cache[t], to |-> None]]
    BY <1>4 DEF Send
  <2>2. t \in Threads
    BY Constants DEF HandoffInv, TypeOK, Row, Threads
  <2>3. [IdleMessage EXCEPT !.at = "bot"] \in MessageRecord /\ Talks([IdleMessage EXCEPT !.at = "bot"])
    BY IdleTypes DEF MessageRecord, IdleMessage, Talks
  <2>4. ASSUME cache[t] # None
        PROVE  /\ [at |-> "read", from |-> t, handoff |-> cache[t], to |-> None] \in MessageRecord
               /\ Talks([at |-> "read", from |-> t, handoff |-> cache[t], to |-> None])
    <3>1. cache[t] \in Handoffs /\ IsThreadOf(t, cache[t])
      BY <1>0, <2>2, <2>4 DEF HandoffInv, CachedUnderItsThread
    <3>. QED BY <2>2, <3>1 DEF MessageRecord, Talks
  <2>. QED BY <1>3, <2>1, <2>3, <2>4
<1>5. ASSUME NEW m \in Messages, Pipe(m) PROVE NoCrossTalk'
  <2> DEFINE from == message[m].from
             handoff == message[m].handoff
             to == Destination(from, handoff)
  <2>1. handoff \in Handoffs /\ from \in Threads /\ IsThreadOf(from, handoff)
    BY <1>0, <1>5 DEF Pipe, Talks
  <2>. HIDE DEF from, handoff
  <2>2. to \in Threads \cup {None}
    BY <2>1, DestinationType DEF HandoffInv
  <2>3. to # None => Among(from, to)
    BY <2>1, DestinationAmong
  <2>. HIDE DEF to
  <2>4. [message[m] EXCEPT !.at = "piped", !.to = to] \in MessageRecord
    BY <1>0, <2>2 DEF MessageRecord
  <2>5. Talks([message[m] EXCEPT !.at = "piped", !.to = to])
    <3>1. message[m].from = from
      BY DEF from
    <3>. QED BY <1>0, <2>1, <2>3, <3>1 DEF Talks, MessageRecord
  <2>6. message' = [message EXCEPT ![m] = [message[m] EXCEPT !.at = "piped", !.to = to]]
    BY <1>0, <1>5 DEF Pipe, to, from, handoff
  <2>. QED BY <1>3, <2>4, <2>5, <2>6
<1>6. CASE Restart
  <2>1. ASSUME NEW m \in Messages
        PROVE  [message[m] EXCEPT !.at = "piped"] \in MessageRecord /\ Talks([message[m] EXCEPT !.at = "piped"])
    BY <1>0 DEF MessageRecord, Talks
  <2>. QED BY <1>0, <1>2, <1>6, <2>1 DEF Restart
<1>7. CASE UNCHANGED message
  BY <1>0, <1>2, <1>7
<1>. QED
  BY <1>4, <1>5, <1>6, <1>7 DEF Next, Request, Look, Insert, Cache, Find, Update, Expire, Evict

-----------------------------------------------------------------------------
(* The theorem. *)

LEMMA InitHandoffInv == Init => HandoffInv
<1> SUFFICES ASSUME Init PROVE HandoffInv
  OBVIOUS
<1>1. TypeOK
  BY IdleTypes, Constants DEF Init, TypeOK
<1>2. ThreadsOwned
  BY DEF Init, ThreadsOwned, Exists, NoRow
<1>3. RequestsKnow
  BY DEF Init, RequestsKnow, IdleRequest
<1>4. CachedUnderItsThread
  BY DEF Init, CachedUnderItsThread
<1>5. NoCrossTalk
  BY DEF Init, NoCrossTalk, IdleMessage
<1>. QED BY <1>1, <1>2, <1>3, <1>4, <1>5 DEF HandoffInv

LEMMA StutterHandoffInv == HandoffInv /\ UNCHANGED vars => HandoffInv'
<1> SUFFICES ASSUME HandoffInv, UNCHANGED vars PROVE HandoffInv'
  OBVIOUS
<1>1. TypeOK'
  BY DEF HandoffInv, TypeOK, vars
<1>2. ThreadsOwned' /\ RequestsKnow' /\ CachedUnderItsThread' /\ NoCrossTalk'
  BY DEF HandoffInv, vars, ThreadsOwned, RequestsKnow, CachedUnderItsThread, NoCrossTalk, IsThreadOf, Assigned, Exists
<1>. QED BY <1>1, <1>2 DEF HandoffInv

\* Whatever the requests, the messages, the restarts and the evictions do, and
\* in whatever order: a thread is cached with a handoff of its own, a message
\* that was looked up is piped to the other side of its own conversation, and
\* each request knows the conversation of its handoff (api.ts, middleware.ts).
THEOREM HandoffInvariance == Spec => []HandoffInv
<1>1. HandoffInv /\ [Next]_vars => HandoffInv'
  BY TypesKept, ThreadsOwnedKept, RequestsKnowKept, CacheKept, NoCrossTalkKept, StutterHandoffInv DEF HandoffInv
<1>. QED BY InitHandoffInv, <1>1, PTL DEF Spec

-----------------------------------------------------------------------------
(* The status of a handoff, as long as no two assignments were under way     *)
(* together.                                                                 *)

\* Requests of one conversation that are under way together.
Together(q, r) ==
  q # r /\ Live(q) /\ Live(r) /\ request[q].user = request[r].user

\* Those that have come together are either still so, or in the history.
LEMMA Pairs ==
  ASSUME HandoffInv, Next, NEW q \in Requests, NEW r \in Requests, Together(q, r)'
  PROVE  \/ /\ Together(q, r)
            /\ request'[q].kind = request[q].kind /\ request'[r].kind = request[r].kind
         \/ {request'[q].kind, request'[r].kind} \in crossings'
<1>0. request \in [Requests -> RequestRecord]
  BY DEF HandoffInv, TypeOK
<1> DEFINE Stays(s) == Live(s) /\ request'[s].kind = request[s].kind /\ request'[s].user = request[s].user
<1>1. ASSUME NEW s \in Requests, Request(s), NEW p \in Requests, p # s, Live(p),
             request'[s].user = request[p].user
      PROVE  {request'[s].kind, request[p].kind} \in crossings'
  <2>1. ASSUME NEW kind, NEW u, NEW h, crossings' = crossings \cup Crossed(kind, u, h), u = request[p].user
        PROVE  {kind, request[p].kind} \in crossings'
    BY <1>1, <2>1 DEF Crossed
  <2>2. CASE \E u \in Users :
               /\ request' = [request EXCEPT ![s] = [IdleRequest EXCEPT !.kind = "create", !.at = "look", !.user = u]]
               /\ crossings' = crossings \cup Crossed("create", u, None)
    BY <1>0, <1>1, <2>1, <2>2 DEF IdleRequest
  <2>3. CASE \E h \in Handoffs, kind \in {"tags", "assign", "resolve"}, a \in Agents :
               /\ request' = [request EXCEPT ![s] = [kind |-> kind, at |-> IF kind = "tags" THEN "update" ELSE "find",
                                                     user |-> rows[h].user, handoff |-> h, agent |-> a]]
               /\ crossings' = crossings \cup Crossed(kind, rows[h].user, h)
    BY <1>0, <1>1, <2>1, <2>3
  <2>. QED BY <1>1, <2>2, <2>3 DEF Request
<1>2. ASSUME NEW s \in Requests, Request(s), NEW p \in Requests, p # s
      PROVE  request'[p] = request[p]
  BY <1>0, <1>2 DEF Request
<1>3. CASE \E s \in Requests : Request(s)
  <2>1. PICK s \in Requests : Request(s)
    BY <1>3
  <2>2. CASE q = s
    <3>1. request'[r] = request[r] /\ Live(r)
      BY <1>2, <2>1, <2>2 DEF Together, Live
    <3>. QED BY <1>1, <2>1, <2>2, <3>1 DEF Together
  <2>3. CASE r = s
    <3>1. request'[q] = request[q] /\ Live(q)
      BY <1>2, <2>1, <2>3 DEF Together, Live
    <3>2. {request'[r].kind, request'[q].kind} \in crossings'
      BY <1>1, <2>1, <2>3, <3>1 DEF Together
    <3>3. {request'[r].kind, request'[q].kind} = {request'[q].kind, request'[r].kind}
      OBVIOUS
    <3>. QED BY <3>2, <3>3
  <2>4. CASE q # s /\ r # s
    BY <1>2, <2>1, <2>4 DEF Together, Live
  <2>. QED BY <2>2, <2>3, <2>4
<1>4. ASSUME \A s \in Requests : ~ Request(s), NEW p \in Requests, Live(p)'
      PROVE  Stays(p)
  <2>1. ASSUME NEW s \in Requests, NEW x \in RequestRecord, request' = [request EXCEPT ![s] = x],
               x.at = "over" \/ (Live(s) /\ x.kind = request[s].kind /\ x.user = request[s].user)
        PROVE  Stays(p)
    BY <1>0, <1>4, <2>1 DEF Live
  <2>2. ASSUME NEW s \in Requests, Ends(s) PROVE Stays(p)
    <3>1. Over(request[s]) \in RequestRecord /\ Over(request[s]).at = "over"
      BY <1>0, OverType DEF Over, IdleRequest
    <3>. QED BY <2>1, <2>2, <3>1 DEF Ends
  <2>3. ASSUME NEW s \in Requests, NEW at \in {"insert", "cache", "update", "expire"}, Goto(s, at), Live(s)
        PROVE  Stays(p)
    <3>1. [request[s] EXCEPT !.at = at] \in RequestRecord
      BY <1>0, MovedType
    <3>2. [request[s] EXCEPT !.at = at].kind = request[s].kind /\ [request[s] EXCEPT !.at = at].user = request[s].user
      BY <1>0 DEF RequestRecord
    <3>. QED BY <2>1, <2>3, <3>1, <3>2 DEF Goto
  <2>4. ASSUME NEW s \in Requests, Insert(s) PROVE Stays(p)
    <3>1. PICK h \in Handoffs : request' = [request EXCEPT ![s].handoff = h, ![s].at = "cache"]
      BY <2>4 DEF Insert
    <3>. QED BY <1>0, <1>4, <2>4, <3>1 DEF Insert, Live, RequestRecord
  <2>5. ASSUME NEW s \in Requests, Look(s) \/ Cache(s) \/ Find(s) \/ Update(s) \/ Expire(s) PROVE Stays(p)
    <3>1. Live(s)
      BY <2>5 DEF Look, Cache, Find, Update, Expire, Live
    <3>. QED BY <2>2, <2>3, <2>5, <3>1 DEF Look, Cache, Find, Update, Expire
  <2>6. CASE Restart
    <3>1. Over(request[p]).at = "over"
      BY DEF Over, IdleRequest
    <3>. QED BY <1>0, <1>4, <2>6, <3>1 DEF Restart, Live
  <2>7. CASE UNCHANGED request
    BY <1>4, <2>7 DEF Live
  <2>. QED BY <1>4, <2>4, <2>5, <2>6, <2>7 DEF Next, Send, Pipe, Evict
<1>5. CASE \A s \in Requests : ~ Request(s)
  <2>1. Stays(q) /\ Stays(r)
    BY <1>4, <1>5 DEF Together
  <2>. QED BY <2>1 DEF Together
<1>. QED BY <1>3, <1>5

LEMMA CrossingsGrow == Next => crossings \subseteq crossings'
BY DEF Next, Request, Look, Insert, Cache, Find, Update, Expire, Send, Pipe, Evict, Restart

\* What a request that has validated the status of its handoff relies on.
Validated(r) ==
  request[r].at = "update" =>
    /\ request[r].kind = "assign" => rows[request[r].handoff].status = "pending"
    /\ request[r].kind = "resolve" => rows[request[r].handoff].status \in {"assigned", "resolved"}

StatusInv ==
  {"assign"} \notin crossings =>
    /\ \A q, r \in Requests : Together(q, r) => {request[q].kind, request[r].kind} # {"assign"}
    /\ \A r \in Requests : Validated(r)

Forward ==
  {<<s, s>> : s \in Active \cup {"none", "resolved"}}
    \cup {<<"none", "pending">>, <<"pending", "assigned">>, <<"assigned", "resolved">>}
\* Requests of one handoff are of one conversation, that of a row that exists.
LEMMA SameHandoff ==
  ASSUME HandoffInv, NEW r \in Requests, request[r].at \in {"find", "update", "cache", "expire"}
  PROVE  /\ Live(r) /\ request[r].handoff \in Handoffs /\ request[r].user \in Users
         /\ rows[request[r].handoff].user = request[r].user /\ Exists(request[r].handoff)
<1>1. /\ Live(r) /\ request[r].handoff \in Handoffs /\ request[r].user \in Users
      /\ rows[request[r].handoff].user = request[r].user
  BY DEF HandoffInv, RequestsKnow, Live
<1>2. Exists(request[r].handoff)
  <2>1. PICK h \in Handoffs : h = request[r].handoff
    BY <1>1
  <2>2. rows[h].user # None
    BY <1>1, <2>1, Constants
  <2>3. rows[h] # NoRow
    BY <2>2 DEF NoRow
  <2>. QED BY <2>1, <2>3 DEF HandoffInv, ThreadsOwned
<1>. QED BY <1>1, <1>2

\* A request that is over, and one that goes on.
LEMMA Ended ==
  ASSUME HandoffInv, NEW r \in Requests, Ends(r)
  PROVE  request'[r].at = "over" /\ \A s \in Requests : s # r => request'[s] = request[s]
<1>1. Over(request[r]).at = "over"
  BY DEF Over, IdleRequest
<1>. QED BY <1>1 DEF Ends, HandoffInv, TypeOK

LEMMA Gone ==
  ASSUME HandoffInv, NEW r \in Requests, NEW at, Goto(r, at)
  PROVE  /\ request'[r].at = at /\ request'[r].kind = request[r].kind
         /\ request'[r].user = request[r].user /\ request'[r].handoff = request[r].handoff
         /\ \A s \in Requests : s # r => request'[s] = request[s]
<1>1. request \in [Requests -> RequestRecord] /\ request[r] \in RequestRecord
  BY DEF HandoffInv, TypeOK
<1>. QED BY <1>1 DEF Goto, RequestRecord

\* What an update makes of the row of its handoff, and leaves of the others.
LEMMA Updates ==
  ASSUME HandoffInv, NEW r \in Requests, Update(r)
  PROVE  LET h == request[r].handoff IN
         /\ request[r].kind \in {"tags", "assign", "resolve"} /\ h \in Handoffs
         /\ request'[r].at = IF request[r].kind = "resolve" THEN "expire" ELSE "cache"
         /\ request'[r].kind = request[r].kind /\ request'[r].user = request[r].user
         /\ request'[r].handoff = h
         /\ \A s \in Requests : s # r => request'[s] = request[s]
         /\ \A g \in Handoffs : g # h => rows'[g] = rows[g]
         /\ rows'[h].user = rows[h].user
         /\ request[r].kind = "tags" => rows' = rows
         /\ request[r].kind = "assign" =>
              /\ rows'[h].status = "assigned" /\ rows'[h].thread = r
              /\ rows'[h].agent = request[r].agent
         /\ request[r].kind = "resolve" =>
              /\ rows'[h].status = "resolved" /\ rows'[h].thread = rows[h].thread
              /\ rows'[h].agent = rows[h].agent
<1>0. rows \in [Handoffs -> Row] /\ request \in [Requests -> RequestRecord]
  BY DEF HandoffInv, TypeOK
<1>1. request[r].kind \in {"tags", "assign", "resolve"} /\ request[r].handoff \in Handoffs
  BY DEF Update, HandoffInv, RequestsKnow
<1>2. request' = [request EXCEPT ![r] = [request[r] EXCEPT !.at = IF request[r].kind = "resolve" THEN "expire" ELSE "cache"]]
  BY <1>0 DEF Update, Goto
<1>3. /\ request'[r].at = IF request[r].kind = "resolve" THEN "expire" ELSE "cache"
      /\ request'[r].kind = request[r].kind /\ request'[r].user = request[r].user
      /\ request'[r].handoff = request[r].handoff
      /\ \A s \in Requests : s # r => request'[s] = request[s]
  BY <1>0, <1>2 DEF RequestRecord
<1>4. PICK h \in Handoffs : h = request[r].handoff
  BY <1>1
<1>5. rows[h] \in Row
  BY <1>0
<1>6. CASE request[r].kind = "tags"
  BY <1>1, <1>3, <1>4, <1>6 DEF Update
<1>7. CASE request[r].kind = "assign"
  <2>1. rows' = [rows EXCEPT ![h].status = "assigned", ![h].agent = request[r].agent, ![h].thread = r]
    BY <1>4, <1>7 DEF Update
  <2>2. /\ rows'[h].status = "assigned" /\ rows'[h].thread = r /\ rows'[h].agent = request[r].agent
        /\ rows'[h].user = rows[h].user /\ \A g \in Handoffs : g # h => rows'[g] = rows[g]
    BY <1>0, <1>5, <2>1 DEF Row
  <2>. QED BY <1>1, <1>3, <1>4, <1>7, <2>2
<1>8. CASE request[r].kind = "resolve"
  <2>1. rows' = [rows EXCEPT ![h].status = "resolved"]
    BY <1>4, <1>8 DEF Update
  <2>2. /\ rows'[h].status = "resolved" /\ rows'[h].thread = rows[h].thread /\ rows'[h].agent = rows[h].agent
        /\ rows'[h].user = rows[h].user /\ \A g \in Handoffs : g # h => rows'[g] = rows[g]
    BY <1>0, <1>5, <2>1 DEF Row
  <2>. QED BY <1>1, <1>3, <1>4, <1>8, <2>2
<1>. QED BY <1>1, <1>6, <1>7, <1>8

\* What an insertion does: row h, which was free, is the pending handoff.
LEMMA Inserts ==
  ASSUME HandoffInv, NEW r \in Requests, Insert(r)
  PROVE  \E h \in Handoffs :
           /\ ~ Exists(h) /\ rows[h] = NoRow
           /\ rows'[h].status = "pending" /\ rows'[h].user = request[r].user
           /\ rows'[h].agent = None /\ rows'[h].thread = None
           /\ \A g \in Handoffs : g # h => rows'[g] = rows[g]
           /\ request[r].kind = "create" /\ request[r].user \in Users
           /\ request'[r].at = "cache" /\ request'[r].kind = "create"
           /\ request'[r].user = request[r].user /\ request'[r].handoff = h
           /\ \A s \in Requests : s # r => request'[s] = request[s]
<1>0. rows \in [Handoffs -> Row] /\ request \in [Requests -> RequestRecord]
  BY DEF HandoffInv, TypeOK
<1>1. PICK h \in Handoffs :
        /\ ~ Exists(h)
        /\ rows' = [rows EXCEPT ![h] = [NoRow EXCEPT !.status = "pending", !.user = request[r].user]]
        /\ request' = [request EXCEPT ![r].handoff = h, ![r].at = "cache"]
  BY DEF Insert
<1>2. rows[h] = NoRow /\ request[r].kind = "create" /\ request[r].user \in Users
  BY <1>1 DEF Insert, HandoffInv, ThreadsOwned, RequestsKnow
<1>3. /\ rows'[h].status = "pending" /\ rows'[h].user = request[r].user
      /\ rows'[h].agent = None /\ rows'[h].thread = None
      /\ \A g \in Handoffs : g # h => rows'[g] = rows[g]
  BY <1>0, <1>1 DEF NoRow
<1>4. /\ request'[r].at = "cache" /\ request'[r].kind = request[r].kind
      /\ request'[r].user = request[r].user /\ request'[r].handoff = h
      /\ \A s \in Requests : s # r => request'[s] = request[s]
  BY <1>0, <1>1 DEF RequestRecord
<1>. QED BY <1>1, <1>2, <1>3, <1>4

LEMMA ValidatedKept ==
  ASSUME HandoffInv, StatusInv, Next, {"assign"} \notin crossings, NEW s \in Requests
  PROVE  Validated(s)'
<1>0. /\ rows \in [Handoffs -> Row] /\ request \in [Requests -> RequestRecord]
      /\ \A r \in Requests : Validated(r)
  BY DEF HandoffInv, TypeOK, StatusInv
<1>1. CASE rows' = rows /\ (request'[s] = request[s] \/ request'[s].at # "update")
  BY <1>0, <1>1 DEF Validated
<1>2. ASSUME NEW r \in Requests, Request(r) PROVE Validated(s)'
  <2>1. \/ request'[s] = request[s]
        \/ request'[s].at \in {"look", "find"}
        \/ request'[s].kind = "tags"
    <3>1. CASE \E u \in Users : request' = [request EXCEPT ![r] =
                  [IdleRequest EXCEPT !.kind = "create", !.at = "look", !.user = u]]
      BY <1>0, <3>1 DEF IdleRequest
    <3>2. CASE \E h \in Handoffs, kind \in {"tags", "assign", "resolve"}, a \in Agents :
                 request' = [request EXCEPT ![r] =
                   [kind |-> kind, at |-> IF kind = "tags" THEN "update" ELSE "find",
                    user |-> rows[h].user, handoff |-> h, agent |-> a]]
      BY <1>0, <3>2
    <3>. QED BY <1>2, <3>1, <3>2 DEF Request
  <2>. QED BY <1>0, <1>1, <1>2, <2>1 DEF Request, Validated
<1>3. ASSUME NEW r \in Requests, Look(r) \/ Cache(r) \/ Expire(r) PROVE Validated(s)'
  <2>1. request'[s] = request[s] \/ request'[s].at \in {"over", "insert"}
    BY <1>3, Ended, Gone DEF Look, Cache, Expire
  <2>. QED BY <1>1, <1>3, <2>1 DEF Look, Cache, Expire
<1>4. ASSUME NEW r \in Requests, Find(r) PROVE Validated(s)'
  <2>1. CASE request' = [request EXCEPT ![r].at = "update"] /\ rows[request[r].handoff].status = Needed(request[r].kind)
    <3>1. CASE s = r
      <4>1. request'[s].kind = request[s].kind /\ request'[s].handoff = request[s].handoff
        BY <1>0, <2>1, <3>1 DEF RequestRecord
      <4>. QED BY <1>4, <2>1, <3>1, <4>1 DEF Validated, Find, Needed
    <3>2. CASE s # r
      BY <1>0, <1>1, <1>4, <2>1, <3>2 DEF Find
    <3>. QED BY <3>1, <3>2
  <2>2. CASE Ends(r)
    <3>1. request'[s] = request[s] \/ request'[s].at = "over"
      BY <2>2, Ended
    <3>. QED BY <1>1, <1>4, <3>1 DEF Find
  <2>. QED BY <1>4, <2>1, <2>2 DEF Find, Goto
<1>5. ASSUME NEW r \in Requests, Insert(r) PROVE Validated(s)'
  <2>1. PICK h \in Handoffs : ~ Exists(h) /\ (\A g \in Handoffs : g # h => rows'[g] = rows[g])
                              /\ request'[r].at = "cache" /\ \A q \in Requests : q # r => request'[q] = request[q]
    BY <1>5, Inserts
  <2>2. CASE s # r /\ request[s].at = "update"
    <3>1. request[s].handoff \in Handoffs /\ request[s].handoff # h
      BY <2>1, <2>2, SameHandoff
    <3>. QED BY <1>0, <2>1, <2>2, <3>1 DEF Validated
  <2>. QED BY <2>1, <2>2 DEF Validated
<1>6. ASSUME NEW r \in Requests, Update(r) PROVE Validated(s)'
  <2>0. request[r].at = "update"
    BY <1>6 DEF Update
  <2>1. CASE s = r
    <3>1. request'[r].at # "update"
      BY <1>6, Updates
    <3>. QED BY <2>1, <3>1 DEF Validated
  <2>2. CASE s # r /\ request[s].at = "update"
    <3>1. request'[s] = request[s]
      BY <1>6, <2>2, Updates
    <3>2. PICK h \in Handoffs, g \in Handoffs : h = request[r].handoff /\ g = request[s].handoff
      BY <2>0, <2>2, SameHandoff
    <3>3. CASE g # h
      <4>1. rows'[g] = rows[g]
        BY <1>6, <3>2, <3>3, Updates
      <4>. QED BY <1>0, <3>1, <3>2, <4>1 DEF Validated
    <3>4. CASE g = h
      <4>1. Together(s, r)
        BY <2>0, <2>2, <3>2, <3>4, SameHandoff DEF Together
      <4>2. {request[s].kind, request[r].kind} # {"assign"}
        BY <4>1 DEF StatusInv
      <4>3. /\ request[r].kind \in {"tags", "assign", "resolve"}
            /\ request[r].kind = "tags" => rows' = rows
            /\ request[r].kind = "assign" => rows'[h].status = "assigned"
            /\ request[r].kind = "resolve" => rows'[h].status = "resolved"
        BY <1>6, <3>2, Updates
      <4>4. /\ request[r].kind = "assign" => rows[h].status = "pending"
            /\ request[r].kind = "resolve" => rows[h].status \in {"assigned", "resolved"}
            /\ request[s].kind = "assign" => rows[h].status = "pending"
            /\ request[s].kind = "resolve" => rows[h].status \in {"assigned", "resolved"}
        BY <1>0, <2>0, <2>2, <3>2, <3>4 DEF Validated
      <4>. QED BY <3>1, <3>2, <3>4, <4>2, <4>3, <4>4 DEF Validated
    <3>. QED BY <3>3, <3>4
  <2>3. CASE s # r /\ request[s].at # "update"
    <3>1. request'[s] = request[s]
      BY <1>6, <2>3, Updates
    <3>. QED BY <2>3, <3>1 DEF Validated
  <2>. QED BY <2>1, <2>2, <2>3
<1>7. CASE Restart
  <2>1. request'[s] = request[s] \/ request'[s].at = "over"
    BY <1>7 DEF Restart, Over, IdleRequest
  <2>. QED BY <1>1, <1>7, <2>1 DEF Restart
<1>8. CASE UNCHANGED <<rows, request>>
  BY <1>1, <1>8
<1>. QED BY <1>2, <1>3, <1>4, <1>5, <1>6, <1>7, <1>8 DEF Next, Send, Pipe, Evict

LEMMA StatusKept == HandoffInv /\ StatusInv /\ [Next]_vars => StatusInv'
<1> SUFFICES ASSUME HandoffInv, StatusInv, [Next]_vars PROVE StatusInv'
  OBVIOUS
<1>1. CASE Next
  <2> SUFFICES ASSUME {"assign"} \notin crossings'
               PROVE  /\ \A q, r \in Requests :
                           Together(q, r)' => {request'[q].kind, request'[r].kind} # {"assign"}
                      /\ \A r \in Requests : Validated(r)'
    BY DEF StatusInv
  <2>1. {"assign"} \notin crossings
    BY <1>1, CrossingsGrow
  <2>2. ASSUME NEW q \in Requests, NEW r \in Requests, Together(q, r)'
        PROVE  {request'[q].kind, request'[r].kind} # {"assign"}
    BY <1>1, <2>1, <2>2, Pairs DEF StatusInv
  <2>3. \A r \in Requests : Validated(r)'
    BY <1>1, <2>1, ValidatedKept
  <2>. QED BY <2>2, <2>3
<1>2. CASE UNCHANGED vars
  BY <1>2 DEF vars, StatusInv, Together, Live, Validated
<1>. QED BY <1>1, <1>2

\* A step of a request, and the status of a handoff.
LEMMA StatusSteps ==
  ASSUME HandoffInv, StatusInv, Next, {"assign"} \notin crossings, NEW g \in Handoffs
  PROVE  <<rows[g].status, rows'[g].status>> \in Forward
<1>0. rows \in [Handoffs -> Row]
  BY DEF HandoffInv, TypeOK
<1>1. rows[g].status \in Active \cup {"none", "resolved"}
  BY <1>0 DEF Row
<1>2. CASE rows'[g].status = rows[g].status
  BY <1>1, <1>2 DEF Forward
<1>3. ASSUME NEW r \in Requests, Insert(r) PROVE <<rows[g].status, rows'[g].status>> \in Forward
  <2>1. PICK h \in Handoffs : /\ ~ Exists(h) /\ rows'[h].status = "pending"
                              /\ \A k \in Handoffs : k # h => rows'[k] = rows[k]
    BY <1>3, Inserts
  <2>2. CASE g = h
    BY <2>1, <2>2 DEF Forward, Exists
  <2>. QED BY <1>2, <2>1, <2>2
<1>4. ASSUME NEW r \in Requests, Update(r) PROVE <<rows[g].status, rows'[g].status>> \in Forward
  <2>1. PICK h \in Handoffs : h = request[r].handoff
    BY <1>4, Updates
  <2>2. CASE g # h
    <3>1. rows'[g] = rows[g]
      BY <1>4, <2>1, <2>2, Updates
    <3>. QED BY <1>2, <3>1
  <2>3. CASE g = h
    <3>1. /\ request[r].kind \in {"tags", "assign", "resolve"}
          /\ request[r].kind = "tags" => rows' = rows
          /\ request[r].kind = "assign" => rows'[h].status = "assigned"
          /\ request[r].kind = "resolve" => rows'[h].status = "resolved"
      BY <1>4, <2>1, Updates
    <3>2. /\ request[r].kind = "assign" => rows[h].status = "pending"
          /\ request[r].kind = "resolve" => rows[h].status \in {"assigned", "resolved"}
      BY <1>4, <2>1 DEF StatusInv, Validated, Update
    <3>. QED BY <1>2, <2>3, <3>1, <3>2 DEF Forward
  <2>. QED BY <2>2, <2>3
<1>5. CASE UNCHANGED rows
  BY <1>2, <1>5
<1>. QED BY <1>3, <1>4, <1>5 DEF Next, Request, Look, Cache, Find, Expire, Send, Pipe, Evict, Restart

LEMMA InitStatusInv == Init => StatusInv
BY DEF Init, StatusInv, Together, Live, Validated, IdleRequest

\* Whatever crosses, but for two assignments of one conversation under way together:
\* a row goes from pending to assigned to resolved, though its status is validated
\* on a read before the update (validateHandoffStatusRule).
THEOREM StatusGoesForward == Spec => StatusForward
<1>1. HandoffInv /\ StatusInv /\ [Next]_vars =>
        [\A h \in Handoffs : {"assign"} \notin crossings =>
           <<rows[h].status, rows'[h].status>> \in
             {<<s, s>> : s \in Active \cup {"none", "resolved"}}
               \cup {<<"none", "pending">>, <<"pending", "assigned">>, <<"assigned", "resolved">>}]_vars
  BY StatusSteps DEF Forward
<1>2. Spec => []HandoffInv
  BY HandoffInvariance
<1>3. Spec => []StatusInv
  BY InitStatusInv, StatusKept, <1>2, PTL DEF Spec
<1>. QED BY <1>1, <1>2, <1>3, PTL DEF Spec, StatusForward
-----------------------------------------------------------------------------
(* The routes, as long as nothing has crossed that is not harmless.          *)

\* Handoff h is the active one of user u.
OfUser(h, u) == IsActive(h) /\ rows[h].user = u

\* A pending handoff has no agent yet, an assigned one has a thread.
RowsRight ==
  \A h \in Handoffs :
    /\ rows[h].status = "pending" => rows[h].agent = None /\ rows[h].thread = None
    /\ rows[h].status = "assigned" => rows[h].thread \in Requests

Apart == \A q, r \in Requests : Together(q, r) => {request[q].kind, request[r].kind} \in Harmless

OneActive == \A u \in Users, g, h \in Handoffs : OfUser(g, u) /\ OfUser(h, u) => g = h

\* Where a request stands tells what its conversation has.
CreateGoes(q) ==
  q.kind = "create" =>
    /\ q.at = "insert" => \A h \in Handoffs : ~ OfUser(h, q.user)
    /\ q.at = "cache" => IsActive(q.handoff)
TagsGo(q) == q.kind = "tags" /\ q.at \in {"update", "cache"} => IsActive(q.handoff)
ResolveGoes(q) ==
  q.kind = "resolve" =>
    /\ q.at = "update" => \A h \in Handoffs : OfUser(h, q.user) => h = q.handoff
    /\ q.at = "expire" => \A h \in Handoffs : ~ OfUser(h, q.user)
Goes(r) == CreateGoes(request[r]) /\ TagsGo(request[r]) /\ ResolveGoes(request[r])

\* A request is about to cache handoff h, or to let the entry of user u go.
Caching(h) ==
  \E r \in Requests : request[r].kind = "create" /\ request[r].at = "cache" /\ request[r].handoff = h
Expiring(u) ==
  \E r \in Requests : request[r].kind = "resolve" /\ request[r].at = "expire" /\ request[r].user = u

UserCached(u) ==
  /\ \A h \in Handoffs : OfUser(h, u) => cache[u] = h \/ Caching(h)
  /\ (\A h \in Handoffs : ~ OfUser(h, u)) => cache[u] = None \/ Expiring(u)

AgentCached(h) ==
  rows[h].status = "assigned" =>
    cache[rows[h].thread] = h \/ request[rows[h].thread].at = "cache"

RoutedInv ==
  crossings \subseteq Harmless =>
    /\ Apart /\ OneActive /\ \A r \in Requests : Goes(r)
    /\ \A u \in Users : UserCached(u)
    /\ \A h \in Handoffs : AgentCached(h)

\* The kinds that a harmless pair excludes.
LEMMA HarmlessPairs ==
  ASSUME NEW a \in {"create", "tags", "assign", "resolve"}, NEW b \in {"create", "tags", "assign", "resolve"},
         {a, b} \in Harmless
  PROVE  /\ a = "create" => b \in {"tags", "assign"}
         /\ a = "assign" => b # "assign"
         /\ a = "resolve" => b \in {"assign", "resolve"}
         /\ a = "tags" => b # "resolve"
BY DEF Harmless

LEMMA Harmful ==
  {"evict"} \notin Harmless /\ {"assign"} \notin Harmless /\ {"tags", "resolve"} \notin Harmless
BY DEF Harmless

\* The handoffs whose rows a step leaves are those of their users as before.
LEMMA RowsRightKept == HandoffInv /\ RowsRight /\ Next => RowsRight'
<1> SUFFICES ASSUME HandoffInv, RowsRight, Next PROVE RowsRight'
  OBVIOUS
<1>1. CASE rows' = rows
  BY <1>1 DEF RowsRight
<1>2. ASSUME NEW r \in Requests, Insert(r) PROVE RowsRight'
  BY <1>2, Inserts DEF RowsRight
<1>3. ASSUME NEW r \in Requests, Update(r) PROVE RowsRight'
  <2>1. PICK h \in Handoffs : h = request[r].handoff
    BY <1>3, Updates
  <2>2. /\ \A g \in Handoffs : g # h => rows'[g] = rows[g]
        /\ \/ rows' = rows
           \/ rows'[h].status = "assigned" /\ rows'[h].thread = r
           \/ rows'[h].status = "resolved"
    BY <1>3, <2>1, Updates
  <2>. QED BY <1>1, <2>2 DEF RowsRight
<1>. QED BY <1>1, <1>2, <1>3 DEF Next, Request, Look, Cache, Find, Expire, Send, Pipe, Evict, Restart
\* What the kind of a request that is under way may be.
KindsRight ==
  \A r \in Requests :
    /\ Live(r) => request[r].kind \in {"create", "tags", "assign", "resolve"}
    /\ request[r].at = "cache" => request[r].kind \in {"create", "tags", "assign"}
    /\ request[r].at = "expire" => request[r].kind = "resolve"

LEMMA KindsRightKept == HandoffInv /\ KindsRight /\ Next => KindsRight'
<1> SUFFICES ASSUME HandoffInv, KindsRight, Next, NEW s \in Requests
             PROVE  /\ Live(s)' => request'[s].kind \in {"create", "tags", "assign", "resolve"}
                    /\ request'[s].at = "cache" => request'[s].kind \in {"create", "tags", "assign"}
                    /\ request'[s].at = "expire" => request'[s].kind = "resolve"
  BY DEF KindsRight
<1>0. request \in [Requests -> RequestRecord]
  BY DEF HandoffInv, TypeOK
<1>1. CASE request'[s] = request[s] \/ request'[s].at = "over"
  BY <1>1 DEF KindsRight, Live
<1>2. ASSUME NEW r \in Requests, Request(r)
      PROVE  \/ request'[s] = request[s]
             \/ /\ request'[s].at \in {"look", "update", "find"}
                /\ request'[s].kind \in {"create", "tags", "assign", "resolve"}
  <2>1. CASE \E u \in Users : request' = [request EXCEPT ![r] =
                [IdleRequest EXCEPT !.kind = "create", !.at = "look", !.user = u]]
    BY <1>0, <2>1 DEF IdleRequest
  <2>2. CASE \E h \in Handoffs, kind \in {"tags", "assign", "resolve"}, a \in Agents :
               request' = [request EXCEPT ![r] =
                 [kind |-> kind, at |-> IF kind = "tags" THEN "update" ELSE "find",
                  user |-> rows[h].user, handoff |-> h, agent |-> a]]
    BY <1>0, <2>2
  <2>. QED BY <1>2, <2>1, <2>2 DEF Request
<1>3. ASSUME NEW r \in Requests, Look(r) \/ Cache(r) \/ Find(r) \/ Expire(r)
      PROVE  \/ request'[s] = request[s]
             \/ request'[s].at = "over"
             \/ /\ request'[s].at \in {"insert", "update"} /\ request'[s].kind = request[s].kind
                /\ Live(s)
  BY <1>3, Ended, Gone DEF Look, Cache, Find, Expire, Live
<1>4. ASSUME NEW r \in Requests, Insert(r)
      PROVE  request'[s] = request[s] \/ (request'[s].at = "cache" /\ request'[s].kind = "create")
  BY <1>4, Inserts
<1>5. ASSUME NEW r \in Requests, Update(r)
      PROVE  \/ request'[s] = request[s]
             \/ /\ request'[s].kind \in {"tags", "assign", "resolve"}
                /\ request'[s].at = IF request'[s].kind = "resolve" THEN "expire" ELSE "cache"
  BY <1>5, Updates
<1>6. CASE Restart
  <2>1. request'[s] = request[s] \/ request'[s].at = "over"
    BY <1>6 DEF Restart, Over, IdleRequest
  <2>. QED BY <1>1, <2>1
<1>7. CASE UNCHANGED request
  BY <1>1, <1>7
<1>. QED BY <1>1, <1>2, <1>3, <1>4, <1>5, <1>6, <1>7 DEF Next, Send, Pipe, Evict, Live, KindsRight

\* What holds of a step that leaves everything harmless.
Facts ==
  /\ HandoffInv /\ StatusInv /\ RowsRight /\ KindsRight /\ RoutedInv
  /\ crossings \subseteq Harmless
Routes ==
  /\ OneActive /\ \A r \in Requests : Goes(r)
  /\ \A u \in Users : UserCached(u)
  /\ \A h \in Handoffs : AgentCached(h)

LEMMA FactsMean ==
  ASSUME Facts
  PROVE  /\ HandoffInv /\ RowsRight /\ KindsRight /\ Apart /\ OneActive
         /\ \A r \in Requests : Goes(r) /\ Validated(r)
         /\ \A u \in Users : UserCached(u)
         /\ \A h \in Handoffs : AgentCached(h)
         /\ rows \in [Handoffs -> Row] /\ request \in [Requests -> RequestRecord]
         /\ cache \in [Threads -> Handoffs \cup {None}]
<1>1. {"assign"} \notin crossings
  BY Harmful DEF Facts
<1>. QED BY <1>1 DEF Facts, RoutedInv, StatusInv, HandoffInv, TypeOK

\* Requests of one conversation do not exclude each other.
LEMMA Compatible ==
  ASSUME Facts, NEW q \in Requests, NEW r \in Requests, q # r, Live(q), Live(r),
         request[q].user = request[r].user
  PROVE  /\ request[q].kind = "create" => request[r].kind \in {"tags", "assign"}
         /\ request[q].kind = "assign" => request[r].kind # "assign"
         /\ request[q].kind = "resolve" => request[r].kind \in {"assign", "resolve"}
         /\ request[q].kind = "tags" => request[r].kind # "resolve"
<1>1. {request[q].kind, request[r].kind} \in Harmless
  BY FactsMean DEF Apart, Together
<1>2. /\ request[q].kind \in {"create", "tags", "assign", "resolve"}
      /\ request[r].kind \in {"create", "tags", "assign", "resolve"}
  BY FactsMean DEF KindsRight
<1>. QED BY <1>1, <1>2, HarmlessPairs

\* A request moves that has nothing to do with the cache.
LEMMA CachesStay ==
  ASSUME Facts, rows' = rows, cache' = cache, NEW r \in Requests,
         request[r].at \notin {"cache", "expire"},
         \A s \in Requests : s # r => request'[s] = request[s]
  PROVE  /\ OneActive' /\ (\A u \in Users : UserCached(u)') /\ (\A h \in Handoffs : AgentCached(h)')
         /\ \A s \in Requests : s # r => Goes(s)'
<1>1. OneActive' /\ \A s \in Requests : s # r => Goes(s)'
  BY FactsMean DEF OneActive, OfUser, IsActive, Goes, CreateGoes, TagsGo, ResolveGoes
<1>2. ASSUME NEW h PROVE Caching(h) => Caching(h)'
  BY DEF Caching
<1>3. ASSUME NEW u PROVE Expiring(u) => Expiring(u)'
  BY DEF Expiring
<1>4. ASSUME NEW u \in Users PROVE UserCached(u)'
  <2>1. UserCached(u)
    BY FactsMean
  <2>. QED BY <1>2, <1>3, <2>1 DEF UserCached, OfUser, IsActive
<1>5. ASSUME NEW h \in Handoffs, rows[h].status = "assigned" PROVE AgentCached(h)'
  <2>1. PICK t \in Requests : t = rows[h].thread
    BY <1>5, FactsMean DEF RowsRight
  <2>. QED BY <1>5, <2>1, FactsMean DEF AgentCached
<1>6. ASSUME NEW h \in Handoffs, rows[h].status # "assigned" PROVE AgentCached(h)'
  BY <1>6 DEF AgentCached
<1>. QED BY <1>1, <1>4, <1>5, <1>6
\* The thread of an agent is that of the request which assigned its handoff.
LEMMA ThreadIsOwn ==
  ASSUME HandoffInv, NEW t \in Requests, NEW g \in Handoffs, rows[g].thread = t
  PROVE  Assigned(t) /\ request[t].handoff = g
<1>1. t # None /\ t \notin Users
  BY Constants DEF None
<1>2. IsThreadOf(rows[g].thread, g)
  BY <1>1 DEF HandoffInv, ThreadsOwned
<1>. QED BY <1>1, <1>2 DEF IsThreadOf

LEMMA RequestRoutes ==
  ASSUME Facts, NEW r \in Requests, Request(r), crossings' \subseteq Harmless
  PROVE  Routes'
<1>0. request \in [Requests -> RequestRecord] /\ rows \in [Handoffs -> Row]
  BY FactsMean
<1>1. /\ rows' = rows /\ cache' = cache /\ request[r].at = "idle"
      /\ \A s \in Requests : s # r => request'[s] = request[s]
  BY <1>0 DEF Request, NextRequest
<1>2. CASE \E u \in Users : request' = [request EXCEPT ![r] =
              [IdleRequest EXCEPT !.kind = "create", !.at = "look", !.user = u]]
  <2>1. request'[r].at = "look" /\ request'[r].kind = "create"
    BY <1>0, <1>2 DEF IdleRequest
  <2>2. Goes(r)'
    BY <2>1 DEF Goes, CreateGoes, TagsGo, ResolveGoes
  <2>. QED BY <1>1, <2>2, CachesStay DEF Routes
<1>3. ASSUME NEW h \in Handoffs, NEW kind \in {"tags", "assign", "resolve"}, NEW a \in Agents, Exists(h),
             request' = [request EXCEPT ![r] =
               [kind |-> kind, at |-> IF kind = "tags" THEN "update" ELSE "find",
                user |-> rows[h].user, handoff |-> h, agent |-> a]],
             crossings' = crossings \cup Crossed(kind, rows[h].user, h)
      PROVE  Routes'
  <2>1. /\ request'[r].kind = kind /\ request'[r].handoff = h
        /\ request'[r].at = IF kind = "tags" THEN "update" ELSE "find"
    BY <1>0, <1>3
  <2>2. CASE kind = "tags"
    <3>1. rows[h].status # "resolved"
      <4>1. SUFFICES ASSUME rows[h].status = "resolved" PROVE FALSE
        OBVIOUS
      <4>2. {"tags", "resolve"} \in Crossed(kind, rows[h].user, h)
        BY <2>2, <4>1 DEF Crossed
      <4>. QED BY <1>3, <4>2, Harmful
    <3>2. IsActive(h)
      BY <1>0, <1>3, <3>1 DEF IsActive, Exists, Row
    <3>3. Goes(r)'
      BY <1>1, <2>1, <2>2, <3>2 DEF Goes, CreateGoes, TagsGo, ResolveGoes, IsActive
    <3>. QED BY <1>1, <3>3, CachesStay DEF Routes
  <2>3. CASE kind # "tags"
    <3>1. Goes(r)'
      BY <2>1, <2>3 DEF Goes, CreateGoes, TagsGo, ResolveGoes
    <3>. QED BY <1>1, <3>1, CachesStay DEF Routes
  <2>. QED BY <2>2, <2>3
<1>. QED BY <1>2, <1>3 DEF Request

LEMMA LookOrFindRoutes ==
  ASSUME Facts, NEW r \in Requests, Look(r) \/ Find(r)
  PROVE  Routes'
<1>0. HandoffInv
  BY FactsMean
<1>1. /\ rows' = rows /\ cache' = cache /\ request[r].at \in {"look", "find"}
      /\ \A s \in Requests : s # r => request'[s] = request[s]
  BY <1>0, Ended, Gone DEF Look, Find
<1>2. Goes(r)'
  <2>1. CASE Ends(r)
    <3>1. request'[r].at = "over"
      BY <1>0, <2>1, Ended
    <3>. QED BY <3>1 DEF Goes, CreateGoes, TagsGo, ResolveGoes
  <2>2. CASE /\ Goto(r, "insert")
             /\ ~ \E h \in Handoffs : IsActive(h) /\ rows[h].user = request[r].user
    <3>1. \A h \in Handoffs : ~ OfUser(h, request[r].user)
      BY <2>2 DEF OfUser
    <3>2. request'[r].at = "insert" /\ request'[r].user = request[r].user
      BY <1>0, <2>2, Gone
    <3>. QED BY <1>1, <3>1, <3>2 DEF Goes, CreateGoes, TagsGo, ResolveGoes, OfUser, IsActive
  <2>3. CASE Find(r) /\ Goto(r, "update") /\ rows[request[r].handoff].status = Needed(request[r].kind)
    <3>1. /\ request'[r].at = "update" /\ request'[r].user = request[r].user
          /\ request'[r].handoff = request[r].handoff /\ request'[r].kind = request[r].kind
      BY <1>0, <2>3, Gone
    <3>2. request[r].kind \in {"assign", "resolve"}
      BY <1>0, <2>3 DEF Find, HandoffInv, RequestsKnow
    <3>3. PICK h \in Handoffs : h = request[r].handoff /\ rows[h].user = request[r].user /\ request[r].user \in Users
      BY <1>0, <2>3, SameHandoff DEF Find
    <3>4. OfUser(h, request[r].user)
      BY <2>3, <3>2, <3>3 DEF Needed, OfUser, IsActive, Active
    <3>5. \A g \in Handoffs : OfUser(g, request[r].user) => g = h
      BY <3>3, <3>4, FactsMean DEF OneActive
    <3>. QED BY <1>1, <3>1, <3>2, <3>3, <3>5 DEF Goes, CreateGoes, TagsGo, ResolveGoes, OfUser, IsActive
  <2>. QED BY <2>1, <2>2, <2>3 DEF Look, Find
<1>. QED BY <1>1, <1>2, CachesStay DEF Routes

LEMMA CacheRoutes ==
  ASSUME Facts, NEW r \in Requests, Cache(r)
  PROVE  Routes'
<1>0. HandoffInv /\ request \in [Requests -> RequestRecord] /\ cache \in [Threads -> Handoffs \cup {None}]
  BY FactsMean
<1>1. /\ rows' = rows /\ request[r].at = "cache" /\ request'[r].at = "over"
      /\ request[r].kind \in {"create", "tags", "assign"}
      /\ \A s \in Requests : s # r => request'[s] = request[s]
  BY <1>0, Ended, FactsMean DEF Cache, KindsRight
<1>2. PICK h \in Handoffs, u \in Users : h = request[r].handoff /\ u = request[r].user /\ rows[h].user = u
  BY <1>0, <1>1, SameHandoff
<1>3. OneActive' /\ \A s \in Requests : Goes(s)'
  <2>1. Goes(r)'
    BY <1>1 DEF Goes, CreateGoes, TagsGo, ResolveGoes
  <2>2. OneActive' /\ \A s \in Requests : s # r => Goes(s)'
    BY <1>1, FactsMean DEF OneActive, OfUser, IsActive, Goes, CreateGoes, TagsGo, ResolveGoes
  <2>. QED BY <2>1, <2>2
<1>4. CASE request[r].kind = "assign"
  <2>1. cache' = [cache EXCEPT ![r] = h]
    BY <1>2, <1>4 DEF Cache, CacheHandoff
  <2>2. cache'[r] = h /\ \A t \in Threads : t # r => cache'[t] = cache[t]
    BY <1>0, <2>1, Constants
  <2>3. ASSUME NEW v \in Users PROVE UserCached(v)'
    <3>1. cache'[v] = cache[v]
      BY <2>2, Constants
    <3>2. ASSUME NEW g PROVE Caching(g) => Caching(g)'
      BY <1>1, <1>4 DEF Caching
    <3>3. Expiring(v) => Expiring(v)'
      BY <1>1 DEF Expiring
    <3>4. UserCached(v)
      BY FactsMean
    <3>. QED BY <1>1, <3>1, <3>2, <3>3, <3>4 DEF UserCached, OfUser, IsActive
  <2>4. ASSUME NEW g \in Handoffs, rows[g].status = "assigned" PROVE AgentCached(g)'
    <3>1. PICK t \in Requests : t = rows[g].thread /\ (cache[t] = g \/ request[t].at = "cache")
      BY <2>4, FactsMean DEF RowsRight, AgentCached
    <3>2. CASE t = r
      <4>2. g = h
        BY <1>0, <1>2, <3>1, <3>2, ThreadIsOwn
      <4>. QED BY <1>1, <2>2, <3>1, <3>2, <4>2 DEF AgentCached
    <3>3. CASE t # r
      BY <1>1, <2>2, <3>1, <3>3, Constants DEF AgentCached
    <3>. QED BY <3>2, <3>3
  <2>5. ASSUME NEW g \in Handoffs, rows[g].status # "assigned" PROVE AgentCached(g)'
    BY <1>1, <2>5 DEF AgentCached
  <2>. QED BY <1>3, <2>3, <2>4, <2>5 DEF Routes
<1>5. CASE request[r].kind # "assign"
  <2>1. cache' = [cache EXCEPT ![u] = h]
    BY <1>2, <1>5 DEF Cache, CacheHandoff
  <2>2. cache'[u] = h /\ \A t \in Threads : t # u => cache'[t] = cache[t]
    BY <1>0, <2>1, Constants
  <2>3. OfUser(h, u)
    BY <1>1, <1>2, <1>5, FactsMean DEF Goes, CreateGoes, TagsGo, OfUser
  <2>4. UserCached(u)'
    <3>1. \A g \in Handoffs : OfUser(g, u) => g = h
      BY <2>3, FactsMean DEF OneActive
    <3>. QED BY <1>1, <2>2, <2>3, <3>1 DEF UserCached, OfUser, IsActive
  <2>5. ASSUME NEW v \in Users, v # u PROVE UserCached(v)'
    <3>1. cache'[v] = cache[v]
      BY <2>2, <2>5, Constants
    <3>2. ASSUME NEW g \in Handoffs, OfUser(g, v), Caching(g) PROVE Caching(g)'
      <4>1. PICK s \in Requests : request[s].kind = "create" /\ request[s].at = "cache" /\ request[s].handoff = g
        BY <3>2 DEF Caching
      <4>2. s # r
        BY <1>2, <2>5, <3>2, <4>1 DEF OfUser
      <4>. QED BY <1>1, <4>1, <4>2 DEF Caching
    <3>3. Expiring(v) => Expiring(v)'
      BY <1>1 DEF Expiring
    <3>4. UserCached(v)
      BY FactsMean
    <3>. QED BY <1>1, <3>1, <3>2, <3>3, <3>4 DEF UserCached, OfUser, IsActive
  <2>6. ASSUME NEW g \in Handoffs, rows[g].status = "assigned" PROVE AgentCached(g)'
    <3>1. PICK t \in Requests : t = rows[g].thread /\ (cache[t] = g \/ request[t].at = "cache")
      BY <2>6, FactsMean DEF RowsRight, AgentCached
    <3>2. t # r
      <4>1. Assigned(t)
        BY <1>0, <3>1, ThreadIsOwn
      <4>. QED BY <1>1, <1>5, <4>1 DEF Assigned
    <3>3. t # u /\ t \in Threads
      BY Constants
    <3>. QED BY <1>1, <2>2, <3>1, <3>2, <3>3 DEF AgentCached
  <2>7. ASSUME NEW g \in Handoffs, rows[g].status # "assigned" PROVE AgentCached(g)'
    BY <1>1, <2>7 DEF AgentCached
  <2>. QED BY <1>3, <2>4, <2>5, <2>6, <2>7 DEF Routes
<1>. QED BY <1>4, <1>5

LEMMA ExpireRoutes ==
  ASSUME Facts, NEW r \in Requests, Expire(r)
  PROVE  Routes'
<1>0. HandoffInv /\ request \in [Requests -> RequestRecord] /\ cache \in [Threads -> Handoffs \cup {None}]
  BY FactsMean
<1>1. /\ rows' = rows /\ request[r].at = "expire" /\ request'[r].at = "over"
      /\ request[r].kind = "resolve"
      /\ \A s \in Requests : s # r => request'[s] = request[s]
  BY <1>0, Ended, FactsMean DEF Expire, KindsRight
<1>2. PICK u \in Users : u = request[r].user
  BY <1>0, <1>1, SameHandoff
<1>3. cache'[u] = None /\ \A t \in Threads : t # u => cache'[t] = cache[t]
  BY <1>0, <1>2, Constants DEF Expire, ExpireHandoff
<1>4. \A h \in Handoffs : ~ OfUser(h, u)
  BY <1>1, <1>2, FactsMean DEF Goes, ResolveGoes
<1>5. OneActive' /\ \A s \in Requests : Goes(s)'
  <2>1. Goes(r)'
    BY <1>1 DEF Goes, CreateGoes, TagsGo, ResolveGoes
  <2>2. OneActive' /\ \A s \in Requests : s # r => Goes(s)'
    BY <1>1, FactsMean DEF OneActive, OfUser, IsActive, Goes, CreateGoes, TagsGo, ResolveGoes
  <2>. QED BY <2>1, <2>2
<1>6. ASSUME NEW v \in Users PROVE UserCached(v)'
  <2>1. CASE v = u
    BY <1>1, <1>3, <1>4, <2>1 DEF UserCached, OfUser, IsActive
  <2>2. CASE v # u
    <3>1. cache'[v] = cache[v]
      BY <1>3, <2>2, Constants
    <3>2. ASSUME NEW g PROVE Caching(g) => Caching(g)'
      BY <1>1 DEF Caching
    <3>3. Expiring(v) => Expiring(v)'
      BY <1>1, <1>2, <2>2 DEF Expiring
    <3>4. UserCached(v)
      BY FactsMean
    <3>. QED BY <1>1, <3>1, <3>2, <3>3, <3>4 DEF UserCached, OfUser, IsActive
  <2>. QED BY <2>1, <2>2
<1>7. ASSUME NEW g \in Handoffs, rows[g].status = "assigned" PROVE AgentCached(g)'
  <2>1. PICK t \in Requests : t = rows[g].thread /\ (cache[t] = g \/ request[t].at = "cache")
    BY <1>7, FactsMean DEF RowsRight, AgentCached
  <2>2. t # u /\ t \in Threads
    BY Constants
  <2>. QED BY <1>1, <1>3, <2>1, <2>2 DEF AgentCached
<1>8. ASSUME NEW g \in Handoffs, rows[g].status # "assigned" PROVE AgentCached(g)'
  BY <1>1, <1>8 DEF AgentCached
<1>. QED BY <1>5, <1>6, <1>7, <1>8 DEF Routes
LEMMA InsertRoutes ==
  ASSUME Facts, NEW r \in Requests, Insert(r)
  PROVE  Routes'
<1>0. HandoffInv
  BY FactsMean
<1>1. PICK h \in Handoffs, u \in Users :
        /\ ~ Exists(h) /\ rows[h] = NoRow
        /\ rows'[h].status = "pending" /\ rows'[h].user = u
        /\ \A g \in Handoffs : g # h => rows'[g] = rows[g]
        /\ request[r].kind = "create" /\ request[r].user = u
        /\ request'[r].at = "cache" /\ request'[r].kind = "create"
        /\ request'[r].user = u /\ request'[r].handoff = h
        /\ \A s \in Requests : s # r => request'[s] = request[s]
  BY <1>0, Inserts
<1>2. request[r].at = "insert" /\ Live(r) /\ cache' = cache
  BY DEF Insert, Live
<1>3. \A g \in Handoffs : ~ OfUser(g, u)
  BY <1>1, <1>2, FactsMean DEF Goes, CreateGoes
<1>4. \A g \in Handoffs : g # h => (IsActive(g)' <=> IsActive(g)) /\ rows'[g].user = rows[g].user
  BY <1>1 DEF IsActive
<1>5. IsActive(h)' /\ ~ IsActive(h)
  BY <1>1 DEF IsActive, Active, Exists
<1>6. ASSUME NEW g \in Handoffs, NEW v \in Users
      PROVE  OfUser(g, v)' <=> (IF g = h THEN v = u ELSE OfUser(g, v))
  BY <1>1, <1>4, <1>5 DEF OfUser
<1>7. OneActive'
  <2>1. ASSUME NEW v \in Users, NEW g \in Handoffs, NEW k \in Handoffs, OfUser(g, v)', OfUser(k, v)' PROVE g = k
    BY <1>3, <1>6, <2>1, FactsMean DEF OneActive
  <2>. QED BY <2>1 DEF OneActive
<1>8. Goes(r)'
  BY <1>1, <1>5 DEF Goes, CreateGoes, TagsGo, ResolveGoes
<1>9. ASSUME NEW s \in Requests, s # r PROVE Goes(s)'
  <2>1. request'[s] = request[s] /\ Goes(s)
    BY <1>1, <1>9, FactsMean
  <2>2. CreateGoes(request[s])'
    <3>1. CASE request[s].kind = "create" /\ request[s].at = "insert"
      <4>1. Live(s) /\ request[s].user \in Users
        BY <1>0, <3>1 DEF Live, HandoffInv, RequestsKnow
      <4>2. request[s].user # u
        BY <1>1, <1>2, <1>9, <3>1, <4>1, Compatible
      <4>3. PICK v \in Users : v = request[s].user
        BY <4>1
      <4>4. \A g \in Handoffs : ~ OfUser(g, v)'
        BY <1>6, <2>1, <3>1, <4>2, <4>3 DEF Goes, CreateGoes
      <4>. QED BY <2>1, <3>1, <4>3, <4>4 DEF CreateGoes, OfUser, IsActive
    <3>2. CASE request[s].at = "cache"
      <4>1. request[s].handoff \in Handoffs /\ request[s].handoff # h
        BY <1>0, <1>1, <3>2, SameHandoff
      <4>. QED BY <1>4, <2>1, <3>2, <4>1 DEF Goes, CreateGoes, IsActive
    <3>. QED BY <2>1, <3>1, <3>2 DEF CreateGoes
  <2>3. TagsGo(request[s])'
    <3>1. CASE request[s].at \in {"update", "cache"}
      <4>1. request[s].handoff \in Handoffs /\ request[s].handoff # h
        BY <1>0, <1>1, <3>1, SameHandoff
      <4>. QED BY <1>4, <2>1, <3>1, <4>1 DEF Goes, TagsGo, IsActive
    <3>. QED BY <2>1, <3>1 DEF TagsGo
  <2>4. ResolveGoes(request[s])'
    <3>1. CASE request[s].kind = "resolve" /\ request[s].at \in {"update", "expire"}
      <4>1. Live(s) /\ request[s].user \in Users
        BY <1>0, <3>1, SameHandoff
      <4>2. request[s].user # u
        BY <1>1, <1>2, <1>9, <3>1, <4>1, Compatible
      <4>3. PICK v \in Users : v = request[s].user
        BY <4>1
      <4>4. \A g \in Handoffs : OfUser(g, v)' <=> OfUser(g, v)
        BY <1>5, <1>6, <4>2, <4>3 DEF OfUser
      <4>. QED BY <2>1, <3>1, <4>3, <4>4 DEF Goes, ResolveGoes, OfUser, IsActive
    <3>. QED BY <2>1, <3>1 DEF ResolveGoes
  <2>. QED BY <2>1, <2>2, <2>3, <2>4 DEF Goes
<1>10. ASSUME NEW g, Caching(g) PROVE Caching(g)'
  <2>1. PICK s \in Requests : request[s].kind = "create" /\ request[s].at = "cache" /\ request[s].handoff = g
    BY <1>10 DEF Caching
  <2>. QED BY <1>1, <1>2, <2>1 DEF Caching
<1>11. ASSUME NEW v, Expiring(v) PROVE Expiring(v)'
  BY <1>1, <1>2, <1>11 DEF Expiring
<1>12. ASSUME NEW v \in Users PROVE UserCached(v)'
  <2>1. CASE v = u
    <3>1. Caching(h)'
      BY <1>1 DEF Caching
    <3>2. OfUser(h, v)'
      BY <1>6, <2>1
    <3>3. \A g \in Handoffs : OfUser(g, v)' => g = h
      BY <1>3, <1>6, <2>1
    <3>. QED BY <3>1, <3>2, <3>3 DEF UserCached
  <2>2. CASE v # u
    <3>1. \A g \in Handoffs : OfUser(g, v)' <=> OfUser(g, v)
      BY <1>5, <1>6, <2>2 DEF OfUser
    <3>2. UserCached(v)
      BY FactsMean
    <3>. QED BY <1>2, <1>10, <1>11, <3>1, <3>2 DEF UserCached
  <2>. QED BY <2>1, <2>2
<1>13. ASSUME NEW g \in Handoffs PROVE AgentCached(g)'
  <2>1. CASE g = h
    BY <1>1, <2>1 DEF AgentCached
  <2>2. CASE g # h /\ rows[g].status = "assigned"
    <3>1. PICK t \in Requests : t = rows[g].thread /\ (cache[t] = g \/ request[t].at = "cache")
      BY <2>2, FactsMean DEF RowsRight, AgentCached
    <3>. QED BY <1>1, <1>2, <2>2, <3>1 DEF AgentCached
  <2>3. CASE g # h /\ rows[g].status # "assigned"
    BY <1>1, <2>3 DEF AgentCached
  <2>. QED BY <2>1, <2>2, <2>3
<1>. QED BY <1>7, <1>8, <1>9, <1>12, <1>13 DEF Routes

\* Updates of tags and assignments do not change which handoffs are active.
LEMMA UpdateRoutes ==
  ASSUME Facts, NEW r \in Requests, Update(r), request[r].kind \in {"tags", "assign"}
  PROVE  Routes'
<1>0. HandoffInv /\ request[r].at = "update" /\ cache' = cache
  BY FactsMean DEF Update
<1>1. PICK h \in Handoffs, u \in Users : h = request[r].handoff /\ rows[h].user = u /\ request[r].user = u
  BY <1>0, SameHandoff
<1>2. /\ request'[r].at = "cache" /\ request'[r].kind = request[r].kind /\ request'[r].handoff = h
      /\ \A s \in Requests : s # r => request'[s] = request[s]
      /\ \A g \in Handoffs : g # h => rows'[g] = rows[g]
      /\ rows'[h].user = rows[h].user
      /\ request[r].kind = "tags" => rows' = rows
      /\ request[r].kind = "assign" => rows'[h].status = "assigned" /\ rows'[h].thread = r
  BY <1>0, <1>1, Updates
<1>3. request[r].kind = "assign" => rows[h].status = "pending"
  BY <1>0, <1>1, FactsMean DEF Validated
<1>4. \A g \in Handoffs : (IsActive(g)' <=> IsActive(g)) /\ rows'[g].user = rows[g].user
  BY <1>2, <1>3 DEF IsActive, Active
<1>5. \A g \in Handoffs, v \in Users : OfUser(g, v)' <=> OfUser(g, v)
  BY <1>4 DEF OfUser
<1>6. OneActive'
  BY <1>5, FactsMean DEF OneActive
<1>7. Goes(r)'
  BY <1>0, <1>1, <1>2, <1>4, FactsMean DEF Goes, CreateGoes, TagsGo, ResolveGoes
<1>8. ASSUME NEW s \in Requests, s # r PROVE Goes(s)'
  <2>1. request'[s] = request[s] /\ Goes(s)
    BY <1>2, <1>8, FactsMean
  <2>2. request[s].at \in {"update", "cache"} => request[s].handoff \in Handoffs
    BY <1>0, SameHandoff
  <2>3. \A g \in Handoffs : OfUser(g, request[s].user)' <=> OfUser(g, request[s].user)
    BY <1>4, <2>1 DEF OfUser
  <2>4. request[s].at \in {"update", "cache"} =>
          (IsActive(request[s].handoff)' <=> IsActive(request[s].handoff))
    <3>1. SUFFICES ASSUME request[s].at \in {"update", "cache"}
                   PROVE  IsActive(request[s].handoff)' <=> IsActive(request[s].handoff)
      OBVIOUS
    <3>2. PICK g \in Handoffs : g = request[s].handoff
      BY <2>2, <3>1
    <3>3. IsActive(g)' <=> IsActive(g)
      BY <1>4
    <3>. QED BY <2>1, <3>2, <3>3 DEF IsActive
  <2>5. CreateGoes(request[s])'
    BY <2>1, <2>3, <2>4 DEF Goes, CreateGoes
  <2>6. TagsGo(request[s])'
    BY <2>1, <2>4 DEF Goes, TagsGo
  <2>7. ResolveGoes(request[s])'
    BY <2>1, <2>3 DEF Goes, ResolveGoes
  <2>. QED BY <2>5, <2>6, <2>7 DEF Goes
<1>9. ASSUME NEW g PROVE Caching(g) => Caching(g)'
  BY <1>0, <1>2 DEF Caching
<1>10. ASSUME NEW v PROVE Expiring(v) => Expiring(v)'
  BY <1>0, <1>2 DEF Expiring
<1>11. ASSUME NEW v \in Users PROVE UserCached(v)'
  <2>1. UserCached(v)
    BY FactsMean
  <2>. QED BY <1>0, <1>5, <1>9, <1>10, <2>1 DEF UserCached
<1>12. ASSUME NEW g \in Handoffs PROVE AgentCached(g)'
  <2>1. CASE g = h /\ request[r].kind = "assign"
    BY <1>2, <2>1 DEF AgentCached
  <2>2. CASE (g # h \/ request[r].kind = "tags") /\ rows[g].status = "assigned"
    <3>1. PICK t \in Requests : t = rows[g].thread /\ (cache[t] = g \/ request[t].at = "cache")
      BY <2>2, FactsMean DEF RowsRight, AgentCached
    <3>2. rows'[g] = rows[g] /\ (t = r => request[t].at # "cache")
      BY <1>0, <1>2, <2>2
    <3>. QED BY <1>0, <1>2, <2>2, <3>1, <3>2 DEF AgentCached
  <2>3. CASE (g # h \/ request[r].kind = "tags") /\ rows[g].status # "assigned"
    BY <1>2, <2>3 DEF AgentCached
  <2>. QED BY <2>1, <2>2, <2>3
<1>. QED BY <1>6, <1>7, <1>8, <1>11, <1>12 DEF Routes

LEMMA ResolveRoutes ==
  ASSUME Facts, NEW r \in Requests, Update(r), request[r].kind = "resolve"
  PROVE  Routes'
<1>0. HandoffInv /\ request[r].at = "update" /\ cache' = cache /\ Live(r)
  BY FactsMean DEF Update, Live
<1>1. PICK h \in Handoffs, u \in Users : h = request[r].handoff /\ rows[h].user = u /\ request[r].user = u
  BY <1>0, SameHandoff
<1>2. /\ request'[r].at = "expire" /\ request'[r].kind = "resolve" /\ request'[r].user = u
      /\ \A s \in Requests : s # r => request'[s] = request[s]
      /\ \A g \in Handoffs : g # h => rows'[g] = rows[g]
      /\ rows'[h].user = u /\ rows'[h].status = "resolved"
  BY <1>0, <1>1, Updates
<1>3. ~ IsActive(h)' /\ \A g \in Handoffs : IsActive(g)' => IsActive(g) /\ g # h
  BY <1>2 DEF IsActive, Active
<1>4. \A g \in Handoffs : rows'[g].user = rows[g].user /\ (g # h => (IsActive(g)' <=> IsActive(g)))
  BY <1>1, <1>2 DEF IsActive
<1>5. \A g \in Handoffs, v \in Users : OfUser(g, v)' => OfUser(g, v)
  BY <1>3, <1>4 DEF OfUser
<1>6. \A g \in Handoffs, v \in Users : v # u => (OfUser(g, v)' <=> OfUser(g, v))
  BY <1>1, <1>4 DEF OfUser
<1>7. \A g \in Handoffs : ~ OfUser(g, u)'
  <2>1. \A g \in Handoffs : OfUser(g, u) => g = h
    BY <1>0, <1>1, FactsMean DEF Goes, ResolveGoes
  <2>. QED BY <1>3, <1>5, <2>1 DEF OfUser
<1>8. OneActive'
  BY <1>5, FactsMean DEF OneActive
<1>9. Goes(r)'
  <2>1. \A g \in Handoffs : ~ OfUser(g, request[r].user)'
    BY <1>2, <1>7 DEF OfUser
  <2>. QED BY <1>2, <2>1 DEF Goes, CreateGoes, TagsGo, ResolveGoes
<1>10. ASSUME NEW s \in Requests, s # r PROVE Goes(s)'
  <2>1. request'[s] = request[s] /\ Goes(s)
    BY <1>2, <1>10, FactsMean
  <2>2. \A g \in Handoffs : OfUser(g, request[s].user)' => OfUser(g, request[s].user)
    BY <1>3, <1>4, <2>1 DEF OfUser
  <2>3. ASSUME request[s].kind \in {"create", "tags"}, request[s].at \in {"update", "cache"}
        PROVE  IsActive(request[s].handoff)'
    <3>1. PICK g \in Handoffs : /\ g = request[s].handoff /\ rows[g].user = request[s].user
                                /\ request[s].user \in Users /\ Live(s)
      BY <1>0, <2>3, SameHandoff
    <3>2. request[s].user # u
      BY <1>0, <1>1, <1>10, <2>3, <3>1, Compatible
    <3>3. g # h
      BY <1>1, <3>1, <3>2
    <3>4. request[s].kind = "create" => request[s].at # "update"
      BY <1>0 DEF HandoffInv, RequestsKnow
    <3>5. IsActive(g)
      BY <2>1, <2>3, <3>1, <3>4 DEF Goes, CreateGoes, TagsGo
    <3>6. IsActive(g)'
      BY <1>4, <3>3, <3>5
    <3>. QED BY <2>1, <3>1, <3>6 DEF IsActive
  <2>4. CreateGoes(request[s])'
    BY <2>1, <2>2, <2>3 DEF Goes, CreateGoes
  <2>5. TagsGo(request[s])'
    BY <2>1, <2>3 DEF Goes, TagsGo
  <2>6. ResolveGoes(request[s])'
    BY <2>1, <2>2 DEF Goes, ResolveGoes
  <2>. QED BY <2>4, <2>5, <2>6 DEF Goes
<1>11. ASSUME NEW g PROVE Caching(g) => Caching(g)'
  BY <1>0, <1>2 DEF Caching
<1>12. ASSUME NEW v PROVE Expiring(v) => Expiring(v)'
  BY <1>0, <1>2 DEF Expiring
<1>13. ASSUME NEW v \in Users PROVE UserCached(v)'
  <2>1. CASE v = u
    <3>1. Expiring(v)'
      BY <1>2, <2>1 DEF Expiring
    <3>. QED BY <1>7, <2>1, <3>1 DEF UserCached
  <2>2. CASE v # u
    <3>1. UserCached(v)
      BY FactsMean
    <3>. QED BY <1>0, <1>6, <1>11, <1>12, <2>2, <3>1 DEF UserCached
  <2>. QED BY <2>1, <2>2
<1>14. ASSUME NEW g \in Handoffs PROVE AgentCached(g)'
  <2>1. CASE g = h
    BY <1>2, <2>1 DEF AgentCached
  <2>2. CASE g # h /\ rows[g].status = "assigned"
    <3>1. PICK t \in Requests : t = rows[g].thread /\ (cache[t] = g \/ request[t].at = "cache")
      BY <2>2, FactsMean DEF RowsRight, AgentCached
    <3>2. rows'[g] = rows[g] /\ (t = r => request[t].at # "cache")
      BY <1>0, <1>2, <2>2
    <3>. QED BY <1>0, <1>2, <2>2, <3>1, <3>2 DEF AgentCached
  <2>3. CASE g # h /\ rows[g].status # "assigned"
    BY <1>2, <2>3 DEF AgentCached
  <2>. QED BY <2>1, <2>2, <2>3
<1>. QED BY <1>8, <1>9, <1>10, <1>13, <1>14 DEF Routes
\* What warmup caches is the one active handoff of the thread, if there is one.
LEMMA WarmedUp ==
  ASSUME NEW t \in Threads, NEW h \in Handoffs, IsActive(h), t \in {rows[h].user, rows[h].thread},
         \A g \in Handoffs : IsActive(g) /\ t \in {rows[g].user, rows[g].thread} => g = h
  PROVE  Warm(t) = h
<1> DEFINE of == {g \in Handoffs : IsActive(g) /\ t \in {rows[g].user, rows[g].thread}}
<1>1. of = {h}
  OBVIOUS
<1>2. h <= h
  BY Constants
<1>3. Warm(t) = CHOOSE g \in of : \A k \in of : k <= g
  BY <1>1 DEF Warm
<1>. QED BY <1>1, <1>2, <1>3

LEMMA RestartRoutes ==
  ASSUME Facts, Restart
  PROVE  Routes'
<1>0. /\ HandoffInv /\ rows \in [Handoffs -> Row] /\ rows' = rows
      /\ cache' = [t \in Threads |-> Warm(t)]
  BY FactsMean DEF Restart
<1>1. \A h \in Handoffs : rows[h].user \in Users \cup {None} /\ rows[h].thread \in Requests \cup {None}
  BY <1>0 DEF Row
<1>2. OneActive'
  BY <1>0, FactsMean DEF OneActive, OfUser, IsActive
<1>3. ASSUME NEW s \in Requests PROVE Goes(s)'
  <2>1. request'[s].at \in {"idle", "over"}
    <3>1. Over(request[s]).at = "over"
      BY DEF Over, IdleRequest
    <3>. QED BY <3>1 DEF Restart, Live
  <2>. QED BY <2>1 DEF Goes, CreateGoes, TagsGo, ResolveGoes
<1>4. ASSUME NEW u \in Users PROVE UserCached(u)'
  <2>0. u \in Threads /\ u # None /\ u \notin Requests /\ cache'[u] = Warm(u)
    BY <1>0, Constants
  <2>1. \A g \in Handoffs : IsActive(g) /\ u \in {rows[g].user, rows[g].thread} => OfUser(g, u)
    BY <1>1, <2>0 DEF OfUser
  <2>2. ASSUME NEW h \in Handoffs, OfUser(h, u) PROVE cache'[u] = h
    <3>1. \A g \in Handoffs : OfUser(g, u) => g = h
      BY <2>2, FactsMean DEF OneActive
    <3>2. IsActive(h) /\ rows[h].user = u
      BY <2>2 DEF OfUser
    <3>. QED BY <2>0, <2>1, <3>1, <3>2, WarmedUp
  <2>3. ASSUME \A h \in Handoffs : ~ OfUser(h, u) PROVE cache'[u] = None
    <3>1. Warm(u) = None
      BY <2>1, <2>3 DEF Warm
    <3>. QED BY <2>0, <3>1
  <2>. QED BY <1>0, <2>2, <2>3 DEF UserCached, OfUser, IsActive
<1>5. ASSUME NEW h \in Handoffs, rows[h].status = "assigned" PROVE AgentCached(h)'
  <2>1. PICK t \in Requests : t = rows[h].thread
    BY <1>5, FactsMean DEF RowsRight
  <2>2. request[t].handoff = h
    BY <1>0, <2>1, ThreadIsOwn
  <2>3. ASSUME NEW g \in Handoffs, t \in {rows[g].user, rows[g].thread} PROVE g = h
    <3>0. t # None /\ t \notin Users
      BY Constants DEF None
    <3>1. rows[g].thread = t
      BY <1>1, <2>3, <3>0
    <3>. QED BY <1>0, <2>2, <3>1, ThreadIsOwn
  <2>4. IsActive(h) /\ t \in Threads
    BY <1>5, Constants DEF IsActive, Active
  <2>5. Warm(t) = h
    BY <2>1, <2>3, <2>4, WarmedUp
  <2>6. cache'[t] = h
    BY <1>0, <2>4, <2>5
  <2>. QED BY <1>0, <2>1, <2>6 DEF AgentCached
<1>6. ASSUME NEW h \in Handoffs, rows[h].status # "assigned" PROVE AgentCached(h)'
  BY <1>0, <1>6 DEF AgentCached
<1>. QED BY <1>2, <1>3, <1>4, <1>5, <1>6 DEF Routes

RoutingInv == HandoffInv /\ StatusInv /\ RowsRight /\ KindsRight /\ RoutedInv

LEMMA RoutedKept == RoutingInv /\ Next => RoutedInv'
<1> SUFFICES ASSUME RoutingInv, Next, crossings' \subseteq Harmless PROVE Apart' /\ Routes'
  BY DEF RoutedInv, Routes
<1>0. crossings \subseteq Harmless
  BY CrossingsGrow
<1>1. Facts
  BY <1>0 DEF RoutingInv, Facts
<1>2. Apart'
  <2>1. ASSUME NEW q \in Requests, NEW r \in Requests, Together(q, r)'
        PROVE  {request'[q].kind, request'[r].kind} \in Harmless
    <3>1. CASE {request'[q].kind, request'[r].kind} \in crossings'
      BY <3>1
    <3>2. CASE Together(q, r) /\ request'[q].kind = request[q].kind /\ request'[r].kind = request[r].kind
      BY <1>1, <3>2, FactsMean DEF Apart
    <3>. QED BY <1>1, <2>1, <3>1, <3>2, FactsMean, Pairs
  <2>. QED BY <2>1 DEF Apart
<1>3. CASE \E r \in Requests : Request(r) \/ Look(r) \/ Insert(r) \/ Cache(r) \/ Find(r) \/ Update(r) \/ Expire(r)
  <2>1. PICK r \in Requests : Request(r) \/ Look(r) \/ Insert(r) \/ Cache(r) \/ Find(r) \/ Update(r) \/ Expire(r)
    BY <1>3
  <2>2. CASE Update(r)
    <3>1. request[r].kind \in {"tags", "assign", "resolve"}
      BY <2>2 DEF Update, RoutingInv, HandoffInv, RequestsKnow
    <3>. QED BY <1>1, <1>2, <2>2, <3>1, UpdateRoutes, ResolveRoutes
  <2>3. CASE Request(r)
    BY <1>1, <1>2, <2>3, RequestRoutes
  <2>4. CASE Look(r) \/ Find(r)
    BY <1>1, <1>2, <2>4, LookOrFindRoutes
  <2>5. CASE Insert(r)
    BY <1>1, <1>2, <2>5, InsertRoutes
  <2>6. CASE Cache(r)
    BY <1>1, <1>2, <2>6, CacheRoutes
  <2>7. CASE Expire(r)
    BY <1>1, <1>2, <2>7, ExpireRoutes
  <2>. QED BY <2>1, <2>2, <2>3, <2>4, <2>5, <2>6, <2>7
<1>4. CASE Restart
  BY <1>1, <1>2, <1>4, RestartRoutes
<1>5. CASE Evict
  <2>1. {"evict"} \in crossings'
    BY <1>5 DEF Evict
  <2>. QED BY <2>1, Harmful
<1>6. CASE UNCHANGED <<rows, cache, request>>
  <2>1. Routes
    BY <1>1, FactsMean DEF Routes
  <2>2. Routes'
    BY <1>6, <2>1 DEF Routes, OneActive, OfUser, IsActive, Goes, CreateGoes, TagsGo, ResolveGoes,
                      UserCached, AgentCached, Caching, Expiring
  <2>. QED BY <1>2, <2>2
<1>. QED BY <1>3, <1>4, <1>5, <1>6 DEF Next, Send, Pipe

LEMMA RoutingInvKept == RoutingInv /\ [Next]_vars => RoutingInv'
<1> SUFFICES ASSUME RoutingInv, [Next]_vars PROVE RoutingInv'
  OBVIOUS
<1>1. CASE Next
  <2>1. HandoffInv'
    BY <1>1, TypesKept, ThreadsOwnedKept, RequestsKnowKept, CacheKept, NoCrossTalkKept
    DEF RoutingInv, HandoffInv
  <2>2. StatusInv' /\ RowsRight' /\ KindsRight' /\ RoutedInv'
    BY <1>1, StatusKept, RowsRightKept, KindsRightKept, RoutedKept DEF RoutingInv
  <2>. QED BY <2>1, <2>2 DEF RoutingInv
<1>2. CASE UNCHANGED vars
  <2>1. HandoffInv' /\ StatusInv'
    BY <1>2, StutterHandoffInv, StatusKept DEF RoutingInv
  <2>2. RowsRight' /\ KindsRight'
    BY <1>2 DEF RoutingInv, vars, RowsRight, KindsRight, Live
  <2>3. RoutedInv'
    BY <1>2 DEF RoutingInv, vars, RoutedInv, Apart, Together, Live, OneActive, OfUser, IsActive, Goes,
                CreateGoes, TagsGo, ResolveGoes, UserCached, AgentCached, Caching, Expiring
  <2>. QED BY <2>1, <2>2, <2>3 DEF RoutingInv
<1>. QED BY <1>1, <1>2

LEMMA InitRoutingInv == Init => RoutingInv
<1> SUFFICES ASSUME Init PROVE RoutingInv
  OBVIOUS
<1>1. HandoffInv /\ StatusInv
  BY InitHandoffInv, InitStatusInv
<1>2. \A h \in Handoffs : rows[h].status = "none"
  BY DEF Init, NoRow
<1>3. \A r \in Requests : request[r].at = "idle"
  BY DEF Init, IdleRequest
<1>4. RowsRight /\ KindsRight
  BY <1>2, <1>3 DEF RowsRight, KindsRight, Live
<1>5. \A h \in Handoffs : ~ IsActive(h)
  BY <1>2 DEF IsActive, Active
<1>6. Apart /\ OneActive /\ \A r \in Requests : Goes(r)
  BY <1>3, <1>5 DEF Apart, Together, Live, OneActive, OfUser, Goes, CreateGoes, TagsGo, ResolveGoes
<1>7. (\A u \in Users : UserCached(u)) /\ \A h \in Handoffs : AgentCached(h)
  <2>1. \A u \in Users : cache[u] = None
    BY Constants DEF Init
  <2>. QED BY <1>2, <1>5, <2>1 DEF UserCached, AgentCached, OfUser
<1>. QED BY <1>1, <1>4, <1>6, <1>7 DEF RoutingInv, RoutedInv

LEMMA RoutingRoutes == RoutingInv => RoutedAtRest
<1> SUFFICES ASSUME RoutingInv, AtRest, crossings \subseteq Harmless, NEW u \in Users
             PROVE  LET active == {h \in Handoffs : IsActive(h) /\ rows[h].user = u} IN
                    /\ active = {} => Route(u) = "bot"
                    /\ \A h \in active :
                         /\ Route(u) = rows[h].thread
                         /\ rows[h].agent \in agents => Route(rows[h].thread) = u
  BY DEF RoutedAtRest
<1>1. Facts
  BY DEF RoutingInv, Facts
<1>2. \A h : ~ Caching(h)
  BY DEF AtRest, Live, Caching
<1>3. \A v : ~ Expiring(v)
  BY DEF AtRest, Live, Expiring
<1>4. UserCached(u)
  BY <1>1, FactsMean
<1>5. ASSUME \A h \in Handoffs : ~ (IsActive(h) /\ rows[h].user = u) PROVE Route(u) = "bot"
  <2>1. \A h \in Handoffs : ~ OfUser(h, u)
    BY <1>5 DEF OfUser
  <2>. QED BY <1>3, <1>4, <2>1 DEF UserCached, Route
<1>6. ASSUME NEW h \in Handoffs, IsActive(h), rows[h].user = u
      PROVE  /\ Route(u) = rows[h].thread
             /\ rows[h].agent \in agents => Route(rows[h].thread) = u
  <2>0. cache[u] = h /\ h # None
    BY <1>2, <1>4, <1>6, Constants DEF UserCached, OfUser, None
  <2>1. Route(u) = Destination(u, h)
    BY <2>0 DEF Route
  <2>2. CASE rows[h].status = "assigned"
    <3>1. PICK t \in Requests : t = rows[h].thread
      BY <1>1, <2>2, FactsMean DEF RowsRight
    <3>2. t # u /\ request[t].at # "cache"
      BY Constants DEF AtRest, Live
    <3>3. cache[t] = h
      BY <1>1, <2>2, <3>1, <3>2, FactsMean DEF AgentCached
    <3>4. Destination(u, h) = t
      BY <1>6, <2>2, <3>1 DEF Destination
    <3>5. rows[h].agent \in agents => Destination(t, h) = u
      BY <1>6, <3>1, <3>2 DEF Destination
    <3>6. Route(t) = Destination(t, h)
      BY <2>0, <3>3 DEF Route
    <3>. QED BY <2>1, <3>1, <3>4, <3>5, <3>6
  <2>3. CASE rows[h].status = "pending"
    <3>1. rows[h].agent = None /\ rows[h].thread = None
      BY <1>1, <2>3, FactsMean DEF RowsRight
    <3>2. Destination(u, h) = None
      BY <1>6, <2>3 DEF Destination
    <3>3. None \notin agents
      BY HandoffsAssumption DEF RoutingInv, HandoffInv, TypeOK, None
    <3>. QED BY <2>1, <3>1, <3>2, <3>3
  <2>. QED BY <1>6, <2>2, <2>3 DEF IsActive, Active
<1>. QED BY <1>5, <1>6

\* When no request is under way, a message of a user goes to the agent of the active
\* handoff, to nobody while it is pending, to the bot when there is none, and one of
\* the agent goes to the user (middleware.ts): over every interleaving of requests
\* that the API foresees, restarts included.
THEOREM RoutesAtRest == Spec => []RoutedAtRest
BY InitRoutingInv, RoutingInvKept, RoutingRoutes, PTL DEF Spec
=============================================================================
