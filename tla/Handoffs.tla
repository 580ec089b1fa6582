------------------------------ MODULE Handoffs ------------------------------
(***************************************************************************)
(* The handoffs of the HITL Next module (modules/hitlnext/src/backend):    *)
(* conversations that users have with an agent instead of the bot.  The    *)
(* requests of the studio (api.ts) change the rows of the table, and tell  *)
(* the middleware (middleware.ts) through a cache, which maps the thread   *)
(* of the user, and that of the agent, to the handoff.  A message that     *)
(* finds its thread in the cache is piped to the other side and kept from  *)
(* the bot.                                                                *)
(*                                                                         *)
(* A step is what a request or a message does between two awaits.  The     *)
(* thread of an agent is made by the request that assigns the handoff, and *)
(* has its number.  Only agents that are online may assign and resolve;    *)
(* the requests here are those of agents who are.                          *)
(***************************************************************************)
EXTENDS Integers, FiniteSets

CONSTANTS
  Users,        \* the threads of the users
  Agents,
  Newcomers,    \* agents that were added after the server had started
  MaxRequests,  \* bound
  MaxHandoffs,  \* bound: rows of the table
  MaxMessages,  \* bound
  MaxLapses     \* bound: restarts, and entries that the cache lets go

ASSUME HandoffsAssumption ==
  /\ Newcomers \subseteq Agents
  /\ {MaxRequests, MaxHandoffs, MaxMessages, MaxLapses} \subseteq Nat
  /\ Users \cap Nat = {}
  /\ Agents \cap Nat = {}

VARIABLES
  rows,       \* the table of the handoffs
  cache,      \* handoffCache: the handoff of each thread
  agents,     \* agentCache: the agents it knows
  request,    \* the requests to the module's API
  message,    \* the messages in the middleware
  lapses,     \* bound: the restarts and evictions so far
  crossings   \* history: what has happened that the requests do not foresee

vars == <<rows, cache, agents, request, message, lapses, crossings>>

Requests == 1..MaxRequests
Handoffs == 1..MaxHandoffs
Messages == 1..MaxMessages
Threads == Users \cup Requests
None == 0

Active == {"pending", "assigned"}
NoRow == [status |-> "none", user |-> None, agent |-> None, thread |-> None]
IdleRequest == [kind |-> "none", at |-> "idle", user |-> None, handoff |-> None, agent |-> None]
IdleMessage == [at |-> "idle", from |-> None, handoff |-> None, to |-> None]

Exists(h) == rows[h].status # "none"
IsActive(h) == rows[h].status \in Active
Live(r) == request[r].at \notin {"idle", "over"}

Init ==
  /\ rows = [h \in Handoffs |-> NoRow]
  /\ cache = [t \in Threads |-> None]
  /\ agents = Agents \ Newcomers
  /\ request = [r \in Requests |-> IdleRequest]
  /\ message = [m \in Messages |-> IdleMessage]
  /\ lapses = 0
  /\ crossings = {}

-----------------------------------------------------------------------------
(* The requests. *)

CacheHandoff(t, h) == cache' = [cache EXCEPT ![t] = h]
ExpireHandoff(t) == cache' = [cache EXCEPT ![t] = None]

Goto(r, at) == request' = [request EXCEPT ![r].at = at]

\* Of a request that is over, only what an agent's thread is of matters.
Over(q) == [IdleRequest EXCEPT !.at = "over", !.handoff = IF q.kind = "assign" THEN q.handoff ELSE None]
Ends(r) == request' = [request EXCEPT ![r] = Over(@)]

NextRequest(r) == request[r].at = "idle" /\ \A q \in 1..(r - 1) : request[q].at # "idle"

\* What a request crosses: those of the same conversation that are under way,
\* and a resolution that is over when it is about tags.
Crossed(kind, u, h) ==
  {{kind, request[q].kind} : q \in {p \in Requests : Live(p) /\ request[p].user = u}}
    \cup (IF kind = "tags" /\ rows[h].status = "resolved" THEN {{"tags", "resolve"}} ELSE {})

Request(r) ==
  /\ NextRequest(r)
  /\ \/ \E u \in Users :
          /\ request' = [request EXCEPT ![r] = [IdleRequest EXCEPT !.kind = "create", !.at = "look", !.user = u]]
          /\ crossings' = crossings \cup Crossed("create", u, None)
     \/ \E h \in Handoffs, kind \in {"tags", "assign", "resolve"}, a \in Agents :
          /\ Exists(h)
          /\ kind = "tags" => a = CHOOSE b \in Agents : TRUE
          /\ request' = [request EXCEPT ![r] = [kind |-> kind, at |-> IF kind = "tags" THEN "update" ELSE "find",
                                                user |-> rows[h].user, handoff |-> h, agent |-> a]]
          /\ crossings' = crossings \cup Crossed(kind, rows[h].user, h)
  /\ UNCHANGED <<rows, cache, agents, message, lapses>>

\* POST /handoffs: a conversation that has an active handoff gets no other.
Look(r) ==
  /\ request[r].at = "look"
  /\ IF \E h \in Handoffs : IsActive(h) /\ rows[h].user = request[r].user
     THEN Ends(r) ELSE Goto(r, "insert")
  /\ UNCHANGED <<rows, cache, agents, message, lapses, crossings>>

Insert(r) ==
  /\ request[r].at = "insert"
  /\ \E h \in Handoffs :
       /\ ~ Exists(h)
       /\ \A g \in 1..(h - 1) : Exists(g)
       /\ rows' = [rows EXCEPT ![h] = [NoRow EXCEPT !.status = "pending", !.user = request[r].user]]
       /\ request' = [request EXCEPT ![r].handoff = h, ![r].at = "cache"]
  /\ UNCHANGED <<cache, agents, message, lapses, crossings>>

\* The handoff is cached under the thread of the user; or under that of the
\* agent, when it has been assigned.
\* Mutant of Cache: an assigned handoff is cached under the last thread known.
CacheOfUser(r) ==
  /\ request[r].at = "cache"
  /\ CacheHandoff(request[r].user, request[r].handoff)
  /\ Ends(r)
  /\ UNCHANGED <<rows, agents, message, lapses, crossings>>
Cache(r) ==
  /\ request[r].at = "cache"
  /\ CacheHandoff(IF request[r].kind = "assign" THEN r ELSE request[r].user, request[r].handoff)
  /\ Ends(r)
  /\ UNCHANGED <<rows, agents, message, lapses, crossings>>

\* The status that a request needs to find, and what it makes of it.
Needed(kind) == IF kind = "assign" THEN "pending" ELSE "assigned"

\* The handoff is read and its status is validated, before it is updated.
\* Mutant of Find: the transition is not validated.
FindAny(r) ==
  /\ request[r].at = "find"
  /\ Goto(r, "update")
  /\ UNCHANGED <<rows, cache, agents, message, lapses, crossings>>
Find(r) ==
  /\ request[r].at = "find"
  /\ IF rows[request[r].handoff].status = Needed(request[r].kind) THEN Goto(r, "update") ELSE Ends(r)
  /\ UNCHANGED <<rows, cache, agents, message, lapses, crossings>>

\* The tags are no part of the model.
Update(r) ==
  /\ request[r].at = "update"
  /\ LET h == request[r].handoff IN
       rows' = CASE request[r].kind = "tags" -> rows
                 [] request[r].kind = "assign" -> [rows EXCEPT ![h].status = "assigned", ![h].agent = request[r].agent,
                                                              ![h].thread = r]
                 [] request[r].kind = "resolve" -> [rows EXCEPT ![h].status = "resolved"]
  /\ Goto(r, IF request[r].kind = "resolve" THEN "expire" ELSE "cache")
  /\ UNCHANGED <<cache, agents, message, lapses, crossings>>

\* A handoff that is resolved leaves the thread of the user; that of the agent
\* stays in the cache.
Expire(r) ==
  /\ request[r].at = "expire"
  /\ ExpireHandoff(request[r].user)
  /\ Ends(r)
  /\ UNCHANGED <<rows, agents, message, lapses, crossings>>

-----------------------------------------------------------------------------
(* The middleware. *)

\* A user, or an agent in a thread of a handoff; that of an assignment that another
\* has overwritten is still in the cache.
Send(m) ==
  /\ message[m].at = "idle"
  /\ \A n \in 1..(m - 1) : message[n].at # "idle"
  /\ \E t \in Users \cup {rows[h].thread : h \in {g \in Handoffs : rows[g].thread # None}}
                  \cup {q \in Requests : cache[q] # None} :
       message' = [message EXCEPT ![m] = IF cache[t] = None THEN [IdleMessage EXCEPT !.at = "bot"]
                                         ELSE [at |-> "read", from |-> t, handoff |-> cache[t], to |-> None]]
  /\ UNCHANGED <<rows, cache, agents, request, lapses, crossings>>

\* Where a message of a thread goes, given the handoff it is of: to the agent if
\* the handoff is assigned, to the user whatever its status is, or to nobody.
Destination(t, h) ==
  IF rows[h].user = t THEN IF rows[h].status = "assigned" THEN rows[h].thread ELSE None
  ELSE IF rows[h].thread = t /\ rows[h].agent \in agents THEN rows[h].user
  ELSE None

\* The handoff is read again, as it is by now.
Pipe(m) ==
  /\ message[m].at = "read"
  /\ message' = [message EXCEPT ![m].at = "piped", ![m].to = Destination(message[m].from, message[m].handoff)]
  /\ UNCHANGED <<rows, cache, agents, request, lapses, crossings>>

\* The cache drops an entry after a day, or when it holds a thousand.
Evict ==
  /\ lapses < MaxLapses
  /\ lapses' = lapses + 1
  /\ \E t \in Threads : cache[t] # None /\ ExpireHandoff(t)
  /\ crossings' = crossings \cup {{"evict"}}
  /\ UNCHANGED <<rows, agents, request, message>>

\* warmup caches the active handoffs, in the order of the table, and all agents.
\* Mutant of Warm: an agent's threads all lead to the agent's last handoff.
WarmByAgent(t) ==
  LET of == {h \in Handoffs : IsActive(h) /\ (rows[h].user = t \/ \E g \in Handoffs :
                                 rows[g].thread = t /\ rows[g].agent = rows[h].agent)} IN
  IF of = {} THEN None ELSE CHOOSE h \in of : \A g \in of : g <= h
Warm(t) ==
  LET of == {h \in Handoffs : IsActive(h) /\ t \in {rows[h].user, rows[h].thread}} IN
  IF of = {} THEN None ELSE CHOOSE h \in of : \A g \in of : g <= h

\* The server stops and starts: what was under way is lost.
Restart ==
  /\ lapses < MaxLapses
  /\ lapses' = lapses + 1
  /\ cache' = [t \in Threads |-> Warm(t)]
  /\ agents' = Agents
  /\ request' = [r \in Requests |-> IF Live(r) THEN Over(request[r]) ELSE request[r]]
  /\ message' = [m \in Messages |-> IF message[m].at = "read" THEN [message[m] EXCEPT !.at = "piped"] ELSE message[m]]
  /\ UNCHANGED <<rows, crossings>>

Next ==
  \/ \E r \in Requests : Request(r) \/ Look(r) \/ Insert(r) \/ Cache(r) \/ Find(r) \/ Update(r) \/ Expire(r)
  \/ \E m \in Messages : Send(m) \/ Pipe(m)
  \/ Evict \/ Restart

Spec == Init /\ [][Next]_vars

-----------------------------------------------------------------------------
(* Properties. *)

Row == [status : Active \cup {"none", "resolved"}, user : Users \cup {None},
        agent : Agents \cup {None}, thread : Requests \cup {None}]
RequestRecord ==
  [kind : {"none", "create", "tags", "assign", "resolve"},
   at : {"idle", "over", "look", "insert", "cache", "find", "update", "expire"},
   user : Users \cup {None}, handoff : Handoffs \cup {None}, agent : Agents \cup {None}]
MessageRecord ==
  [at : {"idle", "bot", "read", "piped"}, from : Threads \cup {None},
   handoff : Handoffs \cup {None}, to : Threads \cup {None}]

TypeOK ==
  /\ rows \in [Handoffs -> Row]
  /\ cache \in [Threads -> Handoffs \cup {None}]
  /\ agents \subseteq Agents
  /\ request \in [Requests -> RequestRecord]
  /\ message \in [Messages -> MessageRecord]
  /\ lapses \in 0..MaxLapses

\* Thread t is that of the user of handoff h, or of an agent for whom a request
\* has assigned it (or tried to).
Assigned(r) == request[r].at = "over" \/ (request[r].kind = "assign" /\ request[r].at = "cache")
IsThreadOf(t, h) ==
  IF t \in Users THEN rows[h].user = t ELSE Assigned(t) /\ request[t].handoff = h

\* Every handoff has a user, and the thread of an agent is that of one handoff.
ThreadsOwned ==
  \A h \in Handoffs :
    /\ IF Exists(h) THEN rows[h].user \in Users ELSE rows[h] = NoRow
    /\ rows[h].thread # None => IsThreadOf(rows[h].thread, h)

\* A request knows the conversation of its handoff.
RequestsKnow ==
  \A r \in Requests :
    /\ request[r].at \in {"look", "insert"} => request[r].kind = "create" /\ request[r].user \in Users
    /\ request[r].at \in {"find", "update", "cache", "expire"} =>
         /\ request[r].handoff \in Handoffs
         /\ request[r].user \in Users
         /\ rows[request[r].handoff].user = request[r].user
    /\ request[r].at = "update" => request[r].kind \in {"tags", "assign", "resolve"}
    /\ request[r].at = "find" => request[r].kind \in {"assign", "resolve"}

\* The cache maps a thread to a handoff of that thread, and no other.
CachedUnderItsThread ==
  \A t \in Threads : cache[t] # None => IsThreadOf(t, cache[t])

\* A message is piped to the other side of its own conversation, whatever has
\* happened to the handoff between its look-up and its reading.
NoCrossTalk ==
  \A m \in Messages :
    /\ message[m].at = "read" =>
         message[m].handoff \in Handoffs /\ message[m].from \in Threads /\ IsThreadOf(message[m].from, message[m].handoff)
    /\ message[m].to # None =>
         message[m].from \in Threads /\ \E h \in Handoffs :
           /\ IsThreadOf(message[m].from, h) /\ IsThreadOf(message[m].to, h)
           /\ {message[m].from, message[m].to} \cap Users # {}
           /\ {message[m].from, message[m].to} \cap Requests # {}

\* The cache of the middleware and what it does to messages: the types and the
\* facts above.  It is inductive.
HandoffInv == TypeOK /\ ThreadsOwned /\ RequestsKnow /\ CachedUnderItsThread /\ NoCrossTalk

AtRest == \A r \in Requests : ~ Live(r)
Route(t) == IF cache[t] = None THEN "bot" ELSE Destination(t, cache[t])

\* The pairs of requests of one conversation that may be under way together and
\* leave the cache right.  The others do not: two creations make two active
\* handoffs; two assignments, of which one may come after the resolution; a
\* resolution that takes the entry of the handoff created meanwhile; tags that put
\* a resolved handoff back.
Harmless == {{"create", "tags"}, {"create", "assign"}, {"tags"}, {"tags", "assign"}, {"assign", "resolve"}, {"resolve"}}

\* When no request is under way, a message of a user goes to the agent of the
\* active handoff, to nobody while the handoff is pending, and to the bot when
\* there is none; and a message of the agent goes to the user.  Excepted are what
\* is not harmless, an entry that the cache let go, and an agent it does not know.
RoutedAtRest ==
  AtRest /\ crossings \subseteq Harmless =>
    \A u \in Users :
      LET active == {h \in Handoffs : IsActive(h) /\ rows[h].user = u} IN
        /\ active = {} => Route(u) = "bot"
        /\ \A h \in active :
             /\ Route(u) = rows[h].thread
             /\ rows[h].agent \in agents => Route(rows[h].thread) = u

\* The status of a handoff only goes from pending to assigned to resolved
\* (validateHandoffStatusRule), although it is validated on a row that was read
\* before the update: unless two assignments were under way together.
StatusForward ==
  [][\A h \in Handoffs : {"assign"} \notin crossings =>
       <<rows[h].status, rows'[h].status>> \in
         {<<s, s>> : s \in Active \cup {"none", "resolved"}}
           \cup {<<"none", "pending">>, <<"pending", "assigned">>, <<"assigned", "resolved">>}]_vars
=============================================================================
