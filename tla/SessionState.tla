---------------------------- MODULE SessionState ----------------------------
(***************************************************************************)
(* The dialog sessions: the rows of dialog_sessions, which the events of a *)
(* conversation read and write (middleware/state-manager.ts), which the    *)
(* dialog janitor (dialog/janitor.ts) deletes and resets when they expire, *)
(* and which actions and hooks may delete.                                 *)
(*                                                                         *)
(* With USE_REDIS_STATE an event leaves its state in Redis, for thirty     *)
(* seconds, and in a batch in memory, which a transaction writes to the    *)
(* rows.  The database is Postgres then: the transaction locks the rows it *)
(* updates, and its updates are seen when it commits, not before, not even *)
(* by its own reads, which take no part in it (nor do its insertions).     *)
(*                                                                         *)
(* Events of one conversation follow each other (MemoryQueue); the janitor *)
(* takes no part in that queue.  Every query of the database is a step of  *)
(* its own.  A turn is an event that was processed; the context it leaves  *)
(* is its number, and the session data is the set of turns recorded in it. *)
(*                                                                         *)
(* SessionInit, SessionNext, SessionSpec and what belongs to them are named for the sessions:   *)
(* ConversationProofs extends this module beside MemoryQueue.              *)
(***************************************************************************)
EXTENDS Integers, FiniteSets, Functions, Sequences

CONSTANTS
  Sessions,    \* the session ids of one bot
  MaxTurns,    \* bound: events of all the sessions
  MaxExpiries, \* bound: how often an expiry date is passed
  MaxMishaps,  \* bound: calls of deleteDialogSession, crashes, and what fails
  WithRedis,   \* bound: the sessions that have events, when Redis is used
  BatchSize,   \* BATCH_SIZE
  Modes        \* the values that USE_REDIS_STATE may have

ASSUME SessionAssumption ==
  /\ {MaxTurns, MaxExpiries, MaxMishaps} \subseteq Nat
  /\ BatchSize \in Nat \ {0}
  /\ Modes \subseteq BOOLEAN

VARIABLES
  row,       \* the row of each session, or NoRow
  worker,    \* the event under way in each session
  turn,      \* the number of the last event of each session
  janitor,   \* the sweep under way
  redis,     \* useRedis: never changes
  key,       \* the state of each session in Redis, or NoKey
  batch,     \* the states that are to be written to the rows
  flight,    \* the transaction under way: what it has still to write, the row
             \* it has read, and the rows it has updated
  deleting,  \* the sessions whose row was deleted, and whose key will be
  events,    \* bound
  expiries,  \* bound
  mishaps,   \* bound
  saved,     \* history: the turns persisted since the session was created
  left,      \* history: the context left by the last turn that persisted one
  lost,      \* history: the sessions of which a batch was lost
  raced      \* history: something came between that may lose a turn, or bring a
             \* context back: each place where it is set says what

cached == <<redis, key, batch, flight, deleting>>
bounds == <<events, expiries, mishaps>>
histories == <<saved, left, lost, raced>>
sessionVars == <<row, worker, turn, janitor, cached, bounds, histories>>

None == 0   \* the empty context, {}
NoRow == [exists |-> FALSE, ctx |-> None, turns |-> {},
          ctxExpiry |-> "none", sesExpiry |-> "none"]
NewRow == [NoRow EXCEPT !.exists = TRUE]  \* a row without expiry dates
NoKey == [exists |-> FALSE, ctx |-> None, turns |-> {}]

Turns == 1..MaxTurns
Expiry == {"none", "future", "past"}
Row == [exists : BOOLEAN, ctx : 0..MaxTurns, turns : SUBSET Turns,
        ctxExpiry : Expiry, sesExpiry : Expiry]
Key == [exists : BOOLEAN, ctx : 0..MaxTurns, turns : SUBSET Turns]
Element == [of : Sessions, ctx : 0..MaxTurns, turns : SUBSET Turns, ignoreContext : BOOLEAN]
Worker == [at : {"idle", "process", "write"}, ctx : 0..MaxTurns, turns : SUBSET Turns,
           copy : Row, ignoreContext : BOOLEAN]
Idle == [at |-> "idle", ctx |-> None, turns |-> {}, copy |-> NoRow, ignoreContext |-> FALSE]
Resting == [at |-> "idle", todo |-> {}, of |-> {}, copy |-> NoRow, reset |-> FALSE]
NoFlight == [at |-> "idle", todo |-> <<>>, copy |-> NoRow, writes |-> [s \in Sessions |-> NoRow]]

Stale(s) == row[s].ctxExpiry = "past" /\ row[s].ctx # None

\* The janitor has read the row of s and is about to write all of it.
JanitorHolds(s) == janitor.at = "write" /\ s \in janitor.of

\* The transaction has updated the row of s.
Locked(s) == flight.writes[s].exists

\* Some state of s is in the batch, or in the transaction.
Unwritten(s) == Locked(s) \/ \E e \in Range(batch) \cup Range(flight.todo) : e.of = s

Races(S) == raced' = [s \in Sessions |-> raced[s] \/ s \in S]

SessionInit ==
  /\ row = [s \in Sessions |-> NoRow]
  /\ worker = [s \in Sessions |-> Idle]
  /\ turn = [s \in Sessions |-> 0]
  /\ janitor = Resting
  /\ redis \in Modes
  /\ key = [s \in Sessions |-> NoKey]
  /\ batch = <<>>
  /\ flight = NoFlight
  /\ deleting = {}
  /\ events = 0 /\ expiries = 0 /\ mishaps = 0
  /\ saved = [s \in Sessions |-> {}]
  /\ left = [s \in Sessions |-> None]
  /\ lost = {}
  /\ raced = [s \in Sessions |-> FALSE]

-----------------------------------------------------------------------------
(* The events of a session. *)

\* restore: the event takes the state that is in Redis or, when there is none or
\* Redis cannot be read, that of the row, or an empty one.
\* Raced: Redis cannot be read and had what the row has not; a deletion is half done.
Restore(s) ==
  /\ worker[s].at = "idle"
  /\ events < MaxTurns
  /\ redis => s \in WithRedis
  /\ events' = events + 1
  /\ turn' = [turn EXCEPT ![s] = @ + 1]
  /\ \E fails \in BOOLEAN :
       LET from == IF key[s].exists /\ ~ fails THEN key[s] ELSE row[s]
           new == redis /\ ~ key[s].exists /\ ~ row[s].exists
       IN  /\ fails => key[s].exists /\ mishaps < MaxMishaps
           /\ mishaps' = IF fails THEN mishaps + 1 ELSE mishaps
           /\ worker' = [worker EXCEPT ![s] = [Idle EXCEPT !.at = "process", !.ctx = from.ctx,
                                                           !.turns = from.turns]]
           /\ saved' = IF new THEN [saved EXCEPT ![s] = {}] ELSE saved
           /\ left' = IF new THEN [left EXCEPT ![s] = None] ELSE left
           /\ Races({x \in {s} : \/ x \in deleting
                                 \/ fails /\ (Unwritten(x) \/ x \in lost \/ ~ row[x].exists)})
  /\ UNCHANGED <<row, janitor, cached, expiries, lost>>

\* _saveState up to its last query: the bot has moved the context to this turn
\* or ended the flow; the row is read, and created when there is none.
SaveRead(s, ignoreContext, ctx) ==
  /\ ~ redis
  /\ worker[s].at = "process"
  /\ LET current == IF row[s].exists THEN row[s] ELSE NewRow
     IN  /\ row' = [row EXCEPT ![s] = current]
         /\ worker' = [worker EXCEPT ![s] =
              [at |-> "write", ctx |-> ctx, turns |-> @.turns \cup {turn[s]},
               copy |-> current, ignoreContext |-> ignoreContext]]
         /\ saved' = IF row[s].exists THEN saved ELSE [saved EXCEPT ![s] = {}]
         /\ left' = IF row[s].exists THEN left ELSE [left EXCEPT ![s] = None]
         /\ raced' = IF row[s].exists THEN raced
                      ELSE [raced EXCEPT ![s] = JanitorHolds(s)]
  /\ UNCHANGED <<turn, janitor, cached, bounds, lost>>

\* Mutant of NewContext: the condition is the wrong way round.
NewContextSwapped(w) == IF w.ignoreContext THEN w.ctx ELSE w.copy.ctx

NewContext(w) == IF w.ignoreContext THEN w.copy.ctx ELSE w.ctx

Saves(w) == [exists |-> TRUE, ctx |-> NewContext(w), turns |-> w.turns,
             ctxExpiry |-> "future", sesExpiry |-> "future"]

\* The update: all columns, and new expiry dates.  A row deleted meanwhile is
\* not written.  When only the data was saved (a suggestion was sent), the
\* flow may still be executed and persisted.
SaveWrite(s) ==
  LET w == worker[s]
  IN  /\ w.at = "write"
      /\ IF row[s].exists
           THEN /\ row' = [row EXCEPT ![s] = Saves(w)]
                /\ saved' = [saved EXCEPT ![s] = @ \cup {turn[s]}]
                /\ left' = IF w.ignoreContext THEN left ELSE [left EXCEPT ![s] = w.ctx]
                /\ Races({x \in {s} : JanitorHolds(x)})
           ELSE UNCHANGED <<row, saved, left, raced>>
      /\ \/ worker' = [worker EXCEPT ![s] = Idle]
         \/ /\ w.ignoreContext
            /\ worker' = [worker EXCEPT ![s].at = "process"]
      /\ UNCHANGED <<turn, janitor, cached, bounds, lost>>

\* persist with Redis, where the context is saved in any case.  (Bound: one
\* suggestion in a turn.)
PersistToRedis(s, ignoreContext, ctx) ==
  /\ redis
  /\ worker[s].at = "process"
  /\ IF ignoreContext THEN turn[s] \notin saved[s] /\ ctx = worker[s].ctx ELSE ctx \in {None, turn[s]}
  /\ LET turns == worker[s].turns \cup {turn[s]}
     IN  /\ key' = [key EXCEPT ![s] = [exists |-> TRUE, ctx |-> ctx, turns |-> turns]]
         /\ batch' = Append(batch, [of |-> s, ctx |-> ctx, turns |-> turns,
                                    ignoreContext |-> ignoreContext])
         /\ \/ worker' = [worker EXCEPT ![s] = Idle]
            \/ ignoreContext /\ worker' = [worker EXCEPT ![s].turns = turns]
  /\ saved' = [saved EXCEPT ![s] = @ \cup {turn[s]}]
  /\ left' = IF ignoreContext THEN left ELSE [left EXCEPT ![s] = ctx]
  /\ UNCHANGED <<row, turn, janitor, redis, flight, deleting, bounds, lost, raced>>

\* The event ends without having persisted (the error flow failed too, or it
\* was swallowed by a flag).
Give(s) ==
  /\ worker[s].at = "process"
  /\ worker' = [worker EXCEPT ![s] = Idle]
  /\ UNCHANGED <<row, turn, janitor, cached, bounds, histories>>

\* deleteDialogSession, called by an action or a hook at any time: first the row.
\* Raced, with Redis: an event or the batch has the state, and saves it again.
DeleteDialogSession(s) ==
  /\ mishaps < MaxMishaps
  /\ row[s].exists \/ key[s].exists
  /\ s \notin deleting /\ ~ Locked(s)
  /\ mishaps' = mishaps + 1
  /\ row' = [row EXCEPT ![s] = NoRow]
  /\ IF redis
     THEN /\ deleting' = deleting \cup {s}
          /\ saved' = [saved EXCEPT ![s] = {}]
          /\ left' = [left EXCEPT ![s] = None]
          /\ Races({x \in {s} : worker[x].at # "idle" \/ Unwritten(x)})
     ELSE UNCHANGED <<deleting, saved, left, raced>>
  /\ UNCHANGED <<worker, turn, janitor, redis, key, batch, flight, events, expiries, lost>>

DeleteKey(s) ==
  /\ s \in deleting
  /\ deleting' = deleting \ {s}
  /\ key' = [key EXCEPT ![s] = NoKey]
  /\ UNCHANGED <<row, worker, turn, janitor, redis, batch, flight, bounds, histories>>

\* Time passes an expiry date of a row, which is minutes away, or the thirty
\* seconds of a key.
\* Raced: the row has not got all of what the key had.
Expire(s) ==
  /\ expiries < MaxExpiries
  /\ expiries' = expiries + 1
  /\ \/ /\ row[s].ctxExpiry = "future" /\ ~ key[s].exists
        /\ row' = [row EXCEPT ![s].ctxExpiry = "past"]
        /\ UNCHANGED <<key, raced>>
     \/ /\ row[s].sesExpiry = "future" /\ ~ key[s].exists
        /\ row' = [row EXCEPT ![s].sesExpiry = "past"]
        /\ UNCHANGED <<key, raced>>
     \/ /\ key[s].exists
        /\ key' = [key EXCEPT ![s] = NoKey]
        /\ Races({x \in {s} : Unwritten(x) \/ x \in lost})
        /\ UNCHANGED row
  /\ UNCHANGED <<worker, turn, janitor, redis, batch, flight, deleting, events, mishaps, saved, left, lost>>

-----------------------------------------------------------------------------
(* The batch. *)

\* Mutant of Taken: the batch is taken from its end.
TakenFromTheEnd(n) == <<SubSeq(batch, Len(batch) - n + 1, Len(batch)), SubSeq(batch, 1, Len(batch) - n)>>

\* splice: what is taken from the batch, and what is left.
Taken(n) == <<SubSeq(batch, 1, n), SubSeq(batch, n + 1, Len(batch))>>

\* The interval fires, and no transaction is under way.
RunTask ==
  /\ flight.at = "idle"
  /\ batch # <<>>
  /\ LET taken == Taken(IF Len(batch) >= BatchSize THEN BatchSize ELSE Len(batch))
     IN  /\ flight' = [NoFlight EXCEPT !.at = "read", !.todo = taken[1]]
         /\ batch' = taken[2]
  /\ UNCHANGED <<row, worker, turn, janitor, redis, key, deleting, bounds, histories>>

\* _saveState of the next element: the row as it is committed, or a new one.
FlushRead ==
  /\ flight.at = "read"
  /\ flight.todo # <<>>
  /\ LET s == Head(flight.todo).of
         current == IF row[s].exists THEN row[s] ELSE NewRow
     IN  /\ row' = [row EXCEPT ![s] = current]
         /\ flight' = [flight EXCEPT !.at = "update", !.copy = current]
  /\ UNCHANGED <<worker, turn, janitor, redis, key, batch, deleting, bounds, histories>>

\* The update, in the transaction.  Raced: an earlier element of the batch has
\* changed the context, and this one keeps the context of the row.
FlushUpdate ==
  /\ flight.at = "update"
  /\ LET e == Head(flight.todo)
         new == Saves([ctx |-> e.ctx, turns |-> e.turns, copy |-> flight.copy, ignoreContext |-> e.ignoreContext])
     IN  /\ flight' = [flight EXCEPT !.at = "read", !.todo = Tail(@), !.copy = NoRow,
                          !.writes = IF row[e.of].exists THEN [@ EXCEPT ![e.of] = new] ELSE @]
         /\ Races({x \in {e.of} : Locked(x) /\ e.ignoreContext /\ flight.writes[x].ctx # new.ctx})
  /\ UNCHANGED <<row, worker, turn, janitor, redis, key, batch, deleting, bounds, saved, left, lost>>

Commit ==
  /\ flight.at = "read"
  /\ flight.todo = <<>>
  /\ row' = [s \in Sessions |-> IF Locked(s) THEN flight.writes[s] ELSE row[s]]
  /\ flight' = NoFlight
  /\ Races({s \in Sessions : Locked(s) /\ JanitorHolds(s)})
  /\ UNCHANGED <<worker, turn, janitor, redis, key, batch, deleting, bounds, saved, left, lost>>

InFlight(s) == Locked(s) \/ \E e \in Range(flight.todo) : e.of = s

\* The transaction fails; its elements are in no batch any more.
Abort ==
  /\ flight.at # "idle"
  /\ mishaps < MaxMishaps
  /\ mishaps' = mishaps + 1
  /\ lost' = lost \cup {s \in Sessions : InFlight(s)}
  /\ flight' = NoFlight
  /\ UNCHANGED <<row, worker, turn, janitor, redis, key, batch, deleting, events, expiries, saved, left, raced>>

\* The server stops, and starts again.  Raced: a key was about to be deleted.
Crash ==
  /\ mishaps < MaxMishaps
  /\ mishaps' = mishaps + 1
  /\ worker' = [s \in Sessions |-> Idle]
  /\ janitor' = Resting
  /\ batch' = <<>>
  /\ flight' = NoFlight
  /\ deleting' = {}
  /\ lost' = lost \cup {s \in Sessions : Unwritten(s)}
  /\ Races(deleting)
  /\ UNCHANGED <<row, turn, redis, key, events, expiries, saved, left>>

-----------------------------------------------------------------------------
(* The janitor. *)

\* The interval fires and no sweep is under way: expired sessions are deleted.
\* (A row that is locked is waited for, here and in Reset.)
Sweep ==
  /\ janitor.at = "idle"
  /\ \A s \in Sessions : Locked(s) => row[s].sesExpiry # "past"
  /\ row' = [s \in Sessions |-> IF row[s].sesExpiry = "past" THEN NoRow ELSE row[s]]
  /\ janitor' = [Resting EXCEPT !.at = "list"]
  /\ UNCHANGED <<worker, turn, cached, bounds, histories>>

\* getExpiredContextSessionIds.
List ==
  /\ janitor.at = "list"
  /\ LET stale == {s \in Sessions : Stale(s)}
     IN  janitor' = IF stale = {} THEN Resting
                    ELSE [janitor EXCEPT !.at = "next", !.todo = stale]
  /\ UNCHANGED <<row, worker, turn, cached, bounds, histories>>

\* _processSessionTimeout reads the session and runs the timeout flow on it:
\* the context is to be reset when the flow fails (also because the session is
\* gone), does not exist, or leaves no instruction behind.
Timeout(s) ==
  /\ janitor.at = "next"
  /\ s \in janitor.todo
  /\ \E reset \in BOOLEAN :
       /\ ~ row[s].exists => reset
       /\ janitor' = [at |-> "timeout", todo |-> janitor.todo \ {s}, of |-> {s},
                      copy |-> row[s], reset |-> reset]
  /\ UNCHANGED <<row, worker, turn, cached, bounds, histories>>

\* Mutants of Reread: the session read before the timeout flow is used; the
\* promise of a sweep that fails is not cleared.
RereadNot(s) ==
  /\ janitor.at = "timeout"
  /\ s \in janitor.of
  /\ janitor' = IF row[s].exists
                THEN [janitor EXCEPT !.at = "write"]
                ELSE Resting
  /\ UNCHANGED <<row, worker, turn, cached, bounds, histories>>
RereadStaysBusy(s) ==
  /\ janitor.at = "timeout"
  /\ s \in janitor.of
  /\ row[s].exists
  /\ janitor' = [janitor EXCEPT !.at = "write", !.copy = row[s]]
  /\ UNCHANGED <<row, worker, turn, cached, bounds, histories>>

\* _resetContext reads the session again, after the flow was run.  It throws
\* when the session is gone: the sweep ends there, whatever was left to do.
Reread(s) ==
  /\ janitor.at = "timeout"
  /\ s \in janitor.of
  /\ janitor' = IF row[s].exists
                THEN [janitor EXCEPT !.at = "write", !.copy = row[s]]
                ELSE Resting
  /\ UNCHANGED <<row, worker, turn, cached, bounds, histories>>

\* The update: all columns as they were read, the context emptied or not, and
\* new expiry dates; then the next session.
Reset(s) ==
  LET new == [janitor.copy EXCEPT !.ctx = IF janitor.reset THEN None ELSE @,
                           !.ctxExpiry = "future", !.sesExpiry = "future"]
  IN  /\ janitor.at = "write"
      /\ s \in janitor.of
      /\ ~ Locked(s)
      /\ row' = IF row[s].exists THEN [row EXCEPT ![s] = new] ELSE row
      /\ janitor' = IF janitor.todo = {} THEN Resting
                    ELSE [janitor EXCEPT !.at = "next", !.of = {}, !.copy = NoRow,
                                         !.reset = FALSE]
      /\ UNCHANGED <<worker, turn, cached, bounds, histories>>

JanitorStep == List \/ \E s \in Sessions : Timeout(s) \/ Reread(s) \/ Reset(s)

FlushStep == FlushRead \/ FlushUpdate \/ Commit

Event(s) ==
  \/ Restore(s)
  \/ \E ignoreContext \in BOOLEAN, ctx \in {None, turn[s]} : SaveRead(s, ignoreContext, ctx)
  \/ \E ignoreContext \in BOOLEAN, ctx \in {None, turn[s], worker[s].ctx} : PersistToRedis(s, ignoreContext, ctx)
  \/ SaveWrite(s)
  \/ Give(s)

SessionNext ==
  \/ \E s \in Sessions : Event(s) \/ DeleteDialogSession(s) \/ DeleteKey(s) \/ Expire(s)
  \/ Sweep
  \/ JanitorStep
  \/ RunTask \/ FlushStep
  \/ Abort \/ Crash

SessionSpec == SessionInit /\ [][SessionNext]_sessionVars

\* The interval of the janitor fires, its queries return, and so do those of a
\* transaction, unless it fails.
FairSessionSpec == SessionSpec /\ WF_sessionVars(Sweep) /\ WF_sessionVars(JanitorStep) /\ WF_sessionVars(FlushStep)

-----------------------------------------------------------------------------
(* Properties *)

SessionTypeOK ==
  /\ row \in [Sessions -> Row]
  /\ worker \in [Sessions -> Worker]
  /\ events \in 0..MaxTurns /\ turn \in [Sessions -> 0..events]
  /\ \A s \in Sessions : worker[s].at # "idle" => turn[s] > 0
  /\ janitor \in [at : {"idle", "list", "next", "timeout", "write"},
                  todo : SUBSET Sessions, of : SUBSET Sessions, copy : Row, reset : BOOLEAN]
  /\ janitor.at = "next" => janitor.todo # {}
  /\ redis \in Modes
  /\ key \in [Sessions -> Key]
  /\ batch \in Seq(Element)
  /\ flight \in [at : {"idle", "read", "update"}, todo : Seq(Element), copy : Row, writes : [Sessions -> Row]]
  /\ flight.at = "update" => flight.todo # <<>>
  /\ deleting \cup lost \subseteq Sessions
  /\ saved \in [Sessions -> SUBSET Turns]
  /\ left \in [Sessions -> 0..MaxTurns]
  /\ raced \in [Sessions -> BOOLEAN]
  /\ ~ redis => key = [s \in Sessions |-> NoKey] /\ batch = <<>> /\ flight = NoFlight /\ deleting = {}

\* What the next event of the session will find.
Session(s) == IF key[s].exists THEN key[s] ELSE row[s]

\* A turn that was persisted stays in the session for as long as the session
\* exists, although the janitor rewrites the row in the middle of turns, and
\* although the batch is written behind its back; and it is in the row, when no
\* batch is on its way to it.  Excepted is what raced says: a turn persisted between
\* the last read of the janitor and its write; a key that lapses before its batch is
\* written, or after it was lost; a deletion in the middle of an event.
TurnsKept ==
  \A s \in Sessions : raced[s] \/ s \in deleting \/
    /\ Session(s).exists => saved[s] \subseteq Session(s).turns
    /\ row[s].exists /\ ~ Unwritten(s) /\ s \notin lost => saved[s] \subseteq row[s].turns

\* A conversation never falls back into a context it had left: it finds the
\* context of the last turn that persisted one, or none.  Excepted is what raced
\* says: beside the above, an element that keeps the context of the row in a batch
\* where an earlier one changes it.
ContextNeverOld ==
  \A s \in Sessions : Session(s).ctx \in {None, left[s]} \/ raced[s] \/ s \in deleting

\* The rows of the sessions (StateManager.persist and the janitor): the types,
\* and no context that was left.
RowsInv == SessionTypeOK /\ ContextNeverOld

(***************************************************************************)
(* What makes these inductive.  Forms says how the parts of the state fit. *)
(* For each session that has not raced: what an event is at work on, and   *)
(* what Redis has, is all that was persisted; what the janitor is about to *)
(* write back is what the row has; and what was persisted is in the newest *)
(* element of the batch or else of the transaction, or else in what that   *)
(* has updated, or else in the row.  It is the same with the context, but  *)
(* only the elements that change it (moves) count.                         *)
(***************************************************************************)
Forms ==
  /\ \A s \in Sessions :
       /\ ~ row[s].exists => row[s] = NoRow
       /\ Locked(s) => row[s].exists
       /\ worker[s].at = "write" => ~ redis /\ turn[s] \in worker[s].turns
  /\ flight.at = "idle" => flight = NoFlight
  /\ \A s, x \in janitor.of : s = x
  /\ janitor.at = "write" => janitor.copy.exists
  /\ ~ redis => lost = {}

Of(e, s, moves) == e.of = s /\ (moves => ~ e.ignoreContext)

Holds(q, s, moves) == \E k \in DOMAIN q : Of(q[k], s, moves)

Newest(q, s, moves, k) ==
  /\ k \in DOMAIN q
  /\ Of(q[k], s, moves)
  /\ \A m \in DOMAIN q : m > k => ~ Of(q[m], s, moves)

NewestHas(q, s, turns) == \A k \in DOMAIN q : Newest(q, s, FALSE, k) => turns \subseteq q[k].turns
NewestLeaves(q, s, ctx) == \A k \in DOMAIN q : Newest(q, s, TRUE, k) => q[k].ctx = ctx

\* The row of s was read, and is about to be updated.
Updating(s) == flight.at = "update" /\ flight.todo[1].of = s

EventHasAll(s) ==
  worker[s].at # "idle" /\ (redis \/ row[s].exists) =>
    /\ saved[s] \subseteq worker[s].turns
    /\ redis => worker[s].ctx \in {None, left[s]} /\ s \notin deleting
    /\ worker[s].at = "write" => worker[s].copy.ctx \in {None, left[s]}

KeyHasAll(s) ==
  /\ key[s].exists /\ s \notin deleting => saved[s] \subseteq key[s].turns /\ key[s].ctx \in {None, left[s]}
  /\ Unwritten(s) => key[s].exists /\ s \notin deleting
  /\ s \in lost /\ ~ key[s].exists => ~ row[s].exists
  /\ s \in deleting => worker[s].at = "idle" /\ ~ row[s].exists

JanitorHasRow(s) ==
  JanitorHolds(s) /\ row[s].exists /\ ~ Updating(s) /\ ~ Locked(s) /\ s \notin lost =>
    janitor.copy.ctx = row[s].ctx /\ janitor.copy.turns = row[s].turns

RowWillHaveTurns(s) ==
  /\ NewestHas(batch, s, saved[s])
  /\ ~ Holds(batch, s, FALSE) =>
       /\ NewestHas(flight.todo, s, saved[s])
       /\ ~ Holds(flight.todo, s, FALSE) =>
            IF Locked(s) THEN saved[s] \subseteq flight.writes[s].turns
            ELSE row[s].exists /\ s \notin lost => saved[s] \subseteq row[s].turns

RowWillHaveContext(s) ==
  /\ NewestLeaves(batch, s, left[s])
  /\ ~ Holds(batch, s, TRUE) =>
       /\ NewestLeaves(flight.todo, s, left[s])
       /\ ~ Holds(flight.todo, s, TRUE) /\ s \notin lost =>
            (IF Locked(s) THEN flight.writes[s].ctx
             ELSE IF Updating(s) THEN flight.copy.ctx
             ELSE row[s].ctx) \in {None, left[s]}

Whole(s) ==
  /\ EventHasAll(s)
  /\ KeyHasAll(s)
  /\ JanitorHasRow(s)
  /\ RowWillHaveTurns(s)
  /\ RowWillHaveContext(s)

SessionInv ==
  /\ SessionTypeOK
  /\ Forms
  /\ \A s \in Sessions : raced[s] \/ Whole(s)

\* A stale context is refreshed, reset or deleted in the end, although a sweep
\* that meets a deleted session leaves the rest of its list undone.
StaleSessionsHandled == \A s \in Sessions : Stale(s) ~> ~ Stale(s)
=============================================================================
