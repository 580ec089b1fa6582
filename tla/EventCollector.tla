--------------------------- MODULE EventCollector ---------------------------
(***************************************************************************)
(* The event collector (core/services/middleware/event-collector.ts):      *)
(* events are stored several times while they are processed, gathered in a *)
(* batch keyed by their id, and flushed to the table "events" on a timer,  *)
(* one transaction at a time; a batch that fails is put back.              *)
(*                                                                         *)
(* An entry is an event id and the version (state) it was stored with.     *)
(***************************************************************************)
EXTENDS Integers, Sequences, FiniteSets, SequencesExt

CONSTANTS
  Ids,               \* the ids of the events
  BatchSize,         \* batchSize
  MaxRetryAttempts,  \* MAX_RETRY_ATTEMPTS
  Databases,         \* the databases it may run on: Postgres refuses an INSERT
                     \* that updates a row twice, SQLite lets the last one win
  MaxVersion         \* bound: how many times an event is stored

ASSUME CollectorAssumption ==
  /\ BatchSize \in Nat \ {0}
  /\ MaxRetryAttempts \in Nat \ {0}
  /\ MaxVersion \in Nat
  /\ Databases \subseteq {"postgres", "sqlite"}

VARIABLES
  database,  \* database.knex.isLite, fixed when the server starts
  batch,     \* the entries waiting: id, version, retry (0: undefined)
  started,   \* intervalRef is set
  busy,      \* currentPromise is set
  flights,   \* the transactions under way: their entries and their stage
  rows,      \* the table: the version of each event, 0 if it has no row
  stored,    \* history: the last version given to storeEvent
  tries,     \* history: the failed transactions of each version of each event
  dropped,   \* history: the versions given up, as <<id, version>>
  pruned,    \* history: the versions deleted by the clean-up
  requeued   \* history: the ids of the entries that were ever put back

histories == <<stored, tries, dropped, pruned, requeued>>
vars == <<database, batch, started, busy, flights, rows, histories>>

Entry == [id : Ids, ver : 1..MaxVersion, retry : 0..(MaxRetryAttempts - 1)]

HasDuplicate(s) == \E i, j \in DOMAIN s : i # j /\ s[i].id = s[j].id
Holds(s, id, v) == \E k \in DOMAIN s : s[k].id = id /\ s[k].ver = v

Init ==
  /\ database \in Databases
  /\ batch = <<>>
  /\ started = FALSE
  /\ busy = FALSE
  /\ flights = {}
  /\ rows = [id \in Ids |-> 0]
  /\ stored = [id \in Ids |-> 0]
  /\ tries = [id \in Ids |-> [v \in 1..MaxVersion |-> 0]]
  /\ dropped = {}
  /\ pruned = {}
  /\ requeued = {}

Start ==
  /\ ~ started
  /\ started' = TRUE
  /\ UNCHANGED <<database, batch, busy, flights, rows, histories>>

Stop ==
  /\ started
  /\ started' = FALSE
  /\ UNCHANGED <<database, batch, busy, flights, rows, histories>>

\* Mutant of StoreEvent: the entry found is kept.
StoreEventKeepsOld(id) ==
  /\ stored[id] < MaxVersion
  /\ stored' = [stored EXCEPT ![id] = @ + 1]
  /\ batch' = IF \E k \in DOMAIN batch : batch[k].id = id
              THEN batch
              ELSE Append(batch, [id |-> id, ver |-> stored[id] + 1, retry |-> 0])
  /\ UNCHANGED <<database, started, busy, flights, rows, tries, dropped, pruned, requeued>>

\* storeEvent: a new version replaces, in its place, the first entry of the
\* same id that waits in the batch (and the count of its retries).
StoreEvent(id) ==
  /\ stored[id] < MaxVersion
  /\ stored' = [stored EXCEPT ![id] = @ + 1]
  /\ LET entry == [id |-> id, ver |-> stored[id] + 1, retry |-> 0]
     IN  \/ /\ \A k \in DOMAIN batch : batch[k].id # id
            /\ batch' = Append(batch, entry)
         \/ \E k \in DOMAIN batch :
              /\ batch[k].id = id
              /\ \A i \in 1..(k - 1) : batch[i].id # id
              /\ batch' = ReplaceAt(batch, k, entry)
  /\ UNCHANGED <<database, started, busy, flights, rows, tries, dropped, pruned, requeued>>

\* Mutant of RunTask: currentPromise is not looked at.
RunTaskUnguarded ==
  /\ started
  /\ batch # <<>>
  /\ LET n == IF Len(batch) >= BatchSize THEN BatchSize ELSE Len(batch)
     IN  /\ flights' = flights \cup {[entries |-> SubSeq(batch, 1, n), stage |-> "insert"]}
         /\ batch' = SubSeq(batch, n + 1, Len(batch))
  /\ busy' = TRUE
  /\ UNCHANGED <<database, started, rows, histories>>

\* The interval fires: the first entries leave the batch for a transaction.
RunTask ==
  /\ started
  /\ ~ busy
  /\ batch # <<>>
  /\ LET n == IF Len(batch) >= BatchSize THEN BatchSize ELSE Len(batch)
     IN  /\ flights' = flights \cup {[entries |-> SubSeq(batch, 1, n), stage |-> "insert"]}
         /\ batch' = SubSeq(batch, n + 1, Len(batch))
  /\ busy' = TRUE
  /\ UNCHANGED <<database, started, rows, histories>>

\* The transaction commits: each row gets the version of its last entry.  The
\* clean-up follows when the last one is old enough.
Commit(f) ==
  /\ f.stage = "insert"
  /\ ~ (database = "postgres" /\ HasDuplicate(f.entries))
  /\ rows' = [id \in Ids |->
                LET ks == {k \in DOMAIN f.entries : f.entries[k].id = id}
                IN  IF ks = {} THEN rows[id]
                    ELSE f.entries[CHOOSE k \in ks : \A i \in ks : i <= k].ver]
  /\ \/ /\ flights' = flights \ {f}
        /\ busy' = FALSE
     \/ /\ flights' = (flights \ {f}) \cup {[f EXCEPT !.stage = "cleanup"]}
        /\ UNCHANGED busy
  /\ UNCHANGED <<database, batch, started, histories>>

\* The clean-up deletes the rows that are old enough, or fails (swallowed).
Cleanup(f) ==
  /\ f.stage = "cleanup"
  /\ \E old \in SUBSET {id \in Ids : rows[id] # 0} :
       /\ rows' = [id \in Ids |-> IF id \in old THEN 0 ELSE rows[id]]
       /\ pruned' = pruned \cup {<<id, rows[id]>> : id \in old}
  /\ flights' = flights \ {f}
  /\ busy' = FALSE
  /\ UNCHANGED <<database, batch, started, stored, tries, dropped, requeued>>

Raised(e) == [e EXCEPT !.retry = @ + 1]

\* Mutant of KeptForRetry: nothing is put back.
KeptNever(e) == FALSE

\* retry is counted and looked at after it was counted.
KeptForRetry(e) == Raised(e).retry < MaxRetryAttempts

\* The catch block: the entries that have attempts left go to the back.
Requeue(f) ==
  LET kept == {k \in DOMAIN f.entries : KeptForRetry(f.entries[k])}
      lost == DOMAIN f.entries \ kept
  IN  /\ \E g \in [1..Cardinality(kept) -> kept] :
           /\ \A i, j \in DOMAIN g : i < j => g[i] < g[j]
           /\ batch' = batch \o [i \in DOMAIN g |-> Raised(f.entries[g[i]])]
      /\ dropped' = dropped \cup {<<f.entries[k].id, f.entries[k].ver>> : k \in lost}
      /\ requeued' = requeued \cup {f.entries[k].id : k \in kept}
      /\ tries' = [id \in Ids |-> [v \in 1..MaxVersion |->
                     tries[id][v] + IF Holds(f.entries, id, v) THEN 1 ELSE 0]]

\* Mutant of Abort: currentPromise is cleared on success only.
AbortStaysBusy(f) ==
  /\ f.stage = "insert"
  /\ Requeue(f)
  /\ flights' = flights \ {f}
  /\ UNCHANGED <<database, busy, started, rows, stored, pruned>>

\* The transaction fails.  The entries put back are behind the newer versions
\* of the same events that were stored meanwhile.
Abort(f) ==
  /\ f.stage = "insert"
  /\ Requeue(f)
  /\ flights' = flights \ {f}
  /\ busy' = FALSE
  /\ UNCHANGED <<database, started, rows, stored, pruned>>

Settle == \E f \in flights : Commit(f) \/ Cleanup(f) \/ Abort(f)

Next ==
  \/ Start
  \/ Stop
  \/ \E id \in Ids : StoreEvent(id)
  \/ RunTask
  \/ Settle

Spec == Init /\ [][Next]_vars

\* The interval fires and the database answers, one way or the other.
FairSpec == Spec /\ WF_vars(RunTask) /\ WF_vars(Settle)

-----------------------------------------------------------------------------
(* Properties *)

TypeOK ==
  /\ database \in Databases
  /\ batch \in Seq(Entry)
  /\ {started, busy} \subseteq BOOLEAN
  /\ flights \subseteq [entries : Seq(Entry), stage : {"insert", "cleanup"}]
  /\ rows \in [Ids -> 0..MaxVersion]
  /\ stored \in [Ids -> 0..MaxVersion]
  /\ tries \in [Ids -> [1..MaxVersion -> 0..MaxRetryAttempts]]
  /\ {dropped, pruned} \subseteq SUBSET (Ids \X (1..MaxVersion))
  /\ requeued \subseteq Ids

Pending(id, v) == Holds(batch, id, v) \/ \E f \in flights : Holds(f.entries, id, v)

\* The last state of an event is not lost: it waits, flies, is the event's row
\* (or was, until its clean-up), or was given up.  Only a failed transaction
\* that put an older version back may have overwritten it.
LastVersionKept ==
  \A id \in Ids :
    \/ stored[id] = 0
    \/ Pending(id, stored[id])
    \/ rows[id] = stored[id]
    \/ <<id, stored[id]>> \in pruned \cup dropped
    \/ id \in requeued

\* The version of an entry is given up after MaxRetryAttempts transactions
\* with it have failed, neither sooner nor later, whatever else the batches
\* that carried it contained.
GivenUpInTime ==
  \A id \in Ids, v \in 1..MaxVersion :
    /\ tries[id][v] = MaxRetryAttempts <=> <<id, v>> \in dropped
    /\ <<id, v>> \in dropped => ~ Pending(id, v)

\* The batch (storeEvent and runTask): the types, and when an entry is given up.
BatchInv == TypeOK /\ GivenUpInTime

(***************************************************************************)
(* What makes these inductive: one transaction at a time; each version of  *)
(* an event is in one place, with the count of its failures; and the       *)
(* entries of an event none of whose entries was put back are in order:    *)
(* the row, then the transaction, then the batch.                          *)
(***************************************************************************)
OneFlight ==
  /\ busy <=> flights # {}
  /\ \A f, g \in flights : f = g

Same(d, e) == d.id = e.id /\ d.ver = e.ver
Counted(s) ==
  \A k \in DOMAIN s : s[k].retry = tries[s[k].id][s[k].ver] /\ s[k].ver <= stored[s[k].id]
NoneTwice(s) == \A i, j \in DOMAIN s : Same(s[i], s[j]) => i = j
Apart(s, t) == \A i \in DOMAIN s, j \in DOMAIN t : ~ Same(s[i], t[j])

EntriesCounted ==
  /\ Counted(batch) /\ NoneTwice(batch)
  /\ \A f \in flights : Counted(f.entries) /\ NoneTwice(f.entries) /\ Apart(batch, f.entries)
  /\ \A id \in Ids : rows[id] <= stored[id]
  /\ \A id \in Ids, v \in 1..MaxVersion : tries[id][v] # 0 => v <= stored[id]

InTurn ==
  \A id \in Ids \ requeued :
    /\ \A i, j \in DOMAIN batch : batch[i].id = id /\ batch[j].id = id => i = j
    /\ \A k \in DOMAIN batch : batch[k].id = id => rows[id] < batch[k].ver
    /\ \A f \in flights :
         /\ \A i, j \in DOMAIN f.entries : f.entries[i].id = id /\ f.entries[j].id = id => i = j
         /\ \A k \in DOMAIN f.entries : f.entries[k].id = id =>
              /\ IF f.stage = "insert" THEN rows[id] < f.entries[k].ver
                                       ELSE rows[id] = f.entries[k].ver
              /\ \A m \in DOMAIN batch : batch[m].id = id => f.entries[k].ver < batch[m].ver

CollectInv ==
  /\ TypeOK
  /\ OneFlight
  /\ EntriesCounted
  /\ InTurn
  /\ GivenUpInTime
  /\ LastVersionKept

\* The row of an event never goes back to an older version, unless one of its
\* entries was put back by a failed transaction.
RowsNeverGoBack ==
  [][\A id \in Ids :
       id \notin requeued /\ rows'[id] # 0 => rows'[id] >= rows[id]]_vars

\* Whatever fails, a stored event leaves the batch in the end, as long as the
\* collector is not stopped.
EventuallyFlushed ==
  <>[]started => \A id \in Ids :
    (stored[id] # 0) ~> (\A v \in 1..MaxVersion : ~ Pending(id, v))
=============================================================================
