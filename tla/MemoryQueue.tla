----------------------------- MODULE MemoryQueue -----------------------------
(***************************************************************************)
(* The in-memory event queue (core/services/queue/memory-queue.ts).  Every *)
(* incoming and every outgoing event of a server goes through one: events  *)
(* of one conversation (botId::channel::target) are processed one at a     *)
(* time and in order, events of different conversations concurrently.      *)
(*                                                                         *)
(* One action is one run of the event loop until the next await: a         *)
(* setImmediate callback that calls tick(), the drain timer, a subscriber  *)
(* whose promise settles, or a call of one of the queue's methods.         *)
(***************************************************************************)
EXTENDS Integers, Sequences, FiniteSets, SequencesExt

CONSTANTS
  Jobs,            \* the events enqueued, each by one call of enqueue
  Convs,           \* the queue ids
  ConvOf,          \* getQueueId: the conversation of each job
  NumSubscribers,  \* consumers registered with subscribe
  MaxRetries,      \* options.retries
  InitialRetries,  \* the retries argument of the callers of enqueue
  Responsive       \* the conversations whose subscribers always settle

ASSUME QueueAssumption ==
  /\ IsFiniteSet(Convs)
  /\ ConvOf \in [Jobs -> Convs]
  /\ NumSubscribers \in Nat \ {0}
  /\ MaxRetries \in Nat
  /\ InitialRetries \in Nat
  /\ Responsive \subseteq Convs

VARIABLES
  queue,     \* _queue: the jobs waiting, with their retry count
  lock,      \* _lock: the conversations that have a job in process
  ticks,     \* setImmediate callbacks scheduled and not yet run
  calls,     \* tick() calls suspended in mapSeries: job, retries, subscriber
  draining,  \* the drain timer runs (_drain)
  clock,     \* history: how many jobs were enqueued
  arrival,   \* history: the rank at which each job was enqueued, 0 before
  fate,      \* history: what became of each job
  attempts   \* history: how many times each job was handed to the subscribers

vars == <<queue, lock, ticks, calls, draining, clock, arrival, fate, attempts>>

Wrapper == [job : Jobs, retries : Nat]
Call == [job : Jobs, retries : Nat, sub : 1..NumSubscribers]
Settled == {"done", "abandoned", "cancelled", "taken"}

SameConv(i, j) == ConvOf[i] = ConvOf[j]
ConvAt(k) == ConvOf[queue[k].job]
IsWaiting(j) == \E k \in DOMAIN queue : queue[k].job = j
IsServed(j) == \E c \in calls : c.job = j

Init ==
  /\ queue = <<>>
  /\ lock = {}
  /\ ticks = 0
  /\ calls = {}
  /\ draining = TRUE
  /\ clock = 0
  /\ arrival = [j \in Jobs |-> 0]
  /\ fate = [j \in Jobs |-> "new"]
  /\ attempts = [j \in Jobs |-> 0]

-----------------------------------------------------------------------------
(* The methods of the queue. *)

\* Mutant of Enqueue: no tick is scheduled for the job.
EnqueueWithoutTick(j) ==
  /\ fate[j] = "new"
  /\ queue' = Append(queue, [job |-> j, retries |-> InitialRetries])
  /\ clock' = clock + 1
  /\ arrival' = [arrival EXCEPT ![j] = clock + 1]
  /\ fate' = [fate EXCEPT ![j] = "live"]
  /\ UNCHANGED <<lock, ticks, calls, draining, attempts>>

\* enqueue(job, InitialRetries): to the back of the array, and a tick.
Enqueue(j) ==
  /\ fate[j] = "new"
  /\ queue' = Append(queue, [job |-> j, retries |-> InitialRetries])
  /\ ticks' = ticks + 1
  /\ clock' = clock + 1
  /\ arrival' = [arrival EXCEPT ![j] = clock + 1]
  /\ fate' = [fate EXCEPT ![j] = "live"]
  /\ UNCHANGED <<lock, calls, draining, attempts>>

\* dequeue(): the first job of the array goes back to the caller, even when
\* its conversation is locked.
Dequeue ==
  /\ queue # <<>>
  /\ queue' = Tail(queue)
  /\ fate' = [fate EXCEPT ![Head(queue).job] = "taken"]
  /\ UNCHANGED <<lock, ticks, calls, draining, clock, arrival, attempts>>

\* cancelAll(job): filter keeps the jobs of the other conversations, in order.
\* The job of c in process, if there is one, is not in the array: it goes on.
CancelAll(c) ==
  /\ LET kept == {k \in DOMAIN queue : ConvAt(k) # c}
     IN  \E f \in [1..Cardinality(kept) -> kept] :
           /\ \A i, j \in DOMAIN f : i < j => f[i] < f[j]
           /\ queue' = [i \in DOMAIN f |-> queue[f[i]]]
  /\ fate' = [j \in Jobs |-> IF ConvOf[j] = c /\ IsWaiting(j) THEN "cancelled"
                                                             ELSE fate[j]]
  /\ UNCHANGED <<lock, ticks, calls, draining, clock, arrival, attempts>>

\* dispose(): the drain timer stops.
Dispose ==
  /\ draining
  /\ draining' = FALSE
  /\ UNCHANGED <<queue, lock, ticks, calls, clock, arrival, fate, attempts>>

-----------------------------------------------------------------------------
(* tick(), up to the first await, and what follows when mapSeries settles. *)

\* Mutants of IsNext: the lock is not looked at; only the first job of the
\* array is considered.
IsNextUnguarded(k) == k \in DOMAIN queue /\ k = 1
IsNextHeadOnly(k) == k \in DOMAIN queue /\ k = 1 /\ ConvAt(k) \notin lock

\* findIndex: the first job of the array whose conversation is not locked.
IsNext(k) ==
  /\ k \in DOMAIN queue
  /\ ConvAt(k) \notin lock
  /\ \A i \in 1..(k - 1) : ConvAt(i) \in lock

\* Mutant of TickBody: the job is read (find) where it should be removed (splice).
TickBodyWithoutSplice ==
  \/ /\ ~ \E k \in DOMAIN queue : IsNext(k)
     /\ UNCHANGED <<queue, lock, calls, attempts>>
  \/ \E k \in DOMAIN queue :
       /\ IsNext(k)
       /\ lock' = lock \cup {ConvAt(k)}
       /\ calls' = calls \cup {[job |-> queue[k].job,
                                retries |-> queue[k].retries, sub |-> 1]}
       /\ attempts' = [attempts EXCEPT ![queue[k].job] = @ + 1]
       /\ UNCHANGED queue

\* The job leaves the array, its conversation is locked and the first
\* subscriber is called; nothing happens when no job can be taken.
TickBody ==
  \/ /\ ~ \E k \in DOMAIN queue : IsNext(k)
     /\ UNCHANGED <<queue, lock, calls, attempts>>
  \/ \E k \in DOMAIN queue :
       /\ IsNext(k)
       /\ queue' = RemoveAt(queue, k)
       /\ lock' = lock \cup {ConvAt(k)}
       /\ calls' = calls \cup {[job |-> queue[k].job,
                                retries |-> queue[k].retries, sub |-> 1]}
       /\ attempts' = [attempts EXCEPT ![queue[k].job] = @ + 1]

\* A setImmediate callback runs tick().
Tick ==
  /\ ticks > 0
  /\ ticks' = ticks - 1
  /\ TickBody
  /\ UNCHANGED <<draining, clock, arrival, fate>>

\* The drain timer runs tick() when the array is not empty.
Drain ==
  /\ draining
  /\ queue # <<>>
  /\ TickBody
  /\ UNCHANGED <<ticks, draining, clock, arrival, fate>>

\* The finally block: unlock, and schedule a tick when jobs are waiting.  A
\* retry (enqueue in the catch block) has scheduled one of its own before.
Release(c, scheduled) ==
  /\ calls' = calls \ {c}
  /\ lock' = lock \ {ConvOf[c.job]}
  /\ ticks' = ticks + scheduled + (IF queue' # <<>> THEN 1 ELSE 0)

\* A subscriber is done with the job and mapSeries calls the next one.
NextSubscriber(c) ==
  /\ c.sub < NumSubscribers
  /\ calls' = (calls \ {c}) \cup {[c EXCEPT !.sub = @ + 1]}
  /\ UNCHANGED <<queue, lock, ticks, draining, clock, arrival, fate, attempts>>

\* The last subscriber is done with the job.
Complete(c) ==
  /\ c.sub = NumSubscribers
  /\ fate' = [fate EXCEPT ![c.job] = "done"]
  /\ UNCHANGED queue
  /\ Release(c, 0)
  /\ UNCHANGED <<draining, clock, arrival, attempts>>

\* Mutants of FailAndRetry: the job goes to the back of the array (isPriority
\* is not passed); the count is not raised; the bound is off by one.
FailAndRetryAtTheBack(c) ==
  /\ c.retries + 1 <= MaxRetries
  /\ queue' = Append(queue, [job |-> c.job, retries |-> c.retries + 1])
  /\ Release(c, 1)
  /\ UNCHANGED <<draining, clock, arrival, fate, attempts>>
FailAndRetryUncounted(c) ==
  /\ c.retries + 1 <= MaxRetries
  /\ queue' = <<[job |-> c.job, retries |-> c.retries]>> \o queue
  /\ Release(c, 1)
  /\ UNCHANGED <<draining, clock, arrival, fate, attempts>>
FailAndRetryOnceMore(c) ==
  /\ c.retries <= MaxRetries
  /\ queue' = <<[job |-> c.job, retries |-> c.retries + 1]>> \o queue
  /\ Release(c, 1)
  /\ UNCHANGED <<draining, clock, arrival, fate, attempts>>

\* A subscriber rejects and a retry is left: the job goes to the front.
FailAndRetry(c) ==
  /\ c.retries + 1 <= MaxRetries
  /\ queue' = <<[job |-> c.job, retries |-> c.retries + 1]>> \o queue
  /\ Release(c, 1)
  /\ UNCHANGED <<draining, clock, arrival, fate, attempts>>

\* A subscriber rejects and no retry is left.
FailAndAbandon(c) ==
  /\ c.retries + 1 > MaxRetries
  /\ fate' = [fate EXCEPT ![c.job] = "abandoned"]
  /\ UNCHANGED queue
  /\ Release(c, 0)
  /\ UNCHANGED <<draining, clock, arrival, attempts>>

Settle(c) == NextSubscriber(c) \/ Complete(c) \/ FailAndRetry(c) \/ FailAndAbandon(c)

Next ==
  \/ \E j \in Jobs : Enqueue(j)
  \/ Dequeue
  \/ \E c \in Convs : CancelAll(c)
  \/ Dispose
  \/ Tick
  \/ Drain
  \/ \E c \in calls : Settle(c)

Spec == Init /\ [][Next]_vars

(***************************************************************************)
(* setImmediate callbacks run.  The promise of a subscriber settles for    *)
(* the conversations of Responsive; the drain timer is owed nothing.       *)
(***************************************************************************)
FairSpec ==
  /\ Spec
  /\ WF_vars(Tick)
  /\ \A v \in Responsive :
       WF_vars(\E c \in calls : ConvOf[c.job] = v /\ Settle(c))

-----------------------------------------------------------------------------
(* Properties *)

\* How many times a failing job is served: each failure but the last one
\* raises retries, from InitialRetries to MaxRetries.
MaxAttempts ==
  IF InitialRetries < MaxRetries THEN MaxRetries - InitialRetries + 1 ELSE 1

\* Conversations a job of which could be taken by a tick.
ReadyConvs == {ConvAt(k) : k \in DOMAIN queue} \ lock

\* The type invariant.
TypeOK ==
  /\ queue \in Seq(Wrapper)
  /\ lock \in SUBSET Convs
  /\ ticks \in Nat
  /\ calls \in SUBSET Call
  /\ draining \in BOOLEAN
  /\ clock \in Nat
  /\ arrival \in [Jobs -> Nat]
  /\ fate \in [Jobs -> {"new", "live"} \cup Settled]
  /\ attempts \in [Jobs -> Nat]

\* A conversation never has two jobs in process, whatever the interleaving of
\* ticks, drains, failures and cancellations; and it is locked exactly while
\* one of its jobs is in process, so that no lock outlives its job.
OneAtATime ==
  /\ \A c, d \in calls : SameConv(c.job, d.job) => c = d
  /\ lock = {ConvOf[c.job] : c \in calls}

\* No job is lost and none is processed twice at once: a job that was enqueued
\* and has no outcome yet is either in the array, once, or in process.
NoJobLost ==
  \A j \in Jobs :
    /\ fate[j] = "live" <=> IsWaiting(j) \/ IsServed(j)
    /\ ~ (IsWaiting(j) /\ IsServed(j))
    /\ \A k, m \in DOMAIN queue : queue[k].job = j /\ queue[m].job = j => k = m

\* A conversation keeps its order: a job that has been handed to a subscriber
\* never left an older job of its conversation behind, although a failed job
\* goes back to the array and another tick may run before it is taken again.
InOrder ==
  \A i, j \in Jobs :
    /\ SameConv(i, j)
    /\ arrival[i] # 0
    /\ arrival[i] < arrival[j]
    /\ attempts[j] > 0
    => fate[i] \in Settled

\* A failing job is handed over MaxAttempts times, and never abandoned before.
RetriesBounded ==
  \A j \in Jobs :
    /\ attempts[j] <= MaxAttempts
    /\ fate[j] = "abandoned" => attempts[j] = MaxAttempts

\* No wake-up is lost: for each conversation that has a job ready to be taken
\* a tick of its own is scheduled, so that the drain timer, which calls tick()
\* every two seconds, is never what a conversation waits for.
NoLostWakeup == Cardinality(ReadyConvs) <= ticks

(***************************************************************************)
(* What makes the order and the bound on retries inductive: the array is   *)
(* sorted by arrival within a conversation, the job in process is older    *)
(* than those that wait, and retries counts the attempts.                  *)
(***************************************************************************)
ArrayInOrder ==
  \A k, m \in DOMAIN queue :
    k < m /\ ConvAt(k) = ConvAt(m) => arrival[queue[k].job] < arrival[queue[m].job]

ServedIsOldest ==
  \A c \in calls : \A k \in DOMAIN queue :
    ConvAt(k) = ConvOf[c.job] => arrival[c.job] < arrival[queue[k].job]

ArrivalsRanked ==
  \A j \in Jobs :
    /\ arrival[j] <= clock
    /\ fate[j] = "new" <=> arrival[j] = 0
    /\ fate[j] = "new" => attempts[j] = 0

RetriesCounted ==
  /\ \A k \in DOMAIN queue :
       /\ queue[k].retries = InitialRetries + attempts[queue[k].job]
       /\ attempts[queue[k].job] < MaxAttempts
  /\ \A c \in calls :
       /\ c.retries + 1 = InitialRetries + attempts[c.job]
       /\ attempts[c.job] \in 1..MaxAttempts

\* The inductive invariant of the queue: no step of any length of run breaks
\* the bookkeeping from which its order, its mutual exclusion and its retry
\* bound follow.
IInv ==
  /\ TypeOK
  /\ OneAtATime
  /\ NoJobLost
  /\ ArrayInOrder
  /\ ServedIsOldest
  /\ ArrivalsRanked
  /\ RetriesCounted
  /\ RetriesBounded
  /\ InOrder

\* The conversation's view of the queue: Fifo!Spec is implemented by Spec.
Status ==
  [j \in Jobs |-> IF fate[j] # "live" THEN fate[j]
                  ELSE IF IsServed(j) THEN "serving" ELSE "waiting"]

Fifo == INSTANCE ConversationFIFO WITH status <- Status

\* Each step of the queue is a step of the abstract queue or leaves it alone.
ImplementsFifo == Fifo!Spec

\* Every job enqueued has an outcome in the end if the subscribers of its own
\* conversation settle, even when another conversation hangs for ever.
HungConversationsIsolated ==
  \A j \in Jobs :
    ConvOf[j] \in Responsive => (fate[j] = "live" ~> fate[j] \in Settled)
=============================================================================
