---------------------------- MODULE TrainingQueue ----------------------------
(***************************************************************************)
(* The training worker queue of the NLU engine                             *)
(* (nlu-core/training-worker-queue/index.ts) in its three kinds of         *)
(* processes: the web process, which holds the queue and answers           *)
(* startTraining and cancelTraining; the master, which forks and kills     *)
(* (cluster.ts) and passes messages on; and the training workers.          *)
(*                                                                         *)
(* Messages of one process to another arrive in order.  The master passes  *)
(* on what a worker sends, so that the web process reads one queue for     *)
(* each worker and one of what the master itself has to say; progress and  *)
(* log messages change nothing and are left out.  The web process runs a   *)
(* handler, with the continuation of the promises it settles, in one go.   *)
(***************************************************************************)
EXTENDS Integers, FiniteSets, SequencesExt

CONSTANTS
  Sessions,    \* the train session ids
  MaxStarts,   \* bound: calls of startTraining that are not refused
  MaxCancels,  \* bound: calls of cancelTraining that find a worker
  MaxCrashes,  \* bound: workers that die on their own
  Impatient    \* whether a session may be started again while its worker is
               \* being created, or while a cancel of it waits

ASSUME TrainingAssumption ==
  /\ {MaxStarts, MaxCancels, MaxCrashes} \subseteq Nat
  /\ Impatient \in BOOLEAN

VARIABLES
  readyWorkers,   \* the workers that wait for a training
  activeWorkers,  \* the worker of each session, Undefined where there is no entry
  calls,          \* the calls of startTraining
  cancels,        \* the calls of cancelTraining that wait: session and worker
  toMaster,       \* messages of the web process to the master
  canceled,       \* training_canceled messages on their way to the web process
  worker,         \* the training workers
  handlers,       \* how many exit handlers killTrainingWorker has registered
  killed,         \* bound and history: the number of cancels that found a worker
  crashed,        \* history: the workers that died on their own
  failed,         \* history: the workers on which a training failed
  robbed          \* history: the workers whose exit handlers another exit took

histories == <<killed, crashed, failed, robbed>>
web == <<readyWorkers, activeWorkers, calls, cancels>>
queueVars == <<web, toMaster, canceled, worker, handlers, histories>>

Calls == 1..MaxStarts
Workers == 1..MaxStarts
Undefined == 0

Message == [type : {"make", "start", "cancel"}, s : Sessions \cup {Undefined},
            w : Workers \cup {Undefined}, c : Calls \cup {Undefined}]
Report == [type : {"ready", "done", "error"}, c : Calls \cup {Undefined}]

Pending(c) == calls[c].at \in {"spawn", "train"}
Gone(w) == w \in Workers /\ worker[w].at \in {"killed", "dead"}
Alive(w) == w \in Workers /\ worker[w].at \in {"boot", "up", "stuck"}

\* What a patient caller waits for: no worker is being created for the session
\* and no cancel of it is under way.
Settled(s) ==
  /\ \A c \in Calls : ~ (calls[c].at = "spawn" /\ calls[c].s = s)
  /\ \A x \in cancels : x.s # s

QueueInit ==
  /\ readyWorkers = <<>>
  /\ activeWorkers = [s \in Sessions |-> Undefined]
  /\ calls = [c \in Calls |-> [at |-> "none", s |-> Undefined, w |-> Undefined, got |-> Undefined]]
  /\ cancels = {}
  /\ toMaster = <<>>
  /\ canceled = <<>>
  /\ worker = [w \in Workers |-> [at |-> "none", for |-> Undefined, jobs |-> {}, out |-> <<>>]]
  /\ handlers = 0
  /\ killed = 0
  /\ crashed = {}
  /\ failed = {}
  /\ robbed = {}

-----------------------------------------------------------------------------
(* The web process: TrainingWorkerQueue. *)

Make(s) == [type |-> "make", s |-> s, w |-> Undefined, c |-> Undefined]
StartOn(w, c) == [type |-> "start", s |-> Undefined, w |-> w, c |-> c]
Cancel(w) == [type |-> "cancel", s |-> Undefined, w |-> w, c |-> Undefined]

\* Mutant of TakeReady: the worker is taken but stays in the list.
TakeReadyWithoutPop(s, c) ==
  /\ activeWorkers' = [activeWorkers EXCEPT ![s] = Last(readyWorkers)]
  /\ calls' = [calls EXCEPT ![c].at = "train", ![c].s = s, ![c].w = Last(readyWorkers)]
  /\ toMaster' = Append(toMaster, StartOn(Last(readyWorkers), c))
  /\ UNCHANGED readyWorkers

\* A worker is ready: it is taken from the end of the list.
TakeReady(s, c) ==
  /\ readyWorkers' = Front(readyWorkers)
  /\ activeWorkers' = [activeWorkers EXCEPT ![s] = Last(readyWorkers)]
  /\ calls' = [calls EXCEPT ![c].at = "train", ![c].s = s, ![c].w = Last(readyWorkers)]
  /\ toMaster' = Append(toMaster, StartOn(Last(readyWorkers), c))

\* None is ready: the master is asked for one.  The session is not in
\* activeWorkers until that worker reports.
Spawn(s, c) ==
  /\ calls' = [calls EXCEPT ![c].at = "spawn", ![c].s = s]
  /\ toMaster' = Append(toMaster, Make(s))
  /\ UNCHANGED <<readyWorkers, activeWorkers>>

\* startTraining; it throws, and nothing changes, when the session is active.
StartTraining(s) ==
  /\ activeWorkers[s] = Undefined
  /\ Impatient \/ Settled(s)
  /\ \E c \in Calls :
       /\ calls[c].at = "none"
       /\ \A b \in Calls : b < c => calls[b].at # "none"
       /\ IF readyWorkers = <<>> THEN Spawn(s, c) ELSE TakeReady(s, c)
  /\ UNCHANGED <<cancels, canceled, worker, handlers, histories>>

\* cancelTraining; it returns at once when the session is not active.
CancelTraining(s) ==
  /\ killed < MaxCancels
  /\ activeWorkers[s] # Undefined
  /\ killed' = killed + 1
  /\ cancels' = cancels \cup {[s |-> s, w |-> activeWorkers[s]]}
  /\ toMaster' = Append(toMaster, Cancel(activeWorkers[s]))
  /\ UNCHANGED <<readyWorkers, activeWorkers, calls, canceled, worker, handlers,
                 crashed, failed, robbed>>

\* worker_ready: every call that waits for a worker for this session takes it.
WorkerReady(w) ==
  LET waiting == {c \in Calls : calls[c].at = "spawn" /\ calls[c].s = worker[w].for}
  IN  /\ calls' = [c \in Calls |-> IF c \in waiting
                                   THEN [calls[c] EXCEPT !.at = "train", !.w = w] ELSE calls[c]]
      /\ activeWorkers' = IF waiting = {} THEN activeWorkers
                          ELSE [activeWorkers EXCEPT ![worker[w].for] = w]
      /\ toMaster' = toMaster \o [k \in 1..Cardinality(waiting) |->
                                    StartOn(w, SetToSeq(waiting)[k])]
      /\ UNCHANGED readyWorkers

Training(w) == {c \in Calls : calls[c].at = "train" /\ calls[c].w = w}

\* What activeWorkers has for the session of call order[k] when it is its turn:
\* nothing, if another one of that session came before it.
EntryOf(order, k) ==
  IF \E j \in 1..(k - 1) : calls[order[j]].s = calls[order[k]].s
  THEN Undefined ELSE activeWorkers[calls[order[k]].s]

\* Mutants of PrepareForNextTraining: the worker is not put back; the entry is
\* not deleted.
PrepareNotReady(order) ==
  /\ activeWorkers' = [s \in Sessions |-> IF \E k \in DOMAIN order : calls[order[k]].s = s
                                          THEN Undefined ELSE activeWorkers[s]]
  /\ UNCHANGED readyWorkers
PrepareStillActive(order) ==
  /\ readyWorkers' = Reverse([k \in DOMAIN order |-> EntryOf(order, k)]) \o readyWorkers
  /\ UNCHANGED activeWorkers

\* _prepareForNextTraining of the calls of order, one after the other: the entry
\* of its session goes to the front of the ready workers.
PrepareForNextTraining(order) ==
  /\ readyWorkers' = Reverse([k \in DOMAIN order |-> EntryOf(order, k)]) \o readyWorkers
  /\ activeWorkers' = [s \in Sessions |-> IF \E k \in DOMAIN order : calls[order[k]].s = s
                                          THEN Undefined ELSE activeWorkers[s]]

\* training_done and training_error settle every call that listens to the
\* worker, whatever training the message is about.
Settle(w, m) ==
  /\ PrepareForNextTraining(SetToSeq(Training(w)))
  /\ calls' = [c \in Calls |-> IF c \in Training(w)
                               THEN [calls[c] EXCEPT !.at = m.type, !.got = m.c] ELSE calls[c]]
  /\ UNCHANGED toMaster

\* A message of a worker reaches the web process.
Receive(w) ==
  /\ worker[w].out # <<>>
  /\ LET m == Head(worker[w].out)
     IN  IF m.type = "ready" THEN WorkerReady(w) ELSE Settle(w, m)
  /\ worker' = [worker EXCEPT ![w].out = Tail(@)]
  /\ UNCHANGED <<cancels, canceled, handlers, histories>>

\* A cancelled worker that had become ready again is no longer: what is left is
\* the ready workers but w, in order.
Filter(w) ==
  LET kept == {k \in DOMAIN readyWorkers : readyWorkers[k] # w}
  IN  \E at \in [1..Cardinality(kept) -> kept] :
        /\ \A i, j \in DOMAIN at : i < j => at[i] < at[j]
        /\ readyWorkers' = [i \in DOMAIN at |-> readyWorkers[at[i]]]

\* training_canceled: the calls that listen to the worker reject, the cancels
\* of the worker resolve.
ReceiveCanceled ==
  /\ canceled # <<>>
  /\ LET w == Head(canceled)
         resolved == {x \in cancels : x.w = w}
     IN  /\ calls' = [c \in Calls |-> IF c \in Training(w)
                                      THEN [calls[c] EXCEPT !.at = "canceled"] ELSE calls[c]]
         /\ cancels' = cancels \ resolved
         /\ activeWorkers' = [s \in Sessions |-> IF \E x \in resolved : x.s = s
                                          THEN Undefined ELSE activeWorkers[s]]
         /\ IF resolved = {} THEN UNCHANGED readyWorkers ELSE Filter(w)
  /\ canceled' = Tail(canceled)
  /\ UNCHANGED <<toMaster, worker, handlers, histories>>

-----------------------------------------------------------------------------
(* The master. *)

\* make_new_worker: fork.
Fork(m) ==
  /\ m.type = "make"
  /\ \E w \in Workers :
       /\ worker[w].at = "none"
       /\ \A v \in Workers : v < w => worker[v].at # "none"
       /\ worker' = [worker EXCEPT ![w].at = "boot", ![w].for = m.s]
  /\ UNCHANGED <<canceled, handlers>>

\* start_training: passed on, unless the worker is gone.
PassOn(m) ==
  /\ m.type = "start"
  /\ worker' = IF m.w # Undefined /\ worker[m.w].at = "up"
               THEN [worker EXCEPT ![m.w].jobs = @ \cup {m.c}] ELSE worker
  /\ UNCHANGED <<canceled, handlers>>

\* Mutant of KillTrainingWorker: nothing is answered for a worker that is gone.
KillTrainingWorkerSilently(m) ==
  /\ m.type = "cancel"
  /\ worker' = IF worker[m.w].at = "dead" THEN worker
               ELSE [worker EXCEPT ![m.w].at = "killed", ![m.w].jobs = {}]
  /\ handlers' = IF worker[m.w].at = "dead" THEN handlers ELSE handlers + 1
  /\ UNCHANGED canceled

\* killTrainingWorker: a worker that is gone is reported as cancelled; another
\* one is killed, and whichever process exits next is reported.
KillTrainingWorker(m) ==
  /\ m.type = "cancel"
  /\ IF worker[m.w].at = "dead"
     THEN canceled' = Append(canceled, m.w) /\ UNCHANGED <<worker, handlers>>
     ELSE /\ worker' = [worker EXCEPT ![m.w].at = "killed", ![m.w].jobs = {}]
          /\ handlers' = handlers + 1
          /\ UNCHANGED canceled

\* The master handles a message of the web process.
Handle ==
  /\ toMaster # <<>>
  /\ LET m == Head(toMaster) IN Fork(m) \/ PassOn(m) \/ KillTrainingWorker(m)
  /\ toMaster' = Tail(toMaster)
  /\ UNCHANGED <<web, histories>>

\* A killed process exits: every registered handler runs, with its id.
Exit(w) ==
  /\ worker[w].at = "killed"
  /\ worker' = [worker EXCEPT ![w].at = "dead"]
  /\ canceled' = canceled \o [k \in 1..handlers |-> w]
  /\ handlers' = 0
  /\ robbed' = robbed \cup IF handlers = 0 THEN {}
                           ELSE {v \in Workers \ {w} : worker[v].at = "killed"}
  /\ UNCHANGED <<web, toMaster, killed, crashed, failed>>

-----------------------------------------------------------------------------
(* The training workers. *)

Sent(w, reports) == [worker EXCEPT ![w].out = @ \o reports]

\* The tools are initialised, or not: that is logged and nothing follows.
Boot(w) ==
  /\ worker[w].at = "boot"
  /\ \/ worker' = [Sent(w, <<[type |-> "ready", c |-> Undefined]>>) EXCEPT ![w].at = "up"]
     \/ worker' = [worker EXCEPT ![w].at = "stuck"]
  /\ UNCHANGED <<web, toMaster, canceled, handlers, histories>>

\* Mutant of TrainerReturns: the output is reported without the model.
ReturnsWithoutOutput(w, c) ==
  /\ c \in worker[w].jobs
  /\ worker' = [Sent(w, <<[type |-> "done", c |-> Undefined]>>) EXCEPT ![w].jobs = @ \ {c}]
  /\ UNCHANGED failed

\* The training succeeds.
TrainerReturns(w, c) ==
  /\ c \in worker[w].jobs
  /\ worker' = [Sent(w, <<[type |-> "done", c |-> c]>>) EXCEPT ![w].jobs = @ \ {c}]
  /\ UNCHANGED failed

\* Mutant of TrainerThrows: nothing is sent.
ThrowsSilently(w, c) ==
  /\ c \in worker[w].jobs
  /\ worker' = [worker EXCEPT ![w].jobs = @ \ {c}]
  /\ failed' = failed \cup {w}

\* The training throws: training_error, then training_done without output.
TrainerThrows(w, c) ==
  /\ c \in worker[w].jobs
  /\ worker' = [Sent(w, <<[type |-> "error", c |-> Undefined],
                          [type |-> "done", c |-> Undefined]>>) EXCEPT ![w].jobs = @ \ {c}]
  /\ failed' = failed \cup {w}

Train(w) ==
  /\ \E c \in Calls : TrainerReturns(w, c) \/ TrainerThrows(w, c)
  /\ UNCHANGED <<web, toMaster, canceled, handlers, killed, crashed, robbed>>

\* A worker dies on its own.
Crash(w) ==
  /\ Cardinality(crashed) < MaxCrashes
  /\ worker[w].at \in {"boot", "up"}
  /\ worker' = [worker EXCEPT ![w].at = "killed", ![w].jobs = {}]
  /\ crashed' = crashed \cup {w}
  /\ UNCHANGED <<web, toMaster, canceled, handlers, killed, failed, robbed>>

QueueNext ==
  \/ \E s \in Sessions : StartTraining(s) \/ CancelTraining(s)
  \/ Handle
  \/ ReceiveCanceled
  \/ \E w \in Workers : Receive(w) \/ Exit(w) \/ Boot(w) \/ Train(w) \/ Crash(w)

QueueSpec == QueueInit /\ [][QueueNext]_queueVars

-----------------------------------------------------------------------------
(* Properties *)

QueueTypeOK ==
  /\ readyWorkers \in Seq(Workers \cup {Undefined})
  /\ activeWorkers \in [Sessions -> Workers \cup {Undefined}]
  /\ calls \in [Calls -> [at : {"none", "spawn", "train", "done", "error", "canceled"},
                          s : Sessions \cup {Undefined}, w : Workers \cup {Undefined},
                          got : Calls \cup {Undefined}]]
  /\ cancels \subseteq [s : Sessions, w : Workers]
  /\ toMaster \in Seq(Message)
  /\ canceled \in Seq(Workers)
  /\ worker \in [Workers -> [at : {"none", "boot", "up", "stuck", "killed", "dead"},
                             for : Sessions \cup {Undefined}, jobs : SUBSET Calls,
                             out : Seq(Report)]]
  /\ \A w \in Workers : worker[w].jobs # {} => worker[w].at = "up"
  /\ handlers \in Nat

\* A worker that training may be given to is given to one session at a time:
\* the ready workers are distinct workers and none of them is active, and no
\* worker is active for two sessions, whatever is cancelled, fails or crashes.
\* And it can be given training: one that was killed while its training ended
\* is taken out of the ready workers again by the cancel that killed it.
WorkersNotShared ==
  /\ IsInjective(readyWorkers)
  /\ \A k \in DOMAIN readyWorkers :
       /\ readyWorkers[k] # Undefined
       /\ \A s \in Sessions : activeWorkers[s] # readyWorkers[k]
       /\ \/ Alive(readyWorkers[k])
          \/ readyWorkers[k] \in crashed
          \/ \E x \in cancels : x.w = readyWorkers[k]
  /\ \A s, t \in Sessions :
       s # t /\ activeWorkers[s] = activeWorkers[t] => activeWorkers[s] = Undefined

\* The workers (TrainingWorkerQueue): the types, and none shared.
WorkersInv == QueueTypeOK /\ WorkersNotShared

\* No worker is forgotten: one that waits for work and from which, or to which,
\* nothing is on the way can be reached by the queue.
NoWorkerForgotten ==
  \A w \in Workers :
    (/\ worker[w].at = "up" /\ worker[w].jobs = {} /\ worker[w].out = <<>>
     /\ \A k \in DOMAIN toMaster : toMaster[k].w # w)
    => \/ w \in ToSet(readyWorkers)
       \/ \E s \in Sessions : activeWorkers[s] = w

\* A session that is refused as already started is being trained, unless its
\* worker is gone.
BusyMeansTraining ==
  \A s \in Sessions :
    \/ activeWorkers[s] = Undefined
    \/ Gone(activeWorkers[s])
    \/ \E c \in Training(activeWorkers[s]) : calls[c].s = s

\* The two maps of the queue (readyWorkers and activeWorkers) account for every
\* worker and every session: the two facts above.
WorkersAccountedFor == NoWorkerForgotten /\ BusyMeansTraining

\* A training that resolves does so with its own output, unless a training
\* failed on that worker before: its second report may settle a later one.
OwnOutput ==
  \A c \in Calls : calls[c].at = "done" => calls[c].got = c \/ calls[c].w \in failed

\* Nothing is left to happen unless somebody calls or a worker crashes: no
\* message is on its way, no process starts or exits and no training is run.
Quiet ==
  /\ toMaster = <<>>
  /\ canceled = <<>>
  /\ \A w \in Workers :
       /\ worker[w].at \notin {"boot", "killed"}
       /\ worker[w].jobs = {} /\ worker[w].out = <<>>

\* A training does not hang as long as its worker lives: when all is quiet, it
\* has settled.
TrainingsSettle ==
  Quiet => \A c \in Calls : calls[c].at = "train" => Gone(calls[c].w)

\* A cancel does not hang, unless another process exited between the kill and
\* the exit of its worker: when all is quiet, it has resolved.
CancelsResolve == Quiet => \A x \in cancels : x.w \in robbed

\* Nobody waits for ever for startTraining or cancelTraining: the two facts above.
NothingHangs == TrainingsSettle /\ CancelsResolve

\* What startTraining checks: a session is not trained twice at a time.
StartedOnce ==
  \A b, c \in Calls : Pending(b) /\ Pending(c) /\ calls[b].s = calls[c].s => b = c
=============================================================================
