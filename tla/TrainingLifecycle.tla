-------------------------- MODULE TrainingLifecycle --------------------------
(***************************************************************************)
(* The life cycle of the model of one language of one bot, in the NLU      *)
(* module (modules/nlu/src/backend) and the bot service: mounting and      *)
(* unmounting the bot, training, cancelling, and announcing that the bot   *)
(* must be trained.  Each of these is an asynchronous function; several    *)
(* run at once, and a step below is what one does between two awaits.      *)
(*                                                                         *)
(* The intents and entities are a version, the hash of their contents that *)
(* the id of a model is made of: an edit may bring an old version back, and *)
(* its model with it.  The engine is what its callers see of TrainingQueue. *)
(* A write to the database fails at once or takes effect when it is issued, *)
(* in the order the writes are issued.                                      *)
(***************************************************************************)
EXTENDS Integers, FiniteSets, JobLock

CONSTANTS
  MaxTasks,     \* bound: requests, messages, and announcements of an edit
  Versions,     \* what the intents and entities may be
  MaxMishaps,   \* bound: restarts of the server, and steps that throw
  Disabled      \* whether BP_NLU_DISABLE_TRAINING is set

Tasks == 1..MaxTasks
BotIds == 1..(MaxTasks + 1)
None == 0

ASSUME LifecycleAssumption ==
  /\ {MaxTasks, MaxMishaps} \subseteq Nat
  /\ None \notin Versions
  /\ Disabled \in BOOLEAN
  /\ Holders = Tasks

VARIABLES
  mounted,   \* BotService._mountedBots
  current,   \* state.nluByBot: the number of the mount it is of, or None
  bots,      \* the bot states: trainSessions (the task it is of), modelsByLang
  active,    \* whether the engine has an entry for the language's training
  loaded,    \* the models in the engine's cache
  defs,      \* the version of the intents and entities
  stored,    \* the model files: the newest and the one before
  row,       \* the training status in the key-value store
  task,      \* the functions that run
  left,      \* bound: the mishaps that are left
  crossings  \* history: what has crossed a function that was running

service == <<mounted, current, bots>>
engine == <<active, loaded>>
storage == <<defs, stored, row>>
vars == <<service, engine, storage, lock, task, left, crossings>>

Statuses == {"idle", "training-pending", "training", "needs-training", "done", "canceled"}
\* What may cross a function that is under way: the loss of a lock; an edit after
\* the definitions were read; a mount or unmount beside another; the end of the
\* bot state that a run works on; a message that serves what it read before.  Or
\* an edit that is not announced, for the engine has the model it brings back.
Crossings == {"lock", "edit", "mounts", "orphan", "message", "silent", "unsaved"}
Kinds == {"mount", "unmount", "train", "cancel", "announce", "predict"}
RunSteps == {"find", "start", "create", "train", "caught", "keep", "save", "broadcast", "reload", "load", "unlock"}
Steps == {"idle", "over", "mount", "fetch", "lock", "read", "decide", "announce", "up", "clear", "tell", "mark",
          "kill", "unmount", "forget", "finish", "down", "message", "pull", "adopt"} \cup RunSteps

\* A task: its kind and next step; the bot state, the version and the model it
\* works on; the session it cancels; whether the status of its own session is training;
\* and whether it has thrown.
IdleTask == [kind |-> "train", at |-> "idle", bot |-> None, session |-> None, version |-> None,
             model |-> None, training |-> FALSE, threw |-> FALSE]

Live(t) == task[t].at \notin {"idle", "over"}
InRun(t) == task[t].at \in RunSteps
InTraining(b) == b # None /\ bots[b].session # None /\ task[bots[b].session].training

CrossingsIf(what, crosses) == IF crosses THEN crossings \cup {what} ELSE crossings

\* A task that is over leaves its session, which a bot state may still have.
Over(r) == [IdleTask EXCEPT !.at = "over", !.training = r.training, !.threw = r.threw]
Goto(t, at) == task' = [task EXCEPT ![t].at = at]
Ends(t) == task' = [task EXCEPT ![t] = Over(@)]

\* trainOrLoad returns or throws: mounting the bot goes on with the announcement.
AfterRun(r) == IF r.kind = "mount" /\ ~ r.threw THEN [r EXCEPT !.at = "read"] ELSE Over(r)

\* sendNLUStatusEvent: the session's status changes and is stored.
Becomes(t, status, at) ==
  /\ task' = [task EXCEPT ![t].training = (status = "training"), ![t].at = at]
  /\ row' = status

Fresh == [session |-> None, model |-> None]

\* saveModel keeps the two newest files.
Files == {stored.newest, stored.older} \ {None}
\* Mutant of With: the newest files are the ones that are pruned.
KeepOldest(m) == IF stored.older = None /\ m # stored.newest THEN [newest |-> m, older |-> stored.newest] ELSE stored
With(m) == IF m = stored.newest THEN stored ELSE [newest |-> m, older |-> stored.newest]

Mishap == left > 0 /\ left' = left - 1

\* The server has been started with the bot, which has models or not.
Init ==
  /\ mounted = TRUE
  /\ current = 1
  /\ defs \in Versions
  /\ stored \in [newest : Versions \cup {None}, older : Versions \cup {None}]
  /\ stored.newest = stored.older => stored.newest = None
  /\ stored.newest = None => stored.older = None
  /\ bots = [b \in BotIds |-> [Fresh EXCEPT !.model = IF b = 1 /\ defs \in Files THEN defs ELSE None]]
  /\ active = FALSE
  /\ loaded = Files \cap {defs}
  /\ row = IF defs \in Files THEN "done" ELSE "needs-training"
  /\ lock = Unlocked
  /\ task = [t \in Tasks |-> IdleTask]
  /\ left = MaxMishaps
  /\ crossings = {}

-----------------------------------------------------------------------------
(* Requests.  A mounted bot is not mounted again, and only a bot that has   *)
(* a state in the module is trained or cancelled.                           *)

First(kind) ==
  CASE kind = "mount" -> ~ mounted
    [] kind = "unmount" -> mounted
    [] OTHER -> current # None

FirstStep(kind) ==
  CASE kind = "mount" -> "mount"
    [] kind = "unmount" -> "unmount"
    [] kind = "train" -> "fetch"
    [] kind = "cancel" -> "clear"
    [] kind = "predict" -> "message"

NextTask(t) == task[t].at = "idle" /\ \A u \in 1..(t - 1) : task[u].at # "idle"

\* A training is one of the bot state that has been asked for it, and a message
\* is understood with the models of the bot state it has found.
Request(t) ==
  /\ NextTask(t)
  /\ \E kind \in Kinds \ {"announce"} :
       /\ First(kind)
       /\ task' = [task EXCEPT ![t] = [IdleTask EXCEPT !.kind = kind, !.at = FirstStep(kind),
                                         !.bot = IF kind \in {"train", "predict"} THEN current ELSE None]]
       /\ crossings' = CrossingsIf("mounts",
            \E u \in Tasks : Live(u) /\ {kind, task[u].kind} \subseteq {"mount", "unmount"})
  /\ UNCHANGED <<service, engine, storage, lock, left>>

Threw == \E t \in Tasks : task[t].threw

\* A file of the intents or entities is written, with other contents or the same.
\* The watcher of the mounted bot announces it, and so does one that a failed
\* mount has left behind.
Edit ==
  /\ defs' \in Versions
  /\ crossings' = CrossingsIf("edit", defs' # defs /\ \E t \in Tasks : InRun(t) \/ task[t].at = "lock")
  /\ \/ current = None /\ defs' # defs /\ task' = task
     \/ \E t \in Tasks :
          /\ current # None \/ Threw
          /\ NextTask(t)
          /\ task' = [task EXCEPT ![t] = [IdleTask EXCEPT !.kind = "announce", !.at = "read"]]
  /\ UNCHANGED <<service, engine, stored, row, lock, left>>

\* The engine's cache, which the other bots share, is full: it drops a model.
Evict ==
  /\ \E m \in loaded : loaded' = loaded \ {m}
  /\ Mishap
  /\ UNCHANGED <<service, active, storage, lock, task, crossings>>

\* The server stops and starts: the locks, the engine and the bot states are
\* gone, and what ran has stopped.
Restart ==
  /\ Mishap
  /\ mounted' = FALSE
  /\ current' = None
  /\ bots' = [b \in BotIds |-> Fresh]
  /\ active' = FALSE
  /\ loaded' = {}
  /\ lock' = Unlocked
  /\ task' = [t \in Tasks |-> IF Live(t) THEN [IdleTask EXCEPT !.at = "over"]
                              ELSE task[t]]
  /\ UNCHANGED <<storage, crossings>>

\* Where an await may throw and nothing catches it, the function is over.  A run
\* that has the lock leaves it, and a mount or an unmount stops half-way.
Throws(t) ==
  /\ task[t].at \in {"fetch", "lock", "find", "read", "decide", "announce", "clear", "tell", "mount", "up",
                     "unmount", "forget", "down"}
  /\ Mishap
  /\ task' = [task EXCEPT ![t] = Over([@ EXCEPT !.threw = TRUE])]
  /\ UNCHANGED <<service, engine, storage, lock, crossings>>

-----------------------------------------------------------------------------
(* trainOrLoad, of a training or of a mount, which trains nothing.          *)

Fetch(t) ==
  /\ task[t].at = "fetch"
  /\ task' = [task EXCEPT ![t].at = "lock", ![t].version = defs]
  /\ UNCHANGED <<service, engine, storage, lock, left, crossings>>

\* A run that does not get the lock returns.
\* Mutant of TakeLock: it gives the lock back all the same.
TakeLockOrGive(t) ==
  /\ task[t].at = "lock"
  /\ IF MayAcquire THEN Acquire(t) /\ Goto(t, "find")
     ELSE Unlock /\ task' = [task EXCEPT ![t] = AfterRun(@)]
  /\ UNCHANGED <<service, engine, storage, left, crossings>>
TakeLock(t) ==
  /\ task[t].at = "lock"
  /\ IF MayAcquire THEN Acquire(t) /\ Goto(t, "find")
     ELSE lock' = lock /\ task' = [task EXCEPT ![t] = AfterRun(@)]
  /\ UNCHANGED <<service, engine, storage, left, crossings>>

Trains(t) == task[t].kind = "train" /\ ~ Disabled

\* The model files are listed and the wanted one is looked for; then the
\* session is made, in the same step as the rest.
Found(t) == task[t].version \in Files
FirstStatus(t) == IF Found(t) \/ ~ Trains(t) THEN "done" ELSE "training-pending"

Find(t) ==
  /\ task[t].at = "find"
  /\ task' = [task EXCEPT ![t].model = IF Found(t) THEN task[t].version ELSE None,
                          ![t].at = IF FirstStatus(t) = "done" THEN "broadcast" ELSE "start"]
  /\ row' = FirstStatus(t)
  /\ bots' = [bots EXCEPT ![task[t].bot].session = t]
  /\ UNCHANGED <<mounted, current, engine, defs, stored, lock, left, crossings>>

\* The session's status is not stored: the run throws, and leaves the lock.
FindFails(t) ==
  /\ task[t].at = "find"
  /\ Mishap
  /\ task' = [task EXCEPT ![t] = Over([@ EXCEPT !.threw = TRUE])]
  /\ bots' = [bots EXCEPT ![task[t].bot].session = t]
  /\ UNCHANGED <<mounted, current, engine, storage, lock, crossings>>

\* engine.train.  The engine refuses a training that has already started, but it
\* has an entry for one only when that has its worker.
Start(t) ==
  /\ task[t].at = "start"
  /\ IF active THEN Goto(t, "broadcast") ELSE Goto(t, "create")
  /\ UNCHANGED <<service, engine, storage, lock, left, crossings>>

\* A worker is ready for the training, which the entry is of from now on.
Created(t) ==
  /\ task[t].at = "create"
  /\ active' = TRUE
  /\ Goto(t, "train")
  /\ UNCHANGED <<service, loaded, storage, lock, left, crossings>>

\* The progress is stored, or not: nothing awaits the callback.
Progress(t) ==
  /\ task[t].at = "train"
  /\ ~ task[t].training
  /\ \/ Becomes(t, "training", "train") /\ left' = left
     \/ Mishap /\ task' = [task EXCEPT ![t].training = TRUE] /\ row' = row
  /\ UNCHANGED <<service, engine, defs, stored, lock, crossings>>

\* The worker is done; the entry is deleted, whichever training it is of.
Trained(t) ==
  /\ task[t].at = "train"
  /\ active' = FALSE
  /\ task' = [task EXCEPT ![t].training = FALSE, ![t].model = task[t].version, ![t].at = "keep"]
  /\ row' = "done"
  /\ UNCHANGED <<service, loaded, defs, stored, lock, left, crossings>>

\* The training fails, or is done but its status is not stored.
TrainingFails(t) ==
  /\ task[t].at = "train"
  /\ Mishap
  /\ active' = FALSE
  /\ \/ Goto(t, "caught")
     \/ task' = [task EXCEPT ![t].training = FALSE, ![t].model = task[t].version, ![t].at = "caught"]
  /\ UNCHANGED <<service, loaded, storage, lock, crossings>>

\* The error of a training, or of a cancelled one, is caught.
\* Mutant of Caught: the session keeps its status.
CaughtSilently(t) ==
  /\ task[t].at = "caught"
  /\ Goto(t, "broadcast")
  /\ UNCHANGED <<service, engine, storage, lock, left, crossings>>
Caught(t) ==
  /\ task[t].at = "caught"
  /\ Becomes(t, "needs-training", "broadcast")
  /\ UNCHANGED <<service, engine, defs, stored, lock, left, crossings>>

\* The status is not stored: the handler of the error throws, and leaves the lock.
CaughtFails(t) ==
  /\ task[t].at = "caught"
  /\ Mishap
  /\ task' = [task EXCEPT ![t] = Over([@ EXCEPT !.training = FALSE, !.threw = TRUE])]
  /\ UNCHANGED <<service, engine, storage, lock, crossings>>

\* The bot state of the run serves the model; then the engine has loaded it.  What
\* comes in between does what it would do before.
Keep(t) ==
  /\ task[t].at = "keep"
  /\ bots' = [bots EXCEPT ![task[t].bot].model = task[t].model]
  /\ loaded' = loaded \cup {task[t].model}
  /\ Goto(t, "save")
  /\ UNCHANGED <<mounted, current, active, storage, lock, left, crossings>>

\* The model is too large for the engine, but the bot state serves it.
KeepFails(t) ==
  /\ task[t].at = "keep"
  /\ Mishap
  /\ bots' = [bots EXCEPT ![task[t].bot].model = task[t].model]
  /\ Goto(t, "caught")
  /\ crossings' = crossings \cup {"unsaved"}
  /\ UNCHANGED <<mounted, current, engine, storage, lock>>

Save(t) ==
  /\ task[t].at = "save"
  /\ stored' = With(task[t].model)
  /\ Goto(t, "broadcast")
  /\ UNCHANGED <<service, engine, defs, row, lock, left, crossings>>

\* The file is not written, or it is and the old ones are not pruned.
SaveFails(t) ==
  /\ task[t].at = "save"
  /\ Mishap
  /\ stored' \in {stored, With(task[t].model)}
  /\ Goto(t, "caught")
  /\ crossings' = crossings \cup {"unsaved"}
  /\ UNCHANGED <<service, engine, defs, row, lock>>

\* broadcastLoadModel: the bot state of the moment, if any, gets the model that
\* is read from its file.
Broadcast(t) ==
  /\ task[t].at = "broadcast"
  /\ Goto(t, IF task[t].model # None /\ current # None THEN "reload" ELSE "unlock")
  /\ UNCHANGED <<service, engine, storage, lock, left, crossings>>

Reload(t) ==
  /\ task[t].at = "reload"
  /\ IF task[t].model \in Files /\ current # None
     THEN /\ bots' = [bots EXCEPT ![current].model = task[t].model]
          /\ Goto(t, "load")
     ELSE bots' = bots /\ Goto(t, "unlock")
  /\ UNCHANGED <<mounted, current, engine, storage, lock, left, crossings>>

Load(t) ==
  /\ task[t].at = "load"
  /\ loaded' = loaded \cup {task[t].model}
  /\ Goto(t, "unlock")
  /\ UNCHANGED <<service, active, storage, lock, left, crossings>>

\* The file cannot be read, or the model is too large: the run throws when it has
\* given the lock back.
LoadFails(t) ==
  /\ task[t].at \in {"reload", "load"}
  /\ Mishap
  /\ task' = [task EXCEPT ![t].threw = TRUE, ![t].at = "unlock"]
  /\ UNCHANGED <<service, engine, storage, lock, crossings>>

\* lock.unlock deletes the lock, be it another's by now.
Release(t) ==
  /\ task[t].at = "unlock"
  /\ Unlock
  /\ task' = [task EXCEPT ![t] = AfterRun(@)]
  /\ UNCHANGED <<service, engine, storage, left, crossings>>

\* The lock is not deleted, or it is and kvs.delete fails.
ReleaseFails(t) ==
  /\ task[t].at = "unlock"
  /\ Mishap
  /\ lock' \in {lock, Unlocked}
  /\ task' = [task EXCEPT ![t] = Over([@ EXCEPT !.threw = TRUE])]
  /\ UNCHANGED <<service, engine, storage, crossings>>

\* Five minutes have passed: no run extends its lock.
Expire ==
  /\ ExpireLock
  /\ crossings' = CrossingsIf("lock", TRUE)
  /\ UNCHANGED <<service, engine, storage, task, left>>

-----------------------------------------------------------------------------
(* annouceNeedsTraining, of a mount or of an edit.                          *)

Read(t) ==
  /\ task[t].at = "read"
  /\ task' = [task EXCEPT ![t].at = "decide", ![t].version = defs]
  /\ UNCHANGED <<service, engine, storage, lock, left, crossings>>

AfterAnnouncement(r) == IF r.kind = "mount" THEN [r EXCEPT !.at = "up"] ELSE Over(r)

Serves(v) == current # None /\ bots[current].model = v

\* Nothing is announced while the row says that the bot is in training, nor when
\* the engine has the model, though the bot may serve another one.
Decide(t) ==
  /\ task[t].at = "decide"
  /\ task' = [task EXCEPT ![t] = IF row = "training" \/ task[t].version \in loaded
                                 THEN AfterAnnouncement(@) ELSE [@ EXCEPT !.at = "announce"]]
  /\ crossings' = CrossingsIf("silent", row # "training" /\ task[t].version \in loaded /\ ~ Serves(task[t].version))
  /\ UNCHANGED <<service, engine, storage, lock, left>>

Announce(t) ==
  /\ task[t].at = "announce"
  /\ row' = "needs-training"
  /\ task' = [task EXCEPT ![t] = AfterAnnouncement(@)]
  /\ UNCHANGED <<service, engine, defs, stored, lock, left, crossings>>

-----------------------------------------------------------------------------
(* Cancelling: of a request, or of the training that an unmount finds.      *)

\* The lock is cleared before anything is cancelled.
Clear(t) ==
  /\ task[t].at = "clear"
  /\ ClearLock
  /\ crossings' = CrossingsIf("lock", TRUE)
  /\ Goto(t, "tell")
  /\ UNCHANGED <<service, engine, storage, left>>

AfterCancel(r) == IF r.kind = "unmount" THEN [r EXCEPT !.at = "forget"] ELSE Over(r)

\* Only a session in training is cancelled: its lock is deleted.
CancelSession(t) ==
  /\ InTraining(current)
  /\ Unlock
  /\ crossings' = CrossingsIf("lock", TRUE)
  /\ task' = [task EXCEPT ![t].at = "mark", ![t].bot = current, ![t].session = bots[current].session]

Tell(t) ==
  /\ task[t].at = "tell"
  /\ \/ CancelSession(t)
     \/ /\ ~ InTraining(current)
        /\ Ends(t)
        /\ UNCHANGED <<lock, crossings>>
  /\ UNCHANGED <<service, engine, storage, left>>

\* The session's status becomes canceled, whatever it is by now.
Mark(t) ==
  /\ task[t].at = "mark"
  /\ row' = "canceled"
  /\ task' = [task EXCEPT ![task[t].session].training = FALSE, ![t].at = "kill"]
  /\ UNCHANGED <<service, engine, defs, stored, lock, left, crossings>>

\* ... or it is not stored, and the training goes on.
MarkFails(t) ==
  /\ task[t].at = "mark"
  /\ Mishap
  /\ task' = [[task EXCEPT ![task[t].session].training = FALSE]
                EXCEPT ![t] = Over([@ EXCEPT !.threw = TRUE])]
  /\ UNCHANGED <<service, engine, storage, lock, crossings>>

\* engine.cancelTraining returns at once when there is no entry.  Otherwise it does
\* when the worker is gone; the trainings on it have been rejected by then.
Kill(t) ==
  /\ task[t].at = "kill"
  /\ active' = FALSE
  /\ \E killed \in SUBSET {u \in Tasks : task[u].at = "train"} :
       /\ killed = {} <=> ~ active
       /\ task' = [[u \in Tasks |-> IF u \in killed THEN [task[u] EXCEPT !.at = "caught"] ELSE task[u]]
                     EXCEPT ![t] = AfterCancel(@)]
  /\ UNCHANGED <<service, loaded, storage, lock, left, crossings>>

-----------------------------------------------------------------------------
(* Mounting and unmounting the bot.                                         *)

\* onBotMount makes a new bot state, and runs trainOrLoad on it.
Mount(t) ==
  /\ task[t].at = "mount"
  /\ current' = t + 1
  /\ task' = [task EXCEPT ![t].at = "fetch", ![t].bot = t + 1]
  /\ UNCHANGED <<mounted, bots, engine, storage, lock, left, crossings>>

Up(t) ==
  /\ task[t].at = "up"
  /\ mounted' = TRUE
  /\ Ends(t)
  /\ UNCHANGED <<current, bots, engine, storage, lock, left, crossings>>

\* onBotUnmount: the session in training is cancelled and forgotten first.
Unmount(t) ==
  /\ task[t].at = "unmount"
  /\ \/ CancelSession(t)
     \/ /\ ~ InTraining(current)
        /\ task' = [task EXCEPT ![t].bot = current, ![t].at = IF current = None THEN "down" ELSE "finish"]
        /\ UNCHANGED <<lock, crossings>>
  /\ UNCHANGED <<service, engine, storage, left>>

Forget(t) ==
  /\ task[t].at = "forget"
  /\ row' = "idle"
  /\ Goto(t, "finish")
  /\ UNCHANGED <<service, engine, defs, stored, lock, left, crossings>>

\* The models are those of the bot state it began with; the bot state that is
\* deleted is the one of the moment.
Finish(t) ==
  /\ task[t].at = "finish"
  /\ loaded' = loaded \ {bots[task[t].bot].model}
  /\ current' = None
  /\ Goto(t, "down")
  /\ crossings' = CrossingsIf("orphan", \E u \in Tasks \ {t} : Live(u) /\ task[u].bot = task[t].bot)
  /\ UNCHANGED <<mounted, bots, active, storage, lock, left>>

Down(t) ==
  /\ task[t].at = "down"
  /\ mounted' = FALSE
  /\ Ends(t)
  /\ UNCHANGED <<current, bots, engine, storage, lock, left, crossings>>

-----------------------------------------------------------------------------
(* The prediction handler, of a message.                                    *)

\* A model that is served but not loaded is read again; a bot that serves none
\* gets the newest.
Predict(t) ==
  /\ task[t].at = "message"
  /\ LET served == bots[task[t].bot].model
         wanted == IF served # None THEN served ELSE stored.newest IN
       IF served \in loaded \/ wanted = None THEN Ends(t)
       ELSE task' = [task EXCEPT ![t].model = wanted, ![t].at = "pull"]
  /\ UNCHANGED <<service, engine, storage, lock, left, crossings>>

Pull(t) ==
  /\ task[t].at = "pull"
  /\ IF task[t].model \in Files THEN Goto(t, "adopt") ELSE Ends(t)
  /\ UNCHANGED <<service, engine, storage, lock, left, crossings>>

\* What has been read is served, whatever is served or stored by now; then the
\* engine has loaded it, or it is too large.
Adopt(t) ==
  /\ task[t].at = "adopt"
  /\ bots' = [bots EXCEPT ![task[t].bot].model = task[t].model]
  /\ \/ loaded' = loaded \cup {task[t].model} /\ left' = left
     \/ loaded' = loaded /\ Mishap
  /\ Ends(t)
  /\ crossings' = CrossingsIf("message", task[t].bot = current /\
                                (bots[current].model \notin {None, task[t].model} \/ task[t].model \notin Files))
  /\ UNCHANGED <<mounted, current, active, storage, lock>>

\* The files cannot be read: no model is found.
PredictFails(t) ==
  /\ task[t].at \in {"message", "pull"}
  /\ Mishap
  /\ Ends(t)
  /\ UNCHANGED <<service, engine, storage, lock, crossings>>

-----------------------------------------------------------------------------
Run(t) ==
  \/ Fetch(t) \/ TakeLock(t) \/ Find(t) \/ FindFails(t) \/ Start(t) \/ Created(t) \/ Progress(t)
  \/ Trained(t) \/ TrainingFails(t) \/ Caught(t) \/ CaughtFails(t) \/ Keep(t) \/ KeepFails(t)
  \/ Save(t) \/ SaveFails(t) \/ Broadcast(t) \/ Reload(t) \/ Load(t) \/ LoadFails(t)
  \/ Release(t) \/ ReleaseFails(t)

Next ==
  \/ \E t \in Tasks :
       \/ Request(t) \/ Throws(t) \/ Run(t)
       \/ Read(t) \/ Decide(t) \/ Announce(t)
       \/ Clear(t) \/ Tell(t) \/ Mark(t) \/ MarkFails(t) \/ Kill(t)
       \/ Mount(t) \/ Up(t) \/ Unmount(t) \/ Forget(t) \/ Finish(t) \/ Down(t)
       \/ Predict(t) \/ Pull(t) \/ Adopt(t) \/ PredictFails(t)
  \/ Edit \/ Evict \/ Restart \/ Expire

Spec == Init /\ [][Next]_vars

-----------------------------------------------------------------------------
TaskRecord ==
  [kind : Kinds, at : Steps, bot : BotIds \cup {None}, session : Tasks \cup {None},
   version : Versions \cup {None}, model : Versions \cup {None}, training : BOOLEAN, threw : BOOLEAN]

TypeOK ==
  /\ mounted \in BOOLEAN
  /\ current \in BotIds \cup {None}
  /\ bots \in [BotIds -> [session : Tasks \cup {None}, model : Versions \cup {None}]]
  /\ active \in BOOLEAN
  /\ loaded \subseteq Versions
  /\ stored \in [newest : Versions \cup {None}, older : Versions \cup {None}]
  /\ defs \in Versions
  /\ row \in Statuses
  /\ LockTypeOK
  /\ task \in [Tasks -> TaskRecord]
  /\ left \in 0..MaxMishaps
  /\ crossings \subseteq Crossings

\* Only a run that threw leaves the lock behind, anywhere before it gives it back: the
\* language cannot be trained for what is left of the five minutes.
LockLeftOnlyByThrow ==
  lock.by # NoHolder => InRun(lock.by) \/ (task[lock.by].at = "over" /\ task[lock.by].threw)

\* Every run under way has the lock, so that no other is, as long as no lock has
\* expired, which no run extends, and none was cleared by a cancel.
RunsHoldTheLock ==
  "lock" \notin crossings => \A t \in Tasks : InRun(t) => lock = [by |-> t, expired |-> FALSE]

\* A run knows the version it trains, and then the model it has made or found; a
\* message knows the bot state it was found with.
ModelsKnown ==
  \A t \in Tasks :
    /\ task[t].at \in {"lock", "find", "start", "create", "train"} => task[t].version \in Versions
    /\ task[t].at \in {"keep", "save", "reload", "load", "pull", "adopt"} => task[t].model \in Versions
    /\ task[t].at = "message" => task[t].bot \in BotIds

\* A training is cancelled after its lock was deleted.
CancelsTakeTheLock ==
  \A t \in Tasks : task[t].at \in {"mark", "kill"} => "lock" \in crossings

\* The lock of a language's training (trainOrLoad, cancelTraining and the job
\* service): the types and the four facts above.  It is inductive.
LockInv == TypeOK /\ ModelsKnown /\ LockLeftOnlyByThrow /\ RunsHoldTheLock /\ CancelsTakeTheLock

AtRest == \A t \in Tasks : ~ Live(t)

\* At rest, with the bot mounted, the language is not said to be in training, so that
\* its next edit is announced; and the status done is that of a bot that serves the
\* model of what its intents and entities are now (trainOrLoad, annouceNeedsTraining,
\* cancelTraining, mount).  Not so once a step has thrown outside of a training: the
\* status of a training that has thrown so is left as it was.  And done says nothing
\* after an edit that a run crosses, a bot state that a run loses, mounts that overlap
\* or a message that is slower than a run: these do leave done with another model.  So
\* does, without any overlap, an edit that brings back contents whose model is still
\* in the engine, though no longer served: annouceNeedsTraining is then silent.
StatusSettles ==
  AtRest /\ mounted /\ ~ Threw =>
    /\ row \notin {"training", "training-pending"}
    /\ row = "done" /\ ~ Disabled /\ crossings \subseteq {"lock", "unsaved"} => Serves(defs)

\* At rest, a mounted bot has its state in the module, and the model that it serves
\* is one of the files, whatever was pruned, so that the prediction handler can read it
\* again when the engine has dropped it (mount, trainOrLoad, saveModel, predict).  Not
\* so after mounts that overlap, a step that has thrown, a training whose file could
\* not be written, or a message that serves what has been pruned or replaced meanwhile.
ServedWhenMounted ==
  AtRest /\ mounted /\ "mounts" \notin crossings /\ ~ Threw =>
    /\ current # None
    /\ crossings \cap {"message", "unsaved"} = {} => bots[current].model \in Files \cup {None}
=============================================================================
