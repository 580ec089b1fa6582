---------------------------- MODULE TrainingProofs ----------------------------
(* Theorems about the trainings of the NLU module (TrainingLifecycle), for any *)
(* versions of the definitions and any number of tasks and mishaps, and about  *)
(* the queue of the engine that runs them (TrainingQueue), for any number of   *)
(* trainings, workers, cancels and crashes.                                    *)
EXTENDS TrainingLifecycle, TrainingQueue, SequenceTheorems, FiniteSetTheorems, FunctionTheorems, TLAPS

\* What every step needs of the constants.
LEMMA Constants ==
  /\ Tasks \subseteq Nat \ {0}
  /\ Holders = Tasks
  /\ BotIds \subseteq Nat \ {0}
  /\ \A t \in Tasks : t + 1 \in BotIds
  /\ 1 \in BotIds
  /\ None \notin Versions
  /\ MaxMishaps \in Nat
BY LifecycleAssumption DEF Tasks, BotIds

-----------------------------------------------------------------------------
(* What the functions of the model make of a task is a task.                *)

LEMMA IdleIsTask == IdleTask \in TaskRecord
BY DEF IdleTask, TaskRecord, Kinds, Steps, None

LEMMA TaskMoves ==
  ASSUME NEW r \in TaskRecord
  PROVE  /\ \A at \in Steps : [r EXCEPT !.at = at] \in TaskRecord
         /\ \A b \in BOOLEAN : [r EXCEPT !.training = b] \in TaskRecord
         /\ [r EXCEPT !.threw = TRUE] \in TaskRecord
         /\ [r EXCEPT !.training = FALSE, !.threw = TRUE] \in TaskRecord
         /\ \A at \in Steps : [r EXCEPT !.threw = TRUE, !.at = at] \in TaskRecord
         /\ \A at \in Steps, b \in BOOLEAN : [r EXCEPT !.training = b, !.at = at] \in TaskRecord
         /\ \A at \in Steps, v \in Versions : [r EXCEPT !.at = at, !.version = v] \in TaskRecord
         /\ \A at \in Steps, b \in BotIds \cup {None} :
              [r EXCEPT !.at = at, !.bot = b] \in TaskRecord /\ [r EXCEPT !.bot = b, !.at = at] \in TaskRecord
         /\ \A at \in Steps, m \in Versions \cup {None} : [r EXCEPT !.model = m, !.at = at] \in TaskRecord
         /\ \A at \in Steps, b \in BOOLEAN, m \in Versions \cup {None} :
              [r EXCEPT !.training = b, !.model = m, !.at = at] \in TaskRecord
         /\ \A at \in Steps, b \in BotIds \cup {None}, n \in Tasks \cup {None} :
              [r EXCEPT !.at = at, !.bot = b, !.session = n] \in TaskRecord
BY ZenonT(60) DEF TaskRecord

LEMMA TaskEnds ==
  ASSUME NEW r \in TaskRecord
  PROVE  /\ Over(r) \in TaskRecord
         /\ AfterRun(r) \in TaskRecord
         /\ AfterCancel(r) \in TaskRecord
         /\ AfterAnnouncement(r) \in TaskRecord
<1>1. Over(r) \in TaskRecord
  BY IdleIsTask DEF Over, IdleTask, TaskRecord, Steps, None
<1>2. {"read", "forget", "up"} \subseteq Steps
  BY DEF Steps
<1>. QED BY <1>1, <1>2, TaskMoves DEF AfterRun, AfterCancel, AfterAnnouncement

-----------------------------------------------------------------------------
(* The types. *)

\* A task that is put in the place of another.
LEMMA TaskPut ==
  ASSUME task \in [Tasks -> TaskRecord], NEW t \in Tasks, NEW r \in TaskRecord, task' = [task EXCEPT ![t] = r]
  PROVE  task' \in [Tasks -> TaskRecord]
OBVIOUS

LEMMA TaskGoes ==
  ASSUME task \in [Tasks -> TaskRecord], NEW t \in Tasks
  PROVE  /\ \A at \in Steps : Goto(t, at) => task' \in [Tasks -> TaskRecord]
         /\ task' = [task EXCEPT ![t] = Over(@)] => task' \in [Tasks -> TaskRecord]
         /\ task' = [task EXCEPT ![t] = AfterRun(@)] => task' \in [Tasks -> TaskRecord]
         /\ task' = [task EXCEPT ![t] = AfterAnnouncement(@)] => task' \in [Tasks -> TaskRecord]
<1>1. ASSUME NEW at \in Steps, Goto(t, at) PROVE task' \in [Tasks -> TaskRecord]
  <2>1. task' = [task EXCEPT ![t] = [task[t] EXCEPT !.at = at]]
    BY <1>1 DEF Goto
  <2>2. [task[t] EXCEPT !.at = at] \in TaskRecord
    BY TaskMoves, Zenon
  <2>. QED BY <2>1, <2>2, TaskPut
<1>2. /\ Over(task[t]) \in TaskRecord
      /\ AfterRun(task[t]) \in TaskRecord
      /\ AfterAnnouncement(task[t]) \in TaskRecord
  BY TaskEnds
<1>. QED BY <1>1, <1>2

\* Mark leaves the tasks as they are but for the status of a session.
LEMMA SessionMarked ==
  ASSUME task \in [Tasks -> TaskRecord], NEW n
  PROVE  [task EXCEPT ![n].training = FALSE] \in [Tasks -> TaskRecord]
<1>1. ASSUME NEW u \in Tasks PROVE [task[u] EXCEPT !.training = FALSE] \in TaskRecord
  BY TaskMoves
<1>. QED BY <1>1

LEMMA TasksKept == TypeOK /\ ModelsKnown /\ Next => task' \in [Tasks -> TaskRecord]
<1> SUFFICES ASSUME TypeOK, ModelsKnown, Next PROVE task' \in [Tasks -> TaskRecord]
  OBVIOUS
<1>0. task \in [Tasks -> TaskRecord]
  BY DEF TypeOK
<1>s. Steps = {"idle", "over", "mount", "fetch", "lock", "read", "decide", "announce", "up", "clear", "tell", "mark",
               "kill", "unmount", "forget", "finish", "down", "message", "pull", "adopt", "find", "start", "create",
               "train", "caught", "keep", "save", "broadcast", "reload", "load", "unlock"}
  BY DEF Steps, RunSteps
<1>1. ASSUME NEW t \in Tasks, Request(t) PROVE task' \in [Tasks -> TaskRecord]
  <2>1. PICK kind \in Kinds \ {"announce"} :
          task' = [task EXCEPT ![t] = [IdleTask EXCEPT !.kind = kind, !.at = FirstStep(kind),
                                         !.bot = IF kind \in {"train", "predict"} THEN current ELSE None]]
    BY <1>1 DEF Request
  <2>2. FirstStep(kind) \in Steps
    BY <1>s, <2>1 DEF FirstStep, Kinds
  <2>. QED BY <1>0, <2>1, <2>2, IdleIsTask DEF TaskRecord, TypeOK
<1>2. ASSUME NEW t \in Tasks, Throws(t) PROVE task' \in [Tasks -> TaskRecord]
  <2>1. Over([task[t] EXCEPT !.threw = TRUE]) \in TaskRecord
    BY <1>0, TaskMoves, TaskEnds
  <2>. QED BY <1>0, <1>2, <2>1, TaskPut DEF Throws
<1>3. ASSUME NEW t \in Tasks, Fetch(t) PROVE task' \in [Tasks -> TaskRecord]
  BY <1>0, <1>s, <1>3, TaskMoves DEF Fetch, TypeOK
<1>4. ASSUME NEW t \in Tasks, TakeLock(t) PROVE task' \in [Tasks -> TaskRecord]
  <2>1. Goto(t, "find") \/ task' = [task EXCEPT ![t] = AfterRun(@)]
    BY <1>4 DEF TakeLock
  <2>. QED BY <1>0, <1>s, <2>1, TaskGoes
<1>5. ASSUME NEW t \in Tasks, Find(t) PROVE task' \in [Tasks -> TaskRecord]
  <2> DEFINE m == IF Found(t) THEN task[t].version ELSE None
             at == IF FirstStatus(t) = "done" THEN "broadcast" ELSE "start"
  <2>1. task' = [task EXCEPT ![t] = [task[t] EXCEPT !.model = m, !.at = at]]
    BY <1>5 DEF Find
  <2>2. at \in Steps
    BY <1>s
  <2>3. m \in Versions \cup {None}
    BY <1>5 DEF Find, ModelsKnown
  <2> HIDE DEF m, at
  <2>4. [task[t] EXCEPT !.model = m, !.at = at] \in TaskRecord
    BY <1>0, <2>2, <2>3, TaskMoves, Zenon
  <2>. QED BY <1>0, <2>1, <2>4, TaskPut
<1>6. ASSUME NEW t \in Tasks, FindFails(t) PROVE task' \in [Tasks -> TaskRecord]
  <2>1. Over([task[t] EXCEPT !.threw = TRUE]) \in TaskRecord
    BY <1>0, TaskMoves, TaskEnds
  <2>. QED BY <1>0, <1>6, <2>1, TaskPut DEF FindFails
<1>7. ASSUME NEW t \in Tasks, Start(t) PROVE task' \in [Tasks -> TaskRecord]
  <2>1. Goto(t, "create") \/ Goto(t, "broadcast")
    BY <1>7 DEF Start
  <2>. QED BY <1>0, <1>s, <2>1, TaskGoes
<1>8. ASSUME NEW t \in Tasks, Created(t) PROVE task' \in [Tasks -> TaskRecord]
  BY <1>0, <1>s, <1>8, TaskGoes DEF Created
<1>9. ASSUME NEW t \in Tasks, Progress(t) PROVE task' \in [Tasks -> TaskRecord]
  <2>1. [task[t] EXCEPT !.training = TRUE, !.at = "train"] \in TaskRecord
    BY <1>0, <1>s, TaskMoves, Zenon
  <2>2. [task[t] EXCEPT !.training = TRUE] \in TaskRecord
    BY <1>0, TaskMoves, Zenon
  <2>3. \/ task' = [task EXCEPT ![t] = [task[t] EXCEPT !.training = TRUE, !.at = "train"]]
        \/ task' = [task EXCEPT ![t] = [task[t] EXCEPT !.training = TRUE]]
    BY <1>9 DEF Progress, Becomes
  <2>. QED BY <1>0, <2>1, <2>2, <2>3, TaskPut
<1>10. ASSUME NEW t \in Tasks, Trained(t) PROVE task' \in [Tasks -> TaskRecord]
  <2>1. task[t].version \in Versions \cup {None}
    BY <1>0 DEF TaskRecord
  <2>2. [task[t] EXCEPT !.training = FALSE, !.model = task[t].version, !.at = "keep"] \in TaskRecord
    BY <1>0, <1>s, <2>1, TaskMoves, Zenon
  <2>. QED BY <1>0, <1>10, <2>2, TaskPut DEF Trained
<1>11. ASSUME NEW t \in Tasks, TrainingFails(t) PROVE task' \in [Tasks -> TaskRecord]
  <2>1. CASE Goto(t, "caught")
    BY <1>0, <1>s, <2>1, TaskGoes
  <2>2. CASE task' = [task EXCEPT ![t].training = FALSE, ![t].model = task[t].version, ![t].at = "caught"]
    <3>1. task[t].version \in Versions \cup {None}
      BY <1>0 DEF TaskRecord
    <3>2. [task[t] EXCEPT !.training = FALSE, !.model = task[t].version, !.at = "caught"] \in TaskRecord
      BY <1>0, <1>s, <3>1, TaskMoves, Zenon
    <3>. QED BY <1>0, <2>2, <3>2, TaskPut
  <2>. QED BY <1>11, <2>1, <2>2 DEF TrainingFails
<1>12. ASSUME NEW t \in Tasks, Caught(t) PROVE task' \in [Tasks -> TaskRecord]
  <2>1. [task[t] EXCEPT !.training = FALSE, !.at = "broadcast"] \in TaskRecord
    BY <1>0, <1>s, TaskMoves, Zenon
  <2>. QED BY <1>0, <1>12, <2>1, TaskPut DEF Caught, Becomes
<1>13. ASSUME NEW t \in Tasks, CaughtFails(t) PROVE task' \in [Tasks -> TaskRecord]
  <2>1. Over([task[t] EXCEPT !.training = FALSE, !.threw = TRUE]) \in TaskRecord
    BY <1>0, TaskMoves, TaskEnds
  <2>. QED BY <1>0, <1>13, <2>1, TaskPut DEF CaughtFails
<1>14. ASSUME NEW t \in Tasks, Keep(t) PROVE task' \in [Tasks -> TaskRecord]
  BY <1>0, <1>s, <1>14, TaskGoes DEF Keep
<1>15. ASSUME NEW t \in Tasks, KeepFails(t) PROVE task' \in [Tasks -> TaskRecord]
  BY <1>0, <1>s, <1>15, TaskGoes DEF KeepFails
<1>16. ASSUME NEW t \in Tasks, Save(t) PROVE task' \in [Tasks -> TaskRecord]
  BY <1>0, <1>s, <1>16, TaskGoes DEF Save
<1>17. ASSUME NEW t \in Tasks, SaveFails(t) PROVE task' \in [Tasks -> TaskRecord]
  BY <1>0, <1>s, <1>17, TaskGoes DEF SaveFails
<1>18. ASSUME NEW t \in Tasks, Broadcast(t) PROVE task' \in [Tasks -> TaskRecord]
  <2>1. Goto(t, "reload") \/ Goto(t, "unlock")
    BY <1>18 DEF Broadcast
  <2>. QED BY <1>0, <1>s, <2>1, TaskGoes
<1>19. ASSUME NEW t \in Tasks, Reload(t) PROVE task' \in [Tasks -> TaskRecord]
  <2>1. Goto(t, "load") \/ Goto(t, "unlock")
    BY <1>19 DEF Reload
  <2>. QED BY <1>0, <1>s, <2>1, TaskGoes
<1>20. ASSUME NEW t \in Tasks, Load(t) PROVE task' \in [Tasks -> TaskRecord]
  BY <1>0, <1>s, <1>20, TaskGoes DEF Load
<1>21. ASSUME NEW t \in Tasks, LoadFails(t) PROVE task' \in [Tasks -> TaskRecord]
  BY <1>0, <1>s, <1>21, TaskMoves DEF LoadFails
<1>22. ASSUME NEW t \in Tasks, Release(t) PROVE task' \in [Tasks -> TaskRecord]
  BY <1>0, <1>s, <1>22, TaskGoes DEF Release
<1>23. ASSUME NEW t \in Tasks, ReleaseFails(t) PROVE task' \in [Tasks -> TaskRecord]
  <2>1. Over([task[t] EXCEPT !.threw = TRUE]) \in TaskRecord
    BY <1>0, TaskMoves, TaskEnds
  <2>. QED BY <1>0, <1>23, <2>1, TaskPut DEF ReleaseFails
<1>24. ASSUME NEW t \in Tasks, Read(t) PROVE task' \in [Tasks -> TaskRecord]
  BY <1>0, <1>s, <1>24, TaskMoves DEF Read, TypeOK
<1>25. ASSUME NEW t \in Tasks, Decide(t) PROVE task' \in [Tasks -> TaskRecord]
  <2>1. task' = [task EXCEPT ![t] = AfterAnnouncement(@)] \/ Goto(t, "announce")
    BY <1>25 DEF Decide, Goto
  <2>. QED BY <1>0, <1>s, <2>1, TaskGoes
<1>26. ASSUME NEW t \in Tasks, Announce(t) PROVE task' \in [Tasks -> TaskRecord]
  BY <1>0, <1>s, <1>26, TaskGoes DEF Announce
<1>27. ASSUME NEW t \in Tasks, Clear(t) PROVE task' \in [Tasks -> TaskRecord]
  BY <1>0, <1>s, <1>27, TaskGoes DEF Clear
<1>28. ASSUME NEW t \in Tasks, Tell(t) PROVE task' \in [Tasks -> TaskRecord]
  <2>1. CASE CancelSession(t)
    <3>1. current \in BotIds /\ bots[current].session \in Tasks \cup {None}
      BY <2>1 DEF CancelSession, InTraining, TypeOK
    <3>2. [task[t] EXCEPT !.at = "mark", !.bot = current, !.session = bots[current].session] \in TaskRecord
      BY <1>0, <1>s, <3>1, TaskMoves, Zenon
    <3>. QED BY <1>0, <2>1, <3>2, TaskPut DEF CancelSession
  <2>2. CASE task' = [task EXCEPT ![t] = Over(@)]
    BY <1>0, <2>2, TaskEnds
  <2>. QED BY <1>28, <2>1, <2>2 DEF Tell, Ends
<1>29. ASSUME NEW t \in Tasks, Mark(t) PROVE task' \in [Tasks -> TaskRecord]
  <2> DEFINE marked == [task EXCEPT ![task[t].session].training = FALSE]
  <2>1. marked \in [Tasks -> TaskRecord]
    BY <1>0, SessionMarked
  <2>2. task' = [marked EXCEPT ![t] = [marked[t] EXCEPT !.at = "kill"]]
    BY <1>29 DEF Mark
  <2> HIDE DEF marked
  <2>3. [marked[t] EXCEPT !.at = "kill"] \in TaskRecord
    BY <1>s, <2>1, TaskMoves, Zenon
  <2>. QED BY <2>1, <2>2, <2>3
<1>30. ASSUME NEW t \in Tasks, MarkFails(t) PROVE task' \in [Tasks -> TaskRecord]
  <2> DEFINE marked == [task EXCEPT ![task[t].session].training = FALSE]
  <2>1. marked \in [Tasks -> TaskRecord]
    BY <1>0, SessionMarked
  <2>2. task' = [marked EXCEPT ![t] = Over([marked[t] EXCEPT !.threw = TRUE])]
    BY <1>30 DEF MarkFails
  <2> HIDE DEF marked
  <2>3. Over([marked[t] EXCEPT !.threw = TRUE]) \in TaskRecord
    BY <2>1, TaskMoves, TaskEnds
  <2>. QED BY <2>1, <2>2, <2>3
<1>31. ASSUME NEW t \in Tasks, Kill(t) PROVE task' \in [Tasks -> TaskRecord]
  <2>1. PICK caught \in SUBSET {u \in Tasks : task[u].at = "train"} :
          task' = [[u \in Tasks |-> IF u \in caught THEN [task[u] EXCEPT !.at = "caught"] ELSE task[u]]
                     EXCEPT ![t] = AfterCancel(@)]
    BY <1>31 DEF Kill
  <2> DEFINE stopped == [u \in Tasks |-> IF u \in caught THEN [task[u] EXCEPT !.at = "caught"] ELSE task[u]]
  <2>2. stopped \in [Tasks -> TaskRecord]
    <3>1. ASSUME NEW u \in Tasks PROVE [task[u] EXCEPT !.at = "caught"] \in TaskRecord
      BY <1>0, <1>s, TaskMoves, Zenon
    <3>. QED BY <1>0, <3>1
  <2>3. task' = [stopped EXCEPT ![t] = AfterCancel(stopped[t])]
    BY <2>1
  <2> HIDE DEF stopped
  <2>4. AfterCancel(stopped[t]) \in TaskRecord
    BY <2>2, TaskEnds
  <2>. QED BY <2>2, <2>3, <2>4
<1>32. ASSUME NEW t \in Tasks, Mount(t) PROVE task' \in [Tasks -> TaskRecord]
  <2>1. t + 1 \in BotIds \cup {None}
    BY Constants
  <2>. QED BY <1>0, <1>s, <1>32, <2>1, TaskMoves DEF Mount
<1>33. ASSUME NEW t \in Tasks, Up(t) PROVE task' \in [Tasks -> TaskRecord]
  BY <1>0, <1>33, TaskGoes DEF Up, Ends
<1>34. ASSUME NEW t \in Tasks, Unmount(t) PROVE task' \in [Tasks -> TaskRecord]
  <2>1. CASE CancelSession(t)
    <3>1. current \in BotIds /\ bots[current].session \in Tasks \cup {None}
      BY <2>1 DEF CancelSession, InTraining, TypeOK
    <3>2. [task[t] EXCEPT !.at = "mark", !.bot = current, !.session = bots[current].session] \in TaskRecord
      BY <1>0, <1>s, <3>1, TaskMoves, Zenon
    <3>. QED BY <1>0, <2>1, <3>2, TaskPut DEF CancelSession
  <2>2. CASE task' = [task EXCEPT ![t].bot = current, ![t].at = IF current = None THEN "down" ELSE "finish"]
    <3>1. current \in BotIds \cup {None}
      BY DEF TypeOK
    <3>. QED BY <1>0, <1>s, <2>2, <3>1, TaskMoves
  <2>. QED BY <1>34, <2>1, <2>2 DEF Unmount
<1>35. ASSUME NEW t \in Tasks, Forget(t) PROVE task' \in [Tasks -> TaskRecord]
  BY <1>0, <1>s, <1>35, TaskGoes DEF Forget
<1>36. ASSUME NEW t \in Tasks, Finish(t) PROVE task' \in [Tasks -> TaskRecord]
  BY <1>0, <1>s, <1>36, TaskGoes DEF Finish
<1>37. ASSUME NEW t \in Tasks, Down(t) PROVE task' \in [Tasks -> TaskRecord]
  BY <1>0, <1>37, TaskGoes DEF Down, Ends
<1>38. ASSUME NEW t \in Tasks, Predict(t) PROVE task' \in [Tasks -> TaskRecord]
  <2> DEFINE wanted == IF bots[task[t].bot].model # None THEN bots[task[t].bot].model ELSE stored.newest
  <2>1. CASE Ends(t)
    BY <1>0, <2>1, TaskGoes DEF Ends
  <2>2. CASE task' = [task EXCEPT ![t].model = wanted, ![t].at = "pull"]
    <3>1. wanted \in Versions \cup {None}
      <4>1. bots[task[t].bot] \in [session : Tasks \cup {None}, model : Versions \cup {None}]
        BY <1>38 DEF TypeOK, ModelsKnown, Predict
      <4>2. stored.newest \in Versions \cup {None}
        BY DEF TypeOK
      <4>. QED BY <4>1, <4>2
    <3> HIDE DEF wanted
    <3>2. [task[t] EXCEPT !.model = wanted, !.at = "pull"] \in TaskRecord
      BY <1>0, <1>s, <3>1, TaskMoves, Zenon
    <3>3. task' = [task EXCEPT ![t] = [task[t] EXCEPT !.model = wanted, !.at = "pull"]]
      BY <2>2
    <3>. QED BY <1>0, <3>2, <3>3, TaskPut
  <2>. QED BY <1>38, <2>1, <2>2 DEF Predict
<1>39. ASSUME NEW t \in Tasks, Pull(t) PROVE task' \in [Tasks -> TaskRecord]
  <2>1. Goto(t, "adopt") \/ Ends(t)
    BY <1>39 DEF Pull
  <2>. QED BY <1>0, <1>s, <2>1, TaskGoes DEF Ends
<1>40. ASSUME NEW t \in Tasks, Adopt(t) PROVE task' \in [Tasks -> TaskRecord]
  BY <1>0, <1>40, TaskGoes DEF Adopt, Ends
<1>41. ASSUME NEW t \in Tasks, PredictFails(t) PROVE task' \in [Tasks -> TaskRecord]
  BY <1>0, <1>41, TaskGoes DEF PredictFails, Ends
<1>42. CASE Edit
  <2>1. CASE task' = task
    BY <1>0, <2>1
  <2>2. ASSUME NEW t \in Tasks, task' = [task EXCEPT ![t] = [IdleTask EXCEPT !.kind = "announce", !.at = "read"]]
        PROVE  task' \in [Tasks -> TaskRecord]
    <3>1. [IdleTask EXCEPT !.kind = "announce", !.at = "read"] \in TaskRecord
      BY <1>s, IdleIsTask DEF TaskRecord, Kinds
    <3>. QED BY <1>0, <2>2, <3>1
  <2>. QED BY <1>42, <2>1, <2>2 DEF Edit
<1>43. CASE Evict
  BY <1>0, <1>43 DEF Evict
<1>44. CASE Restart
  BY <1>0, <1>s, <1>44, IdleIsTask DEF Restart, TaskRecord
<1>45. CASE Expire
  BY <1>0, <1>45 DEF Expire
<1>. QED
  BY <1>1, <1>2, <1>3, <1>4, <1>5, <1>6, <1>7, <1>8, <1>9, <1>10, <1>11, <1>12, <1>13, <1>14, <1>15, <1>16, <1>17,
     <1>18, <1>19, <1>20, <1>21, <1>22, <1>23, <1>24, <1>25, <1>26, <1>27, <1>28, <1>29, <1>30, <1>31, <1>32, <1>33,
     <1>34, <1>35, <1>36, <1>37, <1>38, <1>39, <1>40, <1>41, <1>42, <1>43, <1>44, <1>45 DEF Next, Run

LEMMA LockTypes ==
  ASSUME LockTypeOK, NEW t \in Tasks,
         lock' = lock \/ lock' = Unlocked \/ lock' = [by |-> t, expired |-> FALSE]
  PROVE  LockTypeOK'
<1>1. Unlocked \in [by : Holders \cup {NoHolder}, expired : BOOLEAN]
  BY DEF Unlocked
<1>2. [by |-> t, expired |-> FALSE] \in [by : Holders \cup {NoHolder}, expired : BOOLEAN]
  BY Constants
<1>. QED BY <1>1, <1>2 DEF LockTypeOK

\* What With makes of the files.
LEMMA StoredWith ==
  ASSUME NEW m \in Versions, stored \in [newest : Versions \cup {None}, older : Versions \cup {None}]
  PROVE  /\ With(m) \in [newest : Versions \cup {None}, older : Versions \cup {None}]
         /\ With(m).newest = m
         /\ With(m).older \in {stored.newest, stored.older}
BY DEF With

LEMMA TypesKept == TypeOK /\ ModelsKnown /\ Next => TypeOK'
<1> SUFFICES ASSUME TypeOK, ModelsKnown, Next PROVE TypeOK'
  OBVIOUS
<1>0. task' \in [Tasks -> TaskRecord]
  BY TasksKept
<1> USE <1>0, Constants, LifecycleAssumption DEF TypeOK, LockTypeOK, service, engine, storage, None, NoHolder
<1>1. ASSUME NEW t \in Tasks, Request(t) PROVE TypeOK'
  BY <1>1 DEF Request, CrossingsIf, Crossings
<1>2. ASSUME NEW t \in Tasks, Throws(t) PROVE TypeOK'
  BY <1>2 DEF Throws, Mishap
<1>3. ASSUME NEW t \in Tasks, Fetch(t) PROVE TypeOK'
  BY <1>3 DEF Fetch
<1>4. ASSUME NEW t \in Tasks, TakeLock(t) PROVE TypeOK'
  <2>1. lock' = lock \/ lock' = [by |-> t, expired |-> FALSE]
    BY <1>4 DEF TakeLock, Acquire
  <2>2. LockTypeOK'
    BY <2>1, LockTypes
  <2>. QED BY <1>4, <2>2 DEF TakeLock
<1>5. ASSUME NEW t \in Tasks, Find(t) PROVE TypeOK'
  <2>1. bots' = [bots EXCEPT ![task[t].bot].session = t]
    BY <1>5 DEF Find
  <2>2. bots' \in [BotIds -> [session : Tasks \cup {None}, model : Versions \cup {None}]]
    BY <2>1, ZenonT(60)
  <2>3. row' \in Statuses
    BY <1>5 DEF Find, FirstStatus, Statuses
  <2>. QED BY <1>5, <2>2, <2>3 DEF Find
<1>6. ASSUME NEW t \in Tasks, FindFails(t) PROVE TypeOK'
  <2>1. bots' = [bots EXCEPT ![task[t].bot].session = t]
    BY <1>6 DEF FindFails
  <2>2. bots' \in [BotIds -> [session : Tasks \cup {None}, model : Versions \cup {None}]]
    BY <2>1, ZenonT(60)
  <2>. QED BY <1>6, <2>2 DEF FindFails, Mishap
<1>7. ASSUME NEW t \in Tasks, Start(t) PROVE TypeOK'
  BY <1>7 DEF Start
<1>8. ASSUME NEW t \in Tasks, Created(t) PROVE TypeOK'
  BY <1>8 DEF Created
<1>9. ASSUME NEW t \in Tasks, Progress(t) PROVE TypeOK'
  BY <1>9 DEF Progress, Becomes, Statuses, Mishap
<1>10. ASSUME NEW t \in Tasks, Trained(t) PROVE TypeOK'
  BY <1>10 DEF Trained, Statuses
<1>11. ASSUME NEW t \in Tasks, TrainingFails(t) PROVE TypeOK'
  <2>1. left' \in 0..MaxMishaps
    BY <1>11 DEF TrainingFails, Mishap
  <2>2. UNCHANGED <<service, loaded, storage, lock, crossings>> /\ active' = FALSE
    BY <1>11 DEF TrainingFails
  <2>. QED BY <2>1, <2>2
<1>12. ASSUME NEW t \in Tasks, Caught(t) PROVE TypeOK'
  BY <1>12 DEF Caught, Becomes, Statuses
<1>13. ASSUME NEW t \in Tasks, CaughtFails(t) PROVE TypeOK'
  BY <1>13 DEF CaughtFails, Mishap
<1>14. ASSUME NEW t \in Tasks, Keep(t) PROVE TypeOK'
  <2>1. task[t].model \in Versions
    BY <1>14 DEF Keep, ModelsKnown
  <2>2. bots' \in [BotIds -> [session : Tasks \cup {None}, model : Versions \cup {None}]]
    BY <1>14, <2>1, ZenonT(60) DEF Keep
  <2>. QED BY <1>14, <2>1, <2>2 DEF Keep
<1>15. ASSUME NEW t \in Tasks, KeepFails(t) PROVE TypeOK'
  <2>1. task[t].model \in Versions
    BY <1>15 DEF KeepFails, ModelsKnown
  <2>2. bots' \in [BotIds -> [session : Tasks \cup {None}, model : Versions \cup {None}]]
    BY <1>15, <2>1, ZenonT(60) DEF KeepFails
  <2>. QED BY <1>15, <2>2 DEF KeepFails, Mishap, Crossings
<1>16. ASSUME NEW t \in Tasks, Save(t) PROVE TypeOK'
  <2>1. task[t].model \in Versions
    BY <1>16 DEF Save, ModelsKnown
  <2>. QED BY <1>16, <2>1, StoredWith DEF Save
<1>17. ASSUME NEW t \in Tasks, SaveFails(t) PROVE TypeOK'
  <2>1. task[t].model \in Versions
    BY <1>17 DEF SaveFails, ModelsKnown
  <2>. QED BY <1>17, <2>1, StoredWith DEF SaveFails, Mishap, Crossings
<1>18. ASSUME NEW t \in Tasks, Broadcast(t) PROVE TypeOK'
  BY <1>18 DEF Broadcast
<1>19. ASSUME NEW t \in Tasks, Reload(t) PROVE TypeOK'
  <2>1. task[t].model \in Versions
    BY <1>19 DEF Reload, ModelsKnown
  <2>2. bots' \in [BotIds -> [session : Tasks \cup {None}, model : Versions \cup {None}]]
    BY <1>19, <2>1 DEF Reload
  <2>. QED BY <1>19, <2>2 DEF Reload
<1>20. ASSUME NEW t \in Tasks, Load(t) PROVE TypeOK'
  BY <1>20 DEF Load, ModelsKnown
<1>21. ASSUME NEW t \in Tasks, LoadFails(t) PROVE TypeOK'
  BY <1>21 DEF LoadFails, Mishap
<1>22. ASSUME NEW t \in Tasks, Release(t) PROVE TypeOK'
  BY <1>22 DEF Release, Unlock, Unlocked
<1>23. ASSUME NEW t \in Tasks, ReleaseFails(t) PROVE TypeOK'
  <2>1. lock' = lock \/ lock' = Unlocked
    BY <1>23 DEF ReleaseFails
  <2>2. LockTypeOK'
    BY <2>1, LockTypes
  <2>. QED BY <1>23, <2>2 DEF ReleaseFails, Mishap
<1>24. ASSUME NEW t \in Tasks, Read(t) PROVE TypeOK'
  BY <1>24 DEF Read
<1>25. ASSUME NEW t \in Tasks, Decide(t) PROVE TypeOK'
  BY <1>25 DEF Decide, CrossingsIf, Crossings
<1>26. ASSUME NEW t \in Tasks, Announce(t) PROVE TypeOK'
  BY <1>26 DEF Announce, Statuses
<1>27. ASSUME NEW t \in Tasks, Clear(t) PROVE TypeOK'
  BY <1>27 DEF Clear, ClearLock, Unlocked, CrossingsIf, Crossings
<1>28. ASSUME NEW t \in Tasks, Tell(t) PROVE TypeOK'
  <2>1. lock' = lock \/ lock' = Unlocked
    BY <1>28 DEF Tell, CancelSession, Unlock
  <2>2. LockTypeOK'
    BY <2>1, LockTypes
  <2>3. crossings' \subseteq Crossings
    BY <1>28 DEF Tell, CancelSession, CrossingsIf, Crossings
  <2>. QED BY <1>28, <2>2, <2>3 DEF Tell
<1>29. ASSUME NEW t \in Tasks, Mark(t) PROVE TypeOK'
  BY <1>29 DEF Mark, Statuses
<1>30. ASSUME NEW t \in Tasks, MarkFails(t) PROVE TypeOK'
  BY <1>30 DEF MarkFails, Mishap
<1>31. ASSUME NEW t \in Tasks, Kill(t) PROVE TypeOK'
  BY <1>31 DEF Kill
<1>32. ASSUME NEW t \in Tasks, Mount(t) PROVE TypeOK'
  BY <1>32 DEF Mount
<1>33. ASSUME NEW t \in Tasks, Up(t) PROVE TypeOK'
  BY <1>33 DEF Up
<1>34. ASSUME NEW t \in Tasks, Unmount(t) PROVE TypeOK'
  <2>1. lock' = lock \/ lock' = Unlocked
    BY <1>34 DEF Unmount, CancelSession, Unlock
  <2>2. LockTypeOK'
    BY <2>1, LockTypes
  <2>3. crossings' \subseteq Crossings
    BY <1>34 DEF Unmount, CancelSession, CrossingsIf, Crossings
  <2>. QED BY <1>34, <2>2, <2>3 DEF Unmount
<1>35. ASSUME NEW t \in Tasks, Forget(t) PROVE TypeOK'
  BY <1>35 DEF Forget, Statuses
<1>36. ASSUME NEW t \in Tasks, Finish(t) PROVE TypeOK'
  BY <1>36 DEF Finish, CrossingsIf, Crossings
<1>37. ASSUME NEW t \in Tasks, Down(t) PROVE TypeOK'
  BY <1>37 DEF Down
<1>38. ASSUME NEW t \in Tasks, Predict(t) PROVE TypeOK'
  BY <1>38 DEF Predict
<1>39. ASSUME NEW t \in Tasks, Pull(t) PROVE TypeOK'
  BY <1>39 DEF Pull
<1>40. ASSUME NEW t \in Tasks, Adopt(t) PROVE TypeOK'
  <2>1. task[t].model \in Versions
    BY <1>40 DEF Adopt, ModelsKnown
  <2>2. bots' \in [BotIds -> [session : Tasks \cup {None}, model : Versions \cup {None}]]
    BY <1>40, <2>1, ZenonT(60) DEF Adopt
  <2>3. crossings' \subseteq Crossings
    BY <1>40 DEF Adopt, CrossingsIf, Crossings
  <2>. QED BY <1>40, <2>1, <2>2, <2>3 DEF Adopt, Mishap
<1>41. ASSUME NEW t \in Tasks, PredictFails(t) PROVE TypeOK'
  BY <1>41 DEF PredictFails, Mishap
<1>42. CASE Edit
  BY <1>42 DEF Edit, CrossingsIf, Crossings
<1>43. CASE Evict
  BY <1>43 DEF Evict, Mishap
<1>44. CASE Restart
  <2>1. bots' \in [BotIds -> [session : Tasks \cup {None}, model : Versions \cup {None}]]
    BY <1>44 DEF Restart, Fresh
  <2>2. left' \in 0..MaxMishaps /\ LockTypeOK'
    BY <1>44 DEF Restart, Unlocked, Mishap
  <2>3. /\ UNCHANGED <<defs, stored, row, crossings>> /\ mounted' = FALSE /\ current' = None
        /\ active' = FALSE /\ loaded' = {}
    BY <1>44 DEF Restart
  <2>. QED BY <2>1, <2>2, <2>3
<1>45. CASE Expire
  BY <1>45 DEF Expire, ExpireLock, CrossingsIf, Crossings
<1>. QED
  BY <1>1, <1>2, <1>3, <1>4, <1>5, <1>6, <1>7, <1>8, <1>9, <1>10, <1>11, <1>12, <1>13, <1>14, <1>15, <1>16, <1>17,
     <1>18, <1>19, <1>20, <1>21, <1>22, <1>23, <1>24, <1>25, <1>26, <1>27, <1>28, <1>29, <1>30, <1>31, <1>32, <1>33,
     <1>34, <1>35, <1>36, <1>37, <1>38, <1>39, <1>40, <1>41, <1>42, <1>43, <1>44, <1>45 DEF Next, Run

-----------------------------------------------------------------------------
(* The facts about the lock. *)

\* Mark changes no more than whether a session is in training.
LEMMA MarkedAlike ==
  ASSUME task \in [Tasks -> TaskRecord], NEW n
  PROVE  LET marked == [task EXCEPT ![n].training = FALSE] IN
         /\ marked \in [Tasks -> TaskRecord]
         /\ \A u \in Tasks : /\ marked[u].at = task[u].at /\ marked[u].version = task[u].version
                            /\ marked[u].model = task[u].model /\ marked[u].threw = task[u].threw
                            /\ marked[u].bot = task[u].bot /\ marked[u].kind = task[u].kind
BY SessionMarked DEF TaskRecord

LEMMA FactsKept == LockInv /\ Next => (ModelsKnown /\ LockLeftOnlyByThrow /\ RunsHoldTheLock /\ CancelsTakeTheLock)'
<1> DEFINE Facts == ModelsKnown /\ LockLeftOnlyByThrow /\ RunsHoldTheLock /\ CancelsTakeTheLock
<1> SUFFICES ASSUME LockInv, Next PROVE Facts'
  OBVIOUS
<1> USE Constants DEF LockInv, TypeOK, LockTypeOK, TaskRecord, ModelsKnown, LockLeftOnlyByThrow, RunsHoldTheLock,
    CancelsTakeTheLock, InRun, RunSteps, service, engine, storage, None, NoHolder
<1>1. ASSUME NEW t \in Tasks, Request(t) PROVE Facts'
  BY <1>1 DEF Request, IdleTask, FirstStep, First, NextTask, CrossingsIf, Kinds
<1>2. ASSUME NEW t \in Tasks, Throws(t) PROVE Facts'
  BY <1>2 DEF Throws, Over, IdleTask
<1>3. ASSUME NEW t \in Tasks, Fetch(t) PROVE Facts'
  BY <1>3 DEF Fetch
<1>4. ASSUME NEW t \in Tasks, TakeLock(t) PROVE Facts'
  <2>1. CASE MayAcquire
    <3>1. /\ lock' = [by |-> t, expired |-> FALSE] /\ task' = [task EXCEPT ![t].at = "find"]
          /\ task[t].at = "lock" /\ crossings' = crossings
      BY <1>4, <2>1 DEF TakeLock, Acquire, Goto
    <3>2. \A u \in Tasks \ {t} : InRun(u) => "lock" \in crossings
      BY <2>1 DEF MayAcquire
    <3>3. InRun(t)' /\ lock'.by = t
      BY <3>1
    <3>4. ModelsKnown'
      BY <3>1
    <3>5. LockLeftOnlyByThrow'
      BY <3>3
    <3>6. RunsHoldTheLock'
      BY <3>1, <3>2
    <3>7. CancelsTakeTheLock'
      BY <3>1
    <3>. QED BY <3>4, <3>5, <3>6, <3>7
  <2>2. CASE ~ MayAcquire
    <3>1. UNCHANGED <<lock, crossings>> /\ task[t].at = "lock" /\ task' = [task EXCEPT ![t] = AfterRun(task[t])]
      BY <1>4, <2>2 DEF TakeLock
    <3>2. AfterRun(task[t]).at \in {"read", "over"} /\ lock.by # t
      BY <3>1 DEF AfterRun, Over, IdleTask
    <3>. QED BY <3>1, <3>2
  <2>. QED BY <2>1, <2>2
<1>5. ASSUME NEW t \in Tasks, Find(t) PROVE Facts'
  <2>1. /\ task[t].at = "find" /\ InRun(t)' /\ UNCHANGED <<lock, crossings>>
        /\ task'[t].at \in {"broadcast", "start"} /\ task'[t].version = task[t].version
        /\ \A u \in Tasks \ {t} : task'[u] = task[u]
    BY <1>5 DEF Find
  <2>2. ModelsKnown'
    BY <2>1
  <2>3. LockLeftOnlyByThrow' /\ RunsHoldTheLock' /\ CancelsTakeTheLock'
    BY <2>1
  <2>. QED BY <2>2, <2>3
<1>6. ASSUME NEW t \in Tasks, FindFails(t) PROVE Facts'
  BY <1>6 DEF FindFails, Over, IdleTask
<1>7. ASSUME NEW t \in Tasks, Start(t) PROVE Facts'
  <2>1. task' = [task EXCEPT ![t].at = "create"] \/ task' = [task EXCEPT ![t].at = "broadcast"]
    BY <1>7 DEF Start, Goto
  <2>2. task[t].at = "start" /\ UNCHANGED <<lock, crossings>>
    BY <1>7 DEF Start
  <2>3. CASE task' = [task EXCEPT ![t].at = "create"]
    BY <2>2, <2>3
  <2>4. CASE task' = [task EXCEPT ![t].at = "broadcast"]
    BY <2>2, <2>4
  <2>. QED BY <2>1, <2>3, <2>4
<1>8. ASSUME NEW t \in Tasks, Created(t) PROVE Facts'
  BY <1>8 DEF Created, Goto
<1>9. ASSUME NEW t \in Tasks, Progress(t) PROVE Facts'
  BY <1>9 DEF Progress, Becomes
<1>10. ASSUME NEW t \in Tasks, Trained(t) PROVE Facts'
  BY <1>10 DEF Trained
<1>11. ASSUME NEW t \in Tasks, TrainingFails(t) PROVE Facts'
  <2>1. /\ task[t].at = "train" /\ InRun(t)' /\ UNCHANGED <<lock, crossings>>
        /\ task'[t].at = "caught" /\ \A u \in Tasks \ {t} : task'[u] = task[u]
    BY <1>11 DEF TrainingFails, Goto
  <2>2. ModelsKnown'
    BY <2>1
  <2>3. LockLeftOnlyByThrow' /\ RunsHoldTheLock' /\ CancelsTakeTheLock'
    BY <2>1
  <2>. QED BY <2>2, <2>3
<1>12. ASSUME NEW t \in Tasks, Caught(t) PROVE Facts'
  BY <1>12 DEF Caught, Becomes
<1>13. ASSUME NEW t \in Tasks, CaughtFails(t) PROVE Facts'
  BY <1>13 DEF CaughtFails, Over, IdleTask
<1>14. ASSUME NEW t \in Tasks, Keep(t) PROVE Facts'
  BY <1>14 DEF Keep, Goto
<1>15. ASSUME NEW t \in Tasks, KeepFails(t) PROVE Facts'
  BY <1>15 DEF KeepFails, Goto
<1>16. ASSUME NEW t \in Tasks, Save(t) PROVE Facts'
  BY <1>16 DEF Save, Goto
<1>17. ASSUME NEW t \in Tasks, SaveFails(t) PROVE Facts'
  BY <1>17 DEF SaveFails, Goto
<1>18. ASSUME NEW t \in Tasks, Broadcast(t) PROVE Facts'
  <2>1. CASE task[t].model # None /\ current # None
    <3>1. task' = [task EXCEPT ![t].at = "reload"]
      BY <1>18, <2>1 DEF Broadcast, Goto
    <3>. QED BY <1>18, <2>1, <3>1 DEF Broadcast
  <2>2. CASE ~ (task[t].model # None /\ current # None)
    <3>1. task' = [task EXCEPT ![t].at = "unlock"]
      BY <1>18, <2>2 DEF Broadcast, Goto
    <3>. QED BY <1>18, <3>1 DEF Broadcast
  <2>. QED BY <2>1, <2>2
<1>19. ASSUME NEW t \in Tasks, Reload(t) PROVE Facts'
  <2>1. task' = [task EXCEPT ![t].at = "load"] \/ task' = [task EXCEPT ![t].at = "unlock"]
    BY <1>19 DEF Reload, Goto
  <2>2. CASE task' = [task EXCEPT ![t].at = "load"]
    BY <1>19, <2>2 DEF Reload
  <2>3. CASE task' = [task EXCEPT ![t].at = "unlock"]
    BY <1>19, <2>3 DEF Reload
  <2>. QED BY <2>1, <2>2, <2>3
<1>20. ASSUME NEW t \in Tasks, Load(t) PROVE Facts'
  BY <1>20 DEF Load, Goto
<1>21. ASSUME NEW t \in Tasks, LoadFails(t) PROVE Facts'
  BY <1>21 DEF LoadFails
<1>22. ASSUME NEW t \in Tasks, Release(t) PROVE Facts'
  BY <1>22 DEF Release, Unlock, Unlocked, AfterRun, Over, IdleTask
<1>23. ASSUME NEW t \in Tasks, ReleaseFails(t) PROVE Facts'
  BY <1>23 DEF ReleaseFails, Unlocked, Over, IdleTask
<1>24. ASSUME NEW t \in Tasks, Read(t) PROVE Facts'
  BY <1>24 DEF Read
<1>25. ASSUME NEW t \in Tasks, Decide(t) PROVE Facts'
  BY <1>25 DEF Decide, AfterAnnouncement, CrossingsIf, Over, IdleTask
<1>26. ASSUME NEW t \in Tasks, Announce(t) PROVE Facts'
  BY <1>26 DEF Announce, AfterAnnouncement, Over, IdleTask
<1>27. ASSUME NEW t \in Tasks, Clear(t) PROVE Facts'
  BY <1>27 DEF Clear, ClearLock, Unlocked, CrossingsIf, Goto
<1>28. ASSUME NEW t \in Tasks, Tell(t) PROVE Facts'
  <2>1. CASE CancelSession(t)
    BY <1>28, <2>1 DEF Tell, CancelSession, Unlock, Unlocked, CrossingsIf
  <2>2. CASE Ends(t) /\ UNCHANGED <<lock, crossings>>
    BY <1>28, <2>2 DEF Tell, Ends, Over, IdleTask
  <2>. QED BY <1>28, <2>1, <2>2 DEF Tell
<1>29. ASSUME NEW t \in Tasks, Mark(t) PROVE Facts'
  <2> DEFINE marked == [task EXCEPT ![task[t].session].training = FALSE]
  <2>1. /\ marked \in [Tasks -> TaskRecord]
        /\ \A u \in Tasks : /\ marked[u].at = task[u].at /\ marked[u].version = task[u].version
                           /\ marked[u].model = task[u].model /\ marked[u].threw = task[u].threw
                           /\ marked[u].bot = task[u].bot
    BY MarkedAlike
  <2>2. task[t].at = "mark" /\ task' = [marked EXCEPT ![t].at = "kill"] /\ UNCHANGED <<lock, crossings>>
    BY <1>29 DEF Mark
  <2>. HIDE DEF marked
  <2>. QED BY <2>1, <2>2
<1>30. ASSUME NEW t \in Tasks, MarkFails(t) PROVE Facts'
  <2> DEFINE marked == [task EXCEPT ![task[t].session].training = FALSE]
  <2>1. /\ marked \in [Tasks -> TaskRecord]
        /\ \A u \in Tasks : /\ marked[u].at = task[u].at /\ marked[u].version = task[u].version
                           /\ marked[u].model = task[u].model /\ marked[u].threw = task[u].threw
                           /\ marked[u].bot = task[u].bot
    BY MarkedAlike
  <2>2. /\ task[t].at = "mark" /\ task' = [marked EXCEPT ![t] = Over([marked[t] EXCEPT !.threw = TRUE])]
        /\ UNCHANGED <<lock, crossings>>
    BY <1>30 DEF MarkFails
  <2>. HIDE DEF marked
  <2>3. task'[t].at = "over" /\ \A u \in Tasks \ {t} : task'[u] = marked[u]
    BY <2>1, <2>2 DEF Over, IdleTask
  <2>4. ModelsKnown'
    BY <2>1, <2>3
  <2>5. LockLeftOnlyByThrow'
    BY <2>1, <2>2, <2>3
  <2>6. RunsHoldTheLock' /\ CancelsTakeTheLock'
    BY <2>1, <2>2, <2>3
  <2>. QED BY <2>4, <2>5, <2>6
<1>31. ASSUME NEW t \in Tasks, Kill(t) PROVE Facts'
  <2>1. PICK caught \in SUBSET {u \in Tasks : task[u].at = "train"} :
          task' = [[u \in Tasks |-> IF u \in caught THEN [task[u] EXCEPT !.at = "caught"] ELSE task[u]]
                     EXCEPT ![t] = AfterCancel(@)]
    BY <1>31 DEF Kill
  <2>2. task[t].at = "kill" /\ UNCHANGED <<lock, crossings>>
    BY <1>31 DEF Kill
  <2>3. task'[t].at \in {"forget", "over"}
    BY <2>1, <2>2 DEF AfterCancel, Over, IdleTask
  <2>4. ASSUME NEW u \in Tasks \ {t}
        PROVE  /\ task'[u].version = task[u].version /\ task'[u].model = task[u].model
               /\ task'[u].bot = task[u].bot /\ task'[u].threw = task[u].threw
               /\ task'[u].at = task[u].at \/ (task[u].at = "train" /\ task'[u].at = "caught")
    BY <2>1
  <2>5. \A u \in Tasks \ {t} : (InRun(u)' <=> InRun(u)) /\ task'[u].threw = task[u].threw
    BY <2>4
  <2>6. ModelsKnown'
    BY <2>3, <2>4
  <2>7. LockLeftOnlyByThrow' /\ RunsHoldTheLock' /\ CancelsTakeTheLock'
    BY <2>2, <2>3, <2>4, <2>5
  <2>. QED BY <2>6, <2>7
<1>32. ASSUME NEW t \in Tasks, Mount(t) PROVE Facts'
  BY <1>32 DEF Mount
<1>33. ASSUME NEW t \in Tasks, Up(t) PROVE Facts'
  BY <1>33 DEF Up, Ends, Over, IdleTask
<1>34. ASSUME NEW t \in Tasks, Unmount(t) PROVE Facts'
  BY <1>34, SMTT(30) DEF Unmount, CancelSession, Unlock, Unlocked, CrossingsIf
<1>35. ASSUME NEW t \in Tasks, Forget(t) PROVE Facts'
  BY <1>35 DEF Forget, Goto
<1>36. ASSUME NEW t \in Tasks, Finish(t) PROVE Facts'
  BY <1>36 DEF Finish, CrossingsIf, Goto
<1>37. ASSUME NEW t \in Tasks, Down(t) PROVE Facts'
  BY <1>37 DEF Down, Ends, Over, IdleTask
<1>38. ASSUME NEW t \in Tasks, Predict(t) PROVE Facts'
  <2>1. task[t].at = "message" /\ UNCHANGED <<lock, crossings>>
    BY <1>38 DEF Predict
  <2>2. task'[t].at = "over" \/ (task'[t].at = "pull" /\ task'[t].model \in Versions)
    <3>. DEFINE wanted == IF bots[task[t].bot].model # None THEN bots[task[t].bot].model ELSE stored.newest
    <3>1. bots[task[t].bot] \in [session : Tasks \cup {None}, model : Versions \cup {None}]
      BY <2>1
    <3>2. stored.newest \in Versions \cup {None}
      OBVIOUS
    <3>3. wanted \in Versions \cup {None}
      BY <3>1, <3>2
    <3>4. \/ Ends(t)
          \/ wanted # None /\ task' = [task EXCEPT ![t].model = wanted, ![t].at = "pull"]
      BY <1>38 DEF Predict
    <3>. HIDE DEF wanted
    <3>5. CASE Ends(t)
      BY <3>5 DEF Ends, Over, IdleTask
    <3>6. CASE wanted # None /\ task' = [task EXCEPT ![t].model = wanted, ![t].at = "pull"]
      BY <3>3, <3>6
    <3>. QED BY <3>4, <3>5, <3>6
  <2>3. \A u \in Tasks \ {t} : task'[u] = task[u]
    BY <1>38 DEF Predict, Ends
  <2>. QED BY <2>1, <2>2, <2>3
<1>39. ASSUME NEW t \in Tasks, Pull(t) PROVE Facts'
  <2>1. CASE task[t].model \in Files
    BY <1>39, <2>1 DEF Pull, Goto
  <2>2. CASE task[t].model \notin Files
    <3>1. Ends(t) /\ task[t].at = "pull" /\ UNCHANGED <<lock, crossings>>
      BY <1>39, <2>2 DEF Pull
    <3>. QED BY <3>1 DEF Ends, Over, IdleTask
  <2>. QED BY <2>1, <2>2
<1>40. ASSUME NEW t \in Tasks, Adopt(t) PROVE Facts'
  BY <1>40 DEF Adopt, CrossingsIf, Ends, Over, IdleTask
<1>41. ASSUME NEW t \in Tasks, PredictFails(t) PROVE Facts'
  BY <1>41 DEF PredictFails, Ends, Over, IdleTask
<1>42. CASE Edit
  <2>1. CASE task' = task
    BY <1>42, <2>1 DEF Edit, CrossingsIf
  <2>2. ASSUME NEW t \in Tasks, NextTask(t),
               task' = [task EXCEPT ![t] = [IdleTask EXCEPT !.kind = "announce", !.at = "read"]]
        PROVE  Facts'
    BY <1>42, <2>2 DEF Edit, IdleTask, NextTask, CrossingsIf
  <2>. QED BY <1>42, <2>1, <2>2 DEF Edit
<1>43. CASE Evict
  BY <1>43 DEF Evict
<1>44. CASE Restart
  BY <1>44 DEF Restart, Unlocked, Fresh, Live, IdleTask
<1>45. CASE Expire
  BY <1>45 DEF Expire, ExpireLock, CrossingsIf
<1>. QED
  BY <1>1, <1>2, <1>3, <1>4, <1>5, <1>6, <1>7, <1>8, <1>9, <1>10, <1>11, <1>12, <1>13, <1>14, <1>15, <1>16, <1>17,
     <1>18, <1>19, <1>20, <1>21, <1>22, <1>23, <1>24, <1>25, <1>26, <1>27, <1>28, <1>29, <1>30, <1>31, <1>32, <1>33,
     <1>34, <1>35, <1>36, <1>37, <1>38, <1>39, <1>40, <1>41, <1>42, <1>43, <1>44, <1>45 DEF Next, Run

-----------------------------------------------------------------------------
LEMMA InitLockInv == Init => LockInv
<1>1. Init => TypeOK
  <2> SUFFICES ASSUME Init PROVE TypeOK
    OBVIOUS
  <2>1. bots \in [BotIds -> [session : Tasks \cup {None}, model : Versions \cup {None}]]
    BY DEF Init, Fresh
  <2>2. loaded \subseteq Versions /\ row \in Statuses
    BY DEF Init, Statuses
  <2>3. LockTypeOK /\ task \in [Tasks -> TaskRecord] /\ left \in 0..MaxMishaps
    BY Constants, IdleIsTask DEF Init, LockTypeOK, Unlocked, NoHolder
  <2>. QED BY Constants, <2>1, <2>2, <2>3 DEF Init, TypeOK
<1>2. Init => ModelsKnown /\ LockLeftOnlyByThrow /\ RunsHoldTheLock /\ CancelsTakeTheLock
  BY DEF Init, ModelsKnown, LockLeftOnlyByThrow, RunsHoldTheLock, CancelsTakeTheLock, InRun, RunSteps, Unlocked, IdleTask
<1>. QED BY <1>1, <1>2 DEF LockInv

LEMMA Unmoved == LockInv /\ UNCHANGED vars => LockInv'
<1> SUFFICES ASSUME LockInv, UNCHANGED vars PROVE LockInv'
  OBVIOUS
<1>. QED
  BY DEF vars, service, engine, storage, LockInv, TypeOK, LockTypeOK, ModelsKnown, LockLeftOnlyByThrow, RunsHoldTheLock,
     CancelsTakeTheLock, InRun

\* The lock of a training (trainOrLoad, cancelTraining): every run under way has
\* it as long as none has expired or been cleared, and only a run that threw leaves
\* it behind.
THEOREM LockInvariance == Spec => []LockInv
<1>1. LockInv /\ [Next]_vars => LockInv'
  BY TypesKept, FactsKept, Unmoved DEF LockInv
<1>. QED BY InitLockInv, <1>1, PTL DEF Spec

-----------------------------------------------------------------------------
(* What a task may be doing. *)

Moving == {"mount", "unmount"}
TrainOrLoad == RunSteps \cup {"fetch", "lock"}
Announcing == {"read", "decide", "announce"}

KindFits(r) ==
  /\ r.at \in TrainOrLoad => r.kind \in {"train", "mount"}
  /\ r.at \in {"mount", "up"} => r.kind = "mount"
  /\ r.at \in {"unmount", "forget", "finish", "down"} => r.kind = "unmount"
  /\ r.at \in Announcing => r.kind \in {"mount", "announce"}
  /\ r.at \in {"clear", "tell"} => r.kind = "cancel"
  /\ r.at \in {"mark", "kill"} => r.kind \in {"cancel", "unmount"}
  /\ r.at \in {"message", "pull", "adopt"} => r.kind = "predict"
  /\ r.at \in {"mount", "fetch"} => r.model = None
  /\ r.threw => r.at \in {"over", "unlock"}

KindsKnown == \A t \in Tasks : KindFits(task[t])

\* The engine has an entry only as long as a run waits for a training.
EngineTrains == active => \E t \in Tasks : task[t].at = "train"

\* The bot state that a mount will make is new.
MountsFresh ==
  \A t \in Tasks :
    task[t].at \in {"idle", "mount"} =>
      /\ bots[t + 1].model = None
      /\ current # t + 1
      /\ \A u \in Tasks : task[u].bot # t + 1

TasksInv == KindsKnown /\ EngineTrains /\ MountsFresh

-----------------------------------------------------------------------------
(* Mounts and unmounts that do not overlap. *)

OneMoves ==
  \A t, u \in Tasks :
    Live(t) /\ Live(u) /\ {task[t].kind, task[u].kind} \subseteq Moving => t = u

MovesSound ==
  \A t \in Tasks :
    /\ Live(t) /\ task[t].kind = "mount" => ~ mounted /\ (task[t].at # "mount" => current = t + 1)
    /\ Live(t) /\ task[t].kind = "unmount" =>
         /\ mounted
         /\ task[t].at \in {"mark", "kill", "forget", "finish"} => task[t].bot = current
         /\ task[t].at = "down" => current = None

HasState ==
  /\ mounted /\ current = None => \E t \in Tasks : task[t].at = "down"
  /\ ~ mounted /\ current # None =>
       \E t \in Tasks : Live(t) /\ task[t].kind = "mount" /\ task[t].at # "mount"

MountsInv == "mounts" \notin crossings => OneMoves /\ MovesSound /\ HasState

-----------------------------------------------------------------------------
(* The files. *)

\* A model that is served is in a file, or it will be: a run is about to save it, or
\* to have the newest one served in its place.
Replaces(t) ==
  \/ task[t].at = "save" /\ task[t].bot = current /\ task[t].model = bots[current].model
  \/ task[t].at \in {"broadcast", "reload"} /\ task[t].model = stored.newest /\ task[t].model # None
ServedKept == current # None => bots[current].model \in Files \cup {None} \/ \E t \in Tasks : Replaces(t)
FilesInv == crossings \cap {"message", "unsaved"} = {} => ServedKept

-----------------------------------------------------------------------------
(* The status. *)

Busy == {"training", "training-pending"}

\* The status of a training that is under way will be written again: by a run that
\* trains, or is about to find out whether it does; or it is left from before a
\* restart, and the bot is not up before a run has written it.
Writers == {"find", "start", "create", "train", "caught"}
NotWritten(r) ==
  /\ r.at \notin {"keep", "save", "broadcast", "reload", "load", "unlock", "up"}
  /\ r.kind = "mount" => r.at \notin Announcing
Rewritten ==
  row \in Busy =>
    \/ \E t \in Tasks : task[t].at \in Writers
    \/ ~ mounted /\ \A t \in Tasks : NotWritten(task[t])

-----------------------------------------------------------------------------
(* The status done. *)

Undisturbed == crossings \subseteq {"lock", "unsaved"} /\ ~ Disabled

\* A run is of the bot state of the moment, for the definitions of the moment.
RunFits(t) ==
  /\ task[t].at \in TrainOrLoad => current # None /\ task[t].bot = current
  /\ task[t].at \in TrainOrLoad \ {"fetch"} => task[t].version = defs /\ task[t].model \in {None, defs}

\* The status done is that of what is served, or it is about to be: a run will
\* serve the model; or the status will be written again, by a mount or by the
\* announcement of an edit.
Settles(t) ==
  \/ task[t].at = "keep"
  \/ task[t].at \in {"broadcast", "reload"} /\ task[t].model = defs /\ defs \in Files
  \/ task[t].kind = "mount" /\ task[t].at \in TrainOrLoad
  \/ task[t].at \in {"read", "announce"}
  \/ task[t].at = "decide" /\ task[t].version = defs
DoneSound == row = "done" => current = None \/ Serves(defs) \/ \E t \in Tasks : Settles(t)

DoneInv == Undisturbed => (\A t \in Tasks : RunFits(t)) /\ DoneSound

\* Nothing is claimed once a step has thrown, as long as the server does not stop.
LifeInv == LockInv /\ TasksInv /\ (~ Threw => MountsInv /\ FilesInv /\ Rewritten /\ DoneInv)

-----------------------------------------------------------------------------
(* What the steps do to the tasks, and to the rest.  The session of a task,   *)
(* and whether it is in training, do not matter to the invariants above.      *)

Same(r, q) ==
  /\ r.kind = q.kind /\ r.at = q.at /\ r.bot = q.bot
  /\ r.version = q.version /\ r.model = q.model /\ r.threw = q.threw

Others(t) == \A u \in Tasks \ {t} : Same(task'[u], task[u])

Turns(t, at, bot, version, model) ==
  /\ Others(t)
  /\ task'[t].kind = task[t].kind /\ task'[t].threw = task[t].threw
  /\ task'[t].at = at /\ task'[t].bot = bot
  /\ task'[t].version = version /\ task'[t].model = model

StepsTo(t, at) == Turns(t, at, task[t].bot, task[t].version, task[t].model)
Stopped(t, threw) ==
  /\ task'[t].kind = "train" /\ task'[t].threw = threw /\ task'[t].at = "over"
  /\ task'[t].bot = None /\ task'[t].version = None /\ task'[t].model = None
Stops(t, threw) == Others(t) /\ Stopped(t, threw)

\* A run ends, an announcement ends, a training is thrown out of the engine.
RunEnds(t) == IF task[t].kind = "mount" /\ ~ task[t].threw THEN StepsTo(t, "read") ELSE Stops(t, task[t].threw)
AnnouncementEnds(t) == IF task[t].kind = "mount" THEN StepsTo(t, "up") ELSE Stops(t, task[t].threw)
TurnsCaught(u) ==
  /\ task[u].at = "train" /\ task'[u].at = "caught"
  /\ task'[u].kind = task[u].kind /\ task'[u].threw = task[u].threw /\ task'[u].bot = task[u].bot
  /\ task'[u].version = task[u].version /\ task'[u].model = task[u].model

\* The bot states serve what they did; or one serves another model.
BotsKeep == \A b \in BotIds : bots'[b].model = bots[b].model
BotGets(c, m) == \A b \in BotIds : bots'[b].model = IF b = c THEN m ELSE bots[b].model

LEMMA Tasked ==
  ASSUME TypeOK
  PROVE  /\ task \in [Tasks -> TaskRecord]
         /\ \A t \in Tasks : task[t] \in TaskRecord
BY DEF TypeOK

LEMMA Puts ==
  ASSUME task \in [Tasks -> TaskRecord], NEW t \in Tasks, NEW r, task' = [task EXCEPT ![t] = r]
  PROVE  Others(t) /\ task'[t] = r
BY DEF Others, Same

LEMMA BotsKept ==
  ASSUME TypeOK
  PROVE  /\ bots' = bots => BotsKeep
         /\ \A b : bots' = [bots EXCEPT ![b].session = bots'[b].session] => BotsKeep
         /\ \A b, m : bots' = [bots EXCEPT ![b].model = m] => BotGets(b, m)
BY DEF TypeOK, BotsKeep, BotGets

LEMMA Moves ==
  ASSUME task \in [Tasks -> TaskRecord], NEW t \in Tasks
  PROVE  /\ \A at : Goto(t, at) => StepsTo(t, at)
         /\ task' = [task EXCEPT ![t] = Over(@)] => Stops(t, task[t].threw)
         /\ Ends(t) => Stops(t, task[t].threw)
         /\ task' = [task EXCEPT ![t] = Over([@ EXCEPT !.threw = TRUE])] => Stops(t, TRUE)
         /\ task' = [task EXCEPT ![t] = AfterRun(@)] => RunEnds(t)
         /\ task' = [task EXCEPT ![t] = AfterAnnouncement(@)] => AnnouncementEnds(t)
<1>0. task[t] \in TaskRecord
  OBVIOUS
<1>1. ASSUME NEW at, Goto(t, at) PROVE StepsTo(t, at)
  <2>1. task' = [task EXCEPT ![t] = [task[t] EXCEPT !.at = at]]
    BY <1>1 DEF Goto
  <2>. QED BY <1>0, <2>1, Puts DEF StepsTo, Turns, TaskRecord
<1>2. ASSUME task' = [task EXCEPT ![t] = Over(@)] PROVE Stops(t, task[t].threw)
  <2>1. Others(t) /\ task'[t] = Over(task[t])
    BY <1>2, Puts
  <2>. QED BY <1>0, <2>1 DEF Stops, Stopped, Over, IdleTask, TaskRecord
<1>3. ASSUME task' = [task EXCEPT ![t] = Over([@ EXCEPT !.threw = TRUE])] PROVE Stops(t, TRUE)
  <2>1. Others(t) /\ task'[t] = Over([task[t] EXCEPT !.threw = TRUE])
    BY <1>3, Puts
  <2>. QED BY <1>0, <2>1 DEF Stops, Stopped, Over, IdleTask, TaskRecord
<1>4. ASSUME task' = [task EXCEPT ![t] = AfterRun(@)] PROVE RunEnds(t)
  <2>1. CASE task[t].kind = "mount" /\ ~ task[t].threw
    <3>1. task' = [task EXCEPT ![t] = [task[t] EXCEPT !.at = "read"]]
      BY <1>4, <2>1 DEF AfterRun
    <3>. QED BY <1>0, <2>1, <3>1, Puts DEF RunEnds, StepsTo, Turns, TaskRecord
  <2>2. CASE ~ (task[t].kind = "mount" /\ ~ task[t].threw)
    <3>1. task' = [task EXCEPT ![t] = Over(task[t])]
      BY <1>4, <2>2 DEF AfterRun
    <3>. QED BY <1>2, <2>2, <3>1 DEF RunEnds
  <2>. QED BY <2>1, <2>2
<1>5. ASSUME task' = [task EXCEPT ![t] = AfterAnnouncement(@)] PROVE AnnouncementEnds(t)
  <2>1. CASE task[t].kind = "mount"
    <3>1. task' = [task EXCEPT ![t] = [task[t] EXCEPT !.at = "up"]]
      BY <1>5, <2>1 DEF AfterAnnouncement
    <3>. QED BY <1>0, <2>1, <3>1, Puts DEF AnnouncementEnds, StepsTo, Turns, TaskRecord
  <2>2. CASE task[t].kind # "mount"
    <3>1. task' = [task EXCEPT ![t] = Over(task[t])]
      BY <1>5, <2>2 DEF AfterAnnouncement
    <3>. QED BY <1>2, <2>2, <3>1 DEF AnnouncementEnds
  <2>. QED BY <2>1, <2>2
<1>. QED BY <1>1, <1>2, <1>3, <1>4, <1>5 DEF Ends

LEMMA ThrowsDoes ==
  ASSUME TypeOK, NEW t \in Tasks, Throws(t)
  PROVE  /\ task[t].at \in {"fetch", "lock", "find", "read", "decide", "announce", "clear", "tell", "mount", "up",
                            "unmount", "forget", "down"}
         /\ Stops(t, TRUE) /\ BotsKeep
         /\ UNCHANGED <<current, active>>
BY Tasked, Moves, BotsKept DEF Throws, service, engine, storage

LEMMA FetchDoes ==
  ASSUME TypeOK, NEW t \in Tasks, Fetch(t)
  PROVE  /\ task[t].at = "fetch"
         /\ Turns(t, "lock", task[t].bot, defs, task[t].model)
         /\ BotsKeep
         /\ UNCHANGED <<mounted, current, active, defs, stored, row, crossings>>
<1> DEFINE r == [task[t] EXCEPT !.at = "lock", !.version = defs]
<1>1. task' = [task EXCEPT ![t] = r]
  BY DEF Fetch
<1>2. r.kind = task[t].kind /\ r.threw = task[t].threw /\ r.at = "lock" /\ r.bot = task[t].bot
  BY Tasked DEF TaskRecord
<1>3. r.version = defs /\ r.model = task[t].model
  BY Tasked DEF TaskRecord
<1> HIDE DEF r
<1>4. Turns(t, "lock", task[t].bot, defs, task[t].model)
  BY <1>1, <1>2, <1>3, Tasked, Puts DEF Turns, StepsTo
<1>. QED BY <1>4, BotsKept DEF Fetch, service, engine, storage

LEMMA TakeLockDoes ==
  ASSUME TypeOK, NEW t \in Tasks, TakeLock(t)
  PROVE  /\ task[t].at = "lock"
         /\ StepsTo(t, "find") \/ (~ MayAcquire /\ RunEnds(t))
         /\ BotsKeep
         /\ UNCHANGED <<mounted, current, active, defs, stored, row, crossings>>
<1>1. CASE MayAcquire
  BY <1>1, Tasked, Moves, BotsKept DEF TakeLock, service, engine, storage
<1>2. CASE ~ MayAcquire
  BY <1>2, Tasked, Moves, BotsKept DEF TakeLock, service, engine, storage
<1>. QED BY <1>1, <1>2

LEMMA FindDoes ==
  ASSUME TypeOK, NEW t \in Tasks, Find(t)
  PROVE  /\ task[t].at = "find"
         /\ LET v == task[t].version IN
            \/ /\ v \in Files /\ row' = "done"
               /\ Turns(t, "broadcast", task[t].bot, v, v)
            \/ /\ v \notin Files /\ ~ Trains(t) /\ row' = "done"
               /\ Turns(t, "broadcast", task[t].bot, v, None)
            \/ /\ v \notin Files /\ Trains(t) /\ row' = "training-pending"
               /\ Turns(t, "start", task[t].bot, v, None)
         /\ BotsKeep
         /\ UNCHANGED <<mounted, current, active, defs, stored, crossings>>
<1> DEFINE v == task[t].version
           r == [task[t] EXCEPT !.model = IF Found(t) THEN v ELSE None,
                                !.at = IF FirstStatus(t) = "done" THEN "broadcast" ELSE "start"]
<1>1. task' = [task EXCEPT ![t] = r] /\ row' = FirstStatus(t)
  BY DEF Find
<1>2. Others(t) /\ task'[t] = r
  BY <1>1, Tasked, Puts
<1>3. /\ r.at = IF FirstStatus(t) = "done" THEN "broadcast" ELSE "start"
      /\ r.model = IF Found(t) THEN v ELSE None
      /\ r.kind = task[t].kind /\ r.bot = task[t].bot /\ r.version = v /\ r.threw = task[t].threw
  BY Tasked DEF TaskRecord
<1> HIDE DEF r
<1>4. BotsKeep
  BY DEF Find, TypeOK, BotsKeep
<1>. QED BY <1>1, <1>2, <1>3, <1>4 DEF Find, Found, FirstStatus, Turns, engine

LEMMA FindFailsDoes ==
  ASSUME TypeOK, NEW t \in Tasks, FindFails(t)
  PROVE  /\ task[t].at = "find"
         /\ Stops(t, TRUE) /\ BotsKeep
         /\ UNCHANGED <<current, active>>
<1>1. BotsKeep
  BY DEF FindFails, TypeOK, BotsKeep
<1>. QED BY <1>1, Tasked, Moves DEF FindFails, service, engine, storage

LEMMA StartDoes ==
  ASSUME TypeOK, NEW t \in Tasks, Start(t)
  PROVE  /\ task[t].at = "start"
         /\ (active /\ StepsTo(t, "broadcast")) \/ (~ active /\ StepsTo(t, "create"))
         /\ BotsKeep
         /\ UNCHANGED <<mounted, current, active, defs, stored, row, crossings>>
<1>1. CASE active
  BY <1>1, Tasked, Moves, BotsKept DEF Start, service, engine, storage
<1>2. CASE ~ active
  BY <1>2, Tasked, Moves, BotsKept DEF Start, service, engine, storage
<1>. QED BY <1>1, <1>2

LEMMA CreatedDoes ==
  ASSUME TypeOK, NEW t \in Tasks, Created(t)
  PROVE  /\ task[t].at = "create"
         /\ StepsTo(t, "train")
         /\ BotsKeep
         /\ UNCHANGED <<mounted, current, defs, stored, row, crossings>>
BY Tasked, Moves, BotsKept DEF Created, service, engine, storage

LEMMA ProgressDoes ==
  ASSUME TypeOK, NEW t \in Tasks, Progress(t)
  PROVE  /\ task[t].at = "train"
         /\ StepsTo(t, "train") /\ BotsKeep
         /\ row' \in {row, "training"}
         /\ UNCHANGED <<mounted, current, active, defs, stored, crossings>>
<1>1. task[t].at = "train"
  BY DEF Progress
<1>2. PICK r : task' = [task EXCEPT ![t] = r] /\ (r = [task[t] EXCEPT !.training = TRUE, !.at = "train"]
                                                \/ r = [task[t] EXCEPT !.training = TRUE])
  BY DEF Progress, Becomes
<1>3. /\ r.kind = task[t].kind /\ r.threw = task[t].threw /\ r.at = "train" /\ r.bot = task[t].bot
      /\ r.version = task[t].version /\ r.model = task[t].model
  BY <1>1, <1>2, Tasked DEF TaskRecord
<1>4. StepsTo(t, "train")
  BY <1>2, <1>3, Tasked, Puts DEF Turns, StepsTo
<1>. QED BY <1>1, <1>4, BotsKept DEF Progress, Becomes, service, engine, storage

LEMMA TrainedDoes ==
  ASSUME TypeOK, NEW t \in Tasks, Trained(t)
  PROVE  /\ task[t].at = "train"
         /\ Turns(t, "keep", task[t].bot, task[t].version, task[t].version)
         /\ BotsKeep
         /\ active' = FALSE /\ row' = "done"
         /\ UNCHANGED <<mounted, current, defs, stored, crossings>>
<1> DEFINE r == [task[t] EXCEPT !.training = FALSE, !.model = task[t].version, !.at = "keep"]
<1>1. task' = [task EXCEPT ![t] = r]
  BY DEF Trained
<1>2. r.kind = task[t].kind /\ r.threw = task[t].threw /\ r.at = "keep" /\ r.bot = task[t].bot
  BY Tasked DEF TaskRecord
<1>3. r.version = task[t].version /\ r.model = task[t].version
  BY Tasked DEF TaskRecord
<1> HIDE DEF r
<1>4. Turns(t, "keep", task[t].bot, task[t].version, task[t].version)
  BY <1>1, <1>2, <1>3, Tasked, Puts DEF Turns, StepsTo
<1>. QED BY <1>4, BotsKept DEF Trained, service, engine, storage

LEMMA TrainingFailsDoes ==
  ASSUME TypeOK, NEW t \in Tasks, TrainingFails(t)
  PROVE  /\ task[t].at = "train"
         /\ StepsTo(t, "caught") \/ Turns(t, "caught", task[t].bot, task[t].version, task[t].version)
         /\ BotsKeep
         /\ active' = FALSE
         /\ UNCHANGED <<mounted, current, defs, stored, row, crossings>>
<1>1. CASE Goto(t, "caught")
  BY <1>1, Tasked, Moves, BotsKept DEF TrainingFails, service, storage
<1>2. CASE task' = [task EXCEPT ![t].training = FALSE, ![t].model = task[t].version, ![t].at = "caught"]
  <2> DEFINE r == [task[t] EXCEPT !.training = FALSE, !.model = task[t].version, !.at = "caught"]
  <2>1. task' = [task EXCEPT ![t] = r]
    BY <1>2
  <2>2. /\ r.kind = task[t].kind /\ r.threw = task[t].threw /\ r.at = "caught" /\ r.bot = task[t].bot
        /\ r.version = task[t].version /\ r.model = task[t].version
    BY Tasked DEF TaskRecord
  <2> HIDE DEF r
  <2>3. Turns(t, "caught", task[t].bot, task[t].version, task[t].version)
    BY <2>1, <2>2, Tasked, Puts DEF Turns
  <2>. QED BY <2>3, BotsKept DEF TrainingFails, service, storage
<1>. QED BY <1>1, <1>2 DEF TrainingFails

LEMMA CaughtDoes ==
  ASSUME TypeOK, NEW t \in Tasks, Caught(t)
  PROVE  /\ task[t].at = "caught"
         /\ StepsTo(t, "broadcast")
         /\ BotsKeep
         /\ row' = "needs-training"
         /\ UNCHANGED <<mounted, current, active, defs, stored, crossings>>
<1> DEFINE r == [task[t] EXCEPT !.training = FALSE, !.at = "broadcast"]
<1>1. task' = [task EXCEPT ![t] = r]
  BY DEF Caught, Becomes
<1>2. r.kind = task[t].kind /\ r.threw = task[t].threw /\ r.at = "broadcast" /\ r.bot = task[t].bot
  BY Tasked DEF TaskRecord
<1>3. r.version = task[t].version /\ r.model = task[t].model
  BY Tasked DEF TaskRecord
<1> HIDE DEF r
<1>4. StepsTo(t, "broadcast")
  BY <1>1, <1>2, <1>3, Tasked, Puts DEF Turns, StepsTo
<1>. QED BY <1>4, BotsKept DEF Caught, Becomes, service, engine, storage

LEMMA CaughtFailsDoes ==
  ASSUME TypeOK, NEW t \in Tasks, CaughtFails(t)
  PROVE  /\ task[t].at = "caught"
         /\ Stops(t, TRUE) /\ BotsKeep
         /\ UNCHANGED <<current, active>>
<1>1. task' = [task EXCEPT ![t] = Over([task[t] EXCEPT !.training = FALSE, !.threw = TRUE])]
  BY DEF CaughtFails
<1>2. Stops(t, TRUE)
  BY <1>1, Tasked, Puts DEF Stops, Stopped, Over, IdleTask, TaskRecord
<1>. QED BY <1>2, BotsKept DEF CaughtFails, service, engine, storage

LEMMA KeepDoes ==
  ASSUME TypeOK, NEW t \in Tasks, Keep(t)
  PROVE  /\ task[t].at = "keep"
         /\ StepsTo(t, "save")
         /\ BotGets(task[t].bot, task[t].model)
         /\ UNCHANGED <<mounted, current, active, defs, stored, row, crossings>>
BY Tasked, Moves, BotsKept DEF Keep, service, engine, storage

LEMMA KeepFailsDoes ==
  ASSUME TypeOK, NEW t \in Tasks, KeepFails(t)
  PROVE  /\ task[t].at = "keep"
         /\ StepsTo(t, "caught")
         /\ BotGets(task[t].bot, task[t].model)
         /\ crossings' = crossings \cup {"unsaved"}
         /\ UNCHANGED <<mounted, current, active, defs, stored, row>>
BY Tasked, Moves, BotsKept DEF KeepFails, service, engine, storage

LEMMA SaveDoes ==
  ASSUME TypeOK, NEW t \in Tasks, Save(t)
  PROVE  /\ task[t].at = "save"
         /\ StepsTo(t, "broadcast")
         /\ BotsKeep
         /\ stored' = With(task[t].model)
         /\ UNCHANGED <<mounted, current, active, defs, row, crossings>>
BY Tasked, Moves, BotsKept DEF Save, service, engine, storage

LEMMA SaveFailsDoes ==
  ASSUME TypeOK, NEW t \in Tasks, SaveFails(t)
  PROVE  /\ task[t].at = "save"
         /\ StepsTo(t, "caught")
         /\ BotsKeep
         /\ stored' \in {stored, With(task[t].model)}
         /\ crossings' = crossings \cup {"unsaved"}
         /\ UNCHANGED <<mounted, current, active, defs, row>>
BY Tasked, Moves, BotsKept DEF SaveFails, service, engine, storage

LEMMA BroadcastDoes ==
  ASSUME TypeOK, NEW t \in Tasks, Broadcast(t)
  PROVE  /\ task[t].at = "broadcast"
         /\ \/ task[t].model # None /\ current # None /\ StepsTo(t, "reload")
            \/ (task[t].model = None \/ current = None) /\ StepsTo(t, "unlock")
         /\ BotsKeep
         /\ UNCHANGED <<mounted, current, active, defs, stored, row, crossings>>
BY Tasked, Moves, BotsKept DEF Broadcast, service, engine, storage

LEMMA ReloadDoes ==
  ASSUME TypeOK, NEW t \in Tasks, Reload(t)
  PROVE  /\ task[t].at = "reload"
         /\ \/ /\ task[t].model \in Files /\ current # None /\ StepsTo(t, "load")
               /\ BotGets(current, task[t].model)
            \/ /\ task[t].model \notin Files \/ current = None
               /\ BotsKeep /\ StepsTo(t, "unlock")
         /\ UNCHANGED <<mounted, current, active, defs, stored, row, crossings>>
BY Tasked, Moves, BotsKept DEF Reload, service, engine, storage

LEMMA LoadDoes ==
  ASSUME TypeOK, NEW t \in Tasks, Load(t)
  PROVE  /\ task[t].at = "load"
         /\ StepsTo(t, "unlock")
         /\ BotsKeep
         /\ UNCHANGED <<mounted, current, active, defs, stored, row, crossings>>
BY Tasked, Moves, BotsKept DEF Load, service, engine, storage

LEMMA LoadFailsDoes ==
  ASSUME TypeOK, NEW t \in Tasks, LoadFails(t)
  PROVE  /\ task[t].at \in {"reload", "load"}
         /\ Others(t) /\ BotsKeep
         /\ task'[t].kind = task[t].kind /\ task'[t].threw = TRUE
         /\ task'[t].at = "unlock" /\ task'[t].bot = task[t].bot
         /\ UNCHANGED <<current, active>>
<1>1. task' = [task EXCEPT ![t] = [task[t] EXCEPT !.threw = TRUE, !.at = "unlock"]]
  BY DEF LoadFails
<1>2. Others(t) /\ task'[t] = [task[t] EXCEPT !.threw = TRUE, !.at = "unlock"]
  BY <1>1, Tasked, Puts
<1>. QED BY <1>2, Tasked, BotsKept DEF LoadFails, TaskRecord, service, engine, storage

LEMMA ReleaseDoes ==
  ASSUME TypeOK, NEW t \in Tasks, Release(t)
  PROVE  /\ task[t].at = "unlock"
         /\ RunEnds(t)
         /\ BotsKeep
         /\ UNCHANGED <<mounted, current, active, defs, stored, row, crossings>>
BY Tasked, Moves, BotsKept DEF Release, service, engine, storage

LEMMA ReleaseFailsDoes ==
  ASSUME TypeOK, NEW t \in Tasks, ReleaseFails(t)
  PROVE  /\ task[t].at = "unlock"
         /\ Stops(t, TRUE) /\ BotsKeep
         /\ UNCHANGED <<current, active>>
BY Tasked, Moves, BotsKept DEF ReleaseFails, service, engine, storage

LEMMA ReadDoes ==
  ASSUME TypeOK, NEW t \in Tasks, Read(t)
  PROVE  /\ task[t].at = "read"
         /\ Turns(t, "decide", task[t].bot, defs, task[t].model)
         /\ BotsKeep
         /\ UNCHANGED <<mounted, current, active, defs, stored, row, crossings>>
<1> DEFINE r == [task[t] EXCEPT !.at = "decide", !.version = defs]
<1>1. task' = [task EXCEPT ![t] = r]
  BY DEF Read
<1>2. r.kind = task[t].kind /\ r.threw = task[t].threw /\ r.at = "decide" /\ r.bot = task[t].bot
  BY Tasked DEF TaskRecord
<1>3. r.version = defs /\ r.model = task[t].model
  BY Tasked DEF TaskRecord
<1> HIDE DEF r
<1>4. Turns(t, "decide", task[t].bot, defs, task[t].model)
  BY <1>1, <1>2, <1>3, Tasked, Puts DEF Turns, StepsTo
<1>. QED BY <1>4, BotsKept DEF Read, service, engine, storage

LEMMA DecideDoes ==
  ASSUME TypeOK, NEW t \in Tasks, Decide(t)
  PROVE  /\ task[t].at = "decide"
         /\ \/ row = "training" /\ AnnouncementEnds(t)
            \/ (Serves(task[t].version) \/ "silent" \in crossings')
               /\ AnnouncementEnds(t)
            \/ StepsTo(t, "announce")
         /\ BotsKeep
         /\ crossings' \in {crossings, crossings \cup {"silent"}}
         /\ UNCHANGED <<mounted, current, active, defs, stored, row>>
<1>1. CASE row = "training" \/ task[t].version \in loaded
  <2>1. task' = [task EXCEPT ![t] = AfterAnnouncement(@)]
    BY <1>1 DEF Decide
  <2>. QED BY <1>1, <2>1, Tasked, Moves, BotsKept DEF Decide, CrossingsIf, service, engine, storage
<1>2. CASE ~ (row = "training" \/ task[t].version \in loaded)
  <2>1. Goto(t, "announce")
    BY <1>2 DEF Decide, Goto
  <2>. QED BY <1>2, <2>1, Tasked, Moves, BotsKept DEF Decide, CrossingsIf, service, engine, storage
<1>. QED BY <1>1, <1>2

LEMMA AnnounceDoes ==
  ASSUME TypeOK, NEW t \in Tasks, Announce(t)
  PROVE  /\ task[t].at = "announce"
         /\ AnnouncementEnds(t)
         /\ BotsKeep
         /\ row' = "needs-training"
         /\ UNCHANGED <<mounted, current, active, defs, stored, crossings>>
BY Tasked, Moves, BotsKept DEF Announce, service, engine, storage

LEMMA ClearDoes ==
  ASSUME TypeOK, NEW t \in Tasks, Clear(t)
  PROVE  /\ task[t].at = "clear"
         /\ StepsTo(t, "tell")
         /\ BotsKeep
         /\ crossings' = crossings \cup {"lock"}
         /\ UNCHANGED <<mounted, current, active, defs, stored, row>>
BY Tasked, Moves, BotsKept DEF Clear, CrossingsIf, service, engine, storage

LEMMA CancelSessionDoes ==
  ASSUME TypeOK, NEW t \in Tasks, CancelSession(t)
  PROVE  /\ current # None
         /\ Turns(t, "mark", current, task[t].version, task[t].model)
         /\ crossings' = crossings \cup {"lock"}
<1> DEFINE r == [task[t] EXCEPT !.at = "mark", !.bot = current, !.session = bots[current].session]
<1>1. task' = [task EXCEPT ![t] = r]
  BY DEF CancelSession
<1>2. Others(t) /\ task'[t] = r
  BY <1>1, Tasked, Puts
<1>3. /\ r.kind = task[t].kind /\ r.threw = task[t].threw /\ r.at = "mark" /\ r.bot = current
      /\ r.version = task[t].version /\ r.model = task[t].model
  BY Tasked DEF TaskRecord
<1> HIDE DEF r
<1>. QED BY <1>2, <1>3 DEF Turns, CancelSession, InTraining, CrossingsIf

LEMMA TellDoes ==
  ASSUME TypeOK, NEW t \in Tasks, Tell(t)
  PROVE  /\ task[t].at = "tell"
         /\ Turns(t, "mark", current, task[t].version, task[t].model) \/ Stops(t, task[t].threw)
         /\ BotsKeep
         /\ crossings' \in {crossings, crossings \cup {"lock"}}
         /\ UNCHANGED <<mounted, current, active, defs, stored, row>>
<1>1. UNCHANGED <<mounted, current, bots, active, defs, stored, row>> /\ task[t].at = "tell"
  BY DEF Tell, service, engine, storage
<1>2. CASE CancelSession(t)
  BY <1>1, <1>2, CancelSessionDoes, BotsKept
<1>3. CASE Ends(t) /\ UNCHANGED <<lock, crossings>>
  BY <1>1, <1>3, Tasked, Moves, BotsKept
<1>. QED BY <1>2, <1>3 DEF Tell

LEMMA MarkDoes ==
  ASSUME TypeOK, NEW t \in Tasks, Mark(t)
  PROVE  /\ task[t].at = "mark"
         /\ StepsTo(t, "kill") /\ BotsKeep
         /\ row' = "canceled"
         /\ UNCHANGED <<mounted, current, active, defs, stored, crossings>>
<1> DEFINE marked == [task EXCEPT ![task[t].session].training = FALSE]
<1>1. /\ marked \in [Tasks -> TaskRecord]
      /\ \A u \in Tasks : Same(marked[u], task[u])
  BY MarkedAlike, Tasked DEF Same
<1>2. task' = [marked EXCEPT ![t] = [marked[t] EXCEPT !.at = "kill"]]
  BY DEF Mark
<1> HIDE DEF marked
<1>3. task'[t] = [marked[t] EXCEPT !.at = "kill"] /\ \A u \in Tasks \ {t} : task'[u] = marked[u]
  BY <1>1, <1>2
<1>4. marked[t] \in TaskRecord
  BY <1>1
<1>5. StepsTo(t, "kill")
  BY <1>1, <1>3, <1>4 DEF StepsTo, Turns, Others, Same, TaskRecord
<1>. QED BY <1>5, BotsKept DEF Mark, service, engine, storage

LEMMA MarkFailsDoes ==
  ASSUME TypeOK, NEW t \in Tasks, MarkFails(t)
  PROVE  /\ task[t].at = "mark"
         /\ Stops(t, TRUE) /\ BotsKeep
         /\ UNCHANGED <<current, active>>
<1> DEFINE marked == [task EXCEPT ![task[t].session].training = FALSE]
<1>1. /\ marked \in [Tasks -> TaskRecord]
      /\ \A u \in Tasks : Same(marked[u], task[u])
  BY MarkedAlike, Tasked DEF Same
<1>2. task' = [marked EXCEPT ![t] = Over([marked[t] EXCEPT !.threw = TRUE])]
  BY DEF MarkFails
<1> HIDE DEF marked
<1>3. task'[t] = Over([marked[t] EXCEPT !.threw = TRUE]) /\ \A u \in Tasks \ {t} : task'[u] = marked[u]
  BY <1>1, <1>2
<1>4. marked[t] \in TaskRecord
  BY <1>1
<1>5. Stops(t, TRUE)
  BY <1>1, <1>3, <1>4 DEF Stops, Stopped, Others, Same, Over, IdleTask, TaskRecord
<1>. QED BY <1>5, BotsKept DEF MarkFails, service, engine, storage

LEMMA KillDoes ==
  ASSUME TypeOK, NEW t \in Tasks, Kill(t)
  PROVE  /\ task[t].at = "kill"
         /\ \A u \in Tasks \ {t} : Same(task'[u], task[u]) \/ TurnsCaught(u)
         /\ \/ /\ task[t].kind = "unmount" /\ task'[t].kind = "unmount" /\ task'[t].at = "forget"
               /\ task'[t].bot = task[t].bot /\ task'[t].threw = task[t].threw
            \/ task[t].kind # "unmount" /\ Stopped(t, task[t].threw)
         /\ BotsKeep
         /\ active' = FALSE
         /\ UNCHANGED <<mounted, current, defs, stored, row, crossings>>
<1>1. PICK caught \in SUBSET {u \in Tasks : task[u].at = "train"} :
        task' = [[u \in Tasks |-> IF u \in caught THEN [task[u] EXCEPT !.at = "caught"] ELSE task[u]]
                   EXCEPT ![t] = AfterCancel(@)]
  BY DEF Kill
<1>2. task[t].at = "kill" /\ task[t] \in TaskRecord
  BY Tasked DEF Kill
<1>3. t \notin caught
  BY <1>2
<1>4. task'[t] = AfterCancel(task[t])
  BY <1>1, <1>3, Tasked
<1>5. ASSUME NEW u \in Tasks \ {t} PROVE Same(task'[u], task[u]) \/ TurnsCaught(u)
  <2>1. CASE u \in caught
    <3>1. task'[u] = [task[u] EXCEPT !.at = "caught"] /\ task[u].at = "train" /\ task[u] \in TaskRecord
      BY <1>1, <2>1, Tasked
    <3>. QED BY <3>1 DEF TurnsCaught, TaskRecord
  <2>2. CASE u \notin caught
    BY <1>1, <2>2, Tasked DEF Same
  <2>. QED BY <2>1, <2>2
<1>6. \/ /\ task[t].kind = "unmount" /\ task'[t].kind = "unmount" /\ task'[t].at = "forget"
         /\ task'[t].bot = task[t].bot /\ task'[t].threw = task[t].threw
      \/ task[t].kind # "unmount" /\ Stopped(t, task[t].threw)
  BY <1>2, <1>4 DEF AfterCancel, Over, IdleTask, TaskRecord, Stopped
<1>7. BotsKeep /\ active' = FALSE /\ UNCHANGED <<mounted, current, defs, stored, row, crossings>>
  BY BotsKept DEF Kill, service, engine, storage
<1>. QED BY <1>2, <1>5, <1>6, <1>7

LEMMA MountDoes ==
  ASSUME TypeOK, NEW t \in Tasks, Mount(t)
  PROVE  /\ task[t].at = "mount"
         /\ Turns(t, "fetch", t + 1, task[t].version, task[t].model)
         /\ BotsKeep
         /\ current' = t + 1
         /\ UNCHANGED <<mounted, active, defs, stored, row, crossings>>
<1> DEFINE r == [task[t] EXCEPT !.at = "fetch", !.bot = t + 1]
<1>1. task' = [task EXCEPT ![t] = r]
  BY DEF Mount
<1>2. r.kind = task[t].kind /\ r.threw = task[t].threw /\ r.at = "fetch" /\ r.bot = t + 1
  BY Tasked DEF TaskRecord
<1>3. r.version = task[t].version /\ r.model = task[t].model
  BY Tasked DEF TaskRecord
<1> HIDE DEF r
<1>4. Turns(t, "fetch", t + 1, task[t].version, task[t].model)
  BY <1>1, <1>2, <1>3, Tasked, Puts DEF Turns, StepsTo
<1>. QED BY <1>4, BotsKept DEF Mount, service, engine, storage

LEMMA UpDoes ==
  ASSUME TypeOK, NEW t \in Tasks, Up(t)
  PROVE  /\ task[t].at = "up"
         /\ Stops(t, task[t].threw)
         /\ BotsKeep
         /\ mounted' = TRUE
         /\ UNCHANGED <<current, active, defs, stored, row, crossings>>
BY Tasked, Moves, BotsKept DEF Up, service, engine, storage

LEMMA UnmountDoes ==
  ASSUME TypeOK, NEW t \in Tasks, Unmount(t)
  PROVE  /\ task[t].at = "unmount"
         /\ \/ Turns(t, "mark", current, task[t].version, task[t].model)
            \/ /\ current = None
               /\ Turns(t, "down", current, task[t].version, task[t].model)
            \/ /\ current # None
               /\ Turns(t, "finish", current, task[t].version, task[t].model)
         /\ BotsKeep
         /\ crossings' \in {crossings, crossings \cup {"lock"}}
         /\ UNCHANGED <<mounted, current, active, defs, stored, row>>
<1>1. UNCHANGED <<mounted, current, bots, active, defs, stored, row>> /\ task[t].at = "unmount"
  BY DEF Unmount, service, engine, storage
<1>2. CASE CancelSession(t)
  BY <1>1, <1>2, CancelSessionDoes, BotsKept
<1>3. CASE task' = [task EXCEPT ![t].bot = current, ![t].at = IF current = None THEN "down" ELSE "finish"]
           /\ UNCHANGED crossings
  <2> DEFINE r == [task[t] EXCEPT !.bot = current, !.at = IF current = None THEN "down" ELSE "finish"]
  <2>1. task' = [task EXCEPT ![t] = r]
    BY <1>3
  <2>2. Others(t) /\ task'[t] = r
    BY <2>1, Tasked, Puts
  <2>3. /\ r.kind = task[t].kind /\ r.threw = task[t].threw /\ r.bot = current
        /\ r.at = IF current = None THEN "down" ELSE "finish"
        /\ r.version = task[t].version /\ r.model = task[t].model
    BY Tasked DEF TaskRecord
  <2> HIDE DEF r
  <2>4. Turns(t, IF current = None THEN "down" ELSE "finish", current, task[t].version, task[t].model)
    BY <2>2, <2>3 DEF Turns
  <2>. QED BY <1>1, <1>3, <2>4, BotsKept
<1>. QED BY <1>2, <1>3 DEF Unmount

LEMMA ForgetDoes ==
  ASSUME TypeOK, NEW t \in Tasks, Forget(t)
  PROVE  /\ task[t].at = "forget"
         /\ StepsTo(t, "finish")
         /\ BotsKeep
         /\ row' = "idle"
         /\ UNCHANGED <<mounted, current, active, defs, stored, crossings>>
BY Tasked, Moves, BotsKept DEF Forget, service, engine, storage

LEMMA FinishDoes ==
  ASSUME TypeOK, NEW t \in Tasks, Finish(t)
  PROVE  /\ task[t].at = "finish"
         /\ StepsTo(t, "down")
         /\ BotsKeep
         /\ current' = None
         /\ crossings' \in {crossings, crossings \cup {"orphan"}}
         /\ (\E u \in Tasks \ {t} : Live(u) /\ task[u].bot = task[t].bot) => "orphan" \in crossings'
         /\ UNCHANGED <<mounted, active, defs, stored, row>>
BY Tasked, Moves, BotsKept DEF Finish, CrossingsIf, service, engine, storage

LEMMA DownDoes ==
  ASSUME TypeOK, NEW t \in Tasks, Down(t)
  PROVE  /\ task[t].at = "down"
         /\ Stops(t, task[t].threw)
         /\ BotsKeep
         /\ mounted' = FALSE
         /\ UNCHANGED <<current, active, defs, stored, row, crossings>>
BY Tasked, Moves, BotsKept DEF Down, service, engine, storage

LEMMA PredictDoes ==
  ASSUME TypeOK, NEW t \in Tasks, Predict(t)
  PROVE  /\ task[t].at = "message"
         /\ \/ Stops(t, task[t].threw)
            \/ \E m : Turns(t, "pull", task[t].bot, task[t].version, m)
         /\ BotsKeep
         /\ UNCHANGED <<mounted, current, active, defs, stored, row, crossings>>
<1>1. ASSUME NEW m, task' = [task EXCEPT ![t].model = m, ![t].at = "pull"]
      PROVE  Turns(t, "pull", task[t].bot, task[t].version, m)
  <2>1. task' = [task EXCEPT ![t] = [task[t] EXCEPT !.model = m, !.at = "pull"]]
    BY <1>1
  <2>. QED BY <2>1, Tasked, Puts DEF Turns, TaskRecord
<1>2. Stops(t, task[t].threw) \/ \E m : Turns(t, "pull", task[t].bot, task[t].version, m)
  <2>1. \/ Ends(t)
        \/ \E m : task' = [task EXCEPT ![t].model = m, ![t].at = "pull"]
    BY DEF Predict
  <2>. QED BY <1>1, <2>1, Tasked, Moves
<1>. QED BY <1>2, BotsKept DEF Predict, service, engine, storage

LEMMA PullDoes ==
  ASSUME TypeOK, NEW t \in Tasks, Pull(t)
  PROVE  /\ task[t].at = "pull"
         /\ StepsTo(t, "adopt") \/ Stops(t, task[t].threw)
         /\ BotsKeep
         /\ UNCHANGED <<mounted, current, active, defs, stored, row, crossings>>
BY Tasked, Moves, BotsKept DEF Pull, service, engine, storage

LEMMA AdoptDoes ==
  ASSUME TypeOK, NEW t \in Tasks, Adopt(t)
  PROVE  /\ task[t].at = "adopt"
         /\ Stops(t, task[t].threw)
         /\ BotGets(task[t].bot, task[t].model)
         /\ crossings' \in {crossings, crossings \cup {"message"}}
         /\ "message" \notin crossings' /\ task[t].bot = current =>
              bots[current].model \in {None, task[t].model} /\ task[t].model \in Files
         /\ UNCHANGED <<mounted, current, active, defs, stored, row>>
BY Tasked, Moves, BotsKept DEF Adopt, CrossingsIf, service, engine, storage

LEMMA PredictFailsDoes ==
  ASSUME TypeOK, NEW t \in Tasks, PredictFails(t)
  PROVE  /\ task[t].at \in {"message", "pull"}
         /\ Stops(t, task[t].threw) /\ BotsKeep
         /\ UNCHANGED <<mounted, current, active, defs, stored, row, crossings>>
BY Tasked, Moves, BotsKept DEF PredictFails, service, engine, storage

\* A task begins: an announcement, or a request.
Begins(t, kind, at, bot) ==
  /\ Others(t)
  /\ task[t].at = "idle"
  /\ task'[t].kind = kind /\ task'[t].at = at /\ task'[t].bot = bot
  /\ task'[t].version = None /\ task'[t].model = None /\ task'[t].threw = FALSE

LEMMA RequestDoes ==
  ASSUME TypeOK, NEW t \in Tasks, Request(t)
  PROVE  /\ \/ ~ mounted /\ Begins(t, "mount", "mount", None)
            \/ mounted /\ Begins(t, "unmount", "unmount", None)
            \/ current # None /\ Begins(t, "train", "fetch", current)
            \/ current # None /\ Begins(t, "cancel", "clear", None)
            \/ current # None /\ Begins(t, "predict", "message", current)
         /\ BotsKeep
         /\ crossings' \in {crossings, crossings \cup {"mounts"}}
         /\ \A u \in Tasks : Live(u) /\ {task'[t].kind, task[u].kind} \subseteq Moving => "mounts" \in crossings'
         /\ UNCHANGED <<mounted, current, active, defs, stored, row>>
<1>1. PICK kind \in Kinds \ {"announce"} :
        /\ First(kind)
        /\ task' = [task EXCEPT ![t] = [IdleTask EXCEPT !.kind = kind, !.at = FirstStep(kind),
                                          !.bot = IF kind \in {"train", "predict"} THEN current ELSE None]]
        /\ crossings' = CrossingsIf("mounts",
             \E u \in Tasks : Live(u) /\ {kind, task[u].kind} \subseteq {"mount", "unmount"})
  BY DEF Request
<1> DEFINE bot == IF kind \in {"train", "predict"} THEN current ELSE None
           r == [IdleTask EXCEPT !.kind = kind, !.at = FirstStep(kind), !.bot = bot]
<1>2. Others(t) /\ task'[t] = r
  BY <1>1, Tasked, Puts
<1>3. /\ r.kind = kind /\ r.at = FirstStep(kind) /\ r.bot = bot
      /\ r.version = None /\ r.model = None /\ r.threw = FALSE
  BY DEF IdleTask
<1> HIDE DEF r
<1>4. Begins(t, kind, FirstStep(kind), bot)
  BY <1>2, <1>3 DEF Begins, Request, NextTask
<1>5. \/ ~ mounted /\ Begins(t, "mount", "mount", None)
      \/ mounted /\ Begins(t, "unmount", "unmount", None)
      \/ current # None /\ Begins(t, "train", "fetch", current)
      \/ current # None /\ Begins(t, "cancel", "clear", None)
      \/ current # None /\ Begins(t, "predict", "message", current)
  BY <1>1, <1>4 DEF First, FirstStep, Kinds
<1>6. BotsKeep /\ UNCHANGED <<mounted, current, active, defs, stored, row>>
  BY BotsKept DEF Request, service, engine, storage
<1>7. task'[t].kind = kind
  BY <1>2, <1>3
<1>. QED BY <1>1, <1>5, <1>6, <1>7 DEF CrossingsIf, Moving

LEMMA EditDoes ==
  ASSUME TypeOK, Edit
  PROVE  /\ crossings' \in {crossings, crossings \cup {"edit"}}
         /\ defs' # defs => \A t \in Tasks : InRun(t) \/ task[t].at = "lock" => "edit" \in crossings'
         /\ \/ current = None /\ task' = task
            \/ \E t \in Tasks : Begins(t, "announce", "read", None)
         /\ BotsKeep
         /\ UNCHANGED <<mounted, current, active, stored, row>>
<1>1. ASSUME NEW t \in Tasks, NextTask(t),
             task' = [task EXCEPT ![t] = [IdleTask EXCEPT !.kind = "announce", !.at = "read"]]
      PROVE  Begins(t, "announce", "read", None)
  <2> DEFINE r == [IdleTask EXCEPT !.kind = "announce", !.at = "read"]
  <2>1. Others(t) /\ task'[t] = r
    BY <1>1, Tasked, Puts
  <2>2. /\ r.kind = "announce" /\ r.at = "read" /\ r.bot = None
        /\ r.version = None /\ r.model = None /\ r.threw = FALSE
    BY DEF IdleTask
  <2> HIDE DEF r
  <2>. QED BY <1>1, <2>1, <2>2 DEF Begins, NextTask
<1>2. (current = None /\ task' = task) \/ \E t \in Tasks : Begins(t, "announce", "read", None)
  BY <1>1 DEF Edit
<1>. QED BY <1>2, BotsKept DEF Edit, CrossingsIf, service, engine

LEMMA EvictDoes ==
  ASSUME TypeOK, Evict
  PROVE  /\ task' = task /\ BotsKeep
         /\ UNCHANGED <<mounted, current, active, defs, stored, row, crossings>>
BY BotsKept DEF Evict, service, engine, storage

LEMMA RestartDoes ==
  ASSUME TypeOK, Restart
  PROVE  /\ mounted' = FALSE /\ current' = None /\ active' = FALSE
         /\ \A b \in BotIds : bots'[b].model = None
         /\ \A t \in Tasks :
              /\ task'[t].at \in {"idle", "over"}
              /\ task'[t].at = "idle" => task[t].at = "idle"
              /\ task'[t].bot \in {None, task[t].bot}
              /\ task'[t] = task[t] \/ (task'[t].at = "over" /\ task'[t].threw = FALSE)
         /\ UNCHANGED <<defs, stored, row, crossings>>
<1>1. ASSUME NEW t \in Tasks
      PROVE  /\ task'[t].at \in {"idle", "over"}
             /\ task'[t].at = "idle" => task[t].at = "idle"
             /\ task'[t].bot \in {None, task[t].bot}
             /\ task'[t] = task[t] \/ (task'[t].at = "over" /\ task'[t].threw = FALSE)
  BY DEF Restart, Live, IdleTask
<1>2. \A b \in BotIds : bots'[b].model = None
  BY DEF Restart, Fresh
<1>. QED BY <1>1, <1>2 DEF Restart, storage

\* Time passes for the lock only.
LEMMA ExpireDoes ==
  ASSUME TypeOK, Expire
  PROVE  /\ task' = task /\ BotsKeep
         /\ crossings' = crossings \cup {"lock"}
         /\ UNCHANGED <<mounted, current, active, defs, stored, row>>
BY BotsKept DEF Expire, CrossingsIf, service, engine, storage

\* A task goes on, or begins, or is over: it may stop trainings, and serve a model.
Onward(t) ==
  /\ \A u \in Tasks \ {t} : Same(task'[u], task[u]) \/ TurnsCaught(u)
  /\ KindFits(task'[t])
  /\ task'[t].at \in {"idle", "mount"} => task[t].at = "idle"
  /\ task'[t].bot \in {None, current, task[t].bot}
  /\ current' \in {None, current}
  /\ \A b \in BotIds \ {current, task[t].bot} : bots'[b].model = bots[b].model
  /\ active' = FALSE \/ task'[t].at = "train" \/ (active' = active /\ task[t].at # "train" /\ Others(t))

LEMMA OnwardKeeps ==
  ASSUME TypeOK, TasksInv, NEW t \in Tasks, Onward(t)
  PROVE  TasksInv'
<1>1. KindsKnown'
  BY DEF TasksInv, KindsKnown, Onward, KindFits, Same, TurnsCaught, TrainOrLoad, RunSteps, Announcing
<1>2. EngineTrains'
  BY DEF TasksInv, EngineTrains, Onward, Others, Same
<1>3. ASSUME NEW u \in Tasks, task'[u].at \in {"idle", "mount"}
      PROVE  bots'[u + 1].model = None /\ current' # u + 1 /\ \A q \in Tasks : task'[q].bot # u + 1
  <2>1. task[u].at \in {"idle", "mount"}
    BY <1>3 DEF Onward, Same, TurnsCaught
  <2>2. bots[u + 1].model = None /\ current # u + 1 /\ \A q \in Tasks : task[q].bot # u + 1
    BY <2>1 DEF TasksInv, MountsFresh
  <2>3. u + 1 \in BotIds /\ u + 1 # None
    BY Constants DEF None
  <2>4. \A q \in Tasks \ {t} : task'[q].bot = task[q].bot
    BY DEF Onward, Same, TurnsCaught
  <2>. QED BY <2>2, <2>3, <2>4 DEF Onward
<1>. QED BY <1>1, <1>2, <1>3 DEF TasksInv, MountsFresh

LEMMA TasksInvKept == LockInv /\ TasksInv /\ Next => TasksInv'
<1> SUFFICES ASSUME LockInv, TasksInv, Next PROVE TasksInv'
  OBVIOUS
<1>0. TypeOK /\ \A t \in Tasks : KindFits(task[t])
  BY DEF LockInv, TasksInv, KindsKnown
<1> USE DEF Onward, Turns, StepsTo, Stops, Stopped, RunEnds, AnnouncementEnds, Begins, BotsKeep, BotGets, Others,
          KindFits, TrainOrLoad, RunSteps, Announcing
<1>1. ASSUME NEW t \in Tasks, Request(t) PROVE Onward(t)
  BY <1>0, <1>1, RequestDoes
<1>2. ASSUME NEW t \in Tasks, Throws(t) PROVE Onward(t)
  BY <1>0, <1>2, ThrowsDoes
<1>3. ASSUME NEW t \in Tasks, Fetch(t) PROVE Onward(t)
  BY <1>0, <1>3, FetchDoes
<1>4. ASSUME NEW t \in Tasks, TakeLock(t) PROVE Onward(t)
  BY <1>0, <1>4, TakeLockDoes
<1>5. ASSUME NEW t \in Tasks, Find(t) PROVE Onward(t)
  BY <1>0, <1>5, FindDoes
<1>6. ASSUME NEW t \in Tasks, FindFails(t) PROVE Onward(t)
  BY <1>0, <1>6, FindFailsDoes
<1>7. ASSUME NEW t \in Tasks, Start(t) PROVE Onward(t)
  BY <1>0, <1>7, StartDoes
<1>8. ASSUME NEW t \in Tasks, Created(t) PROVE Onward(t)
  BY <1>0, <1>8, CreatedDoes
<1>9. ASSUME NEW t \in Tasks, Progress(t) PROVE Onward(t)
  BY <1>0, <1>9, ProgressDoes
<1>10. ASSUME NEW t \in Tasks, Trained(t) PROVE Onward(t)
  BY <1>0, <1>10, TrainedDoes
<1>11. ASSUME NEW t \in Tasks, TrainingFails(t) PROVE Onward(t)
  BY <1>0, <1>11, TrainingFailsDoes
<1>12. ASSUME NEW t \in Tasks, Caught(t) PROVE Onward(t)
  BY <1>0, <1>12, CaughtDoes
<1>13. ASSUME NEW t \in Tasks, CaughtFails(t) PROVE Onward(t)
  BY <1>0, <1>13, CaughtFailsDoes
<1>14. ASSUME NEW t \in Tasks, Keep(t) PROVE Onward(t)
  BY <1>0, <1>14, KeepDoes
<1>15. ASSUME NEW t \in Tasks, KeepFails(t) PROVE Onward(t)
  BY <1>0, <1>15, KeepFailsDoes
<1>16. ASSUME NEW t \in Tasks, Save(t) PROVE Onward(t)
  BY <1>0, <1>16, SaveDoes
<1>17. ASSUME NEW t \in Tasks, SaveFails(t) PROVE Onward(t)
  BY <1>0, <1>17, SaveFailsDoes
<1>18. ASSUME NEW t \in Tasks, Broadcast(t) PROVE Onward(t)
  BY <1>0, <1>18, BroadcastDoes
<1>19. ASSUME NEW t \in Tasks, Reload(t) PROVE Onward(t)
  BY <1>0, <1>19, ReloadDoes
<1>20. ASSUME NEW t \in Tasks, Load(t) PROVE Onward(t)
  BY <1>0, <1>20, LoadDoes
<1>21. ASSUME NEW t \in Tasks, LoadFails(t) PROVE Onward(t)
  BY <1>0, <1>21, LoadFailsDoes
<1>22. ASSUME NEW t \in Tasks, Release(t) PROVE Onward(t)
  BY <1>0, <1>22, ReleaseDoes
<1>23. ASSUME NEW t \in Tasks, ReleaseFails(t) PROVE Onward(t)
  BY <1>0, <1>23, ReleaseFailsDoes
<1>24. ASSUME NEW t \in Tasks, Read(t) PROVE Onward(t)
  BY <1>0, <1>24, ReadDoes
<1>25. ASSUME NEW t \in Tasks, Decide(t) PROVE Onward(t)
  BY <1>0, <1>25, DecideDoes
<1>26. ASSUME NEW t \in Tasks, Announce(t) PROVE Onward(t)
  BY <1>0, <1>26, AnnounceDoes
<1>27. ASSUME NEW t \in Tasks, Clear(t) PROVE Onward(t)
  BY <1>0, <1>27, ClearDoes
<1>28. ASSUME NEW t \in Tasks, Tell(t) PROVE Onward(t)
  BY <1>0, <1>28, TellDoes
<1>29. ASSUME NEW t \in Tasks, Mark(t) PROVE Onward(t)
  BY <1>0, <1>29, MarkDoes
<1>30. ASSUME NEW t \in Tasks, MarkFails(t) PROVE Onward(t)
  BY <1>0, <1>30, MarkFailsDoes
<1>31. ASSUME NEW t \in Tasks, Kill(t) PROVE Onward(t)
  BY <1>0, <1>31, KillDoes
<1>32. ASSUME NEW t \in Tasks, Mount(t) PROVE TasksInv'
  <2>1. Turns(t, "fetch", t + 1, task[t].version, task[t].model) /\ current' = t + 1 /\ task[t].at = "mount"
    BY <1>0, <1>32, MountDoes
  <2>2. KindsKnown' /\ EngineTrains'
    BY <1>0, <1>32, MountDoes DEF KindsKnown, EngineTrains, TasksInv, Same
  <2>3. ASSUME NEW u \in Tasks, task'[u].at \in {"idle", "mount"}
        PROVE  bots'[u + 1].model = None /\ current' # u + 1 /\ \A q \in Tasks : task'[q].bot # u + 1
    <3>1. u # t /\ task[u].at \in {"idle", "mount"}
      BY <2>1, <2>3 DEF Same
    <3>2. u + 1 # t + 1 /\ u + 1 \in BotIds
      BY <3>1, Constants
    <3>3. bots[u + 1].model = None /\ \A q \in Tasks : task[q].bot # u + 1
      BY <3>1 DEF TasksInv, MountsFresh
    <3>. QED BY <1>0, <1>32, <2>1, <3>2, <3>3, MountDoes DEF Same
  <2>. QED BY <2>2, <2>3 DEF TasksInv, MountsFresh
<1>33. ASSUME NEW t \in Tasks, Up(t) PROVE Onward(t)
  BY <1>0, <1>33, UpDoes
<1>34. ASSUME NEW t \in Tasks, Unmount(t) PROVE Onward(t)
  BY <1>0, <1>34, UnmountDoes
<1>35. ASSUME NEW t \in Tasks, Forget(t) PROVE Onward(t)
  BY <1>0, <1>35, ForgetDoes
<1>36. ASSUME NEW t \in Tasks, Finish(t) PROVE Onward(t)
  BY <1>0, <1>36, FinishDoes
<1>37. ASSUME NEW t \in Tasks, Down(t) PROVE Onward(t)
  BY <1>0, <1>37, DownDoes
<1>38. ASSUME NEW t \in Tasks, Predict(t) PROVE Onward(t)
  BY <1>0, <1>38, PredictDoes
<1>39. ASSUME NEW t \in Tasks, Pull(t) PROVE Onward(t)
  BY <1>0, <1>39, PullDoes
<1>40. ASSUME NEW t \in Tasks, Adopt(t) PROVE Onward(t)
  BY <1>0, <1>40, AdoptDoes
<1>41. ASSUME NEW t \in Tasks, PredictFails(t) PROVE Onward(t)
  BY <1>0, <1>41, PredictFailsDoes
<1>42. ASSUME Edit PROVE TasksInv'
  <2>1. CASE current = None /\ task' = task
    BY <1>0, <1>42, <2>1, Constants, EditDoes DEF TasksInv, KindsKnown, EngineTrains, MountsFresh
  <2>2. ASSUME NEW t \in Tasks, Begins(t, "announce", "read", None) PROVE Onward(t)
    BY <1>0, <1>42, <2>2, EditDoes
  <2>. QED BY <1>0, <1>42, <2>1, <2>2, EditDoes, OnwardKeeps
<1>43. ASSUME Evict PROVE TasksInv'
  BY <1>0, <1>43, Constants, EvictDoes DEF TasksInv, KindsKnown, EngineTrains, MountsFresh
<1>44. ASSUME Restart PROVE TasksInv'
  <2>1. KindsKnown' /\ EngineTrains'
    BY <1>0, <1>44, RestartDoes DEF KindsKnown, EngineTrains
  <2>2. MountsFresh'
    <3>1. ASSUME NEW u \in Tasks, task'[u].at \in {"idle", "mount"}
          PROVE  bots'[u + 1].model = None /\ current' # u + 1 /\ \A q \in Tasks : task'[q].bot # u + 1
      <4>1. /\ u + 1 \in BotIds /\ u + 1 # None /\ task[u].at = "idle"
            /\ \A q \in Tasks : task'[q].bot \in {None, task[q].bot}
        BY <1>0, <1>44, <3>1, Constants, RestartDoes DEF None
      <4>. QED BY <1>0, <1>44, <4>1, RestartDoes DEF TasksInv, MountsFresh
    <3>. QED BY <3>1 DEF MountsFresh
  <2>. QED BY <2>1, <2>2 DEF TasksInv
<1>45. ASSUME Expire PROVE TasksInv'
  BY <1>0, <1>45, Constants, ExpireDoes DEF TasksInv, KindsKnown, EngineTrains, MountsFresh
<1> HIDE DEF Onward
<1>. QED
  BY <1>1, <1>2, <1>3, <1>4, <1>5, <1>6, <1>7, <1>8, <1>9, <1>10, <1>11, <1>12, <1>13, <1>14, <1>15, <1>16, <1>17,
     <1>18, <1>19, <1>20, <1>21, <1>22, <1>23, <1>24, <1>25, <1>26, <1>27, <1>28, <1>29, <1>30, <1>31, <1>32, <1>33,
     <1>34, <1>35, <1>36, <1>37, <1>38, <1>39, <1>40, <1>41, <1>42, <1>43, <1>44, <1>45, <1>0, OnwardKeeps DEF Next,
     Run

-----------------------------------------------------------------------------
(* A step that throws, and a restart. *)

LEMMA Thrown ==
  ASSUME TypeOK, NEW t \in Tasks,
         \/ Throws(t) \/ FindFails(t) \/ CaughtFails(t) \/ LoadFails(t) \/ ReleaseFails(t) \/ MarkFails(t)
  PROVE  Threw'
BY ThrowsDoes, FindFailsDoes, CaughtFailsDoes, LoadFailsDoes, ReleaseFailsDoes, MarkFailsDoes DEF Threw, Stops, Stopped

\* What a task has thrown stays known.
Known(t) == \A u \in Tasks : task[u].threw => task'[u].threw = TRUE

LEMMA Unthrown ==
  ASSUME LockInv, TasksInv, Next, ~ Threw'
  PROVE  ~ Threw \/ Restart
<1>0. TypeOK /\ \A t \in Tasks : KindFits(task[t])
  BY DEF LockInv, TasksInv, KindsKnown
<1>t. (\A u \in Tasks : task[u].threw => task'[u].threw = TRUE) => (Threw => Threw')
  BY DEF Threw
<1> USE DEF Known, Turns, StepsTo, Stops, Stopped, RunEnds, AnnouncementEnds, Begins, Others, Same, TurnsCaught
<1>1. ASSUME NEW t \in Tasks, Request(t) PROVE Known(t)
  BY <1>0, <1>1, RequestDoes DEF KindFits
<1>2. ASSUME NEW t \in Tasks, Throws(t) PROVE Threw'
  BY <1>0, <1>2, Thrown
<1>3. ASSUME NEW t \in Tasks, Fetch(t) PROVE Known(t)
  BY <1>0, <1>3, FetchDoes
<1>4. ASSUME NEW t \in Tasks, TakeLock(t) PROVE Known(t)
  BY <1>0, <1>4, TakeLockDoes
<1>5. ASSUME NEW t \in Tasks, Find(t) PROVE Known(t)
  BY <1>0, <1>5, FindDoes
<1>6. ASSUME NEW t \in Tasks, FindFails(t) PROVE Threw'
  BY <1>0, <1>6, Thrown
<1>7. ASSUME NEW t \in Tasks, Start(t) PROVE Known(t)
  BY <1>0, <1>7, StartDoes
<1>8. ASSUME NEW t \in Tasks, Created(t) PROVE Known(t)
  BY <1>0, <1>8, CreatedDoes
<1>9. ASSUME NEW t \in Tasks, Progress(t) PROVE Known(t)
  BY <1>0, <1>9, ProgressDoes
<1>10. ASSUME NEW t \in Tasks, Trained(t) PROVE Known(t)
  BY <1>0, <1>10, TrainedDoes
<1>11. ASSUME NEW t \in Tasks, TrainingFails(t) PROVE Known(t)
  BY <1>0, <1>11, TrainingFailsDoes
<1>12. ASSUME NEW t \in Tasks, Caught(t) PROVE Known(t)
  BY <1>0, <1>12, CaughtDoes
<1>13. ASSUME NEW t \in Tasks, CaughtFails(t) PROVE Threw'
  BY <1>0, <1>13, Thrown
<1>14. ASSUME NEW t \in Tasks, Keep(t) PROVE Known(t)
  BY <1>0, <1>14, KeepDoes
<1>15. ASSUME NEW t \in Tasks, KeepFails(t) PROVE Known(t)
  BY <1>0, <1>15, KeepFailsDoes
<1>16. ASSUME NEW t \in Tasks, Save(t) PROVE Known(t)
  BY <1>0, <1>16, SaveDoes
<1>17. ASSUME NEW t \in Tasks, SaveFails(t) PROVE Known(t)
  BY <1>0, <1>17, SaveFailsDoes
<1>18. ASSUME NEW t \in Tasks, Broadcast(t) PROVE Known(t)
  BY <1>0, <1>18, BroadcastDoes
<1>19. ASSUME NEW t \in Tasks, Reload(t) PROVE Known(t)
  BY <1>0, <1>19, ReloadDoes
<1>20. ASSUME NEW t \in Tasks, Load(t) PROVE Known(t)
  BY <1>0, <1>20, LoadDoes
<1>21. ASSUME NEW t \in Tasks, LoadFails(t) PROVE Threw'
  BY <1>0, <1>21, Thrown
<1>22. ASSUME NEW t \in Tasks, Release(t) PROVE Known(t)
  BY <1>0, <1>22, ReleaseDoes
<1>23. ASSUME NEW t \in Tasks, ReleaseFails(t) PROVE Threw'
  BY <1>0, <1>23, Thrown
<1>24. ASSUME NEW t \in Tasks, Read(t) PROVE Known(t)
  BY <1>0, <1>24, ReadDoes
<1>25. ASSUME NEW t \in Tasks, Decide(t) PROVE Known(t)
  BY <1>0, <1>25, DecideDoes
<1>26. ASSUME NEW t \in Tasks, Announce(t) PROVE Known(t)
  BY <1>0, <1>26, AnnounceDoes
<1>27. ASSUME NEW t \in Tasks, Clear(t) PROVE Known(t)
  BY <1>0, <1>27, ClearDoes
<1>28. ASSUME NEW t \in Tasks, Tell(t) PROVE Known(t)
  BY <1>0, <1>28, TellDoes
<1>29. ASSUME NEW t \in Tasks, Mark(t) PROVE Known(t)
  BY <1>0, <1>29, MarkDoes
<1>30. ASSUME NEW t \in Tasks, MarkFails(t) PROVE Threw'
  BY <1>0, <1>30, Thrown
<1>31. ASSUME NEW t \in Tasks, Kill(t) PROVE Known(t)
  <2>1. task'[t].threw = task[t].threw
    BY <1>0, <1>31, KillDoes
  <2>. QED BY <1>0, <1>31, <2>1, KillDoes
<1>32. ASSUME NEW t \in Tasks, Mount(t) PROVE Known(t)
  BY <1>0, <1>32, MountDoes
<1>33. ASSUME NEW t \in Tasks, Up(t) PROVE Known(t)
  BY <1>0, <1>33, UpDoes
<1>34. ASSUME NEW t \in Tasks, Unmount(t) PROVE Known(t)
  BY <1>0, <1>34, UnmountDoes
<1>35. ASSUME NEW t \in Tasks, Forget(t) PROVE Known(t)
  BY <1>0, <1>35, ForgetDoes
<1>36. ASSUME NEW t \in Tasks, Finish(t) PROVE Known(t)
  BY <1>0, <1>36, FinishDoes
<1>37. ASSUME NEW t \in Tasks, Down(t) PROVE Known(t)
  BY <1>0, <1>37, DownDoes
<1>38. ASSUME NEW t \in Tasks, Predict(t) PROVE Known(t)
  BY <1>0, <1>38, PredictDoes
<1>39. ASSUME NEW t \in Tasks, Pull(t) PROVE Known(t)
  BY <1>0, <1>39, PullDoes
<1>40. ASSUME NEW t \in Tasks, Adopt(t) PROVE Known(t)
  BY <1>0, <1>40, AdoptDoes
<1>41. ASSUME NEW t \in Tasks, PredictFails(t) PROVE Known(t)
  BY <1>0, <1>41, PredictFailsDoes
<1>42. ASSUME Edit PROVE Threw => Threw'
  <2>1. CASE task' = task
    BY <2>1 DEF Threw
  <2>2. ASSUME NEW t \in Tasks, Begins(t, "announce", "read", None) PROVE Known(t)
    BY <1>0, <2>2 DEF KindFits
  <2>. QED BY <1>0, <1>t, <1>42, <2>1, <2>2, EditDoes
<1>43. ASSUME Evict PROVE Threw => Threw'
  BY <1>0, <1>43, EvictDoes DEF Threw
<1>44. ASSUME Expire PROVE Threw => Threw'
  BY <1>0, <1>44, ExpireDoes DEF Threw
<1>k. ASSUME NEW t \in Tasks, Known(t) PROVE Threw => Threw'
  BY <1>t, <1>k
<1> HIDE DEF Known
<1>. QED
  BY <1>1, <1>2, <1>3, <1>4, <1>5, <1>6, <1>7, <1>8, <1>9, <1>10, <1>11, <1>12, <1>13, <1>14, <1>15, <1>16, <1>17,
     <1>18, <1>19, <1>20, <1>21, <1>22, <1>23, <1>24, <1>25, <1>26, <1>27, <1>28, <1>29, <1>30, <1>31, <1>32, <1>33,
     <1>34, <1>35, <1>36, <1>37, <1>38, <1>39, <1>40, <1>41, <1>42, <1>43, <1>44, <1>k DEF Next, Run

LEMMA AfterRestart ==
  ASSUME TypeOK, Restart
  PROVE  MountsInv' /\ FilesInv' /\ Rewritten' /\ DoneInv'
<1>0. /\ mounted' = FALSE /\ current' = None
      /\ \A t \in Tasks : task'[t].at \in {"idle", "over"}
  BY RestartDoes
<1>1. MountsInv'
  BY <1>0 DEF MountsInv, OneMoves, MovesSound, HasState, Live
<1>2. FilesInv'
  BY <1>0 DEF FilesInv, ServedKept
<1>3. Rewritten'
  BY <1>0 DEF Rewritten, NotWritten, Announcing
<1>4. DoneInv'
  BY <1>0 DEF DoneInv, DoneSound, RunFits, TrainOrLoad, RunSteps
<1>. QED BY <1>1, <1>2, <1>3, <1>4

-----------------------------------------------------------------------------
(* Mounts and unmounts. *)

Mover(r) == r.at \notin {"idle", "over"} /\ r.kind \in Moving

\* Nothing is mounted or unmounted: a mount or an unmount goes on, or is not concerned.
Steady(t) ==
  /\ mounted' = mounted /\ current' = current /\ crossings \subseteq crossings'
  /\ \A u \in Tasks \ {t} : Same(task'[u], task[u]) \/ TurnsCaught(u)
  /\ Mover(task'[t]) => Mover(task[t]) /\ task'[t].kind = task[t].kind
  /\ Mover(task[t]) /\ task[t].kind = "mount" =>
       Mover(task'[t]) /\ (task'[t].at = "mount" <=> task[t].at = "mount")
  /\ task[t].at # "down"
  /\ task'[t].kind = "unmount" =>
       /\ task'[t].at \in {"mark", "kill", "forget", "finish"} =>
            \/ task'[t].bot = current
            \/ task[t].at \in {"mark", "kill", "forget", "finish"} /\ task'[t].bot = task[t].bot
       /\ task'[t].at = "down" => current = None

LEMMA SteadyKeeps ==
  ASSUME MountsInv, KindsKnown, NEW t \in Tasks, Steady(t)
  PROVE  MountsInv'
<1> SUFFICES ASSUME "mounts" \notin crossings' PROVE OneMoves' /\ MovesSound' /\ HasState'
  BY DEF MountsInv
<1>1. OneMoves /\ MovesSound /\ HasState
  BY DEF MountsInv, Steady
<1>2. \A u \in Tasks : Mover(task'[u]) => Mover(task[u]) /\ task'[u].kind = task[u].kind
  BY DEF Steady, Same, TurnsCaught, Mover
<1>3. OneMoves'
  BY <1>1, <1>2 DEF OneMoves, Mover, Live
<1>4. MovesSound'
  <2> SUFFICES ASSUME NEW u \in Tasks, Mover(task'[u])
               PROVE  /\ task'[u].kind = "mount" => ~ mounted' /\ (task'[u].at # "mount" => current' = u + 1)
                      /\ task'[u].kind = "unmount" =>
                           /\ mounted'
                           /\ task'[u].at \in {"mark", "kill", "forget", "finish"} => task'[u].bot = current'
                           /\ task'[u].at = "down" => current' = None
    BY DEF MovesSound, Mover, Live, Moving
  <2>1. Mover(task[u]) /\ task'[u].kind = task[u].kind
    BY <1>2
  <2>2. /\ task[u].kind = "mount" => ~ mounted /\ (task[u].at # "mount" => current = u + 1)
        /\ task[u].kind = "unmount" =>
             /\ mounted
             /\ task[u].at \in {"mark", "kill", "forget", "finish"} => task[u].bot = current
             /\ task[u].at = "down" => current = None
    BY <1>1, <2>1 DEF MovesSound, Mover, Live, Moving
  <2>3. CASE u = t
    BY <2>1, <2>2, <2>3 DEF Steady
  <2>4. CASE u # t
    BY <2>1, <2>2, <2>4 DEF Steady, Same, TurnsCaught
  <2>. QED BY <2>3, <2>4
<1>5. HasState'
  <2>1. \A u \in Tasks : task[u].at = "down" => task'[u].at = "down"
    BY DEF Steady, Same, TurnsCaught
  <2>2. \A u \in Tasks : Live(u) /\ task[u].kind = "mount" /\ task[u].at # "mount" =>
                           Live(u)' /\ task'[u].kind = "mount" /\ task'[u].at # "mount"
    BY DEF Steady, Same, TurnsCaught, Live, Mover, Moving
  <2>. QED BY <1>1, <2>1, <2>2 DEF HasState, Steady
<1>. QED BY <1>3, <1>4, <1>5

\* A mount or an unmount takes a step, and no other is under way.
LEMMA OnlyMover ==
  ASSUME TypeOK, KindsKnown, MountsInv, "mounts" \notin crossings, NEW t \in Tasks,
         task[t].at \in {"mount", "up", "finish", "down"}, Others(t)
  PROVE  /\ OneMoves /\ MovesSound
         /\ \A u \in Tasks \ {t} : ~ Mover(task[u]) /\ ~ Mover(task'[u])
         /\ task[t].kind = IF task[t].at \in {"mount", "up"} THEN "mount" ELSE "unmount"
<1>1. OneMoves /\ MovesSound
  BY DEF MountsInv
<1>2. task[t].kind = IF task[t].at \in {"mount", "up"} THEN "mount" ELSE "unmount"
  BY DEF KindsKnown, KindFits
<1>3. \A u \in Tasks \ {t} : ~ Mover(task[u])
  BY <1>1, <1>2 DEF OneMoves, Mover, Live, Moving
<1>. QED BY <1>1, <1>2, <1>3 DEF Others, Same, Mover

LEMMA MountsKept ==
  ASSUME LockInv, TasksInv, MountsInv, ~ Threw, Next, ~ Threw', ~ Restart
  PROVE  MountsInv'
<1>0. /\ TypeOK /\ KindsKnown
      /\ \A t \in Tasks : KindFits(task[t]) /\ task[t].threw = FALSE
  BY DEF LockInv, TasksInv, KindsKnown, Threw, TypeOK, TaskRecord
<1> USE DEF Steady, Turns, StepsTo, Stops, Stopped, RunEnds, AnnouncementEnds, Others, KindFits, TrainOrLoad, RunSteps,
          Announcing, Mover, Moving
<1>1. ASSUME NEW t \in Tasks, Request(t) PROVE MountsInv'
  <2>1. CASE task'[t].kind \notin Moving
    <3>. Steady(t)
      BY <1>0, <1>1, <2>1, RequestDoes DEF Begins
    <3>. QED BY <1>0, SteadyKeeps
  <2>2. ASSUME NEW kind \in Moving, Begins(t, kind, kind, None), mounted <=> kind = "unmount"
        PROVE  MountsInv'
    <3> SUFFICES ASSUME "mounts" \notin crossings' PROVE OneMoves' /\ MovesSound' /\ HasState'
      BY DEF MountsInv
    <3>1. /\ UNCHANGED <<mounted, current>> /\ crossings \subseteq crossings'
          /\ \A u \in Tasks : ~ Mover(task[u])
      BY <1>0, <1>1, <2>2, RequestDoes DEF Begins, Live
    <3>2. MovesSound /\ HasState
      BY <3>1 DEF MountsInv
    <3>3. \A u \in Tasks \ {t} : ~ Mover(task'[u])
      BY <2>2, <3>1 DEF Begins, Same
    <3>4. ~ (mounted /\ current = None) /\ ~ (~ mounted /\ current # None)
      BY <1>0, <3>1, <3>2 DEF HasState, Live
    <3>5. OneMoves'
      BY <3>3 DEF OneMoves, Live
    <3>6. MovesSound'
      BY <2>2, <3>1, <3>3 DEF MovesSound, Live, Begins
    <3>. QED BY <3>1, <3>4, <3>5, <3>6 DEF HasState
  <2>. QED BY <1>0, <1>1, <2>1, <2>2, RequestDoes DEF Begins
<1>2. ASSUME NEW t \in Tasks, Throws(t) PROVE Threw'
  BY <1>0, <1>2, Thrown
<1>3. ASSUME NEW t \in Tasks, Fetch(t) PROVE Steady(t)
  BY <1>0, <1>3, FetchDoes
<1>4. ASSUME NEW t \in Tasks, TakeLock(t) PROVE Steady(t)
  BY <1>0, <1>4, TakeLockDoes
<1>5. ASSUME NEW t \in Tasks, Find(t) PROVE Steady(t)
  BY <1>0, <1>5, FindDoes
<1>6. ASSUME NEW t \in Tasks, FindFails(t) PROVE Threw'
  BY <1>0, <1>6, Thrown
<1>7. ASSUME NEW t \in Tasks, Start(t) PROVE Steady(t)
  BY <1>0, <1>7, StartDoes
<1>8. ASSUME NEW t \in Tasks, Created(t) PROVE Steady(t)
  BY <1>0, <1>8, CreatedDoes
<1>9. ASSUME NEW t \in Tasks, Progress(t) PROVE Steady(t)
  BY <1>0, <1>9, ProgressDoes
<1>10. ASSUME NEW t \in Tasks, Trained(t) PROVE Steady(t)
  BY <1>0, <1>10, TrainedDoes
<1>11. ASSUME NEW t \in Tasks, TrainingFails(t) PROVE Steady(t)
  BY <1>0, <1>11, TrainingFailsDoes
<1>12. ASSUME NEW t \in Tasks, Caught(t) PROVE Steady(t)
  BY <1>0, <1>12, CaughtDoes
<1>13. ASSUME NEW t \in Tasks, CaughtFails(t) PROVE Threw'
  BY <1>0, <1>13, Thrown
<1>14. ASSUME NEW t \in Tasks, Keep(t) PROVE Steady(t)
  BY <1>0, <1>14, KeepDoes
<1>15. ASSUME NEW t \in Tasks, KeepFails(t) PROVE Steady(t)
  BY <1>0, <1>15, KeepFailsDoes
<1>16. ASSUME NEW t \in Tasks, Save(t) PROVE Steady(t)
  BY <1>0, <1>16, SaveDoes
<1>17. ASSUME NEW t \in Tasks, SaveFails(t) PROVE Steady(t)
  BY <1>0, <1>17, SaveFailsDoes
<1>18. ASSUME NEW t \in Tasks, Broadcast(t) PROVE Steady(t)
  BY <1>0, <1>18, BroadcastDoes
<1>19. ASSUME NEW t \in Tasks, Reload(t) PROVE Steady(t)
  BY <1>0, <1>19, ReloadDoes
<1>20. ASSUME NEW t \in Tasks, Load(t) PROVE Steady(t)
  BY <1>0, <1>20, LoadDoes
<1>21. ASSUME NEW t \in Tasks, LoadFails(t) PROVE Threw'
  BY <1>0, <1>21, Thrown
<1>22. ASSUME NEW t \in Tasks, Release(t) PROVE Steady(t)
  BY <1>0, <1>22, ReleaseDoes
<1>23. ASSUME NEW t \in Tasks, ReleaseFails(t) PROVE Threw'
  BY <1>0, <1>23, Thrown
<1>24. ASSUME NEW t \in Tasks, Read(t) PROVE Steady(t)
  BY <1>0, <1>24, ReadDoes
<1>25. ASSUME NEW t \in Tasks, Decide(t) PROVE Steady(t)
  BY <1>0, <1>25, DecideDoes
<1>26. ASSUME NEW t \in Tasks, Announce(t) PROVE Steady(t)
  BY <1>0, <1>26, AnnounceDoes
<1>27. ASSUME NEW t \in Tasks, Clear(t) PROVE Steady(t)
  BY <1>0, <1>27, ClearDoes
<1>28. ASSUME NEW t \in Tasks, Tell(t) PROVE Steady(t)
  BY <1>0, <1>28, TellDoes
<1>29. ASSUME NEW t \in Tasks, Mark(t) PROVE Steady(t)
  BY <1>0, <1>29, MarkDoes
<1>30. ASSUME NEW t \in Tasks, MarkFails(t) PROVE Threw'
  BY <1>0, <1>30, Thrown
<1>31. ASSUME NEW t \in Tasks, Kill(t) PROVE Steady(t)
  <2>1. \/ /\ task[t].kind = "unmount" /\ task'[t].kind = "unmount" /\ task'[t].at = "forget"
           /\ task'[t].bot = task[t].bot
        \/ task[t].kind # "unmount" /\ task'[t].at = "over"
    BY <1>0, <1>31, KillDoes
  <2>. QED BY <1>0, <1>31, <2>1, KillDoes
<1>32. ASSUME NEW t \in Tasks, Mount(t) PROVE MountsInv'
  <2> SUFFICES ASSUME "mounts" \notin crossings' PROVE OneMoves' /\ MovesSound' /\ HasState'
    BY DEF MountsInv
  <2>1. /\ task[t].at = "mount" /\ task'[t].at = "fetch" /\ task'[t].kind = task[t].kind
        /\ current' = t + 1 /\ mounted' = mounted /\ crossings' = crossings
    BY <1>0, <1>32, MountDoes
  <2>2. /\ OneMoves /\ MovesSound
        /\ \A u \in Tasks \ {t} : ~ Mover(task[u]) /\ ~ Mover(task'[u])
        /\ task[t].kind = IF task[t].at \in {"mount", "up"} THEN "mount" ELSE "unmount"
    <3>1. Others(t) /\ "mounts" \notin crossings
      BY <1>0, <1>32, <2>1, MountDoes
    <3>. QED BY <1>0, <2>1, <3>1, OnlyMover
  <2>3. OneMoves'
    BY <2>2 DEF OneMoves, Live
  <2>4. MovesSound'
    BY <2>1, <2>2 DEF MovesSound, Live
  <2>5. HasState'
    BY <2>1, <2>2, Constants DEF HasState, MovesSound, Live, None
  <2>. QED BY <2>3, <2>4, <2>5
<1>33. ASSUME NEW t \in Tasks, Up(t) PROVE MountsInv'
  <2> SUFFICES ASSUME "mounts" \notin crossings' PROVE OneMoves' /\ MovesSound' /\ HasState'
    BY DEF MountsInv
  <2>1. /\ task[t].at = "up" /\ task'[t].at = "over"
        /\ current' = current /\ mounted' = TRUE /\ crossings' = crossings
    BY <1>0, <1>33, UpDoes
  <2>2. /\ OneMoves /\ MovesSound
        /\ \A u \in Tasks \ {t} : ~ Mover(task[u]) /\ ~ Mover(task'[u])
        /\ task[t].kind = IF task[t].at \in {"mount", "up"} THEN "mount" ELSE "unmount"
    <3>1. Others(t) /\ "mounts" \notin crossings
      BY <1>0, <1>33, <2>1, UpDoes
    <3>. QED BY <1>0, <2>1, <3>1, OnlyMover
  <2>3. OneMoves'
    BY <2>2 DEF OneMoves, Live
  <2>4. MovesSound'
    BY <2>1, <2>2 DEF MovesSound, Live
  <2>5. HasState'
    BY <2>1, <2>2, Constants DEF HasState, MovesSound, Live, None
  <2>. QED BY <2>3, <2>4, <2>5
<1>34. ASSUME NEW t \in Tasks, Unmount(t) PROVE Steady(t)
  BY <1>0, <1>34, UnmountDoes
<1>35. ASSUME NEW t \in Tasks, Forget(t) PROVE Steady(t)
  <2>1. /\ task[t].at = "forget" /\ task'[t].at = "finish" /\ task'[t].kind = task[t].kind
        /\ task'[t].bot = task[t].bot /\ task[t].kind = "unmount"
        /\ UNCHANGED <<mounted, current, crossings>> /\ Others(t)
    BY <1>0, <1>35, ForgetDoes
  <2>. QED BY <2>1
<1>36. ASSUME NEW t \in Tasks, Finish(t) PROVE MountsInv'
  <2> SUFFICES ASSUME "mounts" \notin crossings' PROVE OneMoves' /\ MovesSound' /\ HasState'
    BY DEF MountsInv
  <2>1. /\ task[t].at = "finish" /\ task'[t].at = "down" /\ task'[t].kind = task[t].kind
        /\ current' = None /\ mounted' = mounted /\ crossings \subseteq crossings'
    BY <1>0, <1>36, FinishDoes
  <2>2. /\ OneMoves /\ MovesSound
        /\ \A u \in Tasks \ {t} : ~ Mover(task[u]) /\ ~ Mover(task'[u])
        /\ task[t].kind = IF task[t].at \in {"mount", "up"} THEN "mount" ELSE "unmount"
    <3>1. Others(t) /\ "mounts" \notin crossings
      BY <1>0, <1>36, <2>1, FinishDoes
    <3>. QED BY <1>0, <2>1, <3>1, OnlyMover
  <2>3. OneMoves'
    BY <2>2 DEF OneMoves, Live
  <2>4. MovesSound'
    BY <2>1, <2>2 DEF MovesSound, Live
  <2>5. HasState'
    BY <2>1, <2>2, Constants DEF HasState, MovesSound, Live, None
  <2>. QED BY <2>3, <2>4, <2>5
<1>37. ASSUME NEW t \in Tasks, Down(t) PROVE MountsInv'
  <2> SUFFICES ASSUME "mounts" \notin crossings' PROVE OneMoves' /\ MovesSound' /\ HasState'
    BY DEF MountsInv
  <2>1. /\ task[t].at = "down" /\ task'[t].at = "over"
        /\ current' = current /\ mounted' = FALSE /\ crossings' = crossings
    BY <1>0, <1>37, DownDoes
  <2>2. /\ OneMoves /\ MovesSound
        /\ \A u \in Tasks \ {t} : ~ Mover(task[u]) /\ ~ Mover(task'[u])
        /\ task[t].kind = IF task[t].at \in {"mount", "up"} THEN "mount" ELSE "unmount"
    <3>1. Others(t) /\ "mounts" \notin crossings
      BY <1>0, <1>37, <2>1, DownDoes
    <3>. QED BY <1>0, <2>1, <3>1, OnlyMover
  <2>3. OneMoves'
    BY <2>2 DEF OneMoves, Live
  <2>4. MovesSound'
    BY <2>1, <2>2 DEF MovesSound, Live
  <2>5. HasState'
    BY <2>1, <2>2, Constants DEF HasState, MovesSound, Live, None
  <2>. QED BY <2>3, <2>4, <2>5
<1>38. ASSUME NEW t \in Tasks, Predict(t) PROVE Steady(t)
  BY <1>0, <1>38, PredictDoes
<1>39. ASSUME NEW t \in Tasks, Pull(t) PROVE Steady(t)
  BY <1>0, <1>39, PullDoes
<1>40. ASSUME NEW t \in Tasks, Adopt(t) PROVE Steady(t)
  BY <1>0, <1>40, AdoptDoes
<1>41. ASSUME NEW t \in Tasks, PredictFails(t) PROVE Steady(t)
  BY <1>0, <1>41, PredictFailsDoes
<1>42. ASSUME Edit PROVE MountsInv'
  <2>1. CASE task' = task
    BY <1>0, <1>42, <2>1, EditDoes DEF MountsInv, OneMoves, MovesSound, HasState, Live
  <2>2. ASSUME NEW t \in Tasks, Begins(t, "announce", "read", None) PROVE Steady(t)
    BY <1>0, <1>42, <2>2, EditDoes DEF Begins
  <2>. QED BY <1>0, <1>42, <2>1, <2>2, EditDoes, SteadyKeeps
<1>43. ASSUME Evict PROVE MountsInv'
  BY <1>0, <1>43, EvictDoes DEF MountsInv, OneMoves, MovesSound, HasState, Live
<1>44. ASSUME Expire PROVE MountsInv'
  BY <1>0, <1>44, ExpireDoes DEF MountsInv, OneMoves, MovesSound, HasState, Live
<1>k. \A t \in Tasks : Steady(t) => MountsInv'
  BY <1>0, SteadyKeeps
<1> HIDE DEF Steady
<1>. QED
  BY <1>1, <1>2, <1>3, <1>4, <1>5, <1>6, <1>7, <1>8, <1>9, <1>10, <1>11, <1>12, <1>13, <1>14, <1>15, <1>16, <1>17,
     <1>18, <1>19, <1>20, <1>21, <1>22, <1>23, <1>24, <1>25, <1>26, <1>27, <1>28, <1>29, <1>30, <1>31, <1>32, <1>33,
     <1>34, <1>35, <1>36, <1>37, <1>38, <1>39, <1>40, <1>41, <1>42, <1>43, <1>44, <1>k DEF Next, Run

-----------------------------------------------------------------------------
(* The status of a training that is under way. *)

\* The status is not that of a training, or the task writes it again, or the task is
\* none of those that do; or it leaves that to another.
RowKept(t) ==
  /\ \A u \in Tasks \ {t} : Same(task'[u], task[u]) \/ TurnsCaught(u)
  /\ \/ row' \notin Busy
     \/ task'[t].at \in Writers
     \/ row' = row /\ \E u \in Tasks \ {t} : task[u].at \in Writers \/ (InRun(u) /\ task[t].at \notin Writers)
     \/ /\ row' = row /\ task[t].at \notin Writers
        /\ mounted' => mounted \/ ~ NotWritten(task[t])
        /\ NotWritten(task[t]) => NotWritten(task'[t])

LEMMA RowKeptKeeps ==
  ASSUME Rewritten, NEW t \in Tasks, RowKept(t)
  PROVE  Rewritten'
<1> SUFFICES ASSUME row' \in Busy, \A u \in Tasks : task'[u].at \notin Writers
             PROVE  ~ mounted' /\ \A u \in Tasks : NotWritten(task'[u])
  BY DEF Rewritten
<1>1. \A u \in Tasks \ {t} : task[u].at \notin Writers
  BY DEF RowKept, Same, TurnsCaught, Writers
<1>2. row' = row
  BY DEF RowKept
<1>3. ASSUME \A u \in Tasks : NotWritten(task[u]) PROVE \A u \in Tasks \ {t} : ~ InRun(u)
  BY <1>1, <1>3 DEF NotWritten, InRun, RunSteps, Writers
<1>4. task[t].at \notin Writers
  BY <1>1 DEF RowKept
<1>5. ~ mounted /\ \A u \in Tasks : NotWritten(task[u])
  BY <1>1, <1>2, <1>4 DEF Rewritten
<1>6. (mounted' => mounted \/ ~ NotWritten(task[t])) /\ NotWritten(task'[t])
  BY <1>1, <1>3, <1>5 DEF RowKept
<1>7. \A u \in Tasks \ {t} : NotWritten(task'[u])
  BY <1>5 DEF RowKept, Same, TurnsCaught, NotWritten, Announcing
<1>. QED BY <1>5, <1>6, <1>7

LEMMA RewrittenKept ==
  ASSUME LockInv, TasksInv, Rewritten, ~ Threw, Next, ~ Threw', ~ Restart
  PROVE  Rewritten'
<1>0. /\ TypeOK /\ KindsKnown
      /\ \A t \in Tasks : KindFits(task[t]) /\ task[t].threw = FALSE
  BY DEF LockInv, TasksInv, KindsKnown, Threw, TypeOK, TaskRecord
<1> USE DEF RowKept, Turns, StepsTo, Stops, Stopped, RunEnds, AnnouncementEnds, Others, KindFits,
          Announcing, NotWritten, Writers, Busy
<1>1. ASSUME NEW t \in Tasks, Request(t) PROVE RowKept(t)
  BY <1>0, <1>1, RequestDoes DEF Begins
<1>2. ASSUME NEW t \in Tasks, Throws(t) PROVE Threw'
  BY <1>0, <1>2, Thrown
<1>3. ASSUME NEW t \in Tasks, Fetch(t) PROVE RowKept(t)
  BY <1>0, <1>3, FetchDoes
<1>4. ASSUME NEW t \in Tasks, TakeLock(t) PROVE RowKept(t)
  <2>1. CASE StepsTo(t, "find")
    BY <1>0, <1>4, <2>1, TakeLockDoes
  <2>2. CASE ~ MayAcquire /\ RunEnds(t)
    <3>1. lock.by \in Tasks /\ InRun(lock.by)
      BY <1>0, <2>2, Constants DEF LockInv, TypeOK, LockTypeOK, LockLeftOnlyByThrow, MayAcquire
    <3>2. lock.by # t
      BY <1>0, <1>4, <3>1, TakeLockDoes DEF InRun, RunSteps
    <3>. QED BY <1>0, <1>4, <2>2, <3>1, <3>2, TakeLockDoes
  <2>. QED BY <1>0, <1>4, <2>1, <2>2, TakeLockDoes
<1>5. ASSUME NEW t \in Tasks, Find(t) PROVE RowKept(t)
  BY <1>0, <1>5, FindDoes
<1>6. ASSUME NEW t \in Tasks, FindFails(t) PROVE Threw'
  BY <1>0, <1>6, Thrown
<1>7. ASSUME NEW t \in Tasks, Start(t) PROVE RowKept(t)
  <2>1. CASE active
    <3>1. PICK u \in Tasks : task[u].at = "train"
      BY <2>1 DEF TasksInv, EngineTrains
    <3>. QED BY <1>0, <1>7, <2>1, <3>1, StartDoes
  <2>2. CASE ~ active
    BY <1>0, <1>7, <2>2, StartDoes
  <2>. QED BY <2>1, <2>2
<1>8. ASSUME NEW t \in Tasks, Created(t) PROVE RowKept(t)
  BY <1>0, <1>8, CreatedDoes
<1>9. ASSUME NEW t \in Tasks, Progress(t) PROVE RowKept(t)
  BY <1>0, <1>9, ProgressDoes
<1>10. ASSUME NEW t \in Tasks, Trained(t) PROVE RowKept(t)
  BY <1>0, <1>10, TrainedDoes
<1>11. ASSUME NEW t \in Tasks, TrainingFails(t) PROVE RowKept(t)
  BY <1>0, <1>11, TrainingFailsDoes
<1>12. ASSUME NEW t \in Tasks, Caught(t) PROVE RowKept(t)
  BY <1>0, <1>12, CaughtDoes
<1>13. ASSUME NEW t \in Tasks, CaughtFails(t) PROVE Threw'
  BY <1>0, <1>13, Thrown
<1>14. ASSUME NEW t \in Tasks, Keep(t) PROVE RowKept(t)
  BY <1>0, <1>14, KeepDoes
<1>15. ASSUME NEW t \in Tasks, KeepFails(t) PROVE RowKept(t)
  BY <1>0, <1>15, KeepFailsDoes
<1>16. ASSUME NEW t \in Tasks, Save(t) PROVE RowKept(t)
  BY <1>0, <1>16, SaveDoes
<1>17. ASSUME NEW t \in Tasks, SaveFails(t) PROVE RowKept(t)
  BY <1>0, <1>17, SaveFailsDoes
<1>18. ASSUME NEW t \in Tasks, Broadcast(t) PROVE RowKept(t)
  BY <1>0, <1>18, BroadcastDoes
<1>19. ASSUME NEW t \in Tasks, Reload(t) PROVE RowKept(t)
  BY <1>0, <1>19, ReloadDoes
<1>20. ASSUME NEW t \in Tasks, Load(t) PROVE RowKept(t)
  BY <1>0, <1>20, LoadDoes
<1>21. ASSUME NEW t \in Tasks, LoadFails(t) PROVE Threw'
  BY <1>0, <1>21, Thrown
<1>22. ASSUME NEW t \in Tasks, Release(t) PROVE RowKept(t)
  BY <1>0, <1>22, ReleaseDoes
<1>23. ASSUME NEW t \in Tasks, ReleaseFails(t) PROVE Threw'
  BY <1>0, <1>23, Thrown
<1>24. ASSUME NEW t \in Tasks, Read(t) PROVE RowKept(t)
  BY <1>0, <1>24, ReadDoes
<1>25. ASSUME NEW t \in Tasks, Decide(t) PROVE RowKept(t)
  BY <1>0, <1>25, DecideDoes
<1>26. ASSUME NEW t \in Tasks, Announce(t) PROVE RowKept(t)
  BY <1>0, <1>26, AnnounceDoes
<1>27. ASSUME NEW t \in Tasks, Clear(t) PROVE RowKept(t)
  BY <1>0, <1>27, ClearDoes
<1>28. ASSUME NEW t \in Tasks, Tell(t) PROVE RowKept(t)
  BY <1>0, <1>28, TellDoes
<1>29. ASSUME NEW t \in Tasks, Mark(t) PROVE RowKept(t)
  BY <1>0, <1>29, MarkDoes
<1>30. ASSUME NEW t \in Tasks, MarkFails(t) PROVE Threw'
  BY <1>0, <1>30, Thrown
<1>31. ASSUME NEW t \in Tasks, Kill(t) PROVE RowKept(t)
  BY <1>0, <1>31, KillDoes
<1>32. ASSUME NEW t \in Tasks, Mount(t) PROVE RowKept(t)
  BY <1>0, <1>32, MountDoes
<1>33. ASSUME NEW t \in Tasks, Up(t) PROVE RowKept(t)
  BY <1>0, <1>33, UpDoes
<1>34. ASSUME NEW t \in Tasks, Unmount(t) PROVE RowKept(t)
  BY <1>0, <1>34, UnmountDoes
<1>35. ASSUME NEW t \in Tasks, Forget(t) PROVE RowKept(t)
  BY <1>0, <1>35, ForgetDoes
<1>36. ASSUME NEW t \in Tasks, Finish(t) PROVE RowKept(t)
  BY <1>0, <1>36, FinishDoes
<1>37. ASSUME NEW t \in Tasks, Down(t) PROVE RowKept(t)
  BY <1>0, <1>37, DownDoes
<1>38. ASSUME NEW t \in Tasks, Predict(t) PROVE RowKept(t)
  BY <1>0, <1>38, PredictDoes
<1>39. ASSUME NEW t \in Tasks, Pull(t) PROVE RowKept(t)
  BY <1>0, <1>39, PullDoes
<1>40. ASSUME NEW t \in Tasks, Adopt(t) PROVE RowKept(t)
  BY <1>0, <1>40, AdoptDoes
<1>41. ASSUME NEW t \in Tasks, PredictFails(t) PROVE RowKept(t)
  BY <1>0, <1>41, PredictFailsDoes
<1>42. ASSUME Edit PROVE Rewritten'
  <2>1. CASE task' = task
    BY <1>0, <1>42, <2>1, EditDoes DEF Rewritten
  <2>2. ASSUME NEW t \in Tasks, Begins(t, "announce", "read", None) PROVE RowKept(t)
    BY <1>0, <1>42, <2>2, EditDoes DEF Begins
  <2>. QED BY <1>0, <1>42, <2>1, <2>2, EditDoes, RowKeptKeeps
<1>43. ASSUME Evict PROVE Rewritten'
  BY <1>0, <1>43, EvictDoes DEF Rewritten
<1>44. ASSUME Expire PROVE Rewritten'
  BY <1>0, <1>44, ExpireDoes DEF Rewritten
<1>k. \A t \in Tasks : RowKept(t) => Rewritten'
  BY RowKeptKeeps
<1> HIDE DEF RowKept
<1>. QED
  BY <1>1, <1>2, <1>3, <1>4, <1>5, <1>6, <1>7, <1>8, <1>9, <1>10, <1>11, <1>12, <1>13, <1>14, <1>15, <1>16, <1>17,
     <1>18, <1>19, <1>20, <1>21, <1>22, <1>23, <1>24, <1>25, <1>26, <1>27, <1>28, <1>29, <1>30, <1>31, <1>32, <1>33,
     <1>34, <1>35, <1>36, <1>37, <1>38, <1>39, <1>40, <1>41, <1>42, <1>43, <1>44, <1>k DEF Next, Run

-----------------------------------------------------------------------------
(* The model that is served, and the files. *)

\* The model that is served stays, and so do the files; the task was not one that
\* saves a model or has the newest one served.
ServesOn(t) ==
  /\ \A u \in Tasks \ {t} : Same(task'[u], task[u]) \/ TurnsCaught(u)
  /\ stored' = stored /\ crossings \subseteq crossings'
  /\ current' = None \/ (current' = current /\ bots'[current].model = bots[current].model)
  /\ task[t].at \notin {"save", "broadcast", "reload"}

LEMMA ServesOnKeeps ==
  ASSUME FilesInv, NEW t \in Tasks, ServesOn(t)
  PROVE  FilesInv'
<1> SUFFICES ASSUME crossings' \cap {"message", "unsaved"} = {}, current' # None PROVE ServedKept'
  BY DEF FilesInv, ServedKept
<1>1. ServedKept /\ current' = current /\ bots'[current].model = bots[current].model /\ stored' = stored
  BY DEF FilesInv, ServesOn
<1>2. CASE bots[current].model \in Files \cup {None}
  BY <1>1, <1>2 DEF ServedKept, Files
<1>3. ASSUME NEW u \in Tasks, Replaces(u) PROVE Replaces(u)'
  <2>1. u # t
    BY <1>3 DEF ServesOn, Replaces
  <2>2. Same(task'[u], task[u])
    BY <1>3, <2>1 DEF ServesOn, Replaces, TurnsCaught
  <2>. QED BY <1>1, <1>3, <2>2 DEF Replaces, Same
<1>. QED BY <1>1, <1>2, <1>3 DEF ServedKept

LEMMA FilesKept ==
  ASSUME LockInv, TasksInv, FilesInv, ~ Threw, Next, ~ Threw', ~ Restart
  PROVE  FilesInv'
<1>0. /\ TypeOK /\ ModelsKnown /\ current \in BotIds \cup {None}
      /\ \A t \in Tasks : task[t].at = "adopt" => task[t].bot \in BotIds \cup {None}
      /\ FilesInv
  BY DEF LockInv, TypeOK, TaskRecord
<1> USE DEF ServesOn, Turns, StepsTo, Stops, Stopped, RunEnds, AnnouncementEnds, Others, BotsKeep
<1>1. ASSUME NEW t \in Tasks, Request(t) PROVE ServesOn(t)
  BY <1>0, <1>1, RequestDoes DEF Begins
<1>2. ASSUME NEW t \in Tasks, Throws(t) PROVE Threw'
  BY <1>0, <1>2, Thrown
<1>3. ASSUME NEW t \in Tasks, Fetch(t) PROVE ServesOn(t)
  BY <1>0, <1>3, FetchDoes
<1>4. ASSUME NEW t \in Tasks, TakeLock(t) PROVE ServesOn(t)
  BY <1>0, <1>4, TakeLockDoes
<1>5. ASSUME NEW t \in Tasks, Find(t) PROVE ServesOn(t)
  BY <1>0, <1>5, FindDoes
<1>6. ASSUME NEW t \in Tasks, FindFails(t) PROVE Threw'
  BY <1>0, <1>6, Thrown
<1>7. ASSUME NEW t \in Tasks, Start(t) PROVE ServesOn(t)
  BY <1>0, <1>7, StartDoes
<1>8. ASSUME NEW t \in Tasks, Created(t) PROVE ServesOn(t)
  BY <1>0, <1>8, CreatedDoes
<1>9. ASSUME NEW t \in Tasks, Progress(t) PROVE ServesOn(t)
  BY <1>0, <1>9, ProgressDoes
<1>10. ASSUME NEW t \in Tasks, Trained(t) PROVE ServesOn(t)
  BY <1>0, <1>10, TrainedDoes
<1>11. ASSUME NEW t \in Tasks, TrainingFails(t) PROVE ServesOn(t)
  BY <1>0, <1>11, TrainingFailsDoes
<1>12. ASSUME NEW t \in Tasks, Caught(t) PROVE ServesOn(t)
  BY <1>0, <1>12, CaughtDoes
<1>13. ASSUME NEW t \in Tasks, CaughtFails(t) PROVE Threw'
  BY <1>0, <1>13, Thrown
<1>14. ASSUME NEW t \in Tasks, Keep(t) PROVE FilesInv'
  <2> SUFFICES ASSUME crossings' \cap {"message", "unsaved"} = {}, current' # None PROVE ServedKept'
    BY DEF FilesInv, ServedKept
  <2>1. /\ current' = current /\ current \in BotIds /\ stored' = stored
        /\ bots'[current].model = IF current = task[t].bot THEN task[t].model ELSE bots[current].model
        /\ task[t].at = "keep" /\ task'[t].at = "save" /\ task'[t].bot = task[t].bot /\ task'[t].model = task[t].model
        /\ Others(t) /\ ServedKept
    BY <1>0, <1>14, KeepDoes DEF FilesInv, BotGets
  <2>2. CASE current = task[t].bot
    BY <2>1, <2>2 DEF ServedKept, Replaces
  <2>3. CASE current # task[t].bot
    <3>1. \A u \in Tasks : Replaces(u) => Replaces(u)'
      BY <2>1, <2>3 DEF Replaces, Same
    <3>. QED BY <2>1, <2>3, <3>1 DEF ServedKept, Files
  <2>. QED BY <2>2, <2>3
<1>15. ASSUME NEW t \in Tasks, KeepFails(t) PROVE FilesInv'
  BY <1>0, <1>15, KeepFailsDoes DEF FilesInv
<1>16. ASSUME NEW t \in Tasks, Save(t) PROVE FilesInv'
  <2>1. task'[t].at = "broadcast" /\ task'[t].model = task[t].model /\ task[t].model # None
    BY <1>0, <1>16, Constants, SaveDoes DEF ModelsKnown
  <2>2. stored' = With(task[t].model)
    BY <1>0, <1>16, SaveDoes
  <2>3. stored'.newest = task[t].model
    BY <2>2 DEF With
  <2>. QED BY <2>1, <2>3 DEF FilesInv, ServedKept, Replaces
<1>17. ASSUME NEW t \in Tasks, SaveFails(t) PROVE FilesInv'
  BY <1>0, <1>17, SaveFailsDoes DEF FilesInv
<1>18. ASSUME NEW t \in Tasks, Broadcast(t) PROVE FilesInv'
  <2> SUFFICES ASSUME crossings' \cap {"message", "unsaved"} = {}, current' # None PROVE ServedKept'
    BY DEF FilesInv, ServedKept
  <2>1. /\ current' = current /\ bots'[current].model = bots[current].model /\ stored' = stored
        /\ task[t].at = "broadcast" /\ task'[t].model = task[t].model
        /\ task[t].model # None => task'[t].at = "reload"
        /\ Others(t) /\ ServedKept
    BY <1>0, <1>18, BroadcastDoes DEF FilesInv
  <2>2. \A u \in Tasks : Replaces(u) => Replaces(u)'
    BY <2>1 DEF Replaces, Same
  <2>. QED BY <2>1, <2>2 DEF ServedKept, Files
<1>19. ASSUME NEW t \in Tasks, Reload(t) PROVE FilesInv'
  <2> SUFFICES ASSUME crossings' \cap {"message", "unsaved"} = {}, current' # None PROVE ServedKept'
    BY DEF FilesInv, ServedKept
  <2>1. current' = current /\ current \in BotIds /\ stored' = stored /\ task[t].at = "reload" /\ ServedKept
    BY <1>0, <1>19, ReloadDoes DEF FilesInv
  <2>2. CASE task[t].model \in Files /\ BotGets(current, task[t].model)
    BY <2>1, <2>2 DEF ServedKept, BotGets, Files
  <2>3. CASE task[t].model \notin Files /\ BotsKeep /\ StepsTo(t, "unlock")
    <3>1. ~ Replaces(t)
      BY <2>1, <2>3 DEF Replaces, Files
    <3>2. \A u \in Tasks : Replaces(u) => Replaces(u)'
      BY <2>1, <2>3, <3>1 DEF Replaces, Same
    <3>. QED BY <2>1, <2>3, <3>2 DEF ServedKept, Files
  <2>. QED BY <1>0, <1>19, <2>1, <2>2, <2>3, ReloadDoes
<1>20. ASSUME NEW t \in Tasks, Load(t) PROVE ServesOn(t)
  BY <1>0, <1>20, LoadDoes
<1>21. ASSUME NEW t \in Tasks, LoadFails(t) PROVE Threw'
  BY <1>0, <1>21, Thrown
<1>22. ASSUME NEW t \in Tasks, Release(t) PROVE ServesOn(t)
  BY <1>0, <1>22, ReleaseDoes
<1>23. ASSUME NEW t \in Tasks, ReleaseFails(t) PROVE Threw'
  BY <1>0, <1>23, Thrown
<1>24. ASSUME NEW t \in Tasks, Read(t) PROVE ServesOn(t)
  BY <1>0, <1>24, ReadDoes
<1>25. ASSUME NEW t \in Tasks, Decide(t) PROVE ServesOn(t)
  BY <1>0, <1>25, DecideDoes
<1>26. ASSUME NEW t \in Tasks, Announce(t) PROVE ServesOn(t)
  BY <1>0, <1>26, AnnounceDoes
<1>27. ASSUME NEW t \in Tasks, Clear(t) PROVE ServesOn(t)
  BY <1>0, <1>27, ClearDoes
<1>28. ASSUME NEW t \in Tasks, Tell(t) PROVE ServesOn(t)
  BY <1>0, <1>28, TellDoes
<1>29. ASSUME NEW t \in Tasks, Mark(t) PROVE ServesOn(t)
  BY <1>0, <1>29, MarkDoes
<1>30. ASSUME NEW t \in Tasks, MarkFails(t) PROVE Threw'
  BY <1>0, <1>30, Thrown
<1>31. ASSUME NEW t \in Tasks, Kill(t) PROVE ServesOn(t)
  BY <1>0, <1>31, KillDoes
<1>32. ASSUME NEW t \in Tasks, Mount(t) PROVE FilesInv'
  <2>1. current' = t + 1 /\ t + 1 \in BotIds /\ bots'[t + 1].model = None
    BY <1>0, <1>32, Constants, MountDoes DEF TasksInv, MountsFresh
  <2>. QED BY <2>1 DEF FilesInv, ServedKept
<1>33. ASSUME NEW t \in Tasks, Up(t) PROVE ServesOn(t)
  BY <1>0, <1>33, UpDoes
<1>34. ASSUME NEW t \in Tasks, Unmount(t) PROVE ServesOn(t)
  BY <1>0, <1>34, UnmountDoes
<1>35. ASSUME NEW t \in Tasks, Forget(t) PROVE ServesOn(t)
  BY <1>0, <1>35, ForgetDoes
<1>36. ASSUME NEW t \in Tasks, Finish(t) PROVE ServesOn(t)
  BY <1>0, <1>36, FinishDoes
<1>37. ASSUME NEW t \in Tasks, Down(t) PROVE ServesOn(t)
  BY <1>0, <1>37, DownDoes
<1>38. ASSUME NEW t \in Tasks, Predict(t) PROVE ServesOn(t)
  BY <1>0, <1>38, PredictDoes
<1>39. ASSUME NEW t \in Tasks, Pull(t) PROVE ServesOn(t)
  BY <1>0, <1>39, PullDoes
<1>40. ASSUME NEW t \in Tasks, Adopt(t) PROVE FilesInv'
  <2>1. CASE task[t].bot # current \/ current = None
    <3>. ServesOn(t)
      BY <1>0, <1>40, <2>1, AdoptDoes DEF BotGets
    <3>. QED BY <1>0, ServesOnKeeps
  <2>2. CASE task[t].bot = current /\ current # None
    <3>1. "message" \notin crossings' => bots'[current].model \in Files
      BY <1>0, <1>40, <2>2, AdoptDoes DEF BotGets
    <3>2. current' = current /\ stored' = stored
      BY <1>0, <1>40, AdoptDoes
    <3>. QED BY <3>1, <3>2 DEF FilesInv, ServedKept, Files
  <2>. QED BY <2>1, <2>2
<1>41. ASSUME NEW t \in Tasks, PredictFails(t) PROVE ServesOn(t)
  BY <1>0, <1>41, PredictFailsDoes
<1>42. ASSUME Edit PROVE FilesInv'
  <2>1. CASE task' = task
    <3>1. current' = current /\ stored' = stored /\ crossings \subseteq crossings'
          /\ (current # None => bots'[current].model = bots[current].model)
      BY <1>0, <1>42, EditDoes
    <3>. QED BY <1>0, <2>1, <3>1 DEF FilesInv, ServedKept, Replaces, Files
  <2>2. ASSUME NEW t \in Tasks, Begins(t, "announce", "read", None) PROVE ServesOn(t)
    BY <1>0, <1>42, <2>2, EditDoes DEF Begins
  <2>. QED BY <1>0, <1>42, <2>1, <2>2, EditDoes, ServesOnKeeps
<1>43. ASSUME Evict PROVE FilesInv'
  <2>1. task' = task /\ current' = current /\ stored' = stored /\ crossings \subseteq crossings'
        /\ (current # None => bots'[current].model = bots[current].model)
    BY <1>0, <1>43, EvictDoes
  <2>. QED BY <1>0, <2>1 DEF FilesInv, ServedKept, Replaces, Files
<1>44. ASSUME Expire PROVE FilesInv'
  <2>1. task' = task /\ current' = current /\ stored' = stored /\ crossings \subseteq crossings'
        /\ (current # None => bots'[current].model = bots[current].model)
    BY <1>0, <1>44, ExpireDoes
  <2>. QED BY <1>0, <2>1 DEF FilesInv, ServedKept, Replaces, Files
<1>k. \A t \in Tasks : ServesOn(t) => FilesInv'
  BY <1>0, ServesOnKeeps
<1> HIDE DEF ServesOn
<1>. QED
  BY <1>1, <1>2, <1>3, <1>4, <1>5, <1>6, <1>7, <1>8, <1>9, <1>10, <1>11, <1>12, <1>13, <1>14, <1>15, <1>16, <1>17,
     <1>18, <1>19, <1>20, <1>21, <1>22, <1>23, <1>24, <1>25, <1>26, <1>27, <1>28, <1>29, <1>30, <1>31, <1>32, <1>33,
     <1>34, <1>35, <1>36, <1>37, <1>38, <1>39, <1>40, <1>41, <1>42, <1>43, <1>44, <1>k DEF Next, Run

-----------------------------------------------------------------------------
(* The status done. *)

\* The bot state of the moment and what it serves stay, and so do the definitions and
\* the files; what the task settled is settled, or it will still settle it.
SettlesOn(t) ==
  /\ \A u \in Tasks \ {t} : Same(task'[u], task[u]) \/ TurnsCaught(u)
  /\ defs' = defs /\ current' = current /\ stored' = stored /\ crossings \subseteq crossings'
  /\ Serves(defs) => bots'[current].model = defs
  /\ RunFits(t) => RunFits(t)'
  /\ row' # "done" \/ (row' = row /\ (Settles(t) => Settles(t)' \/ bots'[current].model = defs))

LEMMA SettlesOnKeeps ==
  ASSUME DoneInv, NEW t \in Tasks, Undisturbed' => SettlesOn(t)
  PROVE  DoneInv'
<1> SUFFICES ASSUME Undisturbed' PROVE (\A u \in Tasks : RunFits(u)') /\ DoneSound'
  BY DEF DoneInv
<1>1. SettlesOn(t) /\ (\A u \in Tasks : RunFits(u)) /\ DoneSound
  BY DEF DoneInv, Undisturbed, SettlesOn
<1>2. defs' = defs /\ current' = current /\ stored' = stored /\ Files' = Files
  BY <1>1 DEF SettlesOn, Files
<1>3. ASSUME NEW u \in Tasks \ {t} PROVE RunFits(u)' /\ (Settles(u) => Settles(u)')
  <2>1. CASE Same(task'[u], task[u])
    BY <1>1, <1>2, <2>1 DEF Same, RunFits, Settles
  <2>2. CASE TurnsCaught(u)
    <3>1. RunFits(u)'
      BY <1>1, <1>2, <2>2 DEF TurnsCaught, RunFits, TrainOrLoad, RunSteps
    <3>2. Settles(u) => Settles(u)'
      BY <1>1, <1>2, <2>2 DEF TurnsCaught, Settles, TrainOrLoad, RunSteps
    <3>. QED BY <3>1, <3>2
  <2>. QED BY <1>1, <2>1, <2>2 DEF SettlesOn
<1>4. DoneSound'
  <2> SUFFICES ASSUME row' = "done", current # None
               PROVE  bots'[current].model = defs \/ \E u \in Tasks : Settles(u)'
    BY <1>2 DEF DoneSound, Serves
  <2>. QED BY <1>1, <1>3 DEF DoneSound, SettlesOn, Serves
<1>. QED BY <1>1, <1>3, <1>4 DEF SettlesOn

\* A model is served: it is that of the definitions.
LEMMA ServesNow ==
  ASSUME DoneInv, \A u \in Tasks : Same(task'[u], task[u]) \/ RunFits(u)',
         UNCHANGED <<defs, current>>, crossings \subseteq crossings', Undisturbed' => bots'[current].model = defs
  PROVE  DoneInv'
<1> SUFFICES ASSUME Undisturbed' PROVE (\A u \in Tasks : RunFits(u)') /\ DoneSound'
  BY DEF DoneInv
<1>1. \A u \in Tasks : RunFits(u)
  BY DEF DoneInv, Undisturbed
<1>2. \A u \in Tasks : RunFits(u)'
  BY <1>1 DEF RunFits, Same
<1>. QED BY <1>2 DEF DoneSound, Serves

LEMMA DoneKept ==
  ASSUME LockInv, TasksInv, MountsInv, DoneInv, ~ Threw, Next, ~ Threw', ~ Restart
  PROVE  DoneInv'
<1>0. /\ TypeOK /\ ModelsKnown /\ KindsKnown /\ current \in BotIds \cup {None} /\ defs \in Versions /\ defs # None
      /\ \A t \in Tasks : KindFits(task[t]) /\ task[t].threw = FALSE
      /\ \A t \in Tasks : task[t].model \in Versions \cup {None} /\ task[t].bot \in BotIds \cup {None}
      /\ DoneInv
  BY Constants DEF LockInv, TasksInv, KindsKnown, Threw, TypeOK, TaskRecord
<1>r. Undisturbed => \A t \in Tasks : RunFits(t)
  BY DEF DoneInv
<1> USE DEF SettlesOn, Turns, StepsTo, Stops, Stopped, RunEnds, AnnouncementEnds, Others, BotsKeep,
          TrainOrLoad, RunSteps, RunFits, Settles, Serves, Files
<1>1. ASSUME NEW t \in Tasks, Request(t) PROVE Undisturbed' => SettlesOn(t)
  BY <1>0, <1>1, RequestDoes DEF Begins
<1>2. ASSUME NEW t \in Tasks, Throws(t) PROVE Threw'
  BY <1>0, <1>2, Thrown
<1>3. ASSUME NEW t \in Tasks, Fetch(t) PROVE Undisturbed' => SettlesOn(t)
  BY <1>0, <1>3, FetchDoes DEF KindFits
<1>4. ASSUME NEW t \in Tasks, TakeLock(t) PROVE Undisturbed' => SettlesOn(t)
  BY <1>0, <1>4, TakeLockDoes
<1>5. ASSUME NEW t \in Tasks, Find(t) PROVE DoneInv'
  <2> SUFFICES ASSUME Undisturbed' PROVE (\A u \in Tasks : RunFits(u)') /\ DoneSound'
    BY DEF DoneInv
  <2>1. /\ Others(t) /\ task[t].at = "find" /\ UNCHANGED <<current, defs, stored, crossings>>
        /\ Undisturbed /\ RunFits(t)
    BY <1>0, <1>r, <1>5, FindDoes DEF Undisturbed
  <2>2. task[t].version = defs /\ task[t].bot = current /\ current # None
    BY <2>1
  <2>3. /\ task'[t].at \in {"broadcast", "start"} /\ task'[t].bot = current /\ task'[t].version = defs
        /\ task'[t].model \in {None, defs} /\ task'[t].kind = task[t].kind
        /\ row' = "done" => task'[t].at = "broadcast"
        /\ row' = "done" => (task'[t].model = defs /\ defs \in Files) \/ task[t].kind = "mount"
    <3>1. Trains(t) \/ task[t].kind = "mount"
      BY <1>0, <2>1 DEF KindFits, Undisturbed, Trains
    <3>. QED BY <1>0, <1>5, <2>2, <3>1, FindDoes
  <2>4. RunFits(t)' /\ (row' = "done" => Settles(t)')
    BY <2>1, <2>2, <2>3
  <2>5. \A u \in Tasks \ {t} : RunFits(u)'
    BY <1>r, <2>1 DEF Same
  <2>. QED BY <2>4, <2>5 DEF DoneSound
<1>6. ASSUME NEW t \in Tasks, FindFails(t) PROVE Threw'
  BY <1>0, <1>6, Thrown
<1>7. ASSUME NEW t \in Tasks, Start(t) PROVE Undisturbed' => SettlesOn(t)
  BY <1>0, <1>7, StartDoes
<1>8. ASSUME NEW t \in Tasks, Created(t) PROVE Undisturbed' => SettlesOn(t)
  BY <1>0, <1>8, CreatedDoes
<1>9. ASSUME NEW t \in Tasks, Progress(t) PROVE Undisturbed' => SettlesOn(t)
  BY <1>0, <1>9, ProgressDoes
<1>10. ASSUME NEW t \in Tasks, Trained(t) PROVE DoneInv'
  <2> SUFFICES ASSUME Undisturbed' PROVE (\A u \in Tasks : RunFits(u)') /\ DoneSound'
    BY DEF DoneInv
  <2>1. /\ Others(t) /\ task[t].at = "train" /\ UNCHANGED <<current, defs, crossings>> /\ task'[t].at = "keep"
        /\ Undisturbed /\ RunFits(t) /\ task'[t].bot = task[t].bot
        /\ task'[t].version = task[t].version /\ task'[t].model = task[t].version
    BY <1>0, <1>r, <1>10, TrainedDoes DEF Undisturbed
  <2>2. RunFits(t)' /\ Settles(t)'
    BY <2>1
  <2>3. \A u \in Tasks \ {t} : RunFits(u)'
    BY <1>r, <2>1 DEF Same
  <2>. QED BY <2>2, <2>3 DEF DoneSound
<1>11. ASSUME NEW t \in Tasks, TrainingFails(t) PROVE Undisturbed' => SettlesOn(t)
  BY <1>0, <1>11, TrainingFailsDoes
<1>12. ASSUME NEW t \in Tasks, Caught(t) PROVE Undisturbed' => SettlesOn(t)
  BY <1>0, <1>12, CaughtDoes
<1>13. ASSUME NEW t \in Tasks, CaughtFails(t) PROVE Threw'
  BY <1>0, <1>13, Thrown
<1>14. ASSUME NEW t \in Tasks, Keep(t) PROVE DoneInv'
  <2>1. /\ Others(t) /\ task[t].at = "keep" /\ UNCHANGED <<current, defs>> /\ crossings \subseteq crossings'
        /\ task'[t].at \in {"save", "caught"} /\ task'[t].bot = task[t].bot
        /\ task'[t].version = task[t].version /\ task'[t].model = task[t].model
        /\ BotGets(task[t].bot, task[t].model)
    BY <1>0, <1>14, KeepDoes
  <2> SUFFICES ASSUME Undisturbed' PROVE DoneInv'
    BY DEF DoneInv
  <2>2. RunFits(t) /\ task[t].model = defs /\ current \in BotIds
    BY <1>0, <1>r, <2>1, Constants DEF Undisturbed, ModelsKnown
  <2>. QED BY <1>0, <2>1, <2>2, ServesNow DEF BotGets
<1>15. ASSUME NEW t \in Tasks, KeepFails(t) PROVE DoneInv'
  <2>1. /\ Others(t) /\ task[t].at = "keep" /\ UNCHANGED <<current, defs>> /\ crossings \subseteq crossings'
        /\ task'[t].at \in {"save", "caught"} /\ task'[t].bot = task[t].bot
        /\ task'[t].version = task[t].version /\ task'[t].model = task[t].model
        /\ BotGets(task[t].bot, task[t].model)
    BY <1>0, <1>15, KeepFailsDoes
  <2> SUFFICES ASSUME Undisturbed' PROVE DoneInv'
    BY DEF DoneInv
  <2>2. RunFits(t) /\ task[t].model = defs /\ current \in BotIds
    BY <1>0, <1>r, <2>1, Constants DEF Undisturbed, ModelsKnown
  <2>. QED BY <1>0, <2>1, <2>2, ServesNow DEF BotGets
<1>16. ASSUME NEW t \in Tasks, Save(t) PROVE DoneInv'
  <2> SUFFICES ASSUME Undisturbed' PROVE (\A u \in Tasks : RunFits(u)') /\ DoneSound'
    BY DEF DoneInv
  <2>1. /\ Others(t) /\ task[t].at = "save" /\ UNCHANGED <<current, defs, row>> /\ crossings \subseteq crossings'
        /\ task'[t].at \in {"broadcast", "caught"} /\ task'[t].bot = task[t].bot /\ task'[t].kind = task[t].kind
        /\ task'[t].version = task[t].version /\ task'[t].model = task[t].model
        /\ stored' \in {stored, With(task[t].model)} /\ BotsKeep
    BY <1>0, <1>16, SaveDoes
  <2>2. RunFits(t) /\ task[t].model = defs /\ (\A u \in Tasks : RunFits(u)) /\ DoneSound
    BY <1>0, <1>r, <2>1, Constants DEF Undisturbed, ModelsKnown, DoneInv
  <2>3. \A u \in Tasks : RunFits(u)'
    BY <2>1, <2>2 DEF Same
  <2>4. defs \in Files => defs \in Files'
    BY <1>0, <2>1, <2>2 DEF With
  <2>5. ASSUME NEW u \in Tasks, Settles(u) PROVE Settles(u)'
    BY <2>1, <2>4, <2>5 DEF Same
  <2>. QED BY <1>0, <2>1, <2>2, <2>3, <2>5 DEF DoneSound
<1>17. ASSUME NEW t \in Tasks, SaveFails(t) PROVE DoneInv'
  <2> SUFFICES ASSUME Undisturbed' PROVE (\A u \in Tasks : RunFits(u)') /\ DoneSound'
    BY DEF DoneInv
  <2>1. /\ Others(t) /\ task[t].at = "save" /\ UNCHANGED <<current, defs, row>> /\ crossings \subseteq crossings'
        /\ task'[t].at \in {"broadcast", "caught"} /\ task'[t].bot = task[t].bot /\ task'[t].kind = task[t].kind
        /\ task'[t].version = task[t].version /\ task'[t].model = task[t].model
        /\ stored' \in {stored, With(task[t].model)} /\ BotsKeep
    BY <1>0, <1>17, SaveFailsDoes
  <2>2. RunFits(t) /\ task[t].model = defs /\ (\A u \in Tasks : RunFits(u)) /\ DoneSound
    BY <1>0, <1>r, <2>1, Constants DEF Undisturbed, ModelsKnown, DoneInv
  <2>3. \A u \in Tasks : RunFits(u)'
    BY <2>1, <2>2 DEF Same
  <2>4. defs \in Files => defs \in Files'
    BY <1>0, <2>1, <2>2 DEF With
  <2>5. ASSUME NEW u \in Tasks, Settles(u) PROVE Settles(u)'
    BY <2>1, <2>4, <2>5 DEF Same
  <2>. QED BY <1>0, <2>1, <2>2, <2>3, <2>5 DEF DoneSound
<1>18. ASSUME NEW t \in Tasks, Broadcast(t) PROVE Undisturbed' => SettlesOn(t)
  <2> SUFFICES ASSUME Undisturbed' PROVE SettlesOn(t)
    OBVIOUS
  <2>1. RunFits(t) /\ task[t].at = "broadcast"
    BY <1>r, <1>0, <1>18, BroadcastDoes DEF Undisturbed
  <2>2. task[t].model = defs => StepsTo(t, "reload")
    BY <1>0, <1>18, <2>1, BroadcastDoes
  <2>. QED BY <1>0, <1>18, <2>1, <2>2, BroadcastDoes
<1>19. ASSUME NEW t \in Tasks, Reload(t) PROVE DoneInv'
  <2>1. CASE task[t].model \notin Files \/ current = None
    <3>1. ASSUME Undisturbed' PROVE SettlesOn(t)
      <4>1. current # None /\ task[t].at = "reload"
        BY <1>0, <1>r, <1>19, <3>1, ReloadDoes DEF Undisturbed
      <4>2. BotsKeep /\ StepsTo(t, "unlock") /\ UNCHANGED <<current, defs, stored, row, crossings>>
        BY <1>0, <1>19, <2>1, <4>1, ReloadDoes
      <4>. QED BY <1>0, <2>1, <4>1, <4>2
    <3>. QED BY <3>1, SettlesOnKeeps
  <2>2. CASE task[t].model \in Files /\ current # None /\ StepsTo(t, "load") /\ BotGets(current, task[t].model)
    <3>1. /\ task[t].at = "reload" /\ UNCHANGED <<current, defs, crossings>>
          /\ bots'[current].model = task[t].model
      BY <1>0, <1>19, <2>2, ReloadDoes DEF BotGets
    <3> SUFFICES ASSUME Undisturbed' PROVE DoneInv'
      BY DEF DoneInv
    <3>2. RunFits(t) /\ task[t].model = defs
      BY <1>0, <1>r, <2>2, <3>1 DEF Undisturbed
    <3>3. RunFits(t)'
      BY <2>2, <3>1, <3>2
    <3>. QED BY <2>2, <3>1, <3>2, <3>3, ServesNow
  <2>. QED BY <1>0, <1>19, <2>1, <2>2, ReloadDoes
<1>20. ASSUME NEW t \in Tasks, Load(t) PROVE Undisturbed' => SettlesOn(t)
  BY <1>0, <1>20, LoadDoes
<1>21. ASSUME NEW t \in Tasks, LoadFails(t) PROVE Threw'
  BY <1>0, <1>21, Thrown
<1>22. ASSUME NEW t \in Tasks, Release(t) PROVE Undisturbed' => SettlesOn(t)
  BY <1>0, <1>22, ReleaseDoes
<1>23. ASSUME NEW t \in Tasks, ReleaseFails(t) PROVE Threw'
  BY <1>0, <1>23, Thrown
<1>24. ASSUME NEW t \in Tasks, Read(t) PROVE Undisturbed' => SettlesOn(t)
  BY <1>0, <1>24, ReadDoes
<1>25. ASSUME NEW t \in Tasks, Decide(t) PROVE Undisturbed' => SettlesOn(t)
  BY <1>0, <1>25, DecideDoes DEF Undisturbed
<1>26. ASSUME NEW t \in Tasks, Announce(t) PROVE Undisturbed' => SettlesOn(t)
  BY <1>0, <1>26, AnnounceDoes
<1>27. ASSUME NEW t \in Tasks, Clear(t) PROVE Undisturbed' => SettlesOn(t)
  BY <1>0, <1>27, ClearDoes
<1>28. ASSUME NEW t \in Tasks, Tell(t) PROVE Undisturbed' => SettlesOn(t)
  BY <1>0, <1>28, TellDoes
<1>29. ASSUME NEW t \in Tasks, Mark(t) PROVE Undisturbed' => SettlesOn(t)
  BY <1>0, <1>29, MarkDoes
<1>30. ASSUME NEW t \in Tasks, MarkFails(t) PROVE Threw'
  BY <1>0, <1>30, Thrown
<1>31. ASSUME NEW t \in Tasks, Kill(t) PROVE Undisturbed' => SettlesOn(t)
  <2>1. /\ task[t].at = "kill" /\ task'[t].at \in {"forget", "over"}
        /\ \A u \in Tasks \ {t} : Same(task'[u], task[u]) \/ TurnsCaught(u)
        /\ BotsKeep /\ UNCHANGED <<current, defs, stored, row, crossings>>
    BY <1>0, <1>31, KillDoes
  <2>. QED BY <1>0, <2>1
<1>32. ASSUME NEW t \in Tasks, Mount(t) PROVE DoneInv'
  <2> SUFFICES ASSUME Undisturbed' PROVE (\A u \in Tasks : RunFits(u)') /\ DoneSound'
    BY DEF DoneInv
  <2>1. /\ Others(t) /\ task[t].at = "mount" /\ current' = t + 1 /\ UNCHANGED <<defs, crossings>>
        /\ task'[t].at = "fetch" /\ task'[t].bot = t + 1 /\ task'[t].kind = "mount" /\ task[t].kind = "mount"
        /\ t + 1 # None
    BY <1>0, <1>32, Constants, MountDoes DEF KindFits, None
  <2>2. current = None
    <3>1. OneMoves /\ MovesSound /\ HasState
      BY <2>1 DEF MountsInv, Undisturbed
    <3>2. ~ mounted
      BY <2>1, <3>1 DEF MovesSound, Live
    <3>3. \A u \in Tasks : Live(u) /\ task[u].kind = "mount" => u = t
      BY <2>1, <3>1 DEF OneMoves, Live, Moving
    <3>. QED BY <2>1, <3>1, <3>2, <3>3 DEF HasState
  <2>3. \A u \in Tasks : task[u].at \notin TrainOrLoad
    BY <1>r, <2>1, <2>2 DEF Undisturbed
  <2>4. RunFits(t)' /\ Settles(t)'
    BY <2>1
  <2>5. \A u \in Tasks \ {t} : RunFits(u)'
    BY <2>1, <2>3 DEF Same
  <2>. QED BY <2>4, <2>5 DEF DoneSound
<1>33. ASSUME NEW t \in Tasks, Up(t) PROVE Undisturbed' => SettlesOn(t)
  BY <1>0, <1>33, UpDoes
<1>34. ASSUME NEW t \in Tasks, Unmount(t) PROVE Undisturbed' => SettlesOn(t)
  BY <1>0, <1>34, UnmountDoes
<1>35. ASSUME NEW t \in Tasks, Forget(t) PROVE Undisturbed' => SettlesOn(t)
  BY <1>0, <1>35, ForgetDoes
<1>36. ASSUME NEW t \in Tasks, Finish(t) PROVE DoneInv'
  <2> SUFFICES ASSUME Undisturbed' PROVE (\A u \in Tasks : RunFits(u)') /\ DoneSound'
    BY DEF DoneInv
  <2>1. /\ Others(t) /\ task[t].at = "finish" /\ task'[t].at = "down" /\ current' = None
        /\ crossings \subseteq crossings' /\ task[t].kind = "unmount"
        /\ \A u \in Tasks \ {t} : Live(u) => task[u].bot # task[t].bot
    BY <1>0, <1>36, FinishDoes DEF KindFits, Undisturbed
  <2>2. task[t].bot = current
    BY <2>1 DEF MountsInv, MovesSound, Live, Undisturbed
  <2>3. \A u \in Tasks : task[u].at \notin TrainOrLoad
    BY <1>r, <2>1, <2>2 DEF Undisturbed, Live
  <2>4. \A u \in Tasks : task'[u].at \notin TrainOrLoad
    BY <2>1, <2>3 DEF Same
  <2>. QED BY <2>1, <2>4 DEF DoneSound
<1>37. ASSUME NEW t \in Tasks, Down(t) PROVE Undisturbed' => SettlesOn(t)
  BY <1>0, <1>37, DownDoes
<1>38. ASSUME NEW t \in Tasks, Predict(t) PROVE Undisturbed' => SettlesOn(t)
  BY <1>0, <1>38, PredictDoes
<1>39. ASSUME NEW t \in Tasks, Pull(t) PROVE Undisturbed' => SettlesOn(t)
  BY <1>0, <1>39, PullDoes
<1>40. ASSUME NEW t \in Tasks, Adopt(t) PROVE Undisturbed' => SettlesOn(t)
  <2> SUFFICES ASSUME Undisturbed' PROVE SettlesOn(t)
    OBVIOUS
  <2>1. /\ task[t].at = "adopt" /\ Stops(t, task[t].threw) /\ BotGets(task[t].bot, task[t].model)
        /\ task[t].bot = current => bots[current].model \in {None, task[t].model}
        /\ UNCHANGED <<current, defs, stored, row>> /\ crossings \subseteq crossings'
    BY <1>0, <1>40, AdoptDoes DEF Undisturbed
  <2>2. Serves(defs) => bots'[current].model = defs
    BY <1>0, <2>1 DEF BotGets
  <2>. QED BY <2>1, <2>2
<1>41. ASSUME NEW t \in Tasks, PredictFails(t) PROVE Undisturbed' => SettlesOn(t)
  BY <1>0, <1>41, PredictFailsDoes
<1>42. ASSUME Edit PROVE DoneInv'
  <2> SUFFICES ASSUME Undisturbed' PROVE (\A u \in Tasks : RunFits(u)') /\ DoneSound'
    BY DEF DoneInv
  <2>1. /\ UNCHANGED <<current, row>> /\ Undisturbed /\ \A u \in Tasks : RunFits(u)
        /\ defs' # defs => \A u \in Tasks : task[u].at \notin TrainOrLoad \ {"fetch"}
    BY <1>0, <1>r, <1>42, EditDoes DEF Undisturbed, InRun
  <2>2. CASE current = None /\ task' = task
    BY <2>1, <2>2 DEF DoneSound
  <2>3. ASSUME NEW t \in Tasks, Begins(t, "announce", "read", None)
        PROVE  (\A u \in Tasks : RunFits(u)') /\ DoneSound'
    <3>1. Settles(t)' /\ RunFits(t)'
      BY <2>3 DEF Begins
    <3>2. \A u \in Tasks \ {t} : RunFits(u)'
      BY <2>1, <2>3 DEF Begins, Same
    <3>. QED BY <3>1, <3>2 DEF DoneSound
  <2>. QED BY <1>0, <1>42, <2>2, <2>3, EditDoes
<1>43. ASSUME Evict PROVE DoneInv'
  <2>1. /\ task' = task /\ BotsKeep /\ UNCHANGED <<current, defs, stored, row>> /\ crossings \subseteq crossings'
    BY <1>0, <1>43, EvictDoes
  <2> SUFFICES ASSUME Undisturbed' PROVE (\A u \in Tasks : RunFits(u)') /\ DoneSound'
    BY DEF DoneInv
  <2>2. (\A u \in Tasks : RunFits(u)) /\ DoneSound
    BY <2>1 DEF DoneInv, Undisturbed
  <2>3. \A u \in Tasks : RunFits(u)' /\ (Settles(u) => Settles(u)')
    BY <2>1, <2>2
  <2>. QED BY <1>0, <2>1, <2>2, <2>3 DEF DoneSound
<1>44. ASSUME Expire PROVE DoneInv'
  <2>1. /\ task' = task /\ BotsKeep /\ UNCHANGED <<current, defs, stored, row>> /\ crossings \subseteq crossings'
    BY <1>0, <1>44, ExpireDoes
  <2> SUFFICES ASSUME Undisturbed' PROVE (\A u \in Tasks : RunFits(u)') /\ DoneSound'
    BY DEF DoneInv
  <2>2. (\A u \in Tasks : RunFits(u)) /\ DoneSound
    BY <2>1 DEF DoneInv, Undisturbed
  <2>3. \A u \in Tasks : RunFits(u)' /\ (Settles(u) => Settles(u)')
    BY <2>1, <2>2
  <2>. QED BY <1>0, <2>1, <2>2, <2>3 DEF DoneSound
<1>k. \A t \in Tasks : (Undisturbed' => SettlesOn(t)) => DoneInv'
  BY SettlesOnKeeps
<1> HIDE DEF SettlesOn
<1>. QED
  BY <1>1, <1>2, <1>3, <1>4, <1>5, <1>6, <1>7, <1>8, <1>9, <1>10, <1>11, <1>12, <1>13, <1>14, <1>15, <1>16, <1>17,
     <1>18, <1>19, <1>20, <1>21, <1>22, <1>23, <1>24, <1>25, <1>26, <1>27, <1>28, <1>29, <1>30, <1>31, <1>32, <1>33,
     <1>34, <1>35, <1>36, <1>37, <1>38, <1>39, <1>40, <1>41, <1>42, <1>43, <1>44, <1>k DEF Next, Run

-----------------------------------------------------------------------------
LEMMA InitLifeInv == Init => LifeInv
<1> SUFFICES ASSUME Init PROVE LifeInv
  OBVIOUS
<1>a. bots = [b \in BotIds |-> [Fresh EXCEPT !.model = IF b = 1 /\ defs \in Files THEN defs ELSE None]]
  BY DEF Init
<1>b. \A b \in BotIds : bots[b].model = IF b = 1 /\ defs \in Files THEN defs ELSE None
  BY <1>a DEF Fresh
<1>c. \A t \in Tasks : t + 1 # 1 /\ t + 1 \in BotIds
  BY Constants
<1>0. /\ \A t \in Tasks : task[t] = IdleTask
      /\ mounted = TRUE /\ current = 1 /\ active = FALSE /\ 1 \in BotIds
      /\ bots[1].model = IF defs \in Files THEN defs ELSE None
      /\ \A t \in Tasks : t + 1 # 1 /\ bots[t + 1].model = None
      /\ row = IF defs \in Files THEN "done" ELSE "needs-training"
  BY <1>b, <1>c, Constants DEF Init
<1>1. LockInv
  BY InitLockInv
<1>2. TasksInv
  BY <1>0, Constants
     DEF TasksInv, KindsKnown, KindFits, EngineTrains, MountsFresh, IdleTask, TrainOrLoad, RunSteps, Announcing, None
<1>3. MountsInv
  BY <1>0, Constants DEF MountsInv, OneMoves, MovesSound, HasState, Live, IdleTask, None
<1>4. FilesInv
  BY <1>0 DEF FilesInv, ServedKept
<1>5. Rewritten
  BY <1>0 DEF Rewritten, Busy
<1>6. DoneInv
  BY <1>0 DEF DoneInv, DoneSound, Serves, RunFits, IdleTask, TrainOrLoad, RunSteps, None
<1>. QED BY <1>1, <1>2, <1>3, <1>4, <1>5, <1>6 DEF LifeInv

LEMMA LifeUnmoved == LifeInv /\ UNCHANGED vars => LifeInv'
<1> SUFFICES ASSUME LifeInv, UNCHANGED vars PROVE LifeInv'
  OBVIOUS
<1> USE DEF vars, service, engine, storage
<1>1. LockInv'
  BY Unmoved DEF LifeInv
<1>2. TasksInv'
  BY DEF LifeInv, TasksInv, KindsKnown, EngineTrains, MountsFresh
<1>3. Threw' <=> Threw
  BY DEF Threw
<1>4. MountsInv => MountsInv'
  BY DEF MountsInv, OneMoves, MovesSound, HasState, Live
<1>5. FilesInv => FilesInv'
  BY DEF FilesInv, ServedKept, Replaces, Files
<1>6. Rewritten => Rewritten'
  BY DEF Rewritten
<1>7. DoneInv => DoneInv'
  <2>1. \A t \in Tasks : (RunFits(t)' <=> RunFits(t)) /\ (Settles(t)' <=> Settles(t))
    BY DEF RunFits, Settles, Files
  <2>2. (Undisturbed' <=> Undisturbed) /\ (Serves(defs)' <=> Serves(defs))
    BY DEF Undisturbed, Serves
  <2>. QED BY <2>1, <2>2 DEF DoneInv, DoneSound
<1>. QED BY <1>1, <1>2, <1>3, <1>4, <1>5, <1>6, <1>7 DEF LifeInv

LEMMA LifeInvHolds == Spec => []LifeInv
<1>1. ASSUME LifeInv, Next PROVE LifeInv'
  <2>1. LockInv /\ TasksInv
    BY <1>1 DEF LifeInv
  <2>2. LockInv'
    BY <1>1, <2>1, TypesKept, FactsKept DEF LockInv
  <2>3. TasksInv'
    BY <1>1, <2>1, TasksInvKept
  <2>4. ASSUME ~ Threw' PROVE MountsInv' /\ FilesInv' /\ Rewritten' /\ DoneInv'
    <3>1. CASE Restart
      BY <2>1, <3>1, AfterRestart DEF LockInv
    <3>2. CASE ~ Restart
      <4>1. ~ Threw
        BY <1>1, <2>1, <2>4, <3>2, Unthrown
      <4>2. MountsInv /\ FilesInv /\ Rewritten /\ DoneInv
        BY <1>1, <4>1 DEF LifeInv
      <4>. QED BY <1>1, <2>1, <2>4, <3>2, <4>1, <4>2, MountsKept, FilesKept, RewrittenKept, DoneKept
    <3>. QED BY <3>1, <3>2
  <2>. QED BY <2>2, <2>3, <2>4 DEF LifeInv
<1>2. LifeInv /\ [Next]_vars => LifeInv'
  BY <1>1, LifeUnmoved
<1>. QED BY InitLifeInv, <1>2, PTL DEF Spec

\* At rest no run is under way that would write a status or serve a model.
LEMMA Rests ==
  ASSUME AtRest
  PROVE  /\ \A t \in Tasks : ~ Replaces(t) /\ ~ Settles(t) /\ task[t].at \notin Writers
         /\ MountsInv /\ mounted /\ "mounts" \notin crossings => current # None
BY DEF AtRest, Live, Replaces, Settles, Writers, TrainOrLoad, RunSteps, MountsInv, HasState

\* At rest, a mounted bot has a state in the module, and the model that it serves is
\* one of its files, whatever was pruned, evicted or cancelled (onBotMount, trainOrLoad,
\* broadcastLoadModel, saveModel, predict): for any versions of the definitions and any
\* number of tasks and mishaps, with the exceptions that the property names.
THEOREM ServedWhenMountedHolds == Spec => []ServedWhenMounted
<1>1. LifeInv => ServedWhenMounted
  <2> SUFFICES ASSUME LifeInv, AtRest, mounted, "mounts" \notin crossings, ~ Threw
               PROVE  /\ current # None
                      /\ crossings \cap {"message", "unsaved"} = {} => bots[current].model \in Files \cup {None}
    BY DEF ServedWhenMounted
  <2>1. current # None
    BY Rests DEF LifeInv
  <2>. QED BY <2>1, Rests DEF LifeInv, FilesInv, ServedKept
<1>. QED BY LifeInvHolds, <1>1, PTL

\* At rest, the training status of a mounted bot is not that of a training under way,
\* and the status done is that of a bot that serves the model of its definitions
\* (sendNLUStatusEvent, annouceNeedsTraining), though an edit may bring old definitions
\* back: for any versions of the definitions and any number of tasks and mishaps, with
\* the exceptions that the property names.
THEOREM StatusSettlesHolds == Spec => []StatusSettles
<1>1. LifeInv => StatusSettles
  <2> SUFFICES ASSUME LifeInv, AtRest, mounted, ~ Threw
               PROVE  /\ row \notin {"training", "training-pending"}
                      /\ row = "done" /\ ~ Disabled /\ crossings \subseteq {"lock", "unsaved"} => Serves(defs)
    BY DEF StatusSettles
  <2>1. row \notin {"training", "training-pending"}
    BY Rests DEF LifeInv, Rewritten, Busy
  <2>2. ASSUME row = "done", ~ Disabled, crossings \subseteq {"lock", "unsaved"} PROVE Serves(defs)
    <3>1. DoneSound /\ current # None
      BY <2>2, Rests DEF LifeInv, DoneInv, Undisturbed
    <3>. QED BY <2>2, <3>1, Rests DEF DoneSound
  <2>. QED BY <2>1, <2>2
<1>. QED BY LifeInvHolds, <1>1, PTL

-----------------------------------------------------------------------------
(* What is true of the training queue at all times, for callers that are not *)
(* Impatient.                                                                *)

IsReady(w) == \E k \in DOMAIN readyWorkers : readyWorkers[k] = w

\* A worker that the web process will hear of, and one that it has heard of.
Coming(w) ==
  worker[w].at = "boot" \/ \E k \in DOMAIN worker[w].out : worker[w].out[k].type = "ready"
Introduced(w) == worker[w].at \in {"up", "killed", "dead"} /\ ~ Coming(w)

\* A worker that no training will be given to, and none is given.
Left(w) == ~ IsReady(w) /\ Training(w) = {}

QueueTypes ==
  /\ QueueTypeOK
  /\ readyWorkers \in Seq(Workers)
  /\ \A w \in Workers :
       /\ worker[w].at \in {"none", "boot", "stuck"} => worker[w].out = <<>>
       /\ \A k \in DOMAIN worker[w].out :
            worker[w].out[k].type = "ready" => Len(worker[w].out) = 1 /\ worker[w].jobs = {}
  /\ \A k \in DOMAIN toMaster :
       /\ toMaster[k].type = "make" => toMaster[k].s \in Sessions
       /\ toMaster[k].type # "make" => toMaster[k].w \in Workers
       /\ toMaster[k].type = "start" => toMaster[k].c \in Calls

\* The calls and the entries of activeWorkers.
CallsKnown ==
  /\ StartedOnce
  /\ \A c \in Calls : calls[c].at \in {"none", "spawn"} => calls[c].w = Undefined
  /\ \A c \in Calls : calls[c].at = "spawn" =>
       calls[c].s \in Sessions /\ activeWorkers[calls[c].s] = Undefined
  /\ \A c \in Calls : calls[c].at = "train" =>
       /\ calls[c].s \in Sessions /\ calls[c].w \in Workers
       /\ activeWorkers[calls[c].s] = calls[c].w
  /\ \A x \in cancels :
       /\ activeWorkers[x.s] \in {x.w, Undefined}
       /\ \A c \in Calls : ~ (calls[c].at = "spawn" /\ calls[c].s = x.s)

\* The workers that the queue has are apart.
WorkersApart ==
  /\ IsInjective(readyWorkers)
  /\ \A w \in Workers : IsReady(w) => \A s \in Sessions : activeWorkers[s] # w
  /\ \A s, t \in Sessions :
       s # t /\ activeWorkers[s] = activeWorkers[t] => activeWorkers[s] = Undefined

\* The queue only has and names workers that have reported.
Introductions ==
  /\ \A w \in Workers : IsReady(w) => Introduced(w)
  /\ \A s \in Sessions : activeWorkers[s] # Undefined => Introduced(activeWorkers[s])
  /\ \A k \in DOMAIN toMaster : toMaster[k].type # "make" => Introduced(toMaster[k].w)
  /\ \A x \in cancels : Introduced(x.w)

Waits(s) == \E c \in Calls : calls[c].at = "spawn" /\ calls[c].s = s

\* One worker at most is being made for a session, and a call waits for it.
Creations ==
  /\ \A k \in DOMAIN toMaster : toMaster[k].type = "make" =>
       /\ Waits(toMaster[k].s)
       /\ \A j \in DOMAIN toMaster :
            toMaster[j].type = "make" /\ toMaster[j].s = toMaster[k].s => j = k
       /\ \A w \in Workers : Coming(w) => worker[w].for # toMaster[k].s
  /\ \A w \in Workers : Coming(w) =>
       /\ worker[w].for \in Sessions /\ Waits(worker[w].for)
       /\ \A v \in Workers : Coming(v) /\ worker[v].for = worker[w].for => v = w

\* A worker that was killed is not used again once its cancel is over.
Kills ==
  /\ \A w \in Workers : Gone(w) /\ w \notin crashed =>
       Introduced(w) /\ (Left(w) \/ \E x \in cancels : x.w = w)
  /\ \A k \in DOMAIN toMaster : toMaster[k].type = "cancel" =>
       worker[toMaster[k].w].at = "dead" \/ \E x \in cancels : x.w = toMaster[k].w
  /\ \A k \in DOMAIN canceled : worker[canceled[k]].at = "dead"

\* A worker that is up is coming, ready or active.
NoneLost ==
  \A w \in Workers : worker[w].at = "up" =>
    Coming(w) \/ IsReady(w) \/ \E s \in Sessions : activeWorkers[s] = w

\* Where the training of a worker is: on its way there, in it, or reported.
Starts(w) == {k \in DOMAIN toMaster : toMaster[k].type = "start" /\ toMaster[k].w = w}
Reports(w) == {k \in DOMAIN worker[w].out : worker[w].out[k].type # "ready"}

\* The training is of the call that the worker trains for, or of nobody's.
Current(w, c) ==
  /\ c \in Calls /\ calls[c].w = w
  /\ c \in Training(w) \/ (Gone(w) /\ Left(w))

\* A worker on which no training has failed has one training at a time.
Single(w) ==
  /\ \A j, k \in Starts(w) : j = k
  /\ \A j, k \in Reports(w) : j = k
  /\ \A b, c \in worker[w].jobs : b = c
  /\ Starts(w) # {} => worker[w].jobs = {} /\ Reports(w) = {}
  /\ worker[w].jobs # {} => Reports(w) = {}
  /\ IsReady(w) => Starts(w) = {} /\ worker[w].jobs = {} /\ Reports(w) = {}
Owned(w) ==
  /\ \A k \in Starts(w) : Current(w, toMaster[k].c)
  /\ \A c \in worker[w].jobs : Current(w, c)
  /\ \A k \in Reports(w) : worker[w].out[k].type = "done" /\ Current(w, worker[w].out[k].c)
OneTraining == \A w \in Workers : w \in failed \/ (Single(w) /\ Owned(w))

\* What a call waits for is on its way, or its worker is gone.
TrainingsHeard ==
  \A w \in Workers :
    \/ Training(w) = {} \/ Gone(w)
    \/ Starts(w) # {} \/ worker[w].jobs # {} \/ worker[w].out # <<>>
CancelsHeard ==
  \A x \in cancels :
    \/ x.w \in robbed
    \/ \E k \in DOMAIN toMaster : toMaster[k].type = "cancel" /\ toMaster[k].w = x.w
    \/ worker[x.w].at = "killed" /\ handlers > 0
    \/ \E k \in DOMAIN canceled : canceled[k] = x.w

QueueInv ==
  /\ QueueTypes /\ CallsKnown /\ WorkersApart /\ Introductions /\ Creations
  /\ Kills /\ NoneLost /\ BusyMeansTraining /\ OneTraining /\ OwnOutput
  /\ TrainingsHeard /\ CancelsHeard

-----------------------------------------------------------------------------
(* The sequences and what the steps do to them. *)

LEMMA WorkersAreNumbers == Workers \subseteq Nat /\ Undefined \notin Workers /\ Calls \subseteq Nat
BY TrainingAssumption DEF Workers, Calls, Undefined

CallState == [at : {"none", "spawn", "train", "done", "error", "canceled"},
              s : Sessions \cup {Undefined}, w : Workers \cup {Undefined},
              got : Calls \cup {Undefined}]
WorkerState == [at : {"none", "boot", "up", "stuck", "killed", "dead"},
                for : Sessions \cup {Undefined}, jobs : SUBSET Calls, out : Seq(Report)]

\* The types of the parts of the state.
LEMMA QueueParts ==
  ASSUME QueueTypes
  PROVE  /\ readyWorkers \in Seq(Workers)
         /\ DOMAIN activeWorkers = Sessions
         /\ \A s \in Sessions : activeWorkers[s] \in Workers \cup {Undefined}
         /\ activeWorkers \in [Sessions -> Workers \cup {Undefined}]
         /\ calls \in [Calls -> CallState] /\ worker \in [Workers -> WorkerState]
         /\ \A c \in Calls : /\ calls[c] \in CallState
                             /\ calls[c].s \in Sessions \cup {Undefined}
                             /\ calls[c].w \in Workers \cup {Undefined}
         /\ \A w \in Workers : /\ worker[w] \in WorkerState
                               /\ worker[w].out \in Seq(Report)
                               /\ worker[w].jobs \subseteq Calls
                               /\ worker[w].at \in {"none", "boot", "up", "stuck", "killed", "dead"}
                               /\ worker[w].jobs # {} => worker[w].at = "up"
         /\ \A x \in cancels : x.s \in Sessions /\ x.w \in Workers
         /\ toMaster \in Seq(Message) /\ canceled \in Seq(Workers) /\ handlers \in Nat
<1>1. QueueTypeOK /\ readyWorkers \in Seq(Workers)
  BY DEF QueueTypes
<1>2. calls \in [Calls -> CallState] /\ worker \in [Workers -> WorkerState]
  BY <1>1 DEF QueueTypeOK, CallState, WorkerState
<1>3. \A c \in Calls : calls[c] \in CallState
  BY <1>2
<1>4. \A w \in Workers : worker[w] \in WorkerState
  BY <1>2
<1>. QED BY <1>1, <1>2, <1>3, <1>4 DEF QueueTypeOK, CallState, WorkerState

LEMMA SeqParts ==
  ASSUME NEW S, NEW q \in Seq(S)
  PROVE  Len(q) \in Nat /\ DOMAIN q = 1..Len(q) /\ \A k \in DOMAIN q : q[k] \in S
BY LenProperties, ElementOfSeq

LEMMA AppendParts ==
  ASSUME NEW S, NEW q \in Seq(S), NEW m \in S
  PROVE  /\ Append(q, m) \in Seq(S)
         /\ DOMAIN Append(q, m) = DOMAIN q \cup {Len(q) + 1}
         /\ Len(q) + 1 \notin DOMAIN q
         /\ Append(q, m)[Len(q) + 1] = m
         /\ \A k \in DOMAIN q : Append(q, m)[k] = q[k]
         /\ Append(q, m) # <<>>
<1>1. Len(q) \in Nat /\ DOMAIN q = 1..Len(q)
  BY SeqParts
<1>2. /\ Append(q, m) \in Seq(S) /\ Len(Append(q, m)) = Len(q) + 1
      /\ \A k \in 1..Len(q) : Append(q, m)[k] = q[k]
      /\ Append(q, m)[Len(q) + 1] = m
  BY AppendProperties
<1>3. DOMAIN Append(q, m) = 1..(Len(q) + 1)
  BY <1>2, SeqParts
<1>. QED BY <1>1, <1>2, <1>3, EmptySeq

LEMMA TailParts ==
  ASSUME NEW S, NEW q \in Seq(S), q # <<>>
  PROVE  /\ Head(q) \in S /\ Head(q) = q[1] /\ 1 \in DOMAIN q
         /\ Tail(q) \in Seq(S) /\ Len(Tail(q)) = Len(q) - 1
         /\ \A k \in DOMAIN Tail(q) :
              k + 1 \in DOMAIN q /\ k + 1 # 1 /\ Tail(q)[k] = q[k + 1] /\ k \in Nat
         /\ \A k \in DOMAIN q : k = 1 \/ (k - 1 \in DOMAIN Tail(q) /\ Tail(q)[k - 1] = q[k])
<1>1. Len(q) \in Nat /\ DOMAIN q = 1..Len(q) /\ Len(q) # 0
  BY SeqParts, EmptySeq
<1>2. /\ Head(q) \in S /\ Tail(q) \in Seq(S) /\ Len(Tail(q)) = Len(q) - 1
      /\ \A k \in 1..Len(Tail(q)) : Tail(q)[k] = q[k + 1]
  BY HeadTailProperties
<1>3. DOMAIN Tail(q) = 1..(Len(q) - 1)
  BY <1>2, SeqParts
<1>4. Head(q) = q[1]
  OBVIOUS
<1>. QED BY <1>1, <1>2, <1>3, <1>4

\* A set of one element in a sequence.
LEMMA OneToSeq ==
  ASSUME NEW c
  PROVE  /\ Cardinality({c}) = 1
         /\ SetToSeq({c}) = [k \in 1..1 |-> c]
<1>1. Cardinality({c}) = 1
  BY FS_Singleton
<1>2. \E f \in [1..1 -> {c}] : IsInjective(f)
  <2>1. [k \in 1..1 |-> c] \in [1..1 -> {c}] /\ IsInjective([k \in 1..1 |-> c])
    BY DEF IsInjective
  <2>. QED BY <2>1
<1>3. SetToSeq({c}) \in [1..1 -> {c}]
  BY <1>1, <1>2 DEF SetToSeq
<1>. QED BY <1>1, <1>3

LEMMA NoneToSeq ==
  /\ Cardinality({}) = 0
  /\ SetToSeq({}) = <<>>
<1>1. Cardinality({}) = 0
  BY FS_EmptySet
<1>2. \E f \in [1..0 -> {}] : IsInjective(f)
  <2>1. [k \in 1..0 |-> k] \in [1..0 -> {}] /\ IsInjective([k \in 1..0 |-> k])
    BY DEF IsInjective
  <2>. QED BY <2>1
<1>3. SetToSeq({}) \in [1..0 -> {}]
  BY <1>1, <1>2 DEF SetToSeq
<1>4. SetToSeq({}) \in Seq({}) /\ Len(SetToSeq({})) = 0
  BY <1>3
<1>. QED BY <1>1, <1>4, EmptySeq

\* startTraining takes the last of the ready workers.
LEMMA TakeReadyDoes ==
  ASSUME readyWorkers \in Seq(Workers), readyWorkers # <<>>, IsInjective(readyWorkers),
         readyWorkers' = Front(readyWorkers)
  PROVE  /\ Last(readyWorkers) \in Workers /\ IsReady(Last(readyWorkers))
         /\ readyWorkers' \in Seq(Workers) /\ IsInjective(readyWorkers')
         /\ \A v : IsReady(v)' <=> IsReady(v) /\ v # Last(readyWorkers)
<1> DEFINE n == Len(readyWorkers)
<1>1. n \in Nat /\ n # 0 /\ DOMAIN readyWorkers = 1..n /\ \A k \in 1..n : readyWorkers[k] \in Workers
  BY SeqParts, EmptySeq
<1>2. /\ readyWorkers' \in Seq(Workers) /\ Len(readyWorkers') = n - 1
      /\ \A k \in 1..(n - 1) : readyWorkers'[k] = readyWorkers[k]
  <2>1. \A k \in 1..(n - 1) : readyWorkers[k] \in Workers
    BY <1>1
  <2>2. SubSeq(readyWorkers, 1, n - 1) \in Seq(Workers)
        /\ Len(SubSeq(readyWorkers, 1, n - 1)) = n - 1
        /\ \A k \in 1..(n - 1) : SubSeq(readyWorkers, 1, n - 1)[k] = readyWorkers[k]
    BY <1>1, <2>1, SubSeqProperties
  <2>. QED BY <2>2 DEF Front
<1>3. DOMAIN readyWorkers' = 1..(n - 1)
  BY <1>2, SeqParts
<1>4. Last(readyWorkers) = readyWorkers[n]
  BY DEF Last
<1> HIDE DEF n
<1>5. IsInjective(readyWorkers')
  BY <1>1, <1>2, <1>3 DEF IsInjective
<1>6. ASSUME NEW v PROVE IsReady(v)' <=> IsReady(v) /\ v # readyWorkers[n]
  <2>1. ASSUME IsReady(v)' PROVE IsReady(v) /\ v # readyWorkers[n]
    <3>1. PICK k \in 1..(n - 1) : readyWorkers[k] = v
      BY <2>1, <1>2, <1>3 DEF IsReady
    <3>2. k \in 1..n /\ n \in 1..n /\ k # n
      BY <1>1
    <3>. QED BY <3>1, <3>2, <1>1 DEF IsReady, IsInjective
  <2>2. ASSUME IsReady(v), v # readyWorkers[n] PROVE IsReady(v)'
    <3>1. PICK k \in 1..n : readyWorkers[k] = v
      BY <2>2, <1>1 DEF IsReady
    <3>2. k \in 1..(n - 1)
      BY <1>1, <2>2, <3>1
    <3>. QED BY <3>1, <3>2, <1>2, <1>3 DEF IsReady
  <2>. QED BY <2>1, <2>2
<1>. QED BY <1>1, <1>2, <1>4, <1>5, <1>6 DEF IsReady

\* The ready workers with one more at the front.
LEMMA PutBackDoes ==
  ASSUME readyWorkers \in Seq(Workers), IsInjective(readyWorkers),
         NEW w \in Workers, ~ IsReady(w), readyWorkers' = <<w>> \o readyWorkers
  PROVE  /\ readyWorkers' \in Seq(Workers) /\ IsInjective(readyWorkers')
         /\ \A v : IsReady(v)' <=> IsReady(v) \/ v = w
<1> DEFINE n == Len(readyWorkers)
<1>1. n \in Nat /\ DOMAIN readyWorkers = 1..n
  BY SeqParts
<1>2. <<w>> \in Seq(Workers) /\ Len(<<w>>) = 1 /\ <<w>>[1] = w
  OBVIOUS
<1>3. /\ readyWorkers' \in Seq(Workers) /\ Len(readyWorkers') = n + 1
      /\ \A k \in 1..(n + 1) : readyWorkers'[k] = IF k <= 1 THEN <<w>>[k] ELSE readyWorkers[k - 1]
  BY <1>1, <1>2, ConcatProperties
<1>4. DOMAIN readyWorkers' = 1..(n + 1)
  BY <1>3, SeqParts
<1> HIDE DEF n
<1>5. readyWorkers'[1] = w /\ \A k \in 2..(n + 1) : readyWorkers'[k] = readyWorkers[k - 1]
  BY <1>1, <1>2, <1>3
<1>6. \A k \in 1..n : readyWorkers[k] # w /\ readyWorkers'[k + 1] = readyWorkers[k]
  <2> SUFFICES ASSUME NEW k \in 1..n PROVE readyWorkers[k] # w /\ readyWorkers'[k + 1] = readyWorkers[k]
    OBVIOUS
  <2>1. PICK j \in 2..(n + 1) : j = k + 1 /\ j - 1 = k
    BY <1>1
  <2>2. readyWorkers[k] # w
    BY <1>1 DEF IsReady
  <2>3. readyWorkers'[j] = readyWorkers[j - 1]
    BY <1>5
  <2>. QED BY <2>1, <2>2, <2>3
<1>7. IsInjective(readyWorkers')
  <2> SUFFICES ASSUME NEW i \in 1..(n + 1), NEW j \in 1..(n + 1), readyWorkers'[i] = readyWorkers'[j]
               PROVE  i = j
    BY <1>4 DEF IsInjective
  <2>1. CASE i = 1 \/ j = 1
    <3>1. \A k \in 2..(n + 1) : readyWorkers'[k] # w
      BY <1>1, <1>5, <1>6
    <3>. QED BY <2>1, <3>1, <1>1, <1>5
  <2>2. CASE i # 1 /\ j # 1
    <3>1. i - 1 \in 1..n /\ j - 1 \in 1..n /\ i \in 2..(n + 1) /\ j \in 2..(n + 1)
      BY <2>2, <1>1
    <3>2. readyWorkers[i - 1] = readyWorkers[j - 1]
      BY <3>1, <1>5
    <3>3. i - 1 = j - 1
      BY <3>1, <3>2, <1>1 DEF IsInjective
    <3>. QED BY <3>3, <1>1
  <2>. QED BY <2>1, <2>2
<1>8. ASSUME NEW v PROVE IsReady(v)' <=> IsReady(v) \/ v = w
  <2>1. ASSUME IsReady(v)' PROVE IsReady(v) \/ v = w
    <3>1. PICK k \in 1..(n + 1) : readyWorkers'[k] = v
      BY <2>1, <1>4 DEF IsReady
    <3>2. k = 1 \/ (k - 1 \in 1..n /\ readyWorkers[k - 1] = v)
      BY <3>1, <1>1, <1>5
    <3>. QED BY <3>1, <3>2, <1>1, <1>5 DEF IsReady
  <2>2. ASSUME IsReady(v) PROVE IsReady(v)'
    <3>1. PICK k \in 1..n : readyWorkers[k] = v
      BY <2>2, <1>1 DEF IsReady
    <3>2. k + 1 \in 1..(n + 1)
      BY <1>1
    <3>. QED BY <3>1, <3>2, <1>4, <1>6 DEF IsReady
  <2>3. ASSUME v = w PROVE IsReady(v)'
    <3>1. 1 \in 1..(n + 1)
      BY <1>1
    <3>. QED BY <2>3, <3>1, <1>4, <1>5 DEF IsReady
  <2>. QED BY <2>1, <2>2, <2>3
<1>. QED BY <1>3, <1>7, <1>8

\* cancelTraining takes a worker out of the ready ones.
LEMMA FilterDoes ==
  ASSUME readyWorkers \in Seq(Workers), IsInjective(readyWorkers), NEW w, Filter(w)
  PROVE  /\ readyWorkers' \in Seq(Workers) /\ IsInjective(readyWorkers')
         /\ \A v : IsReady(v)' <=> IsReady(v) /\ v # w
<1> DEFINE kept == {k \in DOMAIN readyWorkers : readyWorkers[k] # w}
<1>1. Len(readyWorkers) \in Nat /\ DOMAIN readyWorkers = 1..Len(readyWorkers)
      /\ \A k \in DOMAIN readyWorkers : readyWorkers[k] \in Workers
  BY SeqParts
<1>2. Cardinality(kept) \in Nat /\ IsFiniteSet(kept) /\ IsFiniteSet(1..Cardinality(kept))
      /\ Cardinality(1..Cardinality(kept)) = Cardinality(kept)
  <2>1. IsFiniteSet(1..Len(readyWorkers))
    BY <1>1, FS_Interval
  <2>2. IsFiniteSet(kept)
    BY <1>1, <2>1, FS_Subset
  <2>3. Cardinality(kept) \in Nat
    BY <2>2, FS_CardinalityType
  <2>. QED BY <2>2, <2>3, FS_Interval
<1>3. PICK at \in [1..Cardinality(kept) -> kept] :
        /\ \A i, j \in DOMAIN at : i < j => at[i] < at[j]
        /\ readyWorkers' = [i \in DOMAIN at |-> readyWorkers[at[i]]]
  BY DEF Filter
<1> HIDE DEF kept
<1>4. /\ DOMAIN readyWorkers' = 1..Cardinality(kept)
      /\ \A i \in 1..Cardinality(kept) :
           /\ at[i] \in DOMAIN readyWorkers /\ readyWorkers[at[i]] # w
           /\ readyWorkers'[i] = readyWorkers[at[i]] /\ readyWorkers'[i] \in Workers
  BY <1>1, <1>3 DEF kept
<1>5. readyWorkers' \in Seq(Workers)
  <2>1. readyWorkers' \in [1..Cardinality(kept) -> Workers]
    BY <1>3, <1>4
  <2>. QED BY <2>1, <1>2
<1>6. IsInjective(readyWorkers')
  <2> SUFFICES ASSUME NEW i \in 1..Cardinality(kept), NEW j \in 1..Cardinality(kept),
                      readyWorkers'[i] = readyWorkers'[j], i < j
               PROVE  FALSE
    BY <1>2, <1>4 DEF IsInjective
  <2>1. at[i] = at[j]
    BY <1>4 DEF IsInjective
  <2>2. at[i] < at[j] /\ at[i] \in Nat
    BY <1>1, <1>3, <1>4
  <2>. QED BY <2>1, <2>2
<1>7. ASSUME NEW v, IsReady(v)' PROVE IsReady(v) /\ v # w
  BY <1>4, <1>7 DEF IsReady
<1>8. \A k \in kept : \E i \in 1..Cardinality(kept) : at[i] = k
  <2>1. \A i, j \in 1..Cardinality(kept) : at[i] = at[j] => i = j
    <3>1. \A i \in 1..Cardinality(kept) : at[i] \in Nat
      BY <1>1, <1>4
    <3>. QED BY <1>2, <1>3, <3>1
  <2>2. at \in Injection(1..Cardinality(kept), kept)
    BY <2>1, Fun_IsInj
  <2>3. at \in Surjection(1..Cardinality(kept), kept)
    BY <1>2, <2>2, FS_Injection
  <2>. QED BY <2>3 DEF Surjection
<1>9. ASSUME NEW v, IsReady(v), v # w PROVE IsReady(v)'
  <2>1. PICK k \in DOMAIN readyWorkers : readyWorkers[k] = v
    BY <1>9 DEF IsReady
  <2>2. k \in kept
    BY <1>9, <2>1 DEF kept
  <2>3. PICK i \in 1..Cardinality(kept) : at[i] = k
    BY <1>8, <2>2
  <2>. QED BY <1>4, <2>1, <2>3 DEF IsReady
<1>. QED BY <1>5, <1>6, <1>7, <1>9

-----------------------------------------------------------------------------
(* What the steps do: to the calls, to the workers and to the queues.        *)

\* Call c gets to at, for session s, on worker w.
CallTurns(c, at, s, w) ==
  /\ calls' \in [Calls -> CallState]
  /\ calls'[c].at = at /\ calls'[c].s = s /\ calls'[c].w = w
  /\ \A b \in Calls \ {c} : calls'[b] = calls[b]

\* Worker w changes, and keeps the session it was made for.
WorkerMoves(w) ==
  /\ worker' \in [Workers -> WorkerState]
  /\ \A v \in Workers \ {w} : worker'[v] = worker[v]
  /\ worker[w].at = "none" \/ worker'[w].for = worker[w].for

SpawnEffect(s, c) ==
  /\ calls[c].at = "none" /\ activeWorkers[s] = Undefined /\ Settled(s)
  /\ CallTurns(c, "spawn", s, calls[c].w)
  /\ Make(s) \in Message /\ toMaster' = Append(toMaster, Make(s))
  /\ UNCHANGED <<readyWorkers, activeWorkers, cancels, canceled, worker, handlers, histories>>

TakeEffect(s, c, w) ==
  /\ calls[c].at = "none" /\ activeWorkers[s] = Undefined /\ Settled(s) /\ IsReady(w)
  /\ CallTurns(c, "train", s, w)
  /\ activeWorkers' = [activeWorkers EXCEPT ![s] = w]
  /\ readyWorkers' \in Seq(Workers) /\ IsInjective(readyWorkers')
  /\ \A v \in Workers : IsReady(v)' <=> IsReady(v) /\ v # w
  /\ StartOn(w, c) \in Message /\ toMaster' = Append(toMaster, StartOn(w, c))
  /\ UNCHANGED <<cancels, canceled, worker, handlers, histories>>

CancelEffect(s) ==
  /\ activeWorkers[s] \in Workers
  /\ cancels' = cancels \cup {[s |-> s, w |-> activeWorkers[s]]}
  /\ Cancel(activeWorkers[s]) \in Message /\ toMaster' = Append(toMaster, Cancel(activeWorkers[s]))
  /\ UNCHANGED <<readyWorkers, activeWorkers, calls, canceled, worker, handlers,
                 crashed, failed, robbed>>

\* The web process reads the first report of w.
Reads(w) ==
  /\ worker[w].out # <<>>
  /\ WorkerMoves(w)
  /\ worker'[w].at = worker[w].at /\ worker'[w].jobs = worker[w].jobs
  /\ worker'[w].out = Tail(worker[w].out)
  /\ UNCHANGED <<cancels, canceled, handlers, histories>>

ReadyEffect(w, c) ==
  /\ Coming(w) /\ worker[w].at # "boot" /\ worker[w].jobs = {}
  /\ calls[c].at = "spawn" /\ calls[c].s \in Sessions /\ worker[w].for = calls[c].s
  /\ CallTurns(c, "train", calls[c].s, w)
  /\ activeWorkers' = [activeWorkers EXCEPT ![calls[c].s] = w]
  /\ StartOn(w, c) \in Message /\ toMaster' = Append(toMaster, StartOn(w, c))
  /\ UNCHANGED readyWorkers
  /\ Reads(w) /\ worker'[w].out = <<>>

SettleEffect(w, c) ==
  /\ Head(worker[w].out).type # "ready"
  /\ Training(w) = {c} /\ calls[c].s \in Sessions
  /\ CallTurns(c, Head(worker[w].out).type, calls[c].s, w)
  /\ calls'[c].got = Head(worker[w].out).c
  /\ activeWorkers' = [activeWorkers EXCEPT ![calls[c].s] = Undefined]
  /\ readyWorkers' \in Seq(Workers) /\ IsInjective(readyWorkers')
  /\ \A v \in Workers : IsReady(v)' <=> IsReady(v) \/ v = w
  /\ UNCHANGED toMaster
  /\ Reads(w)

SettleNone(w) ==
  /\ Head(worker[w].out).type # "ready"
  /\ Training(w) = {}
  /\ UNCHANGED <<readyWorkers, activeWorkers, calls, toMaster>>
  /\ Reads(w)

CanceledEffect(w) ==
  /\ canceled # <<>> /\ w = Head(canceled) /\ canceled' = Tail(canceled)
  /\ calls' \in [Calls -> CallState]
  /\ \A c \in Calls : calls'[c].s = calls[c].s /\ calls'[c].w = calls[c].w /\ calls'[c].got = calls[c].got
  /\ \A c \in Calls : calls'[c].at = IF c \in Training(w) THEN "canceled" ELSE calls[c].at
  /\ cancels' = {x \in cancels : x.w # w}
  /\ activeWorkers' \in [Sessions -> Workers \cup {Undefined}]
  /\ \A s \in Sessions : activeWorkers'[s] =
       IF \E x \in cancels : x.w = w /\ x.s = s THEN Undefined ELSE activeWorkers[s]
  /\ readyWorkers' \in Seq(Workers) /\ IsInjective(readyWorkers')
  /\ \A v \in Workers : (IsReady(v)' => IsReady(v)) /\ (IsReady(v) /\ v # w => IsReady(v)')
  /\ (\E x \in cancels : x.w = w) => ~ IsReady(w)'
  /\ UNCHANGED <<toMaster, worker, handlers, histories>>

\* The master handles the first message of the web process.
Handles(m) ==
  /\ toMaster # <<>> /\ m = Head(toMaster)
  /\ toMaster' = Tail(toMaster)
  /\ UNCHANGED <<web, histories>>

ForkEffect(m, w) ==
  /\ Handles(m) /\ m.type = "make"
  /\ worker[w].at = "none"
  /\ WorkerMoves(w)
  /\ worker'[w].at = "boot" /\ worker'[w].for = m.s
  /\ worker'[w].jobs = worker[w].jobs /\ worker'[w].out = worker[w].out
  /\ UNCHANGED <<canceled, handlers>>

PassEffect(m) ==
  /\ Handles(m) /\ m.type = "start"
  /\ worker[m.w].at = "up"
  /\ WorkerMoves(m.w)
  /\ worker'[m.w].at = worker[m.w].at /\ worker'[m.w].out = worker[m.w].out
  /\ worker'[m.w].jobs = worker[m.w].jobs \cup {m.c}
  /\ UNCHANGED <<canceled, handlers>>

PassNothing(m) ==
  /\ Handles(m) /\ m.type = "start"
  /\ worker[m.w].at # "up"
  /\ UNCHANGED <<worker, canceled, handlers>>

\* The process of w is gone, its reports are still read.
WorkerStops(w) ==
  /\ WorkerMoves(w)
  /\ worker'[w].at = "killed" /\ worker'[w].jobs = {} /\ worker'[w].out = worker[w].out

KillEffect(m) ==
  /\ Handles(m) /\ m.type = "cancel"
  /\ worker[m.w].at # "dead"
  /\ WorkerStops(m.w)
  /\ handlers' = handlers + 1
  /\ UNCHANGED canceled

KillNothing(m) ==
  /\ Handles(m) /\ m.type = "cancel"
  /\ worker[m.w].at = "dead"
  /\ canceled' = Append(canceled, m.w)
  /\ UNCHANGED <<worker, handlers>>

ExitEffect(w) ==
  /\ worker[w].at = "killed"
  /\ WorkerMoves(w)
  /\ worker'[w].at = "dead" /\ worker'[w].jobs = worker[w].jobs /\ worker'[w].out = worker[w].out
  /\ canceled' \in Seq(Workers)
  /\ \A v : (\E k \in DOMAIN canceled' : canceled'[k] = v) <=>
              (\E k \in DOMAIN canceled : canceled[k] = v) \/ (handlers > 0 /\ v = w)
  /\ handlers' = 0
  /\ \A v \in Workers : v \in robbed \/ (handlers > 0 /\ v # w /\ worker[v].at = "killed") => v \in robbed'
  /\ UNCHANGED <<web, toMaster, killed, crashed, failed>>

\* w sends reports.
Reported(w, reports) ==
  /\ WorkerMoves(w)
  /\ worker'[w].out = worker[w].out \o reports
  /\ UNCHANGED <<web, toMaster, canceled, handlers, killed, crashed, robbed>>

BootEffect(w) ==
  /\ worker[w].at = "boot" /\ worker'[w].at = "up" /\ worker'[w].jobs = worker[w].jobs
  /\ Reported(w, <<[type |-> "ready", c |-> Undefined]>>)
  /\ UNCHANGED failed

BootFails(w) ==
  /\ worker[w].at = "boot" /\ worker'[w].at = "stuck" /\ worker'[w].jobs = worker[w].jobs
  /\ worker'[w].out = worker[w].out
  /\ WorkerMoves(w)
  /\ UNCHANGED <<web, toMaster, canceled, handlers, histories>>

ReturnEffect(w, c) ==
  /\ c \in worker[w].jobs /\ worker'[w].at = worker[w].at
  /\ worker'[w].jobs = worker[w].jobs \ {c}
  /\ Reported(w, <<[type |-> "done", c |-> c]>>)
  /\ UNCHANGED failed

ThrowEffect(w, c) ==
  /\ c \in worker[w].jobs /\ worker'[w].at = worker[w].at
  /\ worker'[w].jobs = worker[w].jobs \ {c}
  /\ Reported(w, <<[type |-> "error", c |-> Undefined], [type |-> "done", c |-> Undefined]>>)
  /\ failed' = failed \cup {w}

CrashEffect(w) ==
  /\ worker[w].at \in {"boot", "up"}
  /\ WorkerStops(w)
  /\ crashed' = crashed \cup {w}
  /\ UNCHANGED <<web, toMaster, canceled, handlers, killed, failed, robbed>>

QueueStep ==
  \/ \E s \in Sessions, c \in Calls : SpawnEffect(s, c) \/ \E w \in Workers : TakeEffect(s, c, w)
  \/ \E s \in Sessions : CancelEffect(s)
  \/ \E w \in Workers, c \in Calls :
       ReadyEffect(w, c) \/ SettleEffect(w, c) \/ ReturnEffect(w, c) \/ ThrowEffect(w, c)
  \/ \E w \in Workers : SettleNone(w) \/ CanceledEffect(w)
  \/ \E m \in Message : \/ \E w \in Workers : ForkEffect(m, w)
                        \/ PassEffect(m) \/ PassNothing(m) \/ KillEffect(m) \/ KillNothing(m)
  \/ \E w \in Workers : ExitEffect(w) \/ BootEffect(w) \/ BootFails(w) \/ CrashEffect(w)

\* One call at most listens to a worker.
LEMMA OneListens ==
  ASSUME QueueTypes, CallsKnown, WorkersApart,
         NEW w, NEW b \in Training(w), NEW c \in Training(w)
  PROVE  b = c
<1>1. /\ b \in Calls /\ calls[b].at = "train" /\ calls[b].w = w
      /\ c \in Calls /\ calls[c].at = "train" /\ calls[c].w = w
  BY DEF Training
<1>2. /\ calls[b].s \in Sessions /\ activeWorkers[calls[b].s] = w
      /\ calls[c].s \in Sessions /\ activeWorkers[calls[c].s] = w
      /\ w \in Workers
  BY <1>1 DEF CallsKnown
<1>3. calls[b].s = calls[c].s
  BY <1>2, WorkersAreNumbers DEF WorkersApart
<1>. QED BY <1>1, <1>3 DEF CallsKnown, StartedOnce, Pending

LEMMA SpawnDoes ==
  ASSUME QueueInv, ~ Impatient, NEW s \in Sessions, NEW c \in Calls, calls[c].at = "none",
         activeWorkers[s] = Undefined, Settled(s), Spawn(s, c),
         UNCHANGED <<cancels, canceled, worker, handlers, histories>>
  PROVE  SpawnEffect(s, c)
<1>1. calls \in [Calls -> CallState] /\ calls[c] \in CallState
  BY QueueParts DEF QueueInv
<1>2. calls' = [calls EXCEPT ![c] = [calls[c] EXCEPT !.at = "spawn", !.s = s]]
  BY <1>1 DEF Spawn
<1>3. [calls[c] EXCEPT !.at = "spawn", !.s = s] \in CallState
  BY <1>1 DEF CallState
<1>4. CallTurns(c, "spawn", s, calls[c].w)
  BY <1>1, <1>2, <1>3 DEF CallTurns, CallState
<1>5. Make(s) \in Message
  BY DEF Make, Message
<1>. QED BY <1>4, <1>5 DEF SpawnEffect, Spawn

LEMMA TakeDoes ==
  ASSUME QueueInv, NEW s \in Sessions, NEW c \in Calls, calls[c].at = "none",
         activeWorkers[s] = Undefined, Settled(s), readyWorkers # <<>>, TakeReady(s, c),
         UNCHANGED <<cancels, canceled, worker, handlers, histories>>
  PROVE  TakeEffect(s, c, Last(readyWorkers)) /\ Last(readyWorkers) \in Workers
<1>1. calls \in [Calls -> CallState] /\ calls[c] \in CallState /\ readyWorkers \in Seq(Workers)
  BY QueueParts DEF QueueInv
<1> DEFINE w == Last(readyWorkers)
<1>2. /\ w \in Workers /\ IsReady(w)
      /\ readyWorkers' \in Seq(Workers) /\ IsInjective(readyWorkers')
      /\ \A v : IsReady(v)' <=> IsReady(v) /\ v # w
  BY <1>1, TakeReadyDoes DEF QueueInv, WorkersApart, TakeReady
<1>3. /\ calls' = [calls EXCEPT ![c] = [calls[c] EXCEPT !.at = "train", !.s = s, !.w = w]]
      /\ activeWorkers' = [activeWorkers EXCEPT ![s] = w]
      /\ toMaster' = Append(toMaster, StartOn(w, c))
  BY <1>1 DEF TakeReady
<1> HIDE DEF w
<1>4. [calls[c] EXCEPT !.at = "train", !.s = s, !.w = w] \in CallState
  BY <1>1, <1>2 DEF CallState
<1>5. CallTurns(c, "train", s, w)
  BY <1>1, <1>3, <1>4 DEF CallTurns, CallState
<1>6. StartOn(w, c) \in Message
  BY <1>2 DEF StartOn, Message
<1>7. TakeEffect(s, c, w)
  BY <1>2, <1>3, <1>5, <1>6 DEF TakeEffect
<1>. QED BY <1>2, <1>7 DEF w

LEMMA StartTrainingDoes ==
  ASSUME QueueInv, ~ Impatient, NEW s \in Sessions, StartTraining(s)
  PROVE  QueueStep
<1>1. PICK c \in Calls : /\ calls[c].at = "none"
                         /\ IF readyWorkers = <<>> THEN Spawn(s, c) ELSE TakeReady(s, c)
  BY DEF StartTraining
<1>2. /\ activeWorkers[s] = Undefined /\ Settled(s)
      /\ UNCHANGED <<cancels, canceled, worker, handlers, histories>>
  BY DEF StartTraining
<1>3. CASE readyWorkers = <<>>
  BY <1>1, <1>2, <1>3, SpawnDoes DEF QueueStep
<1>4. CASE readyWorkers # <<>>
  BY <1>1, <1>2, <1>4, TakeDoes DEF QueueStep
<1>. QED BY <1>3, <1>4

LEMMA CancelDoes ==
  ASSUME QueueInv, NEW s \in Sessions, CancelTraining(s)
  PROVE  CancelEffect(s)
<1>1. activeWorkers[s] \in Workers
  BY QueueParts DEF QueueInv, CancelTraining
<1>2. Cancel(activeWorkers[s]) \in Message
  BY <1>1 DEF Cancel, Message
<1>. QED BY <1>1, <1>2 DEF CancelEffect, CancelTraining

\* The reports of a worker: the first, and the others.
LEMMA OutParts ==
  ASSUME QueueInv, NEW w \in Workers
  PROVE  /\ worker[w].out # <<>> =>
              /\ Head(worker[w].out) \in Report /\ Head(worker[w].out) = worker[w].out[1]
              /\ 1 \in DOMAIN worker[w].out /\ Tail(worker[w].out) \in Seq(Report)
              /\ worker[w].at \notin {"none", "boot", "stuck"}
         /\ Coming(w) /\ worker[w].at # "boot" =>
              /\ worker[w].out # <<>> /\ Head(worker[w].out).type = "ready" /\ worker[w].jobs = {}
              /\ Tail(worker[w].out) = <<>>
         /\ worker[w].out # <<>> /\ Head(worker[w].out).type = "ready" => Coming(w)
<1>1. worker[w].out \in Seq(Report)
  BY QueueParts DEF QueueInv
<1>2. worker[w].out # <<>> =>
        /\ Head(worker[w].out) \in Report /\ Head(worker[w].out) = worker[w].out[1]
        /\ 1 \in DOMAIN worker[w].out /\ Tail(worker[w].out) \in Seq(Report)
        /\ Len(Tail(worker[w].out)) = Len(worker[w].out) - 1
  BY <1>1, TailParts
<1>3. ASSUME Coming(w), worker[w].at # "boot"
      PROVE  /\ worker[w].out # <<>> /\ Head(worker[w].out).type = "ready" /\ worker[w].jobs = {}
             /\ Tail(worker[w].out) = <<>>
  <2>1. PICK k \in DOMAIN worker[w].out : worker[w].out[k].type = "ready"
    BY <1>3 DEF Coming
  <2>2. Len(worker[w].out) = 1 /\ worker[w].jobs = {}
    BY <2>1 DEF QueueInv, QueueTypes
  <2>3. k = 1 /\ worker[w].out # <<>>
    BY <1>1, <2>1, <2>2, SeqParts, EmptySeq
  <2>4. Len(Tail(worker[w].out)) = 0
    BY <1>2, <2>2, <2>3
  <2>. QED BY <1>2, <2>1, <2>2, <2>3, <2>4, EmptySeq
<1>4. worker[w].out # <<>> => worker[w].at \notin {"none", "boot", "stuck"}
  BY DEF QueueInv, QueueTypes
<1>. QED BY <1>2, <1>3, <1>4 DEF Coming

LEMMA ReceiveReads ==
  ASSUME QueueInv, NEW w \in Workers, Receive(w)
  PROVE  Reads(w)
<1>1. worker \in [Workers -> WorkerState] /\ worker[w] \in WorkerState /\ worker[w].out # <<>>
  BY QueueParts DEF QueueInv, Receive
<1>2. worker' = [worker EXCEPT ![w] = [worker[w] EXCEPT !.out = Tail(worker[w].out)]]
  BY DEF Receive
<1>3. Tail(worker[w].out) \in Seq(Report)
  BY <1>1, OutParts
<1>4. [worker[w] EXCEPT !.out = Tail(worker[w].out)] \in WorkerState
  BY <1>1, <1>3 DEF WorkerState
<1>5. worker' \in [Workers -> WorkerState] /\ worker'[w] = [worker[w] EXCEPT !.out = Tail(worker[w].out)]
      /\ \A v \in Workers \ {w} : worker'[v] = worker[v]
  BY <1>1, <1>2, <1>4
<1>6. /\ worker'[w].at = worker[w].at /\ worker'[w].jobs = worker[w].jobs
      /\ worker'[w].for = worker[w].for /\ worker'[w].out = Tail(worker[w].out)
  BY <1>1, <1>5 DEF WorkerState
<1>. QED BY <1>1, <1>5, <1>6 DEF Reads, WorkerMoves, Receive

LEMMA ReadyDoes ==
  ASSUME QueueInv, NEW w \in Workers, Receive(w), Head(worker[w].out).type = "ready"
  PROVE  \E c \in Calls : ReadyEffect(w, c)
<1>1. worker[w].out # <<>> /\ WorkerReady(w)
  BY DEF Receive
<1>2. Coming(w) /\ worker[w].at # "boot" /\ worker[w].jobs = {} /\ Tail(worker[w].out) = <<>>
  BY <1>1, OutParts
<1>3. PICK c \in Calls : calls[c].at = "spawn" /\ calls[c].s = worker[w].for
  BY <1>2 DEF QueueInv, Creations, Waits
<1>4. calls[c].s \in Sessions
  BY <1>3 DEF QueueInv, CallsKnown
<1>5. {b \in Calls : calls[b].at = "spawn" /\ calls[b].s = worker[w].for} = {c}
  BY <1>3 DEF QueueInv, CallsKnown, StartedOnce, Pending
<1>6. /\ calls' = [b \in Calls |-> IF b \in {c} THEN [calls[b] EXCEPT !.at = "train", !.w = w] ELSE calls[b]]
      /\ activeWorkers' = [activeWorkers EXCEPT ![worker[w].for] = w]
      /\ toMaster' = toMaster \o [k \in 1..Cardinality({c}) |-> StartOn(w, SetToSeq({c})[k])]
      /\ UNCHANGED readyWorkers
  BY <1>1, <1>5 DEF WorkerReady
<1>7. calls \in [Calls -> CallState] /\ calls[c] \in CallState /\ toMaster \in Seq(Message)
  BY QueueParts DEF QueueInv
<1>8. [calls[c] EXCEPT !.at = "train", !.w = w] \in CallState
  BY <1>7 DEF CallState
<1>9. CallTurns(c, "train", calls[c].s, w)
  BY <1>6, <1>7, <1>8 DEF CallTurns, CallState
<1>10. StartOn(w, c) \in Message
  BY DEF StartOn, Message
<1>11. toMaster' = Append(toMaster, StartOn(w, c))
  <2>1. toMaster' = toMaster \o [k \in 1..1 |-> StartOn(w, [j \in 1..1 |-> c][k])]
    BY <1>6, OneToSeq
  <2>2. [k \in 1..1 |-> StartOn(w, [j \in 1..1 |-> c][k])] = <<StartOn(w, c)>>
    OBVIOUS
  <2>. QED BY <2>1, <2>2, <1>7, <1>10, AppendIsConcat
<1>12. Reads(w) /\ worker'[w].out = <<>>
  BY <1>2, ReceiveReads DEF Reads
<1>. QED BY <1>2, <1>3, <1>4, <1>6, <1>9, <1>10, <1>11, <1>12 DEF ReadyEffect

LEMMA SettleDoes ==
  ASSUME QueueInv, NEW w \in Workers, Receive(w), Head(worker[w].out).type # "ready"
  PROVE  SettleNone(w) \/ \E c \in Calls : SettleEffect(w, c)
<1> DEFINE m == Head(worker[w].out)
<1>1. worker[w].out # <<>> /\ Settle(w, m) /\ Reads(w)
  BY ReceiveReads DEF Receive
<1>2. m \in Report /\ m.type \in {"done", "error"} /\ m.c \in Calls \cup {Undefined}
  <2>1. m \in Report
    BY <1>1, OutParts
  <2>. QED BY <2>1 DEF Report
<1>3. /\ calls \in [Calls -> CallState] /\ activeWorkers \in [Sessions -> Workers \cup {Undefined}]
      /\ readyWorkers \in Seq(Workers)
  BY QueueParts DEF QueueInv
<1>0. m.type # "ready"
  OBVIOUS
<1> HIDE DEF m
<1>4. /\ PrepareForNextTraining(SetToSeq(Training(w)))
      /\ calls' = [c \in Calls |-> IF c \in Training(w)
                                   THEN [calls[c] EXCEPT !.at = m.type, !.got = m.c] ELSE calls[c]]
      /\ UNCHANGED toMaster
  BY <1>1 DEF Settle
<1>5. CASE Training(w) = {}
  <2>1. calls' = calls
    BY <1>3, <1>4, <1>5
  <2>2. SetToSeq(Training(w)) = <<>>
    BY <1>5, NoneToSeq
  <2>3. PrepareForNextTraining(<<>>)
    BY <1>4, <2>2
  <2>4. activeWorkers' = activeWorkers
    <3>1. activeWorkers' = [s \in Sessions |-> activeWorkers[s]]
      BY <2>3 DEF PrepareForNextTraining
    <3>. QED BY <3>1, <1>3
  <2>5. readyWorkers' = readyWorkers
    <3>1. DOMAIN <<>> = {}
      OBVIOUS
    <3>2. [k \in DOMAIN <<>> |-> EntryOf(<<>>, k)] = <<>>
      BY <3>1
    <3>3. Reverse(<<>>) = <<>>
      BY DEF Reverse
    <3>4. readyWorkers' = Reverse([k \in DOMAIN <<>> |-> EntryOf(<<>>, k)]) \o readyWorkers
      BY <2>3 DEF PrepareForNextTraining
    <3>5. readyWorkers' = <<>> \o readyWorkers
      BY <3>2, <3>3, <3>4
    <3>. QED BY <3>5, <1>3, ConcatEmptySeq
  <2>. QED BY <1>0, <1>1, <1>4, <1>5, <2>1, <2>4, <2>5 DEF SettleNone, m
<1>6. ASSUME NEW c \in Training(w) PROVE SettleEffect(w, c) /\ c \in Calls
  <2>1. Training(w) = {c}
    BY <1>6, OneListens DEF QueueInv
  <2>2. c \in Calls /\ calls[c].at = "train" /\ calls[c].w = w
    BY <1>6 DEF Training
  <2>3. calls[c].s \in Sessions /\ activeWorkers[calls[c].s] = w
    BY <2>2 DEF QueueInv, CallsKnown
  <2> DEFINE order == [k \in 1..1 |-> c]
  <2>4. PrepareForNextTraining(order)
    BY <1>4, <2>1, OneToSeq
  <2>5. activeWorkers' = [activeWorkers EXCEPT ![calls[c].s] = Undefined]
    <3>1. activeWorkers' = [s \in Sessions |-> IF \E k \in DOMAIN order : calls[order[k]].s = s
                                              THEN Undefined ELSE activeWorkers[s]]
      BY <2>4 DEF PrepareForNextTraining
    <3>2. \A s : (\E k \in DOMAIN order : calls[order[k]].s = s) <=> s = calls[c].s
      OBVIOUS
    <3>3. activeWorkers' = [s \in Sessions |-> IF s = calls[c].s THEN Undefined ELSE activeWorkers[s]]
      BY <3>1, <3>2
    <3>. QED BY <3>3, <1>3, <2>3
  <2>6. readyWorkers' = <<w>> \o readyWorkers
    <3>1. readyWorkers' = Reverse([k \in DOMAIN order |-> EntryOf(order, k)]) \o readyWorkers
      BY <2>4 DEF PrepareForNextTraining
    <3>2. EntryOf(order, 1) = w
      BY <2>3 DEF EntryOf
    <3>3. [k \in DOMAIN order |-> EntryOf(order, k)] = [k \in 1..1 |-> w]
      BY <3>2
    <3>4. Reverse([k \in 1..1 |-> w]) = <<w>>
      BY DEF Reverse
    <3>. QED BY <3>1, <3>3, <3>4
  <2>7. ~ IsReady(w)
    BY <2>3 DEF QueueInv, WorkersApart
  <2>8. /\ readyWorkers' \in Seq(Workers) /\ IsInjective(readyWorkers')
        /\ \A v : IsReady(v)' <=> IsReady(v) \/ v = w
    BY <1>3, <2>6, <2>7, PutBackDoes DEF QueueInv, WorkersApart
  <2>9. calls[c] \in CallState /\ [calls[c] EXCEPT !.at = m.type, !.got = m.c] \in CallState
    BY <1>2, <1>3, <2>2 DEF CallState
  <2>10. CallTurns(c, m.type, calls[c].s, w) /\ calls'[c].got = m.c
    BY <1>3, <1>4, <2>1, <2>2, <2>9 DEF CallTurns, CallState
  <2> HIDE DEF order
  <2>. QED BY <1>0, <1>1, <1>4, <2>1, <2>2, <2>3, <2>5, <2>8, <2>10 DEF SettleEffect, m
<1>. QED BY <1>5, <1>6

LEMMA CanceledDoes ==
  ASSUME QueueInv, ReceiveCanceled
  PROVE  \E w \in Workers : CanceledEffect(w)
<1>0. canceled # <<>> /\ Head(canceled) \in Workers
  BY QueueParts, TailParts DEF QueueInv, ReceiveCanceled
<1>1. PICK w \in Workers : w = Head(canceled)
  BY <1>0
<1> DEFINE resolved == {x \in cancels : x.w = w}
<1>2. /\ calls \in [Calls -> CallState] /\ activeWorkers \in [Sessions -> Workers \cup {Undefined}]
      /\ readyWorkers \in Seq(Workers)
  BY QueueParts DEF QueueInv
<1>3. /\ calls' = [c \in Calls |-> IF c \in Training(w) THEN [calls[c] EXCEPT !.at = "canceled"] ELSE calls[c]]
      /\ cancels' = cancels \ resolved
      /\ activeWorkers' = [s \in Sessions |-> IF \E x \in resolved : x.s = s
                                              THEN Undefined ELSE activeWorkers[s]]
      /\ IF resolved = {} THEN UNCHANGED readyWorkers ELSE Filter(w)
      /\ canceled' = Tail(canceled)
      /\ UNCHANGED <<toMaster, worker, handlers, histories>>
  BY <1>1 DEF ReceiveCanceled
<1>4. /\ readyWorkers' \in Seq(Workers) /\ IsInjective(readyWorkers')
      /\ \A v \in Workers : (IsReady(v)' => IsReady(v)) /\ (IsReady(v) /\ v # w => IsReady(v)')
      /\ resolved # {} => ~ IsReady(w)'
  <2>1. CASE resolved = {}
    BY <1>2, <1>3, <2>1 DEF QueueInv, WorkersApart, IsReady
  <2>2. CASE resolved # {}
    <3>1. Filter(w)
      BY <1>3, <2>2
    <3>. QED BY <3>1, <1>2, FilterDoes DEF QueueInv, WorkersApart
  <2>. QED BY <2>1, <2>2
<1>5. \A c \in Calls : [calls[c] EXCEPT !.at = "canceled"] \in CallState
  BY <1>2 DEF CallState
<1>6. calls' \in [Calls -> CallState]
  BY <1>2, <1>3, <1>5
<1>7. \A c \in Calls : /\ calls'[c].s = calls[c].s /\ calls'[c].w = calls[c].w /\ calls'[c].got = calls[c].got
                       /\ calls'[c].at = IF c \in Training(w) THEN "canceled" ELSE calls[c].at
  <2> SUFFICES ASSUME NEW c \in Calls
               PROVE  /\ calls'[c].s = calls[c].s /\ calls'[c].w = calls[c].w /\ calls'[c].got = calls[c].got
                      /\ calls'[c].at = IF c \in Training(w) THEN "canceled" ELSE calls[c].at
    OBVIOUS
  <2>1. calls[c] \in CallState
    BY <1>2
  <2>2. calls'[c] = IF c \in Training(w) THEN [calls[c] EXCEPT !.at = "canceled"] ELSE calls[c]
    BY <1>3
  <2>. QED BY <2>1, <2>2 DEF CallState
<1>8. /\ activeWorkers' \in [Sessions -> Workers \cup {Undefined}]
      /\ \A s \in Sessions : activeWorkers'[s] =
           IF \E x \in cancels : x.w = w /\ x.s = s THEN Undefined ELSE activeWorkers[s]
  BY <1>2, <1>3
<1>9. cancels' = {x \in cancels : x.w # w}
  BY <1>3
<1>10. (\E x \in cancels : x.w = w) => ~ IsReady(w)'
  BY <1>4
<1>. QED BY <1>0, <1>1, <1>3, <1>4, <1>6, <1>7, <1>8, <1>9, <1>10 DEF CanceledEffect

\* One worker changes.
LEMMA OneWorkerMoves ==
  ASSUME worker \in [Workers -> WorkerState], NEW w \in Workers, NEW r \in WorkerState,
         worker' = [worker EXCEPT ![w] = r], worker[w].at = "none" \/ r.for = worker[w].for
  PROVE  WorkerMoves(w) /\ worker'[w] = r
BY DEF WorkerMoves

LEMMA StopDoes ==
  ASSUME worker \in [Workers -> WorkerState], NEW w \in Workers,
         worker' = [worker EXCEPT ![w].at = "killed", ![w].jobs = {}]
  PROVE  WorkerStops(w)
<1> DEFINE r == [worker[w] EXCEPT !.at = "killed", !.jobs = {}]
<1>1. worker' = [worker EXCEPT ![w] = r]
  OBVIOUS
<1>2. r \in WorkerState /\ r.for = worker[w].for /\ r.at = "killed" /\ r.jobs = {} /\ r.out = worker[w].out
  <2>1. worker[w] \in WorkerState
    OBVIOUS
  <2>. QED BY <2>1 DEF WorkerState
<1> HIDE DEF r
<1>3. WorkerMoves(w) /\ worker'[w] = r
  BY <1>1, <1>2, OneWorkerMoves
<1>. QED BY <1>2, <1>3 DEF WorkerStops

LEMMA HandleDoes ==
  ASSUME QueueInv, Handle
  PROVE  QueueStep
<1>1. PICK m \in Message : m = Head(toMaster) /\ (Fork(m) \/ PassOn(m) \/ KillTrainingWorker(m))
  BY QueueParts, TailParts DEF QueueInv, Handle
<1>2. Handles(m)
  BY <1>1 DEF Handles, Handle
<1>3. toMaster[1] = m /\ 1 \in DOMAIN toMaster
  BY <1>1, QueueParts, TailParts DEF QueueInv, Handle
<1>4. /\ m.type = "make" => m.s \in Sessions
      /\ m.type # "make" => m.w \in Workers
      /\ m.type = "start" => m.c \in Calls
  BY <1>3 DEF QueueInv, QueueTypes
<1>5. worker \in [Workers -> WorkerState] /\ canceled \in Seq(Workers) /\ handlers \in Nat
      /\ \A v \in Workers : worker[v] \in WorkerState /\ (worker[v].jobs # {} => worker[v].at = "up")
  BY QueueParts DEF QueueInv
<1>6. CASE Fork(m)
  <2>1. PICK w \in Workers : worker[w].at = "none" /\ worker' = [worker EXCEPT ![w].at = "boot", ![w].for = m.s]
    BY <1>6 DEF Fork
  <2>2. worker' = [worker EXCEPT ![w] = [worker[w] EXCEPT !.at = "boot", !.for = m.s]]
    <3>1. worker[w] \in WorkerState
      BY <1>5
    <3>. QED BY ONLY <2>1, <3>1 DEF WorkerState
  <2>3. [worker[w] EXCEPT !.at = "boot", !.for = m.s] \in WorkerState
    BY <1>4, <1>5, <1>6 DEF WorkerState, Fork
  <2>4. WorkerMoves(w) /\ worker'[w] = [worker[w] EXCEPT !.at = "boot", !.for = m.s]
    BY <1>5, <2>1, <2>2, <2>3, OneWorkerMoves
  <2>5. worker'[w].at = "boot" /\ worker'[w].for = m.s
        /\ worker'[w].jobs = worker[w].jobs /\ worker'[w].out = worker[w].out
    BY <1>5, <2>4 DEF WorkerState
  <2>6. ForkEffect(m, w)
    BY <1>2, <1>6, <2>1, <2>4, <2>5 DEF ForkEffect, Fork
  <2>. QED BY <2>6 DEF QueueStep
<1>7. CASE PassOn(m)
  <2>1. m.type = "start" /\ m.w \in Workers /\ m.c \in Calls
    BY <1>4, <1>7 DEF PassOn
  <2>2. PICK w \in Workers, c \in Calls : w = m.w /\ c = m.c /\ w # Undefined
    BY <2>1, WorkersAreNumbers
  <2>3. CASE worker[w].at = "up"
    <3> DEFINE r == [worker[w] EXCEPT !.jobs = worker[w].jobs \cup {c}]
    <3>1. worker' = [worker EXCEPT ![w].jobs = @ \cup {c}] /\ UNCHANGED <<canceled, handlers>>
      BY <1>7, <2>2, <2>3 DEF PassOn
    <3>2. worker' = [worker EXCEPT ![w] = r]
      BY <1>5, <3>1
    <3>3. worker[w].jobs \in SUBSET Calls
      BY <1>5 DEF WorkerState
    <3>4. r \in WorkerState /\ r.for = worker[w].for /\ r.at = worker[w].at /\ r.out = worker[w].out
          /\ r.jobs = worker[w].jobs \cup {c}
      BY <1>5, <3>3 DEF WorkerState
    <3> HIDE DEF r
    <3>5. WorkerMoves(w) /\ worker'[w] = r
      BY <1>5, <3>2, <3>4, OneWorkerMoves
    <3>6. PassEffect(m)
      BY <1>2, <2>1, <2>2, <2>3, <3>1, <3>4, <3>5 DEF PassEffect
    <3>. QED BY <3>6 DEF QueueStep
  <2>4. CASE worker[w].at # "up"
    <3>1. PassNothing(m)
      BY <1>2, <1>7, <2>1, <2>2, <2>4 DEF PassNothing, PassOn
    <3>. QED BY <3>1 DEF QueueStep
  <2>. QED BY <2>3, <2>4
<1>8. CASE KillTrainingWorker(m)
  <2>1. m.type = "cancel" /\ m.w \in Workers
    BY <1>4, <1>8 DEF KillTrainingWorker
  <2>2. CASE worker[m.w].at = "dead"
    <3>1. KillNothing(m)
      BY <1>2, <1>8, <2>1, <2>2 DEF KillNothing, KillTrainingWorker
    <3>. QED BY <3>1 DEF QueueStep
  <2>3. CASE worker[m.w].at # "dead"
    <3>0. PICK w \in Workers : w = m.w
      BY <2>1
    <3>1. /\ worker' = [worker EXCEPT ![w].at = "killed", ![w].jobs = {}]
          /\ handlers' = handlers + 1 /\ UNCHANGED canceled
      BY <1>8, <2>3, <3>0 DEF KillTrainingWorker
    <3>2. WorkerStops(w)
      BY <1>5, <3>1, StopDoes
    <3>3. KillEffect(m)
      BY <1>2, <2>1, <2>3, <3>0, <3>1, <3>2 DEF KillEffect
    <3>. QED BY <3>3 DEF QueueStep
  <2>. QED BY <2>2, <2>3
<1>. QED BY <1>1, <1>6, <1>7, <1>8

LEMMA ExitDoes ==
  ASSUME QueueInv, NEW w \in Workers, Exit(w)
  PROVE  ExitEffect(w)
<1>1. worker \in [Workers -> WorkerState] /\ worker[w] \in WorkerState
      /\ canceled \in Seq(Workers) /\ handlers \in Nat
  BY QueueParts DEF QueueInv
<1>2. worker' = [worker EXCEPT ![w] = [worker[w] EXCEPT !.at = "dead"]]
  BY <1>1 DEF Exit
<1>3. [worker[w] EXCEPT !.at = "dead"] \in WorkerState /\ [worker[w] EXCEPT !.at = "dead"].for = worker[w].for
  <2>1. worker[w].jobs \in SUBSET Calls
    BY <1>1 DEF WorkerState
  <2>. QED BY <1>1, <2>1 DEF WorkerState
<1>4. WorkerMoves(w) /\ worker'[w] = [worker[w] EXCEPT !.at = "dead"]
  BY <1>1, <1>2, <1>3, OneWorkerMoves
<1>5. worker'[w].at = "dead" /\ worker'[w].jobs = worker[w].jobs /\ worker'[w].out = worker[w].out
  BY <1>1, <1>4 DEF WorkerState
<1>6. /\ canceled' \in Seq(Workers)
      /\ \A v : (\E k \in DOMAIN canceled' : canceled'[k] = v) <=>
                  (\E k \in DOMAIN canceled : canceled[k] = v) \/ (handlers > 0 /\ v = w)
  <2> DEFINE more == [k \in 1..handlers |-> w]
             n == Len(canceled)
             h == handlers
  <2>1. more \in Seq(Workers) /\ Len(more) = handlers /\ \A k \in 1..handlers : more[k] = w
    BY <1>1
  <2>2. n \in Nat /\ DOMAIN canceled = 1..n /\ h \in Nat
    BY <1>1, SeqParts
  <2>3. canceled' = canceled \o more
    BY DEF Exit
  <2>4. /\ canceled' \in Seq(Workers) /\ Len(canceled') = n + h
        /\ \A k \in 1..(n + h) : canceled'[k] = IF k <= n THEN canceled[k] ELSE more[k - n]
    BY <1>1, <2>1, <2>3, ConcatProperties
  <2>5. DOMAIN canceled' = 1..(n + h)
    BY <2>4, SeqParts
  <2> HIDE DEF n, h, more
  <2>6. \A k \in 1..n : k \in 1..(n + h) /\ canceled'[k] = canceled[k]
    BY <2>2, <2>4
  <2>7. ASSUME NEW k \in 1..(n + h), k \notin 1..n PROVE canceled'[k] = w /\ h > 0
    <3>1. ~ (k <= n) /\ k - n \in 1..h /\ h > 0
      BY <2>2, <2>7
    <3>2. canceled'[k] = more[k - n]
      BY <2>4, <3>1
    <3>. QED BY <2>1, <3>1, <3>2 DEF h
  <2>8. ASSUME h > 0 PROVE n + h \in 1..(n + h) /\ n + h \notin 1..n
    BY <2>2, <2>8
  <2>9. ASSUME NEW v
        PROVE  (\E k \in 1..(n + h) : canceled'[k] = v) <=>
                  (\E k \in 1..n : canceled[k] = v) \/ (h > 0 /\ v = w)
    <3>1. ASSUME NEW k \in 1..(n + h), canceled'[k] = v
          PROVE  (\E j \in 1..n : canceled[j] = v) \/ (h > 0 /\ v = w)
      BY <2>6, <2>7, <3>1
    <3>2. ASSUME NEW k \in 1..n, canceled[k] = v PROVE \E j \in 1..(n + h) : canceled'[j] = v
      BY <2>6, <3>2
    <3>3. ASSUME h > 0, v = w PROVE \E j \in 1..(n + h) : canceled'[j] = v
      BY <2>7, <2>8, <3>3
    <3>. QED BY <3>1, <3>2, <3>3
  <2>. QED BY <2>2, <2>4, <2>5, <2>9 DEF h
<1>7. \A v \in Workers : v \in robbed \/ (handlers > 0 /\ v # w /\ worker[v].at = "killed") => v \in robbed'
  <2> SUFFICES ASSUME NEW v \in Workers, v \in robbed \/ (handlers > 0 /\ v # w /\ worker[v].at = "killed")
               PROVE  v \in robbed'
    OBVIOUS
  <2>1. robbed' = robbed \cup IF handlers = 0 THEN {} ELSE {u \in Workers \ {w} : worker[u].at = "killed"}
    BY DEF Exit
  <2>2. handlers > 0 => handlers # 0
    BY <1>1
  <2>. QED BY <2>1, <2>2
<1>. QED BY <1>4, <1>5, <1>6, <1>7 DEF ExitEffect, Exit

LEMMA BootDoes ==
  ASSUME QueueInv, NEW w \in Workers, Boot(w)
  PROVE  BootEffect(w) \/ BootFails(w)
<1>1. worker \in [Workers -> WorkerState] /\ worker[w] \in WorkerState /\ worker[w].jobs \in SUBSET Calls
  BY QueueParts DEF QueueInv
<1> DEFINE ready == <<[type |-> "ready", c |-> Undefined]>>
<1>2. ready \in Seq(Report)
  BY DEF Report
<1>3. worker[w].at = "boot" /\ UNCHANGED <<web, toMaster, canceled, handlers, histories>>
  BY DEF Boot
<1>4. CASE worker' = [Sent(w, ready) EXCEPT ![w].at = "up"]
  <2> DEFINE r == [worker[w] EXCEPT !.out = worker[w].out \o ready, !.at = "up"]
  <2>0. worker[w].out \in Seq(Report) /\ worker[w].out \o ready \in Seq(Report)
    BY <1>1, <1>2, ConcatProperties DEF WorkerState
  <2>1. worker' = [worker EXCEPT ![w] = r]
    BY <1>1, <1>4 DEF Sent, WorkerState
  <2>a. r \in WorkerState /\ r.for = worker[w].for /\ r.at = "up"
        /\ r.out = worker[w].out \o ready /\ r.jobs = worker[w].jobs
    BY <1>1, <2>0 DEF WorkerState
  <2> HIDE DEF r
  <2>b. WorkerMoves(w) /\ worker'[w] = r
    BY <1>1, <2>1, <2>a, OneWorkerMoves
  <2>2. WorkerMoves(w) /\ worker'[w].out = worker[w].out \o ready /\ worker'[w].at = "up"
        /\ worker'[w].jobs = worker[w].jobs
    BY <2>a, <2>b
  <2>. QED BY <1>3, <2>2 DEF BootEffect, Reported, histories
<1>5. CASE worker' = [worker EXCEPT ![w].at = "stuck"]
  <2>1. worker' = [worker EXCEPT ![w] = [worker[w] EXCEPT !.at = "stuck"]]
    BY <1>1, <1>5
  <2>2. [worker[w] EXCEPT !.at = "stuck"] \in WorkerState /\ [worker[w] EXCEPT !.at = "stuck"].for = worker[w].for
    BY <1>1 DEF WorkerState
  <2>3. WorkerMoves(w) /\ worker'[w] = [worker[w] EXCEPT !.at = "stuck"]
    BY <1>1, <2>1, <2>2, OneWorkerMoves
  <2>4. worker'[w].at = "stuck" /\ worker'[w].jobs = worker[w].jobs /\ worker'[w].out = worker[w].out
    BY <1>1, <2>3 DEF WorkerState
  <2>. QED BY <1>3, <2>3, <2>4 DEF BootFails
<1>. QED BY <1>4, <1>5 DEF Boot

LEMMA TrainDoes ==
  ASSUME QueueInv, NEW w \in Workers, Train(w)
  PROVE  \E c \in Calls : ReturnEffect(w, c) \/ ThrowEffect(w, c)
<1>1. worker \in [Workers -> WorkerState] /\ worker[w] \in WorkerState /\ worker[w].jobs \in SUBSET Calls
      /\ worker[w].at \in {"none", "boot", "up", "stuck", "killed", "dead"}
  BY QueueParts DEF QueueInv
<1>2. PICK c \in Calls : TrainerReturns(w, c) \/ TrainerThrows(w, c)
  BY DEF Train
<1>3. UNCHANGED <<web, toMaster, canceled, handlers, killed, crashed, robbed>>
  BY DEF Train
<1>4. ASSUME NEW reports \in Seq(Report), worker' = [Sent(w, reports) EXCEPT ![w].jobs = @ \ {c}]
      PROVE  /\ WorkerMoves(w) /\ worker'[w].out = worker[w].out \o reports /\ worker'[w].at = worker[w].at
             /\ worker'[w].jobs = worker[w].jobs \ {c}
  <2> DEFINE r == [worker[w] EXCEPT !.out = worker[w].out \o reports, !.jobs = worker[w].jobs \ {c}]
  <2>0. worker[w].out \in Seq(Report) /\ worker[w].out \o reports \in Seq(Report)
        /\ worker[w].jobs \ {c} \in SUBSET Calls
    BY <1>1, <1>4, ConcatProperties DEF WorkerState
  <2>1. worker' = [worker EXCEPT ![w] = r]
    BY <1>1, <1>4 DEF Sent, WorkerState
  <2>2. r \in WorkerState /\ r.for = worker[w].for /\ r.at = worker[w].at
        /\ r.out = worker[w].out \o reports /\ r.jobs = worker[w].jobs \ {c}
    BY <1>1, <2>0 DEF WorkerState
  <2> HIDE DEF r
  <2>3. WorkerMoves(w) /\ worker'[w] = r
    BY <1>1, <2>1, <2>2, OneWorkerMoves
  <2>. QED BY <2>2, <2>3
<1>5. CASE TrainerReturns(w, c)
  <2>1. <<[type |-> "done", c |-> c]>> \in Seq(Report)
    BY DEF Report
  <2>2. c \in worker[w].jobs /\ UNCHANGED failed
        /\ worker' = [Sent(w, <<[type |-> "done", c |-> c]>>) EXCEPT ![w].jobs = @ \ {c}]
    BY <1>5 DEF TrainerReturns
  <2>3. /\ WorkerMoves(w) /\ worker'[w].out = worker[w].out \o <<[type |-> "done", c |-> c]>>
        /\ worker'[w].at = worker[w].at /\ worker'[w].jobs = worker[w].jobs \ {c}
    BY <1>4, <2>1, <2>2
  <2>4. ReturnEffect(w, c)
    BY <1>3, <2>2, <2>3 DEF ReturnEffect, Reported
  <2>. QED BY <2>4
<1>6. CASE TrainerThrows(w, c)
  <2> DEFINE two == <<[type |-> "error", c |-> Undefined], [type |-> "done", c |-> Undefined]>>
  <2>1. two \in Seq(Report)
    BY DEF Report
  <2>2. c \in worker[w].jobs /\ failed' = failed \cup {w}
        /\ worker' = [Sent(w, two) EXCEPT ![w].jobs = @ \ {c}]
    BY <1>6 DEF TrainerThrows
  <2>3. /\ WorkerMoves(w) /\ worker'[w].out = worker[w].out \o two
        /\ worker'[w].at = worker[w].at /\ worker'[w].jobs = worker[w].jobs \ {c}
    BY <1>4, <2>1, <2>2
  <2>4. ThrowEffect(w, c)
    BY <1>3, <2>2, <2>3 DEF ThrowEffect, Reported
  <2>. QED BY <2>4
<1>. QED BY <1>2, <1>5, <1>6

LEMMA CrashDoes ==
  ASSUME QueueInv, NEW w \in Workers, Crash(w)
  PROVE  CrashEffect(w)
<1>1. worker \in [Workers -> WorkerState] /\ worker[w] \in WorkerState
  BY QueueParts DEF QueueInv
<1>2. worker' = [worker EXCEPT ![w] = [worker[w] EXCEPT !.at = "killed", !.jobs = {}]]
  BY <1>1 DEF Crash
<1>3. /\ [worker[w] EXCEPT !.at = "killed", !.jobs = {}] \in WorkerState
      /\ [worker[w] EXCEPT !.at = "killed", !.jobs = {}].for = worker[w].for
  BY <1>1 DEF WorkerState
<1>4. WorkerMoves(w) /\ worker'[w] = [worker[w] EXCEPT !.at = "killed", !.jobs = {}]
  BY <1>1, <1>2, <1>3, OneWorkerMoves
<1>5. WorkerStops(w)
  BY <1>1, <1>4 DEF WorkerStops, WorkerState
<1>. QED BY <1>5 DEF CrashEffect, Crash

LEMMA NextDoes ==
  ASSUME QueueInv, ~ Impatient, QueueNext
  PROVE  QueueStep
<1>1. ASSUME NEW s \in Sessions, StartTraining(s) PROVE QueueStep
  BY <1>1, StartTrainingDoes
<1>2. ASSUME NEW s \in Sessions, CancelTraining(s) PROVE QueueStep
  BY <1>2, CancelDoes DEF QueueStep
<1>3. ASSUME ReceiveCanceled PROVE QueueStep
  BY <1>3, CanceledDoes DEF QueueStep
<1>4. ASSUME NEW w \in Workers, Receive(w) PROVE QueueStep
  BY <1>4, ReadyDoes, SettleDoes DEF QueueStep
<1>5. ASSUME NEW w \in Workers, Exit(w) PROVE QueueStep
  BY <1>5, ExitDoes DEF QueueStep
<1>6. ASSUME NEW w \in Workers, Boot(w) PROVE QueueStep
  BY <1>6, BootDoes DEF QueueStep
<1>7. ASSUME NEW w \in Workers, Train(w) PROVE QueueStep
  BY <1>7, TrainDoes DEF QueueStep
<1>8. ASSUME NEW w \in Workers, Crash(w) PROVE QueueStep
  BY <1>8, CrashDoes DEF QueueStep
<1>. QED BY <1>1, <1>2, <1>3, <1>4, <1>5, <1>6, <1>7, <1>8, HandleDoes DEF QueueNext

-----------------------------------------------------------------------------
(* The workers. *)

Receives(w, c) == /\ \E m \in Message : PassEffect(m) /\ m.w = w /\ m.c = c
                  /\ Introduced(w) /\ worker[w].at = "up" /\ WorkerMoves(w) /\ c \in Calls
                  /\ worker'[w].at = "up" /\ worker'[w].out = worker[w].out
                  /\ worker'[w].jobs = worker[w].jobs \cup {c}
Exits(w) == /\ ExitEffect(w)
            /\ worker[w].at = "killed" /\ WorkerMoves(w)
            /\ worker'[w].at = "dead" /\ worker'[w].jobs = worker[w].jobs /\ worker'[w].out = worker[w].out
Forks(w) == /\ \E m \in Message : ForkEffect(m, w)
            /\ worker[w].at = "none" /\ WorkerMoves(w) /\ worker'[w].at = "boot"
            /\ worker'[w].jobs = worker[w].jobs /\ worker'[w].out = worker[w].out
WorkerEnds(w, reports) ==
  /\ \E c \in Calls : ReturnEffect(w, c) \/ ThrowEffect(w, c)
  /\ WorkerMoves(w) /\ worker[w].jobs # {}
  /\ worker'[w].at = worker[w].at /\ worker'[w].jobs \subseteq worker[w].jobs
  /\ worker'[w].out = worker[w].out \o reports
  /\ reports \in Seq(Report) /\ reports # <<>> /\ \A k \in DOMAIN reports : reports[k].type # "ready"

\* The steps, as far as the workers go.
WorkerStep(w) ==
  \/ Reads(w) /\ (SettleNone(w) \/ \E c \in Calls : ReadyEffect(w, c) \/ SettleEffect(w, c))
  \/ Forks(w) \/ Exits(w) \/ BootEffect(w) \/ BootFails(w)
  \/ WorkerStops(w) /\ worker[w].at \in {"boot", "up", "killed"}
  \/ \E c \in Calls : Receives(w, c)
  \/ \E reports : WorkerEnds(w, reports)

LEMMA WorkerSteps ==
  ASSUME QueueInv, QueueStep
  PROVE  UNCHANGED worker \/ \E w \in Workers : WorkerStep(w)
<1>1. ASSUME NEW m, Handles(m)
      PROVE  /\ m = toMaster[1] /\ 1 \in DOMAIN toMaster
             /\ m.type = "start" => m.w \in Workers /\ m.c \in Calls /\ Introduced(m.w)
             /\ m.type = "cancel" => m.w \in Workers /\ worker[m.w].at \in {"up", "killed", "dead"}
  <2>1. m = toMaster[1] /\ 1 \in DOMAIN toMaster
    BY <1>1, QueueParts, TailParts DEF QueueInv, Handles
  <2>. QED BY <2>1 DEF QueueInv, QueueTypes, Introductions, Introduced
<1>2. ASSUME NEW m \in Message, NEW w \in Workers, ForkEffect(m, w) PROVE Forks(w)
  BY <1>2 DEF ForkEffect, Forks
<1>3. ASSUME NEW m \in Message, PassEffect(m) PROVE m.w \in Workers /\ Receives(m.w, m.c) /\ m.c \in Calls
  BY <1>1, <1>3 DEF PassEffect, Receives
<1>4. ASSUME NEW m \in Message, KillEffect(m)
      PROVE  m.w \in Workers /\ WorkerStops(m.w) /\ worker[m.w].at \in {"boot", "up", "killed"}
  BY <1>1, <1>4 DEF KillEffect
<1>5. ASSUME NEW w \in Workers, ExitEffect(w) PROVE Exits(w)
  BY <1>5 DEF ExitEffect, Exits
<1>6. ASSUME NEW w \in Workers, NEW c \in Calls, ReturnEffect(w, c)
      PROVE  WorkerEnds(w, <<[type |-> "done", c |-> c]>>)
  BY <1>6 DEF ReturnEffect, Reported, WorkerEnds, Report
<1>7. ASSUME NEW w \in Workers, NEW c \in Calls, ThrowEffect(w, c)
      PROVE  WorkerEnds(w, <<[type |-> "error", c |-> Undefined], [type |-> "done", c |-> Undefined]>>)
  BY <1>7 DEF ThrowEffect, Reported, WorkerEnds, Report
<1>8. ASSUME NEW w \in Workers, CrashEffect(w) PROVE WorkerStops(w) /\ worker[w].at \in {"boot", "up", "killed"}
  BY <1>8 DEF CrashEffect
<1>9. ASSUME NEW w \in Workers, NEW c \in Calls, ReadyEffect(w, c) \/ SettleEffect(w, c)
      PROVE  Reads(w)
  BY <1>9 DEF ReadyEffect, SettleEffect
<1>10. ASSUME NEW w \in Workers, SettleNone(w) PROVE Reads(w)
  BY <1>10 DEF SettleNone
<1>11. ASSUME NEW s \in Sessions, NEW c \in Calls,
              SpawnEffect(s, c) \/ \E w \in Workers : TakeEffect(s, c, w)
       PROVE  UNCHANGED worker
  BY <1>11 DEF SpawnEffect, TakeEffect
<1>12. ASSUME NEW s \in Sessions, CancelEffect(s) PROVE UNCHANGED worker
  BY <1>12 DEF CancelEffect
<1>13. ASSUME NEW w \in Workers, CanceledEffect(w) PROVE UNCHANGED worker
  BY <1>13 DEF CanceledEffect
<1>14. ASSUME NEW m \in Message, PassNothing(m) \/ KillNothing(m) PROVE UNCHANGED worker
  BY <1>14 DEF PassNothing, KillNothing
<1>. QED
  BY <1>2, <1>3, <1>4, <1>5, <1>6, <1>7, <1>8, <1>9, <1>10, <1>11, <1>12, <1>13, <1>14
     DEF QueueStep, WorkerStep

WorkerTypes(w) ==
  /\ worker[w].at \in {"none", "boot", "stuck"} => worker[w].out = <<>>
  /\ worker[w].jobs # {} => worker[w].at = "up"
  /\ \A k \in DOMAIN worker[w].out :
       worker[w].out[k].type = "ready" => Len(worker[w].out) = 1 /\ worker[w].jobs = {}

LEMMA HasTypes == QueueInv => \A w \in Workers : WorkerTypes(w)
BY DEF WorkerTypes, QueueInv, QueueTypes, QueueTypeOK

\* What is behind the first report is not that of being ready.
LEMMA OutTail ==
  ASSUME QueueInv, NEW w \in Workers, worker[w].out # <<>>
  PROVE  \A k \in DOMAIN Tail(worker[w].out) :
           /\ k + 1 \in DOMAIN worker[w].out /\ Tail(worker[w].out)[k] = worker[w].out[k + 1]
           /\ Tail(worker[w].out)[k].type # "ready"
<1>1. worker[w].out \in Seq(Report)
  BY QueueParts DEF QueueInv
<1>2. Len(worker[w].out) \in Nat /\ DOMAIN worker[w].out = 1..Len(worker[w].out)
  BY <1>1, SeqParts
<1> SUFFICES ASSUME NEW k \in DOMAIN Tail(worker[w].out)
             PROVE  /\ k + 1 \in DOMAIN worker[w].out /\ Tail(worker[w].out)[k] = worker[w].out[k + 1]
                    /\ Tail(worker[w].out)[k].type # "ready"
  OBVIOUS
<1>3. k + 1 \in DOMAIN worker[w].out /\ k + 1 # 1 /\ Tail(worker[w].out)[k] = worker[w].out[k + 1] /\ k \in Nat
  BY <1>1, TailParts
<1>4. worker[w].out[k + 1].type = "ready" => Len(worker[w].out) = 1
  BY <1>3, HasTypes DEF WorkerTypes
<1>. QED BY <1>2, <1>3, <1>4

\* Reports that are sent come behind the others.
LEMMA MoreParts ==
  ASSUME NEW p \in Seq(Report), NEW q \in Seq(Report)
  PROVE  /\ \A k \in DOMAIN p : k \in DOMAIN (p \o q) /\ (p \o q)[k] = p[k]
         /\ \A k \in DOMAIN (p \o q) :
              k \in DOMAIN p \/ (k - Len(p) \in DOMAIN q /\ (p \o q)[k] = q[k - Len(p)] /\ k \in Nat)
         /\ p = <<>> => p \o q = q
         /\ \A k \in DOMAIN q : Len(p) + k \in DOMAIN (p \o q) /\ (p \o q)[Len(p) + k] = q[k]
<1> DEFINE n == Len(p)
           l == Len(q)
           r == p \o q
<1>1. n \in Nat /\ l \in Nat /\ DOMAIN p = 1..n /\ DOMAIN q = 1..l
  BY SeqParts
<1>2. r \in Seq(Report) /\ Len(r) = n + l /\ \A k \in 1..(n + l) : r[k] = IF k <= n THEN p[k] ELSE q[k - n]
  BY ConcatProperties
<1>3. DOMAIN r = 1..(n + l)
  BY <1>2, SeqParts
<1>4. p = <<>> => r = q
  BY ConcatEmptySeq
<1> HIDE DEF n, l, r
<1>5. \A k \in 1..n : k \in 1..(n + l) /\ r[k] = p[k]
  BY <1>1, <1>2
<1>6. \A k \in 1..(n + l) : k \in 1..n \/ (k - n \in 1..l /\ r[k] = q[k - n] /\ k \in Nat)
  BY <1>1, <1>2
<1>7. \A k \in 1..l : n + k \in 1..(n + l) /\ r[n + k] = q[k]
  <2> SUFFICES ASSUME NEW k \in 1..l PROVE n + k \in 1..(n + l) /\ r[n + k] = q[k]
    OBVIOUS
  <2>1. PICK i \in 1..(n + l) : i = n + k /\ ~ (i <= n) /\ i - n = k
    BY <1>1
  <2>2. r[i] = q[i - n]
    BY <1>2, <2>1
  <2>. QED BY <2>1, <2>2
<1>. QED BY ONLY <1>1, <1>3, <1>4, <1>5, <1>6, <1>7 DEF n, l, r

LEMMA WorkerTypesKept ==
  ASSUME QueueInv, NEW w \in Workers, WorkerStep(w)
  PROVE  WorkerTypes(w)'
<1>1. WorkerTypes(w) /\ worker[w].out \in Seq(Report)
  BY HasTypes, QueueParts DEF QueueInv
<1>2. ASSUME Reads(w) PROVE WorkerTypes(w)'
  <2>1. worker'[w].out = Tail(worker[w].out) /\ worker[w].out # <<>>
    BY <1>2 DEF Reads
  <2>2. \A k \in DOMAIN worker'[w].out : worker'[w].out[k].type # "ready"
    BY <2>1, OutTail
  <2>. QED BY <1>1, <1>2, <2>1, <2>2 DEF WorkerTypes, Reads
<1>3. ASSUME Forks(w) PROVE WorkerTypes(w)'
  BY <1>1, <1>3 DEF WorkerTypes, Forks
<1>4. ASSUME Exits(w) PROVE WorkerTypes(w)'
  BY <1>1, <1>4 DEF WorkerTypes, Exits
<1>5. ASSUME BootEffect(w) PROVE WorkerTypes(w)'
  <2>1. worker[w].out = <<>> /\ worker[w].jobs = {}
    BY <1>1, <1>5 DEF WorkerTypes, BootEffect
  <2>2. worker'[w].out = <<[type |-> "ready", c |-> Undefined]>> /\ worker'[w].at = "up" /\ worker'[w].jobs = {}
    BY <1>5, <2>1 DEF BootEffect, Reported
  <2>. QED BY <2>2 DEF WorkerTypes
<1>6. ASSUME BootFails(w) PROVE WorkerTypes(w)'
  BY <1>1, <1>6 DEF WorkerTypes, BootFails
<1>7. ASSUME WorkerStops(w) PROVE WorkerTypes(w)'
  BY <1>1, <1>7 DEF WorkerTypes, WorkerStops
<1>8. ASSUME NEW c \in Calls, Receives(w, c) PROVE WorkerTypes(w)'
  BY <1>1, <1>8 DEF WorkerTypes, Receives, Introduced, Coming
<1>9. ASSUME NEW reports, WorkerEnds(w, reports) PROVE WorkerTypes(w)'
  <2>1. \A k \in DOMAIN worker'[w].out : worker'[w].out[k].type # "ready"
    <3>1. \A k \in DOMAIN worker[w].out : worker[w].out[k].type # "ready"
      BY <1>1, <1>9 DEF WorkerTypes, WorkerEnds
    <3>2. \A k \in DOMAIN worker'[w].out :
            \/ k \in DOMAIN worker[w].out /\ worker'[w].out[k] = worker[w].out[k]
            \/ k - Len(worker[w].out) \in DOMAIN reports
               /\ worker'[w].out[k] = reports[k - Len(worker[w].out)]
      BY <1>1, <1>9, MoreParts DEF WorkerEnds
    <3>. QED BY <1>9, <3>1, <3>2 DEF WorkerEnds
  <2>2. worker[w].at = "up" /\ worker'[w].at = "up"
    BY <1>1, <1>9 DEF WorkerTypes, WorkerEnds
  <2>. QED BY <2>1, <2>2 DEF WorkerTypes
<1>. QED BY <1>2, <1>3, <1>4, <1>5, <1>6, <1>7, <1>8, <1>9 DEF WorkerStep

-----------------------------------------------------------------------------
(* The types, and what every step leaves as it was. *)

\* The steps, as far as the queue of the web process goes.
WebStep ==
  \/ \E s \in Sessions, c \in Calls : SpawnEffect(s, c) \/ \E w \in Workers : TakeEffect(s, c, w)
  \/ \E s \in Sessions : CancelEffect(s)
  \/ \E w \in Workers, c \in Calls : ReadyEffect(w, c) \/ SettleEffect(w, c)
  \/ \E w \in Workers : CanceledEffect(w)

\* The steps, as far as the messages to the master go.
HandleEffect(m) ==
  \/ \E w \in Workers : ForkEffect(m, w)
  \/ PassEffect(m) \/ PassNothing(m) \/ KillEffect(m) \/ KillNothing(m)
Takes == \E m \in Message : Handles(m) /\ HandleEffect(m)
Tells(m) ==
  \/ \E s \in Sessions, c \in Calls : SpawnEffect(s, c) /\ m = Make(s)
  \/ \E s \in Sessions, c \in Calls, w \in Workers : TakeEffect(s, c, w) /\ m = StartOn(w, c)
  \/ \E c \in Calls, w \in Workers : ReadyEffect(w, c) /\ m = StartOn(w, c)
  \/ \E s \in Sessions : CancelEffect(s) /\ m = Cancel(activeWorkers[s])
MessageStep ==
  \/ UNCHANGED toMaster
  \/ Takes
  \/ \E m \in Message : Tells(m) /\ toMaster' = Append(toMaster, m)

LEMMA QueueSteps ==
  ASSUME QueueInv, QueueStep
  PROVE  (WebStep \/ UNCHANGED web) /\ MessageStep
<1>1. ASSUME NEW s \in Sessions, NEW c \in Calls, SpawnEffect(s, c)
      PROVE  WebStep /\ MessageStep
  BY <1>1 DEF SpawnEffect, WebStep, MessageStep, Tells
<1>2. ASSUME NEW s \in Sessions, NEW c \in Calls, NEW w \in Workers, TakeEffect(s, c, w)
      PROVE  WebStep /\ MessageStep
  BY <1>2 DEF TakeEffect, WebStep, MessageStep, Tells
<1>3. ASSUME NEW s \in Sessions, CancelEffect(s)
      PROVE  WebStep /\ MessageStep
  BY <1>3 DEF CancelEffect, WebStep, MessageStep, Tells
<1>4. ASSUME NEW w \in Workers, NEW c \in Calls, ReadyEffect(w, c)
      PROVE  WebStep /\ MessageStep
  BY <1>4 DEF ReadyEffect, WebStep, MessageStep, Tells
<1>5. ASSUME NEW w \in Workers, NEW c \in Calls, SettleEffect(w, c)
      PROVE  WebStep /\ MessageStep
  BY <1>5 DEF SettleEffect, WebStep, MessageStep
<1>6. ASSUME NEW w \in Workers, NEW c \in Calls, ReturnEffect(w, c) \/ ThrowEffect(w, c)
      PROVE  UNCHANGED web /\ MessageStep
  BY <1>6 DEF ReturnEffect, ThrowEffect, Reported, MessageStep
<1>7. ASSUME NEW w \in Workers, SettleNone(w)
      PROVE  UNCHANGED web /\ MessageStep
  BY <1>7 DEF SettleNone, Reads, MessageStep, web
<1>8. ASSUME NEW w \in Workers, CanceledEffect(w)
      PROVE  WebStep /\ MessageStep
  BY <1>8 DEF CanceledEffect, WebStep, MessageStep
<1>9. ASSUME NEW m \in Message, HandleEffect(m)
       PROVE  UNCHANGED web /\ MessageStep
  <2>1. Handles(m)
    BY <1>9 DEF HandleEffect, ForkEffect, PassEffect, PassNothing, KillEffect, KillNothing
  <2>. QED BY <1>9, <2>1 DEF Handles, MessageStep, Takes
<1>10. ASSUME NEW w \in Workers, ExitEffect(w) \/ BootEffect(w) \/ BootFails(w) \/ CrashEffect(w)
       PROVE  UNCHANGED web /\ MessageStep
  BY <1>10 DEF ExitEffect, BootEffect, BootFails, CrashEffect, Reported, MessageStep
<1>. QED BY <1>1, <1>2, <1>3, <1>4, <1>5, <1>6, <1>7, <1>8, <1>9, <1>10 DEF QueueStep, HandleEffect

\* What comes of a worker.
LEMMA WorkerKept ==
  ASSUME QueueInv, QueueStep, NEW w \in Workers
  PROVE  /\ worker' \in [Workers -> WorkerState]
         /\ worker'[w] = worker[w] \/ WorkerStep(w)
         /\ WorkerTypes(w)'
         /\ Introduced(w) => Introduced(w)'
         /\ Gone(w) => Gone(w)'
         /\ worker[w].at = "dead" => worker'[w].at = "dead"
<1>1. worker \in [Workers -> WorkerState] /\ WorkerTypes(w) /\ worker[w].out \in Seq(Report)
  BY QueueParts, HasTypes DEF QueueInv
<1>2. ASSUME NEW v \in Workers, WorkerStep(v) PROVE WorkerMoves(v)
  BY <1>2 DEF WorkerStep, Reads, Forks, Exits, BootEffect, BootFails, Reported, WorkerStops, Receives, WorkerEnds
<1>3. worker' \in [Workers -> WorkerState] /\ (worker'[w] = worker[w] \/ WorkerStep(w))
  BY <1>1, <1>2, WorkerSteps DEF WorkerMoves
<1>4. CASE worker'[w] = worker[w]
  BY <1>1, <1>3, <1>4 DEF WorkerTypes, Introduced, Coming, Gone
<1>5. CASE WorkerStep(w)
  <2>1. WorkerTypes(w)'
    BY <1>5, WorkerTypesKept
  <2>2. worker[w].at = "dead" => worker'[w].at = "dead"
    BY <1>1, <1>5 DEF WorkerStep, WorkerTypes, Reads, Forks, Exits, BootEffect, BootFails, Reported,
                      WorkerStops, Receives, WorkerEnds
  <2>3. worker[w].at \in {"killed", "dead"} => worker'[w].at \in {"killed", "dead"}
    BY <1>1, <1>5 DEF WorkerStep, WorkerTypes, Reads, Forks, Exits, BootEffect, BootFails, Reported,
                      WorkerStops, Receives, WorkerEnds
  <2>4. Introduced(w) => worker'[w].at \in {"up", "killed", "dead"}
    BY <1>1, <1>5 DEF WorkerStep, WorkerTypes, Reads, Forks, Exits, BootEffect, BootFails, Reported,
                      WorkerStops, Receives, WorkerEnds, Introduced
  <2>5. ASSUME Introduced(w), NEW k \in DOMAIN worker'[w].out
        PROVE  worker'[w].out[k].type # "ready"
    <3>1. CASE Reads(w)
      BY <2>5, <3>1, OutTail DEF Reads
    <3>2. CASE \E reports : WorkerEnds(w, reports)
      <4>1. PICK reports : WorkerEnds(w, reports)
        BY <3>2
      <4>2. \/ k \in DOMAIN worker[w].out /\ worker'[w].out[k] = worker[w].out[k]
            \/ k - Len(worker[w].out) \in DOMAIN reports
               /\ worker'[w].out[k] = reports[k - Len(worker[w].out)]
        BY <1>1, <2>5, <4>1, MoreParts DEF WorkerEnds
      <4>. QED BY <2>5, <4>1, <4>2 DEF WorkerEnds, Introduced, Coming
    <3>3. CASE \/ Exits(w) \/ WorkerStops(w) \/ \E c \in Calls : Receives(w, c)
      BY <2>5, <3>3 DEF Exits, WorkerStops, Receives, Introduced, Coming
    <3>4. ~ (Forks(w) \/ BootEffect(w) \/ BootFails(w))
      BY <2>5 DEF Forks, BootEffect, BootFails, Introduced
    <3>. QED BY <1>5, <3>1, <3>2, <3>3, <3>4 DEF WorkerStep
  <2>. QED BY <1>3, <2>1, <2>2, <2>3, <2>4, <2>5 DEF Introduced, Coming, Gone
<1>. QED BY <1>3, <1>4, <1>5

\* What comes of the messages to the master: one that is there afterwards was
\* there before, or has just been sent.
LEMMA MessageKept ==
  ASSUME QueueInv, QueueStep
  PROVE  /\ toMaster' \in Seq(Message)
         /\ \A k \in DOMAIN toMaster' :
              (\E j \in DOMAIN toMaster : toMaster'[k] = toMaster[j]) \/ Tells(toMaster'[k])
<1>1. toMaster \in Seq(Message)
  BY QueueParts DEF QueueInv
<1>2. ASSUME NEW m \in Message, Tells(m), toMaster' = Append(toMaster, m)
      PROVE  /\ toMaster' \in Seq(Message)
             /\ \A k \in DOMAIN toMaster' :
                  (\E j \in DOMAIN toMaster : toMaster'[k] = toMaster[j]) \/ toMaster'[k] = m
  BY <1>1, <1>2, AppendParts
<1>3. ASSUME Takes
      PROVE  /\ toMaster' \in Seq(Message)
             /\ \A k \in DOMAIN toMaster' : \E j \in DOMAIN toMaster : toMaster'[k] = toMaster[j]
  BY <1>1, <1>3, TailParts DEF Takes, Handles
<1>4. CASE UNCHANGED toMaster
  BY <1>1, <1>4
<1>. QED BY <1>2, <1>3, <1>4, QueueSteps DEF MessageStep

LEMMA WebTypesKept ==
  ASSUME QueueInv, WebStep
  PROVE  /\ readyWorkers' \in Seq(Workers)
         /\ activeWorkers' \in [Sessions -> Workers \cup {Undefined}]
         /\ calls' \in [Calls -> CallState]
         /\ cancels' \subseteq [s : Sessions, w : Workers]
<1>1. /\ readyWorkers \in Seq(Workers)
      /\ activeWorkers \in [Sessions -> Workers \cup {Undefined}]
      /\ calls \in [Calls -> CallState]
      /\ cancels \subseteq [s : Sessions, w : Workers]
  BY QueueParts DEF QueueInv, QueueTypes, QueueTypeOK
<1>2. ASSUME NEW s \in Sessions, NEW c \in Calls, SpawnEffect(s, c) \/ \E w \in Workers : TakeEffect(s, c, w)
      PROVE  /\ readyWorkers' \in Seq(Workers)
             /\ activeWorkers' \in [Sessions -> Workers \cup {Undefined}]
             /\ calls' \in [Calls -> CallState] /\ cancels' = cancels
  BY <1>1, <1>2 DEF SpawnEffect, TakeEffect, CallTurns
<1>3. ASSUME NEW s \in Sessions, CancelEffect(s)
      PROVE  /\ cancels' \subseteq [s : Sessions, w : Workers]
             /\ UNCHANGED <<readyWorkers, activeWorkers, calls>>
  BY <1>1, <1>3 DEF CancelEffect
<1>4. ASSUME NEW w \in Workers, NEW c \in Calls, ReadyEffect(w, c) \/ SettleEffect(w, c)
      PROVE  /\ readyWorkers' \in Seq(Workers)
             /\ activeWorkers' \in [Sessions -> Workers \cup {Undefined}]
             /\ calls' \in [Calls -> CallState] /\ cancels' = cancels
  BY <1>1, <1>4 DEF ReadyEffect, SettleEffect, CallTurns, Reads
<1>5. ASSUME NEW w \in Workers, CanceledEffect(w)
      PROVE  /\ readyWorkers' \in Seq(Workers)
             /\ activeWorkers' \in [Sessions -> Workers \cup {Undefined}]
             /\ calls' \in [Calls -> CallState] /\ cancels' \subseteq cancels
  BY <1>5 DEF CanceledEffect
<1>. QED BY <1>1, <1>2, <1>3, <1>4, <1>5 DEF WebStep

\* The steps, as far as the answers of the master go.
LEMMA CanceledSteps ==
  ASSUME QueueInv, QueueStep
  PROVE  \/ UNCHANGED <<canceled, handlers>>
         \/ \E w \in Workers : CanceledEffect(w) \/ ExitEffect(w)
         \/ \E m \in Message : KillEffect(m) \/ KillNothing(m)
<1>1. ASSUME NEW m \in Message,
             (\E w \in Workers : ForkEffect(m, w)) \/ PassEffect(m) \/ PassNothing(m)
      PROVE  UNCHANGED <<canceled, handlers>>
  BY <1>1 DEF ForkEffect, PassEffect, PassNothing
<1>2. ASSUME NEW s \in Sessions, NEW c \in Calls, SpawnEffect(s, c) \/ \E w \in Workers : TakeEffect(s, c, w)
      PROVE  UNCHANGED <<canceled, handlers>>
  BY <1>2 DEF SpawnEffect, TakeEffect
<1>3. ASSUME NEW s \in Sessions, CancelEffect(s) PROVE UNCHANGED <<canceled, handlers>>
  BY <1>3 DEF CancelEffect
<1>4. ASSUME NEW w \in Workers, NEW c \in Calls,
             ReadyEffect(w, c) \/ SettleEffect(w, c) \/ ReturnEffect(w, c) \/ ThrowEffect(w, c)
      PROVE  UNCHANGED <<canceled, handlers>>
  BY <1>4 DEF ReadyEffect, SettleEffect, ReturnEffect, ThrowEffect, Reads, Reported
<1>5. ASSUME NEW w \in Workers, SettleNone(w) \/ BootEffect(w) \/ BootFails(w) \/ CrashEffect(w)
      PROVE  UNCHANGED <<canceled, handlers>>
  BY <1>5 DEF SettleNone, Reads, BootEffect, BootFails, CrashEffect, Reported
<1>. QED BY <1>1, <1>2, <1>3, <1>4, <1>5 DEF QueueStep

LEMMA OtherTypesKept ==
  ASSUME QueueInv, QueueStep
  PROVE  canceled' \in Seq(Workers) /\ handlers' \in Nat
<1>1. canceled \in Seq(Workers) /\ handlers \in Nat
  BY QueueParts DEF QueueInv
<1>2. ASSUME NEW w \in Workers, CanceledEffect(w) PROVE canceled' \in Seq(Workers) /\ handlers' \in Nat
  BY <1>1, <1>2, TailParts DEF CanceledEffect
<1>3. ASSUME NEW w \in Workers, ExitEffect(w) PROVE canceled' \in Seq(Workers) /\ handlers' \in Nat
  BY <1>3 DEF ExitEffect
<1>4. ASSUME NEW m \in Message, KillEffect(m) PROVE canceled' \in Seq(Workers) /\ handlers' \in Nat
  BY <1>1, <1>4 DEF KillEffect
<1>5. ASSUME NEW m \in Message, KillNothing(m) PROVE canceled' \in Seq(Workers) /\ handlers' \in Nat
  <2>1. m.w \in Workers
    BY <1>5, QueueParts, TailParts DEF QueueInv, QueueTypes, KillNothing, Handles
  <2>. QED BY <1>1, <1>5, <2>1 DEF KillNothing
<1>. QED BY <1>1, <1>2, <1>3, <1>4, <1>5, CanceledSteps

LEMMA QueueTypesKept ==
  ASSUME QueueInv, QueueStep
  PROVE  QueueTypes'
<1>1. /\ readyWorkers' \in Seq(Workers)
      /\ activeWorkers' \in [Sessions -> Workers \cup {Undefined}]
      /\ calls' \in [Calls -> CallState]
      /\ cancels' \subseteq [s : Sessions, w : Workers]
  <2>1. CASE WebStep
    BY <2>1, WebTypesKept
  <2>2. CASE UNCHANGED web
    BY <2>2, QueueParts DEF QueueInv, QueueTypes, QueueTypeOK, web
  <2>. QED BY <2>1, <2>2, QueueSteps
<1>2. toMaster' \in Seq(Message) /\ canceled' \in Seq(Workers) /\ handlers' \in Nat
  BY MessageKept, OtherTypesKept
<1>3. \A w \in Workers : WorkerTypes(w)'
  BY WorkerKept
<1>4. worker' \in [Workers -> WorkerState]
  <2>1. CASE Workers = {}
    <3>1. UNCHANGED worker
      BY <2>1, WorkerSteps
    <3>. QED BY <3>1, QueueParts DEF QueueInv
  <2>2. CASE Workers # {}
    BY <2>2, WorkerKept
  <2>. QED BY <2>1, <2>2
<1>5. \A k \in DOMAIN toMaster' :
       /\ toMaster'[k].type = "make" => toMaster'[k].s \in Sessions
       /\ toMaster'[k].type # "make" => toMaster'[k].w \in Workers
       /\ toMaster'[k].type = "start" => toMaster'[k].c \in Calls
  <2> SUFFICES ASSUME NEW k \in DOMAIN toMaster'
               PROVE  /\ toMaster'[k].type = "make" => toMaster'[k].s \in Sessions
                      /\ toMaster'[k].type # "make" => toMaster'[k].w \in Workers
                      /\ toMaster'[k].type = "start" => toMaster'[k].c \in Calls
    OBVIOUS
  <2>1. CASE \E j \in DOMAIN toMaster : toMaster'[k] = toMaster[j]
    BY <2>1 DEF QueueInv, QueueTypes
  <2>2. CASE Tells(toMaster'[k])
    <3>1. CASE \E s \in Sessions : toMaster'[k] = Make(s)
      BY <3>1 DEF Make
    <3>2. CASE \E c \in Calls, w \in Workers : toMaster'[k] = StartOn(w, c)
      BY <3>2 DEF StartOn
    <3>3. CASE \E w \in Workers : toMaster'[k] = Cancel(w)
      BY <3>3 DEF Cancel
    <3>. QED BY <2>2, <3>1, <3>2, <3>3 DEF Tells, CancelEffect
  <2>. QED BY <2>1, <2>2, MessageKept
<1>6. readyWorkers' \in Seq(Workers \cup {Undefined})
  BY <1>1, SeqParts
<1>. QED BY <1>1, <1>2, <1>3, <1>4, <1>5, <1>6
         DEF QueueTypes, QueueTypeOK, CallState, WorkerState, WorkerTypes

-----------------------------------------------------------------------------
(* The calls, the entries of activeWorkers and the ready workers. *)

LEMMA CallsKnownKept ==
  ASSUME QueueInv, QueueStep
  PROVE  CallsKnown'
<1>1. /\ CallsKnown /\ QueueTypes
      /\ \A c \in Calls : calls[c].at \in {"none", "spawn"} => calls[c].w = Undefined
      /\ \A c \in Calls : calls[c].at = "spawn" =>
           calls[c].s \in Sessions /\ activeWorkers[calls[c].s] = Undefined
      /\ \A c \in Calls : calls[c].at = "train" =>
           calls[c].s \in Sessions /\ calls[c].w \in Workers /\ activeWorkers[calls[c].s] = calls[c].w
      /\ \A x \in cancels : /\ x.s \in Sessions /\ activeWorkers[x.s] \in {x.w, Undefined}
                            /\ \A c \in Calls : ~ (calls[c].at = "spawn" /\ calls[c].s = x.s)
      /\ Undefined \notin Workers
      /\ activeWorkers \in [Sessions -> Workers \cup {Undefined}]
  BY QueueParts, WorkersAreNumbers DEF QueueInv, CallsKnown
<1>2. ASSUME NEW s \in Sessions, NEW c \in Calls, SpawnEffect(s, c)
      PROVE  CallsKnown'
  <2>1. \A b \in Calls : Pending(b) => b # c /\ calls[b].s # s
    BY <1>1, <1>2 DEF SpawnEffect, Settled, Pending
  <2>2. StartedOnce'
    BY <1>1, <1>2, <2>1 DEF CallsKnown, SpawnEffect, CallTurns, StartedOnce, Pending
  <2>3. \A x \in cancels' : x.s # s
    BY <1>2 DEF SpawnEffect, Settled
  <2>. QED BY <1>1, <1>2, <2>2, <2>3 DEF CallsKnown, SpawnEffect, CallTurns
<1>3. ASSUME NEW s \in Sessions, NEW c \in Calls, NEW w \in Workers, TakeEffect(s, c, w)
      PROVE  CallsKnown'
  <2>1. \A b \in Calls : Pending(b) => b # c /\ calls[b].s # s
    BY <1>1, <1>3 DEF TakeEffect, Settled, Pending
  <2>2. StartedOnce'
    BY <1>1, <1>3, <2>1 DEF CallsKnown, TakeEffect, CallTurns, StartedOnce, Pending
  <2>3. /\ activeWorkers'[s] = w
        /\ \A t \in Sessions : t # s => activeWorkers'[t] = activeWorkers[t]
    BY <1>1, <1>3 DEF TakeEffect
  <2>4. \A x \in cancels' : x.s # s /\ x \in cancels
    BY <1>3 DEF TakeEffect, Settled
  <2>5. \A b \in Calls : b # c => calls'[b] = calls[b] /\ (Pending(b) => calls[b].s # s)
    BY <1>3, <2>1 DEF TakeEffect, CallTurns
  <2>. QED BY <1>1, <1>3, <2>2, <2>3, <2>4, <2>5 DEF CallsKnown, TakeEffect, CallTurns, Pending
<1>4. ASSUME NEW s \in Sessions, CancelEffect(s)
      PROVE  CallsKnown'
  BY <1>1, <1>4 DEF CallsKnown, CancelEffect, StartedOnce, Pending
<1>5. ASSUME NEW w \in Workers, NEW c \in Calls, ReadyEffect(w, c)
      PROVE  CallsKnown'
  <2>1. \A b \in Calls : Pending(b) /\ b # c => calls[b].s # calls[c].s
    BY <1>1, <1>5 DEF CallsKnown, ReadyEffect, StartedOnce, Pending
  <2>2. StartedOnce'
    BY <1>1, <1>5, <2>1 DEF CallsKnown, ReadyEffect, CallTurns, StartedOnce, Pending
  <2>3. /\ activeWorkers'[calls[c].s] = w
        /\ \A t \in Sessions : t # calls[c].s => activeWorkers'[t] = activeWorkers[t]
    BY <1>1, <1>5 DEF ReadyEffect
  <2>4. \A x \in cancels' : x.s # calls[c].s /\ x \in cancels
    BY <1>1, <1>5 DEF ReadyEffect, Reads
  <2>5. \A b \in Calls : b # c => calls'[b] = calls[b]
    BY <1>5 DEF ReadyEffect, CallTurns
  <2>. QED BY <1>1, <1>5, <2>1, <2>2, <2>3, <2>4, <2>5 DEF CallsKnown, ReadyEffect, CallTurns, Pending
<1>6. ASSUME NEW w \in Workers, NEW c \in Calls, SettleEffect(w, c)
      PROVE  CallsKnown'
  <2>1. \A b \in Calls : Pending(b) /\ b # c => calls[b].s # calls[c].s
    BY <1>1, <1>6 DEF CallsKnown, SettleEffect, StartedOnce, Pending, Training
  <2>2. Head(worker[w].out).type \in {"done", "error"}
    <3>1. Head(worker[w].out) \in Report /\ Head(worker[w].out).type # "ready"
      BY <1>6, OutParts DEF SettleEffect, Reads
    <3>. QED BY <3>1 DEF Report
  <2>3. StartedOnce'
    BY <1>1, <1>6, <2>1, <2>2 DEF CallsKnown, SettleEffect, CallTurns, StartedOnce, Pending
  <2>4. /\ activeWorkers'[calls[c].s] = Undefined
        /\ \A t \in Sessions : t # calls[c].s => activeWorkers'[t] = activeWorkers[t]
    BY <1>1, <1>6 DEF SettleEffect
  <2>5. \A b \in Calls : b # c => calls'[b] = calls[b]
    BY <1>6 DEF SettleEffect, CallTurns
  <2>6. calls'[c].at \in {"done", "error"} /\ calls'[c].s = calls[c].s /\ cancels' = cancels
    BY <1>6, <2>2 DEF SettleEffect, CallTurns, Reads
  <2>. QED BY <1>1, <2>1, <2>3, <2>4, <2>5, <2>6 DEF CallsKnown, Pending
<1>7. ASSUME NEW w \in Workers, CanceledEffect(w)
      PROVE  CallsKnown'
  <2>1. \A b \in Calls : Pending(b)' => Pending(b) /\ b \notin Training(w)
                                        /\ calls'[b].at = calls[b].at
    BY <1>7 DEF CanceledEffect, Pending
  <2>2. \A b \in Calls : calls'[b].s = calls[b].s /\ calls'[b].w = calls[b].w
    BY <1>7 DEF CanceledEffect
  <2>3. StartedOnce'
    BY <1>1, <2>1, <2>2 DEF CallsKnown, StartedOnce
  <2>4. \A t \in Sessions : activeWorkers'[t] =
          IF \E x \in cancels : x.w = w /\ x.s = t THEN Undefined ELSE activeWorkers[t]
    BY <1>7 DEF CanceledEffect
  <2>5. \A x \in cancels' : x \in cancels
    BY <1>7 DEF CanceledEffect
  <2>6. ASSUME NEW b \in Calls, calls'[b].at = "train"
        PROVE  calls'[b].s \in Sessions /\ calls'[b].w \in Workers /\ activeWorkers'[calls'[b].s] = calls'[b].w
    <3>1. calls[b].at = "train" /\ calls[b].w # w
      BY <2>1, <2>6 DEF Pending, Training
    <3>2. ~ \E x \in cancels : x.w = w /\ x.s = calls[b].s
      BY <1>1, <3>1
    <3>. QED BY <1>1, <2>2, <2>4, <3>1, <3>2
  <2>7. ASSUME NEW b \in Calls, calls'[b].at = "spawn"
        PROVE  calls'[b].s \in Sessions /\ activeWorkers'[calls'[b].s] = Undefined
    BY <1>1, <2>1, <2>2, <2>4, <2>7 DEF Pending
  <2>8. ASSUME NEW x \in cancels'
        PROVE  /\ activeWorkers'[x.s] \in {x.w, Undefined}
               /\ \A b \in Calls : ~ (calls'[b].at = "spawn" /\ calls'[b].s = x.s)
    BY <1>1, <2>1, <2>2, <2>4, <2>5 DEF Pending
  <2>9. \A b \in Calls : calls'[b].at \in {"none", "spawn"} => calls'[b].w = Undefined
    BY <1>1, <1>7 DEF CanceledEffect
  <2>. QED BY <2>3, <2>6, <2>7, <2>8, <2>9 DEF CallsKnown
<1>8. CASE UNCHANGED web
  BY <1>1, <1>8 DEF CallsKnown, web, StartedOnce, Pending
<1>. QED BY <1>2, <1>3, <1>4, <1>5, <1>6, <1>7, <1>8, QueueSteps DEF WebStep

\* The worker of a training is the one of its session.
LEMMA TrainingKnown ==
  ASSUME QueueInv, NEW w \in Workers, NEW c \in Training(w)
  PROVE  /\ c \in Calls /\ calls[c].s \in Sessions /\ activeWorkers[calls[c].s] = w
         /\ ~ IsReady(w) /\ Introduced(w)
BY WorkersAreNumbers DEF Training, QueueInv, CallsKnown, WorkersApart, Introductions

LEMMA WorkersApartKept ==
  ASSUME QueueInv, QueueStep
  PROVE  WorkersApart'
<1>1. /\ WorkersApart /\ Undefined \notin Workers
      /\ activeWorkers \in [Sessions -> Workers \cup {Undefined}]
  BY QueueParts, WorkersAreNumbers DEF QueueInv
<1>2. ASSUME NEW s \in Sessions, NEW c \in Calls, SpawnEffect(s, c)
      PROVE  WorkersApart'
  BY <1>1, <1>2 DEF WorkersApart, SpawnEffect, IsReady
<1>3. ASSUME NEW s \in Sessions, NEW c \in Calls, NEW w \in Workers, TakeEffect(s, c, w)
      PROVE  WorkersApart'
  <2>1. /\ activeWorkers'[s] = w
        /\ \A t \in Sessions : t # s => activeWorkers'[t] = activeWorkers[t]
    BY <1>1, <1>3 DEF TakeEffect
  <2>2. \A t \in Sessions : activeWorkers[t] # w
    BY <1>1, <1>3 DEF TakeEffect, WorkersApart
  <2>3. IsInjective(readyWorkers)' /\ \A v \in Workers : IsReady(v)' => IsReady(v) /\ v # w
    BY <1>3 DEF TakeEffect
  <2>. QED BY <1>1, <2>1, <2>2, <2>3 DEF WorkersApart
<1>4. ASSUME NEW s \in Sessions, CancelEffect(s)
      PROVE  WorkersApart'
  BY <1>1, <1>4 DEF WorkersApart, CancelEffect, IsReady
<1>5. ASSUME NEW w \in Workers, NEW c \in Calls, ReadyEffect(w, c)
      PROVE  WorkersApart'
  <2>1. calls[c].s \in Sessions
    BY <1>5 DEF ReadyEffect
  <2>2. /\ activeWorkers'[calls[c].s] = w
        /\ \A t \in Sessions : t # calls[c].s => activeWorkers'[t] = activeWorkers[t]
    BY <1>1, <1>5, <2>1 DEF ReadyEffect
  <2>3. ~ IsReady(w) /\ \A t \in Sessions : activeWorkers[t] # w
    BY <1>1, <1>5 DEF ReadyEffect, Introduced, QueueInv, Introductions
  <2>4. UNCHANGED readyWorkers
    BY <1>5 DEF ReadyEffect
  <2>. QED BY <1>1, <2>1, <2>2, <2>3, <2>4 DEF WorkersApart, IsReady
<1>6. ASSUME NEW w \in Workers, NEW c \in Calls, SettleEffect(w, c)
      PROVE  WorkersApart'
  <2>1. calls[c].s \in Sessions /\ activeWorkers[calls[c].s] = w
    BY <1>6, TrainingKnown DEF SettleEffect
  <2>2. /\ activeWorkers'[calls[c].s] = Undefined
        /\ \A t \in Sessions : t # calls[c].s => activeWorkers'[t] = activeWorkers[t]
    BY <1>1, <1>6, <2>1 DEF SettleEffect
  <2>3. \A t \in Sessions : activeWorkers'[t] # w
    BY <1>1, <2>1, <2>2 DEF WorkersApart
  <2>4. IsInjective(readyWorkers)' /\ \A v \in Workers : IsReady(v)' => IsReady(v) \/ v = w
    BY <1>6 DEF SettleEffect
  <2>. QED BY <1>1, <2>2, <2>3, <2>4 DEF WorkersApart
<1>7. ASSUME NEW w \in Workers, CanceledEffect(w)
      PROVE  WorkersApart'
  <2>1. \A t \in Sessions : activeWorkers'[t] \in {activeWorkers[t], Undefined}
    BY <1>7 DEF CanceledEffect
  <2>2. IsInjective(readyWorkers)' /\ \A v \in Workers : IsReady(v)' => IsReady(v)
    BY <1>7 DEF CanceledEffect
  <2>. QED BY <1>1, <2>1, <2>2 DEF WorkersApart
<1>8. CASE UNCHANGED web
  BY <1>1, <1>8 DEF WorkersApart, web, IsReady
<1>. QED BY <1>2, <1>3, <1>4, <1>5, <1>6, <1>7, <1>8, QueueSteps DEF WebStep

WebIntroduced ==
  /\ \A w \in Workers : IsReady(w) => Introduced(w)
  /\ \A s \in Sessions : activeWorkers[s] # Undefined => Introduced(activeWorkers[s])
  /\ \A x \in cancels : Introduced(x.w)

LEMMA IntroductionsKept ==
  ASSUME QueueInv, QueueStep
  PROVE  Introductions'
<1>1. /\ Introductions /\ Undefined \notin Workers
      /\ activeWorkers \in [Sessions -> Workers \cup {Undefined}]
      /\ \A w \in Workers : Introduced(w) => Introduced(w)'
      /\ \A x \in cancels : x.w \in Workers
  BY QueueParts, WorkersAreNumbers, WorkerKept DEF QueueInv
<1>2. ASSUME NEW w \in Workers, NEW c \in Calls, ReadyEffect(w, c)
      PROVE  Introduced(w)'
  <2>1. worker'[w].out = <<>> /\ worker'[w].at \in {"up", "killed", "dead"}
    <3>1. worker[w].out # <<>> /\ worker'[w].out = <<>> /\ worker'[w].at = worker[w].at
      BY <1>2 DEF ReadyEffect, Reads
    <3>2. worker[w].at \in {"up", "killed", "dead"}
      BY <3>1, HasTypes, QueueParts DEF QueueInv, WorkerTypes
    <3>. QED BY <3>1, <3>2
  <2>. QED BY <2>1 DEF Introduced, Coming
<1>3. ASSUME NEW s \in Sessions, NEW c \in Calls, SpawnEffect(s, c)
      PROVE  WebIntroduced'
  BY <1>1, <1>3 DEF Introductions, SpawnEffect, IsReady, WebIntroduced
<1>4. ASSUME NEW s \in Sessions, NEW c \in Calls, NEW w \in Workers, TakeEffect(s, c, w)
      PROVE  WebIntroduced'
  <2>1. /\ activeWorkers'[s] = w
        /\ \A t \in Sessions : t # s => activeWorkers'[t] = activeWorkers[t]
    BY <1>1, <1>4 DEF TakeEffect
  <2>2. \A v \in Workers : IsReady(v)' => IsReady(v)
    BY <1>4 DEF TakeEffect
  <2>3. IsReady(w) /\ cancels' = cancels
    BY <1>4 DEF TakeEffect
  <2>. QED BY <1>1, <2>1, <2>2, <2>3 DEF Introductions, WebIntroduced
<1>5. ASSUME NEW s \in Sessions, CancelEffect(s)
      PROVE  WebIntroduced'
  BY <1>1, <1>5 DEF Introductions, CancelEffect, IsReady, WebIntroduced
<1>6. ASSUME NEW w \in Workers, NEW c \in Calls, ReadyEffect(w, c)
      PROVE  WebIntroduced'
  <2>1. /\ activeWorkers'[calls[c].s] = w
        /\ \A t \in Sessions : t # calls[c].s => activeWorkers'[t] = activeWorkers[t]
    BY <1>1, <1>6 DEF ReadyEffect
  <2>2. UNCHANGED <<readyWorkers, cancels>>
    BY <1>6 DEF ReadyEffect, Reads
  <2>. QED BY <1>1, <1>2, <1>6, <2>1, <2>2 DEF Introductions, IsReady, WebIntroduced
<1>7. ASSUME NEW w \in Workers, NEW c \in Calls, SettleEffect(w, c)
      PROVE  WebIntroduced'
  <2>1. calls[c].s \in Sessions /\ Introduced(w)
    BY <1>7, TrainingKnown DEF SettleEffect
  <2>2. \A t \in Sessions : activeWorkers'[t] \in {activeWorkers[t], Undefined}
    BY <1>1, <1>7, <2>1 DEF SettleEffect
  <2>3. (\A v \in Workers : IsReady(v)' => IsReady(v) \/ v = w) /\ cancels' = cancels
    BY <1>7 DEF SettleEffect, Reads
  <2>. QED BY <1>1, <2>1, <2>2, <2>3 DEF Introductions, WebIntroduced
<1>8. ASSUME NEW w \in Workers, CanceledEffect(w)
      PROVE  WebIntroduced'
  <2>1. \A t \in Sessions : activeWorkers'[t] \in {activeWorkers[t], Undefined}
    BY <1>8 DEF CanceledEffect
  <2>2. (\A v \in Workers : IsReady(v)' => IsReady(v)) /\ \A x \in cancels' : x \in cancels
    BY <1>8 DEF CanceledEffect
  <2>. QED BY <1>1, <2>1, <2>2 DEF Introductions, WebIntroduced
<1>9. ASSUME UNCHANGED web PROVE WebIntroduced'
  BY <1>1, <1>9 DEF Introductions, web, IsReady, WebIntroduced
<1>10. WebIntroduced'
  BY <1>3, <1>4, <1>5, <1>6, <1>7, <1>8, <1>9, QueueSteps DEF WebStep
<1>11. ASSUME NEW k \in DOMAIN toMaster', toMaster'[k].type # "make"
       PROVE  \E w \in Workers : toMaster'[k].w = w /\ Introduced(w)'
  <2>1. CASE \E j \in DOMAIN toMaster : toMaster'[k] = toMaster[j]
    <3>1. PICK j \in DOMAIN toMaster : toMaster'[k] = toMaster[j]
      BY <2>1
    <3>2. toMaster[j].w \in Workers /\ Introduced(toMaster[j].w)
      BY <1>1, <1>11, <3>1 DEF QueueInv, QueueTypes, Introductions
    <3>3. PICK w \in Workers : w = toMaster[j].w
      BY <3>2
    <3>. QED BY <1>1, <3>1, <3>2, <3>3
  <2>2. CASE \E s \in Sessions, c \in Calls : SpawnEffect(s, c) /\ toMaster'[k] = Make(s)
    BY <1>11, <2>2 DEF Make
  <2>3. CASE \E s \in Sessions, c \in Calls, w \in Workers :
               TakeEffect(s, c, w) /\ toMaster'[k] = StartOn(w, c)
    <3>1. PICK w \in Workers : IsReady(w) /\ toMaster'[k].w = w
      BY <2>3 DEF TakeEffect, StartOn
    <3>. QED BY <1>1, <3>1 DEF Introductions
  <2>4. CASE \E c \in Calls, w \in Workers : ReadyEffect(w, c) /\ toMaster'[k] = StartOn(w, c)
    <3>1. PICK w \in Workers : Introduced(w)' /\ toMaster'[k].w = w
      BY <1>2, <2>4 DEF StartOn
    <3>. QED BY <3>1
  <2>5. CASE \E s \in Sessions : CancelEffect(s) /\ toMaster'[k] = Cancel(activeWorkers[s])
    <3>1. PICK s \in Sessions, w \in Workers : activeWorkers[s] = w /\ toMaster'[k].w = w
      BY <2>5 DEF CancelEffect, Cancel
    <3>. QED BY <1>1, <3>1 DEF Introductions
  <2>. QED BY <2>1, <2>2, <2>3, <2>4, <2>5, MessageKept DEF Tells
<1>12. ASSUME NEW k \in DOMAIN toMaster', toMaster'[k].type # "make"
       PROVE  Introduced(toMaster[k].w)'
  <2>1. PICK w \in Workers : toMaster'[k].w = w /\ Introduced(w)'
    BY <1>11, <1>12
  <2>. QED BY <2>1
<1>. QED BY <1>10, <1>12 DEF Introductions, WebIntroduced

-----------------------------------------------------------------------------
(* The workers that are made. *)

LEMMA MessagesShift ==
  ASSUME QueueInv, Takes
  PROVE  /\ 1 \in DOMAIN toMaster
         /\ \A k \in DOMAIN toMaster' :
              k \in Nat /\ k + 1 \in DOMAIN toMaster /\ k + 1 # 1 /\ toMaster'[k] = toMaster[k + 1]
         /\ \A k \in DOMAIN toMaster :
              k = 1 \/ (k - 1 \in DOMAIN toMaster' /\ toMaster'[k - 1] = toMaster[k])
BY QueueParts, TailParts DEF QueueInv, Takes, Handles

LEMMA MessagesGrow ==
  ASSUME QueueInv, NEW m \in Message, toMaster' = Append(toMaster, m)
  PROVE  /\ DOMAIN toMaster' = DOMAIN toMaster \cup {Len(toMaster) + 1}
         /\ Len(toMaster) + 1 \notin DOMAIN toMaster
         /\ toMaster'[Len(toMaster) + 1] = m
         /\ \A k \in DOMAIN toMaster : toMaster'[k] = toMaster[k]
BY QueueParts, AppendParts DEF QueueInv

\* A worker comes from a fork.
LEMMA ComingComes ==
  ASSUME QueueInv, QueueStep, NEW w \in Workers, Coming(w)'
  PROVE  \/ Coming(w) /\ worker'[w].for = worker[w].for
         \/ \E m \in Message : ForkEffect(m, w)
<1>1. CASE worker'[w] = worker[w]
  BY <1>1 DEF Coming
<1>2. CASE WorkerStep(w) /\ ~ Forks(w)
  <2>1. WorkerTypes(w) /\ worker[w] \in WorkerState
    BY HasTypes, QueueParts DEF QueueInv
  <2>2. WorkerMoves(w) /\ worker[w].at \in {"boot", "up", "killed", "dead"}
    BY <1>2, <2>1 DEF WorkerStep, WorkerTypes, WorkerState, Reads, Exits, BootEffect, BootFails, Reported,
                      WorkerStops, Receives, WorkerEnds
  <2>3. worker'[w].for = worker[w].for
    BY <2>2 DEF WorkerMoves
  <2>4. Coming(w)
    BY <2>2, WorkerKept DEF Introduced, Coming
  <2>. QED BY <2>3, <2>4
<1>3. CASE Forks(w)
  BY <1>3 DEF Forks
<1>. QED BY <1>1, <1>2, <1>3, WorkerKept

\* A session for which a call waits still has one that does, but for what a new
\* worker takes.
LEMMA WaitsKept ==
  ASSUME QueueInv, QueueStep, NEW s \in Sessions, Waits(s),
         \A w \in Workers, c \in Calls : ~ (ReadyEffect(w, c) /\ calls[c].s = s)
  PROVE  Waits(s)'
<1>1. PICK b \in Calls : calls[b].at = "spawn" /\ calls[b].s = s
  BY DEF Waits
<1>2. ASSUME calls'[b] = calls[b] PROVE Waits(s)'
  BY <1>1, <1>2 DEF Waits
<1>3. ASSUME NEW t \in Sessions, NEW c \in Calls, SpawnEffect(t, c) \/ \E w \in Workers : TakeEffect(t, c, w)
      PROVE  calls'[b] = calls[b]
  BY <1>1, <1>3 DEF SpawnEffect, TakeEffect, CallTurns
<1>4. ASSUME NEW t \in Sessions, CancelEffect(t) PROVE calls'[b] = calls[b]
  BY <1>4 DEF CancelEffect
<1>5. ASSUME NEW w \in Workers, NEW c \in Calls, ReadyEffect(w, c) PROVE calls'[b] = calls[b]
  BY <1>1, <1>5 DEF ReadyEffect, CallTurns
<1>6. ASSUME NEW w \in Workers, NEW c \in Calls, SettleEffect(w, c) PROVE calls'[b] = calls[b]
  <2>1. c \in Training(w)
    BY <1>6 DEF SettleEffect
  <2>2. b # c
    BY <1>1, <2>1 DEF Training
  <2>. QED BY <1>6, <2>2 DEF SettleEffect, CallTurns
<1>7. ASSUME NEW w \in Workers, CanceledEffect(w) PROVE Waits(s)'
  <2>1. b \notin Training(w)
    BY <1>1 DEF Training
  <2>. QED BY <1>1, <1>7, <2>1 DEF CanceledEffect, Waits
<1>8. ASSUME UNCHANGED web PROVE calls'[b] = calls[b]
  BY <1>8 DEF web
<1>. QED BY <1>2, <1>3, <1>4, <1>5, <1>6, <1>7, <1>8, QueueSteps DEF WebStep

\* What is true of the workers that are being made for s.
MadeOnce(s) ==
  /\ \A j, k \in DOMAIN toMaster :
       toMaster[j].type = "make" /\ toMaster[k].type = "make" /\ toMaster[j].s = s /\ toMaster[k].s = s
       => j = k
  /\ \A k \in DOMAIN toMaster : toMaster[k].type = "make" /\ toMaster[k].s = s =>
       Waits(s) /\ \A w \in Workers : Coming(w) => worker[w].for # s
  /\ \A v, w \in Workers : Coming(v) /\ Coming(w) /\ worker[v].for = s /\ worker[w].for = s => v = w
  /\ \A w \in Workers : Coming(w) /\ worker[w].for = s => Waits(s)
Making(s) ==
  \/ \E k \in DOMAIN toMaster : toMaster[k].type = "make" /\ toMaster[k].s = s
  \/ \E w \in Workers : Coming(w) /\ worker[w].for = s

LEMMA OnceMade ==
  ASSUME QueueTypes, Creations, NEW s \in Sessions
  PROVE  MadeOnce(s) /\ (Making(s) => Waits(s))
BY DEF QueueTypes, Creations, MadeOnce, Making

LEMMA MadeOnceKept ==
  ASSUME QueueInv, QueueStep, NEW s \in Sessions
  PROVE  MadeOnce(s)'
<1>1. MadeOnce(s) /\ (Making(s) => Waits(s))
  BY OnceMade DEF QueueInv
<1>2. CASE \E c \in Calls : SpawnEffect(s, c)
  <2>1. PICK c \in Calls : SpawnEffect(s, c)
    BY <1>2
  <2>2. ~ Making(s)
    BY <1>1, <2>1 DEF SpawnEffect, Settled, Waits
  <2>3. UNCHANGED worker /\ Waits(s)'
    BY <2>1 DEF SpawnEffect, CallTurns, Waits
  <2>4. \A w \in Workers : Coming(w)' => worker'[w].for # s
    BY <2>2, <2>3 DEF Making, Coming
  <2>5. \A k \in DOMAIN toMaster' :
          toMaster'[k].type = "make" /\ toMaster'[k].s = s => k = Len(toMaster) + 1
    BY <2>1, <2>2, MessagesGrow DEF SpawnEffect, Making
  <2>. QED BY <2>3, <2>4, <2>5 DEF MadeOnce
<1>3. CASE \E w \in Workers, c \in Calls : ReadyEffect(w, c) /\ calls[c].s = s
  <2>1. PICK w \in Workers, c \in Calls : ReadyEffect(w, c) /\ calls[c].s = s
    BY <1>3
  <2>2. Coming(w) /\ worker[w].for = s
    BY <2>1 DEF ReadyEffect
  <2>3. ~ Coming(w)' /\ \A v \in Workers : v # w => worker'[v] = worker[v]
    <3>1. worker'[w].at # "boot" /\ worker'[w].out = <<>>
      BY <2>1 DEF ReadyEffect, Reads
    <3>2. ~ Coming(w)'
      BY <3>1 DEF Coming
    <3>. QED BY <2>1, <3>2 DEF ReadyEffect, Reads, WorkerMoves
  <2>4. \A v \in Workers : Coming(v)' => worker'[v].for # s
    BY <1>1, <2>2, <2>3 DEF MadeOnce, Coming
  <2>5. StartOn(w, c) \in Message /\ toMaster' = Append(toMaster, StartOn(w, c)) /\ StartOn(w, c).type # "make"
    BY <2>1 DEF ReadyEffect, StartOn
  <2>6. \A k \in DOMAIN toMaster' : ~ (toMaster'[k].type = "make" /\ toMaster'[k].s = s)
    BY <1>1, <2>2, <2>5, MessagesGrow DEF MadeOnce
  <2>. QED BY <2>4, <2>6 DEF MadeOnce
<1>4. CASE \E w \in Workers, m \in Message : ForkEffect(m, w) /\ m.s = s
  <2>1. PICK w \in Workers, m \in Message : ForkEffect(m, w) /\ m.s = s
    BY <1>4
  <2>2. Takes /\ m = toMaster[1] /\ m.type = "make"
    BY <2>1, QueueParts, TailParts DEF ForkEffect, HandleEffect, Handles, Takes, QueueInv
  <2>3. Waits(s)'
    <3>1. Waits(s) /\ UNCHANGED calls
      BY <1>1, <2>1, <2>2, MessagesShift DEF MadeOnce, ForkEffect, Handles, web
    <3>. QED BY <3>1 DEF Waits
  <2>4. \A k \in DOMAIN toMaster' : ~ (toMaster'[k].type = "make" /\ toMaster'[k].s = s)
    BY <1>1, <2>1, <2>2, MessagesShift DEF MadeOnce
  <2>5. \A v \in Workers : v # w => worker'[v] = worker[v]
    BY <2>1 DEF ForkEffect, WorkerMoves
  <2>6. \A v \in Workers : v # w => ~ (Coming(v)' /\ worker'[v].for = s)
    BY <1>1, <2>1, <2>2, <2>5, MessagesShift DEF MadeOnce, Coming
  <2>. QED BY <2>3, <2>4, <2>6 DEF MadeOnce
<1>5. CASE ~ \/ \E c \in Calls : SpawnEffect(s, c)
             \/ \E w \in Workers, c \in Calls : ReadyEffect(w, c) /\ calls[c].s = s
             \/ \E w \in Workers, m \in Message : ForkEffect(m, w) /\ m.s = s
  <2>1. Waits(s) => Waits(s)'
    BY <1>5, WaitsKept
  <2>2. \A w \in Workers : Coming(w)' /\ worker'[w].for = s => Coming(w) /\ worker[w].for = s
    <3> SUFFICES ASSUME NEW w \in Workers, Coming(w)', worker'[w].for = s
                 PROVE  Coming(w) /\ worker[w].for = s
      OBVIOUS
    <3>1. ASSUME NEW m \in Message, ForkEffect(m, w) PROVE FALSE
      BY <1>5, <3>1 DEF ForkEffect
    <3>. QED BY <3>1, ComingComes
  <2>3. ASSUME NEW m \in Message, Tells(m), toMaster' = Append(toMaster, m)
        PROVE  \A k \in DOMAIN toMaster' : toMaster'[k].type = "make" /\ toMaster'[k].s = s =>
                 k \in DOMAIN toMaster /\ toMaster'[k] = toMaster[k]
    <3>1. ~ (m.type = "make" /\ m.s = s)
      BY <1>5, <2>3 DEF Tells, Make, StartOn, Cancel
    <3>. QED BY <2>3, <3>1, MessagesGrow
  <2>4. CASE UNCHANGED toMaster \/ \E m \in Message : Tells(m) /\ toMaster' = Append(toMaster, m)
    <3>1. \A k \in DOMAIN toMaster' : toMaster'[k].type = "make" /\ toMaster'[k].s = s =>
            k \in DOMAIN toMaster /\ toMaster'[k] = toMaster[k]
      BY <2>3, <2>4
    <3>. QED BY <1>1, <2>1, <2>2, <3>1 DEF MadeOnce
  <2>5. CASE Takes
    <3>1. \A j, k \in DOMAIN toMaster' :
            toMaster'[j].type = "make" /\ toMaster'[k].type = "make" /\ toMaster'[j].s = s /\ toMaster'[k].s = s
            => j = k
      <4> SUFFICES ASSUME NEW j \in DOMAIN toMaster', NEW k \in DOMAIN toMaster',
                          toMaster'[j].type = "make", toMaster'[k].type = "make",
                          toMaster'[j].s = s, toMaster'[k].s = s
                   PROVE  j = k
        OBVIOUS
      <4>1. j + 1 = k + 1 /\ j \in Nat /\ k \in Nat
        BY <1>1, <2>5, MessagesShift DEF MadeOnce
      <4>. QED BY <4>1
    <3>2. \A k \in DOMAIN toMaster' : toMaster'[k].type = "make" /\ toMaster'[k].s = s =>
            Waits(s)' /\ \A w \in Workers : Coming(w)' => worker'[w].for # s
      BY <1>1, <2>1, <2>2, <2>5, MessagesShift DEF MadeOnce
    <3>. QED BY <1>1, <2>1, <2>2, <3>1, <3>2 DEF MadeOnce
  <2>. QED BY <2>4, <2>5, QueueSteps DEF MessageStep
<1>. QED BY <1>2, <1>3, <1>4, <1>5

LEMMA CreationsKept ==
  ASSUME QueueInv, QueueStep
  PROVE  Creations'
<1>1. QueueTypes'
  BY QueueTypesKept
<1>2. \A s \in Sessions : MadeOnce(s)'
  BY MadeOnceKept
<1>3. ASSUME NEW w \in Workers, Coming(w)' PROVE worker'[w].for \in Sessions
  <2>1. CASE Coming(w) /\ worker'[w].for = worker[w].for
    BY <2>1 DEF QueueInv, Creations
  <2>2. ASSUME NEW m \in Message, ForkEffect(m, w) PROVE worker'[w].for \in Sessions
    BY <2>2, QueueParts, TailParts DEF QueueInv, QueueTypes, ForkEffect, Handles
  <2>. QED BY <1>3, <2>1, <2>2, ComingComes
<1>4. \A k \in DOMAIN toMaster' : toMaster'[k].type = "make" => toMaster'[k].s \in Sessions
  BY <1>1 DEF QueueTypes
<1>. QED BY <1>2, <1>3, <1>4 DEF Creations, MadeOnce

-----------------------------------------------------------------------------
(* The workers that are killed. *)

\* A cancel stays until it is answered, and it is when its worker is dead.
LEMMA CancelsKept ==
  ASSUME QueueInv, QueueStep, NEW x \in cancels
  PROVE  x \in cancels' \/ CanceledEffect(x.w)
<1>1. ASSUME NEW s \in Sessions, NEW c \in Calls, SpawnEffect(s, c) \/ \E w \in Workers : TakeEffect(s, c, w)
      PROVE  x \in cancels'
  BY <1>1 DEF SpawnEffect, TakeEffect
<1>2. ASSUME NEW s \in Sessions, CancelEffect(s) PROVE x \in cancels'
  BY <1>2 DEF CancelEffect
<1>3. ASSUME NEW w \in Workers, NEW c \in Calls, ReadyEffect(w, c) \/ SettleEffect(w, c)
      PROVE  x \in cancels'
  BY <1>3 DEF ReadyEffect, SettleEffect, Reads
<1>4. ASSUME NEW w \in Workers, CanceledEffect(w) PROVE x \in cancels' \/ x.w = w
  BY <1>4 DEF CanceledEffect
<1>5. ASSUME UNCHANGED web PROVE x \in cancels'
  BY <1>5 DEF web
<1>. QED BY <1>1, <1>2, <1>3, <1>4, <1>5, QueueSteps DEF WebStep

LEMMA CanceledIsDead ==
  ASSUME QueueInv, NEW w \in Workers, CanceledEffect(w)
  PROVE  worker[w].at = "dead" /\ worker'[w].at = "dead"
<1>1. w = canceled[1] /\ 1 \in DOMAIN canceled /\ UNCHANGED worker
  BY QueueParts, TailParts DEF QueueInv, CanceledEffect
<1>. QED BY <1>1 DEF QueueInv, Kills

\* A worker that is left is not used again, and one that is to be cancelled is
\* left when it has been.
CancelOver(w) == Left(w) \/ \E x \in cancels : x.w = w

LEMMA LeftKept ==
  ASSUME QueueInv, QueueStep, NEW w \in Workers, Introduced(w), Left(w)
  PROVE  Left(w)'
<1>1. ASSUME NEW s \in Sessions, NEW c \in Calls, SpawnEffect(s, c) PROVE Left(w)'
  BY <1>1 DEF SpawnEffect, CallTurns, Left, Training, IsReady
<1>2. ASSUME NEW s \in Sessions, NEW c \in Calls, NEW v \in Workers, TakeEffect(s, c, v) PROVE Left(w)'
  <2>1. v # w /\ ~ IsReady(w)'
    BY <1>2 DEF TakeEffect, Left
  <2>2. Training(w)' = {}
    BY <1>2, <2>1 DEF TakeEffect, CallTurns, Left, Training
  <2>. QED BY <2>1, <2>2 DEF Left
<1>3. ASSUME NEW s \in Sessions, CancelEffect(s) PROVE Left(w)'
  BY <1>3 DEF CancelEffect, Left, Training, IsReady
<1>4. ASSUME NEW v \in Workers, NEW c \in Calls, ReadyEffect(v, c) PROVE Left(w)'
  <2>1. v # w
    BY <1>4 DEF ReadyEffect, Introduced
  <2>2. ~ IsReady(w)'
    BY <1>4 DEF ReadyEffect, Left, IsReady
  <2>3. Training(w)' = {}
    BY <1>4, <2>1 DEF ReadyEffect, CallTurns, Left, Training
  <2>. QED BY <2>2, <2>3 DEF Left
<1>5. ASSUME NEW v \in Workers, NEW c \in Calls, SettleEffect(v, c) PROVE Left(w)'
  <2>1. v # w
    BY <1>5 DEF SettleEffect, Left
  <2>2. ~ IsReady(w)' /\ c \in Training(v)
    BY <1>5, <2>1 DEF SettleEffect, Left
  <2>3. Training(w)' = {}
    BY <1>5, <2>1, <2>2 DEF SettleEffect, CallTurns, Left, Training
  <2>. QED BY <2>2, <2>3 DEF Left
<1>6. ASSUME NEW v \in Workers, CanceledEffect(v) PROVE Left(w)'
  <2>1. Training(w)' \subseteq Training(w) /\ (IsReady(w)' => IsReady(w))
    BY <1>6 DEF CanceledEffect, Training
  <2>. QED BY <2>1 DEF Left
<1>7. ASSUME UNCHANGED web PROVE Left(w)'
  BY <1>7 DEF web, Left, Training, IsReady
<1>. QED BY <1>1, <1>2, <1>3, <1>4, <1>5, <1>6, <1>7, QueueSteps DEF WebStep

LEMMA OverKept ==
  ASSUME QueueInv, QueueStep, NEW w \in Workers, Introduced(w), CancelOver(w)
  PROVE  CancelOver(w)'
<1>1. CASE Left(w)
  BY <1>1, LeftKept DEF CancelOver
<1>2. ASSUME NEW x \in cancels, x.w = w PROVE CancelOver(w)'
  <2>1. CASE x \in cancels'
    BY <1>2, <2>1 DEF CancelOver
  <2>2. CASE CanceledEffect(w)
    <3>1. ~ IsReady(w)' /\ Training(w)' = {}
      BY <1>2, <2>2 DEF CanceledEffect, Training
    <3>. QED BY <3>1 DEF CancelOver, Left
  <2>. QED BY <1>2, <2>1, <2>2, CancelsKept
<1>. QED BY <1>1, <1>2 DEF CancelOver

\* A worker goes because it crashes or because a cancel of it is handled.
LEMMA GoneComes ==
  ASSUME QueueInv, QueueStep, NEW w \in Workers, Gone(w)'
  PROVE  /\ crashed \subseteq crashed'
         /\ Gone(w) \/ w \in crashed' \/ \E m \in Message : KillEffect(m) /\ m.w = w
<1>1. ASSUME UNCHANGED crashed, worker'[w].at \in {"killed", "dead"} => worker[w].at \in {"killed", "dead"}
      PROVE  Gone(w) /\ crashed \subseteq crashed'
  BY <1>1 DEF Gone
<1>2. ASSUME NEW s \in Sessions, NEW c \in Calls, SpawnEffect(s, c) \/ \E v \in Workers : TakeEffect(s, c, v)
      PROVE  Gone(w) /\ crashed \subseteq crashed'
  BY <1>1, <1>2 DEF SpawnEffect, TakeEffect, histories
<1>3. ASSUME NEW s \in Sessions, CancelEffect(s) PROVE Gone(w) /\ crashed \subseteq crashed'
  BY <1>1, <1>3 DEF CancelEffect
<1>4. ASSUME NEW v \in Workers,
             SettleNone(v) \/ \E c \in Calls : ReadyEffect(v, c) \/ SettleEffect(v, c)
      PROVE  Gone(w) /\ crashed \subseteq crashed'
  BY <1>1, <1>4 DEF SettleNone, ReadyEffect, SettleEffect, Reads, WorkerMoves, histories
<1>5. ASSUME NEW v \in Workers, NEW c \in Calls, ReturnEffect(v, c) \/ ThrowEffect(v, c)
      PROVE  Gone(w) /\ crashed \subseteq crashed'
  BY <1>1, <1>5 DEF ReturnEffect, ThrowEffect, Reported, WorkerMoves
<1>6. ASSUME NEW v \in Workers, CanceledEffect(v) PROVE Gone(w) /\ crashed \subseteq crashed'
  BY <1>1, <1>6 DEF CanceledEffect, histories
<1>7. ASSUME NEW m \in Message, NEW v \in Workers, ForkEffect(m, v) PROVE Gone(w) /\ crashed \subseteq crashed'
  BY <1>1, <1>7 DEF ForkEffect, Handles, WorkerMoves, histories
<1>8. ASSUME NEW m \in Message, PassEffect(m) \/ PassNothing(m) \/ KillNothing(m)
      PROVE  Gone(w) /\ crashed \subseteq crashed'
  BY <1>1, <1>8 DEF PassEffect, PassNothing, KillNothing, Handles, WorkerMoves, histories
<1>9. ASSUME NEW m \in Message, KillEffect(m)
      PROVE  crashed \subseteq crashed' /\ (Gone(w) \/ m.w = w)
  BY <1>1, <1>9 DEF KillEffect, WorkerStops, Handles, WorkerMoves, histories
<1>10. ASSUME NEW v \in Workers, ExitEffect(v) \/ BootEffect(v) \/ BootFails(v)
       PROVE  Gone(w) /\ crashed \subseteq crashed'
  BY <1>1, <1>10 DEF ExitEffect, BootEffect, BootFails, Reported, WorkerMoves, histories
<1>11. ASSUME NEW v \in Workers, CrashEffect(v)
       PROVE  crashed \subseteq crashed' /\ (Gone(w) \/ w \in crashed')
  BY <1>11 DEF CrashEffect, WorkerStops, WorkerMoves, Gone
<1>. QED BY <1>2, <1>3, <1>4, <1>5, <1>6, <1>7, <1>8, <1>9, <1>10, <1>11 DEF QueueStep

LEMMA RobbedKept ==
  ASSUME QueueInv, QueueStep
  PROVE  (\A w \in Workers : w \in robbed => w \in robbed') /\ failed \subseteq failed'
<1>1. ASSUME NEW s \in Sessions, NEW c \in Calls, SpawnEffect(s, c) \/ \E v \in Workers : TakeEffect(s, c, v)
      PROVE  UNCHANGED <<robbed, failed>>
  BY <1>1 DEF SpawnEffect, TakeEffect, histories
<1>2. ASSUME NEW s \in Sessions, CancelEffect(s) PROVE UNCHANGED <<robbed, failed>>
  BY <1>2 DEF CancelEffect
<1>3. ASSUME NEW v \in Workers,
             SettleNone(v) \/ \E c \in Calls : ReadyEffect(v, c) \/ SettleEffect(v, c)
      PROVE  UNCHANGED <<robbed, failed>>
  BY <1>3 DEF SettleNone, ReadyEffect, SettleEffect, Reads, histories
<1>4. ASSUME NEW v \in Workers, NEW c \in Calls, ReturnEffect(v, c) \/ ThrowEffect(v, c)
      PROVE  UNCHANGED robbed /\ failed \subseteq failed'
  BY <1>4 DEF ReturnEffect, ThrowEffect, Reported
<1>5. ASSUME NEW v \in Workers, CanceledEffect(v) PROVE UNCHANGED <<robbed, failed>>
  BY <1>5 DEF CanceledEffect, histories
<1>6. ASSUME NEW m \in Message, HandleEffect(m) PROVE UNCHANGED <<robbed, failed>>
  BY <1>6 DEF HandleEffect, ForkEffect, PassEffect, PassNothing, KillEffect, KillNothing, Handles, histories
<1>7. ASSUME NEW v \in Workers, BootEffect(v) \/ BootFails(v) \/ CrashEffect(v)
      PROVE  UNCHANGED <<robbed, failed>>
  BY <1>7 DEF BootEffect, BootFails, CrashEffect, Reported, histories
<1>8. ASSUME NEW v \in Workers, ExitEffect(v)
      PROVE  (\A w \in Workers : w \in robbed => w \in robbed') /\ UNCHANGED failed
  BY <1>8 DEF ExitEffect
<1>. QED BY <1>1, <1>2, <1>3, <1>4, <1>5, <1>6, <1>7, <1>8 DEF QueueStep, HandleEffect

LEMMA KillsKept ==
  ASSUME QueueInv, QueueStep
  PROVE  Kills'
<1>1. Kills /\ \A x \in cancels : x.w \in Workers
  BY QueueParts DEF QueueInv
<1>2. ASSUME NEW w \in Workers, Gone(w)', w \notin crashed' PROVE Introduced(w)' /\ CancelOver(w)'
  <2>1. CASE Gone(w)
    <3>1. Introduced(w) /\ CancelOver(w)
      BY <1>1, <1>2, <2>1, GoneComes DEF Kills, CancelOver
    <3>. QED BY <3>1, OverKept, WorkerKept
  <2>2. ASSUME NEW m \in Message, KillEffect(m), m.w = w PROVE Introduced(w)' /\ CancelOver(w)'
    <3>1. 1 \in DOMAIN toMaster /\ toMaster[1] = m /\ m.type = "cancel" /\ worker[w].at # "dead"
      BY <2>2, QueueParts, TailParts DEF KillEffect, Handles, QueueInv
    <3>2. Introduced(w) /\ CancelOver(w)
      BY <1>1, <2>2, <3>1 DEF Kills, QueueInv, Introductions, CancelOver
    <3>. QED BY <3>2, OverKept, WorkerKept
  <2>. QED BY <1>2, <2>1, <2>2, GoneComes
<1>3. ASSUME NEW w \in Workers, worker[w].at = "dead" \/ \E x \in cancels : x.w = w
      PROVE  worker'[w].at = "dead" \/ \E x \in cancels' : x.w = w
  BY <1>3, WorkerKept, CancelsKept, CanceledIsDead
<1>4. ASSUME NEW k \in DOMAIN toMaster', toMaster'[k].type = "cancel"
      PROVE  worker'[toMaster'[k].w].at = "dead" \/ \E x \in cancels' : x.w = toMaster'[k].w
  <2>1. CASE \E j \in DOMAIN toMaster : toMaster'[k] = toMaster[j]
    <3>1. PICK j \in DOMAIN toMaster : toMaster'[k] = toMaster[j]
      BY <2>1
    <3>2. toMaster[j].w \in Workers /\ (worker[toMaster[j].w].at = "dead" \/ \E x \in cancels : x.w = toMaster[j].w)
      BY <1>1, <1>4, <3>1 DEF QueueInv, QueueTypes, Kills
    <3>. QED BY <1>3, <3>1, <3>2
  <2>2. CASE \E s \in Sessions : CancelEffect(s) /\ toMaster'[k] = Cancel(activeWorkers[s])
    <3>1. PICK s \in Sessions : CancelEffect(s) /\ toMaster'[k] = Cancel(activeWorkers[s])
      BY <2>2
    <3>2. toMaster'[k].w = activeWorkers[s]
      BY <3>1 DEF Cancel
    <3>3. [s |-> s, w |-> activeWorkers[s]] \in cancels'
      BY <3>1 DEF CancelEffect
    <3>. QED BY <3>2, <3>3
  <2>. QED BY <1>4, <2>1, <2>2, MessageKept DEF Tells, Make, StartOn
<1>5. ASSUME NEW k \in DOMAIN canceled' PROVE worker'[canceled'[k]].at = "dead"
  <2>1. canceled \in Seq(Workers) /\ \A j \in DOMAIN canceled : worker'[canceled[j]].at = "dead"
    <3>1. canceled \in Seq(Workers) /\ \A j \in DOMAIN canceled : canceled[j] \in Workers
      BY QueueParts, SeqParts DEF QueueInv
    <3>. QED BY <1>1, <3>1, WorkerKept DEF Kills
  <2>2. ASSUME \E j \in DOMAIN canceled : canceled'[k] = canceled[j] PROVE worker'[canceled'[k]].at = "dead"
    BY <2>1, <2>2
  <2>3. ASSUME NEW w \in Workers, CanceledEffect(w) PROVE \E j \in DOMAIN canceled : canceled'[k] = canceled[j]
    BY <2>1, <2>3, <1>5, TailParts DEF CanceledEffect
  <2>4. ASSUME NEW w \in Workers, ExitEffect(w) PROVE worker'[canceled'[k]].at = "dead"
    <3>1. worker'[w].at = "dead"
      BY <2>4 DEF ExitEffect
    <3>2. canceled'[k] = w \/ \E j \in DOMAIN canceled : canceled[j] = canceled'[k]
      BY <1>5, <2>4 DEF ExitEffect
    <3>. QED BY <2>2, <3>1, <3>2
  <2>5. ASSUME NEW m \in Message, KillNothing(m) PROVE worker'[canceled'[k]].at = "dead"
    <3>1. m.w \in Workers /\ worker'[m.w].at = "dead"
      BY <2>5, QueueParts, TailParts DEF QueueInv, QueueTypes, KillNothing, Handles
    <3>2. canceled'[k] = m.w \/ \E j \in DOMAIN canceled : canceled'[k] = canceled[j]
      BY <1>5, <2>1, <2>5, <3>1, AppendParts DEF KillNothing
    <3>. QED BY <2>2, <3>1, <3>2
  <2>6. CASE UNCHANGED canceled
    BY <1>5, <2>1, <2>6
  <2>. QED
    BY <2>2, <2>3, <2>4, <2>5, <2>6, CanceledSteps DEF KillEffect
<1>. QED BY <1>2, <1>4, <1>5 DEF Kills, CancelOver

-----------------------------------------------------------------------------
(* The workers and the sessions are accounted for. *)

\* A worker that is coming is until it is heard of.
LEMMA ComingGoes ==
  ASSUME QueueInv, QueueStep, NEW w \in Workers, Coming(w), worker'[w].at = "up"
  PROVE  Coming(w)' \/ \E c \in Calls : ReadyEffect(w, c)
<1>1. WorkerTypes(w) /\ worker[w].out \in Seq(Report)
  BY HasTypes, QueueParts DEF QueueInv
<1>2. CASE worker'[w] = worker[w]
  BY <1>2 DEF Coming
<1>3. CASE Reads(w) /\ (SettleNone(w) \/ \E c \in Calls : ReadyEffect(w, c) \/ SettleEffect(w, c))
  <2>1. worker[w].out # <<>> /\ worker[w].at # "boot"
    BY <1>1, <1>3 DEF Reads, WorkerTypes
  <2>2. PICK k \in DOMAIN worker[w].out : worker[w].out[k].type = "ready"
    BY <2>1 DEF Coming
  <2>3. Len(worker[w].out) = 1
    BY <1>1, <2>2 DEF WorkerTypes
  <2>4. k = 1 /\ Head(worker[w].out) = worker[w].out[1]
    BY <1>1, <2>1, <2>2, <2>3, SeqParts, TailParts
  <2>. QED BY <1>3, <2>2, <2>4 DEF SettleNone, SettleEffect
<1>4. CASE BootEffect(w)
  <2>1. worker'[w].out = <<[type |-> "ready", c |-> Undefined]>>
    <3>1. worker[w].out = <<>> /\ worker'[w].out = worker[w].out \o <<[type |-> "ready", c |-> Undefined]>>
      BY <1>1, <1>4 DEF BootEffect, Reported, WorkerTypes
    <3>. QED BY <3>1
  <2>2. 1 \in DOMAIN worker'[w].out /\ worker'[w].out[1].type = "ready"
    BY <2>1
  <2>. QED BY <2>2 DEF Coming
<1>5. CASE Forks(w) \/ Exits(w) \/ BootFails(w) \/ WorkerStops(w)
  BY <1>5 DEF Forks, Exits, BootFails, WorkerStops
<1>6. CASE \E c \in Calls : Receives(w, c)
  BY <1>6 DEF Receives, Introduced
<1>7. CASE \E reports : WorkerEnds(w, reports)
  BY <1>1, <1>7 DEF WorkerEnds, WorkerTypes, Coming
<1>. QED BY <1>2, <1>3, <1>4, <1>5, <1>6, <1>7, WorkerKept DEF WorkerStep

LEMMA NoneLostKept ==
  ASSUME QueueInv, QueueStep
  PROVE  NoneLost'
<1> SUFFICES ASSUME NEW w \in Workers, worker'[w].at = "up"
             PROVE  \/ Coming(w)' \/ IsReady(w)'
                    \/ \E s \in Sessions : activeWorkers'[s] = w
  BY DEF NoneLost
<1>1. /\ activeWorkers \in [Sessions -> Workers \cup {Undefined}] /\ Undefined \notin Workers
      /\ \A v \in Workers : CanceledEffect(v) => v # w
  BY QueueParts, WorkersAreNumbers, CanceledIsDead DEF QueueInv
<1>2. CASE \E c \in Calls : ReadyEffect(w, c)
  BY <1>1, <1>2 DEF ReadyEffect
<1>3. CASE ~ Coming(w)
  <2>1. worker[w].at = "up"
    BY <1>3, WorkerKept DEF WorkerStep, Reads, Forks, Exits, BootEffect, BootFails, WorkerStops, Receives, WorkerEnds, Coming
  <2>2. IsReady(w) \/ \E s \in Sessions : activeWorkers[s] = w
    BY <1>3, <2>1 DEF QueueInv, NoneLost
  <2>3. ASSUME NEW s \in Sessions, NEW c \in Calls, SpawnEffect(s, c)
        PROVE  UNCHANGED <<readyWorkers, activeWorkers>>
    BY <2>3 DEF SpawnEffect
  <2>4. ASSUME NEW s \in Sessions, NEW c \in Calls, NEW v \in Workers, TakeEffect(s, c, v)
        PROVE  IsReady(w)' \/ \E t \in Sessions : activeWorkers'[t] = w
    <3>1. /\ activeWorkers'[s] = v /\ activeWorkers[s] = Undefined
          /\ \A t \in Sessions : t # s => activeWorkers'[t] = activeWorkers[t]
      BY <1>1, <2>4 DEF TakeEffect
    <3>2. IsReady(w) => IsReady(w)' \/ w = v
      BY <2>4 DEF TakeEffect
    <3>. QED BY <1>1, <2>2, <3>1, <3>2
  <2>5. ASSUME NEW s \in Sessions, CancelEffect(s)
        PROVE  UNCHANGED <<readyWorkers, activeWorkers>>
    BY <2>5 DEF CancelEffect
  <2>6. ASSUME NEW v \in Workers, NEW c \in Calls, ReadyEffect(v, c)
        PROVE  IsReady(w)' \/ \E t \in Sessions : activeWorkers'[t] = w
    <3>1. /\ calls[c].s \in Sessions /\ activeWorkers'[calls[c].s] = v
          /\ activeWorkers[calls[c].s] = Undefined
          /\ \A t \in Sessions : t # calls[c].s => activeWorkers'[t] = activeWorkers[t]
      BY <1>1, <2>6 DEF ReadyEffect, QueueInv, CallsKnown
    <3>2. IsReady(w) => IsReady(w)'
      BY <2>6 DEF ReadyEffect, IsReady
    <3>. QED BY <1>1, <2>2, <3>1, <3>2
  <2>7. ASSUME NEW v \in Workers, NEW c \in Calls, SettleEffect(v, c)
        PROVE  IsReady(w)' \/ \E t \in Sessions : activeWorkers'[t] = w
    <3>1. /\ calls[c].s \in Sessions /\ activeWorkers[calls[c].s] = v
          /\ \A t \in Sessions : t # calls[c].s => activeWorkers'[t] = activeWorkers[t]
      BY <1>1, <2>7, TrainingKnown DEF SettleEffect
    <3>2. IsReady(w) \/ w = v => IsReady(w)'
      BY <2>7 DEF SettleEffect
    <3>. QED BY <1>1, <2>2, <3>1, <3>2
  <2>8. ASSUME NEW v \in Workers, CanceledEffect(v)
        PROVE  IsReady(w)' \/ \E t \in Sessions : activeWorkers'[t] = w
    <3>1. v # w /\ (IsReady(w) => IsReady(w)')
      BY <1>1, <2>8 DEF CanceledEffect
    <3>2. ASSUME NEW s \in Sessions, activeWorkers[s] = w PROVE activeWorkers'[s] = w
      <4>1. ~ \E x \in cancels : x.w = v /\ x.s = s
        BY <1>1, <3>1, <3>2 DEF QueueInv, CallsKnown
      <4>. QED BY <2>8, <3>2, <4>1 DEF CanceledEffect
    <3>. QED BY <2>2, <3>1, <3>2
  <2>9. ASSUME UNCHANGED <<readyWorkers, activeWorkers>>
        PROVE  IsReady(w)' \/ \E t \in Sessions : activeWorkers'[t] = w
    BY <2>2, <2>9 DEF IsReady
  <2>10. ASSUME UNCHANGED web PROVE UNCHANGED <<readyWorkers, activeWorkers>>
    BY <2>10 DEF web
  <2>. QED BY <2>3, <2>4, <2>5, <2>6, <2>7, <2>8, <2>9, <2>10, QueueSteps DEF WebStep
<1>. QED BY <1>2, <1>3, ComingGoes

LEMMA BusyKept ==
  ASSUME QueueInv, QueueStep
  PROVE  BusyMeansTraining'
<1> SUFFICES ASSUME NEW s \in Sessions, activeWorkers'[s] # Undefined, ~ Gone(activeWorkers[s])'
             PROVE  \E c \in Calls : calls'[c].at = "train" /\ calls'[c].w = activeWorkers'[s] /\ calls'[c].s = s
  BY DEF BusyMeansTraining, Training
<1>1. /\ activeWorkers \in [Sessions -> Workers \cup {Undefined}] /\ Undefined \notin Workers
      /\ \A w \in Workers : Gone(w) => Gone(w)'
      /\ QueueTypes' /\ calls \in [Calls -> CallState]
  BY QueueParts, WorkersAreNumbers, WorkerKept, QueueTypesKept DEF QueueInv
<1>2. PICK w \in Workers : activeWorkers'[s] = w /\ ~ Gone(w)'
  <2>1. activeWorkers'[s] \in Workers
    BY <1>1 DEF QueueTypes, QueueTypeOK
  <2>2. PICK w \in Workers : activeWorkers'[s] = w
    BY <2>1
  <2>. QED BY <2>2 DEF Gone
<1>3. activeWorkers[s] = w => \E c \in Calls : calls[c].at = "train" /\ calls[c].w = w /\ calls[c].s = s
  BY <1>1, <1>2 DEF QueueInv, BusyMeansTraining, Training
<1> DEFINE Goal == \E c \in Calls : calls'[c].at = "train" /\ calls'[c].w = w /\ calls'[c].s = s
<1>4. ASSUME NEW t \in Sessions, NEW c \in Calls, SpawnEffect(t, c) PROVE Goal
  BY <1>2, <1>3, <1>4 DEF SpawnEffect, CallTurns
<1>5. ASSUME NEW t \in Sessions, NEW c \in Calls, NEW v \in Workers, TakeEffect(t, c, v) PROVE Goal
  <2>1. /\ activeWorkers'[t] = v
        /\ t # s => activeWorkers'[s] = activeWorkers[s]
    BY <1>1, <1>5 DEF TakeEffect
  <2>. QED BY <1>2, <1>3, <1>5, <2>1 DEF TakeEffect, CallTurns
<1>6. ASSUME NEW t \in Sessions, CancelEffect(t) PROVE Goal
  BY <1>2, <1>3, <1>6 DEF CancelEffect
<1>7. ASSUME NEW v \in Workers, NEW c \in Calls, ReadyEffect(v, c) PROVE Goal
  <2>1. /\ activeWorkers'[calls[c].s] = v
        /\ calls[c].s # s => activeWorkers'[s] = activeWorkers[s]
    BY <1>1, <1>7 DEF ReadyEffect
  <2>. QED BY <1>2, <1>3, <1>7, <2>1 DEF ReadyEffect, CallTurns
<1>8. ASSUME NEW v \in Workers, NEW c \in Calls, SettleEffect(v, c) PROVE Goal
  <2>1. /\ calls[c].s # s
        /\ activeWorkers'[s] = activeWorkers[s]
    BY <1>1, <1>2, <1>8 DEF SettleEffect
  <2>. QED BY <1>2, <1>3, <1>8, <2>1 DEF SettleEffect, CallTurns
<1>9. ASSUME NEW v \in Workers, CanceledEffect(v) PROVE Goal
  <2>1. activeWorkers[s] = w
    BY <1>1, <1>2, <1>9 DEF CanceledEffect
  <2>2. v # w
    BY <1>2, <1>9, CanceledIsDead DEF Gone
  <2>3. PICK c \in Calls : calls[c].at = "train" /\ calls[c].w = w /\ calls[c].s = s
    BY <1>3, <2>1
  <2>4. c \notin Training(v)
    BY <2>2, <2>3 DEF Training
  <2>. QED BY <1>9, <2>3, <2>4 DEF CanceledEffect
<1>10. ASSUME UNCHANGED web PROVE Goal
  BY <1>2, <1>3, <1>10 DEF web
<1>. QED BY <1>2, <1>4, <1>5, <1>6, <1>7, <1>8, <1>9, <1>10, QueueSteps DEF WebStep

-----------------------------------------------------------------------------
(* What a call or a cancel waits for is on its way. *)

\* The starts that are on their way to a worker.
LEMMA StartsKept ==
  ASSUME QueueInv, QueueStep, NEW w \in Workers
  PROVE  /\ \/ Starts(w)' = Starts(w) /\ \A k \in Starts(w) : toMaster'[k] = toMaster[k]
            \/ /\ Takes
               /\ \A k \in Starts(w)' : /\ k + 1 \in Starts(w) /\ k \in Nat /\ k + 1 # 1
                                        /\ toMaster'[k] = toMaster[k + 1]
               /\ \A k \in Starts(w) : k = 1 \/ Starts(w)' # {}
            \/ /\ \E c \in Calls : ReadyEffect(w, c) \/ \E s \in Sessions : TakeEffect(s, c, w)
               /\ \A k \in Starts(w)' : k \in Starts(w) \/ k = Len(toMaster) + 1
               /\ \A k \in Starts(w) : toMaster'[k] = toMaster[k]
               /\ Len(toMaster) + 1 \in Starts(w)'
<1>1. CASE UNCHANGED toMaster
  BY <1>1 DEF Starts
<1>2. CASE Takes
  <2>1. \A k \in Starts(w)' : /\ k + 1 \in Starts(w) /\ k \in Nat /\ k + 1 # 1
                              /\ toMaster'[k] = toMaster[k + 1]
    BY <1>2, MessagesShift DEF Starts
  <2>2. \A k \in Starts(w) : k = 1 \/ k - 1 \in Starts(w)'
    BY <1>2, MessagesShift DEF Starts
  <2>. QED BY <1>2, <2>1, <2>2
<1>3. ASSUME NEW m \in Message, Tells(m), toMaster' = Append(toMaster, m), ~ (m.type = "start" /\ m.w = w)
      PROVE  Starts(w)' = Starts(w) /\ \A k \in Starts(w) : toMaster'[k] = toMaster[k]
  BY <1>3, MessagesGrow DEF Starts
<1>4. ASSUME NEW m \in Message, Tells(m), toMaster' = Append(toMaster, m), m.type = "start" /\ m.w = w
      PROVE  /\ \A k \in Starts(w)' : k \in Starts(w) \/ k = Len(toMaster) + 1
             /\ \A k \in Starts(w) : toMaster'[k] = toMaster[k]
             /\ Len(toMaster) + 1 \in Starts(w)'
  BY <1>4, MessagesGrow DEF Starts
<1>5. ASSUME NEW m \in Message, Tells(m), m.type = "start" /\ m.w = w
      PROVE  \E c \in Calls : ReadyEffect(w, c) \/ \E s \in Sessions : TakeEffect(s, c, w)
  BY <1>5 DEF Tells, Make, StartOn, Cancel
<1>. QED BY <1>1, <1>2, <1>3, <1>4, <1>5, QueueSteps DEF MessageStep

\* A call listens to a worker because it has been given it.
LEMMA TrainingComes ==
  ASSUME QueueInv, QueueStep, NEW w \in Workers,
         \A c \in Calls : ~ ReadyEffect(w, c) /\ \A s \in Sessions : ~ TakeEffect(s, c, w)
  PROVE  Training(w)' \subseteq Training(w)
<1> SUFFICES ASSUME NEW b \in Calls, calls'[b].at = "train", calls'[b].w = w
             PROVE  calls[b].at = "train" /\ calls[b].w = w
  BY DEF Training
<1>1. ASSUME NEW s \in Sessions, NEW c \in Calls, SpawnEffect(s, c) PROVE calls'[b] = calls[b]
  BY <1>1 DEF SpawnEffect, CallTurns
<1>2. ASSUME NEW s \in Sessions, NEW c \in Calls, NEW v \in Workers, TakeEffect(s, c, v)
      PROVE  calls'[b] = calls[b]
  BY <1>2 DEF TakeEffect, CallTurns
<1>3. ASSUME NEW s \in Sessions, CancelEffect(s) PROVE calls'[b] = calls[b]
  BY <1>3 DEF CancelEffect
<1>4. ASSUME NEW v \in Workers, NEW c \in Calls, ReadyEffect(v, c) PROVE calls'[b] = calls[b]
  BY <1>4 DEF ReadyEffect, CallTurns
<1>5. ASSUME NEW v \in Workers, NEW c \in Calls, SettleEffect(v, c) PROVE calls'[b] = calls[b]
  <2>1. Head(worker[v].out).type # "train"
    <3>1. Head(worker[v].out) \in Report
      BY <1>5, OutParts DEF SettleEffect, Reads
    <3>. QED BY <3>1 DEF Report
  <2>. QED BY <1>5, <2>1 DEF SettleEffect, CallTurns
<1>6. ASSUME NEW v \in Workers, CanceledEffect(v) PROVE calls[b].at = "train" /\ calls[b].w = w
  BY <1>6 DEF CanceledEffect
<1>7. ASSUME UNCHANGED web PROVE calls'[b] = calls[b]
  BY <1>7 DEF web
<1>. QED BY <1>1, <1>2, <1>3, <1>4, <1>5, <1>6, <1>7, QueueSteps DEF WebStep

\* A worker that a call listens to goes on until its report is read.
LEMMA TrainingGoesOn ==
  ASSUME QueueInv, QueueStep, NEW w \in Workers, Training(w) # {}, Training(w)' # {}, ~ Gone(w)'
  PROVE  /\ worker[w].at = "up"
         /\ \/ worker'[w] = worker[w]
            \/ worker'[w].jobs # {} /\ worker'[w].out = worker[w].out
            \/ worker'[w].out # <<>>
<1>1. /\ Introduced(w) /\ WorkerTypes(w) /\ worker[w].out \in Seq(Report)
      /\ Introduced(w)'
  BY TrainingKnown, HasTypes, QueueParts, WorkerKept DEF QueueInv
<1>2. worker[w].at = "up"
  BY <1>1, WorkerKept DEF Introduced, Gone
<1>3. ASSUME NEW c \in Calls, SettleEffect(w, c) PROVE FALSE
  <2>1. Training(w) = {c} /\ calls'[c].at = Head(worker[w].out).type
    BY <1>3 DEF SettleEffect, CallTurns
  <2>2. Head(worker[w].out).type # "train"
    <3>1. Head(worker[w].out) \in Report
      BY <1>3, OutParts DEF SettleEffect, Reads
    <3>. QED BY <3>1 DEF Report
  <2>3. \A b \in Calls : b # c => calls'[b] = calls[b]
    BY <1>3 DEF SettleEffect, CallTurns
  <2>. QED BY <2>1, <2>2, <2>3 DEF Training
<1>4. ~ SettleNone(w) /\ \A c \in Calls : ~ ReadyEffect(w, c)
  BY <1>1 DEF SettleNone, ReadyEffect, Introduced
<1>5. ASSUME NEW reports, WorkerEnds(w, reports) PROVE worker'[w].out # <<>>
  <2>1. worker'[w].out = worker[w].out \o reports /\ reports \in Seq(Report) /\ reports # <<>>
    BY <1>5 DEF WorkerEnds
  <2>2. 1 \in DOMAIN reports
    BY <2>1, TailParts
  <2>3. Len(worker[w].out) + 1 \in DOMAIN worker'[w].out
    BY <1>1, <2>1, <2>2, MoreParts
  <2>. QED BY <2>3
<1>6. ASSUME NEW c \in Calls, Receives(w, c) PROVE worker'[w].jobs # {} /\ worker'[w].out = worker[w].out
  BY <1>6 DEF Receives
<1>7. ~ Forks(w) /\ ~ Exits(w) /\ ~ BootEffect(w) /\ ~ BootFails(w) /\ ~ WorkerStops(w)
  BY <1>2 DEF Forks, Exits, BootEffect, BootFails, WorkerStops, Gone
<1>. QED BY <1>2, <1>3, <1>4, <1>5, <1>6, <1>7, WorkerKept DEF WorkerStep

LEMMA TrainingsHeardKept ==
  ASSUME QueueInv, QueueStep
  PROVE  TrainingsHeard'
<1> SUFFICES ASSUME NEW w \in Workers, Training(w)' # {}, ~ Gone(w)'
             PROVE  Starts(w)' # {} \/ worker'[w].jobs # {} \/ worker'[w].out # <<>>
  BY DEF TrainingsHeard
<1>1. ASSUME NEW c \in Calls, ReadyEffect(w, c) \/ \E s \in Sessions : TakeEffect(s, c, w)
      PROVE  Starts(w)' # {}
  <2>1. StartOn(w, c) \in Message /\ toMaster' = Append(toMaster, StartOn(w, c))
    BY <1>1 DEF ReadyEffect, TakeEffect
  <2>. QED BY <2>1, MessagesGrow DEF Starts, StartOn
<1>2. CASE \A c \in Calls : ~ ReadyEffect(w, c) /\ \A s \in Sessions : ~ TakeEffect(s, c, w)
  <2>1. Training(w) # {}
    BY <1>2, TrainingComes
  <2>2. CASE worker'[w] = worker[w] /\ Starts(w) # {}
    <3>1. ASSUME Takes, 1 \in Starts(w) PROVE worker'[w].jobs # {}
      <4>1. PICK m \in Message : Handles(m) /\ HandleEffect(m)
        BY <3>1 DEF Takes
      <4>2. m = toMaster[1] /\ m.type = "start" /\ m.w = w
        BY <3>1, <4>1, QueueParts, TailParts DEF QueueInv, Handles, Starts
      <4>3. PassEffect(m) \/ PassNothing(m)
        BY <4>1, <4>2 DEF HandleEffect, ForkEffect, KillEffect, KillNothing
      <4>. QED BY <2>1, <2>2, <4>2, <4>3, TrainingGoesOn DEF PassEffect, PassNothing
    <3>. QED BY <1>2, <2>2, <3>1, StartsKept
  <2>3. CASE worker'[w] = worker[w] /\ Starts(w) = {}
    <3>1. ~ Gone(w)
      BY <2>3 DEF Gone
    <3>. QED BY <2>1, <2>3, <3>1 DEF QueueInv, TrainingsHeard
  <2>. QED BY <2>1, <2>2, <2>3, TrainingGoesOn
<1>. QED BY <1>1, <1>2

\* Where the answer to the cancels of worker w is.
Answered(w) ==
  \/ w \in robbed
  \/ \E k \in DOMAIN toMaster : toMaster[k].type = "cancel" /\ toMaster[k].w = w
  \/ worker[w].at = "killed" /\ handlers > 0
  \/ \E k \in DOMAIN canceled : canceled[k] = w

LEMMA AnsweredKept ==
  ASSUME QueueInv, QueueStep, NEW w \in Workers, Answered(w), ~ CanceledEffect(w)
  PROVE  Answered(w)'
<1>1. /\ canceled \in Seq(Workers) /\ handlers \in Nat /\ worker \in [Workers -> WorkerState]
      /\ worker[w].at \in {"none", "boot", "up", "stuck", "killed", "dead"}
  BY QueueParts DEF QueueInv
<1>2. w \in robbed => w \in robbed'
  BY RobbedKept
<1>3. CASE w \in robbed
  BY <1>2, <1>3 DEF Answered
<1>4. ASSUME NEW k \in DOMAIN toMaster, toMaster[k].type = "cancel", toMaster[k].w = w
      PROVE  Answered(w)'
  <2>1. CASE UNCHANGED toMaster
    BY <1>4, <2>1 DEF Answered
  <2>2. CASE \E m \in Message : toMaster' = Append(toMaster, m)
    BY <1>4, <2>2, MessagesGrow DEF Answered
  <2>3. CASE Takes /\ k # 1
    <3>1. k - 1 \in DOMAIN toMaster' /\ toMaster'[k - 1] = toMaster[k]
      BY <2>3, MessagesShift
    <3>. QED BY <1>4, <3>1 DEF Answered
  <2>4. CASE Takes /\ k = 1
    <3>1. PICK m \in Message : Handles(m) /\ HandleEffect(m)
      BY <2>4 DEF Takes
    <3>2. m = toMaster[1] /\ m.type = "cancel" /\ m.w = w
      BY <1>4, <2>4, <3>1, QueueParts, TailParts DEF QueueInv, Handles
    <3>3. KillEffect(m) \/ KillNothing(m)
      BY <3>1, <3>2 DEF HandleEffect, ForkEffect, PassEffect, PassNothing
    <3>4. CASE KillEffect(m)
      BY <1>1, <3>2, <3>4 DEF KillEffect, WorkerStops, Answered
    <3>5. CASE KillNothing(m)
      BY <1>1, <3>2, <3>5, AppendParts DEF KillNothing, Answered
    <3>. QED BY <3>3, <3>4, <3>5
  <2>. QED BY <2>1, <2>2, <2>3, <2>4, QueueSteps DEF MessageStep
<1>5. CASE worker[w].at = "killed" /\ handlers > 0
  <2>1. CASE ExitEffect(w)
    BY <1>5, <2>1 DEF ExitEffect, Answered
  <2>2. ASSUME NEW v \in Workers, v # w, ExitEffect(v) PROVE Answered(w)'
    BY <1>5, <2>2 DEF ExitEffect, Answered
  <2>3. CASE ~ \E v \in Workers : ExitEffect(v)
    <3>1. handlers' > 0
      <4>1. ASSUME NEW v \in Workers, CanceledEffect(v) PROVE UNCHANGED handlers
        BY <4>1 DEF CanceledEffect
      <4>2. ASSUME NEW m \in Message, KillEffect(m) \/ KillNothing(m) PROVE handlers' \in {handlers, handlers + 1}
        BY <4>2 DEF KillEffect, KillNothing
      <4>. QED BY <1>1, <1>5, <2>3, <4>1, <4>2, CanceledSteps
    <3>2. worker'[w].at = "killed"
      <4>1. ~ Exits(w) /\ WorkerTypes(w)
        BY <2>3, HasTypes DEF Exits
      <4>2. worker'[w] = worker[w] \/ Reads(w) \/ WorkerStops(w)
        BY <1>5, <4>1, WorkerKept
           DEF WorkerStep, WorkerTypes, Forks, BootEffect, BootFails, Receives, WorkerEnds
      <4>. QED BY <1>5, <4>2 DEF Reads, WorkerStops
    <3>. QED BY <3>1, <3>2 DEF Answered
  <2>. QED BY <2>1, <2>2, <2>3
<1>6. ASSUME NEW k \in DOMAIN canceled, canceled[k] = w PROVE Answered(w)'
  <2>1. CASE UNCHANGED canceled
    BY <1>6, <2>1 DEF Answered
  <2>2. ASSUME NEW v \in Workers, CanceledEffect(v) PROVE Answered(w)'
    <3>1. v = canceled[1] /\ canceled # <<>> /\ canceled' = Tail(canceled)
      BY <1>1, <2>2, TailParts DEF CanceledEffect
    <3>2. k # 1
      BY <1>6, <2>2, <3>1
    <3>3. k - 1 \in DOMAIN canceled' /\ canceled'[k - 1] = canceled[k]
      BY <1>1, <3>1, <3>2, TailParts
    <3>. QED BY <1>6, <3>3 DEF Answered
  <2>3. ASSUME NEW v \in Workers, ExitEffect(v) PROVE Answered(w)'
    BY <1>6, <2>3 DEF ExitEffect, Answered
  <2>4. ASSUME NEW m \in Message, KillNothing(m) PROVE Answered(w)'
    <3>1. m.w \in Workers
      BY <2>4, QueueParts, TailParts DEF QueueInv, QueueTypes, KillNothing, Handles
    <3>. QED BY <1>1, <1>6, <2>4, <3>1, AppendParts DEF KillNothing, Answered
  <2>. QED BY <2>1, <2>2, <2>3, <2>4, CanceledSteps DEF KillEffect
<1>. QED BY <1>3, <1>4, <1>5, <1>6 DEF Answered

LEMMA CancelsHeardKept ==
  ASSUME QueueInv, QueueStep
  PROVE  CancelsHeard'
<1> SUFFICES ASSUME NEW x \in cancels' PROVE Answered(x.w)'
  BY DEF CancelsHeard, Answered
<1>1. CASE x \in cancels
  <2>1. PICK w \in Workers : x.w = w
    BY <1>1, QueueParts DEF QueueInv
  <2>2. Answered(w)
    BY <1>1, <2>1 DEF QueueInv, CancelsHeard, Answered
  <2>3. ~ CanceledEffect(w)
    BY <1>1, <2>1 DEF CanceledEffect
  <2>4. Answered(w)'
    BY <2>2, <2>3, AnsweredKept
  <2>. QED BY <2>1, <2>4
<1>2. CASE x \notin cancels
  <2>1. PICK s \in Sessions : CancelEffect(s) /\ x = [s |-> s, w |-> activeWorkers[s]]
    <3>1. ASSUME NEW s \in Sessions, CancelEffect(s) PROVE x = [s |-> s, w |-> activeWorkers[s]]
      BY <1>2, <3>1 DEF CancelEffect
    <3>2. \E s \in Sessions : CancelEffect(s)
      BY <1>2, QueueSteps DEF WebStep, SpawnEffect, TakeEffect, ReadyEffect, SettleEffect, Reads, CanceledEffect, web
    <3>. QED BY <3>1, <3>2
  <2>2. PICK w \in Workers : x.w = w /\ toMaster' = Append(toMaster, Cancel(w)) /\ Cancel(w) \in Message
    BY <2>1 DEF CancelEffect
  <2>3. Len(toMaster) + 1 \in DOMAIN toMaster' /\ toMaster'[Len(toMaster) + 1] = Cancel(w)
    BY <2>2, MessagesGrow
  <2>4. Cancel(w).type = "cancel" /\ Cancel(w).w = w
    BY DEF Cancel
  <2>5. Answered(w)'
    BY <2>3, <2>4 DEF Answered
  <2>. QED BY <2>2, <2>5
<1>. QED BY <1>1, <1>2

-----------------------------------------------------------------------------
(* A worker has one training at a time, and reports that one. *)

\* A worker that is not heard of has none.
LEMMA UnknownIsIdle ==
  ASSUME QueueInv, NEW w \in Workers, ~ Introduced(w)
  PROVE  Starts(w) = {} /\ worker[w].jobs = {} /\ Reports(w) = {}
<1>1. WorkerTypes(w) /\ worker[w].out \in Seq(Report) /\ worker[w] \in WorkerState
  BY HasTypes, QueueParts DEF QueueInv
<1>2. Starts(w) = {}
  BY DEF QueueInv, Introductions, Starts
<1>3. CASE worker[w].at \in {"none", "boot", "stuck"}
  <2>1. Reports(w) = {}
    BY <1>1, <1>3 DEF WorkerTypes, Reports
  <2>. QED BY <1>1, <1>2, <1>3, <2>1 DEF WorkerTypes
<1>4. CASE Coming(w) /\ worker[w].at # "boot"
  <2>1. PICK k \in DOMAIN worker[w].out : worker[w].out[k].type = "ready"
    BY <1>4 DEF Coming
  <2>2. Len(worker[w].out) = 1 /\ worker[w].jobs = {}
    BY <1>1, <2>1 DEF WorkerTypes
  <2>3. DOMAIN worker[w].out = {1}
    <3>1. DOMAIN worker[w].out = 1..Len(worker[w].out)
      BY <1>1, SeqParts
    <3>. QED BY <2>2, <3>1
  <2>4. Reports(w) = {}
    BY <2>1, <2>3 DEF Reports
  <2>. QED BY <1>2, <2>2, <2>4
<1>5. worker[w].at \in {"none", "boot", "up", "stuck", "killed", "dead"}
  BY QueueParts DEF QueueInv
<1>. QED BY <1>3, <1>4, <1>5 DEF Introduced

\* A call that has a worker keeps it, and listens to it until it settles.
LEMMA CallsKeepWorker ==
  ASSUME QueueInv, QueueStep, NEW b \in Calls, calls[b].at \notin {"none", "spawn"}
  PROVE  /\ calls'[b].w = calls[b].w
         /\ \/ calls'[b].at = calls[b].at
            \/ calls[b].at = "train" /\ (SettleEffect(calls[b].w, b) \/ CanceledEffect(calls[b].w))
<1>1. ASSUME NEW s \in Sessions, NEW c \in Calls, SpawnEffect(s, c) \/ \E v \in Workers : TakeEffect(s, c, v)
      PROVE  calls'[b] = calls[b]
  BY <1>1 DEF SpawnEffect, TakeEffect, CallTurns
<1>2. ASSUME NEW s \in Sessions, CancelEffect(s) PROVE calls'[b] = calls[b]
  BY <1>2 DEF CancelEffect
<1>3. ASSUME NEW v \in Workers, NEW c \in Calls, ReadyEffect(v, c) PROVE calls'[b] = calls[b]
  BY <1>3 DEF ReadyEffect, CallTurns
<1>4. ASSUME NEW v \in Workers, NEW c \in Calls, SettleEffect(v, c)
      PROVE  calls'[b] = calls[b] \/ (c = b /\ v = calls[b].w /\ calls[b].at = "train" /\ calls'[b].w = v)
  <2>1. c \in Training(v)
    BY <1>4 DEF SettleEffect
  <2>. QED BY <1>4, <2>1 DEF SettleEffect, CallTurns, Training
<1>5. ASSUME NEW v \in Workers, CanceledEffect(v)
      PROVE  /\ calls'[b].w = calls[b].w
             /\ calls'[b].at = calls[b].at \/ (v = calls[b].w /\ calls[b].at = "train")
  BY <1>5 DEF CanceledEffect, Training
<1>6. ASSUME UNCHANGED web PROVE calls'[b] = calls[b]
  BY <1>6 DEF web
<1>. QED BY <1>1, <1>2, <1>3, <1>4, <1>5, <1>6, QueueSteps DEF WebStep

\* A training stays the one of its worker until its report is read.
LEMMA CurrentKept ==
  ASSUME QueueInv, QueueStep, NEW w \in Workers, NEW c, Introduced(w), Current(w, c),
         \A d \in Calls : ~ SettleEffect(w, d)
  PROVE  Current(w, c)'
<1>1. /\ c \in Calls /\ calls[c].w = w /\ calls[c].at \notin {"none", "spawn"}
  BY WorkersAreNumbers DEF Current, QueueInv, CallsKnown
<1>2. CASE Gone(w) /\ Left(w)
  <2>1. Gone(w)' /\ Left(w)'
    BY <1>2, LeftKept, WorkerKept
  <2>2. calls'[c].w = w
    BY <1>1, CallsKeepWorker
  <2>. QED BY <1>1, <2>1, <2>2 DEF Current
<1>3. CASE c \in Training(w)
  <2>1. CASE c \in Training(w)'
    BY <1>1, <2>1 DEF Current, Training
  <2>2. CASE CanceledEffect(w)
    <3>1. ~ IsReady(w)' /\ Training(w)' = {} /\ calls'[c].w = w
      BY <1>1, <1>3, <2>2, TrainingKnown DEF CanceledEffect, Training
    <3>2. Gone(w)'
      BY <2>2, CanceledIsDead DEF Gone
    <3>. QED BY <1>1, <3>1, <3>2 DEF Current, Left
  <2>. QED BY <1>1, <1>3, <2>1, <2>2, CallsKeepWorker DEF Training
<1>. QED BY <1>2, <1>3 DEF Current

\* Nothing more is given to w, and what is left is where it was or goes on.
LEMMA Shrinks ==
  ASSUME NEW w, Single(w), Owned(w), NEW d \in Nat,
         \A k \in Starts(w)' : k \in Nat /\ k + d \in Starts(w) /\ toMaster'[k] = toMaster[k + d],
         worker'[w].jobs \subseteq worker[w].jobs,
         \A k \in Reports(w)' : k \in Reports(w) /\ worker'[w].out[k] = worker[w].out[k],
         IsReady(w)' => IsReady(w),
         Starts(w) # {} \/ worker[w].jobs # {} \/ Reports(w) # {} =>
           \A c : Current(w, c) => Current(w, c)'
  PROVE  Single(w)' /\ Owned(w)'
<1>1. \A j, k \in Starts(w)' : j = k
  <2> SUFFICES ASSUME NEW j \in Starts(w)', NEW k \in Starts(w)' PROVE j = k
    OBVIOUS
  <2>1. j + d = k + d /\ j \in Nat /\ k \in Nat
    BY DEF Single
  <2>. QED BY <2>1
<1>2. Starts(w)' # {} => Starts(w) # {}
  OBVIOUS
<1>3. Reports(w)' # {} => Reports(w) # {}
  OBVIOUS
<1>4. Single(w)'
  BY <1>1, <1>2, <1>3 DEF Single
<1>5. ASSUME NEW k \in Starts(w)' PROVE Current(w, toMaster[k].c)'
  <2>1. k + d \in Starts(w) /\ toMaster'[k] = toMaster[k + d]
    OBVIOUS
  <2>2. PICK c : c = toMaster[k + d].c
    OBVIOUS
  <2>3. Current(w, c)'
    BY <2>1, <2>2 DEF Owned
  <2>. QED BY <2>1, <2>2, <2>3
<1>6. ASSUME NEW c \in worker'[w].jobs PROVE Current(w, c)'
  BY <1>6 DEF Owned
<1>7. ASSUME NEW k \in Reports(w)'
      PROVE  worker'[w].out[k].type = "done" /\ Current(w, worker[w].out[k].c)'
  <2>1. k \in Reports(w) /\ worker'[w].out[k] = worker[w].out[k]
    OBVIOUS
  <2>2. PICK c : c = worker[w].out[k].c
    OBVIOUS
  <2>3. Current(w, c)'
    BY <2>1, <2>2 DEF Owned
  <2>. QED BY <2>1, <2>2, <2>3 DEF Owned
<1>. QED BY <1>4, <1>5, <1>6, <1>7 DEF Owned

\* A worker is ready again when its report is read.
LEMMA ReadyComes ==
  ASSUME QueueInv, QueueStep, NEW w \in Workers, IsReady(w)', \A c \in Calls : ~ SettleEffect(w, c)
  PROVE  IsReady(w)
<1>1. ASSUME NEW s \in Sessions, NEW c \in Calls, SpawnEffect(s, c) \/ \E v \in Workers : TakeEffect(s, c, v)
      PROVE  IsReady(w)
  BY <1>1 DEF SpawnEffect, TakeEffect, IsReady
<1>2. ASSUME NEW s \in Sessions, CancelEffect(s) PROVE IsReady(w)
  BY <1>2 DEF CancelEffect, IsReady
<1>3. ASSUME NEW v \in Workers, NEW c \in Calls, ReadyEffect(v, c) PROVE IsReady(w)
  BY <1>3 DEF ReadyEffect, IsReady
<1>4. ASSUME NEW v \in Workers, NEW c \in Calls, SettleEffect(v, c) PROVE IsReady(w)
  BY <1>4 DEF SettleEffect
<1>5. ASSUME NEW v \in Workers, CanceledEffect(v) PROVE IsReady(w)
  BY <1>5 DEF CanceledEffect
<1>6. ASSUME UNCHANGED web PROVE IsReady(w)
  BY <1>6 DEF web, IsReady
<1>. QED BY <1>1, <1>2, <1>3, <1>4, <1>5, <1>6, QueueSteps DEF WebStep

\* The training that a worker is given is the only one it has.
LEMMA GivenOne ==
  ASSUME QueueInv, QueueStep, NEW w \in Workers, w \notin failed, NEW c \in Calls,
         ReadyEffect(w, c) \/ \E s \in Sessions : TakeEffect(s, c, w)
  PROVE  Single(w)' /\ Owned(w)'
<1> DEFINE n == Len(toMaster) + 1
<1>1. Starts(w) = {} /\ worker[w].jobs = {} /\ Reports(w) = {}
  <2>1. CASE ReadyEffect(w, c)
    BY <2>1, UnknownIsIdle DEF ReadyEffect, Introduced
  <2>2. CASE \E s \in Sessions : TakeEffect(s, c, w)
    BY <2>2 DEF TakeEffect, QueueInv, OneTraining, Single
  <2>. QED BY <2>1, <2>2
<1>2. Starts(w)' = {n} /\ toMaster'[n] = StartOn(w, c)
  <2>1. StartOn(w, c) \in Message /\ toMaster' = Append(toMaster, StartOn(w, c))
    BY DEF ReadyEffect, TakeEffect
  <2>2. StartOn(w, c).type = "start" /\ StartOn(w, c).w = w
    BY DEF StartOn
  <2>. QED BY <1>1, <2>1, <2>2, MessagesGrow DEF Starts
<1>3. worker'[w].jobs = {} /\ Reports(w)' = {} /\ ~ IsReady(w)'
  <2>1. CASE ReadyEffect(w, c)
    <3>1. worker'[w].jobs = {} /\ worker'[w].out = <<>> /\ UNCHANGED readyWorkers
      BY <2>1 DEF ReadyEffect, Reads
    <3>2. ~ IsReady(w)
      BY <2>1 DEF ReadyEffect, QueueInv, Introductions, Introduced
    <3>. QED BY <3>1, <3>2 DEF IsReady, Reports
  <2>2. CASE \E s \in Sessions : TakeEffect(s, c, w)
    BY <1>1, <2>2 DEF TakeEffect, Reports
  <2>. QED BY <2>1, <2>2
<1>4. Current(w, c)'
  BY DEF ReadyEffect, TakeEffect, CallTurns, Current, Training
<1>5. StartOn(w, c).c = c
  BY DEF StartOn
<1> HIDE DEF n
<1>6. \A k \in Starts(w)' : Current(w, toMaster[k].c)'
  BY <1>2, <1>4, <1>5
<1>. QED BY <1>2, <1>3, <1>6 DEF Single, Owned

\* A worker whose report is read has nothing else.
LEMMA ReadOne ==
  ASSUME QueueInv, QueueStep, NEW w \in Workers, w \notin failed,
         SettleNone(w) \/ \E c \in Calls : SettleEffect(w, c)
  PROVE  Single(w)' /\ Owned(w)'
<1>1. Single(w) /\ worker[w].out \in Seq(Report) /\ worker[w].out # <<>>
  BY QueueParts DEF QueueInv, OneTraining, SettleNone, SettleEffect, Reads
<1>2. 1 \in Reports(w)
  <2>1. Head(worker[w].out) = worker[w].out[1] /\ 1 \in DOMAIN worker[w].out
    BY <1>1, TailParts
  <2>. QED BY <2>1 DEF SettleNone, SettleEffect, Reports
<1>3. Starts(w) = {} /\ worker[w].jobs = {} /\ \A k \in Reports(w) : k = 1
  BY <1>1, <1>2 DEF Single
<1>4. Starts(w)' = {} /\ worker'[w].jobs = {} /\ worker'[w].out = Tail(worker[w].out)
  BY <1>3 DEF SettleNone, SettleEffect, Reads, Starts
<1>5. Reports(w)' = {}
  <2> SUFFICES ASSUME NEW k \in Reports(w)' PROVE FALSE
    OBVIOUS
  <2>1. k \in DOMAIN Tail(worker[w].out)
    BY <1>4 DEF Reports
  <2>2. k + 1 \in DOMAIN worker[w].out /\ k + 1 # 1 /\ Tail(worker[w].out)[k] = worker[w].out[k + 1]
    BY <1>1, <2>1, TailParts
  <2>3. worker[w].out[k + 1].type # "ready"
    BY <1>1, <2>1, OutTail
  <2>. QED BY <1>3, <2>2, <2>3 DEF Reports
<1>. QED BY <1>4, <1>5 DEF Single, Owned

\* A training that is passed on is the only one of its worker.
LEMMA PassedOne ==
  ASSUME QueueInv, QueueStep, NEW w \in Workers, w \notin failed, NEW m \in Message, PassEffect(m), m.w = w
  PROVE  Single(w)' /\ Owned(w)'
<1>1. Takes /\ 1 \in Starts(w) /\ toMaster[1] = m
  <2>1. Handles(m) /\ HandleEffect(m)
    BY DEF PassEffect, HandleEffect
  <2>2. 1 \in DOMAIN toMaster /\ toMaster[1] = m /\ m.type = "start"
    BY <2>1, QueueParts, TailParts DEF QueueInv, Handles, PassEffect
  <2>. QED BY <2>1, <2>2 DEF Takes, Starts
<1>2. /\ \A k \in Starts(w) : k = 1
      /\ worker[w].jobs = {} /\ Reports(w) = {} /\ ~ IsReady(w) /\ Current(w, m.c)
  BY <1>1 DEF QueueInv, OneTraining, Single, Owned
<1>3. Starts(w)' = {}
  BY <1>1, <1>2, MessagesShift DEF Starts
<1>4. worker'[w].jobs = {m.c} /\ worker'[w].out = worker[w].out /\ worker'[w].at = worker[w].at
  BY <1>2 DEF PassEffect
<1>5. UNCHANGED <<calls, readyWorkers>>
  BY DEF PassEffect, Handles, web
<1>6. Reports(w)' = {} /\ ~ IsReady(w)'
  BY <1>2, <1>4, <1>5 DEF Reports, IsReady
<1>7. Current(w, m.c)'
  BY <1>2, <1>4, <1>5 DEF Current, Training, Gone, Left, IsReady
<1>. QED BY <1>3, <1>4, <1>6, <1>7 DEF Single, Owned

\* The report of a training is the only thing of its worker.
LEMMA ReturnedOne ==
  ASSUME QueueInv, QueueStep, NEW w \in Workers, w \notin failed, NEW c \in Calls, ReturnEffect(w, c)
  PROVE  Single(w)' /\ Owned(w)'
<1>1. Single(w) /\ Owned(w) /\ WorkerTypes(w) /\ worker[w].out \in Seq(Report) /\ c \in worker[w].jobs
  BY HasTypes, QueueParts DEF QueueInv, OneTraining, ReturnEffect
<1>2. /\ \A b \in worker[w].jobs : b = c
      /\ Starts(w) = {} /\ Reports(w) = {} /\ ~ IsReady(w) /\ Current(w, c)
  BY <1>1 DEF Single, Owned
<1>3. worker[w].out = <<>>
  <2>1. DOMAIN worker[w].out = {}
    BY <1>1, <1>2 DEF Reports, WorkerTypes
  <2>. QED BY <1>1, <2>1, TailParts
<1>4. worker'[w].out = <<[type |-> "done", c |-> c]>>
  <2>1. worker'[w].out = worker[w].out \o <<[type |-> "done", c |-> c]>>
    BY DEF ReturnEffect, Reported
  <2>. QED BY <1>3, <2>1
<1>5. /\ worker'[w].jobs = {} /\ worker'[w].at = worker[w].at
      /\ UNCHANGED <<calls, readyWorkers, toMaster>>
  BY <1>2 DEF ReturnEffect, Reported, web
<1>6. Starts(w)' = {} /\ ~ IsReady(w)'
  BY <1>2, <1>5 DEF Starts, IsReady
<1>7. Current(w, c)'
  BY <1>2, <1>5 DEF Current, Training, Gone, Left, IsReady
<1>8. \A k \in DOMAIN worker'[w].out : k = 1 /\ worker'[w].out[k] = [type |-> "done", c |-> c]
  BY <1>4
<1>9. \A k \in Reports(w)' : k = 1 /\ worker'[w].out[k].type = "done" /\ worker'[w].out[k].c = c
  BY <1>8 DEF Reports
<1>. QED BY <1>5, <1>6, <1>7, <1>9 DEF Single, Owned

LEMMA OneTrainingKept ==
  ASSUME QueueInv, QueueStep
  PROVE  OneTraining'
<1> SUFFICES ASSUME NEW w \in Workers, w \notin failed' PROVE Single(w)' /\ Owned(w)'
  BY DEF OneTraining
<1>1. w \notin failed /\ Single(w) /\ Owned(w)
  BY RobbedKept DEF QueueInv, OneTraining
<1>2. CASE \E c \in Calls : ReadyEffect(w, c) \/ \E s \in Sessions : TakeEffect(s, c, w)
  BY <1>1, <1>2, GivenOne
<1>3. CASE SettleNone(w) \/ \E c \in Calls : SettleEffect(w, c)
  BY <1>1, <1>3, ReadOne
<1>4. CASE \E m \in Message : PassEffect(m) /\ m.w = w
  BY <1>1, <1>4, PassedOne
<1>5. CASE \E c \in Calls : ReturnEffect(w, c)
  BY <1>1, <1>5, ReturnedOne
<1>6. \A c \in Calls : ~ ThrowEffect(w, c)
  BY DEF ThrowEffect
<1>7. CASE /\ \A c \in Calls : ~ ReadyEffect(w, c) /\ \A s \in Sessions : ~ TakeEffect(s, c, w)
           /\ ~ SettleNone(w) /\ \A c \in Calls : ~ SettleEffect(w, c) /\ ~ ReturnEffect(w, c)
           /\ \A m \in Message : ~ (PassEffect(m) /\ m.w = w)
  <2>1. PICK d \in {0, 1} :
          \A k \in Starts(w)' : k \in Nat /\ k + d \in Starts(w) /\ toMaster'[k] = toMaster[k + d]
    <3>1. CASE Starts(w)' = Starts(w) /\ \A k \in Starts(w) : toMaster'[k] = toMaster[k]
      <4>1. \A k \in Starts(w) : k \in Nat /\ k + 0 = k
        BY QueueParts, SeqParts DEF QueueInv, Starts
      <4>. QED BY <3>1, <4>1
    <3>2. CASE \A k \in Starts(w)' : /\ k + 1 \in Starts(w) /\ k \in Nat /\ k + 1 # 1
                                     /\ toMaster'[k] = toMaster[k + 1]
      BY <3>2
    <3>. QED BY <1>7, <3>1, <3>2, StartsKept
  <2>2. /\ worker'[w].jobs \subseteq worker[w].jobs
        /\ worker'[w].out = worker[w].out \/ BootEffect(w)
    BY <1>6, <1>7, WorkerKept DEF WorkerStep, Forks, Exits, BootEffect, BootFails, WorkerStops, Receives, WorkerEnds
  <2>3. \A k \in Reports(w)' : k \in Reports(w) /\ worker'[w].out[k] = worker[w].out[k]
    <3>1. CASE worker'[w].out = worker[w].out
      BY <3>1 DEF Reports
    <3>2. CASE BootEffect(w)
      <4>1. worker[w].out = <<>> /\ worker'[w].out = worker[w].out \o <<[type |-> "ready", c |-> Undefined]>>
        BY <3>2, HasTypes DEF BootEffect, Reported, WorkerTypes
      <4>2. \A k \in DOMAIN worker'[w].out : worker'[w].out[k].type = "ready"
        BY <4>1
      <4>. QED BY <4>2 DEF Reports
    <3>. QED BY <2>2, <3>1, <3>2
  <2>4. IsReady(w)' => IsReady(w)
    BY <1>7, ReadyComes
  <2>5. Starts(w) # {} \/ worker[w].jobs # {} \/ Reports(w) # {} => \A c : Current(w, c) => Current(w, c)'
    BY <1>7, UnknownIsIdle, CurrentKept
  <2>6. d \in Nat
    OBVIOUS
  <2>. QED BY <1>1, <2>1, <2>2, <2>3, <2>4, <2>5, <2>6, Shrinks
<1>. QED BY <1>2, <1>3, <1>4, <1>5, <1>7

LEMMA OwnOutputKept ==
  ASSUME QueueInv, QueueStep
  PROVE  OwnOutput'
<1> SUFFICES ASSUME NEW b \in Calls, calls'[b].at = "done" PROVE calls'[b].got = b \/ calls'[b].w \in failed'
  BY DEF OwnOutput
<1>1. failed \subseteq failed'
  BY RobbedKept
<1>2. ASSUME calls'[b] = calls[b] PROVE calls'[b].got = b \/ calls'[b].w \in failed'
  BY <1>1, <1>2 DEF QueueInv, OwnOutput
<1>3. ASSUME NEW s \in Sessions, NEW c \in Calls, SpawnEffect(s, c) \/ \E v \in Workers : TakeEffect(s, c, v)
      PROVE  calls'[b] = calls[b]
  BY <1>3 DEF SpawnEffect, TakeEffect, CallTurns
<1>4. ASSUME NEW s \in Sessions, CancelEffect(s) PROVE calls'[b] = calls[b]
  BY <1>4 DEF CancelEffect
<1>5. ASSUME NEW v \in Workers, NEW c \in Calls, ReadyEffect(v, c) PROVE calls'[b] = calls[b]
  BY <1>5 DEF ReadyEffect, CallTurns
<1>6. ASSUME NEW w \in Workers, NEW c \in Calls, SettleEffect(w, c)
      PROVE  calls'[b].got = b \/ calls'[b].w \in failed'
  <2>1. CASE c # b
    BY <1>2, <1>6, <2>1 DEF SettleEffect, CallTurns
  <2>2. CASE c = b /\ w \notin failed
    <3>1. /\ worker[w].out[1] = Head(worker[w].out) /\ 1 \in DOMAIN worker[w].out
          /\ Head(worker[w].out).type # "ready" /\ calls'[c].got = Head(worker[w].out).c
      BY <1>6, OutParts DEF SettleEffect, Reads
    <3>2. 1 \in Reports(w)
      BY <3>1 DEF Reports
    <3>3. Current(w, worker[w].out[1].c)
      BY <2>2, <3>2 DEF QueueInv, OneTraining, Owned
    <3>4. worker[w].out[1].c \in Training(w)
      BY <1>6, <3>3 DEF Current, Left, SettleEffect
    <3>5. worker[w].out[1].c = c
      BY <1>6, <3>4 DEF SettleEffect
    <3>. QED BY <2>2, <3>1, <3>5
  <2>3. CASE c = b /\ w \in failed
    BY <1>1, <1>6, <2>3 DEF SettleEffect, CallTurns
  <2>. QED BY <2>1, <2>2, <2>3
<1>7. ASSUME NEW v \in Workers, CanceledEffect(v) PROVE calls'[b].got = b \/ calls'[b].w \in failed'
  BY <1>1, <1>7 DEF CanceledEffect, QueueInv, OwnOutput
<1>8. ASSUME UNCHANGED web PROVE calls'[b] = calls[b]
  BY <1>8 DEF web
<1>. QED BY <1>2, <1>3, <1>4, <1>5, <1>6, <1>7, <1>8, QueueSteps DEF WebStep

-----------------------------------------------------------------------------
(* The theorems. *)

LEMMA QueueInvInit == QueueInit => QueueInv
<1> SUFFICES ASSUME QueueInit PROVE QueueInv
  OBVIOUS
<1>1. /\ \A k \in DOMAIN readyWorkers : FALSE
      /\ \A k \in DOMAIN toMaster : FALSE
      /\ \A k \in DOMAIN canceled : FALSE
      /\ \A w \in Workers : worker[w].at = "none" /\ worker[w].jobs = {} /\ worker[w].out = <<>>
      /\ \A w \in Workers : \A k \in DOMAIN worker[w].out : FALSE
      /\ \A s \in Sessions : activeWorkers[s] = Undefined
      /\ \A c \in Calls : calls[c].at = "none" /\ calls[c].w = Undefined
      /\ cancels = {}
  BY DEF QueueInit
<1>2. /\ \A w \in Workers : ~ IsReady(w) /\ ~ Coming(w) /\ ~ Gone(w) /\ Training(w) = {}
      /\ \A w \in Workers : Starts(w) = {} /\ Reports(w) = {}
  BY <1>1 DEF IsReady, Coming, Gone, Training, Starts, Reports
<1>3. QueueTypeOK
  <2>1. /\ calls \in [Calls -> CallState] /\ worker \in [Workers -> WorkerState]
        /\ activeWorkers \in [Sessions -> Workers \cup {Undefined}]
    BY DEF QueueInit, CallState, WorkerState
  <2>2. /\ readyWorkers \in Seq(Workers \cup {Undefined}) /\ toMaster \in Seq(Message)
        /\ canceled \in Seq(Workers) /\ cancels \subseteq [s : Sessions, w : Workers] /\ handlers \in Nat
    BY DEF QueueInit
  <2>. QED BY <1>1, <2>1, <2>2 DEF QueueTypeOK, CallState, WorkerState
<1>4. QueueTypes
  <2>1. readyWorkers \in Seq(Workers)
    BY DEF QueueInit
  <2>. QED BY <1>1, <1>3, <2>1 DEF QueueTypes
<1>5. CallsKnown
  BY <1>1 DEF CallsKnown, StartedOnce, Pending
<1>6. WorkersApart
  BY <1>1, <1>2 DEF WorkersApart, IsInjective
<1>7. Introductions /\ Creations
  BY <1>1, <1>2 DEF Introductions, Creations
<1>8. Kills /\ NoneLost /\ BusyMeansTraining
  BY <1>1, <1>2 DEF Kills, NoneLost, BusyMeansTraining
<1>9. OneTraining /\ OwnOutput
  BY <1>1, <1>2 DEF OneTraining, OwnOutput, Single, Owned
<1>10. TrainingsHeard /\ CancelsHeard
  BY <1>1, <1>2 DEF TrainingsHeard, CancelsHeard
<1>. QED BY <1>4, <1>5, <1>6, <1>7, <1>8, <1>9, <1>10 DEF QueueInv

LEMMA QueueInvStays == QueueInv /\ UNCHANGED queueVars => QueueInv'
<1> SUFFICES ASSUME QueueInv, UNCHANGED queueVars PROVE QueueInv'
  OBVIOUS
<1>1. /\ UNCHANGED <<readyWorkers, activeWorkers, calls, cancels, toMaster>>
      /\ UNCHANGED <<canceled, worker, handlers, crashed, failed, robbed>>
  BY DEF queueVars, web, histories
<1>2. QueueTypes' /\ CallsKnown'
  BY <1>1 DEF QueueInv, QueueTypes, QueueTypeOK, CallsKnown, StartedOnce, Pending
<1>3. WorkersApart' /\ Introductions'
  BY <1>1 DEF QueueInv, WorkersApart, Introductions, Introduced, Coming, IsReady
<1>4. Creations' /\ Kills'
  BY <1>1 DEF QueueInv, Creations, Waits, Kills, Left, Gone, Introduced, Coming, IsReady, Training
<1>5. NoneLost' /\ BusyMeansTraining'
  BY <1>1 DEF QueueInv, NoneLost, BusyMeansTraining, Gone, Coming, IsReady, Training
<1>6. OneTraining'
  BY <1>1 DEF QueueInv, OneTraining, Single, Owned, Current, Starts, Reports, Gone, Left, IsReady, Training
<1>7. OwnOutput' /\ TrainingsHeard' /\ CancelsHeard'
  BY <1>1 DEF QueueInv, OwnOutput, TrainingsHeard, CancelsHeard, Starts, Gone, Training
<1>. QED BY <1>2, <1>3, <1>4, <1>5, <1>6, <1>7 DEF QueueInv

\* What is true of the queue at all times, as long as no session is started
\* again while its worker is being created or a cancel of it waits: the
\* inductive invariant.
THEOREM QueueInvHolds ==
  ASSUME ~ Impatient
  PROVE  QueueSpec => []QueueInv
<1>1. QueueInit => QueueInv
  BY QueueInvInit
<1>2. ASSUME QueueInv, QueueNext PROVE QueueInv'
  <2>1. QueueStep
    BY <1>2, NextDoes
  <2>. QED BY <1>2, <2>1, QueueTypesKept, CallsKnownKept, WorkersApartKept, IntroductionsKept,
              CreationsKept, KillsKept, NoneLostKept, BusyKept, OneTrainingKept, OwnOutputKept,
              TrainingsHeardKept, CancelsHeardKept
           DEF QueueInv
<1>3. QueueInv /\ [QueueNext]_queueVars => QueueInv'
  BY <1>2, QueueInvStays
<1>. QED BY <1>1, <1>3, PTL DEF QueueSpec

\* No worker is given to two sessions at a time, and a ready one can be given
\* training, unless it crashed or a cancel of it waits (TrainingWorkerQueue).
THEOREM WorkersInvHolds ==
  ASSUME ~ Impatient
  PROVE  QueueSpec => []WorkersInv
<1>1. ASSUME QueueInv PROVE WorkersInv
  <2>1. ASSUME NEW k \in DOMAIN readyWorkers
        PROVE  /\ readyWorkers[k] # Undefined
               /\ \A s \in Sessions : activeWorkers[s] # readyWorkers[k]
               /\ \/ Alive(readyWorkers[k])
                  \/ readyWorkers[k] \in crashed
                  \/ \E x \in cancels : x.w = readyWorkers[k]
    <3>1. PICK w \in Workers : readyWorkers[k] = w
      BY <1>1, QueueParts, SeqParts DEF QueueInv
    <3>2. IsReady(w)
      BY <3>1 DEF IsReady
    <3>3. w # Undefined /\ \A s \in Sessions : activeWorkers[s] # w
      BY <1>1, <3>2, WorkersAreNumbers DEF QueueInv, WorkersApart
    <3>4. Introduced(w)
      BY <1>1, <3>2 DEF QueueInv, Introductions
    <3>5. CASE worker[w].at = "up"
      BY <3>1, <3>3, <3>5 DEF Alive
    <3>6. CASE worker[w].at \in {"killed", "dead"}
      <4>1. w \in crashed \/ \E x \in cancels : x.w = w
        BY <1>1, <3>2, <3>6 DEF QueueInv, Kills, Gone, Left
      <4>. QED BY <3>1, <3>3, <4>1
    <3>. QED BY <3>4, <3>5, <3>6 DEF Introduced
  <2>2. IsInjective(readyWorkers) /\ QueueTypeOK
        /\ \A s, t \in Sessions : s # t /\ activeWorkers[s] = activeWorkers[t] => activeWorkers[s] = Undefined
    BY <1>1 DEF QueueInv, QueueTypes, WorkersApart
  <2>. QED BY <2>1, <2>2 DEF WorkersInv, WorkersNotShared
<1>. QED BY <1>1, QueueInvHolds, PTL

\* No worker that waits for work is forgotten, and a session that is refused as
\* already started is being trained, or its worker is gone.
THEOREM WorkersAccountedForHolds ==
  ASSUME ~ Impatient
  PROVE  QueueSpec => []WorkersAccountedFor
<1>1. ASSUME QueueInv PROVE WorkersAccountedFor
  <2>1. ASSUME NEW w \in Workers, worker[w].at = "up", worker[w].out = <<>>
        PROVE  w \in ToSet(readyWorkers) \/ \E s \in Sessions : activeWorkers[s] = w
    <3>1. ~ Coming(w)
      BY <2>1 DEF Coming
    <3>2. IsReady(w) \/ \E s \in Sessions : activeWorkers[s] = w
      BY <1>1, <2>1, <3>1 DEF QueueInv, NoneLost
    <3>. QED BY <3>2 DEF IsReady, ToSet
  <2>2. NoWorkerForgotten
    BY <2>1 DEF NoWorkerForgotten
  <2>3. BusyMeansTraining
    BY <1>1 DEF QueueInv
  <2>. QED BY <2>2, <2>3 DEF WorkersAccountedFor
<1>. QED BY <1>1, QueueInvHolds, PTL

\* A training that resolves does so with its own output, unless a training
\* failed on that worker before (startTraining, training_done).
THEOREM OwnOutputHolds ==
  ASSUME ~ Impatient
  PROVE  QueueSpec => []OwnOutput
<1>1. QueueInv => OwnOutput
  BY DEF QueueInv
<1>. QED BY <1>1, QueueInvHolds, PTL

\* When all is quiet, every training has settled whose worker lives, and every
\* cancel, but those whose answer another exit took (killTrainingWorker).
THEOREM NothingHangsHolds ==
  ASSUME ~ Impatient
  PROVE  QueueSpec => []NothingHangs
<1>1. ASSUME QueueInv, Quiet PROVE TrainingsSettle /\ CancelsResolve
  <2>1. /\ \A w \in Workers : Starts(w) = {} /\ worker[w].jobs = {} /\ worker[w].out = <<>>
        /\ \A w \in Workers : worker[w].at # "killed"
        /\ \A k \in DOMAIN toMaster : FALSE
        /\ \A k \in DOMAIN canceled : FALSE
    BY <1>1 DEF Quiet, Starts
  <2>2. ASSUME NEW c \in Calls, calls[c].at = "train" PROVE Gone(calls[c].w)
    <3>1. PICK w \in Workers : calls[c].w = w
      BY <1>1, <2>2 DEF QueueInv, CallsKnown
    <3>2. c \in Training(w)
      BY <2>2, <3>1 DEF Training
    <3>. QED BY <1>1, <2>1, <3>1, <3>2 DEF QueueInv, TrainingsHeard
  <2>3. ASSUME NEW x \in cancels PROVE x.w \in robbed
    <3>1. x.w \in Workers
      BY <1>1, QueueParts DEF QueueInv
    <3>. QED BY <1>1, <2>1, <3>1 DEF QueueInv, CancelsHeard
  <2>. QED BY <2>2, <2>3 DEF TrainingsSettle, CancelsResolve
<1>2. QueueInv => NothingHangs
  BY <1>1 DEF NothingHangs, TrainingsSettle, CancelsResolve
<1>. QED BY <1>2, QueueInvHolds, PTL
=============================================================================
