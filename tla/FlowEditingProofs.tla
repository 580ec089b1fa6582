--------------------------- MODULE FlowEditingProofs ---------------------------
(* The flow mutex, what loads answer and what the caches hold, for any flows, *)
(* editors, loaders and number of operations.                                 *)
EXTENDS FlowEditing, TLAPS

-----------------------------------------------------------------------------
(* Operations. *)

\* What Goes and the marks of lateness make of a request is a request, which
\* differs from it in that field only.
LEMMA RequestMoves ==
  ASSUME NEW r \in Request
  PROVE  /\ \A at \in Stages :
              /\ [r EXCEPT !.at = at] \in Request
              /\ [r EXCEPT !.at = at, !.late = FALSE] \in Request
              /\ [r EXCEPT !.at = at].at = at
              /\ [r EXCEPT !.at = at].kind = r.kind
              /\ [r EXCEPT !.at = at].by = r.by
              /\ [r EXCEPT !.at = at].file = r.file
         /\ [r EXCEPT !.late = TRUE] \in Request
         /\ [r EXCEPT !.late = TRUE].late
         /\ [r EXCEPT !.late = TRUE].at = r.at
         /\ [r EXCEPT !.late = TRUE].kind = r.kind
         /\ [r EXCEPT !.late = TRUE].by = r.by
         /\ [r EXCEPT !.late = TRUE].file = r.file
BY DEF Request

\* A request is a record that is under way, unlike what is new or over.
LEMMA RequestFields ==
  ASSUME NEW r \in Request
  PROVE  /\ r.at \in Stages /\ r.at \notin {"new", "over"}
         /\ r.kind \in Kinds /\ r.by \in Editors \cup {Nobody}
         /\ r.file \in Files /\ r.late \in BOOLEAN
BY DEF Request, Stages

\* An operation that is neither new nor over is a request.
LEMMA UnderWay ==
  ASSUME TypeOK, NEW i \in Ops
  PROVE  Resting(i) <=> op[i] \notin Request
<1>1. op[i] \in Request \cup {[at |-> "new"], Over}
  BY DEF TypeOK
<1>2. CASE op[i] \in Request
  BY <1>2, RequestFields DEF Resting
<1>3. CASE op[i] \in {[at |-> "new"], Over}
  <2>1. Resting(i)
    BY <1>3 DEF Resting, Over
  <2>. QED BY <2>1, RequestFields DEF Resting
<1>. QED BY <1>1, <1>2, <1>3

\* Two who have set the mutex of a flow and are not late would both own it.
LEMMA OwnersExclude == SetIsOwned => OneSaverPerFlow
<1> SUFFICES ASSUME SetIsOwned, NEW i \in Ops, NEW j \in Ops, Saving(i), Saving(j),
                    op[i].file = op[j].file, ~ op[i].late, ~ op[j].late
             PROVE  op[i].by = op[j].by
  BY DEF OneSaverPerFlow
<1>1. mutex[op[i].file] = [by |-> op[i].by, live |-> TRUE]
  BY DEF SetIsOwned
<1>2. mutex[op[i].file] = [by |-> op[j].by, live |-> TRUE]
  BY DEF SetIsOwned
<1>3. [by |-> op[i].by, live |-> TRUE].by = [by |-> op[j].by, live |-> TRUE].by
  BY <1>1, <1>2
<1>. QED BY <1>3

\* Goes is a move of one request.
LEMMA GoesMoves ==
  ASSUME TypeOK, NEW i \in Ops, op[i] \in Request, NEW at \in Stages \cup {"over"}, Goes(i, at)
  PROVE  /\ op' \in [Ops -> Request \cup {[at |-> "new"], Over}]
         /\ \A j \in Ops \ {i} : op'[j] = op[j]
         /\ IF at = "over" THEN op'[i] = Over
            ELSE /\ op'[i] \in Request
                 /\ op'[i].at = at
                 /\ op'[i].kind = op[i].kind
                 /\ op'[i].by = op[i].by
                 /\ op'[i].file = op[i].file
<1>0. op \in [Ops -> Request \cup {[at |-> "new"], Over}]
  BY DEF TypeOK
<1>1. CASE at = "over"
  <2>1. op' = [op EXCEPT ![i] = Over]
    BY <1>1 DEF Goes
  <2>. QED BY <1>0, <1>1, <2>1
<1>2. CASE at # "over"
  <2> DEFINE r == [op[i] EXCEPT !.at = at, !.late = FALSE]
  <2>1. op' = [op EXCEPT ![i] = r]
    BY <1>2 DEF Goes
  <2>2. r \in Request
    BY <1>2, RequestMoves
  <2>3. /\ r.at = at /\ r.kind = op[i].kind /\ r.by = op[i].by
        /\ r.file = op[i].file
    BY DEF Request
  <2> HIDE DEF r
  <2>. QED BY <1>0, <1>2, <2>1, <2>2, <2>3
<1>. QED BY <1>1, <1>2

\* An operation whose next step is known is a request.
LEMMA AtStage ==
  ASSUME TypeOK, NEW i \in Ops, op[i].at \in Stages
  PROVE  op[i] \in Request
BY UnderWay DEF Resting, Stages

-----------------------------------------------------------------------------
(* The mutex. *)

\* A step that leaves the mutex alone, and after which the operation has not just
\* tested it, and does not begin to save.
LEMMA MutexUntouched ==
  ASSUME TypeOK, TypeOK', RequestsSound, TestedIsFree, SetIsOwned,
         mutex' = mutex, NEW i \in Ops,
         \A j \in Ops \ {i} : op'[j] = op[j],
         \/ op'[i] \notin Request
         \/ /\ op'[i].at # "granted"
            /\ op'[i].at = "write" => op'[i].kind # "update"
            /\ op'[i].kind \in {"update", "insert"} => op'[i].by # Nobody
            /\ op'[i].at \in {"list", "remove"} => op'[i].kind # "update"
  PROVE  RequestsSound' /\ TestedIsFree' /\ SetIsOwned'
<1>0. ASSUME NEW j \in Ops PROVE Resting(j)' <=> op'[j] \notin Request
  <2>1. op'[j] \in Request \cup {[at |-> "new"], Over}
    BY DEF TypeOK
  <2>. QED BY <2>1, RequestFields DEF Resting, Over
<1>1. ASSUME NEW j \in Ops, j # i
      PROVE  /\ op'[j] = op[j]
             /\ Resting(j)' <=> Resting(j)
             /\ Saving(j)' <=> Saving(j)
  BY <1>1 DEF Resting, Saving, Is
<1>2. ~ Saving(i)' /\ (op'[i].at # "granted")
  BY <1>0 DEF Saving, Is, Resting, Over, TypeOK
<1>3. RequestsSound'
  BY <1>0, <1>1 DEF RequestsSound
<1>4. TestedIsFree'
  BY <1>1, <1>2 DEF TestedIsFree, MutexFree
<1>5. SetIsOwned'
  BY <1>1, <1>2 DEF SetIsOwned
<1>. QED BY <1>3, <1>4, <1>5

-----------------------------------------------------------------------------
(* Types. *)

\* What the steps of the Ghost service preserve.
LEMMA GhostMoves ==
  ASSUME GhostTypeOK(Contents)
  PROVE  /\ \A f \in Files, v \in Contents : DriverUpsert(f, v) /\ db' = db =>
              stored' \in [Files -> Contents \cup {Absent, Deleted}] /\ notices' \subseteq Files
              /\ (db' => notices' = {})
         /\ \A fs \in SUBSET Files : DriverDelete(fs) /\ db' = db =>
              stored' \in [Files -> Contents \cup {Absent, Deleted}] /\ notices' \subseteq Files
              /\ (db' => notices' = {})
         /\ \A f, to \in Files : DriverMove(f, to) /\ db' = db =>
              stored' \in [Files -> Contents \cup {Absent, Deleted}] /\ notices' \subseteq Files
              /\ (db' => notices' = {})
<1> USE DEF GhostTypeOK, Notices
<1>1. ASSUME NEW f \in Files, NEW v \in Contents, DriverUpsert(f, v), db' = db
      PROVE  stored' \in [Files -> Contents \cup {Absent, Deleted}] /\ notices' \subseteq Files
             /\ (db' => notices' = {})
  BY <1>1 DEF DriverUpsert
<1>2. ASSUME NEW fs \in SUBSET Files, DriverDelete(fs), db' = db
      PROVE  stored' \in [Files -> Contents \cup {Absent, Deleted}] /\ notices' \subseteq Files
             /\ (db' => notices' = {})
  BY <1>2 DEF DriverDelete
<1>3. ASSUME NEW f \in Files, NEW to \in Files, DriverMove(f, to), db' = db
      PROVE  stored' \in [Files -> Contents \cup {Absent, Deleted}] /\ notices' \subseteq Files
             /\ (db' => notices' = {})
  BY <1>3 DEF DriverMove
<1>. QED BY <1>1, <1>2, <1>3

\* What the steps of a load make of the calls.
LEMMA LoadMoves ==
  ASSUME load \in [Loaders -> Call], NEW l \in Loaders, NEW f \in Files
  PROVE  /\ \A v \in Contents \cup {Absent} : ReadFails(l, f, v) => load' \in [Loaders -> Call]
         /\ \A at \in {"none", "lookUp", "getObject", "getBuffer", "read", "fillBuffer", "fillObject", "done"},
               v \in Contents \cup {Absent} :
              Reads(l, f, at, v) => load' \in [Loaders -> Call]
         /\ load[l].file[f].got \in Contents \cup {Absent}
<1>0. load[l] \in Call /\ load[l].file \in [Files -> Read] /\ load[l].file[f] \in Read
  BY DEF Call
<1>1. ASSUME NEW v \in Contents \cup {Absent}, ReadFails(l, f, v) PROVE load' \in [Loaders -> Call]
  <2> DEFINE done == [at |-> "done", got |-> v]
             file == [load[l].file EXCEPT ![f] = done]
             c == [load[l] EXCEPT !.file = file, !.at = "empty"]
  <2>1. done \in Read
    BY DEF Read
  <2> HIDE DEF done
  <2>2. file \in [Files -> Read]
    BY <1>0, <2>1
  <2>3. load' = [load EXCEPT ![l] = c]
    BY <1>1, Zenon DEF ReadFails, done
  <2> HIDE DEF file
  <2>4. c \in Call
    BY <1>0, <2>2 DEF Call
  <2> HIDE DEF c
  <2>. QED BY <2>3, <2>4
<1>2. ASSUME NEW at \in {"none", "lookUp", "getObject", "getBuffer", "read", "fillBuffer", "fillObject", "done"},
             NEW v \in Contents \cup {Absent}, Reads(l, f, at, v)
      PROVE  load' \in [Loaders -> Call]
  <2> DEFINE got == [at |-> at, got |-> v]
             file == [load[l].file EXCEPT ![f] = got]
             c == [load[l] EXCEPT !.file = file]
  <2>1. got \in Read
    BY DEF Read
  <2> HIDE DEF got
  <2>2. file \in [Files -> Read]
    BY <1>0, <2>1
  <2>3. load' = [load EXCEPT ![l] = c]
    BY <1>2, Zenon DEF Reads, got
  <2> HIDE DEF file
  <2>4. c \in Call
    BY <1>0, <2>2 DEF Call
  <2> HIDE DEF c
  <2>. QED BY <2>3, <2>4
<1>3. load[l].file[f].got \in Contents \cup {Absent}
  BY <1>0 DEF Read
<1>. QED BY <1>1, <1>2, <1>3

\* The operations stay operations.
LEMMA OpsKept ==
  ASSUME TypeOK, NEW i \in Ops, OpStep(i)
  PROVE  op' \in [Ops -> Request \cup {[at |-> "new"], Over}]
<1>0. op \in [Ops -> Request \cup {[at |-> "new"], Over}]
  BY DEF TypeOK
<1>s. {"test", "granted", "list", "write", "remove", "invalidateObject", "invalidateBuffer", "clear"} \subseteq Stages
  BY DEF Stages
<1>1. CASE Begin(i)
  <2>1. PICK kind \in Kinds, e \in Editors \cup {Nobody}, f \in Files, to \in Files :
          /\ (e # Nobody) = (kind \in {"update", "insert"})
          /\ kind = "disk" => ~ db
          /\ (kind = "rename") = (f # to)
          /\ op' = [op EXCEPT ![i] = [at |-> First(kind), kind |-> kind, by |-> e,
                                      file |-> f, to |-> to, late |-> FALSE]]
    BY <1>1, Zenon DEF Begin
  <2>2. First(kind) \in Stages
    BY DEF First, Kinds, Stages
  <2>3. [at |-> First(kind), kind |-> kind, by |-> e, file |-> f, to |-> to, late |-> FALSE] \in Request
    BY <2>2 DEF Request
  <2>. QED BY <1>0, <2>1, <2>3
<1>2. CASE CheckListing(i)
  <2>1. op[i] \in Request
    BY <1>2, <1>s, AtStage DEF CheckListing
  <2>. QED BY <1>2, <1>s, <2>1, GoesMoves DEF CheckListing
<1>3. CASE TestMutex(i)
  <2>1. op[i] \in Request
    BY <1>3, <1>s, AtStage DEF TestMutex
  <2>. QED BY <1>3, <1>s, <2>1, GoesMoves DEF TestMutex
<1>4. CASE SetMutex(i)
  <2>1. op[i] \in Request
    BY <1>4, <1>s, AtStage DEF SetMutex
  <2>2. ASSUME NEW j \in Ops, Overtakes(i, j) PROVE op[j] \in Request
    BY <2>2, <1>s, AtStage DEF Overtakes, Saving
  <2> DEFINE next(j) == IF j = i THEN IF Is(i, "insert") THEN Over ELSE [op[i] EXCEPT !.at = "write"]
                        ELSE IF Overtakes(i, j) THEN [op[j] EXCEPT !.late = TRUE]
                        ELSE op[j]
  <2>3. op' = [j \in Ops |-> next(j)]
    BY <1>4 DEF SetMutex
  <2>4. ASSUME NEW j \in Ops PROVE next(j) \in Request \cup {[at |-> "new"], Over}
    BY <1>0, <1>s, <2>1, <2>2, RequestMoves
  <2> HIDE DEF next
  <2>. QED BY <2>3, <2>4
<1>5. CASE Write(i)
  <2>1. op[i] \in Request
    BY <1>5, <1>s, AtStage DEF Write
  <2>. QED BY <1>5, <1>s, <2>1, GoesMoves DEF Write
<1>6. CASE Delete(i)
  <2>1. op[i] \in Request
    BY <1>6, <1>s, AtStage DEF Delete
  <2>. QED BY <1>6, <1>s, <2>1, GoesMoves DEF Delete
<1>7. CASE Move(i)
  <2>1. op[i] \in Request
    BY <1>7, <1>s, AtStage DEF Move
  <2>. QED BY <1>7, <1>s, <2>1, GoesMoves DEF Move
<1>8. CASE RemoveFolder(i)
  <2>1. op[i] \in Request
    BY <1>8, <1>s, AtStage DEF RemoveFolder
  <2>. QED BY <1>8, <1>s, <2>1, GoesMoves DEF RemoveFolder
<1>9. CASE InvalidateObject(i)
  <2>1. op[i] \in Request
    BY <1>9, <1>s, AtStage DEF InvalidateObject
  <2>. QED BY <1>9, <1>s, <2>1, GoesMoves DEF InvalidateObject
<1>10. CASE InvalidateBuffer(i)
  <2>1. op[i] \in Request
    BY <1>10, <1>s, AtStage DEF InvalidateBuffer
  <2>. QED BY <1>10, <1>s, <2>1, GoesMoves DEF InvalidateBuffer
<1>11. CASE Clear(i)
  <2>1. op[i] \in Request
    BY <1>11, <1>s, AtStage DEF Clear
  <2>. QED BY <1>11, <1>s, <2>1, GoesMoves DEF Clear
<1>. QED BY <1>1, <1>2, <1>3, <1>4, <1>5, <1>6, <1>7, <1>8, <1>9, <1>10, <1>11 DEF OpStep

\* The files of the bot: what the other variables are after a step of an operation.
LEMMA FilesKept ==
  ASSUME TypeOK, NEW i \in Ops, OpStep(i)
  PROVE  /\ GhostTypeOK(Contents)'
         /\ mutex' \in [Files -> [by : Editors \cup {Nobody}, live : BOOLEAN]]
         /\ allFlows' = Unloaded \/ allFlows' \in [Files -> Contents \cup {Absent}]
         /\ load' = load /\ crossed' \subseteq Loaders /\ doubt' \subseteq Files
         /\ listDoubt' \in BOOLEAN
         /\ faults' \in [Contents -> Faults \cup {"none"}]
         /\ mishaps' \in 0..MaxOps
         /\ missed' \subseteq Loaders
<1>0. i \in Contents /\ GhostTypeOK(Contents)
  BY FlowAssumption DEF Ops, Contents, TypeOK
<1>u. ASSUME ghost' = ghost PROVE GhostTypeOK(Contents)'
  BY <1>0, <1>u DEF ghost, GhostTypeOK
<1>s. {"test", "granted", "list", "write", "remove", "invalidateObject", "invalidateBuffer", "clear"} \subseteq Stages
  BY DEF Stages
<1>r. op[i].at \in Stages => op[i].file \in Files /\ op[i].to \in Files /\ op[i].by \in Editors \cup {Nobody}
  BY AtStage DEF Request
<1>1. CASE Begin(i)
  BY <1>1, <1>u DEF Begin, TypeOK
<1>2. CASE CheckListing(i)
  BY <1>2, <1>u DEF CheckListing, TypeOK
<1>3. CASE TestMutex(i)
  BY <1>3, <1>u DEF TestMutex, TypeOK
<1>4. CASE SetMutex(i)
  BY <1>4, <1>u, <1>s, <1>r DEF SetMutex, TypeOK
<1>5. CASE Write(i)
  <2>1. /\ stored' \in [Files -> Contents \cup {Absent, Deleted}] /\ notices' \subseteq Files
        /\ (db' => notices' = {})
    BY <1>0, <1>5, <1>s, <1>r, GhostMoves DEF Write
  <2>2. GhostTypeOK(Contents)'
    BY <1>0, <1>5, <2>1 DEF Write, GhostTypeOK
  <2>3. faults' \in [Contents -> Faults \cup {"none"}] /\ mishaps' \in 0..MaxOps
    BY <1>5, FlowAssumption DEF Write, Mishap, TypeOK
  <2>. QED BY <1>5, <1>s, <1>r, <2>2, <2>3 DEF Write, Touch, TypeOK
<1>6. CASE Delete(i)
  <2>1. /\ stored' \in [Files -> Contents \cup {Absent, Deleted}] /\ notices' \subseteq Files
        /\ (db' => notices' = {})
    <3>1. CASE CanDelete(op[i].file)
      BY <1>0, <1>6, <1>s, <1>r, <3>1, GhostMoves DEF Delete
    <3>2. CASE ~ CanDelete(op[i].file)
      BY <1>0, <1>6, <3>2 DEF Delete, GhostTypeOK
    <3>. QED BY <3>1, <3>2
  <2>2. GhostTypeOK(Contents)'
    BY <1>0, <1>6, <2>1 DEF Delete, GhostTypeOK
  <2>. QED BY <1>6, <1>s, <1>r, <2>2 DEF Delete, Touch, TypeOK
<1>7. CASE Move(i)
  <2>1. /\ stored' \in [Files -> Contents \cup {Absent, Deleted}] /\ notices' \subseteq Files
        /\ (db' => notices' = {})
    <3>1. CASE CanMove(op[i].file, op[i].to)
      BY <1>0, <1>7, <1>s, <1>r, <3>1, GhostMoves DEF Move
    <3>2. CASE ~ CanMove(op[i].file, op[i].to)
      BY <1>0, <1>7, <3>2 DEF Move, GhostTypeOK
    <3>. QED BY <3>1, <3>2
  <2>2. GhostTypeOK(Contents)'
    BY <1>0, <1>7, <2>1 DEF Move, GhostTypeOK
  <2>. QED BY <1>7, <1>s, <1>r, <2>2 DEF Move, Touch, TypeOK
<1>8. CASE RemoveFolder(i)
  <2>1. /\ stored' \in [Files -> Contents \cup {Absent, Deleted}] /\ notices' \subseteq Files
        /\ (db' => notices' = {})
    BY <1>0, <1>8, GhostMoves DEF RemoveFolder
  <2>2. GhostTypeOK(Contents)'
    BY <1>0, <1>8, <2>1 DEF RemoveFolder, GhostTypeOK
  <2>. QED BY <1>8, <2>2 DEF RemoveFolder, Touch, TypeOK
<1>9. CASE InvalidateObject(i)
  <2>1. GhostTypeOK(Contents)'
    BY <1>0, <1>9 DEF InvalidateObject, GhostTypeOK
  <2>. QED BY <1>9, <1>s, <1>r, <2>1 DEF InvalidateObject, Touch, Forget, TypeOK
<1>10. CASE InvalidateBuffer(i)
  <2>1. GhostTypeOK(Contents)'
    BY <1>0, <1>10 DEF InvalidateBuffer, GhostTypeOK
  <2>. QED BY <1>10, <1>s, <1>r, <2>1 DEF InvalidateBuffer, Touch, Forget, TypeOK
<1>11. CASE Clear(i)
  BY <1>11, <1>u DEF Clear, Forget, TypeOK
<1>. QED BY <1>1, <1>2, <1>3, <1>4, <1>5, <1>6, <1>7, <1>8, <1>9, <1>10, <1>11 DEF OpStep

\* A step of a load.
LEMMA LoadsKept ==
  ASSUME TypeOK, NEW l \in Loaders, LoadStep(l)
  PROVE  TypeOK'
<1>0. load \in [Loaders -> Call] /\ load[l] \in Call /\ GhostTypeOK(Contents)
  BY DEF TypeOK
<1>u. ASSUME ghost' = ghost PROVE GhostTypeOK(Contents)'
  BY <1>0, <1>u DEF ghost, GhostTypeOK
<1>e. NoReads \in [Files -> Read]
  BY DEF NoReads, Read
<1>1. CASE Load(l)
  <2>1. load' \in [Loaders -> Call]
    <3> DEFINE c == [at |-> "listing", file |-> NoReads]
    <3>1. c \in Call
      BY <1>e DEF Call
    <3> HIDE DEF c
    <3>2. load' = [load EXCEPT ![l] = c]
      BY <1>1 DEF Load, c
    <3>. QED BY <1>0, <3>1, <3>2
  <2>. QED BY <1>1, <1>u, <2>1 DEF Load, TypeOK
<1>2. CASE List(l)
  <2>1. load' \in [Loaders -> Call]
    <3> DEFINE file == [f \in Files |-> [at |-> IF f \in Listing THEN "lookUp" ELSE "none", got |-> Absent]]
               c == [load[l] EXCEPT !.at = "reading", !.file = file]
    <3>1. file \in [Files -> Read]
      BY DEF Read
    <3>2. load' = [load EXCEPT ![l] = c]
      BY <1>2, Zenon DEF List
    <3> HIDE DEF file
    <3>3. c \in Call
      BY <1>0, <3>1 DEF Call
    <3> HIDE DEF c
    <3>. QED BY <1>0, <3>2, <3>3
  <2>. QED BY <1>2, <1>u, <2>1 DEF List, TypeOK
<1>3. CASE Finish(l)
  <2>1. load' \in [Loaders -> Call]
    <3> DEFINE c == [at |-> "idle", file |-> NoReads]
    <3>1. c \in Call
      BY <1>e DEF Call
    <3> HIDE DEF c
    <3>2. load' = [load EXCEPT ![l] = c]
      BY <1>3 DEF Finish, c
    <3>. QED BY <1>0, <3>1, <3>2
  <2>2. allFlows' \in [Files -> Contents \cup {Absent}]
    <3>1. \A f \in Files : load[l].file[f].got \in Contents \cup {Absent}
      BY <1>0, LoadMoves
    <3>. QED BY <1>3, <3>1 DEF Finish
  <2>. QED BY <1>3, <1>u, <2>1, <2>2 DEF Finish, TypeOK
<1>4. ASSUME NEW f \in Files, LookUp(l, f) PROVE TypeOK'
  <2>1. load' \in [Loaders -> Call]
    BY <1>0, <1>4, LoadMoves DEF LookUp
  <2>. QED BY <1>4, <1>u, <2>1 DEF LookUp, TypeOK
<1>5. ASSUME NEW f \in Files, Get(l, f) PROVE TypeOK'
  <2>1. load' \in [Loaders -> Call]
    BY <1>0, <1>5, LoadMoves DEF Get, GhostTypeOK
  <2>. QED BY <1>5, <1>u, <2>1 DEF Get, TypeOK
<1>6. ASSUME NEW f \in Files, ReadDriver(l, f) PROVE TypeOK'
  <2>1. Exists(f) => stored[f] \in Contents \cup {Absent}
    BY <1>0, FlowAssumption DEF Exists, GhostTypeOK, Deleted, Absent, Contents
  <2>2. load' \in [Loaders -> Call]
    BY <1>0, <1>6, <2>1, LoadMoves DEF ReadDriver
  <2>. QED BY <1>6, <1>u, <2>2 DEF ReadDriver, TypeOK
<1>7. ASSUME NEW f \in Files, FillBuffer(l, f) PROVE TypeOK'
  <2>1. load' \in [Loaders -> Call]
    BY <1>0, <1>7, LoadMoves DEF FillBuffer
  <2>2. GhostTypeOK(Contents)'
    BY <1>0, <1>7, LoadMoves DEF FillBuffer, GhostTypeOK
  <2>. QED BY <1>7, <2>1, <2>2 DEF FillBuffer, Forget, TypeOK
<1>8. ASSUME NEW f \in Files, FillObject(l, f) PROVE TypeOK'
  <2>1. load' \in [Loaders -> Call]
    BY <1>0, <1>8, LoadMoves DEF FillObject
  <2>2. GhostTypeOK(Contents)'
    BY <1>0, <1>8, LoadMoves DEF FillObject, GhostTypeOK
  <2>. QED BY <1>8, <2>1, <2>2 DEF FillObject, Forget, TypeOK
<1>9. ASSUME NEW f \in Files, ParseFails(l, f) PROVE TypeOK'
  <2>1. load' \in [Loaders -> Call]
    BY <1>0, <1>9, LoadMoves DEF ParseFails
  <2>. QED BY <1>9, <1>u, <2>1 DEF ParseFails, TypeOK
<1>10. ASSUME NEW f \in Files, MissUi(l, f) PROVE TypeOK'
  <2>1. load' \in [Loaders -> Call]
    BY <1>0, <1>10, LoadMoves DEF MissUi
  <2>. QED BY <1>10, <1>u, <2>1, FlowAssumption DEF MissUi, Mishap, TypeOK
<1>. QED BY <1>1, <1>2, <1>3, <1>4, <1>5, <1>6, <1>7, <1>8, <1>9, <1>10 DEF LoadStep

\* Time, the watcher and a full cache.
LEMMA RestKept ==
  ASSUME TypeOK, NEW f \in Files, Expire(f) \/ Watch(f) \/ Evict(f)
  PROVE  TypeOK'
<1>0. op \in [Ops -> Request \cup {[at |-> "new"], Over}] /\ GhostTypeOK(Contents)
  BY DEF TypeOK
<1>1. CASE Expire(f)
  <2> DEFINE next(i) == IF Saving(i) /\ op[i].file = f THEN [op[i] EXCEPT !.late = TRUE] ELSE op[i]
  <2>1. op' = [i \in Ops |-> next(i)]
    BY <1>1 DEF Expire
  <2>2. ASSUME NEW i \in Ops PROVE next(i) \in Request \cup {[at |-> "new"], Over}
    <3>1. Saving(i) => op[i] \in Request
      BY AtStage DEF Saving, Stages
    <3>. QED BY <1>0, <3>1, RequestMoves
  <2> HIDE DEF next
  <2>3. op' \in [Ops -> Request \cup {[at |-> "new"], Over}]
    BY <2>1, <2>2
  <2>4. GhostTypeOK(Contents)'
    BY <1>0, <1>1 DEF Expire, ghost, GhostTypeOK
  <2>. QED BY <1>1, <2>3, <2>4 DEF Expire, TypeOK
<1>2. CASE Watch(f)
  <2>1. GhostTypeOK(Contents)'
    BY <1>0, <1>2 DEF Watch, GhostTypeOK
  <2>. QED BY <1>2, <2>1 DEF Watch, Touch, Under, Forget, TypeOK
<1>3. CASE Evict(f)
  <2>1. GhostTypeOK(Contents)'
    BY <1>0, <1>3 DEF Evict, GhostTypeOK
  <2>. QED BY <1>3, <2>1, FlowAssumption DEF Evict, Mishap, TypeOK
<1>. QED BY <1>1, <1>2, <1>3

LEMMA TypesKept == TypeOK /\ [Next]_vars => TypeOK'
<1> SUFFICES ASSUME TypeOK, [Next]_vars PROVE TypeOK'
  OBVIOUS
<1>1. ASSUME NEW i \in Ops, OpStep(i) PROVE TypeOK'
  BY <1>1, OpsKept, FilesKept DEF TypeOK
<1>2. ASSUME NEW l \in Loaders, LoadStep(l) PROVE TypeOK'
  BY <1>2, LoadsKept
<1>3. ASSUME NEW f \in Files, Expire(f) \/ Watch(f) \/ Evict(f) PROVE TypeOK'
  BY <1>3, RestKept
<1>4. CASE UNCHANGED vars
  BY <1>4 DEF vars, ghost, TypeOK, GhostTypeOK
<1>. QED BY <1>1, <1>2, <1>3, <1>4 DEF Next

-----------------------------------------------------------------------------
(* The mutex, step by step. *)

\* What the mutex is about, beside the types.
MutexFacts == RequestsSound /\ TestedIsFree /\ SetIsOwned

LEMMA OpsKeepMutex ==
  ASSUME TypeOK, TypeOK', MutexFacts, NEW i \in Ops, OpStep(i)
  PROVE  MutexFacts'
<1>0. RequestsSound /\ TestedIsFree /\ SetIsOwned
  BY DEF MutexFacts
<1>o. op \in [Ops -> Request \cup {[at |-> "new"], Over}]
  BY DEF TypeOK
<1>n. Over \notin Request
  BY RequestFields DEF Over
<1>s. {"test", "granted", "list", "write", "remove", "invalidateObject", "invalidateBuffer", "clear"} \subseteq Stages
  BY DEF Stages
<1>r. op[i].at \in Stages => /\ op[i] \in Request
                             /\ op[i].kind \in {"update", "insert"} => op[i].by # Nobody
                             /\ op[i].at \in {"list", "remove"} => op[i].kind # "update"
  BY <1>0, AtStage, UnderWay DEF RequestsSound
\* An operation that goes on without the mutex.
<1>g. ASSUME NEW at \in Stages \cup {"over"}, op[i].at \in Stages, Goes(i, at), mutex' = mutex,
             at # "granted", at = "write" => op[i].kind # "update",
             at \notin {"list", "remove"}
      PROVE  MutexFacts'
  <2>1. /\ \A j \in Ops \ {i} : op'[j] = op[j]
        /\ IF at = "over" THEN op'[i] = Over
           ELSE op'[i].at = at /\ op'[i].kind = op[i].kind /\ op'[i].by = op[i].by
    BY <1>g, <1>r, GoesMoves
  <2>. QED BY <1>0, <1>g, <1>n, <1>r, <2>1, MutexUntouched DEF MutexFacts
<1>1. CASE Begin(i)
  <2>1. PICK kind \in Kinds, e \in Editors \cup {Nobody}, f \in Files, to \in Files :
          /\ (e # Nobody) = (kind \in {"update", "insert"})
          /\ kind = "disk" => ~ db
          /\ (kind = "rename") = (f # to)
          /\ op' = [op EXCEPT ![i] = [at |-> First(kind), kind |-> kind, by |-> e,
                                      file |-> f, to |-> to, late |-> FALSE]]
    BY <1>1, Zenon DEF Begin
  <2>2. /\ \A j \in Ops \ {i} : op'[j] = op[j]
        /\ op'[i].at = First(kind) /\ op'[i].kind = kind /\ op'[i].by = e
    BY <1>o, <2>1
  <2>3. /\ First(kind) # "granted"
        /\ First(kind) = "write" => kind # "update"
        /\ First(kind) \in {"list", "remove"} => kind # "update"
    BY DEF First, Kinds
  <2>4. mutex' = mutex
    BY <1>1 DEF Begin
  <2>. QED BY <1>0, <2>1, <2>2, <2>3, <2>4, MutexUntouched DEF MutexFacts
<1>2. CASE CheckListing(i)
  BY <1>2, <1>g, <1>r, <1>s DEF CheckListing
<1>3. CASE TestMutex(i)
  <2>0. op[i] \in Request /\ mutex' = mutex
    BY <1>3, <1>r, <1>s DEF TestMutex
  <2>1. CASE ~ MutexFree(op[i].file, op[i].by)
    BY <1>3, <1>g, <1>s, <2>1 DEF TestMutex
  <2>2. CASE MutexFree(op[i].file, op[i].by)
    <3>1. /\ \A j \in Ops \ {i} : op'[j] = op[j]
          /\ op'[i] \in Request /\ op'[i].at = "granted" /\ op'[i].kind = op[i].kind
          /\ op'[i].by = op[i].by /\ op'[i].file = op[i].file
      BY <1>3, <1>s, <2>0, <2>2, GoesMoves DEF TestMutex
    <3>2. RequestsSound'
      <4>1. ASSUME NEW j \in Ops, j # i PROVE op'[j] = op[j] /\ (Resting(j)' <=> Resting(j))
        BY <3>1, <4>1 DEF Resting
      <4>. QED BY <1>0, <1>3, <1>r, <1>s, <3>1, <4>1 DEF RequestsSound, TestMutex
    <3>3. TestedIsFree'
      BY <1>0, <2>0, <2>2, <3>1 DEF TestedIsFree, MutexFree
    <3>4. SetIsOwned'
      <4>1. ASSUME NEW j \in Ops, j # i PROVE op'[j] = op[j] /\ (Saving(j)' <=> Saving(j))
        BY <3>1, <4>1 DEF Saving, Is, Resting
      <4>2. ~ Saving(i)'
        BY <3>1 DEF Saving
      <4>. QED BY <1>0, <2>0, <4>1, <4>2 DEF SetIsOwned
    <3>. QED BY <3>2, <3>3, <3>4 DEF MutexFacts
  <2>. QED BY <2>1, <2>2
<1>4. CASE SetMutex(i)
  <2> DEFINE f == op[i].file
             e == op[i].by
  <2>0. op[i] \in Request /\ op[i].at = "granted" /\ f \in Files
    BY <1>4, <1>r, <1>s, RequestFields DEF SetMutex
  <2>1. /\ mutex'[f] = [by |-> e, live |-> TRUE]
        /\ \A g \in Files : g # f => mutex'[g] = mutex[g]
    BY <1>4, <2>0 DEF SetMutex, TypeOK
  <2>2. op'[i] = IF Is(i, "insert") THEN Over ELSE [op[i] EXCEPT !.at = "write"]
    BY <1>4 DEF SetMutex
  <2>2a. \/ op'[i] = Over
         \/ op'[i].at = "write" /\ op'[i].by = e /\ op'[i].file = f /\ op'[i].kind = op[i].kind
    BY <2>0, <2>2 DEF Request
  \* Another operation stays where it is, and may have become late.
  <2>3. ASSUME NEW j \in Ops, j # i
        PROVE  /\ op'[j].at = op[j].at
               /\ Resting(j)' <=> Resting(j)
               /\ ~ Resting(j) => /\ op'[j].kind = op[j].kind /\ op'[j].by = op[j].by
                                  /\ op'[j].file = op[j].file
               /\ Saving(j)' <=> Saving(j)
               /\ ~ op'[j].late => ~ Overtakes(i, j) /\ op'[j] = op[j]
    <3>1. op'[j] = IF Overtakes(i, j) THEN [op[j] EXCEPT !.late = TRUE] ELSE op[j]
      BY <1>4, <2>3 DEF SetMutex
    <3>2. Overtakes(i, j) => op[j] \in Request
      BY <1>s, AtStage DEF Overtakes, Saving
    <3>3. CASE Overtakes(i, j)
      <4>1. /\ op'[j].at = op[j].at /\ op'[j].kind = op[j].kind /\ op'[j].by = op[j].by
            /\ op'[j].file = op[j].file /\ op'[j].late
        BY <3>1, <3>2, <3>3, RequestMoves
      <4>. QED BY <4>1 DEF Resting, Saving, Is
    <3>4. CASE ~ Overtakes(i, j)
      BY <3>1, <3>4 DEF Resting, Saving, Is
    <3>. QED BY <3>3, <3>4
  <2>4. RequestsSound'
    <3> SUFFICES ASSUME NEW j \in Ops, ~ Resting(j)'
                 PROVE  /\ op'[j].kind \in {"update", "insert"} => op'[j].by # Nobody
                        /\ op'[j].at \in {"list", "remove"} => op'[j].kind # "update"
      BY DEF RequestsSound
    <3>1. CASE j = i
      <4>1. op'[i] # Over
        BY <3>1 DEF Resting, Over
      <4>. QED BY <1>r, <1>s, <2>0, <2>2a, <3>1, <4>1
    <3>2. CASE j # i
      BY <1>0, <2>3, <3>2 DEF RequestsSound
    <3>. QED BY <3>1, <3>2
  <2>5. TestedIsFree'
    <3> SUFFICES ASSUME NEW j \in Ops, op'[j].at = "granted", ~ op'[j].late
                 PROVE  MutexFree(op[j].file, op[j].by)' /\ op'[j] = op[j]
      BY DEF TestedIsFree, MutexFree
    <3>1. j # i
      BY <2>2a DEF Over
    <3>2. op'[j] = op[j] /\ ~ Overtakes(i, j) /\ op[j] \in Request
      BY <1>s, <2>3, <3>1, AtStage
    <3>3. MutexFree(op[j].file, op[j].by)
      BY <1>0, <3>2 DEF TestedIsFree
    <3>4. CASE op[j].file = f
      BY <2>1, <3>2, <3>4 DEF Overtakes, MutexFree
    <3>5. CASE op[j].file # f
      BY <2>1, <3>2, <3>3, <3>5, RequestFields DEF MutexFree
    <3>. QED BY <3>2, <3>4, <3>5
  <2>6. SetIsOwned'
    <3> SUFFICES ASSUME NEW j \in Ops, Saving(j)', ~ op'[j].late
                 PROVE  mutex'[op'[j].file] = [by |-> op'[j].by, live |-> TRUE]
      BY DEF SetIsOwned
    <3>1. CASE j = i
      <4>1. op'[i] # Over
        BY <3>1 DEF Saving, Over
      <4>. QED BY <2>1, <2>2a, <3>1, <4>1
    <3>2. CASE j # i
      <4>1. op'[j] = op[j] /\ ~ Overtakes(i, j) /\ Saving(j) /\ op[j] \in Request
        BY <1>s, <2>3, <3>2, AtStage DEF Saving
      <4>2. mutex[op[j].file] = [by |-> op[j].by, live |-> TRUE]
        BY <1>0, <4>1 DEF SetIsOwned
      <4>3. CASE op[j].file # f
        BY <2>1, <4>1, <4>2, <4>3, RequestFields
      <4>4. CASE op[j].file = f
        <5>1. op[j].by = e
          <6>1. CASE op[i].late
            BY <4>1, <4>4, <6>1 DEF Overtakes
          <6>2. CASE ~ op[i].late
            <7>1. MutexFree(f, e)
              BY <1>0, <2>0, <6>2 DEF TestedIsFree
            <7>2. mutex[f].by = op[j].by /\ mutex[f].live
              BY <4>2, <4>4
            <7>3. op[j].by # Nobody
              BY <1>0, <4>1 DEF RequestsSound, Saving, Is
            <7>. QED BY <7>1, <7>2, <7>3 DEF MutexFree
          <6>. QED BY <6>1, <6>2
        <5>. QED BY <2>1, <4>1, <4>4, <5>1
      <4>. QED BY <4>3, <4>4
    <3>. QED BY <3>1, <3>2
  <2>. QED BY <2>4, <2>5, <2>6 DEF MutexFacts
<1>5. CASE Write(i)
  BY <1>5, <1>g, <1>s DEF Write
<1>6. CASE Delete(i)
  BY <1>6, <1>g, <1>s DEF Delete
<1>7. CASE Move(i)
  BY <1>7, <1>g, <1>s DEF Move
<1>8. CASE RemoveFolder(i)
  BY <1>8, <1>g, <1>r, <1>s DEF RemoveFolder
<1>9. CASE InvalidateObject(i)
  BY <1>9, <1>g, <1>s DEF InvalidateObject
<1>10. CASE InvalidateBuffer(i)
  BY <1>10, <1>g, <1>s DEF InvalidateBuffer
<1>11. CASE Clear(i)
  BY <1>11, <1>g, <1>s DEF Clear
<1>. QED BY <1>1, <1>2, <1>3, <1>4, <1>5, <1>6, <1>7, <1>8, <1>9, <1>10, <1>11 DEF OpStep

\* A mutex that expires is free, and those who had it are late.
LEMMA ExpiryKeepsMutex ==
  ASSUME TypeOK, MutexFacts, NEW f \in Files, Expire(f)
  PROVE  MutexFacts'
<1>0. RequestsSound /\ TestedIsFree /\ SetIsOwned
  BY DEF MutexFacts
<1>1. /\ mutex'[f].by = mutex[f].by /\ ~ mutex'[f].live
      /\ \A g \in Files : g # f => mutex'[g] = mutex[g]
  BY DEF Expire, TypeOK
<1>2. ASSUME NEW j \in Ops
      PROVE  /\ op'[j].at = op[j].at
             /\ Resting(j)' <=> Resting(j)
             /\ ~ Resting(j) => /\ op'[j].kind = op[j].kind /\ op'[j].by = op[j].by
                                /\ op'[j].file = op[j].file
             /\ Saving(j)' <=> Saving(j)
             /\ ~ op'[j].late => ~ (Saving(j) /\ op[j].file = f) /\ op'[j] = op[j]
  <2>1. op'[j] = IF Saving(j) /\ op[j].file = f THEN [op[j] EXCEPT !.late = TRUE] ELSE op[j]
    BY DEF Expire
  <2>2. Saving(j) => op[j] \in Request
    BY AtStage DEF Saving, Stages
  <2>3. CASE Saving(j) /\ op[j].file = f
    BY <2>1, <2>2, <2>3, RequestMoves DEF Resting, Saving, Is
  <2>4. CASE ~ (Saving(j) /\ op[j].file = f)
    BY <2>1, <2>4 DEF Resting, Saving, Is
  <2>. QED BY <2>3, <2>4
<1>3. RequestsSound'
  BY <1>0, <1>2 DEF RequestsSound
<1>4. TestedIsFree'
  <2> SUFFICES ASSUME NEW j \in Ops, op'[j].at = "granted", ~ op'[j].late
               PROVE  MutexFree(op[j].file, op[j].by)' /\ op'[j] = op[j]
    BY DEF TestedIsFree, MutexFree
  <2>1. op'[j] = op[j] /\ op[j] \in Request
    BY <1>2, AtStage DEF Stages
  <2>2. MutexFree(op[j].file, op[j].by)
    BY <1>0, <2>1 DEF TestedIsFree
  <2>. QED BY <1>1, <2>1, <2>2, RequestFields DEF MutexFree
<1>5. SetIsOwned'
  <2> SUFFICES ASSUME NEW j \in Ops, Saving(j)', ~ op'[j].late
               PROVE  mutex'[op'[j].file] = [by |-> op'[j].by, live |-> TRUE]
    BY DEF SetIsOwned
  <2>1. op'[j] = op[j] /\ op[j].file # f /\ Saving(j) /\ op[j] \in Request
    BY <1>2, AtStage DEF Saving, Stages
  <2>. QED BY <1>0, <1>1, <2>1, RequestFields DEF SetIsOwned
<1>. QED BY <1>3, <1>4, <1>5 DEF MutexFacts

LEMMA MutexStep == MutexInv /\ [Next]_vars => MutexInv'
<1> SUFFICES ASSUME MutexInv, [Next]_vars PROVE MutexInv'
  OBVIOUS
<1>0. TypeOK /\ TypeOK' /\ MutexFacts
  BY TypesKept DEF MutexInv, MutexFacts
<1>1. ASSUME op' = op, mutex' = mutex PROVE MutexFacts'
  BY <1>0, <1>1 DEF MutexFacts, RequestsSound, TestedIsFree, SetIsOwned, MutexFree, Saving, Is, Resting
<1>2. ASSUME NEW i \in Ops, OpStep(i) PROVE MutexFacts'
  BY <1>0, <1>2, OpsKeepMutex
<1>3. ASSUME NEW l \in Loaders, LoadStep(l) PROVE MutexFacts'
  BY <1>1, <1>3 DEF LoadStep, Load, List, Finish, LookUp, Get, ReadDriver, FillBuffer, FillObject,
                  ParseFails, MissUi
<1>4. ASSUME NEW f \in Files, Expire(f) PROVE MutexFacts'
  BY <1>0, <1>4, ExpiryKeepsMutex
<1>5. ASSUME NEW f \in Files, Watch(f) \/ Evict(f) PROVE MutexFacts'
  BY <1>1, <1>5 DEF Watch, Evict
<1>6. ASSUME UNCHANGED vars PROVE MutexFacts'
  BY <1>1, <1>6 DEF vars
<1>7. MutexFacts'
  BY <1>2, <1>3, <1>4, <1>5, <1>6 DEF Next
<1>8. OneSaverPerFlow'
  <2>1. SetIsOwned'
    BY <1>7 DEF MutexFacts
  <2>. QED BY <2>1, OwnersExclude, PTL
<1>. QED BY <1>0, <1>7, <1>8 DEF MutexInv, MutexFacts

LEMMA MutexStart == Init => MutexInv
<1> SUFFICES ASSUME Init PROVE MutexInv
  OBVIOUS
<1>1. GhostTypeOK(Contents)
  BY FlowAssumption DEF Init, GhostInit, GhostTypeOK, Contents
<1>2. NoReads \in [Files -> Read]
  BY DEF NoReads, Read
<1>3. [at |-> "idle", file |-> NoReads] \in Call
  BY <1>2 DEF Call
<1>4. TypeOK
  <2>1. faults \in [Contents -> Faults \cup {"none"}] /\ mishaps \in 0..MaxOps
    BY FlowAssumption DEF Init
  <2>. QED BY <1>1, <1>3, <2>1 DEF Init, TypeOK
<1>5. \A i \in Ops : Resting(i) /\ op[i].at = "new"
  BY DEF Init, Resting
<1>. QED BY <1>4, <1>5 DEF MutexInv, RequestsSound, TestedIsFree, SetIsOwned, OneSaverPerFlow, Saving

\* Two editors are never between the mutex and the file of one flow, unless one
\* of them is late (_testAndLockMutex), whatever the flows, the editors, the
\* loads and the number of operations.
THEOREM MutexInvariance == Spec => []MutexInv
BY MutexStart, MutexStep, PTL DEF Spec

-----------------------------------------------------------------------------
(* What the loads and the caches rely on. *)

\* The copies that a read has looked up are there.
CopyThere(l, f) ==
  LET at == load[l].file[f].at IN
  /\ at = "getObject" => objects[f] # Absent
  /\ at = "getBuffer" => buffers[f] # Absent

\* A load that is idle, or that lists the directory, reads nothing; a read has a value
\* once it has read one; a load that nothing has crossed reads the files that are there,
\* and finds the copies it has looked up, unless they were dropped.
ReadsSound ==
  /\ \A l \in Loaders, f \in Files :
       /\ load[l].at \in {"idle", "listing"} => load[l].file[f].at = "none"
       /\ load[l].file[f].at \in {"fillBuffer", "fillObject"} => load[l].file[f].got # Absent
       /\ load[l].file[f].at \notin {"fillBuffer", "fillObject", "done"} =>
            load[l].file[f].got = Absent
  /\ \A l \in Loaders \ crossed, f \in Files :
       load[l].at = "reading" => (load[l].file[f].at = "none" <=> ~ Exists(f))
  /\ \A l \in Loaders \ (crossed \cup missed), f \in Files :
       load[l].at = "reading" => CopyThere(l, f)

\* A load that may answer that there are no flows.
AtFault(v) == v \in Contents /\ ~ Sound(v)
Excused(l) == l \in crossed \cup missed \/ \E f \in Files : AtFault(load[l].file[f].got)

\* EmptyOnlyIfCrossed, with what makes it inductive.
EmptyInv == TypeOK /\ ReadsSound /\ EmptyOnlyIfCrossed

\* An operation that has changed f, or may have, and has still to invalidate it.
Invalidates(f, stages) == \E i \in Ops : op[i].at \in stages /\ op[i].file = f

Both == {"invalidateObject", "invalidateBuffer"}

\* A copy of f that is neither in doubt nor about to be invalidated is what is
\* stored: the object, the buffer, the value of a read that comes from the driver,
\* and that of one that may come from the buffer.
FileFresh(f) ==
  /\ objects[f] \notin {Absent, stored[f]} => Invalidates(f, {"invalidateObject"})
  /\ buffers[f] \notin {Absent, stored[f]} => Invalidates(f, Both)
  /\ \A l \in Loaders :
       /\ load[l].file[f].at = "fillBuffer" => load[l].file[f].got = stored[f]
       /\ load[l].file[f].at = "fillObject" /\ load[l].file[f].got # stored[f] =>
            Invalidates(f, Both)
CopiesFresh == \A f \in Files \ doubt : FileFresh(f)

\* What an uncrossed load has gathered is what is stored, as far as it is not in
\* doubt or about to be invalidated.
GatheredFresh ==
  \A l \in Loaders \ crossed, f \in Files :
    load[l].at = "reading" =>
      /\ load[l].file[f].at = "none" => load[l].file[f].got = Absent
      /\ load[l].file[f].at = "done" /\ f \notin doubt =>
           load[l].file[f].got = stored[f] \/ Invalidates(f, Both)

\* The list is what is stored, or in doubt, or it is about to be forgotten.
ListFresh ==
  allFlows # Unloaded /\ ~ listDoubt =>
    \/ \E i \in Ops : op[i].at \in Both \cup {"clear"}
    \/ \A f \in Files : allFlows[f] = IF Exists(f) THEN stored[f] ELSE Absent

\* CachesSettle, with what makes it inductive.
SettleInv == EmptyInv /\ CopiesFresh /\ GatheredFresh /\ ListFresh

-----------------------------------------------------------------------------
(* The loads. *)

\* What the steps of a read do to the calls.
LEMMA ReadEffects ==
  ASSUME load \in [Loaders -> Call], NEW l \in Loaders, NEW f \in Files
  PROVE  /\ \A v : ReadFails(l, f, v) =>
              /\ load'[l].at = "empty"
              /\ load'[l].file[f].at = "done"
              /\ load'[l].file[f].got = v
              /\ \A g \in Files \ {f} : load'[l].file[g] = load[l].file[g]
              /\ \A m \in Loaders \ {l} : load'[m] = load[m]
         /\ \A at, v : Reads(l, f, at, v) =>
              /\ load'[l].at = load[l].at
              /\ load'[l].file[f].at = at
              /\ load'[l].file[f].got = v
              /\ \A g \in Files \ {f} : load'[l].file[g] = load[l].file[g]
              /\ \A m \in Loaders \ {l} : load'[m] = load[m]
<1>0. load[l] \in Call /\ load[l].file \in [Files -> Read] /\ load[l].file[f] \in Read
  BY DEF Call
<1>1. ASSUME NEW v, ReadFails(l, f, v)
      PROVE  /\ load'[l].at = "empty"
             /\ load'[l].file[f].at = "done"
             /\ load'[l].file[f].got = v
             /\ \A g \in Files \ {f} : load'[l].file[g] = load[l].file[g]
             /\ \A m \in Loaders \ {l} : load'[m] = load[m]
  <2> DEFINE done == [at |-> "done", got |-> v]
             file == [load[l].file EXCEPT ![f] = done]
             c == [load[l] EXCEPT !.file = file, !.at = "empty"]
  <2>1. done.at = "done" /\ done.got = v
    OBVIOUS
  <2>2. load' = [load EXCEPT ![l] = c]
    BY <1>1, Zenon DEF ReadFails
  <2> HIDE DEF done
  <2>3. file[f] = done /\ \A g \in Files \ {f} : file[g] = load[l].file[g]
    BY <1>0
  <2> HIDE DEF file
  <2>4. c.at = "empty" /\ c.file = file
    BY <1>0 DEF Call
  <2> HIDE DEF c
  <2>5. load'[l] = c /\ \A m \in Loaders \ {l} : load'[m] = load[m]
    BY <2>2
  <2>. QED BY <2>1, <2>3, <2>4, <2>5
<1>2. ASSUME NEW at, NEW v, Reads(l, f, at, v)
      PROVE  /\ load'[l].at = load[l].at
             /\ load'[l].file[f].at = at
             /\ load'[l].file[f].got = v
             /\ \A g \in Files \ {f} : load'[l].file[g] = load[l].file[g]
             /\ \A m \in Loaders \ {l} : load'[m] = load[m]
  <2> DEFINE got == [at |-> at, got |-> v]
             file == [load[l].file EXCEPT ![f] = got]
             c == [load[l] EXCEPT !.file = file]
  <2>1. got.at = at /\ got.got = v
    OBVIOUS
  <2>2. load' = [load EXCEPT ![l] = c]
    BY <1>2, Zenon DEF Reads
  <2> HIDE DEF got
  <2>3. file[f] = got /\ \A g \in Files \ {f} : file[g] = load[l].file[g]
    BY <1>0
  <2> HIDE DEF file
  <2>4. c.at = load[l].at /\ c.file = file
    BY <1>0 DEF Call
  <2> HIDE DEF c
  <2>5. load'[l] = c /\ \A m \in Loaders \ {l} : load'[m] = load[m]
    BY <2>2
  <2>. QED BY <2>1, <2>3, <2>4, <2>5
<1>. QED BY <1>1, <1>2

\* What begins and ends a load does to the calls.
LEMMA CallEffects ==
  ASSUME load \in [Loaders -> Call], NEW l \in Loaders
  PROVE  /\ \A f \in Files : NoReads[f].at = "none" /\ NoReads[f].got = Absent
         /\ Load(l) => /\ load'[l].at = "listing" /\ load'[l].file = NoReads
                       /\ \A m \in Loaders \ {l} : load'[m] = load[m]
         /\ Finish(l) => /\ load'[l].at = "idle" /\ load'[l].file = NoReads
                         /\ \A m \in Loaders \ {l} : load'[m] = load[m]
         /\ List(l) => /\ load'[l].at = "reading"
                       /\ \A f \in Files : /\ load'[l].file[f].at = IF Exists(f) THEN "lookUp" ELSE "none"
                                           /\ load'[l].file[f].got = Absent
                       /\ \A m \in Loaders \ {l} : load'[m] = load[m]
<1>1. \A f \in Files : NoReads[f].at = "none" /\ NoReads[f].got = Absent
  BY DEF NoReads
<1>2. ASSUME NEW c, load' = [load EXCEPT ![l] = c]
      PROVE  load'[l] = c /\ \A m \in Loaders \ {l} : load'[m] = load[m]
  BY <1>2
<1>3. Load(l) => /\ load'[l].at = "listing" /\ load'[l].file = NoReads
                 /\ \A m \in Loaders \ {l} : load'[m] = load[m]
  BY <1>2 DEF Load
<1>4. Finish(l) => /\ load'[l].at = "idle" /\ load'[l].file = NoReads
                   /\ \A m \in Loaders \ {l} : load'[m] = load[m]
  BY <1>2 DEF Finish
<1>5. ASSUME List(l)
      PROVE  /\ load'[l].at = "reading"
             /\ \A f \in Files : /\ load'[l].file[f].at = IF Exists(f) THEN "lookUp" ELSE "none"
                                 /\ load'[l].file[f].got = Absent
             /\ \A m \in Loaders \ {l} : load'[m] = load[m]
  <2> DEFINE file == [f \in Files |-> [at |-> IF f \in Listing THEN "lookUp" ELSE "none", got |-> Absent]]
             c == [load[l] EXCEPT !.at = "reading", !.file = file]
  <2>1. load' = [load EXCEPT ![l] = c]
    BY <1>5, Zenon DEF List
  <2>2. \A f \in Files : /\ file[f].at = IF Exists(f) THEN "lookUp" ELSE "none"
                         /\ file[f].got = Absent
    BY DEF Listing
  <2> HIDE DEF file
  <2>3. c.at = "reading" /\ c.file = file
    BY DEF Call
  <2> HIDE DEF c
  <2>. QED BY <1>2, <2>1, <2>2, <2>3
<1>. QED BY <1>1, <1>3, <1>4, <1>5

\* The steps of the operations, of time, of the watcher and of a full cache.
OtherStep == (\E i \in Ops : OpStep(i)) \/ (\E f \in Files : Expire(f) \/ Watch(f) \/ Evict(f))

\* Whoever changes the files or the cache, but by adding a copy, crosses every load
\* that is under way; a cache that drops a copy marks it; the others leave the files and
\* the cache alone.  Contents at fault stay so.
LEMMA CrossesOrKeeps ==
  ASSUME TypeOK, OtherStep
  PROVE  /\ load' = load
         /\ \A v \in Contents : ~ Sound(v) => ~ Sound(v)'
         /\ \/ UNCHANGED <<stored, objects, buffers, crossed, missed>>
            \/ crossed' = crossed \cup {l \in Loaders : Active(l)} /\ missed' = missed
            \/ /\ UNCHANGED <<stored, crossed>>
               /\ missed' = missed \cup {l \in Loaders : Active(l)}
<1> DEFINE goal == /\ load' = load
                   /\ \/ UNCHANGED <<stored, objects, buffers, crossed, missed>>
                      \/ crossed' = crossed \cup {l \in Loaders : Active(l)} /\ missed' = missed
                      \/ /\ UNCHANGED <<stored, crossed>>
                         /\ missed' = missed \cup {l \in Loaders : Active(l)}
           kept == \A v \in Contents : ~ Sound(v) => ~ Sound(v)'
<1>k. faults' = faults => kept
  BY DEF Sound
<1>1. ASSUME NEW i \in Ops, OpStep(i) PROVE goal /\ kept
  <2>1. CASE Begin(i) \/ CheckListing(i) \/ TestMutex(i) \/ SetMutex(i) \/ Clear(i)
    BY <2>1, <1>k DEF Begin, CheckListing, TestMutex, SetMutex, Clear, ghost
  <2>2. CASE RemoveFolder(i) \/ InvalidateObject(i) \/ InvalidateBuffer(i)
    BY <2>2, <1>k DEF RemoveFolder, InvalidateObject, InvalidateBuffer, Touch
  <2>3. CASE Delete(i)
    BY <2>3, <1>k DEF Delete, Touch
  <2>4. CASE Move(i)
    BY <2>4, <1>k DEF Move, Touch
  <2>5. CASE Write(i)
    <3>1. goal
      BY <2>5 DEF Write, Touch
    <3>2. \/ faults' = faults
          \/ \E fault \in Faults : faults' = [faults EXCEPT ![i] = fault]
      BY <2>5 DEF Write
    <3>3. kept
      BY <3>2 DEF Sound, Faults, TypeOK
    <3>. QED BY <3>1, <3>3
  <2>. QED BY <1>1, <2>1, <2>2, <2>3, <2>4, <2>5 DEF OpStep
<1>2. ASSUME NEW f \in Files, Expire(f) \/ Watch(f) PROVE goal /\ kept
  BY <1>2, <1>k DEF Expire, Watch, Touch, ghost
<1>3. ASSUME NEW f \in Files, Evict(f) PROVE goal /\ kept
  BY <1>3, <1>k DEF Evict
<1>. QED BY <1>1, <1>2, <1>3 DEF OtherStep

\* A load reports no flows only when it is excused, whatever the operations do.
LEMMA OpsKeepEmpty ==
  ASSUME EmptyInv, OtherStep
  PROVE  ReadsSound' /\ EmptyOnlyIfCrossed'
<1>0. TypeOK /\ ReadsSound /\ EmptyOnlyIfCrossed
  BY DEF EmptyInv
<1>1. /\ load' = load
      /\ \A v \in Contents : ~ Sound(v) => ~ Sound(v)'
      /\ crossed \subseteq crossed' /\ missed \subseteq missed'
  BY <1>0, CrossesOrKeeps
<1>2. EmptyOnlyIfCrossed'
  BY <1>0, <1>1 DEF EmptyOnlyIfCrossed
<1>3. CASE UNCHANGED <<stored, objects, buffers, crossed, missed>>
  BY <1>0, <1>1, <1>2, <1>3 DEF ReadsSound, CopyThere, Exists
<1>4. CASE crossed' = crossed \cup {l \in Loaders : Active(l)} /\ missed' = missed
  BY <1>0, <1>1, <1>2, <1>4 DEF ReadsSound, Active
<1>5. CASE UNCHANGED <<stored, crossed>> /\ missed' = missed \cup {l \in Loaders : Active(l)}
  BY <1>0, <1>1, <1>2, <1>5 DEF ReadsSound, Active, Exists
<1>. QED BY <1>0, <1>3, <1>4, <1>5, CrossesOrKeeps

\* Nor whatever the loads do.
LEMMA LoadsKeepEmpty ==
  ASSUME EmptyInv, NEW l \in Loaders, LoadStep(l)
  PROVE  ReadsSound' /\ EmptyOnlyIfCrossed'
<1>0. /\ load \in [Loaders -> Call]
      /\ ReadsSound /\ EmptyOnlyIfCrossed
  BY DEF EmptyInv, TypeOK
<1>a. /\ Absent = -1
      /\ \A f \in Files : Exists(f) => stored[f] # Absent
  BY FlowAssumption DEF Absent, Exists
<1>e. \A m \in Loaders : load[m].at = "empty" => Excused(m)
  BY <1>0 DEF EmptyOnlyIfCrossed, Excused, AtFault
\* A step of one read: what it has to show of the file it reads.
<1>r. ASSUME NEW f \in Files,
             \A g \in Files \ {f} : load'[l].file[g] = load[l].file[g],
             \A m \in Loaders \ {l} : load'[m] = load[m],
             load[l].at \notin {"idle", "listing"},
             stored' = stored, crossed' = crossed, faults' = faults,
             missed' \in {missed, missed \cup {l}},
             \A g \in Files : /\ objects[g] # Absent => objects'[g] # Absent
                              /\ buffers[g] # Absent => buffers'[g] # Absent,
             \/ load'[l].at = load[l].at
             \/ /\ load'[l].at = "empty"
                /\ l \in crossed \cup missed' \/ AtFault(load'[l].file[f].got) \/ Excused(l),
             load[l].file[f].got # Absent => load'[l].file[f].got = load[l].file[f].got,
             load'[l].file[f].at \in {"fillBuffer", "fillObject"} => load'[l].file[f].got # Absent,
             load'[l].file[f].at \notin {"fillBuffer", "fillObject", "done"} =>
               load'[l].file[f].got = Absent,
             load'[l].file[f].at # "none",
             load[l].at = "reading" /\ l \notin crossed => Exists(f),
             load[l].at = "reading" /\ l \notin crossed \cup missed =>
               /\ load'[l].file[f].at = "getObject" => objects'[f] # Absent
               /\ load'[l].file[f].at = "getBuffer" => buffers'[f] # Absent
      PROVE  ReadsSound' /\ EmptyOnlyIfCrossed'
  <2>1. ASSUME NEW m \in Loaders, NEW g \in Files
        PROVE  /\ load'[m].at \in {"idle", "listing"} => load'[m].file[g].at = "none"
               /\ load'[m].file[g].at \in {"fillBuffer", "fillObject"} => load'[m].file[g].got # Absent
               /\ load'[m].file[g].at \notin {"fillBuffer", "fillObject", "done"} =>
                    load'[m].file[g].got = Absent
               /\ m \notin crossed /\ load'[m].at = "reading" =>
                    (load'[m].file[g].at = "none" <=> ~ Exists(g))
               /\ m \notin crossed \cup missed /\ load'[m].at = "reading" => CopyThere(m, g)'
    <3>1. CASE m = l /\ g = f
      BY <1>r, <3>1 DEF CopyThere
    <3>2. CASE m = l /\ g # f
      BY <1>0, <1>r, <3>2 DEF ReadsSound, CopyThere
    <3>3. CASE m # l
      BY <1>0, <1>r, <3>3 DEF ReadsSound, CopyThere
    <3>. QED BY <3>1, <3>2, <3>3
  <2>2. ReadsSound'
    BY <1>r, <2>1 DEF ReadsSound, Exists
  <2>3. ASSUME NEW m \in Loaders, Excused(m) PROVE Excused(m)'
    <3>1. CASE m \in crossed \cup missed
      BY <1>r, <3>1 DEF Excused
    <3>2. CASE \E g \in Files : AtFault(load[m].file[g].got)
      <4>1. PICK g \in Files : AtFault(load[m].file[g].got)
        BY <3>2
      <4>2. load[m].file[g].got # Absent
        BY <1>a, <4>1 DEF AtFault, Contents
      <4>3. load'[m].file[g].got = load[m].file[g].got
        BY <1>r, <4>2
      <4>. QED BY <1>r, <4>1, <4>3 DEF Excused, AtFault, Sound
    <3>. QED BY <2>3, <3>1, <3>2 DEF Excused
  <2>4. ASSUME NEW m \in Loaders, load'[m].at = "empty" PROVE Excused(m)'
    <3>1. CASE load[m].at = "empty" \/ Excused(m)
      BY <1>e, <2>3, <3>1
    <3>2. CASE m = l /\ (l \in crossed \cup missed' \/ AtFault(load'[l].file[f].got))
      BY <1>r, <3>2 DEF Excused, AtFault, Sound
    <3>. QED BY <1>r, <2>4, <3>1, <3>2
  <2>5. EmptyOnlyIfCrossed'
    BY <2>4 DEF EmptyOnlyIfCrossed, Excused, AtFault
  <2>. QED BY <2>2, <2>5
\* What is known of a read that goes on.
<1>p. ASSUME NEW f \in Files, load[l].file[f].at # "none"
      PROVE  /\ load[l].at \notin {"idle", "listing"}
             /\ load[l].at \in {"reading", "empty"}
             /\ load[l].at = "reading" /\ l \notin crossed => Exists(f)
             /\ load[l].at = "reading" /\ l \notin crossed \cup missed => CopyThere(l, f)
             /\ load[l].at = "empty" => Excused(l)
  BY <1>0, <1>e, <1>p DEF ReadsSound, Call
\* A step of the whole call.
<1>c. ASSUME \A m \in Loaders \ {l} : load'[m] = load[m],
             UNCHANGED <<stored, objects, buffers, faults>>,
             \A m \in Loaders \ {l} : (m \in crossed' <=> m \in crossed) /\ (m \in missed' <=> m \in missed),
             load'[l].at # "empty",
             \A f \in Files :
               /\ load'[l].at \in {"idle", "listing"} => load'[l].file[f].at = "none"
               /\ load'[l].file[f].at \notin {"fillBuffer", "fillObject", "getObject", "getBuffer"}
               /\ load'[l].file[f].got = Absent
               /\ load'[l].at = "reading" => (load'[l].file[f].at = "none" <=> ~ Exists(f))
      PROVE  ReadsSound' /\ EmptyOnlyIfCrossed'
  <2>1. ASSUME NEW m \in Loaders, NEW g \in Files
        PROVE  /\ load'[m].at \in {"idle", "listing"} => load'[m].file[g].at = "none"
               /\ load'[m].file[g].at \in {"fillBuffer", "fillObject"} => load'[m].file[g].got # Absent
               /\ load'[m].file[g].at \notin {"fillBuffer", "fillObject", "done"} =>
                    load'[m].file[g].got = Absent
               /\ m \notin crossed' /\ load'[m].at = "reading" =>
                    (load'[m].file[g].at = "none" <=> ~ Exists(g))
               /\ m \notin crossed' \cup missed' /\ load'[m].at = "reading" => CopyThere(m, g)'
    <3>1. CASE m = l
      BY <1>c, <3>1 DEF CopyThere
    <3>2. CASE m # l
      BY <1>0, <1>c, <3>2 DEF ReadsSound, CopyThere
    <3>. QED BY <3>1, <3>2
  <2>2. EmptyOnlyIfCrossed'
    BY <1>0, <1>c DEF EmptyOnlyIfCrossed, Sound
  <2>. QED BY <1>c, <2>1, <2>2 DEF ReadsSound, Exists
<1>1. CASE Load(l)
  <2>1. UNCHANGED <<stored, objects, buffers, faults>> /\ crossed' = crossed \ {l} /\ missed' = missed \ {l}
    BY <1>1 DEF Load, ghost
  <2>. QED BY <1>0, <1>1, <1>c, <2>1, CallEffects
<1>2. CASE List(l)
  <2>1. UNCHANGED <<stored, objects, buffers, faults, crossed, missed>>
    BY <1>2 DEF List, ghost
  <2>. QED BY <1>0, <1>2, <1>c, <2>1, CallEffects
<1>3. CASE Finish(l)
  <2>1. UNCHANGED <<stored, objects, buffers, faults>> /\ crossed' = crossed \ {l} /\ missed' = missed \ {l}
    BY <1>3 DEF Finish, ghost
  <2>. QED BY <1>0, <1>3, <1>c, <2>1, CallEffects
<1>4. ASSUME NEW f \in Files, LookUp(l, f) PROVE ReadsSound' /\ EmptyOnlyIfCrossed'
  <2>0. /\ load[l].file[f].at = "lookUp"
        /\ load[l].file[f].got = Absent
        /\ UNCHANGED <<stored, objects, buffers, crossed, missed, faults>>
        /\ Reads(l, f, IF objects[f] # Absent THEN "getObject"
                       ELSE IF buffers[f] # Absent THEN "getBuffer" ELSE "read", Absent)
    BY <1>0, <1>4 DEF LookUp, ghost, ReadsSound
  <2>1. CASE objects[f] # Absent
    BY <1>0, <1>p, <1>r, <2>0, <2>1, ReadEffects
  <2>2. CASE objects[f] = Absent /\ buffers[f] # Absent
    BY <1>0, <1>p, <1>r, <2>0, <2>2, ReadEffects
  <2>3. CASE objects[f] = Absent /\ buffers[f] = Absent
    BY <1>0, <1>p, <1>r, <2>0, <2>3, ReadEffects
  <2>. QED BY <2>1, <2>2, <2>3
\* A read that fails was crossed, or missed a copy, or has read contents at fault.
<1>f. ASSUME NEW f \in Files, NEW v, ReadFails(l, f, v), load[l].file[f].at # "none",
             UNCHANGED <<stored, objects, buffers, crossed, faults>>,
             missed' \in {missed, missed \cup {l}},
             load[l].file[f].got # Absent => v = load[l].file[f].got,
             load[l].at = "reading" => l \in crossed \cup missed' \/ AtFault(v)
      PROVE  ReadsSound' /\ EmptyOnlyIfCrossed'
  BY <1>0, <1>f, <1>p, <1>r, ReadEffects
<1>5. ASSUME NEW f \in Files, Get(l, f) PROVE ReadsSound' /\ EmptyOnlyIfCrossed'
  <2>0. UNCHANGED <<stored, objects, buffers, crossed, missed, faults>>
    BY <1>5 DEF Get, ghost
  <2>g. load[l].file[f].got = Absent
    BY <1>0, <1>5 DEF Get, ReadsSound
  <2>1. CASE load[l].file[f].at = "getObject" /\ (objects[f] = Absent \/ ~ Sound(objects[f]))
    <3>1. ReadFails(l, f, objects[f])
      BY <1>5, <2>1 DEF Get
    <3>2. objects[f] = Absent \/ AtFault(objects[f])
      BY <2>1 DEF AtFault, EmptyInv, TypeOK, GhostTypeOK
    <3>. QED BY <1>f, <1>p, <2>0, <2>g, <2>1, <3>1, <3>2 DEF CopyThere
  <2>2. CASE load[l].file[f].at = "getObject" /\ objects[f] # Absent /\ Sound(objects[f])
    <3>1. Reads(l, f, "done", objects[f])
      BY <1>5, <2>2 DEF Get
    <3>. QED BY <1>0, <1>p, <1>r, <2>0, <2>g, <2>2, <3>1, ReadEffects
  <2>3. CASE load[l].file[f].at = "getBuffer" /\ buffers[f] = Absent
    <3>1. ReadFails(l, f, Absent)
      BY <1>5, <2>3 DEF Get
    <3>. QED BY <1>f, <1>p, <2>0, <2>g, <2>3, <3>1 DEF CopyThere
  <2>4. CASE load[l].file[f].at = "getBuffer" /\ buffers[f] # Absent
    <3>1. Reads(l, f, "fillObject", buffers[f])
      BY <1>5, <2>4 DEF Get
    <3>. QED BY <1>0, <1>p, <1>r, <2>0, <2>g, <2>4, <3>1, ReadEffects
  <2>. QED BY <1>5, <2>1, <2>2, <2>3, <2>4 DEF Get
<1>6. ASSUME NEW f \in Files, ReadDriver(l, f) PROVE ReadsSound' /\ EmptyOnlyIfCrossed'
  <2>0. /\ UNCHANGED <<stored, objects, buffers, crossed, missed, faults>>
        /\ load[l].file[f].at = "read" /\ load[l].file[f].got = Absent
    BY <1>0, <1>6 DEF ReadDriver, ghost, ReadsSound
  <2>1. CASE Exists(f)
    <3>1. Reads(l, f, "fillBuffer", stored[f])
      BY <1>6, <2>1 DEF ReadDriver
    <3>. QED BY <1>0, <1>a, <1>p, <1>r, <2>0, <2>1, <3>1, ReadEffects
  <2>2. CASE ~ Exists(f)
    <3>1. ReadFails(l, f, Absent)
      BY <1>6, <2>2 DEF ReadDriver
    <3>. QED BY <1>f, <1>p, <2>0, <2>2, <3>1
  <2>. QED BY <2>1, <2>2
<1>7. ASSUME NEW f \in Files, FillBuffer(l, f) PROVE ReadsSound' /\ EmptyOnlyIfCrossed'
  <2>0. /\ UNCHANGED <<stored, objects, crossed, missed, faults>> /\ load[l].file[f].at = "fillBuffer"
        /\ load[l].file[f].got # Absent
        /\ buffers' = [buffers EXCEPT ![f] = load[l].file[f].got]
        /\ Reads(l, f, "fillObject", load[l].file[f].got)
    BY <1>0, <1>7 DEF FillBuffer, ReadsSound
  <2>1. \A g \in Files : buffers[g] # Absent => buffers'[g] # Absent
    BY <2>0 DEF EmptyInv, TypeOK, GhostTypeOK
  <2>. QED BY <1>0, <1>p, <1>r, <2>0, <2>1, ReadEffects
<1>8. ASSUME NEW f \in Files, FillObject(l, f) PROVE ReadsSound' /\ EmptyOnlyIfCrossed'
  <2> DEFINE v == load[l].file[f].got
  <2>0. /\ UNCHANGED <<stored, buffers, crossed, missed, faults>> /\ load[l].file[f].at = "fillObject"
        /\ v # Absent
        /\ objects' = [objects EXCEPT ![f] = v]
        /\ IF Sound(v) THEN Reads(l, f, "done", v) ELSE ReadFails(l, f, v)
    BY <1>0, <1>8 DEF FillObject, ReadsSound
  <2>1. \A g \in Files : objects[g] # Absent => objects'[g] # Absent
    BY <2>0 DEF EmptyInv, TypeOK, GhostTypeOK
  <2>2. v \in Contents
    BY <1>0, <2>0, LoadMoves
  <2>3. CASE Sound(v)
    BY <1>0, <1>p, <1>r, <2>0, <2>1, <2>3, ReadEffects
  <2>4. CASE ~ Sound(v)
    <3>1. AtFault(v) /\ ReadFails(l, f, v)
      BY <2>0, <2>2, <2>4 DEF AtFault
    <3> HIDE DEF v
    <3>2. /\ load'[l].at = "empty" /\ load'[l].file[f].at = "done" /\ load'[l].file[f].got = v
          /\ \A g \in Files \ {f} : load'[l].file[g] = load[l].file[g]
          /\ \A m \in Loaders \ {l} : load'[m] = load[m]
      BY <1>0, <3>1, ReadEffects
    <3>. QED BY <1>p, <1>r, <2>0, <2>1, <3>1, <3>2 DEF v
  <2>. QED BY <2>3, <2>4
<1>9. ASSUME NEW f \in Files, ParseFails(l, f) PROVE ReadsSound' /\ EmptyOnlyIfCrossed'
  <2>0. /\ UNCHANGED <<stored, objects, buffers, crossed, missed, faults>>
        /\ load[l].file[f].at = "fillObject" /\ load[l].file[f].got # Absent
        /\ faults[load[l].file[f].got] = "syntax"
        /\ ReadFails(l, f, load[l].file[f].got)
    BY <1>0, <1>9 DEF ParseFails, ghost, ReadsSound
  <2>1. AtFault(load[l].file[f].got)
    BY <1>0, <2>0, LoadMoves DEF AtFault, Sound
  <2>. QED BY <1>f, <2>0, <2>1
<1>10. ASSUME NEW f \in Files, MissUi(l, f) PROVE ReadsSound' /\ EmptyOnlyIfCrossed'
  <2>0. /\ UNCHANGED <<stored, objects, buffers, crossed, faults>> /\ missed' = missed \cup {l}
        /\ load[l].file[f].at = "done"
        /\ ReadFails(l, f, load[l].file[f].got)
    BY <1>10 DEF MissUi, ghost
  <2>. QED BY <1>f, <2>0
<1>. QED BY <1>1, <1>2, <1>3, <1>4, <1>5, <1>6, <1>7, <1>8, <1>9, <1>10 DEF LoadStep

LEMMA EmptyStep == EmptyInv /\ [Next]_vars => EmptyInv'
<1> SUFFICES ASSUME EmptyInv, [Next]_vars PROVE EmptyInv'
  OBVIOUS
<1>0. TypeOK'
  BY TypesKept DEF EmptyInv
<1>1. ASSUME NEW l \in Loaders, LoadStep(l) PROVE ReadsSound' /\ EmptyOnlyIfCrossed'
  BY <1>1, LoadsKeepEmpty
<1>2. ASSUME OtherStep PROVE ReadsSound' /\ EmptyOnlyIfCrossed'
  BY <1>2, OpsKeepEmpty
<1>3. ASSUME UNCHANGED vars PROVE ReadsSound' /\ EmptyOnlyIfCrossed'
  <2>1. UNCHANGED <<stored, objects, buffers, crossed, missed, faults, load>>
    BY <1>3 DEF vars, ghost
  <2>. QED BY <2>1 DEF EmptyInv, ReadsSound, EmptyOnlyIfCrossed, CopyThere, Exists, Sound
<1>. QED BY <1>0, <1>1, <1>2, <1>3 DEF Next, OtherStep, EmptyInv

LEMMA EmptyStart == Init => EmptyInv
<1> SUFFICES ASSUME Init PROVE EmptyInv
  OBVIOUS
<1>1. TypeOK
  BY MutexStart DEF MutexInv
<1>2. \A l \in Loaders : /\ load[l].at = "idle"
                         /\ \A f \in Files : load[l].file[f].at = "none" /\ load[l].file[f].got = Absent
  BY DEF Init, NoReads
<1>. QED BY <1>1, <1>2 DEF EmptyInv, ReadsSound, EmptyOnlyIfCrossed

\* A load answers that the bot has no flows (loadAll) only when what it read of one of
\* them is at fault, when a change or an invalidation of the flows crossed it, or when
\* what it looked for was dropped from the cache: whatever else is loaded, and however
\* the cache is filled by others, what was listed and looked up is there otherwise.
THEOREM EmptyWhenCrossed == Spec => []EmptyOnlyIfCrossed
<1>1. EmptyInv => EmptyOnlyIfCrossed
  BY DEF EmptyInv
<1>. QED BY <1>1, EmptyStart, EmptyStep, PTL DEF Spec

-----------------------------------------------------------------------------
(* The caches. *)

\* Which operations have still to invalidate a file: a step of one operation adds
\* it, when it changed the file, and takes it away, when it invalidated.
LEMMA InvalidatesLater ==
  ASSUME TypeOK, NEW i \in Ops, OpStep(i)
  PROVE  /\ \A j \in Ops \ {i} : /\ op'[j].at = op[j].at
                                 /\ op[j].at \in Both => op'[j].file = op[j].file
         /\ op[i].at \in Both \cup {"clear"} =>
              \/ InvalidateObject(i) /\ op'[i].at = "invalidateBuffer" /\ op'[i].file = op[i].file
              \/ InvalidateBuffer(i)
              \/ Clear(i)
<1>0. op \in [Ops -> Request \cup {[at |-> "new"], Over}]
  BY DEF TypeOK
<1>s. {"test", "granted", "list", "write", "remove", "invalidateObject", "invalidateBuffer", "clear"} \subseteq Stages
  BY DEF Stages
<1>g. ASSUME NEW at \in Stages \cup {"over"}, op[i].at \in Stages, Goes(i, at)
      PROVE  /\ \A j \in Ops \ {i} : op'[j] = op[j]
             /\ at # "over" => op'[i].at = at /\ op'[i].file = op[i].file
  BY <1>g, AtStage, GoesMoves
<1>1. CASE Begin(i)
  <2>1. \A j \in Ops \ {i} : op'[j] = op[j]
    BY <1>0, <1>1 DEF Begin
  <2>. QED BY <1>1, <2>1 DEF Begin, Both
<1>2. CASE CheckListing(i)
  BY <1>2, <1>g, <1>s DEF CheckListing, Both
<1>3. CASE TestMutex(i)
  BY <1>3, <1>g, <1>s DEF TestMutex, Both
<1>4. CASE SetMutex(i)
  <2>1. ASSUME NEW j \in Ops, j # i PROVE op'[j].at = op[j].at /\ (op[j].at \in Both => op'[j].file = op[j].file)
    <3>1. op'[j] = IF Overtakes(i, j) THEN [op[j] EXCEPT !.late = TRUE] ELSE op[j]
      BY <1>4, <2>1 DEF SetMutex
    <3>2. Overtakes(i, j) => op[j] \in Request
      BY <1>s, AtStage DEF Overtakes, Saving
    <3>3. CASE Overtakes(i, j)
      BY <3>1, <3>2, <3>3, RequestMoves
    <3>. QED BY <3>1, <3>3
  <2>. QED BY <1>4, <2>1 DEF SetMutex, Both
<1>5. CASE Write(i)
  BY <1>5, <1>g, <1>s DEF Write, Both
<1>6. CASE Delete(i)
  BY <1>6, <1>g, <1>s DEF Delete, Both
<1>7. CASE Move(i)
  BY <1>7, <1>g, <1>s DEF Move, Both
<1>8. CASE RemoveFolder(i)
  BY <1>8, <1>g, <1>s DEF RemoveFolder, Both
<1>9. CASE InvalidateObject(i)
  BY <1>9, <1>g, <1>s DEF InvalidateObject, Both
<1>10. CASE InvalidateBuffer(i)
  BY <1>10, <1>g, <1>s DEF InvalidateBuffer, Both
<1>11. CASE Clear(i)
  BY <1>11, <1>g, <1>s DEF Clear, Both
<1>. QED BY <1>1, <1>2, <1>3, <1>4, <1>5, <1>6, <1>7, <1>8, <1>9, <1>10, <1>11 DEF OpStep

\* An operation that has still to invalidate a file stays so, unless it is the one
\* that moves.
LEMMA InvalidatesKept ==
  ASSUME TypeOK, NEW i \in Ops, OpStep(i), NEW f, NEW stages \in SUBSET Both,
         Invalidates(f, stages), ~ (op[i].at \in stages /\ op[i].file = f)
  PROVE  Invalidates(f, stages)'
<1>1. PICK j \in Ops : op[j].at \in stages /\ op[j].file = f
  BY DEF Invalidates
<1>2. j # i /\ op[j].at \in Both
  BY <1>1
<1>3. op'[j].at \in stages /\ op'[j].file = f
  BY <1>1, <1>2, InvalidatesLater
<1>. QED BY <1>3 DEF Invalidates

\* A step of an operation that leaves a file and its copies alone.
LEMMA Unaffected ==
  ASSUME TypeOK, NEW i \in Ops, OpStep(i), NEW f \in Files, FileFresh(f),
         stored'[f] = stored[f], objects'[f] = objects[f], buffers'[f] = buffers[f],
         load' = load, ~ (op[i].at \in Both /\ op[i].file = f)
  PROVE  FileFresh(f)'
<1>1. Invalidates(f, {"invalidateObject"}) => Invalidates(f, {"invalidateObject"})'
  BY InvalidatesKept DEF Both
<1>2. Invalidates(f, Both) => Invalidates(f, Both)'
  BY InvalidatesKept
<1>. QED BY <1>1, <1>2 DEF FileFresh

\* A file that changes is not in doubt afterwards only if no read holds it, and
\* then its copies in the cache are all there is.
LEMMA NotHeld ==
  ASSUME NEW fs, NEW dropped, NEW uncertain, Touch(fs, dropped, uncertain),
         load' = load, NEW f \in fs, f \notin doubt',
         objects'[f] \notin {Absent, stored'[f]} => Invalidates(f, {"invalidateObject"})',
         buffers'[f] \notin {Absent, stored'[f]} => Invalidates(f, Both)'
  PROVE  FileFresh(f)'
<1>1. ~ Held(f)
  BY DEF Touch
<1>. QED BY <1>1 DEF FileFresh, Held

\* Nothing that is under way is uncrossed after a change.
LEMMA AllCrossed ==
  ASSUME NEW fs, NEW dropped, NEW uncertain, Touch(fs, dropped, uncertain), load' = load
  PROVE  GatheredFresh'
BY DEF Touch, GatheredFresh, Active

\* A step that changes neither the files nor the cache, nor what is in doubt.
LEMMA OpsMoveOn ==
  ASSUME SettleInv, NEW i \in Ops, OpStep(i), op[i].at \notin Both,
         UNCHANGED <<stored, objects, buffers, doubt, load, crossed>>,
         \/ UNCHANGED <<allFlows, listDoubt>> /\ op[i].at # "clear"
         \/ allFlows' = Unloaded
  PROVE  CopiesFresh' /\ GatheredFresh' /\ ListFresh'
<1>0. TypeOK /\ CopiesFresh /\ GatheredFresh /\ ListFresh
  BY DEF SettleInv, EmptyInv
<1>1. CopiesFresh'
  BY <1>0, Unaffected DEF CopiesFresh
<1>2. GatheredFresh'
  <2>1. ASSUME NEW f, Invalidates(f, Both) PROVE Invalidates(f, Both)'
    BY <1>0, <2>1, InvalidatesKept
  <2>. QED BY <1>0, <2>1 DEF GatheredFresh
<1>3. ListFresh'
  <2>1. CASE allFlows' = Unloaded
    BY <2>1 DEF ListFresh
  <2>2. CASE UNCHANGED <<allFlows, listDoubt>> /\ op[i].at # "clear"
    <3>1. ASSUME NEW j \in Ops, op[j].at \in Both \cup {"clear"} PROVE op'[j].at \in Both \cup {"clear"}
      <4>1. j # i
        BY <2>2, <3>1
      <4>. QED BY <1>0, <3>1, <4>1, InvalidatesLater
    <3>. QED BY <1>0, <2>2, <3>1 DEF ListFresh, Exists
  <2>. QED BY <2>1, <2>2
<1>. QED BY <1>1, <1>2, <1>3

\* An operation keeps the copies and the list fresh, or comes back to them.
LEMMA OpsKeepFresh ==
  ASSUME SettleInv, NEW i \in Ops, OpStep(i)
  PROVE  CopiesFresh' /\ GatheredFresh' /\ ListFresh'
<1>0. TypeOK /\ CopiesFresh /\ GatheredFresh /\ ListFresh
  BY DEF SettleInv, EmptyInv
<1>t. /\ stored \in [Files -> Contents \cup {Absent, Deleted}]
      /\ objects \in [Files -> Contents \cup {Absent}]
      /\ buffers \in [Files -> Contents \cup {Absent}]
  BY <1>0 DEF TypeOK, GhostTypeOK
<1>s. {"test", "granted", "list", "write", "remove", "invalidateObject", "invalidateBuffer", "clear"} \subseteq Stages
  BY DEF Stages
<1>r. op[i].at \in Stages => op[i] \in Request /\ op[i].file \in Files /\ op[i].to \in Files
  BY <1>0, AtStage DEF Request
<1>b. "clear" \notin Both /\ "write" \notin Both /\ "remove" \notin Both
  BY DEF Both
<1>1. CASE Begin(i)
  BY <1>1, <1>b, OpsMoveOn DEF Begin, ghost, Both
<1>2. CASE CheckListing(i)
  BY <1>2, OpsMoveOn DEF CheckListing, ghost, Both
<1>3. CASE TestMutex(i)
  BY <1>3, OpsMoveOn DEF TestMutex, ghost, Both
<1>4. CASE SetMutex(i)
  BY <1>4, OpsMoveOn DEF SetMutex, ghost, Both
<1>5. CASE Write(i)
  <2> DEFINE f == op[i].file
  <2>0. f \in Files /\ op[i].at = "write" /\ load' = load /\ UNCHANGED <<objects, buffers>>
    BY <1>5, <1>r, <1>s DEF Write
  <2>1. Touch({f}, {}, IF op[i].kind = "disk" THEN {f} ELSE {})
    BY <1>5 DEF Write
  <2>2. \A g \in Files \ {f} : stored'[g] = stored[g]
    BY <1>5, <1>t DEF Write, DriverUpsert
  <2>3. CopiesFresh'
    <3> SUFFICES ASSUME NEW g \in Files, g \notin doubt' PROVE FileFresh(g)'
      BY DEF CopiesFresh
    <3>1. CASE g # f
      BY <1>0, <1>b, <2>0, <2>1, <2>2, <3>1, Unaffected DEF CopiesFresh, Touch
    <3>2. CASE g = f
      <4>1. op[i].kind # "disk"
        BY <2>1, <3>2 DEF Touch
      <4>2. op'[i].at = "invalidateObject" /\ op'[i].file = f
        BY <1>0, <1>5, <1>r, <1>s, <2>0, <4>1, GoesMoves DEF Write
      <4>3. Invalidates(g, {"invalidateObject"})' /\ Invalidates(g, Both)'
        BY <3>2, <4>2 DEF Invalidates, Both
      <4>. QED BY <2>0, <2>1, <3>2, <4>3, NotHeld
    <3>. QED BY <3>1, <3>2
  <2>4. ListFresh'
    <3>1. CASE op[i].kind = "disk"
      BY <1>5, <3>1 DEF Write, ListFresh
    <3>2. CASE op[i].kind # "disk"
      <4>1. op'[i].at = "invalidateObject"
        BY <1>0, <1>5, <1>r, <1>s, <2>0, <3>2, GoesMoves DEF Write
      <4>. QED BY <4>1 DEF ListFresh, Both
    <3>. QED BY <3>1, <3>2
  <2>. QED BY <2>0, <2>1, <2>3, <2>4, AllCrossed
<1>6. CASE Delete(i)
  <2> DEFINE f == op[i].file
  <2>0. f \in Files /\ op[i].at = "write" /\ load' = load /\ UNCHANGED <<objects, buffers, allFlows, listDoubt>>
    BY <1>6, <1>r, <1>s DEF Delete
  <2>1. CASE ~ CanDelete(f)
    BY <1>6, <1>b, <2>0, <2>1, OpsMoveOn DEF Delete
  <2>2. CASE CanDelete(f)
    <3>1. Touch({f}, {}, {}) /\ DriverDelete({f}) /\ Goes(i, "invalidateObject")
      BY <1>6, <2>2 DEF Delete
    <3>2. \A g \in Files \ {f} : stored'[g] = stored[g]
      BY <1>t, <3>1 DEF DriverDelete
    <3>3. op'[i].at = "invalidateObject" /\ op'[i].file = f
      BY <1>0, <1>r, <1>s, <2>0, <3>1, GoesMoves
    <3>4. CopiesFresh'
      <4> SUFFICES ASSUME NEW g \in Files, g \notin doubt' PROVE FileFresh(g)'
        BY DEF CopiesFresh
      <4>1. CASE g # f
        BY <1>0, <1>b, <2>0, <3>1, <3>2, <4>1, Unaffected DEF CopiesFresh, Touch
      <4>2. CASE g = f
        <5>1. Invalidates(g, {"invalidateObject"})' /\ Invalidates(g, Both)'
          BY <3>3, <4>2 DEF Invalidates, Both
        <5>. QED BY <2>0, <3>1, <4>2, <5>1, NotHeld
      <4>. QED BY <4>1, <4>2
    <3>5. ListFresh'
      BY <3>3 DEF ListFresh, Both
    <3>. QED BY <2>0, <3>1, <3>4, <3>5, AllCrossed
  <2>. QED BY <2>1, <2>2
<1>7. CASE Move(i)
  <2> DEFINE f == op[i].file
             to == op[i].to
  <2>0. /\ f \in Files /\ to \in Files /\ op[i].at = "write" /\ load' = load
        /\ UNCHANGED <<objects, buffers, allFlows, listDoubt>>
    BY <1>7, <1>r, <1>s DEF Move
  <2>1. CASE ~ CanMove(f, to)
    BY <1>7, <1>b, <2>0, <2>1, OpsMoveOn DEF Move
  <2>2. CASE CanMove(f, to)
    <3>1. /\ Touch({f, to}, {}, {f} \cap {g \in Files : Cached(g)})
          /\ DriverMove(f, to) /\ Goes(i, "clear")
      BY <1>7, <2>2 DEF Move
    <3>2. \A g \in Files \ {f, to} : stored'[g] = stored[g]
      BY <1>t, <3>1 DEF DriverMove
    <3>3. op'[i].at = "clear"
      BY <1>0, <1>r, <1>s, <2>0, <3>1, GoesMoves
    <3>4. CopiesFresh'
      <4> SUFFICES ASSUME NEW g \in Files, g \notin doubt' PROVE FileFresh(g)'
        BY DEF CopiesFresh
      <4>0. g \notin doubt /\ FileFresh(g)
        BY <1>0, <3>1 DEF CopiesFresh, Touch
      <4>1. CASE stored'[g] = stored[g]
        BY <1>0, <1>b, <2>0, <4>0, <4>1, Unaffected
      <4>2. CASE g = f
        <5>1. objects'[f] = Absent /\ buffers'[f] = Absent
          BY <2>0, <3>1, <4>2 DEF Touch, Cached
        <5>. QED BY <2>0, <3>1, <4>2, <5>1, NotHeld
      <4>3. CASE g = to /\ stored'[g] # stored[g]
        \* There was no file, so that a copy was about to be invalidated.
        <5>1. stored[g] < 0
          BY <1>t, <2>0, <2>2, <3>1, <4>3, FlowAssumption
             DEF CanMove, DriverMove, Exists, Absent, Deleted, Contents
        <5>2. \A c \in Contents : c \notin {Absent, stored[g]}
          BY <5>1, FlowAssumption DEF Contents, Absent
        <5>3. /\ objects[g] # Absent => Invalidates(g, {"invalidateObject"})
              /\ buffers[g] # Absent => Invalidates(g, Both)
          BY <1>t, <4>0, <5>2 DEF FileFresh
        <5>4. /\ Invalidates(g, {"invalidateObject"}) => Invalidates(g, {"invalidateObject"})'
              /\ Invalidates(g, Both) => Invalidates(g, Both)'
          BY <1>0, <1>b, <2>0, InvalidatesKept DEF Both
        <5>. QED BY <2>0, <3>1, <4>3, <5>3, <5>4, NotHeld
      <4>. QED BY <3>2, <4>1, <4>2, <4>3
    <3>5. ListFresh'
      BY <3>3 DEF ListFresh
    <3>. QED BY <2>0, <3>1, <3>4, <3>5, AllCrossed
  <2>. QED BY <2>1, <2>2
<1>8. CASE RemoveFolder(i)
  <2>0. /\ Touch(Files, {}, {f \in Files : Cached(f)}) /\ listDoubt' = TRUE
        /\ load' = load /\ UNCHANGED <<objects, buffers>>
    BY <1>8 DEF RemoveFolder
  <2>1. CopiesFresh'
    <3> SUFFICES ASSUME NEW g \in Files, g \notin doubt' PROVE FileFresh(g)'
      BY DEF CopiesFresh
    <3>1. objects'[g] = Absent /\ buffers'[g] = Absent
      BY <2>0 DEF Touch, Cached
    <3>. QED BY <2>0, <3>1, NotHeld
  <2>2. ListFresh'
    BY <2>0 DEF ListFresh
  <2>. QED BY <2>0, <2>1, <2>2, AllCrossed
<1>9. CASE InvalidateObject(i)
  <2> DEFINE f == op[i].file
  <2>0. /\ f \in Files /\ load' = load /\ UNCHANGED <<stored, buffers>> /\ allFlows' = Unloaded
        /\ objects' = [objects EXCEPT ![f] = Absent]
        /\ Touch({f}, {f}, {})
        /\ op[i].at = "invalidateObject" /\ Goes(i, "invalidateBuffer")
    BY <1>9, <1>r, <1>s DEF InvalidateObject, Forget
  <2>1. op'[i].at = "invalidateBuffer" /\ op'[i].file = f
    BY <1>0, <1>r, <1>s, <2>0, GoesMoves
  <2>2. CopiesFresh'
    <3> SUFFICES ASSUME NEW g \in Files, g \notin doubt' PROVE FileFresh(g)'
      BY DEF CopiesFresh
    <3>1. CASE g # f
      <4>1. objects'[g] = objects[g]
        BY <1>t, <2>0, <3>1
      <4>2. FileFresh(g)
        BY <1>0, <2>0, <3>1 DEF CopiesFresh, Touch
      <4>. QED BY <1>0, <2>0, <3>1, <4>1, <4>2, Unaffected
    <3>2. CASE g = f
      <4>1. objects'[g] = Absent
        BY <1>t, <2>0, <3>2
      <4>2. Invalidates(g, Both)'
        BY <2>1, <3>2 DEF Invalidates, Both
      <4>. QED BY <2>0, <3>2, <4>1, <4>2, NotHeld
    <3>. QED BY <3>1, <3>2
  <2>3. ListFresh'
    BY <2>0 DEF ListFresh
  <2>. QED BY <2>0, <2>2, <2>3, AllCrossed
<1>10. CASE InvalidateBuffer(i)
  <2> DEFINE f == op[i].file
  <2>0. /\ f \in Files /\ load' = load /\ UNCHANGED <<stored, objects>> /\ allFlows' = Unloaded
        /\ buffers' = [buffers EXCEPT ![f] = Absent]
        /\ Touch({f}, {}, {})
        /\ op[i].at = "invalidateBuffer"
    BY <1>10, <1>r, <1>s DEF InvalidateBuffer, Forget
  <2>2. CopiesFresh'
    <3> SUFFICES ASSUME NEW g \in Files, g \notin doubt' PROVE FileFresh(g)'
      BY DEF CopiesFresh
    <3>0. FileFresh(g)
      BY <1>0, <2>0 DEF CopiesFresh, Touch
    <3>1. CASE g # f
      <4>1. buffers'[g] = buffers[g]
        BY <1>t, <2>0, <3>1
      <4>. QED BY <1>0, <2>0, <3>0, <3>1, <4>1, Unaffected
    <3>2. CASE g = f
      <4>1. buffers'[g] = Absent
        BY <1>t, <2>0, <3>2
      <4>2. Invalidates(g, {"invalidateObject"}) => Invalidates(g, {"invalidateObject"})'
        BY <1>0, <2>0, InvalidatesKept DEF Both
      <4>3. objects'[g] \notin {Absent, stored'[g]} => Invalidates(g, {"invalidateObject"})'
        BY <2>0, <3>0, <4>2 DEF FileFresh
      <4>. QED BY <2>0, <3>2, <4>1, <4>3, NotHeld
    <3>. QED BY <3>1, <3>2
  <2>3. ListFresh'
    BY <2>0 DEF ListFresh
  <2>. QED BY <2>0, <2>2, <2>3, AllCrossed
<1>11. CASE Clear(i)
  BY <1>11, <1>b, OpsMoveOn DEF Clear, Forget, ghost
<1>. QED BY <1>1, <1>2, <1>3, <1>4, <1>5, <1>6, <1>7, <1>8, <1>9, <1>10, <1>11 DEF OpStep

\* Time changes nothing of this; the watcher clears the copies of what it reports, and
\* a full cache drops one.
LEMMA RestKeepsFresh ==
  ASSUME SettleInv, NEW h \in Files, Expire(h) \/ Watch(h) \/ Evict(h)
  PROVE  CopiesFresh' /\ GatheredFresh' /\ ListFresh'
<1>0. TypeOK /\ CopiesFresh /\ GatheredFresh /\ ListFresh
  BY DEF SettleInv, EmptyInv
<1>1. CASE Expire(h)
  <2>1. ASSUME NEW j \in Ops PROVE op'[j].at = op[j].at /\ (op[j].at \in Both => op'[j].file = op[j].file)
    <3>1. op'[j] = IF Saving(j) /\ op[j].file = h THEN [op[j] EXCEPT !.late = TRUE] ELSE op[j]
      BY <1>1 DEF Expire
    <3>2. Saving(j) => op[j] \in Request
      BY <1>0, AtStage DEF Saving, Stages
    <3>. QED BY <3>1, <3>2, RequestMoves
  <2>2. ASSUME NEW f, NEW stages \in SUBSET Both, Invalidates(f, stages) PROVE Invalidates(f, stages)'
    BY <2>1, <2>2 DEF Invalidates
  <2>3. UNCHANGED <<stored, objects, buffers, load, allFlows, crossed, doubt, listDoubt>>
    BY <1>1 DEF Expire, ghost
  <2>4. CopiesFresh'
    <3> SUFFICES ASSUME NEW f \in Files, f \notin doubt PROVE FileFresh(f)'
      BY <2>3 DEF CopiesFresh
    <3>1. FileFresh(f)
      BY <1>0 DEF CopiesFresh
    <3>2. /\ Invalidates(f, {"invalidateObject"}) => Invalidates(f, {"invalidateObject"})'
          /\ Invalidates(f, Both) => Invalidates(f, Both)'
      BY <2>2 DEF Both
    <3>. QED BY <2>3, <3>1, <3>2 DEF FileFresh
  <2>5. GatheredFresh'
    BY <1>0, <2>2, <2>3 DEF GatheredFresh
  <2>6. ListFresh'
    BY <1>0, <2>1, <2>3 DEF ListFresh, Exists
  <2>. QED BY <2>4, <2>5, <2>6
<1>2. CASE Watch(h)
  <2>0. /\ UNCHANGED <<stored, op, load>>
        /\ objects' = [g \in Files |-> IF g \in Under(h) THEN Absent ELSE objects[g]]
        /\ buffers' = [g \in Files |-> IF g \in Under(h) THEN Absent ELSE buffers[g]]
        /\ Touch(Under(h), Under(h), {})
        /\ allFlows' = Unloaded \/ UNCHANGED <<allFlows, listDoubt>>
    BY <1>2 DEF Watch, Forget
  <2>1. CopiesFresh'
    <3> SUFFICES ASSUME NEW g \in Files, g \notin doubt' PROVE FileFresh(g)'
      BY DEF CopiesFresh
    <3>1. CASE g \in Under(h)
      <4>1. objects'[g] = Absent /\ buffers'[g] = Absent
        BY <2>0, <3>1
      <4>. QED BY <2>0, <3>1, <4>1, NotHeld
    <3>2. CASE g \notin Under(h)
      <4>1. objects'[g] = objects[g] /\ buffers'[g] = buffers[g]
        BY <2>0, <3>2
      <4>2. FileFresh(g)
        BY <1>0, <2>0, <3>2 DEF CopiesFresh, Touch
      <4>. QED BY <2>0, <4>1, <4>2 DEF FileFresh, Invalidates
    <3>. QED BY <3>1, <3>2
  <2>2. GatheredFresh'
    BY <2>0, AllCrossed
  <2>3. ListFresh'
    BY <1>0, <2>0 DEF ListFresh, Exists
  <2>. QED BY <2>1, <2>2, <2>3
<1>3. CASE Evict(h)
  <2>0. UNCHANGED <<stored, op, load, allFlows, crossed, doubt, listDoubt>>
    BY <1>3 DEF Evict
  <2>1. \A g \in Files : objects'[g] \in {Absent, objects[g]} /\ buffers'[g] \in {Absent, buffers[g]}
    BY <1>0, <1>3 DEF Evict, TypeOK, GhostTypeOK
  <2>2. CopiesFresh'
    <3> SUFFICES ASSUME NEW g \in Files, g \notin doubt PROVE FileFresh(g)'
      BY <2>0 DEF CopiesFresh
    <3>1. FileFresh(g)
      BY <1>0 DEF CopiesFresh
    <3>. QED BY <2>0, <2>1, <3>1 DEF FileFresh, Invalidates
  <2>3. GatheredFresh' /\ ListFresh'
    BY <1>0, <2>0 DEF GatheredFresh, ListFresh, Invalidates, Exists
  <2>. QED BY <2>2, <2>3
<1>. QED BY <1>1, <1>2, <1>3

\* A load keeps the copies and the list fresh: what it fills is, unless a change
\* overtook it.
LEMMA LoadsKeepFresh ==
  ASSUME SettleInv, TypeOK', NEW l \in Loaders, LoadStep(l)
  PROVE  CopiesFresh' /\ GatheredFresh' /\ ListFresh'
<1>0. TypeOK /\ ReadsSound /\ CopiesFresh /\ GatheredFresh /\ ListFresh
  BY DEF SettleInv, EmptyInv
<1>t. /\ load \in [Loaders -> Call]
      /\ objects \in [Files -> Contents \cup {Absent}]
      /\ buffers \in [Files -> Contents \cup {Absent}]
  BY <1>0 DEF TypeOK, GhostTypeOK
\* A step of one read: what it has to show of the file it reads.
<1>r. ASSUME NEW f \in Files,
             UNCHANGED <<stored, op, crossed>>,
             allFlows' = Unloaded \/ UNCHANGED <<allFlows, listDoubt>>,
             doubt \subseteq doubt',
             \A g \in Files \ {f} : load'[l].file[g] = load[l].file[g],
             \A m \in Loaders \ {l} : load'[m] = load[m],
             \A g \in Files \ {f} : objects'[g] = objects[g] /\ buffers'[g] = buffers[g],
             load'[l].at \in {load[l].at, "empty"},
             load'[l].file[f].at # "none",
             f \notin doubt' =>
               /\ objects'[f] \notin {Absent, stored[f]} => Invalidates(f, {"invalidateObject"})
               /\ buffers'[f] \notin {Absent, stored[f]} => Invalidates(f, Both)
               /\ load'[l].file[f].at = "fillBuffer" => load'[l].file[f].got = stored[f]
               /\ load'[l].file[f].at = "fillObject" /\ load'[l].file[f].got # stored[f] =>
                    Invalidates(f, Both)
               /\ load'[l].file[f].at = "done" /\ load'[l].at = "reading" =>
                    load'[l].file[f].got = stored[f] \/ Invalidates(f, Both)
      PROVE  CopiesFresh' /\ GatheredFresh' /\ ListFresh'
  <2>i. \A g, stages : Invalidates(g, stages)' <=> Invalidates(g, stages)
    BY <1>r DEF Invalidates
  <2>1. ASSUME NEW g \in Files, g \notin doubt' PROVE FileFresh(g)'
    <3>1. FileFresh(g)
      BY <1>0, <1>r, <2>1 DEF CopiesFresh
    <3>2. CASE g # f
      <4>1. \A m \in Loaders : load'[m].file[g] = load[m].file[g]
        BY <1>r, <3>2
      <4>. QED BY <1>r, <2>i, <3>1, <3>2, <4>1 DEF FileFresh
    <3>3. CASE g = f
      <4>1. ASSUME NEW m \in Loaders
            PROVE  /\ load'[m].file[f].at = "fillBuffer" => load'[m].file[f].got = stored[f]
                   /\ load'[m].file[f].at = "fillObject" /\ load'[m].file[f].got # stored[f] =>
                        Invalidates(f, Both)
        <5>1. CASE m = l
          BY <1>r, <2>1, <3>3, <5>1
        <5>2. CASE m # l
          BY <1>r, <3>1, <3>3, <5>2 DEF FileFresh
        <5>. QED BY <5>1, <5>2
      <4>. QED BY <1>r, <2>1, <2>i, <3>3, <4>1 DEF FileFresh
    <3>. QED BY <3>2, <3>3
  <2>2. ASSUME NEW m \in Loaders, m \notin crossed, NEW g \in Files, load'[m].at = "reading"
        PROVE  /\ load'[m].file[g].at = "none" => load'[m].file[g].got = Absent
               /\ load'[m].file[g].at = "done" /\ g \notin doubt' =>
                    load'[m].file[g].got = stored[g] \/ Invalidates(g, Both)
    <3>1. CASE m = l /\ g = f
      BY <1>r, <2>2, <3>1
    <3>2. CASE ~ (m = l /\ g = f)
      <4>1. load'[m].file[g] = load[m].file[g] /\ load[m].at = "reading"
        BY <1>r, <2>2, <3>2
      <4>. QED BY <1>0, <1>r, <2>2, <4>1 DEF GatheredFresh
    <3>. QED BY <3>1, <3>2
  <2>3. ListFresh'
    BY <1>0, <1>r DEF ListFresh, Exists
  <2>4. CopiesFresh'
    BY <2>1 DEF CopiesFresh
  <2>5. GatheredFresh'
    BY <1>r, <2>2, <2>i DEF GatheredFresh
  <2>. QED BY <2>3, <2>4, <2>5
\* A step of the whole call.
<1>c. ASSUME UNCHANGED <<stored, objects, buffers, op, doubt>>,
             \A m \in Loaders \ {l} : load'[m] = load[m] /\ (m \in crossed' <=> m \in crossed),
             \A f \in Files : load'[l].file[f].at \in {"none", "lookUp"} /\ load'[l].file[f].got = Absent
      PROVE  CopiesFresh' /\ GatheredFresh'
  <2>i. \A g, stages : Invalidates(g, stages)' <=> Invalidates(g, stages)
    BY <1>c DEF Invalidates
  <2>1. ASSUME NEW g \in Files, g \notin doubt PROVE FileFresh(g)'
    <3>1. FileFresh(g)
      BY <1>0, <2>1 DEF CopiesFresh
    <3>. QED BY <1>c, <2>i, <3>1 DEF FileFresh
  <2>2. GatheredFresh'
    <3>1. ASSUME NEW m \in Loaders, m \notin crossed', NEW g \in Files, load'[m].at = "reading"
          PROVE  /\ load'[m].file[g].at = "none" => load'[m].file[g].got = Absent
                 /\ load'[m].file[g].at = "done" /\ g \notin doubt =>
                      load'[m].file[g].got = stored[g] \/ Invalidates(g, Both)
      <4>1. CASE m = l
        BY <1>c, <4>1
      <4>2. CASE m # l
        BY <1>0, <1>c, <3>1, <4>2 DEF GatheredFresh
      <4>. QED BY <4>1, <4>2
    <3>. QED BY <1>c, <2>i, <3>1 DEF GatheredFresh
  <2>. QED BY <1>c, <2>1, <2>2 DEF CopiesFresh
<1>1. CASE Load(l)
  <2>1. UNCHANGED <<stored, objects, buffers, op, doubt, allFlows, listDoubt>> /\ crossed' = crossed \ {l}
    BY <1>1 DEF Load, ghost
  <2>2. ListFresh'
    BY <1>0, <2>1 DEF ListFresh, Exists
  <2>. QED BY <1>1, <1>c, <1>t, <2>1, <2>2, CallEffects
<1>2. CASE List(l)
  <2>1. UNCHANGED <<stored, objects, buffers, op, doubt, allFlows, listDoubt, crossed>>
    BY <1>2 DEF List, ghost
  <2>2. ListFresh'
    BY <1>0, <2>1 DEF ListFresh, Exists
  <2>. QED BY <1>2, <1>c, <1>t, <2>1, <2>2, CallEffects
<1>3. CASE Finish(l)
  <2>1. UNCHANGED <<stored, objects, buffers, op, doubt>> /\ crossed' = crossed \ {l}
    BY <1>3 DEF Finish, ghost
  <2>2. ListFresh'
    <3> SUFFICES ASSUME ~ listDoubt', ~ \E i \in Ops : op[i].at \in Both \cup {"clear"}
                 PROVE  \A f \in Files : allFlows'[f] = IF Exists(f) THEN stored[f] ELSE Absent
      BY <2>1 DEF ListFresh, Exists
    <3>1. /\ l \notin crossed /\ doubt = {} /\ load[l].at = "reading"
          /\ allFlows' = [f \in Files |-> load[l].file[f].got]
          /\ \A f \in Files : load[l].file[f].at \in {"none", "done"}
      BY <1>3 DEF Finish, Pending
    <3>2. ASSUME NEW f \in Files PROVE load[l].file[f].got = IF Exists(f) THEN stored[f] ELSE Absent
      <4>1. load[l].file[f].at = "none" <=> ~ Exists(f)
        BY <1>0, <3>1 DEF ReadsSound
      <4>2. ~ Invalidates(f, Both)
        BY DEF Invalidates
      <4>3. CASE Exists(f)
        BY <1>0, <3>1, <4>1, <4>2, <4>3 DEF GatheredFresh
      <4>4. CASE ~ Exists(f)
        BY <1>0, <3>1, <4>1, <4>4 DEF GatheredFresh
      <4>. QED BY <4>3, <4>4
    <3>. QED BY <3>1, <3>2
  <2>. QED BY <1>3, <1>c, <1>t, <2>1, <2>2, CallEffects
\* What is known of the copies of a file that is read.
<1>p. ASSUME NEW f \in Files, f \notin doubt
      PROVE  /\ objects[f] \notin {Absent, stored[f]} => Invalidates(f, {"invalidateObject"})
             /\ buffers[f] \notin {Absent, stored[f]} => Invalidates(f, Both)
             /\ load[l].file[f].at = "fillBuffer" => load[l].file[f].got = stored[f]
             /\ load[l].file[f].at = "fillObject" /\ load[l].file[f].got # stored[f] =>
                  Invalidates(f, Both)
  BY <1>0, <1>p DEF CopiesFresh, FileFresh
<1>o. \A f : Invalidates(f, {"invalidateObject"}) => Invalidates(f, Both)
  BY DEF Invalidates, Both
\* A read that fails empties the load.
<1>f. ASSUME NEW f \in Files, NEW v, ReadFails(l, f, v),
             UNCHANGED <<stored, objects, buffers, op, crossed, doubt, allFlows, listDoubt>>
      PROVE  CopiesFresh' /\ GatheredFresh' /\ ListFresh'
  BY <1>f, <1>p, <1>r, <1>t, ReadEffects
<1>4. ASSUME NEW f \in Files, LookUp(l, f) PROVE CopiesFresh' /\ GatheredFresh' /\ ListFresh'
  <2>0. UNCHANGED <<stored, objects, buffers, op, crossed, doubt, allFlows, listDoubt>>
    BY <1>4 DEF LookUp, ghost
  <2>1. PICK at \in {"getObject", "getBuffer", "read"} : Reads(l, f, at, Absent)
    BY <1>4 DEF LookUp
  <2>. QED BY <1>p, <1>r, <1>t, <2>0, <2>1, ReadEffects
<1>5. ASSUME NEW f \in Files, Get(l, f) PROVE CopiesFresh' /\ GatheredFresh' /\ ListFresh'
  <2>0. UNCHANGED <<stored, objects, buffers, op, crossed, doubt, allFlows, listDoubt>>
    BY <1>5 DEF Get, ghost
  <2>1. ASSUME NEW v, ReadFails(l, f, v) PROVE CopiesFresh' /\ GatheredFresh' /\ ListFresh'
    BY <1>f, <2>0, <2>1
  <2>2. CASE objects[f] # Absent /\ Reads(l, f, "done", objects[f])
    BY <1>o, <1>p, <1>r, <1>t, <2>0, <2>2, ReadEffects
  <2>3. CASE buffers[f] # Absent /\ Reads(l, f, "fillObject", buffers[f])
    BY <1>p, <1>r, <1>t, <2>0, <2>3, ReadEffects
  <2>. QED BY <1>5, <2>1, <2>2, <2>3 DEF Get
<1>6. ASSUME NEW f \in Files, ReadDriver(l, f) PROVE CopiesFresh' /\ GatheredFresh' /\ ListFresh'
  <2>0. UNCHANGED <<stored, objects, buffers, op, crossed, doubt, allFlows, listDoubt>>
    BY <1>6 DEF ReadDriver, ghost
  <2>1. CASE ReadFails(l, f, Absent)
    BY <1>f, <2>0, <2>1
  <2>2. CASE Reads(l, f, "fillBuffer", stored[f])
    BY <1>p, <1>r, <1>t, <2>0, <2>2, ReadEffects
  <2>. QED BY <1>6, <2>1, <2>2 DEF ReadDriver
<1>7. ASSUME NEW f \in Files, FillBuffer(l, f) PROVE CopiesFresh' /\ GatheredFresh' /\ ListFresh'
  <2> DEFINE v == load[l].file[f].got
  <2>0. /\ UNCHANGED <<stored, objects, op, crossed, doubt>> /\ allFlows' = Unloaded
        /\ load[l].file[f].at = "fillBuffer"
        /\ buffers'[f] = v /\ \A g \in Files \ {f} : buffers'[g] = buffers[g]
        /\ Reads(l, f, "fillObject", v)
    BY <1>7, <1>t DEF FillBuffer, Forget
  <2>1. /\ load'[l].at = load[l].at
        /\ load'[l].file[f].at = "fillObject"
        /\ load'[l].file[f].got = v
        /\ \A g \in Files \ {f} : load'[l].file[g] = load[l].file[g]
        /\ \A m \in Loaders \ {l} : load'[m] = load[m]
    BY <1>t, <2>0, ReadEffects
  <2>. QED BY <1>p, <1>r, <2>0, <2>1
<1>8. ASSUME NEW f \in Files, FillObject(l, f) PROVE CopiesFresh' /\ GatheredFresh' /\ ListFresh'
  <2> DEFINE v == load[l].file[f].got
  <2>0. /\ UNCHANGED <<stored, buffers, op, crossed>> /\ allFlows' = Unloaded
        /\ load[l].file[f].at = "fillObject"
        /\ objects'[f] = v /\ \A g \in Files \ {f} : objects'[g] = objects[g]
        /\ Reads(l, f, "done", v) \/ ReadFails(l, f, v)
        /\ doubt \subseteq doubt'
        /\ Invalidates(f, {"invalidateBuffer"}) => f \in doubt'
    BY <1>8, <1>t DEF FillObject, Forget, Invalidates
  <2>1. /\ load'[l].at \in {load[l].at, "empty"}
        /\ load'[l].file[f].at = "done"
        /\ load'[l].file[f].got = v
        /\ \A g \in Files \ {f} : load'[l].file[g] = load[l].file[g]
        /\ \A m \in Loaders \ {l} : load'[m] = load[m]
    BY <1>t, <2>0, ReadEffects
  <2>2. ASSUME f \notin doubt', v # stored[f] PROVE Invalidates(f, {"invalidateObject"})
    <3>1. Invalidates(f, Both) /\ ~ Invalidates(f, {"invalidateBuffer"})
      BY <1>p, <2>0, <2>2
    <3>. QED BY <3>1 DEF Invalidates, Both
  <2>. QED BY <1>o, <1>p, <1>r, <2>0, <2>1, <2>2
<1>9. ASSUME NEW f \in Files, ParseFails(l, f) \/ MissUi(l, f)
      PROVE  CopiesFresh' /\ GatheredFresh' /\ ListFresh'
  <2>1. /\ UNCHANGED <<stored, objects, buffers, op, crossed, doubt, allFlows, listDoubt>>
        /\ ReadFails(l, f, load[l].file[f].got)
    BY <1>9 DEF ParseFails, MissUi, ghost
  <2>. QED BY <1>f, <2>1
<1>. QED BY <1>1, <1>2, <1>3, <1>4, <1>5, <1>6, <1>7, <1>8, <1>9 DEF LoadStep

LEMMA SettleStep == SettleInv /\ [Next]_vars => SettleInv'
<1> SUFFICES ASSUME SettleInv, [Next]_vars PROVE SettleInv'
  OBVIOUS
<1>0. EmptyInv' /\ TypeOK'
  BY EmptyStep, TypesKept DEF SettleInv, EmptyInv
<1>1. ASSUME NEW i \in Ops, OpStep(i) PROVE CopiesFresh' /\ GatheredFresh' /\ ListFresh'
  BY <1>1, OpsKeepFresh
<1>2. ASSUME NEW l \in Loaders, LoadStep(l) PROVE CopiesFresh' /\ GatheredFresh' /\ ListFresh'
  BY <1>0, <1>2, LoadsKeepFresh
<1>3. ASSUME NEW f \in Files, Expire(f) \/ Watch(f) \/ Evict(f) PROVE CopiesFresh' /\ GatheredFresh' /\ ListFresh'
  BY <1>3, RestKeepsFresh
<1>4. ASSUME UNCHANGED vars PROVE CopiesFresh' /\ GatheredFresh' /\ ListFresh'
  <2>1. UNCHANGED <<stored, objects, buffers, op, load, allFlows, crossed, doubt, listDoubt>>
    BY <1>4 DEF vars, ghost
  <2>2. CopiesFresh'
    BY <2>1 DEF SettleInv, CopiesFresh, FileFresh, Invalidates
  <2>3. GatheredFresh'
    BY <2>1 DEF SettleInv, GatheredFresh, Invalidates
  <2>4. ListFresh'
    BY <2>1 DEF SettleInv, ListFresh, Exists
  <2>. QED BY <2>2, <2>3, <2>4
<1>. QED BY <1>0, <1>1, <1>2, <1>3, <1>4 DEF Next, SettleInv

LEMMA SettleStart == Init => SettleInv
<1> SUFFICES ASSUME Init PROVE SettleInv
  OBVIOUS
<1>1. /\ \A f \in Files : objects[f] = Absent /\ buffers[f] = Absent
      /\ \A l \in Loaders : load[l].at = "idle" /\ \A f \in Files : load[l].file[f].at = "none"
      /\ allFlows = Unloaded
  BY DEF Init, GhostInit, NoReads
<1>2. CopiesFresh
  BY <1>1 DEF CopiesFresh, FileFresh
<1>3. GatheredFresh /\ ListFresh
  BY <1>1 DEF GatheredFresh, ListFresh
<1>. QED BY <1>2, <1>3, EmptyStart DEF SettleInv

\* When nothing is under way, a copy in the cache that is not in doubt is what is
\* stored, and so is the list of the flows: an operation that has invalidated its
\* file (_invalidateFile) has left no older copy of it to anyone.
THEOREM CachesSettleHolds == Spec => []CachesSettle
<1>1. SettleInv => CachesSettle
  <2> SUFFICES ASSUME SettleInv, Quiet PROVE CachesSettle
    BY DEF CachesSettle
  <2>1. \A i \in Ops : op[i].at \notin Both \cup {"clear"}
    BY DEF Quiet, Resting, Both
  <2>2. ASSUME NEW f \in Listing \ doubt
        PROVE  objects[f] \in {Absent, stored[f]} /\ buffers[f] \in {Absent, stored[f]}
    BY <2>1 DEF SettleInv, CopiesFresh, FileFresh, Invalidates, Both, Listing
  <2>3. allFlows # Unloaded /\ ~ listDoubt =>
          \A f \in Files : allFlows[f] = IF Exists(f) THEN stored[f] ELSE Absent
    BY <2>1 DEF SettleInv, ListFresh
  <2>. QED BY <2>2, <2>3 DEF CachesSettle
<1>. QED BY <1>1, SettleStart, SettleStep, PTL DEF Spec
================================================================================
