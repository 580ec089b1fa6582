----------------------------- MODULE FlowEditing -----------------------------
(***************************************************************************)
(* The flow service (core/services/dialog/flow/service.ts) of one bot on   *)
(* top of GhostCache: editors save, create, rename and delete flows, a     *)
(* roll-back rewrites the bot, and the studio and the dialog engine load   *)
(* all the flows.  A flow is one file; its .ui.json file is read after it, *)
(* and is written, moved and deleted with it.                              *)
(*                                                                         *)
(* The list of the flows is cached a third time, in _allFlows, and a mutex *)
(* for each flow is a row of the key-value store that is read and written  *)
(* by two queries.                                                         *)
(***************************************************************************)
EXTENDS GhostCache

CONSTANTS
  Editors,
  Initially,  \* the flows the bot starts with
  Loaders,    \* those who call loadAll, one call at a time each
  MaxOps      \* bound: operations that change the flows, and mishaps

ASSUME FlowAssumption ==
  /\ Initially \subseteq Files
  /\ MaxOps \in Nat

Ops == 1..MaxOps
Contents == 0..MaxOps
Kinds == {"update", "insert", "delete", "rename", "rollback", "disk"}

Faults == {"syntax", "schema"}

Nobody == "nobody"
Unloaded == <<>>

VARIABLES
  op,        \* the operations; history: late, when what the operation knows of its
             \* mutex is out of date (another editor set it since the test, or
             \* thirty seconds have passed since it was set, or it was taken over
             \* by an operation that is late itself), until it has written
  mutex,     \* the row of each flow: its owner, and less than 30 s old or not
  faults,    \* what is wrong with each contents: "syntax" (it is no JSON), "schema"
             \* (it is no flow, or has no .ui.json file), or "none"
  load,      \* the calls of loadAll: for each file, where they are and the value
  allFlows,  \* _allFlows: the contents of each flow, Absent when not listed
  mishaps,   \* how many contents at fault were written, entries dropped from the cache
             \* and .ui.json files missing
  crossed,   \* history: loads that a change or an invalidation has crossed
  missed,   \* history: loads during which an entry of the cache was dropped to
             \* make room, or a .ui.json file was missing for the moment
  doubt,     \* history: files whose cached copy may be out of date
  listDoubt  \* history: whether the cached list may be out of date

vars == <<ghost, op, mutex, faults, mishaps, load, allFlows, crossed, missed, doubt, listDoubt>>

NoReads == [f \in Files |-> [at |-> "none", got |-> Absent]]
Active(l) == load[l].at \in {"listing", "reading"}
Pending(l, f) == load[l].file[f].at \notin {"none", "done"}

\* A read that has a value and has not stored it yet.
Held(f) == \E l \in Loaders : load[l].file[f].at \in {"fillBuffer", "fillObject"}

Resting(i) == op[i].at \in {"new", "over"}
Is(i, kind) == ~ Resting(i) /\ op[i].kind = kind
Saving(i) == op[i].at = "write" /\ Is(i, "update")

Init ==
  /\ GhostInit(Initially)
  /\ op = [i \in Ops |-> [at |-> "new"]]
  /\ mutex = [f \in Files |-> [by |-> Nobody, live |-> FALSE]]
  /\ load = [l \in Loaders |-> [at |-> "idle", file |-> NoReads]]
  /\ allFlows = Unloaded
  /\ faults = [v \in Contents |-> "none"]
  /\ mishaps = 0
  /\ crossed = {}
  /\ missed = {}
  /\ doubt = {}
  /\ listDoubt = FALSE

-----------------------------------------------------------------------------
(* What the histories record. *)

\* The files fs change, in the driver or in the cache.
Touch(fs, cleared, uncertain) ==
  /\ crossed' = crossed \cup {l \in Loaders : Active(l)}
  /\ doubt' = (doubt \ cleared) \cup {f \in fs : Held(f)} \cup uncertain

-----------------------------------------------------------------------------
(* The operations.  at says what they do next. *)

\* A mishap takes the place of an operation that has not begun.
Mishap ==
  /\ mishaps < MaxOps
  /\ op[MaxOps - mishaps].at = "new"
  /\ mishaps' = mishaps + 1

First(kind) ==
  CASE kind = "update" -> "test"
    [] kind \in {"insert", "delete", "rename"} -> "list"
    [] kind = "rollback" -> "remove"
    [] kind = "disk" -> "write"

\* A request of an editor; a roll-back of the bot (BotService.rollback); a
\* developer who edits or adds a file on the disk.
Begin(i) ==
  /\ i + mishaps <= MaxOps
  /\ op[i].at = "new"
  /\ \A j \in Ops : j < i => op[j].at # "new"
  /\ \E kind \in Kinds, e \in Editors \cup {Nobody}, f, to \in Files :
       /\ (e # Nobody) = (kind \in {"update", "insert"})
       /\ kind = "disk" => ~ db
       /\ (kind = "rename") = (f # to)
       /\ op' = [op EXCEPT ![i] = [at |-> First(kind), kind |-> kind, by |-> e,
                                   file |-> f, to |-> to, late |-> FALSE]]
  /\ UNCHANGED <<ghost, mutex, faults, mishaps, load, allFlows, crossed, missed, doubt, listDoubt>>

Over == [at |-> "over"]
Goes(i, at) ==
  op' = [op EXCEPT ![i] = IF at = "over" THEN Over ELSE [@ EXCEPT !.at = at, !.late = FALSE]]

\* insertFlow, deleteFlow and renameFlow look in the directory.
CheckListing(i) ==
  /\ op[i].at = "list"
  /\ Goes(i, IF (op[i].kind = "insert") = Exists(op[i].file) THEN "over" ELSE "write")
  /\ UNCHANGED <<ghost, mutex, faults, mishaps, load, allFlows, crossed, missed, doubt, listDoubt>>

\* Mutant of MutexFree: the owner and the age of the mutex are compared the wrong
\* way round.
MutexFreeReversed(f, e) == mutex[f].by \in {Nobody, e} \/ mutex[f].live

MutexFree(f, e) == mutex[f].by \in {Nobody, e} \/ ~ mutex[f].live

\* _testAndLockMutex has read the row.
TestMutex(i) ==
  /\ op[i].at = "test"
  /\ Goes(i, IF MutexFree(op[i].file, op[i].by) THEN "granted" ELSE "over")
  /\ UNCHANGED <<ghost, mutex, faults, mishaps, load, allFlows, crossed, missed, doubt, listDoubt>>

Overtakes(i, j) ==
  /\ op[j].at = "granted" \/ (Saving(j) /\ op[i].late)
  /\ op[j].file = op[i].file
  /\ op[j].by # op[i].by

\* It has written the row.  An insertion is over then: its file is written.
SetMutex(i) ==
  /\ op[i].at = "granted"
  /\ mutex' = [mutex EXCEPT ![op[i].file] = [by |-> op[i].by, live |-> TRUE]]
  /\ op' = [j \in Ops |->
              IF j = i THEN IF Is(i, "insert") THEN Over ELSE [op[i] EXCEPT !.at = "write"]
              ELSE IF Overtakes(i, j) THEN [op[j] EXCEPT !.late = TRUE]
              ELSE op[j]]
  /\ UNCHANGED <<ghost, faults, mishaps, load, allFlows, crossed, missed, doubt, listDoubt>>

\* Thirty seconds pass.
Expire(f) ==
  /\ mutex[f].live
  /\ mutex' = [mutex EXCEPT ![f].live = FALSE]
  /\ op' = [i \in Ops |-> IF Saving(i) /\ op[i].file = f THEN [op[i] EXCEPT !.late = TRUE]
                           ELSE op[i]]
  /\ UNCHANGED <<ghost, faults, mishaps, load, allFlows, crossed, missed, doubt, listDoubt>>

\* The driver has written the file: upsertFile, or the developer.  What a developer
\* writes and what is in the archive of a roll-back may be no flow.
Write(i) ==
  LET f == op[i].file IN
  /\ op[i].at = "write"
  /\ op[i].kind \in {"update", "insert", "rollback", "disk"}
  /\ DriverUpsert(f, i)
  /\ Goes(i, IF op[i].kind = "disk" THEN "over" ELSE "invalidateObject")
  /\ Touch({f}, {}, IF op[i].kind = "disk" THEN {f} ELSE {})
  /\ listDoubt' = (listDoubt \/ op[i].kind = "disk")
  /\ \/ UNCHANGED <<faults, mishaps>>
     \/ /\ op[i].kind \in {"rollback", "disk"}
        /\ Mishap
        /\ \E fault \in Faults : faults' = [faults EXCEPT ![i] = fault]
  /\ UNCHANGED <<db, objects, buffers, mutex, load, allFlows, missed>>

\* The driver has deleted the file.
Delete(i) ==
  LET f == op[i].file IN
  /\ op[i].at = "write"
  /\ op[i].kind = "delete"
  /\ IF CanDelete(f)
     THEN /\ DriverDelete({f})
          /\ Goes(i, "invalidateObject")
          /\ Touch({f}, {}, {})
     ELSE /\ Goes(i, "over")
          /\ UNCHANGED <<stored, notices, crossed, doubt>>
  /\ UNCHANGED <<db, objects, buffers, mutex, faults, mishaps, load, allFlows, missed, listDoubt>>

Cached(f) == objects[f] # Absent \/ buffers[f] # Absent

\* The driver has moved the file; renameFile invalidates nothing.
Move(i) ==
  LET f == op[i].file
      to == op[i].to IN
  /\ op[i].at = "write"
  /\ op[i].kind = "rename"
  /\ IF CanMove(f, to)
     THEN /\ DriverMove(f, to)
          /\ Goes(i, "clear")
          /\ Touch({f, to}, {}, {f} \cap {g \in Files : Cached(g)})
     ELSE /\ Goes(i, "over")
          /\ UNCHANGED <<stored, notices, crossed, doubt>>
  /\ UNCHANGED <<db, objects, buffers, mutex, faults, mishaps, load, allFlows, missed, listDoubt>>

\* rollback has deleted the folder of the bot; deleteFolder invalidates nothing.
RemoveFolder(i) ==
  /\ op[i].at = "remove"
  /\ DriverDelete(Files)
  /\ Goes(i, "write")
  /\ Touch(Files, {}, {f \in Files : Cached(f)})
  /\ listDoubt' = TRUE
  /\ UNCHANGED <<db, objects, buffers, mutex, faults, mishaps, load, allFlows, missed>>

\* Each key that is set or invalidated in the cache is emitted, and those of
\* files in flows/ delete the list.
Forget ==
  /\ allFlows' = Unloaded
  /\ listDoubt' = FALSE

\* _invalidateFile, first the object
InvalidateObject(i) ==
  LET f == op[i].file IN
  /\ op[i].at = "invalidateObject"
  /\ objects' = [objects EXCEPT ![f] = Absent]
  /\ Forget
  /\ Goes(i, "invalidateBuffer")
  /\ Touch({f}, {f}, {})
  /\ UNCHANGED <<db, stored, buffers, notices, mutex, faults, mishaps, load, missed>>

\* Mutant of InvalidateBuffer: the buffer is left.
InvalidateBufferNot(i) ==
  LET f == op[i].file IN
  /\ op[i].at = "invalidateBuffer"
  /\ Forget
  /\ Goes(i, IF op[i].kind = "rollback" THEN "over" ELSE "clear")
  /\ Touch({f}, {}, {})
  /\ UNCHANGED <<db, stored, objects, buffers, notices, mutex, faults, mishaps, load, missed>>

\* then the buffer
InvalidateBuffer(i) ==
  LET f == op[i].file IN
  /\ op[i].at = "invalidateBuffer"
  /\ buffers' = [buffers EXCEPT ![f] = Absent]
  /\ Forget
  /\ Goes(i, IF op[i].kind = "rollback" THEN "over" ELSE "clear")
  /\ Touch({f}, {}, {})
  /\ UNCHANGED <<db, stored, objects, notices, mutex, faults, mishaps, load, missed>>

\* this._allFlows.clear(); an insertion goes on with the mutex.
Clear(i) ==
  /\ op[i].at = "clear"
  /\ Forget
  /\ Goes(i, IF op[i].kind = "insert" THEN "test" ELSE "over")
  /\ UNCHANGED <<ghost, mutex, faults, mishaps, load, crossed, missed, doubt>>

\* The watcher reports a change of f: the keys under its folder leave the cache,
\* and the folder is emitted.  A folder with nothing behind flows does not match
\* the pattern of _listenForCacheInvalidation, so that the list stays.
Watch(f) ==
  /\ f \in notices
  /\ notices' \in {notices, notices \ {f}}
  /\ objects' = [g \in Files |-> IF g \in Under(f) THEN Absent ELSE objects[g]]
  /\ buffers' = [g \in Files |-> IF g \in Under(f) THEN Absent ELSE buffers[g]]
  /\ IF f \in TopLevel THEN UNCHANGED <<allFlows, listDoubt>> ELSE Forget
  /\ Touch(Under(f), Under(f), {})
  /\ UNCHANGED <<db, stored, op, mutex, faults, mishaps, load, missed>>

\* The cache drops its oldest entries when it is full, and emits nothing.
Evict(f) ==
  /\ \/ /\ objects[f] # Absent
        /\ objects' = [objects EXCEPT ![f] = Absent]
        /\ buffers' = buffers
     \/ /\ buffers[f] # Absent
        /\ buffers' = [buffers EXCEPT ![f] = Absent]
        /\ objects' = objects
  /\ Mishap
  /\ missed' = missed \cup {l \in Loaders : Active(l)}
  /\ UNCHANGED <<db, stored, notices, op, mutex, faults, load, allFlows, crossed, doubt, listDoubt>>

-----------------------------------------------------------------------------
(* Loads. *)

\* loadAll, when _allFlows is unset; otherwise it answers at once.
Load(l) ==
  /\ load[l].at \in {"idle", "empty"}
  /\ \A f \in Files : ~ Pending(l, f)
  /\ allFlows = Unloaded
  /\ load' = [load EXCEPT ![l] = [at |-> "listing", file |-> NoReads]]
  /\ crossed' = crossed \ {l}
  /\ missed' = missed \ {l}
  /\ UNCHANGED <<ghost, op, mutex, faults, mishaps, allFlows, doubt, listDoubt>>

List(l) ==
  /\ load[l].at = "listing"
  /\ load' = [load EXCEPT ![l].at = "reading",
        ![l].file = [f \in Files |-> [at |-> IF f \in Listing THEN "lookUp" ELSE "none",
                                      got |-> Absent]]]
  /\ UNCHANGED <<ghost, op, mutex, faults, mishaps, allFlows, crossed, missed, doubt, listDoubt>>

Reads(l, f, at, got) ==
  load' = [load EXCEPT ![l].file[f] = [at |-> at, got |-> got]]

\* A read that fails makes the load answer with no flows, and it caches no list;
\* the other reads go on.
ReadFails(l, f, got) ==
  load' = [load EXCEPT ![l].file[f] = [at |-> "done", got |-> got], ![l].at = "empty"]

\* cache.has for the object and, when it is not there, for the buffer.  (These
\* are two steps of which the second follows at once; it commutes with what may
\* come between, a look-up or an invalidation.)
LookUp(l, f) ==
  /\ load[l].file[f].at = "lookUp"
  /\ Reads(l, f, IF objects[f] # Absent THEN "getObject"
                 ELSE IF buffers[f] # Absent THEN "getBuffer" ELSE "read", Absent)
  /\ UNCHANGED <<ghost, op, mutex, faults, mishaps, allFlows, crossed, missed, doubt, listDoubt>>

Sound(v) == faults[v] = "none"

\* cache.get, which the key may have left since
Get(l, f) ==
  /\ \/ /\ load[l].file[f].at = "getObject"
        /\ IF objects[f] = Absent \/ ~ Sound(objects[f]) THEN ReadFails(l, f, objects[f])
                                                        ELSE Reads(l, f, "done", objects[f])
     \/ /\ load[l].file[f].at = "getBuffer"
        /\ IF buffers[f] = Absent THEN ReadFails(l, f, Absent)
                                  ELSE Reads(l, f, "fillObject", buffers[f])
  /\ UNCHANGED <<ghost, op, mutex, faults, mishaps, allFlows, crossed, missed, doubt, listDoubt>>

ReadDriver(l, f) ==
  /\ load[l].file[f].at = "read"
  /\ IF Exists(f) THEN Reads(l, f, "fillBuffer", stored[f]) ELSE ReadFails(l, f, Absent)
  /\ UNCHANGED <<ghost, op, mutex, faults, mishaps, allFlows, crossed, missed, doubt, listDoubt>>

FillBuffer(l, f) ==
  /\ load[l].file[f].at = "fillBuffer"
  /\ buffers' = [buffers EXCEPT ![f] = load[l].file[f].got]
  /\ Reads(l, f, "fillObject", load[l].file[f].got)
  /\ Forget
  /\ UNCHANGED <<db, stored, objects, notices, op, mutex, faults, mishaps, crossed, missed, doubt>>

\* The contents are parsed, the object is cached, and then it is looked at
\* (validateFlowSchema).  A copy made between the two invalidations of the file is in
\* doubt.
FillObject(l, f) ==
  LET v == load[l].file[f].got IN
  /\ load[l].file[f].at = "fillObject"
  /\ faults[v] # "syntax"
  /\ objects' = [objects EXCEPT ![f] = v]
  /\ IF Sound(v) THEN Reads(l, f, "done", v) ELSE ReadFails(l, f, v)
  /\ Forget
  /\ doubt' = doubt \cup
       {g \in {f} : \E i \in Ops : op[i].at = "invalidateBuffer" /\ op[i].file = g}
  /\ UNCHANGED <<db, stored, buffers, notices, op, mutex, faults, mishaps, crossed, missed>>

\* SyntaxError, after the bytes were cached
ParseFails(l, f) ==
  LET v == load[l].file[f].got IN
  /\ load[l].file[f].at = "fillObject"
  /\ faults[v] = "syntax"
  /\ ReadFails(l, f, v)
  /\ UNCHANGED <<ghost, op, mutex, faults, mishaps, allFlows, crossed, missed, doubt, listDoubt>>

\* The .ui.json file of a flow that has been read is not there: it has left the cache
\* between has and get, or an operation that is under way has not written it yet, or
\* has deleted it already.
MissUi(l, f) ==
  /\ load[l].at = "reading"
  /\ load[l].file[f].at = "done"
  /\ ReadFails(l, f, load[l].file[f].got)
  /\ Mishap
  /\ missed' = missed \cup {l}
  /\ UNCHANGED <<ghost, op, mutex, faults, allFlows, crossed, doubt, listDoubt>>

Finish(l) ==
  /\ load[l].at = "reading"
  /\ \A f \in Files : ~ Pending(l, f)
  /\ load' = [load EXCEPT ![l] = [at |-> "idle", file |-> NoReads]]
  /\ allFlows' = [f \in Files |-> load[l].file[f].got]
  /\ listDoubt' = (l \in crossed \/ doubt # {})
  /\ crossed' = crossed \ {l}
  /\ missed' = missed \ {l}
  /\ UNCHANGED <<ghost, op, mutex, faults, mishaps, doubt>>

-----------------------------------------------------------------------------
OpStep(i) ==
  \/ Begin(i) \/ CheckListing(i) \/ TestMutex(i) \/ SetMutex(i)
  \/ Write(i) \/ Delete(i) \/ Move(i) \/ RemoveFolder(i)
  \/ InvalidateObject(i) \/ InvalidateBuffer(i) \/ Clear(i)

LoadStep(l) ==
  \/ Load(l) \/ List(l) \/ Finish(l)
  \/ \E f \in Files : LookUp(l, f) \/ Get(l, f) \/ ReadDriver(l, f)
                      \/ FillBuffer(l, f) \/ FillObject(l, f) \/ ParseFails(l, f)
                      \/ MissUi(l, f)

Next ==
  \/ \E i \in Ops : OpStep(i)
  \/ \E l \in Loaders : LoadStep(l)
  \/ \E f \in Files : Expire(f) \/ Watch(f) \/ Evict(f)

Spec == Init /\ [][Next]_vars

-----------------------------------------------------------------------------
(* Properties. *)

Stages == {"test", "granted", "list", "write", "remove",
           "invalidateObject", "invalidateBuffer", "clear"}
Request == [at : Stages, kind : Kinds, by : Editors \cup {Nobody},
            file : Files, to : Files, late : BOOLEAN]
Read == [at : {"none", "lookUp", "getObject", "getBuffer", "read", "fillBuffer", "fillObject", "done"},
         got : Contents \cup {Absent}]
Call == [at : {"idle", "listing", "reading", "empty"}, file : [Files -> Read]]

\* Every variable has its type; the database is not watched.
TypeOK ==
  /\ GhostTypeOK(Contents)
  /\ op \in [Ops -> Request \cup {[at |-> "new"], Over}]
  /\ load \in [Loaders -> Call]
  /\ mutex \in [Files -> [by : Editors \cup {Nobody}, live : BOOLEAN]]
  /\ allFlows = Unloaded \/ allFlows \in [Files -> Contents \cup {Absent}]
  /\ faults \in [Contents -> Faults \cup {"none"}]
  /\ mishaps \in 0..MaxOps
  /\ crossed \subseteq Loaders
  /\ missed \subseteq Loaders
  /\ doubt \subseteq Files
  /\ listDoubt \in BOOLEAN

\* Who takes a mutex is an editor; only updates take it before they write.
RequestsSound ==
  \A i \in Ops :
    ~ Resting(i) => /\ op[i].kind \in {"update", "insert"} => op[i].by # Nobody
                    /\ op[i].at \in {"list", "remove"} => op[i].kind # "update"

\* What an editor that tested the mutex knows of it, and one that set it,
\* unless it is late.
TestedIsFree ==
  \A i \in Ops : op[i].at = "granted" /\ ~ op[i].late => MutexFree(op[i].file, op[i].by)
SetIsOwned ==
  \A i \in Ops :
    Saving(i) /\ ~ op[i].late => mutex[op[i].file] = [by |-> op[i].by, live |-> TRUE]

OneSaverPerFlow ==
  \A i, j \in Ops :
    /\ Saving(i) /\ Saving(j)
    /\ op[i].file = op[j].file
    /\ op[i].by # op[j].by
    => op[i].late \/ op[j].late

\* "Flow is currently locked by someone else": two editors are never between
\* the mutex and the file of the same flow, unless one of them tested the mutex
\* before the other had set it, or took more than thirty seconds.  With the types
\* and with what makes it inductive.
MutexInv == TypeOK /\ RequestsSound /\ TestedIsFree /\ SetIsOwned /\ OneSaverPerFlow

Quiet ==
  /\ \A i \in Ops : Resting(i)
  /\ \A l \in Loaders : ~ Active(l) /\ \A f \in Files : ~ Pending(l, f)
  /\ notices = {}

\* When nothing is under way, what the caches hold of the flows is what is
\* stored: the only copies that may be older are those of a read that a change
\* overtook and those of a file that was renamed or removed with its folder; the
\* list may be, beside, when a file was edited on the disk.
CachesSettle ==
  Quiet => /\ \A f \in Listing \ doubt :
                /\ objects[f] \in {Absent, stored[f]}
                /\ buffers[f] \in {Absent, stored[f]}
           /\ allFlows # Unloaded /\ ~ listDoubt =>
                \A f \in Files : allFlows[f] = IF Exists(f) THEN stored[f] ELSE Absent

\* A load answers that the bot has no flows (and the conversation under way fails) only when
\* one of the flows it read is at fault, when a change of the flows crossed it, or when it
\* missed what was dropped from the cache: however many loads fill the cache meanwhile, what
\* it has listed and looked up is there otherwise.
EmptyOnlyIfCrossed ==
  \A l \in Loaders :
    load[l].at = "empty" => \/ l \in crossed \cup missed
                            \/ \E f \in Files : load[l].file[f].got \in Contents /\ ~ Sound(load[l].file[f].got)
=============================================================================
