----------------------------- MODULE GhostCache -----------------------------
(***************************************************************************)
(* The files of one bot behind the Ghost service                           *)
(* (core/services/ghost): the driver, which is the disk or a table of the  *)
(* database, and the memory cache, which keeps for each file the bytes     *)
(* read (buffers) and the object parsed from them (objects).               *)
(*                                                                         *)
(* The contents of a file is the number of the operation that wrote it.    *)
(* This module has the state and the steps; who takes them, and in which   *)
(* order, is for the modules that extend it: each step is what the code    *)
(* does between two awaits.                                                *)
(***************************************************************************)
EXTENDS Integers

CONSTANTS
  Files,     \* the files of the directory flows
  TopLevel   \* those that are in it directly, the others are in a sub-folder

ASSUME GhostAssumption == TopLevel \subseteq Files

VARIABLES
  db,       \* the primary driver: the database, or the disk; never changes
  stored,   \* the contents of each file, in the driver
  objects,  \* the cache: the contents of the object of each file
  buffers,  \* the cache: the contents of the bytes of each file
  notices   \* changes on the disk that chokidar has not reported yet

ghost == <<db, stored, objects, buffers, notices>>

Absent == -1   \* no such file, or not in the cache
Deleted == -2  \* a row of the table that is marked deleted

Exists(f) == stored[f] >= 0
\* Mutant of Listing: the rows marked deleted are listed.
ListingOfRows == {f \in Files : stored[f] # Absent}
Listing == {f \in Files : Exists(f)}

\* Only the disk is watched.
Notices(fs) == IF db THEN notices ELSE notices \cup fs

DriverUpsert(f, v) ==
  /\ stored' = [stored EXCEPT ![f] = v]
  /\ notices' = Notices({f})

\* The row stays in the table; a file that is not on the disk is an error.
CanDelete(f) == db \/ Exists(f)

DriverDelete(fs) ==
  /\ stored' = [f \in Files |-> IF f \notin fs THEN stored[f]
                                ELSE IF db /\ stored[f] # Absent THEN Deleted
                                ELSE Absent]
  /\ notices' = Notices({f \in fs : Exists(f)})

\* moveFile does not overwrite: file_path is the primary key of the table, for
\* the rows marked deleted too, and fse.move refuses an existing destination.
CanMove(f, to) ==
  IF db THEN stored[f] = Absent \/ stored[to] = Absent
        ELSE Exists(f) /\ ~ Exists(to)

DriverMove(f, to) ==
  /\ stored' = IF stored[f] = Absent THEN stored
               ELSE [stored EXCEPT ![to] = stored[f], ![f] = Absent]
  /\ notices' = Notices({f, to})

\* The handler of the watcher invalidates all that is under the folder of the
\* changed file.
Under(f) == IF f \in TopLevel THEN Files ELSE Files \ TopLevel

GhostInit(present) ==
  /\ db \in BOOLEAN
  /\ stored = [f \in Files |-> IF f \in present THEN 0 ELSE Absent]
  /\ objects = [f \in Files |-> Absent]
  /\ buffers = [f \in Files |-> Absent]
  /\ notices = {}

GhostTypeOK(contents) ==
  /\ db \in BOOLEAN
  /\ stored \in [Files -> contents \cup {Absent, Deleted}]
  /\ objects \in [Files -> contents \cup {Absent}]
  /\ buffers \in [Files -> contents \cup {Absent}]
  /\ notices \subseteq Files
  /\ db => notices = {}
=============================================================================
