------------------------------- MODULE DbOpen -------------------------------
(***************************************************************************)
(* Vaultick::open by several processes on one path.  The schema batch and  *)
(* the seeding of the default workspace are separate autocommit            *)
(* statements, and whether to seed was decided before the file was opened. *)
(* A file may be there already, written by the older release (user_version *)
(* 1).                                                                     *)
(***************************************************************************)
EXTENDS Naturals

CONSTANTS
    Procs,
    Crashes,        \* whether an open may break off
    OldFile,        \* whether the file may stem from the older release
    MaxOpens        \* bound: calls of open in all

VARIABLES
    exists,     \* the path exists
    tables,     \* how many of the four CREATE TABLE statements took effect
    version,    \* PRAGMA user_version
    default,    \* the workspaces table has a row named default
    removed,    \* history: a user deleted the default workspace
    pc,         \* where each process is inside open
    fresh,      \* is_new_database, as the process computed it
    late,       \* history: its open began after the default was deleted
    opens       \* calls of open so far

vars == <<exists, tables, version, default, removed, pc, fresh, late, opens>>
file == <<exists, tables, version, default, removed>>

AllTables == 4
Opening == {"connect", "create", "version", "seed"}

TypeOK ==
    /\ exists \in BOOLEAN
    /\ tables \in 0..AllTables /\ version \in 0..2
    /\ default \in BOOLEAN /\ removed \in BOOLEAN
    /\ pc \in [Procs -> {"idle", "open", "failed"} \cup Opening]
    /\ fresh \in [Procs -> BOOLEAN] /\ late \in [Procs -> BOOLEAN]
    /\ opens \in Nat

Init ==
    /\ exists \in IF OldFile THEN BOOLEAN ELSE {FALSE}
    /\ tables = IF exists THEN AllTables ELSE 0
    /\ version = IF exists THEN 1 ELSE 0
    /\ default = exists
    /\ removed = FALSE
    /\ late = [p \in Procs |-> FALSE]
    /\ pc = [p \in Procs |-> "idle"]
    /\ fresh = [p \in Procs |-> FALSE]
    /\ opens = 0

Goto(p, label) == pc' = [pc EXCEPT ![p] = label]

\* Mutants: a database without a default workspace is taken for a new one; the
\* path is looked up when the connection has created it.
MissesDefault == ~default
NeverNew == FALSE

\* is_new_database: whether the path was missing.
IsNewDatabase == ~exists

\* The path is looked up before the connection exists.
Check(p) ==
    /\ pc[p] \in {"idle", "failed"} /\ opens < MaxOpens
    /\ fresh' = [fresh EXCEPT ![p] = IsNewDatabase]
    /\ late' = [late EXCEPT ![p] = removed]
    /\ opens' = opens + 1
    /\ Goto(p, "connect")
    /\ UNCHANGED file

\* Connection::open creates an empty file where there is none.
Connect(p) ==
    /\ pc[p] = "connect"
    /\ exists' = TRUE
    /\ Goto(p, "create")
    /\ UNCHANGED <<tables, version, default, removed, fresh, late, opens>>

\* Mutant: the schema is applied to a new database only.
SchemaIfFresh(p) == fresh[p]

\* The schema batch runs on every open.
RunsSchema(p) == TRUE

\* CREATE TABLE IF NOT EXISTS, one statement after the other.
CreateTable(p) ==
    /\ pc[p] = "create"
    /\ IF RunsSchema(p) /\ tables < AllTables
       THEN tables' = tables + 1 /\ UNCHANGED pc
       ELSE Goto(p, "version") /\ UNCHANGED tables
    /\ UNCHANGED <<exists, version, default, removed, fresh, late, opens>>

SchemaVersion == 2

\* PRAGMA user_version = 2 ends the batch, whatever the tables look like.
SetVersion(p) ==
    /\ pc[p] = "version"
    /\ version' = SchemaVersion
    /\ Goto(p, IF fresh[p] THEN "seed" ELSE "open")
    /\ UNCHANGED <<exists, tables, default, removed, fresh, late, opens>>

\* INSERT of the default workspace, under UNIQUE(name).
Seed(p) ==
    /\ pc[p] = "seed"
    /\ IF ~default
       THEN default' = TRUE /\ Goto(p, "open")
       ELSE Goto(p, "failed") /\ UNCHANGED default
    /\ UNCHANGED <<exists, tables, version, removed, fresh, late, opens>>

\* The process dies inside open, or a statement of it fails behind the locks of
\* others for longer than the busy timeout.
Crash(p) ==
    /\ Crashes /\ pc[p] \in Opening
    /\ Goto(p, "idle")
    /\ UNCHANGED <<file, fresh, late, opens>>

\* The connection is dropped.
Close(p) ==
    /\ pc[p] = "open"
    /\ Goto(p, "idle")
    /\ UNCHANGED <<file, fresh, late, opens>>

\* delete_workspace and create_workspace of the default workspace.
DeleteDefault(p) ==
    /\ pc[p] = "open" /\ default
    /\ default' = FALSE /\ removed' = TRUE
    /\ UNCHANGED <<exists, tables, version, pc, fresh, late, opens>>

CreateDefault(p) ==
    /\ pc[p] = "open" /\ ~default
    /\ default' = TRUE
    /\ UNCHANGED <<exists, tables, version, removed, pc, fresh, late, opens>>

Next ==
    \E p \in Procs :
        \/ Check(p) \/ Connect(p) \/ CreateTable(p) \/ SetVersion(p) \/ Seed(p)
        \/ Crash(p) \/ Close(p) \/ DeleteDefault(p) \/ CreateDefault(p)

Spec == Init /\ [][Next]_vars
-----------------------------------------------------------------------------
(* Properties *)

\* An open that returns leaves a complete schema, also when the process that
\* created the file died half-way or is still creating tables.
OpenSeesSchema == \A p \in Procs : pc[p] = "open" => tables = AllTables /\ version = 2

\* An open that begins after a user deleted the default workspace does not
\* bring it back.
DeletedDefaultStaysDeleted == \A p \in Procs : late[p] => pc[p] # "seed"

\* docs/services/vaultick-lib.md: when the database is created for the first
\* time, the default workspace is seeded automatically.
OpenSeesDefault == \A p \in Procs : pc[p] = "open" => default \/ removed

\* There is a default workspace, or a user deleted it, or a process that found
\* no file is still to seed it.
DefaultIsDue ==
    default \/ removed \/ \E q \in Procs : fresh[q] /\ pc[q] \in Opening

\* A file gets its default workspace from whoever found it missing, however
\* many others open it meanwhile: the promise is broken only in the step in
\* which the open of such a process breaks off, and by no order of the others'.
DefaultIsLostInACrashOnly ==
    [][(exists => DefaultIsDue) =>
          (exists => DefaultIsDue)' \/ \E q \in Procs : fresh[q] /\ Crash(q)]_vars
=============================================================================
