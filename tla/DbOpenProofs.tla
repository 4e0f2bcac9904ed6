---------------------------- MODULE DbOpenProofs ----------------------------
(* Opening a database, for any number of processes and of crashes: an open *)
(* that returns finds the whole schema.                                    *)
EXTENDS DbOpen, TLAPS

\* A process is past the schema batch only when the four tables exist; tables
\* are never dropped, so that nobody else can undo this.
PastSchema ==
    /\ \A p \in Procs : pc[p] \in {"version", "seed", "open"} => tables = AllTables
    /\ \A p \in Procs : pc[p] \in {"seed", "open"} => version = 2

\* A process that found no file started before the default workspace could be
\* deleted: the file exists as soon as anybody is past Connection::open.
FreshIsEarly ==
    /\ \A p \in Procs : pc[p] \in {"create", "version", "seed", "open"} => exists
    /\ removed => exists
    /\ \A p \in Procs : fresh[p] => ~late[p]
    /\ \A p \in Procs : pc[p] = "seed" => fresh[p]

\* The invariant behind the invariants the runs check.
IInv == TypeOK /\ PastSchema /\ FreshIsEarly

\* The invariant holds before the first open.
LEMMA InitEstablishes == Init => IInv
<1> SUFFICES ASSUME Init PROVE IInv
  OBVIOUS
<1>1. exists \in BOOLEAN /\ default \in BOOLEAN
  BY DEF Init
<1>2. removed = FALSE
  BY DEF Init
<1>3. removed \in BOOLEAN
  BY <1>2
<1>4. tables \in 0..AllTables /\ version \in 0..2 /\ opens \in Nat
  BY DEF Init, AllTables
<1>5. /\ pc = [p \in Procs |-> "idle"]
      /\ fresh = [p \in Procs |-> FALSE]
      /\ late = [p \in Procs |-> FALSE]
  BY DEF Init
<1>6. pc \in [Procs -> {"idle", "open", "failed"} \cup Opening]
  BY <1>5
<1>7. fresh \in [Procs -> BOOLEAN] /\ late \in [Procs -> BOOLEAN]
  BY <1>5
<1>8. TypeOK
  BY <1>1, <1>3, <1>4, <1>6, <1>7 DEF TypeOK
<1>9. PastSchema /\ FreshIsEarly
  BY <1>2, <1>5 DEF PastSchema, FreshIsEarly
<1> QED  BY <1>8, <1>9 DEF IInv

\* The steps of one process inside open.
LEMMA OpeningPreserves ==
    ASSUME IInv, NEW p \in Procs,
           Check(p) \/ Connect(p) \/ CreateTable(p) \/ SetVersion(p) \/ Seed(p)
    PROVE  IInv'
<1> USE DEF IInv, TypeOK, AllTables, Opening, Goto
<1>1. CASE Check(p)
  BY <1>1 DEF Check, PastSchema, FreshIsEarly, IsNewDatabase, file
<1>2. CASE Connect(p)
  BY <1>2 DEF Connect, PastSchema, FreshIsEarly
<1>3. CASE CreateTable(p)
  BY <1>3 DEF CreateTable, RunsSchema, PastSchema, FreshIsEarly
<1>4. CASE SetVersion(p)
  BY <1>4 DEF SetVersion, SchemaVersion, PastSchema, FreshIsEarly
<1>5. CASE Seed(p)
  BY <1>5 DEF Seed, PastSchema, FreshIsEarly
<1> QED  BY <1>1, <1>2, <1>3, <1>4, <1>5

\* The steps of a process that has opened the file, and its death.
LEMMA OpenPreserves ==
    ASSUME IInv, NEW p \in Procs,
           Crash(p) \/ Close(p) \/ DeleteDefault(p) \/ CreateDefault(p)
    PROVE  IInv'
<1> USE DEF IInv, TypeOK, AllTables, Opening, Goto
<1>1. CASE Crash(p)
  BY <1>1 DEF Crash, file, PastSchema, FreshIsEarly
<1>2. CASE Close(p)
  BY <1>2 DEF Close, file, PastSchema, FreshIsEarly
<1>3. CASE DeleteDefault(p)
  BY <1>3 DEF DeleteDefault, PastSchema, FreshIsEarly
<1>4. CASE CreateDefault(p)
  BY <1>4 DEF CreateDefault, PastSchema, FreshIsEarly
<1> QED  BY <1>1, <1>2, <1>3, <1>4

\* The invariant holds of every behaviour.
THEOREM InductiveInvariant == Spec => []IInv
<1>1. IInv /\ [Next]_vars => IInv'
  <2> SUFFICES ASSUME IInv, [Next]_vars PROVE IInv'
    OBVIOUS
  <2>1. CASE Next
    BY <2>1, OpeningPreserves, OpenPreserves DEF Next
  <2>2. CASE UNCHANGED vars
    BY <2>2 DEF vars, IInv, TypeOK, PastSchema, FreshIsEarly
  <2> QED  BY <2>1, <2>2
<1> QED  BY InitEstablishes, <1>1, PTL DEF Spec

\* The file, the processes and the counter are always well-formed.
THEOREM TypeCorrect == Spec => []TypeOK
<1>1. IInv => TypeOK
  BY DEF IInv
<1> QED  BY <1>1, InductiveInvariant, PTL

\* Whoever is past open has the four tables and the version stamp, although
\* several processes create them at once and any of them may die half-way.
THEOREM OpenFindsSchema == Spec => []OpenSeesSchema
<1>1. IInv => OpenSeesSchema
  BY DEF IInv, PastSchema, OpenSeesSchema
<1> QED  BY <1>1, InductiveInvariant, PTL

\* An open that begins after a user deleted the default workspace does not
\* seed it again: it cannot have found the path missing.
THEOREM DeletedDefaultIsNotSeeded == Spec => []DeletedDefaultStaysDeleted
<1>1. IInv => DeletedDefaultStaysDeleted
  BY DEF IInv, FreshIsEarly, DeletedDefaultStaysDeleted
<1> QED  BY <1>1, InductiveInvariant, PTL
-----------------------------------------------------------------------------
(* When the default workspace may be missing *)

\* Whoever creates the file found none.
CreatorsAreFresh == ~exists => \A p \in Procs : pc[p] = "connect" => fresh[p]

LEMMA CreatorsStayFresh == Spec => []CreatorsAreFresh
<1>1. Init => CreatorsAreFresh
  BY DEF Init, CreatorsAreFresh
<1>2. TypeOK /\ CreatorsAreFresh /\ [Next]_vars => CreatorsAreFresh'
  <2> SUFFICES ASSUME TypeOK, CreatorsAreFresh, [Next]_vars PROVE CreatorsAreFresh'
    OBVIOUS
  <2> USE DEF CreatorsAreFresh, TypeOK, Goto
  <2>1. ASSUME NEW p \in Procs, Check(p) PROVE CreatorsAreFresh'
    BY <2>1 DEF Check, IsNewDatabase, file
  <2>2. ASSUME NEW p \in Procs, Connect(p) PROVE CreatorsAreFresh'
    BY <2>2 DEF Connect
  <2>3. ASSUME NEW p \in Procs, CreateTable(p) \/ SetVersion(p) \/ Seed(p)
        PROVE  CreatorsAreFresh'
    BY <2>3 DEF CreateTable, SetVersion, Seed
  <2>4. ASSUME NEW p \in Procs, Crash(p) \/ Close(p) \/ DeleteDefault(p) \/ CreateDefault(p)
        PROVE  CreatorsAreFresh'
    BY <2>4 DEF Crash, Close, DeleteDefault, CreateDefault, file
  <2>5. CASE UNCHANGED vars
    BY <2>5 DEF vars
  <2> QED  BY <2>1, <2>2, <2>3, <2>4, <2>5 DEF Next
<1> QED  BY <1>1, <1>2, TypeCorrect, PTL DEF Spec

\* What a step does to the promise of a default workspace.
LEMMA StepKeepsDue ==
    ASSUME TypeOK, CreatorsAreFresh, [Next]_vars, exists => DefaultIsDue
    PROVE  (exists => DefaultIsDue)' \/ \E q \in Procs : fresh[q] /\ Crash(q)
<1> USE DEF TypeOK, DefaultIsDue, Goto, Opening
<1>1. ASSUME NEW p \in Procs, Check(p) PROVE (exists => DefaultIsDue)'
  BY <1>1 DEF Check, file
<1>2. ASSUME NEW p \in Procs, Connect(p) PROVE (exists => DefaultIsDue)'
  BY <1>2 DEF Connect, CreatorsAreFresh
<1>3. ASSUME NEW p \in Procs, CreateTable(p) PROVE (exists => DefaultIsDue)'
  BY <1>3 DEF CreateTable
<1>4. ASSUME NEW p \in Procs, SetVersion(p) PROVE (exists => DefaultIsDue)'
  BY <1>4 DEF SetVersion
<1>5. ASSUME NEW p \in Procs, Seed(p) PROVE (exists => DefaultIsDue)'
  BY <1>5 DEF Seed
<1>6. ASSUME NEW p \in Procs, Crash(p), ~fresh[p] PROVE (exists => DefaultIsDue)'
  BY <1>6 DEF Crash, file
<1>7. ASSUME NEW p \in Procs, Close(p) \/ DeleteDefault(p) \/ CreateDefault(p)
      PROVE  (exists => DefaultIsDue)'
  BY <1>7 DEF Close, DeleteDefault, CreateDefault, file
<1>8. CASE UNCHANGED vars
  BY <1>8 DEF vars
<1> QED  BY <1>1, <1>2, <1>3, <1>4, <1>5, <1>6, <1>7, <1>8 DEF Next

\* A default workspace that is there, or due, is lost by a user's deletion or
\* by the death inside open of a process that found no file, and by no other
\* step of any number of processes: OpenSeesDefault fails that way only, or
\* for a process that is past open while the creator is not.
THEOREM OnlyACrashLosesTheDefault == Spec => DefaultIsLostInACrashOnly
<1>1. ASSUME TypeOK, CreatorsAreFresh, [Next]_vars
      PROVE  [(exists => DefaultIsDue) =>
                 (exists => DefaultIsDue)' \/ \E q \in Procs : fresh[q] /\ Crash(q)]_vars
  BY <1>1, StepKeepsDue
<1> QED  BY <1>1, TypeCorrect, CreatorsStayFresh, PTL DEF Spec, DefaultIsLostInACrashOnly

\* Where no open breaks off, whoever is past open finds the default
\* workspace, unless a user deleted it or the creator is about to seed it.
THEOREM DefaultIsSeeded ==
    ASSUME ~Crashes
    PROVE  Spec => [](\A p \in Procs : pc[p] = "open" => DefaultIsDue)
<1> DEFINE Due == exists => DefaultIsDue
<1>1. Init => Due
  BY DEF Init, DefaultIsDue
<1>2. TypeOK /\ CreatorsAreFresh /\ Due /\ [Next]_vars => Due'
  BY StepKeepsDue DEF Crash
<1>3. IInv /\ Due => \A p \in Procs : pc[p] = "open" => DefaultIsDue
  BY DEF IInv, FreshIsEarly
<1> HIDE DEF Due
<1> QED
  BY <1>1, <1>2, <1>3, TypeCorrect, CreatorsStayFresh, InductiveInvariant, PTL DEF Spec
=============================================================================
