------------------------------ MODULE VaultTx ------------------------------
(***************************************************************************)
(* Several vaultick processes (commands, the MCP server, the proxy) over   *)
(* one database file.  Each call of the library runs the SQL statements of *)
(* its function; SQLite interleaves the processes statement by statement   *)
(* under the locks of its rollback journal:                                *)
(*                                                                         *)
(*   - a transaction is deferred: its first SELECT takes SHARED, its first *)
(*     write RESERVED, its commit PENDING and then EXCLUSIVE;              *)
(*   - SHARED is refused under PENDING, RESERVED under another RESERVED,   *)
(*     EXCLUSIVE under another SHARED;                                     *)
(*   - whoever is refused waits for the busy timeout, except that the step *)
(*     from SHARED to RESERVED fails at once;                              *)
(*   - a process that dies leaves a journal that the next one rolls back.  *)
(*                                                                         *)
(* get_secret and create_workspace run their statements outside of a       *)
(* transaction.  A call that ends before its first write without holding a *)
(* lock changes nothing and is a stuttering step.                          *)
(***************************************************************************)
EXTENDS Sequences, FiniteSets

CONSTANTS
    Procs,          \* processes with a connection of their own
    Timeouts,       \* whether a wait may exceed the busy timeout
    Uuids, Deks, Names, DefaultName, PublicKeys, NoKey,
    RawKeys, Keys, Normal, Empty, Values,
    Garbage         \* bytes that are no payload anybody stored

ASSUME NamesAssumption == DefaultName \in Names \ Uuids
ASSUME NoKeyAssumption == NoKey \notin PublicKeys
ASSUME NormalAssumption ==
    /\ Normal \in [RawKeys -> Keys \cup {Empty}]
    /\ Empty \notin Keys
    /\ \A k \in Keys : k \in RawKeys /\ Normal[k] = k

VARIABLES
    db,      \* the committed tables
    drawn,   \* random values in committed rows, now or before
    handed,  \* history: every wrapped key that was ever committed
    job      \* what each process is doing

vars == <<db, drawn, handed, job>>

V == INSTANCE Vault WITH
    workspaces <- db.workspaces, certificates <- db.certificates,
    secrets <- db.secrets, recipients <- db.recipients

Tables == {"workspaces", "certificates", "secrets", "recipients"}
NoRows == [t \in Tables |-> {}]
Idle == [pc |-> "idle"]
-----------------------------------------------------------------------------
(* SQLite: statements, constraints and locks *)

\* A statement is the rows it removes, cascades included, and those it adds.
Statement(gone, new) == [gone |-> gone, new |-> new]
Insert(table, rows) == Statement(NoRows, [NoRows EXCEPT ![table] = rows])
Delete(table, rows) == Statement([NoRows EXCEPT ![table] = rows], NoRows)

\* A step of the function that fails after it has written.
Fail == [fail |-> TRUE]

Apply(d, stmt) == [t \in Tables |-> (d[t] \ stmt.gone[t]) \cup stmt.new[t]]

\* The UNIQUE and FOREIGN KEY constraints of the schema.
Constraints(d) ==
    /\ \A v, w \in d.workspaces : v.name = w.name => v = w
    /\ \A b, c \in d.certificates : b.ws = c.ws /\ b.pub = c.pub => b = c
    /\ \A s, t \in d.secrets : s.ws = t.ws /\ s.key = t.key => s = t
    /\ \A row \in d.certificates \cup d.secrets :
           \E w \in d.workspaces : w.id = row.ws
    /\ \A r \in d.recipients :
           /\ \E s \in d.secrets : s.id = r.secret
           /\ \E c \in d.certificates : c.id = r.cert

Rejected(d, stmt) == IF stmt = Fail THEN TRUE ELSE ~Constraints(Apply(d, stmt))

InTransaction(p) == job[p].pc \in {"begun", "writing", "committing"}
HoldsShared(p) == InTransaction(p) /\ job[p].tx
HoldsReserved(p) == HoldsShared(p) /\ job[p].pc # "begun"
HoldsPending(p) == job[p].pc = "committing"

Others(p) == Procs \ {p}
MayRead(p) == \A q \in Others(p) : ~HoldsPending(q)
MayReserve(p) == \A q \in Others(p) : ~HoldsReserved(q)

\* The calls that work outside of a transaction.
Reads(p) == job[p].pc \in {"finding", "listing"}
Autocommits(p) == job[p].pc \in {"begun", "writing"} /\ ~job[p].tx

\* Mutant: the step from SHARED to RESERVED waits as well.
WaitsToReserve(p) ==
    {q \in Others(p) :
        \/ Reads(p) /\ HoldsPending(q)
        \/ Autocommits(p) /\ HoldsShared(q)
        \/ HoldsPending(p) /\ HoldsShared(q)
        \/ HoldsShared(p) /\ ~HoldsPending(p) /\ HoldsReserved(q)}

\* Whose locks the next statement of a call waits for: SQLite has the reader
\* of a transaction wait for nobody when it begins to write.
WaitsFor(p) ==
    {q \in Others(p) :
        \/ Reads(p) /\ HoldsPending(q)
        \/ Autocommits(p) /\ HoldsShared(q)
        \/ HoldsPending(p) /\ HoldsShared(q)}

\* Draws of calls under way are not repeated either.
Drawing == UNION {job[p].draws : p \in {q \in Procs : InTransaction(q)}}
FreshUuids == V!FreshUuids \ Drawing
FreshDeks == V!FreshDeks \ Drawing

Ready(p) == job[p].pc \in {"idle", "returned"}
-----------------------------------------------------------------------------
(* Commit and rollback *)

\* What is sealed under a key, and whether a private key opens it, in tables d.
SealedIn(d, ws, key) == {s.sealed : s \in {t \in d.secrets : t.ws = ws /\ t.key = key}}
OpensIn(d, ws, key, priv) ==
    \E s \in d.secrets, r \in d.recipients :
        /\ s.ws = ws /\ s.key = key /\ r.secret = s.id
        /\ r.wrapped = [pub |-> priv, dek |-> s.sealed.dek]

\* History: a read under way notes what it could have returned.
Witness(j, d) ==
    IF j.pc \notin {"finding", "listing"} THEN j
    ELSE [j EXCEPT !.seen = @ \cup SealedIn(d, j.ws, j.key),
                   !.entitled = @ /\ OpensIn(d, j.ws, j.key, j.priv)]

Publish(p, d, next) ==
    /\ db' = d
    /\ drawn' = drawn \cup job[p].draws
    /\ handed' = handed \cup {r.wrapped : r \in d.recipients}
    /\ job' = [q \in Procs |-> IF q = p THEN next ELSE Witness(job[q], d)]

\* The transaction is dropped: nothing it wrote is kept.
Rollback(p) ==
    /\ job' = [job EXCEPT ![p] = Idle]
    /\ UNCHANGED <<db, drawn, handed>>
-----------------------------------------------------------------------------
(* Write calls: the reads and checks, then the list of statements *)

\* Mutant: the certificate is checked and deleted in autocommit mode.
ChecksOutside(op) ==
    op \in {"delete_workspace", "add_certificate", "set_secret", "delete_secret"}

\* The functions that open a transaction before they read.
Transactional(op) ==
    op \in {"delete_workspace", "add_certificate", "delete_certificate",
            "set_secret", "delete_secret"}

\* The SELECTs run under SHARED, so they see one state of the tables.
Begin(p, op, stmts, draws) ==
    /\ Ready(p) /\ MayRead(p)
    /\ job' = [job EXCEPT ![p] =
                  [pc |-> "begun", tx |-> Transactional(op), todo |-> stmts,
                   local |-> db, draws |-> draws]]
    /\ UNCHANGED <<db, drawn, handed>>

\* INSERT INTO workspaces is the first statement, and commits by itself.
\* Nobody names a workspace after a UUID before the UUID is drawn.
CreateWorkspace(p, name) ==
    /\ name \notin Uuids \ drawn
    /\ \E id \in FreshUuids :
        Begin(p, "create_workspace",
              <<Insert("workspaces", {[id |-> id, name |-> name]})>>, {id})

DeleteWorkspace(p, ref) ==
    \E w \in V!ResolveWorkspace(ref) :
        LET secretIds == {s.id : s \in V!SecretsOf(w.id)}
            certIds == {c.id : c \in V!CertificatesOf(w.id)}
        IN  Begin(p, "delete_workspace",
                  <<Statement(
                      [workspaces |-> {w},
                       certificates |-> V!CertificatesOf(w.id),
                       secrets |-> V!SecretsOf(w.id),
                       recipients |-> {r \in db.recipients :
                                 r.secret \in secretIds \/ r.cert \in certIds}],
                      NoRows)>>, {})

\* The certificate is inserted before the rewrap key is tried on the secrets.
AddCertificate(p, ref, pub, priv) ==
    \E w \in V!ResolveWorkspace(ref), id \in FreshUuids :
        LET insert == Insert("certificates", {[id |-> id, ws |-> w.id, pub |-> pub]})
            rewrap == IF \E s \in V!SecretsOf(w.id) : V!UnwrapSecretKey(priv, s.id) = {}
                      THEN Fail
                      ELSE Insert("recipients", {V!Rewrapped(s, id, pub, priv) :
                                                    s \in V!SecretsOf(w.id)})
        IN  /\ V!MustRewrap(w.id) => priv # NoKey
            /\ Begin(p, "add_certificate",
                     IF V!MustRewrap(w.id) THEN <<insert, rewrap>> ELSE <<insert>>, {id})

DeleteCertificate(p, ref, cref) ==
    \E w \in V!ResolveWorkspace(ref) : \E c \in V!ResolveCertificate(w.id, cref) :
        /\ ~V!WouldOrphan(c)
        /\ Begin(p, "delete_certificate",
                 <<Statement(
                     [NoRows EXCEPT !.certificates = {c},
                                    !.recipients = {r \in db.recipients : r.cert = c.id}],
                     NoRows)>>, {})

\* The row is written with a zeroed ciphertext, an overwrite deletes the old
\* recipients, the ciphertext is filled in, the new recipients follow.
SetSecret(p, ref, raw, value, overwrite) ==
    \E w \in V!ResolveWorkspace(ref), dek \in FreshDeks :
        LET key == V!NormalizeSecretKey(raw)
            existing == {s \in V!SecretsOf(w.id) : s.key = key}
        IN  /\ key # Empty
            /\ V!CertificatesOf(w.id) # {}
            /\ existing # {} => overwrite
            /\ \E id \in IF existing = {} THEN FreshUuids ELSE {s.id : s \in existing} :
                LET stored(v) == [id |-> id, ws |-> w.id, key |-> key,
                                  sealed |-> [dek |-> dek, aad |-> key, value |-> v]]
                    zeroed == stored(Garbage)
                    row(old, new) == Statement([NoRows EXCEPT !.secrets = old],
                                               [NoRows EXCEPT !.secrets = {new}])
                    old == {r \in db.recipients : r.secret = id}
                    new == {[secret |-> id, cert |-> c.id,
                             wrapped |-> [pub |-> c.pub, dek |-> dek]] :
                                c \in V!CertificatesOf(w.id)}
                    write == row(existing, zeroed)
                    fill == row({zeroed}, stored(value))
                IN  IF existing = {}
                    THEN Begin(p, "set_secret",
                               <<write, fill, Insert("recipients", new)>>, {id, dek})
                    ELSE Begin(p, "set_secret",
                               <<write, Delete("recipients", old), fill,
                                 Insert("recipients", new)>>, {dek})

DeleteSecret(p, ref, raw) ==
    \E w \in V!ResolveWorkspace(ref) : \E s \in V!SecretsOf(w.id) :
        /\ s.key = V!NormalizeSecretKey(raw)
        /\ Begin(p, "delete_secret",
                 <<Statement([NoRows EXCEPT !.secrets = {s},
                                 !.recipients = {r \in db.recipients : r.secret = s.id}],
                             NoRows)>>, {})
-----------------------------------------------------------------------------
(* Write calls: the statements *)

\* One statement of a transaction, on its private copy of the tables.  When
\* the lock is refused "database is locked" is returned.
Write(p) ==
    /\ job[p].pc \in {"begun", "writing"} /\ job[p].tx
    /\ WaitsFor(p) = {}
    /\ IF ~MayReserve(p) \/ Rejected(job[p].local, Head(job[p].todo)) THEN Rollback(p)
       ELSE /\ job' = [job EXCEPT ![p] =
                          [pc |-> IF Len(@.todo) = 1 THEN "committing" ELSE "writing",
                           tx |-> @.tx, todo |-> Tail(@.todo),
                           local |-> Apply(@.local, Head(@.todo)), draws |-> @.draws]]
            /\ UNCHANGED <<db, drawn, handed>>

\* One statement outside of a transaction.
Autocommit(p) ==
    /\ Autocommits(p) /\ WaitsFor(p) = {}
    /\ IF Rejected(db, Head(job[p].todo)) THEN Rollback(p)
       ELSE Publish(p, Apply(db, Head(job[p].todo)),
                    IF Len(job[p].todo) = 1 THEN Idle
                    ELSE [job[p] EXCEPT !.todo = Tail(@), !.pc = "writing"])

Commit(p) ==
    /\ HoldsPending(p) /\ WaitsFor(p) = {}
    /\ Publish(p, job[p].local, Idle)

\* The wait for the readers to finish exceeds the busy timeout.
CommitTimeout(p) ==
    /\ Timeouts
    /\ HoldsPending(p) /\ WaitsFor(p) # {}
    /\ Rollback(p)

\* The process dies; its locks and its uncommitted writes are gone.
Crash(p) ==
    /\ InTransaction(p)
    /\ Rollback(p)
-----------------------------------------------------------------------------
(* get_secret: three statements, each with a lock of its own *)

Return(p, outcome) ==
    job' = [job EXCEPT ![p] = [pc |-> "returned", outcome |-> outcome,
                               seen |-> job[p].seen, entitled |-> job[p].entitled]]

\* SELECT the workspace.
GetSecret(p, ref, raw, priv) ==
    /\ Ready(p) /\ MayRead(p)
    /\ V!NormalizeSecretKey(raw) # Empty
    /\ \/ /\ V!ResolveWorkspace(ref) = {}
          /\ job' = [job EXCEPT ![p] = [pc |-> "returned", outcome |-> "not_found",
                                       seen |-> {}, entitled |-> FALSE]]
       \/ \E w \in V!ResolveWorkspace(ref) :
            job' = [job EXCEPT ![p] =
                      [pc |-> "finding", ws |-> w.id, key |-> V!NormalizeSecretKey(raw),
                       priv |-> priv,
                       seen |-> SealedIn(db, w.id, V!NormalizeSecretKey(raw)),
                       entitled |-> OpensIn(db, w.id, V!NormalizeSecretKey(raw), priv)]]
    /\ UNCHANGED <<db, drawn, handed>>

\* SELECT the secret.
FindSecret(p) ==
    /\ job[p].pc = "finding" /\ WaitsFor(p) = {}
    /\ LET found == {s \in db.secrets : s.ws = job[p].ws /\ s.key = job[p].key}
       IN  IF found = {} THEN Return(p, "not_found")
           ELSE \E s \in found :
                  job' = [job EXCEPT ![p] =
                            [pc |-> "listing", ws |-> @.ws, key |-> @.key, priv |-> @.priv,
                             seen |-> @.seen, entitled |-> @.entitled, row |-> s]]
    /\ UNCHANGED <<db, drawn, handed>>

\* Mutant: a cipher without an authentication tag.
Unauthenticated(sealed, key, dek) ==
    IF dek = sealed.dek THEN sealed.value ELSE Garbage

\* AES-GCM opens a ciphertext under its own DEK and key name only.
Decrypt(sealed, key, dek) ==
    IF dek = sealed.dek /\ key = sealed.aad THEN sealed.value ELSE "crypto_error"

\* SELECT the recipients, unwrap the DEK, decrypt the row read before.
ListRecipients(p) ==
    /\ job[p].pc = "listing" /\ WaitsFor(p) = {}
    /\ LET deks == V!UnwrapSecretKey(job[p].priv, job[p].row.id)
       IN  IF deks = {} THEN Return(p, "incompatible_private_key")
           ELSE \E dek \in deks : Return(p, Decrypt(job[p].row.sealed, job[p].key, dek))
    /\ UNCHANGED <<db, drawn, handed>>

\* A statement waits longer than the busy timeout.
StatementTimeout(p) ==
    /\ Timeouts
    /\ WaitsFor(p) # {}
    /\ \/ job[p].pc = "begun" /\ ~job[p].tx /\ Rollback(p)
       \/ Reads(p) /\ Return(p, "busy") /\ UNCHANGED <<db, drawn, handed>>
-----------------------------------------------------------------------------
Init ==
    /\ \E id \in Uuids :
        /\ db = [NoRows EXCEPT !.workspaces = {[id |-> id, name |-> DefaultName]}]
        /\ drawn = {id}
    /\ handed = {}
    /\ job = [p \in Procs |-> Idle]

Refs == V!Refs

Call(p) ==
    \/ \E name \in Names : CreateWorkspace(p, name)
    \/ \E ref \in Refs :
        \/ DeleteWorkspace(p, ref)
        \/ \E pub \in PublicKeys, priv \in PublicKeys \cup {NoKey} :
                AddCertificate(p, ref, pub, priv)
        \/ \E cref \in Uuids \cup PublicKeys : DeleteCertificate(p, ref, cref)
        \/ \E raw \in RawKeys :
            \/ \E value \in Values, overwrite \in BOOLEAN :
                    SetSecret(p, ref, raw, value, overwrite)
            \/ DeleteSecret(p, ref, raw)
            \/ \E priv \in PublicKeys : GetSecret(p, ref, raw, priv)

Step(p) ==
    \/ Write(p) \/ Autocommit(p) \/ Commit(p) \/ CommitTimeout(p)
    \/ FindSecret(p) \/ ListRecipients(p) \/ StatementTimeout(p)

Next == \E p \in Procs : Call(p) \/ Step(p) \/ Crash(p)

Spec == Init /\ [][Next]_vars
-----------------------------------------------------------------------------
(* Properties *)

\* Whatever the interleaving, the crashes and the timeouts, the committed
\* tables go through steps of Vault: the calls are serialised, and every
\* check still holds when what it allowed is committed.
CallsAreAtomic == V!Spec

\* The values a read could have returned.
ValuesSeen(j) == {x.value : x \in j.seen}

\* The secret was not set during the read, and its key opened it throughout.
Undisturbed(j) == j.entitled /\ \A x, y \in j.seen : x = y

Explained(j) ==
    \/ j.outcome \in ValuesSeen(j)
    \/ j.outcome = "busy" /\ Timeouts
    \/ /\ j.outcome \in {"not_found", "incompatible_private_key", "crypto_error"}
       /\ ~Undisturbed(j)

\* What a read returns as a value was the value of the key at some moment of
\* the call, however its three statements interleave with the writers; and
\* it fails, other than by a timeout, only if the key did not open the secret
\* at some moment of it, or if the secret was set anew meanwhile.
ReadsAreCurrent == \A p \in Procs : job[p].pc = "returned" => Explained(job[p])

\* docs/services/vaultick-lib.md: a single secret can be opened by any
\* authorized private key.  A key that opens the secret throughout the call
\* gets a value.
AuthorizedReadSucceeds ==
    \A p \in Procs : job[p].pc = "returned" /\ job[p].entitled =>
        job[p].outcome \in ValuesSeen(job[p])

\* Nobody waits in a circle: in every group of processes there is one that
\* waits for none of them, so the locks alone never stop all of them.
NobodyWaitsInACircle ==
    \A group \in (SUBSET Procs) \ {{}} :
        \E p \in group : WaitsFor(p) \cap group = {}
=============================================================================
