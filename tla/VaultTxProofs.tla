--------------------------- MODULE VaultTxProofs ---------------------------
(* The calls of any number of processes are atomic, and what a read returns *)
(* was current during the call: for every set of keys, values, UUIDs and    *)
(* DEKs, and every interleaving, crash and timeout.                         *)
EXTENDS VaultTx, TLAPS

VP == INSTANCE VaultProofs WITH
    workspaces <- db.workspaces, certificates <- db.certificates,
    secrets <- db.secrets, recipients <- db.recipients

-----------------------------------------------------------------------------
(* What a transaction is to bring about *)

\* The tables d are those of a call of Vault, made now with these draws.
DeletesWorkspace(d, draws) ==
    \E ref \in Refs : \E w \in V!ResolveWorkspace(ref) :
        /\ draws = {}
        /\ d.workspaces = db.workspaces \ {w}
        /\ d.certificates = {c \in db.certificates : V!OutlivesWorkspace(w.id, c)}
        /\ d.secrets = {s \in db.secrets : V!OutlivesWorkspace(w.id, s)}
        /\ d.recipients = {r \in db.recipients :
                             /\ \A s \in db.secrets \ d.secrets : r.secret # s.id
                             /\ \A c \in db.certificates \ d.certificates : r.cert # c.id}

AddsCertificate(d, draws) ==
    \E ref \in Refs, pub \in PublicKeys, priv \in PublicKeys \cup {NoKey} :
        \E w \in V!ResolveWorkspace(ref), id \in V!FreshUuids :
            LET rewrapped == IF V!MustRewrap(w.id) THEN V!SecretsOf(w.id) ELSE {}
                new == {V!Rewrapped(s, id, pub, priv) : s \in rewrapped}
            IN  /\ V!MustRewrap(w.id) => priv # NoKey
                /\ pub \notin V!PubsOf(w.id)
                /\ \A s \in rewrapped : V!UnwrapSecretKey(priv, s.id) # {}
                /\ draws = {id}
                /\ d.certificates = db.certificates \cup {[id |-> id, ws |-> w.id, pub |-> pub]}
                /\ d.recipients = db.recipients \cup new
                /\ d.workspaces = db.workspaces /\ d.secrets = db.secrets

DeletesCertificate(d, draws) ==
    \E ref \in Refs, cref \in Uuids \cup PublicKeys :
        \E w \in V!ResolveWorkspace(ref) : \E c \in V!ResolveCertificate(w.id, cref) :
            /\ ~V!WouldOrphan(c)
            /\ draws = {}
            /\ d.certificates = db.certificates \ {c}
            /\ d.recipients = V!WithoutCertificate(c)
            /\ d.workspaces = db.workspaces /\ d.secrets = db.secrets

\* The row of a secret and its envelopes, as set_secret leaves them.
SetsSecret(d, draws) ==
    \E ref \in Refs, raw \in RawKeys, value \in Values, overwrite \in BOOLEAN :
        \E w \in V!ResolveWorkspace(ref), dek \in V!FreshDeks :
            LET key == V!NormalizeSecretKey(raw)
                existing == {s \in V!SecretsOf(w.id) : s.key = key}
            IN  /\ key # Empty
                /\ V!CertificatesOf(w.id) # {}
                /\ existing # {} => overwrite
                /\ \E id \in IF existing = {} THEN V!FreshUuids ELSE {s.id : s \in existing} :
                    /\ draws = IF existing = {} THEN {id, dek} ELSE {dek}
                    /\ d.secrets = (db.secrets \ existing) \cup
                           {[id |-> id, ws |-> w.id, key |-> key,
                             sealed |-> [dek |-> dek, aad |-> key, value |-> value]]}
                    /\ d.recipients = V!ReplacedRecipients(id, dek, w.id)
                /\ d.workspaces = db.workspaces /\ d.certificates = db.certificates

DeletesSecret(d, draws) ==
    \E ref \in Refs, raw \in RawKeys :
        \E w \in V!ResolveWorkspace(ref) : \E s \in V!SecretsOf(w.id) :
            /\ s.key = V!NormalizeSecretKey(raw)
            /\ draws = {}
            /\ d.secrets = db.secrets \ {s}
            /\ d.recipients = {r \in db.recipients : r.secret # s.id}
            /\ d.workspaces = db.workspaces /\ d.certificates = db.certificates

Lands(d, draws) ==
    \/ DeletesWorkspace(d, draws) \/ AddsCertificate(d, draws) \/ DeletesCertificate(d, draws)
    \/ SetsSecret(d, draws) \/ DeletesSecret(d, draws)

\* From the copy d the remaining statements lead to the tables of a call,
\* unless one of them is rejected.
Leads1(d, s, draws) == ~Rejected(d, s) => Lands(Apply(d, s), draws)
Leads2(d, s, t, draws) == ~Rejected(d, s) => Leads1(Apply(d, s), t, draws)
Leads3(d, s, t, u, draws) == ~Rejected(d, s) => Leads2(Apply(d, s), t, u, draws)
Leads4(d, s, t, u, v, draws) == ~Rejected(d, s) => Leads3(Apply(d, s), t, u, v, draws)

Leads(d, todo, draws) ==
    \/ todo = <<>> /\ Lands(d, draws)
    \/ \E s : todo = <<s>> /\ Leads1(d, s, draws)
    \/ \E s, t : todo = <<s, t>> /\ Leads2(d, s, t, draws)
    \/ \E s, t, u : todo = <<s, t, u>> /\ Leads3(d, s, t, u, draws)
    \/ \E s, t, u, v : todo = <<s, t, u, v>> /\ Leads4(d, s, t, u, v, draws)
-----------------------------------------------------------------------------
(* The invariant *)

\* A call that writes.
Writing(j) ==
    /\ j = [pc |-> j.pc, tx |-> j.tx, todo |-> j.todo, local |-> j.local, draws |-> j.draws]
    /\ j.tx \in BOOLEAN
    /\ j.draws \subseteq Uuids \cup Deks
    /\ (j.pc = "committing") <=> (j.todo = <<>>)

\* create_workspace has its one statement before it.
Creates(todo, draws, known) ==
    \E id \in Uuids, name \in Names \ (Uuids \ known) :
        /\ draws = {id}
        /\ todo = <<Insert("workspaces", {[id |-> id, name |-> name]})>>

\* A read has seen what is sealed under the key in the tables d, and the row
\* it read, which is still there if nothing else was seen.
Reading(j, d) ==
    /\ j.pc \in {"finding", "listing"} =>
            /\ {"pc", "ws", "key", "priv", "seen", "entitled"} \subseteq DOMAIN j
            /\ j.entitled \in BOOLEAN
            /\ SealedIn(d, j.ws, j.key) \subseteq j.seen
            /\ j.entitled => OpensIn(d, j.ws, j.key, j.priv)
    /\ j.pc = "listing" =>
            /\ "row" \in DOMAIN j
            /\ j.row.ws = j.ws /\ j.row.key = j.key /\ j.row.sealed \in j.seen
            /\ Undisturbed(j) => j.row \in d.secrets
    /\ j.pc = "returned" => Explained(j)

Places == {"idle", "begun", "writing", "committing", "finding", "listing", "returned"}
Transacting(j) == j.pc \in {"begun", "writing", "committing"}

\* What is true of each job by itself, with the tables d and the draws known.
Sound(j, d, known) ==
    /\ j.pc \in Places
    /\ Transacting(j) => Writing(j)
    /\ Transacting(j) /\ ~j.tx => j.pc = "begun" /\ Creates(j.todo, j.draws, known)
    /\ Reading(j, d)

Jobs ==
    /\ job = [p \in Procs |-> job[p]]
    /\ \A p \in Procs : Sound(job[p], db, drawn)

Leaders ==
    \A p \in Procs : Transacting(job[p]) /\ job[p].tx =>
        Leads(job[p].local, job[p].todo, job[p].draws)

\* No value is drawn twice, by whomever.
Draws ==
    \A p \in Procs : Transacting(job[p]) =>
        /\ job[p].draws \cap drawn = {}
        /\ \A q \in Procs : q # p /\ Transacting(job[q]) => job[p].draws \cap job[q].draws = {}

Handed == \A r \in db.recipients : r.wrapped \in handed

\* A workspace that is named after a UUID was so when the UUID was known.
NamesKnown == \A w \in db.workspaces : w.name \notin Uuids \ drawn

\* RESERVED is held once.
OneWriter == \A p, q \in Procs : HoldsReserved(p) /\ HoldsReserved(q) => p = q

IInv == V!IInv /\ Handed /\ NamesKnown /\ Jobs /\ Leaders /\ Draws /\ OneWriter
-----------------------------------------------------------------------------
(* Vault's own invariant *)

\* What is proved of Vault holds of the committed tables.
LEMMA SameInvariant ==
    /\ V!IInv <=> VP!IInv
    /\ V!IInv' <=> VP!IInv'
BY DEF V!IInv, VP!IInv, V!TypeOK, VP!TypeOK, V!UniqueRows, VP!UniqueRows, V!LiveRows, VP!LiveRows,
       V!DrawnRows, VP!DrawnRows, V!ExactRecipients, VP!ExactRecipients, V!SealedSecrets,
       VP!SealedSecrets, V!Envelope, VP!Envelope, V!WorkspaceRow, VP!WorkspaceRow,
       V!CertificateRow, VP!CertificateRow, V!SecretRow, VP!SecretRow, V!RecipientRow,
       VP!RecipientRow, V!Wrapped, VP!Wrapped, V!Sealed, VP!Sealed

\* Both instances have the same steps.
LEMMA SameNext == V!Next => VP!Next
BY DEF V!Next, VP!Next, V!Refs, VP!Refs, V!CreateWorkspace, VP!CreateWorkspace,
       V!FreshUuids, VP!FreshUuids, V!DeleteWorkspace, VP!DeleteWorkspace,
       V!ResolveWorkspace, VP!ResolveWorkspace, V!OutlivesWorkspace, VP!OutlivesWorkspace,
       V!AddCertificate, VP!AddCertificate, V!MustRewrap, VP!MustRewrap, V!SecretsOf, VP!SecretsOf,
       V!CertificatesOf, VP!CertificatesOf, V!PubsOf, VP!PubsOf, V!Rewrapped, VP!Rewrapped,
       V!UnwrapSecretKey, VP!UnwrapSecretKey, V!DeleteCertificate, VP!DeleteCertificate,
       V!ResolveCertificate, VP!ResolveCertificate, V!WouldOrphan, VP!WouldOrphan,
       V!WithoutCertificate, VP!WithoutCertificate, V!SetSecret, VP!SetSecret,
       V!NormalizeSecretKey, VP!NormalizeSecretKey, V!WriteDeks, VP!WriteDeks,
       V!FreshDeks, VP!FreshDeks, V!ReplacedRecipients, VP!ReplacedRecipients,
       V!DeleteSecret, VP!DeleteSecret

\* A step of Vault keeps Vault's invariant.
LEMMA VaultKeeps == V!IInv /\ [V!Next]_V!vars => V!IInv'
BY SameInvariant, SameNext, VP!NextIInv, NamesAssumption, NoKeyAssumption, NormalAssumption
   DEF V!vars, VP!vars

\* So do the tables of a database that has just been created.
LEMMA VaultBegins == V!Init => V!IInv
<1>1. V!Init => VP!Init
  BY DEF V!Init, VP!Init
<1> QED
  BY <1>1, SameInvariant, VP!InitIInv, NamesAssumption, NoKeyAssumption, NormalAssumption
-----------------------------------------------------------------------------
(* Statements *)

\* What a statement does to each table.
LEMMA Applied ==
    ASSUME NEW d, NEW s
    PROVE  /\ Apply(d, s).workspaces = (d.workspaces \ s.gone.workspaces) \cup s.new.workspaces
           /\ Apply(d, s).certificates =
                (d.certificates \ s.gone.certificates) \cup s.new.certificates
           /\ Apply(d, s).secrets = (d.secrets \ s.gone.secrets) \cup s.new.secrets
           /\ Apply(d, s).recipients = (d.recipients \ s.gone.recipients) \cup s.new.recipients
BY DEF Apply, Tables

\* What is on the way to a call stays so while the tables stay as they are.
LEMMA LeadsStay ==
    ASSUME UNCHANGED <<db, drawn>>
    PROVE  \A d, todo, draws : Leads(d, todo, draws)' <=> Leads(d, todo, draws)
<1>1. \A d, draws : Lands(d, draws)' <=> Lands(d, draws)
  BY DEF Lands, DeletesWorkspace, AddsCertificate, DeletesCertificate, SetsSecret, DeletesSecret,
         V!ResolveWorkspace, V!FreshUuids, V!FreshDeks, V!SecretsOf, V!CertificatesOf, V!PubsOf,
         V!MustRewrap, V!Rewrapped, V!UnwrapSecretKey, V!ResolveCertificate, V!WouldOrphan,
         V!WithoutCertificate, V!ReplacedRecipients
<1>2. \A d, s, draws : Leads1(d, s, draws)' <=> Leads1(d, s, draws)
  BY <1>1 DEF Leads1
<1>3. \A d, s, t, draws : Leads2(d, s, t, draws)' <=> Leads2(d, s, t, draws)
  BY <1>2 DEF Leads2
<1>4. \A d, s, t, u, draws : Leads3(d, s, t, u, draws)' <=> Leads3(d, s, t, u, draws)
  BY <1>3 DEF Leads3
<1>5. \A d, s, t, u, v, draws : Leads4(d, s, t, u, v, draws)' <=> Leads4(d, s, t, u, v, draws)
  BY <1>4 DEF Leads4
<1> QED  BY <1>1, <1>2, <1>3, <1>4, <1>5 DEF Leads

\* The head and the tail of a list of statements.
LEMMA Lists ==
    /\ \A s : Head(<<s>>) = s /\ Tail(<<s>>) = <<>> /\ Len(<<s>>) = 1 /\ <<s>> # <<>>
    /\ \A s, t : /\ Head(<<s, t>>) = s /\ Tail(<<s, t>>) = <<t>> /\ Len(<<s, t>>) = 2
                 /\ <<s, t>> # <<>>
    /\ \A s, t, u : /\ Head(<<s, t, u>>) = s /\ Tail(<<s, t, u>>) = <<t, u>>
                    /\ Len(<<s, t, u>>) = 3 /\ <<s, t, u>> # <<>>
    /\ \A s, t, u, v : Head(<<s, t, u, v>>) = s /\ Len(<<s, t, u, v>>) = 4 /\ <<s, t, u, v>> # <<>>
    /\ \A s, t, u, v : Tail(<<s, t, u, v>>) = <<t, u, v>>
<1>1. \A s : Head(<<s>>) = s /\ Tail(<<s>>) = <<>> /\ Len(<<s>>) = 1 /\ <<s>> # <<>>
  OBVIOUS
<1>2. \A s, t : /\ Head(<<s, t>>) = s /\ Tail(<<s, t>>) = <<t>> /\ Len(<<s, t>>) = 2
                /\ <<s, t>> # <<>>
  OBVIOUS
<1>3. \A s, t, u : /\ Head(<<s, t, u>>) = s /\ Tail(<<s, t, u>>) = <<t, u>>
                   /\ Len(<<s, t, u>>) = 3 /\ <<s, t, u>> # <<>>
  OBVIOUS
<1>4. \A s, t, u, v : Head(<<s, t, u, v>>) = s /\ Len(<<s, t, u, v>>) = 4 /\ <<s, t, u, v>> # <<>>
  OBVIOUS
<1>5. \A s, t, u, v : Tail(<<s, t, u, v>>) = <<t, u, v>>
  OBVIOUS
<1> QED  BY <1>1, <1>2, <1>3, <1>4, <1>5

\* One statement that is not rejected is one less.
LEMMA LeadsOn ==
    ASSUME NEW d, NEW todo, NEW draws, todo # <<>>, Leads(d, todo, draws), ~Rejected(d, Head(todo))
    PROVE  /\ Leads(Apply(d, Head(todo)), Tail(todo), draws)
           /\ Len(todo) = 1 <=> Tail(todo) = <<>>
<1>1. CASE \E s : todo = <<s>> /\ Leads1(d, s, draws)
  <2>1. PICK s : todo = <<s>> /\ Leads1(d, s, draws)
    BY <1>1
  <2>2. Head(todo) = s /\ Tail(todo) = <<>> /\ Len(todo) = 1
    BY <2>1, Lists
  <2> QED  BY <2>1, <2>2 DEF Leads, Leads1
<1>2. CASE \E s, t : todo = <<s, t>> /\ Leads2(d, s, t, draws)
  <2>1. PICK s, t : todo = <<s, t>> /\ Leads2(d, s, t, draws)
    BY <1>2
  <2>2. Head(todo) = s /\ Tail(todo) = <<t>> /\ Len(todo) = 2 /\ Tail(todo) # <<>>
    BY <2>1, Lists
  <2>3. Leads1(Apply(d, s), t, draws)
    BY <2>1, <2>2 DEF Leads2
  <2> QED  BY <2>2, <2>3 DEF Leads
<1>3. CASE \E s, t, u : todo = <<s, t, u>> /\ Leads3(d, s, t, u, draws)
  <2>1. PICK s, t, u : todo = <<s, t, u>> /\ Leads3(d, s, t, u, draws)
    BY <1>3
  <2>2. Head(todo) = s /\ Tail(todo) = <<t, u>> /\ Len(todo) = 3 /\ Tail(todo) # <<>>
    BY <2>1, Lists
  <2>3. Leads2(Apply(d, s), t, u, draws)
    BY <2>1, <2>2 DEF Leads3
  <2> QED  BY <2>2, <2>3 DEF Leads
<1>4. CASE \E s, t, u, v : todo = <<s, t, u, v>> /\ Leads4(d, s, t, u, v, draws)
  <2>1. PICK s, t, u, v : todo = <<s, t, u, v>> /\ Leads4(d, s, t, u, v, draws)
    BY <1>4
  <2>2. Head(todo) = s /\ Tail(todo) = <<t, u, v>> /\ Len(todo) = 4 /\ Tail(todo) # <<>>
    BY <2>1, Lists
  <2>3. Leads3(Apply(d, s), t, u, v, draws)
    BY <2>1, <2>2 DEF Leads4
  <2> QED  BY <2>2, <2>3 DEF Leads
<1> QED  BY <1>1, <1>2, <1>3, <1>4 DEF Leads
-----------------------------------------------------------------------------
(* Steps that do not touch the tables *)

\* A step of one process needs to be looked at for its job alone.
LEMMA OneJob ==
    ASSUME IInv, NEW p \in Procs, NEW j, job' = [job EXCEPT ![p] = j],
           UNCHANGED <<db, drawn, handed>>,
           Sound(j, db, drawn),
           Transacting(j) /\ j.tx => Leads(j.local, j.todo, j.draws),
           Transacting(j) => /\ j.draws \cap drawn = {}
                             /\ \A q \in Procs : q # p /\ Transacting(job[q]) =>
                                    j.draws \cap job[q].draws = {},
           Transacting(j) /\ j.tx /\ j.pc # "begun" => MayReserve(p)
    PROVE  IInv'
<1>1. \A q \in Procs : job'[q] = IF q = p THEN j ELSE job[q]
  BY DEF IInv, Jobs
<1>2. V!IInv'
  BY VaultKeeps DEF IInv, V!vars
<1>3. Handed' /\ NamesKnown'
  BY DEF IInv, Handed, NamesKnown
<1>4. Jobs'
  <2>1. job' = [q \in Procs |-> job'[q]]
    BY <1>1 DEF IInv, Jobs
  <2>2. \A q \in Procs : Sound(job'[q], db', drawn')
    BY <1>1 DEF IInv, Jobs
  <2> QED  BY <2>1, <2>2 DEF Jobs
<1>5. Leaders'
  BY <1>1, LeadsStay DEF IInv, Leaders
<1>6. Draws'
  BY <1>1 DEF IInv, Draws
<1>7. OneWriter'
  BY <1>1 DEF IInv, OneWriter, HoldsReserved, HoldsShared, InTransaction, Transacting, MayReserve,
              Others
<1> QED  BY <1>2, <1>3, <1>4, <1>5, <1>6, <1>7 DEF IInv, Jobs

\* A process that does nothing.
LEMMA IdleIsSound == \A d, known : Sound(Idle, d, known) /\ ~Transacting(Idle)
BY DEF Idle, Sound, Transacting, Places, Reading

\* A transaction that is dropped leaves nothing.
LEMMA RollbackKeeps ==
    ASSUME IInv, NEW p \in Procs, Rollback(p)
    PROVE  IInv'
BY OneJob, IdleIsSound DEF Rollback

\* A call that is begun with statements that lead to what it is to do.
LEMMA BeginKeeps ==
    ASSUME IInv, NEW p \in Procs, NEW op, NEW stmts, NEW draws, Begin(p, op, stmts, draws),
           stmts # <<>>, draws \subseteq Uuids \cup Deks,
           draws \cap drawn = {}, draws \cap Drawing = {},
           Transactional(op) => Leads(db, stmts, draws),
           ~Transactional(op) => Creates(stmts, draws, drawn)
    PROVE  IInv'
<1> DEFINE j == [pc |-> "begun", tx |-> Transactional(op), todo |-> stmts,
                 local |-> db, draws |-> draws]
<1>1. job' = [job EXCEPT ![p] = j] /\ UNCHANGED <<db, drawn, handed>>
  BY DEF Begin
<1>2. /\ j.pc = "begun" /\ j.tx = Transactional(op) /\ j.todo = stmts /\ j.local = db
      /\ j.draws = draws
      /\ j = [pc |-> j.pc, tx |-> j.tx, todo |-> j.todo, local |-> j.local, draws |-> j.draws]
  OBVIOUS
<1>3. Transactional(op) \in BOOLEAN
  BY DEF Transactional
<1> HIDE DEF j
<1>4. Sound(j, db, drawn)
  BY <1>2, <1>3 DEF Sound, Places, Transacting, Writing, Reading
<1>5. \A q \in Procs : Transacting(job[q]) => job[q].draws \subseteq Drawing
  BY DEF Drawing, InTransaction, Transacting
<1>6. j.draws \cap drawn = {} /\ \A q \in Procs : Transacting(job[q]) => j.draws \cap job[q].draws = {}
  BY <1>2, <1>5
<1> QED  BY <1>1, <1>2, <1>4, <1>6, OneJob

\* One statement of a transaction.
LEMMA WriteKeeps ==
    ASSUME IInv, NEW p \in Procs, Write(p)
    PROVE  IInv'
<1> DEFINE q == job[p]
           stmt == Head(q.todo)
           j == [pc |-> IF Len(q.todo) = 1 THEN "committing" ELSE "writing", tx |-> q.tx,
                 todo |-> Tail(q.todo), local |-> Apply(q.local, stmt), draws |-> q.draws]
<1>1. q.pc \in {"begun", "writing"} /\ q.tx /\ Writing(q) /\ Transacting(q) /\ q.todo # <<>>
  BY DEF Write, IInv, Jobs, Sound, Transacting, Writing
<1>2. CASE Rollback(p)
  BY <1>2, RollbackKeeps
<1>3. CASE ~Rollback(p)
  <2>1. /\ ~Rejected(q.local, stmt) /\ job' = [job EXCEPT ![p] = j] /\ MayReserve(p)
        /\ UNCHANGED <<db, drawn, handed>>
    BY <1>3 DEF Write, IInv, Jobs
  <2>2. Leads(q.local, q.todo, q.draws)
    BY <1>1 DEF IInv, Leaders
  <2>3. /\ j.local = Apply(q.local, stmt) /\ j.todo = Tail(q.todo) /\ j.tx = q.tx
        /\ j.draws = q.draws /\ j.pc = IF Len(q.todo) = 1 THEN "committing" ELSE "writing"
        /\ j = [pc |-> j.pc, tx |-> j.tx, todo |-> j.todo, local |-> j.local, draws |-> j.draws]
    OBVIOUS
  <2>4. /\ Leads(Apply(q.local, stmt), Tail(q.todo), q.draws)
        /\ Len(q.todo) = 1 <=> Tail(q.todo) = <<>>
    BY <1>1, <2>1, <2>2, LeadsOn DEF Writing
  <2> HIDE DEF j
  <2>5. Sound(j, db, drawn) /\ Transacting(j)
    BY <1>1, <2>3, <2>4 DEF Sound, Places, Transacting, Writing, Reading
  <2>6. /\ q.draws \cap drawn = {}
        /\ \A r \in Procs : r # p /\ Transacting(job[r]) => q.draws \cap job[r].draws = {}
    BY <1>1 DEF IInv, Draws
  <2> QED  BY <2>1, <2>3, <2>4, <2>5, <2>6, OneJob
<1> QED  BY <1>2, <1>3
-----------------------------------------------------------------------------
(* Calls that begin *)

\* One statement, with its cascades, deletes a workspace: what it leads to is
\* the call.
LEMMA DeleteWorkspaceBegins ==
    ASSUME IInv, NEW p \in Procs, NEW ref \in Refs, DeleteWorkspace(p, ref)
    PROVE  IInv'
<1>1. PICK w \in V!ResolveWorkspace(ref) :
        LET secretIds == {s.id : s \in V!SecretsOf(w.id)}
            certIds == {c.id : c \in V!CertificatesOf(w.id)}
        IN  Begin(p, "delete_workspace",
                  <<Statement(
                      [workspaces |-> {w},
                       certificates |-> V!CertificatesOf(w.id),
                       secrets |-> V!SecretsOf(w.id),
                       recipients |-> {r \in db.recipients :
                                 r.secret \in secretIds \/ r.cert \in certIds}],
                      NoRows)>>, {})
  BY DEF DeleteWorkspace
<1> DEFINE secretIds == {s.id : s \in V!SecretsOf(w.id)}
           certIds == {c.id : c \in V!CertificatesOf(w.id)}
           keys == {r \in db.recipients : r.secret \in secretIds \/ r.cert \in certIds}
           stmt == Statement([workspaces |-> {w}, certificates |-> V!CertificatesOf(w.id),
                              secrets |-> V!SecretsOf(w.id), recipients |-> keys], NoRows)
           d == Apply(db, stmt)
<1>2. /\ d.workspaces = db.workspaces \ {w}
      /\ d.certificates = db.certificates \ V!CertificatesOf(w.id)
      /\ d.secrets = db.secrets \ V!SecretsOf(w.id)
      /\ d.recipients = db.recipients \ keys
  <2> HIDE DEF secretIds, certIds, keys
  <2> QED  BY Applied DEF Statement, NoRows, Tables
<1>3. Lands(d, {})
  <2> HIDE DEF stmt
  <2>1. /\ d.certificates = {c \in db.certificates : V!OutlivesWorkspace(w.id, c)}
        /\ d.secrets = {s \in db.secrets : V!OutlivesWorkspace(w.id, s)}
    BY <1>2 DEF V!CertificatesOf, V!SecretsOf, V!OutlivesWorkspace
  <2>2. /\ db.secrets \ d.secrets = V!SecretsOf(w.id)
        /\ db.certificates \ d.certificates = V!CertificatesOf(w.id)
    BY <1>2 DEF V!CertificatesOf, V!SecretsOf
  <2>3. d.recipients = {r \in db.recipients :
                          /\ \A s \in db.secrets \ d.secrets : r.secret # s.id
                          /\ \A c \in db.certificates \ d.certificates : r.cert # c.id}
    BY <1>2, <2>2
  <2> HIDE DEF d
  <2> QED  BY <1>2, <2>1, <2>3 DEF Lands, DeletesWorkspace
<1>4. Leads(db, <<stmt>>, {})
  BY <1>3 DEF Leads, Leads1
<1>5. Begin(p, "delete_workspace", <<stmt>>, {}) /\ Transactional("delete_workspace")
  BY <1>1 DEF Transactional
<1> QED  BY <1>4, <1>5, Lists, BeginKeeps

\* So it is with a secret and its recipients.
LEMMA DeleteSecretBegins ==
    ASSUME IInv, NEW p \in Procs, NEW ref \in Refs, NEW raw \in RawKeys, DeleteSecret(p, ref, raw)
    PROVE  IInv'
<1>1. PICK w \in V!ResolveWorkspace(ref) : \E s \in V!SecretsOf(w.id) :
        /\ s.key = V!NormalizeSecretKey(raw)
        /\ Begin(p, "delete_secret",
                 <<Statement([NoRows EXCEPT !.secrets = {s},
                                 !.recipients = {r \in db.recipients : r.secret = s.id}],
                             NoRows)>>, {})
  BY DEF DeleteSecret
<1>2. PICK s \in V!SecretsOf(w.id) :
        /\ s.key = V!NormalizeSecretKey(raw)
        /\ Begin(p, "delete_secret",
                 <<Statement([NoRows EXCEPT !.secrets = {s},
                                 !.recipients = {r \in db.recipients : r.secret = s.id}],
                             NoRows)>>, {})
  BY <1>1
<1> DEFINE keys == {r \in db.recipients : r.secret = s.id}
           stmt == Statement([NoRows EXCEPT !.secrets = {s}, !.recipients = keys], NoRows)
           d == Apply(db, stmt)
<1>3. /\ d.workspaces = db.workspaces /\ d.certificates = db.certificates
      /\ d.secrets = db.secrets \ {s} /\ d.recipients = db.recipients \ keys
  <2> HIDE DEF keys
  <2>1. \A u \in Tables : d[u] = IF u = "secrets" THEN db[u] \ {s}
                                 ELSE IF u = "recipients" THEN db[u] \ keys ELSE db[u]
    BY DEF Apply, Statement, NoRows, Tables
  <2> HIDE DEF d
  <2> QED  BY <2>1 DEF Tables
<1>4. Lands(d, {})
  <2>1. d.recipients = {r \in db.recipients : r.secret # s.id}
    BY <1>3
  <2> HIDE DEF d
  <2> QED  BY <1>2, <1>3, <2>1 DEF Lands, DeletesSecret
<1>5. Leads(db, <<stmt>>, {})
  BY <1>4 DEF Leads, Leads1
<1>6. Begin(p, "delete_secret", <<stmt>>, {}) /\ Transactional("delete_secret")
  BY <1>2 DEF Transactional
<1> QED  BY <1>5, <1>6, Lists, BeginKeeps

\* A certificate is checked and deleted in one transaction.
LEMMA DeleteCertificateBegins ==
    ASSUME IInv, NEW p \in Procs, NEW ref \in Refs, NEW cref \in Uuids \cup PublicKeys,
           DeleteCertificate(p, ref, cref)
    PROVE  IInv'
<1>1. PICK w \in V!ResolveWorkspace(ref) : \E c \in V!ResolveCertificate(w.id, cref) :
        /\ ~V!WouldOrphan(c)
        /\ Begin(p, "delete_certificate",
                 <<Statement([NoRows EXCEPT !.certificates = {c},
                                 !.recipients = {r \in db.recipients : r.cert = c.id}],
                             NoRows)>>, {})
  BY DEF DeleteCertificate
<1>2. PICK c \in V!ResolveCertificate(w.id, cref) :
        /\ ~V!WouldOrphan(c)
        /\ Begin(p, "delete_certificate",
                 <<Statement([NoRows EXCEPT !.certificates = {c},
                                 !.recipients = {r \in db.recipients : r.cert = c.id}],
                             NoRows)>>, {})
  BY <1>1
<1> DEFINE keys == {r \in db.recipients : r.cert = c.id}
           stmt == Statement([NoRows EXCEPT !.certificates = {c}, !.recipients = keys], NoRows)
           d == Apply(db, stmt)
<1>3. /\ d.workspaces = db.workspaces /\ d.secrets = db.secrets
      /\ d.certificates = db.certificates \ {c} /\ d.recipients = db.recipients \ keys
  <2> HIDE DEF keys
  <2>1. \A u \in Tables : d[u] = IF u = "certificates" THEN db[u] \ {c}
                                 ELSE IF u = "recipients" THEN db[u] \ keys ELSE db[u]
    BY DEF Apply, Statement, NoRows, Tables
  <2> HIDE DEF d
  <2> QED  BY <2>1 DEF Tables
<1>4. Lands(d, {})
  <2>1. d.recipients = V!WithoutCertificate(c)
    BY <1>3 DEF V!WithoutCertificate
  <2> HIDE DEF d
  <2> QED  BY <1>2, <1>3, <2>1 DEF Lands, DeletesCertificate
<1>5. Leads(db, <<stmt>>, {})
  BY <1>4 DEF Leads, Leads1
<1>6. Begin(p, "delete_certificate", <<stmt>>, {}) /\ Transactional("delete_certificate")
  BY <1>2 DEF Transactional
<1> QED  BY <1>5, <1>6, Lists, BeginKeeps

\* create_workspace begins with an id of its own, outside of a transaction.
LEMMA CreateWorkspaceBegins ==
    ASSUME IInv, NEW p \in Procs, NEW name \in Names, CreateWorkspace(p, name)
    PROVE  IInv'
<1>1. PICK id \in FreshUuids :
        Begin(p, "create_workspace", <<Insert("workspaces", {[id |-> id, name |-> name]})>>, {id})
  BY DEF CreateWorkspace
<1>2. id \in Uuids \ drawn /\ id \notin Drawing /\ name \in Names \ (Uuids \ drawn)
  BY DEF FreshUuids, V!FreshUuids, CreateWorkspace
<1>3. ~Transactional("create_workspace")
  BY DEF Transactional
<1> DEFINE stmts == <<Insert("workspaces", {[id |-> id, name |-> name]})>>
<1>4. stmts # <<>>
  BY Lists
<1>5. Creates(stmts, {id}, drawn)
  BY <1>2 DEF Creates
<1>6. Begin(p, "create_workspace", stmts, {id})
  BY <1>1
<1> HIDE DEF stmts
<1> QED  BY <1>2, <1>3, <1>4, <1>5, <1>6, BeginKeeps

\* A certificate under a new id is a row of its own.
LEMMA AddCertificateBegins ==
    ASSUME IInv, NEW p \in Procs, NEW ref \in Refs, NEW pub \in PublicKeys,
           NEW priv \in PublicKeys \cup {NoKey}, AddCertificate(p, ref, pub, priv)
    PROVE  IInv'
<1>1. PICK w \in V!ResolveWorkspace(ref), id \in FreshUuids :
        LET insert == Insert("certificates", {[id |-> id, ws |-> w.id, pub |-> pub]})
            rewrap == IF \E s \in V!SecretsOf(w.id) : V!UnwrapSecretKey(priv, s.id) = {}
                      THEN Fail
                      ELSE Insert("recipients", {V!Rewrapped(s, id, pub, priv) :
                                                    s \in V!SecretsOf(w.id)})
        IN  /\ V!MustRewrap(w.id) => priv # NoKey
            /\ Begin(p, "add_certificate",
                     IF V!MustRewrap(w.id) THEN <<insert, rewrap>> ELSE <<insert>>, {id})
  BY DEF AddCertificate
<1> DEFINE cert == [id |-> id, ws |-> w.id, pub |-> pub]
           insert == Insert("certificates", {cert})
           new == {V!Rewrapped(s, id, pub, priv) : s \in V!SecretsOf(w.id)}
           rewrap == IF \E s \in V!SecretsOf(w.id) : V!UnwrapSecretKey(priv, s.id) = {}
                     THEN Fail ELSE Insert("recipients", new)
           d == Apply(db, insert)
<1>2. id \in V!FreshUuids /\ id \in Uuids \ drawn /\ id \notin Drawing
  BY DEF FreshUuids, V!FreshUuids
<1>3. Transactional("add_certificate")
  BY DEF Transactional
<1>4. /\ d.workspaces = db.workspaces /\ d.secrets = db.secrets
      /\ d.certificates = db.certificates \cup {cert} /\ d.recipients = db.recipients
  <2> HIDE DEF cert
  <2>1. \A u \in Tables : d[u] = IF u = "certificates" THEN db[u] \cup {cert} ELSE db[u]
    BY DEF Apply, Insert, Statement, NoRows, Tables
  <2> HIDE DEF d
  <2> QED  BY <2>1 DEF Tables
<1>5. ~Rejected(db, insert) => pub \notin V!PubsOf(w.id)
  <2> SUFFICES ASSUME Constraints(d), NEW c \in db.certificates, c.ws = w.id, c.pub = pub
               PROVE  FALSE
    BY DEF Rejected, V!PubsOf, V!CertificatesOf
  <2> HIDE DEF d
  <2>1. c.id \in drawn
    BY DEF IInv, V!IInv, V!DrawnRows
  <2>2. c = cert
    BY <1>4 DEF Constraints
  <2> QED  BY <1>2, <2>1, <2>2
<1> HIDE DEF d
<1>6. CASE ~V!MustRewrap(w.id)
  <2>1. ASSUME ~Rejected(db, insert) PROVE Lands(d, {id})
    BY <1>2, <1>4, <1>5, <1>6, <2>1 DEF Lands, AddsCertificate
  <2>2. Leads(db, <<insert>>, {id})
    BY <2>1 DEF Leads, Leads1, d
  <2>3. Begin(p, "add_certificate", <<insert>>, {id})
    BY <1>1, <1>6
  <2> HIDE DEF insert
  <2> QED  BY <1>2, <1>3, <2>2, <2>3, Lists, BeginKeeps
<1>7. CASE V!MustRewrap(w.id)
  <2>1. ASSUME ~Rejected(db, insert), ~Rejected(d, rewrap) PROVE Lands(Apply(d, rewrap), {id})
    <3>1. \A s \in V!SecretsOf(w.id) : V!UnwrapSecretKey(priv, s.id) # {}
      BY <2>1 DEF Rejected
    <3> DEFINE e == Apply(d, Insert("recipients", new))
    <3>2. /\ e.workspaces = d.workspaces /\ e.secrets = d.secrets
          /\ e.certificates = d.certificates /\ e.recipients = d.recipients \cup new
      <4> HIDE DEF new
      <4>1. \A u \in Tables : e[u] = IF u = "recipients" THEN d[u] \cup new ELSE d[u]
        BY DEF Apply, Insert, Statement, NoRows, Tables
      <4> HIDE DEF e
      <4> QED  BY <4>1 DEF Tables
    <3>3. Apply(d, rewrap) = e
      BY <3>1
    <3> HIDE DEF e
    <3>4. Lands(e, {id})
      BY <1>1, <1>2, <1>4, <1>5, <1>7, <2>1, <3>1, <3>2 DEF Lands, AddsCertificate
    <3> QED  BY <3>3, <3>4
  <2>2. Begin(p, "add_certificate", <<insert, rewrap>>, {id})
    BY <1>1, <1>7
  <2> HIDE DEF insert, rewrap
  <2>3. Leads2(db, insert, rewrap, {id})
    BY <2>1 DEF Leads1, Leads2, d
  <2>4. Leads(db, <<insert, rewrap>>, {id})
    BY <2>3 DEF Leads
  <2> QED  BY <1>2, <1>3, <2>2, <2>4, Lists, BeginKeeps
<1> QED  BY <1>6, <1>7

\* The row is written, zeroed, and filled: what stands in between is of no
\* consequence, since no other row has its id.
LEMMA SetSecretBegins ==
    ASSUME IInv, NEW p \in Procs, NEW ref \in Refs, NEW raw \in RawKeys, NEW value \in Values,
           NEW overwrite \in BOOLEAN, SetSecret(p, ref, raw, value, overwrite)
    PROVE  IInv'
<1> DEFINE key == V!NormalizeSecretKey(raw)
           existing(ws) == {s \in V!SecretsOf(ws) : s.key = key}
           stored(id, ws, dek, v) == [id |-> id, ws |-> ws, key |-> key,
                                      sealed |-> [dek |-> dek, aad |-> key, value |-> v]]
           row(gone, new) == Statement([NoRows EXCEPT !.secrets = gone],
                                       [NoRows EXCEPT !.secrets = {new}])
           former(id) == {r \in db.recipients : r.secret = id}
           new(id, ws, dek) == {[secret |-> id, cert |-> c.id,
                                 wrapped |-> [pub |-> c.pub, dek |-> dek]] :
                                    c \in V!CertificatesOf(ws)}
<1>1. PICK w \in V!ResolveWorkspace(ref), dek \in FreshDeks :
        /\ key # Empty
        /\ V!CertificatesOf(w.id) # {}
        /\ existing(w.id) # {} => overwrite
        /\ \E id \in IF existing(w.id) = {} THEN FreshUuids ELSE {s.id : s \in existing(w.id)} :
              LET zeroed == stored(id, w.id, dek, Garbage)
                  write == row(existing(w.id), zeroed)
                  fill == row({zeroed}, stored(id, w.id, dek, value))
              IN  IF existing(w.id) = {}
                  THEN Begin(p, "set_secret",
                             <<write, fill, Insert("recipients", new(id, w.id, dek))>>, {id, dek})
                  ELSE Begin(p, "set_secret",
                             <<write, Delete("recipients", former(id)), fill,
                               Insert("recipients", new(id, w.id, dek))>>, {dek})
  BY DEF SetSecret
<1> DEFINE found == existing(w.id)
<1>2. PICK id \in IF found = {} THEN FreshUuids ELSE {s.id : s \in found} :
        LET zeroed == stored(id, w.id, dek, Garbage)
            write == row(found, zeroed)
            fill == row({zeroed}, stored(id, w.id, dek, value))
        IN  IF found = {}
            THEN Begin(p, "set_secret",
                       <<write, fill, Insert("recipients", new(id, w.id, dek))>>, {id, dek})
            ELSE Begin(p, "set_secret",
                       <<write, Delete("recipients", former(id)), fill,
                         Insert("recipients", new(id, w.id, dek))>>, {dek})
  BY <1>1
<1> DEFINE zeroed == stored(id, w.id, dek, Garbage)
           filled == stored(id, w.id, dek, value)
           write == row(found, zeroed)
           fill == row({zeroed}, filled)
           drop == Delete("recipients", former(id))
           seal == Insert("recipients", new(id, w.id, dek))
<1>3. /\ dek \in V!FreshDeks /\ dek \in Deks \ drawn /\ dek \notin Drawing
      /\ found = {} => id \in V!FreshUuids /\ id \in Uuids \ drawn /\ id \notin Drawing
  BY <1>2 DEF FreshUuids, FreshDeks, V!FreshUuids, V!FreshDeks
<1>4. Transactional("set_secret")
  BY DEF Transactional
<1>5. \A s \in db.secrets : s.id = id => s \in found
  <2>1. CASE found = {}
    BY <1>3, <2>1 DEF IInv, V!IInv, V!DrawnRows
  <2>2. CASE found # {}
    BY <1>2, <2>2 DEF IInv, V!IInv, V!UniqueRows, V!SecretsOf
  <2> QED  BY <2>1, <2>2
<1>6. zeroed.id = id
  OBVIOUS
<1>7. \A d, u : u \in Tables =>
        /\ Apply(d, write)[u] = IF u = "secrets" THEN (d[u] \ found) \cup {zeroed} ELSE d[u]
        /\ Apply(d, fill)[u] = IF u = "secrets" THEN (d[u] \ {zeroed}) \cup {filled} ELSE d[u]
        /\ Apply(d, drop)[u] = IF u = "recipients" THEN d[u] \ former(id) ELSE d[u]
        /\ Apply(d, seal)[u] = IF u = "recipients" THEN d[u] \cup new(id, w.id, dek) ELSE d[u]
  <2> HIDE DEF existing, stored, former, new
  <2> QED  BY DEF Apply, Insert, Delete, Statement, NoRows, Tables
<1> HIDE DEF write, fill, drop, seal
\* Either way the tables are those of the call.
<1>8. ASSUME NEW e,
             e.workspaces = db.workspaces, e.certificates = db.certificates,
             e.secrets = ((((db.secrets \ found) \cup {zeroed}) \ {zeroed}) \cup {filled}),
             e.recipients = (db.recipients \ former(id)) \cup new(id, w.id, dek)
      PROVE  Lands(e, IF found = {} THEN {id, dek} ELSE {dek})
  <2>1. e.secrets = (db.secrets \ found) \cup {filled}
    <3> HIDE DEF zeroed, found
    <3> QED  BY <1>5, <1>6, <1>8
  <2>2. e.recipients = V!ReplacedRecipients(id, dek, w.id)
    BY <1>8 DEF V!ReplacedRecipients
  <2>3. id \in IF found = {} THEN V!FreshUuids ELSE {s.id : s \in found}
    BY <1>2, <1>3
  <2> SUFFICES SetsSecret(e, IF found = {} THEN {id, dek} ELSE {dek})
    BY DEF Lands
  <2> QED  BY <1>1, <1>3, <1>8, <2>1, <2>2, <2>3 DEF SetsSecret
<1>9. CASE found = {}
  <2>1. former(id) = {}
    BY <1>3, <1>9 DEF IInv, V!IInv, V!DrawnRows, V!ExactRecipients, V!Envelope
  <2>2. Lands(Apply(Apply(Apply(db, write), fill), seal), {id, dek})
    <3> DEFINE d1 == Apply(db, write)
               d2 == Apply(d1, fill)
               d3 == Apply(d2, seal)
    <3> HIDE DEF zeroed, filled, found, former, new
    <3>1. /\ d1.workspaces = db.workspaces /\ d1.certificates = db.certificates
          /\ d1.secrets = (db.secrets \ found) \cup {zeroed}
          /\ d1.recipients = db.recipients
      BY <1>7 DEF Tables
    <3> HIDE DEF d1
    <3>2. /\ d2.workspaces = d1.workspaces /\ d2.certificates = d1.certificates
          /\ d2.secrets = (d1.secrets \ {zeroed}) \cup {filled}
          /\ d2.recipients = d1.recipients
      BY <1>7 DEF Tables
    <3> HIDE DEF d2
    <3>3. /\ d3.workspaces = d2.workspaces /\ d3.certificates = d2.certificates
          /\ d3.secrets = d2.secrets
          /\ d3.recipients = d2.recipients \cup new(id, w.id, dek)
      BY <1>7 DEF Tables
    <3> HIDE DEF d3
    <3>4. Lands(d3, {id, dek})
      BY <1>8, <1>9, <2>1, <3>1, <3>2, <3>3
    <3> QED  BY <3>4 DEF d1, d2, d3
  <2>3. Leads3(db, write, fill, seal, {id, dek})
    BY <2>2 DEF Leads1, Leads2, Leads3
  <2>4. Begin(p, "set_secret", <<write, fill, seal>>, {id, dek})
    BY <1>2, <1>9 DEF write, fill, seal
  <2>5. Leads(db, <<write, fill, seal>>, {id, dek})
    BY <2>3 DEF Leads
  <2> QED  BY <1>3, <1>4, <1>9, <2>4, <2>5, Lists, BeginKeeps
<1>10. CASE found # {}
  <2>1. Lands(Apply(Apply(Apply(Apply(db, write), drop), fill), seal), {dek})
    <3> DEFINE d1 == Apply(db, write)
               d2 == Apply(d1, drop)
               d3 == Apply(d2, fill)
               d4 == Apply(d3, seal)
    <3> HIDE DEF zeroed, filled, found, former, new
    <3>1. /\ d1.workspaces = db.workspaces /\ d1.certificates = db.certificates
          /\ d1.secrets = (db.secrets \ found) \cup {zeroed}
          /\ d1.recipients = db.recipients
      BY <1>7 DEF Tables
    <3> HIDE DEF d1
    <3>2. /\ d2.workspaces = d1.workspaces /\ d2.certificates = d1.certificates
          /\ d2.secrets = d1.secrets
          /\ d2.recipients = d1.recipients \ former(id)
      BY <1>7 DEF Tables
    <3> HIDE DEF d2
    <3>3. /\ d3.workspaces = d2.workspaces /\ d3.certificates = d2.certificates
          /\ d3.secrets = (d2.secrets \ {zeroed}) \cup {filled}
          /\ d3.recipients = d2.recipients
      BY <1>7 DEF Tables
    <3> HIDE DEF d3
    <3>4. /\ d4.workspaces = d3.workspaces /\ d4.certificates = d3.certificates
          /\ d4.secrets = d3.secrets
          /\ d4.recipients = d3.recipients \cup new(id, w.id, dek)
      BY <1>7 DEF Tables
    <3> HIDE DEF d4
    <3>5. Lands(d4, {dek})
      BY <1>8, <1>10, <3>1, <3>2, <3>3, <3>4
    <3> QED  BY <3>5 DEF d1, d2, d3, d4
  <2>2. Leads4(db, write, drop, fill, seal, {dek})
    BY <2>1 DEF Leads1, Leads2, Leads3, Leads4
  <2>3. Begin(p, "set_secret", <<write, drop, fill, seal>>, {dek})
    BY <1>2, <1>10 DEF write, drop, fill, seal
  <2>4. Leads(db, <<write, drop, fill, seal>>, {dek})
    BY <2>2 DEF Leads
  <2> QED  BY <1>3, <1>4, <2>3, <2>4, Lists, BeginKeeps
<1> QED  BY <1>9, <1>10
-----------------------------------------------------------------------------
(* Commits *)

\* Tables that a transaction was to bring about are the next ones of Vault.
LEMMA LandingIsACall ==
    ASSUME IInv, NEW d, NEW draws, Lands(d, draws),
           db' = d, drawn' = drawn \cup draws,
           handed' = handed \cup {r.wrapped : r \in d.recipients}
    PROVE  V!Next
<1>1. Handed
  BY DEF IInv
<1>2. CASE DeletesWorkspace(d, draws)
  <2>1. PICK ref \in Refs : \E w \in V!ResolveWorkspace(ref) :
        /\ draws = {}
        /\ d.workspaces = db.workspaces \ {w}
        /\ d.certificates = {c \in db.certificates : V!OutlivesWorkspace(w.id, c)}
        /\ d.secrets = {s \in db.secrets : V!OutlivesWorkspace(w.id, s)}
        /\ d.recipients = {r \in db.recipients :
                             /\ \A s \in db.secrets \ d.secrets : r.secret # s.id
                             /\ \A c \in db.certificates \ d.certificates : r.cert # c.id}
    BY <1>2 DEF DeletesWorkspace
  <2>2. drawn' = drawn /\ handed' = handed
    BY <1>1, <2>1 DEF Handed
  <2>3. V!DeleteWorkspace(ref)
    BY <2>1, <2>2 DEF V!DeleteWorkspace
  <2> QED  BY <2>3 DEF V!Next, Refs
<1>3. CASE AddsCertificate(d, draws)
  <2>1. PICK ref \in Refs, pub \in PublicKeys, priv \in PublicKeys \cup {NoKey} :
        \E w \in V!ResolveWorkspace(ref), id \in V!FreshUuids :
            LET rewrapped == IF V!MustRewrap(w.id) THEN V!SecretsOf(w.id) ELSE {}
                new == {V!Rewrapped(s, id, pub, priv) : s \in rewrapped}
            IN  /\ V!MustRewrap(w.id) => priv # NoKey
                /\ pub \notin V!PubsOf(w.id)
                /\ \A s \in rewrapped : V!UnwrapSecretKey(priv, s.id) # {}
                /\ draws = {id}
                /\ d.certificates = db.certificates \cup {[id |-> id, ws |-> w.id, pub |-> pub]}
                /\ d.recipients = db.recipients \cup new
                /\ d.workspaces = db.workspaces /\ d.secrets = db.secrets
    BY <1>3 DEF AddsCertificate
  <2>2. \A new : d.recipients = db.recipients \cup new =>
            handed' = handed \cup {r.wrapped : r \in new}
    BY <1>1 DEF Handed
  <2>3. V!AddCertificate(ref, pub, priv)
    BY <2>1, <2>2 DEF V!AddCertificate
  <2> QED  BY <2>3 DEF V!Next, Refs
<1>4. CASE DeletesCertificate(d, draws)
  <2>1. PICK ref \in Refs, cref \in Uuids \cup PublicKeys :
        \E w \in V!ResolveWorkspace(ref) : \E c \in V!ResolveCertificate(w.id, cref) :
            /\ ~V!WouldOrphan(c)
            /\ draws = {}
            /\ d.certificates = db.certificates \ {c}
            /\ d.recipients = V!WithoutCertificate(c)
            /\ d.workspaces = db.workspaces /\ d.secrets = db.secrets
    BY <1>4 DEF DeletesCertificate
  <2>2. drawn' = drawn /\ handed' = handed
    BY <1>1, <2>1 DEF Handed, V!WithoutCertificate
  <2>3. V!DeleteCertificate(ref, cref)
    BY <2>1, <2>2 DEF V!DeleteCertificate
  <2> QED  BY <2>3 DEF V!Next, Refs
<1>5. CASE SetsSecret(d, draws)
  <2> DEFINE key(raw) == V!NormalizeSecretKey(raw)
             existing(w, raw) == {s \in V!SecretsOf(w.id) : s.key = key(raw)}
             Sets(w, raw, value, id, dek) ==
                /\ draws = IF existing(w, raw) = {} THEN {id, dek} ELSE {dek}
                /\ d.secrets = (db.secrets \ existing(w, raw)) \cup
                       {[id |-> id, ws |-> w.id, key |-> key(raw),
                         sealed |-> [dek |-> dek, aad |-> key(raw), value |-> value]]}
                /\ d.recipients = V!ReplacedRecipients(id, dek, w.id)
             Ids(w, raw) == IF existing(w, raw) = {} THEN V!FreshUuids
                            ELSE {s.id : s \in existing(w, raw)}
  <2>1. PICK ref \in Refs, raw \in RawKeys, value \in Values, overwrite \in BOOLEAN :
        \E w \in V!ResolveWorkspace(ref), dek \in V!FreshDeks :
            /\ key(raw) # Empty
            /\ V!CertificatesOf(w.id) # {}
            /\ existing(w, raw) # {} => overwrite
            /\ \E id \in Ids(w, raw) : Sets(w, raw, value, id, dek)
            /\ d.workspaces = db.workspaces /\ d.certificates = db.certificates
    BY <1>5 DEF SetsSecret
  <2>2. PICK w \in V!ResolveWorkspace(ref), dek \in V!FreshDeks :
            /\ key(raw) # Empty
            /\ V!CertificatesOf(w.id) # {}
            /\ existing(w, raw) # {} => overwrite
            /\ \E id \in Ids(w, raw) : Sets(w, raw, value, id, dek)
            /\ d.workspaces = db.workspaces /\ d.certificates = db.certificates
    BY <2>1
  <2>3. PICK id \in Ids(w, raw) : Sets(w, raw, value, id, dek)
    BY <2>2
  <2>4. drawn' = drawn \cup {id, dek}
    <3>1. CASE existing(w, raw) = {}
      BY <2>3, <3>1
    <3>2. CASE existing(w, raw) # {}
      <4>1. id \in drawn
        BY <2>3, <3>2 DEF IInv, V!IInv, V!DrawnRows, V!SecretsOf
      <4> QED  BY <2>3, <3>2, <4>1
    <3> QED  BY <3>1, <3>2
  <2>5. handed' = handed \cup {[pub |-> q, dek |-> dek] : q \in V!PubsOf(w.id)}
    <3> DEFINE wrapped(c) == [pub |-> c.pub, dek |-> dek]
               envelope(c) == [secret |-> id, cert |-> c.id, wrapped |-> wrapped(c)]
               new == {envelope(c) : c \in V!CertificatesOf(w.id)}
    <3>1. d.recipients = {r \in db.recipients : r.secret # id} \cup new
      BY <2>3 DEF V!ReplacedRecipients
    <3>2. \A c : envelope(c).wrapped = wrapped(c)
      OBVIOUS
    <3>3. {[pub |-> q, dek |-> dek] : q \in V!PubsOf(w.id)}
          = {wrapped(c) : c \in V!CertificatesOf(w.id)}
      BY DEF V!PubsOf
    <3> HIDE DEF wrapped, envelope
    <3>4. {r.wrapped : r \in new} = {wrapped(c) : c \in V!CertificatesOf(w.id)}
      BY <3>2
    <3> HIDE DEF new
    <3>5. handed' = handed \cup {r.wrapped : r \in new}
      BY <1>1, <3>1 DEF Handed
    <3> QED  BY <3>3, <3>4, <3>5
  <2>6. /\ db'.workspaces = db.workspaces /\ db'.certificates = db.certificates
        /\ db'.recipients = V!ReplacedRecipients(id, dek, w.id)
        /\ db'.secrets = (db.secrets \ existing(w, raw)) \cup
                             {[id |-> id, ws |-> w.id, key |-> key(raw),
                               sealed |-> [dek |-> dek, aad |-> key(raw), value |-> value]]}
    BY <2>2, <2>3
  <2>7. V!SetSecret(ref, raw, value, overwrite)
    <3> DEFINE May(v) == /\ key(raw) # Empty
                         /\ V!CertificatesOf(v.id) # {}
                         /\ existing(v, raw) # {} => overwrite
               Writes(v, e, i) ==
                  /\ db'.secrets = (db.secrets \ existing(v, raw)) \cup
                         {[id |-> i, ws |-> v.id, key |-> key(raw),
                           sealed |-> [dek |-> e, aad |-> key(raw), value |-> value]]}
                  /\ db'.recipients = V!ReplacedRecipients(i, e, v.id)
                  /\ drawn' = drawn \cup {i, e}
                  /\ handed' = handed \cup {[pub |-> q, dek |-> e] : q \in V!PubsOf(v.id)}
               Stays == db'.workspaces = db.workspaces /\ db'.certificates = db.certificates
    <3>1. (\E v \in V!ResolveWorkspace(ref) :
              /\ May(v)
              /\ \E e \in V!FreshDeks, i \in Ids(v, raw) : Writes(v, e, i)
              /\ Stays)
          => V!SetSecret(ref, raw, value, overwrite)
      BY DEF V!SetSecret, V!WriteDeks
    <3>2. May(w) /\ Writes(w, dek, id) /\ Stays
      BY <2>2, <2>4, <2>5, <2>6
    <3> HIDE DEF May, Writes, Stays, Ids
    <3> QED  BY <3>1, <3>2
  <2> QED  BY <2>7 DEF V!Next, Refs
<1>6. CASE DeletesSecret(d, draws)
  <2>1. PICK ref \in Refs, raw \in RawKeys :
        \E w \in V!ResolveWorkspace(ref) : \E s \in V!SecretsOf(w.id) :
            /\ s.key = V!NormalizeSecretKey(raw)
            /\ draws = {}
            /\ d.secrets = db.secrets \ {s}
            /\ d.recipients = {r \in db.recipients : r.secret # s.id}
            /\ d.workspaces = db.workspaces /\ d.certificates = db.certificates
    BY <1>6 DEF DeletesSecret
  <2>2. drawn' = drawn /\ handed' = handed
    BY <1>1, <2>1 DEF Handed
  <2>3. V!DeleteSecret(ref, raw)
    BY <2>1, <2>2 DEF V!DeleteSecret
  <2> QED  BY <2>3 DEF V!Next, Refs
<1> QED  BY <1>2, <1>3, <1>4, <1>5, <1>6 DEF Lands

\* A row that a call of Vault writes is sealed with a DEK of its own.
LEMMA SealedAnew ==
    ASSUME IInv, V!Next, NEW s \in db'.secrets, s \notin db.secrets
    PROVE  s.sealed.dek \notin drawn
<1>1. PICK ref \in Refs, raw \in RawKeys, value \in Values, overwrite \in BOOLEAN :
          V!SetSecret(ref, raw, value, overwrite)
  BY DEF V!Next, V!CreateWorkspace, V!DeleteWorkspace, V!AddCertificate, V!DeleteCertificate,
         V!DeleteSecret, Refs
<1>2. PICK dek \in V!FreshDeks : s.sealed.dek = dek
  BY <1>1 DEF V!SetSecret, V!WriteDeks
<1> QED  BY <1>2 DEF V!FreshDeks

\* A read under way notes what is sealed under the key in the next tables.
LEMMA WitnessIsSound ==
    ASSUME IInv, V!Next, NEW j, Sound(j, db, drawn), drawn \subseteq drawn'
    PROVE  /\ Sound(Witness(j, db'), db', drawn')
           /\ Transacting(Witness(j, db')) => Witness(j, db') = j /\ Transacting(j)
<1>1. CASE j.pc \notin {"finding", "listing"}
  BY <1>1 DEF Witness, Sound, Reading, Transacting, Creates
<1>2. CASE j.pc \in {"finding", "listing"}
  <2> DEFINE w == Witness(j, db')
             sealed == SealedIn(db', j.ws, j.key)
             opens == OpensIn(db', j.ws, j.key, j.priv)
  <2>1. {"pc", "ws", "key", "priv", "seen", "entitled"} \subseteq DOMAIN j /\ j.entitled \in BOOLEAN
    BY <1>2 DEF Sound, Reading
  <2>2. /\ w.pc = j.pc /\ w.ws = j.ws /\ w.key = j.key /\ w.priv = j.priv
        /\ w.seen = j.seen \cup sealed /\ w.entitled = (j.entitled /\ opens)
        /\ DOMAIN w = DOMAIN j
        /\ j.pc = "listing" => w.row = j.row
    <3> HIDE DEF sealed, opens
    <3>1. j.pc = "listing" => "row" \in DOMAIN j
      BY DEF Sound, Reading
    <3> QED  BY <1>2, <2>1, <3>1 DEF Witness, sealed, opens
  <2> HIDE DEF w
  <2>3. ASSUME j.pc = "listing", Undisturbed(w)
        PROVE  j.row \in db'.secrets
    <3>1. /\ j.row.ws = j.ws /\ j.row.key = j.key /\ j.row.sealed \in j.seen
          /\ Undisturbed(j) => j.row \in db.secrets
      BY <2>3 DEF Sound, Reading
    <3>2. Undisturbed(j) /\ opens
      BY <2>1, <2>2, <2>3 DEF Undisturbed
    <3>3. PICK s \in db'.secrets : s.ws = j.ws /\ s.key = j.key
      BY <3>2 DEF OpensIn
    <3>4. s.sealed = j.row.sealed
      BY <2>2, <2>3, <3>1, <3>3 DEF Undisturbed, SealedIn
    <3>5. j.row \in db.secrets /\ j.row.sealed.dek \in drawn
      BY <3>1, <3>2 DEF IInv, V!IInv, V!DrawnRows
    <3>6. s \in db.secrets
      BY <3>3, <3>4, <3>5, SealedAnew
    <3>7. s = j.row
      BY <3>1, <3>3, <3>5, <3>6 DEF IInv, V!IInv, V!UniqueRows
    <3> QED  BY <3>3, <3>7
  <2>4. Sound(w, db', drawn')
    <3> HIDE DEF opens
    <3>1. w.entitled \in BOOLEAN /\ (w.entitled => opens)
      BY <2>1, <2>2
    <3> QED  BY <1>2, <2>1, <2>2, <2>3, <3>1 DEF Sound, Reading, Transacting, Places, opens
  <2>5. ~Transacting(w)
    BY <1>2, <2>2 DEF Transacting
  <2> QED  BY <2>4, <2>5 DEF w
<1> QED  BY <1>1, <1>2

\* A commit that is a call of Vault leaves every other process as it was,
\* for there is no other transaction under way.
LEMMA PublishKeeps ==
    ASSUME IInv, NEW p \in Procs, NEW d, Publish(p, d, Idle), V!Next,
           \A q \in Procs \ {p} : ~HoldsShared(q),
           Transacting(job[p]), \A w \in d.workspaces : w.name \notin Uuids \ drawn
    PROVE  IInv'
<1>1. \A q \in Procs : job'[q] = IF q = p THEN Idle ELSE Witness(job[q], d)
  BY DEF Publish
<1>2. \A q \in Procs : Sound(job[q], db, drawn)
  BY DEF IInv, Jobs
<1>3. V!IInv'
  BY VaultKeeps DEF IInv
<1>4. Handed' /\ NamesKnown'
  BY DEF Handed, NamesKnown, Publish
<1>5. Jobs'
  <2>1. job' = [q \in Procs |-> job'[q]]
    BY <1>1 DEF Publish
  <2>2. drawn \subseteq drawn'
    BY DEF Publish
  <2>3. db' = d
    BY DEF Publish
  <2>4. \A q \in Procs : Sound(job'[q], d, drawn')
    BY <1>1, <1>2, <2>2, <2>3, WitnessIsSound, IdleIsSound
  <2> QED  BY <2>1, <2>3, <2>4 DEF Jobs
<1>6. \A q \in Procs : Transacting(job'[q]) => /\ q # p /\ job'[q] = job[q] /\ Transacting(job[q])
                                               /\ ~job[q].tx
  <2>1. ASSUME NEW q \in Procs, Transacting(Witness(job[q], d))
        PROVE  Witness(job[q], d) = job[q] /\ Transacting(job[q])
    <3>1. Sound(job[q], db, drawn) /\ drawn \subseteq drawn' /\ db' = d
      BY <1>2 DEF Publish
    <3> QED  BY <2>1, <3>1, WitnessIsSound
  <2> QED  BY <1>1, <2>1, IdleIsSound DEF HoldsShared, InTransaction, Transacting
<1>7. Leaders'
  BY <1>6 DEF Leaders
<1>8. Draws'
  <2>1. drawn' = drawn \cup job[p].draws
    BY DEF Publish
  <2> QED  BY <1>6, <2>1 DEF IInv, Draws
<1>9. OneWriter'
  BY <1>6 DEF OneWriter, HoldsReserved, HoldsShared, InTransaction, Transacting
<1> QED  BY <1>3, <1>4, <1>5, <1>7, <1>8, <1>9 DEF IInv

\* A commit brings the tables about that its statements led to.
LEMMA CommitIsACall ==
    ASSUME IInv, NEW p \in Procs, Commit(p)
    PROVE  V!Next /\ IInv'
<1>1. Transacting(job[p]) /\ job[p].tx /\ job[p].todo = <<>>
  BY DEF Commit, HoldsPending, IInv, Jobs, Sound, Transacting, Writing
<1>2. Leads(job[p].local, <<>>, job[p].draws)
  BY <1>1 DEF IInv, Leaders
<1>3. Lands(job[p].local, job[p].draws)
  BY <1>2, Lists DEF Leads
<1>4. Publish(p, job[p].local, Idle)
  BY DEF Commit
<1>5. V!Next
  BY <1>3, <1>4, LandingIsACall DEF Publish
<1>6. \A w \in job[p].local.workspaces : w.name \notin Uuids \ drawn
  BY <1>3 DEF IInv, NamesKnown, Lands, DeletesWorkspace, AddsCertificate, DeletesCertificate,
              SetsSecret, DeletesSecret
<1>7. \A q \in Procs \ {p} : ~HoldsShared(q)
  BY DEF Commit, WaitsFor, Others
<1> QED  BY <1>1, <1>4, <1>5, <1>6, <1>7, PublishKeeps

\* create_workspace commits by itself: its id is still new, and its name free.
LEMMA AutocommitIsACall ==
    ASSUME IInv, NEW p \in Procs, Autocommit(p)
    PROVE  [V!Next]_V!vars /\ IInv'
<1>1. Transacting(job[p]) /\ Creates(job[p].todo, job[p].draws, drawn)
  BY DEF Autocommit, Autocommits, IInv, Jobs, Sound, Transacting
<1>2. PICK id \in Uuids, name \in Names \ (Uuids \ drawn) :
        /\ job[p].draws = {id}
        /\ job[p].todo = <<Insert("workspaces", {[id |-> id, name |-> name]})>>
  BY <1>1 DEF Creates
<1> DEFINE w == [id |-> id, name |-> name]
           insert == Insert("workspaces", {w})
           d == Apply(db, insert)
<1>3. /\ d.workspaces = db.workspaces \cup {w} /\ d.certificates = db.certificates
      /\ d.secrets = db.secrets /\ d.recipients = db.recipients
  <2> HIDE DEF w
  <2>1. \A u \in Tables : d[u] = IF u = "workspaces" THEN db[u] \cup {w} ELSE db[u]
    BY DEF Apply, Insert, Statement, NoRows, Tables
  <2> HIDE DEF d
  <2> QED  BY <2>1 DEF Tables
<1>4. w.id = id /\ w.name = name
  OBVIOUS
<1>5. Head(job[p].todo) = insert /\ Len(job[p].todo) = 1
  BY <1>2, Lists
<1> HIDE DEF insert, w
<1>6. CASE Rollback(p)
  <2>1. UNCHANGED V!vars
    BY <1>6 DEF Rollback, V!vars
  <2> QED  BY <1>6, <2>1, RollbackKeeps
<1>7. CASE ~Rollback(p)
  <2>1. ~Rejected(db, insert) /\ Publish(p, d, Idle)
    BY <1>5, <1>7 DEF Autocommit
  <2>2. Constraints(d)
    BY <2>1 DEF Rejected
  <2> HIDE DEF d
  <2>3. id \notin drawn
    BY <1>1, <1>2 DEF IInv, Draws
  <2>4. id \in V!FreshUuids
    BY <2>3 DEF V!FreshUuids, IInv, NamesKnown
  <2>5. \A v \in db.workspaces : v.name # name
    <3> SUFFICES ASSUME NEW v \in db.workspaces, v.name = name
                 PROVE  FALSE
      OBVIOUS
    <3>1. v = w
      BY <1>3, <1>4, <2>2 DEF Constraints
    <3> QED  BY <1>4, <2>3, <3>1 DEF IInv, V!IInv, V!DrawnRows
  <2>6. db' = d /\ drawn' = drawn \cup {id} /\ handed' = handed
    BY <1>2, <1>3, <2>1 DEF Publish, IInv, Handed
  <2>7. V!CreateWorkspace(name)
    BY <1>3, <2>4, <2>5, <2>6 DEF V!CreateWorkspace, w
  <2>8. V!Next
    BY <2>7 DEF V!Next
  <2>9. \A v \in d.workspaces : v.name \notin Uuids \ drawn
    BY <1>3, <1>4 DEF IInv, NamesKnown
  <2>10. \A q \in Procs \ {p} : ~HoldsShared(q)
    BY DEF Autocommit, WaitsFor, Others
  <2> QED  BY <1>1, <2>1, <2>8, <2>9, <2>10, PublishKeeps
<1> QED  BY <1>6, <1>7
-----------------------------------------------------------------------------
(* Reads *)

\* A step of a read, which is no transaction.
LEMMA ReadKeeps ==
    ASSUME IInv, NEW p \in Procs, NEW j, job' = [job EXCEPT ![p] = j],
           UNCHANGED <<db, drawn, handed>>, j.pc \in {"finding", "listing", "returned"},
           Reading(j, db)
    PROVE  IInv'
<1>1. Sound(j, db, drawn) /\ ~Transacting(j)
  BY DEF Sound, Places, Transacting
<1> QED  BY <1>1, OneJob

\* What a read returns can be explained by what it has seen.
LEMMA ReturnKeeps ==
    ASSUME IInv, NEW p \in Procs, NEW outcome, Return(p, outcome), UNCHANGED <<db, drawn, handed>>,
           \/ outcome \in ValuesSeen(job[p])
           \/ outcome = "busy" /\ Timeouts
           \/ /\ outcome \in {"not_found", "incompatible_private_key", "crypto_error"}
              /\ ~Undisturbed(job[p])
    PROVE  IInv'
<1> DEFINE j == [pc |-> "returned", outcome |-> outcome, seen |-> job[p].seen,
                 entitled |-> job[p].entitled]
<1>1. job' = [job EXCEPT ![p] = j]
  BY DEF Return
<1>2. /\ j.pc = "returned" /\ j.outcome = outcome /\ j.seen = job[p].seen
      /\ j.entitled = job[p].entitled
  OBVIOUS
<1> HIDE DEF j
<1>3. Reading(j, db)
  BY <1>2 DEF Reading, Explained, ValuesSeen, Undisturbed
<1> QED  BY <1>1, <1>2, <1>3, ReadKeeps

\* A read begins with what is sealed under the key now.
LEMMA GetSecretKeeps ==
    ASSUME IInv, NEW p \in Procs, NEW ref, NEW raw, NEW priv, GetSecret(p, ref, raw, priv)
    PROVE  IInv'
<1> DEFINE key == V!NormalizeSecretKey(raw)
           none == [pc |-> "returned", outcome |-> "not_found", seen |-> {}, entitled |-> FALSE]
           finds(w) == [pc |-> "finding", ws |-> w.id, key |-> key, priv |-> priv,
                        seen |-> SealedIn(db, w.id, key), entitled |-> OpensIn(db, w.id, key, priv)]
<1>1. UNCHANGED <<db, drawn, handed>>
  BY DEF GetSecret
<1>2. CASE job' = [job EXCEPT ![p] = none]
  <2>1. none.pc = "returned" /\ none.outcome = "not_found" /\ none.entitled = FALSE
    OBVIOUS
  <2> HIDE DEF none
  <2>2. Reading(none, db)
    BY <2>1 DEF Reading, Explained, Undisturbed
  <2> QED  BY <1>1, <1>2, <2>1, <2>2, ReadKeeps
<1>3. ASSUME NEW w, job' = [job EXCEPT ![p] = finds(w)]
      PROVE  IInv'
  <2> DEFINE j == finds(w)
  <2>1. /\ j.pc = "finding" /\ j.ws = w.id /\ j.key = key /\ j.priv = priv
        /\ j.seen = SealedIn(db, w.id, key)
        /\ {"pc", "ws", "key", "priv", "seen", "entitled"} \subseteq DOMAIN j
    OBVIOUS
  <2>2. job' = [job EXCEPT ![p] = j]
    BY <1>3
  <2>3. j.entitled \in BOOLEAN /\ (j.entitled => OpensIn(db, w.id, key, priv))
    BY DEF OpensIn
  <2> HIDE DEF j
  <2>4. Reading(j, db)
    BY <2>1, <2>3 DEF Reading
  <2> QED  BY <1>1, <2>1, <2>2, <2>4, ReadKeeps
<1> QED  BY <1>2, <1>3 DEF GetSecret

\* The row that is found is the one under the key, which is noted; there is
\* one as long as the private key opens it.
LEMMA FindSecretKeeps ==
    ASSUME IInv, NEW p \in Procs, FindSecret(p)
    PROVE  IInv'
<1> DEFINE q == job[p]
           found == {s \in db.secrets : s.ws = q.ws /\ s.key = q.key}
           finds(s) == [pc |-> "listing", ws |-> q.ws, key |-> q.key, priv |-> q.priv,
                        seen |-> q.seen, entitled |-> q.entitled, row |-> s]
<1>1. UNCHANGED <<db, drawn, handed>>
  BY DEF FindSecret
<1>2. /\ SealedIn(db, q.ws, q.key) \subseteq q.seen /\ q.entitled \in BOOLEAN
      /\ q.entitled => OpensIn(db, q.ws, q.key, q.priv)
  BY DEF FindSecret, IInv, Jobs, Sound, Reading
<1>3. CASE found = {} /\ Return(p, "not_found")
  <2>1. ~Undisturbed(q)
    BY <1>2, <1>3 DEF Undisturbed, OpensIn
  <2> QED  BY <1>1, <1>3, <2>1, ReturnKeeps
<1>4. ASSUME NEW s \in db.secrets, s.ws = q.ws, s.key = q.key, job' = [job EXCEPT ![p] = finds(s)]
      PROVE  IInv'
  <2> DEFINE j == finds(s)
  <2>1. s.sealed \in q.seen
    BY <1>2, <1>4 DEF SealedIn
  <2>2. /\ j.pc = "listing" /\ j.ws = q.ws /\ j.key = q.key /\ j.priv = q.priv
        /\ j.seen = q.seen /\ j.entitled = q.entitled /\ j.row = s
        /\ {"pc", "ws", "key", "priv", "seen", "entitled", "row"} \subseteq DOMAIN j
    OBVIOUS
  <2>3. job' = [job EXCEPT ![p] = j]
    BY <1>4
  <2> HIDE DEF j
  <2>4. Reading(j, db)
    BY <1>2, <1>4, <2>1, <2>2 DEF Reading
  <2> QED  BY <1>1, <2>2, <2>3, <2>4, ReadKeeps
<1> QED  BY <1>3, <1>4 DEF FindSecret, IInv, Jobs

\* As long as the row is there its recipients give its own DEK to the key.
LEMMA ListRecipientsKeeps ==
    ASSUME IInv, NEW p \in Procs, ListRecipients(p)
    PROVE  IInv'
<1> DEFINE q == job[p]
           deks == V!UnwrapSecretKey(q.priv, q.row.id)
<1>1. UNCHANGED <<db, drawn, handed>>
  BY DEF ListRecipients
<1>2. /\ q.row.ws = q.ws /\ q.row.key = q.key /\ q.row.sealed \in q.seen
      /\ q.entitled => OpensIn(db, q.ws, q.key, q.priv)
      /\ Undisturbed(q) => q.row \in db.secrets
  BY DEF ListRecipients, IInv, Jobs, Sound, Reading
<1>3. q.row.sealed.value \in ValuesSeen(q)
  BY <1>2 DEF ValuesSeen
<1>4. Undisturbed(q) => q.row.sealed.dek \in deks /\ q.row.sealed.aad = q.key
  <2> SUFFICES ASSUME Undisturbed(q)
               PROVE  q.row.sealed.dek \in deks /\ q.row.sealed.aad = q.key
    OBVIOUS
  <2>1. PICK s \in db.secrets, r \in db.recipients :
            /\ s.ws = q.ws /\ s.key = q.key /\ r.secret = s.id
            /\ r.wrapped = [pub |-> q.priv, dek |-> s.sealed.dek]
    BY <1>2 DEF Undisturbed, OpensIn
  <2>2. s = q.row
    BY <1>2, <2>1 DEF IInv, V!IInv, V!UniqueRows
  <2> QED  BY <2>1, <2>2 DEF V!UnwrapSecretKey, IInv, V!IInv, V!SealedSecrets
<1>5. Undisturbed(q) => \A dek \in deks : dek = q.row.sealed.dek
  <2> SUFFICES ASSUME Undisturbed(q)
               PROVE  \A dek \in deks : dek = q.row.sealed.dek
    OBVIOUS
  <2>1. VP!IInv /\ q.row \in db.secrets
    BY <1>2, SameInvariant DEF IInv
  <2>2. VP!UnwrapSecretKey(q.priv, q.row.id)
        = IF q.priv \in VP!PubsOf(q.row.ws) THEN {q.row.sealed.dek} ELSE {}
    BY <2>1, VP!UnwrapIsExact, NamesAssumption, NoKeyAssumption, NormalAssumption
  <2> QED  BY <2>2 DEF V!UnwrapSecretKey, VP!UnwrapSecretKey
<1>6. CASE deks = {} /\ Return(p, "incompatible_private_key")
  BY <1>1, <1>4, <1>6, ReturnKeeps
<1>7. ASSUME NEW dek \in deks, Return(p, Decrypt(q.row.sealed, q.key, dek))
      PROVE  IInv'
  <2>1. CASE dek = q.row.sealed.dek /\ q.key = q.row.sealed.aad
    BY <1>1, <1>3, <1>7, <2>1, ReturnKeeps DEF Decrypt
  <2>2. CASE ~(dek = q.row.sealed.dek /\ q.key = q.row.sealed.aad)
    <3>1. ~Undisturbed(q)
      BY <1>4, <1>5, <2>2
    <3> QED  BY <1>1, <1>7, <2>2, <3>1, ReturnKeeps DEF Decrypt
  <2> QED  BY <2>1, <2>2
<1> QED  BY <1>6, <1>7 DEF ListRecipients
-----------------------------------------------------------------------------
(* The theorems *)

\* The tables of a new database, and nobody at work.
LEMMA InitEstablishes == Init => V!Init /\ IInv
<1> SUFFICES ASSUME Init
             PROVE  V!Init /\ IInv
  OBVIOUS
<1>1. PICK id \in Uuids :
        /\ db = [NoRows EXCEPT !.workspaces = {[id |-> id, name |-> DefaultName]}]
        /\ drawn = {id}
  BY DEF Init
<1>2. /\ db.workspaces = {[id |-> id, name |-> DefaultName]} /\ db.certificates = {}
      /\ db.secrets = {} /\ db.recipients = {}
  BY <1>1 DEF NoRows, Tables
<1>3. V!Init
  BY <1>1, <1>2 DEF Init, V!Init
<1>4. \A p \in Procs : job[p] = Idle
  BY DEF Init
<1>5. Jobs /\ Leaders /\ Draws /\ OneWriter
  BY <1>4, IdleIsSound DEF Init, Jobs, Leaders, Draws, OneWriter, HoldsReserved, HoldsShared,
                           InTransaction, Transacting
<1>6. NamesKnown
  BY <1>2, NamesAssumption DEF NamesKnown
<1> QED  BY <1>2, <1>3, <1>5, <1>6, VaultBegins DEF IInv, Handed

\* A step that leaves the tables alone is no step of Vault.
LEMMA CallKeeps ==
    ASSUME IInv, NEW p \in Procs, Call(p)
    PROVE  UNCHANGED V!vars /\ IInv'
<1>1. UNCHANGED <<db, drawn, handed>>
  <2>1. \A op, stmts, draws : Begin(p, op, stmts, draws) => UNCHANGED <<db, drawn, handed>>
    BY DEF Begin
  <2>2. ASSUME NEW ref \in Refs, NEW raw \in RawKeys, NEW value \in Values,
               NEW overwrite \in BOOLEAN, SetSecret(p, ref, raw, value, overwrite)
        PROVE  UNCHANGED <<db, drawn, handed>>
    BY <2>1, <2>2, Zenon DEF SetSecret
  <2>3. ASSUME NEW ref \in Refs, NEW pub \in PublicKeys, NEW priv \in PublicKeys \cup {NoKey},
               AddCertificate(p, ref, pub, priv)
        PROVE  UNCHANGED <<db, drawn, handed>>
    BY <2>1, <2>3, Zenon DEF AddCertificate
  <2>4. ASSUME NEW name \in Names, CreateWorkspace(p, name)
        PROVE  UNCHANGED <<db, drawn, handed>>
    BY <2>1, <2>4, Zenon DEF CreateWorkspace
  <2>5. ASSUME NEW ref \in Refs, DeleteWorkspace(p, ref)
        PROVE  UNCHANGED <<db, drawn, handed>>
    BY <2>1, <2>5, Zenon DEF DeleteWorkspace
  <2>6. ASSUME NEW ref \in Refs, NEW cref \in Uuids \cup PublicKeys, DeleteCertificate(p, ref, cref)
        PROVE  UNCHANGED <<db, drawn, handed>>
    BY <2>1, <2>6, Zenon DEF DeleteCertificate
  <2>7. ASSUME NEW ref \in Refs, NEW raw \in RawKeys, DeleteSecret(p, ref, raw)
        PROVE  UNCHANGED <<db, drawn, handed>>
    BY <2>1, <2>7, Zenon DEF DeleteSecret
  <2>8. ASSUME NEW ref, NEW raw, NEW priv, GetSecret(p, ref, raw, priv)
        PROVE  UNCHANGED <<db, drawn, handed>>
    BY <2>8 DEF GetSecret
  <2> QED  BY <2>2, <2>3, <2>4, <2>5, <2>6, <2>7, <2>8 DEF Call
<1>2. IInv'
  BY CreateWorkspaceBegins, DeleteWorkspaceBegins, AddCertificateBegins, DeleteCertificateBegins,
     SetSecretBegins, DeleteSecretBegins, GetSecretKeeps DEF Call
<1> QED  BY <1>1, <1>2 DEF V!vars

\* Every step of a process is a step of Vault, or none.
LEMMA StepsKeep == IInv /\ [Next]_vars => [V!Next]_V!vars /\ IInv'
<1> SUFFICES ASSUME IInv, [Next]_vars
             PROVE  [V!Next]_V!vars /\ IInv'
  OBVIOUS
<1>1. CASE UNCHANGED vars
  <2>1. UNCHANGED V!vars
    BY <1>1 DEF vars, V!vars
  <2>2. V!IInv'
    BY <2>1, VaultKeeps DEF IInv
  <2>3. Leaders'
    BY <1>1, LeadsStay DEF vars, IInv, Leaders
  <2>4. OneWriter'
    BY <1>1 DEF vars, IInv, OneWriter, HoldsReserved, HoldsShared, InTransaction
  <2> QED  BY <1>1, <2>1, <2>2, <2>3, <2>4 DEF vars, IInv, Handed, NamesKnown, Jobs, Draws
<1>2. ASSUME NEW p \in Procs, Call(p)
      PROVE  [V!Next]_V!vars /\ IInv'
  BY <1>2, CallKeeps
<1>3. ASSUME NEW p \in Procs, Rollback(p)
      PROVE  [V!Next]_V!vars /\ IInv'
  BY <1>3, RollbackKeeps DEF Rollback, V!vars
<1>4. ASSUME NEW p \in Procs, Write(p)
      PROVE  [V!Next]_V!vars /\ IInv'
  <2>1. UNCHANGED V!vars
    BY <1>4 DEF Write, Rollback, V!vars
  <2> QED  BY <1>4, <2>1, WriteKeeps
<1>5. ASSUME NEW p \in Procs, FindSecret(p) \/ ListRecipients(p)
      PROVE  [V!Next]_V!vars /\ IInv'
  <2>1. UNCHANGED V!vars
    BY <1>5 DEF FindSecret, ListRecipients, V!vars
  <2> QED  BY <1>5, <2>1, FindSecretKeeps, ListRecipientsKeeps
<1>6. ASSUME NEW p \in Procs, Return(p, "busy"), Timeouts, UNCHANGED <<db, drawn, handed>>
      PROVE  [V!Next]_V!vars /\ IInv'
  BY <1>6, ReturnKeeps DEF V!vars
<1>7. ASSUME NEW p \in Procs, Step(p)
      PROVE  [V!Next]_V!vars /\ IInv'
  BY <1>3, <1>4, <1>5, <1>6, <1>7, CommitIsACall, AutocommitIsACall
     DEF Step, CommitTimeout, StatementTimeout
<1> QED  BY <1>1, <1>2, <1>3, <1>7 DEF Next, Crash

\* Whoever is about to commit has led to a call of Vault from the tables as
\* they are, for any set of processes and any interleaving.
THEOREM InductiveInvariant == Spec => []IInv
BY InitEstablishes, StepsKeep, PTL DEF Spec

\* The committed tables take only the steps of Vault: the statements of the
\* calls of lib.rs, interleaved by SQLite, cut off by crashes and timeouts,
\* are serialised.
THEOREM CallsAreSerialised == Spec => CallsAreAtomic
<1>1. Init => V!Init
  BY InitEstablishes
<1>2. IInv /\ [Next]_vars => [V!Next]_V!vars
  BY StepsKeep
<1> QED  BY <1>1, <1>2, InductiveInvariant, PTL DEF Spec, CallsAreAtomic, V!Spec

\* get_secret returns what the key was worth at some moment of the call,
\* although its three statements have a lock each; it fails for another
\* reason than a timeout only if its private key did not open the secret at
\* some moment, or if the secret was set anew during the call.
THEOREM ReadsReturnValues == Spec => []ReadsAreCurrent
<1>1. IInv => ReadsAreCurrent
  BY DEF IInv, Jobs, Sound, Reading, ReadsAreCurrent
<1> QED  BY <1>1, InductiveInvariant, PTL

\* No two calls, and no larger number of them, wait for each other's locks:
\* a reader waits for the one that commits, create_workspace for those that
\* hold a lock, the one that commits for the transactions that have read,
\* and these for nobody.
THEOREM WaitingEnds == Spec => []NobodyWaitsInACircle
<1>1. IInv => NobodyWaitsInACircle
  <2> SUFFICES ASSUME IInv, NEW group \in (SUBSET Procs) \ {{}}
               PROVE  \E p \in group : WaitsFor(p) \cap group = {}
    BY DEF NobodyWaitsInACircle
  <2> SUFFICES ASSUME NEW p \in group, \A q \in group : WaitsFor(q) \cap group # {}
               PROVE  FALSE
    OBVIOUS
  \* Whoever is waited for is in a transaction that has its lock.
  <2>1. \A q \in group : \E r \in group : r # q /\ r \in WaitsFor(q)
    BY DEF WaitsFor, Others
  <2>2. \A q, r \in group : r \in WaitsFor(q) => HoldsShared(r)
    BY DEF WaitsFor, HoldsShared, HoldsPending, InTransaction, IInv, Jobs, Sound, Transacting
  <2>3. \A q, r \in group : HoldsShared(q) /\ r \in WaitsFor(q) => HoldsPending(q)
    BY DEF WaitsFor, HoldsShared, HoldsPending, InTransaction, Reads, Autocommits
  <2>4. PICK q \in group : q \in WaitsFor(p)
    BY <2>1
  <2>5. PICK r \in group : r # q /\ r \in WaitsFor(q)
    BY <2>1
  <2>6. PICK s \in group : s \in WaitsFor(r)
    BY <2>1
  <2>7. HoldsReserved(q) /\ HoldsReserved(r)
    BY <2>2, <2>3, <2>4, <2>5, <2>6 DEF HoldsReserved, HoldsPending
  <2> QED  BY <2>5, <2>7 DEF IInv, OneWriter
<1> QED  BY <1>1, InductiveInvariant, PTL

\* What holds of the calls holds under any interleaving of their statements:
\* exactly the keys with a certificate in a workspace open the secrets that
\* are committed in it, even when one process adds a certificate while
\* another sets a secret.
THEOREM ReadersReadAlways ==
    Spec => [](V!EveryCertificateOpensEverySecret /\ V!OnlyCertificatesOpenSecrets)
<1>1. IInv => V!EveryCertificateOpensEverySecret /\ V!OnlyCertificatesOpenSecrets
  <2> SUFFICES ASSUME IInv
               PROVE  V!EveryCertificateOpensEverySecret /\ V!OnlyCertificatesOpenSecrets
    OBVIOUS
  <2>1. VP!IInv
    BY SameInvariant DEF IInv
  <2>2. \A s \in db.secrets : \A q \in PublicKeys : VP!Opens(q, s) <=> q \in VP!PubsOf(s.ws)
    BY <2>1, VP!OpensIsAuthorised, NamesAssumption, NoKeyAssumption, NormalAssumption
  <2>3. \A s \in db.secrets : V!PubsOf(s.ws) \subseteq PublicKeys
    BY DEF IInv, V!IInv, V!TypeOK, V!PubsOf, V!CertificatesOf, V!CertificateRow
  <2> QED
    BY <2>2, <2>3 DEF V!EveryCertificateOpensEverySecret, V!OnlyCertificatesOpenSecrets, V!Opens,
       VP!Opens, V!UnwrapSecretKey, VP!UnwrapSecretKey, V!PubsOf, VP!PubsOf,
       V!CertificatesOf, VP!CertificatesOf
<1> QED  BY <1>1, InductiveInvariant, PTL
-----------------------------------------------------------------------------
(* What Vault promises to one process at a time, it promises to several *)

\* The tables behave as those of Vault do, about which VaultProofs speaks.
LEMMA SameBehaviours == Spec => VP!Spec
<1>1. V!Init => VP!Init
  BY DEF V!Init, VP!Init
<1>2. [V!Next]_V!vars => [VP!Next]_VP!vars
  BY SameNext DEF V!vars, VP!vars
<1> QED  BY <1>1, <1>2, CallsAreSerialised, PTL DEF CallsAreAtomic, V!Spec, VP!Spec

\* The committed tables are a shared store for any number of processes: every
\* reader of a workspace is given all of its content and nobody else any of
\* it, and no interleaving removes the last reader of what is stored.
THEOREM StoreIsShared == Spec => V!ImplementsSharedStore
<1>1. VP!Spec => VP!ImplementsSharedStore
  BY VP!Implementation, NamesAssumption, NoKeyAssumption, NormalAssumption
\* Both instances make the same store of the tables.
<1>2. /\ VP!Access = V!Access /\ VP!Access' = V!Access'
      /\ VP!Content = V!Content /\ VP!Content' = V!Content'
      /\ VP!Readable = V!Readable /\ VP!Readable' = V!Readable'
  BY DEF VP!Access, V!Access, VP!Content, V!Content, VP!Readable, V!Readable, VP!GetSecret,
         V!GetSecret, VP!ResolveWorkspace, V!ResolveWorkspace, VP!Opens, V!Opens,
         VP!UnwrapSecretKey, V!UnwrapSecretKey, VP!NormalizeSecretKey, V!NormalizeSecretKey
<1>3. VP!Store!Init => V!Store!Init
  BY <1>2 DEF VP!Store!Init, V!Store!Init
<1>4. \A acc, con : VP!Store!Shared(acc, con) = V!Store!Shared(acc, con)
  BY DEF VP!Store!Shared, V!Store!Shared
<1>5. \A w : /\ VP!Store!Create(w) => V!Store!Create(w)
             /\ VP!Store!Drop(w) => V!Store!Drop(w)
  BY <1>2, <1>4 DEF VP!Store!Create, V!Store!Create, VP!Store!Drop, V!Store!Drop
<1>6. \A w, q : /\ VP!Store!Grant(w, q) => V!Store!Grant(w, q)
                /\ VP!Store!Revoke(w, q) => V!Store!Revoke(w, q)
  BY <1>2, <1>4 DEF VP!Store!Grant, V!Store!Grant, VP!Store!Revoke, V!Store!Revoke
<1>7. \A w, k : /\ VP!Store!Remove(w, k) => V!Store!Remove(w, k)
                /\ \A v : VP!Store!Put(w, k, v) => V!Store!Put(w, k, v)
  BY <1>2, <1>4 DEF VP!Store!Remove, V!Store!Remove, VP!Store!Put, V!Store!Put
<1>8. [VP!Store!Next]_VP!Store!vars => [V!Store!Next]_V!Store!vars
  BY <1>2, <1>5, <1>6, <1>7 DEF VP!Store!Next, V!Store!Next, VP!Store!vars, V!Store!vars
<1> QED
  BY <1>1, <1>3, <1>8, SameBehaviours, PTL
     DEF VP!ImplementsSharedStore, V!ImplementsSharedStore, VP!Store!Spec, V!Store!Spec

\* set_secret of one process, interleaved with delete_certificate of another,
\* never seals with a DEK that was handed to somebody who may no longer read.
THEOREM WritesShutFormerReadersOut == Spec => V!WritesRevoke
<1>1. VP!Spec => VP!WritesRevoke
  BY VP!WritesShutFormerReadersOut, NamesAssumption, NoKeyAssumption, NormalAssumption
<1>2. [\A s \in (db.secrets)' \ db.secrets : \A h \in handed' :
          h.dek = s.sealed.dek => h.pub \in VP!PubsOf(s.ws)']_VP!vars
      => [\A s \in (db.secrets)' \ db.secrets : \A h \in handed' :
             h.dek = s.sealed.dek => h.pub \in V!PubsOf(s.ws)']_V!vars
  BY DEF VP!PubsOf, V!PubsOf, VP!CertificatesOf, V!CertificatesOf, VP!vars, V!vars
<1> QED
  BY <1>1, <1>2, SameBehaviours, PTL DEF VP!WritesRevoke, V!WritesRevoke

\* A workspace reference does not pass to another workspace while its own one
\* is there, even if create_workspace draws its id before others commit.
THEOREM ReferencesStable == Spec => V!ReferencesAreStable
<1>1. VP!Spec => VP!ReferencesAreStable
  BY VP!ReferencesStable, NamesAssumption, NoKeyAssumption, NormalAssumption
<1>2. [\A ref \in VP!Refs : \A w \in VP!ResolveWorkspace(ref) :
          w \in (db.workspaces)' => w \in VP!ResolveWorkspace(ref)']_VP!vars
      => [\A ref \in V!Refs : \A w \in V!ResolveWorkspace(ref) :
             w \in (db.workspaces)' => w \in V!ResolveWorkspace(ref)']_V!vars
  BY DEF VP!Refs, V!Refs, VP!ResolveWorkspace, V!ResolveWorkspace, VP!vars, V!vars
<1> QED
  BY <1>1, <1>2, SameBehaviours, PTL DEF VP!ReferencesAreStable, V!ReferencesAreStable
=============================================================================
