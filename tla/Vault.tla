------------------------------- MODULE Vault -------------------------------
(***************************************************************************)
(* The storage library vaultick-lib as one process sees it: the four       *)
(* tables of migrations/0001_initial.sql and the public operations of      *)
(* Vaultick that write them.  An operation runs in one SQLite transaction, *)
(* so here it is one action; VaultTx takes the transactions apart.  A call *)
(* that returns an error rolls back, hence is a stuttering step.           *)
(*                                                                         *)
(* Cryptography is an envelope: a wrapped key opens only under the private *)
(* key of its public key, a ciphertext only under its DEK and the key name *)
(* it was sealed with.  A key pair is named by its public key, which       *)
(* stands for the PEM text, for the fingerprint and for the private key.   *)
(***************************************************************************)
EXTENDS FiniteSets

CONSTANTS
    Uuids,          \* outcomes of Uuid::new_v4
    Deks,           \* outcomes of the random draw of a DEK and its nonce
    Names,          \* workspace names; a name may spell another row's UUID
    DefaultName,    \* DEFAULT_WORKSPACE_NAME
    PublicKeys,     \* RSA key pairs
    NoKey,          \* no rewrap private key was given
    RawKeys,        \* secret keys as the caller types them
    Keys,           \* normalised secret keys
    Normal,         \* Normal[raw]: raw trimmed and upper-cased
    Empty,          \* the empty string, which is not a key
    Values          \* payloads

ASSUME NamesAssumption == DefaultName \in Names
ASSUME NoKeyAssumption == NoKey \notin PublicKeys
ASSUME NormalAssumption ==
    /\ Normal \in [RawKeys -> Keys \cup {Empty}]
    /\ Empty \notin Keys
    /\ \A k \in Keys : k \in RawKeys /\ Normal[k] = k

VARIABLES
    workspaces, certificates, secrets, recipients,   \* the four tables
    drawn,   \* random values drawn so far: a draw never repeats one
    handed   \* history: every wrapped key that was ever stored

tables == <<workspaces, certificates, secrets, recipients>>
vars == <<workspaces, certificates, secrets, recipients, drawn, handed>>

WorkspaceRow == [id : Uuids, name : Names]
CertificateRow == [id : Uuids, ws : Uuids, pub : PublicKeys]
Sealed == [dek : Deks, aad : Keys, value : Values]
SecretRow == [id : Uuids, ws : Uuids, key : Keys, sealed : Sealed]
Wrapped == [pub : PublicKeys, dek : Deks]
RecipientRow == [secret : Uuids, cert : Uuids, wrapped : Wrapped]

\* Every table holds rows of its own columns.
TypeOK ==
    /\ workspaces \subseteq WorkspaceRow
    /\ certificates \subseteq CertificateRow
    /\ secrets \subseteq SecretRow
    /\ recipients \subseteq RecipientRow
    /\ drawn \subseteq Uuids \cup Deks
    /\ handed \subseteq Wrapped
-----------------------------------------------------------------------------
(* Queries *)

\* A UUID is new, and nobody has named a workspace after it beforehand.
FreshUuids == (Uuids \ drawn) \ {w.name : w \in workspaces}

FreshDeks == Deks \ drawn

\* A key is trimmed and upper-cased; blank ones are refused by the callers.
NormalizeSecretKey(raw) == Normal[raw]

CertificatesOf(ws) == {c \in certificates : c.ws = ws}
SecretsOf(ws) == {s \in secrets : s.ws = ws}
PubsOf(ws) == {c.pub : c \in CertificatesOf(ws)}

\* Mutant: the names are searched before the ids.
NameFirst(ref) ==
    IF \E w \in workspaces : w.name = ref
    THEN {w \in workspaces : w.name = ref}
    ELSE {w \in workspaces : w.id = ref}

\* The workspace a reference denotes, as a set of at most one row: an id
\* match comes before a name match.
ResolveWorkspace(ref) ==
    IF \E w \in workspaces : w.id = ref
    THEN {w \in workspaces : w.id = ref}
    ELSE {w \in workspaces : w.name = ref}

\* A certificate of the workspace, by id or by fingerprint.
ResolveCertificate(ws, ref) ==
    {c \in CertificatesOf(ws) : ref \in {c.id, c.pub}}

\* The DEKs a private key gets out of a secret's recipients.  The code
\* returns the first one in the order SQLite lists the rows.
UnwrapSecretKey(priv, secret) ==
    {r.wrapped.dek : r \in {q \in recipients :
                               q.secret = secret /\ q.wrapped.pub = priv}}

\* The private key opens the secret, whichever row is listed first.
Opens(priv, s) ==
    /\ UnwrapSecretKey(priv, s.id) = {s.sealed.dek}
    /\ s.sealed.aad = s.key

\* What get_secret returns, as a set of at most one value: empty is an error.
GetSecret(ref, raw, priv) ==
    {s.sealed.value : s \in
        {t \in secrets : /\ \E w \in ResolveWorkspace(ref) : t.ws = w.id
                         /\ t.key = NormalizeSecretKey(raw)
                         /\ Opens(priv, t)}}
-----------------------------------------------------------------------------
(* Operations *)

\* A database opened for the first time: the seeded default workspace.
Init ==
    /\ \E id \in Uuids : /\ workspaces = {[id |-> id, name |-> DefaultName]}
                         /\ drawn = {id}
    /\ certificates = {}
    /\ secrets = {}
    /\ recipients = {}
    /\ handed = {}

\* INSERT INTO workspaces, under UNIQUE(name).
CreateWorkspace(name) ==
    \E id \in FreshUuids :
        /\ \A w \in workspaces : w.name # name
        /\ workspaces' = workspaces \cup {[id |-> id, name |-> name]}
        /\ drawn' = drawn \cup {id}
        /\ UNCHANGED <<certificates, secrets, recipients, handed>>

\* The row outlives the workspace: ON DELETE CASCADE takes the others.
OutlivesWorkspace(ws, row) == row.ws # ws

DeleteWorkspace(ref) ==
    \E w \in ResolveWorkspace(ref) :
        /\ workspaces' = workspaces \ {w}
        /\ certificates' = {c \in certificates : OutlivesWorkspace(w.id, c)}
        /\ secrets' = {s \in secrets : OutlivesWorkspace(w.id, s)}
        /\ recipients' = {r \in recipients :
                            /\ \A s \in secrets \ secrets' : r.secret # s.id
                            /\ \A c \in certificates \ certificates' :
                                    r.cert # c.id}
        /\ UNCHANGED <<drawn, handed>>

\* Mutant: a certificate joins without the existing secrets being rewrapped.
NeverRewrap(ws) == FALSE

\* The workspace has secrets that its present readers can open.
MustRewrap(ws) == SecretsOf(ws) # {} /\ CertificatesOf(ws) # {}

\* Mutant: the new row takes the wrapped key it was unwrapped from.
Copied(s, cert, pub, priv) ==
    [secret |-> s.id, cert |-> cert,
     wrapped |-> [pub |-> priv,
                  dek |-> CHOOSE d \in UnwrapSecretKey(priv, s.id) : TRUE]]

\* The recipient row that hands a secret's DEK on to a new certificate.
Rewrapped(s, cert, pub, priv) ==
    [secret |-> s.id, cert |-> cert,
     wrapped |-> [pub |-> pub,
                  dek |-> CHOOSE d \in UnwrapSecretKey(priv, s.id) : TRUE]]

\* add_certificate: refused without a rewrap key that opens every secret, or
\* when the fingerprint is already in the workspace.
AddCertificate(ref, pub, priv) ==
    \E w \in ResolveWorkspace(ref), id \in FreshUuids :
        LET rewrapped == IF MustRewrap(w.id) THEN SecretsOf(w.id) ELSE {}
            new == {Rewrapped(s, id, pub, priv) : s \in rewrapped}
        IN  /\ MustRewrap(w.id) => priv # NoKey
            /\ pub \notin PubsOf(w.id)
            /\ \A s \in rewrapped : UnwrapSecretKey(priv, s.id) # {}
            /\ certificates' = certificates \cup
                                   {[id |-> id, ws |-> w.id, pub |-> pub]}
            /\ recipients' = recipients \cup new
            /\ drawn' = drawn \cup {id}
            /\ handed' = handed \cup {r.wrapped : r \in new}
            /\ UNCHANGED <<workspaces, secrets>>

\* Mutant: the query asks whether any recipient would remain in the table,
\* not whether one would remain for the same secret.
OrphansTable(c) ==
    \E r \in recipients : r.cert = c.id /\ \A q \in recipients : q.cert = c.id

\* Some secret has this certificate as its only recipient.
WouldOrphan(c) ==
    \E r \in recipients :
        /\ r.cert = c.id
        /\ ~ \E q \in recipients : q.secret = r.secret /\ q.cert # c.id

\* Mutant: foreign keys are off, so the wrapped keys stay.
KeepRecipients(c) == recipients

\* The recipients left when the certificate's rows have cascaded away.
WithoutCertificate(c) == {r \in recipients : r.cert # c.id}

DeleteCertificate(ref, cref) ==
    \E w \in ResolveWorkspace(ref) : \E c \in ResolveCertificate(w.id, cref) :
        /\ ~WouldOrphan(c)
        /\ certificates' = certificates \ {c}
        /\ recipients' = WithoutCertificate(c)
        /\ UNCHANGED <<workspaces, secrets, drawn, handed>>

\* Mutant: an overwrite seals the new payload under the DEK it finds.
KeepDek(existing) ==
    IF existing = {} THEN FreshDeks ELSE {s.sealed.dek : s \in existing}

\* The DEK of a write: a new one, also when the write overwrites.
WriteDeks(existing) == FreshDeks

\* Mutant: an INSERT OR REPLACE that leaves the old recipient rows in place.
AddedRecipients(id, dek, ws) ==
    recipients \cup
    {[secret |-> id, cert |-> c.id, wrapped |-> [pub |-> c.pub, dek |-> dek]] :
        c \in CertificatesOf(ws)}

\* The secret's old recipients are deleted, and its DEK is wrapped for every
\* certificate of the workspace.
ReplacedRecipients(id, dek, ws) ==
    {r \in recipients : r.secret # id} \cup
    {[secret |-> id, cert |-> c.id, wrapped |-> [pub |-> c.pub, dek |-> dek]] :
        c \in CertificatesOf(ws)}

\* set_secret: refused without a certificate, and on an existing key unless
\* overwrite is set; an overwrite keeps the row's id.
SetSecret(ref, raw, value, overwrite) ==
    \E w \in ResolveWorkspace(ref) :
        LET key == NormalizeSecretKey(raw)
            existing == {s \in SecretsOf(w.id) : s.key = key}
        IN  /\ key # Empty
            /\ CertificatesOf(w.id) # {}
            /\ existing # {} => overwrite
            /\ \E dek \in WriteDeks(existing),
                  id \in IF existing = {} THEN FreshUuids
                                          ELSE {s.id : s \in existing} :
                /\ secrets' = (secrets \ existing) \cup
                       {[id |-> id, ws |-> w.id, key |-> key,
                         sealed |-> [dek |-> dek, aad |-> key,
                                     value |-> value]]}
                /\ recipients' = ReplacedRecipients(id, dek, w.id)
                /\ drawn' = drawn \cup {id, dek}
                /\ handed' = handed \cup
                       {[pub |-> p, dek |-> dek] : p \in PubsOf(w.id)}
            /\ UNCHANGED <<workspaces, certificates>>

DeleteSecret(ref, raw) ==
    \E w \in ResolveWorkspace(ref) : \E s \in SecretsOf(w.id) :
        /\ s.key = NormalizeSecretKey(raw)
        /\ secrets' = secrets \ {s}
        /\ recipients' = {r \in recipients : r.secret # s.id}
        /\ UNCHANGED <<workspaces, certificates, drawn, handed>>

Refs == Uuids \cup Names

Next ==
    \/ \E name \in Names : CreateWorkspace(name)
    \/ \E ref \in Refs :
        \/ DeleteWorkspace(ref)
        \/ \E pub \in PublicKeys, priv \in PublicKeys \cup {NoKey} :
                AddCertificate(ref, pub, priv)
        \/ \E cref \in Uuids \cup PublicKeys : DeleteCertificate(ref, cref)
        \/ \E raw \in RawKeys, value \in Values, overwrite \in BOOLEAN :
                SetSecret(ref, raw, value, overwrite)
        \/ \E raw \in RawKeys : DeleteSecret(ref, raw)

Spec == Init /\ [][Next]_vars
-----------------------------------------------------------------------------
(* Properties *)

\* A certificate of a workspace opens every secret of the workspace: the
\* recipients written by set_secret and by the rewrap of add_certificate
\* never lag behind the certificates, whatever order they are called in.
EveryCertificateOpensEverySecret ==
    \A s \in secrets : \A p \in PubsOf(s.ws) : Opens(p, s)

\* A key opens a secret only while its certificate is in the workspace:
\* delete_certificate and set_secret leave no wrapped key behind.
OnlyCertificatesOpenSecrets ==
    \A s \in secrets : \A p \in PublicKeys : Opens(p, s) => p \in PubsOf(s.ws)

\* delete_certificate refuses exactly the last certificate of a workspace
\* that holds secrets, although its query looks only at recipient rows.
RefusesExactlyTheLastKey ==
    \A c \in certificates :
        WouldOrphan(c) <=> SecretsOf(c.ws) # {} /\ CertificatesOf(c.ws) = {c}

\* Every stored secret has a reader.
NoSecretIsOrphaned ==
    \A s \in secrets : \E p \in PublicKeys : Opens(p, s)

\* The cascades leave no row that refers to a deleted one.
NoDanglingRows ==
    /\ \A c \in certificates : \E w \in workspaces : w.id = c.ws
    /\ \A s \in secrets : \E w \in workspaces : w.id = s.ws
    /\ \A r \in recipients :
        \E s \in secrets, c \in certificates :
            r.secret = s.id /\ r.cert = c.id /\ s.ws = c.ws

\* A reference that denotes a workspace denotes it until it is deleted, also
\* when another workspace takes the first one's id for a name.
ReferencesAreStable ==
    [][\A ref \in Refs : \A w \in ResolveWorkspace(ref) :
          w \in workspaces' => w \in ResolveWorkspace(ref)']_vars

\* A write shuts former readers out: the DEK it seals with was never wrapped
\* for a key that is not authorised at the time of the write.
WritesRevoke ==
    [][\A s \in secrets' \ secrets : \A h \in handed' :
          h.dek = s.sealed.dek => h.pub \in PubsOf(s.ws)']_vars
-----------------------------------------------------------------------------
(* The inductive invariant: why the properties above hold *)

\* The primary keys and UNIQUE constraints of the schema.
UniqueRows ==
    /\ \A v, w \in workspaces : v.id = w.id \/ v.name = w.name => v = w
    /\ \A c, d \in certificates :
           c.id = d.id \/ (c.ws = d.ws /\ c.pub = d.pub) => c = d
    /\ \A s, t \in secrets :
           s.id = t.id \/ (s.ws = t.ws /\ s.key = t.key) => s = t

\* Rows belong to workspaces that exist.
LiveRows ==
    /\ \A c \in certificates : \E w \in workspaces : w.id = c.ws
    /\ \A s \in secrets : \E w \in workspaces : w.id = s.ws

\* Whatever is stored has been drawn, so that a new draw differs from it.
DrawnRows ==
    /\ \A w \in workspaces : w.id \in drawn
    /\ \A c \in certificates : c.id \in drawn
    /\ \A s \in secrets : s.id \in drawn /\ s.sealed.dek \in drawn
    /\ \A h \in handed : h.dek \in drawn

\* The DEK of the secret, wrapped for the certificate.
Envelope(s, c) ==
    [secret |-> s.id, cert |-> c.id,
     wrapped |-> [pub |-> c.pub, dek |-> s.sealed.dek]]

\* The recipients are exactly the envelopes of each secret for each
\* certificate of its workspace.
ExactRecipients ==
    /\ \A r \in recipients : \E s \in secrets, c \in certificates :
           s.ws = c.ws /\ r = Envelope(s, c)
    /\ \A s \in secrets, c \in certificates :
           s.ws = c.ws => Envelope(s, c) \in recipients

\* A secret is sealed under its own key name, in a workspace with a reader.
SealedSecrets ==
    \A s \in secrets : /\ s.sealed.aad = s.key
                       /\ \E c \in certificates : c.ws = s.ws

\* Every step keeps the envelopes complete: set_secret writes one for every
\* certificate, add_certificate one for every secret, the deletions cascade.
IInv ==
    /\ TypeOK
    /\ UniqueRows
    /\ LiveRows
    /\ DrawnRows
    /\ ExactRecipients
    /\ SealedSecrets
-----------------------------------------------------------------------------
(* The tables as the store the library promises                            *)

\* A reader of a workspace is a key with a certificate in it.
Access == {<<c.ws, c.pub>> : c \in certificates}

Content == {<<s.ws, s.key, s.sealed.value>> : s \in secrets}

\* What get_secret gives to whom.
Readable ==
    {t \in Uuids \X PublicKeys \X Keys \X Values :
        /\ \E w \in workspaces : w.id = t[1]
        /\ t[4] \in GetSecret(t[1], t[3], t[2])}

Store == INSTANCE SharedStore WITH
    Spaces <- Uuids, Readers <- PublicKeys,
    spaces <- {w.id : w \in workspaces},
    access <- Access, content <- Content, readable <- Readable

\* The tables implement the shared store: no sequence of operations gives a
\* reader anything but the last value written, or an outsider anything.
ImplementsSharedStore == Store!Spec
=============================================================================
