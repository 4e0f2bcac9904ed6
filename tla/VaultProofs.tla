---------------------------- MODULE VaultProofs ----------------------------
(* Proofs about Vault, for any sets of keys, values, UUIDs and DEKs.       *)
EXTENDS Vault, TLAPS

(***************************************************************************)
(* What the inductive invariant says about the queries.                    *)
(***************************************************************************)

\* unwrap_secret_key gets the secret's own DEK out of the recipients when the
\* key's certificate is in the workspace, and nothing when it is not.
LEMMA UnwrapIsExact ==
  ASSUME IInv, NEW s \in secrets, NEW p
  PROVE  UnwrapSecretKey(p, s.id) = IF p \in PubsOf(s.ws) THEN {s.sealed.dek}
                                                          ELSE {}
<1>1. ASSUME NEW r \in recipients, r.secret = s.id, r.wrapped.pub = p
      PROVE  r.wrapped.dek = s.sealed.dek /\ p \in PubsOf(s.ws)
  <2>1. PICK t \in secrets, c \in certificates : t.ws = c.ws /\ r = Envelope(t, c)
    BY DEF IInv, ExactRecipients
  <2>2. t = s
    BY <1>1, <2>1 DEF IInv, UniqueRows, Envelope
  <2>. QED
    BY <1>1, <2>1, <2>2 DEF Envelope, PubsOf, CertificatesOf
<1>2. ASSUME p \in PubsOf(s.ws)
      PROVE  \E r \in recipients : r.secret = s.id /\ r.wrapped.pub = p
                                     /\ r.wrapped.dek = s.sealed.dek
  <2>1. PICK c \in certificates : c.ws = s.ws /\ c.pub = p
    BY <1>2 DEF PubsOf, CertificatesOf
  <2>2. Envelope(s, c) \in recipients
    BY <2>1 DEF IInv, ExactRecipients
  <2>. QED
    BY <2>1, <2>2 DEF Envelope
<1>. QED
  BY <1>1, <1>2 DEF UnwrapSecretKey

\* Hence a key opens a secret exactly when its certificate is there.
LEMMA OpensIsAuthorised ==
  ASSUME IInv, NEW s \in secrets, NEW p
  PROVE  Opens(p, s) <=> p \in PubsOf(s.ws)
BY UnwrapIsExact DEF Opens, IInv, SealedSecrets

\* The orphan query of delete_certificate finds the last certificate of a
\* workspace with secrets.
LEMMA OrphanIsLast ==
  ASSUME IInv, NEW c \in certificates
  PROVE  WouldOrphan(c) <=> SecretsOf(c.ws) # {} /\ CertificatesOf(c.ws) = {c}
<1>1. ASSUME WouldOrphan(c)
      PROVE  SecretsOf(c.ws) # {} /\ CertificatesOf(c.ws) = {c}
  <2>1. PICK r \in recipients :
            r.cert = c.id /\ \A q \in recipients : q.secret = r.secret => q.cert = c.id
    BY <1>1 DEF WouldOrphan
  <2>2. PICK s \in secrets, d \in certificates : s.ws = d.ws /\ r = Envelope(s, d)
    BY <2>1 DEF IInv, ExactRecipients
  <2>3. d = c
    BY <2>1, <2>2 DEF IInv, UniqueRows, Envelope
  <2>4. ASSUME NEW e \in certificates, e.ws = c.ws
        PROVE  e = c
    <3>1. Envelope(s, e) \in recipients
      BY <2>2, <2>3, <2>4 DEF IInv, ExactRecipients
    <3>2. e.id = c.id
      BY <3>1, <2>1, <2>2 DEF Envelope
    <3>. QED
      BY <3>2 DEF IInv, UniqueRows
  <2>. QED
    BY <2>2, <2>3, <2>4 DEF SecretsOf, CertificatesOf
<1>2. ASSUME NEW s \in secrets, s.ws = c.ws, CertificatesOf(c.ws) = {c}
      PROVE  WouldOrphan(c)
  <2>1. Envelope(s, c) \in recipients
    BY <1>2 DEF IInv, ExactRecipients
  <2>2. ASSUME NEW q \in recipients, q.secret = s.id
        PROVE  q.cert = c.id
    <3>1. PICK t \in secrets, d \in certificates : t.ws = d.ws /\ q = Envelope(t, d)
      BY DEF IInv, ExactRecipients
    <3>2. t = s
      BY <2>2, <3>1 DEF IInv, UniqueRows, Envelope
    <3>3. d \in CertificatesOf(c.ws)
      BY <1>2, <3>1, <3>2 DEF CertificatesOf
    <3>. QED
      BY <1>2, <3>1, <3>3 DEF Envelope
  <2>3. Envelope(s, c).secret = s.id /\ Envelope(s, c).cert = c.id
    BY DEF Envelope
  <2>. QED
    BY <2>1, <2>2, <2>3 DEF WouldOrphan
<1>. QED
  BY <1>1, <1>2 DEF SecretsOf

\* A reference denotes at most one workspace, one that exists.
LEMMA ResolvesToOne ==
  ASSUME IInv, NEW ref
  PROVE  /\ ResolveWorkspace(ref) \subseteq workspaces
         /\ \A v, w \in ResolveWorkspace(ref) : v = w
BY DEF IInv, UniqueRows, ResolveWorkspace
-----------------------------------------------------------------------------
(* Every operation preserves the inductive invariant *)

\* The invariant holds of the empty tables.
LEMMA InitIInv == Init => IInv
<1> SUFFICES ASSUME Init PROVE IInv
  OBVIOUS
<1>1. PICK id \in Uuids : workspaces = {[id |-> id, name |-> DefaultName]}
                           /\ drawn = {id}
  BY DEF Init
<1>2. TypeOK
  BY <1>1, NamesAssumption DEF Init, TypeOK, WorkspaceRow
<1>. QED
  BY <1>1, <1>2 DEF Init, IInv, UniqueRows, LiveRows, DrawnRows, ExactRecipients,
                    SealedSecrets

\* A new workspace has no rows.
LEMMA CreateWorkspaceIInv ==
  ASSUME IInv, NEW name \in Names, CreateWorkspace(name)
  PROVE  IInv'
<1>1. PICK id \in FreshUuids :
          /\ \A w \in workspaces : w.name # name
          /\ workspaces' = workspaces \cup {[id |-> id, name |-> name]}
          /\ drawn' = drawn \cup {id}
          /\ UNCHANGED <<certificates, secrets, recipients, handed>>
  BY DEF CreateWorkspace
<1>2. id \in Uuids /\ id \notin drawn
  BY DEF FreshUuids
<1>3. TypeOK'
  BY <1>1, <1>2 DEF IInv, TypeOK, WorkspaceRow
<1>4. UniqueRows'
  BY <1>1, <1>2 DEF IInv, UniqueRows, DrawnRows
<1>5. LiveRows'
  BY <1>1 DEF IInv, LiveRows
<1>6. DrawnRows'
  BY <1>1 DEF IInv, DrawnRows
<1>7. ExactRecipients' /\ SealedSecrets'
  BY <1>1 DEF IInv, ExactRecipients, SealedSecrets, Envelope
<1>. QED
  BY <1>3, <1>4, <1>5, <1>6, <1>7 DEF IInv

\* A workspace takes its certificates and secrets with it.
LEMMA DeleteWorkspaceIInv ==
  ASSUME IInv, NEW ref, DeleteWorkspace(ref)
  PROVE  IInv'
<1>1. PICK w \in ResolveWorkspace(ref) :
          /\ workspaces' = workspaces \ {w}
          /\ certificates' = {c \in certificates : c.ws # w.id}
          /\ secrets' = {s \in secrets : s.ws # w.id}
          /\ recipients' = {r \in recipients :
                              /\ \A s \in secrets \ secrets' : r.secret # s.id
                              /\ \A c \in certificates \ certificates' : r.cert # c.id}
          /\ UNCHANGED <<drawn, handed>>
  BY DEF DeleteWorkspace, OutlivesWorkspace
<1>2. w \in workspaces
  BY ResolvesToOne
<1>3. TypeOK'
  BY <1>1 DEF IInv, TypeOK
<1>4. UniqueRows'
  BY <1>1 DEF IInv, UniqueRows
<1>5. LiveRows'
  BY <1>1, <1>2 DEF IInv, LiveRows
<1>6. DrawnRows'
  BY <1>1 DEF IInv, DrawnRows
<1>7. ASSUME NEW r \in recipients'
      PROVE  \E s \in secrets', c \in certificates' : s.ws = c.ws /\ r = Envelope(s, c)
  <2>1. PICK s \in secrets, c \in certificates : s.ws = c.ws /\ r = Envelope(s, c)
    BY <1>1 DEF IInv, ExactRecipients
  <2>2. s \in secrets'
    BY <1>1, <2>1 DEF Envelope
  <2>. QED
    BY <1>1, <2>1, <2>2
<1>8. ASSUME NEW s \in secrets', NEW c \in certificates', s.ws = c.ws
      PROVE  Envelope(s, c) \in recipients'
  <2>1. s \in secrets /\ c \in certificates /\ s.ws # w.id
    BY <1>1
  <2>2. Envelope(s, c) \in recipients
    BY <1>8, <2>1 DEF IInv, ExactRecipients
  <2>3. Envelope(s, c).secret = s.id /\ Envelope(s, c).cert = c.id
    BY DEF Envelope
  <2>4. \A t \in secrets \ secrets' : s.id # t.id
    BY <1>1, <2>1 DEF IInv, UniqueRows
  <2>5. \A d \in certificates \ certificates' : c.id # d.id
    BY <1>1, <1>8, <2>1 DEF IInv, UniqueRows
  <2>. QED
    BY <1>1, <2>2, <2>3, <2>4, <2>5
<1>9. ExactRecipients'
  BY <1>7, <1>8 DEF ExactRecipients, Envelope
<1>10. SealedSecrets'
  BY <1>1 DEF IInv, SealedSecrets
<1>. QED
  BY <1>3, <1>4, <1>5, <1>6, <1>9, <1>10 DEF IInv

\* A certificate takes its recipient rows with it.
LEMMA DeleteCertificateIInv ==
  ASSUME IInv, NEW ref, NEW cref, DeleteCertificate(ref, cref)
  PROVE  IInv'
<1>1. PICK c \in certificates :
          /\ ~WouldOrphan(c)
          /\ certificates' = certificates \ {c}
          /\ recipients' = {r \in recipients : r.cert # c.id}
          /\ UNCHANGED <<workspaces, secrets, drawn, handed>>
  BY DEF DeleteCertificate, WithoutCertificate, ResolveCertificate, CertificatesOf
<1>3. TypeOK'
  BY <1>1 DEF IInv, TypeOK
<1>4. UniqueRows' /\ LiveRows' /\ DrawnRows'
  BY <1>1 DEF IInv, UniqueRows, LiveRows, DrawnRows
<1>5. ASSUME NEW r \in recipients'
      PROVE  \E s \in secrets', d \in certificates' : s.ws = d.ws /\ r = Envelope(s, d)
  <2>1. PICK s \in secrets, d \in certificates : s.ws = d.ws /\ r = Envelope(s, d)
    BY <1>1 DEF IInv, ExactRecipients
  <2>2. d # c
    BY <1>1, <2>1 DEF Envelope
  <2>. QED
    BY <1>1, <2>1, <2>2
<1>6. ASSUME NEW s \in secrets', NEW d \in certificates', s.ws = d.ws
      PROVE  Envelope(s, d) \in recipients'
  <2>1. Envelope(s, d) \in recipients
    BY <1>1, <1>6 DEF IInv, ExactRecipients
  <2>2. d.id # c.id
    BY <1>1 DEF IInv, UniqueRows
  <2>. QED
    BY <1>1, <2>1, <2>2 DEF Envelope
<1>7. ExactRecipients'
  BY <1>5, <1>6 DEF ExactRecipients, Envelope
<1>8. ASSUME NEW s \in secrets
      PROVE  \E d \in certificates' : d.ws = s.ws
  <2>1. PICK d \in certificates : d.ws = s.ws
    BY DEF IInv, SealedSecrets
  <2>2. CASE c.ws = s.ws
    <3>1. CertificatesOf(c.ws) # {c}
      BY <1>1, <2>2, OrphanIsLast DEF SecretsOf
    <3>. QED
      BY <1>1, <2>2, <3>1 DEF CertificatesOf
  <2>. QED
    BY <1>1, <2>1, <2>2
<1>9. SealedSecrets'
  BY <1>1, <1>8 DEF IInv, SealedSecrets
<1>. QED
  BY <1>3, <1>4, <1>7, <1>9 DEF IInv

\* A secret takes its recipient rows with it.
LEMMA DeleteSecretIInv ==
  ASSUME IInv, NEW ref, NEW raw, DeleteSecret(ref, raw)
  PROVE  IInv'
<1>1. PICK s \in secrets :
          /\ secrets' = secrets \ {s}
          /\ recipients' = {r \in recipients : r.secret # s.id}
          /\ UNCHANGED <<workspaces, certificates, drawn, handed>>
  BY DEF DeleteSecret, SecretsOf
<1>2. TypeOK'
  BY <1>1 DEF IInv, TypeOK
<1>3. UniqueRows' /\ LiveRows' /\ DrawnRows' /\ SealedSecrets'
  BY <1>1 DEF IInv, UniqueRows, LiveRows, DrawnRows, SealedSecrets
<1>4. ASSUME NEW r \in recipients'
      PROVE  \E t \in secrets', c \in certificates' : t.ws = c.ws /\ r = Envelope(t, c)
  <2>1. PICK t \in secrets, c \in certificates : t.ws = c.ws /\ r = Envelope(t, c)
    BY <1>1 DEF IInv, ExactRecipients
  <2>2. t # s
    BY <1>1, <2>1 DEF Envelope
  <2>. QED
    BY <1>1, <2>1, <2>2
<1>5. ASSUME NEW t \in secrets', NEW c \in certificates', t.ws = c.ws
      PROVE  Envelope(t, c) \in recipients'
  <2>1. Envelope(t, c) \in recipients
    BY <1>1, <1>5 DEF IInv, ExactRecipients
  <2>2. t.id # s.id
    BY <1>1 DEF IInv, UniqueRows
  <2>. QED
    BY <1>1, <2>1, <2>2 DEF Envelope
<1>6. ExactRecipients'
  BY <1>4, <1>5 DEF ExactRecipients, Envelope
<1>. QED
  BY <1>2, <1>3, <1>6 DEF IInv
\* A new certificate gets a recipient row of every secret.
LEMMA AddCertificateIInv ==
  ASSUME IInv, NEW ref, NEW pub \in PublicKeys, NEW priv, AddCertificate(ref, pub, priv)
  PROVE  IInv'
<1> DEFINE new(s, id) == Rewrapped(s, id, pub, priv)
<1>1. PICK w \in ResolveWorkspace(ref), id \in FreshUuids :
          LET rewrapped == IF MustRewrap(w.id) THEN SecretsOf(w.id) ELSE {}
              rows == {new(s, id) : s \in rewrapped}
          IN  /\ pub \notin PubsOf(w.id)
              /\ \A s \in rewrapped : UnwrapSecretKey(priv, s.id) # {}
              /\ certificates' = certificates \cup
                                     {[id |-> id, ws |-> w.id, pub |-> pub]}
              /\ recipients' = recipients \cup rows
              /\ drawn' = drawn \cup {id}
              /\ handed' = handed \cup {r.wrapped : r \in rows}
              /\ UNCHANGED <<workspaces, secrets>>
  BY DEF AddCertificate
<1> DEFINE cert == [id |-> id, ws |-> w.id, pub |-> pub]
<1>2. w \in workspaces /\ w.id \in Uuids
  BY ResolvesToOne DEF IInv, TypeOK, WorkspaceRow
<1>3. id \in Uuids /\ id \notin drawn
  BY DEF FreshUuids
<1>4. SecretsOf(w.id) = IF MustRewrap(w.id) THEN SecretsOf(w.id) ELSE {}
  <2>1. SecretsOf(w.id) # {} => CertificatesOf(w.id) # {}
    BY DEF IInv, SealedSecrets, SecretsOf, CertificatesOf
  <2>. QED
    BY <2>1 DEF MustRewrap
<1>5. ASSUME NEW s \in SecretsOf(w.id)
      PROVE  new(s, id) = Envelope(s, cert)
  <2>1. s \in secrets
    BY DEF SecretsOf
  <2>2. UnwrapSecretKey(priv, s.id) = {s.sealed.dek}
    BY <1>1, <1>4, <2>1, UnwrapIsExact
  <2>3. (CHOOSE d \in UnwrapSecretKey(priv, s.id) : TRUE) = s.sealed.dek
    BY <2>2
  <2>. QED
    BY <2>3 DEF Rewrapped, Envelope
<1>6. recipients' = recipients \cup {Envelope(s, cert) : s \in SecretsOf(w.id)}
  BY <1>1, <1>4, <1>5
<1>7. handed' = handed \cup {Envelope(s, cert).wrapped : s \in SecretsOf(w.id)}
  BY <1>1, <1>4, <1>5
<1>8. cert \in CertificateRow
  BY <1>2, <1>3 DEF CertificateRow
<1>9. \A s \in SecretsOf(w.id) : Envelope(s, cert) \in RecipientRow
  BY <1>8 DEF IInv, TypeOK, SecretsOf, SecretRow, Sealed, CertificateRow, Envelope,
              RecipientRow, Wrapped
<1>10. TypeOK'
  BY <1>1, <1>3, <1>6, <1>7, <1>8, <1>9 DEF IInv, TypeOK, RecipientRow
<1>11. UniqueRows'
  BY <1>1, <1>3 DEF IInv, UniqueRows, DrawnRows, PubsOf, CertificatesOf
<1>12. LiveRows'
  BY <1>1, <1>2 DEF IInv, LiveRows
<1>13. DrawnRows'
  BY <1>1, <1>7 DEF IInv, DrawnRows, SecretsOf, Envelope
<1>14. ASSUME NEW r \in recipients'
       PROVE  \E s \in secrets', c \in certificates' : s.ws = c.ws /\ r = Envelope(s, c)
  <2>1. CASE r \in recipients
    BY <1>1, <2>1 DEF IInv, ExactRecipients
  <2>2. CASE \E s \in SecretsOf(w.id) : r = Envelope(s, cert)
    BY <1>1, <2>2 DEF SecretsOf
  <2>. QED
    BY <1>6, <2>1, <2>2
<1>15. ASSUME NEW s \in secrets', NEW c \in certificates', s.ws = c.ws
       PROVE  Envelope(s, c) \in recipients'
  <2>1. CASE c \in certificates
    BY <1>1, <1>6, <1>15, <2>1 DEF IInv, ExactRecipients
  <2>2. CASE c = cert
    BY <1>1, <1>6, <1>15, <2>2 DEF SecretsOf
  <2>. QED
    BY <1>1, <2>1, <2>2
<1>16. ExactRecipients'
  BY <1>14, <1>15 DEF ExactRecipients, Envelope
<1>17. SealedSecrets'
  BY <1>1 DEF IInv, SealedSecrets
<1>. QED
  BY <1>10, <1>11, <1>12, <1>13, <1>16, <1>17 DEF IInv

\* A secret is sealed anew for every certificate.
LEMMA SetSecretIInv ==
  ASSUME IInv, NEW ref, NEW raw \in RawKeys, NEW value \in Values, NEW overwrite,
         SetSecret(ref, raw, value, overwrite)
  PROVE  IInv'
<1> DEFINE key == NormalizeSecretKey(raw)
<1>1. PICK w \in ResolveWorkspace(ref) :
          LET existing == {s \in SecretsOf(w.id) : s.key = key}
          IN  /\ key # Empty
              /\ CertificatesOf(w.id) # {}
              /\ \E dek \in WriteDeks(existing),
                    id \in IF existing = {} THEN FreshUuids
                                            ELSE {s.id : s \in existing} :
                  /\ secrets' = (secrets \ existing) \cup
                         {[id |-> id, ws |-> w.id, key |-> key,
                           sealed |-> [dek |-> dek, aad |-> key,
                                       value |-> value]]}
                  /\ recipients' = ReplacedRecipients(id, dek, w.id)
                  /\ drawn' = drawn \cup {id, dek}
                  /\ handed' = handed \cup
                         {[pub |-> p, dek |-> dek] : p \in PubsOf(w.id)}
              /\ UNCHANGED <<workspaces, certificates>>
  BY DEF SetSecret
<1> DEFINE existing == {s \in SecretsOf(w.id) : s.key = key}
<1>2. PICK dek \in FreshDeks,
           id \in IF existing = {} THEN FreshUuids ELSE {s.id : s \in existing} :
          /\ secrets' = (secrets \ existing) \cup
                 {[id |-> id, ws |-> w.id, key |-> key,
                   sealed |-> [dek |-> dek, aad |-> key, value |-> value]]}
          /\ recipients' = ReplacedRecipients(id, dek, w.id)
          /\ drawn' = drawn \cup {id, dek}
          /\ handed' = handed \cup {[pub |-> p, dek |-> dek] : p \in PubsOf(w.id)}
  BY <1>1 DEF WriteDeks
<1> DEFINE new == [id |-> id, ws |-> w.id, key |-> key,
                   sealed |-> [dek |-> dek, aad |-> key, value |-> value]]
<1>3. UNCHANGED <<workspaces, certificates>>
  BY <1>1
<1>4. w \in workspaces /\ w.id \in Uuids
  BY ResolvesToOne DEF IInv, TypeOK, WorkspaceRow
<1>5. dek \in Deks /\ key \in Keys
  BY <1>1, NormalAssumption DEF FreshDeks, NormalizeSecretKey
\* The id is new, or that of the one row that is replaced.
<1>6. /\ id \in Uuids
      /\ \A s \in secrets \ existing : s.id # id
      /\ \A s \in existing : s.id = id
  <2>1. CASE existing = {}
    BY <2>1 DEF FreshUuids, IInv, DrawnRows
  <2>2. CASE existing # {}
    <3>1. PICK t \in existing : id = t.id
      BY <1>2, <2>2
    <3>2. \A s \in existing : s = t
      BY <3>1 DEF SecretsOf, IInv, UniqueRows
    <3>3. \A s \in secrets : s.id = id => s = t
      BY <3>1 DEF SecretsOf, IInv, UniqueRows
    <3>4. id \in Uuids
      BY <3>1 DEF SecretsOf, IInv, TypeOK, SecretRow
    <3>. QED
      BY <3>1, <3>2, <3>3, <3>4
  <2>. QED
    BY <2>1, <2>2
<1>7. secrets' = (secrets \ existing) \cup {new}
  BY <1>2
<1>8. recipients' = {r \in recipients : r.secret # id} \cup
                        {Envelope(new, c) : c \in CertificatesOf(w.id)}
  BY <1>2 DEF ReplacedRecipients, Envelope
<1>9. new \in SecretRow
  BY <1>4, <1>5, <1>6 DEF SecretRow, Sealed
<1>10. \A c \in CertificatesOf(w.id) : Envelope(new, c) \in RecipientRow
  BY <1>9 DEF IInv, TypeOK, CertificatesOf, CertificateRow, SecretRow, Sealed, Envelope,
              RecipientRow, Wrapped
<1>11. \A p \in PubsOf(w.id) : [pub |-> p, dek |-> dek] \in Wrapped
  BY <1>5 DEF IInv, TypeOK, PubsOf, CertificatesOf, CertificateRow, Wrapped
<1>12. TypeOK'
  BY <1>2, <1>3, <1>5, <1>6, <1>7, <1>8, <1>9, <1>10, <1>11 DEF IInv, TypeOK
<1>13. UniqueRows'
  <2>1. \A s \in secrets \ existing : ~(s.ws = new.ws /\ s.key = new.key)
    BY DEF SecretsOf
  <2>. QED
    BY <1>3, <1>6, <1>7, <2>1 DEF IInv, UniqueRows
<1>14. LiveRows'
  BY <1>3, <1>4, <1>7 DEF IInv, LiveRows
<1>15. DrawnRows'
  BY <1>2, <1>3, <1>7 DEF IInv, DrawnRows
<1>16. ASSUME NEW r \in recipients'
       PROVE  \E s \in secrets', c \in certificates' : s.ws = c.ws /\ r = Envelope(s, c)
  <2>1. CASE r \in recipients /\ r.secret # id
    <3>1. PICK s \in secrets, c \in certificates : s.ws = c.ws /\ r = Envelope(s, c)
      BY <2>1 DEF IInv, ExactRecipients
    <3>2. s \in secrets'
      BY <1>6, <1>7, <2>1, <3>1 DEF Envelope
    <3>. QED
      BY <1>3, <3>1, <3>2
  <2>2. CASE \E c \in CertificatesOf(w.id) : r = Envelope(new, c)
    BY <1>3, <1>7, <2>2 DEF CertificatesOf
  <2>. QED
    BY <1>8, <2>1, <2>2
<1>17. ASSUME NEW s \in secrets', NEW c \in certificates', s.ws = c.ws
       PROVE  Envelope(s, c) \in recipients'
  <2>1. CASE s \in secrets \ existing
    <3>1. Envelope(s, c) \in recipients
      BY <1>3, <1>17, <2>1 DEF IInv, ExactRecipients
    <3>2. Envelope(s, c).secret # id
      BY <1>6, <2>1 DEF Envelope
    <3>. QED
      BY <1>8, <3>1, <3>2
  <2>2. CASE s = new
    BY <1>3, <1>8, <1>17, <2>2 DEF CertificatesOf
  <2>. QED
    BY <1>7, <2>1, <2>2
<1>18. ExactRecipients'
  BY <1>16, <1>17 DEF ExactRecipients, Envelope
<1>19. SealedSecrets'
  BY <1>1, <1>3, <1>7 DEF IInv, SealedSecrets, CertificatesOf
<1>. QED
  BY <1>12, <1>13, <1>14, <1>15, <1>18, <1>19 DEF IInv

\* Every step preserves the invariant.
LEMMA NextIInv == IInv /\ [Next]_vars => IInv'
<1>1. ASSUME IInv, Next PROVE IInv'
  <2>1. ASSUME NEW name \in Names, CreateWorkspace(name) PROVE IInv'
    BY <1>1, <2>1, CreateWorkspaceIInv
  <2>2. ASSUME NEW ref \in Refs, DeleteWorkspace(ref) PROVE IInv'
    BY <1>1, <2>2, DeleteWorkspaceIInv
  <2>3. ASSUME NEW ref \in Refs, NEW pub \in PublicKeys, NEW priv \in PublicKeys \cup {NoKey},
               AddCertificate(ref, pub, priv)
        PROVE  IInv'
    BY <1>1, <2>3, AddCertificateIInv
  <2>4. ASSUME NEW ref \in Refs, NEW cref \in Uuids \cup PublicKeys,
               DeleteCertificate(ref, cref)
        PROVE  IInv'
    BY <1>1, <2>4, DeleteCertificateIInv
  <2>5. ASSUME NEW ref \in Refs, NEW raw \in RawKeys, NEW value \in Values,
               NEW overwrite \in BOOLEAN, SetSecret(ref, raw, value, overwrite)
        PROVE  IInv'
    BY <1>1, <2>5, SetSecretIInv
  <2>6. ASSUME NEW ref \in Refs, NEW raw \in RawKeys, DeleteSecret(ref, raw) PROVE IInv'
    BY <1>1, <2>6, DeleteSecretIInv
  <2>. QED
    BY <1>1, <2>1, <2>2, <2>3, <2>4, <2>5, <2>6 DEF Next
<1>2. ASSUME IInv, UNCHANGED vars PROVE IInv'
  BY <1>2 DEF vars, IInv, TypeOK, UniqueRows, LiveRows, DrawnRows, ExactRecipients,
              SealedSecrets, Envelope
<1>. QED
  BY <1>1, <1>2

\* Whatever the operations and their order, the recipients are exactly one
\* envelope for each secret and each certificate of its workspace.
THEOREM InductiveInvariant == Spec => []IInv
BY InitIInv, NextIInv, PTL DEF Spec

\* The tables hold rows of their own columns.
THEOREM TypeCorrect == Spec => []TypeOK
<1>1. IInv => TypeOK
  BY DEF IInv
<1>. QED
  BY <1>1, InductiveInvariant, PTL

\* Any authorised private key opens any secret of its workspace: the claim of
\* the data model in docs/services/vaultick-lib.md, which the automatic key
\* lookup relies on when it stops at the first key that matches a certificate.
THEOREM EveryReaderReads == Spec => []EveryCertificateOpensEverySecret
<1>1. IInv => EveryCertificateOpensEverySecret
  BY OpensIsAuthorised DEF EveryCertificateOpensEverySecret
<1>. QED
  BY <1>1, InductiveInvariant, PTL

\* No key without a certificate in the workspace opens a secret there.
THEOREM OnlyReadersRead == Spec => []OnlyCertificatesOpenSecrets
<1>1. IInv => OnlyCertificatesOpenSecrets
  BY OpensIsAuthorised DEF OnlyCertificatesOpenSecrets
<1>. QED
  BY <1>1, InductiveInvariant, PTL

\* delete_certificate refuses exactly the last key of a workspace with secrets.
THEOREM RefusalIsExact == Spec => []RefusesExactlyTheLastKey
<1>1. IInv => RefusesExactlyTheLastKey
  BY OrphanIsLast DEF RefusesExactlyTheLastKey
<1>. QED
  BY <1>1, InductiveInvariant, PTL

\* Every secret keeps a key that opens it.
THEOREM NothingIsOrphaned == Spec => []NoSecretIsOrphaned
<1>1. ASSUME IInv PROVE NoSecretIsOrphaned
  <2> SUFFICES ASSUME NEW s \in secrets PROVE \E p \in PublicKeys : Opens(p, s)
    BY DEF NoSecretIsOrphaned
  <2>1. PICK c \in certificates : c.ws = s.ws
    BY <1>1 DEF IInv, SealedSecrets
  <2>2. c.pub \in PublicKeys /\ c.pub \in PubsOf(s.ws)
    BY <1>1, <2>1 DEF IInv, TypeOK, CertificateRow, PubsOf, CertificatesOf
  <2>. QED
    BY <1>1, <2>2, OpensIsAuthorised
<1>. QED
  BY <1>1, InductiveInvariant, PTL
\* No row refers to a deleted row.
THEOREM CascadesAreComplete == Spec => []NoDanglingRows
<1>1. ASSUME IInv PROVE NoDanglingRows
  <2>1. ASSUME NEW r \in recipients
        PROVE  \E s \in secrets, c \in certificates :
                  r.secret = s.id /\ r.cert = c.id /\ s.ws = c.ws
    BY <1>1 DEF IInv, ExactRecipients, Envelope
  <2>. QED
    BY <1>1, <2>1 DEF NoDanglingRows, IInv, LiveRows
<1>. QED
  BY <1>1, InductiveInvariant, PTL
-----------------------------------------------------------------------------
(* What a step may not do *)

\* A reference never silently passes from one workspace to another.
THEOREM ReferencesStable == Spec => ReferencesAreStable
<1>1. ASSUME IInv, IInv', [Next]_vars
      PROVE  [\A ref \in Refs : \A w \in ResolveWorkspace(ref) :
                w \in workspaces' => w \in ResolveWorkspace(ref)']_vars
  <2> SUFFICES ASSUME Next, NEW ref \in Refs, NEW w \in ResolveWorkspace(ref), w \in workspaces'
               PROVE  w \in ResolveWorkspace(ref)'
    BY <1>1
  \* A workspace that appears does not have the reference for its id: it
  \* would be a name in use, or the id of a workspace that exists.
  <2>1. ASSUME NEW v \in workspaces', v.id = ref
        PROVE  v \in workspaces
    <3>1. CASE \E name \in Names : CreateWorkspace(name)
      <4>1. PICK id \in FreshUuids, name \in Names :
                workspaces' = workspaces \cup {[id |-> id, name |-> name]}
        BY <3>1 DEF CreateWorkspace
      <4>2. w \in workspaces /\ ref \in {w.id, w.name}
        BY DEF ResolveWorkspace
      <4>3. id # ref
        BY <1>1, <4>2 DEF FreshUuids, IInv, DrawnRows
      <4>. QED
        BY <2>1, <4>1, <4>3
    <3>2. CASE ~ \E name \in Names : CreateWorkspace(name)
      BY <2>1, <3>2 DEF Next, DeleteWorkspace, AddCertificate, DeleteCertificate, SetSecret,
                        DeleteSecret
    <3>. QED
      BY <3>1, <3>2
  <2>. QED
    BY <1>1, <2>1 DEF ResolveWorkspace, IInv, UniqueRows
<1>. QED
  BY <1>1, InductiveInvariant, PTL DEF Spec, ReferencesAreStable

\* A write seals with a DEK that only the present readers were ever given.
THEOREM WritesShutFormerReadersOut == Spec => WritesRevoke
<1>1. ASSUME IInv, [Next]_vars
      PROVE  [\A s \in secrets' \ secrets : \A h \in handed' :
                h.dek = s.sealed.dek => h.pub \in PubsOf(s.ws)']_vars
  <2> SUFFICES ASSUME Next, NEW s \in secrets' \ secrets, NEW h \in handed',
                      h.dek = s.sealed.dek
               PROVE  h.pub \in PubsOf(s.ws)'
    BY <1>1
  <2>1. PICK ref \in Refs, raw \in RawKeys, value \in Values, overwrite \in BOOLEAN :
            SetSecret(ref, raw, value, overwrite)
    BY DEF Next, CreateWorkspace, DeleteWorkspace, AddCertificate, DeleteCertificate,
           DeleteSecret
  <2>2. PICK w \in ResolveWorkspace(ref), dek \in FreshDeks :
            /\ s.ws = w.id /\ s.sealed.dek = dek
            /\ handed' = handed \cup {[pub |-> p, dek |-> dek] : p \in PubsOf(w.id)}
            /\ UNCHANGED certificates
    BY <2>1 DEF SetSecret, WriteDeks
  <2>3. h \notin handed
    BY <1>1, <2>2 DEF IInv, DrawnRows, FreshDeks
  <2>. QED
    BY <2>2, <2>3 DEF PubsOf, CertificatesOf
<1>. QED
  BY <1>1, InductiveInvariant, PTL DEF Spec, WritesRevoke
-----------------------------------------------------------------------------
(* The tables implement the shared store *)

\* A workspace that exists is resolved by its id.
LEMMA ResolvesById ==
  ASSUME IInv, NEW w \in workspaces
  PROVE  ResolveWorkspace(w.id) = {w}
BY DEF IInv, UniqueRows, ResolveWorkspace

\* get_secret gives exactly the content of a workspace to exactly its readers.
ReadersSeeTheContent == Readable = Store!Shared(Access, Content)

\* Under the invariant, what readers get is what SharedStore says.
LEMMA ReadableIsShared == IInv => ReadersSeeTheContent
<1> SUFFICES ASSUME IInv PROVE ReadersSeeTheContent
  OBVIOUS
<1>1. ASSUME NEW u \in Uuids, NEW p \in PublicKeys, NEW k \in Keys, NEW v \in Values
      PROVE  <<u, p, k, v>> \in Readable
                 <=> <<u, p>> \in Access /\ <<u, k, v>> \in Content
  <2>1. k \in RawKeys /\ NormalizeSecretKey(k) = k
    BY NormalAssumption DEF NormalizeSecretKey
  <2>2. ASSUME <<u, p, k, v>> \in Readable
        PROVE  <<u, p>> \in Access /\ <<u, k, v>> \in Content
    <3>1. PICK w \in workspaces : w.id = u
      BY <2>2 DEF Readable
    <3>2. v \in GetSecret(u, k, p)
      BY <2>2 DEF Readable
    <3>3. PICK s \in secrets : s.ws = u /\ s.key = k /\ Opens(p, s) /\ v = s.sealed.value
      BY <2>1, <3>1, <3>2, ResolvesById DEF GetSecret
    <3>4. p \in PubsOf(u)
      BY <3>3, OpensIsAuthorised
    <3>. QED
      BY <3>3, <3>4 DEF Access, Content, PubsOf, CertificatesOf
  <2>3. ASSUME <<u, p>> \in Access, <<u, k, v>> \in Content
        PROVE  <<u, p, k, v>> \in Readable
    <3>1. PICK s \in secrets : s.ws = u /\ s.key = k /\ s.sealed.value = v
      BY <2>3 DEF Content
    <3>2. Opens(p, s)
      BY <2>3, <3>1, OpensIsAuthorised DEF Access, PubsOf, CertificatesOf
    <3>3. PICK w \in workspaces : w.id = u
      BY <3>1 DEF IInv, LiveRows
    <3>4. v \in GetSecret(u, k, p)
      BY <2>1, <3>1, <3>2, <3>3, ResolvesById DEF GetSecret
    <3>. QED
      BY <3>3, <3>4 DEF Readable
  <2>. QED
    BY <2>2, <2>3
<1>2. ASSUME NEW t \in Uuids \X PublicKeys \X Keys \X Values
      PROVE  t \in Readable <=> t \in Store!Shared(Access, Content)
  BY <1>1 DEF Store!Shared
<1>3. /\ Readable \subseteq Uuids \X PublicKeys \X Keys \X Values
      /\ Store!Shared(Access, Content) \subseteq Uuids \X PublicKeys \X Keys \X Values
  BY DEF Readable, Store!Shared
<1>. QED
  BY <1>2, <1>3 DEF ReadersSeeTheContent

\* The empty tables are the empty store.
LEMMA InitImplements == Init => Store!Init
<1> SUFFICES ASSUME Init PROVE Store!Init
  OBVIOUS
<1>1. PICK id \in Uuids : workspaces = {[id |-> id, name |-> DefaultName]}
  BY DEF Init
<1>2. {w.id : w \in workspaces} = {id}
  BY <1>1
<1>3. Access = {} /\ Content = {}
  BY DEF Init, Access, Content
<1>4. Readable = {}
  BY DEF Init, Readable, GetSecret
<1>. QED
  BY <1>2, <1>3, <1>4 DEF Store!Init

\* Every step is a step of SharedStore, or changes nothing of it.
LEMMA StepImplements ==
  ASSUME IInv, ReadersSeeTheContent, ReadersSeeTheContent', Next
  PROVE  [Store!Next]_Store!vars
<1> DEFINE Ids == {w.id : w \in workspaces}
<1>0. /\ Readable = Store!Shared(Access, Content)
      /\ Readable' = Store!Shared(Access', Content')
  BY DEF ReadersSeeTheContent
<1>1. ASSUME NEW name \in Names, CreateWorkspace(name)
      PROVE  Store!Next
  <2>1. PICK id \in FreshUuids :
            /\ workspaces' = workspaces \cup {[id |-> id, name |-> name]}
            /\ UNCHANGED <<certificates, secrets>>
    BY <1>1 DEF CreateWorkspace
  <2>2. id \in Uuids /\ id \notin Ids
    BY DEF FreshUuids, IInv, DrawnRows
  <2> DEFINE row == [id |-> id, name |-> name]
  <2>3. Ids' = Ids \cup {id}
    <3>1. workspaces' = workspaces \cup {row} /\ row.id = id
      BY <2>1
    <3> HIDE DEF row
    <3>. QED
      BY <3>1
  <2>4. UNCHANGED <<Access, Content>>
    BY <2>1 DEF Access, Content
  <2>5. Store!Create(id)
    BY <1>0, <2>2, <2>3, <2>4 DEF Store!Create
  <2>. QED
    BY <2>2, <2>5 DEF Store!Next
<1>2. ASSUME NEW ref \in Refs, DeleteWorkspace(ref)
      PROVE  Store!Next
  <2>1. PICK w \in workspaces :
            /\ workspaces' = workspaces \ {w}
            /\ certificates' = {c \in certificates : c.ws # w.id}
            /\ secrets' = {s \in secrets : s.ws # w.id}
    BY <1>2, ResolvesToOne DEF DeleteWorkspace, OutlivesWorkspace
  <2>2. w.id \in Uuids /\ w.id \in Ids
    BY DEF IInv, TypeOK, WorkspaceRow
  <2>3. Ids' = Ids \ {w.id}
    BY <2>1 DEF IInv, UniqueRows
  <2>4. Access' = {a \in Access : a[1] # w.id}
    BY <2>1 DEF Access
  <2>5. Content' = {c \in Content : c[1] # w.id}
    BY <2>1 DEF Content
  <2>6. Store!Drop(w.id)
    BY <1>0, <2>2, <2>3, <2>4, <2>5 DEF Store!Drop
  <2>. QED
    BY <2>2, <2>6 DEF Store!Next
<1>3. ASSUME NEW ref \in Refs, NEW pub \in PublicKeys, NEW priv, AddCertificate(ref, pub, priv)
      PROVE  Store!Next
  <2>1. PICK w \in workspaces, id \in Uuids :
            /\ certificates' = certificates \cup {[id |-> id, ws |-> w.id, pub |-> pub]}
            /\ UNCHANGED <<workspaces, secrets>>
    BY <1>3, ResolvesToOne DEF AddCertificate, FreshUuids
  <2>2. w.id \in Uuids /\ w.id \in Ids
    BY DEF IInv, TypeOK, WorkspaceRow
  <2> DEFINE row == [id |-> id, ws |-> w.id, pub |-> pub]
  <2>3. Access' = Access \cup {<<w.id, pub>>}
    <3>1. certificates' = certificates \cup {row} /\ row.ws = w.id /\ row.pub = pub
      BY <2>1
    <3> HIDE DEF row
    <3>. QED
      BY <3>1 DEF Access
  <2>4. UNCHANGED <<Ids, Content>>
    BY <2>1 DEF Content
  <2>5. Store!Grant(w.id, pub)
    BY <1>0, <2>2, <2>3, <2>4 DEF Store!Grant
  <2>. QED
    BY <2>2, <2>5 DEF Store!Next
<1>4. ASSUME NEW ref \in Refs, NEW cref, DeleteCertificate(ref, cref)
      PROVE  Store!Next
  <2>1. PICK c \in certificates :
            /\ ~WouldOrphan(c)
            /\ certificates' = certificates \ {c}
            /\ UNCHANGED <<workspaces, secrets>>
    BY <1>4 DEF DeleteCertificate, ResolveCertificate, CertificatesOf
  <2>2. c.ws \in Uuids /\ c.pub \in PublicKeys
    BY DEF IInv, TypeOK, CertificateRow
  <2>3. Access' = Access \ {<<c.ws, c.pub>>}
    BY <2>1 DEF Access, IInv, UniqueRows
  <2>4. UNCHANGED <<Ids, Content>>
    BY <2>1 DEF Content
  <2>5. ASSUME NEW x \in Content, x[1] = c.ws
        PROVE  \E q \in PublicKeys \ {c.pub} : <<c.ws, q>> \in Access
    <3>1. SecretsOf(c.ws) # {}
      BY <2>5 DEF Content, SecretsOf
    <3>2. PICK d \in certificates : d.ws = c.ws /\ d # c
      BY <2>1, <3>1, OrphanIsLast DEF CertificatesOf
    <3>3. d.pub # c.pub /\ d.pub \in PublicKeys
      BY <3>2 DEF IInv, UniqueRows, TypeOK, CertificateRow
    <3>. QED
      BY <3>2, <3>3 DEF Access
  <2>6. Store!Revoke(c.ws, c.pub)
    BY <1>0, <2>3, <2>4, <2>5 DEF Store!Revoke
  <2>. QED
    BY <2>2, <2>6 DEF Store!Next
<1>5. ASSUME NEW ref \in Refs, NEW raw \in RawKeys, NEW value \in Values,
             NEW overwrite, SetSecret(ref, raw, value, overwrite)
      PROVE  Store!Next
  <2> DEFINE key == NormalizeSecretKey(raw)
             Same(ws) == {s \in SecretsOf(ws) : s.key = key}
             Row(id, ws, dek) == [id |-> id, ws |-> ws, key |-> key,
                                  sealed |-> [dek |-> dek, aad |-> key, value |-> value]]
  <2>1. PICK w \in ResolveWorkspace(ref) :
            /\ key # Empty
            /\ CertificatesOf(w.id) # {}
            /\ \E id, dek : secrets' = (secrets \ Same(w.id)) \cup {Row(id, w.id, dek)}
            /\ UNCHANGED <<workspaces, certificates>>
    BY <1>5 DEF SetSecret
  <2>2. w.id \in Uuids
    BY ResolvesToOne DEF IInv, TypeOK, WorkspaceRow
  <2>3. key \in Keys
    BY <2>1, NormalAssumption DEF NormalizeSecretKey
  <2>4. UNCHANGED <<Ids, Access>>
    BY <2>1 DEF Access
  <2>5. \E p \in PublicKeys : <<w.id, p>> \in Access
    BY <2>1 DEF CertificatesOf, Access, IInv, TypeOK, CertificateRow
  <2>6. Content' = {c \in Content : c[1] # w.id \/ c[2] # key} \cup {<<w.id, key, value>>}
    <3>1. PICK id, dek : secrets' = (secrets \ Same(w.id)) \cup {Row(id, w.id, dek)}
      BY <2>1
    <3> DEFINE s == Row(id, w.id, dek)
    <3>2. /\ secrets' = (secrets \ Same(w.id)) \cup {s}
          /\ s.ws = w.id /\ s.key = key /\ s.sealed.value = value
      BY <3>1
    <3> HIDE DEF key, s
    <3>3. {<<t.ws, t.key, t.sealed.value>> : t \in secrets \ Same(w.id)}
              = {c \in Content : c[1] # w.id \/ c[2] # key}
      BY DEF Content, SecretsOf
    <3> HIDE DEF Same
    <3>. QED
      BY <3>2, <3>3 DEF Content
  <2>7. Store!Put(w.id, key, value)
    BY <1>0, <2>4, <2>5, <2>6 DEF Store!Put
  <2>. QED
    BY <2>2, <2>3, <2>7 DEF Store!Next
<1>6. ASSUME NEW ref \in Refs, NEW raw \in RawKeys, DeleteSecret(ref, raw)
      PROVE  Store!Next
  <2>1. PICK s \in secrets : secrets' = secrets \ {s} /\ UNCHANGED <<workspaces, certificates>>
    BY <1>6 DEF DeleteSecret, SecretsOf
  <2>2. s.ws \in Uuids /\ s.key \in Keys
    BY DEF IInv, TypeOK, SecretRow
  <2>3. Content' = {c \in Content : c[1] # s.ws \/ c[2] # s.key}
    BY <2>1 DEF Content, IInv, UniqueRows
  <2>4. UNCHANGED <<Ids, Access>>
    BY <2>1 DEF Access
  <2>5. Store!Remove(s.ws, s.key)
    BY <1>0, <2>3, <2>4 DEF Store!Remove
  <2>. QED
    BY <2>2, <2>5 DEF Store!Next
<1>. QED
  BY <1>1, <1>2, <1>3, <1>4, <1>5, <1>6 DEF Next

\* Every behaviour of the tables is one of the shared store: each operation
\* grants, revokes, puts or removes, and reading follows the content.
THEOREM Implementation == Spec => ImplementsSharedStore
<1>1. ASSUME IInv, ReadersSeeTheContent, ReadersSeeTheContent', [Next]_vars
      PROVE  [Store!Next]_Store!vars
  <2>1. CASE Next
    BY <1>1, <2>1, StepImplements
  <2>2. CASE UNCHANGED vars
    BY <2>2 DEF vars, Store!vars, Access, Content, Readable, GetSecret, Opens, UnwrapSecretKey,
                ResolveWorkspace
  <2>. QED
    BY <1>1, <2>1, <2>2
<1>. QED
  BY <1>1, InitImplements, ReadableIsShared, InductiveInvariant, PTL
     DEF Spec, ImplementsSharedStore, Store!Spec
=============================================================================
