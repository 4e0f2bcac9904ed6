---------------------------- MODULE KeyDiscovery ----------------------------
(***************************************************************************)
(* The look-up of a private key by the _auto calls of the library: list    *)
(* the certificates, look for a file named after each label (for id_rsa    *)
(* only if there is none), read the files one by one until one holds a     *)
(* listed key, and call get_secret with it.  Others change the files and   *)
(* the certificates at any time.  A key pair is named by its public key.   *)
(*                                                                         *)
(* certs and dir are what they are while a look-up goes on; between two    *)
(* look-ups nobody looks, and they are idle.                               *)
(***************************************************************************)
EXTENDS Naturals, Sequences, SequencesExt

CONSTANTS
    Names,          \* names of files in ~/.ssh, and labels of certificates
    IdRsa,          \* DEFAULT_SSH_PRIVATE_KEY_NAME
    PublicKeys,
    NoFile,         \* there is no such file
    Unusable,       \* the file cannot be read, or is no plain RSA key
    NoKey           \* no key has been chosen

VARIABLES
    certs,      \* the certificates of the workspace, oldest first
    dir,        \* what each file of ~/.ssh holds
    lookup      \* the look-up under way

Idle == [pc |-> "idle"]
NoFiles == [n \in Names |-> NoFile]
Certificate == [label : Names, pub : PublicKeys]

\* The certificates are unique by key.
Certificates(max) ==
    {<<>>} \cup {cs \in UNION {[1..n -> Certificate] : n \in 1..max} :
                    \A i, j \in DOMAIN cs : cs[i].pub = cs[j].pub => i = j}

Directories == [Names -> PublicKeys \cup {NoFile, Unusable}]

Active == lookup.pc \in {"probing", "trying", "reading"}

TypeOK ==
    /\ certs \in Seq(Certificate)
    /\ dir \in Directories
    /\ lookup.pc \in {"idle", "probing", "trying", "reading", "found", "failed"}
    /\ lookup.pc # "idle" =>
        /\ lookup.listed \in Seq(Certificate) /\ lookup.todo \in Seq(Names)
        /\ lookup.candidates \in Seq(Names) /\ lookup.chosen \in PublicKeys \cup {NoKey}
        /\ lookup.steady \subseteq {"label", "fallback"} \X Certificate
        /\ lookup.served \in BOOLEAN /\ lookup.revoked \in BOOLEAN

Init == certs = <<>> /\ dir = NoFiles /\ lookup = Idle

Pubs(cs) == {c.pub : c \in ToSet(cs)}

\* History: certificates whose key the reader holds, in the file of the label
\* or, while none of the listed labels has a file, in id_rsa.
Usable(listed, cs, d) ==
    {<<"label", c>> : c \in {x \in ToSet(cs) : d[x.label] = x.pub}} \cup
    {<<"fallback", c>> : c \in {x \in ToSet(cs) :
                                   /\ d[IdRsa] = x.pub
                                   /\ \A y \in ToSet(listed) : d[y.label] = NoFile}}

\* The look-up is over, and nobody looks at the files any more.
End(pc, revoked) ==
    /\ lookup' = [lookup EXCEPT !.pc = pc, !.listed = <<>>, !.todo = <<>>, !.candidates = <<>>,
                                !.revoked = revoked]
    /\ certs' = <<>>
    /\ dir' = NoFiles
-----------------------------------------------------------------------------
(* resolve_auto_private_key_pem_for_workspace *)

\* list_certificates; serves says whether the secret is there.
List(cs, d, serves) ==
    /\ lookup.pc = "idle"
    /\ certs' = cs /\ dir' = d
    /\ lookup' = [pc |-> "probing", listed |-> cs, todo |-> [i \in DOMAIN cs |-> cs[i].label],
                  candidates |-> <<>>, chosen |-> NoKey, steady |-> Usable(cs, cs, d),
                  served |-> serves, revoked |-> FALSE]

\* list_certificates finds no workspace.
ListFails ==
    /\ lookup.pc = "idle"
    /\ lookup' = [pc |-> "failed", listed |-> <<>>, todo |-> <<>>, candidates |-> <<>>,
                  chosen |-> NoKey, steady |-> {}, served |-> FALSE, revoked |-> FALSE]
    /\ UNCHANGED <<certs, dir>>

IsFile(name) == dir[name] # NoFile

\* Is there a file of the next label?
Probe ==
    /\ lookup.pc = "probing" /\ lookup.todo # <<>>
    /\ lookup' = [lookup EXCEPT
                     !.todo = Tail(@),
                     !.candidates = IF IsFile(Head(lookup.todo))
                                    THEN Append(@, Head(lookup.todo)) ELSE @]
    /\ UNCHANGED <<certs, dir>>

\* Mutant: id_rsa is only looked for when there are no certificates.
FallbackWithoutLabels == IF lookup.listed = <<>> THEN <<IdRsa>> ELSE <<>>

\* id_rsa is looked for when no label has a file.
Fallback ==
    IF lookup.candidates = <<>> /\ IsFile(IdRsa) THEN <<IdRsa>> ELSE lookup.candidates

EndProbe ==
    /\ lookup.pc = "probing" /\ lookup.todo = <<>>
    /\ IF Fallback = <<>> THEN End("failed", FALSE)
       ELSE /\ lookup' = [lookup EXCEPT !.pc = "trying", !.candidates = Fallback]
            /\ UNCHANGED <<certs, dir>>

\* Mutant: the first key that can be read is taken.
AnyKey(key) == key \in PublicKeys

\* The file holds a key of a certificate that was listed.
Matches(key) == key \in Pubs(lookup.listed)

\* The next file is read; it may be gone, or hold another key than it did.
Try ==
    /\ lookup.pc = "trying"
    /\ LET key == dir[Head(lookup.candidates)]
       IN  IF Matches(key)
           THEN lookup' = [lookup EXCEPT !.pc = "reading", !.chosen = key] /\ UNCHANGED <<certs, dir>>
           ELSE IF Len(lookup.candidates) = 1 THEN End("failed", FALSE)
           ELSE lookup' = [lookup EXCEPT !.candidates = Tail(@)] /\ UNCHANGED <<certs, dir>>

\* get_secret with the contents that were read: every certificate of the
\* workspace opens every secret of it, and nothing else does (Vault).
Opens(served) == served /\ lookup.chosen \in Pubs(certs)

Read(served) ==
    /\ lookup.pc = "reading"
    /\ IF Opens(served) THEN End("found", FALSE)
       ELSE End("failed", lookup.chosen \notin Pubs(certs))
-----------------------------------------------------------------------------
(* What others do to the certificates and to the files *)

\* History: what has been steady since the call began, with the secret there.
Witness(served) ==
    lookup' = [lookup EXCEPT !.steady = @ \cap Usable(lookup.listed, certs', dir'),
                             !.served = @ /\ served]

\* The pairs that rsa add --auto offers: a file with its .pub beside it.  The
\* label is the name of the file.
AutoRsaCandidates == {c \in Certificate : dir[c.label] = c.pub}

Add(c) == c.pub \notin Pubs(certs) /\ certs' = Append(certs, c)

RsaAddAuto == \E c \in AutoRsaCandidates : Add(c)
RsaAdd == \E c \in Certificate : Add(c)
RsaDelete == \E c \in ToSet(certs) : certs' = SelectSeq(certs, LAMBDA x : x # c)

\* A file is written, replaced or removed.
FileChange == \E n \in Names, key \in PublicKeys \cup {NoFile, Unusable} :
                  dir[n] # key /\ dir' = [dir EXCEPT ![n] = key]
-----------------------------------------------------------------------------
(* Property *)

\* A call fails only for a reason.  A reader whose secret is there all the
\* time, and who from beginning to end has the key of a certificate in the file of
\* its label, or in id_rsa with no file of any label, gets the secret, whatever
\* happens to the other files and certificates; unless the key that was chosen
\* has been taken out of the workspace by the time it is used.
LookupFailsForAReason ==
    lookup.pc = "failed" /\ lookup.served => lookup.steady = {} \/ lookup.revoked
=============================================================================
