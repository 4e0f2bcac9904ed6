---------------------------- MODULE SharedStore ----------------------------
(***************************************************************************)
(* What the storage library promises its callers: in every workspace a map *)
(* from keys to values, shared by a set of readers.  Every reader of a     *)
(* workspace sees all of its content and nobody else sees any of it; the   *)
(* last reader cannot be removed while there is content.                   *)
(***************************************************************************)
CONSTANTS Spaces, Readers, Keys, Values

VARIABLES
    spaces,     \* the workspaces that exist
    access,     \* <<w, p>>: p is a reader of w
    content,    \* <<w, k, v>>: k has value v in w
    readable    \* <<w, p, k, v>>: reader p is given v for k of w

vars == <<spaces, access, content, readable>>

\* Exactly the readers of a workspace see exactly its content.
Shared(acc, con) ==
    {t \in Spaces \X Readers \X Keys \X Values :
        <<t[1], t[2]>> \in acc /\ <<t[1], t[3], t[4]>> \in con}

Init ==
    /\ \E w \in Spaces : spaces = {w}
    /\ access = {}
    /\ content = {}
    /\ readable = {}

Create(w) ==
    /\ w \notin spaces
    /\ spaces' = spaces \cup {w}
    /\ UNCHANGED <<access, content, readable>>

Drop(w) ==
    /\ w \in spaces
    /\ spaces' = spaces \ {w}
    /\ access' = {a \in access : a[1] # w}
    /\ content' = {c \in content : c[1] # w}
    /\ readable' = Shared(access', content')

Grant(w, p) ==
    /\ w \in spaces
    /\ access' = access \cup {<<w, p>>}
    /\ readable' = Shared(access', content)
    /\ UNCHANGED <<spaces, content>>

Revoke(w, p) ==
    /\ (\E c \in content : c[1] = w) => \E q \in Readers \ {p} : <<w, q>> \in access
    /\ access' = access \ {<<w, p>>}
    /\ readable' = Shared(access', content)
    /\ UNCHANGED <<spaces, content>>

Put(w, k, v) ==
    /\ \E p \in Readers : <<w, p>> \in access
    /\ content' = {c \in content : c[1] # w \/ c[2] # k} \cup {<<w, k, v>>}
    /\ readable' = Shared(access, content')
    /\ UNCHANGED <<spaces, access>>

Remove(w, k) ==
    /\ content' = {c \in content : c[1] # w \/ c[2] # k}
    /\ readable' = Shared(access, content')
    /\ UNCHANGED <<spaces, access>>

Next ==
    \E w \in Spaces :
        \/ Create(w) \/ Drop(w)
        \/ \E p \in Readers : Grant(w, p) \/ Revoke(w, p)
        \/ \E k \in Keys : Remove(w, k) \/ \E v \in Values : Put(w, k, v)

Spec == Init /\ [][Next]_vars
=============================================================================
