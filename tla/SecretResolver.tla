--------------------------- MODULE SecretResolver ---------------------------
(***************************************************************************)
(* How exec and request, as commands and as MCP tools, turn a request with *)
(* placeholders into one with values while other processes change the      *)
(* workspace: the keys are listed once, every placeholder is read by a     *)
(* get_secret of its own (atomic here, see VaultTx) and cached, and each   *)
(* value is noted down for the Redactor of the output.                     *)
(*                                                                         *)
(* A template is the sequence of the keys of its placeholders; the text    *)
(* between them is left out.                                               *)
(***************************************************************************)
EXTENDS Sequences, SequencesExt

CONSTANTS
    Callers,    \* each resolves one request after the other
    Keys, Values, NoValue,
    Empty,      \* the empty payload, which is not redacted
    Scan,       \* Scan[k]: the placeholders found in the text "$k"
    Names,      \* environment variables, or places of an HTTP request
    Jobs        \* requests: [mcp, all, items]

ASSUME ValuesAssumption == Empty \in Values /\ NoValue \notin Values
ASSUME KeysAssumption == IsFiniteSet(Keys) /\ Jobs # {}
ASSUME ScanAssumption == Scan \in [Keys -> Seq(Keys)] /\ Keys \subseteq Names
\* An item gives a name the value of a template; a bad name is refused.
ASSUME JobsAssumption ==
    \A j \in Jobs :
        /\ j.mcp \in BOOLEAN /\ j.all \in BOOLEAN
        /\ j.items \in Seq([name : Names, keys : Seq(Keys), valid : BOOLEAN])

VARIABLES
    store,      \* the value of each key of the workspace, or NoValue
    call        \* what each caller is doing

vars == <<store, call>>

Present == {k \in Keys : store[k] # NoValue}
NoCache == [k \in Keys |-> NoValue]
Idle == [pc |-> "idle", job |-> CHOOSE j \in Jobs : TRUE, index |-> {}, items |-> <<>>,
         todo |-> <<>>, done |-> <<>>, env |-> {}, cache |-> NoCache,
         redacted |-> {}, used |-> {}, seen |-> {}]

TypeOK ==
    /\ store \in [Keys -> Values \cup {NoValue}]
    /\ \A c \in Callers :
        /\ call[c].pc \in {"idle", "resolving", "running", "failed"}
        /\ call[c].index \subseteq Keys
        /\ \A e \in call[c].env : e.name \in Names /\ e.values \in Seq(Values)
        /\ call[c].cache \in [Keys -> Values \cup {NoValue}]
        /\ call[c].redacted \subseteq Values \ {Empty}

Init ==
    /\ store \in [Keys -> Values \cup {NoValue}]
    /\ call = [c \in Callers |-> Idle]
-----------------------------------------------------------------------------
(* What is to be resolved *)

\* --all: the command asks for the key, the tool renders the text "$key".
ItemOf(mcp, k) == [name |-> k, keys |-> IF mcp THEN Scan[k] ELSE <<k>>, valid |-> TRUE]

\* The variables of --all come first, so that the others take their place.
Items(job, index) ==
    (IF job.all THEN [i \in DOMAIN SetToSeq(index) |-> ItemOf(job.mcp, SetToSeq(index)[i])]
     ELSE <<>>)
    \o job.items

\* Mutant: a server that keeps what it has read.
KeptCache(c) == call[c].cache

\* Each request has a resolver of its own.
NewCache(c) == NoCache

\* History: what each key is worth as the call begins.
Worth == {<<k, store[k]>> : k \in Present}

\* The keys are listed.
Begin(c, job) ==
    /\ call[c].pc # "resolving"
    /\ call' = [call EXCEPT ![c] =
         [Idle EXCEPT !.pc = "resolving", !.job = job, !.index = Present,
                      !.items = Items(job, Present), !.todo = Items(job, Present),
                      !.cache = NewCache(c), !.seen = Worth]]
    /\ UNCHANGED store
-----------------------------------------------------------------------------
(* resolve_secret_value_by_placeholder and resolve_secret_value *)

Item(c) == Head(call[c].todo)
NextKey(c) == Item(c).keys[Len(call[c].done) + 1]
MorePlaceholders(c) ==
    /\ call[c].pc = "resolving" /\ call[c].todo # <<>>
    /\ Len(call[c].done) < Len(Item(c).keys)

Fail(c) == call' = [call EXCEPT ![c].pc = "failed"]

\* Mutants: every placeholder is read anew; only variables given one value
\* each are redacted.
NeverCached(c, k) == FALSE
RedactWhole(c, v) ==
    call[c].redacted \cup IF Len(Item(c).keys) = 1 THEN {v} \ {Empty} ELSE {}

Cached(c, k) == call[c].cache[k] # NoValue

\* The key was not listed, or is gone.
Missing(c, k) == k \notin call[c].index \/ store[k] = NoValue

Redact(c, v) == call[c].redacted \cup ({v} \ {Empty})

Use(c, v) ==
    call' = [call EXCEPT ![c].done = Append(@, v),
                         ![c].used = @ \cup {<<NextKey(c), v>>},
                         ![c].cache[NextKey(c)] = v,
                         ![c].redacted = Redact(c, v)]

FromCache(c) ==
    /\ MorePlaceholders(c) /\ Item(c).valid
    /\ NextKey(c) \in call[c].index /\ Cached(c, NextKey(c))
    /\ call' = [call EXCEPT ![c].done = Append(@, call[c].cache[NextKey(c)]),
                            ![c].used = @ \cup {<<NextKey(c), call[c].cache[NextKey(c)]>>}]
    /\ UNCHANGED store

GetSecret(c) ==
    /\ MorePlaceholders(c) /\ Item(c).valid
    /\ ~Cached(c, NextKey(c)) /\ ~Missing(c, NextKey(c))
    /\ Use(c, store[NextKey(c)])
    /\ UNCHANGED store

\* A bad name, a placeholder without a key, a key that is gone, a private key
\* file that is missing or does not open the secret.
Reject(c) ==
    /\ call[c].pc = "resolving" /\ call[c].todo # <<>>
    /\ \/ ~Item(c).valid
       \/ MorePlaceholders(c) /\ ~Cached(c, NextKey(c))
    /\ Fail(c)
    /\ UNCHANGED store
-----------------------------------------------------------------------------
(* The environment of the child, or the request to send *)

\* Mutant: a name that is there already is left alone.
PushNew(env, name, values) ==
    IF \E e \in env : e.name = name THEN env
    ELSE env \cup {[name |-> name, values |-> values]}

Upsert(env, name, values) ==
    {e \in env : e.name # name} \cup {[name |-> name, values |-> values]}

Assign(c) ==
    /\ call[c].pc = "resolving" /\ call[c].todo # <<>> /\ Item(c).valid
    /\ Len(call[c].done) = Len(Item(c).keys)
    /\ call' = [call EXCEPT ![c].env = Upsert(@, Item(c).name, call[c].done),
                            ![c].todo = Tail(@), ![c].done = <<>>]
    /\ UNCHANGED store

\* The child is spawned, or the request sent.
Run(c) ==
    /\ call[c].pc = "resolving" /\ call[c].todo = <<>>
    /\ call' = [call EXCEPT ![c].pc = "running"]
    /\ UNCHANGED store

\* Another process sets or deletes a secret.
Other ==
    \E k \in Keys, v \in Values \cup {NoValue} :
        /\ store' = [store EXCEPT ![k] = v]
        /\ call' = [c \in Callers |->
              IF call[c].pc = "resolving" /\ v # NoValue
              THEN [call[c] EXCEPT !.seen = @ \cup {<<k, v>>}] ELSE call[c]]

Next ==
    \/ Other
    \/ \E c \in Callers :
        \/ \E job \in Jobs : Begin(c, job)
        \/ FromCache(c) \/ GetSecret(c) \/ Reject(c) \/ Assign(c) \/ Run(c)

Spec == Init /\ [][Next]_vars
-----------------------------------------------------------------------------
(* Properties *)

\* Whatever value a child or an upstream is handed, in whole or as a part of
\* something longer, read or taken from the cache, is cut out of its output.
EveryValueIsRedacted ==
    \A c \in Callers : call[c].pc = "running" =>
        \A e \in call[c].env : ToSet(e.values) \ {Empty} \subseteq call[c].redacted

\* One request never mixes two values of the same secret, although it may be
\* overwritten between two of its placeholders.
OneValuePerKey ==
    \A c \in Callers : \A u, v \in call[c].used : u[1] = v[1] => u = v

\* A value that was overwritten before the request began is not used.
ValuesAreFresh == \A c \in Callers : call[c].used \subseteq call[c].seen

\* What runs has every name it was asked to give, with a value for each
\* placeholder of the last template for that name.
RunsWithEverything ==
    \A c \in Callers : call[c].pc = "running" =>
        LET items == call[c].items
            last(n) == CHOOSE i \in DOMAIN items :
                           items[i].name = n
                           /\ \A j \in DOMAIN items : items[j].name = n => j <= i
        IN  /\ {e.name : e \in call[c].env} = {items[i].name : i \in DOMAIN items}
            /\ \A e \in call[c].env :
                /\ Len(e.values) = Len(items[last(e.name)].keys)
                /\ \A i \in DOMAIN e.values :
                       <<items[last(e.name)].keys[i], e.values[i]>> \in call[c].used
=============================================================================
