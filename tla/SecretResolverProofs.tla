------------------------ MODULE SecretResolverProofs ------------------------
(* Values are redacted, consistent and fresh, for every number of callers, *)
(* keys and values, every request and every interleaving with others.      *)
EXTENDS SecretResolver, FiniteSetTheorems, TLAPS

ItemType == [name : Names, keys : Seq(Keys), valid : BOOLEAN]
Binding == [name : Names, values : Seq(Values)]
CallType ==
    [pc : {"idle", "resolving", "running", "failed"}, job : Jobs, index : SUBSET Keys,
     items : Seq(ItemType), todo : Seq(ItemType), done : Seq(Values),
     env : SUBSET Binding, cache : [Keys -> Values \cup {NoValue}],
     redacted : SUBSET (Values \ {Empty}), used : SUBSET (Keys \X Values),
     seen : SUBSET (Keys \X Values)]

Types ==
    /\ store \in [Keys -> Values \cup {NoValue}]
    /\ call \in [Callers -> CallType]

\* What is cached is redacted, unless it is empty, and so is what a template
\* or the environment holds; what was used is still cached, and is no older
\* than the call.
Kept(r) ==
    /\ \A k \in Keys : r.cache[k] \in Values =>
           <<k, r.cache[k]>> \in r.used /\ r.cache[k] \in r.redacted \cup {Empty}
    /\ ToSet(r.done) \subseteq r.redacted \cup {Empty}
    /\ \A e \in r.env : ToSet(e.values) \subseteq r.redacted \cup {Empty}
    /\ \A u \in r.used : r.cache[u[1]] = u[2]
    /\ r.used \subseteq r.seen

\* A call that is resolving has seen what each key is worth now.
Current(r) ==
    r.pc = "resolving" => \A k \in Keys : store[k] # NoValue => <<k, store[k]>> \in r.seen

\* The inductive invariant.
IInv == Types /\ \A c \in Callers : Kept(call[c]) /\ Current(call[c])
-----------------------------------------------------------------------------
\* The keys are listed one after the other.
LEMMA ListedKeys ==
    ASSUME NEW S \in SUBSET Keys
    PROVE  SetToSeq(S) \in Seq(Keys)
<1>1. IsFiniteSet(S)
  BY KeysAssumption, FS_Subset
<1>2. Cardinality(S) \in Nat /\ ExistsBijection(1..Cardinality(S), S)
  BY <1>1, FS_CardinalityType
<1>3. \E f \in [1..Cardinality(S) -> S] : IsInjective(f)
  BY <1>2 DEF ExistsBijection, Bijection, Injection
<1>4. SetToSeq(S) \in [1..Cardinality(S) -> S]
  BY <1>3 DEF SetToSeq
<1> QED  BY <1>2, <1>4

\* What is to be resolved is a sequence of items.
LEMMA ItemsAreItems ==
    ASSUME NEW job \in Jobs, NEW index \in SUBSET Keys
    PROVE  Items(job, index) \in Seq(ItemType)
<1>1. job.items \in Seq(ItemType) /\ job.mcp \in BOOLEAN
  BY JobsAssumption DEF ItemType
<1> DEFINE s == SetToSeq(index)
           all == [i \in DOMAIN s |-> ItemOf(job.mcp, s[i])]
<1>2. s \in Seq(Keys)
  BY ListedKeys
<1>3. ASSUME NEW k \in Keys PROVE ItemOf(job.mcp, k) \in ItemType
  <2>1. Scan[k] \in Seq(Keys) /\ <<k>> \in Seq(Keys) /\ k \in Names
    BY ScanAssumption
  <2> QED  BY <2>1 DEF ItemOf, ItemType
<1>4. all \in Seq(ItemType)
  <2> HIDE DEF s
  <2>1. DOMAIN s = 1..Len(s) /\ Len(s) \in Nat /\ \A i \in DOMAIN s : s[i] \in Keys
    BY <1>2
  <2>2. all \in [1..Len(s) -> ItemType]
    BY <1>3, <2>1
  <2> QED  BY <2>1, <2>2
<1>5. Items(job, index) = IF job.all THEN all \o job.items ELSE <<>> \o job.items
  BY DEF Items
<1> HIDE DEF all
<1>6. all \o job.items \in Seq(ItemType) /\ <<>> \o job.items \in Seq(ItemType)
  BY <1>1, <1>4
<1> QED  BY <1>5, <1>6

\* A caller without a request is one.
LEMMA IdleIsCall == Idle \in CallType /\ Kept(Idle)
<1>1. NoCache \in [Keys -> Values \cup {NoValue}] /\ \A k \in Keys : NoCache[k] = NoValue
  BY DEF NoCache
<1>2. (CHOOSE j \in Jobs : TRUE) \in Jobs
  BY KeysAssumption
<1>3. Idle \in CallType
  BY <1>1, <1>2 DEF Idle, CallType
<1>4. Kept(Idle)
  BY <1>1, ValuesAssumption DEF Kept, Idle, ToSet
<1> QED  BY <1>3, <1>4

\* It holds before the first request.
LEMMA InitEstablishes == Init => IInv
<1> SUFFICES ASSUME Init PROVE IInv
  OBVIOUS
<1>1. Types
  BY IdleIsCall DEF Init, Types
<1>2. \A c \in Callers : Kept(call[c]) /\ Current(call[c])
  BY IdleIsCall DEF Init, Current, Idle
<1> QED  BY <1>1, <1>2 DEF IInv

\* A step of one caller needs to be looked at for that caller alone.
LEMMA OneCaller ==
    ASSUME IInv, NEW c \in Callers, NEW r \in CallType, Kept(r), Current(r),
           call' = [call EXCEPT ![c] = r], UNCHANGED store
    PROVE  IInv'
<1>1. Types'
  BY DEF IInv, Types
<1>2. ASSUME NEW d \in Callers PROVE (Kept(call[d]) /\ Current(call[d]))'
  <2>1. call'[d] = IF d = c THEN r ELSE call[d]
    BY DEF IInv, Types
  <2>2. Kept(call'[d]) /\ Current(call'[d])
    BY <2>1 DEF IInv
  <2> QED  BY <2>2 DEF Kept, Current
<1> QED  BY <1>1, <1>2 DEF IInv
-----------------------------------------------------------------------------
\* A request begins with an empty cache, having seen what each key is worth.
LEMMA BeginKeeps ==
    ASSUME IInv, NEW c \in Callers, NEW job \in Jobs, Begin(c, job)
    PROVE  IInv'
<1> DEFINE items == Items(job, Present)
           r == [Idle EXCEPT !.pc = "resolving", !.job = job, !.index = Present,
                             !.items = items, !.todo = items,
                             !.cache = NoCache, !.seen = Worth]
<1>1. call' = [call EXCEPT ![c] = r] /\ UNCHANGED store
  BY DEF Begin, NewCache
<1>2. Present \in SUBSET Keys
  BY DEF Present
<1>3. items \in Seq(ItemType)
  BY <1>2, ItemsAreItems
<1>4. Worth \in SUBSET (Keys \X Values)
  BY DEF Worth, Present, IInv, Types
<1>5. NoCache \in [Keys -> Values \cup {NoValue}]
  BY DEF NoCache
<1> HIDE DEF items
<1>6. r \in CallType
  BY <1>2, <1>3, <1>4, <1>5, IdleIsCall DEF CallType
<1>7. /\ r.pc = "resolving" /\ r.cache = NoCache /\ r.done = <<>> /\ r.env = {}
      /\ r.used = {} /\ r.seen = Worth
  BY DEF Idle
<1>8. Kept(r)
  <2> HIDE DEF r
  <2>1. \A k \in Keys : NoCache[k] \notin Values
    BY ValuesAssumption DEF NoCache
  <2> QED  BY <1>7, <2>1 DEF Kept, ToSet
<1>9. Current(r)
  BY <1>7 DEF Current, Worth, Present
<1> HIDE DEF r
<1> QED  BY <1>1, <1>6, <1>8, <1>9, OneCaller

\* A value that is added to a template is among the others.
LEMMA AppendedValue ==
    ASSUME NEW s \in Seq(Values), NEW v \in Values
    PROVE  /\ Append(s, v) \in Seq(Values)
           /\ ToSet(Append(s, v)) \subseteq ToSet(s) \cup {v}
BY DEF ToSet

\* A cached value is redacted already and was used before.
LEMMA FromCacheKeeps ==
    ASSUME IInv, NEW c \in Callers, FromCache(c)
    PROVE  IInv'
<1> DEFINE q == call[c]
           k == NextKey(c)
           v == q.cache[k]
           r == [q EXCEPT !.done = Append(@, v), !.used = @ \cup {<<k, v>>}]
<1>1. q \in CallType /\ Kept(q) /\ Current(q)
  BY DEF IInv, Types
<1>2. call' = [call EXCEPT ![c] = r] /\ UNCHANGED store
  BY DEF FromCache, IInv, Types
<1>3. k \in Keys /\ v \in Values
  BY <1>1 DEF FromCache, Cached, CallType
<1>4. r \in CallType
  <2> HIDE DEF k, v
  <2>1. Append(q.done, v) \in Seq(Values) /\ q.used \cup {<<k, v>>} \in SUBSET (Keys \X Values)
    BY <1>1, <1>3, AppendedValue DEF CallType
  <2> HIDE DEF q
  <2> QED  BY <1>1, <2>1 DEF CallType
<1>5. /\ r.pc = q.pc /\ r.cache = q.cache /\ r.redacted = q.redacted /\ r.env = q.env
      /\ r.seen = q.seen /\ r.done = Append(q.done, v) /\ r.used = q.used \cup {<<k, v>>}
  <2> HIDE DEF q, k, v
  <2> QED  BY <1>1 DEF CallType
<1>6. Kept(r)
  <2>1. v = q.cache[k]
    OBVIOUS
  <2>2. <<k, v>> \in r.seen
    BY <1>1, <1>3, <1>5, <2>1 DEF Kept
  <2>3. v \in q.redacted \cup {Empty}
    BY <1>1, <1>3, <2>1 DEF Kept
  <2>4. q.done \in Seq(Values)
    BY <1>1 DEF CallType
  <2> HIDE DEF q, k, v, r
  <2>5. ToSet(r.done) \subseteq r.redacted \cup {Empty}
    BY <1>1, <1>3, <1>5, <2>3, <2>4, AppendedValue DEF Kept
  <2>6. \A u \in r.used : r.cache[u[1]] = u[2]
    BY <1>1, <1>5, <2>1 DEF Kept
  <2>7. r.used \subseteq r.seen
    BY <1>1, <1>5, <2>2 DEF Kept
  <2>8. \A j \in Keys : r.cache[j] \in Values =>
            <<j, r.cache[j]>> \in r.used /\ r.cache[j] \in r.redacted \cup {Empty}
    BY <1>1, <1>5 DEF Kept
  <2>9. \A e \in r.env : ToSet(e.values) \subseteq r.redacted \cup {Empty}
    BY <1>1, <1>5 DEF Kept
  <2> QED  BY <2>5, <2>6, <2>7, <2>8, <2>9 DEF Kept
<1>7. Current(r)
  <2> HIDE DEF q, r
  <2> QED  BY <1>1, <1>5 DEF Current
<1> HIDE DEF r
<1> QED  BY <1>2, <1>4, <1>6, <1>7, OneCaller

\* A value that is read is redacted from then on, and is what the key is worth
\* now.
LEMMA GetSecretKeeps ==
    ASSUME IInv, NEW c \in Callers, GetSecret(c)
    PROVE  IInv'
<1> DEFINE q == call[c]
           k == NextKey(c)
           v == store[k]
           r == [q EXCEPT !.done = Append(@, v), !.used = @ \cup {<<k, v>>},
                          !.cache[k] = v, !.redacted = Redact(c, v)]
<1>1. q \in CallType /\ Kept(q) /\ Current(q) /\ q.pc = "resolving"
  BY DEF IInv, Types, GetSecret, MorePlaceholders
<1>2. call' = [call EXCEPT ![c] = r] /\ UNCHANGED store
  BY DEF GetSecret, Use, IInv, Types
<1>3. k \in Keys /\ v \in Values /\ q.cache[k] = NoValue /\ v # NoValue
  BY <1>1 DEF GetSecret, Cached, Missing, CallType, IInv, Types
<1>4. Redact(c, v) = q.redacted \cup ({v} \ {Empty})
  BY DEF Redact
<1>5. <<k, v>> \in q.seen
  BY <1>1, <1>3 DEF Current
<1> DEFINE done == Append(q.done, v)
           used == q.used \cup {<<k, v>>}
           cache == [q.cache EXCEPT ![k] = v]
           redacted == q.redacted \cup ({v} \ {Empty})
<1>6. r = [q EXCEPT !.done = done, !.used = used, !.cache = cache, !.redacted = redacted]
  BY <1>4
<1>7. /\ done \in Seq(Values) /\ ToSet(done) \subseteq ToSet(q.done) \cup {v}
      /\ used \in SUBSET (Keys \X Values) /\ cache \in [Keys -> Values \cup {NoValue}]
      /\ redacted \in SUBSET (Values \ {Empty})
  <2>1. q.done \in Seq(Values) /\ q.used \in SUBSET (Keys \X Values)
        /\ q.cache \in [Keys -> Values \cup {NoValue}] /\ q.redacted \in SUBSET (Values \ {Empty})
    BY <1>1 DEF CallType
  <2> HIDE DEF q, k, v
  <2> QED  BY <1>3, <2>1, AppendedValue
<1>8. \A j \in Keys : cache[j] = IF j = k THEN v ELSE q.cache[j]
  <2>1. q.cache \in [Keys -> Values \cup {NoValue}]
    BY <1>1 DEF CallType
  <2> HIDE DEF q, k, v
  <2> QED  BY <2>1
<1>9. /\ used = q.used \cup {<<k, v>>} /\ redacted = q.redacted \cup ({v} \ {Empty})
  OBVIOUS
<1> HIDE DEF r, done, used, cache, redacted
<1>10. r \in CallType
  <2> HIDE DEF q
  <2> QED  BY <1>1, <1>6, <1>7 DEF CallType
<1>11. /\ r.pc = q.pc /\ r.cache = cache /\ r.redacted = redacted /\ r.env = q.env
       /\ r.seen = q.seen /\ r.done = done /\ r.used = used
  <2> HIDE DEF q
  <2> QED  BY <1>1, <1>6 DEF CallType
<1>12. Kept(r)
  <2>1. q.used \in SUBSET (Keys \X Values)
    BY <1>1 DEF CallType
  <2> HIDE DEF q, k, v
  <2>2. v \in redacted \cup {Empty} /\ q.redacted \subseteq redacted
    BY <1>9
  <2>3. \A j \in Keys : cache[j] \in Values =>
            <<j, cache[j]>> \in used /\ cache[j] \in redacted \cup {Empty}
    BY <1>1, <1>8, <1>9, <2>2 DEF Kept
  <2>4. ToSet(done) \subseteq redacted \cup {Empty}
    BY <1>1, <1>7, <2>2 DEF Kept
  <2>5. \A e \in q.env : ToSet(e.values) \subseteq redacted \cup {Empty}
    BY <1>1, <2>2 DEF Kept
  <2>6. ASSUME NEW u \in used PROVE cache[u[1]] = u[2]
    <3>1. CASE u = <<k, v>>
      BY <1>3, <1>8, <3>1
    <3>2. CASE u \in q.used
      <4>1. u[1] \in Keys /\ u[2] \in Values /\ q.cache[u[1]] = u[2]
        BY <1>1, <2>1, <3>2 DEF Kept
      <4>2. u[1] # k
        BY <1>3, <4>1, ValuesAssumption
      <4> QED  BY <1>8, <4>1, <4>2
    <3> QED  BY <1>9, <3>1, <3>2
  <2>7. used \subseteq q.seen
    BY <1>1, <1>5, <1>9 DEF Kept
  <2> QED  BY <1>11, <2>3, <2>4, <2>5, <2>6, <2>7 DEF Kept
<1>13. Current(r)
  <2> HIDE DEF q
  <2> QED  BY <1>1, <1>11 DEF Current
<1> QED  BY <1>2, <1>10, <1>12, <1>13, OneCaller

\* A variable is given the values that were resolved for it.
LEMMA AssignKeeps ==
    ASSUME IInv, NEW c \in Callers, Assign(c)
    PROVE  IInv'
<1> DEFINE q == call[c]
           name == Item(c).name
           env == Upsert(q.env, name, q.done)
           r == [q EXCEPT !.env = env, !.todo = Tail(@), !.done = <<>>]
<1>1. q \in CallType /\ Kept(q) /\ Current(q)
  BY DEF IInv, Types
<1>2. call' = [call EXCEPT ![c] = r] /\ UNCHANGED store
  BY DEF Assign, IInv, Types
<1>3. q.todo \in Seq(ItemType) /\ q.todo # <<>> /\ q.done \in Seq(Values) /\ q.env \subseteq Binding
  BY <1>1 DEF Assign, CallType
<1>4. name \in Names
  <2>1. Head(q.todo) \in ItemType
    <3> HIDE DEF q
    <3> QED  BY <1>3
  <2> QED  BY <2>1 DEF Item, ItemType
<1>5. env \subseteq q.env \cup {[name |-> name, values |-> q.done]}
  BY DEF Upsert
<1> HIDE DEF name, env
<1>6. [name |-> name, values |-> q.done] \in Binding
  BY <1>3, <1>4 DEF Binding
<1>7. env \in SUBSET Binding
  BY <1>3, <1>5, <1>6
<1>8. r \in CallType
  <2> HIDE DEF q
  <2>1. Tail(q.todo) \in Seq(ItemType) /\ <<>> \in Seq(Values)
    BY <1>3
  <2> QED  BY <1>1, <1>7, <2>1 DEF CallType
<1>9. /\ r.pc = q.pc /\ r.cache = q.cache /\ r.redacted = q.redacted /\ r.env = env
      /\ r.seen = q.seen /\ r.done = <<>> /\ r.used = q.used
  <2> HIDE DEF q
  <2> QED  BY <1>1 DEF CallType
<1> HIDE DEF q, r
<1>10. Kept(r)
  <2>1. ToSet(<<>>) = {}
    BY DEF ToSet
  <2>2. \A e \in env : ToSet(e.values) \subseteq q.redacted \cup {Empty}
    BY <1>1, <1>5 DEF Kept
  <2> QED  BY <1>1, <1>9, <2>1, <2>2 DEF Kept
<1>11. Current(r)
  BY <1>1, <1>9 DEF Current
<1>12. call' = [call EXCEPT ![c] = r] /\ UNCHANGED store
  BY <1>2 DEF q, r
<1> QED  BY <1>8, <1>10, <1>11, <1>12, OneCaller

\* A call that fails, or goes on to run, resolves nothing any more.
LEMMA EndKeeps ==
    ASSUME IInv, NEW c \in Callers, Reject(c) \/ Run(c)
    PROVE  IInv'
<1>1. PICK pc \in {"failed", "running"} :
          call' = [call EXCEPT ![c] = [call[c] EXCEPT !.pc = pc]] /\ UNCHANGED store
  BY DEF Reject, Run, Fail, IInv, Types
<1> DEFINE q == call[c]
           r == [q EXCEPT !.pc = pc]
<1>2. q \in CallType /\ Kept(q)
  BY DEF IInv, Types
<1>3. call' = [call EXCEPT ![c] = r]
  BY <1>1
<1> HIDE DEF q
<1>4. r \in CallType
  BY <1>2 DEF CallType
<1>5. /\ r.pc = pc /\ r.cache = q.cache /\ r.redacted = q.redacted /\ r.env = q.env
      /\ r.seen = q.seen /\ r.done = q.done /\ r.used = q.used
  BY <1>2 DEF CallType
<1> HIDE DEF r
<1>6. Kept(r) /\ Current(r)
  BY <1>2, <1>5 DEF Kept, Current
<1> QED  BY <1>1, <1>3, <1>4, <1>6, OneCaller

\* What another process writes is seen by every call that is resolving.
LEMMA OtherKeeps ==
    ASSUME IInv, Other
    PROVE  IInv'
<1>1. PICK k \in Keys, v \in Values \cup {NoValue} :
        /\ store' = [store EXCEPT ![k] = v]
        /\ call' = [c \in Callers |->
              IF call[c].pc = "resolving" /\ v # NoValue
              THEN [call[c] EXCEPT !.seen = @ \cup {<<k, v>>}] ELSE call[c]]
  BY DEF Other
<1>2. store' \in [Keys -> Values \cup {NoValue}]
  BY <1>1 DEF IInv, Types
<1>3. \A j \in Keys : store'[j] = IF j = k THEN v ELSE store[j]
  BY <1>1 DEF IInv, Types
<1>4. ASSUME NEW c \in Callers
      PROVE  call'[c] \in CallType /\ (Kept(call[c]) /\ Current(call[c]))'
  <2> DEFINE q == call[c]
             r == [q EXCEPT !.seen = @ \cup {<<k, v>>}]
  <2>1. q \in CallType /\ Kept(q) /\ Current(q)
    BY DEF IInv, Types
  <2>2. CASE q.pc = "resolving" /\ v # NoValue
    <3>1. call'[c] = r
      BY <1>1, <2>2
    <3> DEFINE seen == q.seen \cup {<<k, v>>}
    <3>2. seen \in SUBSET (Keys \X Values)
      BY <2>1, <2>2 DEF CallType
    <3>3. r = [q EXCEPT !.seen = seen]
      OBVIOUS
    <3>4. seen = q.seen \cup {<<k, v>>}
      OBVIOUS
    <3> HIDE DEF q, r, seen
    <3>5. r \in CallType
      BY <2>1, <3>2, <3>3 DEF CallType
    <3>6. /\ r.pc = q.pc /\ r.cache = q.cache /\ r.redacted = q.redacted
          /\ r.env = q.env /\ r.seen = seen /\ r.done = q.done /\ r.used = q.used
      BY <2>1, <3>3 DEF CallType
    <3>7. Kept(r)
      BY <2>1, <3>4, <3>6 DEF Kept
    <3>8. \A j \in Keys : store'[j] # NoValue => <<j, store'[j]>> \in r.seen
      BY <1>3, <2>1, <2>2, <3>4, <3>6 DEF Current
    <3> QED  BY <3>1, <3>5, <3>7, <3>8 DEF Kept, Current
  <2>3. CASE ~(q.pc = "resolving" /\ v # NoValue)
    <3>1. call'[c] = q
      BY <1>1, <2>3
    <3>2. q.pc = "resolving" =>
              \A j \in Keys : store'[j] # NoValue => <<j, store'[j]>> \in q.seen
      BY <1>3, <2>1, <2>3 DEF Current
    <3> HIDE DEF q
    <3> QED  BY <2>1, <3>1, <3>2 DEF Kept, Current
  <2> QED  BY <2>2, <2>3
<1>5. call' \in [Callers -> CallType]
  <2>1. DOMAIN call' = Callers /\ call' = [c \in Callers |-> call'[c]]
    BY <1>1
  <2> QED  BY <1>4, <2>1
<1> QED  BY <1>2, <1>4, <1>5 DEF IInv, Types

\* Every step preserves the inductive invariant.
LEMMA NextPreserves == IInv /\ [Next]_vars => IInv'
<1> SUFFICES ASSUME IInv, [Next]_vars PROVE IInv'
  OBVIOUS
<1>1. CASE UNCHANGED vars
  BY <1>1 DEF vars, IInv, Types, Kept, Current
<1>2. CASE Other
  BY <1>2, OtherKeeps
<1>3. ASSUME NEW c \in Callers, NEW job \in Jobs, Begin(c, job) PROVE IInv'
  BY <1>3, BeginKeeps
<1>4. ASSUME NEW c \in Callers,
             FromCache(c) \/ GetSecret(c) \/ Reject(c) \/ Assign(c) \/ Run(c)
      PROVE  IInv'
  BY <1>4, FromCacheKeeps, GetSecretKeeps, EndKeeps, AssignKeeps
<1> QED  BY <1>1, <1>2, <1>3, <1>4 DEF Next
-----------------------------------------------------------------------------
\* The workspace and the calls are always of their types, and the empty value
\* is never given to the Redactor.
THEOREM TypeCorrect == Spec => []TypeOK
<1>1. IInv => TypeOK
  <2> SUFFICES ASSUME IInv, NEW c \in Callers
               PROVE  /\ store \in [Keys -> Values \cup {NoValue}]
                      /\ call[c].pc \in {"idle", "resolving", "running", "failed"}
                      /\ call[c].index \subseteq Keys
                      /\ \A e \in call[c].env : e.name \in Names /\ e.values \in Seq(Values)
                      /\ call[c].cache \in [Keys -> Values \cup {NoValue}]
                      /\ call[c].redacted \subseteq Values \ {Empty}
    BY DEF IInv, Types, TypeOK
  <2>1. call[c] \in CallType
    BY DEF IInv, Types
  <2> QED  BY <2>1 DEF IInv, Types, CallType, Binding
<1> QED  BY <1>1, InitEstablishes, NextPreserves, PTL DEF Spec

\* Every value in the environment of a child, or in a request that is sent,
\* is known to the Redactor of its output.
THEOREM ValuesAreRedacted == Spec => []EveryValueIsRedacted
<1>1. IInv => EveryValueIsRedacted
  BY DEF IInv, Kept, EveryValueIsRedacted
<1> QED  BY <1>1, InitEstablishes, NextPreserves, PTL DEF Spec

\* secret_cache gives one call one value for one key, however often the key is
\* named and whatever is written meanwhile.
THEOREM ValuesAreConsistent == Spec => []OneValuePerKey
<1>1. IInv => OneValuePerKey
  <2> SUFFICES ASSUME IInv, NEW c \in Callers, NEW u \in call[c].used,
                      NEW v \in call[c].used, u[1] = v[1]
               PROVE  u = v
    BY DEF OneValuePerKey
  <2>1. u[2] = v[2]
    BY DEF IInv, Kept
  <2>2. u \in Keys \X Values /\ v \in Keys \X Values
    BY DEF IInv, Types, CallType
  <2> QED  BY <2>1, <2>2
<1> QED  BY <1>1, InitEstablishes, NextPreserves, PTL DEF Spec

\* A value that is used was current at some time since the keys were listed:
\* the cache does not outlive the call.
THEOREM NoStaleValue == Spec => []ValuesAreFresh
<1>1. IInv => ValuesAreFresh
  BY DEF IInv, Kept, ValuesAreFresh
<1> QED  BY <1>1, InitEstablishes, NextPreserves, PTL DEF Spec
-----------------------------------------------------------------------------
(* What runs has everything it was asked for *)

\* So many items have been given to their names.
Given(r) == Len(r.items) - Len(r.todo)

\* The values of a template, or the first of them, with the keys they are of.
Resolves(r, keys, values) ==
    /\ Len(values) <= Len(keys)
    /\ \A l \in 1..Len(values) : <<keys[l], values[l]>> \in r.used

\* The environment holds the last of the items given to each name.
Holds(r, e, i) ==
    /\ r.items[i].name = e.name
    /\ \A j \in 1..Given(r) : r.items[j].name = e.name => j <= i
    /\ Len(e.values) = Len(r.items[i].keys)
    /\ Resolves(r, r.items[i].keys, e.values)

\* What is still to be resolved is the end of the items, and what precedes it
\* is in the environment.
Progress(r) ==
    r.pc \in {"resolving", "running"} =>
        /\ Len(r.todo) <= Len(r.items)
        /\ \A i \in 1..Len(r.todo) : r.todo[i] = r.items[Given(r) + i]
        /\ \A i \in 1..Given(r) : \E e \in r.env : e.name = r.items[i].name
        /\ \A e \in r.env : \E i \in 1..Given(r) : Holds(r, e, i)
        /\ r.todo # <<>> => Resolves(r, Head(r.todo).keys, r.done)
        /\ r.pc = "running" => r.todo = <<>>

\* The items of a request are all to be resolved at its beginning.
LEMMA BeginProgress ==
    ASSUME NEW r \in CallType, r.todo = r.items, r.done = <<>>, r.env = {}, r.pc = "resolving"
    PROVE  Progress(r)
<1>1. r.items \in Seq(ItemType) /\ Len(r.items) \in Nat
  BY DEF CallType
<1>2. Given(r) = 0
  BY <1>1 DEF Given
<1>3. r.todo # <<>> => Head(r.todo).keys \in Seq(Keys)
  <2>1. r.todo # <<>> => Head(r.todo) \in ItemType
    BY <1>1
  <2> QED  BY <2>1 DEF ItemType
<1>4. r.todo # <<>> => Resolves(r, Head(r.todo).keys, r.done)
  <2> HIDE DEF CallType
  <2>1. Len(<<>>) = 0 /\ 1..0 = {}
    OBVIOUS
  <2>2. r.todo # <<>> => Len(Head(r.todo).keys) \in Nat
    BY <1>3
  <2> QED  BY <2>1, <2>2 DEF Resolves
<1> QED  BY <1>1, <1>2, <1>4 DEF Progress

\* One more value for the next placeholder, which may be a new one.
LEMMA ValueProgress ==
    ASSUME NEW q \in CallType, NEW r \in CallType, Progress(q), NEW v \in Values,
           q.pc = "resolving", q.todo # <<>>, Len(q.done) < Len(Head(q.todo).keys),
           r.pc = q.pc, r.items = q.items, r.todo = q.todo, r.env = q.env,
           r.done = Append(q.done, v),
           r.used = q.used \cup {<<Head(q.todo).keys[Len(q.done) + 1], v>>}
    PROVE  Progress(r)
<1>1. Given(r) = Given(q) /\ q.used \subseteq r.used
  BY DEF Given
<1>2. \A e \in q.env, i \in 1..Given(q) : Holds(q, e, i) => Holds(r, e, i)
  BY <1>1 DEF Holds, Resolves
<1>3. Resolves(r, Head(r.todo).keys, r.done)
  <2> DEFINE keys == Head(q.todo).keys
  <2>1. q.todo \in Seq(ItemType) /\ q.done \in Seq(Values)
    BY DEF CallType
  <2>2. keys \in Seq(Keys)
    <3>1. Head(q.todo) \in ItemType
      BY <2>1
    <3> QED  BY <3>1 DEF ItemType
  <2>3. Resolves(q, keys, q.done)
    BY DEF Progress
  <2> HIDE DEF keys
  <2>4. /\ Len(r.done) = Len(q.done) + 1 /\ r.done[Len(q.done) + 1] = v
        /\ \A l \in 1..Len(q.done) : r.done[l] = q.done[l]
        /\ Len(q.done) \in Nat /\ Len(keys) \in Nat
    BY <2>1, <2>2
  <2>5. Len(q.done) < Len(keys) /\ <<keys[Len(q.done) + 1], v>> \in r.used
    BY DEF keys
  <2>6. ASSUME NEW l \in 1..Len(r.done) PROVE <<keys[l], r.done[l]>> \in r.used
    <3>1. l = Len(q.done) + 1 \/ l \in 1..Len(q.done)
      BY <2>4
    <3> QED  BY <1>1, <2>3, <2>4, <2>5, <3>1 DEF Resolves
  <2>7. Resolves(r, keys, r.done)
    BY <2>4, <2>5, <2>6 DEF Resolves
  <2> QED  BY <2>7 DEF keys
<1> QED  BY <1>1, <1>2, <1>3 DEF Progress

\* The next item is complete and is given to its name.
LEMMA AssignProgress ==
    ASSUME NEW q \in CallType, NEW r \in CallType, Progress(q),
           q.pc = "resolving", q.todo # <<>>, Len(q.done) = Len(Head(q.todo).keys),
           r.pc = q.pc, r.items = q.items, r.todo = Tail(q.todo), r.done = <<>>,
           r.env = Upsert(q.env, Head(q.todo).name, q.done), r.used = q.used
    PROVE  Progress(r)
<1> DEFINE n == Given(q)
           item == Head(q.todo)
           new == [name |-> item.name, values |-> q.done]
<1>1. /\ q.todo \in Seq(ItemType) /\ q.items \in Seq(ItemType) /\ q.done \in Seq(Values)
      /\ Len(q.todo) \in Nat /\ Len(q.items) \in Nat /\ Len(q.todo) >= 1
  BY DEF CallType
<1>2. /\ Len(r.todo) = Len(q.todo) - 1
      /\ \A i \in 1..Len(r.todo) : r.todo[i] = q.todo[i + 1]
  BY <1>1
<1>3. n \in Nat /\ Len(q.todo) <= Len(q.items) /\ Given(r) = n + 1
  <2>1. Len(q.todo) <= Len(q.items)
    BY DEF Progress
  <2>2. Given(r) = Len(q.items) - (Len(q.todo) - 1) /\ n = Len(q.items) - Len(q.todo)
    BY <1>2 DEF Given
  <2> QED  BY <1>1, <2>1, <2>2
<1>4. item = q.items[n + 1]
  <2>1. q.todo[1] = q.items[n + 1]
    BY <1>1 DEF Progress
  <2> QED  BY <1>1, <2>1
<1>5. \A e : e \in r.env <=> (e \in q.env /\ e.name # item.name) \/ e = new
  BY DEF Upsert
<1>6. Resolves(q, item.keys, q.done) /\ Len(q.done) = Len(item.keys)
  BY DEF Progress
<1>7. new.name = item.name /\ new.values = q.done
  OBVIOUS
<1>8. Len(r.todo) <= Len(r.items) /\ \A i \in 1..Len(r.todo) : r.todo[i] = r.items[Given(r) + i]
  <2>1. ASSUME NEW i \in 1..Len(r.todo) PROVE r.todo[i] = r.items[Given(r) + i]
    <3>1. i + 1 \in 1..Len(q.todo)
      BY <1>1, <1>2
    <3>2. q.todo[i + 1] = q.items[n + (i + 1)]
      BY <3>1 DEF Progress
    <3>3. n + (i + 1) = Given(r) + i
      BY <1>3
    <3> QED  BY <1>2, <3>2, <3>3
  <2> QED  BY <1>1, <1>2, <1>3, <2>1
<1> HIDE DEF item, new, n
<1>9. ASSUME NEW i \in 1..Given(r) PROVE \E e \in r.env : e.name = r.items[i].name
  <2>1. CASE r.items[i].name = item.name
    BY <1>5, <1>7, <2>1
  <2>2. CASE r.items[i].name # item.name
    <3>1. i \in 1..n
      BY <1>3, <1>4, <2>2
    <3>2. PICK e \in q.env : e.name = q.items[i].name
      BY <3>1 DEF Progress, n
    <3> QED  BY <1>5, <2>2, <3>2
  <2> QED  BY <2>1, <2>2
<1>10. ASSUME NEW e \in r.env PROVE \E i \in 1..Given(r) : Holds(r, e, i)
  <2>1. CASE e = new
    <3>1. \A j \in 1..Given(r) : j <= n + 1
      BY <1>3
    <3>2. Holds(r, new, n + 1)
      BY <1>4, <1>6, <1>7, <3>1 DEF Holds, Resolves
    <3> QED  BY <1>3, <2>1, <3>2
  <2>2. CASE e \in q.env /\ e.name # item.name
    <3>1. PICK i \in 1..n : Holds(q, e, i)
      BY <2>2 DEF Progress, n
    <3>2. ASSUME NEW j \in 1..Given(r), r.items[j].name = e.name PROVE j <= i
      <4>1. j # n + 1
        BY <1>4, <2>2, <3>2
      <4>2. j \in 1..n
        BY <1>3, <4>1
      <4> QED  BY <3>1, <3>2, <4>2 DEF Holds, n
    <3>3. Holds(r, e, i)
      BY <3>1, <3>2 DEF Holds, Resolves
    <3> QED  BY <1>3, <3>3
  <2> QED  BY <1>5, <2>1, <2>2
<1>11. r.todo # <<>> => Resolves(r, Head(r.todo).keys, r.done)
  <2>1. r.todo \in Seq(ItemType)
    BY DEF CallType
  <2>2. r.todo # <<>> => Head(r.todo).keys \in Seq(Keys)
    <3>1. r.todo # <<>> => Head(r.todo) \in ItemType
      BY <2>1
    <3> QED  BY <3>1 DEF ItemType
  <2>3. r.todo # <<>> => Len(Head(r.todo).keys) \in Nat
    BY <2>2
  <2>4. Len(<<>>) = 0 /\ 1..0 = {}
    OBVIOUS
  <2> QED  BY <2>3, <2>4 DEF Resolves
<1> QED  BY <1>8, <1>9, <1>10, <1>11 DEF Progress

\* What Progress looks at is left as it is, or the call ends with nothing left.
LEMMA SameProgress ==
    ASSUME NEW q, NEW r, Progress(q),
           r.items = q.items, r.todo = q.todo, r.env = q.env, r.done = q.done, r.used = q.used,
           \/ r.pc = q.pc
           \/ r.pc = "failed"
           \/ q.pc = "resolving" /\ q.todo = <<>> /\ r.pc = "running"
    PROVE  Progress(r)
<1>1. Given(r) = Given(q)
  BY DEF Given
<1> QED  BY <1>1 DEF Progress, Holds, Resolves

\* Every step of a caller, and of others, keeps the environment in step.
LEMMA NextKeepsProgress ==
    ASSUME IInv, [Next]_vars, NEW d \in Callers, Progress(call[d])
    PROVE  Progress(call'[d])
<1>1. IInv'
  BY NextPreserves
<1> DEFINE q == call[d]
           r == call'[d]
<1>2. q \in CallType /\ r \in CallType
  BY <1>1 DEF IInv, Types
<1>3. CASE UNCHANGED vars
  BY <1>3 DEF vars
<1>4. CASE Other
  <2>1. PICK s : r = q \/ r = [q EXCEPT !.seen = s]
    BY <1>4 DEF Other
  <2> HIDE DEF q, r
  <2>2. /\ r.items = q.items /\ r.todo = q.todo /\ r.env = q.env /\ r.done = q.done
        /\ r.used = q.used /\ r.pc = q.pc
    BY <1>2, <2>1 DEF CallType
  <2>3. Progress(q)
    BY DEF q
  <2> QED  BY <2>2, <2>3, SameProgress DEF q, r
<1>5. ASSUME NEW c \in Callers, NEW job \in Jobs, Begin(c, job) PROVE Progress(r)
  <2>1. CASE c # d
    <3>1. r = q
      BY <1>5, <2>1 DEF Begin, IInv, Types
    <3> QED  BY <3>1
  <2>2. CASE c = d
    <3>1. /\ r.pc = "resolving" /\ r.items = Items(job, Present) /\ r.todo = Items(job, Present)
          /\ r.done = <<>> /\ r.env = {}
      BY <1>5, <2>2 DEF Begin, IInv, Types, Idle
    <3> HIDE DEF r
    <3> QED  BY <1>2, <3>1, BeginProgress
  <2> QED  BY <2>1, <2>2
<1>6. ASSUME NEW c \in Callers, FromCache(c) \/ GetSecret(c) PROVE Progress(r)
  <2> DEFINE v == IF FromCache(c) THEN call[c].cache[NextKey(c)] ELSE store[NextKey(c)]
  <2>1. CASE c # d
    <3>1. r = q
      BY <1>6, <2>1 DEF FromCache, GetSecret, Use, IInv, Types
    <3> QED  BY <3>1
  <2>2. CASE c = d
    <3>1. /\ q.pc = "resolving" /\ q.todo # <<>> /\ Len(q.done) < Len(Head(q.todo).keys)
          /\ NextKey(c) = Head(q.todo).keys[Len(q.done) + 1]
      BY <1>6, <2>2 DEF FromCache, GetSecret, MorePlaceholders, Item, NextKey
    <3>2. /\ r.pc = q.pc /\ r.items = q.items /\ r.todo = q.todo /\ r.env = q.env
          /\ r.done = Append(q.done, v) /\ r.used = q.used \cup {<<NextKey(c), v>>}
      <4>1. CASE FromCache(c)
        BY <1>2, <2>2, <4>1 DEF FromCache, IInv, Types, CallType
      <4>2. CASE ~FromCache(c)
        BY <1>2, <1>6, <2>2, <4>2 DEF GetSecret, Use, IInv, Types, CallType
      <4> QED  BY <4>1, <4>2
    <3>3. v \in Values
      <4>1. CASE FromCache(c)
        <5>1. NextKey(c) \in Keys
          BY <1>2, <2>2, <4>1 DEF FromCache, CallType
        <5> QED  BY <1>2, <2>2, <4>1, <5>1 DEF FromCache, Cached, CallType
      <4>2. CASE ~FromCache(c)
        <5>1. NextKey(c) \in Keys /\ store[NextKey(c)] # NoValue
          BY <1>2, <1>6, <2>2, <4>2 DEF GetSecret, Missing, CallType
        <5> QED  BY <4>2, <5>1 DEF IInv, Types
      <4> QED  BY <4>1, <4>2
    <3>4. Progress(q)
      OBVIOUS
    <3> HIDE DEF q, r, v
    <3> QED  BY <1>2, <3>1, <3>2, <3>3, <3>4, ValueProgress
  <2> QED  BY <2>1, <2>2
<1>7. ASSUME NEW c \in Callers, Assign(c) PROVE Progress(r)
  <2>1. CASE c # d
    <3>1. r = q
      BY <1>7, <2>1 DEF Assign, IInv, Types
    <3> QED  BY <3>1
  <2>2. CASE c = d
    <3>1. q.pc = "resolving" /\ q.todo # <<>> /\ Len(q.done) = Len(Head(q.todo).keys)
      BY <1>7, <2>2 DEF Assign, Item
    <3>2. /\ r.pc = q.pc /\ r.items = q.items /\ r.todo = Tail(q.todo) /\ r.done = <<>>
          /\ r.env = Upsert(q.env, Head(q.todo).name, q.done) /\ r.used = q.used
      BY <1>2, <1>7, <2>2 DEF Assign, Item, IInv, Types, CallType
    <3>3. Progress(q)
      OBVIOUS
    <3> HIDE DEF q, r
    <3> QED  BY <1>2, <3>1, <3>2, <3>3, AssignProgress
  <2> QED  BY <2>1, <2>2
<1>8. ASSUME NEW c \in Callers, Reject(c) \/ Run(c) PROVE Progress(r)
  <2>1. CASE c # d
    <3>1. r = q
      BY <1>8, <2>1 DEF Reject, Run, Fail, IInv, Types
    <3> QED  BY <3>1
  <2>2. CASE c = d
    <3>1. \/ r.pc = "failed"
          \/ q.pc = "resolving" /\ q.todo = <<>> /\ r.pc = "running"
      BY <1>2, <1>8, <2>2 DEF Reject, Run, Fail, IInv, Types, CallType
    <3>2. /\ r.items = q.items /\ r.todo = q.todo /\ r.env = q.env /\ r.done = q.done
          /\ r.used = q.used
      BY <1>2, <1>8, <2>2 DEF Reject, Run, Fail, IInv, Types, CallType
    <3>3. Progress(q)
      OBVIOUS
    <3> HIDE DEF q, r
    <3> QED  BY <3>1, <3>2, <3>3, SameProgress
  <2> QED  BY <2>1, <2>2
<1> QED  BY <1>3, <1>4, <1>5, <1>6, <1>7, <1>8 DEF Next

\* A call that has resolved everything runs with every name it was asked to
\* give, each with the values of the last item for it, whatever was written or
\* deleted meanwhile.
THEOREM EnvironmentIsComplete == Spec => []RunsWithEverything
<1> DEFINE Inv == IInv /\ \A c \in Callers : Progress(call[c])
<1>1. Init => Inv
  BY InitEstablishes DEF Init, Idle, Progress
<1>2. Inv /\ [Next]_vars => Inv'
  BY NextPreserves, NextKeepsProgress
<1>3. Inv => RunsWithEverything
  <2> SUFFICES ASSUME Inv, NEW c \in Callers, call[c].pc = "running"
               PROVE  LET items == call[c].items
                          last(n) == CHOOSE i \in DOMAIN items :
                                         items[i].name = n
                                         /\ \A j \in DOMAIN items : items[j].name = n => j <= i
                      IN  /\ {e.name : e \in call[c].env} = {items[i].name : i \in DOMAIN items}
                          /\ \A e \in call[c].env :
                              /\ Len(e.values) = Len(items[last(e.name)].keys)
                              /\ \A i \in DOMAIN e.values :
                                     <<items[last(e.name)].keys[i], e.values[i]>> \in call[c].used
    BY DEF RunsWithEverything
  <2> DEFINE q == call[c]
             items == q.items
             last(n) == CHOOSE i \in DOMAIN items :
                            items[i].name = n /\ \A j \in DOMAIN items : items[j].name = n => j <= i
  <2>1. q \in CallType /\ Progress(q) /\ q.pc = "running"
    BY DEF IInv, Types
  <2> HIDE DEF q
  <2>2. q.todo = <<>> /\ items \in Seq(ItemType) /\ q.env \subseteq Binding
    BY <2>1 DEF Progress, CallType
  <2>3. Given(q) = Len(items) /\ Len(items) \in Nat /\ DOMAIN items = 1..Len(items)
    BY <2>2 DEF Given
  <2>4. {e.name : e \in q.env} = {items[i].name : i \in DOMAIN items}
    BY <2>1, <2>3 DEF Progress, Holds
  <2>5. ASSUME NEW e \in q.env
        PROVE  /\ Len(e.values) = Len(items[last(e.name)].keys)
               /\ \A i \in DOMAIN e.values : <<items[last(e.name)].keys[i], e.values[i]>> \in q.used
    <3>1. PICK i \in DOMAIN items : Holds(q, e, i)
      BY <2>1, <2>3 DEF Progress
    <3>2. /\ items[i].name = e.name
          /\ \A j \in DOMAIN items : items[j].name = e.name => j <= i
      BY <2>3, <3>1 DEF Holds
    <3> DEFINE LastOf(j) == /\ items[j].name = e.name
                          /\ \A l \in DOMAIN items : items[l].name = e.name => l <= j
    <3>3. \A j \in DOMAIN items : LastOf(j) => j = i
      BY <2>3, <3>2
    <3>4. last(e.name) = i
      BY <3>2, <3>3
    <3>5. e.values \in Seq(Values)
      BY <2>2 DEF Binding
    <3>6. DOMAIN e.values = 1..Len(e.values)
      BY <3>5
    <3> QED  BY <3>1, <3>4, <3>6 DEF Holds, Resolves
  <2> QED  BY <2>4, <2>5 DEF q
<1> QED  BY <1>1, <1>2, <1>3, PTL DEF Spec
=============================================================================
