----------------------------- MODULE ProxyProofs -----------------------------
(* The proxy, for every configuration, any texts and requests, and any writes *)
(* of others to the workspace: what its routes redact, what it sends upstream,*)
(* and what it refuses.  What FlattenSeq does to a text of any length is      *)
(* proved first, by induction over sequences, which the theorems about        *)
(* well-founded orders give for a set in the place of a predicate.            *)
EXTENDS Proxy, TLAPS, WellFoundedInduction

(* Induction over numbers and sequences *)

\* The order of the natural numbers.
Below == {p \in Nat \X Nat : p[1] < p[2]}

\* Every set of natural numbers has a least one.
LEMMA LeastNumber ==
    ASSUME NEW S, S \subseteq Nat, S # {}
    PROVE  \E n \in S : \A m \in S : n <= m
<1>1. IsWellFoundedOn(Below, Nat)
  BY NatLessThanWellFounded DEF Below, OpToRel
<1>2. PICK n \in S : \A m \in S : ~(<<m, n>> \in Below)
  BY <1>1, WFMin
<1>3. \A m \in S : m \in Nat /\ n \in Nat /\ ~(m < n)
  BY <1>2 DEF Below
<1>4. \A m \in S : n <= m
  BY <1>3
<1> QED  BY <1>4

\* Induction over the numbers, for a set in the place of a predicate.
LEMMA NumberInduction ==
    ASSUME NEW S, 0 \in S, \A n \in Nat : n \in S => n + 1 \in S
    PROVE  Nat \subseteq S
<1> SUFFICES ASSUME Nat \ S # {} PROVE FALSE
  OBVIOUS
<1>1. PICK n \in Nat \ S : \A m \in Nat \ S : n <= m
  BY LeastNumber
<1>2. n # 0 /\ n - 1 \in Nat
  OBVIOUS
<1>3. n - 1 \in S
  BY <1>1, <1>2
<1> QED  BY <1>2, <1>3

\* Induction over sequences, by the last element.
LEMMA SequenceInduction ==
    ASSUME NEW A, NEW T, <<>> \in T,
           \A s \in Seq(A), a \in A : s \in T => Append(s, a) \in T
    PROVE  Seq(A) \subseteq T
<1> DEFINE S == {n \in Nat : \A s \in Seq(A) : Len(s) = n => s \in T}
<1>1. 0 \in S
  OBVIOUS
<1>2. ASSUME NEW n \in Nat, n \in S
      PROVE  n + 1 \in S
  <2> SUFFICES ASSUME NEW s \in Seq(A), Len(s) = n + 1 PROVE s \in T
    OBVIOUS
  <2> DEFINE r == [i \in 1..n |-> s[i]]
  <2>1. r \in Seq(A) /\ Len(r) = n /\ s[n + 1] \in A
    OBVIOUS
  <2>2. s = Append(r, s[n + 1])
    OBVIOUS
  <2>3. r \in T
    BY <1>2, <2>1
  <2> HIDE DEF r
  <2> QED  BY <2>1, <2>2, <2>3
<1>3. Nat \subseteq S
  <2> HIDE DEF S
  <2> QED  BY <1>1, <1>2, NumberInduction
<1> QED  BY <1>3
-----------------------------------------------------------------------------
\* The sequences joined so far, as FlattenSeq defines them.
Joins(f, ss, n) == f = [i \in 1..n |-> IF i = 1 THEN ss[i] ELSE f[i - 1] \o ss[i]]

\* There is such a function, with sequences as values.
LEMMA JoinsExist ==
    ASSUME NEW A, NEW ss \in Seq(Seq(A))
    PROVE  \E f \in [1..Len(ss) -> Seq(A)] : Joins(f, ss, Len(ss))
<1> DEFINE S == {n \in Nat : n <= Len(ss) => \E f \in [1..n -> Seq(A)] : Joins(f, ss, n)}
<1>1. 0 \in S
  <2> DEFINE e == [i \in 1..0 |-> IF i = 1 THEN ss[i] ELSE <<>>]
  <2>1. e \in [1..0 -> Seq(A)] /\ Joins(e, ss, 0)
    BY DEF Joins
  <2> QED  BY <2>1
<1>2. ASSUME NEW n \in Nat, n \in S
      PROVE  n + 1 \in S
  <2> SUFFICES ASSUME n + 1 <= Len(ss)
               PROVE  \E f \in [1..n + 1 -> Seq(A)] : Joins(f, ss, n + 1)
    OBVIOUS
  <2>1. PICK f \in [1..n -> Seq(A)] : Joins(f, ss, n)
    BY <1>2
  <2> DEFINE g == [i \in 1..n + 1 |-> IF i = 1 THEN ss[i] ELSE f[i - 1] \o ss[i]]
  <2>2. \A i \in 1..n + 1 : ss[i] \in Seq(A)
    OBVIOUS
  <2>3. \A i \in 1..n + 1 : i # 1 => i - 1 \in 1..n
    OBVIOUS
  <2>4. \A i \in 1..n + 1 : i # 1 => f[i - 1] \o ss[i] \in Seq(A)
    BY <2>2, <2>3
  <2>5. g \in [1..n + 1 -> Seq(A)]
    BY <2>2, <2>4
  <2>6. \A i \in 1..n : f[i] = IF i = 1 THEN ss[i] ELSE f[i - 1] \o ss[i]
    BY <2>1 DEF Joins
  <2>7. \A i \in 1..n : g[i] = f[i]
    <3> TAKE i \in 1..n
    <3>1. i \in 1..n + 1
      OBVIOUS
    <3>2. g[i] = IF i = 1 THEN ss[i] ELSE f[i - 1] \o ss[i]
      BY <3>1
    <3> HIDE DEF g
    <3> QED  BY <2>6, <3>2
  <2>8. Joins(g, ss, n + 1)
    BY <2>3, <2>7 DEF Joins
  <2> QED  BY <2>5, <2>8
<1>3. Nat \subseteq S
  <2> HIDE DEF S
  <2> QED  BY <1>1, <1>2, NumberInduction
<1> QED  BY <1>3

\* Functions that do the same up to n.
Same(f, g, n) == \A i \in 1..n : f[i] = g[i]
Adds(f, ss, n) == \A i \in 1..n : f[i] = IF i = 1 THEN ss[i] ELSE f[i - 1] \o ss[i]

\* A prefix of such a function joins the prefix of the sequence.
LEMMA JoinsAdds ==
    ASSUME NEW f, NEW ss, NEW m \in Nat, NEW n \in Nat, n <= m, Joins(f, ss, m)
    PROVE  Adds(f, ss, n)
<1> SUFFICES ASSUME NEW i \in 1..n
             PROVE  f[i] = IF i = 1 THEN ss[i] ELSE f[i - 1] \o ss[i]
  BY DEF Adds
<1>1. i \in 1..m
  OBVIOUS
<1>2. \A j \in 1..m : f[j] = IF j = 1 THEN ss[j] ELSE f[j - 1] \o ss[j]
  BY DEF Joins
<1> QED  BY <1>1, <1>2

\* How far two such functions agree.
LEMMA AddsAgree ==
    ASSUME NEW ss, NEW tt, NEW f, NEW g, NEW n \in Nat,
           Adds(f, ss, n), Adds(g, tt, n), Same(ss, tt, n)
    PROVE  Same(f, g, n)
<1> DEFINE S == {k \in Nat : k \in 1..n => f[k] = g[k]}
<1>1. 0 \in S
  OBVIOUS
<1>2. \A k \in Nat : k \in S => k + 1 \in S
  BY DEF Adds, Same
<1>3. Nat \subseteq S
  <2> HIDE DEF S
  <2> QED  BY <1>1, <1>2, NumberInduction
<1> QED  BY <1>3 DEF Same

\* FlattenSeq joins a sequence of sequences from the left.
LEMMA FlattenJoins ==
    ASSUME NEW A, NEW ss \in Seq(Seq(A)), ss # <<>>
    PROVE  \E f \in [1..Len(ss) -> Seq(A)] : Joins(f, ss, Len(ss)) /\ FlattenSeq(ss) = f[Len(ss)]
<1> DEFINE f == CHOOSE x : Joins(x, ss, Len(ss))
<1>1. PICK g \in [1..Len(ss) -> Seq(A)] : Joins(g, ss, Len(ss))
  BY JoinsExist
<1>2. Joins(f, ss, Len(ss))
  BY <1>1
<1>3. f = g
  <2> HIDE DEF f
  <2>1. Len(ss) \in Nat /\ Same(ss, ss, Len(ss))
    BY DEF Same
  <2>2. Adds(f, ss, Len(ss)) /\ Adds(g, ss, Len(ss))
    BY <1>1, <1>2, <2>1, JoinsAdds
  <2>3. Same(f, g, Len(ss))
    BY <2>1, <2>2, AddsAgree
  <2>4. f = [i \in 1..Len(ss) |-> f[i]]
    BY <1>2 DEF Joins
  <2> QED  BY <1>1, <2>3, <2>4 DEF Same
<1>4. FlattenSeq(ss) = f[Len(ss)]
  BY DEF FlattenSeq, Joins
<1> QED  BY <1>1, <1>3, <1>4

\* Nothing is joined to nothing.
LEMMA FlattenEmpty == FlattenSeq(<<>>) = <<>>
  BY DEF FlattenSeq

\* It returns a sequence of the same elements.
LEMMA FlattenType ==
    ASSUME NEW A, NEW ss \in Seq(Seq(A))
    PROVE  FlattenSeq(ss) \in Seq(A)
<1>1. CASE ss = <<>>
  <2>1. <<>> \in Seq(A)
    OBVIOUS
  <2> QED  BY <1>1, <2>1, FlattenEmpty
<1>2. CASE ss # <<>>
  <2>1. Len(ss) \in 1..Len(ss)
    BY <1>2
  <2>2. PICK f \in [1..Len(ss) -> Seq(A)] : FlattenSeq(ss) = f[Len(ss)]
    BY <1>2, FlattenJoins
  <2> QED  BY <2>1, <2>2
<1> QED  BY <1>1, <1>2

\* One sequence more is joined at the end.
LEMMA FlattenExtends ==
    ASSUME NEW A, NEW ss \in Seq(Seq(A)), NEW tt \in Seq(Seq(A)), Len(tt) = Len(ss) + 1,
           \A i \in 1..Len(ss) : ss[i] = tt[i]
    PROVE  FlattenSeq(tt) = FlattenSeq(ss) \o tt[Len(tt)]
<1>1. Len(ss) \in Nat /\ Len(tt) \in Nat /\ Len(tt) \in 1..Len(tt) /\ Len(tt) - 1 = Len(ss)
  OBVIOUS
<1>2. PICK g \in [1..Len(tt) -> Seq(A)] : Joins(g, tt, Len(tt)) /\ FlattenSeq(tt) = g[Len(tt)]
  <2>1. tt # <<>>
    BY <1>1
  <2> QED  BY <1>1, <2>1, FlattenJoins
<1>3. g[Len(tt)] = IF Len(tt) = 1 THEN tt[Len(tt)] ELSE g[Len(ss)] \o tt[Len(tt)]
  <2>1. \A i \in 1..Len(tt) : g[i] = IF i = 1 THEN tt[i] ELSE g[i - 1] \o tt[i]
    BY <1>2 DEF Joins
  <2> QED  BY <1>1, <2>1
<1>4. CASE ss = <<>>
  <2>1. tt[Len(tt)] \in Seq(A)
    BY <1>1
  <2>2. <<>> \o tt[Len(tt)] = tt[Len(tt)]
    BY <2>1
  <2>3. Len(tt) = 1
    BY <1>4
  <2> QED  BY <1>2, <1>3, <1>4, <2>2, <2>3, FlattenEmpty
<1>5. CASE ss # <<>>
  <2>1. PICK f \in [1..Len(ss) -> Seq(A)] : Joins(f, ss, Len(ss)) /\ FlattenSeq(ss) = f[Len(ss)]
    BY <1>5, FlattenJoins
  <2>2. \A i \in 1..Len(ss) : f[i] = g[i]
    <3>1. Len(ss) <= Len(tt) /\ Same(ss, tt, Len(ss))
      BY <1>1 DEF Same
    <3>2. Adds(f, ss, Len(ss)) /\ Adds(g, tt, Len(ss))
      BY <1>1, <1>2, <2>1, <3>1, JoinsAdds
    <3>3. Same(f, g, Len(ss))
      BY <1>1, <3>1, <3>2, AddsAgree
    <3> QED  BY <3>3 DEF Same
  <2>3. Len(ss) \in 1..Len(ss) /\ Len(tt) # 1
    BY <1>1, <1>5
  <2> QED  BY <1>2, <1>3, <2>1, <2>2, <2>3
<1> QED  BY <1>4, <1>5

\* The same, for Append.
LEMMA FlattenAppend ==
    ASSUME NEW A, NEW ss \in Seq(Seq(A)), NEW s \in Seq(A)
    PROVE  FlattenSeq(Append(ss, s)) = FlattenSeq(ss) \o s
<1> DEFINE B == Seq(A)
           tt == Append(ss, s)
<1>1. /\ tt \in Seq(B) /\ Len(tt) = Len(ss) + 1
      /\ tt[Len(tt)] = s /\ \A i \in 1..Len(ss) : ss[i] = tt[i]
  <2> HIDE DEF B
  <2>1. ss \in Seq(B) /\ s \in B
    BY DEF B
  <2> QED  BY <2>1
<1> HIDE DEF tt
<1>2. FlattenSeq(tt) = FlattenSeq(ss) \o tt[Len(tt)]
  BY <1>1, FlattenExtends
<1> QED  BY <1>1, <1>2 DEF tt
-----------------------------------------------------------------------------
(* Sequences whose elements are replaced by sequences *)

\* Every element of t replaced by the sequence h has for it.
Each(t, h) == FlattenSeq([i \in DOMAIN t |-> h[t[i]]])

\* The pieces and the whole are sequences.
LEMMA EachType ==
    ASSUME NEW A, NEW h \in [A -> Seq(A)], NEW t \in Seq(A)
    PROVE  /\ [i \in DOMAIN t |-> h[t[i]]] \in Seq(Seq(A))
           /\ Each(t, h) \in Seq(A)
<1> DEFINE B == Seq(A)
           m == [i \in DOMAIN t |-> h[t[i]]]
<1>1. \A i \in 1..Len(t) : h[t[i]] \in B
  OBVIOUS
<1>2. m \in Seq(B)
  <2>1. DOMAIN t = 1..Len(t) /\ Len(t) \in Nat
    OBVIOUS
  <2>2. m \in [1..Len(t) -> B]
    BY <1>1, <2>1
  <2> HIDE DEF m, B
  <2> QED  BY <2>1, <2>2
<1>3. FlattenSeq(m) \in Seq(A)
  BY <1>2, FlattenType
<1> QED  BY <1>2, <1>3 DEF Each

\* The equations of Each.
LEMMA EachEmpty ==
    ASSUME NEW A, NEW h \in [A -> Seq(A)]
    PROVE  Each(<<>>, h) = <<>>
<1>1. [i \in DOMAIN <<>> |-> h[<<>>[i]]] = <<>>
  OBVIOUS
<1> QED  BY <1>1, FlattenEmpty DEF Each

\* The last element is replaced last.
LEMMA EachAppend ==
    ASSUME NEW A, NEW h \in [A -> Seq(A)], NEW t \in Seq(A), NEW a \in A
    PROVE  Each(Append(t, a), h) = Each(t, h) \o h[a]
<1> DEFINE u == Append(t, a)
           B == Seq(A)
           m == [i \in DOMAIN t |-> h[t[i]]]
           n == [i \in DOMAIN u |-> h[u[i]]]
<1>1. m \in Seq(B) /\ h[a] \in B /\ Len(m) = Len(t)
  <2>1. m \in Seq(B)
    BY EachType
  <2> QED  BY <2>1
<1>2. /\ u \in Seq(A) /\ Len(u) = Len(t) + 1 /\ u[Len(t) + 1] = a
      /\ \A i \in 1..Len(t) : u[i] = t[i]
  OBVIOUS
<1>3. n \in Seq(B) /\ Len(n) = Len(t) + 1
  <2>1. n \in Seq(B)
    BY <1>2, EachType
  <2> QED  BY <1>2, <2>1
<1>4. \A i \in 1..Len(t) : m[i] = n[i]
  BY <1>2
<1>5. n[Len(t) + 1] = h[a]
  BY <1>2
<1> HIDE DEF m, n, u
<1>6. FlattenSeq(n) = FlattenSeq(m) \o n[Len(n)]
  BY <1>1, <1>3, <1>4, FlattenExtends
<1> QED  BY <1>3, <1>5, <1>6 DEF Each, m, n, u

\* A single element is replaced.
LEMMA EachOne ==
    ASSUME NEW A, NEW h \in [A -> Seq(A)], NEW a \in A
    PROVE  Each(<<a>>, h) = h[a]
<1> DEFINE e == <<>>
<1>1. e \in Seq(A) /\ <<a>> = Append(e, a) /\ Each(e, h) = <<>> /\ h[a] \in Seq(A)
  BY EachEmpty
<1>2. <<>> \o h[a] = h[a]
  BY <1>1
<1> HIDE DEF e
<1>3. Each(Append(e, a), h) = Each(e, h) \o h[a]
  BY <1>1, EachAppend
<1> QED  BY <1>1, <1>2, <1>3

\* Two sequences may be joined before or after.
LEMMA EachConcat ==
    ASSUME NEW A, NEW h \in [A -> Seq(A)], NEW s \in Seq(A), NEW t \in Seq(A)
    PROVE  Each(s \o t, h) = Each(s, h) \o Each(t, h)
<1> DEFINE T == {r \in Seq(A) : Each(s \o r, h) = Each(s, h) \o Each(r, h)}
<1>1. <<>> \in T
  <2>1. Each(s, h) \in Seq(A)
    BY EachType
  <2>2. s \o <<>> = s /\ Each(s, h) \o <<>> = Each(s, h) /\ <<>> \in Seq(A)
    BY <2>1
  <2>3. Each(<<>>, h) = <<>>
    BY EachEmpty
  <2> QED  BY <2>2, <2>3
<1>2. ASSUME NEW r \in Seq(A), NEW a \in A, r \in T
      PROVE  Append(r, a) \in T
  <2>1. Each(s, h) \in Seq(A) /\ Each(r, h) \in Seq(A) /\ h[a] \in Seq(A) /\ s \o r \in Seq(A)
    <3>1. Each(s, h) \in Seq(A) /\ Each(r, h) \in Seq(A)
      BY EachType
    <3> QED  BY <3>1
  <2>2. s \o Append(r, a) = Append(s \o r, a)
    OBVIOUS
  <2>3. Each(Append(s \o r, a), h) = Each(s \o r, h) \o h[a]
    BY <2>1, EachAppend
  <2>4. Each(s \o r, h) = Each(s, h) \o Each(r, h)
    BY <1>2
  <2>5. (Each(s, h) \o Each(r, h)) \o h[a] = Each(s, h) \o (Each(r, h) \o h[a])
    BY <2>1
  <2>6. Each(Append(r, a), h) = Each(r, h) \o h[a]
    BY EachAppend
  <2>7. Append(r, a) \in Seq(A)
    OBVIOUS
  <2>8. Each(s \o Append(r, a), h) = Each(s, h) \o Each(Append(r, a), h)
    BY <2>2, <2>3, <2>4, <2>5, <2>6
  <2> QED  BY <2>7, <2>8
<1>3. Seq(A) \subseteq T
  <2> HIDE DEF T
  <2> QED  BY <1>1, <1>2, SequenceInduction
<1> QED  BY <1>3

\* So may any number of them: it does not matter whether elements are
\* replaced before the pieces are joined or after it.
LEMMA EachFlatten ==
    ASSUME NEW A, NEW h \in [A -> Seq(A)], NEW ss \in Seq(Seq(A))
    PROVE  Each(FlattenSeq(ss), h) = FlattenSeq([i \in DOMAIN ss |-> Each(ss[i], h)])
<1> DEFINE B == Seq(A)
           M(rr) == [i \in DOMAIN rr |-> Each(rr[i], h)]
           T == {rr \in Seq(B) : Each(FlattenSeq(rr), h) = FlattenSeq(M(rr))}
<1>1. <<>> \in T
  <2>1. M(<<>>) = <<>>
    OBVIOUS
  <2> HIDE DEF M
  <2>2. Each(FlattenSeq(<<>>), h) = FlattenSeq(M(<<>>))
    BY <2>1, EachEmpty, FlattenEmpty
  <2> QED  BY <2>2
<1>2. ASSUME NEW rr \in Seq(B), NEW b \in B, rr \in T
      PROVE  Append(rr, b) \in T
  <2> DEFINE uu == Append(rr, b)
  <2>1. /\ uu \in Seq(B) /\ Len(uu) = Len(rr) + 1 /\ uu[Len(rr) + 1] = b
        /\ \A i \in 1..Len(rr) : uu[i] = rr[i]
    <3> HIDE DEF B
    <3> QED  OBVIOUS
  <2>2. ASSUME NEW xx \in Seq(B)
        PROVE  /\ M(xx) \in Seq(B) /\ Len(M(xx)) = Len(xx)
               /\ \A i \in 1..Len(xx) : M(xx)[i] = Each(xx[i], h)
    <3>1. \A i \in 1..Len(xx) : xx[i] \in B
      <4> HIDE DEF B
      <4> QED  OBVIOUS
    <3>2. \A i \in 1..Len(xx) : Each(xx[i], h) \in B
      BY <3>1, EachType
    <3>3. DOMAIN xx = 1..Len(xx) /\ Len(xx) \in Nat
      <4> HIDE DEF B
      <4> QED  OBVIOUS
    <3>4. M(xx) \in Seq(B)
      <4> HIDE DEF B
      <4> QED  BY <3>2, <3>3
    <3>5. DOMAIN M(xx) = 1..Len(xx)
      BY <3>3
    <3>6. \A i \in 1..Len(xx) : M(xx)[i] = Each(xx[i], h)
      BY <3>3
    <3> HIDE DEF M, B
    <3> QED  BY <3>3, <3>4, <3>5, <3>6
  <2>3. /\ M(rr) \in Seq(B) /\ M(uu) \in Seq(B) /\ Len(M(uu)) = Len(M(rr)) + 1
        /\ \A i \in 1..Len(M(rr)) : M(rr)[i] = M(uu)[i]
        /\ M(uu)[Len(M(uu))] = Each(b, h)
    <3> HIDE DEF M, B, uu
    <3>1. Len(rr) \in Nat /\ Len(rr) + 1 \in 1..Len(rr) + 1 /\ 1..Len(rr) \subseteq 1..Len(rr) + 1
      OBVIOUS
    <3>2. /\ M(rr) \in Seq(B) /\ Len(M(rr)) = Len(rr)
          /\ \A i \in 1..Len(rr) : M(rr)[i] = Each(rr[i], h)
      BY <2>2
    <3>3. /\ M(uu) \in Seq(B) /\ Len(M(uu)) = Len(uu)
          /\ \A i \in 1..Len(uu) : M(uu)[i] = Each(uu[i], h)
      BY <2>1, <2>2
    <3>4. M(uu)[Len(uu)] = Each(b, h)
      BY <2>1, <3>1, <3>3
    <3>5. \A i \in 1..Len(rr) : M(rr)[i] = M(uu)[i]
      BY <2>1, <3>1, <3>2, <3>3
    <3> QED  BY <2>1, <3>1, <3>2, <3>3, <3>4, <3>5
  <2>4. FlattenSeq(M(uu)) = FlattenSeq(M(rr)) \o Each(b, h)
    <3> HIDE DEF M
    <3> QED  BY <2>3, FlattenExtends
  <2>5. FlattenSeq(uu) = FlattenSeq(rr) \o b /\ FlattenSeq(rr) \in Seq(A)
    BY FlattenAppend, FlattenType
  <2>6. Each(FlattenSeq(rr) \o b, h) = Each(FlattenSeq(rr), h) \o Each(b, h)
    BY <2>5, EachConcat
  <2>7. Each(FlattenSeq(rr), h) = FlattenSeq(M(rr))
    BY <1>2
  <2> HIDE DEF M, uu
  <2>8. Each(FlattenSeq(uu), h) = FlattenSeq(M(uu))
    BY <2>4, <2>5, <2>6, <2>7
  <2> QED  BY <2>1, <2>8 DEF uu
<1>3. Seq(B) \subseteq T
  <2> HIDE DEF T, B
  <2> QED  BY <1>1, <1>2, SequenceInduction
<1> QED  BY <1>3

\* The elements of two sequences that are joined.
LEMMA ConcatElements ==
    ASSUME NEW A, NEW s \in Seq(A), NEW t \in Seq(A)
    PROVE  ToSet(s \o t) = ToSet(s) \cup ToSet(t)
<1>1. /\ Len(s) \in Nat /\ Len(t) \in Nat /\ DOMAIN s = 1..Len(s) /\ DOMAIN t = 1..Len(t)
      /\ DOMAIN (s \o t) = 1..Len(s) + Len(t)
  OBVIOUS
<1>2. \A i \in 1..Len(s) + Len(t) : (s \o t)[i] = IF i <= Len(s) THEN s[i] ELSE t[i - Len(s)]
  OBVIOUS
<1> DEFINE u == s \o t
<1>3. ToSet(u) \subseteq ToSet(s) \cup ToSet(t)
  <2> SUFFICES ASSUME NEW i \in 1..Len(s) + Len(t) PROVE u[i] \in ToSet(s) \cup ToSet(t)
    BY <1>1 DEF ToSet
  <2>1. CASE i <= Len(s)
    BY <1>1, <1>2, <2>1 DEF ToSet
  <2>2. CASE ~(i <= Len(s))
    <3>1. i - Len(s) \in 1..Len(t) /\ u[i] = t[i - Len(s)]
      BY <1>1, <1>2, <2>2
    <3> QED  BY <1>1, <3>1 DEF ToSet
  <2> QED  BY <2>1, <2>2
<1>4. ASSUME NEW i \in 1..Len(s) PROVE s[i] \in ToSet(u)
  <2>1. i \in 1..Len(s) + Len(t) /\ i <= Len(s)
    BY <1>1
  <2>2. u[i] = s[i]
    BY <1>2, <2>1
  <2> HIDE DEF u
  <2>3. i \in DOMAIN u
    BY <1>1, <2>1 DEF u
  <2> QED  BY <2>2, <2>3 DEF ToSet
<1>5. ASSUME NEW i \in 1..Len(t) PROVE t[i] \in ToSet(u)
  <2>1. Len(s) + i \in 1..Len(s) + Len(t) /\ ~(Len(s) + i <= Len(s)) /\ (Len(s) + i) - Len(s) = i
    BY <1>1
  <2>2. u[Len(s) + i] = t[i]
    BY <1>2, <2>1
  <2> HIDE DEF u
  <2>3. Len(s) + i \in DOMAIN u
    BY <1>1, <2>1 DEF u
  <2> QED  BY <2>2, <2>3 DEF ToSet
<1> HIDE DEF u
<1>6. ToSet(s) \subseteq ToSet(u) /\ ToSet(t) \subseteq ToSet(u)
  BY <1>1, <1>4, <1>5 DEF ToSet
<1> QED  BY <1>3, <1>6 DEF u

\* The elements of a sequence of one.
LEMMA OneElement ==
    ASSUME NEW a
    PROVE  ToSet(<<a>>) = {a}
<1>1. DOMAIN <<a>> = {1} /\ <<a>>[1] = a
  OBVIOUS
<1> QED  BY <1>1 DEF ToSet

\* What is replaced by itself stays.
LEMMA EachSame ==
    ASSUME NEW A, NEW h \in [A -> Seq(A)], NEW t \in Seq(A), \A a \in ToSet(t) : h[a] = <<a>>
    PROVE  Each(t, h) = t
<1> DEFINE T == {r \in Seq(A) : (\A a \in ToSet(r) : h[a] = <<a>>) => Each(r, h) = r}
<1>1. <<>> \in T
  BY EachEmpty
<1>2. ASSUME NEW r \in Seq(A), NEW a \in A, r \in T
      PROVE  Append(r, a) \in T
  <2>1. Append(r, a) \in Seq(A) /\ Append(r, a) = r \o <<a>>
    OBVIOUS
  <2>2. ASSUME \A b \in ToSet(Append(r, a)) : h[b] = <<b>>
        PROVE  Each(Append(r, a), h) = Append(r, a)
    <3>1. ToSet(Append(r, a)) = ToSet(r) \cup {a}
      <4> DEFINE o == <<a>>
      <4>1. o \in Seq(A) /\ ToSet(o) = {a}
        BY OneElement
      <4> HIDE DEF o
      <4>2. ToSet(r \o o) = ToSet(r) \cup ToSet(o)
        BY <4>1, ConcatElements
      <4> QED  BY <2>1, <4>1, <4>2 DEF o
    <3>2. Each(r, h) = r /\ h[a] = <<a>>
      BY <1>2, <2>2, <3>1
    <3>3. Each(Append(r, a), h) = Each(r, h) \o h[a]
      BY EachAppend
    <3> QED  BY <2>1, <3>2, <3>3
  <2> QED  BY <2>1, <2>2
<1>3. Seq(A) \subseteq T
  <2> HIDE DEF T
  <2> QED  BY <1>1, <1>2, SequenceInduction
<1> QED  BY <1>3

\* No element is lost, none is added.
LEMMA FlattenElements ==
    ASSUME NEW A, NEW ss \in Seq(Seq(A))
    PROVE  ToSet(FlattenSeq(ss)) = UNION {ToSet(ss[i]) : i \in DOMAIN ss}
<1> DEFINE B == Seq(A)
           T == {rr \in Seq(B) : ToSet(FlattenSeq(rr)) = UNION {ToSet(rr[i]) : i \in DOMAIN rr}}
<1>1. <<>> \in T
  <2>1. ToSet(<<>>) = {} /\ UNION {ToSet(<<>>[i]) : i \in DOMAIN <<>>} = {}
    BY DEF ToSet
  <2> QED  BY <2>1, FlattenEmpty
<1>2. ASSUME NEW rr \in Seq(B), NEW b \in B, rr \in T
      PROVE  Append(rr, b) \in T
  <2> DEFINE uu == Append(rr, b)
  <2>1. /\ uu \in Seq(B) /\ DOMAIN uu = DOMAIN rr \cup {Len(rr) + 1} /\ uu[Len(rr) + 1] = b
        /\ \A i \in DOMAIN rr : uu[i] = rr[i]
    <3> HIDE DEF B
    <3> QED  OBVIOUS
  <2>2. FlattenSeq(uu) = FlattenSeq(rr) \o b /\ FlattenSeq(rr) \in Seq(A)
    BY FlattenAppend, FlattenType
  <2>3. ToSet(FlattenSeq(rr) \o b) = ToSet(FlattenSeq(rr)) \cup ToSet(b)
    BY <2>2, ConcatElements
  <2>4. ToSet(FlattenSeq(rr)) = UNION {ToSet(rr[i]) : i \in DOMAIN rr}
    BY <1>2
  <2> HIDE DEF uu
  <2>5. UNION {ToSet(uu[i]) : i \in DOMAIN uu} = (UNION {ToSet(rr[i]) : i \in DOMAIN rr}) \cup ToSet(b)
    BY <2>1
  <2>6. ToSet(FlattenSeq(uu)) = UNION {ToSet(uu[i]) : i \in DOMAIN uu}
    BY <2>2, <2>3, <2>4, <2>5
  <2> QED  BY <2>1, <2>6 DEF uu
<1>3. Seq(B) \subseteq T
  <2> HIDE DEF T, B
  <2> QED  BY <1>1, <1>2, SequenceInduction
<1> QED  BY <1>3
-----------------------------------------------------------------------------
(* Templates *)

\* What replace_secret_placeholders puts where, before it is joined.
Parts(text, values) ==
    [i \in DOMAIN text |->
        IF i \in Starts(text) THEN values[Name(text, i)]
        ELSE IF Inside(text, i) THEN <<>> ELSE <<text[i]>>]

\* What render_request_template puts for a token.
Put(c) == [a \in Tokens |-> IF a \in Context /\ c[a] \in Seq(Tokens) THEN c[a] ELSE <<a>>]

\* Both at once.
Once(text, values, c) ==
    FlattenSeq([i \in DOMAIN text |->
        IF i \in Starts(text) THEN values[Name(text, i)]
        ELSE IF Inside(text, i) THEN <<>>
        ELSE IF text[i] \in Context THEN c[text[i]] ELSE <<text[i]>>])

\* A token is replaced by a text.
LEMMA PutType == ASSUME NEW c PROVE Put(c) \in [Tokens -> Seq(Tokens)]
<1>1. \A a \in Tokens : <<a>> \in Seq(Tokens)
  OBVIOUS
<1> QED  BY <1>1 DEF Put

\* What replaces the placeholders of secrets makes a text.
LEMMA PartsType ==
    ASSUME NEW text \in Seq(Tokens), NEW values, \A k \in Named(text) : values[k] \in Seq(Tokens)
    PROVE  /\ Parts(text, values) \in Seq(Seq(Tokens)) /\ DOMAIN Parts(text, values) = DOMAIN text
           /\ Replace(text, values) = FlattenSeq(Parts(text, values))
           /\ Replace(text, values) \in Seq(Tokens)
<1> DEFINE B == Seq(Tokens)
           p == Parts(text, values)
<1>1. DOMAIN text = 1..Len(text) /\ Len(text) \in Nat
  OBVIOUS
<1>2. \A i \in 1..Len(text) : p[i] \in B
  <2> TAKE i \in 1..Len(text)
  <2>1. p[i] = IF i \in Starts(text) THEN values[Name(text, i)]
               ELSE IF Inside(text, i) THEN <<>> ELSE <<text[i]>>
    BY <1>1 DEF Parts
  <2>2. <<>> \in B /\ <<text[i]>> \in B
    OBVIOUS
  <2>3. i \in Starts(text) => values[Name(text, i)] \in B
    BY DEF Named
  <2> HIDE DEF p, B
  <2> QED  BY <2>1, <2>2, <2>3
<1>3. p = [i \in 1..Len(text) |-> p[i]]
  BY <1>1 DEF Parts
<1>4. p \in Seq(B) /\ DOMAIN p = DOMAIN text
  <2> HIDE DEF p, B
  <2> QED  BY <1>1, <1>2, <1>3
<1>5. FlattenSeq(p) \in Seq(Tokens)
  BY <1>4, FlattenType
<1> QED  BY <1>4, <1>5 DEF Replace, Parts

\* A token comes from the template or from a secret it names.
LEMMA TokensOfReplaced ==
    ASSUME NEW text \in Seq(Tokens), NEW values, \A k \in Named(text) : values[k] \in Seq(Tokens),
           NEW a \in ToSet(Replace(text, values))
    PROVE  a \in ToSet(text) \/ \E k \in Named(text) : a \in ToSet(values[k])
<1>1. PICK i \in DOMAIN text : a \in ToSet(Parts(text, values)[i])
  BY PartsType, FlattenElements
<1>2. Parts(text, values)[i] = IF i \in Starts(text) THEN values[Name(text, i)]
                               ELSE IF Inside(text, i) THEN <<>> ELSE <<text[i]>>
  BY DEF Parts
<1>3. ToSet(<<>>) = {} /\ ToSet(<<text[i]>>) = {text[i]}
  BY OneElement DEF ToSet
<1>4. CASE i \in Starts(text)
  BY <1>1, <1>2, <1>4 DEF Named
<1>5. CASE i \notin Starts(text)
  BY <1>1, <1>2, <1>3, <1>5 DEF ToSet
<1> QED  BY <1>4, <1>5

\* A text is rendered token by token, or not for the reason there is.
LEMMA Renders ==
    ASSUME NEW text \in Seq(Tokens), NEW c, \A a \in Context : c[a] \in Seq(Tokens) \cup {Binary}
    PROVE  IF Render(text, c) = NoText
           THEN \E a \in ToSet(text) : a = "open" \/ (a \in Context /\ c[a] = Binary)
           ELSE /\ Render(text, c) = Each(text, Put(c)) /\ Render(text, c) \in Seq(Tokens)
                /\ \A a \in ToSet(text) : a \in Context => c[a] \in Seq(Tokens)
<1> DEFINE Bad == \E i \in DOMAIN text :
                      text[i] = "open" \/ (text[i] \in Context /\ c[text[i]] = Binary)
<1>1. CASE Bad
  <2>1. Render(text, c) = NoText
    BY <1>1 DEF Render
  <2>2. \E a \in ToSet(text) : a = "open" \/ (a \in Context /\ c[a] = Binary)
    BY <1>1 DEF ToSet
  <2> QED  BY <2>1, <2>2
<1>2. CASE ~Bad
  <2>1. \A a \in ToSet(text) : a \in Context => c[a] \in Seq(Tokens)
    BY <1>2 DEF ToSet
  <2>2. \A i \in DOMAIN text : text[i] \in Tokens /\ text[i] \in ToSet(text)
    BY DEF ToSet
  <2>3. \A i \in DOMAIN text :
            Put(c)[text[i]] = IF text[i] \in Context THEN c[text[i]] ELSE <<text[i]>>
    BY <2>1, <2>2 DEF Put
  <2>4. [i \in DOMAIN text |-> Put(c)[text[i]]]
        = [i \in DOMAIN text |-> IF text[i] \in Context THEN c[text[i]] ELSE <<text[i]>>]
    BY <2>3
  <2>5. Render(text, c) = Each(text, Put(c))
    BY <1>2, <2>4 DEF Render, Each
  <2>6. Each(text, Put(c)) \in Seq(Tokens)
    BY PutType, EachType
  <2>7. Render(text, c) # NoText
    BY <2>5, <2>6, TextsAssumption
  <2> QED  BY <2>1, <2>5, <2>6, <2>7
<1> QED  BY <1>1, <1>2

\* Two passes over a template do what one does, if no secret looks like a
\* placeholder of the request.
LEMMA PassesAreOne ==
    ASSUME NEW text \in Seq(Tokens), NEW values, NEW c,
           \A k \in Named(text) : values[k] \in Seq(Tokens) /\ ToSet(values[k]) \cap Context = {},
           \A a \in Context : c[a] \in Seq(Tokens) \cup {Binary},
           Render(Replace(text, values), c) # NoText
    PROVE  Render(Replace(text, values), c) = Once(text, values, c)
<1> DEFINE p == Parts(text, values)
           h == Put(c)
<1>1. p \in Seq(Seq(Tokens)) /\ DOMAIN p = DOMAIN text /\ Replace(text, values) = FlattenSeq(p)
      /\ FlattenSeq(p) \in Seq(Tokens)
  BY PartsType
<1>2. /\ Render(Replace(text, values), c) = Each(FlattenSeq(p), h)
      /\ \A a \in ToSet(FlattenSeq(p)) : a \in Context => c[a] \in Seq(Tokens)
  BY <1>1, Renders
<1>3. Each(FlattenSeq(p), h) = FlattenSeq([i \in DOMAIN p |-> Each(p[i], h)])
  <2> HIDE DEF p
  <2>1. h \in [Tokens -> Seq(Tokens)]
    BY PutType
  <2> HIDE DEF h
  <2> QED  BY <1>1, <2>1, EachFlatten
<1>4. ASSUME NEW i \in DOMAIN text
      PROVE  Each(p[i], h) = IF i \in Starts(text) THEN values[Name(text, i)]
                             ELSE IF Inside(text, i) THEN <<>>
                             ELSE IF text[i] \in Context THEN c[text[i]] ELSE <<text[i]>>
  <2>1. p[i] = IF i \in Starts(text) THEN values[Name(text, i)]
               ELSE IF Inside(text, i) THEN <<>> ELSE <<text[i]>>
    BY DEF Parts
  <2>2. CASE i \in Starts(text)
    <3> DEFINE v == values[Name(text, i)]
    <3>1. v \in Seq(Tokens) /\ ToSet(v) \cap Context = {}
      BY <2>2 DEF Named
    <3>2. \A a \in ToSet(v) : a \in Tokens
      BY <3>1 DEF ToSet
    <3>3. \A a \in ToSet(v) : h[a] = <<a>>
      BY <3>1, <3>2 DEF Put
    <3> HIDE DEF v, h
    <3>4. Each(v, h) = v
      BY <3>1, <3>3, PutType, EachSame DEF h
    <3> QED  BY <2>1, <2>2, <3>4 DEF v
  <2>3. CASE i \notin Starts(text) /\ Inside(text, i)
    <3>1. Each(<<>>, h) = <<>>
      BY PutType, EachEmpty
    <3> QED  BY <2>1, <2>3, <3>1
  <2>4. CASE i \notin Starts(text) /\ ~Inside(text, i)
    <3>1. p[i] = <<text[i]>> /\ text[i] \in Tokens
      BY <2>1, <2>4
    <3>2. text[i] \in ToSet(FlattenSeq(p))
      <4>1. text[i] \in ToSet(p[i])
        BY <3>1, OneElement
      <4>2. ToSet(FlattenSeq(p)) = UNION {ToSet(p[j]) : j \in DOMAIN p}
        BY <1>1, FlattenElements
      <4> HIDE DEF p
      <4> QED  BY <1>1, <4>1, <4>2
    <3>3. h[text[i]] = IF text[i] \in Context THEN c[text[i]] ELSE <<text[i]>>
      BY <1>2, <3>1, <3>2 DEF Put
    <3>4. Each(<<text[i]>>, h) = h[text[i]]
      <4>1. h \in [Tokens -> Seq(Tokens)]
        BY PutType
      <4> DEFINE a == text[i]
      <4>2. a \in Tokens
        BY <3>1
      <4> HIDE DEF h, a
      <4>3. Each(<<a>>, h) = h[a]
        BY <4>1, <4>2, EachOne
      <4> QED  BY <4>3 DEF a
    <3> QED  BY <2>4, <3>1, <3>3, <3>4
  <2> QED  BY <2>2, <2>3, <2>4
<1> HIDE DEF p, h
<1>5. [i \in DOMAIN p |-> Each(p[i], h)]
      = [i \in DOMAIN text |->
            IF i \in Starts(text) THEN values[Name(text, i)]
            ELSE IF Inside(text, i) THEN <<>>
            ELSE IF text[i] \in Context THEN c[text[i]] ELSE <<text[i]>>]
  BY <1>1, <1>4
<1> QED  BY <1>2, <1>3, <1>5 DEF Once

\* A template without placeholders of the request needs one pass only.
LEMMA PlainIsOnce ==
    ASSUME NEW text \in Seq(Tokens), NEW values, NEW c, ToSet(text) \cap Context = {}
    PROVE  Replace(text, values) = Once(text, values, c)
<1>1. \A i \in DOMAIN text : text[i] \notin Context
  BY DEF ToSet
<1> QED  BY <1>1 DEF Replace, Once
-----------------------------------------------------------------------------
(* Paths *)

\* The marks at the end of a text are cut off.
LEMMA TrimEndType ==
    ASSUME NEW A, NEW text \in Seq(A), NEW mark
    PROVE  TrimEnd(text, mark) \in Seq(A)
<1> DEFINE Cut(n) == /\ \A i \in n + 1..Len(text) : text[i] = mark
                     /\ n = 0 \/ text[n] # mark
           S == {n \in 0..Len(text) : \A i \in n + 1..Len(text) : text[i] = mark}
<1>1. Len(text) \in S /\ S \subseteq Nat
  OBVIOUS
<1>2. PICK n \in S : \A m \in S : n <= m
  <2> HIDE DEF S
  <2> QED  BY <1>1, LeastNumber
<1>3. n = 0 \/ text[n] # mark
  <2> SUFFICES ASSUME n # 0, text[n] = mark PROVE FALSE
    OBVIOUS
  <2>1. n - 1 \in 0..Len(text) /\ n \in Nat
    BY <1>2
  <2>2. \A i \in (n - 1) + 1..Len(text) : i = n \/ i \in n + 1..Len(text)
    BY <2>1
  <2>3. n - 1 \in S
    BY <1>2, <2>1, <2>2
  <2> HIDE DEF S
  <2> QED  BY <1>2, <2>1, <2>3
<1>4. \E m \in 0..Len(text) : Cut(m)
  BY <1>2, <1>3
<1> DEFINE m == CHOOSE k \in 0..Len(text) : Cut(k)
<1>5. m \in 0..Len(text)
  <2> HIDE DEF Cut
  <2> QED  BY <1>4
<1>6. TrimEnd(text, mark) = SubSeq(text, 1, m)
  BY DEF TrimEnd
<1> HIDE DEF m
<1>7. SubSeq(text, 1, m) \in Seq(A)
  BY <1>5
<1> QED  BY <1>6, <1>7

\* A route's prefix, and what a path has after it.
LEMMA PrefixType ==
    ASSUME NEW prefix \in Seq(Tokens)
    PROVE  NormalPrefix(prefix) \in Seq(Tokens)
<1> DEFINE slash == <<"/">>
<1>1. slash \in Seq(Tokens)
  BY TextsAssumption
<1> HIDE DEF slash
<1>2. WithSlash(prefix) \in Seq(Tokens)
  BY <1>1 DEF WithSlash, slash
<1>3. TrimEnd(WithSlash(prefix), "/") \in Seq(Tokens)
  BY <1>2, TrimEndType
<1> QED  BY <1>1, <1>3 DEF NormalPrefix, slash

LEMMA TailType ==
    ASSUME NEW path \in Seq(Tokens), NEW prefix \in Seq(Tokens)
    PROVE  PathTail(path, prefix) \in Seq(Tokens)
<1> DEFINE slash == <<"/">>
<1>1. slash \in Seq(Tokens)
  BY TextsAssumption
<1> HIDE DEF slash
<1>2. SubSeq(path, Len(prefix) + 1, Len(path)) \in Seq(Tokens)
  <2>1. Len(prefix) + 1 \in Nat \ {0}
    OBVIOUS
  <2> QED  BY <2>1
<1> QED  BY <1>1, <1>2 DEF PathTail, slash
-----------------------------------------------------------------------------
(* The process: its values and its routes *)

ProxyTypes ==
    /\ store \in [Keys -> Values \cup {NoValue}]
    /\ server \in [state : {"down", "starting", "serving", "stopping"}, config : {server.config},
                   values : [Keys -> Values \cup {NoValue}], seen : {server.seen}]

\* What has been loaded was current at some time of the start, and while the
\* process starts it sees whatever a key is worth.
Loaded ==
    /\ \A k \in Keys : server.values[k] # NoValue => <<k, server.values[k]>> \in server.seen
    /\ server.state = "starting" => Worth \subseteq server.seen
    /\ Referenced(server.config) \subseteq Keys

\* There are no routes before every value is loaded; then they are compiled
\* from the configuration and these values, for good.
Compiles ==
    IF server.state \in {"serving", "stopping"}
    THEN /\ \A k \in Referenced(server.config) : server.values[k] # NoValue
         /\ routes = [i \in DOMAIN server.config |-> Compiled(server.config[i], server.values)]
    ELSE routes = <<>>

ProxyIInv == ProxyTypes /\ Loaded /\ Compiles
-----------------------------------------------------------------------------
\* A process that does not run has nothing loaded.
LEMMA DownIsEmpty ==
    /\ Down.state = "down" /\ Down.config = <<>> /\ Down.seen = {}
    /\ Down.values = NoValues /\ NoValues \in [Keys -> Values \cup {NoValue}]
    /\ \A k \in Keys : NoValues[k] = NoValue
    /\ Referenced(<<>>) = {}
BY DEF Down, NoValues, Referenced

\* A process that goes down leaves nothing behind.
LEMMA DownKeeps ==
    ASSUME store' \in [Keys -> Values \cup {NoValue}], server' = Down, routes' = <<>>
    PROVE  ProxyIInv'
<1>1. ProxyTypes'
  BY DownIsEmpty DEF ProxyTypes, Down
<1>2. Loaded'
  BY DownIsEmpty DEF Loaded
<1>3. Compiles'
  BY DownIsEmpty DEF Compiles
<1> QED  BY <1>1, <1>2, <1>3 DEF ProxyIInv

\* Before the first start nothing runs.
LEMMA ProxyInitEstablishes == Init => ProxyIInv
<1> SUFFICES ASSUME Init PROVE ProxyIInv
  OBVIOUS
<1>1. ProxyTypes
  BY DownIsEmpty DEF ProxyTypes, Down, Init
<1>2. Loaded /\ Compiles
  BY DownIsEmpty DEF Init, Loaded, Compiles
<1> QED  BY <1>1, <1>2 DEF ProxyIInv

\* The keys are listed; the configuration names listed keys only.
LEMMA StartKeeps ==
    ASSUME ProxyIInv, NEW config \in Configs, Start(config)
    PROVE  ProxyIInv'
<1>1. server' = [state |-> "starting", config |-> config, values |-> NoValues, seen |-> Worth]
      /\ server.state = "down" /\ UNCHANGED <<store, routes>>
  BY DEF Start
<1>2. ProxyTypes'
  BY <1>1, DownIsEmpty DEF ProxyTypes, ProxyIInv
<1>3. Referenced(config) \subseteq Keys
  <2> SUFFICES ASSUME NEW i \in DOMAIN config, NEW f \in DOMAIN config[i].templates
               PROVE  Named(config[i].templates[f]) \subseteq Keys
    BY DEF Referenced, RouteKeys
  <2>1. Named(config[i].templates[f]) \subseteq Present
    BY DEF Start, Accepted
  <2> QED  BY <2>1 DEF Present
<1>4. Loaded'
  BY <1>1, <1>3, DownIsEmpty DEF Loaded, Worth, Present
<1>5. Compiles'
  BY <1>1 DEF ProxyIInv, Compiles
<1> QED  BY <1>2, <1>4, <1>5 DEF ProxyIInv

\* A value is loaded as it is now, which has been seen.
LEMMA LoadKeeps ==
    ASSUME ProxyIInv, NEW k \in Keys, Load(k)
    PROVE  ProxyIInv'
<1>1. /\ server.state = "starting" /\ store[k] # NoValue /\ UNCHANGED <<store, routes>>
      /\ server' = [server EXCEPT !.values = [server.values EXCEPT ![k] = store[k]]]
  BY DEF Load
<1>2. /\ server'.state = "starting" /\ server'.config = server.config /\ server'.seen = server.seen
      /\ server'.values = [server.values EXCEPT ![k] = store[k]]
      /\ server'.values \in [Keys -> Values \cup {NoValue}]
  BY <1>1 DEF ProxyIInv, ProxyTypes
<1>3. ProxyTypes'
  BY <1>1, <1>2 DEF ProxyIInv, ProxyTypes
<1>4. <<k, store[k]>> \in server.seen
  BY <1>1 DEF ProxyIInv, Loaded, Worth, Present
<1>5. Loaded'
  <2>1. \A l \in Keys : server'.values[l] = IF l = k THEN store[k] ELSE server.values[l]
    BY <1>2 DEF ProxyIInv, ProxyTypes
  <2>2. Worth' = Worth
    BY <1>1 DEF Worth, Present
  <2> QED  BY <1>1, <1>2, <1>4, <2>1, <2>2 DEF ProxyIInv, Loaded
<1>6. Compiles'
  BY <1>1, <1>2 DEF ProxyIInv, Compiles
<1> QED  BY <1>3, <1>5, <1>6 DEF ProxyIInv

\* The routes are compiled, or go on serving until the process stops.
LEMMA ServeKeeps ==
    ASSUME ProxyIInv, Serve \/ Stop
    PROVE  ProxyIInv'
<1>1. PICK state \in {"serving", "stopping"} : server' = [server EXCEPT !.state = state]
  BY DEF Serve, Stop
<1>2. /\ server'.state = state /\ server'.config = server.config /\ server'.seen = server.seen
      /\ server'.values = server.values
  BY <1>1 DEF ProxyIInv, ProxyTypes
<1>3. ProxyTypes' /\ Loaded'
  BY <1>1, <1>2 DEF Serve, Stop, ProxyIInv, ProxyTypes, Loaded
<1>4. Compiles'
  <2>1. CASE Serve
    BY <1>2, <2>1 DEF Serve, Compiles
  <2>2. CASE Stop
    BY <1>2, <2>2 DEF Stop, ProxyIInv, Compiles
  <2> QED  BY <2>1, <2>2
<1> QED  BY <1>3, <1>4 DEF ProxyIInv

\* Whatever others write is seen while the process starts, and does not reach
\* it afterwards.
LEMMA ProxyOtherKeeps ==
    ASSUME ProxyIInv, Other
    PROVE  ProxyIInv'
<1>1. store' \in [Keys -> Values \cup {NoValue}] /\ UNCHANGED routes
  BY DEF Other, ProxyIInv, ProxyTypes
<1>2. Worth' = {<<k, store'[k]>> : k \in {l \in Keys : store'[l] # NoValue}}
  BY DEF Worth, Present
<1>3. CASE server.state = "starting"
  <2>1. server' = [server EXCEPT !.seen = server.seen \cup Worth']
    BY <1>2, <1>3 DEF Other
  <2>2. /\ server'.state = server.state /\ server'.config = server.config
        /\ server'.values = server.values /\ server'.seen = server.seen \cup Worth'
    BY <2>1 DEF ProxyIInv, ProxyTypes
  <2>3. ProxyTypes'
    BY <1>1, <2>1, <2>2 DEF ProxyIInv, ProxyTypes
  <2>4. Loaded' /\ Compiles'
    BY <1>1, <1>3, <2>2 DEF ProxyIInv, Loaded, Compiles
  <2> QED  BY <2>3, <2>4 DEF ProxyIInv
<1>4. CASE server.state # "starting"
  <2>1. server' = server
    BY <1>4 DEF Other
  <2> QED  BY <1>1, <1>4, <2>1 DEF ProxyIInv, ProxyTypes, Loaded, Compiles
<1> QED  BY <1>3, <1>4

\* Every step preserves the invariant; a request touches none of it.
LEMMA ProxyNextPreserves == ProxyIInv /\ [Next]_vars => ProxyIInv'
<1> SUFFICES ASSUME ProxyIInv, [Next]_vars PROVE ProxyIInv'
  OBVIOUS
<1>1. ASSUME UNCHANGED <<store, server, routes>> PROVE ProxyIInv'
  BY <1>1 DEF ProxyIInv, ProxyTypes, Loaded, Compiles, Worth, Present
<1>2. ASSUME NEW config \in Configs, Start(config) PROVE ProxyIInv'
  BY <1>2, StartKeeps
<1>3. ASSUME NEW k \in Keys, Load(k) PROVE ProxyIInv'
  BY <1>3, LoadKeeps
<1>4. CASE Serve \/ Stop
  BY <1>4, ServeKeeps
<1>5. CASE GiveUp
  <2>1. routes' = <<>> /\ server' = Down /\ store' \in [Keys -> Values \cup {NoValue}]
    BY <1>5 DEF GiveUp, ProxyIInv, Compiles, ProxyTypes
  <2> QED  BY <2>1, DownKeeps
<1>6. CASE Exit \/ Kill
  <2>1. routes' = <<>> /\ server' = Down /\ store' \in [Keys -> Values \cup {NoValue}]
    BY <1>6 DEF Exit, Kill, ProxyIInv, ProxyTypes
  <2> QED  BY <2>1, DownKeeps
<1>7. CASE Other
  BY <1>7, ProxyOtherKeeps
<1>8. ASSUME NEW request \in Requests, Accept(request) PROVE ProxyIInv'
  BY <1>1, <1>8 DEF Accept
<1>9. CASE RefuseBody \/ Forward \/ Respond \/ Fail \/ Finish
  BY <1>1, <1>9 DEF RefuseBody, Forward, Respond, Fail, Finish
<1>10. CASE UNCHANGED vars
  BY <1>1, <1>10 DEF vars
<1> QED  BY <1>2, <1>3, <1>4, <1>5, <1>6, <1>7, <1>8, <1>9, <1>10 DEF Next
-----------------------------------------------------------------------------
\* Whatever is set or deleted while the proxy starts and serves, each route
\* redacts the value it serves with of every key it names, and this value was
\* the key's at some time of the start.
THEOREM SnapshotIsKept == Spec => []SnapshotIsRedacted
<1>1. ProxyIInv => SnapshotIsRedacted
  <2> SUFFICES ASSUME ProxyIInv, NEW i \in DOMAIN routes,
                      NEW f \in DOMAIN server.config[i].templates,
                      NEW k \in Named(server.config[i].templates[f])
               PROVE  /\ <<k, server.values[k]>> \in server.seen
                      /\ server.values[k] \in routes[i].redacted \cup {<<>>}
    BY DEF SnapshotIsRedacted
  <2>1. server.state \in {"serving", "stopping"}
    BY DEF ProxyIInv, Compiles
  <2>2. /\ i \in DOMAIN server.config
        /\ routes[i] = Compiled(server.config[i], server.values)
    BY <2>1 DEF ProxyIInv, Compiles
  <2>3. k \in RouteKeys(server.config[i])
    BY DEF RouteKeys
  <2>4. k \in Referenced(server.config)
    BY <2>2, <2>3 DEF Referenced
  <2>5. <<k, server.values[k]>> \in server.seen
    BY <2>1, <2>4 DEF ProxyIInv, Compiles, Loaded
  <2>6. routes[i].redacted = Redacted(server.config[i], server.values)
    BY <2>2 DEF Compiled
  <2>7. server.values[k] \in routes[i].redacted \cup {<<>>}
    BY <2>3, <2>6 DEF Redacted
  <2> QED  BY <2>5, <2>7
<1> QED  BY <1>1, ProxyInitEstablishes, ProxyNextPreserves, PTL DEF Spec
-----------------------------------------------------------------------------
(* The request it serves *)

\* What a text of a configuration holds once it has been accepted.
Plain(config) ==
    \A i \in DOMAIN config : \A f \in DOMAIN config[i].templates :
        LET text == config[i].templates[f]
        IN  "open" \notin ToSet(text) /\ (f = "base" => ToSet(text) \cap Context = {})

\* The texts rendered for the request at hand, and what of it is scanned.
Sends == [f \in Given |-> Forwarded(routes[conn.route], conn.request, f)]
Scans == Scanned(routes[conn.route], conn.request)

ConnTypes ==
    conn \in [pc : {"idle", "body", "upstream", "response"}, request : {conn.request},
              route : {conn.route}, sent : {conn.sent}, status : {conn.status}]

ConfigKept == server.state # "down" => server.config \in Configs /\ Plain(server.config)

\* A request that a route has been found for keeps its route, and what was
\* sent or refused for it stays what its route and its client say.
ConnKept ==
    /\ server.state \in {"down", "starting"} => conn = NoConn
    /\ conn.pc # "idle" \/ conn.status = 500 =>
        conn.route \in DOMAIN routes /\ conn.request \in Requests
    /\ conn.pc = "body" => conn.status = 0
    /\ conn.pc \in {"upstream", "response"} =>
        conn.sent = Upstream(Sends) /\ ~Refused(Sends, Scans) /\ conn.status # 500
    /\ conn.status = 500 => Refused(Sends, Scans)

ConnIInv == ConnTypes /\ ConfigKept /\ ConnKept

\* Without a request there is nothing to keep.
LEMMA NoConnIsKept ==
    ASSUME conn = NoConn
    PROVE  ConnTypes /\ ConnKept
BY DEF NoConn, ConnTypes, ConnKept

\* Before the first request.
LEMMA ConnInitEstablishes == Init => ConnIInv
<1> SUFFICES ASSUME Init PROVE ConnIInv
  OBVIOUS
<1>1. ConfigKept
  BY DEF Init, ConfigKept, Down
<1> QED  BY <1>1, NoConnIsKept DEF Init, ConnIInv

\* While a request is served, its routes and the process go on as they are.
LEMMA ConnStutters ==
    ASSUME ConnIInv, UNCHANGED <<routes, conn>>, server'.config = server.config,
           server.state # "down",
           server'.state \in {"down", "starting"} => server.state \in {"down", "starting"}
    PROVE  ConnIInv'
<1>1. ConnTypes' /\ ConfigKept'
  BY DEF ConnIInv, ConnTypes, ConfigKept
<1>2. Sends' = Sends /\ Scans' = Scans
  BY DEF Sends, Scans, Forwarded, Rendered, RequestContext, Scanned
<1>3. ConnKept'
  BY <1>2 DEF ConnIInv, ConnKept
<1> QED  BY <1>1, <1>3 DEF ConnIInv

\* Nothing is served by a process that starts, and nothing is left of one that
\* ended.
LEMMA ConnIsFresh ==
    ASSUME conn' = NoConn, ConfigKept'
    PROVE  ConnIInv'
<1>1. ConnTypes' /\ ConnKept'
  BY DEF NoConn, ConnTypes, ConnKept
<1> QED  BY <1>1 DEF ConnIInv

\* The steps of the process, and of others.
LEMMA ServerStepKeepsConn ==
    ASSUME ProxyIInv, ConnIInv,
           \/ \E config \in Configs : Start(config)
           \/ \E k \in Keys : Load(k)
           \/ GiveUp \/ Serve \/ Stop \/ Exit \/ Kill \/ Other
    PROVE  ConnIInv'
<1>1. ASSUME NEW config \in Configs, Start(config) PROVE ConnIInv'
  <2>1. conn' = NoConn /\ server'.config = config
    BY <1>1 DEF Start, ConnIInv, ConnKept
  <2>2. Plain(config)
    BY <1>1 DEF Start, Accepted, Plain
  <2> QED  BY <2>1, <2>2, ConnIsFresh DEF ConfigKept
<1>2. ASSUME NEW k \in Keys, Load(k) PROVE ConnIInv'
  <2>1. /\ UNCHANGED <<routes, conn>> /\ server.state = "starting"
        /\ server' = [server EXCEPT !.values = [server.values EXCEPT ![k] = store[k]]]
    BY <1>2 DEF Load
  <2>2. server'.config = server.config /\ server'.state = server.state
    BY <2>1 DEF ProxyIInv, ProxyTypes
  <2> QED  BY <2>1, <2>2, ConnStutters
<1>3. CASE GiveUp
  <2>1. conn' = NoConn /\ server' = Down
    BY <1>3 DEF GiveUp, ConnIInv, ConnKept
  <2> QED  BY <2>1, ConnIsFresh DEF ConfigKept, Down
<1>4. CASE Serve
  <2>1. conn' = NoConn /\ server' = [server EXCEPT !.state = "serving"] /\ server.state = "starting"
    BY <1>4 DEF Serve, ConnIInv, ConnKept
  <2>2. server'.config = server.config
    BY <2>1 DEF ProxyIInv, ProxyTypes
  <2>3. ConfigKept'
    BY <2>1, <2>2 DEF ConnIInv, ConfigKept
  <2> QED  BY <2>1, <2>3, ConnIsFresh
<1>5. CASE Stop
  <2>1. /\ UNCHANGED <<routes, conn>> /\ server.state = "serving"
        /\ server' = [server EXCEPT !.state = "stopping"]
    BY <1>5 DEF Stop
  <2>2. server'.config = server.config /\ server'.state = "stopping"
    BY <2>1 DEF ProxyIInv, ProxyTypes
  <2> QED  BY <2>1, <2>2, ConnStutters
<1>6. CASE Exit \/ Kill
  <2>1. conn' = NoConn /\ server' = Down
    BY <1>6 DEF Exit, Kill
  <2> QED  BY <2>1, ConnIsFresh DEF ConfigKept, Down
<1>7. CASE Other
  <2>1. UNCHANGED <<routes, conn>> /\ server'.config = server.config /\ server'.state = server.state
    <3>1. CASE server.state = "starting"
      <4>1. server' = [server EXCEPT !.seen = server.seen \cup
                           {<<k, store'[k]>> : k \in {l \in Keys : store'[l] # NoValue}}]
        BY <1>7, <3>1 DEF Other
      <4> QED  BY <1>7, <4>1 DEF Other, ProxyIInv, ProxyTypes
    <3>2. CASE server.state # "starting"
      BY <1>7, <3>2 DEF Other
    <3> QED  BY <3>1, <3>2
  <2>2. CASE server.state = "down"
    <3>1. conn' = NoConn
      BY <2>1, <2>2 DEF ConnIInv, ConnKept
    <3> QED  BY <2>1, <2>2, <3>1, ConnIsFresh DEF ConfigKept
  <2>3. CASE server.state # "down"
    BY <2>1, <2>3, ConnStutters
  <2> QED  BY <2>2, <2>3
<1> QED  BY <1>1, <1>2, <1>3, <1>4, <1>5, <1>6, <1>7

\* A request gets the first route that its path has the prefix of.
LEMMA AcceptKeepsConn ==
    ASSUME ProxyIInv, ConnIInv, NEW request \in Requests, Accept(request)
    PROVE  ConnIInv'
<1> DEFINE matching == {i \in DOMAIN routes : MatchesPrefix(request.path, routes[i].prefix)}
<1>1. server.state = "serving" /\ UNCHANGED <<server, routes>>
  BY DEF Accept
<1>2. ConfigKept'
  BY <1>1 DEF ConnIInv, ConfigKept
<1>3. CASE matching = {}
  <2>1. conn' = [NoConn EXCEPT !.status = 404]
    BY <1>3 DEF Accept
  <2>2. ConnTypes' /\ ConnKept'
    BY <1>1, <2>1 DEF NoConn, ConnTypes, ConnKept
  <2> QED  BY <1>2, <2>2 DEF ConnIInv
<1>4. CASE matching # {}
  <2> DEFINE first == CHOOSE i \in matching : \A j \in matching : i <= j
  <2>1. conn' = [NoConn EXCEPT !.pc = "body", !.request = request, !.route = first]
    BY <1>4 DEF Accept
  <2>2. matching \subseteq Nat
    <3>1. DOMAIN routes = DOMAIN server.config /\ server.config \in Configs
      BY <1>1 DEF ProxyIInv, Compiles, ConnIInv, ConfigKept
    <3>2. DOMAIN server.config \subseteq Nat
      BY <3>1, ConfigsAssumption
    <3> QED  BY <3>1, <3>2
  <2>3. \E i \in matching : \A j \in matching : i <= j
    <3> HIDE DEF matching
    <3> QED  BY <1>4, <2>2, LeastNumber
  <2>4. first \in matching
    <3> HIDE DEF matching
    <3> QED  BY <2>3
  <2>5. first \in DOMAIN routes
    BY <2>4
  <2> HIDE DEF first, matching
  <2>6. conn' = [pc |-> "body", request |-> request, route |-> first, sent |-> NoText, status |-> 0]
    BY <2>1 DEF NoConn
  <2>7. ConnTypes' /\ ConnKept'
    BY <1>1, <2>5, <2>6 DEF ConnTypes, ConnKept
  <2> QED  BY <1>2, <2>7 DEF ConnIInv
<1> QED  BY <1>3, <1>4

\* The steps of a request that has a route.
LEMMA RequestStepKeepsConn ==
    ASSUME ConnIInv, RefuseBody \/ Forward \/ Respond \/ Fail \/ Finish
    PROVE  ConnIInv'
<1>1. UNCHANGED <<server, routes>> /\ conn.pc # "idle"
  BY DEF RefuseBody, Forward, Respond, Fail, Finish
<1>2. ConfigKept'
  BY <1>1 DEF ConnIInv, ConfigKept
<1>3. /\ server.state \notin {"down", "starting"}
      /\ conn.route \in DOMAIN routes /\ conn.request \in Requests
  BY <1>1 DEF ConnIInv, ConnKept, NoConn
<1>4. ASSUME conn'.request = conn.request, conn'.route = conn.route
      PROVE  Sends' = Sends /\ Scans' = Scans
  BY <1>1, <1>4 DEF Sends, Scans, Forwarded, Rendered, RequestContext, Scanned
<1>5. ASSUME NEW status \in {400, 413, 500, 502, 504}, Answered(status),
             status = 500 => Refused(Sends, Scans)
      PROVE  ConnIInv'
  <2>1. /\ conn' \in [pc : {"idle"}, request : {conn'.request},
                      route : {conn'.route}, sent : {conn'.sent}, status : {conn'.status}]
        /\ conn'.pc = "idle" /\ conn'.request = conn.request /\ conn'.route = conn.route
        /\ conn'.status = status
    BY <1>5 DEF Answered, ConnIInv, ConnTypes
  <2>2. ConnTypes'
    BY <2>1 DEF ConnTypes
  <2>3. ConnKept'
    BY <1>1, <1>3, <1>4, <1>5, <2>1 DEF ConnKept
  <2> QED  BY <1>2, <2>2, <2>3 DEF ConnIInv
<1>6. CASE RefuseBody \/ Fail
  <2>1. PICK status \in {400, 413, 502, 504} : Answered(status)
    BY <1>6 DEF RefuseBody, Fail
  <2> QED  BY <1>5, <2>1
<1>7. CASE Forward
  <2>1. IF Refused(Sends, Scans) THEN Answered(500)
        ELSE conn' = [conn EXCEPT !.pc = "upstream", !.sent = Upstream(Sends)]
    BY <1>7 DEF Forward, Sends, Scans
  <2>2. CASE Refused(Sends, Scans)
    BY <1>5, <2>1, <2>2
  <2>3. CASE ~Refused(Sends, Scans)
    <3> DEFINE sends == Upstream(Sends)
    <3>1. conn' = [conn EXCEPT !.pc = "upstream", !.sent = sends] /\ conn.status = 0
      BY <1>7, <2>1, <2>3 DEF Forward, ConnIInv, ConnKept
    <3> HIDE DEF sends
    <3>2. /\ conn'.pc = "upstream" /\ conn'.request = conn.request /\ conn'.route = conn.route
          /\ conn'.sent = sends /\ conn'.status = 0 /\ ConnTypes'
      BY <3>1 DEF ConnIInv, ConnTypes
    <3>3. conn'.sent = Upstream(Sends)'
      BY <1>4, <3>2 DEF sends
    <3>4. ConnKept'
      BY <1>1, <1>3, <1>4, <2>3, <3>2, <3>3 DEF ConnKept
    <3> QED  BY <1>2, <3>2, <3>4 DEF ConnIInv
  <2> QED  BY <2>2, <2>3
<1>8. CASE Respond
  <2>1. conn.pc = "upstream" /\ conn' = [conn EXCEPT !.pc = "response", !.status = 200]
    BY <1>8 DEF Respond
  <2>2. /\ conn'.pc = "response" /\ conn'.request = conn.request /\ conn'.route = conn.route
        /\ conn'.sent = conn.sent /\ conn'.status = 200 /\ ConnTypes'
    BY <2>1 DEF ConnIInv, ConnTypes
  <2>3. ConnKept'
    BY <1>1, <1>3, <1>4, <2>1, <2>2 DEF ConnIInv, ConnKept
  <2> QED  BY <1>2, <2>2, <2>3 DEF ConnIInv
<1>9. CASE Finish
  BY <1>2, <1>9, ConnIsFresh DEF Finish
<1> QED  BY <1>6, <1>7, <1>8, <1>9

\* Every step preserves the invariant of the request.
LEMMA ConnNextPreserves == ProxyIInv /\ ConnIInv /\ [Next]_vars => ConnIInv'
<1> SUFFICES ASSUME ProxyIInv, ConnIInv, [Next]_vars PROVE ConnIInv'
  OBVIOUS
<1>1. CASE UNCHANGED vars
  <2>1. Sends' = Sends /\ Scans' = Scans
    BY <1>1 DEF vars, Sends, Scans, Forwarded, Rendered, RequestContext, Scanned
  <2> QED  BY <1>1, <2>1 DEF vars, ConnIInv, ConnTypes, ConfigKept, ConnKept
<1>2. ASSUME NEW request \in Requests, Accept(request) PROVE ConnIInv'
  BY <1>2, AcceptKeepsConn
<1>3. CASE Next
  BY <1>2, <1>3, ServerStepKeepsConn, RequestStepKeepsConn DEF Next
<1> QED  BY <1>1, <1>3
-----------------------------------------------------------------------------
\* What is known of the route a request is served by, and of the context it
\* is rendered with.
LEMMA Serving ==
    ASSUME ProxyIInv, ConnIInv, conn.pc # "idle" \/ conn.status = 500
    PROVE  LET route == Configured
               context == RequestContext(routes[conn.route].prefix, conn.request)
           IN  /\ routes[conn.route] = Compiled(route, server.values)
               /\ DOMAIN Templates(route) \subseteq Given
               /\ {"base", "path"} \subseteq DOMAIN Templates(route)
               /\ \A f \in DOMAIN Templates(route) :
                      /\ Templates(route)[f] \in Seq(Tokens)
                      /\ "open" \notin ToSet(Templates(route)[f])
                      /\ f = "base" => ToSet(Templates(route)[f]) \cap Context = {}
                      /\ \A k \in Named(Templates(route)[f]) :
                             k \in RouteKeys(route) /\ server.values[k] \in Seq(Tokens)
               /\ \A a \in Context \ {"body"} : context[a] \in Seq(Tokens)
               /\ context["body"] = conn.request.body
               /\ context = RequestContext(NormalPrefix(route.prefix), conn.request)
               /\ conn.request.body \in Seq(Tokens) \cup {Binary}
               /\ \A f \in {"method", "path", "query", "header"} : conn.request[f] \in Seq(Tokens)
<1> DEFINE route == Configured
           context == RequestContext(routes[conn.route].prefix, conn.request)
<1>1. conn.route \in DOMAIN routes /\ conn.request \in Requests
  BY DEF ConnIInv, ConnKept
<1>2. server.state \in {"serving", "stopping"}
  BY <1>1 DEF ProxyIInv, Compiles
<1>3. /\ conn.route \in DOMAIN server.config
      /\ routes[conn.route] = Compiled(route, server.values)
      /\ \A k \in Referenced(server.config) : server.values[k] # NoValue
      /\ server.config \in Configs /\ Plain(server.config)
  BY <1>1, <1>2 DEF ProxyIInv, Compiles, ConnIInv, ConfigKept, Configured
<1>4. /\ route.prefix \in Seq(Tokens)
      /\ DOMAIN route.templates \subseteq Given /\ "base" \in DOMAIN route.templates
      /\ \A f \in DOMAIN route.templates : route.templates[f] \in Seq(Tokens)
  BY <1>3, ConfigsAssumption DEF Configured
<1>5. /\ conn.request.body \in Seq(Tokens) \cup {Binary}
      /\ \A f \in {"method", "path", "query", "header"} : conn.request[f] \in Seq(Tokens)
  BY <1>1, RequestsAssumption
<1>6. \A f \in DOMAIN route.templates :
          /\ "open" \notin ToSet(route.templates[f])
          /\ f = "base" => ToSet(route.templates[f]) \cap Context = {}
  BY <1>3 DEF Plain, Configured
<1>7. \A k \in RouteKeys(route) : server.values[k] \in Seq(Tokens)
  <2> SUFFICES ASSUME NEW k \in RouteKeys(route) PROVE server.values[k] \in Seq(Tokens)
    OBVIOUS
  <2>1. k \in Referenced(server.config)
    BY <1>3 DEF Referenced, Configured
  <2>2. k \in Keys /\ server.values[k] # NoValue
    BY <1>3, <2>1 DEF ProxyIInv, Loaded
  <2>3. server.values[k] \in Values
    BY <2>2 DEF ProxyIInv, ProxyTypes
  <2> QED  BY <2>3, TextsAssumption
<1>8. \A f \in DOMAIN route.templates : \A k \in Named(route.templates[f]) : k \in RouteKeys(route)
  BY DEF RouteKeys
<1>9. /\ DOMAIN Templates(route) \subseteq Given /\ {"base", "path"} \subseteq DOMAIN Templates(route)
      /\ \A f \in DOMAIN Templates(route) :
             \/ f \in DOMAIN route.templates /\ Templates(route)[f] = route.templates[f]
             \/ f = "path" /\ Templates(route)[f] = <<"tail">>
  BY <1>4 DEF Templates, Given
<1>10. ASSUME NEW f \in DOMAIN Templates(route)
       PROVE  /\ Templates(route)[f] \in Seq(Tokens)
              /\ "open" \notin ToSet(Templates(route)[f])
              /\ f = "base" => ToSet(Templates(route)[f]) \cap Context = {}
              /\ \A k \in Named(Templates(route)[f]) :
                     k \in RouteKeys(route) /\ server.values[k] \in Seq(Tokens)
  <2>1. CASE f \in DOMAIN route.templates /\ Templates(route)[f] = route.templates[f]
    BY <1>4, <1>6, <1>7, <1>8, <2>1
  <2>2. CASE f = "path" /\ Templates(route)[f] = <<"tail">>
    <3> DEFINE text == <<"tail">>
    <3>1. text \in Seq(Tokens)
      BY TextsAssumption DEF Context
    <3>2. "open" \notin ToSet(text)
      BY OneElement
    <3>3. Named(text) = {}
      BY DEF Named, Starts
    <3> QED  BY <2>2, <3>1, <3>2, <3>3
  <2> QED  BY <1>9, <2>1, <2>2
<1>11. routes[conn.route].prefix = NormalPrefix(route.prefix)
  BY <1>3 DEF Compiled
<1>12. PathTail(conn.request.path, NormalPrefix(route.prefix)) \in Seq(Tokens)
  BY <1>4, <1>5, PrefixType, TailType
<1>13. /\ \A a \in Context \ {"body"} : context[a] \in Seq(Tokens)
       /\ context["body"] = conn.request.body
       /\ context = RequestContext(NormalPrefix(route.prefix), conn.request)
  <2>1. context = RequestContext(NormalPrefix(route.prefix), conn.request)
    BY <1>11
  <2> HIDE DEF route, context
  <2>2. /\ context.method = conn.request.method /\ context.path = conn.request.path
        /\ context.query = conn.request.query /\ context.header = conn.request.header
        /\ context.body = conn.request.body /\ context.tail \in Seq(Tokens)
    BY <1>12, <2>1 DEF RequestContext
  <2> QED  BY <1>5, <2>1, <2>2 DEF Context
<1> QED  BY <1>3, <1>5, <1>9, <1>10, <1>13

\* What is rendered for one template, if no secret looks like a template; the
\* reasons for which it is not.
LEMMA RenderedOnce ==
    ASSUME ProxyIInv, ConnIInv, conn.pc # "idle" \/ conn.status = 500,
           \A k \in RouteKeys(Configured) : ~Bracketed(server.values[k]),
           NEW f \in DOMAIN Templates(Configured)
    PROVE  IF Sends[f] = NoText
           THEN conn.request.body = Binary /\ "body" \in ToSet(Templates(Configured)[f])
           ELSE Sends[f] = AtOnce(Configured, f)
<1> DEFINE route == Configured
           text == Templates(route)[f]
           values == server.values
           context == RequestContext(routes[conn.route].prefix, conn.request)
<1>1. /\ routes[conn.route] = Compiled(route, values)
      /\ f \in Given /\ text \in Seq(Tokens) /\ "open" \notin ToSet(text)
      /\ f = "base" => ToSet(text) \cap Context = {}
      /\ \A k \in Named(text) : k \in RouteKeys(route) /\ values[k] \in Seq(Tokens)
      /\ \A a \in Context \ {"body"} : context[a] \in Seq(Tokens)
      /\ context["body"] = conn.request.body
      /\ context = RequestContext(NormalPrefix(route.prefix), conn.request)
      /\ conn.request.body \in Seq(Tokens) \cup {Binary}
  BY Serving
<1>2. routes[conn.route].templates[f] = Replace(text, values) /\ f \in DOMAIN routes[conn.route].templates
  BY <1>1 DEF Compiled
<1>3. Sends[f] = IF f = "base" THEN Replace(text, values) ELSE Render(Replace(text, values), context)
  BY <1>1, <1>2 DEF Sends, Forwarded, Rendered
<1>4. AtOnce(route, f) = Once(text, values, context)
  BY <1>1 DEF AtOnce, Once
<1>5. Replace(text, values) \in Seq(Tokens)
  BY <1>1, PartsType
<1>6. CASE f = "base"
  <2>1. Sends[f] = Once(text, values, context)
    BY <1>1, <1>3, <1>6, PlainIsOnce
  <2>2. Sends[f] # NoText
    BY <1>3, <1>5, <1>6, TextsAssumption
  <2> QED  BY <1>4, <2>1, <2>2
<1>7. CASE f # "base"
  <2>1. Sends[f] = Render(Replace(text, values), context)
    BY <1>3, <1>7
  <2>2. \A k \in Named(text) :
            /\ values[k] \in Seq(Tokens) /\ ToSet(values[k]) \cap Context = {}
            /\ "open" \notin ToSet(values[k])
    BY <1>1 DEF Bracketed
  <2>3. \A a \in Context : context[a] \in Seq(Tokens) \cup {Binary}
    BY <1>1
  <2>4. CASE Sends[f] # NoText
    <3> HIDE DEF text, values, context
    <3>1. Render(Replace(text, values), context) = Once(text, values, context)
      BY <1>1, <2>1, <2>2, <2>3, <2>4, PassesAreOne
    <3> QED  BY <1>4, <2>1, <2>4, <3>1 DEF text, values, context
  <2>5. CASE Sends[f] = NoText
    <3> HIDE DEF text, values, context
    <3>1. PICK a \in ToSet(Replace(text, values)) :
                   a = "open" \/ (a \in Context /\ context[a] = Binary)
      <4> DEFINE r == Replace(text, values)
      <4>1. r \in Seq(Tokens) /\ Render(r, context) = NoText
        BY <1>5, <2>1, <2>5
      <4> HIDE DEF r
      <4>2. \E b \in ToSet(r) : b = "open" \/ (b \in Context /\ context[b] = Binary)
        BY <2>3, <4>1, Renders
      <4> QED  BY <4>2 DEF r
    <3>2. a \in ToSet(text)
      BY <1>1, <2>2, <3>1, TokensOfReplaced
    <3>3. a = "body" /\ conn.request.body = Binary
      BY <1>1, <3>1, <3>2, TextsAssumption
    <3> QED  BY <2>5, <3>2, <3>3 DEF text
  <2> QED  BY <2>4, <2>5
<1> QED  BY <1>6, <1>7

\* What is passed on where there is no template.
LEMMA PassedOn ==
    ASSUME ProxyIInv, ConnIInv, conn.pc # "idle" \/ conn.status = 500,
           NEW f \in Given, f \notin DOMAIN Templates(Configured)
    PROVE  /\ Sends[f] = IF f \in {"method", "body"} \/ (f = "query" /\ Configured.passQuery)
                         THEN conn.request[f] ELSE <<>>
           /\ Sends[f] # NoText
<1>1. /\ routes[conn.route] = Compiled(Configured, server.values)
      /\ {"base", "path"} \subseteq DOMAIN Templates(Configured)
      /\ conn.request.body \in Seq(Tokens) \cup {Binary}
      /\ \A g \in {"method", "path", "query", "header"} : conn.request[g] \in Seq(Tokens)
  BY Serving
<1>2. /\ f \notin DOMAIN routes[conn.route].templates /\ f # "base"
      /\ routes[conn.route].passQuery = Configured.passQuery
  BY <1>1 DEF Compiled
<1>3. Sends[f] = IF f \in {"method", "body"} \/ (f = "query" /\ Configured.passQuery)
                 THEN conn.request[f] ELSE <<>>
  BY <1>2 DEF Sends, Forwarded, Rendered, RequestContext
<1>4. <<>> \in Seq(Tokens)
  OBVIOUS
<1>5. Sends[f] # NoText
  <2>1. Sends[f] \in Seq(Tokens) \cup {Binary}
    <3>1. CASE f = "body"
      BY <1>1, <1>3, <3>1
    <3>2. CASE f # "body"
      BY <1>1, <1>3, <1>4, <3>2
    <3> QED  BY <3>1, <3>2
  <2> QED  BY <2>1, TextsAssumption
<1> QED  BY <1>3, <1>5

\* If every text is rendered, the texts are those the configuration means.
LEMMA SendsMeant ==
    ASSUME ProxyIInv, ConnIInv, conn.pc # "idle" \/ conn.status = 500,
           \A k \in RouteKeys(Configured) : ~Bracketed(server.values[k]),
           \A f \in Given : Sends[f] # NoText
    PROVE  Sends = Meant
<1>1. ASSUME NEW f \in Given PROVE Sends[f] = Meant[f]
  <2>1. CASE f \in DOMAIN Templates(Configured)
    BY <2>1, RenderedOnce DEF Meant
  <2>2. CASE f \notin DOMAIN Templates(Configured)
    BY <2>2, PassedOn DEF Meant
  <2> QED  BY <2>1, <2>2
<1>2. Sends = [f \in Given |-> Sends[f]] /\ Meant = [f \in Given |-> Meant[f]]
  BY DEF Sends, Meant
<1> QED  BY <1>1, <1>2

\* For templates, secrets and requests of any length: what goes upstream is the
\* template with the secrets and what the client sent put in at once, unless a
\* secret of the route looks like a placeholder; nothing a client sends is
\* taken for the name of a secret.
THEOREM TemplatesAreKept == Spec => []SentIsTheTemplate
<1>1. ProxyIInv /\ ConnIInv => SentIsTheTemplate
  <2> SUFFICES ASSUME ProxyIInv, ConnIInv, Forwarding,
                      \A k \in RouteKeys(Configured) : ~Bracketed(server.values[k])
               PROVE  conn.sent = Upstream(Meant)
    BY DEF SentIsTheTemplate
  <2>1. conn.pc # "idle" /\ conn.sent = Upstream(Sends) /\ ~Refused(Sends, Scans)
    BY DEF Forwarding, ConnIInv, ConnKept
  <2>2. \A f \in Given : Sends[f] # NoText
    BY <2>1 DEF Refused
  <2>3. Sends = Meant
    BY <2>1, <2>2, SendsMeant
  <2> QED  BY <2>1, <2>3
<1>2. Init => ProxyIInv /\ ConnIInv
  BY ProxyInitEstablishes, ConnInitEstablishes
<1>3. ProxyIInv /\ ConnIInv /\ [Next]_vars => (ProxyIInv /\ ConnIInv)'
  BY ProxyNextPreserves, ConnNextPreserves
<1> QED  BY <1>1, <1>2, <1>3, PTL DEF Spec

\* A request that has been read is refused only for a body that is no text, a
\* secret that looks like a placeholder, a method or a base URL that comes out
\* as none, or something in the URL, a header or the body of a template that
\* looks like the name of a secret: whatever Url::parse accepts and makes of a
\* text, and whatever a method may consist of.
THEOREM RefusalsHaveReasons == Spec => []RefusedForAReason
<1>1. ProxyIInv /\ ConnIInv => RefusedForAReason
  <2> SUFFICES ASSUME ProxyIInv, ConnIInv, conn.status = 500,
                      \A k \in RouteKeys(Configured) : ~Bracketed(server.values[k])
               PROVE  \/ /\ conn.request.body = Binary
                         /\ \E f \in DOMAIN Templates(Configured) :
                                "body" \in ToSet(Templates(Configured)[f])
                      \/ ~IsMethod(Meant.method) \/ ~ParsesAsUrl(Meant.base)
                      \/ \E part \in {"url", "header"} : Starts(Upstream(Meant)[part]) # {}
                      \/ "body" \in DOMAIN Templates(Configured) /\ Starts(Meant.body) # {}
    BY DEF RefusedForAReason
  <2>1. Refused(Sends, Scans)
    BY DEF ConnIInv, ConnKept
  <2>2. CASE \E f \in Given : Sends[f] = NoText
    <3>1. PICK f \in Given : Sends[f] = NoText
      BY <2>2
    <3>2. f \in DOMAIN Templates(Configured)
      BY <3>1, PassedOn
    <3> QED  BY <3>1, <3>2, RenderedOnce
  <2>3. CASE ~\E f \in Given : Sends[f] = NoText
    <3>1. Sends = Meant
      BY <2>3, SendsMeant
    <3>2. \/ ~IsMethod(Meant.method) \/ ~ParsesAsUrl(Meant.base)
          \/ \E part \in Scans : Starts(Upstream(Meant)[part]) # {}
      BY <2>1, <2>3, <3>1 DEF Refused
    <3>3. "body" \in Scans => "body" \in DOMAIN Templates(Configured)
      <4>1. routes[conn.route] = Compiled(Configured, server.values)
        BY Serving
      <4> QED  BY <4>1 DEF Compiled, Scans, Scanned
    <3>4. Scans \subseteq {"url", "header", "body"}
      BY DEF Scans, Scanned
    <3>5. Upstream(Meant)["body"] = Meant.body
      BY DEF Upstream
    <3> QED  BY <3>2, <3>3, <3>4, <3>5
  <2> QED  BY <2>2, <2>3
<1>2. Init => ProxyIInv /\ ConnIInv
  BY ProxyInitEstablishes, ConnInitEstablishes
<1>3. ProxyIInv /\ ConnIInv /\ [Next]_vars => (ProxyIInv /\ ConnIInv)'
  BY ProxyNextPreserves, ConnNextPreserves
<1> QED  BY <1>1, <1>2, <1>3, PTL DEF Spec
=============================================================================
