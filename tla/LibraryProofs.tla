--------------------------- MODULE LibraryProofs ---------------------------
(***************************************************************************)
(* Proofs about Library: what the library reports is what it has done or   *)
(* seen. Its modules share no state; each has a section.                   *)
(***************************************************************************)
EXTENDS Library, SequenceTheorems, FiniteSetTheorems, TLAPS

-----------------------------------------------------------------------------
(* Numbers, lists and finite sets. Induction is derived from an order that *)
(* is well founded, and recursive functions from induction.                *)

(* Natural numbers are well ordered: of a set of them, take the initial    *)
(* segments, and of these one that contains no other.                      *)
LEMMA LeastNumber ==
    ASSUME NEW T \in SUBSET Nat, T # {}
    PROVE  \E n \in T : \A m \in T : n <= m
<1> DEFINE U == {1 .. n : n \in T}
           R == StrictSubsetOrdering(Nat)
           F == FiniteSubsetsOf(Nat)
<1>1. IsWellFoundedOn(R, F)
      BY FS_StrictSubsetOrderingWellFounded
<1>2. U \subseteq F
      <2> SUFFICES ASSUME NEW n \in T PROVE 1 .. n \in F
          OBVIOUS
      <2>1. IsFiniteSet(1 .. n)
            BY FS_Interval
      <2> QED BY <2>1 DEF FiniteSubsetsOf
<1>3. U # {}
      OBVIOUS
<1> HIDE DEF U, R, F
<1>4. PICK x \in U : \A y \in U : ~(<<y, x>> \in R)
      BY <1>1, <1>2, <1>3, WFMin
<1>5. PICK n \in T : x = 1 .. n
      BY DEF U
<1>6. ASSUME NEW m \in T, ~(n <= m) PROVE FALSE
      <2>1. n \in Nat /\ m \in Nat /\ m < n
            BY <1>6
      <2>2. 1 .. m \subseteq 1 .. n /\ n \in 1 .. n /\ n \notin 1 .. m
            BY <2>1
      <2>3. 1 .. m \in SUBSET Nat /\ 1 .. n \in SUBSET Nat
            BY <2>1
      <2>4. <<1 .. m, 1 .. n>> \in R
            BY <2>2, <2>3 DEF R, StrictSubsetOrdering
      <2>5. 1 .. m \in U
            BY DEF U
      <2> QED BY <1>4, <1>5, <2>4, <2>5
<1> QED BY <1>6

(* Induction, for a set of numbers in place of a predicate.                *)
LEMMA Induction ==
    ASSUME NEW P \in SUBSET Nat, 0 \in P, \A n \in P : n + 1 \in P
    PROVE  P = Nat
<1> SUFFICES ASSUME P # Nat PROVE FALSE
    OBVIOUS
<1>1. PICK n \in Nat \ P : \A m \in Nat \ P : n <= m
      <2>1. Nat \ P \in SUBSET Nat /\ Nat \ P # {}
            OBVIOUS
      <2> QED BY <2>1, LeastNumber
<1>2. n # 0 /\ n - 1 \in Nat /\ n - 1 \in P
      BY <1>1
<1> QED BY <1>1, <1>2

LEMMA MinIs ==
    ASSUME NEW T \in SUBSET Nat, T # {}
    PROVE  Min(T) \in T /\ \A m \in T : Min(T) <= m
BY LeastNumber DEF Min

LEMMA MaxOf ==
    ASSUME NEW T \in SUBSET Nat, NEW m \in T, \A k \in T : k <= m
    PROVE  Max(T) = m
<1>1. \E x \in T : \A y \in T : x >= y
      OBVIOUS
<1>2. Max(T) \in T /\ \A y \in T : Max(T) >= y
      BY <1>1 DEF Max
<1>3. Max(T) \in Nat /\ m \in Nat /\ Max(T) >= m /\ Max(T) <= m
      BY <1>2
<1> QED BY <1>3

(* A set of numbers that has every smaller one with each is an interval.   *)
LEMMA Prefix ==
    ASSUME NEW n \in Nat, NEW T \in SUBSET (1 .. n),
           \A i \in T : 1 .. i \subseteq T
    PROVE  \E k \in 0 .. n : T = 1 .. k
<1>1. CASE T = 1 .. n
      BY <1>1
<1>2. CASE T # 1 .. n
      <2>1. PICK m \in (1 .. n) \ T : \A j \in (1 .. n) \ T : m <= j
            <3>1. PICK i \in 1 .. n : i \notin T
                  BY <1>2
            <3>2. (1 .. n) \ T \in SUBSET Nat /\ (1 .. n) \ T # {}
                  BY <3>1
            <3> QED BY <3>2, LeastNumber
      <2>2. \A i \in T : i < m
            BY <2>1
      <2>3. \A j \in 1 .. n : j < m => j \in T
            BY <2>1
      <2>4. m \in 1 .. n /\ m - 1 \in 0 .. n
            BY <2>1
      <2>5. T \subseteq 1 .. (m - 1)
            BY <2>2, <2>4
      <2>6. 1 .. (m - 1) \subseteq T
            <3> SUFFICES ASSUME NEW j \in 1 .. (m - 1) PROVE j \in T
                OBVIOUS
            <3>1. j \in 1 .. n /\ j < m
                  BY <2>4
            <3> QED BY <2>3, <3>1
      <2> QED BY <2>4, <2>5, <2>6
<1> QED BY <1>1, <1>2

Follows(h, base, g) ==
    h[0] = base /\ \A n \in Nat : h[n + 1] = g[<<n, h[n]>>]
(* A function is defined by recursion over the natural numbers: from what  *)
(* its recursion does to a number and a value, given as a function itself. *)
LEMMA Recursion ==
    ASSUME NEW V, NEW base \in V, NEW g \in [Nat \X V -> V]
    PROVE  \E h \in [Nat -> V] : Follows(h, base, g)
<1> DEFINE Upto(n) == {f \in [0 .. n -> V] :
                          /\ f[0] = base
                          /\ \A k \in 0 .. (n - 1) : f[k + 1] = g[<<k, f[k]>>]}
<1>1. \A n \in Nat : Upto(n) # {}
      <2> DEFINE P == {n \in Nat : Upto(n) # {}}
      <2>1. 0 \in P
            <3>1. [k \in 0 .. 0 |-> base] \in Upto(0)
                  OBVIOUS
            <3> QED BY <3>1
      <2>2. ASSUME NEW n \in P PROVE n + 1 \in P
            <3>1. PICK f \in Upto(n) : TRUE
                  OBVIOUS
            <3> DEFINE e == [k \in 0 .. (n + 1) |->
                                IF k = n + 1 THEN g[<<n, f[n]>>] ELSE f[k]]
            <3>2. f \in [0 .. n -> V] /\ n \in Nat /\ f[n] \in V
                  BY <3>1
            <3>3. e \in [0 .. (n + 1) -> V]
                  BY <3>2
            <3>4. e[0] = base
                  BY <3>1, <3>2
            <3>5. ASSUME NEW k \in 0 .. n PROVE e[k + 1] = g[<<k, e[k]>>]
                  <4>1. CASE k = n
                        <5>1. e[n + 1] = g[<<n, f[n]>>]
                              BY <3>2
                        <5>2. e[n] = f[n]
                              BY <3>2
                        <5> HIDE DEF e
                        <5> QED BY <4>1, <5>1, <5>2
                  <4>2. CASE k # n
                        <5>1. k \in 0 .. (n - 1) /\ k + 1 \in 0 .. n /\ k \in 0 .. n
                              BY <3>2, <4>2
                        <5>2. e[k + 1] = f[k + 1] /\ e[k] = f[k]
                              BY <3>2, <4>2, <5>1
                        <5>3. f[k + 1] = g[<<k, f[k]>>]
                              BY <3>1, <5>1
                        <5> QED BY <5>2, <5>3
                  <4> QED BY <4>1, <4>2
            <3> HIDE DEF e
            <3>6. (n + 1) - 1 = n
                  BY <3>2
            <3>7. e \in Upto(n + 1)
                  BY <3>3, <3>4, <3>5, <3>6
            <3> HIDE DEF Upto
            <3> QED BY <3>2, <3>7
      <2> HIDE DEF P
      <2>3. P = Nat
            <3>1. P \in SUBSET Nat
                  BY DEF P
            <3> QED BY <2>1, <2>2, <3>1, Induction
      <2> QED BY <2>3 DEF P
<1>2. ASSUME NEW m \in Nat, NEW n \in Nat, NEW f \in Upto(m), NEW e \in Upto(n)
      PROVE  \A k \in Nat : k <= m /\ k <= n => f[k] = e[k]
      <2> DEFINE P == {k \in Nat : k <= m /\ k <= n => f[k] = e[k]}
      <2>1. 0 \in P
            OBVIOUS
      <2>2. ASSUME NEW k \in P PROVE k + 1 \in P
            <3> SUFFICES ASSUME k + 1 <= m, k + 1 <= n
                         PROVE  f[k + 1] = e[k + 1]
                OBVIOUS
            <3>1. k \in 0 .. (m - 1) /\ k \in 0 .. (n - 1) /\ f[k] = e[k]
                  OBVIOUS
            <3>2. f[k + 1] = g[<<k, f[k]>>] /\ e[k + 1] = g[<<k, e[k]>>]
                  BY <3>1
            <3> QED BY <3>1, <3>2
      <2> HIDE DEF P
      <2>3. P = Nat
            <3>1. P \in SUBSET Nat
                  BY DEF P
            <3> QED BY <2>1, <2>2, <3>1, Induction
      <2> QED BY <2>3 DEF P
<1> DEFINE F == [n \in Nat |-> CHOOSE f \in Upto(n) : TRUE]
           h == [n \in Nat |-> F[n][n]]
<1>3. \A n \in Nat : F[n] \in Upto(n)
      BY <1>1
<1>4. h \in [Nat -> V] /\ h[0] = base
      <2>1. ASSUME NEW n \in Nat PROVE h[n] \in V
            <3>1. F[n] \in [0 .. n -> V] /\ n \in 0 .. n
                  <4> HIDE DEF F
                  <4>1. F[n] \in Upto(n)
                        BY <1>3
                  <4> QED BY <4>1
            <3> HIDE DEF F
            <3>2. F[n][n] \in V
                  BY <3>1
            <3> QED BY <3>2
      <2>2. F[0][0] = base
            <3> HIDE DEF F
            <3>1. F[0] \in Upto(0)
                  BY <1>3
            <3> QED BY <3>1
      <2> QED BY <2>1, <2>2
<1>5. ASSUME NEW n \in Nat PROVE h[n + 1] = g[<<n, h[n]>>]
      <2>1. n + 1 \in Nat /\ n \in 0 .. ((n + 1) - 1) /\ n <= n + 1 /\ n <= n
            OBVIOUS
      <2>2. F[n + 1][n + 1] = g[<<n, F[n + 1][n]>>]
            BY <1>3, <2>1
      <2>3. F[n] \in Upto(n) /\ F[n + 1] \in Upto(n + 1)
            BY <1>3, <2>1
      <2> HIDE DEF Upto, F
      <2>4. F[n + 1][n] = F[n][n]
            BY <1>2, <2>1, <2>3
      <2> QED BY <2>1, <2>2, <2>4
<1> QED BY <1>4, <1>5 DEF Follows

LEMMA ConcatIs ==
    ASSUME NEW S, NEW s \in Seq(S), NEW t \in Seq(S)
    PROVE  /\ s \o t \in Seq(S) /\ Len(s \o t) = Len(s) + Len(t)
           /\ Len(s) \in Nat /\ Len(t) \in Nat
           /\ DOMAIN s = 1 .. Len(s) /\ DOMAIN t = 1 .. Len(t)
           /\ DOMAIN (s \o t) = 1 .. (Len(s) + Len(t))
           /\ \A i \in 1 .. (Len(s) + Len(t)) :
                 (s \o t)[i] = IF i <= Len(s) THEN s[i] ELSE t[i - Len(s)]
<1>1. s \o t \in Seq(S) /\ Len(s \o t) = Len(s) + Len(t)
      BY ConcatProperties
<1>2. Len(s) \in Nat /\ Len(t) \in Nat
      BY LenProperties
<1>3. DOMAIN s = 1 .. Len(s) /\ DOMAIN t = 1 .. Len(t)
      BY LenProperties
<1>4. DOMAIN (s \o t) = 1 .. (Len(s) + Len(t))
      BY <1>1, LenProperties
<1>5. \A i \in 1 .. (Len(s) + Len(t)) :
         (s \o t)[i] = IF i <= Len(s) THEN s[i] ELSE t[i - Len(s)]
      BY ConcatProperties
<1> QED BY <1>1, <1>2, <1>3, <1>4, <1>5

(* Lists appended one after the other, the first k of them for each k.     *)
Appended(F, ss) ==
    /\ F[0] = <<>>
    /\ \A k \in 0 .. (Len(ss) - 1) : F[k + 1] = F[k] \o ss[k + 1]

LEMMA FlattenIs ==
    ASSUME NEW S, NEW ss \in Seq(Seq(S))
    PROVE  \E F \in [0 .. Len(ss) -> Seq(S)] :
              Appended(F, ss) /\ F[Len(ss)] = FlattenSeq(ss)
<1> DEFINE n == Len(ss)
           g == [p \in Nat \X Seq(S) |->
                    IF p[1] + 1 \in 1 .. n THEN p[2] \o ss[p[1] + 1] ELSE p[2]]
<1>1. n \in Nat /\ DOMAIN ss = 1 .. n /\ \A i \in 1 .. n : ss[i] \in Seq(S)
      BY LenProperties, ElementOfSeq
<1>2. g \in [Nat \X Seq(S) -> Seq(S)]
      <2> SUFFICES ASSUME NEW i \in Nat, NEW s \in Seq(S)
                   PROVE  g[<<i, s>>] \in Seq(S)
          OBVIOUS
      <2>1. CASE i + 1 \in 1 .. n
            <3>1. ss[i + 1] \in Seq(S)
                  BY <1>1, <2>1
            <3>2. s \o ss[i + 1] \in Seq(S)
                  BY <3>1, ConcatProperties
            <3> QED BY <2>1, <3>2
      <2>2. CASE i + 1 \notin 1 .. n
            BY <2>2
      <2> QED BY <2>1, <2>2
<1>3. <<>> \in Seq(S)
      OBVIOUS
<1> HIDE DEF g
<1>4. PICK h \in [Nat -> Seq(S)] :
         h[0] = <<>> /\ \A k \in Nat : h[k + 1] = g[<<k, h[k]>>]
      <2>1. \E h \in [Nat -> Seq(S)] : Follows(h, <<>>, g)
            BY <1>2, <1>3, Recursion
      <2> QED BY <2>1 DEF Follows
<1>5. \A k \in 0 .. (n - 1) : h[k + 1] = h[k] \o ss[k + 1]
      <2> SUFFICES ASSUME NEW k \in 0 .. (n - 1)
                   PROVE  h[k + 1] = h[k] \o ss[k + 1]
          OBVIOUS
      <2>1. k \in Nat /\ k + 1 \in 1 .. n /\ h[k] \in Seq(S)
            BY <1>1, <1>4
      <2>2. g[<<k, h[k]>>] = h[k] \o ss[k + 1]
            BY <2>1 DEF g
      <2> QED BY <1>4, <2>1, <2>2
<1> DEFINE F == [k \in 0 .. n |-> h[k]]
<1>6. F \in [0 .. n -> Seq(S)]
      BY <1>1, <1>4
<1>7. Appended(F, ss)
      <2>1. F[0] = <<>>
            BY <1>1, <1>4
      <2>2. ASSUME NEW k \in 0 .. (n - 1) PROVE F[k + 1] = F[k] \o ss[k + 1]
            <3>1. k \in 0 .. n /\ k + 1 \in 0 .. n
                  BY <1>1
            <3> QED BY <1>5, <3>1
      <2> QED BY <2>1, <2>2 DEF Appended
<1>8. h[n] = FlattenSeq(ss)
      <2>1. CASE n = 0
            <3>1. ss = <<>>
                  BY <2>1, EmptySeq
            <3> QED BY <1>4, <2>1, <3>1 DEF FlattenSeq
      <2>2. CASE n # 0
            <3> DEFINE Eq(c) == c = [i \in 1 .. n |->
                                        IF i = 1 THEN ss[i] ELSE c[i - 1] \o ss[i]]
                       f == [i \in 1 .. n |-> h[i]]
            <3>1. Eq(f)
                  <4> SUFFICES ASSUME NEW i \in 1 .. n
                               PROVE  f[i] = IF i = 1 THEN ss[i] ELSE f[i - 1] \o ss[i]
                      OBVIOUS
                  <4>1. i - 1 \in 0 .. (n - 1) /\ (i - 1) + 1 = i
                        BY <1>1
                  <4>2. h[i] = h[i - 1] \o ss[i]
                        BY <1>5, <4>1
                  <4>3. CASE i = 1
                        <5>1. ss[1] \in Seq(S)
                              BY <1>1, <4>3
                        <5>2. <<>> \o ss[1] = ss[1]
                              BY <5>1, ConcatEmptySeq
                        <5>3. h[1] = <<>> \o ss[1]
                              <6>1. i - 1 = 0
                                    BY <4>3
                              <6>2. h[i] = h[0] \o ss[i]
                                    BY <4>2, <6>1, Zenon
                              <6> QED BY <1>4, <4>3, <6>2, Zenon
                        <5> QED BY <4>3, <5>2, <5>3
                  <4>4. CASE i # 1
                        <5>1. i - 1 \in 1 .. n
                              BY <1>1, <4>4
                        <5> QED BY <4>2, <4>4, <5>1
                  <4> QED BY <4>3, <4>4
            <3> DEFINE c == CHOOSE c : Eq(c)
            <3>2. Eq(c)
                  <4> HIDE DEF Eq
                  <4> QED BY <3>1
            <3>3. FlattenSeq(ss) = c[n]
                  BY <2>2 DEF FlattenSeq
            <3> HIDE DEF c
            <3>4. \A i \in 1 .. n : c[i] = IF i = 1 THEN ss[i] ELSE c[i - 1] \o ss[i]
                  BY <3>2
            <3> HIDE DEF Eq, F, f
            <3> DEFINE P == {k \in Nat : k + 1 \in 1 .. n => c[k + 1] = h[k + 1]}
            <3>5. 0 \in P
                  <4>1. 1 \in 1 .. n /\ 0 \in 0 .. (n - 1)
                        BY <1>1, <2>2
                  <4>2. c[1] = ss[1] /\ h[1] = <<>> \o ss[1]
                        <5>1. 0 + 1 = 1
                              OBVIOUS
                        <5>2. h[1] = h[0] \o ss[1]
                              BY <1>5, <4>1, <5>1, Zenon
                        <5> QED BY <1>4, <3>4, <4>1, <5>2, Zenon
                  <4>3. <<>> \o ss[1] = ss[1]
                        BY <1>1, <4>1, ConcatEmptySeq
                  <4> QED BY <4>2, <4>3
            <3>6. ASSUME NEW k \in P PROVE k + 1 \in P
                  <4> SUFFICES ASSUME (k + 1) + 1 \in 1 .. n
                               PROVE  c[(k + 1) + 1] = h[(k + 1) + 1]
                      OBVIOUS
                  <4>1. k \in Nat /\ k + 1 \in 1 .. n /\ k + 1 \in 0 .. (n - 1)
                        BY <1>1
                  <4>2. c[k + 1] = h[k + 1]
                        BY <4>1
                  <4>3. (k + 1) + 1 # 1 /\ ((k + 1) + 1) - 1 = k + 1
                        BY <4>1
                  <4>4. c[(k + 1) + 1] = c[k + 1] \o ss[(k + 1) + 1]
                        BY <3>4, <4>3
                  <4>5. h[(k + 1) + 1] = h[k + 1] \o ss[(k + 1) + 1]
                        BY <1>5, <4>1
                  <4> QED BY <4>2, <4>4, <4>5
            <3>7. P \in SUBSET Nat
                  OBVIOUS
            <3> HIDE DEF P
            <3>8. P = Nat
                  BY <3>5, <3>6, <3>7, Induction
            <3>9. n - 1 \in Nat /\ (n - 1) + 1 = n /\ n \in 1 .. n
                  BY <1>1, <2>2
            <3> QED BY <3>3, <3>8, <3>9 DEF P
      <2> QED BY <2>1, <2>2
<1>9. F[n] = FlattenSeq(ss)
      BY <1>1, <1>8
<1> QED BY <1>6, <1>7, <1>9

(* Where an element is in a list.                                          *)
Places(s, x) == {i \in DOMAIN s : s[i] = x}

LEMMA PlacesFinite ==
    ASSUME NEW S, NEW s \in Seq(S), NEW x
    PROVE  IsFiniteSet(Places(s, x)) /\ Cardinality(Places(s, x)) \in Nat
<1>1. Len(s) \in Nat /\ DOMAIN s = 1 .. Len(s)
      BY LenProperties
<1>2. IsFiniteSet(1 .. Len(s))
      BY <1>1, FS_Interval
<1>3. Places(s, x) \in SUBSET (1 .. Len(s))
      BY <1>1 DEF Places
<1> QED BY <1>2, <1>3, FS_Subset, FS_CardinalityType

(* Two sets of which one is an image of the other under an injection.      *)
LEMMA SameSize ==
    ASSUME NEW S, NEW T, IsFiniteSet(S), NEW f \in [S -> T],
           \A a, b \in S : f[a] = f[b] => a = b,
           \A t \in T : \E a \in S : f[a] = t
    PROVE  IsFiniteSet(T) /\ Cardinality(T) = Cardinality(S)
<1>1. f \in Bijection(S, T)
      BY DEF Bijection, Injection, Surjection, IsInjective
<1>2. ExistsBijection(S, T)
      BY <1>1 DEF ExistsBijection
<1> QED BY <1>2, FS_Bijection

LEMMA SizeOfBoth ==
    ASSUME NEW S, NEW T, IsFiniteSet(S), IsFiniteSet(T), S \cap T = {}
    PROVE  IsFiniteSet(S \cup T)
           /\ Cardinality(S \cup T) = Cardinality(S) + Cardinality(T)
<1>1. /\ IsFiniteSet(S \cup T)
      /\ Cardinality(S \cup T) = Cardinality(S) + Cardinality(T) - Cardinality(S \cap T)
      BY FS_Union
<1>2. Cardinality(S \cap T) = 0
      BY FS_EmptySet
<1>3. Cardinality(S) \in Nat /\ Cardinality(T) \in Nat
      BY FS_CardinalityType
<1> QED BY <1>1, <1>2, <1>3

LEMMA ConcatPlaces ==
    ASSUME NEW S, NEW s \in Seq(S), NEW t \in Seq(S), NEW x
    PROVE  Cardinality(Places(s \o t, x))
             = Cardinality(Places(s, x)) + Cardinality(Places(t, x))
<1> DEFINE m == Len(s)
           n == Len(t)
           later == {i \in (m + 1) .. (m + n) : (s \o t)[i] = x}
           f == [i \in Places(t, x) |-> m + i]
<1>1. /\ m \in Nat /\ n \in Nat /\ DOMAIN s = 1 .. m /\ DOMAIN t = 1 .. n
      /\ DOMAIN (s \o t) = 1 .. (m + n)
      /\ \A i \in 1 .. (m + n) : (s \o t)[i] = IF i <= m THEN s[i] ELSE t[i - m]
      BY ConcatIs
<1>2. Places(s \o t, x) = Places(s, x) \cup later
      <2>1. Places(s, x) \subseteq Places(s \o t, x)
            BY <1>1 DEF Places
      <2>2. later \subseteq Places(s \o t, x)
            BY <1>1 DEF Places
      <2>3. Places(s \o t, x) \subseteq Places(s, x) \cup later
            <3> SUFFICES ASSUME NEW i \in 1 .. (m + n), (s \o t)[i] = x
                         PROVE  i \in Places(s, x) \cup later
                BY <1>1 DEF Places
            <3>1. CASE i <= m
                  <4>1. i \in DOMAIN s /\ s[i] = x
                        BY <1>1, <3>1
                  <4> QED BY <4>1 DEF Places
            <3>2. CASE ~(i <= m)
                  <4>1. i \in (m + 1) .. (m + n)
                        BY <1>1, <3>2
                  <4> QED BY <4>1
            <3> QED BY <3>1, <3>2
      <2> QED BY <2>1, <2>2, <2>3
<1>3. Places(s, x) \cap later = {}
      BY <1>1 DEF Places
<1>4. IsFiniteSet(Places(s, x)) /\ IsFiniteSet(Places(t, x))
      BY PlacesFinite
<1>5. IsFiniteSet(later) /\ Cardinality(later) = Cardinality(Places(t, x))
      <2>1. f \in [Places(t, x) -> later]
            <3> SUFFICES ASSUME NEW i \in Places(t, x) PROVE m + i \in later
                OBVIOUS
            <3>1. i \in 1 .. n /\ t[i] = x
                  BY <1>1 DEF Places
            <3>2. m + i \in (m + 1) .. (m + n) /\ ~(m + i <= m) /\ (m + i) - m = i
                  /\ m + i \in 1 .. (m + n)
                  BY <1>1, <3>1
            <3>3. (s \o t)[m + i] = t[i]
                  BY <1>1, <3>2
            <3> QED BY <3>1, <3>2, <3>3
      <2>2. \A a, b \in Places(t, x) : f[a] = f[b] => a = b
            BY <1>1 DEF Places
      <2>3. ASSUME NEW i \in later PROVE \E a \in Places(t, x) : f[a] = i
            <3>1. /\ i - m \in 1 .. n /\ m + (i - m) = i /\ ~(i <= m)
                  /\ i \in 1 .. (m + n)
                  BY <1>1
            <3>2. t[i - m] = x
                  BY <1>1, <3>1
            <3>3. i - m \in Places(t, x)
                  BY <1>1, <3>1, <3>2 DEF Places
            <3> QED BY <3>1, <3>3
      <2> HIDE DEF later, f
      <2> QED BY <1>4, <2>1, <2>2, <2>3, SameSize
<1> HIDE DEF later
<1> QED BY <1>2, <1>3, <1>4, <1>5, SizeOfBoth

(* Every element of the lists is in the appended list as often as in them. *)
LEMMA FlattenPlaces ==
    ASSUME NEW S, NEW ss \in Seq(Seq(S)), NEW x
    PROVE  /\ FlattenSeq(ss) \in Seq(S)
           /\ Cardinality(Places(FlattenSeq(ss), x))
                = Cardinality({at \in Positions(ss) : ss[at[1]][at[2]] = x})
<1>1. PICK F \in [0 .. Len(ss) -> Seq(S)] :
         Appended(F, ss) /\ F[Len(ss)] = FlattenSeq(ss)
      BY FlattenIs
<1>2. /\ Len(ss) \in Nat /\ DOMAIN ss = 1 .. Len(ss)
      /\ \A i \in 1 .. Len(ss) : ss[i] \in Seq(S)
      BY LenProperties, ElementOfSeq
<1> DEFINE n == Len(ss)
           UpToList(k) == {at \in UNION {{l} \X DOMAIN ss[l] : l \in 1 .. k} :
                        ss[at[1]][at[2]] = x}
           P == {k \in Nat : k <= n =>
                    /\ IsFiniteSet(UpToList(k))
                    /\ Cardinality(Places(F[k], x)) = Cardinality(UpToList(k))}
<1>3. 0 \in P
      <2>1. UpToList(0) = {} /\ Places(F[0], x) = {}
            BY <1>1 DEF Appended, Places
      <2> QED BY <2>1, FS_EmptySet
<1>4. ASSUME NEW k \in P PROVE k + 1 \in P
      <2> SUFFICES ASSUME k + 1 <= n
                   PROVE  /\ IsFiniteSet(UpToList(k + 1))
                          /\ Cardinality(Places(F[k + 1], x)) = Cardinality(UpToList(k + 1))
          OBVIOUS
      <2>1. k \in Nat /\ k \in 0 .. n /\ k + 1 \in 1 .. n /\ k \in 0 .. (n - 1)
            BY <1>2
      <2>2. IsFiniteSet(UpToList(k)) /\ Cardinality(Places(F[k], x)) = Cardinality(UpToList(k))
            BY <1>2, <2>1
      <2>3. F[k + 1] = F[k] \o ss[k + 1] /\ F[k] \in Seq(S) /\ ss[k + 1] \in Seq(S)
            BY <1>1, <1>2, <2>1 DEF Appended
      <2>4. Cardinality(Places(F[k + 1], x))
              = Cardinality(Places(F[k], x)) + Cardinality(Places(ss[k + 1], x))
            BY <2>3, ConcatPlaces
      <2> DEFINE T == {k + 1} \X Places(ss[k + 1], x)
                 f == [i \in Places(ss[k + 1], x) |-> <<k + 1, i>>]
      <2>5. UpToList(k + 1) = UpToList(k) \cup T /\ UpToList(k) \cap T = {}
            <3>1. 1 .. (k + 1) = (1 .. k) \cup {k + 1} /\ k + 1 \notin 1 .. k
                  BY <2>1
            <3> DEFINE A == UNION {{l} \X DOMAIN ss[l] : l \in 1 .. k}
                       B == {k + 1} \X DOMAIN ss[k + 1]
                       C == UNION {{l} \X DOMAIN ss[l] : l \in 1 .. (k + 1)}
            <3>2. C = A \cup B
                  <4>1. \A l \in 1 .. (k + 1) : l \in 1 .. k \/ l = k + 1
                        BY <3>1
                  <4>2. C \subseteq A \cup B
                        BY <4>1
                  <4>3. A \subseteq C /\ B \subseteq C
                        BY <3>1
                  <4> QED BY <4>2, <4>3
            <3>3. T = {at \in {k + 1} \X DOMAIN ss[k + 1] : ss[at[1]][at[2]] = x}
                  BY DEF Places
            <3>4. UpToList(k + 1) = UpToList(k) \cup T
                  <4>1. UpToList(k) = {at \in A : ss[at[1]][at[2]] = x}
                        /\ UpToList(k + 1) = {at \in C : ss[at[1]][at[2]] = x}
                        OBVIOUS
                  <4>2. C = A \cup B /\ T = {at \in B : ss[at[1]][at[2]] = x}
                        BY <3>2, <3>3
                  <4> HIDE DEF A, B, C, UpToList, T
                  <4> QED BY <4>1, <4>2
            <3>5. \A at \in UpToList(k) : at[1] \in 1 .. k
                  OBVIOUS
            <3>6. \A at \in T : at[1] = k + 1
                  OBVIOUS
            <3> QED BY <3>1, <3>4, <3>5, <3>6
      <2>6. IsFiniteSet(T) /\ Cardinality(T) = Cardinality(Places(ss[k + 1], x))
            <3>1. f \in [Places(ss[k + 1], x) -> T]
                  OBVIOUS
            <3>2. \A a, b \in Places(ss[k + 1], x) : f[a] = f[b] => a = b
                  OBVIOUS
            <3>3. \A t \in T : \E a \in Places(ss[k + 1], x) : f[a] = t
                  OBVIOUS
            <3>4. IsFiniteSet(Places(ss[k + 1], x))
                  BY <2>3, PlacesFinite
            <3> HIDE DEF T, f
            <3> QED BY <3>1, <3>2, <3>3, <3>4, SameSize
      <2> HIDE DEF T, UpToList
      <2>7. /\ IsFiniteSet(UpToList(k) \cup T)
            /\ Cardinality(UpToList(k) \cup T) = Cardinality(UpToList(k)) + Cardinality(T)
            BY <2>2, <2>5, <2>6, SizeOfBoth
      <2> QED BY <2>2, <2>4, <2>5, <2>6, <2>7
<1>5. P \in SUBSET Nat
      OBVIOUS
<1>6. UpToList(n) = {at \in Positions(ss) : ss[at[1]][at[2]] = x}
      BY <1>2 DEF Positions
<1> HIDE DEF P, UpToList
<1>7. P = Nat
      BY <1>3, <1>4, <1>5, Induction
<1>8. n \in P /\ n <= n /\ n \in 0 .. n
      BY <1>2, <1>7
<1>9. Cardinality(Places(F[n], x)) = Cardinality(UpToList(n))
      BY <1>8 DEF P
<1> QED BY <1>1, <1>6, <1>8, <1>9


(* The lists that two elements are from when one list is appended to k.    *)
From(s, ss, k, i, j) ==
    \E l, m \in 1 .. k : l <= m /\ s[i] \in Range(ss[l]) /\ s[j] \in Range(ss[m])
InOrderOf(s, ss, k) == \A i, j \in DOMAIN s : i <= j => From(s, ss, k, i, j)

LEMMA AppendedInOrder ==
    ASSUME NEW S, NEW ss, NEW k \in Nat, NEW u \in Seq(S), NEW v \in Seq(S),
           v = ss[k + 1], InOrderOf(u, ss, k)
    PROVE  InOrderOf(u \o v, ss, k + 1)
<1> DEFINE m == Len(u)
           n == Len(v)
<1>1. /\ m \in Nat /\ n \in Nat /\ DOMAIN u = 1 .. m /\ DOMAIN v = 1 .. n
      /\ DOMAIN (u \o v) = 1 .. (m + n)
      /\ \A i \in 1 .. (m + n) : (u \o v)[i] = IF i <= m THEN u[i] ELSE v[i - m]
      BY ConcatIs
<1> SUFFICES ASSUME NEW w, w = u \o v, NEW i \in 1 .. (m + n), NEW j \in 1 .. (m + n), i <= j
             PROVE  From(w, ss, k + 1, i, j)
    BY <1>1 DEF InOrderOf
<1>2. ASSUME NEW e \in 1 .. (m + n), ~(e <= m)
      PROVE  w[e] \in Range(ss[k + 1])
      <2>1. w[e] = v[e - m]
            BY <1>1, <1>2
      <2>2. e - m \in DOMAIN v
            BY <1>1, <1>2
      <2>3. v[e - m] \in Range(v)
            BY <2>2 DEF Range
      <2> QED BY <2>1, <2>3
<1>3. ASSUME NEW e \in 1 .. (m + n), e <= m
      PROVE  e \in DOMAIN u /\ w[e] = u[e] /\ e <= e
      BY <1>1, <1>3
<1>4. k + 1 \in 1 .. (k + 1) /\ 1 .. k \subseteq 1 .. (k + 1)
      /\ (\A l \in 1 .. k : l <= k + 1) /\ k + 1 <= k + 1
      OBVIOUS
<1>5. CASE j <= m
      <2>1. i <= m
            BY <1>1, <1>5
      <2>2. From(u, ss, k, i, j)
            BY <1>3, <1>5, <2>1 DEF InOrderOf
      <2>3. w[i] = u[i] /\ w[j] = u[j]
            BY <1>3, <1>5, <2>1
      <2> QED BY <1>4, <2>2, <2>3 DEF From
<1>6. CASE ~(j <= m) /\ i <= m
      <2>1. From(u, ss, k, i, i)
            BY <1>3, <1>6 DEF InOrderOf
      <2>2. w[i] = u[i] /\ w[j] \in Range(ss[k + 1])
            BY <1>2, <1>3, <1>6
      <2> QED BY <1>4, <2>1, <2>2 DEF From
<1>7. CASE ~(j <= m) /\ ~(i <= m)
      <2>1. w[i] \in Range(ss[k + 1]) /\ w[j] \in Range(ss[k + 1])
            BY <1>2, <1>7
      <2> QED BY <1>4, <2>1 DEF From
<1> QED BY <1>5, <1>6, <1>7

(* The elements of the appended list are in the order of the lists.        *)
LEMMA FlattenOrder ==
    ASSUME NEW S, NEW ss \in Seq(Seq(S))
    PROVE  InOrderOf(FlattenSeq(ss), ss, Len(ss))
<1>1. PICK F \in [0 .. Len(ss) -> Seq(S)] :
         Appended(F, ss) /\ F[Len(ss)] = FlattenSeq(ss)
      BY FlattenIs
<1>2. /\ Len(ss) \in Nat /\ DOMAIN ss = 1 .. Len(ss)
      /\ \A i \in 1 .. Len(ss) : ss[i] \in Seq(S)
      BY LenProperties, ElementOfSeq
<1> DEFINE n == Len(ss)
           P == {k \in Nat : k <= n => InOrderOf(F[k], ss, k)}
<1>3. 0 \in P
      BY <1>1 DEF Appended, InOrderOf
<1>4. ASSUME NEW k \in P PROVE k + 1 \in P
      <2> SUFFICES ASSUME k + 1 <= n PROVE InOrderOf(F[k + 1], ss, k + 1)
          OBVIOUS
      <2>1. k \in Nat /\ k \in 0 .. n /\ k + 1 \in 1 .. n /\ k \in 0 .. (n - 1) /\ k <= n
            BY <1>2
      <2>2. InOrderOf(F[k], ss, k)
            BY <2>1
      <2>3. F[k + 1] = F[k] \o ss[k + 1] /\ F[k] \in Seq(S) /\ ss[k + 1] \in Seq(S)
            BY <1>1, <1>2, <2>1 DEF Appended
      <2> HIDE DEF P
      <2> QED BY <2>1, <2>2, <2>3, AppendedInOrder
<1>5. P \in SUBSET Nat
      OBVIOUS
<1> HIDE DEF P
<1>6. P = Nat
      BY <1>3, <1>4, <1>5, Induction
<1>7. InOrderOf(F[n], ss, n)
      <2>1. n \in P /\ n <= n
            BY <1>2, <1>6
      <2> QED BY <2>1 DEF P
<1> QED BY <1>1, <1>7

(* A strict total order on 1 .. n.                                         *)
TotalOrder(R, n) == \A i, j \in 1 .. n :
    /\ <<i, i>> \notin R
    /\ i # j => <<i, j>> \in R \/ <<j, i>> \in R
    /\ \A k \in 1 .. n : <<i, j>> \in R /\ <<j, k>> \in R => <<i, k>> \in R

(* A finite list can be put into an order: an element goes where the number*)
(* of those that are not behind it tells.                                  *)
LEMMA Arrangement ==
    ASSUME NEW n \in Nat, NEW R, TotalOrder(R, n)
    PROVE  \E p \in Bijection(1 .. n, 1 .. n) :
              \A i, j \in 1 .. n : i < j => <<p[i], p[j]>> \in R
<1> DEFINE D == 1 .. n
           Ahead(i) == {j \in D : j = i \/ <<j, i>> \in R}
           rank == [i \in D |-> Cardinality(Ahead(i))]
<1>1. IsFiniteSet(D) /\ Cardinality(D) = n
      BY FS_Interval
<1>2. \A i \in D : /\ IsFiniteSet(Ahead(i)) /\ Cardinality(Ahead(i)) \in Nat
                   /\ Cardinality(Ahead(i)) <= n /\ Cardinality(Ahead(i)) # 0
      <2> SUFFICES ASSUME NEW i \in D
                   PROVE  /\ IsFiniteSet(Ahead(i)) /\ Cardinality(Ahead(i)) \in Nat
                          /\ Cardinality(Ahead(i)) <= n /\ Cardinality(Ahead(i)) # 0
          OBVIOUS
      <2>1. Ahead(i) \in SUBSET D /\ i \in Ahead(i)
            OBVIOUS
      <2> HIDE DEF Ahead, D
      <2>2. IsFiniteSet(Ahead(i)) /\ Cardinality(Ahead(i)) <= n
            BY <1>1, <2>1, FS_Subset
      <2> QED BY <2>1, <2>2, FS_CardinalityType, FS_EmptySet
<1>3. rank \in [D -> D]
      BY <1>2
<1>4. ASSUME NEW i \in D, NEW j \in D, <<i, j>> \in R PROVE rank[i] < rank[j]
      <2>1. Ahead(i) \in SUBSET Ahead(j)
            BY <1>4 DEF TotalOrder
      <2>2. j \in Ahead(j) /\ j \notin Ahead(i)
            BY <1>4 DEF TotalOrder
      <2>3. rank[i] = Cardinality(Ahead(i)) /\ rank[j] = Cardinality(Ahead(j))
            OBVIOUS
      <2> HIDE DEF Ahead, rank, D
      <2>4. Cardinality(Ahead(i)) <= Cardinality(Ahead(j))
            /\ Cardinality(Ahead(i)) # Cardinality(Ahead(j))
            BY <1>2, <2>1, <2>2, FS_Subset
      <2> QED BY <1>2, <2>3, <2>4
<1> HIDE DEF rank
<1>5. \A i, j \in D : rank[i] = rank[j] => i = j
      <2> SUFFICES ASSUME NEW i \in D, NEW j \in D, rank[i] = rank[j], i # j
                   PROVE  FALSE
          OBVIOUS
      <2>1. rank[i] \in Nat /\ rank[j] \in Nat
            BY <1>3
      <2>2. <<i, j>> \in R \/ <<j, i>> \in R
            BY DEF TotalOrder
      <2> QED BY <1>4, <2>1, <2>2
<1>6. rank \in Surjection(D, D)
      <2>1. rank \in Injection(D, D)
            BY <1>3, <1>5 DEF Injection, IsInjective
      <2> HIDE DEF D
      <2> QED BY <1>1, <2>1, FS_Injection
<1> DEFINE p == [k \in D |-> CHOOSE i \in D : rank[i] = k]
<1>7. \A k \in D : p[k] \in D /\ rank[p[k]] = k
      <2> SUFFICES ASSUME NEW k \in D PROVE \E i \in D : rank[i] = k
          OBVIOUS
      <2> HIDE DEF D
      <2> QED BY <1>6 DEF Surjection
<1>8. p \in [D -> D]
      BY <1>7
<1> HIDE DEF p
<1>9. p \in Bijection(D, D)
      <2>1. \A a, b \in D : p[a] = p[b] => a = b
            BY <1>7
      <2>2. \A k \in D : rank[k] \in D /\ p[rank[k]] = k
            <3> SUFFICES ASSUME NEW k \in D PROVE rank[k] \in D /\ p[rank[k]] = k
                OBVIOUS
            <3>1. rank[k] \in D
                  BY <1>3
            <3>2. p[rank[k]] \in D /\ rank[p[rank[k]]] = rank[k]
                  BY <1>7, <3>1
            <3> QED BY <1>5, <3>1, <3>2
      <2> HIDE DEF D
      <2> QED BY <1>8, <2>1, <2>2 DEF Bijection, Injection, Surjection, IsInjective
<1>10. ASSUME NEW i \in D, NEW j \in D, i < j PROVE <<p[i], p[j]>> \in R
      <2>1. /\ p[i] \in D /\ p[j] \in D /\ rank[p[i]] = i /\ rank[p[j]] = j
            /\ i # j /\ ~(j < i)
            BY <1>7, <1>10
      <2>2. p[i] # p[j]
            BY <2>1
      <2>3. <<p[i], p[j]>> \in R \/ <<p[j], p[i]>> \in R
            BY <2>1, <2>2 DEF TotalOrder
      <2>4. <<p[j], p[i]>> \in R => j < i
            BY <1>4, <2>1
      <2> QED BY <2>1, <2>3, <2>4
<1> QED BY <1>9, <1>10

-----------------------------------------------------------------------------
(* OperatorWaits: for any number of Subscriptions and versions             *)

(* The Subscriptions not yet waited for are in left; what is succeeded now *)
(* had succeeded during the call; the CSV waited for is one of the first   *)
(* Subscription in left, and the plan approved is one OLM has offered.     *)
Had(s) == \E v \in Version : <<s, v>> \in succeeded
InLeft(s) == \E i \in DOMAIN left : left[i] = s
Polling == step \in {"pollSubscription", "pollCSV"}

LeftOK == /\ left \in Seq(Of)
          /\ Polling => left # <<>> /\ \A s \in Of : Had(s) \/ InLeft(s)
AboutOK == /\ step = "pollCSV" => about[1] = Head(left)
           /\ step \in {"getPlan", "updatePlan", "pollCSV"}
                => about[2] \in Version
SucceededOK == \A c \in Of \X Version :
                  phase[c] = "succeeded" => c \in succeeded
WaitInv == /\ WaitTypeOK /\ LeftOK /\ AboutOK /\ SucceededOK
           /\ WaitsTellTruth

-----------------------------------------------------------------------------
LEMMA InitWait == WaitInit => WaitInv
<1> SUFFICES ASSUME WaitInit PROVE WaitInv
  OBVIOUS
<1> USE VersionsNatural, SubscriptionsListed
<1>1. Of # {}
  BY DEF Of
<1>2. WaitTypeOK
  BY <1>1 DEF WaitInit, WaitTypeOK, Version, Ended
<1>3. LeftOK /\ AboutOK /\ SucceededOK
  BY DEF WaitInit, LeftOK, AboutOK, SucceededOK, Polling
<1>4. WaitsTellTruth
  <2>1. 1 \in Version
    BY DEF Version
  <2>2. step = "ok" /\ succeeded = Of \X Version
    BY DEF WaitInit
  <2> QED BY <2>1, <2>2 DEF WaitsTellTruth
<1> QED BY <1>2, <1>3, <1>4 DEF WaitInv

(* A step that leaves the call and its history alone keeps what it knows.  *)
LEMMA CallUntouched ==
    ASSUME WaitInv, WaitTypeOK', UNCHANGED <<step, left, about>>,
           succeeded \subseteq succeeded', SucceededOK',
           \A s \in Of : approved[s] \subseteq approved'[s]
    PROVE  WaitInv'
<1>1. LeftOK'
  <2>1. \A s \in Of : Had(s) => Had(s)'
    BY DEF Had
  <2>2. \A s \in Of : InLeft(s) => InLeft(s)'
    BY DEF InLeft
  <2> QED BY <2>1, <2>2 DEF WaitInv, LeftOK, Polling
<1>2. AboutOK'
  BY DEF WaitInv, AboutOK
<1>3. WaitsTellTruth'
  <2>1. about[1] \in Of
    BY DEF WaitInv, WaitTypeOK
  <2> QED BY <2>1 DEF WaitInv, WaitsTellTruth
<1> QED BY <1>1, <1>2, <1>3 DEF WaitInv

(* A call begins.                                                          *)
LEMMA BeginWaitStep ==
    ASSUME WaitInv, NEW s \in Of, NEW first, NEW list,
           BeginWait(first, s, list),
           \/ first = "pollPlan" /\ list = <<>>
           \/ first = "pollSubscription" /\ list = Subscriptions
    PROVE  WaitInv'
<1> USE VersionsNatural, SubscriptionsListed
<1>1. WaitTypeOK'
  <2>1. about' \in Of \X (0 .. MaxVersion) /\ named' \subseteq DeploymentSpecs
    BY DEF BeginWait
  <2>2. succeeded' \subseteq Of \X Version
    BY DEF WaitInv, WaitTypeOK, BeginWait
  <2>3. step' = first /\ UNCHANGED olm
    BY DEF BeginWait
  <2> QED BY <2>1, <2>2, <2>3 DEF WaitInv, WaitTypeOK, olm
<1>2. LeftOK'
  <2>1. CASE first = "pollPlan" /\ list = <<>>
    BY <2>1 DEF BeginWait, LeftOK, Polling
  <2>2. CASE first = "pollSubscription" /\ list = Subscriptions
    <3>1. left' = Subscriptions
      BY <2>2 DEF BeginWait
    <3>2. \A t \in Of : InLeft(t)'
      BY <3>1 DEF InLeft, Of
    <3> QED BY <3>1, <3>2 DEF LeftOK
  <2> QED BY <2>1, <2>2
<1>3. AboutOK' /\ SucceededOK' /\ WaitsTellTruth'
  BY DEF WaitInv, WaitTypeOK, BeginWait, AboutOK, SucceededOK,
         WaitsTellTruth, olm
<1> QED BY <1>1, <1>2, <1>3 DEF WaitInv

(* UpgradeOperator's requests. *)
LEMMA UpgradeStep ==
    ASSUME WaitInv, getInstallPlan \/ ReadPlan \/ UpdateInstallPlan
    PROVE  WaitInv'
<1>1. about[1] \in Of /\ about = <<about[1], about[2]>>
  BY DEF WaitInv, WaitTypeOK
<1>2. CASE getInstallPlan
  <2>1. WaitTypeOK'
    BY <1>1, <1>2 DEF WaitInv, WaitTypeOK, getInstallPlan, olm
  <2>2. about'[2] \in Version
    BY <1>1, <1>2 DEF WaitInv, WaitTypeOK, getInstallPlan, Version
  <2>3. LeftOK' /\ AboutOK' /\ SucceededOK' /\ WaitsTellTruth'
    BY <1>2, <2>2 DEF WaitInv, getInstallPlan, olm, LeftOK, AboutOK,
                      SucceededOK, WaitsTellTruth, Polling
  <2> QED BY <2>1, <2>3 DEF WaitInv
<1>3. CASE ReadPlan
  <2>1. WaitTypeOK'
    BY <1>3 DEF WaitInv, WaitTypeOK, ReadPlan, olm, Ended
  <2>2. LeftOK' /\ AboutOK' /\ SucceededOK' /\ WaitsTellTruth'
    BY <1>3 DEF WaitInv, ReadPlan, olm, LeftOK, AboutOK, SucceededOK,
                WaitsTellTruth, Polling
  <2> QED BY <2>1, <2>2 DEF WaitInv
<1>4. CASE UpdateInstallPlan
  <2>1. /\ step = "updatePlan" /\ step' \in {"upgraded", "error"}
        /\ about[2] \in Version
    BY <1>4 DEF UpdateInstallPlan, WaitInv, AboutOK
  <2>2. /\ approved' \in [Of -> SUBSET Version]
        /\ \A s \in Of : approved[s] \subseteq approved'[s]
    BY <1>1, <1>4, <2>1 DEF UpdateInstallPlan, WaitInv, WaitTypeOK
  <2>3. WaitTypeOK'
    BY <1>4, <2>1, <2>2 DEF WaitInv, WaitTypeOK, UpdateInstallPlan, Ended
  <2>4. LeftOK' /\ AboutOK' /\ SucceededOK'
    BY <1>4, <2>1 DEF WaitInv, UpdateInstallPlan, LeftOK, AboutOK,
                      SucceededOK, Polling
  <2>5. WaitsTellTruth'
    BY <1>1, <1>4, <2>1 DEF WaitInv, WaitTypeOK, UpdateInstallPlan,
                            WaitsTellTruth
  <2> QED BY <2>3, <2>4, <2>5 DEF WaitInv
<1> QED BY <1>2, <1>3, <1>4

(* The request after which applyCSVs goes on to the next Subscription.     *)
LEMMA NextSubscriptionStep ==
    ASSUME WaitInv, step = "pollCSV", phase[about] = "succeeded",
           NextSubscription, UNCHANGED <<olm, about, succeeded, named>>
    PROVE  WaitInv'
<1>1. /\ left \in Seq(Of) /\ left # <<>>
      /\ about = <<Head(left), about[2]>> /\ about[2] \in Version
      /\ Head(left) \in Of
  BY DEF WaitInv, WaitTypeOK, LeftOK, AboutOK, Polling
<1>2. Had(Head(left))
  BY <1>1 DEF WaitInv, SucceededOK, Had
<1>3. \A s \in Of : Had(s)' \/ InLeft(s)'
  <2> SUFFICES ASSUME NEW s \in Of, ~Had(s), InLeft(s)
               PROVE  InLeft(s)'
    BY DEF WaitInv, LeftOK, Polling, Had
  <2>1. PICK i \in DOMAIN left : left[i] = s
    BY DEF InLeft
  <2>2. i # 1
    BY <1>1, <1>2, <2>1
  <2>3. i - 1 \in DOMAIN Tail(left) /\ Tail(left)[i - 1] = s
    BY <1>1, <2>1, <2>2
  <2> QED BY <2>3 DEF InLeft, NextSubscription
<1>4. LeftOK'
  <2>1. left' \in Seq(Of)
    BY <1>1 DEF NextSubscription
  <2>2. Polling' => left' # <<>>
    <3>1. /\ Len(left) \in Nat \ {0}
          /\ Len(Tail(left)) = Len(left) - 1
      BY <1>1
    <3>2. Polling' => Len(left) # 1
      BY DEF NextSubscription, Polling
    <3>3. ASSUME Tail(left) = <<>> PROVE Len(left) = 1
      <4>1. Len(Tail(left)) = Len(<<>>)
        BY <3>3, Zenon
      <4>2. Len(left) - 1 = Len(<<>>)
        BY <3>1, <4>1, Zenon
      <4>3. Len(left) - 1 = 0
        BY <4>2
      <4>4. Len(left) \in Nat
        BY <3>1, Zenon
      <4> QED BY <4>3, <4>4
    <3> QED BY <3>2, <3>3 DEF NextSubscription
  <2> QED BY <1>3, <2>1, <2>2 DEF LeftOK
<1>5. WaitTypeOK' /\ AboutOK' /\ SucceededOK'
  BY DEF WaitInv, WaitTypeOK, AboutOK, SucceededOK, NextSubscription, Ended,
         olm
<1>6. WaitsTellTruth'
  <2>1. CASE Len(left) = 1
    <3>1. step' = "ok" /\ left' = <<>>
      BY <1>1, <2>1 DEF NextSubscription
    <3>2. \A s \in Of : Had(s)'
      BY <1>3, <3>1 DEF InLeft
    <3> QED BY <3>1, <3>2 DEF WaitsTellTruth, Had
  <2>2. CASE Len(left) # 1
    BY <2>2 DEF WaitsTellTruth, NextSubscription
  <2> QED BY <2>1, <2>2
<1> QED BY <1>4, <1>5, <1>6 DEF WaitInv

(* applyCSVs' requests, and the requests that fail. *)
LEMMA PollStep ==
    ASSUME WaitInv,
           \/ GetSubscriptionCSV \/ pollCsvPhaseSucceeded
           \/ checkDeploymentErrors \/ RequestFails
    PROVE  WaitInv'
<1> USE DEF WaitInv
<1>1. CASE GetSubscriptionCSV
  <2>1. Head(left) \in Of /\ installed[Head(left)] \in Version
    BY <1>1 DEF GetSubscriptionCSV, LeftOK, Polling, WaitTypeOK, Version
  <2>2. WaitTypeOK'
    BY <1>1, <2>1 DEF GetSubscriptionCSV, WaitTypeOK, olm
  <2>3. LeftOK' /\ AboutOK' /\ SucceededOK' /\ WaitsTellTruth'
    BY <1>1, <2>1 DEF GetSubscriptionCSV, LeftOK, AboutOK, SucceededOK,
                      WaitsTellTruth, Polling, InLeft, Had, olm
  <2> QED BY <2>2, <2>3
<1>2. CASE pollCsvPhaseSucceeded
  <2>1. CASE phase[about] = "succeeded" /\ NextSubscription
    BY <1>2, <2>1, NextSubscriptionStep DEF pollCsvPhaseSucceeded
  <2>2. CASE step' = "error" /\ UNCHANGED left
    BY <1>2, <2>2 DEF pollCsvPhaseSucceeded, WaitTypeOK, LeftOK, AboutOK,
                      SucceededOK, WaitsTellTruth, Polling, Ended, olm
  <2>3. CASE UNCHANGED <<step, left>>
    BY <1>2, <2>3 DEF pollCsvPhaseSucceeded, WaitTypeOK, LeftOK, AboutOK,
                      SucceededOK, WaitsTellTruth, Polling, InLeft, Had, olm
  <2> QED BY <1>2, <2>1, <2>2, <2>3 DEF pollCsvPhaseSucceeded
<1>3. CASE checkDeploymentErrors
  BY <1>3 DEF checkDeploymentErrors, WaitTypeOK, LeftOK, AboutOK,
              SucceededOK, WaitsTellTruth, Polling, Ended, olm
<1>4. CASE RequestFails
  BY <1>4 DEF RequestFails, WaitFails, WaitTypeOK, LeftOK, AboutOK,
              SucceededOK, WaitsTellTruth, Polling, Ended, olm
<1> QED BY <1>1, <1>2, <1>3, <1>4

(* OLM's steps and those of the administrators.                            *)
LEMMA OlmStep ==
    ASSUME WaitInv, NEW s \in Of, NEW v \in Version,
           \/ Offer(s) \/ WritePlan(s, v) \/ Install(s, v)
           \/ SetPhase(s, v) \/ Replace(s, v)
    PROVE  WaitInv'
<1> USE VersionsNatural DEF Call, WaitInv
<1>1. CASE Offer(s)
  <2>1. offered[s] + 1 \in 0 .. MaxVersion
    BY <1>1 DEF Offer, WaitTypeOK
  <2>2. WaitTypeOK' /\ SucceededOK'
    BY <1>1, <2>1 DEF Offer, WaitTypeOK, SucceededOK
  <2> QED BY <1>1, <2>2, CallUntouched DEF Offer
<1>2. CASE WritePlan(s, v)
  <2>1. WaitTypeOK' /\ SucceededOK'
    BY <1>2 DEF WritePlan, WaitTypeOK, SucceededOK
  <2>2. \A t \in Of : approved[t] \subseteq approved'[t]
    BY <1>2 DEF WritePlan, WaitTypeOK
  <2> QED BY <1>2, <2>1, <2>2, CallUntouched DEF WritePlan
<1>3. CASE Install(s, v)
  <2>1. v \in 0 .. MaxVersion
    BY DEF Version
  <2>2. WaitTypeOK' /\ SucceededOK'
    BY <1>3, <2>1 DEF Install, WaitTypeOK, SucceededOK
  <2> QED BY <1>3, <2>2, CallUntouched DEF Install
<1>4. CASE SetPhase(s, v)
  <2>1. PICK p \in {"pending", "succeeded", "failed"} :
           /\ phase' = [phase EXCEPT ![<<s, v>>] = p]
           /\ succeeded' = IF p = "succeeded"
                           THEN succeeded \cup {<<s, v>>} ELSE succeeded
    BY <1>4 DEF SetPhase
  <2>2. WaitTypeOK' /\ SucceededOK'
    BY <1>4, <2>1 DEF SetPhase, WaitTypeOK, SucceededOK
  <2>3. succeeded \subseteq succeeded'
    BY <2>1
  <2> QED BY <1>4, <2>2, <2>3, CallUntouched DEF SetPhase
<1>5. CASE Replace(s, v)
  <2>1. WaitTypeOK' /\ SucceededOK'
    BY <1>5 DEF Replace, WaitTypeOK, SucceededOK
  <2> QED BY <1>5, <2>1, CallUntouched DEF Replace
<1> QED BY <1>1, <1>2, <1>3, <1>4, <1>5

LEMMA StepWait == WaitInv /\ [WaitNext]_waitVars => WaitInv'
<1> SUFFICES ASSUME WaitInv, [WaitNext]_waitVars PROVE WaitInv'
  OBVIOUS
<1>1. ASSUME NEW s \in Of, UpgradeOperator(s) PROVE WaitInv'
  BY <1>1, BeginWaitStep DEF UpgradeOperator
<1>2. CASE applyCSVs
  <2>1. Subscriptions[1] \in Of
    BY SubscriptionsListed DEF Of
  <2> QED BY <1>2, <2>1, BeginWaitStep DEF applyCSVs
<1>3. CASE getInstallPlan \/ ReadPlan \/ UpdateInstallPlan
  BY <1>3, UpgradeStep
<1>4. CASE \/ GetSubscriptionCSV \/ pollCsvPhaseSucceeded
           \/ checkDeploymentErrors \/ RequestFails
  BY <1>4, PollStep
<1>5. ASSUME NEW s \in Of, Offer(s) PROVE WaitInv'
  <2>1. 1 \in Version
    BY VersionsNatural DEF Version
  <2> QED BY <1>5, <2>1, OlmStep
<1>6. ASSUME NEW s \in Of, NEW v \in Version,
             \/ WritePlan(s, v) \/ Install(s, v)
             \/ SetPhase(s, v) \/ Replace(s, v)
      PROVE  WaitInv'
  BY <1>6, OlmStep
<1>7. CASE UNCHANGED waitVars
  BY <1>7 DEF waitVars, WaitInv, WaitTypeOK, LeftOK, AboutOK, SucceededOK,
              WaitsTellTruth, Polling, InLeft, Had
<1> QED BY <1>1, <1>2, <1>3, <1>4, <1>5, <1>6, <1>7 DEF WaitNext

-----------------------------------------------------------------------------
(* The variables of the waits keep their types.                            *)
THEOREM WaitsTyped == WaitSpec => []WaitTypeOK
<1>1. WaitInv => WaitTypeOK
  BY DEF WaitInv
<1> QED BY <1>1, InitWait, StepWait, PTL DEF WaitSpec

(* applyCSVs succeeds only after a CSV of every Subscription had           *)
(* succeeded, and UpgradeOperator returns without an error only if the     *)
(* plan it read is approved, whatever OLM and administrators write between *)
(* their requests.                                                         *)
THEOREM WaitsTrue == WaitSpec => []WaitsTellTruth
<1>1. WaitInv => WaitsTellTruth
  BY DEF WaitInv
<1> QED BY <1>1, InitWait, StepWait, PTL DEF WaitSpec

-----------------------------------------------------------------------------
(* Manifests: for any files of objects                                     *)

(* A file is read up to the first document to stop at, or to its end.      *)
LEMMA UpToIs ==
    ASSUME NEW S, NEW s \in Seq(S), NEW stop
    PROVE  /\ UpTo(s, stop) \in 0 .. Len(s)
           /\ \A i \in 1 .. UpTo(s, stop) : s[i] # stop
           /\ UpTo(s, stop) = Len(s) \/ s[UpTo(s, stop) + 1] = stop
<1> DEFINE n == Len(s)
           T == {i \in 1 .. n : \A j \in 1 .. i : s[j] # stop}
           P(k) == /\ \A i \in 1 .. k : s[i] # stop
                   /\ k = n \/ s[k + 1] = stop
<1>1. n \in Nat
      BY LenProperties
<1> HIDE DEF n
<1>2. PICK k \in 0 .. n : T = 1 .. k
      <2>1. T \in SUBSET (1 .. n) /\ \A i \in T : 1 .. i \subseteq T
            BY <1>1
      <2> HIDE DEF T
      <2> QED BY <1>1, <2>1, Prefix
<1>3. P(k)
      <2>1. \A i \in 1 .. k : s[i] # stop
            <3> SUFFICES ASSUME NEW i \in 1 .. k PROVE s[i] # stop
                OBVIOUS
            <3>1. i \in T /\ i \in 1 .. i
                  BY <1>2
            <3> QED BY <3>1
      <2>2. ASSUME k # n, s[k + 1] # stop PROVE FALSE
            <3>1. k + 1 \in 1 .. n /\ \A j \in 1 .. (k + 1) : j \in 1 .. k \/ j = k + 1
                  BY <1>1, <2>2
            <3>2. k + 1 \in T
                  BY <2>1, <2>2, <3>1
            <3> QED BY <1>2, <3>2
      <2> QED BY <2>1, <2>2
<1> HIDE DEF P
<1>4. UpTo(s, stop) = CHOOSE m \in 0 .. n : P(m)
      BY DEF UpTo, P, n
<1>5. UpTo(s, stop) \in 0 .. n /\ P(UpTo(s, stop))
      BY <1>3, <1>4
<1> QED BY <1>5 DEF P, n

LEMMA UpToEnd ==
    ASSUME NEW S, NEW s \in Seq(S), NEW stop, \A i \in DOMAIN s : s[i] # stop
    PROVE  UpTo(s, stop) = Len(s)
<1>1. Len(s) \in Nat /\ DOMAIN s = 1 .. Len(s)
      BY LenProperties
<1>2. /\ UpTo(s, stop) \in 0 .. Len(s)
      /\ UpTo(s, stop) = Len(s) \/ s[UpTo(s, stop) + 1] = stop
      BY UpToIs
<1>3. UpTo(s, stop) # Len(s) => UpTo(s, stop) + 1 \in DOMAIN s
      BY <1>1, <1>2
<1> QED BY <1>2, <1>3

(* Where a document is one to stop at, the file ends before it.            *)
LEMMA UpToFirst ==
    ASSUME NEW stop
    PROVE  UpTo(<<stop>>, stop) = 0
<1>1. <<stop>> \in Seq({stop}) /\ Len(<<stop>>) = 1 /\ <<stop>>[1] = stop
      OBVIOUS
<1>2. /\ UpTo(<<stop>>, stop) \in 0 .. 1
      /\ \A i \in 1 .. UpTo(<<stop>>, stop) : <<stop>>[i] # stop
      BY <1>1, UpToIs
<1> QED BY <1>1, <1>2

LEMMA WholeFile ==
    ASSUME NEW s, Intact(s)
    PROVE  getObjects(s) = s /\ ~IsError(s)
<1>1. /\ s \in Seq(Contents(s)) /\ Len(s) \in Nat
      /\ \A i \in DOMAIN s : s[i] # Broken /\ s[i] # Alien
      BY ElementOfSeq, LenProperties DEF Intact, Contents
<1>2. getObjects(s) = s
      <2>1. UpTo(s, Broken) = Len(s)
            BY <1>1, UpToEnd
      <2> QED BY <1>1, <2>1, SubSeqFull DEF getObjects
<1>3. UpTo(s, Alien) = Len(s)
      BY <1>1, UpToEnd
<1> QED BY <1>1, <1>2, <1>3 DEF IsError

LEMMA BodyTaken ==
    ASSUME NEW body \in getManifestData, getObjects(body) = body, ~IsError(body)
    PROVE  body = Manifest
<1>1. getObjects(<<Broken>>) # <<Broken>>
      <2>1. getObjects(<<Broken>>) = <<>>
            BY UpToFirst, SubSeqEmpty DEF getObjects
      <2> QED BY <2>1
<1>2. ASSUME getObjects(<<Alien>>) = <<Alien>>
      PROVE  IsError(<<Alien>>)
      BY <1>2, UpToFirst DEF IsError
<1> QED BY <1>1, <1>2 DEF getManifestData

LEMMA NoDocuments == Documents(<<>>) = {}
BY DEF Documents

LEMMA DocumentsSplit ==
    ASSUME NEW s, s \in Seq(Documents(s)), s # <<>>
    PROVE  /\ Tail(s) \in Seq(Documents(Tail(s)))
           /\ Documents(s) = {Head(s)} \cup Documents(Tail(s))
<1>1. /\ Tail(s) \in Seq(Documents(s)) /\ Len(Tail(s)) = Len(s) - 1
      /\ \A i \in 1 .. Len(Tail(s)) : Tail(s)[i] = s[i + 1]
      /\ Len(s) \in Nat \ {0} /\ DOMAIN s = 1 .. Len(s) /\ Head(s) = s[1]
      BY HeadTailProperties, LenProperties, EmptySeq
<1>2. DOMAIN Tail(s) = 1 .. Len(Tail(s)) /\ Len(Tail(s)) \in Nat
      BY <1>1, LenProperties
<1>3. Tail(s) \in Seq(Documents(Tail(s)))
      <2>1. Tail(s) \in [1 .. Len(Tail(s)) -> Documents(Tail(s))]
            <3>1. Tail(s) \in [1 .. Len(Tail(s)) -> Documents(s)]
                  BY <1>1, LenProperties
            <3>2. \A i \in 1 .. Len(Tail(s)) : Tail(s)[i] \in Documents(Tail(s))
                  BY <1>2 DEF Documents
            <3> QED BY <3>1, <3>2
      <2> QED BY <1>2, <2>1, SeqDef
<1>4. Documents(s) \subseteq {Head(s)} \cup Documents(Tail(s))
      <2> SUFFICES ASSUME NEW i \in 1 .. Len(s)
                   PROVE  s[i] \in {Head(s)} \cup Documents(Tail(s))
          BY <1>1 DEF Documents
      <2>1. CASE i = 1
            BY <1>1, <2>1
      <2>2. CASE i # 1
            <3>1. i - 1 \in 1 .. Len(Tail(s))
                  BY <1>1, <2>2
            <3>2. Tail(s)[i - 1] = s[i]
                  BY <1>1, <3>1
            <3> QED BY <1>2, <3>1, <3>2 DEF Documents
      <2> QED BY <2>1, <2>2
<1>5. {Head(s)} \cup Documents(Tail(s)) \subseteq Documents(s)
      <2>1. ASSUME NEW i \in 1 .. Len(Tail(s))
            PROVE  Tail(s)[i] \in Documents(s)
            <3>1. i + 1 \in 1 .. Len(s) /\ Tail(s)[i] = s[i + 1]
                  BY <1>1
            <3> QED BY <1>1, <3>1 DEF Documents
      <2>2. Head(s) \in Documents(s)
            BY <1>1 DEF Documents
      <2> QED BY <1>2, <2>1, <2>2 DEF Documents
<1> QED BY <1>3, <1>4, <1>5

LEMMA FileIntact ==
    ASSUME NEW file \in Documents(MonitoringFiles)
    PROVE  /\ Intact(file) /\ getObjects(file) = file
           /\ Documents(file) = Contents(file) /\ file \in Seq(Documents(file))
<1>1. Intact(file)
      BY FilesIntact DEF Documents
<1>2. file \in Seq(Contents(file))
      BY <1>1 DEF Intact
<1>3. Documents(file) = Contents(file)
      <2>1. \A i \in DOMAIN file : file[i] \in Contents(file)
            BY <1>2, ElementOfSeq, LenProperties
      <2> QED BY <2>1 DEF Documents, Contents
<1> QED BY <1>1, <1>2, <1>3, WholeFile

-----------------------------------------------------------------------------
(* The steps                                                               *)

LEMMA BeginStep ==
    ASSUME NEW op, NEW list, Begin(op, list),
           \/ op = "ProvisionMonitoring" /\ list = MonitoringFiles
           \/ /\ op # "ProvisionMonitoring" /\ Len(list) = 1
              /\ getObjects(list[1]) = list[1] /\ ~IsError(list[1]) =>
                    /\ list[1] \in Seq(Documents(list[1]))
                    /\ op \in {"InstallEverest", "DeleteEverest"} => list[1] = Manifest
                    /\ op = "DeleteAllMonitoringResources" =>
                          VMAgentCRD \notin present \/ list[1] = Labelled
    PROVE  ManifestInv'
<1>1. /\ operation' = op /\ files' = list /\ documents' = getObjects(list[1])
      /\ outcome' = IF IsError(list[1]) THEN "failed" ELSE "busy"
      /\ unnoticed' = (getObjects(list[1]) # list[1])
      /\ attempt' = 0 /\ failures' = 0 /\ present' = present
      BY DEF Begin
<1>2. CASE op = "ProvisionMonitoring" /\ list = MonitoringFiles
      <2>1. /\ list \in Seq(Documents(MonitoringFiles)) /\ list # <<>>
            /\ Len(list) \in Nat \ {0} /\ DOMAIN list = 1 .. Len(list)
            BY <1>2, FilesIntact, LenProperties, EmptySeq
      <2>2. list[1] \in Documents(MonitoringFiles)
            BY <1>2, <2>1 DEF Documents
      <2>3. /\ documents' = list[1] /\ ~unnoticed' /\ outcome' = "busy"
            /\ documents' \in Seq(Documents(documents'))
            /\ Documents(documents') = Contents(list[1])
            BY <1>1, <2>2, FileIntact, WholeFile
      <2>4. MonitoringObjects \subseteq Left'
            <3> SUFFICES ASSUME NEW i \in 1 .. Len(list)
                         PROVE  Contents(list[i]) \subseteq Left'
                BY <1>2, <2>1 DEF MonitoringObjects
            <3>1. CASE i = 1
                  BY <2>3, <3>1 DEF Left
            <3>2. CASE i # 1
                  BY <1>1, <2>1, <3>2 DEF Left
            <3> QED BY <3>1, <3>2
      <2>5. DoneBut(Left)'
            BY <1>1, <1>2, <2>4 DEF DoneBut
      <2>6. attempt' = failures' /\ failures' \in 0 .. 2
            BY <1>1
      <2> QED BY <1>1, <1>2, <2>1, <2>3, <2>5, <2>6 DEF ManifestInv
<1>3. CASE /\ op # "ProvisionMonitoring" /\ Len(list) = 1
           /\ getObjects(list[1]) = list[1] /\ ~IsError(list[1]) =>
                 /\ list[1] \in Seq(Documents(list[1]))
                 /\ op \in {"InstallEverest", "DeleteEverest"} => list[1] = Manifest
                 /\ op = "DeleteAllMonitoringResources" =>
                       VMAgentCRD \notin present \/ list[1] = Labelled
      <2>1. ASSUME outcome' = "busy", ~unnoticed'
            PROVE  documents' \in Seq(Documents(documents')) /\ DoneBut(Left)'
            <3>1. /\ documents' = list[1] /\ list[1] \in Seq(Documents(list[1]))
                  /\ op \in {"InstallEverest", "DeleteEverest"} => list[1] = Manifest
                  /\ op = "DeleteAllMonitoringResources" =>
                        VMAgentCRD \notin present \/ list[1] = Labelled
                  BY <1>1, <1>3, <2>1
            <3>2. Documents(list[1]) \subseteq Left'
                  BY <3>1 DEF Left
            <3>3. /\ op \in {"InstallEverest", "DeleteEverest"} =>
                        Contents(Manifest) \subseteq Left'
                  /\ op = "DeleteAllMonitoringResources" =>
                        VMAgentCRD \notin present \/ Contents(Labelled) \subseteq Left'
                  BY <3>1, <3>2 DEF Contents
            <3>4. DoneBut(Left)'
                  BY <1>1, <1>3, <3>3 DEF DoneBut, Gone
            <3> QED BY <3>1, <3>4
      <2> QED BY <1>1, <1>3, <2>1 DEF ManifestInv
<1> QED BY <1>2, <1>3

LEMMA BeginsWith ==
    ASSUME \/ ProvisionMonitoring \/ InstallEverest \/ DeleteEverest
           \/ DeleteAllMonitoringResources
    PROVE  ManifestInv'
<1>1. Manifest \in Seq(Documents(Manifest))
      <2>1. Manifest \in Seq(Contents(Manifest))
            BY FilesIntact DEF Intact
      <2>2. Contents(Manifest) \subseteq Documents(Manifest)
            BY DEF Contents
      <2> QED BY <2>1, <2>2, SeqMonotonic
<1>2. ASSUME NEW op \in {"InstallEverest", "DeleteEverest"}, NEW body \in getManifestData,
             Begin(op, <<body>>)
      PROVE  ManifestInv'
      <2>1. Len(<<body>>) = 1 /\ <<body>>[1] = body
            OBVIOUS
      <2>2. getObjects(body) = body /\ ~IsError(body) => body = Manifest
            BY BodyTaken
      <2> QED BY <1>1, <1>2, <2>1, <2>2, BeginStep
<1>3. CASE ProvisionMonitoring
      BY <1>3, BeginStep DEF ProvisionMonitoring
<1>4. CASE DeleteAllMonitoringResources
      <2> DEFINE op == "DeleteAllMonitoringResources"
      <2>1. CASE Begin(op, <<Labelled>>)
            <3>1. Len(<<Labelled>>) = 1 /\ <<Labelled>>[1] = Labelled
                  OBVIOUS
            <3> QED BY <2>1, <3>1, FilesIntact, BeginStep
      <2>2. CASE VMAgentCRD \notin present /\ Begin(op, << <<>> >>)
            <3>1. Len(<< <<>> >>) = 1 /\ << <<>> >>[1] = <<>>
                  OBVIOUS
            <3>2. <<>> \in Seq(Documents(<<>>))
                  OBVIOUS
            <3> QED BY <2>2, <3>1, <3>2, BeginStep
      <2> QED BY <1>4, <2>1, <2>2 DEF DeleteAllMonitoringResources
<1> QED BY <1>2, <1>3, <1>4 DEF InstallEverest, DeleteEverest

LEMMA ApplyStep ==
    ASSUME ManifestInv, ApplyDocument
    PROVE  ManifestInv'
<1>1. /\ outcome = "busy" /\ operation \notin {"DeleteEverest", "DeleteAllMonitoringResources"}
      /\ documents # <<>> /\ documents' = Tail(documents)
      /\ present' = present \cup {Head(documents)}
      /\ UNCHANGED <<operation, files, attempt, outcome, unnoticed, failures>>
      BY DEF ApplyDocument, InProgress, Deletes
<1>2. ASSUME ~unnoticed
      PROVE  /\ documents' \in Seq(Documents(documents')) /\ DoneBut(Left)'
             /\ Documents(documents') \subseteq Documents(documents)
      <2>1. documents \in Seq(Documents(documents)) /\ DoneBut(Left)
            BY <1>1, <1>2 DEF ManifestInv
      <2>2. /\ documents' \in Seq(Documents(documents'))
            /\ Documents(documents) = {Head(documents)} \cup Documents(documents')
            BY <1>1, <2>1, DocumentsSplit
      <2>3. present \cup Left \subseteq present' \cup Left'
            BY <1>1, <2>2 DEF Left
      <2>4. DoneBut(Left)'
            BY <1>1, <2>1, <2>3 DEF DoneBut
      <2> QED BY <2>2, <2>4
<1>3. operation = "ProvisionMonitoring" => ~unnoticed
      BY DEF ManifestInv
<1> QED BY <1>1, <1>2, <1>3 DEF ManifestInv

LEMMA ApplyFailsStep ==
    ASSUME ManifestInv, ApplyFails
    PROVE  ManifestInv'
<1>1. /\ outcome = "busy" /\ operation \notin {"DeleteEverest", "DeleteAllMonitoringResources"}
      /\ failures' = IF failures < 3 THEN failures + 1 ELSE failures
      /\ UNCHANGED <<present, operation, files, unnoticed>>
      BY DEF ApplyFails, InProgress, Deletes
<1>2. CASE operation # "ProvisionMonitoring"
      BY <1>1, <1>2 DEF ApplyFails, Fail, ManifestInv
<1>3. CASE operation = "ProvisionMonitoring" /\ attempt < 2
      <2>1. /\ attempt' = attempt + 1 /\ documents' = getObjects(Head(files))
            /\ outcome' = outcome
            BY <1>3 DEF ApplyFails, Retry
      <2>2. /\ files \in Seq(Documents(MonitoringFiles)) \ {<<>>}
            /\ Documents(documents) \subseteq Contents(files[1])
            /\ attempt = failures /\ failures \in 0 .. 2 /\ ~unnoticed /\ DoneBut(Left)
            BY <1>1, <1>3 DEF ManifestInv
      <2>3. Head(files) = files[1] /\ files[1] \in Documents(MonitoringFiles)
            BY <2>2, HeadTailProperties
      <2>4. documents' = files[1] /\ documents' \in Seq(Documents(documents'))
            /\ Documents(documents') = Contents(files[1])
            BY <2>1, <2>3, FileIntact
      <2>5. Left \subseteq Left'
            BY <1>1, <2>2, <2>4 DEF Left
      <2>6. DoneBut(Left)'
            BY <1>1, <1>3, <2>2, <2>5 DEF DoneBut
      <2>7. attempt' = failures' /\ failures' \in 0 .. 2
            BY <1>1, <1>3, <2>1, <2>2
      <2> QED BY <1>1, <1>3, <2>1, <2>2, <2>4, <2>6, <2>7 DEF ManifestInv
<1>4. CASE operation = "ProvisionMonitoring" /\ ~(attempt < 2)
      <2>1. attempt = 2 /\ outcome' = "failed"
            BY <1>4 DEF ApplyFails, Retry, Fail
      <2>2. failures' = 3 /\ ~unnoticed
            BY <1>1, <1>4, <2>1 DEF ManifestInv
      <2> QED BY <1>1, <2>1, <2>2 DEF ManifestInv
<1> QED BY <1>2, <1>3, <1>4

LEMMA DeleteStep ==
    ASSUME ManifestInv, DeleteDocument
    PROVE  ManifestInv'
<1>1. /\ outcome = "busy" /\ operation \in {"DeleteEverest", "DeleteAllMonitoringResources"}
      /\ documents # <<>> /\ UNCHANGED <<operation, files, failures>>
      BY DEF DeleteDocument, InProgress, Deletes
<1>2. CASE /\ present' = present \ {Head(documents)} /\ documents' = Tail(documents)
           /\ UNCHANGED <<attempt, outcome, unnoticed>>
      <2>1. ASSUME ~unnoticed
            PROVE  documents' \in Seq(Documents(documents')) /\ DoneBut(Left)'
            <3>1. documents \in Seq(Documents(documents)) /\ DoneBut(Left)
                  BY <1>1, <2>1 DEF ManifestInv
            <3>2. /\ documents' \in Seq(Documents(documents'))
                  /\ Documents(documents) = {Head(documents)} \cup Documents(documents')
                  BY <1>1, <1>2, <3>1, DocumentsSplit
            <3>3. present' \ Left' \subseteq present \ Left
                  BY <1>1, <1>2, <3>2 DEF Left
            <3>4. present' \subseteq present
                  BY <1>2
            <3>5. DoneBut(Left)'
                  BY <1>1, <3>1, <3>3, <3>4 DEF DoneBut, Gone
            <3> QED BY <3>2, <3>5
      <2> QED BY <1>1, <1>2, <2>1 DEF ManifestInv
<1>3. CASE unnoticed' = TRUE /\ UNCHANGED <<present, attempt, outcome>>
      BY <1>1, <1>3 DEF ManifestInv
<1>4. CASE Fail
      BY <1>1, <1>4 DEF Fail, ManifestInv
<1> QED BY <1>2, <1>3, <1>4 DEF DeleteDocument

LEMMA FileDoneStep ==
    ASSUME ManifestInv, FileDone
    PROVE  ManifestInv'
<1>1. /\ outcome = "busy" /\ documents = <<>> /\ files' = Tail(files)
      /\ documents' = IF Len(files) > 1 THEN getObjects(files[2]) ELSE <<>>
      /\ outcome' = IF Len(files) > 1 THEN "busy"
                    ELSE IF operation = "InstallEverest" THEN "waiting" ELSE "ok"
      /\ attempt' = 0 /\ failures' = 0
      /\ UNCHANGED <<present, operation, unnoticed>>
      BY DEF FileDone, InProgress
<1>2. Documents(documents) = {}
      BY <1>1, NoDocuments
<1>3. CASE Len(files) > 1
      <2>1. operation = "ProvisionMonitoring"
            BY <1>1, <1>3 DEF ManifestInv
      <2>2. /\ files \in Seq(Documents(MonitoringFiles)) /\ files # <<>>
            /\ ~unnoticed /\ DoneBut(Left)
            BY <1>1, <2>1 DEF ManifestInv
      <2>3. /\ Tail(files) \in Seq(Documents(MonitoringFiles))
            /\ Len(Tail(files)) = Len(files) - 1 /\ Len(files) \in Nat
            /\ \A i \in 1 .. Len(Tail(files)) : Tail(files)[i] = files[i + 1]
            BY <2>2, HeadTailProperties, LenProperties
      <2>4. Tail(files)[1] = files[2] /\ Tail(files) # <<>>
            <3>1. 1 \in 1 .. Len(Tail(files))
                  BY <1>3, <2>3
            <3>2. Tail(files)[1] = files[1 + 1]
                  BY <2>3, <3>1
            <3>3. Len(<<>>) = 0
                  OBVIOUS
            <3>4. Tail(files) # <<>>
                  <4>1. Len(Tail(files)) # 0
                        BY <1>3, <2>3
                  <4> QED BY <3>3, <4>1, Zenon
            <3> QED BY <3>2, <3>4
      <2>5. files[2] \in Documents(MonitoringFiles)
            BY <1>3, <2>2, <2>3, ElementOfSeq
      <2>6. /\ documents' = files[2] /\ documents' \in Seq(Documents(documents'))
            /\ Documents(documents') = Contents(files[2])
            BY <1>1, <1>3, <2>5, FileIntact
      <2>7. Left \subseteq Left'
            <3> SUFFICES ASSUME NEW i \in 2 .. Len(files)
                         PROVE  Contents(files[i]) \subseteq Left'
                BY <1>2 DEF Left
            <3>1. CASE i = 2
                  BY <2>6, <3>1 DEF Left
            <3>2. CASE i # 2
                  <4>1. i - 1 \in 2 .. Len(Tail(files)) /\ Tail(files)[i - 1] = files[i]
                        BY <2>3, <3>2
                  <4> QED BY <1>1, <4>1 DEF Left
            <3> QED BY <3>1, <3>2
      <2>8. DoneBut(Left)'
            BY <1>1, <2>1, <2>2, <2>7 DEF DoneBut
      <2>9. attempt' = failures' /\ failures' \in 0 .. 2
            BY <1>1
      <2> QED BY <1>1, <1>3, <2>1, <2>2, <2>3, <2>4, <2>6, <2>8, <2>9 DEF ManifestInv
<1>4. CASE ~(Len(files) > 1)
      <2>1. Len(files) \in Nat
            BY <1>1, LenProperties DEF ManifestInv
      <2>2. Left = {}
            BY <1>2, <1>4, <2>1 DEF Left
      <2>3. ~unnoticed => DoneBut({})'
            BY <1>1, <2>2 DEF ManifestInv, DoneBut, Gone
      <2> QED BY <1>1, <1>4, <2>3 DEF ManifestInv
<1> QED BY <1>3, <1>4

LEMMA StepManifest == ManifestInv /\ [ManifestNext]_manifestVars => ManifestInv'
<1> SUFFICES ASSUME ManifestInv, [ManifestNext]_manifestVars PROVE ManifestInv'
    OBVIOUS
<1>1. CASE UNCHANGED manifestVars
      BY <1>1 DEF manifestVars, ManifestInv, Left, DoneBut, Gone
<1>2. CASE RolloutDone
      BY <1>2 DEF RolloutDone, ManifestInv, DoneBut, Gone
<1>3. CASE RolloutFails
      BY <1>3 DEF RolloutFails, Fail, ManifestInv
<1> QED BY <1>1, <1>2, <1>3, BeginsWith, ApplyStep, ApplyFailsStep, DeleteStep, FileDoneStep
        DEF ManifestNext, ManifestProgress

(* What a call reports is what it did, for any files: success means that   *)
(* every object of every file was applied, or deleted, whatever attempts   *)
(* failed before; monitoring gives up after three failures with one file.  *)
THEOREM OutcomeTrue == ManifestSpec => []OutcomeIsTrue
<1>1. ManifestInit => ManifestInv
      BY DEF ManifestInit, ManifestInv, DoneBut
<1>2. ManifestInv => OutcomeIsTrue
      BY DEF ManifestInv, OutcomeIsTrue, DoneBut, Gone
<1> QED BY <1>1, <1>2, StepManifest, PTL DEF ManifestSpec

(* What is applied next is an object, whatever page the manifest is.       *)
ManifestTyped == /\ ManifestTypeOK
                 /\ outcome = "busy" /\ ~Deletes => documents \in Seq(Objects)

LEMMA MonitoringTyped ==
    ASSUME NEW file \in Documents(MonitoringFiles)
    PROVE  getObjects(file) \in Seq(Objects)
<1>1. getObjects(file) = file /\ file \in Seq(Contents(file))
      BY FileIntact DEF Intact
<1>2. Contents(file) \subseteq Objects
      BY DEF Documents, MonitoringObjects, Objects
<1> QED BY <1>1, <1>2, SeqMonotonic

(* Of any documents only objects are applied: what cannot be decoded ends  *)
(* the file, and what is no object is an error.                            *)
LEMMA PageTyped ==
    ASSUME NEW body \in Seq(Objects \cup {Broken, Alien}), ~IsError(body)
    PROVE  getObjects(body) \in Seq(Objects)
<1> DEFINE D == Objects \cup {Broken, Alien}
           m == UpTo(body, Broken)
           s == getObjects(body)
<1>1. m \in 0 .. Len(body) /\ \A i \in 1 .. m : body[i] # Broken
      BY UpToIs
<1>2. /\ Len(body) \in Nat /\ DOMAIN body = 1 .. Len(body)
      /\ \A i \in 1 .. Len(body) : body[i] \in D
      BY LenProperties, ElementOfSeq
<1> HIDE DEF D, m
<1>3. /\ s \in Seq(D) /\ Len(s) = m /\ DOMAIN s = 1 .. m
      /\ \A i \in 1 .. m : s[i] = body[i]
      <2>1. s = SubSeq(body, 1, m)
            BY DEF getObjects, m
      <2>2. \A i \in 1 .. m : i \in 1 .. Len(body)
            BY <1>1, <1>2
      <2>3. m \in Nat /\ m <= Len(body)
            BY <1>1, <1>2
      <2>4. s = [i \in 1 .. m |-> body[i]]
            BY <2>1, <2>3 DEF SubSeq
      <2> HIDE DEF s
      <2>5. s \in [1 .. m -> D]
            BY <1>2, <2>2, <2>4
      <2>6. s \in Seq(D)
            BY <2>3, <2>5, SeqDef
      <2>7. Len(s) = m
            BY <2>3, <2>4, <2>6, LenProperties
      <2> QED BY <2>4, <2>6, <2>7
<1>4. UpTo(s, Alien) = m
      <2> HIDE DEF s
      <2>1. UpTo(s, Alien) \in 0 .. m /\ m \in Nat
            BY <1>1, <1>2, <1>3, UpToIs
      <2>2. ~(UpTo(s, Alien) < m)
            BY <1>3 DEF IsError, s
      <2> QED BY <2>1, <2>2
<1>5. \A i \in 1 .. m : s[i] # Alien /\ s[i] # Broken /\ s[i] \in D
      <2>1. \A i \in 1 .. m : s[i] # Alien
            BY <1>3, <1>4, UpToIs
      <2>2. \A i \in 1 .. m : i \in 1 .. Len(body)
            BY <1>1, <1>2
      <2> QED BY <1>1, <1>2, <1>3, <2>1, <2>2
<1> HIDE DEF s
<1>6. \A i \in 1 .. m : s[i] \in Objects
      BY <1>5 DEF D
<1>7. s \in [1 .. m -> Objects] /\ m \in Nat
      <2>1. s = [i \in 1 .. m |-> s[i]]
            BY <1>1, <1>2, <1>3, SeqDef
      <2> QED BY <1>1, <1>2, <1>6, <2>1
<1>8. s \in Seq(Objects)
      BY <1>7, SeqDef
<1> QED BY <1>8 DEF s

LEMMA PagesOfDocuments ==
    getManifestData \subseteq Seq(Objects \cup {Broken, Alien})
<1> DEFINE D == Objects \cup {Broken, Alien}
<1>1. Manifest \in Seq(D)
      <2>1. Manifest \in Seq(Contents(Manifest)) /\ Contents(Manifest) \subseteq D
            BY FilesIntact DEF Intact, Objects
      <2> HIDE DEF D
      <2> QED BY <2>1, SeqMonotonic
<1>2. Broken \in D /\ Alien \in D
      OBVIOUS
<1> HIDE DEF D
<1>3. <<Broken>> \in Seq(D) /\ <<Alien>> \in Seq(D)
      BY <1>2
<1> QED BY <1>1, <1>3 DEF getManifestData, D

LEMMA BeginTyped ==
    ASSUME ManifestTypeOK,
           \/ ProvisionMonitoring \/ InstallEverest \/ DeleteEverest
           \/ DeleteAllMonitoringResources
    PROVE  ManifestTyped'
<1>1. ASSUME NEW op, NEW list, Begin(op, list),
             op \in {"ProvisionMonitoring", "InstallEverest",
                     "DeleteEverest", "DeleteAllMonitoringResources"},
             op \in {"ProvisionMonitoring", "InstallEverest"} /\ ~IsError(list[1])
                 => getObjects(list[1]) \in Seq(Objects)
      PROVE  ManifestTyped'
      BY <1>1 DEF Begin, ManifestTyped, ManifestTypeOK, Deletes
<1>2. CASE ProvisionMonitoring
      <2>1. MonitoringFiles[1] \in Documents(MonitoringFiles)
            <3>1. 1 \in DOMAIN MonitoringFiles
                  BY FilesIntact, LenProperties, EmptySeq
            <3> QED BY <3>1 DEF Documents
      <2> QED BY <1>1, <1>2, <2>1, MonitoringTyped DEF ProvisionMonitoring
<1>3. ASSUME NEW op \in {"InstallEverest", "DeleteEverest"},
             NEW body \in getManifestData, Begin(op, <<body>>)
      PROVE  ManifestTyped'
      <2>1. <<body>>[1] = body
            OBVIOUS
      <2> QED BY <1>1, <1>3, <2>1, PageTyped, PagesOfDocuments
<1>4. CASE DeleteAllMonitoringResources
      BY <1>1, <1>4 DEF DeleteAllMonitoringResources
<1> QED BY <1>2, <1>3, <1>4 DEF InstallEverest, DeleteEverest

LEMMA ProgressTyped ==
    ASSUME ManifestInv, ManifestTyped, ManifestProgress
    PROVE  ManifestTyped'
<1> USE DEF ManifestTyped, ManifestTypeOK, InProgress
<1>1. CASE ApplyDocument
      <2>1. documents \in Seq(Objects) /\ documents # <<>>
            BY <1>1 DEF ApplyDocument
      <2>2. Head(documents) \in Objects /\ Tail(documents) \in Seq(Objects)
            BY <2>1, HeadTailProperties
      <2> QED BY <1>1, <2>2 DEF ApplyDocument
<1>2. CASE ApplyFails
      <2>1. failures' \in 0 .. 3
            BY <1>2 DEF ApplyFails
      <2>2. CASE operation # "ProvisionMonitoring" \/ Fail
            BY <1>2, <2>1, <2>2 DEF ApplyFails, Fail
      <2>3. CASE operation = "ProvisionMonitoring" /\ ~Fail
            <3>1. /\ attempt' \in 0 .. 2 /\ outcome' = outcome
                  /\ documents' = getObjects(Head(files))
                  BY <1>2, <2>3 DEF ApplyFails, Retry
            <3>2. Head(files) \in Documents(MonitoringFiles)
                  BY <1>2, <2>3, HeadTailProperties DEF ApplyFails, ManifestInv
            <3>3. documents' \in Seq(Objects)
                  BY <3>1, <3>2, MonitoringTyped
            <3> QED BY <1>2, <2>1, <3>1, <3>3 DEF ApplyFails
      <2> QED BY <2>2, <2>3
<1>3. CASE DeleteDocument
      BY <1>3 DEF DeleteDocument, Fail, Deletes
<1>4. CASE FileDone
      <2>1. outcome' \in {"busy", "waiting", "ok"}
            BY <1>4 DEF FileDone
      <2>2. outcome' = "busy" => documents' \in Seq(Objects)
            <3> SUFFICES ASSUME Len(files) > 1
                         PROVE  documents' \in Seq(Objects)
                BY <1>4 DEF FileDone
            <3>1. files \in Seq(Documents(MonitoringFiles))
                  BY <1>4 DEF FileDone, ManifestInv
            <3>2. files[2] \in Documents(MonitoringFiles)
                  BY <3>1, ElementOfSeq, LenProperties
            <3> QED BY <1>4, <3>2, MonitoringTyped DEF FileDone
      <2> QED BY <1>4, <2>1, <2>2 DEF FileDone
<1> QED BY <1>1, <1>2, <1>3, <1>4 DEF ManifestProgress

(* The variables of the manifests keep their types, for any files: what is *)
(* on the cluster is an object that was in one of them, also where the     *)
(* page taken for the manifest is none, and no file is tried more than     *)
(* three times.                                                            *)
THEOREM ManifestsTyped == ManifestSpec => []ManifestTypeOK
<1> DEFINE Typed == ManifestInv /\ ManifestTyped
<1>1. ManifestInit => Typed
      <2> SUFFICES ASSUME ManifestInit PROVE ManifestInv /\ ManifestTyped
          OBVIOUS
      <2>1. ManifestInv
            BY DEF ManifestInit, ManifestInv, DoneBut
      <2>2. ManifestTyped
            <3>1. outcome = "ok" /\ unnoticed = FALSE
                  BY DEF ManifestInit
            <3>2. /\ present \subseteq Objects /\ operation = "none"
                  /\ attempt = 0 /\ failures = 0
                  BY DEF ManifestInit
            <3>3. attempt \in 0 .. 2 /\ failures \in 0 .. 3
                  BY <3>2
            <3>4. ManifestTypeOK
                  BY <3>1, <3>2, <3>3, Zenon DEF ManifestTypeOK
            <3>5. outcome # "busy"
                  BY <3>1
            <3> QED BY <3>4, <3>5, Zenon DEF ManifestTyped
      <2> QED BY <2>1, <2>2
<1>2. Typed /\ [ManifestNext]_manifestVars => Typed'
      <2> SUFFICES ASSUME ManifestInv, ManifestTyped, [ManifestNext]_manifestVars
                   PROVE  ManifestTyped'
          BY StepManifest
      <2>1. CASE UNCHANGED manifestVars
            BY <2>1 DEF manifestVars, ManifestTyped, ManifestTypeOK, Deletes
      <2>2. CASE RolloutFails
            BY <2>2 DEF RolloutFails, Fail, ManifestTyped, ManifestTypeOK
      <2>3. CASE RolloutDone
            BY <2>3 DEF RolloutDone, ManifestTyped, ManifestTypeOK
      <2> QED BY <2>1, <2>2, <2>3, BeginTyped, ProgressTyped
              DEF ManifestNext, ManifestTyped
<1>3. Typed => ManifestTypeOK
      BY DEF ManifestTyped
<1> QED BY <1>1, <1>2, <1>3, PTL DEF ManifestSpec

-----------------------------------------------------------------------------
(* CustomResources: for any DB namespaces, resources and callers           *)

Clients == {DBClusters, DBClusterBackups, DBClusterRestores, DBEngines, BackupStorage,
            MonitoringConfig}

LEMMA ClientsDiffer ==
    /\ OfDatabases = {DBClusters, DBClusterBackups, DBClusterRestores, DBEngines}
    /\ MonitoringConfig \notin OfDatabases /\ BackupStorage \notin OfDatabases
    /\ MonitoringConfig # BackupStorage
    /\ \A x \in Clients : "list" \in x.verbs
    /\ \A x \in OfDatabases : "create" \notin x.verbs /\ "update" \notin x.verbs
<1> USE DEF DBClusters, DBClusterBackups, DBClusterRestores, DBEngines, BackupStorage,
            MonitoringConfig, Client, Reads, Writes
<1>1. OfDatabases = {DBClusters, DBClusterBackups, DBClusterRestores, DBEngines}
      BY DEF OfDatabases
<1>2. \A x \in OfDatabases : x.resource \notin {"backupstorages", "monitoringconfigs"}
      BY DEF OfDatabases
<1>3. /\ BackupStorage.resource = "backupstorages"
      /\ MonitoringConfig.resource = "monitoringconfigs"
      OBVIOUS
<1>4. \A x \in Clients : "list" \in x.verbs
      BY DEF Clients
<1>5. \A x \in OfDatabases : "create" \notin x.verbs /\ "update" \notin x.verbs
      BY DEF OfDatabases
<1> QED BY <1>1, <1>2, <1>3, <1>4, <1>5

LEMMA KeyClients ==
    ASSUME NEW k \in Keys
    PROVE  /\ k.client \in Clients
           /\ k.client \in OfDatabases => k.namespace \in Homes
           /\ k.client = MonitoringConfig => k.namespace = SystemNS
<1>1. CASE k \in [client : OfDatabases, name : Names, namespace : Homes]
      BY <1>1, ClientsDiffer DEF Clients
<1>2. CASE k \in [client : {BackupStorage}, namespace : {SystemNS}, name : Storages]
      BY <1>2, ClientsDiffer DEF Clients
<1>3. CASE k \in [client : {MonitoringConfig}, namespace : {SystemNS}, name : Names]
      BY <1>3, ClientsDiffer DEF Clients
<1> QED BY <1>1, <1>2, <1>3 DEF Keys

(* The lists of a scan are those of each of the three kinds of users in    *)
(* each of the DB namespaces.                                              *)
LEMMA ScanAll ==
    /\ Scan # <<>> /\ Scan \in Seq(OfDatabases \X Homes)
    /\ \A x \in {DBClusters, DBClusterBackups, DBClusterRestores}, n \in Homes :
          \E j \in DOMAIN Scan : Scan[j] = <<x, n>>
<1> DEFINE N == Len(DBNamespaces)
<1>1. N \in Nat \ {0} /\ DOMAIN DBNamespaces = 1 .. N
      BY DBNamespacesDistinct, EmptySeq, LenProperties
<1>2. DOMAIN Scan = 1 .. 3 * N
      BY DEF Scan
<1>3. ASSUME NEW i \in 1 .. 3 * N
      PROVE  /\ ((i - 1) % 3) + 1 \in 1 .. 3
             /\ ((i - 1) \div 3) + 1 \in 1 .. N
      BY <1>1
<1>4. ASSUME NEW i \in 1 .. 3 * N
      PROVE  /\ Scan[i] = <<Users[((i - 1) % 3) + 1], DBNamespaces[((i - 1) \div 3) + 1]>>
             /\ Scan[i] \in OfDatabases \X Homes
      <2>1. Scan[i] = <<Users[((i - 1) % 3) + 1], DBNamespaces[((i - 1) \div 3) + 1]>>
            BY DEF Scan
      <2>2. \A a \in 1 .. 3 : Users[a] \in OfDatabases
            BY DEF Users, OfDatabases
      <2>3. \A b \in 1 .. N : DBNamespaces[b] \in Homes
            BY <1>1 DEF Homes
      <2> QED BY <1>3, <2>1, <2>2, <2>3
<1>5. Scan # <<>> /\ Scan \in Seq(OfDatabases \X Homes)
      <2>1. Scan \in [1 .. 3 * N -> OfDatabases \X Homes]
            BY <1>4 DEF Scan
      <2>2. 3 * N \in Nat /\ 1 \in DOMAIN Scan
            BY <1>1, <1>2
      <2>3. Scan \in Seq(OfDatabases \X Homes)
            BY <2>1, <2>2, SeqDef
      <2> QED BY <2>2, <2>3
<1>6. ASSUME NEW a \in 1 .. 3, NEW n \in Homes
      PROVE  \E j \in DOMAIN Scan : Scan[j] = <<Users[a], n>>
      <2>1. PICK b \in 1 .. N : n = DBNamespaces[b]
            BY <1>1 DEF Homes
      <2> DEFINE j == 3 * (b - 1) + a
      <2>2. j \in 1 .. 3 * N /\ ((j - 1) % 3) + 1 = a
            /\ ((j - 1) \div 3) + 1 = b
            BY <1>1
      <2> HIDE DEF j
      <2>3. Scan[j] = <<Users[((j - 1) % 3) + 1], DBNamespaces[((j - 1) \div 3) + 1]>>
            BY <1>4, <2>2
      <2>4. Scan[j] = <<Users[a], n>>
            BY <2>1, <2>2, <2>3
      <2> QED BY <1>2, <2>2, <2>4
<1>7. Users[1] = DBClusters /\ Users[2] = DBClusterBackups /\ Users[3] = DBClusterRestores
      BY DEF Users
<1> QED BY <1>5, <1>6, <1>7

(* What is asked of one caller.                                            *)
Seen(c) ==
    reply[c].state = "ok" =>
        /\ reply[c].items \subseteq referred[c]
        /\ (\E k \in steady[c] : k.client \in LookedThrough(wanted[c]))
             => reply[c].items # {}
        /\ wanted[c] \in Secrets => steady[c] \subseteq reply[c].items

(* A caller whose own call nothing has changed.                            *)
LEMMA Unmoved ==
    ASSUME ResourceInv, NEW d \in Caller, stored' = stored, lists'[d] = lists[d],
           wanted'[d] = wanted[d], reply'[d] = reply[d], steady'[d] = steady[d],
           referred'[d] = referred[d]
    PROVE  /\ steady'[d] \subseteq Keys /\ Seen(d)'
           /\ Busy(d)' => Asking(d)'
<1>1. steady'[d] \subseteq Keys
      BY DEF ResourceInv
<1>2. Seen(d)'
      <2>1. Seen(d)
            BY DEF ResourceInv, SteadyUseSeen, Seen
      <2> QED BY <2>1 DEF Seen
<1>3. ASSUME Busy(d)'
      PROVE  Asking(d)'
      <2>1. Asking(d)
            BY <1>3 DEF Busy, ResourceInv
      <2> QED BY <2>1 DEF Asking, StillToRead
<1> QED BY <1>1, <1>2, <1>3

LEMMA AskInv ==
    ASSUME ResourceInv, NEW c \in Caller, NEW ref \in Refs, NEW todo, Ask(c, ref, todo),
           \/ ref \in Storages /\ todo = Scan
           \/ ref \in Secrets /\ todo = << <<MonitoringConfig, SystemNS>> >>
    PROVE  ResourceInv'
<1>1. /\ lists' = [lists EXCEPT ![c] = todo] /\ wanted' = [wanted EXCEPT ![c] = ref]
      /\ reply' = [reply EXCEPT ![c] = [state |-> "busy", items |-> {}]]
      /\ steady' = [steady EXCEPT ![c] = Referring(stored, ref)]
      /\ referred' = [referred EXCEPT ![c] = Referring(stored, ref)]
      /\ stored' = stored
      BY DEF Ask
<1>2. ASSUME NEW d \in Caller
      PROVE  /\ steady'[d] \subseteq Keys /\ Seen(d)'
             /\ Busy(d)' => Asking(d)'
      <2>1. CASE d # c
            <3>1. /\ lists'[d] = lists[d] /\ wanted'[d] = wanted[d]
                  /\ reply'[d] = reply[d] /\ steady'[d] = steady[d]
                  /\ referred'[d] = referred[d]
                  BY <1>1, <2>1 DEF ResourceInv
            <3> QED BY <1>1, <3>1, Unmoved
      <2>2. CASE d = c
            <3>1. /\ lists'[c] = todo /\ wanted'[c] = ref /\ reply'[c].state = "busy"
                  /\ steady'[c] = Referring(stored, ref)
                  /\ referred'[c] = Referring(stored, ref)
                  BY <1>1 DEF ResourceInv
            <3>2. Referring(stored, ref) \subseteq Keys
                  BY DEF Referring, ResourceInv
            <3>3. CASE ref \in Storages /\ todo = Scan
                  <4>1. ref \notin Secrets
                        BY <3>3, RefsDistinct
                  <4>2. Scan \in Seq((OfDatabases \cup {MonitoringConfig})
                                       \X (Homes \cup {SystemNS}))
                        <5>1. OfDatabases \X Homes \subseteq
                                (OfDatabases \cup {MonitoringConfig}) \X (Homes \cup {SystemNS})
                              OBVIOUS
                        <5> QED BY <5>1, ScanAll, SeqMonotonic
                  <4>3. ASSUME NEW k \in Referring(stored, ref),
                               k.client \in LookedThrough(ref)
                        PROVE  \E j \in DOMAIN Scan : Scan[j] = <<k.client, k.namespace>>
                        <5>1. k.client \in {DBClusters, DBClusterBackups, DBClusterRestores}
                              BY <3>3, <4>3 DEF LookedThrough
                        <5>2. k.namespace \in Homes
                              BY <3>2, <5>1, KeyClients, ClientsDiffer
                        <5> QED BY <5>1, <5>2, ScanAll
                  <4>4. \A k \in steady'[c] :
                           k.client \in LookedThrough(wanted'[c]) => StillToRead(c, k)'
                        BY <3>1, <3>3, <4>3 DEF StillToRead
                  <4>5. Asking(c)'
                        BY <1>1, <3>1, <3>3, <4>1, <4>2, <4>4, ScanAll DEF Asking
                  <4>6. Seen(c)'
                        BY <3>1 DEF Seen
                  <4> QED BY <2>2, <3>1, <3>2, <4>5, <4>6
            <3>4. CASE ref \in Secrets /\ todo = << <<MonitoringConfig, SystemNS>> >>
                  <4>1. ref \notin Storages
                        BY <3>4, RefsDistinct
                  <4>2. todo \in Seq((OfDatabases \cup {MonitoringConfig})
                                      \X (Homes \cup {SystemNS}))
                        BY <3>4
                  <4>3. ASSUME NEW k \in Referring(stored, ref),
                               k.client \in LookedThrough(ref)
                        PROVE  \E j \in DOMAIN todo : todo[j] = <<k.client, k.namespace>>
                        <5>1. k.client = MonitoringConfig /\ k.namespace = SystemNS
                              BY <3>2, <4>1, <4>3, KeyClients DEF LookedThrough
                        <5> QED BY <3>4, <5>1
                  <4>4. \A k \in steady'[c] :
                           k.client \in LookedThrough(wanted'[c]) => StillToRead(c, k)'
                        BY <3>1, <3>4, <4>3 DEF StillToRead
                  <4>5. Asking(c)'
                        <5>1. todo # <<>>
                              BY <3>4
                        <5>2. wanted'[c] \in Secrets =>
                                 lists'[c] = << <<MonitoringConfig, SystemNS>> >>
                              BY <3>1, <3>4
                        <5> QED BY <1>1, <3>1, <4>2, <4>4, <5>1, <5>2, Zenon DEF Asking
                  <4>6. Seen(c)'
                        BY <3>1 DEF Seen
                  <4> QED BY <2>2, <3>1, <3>2, <4>5, <4>6
            <3> QED BY <3>3, <3>4
      <2> QED BY <2>1, <2>2
<1> QED BY <1>1, <1>2 DEF ResourceInv, SteadyUseSeen, Seen

LEMMA NextListInv ==
    ASSUME ResourceInv, NEW c \in Caller, NextList(c)
    PROVE  ResourceInv'
<1> DEFINE head == Head(lists[c])
           items == List(head[1], head[2], wanted[c])
           last == (items # {}) \/ (Len(lists[c]) = 1)
<1>1. /\ lists' = [lists EXCEPT ![c] = IF last THEN <<>> ELSE Tail(@)]
      /\ reply' = IF last THEN [reply EXCEPT ![c] = [state |-> "ok", items |-> items]]
                  ELSE reply
      /\ UNCHANGED <<stored, wanted, steady, referred>>
      BY DEF NextList
<1>2. Asking(c)
      BY DEF NextList, ResourceInv
<1>3. /\ lists[c] # <<>>
      /\ head \in (OfDatabases \cup {MonitoringConfig}) \X (Homes \cup {SystemNS})
      /\ head = lists[c][1] /\ Len(lists[c]) \in Nat \ {0}
      /\ DOMAIN lists[c] = 1 .. Len(lists[c])
      BY <1>2, HeadTailProperties, LenProperties, EmptySeq DEF Asking
<1>4. items \subseteq Referring(stored, wanted[c])
      BY DEF List, Referring
<1>5. ASSUME NEW k \in steady[c], head = <<k.client, k.namespace>>
      PROVE  k \in items
      <2>1. k \in DOMAIN stored /\ stored[k] = wanted[c] /\ k \in Keys
            BY <1>2 DEF Asking, Referring, ResourceInv
      <2>2. "list" \in k.client.verbs
            BY <2>1, KeyClients, ClientsDiffer
      <2> QED BY <1>5, <2>1, <2>2 DEF List
<1>6. ASSUME last
      PROVE  Seen(c)' /\ ~Busy(c)'
      <2>1. reply'[c] = [state |-> "ok", items |-> items]
            BY <1>1, <1>6 DEF ResourceInv
      <2>2. items \subseteq referred[c]
            BY <1>2, <1>4 DEF Asking
      <2>3. ASSUME NEW k \in steady[c], k.client \in LookedThrough(wanted[c])
            PROVE  items # {}
            <3>1. CASE Len(lists[c]) = 1
                  <4>1. head = <<k.client, k.namespace>>
                        BY <1>2, <1>3, <2>3, <3>1 DEF Asking, StillToRead
                  <4> QED BY <1>5, <4>1
            <3> QED BY <1>6, <3>1
      <2>4. ASSUME wanted[c] \in Secrets, NEW k \in steady[c]
            PROVE  k \in items
            <3>1. k \in DOMAIN stored /\ stored[k] \in Secrets /\ k \in Keys
                  BY <1>2, <2>4 DEF Asking, Referring, ResourceInv
            <3>2. k.client = MonitoringConfig /\ k.namespace = SystemNS
                  BY <3>1, KeyClients DEF ResourceInv
            <3>3. head = <<MonitoringConfig, SystemNS>>
                  BY <1>2, <1>3, <2>4 DEF Asking
            <3> QED BY <1>5, <3>2, <3>3
      <2> QED BY <1>1, <2>1, <2>2, <2>3, <2>4 DEF Seen, Busy
<1>7. ASSUME ~last
      PROVE  Asking(c)' /\ Seen(c)'
      <2>1. lists'[c] = Tail(lists[c]) /\ reply' = reply
            BY <1>1, <1>7 DEF ResourceInv
      <2>2. /\ Tail(lists[c]) \in Seq((OfDatabases \cup {MonitoringConfig})
                                       \X (Homes \cup {SystemNS}))
            /\ Len(Tail(lists[c])) = Len(lists[c]) - 1
            /\ \A j \in 1 .. Len(Tail(lists[c])) : Tail(lists[c])[j] = lists[c][j + 1]
            BY <1>2, <1>3, HeadTailProperties DEF Asking
      <2>0. Len(lists[c]) # 1
            BY <1>7
      <2>3. Tail(lists[c]) # <<>>
            <3>1. Len(Tail(lists[c])) # 0
                  BY <1>3, <2>0, <2>2
            <3>2. Len(<<>>) = 0
                  OBVIOUS
            <3> QED BY <3>1, <3>2, Zenon
      <2>4. wanted[c] \notin Secrets
            <3>1. wanted[c] \in Secrets => lists[c] = << <<MonitoringConfig, SystemNS>> >>
                  BY <1>2 DEF Asking
            <3> QED BY <2>0, <3>1
      <2>5. ASSUME NEW k \in steady[c], k.client \in LookedThrough(wanted[c])
            PROVE  \E j \in DOMAIN Tail(lists[c]) :
                      Tail(lists[c])[j] = <<k.client, k.namespace>>
            <3>1. PICK j \in 1 .. Len(lists[c]) : lists[c][j] = <<k.client, k.namespace>>
                  BY <1>2, <1>3, <2>5 DEF Asking, StillToRead
            <3>2. j # 1
                  BY <1>3, <1>5, <1>7, <3>1
            <3>3. j - 1 \in 1 .. Len(Tail(lists[c]))
                  BY <1>3, <2>2, <3>1, <3>2
            <3>4. Tail(lists[c])[j - 1] = lists[c][j]
                  BY <2>2, <3>3, <3>1
            <3>5. DOMAIN Tail(lists[c]) = 1 .. Len(Tail(lists[c]))
                  BY <2>2, LenProperties
            <3> QED BY <3>1, <3>3, <3>4, <3>5
      <2>6. \A k \in steady'[c] :
               k.client \in LookedThrough(wanted'[c]) => StillToRead(c, k)'
            BY <1>1, <2>1, <2>5 DEF StillToRead
      <2>7. Asking(c)'
            BY <1>1, <1>2, <2>1, <2>2, <2>3, <2>4, <2>6 DEF Asking
      <2> QED BY <2>1, <2>7 DEF Seen, Busy, NextList
<1>8. ASSUME NEW d \in Caller \ {c}
      PROVE  Seen(d)' /\ (Busy(d)' => Asking(d)')
      <2>1. lists'[d] = lists[d] /\ reply'[d] = reply[d]
            BY <1>1 DEF ResourceInv
      <2> QED BY <1>1, <2>1, Unmoved
<1>9. DOMAIN reply' = Caller /\ DOMAIN lists' = Caller
      BY <1>1 DEF ResourceInv
<1>10. \A d \in Caller : Seen(d)' /\ (Busy(d)' => Asking(d)')
      BY <1>6, <1>7, <1>8
<1> HIDE DEF last, items, head
<1> QED BY <1>1, <1>9, <1>10 DEF ResourceInv, SteadyUseSeen, Seen

LEMMA ListFailsInv ==
    ASSUME ResourceInv, NEW c \in Caller, ListFails(c)
    PROVE  ResourceInv'
<1>1. /\ reply' = [reply EXCEPT ![c] = [state |-> "error", items |-> {}]]
      /\ lists' = [lists EXCEPT ![c] = <<>>]
      /\ UNCHANGED <<stored, wanted, steady, referred>>
      BY DEF ListFails
<1>2. ASSUME NEW d \in Caller
      PROVE  Seen(d)' /\ (Busy(d)' => Asking(d)')
      <2>1. CASE d = c
            <3>1. reply'[c].state = "error"
                  BY <1>1 DEF ResourceInv
            <3> QED BY <2>1, <3>1 DEF Seen, Busy
      <2>2. CASE d # c
            <3>1. lists'[d] = lists[d] /\ reply'[d] = reply[d]
                  BY <1>1, <2>2 DEF ResourceInv
            <3> QED BY <1>1, <3>1, Unmoved
      <2> QED BY <2>1, <2>2
<1>3. DOMAIN reply' = Caller /\ DOMAIN lists' = Caller
      BY <1>1 DEF ResourceInv
<1> QED BY <1>1, <1>2, <1>3 DEF ResourceInv, SteadyUseSeen, Seen

(* Whatever is written: the answers that were given speak of their calls,  *)
(* and those still to be given of what has stayed.                         *)
LEMMA WrittenInv ==
    ASSUME ResourceInv, NEW store, Written(store), DOMAIN store \subseteq Keys,
           \A k \in DOMAIN store : store[k] \in Secrets => k.client = MonitoringConfig
    PROVE  ResourceInv'
<1>1. /\ stored' = store /\ UNCHANGED <<lists, wanted, reply>>
      /\ DOMAIN steady' = Caller /\ DOMAIN referred' = Caller
      BY DEF Written
<1>2. ASSUME NEW c \in Caller
      PROVE  /\ steady'[c] \subseteq Keys /\ Seen(c)'
             /\ Busy(c)' => Asking(c)'
      <2>1. CASE Busy(c)
            <3>1. /\ steady'[c] = steady[c] \cap Referring(store, wanted[c])
                  /\ referred'[c] = referred[c] \cup Referring(store, wanted[c])
                  BY <2>1 DEF Written
            <3>2. Asking(c) /\ steady[c] \subseteq Keys
                  BY <2>1 DEF ResourceInv
            <3>3. Asking(c)'
                  BY <1>1, <3>1, <3>2 DEF Asking, StillToRead
            <3> QED BY <1>1, <2>1, <3>1, <3>2, <3>3 DEF Seen, Busy
      <2>2. CASE ~Busy(c)
            <3>1. steady'[c] = {} /\ referred'[c] = reply[c].items
                  BY <2>2 DEF Written
            <3> QED BY <1>1, <2>2, <3>1 DEF Seen, Busy
      <2> QED BY <2>1, <2>2
<1> QED BY <1>1, <1>2 DEF ResourceInv, SteadyUseSeen, Seen

LEMMA PutInv ==
    ASSUME ResourceInv, NEW k \in Keys, NEW ref, Put(k, ref),
           ref \in Secrets => k.client = MonitoringConfig
    PROVE  ResourceInv'
BY WrittenInv DEF Put, ResourceInv
LEMMA DropInv == ASSUME ResourceInv, NEW k \in Keys, Drop(k) PROVE ResourceInv'
BY WrittenInv DEF Drop, ResourceInv

LEMMA StepResource == ResourceInv /\ [ResourceNext]_resourceVars => ResourceInv'
<1> SUFFICES ASSUME ResourceInv, [ResourceNext]_resourceVars PROVE ResourceInv'
    OBVIOUS
<1>1. CASE UNCHANGED resourceVars
      BY <1>1 DEF resourceVars, ResourceInv, SteadyUseSeen, Busy, Asking, StillToRead
<1>2. ASSUME NEW c \in Caller, IsBackupStorageUsed(c)
      PROVE  ResourceInv'
      <2>1. PICK k \in Keys : k.client = BackupStorage /\ Ask(c, k.name, Scan)
            BY <1>2 DEF IsBackupStorageUsed
      <2>2. k.name \in Storages
            BY <2>1, ClientsDiffer DEF ResourceInv, Keys
      <2> QED BY <2>1, <2>2, AskInv DEF Refs
<1>3. ASSUME NEW c \in Caller, GetMonitoringConfigsBySecretName(c)
      PROVE  ResourceInv'
      BY <1>3, AskInv DEF GetMonitoringConfigsBySecretName, Refs
<1>4. ASSUME NEW k \in Keys, Create(k) \/ Update(k)
      PROVE  ResourceInv'
      <2>1. PICK ref \in Specs(k) : Put(k, ref)
            BY <1>4 DEF Create, Update
      <2>2. k.client \notin OfDatabases
            BY <1>4, ClientsDiffer DEF Create, Update, Verb
      <2>3. ref \in Secrets => k.client = MonitoringConfig
            BY <2>2, KeyClients, ClientsDiffer, RefsDistinct DEF Specs, Clients
      <2> QED BY <2>1, <2>3, PutInv
<1>5. ASSUME NEW k \in Keys, Delete(k) \/ DeleteDatabaseCluster(k)
      PROVE  ResourceInv'
      BY <1>5, DropInv DEF Delete, DeleteDatabaseCluster
<1>6. ASSUME NEW k \in Keys, ApplyResource(k)
      PROVE  ResourceInv'
      <2>1. PICK ref \in Storages \cup {NoRef} : Put(k, ref)
            BY <1>6 DEF ApplyResource
      <2>2. ref \notin Secrets
            BY RefsDistinct
      <2> QED BY <2>1, <2>2, PutInv
<1>7. ASSUME NEW k \in Keys, OperatorWrites(k)
      PROVE  ResourceInv'
      BY <1>7, PutInv, DropInv, RefsDistinct DEF OperatorWrites
<1> QED BY <1>1, <1>2, <1>3, <1>4, <1>5, <1>6, <1>7, NextListInv, ListFailsInv
        DEF ResourceNext

(* A backup storage that something refers to all through the call is       *)
(* reported as used, and only one that something referred to meanwhile;    *)
(* no config that stays is left out: whatever is written between the       *)
(* requests, for any DB namespaces and resources.                          *)
THEOREM SteadySeen == ResourceSpec => []SteadyUseSeen
<1>1. ResourceInit => ResourceInv
      BY DEF ResourceInit, ResourceInv, Busy, SteadyUseSeen
<1>2. ResourceInv => SteadyUseSeen
      BY DEF ResourceInv
<1> QED BY <1>1, <1>2, StepResource, PTL DEF ResourceSpec

(* The types are kept by a write that stores what there may be.            *)
LEMMA WrittenTyped ==
    ASSUME ResourceTypeOK, NEW store, Written(store), DOMAIN store \subseteq Keys,
           \A k \in DOMAIN store : store[k] \in Refs \cup {NoRef}
    PROVE  ResourceTypeOK'
<1>1. stored' = store /\ UNCHANGED <<lists, wanted, reply>>
      BY DEF Written
<1>2. \A ref : Referring(store, ref) \subseteq Keys
      BY DEF Referring
<1>3. steady' \in [Caller -> SUBSET Keys]
      BY DEF Written, ResourceTypeOK
<1>4. referred' \in [Caller -> SUBSET Keys]
      BY <1>2 DEF Written, ResourceTypeOK
<1> QED BY <1>1, <1>3, <1>4 DEF ResourceTypeOK

LEMMA PutTyped ==
    ASSUME ResourceTypeOK, NEW k \in Keys, NEW ref \in Refs \cup {NoRef}, Put(k, ref)
    PROVE  ResourceTypeOK'
<1> DEFINE store == [l \in DOMAIN stored \cup {k} |-> IF l = k THEN ref ELSE stored[l]]
<1>1. Written(store)
      BY DEF Put
<1>2. DOMAIN store \subseteq Keys /\ \A l \in DOMAIN store : store[l] \in Refs \cup {NoRef}
      BY DEF ResourceTypeOK
<1> QED BY <1>1, <1>2, WrittenTyped

LEMMA DropTyped ==
    ASSUME ResourceTypeOK, NEW k \in Keys, Drop(k)
    PROVE  ResourceTypeOK'
<1> DEFINE store == [l \in DOMAIN stored \ {k} |-> stored[l]]
<1>1. Written(store)
      BY DEF Drop
<1>2. DOMAIN store \subseteq Keys /\ \A l \in DOMAIN store : store[l] \in Refs \cup {NoRef}
      BY DEF ResourceTypeOK
<1> QED BY <1>1, <1>2, WrittenTyped

LEMMA AskTyped ==
    ASSUME ResourceTypeOK, NEW c \in Caller, NEW ref \in Refs, NEW todo, Ask(c, ref, todo),
           \/ todo = Scan
           \/ todo = << <<MonitoringConfig, SystemNS>> >>
    PROVE  ResourceTypeOK'
<1> DEFINE L == (OfDatabases \cup {MonitoringConfig}) \X (Homes \cup {SystemNS})
<1>1. todo \in Seq(L)
      <2>1. OfDatabases \X Homes \subseteq L
            OBVIOUS
      <2>2. Seq(OfDatabases \X Homes) \subseteq Seq(L)
            BY <2>1, SeqMonotonic
      <2>3. << <<MonitoringConfig, SystemNS>> >> \in Seq(L)
            OBVIOUS
      <2> QED BY <2>2, <2>3, ScanAll
<1>2. Referring(stored, ref) \in SUBSET Keys
      BY DEF Referring, ResourceTypeOK
<1>3. lists' \in [Caller -> Seq(L)]
      BY <1>1 DEF Ask, ResourceTypeOK
<1>4. reply' \in [Caller -> [state : {"idle", "busy", "error", "ok"}, items : SUBSET Keys]]
      BY DEF Ask, ResourceTypeOK
<1>5. steady' \in [Caller -> SUBSET Keys] /\ referred' \in [Caller -> SUBSET Keys]
      BY <1>2 DEF Ask, ResourceTypeOK
<1>6. wanted' \in [Caller -> Refs \cup {NoRef}] /\ stored' = stored
      BY DEF Ask, ResourceTypeOK
<1> QED BY <1>3, <1>4, <1>5, <1>6 DEF ResourceTypeOK

LEMMA AnswerTyped ==
    ASSUME ResourceTypeOK, ResourceInv, NEW c \in Caller, NextList(c) \/ ListFails(c)
    PROVE  ResourceTypeOK'
<1> DEFINE L == (OfDatabases \cup {MonitoringConfig}) \X (Homes \cup {SystemNS})
           items == List(Head(lists[c])[1], Head(lists[c])[2], wanted[c])
<1>1. lists[c] \in Seq(L) /\ lists[c] # <<>>
      BY DEF NextList, ListFails, ResourceInv, Asking
<1>2. <<>> \in Seq(L) /\ Tail(lists[c]) \in Seq(L)
      BY <1>1, HeadTailProperties, EmptySeq
<1>3. items \subseteq Keys
      BY DEF List, ResourceTypeOK
<1> HIDE DEF items
<1>4. lists' \in [Caller -> Seq(L)]
      <2>1. lists' = [lists EXCEPT ![c] = <<>>] \/ lists' = [lists EXCEPT ![c] = Tail(@)]
            BY DEF NextList, ListFails
      <2> QED BY <1>2, <2>1 DEF ResourceTypeOK
<1>5. reply' \in [Caller -> [state : {"idle", "busy", "error", "ok"}, items : SUBSET Keys]]
      <2>1. \/ reply' = reply
            \/ reply' = [reply EXCEPT ![c] = [state |-> "ok", items |-> items]]
            \/ reply' = [reply EXCEPT ![c] = [state |-> "error", items |-> {}]]
            BY DEF NextList, ListFails, items
      <2> QED BY <1>3, <2>1 DEF ResourceTypeOK
<1>6. UNCHANGED <<stored, wanted, steady, referred>>
      BY DEF NextList, ListFails
<1> QED BY <1>4, <1>5, <1>6 DEF ResourceTypeOK

LEMMA StepTyped ==
    ASSUME ResourceTypeOK, ResourceInv, [ResourceNext]_resourceVars
    PROVE  ResourceTypeOK'
<1>1. CASE UNCHANGED resourceVars
      BY <1>1 DEF resourceVars, ResourceTypeOK
<1>2. ASSUME NEW c \in Caller, IsBackupStorageUsed(c)
      PROVE  ResourceTypeOK'
      <2>1. PICK k \in Keys : k.client = BackupStorage /\ Ask(c, k.name, Scan)
            BY <1>2 DEF IsBackupStorageUsed
      <2>2. k.name \in Storages
            BY <2>1, ClientsDiffer DEF ResourceTypeOK, Keys
      <2> QED BY <2>1, <2>2, AskTyped DEF Refs
<1>3. ASSUME NEW c \in Caller, GetMonitoringConfigsBySecretName(c)
      PROVE  ResourceTypeOK'
      BY <1>3, AskTyped DEF GetMonitoringConfigsBySecretName, Refs
<1>4. ASSUME NEW k \in Keys, Create(k) \/ Update(k)
      PROVE  ResourceTypeOK'
      BY <1>4, PutTyped DEF Create, Update, Specs, Refs
<1>5. ASSUME NEW k \in Keys, Delete(k) \/ DeleteDatabaseCluster(k)
      PROVE  ResourceTypeOK'
      BY <1>5, DropTyped DEF Delete, DeleteDatabaseCluster
<1>6. ASSUME NEW k \in Keys, ApplyResource(k)
      PROVE  ResourceTypeOK'
      BY <1>6, PutTyped DEF ApplyResource, Refs
<1>7. ASSUME NEW k \in Keys, OperatorWrites(k)
      PROVE  ResourceTypeOK'
      BY <1>7, PutTyped, DropTyped DEF OperatorWrites, Refs
<1> QED BY <1>1, <1>2, <1>3, <1>4, <1>5, <1>6, <1>7, AnswerTyped DEF ResourceNext

(* The variables of the custom resources keep their types; a caller that   *)
(* asks has lists left to ask for.                                         *)
THEOREM ResourcesTyped == ResourceSpec => []ResourceTypeOK
<1>1. ResourceInit => ResourceInv /\ ResourceTypeOK
      BY EmptySeq DEF ResourceInit, ResourceInv, Busy, SteadyUseSeen, ResourceTypeOK
<1> QED BY <1>1, StepResource, StepTyped, PTL DEF ResourceSpec

-----------------------------------------------------------------------------
(* Lookups: for any cluster, and any list of namespaces                    *)

(* A node without taints, or with one that is allowed, is listed once, a   *)
(* node with a forbidden one not at all; the nodes are in their order.     *)
LEMMA WorkersRight ==
    ASSUME NEW nodes \in Nodes
    PROVE  /\ \A i \in DOMAIN nodes : Len(nodes[i]) <= 1 =>
                Cardinality(Places(GetWorkerNodes(nodes), i)) =
                  IF nodes[i] # <<>> /\ nodes[i][1] \in Forbidden THEN 0 ELSE 1
           /\ \A k, l \in DOMAIN GetWorkerNodes(nodes) :
                k <= l => GetWorkerNodes(nodes)[k] <= GetWorkerNodes(nodes)[l]
<1> DEFINE ss == [i \in DOMAIN nodes |-> [c \in 1 .. Copies(nodes[i]) |-> i]]
           n == Len(nodes)
           workers == GetWorkerNodes(nodes)
<1>1. /\ n \in Nat /\ DOMAIN nodes = 1 .. n
      /\ \A i \in 1 .. n : nodes[i] \in Seq(STRING)
      BY ClustersTyped, LenProperties, ElementOfSeq
<1>2. \A i \in 1 .. n : Copies(nodes[i]) \in Nat
      <2> SUFFICES ASSUME NEW i \in 1 .. n PROVE Copies(nodes[i]) \in Nat
          OBVIOUS
      <2> DEFINE T == {k \in DOMAIN nodes[i] : nodes[i][k] \notin Forbidden}
      <2>1. Len(nodes[i]) \in Nat /\ DOMAIN nodes[i] = 1 .. Len(nodes[i])
            BY <1>1, LenProperties
      <2>2. IsFiniteSet(1 .. Len(nodes[i])) /\ T \in SUBSET (1 .. Len(nodes[i]))
            BY <2>1, FS_Interval
      <2>3. Cardinality(T) \in Nat
            BY <2>2, FS_Subset, FS_CardinalityType
      <2> QED BY <2>3 DEF Copies
<1> HIDE DEF n
<1>3. /\ ss \in Seq(Seq(Nat)) /\ Len(ss) = n /\ DOMAIN ss = 1 .. n
      /\ \A i \in 1 .. n : ss[i] = [c \in 1 .. Copies(nodes[i]) |-> i]
      <2>1. ASSUME NEW i \in 1 .. n
            PROVE  [c \in 1 .. Copies(nodes[i]) |-> i] \in Seq(Nat)
            <3>1. [c \in 1 .. Copies(nodes[i]) |-> i] \in [1 .. Copies(nodes[i]) -> Nat]
                  BY <1>1
            <3> QED BY <1>2, <3>1, SeqDef
      <2>2. ss \in [1 .. n -> Seq(Nat)]
            BY <1>1, <2>1
      <2> HIDE DEF ss
      <2>3. ss \in Seq(Seq(Nat))
            BY <1>1, <2>2, SeqDef
      <2>4. DOMAIN ss = 1 .. n /\ Len(ss) \in Nat /\ DOMAIN ss = 1 .. Len(ss)
            BY <2>2, <2>3, LenProperties
      <2>5. Len(ss) = n
            BY <1>1, <2>4
      <2> QED BY <1>1, <2>3, <2>4, <2>5 DEF ss
<1>4. workers = FlattenSeq(ss)
      BY DEF GetWorkerNodes
<1> HIDE DEF ss, workers
<1>5. ASSUME NEW i \in 1 .. n
      PROVE  Cardinality(Places(workers, i)) = Copies(nodes[i])
      <2> DEFINE C == 1 .. Copies(nodes[i])
                 T == {at \in Positions(ss) : ss[at[1]][at[2]] = i}
                 f == [c \in C |-> <<i, c>>]
      <2>1. Cardinality(Places(workers, i)) = Cardinality(T)
            <3> HIDE DEF T
            <3>1. ss \in Seq(Seq(Nat))
                  BY <1>3
            <3>2. Cardinality(Places(FlattenSeq(ss), i))
                    = Cardinality({at \in Positions(ss) : ss[at[1]][at[2]] = i})
                  BY <3>1, FlattenPlaces
            <3> QED BY <1>4, <3>2 DEF T
      <2>2. IsFiniteSet(C) /\ Cardinality(C) = Copies(nodes[i])
            BY <1>2, FS_Interval
      <2>3. T = {i} \X C
            <3>1. ASSUME NEW at \in T PROVE at \in {i} \X C
                  <4>1. PICK k \in 1 .. n : at \in {k} \X DOMAIN ss[k]
                        BY <1>3 DEF Positions
                  <4>2. at[1] = k /\ at[2] \in DOMAIN ss[k] /\ at = <<at[1], at[2]>>
                        BY <4>1
                  <4>3. ss[k][at[2]] = i
                        BY <4>2
                  <4>4. DOMAIN ss[k] = 1 .. Copies(nodes[k]) /\ ss[k][at[2]] = k
                        <5>1. ss[k] = [c \in 1 .. Copies(nodes[k]) |-> k]
                              BY <1>3, <4>1
                        <5> QED BY <4>2, <5>1
                  <4> QED BY <4>2, <4>3, <4>4
            <3>2. ASSUME NEW c \in C PROVE <<i, c>> \in T
                  <4>1. c \in DOMAIN ss[i] /\ ss[i][c] = i
                        <5>1. ss[i] = [d \in 1 .. Copies(nodes[i]) |-> i]
                              BY <1>3
                        <5> QED BY <5>1
                  <4>2. <<i, c>> \in Positions(ss)
                        BY <1>3, <4>1 DEF Positions
                  <4> QED BY <4>1, <4>2
            <3> QED BY <3>1, <3>2
      <2>4. f \in [C -> {i} \X C] /\ (\A a, b \in C : f[a] = f[b] => a = b)
            /\ \A t \in {i} \X C : \E a \in C : f[a] = t
            OBVIOUS
      <2> HIDE DEF C, f, T
      <2>5. Cardinality({i} \X C) = Cardinality(C)
            BY <2>2, <2>4, SameSize
      <2> QED BY <2>1, <2>2, <2>3, <2>5
<1>6. ASSUME NEW i \in 1 .. n, Len(nodes[i]) <= 1
      PROVE  Copies(nodes[i]) =
               IF nodes[i] # <<>> /\ nodes[i][1] \in Forbidden THEN 0 ELSE 1
      <2> DEFINE T == {k \in DOMAIN nodes[i] : nodes[i][k] \notin Forbidden}
      <2>1. CASE nodes[i] = <<>>
            BY <2>1 DEF Copies
      <2>2. CASE nodes[i] # <<>>
            <3>1. Len(nodes[i]) = 1 /\ DOMAIN nodes[i] = {1}
                  <4>1. Len(nodes[i]) \in Nat /\ DOMAIN nodes[i] = 1 .. Len(nodes[i])
                        BY <1>1, LenProperties
                  <4>2. Len(nodes[i]) # 0
                        BY <1>1, <2>2, EmptySeq
                  <4>3. Len(nodes[i]) = 1
                        <5> DEFINE m == Len(nodes[i])
                        <5>1. m \in Nat /\ m # 0 /\ m <= 1
                              BY <1>6, <4>1, <4>2
                        <5> HIDE DEF m
                        <5>2. m = 1
                              BY <5>1
                        <5> QED BY <5>2 DEF m
                  <4> QED BY <4>1, <4>3
            <3>2. T = IF nodes[i][1] \in Forbidden THEN {} ELSE {1}
                  BY <3>1
            <3>3. Cardinality(T) = IF nodes[i][1] \in Forbidden THEN 0 ELSE 1
                  BY <3>2, FS_EmptySet, FS_Singleton
            <3> QED BY <2>2, <3>3 DEF Copies
      <2> QED BY <2>1, <2>2
<1>7. ASSUME NEW k \in DOMAIN workers, NEW l \in DOMAIN workers, k <= l
      PROVE  workers[k] <= workers[l]
      <2>1. From(workers, ss, n, k, l)
            BY <1>3, <1>4, <1>7, FlattenOrder DEF InOrderOf
      <2>2. PICK a, b \in 1 .. n : a <= b /\ workers[k] \in Range(ss[a])
                                   /\ workers[l] \in Range(ss[b])
            BY <2>1 DEF From
      <2>3. \A a_1 \in 1 .. n : \A y \in Range(ss[a_1]) : y = a_1
            BY <1>3 DEF Range
      <2> QED BY <2>2, <2>3
<1> QED BY <1>1, <1>5, <1>6, <1>7 DEF workers

(* A type is told exactly if some storage class tells one.                 *)
LEMMA TypeRight ==
    ASSUME NEW p \in Provisioners
    PROVE  GetClusterType(p) = "generic" <=> Range(p) \subseteq {"other"}
<1> DEFINE known == {i \in DOMAIN p : p[i] # "other"}
<1>1. p \in Seq({"eks", "minikube", "other"})
      BY ClustersTyped
<1>2. DOMAIN p \subseteq Nat
      BY <1>1, LenProperties
<1>3. Range(p) \subseteq {"other"} <=> known = {}
      BY DEF Range
<1>4. CASE known = {}
      BY <1>3, <1>4 DEF GetClusterType
<1>5. CASE known # {}
      <2>1. known \in SUBSET Nat
            BY <1>2
      <2>2. Min(known) \in known
            <3> HIDE DEF known
            <3> QED BY <1>5, <2>1, MinIs
      <2>3. p[Min(known)] \in {"eks", "minikube"}
            <3> DEFINE m == Min(known)
            <3>1. m \in DOMAIN p /\ p[m] # "other"
                  BY <2>2
            <3> HIDE DEF m
            <3>2. p[m] \in {"eks", "minikube", "other"}
                  BY <1>1, <3>1, ElementOfSeq, LenProperties
            <3> QED BY <3>1, <3>2 DEF m
      <2>4. GetClusterType(p) = p[Min(known)]
            BY <1>5 DEF GetClusterType
      <2> QED BY <1>3, <1>5, <2>3, <2>4
<1> QED BY <1>4, <1>5

(* The version is that of the operator's container.                        *)
LEMMA VersionRight ==
    ASSUME NEW d \in Deployments, NEW i \in DOMAIN d, d[i].name = "operator",
           Len(d[i].image) = 2
    PROVE  getOperatorVersion(d, "operator") = d[i].image[2]
<1> DEFINE those == {j \in DOMAIN d : d[j].name = "operator"}
<1>1. DOMAIN d \subseteq Nat
      BY ClustersTyped, LenProperties
<1>2. \A j \in those : j = i
      BY ClustersTyped
<1>3. those = {i}
      BY <1>2
<1>4. those \in SUBSET Nat /\ those # {}
      BY <1>1, <1>3
<1>5. Min(those) \in those
      <2> HIDE DEF those
      <2> QED BY <1>4, MinIs
<1>6. Min(those) = i
      BY <1>2, <1>5
<1>7. getOperatorVersion(d, "operator")
        = IF those = {} THEN "error"
          ELSE IF Len(d[Min(those)].image) < 2 THEN "panic" ELSE d[Min(those)].image[2]
      BY DEF getOperatorVersion
<1> HIDE DEF those
<1>8. ~(Len(d[i].image) < 2)
      OBVIOUS
<1> QED BY <1>4, <1>6, <1>7, <1>8

LEMMA LogsRight ==
    ASSUME NEW p, NEW c
    PROVE  GetLogs(p, c) = {c} \/ "waiting" \in Range(p)
BY DEF GetLogs, IsContainerInState

(* The pages that are read are the first ones, all of them if none fails.  *)
LEMMA EventsTyped ==
    ASSUME NEW pages \in EventPages
    PROVE  /\ searchEvents(pages) \in Seq(Nat)
           /\ [k \in DOMAIN pages |-> pages[k].times] \in Seq(Seq(Nat))
           /\ Whole(pages) => searchEvents(pages)
                                = FlattenSeq([k \in DOMAIN pages |-> pages[k].times])
<1> DEFINE n == Len(pages)
           read == {i \in DOMAIN pages : \A j \in 1 .. i : pages[j].ok}
<1>1. /\ n \in Nat /\ DOMAIN pages = 1 .. n
      /\ \A i \in 1 .. n : pages[i] \in [ok : BOOLEAN, times : Seq(Nat)]
      <2>1. pages \in Seq([ok : BOOLEAN, times : Seq(Nat)])
            BY ClustersTyped
      <2> QED BY <2>1, LenProperties, ElementOfSeq
<1>2. \A i \in 1 .. n : pages[i].times \in Seq(Nat)
      BY <1>1
<1> HIDE DEF n
<1>3. PICK k \in 0 .. n : read = 1 .. k
      <2>1. read \in SUBSET (1 .. n)
            BY <1>1
      <2>2. \A i \in read : 1 .. i \subseteq read
            BY <1>1
      <2> HIDE DEF read
      <2> QED BY <1>1, <2>1, <2>2, Prefix
<1> DEFINE T(m) == [i \in 1 .. m |-> pages[i].times]
<1>4. ASSUME NEW m \in 0 .. n PROVE T(m) \in Seq(Seq(Nat))
      <2>1. T(m) \in [1 .. m -> Seq(Nat)] /\ m \in Nat
            BY <1>1, <1>2
      <2> HIDE DEF T
      <2> QED BY <2>1, SeqDef
<1>5. searchEvents(pages) = FlattenSeq(T(k))
      BY <1>3 DEF searchEvents
<1>6. [i \in DOMAIN pages |-> pages[i].times] = T(n)
      BY <1>1
<1>7. Whole(pages) => k = n
      <2>1. Whole(pages) => read = 1 .. n
            <3> SUFFICES ASSUME Whole(pages), NEW i \in 1 .. n
                         PROVE  \A j \in 1 .. i : pages[j].ok
                BY <1>1
            <3>1. \A j \in 1 .. i : j \in 1 .. n
                  BY <1>1
            <3> QED BY <1>1, <3>1 DEF Whole
      <2>2. 1 .. k = 1 .. n => k = n
            <3> SUFFICES ASSUME 1 .. k = 1 .. n PROVE k = n
                OBVIOUS
            <3>1. k \in Nat /\ n \in Nat /\ k <= n
                  BY <1>1
            <3>2. n # 0 => n \in 1 .. k
                  BY <1>1
            <3> HIDE DEF T
            <3> QED BY <3>1, <3>2
      <2> QED BY <1>3, <2>1, <2>2
<1>8. n \in 0 .. n
      BY <1>1
<1> HIDE DEF T, read
<1>9. T(k) \in Seq(Seq(Nat)) /\ T(n) \in Seq(Seq(Nat))
      BY <1>4, <1>8
<1>10. FlattenSeq(T(k)) \in Seq(Nat)
       BY <1>9, FlattenPlaces
<1> QED BY <1>5, <1>6, <1>7, <1>9, <1>10

(* The events that are described are those that were read, by their times. *)
LEMMA Described ==
    ASSUME NEW events \in Seq(Nat)
    PROVE  /\ DescribeEvents(events) \in Seq(Nat)
           /\ \A i, j \in DOMAIN DescribeEvents(events) :
                 i < j => DescribeEvents(events)[i] <= DescribeEvents(events)[j]
           /\ \A x : Cardinality(Places(DescribeEvents(events), x))
                       = Cardinality(Places(events, x))
<1> DEFINE n == Len(events)
           D == DOMAIN events
           Sort == {[i \in D |-> events[p[i]]] : p \in Bijection(D, D)}
           InTime(t) == \A i, j \in D : i < j => t[i] <= t[j]
           R == {at \in D \X D : \/ events[at[1]] < events[at[2]]
                                 \/ /\ events[at[1]] = events[at[2]]
                                    /\ at[1] < at[2]}
<1>1. n \in Nat /\ D = 1 .. n /\ \A i \in 1 .. n : events[i] \in Nat
      BY LenProperties, ElementOfSeq
<1>2. \E t \in Sort : InTime(t)
      <2>1. \A i, j \in 1 .. n :
               <<i, j>> \in R <=> \/ events[i] < events[j]
                                  \/ (events[i] = events[j] /\ i < j)
            BY <1>1
      <2> HIDE DEF R, D
      <2>2. TotalOrder(R, n)
            <3> SUFFICES ASSUME NEW i \in 1 .. n, NEW j \in 1 .. n
                         PROVE  /\ <<i, i>> \notin R
                                /\ i # j => <<i, j>> \in R \/ <<j, i>> \in R
                                /\ \A k \in 1 .. n : <<i, j>> \in R /\ <<j, k>> \in R
                                                       => <<i, k>> \in R
                BY DEF TotalOrder
            <3>1. i \in Nat /\ j \in Nat /\ events[i] \in Nat /\ events[j] \in Nat
                  BY <1>1
            <3>2. <<i, i>> \notin R
                  BY <2>1, <3>1
            <3>3. i # j => <<i, j>> \in R \/ <<j, i>> \in R
                  BY <2>1, <3>1
            <3>4. ASSUME NEW k \in 1 .. n, <<i, j>> \in R, <<j, k>> \in R
                  PROVE  <<i, k>> \in R
                  <4>1. k \in Nat /\ events[k] \in Nat
                        BY <1>1
                  <4>2. events[i] < events[j] \/ (events[i] = events[j] /\ i < j)
                        BY <2>1, <3>4
                  <4>3. events[j] < events[k] \/ (events[j] = events[k] /\ j < k)
                        BY <2>1, <3>4
                  <4>4. events[i] < events[k] \/ (events[i] = events[k] /\ i < k)
                        BY <3>1, <4>1, <4>2, <4>3
                  <4> QED BY <2>1, <4>4
            <3> QED BY <3>2, <3>3, <3>4
      <2>3. PICK p \in Bijection(1 .. n, 1 .. n) :
               \A i, j \in 1 .. n : i < j => <<p[i], p[j]>> \in R
            BY <1>1, <2>2, Arrangement
      <2>4. p \in [1 .. n -> 1 .. n]
            BY <2>3 DEF Bijection, Injection
      <2>5. \A i, j \in 1 .. n : i < j => events[p[i]] <= events[p[j]]
            <3> SUFFICES ASSUME NEW i \in 1 .. n, NEW j \in 1 .. n, i < j
                         PROVE  events[p[i]] <= events[p[j]]
                OBVIOUS
            <3>1. p[i] \in 1 .. n /\ p[j] \in 1 .. n /\ <<p[i], p[j]>> \in R
                  BY <2>3, <2>4
            <3>2. events[p[i]] \in Nat /\ events[p[j]] \in Nat
                  BY <1>1, <3>1
            <3>3. events[p[i]] < events[p[j]]
                  \/ (events[p[i]] = events[p[j]] /\ p[i] < p[j])
                  BY <2>1, <3>1
            <3> QED BY <3>2, <3>3
      <2> DEFINE u == [i \in D |-> events[p[i]]]
      <2>6. u \in Sort
            BY <1>1, <2>3
      <2>7. InTime(u)
            BY <1>1, <2>5
      <2> QED BY <2>6, <2>7
<1>3. DescribeEvents(events) = CHOOSE t \in Sort : InTime(t)
      BY DEF DescribeEvents
<1> DEFINE t == DescribeEvents(events)
<1>4. t \in Sort /\ InTime(t)
      <2> HIDE DEF Sort, InTime
      <2> QED BY <1>2, <1>3
<1>5. PICK p \in Bijection(D, D) : t = [i \in D |-> events[p[i]]]
      BY <1>4
<1>6. /\ p \in [D -> D] /\ \A i, j \in D : p[i] = p[j] => i = j
      /\ \A i \in D : \E j \in D : p[j] = i
      BY <1>5 DEF Bijection, Injection, Surjection, IsInjective
<1> HIDE DEF t
<1>7. t \in Seq(Nat) /\ DOMAIN t = D
      <2>1. \A i \in 1 .. n : p[i] \in 1 .. n
            BY <1>1, <1>6
      <2>2. t \in [1 .. n -> Nat]
            BY <1>1, <1>5, <2>1
      <2> QED BY <1>1, <1>5, <2>2, SeqDef
<1>8. ASSUME NEW x
      PROVE  Cardinality(Places(t, x)) = Cardinality(Places(events, x))
      <2> DEFINE f == [i \in Places(t, x) |-> p[i]]
      <2>1. f \in [Places(t, x) -> Places(events, x)]
            BY <1>5, <1>6 DEF Places
      <2>2. \A a, b \in Places(t, x) : f[a] = f[b] => a = b
            BY <1>6, <1>7 DEF Places
      <2>3. \A e \in Places(events, x) : \E a \in Places(t, x) : f[a] = e
            BY <1>5, <1>6 DEF Places
      <2>4. IsFiniteSet(Places(t, x))
            BY <1>7, PlacesFinite
      <2> HIDE DEF f
      <2> QED BY <2>1, <2>2, <2>3, <2>4, SameSize
<1> QED BY <1>4, <1>7, <1>8 DEF t

(* The list that is described has every event that was read as often as it *)
(* was read, in the order of the times.                                    *)
LEMMA EventsRight ==
    ASSUME NEW found, NEW pages \in EventPages, NEW events \in GetEvents(found, pages)
    PROVE  /\ \A i, j \in DOMAIN events : i < j => events[i] <= events[j]
           /\ found \/ Whole(pages)
           /\ Whole(pages) => AsOften(events, pages)
<1>1. events = DescribeEvents(searchEvents(pages)) /\ (found \/ Whole(pages))
      BY DEF GetEvents
<1>2. searchEvents(pages) \in Seq(Nat)
      BY EventsTyped
<1>3. /\ \A i, j \in DOMAIN events : i < j => events[i] <= events[j]
      /\ \A x : Cardinality(Places(events, x)) = Cardinality(Places(searchEvents(pages), x))
      BY <1>1, <1>2, Described
<1>4. ASSUME Whole(pages) PROVE AsOften(events, pages)
      <2> DEFINE times == [k \in DOMAIN pages |-> pages[k].times]
      <2>1. times \in Seq(Seq(Nat)) /\ searchEvents(pages) = FlattenSeq(times)
            BY <1>4, EventsTyped
      <2> HIDE DEF times
      <2>2. ASSUME NEW time
            PROVE  Cardinality({i \in DOMAIN events : events[i] = time}) =
                     Cardinality({at \in Positions(times) : times[at[1]][at[2]] = time})
            <3>1. Cardinality(Places(FlattenSeq(times), time)) =
                    Cardinality({at \in Positions(times) : times[at[1]][at[2]] = time})
                  BY <2>1, FlattenPlaces
            <3>2. {i \in DOMAIN events : events[i] = time} = Places(events, time)
                  BY DEF Places
            <3> QED BY <1>3, <2>1, <3>1, <3>2
      <2> QED BY <2>2 DEF AsOften, times
<1> QED BY <1>1, <1>3, <1>4

(* There is a storage class to name if there is one at all.                *)
LEMMA DefaultRight ==
    ASSUME NEW p \in Provisioners
    PROVE  GetDefaultStorageClassName(p) = {} <=> p = <<>>
<1>1. p \in Seq({"eks", "minikube", "other"})
      BY ClustersTyped
<1>2. DOMAIN p = 1 .. Len(p) /\ Len(p) \in Nat /\ (p = <<>> <=> Len(p) = 0)
      BY <1>1, LenProperties, EmptySeq
<1> QED BY <1>2 DEF GetDefaultStorageClassName

(* The engines found are those that were installed, among any Deployments, *)
(* and these are the ones that were chosen, whatever the flags.            *)
LEMMA EnginesRight ==
    ASSUME NEW flags \in [Engines -> BOOLEAN], NEW chosen \in SUBSET Engines,
           NEW others \in SUBSET {"everest-operator-controller-manager"}
    PROVE  /\ ListEngineDeploymentNames(others \cup provisionOperators(flags)) =
                 provisionOperators(flags)
           /\ ListEngineDeploymentNames(others \cup
                  provisionOperators(runInstallWizard(flags, chosen))) = chosen
<1>1. others \cap Engines = {}
      BY DEF Engines
<1>2. provisionOperators(flags) \subseteq Engines
      BY DEF provisionOperators
<1>3. provisionOperators(runInstallWizard(flags, chosen)) = chosen
      BY DEF provisionOperators, runInstallWizard
<1> QED BY <1>1, <1>2, <1>3 DEF ListEngineDeploymentNames

(* An answer is right whatever was asked before.                           *)
LEMMA AskRight == ASSUME AskLibrary PROVE AnswersRight'
<1>1. ASSUME NEW n \in Nodes, Answer([nodes |-> n, workers |-> GetWorkerNodes(n)])
      PROVE  AnswersRight'
      <2>1. answer' = [nodes |-> n, workers |-> GetWorkerNodes(n)]
            BY <1>1 DEF Answer
      <2>2. DOMAIN answer' = {"nodes", "workers"} /\ answer'.nodes = n
            /\ answer'.workers = GetWorkerNodes(n)
            BY <2>1
      <2>3. ~Is("type")' /\ ~Is("engines")' /\ ~Is("version")' /\ ~Is("logs")' /\ ~Is("events")'
            BY <2>2 DEF Is
      <2>4. /\ \A i \in DOMAIN n : Len(n[i]) <= 1 =>
                 Cardinality({k \in DOMAIN GetWorkerNodes(n) : GetWorkerNodes(n)[k] = i}) =
                   IF n[i] # <<>> /\ n[i][1] \in Forbidden THEN 0 ELSE 1
            /\ \A k, l \in DOMAIN GetWorkerNodes(n) :
                 k <= l => GetWorkerNodes(n)[k] <= GetWorkerNodes(n)[l]
            BY WorkersRight DEF Places
      <2> QED BY <2>2, <2>3, <2>4 DEF AnswersRight
<1>2. ASSUME NEW p \in Provisioners,
             Answer([classes |-> p, type |-> GetClusterType(p),
                     default |-> GetDefaultStorageClassName(p)])
      PROVE  AnswersRight'
      <2>1. answer' = [classes |-> p, type |-> GetClusterType(p),
                       default |-> GetDefaultStorageClassName(p)]
            BY <1>2 DEF Answer
      <2>2. DOMAIN answer' = {"classes", "type", "default"} /\ answer'.classes = p
            /\ answer'.type = GetClusterType(p)
            /\ answer'.default = GetDefaultStorageClassName(p)
            BY <2>1
      <2>3. ~Is("workers")' /\ ~Is("engines")' /\ ~Is("version")' /\ ~Is("logs")'
            /\ ~Is("events")'
            BY <2>2 DEF Is
      <2>4. GetDefaultStorageClassName(p) = {} <=> p = <<>>
            BY DefaultRight
      <2> QED BY <2>2, <2>3, <2>4, TypeRight DEF AnswersRight
<1>3. ASSUME NEW d \in Deployments,
             Answer([containers |-> d, version |-> getOperatorVersion(d, "operator")])
      PROVE  AnswersRight'
      <2>1. answer' = [containers |-> d, version |-> getOperatorVersion(d, "operator")]
            BY <1>3 DEF Answer
      <2>2. DOMAIN answer' = {"containers", "version"} /\ answer'.containers = d
            /\ answer'.version = getOperatorVersion(d, "operator")
            BY <2>1
      <2>3. ~Is("workers")' /\ ~Is("type")' /\ ~Is("engines")' /\ ~Is("logs")'
            /\ ~Is("events")'
            BY <2>2 DEF Is
      <2>4. \A i \in DOMAIN d : d[i].name = "operator" /\ Len(d[i].image) = 2
               => getOperatorVersion(d, "operator") = d[i].image[2]
            BY VersionRight
      <2> QED BY <2>2, <2>3, <2>4 DEF AnswersRight
<1>4. ASSUME NEW p \in Pods, NEW c \in DOMAIN p,
             Answer([pod |-> p, container |-> c, logs |-> GetLogs(p, c)])
      PROVE  AnswersRight'
      <2>1. answer' = [pod |-> p, container |-> c, logs |-> GetLogs(p, c)]
            BY <1>4 DEF Answer
      <2>2. DOMAIN answer' = {"pod", "container", "logs"} /\ answer'.pod = p
            /\ answer'.container = c /\ answer'.logs = GetLogs(p, c)
            BY <2>1
      <2>3. ~Is("workers")' /\ ~Is("type")' /\ ~Is("engines")' /\ ~Is("version")' /\ ~Is("events")'
            BY <2>2 DEF Is
      <2> QED BY <2>2, <2>3, LogsRight DEF AnswersRight
<1>5. ASSUME NEW f \in BOOLEAN, NEW g \in EventPages,
             Answer([found |-> f, pages |-> g, events |-> GetEvents(f, g)])
      PROVE  AnswersRight'
      <2>1. answer' = [found |-> f, pages |-> g, events |-> GetEvents(f, g)]
            BY <1>5 DEF Answer
      <2>2. DOMAIN answer' = {"found", "pages", "events"} /\ answer'.found = f
            /\ answer'.pages = g /\ answer'.events = GetEvents(f, g)
            BY <2>1
      <2>3. ~Is("workers")' /\ ~Is("type")' /\ ~Is("engines")' /\ ~Is("version")' /\ ~Is("logs")'
            BY <2>2 DEF Is
      <2> QED BY <2>2, <2>3, EventsRight DEF AnswersRight
<1>6. ASSUME NEW w, NEW e, Answer([wanted |-> w, engines |-> e]), e = w
      PROVE  AnswersRight'
      <2>1. answer' = [wanted |-> w, engines |-> e]
            BY <1>6 DEF Answer
      <2>2. /\ DOMAIN answer' = {"wanted", "engines"}
            /\ answer'.wanted = w /\ answer'.engines = e
            BY <2>1
      <2>3. ~Is("workers")' /\ ~Is("type")' /\ ~Is("version")' /\ ~Is("logs")'
            /\ ~Is("events")'
            BY <2>2 DEF Is
      <2> QED BY <1>6, <2>2, <2>3 DEF AnswersRight
<1>7. ASSUME NEW flags \in [Engines -> BOOLEAN], NEW chosen \in SUBSET Engines,
             NEW others \in SUBSET {"everest-operator-controller-manager"}
      PROVE  /\ ListEngineDeploymentNames(others \cup provisionOperators(flags)) =
                   provisionOperators(flags)
             /\ ListEngineDeploymentNames(others \cup
                    provisionOperators(runInstallWizard(flags, chosen))) = chosen
      BY EnginesRight
<1>8. CASE \E flags \in [Engines -> BOOLEAN], chosen \in SUBSET Engines,
              others \in SUBSET {"everest-operator-controller-manager"} :
         \/ Answer([wanted |-> provisionOperators(flags),
                    engines |-> ListEngineDeploymentNames(
                                   others \cup provisionOperators(flags))])
         \/ /\ chosen # {}
            /\ LET config == runInstallWizard(flags, chosen)
               IN Answer([wanted |-> chosen,
                          engines |-> ListEngineDeploymentNames(
                                   others \cup provisionOperators(config))])
      <2>1. PICK flags \in [Engines -> BOOLEAN], chosen \in SUBSET Engines,
                 others \in SUBSET {"everest-operator-controller-manager"} :
               \/ Answer([wanted |-> provisionOperators(flags),
                          engines |-> ListEngineDeploymentNames(
                                         others \cup provisionOperators(flags))])
               \/ Answer([wanted |-> chosen,
                          engines |-> ListEngineDeploymentNames(others \cup
                              provisionOperators(runInstallWizard(flags, chosen)))])
            BY <1>8
      <2> DEFINE found == ListEngineDeploymentNames(
                              others \cup provisionOperators(flags))
                 after == ListEngineDeploymentNames(others \cup
                              provisionOperators(runInstallWizard(flags, chosen)))
      <2>2. found = provisionOperators(flags) /\ after = chosen
            BY <1>7
      <2>3. \/ Answer([wanted |-> provisionOperators(flags), engines |-> found])
            \/ Answer([wanted |-> chosen, engines |-> after])
            BY <2>1
      <2> HIDE DEF found, after
      <2> QED BY <1>6, <2>2, <2>3
<1> QED BY <1>1, <1>2, <1>3, <1>4, <1>5, <1>8 DEF AskLibrary

(* The lists of the elements of a finite set.                              *)
LEMMA ListsOfSet ==
    ASSUME NEW S \in SUBSET EnvFields, IsFiniteSet(S), NEW s \in SetToSeqs(S)
    PROVE  /\ s \in Seq(EnvFields) /\ Len(s) = Cardinality(S) /\ Range(s) = S
           /\ s = <<>> <=> S = {}
<1> DEFINE n == Cardinality(S)
<1>1. n \in Nat
      BY FS_CardinalityType
<1>2. s \in [1 .. n -> S] /\ \A i, j \in 1 .. n : i # j => s[i] # s[j]
      BY DEF SetToSeqs
<1>3. s \in Injection(1 .. n, S)
      BY <1>2 DEF Injection, IsInjective
<1>4. IsFiniteSet(1 .. n) /\ Cardinality(1 .. n) = n
      BY <1>1, FS_Interval
<1>5. s \in Surjection(1 .. n, S)
      BY <1>3, <1>4, FS_Injection
<1>6. Range(s) = S
      BY <1>2, <1>5 DEF Surjection, Range
<1>7. s \in [1 .. n -> EnvFields] /\ DOMAIN s = 1 .. n
      BY <1>2
<1> HIDE DEF n
<1>8. s \in Seq(EnvFields)
      BY <1>1, <1>7, SeqDef
<1>9. Len(s) = n
      BY <1>1, <1>7, <1>8, LenProperties
<1>10. n = 0 <=> S = {}
       BY FS_EmptySet DEF n
<1>11. s = <<>> <=> Len(s) = 0
       BY <1>8, EmptySeq
<1> QED BY <1>6, <1>8, <1>9, <1>10, <1>11 DEF n

LEMMA NamesFinite ==
    ASSUME NEW S \in SUBSET Range(Alphabet)
    PROVE  S \in SUBSET EnvFields /\ IsFiniteSet(S)
<1> DEFINE n == Len(Alphabet)
<1>1. n \in Nat /\ DOMAIN Alphabet = 1 .. n
      BY NamesOrdered, LenProperties
<1>2. Range(Alphabet) \in SUBSET EnvFields
      BY DEF EnvFields
<1>3. Alphabet \in Surjection(1 .. n, Range(Alphabet))
      BY <1>1, NamesOrdered DEF Surjection, Range
<1>4. IsFiniteSet(1 .. n)
      BY <1>1, FS_Interval
<1> HIDE DEF n
<1>5. IsFiniteSet(Range(Alphabet))
      BY <1>3, <1>4, FS_Surjection
<1> QED BY <1>2, <1>5, FS_Subset

(* EnvNames can be sorted: each is once in the alphabet.                      *)
LEMMA SortedIs ==
    ASSUME NEW S \in SUBSET Range(Alphabet)
    PROVE  /\ Sorted(S) \in Seq(EnvFields) /\ Range(Sorted(S)) = S
           /\ Len(Sorted(S)) = Cardinality(S)
           /\ Sorted(S) = <<>> <=> S = {}
           /\ \A i, j \in DOMAIN Sorted(S) : i < j => Before(Sorted(S)[i], Sorted(S)[j])
<1> DEFINE n == Cardinality(S)
<1>1. S \in SUBSET EnvFields /\ IsFiniteSet(S) /\ n \in Nat
      BY NamesFinite, FS_CardinalityType
<1>2. PICK q : q \in Bijection(1 .. n, S)
      <2>1. ExistsBijection(1 .. n, S)
            <3>1. IsFiniteSet(1 .. n) /\ Cardinality(1 .. n) = n
                  BY <1>1, FS_Interval
            <3> QED BY <1>1, <3>1, FS_SameCardinalityBij
      <2> QED BY <2>1 DEF ExistsBijection
<1>3. q \in [1 .. n -> S] /\ \A i, j \in 1 .. n : q[i] = q[j] => i = j
      BY <1>2 DEF Bijection, Injection, IsInjective
<1> HIDE DEF n
<1>4. /\ DOMAIN Alphabet \in SUBSET Nat
      /\ \A i, j \in DOMAIN Alphabet : Alphabet[i] = Alphabet[j] => i = j
      /\ \A x \in S : \E i \in DOMAIN Alphabet : Alphabet[i] = x
      BY NamesOrdered, LenProperties DEF IsInjective, Range
<1> DEFINE at == [x \in S |-> CHOOSE i \in DOMAIN Alphabet : Alphabet[i] = x]
           R == {p \in (1 .. n) \X (1 .. n) : at[q[p[1]]] < at[q[p[2]]]}
<1>5. \A x \in S : at[x] \in Nat /\ at[x] \in DOMAIN Alphabet /\ Alphabet[at[x]] = x
      BY <1>4
<1>6. \A i, j \in 1 .. n : <<i, j>> \in R <=> at[q[i]] < at[q[j]]
      OBVIOUS
<1>7. \A i \in 1 .. n : at[q[i]] \in Nat /\ Alphabet[at[q[i]]] = q[i]
                        /\ at[q[i]] \in DOMAIN Alphabet
      BY <1>3, <1>5
<1> HIDE DEF R, at
<1>8. TotalOrder(R, n)
      <2> SUFFICES ASSUME NEW i \in 1 .. n, NEW j \in 1 .. n
                   PROVE  /\ <<i, i>> \notin R
                          /\ i # j => <<i, j>> \in R \/ <<j, i>> \in R
                          /\ \A k \in 1 .. n : <<i, j>> \in R /\ <<j, k>> \in R
                                                 => <<i, k>> \in R
          BY DEF TotalOrder
      <2>1. at[q[i]] \in Nat /\ at[q[j]] \in Nat
            BY <1>7
      <2>2. <<i, i>> \notin R
            BY <1>6, <2>1
      <2>3. ASSUME i # j PROVE <<i, j>> \in R \/ <<j, i>> \in R
            <3>1. at[q[i]] # at[q[j]]
                  BY <1>3, <1>7, <2>3
            <3> QED BY <1>6, <2>1, <3>1
      <2>4. ASSUME NEW k \in 1 .. n, <<i, j>> \in R, <<j, k>> \in R
            PROVE  <<i, k>> \in R
            <3>1. at[q[k]] \in Nat /\ at[q[i]] < at[q[j]] /\ at[q[j]] < at[q[k]]
                  BY <1>6, <1>7, <2>4
            <3> QED BY <1>6, <2>1, <3>1
      <2> QED BY <2>2, <2>3, <2>4
<1>9. PICK p \in Bijection(1 .. n, 1 .. n) :
         \A i, j \in 1 .. n : i < j => <<p[i], p[j]>> \in R
      BY <1>1, <1>8, Arrangement
<1>10. p \in [1 .. n -> 1 .. n] /\ \A i, j \in 1 .. n : p[i] = p[j] => i = j
       BY <1>9 DEF Bijection, Injection, IsInjective
<1> DEFINE s == [i \in 1 .. n |-> q[p[i]]]
           InOrder(t) == \A i, j \in DOMAIN t : i < j => Before(t[i], t[j])
<1>11. s \in SetToSeqs(S)
       <2>1. s \in [1 .. n -> S]
             BY <1>3, <1>10
       <2>2. \A i, j \in 1 .. n : i # j => s[i] # s[j]
             BY <1>3, <1>10
       <2> HIDE DEF s
       <2> QED BY <2>1, <2>2 DEF SetToSeqs, n
<1>12. InOrder(s)
       <2> SUFFICES ASSUME NEW i \in 1 .. n, NEW j \in 1 .. n, i < j
                    PROVE  Before(q[p[i]], q[p[j]])
           OBVIOUS
       <2>1. p[i] \in 1 .. n /\ p[j] \in 1 .. n /\ <<p[i], p[j]>> \in R
             BY <1>9, <1>10
       <2>2. at[q[p[i]]] < at[q[p[j]]]
             BY <1>6, <2>1
       <2> QED BY <1>7, <2>1, <2>2 DEF Before
<1> HIDE DEF s
<1>13. Sorted(S) = CHOOSE t \in SetToSeqs(S) : InOrder(t)
       BY DEF Sorted
<1>14. Sorted(S) \in SetToSeqs(S) /\ InOrder(Sorted(S))
       <2> HIDE DEF InOrder
       <2> QED BY <1>11, <1>12, <1>13
<1> QED BY <1>1, <1>14, ListsOfSet

(* No variable is in the list twice.                                       *)
Unique(sub) == \A i, j \in DOMAIN sub : sub[i][1] = sub[j][1] => i = j

(* The value that is put over the one that is there, or added.             *)
NewValue(sub, e, value) ==
    \/ value = e[2] /\ (e[1] = DBNamespacesEnvVar => \A v \in Range(sub) : v[1] # e[1])
    \/ /\ e[1] = DBNamespacesEnvVar
       /\ \E v \in Range(sub) : v[1] = e[1] /\ value = mergeNamespacesEnvVar(v[2], e[2])

(* Merging a variable sets it, and leaves the other ones alone.            *)
LEMMA MergedIs ==
    ASSUME NEW sub \in Seq(EnvVar), Unique(sub), NEW e \in EnvVar,
           e[1] = DBNamespacesEnvVar =>
              \A v \in Range(sub) : v[1] = e[1] =>
                 mergeNamespacesEnvVar(v[2], e[2]) \in Seq(EnvFields)
    PROVE  /\ Merged(sub, e) \in Seq(EnvVar) /\ Unique(Merged(sub, e))
           /\ \A v : v[1] # e[1] => (v \in Range(Merged(sub, e)) <=> v \in Range(sub))
           /\ \E value \in Seq(EnvFields) : /\ <<e[1], value>> \in Range(Merged(sub, e))
                                         /\ NewValue(sub, e, value)
<1> DEFINE n == Len(sub)
           same == {i \in DOMAIN sub : sub[i][1] = e[1]}
           first == Min(same)
           value == IF e[1] = DBNamespacesEnvVar
                    THEN mergeNamespacesEnvVar(sub[first][2], e[2]) ELSE e[2]
           m == Merged(sub, e)
<1>1. /\ n \in Nat /\ DOMAIN sub = 1 .. n
      /\ \A i \in 1 .. n : sub[i] \in EnvVar /\ sub[i] \in Range(sub)
      BY LenProperties, ElementOfSeq DEF Range
<1>2. m = IF same = {} THEN Append(sub, e)
          ELSE [sub EXCEPT ![first] = <<e[1], value>>]
      BY DEF Merged
<1>3. e = <<e[1], e[2]>> /\ e[1] \in EnvNames /\ e[2] \in Seq(EnvFields)
      BY DEF EnvVar
<1>4. CASE same = {}
      <2>1. \A v \in Range(sub) : v[1] # e[1]
            BY <1>4 DEF Range
      <2>2. m = Append(sub, e)
            BY <1>2, <1>4
      <2> HIDE DEF m, n
      <2>3. m \in Seq(EnvVar) /\ DOMAIN m = 1 .. (n + 1)
            /\ (\A i \in 1 .. n : m[i] = sub[i]) /\ m[n + 1] = e
            <3>1. m \in Seq(EnvVar) /\ Len(m) = n + 1
                  BY <2>2, AppendProperties DEF n
            <3>2. DOMAIN m = 1 .. (n + 1)
                  BY <3>1, LenProperties
            <3> QED BY <1>1, <2>2, <3>1, <3>2, AppendProperties DEF n
      <2>4. \A i \in 1 .. (n + 1) : i \in 1 .. n \/ i = n + 1
            BY <1>1
      <2>5. n + 1 \in 1 .. (n + 1) /\ 1 .. n \subseteq 1 .. (n + 1)
            BY <1>1
      <2>6. Range(m) = Range(sub) \cup {e}
            BY <1>1, <2>3, <2>4, <2>5 DEF Range
      <2>7. Unique(m)
            <3> SUFFICES ASSUME NEW i \in 1 .. (n + 1), NEW j \in 1 .. (n + 1),
                                m[i][1] = m[j][1]
                         PROVE  i = j
                BY <2>3 DEF Unique
            <3> QED BY <1>1, <2>1, <2>3, <2>4 DEF Unique
      <2>8. NewValue(sub, e, e[2])
            BY <2>1 DEF NewValue
      <2>9. e \in Range(m)
            BY <2>6
      <2> QED BY <1>3, <2>1, <2>3, <2>6, <2>7, <2>8, <2>9 DEF m
<1>5. CASE same # {}
      <2>1. first \in same
            <3>1. same \in SUBSET Nat
                  BY <1>1
            <3> HIDE DEF same
            <3> QED BY <1>5, <3>1, MinIs
      <2>2. first \in 1 .. n /\ sub[first][1] = e[1] /\ sub[first] \in Range(sub)
            BY <1>1, <2>1
      <2>3. value \in Seq(EnvFields)
            BY <1>3, <2>2
      <2>4. m = [sub EXCEPT ![first] = <<e[1], value>>]
            BY <1>2, <1>5
      <2>5. NewValue(sub, e, value)
            BY <2>2 DEF NewValue
      <2> HIDE DEF value, first, same, m, n
      <2>6. /\ DOMAIN m = 1 .. n /\ m[first] = <<e[1], value>>
            /\ \A i \in 1 .. n : i # first => m[i] = sub[i]
            BY <1>1, <2>2, <2>4
      <2>7. m \in Seq(EnvVar)
            <3>1. \A i \in 1 .. n : m[i] \in EnvVar
                  <4> SUFFICES ASSUME NEW i \in 1 .. n PROVE m[i] \in EnvVar
                      OBVIOUS
                  <4>1. <<e[1], value>> \in EnvVar
                        BY <1>3, <2>3 DEF EnvVar
                  <4>2. CASE i = first
                        BY <2>6, <4>1, <4>2
                  <4>3. CASE i # first
                        BY <1>1, <2>6, <4>3
                  <4> QED BY <4>2, <4>3
            <3>2. m \in [1 .. n -> EnvVar]
                  BY <1>1, <2>4, <2>6, <3>1
            <3> QED BY <1>1, <3>2, SeqDef
      <2>8. \A i \in 1 .. n : m[i][1] = sub[i][1]
            BY <2>2, <2>6
      <2>9. Unique(m)
            BY <1>1, <2>6, <2>8 DEF Unique
      <2>10. ASSUME NEW v, v[1] # e[1] PROVE v \in Range(m) <=> v \in Range(sub)
             <3>1. \A i \in 1 .. n : m[i] = v <=> sub[i] = v
                   <4> SUFFICES ASSUME NEW i \in 1 .. n PROVE m[i] = v <=> sub[i] = v
                       OBVIOUS
                   <4>1. CASE i = first
                         <5>1. m[i][1] = e[1] /\ sub[i][1] = e[1]
                               BY <2>2, <2>8, <4>1
                         <5> QED BY <2>10, <5>1
                   <4>2. CASE i # first
                         BY <2>6, <4>2
                   <4> QED BY <4>1, <4>2
             <3> QED BY <1>1, <2>6, <3>1 DEF Range
      <2>11. <<e[1], value>> \in Range(m)
             BY <2>2, <2>6 DEF Range
      <2> QED BY <2>3, <2>5, <2>7, <2>9, <2>10, <2>11 DEF m
<1> QED BY <1>4, <1>5

(* The three variables of a configuration are merged in their order.       *)
LEMMA MergedThrice ==
    ASSUME NEW sub, NEW a, NEW b, NEW c
    PROVE  mergeSubscriptionConfig(sub, <<a, b, c>>)
             = Merged(Merged(Merged(sub, a), b), c)
<1> DEFINE D == DOMAIN <<a, b, c>>
           Eq(g) == g = [s \in SUBSET D |->
                           IF s = {} THEN sub
                           ELSE Merged(g[s \ {Max(s)}], <<a, b, c>>[Max(s)])]
           one(s) == IF 1 \in s THEN Merged(sub, a) ELSE sub
           two(s) == IF 2 \in s THEN Merged(one(s), b) ELSE one(s)
           three(s) == IF 3 \in s THEN Merged(two(s), c) ELSE two(s)
           f == [s \in SUBSET D |-> three(s)]
           g == CHOOSE g : Eq(g)
<1>1. mergeSubscriptionConfig(sub, <<a, b, c>>) = g[D]
      BY DEF mergeSubscriptionConfig, FoldLeft, MapThenFoldSet
<1>2. D = {1, 2, 3}
      OBVIOUS
<1>3. Eq(f)
      <2> SUFFICES ASSUME NEW s \in SUBSET {1, 2, 3}
                   PROVE  f[s] = IF s = {} THEN sub
                                 ELSE Merged(f[s \ {Max(s)}], <<a, b, c>>[Max(s)])
          <3>1. f = [s \in SUBSET D |-> f[s]]
                OBVIOUS
          <3> DEFINE h(s) == IF s = {} THEN sub
                             ELSE Merged(f[s \ {Max(s)}], <<a, b, c>>[Max(s)])
          <3>2. SUFFICES \A s \in SUBSET D : f[s] = h(s)
                <4>1. Eq(f) <=> f = [s \in SUBSET D |-> h(s)]
                      OBVIOUS
                <4> HIDE DEF f, Eq, h, D
                <4> QED BY <3>1, <4>1
          <3> QED BY <1>2
      <2>1. CASE s = {}
            BY <1>2, <2>1
      <2>2. CASE 3 \in s
            <3>1. Max(s) = 3
                  BY <2>2, MaxOf
            <3>2. f[s \ {3}] = two(s) /\ f[s] = Merged(two(s), c)
                  BY <1>2, <2>2
            <3> HIDE DEF f, two
            <3> QED BY <2>2, <3>1, <3>2
      <2>3. CASE 3 \notin s /\ 2 \in s
            <3>1. Max(s) = 2
                  BY <2>3, MaxOf
            <3>2. f[s \ {2}] = one(s) /\ f[s] = Merged(one(s), b)
                  BY <1>2, <2>3
            <3> HIDE DEF f, one
            <3> QED BY <2>3, <3>1, <3>2
      <2>4. CASE 3 \notin s /\ 2 \notin s /\ 1 \in s
            <3>1. Max(s) = 1
                  BY <2>4, MaxOf
            <3>2. f[s \ {1}] = sub /\ f[s] = Merged(sub, a)
                  BY <1>2, <2>4
            <3> HIDE DEF f
            <3> QED BY <2>4, <3>1, <3>2
      <2> QED BY <2>1, <2>2, <2>3, <2>4
<1>4. Eq(g)
      <2> HIDE DEF Eq
      <2> QED BY <1>3
<1> HIDE DEF g
<1>5. \A s \in SUBSET {1, 2, 3} :
         g[s] = IF s = {} THEN sub
                ELSE Merged(g[s \ {Max(s)}], <<a, b, c>>[Max(s)])
      BY <1>2, <1>4
<1>6. Max({1, 2, 3}) = 3 /\ Max({1, 2}) = 2 /\ Max({1}) = 1
      BY DEF Max
<1>7. {1, 2, 3} \ {3} = {1, 2} /\ {1, 2} \ {2} = {1} /\ {1} \ {1} = {}
      OBVIOUS
<1> HIDE DEF Eq, f, D
<1>8. g[{}] = sub
      BY <1>5
<1>9. g[{1}] = Merged(sub, a)
      <2>1. g[{1}] = Merged(g[{1} \ {Max({1})}], <<a, b, c>>[Max({1})])
            BY <1>5
      <2>2. g[{1}] = Merged(g[{}], <<a, b, c>>[1])
            BY <1>6, <1>7, <2>1, Zenon
      <2> QED BY <1>8, <2>2
<1>10. g[{1, 2}] = Merged(Merged(sub, a), b)
       <2>1. g[{1, 2}] = Merged(g[{1, 2} \ {Max({1, 2})}], <<a, b, c>>[Max({1, 2})])
             BY <1>5
       <2>2. g[{1, 2}] = Merged(g[{1}], <<a, b, c>>[2])
             BY <1>6, <1>7, <2>1, Zenon
       <2> QED BY <1>9, <2>2
<1>11. g[{1, 2, 3}] = Merged(Merged(Merged(sub, a), b), c)
       <2>1. g[{1, 2, 3}] = Merged(g[{1, 2, 3} \ {Max({1, 2, 3})}],
                                   <<a, b, c>>[Max({1, 2, 3})])
             BY <1>5
       <2>2. g[{1, 2, 3}] = Merged(g[{1, 2}], <<a, b, c>>[3])
             BY <1>6, <1>7, <2>1, Zenon
       <2> QED BY <1>10, <2>2
<1> QED BY <1>1, <1>2, <1>11

(* The list of namespaces has exactly those that were asked for, each once,*)
(* or is still without one.                                                *)
ListsAsked(value) == /\ Range(value) \ {""} = asked
                     /\ asked # {} => /\ Range(value) = asked
                                      /\ Len(value) = Cardinality(asked)

LookupInv ==
    /\ env \in Seq(EnvVar) /\ Unique(env)
    /\ asked \subseteq Range(Alphabet) /\ asked \cap (Reserved \cup {""}) = {}
    /\ \A v \in Range(env) : v[1] = DBNamespacesEnvVar => ListsAsked(v[2])
    /\ asked # {} =>
         /\ <<"DISABLE_TELEMETRY", told>> \in Range(env)
         /\ \E v \in Range(env) : v[1] = DBNamespacesEnvVar
    /\ AnswersRight

LEMMA LookupInits == ASSUME LookupInit PROVE LookupInv
<1>1. /\ ~Is("workers") /\ ~Is("type") /\ ~Is("engines") /\ ~Is("version")
      /\ ~Is("logs") /\ ~Is("events")
      <2>1. DOMAIN answer = {"none"}
            BY DEF LookupInit
      <2> QED BY <2>1 DEF Is
<1>2. AnswersRight
      BY <1>1 DEF AnswersRight
<1>3. CASE env = <<>>
      <2>1. env \in Seq(EnvVar) /\ Unique(env) /\ Range(env) = {}
            BY <1>3 DEF Unique, Range
      <2> QED BY <1>2, <2>1 DEF LookupInit, LookupInv
<1>4. CASE env = << <<"DISABLE_TELEMETRY", <<"">> >>, <<DBNamespacesEnvVar, <<"">> >> >>
      <2> DEFINE a == <<"DISABLE_TELEMETRY", <<"">> >>
                 b == <<DBNamespacesEnvVar, <<"">> >>
      <2>1. a \in EnvVar /\ b \in EnvVar /\ a[1] # b[1] /\ b[2] = <<"">>
            <3>1. <<"">> \in Seq(EnvFields)
                  BY DEF EnvFields
            <3>2. DBNamespacesEnvVar \in EnvNames /\ "DISABLE_TELEMETRY" \in EnvNames
                  /\ "DISABLE_TELEMETRY" # DBNamespacesEnvVar
                  BY DEF DBNamespacesEnvVar, EnvNames
            <3> QED BY <3>1, <3>2 DEF EnvVar
      <2> HIDE DEF a, b
      <2>2. env = <<a, b>>
            BY <1>4 DEF a, b
      <2>3. env \in Seq(EnvVar) /\ Unique(env) /\ Range(env) = {a, b}
            <3>1. DOMAIN env = {1, 2} /\ env[1] = a /\ env[2] = b
                  BY <2>2
            <3>2. Range(env) = {a, b}
                  BY <3>1 DEF Range
            <3>3. env \in Seq(EnvVar)
                  <4>1. <<a, b>> \in Seq(EnvVar)
                        <5>1. \A x, y \in EnvVar : <<x, y>> \in Seq(EnvVar)
                              OBVIOUS
                        <5> QED BY <2>1, <5>1
                  <4> QED BY <2>2, <4>1
            <3> QED BY <2>1, <3>1, <3>2, <3>3 DEF Unique
      <2>4. Range(<<"">>) = {""}
            <3>1. DOMAIN <<"">> = {1} /\ <<"">>[1] = ""
                  OBVIOUS
            <3> QED BY <3>1 DEF Range
      <2>5. ListsAsked(<<"">>)
            BY <2>4 DEF ListsAsked, LookupInit
      <2>6. a[1] # DBNamespacesEnvVar
            BY <2>1 DEF b
      <2> QED BY <1>2, <2>1, <2>3, <2>5, <2>6 DEF LookupInit, LookupInv
<1> QED BY <1>3, <1>4 DEF LookupInit

(* What ValidateNamespaces returns are the names that were typed.          *)
LEMMA ValidatedIs ==
    ASSUME NEW raw \in Lists, NEW list \in ValidateNamespaces(raw)
    PROVE  /\ list \in Seq(EnvFields) /\ Range(list) = NamesIn(raw)
           /\ Len(list) = Cardinality(NamesIn(raw))
           /\ NamesIn(raw) # {} /\ NamesIn(raw) \subseteq Range(Alphabet)
           /\ NamesIn(raw) \cap (Reserved \cup {""}) = {} /\ Join(list) = list
<1>1. raw \in Seq(DOMAIN Padded)
      BY ListsTypable
<1>2. Range(raw) \subseteq DOMAIN Padded
      <2>1. \A i \in DOMAIN raw : raw[i] \in DOMAIN Padded
            BY <1>1, LenProperties, ElementOfSeq
      <2> QED BY <2>1 DEF Range
<1>3. NamesIn(raw) \subseteq Range(Alphabet) /\ "" \notin NamesIn(raw)
      BY <1>2, ListsTypable DEF NamesIn, Range
<1>4. /\ NamesIn(raw) \cap (Reserved \cup Malformed) = {}
      /\ list \in SetToSeqs(NamesIn(raw)) /\ list # <<>>
      BY DEF ValidateNamespaces
<1>5. NamesIn(raw) \in SUBSET EnvFields /\ IsFiniteSet(NamesIn(raw))
      BY <1>3, NamesFinite
<1>6. /\ list \in Seq(EnvFields) /\ Range(list) = NamesIn(raw)
      /\ Len(list) = Cardinality(NamesIn(raw)) /\ (list = <<>> <=> NamesIn(raw) = {})
      BY <1>4, <1>5, ListsOfSet
<1> QED BY <1>3, <1>4, <1>6 DEF Join

(* The list that is there and the new one are merged into all their names. *)
LEMMA MergedNames ==
    ASSUME NEW v1, NEW v2, Range(v1) \ {""} \subseteq Range(Alphabet),
           Range(v2) \ {""} \subseteq Range(Alphabet), Range(v2) \ {""} # {}
    PROVE  LET S == (Range(v1) \cup Range(v2)) \ {""}
               v == mergeNamespacesEnvVar(v1, v2)
           IN v \in Seq(EnvFields) /\ Range(v) = S /\ Len(v) = Cardinality(S)
<1> DEFINE S == (Range(v1) \cup Range(v2)) \ {""}
<1>1. S \in SUBSET Range(Alphabet) /\ S # {}
      OBVIOUS
<1>2. mergeNamespacesEnvVar(v1, v2) = Join(Sorted(S))
      BY DEF mergeNamespacesEnvVar
<1> HIDE DEF S
<1>3. Join(Sorted(S)) = Sorted(S)
      BY <1>1, SortedIs DEF Join
<1>4. /\ mergeNamespacesEnvVar(v1, v2) \in Seq(EnvFields)
      /\ Range(mergeNamespacesEnvVar(v1, v2)) = S
      /\ Len(mergeNamespacesEnvVar(v1, v2)) = Cardinality(S)
      BY <1>1, <1>2, <1>3, SortedIs
<1> QED BY <1>4 DEF S

LEMMA InstallMerges ==
    ASSUME LookupInv, NEW raw \in Lists, NEW skip \in BOOLEAN,
           NEW telemetry \in {<<"true">>, <<"false">>},
           InstallWith(raw, skip, telemetry)
    PROVE  LookupInv'
<1>1. PICK list \in ValidateNamespaces(raw) :
         env' = mergeSubscriptionConfig(env, SubscriptionConfig(list, telemetry))
      BY DEF InstallWith, populateConfig, runEverestWizard
<1>2. asked' = asked \cup NamesIn(raw) /\ told' = telemetry /\ answer' = answer
      BY DEF InstallWith
<1>3. /\ list \in Seq(EnvFields) /\ Range(list) = NamesIn(raw)
      /\ Len(list) = Cardinality(NamesIn(raw))
      /\ NamesIn(raw) # {} /\ NamesIn(raw) \subseteq Range(Alphabet)
      /\ NamesIn(raw) \cap (Reserved \cup {""}) = {} /\ Join(list) = list
      BY ValidatedIs
<1> DEFINE a == <<"DISABLE_TELEMETRY", telemetry>>
           b == <<"MONITORING_NAMESPACE", <<"everest-monitoring">> >>
           c == <<DBNamespacesEnvVar, list>>
           env1 == Merged(env, a)
           env2 == Merged(env1, b)
<1>4. env' = Merged(env2, c)
      <2>1. SubscriptionConfig(list, telemetry) = <<a, b, c>>
            BY <1>3 DEF SubscriptionConfig
      <2> HIDE DEF a, b, c
      <2> QED BY <1>1, <2>1, MergedThrice
<1>5. /\ a \in EnvVar /\ b \in EnvVar /\ c \in EnvVar
      /\ a[1] # b[1] /\ a[1] # c[1] /\ b[1] # c[1]
      /\ c[1] = DBNamespacesEnvVar /\ c[2] = list
      /\ a[2] = telemetry /\ a = <<a[1], a[2]>>
      <2>1. telemetry \in Seq(EnvFields) /\ <<"everest-monitoring">> \in Seq(EnvFields)
            <3>1. /\ "true" \in EnvFields /\ "false" \in EnvFields
                  /\ "everest-monitoring" \in EnvFields
                  BY DEF EnvFields
            <3>2. CASE telemetry = <<"true">>
                  BY <3>1, <3>2
            <3>3. CASE telemetry = <<"false">>
                  BY <3>1, <3>3
            <3> QED BY <3>2, <3>3
      <2>2. /\ {"DISABLE_TELEMETRY", "MONITORING_NAMESPACE", DBNamespacesEnvVar}
                 \subseteq EnvNames
            /\ "DISABLE_TELEMETRY" # DBNamespacesEnvVar
            /\ "MONITORING_NAMESPACE" # DBNamespacesEnvVar
            BY DEF DBNamespacesEnvVar, EnvNames
      <2> QED BY <1>3, <2>1, <2>2 DEF EnvVar
<1>6. a[1] = "DISABLE_TELEMETRY"
      OBVIOUS
<1> HIDE DEF a, b, c
<1>7. /\ env1 \in Seq(EnvVar) /\ Unique(env1)
      /\ \A v : v[1] # a[1] => (v \in Range(env1) <=> v \in Range(env))
      /\ a \in Range(env1)
      <2>1. PICK value \in Seq(EnvFields) : <<a[1], value>> \in Range(env1)
                                         /\ NewValue(env, a, value)
            BY <1>5, MergedIs DEF LookupInv
      <2>2. value = a[2]
            BY <1>5, <2>1 DEF NewValue
      <2> QED BY <1>5, <2>1, <2>2, MergedIs DEF LookupInv
<1>8. /\ env2 \in Seq(EnvVar) /\ Unique(env2)
      /\ \A v : v[1] # b[1] => (v \in Range(env2) <=> v \in Range(env1))
      <2> HIDE DEF env1
      <2> QED BY <1>5, <1>7, MergedIs
<1> HIDE DEF env1, env2
<1>9. /\ \A v \in Range(env2) : v[1] = DBNamespacesEnvVar => ListsAsked(v[2])
      /\ a \in Range(env2)
      BY <1>5, <1>7, <1>8 DEF LookupInv
<1>10. ASSUME NEW v \in Range(env2), v[1] = DBNamespacesEnvVar
       PROVE  /\ mergeNamespacesEnvVar(v[2], list) \in Seq(EnvFields)
              /\ Range(mergeNamespacesEnvVar(v[2], list)) = asked'
              /\ Len(mergeNamespacesEnvVar(v[2], list)) = Cardinality(asked')
       <2>1. Range(v[2]) \ {""} = asked
             BY <1>9, <1>10 DEF ListsAsked
       <2>2. asked \subseteq Range(Alphabet) /\ Range(list) \ {""} = NamesIn(raw)
             BY <1>3 DEF LookupInv
       <2>3. (Range(v[2]) \cup Range(list)) \ {""} = asked'
             BY <1>2, <2>1, <2>2
       <2> QED BY <1>3, <2>1, <2>2, <2>3, MergedNames
<1>11. /\ env' \in Seq(EnvVar) /\ Unique(env')
       /\ \A v : v[1] # c[1] => (v \in Range(env') <=> v \in Range(env2))
       /\ \E value \in Seq(EnvFields) : /\ <<c[1], value>> \in Range(env')
                                     /\ NewValue(env2, c, value)
       BY <1>4, <1>5, <1>8, <1>10, MergedIs
<1>12. PICK value \in Seq(EnvFields) : <<c[1], value>> \in Range(env')
                                    /\ NewValue(env2, c, value)
       BY <1>11
<1>13. Range(value) = asked' /\ Len(value) = Cardinality(asked')
       <2>1. CASE \E v \in Range(env2) : v[1] = c[1] /\ value = mergeNamespacesEnvVar(v[2], c[2])
             BY <1>5, <1>10, <2>1
       <2>2. CASE value = c[2] /\ \A v \in Range(env2) : v[1] # c[1]
             <3>1. \A v \in Range(env) : v[1] # DBNamespacesEnvVar
                   BY <1>5, <1>7, <1>8, <2>2
             <3>2. asked = {}
                   BY <3>1 DEF LookupInv
             <3> QED BY <1>2, <1>3, <1>5, <2>2, <3>2
       <2> QED BY <1>5, <1>12, <2>1, <2>2 DEF NewValue
<1>14. asked' # {} /\ asked' \subseteq Range(Alphabet)
       /\ asked' \cap (Reserved \cup {""}) = {}
       BY <1>2, <1>3 DEF LookupInv
<1>15. ASSUME NEW v \in Range(env'), v[1] = DBNamespacesEnvVar
       PROVE  ListsAsked(v[2])'
       <2>1. PICK i \in DOMAIN env' : env'[i] = v
             BY DEF Range
       <2>2. PICK j \in DOMAIN env' : env'[j] = <<c[1], value>>
             BY <1>12 DEF Range
       <2>3. i = j
             BY <1>5, <1>11, <1>15, <2>1, <2>2 DEF Unique
       <2>4. v[2] = value
             BY <2>1, <2>2, <2>3
       <2> QED BY <1>13, <1>14, <2>4 DEF ListsAsked
<1>16. <<"DISABLE_TELEMETRY", told'>> \in Range(env')
       BY <1>2, <1>5, <1>6, <1>9, <1>11
<1>17. \E v \in Range(env') : v[1] = DBNamespacesEnvVar
       BY <1>5, <1>12
<1>18. AnswersRight'
       BY <1>2 DEF LookupInv, AnswersRight, Is
<1> QED BY <1>11, <1>14, <1>15, <1>16, <1>17, <1>18 DEF LookupInv

LEMMA LookupSteps == ASSUME LookupInv, LookupNext \/ UNCHANGED lookupVars PROVE LookupInv'
<1>1. CASE \E raw \in Lists, skip \in BOOLEAN, t \in {<<"true">>, <<"false">>} :
               InstallWith(raw, skip, t)
      BY <1>1, InstallMerges
<1>2. CASE AskLibrary
      <2>1. env' = env /\ asked' = asked /\ told' = told
            BY <1>2 DEF AskLibrary, Answer
      <2>2. AnswersRight'
            BY <1>2, AskRight
      <2> QED BY <2>1, <2>2 DEF LookupInv, ListsAsked
<1>3. CASE UNCHANGED lookupVars
      <2>1. env' = env /\ asked' = asked /\ told' = told /\ answer' = answer
            BY <1>3 DEF lookupVars
      <2>2. AnswersRight'
            BY <2>1 DEF LookupInv, AnswersRight, Is
      <2> QED BY <2>1, <2>2 DEF LookupInv, ListsAsked
<1> QED BY <1>1, <1>2, <1>3 DEF LookupNext

LEMMA LookupImplies == ASSUME LookupInv PROVE LookupTypeOK /\ NamespacesRoundTrip
<1>1. /\ DOMAIN env \in SUBSET Nat
      /\ \A i \in DOMAIN env : env[i] \in EnvVar /\ env[i] \in Range(env)
      <2>1. env \in Seq(EnvVar)
            BY DEF LookupInv
      <2> QED BY <2>1, LenProperties, ElementOfSeq DEF Range
<1>2. LookupTypeOK
      BY <1>1 DEF LookupTypeOK, LookupInv, EnvVar
<1>3. ASSUME asked # {} PROVE NamespacesRoundTrip
      <2> DEFINE those == {i \in DOMAIN env : env[i][1] = DBNamespacesEnvVar}
                 m == Min(those)
      <2>1. those # {}
            BY <1>3 DEF LookupInv, Range
      <2>2. those \in SUBSET Nat
            BY <1>1
      <2>3. m \in those
            <3> HIDE DEF those
            <3> QED BY <2>1, <2>2, MinIs
      <2>4. GetDBNamespaces = env[m][2]
            BY DEF GetDBNamespaces
      <2> HIDE DEF m
      <2>5. ListsAsked(env[m][2])
            BY <1>1, <2>3 DEF LookupInv
      <2>6. \E i \in DOMAIN env : env[i] = <<"DISABLE_TELEMETRY", told>>
            BY <1>3 DEF LookupInv, Range
      <2> QED BY <1>3, <2>4, <2>5, <2>6
              DEF NamespacesRoundTrip, LookupInv, ListsAsked, Unique
<1>4. CASE asked = {}
      BY <1>2, <1>4 DEF NamespacesRoundTrip
<1> QED BY <1>2, <1>3, <1>4

(* The namespaces that uninstall reads are those of all installs, each     *)
(* once, whatever was typed and in whatever order it was validated.        *)
THEOREM NamespacesKept == LookupSpec => []NamespacesRoundTrip
<1>1. LookupSpec => []LookupInv
      BY LookupInits, LookupSteps, PTL DEF LookupSpec
<1>2. LookupInv => NamespacesRoundTrip
      BY LookupImplies
<1> QED BY <1>1, <1>2, PTL

(* Every answer is right, whatever the cluster and the question.           *)
THEOREM AnswersTrue == LookupSpec => []AnswersRight
<1>1. LookupSpec => []LookupInv
      BY LookupInits, LookupSteps, PTL DEF LookupSpec
<1>2. LookupInv => AnswersRight
      BY DEF LookupInv
<1> QED BY <1>1, <1>2, PTL

(* The environment holds only variables that the CLI sets, with fields     *)
(* that it writes, and only names of the alphabet are asked for.           *)
THEOREM LookupsTyped == LookupSpec => []LookupTypeOK
<1>1. LookupSpec => []LookupInv
      BY LookupInits, LookupSteps, PTL DEF LookupSpec
<1>2. LookupInv => LookupTypeOK
      BY LookupImplies
<1> QED BY <1>1, <1>2, PTL

-----------------------------------------------------------------------------
(* Library: a behaviour of it is one of each module                        *)
THEOREM EachAlone ==
    Spec => ManifestSpec /\ ResourceSpec /\ LookupSpec /\ WaitSpec
<1>1. Init => ManifestInit /\ ResourceInit /\ LookupInit /\ WaitInit
      BY DEF Init
<1>2. [Next]_libraryVars => /\ [ManifestNext]_manifestVars
                            /\ [ResourceNext]_resourceVars
                            /\ [LookupNext]_lookupVars /\ [WaitNext]_waitVars
      BY DEF Next, libraryVars
<1> QED BY <1>1, <1>2, PTL
        DEF Spec, ManifestSpec, ResourceSpec, LookupSpec, WaitSpec

(* All variables of the library keep their types.                          *)
THEOREM TypeCorrect == Spec => []TypeOK
<1>1. ManifestTypeOK /\ ResourceTypeOK /\ LookupTypeOK /\ WaitTypeOK => TypeOK
      BY DEF TypeOK
<1> QED BY <1>1, EachAlone, ManifestsTyped, ResourcesTyped, LookupsTyped,
           WaitsTyped, PTL
=============================================================================
