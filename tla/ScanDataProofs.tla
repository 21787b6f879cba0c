--------------------------- MODULE ScanDataProofs ---------------------------
(***************************************************************************)
(* What the operators on the data of a scan guarantee for every project,   *)
(* every list and every version: lists of findings; the filters of the     *)
(* target manager, by which no file disappears without a reason; and the   *)
(* comparisons of versions, whose outcome does not depend on which of two  *)
(* versions is asked about.                                                *)
(***************************************************************************)
EXTENDS Targets, TextOutput, Versions, SequenceTheorems, FiniteSetTheorems,
        WellFoundedInduction, TLAPS

-----------------------------------------------------------------------------
(* Numbers *)

\* A set of naturals has a least element.
LEMMA LeastElement ==
    ASSUME NEW S \in SUBSET Nat, S # {}
    PROVE  \E i \in S : \A j \in S : i <= j
<1>1. PICK i \in S : \A j \in S : <<j, i>> \notin OpToRel(<, Nat)
  BY NatLessThanWellFounded, WFMin
<1>2. \A j \in S : ~(j < i)
  BY <1>1 DEF OpToRel
<1>3. QED
  BY <1>2

\* Induction up to n: a set with 0 and the successor of each of its elements
\* below n.
LEMMA CountingUp ==
    ASSUME NEW n \in Nat, NEW K, 0 \in K,
           \A i \in 0..n : i \in K /\ i < n => i + 1 \in K
    PROVE  0..n \subseteq K
<1> DEFINE S == {i \in 0..n : i \notin K}
<1> SUFFICES ASSUME S # {}
             PROVE  FALSE
  OBVIOUS
<1>1. S \in SUBSET Nat
  OBVIOUS
<1>2. PICK i \in S : \A j \in S : i <= j
  <2> HIDE DEF S
  <2> QED BY <1>1, LeastElement
<1>3. i # 0 /\ i \in 0..n
  BY <1>2
<1>4. i - 1 \in 0..n /\ i - 1 < n /\ i - 1 \notin S
  BY <1>2, <1>3
<1>5. i - 1 \in K
  BY <1>4
<1>6. (i - 1) + 1 \in K
  BY <1>4, <1>5
<1>7. QED
  BY <1>2, <1>6

LEMMA MaxIs ==
    ASSUME NEW S \in SUBSET Int, NEW m \in S, \A y \in S : y <= m
    PROVE  Max(S) = m
<1> DEFINE top == CHOOSE x \in S : \A y \in S : x >= y
<1>1. \A x \in S : (\A y \in S : x >= y) => x = m
  OBVIOUS
<1>2. \A y \in S : m >= y
  OBVIOUS
<1>3. top \in S /\ \A y \in S : top >= y
  BY <1>2, Zenon
<1> HIDE DEF top
<1>4. top = m
  BY <1>1, <1>3
<1>5. QED
  BY <1>4 DEF Max, top

\* What a fold has made of the first elements of a list.
LEMMA FirstElements ==
    ASSUME NEW n \in Nat, NEW k \in 0..n, k < n
    PROVE  /\ k + 1 \in 1..n /\ 1..(k + 1) # {} /\ 1..(k + 1) \in SUBSET (1..n)
           /\ (1..(k + 1)) \ {k + 1} = 1..k /\ Max(1..(k + 1)) = k + 1
<1> DEFINE t == 1..(k + 1)
<1>1. t \in SUBSET Int /\ k + 1 \in t /\ \A y \in t : y <= k + 1
  OBVIOUS
<1>2. Max(t) = k + 1
  <2> HIDE DEF t
  <2>1. QED
    BY <1>1, MaxIs
<1>3. k + 1 \in 1..n /\ t # {} /\ t \in SUBSET (1..n)
  <2>1. \A x \in t : x \in 1..n
    OBVIOUS
  <2>2. k + 1 \in 1..n /\ k + 1 \in t
    OBVIOUS
  <2> HIDE DEF t
  <2>3. QED
    BY <2>1, <2>2
<1>4. t \ {k + 1} = 1..k
  <2>1. \A x \in t : x # k + 1 => x \in 1..k
    OBVIOUS
  <2>2. \A x \in 1..k : x \in t /\ x # k + 1
    OBVIOUS
  <2> HIDE DEF t
  <2>3. QED
    BY <2>1, <2>2, Zenon
<1> HIDE DEF t
<1>5. QED
  BY <1>2, <1>3, <1>4 DEF t

LEMMA MaxInList ==
    ASSUME NEW n \in Nat, NEW t \in SUBSET (1..n), t # {}
    PROVE  Max(t) \in t /\ \A y \in t : y <= Max(t)
<1> DEFINE S == {n - y : y \in t}
<1>1. S \in SUBSET Nat /\ S # {}
  <2>1. \A y \in t : y \in 1..n
    OBVIOUS
  <2>2. \A y \in 1..n : n - y \in Nat
    OBVIOUS
  <2>3. QED
    BY <2>1, <2>2
<1> HIDE DEF S
<1>2. PICK i \in S : \A j \in S : i <= j
  BY <1>1, LeastElement
<1>3. PICK m \in t : i = n - m
  BY <1>2 DEF S
<1>4. \A y \in t : y <= m
  <2> TAKE y \in t
  <2>1. n - y \in S
    BY DEF S
  <2>2. y \in 1..n /\ m \in 1..n
    OBVIOUS
  <2>3. n - m <= n - y
    BY <1>2, <1>3, <2>1
  <2>4. QED
    BY <2>2, <2>3
<1>5. t \in SUBSET Int
  OBVIOUS
<1>6. Max(t) = m
  BY <1>4, <1>5, MaxIs
<1>7. QED
  BY <1>4, <1>6

\* g is the recursive function by which a list of n elements is folded, in a set that
\* its steps do not leave: F[<<x, i>>] is what the step makes of x and of the i-th one.
StaysIn(F, X, n) == \A x \in X, i \in 1..n : F[<<x, i>>] \in X

IsFold(g, F, base, X, n) ==
    /\ g \in [SUBSET (1..n) -> X]
    /\ \A t \in SUBSET (1..n) :
          g[t] = IF t = {} THEN base ELSE F[<<g[t \ {Max(t)}], Max(t)>>]

LEMMA FoldExists ==
    ASSUME NEW n \in Nat, NEW X, NEW base \in X, NEW F, StaysIn(F, X, n)
    PROVE  \E g : IsFold(g, F, base, X, n)
<1> DEFINE Folded(g, k) ==
               g \in [SUBSET (1..k) -> X] /\ \A t \in SUBSET (1..k) :
                   g[t] = IF t = {} THEN base ELSE F[<<g[t \ {Max(t)}], Max(t)>>]
           K == {k \in 0..n : \E g : Folded(g, k)}
<1>1. 0 \in K
  <2> DEFINE g == [t \in SUBSET (1..0) |-> base]
  <2>1. 1..0 = {} /\ 0 \in 0..n
    OBVIOUS
  <2>2. Folded(g, 0)
    BY <2>1
  <2> HIDE DEF Folded
  <2>3. QED
    BY <2>1, <2>2
<1>2. ASSUME NEW k \in 0..n, k \in K, k < n
      PROVE  k + 1 \in K
  <2> USE DEF StaysIn
  <2>1. PICK f : Folded(f, k)
    BY <1>2
  <2> DEFINE S == SUBSET (1..(k + 1))
             g == [t \in S |-> IF k + 1 \in t THEN F[<<f[t \ {k + 1}], k + 1>>] ELSE f[t]]
  <2>2. /\ \A t \in S : k + 1 \in t => t \ {k + 1} \in SUBSET (1..k) /\ t # {}
        /\ \A t \in S : k + 1 \notin t => t \in SUBSET (1..k)
        /\ k + 1 \in 1..n
    BY <1>2
  <2>3. g \in [S -> X]
    <3>1. \A t \in S : k + 1 \in t => F[<<f[t \ {k + 1}], k + 1>>] \in X
      BY <2>1, <2>2
    <3>2. \A t \in S : k + 1 \notin t => f[t] \in X
      BY <2>1, <2>2
    <3> HIDE DEF S
    <3>3. QED
      BY <3>1, <3>2
  <2>4. ASSUME NEW t \in S
        PROVE  g[t] = IF t = {} THEN base ELSE F[<<g[t \ {Max(t)}], Max(t)>>]
    <3>1. CASE k + 1 \in t
      <4>1. Max(t) = k + 1
        <5>1. t \in SUBSET Int /\ \A y \in t : y <= k + 1
          OBVIOUS
        <5>2. QED
          BY <3>1, <5>1, MaxIs
      <4>2. t \ {k + 1} \in S /\ k + 1 \notin t \ {k + 1}
        OBVIOUS
      <4>3. g[t \ {k + 1}] = f[t \ {k + 1}]
        BY <4>2
      <4>4. g[t] = F[<<f[t \ {k + 1}], k + 1>>]
        BY <3>1
      <4> HIDE DEF g
      <4>5. QED
        BY <2>2, <3>1, <4>1, <4>3, <4>4
    <3>2. CASE k + 1 \notin t
      <4> DEFINE u == t \ {Max(t)}
      <4>1. t \in SUBSET (1..k)
        BY <2>2, <3>2
      <4>2. u \in S /\ k + 1 \notin u
        BY <3>2
      <4>3. g[t] = f[t] /\ g[u] = f[u]
        BY <3>2, <4>2
      <4>4. f[t] = IF t = {} THEN base ELSE F[<<f[u], Max(t)>>]
        BY <2>1, <4>1
      <4> HIDE DEF g, u
      <4>5. QED
        BY <4>3, <4>4 DEF u
    <3>3. QED
      BY <3>1, <3>2
  <2>5. Folded(g, k + 1)
    <3> HIDE DEF g
    <3>1. QED
      BY <2>3, <2>4
  <2> HIDE DEF Folded
  <2>6. QED
    BY <2>5, <1>2
<1>3. n \in K
  <2> HIDE DEF K
  <2>1. 0..n \subseteq K
    BY <1>1, <1>2, CountingUp
  <2>2. QED
    BY <2>1
<1>4. PICK g : Folded(g, n)
  BY <1>3
<1>5. QED
  BY <1>4 DEF IsFold

-----------------------------------------------------------------------------
(* Lists *)

LEMMA ListDomain ==
    ASSUME NEW s, IsList(s)
    PROVE  /\ Len(s) \in Nat /\ DOMAIN s = 1..Len(s)
           /\ \A i \in 1..Len(s) : s[i] \in ToSet(s)
BY DEF IsList, ToSet

LEMMA ListByDomain ==
    ASSUME NEW n \in Nat, NEW s, s = [i \in 1..n |-> s[i]]
    PROVE  /\ IsList(s) /\ Len(s) = n /\ DOMAIN s = 1..n
           /\ \A i \in 1..n : s[i] \in ToSet(s)
<1>1. DOMAIN s = 1..n
  OBVIOUS
<1>2. \A i \in 1..n : s[i] \in ToSet(s)
  BY <1>1 DEF ToSet
<1>3. s \in Seq(ToSet(s))
  BY <1>2, SeqDef
<1>4. Len(s) = n
  BY <1>1, <1>3, LenProperties
<1>5. QED
  BY <1>1, <1>2, <1>3, <1>4 DEF IsList

LEMMA EmptyList == IsList(<<>>) /\ ToSet(<<>>) = {}
<1>1. \A S : <<>> \in Seq(S)
  OBVIOUS
<1>2. DOMAIN <<>> = {}
  OBVIOUS
<1>3. QED
  BY <1>1, <1>2 DEF IsList, ToSet

LEMMA ListOfOne ==
    ASSUME NEW x
    PROVE  IsList(<<x>>) /\ ToSet(<<x>>) = {x} /\ <<x>>[1] = x
<1>1. <<x>> \in Seq({x}) /\ Len(<<x>>) = 1 /\ <<x>>[1] = x
  OBVIOUS
<1>2. DOMAIN <<x>> = {1}
  BY <1>1
<1>3. ToSet(<<x>>) = {x}
  BY <1>1, <1>2 DEF ToSet
<1>4. QED
  BY <1>1, <1>3 DEF IsList

LEMMA ListIn ==
    ASSUME NEW S, NEW s \in Seq(S)
    PROVE  IsList(s) /\ ToSet(s) \subseteq S
<1>1. \A i \in 1..Len(s) : s[i] \in S
  OBVIOUS
<1>2. DOMAIN s = 1..Len(s) /\ Len(s) \in Nat
  OBVIOUS
<1>3. s \in [1..Len(s) -> ToSet(s)]
  BY <1>1, <1>2 DEF ToSet
<1>4. s \in Seq(ToSet(s))
  BY <1>2, <1>3, SeqDef
<1>5. ToSet(s) \subseteq S
  BY <1>1, <1>2 DEF ToSet
<1>6. QED
  BY <1>4, <1>5 DEF IsList

LEMMA ListAppend ==
    ASSUME NEW s, IsList(s), NEW x
    PROVE  /\ IsList(Append(s, x)) /\ ToSet(Append(s, x)) = ToSet(s) \cup {x}
           /\ Append(s, x) # <<>> /\ Last(Append(s, x)) = x
<1> DEFINE S == ToSet(s) \cup {x}
           t == Append(s, x)
<1>1. s \in Seq(S) /\ x \in S
  <2>1. s \in Seq(ToSet(s)) /\ ToSet(s) \subseteq S /\ x \in S
    BY DEF IsList
  <2> HIDE DEF S
  <2>2. QED
    BY <2>1, SeqMonotonic
<1>2. /\ t \in Seq(S) /\ Len(t) = Len(s) + 1
      /\ \A i \in 1..Len(s) : t[i] = s[i]
      /\ t[Len(s) + 1] = x
  <2> HIDE DEF S
  <2>1. QED
    BY <1>1, AppendProperties
<1>3. Len(s) \in Nat /\ DOMAIN s = 1..Len(s)
  BY <1>1
<1> HIDE DEF t
<1>4. IsList(t) /\ ToSet(t) \subseteq S
  <2> HIDE DEF S
  <2>1. QED
    BY <1>2, ListIn
<1>5. DOMAIN t = 1..(Len(s) + 1)
  BY <1>2
<1>6. S \subseteq ToSet(t)
  <2>1. ASSUME NEW i \in DOMAIN s
        PROVE  s[i] \in ToSet(t)
    BY <1>2, <1>3, <1>5 DEF ToSet
  <2>2. x \in ToSet(t)
    <3>1. Len(s) + 1 \in DOMAIN t
      BY <1>3, <1>5
    <3>2. QED
      BY <1>2, <3>1 DEF ToSet
  <2>3. QED
    BY <2>1, <2>2 DEF ToSet
<1>7. t # <<>> /\ Last(t) = x
  BY <1>2, <1>3 DEF Last
<1>8. QED
  BY <1>4, <1>6, <1>7 DEF t

LEMMA ListConcat ==
    ASSUME NEW s, NEW t, IsList(s), IsList(t)
    PROVE  IsList(s \o t) /\ ToSet(s \o t) = ToSet(s) \cup ToSet(t)
<1> DEFINE S == ToSet(s) \cup ToSet(t)
           st == s \o t
<1>1. s \in Seq(S) /\ t \in Seq(S)
  <2>1. /\ s \in Seq(ToSet(s)) /\ ToSet(s) \subseteq S
        /\ t \in Seq(ToSet(t)) /\ ToSet(t) \subseteq S
    BY DEF IsList
  <2> HIDE DEF S
  <2>2. QED
    BY <2>1, SeqMonotonic
<1>2. /\ st \in Seq(S) /\ Len(st) = Len(s) + Len(t)
      /\ \A i \in 1..(Len(s) + Len(t)) :
             st[i] = IF i <= Len(s) THEN s[i] ELSE t[i - Len(s)]
  <2> HIDE DEF S
  <2>1. QED
    BY <1>1, ConcatProperties
<1> HIDE DEF st
<1>3. /\ Len(s) \in Nat /\ DOMAIN s = 1..Len(s) /\ Len(t) \in Nat /\ DOMAIN t = 1..Len(t)
      /\ DOMAIN st = 1..(Len(s) + Len(t))
  <2> HIDE DEF S
  <2>1. QED
    BY <1>1, <1>2, LenProperties
<1>4. IsList(st) /\ ToSet(st) \subseteq S
  <2> HIDE DEF S
  <2>1. QED
    BY <1>2, ListIn
<1>5. ASSUME NEW i \in DOMAIN s
      PROVE  s[i] \in ToSet(st)
  <2>1. i \in DOMAIN st /\ st[i] = s[i]
    BY <1>2, <1>3
  <2>2. QED
    BY <2>1 DEF ToSet
<1>6. ASSUME NEW i \in DOMAIN t
      PROVE  t[i] \in ToSet(st)
  <2>1. /\ Len(s) + i \in 1..(Len(s) + Len(t)) /\ ~(Len(s) + i <= Len(s))
        /\ (Len(s) + i) - Len(s) = i
    BY <1>3
  <2>2. Len(s) + i \in DOMAIN st /\ st[Len(s) + i] = t[i]
    BY <1>2, <1>3, <2>1
  <2>3. QED
    BY <2>2 DEF ToSet
<1>7. S \subseteq ToSet(st)
  BY <1>5, <1>6 DEF ToSet
<1>8. QED
  BY <1>4, <1>7 DEF st

\* Where the elements of two lists are in the one that they make.
LEMMA ConcatPlaces ==
    ASSUME NEW s, NEW t, IsList(s), IsList(t)
    PROVE  /\ Len(s \o t) = Len(s) + Len(t)
           /\ \A i \in 1..Len(s) : (s \o t)[i] = s[i]
           /\ \A i \in 1..Len(t) : (s \o t)[Len(s) + i] = t[i]
<1> DEFINE S == ToSet(s) \cup ToSet(t)
           st == s \o t
<1>1. s \in Seq(S) /\ t \in Seq(S)
  <2>1. /\ s \in Seq(ToSet(s)) /\ ToSet(s) \subseteq S
        /\ t \in Seq(ToSet(t)) /\ ToSet(t) \subseteq S
    BY DEF IsList
  <2> HIDE DEF S
  <2>2. QED
    BY <2>1, SeqMonotonic
<1> HIDE DEF S
<1>2. /\ Len(st) = Len(s) + Len(t)
      /\ \A i \in 1..(Len(s) + Len(t)) :
             st[i] = IF i <= Len(s) THEN s[i] ELSE t[i - Len(s)]
  BY <1>1, ConcatProperties
<1>3. Len(s) \in Nat /\ Len(t) \in Nat
  BY ListDomain
<1> HIDE DEF st
<1>4. ASSUME NEW i \in 1..Len(s)
      PROVE  st[i] = s[i]
  <2>1. i \in 1..(Len(s) + Len(t)) /\ i <= Len(s)
    BY <1>3
  <2>2. QED
    BY <1>2, <2>1
<1>5. ASSUME NEW i \in 1..Len(t)
      PROVE  st[Len(s) + i] = t[i]
  <2>1. /\ Len(s) + i \in 1..(Len(s) + Len(t)) /\ ~(Len(s) + i <= Len(s))
        /\ (Len(s) + i) - Len(s) = i
    BY <1>3
  <2>2. QED
    BY <1>2, <2>1
<1>6. QED
  BY <1>2, <1>4, <1>5 DEF st

LEMMA ListOfTwo ==
    ASSUME NEW x, NEW y
    PROVE  LET s == <<x>> \o <<y>> IN IsList(s) /\ Len(s) = 2 /\ s[1] = x /\ s[2] = y
<1> DEFINE one == <<x>>
           two == <<y>>
           s == one \o two
<1>1. /\ IsList(one) /\ Len(one) = 1 /\ one[1] = x
      /\ IsList(two) /\ Len(two) = 1 /\ two[1] = y
  BY ListOfOne
<1> HIDE DEF one, two
<1>2. IsList(s) /\ Len(s) = 2
  BY <1>1, ListConcat, ConcatPlaces
<1>3. \A i \in 1..1 : s[i] = one[i] /\ s[1 + i] = two[i]
  BY <1>1, ConcatPlaces
<1> HIDE DEF s
<1>4. s[1] = x /\ s[2] = y
  BY <1>1, <1>3
<1>5. QED
  BY <1>2, <1>4 DEF s, one, two

\* A list made of the elements of a finite set.
LEMMA SetAsList ==
    ASSUME NEW S, IsFiniteSet(S)
    PROVE  /\ IsList(SetToSeq(S)) /\ ToSet(SetToSeq(S)) = S
           /\ Len(SetToSeq(S)) = Cardinality(S)
<1> DEFINE n == Cardinality(S)
           s == SetToSeq(S)
<1>1. n \in Nat /\ ExistsBijection(1..n, S)
  BY FS_CardinalityType
<1>2. PICK f \in [1..n -> S] : IsInjective(f)
  BY <1>1 DEF ExistsBijection, Bijection, Injection
<1>3. s \in [1..n -> S] /\ IsInjective(s)
  BY <1>2, Zenon DEF SetToSeq
<1> HIDE DEF s
<1>4. s \in Injection(1..n, S)
  BY <1>3 DEF Injection
<1>5. Cardinality(1..n) = n
  <2>1. 1 \in Int /\ n \in Int /\ (1 > n => n = 0) /\ (n - 1) + 1 = n
    BY <1>1
  <2>2. Cardinality(1..n) = IF 1 > n THEN 0 ELSE (n - 1) + 1
    <3> HIDE DEF n
    <3>1. QED
      BY <2>1, FS_Interval
  <2>3. QED
    BY <2>1, <2>2
<1>6. s \in Surjection(1..n, S)
  <2> HIDE DEF n
  <2>1. Cardinality(1..n) = Cardinality(S) <=> s \in Surjection(1..n, S)
    BY <1>4, FS_Injection
  <2>2. QED
    BY <1>5, <2>1 DEF n
<1>7. ToSet(s) = S
  BY <1>3, <1>6 DEF ToSet, Surjection
<1>8. s \in Seq(S)
  <2> HIDE DEF n
  <2>1. QED
    BY <1>1, <1>3, SeqDef
<1>9. Len(s) = n
  <2>1. DOMAIN s = 1..n
    BY <1>3
  <2> HIDE DEF n
  <2>2. QED
    BY <1>1, <1>8, <2>1
<1>10. QED
  BY <1>7, <1>8, <1>9 DEF IsList, s

LEMMA FiniteRange ==
    ASSUME NEW S, IsFiniteSet(S), NEW f, DOMAIN f = S
    PROVE  IsFiniteSet({f[x] : x \in S})
<1> DEFINE T == {f[x] : x \in S}
           g == [x \in S |-> f[x]]
<1>1. g \in Surjection(S, T)
  BY DEF Surjection
<1>2. QED
  <2> HIDE DEF g, T
  <2>1. IsFiniteSet(T)
    BY <1>1, FS_Surjection
  <2>2. QED
    BY <2>1 DEF T

\* The lists in a list, one after the other: they are put together step by step.
LEMMA FlatSteps ==
    ASSUME NEW n \in Nat, NEW s, s = [i \in 1..n |-> s[i]],
           \A i \in 1..n : IsList(s[i])
    PROVE  \E f : /\ f[0] = <<>> /\ f[n] = FlattenSeq(s)
                  /\ \A k \in 1..n : f[k] = f[k - 1] \o s[k]
<1> DEFINE Eq(f, k) == f = [i \in 1..k |-> IF i = 1 THEN s[i] ELSE f[i - 1] \o s[i]]
           K == {k \in 0..n : \E f : Eq(f, k)}
<1>1. 0 \in K
  <2>1. Eq(<<>>, 0)
    <3>1. \A i : i \notin 1..0
      OBVIOUS
    <3>2. <<>> = [i \in 1..0 |-> IF i = 1 THEN s[i] ELSE <<>>[i - 1] \o s[i]]
      BY <3>1
    <3>3. QED
      BY <3>2
  <2>2. 0 \in 0..n
    OBVIOUS
  <2>3. QED
    BY <2>1, <2>2, Zenon
<1>2. ASSUME NEW k \in 0..n, k \in K, k < n
      PROVE  k + 1 \in K
  <2>1. PICK f : Eq(f, k)
    BY <1>2, Zenon
  <2> DEFINE g == [i \in 1..(k + 1) |-> IF i = k + 1
                                        THEN IF i = 1 THEN s[i] ELSE f[i - 1] \o s[i]
                                        ELSE f[i]]
  <2>2. ASSUME NEW i \in 1..(k + 1)
        PROVE  g[i] = IF i = 1 THEN s[i] ELSE g[i - 1] \o s[i]
    <3>1. i # 1 => i - 1 \in 1..(k + 1) /\ i - 1 # k + 1
      OBVIOUS
    <3>2. i # 1 => g[i - 1] = f[i - 1]
      BY <3>1
    <3>3. CASE i = k + 1
      <4>1. g[i] = IF i = 1 THEN s[i] ELSE f[i - 1] \o s[i]
        BY <3>3
      <4> HIDE DEF g
      <4>2. QED
        BY <3>2, <4>1, Zenon
    <3>4. CASE i # k + 1
      <4>1. i \in 1..k
        BY <3>4
      <4>2. g[i] = f[i]
        BY <3>4
      <4>3. f[i] = IF i = 1 THEN s[i] ELSE f[i - 1] \o s[i]
        BY <2>1, <4>1, Zenon
      <4> HIDE DEF g
      <4>4. QED
        BY <3>2, <4>2, <4>3, Zenon
    <3>5. QED
      BY <3>3, <3>4
  <2>3. Eq(g, k + 1)
    <3> DEFINE h == [i \in 1..(k + 1) |-> IF i = 1 THEN s[i] ELSE g[i - 1] \o s[i]]
    <3>1. g = [i \in 1..(k + 1) |-> g[i]]
      BY Zenon
    <3>2. h = [i \in 1..(k + 1) |-> g[i]]
      <4> HIDE DEF g
      <4>1. QED
        BY <2>2, Zenon
    <3>3. QED
      BY <3>1, <3>2, Zenon
  <2>4. k + 1 \in 0..n
    BY <1>2
  <2>5. QED
    <3> HIDE DEF g
    <3>1. QED
      BY <2>3, <2>4, Zenon
<1>3. n \in K
  <2> HIDE DEF K
  <2>1. 0..n \subseteq K
    BY <1>1, <1>2, CountingUp
  <2>2. QED
    BY <2>1
<1> DEFINE flatten == CHOOSE f : Eq(f, Len(s))
<1>4. Len(s) = n
  BY ListByDomain
<1>5. Eq(flatten, Len(s))
  <2>1. Len(s) \in K
    <3> HIDE DEF K
    <3>1. QED
      BY <1>3, <1>4
  <2>2. QED
    BY <2>1, Zenon
<1>6. FlattenSeq(s) = IF Len(s) = 0 THEN s ELSE flatten[Len(s)]
  BY Zenon DEF FlattenSeq
<1>7. s = <<>> \/ n # 0
  <2>1. n = 0 => s = <<>>
    BY ListByDomain, EmptySeq DEF IsList
  <2>2. QED
    BY <2>1
<1> HIDE DEF flatten
<1> DEFINE f == [k \in 0..n |-> IF k = 0 THEN <<>> ELSE flatten[k]]
<1>8. f[0] = <<>> /\ \A k \in 1..n : f[k] = flatten[k]
  OBVIOUS
<1>9. f[n] = FlattenSeq(s)
  <2>1. CASE n = 0
    BY <1>4, <1>6, <1>7, <1>8, <2>1
  <2>2. CASE n # 0
    BY <1>4, <1>6, <1>8, <2>2
  <2>3. QED
    BY <2>1, <2>2
<1>10. ASSUME NEW k \in 1..n
       PROVE  f[k] = f[k - 1] \o s[k]
  <2>1. flatten[k] = IF k = 1 THEN s[k] ELSE flatten[k - 1] \o s[k]
    BY <1>4, <1>5, Zenon
  <2>2. CASE k = 1
    <3>1. s[k] \in Seq(ToSet(s[k]))
      BY DEF IsList
    <3>2. <<>> \o s[k] = s[k]
      BY <3>1, ConcatEmptySeq
    <3>3. f[k - 1] = <<>> /\ flatten[k] = s[k]
      <4>1. k - 1 = 0
        BY <2>2
      <4> HIDE DEF f
      <4>2. QED
        BY <1>8, <2>1, <2>2, <4>1
    <3> HIDE DEF f
    <3>4. QED
      BY <1>8, <3>2, <3>3
  <2>3. CASE k # 1
    <3>1. k - 1 \in 1..n
      BY <2>3
    <3> HIDE DEF f
    <3>2. f[k - 1] = flatten[k - 1]
      BY <1>8, <3>1
    <3>3. QED
      BY <1>8, <2>1, <2>3, <3>2
  <2>4. QED
    BY <2>2, <2>3
<1> HIDE DEF f
<1>11. QED
  BY <1>8, <1>9, <1>10

LEMMA FlatLists ==
    ASSUME NEW n \in Nat, NEW s, s = [i \in 1..n |-> s[i]],
           \A i \in 1..n : IsList(s[i])
    PROVE  IsList(FlattenSeq(s)) /\ ToSet(FlattenSeq(s)) = UNION {ToSet(s[i]) : i \in 1..n}
<1>1. PICK f : /\ f[0] = <<>> /\ f[n] = FlattenSeq(s)
               /\ \A k \in 1..n : f[k] = f[k - 1] \o s[k]
  BY FlatSteps
<1> DEFINE P(k) == UNION {ToSet(s[i]) : i \in 1..k}
           K == {k \in 0..n : IsList(f[k]) /\ ToSet(f[k]) = P(k)}
<1>2. 0 \in K
  <2>1. P(0) = {}
    OBVIOUS
  <2>2. IsList(f[0]) /\ ToSet(f[0]) = P(0)
    BY <1>1, <2>1, EmptyList
  <2> HIDE DEF P
  <2>3. QED
    BY <2>2
<1>3. ASSUME NEW k \in 0..n, k \in K, k < n
      PROVE  k + 1 \in K
  <2>1. k + 1 \in 1..n /\ (k + 1) - 1 = k
    BY <1>3
  <2>2. f[k + 1] = f[k] \o s[k + 1]
    BY <1>1, <2>1
  <2>3. P(k + 1) = P(k) \cup ToSet(s[k + 1])
    <3>1. \A i \in 1..(k + 1) : i \in 1..k \/ i = k + 1
      OBVIOUS
    <3>2. \A i \in 1..k : i \in 1..(k + 1)
      OBVIOUS
    <3>3. k + 1 \in 1..(k + 1)
      OBVIOUS
    <3>4. QED
      BY <3>1, <3>2, <3>3
  <2> HIDE DEF P
  <2>4. IsList(f[k]) /\ ToSet(f[k]) = P(k)
    BY <1>3
  <2>5. IsList(s[k + 1])
    BY <2>1
  <2>6. IsList(f[k + 1]) /\ ToSet(f[k + 1]) = P(k + 1)
    BY <2>2, <2>3, <2>4, <2>5, ListConcat
  <2>7. QED
    BY <1>3, <2>6
<1>4. n \in K
  <2> HIDE DEF K
  <2>1. 0..n \subseteq K
    BY <1>2, <1>3, CountingUp
  <2>2. QED
    BY <2>1
<1>5. QED
  BY <1>1, <1>4

LEMMA FlatList ==
    ASSUME NEW n \in Nat, NEW s, s = [i \in 1..n |-> s[i]],
           NEW P, \A i \in 1..n : s[i] \in Seq(P)
    PROVE  FlattenSeq(s) \in Seq(P)
<1>1. \A i \in 1..n : IsList(s[i]) /\ ToSet(s[i]) \subseteq P
  BY ListIn
<1>2. IsList(FlattenSeq(s)) /\ ToSet(FlattenSeq(s)) \subseteq P
  BY <1>1, FlatLists
<1>3. FlattenSeq(s) \in Seq(ToSet(FlattenSeq(s)))
  BY <1>2 DEF IsList
<1>4. QED
  BY <1>2, <1>3, SeqMonotonic

-----------------------------------------------------------------------------
(* Lists of findings *)

\* What Only leaves of a list.
LEMMA OnlyKept ==
    ASSUME NEW list, IsList(list), NEW kept
    PROVE  IsList(Only(list, kept)) /\ ToSet(Only(list, kept)) = ToSet(list) \cap kept
<1> DEFINE n == Len(list)
           s == [i \in DOMAIN list |-> IF list[i] \in kept THEN <<list[i]>> ELSE <<>>]
<1>1. n \in Nat /\ DOMAIN list = 1..n
  BY ListDomain
<1> HIDE DEF n
<1>2. \A i \in 1..n : s[i] = IF list[i] \in kept THEN <<list[i]>> ELSE <<>>
  BY <1>1
<1>3. s = [i \in 1..n |-> s[i]]
  BY <1>1
<1>4. Only(list, kept) = FlattenSeq(s)
  BY DEF Only
<1> HIDE DEF s
<1>5. \A i \in 1..n : IsList(s[i]) /\ ToSet(s[i]) = {list[i]} \cap kept
  BY <1>2, EmptyList, ListOfOne
<1>6. IsList(FlattenSeq(s)) /\ ToSet(FlattenSeq(s)) = UNION {ToSet(s[i]) : i \in 1..n}
  BY <1>1, <1>3, <1>5, FlatLists
<1>7. ToSet(list) = {list[i] : i \in 1..n}
  BY <1>1 DEF ToSet
<1>8. UNION {ToSet(s[i]) : i \in 1..n} = ToSet(list) \cap kept
  BY <1>5, <1>7
<1>9. QED
  BY <1>4, <1>6, <1>8

LEMMA SubList ==
    ASSUME NEW s, IsList(s), NEW m \in 1..(Len(s) + 1), NEW n \in (m - 1)..Len(s)
    PROVE  /\ IsList(SubSeq(s, m, n)) /\ ToSet(SubSeq(s, m, n)) = {s[i] : i \in m..n}
           /\ Len(SubSeq(s, m, n)) = (n - m) + 1
<1> DEFINE part == SubSeq(s, m, n)
           S == {s[i] : i \in m..n}
<1>1. Len(s) \in Nat /\ m \in Int /\ n \in Int
  BY ListDomain
<1>2. \A i \in m..n : s[i] \in S
  OBVIOUS
<1>3. /\ part \in Seq(S) /\ Len(part) = (n - m) + 1
      /\ \A i \in 1..((n - m) + 1) : part[i] = s[(m + i) - 1]
  <2> HIDE DEF S
  <2>1. /\ part \in Seq(S) /\ Len(part) = IF m <= n THEN (n - m) + 1 ELSE 0
        /\ \A i \in 1..((n - m) + 1) : part[i] = s[(m + i) - 1]
    BY <1>1, <1>2, SubSeqProperties
  <2>2. ~(m <= n) => (n - m) + 1 = 0
    BY <1>1
  <2>3. QED
    BY <2>1, <2>2
<1> HIDE DEF part
<1>4. IsList(part) /\ ToSet(part) \subseteq S
  <2> HIDE DEF S
  <2>1. QED
    BY <1>3, ListIn
<1>5. DOMAIN part = 1..((n - m) + 1)
  BY <1>3, <1>4, ListDomain
<1>6. ASSUME NEW i \in m..n
      PROVE  s[i] \in ToSet(part)
  <2>1. (i - m) + 1 \in 1..((n - m) + 1) /\ (m + ((i - m) + 1)) - 1 = i
    BY <1>1
  <2>2. part[(i - m) + 1] = s[i]
    BY <1>3, <2>1
  <2>3. QED
    BY <1>5, <2>1, <2>2 DEF ToSet
<1>7. QED
  BY <1>3, <1>4, <1>6 DEF part

LEMMA InsertedList ==
    ASSUME NEW sorted, IsList(sorted), NEW match
    PROVE  /\ IsList(Insert(sorted, match))
           /\ ToSet(Insert(sorted, match)) = ToSet(sorted) \cup {match}
           /\ Len(Insert(sorted, match)) = Len(sorted) + 1
<1> DEFINE n == Len(sorted)
           P == {i \in DOMAIN sorted : ~Before(match, sorted[i])}
           c == Cardinality(P)
           one == SubSeq(sorted, 1, c)
           two == SubSeq(sorted, c + 1, n)
<1>1. n \in Nat /\ DOMAIN sorted = 1..n
  BY ListDomain
<1>2. c \in 0..n
  <2>1. P \subseteq 1..n
    BY <1>1
  <2> HIDE DEF P
  <2>2. IsFiniteSet(1..n) /\ Cardinality(1..n) = n
    <3>1. 1 \in Int /\ n \in Int /\ (1 > n => n = 0) /\ (n - 1) + 1 = n
      BY <1>1
    <3> HIDE DEF n
    <3>2. QED
      BY <3>1, FS_Interval
  <2>3. IsFiniteSet(P) /\ c <= n
    BY <2>1, <2>2, FS_Subset
  <2>4. c \in Nat
    BY <2>3, FS_CardinalityType
  <2>5. QED
    BY <1>1, <2>3, <2>4
<1>3. Insert(sorted, match) = one \o <<match>> \o two
  <2>1. Insert(sorted, match) = InsertAt(sorted, 1 + c, match)
    BY DEF Insert
  <2> HIDE DEF c
  <2>2. (1 + c) - 1 = c /\ 1 + c = c + 1
    BY <1>2
  <2>3. InsertAt(sorted, 1 + c, match)
            = SubSeq(sorted, 1, (1 + c) - 1) \o <<match>> \o SubSeq(sorted, 1 + c, n)
    BY DEF InsertAt
  <2>4. QED
    BY <2>1, <2>2, <2>3
<1> HIDE DEF c
<1>4. IsList(one) /\ ToSet(one) = {sorted[i] : i \in 1..c} /\ Len(one) = (c - 1) + 1
  <2>1. 1 \in 1..(n + 1) /\ c \in (1 - 1)..n
    BY <1>1, <1>2
  <2>2. QED
    BY <2>1, SubList
<1>5. IsList(two) /\ ToSet(two) = {sorted[i] : i \in (c + 1)..n} /\ Len(two) = (n - (c + 1)) + 1
  <2>1. c + 1 \in 1..(n + 1) /\ n \in ((c + 1) - 1)..n
    BY <1>1, <1>2
  <2>2. QED
    BY <2>1, SubList
<1> HIDE DEF one, two
<1>6. /\ IsList(one \o <<match>> \o two)
      /\ ToSet(one \o <<match>> \o two) = ToSet(one) \cup {match} \cup ToSet(two)
      /\ Len(one \o <<match>> \o two) = n + 1
  <2>1. /\ IsList(one \o <<match>>) /\ ToSet(one \o <<match>>) = ToSet(one) \cup {match}
        /\ Len(one \o <<match>>) = Len(one) + 1
    <3>1. Len(<<match>>) = 1
      OBVIOUS
    <3>2. QED
      BY <1>4, <3>1, ListOfOne, ListConcat, ConcatPlaces
  <2>2. (Len(one) + 1) + Len(two) = n + 1
    BY <1>1, <1>2, <1>4, <1>5
  <2>3. Len(one \o <<match>> \o two) = (Len(one) + 1) + Len(two)
    <3> DEFINE begin == one \o <<match>>
    <3>1. IsList(begin) /\ Len(begin) = Len(one) + 1
      BY <2>1
    <3> HIDE DEF begin
    <3>2. Len(begin \o two) = Len(begin) + Len(two)
      BY <1>5, <3>1, ConcatPlaces
    <3>3. QED
      BY <3>1, <3>2 DEF begin
  <2>4. QED
    BY <1>5, <2>1, <2>2, <2>3, ListConcat
<1>7. \A i : i \in 1..n <=> i \in 1..c \/ i \in (c + 1)..n
  BY <1>1, <1>2
<1>8. ToSet(sorted) = {sorted[i] : i \in 1..n}
  BY <1>1 DEF ToSet
<1>9. ToSet(one) \cup ToSet(two) = ToSet(sorted)
  <2> HIDE DEF n
  <2>1. QED
    BY <1>4, <1>5, <1>7, <1>8
<1>10. QED
  BY <1>3, <1>6, <1>9

\* Sorting keeps every finding.
LEMMA SortedList ==
    ASSUME NEW list, IsList(list)
    PROVE  /\ IsList(SortMatches(list)) /\ ToSet(SortMatches(list)) = ToSet(list)
           /\ Len(SortMatches(list)) = Len(list)
<1> DEFINE n == Len(list)
           Eq(f, k) == f = [i \in 0..k |-> IF i = 0 THEN <<>> ELSE Insert(f[i - 1], list[i])]
           K == {k \in 0..n : \E f : Eq(f, k)}
<1>1. n \in Nat /\ DOMAIN list = 1..n
  BY ListDomain
<1>2. 0 \in K
  <2> DEFINE f == [i \in 0..0 |-> <<>>]
  <2>1. \A i \in 0..0 : i = 0
    OBVIOUS
  <2>2. f = [i \in 0..0 |-> IF i = 0 THEN <<>> ELSE Insert(f[i - 1], list[i])]
    BY <2>1, Zenon
  <2>3. 0 \in 0..n
    BY <1>1
  <2>4. QED
    BY <2>2, <2>3, Zenon
<1>3. ASSUME NEW k \in 0..n, k \in K, k < n
      PROVE  k + 1 \in K
  <2>1. PICK f : Eq(f, k)
    BY <1>3, Zenon
  <2> DEFINE g == [i \in 0..(k + 1) |-> IF i = k + 1 THEN Insert(f[k], list[k + 1]) ELSE f[i]]
             h == [i \in 0..(k + 1) |-> IF i = 0 THEN <<>> ELSE Insert(g[i - 1], list[i])]
  <2>2. ASSUME NEW i \in 0..(k + 1)
        PROVE  g[i] = IF i = 0 THEN <<>> ELSE Insert(g[i - 1], list[i])
    <3>1. CASE i = k + 1
      <4>1. i # 0 /\ i - 1 = k /\ k \in 0..(k + 1) /\ k # k + 1
        BY <3>1
      <4>2. g[k] = f[k] /\ g[i] = Insert(f[k], list[k + 1])
        BY <3>1, <4>1
      <4> HIDE DEF g
      <4>3. QED
        BY <3>1, <4>1, <4>2
    <3>2. CASE i # k + 1
      <4>1. i \in 0..k /\ (i # 0 => i - 1 \in 0..(k + 1) /\ i - 1 # k + 1)
        BY <3>2
      <4>2. g[i] = f[i] /\ (i # 0 => g[i - 1] = f[i - 1])
        BY <3>2, <4>1
      <4>3. f[i] = IF i = 0 THEN <<>> ELSE Insert(f[i - 1], list[i])
        BY <2>1, <4>1, Zenon
      <4> HIDE DEF g
      <4>4. QED
        BY <4>2, <4>3
    <3>3. QED
      BY <3>1, <3>2
  <2>3. Eq(g, k + 1)
    <3>1. g = [i \in 0..(k + 1) |-> g[i]]
      BY Zenon
    <3>2. h = [i \in 0..(k + 1) |-> g[i]]
      <4> HIDE DEF g
      <4>1. QED
        BY <2>2, Zenon
    <3>3. QED
      BY <3>1, <3>2, Zenon
  <2>4. k + 1 \in 0..n
    <3> HIDE DEF K
    <3>1. QED
      BY <1>1, <1>3
  <2>5. QED
    <3> HIDE DEF g
    <3>1. QED
      BY <2>3, <2>4, Zenon
<1>4. n \in K
  <2> HIDE DEF K, n
  <2>1. 0..n \subseteq K
    BY <1>1, <1>2, <1>3, CountingUp
  <2>2. QED
    BY <1>1, <2>1
<1> DEFINE sorted == CHOOSE f : Eq(f, n)
<1>5. Eq(sorted, n)
  BY <1>4, Zenon
<1>6. SortMatches(list) = sorted[n]
  BY Zenon DEF SortMatches
<1> HIDE DEF sorted, n
<1>7. sorted[0] = <<>> /\ \A k \in 1..n : sorted[k] = Insert(sorted[k - 1], list[k])
  <2>1. 0 \in 0..n /\ \A k \in 1..n : k \in 0..n /\ k # 0
    BY <1>1
  <2>2. \A k \in 0..n : sorted[k] = IF k = 0 THEN <<>> ELSE Insert(sorted[k - 1], list[k])
    BY <1>5, Zenon
  <2>3. QED
    BY <2>1, <2>2
<1> HIDE DEF K, Eq
<1> DEFINE P(k) == {list[i] : i \in 1..k}
           M == {k \in 0..n : IsList(sorted[k]) /\ ToSet(sorted[k]) = P(k) /\ Len(sorted[k]) = k}
<1>8. 0 \in M
  <2>1. P(0) = {} /\ 0 \in 0..n
    BY <1>1
  <2>2. IsList(sorted[0]) /\ ToSet(sorted[0]) = P(0) /\ Len(sorted[0]) = 0
    BY <1>7, <2>1, EmptyList
  <2> HIDE DEF P
  <2>3. QED
    BY <2>1, <2>2
<1>9. ASSUME NEW k \in 0..n, k \in M, k < n
      PROVE  k + 1 \in M
  <2>1. k + 1 \in 1..n /\ (k + 1) - 1 = k
    BY <1>1, <1>9
  <2>2. P(k + 1) = P(k) \cup {list[k + 1]}
    <3>1. \A i : i \in 1..(k + 1) <=> i \in 1..k \/ i = k + 1
      OBVIOUS
    <3>2. QED
      BY <3>1
  <2> HIDE DEF P
  <2>3. IsList(sorted[k]) /\ ToSet(sorted[k]) = P(k) /\ Len(sorted[k]) = k
    BY <1>9
  <2>4. sorted[k + 1] = Insert(sorted[k], list[k + 1])
    BY <1>7, <2>1
  <2>5. IsList(sorted[k + 1]) /\ ToSet(sorted[k + 1]) = P(k + 1) /\ Len(sorted[k + 1]) = k + 1
    BY <2>2, <2>3, <2>4, InsertedList
  <2>6. k + 1 \in 0..n
    BY <1>1, <2>1
  <2>7. QED
    BY <2>5, <2>6
<1>10. n \in M
  <2> HIDE DEF M
  <2>1. 0..n \subseteq M
    BY <1>1, <1>8, <1>9, CountingUp
  <2>2. QED
    BY <1>1, <2>1
<1>11. P(n) = ToSet(list)
  BY <1>1 DEF ToSet
<1> HIDE DEF P
<1>12. QED
  BY <1>6, <1>10, <1>11 DEF n

\* A list of something for each place of a list.
LEMMA MappedList ==
    ASSUME NEW list, IsList(list), NEW f, f = [i \in DOMAIN list |-> f[i]]
    PROVE  IsList(f) /\ DOMAIN f = DOMAIN list /\ ToSet(f) = {f[i] : i \in DOMAIN list}
<1>1. Len(list) \in Nat /\ DOMAIN list = 1..Len(list)
  BY ListDomain
<1>2. f = [i \in 1..Len(list) |-> f[i]]
  BY <1>1
<1>3. IsList(f) /\ DOMAIN f = 1..Len(list)
  BY <1>1, <1>2, ListByDomain
<1>4. QED
  BY <1>1, <1>3 DEF ToSet

LEMMA ReversedList ==
    ASSUME NEW list, IsList(list)
    PROVE  IsList(Reverse(list)) /\ ToSet(Reverse(list)) = ToSet(list)
<1> DEFINE n == Len(list)
           back == Reverse(list)
<1>1. n \in Nat /\ DOMAIN list = 1..n
  BY ListDomain
<1>2. back = [i \in 1..n |-> list[(n - i) + 1]]
  BY DEF Reverse
<1>3. IsList(back) /\ DOMAIN back = 1..n /\ \A i \in 1..n : back[i] = list[(n - i) + 1]
  <2> HIDE DEF n
  <2>1. back = [i \in 1..n |-> back[i]]
    BY <1>2
  <2> HIDE DEF back
  <2>2. QED
    BY <1>1, <1>2, <2>1, ListByDomain
<1> HIDE DEF back
<1>4. \A i \in 1..n : (n - i) + 1 \in 1..n /\ (n - ((n - i) + 1)) + 1 = i
  BY <1>1
<1>5. \A i \in 1..n : back[i] \in ToSet(list) /\ list[i] \in ToSet(back)
  <2> HIDE DEF n
  <2> SUFFICES ASSUME NEW i \in 1..n
               PROVE  back[i] \in ToSet(list) /\ list[i] \in ToSet(back)
    OBVIOUS
  <2>1. back[i] = list[(n - i) + 1] /\ list[i] = back[(n - i) + 1]
    BY <1>3, <1>4
  <2>2. QED
    BY <1>1, <1>3, <1>4, <2>1 DEF ToSet
<1>6. QED
  BY <1>1, <1>3, <1>5 DEF ToSet, back

\* Only keeps a list without repetitions one.
LEMMA OnlyOnce ==
    ASSUME NEW list, IsList(list), IsInjective(list), NEW kept
    PROVE  IsInjective(Only(list, kept))
<1> DEFINE n == Len(list)
           s == [i \in DOMAIN list |-> IF list[i] \in kept THEN <<list[i]>> ELSE <<>>]
<1>1. n \in Nat /\ DOMAIN list = 1..n
  BY ListDomain
<1>2. \A i, j \in 1..n : list[i] = list[j] => i = j
  BY <1>1 DEF IsInjective
<1> HIDE DEF n
<1>3. \A i \in 1..n : s[i] = IF list[i] \in kept THEN <<list[i]>> ELSE <<>>
  BY <1>1
<1>4. s = [i \in 1..n |-> s[i]]
  BY <1>1
<1>5. Only(list, kept) = FlattenSeq(s)
  BY DEF Only
<1> HIDE DEF s
<1>6. \A i \in 1..n : IsList(s[i])
  BY <1>3, EmptyList, ListOfOne
<1>7. PICK f : /\ f[0] = <<>> /\ f[n] = FlattenSeq(s)
               /\ \A k \in 1..n : f[k] = f[k - 1] \o s[k]
  BY <1>1, <1>4, <1>6, FlatSteps
<1> DEFINE P(k) == {list[i] : i \in 1..k}
           K == {k \in 0..n : IsList(f[k]) /\ IsInjective(f[k]) /\ ToSet(f[k]) \subseteq P(k)}
<1>8. 0 \in K
  <2>1. DOMAIN <<>> = {}
    BY EmptyList, EmptySeq
  <2>2. IsInjective(<<>>)
    BY <2>1 DEF IsInjective
  <2>3. IsList(f[0]) /\ IsInjective(f[0]) /\ ToSet(f[0]) \subseteq P(0) /\ 0 \in 0..n
    BY <1>1, <1>7, <2>2, EmptyList
  <2> HIDE DEF P
  <2>4. QED
    BY <2>3
<1>9. ASSUME NEW k \in 0..n, k \in K, k < n
      PROVE  k + 1 \in K
  <2>1. k + 1 \in 1..n /\ (k + 1) - 1 = k /\ k + 1 \in 0..n
    BY <1>1, <1>9
  <2>2. f[k + 1] = f[k] \o s[k + 1]
    BY <1>7, <2>1
  <2>3. P(k + 1) = P(k) \cup {list[k + 1]} /\ list[k + 1] \notin P(k)
    <3>1. \A i : i \in 1..(k + 1) <=> i \in 1..k \/ i = k + 1
      OBVIOUS
    <3>2. \A i \in 1..k : i \in 1..n /\ i # k + 1
      BY <1>1, <2>1
    <3>3. QED
      BY <1>2, <2>1, <3>1, <3>2
  <2> HIDE DEF P
  <2>4. IsList(f[k]) /\ IsInjective(f[k]) /\ ToSet(f[k]) \subseteq P(k)
    BY <1>9
  <2> HIDE DEF K
  <2>5. CASE list[k + 1] \notin kept
    <3>1. f[k] \in Seq(ToSet(f[k]))
      BY <2>4 DEF IsList
    <3>2. f[k] \o <<>> = f[k]
      BY <3>1, ConcatEmptySeq
    <3>3. f[k + 1] = f[k]
      BY <1>3, <2>1, <2>2, <2>5, <3>2
    <3>4. QED
      BY <2>1, <2>3, <2>4, <3>3 DEF K
  <2>6. CASE list[k + 1] \in kept
    <3> DEFINE x == list[k + 1]
               m == Len(f[k])
               all == f[k] \o <<x>>
    <3>1. f[k + 1] = all
      BY <1>3, <2>1, <2>2, <2>6
    <3>2. /\ IsList(all) /\ ToSet(all) = ToSet(f[k]) \cup {x}
      BY <2>4, ListOfOne, ListConcat
    <3>3. /\ m \in Nat /\ DOMAIN f[k] = 1..m /\ Len(all) = m + 1
          /\ \A i \in 1..m : all[i] = f[k][i]
          /\ all[m + 1] = x
      <4> DEFINE S == ToSet(f[k]) \cup {x}
      <4>1. f[k] \in Seq(S) /\ <<x>> \in Seq(S) /\ Len(<<x>>) = 1 /\ <<x>>[1] = x
        <5>1. f[k] \in Seq(ToSet(f[k])) /\ ToSet(f[k]) \subseteq S
          BY <2>4 DEF IsList
        <5>2. x \in S
          OBVIOUS
        <5> HIDE DEF S, x
        <5>3. QED
          BY <5>1, <5>2, SeqMonotonic
      <4> HIDE DEF S, x
      <4>2. m \in Nat /\ DOMAIN f[k] = 1..m
        BY <2>4, ListDomain
      <4>3. /\ Len(all) = m + 1
            /\ \A i \in 1..(m + 1) : all[i] = IF i <= m THEN f[k][i] ELSE <<x>>[i - m]
        BY <4>1, ConcatProperties
      <4>4. m + 1 \in 1..(m + 1) /\ ~(m + 1 <= m) /\ (m + 1) - m = 1
            /\ \A i \in 1..m : i \in 1..(m + 1) /\ i <= m
        BY <4>2
      <4> HIDE DEF all, m
      <4>5. QED
        BY <4>1, <4>2, <4>3, <4>4
    <3> HIDE DEF all, m, x
    <3>4. DOMAIN all = 1..(m + 1)
      BY <3>2, <3>3, ListDomain
    <3>5. x \notin ToSet(f[k])
      BY <2>3, <2>4 DEF x
    <3>6. \A i \in 1..m : f[k][i] \in ToSet(f[k])
      BY <3>3 DEF ToSet
    <3>7. ASSUME NEW i \in 1..(m + 1), NEW j \in 1..(m + 1), all[i] = all[j]
          PROVE  i = j
      <4>1. CASE i \in 1..m /\ j \in 1..m
        BY <2>4, <3>3, <3>7, <4>1 DEF IsInjective
      <4>2. CASE i = m + 1 /\ j \in 1..m
        BY <3>3, <3>5, <3>6, <3>7, <4>2
      <4>3. CASE j = m + 1 /\ i \in 1..m
        BY <3>3, <3>5, <3>6, <3>7, <4>3
      <4>4. QED
        BY <3>3, <4>1, <4>2, <4>3
    <3>8. IsInjective(all)
      BY <3>4, <3>7 DEF IsInjective
    <3>9. QED
      BY <2>1, <2>3, <2>4, <3>1, <3>2, <3>8 DEF K, x
  <2>7. QED
    BY <2>5, <2>6
<1>10. n \in K
  <2> HIDE DEF K
  <2>1. 0..n \subseteq K
    BY <1>1, <1>8, <1>9, CountingUp
  <2>2. QED
    BY <1>1, <2>1
<1>11. QED
  BY <1>5, <1>7, <1>10

\* Numbered by how many come before, the members of a set have the numbers below its
\* size, each of them once.
CountsBefore(before, P) ==
    DOMAIN before = P /\ \A i \in P : before[i] = Cardinality({k \in P : k < i})

Numbers(before, P) ==
    /\ IsFiniteSet(P) /\ Cardinality(P) \in Nat
    /\ \A i, j \in P : before[i] = before[j] => i = j
    /\ {before[i] : i \in P} = 0..(Cardinality(P) - 1)

LEMMA CountedBefore ==
    ASSUME NEW n \in Nat, NEW P \in SUBSET (1..n), NEW before, CountsBefore(before, P)
    PROVE  Numbers(before, P)
<1> DEFINE below(i) == {k \in P : k < i}
           c == Cardinality(P)
<1>0. DOMAIN before = P /\ \A i \in P : before[i] = Cardinality(below(i))
  BY DEF CountsBefore
<1>1. IsFiniteSet(P) /\ c \in Nat
  <2>1. IsFiniteSet(1..n)
    BY FS_Interval
  <2>2. QED
    BY <2>1, FS_Subset, FS_CardinalityType
<1>2. \A i \in P : IsFiniteSet(below(i)) /\ Cardinality(below(i)) \in Nat
  <2> SUFFICES ASSUME NEW i \in P
               PROVE  IsFiniteSet(below(i)) /\ Cardinality(below(i)) \in Nat
    OBVIOUS
  <2>1. below(i) \in SUBSET P
    OBVIOUS
  <2> HIDE DEF below
  <2>2. QED
    BY <1>1, <2>1, FS_Subset, FS_CardinalityType
<1>3. ASSUME NEW S, NEW T, IsFiniteSet(T), S \subseteq T, S # T
      PROVE  Cardinality(S) < Cardinality(T)
  <2>1. /\ IsFiniteSet(S) /\ Cardinality(S) <= Cardinality(T)
        /\ Cardinality(S) = Cardinality(T) => T = S
    BY <1>3, FS_Subset
  <2>2. Cardinality(S) \in Nat /\ Cardinality(T) \in Nat
    BY <1>3, <2>1, FS_CardinalityType
  <2>3. QED
    BY <1>3, <2>1, <2>2
<1>4. ASSUME NEW i \in P, NEW j \in P, i < j
      PROVE  before[i] < before[j]
  <2>0. P \subseteq Int
    OBVIOUS
  <2>1. below(i) \subseteq below(j) /\ i \in below(j) /\ i \notin below(i)
    <3>1. \A k \in P : k < i => k < j
      BY <1>4, <2>0
    <3>2. ~(i < i)
      BY <2>0
    <3>3. QED
      BY <1>4, <3>1, <3>2, Zenon
  <2>2. before[i] = Cardinality(below(i)) /\ before[j] = Cardinality(below(j))
    BY <1>0
  <2> HIDE DEF below
  <2>3. QED
    BY <1>2, <1>3, <2>1, <2>2
<1>5. \A i \in P : before[i] \in 0..(c - 1)
  <2> SUFFICES ASSUME NEW i \in P
               PROVE  before[i] \in 0..(c - 1)
    OBVIOUS
  <2>1. below(i) \subseteq P /\ i \in P /\ i \notin below(i) /\ before[i] = Cardinality(below(i))
    BY <1>0
  <2>2. Cardinality(below(i)) < c /\ Cardinality(below(i)) \in Nat
    <3> HIDE DEF below
    <3>1. QED
      BY <1>1, <1>2, <1>3, <2>1
  <2> HIDE DEF below
  <2>3. QED
    BY <1>1, <2>1, <2>2
<1>6. \A i, j \in P : before[i] = before[j] => i = j
  <2> SUFFICES ASSUME NEW i \in P, NEW j \in P, before[i] = before[j], i # j
               PROVE  FALSE
    OBVIOUS
  <2>1. i \in Int /\ j \in Int /\ before[i] \in Int /\ before[j] \in Int
    BY <1>1, <1>5
  <2>2. i < j \/ j < i
    BY <2>1
  <2>3. QED
    BY <1>4, <2>1, <2>2
<1> HIDE DEF below
<1>7. {before[i] : i \in P} = 0..(c - 1)
  <2> DEFINE T == 0..(c - 1)
             f == [i \in P |-> before[i]]
  <2>1. IsFiniteSet(T) /\ Cardinality(T) = c
    <3>1. 0 \in Int /\ c - 1 \in Int /\ (0 > c - 1 => c = 0) /\ ((c - 1) - 0) + 1 = c
      BY <1>1
    <3> HIDE DEF c
    <3>2. QED
      BY <3>1, FS_Interval
  <2> HIDE DEF T, c
  <2>2. \A i \in P : before[i] \in T
    BY <1>5 DEF T
  <2>3. f \in Injection(P, T)
    BY <1>6, <2>2 DEF Injection, IsInjective
  <2> HIDE DEF f
  <2>4. f \in Surjection(P, T)
    <3>1. Cardinality(P) = Cardinality(T) <=> f \in Surjection(P, T)
      BY <2>1, <2>3, FS_Injection
    <3>2. QED
      BY <2>1, <3>1 DEF c
  <2>5. \A t \in T : \E i \in P : f[i] = t
    BY <2>4 DEF Surjection
  <2>6. {before[i] : i \in P} = T
    BY <2>2, <2>5 DEF f
  <2>7. QED
    BY <2>6 DEF T
<1>8. QED
  BY <1>1, <1>6, <1>7 DEF Numbers

-----------------------------------------------------------------------------
(* The text of a section *)

IsLine(section, k) == "finding" \in DOMAIN section[k]

\* At line k of a section, line a is the last header of this kind.
Heads(section, k, kind, name, a) ==
    /\ a \in 1..k /\ kind \in DOMAIN section[a] /\ section[a][kind] = name
    /\ \A c \in (a + 1)..k : kind \notin DOMAIN section[c]

UnderHeaders(section, k, m) ==
    \E a \in 1..k :
        /\ Heads(section, k, "file", m.path, a)
        /\ m.rule \notin Nameless =>
               \E b \in 1..k : Heads(section, k, "rule", m.rule, b) /\ a < b

\* The section has the first n findings of a list, the last one at its end, once
\* each if the list has them once.
HasPrinted(section, sorted, n) ==
    /\ IsList(section)
    /\ n > 0 => /\ Len(section) > 0 /\ IsLine(section, Len(section))
                /\ section[Len(section)].finding = sorted[n]
    /\ \A k \in 1..Len(section) : IsLine(section, k) =>
           /\ \E i \in 1..n : sorted[i] = section[k].finding
           /\ UnderHeaders(section, k, section[k].finding)
    /\ \A i \in 1..n : \E k \in 1..Len(section) :
           IsLine(section, k) /\ section[k].finding = sorted[i]
    /\ IsInjective(sorted) =>
           \A k, l \in 1..Len(section) :
               IsLine(section, k) /\ IsLine(section, l)
               /\ section[k].finding = section[l].finding => k = l

\* What comes after a line does not change what it is under.
LEMMA StaysUnder ==
    ASSUME NEW s, NEW t, IsList(s), IsList(t), NEW k \in 1..Len(s), NEW m, UnderHeaders(s, k, m)
    PROVE  UnderHeaders(s \o t, k, m)
<1> DEFINE st == s \o t
<1>1. Len(s) \in Nat /\ \A i \in 1..Len(s) : st[i] = s[i]
  BY ListDomain, ConcatPlaces
<1> HIDE DEF st
<1>2. \A i \in 1..k : st[i] = s[i]
  BY <1>1
<1>3. \A a \in 1..k : \A c \in (a + 1)..k : c \in 1..k
  BY <1>1
<1>4. UnderHeaders(st, k, m)
  BY <1>2, <1>3 DEF UnderHeaders, Heads
<1>5. QED
  BY <1>4 DEF st

\* A finding is printed under its headers, those before it being still in force when
\* they are not printed again.
LEMMA NextIsUnder ==
    ASSUME NEW sorted, NEW n \in Nat, NEW s, HasPrinted(s, sorted, n),
           NEW m, m = sorted[n + 1], n + 1 \in 1..Len(sorted), Len(sorted) \in Nat
    PROVE  LET t == PrintFinding(sorted, n + 1)
           IN /\ IsList(t) /\ Len(t) > 0 /\ IsLine(t, Len(t)) /\ t[Len(t)].finding = m
              /\ \A k \in 1..Len(t) : IsLine(t, k) => k = Len(t)
              /\ UnderHeaders(s \o t, Len(s) + Len(t), m)
<1> DEFINE t == PrintFinding(sorted, n + 1)
           joined == n + 1 < Len(sorted) /\ sorted[n + 2].path = m.path
                                         /\ sorted[n + 2].rule = m.rule
           newFile == n = 0 \/ sorted[n].path # m.path
           newRule == m.rule \notin Nameless /\ (newFile \/ sorted[n].rule # m.rule)
           file == [file |-> m.path]
           rule == [rule |-> m.rule]
           last == [finding |-> m, separator |-> joined]
           L == Len(s)
           st == s \o t
<1>1. t = (IF newFile THEN <<file>> ELSE <<>>) \o (IF newRule THEN <<rule>> ELSE <<>>) \o <<last>>
  <2>1. (n + 1) - 1 = n /\ (n + 1) + 1 = n + 2 /\ (n + 1 = 1 <=> n = 0)
    OBVIOUS
  <2> DEFINE j == n + 1
  <2>2. t = LET nf == j = 1 \/ sorted[j - 1].path # m.path
                nr == m.rule \notin Nameless /\ (nf \/ sorted[j - 1].rule # m.rule)
                jd == j < Len(sorted) /\ sorted[j + 1].path = m.path /\ sorted[j + 1].rule = m.rule
            IN (IF nf THEN <<file>> ELSE <<>>) \o (IF nr THEN <<rule>> ELSE <<>>)
               \o <<[finding |-> m, separator |-> jd]>>
    BY Zenon DEF PrintFinding
  <2>3. QED
    BY <2>1, <2>2
<1>2. /\ "finding" \in DOMAIN last /\ "file" \notin DOMAIN last /\ "rule" \notin DOMAIN last
      /\ last.finding = m
      /\ "rule" \in DOMAIN rule /\ "file" \notin DOMAIN rule /\ "finding" \notin DOMAIN rule
      /\ "file" \in DOMAIN file /\ "rule" \notin DOMAIN file /\ "finding" \notin DOMAIN file
      /\ file.file = m.path /\ rule.rule = m.rule
  <2> HIDE DEF joined
  <2>1. QED
    OBVIOUS
<1> HIDE DEF file, rule, last
<1>3. IsList(s) /\ L \in Nat
  BY ListDomain DEF HasPrinted
<1>4. ASSUME ~newFile
      PROVE  /\ n > 0 /\ L > 0 /\ n \in 1..Len(sorted)
             /\ \E a \in 1..L :
                    /\ Heads(s, L, "file", m.path, a)
                    /\ sorted[n].rule \notin Nameless =>
                           \E b \in 1..L : Heads(s, L, "rule", sorted[n].rule, b) /\ a < b
  <2>1. n > 0 /\ sorted[n].path = m.path
    BY <1>4
  <2>2. L > 0 /\ L \in 1..L /\ IsLine(s, L) /\ s[L].finding = sorted[n]
    BY <1>3, <2>1 DEF HasPrinted
  <2>3. UnderHeaders(s, L, sorted[n])
    BY <2>2 DEF HasPrinted
  <2>4. QED
    BY <2>1, <2>2, <2>3 DEF UnderHeaders
<1> DEFINE Goal == /\ IsList(t) /\ Len(t) > 0 /\ IsLine(t, Len(t)) /\ t[Len(t)].finding = m
                   /\ \A k \in 1..Len(t) : IsLine(t, k) => k = Len(t)
                   /\ UnderHeaders(st, L + Len(t), m)
<1>5. ASSUME newFile, newRule
      PROVE  Goal
  <2>1. t = (<<file>> \o <<rule>>) \o <<last>>
    BY <1>1, <1>5
  <2>2. /\ IsList(t) /\ Len(t) = 3 /\ t[1] = file /\ t[2] = rule /\ t[3] = last
    <3> DEFINE begin == <<file>> \o <<rule>>
               end == <<last>>
    <3>1. IsList(begin) /\ Len(begin) = 2 /\ begin[1] = file /\ begin[2] = rule
      BY ListOfTwo
    <3>2. IsList(end) /\ Len(end) = 1 /\ end[1] = last
      BY ListOfOne
    <3> HIDE DEF begin, end
    <3> DEFINE both == begin \o end
    <3>3. /\ IsList(both) /\ Len(both) = Len(begin) + Len(end)
          /\ \A i \in 1..Len(begin) : both[i] = begin[i]
          /\ \A i \in 1..Len(end) : both[Len(begin) + i] = end[i]
      <4>1. IsList(begin) /\ IsList(end)
        BY <3>1, <3>2
      <4>2. IsList(both)
        BY <4>1, ListConcat
      <4>3. QED
        BY <4>1, <4>2, ConcatPlaces
    <3> HIDE DEF both
    <3>4. both[1] = file /\ both[2] = rule /\ both[3] = last /\ Len(both) = 3
      BY <3>1, <3>2, <3>3
    <3>5. t = both
      BY <2>1 DEF both, begin, end
    <3> HIDE DEF t
    <3>6. QED
      BY <3>3, <3>4, <3>5
  <2> HIDE DEF t
  <2>3. st[L + 1] = file /\ st[L + 2] = rule /\ st[L + 3] = last
    <3>1. 1 \in 1..3 /\ 2 \in 1..3 /\ 3 \in 1..3
      OBVIOUS
    <3>2. /\ \A c \in 1..L : st[c] = s[c]
          /\ \A i \in 1..Len(t) : st[L + i] = t[i]
      <4>1. IsList(s) /\ IsList(t)
        BY <1>3, <2>2
      <4>2. QED
        BY <4>1, ConcatPlaces
    <3> HIDE DEF st
    <3>3. QED
      BY <2>2, <3>1, <3>2
  <2> HIDE DEF st
  <2>4. Heads(st, L + 3, "file", m.path, L + 1)
    <3>1. \A c \in ((L + 1) + 1)..(L + 3) : c = L + 2 \/ c = L + 3
      BY <1>3
    <3>2. L + 1 \in 1..(L + 3)
      BY <1>3
    <3>3. QED
      BY <1>2, <2>3, <3>1, <3>2 DEF Heads
  <2>5. Heads(st, L + 3, "rule", m.rule, L + 2)
    <3>1. \A c \in ((L + 2) + 1)..(L + 3) : c = L + 3
      BY <1>3
    <3>2. L + 2 \in 1..(L + 3)
      BY <1>3
    <3>3. QED
      BY <1>2, <2>3, <3>1, <3>2 DEF Heads
  <2>6. UnderHeaders(st, L + 3, m)
    <3>1. L + 1 \in 1..(L + 3) /\ L + 2 \in 1..(L + 3) /\ L + 1 < L + 2
      BY <1>3
    <3>2. QED
      BY <2>4, <2>5, <3>1 DEF UnderHeaders
  <2>7. \A k \in 1..3 : k = 1 \/ k = 2 \/ k = 3
    OBVIOUS
  <2>8. QED
    BY <1>2, <2>2, <2>6, <2>7 DEF IsLine
<1>6. ASSUME ~newFile, newRule
      PROVE  Goal
  <2>1. t = <<rule>> \o <<last>>
    <3>1. t = (<<>> \o <<rule>>) \o <<last>>
      BY <1>1, <1>6
    <3>2. <<>> \o <<rule>> = <<rule>>
      <4>1. <<rule>> \in Seq({rule})
        OBVIOUS
      <4>2. QED
        BY <4>1, ConcatEmptySeq
    <3> HIDE DEF t
    <3>3. QED
      BY <3>1, <3>2
  <2>2. /\ IsList(t) /\ Len(t) = 2 /\ t[1] = rule /\ t[2] = last
    <3> HIDE DEF t
    <3>1. QED
      BY <2>1, ListOfTwo
  <2>3. PICK a \in 1..L : Heads(s, L, "file", m.path, a)
    BY <1>4, <1>6
  <2> HIDE DEF t
  <2>4. st[L + 1] = rule /\ st[L + 2] = last /\ \A c \in 1..L : st[c] = s[c]
    <3>1. 1 \in 1..2 /\ 2 \in 1..2
      OBVIOUS
    <3>2. /\ \A c \in 1..L : st[c] = s[c]
          /\ \A i \in 1..Len(t) : st[L + i] = t[i]
      <4>1. IsList(s) /\ IsList(t)
        BY <1>3, <2>2
      <4>2. QED
        BY <4>1, ConcatPlaces
    <3> HIDE DEF st
    <3>3. QED
      BY <2>2, <3>1, <3>2
  <2> HIDE DEF st
  <2>5. Heads(st, L + 2, "file", m.path, a)
    <3>1. \A c \in (a + 1)..(L + 2) : (c \in (a + 1)..L /\ c \in 1..L) \/ c = L + 1 \/ c = L + 2
      BY <1>3
    <3>2. a \in 1..(L + 2)
      BY <1>3
    <3>3. QED
      BY <1>2, <2>3, <2>4, <3>1, <3>2 DEF Heads
  <2>6. Heads(st, L + 2, "rule", m.rule, L + 1)
    <3>1. \A c \in ((L + 1) + 1)..(L + 2) : c = L + 2
      BY <1>3
    <3>2. L + 1 \in 1..(L + 2)
      BY <1>3
    <3>3. QED
      BY <1>2, <2>4, <3>1, <3>2 DEF Heads
  <2>7. UnderHeaders(st, L + 2, m)
    <3>1. a \in 1..(L + 2) /\ L + 1 \in 1..(L + 2) /\ a < L + 1
      BY <1>3
    <3>2. QED
      BY <2>5, <2>6, <3>1 DEF UnderHeaders
  <2>8. \A k \in 1..2 : k = 1 \/ k = 2
    OBVIOUS
  <2>9. QED
    BY <1>2, <2>2, <2>7, <2>8 DEF IsLine
<1>7. ASSUME ~newFile, ~newRule
      PROVE  Goal
  <2>1. t = <<last>>
    <3>1. t = (<<>> \o <<>>) \o <<last>>
      BY <1>1, <1>7
    <3>2. <<>> \o <<>> = <<>> /\ <<>> \o <<last>> = <<last>>
      <4>1. <<last>> \in Seq({last}) /\ <<>> \in Seq({last})
        OBVIOUS
      <4>2. QED
        BY <4>1, ConcatEmptySeq
    <3> HIDE DEF t
    <3>3. QED
      BY <3>1, <3>2
  <2>2. /\ IsList(t) /\ Len(t) = 1 /\ t[1] = last
    <3> HIDE DEF t
    <3>1. QED
      BY <2>1, ListOfOne
  <2>3. m.rule \notin Nameless => sorted[n].rule = m.rule
    BY <1>7
  <2>4. PICK a \in 1..L :
            /\ Heads(s, L, "file", m.path, a)
            /\ m.rule \notin Nameless =>
                   \E b \in 1..L : Heads(s, L, "rule", m.rule, b) /\ a < b
    BY <1>4, <1>7, <2>3
  <2> HIDE DEF t
  <2>5. st[L + 1] = last /\ \A c \in 1..L : st[c] = s[c]
    <3>1. 1 \in 1..1
      OBVIOUS
    <3>2. /\ \A c \in 1..L : st[c] = s[c]
          /\ \A i \in 1..Len(t) : st[L + i] = t[i]
      <4>1. IsList(s) /\ IsList(t)
        BY <1>3, <2>2
      <4>2. QED
        BY <4>1, ConcatPlaces
    <3> HIDE DEF st
    <3>3. QED
      BY <2>2, <3>1, <3>2
  <2> HIDE DEF st
  <2>6. \A d \in 1..L : /\ d \in 1..(L + 1)
                        /\ \A c \in (d + 1)..(L + 1) : (c \in (d + 1)..L /\ c \in 1..L) \/ c = L + 1
    BY <1>3
  <2>7. /\ Heads(st, L + 1, "file", m.path, a)
        /\ \A b \in 1..L : Heads(s, L, "rule", m.rule, b) => Heads(st, L + 1, "rule", m.rule, b)
    BY <1>2, <2>4, <2>5, <2>6 DEF Heads
  <2>8. UnderHeaders(st, L + 1, m)
    BY <2>4, <2>6, <2>7 DEF UnderHeaders
  <2>9. \A k \in 1..1 : k = 1
    OBVIOUS
  <2>10. QED
    BY <1>2, <2>2, <2>8, <2>9 DEF IsLine
<1>8. ASSUME newFile, ~newRule
      PROVE  Goal
  <2>1. t = <<file>> \o <<last>>
    <3>1. t = (<<file>> \o <<>>) \o <<last>>
      BY <1>1, <1>8
    <3>2. <<file>> \o <<>> = <<file>>
      <4>1. <<file>> \in Seq({file})
        OBVIOUS
      <4>2. QED
        BY <4>1, ConcatEmptySeq
    <3> HIDE DEF t
    <3>3. QED
      BY <3>1, <3>2
  <2>2. IsList(t) /\ Len(t) = 2 /\ t[1] = file /\ t[2] = last
    <3> HIDE DEF t
    <3>1. QED
      BY <2>1, ListOfTwo
  <2>3. m.rule \in Nameless
    BY <1>8
  <2> HIDE DEF t
  <2>4. st[L + 1] = file /\ st[L + 2] = last
    <3>1. 1 \in 1..2 /\ 2 \in 1..2
      OBVIOUS
    <3>2. \A i \in 1..Len(t) : st[L + i] = t[i]
      <4>1. IsList(s) /\ IsList(t)
        BY <1>3, <2>2
      <4>2. QED
        BY <4>1, ConcatPlaces
    <3> HIDE DEF st
    <3>3. QED
      BY <2>2, <3>1, <3>2
  <2> HIDE DEF st
  <2>5. Heads(st, L + 2, "file", m.path, L + 1)
    <3>1. \A c \in ((L + 1) + 1)..(L + 2) : c = L + 2
      BY <1>3
    <3>2. L + 1 \in 1..(L + 2)
      BY <1>3
    <3>3. QED
      BY <1>2, <2>4, <3>1, <3>2 DEF Heads
  <2>6. UnderHeaders(st, L + 2, m)
    <3>1. L + 1 \in 1..(L + 2)
      BY <1>3
    <3>2. QED
      BY <2>3, <2>5, <3>1 DEF UnderHeaders
  <2>7. \A k \in 1..2 : k = 1 \/ k = 2
    OBVIOUS
  <2>8. QED
    BY <1>2, <2>2, <2>6, <2>7 DEF IsLine
<1>9. Goal
  BY <1>5, <1>6, <1>7, <1>8
<1>10. QED
  BY <1>9

LEMMA PrintedIsList ==
    ASSUME NEW sorted, NEW i
    PROVE  IsList(PrintFinding(sorted, i))
<1> DEFINE m == sorted[i]
           newFile == i = 1 \/ sorted[i - 1].path # m.path
           newRule == m.rule \notin Nameless /\ (newFile \/ sorted[i - 1].rule # m.rule)
           joined == i < Len(sorted) /\ sorted[i + 1].path = m.path
                                     /\ sorted[i + 1].rule = m.rule
           file == IF newFile THEN <<[file |-> m.path]>> ELSE <<>>
           rule == IF newRule THEN <<[rule |-> m.rule]>> ELSE <<>>
           last == <<[finding |-> m, separator |-> joined]>>
<1>1. PrintFinding(sorted, i) = file \o rule \o last
  BY Zenon DEF PrintFinding
<1> HIDE DEF newFile, newRule, joined, m
<1>2. IsList(file) /\ IsList(rule) /\ IsList(last)
  BY EmptyList, ListOfOne
<1> HIDE DEF file, rule, last
<1>3. IsList(file \o rule)
  BY <1>2, ListConcat
<1>4. IsList(file \o rule \o last)
  BY <1>2, <1>3, ListConcat
<1>5. QED
  BY <1>1, <1>4

LEMMA PrintedNext ==
    ASSUME NEW sorted, NEW n \in Nat, NEW s, HasPrinted(s, sorted, n),
           n + 1 \in 1..Len(sorted), IsList(sorted)
    PROVE  HasPrinted(s \o PrintFinding(sorted, n + 1), sorted, n + 1)
<1> DEFINE m == sorted[n + 1]
           t == PrintFinding(sorted, n + 1)
           st == s \o t
           L == Len(s)
           N == L + Len(t)
<1>1. /\ Len(t) > 0 /\ IsLine(t, Len(t)) /\ t[Len(t)].finding = m
      /\ \A k \in 1..Len(t) : IsLine(t, k) => k = Len(t)
      /\ UnderHeaders(st, N, m)
  <2>1. Len(sorted) \in Nat
    BY ListDomain
  <2> HIDE DEF m
  <2>2. m = sorted[n + 1]
    BY DEF m
  <2>3. QED
    BY <2>1, <2>2, NextIsUnder
<1>2. IsList(s) /\ IsList(t)
  BY PrintedIsList DEF HasPrinted
<1> HIDE DEF t
<1>3. L \in Nat /\ Len(t) \in Nat /\ DOMAIN sorted = 1..Len(sorted) /\ Len(sorted) \in Nat
  BY <1>2, ListDomain
<1>4. IsList(st) /\ Len(st) = N
  BY <1>2, ListConcat, ConcatPlaces
<1>5. /\ \A k \in 1..L : st[k] = s[k]
      /\ \A k \in 1..Len(t) : st[L + k] = t[k]
  BY <1>2, ConcatPlaces
<1>6. \A k \in 1..L : UnderHeaders(s, k, s[k].finding) => UnderHeaders(st, k, s[k].finding)
  BY <1>2, StaysUnder
<1> HIDE DEF st
<1>7. N \in 1..N /\ st[N] = t[Len(t)] /\ IsLine(st, N) /\ st[N].finding = m
  <2>1. Len(t) \in 1..Len(t) /\ N \in 1..N
    BY <1>1, <1>3
  <2>2. st[N] = t[Len(t)]
    BY <1>5, <2>1
  <2>3. QED
    BY <1>1, <2>1, <2>2 DEF IsLine
<1>8. ASSUME NEW k \in 1..N, IsLine(st, k)
      PROVE  k = N \/ (k \in 1..L /\ IsLine(s, k) /\ st[k] = s[k])
  <2>1. CASE k \in 1..L
    BY <1>5, <1>8, <2>1 DEF IsLine
  <2>2. CASE k \notin 1..L
    <3>1. k - L \in 1..Len(t) /\ L + (k - L) = k
      BY <1>3, <1>8, <2>2
    <3>2. st[k] = t[k - L]
      BY <1>5, <3>1
    <3>3. IsLine(t, k - L)
      BY <1>8, <3>2 DEF IsLine
    <3>4. k - L = Len(t)
      BY <1>1, <3>1, <3>3
    <3>5. QED
      BY <1>3, <3>1, <3>4
  <2>3. QED
    BY <2>1, <2>2
<1>9. \A k \in 1..L : k \in 1..N /\ (IsLine(s, k) => IsLine(st, k)) /\ st[k] = s[k]
  BY <1>3, <1>5 DEF IsLine
<1>10. \A i \in 1..n : i \in 1..(n + 1)
  OBVIOUS
<1>11. ASSUME NEW k \in 1..N, IsLine(st, k)
       PROVE  /\ \E i \in 1..(n + 1) : sorted[i] = st[k].finding
              /\ UnderHeaders(st, k, st[k].finding)
  <2>1. CASE k = N
    <3>1. n + 1 \in 1..(n + 1)
      OBVIOUS
    <3>2. QED
      BY <1>1, <1>7, <2>1, <3>1
  <2>2. CASE k \in 1..L /\ IsLine(s, k) /\ st[k] = s[k]
    <3>1. /\ \E i \in 1..n : sorted[i] = s[k].finding
          /\ UnderHeaders(s, k, s[k].finding)
      BY <2>2 DEF HasPrinted
    <3>2. QED
      BY <1>6, <1>10, <2>2, <3>1
  <2>3. QED
    BY <1>8, <1>11, <2>1, <2>2
<1>12. ASSUME NEW i \in 1..(n + 1)
       PROVE  \E k \in 1..N : IsLine(st, k) /\ st[k].finding = sorted[i]
  <2>1. CASE i = n + 1
    BY <1>7, <2>1
  <2>2. CASE i # n + 1
    <3>1. i \in 1..n
      BY <2>2
    <3>2. PICK k \in 1..L : IsLine(s, k) /\ s[k].finding = sorted[i]
      BY <3>1 DEF HasPrinted
    <3>3. QED
      BY <1>9, <3>2
  <2>3. QED
    BY <2>1, <2>2
<1>13. ASSUME IsInjective(sorted), NEW k \in 1..L, IsLine(s, k)
       PROVE  s[k].finding # m
  <2>1. PICK i \in 1..n : sorted[i] = s[k].finding
    BY <1>13 DEF HasPrinted
  <2>2. i \in DOMAIN sorted /\ n + 1 \in DOMAIN sorted /\ i # n + 1
    BY <1>3
  <2>3. QED
    BY <1>13, <2>1, <2>2 DEF IsInjective
<1>14. ASSUME IsInjective(sorted), NEW k \in 1..N, NEW l \in 1..N,
              IsLine(st, k), IsLine(st, l), st[k].finding = st[l].finding
       PROVE  k = l
  <2>1. /\ k = N \/ (k \in 1..L /\ IsLine(s, k) /\ st[k] = s[k])
        /\ l = N \/ (l \in 1..L /\ IsLine(s, l) /\ st[l] = s[l])
    BY <1>8, <1>14
  <2>2. CASE k = N \/ l = N
    BY <1>7, <1>13, <1>14, <2>1, <2>2
  <2>3. CASE k # N /\ l # N
    <3>1. /\ k \in 1..L /\ l \in 1..L /\ IsLine(s, k) /\ IsLine(s, l)
          /\ s[k].finding = s[l].finding
      BY <1>14, <2>1, <2>3
    <3>2. QED
      BY <1>14, <3>1 DEF HasPrinted
  <2>4. QED
    BY <2>2, <2>3
<1>15. N > 0
  BY <1>1, <1>3
<1>16. HasPrinted(st, sorted, n + 1)
  <2> HIDE DEF L, N
  <2> DEFINE k1 == n + 1
  <2>1. st[N].finding = sorted[k1]
    BY <1>7
  <2> HIDE DEF m, k1
  <2>2. HasPrinted(st, sorted, k1)
    BY <1>4, <1>7, <1>11, <1>12, <1>14, <1>15, <2>1 DEF HasPrinted, k1
  <2>3. QED
    BY <2>2 DEF k1
<1>17. QED
  BY <1>16 DEF st, t

\* print_text_output puts every finding under the name of its file and, if it has one,
\* of its rule, whatever the order they come in.
LEMMA PrintedSection ==
    ASSUME NEW sorted, IsList(sorted)
    PROVE  HasPrinted(PrintTextOutput(sorted), sorted, Len(sorted))
<1> DEFINE n == Len(sorted)
           s == [i \in 1..n |-> PrintFinding(sorted, i)]
<1>1. n \in Nat
  BY ListDomain
<1>2. \A i \in 1..n : s[i] = PrintFinding(sorted, i)
  OBVIOUS
<1>3. s = [i \in 1..n |-> s[i]]
  OBVIOUS
<1>4. PrintTextOutput(sorted) = FlattenSeq(s)
  BY DEF PrintTextOutput
<1> HIDE DEF s
<1>5. \A i \in 1..n : IsList(s[i])
  BY <1>2, PrintedIsList
<1>6. PICK f : /\ f[0] = <<>> /\ f[n] = FlattenSeq(s)
               /\ \A k \in 1..n : f[k] = f[k - 1] \o s[k]
  <2> HIDE DEF n
  <2>1. QED
    BY <1>1, <1>3, <1>5, FlatSteps
<1> DEFINE K == {k \in 0..n : HasPrinted(f[k], sorted, k)}
<1>7. 0 \in K
  <2>1. Len(<<>>) = 0 /\ \A k : k \notin 1..0
    OBVIOUS
  <2>2. HasPrinted(<<>>, sorted, 0)
    BY <2>1, EmptyList DEF HasPrinted
  <2>3. 0 \in 0..n
    BY <1>1
  <2>4. QED
    BY <1>6, <2>2, <2>3
<1>8. ASSUME NEW k \in 0..n, k \in K, k < n
      PROVE  k + 1 \in K
  <2>1. k \in Nat /\ k + 1 \in 1..n /\ (k + 1) - 1 = k /\ k + 1 \in 0..n
    BY <1>1, <1>8
  <2>2. HasPrinted(f[k], sorted, k)
    BY <1>8
  <2>3. f[k + 1] = f[k] \o PrintFinding(sorted, k + 1)
    BY <1>2, <1>6, <2>1
  <2>4. HasPrinted(f[k] \o PrintFinding(sorted, k + 1), sorted, k + 1)
    BY <2>1, <2>2, PrintedNext
  <2>5. QED
    BY <2>1, <2>3, <2>4
<1>9. n \in K
  <2> HIDE DEF K, n
  <2>1. 0..n \subseteq K
    BY <1>1, <1>7, <1>8, CountingUp
  <2>2. QED
    BY <1>1, <2>1
<1>10. QED
  BY <1>4, <1>6, <1>9

\* The findings of a finite set, sorted, are there once each.
LEMMA SortedOnce ==
    ASSUME NEW S, IsFiniteSet(S)
    PROVE  LET sorted == SortMatches(SetToSeq(S))
           IN IsList(sorted) /\ ToSet(sorted) = S /\ IsInjective(sorted)
<1> DEFINE sorted == SortMatches(SetToSeq(S))
           n == Len(sorted)
<1>1. IsList(sorted) /\ ToSet(sorted) = S /\ n = Cardinality(S)
  BY SetAsList, SortedList
<1>2. DOMAIN sorted = 1..n /\ n \in Nat
  BY <1>1, ListDomain
<1> HIDE DEF sorted
<1>3. sorted \in Seq(S)
  BY <1>1 DEF IsList
<1>4. sorted \in Surjection(1..n, S)
  <2>1. sorted \in [1..n -> S]
    BY <1>2, <1>3
  <2>2. \A x \in S : \E i \in 1..n : sorted[i] = x
    BY <1>1, <1>2 DEF ToSet
  <2>3. QED
    BY <2>1, <2>2 DEF Surjection
<1>5. IsFiniteSet(1..n) /\ Cardinality(1..n) = n
  <2>1. Cardinality(1..n) = IF 1 > n THEN 0 ELSE (n - 1) + 1
    BY <1>2, FS_Interval
  <2>2. QED
    BY <1>2, <2>1, FS_Interval
<1>6. sorted \in Injection(1..n, S)
  BY <1>1, <1>4, <1>5, FS_Surjection
<1>7. IsInjective(sorted)
  BY <1>2, <1>6 DEF Injection, IsInjective
<1>8. QED
  BY <1>1, <1>7 DEF sorted

-----------------------------------------------------------------------------
(* The log of the filters *)

\* Every file that get_files_for_language looks at is kept or is in the log, under
\* one reason: the list of skipped files is complete and says nothing twice.
THEOREM EveryFileIsAccountedFor ==
    ASSUME NEW tree, NEW tm, NEW lang, NEW product, NEW files
    PROVE  LET result == Filtered(tree, tm, lang, product, files)
           IN /\ result.kept \subseteq files
              /\ \A f \in files \ result.kept :
                    \E reason \in Reasons : f \in result.log[reason]
              /\ \A reason \in Reasons : result.log[reason] \subseteq files \ result.kept
              /\ \A one, other \in Reasons :
                    one # other => result.log[one] \cap result.log[other] = {}
<1> DEFINE s1 == FilterByLanguage(files, lang)
           s2 == FilterIncludes(s1, tm.includes)
           s3 == FilterExcludes(s2, tm.excludes[product])
           s4 == FilterExcludes(s3, {<<DotGit>>})
           s5 == FilterByPermission(tree, s4)
           s6 == IF lang = Dependencies THEN s5 ELSE FilterBySize(s5)
           s7 == FilterIgnored(tree, tm, product, s6)
           result == Filtered(tree, tm, lang, product, files)
<1>1. /\ s1 \subseteq files /\ s2 \subseteq s1 /\ s3 \subseteq s2 /\ s4 \subseteq s3
      /\ s5 \subseteq s4 /\ s6 \subseteq s5 /\ s7 \subseteq s6
  <2>1. s1 \subseteq files
    BY DEF FilterByLanguage
  <2>2. s2 \subseteq s1
    <3> HIDE DEF s1
    <3> QED BY DEF FilterIncludes
  <2>3. s3 \subseteq s2
    <3> HIDE DEF s2
    <3> QED BY DEF FilterExcludes
  <2>4. s4 \subseteq s3
    <3> HIDE DEF s3
    <3> QED BY DEF FilterExcludes
  <2>5. s5 \subseteq s4
    <3> HIDE DEF s4
    <3> QED BY DEF FilterByPermission
  <2>6. s6 \subseteq s5
    <3> HIDE DEF s5
    <3> QED BY DEF FilterBySize
  <2>7. s7 \subseteq s6
    <3> HIDE DEF s6
    <3> QED BY DEF FilterIgnored
  <2>8. QED
    BY <2>1, <2>2, <2>3, <2>4, <2>5, <2>6, <2>7
<1>2. /\ result.kept = s7
      /\ result.log = [by_language |-> files \ s1, cli_includes |-> s1 \ s2,
                       cli_excludes |-> s2 \ s3, always_skipped |-> s3 \ s4,
                       insufficient_permissions |-> s4 \ s5, size_limit |-> s5 \ s6,
                       semgrepignored |-> s6 \ s7]
  BY DEF Filtered
<1> HIDE DEF s1, s2, s3, s4, s5, s6, s7
<1>3. s7 \subseteq files
  BY <1>1
<1>4. ASSUME NEW f \in files \ s7
      PROVE  \E reason \in Reasons : f \in result.log[reason]
  BY <1>1, <1>2 DEF Reasons
<1>5. \A reason \in Reasons : result.log[reason] \subseteq files \ s7
  BY <1>1, <1>2 DEF Reasons
<1>6. ASSUME NEW one \in Reasons, NEW other \in Reasons, one # other
      PROVE  result.log[one] \cap result.log[other] = {}
  BY <1>1, <1>2, <1>6 DEF Reasons
<1>7. QED
  BY <1>2, <1>3, <1>4, <1>5, <1>6

-----------------------------------------------------------------------------
(* The walk *)

\* A pattern that matches a part of a path matches the path.
LEMMA GlobOfPart ==
    ASSUME NEW N, NEW file \in Seq(N), NEW pattern, Len(pattern) \in Nat,
           NEW m \in 1..Len(file), NEW n \in 1..Len(file), m <= n,
           GlobMatch(SubSeq(file, m, n), pattern)
    PROVE  GlobMatch(file, pattern)
<1> DEFINE part == SubSeq(file, m, n)
<1>1. Len(file) \in Nat
  BY LenProperties
<1>2. \A i \in m..n : file[i] \in N
  BY <1>1, LenProperties
<1>3. Len(part) = n - m + 1 /\ \A i \in 1..(n - m + 1) : part[i] = file[m + i - 1]
  BY <1>2, SubSeqProperties
<1>4. PICK i \in 1..(Len(part) - Len(pattern) + 1) :
          \A k \in 1..Len(pattern) : part[i + k - 1] \in Matching[pattern[k]]
  BY DEF GlobMatch
<1> HIDE DEF part
<1>5. m + i - 1 \in 1..(Len(file) - Len(pattern) + 1)
  BY <1>1, <1>3, <1>4
<1>6. ASSUME NEW k \in 1..Len(pattern)
      PROVE  file[(m + i - 1) + k - 1] \in Matching[pattern[k]]
  <2>1. i + k - 1 \in 1..(n - m + 1)
    BY <1>3, <1>4
  <2>2. part[i + k - 1] = file[m + (i + k - 1) - 1]
    BY <1>3, <2>1
  <2>3. m + (i + k - 1) - 1 = (m + i - 1) + k - 1
    OBVIOUS
  <2>4. QED
    BY <1>4, <2>2, <2>3
<1>7. QED
  BY <1>5, <1>6 DEF GlobMatch

\* A line that ignores the file .__check__ of a folder, but not for its name,
\* ignores every file below that folder.
LEMMA IgnoredBelow ==
    ASSUME NEW N, NEW file \in Seq(N), NEW n \in 1..(Len(file) - 1), Sentinel \in N,
           NEW line, Len(line.names) \in Nat \ {0},
           Sentinel \notin Matching[line.names[Len(line.names)]],
           Ignores(line, Append(SubSeq(file, 1, n), Sentinel))
    PROVE  Ignores(line, file)
<1> DEFINE dir == SubSeq(file, 1, n)
           check == Append(dir, Sentinel)
           length == Len(line.names)
<1>1. Len(file) \in Nat
  BY LenProperties
<1>2. \A i \in 1..n : file[i] \in N
  BY <1>1, LenProperties
<1>3. /\ dir \in Seq(N) /\ Len(dir) = n
      /\ \A i \in 1..n : dir[i] = file[i]
  <2>1. /\ dir \in Seq(N) /\ Len(dir) = n - 1 + 1
        /\ \A i \in 1..(n - 1 + 1) : dir[i] = file[1 + i - 1]
    BY <1>2, SubSeqProperties
  <2> HIDE DEF dir
  <2>2. QED
    BY <2>1
<1> HIDE DEF dir
<1>4. /\ Len(check) = n + 1 /\ check[n + 1] = Sentinel
      /\ \A i \in 1..n : check[i] = file[i]
  BY <1>3, AppendProperties
<1>5. PICK i \in 1..(Len(check) - length + 1) :
          /\ Anchored(line) => i = 1
          /\ line.folder => i + length - 1 < Len(check)
          /\ \A k \in 1..length : check[i + k - 1] \in Matching[line.names[k]]
  BY DEF Ignores, dir
<1> HIDE DEF check
<1>6. i + length - 1 # n + 1
  <2>1. length \in 1..length /\ check[i + length - 1] \in Matching[line.names[length]]
    BY <1>5
  <2>2. QED
    BY <1>4, <2>1
<1>7. i + length - 1 <= n
  <2>1. i \in 1..(n + 1 - length + 1) /\ length \in Nat /\ n \in Nat
    BY <1>1, <1>4
  <2> HIDE DEF length
  <2>2. QED
    BY <1>6, <2>1
<1>8. i \in 1..(Len(file) - length + 1) /\ i + length - 1 < Len(file)
  BY <1>1, <1>5, <1>7
<1>9. ASSUME NEW k \in 1..length
      PROVE  file[i + k - 1] \in Matching[line.names[k]]
  <2>1. i + k - 1 \in 1..n
    BY <1>5, <1>7
  <2>2. QED
    BY <1>4, <1>5, <2>1
<1>10. QED
  BY <1>5, <1>8, <1>9 DEF Ignores

\* Going into no folder that is ignored saves time and loses no file: what a walk
\* with pruning leaves out would be taken away by the filters.  It takes that no
\* line of .semgrepignore ends in a pattern that the name .__check__ matches, for
\* with such a line, as .*, the walk goes into no folder at all.
THEOREM PruningLosesNothing ==
    ASSUME NEW N, Sentinel \in N,
           NEW tree, NEW tm, NEW product, NEW lang, NEW files,
           NEW path \in Seq(N), NEW file \in Seq(N),
           \A pattern \in tm.excludes[product] : Len(pattern) \in Nat,
           \A line \in tm.ignore[product] :
               /\ Len(line.names) \in Nat \ {0}
               /\ Sentinel \notin Matching[line.names[Len(line.names)]],
           file \in FilesFromFilesystem(tree, path) \ PrunedWalk(tree, tm, product, path)
    PROVE  file \notin Filtered(tree, tm, lang, product, files).kept
<1>1. Len(path) \in Nat /\ Len(file) \in Nat
  BY LenProperties
<1>2. PICK n \in (Len(path) + 1)..(Len(file) - 1) :
          PrunesDir(tm, product, path, SubSeq(file, 1, n))
  BY DEF PrunedWalk
<1> DEFINE dir == SubSeq(file, 1, n)
           below == SubSeq(dir, Len(path) + 1, Len(dir))
<1>3. n \in 1..Len(file) /\ n \in 1..(Len(file) - 1) /\ Len(path) + 1 \in 1..Len(file)
  BY <1>1, <1>2
<1>4. dir \in Seq(N) /\ Len(dir) = n
  <2>1. \A i \in 1..n : file[i] \in N
    BY <1>1, <1>3, LenProperties
  <2>2. dir \in Seq(N) /\ Len(dir) = n - 1 + 1
    BY <1>3, <2>1, SubSeqProperties
  <2>3. QED
    BY <1>3, <2>2
<1>5. CASE \E pattern \in tm.excludes[product] \cup {<<DotGit>>} : GlobMatch(below, pattern)
  <2>1. PICK pattern \in tm.excludes[product] \cup {<<DotGit>>} : GlobMatch(below, pattern)
    BY <1>5
  <2>2. Len(pattern) \in Nat
    OBVIOUS
  <2> HIDE DEF dir
  <2>3. GlobMatch(dir, pattern)
    <3>1. Len(path) + 1 \in 1..Len(dir) /\ Len(dir) \in 1..Len(dir)
          /\ Len(path) + 1 <= Len(dir)
      BY <1>1, <1>2, <1>4
    <3>2. QED
      BY <1>4, <2>1, <2>2, <3>1, GlobOfPart
  <2>4. GlobMatch(file, pattern)
    <3>1. 1 \in 1..Len(file) /\ 1 <= n
      BY <1>1, <1>3
    <3>2. QED
      BY <1>3, <2>2, <2>3, <3>1, GlobOfPart DEF dir
  <2>5. CASE pattern \in tm.excludes[product]
    BY <2>4, <2>5 DEF Filtered, FilterExcludes, FilterByPermission, FilterBySize, FilterIgnored
  <2>6. CASE pattern = <<DotGit>>
    BY <2>4, <2>6 DEF Filtered, FilterExcludes, FilterByPermission, FilterBySize, FilterIgnored
  <2>7. QED
    BY <2>5, <2>6
<1>6. CASE ~Survives(tm.ignore[product], Append(dir, Sentinel))
  <2>1. PICK line \in tm.ignore[product] : Ignores(line, Append(dir, Sentinel))
    BY <1>6 DEF Survives
  <2>2. Ignores(line, file)
    BY <1>3, <2>1, IgnoredBelow
  <2>3. QED
    BY <2>2 DEF Filtered, FilterIgnored, Survives
<1>7. QED
  BY <1>2, <1>5, <1>6 DEF PrunesDir
-----------------------------------------------------------------------------
(* Versions *)

Identifiers == [number : Nat] \cup [word : Int]

GoVersions == [core : [1..3 -> Nat], kind : {"release", "pre", "pseudo"},
               ids : Seq(Identifiers), time : Int, hash : Int, raw : Int, dashes : Nat]

\* A Maven version that is qualified has its qualifier as its one identifier.
Qualifiers == [1..1 -> [word : Int]]

MavenVersions ==
    [core : Seq(Nat), kind : {"release", "snapshot", "raw"},
     ids : {<<>>}, time : Int, hash : Int, raw : Int, dashes : Nat]
    \cup [core : Seq(Nat), kind : {"qualified"},
          ids : Qualifiers, time : Int, hash : Int, raw : Int, dashes : Nat]

\* One says "after" where the other says "before", or both say "the same".
Opposite(m, n) ==
    \/ m = 0 /\ n = 0
    \/ m = 1 /\ n = -1
    \/ m = -1 /\ n = 1

LEMMA SignReverses ==
    ASSUME NEW m \in Int, NEW n \in Int
    PROVE  Opposite(Sign(m - n), Sign(n - m))
BY DEF Sign, Opposite

\* The first difference is the same from both sides, and is a place of both.
LEMMA DiffersIsMutual ==
    ASSUME NEW one, NEW other, NEW n \in Nat
    PROVE  /\ Differs(one, other, n) = Differs(other, one, n)
           /\ Differs(one, other, n) # 0 => Differs(one, other, n) \in 1..n
<1> DEFINE places == {i \in 1..n : one[i] # other[i]}
<1>1. places = {i \in 1..n : other[i] # one[i]}
  OBVIOUS
<1>2. CASE places = {}
  BY <1>1, <1>2 DEF Differs
<1>3. CASE places # {}
  <2>1. places \in SUBSET Nat
    OBVIOUS
  <2>2. \E i \in places : \A j \in places : i <= j
    <3> HIDE DEF places
    <3> QED BY <1>3, <2>1, LeastElement
  <2>3. /\ Differs(one, other, n) = CHOOSE i \in places : \A j \in places : i <= j
        /\ Differs(other, one, n) = CHOOSE i \in places : \A j \in places : i <= j
    BY <1>1, <1>3 DEF Differs
  <2>4. (CHOOSE i \in places : \A j \in places : i <= j) \in places
    <3> HIDE DEF places
    <3> QED BY <2>2
  <2>5. QED
    BY <2>3, <2>4
<1>4. QED
  BY <1>2, <1>3

-----------------------------------------------------------------------------
(* Go *)

LEMMA CoreReverses ==
    ASSUME NEW one \in [1..3 -> Nat], NEW other \in [1..3 -> Nat]
    PROVE  Opposite(CmpCore(one, other), CmpCore(other, one))
<1> DEFINE i == Differs(one, other, 3)
<1>1. i = Differs(other, one, 3) /\ (i # 0 => i \in 1..3)
  BY DiffersIsMutual
<1>2. CASE i = 0
  <2>1. CmpCore(one, other) = 0 /\ CmpCore(other, one) = 0
    BY <1>1, <1>2 DEF CmpCore
  <2>2. QED
    BY <2>1 DEF Opposite
<1>3. CASE i # 0
  <2>1. one[i] \in Int /\ other[i] \in Int
    BY <1>1, <1>3
  <2>2. /\ CmpCore(one, other) = Sign(one[i] - other[i])
        /\ CmpCore(other, one) = Sign(other[i] - one[i])
    BY <1>1, <1>3 DEF CmpCore
  <2> HIDE DEF i
  <2>3. QED
    BY <2>1, <2>2, SignReverses
<1>4. QED
  BY <1>2, <1>3

LEMMA IdentifierReverses ==
    ASSUME NEW one \in Identifiers, NEW other \in Identifiers
    PROVE  Opposite(CmpIdentifier(one, other), CmpIdentifier(other, one))
<1>1. CASE one \in [number : Nat] /\ other \in [number : Nat]
  BY <1>1, SignReverses DEF CmpIdentifier, IsNumber
<1>2. CASE one \in [word : Int] /\ other \in [word : Int]
  BY <1>2, SignReverses DEF CmpIdentifier, IsNumber
<1>3. CASE one \in [word : Int] /\ other \in [number : Nat]
  <2>1. ~IsNumber(one) /\ IsNumber(other)
    BY <1>3 DEF IsNumber
  <2>2. CmpIdentifier(one, other) = 1 /\ CmpIdentifier(other, one) = -1
    BY <2>1 DEF CmpIdentifier
  <2>3. QED
    BY <2>2 DEF Opposite
<1>4. CASE one \in [number : Nat] /\ other \in [word : Int]
  <2>1. IsNumber(one) /\ ~IsNumber(other)
    BY <1>4 DEF IsNumber
  <2>2. CmpIdentifier(one, other) = -1 /\ CmpIdentifier(other, one) = 1
    BY <2>1 DEF CmpIdentifier
  <2>3. QED
    BY <2>2 DEF Opposite
<1>5. QED
  BY <1>1, <1>2, <1>3, <1>4 DEF Identifiers

LEMMA PreReleaseReverses ==
    ASSUME NEW one \in GoVersions, NEW other \in GoVersions
    PROVE  Opposite(CmpPreRelease(one, other), CmpPreRelease(other, one))
<1> DEFINE m == Len(one.ids)
           n == Len(other.ids)
           both == IF m < n THEN m ELSE n
           i == Differs(one.ids, other.ids, both)
<1>1. /\ one.ids \in Seq(Identifiers) /\ other.ids \in Seq(Identifiers)
      /\ m \in Nat /\ n \in Nat
  BY LenProperties DEF GoVersions
<1>2. both = (IF n < m THEN n ELSE m) /\ both \in Nat
  BY <1>1
<1>3. i = Differs(other.ids, one.ids, both) /\ (i # 0 => i \in 1..both)
  <2> HIDE DEF both
  <2> QED BY <1>2, DiffersIsMutual
<1>4. /\ CmpPreRelease(one, other) =
             (IF i = 0 THEN Sign(m - n) ELSE CmpIdentifier(one.ids[i], other.ids[i]))
      /\ CmpPreRelease(other, one) =
             (IF i = 0 THEN Sign(n - m) ELSE CmpIdentifier(other.ids[i], one.ids[i]))
  <2>1. CmpPreRelease(one, other) =
          (IF i = 0 THEN Sign(m - n) ELSE CmpIdentifier(one.ids[i], other.ids[i]))
    BY Zenon DEF CmpPreRelease
  <2>2. CmpPreRelease(other, one) =
          (LET j == Differs(other.ids, one.ids, IF n < m THEN n ELSE m)
           IN IF j = 0 THEN Sign(n - m) ELSE CmpIdentifier(other.ids[j], one.ids[j]))
    BY Zenon DEF CmpPreRelease
  <2> HIDE DEF m, n, both, i
  <2>3. i = Differs(other.ids, one.ids, IF n < m THEN n ELSE m)
    BY <1>2, <1>3, Zenon
  <2>4. QED
    BY <2>1, <2>2, <2>3, Zenon
<1>5. CASE i = 0
  <2>1. CmpPreRelease(one, other) = Sign(m - n) /\ CmpPreRelease(other, one) = Sign(n - m)
    BY <1>4, <1>5, Zenon
  <2> HIDE DEF m, n
  <2>2. QED
    <3>1. m \in Int /\ n \in Int
      BY <1>1
    <3>2. Opposite(Sign(m - n), Sign(n - m))
      BY <3>1, SignReverses
    <3>3. QED
      BY <2>1, <3>2, Zenon
<1>6. CASE i # 0
  <2>1. one.ids[i] \in Identifiers /\ other.ids[i] \in Identifiers
    <3>1. i \in 1..m /\ i \in 1..n
      BY <1>1, <1>3, <1>6
    <3> HIDE DEF i
    <3>2. QED
      BY <1>1, <3>1, LenProperties
  <2> HIDE DEF i
  <2>2. QED
    BY <1>4, <1>6, <2>1, IdentifierReverses
<1>7. QED
  BY <1>5, <1>6

\* Of two versions of Go, the one that comes first does so from both sides, be
\* they releases, pre-releases with any identifiers, or pseudo-versions.
THEOREM GoOrderReverses ==
    ASSUME NEW one \in GoVersions, NEW other \in GoVersions
    PROVE  Opposite(CmpGolang(one, other), CmpGolang(other, one))
<1>1. Opposite(CmpCore(one.core, other.core), CmpCore(other.core, one.core))
  BY CoreReverses DEF GoVersions
<1>2. Opposite(CmpPreRelease(one, other), CmpPreRelease(other, one))
  BY PreReleaseReverses
<1>3. Opposite(CmpPseudo(one, other), CmpPseudo(other, one))
  <2>1. one.time \in Int /\ other.time \in Int
    BY DEF GoVersions
  <2>2. CASE one.hash = other.hash
    <3>1. CmpPseudo(one, other) = 0 /\ CmpPseudo(other, one) = 0
      BY <2>2 DEF CmpPseudo
    <3>2. QED
      BY <3>1 DEF Opposite
  <2>3. CASE one.hash # other.hash
    BY <2>1, <2>3, SignReverses DEF CmpPseudo
  <2>4. QED
    BY <2>2, <2>3
<1>4. /\ one.kind \in {"release", "pre", "pseudo"}
      /\ other.kind \in {"release", "pre", "pseudo"}
  BY DEF GoVersions
<1>5. CASE CmpCore(one.core, other.core) # 0
  <2>1. CmpCore(other.core, one.core) # 0
    BY <1>1, <1>5 DEF Opposite
  <2>2. /\ CmpGolang(one, other) = CmpCore(one.core, other.core)
        /\ CmpGolang(other, one) = CmpCore(other.core, one.core)
    BY <1>5, <2>1 DEF CmpGolang
  <2>3. QED
    BY <1>1, <2>2
<1>6. CASE CmpCore(one.core, other.core) = 0
  <2>1. CmpCore(other.core, one.core) = 0
    BY <1>1, <1>6 DEF Opposite
  <2>2. CASE one.kind = "pre" /\ other.kind = "pre"
    BY <1>2, <1>6, <2>1, <2>2 DEF CmpGolang
  <2>3. CASE one.kind = "pseudo" /\ other.kind = "pseudo"
    BY <1>3, <1>6, <2>1, <2>3 DEF CmpGolang
  <2>4. CASE one.kind = "release" /\ other.kind = "release"
    <3>1. CmpGolang(one, other) = 0 /\ CmpGolang(other, one) = 0
      BY <1>6, <2>1, <2>4 DEF CmpGolang
    <3>2. QED
      BY <3>1 DEF Opposite
  <2>5. CASE one.kind # other.kind
    BY <1>4, <1>6, <2>1, <2>5 DEF CmpGolang, Opposite
  <2>6. QED
    BY <1>4, <2>2, <2>3, <2>4, <2>5
<1>7. QED
  BY <1>1, <1>5, <1>6

-----------------------------------------------------------------------------
(* Maven *)

LEMMA PaddedIsNat ==
    ASSUME NEW core \in Seq(Nat), NEW n \in Nat, NEW i \in 1..n
    PROVE  Padded(core, n)[i] \in Int
<1>1. Padded(core, n)[i] = IF i <= Len(core) THEN core[i] ELSE 0
  BY DEF Padded
<1>2. CASE i <= Len(core)
  <2>1. i \in 1..Len(core)
    BY <1>2, LenProperties
  <2>2. core[i] \in Nat
    BY <2>1, LenProperties
  <2>3. QED
    BY <1>1, <1>2, <2>2
<1>3. CASE ~(i <= Len(core))
  BY <1>1, <1>3
<1>4. QED
  BY <1>2, <1>3

LEMMA MavenCoreReverses ==
    ASSUME NEW one \in Seq(Nat), NEW other \in Seq(Nat)
    PROVE  Opposite(CmpMavenCore(one, other), CmpMavenCore(other, one))
<1> DEFINE n == IF Len(one) < Len(other) THEN Len(other) ELSE Len(one)
           i == Differs(Padded(one, n), Padded(other, n), n)
<1>1. n \in Nat /\ n = (IF Len(other) < Len(one) THEN Len(one) ELSE Len(other))
  BY LenProperties
<1>2. /\ i = Differs(Padded(other, n), Padded(one, n), n)
      /\ i # 0 => i \in 1..n
  <2> HIDE DEF n
  <2> QED BY <1>1, DiffersIsMutual
<1>3. /\ CmpMavenCore(one, other) =
             (IF i = 0 THEN 0 ELSE Sign(Padded(one, n)[i] - Padded(other, n)[i]))
      /\ CmpMavenCore(other, one) =
             (IF i = 0 THEN 0 ELSE Sign(Padded(other, n)[i] - Padded(one, n)[i]))
  <2>1. CmpMavenCore(one, other) =
          (IF i = 0 THEN 0 ELSE Sign(Padded(one, n)[i] - Padded(other, n)[i]))
    BY Zenon DEF CmpMavenCore
  <2>2. CmpMavenCore(other, one) =
          (LET k == IF Len(other) < Len(one) THEN Len(one) ELSE Len(other)
               j == Differs(Padded(other, k), Padded(one, k), k)
           IN IF j = 0 THEN 0 ELSE Sign(Padded(other, k)[j] - Padded(one, k)[j]))
    BY Zenon DEF CmpMavenCore
  <2> HIDE DEF n, i
  <2>3. QED
    BY <1>1, <1>2, <2>1, <2>2, Zenon
<1>4. CASE i = 0
  BY <1>3, <1>4, Zenon DEF Opposite
<1>5. CASE i # 0
  <2>1. Padded(one, n)[i] \in Int /\ Padded(other, n)[i] \in Int
    <3> HIDE DEF n, i
    <3> QED BY <1>1, <1>2, <1>5, PaddedIsNat
  <2>2. Opposite(Sign(Padded(one, n)[i] - Padded(other, n)[i]),
                 Sign(Padded(other, n)[i] - Padded(one, n)[i]))
    <3> HIDE DEF n, i
    <3> QED BY <2>1, SignReverses
  <2>3. QED
    BY <1>3, <1>5, <2>2, Zenon
<1>6. QED
  BY <1>4, <1>5

LEMMA QualifierReverses ==
    ASSUME NEW one \in MavenVersions, NEW other \in MavenVersions,
           one.kind = "qualified", other.kind = "qualified"
    PROVE  Opposite(Sign(one.ids[1].word - other.ids[1].word),
                    Sign(other.ids[1].word - one.ids[1].word))
<1>1. one.ids \in Qualifiers /\ other.ids \in Qualifiers
  BY DEF MavenVersions
<1>2. one.ids[1].word \in Int /\ other.ids[1].word \in Int
  BY <1>1 DEF Qualifiers
<1>3. QED
  BY <1>2, SignReverses

\* The same of two versions of Maven, whatever number of parts each of them
\* has: standard ones, snapshots, qualified ones, and those compared as strings.
THEOREM MavenOrderReverses ==
    ASSUME NEW one \in MavenVersions, NEW other \in MavenVersions
    PROVE  Opposite(CmpMaven(one, other), CmpMaven(other, one))
<1>1. Opposite(CmpMavenCore(one.core, other.core), CmpMavenCore(other.core, one.core))
  <2>1. one.core \in Seq(Nat) /\ other.core \in Seq(Nat)
    BY DEF MavenVersions
  <2>2. QED
    BY <2>1, MavenCoreReverses
<1>2. CASE one.kind = "raw" \/ other.kind = "raw"
  <2>1. one.raw \in Int /\ other.raw \in Int
    BY DEF MavenVersions
  <2>2. Opposite(Sign(one.raw - other.raw), Sign(other.raw - one.raw))
    BY <2>1, SignReverses
  <2>3. /\ CmpMaven(one, other) = Sign(one.raw - other.raw)
        /\ CmpMaven(other, one) = Sign(other.raw - one.raw)
    BY <1>2, Zenon DEF CmpMaven
  <2>4. QED
    BY <2>2, <2>3, Zenon
<1>3. CASE ~(one.kind = "raw" \/ other.kind = "raw")
  <2>1. CASE CmpMavenCore(one.core, other.core) # 0
    <3>1. CmpMavenCore(other.core, one.core) # 0
      BY <1>1, <2>1 DEF Opposite
    <3>2. /\ CmpMaven(one, other) = CmpMavenCore(one.core, other.core)
          /\ CmpMaven(other, one) = CmpMavenCore(other.core, one.core)
      BY <1>3, <2>1, <3>1 DEF CmpMaven
    <3>3. QED
      BY <1>1, <3>2, Zenon
  <2>2. CASE CmpMavenCore(one.core, other.core) = 0
    <3>1. CmpMavenCore(other.core, one.core) = 0
      BY <1>1, <2>2 DEF Opposite
    <3>2. CASE one.kind = "qualified" /\ other.kind = "qualified"
      <4>1. /\ CmpMaven(one, other) = Sign(one.ids[1].word - other.ids[1].word)
            /\ CmpMaven(other, one) = Sign(other.ids[1].word - one.ids[1].word)
        BY <1>3, <2>2, <3>1, <3>2 DEF CmpMaven
      <4>2. QED
        BY <3>2, <4>1, QualifierReverses
    <3>3. CASE ~(one.kind = "qualified" /\ other.kind = "qualified")
      <4>1. /\ CmpMaven(one, other) = Sign(QualifierRank(one.kind) - QualifierRank(other.kind))
            /\ CmpMaven(other, one) = Sign(QualifierRank(other.kind) - QualifierRank(one.kind))
        BY <1>3, <2>2, <3>1, <3>3 DEF CmpMaven
      <4>2. QualifierRank(one.kind) \in Int /\ QualifierRank(other.kind) \in Int
        BY DEF QualifierRank
      <4>3. Opposite(Sign(QualifierRank(one.kind) - QualifierRank(other.kind)),
                     Sign(QualifierRank(other.kind) - QualifierRank(one.kind)))
        BY <4>2, SignReverses
      <4>4. QED
        BY <4>1, <4>3, Zenon
    <3>4. QED
      BY <3>2, <3>3
  <2>3. QED
    BY <2>1, <2>2
<1>4. QED
  BY <1>2, <1>3
=============================================================================
