------------------------------ MODULE SeqLemmas ------------------------------
(***************************************************************************)
(* Facts about sequences the other proofs need: which elements a           *)
(* concatenation, a tail, FlattenSeq and SetToSeq have, and how many; the  *)
(* order of what is in them. Induction is over a set of numbers, by its    *)
(* least element; a function whose step looks at lower ranks only exists   *)
(* (Recursion).                                                            *)
(***************************************************************************)
EXTENDS SequencesExt, FiniteSetTheorems, WellFoundedInduction, TLAPS

LEMMA LeastNat ==
  ASSUME NEW T \in SUBSET Nat, T # {}
  PROVE  \E x \in T : \A y \in T : x <= y
  <1> DEFINE R == OpToRel(<, Nat)
  <1>1. IsWellFoundedOn(R, Nat)
    BY NatLessThanWellFounded
  <1>2. PICK x \in T : \A y \in T : ~(<<y, x>> \in R)
    <2> HIDE DEF R
    <2> QED
      BY <1>1, WFMin DEF R
  <1>3. \A y \in T : ~(y < x)
    BY <1>2 DEF OpToRel
  <1> QED
    BY <1>3

\* Induction up to n, for a set.
LEMMA UpTo ==
  ASSUME NEW n \in Nat, NEW G, 0 \in G, \A i \in 1..n : i - 1 \in G => i \in G
  PROVE  \A i \in 0..n : i \in G
  <1> DEFINE T == {i \in 0..n : i \notin G}
  <1> SUFFICES ASSUME T # {} PROVE FALSE
    OBVIOUS
  <1>1. T \in SUBSET Nat
    OBVIOUS
  <1> HIDE DEF T
  <1>2. PICK m \in T : \A k \in T : m <= k
    BY <1>1, LeastNat
  <1>3. m \in 1..n /\ m \notin G
    BY DEF T
  <1>4. m - 1 \in 0..n /\ m - 1 \notin T
    BY <1>2, <1>3 DEF T
  <1> QED
    BY <1>3, <1>4 DEF T

Sums(f, ss, n) == f = [i \in 1..n |-> IF i = 1 THEN ss[i] ELSE f[i - 1] \o ss[i]]

LEMMA SumsExist ==
  ASSUME NEW S, NEW ss \in Seq(Seq(S)), NEW n \in 1..Len(ss)
  PROVE  \E f : Sums(f, ss, n)
  <1> DEFINE G == {m \in 0..Len(ss) : m = 0 \/ \E f : Sums(f, ss, m)}
  <1>1. ASSUME NEW m \in 1..Len(ss), m - 1 \in G PROVE m \in G
    <2>1. CASE m = 1
      <3>1. Sums([i \in 1..1 |-> ss[1]], ss, 1)
        BY DEF Sums
      <3> QED
        BY <2>1, <3>1
    <2>2. CASE m > 1
      <3>1. PICK f : Sums(f, ss, m - 1)
        BY <1>1, <2>2
      <3> DEFINE g == [i \in 1..m |-> IF i = m THEN f[m - 1] \o ss[m] ELSE f[i]]
      <3>2. \A i \in 1..m : g[i] = IF i = m THEN f[m - 1] \o ss[m] ELSE f[i]
        OBVIOUS
      <3>3. DOMAIN g = 1..m /\ g = [i \in 1..m |-> g[i]]
        OBVIOUS
      <3> HIDE DEF g
      <3>4. ASSUME NEW i \in 1..m PROVE g[i] = IF i = 1 THEN ss[i] ELSE g[i - 1] \o ss[i]
        <4>1. CASE i = m
          <5>1. g[m - 1] = f[m - 1]
            BY <2>2, <3>2
          <5> QED
            BY <2>2, <3>2, <4>1, <5>1
        <4>2. CASE i # m
          <5>1. i \in 1..(m - 1) /\ (i # 1 => i - 1 \in 1..m /\ i - 1 # m)
            BY <4>2
          <5>2. f[i] = IF i = 1 THEN ss[i] ELSE f[i - 1] \o ss[i]
            BY <3>1, <5>1 DEF Sums
          <5> QED
            BY <3>2, <4>2, <5>1, <5>2
        <4> QED
          BY <4>1, <4>2
      <3>5. g = [i \in 1..m |-> IF i = 1 THEN ss[i] ELSE g[i - 1] \o ss[i]]
        BY <3>3, <3>4
      <3>6. Sums(g, ss, m)
        BY <3>5 DEF Sums
      <3> QED
        BY <3>6
    <2> QED
      BY <2>1, <2>2
  <1>2. 0 \in G
    OBVIOUS
  <1>3. n \in 0..Len(ss) /\ n # 0 /\ Len(ss) \in Nat
    OBVIOUS
  <1>4. n \in G
    <2> HIDE DEF G
    <2> QED
      BY <1>1, <1>2, <1>3, UpTo
  <1> QED
    BY <1>3, <1>4

\* FlattenSeq, step by step.
LEMMA FlattenSteps ==
  ASSUME NEW S, NEW ss \in Seq(Seq(S))
  PROVE  \E f \in [0..Len(ss) -> Seq(S)] :
            /\ f[0] = <<>> /\ f[Len(ss)] = FlattenSeq(ss)
            /\ \A i \in 1..Len(ss) : f[i] = f[i - 1] \o ss[i]
  <1>0. Len(ss) \in Nat /\ \A i \in 1..Len(ss) : ss[i] \in Seq(S)
    OBVIOUS
  <1>1. CASE Len(ss) = 0
    <2>1. FlattenSeq(ss) = <<>>
      BY <1>1 DEF FlattenSeq
    <2> DEFINE f == [i \in 0..Len(ss) |-> <<>>]
    <2>2. f \in [0..Len(ss) -> Seq(S)] /\ f[0] = <<>> /\ f[Len(ss)] = FlattenSeq(ss)
      BY <1>1, <2>1
    <2> HIDE DEF f
    <2> QED
      BY <1>1, <2>2
  <1>2. CASE Len(ss) # 0
    <2> DEFINE flatten == CHOOSE f : f = [i \in 1..Len(ss) |-> IF i = 1 THEN ss[i] ELSE f[i - 1] \o ss[i]]
    <2>1. FlattenSeq(ss) = flatten[Len(ss)]
      BY <1>2 DEF FlattenSeq
    <2>2. flatten = [i \in 1..Len(ss) |-> IF i = 1 THEN ss[i] ELSE flatten[i - 1] \o ss[i]]
      <3>1. Len(ss) \in 1..Len(ss)
        BY <1>2
      <3> QED
        BY <3>1, SumsExist DEF Sums
    <2> HIDE DEF flatten
    <2>3. \A i \in 1..Len(ss) : flatten[i] = IF i = 1 THEN ss[i] ELSE flatten[i - 1] \o ss[i]
      BY <2>2
    <2> DEFINE g == [i \in 0..Len(ss) |-> IF i = 0 THEN <<>> ELSE flatten[i]]
    <2>4. g[0] = <<>> /\ (\A i \in 1..Len(ss) : g[i] = flatten[i]) /\ g[Len(ss)] = FlattenSeq(ss)
      BY <1>2, <2>1
    <2> HIDE DEF g
    <2>5. ASSUME NEW i \in 1..Len(ss) PROVE g[i] = g[i - 1] \o ss[i]
      <3>1. CASE i = 1
        <4>1. <<>> \o ss[1] = ss[1] /\ i - 1 = 0
          BY <1>0, <3>1
        <4> QED
          BY <2>3, <2>4, <3>1, <4>1
      <3>2. CASE i # 1
        <4>1. i - 1 \in 1..Len(ss)
          BY <3>2
        <4> QED
          BY <2>3, <2>4, <3>2, <4>1
      <3> QED
        BY <3>1, <3>2
    <2> DEFINE G == {i \in 0..Len(ss) : g[i] \in Seq(S)}
    <2>6. ASSUME NEW i \in 1..Len(ss), i - 1 \in G PROVE i \in G
      <3>1. g[i - 1] \in Seq(S) /\ ss[i] \in Seq(S) /\ i \in 0..Len(ss)
        BY <1>0, <2>6
      <3>2. g[i - 1] \o ss[i] \in Seq(S)
        BY <3>1
      <3> QED
        BY <2>5, <3>1, <3>2
    <2>7. 0 \in G
      <3>1. <<>> \in Seq(S) /\ 0 \in 0..Len(ss)
        BY <1>0
      <3> QED
        BY <2>4, <3>1
    <2>8. \A i \in 0..Len(ss) : i \in G
      <3> HIDE DEF G
      <3> QED
        BY <1>0, <2>6, <2>7, UpTo
    <2>9. g \in [0..Len(ss) -> Seq(S)]
      BY <2>8 DEF g
    <2> QED
      BY <2>4, <2>5, <2>9
  <1> QED
    BY <1>1, <1>2

-----------------------------------------------------------------------------
LEMMA ElementsIn ==
  ASSUME NEW S, NEW s \in Seq(S)
  PROVE  ToSet(s) \subseteq S
  <1>1. Len(s) \in Nat /\ \A i \in 1..Len(s) : s[i] \in S
    OBVIOUS
  <1>2. ToSet(s) \subseteq S
    BY <1>1 DEF ToSet
  <1> QED
    BY <1>2

LEMMA ElementIn ==
  ASSUME NEW S, NEW s \in Seq(S), NEW i \in DOMAIN s
  PROVE  s[i] \in S
  OBVIOUS

LEMMA OneMore ==
  ASSUME NEW S, NEW s \in Seq(S), NEW x \in S
  PROVE  /\ Len(s) \in Nat /\ Len(s \o <<x>>) = Len(s) + 1
         /\ \A i \in 1..Len(s) : (s \o <<x>>)[i] = s[i]
         /\ (s \o <<x>>)[Len(s) + 1] = x
  OBVIOUS

LEMMA EmptySeq ==
  ASSUME NEW S, NEW s \in Seq(S)
  PROVE  s = <<>> <=> Len(s) = 0
  OBVIOUS

LEMMA HeadAndTail ==
  ASSUME NEW S, NEW s \in Seq(S), s # <<>>
  PROVE  /\ Head(s) = s[1] /\ Head(s) \in S /\ Tail(s) \in Seq(S)
         /\ Len(Tail(s)) = Len(s) - 1
         /\ \A i \in 1..Len(Tail(s)) : Tail(s)[i] = s[i + 1]
  <1>1. /\ Head(s) = s[1] /\ Tail(s) \in Seq(S) /\ Len(Tail(s)) = Len(s) - 1
        /\ \A i \in 1..Len(Tail(s)) : Tail(s)[i] = s[i + 1]
    OBVIOUS
  <1>2. 1 \in 1..Len(s) /\ \A i \in 1..Len(s) : s[i] \in S
    OBVIOUS
  <1> QED
    BY <1>1, <1>2

LEMMA ToSetOfOne ==
  \A x : ToSet(<<x>>) = {x} /\ ToSet(<<>>) = {}
  BY DEF ToSet

LEMMA ToSetOfJoin ==
  ASSUME NEW S, NEW s \in Seq(S), NEW t \in Seq(S)
  PROVE  ToSet(s \o t) = ToSet(s) \cup ToSet(t) /\ s \o t \in Seq(S)
  <1>1. /\ Len(s \o t) = Len(s) + Len(t) /\ s \o t \in Seq(S)
        /\ \A i \in 1..Len(s) : (s \o t)[i] = s[i]
        /\ \A i \in 1..Len(t) : (s \o t)[Len(s) + i] = t[i]
    OBVIOUS
  <1>2. \A i \in 1..(Len(s) + Len(t)) : i \in 1..Len(s) \/ i - Len(s) \in 1..Len(t)
    OBVIOUS
  <1>3. ToSet(s \o t) \subseteq ToSet(s) \cup ToSet(t)
    <2> SUFFICES ASSUME NEW i \in 1..(Len(s) + Len(t)) PROVE (s \o t)[i] \in ToSet(s) \cup ToSet(t)
      BY <1>1 DEF ToSet
    <2>1. CASE i \in 1..Len(s)
      BY <1>1, <2>1 DEF ToSet
    <2>2. CASE i - Len(s) \in 1..Len(t)
      <3>1. (s \o t)[Len(s) + (i - Len(s))] = t[i - Len(s)] /\ Len(s) + (i - Len(s)) = i
        BY <1>1, <2>2
      <3> QED
        BY <2>2, <3>1 DEF ToSet
    <2> QED
      BY <1>2, <2>1, <2>2
  <1>4. ToSet(s) \subseteq ToSet(s \o t)
    <2> SUFFICES ASSUME NEW i \in 1..Len(s) PROVE s[i] \in ToSet(s \o t)
      BY DEF ToSet
    <2>1. i \in 1..Len(s \o t) /\ (s \o t)[i] = s[i]
      BY <1>1
    <2> QED
      BY <1>1, <2>1 DEF ToSet
  <1>5. ToSet(t) \subseteq ToSet(s \o t)
    <2> SUFFICES ASSUME NEW i \in 1..Len(t) PROVE t[i] \in ToSet(s \o t)
      BY DEF ToSet
    <2>1. Len(s) + i \in 1..Len(s \o t) /\ (s \o t)[Len(s) + i] = t[i]
      BY <1>1
    <2>2. DOMAIN (s \o t) = 1..Len(s \o t)
      BY <1>1
    <2> QED
      BY <2>1, <2>2 DEF ToSet
  <1> QED
    BY <1>1, <1>3, <1>4, <1>5

LEMMA ToSetOfTail ==
  ASSUME NEW S, NEW s \in Seq(S), s # <<>>
  PROVE  ToSet(s) = {Head(s)} \cup ToSet(Tail(s))
  <1>1. /\ Len(s) >= 1 /\ Head(s) = s[1] /\ Len(Tail(s)) = Len(s) - 1 /\ Tail(s) \in Seq(S)
        /\ \A i \in 1..Len(Tail(s)) : Tail(s)[i] = s[i + 1]
    OBVIOUS
  <1>2. ToSet(s) \subseteq {Head(s)} \cup ToSet(Tail(s))
    <2> SUFFICES ASSUME NEW i \in 1..Len(s) PROVE s[i] \in {Head(s)} \cup ToSet(Tail(s))
      BY DEF ToSet
    <2>1. CASE i # 1
      <3>1. i - 1 \in 1..Len(Tail(s)) /\ (i - 1) + 1 = i
        BY <1>1, <2>1
      <3>2. Tail(s)[i - 1] = s[i] /\ DOMAIN Tail(s) = 1..Len(Tail(s))
        BY <1>1, <3>1
      <3> QED
        BY <3>1, <3>2 DEF ToSet
    <2> QED
      BY <1>1, <2>1
  <1>3. {Head(s)} \cup ToSet(Tail(s)) \subseteq ToSet(s)
    <2>1. Head(s) \in ToSet(s)
      BY <1>1 DEF ToSet
    <2>2. ASSUME NEW i \in 1..Len(Tail(s)) PROVE Tail(s)[i] \in ToSet(s)
      <3>1. i + 1 \in 1..Len(s) /\ Tail(s)[i] = s[i + 1]
        BY <1>1
      <3> QED
        BY <3>1 DEF ToSet
    <2> QED
      BY <1>1, <2>1, <2>2 DEF ToSet
  <1> QED
    BY <1>2, <1>3

LEMMA FlattenOK ==
  ASSUME NEW S, NEW ss \in Seq(Seq(S))
  PROVE  /\ FlattenSeq(ss) \in Seq(S)
         /\ ToSet(FlattenSeq(ss)) = UNION {ToSet(ss[i]) : i \in 1..Len(ss)}
  <1>1. PICK f \in [0..Len(ss) -> Seq(S)] :
            /\ f[0] = <<>> /\ f[Len(ss)] = FlattenSeq(ss)
            /\ \A i \in 1..Len(ss) : f[i] = f[i - 1] \o ss[i]
    BY FlattenSteps
  <1>2. Len(ss) \in Nat /\ Len(ss) \in 0..Len(ss) /\ \A i \in 1..Len(ss) : ss[i] \in Seq(S)
    OBVIOUS
  <1> DEFINE Upto(i) == UNION {ToSet(ss[j]) : j \in 1..i}
             G == {i \in 0..Len(ss) : ToSet(f[i]) = Upto(i)}
  <1>3. 0 \in G
    BY <1>1, <1>2, ToSetOfOne
  <1>4. ASSUME NEW i \in 1..Len(ss), i - 1 \in G PROVE i \in G
    <2>1. f[i - 1] \in Seq(S) /\ f[i] = f[i - 1] \o ss[i] /\ ss[i] \in Seq(S)
      BY <1>1, <1>2, <1>4
    <2>2. ToSet(f[i]) = ToSet(f[i - 1]) \cup ToSet(ss[i])
      BY <2>1, ToSetOfJoin
    <2>3. 1..i = (1..(i - 1)) \cup {i}
      OBVIOUS
    <2>4. Upto(i) = Upto(i - 1) \cup ToSet(ss[i])
      BY <2>3
    <2>5. i \in 0..Len(ss) /\ ToSet(f[i - 1]) = Upto(i - 1)
      BY <1>4
    <2> HIDE DEF Upto
    <2> QED
      BY <2>2, <2>4, <2>5
  <1>5. Len(ss) \in G
    <2> HIDE DEF G
    <2> QED
      BY <1>2, <1>3, <1>4, UpTo
  <1> QED
    BY <1>1, <1>2, <1>5

LEMMA SetToSeqOK ==
  ASSUME NEW S, IsFiniteSet(S)
  PROVE  SetToSeq(S) \in Seq(S) /\ ToSet(SetToSeq(S)) = S
  <1>1. Cardinality(S) \in Nat
    BY FS_CardinalityType
  <1>2. PICK g \in Bijection(1..Cardinality(S), S) : TRUE
    BY FS_CardinalityType DEF ExistsBijection
  <1>3. g \in [1..Cardinality(S) -> S] /\ IsInjective(g)
    BY <1>2 DEF Bijection, Injection, IsInjective
  <1> DEFINE s == SetToSeq(S)
  <1>4. s \in [1..Cardinality(S) -> S] /\ IsInjective(s)
    BY <1>3 DEF SetToSeq
  <1>5. s \in Seq(S)
    BY <1>1, <1>4
  <1>6. s \in Injection(1..Cardinality(S), S)
    BY <1>4 DEF Injection, IsInjective
  <1>7. s \in Surjection(1..Cardinality(S), S)
    <2>1. IsFiniteSet(1..Cardinality(S)) /\ Cardinality(1..Cardinality(S)) = Cardinality(S)
      BY <1>1, FS_Interval
    <2> HIDE DEF s
    <2> QED
      BY <1>6, <2>1, FS_Injection
  <1>8. \A x \in S : \E i \in 1..Cardinality(S) : s[i] = x
    BY <1>7 DEF Surjection
  <1>9. DOMAIN s = 1..Cardinality(S)
    BY <1>4
  <1> HIDE DEF s
  <1>10. ToSet(s) = S
    BY <1>4, <1>8, <1>9 DEF ToSet
  <1> QED
    BY <1>5, <1>10 DEF s

\* Sequences with the same elements are the same.
LEMMA SameSeq ==
  ASSUME NEW S, NEW s \in Seq(S), NEW t \in Seq(S), Len(s) = Len(t),
         \A i \in 1..Len(s) : s[i] = t[i]
  PROVE  s = t
  <1>1. s \in [1..Len(s) -> S] /\ t \in [1..Len(s) -> S]
    OBVIOUS
  <1> QED
    BY <1>1

LEMMA JoinOneOne ==
  ASSUME NEW a, NEW b
  PROVE  <<a>> \o <<b>> = <<a, b>>
  <1> DEFINE S == {a, b}
             s == <<a>> \o <<b>>
             t == <<a, b>>
  <1>1. s \in Seq(S) /\ t \in Seq(S) /\ Len(s) = 2 /\ Len(t) = 2
    OBVIOUS
  <1>2. s[1] = a /\ s[2] = b
    OBVIOUS
  <1>3. t[1] = a /\ t[2] = b
    OBVIOUS
  <1> HIDE DEF S, s, t
  <1>4. \A i \in 1..Len(s) : s[i] = t[i]
    BY <1>1, <1>2, <1>3
  <1>5. s = t
    BY <1>1, <1>4, SameSeq
  <1> QED
    BY <1>5 DEF s, t

LEMMA JoinTwoOne ==
  ASSUME NEW a, NEW b, NEW c
  PROVE  <<a, b>> \o <<c>> = <<a, b, c>>
  <1> DEFINE S == {a, b, c}
             s == <<a, b>> \o <<c>>
             t == <<a, b, c>>
  <1>1. s \in Seq(S) /\ t \in Seq(S) /\ Len(s) = 3 /\ Len(t) = 3
    OBVIOUS
  <1>2. s[1] = a /\ s[2] = b /\ s[3] = c
    OBVIOUS
  <1>3. t[1] = a /\ t[2] = b /\ t[3] = c
    OBVIOUS
  <1> HIDE DEF S, s, t
  <1>4. \A i \in 1..Len(s) : s[i] = t[i]
    BY <1>1, <1>2, <1>3
  <1>5. s = t
    BY <1>1, <1>4, SameSeq
  <1> QED
    BY <1>5 DEF s, t

LEMMA JoinThreeOne ==
  ASSUME NEW a, NEW b, NEW c, NEW d
  PROVE  <<a, b, c>> \o <<d>> = <<a, b, c, d>>
  <1> DEFINE S == {a, b, c, d}
             s == <<a, b, c>> \o <<d>>
             t == <<a, b, c, d>>
  <1>1. s \in Seq(S) /\ t \in Seq(S) /\ Len(s) = 4 /\ Len(t) = 4
    OBVIOUS
  <1>2. s[1] = a /\ s[2] = b /\ s[3] = c /\ s[4] = d
    OBVIOUS
  <1>3. t[1] = a /\ t[2] = b /\ t[3] = c /\ t[4] = d
    OBVIOUS
  <1> HIDE DEF S, s, t
  <1>4. \A i \in 1..Len(s) : s[i] = t[i]
    BY <1>1, <1>2, <1>3
  <1>5. s = t
    BY <1>1, <1>4, SameSeq
  <1> QED
    BY <1>5 DEF s, t

LEMMA JoinOneThree ==
  ASSUME NEW a, NEW b, NEW c, NEW d
  PROVE  <<a>> \o <<b, c, d>> = <<a, b, c, d>>
  <1> DEFINE S == {a, b, c, d}
             s == <<a>> \o <<b, c, d>>
             t == <<a, b, c, d>>
  <1>1. s \in Seq(S) /\ t \in Seq(S) /\ Len(s) = 4 /\ Len(t) = 4
    OBVIOUS
  <1>2. s[1] = a /\ s[2] = b /\ s[3] = c /\ s[4] = d
    OBVIOUS
  <1>3. t[1] = a /\ t[2] = b /\ t[3] = c /\ t[4] = d
    OBVIOUS
  <1> HIDE DEF S, s, t
  <1>4. \A i \in 1..Len(s) : s[i] = t[i]
    BY <1>1, <1>2, <1>3
  <1>5. s = t
    BY <1>1, <1>4, SameSeq
  <1> QED
    BY <1>5 DEF s, t

\* What each part has and joining keeps, the flattened sequence has.
LEMMA FlattenKeeps ==
  ASSUME NEW S, NEW G \in SUBSET Seq(S), <<>> \in G, \A s, t \in G : s \o t \in G,
         NEW ss \in Seq(G)
  PROVE  FlattenSeq(ss) \in G
  <1>0. Len(ss) \in Nat /\ \A i \in 1..Len(ss) : ss[i] \in G
    OBVIOUS
  <1>1. ss \in Seq(Seq(S))
    OBVIOUS
  <1>2. PICK f \in [0..Len(ss) -> Seq(S)] :
            /\ f[0] = <<>> /\ f[Len(ss)] = FlattenSeq(ss)
            /\ \A i \in 1..Len(ss) : f[i] = f[i - 1] \o ss[i]
    BY <1>1, FlattenSteps
  <1> DEFINE H == {i \in 0..Len(ss) : f[i] \in G}
  <1>3. 0 \in H
    BY <1>0, <1>2
  <1>4. ASSUME NEW i \in 1..Len(ss), i - 1 \in H PROVE i \in H
    <2>1. f[i - 1] \in G /\ ss[i] \in G /\ f[i] = f[i - 1] \o ss[i]
      BY <1>0, <1>2, <1>4
    <2> QED
      BY <2>1, i \in 0..Len(ss)
  <1>5. Len(ss) \in H
    <2> HIDE DEF H
    <2>1. \A i \in 0..Len(ss) : i \in H
      BY <1>0, <1>3, <1>4, UpTo
    <2> QED
      BY <1>0, <2>1
  <1> QED
    BY <1>2, <1>5

\* A step from value to value can be repeated: the functions that are defined by
\* recursion on a number exist.
Chain(H, v, n, g) == g \in [0..n -> DOMAIN H] /\ g[0] = v /\ \A i \in 1..n : g[i] = H[g[i - 1]]
LEMMA ChainExists ==
  ASSUME NEW V, NEW v \in V, NEW H \in [V -> V], NEW n \in Nat
  PROVE  \E g : Chain(H, v, n, g)
  <1> DEFINE G == {m \in 0..n : \E g : Chain(H, v, m, g)}
  <1>1. 0 \in G
    <2> DEFINE g == [i \in 0..0 |-> v]
    <2>1. g \in [0..0 -> V] /\ g[0] = v
      OBVIOUS
    <2> HIDE DEF g
    <2>2. Chain(H, v, 0, g)
      BY <2>1 DEF Chain
    <2> QED
      BY <2>2
  <1>2. ASSUME NEW m \in 1..n, m - 1 \in G PROVE m \in G
    <2>1. PICK h : Chain(H, v, m - 1, h)
      BY <1>2
    <2>2. h \in [0..(m - 1) -> V] /\ h[0] = v /\ \A i \in 1..(m - 1) : h[i] = H[h[i - 1]]
      BY <2>1 DEF Chain
    <2> DEFINE g == [i \in 0..m |-> IF i = m THEN H[h[m - 1]] ELSE h[i]]
    <2>3. g \in [0..m -> V] /\ g[m] = H[h[m - 1]] /\ \A i \in 0..(m - 1) : g[i] = h[i]
      <3>1. m - 1 \in 0..(m - 1) /\ \A i \in 0..m : i # m => i \in 0..(m - 1)
        OBVIOUS
      <3>2. H[h[m - 1]] \in V /\ \A i \in 0..(m - 1) : h[i] \in V
        BY <2>2, <3>1
      <3>3. m \in 0..m /\ \A i \in 0..(m - 1) : i \in 0..m /\ i # m
        OBVIOUS
      <3> QED
        BY <3>1, <3>2, <3>3
    <2> HIDE DEF g
    <2>4. g[0] = v
      BY <2>2, <2>3
    <2>5. ASSUME NEW i \in 1..m PROVE g[i] = H[g[i - 1]]
      <3>1. CASE i = m
        <4>1. i - 1 \in 0..(m - 1)
          BY <3>1
        <4> QED
          BY <2>3, <3>1, <4>1
      <3>2. CASE i # m
        <4>1. i \in 1..(m - 1) /\ i \in 0..(m - 1) /\ i - 1 \in 0..(m - 1)
          BY <3>2
        <4> QED
          BY <2>2, <2>3, <4>1
      <3> QED
        BY <3>1, <3>2
    <2>6. Chain(H, v, m, g)
      BY <2>3, <2>4, <2>5 DEF Chain
    <2> QED
      BY <2>6
  <1>3. n \in G
    <2> HIDE DEF G
    <2>1. \A i \in 0..n : i \in G
      BY <1>1, <1>2, UpTo
    <2> QED
      BY <2>1
  <1> QED
    BY <1>3

LEMMA ChainsAgree ==
  ASSUME NEW V, NEW v \in V, NEW H \in [V -> V], NEW n \in Nat, NEW m \in Nat,
         NEW g, NEW h, Chain(H, v, n, g), Chain(H, v, m, h), NEW k \in 0..n, k \in 0..m
  PROVE  g[k] = h[k]
  <1> DEFINE G == {i \in 0..k : g[i] = h[i]}
  <1>1. 0 \in G
    BY DEF Chain
  <1>2. ASSUME NEW i \in 1..k, i - 1 \in G PROVE i \in G
    <2>1. g[i - 1] = h[i - 1] /\ i \in 1..n /\ i \in 1..m
      BY <1>2
    <2> QED
      BY <2>1 DEF Chain
  <1>3. k \in G
    <2> HIDE DEF G
    <2>1. \A i \in 0..k : i \in G
      BY <1>1, <1>2, UpTo
    <2> QED
      BY <2>1
  <1> QED
    BY <1>3

LEMMA Iterates ==
  ASSUME NEW V, NEW v \in V, NEW H \in [V -> V]
  PROVE  \E f \in [Nat -> V] : f[0] = v /\ \A n \in Nat : f[n + 1] = H[f[n]]
  <1> DEFINE g(n) == CHOOSE h : Chain(H, v, n, h)
             f == [n \in Nat |-> g(n)[n]]
  <1>1. \A n \in Nat : Chain(H, v, n, g(n))
    BY ChainExists
  <1> HIDE DEF g
  <1>2. \A n \in Nat : f[n] = g(n)[n] /\ g(n)[n] \in V
    <2>1. ASSUME NEW n \in Nat PROVE g(n)[n] \in V
      <3>1. g(n) \in [0..n -> V] /\ n \in 0..n
        BY <1>1 DEF Chain
      <3> QED
        BY <3>1
    <2> QED
      BY <2>1
  <1>3. f \in [Nat -> V]
    BY <1>2
  <1>4. f[0] = v
    BY <1>1, <1>2 DEF Chain
  <1>5. ASSUME NEW n \in Nat PROVE f[n + 1] = H[f[n]]
    <2>1. n + 1 \in Nat /\ n + 1 \in 1..(n + 1) /\ (n + 1) - 1 = n /\ n \in 0..n /\ n \in 0..(n + 1)
      OBVIOUS
    <2>2. g(n + 1)[n + 1] = H[g(n + 1)[n]]
      BY <1>1, <2>1 DEF Chain
    <2>3. Chain(H, v, n + 1, g(n + 1)) /\ Chain(H, v, n, g(n))
      BY <1>1, <2>1
    <2>4. g(n + 1)[n] = g(n)[n]
      BY <2>1, <2>3, ChainsAgree
    <2> HIDE DEF f
    <2> QED
      BY <1>2, <2>1, <2>2, <2>4
  <1> HIDE DEF f
  <1> QED
    BY <1>3, <1>4, <1>5

-----------------------------------------------------------------------------
(* The order of the steps of a list: a step that comes only behind one of   *)
(* some others, one that leads to another, and two that stay together.      *)
Behind(x, Y, t) == \A i \in 1..Len(t) : t[i] = x => \E j \in 1..(i - 1) : t[j] \in Y
Leads(x, y, t)  == \A i \in 1..Len(t) : t[i] = x => \E j \in (i + 1)..Len(t) : t[j] = y
Paired(x, y, t) ==
    \A i \in 1..Len(t) :
        /\ t[i] = x => i + 1 \in 1..Len(t) /\ t[i + 1] = y
        /\ t[i] = y => i - 1 \in 1..Len(t) /\ t[i - 1] = x

LEMMA JoinParts ==
  ASSUME NEW S, NEW s \in Seq(S), NEW t \in Seq(S)
  PROVE  /\ Len(s) \in Nat /\ Len(t) \in Nat /\ Len(s \o t) = Len(s) + Len(t) /\ s \o t \in Seq(S)
         /\ \A i \in 1..Len(s) : i \in 1..Len(s \o t) /\ (s \o t)[i] = s[i]
         /\ \A i \in 1..Len(t) : Len(s) + i \in 1..Len(s \o t) /\ (s \o t)[Len(s) + i] = t[i]
         /\ \A i \in 1..Len(s \o t) : i \in 1..Len(s) \/ (i - Len(s) \in 1..Len(t) /\ (s \o t)[i] = t[i - Len(s)])
  <1>1. /\ Len(s) \in Nat /\ Len(t) \in Nat /\ Len(s \o t) = Len(s) + Len(t) /\ s \o t \in Seq(S)
        /\ \A i \in 1..Len(s) : (s \o t)[i] = s[i]
        /\ \A i \in 1..Len(t) : (s \o t)[Len(s) + i] = t[i]
    OBVIOUS
  <1> DEFINE u == s \o t
  <1> HIDE DEF u
  <1>2. \A i \in 1..Len(s) : i \in 1..Len(u)
    BY <1>1 DEF u
  <1>3. \A i \in 1..Len(t) : Len(s) + i \in 1..Len(u)
    BY <1>1 DEF u
  <1>4. ASSUME NEW i \in 1..Len(u), i \notin 1..Len(s)
        PROVE  i - Len(s) \in 1..Len(t) /\ u[i] = t[i - Len(s)]
    <2>1. i - Len(s) \in 1..Len(t) /\ Len(s) + (i - Len(s)) = i
      BY <1>1, <1>4 DEF u
    <2> QED
      BY <1>1, <2>1 DEF u
  <1> QED
    BY <1>1, <1>2, <1>3, <1>4 DEF u

LEMMA ElementAt ==
  ASSUME NEW S, NEW s \in Seq(S)
  PROVE  /\ \A i \in 1..Len(s) : s[i] \in ToSet(s)
         /\ \A x \in ToSet(s) : \E i \in 1..Len(s) : s[i] = x
  <1>1. DOMAIN s = 1..Len(s)
    OBVIOUS
  <1> QED
    BY <1>1 DEF ToSet

LEMMA BehindNone ==
  ASSUME NEW S, NEW s \in Seq(S), NEW x, NEW Y, x \notin ToSet(s)
  PROVE  Behind(x, Y, s)
  BY ElementAt DEF Behind

LEMMA BehindJoin ==
  ASSUME NEW S, NEW s \in Seq(S), NEW t \in Seq(S), NEW x, NEW Y,
         Behind(x, Y, s), Behind(x, Y, t) \/ ToSet(s) \cap Y # {}
  PROVE  Behind(x, Y, s \o t)
  <1> DEFINE u == s \o t
  <1>1. /\ Len(s) \in Nat /\ Len(t) \in Nat /\ Len(u) = Len(s) + Len(t)
        /\ \A i \in 1..Len(s) : i \in 1..Len(u) /\ u[i] = s[i]
        /\ \A i \in 1..Len(t) : Len(s) + i \in 1..Len(u) /\ u[Len(s) + i] = t[i]
        /\ \A i \in 1..Len(u) : i \in 1..Len(s) \/ (i - Len(s) \in 1..Len(t) /\ u[i] = t[i - Len(s)])
    BY JoinParts
  <1> HIDE DEF u
  <1>2. ASSUME NEW i \in 1..Len(u), u[i] = x PROVE \E j \in 1..(i - 1) : u[j] \in Y
    <2>1. CASE i \in 1..Len(s)
      <3>1. PICK j \in 1..(i - 1) : s[j] \in Y
        BY <1>1, <1>2, <2>1 DEF Behind
      <3>2. j \in 1..Len(s)
        BY <1>1, <2>1
      <3> QED
        BY <1>1, <3>1, <3>2
    <2>2. CASE i - Len(s) \in 1..Len(t) /\ u[i] = t[i - Len(s)]
      <3>1. CASE ToSet(s) \cap Y # {}
        <4>1. PICK j \in 1..Len(s) : s[j] \in Y
          BY <3>1, ElementAt
        <4>2. j \in 1..(i - 1) /\ u[j] \in Y
          BY <1>1, <2>2, <4>1
        <4> QED
          BY <4>2
      <3>2. CASE Behind(x, Y, t)
        <4>1. PICK j \in 1..(i - Len(s) - 1) : t[j] \in Y
          BY <1>2, <2>2, <3>2 DEF Behind
        <4>2. j \in 1..Len(t) /\ Len(s) + j \in 1..(i - 1)
          BY <1>1, <2>2, <4>1
        <4>3. u[Len(s) + j] \in Y
          BY <1>1, <4>1, <4>2
        <4> QED
          BY <4>2, <4>3
      <3> QED
        BY <3>1, <3>2
    <2> QED
      BY <1>1, <2>1, <2>2
  <1> QED
    BY <1>2 DEF Behind, u

\* It is not the first one, and the rest may need the first one.
LEMMA BehindTail ==
  ASSUME NEW S, NEW t \in Seq(S), t # <<>>, NEW x, NEW Y, Behind(x, Y, t)
  PROVE  Head(t) # x /\ (Head(t) \notin Y => Behind(x, Y, Tail(t)))
  <1>1. /\ Head(t) = t[1] /\ Len(Tail(t)) = Len(t) - 1 /\ Len(t) \in Nat /\ 1 \in 1..Len(t)
        /\ \A i \in 1..Len(Tail(t)) : Tail(t)[i] = t[i + 1]
    BY HeadAndTail
  <1>2. Head(t) # x
    BY <1>1 DEF Behind
  <1>3. ASSUME Head(t) \notin Y, NEW i \in 1..Len(Tail(t)), Tail(t)[i] = x
        PROVE  \E j \in 1..(i - 1) : Tail(t)[j] \in Y
    <2>1. i + 1 \in 1..Len(t) /\ t[i + 1] = x
      BY <1>1, <1>3
    <2>2. PICK j \in 1..i : t[j] \in Y
      BY <2>1 DEF Behind
    <2>3. j # 1
      BY <1>1, <1>3, <2>2
    <2>4. j - 1 \in 1..(i - 1) /\ j - 1 \in 1..Len(Tail(t)) /\ (j - 1) + 1 = j
      BY <1>1, <2>2, <2>3
    <2>5. Tail(t)[j - 1] \in Y
      BY <1>1, <2>2, <2>4
    <2> QED
      BY <2>4, <2>5
  <1> QED
    BY <1>2, <1>3 DEF Behind

LEMMA LeadsNone ==
  ASSUME NEW S, NEW s \in Seq(S), NEW x, NEW y, x \notin ToSet(s)
  PROVE  Leads(x, y, s)
  BY ElementAt DEF Leads

LEMMA LeadsJoin ==
  ASSUME NEW S, NEW s \in Seq(S), NEW t \in Seq(S), NEW x, NEW y,
         Leads(x, y, t), Leads(x, y, s) \/ y \in ToSet(t)
  PROVE  Leads(x, y, s \o t)
  <1> DEFINE u == s \o t
  <1>1. /\ Len(s) \in Nat /\ Len(t) \in Nat /\ Len(u) = Len(s) + Len(t)
        /\ \A i \in 1..Len(s) : i \in 1..Len(u) /\ u[i] = s[i]
        /\ \A i \in 1..Len(t) : Len(s) + i \in 1..Len(u) /\ u[Len(s) + i] = t[i]
        /\ \A i \in 1..Len(u) : i \in 1..Len(s) \/ (i - Len(s) \in 1..Len(t) /\ u[i] = t[i - Len(s)])
    BY JoinParts
  <1> HIDE DEF u
  <1>2. ASSUME NEW i \in 1..Len(u), u[i] = x PROVE \E j \in (i + 1)..Len(u) : u[j] = y
    <2>1. CASE i \in 1..Len(s) /\ Leads(x, y, s)
      <3>1. PICK j \in (i + 1)..Len(s) : s[j] = y
        BY <1>1, <1>2, <2>1 DEF Leads
      <3>2. j \in 1..Len(s) /\ j \in (i + 1)..Len(u)
        BY <1>1, <2>1, <3>1
      <3> QED
        BY <1>1, <3>1, <3>2
    <2>2. CASE i \in 1..Len(s) /\ y \in ToSet(t)
      <3>1. PICK j \in 1..Len(t) : t[j] = y
        BY <2>2, ElementAt
      <3>2. Len(s) + j \in (i + 1)..Len(u) /\ u[Len(s) + j] = y
        BY <1>1, <2>2, <3>1
      <3> QED
        BY <3>2
    <2>3. CASE i - Len(s) \in 1..Len(t) /\ u[i] = t[i - Len(s)]
      <3>1. PICK j \in (i - Len(s) + 1)..Len(t) : t[j] = y
        BY <1>2, <2>3 DEF Leads
      <3>2. j \in 1..Len(t) /\ Len(s) + j \in (i + 1)..Len(u)
        BY <1>1, <2>3, <3>1
      <3>3. u[Len(s) + j] = y
        BY <1>1, <3>1, <3>2
      <3> QED
        BY <3>2, <3>3
    <2> QED
      BY <1>1, <2>1, <2>2, <2>3
  <1> QED
    BY <1>2 DEF Leads, u

\* The first one leads to one of the rest, which lead to one another.
LEMMA LeadsTail ==
  ASSUME NEW S, NEW t \in Seq(S), t # <<>>, NEW x, NEW y, Leads(x, y, t)
  PROVE  Leads(x, y, Tail(t)) /\ (Head(t) = x => y \in ToSet(Tail(t)))
  <1>1. /\ Head(t) = t[1] /\ Len(Tail(t)) = Len(t) - 1 /\ Len(t) \in Nat /\ 1 \in 1..Len(t)
        /\ Tail(t) \in Seq(S)
        /\ \A i \in 1..Len(Tail(t)) : Tail(t)[i] = t[i + 1]
    BY HeadAndTail
  <1>2. ASSUME NEW i \in 1..Len(t), t[i] = x PROVE \E j \in i..Len(Tail(t)) : Tail(t)[j] = y
    <2>1. PICK j \in (i + 1)..Len(t) : t[j] = y
      BY <1>2 DEF Leads
    <2>2. j - 1 \in i..Len(Tail(t)) /\ j - 1 \in 1..Len(Tail(t)) /\ (j - 1) + 1 = j
      BY <1>1, <2>1
    <2>3. Tail(t)[j - 1] = y
      BY <1>1, <2>1, <2>2
    <2> QED
      BY <2>2, <2>3
  <1>3. ASSUME NEW i \in 1..Len(Tail(t)), Tail(t)[i] = x
        PROVE  \E j \in (i + 1)..Len(Tail(t)) : Tail(t)[j] = y
    <2>1. i + 1 \in 1..Len(t) /\ t[i + 1] = x
      BY <1>1, <1>3
    <2> QED
      BY <1>2, <2>1
  <1>4. ASSUME Head(t) = x PROVE y \in ToSet(Tail(t))
    <2>1. PICK j \in 1..Len(Tail(t)) : Tail(t)[j] = y
      BY <1>1, <1>2, <1>4
    <2> QED
      BY <1>1, <2>1, ElementAt
  <1> QED
    BY <1>3, <1>4 DEF Leads

LEMMA PairedNone ==
  ASSUME NEW S, NEW s \in Seq(S), NEW x, NEW y, x \notin ToSet(s), y \notin ToSet(s)
  PROVE  Paired(x, y, s)
  BY ElementAt DEF Paired

LEMMA PairedTwo ==
  ASSUME NEW x, NEW y, x # y
  PROVE  Paired(x, y, <<x>> \o <<y>>)
  <1>1. Paired(x, y, <<x, y>>)
    BY DEF Paired
  <1> QED
    BY <1>1, JoinOneOne

LEMMA PairedJoin ==
  ASSUME NEW S, NEW s \in Seq(S), NEW t \in Seq(S), NEW x, NEW y,
         Paired(x, y, s), Paired(x, y, t)
  PROVE  Paired(x, y, s \o t)
  <1> DEFINE u == s \o t
  <1>1. /\ Len(s) \in Nat /\ Len(t) \in Nat /\ Len(u) = Len(s) + Len(t)
        /\ \A i \in 1..Len(s) : i \in 1..Len(u) /\ u[i] = s[i]
        /\ \A i \in 1..Len(t) : Len(s) + i \in 1..Len(u) /\ u[Len(s) + i] = t[i]
        /\ \A i \in 1..Len(u) : i \in 1..Len(s) \/ (i - Len(s) \in 1..Len(t) /\ u[i] = t[i - Len(s)])
    BY JoinParts
  <1> HIDE DEF u
  <1>2. ASSUME NEW i \in 1..Len(u), u[i] = x PROVE i + 1 \in 1..Len(u) /\ u[i + 1] = y
    <2>1. CASE i \in 1..Len(s)
      <3>1. i + 1 \in 1..Len(s) /\ s[i + 1] = y
        BY <1>1, <1>2, <2>1 DEF Paired
      <3> QED
        BY <1>1, <3>1
    <2>2. CASE i - Len(s) \in 1..Len(t) /\ u[i] = t[i - Len(s)]
      <3>1. i - Len(s) + 1 \in 1..Len(t) /\ t[i - Len(s) + 1] = y
        BY <1>2, <2>2 DEF Paired
      <3>2. Len(s) + (i - Len(s) + 1) = i + 1
        BY <1>1
      <3> QED
        BY <1>1, <3>1, <3>2
    <2> QED
      BY <1>1, <2>1, <2>2
  <1>3. ASSUME NEW i \in 1..Len(u), u[i] = y PROVE i - 1 \in 1..Len(u) /\ u[i - 1] = x
    <2>1. CASE i \in 1..Len(s)
      <3>1. i - 1 \in 1..Len(s) /\ s[i - 1] = x
        BY <1>1, <1>3, <2>1 DEF Paired
      <3> QED
        BY <1>1, <3>1
    <2>2. CASE i - Len(s) \in 1..Len(t) /\ u[i] = t[i - Len(s)]
      <3>1. i - Len(s) - 1 \in 1..Len(t) /\ t[i - Len(s) - 1] = x
        BY <1>3, <2>2 DEF Paired
      <3>2. Len(s) + (i - Len(s) - 1) = i - 1
        BY <1>1
      <3> QED
        BY <1>1, <3>1, <3>2
    <2> QED
      BY <1>1, <2>1, <2>2
  <1> QED
    BY <1>2, <1>3 DEF Paired, u

\* Without its first half the second half comes first.
LEMMA PairedTail ==
  ASSUME NEW S, NEW t \in Seq(S), t # <<>>, NEW x, NEW y, x # y, Paired(x, y, t)
  PROVE  /\ Head(t) # y
         /\ Head(t) # x => Paired(x, y, Tail(t))
         /\ Head(t) = x => Tail(t) # <<>> /\ Head(Tail(t)) = y /\ Paired(x, y, Tail(Tail(t)))
  <1> DEFINE r == Tail(t)
  <1>1. /\ Head(t) = t[1] /\ Len(r) = Len(t) - 1 /\ Len(t) \in Nat /\ 1 \in 1..Len(t)
        /\ r \in Seq(S)
        /\ \A i \in 1..Len(r) : r[i] = t[i + 1]
    BY HeadAndTail
  <1> HIDE DEF r
  <1>2. Head(t) # y
    <2>1. ~(1 - 1 \in 1..Len(t))
      OBVIOUS
    <2> QED
      BY <1>1, <2>1 DEF Paired
  <1>3. ASSUME NEW i \in 1..Len(r), r[i] = x PROVE i + 1 \in 1..Len(r) /\ r[i + 1] = y
    <2>1. i + 1 \in 1..Len(t) /\ t[i + 1] = x
      BY <1>1, <1>3
    <2>2. i + 1 + 1 \in 1..Len(t) /\ t[i + 1 + 1] = y
      BY <2>1 DEF Paired
    <2>3. i + 1 \in 1..Len(r)
      BY <1>1, <2>2
    <2> QED
      BY <1>1, <2>2, <2>3
  <1>4. ASSUME NEW i \in 1..Len(r), r[i] = y, i # 1 PROVE i - 1 \in 1..Len(r) /\ r[i - 1] = x
    <2>1. i + 1 \in 1..Len(t) /\ t[i + 1] = y
      BY <1>1, <1>4
    <2>2. t[i + 1 - 1] = x
      BY <2>1 DEF Paired
    <2>3. i - 1 \in 1..Len(r) /\ (i - 1) + 1 = i /\ i + 1 - 1 = i
      BY <1>1, <1>4
    <2> QED
      BY <1>1, <2>2, <2>3
  <1>5. ASSUME Head(t) # x PROVE Paired(x, y, r)
    <2>1. ASSUME 1 \in 1..Len(r) PROVE r[1] # y
      <3>1. 1 + 1 \in 1..Len(t) /\ r[1] = t[1 + 1] /\ 1 + 1 - 1 = 1
        BY <1>1, <2>1
      <3> QED
        BY <1>1, <1>5, <3>1 DEF Paired
    <2> QED
      BY <1>3, <1>4, <2>1 DEF Paired
  <1>6. ASSUME Head(t) = x PROVE r # <<>> /\ Head(r) = y /\ Paired(x, y, Tail(r))
    <2>1. 1 + 1 \in 1..Len(t) /\ t[1 + 1] = y
      BY <1>1, <1>6 DEF Paired
    <2>2. Len(r) # 0 /\ 1 \in 1..Len(r) /\ r[1] = y
      BY <1>1, <2>1
    <2>3. r # <<>>
      BY <1>1, <2>2, EmptySeq
    <2> DEFINE q == Tail(r)
    <2>4. /\ Head(r) = r[1] /\ Len(q) = Len(r) - 1 /\ Len(r) \in Nat
          /\ \A i \in 1..Len(q) : q[i] = r[i + 1]
      BY <1>1, <2>3, HeadAndTail
    <2> HIDE DEF q
    <2>5. ASSUME NEW i \in 1..Len(q), q[i] = x PROVE i + 1 \in 1..Len(q) /\ q[i + 1] = y
      <3>1. i + 1 \in 1..Len(r) /\ r[i + 1] = x
        BY <2>4, <2>5
      <3>2. i + 1 + 1 \in 1..Len(r) /\ r[i + 1 + 1] = y
        BY <1>3, <3>1
      <3>3. i + 1 \in 1..Len(q)
        BY <2>4, <3>2
      <3> QED
        BY <2>4, <3>2, <3>3
    <2>6. ASSUME NEW i \in 1..Len(q), q[i] = y PROVE i - 1 \in 1..Len(q) /\ q[i - 1] = x
      <3>1. i + 1 \in 1..Len(r) /\ r[i + 1] = y /\ i + 1 # 1
        BY <2>4, <2>6
      <3>2. r[i + 1 - 1] = x /\ i + 1 - 1 = i
        BY <1>4, <3>1
      <3>3. i # 1
        BY <2>2, <3>2
      <3>4. i - 1 \in 1..Len(q) /\ (i - 1) + 1 = i
        BY <2>4, <3>3
      <3> QED
        BY <2>4, <3>2, <3>4
    <2>7. Paired(x, y, q)
      BY <2>5, <2>6 DEF Paired
    <2> QED
      BY <2>2, <2>3, <2>4, <2>7 DEF q
  <1> QED
    BY <1>2, <1>5, <1>6 DEF r

\* None of P comes after x.
Closes(x, P, t) == \A i \in 1..Len(t) : t[i] = x => \A j \in (i + 1)..Len(t) : t[j] \notin P

LEMMA ClosesNone ==
  ASSUME NEW S, NEW t \in Seq(S), NEW x, NEW P, x \notin ToSet(t) \/ ToSet(t) \cap P = {}
  PROVE  Closes(x, P, t)
  <1>1. \A i \in 1..Len(t) : t[i] \in ToSet(t) /\ \A j \in (i + 1)..Len(t) : t[j] \in ToSet(t)
    <2>1. \A i \in 1..Len(t) : \A j \in (i + 1)..Len(t) : j \in 1..Len(t)
      OBVIOUS
    <2> QED
      BY <2>1, ElementAt
  <1> QED
    BY <1>1 DEF Closes

LEMMA ClosesJoin ==
  ASSUME NEW S, NEW s \in Seq(S), NEW t \in Seq(S), NEW x, NEW P,
         Closes(x, P, s), Closes(x, P, t), x \notin ToSet(s) \/ ToSet(t) \cap P = {}
  PROVE  Closes(x, P, s \o t)
  <1> DEFINE u == s \o t
  <1>1. /\ Len(s) \in Nat /\ Len(t) \in Nat /\ Len(u) = Len(s) + Len(t)
        /\ \A i \in 1..Len(s) : i \in 1..Len(u) /\ u[i] = s[i]
        /\ \A i \in 1..Len(t) : Len(s) + i \in 1..Len(u) /\ u[Len(s) + i] = t[i]
        /\ \A i \in 1..Len(u) : i \in 1..Len(s) \/ (i - Len(s) \in 1..Len(t) /\ u[i] = t[i - Len(s)])
    BY JoinParts
  <1> HIDE DEF u
  <1>2. ASSUME NEW i \in 1..Len(u), u[i] = x, NEW j \in (i + 1)..Len(u) PROVE u[j] \notin P
    <2>0. j \in 1..Len(u)
      BY <1>1, <1>2
    <2>1. CASE i \in 1..Len(s)
      <3>1. x \in ToSet(s) /\ s[i] = x
        BY <1>1, <1>2, <2>1, ElementAt
      <3>2. CASE j \in 1..Len(s)
        <4>1. j \in (i + 1)..Len(s)
          BY <1>1, <1>2, <2>1, <3>2
        <4> QED
          BY <1>1, <2>1, <3>1, <3>2, <4>1 DEF Closes
      <3>3. CASE j - Len(s) \in 1..Len(t) /\ u[j] = t[j - Len(s)]
        BY <3>1, <3>3, ElementAt
      <3> QED
        BY <1>1, <2>0, <3>2, <3>3
    <2>2. CASE i - Len(s) \in 1..Len(t) /\ u[i] = t[i - Len(s)]
      <3>1. j - Len(s) \in (i - Len(s) + 1)..Len(t) /\ ~(j \in 1..Len(s))
        BY <1>1, <1>2, <2>2
      <3>2. u[j] = t[j - Len(s)]
        BY <1>1, <2>0, <3>1
      <3> QED
        BY <1>2, <2>2, <3>1, <3>2 DEF Closes
    <2> QED
      BY <1>1, <2>1, <2>2
  <1> QED
    BY <1>2 DEF Closes, u

LEMMA ClosesTail ==
  ASSUME NEW S, NEW t \in Seq(S), t # <<>>, NEW x, NEW P, Closes(x, P, t)
  PROVE  Closes(x, P, Tail(t)) /\ (Head(t) = x => ToSet(Tail(t)) \cap P = {})
  <1>1. /\ Head(t) = t[1] /\ Len(Tail(t)) = Len(t) - 1 /\ Len(t) \in Nat /\ 1 \in 1..Len(t)
        /\ Tail(t) \in Seq(S)
        /\ \A i \in 1..Len(Tail(t)) : Tail(t)[i] = t[i + 1]
    BY HeadAndTail
  <1>2. ASSUME NEW i \in 1..Len(Tail(t)), Tail(t)[i] = x, NEW j \in (i + 1)..Len(Tail(t))
        PROVE  Tail(t)[j] \notin P
    <2>1. i + 1 \in 1..Len(t) /\ t[i + 1] = x /\ j + 1 \in (i + 1 + 1)..Len(t) /\ j \in 1..Len(Tail(t))
      BY <1>1, <1>2
    <2>2. t[j + 1] \notin P
      BY <2>1 DEF Closes
    <2> QED
      BY <1>1, <2>1, <2>2
  <1>3. ASSUME Head(t) = x, NEW y \in ToSet(Tail(t)) PROVE y \notin P
    <2>1. PICK j \in 1..Len(Tail(t)) : Tail(t)[j] = y
      BY <1>1, <1>3, ElementAt
    <2>2. j + 1 \in (1 + 1)..Len(t) /\ t[j + 1] = y
      BY <1>1, <2>1
    <2> QED
      BY <1>1, <1>3, <2>2 DEF Closes
  <1> QED
    BY <1>2, <1>3 DEF Closes

-----------------------------------------------------------------------------
(* Functions and folds that are defined by recursion.                       *)
\* A function whose value depends on values of a lower rank only exists.
Functional(V, D, R)     == \A f : f \in V <=> f \in [D -> R]
Ranked(rank, D)   == \E n \in Nat : rank \in [D -> 0..n]
OnLower(H, V, D, rank) ==
    \A f, g \in V, d \in D : (\A e \in D : rank[e] < rank[d] => f[e] = g[e]) => H[f][d] = H[g][d]
LEMMA Recursion ==
  ASSUME NEW D, NEW R, NEW V, Functional(V, D, R), NEW v \in V, NEW H \in [V -> V],
         NEW rank, Ranked(rank, D), OnLower(H, V, D, rank)
  PROVE  \E f \in V : f = H[f]
  <1>0. PICK N \in Nat : rank \in [D -> 0..N]
    BY DEF Ranked
  <1>1. PICK f \in [Nat -> V] : f[0] = v /\ \A n \in Nat : f[n + 1] = H[f[n]]
    <2>1. v \in V /\ H \in [V -> V]
      OBVIOUS
    <2> QED
      BY ONLY <2>1, Iterates
  <1> DEFINE EqualTo(n) == \A d \in D : rank[d] < n => f[n][d] = f[n + 1][d]
             G == {n \in 0..(N + 1) : EqualTo(n)}
  <1>2. 0 \in G
    BY <1>0
  <1>3. ASSUME NEW n \in 1..(N + 1), n - 1 \in G PROVE n \in G
    <2>1. n - 1 \in Nat /\ n \in Nat /\ (n - 1) + 1 = n /\ EqualTo(n - 1)
      BY <1>3
    <2>2. f[n] = H[f[n - 1]] /\ f[n + 1] = H[f[n]] /\ f[n - 1] \in V /\ f[n] \in V
      BY <1>1, <2>1
    <2>3. ASSUME NEW d \in D, rank[d] < n PROVE f[n][d] = f[n + 1][d]
      <3>1. ASSUME NEW e \in D, rank[e] < rank[d] PROVE f[n - 1][e] = f[n][e]
        <4>1. rank[e] < n - 1
          BY <1>0, <2>1, <2>3, <3>1
        <4> QED
          BY <2>1, <4>1
      <3> QED
        BY <2>2, <3>1 DEF OnLower
    <2> QED
      BY <2>3
  <1>4. N + 1 \in G
    <2> HIDE DEF G
    <2>1. N + 1 \in Nat
      OBVIOUS
    <2>2. \A i \in 0..(N + 1) : i \in G
      BY <1>2, <1>3, <2>1, UpTo
    <2>3. N + 1 \in 0..(N + 1)
      OBVIOUS
    <2> QED
      BY <2>2, <2>3
  <1>5. f[N + 1] = H[f[N + 1]]
    <2>1. N + 1 \in Nat /\ f[N + 1] \in [D -> R] /\ f[(N + 1) + 1] \in [D -> R]
      BY <1>1 DEF Functional
    <2>2. \A d \in D : f[N + 1][d] = f[(N + 1) + 1][d]
      BY <1>0, <1>4
    <2>3. f[N + 1] = f[(N + 1) + 1]
      BY <2>1, <2>2
    <2> QED
      BY <1>1, <2>1, <2>3
  <1> QED
    BY <1>1, <1>5

LEMMA MaxOK ==
  ASSUME NEW n \in Nat, NEW s \in SUBSET (1..n), s # {}
  PROVE  Max(s) \in s /\ \A y \in s : y <= Max(s)
  <1> DEFINE T == {k \in 0..n : \A y \in s : y <= k}
  <1>1. T \in SUBSET Nat /\ n \in T
    OBVIOUS
  <1>2. PICK m \in T : \A k \in T : m <= k
    <2> HIDE DEF T
    <2> QED
      BY <1>1, LeastNat
  <1>3. m \in s
    <2> SUFFICES ASSUME m \notin s PROVE FALSE
      OBVIOUS
    <2>1. PICK z \in s : TRUE
      OBVIOUS
    <2>2. m - 1 \in 0..n
      BY <1>2, <2>1
    <2>3. \A y \in s : y <= m - 1
      BY <1>2
    <2>4. m - 1 \in T
      BY <2>2, <2>3
    <2> QED
      BY <1>2, <2>4
  <1>4. m \in s /\ \A y \in s : m >= y
    BY <1>2, <1>3
  <1>5. Max(s) \in s /\ \A y \in s : Max(s) >= y
    BY <1>4 DEF Max
  <1> QED
    BY <1>5

LEMMA MaxUpTo ==
  ASSUME NEW n \in Nat, n # 0
  PROVE  Max(1..n) = n
  <1>0. 1..n \in SUBSET (1..n) /\ n \in 1..n /\ 1..n # {}
    OBVIOUS
  <1>1. Max(1..n) \in 1..n /\ \A y \in 1..n : y <= Max(1..n)
    BY <1>0, MaxOK
  <1> QED
    BY <1>1

\* SetToSeq has every element once.
LEMMA SetToSeqOnce ==
  ASSUME NEW S, IsFiniteSet(S)
  PROVE  Len(SetToSeq(S)) = Cardinality(S) /\ IsInjective(SetToSeq(S))
  <1>1. Cardinality(S) \in Nat
    BY FS_CardinalityType
  <1>2. PICK g \in Bijection(1..Cardinality(S), S) : TRUE
    BY FS_CardinalityType DEF ExistsBijection
  <1>3. g \in [1..Cardinality(S) -> S] /\ IsInjective(g)
    BY <1>2 DEF Bijection, Injection, IsInjective
  <1> DEFINE s == SetToSeq(S)
  <1>4. s \in [1..Cardinality(S) -> S] /\ IsInjective(s)
    BY <1>3 DEF SetToSeq
  <1> HIDE DEF s
  <1>5. Len(s) = Cardinality(S)
    BY <1>1, <1>4
  <1> QED
    BY <1>4, <1>5 DEF s

\* The elements of a flattened family of sequences, and their number.
LEMMA FlatElements ==
  ASSUME NEW S, NEW n \in Nat, NEW ss \in [1..n -> Seq(S)]
  PROVE  /\ ss \in Seq(Seq(S)) /\ Len(ss) = n /\ FlattenSeq(ss) \in Seq(S)
         /\ \A x : x \in ToSet(FlattenSeq(ss)) <=> \E i \in 1..n : x \in ToSet(ss[i])
  <1>1. ss \in Seq(Seq(S)) /\ Len(ss) = n
    OBVIOUS
  <1>2. /\ FlattenSeq(ss) \in Seq(S)
        /\ ToSet(FlattenSeq(ss)) = UNION {ToSet(ss[i]) : i \in 1..Len(ss)}
    BY <1>1, FlattenOK
  <1>3. \A x : x \in ToSet(FlattenSeq(ss)) <=> \E i \in 1..n : x \in ToSet(ss[i])
    BY <1>1, <1>2
  <1> QED
    BY <1>1, <1>2, <1>3

Counts(C, ss) ==
    /\ \A i \in 1..Len(ss) : IsFiniteSet(C[i]) /\ Len(ss[i]) = Cardinality(C[i])
    /\ \A i, j \in 1..Len(ss) : i # j => C[i] \cap C[j] = {}

LEMMA FlattenCount ==
  ASSUME NEW S, NEW ss \in Seq(Seq(S)), NEW C, Counts(C, ss)
  PROVE  Len(FlattenSeq(ss)) = Cardinality(UNION {C[i] : i \in 1..Len(ss)})
  <1>0. Len(ss) \in Nat /\ Len(ss) \in 0..Len(ss) /\ \A i \in 1..Len(ss) : ss[i] \in Seq(S)
    OBVIOUS
  <1>1. PICK f \in [0..Len(ss) -> Seq(S)] :
            /\ f[0] = <<>> /\ f[Len(ss)] = FlattenSeq(ss)
            /\ \A i \in 1..Len(ss) : f[i] = f[i - 1] \o ss[i]
    BY FlattenSteps
  <1> DEFINE All(i) == UNION {C[j] : j \in 1..i}
             G == {i \in 0..Len(ss) : IsFiniteSet(All(i)) /\ Len(f[i]) = Cardinality(All(i))}
  <1>2. 0 \in G
    <2>1. All(0) = {}
      OBVIOUS
    <2>2. Len(f[0]) = 0
      BY <1>1
    <2> HIDE DEF All
    <2> QED
      BY <1>0, <2>1, <2>2, FS_EmptySet
  <1>3. ASSUME NEW i \in 1..Len(ss), i - 1 \in G PROVE i \in G
    <2>1. /\ f[i] = f[i - 1] \o ss[i] /\ f[i - 1] \in Seq(S) /\ ss[i] \in Seq(S)
          /\ IsFiniteSet(All(i - 1)) /\ Len(f[i - 1]) = Cardinality(All(i - 1))
      BY <1>0, <1>1, <1>3
    <2>2. IsFiniteSet(C[i]) /\ Len(ss[i]) = Cardinality(C[i])
      BY DEF Counts
    <2>3. All(i) = All(i - 1) \cup C[i]
      <3>1. 1..i = (1..(i - 1)) \cup {i}
        OBVIOUS
      <3> QED
        BY <3>1
    <2>4. All(i - 1) \cap C[i] = {}
      <3>1. \A j \in 1..(i - 1) : j \in 1..Len(ss) /\ j # i
        BY <1>0
      <3> QED
        BY <3>1 DEF Counts
    <2>5. Len(f[i]) = Len(f[i - 1]) + Len(ss[i])
      <3>1. f[i] = f[i - 1] \o ss[i]
        BY <2>1
      <3>2. f[i - 1] \in Seq(S) /\ ss[i] \in Seq(S)
        BY <2>1
      <3>3. Len(f[i - 1] \o ss[i]) = Len(f[i - 1]) + Len(ss[i])
        BY ONLY <3>2, JoinParts
      <3> QED
        BY <3>1, <3>3
    <2>6. i \in 0..Len(ss)
      BY <1>0
    <2> DEFINE A == All(i - 1)
               B == C[i]
    <2>7. IsFiniteSet(A) /\ IsFiniteSet(B) /\ A \cap B = {} /\ All(i) = A \cup B
      BY <2>1, <2>2, <2>3, <2>4
    <2> HIDE DEF A, B, All
    <2>8. /\ IsFiniteSet(A \cup B) /\ Cardinality(A \cup B) = Cardinality(A) + Cardinality(B) - Cardinality({})
      BY <2>7, FS_Union
    <2>9. Cardinality({}) = 0 /\ Cardinality(A) \in Nat /\ Cardinality(B) \in Nat
      BY <2>7, FS_EmptySet, FS_CardinalityType
    <2>10. Cardinality(A \cup B) = Cardinality(A) + Cardinality(B)
      BY <2>8, <2>9
    <2>11. Cardinality(A \cup B) = Len(f[i])
      BY <2>1, <2>2, <2>5, <2>10 DEF A, B
    <2> QED
      BY <2>6, <2>7, <2>8, <2>11
  <1>4. Len(ss) \in G
    <2> HIDE DEF G
    <2> QED
      BY <1>0, <1>2, <1>3, UpTo
  <1> QED
    BY <1>1, <1>4

\* A sequence that has its elements once is as long as their number.
LEMMA OnceCount ==
  ASSUME NEW S, NEW s \in Seq(S), IsInjective(s)
  PROVE  IsFiniteSet(ToSet(s)) /\ Cardinality(ToSet(s)) = Len(s)
  <1>1. Len(s) \in Nat /\ DOMAIN s = 1..Len(s)
    OBVIOUS
  <1>2. IsFiniteSet(1..Len(s)) /\ Cardinality(1..Len(s)) = Len(s)
    BY <1>1, FS_Interval
  <1>3. s \in [1..Len(s) -> ToSet(s)]
    <2>1. \A i \in 1..Len(s) : s[i] \in ToSet(s)
      BY <1>1 DEF ToSet
    <2>2. s = [i \in 1..Len(s) |-> s[i]]
      OBVIOUS
    <2> QED
      BY <2>1, <2>2
  <1>4. \A x \in ToSet(s) : \E i \in 1..Len(s) : s[i] = x
    BY <1>1 DEF ToSet
  <1>5. s \in Surjection(1..Len(s), ToSet(s)) /\ s \in Injection(1..Len(s), ToSet(s))
    BY <1>1, <1>3, <1>4 DEF Surjection, Injection, IsInjective
  <1> QED
    BY <1>1, <1>2, <1>5, FS_Surjection

\* The values of a function on numbers are finitely many.
LEMMA ValuesFinite ==
  ASSUME NEW n \in Nat, NEW f, DOMAIN f = 1..n
  PROVE  IsFiniteSet({f[i] : i \in 1..n})
  <1> DEFINE T == {f[i] : i \in 1..n}
             g == [i \in 1..n |-> f[i]]
  <1>1. IsFiniteSet(1..n)
    BY FS_Interval
  <1>2. g \in Surjection(1..n, T)
    BY DEF Surjection
  <1> HIDE DEF T, g
  <1>3. IsFiniteSet(T)
    BY <1>1, <1>2, FS_Surjection
  <1> QED
    BY <1>3 DEF T
===============================================================================
