---------------------------- MODULE ListingsProofs ----------------------------
(***************************************************************************)
(* What SUSEConnect prints is so, for any products, catalog, repositories  *)
(* and patterns: statuses and the tree of extensions (ListingsTrue), found *)
(* packages and their groups (SearchTable). First what each operator of    *)
(* Listings computes, then that what is shown was computed from what still *)
(* holds when it is shown.                                                 *)
(***************************************************************************)
EXTENDS SUSEConnectProofs, SeqLemmas
\* The rows of the tree.
Row   == [product : Products, indent : Nat]
Trees == [Products -> [Nat -> Seq(Row)]]
Parts(T, p, indent) ==
    [i \in DOMAIN Extensions[p] |->
        <<[product |-> Extensions[p][i], indent |-> indent]>> \o T[Extensions[p][i]][indent + 4]]

\* The parts the walk joins: each extension and what is below it.
LEMMA PartsOK ==
  ASSUME NEW T \in Trees, NEW p \in Products, NEW indent \in Nat
  PROVE  /\ Parts(T, p, indent) \in Seq(Seq(Row))
         /\ Len(Parts(T, p, indent)) = Len(Extensions[p])
         /\ FlattenSeq(Parts(T, p, indent)) \in Seq(Row)
         /\ \A i \in 1..Len(Extensions[p]) :
              /\ Extensions[p][i] \in Products
              /\ T[Extensions[p][i]][indent + 4] \in Seq(Row)
              /\ <<[product |-> Extensions[p][i], indent |-> indent]>> \in Seq(Row)
              /\ Parts(T, p, indent)[i] = <<[product |-> Extensions[p][i], indent |-> indent]>>
                                          \o T[Extensions[p][i]][indent + 4]
  <1> DEFINE below == Extensions[p]
             own(i) == <<[product |-> below[i], indent |-> indent]>>
             rest(i) == T[below[i]][indent + 4]
             ss == Parts(T, p, indent)
  <1>1. below \in Seq(Products)
    BY TreeAssumption
  <1>2. /\ DOMAIN below = 1..Len(below) /\ Len(below) \in Nat
        /\ \A i \in 1..Len(below) : below[i] \in Products
    BY <1>1
  <1>3. ss = [i \in 1..Len(below) |-> own(i) \o rest(i)]
    BY <1>2 DEF Parts
  <1>4. \A i \in 1..Len(below) : rest(i) \in Seq(Row) /\ own(i) \in Seq(Row)
    <2> SUFFICES ASSUME NEW i \in 1..Len(below) PROVE rest(i) \in Seq(Row) /\ own(i) \in Seq(Row)
      OBVIOUS
    <2>1. below[i] \in Products /\ indent + 4 \in Nat
      BY <1>2
    <2>2. T[below[i]] \in [Nat -> Seq(Row)]
      BY <2>1 DEF Trees
    <2>3. [product |-> below[i], indent |-> indent] \in Row
      BY <2>1 DEF Row
    <2>4. rest(i) \in Seq(Row)
      BY <2>1, <2>2
    <2> HIDE DEF Row
    <2> QED
      BY <2>3, <2>4
  <1> HIDE DEF below, ss, own, rest
  <1>5. \A i \in 1..Len(below) : own(i) \o rest(i) \in Seq(Row)
    BY <1>4
  <1>6. ss \in [1..Len(below) -> Seq(Row)]
    BY <1>3, <1>5
  <1>7. ss \in Seq(Seq(Row)) /\ Len(ss) = Len(below)
    BY <1>2, <1>6
  <1>8. FlattenSeq(ss) \in Seq(Row)
    BY <1>7, FlattenOK
  <1>9. \A i \in 1..Len(below) : ss[i] = own(i) \o rest(i)
    BY <1>3
  <1> QED
    BY <1>2, <1>4, <1>7, <1>8, <1>9 DEF below, ss, own, rest

\* The recursion has a solution, because the tree has a depth.
LEMMA BelowIs ==
  /\ Below \in Trees
  /\ \A p \in Products, indent \in Nat :
       /\ Below[p][indent] = FlattenSeq(Parts(Below, p, indent))
       /\ Below[p][indent] \in Seq(Row)
  <1> DEFINE N == Cardinality(Products)
             more(T) == [p \in Products |-> [indent \in Nat |-> FlattenSeq(Parts(T, p, indent))]]
             H == [T \in Trees |-> more(T)]
             none == [p \in Products |-> [indent \in Nat |-> <<>>]]
  <1>1. N \in Nat
    BY TreeAssumption, FS_CardinalityType
  <1>2. PICK depth \in [Products -> 0..N] :
            \A p \in Products : \A e \in ToSet(Extensions[p]) : depth[e] < depth[p]
    BY NoCyclesAssumption
  <1> HIDE DEF N
  <1>3. none \in Trees
    BY DEF Trees
  <1>4. \A T \in Trees : more(T) \in Trees
    BY PartsOK DEF Trees
  <1>5. H \in [Trees -> Trees] /\ \A T \in Trees : H[T] = more(T)
    BY <1>4
  <1>6. ASSUME NEW f, NEW g, NEW p \in Products,
               \A e \in Products : depth[e] < depth[p] => f[e] = g[e]
        PROVE  more(f)[p] = more(g)[p]
    <2>1. \A i \in DOMAIN Extensions[p] : f[Extensions[p][i]] = g[Extensions[p][i]]
      <3> SUFFICES ASSUME NEW i \in DOMAIN Extensions[p] PROVE f[Extensions[p][i]] = g[Extensions[p][i]]
        OBVIOUS
      <3>1. Extensions[p] \in Seq(Products)
        BY TreeAssumption
      <3>2. Extensions[p][i] \in Products
        BY <3>1
      <3>3. Extensions[p][i] \in ToSet(Extensions[p])
        BY DEF ToSet
      <3> QED
        BY <1>2, <1>6, <3>2, <3>3
    <2>2. \A indent \in Nat : Parts(f, p, indent) = Parts(g, p, indent)
      BY <2>1 DEF Parts
    <2> QED
      BY <2>2
  <1>7. PICK f \in Trees : f = H[f]
    <2>1. Functional(Trees, Products, [Nat -> Seq(Row)])
      BY DEF Functional, Trees
    <2>2. OnLower(H, Trees, Products, depth)
      <3> HIDE DEF H, more
      <3> SUFFICES ASSUME NEW g \in Trees, NEW h \in Trees, NEW p \in Products,
                          \A e \in Products : depth[e] < depth[p] => g[e] = h[e]
                   PROVE  H[g][p] = H[h][p]
        BY DEF OnLower
      <3>1. more(g)[p] = more(h)[p]
        BY <1>6
      <3> QED
        BY <1>5, <3>1
    <2>3. Ranked(depth, Products)
      BY <1>1, <1>2 DEF Ranked
    <2>4. none \in Trees /\ H \in [Trees -> Trees]
      BY <1>3, <1>5
    <2> HIDE DEF H, none
    <2> QED
      BY ONLY <2>1, <2>2, <2>3, <2>4, Recursion
  <1> HIDE DEF H, none
  <1> DEFINE Eq(T) == T = [p \in Products |-> [indent \in Nat |->
                FlattenSeq([i \in DOMAIN Extensions[p] |->
                    <<[product |-> Extensions[p][i], indent |-> indent]>>
                    \o T[Extensions[p][i]][indent + 4]])]]
  <1>8. Eq(f)
    BY <1>5, <1>7 DEF Parts
  <1>9. Below = CHOOSE T : Eq(T)
    BY DEF Below
  <1>10. Eq(Below)
    <2> HIDE DEF Eq
    <2> QED
      BY <1>8, <1>9
  <1>11. Below = more(Below) /\ f = more(f)
    BY <1>5, <1>7, <1>10 DEF Parts
  <1> DEFINE EqualTo(n) == \A p \in Products : depth[p] < n => Below[p] = f[p]
             G == {n \in 0..(N + 1) : EqualTo(n)}
  <1>12. 0 \in G
    BY <1>1, <1>2
  <1>13. ASSUME NEW n \in 1..(N + 1), n - 1 \in G PROVE n \in G
    <2>1. n \in 0..(N + 1) /\ EqualTo(n - 1)
      BY <1>1, <1>13
    <2>2. ASSUME NEW p \in Products, depth[p] < n PROVE Below[p] = f[p]
      <3>1. \A e \in Products : depth[e] < depth[p] => depth[e] < n - 1
        BY <1>1, <1>2, <2>2
      <3>2. \A e \in Products : depth[e] < depth[p] => Below[e] = f[e]
        BY <2>1, <3>1
      <3>3. more(Below)[p] = more(f)[p]
        BY <1>6, <3>2
      <3> HIDE DEF more
      <3> QED
        BY <1>11, <3>3
    <2> QED
      BY <2>1, <2>2
  <1>14. N + 1 \in G
    <2> HIDE DEF G
    <2>1. N + 1 \in Nat /\ N + 1 \in 0..(N + 1)
      BY <1>1
    <2> QED
      BY <1>12, <1>13, <2>1, UpTo
  <1>15. \A p \in Products : Below[p] = f[p]
    BY <1>1, <1>2, <1>14
  <1>16. Below = f
    <2>1. Below = [p \in Products |-> Below[p]]
      BY <1>11
    <2>2. f = [p \in Products |-> f[p]]
      BY <1>7 DEF Trees
    <2> QED
      BY <1>15, <2>1, <2>2
  <1>17. ASSUME NEW p \in Products, NEW indent \in Nat
         PROVE  Below[p][indent] = FlattenSeq(Parts(Below, p, indent))
    <2>1. more(Below)[p][indent] = FlattenSeq(Parts(Below, p, indent))
      OBVIOUS
    <2> HIDE DEF more
    <2> QED
      BY <1>11, <2>1
  <1> QED
    BY <1>7, <1>16, <1>17, PartsOK

\* The row of a parent is before the rows of its children, with only their own
\* extensions between them.
Covered(t, i) ==
    \E j \in 1..(i - 1) :
        /\ t[j].indent + 4 = t[i].indent
        /\ ParentOf(t[j].product, t[i].product)
        /\ \A m \in (j + 1)..(i - 1) : t[m].indent >= t[i].indent
Grown(t, p, k) ==
    \A i \in 1..Len(t) :
        /\ t[i].indent >= k
        /\ t[i].indent = k => ParentOf(p, t[i].product)
        /\ t[i].indent > k => Covered(t, i)
Forest(p, k) == {t \in Seq(Row) : Grown(t, p, k)}
Named(t) == {t[i].product : i \in 1..Len(t)}

\* A row keeps its parent when others are put in front.
LEMMA JoinCovered ==
  ASSUME NEW s \in Seq(Row), NEW t \in Seq(Row), NEW i \in 1..Len(t), Covered(t, i)
  PROVE  Covered(s \o t, Len(s) + i)
  <1> DEFINE u == s \o t
             n == Len(s)
  <1>1. /\ n \in Nat /\ Len(t) \in Nat
        /\ \A j \in 1..Len(t) : u[n + j] = t[j]
    OBVIOUS
  <1>2. PICK j \in 1..(i - 1) :
            /\ t[j].indent + 4 = t[i].indent
            /\ ParentOf(t[j].product, t[i].product)
            /\ \A m \in (j + 1)..(i - 1) : t[m].indent >= t[i].indent
    BY DEF Covered
  <1> HIDE DEF u, n
  <1>3. n + j \in 1..((n + i) - 1) /\ u[n + j] = t[j] /\ u[n + i] = t[i]
    BY <1>1
  <1>4. \A m \in ((n + j) + 1)..((n + i) - 1) : u[m].indent >= u[n + i].indent
    <2> SUFFICES ASSUME NEW m \in ((n + j) + 1)..((n + i) - 1) PROVE u[m].indent >= u[n + i].indent
      OBVIOUS
    <2>1. m - n \in (j + 1)..(i - 1) /\ m - n \in 1..Len(t) /\ n + (m - n) = m
      BY <1>1
    <2>2. u[m] = t[m - n]
      BY <1>1, <2>1
    <2> QED
      BY <1>2, <1>3, <2>1, <2>2
  <1>5. u[n + j].indent + 4 = u[n + i].indent /\ ParentOf(u[n + j].product, u[n + i].product)
    BY <1>2, <1>3
  <1>6. Covered(u, n + i)
    <2> DEFINE l == n + j
               h == n + i
    <2>1. /\ l \in 1..(h - 1) /\ u[l].indent + 4 = u[h].indent
          /\ ParentOf(u[l].product, u[h].product)
          /\ \A m \in (l + 1)..(h - 1) : u[m].indent >= u[h].indent
      <3>1. l \in 1..(h - 1)
        BY <1>3
      <3> QED
        BY <1>4, <1>5, <3>1
    <2> HIDE DEF l, h
    <2>2. Covered(u, h)
      BY <2>1 DEF Covered
    <2> QED
      BY <2>2 DEF h
  <1> QED
    BY <1>6 DEF u, n

\* Two trees under one product are one.
LEMMA JoinGrown ==
  ASSUME NEW p, NEW k \in Nat, NEW s \in Forest(p, k), NEW t \in Forest(p, k)
  PROVE  s \o t \in Forest(p, k)
  <1> DEFINE u == s \o t
             n == Len(s)
  <1>0. s \in Seq(Row) /\ t \in Seq(Row) /\ Grown(s, p, k) /\ Grown(t, p, k)
    BY DEF Forest
  <1>1. /\ u \in Seq(Row) /\ n \in Nat /\ Len(t) \in Nat /\ Len(u) = n + Len(t)
        /\ \A j \in 1..n : u[j] = s[j]
        /\ \A j \in 1..Len(t) : u[n + j] = t[j]
    BY <1>0
  <1>2. \A i \in 1..Len(t) : Covered(t, i) => Covered(u, n + i)
    BY <1>0, JoinCovered
  <1> HIDE DEF u, n
  <1>3. ASSUME NEW i \in 1..n, Covered(s, i) PROVE Covered(u, i)
    <2>1. \A m \in 1..i : u[m] = s[m]
      BY <1>1
    <2> QED
      BY <1>1, <1>3, <2>1 DEF Covered
  <1>4. ASSUME NEW i \in 1..Len(u)
        PROVE  /\ u[i].indent >= k
               /\ u[i].indent = k => ParentOf(p, u[i].product)
               /\ u[i].indent > k => Covered(u, i)
    <2>1. CASE i \in 1..n
      <3>1. u[i] = s[i]
        BY <1>1, <2>1
      <3>2. /\ s[i].indent >= k
            /\ s[i].indent = k => ParentOf(p, s[i].product)
            /\ s[i].indent > k => Covered(s, i)
        BY <1>0, <2>1 DEF Grown, n
      <3> QED
        BY <1>3, <2>1, <3>1, <3>2
    <2>2. CASE i \notin 1..n
      <3>1. i - n \in 1..Len(t) /\ n + (i - n) = i
        BY <1>1, <2>2
      <3>2. u[i] = t[i - n]
        BY <1>1, <3>1
      <3>3. /\ t[i - n].indent >= k
            /\ t[i - n].indent = k => ParentOf(p, t[i - n].product)
            /\ t[i - n].indent > k => Covered(t, i - n)
        BY <1>0, <3>1 DEF Grown
      <3>4. Covered(t, i - n) => Covered(u, i)
        BY <1>2, <3>1
      <3> QED
        BY <3>2, <3>3, <3>4
    <2> QED
      BY <2>1, <2>2
  <1>5. Grown(u, p, k)
    BY <1>4 DEF Grown
  <1> QED
    BY <1>1, <1>5 DEF Forest, u

\* An extension and what is below it.
LEMMA PartGrown ==
  ASSUME NEW p, NEW k \in Nat, NEW e \in Products, ParentOf(p, e),
         NEW t \in Forest(e, k + 4)
  PROVE  <<[product |-> e, indent |-> k]>> \o t \in Forest(p, k)
  <1> DEFINE r == [product |-> e, indent |-> k]
             s == <<r>>
             u == s \o t
  <1>0. r \in Row /\ t \in Seq(Row) /\ Grown(t, e, k + 4)
    BY DEF Forest, Row
  <1>1. r.indent = k /\ r.product = e
    OBVIOUS
  <1> HIDE DEF r
  <1>2. s \in Seq(Row) /\ Len(s) = 1 /\ s[1] = r
    BY <1>0
  <1>3. /\ u \in Seq(Row) /\ Len(t) \in Nat /\ Len(u) = 1 + Len(t)
        /\ u[1] = r
        /\ \A j \in 1..Len(t) : u[1 + j] = t[j]
    BY <1>0, <1>2
  <1>4. \A i \in 1..Len(t) : Covered(t, i) => Covered(u, 1 + i)
    BY <1>0, <1>2, JoinCovered
  <1> HIDE DEF s, u
  <1>5. ASSUME NEW i \in 1..Len(u)
        PROVE  /\ u[i].indent >= k
               /\ u[i].indent = k => ParentOf(p, u[i].product)
               /\ u[i].indent > k => Covered(u, i)
    <2>1. CASE i = 1
      BY <1>1, <1>3, <2>1
    <2>2. CASE i # 1
      <3>1. i - 1 \in 1..Len(t) /\ 1 + (i - 1) = i
        BY <1>3, <2>2
      <3>2. u[i] = t[i - 1]
        BY <1>3, <3>1
      <3>3. /\ t[i - 1].indent >= k + 4
            /\ t[i - 1].indent = k + 4 => ParentOf(e, t[i - 1].product)
            /\ t[i - 1].indent > k + 4 => Covered(t, i - 1)
        BY <1>0, <3>1 DEF Grown
      <3>4. t[i - 1] \in Row
        BY <1>0, <3>1
      <3>5. t[i - 1].indent \in Nat
        BY <3>4 DEF Row
      <3>6. CASE t[i - 1].indent = k + 4
        <4>1. \A m \in 2..(i - 1) : u[m].indent >= u[i].indent
          <5> SUFFICES ASSUME NEW m \in 2..(i - 1) PROVE u[m].indent >= u[i].indent
            OBVIOUS
          <5>1. m - 1 \in 1..Len(t) /\ 1 + (m - 1) = m
            BY <3>1
          <5>2. u[m] = t[m - 1] /\ t[m - 1].indent >= k + 4
            BY <1>0, <1>3, <5>1 DEF Grown
          <5> QED
            BY <3>2, <3>6, <5>2
        <4>2. /\ u[1].indent + 4 = u[i].indent
              /\ ParentOf(u[1].product, u[i].product)
          BY <1>1, <1>3, <3>2, <3>3, <3>6
        <4>3. 1 \in 1..(i - 1) /\ 1 + 1 = 2
          BY <3>1
        <4>4. Covered(u, i)
          BY <4>1, <4>2, <4>3 DEF Covered
        <4> QED
          BY <3>2, <3>6, <4>4
      <3>7. CASE t[i - 1].indent # k + 4
        <4>1. t[i - 1].indent > k + 4
          BY <3>3, <3>5, <3>7
        <4>2. Covered(u, 1 + (i - 1))
          BY <1>4, <3>1, <3>3, <4>1
        <4>3. u[i].indent > k /\ u[i].indent \in Nat
          BY <3>2, <3>5, <4>1
        <4> QED
          BY <3>1, <4>2, <4>3
      <3> QED
        BY <3>6, <3>7
    <2> QED
      BY <2>1, <2>2
  <1>6. Grown(u, p, k)
    BY <1>5 DEF Grown
  <1> QED
    BY <1>3, <1>6 DEF Forest, u, s, r

\* A tree: grown, and with all the extensions of all its products.
Children(p) == ToSet(Extensions[p])
Whole(t, p) == Named(t) = UNION {Children(q) : q \in {p} \cup Named(t)}
Tree(p, k)  == {t \in Forest(p, k) : Whole(t, p)}

LEMMA PartNamed ==
  ASSUME NEW r \in Row, NEW t \in Seq(Row)
  PROVE  Named(<<r>> \o t) = {r.product} \cup Named(t)
  <1>0. <<r>> \in Seq(Row)
    OBVIOUS
  <1>1. ToSet(<<r>> \o t) = ToSet(<<r>>) \cup ToSet(t) /\ <<r>> \o t \in Seq(Row)
    BY <1>0, ToSetOfJoin
  <1>2. ToSet(<<r>>) = {r}
    BY ToSetOfOne
  <1>3. \A s \in Seq(Row) : Named(s) = {x.product : x \in ToSet(s)}
    <2> SUFFICES ASSUME NEW s \in Seq(Row) PROVE Named(s) = {x.product : x \in ToSet(s)}
      OBVIOUS
    <2>1. DOMAIN s = 1..Len(s)
      OBVIOUS
    <2> QED
      BY <2>1 DEF Named, ToSet
  <1>4. Named(<<r>> \o t) = {x.product : x \in {r} \cup ToSet(t)}
    BY <1>1, <1>2, <1>3
  <1>5. Named(t) = {x.product : x \in ToSet(t)}
    BY <1>3
  <1> QED
    BY <1>4, <1>5

LEMMA FlatNamed ==
  ASSUME NEW ss \in Seq(Seq(Row))
  PROVE  Named(FlattenSeq(ss)) = UNION {Named(ss[i]) : i \in 1..Len(ss)}
  <1>1. /\ FlattenSeq(ss) \in Seq(Row)
        /\ ToSet(FlattenSeq(ss)) = UNION {ToSet(ss[i]) : i \in 1..Len(ss)}
    BY FlattenOK
  <1>2. ASSUME NEW s \in Seq(Row) PROVE Named(s) = {x.product : x \in ToSet(s)}
    <2>1. DOMAIN s = 1..Len(s)
      OBVIOUS
    <2> QED
      BY <2>1 DEF Named, ToSet
  <1>3. \A i \in 1..Len(ss) : Named(ss[i]) = {x.product : x \in ToSet(ss[i])}
    BY <1>2
  <1>4. Named(FlattenSeq(ss)) =
            {x.product : x \in UNION {ToSet(ss[i]) : i \in 1..Len(ss)}}
    BY <1>1, <1>2
  <1> DEFINE flat == Named(FlattenSeq(ss))
             named(i) == Named(ss[i])
             of(i) == ToSet(ss[i])
  <1>5. /\ flat = {x.product : x \in UNION {of(i) : i \in 1..Len(ss)}}
        /\ \A i \in 1..Len(ss) : named(i) = {x.product : x \in of(i)}
    BY <1>3, <1>4
  <1> HIDE DEF flat, named, of
  <1>6. flat = UNION {named(i) : i \in 1..Len(ss)}
    <2>1. \A y : y \in flat <=> \E i \in 1..Len(ss) : \E x \in of(i) : y = x.product
      BY <1>5
    <2>2. \A y : y \in flat <=> \E i \in 1..Len(ss) : y \in named(i)
      BY <1>5, <2>1
    <2> QED
      BY <2>2
  <1> QED
    BY <1>6 DEF flat, named

\* The walk, by induction on the depth.
LEMMA TreeBelow == \A p \in Products, k \in Nat : Below[p][k] \in Tree(p, k)
  <1> DEFINE N == Cardinality(Products)
  <1>1. N \in Nat
    BY TreeAssumption, FS_CardinalityType
  <1>2. PICK depth \in [Products -> 0..N] :
            \A p \in Products : \A e \in ToSet(Extensions[p]) : depth[e] < depth[p]
    BY NoCyclesAssumption
  <1> HIDE DEF N
  <1> DEFINE Good(n) == \A p \in Products, k \in Nat : depth[p] < n => Below[p][k] \in Tree(p, k)
             G == {n \in 0..(N + 1) : Good(n)}
  <1>3. 0 \in G
    BY <1>1, <1>2
  <1>4. ASSUME NEW n \in 1..(N + 1), n - 1 \in G PROVE n \in G
    <2>1. n \in 0..(N + 1) /\ Good(n - 1)
      BY <1>1, <1>4
    <2>2. ASSUME NEW p \in Products, NEW k \in Nat, depth[p] < n PROVE Below[p][k] \in Tree(p, k)
      <3> DEFINE es == Extensions[p]
                 ss == Parts(Below, p, k)
                 sub(i) == Below[es[i]][k + 4]
                 row(i) == [product |-> es[i], indent |-> k]
      <3>1. es \in Seq(Products) /\ Len(es) \in Nat /\ DOMAIN es = 1..Len(es)
        BY TreeAssumption
      <3>2. Below \in Trees /\ Below[p][k] = FlattenSeq(ss)
        BY BelowIs
      <3>3. /\ ss \in Seq(Seq(Row)) /\ Len(ss) = Len(es)
            /\ \A i \in 1..Len(es) : es[i] \in Products /\ ss[i] = <<row(i)>> \o sub(i)
        BY <3>2, PartsOK
      <3>4. \A i \in 1..Len(es) : ParentOf(p, es[i])
        BY <3>1 DEF ParentOf, ToSet
      <3> HIDE DEF ss
      <3>5. ASSUME NEW i \in 1..Len(es) PROVE sub(i) \in Tree(es[i], k + 4)
        <4>1. es[i] \in Products /\ depth[es[i]] < n - 1 /\ k + 4 \in Nat
          <5>1. es[i] \in Products /\ es[i] \in ToSet(Extensions[p])
            BY <3>3, <3>4 DEF ParentOf
          <5> HIDE DEF es
          <5>2. depth[es[i]] < depth[p] /\ depth[es[i]] \in Nat /\ depth[p] \in Nat
            BY <1>1, <1>2, <5>1
          <5> QED
            BY <1>1, <2>2, <5>1, <5>2
        <4> QED
          BY <2>1, <4>1
      <3>6. \A i \in 1..Len(es) : ss[i] \in Forest(p, k)
        <4> SUFFICES ASSUME NEW i \in 1..Len(es) PROVE ss[i] \in Forest(p, k)
          OBVIOUS
        <4>1. es[i] \in Products /\ ParentOf(p, es[i]) /\ sub(i) \in Forest(es[i], k + 4)
          BY <3>3, <3>4, <3>5 DEF Tree
        <4> HIDE DEF es, sub
        <4>2. <<row(i)>> \o sub(i) \in Forest(p, k)
          BY <4>1, PartGrown
        <4> QED
          BY <3>3, <4>2
      <3>7. FlattenSeq(ss) \in Forest(p, k)
        <4>1. /\ Forest(p, k) \in SUBSET Seq(Row)
              /\ <<>> \in Forest(p, k)
          BY DEF Forest, Grown
        <4>2. \A s, t \in Forest(p, k) : s \o t \in Forest(p, k)
          BY JoinGrown
        <4>3. ss \in Seq(Forest(p, k))
          <5> HIDE DEF es
          <5>1. ss \in [1..Len(es) -> Forest(p, k)]
            BY <3>3, <3>6
          <5> QED
            BY <3>1, <5>1
        <4> QED
          BY ONLY <4>1, <4>2, <4>3, FlattenKeeps
      <3> DEFINE all == FlattenSeq(ss)
      <3>8. \A i \in 1..Len(es) : Named(ss[i]) = {es[i]} \cup Named(sub(i))
        <4> SUFFICES ASSUME NEW i \in 1..Len(es) PROVE Named(ss[i]) = {es[i]} \cup Named(sub(i))
          OBVIOUS
        <4>1. row(i) \in Row /\ row(i).product = es[i]
          BY <3>3 DEF Row
        <4>2. sub(i) \in Seq(Row)
          BY <3>5 DEF Tree, Forest
        <4> HIDE DEF sub, row, es
        <4>3. Named(<<row(i)>> \o sub(i)) = {row(i).product} \cup Named(sub(i))
          BY <4>1, <4>2, PartNamed
        <4> QED
          BY <3>3, <4>1, <4>3
      <3>9. Named(all) = UNION {{es[i]} \cup Named(sub(i)) : i \in 1..Len(es)}
        <4>1. Named(all) = UNION {Named(ss[i]) : i \in 1..Len(es)}
          BY <3>3, FlatNamed
        <4> HIDE DEF all, sub, es
        <4> QED
          BY <3>8, <4>1
      <3>10. \A i \in 1..Len(es) :
                Named(sub(i)) = UNION {Children(q) : q \in {es[i]} \cup Named(sub(i))}
        BY <3>5 DEF Tree, Whole
      <3>11. Children(p) = {es[i] : i \in 1..Len(es)}
        BY <3>1 DEF Children, ToSet
      <3> HIDE DEF all, sub, es
      <3>12. UNION {Children(q) : q \in Named(all)} \subseteq Named(all)
        <4> SUFFICES ASSUME NEW q \in Named(all), NEW x \in Children(q) PROVE x \in Named(all)
          OBVIOUS
        <4>1. PICK i \in 1..Len(es) : q \in {es[i]} \cup Named(sub(i))
          BY <3>9
        <4>2. x \in Named(sub(i))
          BY <3>10, <4>1
        <4> QED
          BY <3>9, <4>2
      <3>13. Named(all) \subseteq Children(p) \cup UNION {Children(q) : q \in Named(all)}
        <4> SUFFICES ASSUME NEW x \in Named(all), x \notin Children(p)
                     PROVE  \E q \in Named(all) : x \in Children(q)
          OBVIOUS
        <4>1. PICK i \in 1..Len(es) : x \in {es[i]} \cup Named(sub(i))
          BY <3>9
        <4>2. x \in Named(sub(i))
          BY <3>11, <4>1
        <4>3. PICK q \in {es[i]} \cup Named(sub(i)) : x \in Children(q)
          BY <3>10, <4>2
        <4> QED
          BY <3>9, <4>3
      <3>14. Children(p) \subseteq Named(all)
        BY <3>9, <3>11
      <3>15. Whole(all, p)
        BY <3>12, <3>13, <3>14 DEF Whole
      <3> QED
        BY <3>2, <3>7, <3>15 DEF Tree, all
    <2> QED
      BY <2>1, <2>2
  <1>5. \A i \in 0..(N + 1) : i \in G
    <2> HIDE DEF G
    <2>1. N + 1 \in Nat
      BY <1>1
    <2> QED
      BY <1>3, <1>4, <2>1, UpTo
  <1>6. Good(N + 1)
    BY <1>1, <1>5
  <1>7. \A p \in Products : depth[p] < N + 1
    BY <1>1, <1>2
  <1> QED
    BY <1>6, <1>7

\* What list-extensions prints of the tree.
LEMMA RenderOK ==
  ASSUME NEW activations, NEW writable
  PROVE  TreeIsTrue(RenderExtensionTree(activations, writable), activations)
  <1> DEFINE b == Below[Base][4]
             rows == RenderExtensionTree(activations, writable)
             all == {rows[i].product : i \in DOMAIN rows}
  <1>1. b \in Tree(Base, 4)
    BY TreeAssumption, TreeBelow
  <1>2. /\ b \in Seq(Row) /\ DOMAIN b = 1..Len(b) /\ Grown(b, Base, 4)
        /\ Named(b) = UNION {Children(q) : q \in {Base} \cup Named(b)}
    BY <1>1 DEF Tree, Forest, Whole
  <1>3. /\ DOMAIN rows = 1..Len(b)
        /\ \A i \in 1..Len(b) :
              /\ rows[i].product = b[i].product /\ rows[i].indent = b[i].indent
              /\ rows[i].command.does = IF b[i].product \in activations THEN "deactivate" ELSE "activate"
    BY <1>2 DEF RenderExtensionTree, CommandFor
  <1> HIDE DEF b, rows
  <1>4. all = Named(b)
    BY <1>3 DEF Named
  <1>5. all = UNION {ToSet(Extensions[q]) : q \in {Base} \cup all}
    <2> HIDE DEF all
    <2> QED
      BY <1>2, <1>4 DEF Children
  <1>6. ASSUME NEW i \in DOMAIN rows
        PROVE  /\ rows[i].command.does = "deactivate" <=> rows[i].product \in activations
               /\ rows[i].indent > 4 => \E j \in 1..(i - 1) :
                        /\ rows[j].indent + 4 = rows[i].indent
                        /\ ParentOf(rows[j].product, rows[i].product)
                        /\ \A k \in (j + 1)..(i - 1) : rows[k].indent >= rows[i].indent
    <2>1. rows[i].command.does = "deactivate" <=> rows[i].product \in activations
      BY <1>3
    <2>2. ASSUME rows[i].indent > 4
          PROVE  \E j \in 1..(i - 1) :
                        /\ rows[j].indent + 4 = rows[i].indent
                        /\ ParentOf(rows[j].product, rows[i].product)
                        /\ \A k \in (j + 1)..(i - 1) : rows[k].indent >= rows[i].indent
      <3>0. Len(b) \in Nat /\ i \in 1..Len(b)
        BY <1>2, <1>3
      <3>1. Covered(b, i)
        BY <1>2, <1>3, <2>2, <3>0 DEF Grown
      <3>2. PICK j \in 1..(i - 1) :
                /\ b[j].indent + 4 = b[i].indent
                /\ ParentOf(b[j].product, b[i].product)
                /\ \A k \in (j + 1)..(i - 1) : b[k].indent >= b[i].indent
        BY <3>1 DEF Covered
      <3>3. j \in 1..Len(b) /\ \A k \in (j + 1)..(i - 1) : k \in 1..Len(b)
        BY <3>0
      <3>4. /\ rows[j].indent + 4 = rows[i].indent
            /\ ParentOf(rows[j].product, rows[i].product)
        BY <1>3, <3>0, <3>2, <3>3
      <3>5. \A k \in (j + 1)..(i - 1) : rows[k].indent >= rows[i].indent
        BY <1>3, <3>0, <3>2, <3>3
      <3> QED
        BY <3>4, <3>5
    <2> QED
      BY <2>1, <2>2
  <1> QED
    BY <1>5, <1>6 DEF TreeIsTrue, all, rows

\* What status prints.
LEMMA StatusesOK ==
  ASSUME NEW have, IsFiniteSet(have), NEW activations
  PROVE  LET rows == buildStatuses(have, activations) IN
         /\ IsInjective([i \in DOMAIN rows |-> rows[i].product])
         /\ {rows[i].product : i \in DOMAIN rows} = have
         /\ \A i \in DOMAIN rows : rows[i].status = "Registered" => rows[i].product \in activations
  <1> DEFINE s == SetToSeq(have)
             rows == buildStatuses(have, activations)
  <1>1. s \in Seq(have) /\ ToSet(s) = have /\ IsInjective(s)
    BY SetToSeqOK, SetToSeqOnce
  <1>2. /\ DOMAIN rows = DOMAIN s
        /\ \A i \in DOMAIN s :
              /\ rows[i].product = s[i]
              /\ rows[i].status = "Registered" => s[i] \in activations
    BY DEF buildStatuses
  <1> HIDE DEF s, rows
  <1>3. IsInjective([i \in DOMAIN rows |-> rows[i].product])
    BY <1>1, <1>2 DEF IsInjective
  <1>4. {rows[i].product : i \in DOMAIN rows} = have
    BY <1>1, <1>2 DEF ToSet
  <1> QED
    BY <1>2, <1>3, <1>4 DEF rows

-----------------------------------------------------------------------------
\* A table without its duplicates, row by row.
NextRow(u, x)  == IF x \in ToSet(u) THEN u ELSE Append(u, x)
Tables(t, R)   == [SUBSET DOMAIN t -> Seq(R)]
Folded(f, t)   ==
    f = [s \in SUBSET DOMAIN t |-> IF s = {} THEN <<>> ELSE NextRow(f[s \ {Max(s)}], t[Max(s)])]

\* The fold of uniqueTable, as a function of the sets of row numbers.
LEMMA UniqueIsFolded ==
  ASSUME NEW t
  PROVE  uniqueTable(t) = (CHOOSE f : Folded(f, t))[DOMAIN t]
  BY DEF uniqueTable, FoldLeft, MapThenFoldSet, Folded, NextRow

\* One row more.
LEMMA NextRowOK ==
  ASSUME NEW R, NEW u \in Seq(R), NEW x \in R
  PROVE  /\ NextRow(u, x) \in Seq(R)
         /\ ToSet(NextRow(u, x)) = ToSet(u) \cup {x}
         /\ IsInjective(u) => IsInjective(NextRow(u, x))
  <1>1. CASE x \in ToSet(u)
    BY <1>1 DEF NextRow
  <1>2. CASE x \notin ToSet(u)
    <2> DEFINE v == Append(u, x)
    <2>1. /\ v \in Seq(R) /\ Len(u) \in Nat /\ Len(v) = Len(u) + 1 /\ v[Len(u) + 1] = x
          /\ DOMAIN v = 1..(Len(u) + 1) /\ DOMAIN u = 1..Len(u)
          /\ \A i \in 1..Len(u) : v[i] = u[i]
      OBVIOUS
    <2>2. NextRow(u, x) = v
      BY <1>2 DEF NextRow
    <2> HIDE DEF v
    <2>3. \A i \in 1..(Len(u) + 1) : i \in 1..Len(u) \/ i = Len(u) + 1
      BY <2>1
    <2>4. Len(u) + 1 \in 1..(Len(u) + 1) /\ \A i \in 1..Len(u) : i \in 1..(Len(u) + 1)
      BY <2>1
    <2>5. ToSet(v) = ToSet(u) \cup {x}
      BY <2>1, <2>3, <2>4 DEF ToSet
    <2>6. \A i \in 1..Len(u) : u[i] # x
      BY <1>2, <2>1 DEF ToSet
    <2>7. IsInjective(u) => IsInjective(v)
      <3> SUFFICES ASSUME IsInjective(u), NEW i \in DOMAIN v, NEW j \in DOMAIN v, v[i] = v[j] PROVE i = j
        BY DEF IsInjective
      <3>1. CASE i \in 1..Len(u) /\ j \in 1..Len(u)
        BY <2>1, <3>1 DEF IsInjective
      <3> QED
        BY <2>1, <2>3, <2>6, <3>1
    <2> QED
      BY <2>1, <2>2, <2>5, <2>7
  <1> QED
    BY <1>1, <1>2

\* The fold is defined, by recursion on the greatest number of a set.
LEMMA FoldedExists ==
  ASSUME NEW R, NEW t \in Seq(R)
  PROVE  \E f : Folded(f, t)
  <1> DEFINE n == Len(t)
             D == SUBSET DOMAIN t
             V == Tables(t, R)
             more(f) == [s \in D |-> IF s = {} THEN <<>> ELSE NextRow(f[s \ {Max(s)}], t[Max(s)])]
             H == [f \in V |-> more(f)]
             rank == [s \in D |-> IF s = {} THEN 0 ELSE Max(s)]
             none == [s \in D |-> <<>>]
  <1>1. n \in Nat /\ DOMAIN t = 1..n /\ \A i \in 1..n : t[i] \in R
    OBVIOUS
  <1>2. \A s \in D : s # {} => Max(s) \in s /\ Max(s) \in 1..n /\ s \ {Max(s)} \in D /\ \A y \in s : y <= Max(s)
    BY <1>1, MaxOK
  <1>3. rank \in [D -> 0..n]
    BY <1>1, <1>2
  <1>4. \A s \in D : s # {} => rank[s \ {Max(s)}] < rank[s]
    <2> SUFFICES ASSUME NEW s \in D, s # {} PROVE rank[s \ {Max(s)}] < rank[s]
      OBVIOUS
    <2> DEFINE r == s \ {Max(s)}
    <2>1. r \in D /\ Max(s) \in 1..n /\ rank[s] = Max(s)
      BY <1>2
    <2>2. CASE r = {}
      BY <1>1, <2>1, <2>2
    <2>3. CASE r # {}
      <3>1. Max(r) \in r /\ Max(r) \in 1..n /\ rank[r] = Max(r)
        BY <1>2, <2>1, <2>3
      <3>2. Max(r) \in s /\ Max(r) # Max(s)
        BY <3>1
      <3>3. Max(r) <= Max(s)
        BY <1>2, <3>2
      <3> HIDE DEF r, rank
      <3> QED
        BY <1>1, <2>1, <3>1, <3>2, <3>3 DEF r
    <2> QED
      BY <2>2, <2>3
  <1> HIDE DEF rank
  <1>5. \A f \in V : more(f) \in V
    <2> SUFFICES ASSUME NEW f \in V PROVE more(f) \in V
      OBVIOUS
    <2>1. f \in [D -> Seq(R)]
      BY DEF Tables
    <2>2. ASSUME NEW s \in D PROVE more(f)[s] \in Seq(R)
      <3>1. CASE s = {}
        BY <3>1
      <3>2. CASE s # {}
        <4>1. f[s \ {Max(s)}] \in Seq(R) /\ t[Max(s)] \in R
          BY <1>1, <1>2, <2>1, <3>2
        <4> QED
          BY <3>2, <4>1, NextRowOK
      <3> QED
        BY <3>1, <3>2
    <2> QED
      BY <2>2 DEF Tables
  <1>6. H \in [V -> V] /\ \A f \in V : H[f] = more(f)
    BY <1>5
  <1>7. Functional(V, D, Seq(R))
    BY DEF Functional, Tables
  <1>8. none \in V
    BY DEF Tables
  <1>9. Ranked(rank, D)
    BY <1>1, <1>3 DEF Ranked
  <1>10. OnLower(H, V, D, rank)
    <2> SUFFICES ASSUME NEW f \in V, NEW g \in V, NEW s \in D,
                        \A e \in D : rank[e] < rank[s] => f[e] = g[e]
                 PROVE  H[f][s] = H[g][s]
      BY DEF OnLower
    <2>1. s # {} => f[s \ {Max(s)}] = g[s \ {Max(s)}]
      BY <1>2, <1>4
    <2>2. more(f)[s] = more(g)[s]
      BY <2>1
    <2> HIDE DEF H, more
    <2> QED
      BY <1>6, <2>2
  <1>11. PICK f \in V : f = H[f]
    <2> HIDE DEF H, none, V, D
    <2>1. H \in [V -> V]
      BY <1>6
    <2> QED
      BY ONLY <1>7, <1>8, <1>9, <1>10, <2>1, Recursion
  <1>12. f = more(f)
    BY <1>6, <1>11
  <1> QED
    BY <1>12 DEF Folded

\* The table has the same rows, each once.
LEMMA UniqueTableOK ==
  ASSUME NEW R, NEW t \in Seq(R)
  PROVE  /\ uniqueTable(t) \in Seq(R) /\ ToSet(uniqueTable(t)) = ToSet(t)
         /\ IsInjective(uniqueTable(t))
  <1> DEFINE n == Len(t)
  <1>1. n \in Nat /\ DOMAIN t = 1..n /\ \A i \in 1..n : t[i] \in R
    OBVIOUS
  <1>2. PICK f : f = (CHOOSE g : Folded(g, t))
    OBVIOUS
  <1>3. Folded(f, t) /\ uniqueTable(t) = f[1..n]
    BY <1>1, <1>2, FoldedExists, UniqueIsFolded
  <1>4. f[{}] = <<>>
    BY <1>3 DEF Folded
  <1>5. ASSUME NEW i \in 1..n PROVE f[1..i] = NextRow(f[1..(i - 1)], t[i])
    <2>1. i \in Nat /\ i # 0
      BY <1>1
    <2>2. 1..i \in SUBSET DOMAIN t /\ 1..i # {}
      <3>1. 1..i \subseteq 1..n /\ i \in 1..i
        BY <1>1, <2>1
      <3> QED
        BY <1>1, <3>1
    <2>3. (1..i) \ {i} = 1..(i - 1)
      BY <2>1
    <2>4. Max(1..i) = i
      BY <2>1, MaxUpTo
    <2> QED
      BY <1>3, <2>2, <2>3, <2>4 DEF Folded
  <1> DEFINE Rows(i) == {t[j] : j \in 1..i}
             G == {i \in 0..n : f[1..i] \in Seq(R) /\ ToSet(f[1..i]) = Rows(i) /\ IsInjective(f[1..i])}
  <1>6. 0 \in G
    <2>1. 1..0 = {} /\ Rows(0) = {}
      OBVIOUS
    <2>2. <<>> \in Seq(R) /\ ToSet(<<>>) = {} /\ IsInjective(<<>>)
      BY DEF ToSet, IsInjective
    <2>3. f[1..0] = <<>> /\ 0 \in 0..n
      BY <1>1, <1>4, <2>1
    <2> HIDE DEF Rows
    <2> QED
      BY <2>1, <2>2, <2>3
  <1>7. ASSUME NEW i \in 1..n, i - 1 \in G PROVE i \in G
    <2> DEFINE u == f[1..(i - 1)]
    <2>1. u \in Seq(R) /\ ToSet(u) = Rows(i - 1) /\ IsInjective(u)
      BY <1>7
    <2>2. f[1..i] = NextRow(u, t[i]) /\ t[i] \in R
      BY <1>1, <1>5
    <2> HIDE DEF u
    <2>3. /\ NextRow(u, t[i]) \in Seq(R) /\ ToSet(NextRow(u, t[i])) = ToSet(u) \cup {t[i]}
          /\ IsInjective(NextRow(u, t[i]))
      <3>1. u \in Seq(R) /\ t[i] \in R /\ IsInjective(u)
        BY <2>1, <2>2
      <3> QED
        BY ONLY <3>1, NextRowOK
    <2>4. Rows(i) = Rows(i - 1) \cup {t[i]}
      <3>1. 1..i = (1..(i - 1)) \cup {i}
        OBVIOUS
      <3> QED
        BY <3>1
    <2>5. i \in 0..n
      OBVIOUS
    <2> HIDE DEF Rows
    <2> QED
      BY <2>1, <2>2, <2>3, <2>4, <2>5
  <1>8. n \in G
    <2> HIDE DEF G
    <2> QED
      BY <1>1, <1>6, <1>7, UpTo
  <1>9. ToSet(t) = Rows(n)
    BY <1>1 DEF ToSet
  <1> QED
    BY <1>3, <1>8, <1>9

-----------------------------------------------------------------------------
\* The rows of a search.
Place    == STRING \cup Repos \cup {"Installed"}
FoundRow == [name : STRING, place : Place, command : {"free", "regcode", "none"}]
Offer    == [name : STRING, modules : Seq(STRING)]

Offers(c, q, exact) ==
    IF packageWanted(c.name, q, exact)
    THEN [k \in DOMAIN c.modules |-> ModuleRow(c.name, c.modules[k])]
    ELSE <<>>
OffersOf(c) == {ModuleRow(c.name, m) : m \in ToSet(c.modules)}

LEMMA OffersOK ==
  ASSUME NEW c \in Offer, NEW q, NEW exact
  PROVE  /\ Offers(c, q, exact) \in Seq(FoundRow)
         /\ \A x : x \in ToSet(Offers(c, q, exact)) <=>
                packageWanted(c.name, q, exact) /\ x \in OffersOf(c)
  <1> DEFINE ms == c.modules
             rows == [k \in DOMAIN ms |-> ModuleRow(c.name, ms[k])]
  <1>1. c.name \in STRING /\ ms \in Seq(STRING) /\ DOMAIN ms = 1..Len(ms) /\ Len(ms) \in Nat
    BY DEF Offer
  <1> HIDE DEF ms
  <1>2. \A k \in 1..Len(ms) : ms[k] \in STRING
    BY <1>1
  <1>3. \A k \in 1..Len(ms) : ModuleRow(c.name, ms[k]) \in FoundRow
    BY <1>1, <1>2 DEF ModuleRow, FoundRow, Place
  <1>4. rows \in Seq(FoundRow)
    BY <1>1, <1>3
  <1>5. DOMAIN rows = 1..Len(ms) /\ \A k \in 1..Len(ms) : rows[k] = ModuleRow(c.name, ms[k])
    BY <1>1
  <1> HIDE DEF rows
  <1>6. ToSet(rows) = {ModuleRow(c.name, m) : m \in ToSet(ms)}
    BY <1>1, <1>5 DEF ToSet
  <1>7. <<>> \in Seq(FoundRow) /\ ToSet(<<>>) = {}
    BY ToSetOfOne
  <1>8. Offers(c, q, exact) = IF packageWanted(c.name, q, exact) THEN rows ELSE <<>>
    BY DEF Offers, rows, ms
  <1>9. OffersOf(c) = {ModuleRow(c.name, m) : m \in ToSet(ms)}
    BY DEF OffersOf, ms
  <1> QED
    BY <1>4, <1>6, <1>7, <1>8, <1>9

LEMMA ModulesOK ==
  ASSUME NEW p \in Seq(STRING), NEW exact, NEW unanswered
  PROVE  /\ searchInModules(p, exact, unanswered) \in Seq(FoundRow)
         /\ \A x : x \in ToSet(searchInModules(p, exact, unanswered)) <=>
                \E i \in DOMAIN p \ unanswered : \E c \in ToSet(Catalog) :
                    packageWanted(c.name, p[i], exact) /\ x \in OffersOf(c)
  <1> DEFINE n == Len(Catalog)
             inner(q) == [j \in 1..n |-> Offers(Catalog[j], q, exact)]
             part(i) == IF i \in unanswered THEN <<>> ELSE FlattenSeq(inner(p[i]))
             outer == [i \in 1..Len(p) |-> part(i)]
  <1>0. Catalog \in Seq(Offer)
    BY SearchAssumption DEF Offer
  <1>1. /\ n \in Nat /\ DOMAIN Catalog = 1..n /\ \A j \in 1..n : Catalog[j] \in Offer
        /\ Len(p) \in Nat /\ DOMAIN p = 1..Len(p)
    BY <1>0
  <1>2. ToSet(Catalog) = {Catalog[j] : j \in 1..n}
    BY <1>1 DEF ToSet
  <1>3. searchInModules(p, exact, unanswered) = FlattenSeq(outer)
    BY <1>1 DEF searchInModules, Offers
  <1> HIDE DEF n
  <1>4. ASSUME NEW q
        PROVE  /\ FlattenSeq(inner(q)) \in Seq(FoundRow)
               /\ \A x : x \in ToSet(FlattenSeq(inner(q))) <=>
                    \E c \in ToSet(Catalog) : packageWanted(c.name, q, exact) /\ x \in OffersOf(c)
    <2> DEFINE ss == inner(q)
    <2>1. \A j \in 1..n : ss[j] = Offers(Catalog[j], q, exact)
      OBVIOUS
    <2>2. \A j \in 1..n : Offers(Catalog[j], q, exact) \in Seq(FoundRow)
      BY <1>1, OffersOK
    <2>3. ss \in [1..n -> Seq(FoundRow)]
      BY <2>2
    <2> HIDE DEF ss
    <2>4. /\ FlattenSeq(ss) \in Seq(FoundRow)
          /\ \A x : x \in ToSet(FlattenSeq(ss)) <=> \E j \in 1..n : x \in ToSet(ss[j])
      BY ONLY <1>1, <2>3, FlatElements
    <2>5. \A x : \A j \in 1..n : x \in ToSet(ss[j]) <=>
                packageWanted(Catalog[j].name, q, exact) /\ x \in OffersOf(Catalog[j])
      BY <1>1, <2>1, OffersOK
    <2>6. \A x : x \in ToSet(FlattenSeq(ss)) <=>
                \E c \in ToSet(Catalog) : packageWanted(c.name, q, exact) /\ x \in OffersOf(c)
      BY <1>2, <2>4, <2>5
    <2> QED
      BY <2>4, <2>6 DEF ss
  <1> HIDE DEF inner
  <1>5. \A i \in 1..Len(p) : part(i) \in Seq(FoundRow)
    BY <1>4
  <1>6. \A x : \A i \in 1..Len(p) : x \in ToSet(part(i)) <=>
            i \notin unanswered /\ \E c \in ToSet(Catalog) :
                packageWanted(c.name, p[i], exact) /\ x \in OffersOf(c)
    BY <1>4, ToSetOfOne
  <1> HIDE DEF part
  <1>7. outer \in [1..Len(p) -> Seq(FoundRow)] /\ \A i \in 1..Len(p) : outer[i] = part(i)
    BY <1>5
  <1> HIDE DEF outer
  <1>8. /\ FlattenSeq(outer) \in Seq(FoundRow)
        /\ \A x : x \in ToSet(FlattenSeq(outer)) <=> \E i \in 1..Len(p) : x \in ToSet(outer[i])
    BY ONLY <1>1, <1>7, FlatElements
  <1>9. \A x : x \in ToSet(FlattenSeq(outer)) <=>
            \E i \in DOMAIN p \ unanswered : \E c \in ToSet(Catalog) :
                packageWanted(c.name, p[i], exact) /\ x \in OffersOf(c)
    BY <1>1, <1>6, <1>7, <1>8
  <1> QED
    BY <1>3, <1>8, <1>9

Wants(name, p, exact) == \E i \in DOMAIN p : packageWanted(name, p[i], exact)
LocalOf(r, p, exact)  == {RepoRow(name, r) : name \in {m \in ToSet(Index[r]) : Wants(m, p, exact)}}

LEMMA ReposOK ==
  ASSUME NEW p \in Seq(STRING), NEW exact, NEW unread
  PROVE  /\ searchInRepos(p, exact, unread) \in Seq(FoundRow)
         /\ \A x : x \in ToSet(searchInRepos(p, exact, unread)) <=>
                \E r \in Repos \ unread : x \in LocalOf(r, p, exact)
  <1> DEFINE repos == SetToSeq(Repos \ unread)
             n == Len(repos)
             one(name, r) == IF Wants(name, p, exact) THEN <<RepoRow(name, r)>> ELSE <<>>
             inner(r) == [i \in DOMAIN Index[r] |-> one(Index[r][i], r)]
             outer == [i \in 1..n |-> FlattenSeq(inner(repos[i]))]
  <1>1. IsFiniteSet(Repos \ unread)
    BY SearchAssumption, FS_Subset
  <1>2. repos \in Seq(Repos \ unread) /\ ToSet(repos) = Repos \ unread
    BY <1>1, SetToSeqOK
  <1>3. n \in Nat /\ DOMAIN repos = 1..n /\ \A i \in 1..n : repos[i] \in Repos \ unread
    <2> DEFINE S == Repos \ unread
    <2>1. repos \in Seq(S)
      BY <1>2
    <2> HIDE DEF repos, S
    <2>2. n \in Nat /\ DOMAIN repos = 1..n /\ \A i \in 1..n : repos[i] \in S
      BY <2>1
    <2> QED
      BY <2>2 DEF S
  <1>4. searchInRepos(p, exact, unread) = FlattenSeq(outer)
    BY <1>3 DEF searchInRepos, Wants
  <1> HIDE DEF repos, n
  <1>5. ASSUME NEW r \in Repos
        PROVE  /\ FlattenSeq(inner(r)) \in Seq(FoundRow)
               /\ \A x : x \in ToSet(FlattenSeq(inner(r))) <=> x \in LocalOf(r, p, exact)
    <2> DEFINE ss == inner(r)
               names == Index[r]
               k == Len(names)
    <2>0. names \in Seq(STRING)
      BY SearchAssumption
    <2> HIDE DEF names
    <2>1. /\ names \in Seq(STRING) /\ k \in Nat /\ DOMAIN names = 1..k
          /\ \A i \in 1..k : names[i] \in STRING
      BY <2>0
    <2> HIDE DEF k
    <2>2. ASSUME NEW name \in STRING PROVE RepoRow(name, r) \in FoundRow
      <3>1. (IF r = "@System" THEN "Installed" ELSE r) \in Place
        BY DEF Place
      <3> QED
        BY <3>1 DEF RepoRow, FoundRow
    <2>3. ASSUME NEW name \in STRING
          PROVE  /\ one(name, r) \in Seq(FoundRow)
                 /\ \A x : x \in ToSet(one(name, r)) <=> Wants(name, p, exact) /\ x = RepoRow(name, r)
      <3>1. RepoRow(name, r) \in FoundRow
        BY <2>2
      <3>2. \A x \in FoundRow : <<x>> \in Seq(FoundRow) /\ <<>> \in Seq(FoundRow)
        OBVIOUS
      <3> QED
        BY <3>1, <3>2, ToSetOfOne
    <2>4. ss = [i \in 1..k |-> one(names[i], r)]
      BY <2>1 DEF names
    <2> HIDE DEF ss, one
    <2>5. ss \in [1..k -> Seq(FoundRow)]
      BY <2>1, <2>3, <2>4
    <2>6. /\ FlattenSeq(ss) \in Seq(FoundRow)
          /\ \A x : x \in ToSet(FlattenSeq(ss)) <=> \E i \in 1..k : x \in ToSet(ss[i])
      BY ONLY <2>1, <2>5, FlatElements
    <2>7. \A x : \A i \in 1..k : x \in ToSet(ss[i]) <=>
                Wants(names[i], p, exact) /\ x = RepoRow(names[i], r)
      BY <2>1, <2>3, <2>4
    <2>8. ToSet(names) = {names[i] : i \in 1..k}
      BY <2>1 DEF ToSet
    <2>9. \A x : x \in LocalOf(r, p, exact) <=>
                \E i \in 1..k : Wants(names[i], p, exact) /\ x = RepoRow(names[i], r)
      BY <2>8 DEF LocalOf, names
    <2> QED
      BY <2>6, <2>7, <2>9 DEF ss
  <1> HIDE DEF inner
  <1>6. outer \in [1..n -> Seq(FoundRow)] /\ \A i \in 1..n : outer[i] = FlattenSeq(inner(repos[i]))
    BY <1>3, <1>5
  <1> HIDE DEF outer
  <1>7. /\ FlattenSeq(outer) \in Seq(FoundRow)
        /\ \A x : x \in ToSet(FlattenSeq(outer)) <=> \E i \in 1..n : x \in ToSet(outer[i])
    BY ONLY <1>3, <1>6, FlatElements
  <1>8. \A r : r \in Repos \ unread <=> \E i \in 1..n : repos[i] = r
    BY <1>2, <1>3 DEF ToSet
  <1>9. \A x : x \in ToSet(FlattenSeq(outer)) <=> \E r \in Repos \ unread : x \in LocalOf(r, p, exact)
    BY <1>3, <1>5, <1>6, <1>7, <1>8
  <1> QED
    BY <1>4, <1>7, <1>9

\* The two searches together find what is there, and every row has a place.
LEMMA FoundOK ==
  ASSUME NEW p \in Seq(STRING), NEW exact, NEW unanswered, NEW unread
  PROVE  LET t == searchInModules(p, exact, unanswered) \o searchInRepos(p, exact, unread) IN
         /\ t \in Seq(FoundRow)
         /\ ToSet(t) = FoundRows(p, exact, unanswered, unread)
         /\ \A x \in ToSet(t) : x.place # ""
  <1> DEFINE a == searchInModules(p, exact, unanswered)
             b == searchInRepos(p, exact, unread)
             F == FoundRows(p, exact, unanswered, unread)
  <1>1. /\ a \in Seq(FoundRow)
        /\ \A x : x \in ToSet(a) <=>
                \E i \in DOMAIN p \ unanswered : \E c \in ToSet(Catalog) :
                    packageWanted(c.name, p[i], exact) /\ x \in OffersOf(c)
    BY ModulesOK
  <1>2. /\ b \in Seq(FoundRow)
        /\ \A x : x \in ToSet(b) <=> \E r \in Repos \ unread : x \in LocalOf(r, p, exact)
    BY ReposOK
  <1> HIDE DEF a, b
  <1>3. a \o b \in Seq(FoundRow) /\ ToSet(a \o b) = ToSet(a) \cup ToSet(b)
    BY ONLY <1>1, <1>2, ToSetOfJoin
  <1>4. \A x : x \in F <=>
            \/ \E i \in DOMAIN p \ unanswered : \E c \in ToSet(Catalog) :
                    packageWanted(c.name, p[i], exact) /\ x \in OffersOf(c)
            \/ \E r \in Repos \ unread : x \in LocalOf(r, p, exact)
    <2> DEFINE offered == {c \in ToSet(Catalog) :
                              \E i \in DOMAIN p \ unanswered : packageWanted(c.name, p[i], exact)}
               local(r) == {name \in ToSet(Index[r]) :
                              \E i \in DOMAIN p : packageWanted(name, p[i], exact)}
               A == UNION {{ModuleRow(c.name, m) : m \in ToSet(c.modules)} : c \in offered}
               B == UNION {{RepoRow(name, r) : name \in local(r)} : r \in Repos \ unread}
    <2>1. F = A \cup B
      BY DEF FoundRows
    <2>2. \A x : x \in A <=> \E i \in DOMAIN p \ unanswered : \E c \in ToSet(Catalog) :
                    packageWanted(c.name, p[i], exact) /\ x \in OffersOf(c)
      <3>1. \A c : OffersOf(c) = {ModuleRow(c.name, m) : m \in ToSet(c.modules)}
        BY DEF OffersOf
      <3>2. \A x : x \in A <=> \E c \in offered : x \in OffersOf(c)
        BY <3>1
      <3> QED
        BY <3>2
    <2>3. \A x : x \in B <=> \E r \in Repos \ unread : x \in LocalOf(r, p, exact)
      <3>1. \A r : LocalOf(r, p, exact) = {RepoRow(name, r) : name \in local(r)}
        BY DEF LocalOf, Wants
      <3> HIDE DEF local
      <3> QED
        BY <3>1
    <2> HIDE DEF F, A, B
    <2> QED
      BY <2>1, <2>2, <2>3
  <1>5. ToSet(a \o b) = F
    <2> HIDE DEF F
    <2> QED
      BY <1>1, <1>2, <1>3, <1>4
  <1>6. ASSUME NEW x \in F PROVE x.place # ""
    <2>1. CASE \E c \in ToSet(Catalog) : x \in OffersOf(c)
      <3>1. PICK c \in ToSet(Catalog) : x \in OffersOf(c)
        BY <2>1
      <3>2. "" \notin ToSet(c.modules)
        BY <3>1, SearchAssumption DEF ToSet
      <3>3. PICK m \in ToSet(c.modules) : x = ModuleRow(c.name, m)
        BY <3>1 DEF OffersOf
      <3> QED
        BY <3>2, <3>3 DEF ModuleRow
    <2>2. CASE \E r \in Repos \ unread : x \in LocalOf(r, p, exact)
      <3>1. PICK r \in Repos : x \in LocalOf(r, p, exact)
        BY <2>2
      <3>2. PICK name \in ToSet(Index[r]) : x = RepoRow(name, r)
        BY <3>1 DEF LocalOf
      <3>3. r # ""
        BY SearchAssumption
      <3> QED
        BY <3>2, <3>3 DEF RepoRow
    <2> QED
      BY <1>4, <2>1, <2>2
  <1> QED
    BY <1>3, <1>5, <1>6 DEF a, b

-----------------------------------------------------------------------------
\* A place is printed once.
Apart(s) == \A i, j \in 1..Len(s) : s[i].place = s[j].place => i = j \/ s[i].place = ""
ApartFrom(s, t) == \A x \in ToSet(s), y \in ToSet(t) : x.place = y.place => x.place = ""

LEMMA JoinApart ==
  ASSUME NEW S, NEW s \in Seq(S), NEW t \in Seq(S), Apart(s), Apart(t), ApartFrom(s, t)
  PROVE  Apart(s \o t)
  <1> DEFINE u == s \o t
  <1>0. s \in Seq(S) /\ t \in Seq(S)
    OBVIOUS
  <1>1. /\ Len(s) \in Nat /\ Len(t) \in Nat /\ Len(u) = Len(s) + Len(t)
        /\ \A i \in 1..Len(s) : u[i] = s[i]
        /\ \A i \in 1..Len(u) : i \in 1..Len(s) \/ (i - Len(s) \in 1..Len(t) /\ u[i] = t[i - Len(s)])
    BY ONLY <1>0, JoinParts
  <1>2. DOMAIN s = 1..Len(s) /\ DOMAIN t = 1..Len(t)
    OBVIOUS
  <1> HIDE DEF u
  <1>3. SUFFICES ASSUME NEW i \in 1..Len(u), NEW j \in 1..Len(u),
                        u[i].place = u[j].place, u[i].place # ""
                 PROVE  i = j
    BY DEF Apart, u
  <1>4. CASE i \in 1..Len(s) /\ j \in 1..Len(s)
    BY <1>1, <1>3, <1>4 DEF Apart
  <1>5. CASE i \notin 1..Len(s) /\ j \notin 1..Len(s)
    <2> DEFINE k == i - Len(s)
               l == j - Len(s)
    <2>1. k \in 1..Len(t) /\ l \in 1..Len(t) /\ u[i] = t[k] /\ u[j] = t[l]
      BY <1>1, <1>5
    <2> HIDE DEF k, l
    <2>2. k = l
      BY <1>3, <2>1 DEF Apart
    <2> QED
      BY <1>1, <2>2 DEF k, l
  <1>6. CASE i \in 1..Len(s) /\ j \notin 1..Len(s)
    <2>1. u[i] \in ToSet(s)
      BY <1>1, <1>2, <1>6 DEF ToSet
    <2>2. u[j] \in ToSet(t)
      BY <1>1, <1>2, <1>6 DEF ToSet
    <2> QED
      BY <1>3, <2>1, <2>2 DEF ApartFrom
  <1>7. CASE i \notin 1..Len(s) /\ j \in 1..Len(s)
    <2>1. u[j] \in ToSet(s)
      BY <1>1, <1>2, <1>7 DEF ToSet
    <2>2. u[i] \in ToSet(t)
      BY <1>1, <1>2, <1>7 DEF ToSet
    <2> QED
      BY <1>3, <2>1, <2>2 DEF ApartFrom
  <1> QED
    BY <1>4, <1>5, <1>6, <1>7

AllApart(ss) ==
    /\ \A i \in 1..Len(ss) : Apart(ss[i])
    /\ \A i, j \in 1..Len(ss) : i < j => ApartFrom(ss[i], ss[j])

LEMMA FlattenApart ==
  ASSUME NEW S, NEW ss \in Seq(Seq(S)), AllApart(ss)
  PROVE  Apart(FlattenSeq(ss))
  <1>0. Len(ss) \in Nat /\ Len(ss) \in 0..Len(ss) /\ \A i \in 1..Len(ss) : ss[i] \in Seq(S)
    OBVIOUS
  <1>1. PICK f \in [0..Len(ss) -> Seq(S)] :
            /\ f[0] = <<>> /\ f[Len(ss)] = FlattenSeq(ss)
            /\ \A i \in 1..Len(ss) : f[i] = f[i - 1] \o ss[i]
    BY FlattenSteps
  <1> DEFINE All(i) == UNION {ToSet(ss[j]) : j \in 1..i}
             G == {i \in 0..Len(ss) : ToSet(f[i]) = All(i) /\ Apart(f[i])}
  <1>2. 0 \in G
    <2>1. All(0) = {}
      OBVIOUS
    <2>2. ToSet(f[0]) = {} /\ Apart(f[0]) /\ 0 \in 0..Len(ss)
      BY <1>0, <1>1, ToSetOfOne DEF Apart
    <2> HIDE DEF All
    <2> QED
      BY <2>1, <2>2
  <1>3. ASSUME NEW i \in 1..Len(ss), i - 1 \in G PROVE i \in G
    <2> DEFINE s == f[i - 1]
               t == ss[i]
    <2>0. i - 1 \in 0..Len(ss) /\ i \in 0..Len(ss)
      BY <1>0
    <2>1. /\ f[i] = s \o t /\ ToSet(s) = All(i - 1) /\ Apart(s) /\ Apart(t) /\ i \in 0..Len(ss)
      BY <1>1, <1>3, <2>0 DEF AllApart
    <2>2. s \in Seq(S) /\ t \in Seq(S)
      BY <1>0, <1>1, <2>0
    <2>3. All(i) = All(i - 1) \cup ToSet(t)
      <3>1. 1..i = (1..(i - 1)) \cup {i}
        OBVIOUS
      <3> QED
        BY <3>1
    <2>4. ASSUME NEW x \in All(i - 1), NEW y \in ToSet(t), x.place = y.place PROVE x.place = ""
      <3>1. PICK j \in 1..(i - 1) : x \in ToSet(ss[j])
        OBVIOUS
      <3>2. j \in 1..Len(ss) /\ j < i
        BY <1>0
      <3> QED
        BY <2>4, <3>1, <3>2 DEF AllApart, ApartFrom
    <2> HIDE DEF s, t, All
    <2>5. ApartFrom(s, t)
      BY <2>1, <2>4 DEF ApartFrom
    <2>6. Apart(s \o t)
      BY <2>1, <2>2, <2>5, JoinApart
    <2>7. ToSet(s \o t) = ToSet(s) \cup ToSet(t)
      BY ONLY <2>2, ToSetOfJoin
    <2> QED
      BY <2>1, <2>3, <2>6, <2>7
  <1>4. Len(ss) \in G
    <2> HIDE DEF G
    <2> QED
      BY <1>0, <1>2, <1>3, UpTo
  <1> QED
    BY <1>1, <1>4

\* The rows of one place, and of all.
GroupRow == [place : Place \cup {""}, name : STRING]
First(t, i) == \A j \in 1..(i - 1) : t[j].place # t[i].place
Cell(t, i)  == [place |-> IF First(t, i) THEN t[i].place ELSE "", name |-> t[i].name]
Cells(t, m) == [i \in 1..Len(t) |-> IF t[i].place = m THEN <<Cell(t, i)>> ELSE <<>>]
Group(t, m) == FlattenSeq(Cells(t, m))
With(t, m)  == {i \in 1..Len(t) : t[i].place = m}
PlacesOf(t) == {t[i].place : i \in 1..Len(t)}

LEMMA RowsAre ==
  ASSUME NEW t \in Seq(FoundRow)
  PROVE  /\ Len(t) \in Nat /\ DOMAIN t = 1..Len(t)
         /\ \A i \in 1..Len(t) : t[i] \in FoundRow /\ t[i].place \in Place /\ t[i].name \in STRING
         /\ \A i \in 1..Len(t) : Cell(t, i) \in GroupRow
  <1>1. Len(t) \in Nat /\ DOMAIN t = 1..Len(t) /\ \A i \in 1..Len(t) : t[i] \in FoundRow
    OBVIOUS
  <1>2. \A i \in 1..Len(t) : t[i].place \in Place /\ t[i].name \in STRING
    BY <1>1 DEF FoundRow
  <1>3. \A i \in 1..Len(t) : Cell(t, i) \in GroupRow
    BY <1>2 DEF Cell, GroupRow
  <1> QED
    BY <1>1, <1>2, <1>3

\* A group in the terms of its rows.
LEMMA GroupIs ==
  ASSUME NEW t \in Seq(FoundRow)
  PROVE  LET places == SetToSeq(PlacesOf(t)) IN
         groupByModule(t) = FlattenSeq([i \in DOMAIN places |-> Group(t, places[i])])
  <1>1. DOMAIN t = 1..Len(t)
    OBVIOUS
  <1> QED
    BY <1>1 DEF groupByModule, Group, Cells, Cell, First, PlacesOf

LEMMA CellsOK ==
  ASSUME NEW t \in Seq(FoundRow), NEW m
  PROVE  /\ Cells(t, m) \in [1..Len(t) -> Seq(GroupRow)] /\ Len(t) \in Nat
         /\ \A i \in 1..Len(t) :
              /\ t[i].place = m => Cells(t, m)[i] = <<Cell(t, i)>> /\ ToSet(Cells(t, m)[i]) = {Cell(t, i)}
              /\ t[i].place # m => Cells(t, m)[i] = <<>> /\ ToSet(Cells(t, m)[i]) = {}
  <1>1. Len(t) \in Nat /\ \A i \in 1..Len(t) : Cell(t, i) \in GroupRow
    BY RowsAre
  <1>2. \A x \in GroupRow : <<x>> \in Seq(GroupRow) /\ <<>> \in Seq(GroupRow)
    OBVIOUS
  <1>3. \A i \in 1..Len(t) : (IF t[i].place = m THEN <<Cell(t, i)>> ELSE <<>>) \in Seq(GroupRow)
    BY <1>1, <1>2
  <1>4. Cells(t, m) \in [1..Len(t) -> Seq(GroupRow)]
    BY <1>3 DEF Cells
  <1>5. \A i \in 1..Len(t) : Cells(t, m)[i] = IF t[i].place = m THEN <<Cell(t, i)>> ELSE <<>>
    BY DEF Cells
  <1> QED
    BY <1>1, <1>4, <1>5, ToSetOfOne

LEMMA GroupOK ==
  ASSUME NEW t \in Seq(FoundRow), NEW m
  PROVE  /\ Group(t, m) \in Seq(GroupRow)
         /\ \A x : x \in ToSet(Group(t, m)) <=> \E i \in With(t, m) : x = Cell(t, i)
         /\ IsFiniteSet(With(t, m)) /\ Len(Group(t, m)) = Cardinality(With(t, m))
         /\ Apart(Group(t, m))
  <1> DEFINE ss == Cells(t, m)
             n == Len(t)
             C == [i \in 1..n |-> IF t[i].place = m THEN {i} ELSE {}]
  <1>1. /\ n \in Nat /\ ss \in [1..n -> Seq(GroupRow)]
        /\ \A i \in 1..n :
              /\ t[i].place = m => ss[i] = <<Cell(t, i)>> /\ ToSet(ss[i]) = {Cell(t, i)}
              /\ t[i].place # m => ss[i] = <<>> /\ ToSet(ss[i]) = {}
    BY CellsOK
  <1> HIDE DEF ss
  <1>2. /\ ss \in Seq(Seq(GroupRow)) /\ Len(ss) = n /\ FlattenSeq(ss) \in Seq(GroupRow)
        /\ \A x : x \in ToSet(FlattenSeq(ss)) <=> \E i \in 1..n : x \in ToSet(ss[i])
    BY ONLY <1>1, FlatElements
  <1>3. Group(t, m) = FlattenSeq(ss)
    BY DEF Group, ss
  <1>4. \A x : x \in ToSet(FlattenSeq(ss)) <=> \E i \in With(t, m) : x = Cell(t, i)
    <2>1. \A x : \A i \in 1..n : x \in ToSet(ss[i]) <=> t[i].place = m /\ x = Cell(t, i)
      BY <1>1
    <2>2. \A i : i \in With(t, m) <=> i \in 1..n /\ t[i].place = m
      BY DEF With
    <2> QED
      BY <1>2, <2>1, <2>2
  <1>5. Len(FlattenSeq(ss)) = Cardinality(With(t, m))
    <2>1. ASSUME NEW i \in 1..n PROVE IsFiniteSet(C[i]) /\ Len(ss[i]) = Cardinality(C[i])
      <3>1. CASE t[i].place = m
        <4>1. C[i] = {i} /\ ss[i] = <<Cell(t, i)>>
          BY <1>1, <3>1
        <4>2. Len(<<Cell(t, i)>>) = 1
          OBVIOUS
        <4> HIDE DEF C
        <4> QED
          BY <4>1, <4>2, FS_Singleton
      <3>2. CASE t[i].place # m
        <4>1. C[i] = {} /\ ss[i] = <<>> /\ Len(<<>>) = 0
          BY <1>1, <3>2
        <4> HIDE DEF C
        <4> QED
          BY <4>1, FS_EmptySet
      <3> QED
        BY <3>1, <3>2
    <2>2. \A i, j \in 1..n : i # j => C[i] \cap C[j] = {}
      OBVIOUS
    <2>3. UNION {C[i] : i \in 1..n} = With(t, m)
      BY DEF With
    <2> HIDE DEF C
    <2>4. Counts(C, ss)
      BY <1>2, <2>1, <2>2 DEF Counts
    <2>5. ss \in Seq(Seq(GroupRow))
      BY <1>2
    <2>6. Len(FlattenSeq(ss)) = Cardinality(UNION {C[i] : i \in 1..Len(ss)})
      BY ONLY <2>4, <2>5, FlattenCount
    <2> QED
      BY <1>2, <2>3, <2>6
  <1>6. Apart(FlattenSeq(ss))
    <2>1. ASSUME NEW i \in 1..n PROVE Apart(ss[i])
      <3>1. CASE t[i].place = m
        <4>1. ss[i] = <<Cell(t, i)>> /\ Len(<<Cell(t, i)>>) = 1
          BY <1>1, <3>1
        <4>2. \A k, l \in 1..Len(ss[i]) : k = l
          BY <4>1
        <4> QED
          BY <4>2 DEF Apart
      <3>2. CASE t[i].place # m
        <4>1. ss[i] = <<>> /\ Len(<<>>) = 0
          BY <1>1, <3>2
        <4>2. 1..Len(ss[i]) = {}
          BY <4>1
        <4> QED
          BY <4>2 DEF Apart
      <3> QED
        BY <3>1, <3>2
    <2>2. ASSUME NEW i \in 1..n, NEW j \in 1..n, i < j PROVE ApartFrom(ss[i], ss[j])
      <3> SUFFICES ASSUME NEW x \in ToSet(ss[i]), NEW y \in ToSet(ss[j]), x.place = y.place
                   PROVE  x.place = ""
        BY DEF ApartFrom
      <3>1. t[i].place = m /\ t[j].place = m /\ y = Cell(t, j)
        BY <1>1
      <3>2. i \in 1..(j - 1)
        BY <2>2, <1>1
      <3>3. ~First(t, j)
        BY <3>1, <3>2 DEF First
      <3> QED
        BY <3>1, <3>3 DEF Cell
    <2>3. AllApart(ss) /\ ss \in Seq(Seq(GroupRow))
      BY <1>2, <2>1, <2>2 DEF AllApart
    <2> QED
      BY ONLY <2>3, FlattenApart
  <1>7. IsFiniteSet(With(t, m))
    <2>1. IsFiniteSet(1..n) /\ With(t, m) \in SUBSET (1..n)
      BY <1>1, FS_Interval DEF With
    <2> QED
      BY <2>1, FS_Subset
  <1> QED
    BY <1>2, <1>3, <1>4, <1>5, <1>6, <1>7

\* Each place has a first row.
LEMMA FirstExists ==
  ASSUME NEW t \in Seq(FoundRow), NEW i \in 1..Len(t)
  PROVE  \E j \in 1..Len(t) : t[j].place = t[i].place /\ First(t, j)
  <1> DEFINE T == With(t, t[i].place)
  <1>1. T \in SUBSET Nat /\ T # {} /\ Len(t) \in Nat
    BY DEF With
  <1> HIDE DEF T
  <1>2. PICK j \in T : \A k \in T : j <= k
    BY <1>1, LeastNat
  <1>3. j \in 1..Len(t) /\ t[j].place = t[i].place
    BY <1>2 DEF T, With
  <1>4. \A k \in 1..(j - 1) : t[k].place # t[j].place
    <2> SUFFICES ASSUME NEW k \in 1..(j - 1), t[k].place = t[j].place PROVE FALSE
      OBVIOUS
    <2>1. k \in 1..Len(t) /\ ~(j <= k)
      BY <1>1, <1>3
    <2>2. k \in T
      BY <1>3, <2>1 DEF T, With
    <2> QED
      BY <1>2, <2>1, <2>2
  <1> QED
    BY <1>3, <1>4 DEF First

\* Every row of the table is in one group, once: as many rows as before.
LEMMA GroupsOK ==
  ASSUME NEW t \in Seq(FoundRow), \A i \in 1..Len(t) : t[i].place # ""
  PROVE  LET rows == groupByModule(t) IN
         /\ rows \in Seq(GroupRow) /\ Len(rows) = Len(t)
         /\ ToSet(rows) = {Cell(t, i) : i \in 1..Len(t)}
         /\ Apart(rows)
  <1> DEFINE n == Len(t)
             P == PlacesOf(t)
             places == SetToSeq(P)
             k == Len(places)
             ss == [i \in DOMAIN places |-> Group(t, places[i])]
             C == [i \in 1..k |-> With(t, places[i])]
  <1>1. /\ n \in Nat /\ DOMAIN t = 1..n
        /\ \A i \in 1..n : t[i] \in FoundRow /\ t[i].place \in Place
    BY RowsAre
  <1>2. IsFiniteSet(P)
    <2> DEFINE f == [i \in 1..n |-> t[i].place]
    <2>1. P = {f[i] : i \in 1..n} /\ DOMAIN f = 1..n
      BY DEF PlacesOf
    <2> HIDE DEF P, f
    <2>2. IsFiniteSet({f[i] : i \in 1..n})
      BY ONLY <1>1, <2>1, ValuesFinite
    <2> QED
      BY <2>1, <2>2
  <1>3. places \in Seq(P) /\ ToSet(places) = P /\ IsInjective(places)
    BY <1>2, SetToSeqOK, SetToSeqOnce
  <1> HIDE DEF places, P
  <1>4. /\ k \in Nat /\ DOMAIN places = 1..k /\ \A i \in 1..k : places[i] \in P
        /\ \A m \in P : \E i \in 1..k : places[i] = m
        /\ \A i, j \in 1..k : places[i] = places[j] => i = j
    <2>1. k \in Nat /\ DOMAIN places = 1..k /\ \A i \in 1..k : places[i] \in P
      <3>1. places \in Seq(P)
        BY <1>3
      <3> QED
        BY ONLY <3>1
    <2> QED
      BY <1>3, <2>1 DEF ToSet, IsInjective
  <1>5. groupByModule(t) = FlattenSeq(ss)
    BY GroupIs DEF P, places
  <1> HIDE DEF k, n
  <1>6. \A i \in 1..k : ss[i] = Group(t, places[i])
    BY <1>4
  <1>7. ss \in [1..k -> Seq(GroupRow)]
    BY <1>4, GroupOK
  <1> HIDE DEF ss
  <1>8. /\ ss \in Seq(Seq(GroupRow)) /\ Len(ss) = k /\ FlattenSeq(ss) \in Seq(GroupRow)
        /\ \A x : x \in ToSet(FlattenSeq(ss)) <=> \E i \in 1..k : x \in ToSet(ss[i])
    BY ONLY <1>4, <1>7, FlatElements
  <1>9. \A i \in 1..n : \E l \in 1..k : i \in With(t, places[l])
    <2> SUFFICES ASSUME NEW i \in 1..n PROVE \E l \in 1..k : i \in With(t, places[l])
      OBVIOUS
    <2>1. t[i].place \in P
      BY DEF P, PlacesOf, n
    <2>2. PICK l \in 1..k : places[l] = t[i].place
      BY <1>4, <2>1
    <2> QED
      BY <2>2 DEF With, n
  <1>10. \A l \in 1..k : With(t, places[l]) \subseteq 1..n
    BY DEF With, n
  <1>11. ToSet(FlattenSeq(ss)) = {Cell(t, i) : i \in 1..n}
    <2>1. \A l \in 1..k : \A x : x \in ToSet(ss[l]) <=> \E i \in With(t, places[l]) : x = Cell(t, i)
      <3> SUFFICES ASSUME NEW l \in 1..k
                   PROVE  \A x : x \in ToSet(Group(t, places[l])) <=> \E i \in With(t, places[l]) : x = Cell(t, i)
        BY <1>6
      <3> QED
        BY GroupOK
    <2>2. ASSUME NEW x \in ToSet(FlattenSeq(ss)) PROVE \E i \in 1..n : x = Cell(t, i)
      <3>1. PICK l \in 1..k : x \in ToSet(ss[l])
        BY <1>8
      <3>2. PICK i \in With(t, places[l]) : x = Cell(t, i)
        BY <2>1, <3>1
      <3>3. i \in 1..n
        BY <1>10
      <3> QED
        BY <3>2, <3>3
    <2>3. ASSUME NEW i \in 1..n PROVE Cell(t, i) \in ToSet(FlattenSeq(ss))
      <3>1. PICK l \in 1..k : i \in With(t, places[l])
        BY <1>9
      <3>2. Cell(t, i) \in ToSet(ss[l])
        BY <2>1, <3>1
      <3> QED
        BY <1>8, <3>2
    <2> QED
      BY <2>2, <2>3
  <1>12. Len(FlattenSeq(ss)) = n
    <2>1. \A i \in 1..k : C[i] = With(t, places[i])
      OBVIOUS
    <2>2. UNION {C[i] : i \in 1..k} = 1..n
      BY <1>9, <1>10, <2>1
    <2> HIDE DEF C
    <2>3. \A i \in 1..k : IsFiniteSet(C[i]) /\ Len(ss[i]) = Cardinality(C[i])
      BY <1>6, <2>1, GroupOK
    <2>4. \A i, j \in 1..k : i # j => C[i] \cap C[j] = {}
      <3> SUFFICES ASSUME NEW i \in 1..k, NEW j \in 1..k, i # j PROVE C[i] \cap C[j] = {}
        OBVIOUS
      <3>1. places[i] # places[j]
        BY <1>4
      <3> QED
        BY <2>1, <3>1 DEF With
    <2>5. Counts(C, ss) /\ ss \in Seq(Seq(GroupRow))
      BY <1>8, <2>3, <2>4 DEF Counts
    <2>6. Len(FlattenSeq(ss)) = Cardinality(UNION {C[i] : i \in 1..Len(ss)})
      BY ONLY <2>5, FlattenCount
    <2>7. Cardinality(1..n) = n
      <3>1. n \in Nat
        BY <1>1
      <3>2. Cardinality(1..n) = IF 1 > n THEN 0 ELSE n - 1 + 1
        BY ONLY <3>1, FS_Interval
      <3> QED
        BY ONLY <3>1, <3>2
    <2> QED
      BY <1>8, <2>2, <2>6, <2>7
  <1>13. Apart(FlattenSeq(ss))
    <2>1. \A i \in 1..k : Apart(ss[i])
      BY <1>6, GroupOK
    <2>2. ASSUME NEW i \in 1..k, NEW j \in 1..k, i < j PROVE ApartFrom(ss[i], ss[j])
      <3>1. \A l \in 1..k : \A x \in ToSet(ss[l]) : x.place \in {"", places[l]}
        <4> SUFFICES ASSUME NEW l \in 1..k, NEW x \in ToSet(ss[l]) PROVE x.place \in {"", places[l]}
          OBVIOUS
        <4>1. PICK h \in With(t, places[l]) : x = Cell(t, h)
          <5>1. x \in ToSet(Group(t, places[l]))
            BY <1>6
          <5> HIDE DEF C
          <5>2. t \in Seq(FoundRow)
            OBVIOUS
          <5> QED
            BY ONLY <5>1, <5>2, GroupOK
        <4> QED
          BY <4>1 DEF Cell, With
      <3>2. places[i] # places[j]
        <4>0. i \in 1..k /\ j \in 1..k /\ i < j /\ k \in Nat
          BY <1>4, <2>2
        <4>1. i # j
          BY ONLY <4>0
        <4> QED
          BY <1>4, <4>1
      <3> QED
        BY <3>1, <3>2 DEF ApartFrom
    <2>3. AllApart(ss) /\ ss \in Seq(Seq(GroupRow))
      BY <1>8, <2>1, <2>2 DEF AllApart
    <2> QED
      BY ONLY <2>3, FlattenApart
  <1> QED
    BY <1>5, <1>8, <1>11, <1>12, <1>13 DEF n

\* The names and the places of a sequence are those of its elements.
LEMMA FieldsOf ==
  ASSUME NEW f, NEW S, S = {f[i] : i \in DOMAIN f}
  PROVE  /\ {f[i].name : i \in DOMAIN f} = {x.name : x \in S}
         /\ {f[i].place : i \in DOMAIN f} = {x.place : x \in S}
  OBVIOUS

\* A grouped table names what the table names.
LEMMA GroupsName ==
  ASSUME NEW t \in Seq(FoundRow), \A i \in 1..Len(t) : t[i].place # ""
  PROVE  LET rows == groupByModule(t) IN
         /\ {rows[i].name : i \in DOMAIN rows} = {x.name : x \in ToSet(t)}
         /\ {rows[i].place : i \in DOMAIN rows} \ {""} = {x.place : x \in ToSet(t)}
         /\ \A i, j \in DOMAIN rows : rows[i].place = rows[j].place => i = j \/ rows[i].place = ""
  <1> DEFINE rows == groupByModule(t)
             n == Len(t)
             cells == {Cell(t, i) : i \in 1..n}
  <1>1. rows \in Seq(GroupRow) /\ ToSet(rows) = cells /\ Apart(rows)
    BY GroupsOK
  <1> HIDE DEF rows
  <1>2. DOMAIN rows = 1..Len(rows)
    <2>1. rows \in Seq(GroupRow)
      BY <1>1
    <2> QED
      BY ONLY <2>1
  <1>3. DOMAIN t = 1..n /\ ToSet(t) = {t[i] : i \in 1..n}
    BY RowsAre DEF ToSet
  <1>4. ToSet(rows) = {rows[i] : i \in DOMAIN rows}
    BY DEF ToSet
  <1>5. {rows[i].name : i \in DOMAIN rows} = {x.name : x \in cells}
    <2> HIDE DEF cells
    <2>1. {rows[i].name : i \in DOMAIN rows} = {x.name : x \in ToSet(rows)}
      BY ONLY <1>4, FieldsOf
    <2> QED
      BY <1>1, <2>1
  <1>6. {rows[i].place : i \in DOMAIN rows} = {x.place : x \in cells}
    <2> HIDE DEF cells
    <2>1. {rows[i].place : i \in DOMAIN rows} = {x.place : x \in ToSet(rows)}
      BY ONLY <1>4, FieldsOf
    <2> QED
      BY <1>1, <2>1
  <1>7. {x.name : x \in cells} = {x.name : x \in ToSet(t)}
    <2>1. \A i \in 1..n : Cell(t, i).name = t[i].name
      BY DEF Cell
    <2>2. {x.name : x \in cells} = {Cell(t, i).name : i \in 1..n}
      OBVIOUS
    <2>3. {x.name : x \in ToSet(t)} = {t[i].name : i \in 1..n}
      BY <1>3
    <2> HIDE DEF n, cells
    <2> QED
      BY <2>1, <2>2, <2>3
  <1>8. {x.place : x \in cells} \ {""} = {x.place : x \in ToSet(t)}
    <2>1. ASSUME NEW i \in 1..n, Cell(t, i).place # "" PROVE Cell(t, i).place = t[i].place
      BY <2>1 DEF Cell
    <2>2. ASSUME NEW i \in 1..n PROVE \E j \in 1..n : Cell(t, j).place = t[i].place
      <3>1. PICK j \in 1..n : t[j].place = t[i].place /\ First(t, j)
        BY FirstExists
      <3> QED
        BY <3>1 DEF Cell
    <2>3. \A i \in 1..n : t[i].place # ""
      OBVIOUS
    <2>4. {x.place : x \in cells} = {Cell(t, i).place : i \in 1..n}
      OBVIOUS
    <2>5. {x.place : x \in ToSet(t)} = {t[i].place : i \in 1..n}
      BY <1>3
    <2> HIDE DEF n, cells
    <2>6. ASSUME NEW y \in {Cell(t, i).place : i \in 1..n}, y # "" PROVE y \in {t[i].place : i \in 1..n}
      BY <2>1, <2>6
    <2>7. ASSUME NEW y \in {t[i].place : i \in 1..n}
          PROVE  y \in {Cell(t, i).place : i \in 1..n} /\ y # ""
      <3>1. PICK i \in 1..n : y = t[i].place
        OBVIOUS
      <3>2. PICK j \in 1..n : Cell(t, j).place = t[i].place
        BY <2>2
      <3> QED
        BY <2>3, <3>1, <3>2
    <2> QED
      BY <2>4, <2>5, <2>6, <2>7
  <1>9. \A i, j \in DOMAIN rows : rows[i].place = rows[j].place => i = j \/ rows[i].place = ""
    BY <1>1, <1>2 DEF Apart
  <1> QED
    BY <1>5, <1>6, <1>7, <1>8, <1>9 DEF rows

-----------------------------------------------------------------------------
\* What a command that prints has still to do is to save.
Printing == {"status", "list"}
Saving   == {"truncate", "write"}
OnlySaves(t) == \A i \in 1..Len(t) : t[i].op \in Saving
Quiet(t)     == \A i \in 1..Len(t) : t[i].op \notin Printing
PrintsFirst(t) ==
    \A i \in 1..Len(t) : t[i].op \in Printing => i = 1 /\ \A j \in 2..Len(t) : t[j].op \in Saving

\* What was printed is what the commands and searches print, and is still true.
Printed == {"status", "tree"}
SearchOf(p, exact, grouped, unanswered, unread) ==
    LET rows == uniqueTable(searchInModules(p, exact, unanswered) \o searchInRepos(p, exact, unread))
    IN  [kind |-> IF grouped THEN "groups" ELSE "packages",
         rows |-> IF grouped THEN groupByModule(rows) ELSE rows,
         of |-> [patterns |-> p, exact |-> exact, unanswered |-> unanswered, unread |-> unread]]
Searched(s) ==
    \E p \in Patterns, exact \in BOOLEAN, grouped \in BOOLEAN :
        \E unanswered \in SUBSET DOMAIN p, unread \in SUBSET Repos :
            s = SearchOf(p, exact, grouped, unanswered, unread)
StatusShown == shown.rows = buildStatuses(installed, Activations) /\ (Registered => Valid)
TreeShown   == Valid /\ \E writable \in BOOLEAN : shown.rows = RenderExtensionTree(act[creds], writable)
ListingInv ==
    /\ PrintsFirst(todo)
    /\ shown.kind \in Printed => OnlySaves(todo)
    /\ shown.kind = "status" => StatusShown
    /\ shown.kind = "tree" => TreeShown
    /\ shown.kind \in {"packages", "groups"} => Searched(shown)

\* The list of steps of every command.
LEMMA QuietDo ==
  /\ \A op, x : op \notin Printing => Quiet(Do(op, x))
  /\ \A op : op \notin Printing => Quiet(Just(op))
  /\ Quiet(<<>>) /\ OnlySaves(<<>>) /\ PrintsFirst(<<>>)
  BY DEF Quiet, OnlySaves, PrintsFirst, Do, Just

LEMMA QuietJoin ==
  ASSUME NEW s \in Seq(StepSet), NEW t \in Seq(StepSet)
  PROVE  /\ Quiet(s) /\ Quiet(t) => Quiet(s \o t)
         /\ OnlySaves(s) /\ OnlySaves(t) => OnlySaves(s \o t)
  <1>1. /\ Len(s) \in Nat /\ Len(t) \in Nat /\ Len(s \o t) = Len(s) + Len(t)
        /\ \A i \in 1..Len(s) : (s \o t)[i] = s[i]
        /\ \A i \in 1..Len(t) : (s \o t)[Len(s) + i] = t[i]
    OBVIOUS
  <1>2. \A i \in 1..Len(s \o t) :
            \/ i \in 1..Len(s) /\ (s \o t)[i] = s[i]
            \/ i - Len(s) \in 1..Len(t) /\ (s \o t)[i] = t[i - Len(s)]
    <2> SUFFICES ASSUME NEW i \in 1..Len(s \o t), i \notin 1..Len(s)
                 PROVE  i - Len(s) \in 1..Len(t) /\ (s \o t)[i] = t[i - Len(s)]
      BY <1>1
    <2>1. i - Len(s) \in 1..Len(t) /\ Len(s) + (i - Len(s)) = i
      BY <1>1
    <2> QED
      BY <1>1, <2>1
  <1> QED
    BY <1>2 DEF Quiet, OnlySaves

LEMMA SavesQuiet == \A t : OnlySaves(t) => Quiet(t)
  BY DEF OnlySaves, Quiet, Saving, Printing

LEMMA SaveOnlySaves == ASSUME NEW c PROVE Save(c) \in Seq(StepSet) /\ OnlySaves(Save(c))
  <1>1. /\ Just("truncate") \in Seq(StepSet) /\ Just("write") \in Seq(StepSet)
        /\ <<>> \in Seq(StepSet) /\ OnlySaves(<<>>)
    BY DoOK, QuietDo
  <1>2. OnlySaves(Just("truncate")) /\ OnlySaves(Just("write"))
    BY DEF OnlySaves, Saving, Just, Do
  <1>3. /\ Just("truncate") \o Just("write") \in Seq(StepSet)
        /\ OnlySaves(Just("truncate") \o Just("write"))
    BY <1>1, <1>2, JoinOK, QuietJoin
  <1> QED
    BY <1>1, <1>3 DEF Save

LEMMA QuietFirst == \A t : Quiet(t) => PrintsFirst(t)
  BY DEF Quiet, PrintsFirst

LEMMA PrintThenSave ==
  ASSUME NEW s \in Seq(StepSet), Len(s) = 1, NEW t \in Seq(StepSet), OnlySaves(t)
  PROVE  PrintsFirst(s \o t)
  <1> DEFINE u == s \o t
  <1>1. /\ Len(t) \in Nat /\ Len(u) = Len(s) + Len(t)
        /\ \A i \in 1..Len(t) : u[Len(s) + i] = t[i]
    <2>1. s \in Seq(StepSet) /\ t \in Seq(StepSet)
      OBVIOUS
    <2>2. /\ Len(t) \in Nat /\ Len(s \o t) = Len(s) + Len(t)
          /\ \A i \in 1..Len(t) : (s \o t)[Len(s) + i] = t[i]
      BY ONLY <2>1, JoinParts
    <2> QED
      BY <2>2
  <1>2. /\ Len(t) \in Nat /\ Len(u) = 1 + Len(t)
        /\ \A i \in 1..Len(t) : u[1 + i] = t[i]
    <2> HIDE DEF u
    <2> QED
      BY <1>1
  <1> HIDE DEF u
  <1>3. ASSUME NEW j \in 2..Len(u) PROVE u[j].op \in Saving
    <2>1. j - 1 \in 1..Len(t) /\ 1 + (j - 1) = j
      BY <1>2
    <2> QED
      BY <1>2, <2>1 DEF OnlySaves
  <1>4. \A i \in 1..Len(u) : u[i].op \in Printing => i = 1
    <2> SUFFICES ASSUME NEW i \in 1..Len(u), i # 1 PROVE u[i].op \notin Printing
      OBVIOUS
    <2>1. i \in 2..Len(u)
      BY <1>2
    <2> QED
      BY <1>3, <2>1 DEF Saving, Printing
  <1> QED
    BY <1>3, <1>4 DEF PrintsFirst, u

\* Whatever the command, only saving comes behind its printing.
LEMMA StepsPrintFirst == ASSUME NEW c \in Command PROVE PrintsFirst(Steps(c))
  <1>0. Save(c) \in Seq(StepSet) /\ OnlySaves(Save(c)) /\ Quiet(Save(c))
    BY SaveOnlySaves, SavesQuiet
  <1> DEFINE Fine(t) == t \in Seq(StepSet) /\ Quiet(t)
  <1>1. \A s, t : Fine(s) /\ Fine(t) => Fine(s \o t)
    BY JoinOK, QuietJoin
  <1>2. /\ \A op \in {"announce", "readAuth", "removeAuth", "activate", "labels", "delete",
                      "clean", "keepalive"} : Fine(Just(op))
        /\ \A S \in SUBSET Products : Fine(Do("deactivate", S))
        /\ Fine(<<>>)
    BY DoOK, QuietDo DEF Printing
  <1>3. Fine(Save(c))
    BY <1>0
  <1> HIDE DEF Fine
  <1>4. Fine(Leave)
    BY <1>1, <1>2 DEF Leave
  <1>5. c.product # "" => {c.product} \in SUBSET Products
    BY DEF Command
  <1>6. CASE c.cmd \in {"register", "deregister", "cleanup", "keepalive"}
    <2>1. ASSUME c.cmd = "register" PROVE Fine(Steps(c))
      BY <1>1, <1>2, <1>3, <2>1 DEF Steps
    <2>2. ASSUME c.cmd = "deregister" PROVE Fine(Steps(c))
      <3>1. Fine(IF c.product # "" THEN Do("deactivate", {c.product})
                 ELSE Do("deactivate", Products \ {Base}) \o Leave)
        BY <1>1, <1>2, <1>4, <1>5
      <3> QED
        BY <1>1, <1>3, <2>2, <3>1 DEF Steps
    <2>3. ASSUME c.cmd = "cleanup" PROVE Fine(Steps(c))
      BY <1>1, <1>2, <1>3, <2>3 DEF Steps
    <2>4. ASSUME c.cmd = "keepalive" PROVE Fine(Steps(c))
      BY <1>1, <1>2, <1>3, <2>4 DEF Steps
    <2>5. Fine(Steps(c))
      BY <1>6, <2>1, <2>2, <2>3, <2>4
    <2> QED
      BY <2>5, QuietFirst DEF Fine
  <1>7. CASE c.cmd = "status"
    <2>1. Just("status") \in Seq(StepSet) /\ Steps(c) = Just("status") \o Save(c)
      BY <1>7, DoOK DEF Steps
    <2>2. Len(Just("status")) = 1
      BY DEF Just, Do
    <2> QED
      BY <1>0, <2>1, <2>2, PrintThenSave
  <1>8. CASE c.cmd = "list"
    <2>1. Steps(c) = Just("list")
      BY <1>8 DEF Steps
    <2>2. Len(Just("list")) = 1
      BY DEF Just, Do
    <2> QED
      BY <2>1, <2>2 DEF PrintsFirst
  <1> QED
    BY <1>6, <1>7, <1>8 DEF Command

\* What the steps do to what was printed and to what it is about.
Subject  == <<alive, act, creds, installed, cfg>>
Leaves   == UNCHANGED <<Subject, shown>> /\ todo' \in {todo, <<>>}
Advances == UNCHANGED <<Subject, shown>> /\ todo # <<>> /\ todo' = Tail(todo)
Works    ==
    /\ todo # <<>> /\ Head(todo).op \notin Saving /\ UNCHANGED shown
    /\ \/ todo' = <<>>
       \/ \E s \in Seq(StepSet) : Quiet(s) /\ todo' = s \o Tail(todo)
Shows ==
    /\ todo # <<>> /\ Head(todo).op \in Printing /\ todo' = Tail(todo) /\ UNCHANGED Subject
    /\ \/ shown'.kind = "status" /\ StatusShown'
       \/ shown'.kind = "tree" /\ TreeShown'
Searches ==
    UNCHANGED <<Subject, todo>> /\ shown'.kind \in {"packages", "groups"} /\ Searched(shown')

LEMMA EmptyJoin == ASSUME NEW t \in Seq(StepSet) PROVE <<>> \o t = t
  OBVIOUS

LEMMA ThenWorks ==
  ASSUME TypeInv, todo # <<>>, NEW s \in Seq(StepSet), Quiet(s), Then(s), UNCHANGED shown,
         Head(todo).op \notin Saving
  PROVE  Works
  BY DEF Then, Works

LEMMA ThenAdvances ==
  ASSUME TypeInv, todo # <<>>, Then(<<>>)
  PROVE  todo' = Tail(todo) /\ UNCHANGED cfg
  BY AtOK, EmptyJoin DEF Then

LEMMA SearchIsSearched == ASSUME SearchPackages PROVE Searches
  <1>1. UNCHANGED <<Subject, todo>>
    BY DEF SearchPackages, Subject, servers, system, process
  <1>2. PICK p \in Patterns, exact \in BOOLEAN, grouped \in BOOLEAN :
            \E unanswered \in SUBSET DOMAIN p, unread \in SUBSET Repos :
                shown' = SearchOf(p, exact, grouped, unanswered, unread)
    BY DEF SearchPackages, SearchOf
  <1>3. shown'.kind \in {"packages", "groups"}
    BY <1>2 DEF SearchOf
  <1>4. Searched(shown')
    BY <1>2 DEF Searched
  <1> QED
    BY <1>1, <1>3, <1>4 DEF Searches

\* A step starts a command, or does one of five things to what is shown and what it is about.
LEMMA ListingKinds ==
  ASSUME TypeInv, [Next]_vars
  PROVE  \/ \E c \in plan.commands : Start(c)
         \/ Leaves \/ Advances \/ Works \/ Shows \/ Searches
  <1>1. CASE announceOrUpdate
    <2> DEFINE login == [n |-> issued + 1, url |-> cfg.url]
    <2>1. At("announce") /\ UNCHANGED shown
      BY <1>1 DEF announceOrUpdate, output
    <2>2. todo # <<>> /\ Head(todo).op \notin Saving
      BY <2>1 DEF At, Saving
    <2>3. CASE issued < MaxLogins /\ ~Registered /\ Then(Do("store", login))
      <3>1. login \in Login
        BY <2>3, NewLoginOK
      <3> HIDE DEF login
      <3>2. Do("store", login) \in Seq(StepSet) /\ Quiet(Do("store", login))
        BY <3>1, DoOK, QuietDo DEF Printing
      <3> QED
        BY <2>1, <2>2, <2>3, <3>2, ThenWorks
    <2>4. CASE Then(<<>>)
      <3>1. <<>> \in Seq(StepSet) /\ Quiet(<<>>)
        BY DoOK, QuietDo
      <3> QED
        BY <2>1, <2>2, <2>4, <3>1, ThenWorks
    <2>5. CASE Refuse
      BY <2>1, <2>2, <2>5 DEF Refuse, End, Works
    <2> QED
      BY <1>1, <2>3, <2>4, <2>5 DEF announceOrUpdate
  <1>2. CASE CreateCredentials
    <2>1. At("store") /\ UNCHANGED shown
      BY <1>2 DEF CreateCredentials, output
    <2>2. todo # <<>> /\ Head(todo).op \notin Saving /\ On \in Login
      BY <2>1, AtOK DEF At, Saving
    <2>3. /\ <<>> \in Seq(StepSet) /\ Quiet(<<>>)
          /\ Just("readAuth") \in Seq(StepSet) /\ Quiet(Just("readAuth"))
          /\ Do("setAuth", On) \in Seq(StepSet) /\ Quiet(Do("setAuth", On))
      BY <2>2, DoOK, QuietDo DEF Printing
    <2>4. /\ Just("readAuth") \o Do("setAuth", On) \in Seq(StepSet)
          /\ Quiet(Just("readAuth") \o Do("setAuth", On))
      BY <2>3, JoinOK, QuietJoin
    <2>5. Then(<<>>) \/ Then(Just("readAuth") \o Do("setAuth", On))
      BY <1>2 DEF CreateCredentials
    <2> QED
      BY <2>1, <2>2, <2>3, <2>4, <2>5, ThenWorks
  <1>3. CASE \/ LoadFrom \/ SetAuth \/ RemoveAuth \/ WriteAuth \/ AssignAndCreateLabels
             \/ DeregisterSystem \/ Cleanup
    <2>1. (Then(<<>>) \/ Then(Just("writeAuth"))) /\ UNCHANGED shown
      BY <1>3 DEF LoadFrom, SetAuth, RemoveAuth, WriteAuth, AssignAndCreateLabels, DeregisterSystem,
                  Cleanup, output
    <2>2. \/ At("readAuth") \/ At("setAuth") \/ At("removeAuth") \/ At("writeAuth") \/ At("labels")
          \/ At("delete") \/ At("clean")
      BY <1>3 DEF LoadFrom, SetAuth, RemoveAuth, WriteAuth, AssignAndCreateLabels, DeregisterSystem,
                  Cleanup
    <2>3. todo # <<>> /\ Head(todo).op \notin Saving
      BY <2>2 DEF At, Saving
    <2>4. <<>> \in Seq(StepSet) /\ Quiet(<<>>)
      BY DoOK, QuietDo
    <2>5. Just("writeAuth") \in Seq(StepSet) /\ Quiet(Just("writeAuth"))
      BY DoOK, QuietDo DEF Printing
    <2> QED
      BY <2>1, <2>3, <2>4, <2>5, ThenWorks
  <1>4. CASE RegisterProducts \/ Deactivate \/ SendKeepAlivePing
    <2>1. UNCHANGED shown /\ (At("activate") \/ At("deactivate") \/ At("keepalive"))
      BY <1>4 DEF RegisterProducts, Deactivate, SendKeepAlivePing, output
    <2>2. todo # <<>> /\ Head(todo).op \notin Saving
      BY <2>1 DEF At, Saving
    <2>3. Then(<<>>) \/ todo' = <<>>
      BY <1>4 DEF RegisterProducts, Deactivate, SendKeepAlivePing, Refuse, End
    <2>4. <<>> \in Seq(StepSet) /\ Quiet(<<>>)
      BY DoOK, QuietDo
    <2> QED
      BY <2>1, <2>2, <2>3, <2>4, ThenWorks DEF Works
  <1>5. CASE GetProductStatuses
    <2>1. At("status") /\ UNCHANGED <<alive, act, creds, installed>>
      BY <1>5 DEF GetProductStatuses, servers, system
    <2>2. todo # <<>> /\ Head(todo).op \in Printing
      BY <2>1 DEF At, Printing
    <2>3. CASE Refuse /\ UNCHANGED shown
      BY <2>1, <2>3 DEF Refuse, End, Leaves, Subject
    <2>4. CASE /\ (Registered => Valid) /\ Then(<<>>)
               /\ shown' = [kind |-> "status", rows |-> buildStatuses(installed, Activations)]
      <3>1. todo' = Tail(todo) /\ UNCHANGED cfg
        BY <2>2, <2>4, ThenAdvances
      <3>2. shown'.kind = "status" /\ shown'.rows = buildStatuses(installed, Activations)
        BY <2>4
      <3>3. UNCHANGED <<Activations, Registered, Valid>>
        BY <2>1, <3>1 DEF Activations, Registered, Valid
      <3>4. StatusShown'
        BY <2>1, <2>4, <3>2, <3>3 DEF StatusShown
      <3> QED
        BY <2>1, <2>2, <3>1, <3>2, <3>4 DEF Shows, Subject
    <2> QED
      BY <1>5, <2>3, <2>4 DEF GetProductStatuses
  <1>6. CASE ListExtensions
    <2>1. At("list") /\ UNCHANGED <<alive, act, creds, installed>>
      BY <1>6 DEF ListExtensions, servers, system
    <2>2. todo # <<>> /\ Head(todo).op \in Printing
      BY <2>1 DEF At, Printing
    <2>3. CASE Refuse /\ UNCHANGED shown
      BY <2>1, <2>3 DEF Refuse, End, Leaves, Subject
    <2>4. CASE /\ Valid /\ Then(<<>>)
               /\ shown' = [kind |-> "tree", rows |-> RenderExtensionTree(act[creds], cmd.fs = "rw")]
      <3>1. todo' = Tail(todo) /\ UNCHANGED cfg
        BY <2>2, <2>4, ThenAdvances
      <3>2. shown'.kind = "tree" /\ shown'.rows = RenderExtensionTree(act[creds], cmd.fs = "rw")
        BY <2>4
      <3>3. UNCHANGED Valid
        BY <2>1, <3>1 DEF Valid
      <3>4. (cmd.fs = "rw") \in BOOLEAN
        OBVIOUS
      <3>5. TreeShown'
        BY <2>1, <2>4, <3>2, <3>3, <3>4 DEF TreeShown
      <3> QED
        BY <2>1, <2>2, <3>1, <3>2, <3>5 DEF Shows, Subject
    <2> QED
      BY <1>6, <2>3, <2>4 DEF ListExtensions
  <1>7. CASE SaveTruncates \/ SaveWrites
    <2>1. /\ UNCHANGED <<alive, act, creds, installed, shown>> /\ Then(<<>>) /\ todo # <<>>
      BY <1>7 DEF SaveTruncates, SaveWrites, At, servers, system, output
    <2>2. todo' = Tail(todo) /\ UNCHANGED cfg
      BY <2>1, ThenAdvances
    <2> QED
      BY <2>1, <2>2 DEF Advances, Subject
  <1>8. CASE Finish \/ Fail \/ Kill \/ UserWithDocker \/ UNCHANGED vars
    BY <1>8 DEF Finish, Fail, Kill, End, UserWithDocker, vars, Leaves, Subject, servers, system,
                process, output
  <1>9. CASE Besides
    BY <1>9 DEF Besides, Tracker, TrackerEnds, TimePasses, KilledTracker, TrackerFails, PowerFails,
                Beside, Leaves, Subject, servers, system, process, output
  <1>10. CASE SearchPackages
    BY <1>10, SearchIsSearched
  <1> QED
    BY <1>1, <1>2, <1>3, <1>4, <1>5, <1>6, <1>7, <1>8, <1>9, <1>10 DEF Next, Step, Besides

LEMMA TailQuiet ==
  ASSUME NEW t \in Seq(StepSet), t # <<>>, PrintsFirst(t)
  PROVE  /\ Tail(t) \in Seq(StepSet) /\ Quiet(Tail(t))
         /\ OnlySaves(t) => OnlySaves(Tail(t)) /\ Head(t).op \in Saving
         /\ Head(t).op \in Printing => OnlySaves(Tail(t))
  <1>1. /\ Head(t) = t[1] /\ Tail(t) \in Seq(StepSet) /\ Len(Tail(t)) = Len(t) - 1
        /\ \A i \in 1..Len(Tail(t)) : Tail(t)[i] = t[i + 1]
    BY HeadAndTail
  <1>2. Len(t) \in Nat /\ Len(t) >= 1
    OBVIOUS
  <1> DEFINE u == Tail(t)
  <1> HIDE DEF u
  <1>3. \A i \in 1..Len(u) : i + 1 \in 2..Len(t) /\ i + 1 # 1 /\ i + 1 \in 1..Len(t) /\ u[i] = t[i + 1]
    BY <1>1, <1>2 DEF u
  <1>4. Quiet(u)
    BY <1>3 DEF PrintsFirst, Quiet
  <1>5. OnlySaves(t) => OnlySaves(u) /\ Head(t).op \in Saving
    BY <1>1, <1>2, <1>3 DEF OnlySaves
  <1>6. 1 \in 1..Len(t)
    BY <1>2
  <1>7. Head(t).op \in Printing => OnlySaves(u)
    BY <1>1, <1>3, <1>6 DEF PrintsFirst, OnlySaves
  <1> QED
    BY <1>1, <1>4, <1>5, <1>7 DEF u

\* What is shown stays true while what it is about stays the same.
LEMMA SubjectSame ==
  ASSUME UNCHANGED <<Subject, shown>>
  PROVE  UNCHANGED <<StatusShown, TreeShown>> /\ (Searched(shown))' = Searched(shown)
  <1>1. UNCHANGED <<alive, act, creds, installed, cfg, shown>>
    BY DEF Subject
  <1>2. UNCHANGED <<Activations, Registered, Valid>>
    BY <1>1 DEF Activations, Registered, Valid
  <1>3. StatusShown' = StatusShown
    BY <1>1, <1>2 DEF StatusShown
  <1>4. TreeShown' = TreeShown
    BY <1>1, <1>2 DEF TreeShown
  <1>5. (Searched(shown))' = Searched(shown)
    BY <1>1 DEF Searched
  <1> QED
    BY <1>3, <1>4, <1>5

LEMMA ListingInitially == Init => ListingInv
  BY QuietDo DEF Init, ListingInv, Nothing, Printed

\* One step, case by case.
LEMMA ListingStays ==
  ASSUME TypeInv, ListingInv, [Next]_vars
  PROVE  ListingInv'
  <1>0. todo \in Seq(StepSet) /\ PrintsFirst(todo)
    BY DEF TypeInv, ListingInv
  <1>1. CASE \E c \in plan.commands : Start(c)
    <2>1. PICK c \in plan.commands : Start(c)
      BY <1>1
    <2>2. c \in Command
      BY CommandsAssumption, PlansAssumption DEF TypeInv, TypeOK
    <2>3. todo' = <<>> \/ todo' = Steps(c)
      BY <2>1 DEF Start
    <2>4. shown'.kind = "nothing"
      BY <2>1 DEF Start, Nothing
    <2>5. PrintsFirst(todo')
      BY <2>2, <2>3, StepsPrintFirst, QuietDo
    <2> QED
      BY <2>4, <2>5 DEF ListingInv, Printed
  <1>2. CASE Leaves
    <2>1. UNCHANGED <<StatusShown, TreeShown>> /\ (Searched(shown))' = Searched(shown)
      BY <1>2, SubjectSame DEF Leaves
    <2>2. shown' = shown /\ (todo' = todo \/ todo' = <<>>)
      BY <1>2 DEF Leaves
    <2>3. PrintsFirst(todo') /\ (shown.kind \in Printed => OnlySaves(todo'))
      BY <2>2, QuietDo DEF ListingInv
    <2> QED
      BY <2>1, <2>2, <2>3 DEF ListingInv
  <1>3. CASE Advances
    <2>1. UNCHANGED <<StatusShown, TreeShown>> /\ (Searched(shown))' = Searched(shown)
      BY <1>3, SubjectSame DEF Advances
    <2>2. shown' = shown /\ todo # <<>> /\ todo' = Tail(todo)
      BY <1>3 DEF Advances
    <2>3. PrintsFirst(todo') /\ (shown.kind \in Printed => OnlySaves(todo'))
      BY <1>0, <2>2, TailQuiet, QuietFirst DEF ListingInv
    <2> QED
      BY <2>1, <2>2, <2>3 DEF ListingInv
  <1>4. CASE Works
    <2>1. todo # <<>> /\ Head(todo).op \notin Saving /\ shown' = shown
      BY <1>4 DEF Works
    <2>2. Tail(todo) \in Seq(StepSet) /\ Quiet(Tail(todo)) /\ ~OnlySaves(todo)
      BY <1>0, <2>1, TailQuiet
    <2>3. shown.kind \notin Printed
      BY <2>2 DEF ListingInv
    <2>4. Quiet(todo')
      BY <1>4, <2>2, QuietJoin, QuietDo DEF Works
    <2>5. (Searched(shown))' = Searched(shown)
      BY <2>1 DEF Searched
    <2> QED
      BY <2>1, <2>3, <2>4, <2>5, QuietFirst DEF ListingInv, Printed
  <1>5. CASE Shows
    <2>1. todo # <<>> /\ Head(todo).op \in Printing /\ todo' = Tail(todo)
      BY <1>5 DEF Shows
    <2>2. Quiet(todo') /\ OnlySaves(todo')
      BY <1>0, <2>1, TailQuiet
    <2> QED
      BY <1>5, <2>2, QuietFirst DEF Shows, ListingInv
  <1>6. CASE Searches
    BY <1>6, <1>0 DEF Searches, ListingInv, Printed
  <1> QED
    BY <1>1, <1>2, <1>3, <1>4, <1>5, <1>6, ListingKinds

\* What status and list-extensions show is true of the system and of the server, at the
\* time and until the next command, whatever happens meanwhile: each installed product
\* once, with its true status, each extension below its parent, with the command that
\* fits (buildStatuses, extensionTree, renderTextExtension).
THEOREM ListingsAreTrue == Spec => []ListingsTrue
  <1>1. TypeInv /\ WholeInv /\ ListingInv /\ [Next]_vars => (TypeInv /\ WholeInv /\ ListingInv)'
    BY TypesKept, ListingStays
  <1>2. TypeInv /\ ListingInv => ListingsTrue
    <2> SUFFICES ASSUME TypeInv, ListingInv PROVE ListingsTrue
      OBVIOUS
    <2> DEFINE rows == shown.rows
    <2>1. ASSUME shown.kind = "status"
          PROVE  /\ IsInjective([i \in DOMAIN rows |-> rows[i].product])
                 /\ {rows[i].product : i \in DOMAIN rows} = installed
                 /\ \A i \in DOMAIN rows : rows[i].status = "Registered" =>
                        creds \in alive /\ creds.url = cfg.url /\ rows[i].product \in act[creds]
      <3>1. rows = buildStatuses(installed, Activations) /\ (Registered => Valid)
        BY <2>1 DEF ListingInv, StatusShown
      <3>2. IsFiniteSet(installed)
        BY TreeAssumption, FS_Subset DEF TypeInv, TypeOK
      <3> HIDE DEF rows
      <3>3. /\ IsInjective([i \in DOMAIN rows |-> rows[i].product])
            /\ {rows[i].product : i \in DOMAIN rows} = installed
            /\ \A i \in DOMAIN rows : rows[i].status = "Registered" => rows[i].product \in Activations
        BY <3>1, <3>2, StatusesOK
      <3>4. \A p \in Activations : creds \in alive /\ creds.url = cfg.url /\ p \in act[creds]
        BY <3>1 DEF Activations, Valid
      <3> QED
        BY <3>3, <3>4
    <2>2. ASSUME shown.kind = "tree" PROVE TreeIsTrue(rows, act[creds])
      BY <2>2, RenderOK DEF ListingInv, TreeShown
    <2> QED
      BY <2>1, <2>2 DEF ListingsTrue
  <1> QED
    BY InitOK, ListingInitially, <1>1, <1>2, PTL DEF Spec

\* The table of a package search, or its groups, have exactly what is on the server and
\* in the repositories that could be asked, each once (searchInModules, searchInRepos,
\* main).
THEOREM SearchFindsAll == Spec => []SearchTable
  <1>1. TypeInv /\ WholeInv /\ ListingInv /\ [Next]_vars => (TypeInv /\ WholeInv /\ ListingInv)'
    BY TypesKept, ListingStays
  <1>2. TypeInv /\ ListingInv => SearchTable
    <2> SUFFICES ASSUME TypeInv, ListingInv, shown.kind \in {"packages", "groups"} PROVE SearchTable
      BY DEF SearchTable
    <2>1. PICK p \in Patterns, exact \in BOOLEAN, grouped \in BOOLEAN :
            \E unanswered \in SUBSET DOMAIN p, unread \in SUBSET Repos :
                shown = SearchOf(p, exact, grouped, unanswered, unread)
      BY DEF ListingInv, Searched
    <2>2. PICK unanswered \in SUBSET DOMAIN p, unread \in SUBSET Repos :
                shown = SearchOf(p, exact, grouped, unanswered, unread)
      BY <2>1
    <2> DEFINE t == searchInModules(p, exact, unanswered) \o searchInRepos(p, exact, unread)
               u == uniqueTable(t)
               rows == shown.rows
               found == FoundRows(p, exact, unanswered, unread)
    <2>3. /\ shown.of.patterns = p /\ shown.of.exact = exact
          /\ shown.of.unanswered = unanswered /\ shown.of.unread = unread
          /\ shown.kind = "packages" => rows = u
          /\ shown.kind = "groups" => rows = groupByModule(u)
      BY <2>2 DEF SearchOf
    <2>4. p \in Seq(STRING)
      BY CommandsAssumption
    <2>5. t \in Seq(FoundRow) /\ ToSet(t) = found /\ \A x \in ToSet(t) : x.place # ""
      BY <2>4, FoundOK
    <2> HIDE DEF t, rows, found
    <2>6. u \in Seq(FoundRow) /\ ToSet(u) = ToSet(t) /\ IsInjective(u)
      BY ONLY <2>5, UniqueTableOK
    <2> HIDE DEF u
    <2>7. IsFiniteSet(found) /\ Cardinality(found) = Len(u)
      BY <2>5, <2>6, OnceCount
    <2>8. \A i \in 1..Len(u) : u[i].place # ""
      <3>1. \A x \in ToSet(u) : x.place # ""
        BY <2>5, <2>6
      <3>2. u \in Seq(FoundRow)
        BY <2>6
      <3>3. \A i \in 1..Len(u) : u[i] \in ToSet(u)
        BY ONLY <3>2, ElementAt
      <3> QED
        BY <3>1, <3>3
    <2>9. CASE shown.kind = "packages"
      BY <2>3, <2>5, <2>6, <2>9 DEF SearchTable, rows, found
    <2>10. CASE shown.kind = "groups"
      <3>1. rows = groupByModule(u)
        BY <2>3, <2>10
      <3>2. Len(rows) = Len(u)
        BY ONLY <2>6, <2>8, <3>1, GroupsOK
      <3>3. /\ {rows[i].name : i \in DOMAIN rows} = {x.name : x \in ToSet(u)}
            /\ {rows[i].place : i \in DOMAIN rows} \ {""} = {x.place : x \in ToSet(u)}
            /\ \A i, j \in DOMAIN rows : rows[i].place = rows[j].place => i = j \/ rows[i].place = ""
        <4>1. u \in Seq(FoundRow) /\ \A i \in 1..Len(u) : u[i].place # ""
          BY <2>6, <2>8
        <4> DEFINE g == groupByModule(u)
        <4>2. /\ {g[i].name : i \in DOMAIN g} = {x.name : x \in ToSet(u)}
              /\ {g[i].place : i \in DOMAIN g} \ {""} = {x.place : x \in ToSet(u)}
              /\ \A i, j \in DOMAIN g : g[i].place = g[j].place => i = j \/ g[i].place = ""
          BY ONLY <4>1, GroupsName
        <4> HIDE DEF g
        <4>3. rows = g
          BY <3>1 DEF g
        <4> QED
          BY ONLY <4>2, <4>3
      <3>4. ToSet(u) = found
        BY <2>5, <2>6
      <3> QED
        BY <2>3, <2>7, <2>10, <3>2, <3>3, <3>4 DEF SearchTable, rows, found
    <2> QED
      BY <2>9, <2>10
  <1> QED
    BY InitOK, ListingInitially, <1>1, <1>2, PTL DEF Spec
===============================================================================
