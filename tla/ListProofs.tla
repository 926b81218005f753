----------------------------- MODULE ListProofs -----------------------------
(***************************************************************************)
(* The widgets of the list of services (ServiceList, carrick-list.c): they *)
(* mirror the rows, are brought up to date and stay in order, whatever     *)
(* connman and the user do meanwhile, for any finite set of services.      *)
(***************************************************************************)
EXTENDS ServiceList, SequenceTheorems, FiniteSetTheorems, WellFoundedInduction, TLAPS

(***************************************************************************)
(* Recursive functions over the places of a list exist, and what each step *)
(* keeps holds at the end.                                                 *)
(***************************************************************************)
LEMMA Least ==
  ASSUME NEW T \in SUBSET Nat, T # {}
  PROVE  \E m \in T : \A n \in T : m <= n
<1> DEFINE R == OpToRel(<, Nat)
<1>1. IsWellFoundedOn(R, Nat)
  BY NatLessThanWellFounded
<1>2. \E m \in T : \A n \in T : <<n, m>> \notin R
  <2> HIDE DEF R
  <2> QED BY <1>1, WFMin
<1>3. \A n, m \in Nat : <<n, m>> \in R <=> n < m
  BY DEF OpToRel
<1>4. PICK m \in T : \A n \in T : <<n, m>> \notin R
  BY <1>2
<1>5. ASSUME NEW n \in T PROVE m <= n
  <2>1. ~(n < m)
    BY <1>3, <1>4
  <2> QED BY <2>1
<1> QED BY <1>5

\* A recursive function exists if each of its steps can be taken,
StepsIn(D, N) == [1..N -> [D -> D]]
PathsIn(D, N) == [0..N -> D]

LEMMA Runs ==
  ASSUME NEW D, NEW s \in D, NEW N \in Nat, NEW g \in StepsIn(D, N)
  PROVE  \E h \in PathsIn(D, N) : h[0] = s /\ \A n \in 1..N : h[n] = g[n][h[n - 1]]
<1> DEFINE F(h, m) == [n \in 0..m |-> IF n = 0 THEN s ELSE g[n][h[n - 1]]]
           P(m) == \E h \in [0..m -> D] : h = F(h, m)
           bad == {m \in 0..N : ~P(m)}
<1>0. g \in [1..N -> [D -> D]]
  BY DEF StepsIn
<1>1. bad = {}
  <2>1. SUFFICES ASSUME bad # {} PROVE FALSE
    OBVIOUS
  <2>2. bad \in SUBSET Nat
    OBVIOUS
  <2>3. PICK m \in bad : \A n \in bad : m <= n
    BY <2>1, <2>2, Least
  <2>4. m \in 0..N /\ m \in Nat /\ ~P(m)
    OBVIOUS
  <2>5. CASE m = 0
    <3> DEFINE h == [n \in 0..0 |-> s]
    <3>1. h \in [0..0 -> D] /\ h = F(h, 0)
      OBVIOUS
    <3> QED BY <2>4, <2>5, <3>1
  <2>6. CASE m # 0
    <3>1. m - 1 \in 0..N /\ m - 1 \notin bad
      <4> HIDE DEF bad
      <4> QED BY <2>2, <2>3, <2>4, <2>6
    <3>2. PICK h \in [0..(m - 1) -> D] : h = F(h, m - 1)
      BY <3>1
    <3> DEFINE k == [n \in 0..m |-> IF n = m THEN g[m][h[m - 1]] ELSE h[n]]
    <3>3. h[m - 1] \in D /\ g[m] \in [D -> D]
      BY <1>0, <2>4, <2>6
    <3>4. k \in [0..m -> D]
      <4>1. \A n \in 0..m : n # m => n \in 0..(m - 1)
        BY <2>4
      <4>2. \A n \in 0..m : (IF n = m THEN g[m][h[m - 1]] ELSE h[n]) \in D
        BY <3>3, <4>1
      <4> QED BY <4>2
    <3>5. ASSUME NEW n \in 0..m PROVE k[n] = IF n = 0 THEN s ELSE g[n][k[n - 1]]
      <4>1. CASE n = 0
        <5>1. h[0] = s /\ 0 \in 0..(m - 1)
          BY <2>4, <2>6, <3>2
        <5> QED BY <4>1, <5>1, <2>6
      <4>2. CASE n # 0 /\ n # m
        <5>1. n \in 0..(m - 1) /\ n - 1 \in 0..(m - 1) /\ n - 1 # m /\ n - 1 \in 0..m
          BY <2>4, <4>2
        <5>2. h[n] = g[n][h[n - 1]]
          BY <3>2, <4>2, <5>1
        <5> QED BY <4>2, <5>1, <5>2
      <4>3. CASE n = m
        <5>1. m - 1 \in 0..m /\ m - 1 # m
          BY <2>4, <2>6
        <5> QED BY <4>3, <5>1, <2>6
      <4> QED BY <4>1, <4>2, <4>3
    <3>6. k = F(k, m)
      <4>1. k = [n \in 0..m |-> k[n]]
        OBVIOUS
      <4> HIDE DEF k
      <4>2. F(k, m) = [n \in 0..m |-> k[n]]
        BY <3>5
      <4> QED BY <4>1, <4>2
    <3> HIDE DEF k
    <3> QED BY <2>4, <3>4, <3>6
  <2> QED BY <2>5, <2>6
<1>2. P(N)
  <2> HIDE DEF P
  <2> QED BY <1>1
<1>3. PICK h \in [0..N -> D] : h = F(h, N)
  BY <1>2
<1>4. 0 \in 0..N /\ \A n \in 1..N : n \in 0..N /\ n # 0
  OBVIOUS
<1>5. h[0] = s /\ \A n \in 1..N : h[n] = g[n][h[n - 1]]
  <2>1. h[0] = F(h, N)[0] /\ \A n \in 1..N : h[n] = F(h, N)[n]
    <3> HIDE DEF F
    <3> QED BY <1>3
  <2> QED BY <1>4, <2>1
<1> QED BY <1>5 DEF PathsIn


LEMMA Climbs ==
  ASSUME NEW N \in Nat, NEW B, 0 \in B, \A n \in 1..N : n - 1 \in B => n \in B
  PROVE  N \in B
<1> DEFINE off == {n \in 0..N : n \notin B}
<1>1. SUFFICES ASSUME off # {} PROVE FALSE
  OBVIOUS
<1>2. off \in SUBSET Nat
  OBVIOUS
<1>3. PICK m \in off : \A n \in off : m <= n
  BY <1>1, <1>2, Least
<1>4. m \in 1..N /\ m - 1 \in 0..N /\ ~(m <= m - 1) /\ m \notin B
  OBVIOUS
<1>5. m - 1 \notin off
  BY <1>3, <1>4
<1> QED BY <1>4, <1>5

(***************************************************************************)
(* Lists of services, which have a service once, and their changes.        *)
(***************************************************************************)
Apart(q) == \A i, j \in DOMAIN q : q[i] = q[j] => i = j
\* x is put behind the first a of r.
Inserted(r, x, a) == InsertAt(r, a + 1, x)
Shift(i, a) == IF i <= a THEN i ELSE i + 1

LEMMA OrderIs ==
  ASSUME NEW q
  PROVE  q \in Orders <=> /\ q \in Seq(Paths) /\ Apart(q) /\ Len(q) <= Cardinality(Paths)
<1>1. ASSUME q \in Orders PROVE q \in Seq(Paths) /\ Apart(q) /\ Len(q) <= Cardinality(Paths)
  <2>1. PICK n \in 0..Cardinality(Paths) : q \in [1..n -> Paths]
    BY <1>1 DEF Orders, SeqOf
  <2>2. n \in Nat /\ n <= Cardinality(Paths)
    BY <2>1
  <2>3. q \in Seq(Paths) /\ Len(q) = n
    BY <2>1, <2>2
  <2>4. Apart(q)
    BY <1>1 DEF Orders, IsInjective, Apart
  <2> QED BY <2>2, <2>3, <2>4
<1>2. ASSUME q \in Seq(Paths), Apart(q), Len(q) <= Cardinality(Paths) PROVE q \in Orders
  <2>1. Len(q) \in 0..Cardinality(Paths) /\ q \in [1..Len(q) -> Paths]
    BY <1>2
  <2>2. q \in SeqOf(Paths, Cardinality(Paths))
    BY <2>1 DEF SeqOf
  <2>3. IsInjective(q)
    BY <1>2 DEF IsInjective, Apart
  <2> QED BY <2>2, <2>3 DEF Orders
<1> QED BY <1>1, <1>2

LEMMA SeqFacts ==
  ASSUME NEW S, NEW q \in Seq(S)
  PROVE  /\ Len(q) \in Nat /\ DOMAIN q = 1..Len(q) /\ \A i \in 1..Len(q) : q[i] \in S
         /\ \A x : x \in ToSet(q) <=> \E i \in 1..Len(q) : q[i] = x
         /\ ToSet(q) \subseteq S
         /\ q = <<>> <=> Len(q) = 0
<1>1. Len(q) \in Nat /\ DOMAIN q = 1..Len(q) /\ \A i \in 1..Len(q) : q[i] \in S
  OBVIOUS
<1>2. \A x : x \in ToSet(q) <=> \E i \in 1..Len(q) : q[i] = x
  BY <1>1 DEF ToSet
<1>3. q = <<>> <=> Len(q) = 0
  BY EmptySeq
<1> QED BY <1>1, <1>2, <1>3

LEMMA Piece ==
  ASSUME NEW S, NEW q \in Seq(S), NEW m \in Nat, NEW n \in Nat, 1 <= m, m <= n + 1, n <= Len(q)
  PROVE  /\ SubSeq(q, m, n) \in Seq(S) /\ Len(SubSeq(q, m, n)) = n + 1 - m
         /\ \A i \in 1 .. n + 1 - m : SubSeq(q, m, n)[i] = q[m + i - 1]
<1>1. Len(q) \in Nat /\ DOMAIN q = 1..Len(q)
  OBVIOUS
<1>2. \A i \in m..n : q[i] \in S
  BY <1>1
<1>3. /\ SubSeq(q, m, n) \in Seq(S)
      /\ Len(SubSeq(q, m, n)) = (IF m <= n THEN n - m + 1 ELSE 0)
      /\ \A i \in 1 .. n - m + 1 : SubSeq(q, m, n)[i] = q[m + i - 1]
  BY <1>1, <1>2, SubSeqProperties
<1>4. n - m + 1 = n + 1 - m /\ (m > n => n + 1 - m = 0)
  OBVIOUS
<1> QED BY <1>3, <1>4

LEMMA InsertedIs ==
  ASSUME NEW S, NEW r \in Seq(S), NEW x \in S, NEW a \in 0..Len(r)
  PROVE  /\ Inserted(r, x, a) \in Seq(S) /\ Len(Inserted(r, x, a)) = Len(r) + 1
         /\ Inserted(r, x, a)[a + 1] = x
         /\ \A i \in 1..Len(r) : Inserted(r, x, a)[Shift(i, a)] = r[i]
<1> DEFINE l == Len(r)
           u == SubSeq(r, 1, a)
           v == SubSeq(r, a + 1, l)
           w == u \o <<x>>
           t == w \o v
<1>1. l \in Nat /\ a \in Nat /\ a <= l
  OBVIOUS
<1>2. Inserted(r, x, a) = t
  <2>1. (a + 1) - 1 = a
    BY <1>1
  <2>2. Inserted(r, x, a) = (SubSeq(r, 1, (a + 1) - 1) \o <<x>>) \o SubSeq(r, a + 1, Len(r))
    BY Zenon DEF Inserted, InsertAt
  <2> QED BY <2>1, <2>2, Zenon
<1>3. u \in Seq(S) /\ Len(u) = a /\ \A i \in 1..a : u[i] = r[i]
  <2>1. 1 \in Nat /\ a + 1 - 1 = a /\ \A i \in 1..a : 1 + i - 1 = i
    BY <1>1
  <2>2. /\ u \in Seq(S) /\ Len(u) = a + 1 - 1
        /\ \A i \in 1 .. a + 1 - 1 : u[i] = r[1 + i - 1]
    BY <1>1, <2>1, Piece
  <2> HIDE DEF u
  <2> QED BY <2>1, <2>2
<1>4. v \in Seq(S) /\ Len(v) = l - a /\ \A i \in 1 .. l - a : v[i] = r[a + i]
  <2> DEFINE m == a + 1
  <2>1. m \in Nat /\ 1 <= m /\ m <= l + 1 /\ l + 1 - m = l - a /\ \A i \in Nat : m + i - 1 = a + i
    BY <1>1
  <2>2. /\ v \in Seq(S) /\ Len(v) = l + 1 - m
        /\ \A i \in 1 .. l + 1 - m : v[i] = r[m + i - 1]
    <3> HIDE DEF m
    <3>1. /\ SubSeq(r, m, l) \in Seq(S) /\ Len(SubSeq(r, m, l)) = l + 1 - m
          /\ \A i \in 1 .. l + 1 - m : SubSeq(r, m, l)[i] = r[m + i - 1]
      BY <1>1, <2>1, Piece
    <3> QED BY <3>1 DEF m
  <2> HIDE DEF v, m
  <2> QED BY <2>1, <2>2
<1> HIDE DEF u, v
<1>5. /\ w \in Seq(S) /\ Len(w) = a + 1 /\ w[a + 1] = x /\ \A i \in 1..a : w[i] = r[i]
  <2>1. <<x>> \in Seq(S) /\ Len(<<x>>) = 1 /\ <<x>>[1] = x
    OBVIOUS
  <2>2. /\ w \in Seq(S) /\ Len(w) = Len(u) + 1
        /\ \A i \in 1 .. Len(u) + 1 : w[i] = IF i <= Len(u) THEN u[i] ELSE <<x>>[i - Len(u)]
    BY <1>3, <2>1, ConcatProperties
  <2> HIDE DEF w
  <2>3. a + 1 \in 1 .. a + 1 /\ ~(a + 1 <= a) /\ a + 1 - a = 1
    BY <1>1
  <2>4. w[a + 1] = x
    <3>1. w[a + 1] = IF a + 1 <= a THEN u[a + 1] ELSE <<x>>[a + 1 - a]
      BY <1>3, <2>2, <2>3
    <3> QED BY <2>1, <2>3, <3>1
  <2>5. \A i \in 1..a : w[i] = r[i]
    BY <1>1, <1>3, <2>2
  <2> QED BY <1>3, <2>2, <2>4, <2>5
<1> HIDE DEF w
<1>9. /\ t \in Seq(S) /\ Len(t) = Len(w) + Len(v)
      /\ \A i \in 1 .. Len(w) + Len(v) : t[i] = IF i <= Len(w) THEN w[i] ELSE v[i - Len(w)]
  BY <1>4, <1>5, ConcatProperties
<1> HIDE DEF t
<1>6. /\ t \in Seq(S) /\ Len(t) = a + 1 + (l - a)
      /\ \A i \in 1 .. a + 1 + (l - a) : t[i] = IF i <= a + 1 THEN w[i] ELSE v[i - (a + 1)]
  BY <1>4, <1>5, <1>9
<1>7. Len(t) = l + 1 /\ t[a + 1] = x
  BY <1>1, <1>5, <1>6
<1>8. ASSUME NEW i \in 1..l PROVE t[Shift(i, a)] = r[i]
  <2>1. CASE i <= a
    <3>1. i \in 1..a /\ i \in 1 .. a + 1 + (l - a) /\ i <= a + 1 /\ Shift(i, a) = i
      BY <1>1, <2>1 DEF Shift
    <3> QED BY <1>5, <1>6, <3>1
  <2>2. CASE ~(i <= a)
    <3>1. /\ i + 1 \in 1 .. a + 1 + (l - a) /\ ~(i + 1 <= a + 1) /\ Shift(i, a) = i + 1
          /\ i + 1 - (a + 1) \in 1 .. l - a /\ a + (i + 1 - (a + 1)) = i
      BY <1>1, <2>2 DEF Shift
    <3>2. t[i + 1] = v[i + 1 - (a + 1)]
      BY <1>6, <3>1
    <3> QED BY <1>4, <3>1, <3>2
  <2> QED BY <2>1, <2>2
<1> QED BY <1>2, <1>6, <1>7, <1>8 DEF l

\* t is what Inserted says as soon as its elements are.
LEMMA InsertedIf ==
  ASSUME NEW S, NEW r \in Seq(S), NEW x \in S, NEW a \in 0..Len(r), NEW t \in Seq(S),
         Len(t) = Len(r) + 1, t[a + 1] = x, \A i \in 1..Len(r) : t[Shift(i, a)] = r[i]
  PROVE  t = Inserted(r, x, a)
<1> DEFINE u == Inserted(r, x, a)
<1>1. /\ u \in Seq(S) /\ Len(u) = Len(r) + 1 /\ u[a + 1] = x
      /\ \A i \in 1..Len(r) : u[Shift(i, a)] = r[i]
  BY ONLY InsertedIs, r \in Seq(S), x \in S, a \in 0..Len(r)
<1> HIDE DEF u
<1>2. Len(r) \in Nat /\ a \in Nat /\ a <= Len(r)
  OBVIOUS
<1>3. ASSUME NEW j \in 1..Len(t) PROVE t[j] = u[j]
  <2>1. CASE j = a + 1
    BY <1>1, <2>1
  <2>2. CASE j # a + 1
    <3>1. PICK i \in 1..Len(r) : Shift(i, a) = j
      <4>1. CASE j <= a
        <5>1. j \in 1..Len(r) /\ Shift(j, a) = j
          BY <1>2, <4>1 DEF Shift
        <5> QED BY <5>1
      <4>2. CASE ~(j <= a)
        <5>1. j - 1 \in 1..Len(r) /\ Shift(j - 1, a) = j
          BY <1>2, <2>2, <4>2 DEF Shift
        <5> QED BY <5>1
      <4> QED BY <4>1, <4>2
    <3> QED BY <1>1, <3>1
  <2> QED BY <2>1, <2>2
<1>4. t = u
  BY <1>1, <1>3
<1> QED BY <1>4 DEF u

LEMMA TakenIs ==
  ASSUME NEW S, NEW q \in Seq(S), NEW k \in 1..Len(q)
  PROVE  LET r == RemoveAt(q, k)
         IN /\ r \in Seq(S) /\ Len(r) = Len(q) - 1
            /\ \A i \in 1..Len(r) : r[i] = q[Shift(i, k - 1)]
<1> DEFINE l == Len(q)
           u == SubSeq(q, 1, k - 1)
           v == SubSeq(q, k + 1, l)
           r == u \o v
<1>1. l \in Nat /\ k \in Nat /\ 1 <= k /\ k <= l
  OBVIOUS
<1>2. u \in Seq(S) /\ Len(u) = k - 1 /\ \A i \in 1 .. k - 1 : u[i] = q[i]
  <2> DEFINE m == k - 1
  <2>1. m \in Nat /\ 1 \in Nat /\ m + 1 - 1 = m /\ m <= l /\ \A i \in Nat : 1 + i - 1 = i
    BY <1>1
  <2>2. /\ u \in Seq(S) /\ Len(u) = m + 1 - 1
        /\ \A i \in 1 .. m + 1 - 1 : u[i] = q[1 + i - 1]
    <3> HIDE DEF m
    <3>1. /\ SubSeq(q, 1, m) \in Seq(S) /\ Len(SubSeq(q, 1, m)) = m + 1 - 1
          /\ \A i \in 1 .. m + 1 - 1 : SubSeq(q, 1, m)[i] = q[1 + i - 1]
      BY <1>1, <2>1, Piece
    <3> QED BY <3>1 DEF m
  <2> HIDE DEF u, m
  <2>3. \A i \in 1..m : u[i] = q[i]
    BY <2>1, <2>2
  <2> QED BY <2>1, <2>2, <2>3 DEF m
<1>3. v \in Seq(S) /\ Len(v) = l - k /\ \A i \in 1 .. l - k : v[i] = q[k + i]
  <2> DEFINE m == k + 1
  <2>1. m \in Nat /\ 1 <= m /\ m <= l + 1 /\ l + 1 - m = l - k /\ \A i \in Nat : m + i - 1 = k + i
    BY <1>1
  <2>2. /\ v \in Seq(S) /\ Len(v) = l + 1 - m
        /\ \A i \in 1 .. l + 1 - m : v[i] = q[m + i - 1]
    <3> HIDE DEF m
    <3>1. /\ SubSeq(q, m, l) \in Seq(S) /\ Len(SubSeq(q, m, l)) = l + 1 - m
          /\ \A i \in 1 .. l + 1 - m : SubSeq(q, m, l)[i] = q[m + i - 1]
      BY <1>1, <2>1, Piece
    <3> QED BY <3>1 DEF m
  <2> HIDE DEF v, m
  <2>3. ASSUME NEW i \in 1 .. l - k PROVE v[i] = q[k + i]
    <3>1. i \in 1 .. l + 1 - m /\ m + i - 1 = k + i
      BY <2>1
    <3> QED BY <2>2, <3>1
  <2> QED BY <2>1, <2>2, <2>3
<1> HIDE DEF u, v
<1>8. /\ r \in Seq(S) /\ Len(r) = Len(u) + Len(v)
      /\ \A i \in 1 .. Len(u) + Len(v) : r[i] = IF i <= Len(u) THEN u[i] ELSE v[i - Len(u)]
  BY <1>2, <1>3, ConcatProperties
<1>4. /\ r \in Seq(S) /\ Len(r) = (k - 1) + (l - k)
      /\ \A i \in 1 .. (k - 1) + (l - k) : r[i] = IF i <= k - 1 THEN u[i] ELSE v[i - (k - 1)]
  <2> HIDE DEF r
  <2> QED BY <1>2, <1>3, <1>8
<1>5. RemoveAt(q, k) = r
  BY DEF RemoveAt, u, v
<1> HIDE DEF r
<1>6. Len(r) = l - 1
  BY <1>1, <1>4
<1>7. ASSUME NEW i \in 1..Len(r) PROVE r[i] = q[Shift(i, k - 1)]
  <2>1. CASE i <= k - 1
    <3>1. i \in 1 .. k - 1 /\ i \in 1 .. (k - 1) + (l - k) /\ Shift(i, k - 1) = i
      BY <1>1, <1>4, <2>1 DEF Shift
    <3> QED BY <1>2, <1>4, <2>1, <3>1
  <2>2. CASE ~(i <= k - 1)
    <3>1. /\ i \in 1 .. (k - 1) + (l - k) /\ Shift(i, k - 1) = i + 1
          /\ i - (k - 1) \in 1 .. l - k /\ k + (i - (k - 1)) = i + 1
      BY <1>1, <1>4, <2>2 DEF Shift
    <3>2. r[i] = v[i - (k - 1)]
      BY <1>4, <2>2, <3>1
    <3> QED BY <1>3, <3>1, <3>2
  <2> QED BY <2>1, <2>2
<1> QED BY <1>4, <1>5, <1>6, <1>7 DEF l

\* The places of r are the places of what Inserted makes of it but one.
LEMMA ShiftIs ==
  ASSUME NEW l \in Nat, NEW a \in 0..l
  PROVE  /\ \A i \in 1..l : Shift(i, a) \in 1 .. l + 1 /\ Shift(i, a) # a + 1
         /\ \A i, j \in 1..l : Shift(i, a) = Shift(j, a) => i = j
         /\ \A k \in 1 .. l + 1 : k # a + 1 => \E i \in 1..l : Shift(i, a) = k
<1>1. a \in Nat /\ a <= l
  OBVIOUS
<1>2. \A i \in 1..l : Shift(i, a) \in 1 .. l + 1 /\ Shift(i, a) # a + 1
  BY <1>1 DEF Shift
<1>3. \A i, j \in 1..l : Shift(i, a) = Shift(j, a) => i = j
  BY <1>1 DEF Shift
<1>4. ASSUME NEW k \in 1 .. l + 1, k # a + 1 PROVE \E i \in 1..l : Shift(i, a) = k
  <2>1. CASE k <= a
    <3>1. k \in 1..l /\ Shift(k, a) = k
      BY <1>1, <2>1 DEF Shift
    <3> QED BY <3>1
  <2>2. CASE ~(k <= a)
    <3>1. k - 1 \in 1..l /\ Shift(k - 1, a) = k
      BY <1>1, <1>4, <2>2 DEF Shift
    <3> QED BY <3>1
  <2> QED BY <2>1, <2>2
<1> QED BY <1>2, <1>3, <1>4

LEMMA PlaceIs ==
  ASSUME NEW S, NEW q \in Seq(S), Apart(q)
  PROVE  /\ \A k \in 1..Len(q) : PlaceOf(q, q[k]) = k - 1
         /\ \A x \in ToSet(q) : PlaceOf(q, x) \in 0 .. Len(q) - 1 /\ q[PlaceOf(q, x) + 1] = x
<1>1. Len(q) \in Nat /\ DOMAIN q = 1..Len(q)
  BY SeqFacts
<1>2. ASSUME NEW k \in 1..Len(q) PROVE PlaceOf(q, q[k]) = k - 1
  <2>1. k - 1 \in 0 .. Len(q) - 1 /\ (k - 1) + 1 = k
    BY <1>1
  <2>2. \A i \in 0 .. Len(q) - 1 : q[i + 1] = q[k] => i = k - 1
    <3>1. ASSUME NEW i \in 0 .. Len(q) - 1, q[i + 1] = q[k] PROVE i = k - 1
      <4>1. i + 1 \in 1..Len(q)
        BY <1>1
      <4>2. i + 1 = k
        BY <1>1, <3>1, <4>1 DEF Apart
      <4> QED BY <1>1, <4>2
    <3> QED BY <3>1
  <2>3. PlaceOf(q, q[k]) \in 0 .. Len(q) - 1 /\ q[PlaceOf(q, q[k]) + 1] = q[k]
    BY <2>1 DEF PlaceOf
  <2> QED BY <2>2, <2>3
<1>3. ASSUME NEW x \in ToSet(q)
      PROVE  PlaceOf(q, x) \in 0 .. Len(q) - 1 /\ q[PlaceOf(q, x) + 1] = x
  <2>1. PICK k \in 1..Len(q) : q[k] = x
    BY SeqFacts
  <2>2. PlaceOf(q, x) = k - 1 /\ k - 1 \in 0 .. Len(q) - 1 /\ (k - 1) + 1 = k
    BY <1>1, <1>2, <2>1
  <2> QED BY <2>1, <2>2
<1> QED BY <1>2, <1>3

\* A service that is put into a list in which it is not.
LEMMA InsertedLine ==
  ASSUME NEW S, NEW r \in Seq(S), Apart(r), NEW x \in S, x \notin ToSet(r), NEW a \in 0..Len(r)
  PROVE  /\ Apart(Inserted(r, x, a)) /\ ToSet(Inserted(r, x, a)) = ToSet(r) \cup {x}
         /\ PlaceOf(Inserted(r, x, a), x) = a
         /\ \A i \in 1..Len(r) : PlaceOf(Inserted(r, x, a), r[i]) = Shift(i, a) - 1
         /\ LeftOut(Inserted(r, x, a), x) = r
<1> DEFINE t == Inserted(r, x, a)
           l == Len(r)
<1>1. /\ t \in Seq(S) /\ Len(t) = l + 1 /\ t[a + 1] = x
      /\ \A i \in 1..l : t[Shift(i, a)] = r[i]
  <2>1. /\ Inserted(r, x, a) \in Seq(S) /\ Len(Inserted(r, x, a)) = Len(r) + 1
        /\ Inserted(r, x, a)[a + 1] = x
        /\ \A i \in 1..Len(r) : Inserted(r, x, a)[Shift(i, a)] = r[i]
    BY InsertedIs
  <2> QED BY <2>1
<1> HIDE DEF t
<1>2. /\ l \in Nat /\ a \in Nat /\ a + 1 \in 1 .. l + 1 /\ DOMAIN r = 1..l /\ DOMAIN t = 1 .. l + 1
      /\ \A z : z \in ToSet(r) <=> \E i \in 1..l : r[i] = z
      /\ \A z : z \in ToSet(t) <=> \E i \in 1 .. l + 1 : t[i] = z
  BY <1>1, SeqFacts
<1>3. /\ \A i \in 1..l : Shift(i, a) \in 1 .. l + 1 /\ Shift(i, a) # a + 1
      /\ \A i, j \in 1..l : Shift(i, a) = Shift(j, a) => i = j
      /\ \A k \in 1 .. l + 1 : k # a + 1 => \E i \in 1..l : Shift(i, a) = k
  BY <1>2, ShiftIs
<1>4. Apart(t)
  <2>1. SUFFICES ASSUME NEW j \in 1 .. l + 1, NEW k \in 1 .. l + 1, t[j] = t[k] PROVE j = k
    BY <1>2 DEF Apart
  <2>2. \A m \in 1 .. l + 1 : t[m] = x => m = a + 1
    BY <1>1, <1>2, <1>3
  <2>3. CASE t[j] = x
    BY <2>1, <2>2, <2>3
  <2>4. CASE t[j] # x
    <3>1. j # a + 1 /\ k # a + 1
      BY <1>1, <2>1, <2>4
    <3>2. PICK m \in 1..l : Shift(m, a) = j
      BY <1>3, <3>1
    <3>3. PICK n \in 1..l : Shift(n, a) = k
      BY <1>3, <3>1
    <3>4. r[m] = r[n]
      BY <1>1, <2>1, <3>2, <3>3
    <3>5. m = n
      BY <1>2, <3>4 DEF Apart
    <3> QED BY <3>2, <3>3, <3>5
  <2> QED BY <2>3, <2>4
<1>5. ToSet(t) = ToSet(r) \cup {x}
  <2>1. ASSUME NEW z \in ToSet(t) PROVE z \in ToSet(r) \cup {x}
    <3>1. PICK k \in 1 .. l + 1 : t[k] = z
      BY <1>2
    <3>2. CASE k = a + 1
      BY <1>1, <3>1, <3>2
    <3>3. CASE k # a + 1
      <4>1. PICK i \in 1..l : Shift(i, a) = k
        BY <1>3, <3>3
      <4> QED BY <1>1, <1>2, <3>1, <4>1
    <3> QED BY <3>2, <3>3
  <2>2. ASSUME NEW z \in ToSet(r) PROVE z \in ToSet(t)
    <3>1. PICK i \in 1..l : r[i] = z
      BY <1>2
    <3>2. Shift(i, a) \in 1 .. l + 1 /\ t[Shift(i, a)] = z
      BY <1>1, <1>3, <3>1
    <3> QED BY <1>2, <3>2
  <2>3. x \in ToSet(t)
    BY <1>1, <1>2
  <2> QED BY <2>1, <2>2, <2>3
<1>6. \A k \in 1 .. l + 1 : PlaceOf(t, t[k]) = k - 1
  BY <1>1, <1>4, PlaceIs
<1>7. PlaceOf(t, x) = a
  <2>1. PlaceOf(t, x) = (a + 1) - 1
    BY <1>1, <1>2, <1>6
  <2> QED BY <1>2, <2>1
<1>8. \A i \in 1..l : PlaceOf(t, r[i]) = Shift(i, a) - 1
  <2>1. \A i \in 1..l : PlaceOf(t, t[Shift(i, a)]) = Shift(i, a) - 1
    BY <1>3, <1>6
  <2> QED BY <1>1, <2>1
<1>9. LeftOut(t, x) = r
  <2> DEFINE u == RemoveAt(t, a + 1)
  <2>1. LeftOut(t, x) = u
    BY <1>5, <1>7 DEF LeftOut
  <2>2. a + 1 \in 1..Len(t) /\ (a + 1) - 1 = a
    BY <1>1, <1>2
  <2>3. /\ u \in Seq(S) /\ Len(u) = Len(t) - 1
        /\ \A i \in 1..Len(u) : u[i] = t[Shift(i, (a + 1) - 1)]
    BY <1>1, <2>2, TakenIs
  <2> HIDE DEF u
  <2>4. Len(u) = l
    BY <1>1, <1>2, <2>3
  <2>5. \A i \in 1..l : u[i] = r[i]
    BY <1>1, <2>2, <2>3, <2>4
  <2>6. u = r
    BY <2>3, <2>4, <2>5
  <2> QED BY <2>1, <2>6
<1> QED BY <1>4, <1>5, <1>7, <1>8, <1>9 DEF t

\* A list without a service, which was in it at some place.
LEMMA LeftLine ==
  ASSUME NEW S, NEW q \in Seq(S), Apart(q), NEW x
  PROVE  /\ LeftOut(q, x) \in Seq(S) /\ Apart(LeftOut(q, x)) /\ ToSet(LeftOut(q, x)) = ToSet(q) \ {x}
         /\ x \notin ToSet(q) => LeftOut(q, x) = q
         /\ x \in ToSet(q) =>
              /\ x \in S /\ Len(LeftOut(q, x)) = Len(q) - 1
              /\ PlaceOf(q, x) \in 0..Len(LeftOut(q, x))
              /\ q = Inserted(LeftOut(q, x), x, PlaceOf(q, x))
<1>0. /\ Len(q) \in Nat /\ DOMAIN q = 1..Len(q) /\ ToSet(q) \subseteq S
      /\ \A z : z \in ToSet(q) <=> \E i \in 1..Len(q) : q[i] = z
  BY SeqFacts
<1>1. CASE x \notin ToSet(q)
  BY <1>1 DEF LeftOut
<1>2. CASE x \in ToSet(q)
  <2> DEFINE a == PlaceOf(q, x)
             r == RemoveAt(q, a + 1)
  <2>1. a \in 0 .. Len(q) - 1 /\ q[a + 1] = x
    BY <1>2, PlaceIs
  <2>2. LeftOut(q, x) = r
    BY <1>2 DEF LeftOut
  <2> HIDE DEF a
  <2>3. a + 1 \in 1..Len(q) /\ (a + 1) - 1 = a /\ a \in Nat
    BY <1>0, <2>1
  <2>4. /\ r \in Seq(S) /\ Len(r) = Len(q) - 1
        /\ \A i \in 1..Len(r) : r[i] = q[Shift(i, (a + 1) - 1)]
    BY <2>3, TakenIs
  <2> HIDE DEF r
  <2>5. \A i \in 1..Len(r) : r[i] = q[Shift(i, a)]
    BY <2>3, <2>4
  <2>6. a \in 0..Len(r) /\ Len(r) \in Nat /\ Len(q) = Len(r) + 1
    BY <1>0, <2>1, <2>4
  <2>7. q = Inserted(r, x, a)
    <3>1. x \in S
      BY <1>0, <1>2
    <3> QED BY <2>1, <2>4, <2>5, <2>6, <3>1, InsertedIf
  <2>8. /\ \A i \in 1..Len(r) : Shift(i, a) \in 1 .. Len(r) + 1 /\ Shift(i, a) # a + 1
        /\ \A i, j \in 1..Len(r) : Shift(i, a) = Shift(j, a) => i = j
        /\ \A k \in 1 .. Len(r) + 1 : k # a + 1 => \E i \in 1..Len(r) : Shift(i, a) = k
    BY <2>6, ShiftIs
  <2>9. DOMAIN r = 1..Len(r) /\ \A z : z \in ToSet(r) <=> \E i \in 1..Len(r) : r[i] = z
    BY <2>4, SeqFacts
  <2>10. \A j, k \in 1 .. Len(r) + 1 : q[j] = q[k] => j = k
    BY <1>0, <2>6 DEF Apart
  <2>11. Apart(r)
    <3>1. \A i, j \in 1..Len(r) : r[i] = r[j] => i = j
      BY <2>5, <2>8, <2>10
    <3> QED BY <2>9, <3>1 DEF Apart
  <2>12. ToSet(r) = ToSet(q) \ {x}
    <3>1. ASSUME NEW z \in ToSet(r) PROVE z \in ToSet(q) /\ z # x
      <4>1. PICK i \in 1..Len(r) : r[i] = z
        BY <2>9
      <4>2. Shift(i, a) \in 1 .. Len(r) + 1 /\ q[Shift(i, a)] = z /\ Shift(i, a) # a + 1
        BY <2>5, <2>8, <4>1
      <4>3. a + 1 \in 1 .. Len(r) + 1
        BY <2>3, <2>6
      <4> QED BY <1>0, <2>1, <2>6, <2>10, <4>2, <4>3
    <3>2. ASSUME NEW z \in ToSet(q), z # x PROVE z \in ToSet(r)
      <4>1. PICK k \in 1 .. Len(r) + 1 : q[k] = z
        BY <1>0, <2>6
      <4>2. k # a + 1
        BY <2>1, <3>2, <4>1
      <4>3. PICK i \in 1..Len(r) : Shift(i, a) = k
        BY <2>8, <4>2
      <4> QED BY <2>5, <2>9, <4>1, <4>3
    <3> QED BY <3>1, <3>2
  <2>13. x \in S
    BY <1>0, <1>2
  <2> QED BY <1>2, <2>2, <2>4, <2>6, <2>7, <2>11, <2>12, <2>13 DEF a
<1> QED BY <1>1, <1>2

LEMMA AppendedIs ==
  ASSUME NEW S, NEW q \in Seq(S), NEW x \in S
  PROVE  Append(q, x) \in Seq(S) /\ Append(q, x) = Inserted(q, x, Len(q))
<1> DEFINE t == Append(q, x)
           l == Len(q)
<1>1. /\ l \in Nat /\ t \in Seq(S) /\ Len(t) = l + 1 /\ t[l + 1] = x
      /\ \A i \in 1..l : t[i] = q[i]
  OBVIOUS
<1> HIDE DEF t
<1>2. l \in 0..l /\ \A i \in 1..l : Shift(i, l) = i
  BY <1>1 DEF Shift
<1>3. \A i \in 1..l : t[Shift(i, l)] = q[i]
  BY <1>1, <1>2
<1>4. t = Inserted(q, x, Len(q))
  BY <1>1, <1>2, <1>3, InsertedIf
<1> QED BY <1>1, <1>4 DEF t

\* What Inserted makes, place by place.
LEMMA InsertedAt ==
  ASSUME NEW S, NEW r \in Seq(S), NEW x \in S, NEW a \in 0..Len(r), NEW j \in 1 .. Len(r) + 1
  PROVE  Inserted(r, x, a)[j] = IF j <= a THEN r[j] ELSE IF j = a + 1 THEN x ELSE r[j - 1]
<1>1. /\ Inserted(r, x, a)[a + 1] = x
      /\ \A i \in 1..Len(r) : Inserted(r, x, a)[Shift(i, a)] = r[i]
  <2>1. Inserted(r, x, a)[a + 1] = x
    BY InsertedIs
  <2>2. ASSUME NEW i \in 1..Len(r) PROVE Inserted(r, x, a)[Shift(i, a)] = r[i]
    BY InsertedIs
  <2> QED BY <2>1, <2>2
<1>2. Len(r) \in Nat /\ a \in Nat /\ a <= Len(r)
  OBVIOUS
<1>3. CASE j <= a
  <2>1. j \in 1..Len(r) /\ Shift(j, a) = j
    BY <1>2, <1>3 DEF Shift
  <2> QED BY <1>1, <1>3, <2>1
<1>4. CASE j = a + 1
  BY <1>1, <1>2, <1>4
<1>5. CASE ~(j <= a) /\ j # a + 1
  <2>1. j - 1 \in 1..Len(r) /\ Shift(j - 1, a) = j
    BY <1>2, <1>5 DEF Shift
  <2> QED BY <1>1, <1>5, <2>1
<1> QED BY <1>3, <1>4, <1>5

LEMMA ReorderedIs ==
  ASSUME NEW S, NEW q \in Seq(S), Apart(q), NEW x \in S, NEW at \in Nat
  PROVE  /\ Reordered(q, x, at) \in Seq(S) /\ Apart(Reordered(q, x, at))
         /\ ToSet(Reordered(q, x, at)) = ToSet(q) \cup {x}
         /\ LeftOut(Reordered(q, x, at), x) = LeftOut(q, x)
         /\ at <= Len(LeftOut(q, x)) =>
              /\ Reordered(q, x, at) = Inserted(LeftOut(q, x), x, at)
              /\ PlaceOf(Reordered(q, x, at), x) = at
         /\ at > Len(LeftOut(q, x)) =>
              Reordered(q, x, at) = Inserted(LeftOut(q, x), x, Len(LeftOut(q, x)))
<1> DEFINE r == LeftOut(q, x)
           m == IF at < Len(r) THEN at ELSE Len(r)
           t == Reordered(q, x, at)
<1>1. r \in Seq(S) /\ Apart(r) /\ ToSet(r) = ToSet(q) \ {x}
  BY LeftLine
<1>2. t = InsertAt(r, 1 + m, x)
  BY DEF Reordered
<1> HIDE DEF r, t
<1>3. /\ Len(r) \in Nat /\ m \in 0..Len(r) /\ 1 + m = m + 1 /\ x \notin ToSet(r)
      /\ at <= Len(r) => m = at
      /\ at > Len(r) => m = Len(r)
  BY <1>1
<1> HIDE DEF m
<1>4. t = Inserted(r, x, m)
  BY <1>2, <1>3 DEF Inserted
<1>5. t \in Seq(S)
  BY <1>1, <1>3, <1>4, InsertedIs
<1>6. Apart(t) /\ ToSet(t) = ToSet(r) \cup {x} /\ PlaceOf(t, x) = m /\ LeftOut(t, x) = r
  BY <1>1, <1>3, <1>4, InsertedLine
<1>7. ToSet(t) = ToSet(q) \cup {x}
  BY <1>1, <1>6
<1> QED BY <1>3, <1>4, <1>5, <1>6, <1>7 DEF r, t

LEMMA ReorderedLine ==
  ASSUME NEW S, NEW q \in Seq(S), Apart(q), NEW x \in S, NEW at \in Nat
  PROVE  /\ Reordered(q, x, at) \in Seq(S) /\ Apart(Reordered(q, x, at))
         /\ ToSet(Reordered(q, x, at)) = ToSet(q) \cup {x}
<1>1. Reordered(q, x, at) \in Seq(S) /\ Apart(Reordered(q, x, at))
  BY ReorderedIs
<1>2. ToSet(Reordered(q, x, at)) = ToSet(q) \cup {x}
  BY ReorderedIs
<1> QED BY <1>1, <1>2

LEMMA ReorderedStays ==
  ASSUME NEW S, NEW q \in Seq(S), Apart(q), NEW x \in ToSet(q)
  PROVE  Reordered(q, x, PlaceOf(q, x)) = q
<1>1. /\ x \in S /\ PlaceOf(q, x) \in 0..Len(LeftOut(q, x)) /\ LeftOut(q, x) \in Seq(S)
      /\ q = Inserted(LeftOut(q, x), x, PlaceOf(q, x))
  BY LeftLine
<1>2. PlaceOf(q, x) \in Nat /\ PlaceOf(q, x) <= Len(LeftOut(q, x))
  BY <1>1
<1> QED BY <1>1, <1>2, ReorderedIs

\* If what follows p is put where p is, p comes behind it.
LEMMA Swaps ==
  ASSUME NEW S, NEW w \in Seq(S), Apart(w), NEW p \in S, p \notin ToSet(w),
         NEW a \in 0 .. Len(w) - 1
  PROVE  Reordered(Inserted(w, p, a), w[a + 1], a) = Inserted(w, p, a + 1)
<1> DEFINE l == Len(w)
           b == Inserted(w, p, a)
           c == Inserted(w, p, a + 1)
           x == w[a + 1]
<1>1. /\ l \in Nat /\ a \in Nat /\ a < l /\ a \in 0..l /\ a + 1 \in 0..l /\ a + 1 \in 1..l
      /\ x \in S /\ x \in ToSet(w)
  BY SeqFacts
<1>2. b \in Seq(S) /\ Len(b) = l + 1 /\ c \in Seq(S) /\ Len(c) = l + 1
  BY <1>1, InsertedIs
<1>3. /\ Apart(b) /\ ToSet(b) = ToSet(w) \cup {p} /\ PlaceOf(b, x) = Shift(a + 1, a) - 1
      /\ Apart(c) /\ ToSet(c) = ToSet(w) \cup {p} /\ PlaceOf(c, x) = Shift(a + 1, a + 1) - 1
  BY <1>1, InsertedLine
<1>4. PlaceOf(b, x) + 1 = a + 2 /\ PlaceOf(c, x) + 1 = a + 1 /\ PlaceOf(c, x) = a
  BY <1>1, <1>3 DEF Shift
<1>5. \A j \in 1 .. l + 1 : b[j] = IF j <= a THEN w[j] ELSE IF j = a + 1 THEN p ELSE w[j - 1]
  BY <1>1, InsertedAt
<1>6. \A j \in 1 .. l + 1 : c[j] = IF j <= a + 1 THEN w[j] ELSE IF j = a + 1 + 1 THEN p ELSE w[j - 1]
  BY <1>1, InsertedAt
<1>7. x \in ToSet(b) /\ x \in ToSet(c)
  BY <1>1, <1>3
<1>8. LeftOut(b, x) = RemoveAt(b, a + 2) /\ LeftOut(c, x) = RemoveAt(c, a + 1)
  BY <1>4, <1>7 DEF LeftOut
<1> HIDE DEF b, c, x
<1> DEFINE d == RemoveAt(b, a + 2)
           e == RemoveAt(c, a + 1)
<1>9. a + 2 \in 1..Len(b) /\ a + 1 \in 1..Len(c) /\ (a + 2) - 1 = a + 1 /\ (a + 1) - 1 = a
  BY <1>1, <1>2
<1>10. d \in Seq(S) /\ Len(d) = Len(b) - 1 /\ \A i \in 1..Len(d) : d[i] = b[Shift(i, (a + 2) - 1)]
  BY <1>2, <1>9, TakenIs
<1>11. e \in Seq(S) /\ Len(e) = Len(c) - 1 /\ \A i \in 1..Len(e) : e[i] = c[Shift(i, (a + 1) - 1)]
  BY <1>2, <1>9, TakenIs
<1> HIDE DEF d, e
<1>12. Len(d) = l /\ Len(e) = l
  BY <1>1, <1>2, <1>10, <1>11
<1>13. ASSUME NEW i \in 1..l PROVE d[i] = e[i]
  <2>1. d[i] = b[Shift(i, a + 1)] /\ e[i] = c[Shift(i, a)]
    BY <1>9, <1>10, <1>11, <1>12
  <2>2. CASE i <= a
    <3>1. Shift(i, a + 1) = i /\ Shift(i, a) = i /\ i \in 1 .. l + 1 /\ i <= a + 1
      BY <1>1, <2>2 DEF Shift
    <3> QED BY <1>5, <1>6, <2>1, <2>2, <3>1
  <2>3. CASE i = a + 1
    <3>1. /\ Shift(i, a + 1) = a + 1 /\ Shift(i, a) = a + 1 + 1
          /\ a + 1 \in 1 .. l + 1 /\ a + 1 + 1 \in 1 .. l + 1
          /\ ~(a + 1 <= a) /\ ~(a + 1 + 1 <= a + 1)
      BY <1>1, <2>3 DEF Shift
    <3>2. b[a + 1] = p /\ c[a + 1 + 1] = p
      BY <1>5, <1>6, <3>1
    <3> QED BY <2>1, <3>1, <3>2
  <2>4. CASE ~(i <= a) /\ i # a + 1
    <3>1. /\ Shift(i, a + 1) = i + 1 /\ Shift(i, a) = i + 1 /\ i + 1 \in 1 .. l + 1
          /\ ~(i + 1 <= a) /\ i + 1 # a + 1 /\ ~(i + 1 <= a + 1) /\ i + 1 # a + 1 + 1
      BY <1>1, <2>4 DEF Shift
    <3> QED BY <1>5, <1>6, <2>1, <3>1
  <2> QED BY <2>2, <2>3, <2>4
<1>14. d = e
  BY <1>10, <1>11, <1>12, <1>13
<1>15. LeftOut(b, x) = LeftOut(c, x)
  BY <1>8, <1>14 DEF d, e
<1>16. c = Inserted(LeftOut(c, x), x, a) /\ a \in 0..Len(LeftOut(c, x)) /\ LeftOut(c, x) \in Seq(S)
  <2>1. /\ c = Inserted(LeftOut(c, x), x, PlaceOf(c, x)) /\ LeftOut(c, x) \in Seq(S)
        /\ PlaceOf(c, x) \in 0..Len(LeftOut(c, x))
    BY <1>2, <1>3, <1>7, LeftLine
  <2> QED BY <1>4, <2>1
<1>17. a <= Len(LeftOut(b, x))
  BY <1>1, <1>15, <1>16
<1>18. Reordered(b, x, a) = Inserted(LeftOut(b, x), x, a)
  BY <1>1, <1>2, <1>3, <1>17, ReorderedIs
<1>19. Reordered(b, x, a) = c
  BY <1>15, <1>16, <1>18
<1> QED BY <1>19 DEF b, c, x

\* h is the first of q.
Leads(q, h) == 1 \in DOMAIN q /\ q[1] = h

LEMMA LeadsYet ==
  ASSUME NEW S, NEW q \in Seq(S), Apart(q), NEW h, Leads(q, h), NEW x \in S, x # h, NEW at \in Nat
  PROVE  /\ Leads(LeftOut(q, x), h) /\ (at > 0 => Leads(Reordered(q, x, at), h))
         /\ Leads(Append(q, x), h)
<1> DEFINE r == LeftOut(q, x)
<1>1. /\ r \in Seq(S) /\ Apart(r) /\ ToSet(r) = ToSet(q) \ {x}
      /\ x \notin ToSet(q) => r = q
      /\ x \in ToSet(q) => /\ Len(r) = Len(q) - 1 /\ PlaceOf(q, x) \in 0..Len(r)
                           /\ q = Inserted(r, x, PlaceOf(q, x))
  BY LeftLine
<1> HIDE DEF r
<1>2. /\ DOMAIN q = 1..Len(q) /\ Len(q) \in Nat /\ 1 \in 1..Len(q) /\ q[1] = h /\ h \in ToSet(q)
      /\ DOMAIN r = 1..Len(r) /\ Len(r) \in Nat /\ (r = <<>> <=> Len(r) = 0)
  BY <1>1, SeqFacts DEF Leads
<1>3. Leads(r, h)
  <2>1. CASE x \notin ToSet(q)
    BY <1>1, <2>1 DEF Leads
  <2>2. CASE x \in ToSet(q)
    <3> DEFINE a == PlaceOf(q, x)
    <3>1. a \in 0..Len(r) /\ q = Inserted(r, x, a) /\ Len(q) = Len(r) + 1
      BY <1>1, <1>2, <2>2
    <3> HIDE DEF a
    <3>2. 1 \in 1 .. Len(r) + 1
      BY <1>2
    <3>3. q[1] = IF 1 <= a THEN r[1] ELSE IF 1 = a + 1 THEN x ELSE r[1 - 1]
      BY <1>1, <3>1, <3>2, InsertedAt
    <3>4. 1 <= a
      BY <1>2, <3>1, <3>3
    <3>5. 1 \in 1..Len(r) /\ r[1] = h
      BY <1>2, <3>1, <3>3, <3>4
    <3> QED BY <1>2, <3>5 DEF Leads
  <2> QED BY <2>1, <2>2
<1>4. 1 \in 1..Len(r) /\ r[1] = h
  BY <1>2, <1>3 DEF Leads
<1>5. ASSUME NEW m \in 1..Len(r) PROVE Leads(Inserted(r, x, m), h)
  <2>1. m \in 0..Len(r) /\ 1 <= m /\ 1 \in 1 .. Len(r) + 1
    BY <1>2
  <2>2. Inserted(r, x, m) \in Seq(S) /\ Len(Inserted(r, x, m)) = Len(r) + 1
    BY <1>1, <2>1, InsertedIs
  <2>3. Inserted(r, x, m)[1] = h
    BY <1>1, <1>4, <2>1, InsertedAt
  <2> QED BY <2>1, <2>2, <2>3 DEF Leads
<1>6. ASSUME at > 0 PROVE Leads(Reordered(q, x, at), h)
  <2>1. CASE at <= Len(r)
    <3>1. Reordered(q, x, at) = Inserted(r, x, at)
      BY <2>1, ReorderedIs DEF r
    <3>2. at \in 1..Len(r)
      BY <1>2, <1>6, <2>1
    <3> QED BY <1>5, <3>1, <3>2
  <2>2. CASE at > Len(r)
    <3>1. Reordered(q, x, at) = Inserted(r, x, Len(r))
      BY <2>2, ReorderedIs DEF r
    <3>2. Len(r) \in 1..Len(r)
      BY <1>4
    <3> QED BY <1>5, <3>1, <3>2
  <2> QED BY <1>2, <2>1, <2>2
<1>7. Leads(Append(q, x), h)
  <2>1. Append(q, x) \in Seq(S) /\ Len(Append(q, x)) = Len(q) + 1 /\ Append(q, x)[1] = q[1]
    BY <1>2
  <2> QED BY <1>2, <2>1 DEF Leads
<1> QED BY <1>3, <1>6, <1>7 DEF r

LEMMA LeadsNow ==
  ASSUME NEW S, NEW q \in Seq(S), Apart(q), NEW x \in S
  PROVE  Leads(Reordered(q, x, 0), x)
<1>1. LeftOut(q, x) \in Seq(S) /\ 0 <= Len(LeftOut(q, x)) /\ 0 \in 0..Len(LeftOut(q, x)) /\ 0 \in Nat
  BY LeftLine
<1>2. Reordered(q, x, 0) = Inserted(LeftOut(q, x), x, 0)
  BY <1>1, ReorderedIs
<1>3. /\ Inserted(LeftOut(q, x), x, 0) \in Seq(S)
      /\ Len(Inserted(LeftOut(q, x), x, 0)) = Len(LeftOut(q, x)) + 1
      /\ Inserted(LeftOut(q, x), x, 0)[0 + 1] = x
  BY <1>1, InsertedIs
<1>4. 0 + 1 = 1 /\ 1 \in 1 .. Len(LeftOut(q, x)) + 1
  BY <1>1
<1> QED BY <1>2, <1>3, <1>4 DEF Leads

\* There are not more services in a list than services.
LEMMA LengthIs ==
  ASSUME NEW S, IsFiniteSet(S), NEW q \in Seq(S), Apart(q)
  PROVE  Len(q) = Cardinality(ToSet(q)) /\ Len(q) <= Cardinality(S)
<1>1. /\ Len(q) \in Nat /\ DOMAIN q = 1..Len(q) /\ \A i \in 1..Len(q) : q[i] \in S
      /\ \A x : x \in ToSet(q) <=> \E i \in 1..Len(q) : q[i] = x
      /\ ToSet(q) \subseteq S
  BY SeqFacts
<1>2. IsFiniteSet(1..Len(q)) /\ Cardinality(1..Len(q)) = Len(q)
  <2>1. 1 \in Int /\ Len(q) \in Int
    BY <1>1
  <2>2. IsFiniteSet(1..Len(q)) /\ Cardinality(1..Len(q)) = IF 1 > Len(q) THEN 0 ELSE Len(q) - 1 + 1
    BY <2>1, FS_Interval
  <2>3. (IF 1 > Len(q) THEN 0 ELSE Len(q) - 1 + 1) = Len(q)
    BY <1>1
  <2> QED BY <2>2, <2>3
<1>3. q \in [1..Len(q) -> ToSet(q)]
  BY <1>1
<1>4. q \in Surjection(1..Len(q), ToSet(q))
  BY <1>1, <1>3 DEF Surjection
<1>5. q \in Injection(1..Len(q), ToSet(q))
  BY <1>1, <1>3 DEF Injection, IsInjective, Apart
<1>6. Cardinality(ToSet(q)) = Len(q)
  BY <1>2, <1>4, <1>5, FS_Surjection
<1>7. Cardinality(ToSet(q)) <= Cardinality(S)
  BY <1>1, FS_Subset
<1> QED BY <1>6, <1>7

LEMMA LineIsOrder ==
  ASSUME ListAssumption, NEW q \in Seq(Paths), Apart(q)
  PROVE  q \in Orders
BY LengthIs, OrderIs DEF ListAssumption

LEMMA OrdersStay ==
  ASSUME ListAssumption, NEW q \in Orders, NEW x
  PROVE  /\ q \in Seq(Paths) /\ Apart(q)
         /\ LeftOut(q, x) \in Orders /\ ToSet(LeftOut(q, x)) = ToSet(q) \ {x}
         /\ x \in Paths => \A at \in Nat : /\ Reordered(q, x, at) \in Orders
                                           /\ ToSet(Reordered(q, x, at)) = ToSet(q) \cup {x}
<1>1. q \in Seq(Paths) /\ Apart(q)
  BY OrderIs
<1>2. LeftOut(q, x) \in Seq(Paths) /\ Apart(LeftOut(q, x)) /\ ToSet(LeftOut(q, x)) = ToSet(q) \ {x}
  BY <1>1, LeftLine
<1>3. ASSUME x \in Paths, NEW at \in Nat
      PROVE  Reordered(q, x, at) \in Orders /\ ToSet(Reordered(q, x, at)) = ToSet(q) \cup {x}
  <2>1. /\ Reordered(q, x, at) \in Seq(Paths) /\ Apart(Reordered(q, x, at))
        /\ ToSet(Reordered(q, x, at)) = ToSet(q) \cup {x}
    <3>1. x \in Paths /\ at \in Nat
      BY <1>3
    <3>2. Reordered(q, x, at) \in Seq(Paths) /\ Apart(Reordered(q, x, at))
      BY <1>1, <3>1, ReorderedLine
    <3>3. ToSet(Reordered(q, x, at)) = ToSet(q) \cup {x}
      BY <1>1, <3>1, ReorderedLine
    <3> QED BY <3>2, <3>3
  <2> QED BY <2>1, LineIsOrder
<1> QED BY <1>1, <1>2, <1>3, LineIsOrder

(***************************************************************************)
(* What the handlers do to the list's state.                               *)
(***************************************************************************)
MoveCalls      == [item: Paths, other: Paths, after: BOOLEAN, from: BoxPlaces, lives: BOOLEAN]
ListStates ==
  [list: Orders, rows: SUBSET Paths, named: SUBSET Paths, inBox: Orders, stale: SUBSET Paths,
   due: SUBSET Paths, orphans: SUBSET Paths, fallback: BOOLEAN,
   cells: [live: SUBSET Cellular, dead: Nat], dummy: BOOLEAN, dragged: SUBSET Paths,
   moves: SUBSET MoveCalls, lost: BOOLEAN]

\* What holds between the handlers, but for the types of the services in ps that are not
\* looked at yet, if oFono has n connection managers.
SoundBut(s, ps, n) ==
  /\ ToSet(s.inBox) \cup s.dragged = s.rows /\ s.dragged \cap ToSet(s.inBox) = {}
  /\ s.fallback <=> s.rows = {}
  /\ s.rows = {} => s.orphans = {}
  /\ s.stale \subseteq s.due /\ s.due \subseteq s.rows
  /\ s.named \subseteq s.rows /\ s.cells.live \subseteq s.named
  /\ (s.named \cap Cellular) \ s.cells.live \subseteq s.due \cup ps
  /\ ~s.lost => s.cells.dead = 0
  /\ s.dummy <=> n > Cardinality(s.cells.live) + s.cells.dead
SoundStates(n) == {s \in ListStates : SoundBut(s, {}, n)}

\* t differs from s at most in what is shown.
SameOrder(s, t) == t.list = s.list /\ t.named = s.named /\ t.dragged = s.dragged /\ t.moves = s.moves

LEMMA LivesCount ==
  ASSUME ListAssumption, NEW q \in SUBSET Cellular
  PROVE  IsFiniteSet(q) /\ Cardinality(q) \in Nat
<1>1. q \in SUBSET Paths
  BY DEF ListAssumption
<1> QED BY <1>1, FS_Subset, FS_CardinalityType DEF ListAssumption

LEMMA ModemIs ==
  ASSUME ListAssumption, NEW s \in ListStates, NEW n
  PROVE  /\ Modem(s, n) \in ListStates
         /\ Modem(s, n).dummy <=> n > Cardinality(s.cells.live) + s.cells.dead
         /\ SameOrder(s, Modem(s, n)) /\ Modem(s, n).rows = s.rows /\ Modem(s, n).inBox = s.inBox
         /\ Modem(s, n).stale = s.stale /\ Modem(s, n).due = s.due /\ Modem(s, n).cells = s.cells
         /\ Modem(s, n).fallback = s.fallback /\ Modem(s, n).lost = s.lost
         /\ Modem(s, n).orphans = s.orphans
<1>1. (n > Cardinality(s.cells.live) + s.cells.dead) \in BOOLEAN
  OBVIOUS
<1> QED BY <1>1 DEF Modem, ListStates, SameOrder

LEMMA ItemsUpdatedIs ==
  ASSUME ListAssumption, NEW s \in SoundStates(managers), NEW ps
  PROVE  /\ ItemsUpdated(s, ps) \in SoundStates(managers) /\ SameOrder(s, ItemsUpdated(s, ps))
         /\ ItemsUpdated(s, ps).rows = s.rows /\ ItemsUpdated(s, ps).inBox = s.inBox
<1> DEFINE new == (ps \cap s.named \cap Cellular) \ s.cells.live
           t == [s EXCEPT !.stale = @ \ ps, !.due = @ \ ps]
           u == [t EXCEPT !.cells.live = @ \cup new]
           v == ItemsUpdated(s, ps)
<1>1. s \in ListStates /\ SoundBut(s, {}, managers)
  BY DEF SoundStates
<1>2. v = IF new = {} THEN t ELSE Modem(u, managers)
  BY DEF ItemsUpdated
<1>3. /\ t \in ListStates /\ t.stale = s.stale \ ps /\ t.due = s.due \ ps /\ SameOrder(s, t)
      /\ t.rows = s.rows /\ t.inBox = s.inBox /\ t.cells = s.cells /\ t.fallback = s.fallback
      /\ t.lost = s.lost /\ t.dummy = s.dummy /\ t.orphans = s.orphans
  BY <1>1 DEF ListStates, SameOrder
<1>4. /\ u \in ListStates /\ u.stale = t.stale /\ u.due = t.due /\ SameOrder(t, u)
      /\ u.rows = t.rows /\ u.inBox = t.inBox /\ u.cells.live = t.cells.live \cup new
      /\ u.cells.dead = t.cells.dead /\ u.fallback = t.fallback /\ u.lost = t.lost
      /\ u.orphans = t.orphans
  <2> HIDE DEF t
  <2>1. new \subseteq Cellular
    OBVIOUS
  <2> QED BY <1>3, <2>1 DEF ListStates, SameOrder
<1> HIDE DEF t, u, v
<1>5. CASE new = {}
  <2>1. v = t
    BY <1>2, <1>5
  <2>2. SoundBut(t, {}, managers)
    BY <1>1, <1>3, <1>5 DEF SoundBut, SameOrder
  <2> QED BY <1>3, <2>1, <2>2 DEF SoundStates, v
<1>6. CASE new # {}
  <2>1. v = Modem(u, managers)
    BY <1>2, <1>6
  <2>2. /\ v \in ListStates /\ (v.dummy <=> managers > Cardinality(u.cells.live) + u.cells.dead)
        /\ SameOrder(u, v) /\ v.rows = u.rows /\ v.inBox = u.inBox
        /\ v.stale = u.stale /\ v.due = u.due /\ v.cells = u.cells
        /\ v.fallback = u.fallback /\ v.lost = u.lost /\ v.orphans = u.orphans
    BY <1>4, <2>1, ModemIs
  <2>3. SameOrder(s, v) /\ v.rows = s.rows /\ v.inBox = s.inBox
    BY <1>3, <1>4, <2>2 DEF SameOrder
  <2>4. /\ v.stale = s.stale \ ps /\ v.due = s.due \ ps /\ v.cells.live = s.cells.live \cup new
        /\ v.cells.dead = s.cells.dead /\ v.fallback = s.fallback /\ v.lost = s.lost
        /\ v.orphans = s.orphans
        /\ (v.dummy <=> managers > Cardinality(v.cells.live) + v.cells.dead)
    BY <1>3, <1>4, <2>2
  <2>5. SoundBut(v, {}, managers)
    BY <1>1, <2>3, <2>4 DEF SoundBut, SameOrder
  <2> QED BY <2>2, <2>3, <2>5 DEF SoundStates, v
<1> QED BY <1>5, <1>6

LEMMA RowInsertedIs ==
  ASSUME ListAssumption, NEW s \in SoundStates(managers), NEW p \in Paths, p \notin s.rows
  PROVE  /\ RowInserted(s, p) \in SoundStates(managers) /\ SameOrder(s, RowInserted(s, p))
         /\ RowInserted(s, p).rows = s.rows \cup {p}
         /\ RowInserted(s, p).inBox = Append(s.inBox, p)
<1> DEFINE t == [s EXCEPT !.rows = @ \cup {p}, !.inBox = Append(@, p), !.fallback = FALSE]
           q == Append(s.inBox, p)
<1>1. s \in ListStates /\ SoundBut(s, {}, managers) /\ s.inBox \in Orders /\ s.rows \in SUBSET Paths
  BY DEF SoundStates, ListStates
<1>2. s.inBox \in Seq(Paths) /\ Apart(s.inBox) /\ p \notin ToSet(s.inBox)
  BY <1>1, OrderIs DEF SoundBut
<1>3. q \in Seq(Paths) /\ q = Inserted(s.inBox, p, Len(s.inBox))
  BY <1>2, AppendedIs
<1>4. Apart(q) /\ ToSet(q) = ToSet(s.inBox) \cup {p}
  <2>1. Len(s.inBox) \in 0..Len(s.inBox)
    BY <1>2
  <2> QED BY <1>2, <1>3, <2>1, InsertedLine
<1>5. q \in Orders
  BY <1>3, <1>4, LineIsOrder
<1> HIDE DEF q
<1>6. t = [s EXCEPT !.rows = @ \cup {p}, !.inBox = q, !.fallback = FALSE]
  BY DEF q
<1> HIDE DEF t
<1>7. /\ t \in ListStates /\ t.rows = s.rows \cup {p} /\ t.inBox = q /\ ~t.fallback /\ SameOrder(s, t)
      /\ t.stale = s.stale /\ t.due = s.due /\ t.cells = s.cells /\ t.dummy = s.dummy
      /\ t.lost = s.lost /\ t.orphans = s.orphans
  BY <1>1, <1>5, <1>6 DEF ListStates, SameOrder
<1>8. SoundBut(t, {}, managers)
  BY <1>1, <1>4, <1>7 DEF SoundBut, SameOrder
<1>9. t \in SoundStates(managers)
  BY <1>7, <1>8 DEF SoundStates
<1>10. RowInserted(s, p) = ItemsUpdated(t, {p})
  BY DEF RowInserted, t
<1>11. /\ ItemsUpdated(t, {p}) \in SoundStates(managers) /\ SameOrder(t, ItemsUpdated(t, {p}))
       /\ ItemsUpdated(t, {p}).rows = t.rows /\ ItemsUpdated(t, {p}).inBox = t.inBox
  BY <1>9, ItemsUpdatedIs
<1> QED BY <1>7, <1>10, <1>11 DEF SameOrder, q

LEMMA RowChangedIs ==
  ASSUME ListAssumption, NEW s \in ListStates, NEW p \in Paths, SoundBut(s, {p}, managers),
         p \in s.rows, NEW index \in Nat
  PROVE  /\ RowChanged(s, p, index) \in SoundStates(managers)
         /\ SameOrder(s, RowChanged(s, p, index)) /\ RowChanged(s, p, index).rows = s.rows
         /\ p \in ToSet(s.inBox) =>
              RowChanged(s, p, index).inBox = Reordered(s.inBox, p, index)
         /\ p \notin ToSet(s.inBox) => RowChanged(s, p, index).inBox = s.inBox
<1> DEFINE t == RowChanged(s, p, index)
           q == IF p \in ToSet(s.inBox) THEN Reordered(s.inBox, p, index) ELSE s.inBox
<1>1. s.inBox \in Orders /\ s.inBox \in Seq(Paths) /\ Apart(s.inBox)
  BY OrderIs DEF ListStates
<1>2. q \in Orders /\ ToSet(q) = ToSet(s.inBox)
  <2>1. CASE p \in ToSet(s.inBox)
    <3>1. /\ Reordered(s.inBox, p, index) \in Orders
          /\ ToSet(Reordered(s.inBox, p, index)) = ToSet(s.inBox) \cup {p}
      BY <1>1, OrdersStay
    <3> QED BY <2>1, <3>1
  <2>2. CASE p \notin ToSet(s.inBox)
    BY <1>1, <2>2
  <2> QED BY <2>1, <2>2
<1>3. t = [s EXCEPT !.stale = @ \cup {p}, !.due = @ \cup {p}, !.inBox = q]
  <2>1. CASE p \in ToSet(s.inBox)
    BY <2>1 DEF RowChanged
  <2>2. CASE p \notin ToSet(s.inBox)
    <3>1. p \in s.dragged
      BY <2>2 DEF SoundBut
    <3>2. t = [s EXCEPT !.stale = @ \cup {p}, !.due = @ \cup {p}]
      BY <2>2, <3>1 DEF RowChanged
    <3>3. q = s.inBox
      BY <2>2
    <3> HIDE DEF q, t
    <3> QED BY <3>2, <3>3 DEF ListStates
  <2> QED BY <2>1, <2>2
<1>4. (p \in ToSet(s.inBox) => q = Reordered(s.inBox, p, index)) /\ (p \notin ToSet(s.inBox) => q = s.inBox)
  OBVIOUS
<1> HIDE DEF q, t
<1>5. /\ t \in ListStates /\ t.inBox = q /\ t.stale = s.stale \cup {p} /\ t.due = s.due \cup {p}
      /\ SameOrder(s, t) /\ t.rows = s.rows /\ t.cells = s.cells /\ t.dummy = s.dummy
      /\ t.lost = s.lost /\ t.fallback = s.fallback /\ t.orphans = s.orphans
  BY <1>2, <1>3 DEF ListStates, SameOrder
<1>6. SoundBut(t, {}, managers)
  BY <1>2, <1>5 DEF SoundBut, SameOrder
<1> QED BY <1>4, <1>5, <1>6 DEF SoundStates, t

LEMMA RowDeletedIs ==
  ASSUME ListAssumption, NEW s \in SoundStates(managers), NEW p \in Paths
  PROVE  /\ RowDeleted(s, p) \in SoundStates(managers) /\ RowDeleted(s, p).list = s.list
         /\ RowDeleted(s, p).rows = s.rows \ {p} /\ RowDeleted(s, p).named = s.named \ {p}
         /\ RowDeleted(s, p).dragged = s.dragged \ {p}
         /\ RowDeleted(s, p).inBox = LeftOut(s.inBox, p)
         /\ s.moves = {} => RowDeleted(s, p).moves = {}
<1> DEFINE calls == {[c EXCEPT !.lives = @ /\ c.item # p] : c \in s.moves}
           q == LeftOut(s.inBox, p)
           orphaned == IF s.rows \subseteq {p} THEN {} ELSE s.orphans \cup ({p} \cap s.dragged \cap s.due)
           gone == [s EXCEPT !.rows = @ \ {p}, !.named = @ \ {p}, !.stale = @ \ {p}, !.due = @ \ {p},
                             !.inBox = q, !.dragged = @ \ {p}, !.cells.live = @ \ {p},
                             !.orphans = orphaned, !.moves = calls]
           t == RowDeleted(s, p)
           a == [gone EXCEPT !.fallback = @ \/ gone.rows = {}]
           b == [gone EXCEPT !.fallback = @ \/ gone.rows = {}, !.cells.dead = @ + 1, !.lost = TRUE]
<1>1. s \in ListStates /\ SoundBut(s, {}, managers)
  BY DEF SoundStates
<1>2. s.inBox \in Orders /\ s.inBox \in Seq(Paths) /\ Apart(s.inBox)
  BY <1>1, OrderIs DEF ListStates
<1>3. q \in Orders /\ ToSet(q) = ToSet(s.inBox) \ {p}
  <2>1. q \in Seq(Paths) /\ Apart(q) /\ ToSet(q) = ToSet(s.inBox) \ {p}
    BY <1>2, LeftLine
  <2> QED BY <2>1, LineIsOrder
<1>4. calls \in SUBSET MoveCalls /\ (s.moves = {} => calls = {})
  <2>0. s.moves \subseteq MoveCalls
    BY <1>1 DEF ListStates
  <2>1. \A c \in MoveCalls : [c EXCEPT !.lives = @ /\ c.item # p] \in MoveCalls
    BY DEF MoveCalls
  <2> QED BY <2>0, <2>1
<1>0. orphaned \in SUBSET Paths /\ (s.rows \ {p} = {} => orphaned = {})
  BY <1>1 DEF ListStates
<1>5. t = IF p \notin s.cells.live THEN a
          ELSE IF gone.rows = {} \/ p \in s.dragged THEN b ELSE Modem(gone, managers)
  BY DEF RowDeleted
<1> HIDE DEF calls, q, t, orphaned
<1>6. /\ gone \in ListStates /\ gone.rows = s.rows \ {p} /\ gone.named = s.named \ {p}
      /\ gone.stale = s.stale \ {p} /\ gone.due = s.due \ {p} /\ gone.inBox = q
      /\ gone.dragged = s.dragged \ {p} /\ gone.cells.live = s.cells.live \ {p}
      /\ gone.cells.dead = s.cells.dead /\ gone.moves = calls /\ gone.list = s.list
      /\ gone.fallback = s.fallback /\ gone.dummy = s.dummy /\ gone.lost = s.lost
      /\ gone.orphans = orphaned
  BY <1>0, <1>1, <1>3, <1>4 DEF ListStates
<1> HIDE DEF gone
<1>7. /\ a \in ListStates /\ a.fallback = (gone.fallback \/ gone.rows = {}) /\ SameOrder(gone, a)
      /\ a.rows = gone.rows /\ a.inBox = gone.inBox /\ a.stale = gone.stale /\ a.due = gone.due
      /\ a.cells = gone.cells /\ a.dummy = gone.dummy /\ a.lost = gone.lost
      /\ a.orphans = gone.orphans
  BY <1>6 DEF ListStates, SameOrder
<1>8. /\ b \in ListStates /\ b.fallback = (gone.fallback \/ gone.rows = {}) /\ SameOrder(gone, b)
      /\ b.rows = gone.rows /\ b.inBox = gone.inBox /\ b.stale = gone.stale /\ b.due = gone.due
      /\ b.cells.live = gone.cells.live /\ b.cells.dead = gone.cells.dead + 1
      /\ b.dummy = gone.dummy /\ b.lost /\ b.orphans = gone.orphans
  <2> DEFINE c == [gone.cells EXCEPT !.dead = @ + 1]
  <2>1. gone.cells \in [live: SUBSET Cellular, dead: Nat]
    BY <1>6 DEF ListStates
  <2>2. /\ c \in [live: SUBSET Cellular, dead: Nat]
        /\ c.live = gone.cells.live /\ c.dead = gone.cells.dead + 1
    BY <2>1
  <2>3. b = [gone EXCEPT !.fallback = @ \/ gone.rows = {}, !.cells = c, !.lost = TRUE]
    BY <1>6 DEF ListStates
  <2> HIDE DEF b, c
  <2> QED BY <1>6, <2>2, <2>3 DEF ListStates, SameOrder
<1> HIDE DEF a, b
<1>9. /\ IsFiniteSet(s.cells.live) /\ Cardinality(s.cells.live) \in Nat /\ s.cells.dead \in Nat
      /\ Cardinality(s.cells.live \ {p}) =
           IF p \in s.cells.live THEN Cardinality(s.cells.live) - 1 ELSE Cardinality(s.cells.live)
  <2>1. s.cells.live \in SUBSET Cellular /\ s.cells.dead \in Nat
    BY <1>1 DEF ListStates
  <2>2. IsFiniteSet(s.cells.live) /\ Cardinality(s.cells.live) \in Nat
    BY <2>1, LivesCount
  <2> QED BY <2>1, <2>2, FS_RemoveElement
<1> DEFINE Half(u) ==
      /\ u.list = s.list /\ u.rows = s.rows \ {p} /\ u.named = s.named \ {p}
      /\ u.dragged = s.dragged \ {p} /\ u.inBox = q /\ u.moves = calls
      /\ u.stale = s.stale \ {p} /\ u.due = s.due \ {p} /\ u.cells.live = s.cells.live \ {p}
      /\ (u.fallback <=> u.rows = {}) /\ u.orphans = orphaned
<1>10. ASSUME NEW u, Half(u), ~u.lost => u.cells.dead = 0,
              u.dummy <=> managers > Cardinality(u.cells.live) + u.cells.dead
       PROVE  SoundBut(u, {}, managers)
  BY <1>0, <1>1, <1>3, <1>10 DEF SoundBut
<1>11. t \in ListStates /\ Half(t) /\ SoundBut(t, {}, managers)
  <2>1. CASE p \notin s.cells.live
    <3>1. t = a
      BY <1>5, <2>1
    <3>2. Half(a)
      BY <1>1, <1>6, <1>7 DEF SameOrder, SoundBut
    <3>3. a.cells.live = s.cells.live /\ a.cells.dead = s.cells.dead /\ a.dummy = s.dummy /\ a.lost = s.lost
      BY <1>6, <1>7, <2>1
    <3>4. SoundBut(a, {}, managers)
      <4> HIDE DEF Half
      <4> QED BY <1>1, <1>10, <3>2, <3>3 DEF SoundBut
    <3> QED BY <1>7, <3>1, <3>2, <3>4
  <2>2. CASE p \in s.cells.live /\ (gone.rows = {} \/ p \in s.dragged)
    <3>1. t = b
      BY <1>5, <2>2
    <3>2. Half(b)
      BY <1>1, <1>6, <1>8, <2>2 DEF SameOrder, SoundBut
    <3>3. b.cells.live = s.cells.live \ {p} /\ b.cells.dead = s.cells.dead + 1 /\ b.dummy = s.dummy /\ b.lost
      BY <1>6, <1>8
    <3>4. Cardinality(b.cells.live) + b.cells.dead = Cardinality(s.cells.live) + s.cells.dead
      BY <1>9, <2>2, <3>3
    <3>5. SoundBut(b, {}, managers)
      <4> HIDE DEF Half
      <4> QED BY <1>1, <1>10, <3>2, <3>3, <3>4 DEF SoundBut
    <3> QED BY <1>8, <3>1, <3>2, <3>5
  <2>3. CASE p \in s.cells.live /\ gone.rows # {} /\ p \notin s.dragged
    <3>1. t = Modem(gone, managers)
      BY <1>5, <2>3
    <3>2. /\ t \in ListStates
          /\ (t.dummy <=> managers > Cardinality(gone.cells.live) + gone.cells.dead)
          /\ SameOrder(gone, t) /\ t.rows = gone.rows /\ t.inBox = gone.inBox
          /\ t.stale = gone.stale /\ t.due = gone.due /\ t.cells = gone.cells
          /\ t.fallback = gone.fallback /\ t.lost = gone.lost /\ t.orphans = gone.orphans
      BY <1>6, <3>1, ModemIs
    <3>3. Half(t)
      BY <1>1, <1>6, <2>3, <3>2 DEF SameOrder, SoundBut
    <3>4. t.cells = gone.cells /\ t.lost = s.lost /\ t.cells.dead = s.cells.dead
      BY <1>6, <3>2
    <3>5. SoundBut(t, {}, managers)
      <4> HIDE DEF Half
      <4> QED BY <1>1, <1>10, <3>2, <3>3, <3>4 DEF SoundBut
    <3> QED BY <3>2, <3>3, <3>5
  <2> QED BY <2>1, <2>2, <2>3
<1> QED BY <1>4, <1>11 DEF SoundStates, t, q

\* What a row that is in connman's list, or no longer is, does to the state t.
Entering(s, t, q, i) == IF q[i] \notin t.rows THEN RowInserted(t, q[i])
                        ELSE IF PlaceOf(s.list, q[i]) # i - 1 THEN RowChanged(t, q[i], i - 1)
                        ELSE t
Leaving(s, t, q, i)  == IF s.list[i] \in ToSet(q) THEN t ELSE RowDeleted(t, s.list[i])

\* The steps of Follow.
EnterSteps(s, q, e) == /\ e \in [0..Len(q) -> SoundStates(managers)] /\ e[0] = [s EXCEPT !.list = q]
                       /\ \A i \in 1..Len(q) : e[i] = Entering(s, e[i - 1], q, i)
LeaveSteps(s, q, e, d) == /\ d \in [0..Len(s.list) -> SoundStates(managers)] /\ d[0] = e
                          /\ \A i \in 1..Len(s.list) : d[i] = Leaving(s, d[i - 1], q, i)

LEMMA SoundFacts ==
  ASSUME NEW n, NEW s \in SoundStates(n)
  PROVE  /\ s \in ListStates /\ SoundBut(s, {}, n) /\ s.list \in Orders /\ s.inBox \in Orders
         /\ \A p : SoundBut(s, {p}, n)
BY DEF SoundStates, SoundBut, ListStates

\* u is what t becomes when q[i] is looked at.
EnterStep(s, t, q, i, u) ==
  /\ u \in SoundStates(managers) /\ SameOrder(t, u) /\ u.rows = t.rows \cup {q[i]}
  /\ q[i] \notin t.rows => u.inBox = Append(t.inBox, q[i])
  /\ q[i] \in t.rows =>
       u.inBox = IF PlaceOf(s.list, q[i]) # i - 1 /\ q[i] \in ToSet(t.inBox)
                 THEN Reordered(t.inBox, q[i], i - 1) ELSE t.inBox

LEMMA EnteringIs ==
  ASSUME ListAssumption, NEW s, NEW t \in SoundStates(managers), NEW q \in Orders,
         NEW i \in 1..Len(q)
  PROVE  EnterStep(s, t, q, i, Entering(s, t, q, i))
<1> DEFINE u == Entering(s, t, q, i)
           p == q[i]
           k == i - 1
<1>1. p \in Paths /\ k \in Nat
  <2>1. q \in Seq(Paths)
    BY OrderIs
  <2> QED BY <2>1
<1>2. /\ t \in ListStates /\ \A x : SoundBut(t, {x}, managers)
  BY SoundFacts
<1>3. u = IF p \notin t.rows THEN RowInserted(t, p)
          ELSE IF PlaceOf(s.list, p) # k THEN RowChanged(t, p, k) ELSE t
  BY DEF Entering
<1> HIDE DEF EnterStep, u, p, k
<1>4. CASE p \notin t.rows
  <2>1. u = RowInserted(t, p)
    BY <1>3, <1>4
  <2>2. /\ u \in SoundStates(managers) /\ SameOrder(t, u) /\ u.rows = t.rows \cup {p}
        /\ u.inBox = Append(t.inBox, p)
    BY <1>1, <1>4, <2>1, RowInsertedIs
  <2> QED BY <1>4, <2>2 DEF EnterStep, u, p
<1>5. CASE p \in t.rows /\ PlaceOf(s.list, p) # k
  <2>1. u = RowChanged(t, p, k)
    BY <1>3, <1>5
  <2>2. /\ u \in SoundStates(managers) /\ SameOrder(t, u) /\ u.rows = t.rows
        /\ p \in ToSet(t.inBox) => u.inBox = Reordered(t.inBox, p, k)
        /\ p \notin ToSet(t.inBox) => u.inBox = t.inBox
    BY <1>1, <1>2, <1>5, <2>1, RowChangedIs
  <2>3. u.rows = t.rows \cup {p}
    BY <1>5, <2>2
  <2> QED BY <1>5, <2>2, <2>3 DEF EnterStep, u, p, k
<1>6. CASE p \in t.rows /\ PlaceOf(s.list, p) = k
  <2>1. u = t
    BY <1>3, <1>6
  <2>2. u.rows = t.rows \cup {p}
    BY <1>6, <2>1
  <2>3. SameOrder(t, u)
    BY <2>1 DEF SameOrder
  <2> QED BY <1>6, <2>1, <2>2, <2>3 DEF EnterStep, u, p, k
<1> QED BY <1>4, <1>5, <1>6

LEMMA LeavingIs ==
  ASSUME ListAssumption, NEW s \in SoundStates(managers), NEW t \in SoundStates(managers), NEW q,
         NEW i \in 1..Len(s.list)
  PROVE  LET u == Leaving(s, t, q, i)
         IN /\ u \in SoundStates(managers) /\ u.list = t.list
            /\ t.moves = {} => u.moves = {}
            /\ s.list[i] \in ToSet(q) => u = t
            /\ s.list[i] \notin ToSet(q) =>
                 /\ u.rows = t.rows \ {s.list[i]} /\ u.named = t.named \ {s.list[i]}
                 /\ u.dragged = t.dragged \ {s.list[i]} /\ u.inBox = LeftOut(t.inBox, s.list[i])
<1> DEFINE u == Leaving(s, t, q, i)
           p == s.list[i]
<1>1. p \in Paths
  <2>1. s.list \in Seq(Paths)
    BY SoundFacts, OrderIs
  <2> QED BY <2>1
<1>2. u = IF p \in ToSet(q) THEN t ELSE RowDeleted(t, p)
  BY DEF Leaving
<1> HIDE DEF u, p
<1>3. CASE p \in ToSet(q)
  BY <1>2, <1>3 DEF u, p
<1>4. CASE p \notin ToSet(q)
  <2>1. u = RowDeleted(t, p)
    BY <1>2, <1>4
  <2>2. /\ u \in SoundStates(managers) /\ u.list = t.list
        /\ u.rows = t.rows \ {p} /\ u.named = t.named \ {p} /\ u.dragged = t.dragged \ {p}
        /\ u.inBox = LeftOut(t.inBox, p)
        /\ t.moves = {} => u.moves = {}
    BY <1>1, <2>1, RowDeletedIs
  <2> QED BY <1>4, <2>2 DEF u, p
<1> QED BY <1>3, <1>4

LEMMA EnteredRun ==
  ASSUME ListAssumption, NEW s \in SoundStates(managers), NEW q \in Orders, NEW entered,
         entered = CHOOSE h : h = [i \in 0..Len(q) |->
           IF i = 0 THEN [s EXCEPT !.list = q]
           ELSE IF q[i] \notin h[i - 1].rows THEN RowInserted(h[i - 1], q[i])
           ELSE IF PlaceOf(s.list, q[i]) # i - 1 THEN RowChanged(h[i - 1], q[i], i - 1)
           ELSE h[i - 1]]
  PROVE  EnterSteps(s, q, entered)
<1> DEFINE N == Len(q)
           D == SoundStates(managers)
           s0 == [s EXCEPT !.list = q]
           Step(t, i) == Entering(s, t, q, i)
           F(h) == [i \in 0..N |-> IF i = 0 THEN s0 ELSE Step(h[i - 1], i)]
           g == [i \in 1..N |-> [t \in D |-> Step(t, i)]]
<1>1. N \in Nat
  <2>1. q \in Seq(Paths)
    BY OrderIs
  <2> QED BY <2>1
<1>2. entered = CHOOSE h : h = F(h)
  BY DEF Entering
<1>3. ASSUME NEW i \in 1..N, NEW t \in D PROVE Step(t, i) \in D
  BY EnteringIs DEF EnterStep
<1>4. s0 \in D
  BY DEF SoundStates, SoundBut, ListStates
<1> HIDE DEF Step, N, D, s0
<1>5. g \in StepsIn(D, N)
  BY <1>3 DEF StepsIn
<1>6. PICK h \in PathsIn(D, N) : h[0] = s0 /\ \A n \in 1..N : h[n] = g[n][h[n - 1]]
  <2> HIDE DEF g
  <2> QED BY <1>1, <1>4, <1>5, Runs
<1>7. h = F(h)
  <2>1. \A n \in 1..N : n - 1 \in 0..N
    BY <1>1
  <2>2. \A n \in 1..N : h[n] = Step(h[n - 1], n)
    BY <1>6, <2>1 DEF PathsIn
  <2>3. \A n \in 0..N : h[n] = IF n = 0 THEN s0 ELSE Step(h[n - 1], n)
    BY <1>1, <1>6, <2>2
  <2>4. h \in [0..N -> D]
    BY <1>6 DEF PathsIn
  <2> HIDE DEF g
  <2> QED BY <2>3, <2>4
<1>8. entered = F(entered)
  <2> HIDE DEF F
  <2> QED BY <1>2, <1>7
<1>9. 0 \in 0..N /\ \A n \in 1..N : n \in 0..N /\ n # 0 /\ n - 1 \in 0..N
  BY <1>1
<1>10. entered[0] = s0 /\ \A n \in 1..N : entered[n] = Step(entered[n - 1], n)
  <2>1. entered[0] = F(entered)[0] /\ \A n \in 1..N : entered[n] = F(entered)[n]
    <3> HIDE DEF F
    <3> QED BY <1>8
  <2> QED BY <1>9, <2>1
<1>11. \A n \in 0..N : entered[n] \in D
  <2> DEFINE B == {n \in 0..N : entered[n] \in D}
  <2>1. 0 \in B
    BY <1>4, <1>9, <1>10
  <2>2. \A n \in 1..N : n - 1 \in B => n \in B
    BY <1>3, <1>9, <1>10
  <2>3. ASSUME NEW m \in 0..N PROVE m \in B
    <3>1. m \in Nat /\ \A n \in 1..m : n - 1 \in B => n \in B
      <4>1. m \in Nat /\ \A n \in 1..m : n \in 1..N
        BY <1>1
      <4> QED BY <2>2, <4>1
    <3> HIDE DEF B
    <3> QED BY <2>1, <3>1, Climbs
  <2> QED BY <2>3
<1>12. entered \in [0..N -> D]
  <2>1. \A i \in 0..N : (IF i = 0 THEN s0 ELSE Step(entered[i - 1], i)) \in D
    BY <1>9, <1>10, <1>11
  <2>2. F(entered) \in [0..N -> D]
    BY <2>1
  <2> HIDE DEF F
  <2> QED BY <1>8, <2>2
<1> QED BY <1>10, <1>12 DEF EnterSteps, Step, N, D, s0

LEMMA LeftRun ==
  ASSUME ListAssumption, NEW s \in SoundStates(managers), NEW q, NEW e \in SoundStates(managers),
         NEW left,
         left = CHOOSE h : h = [i \in 0..Len(s.list) |->
           IF i = 0 THEN e
           ELSE IF s.list[i] \in ToSet(q) THEN h[i - 1] ELSE RowDeleted(h[i - 1], s.list[i])]
  PROVE  LeaveSteps(s, q, e, left)
<1> DEFINE N == Len(s.list)
           D == SoundStates(managers)
           Step(t, i) == Leaving(s, t, q, i)
           F(h) == [i \in 0..N |-> IF i = 0 THEN e ELSE Step(h[i - 1], i)]
           g == [i \in 1..N |-> [t \in D |-> Step(t, i)]]
<1>1. N \in Nat
  <2>1. s.list \in Seq(Paths)
    BY SoundFacts, OrderIs
  <2> QED BY <2>1
<1>2. left = CHOOSE h : h = F(h)
  BY DEF Leaving
<1>3. ASSUME NEW i \in 1..N, NEW t \in D PROVE Step(t, i) \in D
  BY LeavingIs
<1>4. e \in D
  OBVIOUS
<1> HIDE DEF Step, N, D
<1>5. g \in StepsIn(D, N)
  BY <1>3 DEF StepsIn
<1>6. PICK h \in PathsIn(D, N) : h[0] = e /\ \A n \in 1..N : h[n] = g[n][h[n - 1]]
  <2> HIDE DEF g
  <2> QED BY <1>1, <1>4, <1>5, Runs
<1>7. h = F(h)
  <2>1. \A n \in 1..N : n - 1 \in 0..N
    BY <1>1
  <2>2. \A n \in 1..N : h[n] = Step(h[n - 1], n)
    BY <1>6, <2>1 DEF PathsIn
  <2>3. \A n \in 0..N : h[n] = IF n = 0 THEN e ELSE Step(h[n - 1], n)
    BY <1>1, <1>6, <2>2
  <2>4. h \in [0..N -> D]
    BY <1>6 DEF PathsIn
  <2> HIDE DEF g
  <2> QED BY <2>3, <2>4
<1>8. left = F(left)
  <2> HIDE DEF F
  <2> QED BY <1>2, <1>7
<1>9. 0 \in 0..N /\ \A n \in 1..N : n \in 0..N /\ n # 0 /\ n - 1 \in 0..N
  BY <1>1
<1>10. left[0] = e /\ \A n \in 1..N : left[n] = Step(left[n - 1], n)
  <2>1. left[0] = F(left)[0] /\ \A n \in 1..N : left[n] = F(left)[n]
    <3> HIDE DEF F
    <3> QED BY <1>8
  <2> QED BY <1>9, <2>1
<1>11. \A n \in 0..N : left[n] \in D
  <2> DEFINE B == {n \in 0..N : left[n] \in D}
  <2>1. 0 \in B
    BY <1>4, <1>9, <1>10
  <2>2. \A n \in 1..N : n - 1 \in B => n \in B
    BY <1>3, <1>9, <1>10
  <2>3. ASSUME NEW m \in 0..N PROVE m \in B
    <3>1. m \in Nat /\ \A n \in 1..m : n - 1 \in B => n \in B
      <4>1. m \in Nat /\ \A n \in 1..m : n \in 1..N
        BY <1>1
      <4> QED BY <2>2, <4>1
    <3> HIDE DEF B
    <3> QED BY <2>1, <3>1, Climbs
  <2> QED BY <2>3
<1>12. left \in [0..N -> D]
  <2>1. ASSUME NEW i \in 0..N PROVE (IF i = 0 THEN e ELSE Step(left[i - 1], i)) \in D
    <3>1. CASE i = 0
      BY <1>4, <3>1
    <3>2. CASE i # 0
      <4>1. i \in 1..N /\ i - 1 \in 0..N
        BY <1>1, <3>2
      <4>2. left[i - 1] \in D
        BY <1>11, <4>1
      <4>3. Step(left[i - 1], i) \in D
        BY <1>3, <4>1, <4>2
      <4> QED BY <3>2, <4>3
    <3> QED BY <3>1, <3>2
  <2>2. F(left) \in [0..N -> D]
    BY <2>1
  <2> HIDE DEF F
  <2> QED BY <1>8, <2>2
<1> QED BY <1>10, <1>12 DEF LeaveSteps, Step, N, D

LEMMA FollowRuns ==
  ASSUME ListAssumption, NEW s \in SoundStates(managers), NEW q \in Orders
  PROVE  \E e, d : /\ EnterSteps(s, q, e) /\ LeaveSteps(s, q, e[Len(q)], d)
                   /\ Follow(s, q) = d[Len(s.list)]
<1> DEFINE entered == CHOOSE h : h = [i \in 0..Len(q) |->
             IF i = 0 THEN [s EXCEPT !.list = q]
             ELSE IF q[i] \notin h[i - 1].rows THEN RowInserted(h[i - 1], q[i])
             ELSE IF PlaceOf(s.list, q[i]) # i - 1 THEN RowChanged(h[i - 1], q[i], i - 1)
             ELSE h[i - 1]]
           e == entered[Len(q)]
           left == CHOOSE h : h = [i \in 0..Len(s.list) |->
             IF i = 0 THEN e
             ELSE IF s.list[i] \in ToSet(q) THEN h[i - 1] ELSE RowDeleted(h[i - 1], s.list[i])]
<1>1. Follow(s, q) = left[Len(s.list)]
  BY DEF Follow
<1>2. EnterSteps(s, q, entered)
  <2> HIDE DEF entered
  <2> QED BY EnteredRun DEF entered
<1>3. e \in SoundStates(managers)
  <2>1. Len(q) \in 0..Len(q)
    <3>1. q \in Seq(Paths)
      BY OrderIs
    <3> QED BY <3>1
  <2> HIDE DEF entered
  <2> QED BY <1>2, <2>1 DEF EnterSteps
<1> HIDE DEF e
<1>4. LeaveSteps(s, q, e, left)
  <2> HIDE DEF left
  <2> QED BY <1>3, LeftRun DEF left
<1> HIDE DEF left, entered
<1> QED BY <1>1, <1>2, <1>4 DEF e

\* The rows and what is known of them, after the first i steps.
LEMMA EnteredRows ==
  ASSUME ListAssumption, NEW s \in SoundStates(managers), NEW q \in Orders, NEW e,
         EnterSteps(s, q, e), NEW m \in 0..Len(q)
  PROVE  /\ e[m] \in SoundStates(managers) /\ e[m].list = q /\ e[m].named = s.named
         /\ e[m].dragged = s.dragged /\ e[m].moves = s.moves
         /\ \A x : x \in e[m].rows <=> (x \in s.rows \/ \E k \in 1..m : q[k] = x)
<1> DEFINE P(i) == /\ e[i].list = q /\ e[i].named = s.named
                   /\ e[i].dragged = s.dragged /\ e[i].moves = s.moves
                   /\ \A x : x \in e[i].rows <=> (x \in s.rows \/ \E k \in 1..i : q[k] = x)
           B == {i \in 0..Len(q) : P(i)}
<1>1. Len(q) \in Nat /\ m \in Nat /\ 0 \in 0..Len(q) /\ \A i \in 1..m : i \in 1..Len(q)
  <2>1. q \in Seq(Paths)
    BY OrderIs
  <2> QED BY <2>1
<1>2. \A i \in 0..Len(q) : e[i] \in SoundStates(managers)
  BY DEF EnterSteps
<1>3. P(0)
  <2>1. e[0] = [s EXCEPT !.list = q] /\ s \in ListStates
    BY SoundFacts DEF EnterSteps
  <2>2. e[0].list = q /\ e[0].named = s.named /\ e[0].dragged = s.dragged /\ e[0].moves = s.moves /\ e[0].rows = s.rows
    BY <2>1 DEF ListStates
  <2> QED BY <2>2
<1>4. ASSUME NEW i \in 1..Len(q), P(i - 1) PROVE P(i)
  <2>1. i - 1 \in 0..Len(q) /\ e[i - 1] \in SoundStates(managers)
    BY <1>1, <1>2
  <2>2. SameOrder(e[i - 1], e[i]) /\ e[i].rows = e[i - 1].rows \cup {q[i]}
    <3>1. e[i] = Entering(s, e[i - 1], q, i)
      BY DEF EnterSteps
    <3>2. EnterStep(s, e[i - 1], q, i, e[i])
      BY <2>1, <3>1, EnteringIs
    <3> QED BY <3>2 DEF EnterStep
  <2>3. \A x : (\E k \in 1..i : q[k] = x) <=> (x = q[i] \/ \E k \in 1 .. i - 1 : q[k] = x)
    <3>1. \A k : k \in 1..i <=> (k = i \/ k \in 1 .. i - 1)
      BY <1>1
    <3> QED BY <3>1
  <2>4. \A x : x \in e[i].rows <=> (x \in s.rows \/ \E k \in 1..i : q[k] = x)
    BY <1>4, <2>2, <2>3
  <2> QED BY <1>4, <2>2, <2>4 DEF SameOrder
<1> HIDE DEF P
<1>5. 0 \in B /\ \A i \in 1..m : i - 1 \in B => i \in B
  BY <1>1, <1>3, <1>4
<1>6. m \in B
  <2> HIDE DEF B
  <2> QED BY <1>1, <1>5, Climbs
<1> QED BY <1>2, <1>6 DEF P

LEMMA LeftRows ==
  ASSUME ListAssumption, NEW s \in SoundStates(managers), NEW q \in Orders, NEW d,
         NEW e \in SoundStates(managers), LeaveSteps(s, q, e, d), NEW m \in 0..Len(s.list)
  PROVE  /\ d[m] \in SoundStates(managers) /\ d[m].list = e.list
         /\ e.moves = {} => d[m].moves = {}
         /\ \A x : LET left == x \in ToSet(q) \/ ~\E k \in 1..m : s.list[k] = x
                   IN /\ x \in d[m].rows <=> x \in e.rows /\ left
                      /\ x \in d[m].named <=> x \in e.named /\ left
                      /\ x \in d[m].dragged <=> x \in e.dragged /\ left
<1> DEFINE l == s.list
           IsLeft(x, i) == x \in ToSet(q) \/ ~\E k \in 1..i : l[k] = x
           P(i) == /\ d[i].list = e.list
                   /\ e.moves = {} => d[i].moves = {}
                   /\ \A x : /\ x \in d[i].rows <=> x \in e.rows /\ IsLeft(x, i)
                             /\ x \in d[i].named <=> x \in e.named /\ IsLeft(x, i)
                             /\ x \in d[i].dragged <=> x \in e.dragged /\ IsLeft(x, i)
           B == {i \in 0..Len(l) : P(i)}
<1>1. Len(l) \in Nat /\ m \in Nat /\ 0 \in 0..Len(l) /\ \A i \in 1..m : i \in 1..Len(l)
  <2>1. l \in Seq(Paths)
    BY SoundFacts, OrderIs
  <2> QED BY <2>1
<1>2. \A i \in 0..Len(l) : d[i] \in SoundStates(managers)
  BY DEF LeaveSteps
<1>3. P(0)
  <2>1. d[0] = e /\ \A x : IsLeft(x, 0)
    BY DEF LeaveSteps
  <2> QED BY <2>1
<1>4. ASSUME NEW i \in 1..Len(l), P(i - 1) PROVE P(i)
  <2>1. i - 1 \in 0..Len(l) /\ d[i - 1] \in SoundStates(managers)
    BY <1>1, <1>2
  <2> DEFINE t == d[i - 1]
             u == d[i]
  <2>2. u = Leaving(s, t, q, i) /\ t \in SoundStates(managers) /\ i \in 1..Len(s.list)
    BY <2>1 DEF LeaveSteps
  <2> HIDE DEF t, u, l
  <2>3. /\ u.list = t.list
        /\ t.moves = {} => u.moves = {}
        /\ s.list[i] \in ToSet(q) => u = t
        /\ s.list[i] \notin ToSet(q) =>
             /\ u.rows = t.rows \ {s.list[i]} /\ u.named = t.named \ {s.list[i]}
             /\ u.dragged = t.dragged \ {s.list[i]}
    BY <2>2, LeavingIs
  <2>4. \A x : (\E k \in 1..i : l[k] = x) <=> (x = l[i] \/ \E k \in 1 .. i - 1 : l[k] = x)
    <3>1. \A k : k \in 1..i <=> (k = i \/ k \in 1 .. i - 1)
      BY <1>1
    <3> QED BY <3>1
  <2>5. \A x : IsLeft(x, i) <=> IsLeft(x, i - 1) /\ (x \in ToSet(q) \/ x # l[i])
    BY <2>4
  <2>6. \A x : /\ x \in u.rows <=> x \in t.rows /\ (x \in ToSet(q) \/ x # l[i])
               /\ x \in u.named <=> x \in t.named /\ (x \in ToSet(q) \/ x # l[i])
               /\ x \in u.dragged <=> x \in t.dragged /\ (x \in ToSet(q) \/ x # l[i])
    BY <2>3 DEF l
  <2> HIDE DEF IsLeft
  <2>7. /\ t.list = e.list
        /\ e.moves = {} => t.moves = {}
        /\ \A x : /\ x \in t.rows <=> x \in e.rows /\ IsLeft(x, i - 1)
                  /\ x \in t.named <=> x \in e.named /\ IsLeft(x, i - 1)
                  /\ x \in t.dragged <=> x \in e.dragged /\ IsLeft(x, i - 1)
    BY <1>4 DEF t
  <2>8. u.list = e.list /\ (e.moves = {} => u.moves = {})
    BY <2>3, <2>7
  <2>9. \A x : /\ x \in u.rows <=> x \in e.rows /\ IsLeft(x, i)
               /\ x \in u.named <=> x \in e.named /\ IsLeft(x, i)
               /\ x \in u.dragged <=> x \in e.dragged /\ IsLeft(x, i)
    BY <2>5, <2>6, <2>7
  <2> QED BY <2>8, <2>9 DEF u
<1> HIDE DEF P, IsLeft
<1>5. 0 \in B /\ \A i \in 1..m : i - 1 \in B => i \in B
  BY <1>1, <1>3, <1>4
<1>6. m \in B
  <2> HIDE DEF B
  <2> QED BY <1>1, <1>5, Climbs
<1>7. P(m) /\ d[m] \in SoundStates(managers)
  BY <1>2, <1>6
<1> QED BY <1>7 DEF P, IsLeft, l

LEMMA FollowIs ==
  ASSUME ListAssumption, NEW s \in SoundStates(managers), s.rows = ToSet(s.list), NEW q \in Orders
  PROVE  /\ Follow(s, q) \in SoundStates(managers) /\ Follow(s, q).list = q
         /\ Follow(s, q).rows = ToSet(q) /\ Follow(s, q).named = s.named \cap ToSet(q)
         /\ Follow(s, q).dragged = s.dragged \cap ToSet(q)
         /\ s.moves = {} => Follow(s, q).moves = {}
<1> DEFINE l == s.list
           t == Follow(s, q)
<1>1. PICK e, d : EnterSteps(s, q, e) /\ LeaveSteps(s, q, e[Len(q)], d) /\ t = d[Len(l)]
  BY FollowRuns
<1>2. /\ Len(q) \in 0..Len(q) /\ Len(l) \in 0..Len(l)
      /\ \A x : x \in ToSet(q) <=> \E k \in 1..Len(q) : q[k] = x
      /\ \A x : x \in ToSet(l) <=> \E k \in 1..Len(l) : l[k] = x
  <2>1. q \in Seq(Paths) /\ l \in Seq(Paths)
    BY SoundFacts, OrderIs
  <2> QED BY <2>1, SeqFacts
<1> DEFINE f == e[Len(q)]
<1>3. /\ f \in SoundStates(managers) /\ f.list = q /\ f.named = s.named
      /\ f.dragged = s.dragged /\ f.moves = s.moves
      /\ \A x : x \in f.rows <=> (x \in s.rows \/ \E k \in 1..Len(q) : q[k] = x)
  BY <1>1, <1>2, EnteredRows
<1> HIDE DEF f, t
<1>4. /\ t \in SoundStates(managers) /\ t.list = f.list
      /\ f.moves = {} => t.moves = {}
      /\ \A x : LET left == x \in ToSet(q) \/ ~\E k \in 1..Len(l) : l[k] = x
                IN /\ x \in t.rows <=> x \in f.rows /\ left
                   /\ x \in t.named <=> x \in f.named /\ left
                   /\ x \in t.dragged <=> x \in f.dragged /\ left
  <2>1. LeaveSteps(s, q, f, d)
    BY <1>1 DEF f
  <2> QED BY <1>1, <1>2, <1>3, <2>1, LeftRows
<1>5. s.named \subseteq ToSet(l) /\ s.dragged \subseteq ToSet(l)
  BY SoundFacts DEF SoundBut
<1>6. \A x : /\ x \in t.rows <=> x \in ToSet(q)
             /\ x \in t.named <=> x \in s.named /\ x \in ToSet(q)
             /\ x \in t.dragged <=> x \in s.dragged /\ x \in ToSet(q)
  BY <1>2, <1>3, <1>4, <1>5
<1>7. t.rows = ToSet(q) /\ t.named = s.named \cap ToSet(q) /\ t.dragged = s.dragged \cap ToSet(q)
  BY <1>6
<1> QED BY <1>3, <1>4, <1>7 DEF t

(***************************************************************************)
(* The order of the widgets.                                               *)
(***************************************************************************)
LEMMA EnteredBox ==
  ASSUME ListAssumption, NEW s \in SoundStates(managers), NEW q \in Orders, NEW e,
         EnterSteps(s, q, e)
  PROVE  /\ e[0].inBox = s.inBox
         /\ \A i \in 1..Len(q) :
              /\ i - 1 \in 0..Len(q) /\ q[i] \in Paths /\ e[i - 1].inBox \in Orders
              /\ q[i] \notin s.rows => e[i].inBox = Append(e[i - 1].inBox, q[i])
              /\ q[i] \in s.rows =>
                   e[i].inBox = IF PlaceOf(s.list, q[i]) # i - 1 /\ q[i] \in ToSet(e[i - 1].inBox)
                                THEN Reordered(e[i - 1].inBox, q[i], i - 1) ELSE e[i - 1].inBox
              /\ q[i] \in s.rows /\ s.dragged = {} => q[i] \in ToSet(e[i - 1].inBox)
<1>1. e[0].inBox = s.inBox
  <2>1. e[0] = [s EXCEPT !.list = q] /\ s \in ListStates
    BY SoundFacts DEF EnterSteps
  <2> QED BY <2>1 DEF ListStates
<1>2. q \in Seq(Paths) /\ Apart(q) /\ Len(q) \in Nat /\ DOMAIN q = 1..Len(q)
  BY OrderIs, SeqFacts
<1>3. ASSUME NEW i \in 1..Len(q)
      PROVE  /\ i - 1 \in 0..Len(q) /\ q[i] \in Paths /\ e[i - 1].inBox \in Orders
             /\ q[i] \notin s.rows => e[i].inBox = Append(e[i - 1].inBox, q[i])
             /\ q[i] \in s.rows =>
                  e[i].inBox = IF PlaceOf(s.list, q[i]) # i - 1 /\ q[i] \in ToSet(e[i - 1].inBox)
                               THEN Reordered(e[i - 1].inBox, q[i], i - 1) ELSE e[i - 1].inBox
             /\ q[i] \in s.rows /\ s.dragged = {} => q[i] \in ToSet(e[i - 1].inBox)
  <2> DEFINE t == e[i - 1]
             u == e[i]
  <2>1. i - 1 \in 0..Len(q) /\ q[i] \in Paths
    BY <1>2
  <2>2. /\ t \in SoundStates(managers) /\ t.dragged = s.dragged
        /\ \A x : x \in t.rows <=> (x \in s.rows \/ \E k \in 1 .. i - 1 : q[k] = x)
    BY <2>1, EnteredRows
  <2>3. u = Entering(s, t, q, i)
    BY DEF EnterSteps
  <2> HIDE DEF t, u
  <2>4. /\ q[i] \notin t.rows => u.inBox = Append(t.inBox, q[i])
        /\ q[i] \in t.rows =>
             u.inBox = IF PlaceOf(s.list, q[i]) # i - 1 /\ q[i] \in ToSet(t.inBox)
                       THEN Reordered(t.inBox, q[i], i - 1) ELSE t.inBox
    <3>1. EnterStep(s, t, q, i, u)
      BY <2>2, <2>3, EnteringIs
    <3> QED BY <3>1 DEF EnterStep
  <2>5. q[i] \in t.rows <=> q[i] \in s.rows
    <3>1. \A k \in 1 .. i - 1 : q[k] # q[i]
      BY <1>2 DEF Apart
    <3> QED BY <2>2, <3>1
  <2>6. t.inBox \in Orders /\ SoundBut(t, {}, managers)
    BY <2>2, SoundFacts
  <2>7. q[i] \in s.rows /\ s.dragged = {} => q[i] \in ToSet(t.inBox)
    BY <2>2, <2>5, <2>6 DEF SoundBut
  <2> QED BY <2>1, <2>4, <2>5, <2>6, <2>7 DEF t, u
<1> QED BY <1>1, <1>3

LEMMA LeftBox ==
  ASSUME ListAssumption, NEW s \in SoundStates(managers), NEW q \in Orders, NEW d,
         NEW e \in SoundStates(managers), LeaveSteps(s, q, e, d)
  PROVE  /\ d[0].inBox = e.inBox
         /\ \A i \in 1..Len(s.list) :
              /\ i - 1 \in 0..Len(s.list) /\ s.list[i] \in Paths /\ d[i - 1].inBox \in Orders
              /\ s.list[i] \in ToSet(q) => d[i].inBox = d[i - 1].inBox
              /\ s.list[i] \notin ToSet(q) => d[i].inBox = LeftOut(d[i - 1].inBox, s.list[i])
<1>1. d[0].inBox = e.inBox
  BY DEF LeaveSteps
<1>2. s.list \in Seq(Paths) /\ Len(s.list) \in Nat
  BY SoundFacts, OrderIs
<1>3. ASSUME NEW i \in 1..Len(s.list)
      PROVE  /\ i - 1 \in 0..Len(s.list) /\ s.list[i] \in Paths /\ d[i - 1].inBox \in Orders
             /\ s.list[i] \in ToSet(q) => d[i].inBox = d[i - 1].inBox
             /\ s.list[i] \notin ToSet(q) => d[i].inBox = LeftOut(d[i - 1].inBox, s.list[i])
  <2> DEFINE t == d[i - 1]
             u == d[i]
  <2>1. i - 1 \in 0..Len(s.list) /\ s.list[i] \in Paths
    BY <1>2
  <2>2. t \in SoundStates(managers) /\ u = Leaving(s, t, q, i)
    BY <2>1 DEF LeaveSteps
  <2> HIDE DEF t, u
  <2>3. /\ s.list[i] \in ToSet(q) => u = t
        /\ s.list[i] \notin ToSet(q) => u.inBox = LeftOut(t.inBox, s.list[i])
    BY <2>2, LeavingIs
  <2>4. t.inBox \in Orders
    BY <2>2, SoundFacts
  <2> QED BY <2>1, <2>3, <2>4 DEF t, u
<1> QED BY <1>1, <1>3

\* What holds of the order at first, and is orphaned by each step, holds in the end: b is the
\* set of the orders of which it holds, after each of the first steps and the others.
LEMMA FollowKeeps ==
  ASSUME ListAssumption, NEW s \in SoundStates(managers), NEW q \in Orders, NEW b, NEW c,
         NEW e, NEW d, EnterSteps(s, q, e), LeaveSteps(s, q, e[Len(q)], d),
         Follow(s, q) = d[Len(s.list)],
         s.inBox \in b[0],
         \A i \in 1..Len(q) : e[i - 1].inBox \in b[i - 1] => e[i].inBox \in b[i],
         b[Len(q)] \subseteq c[0],
         \A i \in 1..Len(s.list) : d[i - 1].inBox \in c[i - 1] => d[i].inBox \in c[i]
  PROVE  Follow(s, q).inBox \in c[Len(s.list)]
<1> DEFINE B == {i \in 0..Len(q) : e[i].inBox \in b[i]}
           C == {i \in 0..Len(s.list) : d[i].inBox \in c[i]}
<1>1. /\ Len(q) \in Nat /\ 0 \in 0..Len(q) /\ Len(q) \in 0..Len(q)
      /\ Len(s.list) \in Nat /\ 0 \in 0..Len(s.list) /\ Len(s.list) \in 0..Len(s.list)
      /\ \A i \in 1..Len(q) : i \in 0..Len(q)
      /\ \A i \in 1..Len(s.list) : i \in 0..Len(s.list)
  <2>1. q \in Seq(Paths) /\ s.list \in Seq(Paths)
    BY SoundFacts, OrderIs
  <2> QED BY <2>1
<1>2. 0 \in B /\ \A i \in 1..Len(q) : i - 1 \in B => i \in B
  BY <1>1, EnteredBox
<1>3. Len(q) \in B
  <2> HIDE DEF B
  <2> QED BY <1>1, <1>2, Climbs
<1>4. e[Len(q)] \in SoundStates(managers) /\ e[Len(q)].inBox \in c[0]
  BY <1>1, <1>3 DEF EnterSteps
<1>5. 0 \in C /\ \A i \in 1..Len(s.list) : i - 1 \in C => i \in C
  BY <1>1, <1>4, LeftBox
<1>6. Len(s.list) \in C
  <2> HIDE DEF C
  <2> QED BY <1>1, <1>5, Climbs
<1> QED BY <1>6

\* If the widgets are in the order that connman says, they stay.
LEMMA FollowStays ==
  ASSUME ListAssumption, NEW s \in SoundStates(managers), s.rows = ToSet(s.list), s.inBox \in Orders,
         ToSet(s.inBox) = ToSet(s.list)
  PROVE  Follow(s, s.inBox).inBox = s.inBox
<1> DEFINE q == s.inBox
           l == s.list
           b == [i \in 0..Len(q) |-> {q}]
           c == [i \in 0..Len(l) |-> {q}]
<1>1. PICK e, d : EnterSteps(s, q, e) /\ LeaveSteps(s, q, e[Len(q)], d) /\ Follow(s, q) = d[Len(l)]
  BY FollowRuns
<1>2. /\ q \in Seq(Paths) /\ Apart(q) /\ Len(q) \in Nat /\ 0 \in 0..Len(q) /\ Len(q) \in 0..Len(q)
      /\ \A x : x \in ToSet(q) <=> \E k \in 1..Len(q) : q[k] = x
      /\ l \in Seq(Paths) /\ Len(l) \in Nat /\ 0 \in 0..Len(l) /\ Len(l) \in 0..Len(l)
      /\ \A x : x \in ToSet(l) <=> \E k \in 1..Len(l) : l[k] = x
  <2>1. q \in Seq(Paths) /\ Apart(q) /\ l \in Seq(Paths)
    BY SoundFacts, OrderIs
  <2> QED BY <2>1, SeqFacts
<1>3. e[Len(q)] \in SoundStates(managers)
  BY <1>1, <1>2 DEF EnterSteps
<1>4. ASSUME NEW i \in 1..Len(q), e[i - 1].inBox \in b[i - 1] PROVE e[i].inBox \in b[i]
  <2>1. i - 1 \in 0..Len(q) /\ i \in 0..Len(q) /\ e[i - 1].inBox = q
    BY <1>2, <1>4
  <2>2. q[i] \in s.rows /\ q[i] \in ToSet(q)
    BY <1>2
  <2>3. /\ q[i] \in s.rows =>
             e[i].inBox = IF PlaceOf(s.list, q[i]) # i - 1 /\ q[i] \in ToSet(e[i - 1].inBox)
                          THEN Reordered(e[i - 1].inBox, q[i], i - 1) ELSE e[i - 1].inBox
    BY <1>1, EnteredBox
  <2>4. Reordered(q, q[i], i - 1) = q
    <3>1. PlaceOf(q, q[i]) = i - 1
      BY <1>2, PlaceIs
    <3>2. Reordered(q, q[i], PlaceOf(q, q[i])) = q
      BY <1>2, <2>2, ReorderedStays
    <3> QED BY <3>1, <3>2
  <2>5. e[i].inBox = q
    BY <2>1, <2>2, <2>3, <2>4
  <2> QED BY <2>1, <2>5
<1>5. ASSUME NEW i \in 1..Len(l), d[i - 1].inBox \in c[i - 1] PROVE d[i].inBox \in c[i]
  <2>1. i - 1 \in 0..Len(l) /\ i \in 0..Len(l) /\ d[i - 1].inBox = q
    BY <1>2, <1>5
  <2>2. l[i] \in ToSet(q)
    BY <1>2
  <2>3. d[i].inBox = d[i - 1].inBox
    BY <1>1, <1>3, <2>2, LeftBox
  <2> QED BY <2>1, <2>3
<1>6. s.inBox \in b[0] /\ b[Len(q)] \subseteq c[0] /\ c[Len(l)] = {q}
  BY <1>2
<1> HIDE DEF b, c
<1>7. Follow(s, q).inBox \in c[Len(l)]
  BY <1>1, <1>4, <1>5, <1>6, FollowKeeps
<1> QED BY <1>6, <1>7

\* The first of connman's list becomes the first, if there was a row for it.
LEMMA FollowLeads ==
  ASSUME ListAssumption, NEW s \in SoundStates(managers), s.dragged = {}, s.rows = ToSet(s.list),
         NEW q \in Orders, NEW h \in s.rows, Leads(q, h), Leads(s.list, h) => Leads(s.inBox, h)
  PROVE  Leads(Follow(s, q).inBox, h)
<1> DEFINE l == s.list
           L == {x \in Orders : Leads(x, h)}
           b == [i \in 0..Len(q) |-> IF i = 0 THEN {s.inBox} ELSE L]
           c == [i \in 0..Len(l) |-> L]
<1>1. PICK e, d : EnterSteps(s, q, e) /\ LeaveSteps(s, q, e[Len(q)], d) /\ Follow(s, q) = d[Len(l)]
  BY FollowRuns
<1>2. /\ q \in Seq(Paths) /\ Apart(q) /\ Len(q) \in Nat /\ 0 \in 0..Len(q) /\ Len(q) \in 0..Len(q)
      /\ DOMAIN q = 1..Len(q) /\ 1 \in 1..Len(q) /\ q[1] = h
      /\ \A x : x \in ToSet(q) <=> \E k \in 1..Len(q) : q[k] = x
      /\ l \in Seq(Paths) /\ Apart(l) /\ Len(l) \in Nat /\ 0 \in 0..Len(l) /\ Len(l) \in 0..Len(l)
      /\ DOMAIN l = 1..Len(l)
  <2>1. q \in Seq(Paths) /\ Apart(q) /\ l \in Seq(Paths) /\ Apart(l)
    BY SoundFacts, OrderIs
  <2> QED BY <2>1, SeqFacts DEF Leads
<1>3. \A i \in 0..Len(q) : e[i] \in SoundStates(managers) /\ e[i].inBox \in Orders
  BY <1>1, SoundFacts DEF EnterSteps
<1>4. \A i \in 0..Len(l) : d[i].inBox \in Orders
  BY <1>1, SoundFacts DEF LeaveSteps
<1>5. ASSUME NEW i \in 1..Len(q), e[i - 1].inBox \in b[i - 1] PROVE e[i].inBox \in b[i]
  <2> DEFINE box == e[i - 1].inBox
             new == e[i].inBox
  <2>1. i - 1 \in 0..Len(q) /\ i \in 0..Len(q) /\ i # 0 /\ q[i] \in Paths /\ i - 1 \in Nat
    BY <1>2
  <2>2. /\ q[i] \notin s.rows => new = Append(box, q[i])
        /\ q[i] \in s.rows => new = IF PlaceOf(l, q[i]) # i - 1 /\ q[i] \in ToSet(box)
                                    THEN Reordered(box, q[i], i - 1) ELSE box
        /\ q[i] \in s.rows => q[i] \in ToSet(box)
    BY <1>1, EnteredBox
  <2>3. box \in Orders /\ box \in Seq(Paths) /\ Apart(box) /\ new \in Orders
    BY <1>3, <2>1, OrderIs
  <2>4. box \in b[i - 1]
    BY <1>5
  <2> HIDE DEF box, new
  <2>5. CASE i = 1
    <3>1. q[i] = h /\ i - 1 = 0 /\ box = s.inBox
      BY <1>2, <2>1, <2>4, <2>5
    <3>2. CASE PlaceOf(l, h) # 0
      <4>1. new = Reordered(box, h, 0)
        BY <2>2, <3>1, <3>2
      <4>2. Leads(new, h)
        BY <2>1, <2>3, <3>1, <4>1, LeadsNow
      <4> QED BY <2>1, <2>3, <4>2 DEF new
    <3>3. CASE PlaceOf(l, h) = 0
      <4>1. h \in ToSet(l)
        OBVIOUS
      <4>2. PlaceOf(l, h) \in 0 .. Len(l) - 1 /\ l[PlaceOf(l, h) + 1] = h
        BY <1>2, <4>1, PlaceIs
      <4>3. Leads(l, h)
        <5>1. 0 + 1 = 1 /\ 0 \in 0 .. Len(l) - 1 /\ l[0 + 1] = h
          BY <3>3, <4>2
        <5>2. 1 \in 1..Len(l)
          BY <1>2, <5>1
        <5> QED BY <1>2, <5>1, <5>2 DEF Leads
      <4>4. new = box
        BY <2>2, <3>1, <3>3
      <4> QED BY <2>1, <2>3, <3>1, <4>3, <4>4 DEF new
    <3> QED BY <3>2, <3>3
  <2>6. CASE i # 1
    <3>1. q[i] # h /\ i - 1 > 0 /\ i - 1 # 0
      BY <1>2, <2>6 DEF Apart
    <3>2. Leads(box, h)
      BY <2>1, <2>4, <3>1
    <3>3. Leads(Reordered(box, q[i], i - 1), h) /\ Leads(Append(box, q[i]), h)
      BY <2>1, <2>3, <3>1, <3>2, LeadsYet
    <3>4. Leads(new, h)
      BY <2>2, <3>2, <3>3
    <3> QED BY <2>1, <2>3, <3>4 DEF new
  <2> QED BY <2>5, <2>6
<1>6. ASSUME NEW i \in 1..Len(l), d[i - 1].inBox \in c[i - 1] PROVE d[i].inBox \in c[i]
  <2> DEFINE box == d[i - 1].inBox
             new == d[i].inBox
  <2>1. i - 1 \in 0..Len(l) /\ i \in 0..Len(l) /\ box \in L /\ l[i] \in Paths
    BY <1>2, <1>6
  <2>2. /\ l[i] \in ToSet(q) => new = box
        /\ l[i] \notin ToSet(q) => new = LeftOut(box, l[i])
    BY <1>1, <1>2, <1>3, LeftBox
  <2>3. box \in Seq(Paths) /\ Apart(box) /\ Leads(box, h) /\ new \in Orders
    BY <1>4, <2>1, OrderIs
  <2> HIDE DEF box, new
  <2>4. ASSUME l[i] \notin ToSet(q) PROVE Leads(LeftOut(box, l[i]), h)
    <3>1. l[i] # h /\ 0 \in Nat
      BY <1>2, <2>4
    <3> QED BY <2>1, <2>3, <3>1, LeadsYet
  <2>5. Leads(new, h)
    BY <2>2, <2>3, <2>4
  <2> QED BY <2>1, <2>3, <2>5 DEF new
<1>7. s.inBox \in b[0] /\ b[Len(q)] \subseteq c[0] /\ c[Len(l)] = L
  <2>1. Len(q) # 0
    BY <1>2
  <2> QED BY <1>2, <2>1
<1> HIDE DEF b, c
<1>8. Follow(s, q).inBox \in c[Len(l)]
  BY <1>1, <1>5, <1>6, <1>7, FollowKeeps
<1> QED BY <1>7, <1>8

\* If connman's list has one more at the end, so has the list of widgets.
LEMMA FollowGrows ==
  ASSUME ListAssumption, NEW s \in SoundStates(managers), s.rows = ToSet(s.list), s.dragged = {},
         s.inBox = s.list, NEW q \in Orders, q # <<>>, s.list = Front(q)
  PROVE  Follow(s, q).inBox = q
<1> DEFINE l == s.list
           n == Len(q)
           b == [i \in 0..n |-> IF i < n THEN {l} ELSE {q}]
           c == [i \in 0..Len(l) |-> {q}]
<1>1. PICK e, d : EnterSteps(s, q, e) /\ LeaveSteps(s, q, e[n], d) /\ Follow(s, q) = d[Len(l)]
  BY FollowRuns
<1>2. /\ q \in Seq(Paths) /\ Apart(q) /\ n \in Nat /\ n > 0 /\ DOMAIN q = 1..n
      /\ \A x : x \in ToSet(q) <=> \E k \in 1..n : q[k] = x
      /\ l \in Seq(Paths) /\ Apart(l) /\ Len(l) \in Nat
      /\ \A x : x \in ToSet(l) <=> \E k \in 1..Len(l) : l[k] = x
  <2>1. q \in Seq(Paths) /\ Apart(q) /\ l \in Seq(Paths) /\ Apart(l)
    BY SoundFacts, OrderIs
  <2>2. Len(q) # 0
    BY <2>1, SeqFacts
  <2> QED BY <2>1, <2>2, SeqFacts
<1>3. Len(l) = n - 1 /\ \A i \in 1 .. n - 1 : l[i] = q[i]
  <2> DEFINE m == n - 1
  <2>1. m \in Nat /\ m <= n /\ 1 <= m + 1 /\ m + 1 - 1 = m /\ \A i \in 1..m : 1 + i - 1 = i
    BY <1>2
  <2>2. l = SubSeq(q, 1, m)
    BY DEF Front
  <2> HIDE DEF m, n, l
  <2>3. Len(SubSeq(q, 1, m)) = m + 1 - 1 /\ \A i \in 1 .. m + 1 - 1 : SubSeq(q, 1, m)[i] = q[1 + i - 1]
    BY <1>2, <2>1, Piece DEF n
  <2>4. Len(l) = m /\ \A i \in 1..m : l[i] = q[i]
    BY <2>1, <2>2, <2>3
  <2> QED BY <2>4 DEF m
<1>4. e[n] \in SoundStates(managers)
  <2>1. n \in 0..n
    BY <1>2
  <2> QED BY <1>1, <2>1 DEF EnterSteps
<1>5. Append(l, q[n]) = q
  <2> HIDE DEF n, l
  <2>1. n \in 1..n /\ (n - 1) + 1 = n /\ q[n] \in Paths
    BY <1>2
  <2> DEFINE t == Append(l, q[n])
  <2>2. t \in Seq(Paths) /\ Len(t) = Len(l) + 1 /\ t[Len(l) + 1] = q[n] /\ \A i \in 1..Len(l) : t[i] = l[i]
    BY <1>2, <2>1
  <2> HIDE DEF t
  <2>3. Len(t) = n /\ t[n] = q[n] /\ \A i \in 1 .. n - 1 : t[i] = q[i]
    BY <1>3, <2>1, <2>2
  <2>4. \A i \in 1..n : i = n \/ i \in 1 .. n - 1
    BY <1>2
  <2>5. \A i \in 1..n : t[i] = q[i]
    BY <2>3, <2>4
  <2>6. t = q
    BY <1>2, <2>2, <2>3, <2>5 DEF n
  <2> QED BY <2>6 DEF t
<1>6. ASSUME NEW i \in 1..n, e[i - 1].inBox \in b[i - 1] PROVE e[i].inBox \in b[i]
  <2>1. i - 1 \in 0..n /\ i \in 0..n /\ i - 1 < n
    BY <1>2
  <2>2. e[i - 1].inBox = l
    BY <1>6, <2>1
  <2>3. /\ q[i] \notin s.rows => e[i].inBox = Append(e[i - 1].inBox, q[i])
        /\ q[i] \in s.rows =>
             e[i].inBox = IF PlaceOf(s.list, q[i]) # i - 1 /\ q[i] \in ToSet(e[i - 1].inBox)
                          THEN Reordered(e[i - 1].inBox, q[i], i - 1) ELSE e[i - 1].inBox
    BY <1>1, EnteredBox
  <2>4. CASE i < n
    <3>1. i \in 1..Len(l) /\ l[i] = q[i]
      BY <1>2, <1>3, <2>4
    <3>2. q[i] \in s.rows /\ PlaceOf(l, l[i]) = i - 1
      BY <1>2, <3>1, PlaceIs
    <3>3. e[i].inBox = l
      BY <2>2, <2>3, <3>1, <3>2
    <3> QED BY <2>1, <2>4, <3>3
  <2>5. CASE i = n
    <3>1. \A k \in 1..Len(l) : l[k] # q[n]
      <4> HIDE DEF n
      <4>1. n \in 1..n /\ \A k \in 1 .. n - 1 : k \in 1..n /\ k # n
        BY <1>2
      <4> QED BY <1>2, <1>3, <4>1 DEF Apart
    <3>2. q[i] \notin s.rows
      BY <1>2, <2>5, <3>1
    <3>3. e[i].inBox = q
      BY <1>5, <2>2, <2>3, <2>5, <3>2
    <3> QED BY <2>1, <2>5, <3>3
  <2>6. i < n \/ i = n
    <3>1. i \in Nat /\ n \in Nat /\ i <= n
      BY <1>2, <2>1
    <3> HIDE DEF n
    <3> QED BY <3>1
  <2> QED BY <2>4, <2>5, <2>6
<1>7. ASSUME NEW i \in 1..Len(l), d[i - 1].inBox \in c[i - 1] PROVE d[i].inBox \in c[i]
  <2>1. i - 1 \in 0..Len(l) /\ i \in 0..Len(l) /\ d[i - 1].inBox = q
    BY <1>2, <1>7
  <2>2. l[i] \in ToSet(q)
    <3>1. i \in 1 .. n - 1 /\ i \in 1..n
      BY <1>2, <1>3
    <3> QED BY <1>2, <1>3, <3>1
  <2>3. d[i].inBox = d[i - 1].inBox
    BY <1>1, <1>4, <2>2, LeftBox
  <2> QED BY <2>1, <2>3
<1>8. s.inBox \in b[0] /\ b[n] \subseteq c[0] /\ c[Len(l)] = {q}
  <2>1. 0 \in 0..n /\ n \in 0..n /\ 0 < n /\ ~(n < n) /\ 0 \in 0..Len(l) /\ Len(l) \in 0..Len(l)
    BY <1>2
  <2> QED BY <2>1
<1> HIDE DEF b, c
<1>9. Follow(s, q).inBox \in c[Len(l)]
  BY <1>1, <1>6, <1>7, <1>8, FollowKeeps
<1> QED BY <1>8, <1>9

\* Where the service is that moves from a to b, once the first i places are looked at.
Reached(a, b, i) == IF a <= b THEN IF i <= a THEN a ELSE IF i <= b THEN i ELSE b
                    ELSE IF i <= b THEN a ELSE b

LEMMA OneMoves ==
  ASSUME NEW w \in Seq(Paths), Apart(w), NEW p \in Paths, p \notin ToSet(w),
         NEW a \in 0..Len(w), NEW b \in 0..Len(w), NEW i \in 1 .. Len(w) + 1, NEW x,
         x = IF i <= b THEN w[i] ELSE IF i = b + 1 THEN p ELSE w[i - 1], NEW box,
         box = Inserted(w, p, Reached(a, b, i - 1))
  PROVE  /\ x \in ToSet(w) \cup {p} /\ ToSet(box) = ToSet(w) \cup {p}
         /\ Reached(a, b, i) \in 0..Len(w)
         /\ (IF PlaceOf(Inserted(w, p, a), x) # i - 1 THEN Reordered(box, x, i - 1) ELSE box)
              = Inserted(w, p, Reached(a, b, i))
<1> DEFINE n == Len(w)
           l == Inserted(w, p, a)
           r == Reached(a, b, i)
           o == Reached(a, b, i - 1)
           new == IF PlaceOf(l, x) # i - 1 THEN Reordered(box, x, i - 1) ELSE box
<1>1. /\ n \in Nat /\ a \in Nat /\ b \in Nat /\ a <= n /\ b <= n /\ i \in Nat /\ i >= 1 /\ i <= n + 1
      /\ i - 1 \in Nat /\ \A k \in 1..n : w[k] \in Paths /\ w[k] \in ToSet(w)
  BY SeqFacts
<1>2. r \in 0..n /\ o \in 0..n
  BY <1>1 DEF Reached
<1> HIDE DEF n, r, o, l
<1>3. /\ PlaceOf(l, p) = a
      /\ \A k \in 1..n : PlaceOf(l, w[k]) = Shift(k, a) - 1
  BY InsertedLine DEF l, n
<1>4. o \in 0..Len(w) /\ box = Inserted(w, p, o)
  BY <1>2 DEF o, n
<1>5. /\ Apart(box) /\ ToSet(box) = ToSet(w) \cup {p} /\ LeftOut(box, p) = w
      /\ \A k \in 1..n : PlaceOf(box, w[k]) = Shift(k, o) - 1
  BY <1>4, InsertedLine DEF n
<1>6. box \in Seq(Paths)
  BY <1>4, InsertedIs
<1>7. CASE i <= b
  <2>1. i \in 1..n /\ x = w[i] /\ PlaceOf(l, x) = Shift(i, a) - 1
    BY <1>1, <1>3, <1>7
  <2>2. CASE i <= a
    <3>1. PlaceOf(l, x) = i - 1 /\ r = o
      BY <1>1, <1>7, <2>1, <2>2 DEF Shift, Reached, r, o
    <3> QED BY <1>1, <1>2, <1>4, <1>5, <2>1, <3>1 DEF r, o, l, n
  <2>3. CASE ~(i <= a)
    <3>1. PlaceOf(l, x) # i - 1 /\ o = i - 1 /\ r = i
      BY <1>1, <1>7, <2>1, <2>3 DEF Shift, Reached, r, o
    <3> DEFINE k == i - 1
    <3>2. k \in 0 .. Len(w) - 1 /\ k + 1 = i /\ o = k
      BY <1>1, <1>7, <3>1 DEF n
    <3> HIDE DEF k
    <3>3. Reordered(Inserted(w, p, k), w[k + 1], k) = Inserted(w, p, k + 1)
      BY <3>2, Swaps
    <3>4. Reordered(box, x, i - 1) = Inserted(w, p, i)
      BY <1>4, <2>1, <3>1, <3>2, <3>3
    <3>5. new = Inserted(w, p, r)
      BY <3>1, <3>4
    <3> QED BY <1>1, <1>2, <1>5, <2>1, <3>5 DEF r, l, n
  <2> QED BY <2>2, <2>3
<1>8. CASE i = b + 1
  <2>1. x = p /\ PlaceOf(l, x) = a /\ i - 1 = b /\ r = b
    BY <1>1, <1>3, <1>8 DEF Reached, r
  <2>2. CASE a = b
    <3>1. o = b
      BY <1>1, <1>8, <2>2 DEF Reached, o
    <3>2. new = Inserted(w, p, r)
      BY <1>4, <2>1, <2>2, <3>1
    <3> QED BY <1>2, <1>5, <2>1, <3>2 DEF r, l, n
  <2>3. CASE a # b
    <3>1. Reordered(box, p, b) = Inserted(LeftOut(box, p), p, b)
      <4>1. b <= Len(LeftOut(box, p))
        BY <1>1, <1>5 DEF n
      <4> QED BY <1>1, <1>5, <1>6, <4>1, ReorderedIs
    <3>2. Reordered(box, x, i - 1) = Inserted(w, p, r)
      BY <1>5, <2>1, <3>1
    <3>3. new = Inserted(w, p, r)
      BY <2>1, <2>3, <3>2
    <3> QED BY <1>2, <1>5, <2>1, <3>3 DEF r, l, n
  <2> QED BY <2>2, <2>3
<1>9. CASE ~(i <= b) /\ i # b + 1
  <2>1. i - 1 \in 1..n /\ x = w[i - 1] /\ o = b /\ r = b
    BY <1>1, <1>9 DEF Reached, r, o
  <2> DEFINE k == i - 1
  <2>2. PlaceOf(box, x) = k /\ x \in ToSet(box)
    <3>1. PlaceOf(box, w[k]) = Shift(k, o) - 1
      BY <1>5, <2>1
    <3>2. Shift(k, o) - 1 = k
      BY <1>1, <1>9, <2>1 DEF Shift
    <3> QED BY <1>1, <1>5, <2>1, <3>1, <3>2
  <2> HIDE DEF k
  <2>3. Reordered(box, x, PlaceOf(box, x)) = box
    BY <1>5, <1>6, <2>2, ReorderedStays
  <2>4. Reordered(box, x, i - 1) = box
    BY <2>2, <2>3 DEF k
  <2>5. new = Inserted(w, p, r)
    BY <1>4, <2>1, <2>4
  <2> QED BY <1>1, <1>2, <1>5, <2>1, <2>5 DEF r, l, n
<1> QED BY <1>1, <1>7, <1>8, <1>9

\* If one service moves or goes, so does its widget.
LEMMA FollowMoves ==
  ASSUME ListAssumption, NEW s \in SoundStates(managers), s.rows = ToSet(s.list), s.dragged = {},
         s.inBox = s.list, NEW w \in Seq(Paths), Apart(w), NEW p \in Paths, p \notin ToSet(w),
         NEW a \in 0..Len(w), NEW b \in 0..Len(w), s.list = Inserted(w, p, a), NEW q \in Orders,
         q = Inserted(w, p, b) \/ (q = w /\ b = Len(w))
  PROVE  Follow(s, q).inBox = q
<1> DEFINE l == s.list
           n == Len(w)
           c0(i) == IF p \in ToSet(q) \/ i <= a THEN Inserted(w, p, b) ELSE w
           f == [i \in 0..Len(q) |-> {Inserted(w, p, Reached(a, b, i))}]
           c == [i \in 0..Len(l) |-> {c0(i)}]
<1>1. PICK e, d : EnterSteps(s, q, e) /\ LeaveSteps(s, q, e[Len(q)], d) /\ Follow(s, q) = d[Len(l)]
  BY FollowRuns
<1>2. /\ n \in Nat /\ a \in Nat /\ b \in Nat /\ a <= n /\ b <= n
      /\ \A x : x \in ToSet(w) <=> \E k \in 1..n : w[k] = x
  BY SeqFacts
<1> HIDE DEF n
<1>3. /\ l \in Seq(Paths) /\ Len(l) = n + 1 /\ l[a + 1] = p
      /\ \A i \in 1..n : l[Shift(i, a)] = w[i]
      /\ Inserted(w, p, b) \in Seq(Paths) /\ Len(Inserted(w, p, b)) = n + 1
  BY InsertedIs DEF n
<1>4. /\ ToSet(l) = ToSet(w) \cup {p} /\ Apart(l)
      /\ LeftOut(Inserted(w, p, b), p) = w /\ ToSet(Inserted(w, p, b)) = ToSet(w) \cup {p}
  BY InsertedLine DEF n
<1>5. \A x : x \in ToSet(l) <=> \E k \in 1 .. n + 1 : l[k] = x
  BY <1>3, SeqFacts
<1>6. /\ q \in Seq(Paths) /\ Len(q) \in Nat /\ Len(q) <= n + 1
      /\ p \in ToSet(q) <=> q = Inserted(w, p, b)
      /\ q = Inserted(w, p, b) => Len(q) = n + 1
      /\ q # Inserted(w, p, b) => q = w /\ b = n /\ Len(q) = n
  <2>1. q = w => Len(q) = n /\ p \notin ToSet(q)
    BY DEF n
  <2> QED BY <1>2, <1>3, <1>4, <2>1, OrderIs DEF n
<1>7. \A i \in 1..Len(q) : q[i] = IF i <= b THEN w[i] ELSE IF i = b + 1 THEN p ELSE w[i - 1]
  <2>1. CASE q = Inserted(w, p, b)
    <3>1. \A i \in 1 .. Len(w) + 1 : Inserted(w, p, b)[i]
                                   = IF i <= b THEN w[i] ELSE IF i = b + 1 THEN p ELSE w[i - 1]
      BY InsertedAt
    <3> QED BY <1>6, <2>1, <3>1 DEF n
  <2>2. CASE q # Inserted(w, p, b)
    <3>1. \A i \in 1..Len(q) : i <= b
      BY <1>2, <1>6, <2>2
    <3> QED BY <1>6, <2>2, <3>1
  <2> QED BY <2>1, <2>2
<1>8. e[Len(q)] \in SoundStates(managers)
  <2>1. Len(q) \in 0..Len(q)
    BY <1>6
  <2> QED BY <1>1, <2>1 DEF EnterSteps
<1> HIDE DEF l
<1>9. ASSUME NEW i \in 1..Len(q), e[i - 1].inBox \in f[i - 1] PROVE e[i].inBox \in f[i]
  <2> DEFINE box == e[i - 1].inBox
             x == q[i]
  <2>1. i - 1 \in 0..Len(q) /\ i \in 0..Len(q) /\ i \in 1 .. Len(w) + 1
    BY <1>2, <1>6 DEF n
  <2>2. box = Inserted(w, p, Reached(a, b, i - 1))
    BY <1>9, <2>1
  <2>3. x = IF i <= b THEN w[i] ELSE IF i = b + 1 THEN p ELSE w[i - 1]
    BY <1>7
  <2>4. x \in s.rows => e[i].inBox = IF PlaceOf(l, x) # i - 1 /\ x \in ToSet(box)
                                     THEN Reordered(box, x, i - 1) ELSE box
    BY <1>1, EnteredBox DEF l
  <2> HIDE DEF box, x
  <2>5. /\ x \in ToSet(w) \cup {p} /\ ToSet(box) = ToSet(w) \cup {p}
        /\ (IF PlaceOf(Inserted(w, p, a), x) # i - 1 THEN Reordered(box, x, i - 1) ELSE box)
             = Inserted(w, p, Reached(a, b, i))
    BY ONLY <2>1, <2>2, <2>3, w \in Seq(Paths), Apart(w), p \in Paths, p \notin ToSet(w),
            a \in 0..Len(w), b \in 0..Len(w), OneMoves
  <2>6. x \in s.rows /\ x \in ToSet(box) /\ l = Inserted(w, p, a)
    BY <1>4, <2>5 DEF l
  <2>7. e[i].inBox = Inserted(w, p, Reached(a, b, i))
    BY <2>4, <2>5, <2>6
  <2> QED BY <2>1, <2>7
<1>10. ASSUME NEW i \in 1..Len(l), d[i - 1].inBox \in c[i - 1] PROVE d[i].inBox \in c[i]
  <2>1. i - 1 \in 0..Len(l) /\ i \in 0..Len(l) /\ d[i - 1].inBox = c0(i - 1)
    BY <1>2, <1>3, <1>10
  <2>2. /\ l[i] \in ToSet(q) => d[i].inBox = d[i - 1].inBox
        /\ l[i] \notin ToSet(q) => d[i].inBox = LeftOut(d[i - 1].inBox, l[i])
    BY <1>1, <1>8, LeftBox DEF l
  <2>3. CASE q = Inserted(w, p, b)
    <3>1. l[i] \in ToSet(q)
      BY <1>3, <1>4, <1>5, <2>3
    <3>2. c0(i) = c0(i - 1)
      BY <1>6, <2>3
    <3> QED BY <2>1, <2>2, <3>1, <3>2
  <2>4. CASE q # Inserted(w, p, b)
    <3>0. p \notin ToSet(q) /\ q = w /\ l[i] \in ToSet(l) /\ a + 1 \in 1 .. n + 1 /\ i \in 1 .. n + 1
      BY <1>2, <1>3, <1>5, <1>6, <2>4
    <3>1. CASE i = a + 1
      <4>1. l[i] = p /\ c0(i - 1) = Inserted(w, p, b) /\ c0(i) = w
        BY <1>2, <1>3, <3>0, <3>1
      <4>2. d[i].inBox = LeftOut(Inserted(w, p, b), p)
        BY <2>1, <2>2, <3>0, <4>1
      <4> QED BY <1>4, <2>1, <4>1, <4>2
    <3>2. CASE i # a + 1
      <4>1. l[i] # p
        <5>1. DOMAIN l = 1 .. n + 1
          BY <1>3
        <5> QED BY <1>3, <1>4, <3>0, <3>2, <5>1 DEF Apart
      <4>2. l[i] \in ToSet(q)
        BY <1>4, <3>0, <4>1
      <4>3. i - 1 <= a <=> i <= a
        BY <1>2, <3>0, <3>2
      <4>4. c0(i) = c0(i - 1)
        BY <4>3
      <4> QED BY <2>1, <2>2, <4>2, <4>4
    <3> QED BY <3>1, <3>2
  <2> QED BY <2>3, <2>4
<1>11. s.inBox \in f[0]
  <2>1. 0 \in 0..Len(q) /\ Reached(a, b, 0) = a
    BY <1>2, <1>6 DEF Reached
  <2> QED BY <2>1
<1>12. f[Len(q)] \subseteq c[0]
  <2>1. Len(q) \in 0..Len(q) /\ 0 \in 0..Len(l) /\ 0 <= a
    BY <1>2, <1>3, <1>6
  <2>2. Reached(a, b, Len(q)) = b
    BY <1>2, <1>6 DEF Reached
  <2> QED BY <2>1, <2>2
<1>13. c[Len(l)] = {q}
  <2>1. Len(l) \in 0..Len(l) /\ ~(Len(l) <= a)
    BY <1>2, <1>3
  <2> QED BY <1>6, <2>1
<1> HIDE DEF f, c
<1>14. Follow(s, q).inBox \in c[Len(l)]
  BY <1>1, <1>9, <1>10, <1>11, <1>12, FollowKeeps DEF l
<1> QED BY <1>13, <1>14

\* While the widgets are in order, they stay so if services move, come last or go one by one.
LEMMA FollowNear ==
  ASSUME ListAssumption, NEW s \in SoundStates(managers), s.rows = ToSet(s.list), s.dragged = {},
         s.inBox = s.list, NEW q \in Orders, Near(s.list, q)
  PROVE  Follow(s, q).inBox = q
<1> DEFINE l == s.list
<1>1. l \in Orders /\ l \in Seq(Paths) /\ Apart(l) /\ q \in Seq(Paths) /\ Apart(q)
  BY SoundFacts, OrderIs
<1>2. ASSUME NEW p \in Paths, LeftOut(l, p) = LeftOut(q, p), Len(q) <= Len(l)
      PROVE  Follow(s, q).inBox = q
  <2> DEFINE w == LeftOut(l, p)
  <2>1. w \in Seq(Paths) /\ Apart(w) /\ p \notin ToSet(w) /\ Len(w) \in Nat
    BY <1>1, LeftLine
  <2>2. /\ p \notin ToSet(l) => w = l
        /\ p \in ToSet(l) => /\ Len(w) = Len(l) - 1 /\ PlaceOf(l, p) \in 0..Len(w)
                             /\ l = Inserted(w, p, PlaceOf(l, p))
    BY <1>1, LeftLine
  <2>3. /\ p \notin ToSet(q) => w = q
        /\ p \in ToSet(q) => /\ Len(w) = Len(q) - 1 /\ PlaceOf(q, p) \in 0..Len(w)
                             /\ q = Inserted(w, p, PlaceOf(q, p))
    BY <1>1, <1>2, LeftLine
  <2> HIDE DEF w
  <2>4. CASE p \in ToSet(l)
    <3> DEFINE a == PlaceOf(l, p)
               b == IF p \in ToSet(q) THEN PlaceOf(q, p) ELSE Len(w)
    <3>1. /\ a \in 0..Len(w) /\ b \in 0..Len(w) /\ l = Inserted(w, p, a)
          /\ q = Inserted(w, p, b) \/ (q = w /\ b = Len(w))
      BY <2>1, <2>2, <2>3, <2>4
    <3> HIDE DEF a, b
    <3> QED BY <2>1, <3>1, FollowMoves
  <2>5. CASE p \notin ToSet(l)
    <3>1. q = l
      <4>1. p \notin ToSet(q)
        <5>1. Len(l) \in Nat /\ Len(q) \in Nat
          BY <1>1
        <5> QED BY <1>2, <2>2, <2>3, <2>5, <5>1
      <4> QED BY <2>2, <2>3, <2>5, <4>1
    <3>2. Follow(s, s.inBox).inBox = s.inBox
      BY <1>1, FollowStays
    <3> QED BY <3>1, <3>2
  <2> QED BY <2>4, <2>5
<1>3. ASSUME q # <<>>, l = Front(q) PROVE Follow(s, q).inBox = q
  BY <1>3, FollowGrows
<1> QED BY <1>2, <1>3 DEF Near

(***************************************************************************)
(* The inductive invariant.  While the first widget is known to be the     *)
(* right one, a widget under the pointer was lifted out of the right       *)
(* order, and what connman is asked is to follow what the user did.        *)
(***************************************************************************)
Lifted(s, g) ==
  /\ g.item \in ToSet(s.list) /\ ~g.removed /\ g.from = PlaceOf(s.list, g.item)
  /\ g.to < Len(s.list) /\ s.inBox = LeftOut(s.list, g.item) /\ s.moves = {}
AskedFor(s, c) ==
  \E to \in 0 .. Len(s.list) - 1 :
    /\ c.item \in ToSet(s.list) /\ c.lives /\ c.from = PlaceOf(s.list, c.item) /\ to # c.from
    /\ s.inBox = Reordered(s.list, c.item, to)
    /\ to = 0 => c.other = c.item
    /\ to > 0 => c.after /\ c.other = s.inBox[to]
OrderFollows(s, g) ==
  /\ g # NoDrag => Lifted(s, g)
  /\ g = NoDrag /\ s.moves # {} => \E c : s.moves = {c} /\ AskedFor(s, c)
  /\ g = NoDrag /\ s.moves = {} => \A h \in s.named : Leads(s.list, h) => Leads(s.inBox, h)

OrderInv == /\ disorder.first => disorder.order
            /\ ~disorder.first => OrderFollows(ListNow, drag)
            /\ ~disorder.order /\ ~Unsettled => inBox = list
ListInv  == ListTypeOK /\ SoundBut(ListNow, {}, managers) /\ OrderInv

LEMMA ListParts ==
  ASSUME ListAssumption, ListTypeOK
  PROVE  /\ ListNow \in ListStates /\ Dragged \subseteq Paths
         /\ ListNow.list = list /\ ListNow.rows = ToSet(list) /\ ListNow.named = named
         /\ ListNow.inBox = inBox /\ ListNow.stale = stale /\ ListNow.due = due
         /\ ListNow.fallback = fallback /\ ListNow.cells = cells /\ ListNow.dummy = dummy
         /\ ListNow.orphans = orphans
         /\ ListNow.dragged = Dragged /\ ListNow.moves = moves /\ ListNow.lost = disorder.cells
         /\ list \in Seq(Paths) /\ Apart(list) /\ inBox \in Seq(Paths) /\ Apart(inBox)
<1>1. list \in Orders /\ inBox \in Orders
  BY DEF ListTypeOK
<1>2. list \in Seq(Paths) /\ Apart(list) /\ inBox \in Seq(Paths) /\ Apart(inBox)
  BY <1>1, OrderIs
<1>3. ToSet(list) \subseteq Paths
  BY <1>2, SeqFacts
<1>4. Dragged \subseteq Paths
  BY DEF ListTypeOK, Dragged, NoDrag
<1>5. ListNow \in ListStates
  BY <1>3, <1>4 DEF ListNow, ListStates, ListTypeOK, MoveCalls
<1> QED BY <1>2, <1>4, <1>5 DEF ListNow

LEMMA ListInitInv ==
  ASSUME ListAssumption, ListInit
  PROVE  ListInv
<1>1. <<>> \in Orders
  <2>1. <<>> \in Seq(Paths) /\ Apart(<<>>)
    BY DEF Apart
  <2> QED BY <2>1, LineIsOrder
<1>2. ToSet(<<>>) = {}
  BY DEF ToSet
<1>3. Cardinality(Paths) \in Nat /\ Cardinality({}) = 0
  BY FS_CardinalityType, FS_EmptySet DEF ListAssumption
<1>4. ListTypeOK
  <2>1. 0 \in 0..Cardinality(Paths) /\ drag = NoDrag
    BY <1>3 DEF ListInit
  <2>2. cells \in [live: SUBSET Cellular, dead: Nat] /\ disorder \in [order: BOOLEAN, first: BOOLEAN, cells: BOOLEAN]
    BY DEF ListInit
  <2>3. list \in Orders /\ inBox \in Orders /\ named \subseteq ToSet(list)
    BY <1>1 DEF ListInit
  <2>4. /\ stale \subseteq Paths /\ due \subseteq Paths /\ orphans \subseteq Paths
        /\ fallback \in BOOLEAN
        /\ managers \in 0..Cardinality(Paths) /\ dummy \in BOOLEAN /\ moves = {}
    BY <2>1 DEF ListInit
  <2> QED BY <2>1, <2>2, <2>3, <2>4 DEF ListTypeOK
<1>5. Dragged = {}
  BY DEF ListInit, Dragged, NoDrag
<1>6. SoundBut(ListNow, {}, managers)
  <2>1. /\ ListNow.rows = {} /\ ToSet(ListNow.inBox) = {} /\ ListNow.dragged = {} /\ ListNow.fallback
        /\ ListNow.stale = {} /\ ListNow.due = {} /\ ListNow.named = {} /\ ListNow.cells.live = {}
        /\ ListNow.cells.dead = 0 /\ ~ListNow.dummy /\ ListNow.orphans = {}
    <3>1. /\ list = <<>> /\ inBox = <<>> /\ fallback /\ stale = {} /\ due = {} /\ named = {}
          /\ cells = [live |-> {}, dead |-> 0] /\ dummy = FALSE /\ orphans = {}
      BY DEF ListInit
    <3>2. /\ ListNow.rows = ToSet(list) /\ ListNow.inBox = inBox /\ ListNow.dragged = Dragged
          /\ ListNow.fallback = fallback /\ ListNow.stale = stale /\ ListNow.due = due
          /\ ListNow.named = named /\ ListNow.cells = cells /\ ListNow.dummy = dummy
          /\ ListNow.orphans = orphans
      BY <1>4, ListParts
    <3> QED BY <1>2, <1>5, <3>1, <3>2
  <2>2. ~(managers > Cardinality({}) + 0)
    BY <1>3 DEF ListInit
  <2> QED BY <2>1, <2>2 DEF SoundBut
<1>7. OrderInv
  BY DEF ListInit, OrderInv, OrderFollows, ListNow
<1> QED BY <1>4, <1>6, <1>7 DEF ListInv

\* What is dragged is known to the state, and stays until its row goes.
LEMMA DragIs ==
  ASSUME ListAssumption, ListTypeOK, NEW t, t.dragged \subseteq Dragged,
         drag' = [drag EXCEPT !.removed = drag.item # "none" /\ t.dragged = {}]
  PROVE  /\ drag' \in {NoDrag} \cup [item: Paths, from: BoxPlaces, to: BoxPlaces, removed: BOOLEAN]
         /\ Dragged' = t.dragged /\ (drag' = NoDrag <=> drag = NoDrag)
         /\ t.dragged # {} \/ drag = NoDrag => drag' = drag
<1>1. drag \in {NoDrag} \cup [item: Paths, from: BoxPlaces, to: BoxPlaces, removed: BOOLEAN]
  BY DEF ListTypeOK
<1>2. CASE drag = NoDrag
  <2>1. Dragged = {} /\ drag.item = "none"
    BY <1>2 DEF Dragged, NoDrag
  <2>2. drag' = NoDrag
    BY <1>2, <2>1 DEF NoDrag
  <2>3. Dragged' = {}
    BY <2>2 DEF Dragged, NoDrag
  <2> QED BY <1>2, <2>1, <2>2, <2>3
<1>3. CASE drag # NoDrag
  <2>1. drag \in [item: Paths, from: BoxPlaces, to: BoxPlaces, removed: BOOLEAN]
    BY <1>1, <1>3
  <2>2. drag.item \in Paths /\ drag.item # "none"
    BY <2>1 DEF ListAssumption
  <2>3. /\ drag' \in [item: Paths, from: BoxPlaces, to: BoxPlaces, removed: BOOLEAN]
        /\ drag'.item = drag.item /\ drag'.removed = (t.dragged = {})
    BY <2>1, <2>2
  <2>4. drag' # NoDrag
    BY <2>2, <2>3 DEF NoDrag
  <2>5. Dragged' = IF drag'.removed THEN {} ELSE {drag.item}
    BY <2>2, <2>3 DEF Dragged
  <2>6. Dragged = IF drag.removed THEN {} ELSE {drag.item}
    BY <2>2 DEF Dragged
  <2>7. Dragged' = t.dragged
    BY <2>3, <2>5, <2>6
  <2>8. ASSUME t.dragged # {} PROVE drag' = drag
    <3>1. drag.removed = FALSE /\ drag.removed \in BOOLEAN
      BY <2>1, <2>6, <2>8
    <3>2. drag' = [drag EXCEPT !.removed = FALSE]
      BY <2>2, <2>8
    <3> QED BY <2>1, <3>1, <3>2
  <2> QED BY <1>3, <2>3, <2>4, <2>7, <2>8
<1> QED BY <1>2, <1>3

\* A handler that ends in a sound state whose order is as it should be.
LEMMA BecomeIs ==
  ASSUME ListAssumption, ListInv, NEW t \in SoundStates(managers'), t.rows = ToSet(t.list),
         managers' \in 0..Cardinality(Paths),
         t.dragged \subseteq Dragged, NEW jumbled \in BOOLEAN, NEW disturbed \in BOOLEAN,
         ListBecome(t, jumbled, disturbed),
         ~disorder.first /\ ~disturbed => OrderFollows(t, drag'),
         ~disorder.order /\ ~jumbled /\ ~disturbed /\ drag = NoDrag /\ t.moves = {}
           => t.inBox = t.list
  PROVE  ListInv'
<1> DEFINE well == t.inBox = t.list /\ t.moves = {} /\ drag = NoDrag
<1>1. /\ t \in ListStates /\ SoundBut(t, {}, managers')
  BY DEF SoundStates
<1>2. /\ list' = t.list /\ named' = t.named /\ inBox' = t.inBox /\ stale' = t.stale /\ due' = t.due
      /\ orphans' = t.orphans /\ fallback' = t.fallback /\ cells' = t.cells /\ dummy' = t.dummy /\ moves' = t.moves
      /\ drag' = [drag EXCEPT !.removed = drag.item # "none" /\ t.dragged = {}]
      /\ disorder' = [order |-> (disorder.order \/ jumbled \/ disturbed) /\ ~well,
                      first |-> (disorder.first \/ disturbed) /\ ~well, cells |-> t.lost]
  BY DEF ListBecome
<1>3. ListTypeOK /\ OrderInv /\ disorder \in [order: BOOLEAN, first: BOOLEAN, cells: BOOLEAN]
  BY DEF ListInv, ListTypeOK
<1>4. /\ drag' \in {NoDrag} \cup [item: Paths, from: BoxPlaces, to: BoxPlaces, removed: BOOLEAN]
      /\ Dragged' = t.dragged /\ (drag' = NoDrag <=> drag = NoDrag)
  BY <1>2, <1>3, DragIs
<1>5. ListNow' = t
  <2>1. ListNow' = [list |-> t.list, rows |-> t.rows, named |-> t.named, inBox |-> t.inBox,
                    stale |-> t.stale, due |-> t.due, orphans |-> t.orphans,
                    fallback |-> t.fallback, cells |-> t.cells,
                    dummy |-> t.dummy, dragged |-> t.dragged, moves |-> t.moves, lost |-> t.lost]
    BY <1>2, <1>4 DEF ListNow
  <2> QED BY <1>1, <2>1 DEF ListStates
<1> HIDE DEF well
<1>6. well \in BOOLEAN /\ t.lost \in BOOLEAN
  BY <1>1 DEF well, ListStates
<1>7. /\ disorder' \in [order: BOOLEAN, first: BOOLEAN, cells: BOOLEAN]
      /\ disorder'.order = ((disorder.order \/ jumbled \/ disturbed) /\ ~well)
      /\ disorder'.first = ((disorder.first \/ disturbed) /\ ~well)
  BY <1>2, <1>3, <1>6
<1>8. ListTypeOK'
  <2>1. t.named \subseteq ToSet(t.list)
    BY <1>1 DEF SoundBut
  <2> QED BY <1>1, <1>2, <1>4, <1>7, <2>1 DEF ListTypeOK, ListStates, MoveCalls, BoxPlaces
<1>9. OrderInv'
  <2>1. disorder'.first => disorder'.order
    BY <1>3, <1>7 DEF OrderInv
  <2>2. ASSUME ~disorder'.first PROVE OrderFollows(t, drag')
    <3>1. CASE well
      BY <1>4, <3>1 DEF well, OrderFollows
    <3>2. CASE ~well
      BY <1>3, <1>7, <2>2, <3>2
    <3> QED BY <3>1, <3>2
  <2>3. ASSUME ~disorder'.order, ~Unsettled' PROVE inBox' = list'
    <3>1. drag = NoDrag /\ t.moves = {}
      BY <1>2, <1>4, <2>3 DEF Unsettled
    <3>2. CASE well
      BY <1>2, <3>2 DEF well
    <3>3. CASE ~well
      BY <1>2, <1>7, <2>3, <3>1, <3>3
    <3> QED BY <3>2, <3>3
  <2> QED BY <1>5, <2>1, <2>2, <2>3 DEF OrderInv
<1> QED BY <1>1, <1>5, <1>8, <1>9 DEF ListInv

LEMMA NowIsSound ==
  ASSUME ListAssumption, ListInv
  PROVE  ListNow \in SoundStates(managers)
BY ListParts DEF ListInv, SoundStates

LEMMA ChangesInv ==
  ASSUME ListAssumption, ListInv, NEW q \in Orders, ListChanges(q)
  PROVE  ListInv'
<1> DEFINE s == ListNow
           t == Follow(s, q)
<1>1. /\ ListTypeOK /\ OrderInv /\ s \in SoundStates(managers)
  BY NowIsSound DEF ListInv
<1>2. /\ s.list = list /\ s.rows = ToSet(list) /\ s.named = named /\ s.inBox = inBox
      /\ s.dragged = Dragged /\ s.moves = moves
  BY <1>1, ListParts
<1>3. /\ ListBecome(t, ~Near(list, q), Unsettled) /\ managers' = managers
      /\ managers \in 0..Cardinality(Paths)
  BY <1>1 DEF ListChanges, ListTypeOK
<1> HIDE DEF s
<1>4. /\ t \in SoundStates(managers) /\ t.list = q
      /\ t.rows = ToSet(q) /\ t.named = s.named \cap ToSet(q)
      /\ t.dragged = s.dragged \cap ToSet(q)
      /\ s.moves = {} => t.moves = {}
  BY <1>1, <1>2, FollowIs
<1> HIDE DEF t
<1>5. drag = NoDrag => s.dragged = {} /\ drag' = NoDrag
  <2>1. drag' = [drag EXCEPT !.removed = drag.item # "none" /\ t.dragged = {}]
    BY <1>3 DEF ListBecome
  <2>2. drag = NoDrag => Dragged = {}
    BY DEF Dragged, NoDrag
  <2>3. drag' = NoDrag <=> drag = NoDrag
    BY <1>1, <1>2, <1>4, <2>1, DragIs
  <2> QED BY <1>2, <2>2, <2>3
<1>6. ASSUME ~disorder.first, ~Unsettled PROVE OrderFollows(t, drag')
  <2>1. drag = NoDrag /\ moves = {} /\ t.moves = {} /\ drag' = NoDrag /\ s.dragged = {}
    BY <1>2, <1>4, <1>5, <1>6 DEF Unsettled
  <2>2. OrderFollows(s, drag)
    BY <1>1, <1>6 DEF OrderInv, s
  <2>3. ASSUME NEW h \in t.named, Leads(q, h) PROVE Leads(t.inBox, h)
    <3>1. h \in s.named /\ h \in s.rows
      BY <1>1, <1>4, SoundFacts DEF SoundBut
    <3>2. Leads(s.list, h) => Leads(s.inBox, h)
      BY <1>2, <2>1, <2>2, <3>1 DEF OrderFollows
    <3> QED BY <1>1, <1>2, <2>1, <2>3, <3>1, <3>2, FollowLeads DEF t
  <2> QED BY <1>4, <2>1, <2>3 DEF OrderFollows
<1>7. ASSUME ~disorder.order, ~(~Near(list, q)), ~Unsettled PROVE t.inBox = t.list
  <2>1. inBox = list /\ drag = NoDrag
    BY <1>1, <1>7 DEF OrderInv, Unsettled
  <2>2. s.inBox = s.list /\ s.dragged = {} /\ Near(s.list, q)
    BY <1>2, <1>5, <1>7, <2>1
  <2>3. t.inBox = q
    BY <1>1, <1>2, <2>2, FollowNear DEF t
  <2> QED BY <1>4, <2>3
<1>8. /\ t \in SoundStates(managers') /\ managers' \in 0..Cardinality(Paths)
      /\ t.rows = ToSet(t.list) /\ t.dragged \subseteq Dragged
      /\ (~Near(list, q)) \in BOOLEAN /\ Unsettled \in BOOLEAN
  <2>1. (~Near(list, q)) \in BOOLEAN /\ Unsettled \in BOOLEAN
    BY DEF Near, Unsettled
  <2>2. t \in SoundStates(managers') /\ managers' \in 0..Cardinality(Paths)
    BY <1>3, <1>4
  <2>3. t.rows = ToSet(t.list) /\ t.dragged \subseteq Dragged
    BY <1>2, <1>4
  <2> QED BY <2>1, <2>2, <2>3
<1> QED BY <1>3, <1>6, <1>7, <1>8, BecomeIs

LEMMA RowChangesInv ==
  ASSUME ListAssumption, ListInv, NEW p \in Paths, RowChanges(p)
  PROVE  ListInv'
<1> DEFINE s == [ListNow EXCEPT !.named = @ \cup {p}]
           k == PlaceOf(list, p)
           t == RowChanged(s, p, k)
<1>1. ListTypeOK /\ OrderInv /\ SoundBut(ListNow, {}, managers) /\ p \in ToSet(list)
  BY DEF ListInv, RowChanges
<1>2. /\ s \in ListStates /\ s.list = list /\ s.rows = ToSet(list) /\ s.named = named \cup {p}
      /\ s.inBox = inBox /\ s.dragged = Dragged /\ s.moves = moves /\ SoundBut(s, {p}, managers)
  <2>1. /\ ListNow \in ListStates /\ ListNow.list = list /\ ListNow.rows = ToSet(list)
        /\ ListNow.named = named /\ ListNow.inBox = inBox /\ ListNow.dragged = Dragged
        /\ ListNow.moves = moves
    BY <1>1, ListParts
  <2>2. /\ s \in ListStates /\ s.list = ListNow.list /\ s.rows = ListNow.rows
        /\ s.named = ListNow.named \cup {p} /\ s.inBox = ListNow.inBox
        /\ s.dragged = ListNow.dragged /\ s.moves = ListNow.moves /\ s.stale = ListNow.stale
        /\ s.due = ListNow.due /\ s.fallback = ListNow.fallback /\ s.cells = ListNow.cells
        /\ s.dummy = ListNow.dummy /\ s.lost = ListNow.lost /\ s.orphans = ListNow.orphans
    BY <2>1 DEF ListStates
  <2> HIDE DEF s
  <2>3. SoundBut(s, {p}, managers)
    BY <1>1, <2>1, <2>2 DEF SoundBut
  <2> QED BY <2>1, <2>2, <2>3
<1>3. /\ ListBecome(t, FALSE, Unsettled) /\ managers' = managers
      /\ managers \in 0..Cardinality(Paths)
  BY <1>1 DEF RowChanges, ListTypeOK
<1>4. /\ list \in Seq(Paths) /\ Apart(list) /\ inBox \in Seq(Paths) /\ Apart(inBox)
      /\ DOMAIN list = 1..Len(list) /\ Len(list) \in Nat
  BY <1>1, ListParts
<1>5. k \in 0 .. Len(list) - 1 /\ list[k + 1] = p /\ k \in Nat
  <2>1. k \in 0 .. Len(list) - 1 /\ list[k + 1] = p
    BY <1>1, <1>4, PlaceIs
  <2> QED BY <1>4, <2>1
<1> HIDE DEF s, k
<1>6. /\ t \in SoundStates(managers) /\ SameOrder(s, t) /\ t.rows = s.rows
      /\ p \in ToSet(s.inBox) => t.inBox = Reordered(s.inBox, p, k)
  BY <1>1, <1>2, <1>5, RowChangedIs
<1> HIDE DEF t
<1>7. /\ t.list = list /\ t.rows = ToSet(list) /\ t.named = named \cup {p} /\ t.dragged = Dragged
      /\ t.moves = moves
  BY <1>2, <1>6 DEF SameOrder
<1>8. drag = NoDrag => drag' = NoDrag /\ p \in ToSet(inBox) /\ t.inBox = Reordered(inBox, p, k)
  <2>1. drag' = [drag EXCEPT !.removed = drag.item # "none" /\ t.dragged = {}]
    BY <1>3 DEF ListBecome
  <2>2. drag = NoDrag => Dragged = {}
    BY DEF Dragged, NoDrag
  <2>3. drag' = NoDrag <=> drag = NoDrag
    BY <1>1, <1>7, <2>1, DragIs
  <2>4. drag = NoDrag => p \in ToSet(inBox)
    BY <1>1, <1>2, <2>2 DEF SoundBut
  <2> QED BY <1>2, <1>6, <2>3, <2>4
<1>9. ASSUME ~disorder.first, ~Unsettled PROVE OrderFollows(t, drag')
  <2>1. drag = NoDrag /\ moves = {} /\ t.moves = {} /\ drag' = NoDrag
    BY <1>7, <1>8, <1>9 DEF Unsettled
  <2>2. OrderFollows(ListNow, drag)
    BY <1>1, <1>9 DEF OrderInv
  <2>3. ASSUME NEW h \in t.named, Leads(list, h) PROVE Leads(t.inBox, h)
    <3>1. 1 \in 1..Len(list) /\ list[1] = h
      BY <1>4, <2>3 DEF Leads
    <3>2. CASE h = p
      <4>1. k = 0
        <5>1. 1 - 1 = 0 /\ PlaceOf(list, list[1]) = 1 - 1
          BY <1>4, <3>1, PlaceIs
        <5> QED BY <3>1, <3>2, <5>1 DEF k
      <4>2. Leads(Reordered(inBox, p, 0), p)
        BY <1>4, LeadsNow
      <4> QED BY <1>8, <2>1, <3>2, <4>1, <4>2
    <3>3. CASE h # p
      <4>1. k # 0 /\ k > 0
        <5>1. k = 0 => list[1] = p
          <6>1. 0 + 1 = 1
            OBVIOUS
          <6> QED BY <1>5, <6>1
        <5> QED BY <1>5, <3>1, <3>3, <5>1
      <4>2. h \in ListNow.named /\ ListNow.list = list /\ ListNow.inBox = inBox /\ ListNow.moves = moves
        BY <1>1, <1>7, <2>3, <3>3, ListParts
      <4>3. Leads(inBox, h)
        BY <2>1, <2>2, <2>3, <4>2 DEF OrderFollows
      <4>4. Leads(Reordered(inBox, p, k), h)
        BY <1>4, <1>5, <3>3, <4>1, <4>3, LeadsYet
      <4> QED BY <1>8, <2>1, <4>4
    <3> QED BY <3>2, <3>3
  <2> QED BY <1>7, <2>1, <2>3 DEF OrderFollows
<1>10. ASSUME ~disorder.order, ~Unsettled PROVE t.inBox = t.list
  <2>1. inBox = list /\ drag = NoDrag
    BY <1>1, <1>10 DEF OrderInv, Unsettled
  <2>2. Reordered(list, p, PlaceOf(list, p)) = list
    BY <1>1, <1>4, ReorderedStays
  <2> QED BY <1>7, <1>8, <2>1, <2>2 DEF k
<1>11. /\ t \in SoundStates(managers') /\ managers' \in 0..Cardinality(Paths)
       /\ t.rows = ToSet(t.list) /\ t.dragged \subseteq Dragged
       /\ FALSE \in BOOLEAN /\ Unsettled \in BOOLEAN
  BY <1>3, <1>6, <1>7 DEF Unsettled
<1> QED BY <1>3, <1>9, <1>10, <1>11, BecomeIs

\* A handler that is not about the order.
LEMMA OrderKept ==
  ASSUME ListAssumption, ListInv, NEW t \in SoundStates(managers'), t.rows = ListNow.rows,
         managers' \in 0..Cardinality(Paths),
         SameOrder(ListNow, t), t.inBox = ListNow.inBox, ListBecome(t, FALSE, FALSE)
  PROVE  ListInv'
<1>1. ListTypeOK /\ OrderInv
  BY DEF ListInv
<1>2. /\ t.list = list /\ t.rows = ToSet(list) /\ t.named = named /\ t.dragged = Dragged
      /\ t.moves = moves /\ t.inBox = inBox
  BY <1>1, ListParts DEF SameOrder
<1>3. drag' = [drag EXCEPT !.removed = drag.item # "none" /\ t.dragged = {}]
  BY DEF ListBecome
<1>4. /\ drag' = NoDrag <=> drag = NoDrag
      /\ t.dragged # {} \/ drag = NoDrag => drag' = drag
  BY <1>1, <1>2, <1>3, DragIs
<1>5. ASSUME ~disorder.first PROVE OrderFollows(t, drag')
  <2>1. OrderFollows(ListNow, drag)
    BY <1>1, <1>5 DEF OrderInv
  <2>2. drag # NoDrag => ~drag.removed
    BY <2>1 DEF OrderFollows, Lifted
  <2>3. drag # NoDrag => drag.item # "none"
    BY <1>1 DEF ListTypeOK, ListAssumption
  <2>4. drag' = drag
    BY <1>2, <1>4, <2>2, <2>3 DEF Dragged
  <2>5. /\ ListNow.list = t.list /\ ListNow.named = t.named /\ ListNow.inBox = t.inBox
        /\ ListNow.moves = t.moves
    BY DEF SameOrder
  <2>6. Lifted(ListNow, drag) => Lifted(t, drag)
    BY <2>5 DEF Lifted
  <2>7. \A c : AskedFor(ListNow, c) => AskedFor(t, c)
    BY <2>5 DEF AskedFor
  <2> QED BY <2>1, <2>4, <2>5, <2>6, <2>7 DEF OrderFollows
<1>6. ASSUME ~disorder.order, drag = NoDrag, t.moves = {} PROVE t.inBox = t.list
  BY <1>1, <1>2, <1>6 DEF OrderInv, Unsettled
<1>7. t.rows = ToSet(t.list) /\ t.dragged \subseteq Dragged /\ FALSE \in BOOLEAN
  BY <1>2
<1> QED BY <1>5, <1>6, <1>7, BecomeIs

LEMMA DelayedInv ==
  ASSUME ListAssumption, ListInv, DelayedUpdate
  PROVE  ListInv'
<1> DEFINE s == [ListNow EXCEPT !.orphans = {}]
           t == ItemsUpdated(s, due)
<1>1. ListBecome(t, FALSE, FALSE) /\ managers' = managers /\ managers' \in 0..Cardinality(Paths)
  BY DEF DelayedUpdate, ListInv, ListTypeOK
<1>2. /\ t \in SoundStates(managers) /\ SameOrder(ListNow, t)
      /\ t.rows = ListNow.rows /\ t.inBox = ListNow.inBox
  <2>1. ListNow \in ListStates /\ SoundBut(ListNow, {}, managers)
    BY NowIsSound DEF SoundStates
  <2>2. /\ s \in ListStates /\ SameOrder(ListNow, s) /\ s.rows = ListNow.rows
        /\ s.inBox = ListNow.inBox /\ s.stale = ListNow.stale /\ s.due = ListNow.due
        /\ s.fallback = ListNow.fallback /\ s.cells = ListNow.cells /\ s.dummy = ListNow.dummy
        /\ s.lost = ListNow.lost /\ s.orphans = {}
    BY <2>1 DEF ListStates, SameOrder
  <2> HIDE DEF s
  <2>3. SoundBut(s, {}, managers)
    BY <2>1, <2>2 DEF SoundBut, SameOrder
  <2>4. s \in SoundStates(managers)
    BY <2>2, <2>3 DEF SoundStates
  <2>5. /\ t \in SoundStates(managers) /\ SameOrder(s, t) /\ t.rows = s.rows /\ t.inBox = s.inBox
    BY <2>4, ItemsUpdatedIs
  <2> HIDE DEF t
  <2> QED BY <2>2, <2>5 DEF SameOrder
<1> HIDE DEF s, t
<1>3. t \in SoundStates(managers')
  BY <1>1, <1>2
<1> QED BY <1>1, <1>2, <1>3, OrderKept

LEMMA ConnmansInv ==
  ASSUME ListAssumption, ListInv, NEW n \in 0..Cardinality(Cellular), ConnmansChange(n)
  PROVE  ListInv'
<1> DEFINE t == Modem(ListNow, n)
<1>1. ListBecome(t, FALSE, FALSE) /\ managers' = n
  BY DEF ConnmansChange
<1>2. n \in 0..Cardinality(Paths)
  <2>1. Cellular \in SUBSET Paths /\ IsFiniteSet(Paths)
    BY DEF ListAssumption
  <2>2. Cardinality(Cellular) <= Cardinality(Paths) /\ IsFiniteSet(Cellular)
    BY <2>1, FS_Subset
  <2>3. Cardinality(Cellular) \in Nat /\ Cardinality(Paths) \in Nat
    BY <2>1, <2>2, FS_CardinalityType
  <2> QED BY <2>2, <2>3
<1>3. ListNow \in ListStates /\ SoundBut(ListNow, {}, managers)
  BY ListParts DEF ListInv
<1>4. /\ t \in ListStates
      /\ t.dummy <=> n > Cardinality(ListNow.cells.live) + ListNow.cells.dead
      /\ SameOrder(ListNow, t) /\ t.rows = ListNow.rows /\ t.inBox = ListNow.inBox
      /\ t.stale = ListNow.stale /\ t.due = ListNow.due /\ t.cells = ListNow.cells
      /\ t.fallback = ListNow.fallback /\ t.lost = ListNow.lost /\ t.orphans = ListNow.orphans
  BY <1>3, ModemIs
<1> HIDE DEF t
<1>5. SoundBut(t, {}, n)
  BY <1>3, <1>4 DEF SoundBut, SameOrder
<1>6. t \in SoundStates(managers') /\ managers' \in 0..Cardinality(Paths)
  BY <1>1, <1>2, <1>4, <1>5 DEF SoundStates
<1> QED BY <1>1, <1>4, <1>6, OrderKept

\* What the user does moves widgets between the list and the pointer.
LEMMA DragSound ==
  ASSUME ListAssumption, ListInv,
         UNCHANGED <<list, named, stale, due, orphans, fallback, managers, cells, dummy>>,
         inBox' \in Orders, ToSet(inBox') \cup Dragged' = ToSet(list), Dragged' \cap ToSet(inBox') = {},
         drag' \in {NoDrag} \cup [item: Paths, from: BoxPlaces, to: BoxPlaces, removed: BOOLEAN],
         moves' \subseteq MoveCalls, disorder' \in [order: BOOLEAN, first: BOOLEAN, cells: BOOLEAN],
         disorder'.cells = disorder.cells
  PROVE  /\ ListTypeOK' /\ SoundBut(ListNow, {}, managers)'
         /\ ListNow'.list = list /\ ListNow'.named = named /\ ListNow'.inBox = inBox'
         /\ ListNow'.moves = moves'
<1> DEFINE n == ListNow'
<1>1. ListTypeOK /\ SoundBut(ListNow, {}, managers)
  BY DEF ListInv
<1>2. /\ list' = list /\ named' = named /\ stale' = stale /\ due' = due /\ fallback' = fallback
      /\ managers' = managers /\ cells' = cells /\ dummy' = dummy /\ orphans' = orphans
  OBVIOUS
<1>3. /\ n.list = list /\ n.rows = ToSet(list) /\ n.named = named /\ n.inBox = inBox'
      /\ n.stale = stale /\ n.due = due /\ n.fallback = fallback /\ n.cells = cells
      /\ n.orphans = orphans /\ n.dummy = dummy /\ n.dragged = Dragged' /\ n.moves = moves' /\ n.lost = disorder.cells
  BY <1>2 DEF ListNow
<1>4. /\ ListNow.rows = ToSet(list) /\ ListNow.named = named
      /\ ListNow.stale = stale /\ ListNow.due = due /\ ListNow.fallback = fallback
      /\ ListNow.orphans = orphans /\ ListNow.cells = cells /\ ListNow.dummy = dummy /\ ListNow.lost = disorder.cells
  BY DEF ListNow
<1>5. ListTypeOK'
  BY <1>1, <1>2 DEF ListTypeOK, MoveCalls, BoxPlaces
<1> HIDE DEF n
<1>6. SoundBut(n, {}, managers)
  BY <1>1, <1>3, <1>4 DEF SoundBut
<1> QED BY <1>2, <1>3, <1>5, <1>6 DEF n

\* Two places for one service make two lists.
LEMMA ElsewhereIsOther ==
  ASSUME NEW q \in Seq(Paths), Apart(q), NEW x \in ToSet(q), NEW to \in 0 .. Len(q) - 1,
         to # PlaceOf(q, x)
  PROVE  Reordered(q, x, to) # q
<1>1. /\ x \in Paths /\ Len(LeftOut(q, x)) = Len(q) - 1 /\ LeftOut(q, x) \in Seq(Paths)
  BY LeftLine
<1>2. to \in Nat /\ to <= Len(LeftOut(q, x))
  BY <1>1
<1>3. PlaceOf(Reordered(q, x, to), x) = to
  BY <1>1, <1>2, ReorderedIs
<1> QED BY <1>3

LEMMA ReorderedTo ==
  ASSUME NEW q \in Seq(Paths), Apart(q), NEW x \in Paths, NEW at, at \in Nat
  PROVE  Reordered(q, x, at) = Inserted(LeftOut(q, x), x, IF at <= Len(LeftOut(q, x)) THEN at
                                                         ELSE Len(LeftOut(q, x)))
<1>1. Len(LeftOut(q, x)) \in Nat
  BY LeftLine
<1>2. CASE at <= Len(LeftOut(q, x))
  BY <1>2, ReorderedIs
<1>3. CASE at > Len(LeftOut(q, x))
  <2>1. Reordered(q, x, at) = Inserted(LeftOut(q, x), x, Len(LeftOut(q, x)))
    BY <1>3, ReorderedIs
  <2>2. ~(at <= Len(LeftOut(q, x)))
    BY <1>1, <1>3
  <2> QED BY <2>1, <2>2
<1> QED BY <1>1, <1>2, <1>3

LEMMA DragBeginInv ==
  ASSUME ListAssumption, ListInv, NEW p \in Paths, DragBegin(p)
  PROVE  ListInv'
<1> DEFINE k == PlaceOf(inBox, p)
<1>1. /\ ListTypeOK /\ OrderInv /\ SoundBut(ListNow, {}, managers)
      /\ disorder \in [order: BOOLEAN, first: BOOLEAN, cells: BOOLEAN]
  BY DEF ListInv, ListTypeOK
<1>2. /\ drag = NoDrag /\ p \in ToSet(inBox)
      /\ drag' = [item |-> p, from |-> k, to |-> k, removed |-> FALSE]
      /\ inBox' = LeftOut(inBox, p)
      /\ disorder' = [disorder EXCEPT !.order = @ \/ inBox # list, !.first = @ \/ inBox # list]
      /\ UNCHANGED <<list, named, stale, due, orphans, fallback, managers, cells, dummy, moves>>
  BY DEF DragBegin
<1>3. /\ list \in Orders /\ inBox \in Orders /\ inBox \in Seq(Paths) /\ Apart(inBox)
      /\ list \in Seq(Paths) /\ Len(list) \in Nat
      /\ Len(inBox) \in Nat /\ Len(inBox) <= Cardinality(Paths)
  BY <1>1, OrderIs DEF ListTypeOK
<1>4. k \in 0 .. Len(inBox) - 1
  BY <1>2, <1>3, PlaceIs
<1> HIDE DEF k
<1>5. k \in BoxPlaces
  BY <1>3, <1>4, FS_CardinalityType DEF BoxPlaces, ListAssumption
<1>6. p # "none"
  BY DEF ListAssumption
<1>7. /\ drag' \in [item: Paths, from: BoxPlaces, to: BoxPlaces, removed: BOOLEAN]
      /\ drag'.item = p /\ drag'.from = k /\ drag'.to = k /\ ~drag'.removed
  BY <1>2, <1>5
<1>8. Dragged' = {p} /\ drag' # NoDrag
  BY <1>6, <1>7 DEF Dragged, NoDrag
<1>9. inBox' \in Orders /\ ToSet(inBox') = ToSet(inBox) \ {p}
  BY <1>2, <1>3, OrdersStay
<1>10. ToSet(inBox) = ToSet(list)
  <2>1. Dragged = {}
    BY <1>2 DEF Dragged, NoDrag
  <2>2. ListNow.rows = ToSet(list) /\ ListNow.inBox = inBox /\ ListNow.dragged = {}
    BY <2>1 DEF ListNow
  <2> QED BY <1>1, <2>2 DEF SoundBut
<1>11. /\ disorder' \in [order: BOOLEAN, first: BOOLEAN, cells: BOOLEAN]
       /\ disorder'.order = (disorder.order \/ inBox # list)
       /\ disorder'.first = (disorder.first \/ inBox # list) /\ disorder'.cells = disorder.cells
  BY <1>1, <1>2
<1>12. /\ ListTypeOK' /\ SoundBut(ListNow, {}, managers)'
       /\ ListNow'.list = list /\ ListNow'.named = named /\ ListNow'.inBox = inBox'
       /\ ListNow'.moves = moves'
  <2>1. moves' \subseteq MoveCalls
    BY <1>1, <1>2 DEF ListTypeOK, MoveCalls
  <2>2. ToSet(inBox') \cup Dragged' = ToSet(list) /\ Dragged' \cap ToSet(inBox') = {}
    BY <1>2, <1>8, <1>9, <1>10
  <2> QED BY <1>2, <1>7, <1>9, <1>11, <2>1, <2>2, DragSound
<1>13. ASSUME ~disorder'.first PROVE OrderFollows(ListNow', drag')
  <2>1. ~disorder.first /\ inBox = list
    BY <1>1, <1>11, <1>13
  <2>2. OrderFollows(ListNow, drag)
    BY <1>1, <2>1 DEF OrderInv
  <2>3. ListNow.list = list /\ ListNow.inBox = inBox /\ ListNow.moves = moves
    BY DEF ListNow
  <2>4. moves = {}
    <3>1. SUFFICES ASSUME moves # {} PROVE FALSE
      OBVIOUS
    <3>2. PICK c : AskedFor(ListNow, c)
      BY <1>2, <2>2, <2>3, <3>1 DEF OrderFollows
    <3>3. PICK to \in 0 .. Len(list) - 1 :
            /\ c.item \in ToSet(list) /\ to # PlaceOf(list, c.item)
            /\ inBox = Reordered(list, c.item, to)
      BY <2>3, <3>2 DEF AskedFor
    <3> QED BY <1>3, <2>1, <3>3, ElsewhereIsOther
  <2>5. Lifted(ListNow', drag')
    <3>1. p \in ToSet(list) /\ k = PlaceOf(list, p) /\ k < Len(list) /\ inBox' = LeftOut(list, p)
      BY <1>2, <1>3, <1>4, <2>1 DEF k
    <3>2. moves' = {}
      BY <1>2, <2>4
    <3> QED BY <1>7, <1>12, <3>1, <3>2 DEF Lifted
  <2> QED BY <1>8, <2>5 DEF OrderFollows
<1>14. OrderInv'
  <2>1. disorder'.first => disorder'.order
    BY <1>1, <1>11 DEF OrderInv
  <2>2. Unsettled'
    BY <1>8 DEF Unsettled
  <2> QED BY <1>13, <2>1, <2>2 DEF OrderInv
<1> QED BY <1>12, <1>14 DEF ListInv

LEMMA DropInv ==
  ASSUME ListAssumption, ListInv, NEW p \in Paths, Drop(p)
  PROVE  ListInv'
<1> DEFINE k == PlaceOf(inBox, p)
<1>1. /\ ListTypeOK /\ OrderInv /\ SoundBut(ListNow, {}, managers)
      /\ disorder \in [order: BOOLEAN, first: BOOLEAN, cells: BOOLEAN]
  BY DEF ListInv, ListTypeOK
<1>2. /\ drag.item # "none" /\ p \in ToSet(inBox) /\ drag' = [drag EXCEPT !.to = k]
      /\ UNCHANGED <<list, named, stale, due, orphans, fallback, managers, cells, dummy, moves>>
      /\ inBox' = inBox /\ disorder' = disorder
  BY DEF Drop
<1>3. /\ list \in Orders /\ inBox \in Orders /\ inBox \in Seq(Paths) /\ Apart(inBox)
      /\ list \in Seq(Paths) /\ Apart(list) /\ Len(list) \in Nat
      /\ Len(inBox) \in Nat /\ Len(inBox) <= Cardinality(Paths)
  BY <1>1, OrderIs DEF ListTypeOK
<1>4. k \in 0 .. Len(inBox) - 1
  BY <1>2, <1>3, PlaceIs
<1> HIDE DEF k
<1>5. k \in BoxPlaces
  BY <1>3, <1>4, FS_CardinalityType DEF BoxPlaces, ListAssumption
<1>6. drag \in [item: Paths, from: BoxPlaces, to: BoxPlaces, removed: BOOLEAN]
  BY <1>1, <1>2 DEF ListTypeOK, NoDrag
<1>7. /\ drag' \in [item: Paths, from: BoxPlaces, to: BoxPlaces, removed: BOOLEAN]
      /\ drag'.item = drag.item /\ drag'.from = drag.from /\ drag'.to = k
      /\ drag'.removed = drag.removed
  BY <1>2, <1>5, <1>6
<1>8. Dragged' = Dragged /\ drag # NoDrag /\ drag' # NoDrag
  BY <1>2, <1>7 DEF Dragged, NoDrag
<1>9. ToSet(inBox) \cup Dragged = ToSet(list) /\ Dragged \cap ToSet(inBox) = {}
  <2>1. ListNow.rows = ToSet(list) /\ ListNow.inBox = inBox /\ ListNow.dragged = Dragged
    BY DEF ListNow
  <2> QED BY <1>1, <2>1 DEF SoundBut
<1>10. /\ ListTypeOK' /\ SoundBut(ListNow, {}, managers)'
       /\ ListNow'.list = list /\ ListNow'.named = named /\ ListNow'.inBox = inBox'
       /\ ListNow'.moves = moves'
  <2>1. moves' \subseteq MoveCalls
    BY <1>1, <1>2 DEF ListTypeOK, MoveCalls
  <2>2. ToSet(inBox') \cup Dragged' = ToSet(list) /\ Dragged' \cap ToSet(inBox') = {}
    BY <1>2, <1>8, <1>9
  <2> QED BY <1>1, <1>2, <1>3, <1>7, <2>1, <2>2, DragSound
<1>11. ASSUME ~disorder.first PROVE OrderFollows(ListNow', drag')
  <2>1. Lifted(ListNow, drag)
    BY <1>1, <1>8, <1>11 DEF OrderInv, OrderFollows
  <2>2. /\ drag.item \in ToSet(list) /\ ~drag.removed /\ drag.from = PlaceOf(list, drag.item)
        /\ inBox = LeftOut(list, drag.item) /\ moves = {}
    BY <2>1 DEF Lifted, ListNow
  <2>3. Len(inBox) = Len(list) - 1
    BY <1>3, <2>2, LeftLine
  <2>4. k < Len(list)
    BY <1>3, <1>4, <2>3
  <2>5. Lifted(ListNow', drag')
    BY <1>2, <1>7, <1>10, <2>2, <2>4 DEF Lifted
  <2> QED BY <1>8, <2>5 DEF OrderFollows
<1>12. OrderInv'
  <2>1. Unsettled'
    BY <1>8 DEF Unsettled
  <2> QED BY <1>1, <1>2, <1>11, <2>1 DEF OrderInv
<1> QED BY <1>10, <1>12 DEF ListInv

LEMMA DragEndInv ==
  ASSUME ListAssumption, ListInv, DragEnd
  PROVE  ListInv'
<1> DEFINE x == drag.item
           q == Reordered(inBox, x, drag.to)
           c == [item |-> x, after |-> drag.to > 0, other |-> q[IF drag.to = 0 THEN 1 ELSE drag.to],
                 from |-> drag.from, lives |-> TRUE]
<1>1. /\ ListTypeOK /\ OrderInv /\ SoundBut(ListNow, {}, managers)
      /\ disorder \in [order: BOOLEAN, first: BOOLEAN, cells: BOOLEAN]
  BY DEF ListInv, ListTypeOK
<1>2. /\ x # "none" /\ drag' = NoDrag /\ disorder' = disorder
      /\ UNCHANGED <<list, named, stale, due, orphans, fallback, managers, cells, dummy>>
      /\ drag.removed \/ drag.to <= Len(inBox) + 1
      /\ drag.removed => inBox' = inBox /\ moves' = moves
      /\ ~drag.removed => /\ inBox' = q
                          /\ moves' = IF drag.to = drag.from THEN moves ELSE moves \cup {c}
  BY DEF DragEnd
<1>3. /\ list \in Orders /\ inBox \in Orders /\ inBox \in Seq(Paths) /\ Apart(inBox)
      /\ list \in Seq(Paths) /\ Apart(list) /\ Len(list) \in Nat /\ Len(inBox) \in Nat
  BY <1>1, OrderIs DEF ListTypeOK
<1>4. drag \in [item: Paths, from: BoxPlaces, to: BoxPlaces, removed: BOOLEAN]
  BY <1>1, <1>2 DEF ListTypeOK, NoDrag
<1>5. x \in Paths /\ drag.to \in Nat /\ drag.from \in BoxPlaces /\ drag.removed \in BOOLEAN
  <2>1. x \in Paths /\ drag.to \in BoxPlaces /\ drag.from \in BoxPlaces /\ drag.removed \in BOOLEAN
    BY <1>4
  <2> QED BY <2>1, FS_CardinalityType DEF BoxPlaces, ListAssumption
<1>6. drag # NoDrag /\ Dragged' = {} /\ Dragged = IF drag.removed THEN {} ELSE {x}
  BY <1>2 DEF Dragged, NoDrag
<1> HIDE DEF x
<1>7. ToSet(inBox) \cup Dragged = ToSet(list) /\ Dragged \cap ToSet(inBox) = {}
  <2>1. ListNow.rows = ToSet(list) /\ ListNow.inBox = inBox /\ ListNow.dragged = Dragged
    BY DEF ListNow
  <2> QED BY <1>1, <2>1 DEF SoundBut
<1>8. ~drag.removed => LeftOut(inBox, x) = inBox
  BY <1>3, <1>6, <1>7, LeftLine
<1>9. q \in Orders /\ ToSet(q) = ToSet(inBox) \cup {x}
  BY <1>3, <1>5, OrdersStay
<1>10. q \in Seq(Paths) /\ Len(q) \in Nat /\ Apart(q)
  BY <1>9, OrderIs
<1>11. ~drag.removed => Len(q) = Len(inBox) + 1
  <2> DEFINE m == IF drag.to <= Len(inBox) THEN drag.to ELSE Len(inBox)
  <2>1. m \in 0..Len(inBox)
    BY <1>3, <1>5
  <2>2. Reordered(inBox, x, drag.to)
          = Inserted(LeftOut(inBox, x), x, IF drag.to <= Len(LeftOut(inBox, x)) THEN drag.to
                                           ELSE Len(LeftOut(inBox, x)))
    BY <1>3, <1>5, ReorderedTo
  <2>3. ~drag.removed => q = Inserted(inBox, x, m)
    BY <1>8, <2>2
  <2> HIDE DEF q, m
  <2>4. Len(Inserted(inBox, x, m)) = Len(inBox) + 1
    <3>1. inBox \in Seq(Paths) /\ x \in Paths
      BY <1>3, <1>5
    <3> QED BY ONLY <2>1, <3>1, InsertedIs
  <2> QED BY <2>3, <2>4
<1> HIDE DEF q
<1>12. ~drag.removed => c \in MoveCalls
  <2>1. ASSUME ~drag.removed PROVE q[IF drag.to = 0 THEN 1 ELSE drag.to] \in Paths
    <3>1. (IF drag.to = 0 THEN 1 ELSE drag.to) \in 1..Len(q)
      BY <1>2, <1>3, <1>5, <1>11, <2>1
    <3> QED BY <1>10, <3>1
  <2>2. (drag.to > 0) \in BOOLEAN
    OBVIOUS
  <2> QED BY <1>5, <2>1, <2>2 DEF MoveCalls
<1>13. c.item = x /\ c.after = (drag.to > 0) /\ c.from = drag.from /\ c.lives
       /\ c.other = q[IF drag.to = 0 THEN 1 ELSE drag.to]
  OBVIOUS
<1> HIDE DEF c
<1>14. /\ ListTypeOK' /\ SoundBut(ListNow, {}, managers)'
       /\ ListNow'.list = list /\ ListNow'.named = named /\ ListNow'.inBox = inBox'
       /\ ListNow'.moves = moves'
  <2>1. moves' \subseteq MoveCalls
    <3>1. moves \subseteq MoveCalls
      BY <1>1 DEF ListTypeOK, MoveCalls
    <3> QED BY <1>2, <1>5, <1>12, <3>1
  <2>2. inBox' \in Orders /\ ToSet(inBox') \cup Dragged' = ToSet(list) /\ Dragged' \cap ToSet(inBox') = {}
    BY <1>2, <1>3, <1>5, <1>6, <1>7, <1>9
  <2>3. drag' \in {NoDrag} \cup [item: Paths, from: BoxPlaces, to: BoxPlaces, removed: BOOLEAN]
    BY <1>2
  <2> QED BY <1>1, <1>2, <2>1, <2>2, <2>3, DragSound
<1>15. ASSUME ~disorder.first
       PROVE  /\ x \in ToSet(list) /\ moves = {} /\ drag.from = PlaceOf(list, x)
              /\ drag.to \in 0 .. Len(list) - 1 /\ ~drag.removed
              /\ q = Reordered(list, x, drag.to)
              /\ drag.to = drag.from => q = list
  <2>1. Lifted(ListNow, drag)
    BY <1>1, <1>6, <1>15 DEF OrderInv, OrderFollows
  <2>2. /\ x \in ToSet(list) /\ ~drag.removed /\ drag.from = PlaceOf(list, x)
        /\ drag.to < Len(list) /\ inBox = LeftOut(list, x) /\ moves = {}
    BY <2>1 DEF Lifted, ListNow, x
  <2>3. Len(inBox) = Len(list) - 1
    BY <1>3, <2>2, LeftLine
  <2>4. drag.to <= Len(inBox) /\ drag.to \in 0 .. Len(list) - 1
    BY <1>3, <1>5, <2>2, <2>3
  <2>5. q = Inserted(inBox, x, drag.to)
    <3>1. drag.to <= Len(LeftOut(inBox, x)) /\ LeftOut(inBox, x) = inBox
      BY <1>8, <2>2, <2>4
    <3>2. Reordered(inBox, x, drag.to)
            = Inserted(LeftOut(inBox, x), x, IF drag.to <= Len(LeftOut(inBox, x)) THEN drag.to
                                             ELSE Len(LeftOut(inBox, x)))
      BY <1>3, <1>5, ReorderedTo
    <3> QED BY <3>1, <3>2 DEF q
  <2>6. Reordered(list, x, drag.to) = Inserted(inBox, x, drag.to)
    <3>1. drag.to <= Len(LeftOut(list, x))
      BY <2>2, <2>4
    <3>2. Reordered(list, x, drag.to)
            = Inserted(LeftOut(list, x), x, IF drag.to <= Len(LeftOut(list, x)) THEN drag.to
                                            ELSE Len(LeftOut(list, x)))
      BY <1>3, <1>5, ReorderedTo
    <3> QED BY <2>2, <3>1, <3>2
  <2>7. Reordered(list, x, PlaceOf(list, x)) = list
    BY <1>3, <2>2, ReorderedStays
  <2> QED BY <2>2, <2>4, <2>5, <2>6, <2>7
<1>16. ASSUME ~disorder.first PROVE OrderFollows(ListNow', drag')
  <2>1. inBox' = q /\ moves' = IF drag.to = drag.from THEN {} ELSE {c}
    BY <1>2, <1>15, <1>16
  <2>2. CASE drag.to = drag.from
    <3>1. inBox' = list /\ moves' = {}
      BY <1>15, <1>16, <2>1, <2>2
    <3> QED BY <1>2, <1>14, <3>1 DEF OrderFollows
  <2>3. CASE drag.to # drag.from
    <3>1. moves' = {c}
      BY <2>1, <2>3
    <3>2. drag.to = 0 => c.other = x
      <4>1. drag.to = 0 => Leads(q, x)
        BY <1>3, <1>5, <1>15, <1>16, LeadsNow
      <4> QED BY <1>13, <4>1 DEF Leads
    <3>3. ASSUME drag.to > 0 PROVE c.after /\ c.other = q[drag.to]
      <4>1. drag.to # 0 /\ (drag.to > 0) = TRUE
        BY <1>5, <3>3
      <4> QED BY <1>13, <4>1
    <3>4. AskedFor(ListNow', c)
      <4>1. /\ drag.to \in 0 .. Len(ListNow'.list) - 1
            /\ c.item \in ToSet(ListNow'.list) /\ c.lives /\ c.from = PlaceOf(ListNow'.list, c.item)
            /\ drag.to # c.from
            /\ ListNow'.inBox = Reordered(ListNow'.list, c.item, drag.to)
        BY <1>13, <1>14, <1>15, <1>16, <2>1, <2>3
      <4>2. /\ drag.to = 0 => c.other = c.item
            /\ drag.to > 0 => c.after /\ c.other = ListNow'.inBox[drag.to]
        BY <1>13, <1>14, <2>1, <3>2, <3>3
      <4> QED BY <4>1, <4>2 DEF AskedFor
    <3> QED BY <1>2, <1>14, <3>1, <3>4 DEF OrderFollows
  <2> QED BY <2>2, <2>3
<1>17. ASSUME ~disorder.order, ~Unsettled' PROVE inBox' = list
  <2>1. ~disorder.first
    BY <1>1, <1>17 DEF OrderInv
  <2>2. moves' = {}
    BY <1>17 DEF Unsettled
  <2>3. drag.to = drag.from /\ inBox' = q
    BY <1>2, <1>15, <2>1, <2>2
  <2> QED BY <1>15, <2>1, <2>3
<1>18. OrderInv'
  BY <1>1, <1>2, <1>16, <1>17 DEF OrderInv
<1> QED BY <1>14, <1>18 DEF ListInv
LEMMA NoDragStays == NoDrag.item = "none" /\ [NoDrag EXCEPT !.removed = FALSE] = NoDrag
<1>1. NoDrag \in [item: {"none"}, from: {0}, to: {0}, removed: {FALSE}]
  BY DEF NoDrag
<1>2. \A x \in [item: {"none"}, from: {0}, to: {0}, removed: {FALSE}] :
        [x EXCEPT !.removed = FALSE] = x
  OBVIOUS
<1> QED BY <1>1, <1>2


\* A call is answered.
LEMMA AnsweredIs ==
  ASSUME ListAssumption, ListInv, NEW c \in moves
  PROVE  LET s == [ListNow EXCEPT !.moves = @ \ {c}]
         IN /\ s \in SoundStates(managers) /\ s.list = list /\ s.rows = ToSet(list)
            /\ s.named = named /\ s.inBox = inBox /\ s.dragged = Dragged /\ s.moves = moves \ {c}
<1> DEFINE s == [ListNow EXCEPT !.moves = @ \ {c}]
<1>1. ListTypeOK /\ SoundBut(ListNow, {}, managers)
  BY DEF ListInv
<1>2. /\ ListNow \in ListStates /\ ListNow.list = list /\ ListNow.rows = ToSet(list)
      /\ ListNow.named = named /\ ListNow.inBox = inBox /\ ListNow.dragged = Dragged
      /\ ListNow.moves = moves
  BY <1>1, ListParts
<1>3. /\ s \in ListStates /\ s.list = ListNow.list /\ s.rows = ListNow.rows
      /\ s.named = ListNow.named /\ s.inBox = ListNow.inBox
      /\ s.dragged = ListNow.dragged /\ s.moves = ListNow.moves \ {c} /\ s.stale = ListNow.stale
      /\ s.due = ListNow.due /\ s.fallback = ListNow.fallback /\ s.cells = ListNow.cells
      /\ s.dummy = ListNow.dummy /\ s.lost = ListNow.lost /\ s.orphans = ListNow.orphans
  BY <1>2 DEF ListStates
<1> HIDE DEF s
<1>4. SoundBut(s, {}, managers)
  BY <1>1, <1>3 DEF SoundBut
<1>5. s \in SoundStates(managers)
  BY <1>3, <1>4 DEF SoundStates
<1> QED BY <1>2, <1>3, <1>5 DEF s

\* What is asked for while the first widget is known to be the right one.
LEMMA AskedIs ==
  ASSUME ListAssumption, ListInv, ~disorder.first, drag = NoDrag, NEW c, moves = {c}
  PROVE  AskedFor(ListNow, c) /\ ToSet(inBox) = ToSet(list)
<1>1. OrderFollows(ListNow, drag) /\ ListNow.moves = moves
  BY DEF ListInv, OrderInv, ListNow
<1>2. PICK d : moves = {d} /\ AskedFor(ListNow, d)
  BY <1>1 DEF OrderFollows
<1>3. d = c
  BY <1>2
<1>4. Dragged = {} /\ ListNow.dragged = Dragged /\ ListNow.rows = ToSet(list) /\ ListNow.inBox = inBox
  BY DEF ListNow, Dragged, NoDrag
<1>5. ToSet(inBox) = ToSet(list)
  BY <1>4 DEF ListInv, SoundBut
<1> QED BY <1>2, <1>3, <1>5

\* connman's order becomes the user's.
LEMMA MovedIs ==
  ASSUME ListAssumption, ListInv, ~disorder.first, drag = NoDrag, NEW c, moves = {c},
         c.item # c.other
  PROVE  Moved(c) = inBox
<1>1. AskedFor(ListNow, c) /\ ListNow.list = list /\ ListNow.inBox = inBox
  BY AskedIs DEF ListNow
<1>2. list \in Seq(Paths) /\ Apart(list) /\ Len(list) \in Nat
  BY ListParts DEF ListInv
<1>3. PICK to \in 0 .. Len(list) - 1 :
        /\ c.item \in ToSet(list) /\ inBox = Reordered(list, c.item, to)
        /\ to = 0 => c.other = c.item
        /\ to > 0 => c.after /\ c.other = inBox[to]
  BY <1>1 DEF AskedFor
<1> DEFINE x == c.item
           r == LeftOut(list, x)
<1>4. /\ r \in Seq(Paths) /\ Apart(r) /\ Len(r) = Len(list) - 1 /\ x \in Paths
  BY <1>2, <1>3, LeftLine
<1>5. to \in Nat /\ to # 0 /\ to > 0 /\ to <= Len(r) /\ to \in 1..Len(r) /\ Len(r) \in Nat
  <2>1. to \in Nat /\ to # 0
    BY <1>2, <1>3
  <2> QED BY <1>2, <1>4, <2>1
<1>6. c.after /\ c.other = inBox[to]
  BY <1>3, <1>5
<1>7. inBox = Inserted(r, x, to)
  <2>1. Reordered(list, x, to)
          = Inserted(LeftOut(list, x), x, IF to <= Len(LeftOut(list, x)) THEN to
                                          ELSE Len(LeftOut(list, x)))
    BY <1>2, <1>4, <1>5, ReorderedTo
  <2> QED BY <1>3, <1>5, <2>1
<1> HIDE DEF r, x
<1>8. inBox[to] = r[to]
  <2>1. to \in 0..Len(r) /\ to \in 1 .. Len(r) + 1 /\ to <= to
    BY <1>5
  <2>2. Inserted(r, x, to)[to] = IF to <= to THEN r[to] ELSE IF to = to + 1 THEN x ELSE r[to - 1]
    BY <1>4, <2>1, InsertedAt
  <2> QED BY <1>7, <2>1, <2>2
<1>9. PlaceOf(r, c.other) = to - 1
  BY <1>4, <1>5, <1>6, <1>8, PlaceIs
<1>10. PlaceOf(r, c.other) + (IF c.after THEN 1 ELSE 0) = to
  BY <1>5, <1>6, <1>9
<1> QED BY <1>3, <1>10 DEF Moved, r, x

LEMMA MoveDoneInv ==
  ASSUME ListAssumption, ListInv, NEW c \in moves, MoveDone(c)
  PROVE  ListInv'
<1> DEFINE s == [ListNow EXCEPT !.moves = @ \ {c}]
           q == Moved(c)
           t == Follow(s, q)
           disturbed == drag # NoDrag \/ moves # {c}
<1>1. /\ ListTypeOK /\ OrderInv /\ disturbed \in BOOLEAN
      /\ c.item \in ToSet(list) /\ c.other \in ToSet(list) /\ c.item # c.other
  BY DEF ListInv, MoveDone
<1>2. /\ s \in SoundStates(managers) /\ s.list = list /\ s.rows = ToSet(list)
      /\ s.named = named /\ s.inBox = inBox /\ s.dragged = Dragged /\ s.moves = moves \ {c}
  BY AnsweredIs
<1>3. /\ ListBecome(t, FALSE, disturbed) /\ managers' = managers
      /\ managers \in 0..Cardinality(Paths)
  BY <1>1 DEF MoveDone, ListTypeOK
<1> HIDE DEF s
<1>4. list \in Orders /\ list \in Seq(Paths) /\ Apart(list) /\ inBox \in Orders
  BY <1>1, ListParts DEF ListTypeOK
<1>5. q \in Orders
  <2> DEFINE r == LeftOut(list, c.item)
             k == PlaceOf(r, c.other)
             at == k + (IF c.after THEN 1 ELSE 0)
  <2>1. r \in Seq(Paths) /\ Apart(r) /\ c.other \in ToSet(r) /\ c.item \in Paths
    <3>1. LeftOut(list, c.item) \in Seq(Paths) /\ Apart(LeftOut(list, c.item))
      BY <1>1, <1>4, LeftLine
    <3>2. ToSet(LeftOut(list, c.item)) = ToSet(list) \ {c.item}
      BY <1>1, <1>4, LeftLine
    <3>3. c.item \in Paths
      BY <1>1, <1>4, LeftLine
    <3> QED BY <1>1, <3>1, <3>2, <3>3
  <2> HIDE DEF r
  <2>2. k \in 0 .. Len(r) - 1 /\ Len(r) \in Nat
    BY <2>1, PlaceIs
  <2>3. at \in Nat
    BY <2>2
  <2> HIDE DEF at
  <2>4. Reordered(list, c.item, at) \in Orders
    BY <1>4, <2>1, <2>3, OrdersStay
  <2> QED BY <2>4 DEF Moved, at, r
<1> HIDE DEF q
<1>6. /\ t \in SoundStates(managers) /\ t.list = q /\ t.rows = ToSet(q)
      /\ t.named = s.named \cap ToSet(q) /\ t.dragged = s.dragged \cap ToSet(q)
      /\ s.moves = {} => t.moves = {}
  BY <1>2, <1>5, FollowIs
<1>7. ASSUME ~disorder.first, ~disturbed PROVE t.inBox = t.list /\ t.moves = {} /\ drag' = NoDrag
  <2>1. drag = NoDrag /\ moves = {c}
    BY <1>7
  <2>2. q = inBox
    BY <1>1, <1>7, <2>1, MovedIs DEF q
  <2>3. ToSet(inBox) = ToSet(list)
    BY <1>7, <2>1, AskedIs
  <2>4. Follow(s, s.inBox).inBox = s.inBox
    BY <1>2, <1>4, <2>3, FollowStays
  <2>5. t.inBox = t.list
    BY <1>2, <1>6, <2>2, <2>4
  <2>6. t.moves = {}
    BY <1>2, <1>6, <2>1
  <2>7. drag' = NoDrag
    <3>1. drag' = [drag EXCEPT !.removed = drag.item # "none" /\ t.dragged = {}]
      BY <1>3 DEF ListBecome
    <3> HIDE DEF t
    <3>2. NoDrag.item = "none" /\ [NoDrag EXCEPT !.removed = FALSE] = NoDrag
      BY NoDragStays
    <3>3. (drag.item # "none" /\ t.dragged = {}) = FALSE
      BY <2>1, <3>2
    <3> QED BY <2>1, <3>1, <3>2, <3>3
  <2> QED BY <2>5, <2>6, <2>7
<1> HIDE DEF t
<1>8. ASSUME ~disorder.first, ~disturbed PROVE OrderFollows(t, drag')
  <2>1. t.inBox = t.list /\ t.moves = {} /\ drag' = NoDrag
    BY <1>7, <1>8
  <2> QED BY <2>1 DEF OrderFollows
<1>9. ~disorder.order /\ ~disturbed => t.inBox = t.list
  BY <1>1, <1>7 DEF OrderInv
<1>10. /\ t \in SoundStates(managers') /\ managers' \in 0..Cardinality(Paths)
       /\ t.rows = ToSet(t.list) /\ t.dragged \subseteq Dragged
  <2>1. t \in SoundStates(managers') /\ managers' \in 0..Cardinality(Paths)
    BY <1>3, <1>6
  <2>2. t.rows = ToSet(t.list) /\ t.dragged \subseteq Dragged
    BY <1>2, <1>6
  <2> QED BY <2>1, <2>2
<1> HIDE DEF disturbed
<1> QED BY <1>1, <1>3, <1>8, <1>9, <1>10, BecomeIs

\* connman's order is the one the widget came from.
LEMMA PutBackIs ==
  ASSUME ListAssumption, ListInv, ~disorder.first, drag = NoDrag, NEW c, moves = {c}
  PROVE  c.lives /\ c.item \in ToSet(inBox) /\ Reordered(inBox, c.item, c.from) = list
<1>1. AskedFor(ListNow, c) /\ ListNow.list = list /\ ListNow.inBox = inBox /\ ToSet(inBox) = ToSet(list)
  BY AskedIs DEF ListNow
<1>2. /\ list \in Seq(Paths) /\ Apart(list) /\ Len(list) \in Nat
      /\ inBox \in Seq(Paths) /\ Apart(inBox)
  BY ListParts DEF ListInv
<1>3. PICK to \in 0 .. Len(list) - 1 :
        /\ c.item \in ToSet(list) /\ c.lives /\ c.from = PlaceOf(list, c.item)
        /\ inBox = Reordered(list, c.item, to)
  BY <1>1 DEF AskedFor
<1> DEFINE x == c.item
           r == LeftOut(list, x)
           k == PlaceOf(list, x)
<1>4. x \in Paths /\ Len(r) = Len(list) - 1 /\ k \in 0..Len(r) /\ list = Inserted(r, x, k)
  BY <1>2, <1>3, LeftLine
<1>5. to \in Nat /\ k \in Nat /\ k <= Len(r)
  BY <1>2, <1>3, <1>4
<1> HIDE DEF k, x
<1>6. LeftOut(inBox, x) = r
  <2>1. x \in ToSet(list) /\ inBox = Reordered(list, x, to)
    BY <1>3 DEF x
  <2>2. LeftOut(Reordered(list, x, to), x) = LeftOut(list, x)
    BY <1>2, <1>4, <1>5, <2>1, ReorderedIs
  <2> QED BY <2>1, <2>2
<1>7. Reordered(inBox, x, k)
        = Inserted(LeftOut(inBox, x), x, IF k <= Len(LeftOut(inBox, x)) THEN k
                                         ELSE Len(LeftOut(inBox, x)))
  BY <1>2, <1>4, <1>5, ReorderedTo
<1>8. Reordered(inBox, x, k) = list
  BY <1>4, <1>5, <1>6, <1>7
<1> QED BY <1>1, <1>3, <1>8 DEF k, x

LEMMA MoveFailsInv ==
  ASSUME ListAssumption, ListInv, NEW c \in moves, MoveFails(c)
  PROVE  ListInv'
<1> DEFINE s == [ListNow EXCEPT !.moves = @ \ {c}]
           back == IF c.lives /\ c.item \in ToSet(inBox) THEN Reordered(inBox, c.item, c.from)
                   ELSE inBox
           t == [s EXCEPT !.inBox = back]
           disturbed == drag # NoDrag \/ moves # {c}
<1>1. /\ ListTypeOK /\ OrderInv /\ disturbed \in BOOLEAN
  BY DEF ListInv
<1>2. /\ s \in SoundStates(managers) /\ s.list = list /\ s.rows = ToSet(list)
      /\ s.named = named /\ s.inBox = inBox /\ s.dragged = Dragged /\ s.moves = moves \ {c}
  BY AnsweredIs
<1>3. /\ ListBecome(t, FALSE, disturbed) /\ managers' = managers
      /\ managers \in 0..Cardinality(Paths)
  <2>1. [ListNow EXCEPT !.moves = @ \ {c},
                        !.inBox = IF c.lives /\ c.item \in ToSet(@)
                                  THEN Reordered(@, c.item, c.from) ELSE @] = t
    BY DEF ListNow
  <2> QED BY <1>1, <2>1 DEF MoveFails, ListTypeOK
<1> HIDE DEF s
<1>4. back \in Orders /\ ToSet(back) = ToSet(inBox)
  <2>1. inBox \in Orders /\ c \in [item: Paths, other: Paths, after: BOOLEAN, from: BoxPlaces, lives: BOOLEAN]
    BY <1>1 DEF ListTypeOK
  <2>2. c.from \in Nat /\ c.item \in Paths
    <3>1. c.from \in BoxPlaces /\ c.item \in Paths
      BY <2>1
    <3> QED BY <3>1, FS_CardinalityType DEF BoxPlaces, ListAssumption
  <2>3. /\ Reordered(inBox, c.item, c.from) \in Orders
        /\ ToSet(Reordered(inBox, c.item, c.from)) = ToSet(inBox) \cup {c.item}
    BY <2>1, <2>2, OrdersStay
  <2> QED BY <2>1, <2>3
<1>5. ASSUME ~disorder.first, ~disturbed PROVE back = list /\ moves = {c} /\ drag = NoDrag
  <2>1. drag = NoDrag /\ moves = {c}
    BY <1>5
  <2>2. c.lives /\ c.item \in ToSet(inBox) /\ Reordered(inBox, c.item, c.from) = list
    BY <1>5, <2>1, PutBackIs
  <2> QED BY <2>1, <2>2
<1> HIDE DEF back
<1>6. s \in ListStates /\ SoundBut(s, {}, managers)
  BY <1>2 DEF SoundStates
<1>7. /\ t \in ListStates /\ t.list = s.list /\ t.rows = s.rows
      /\ t.named = s.named /\ t.inBox = back
      /\ t.dragged = s.dragged /\ t.moves = s.moves /\ t.stale = s.stale
      /\ t.due = s.due /\ t.fallback = s.fallback /\ t.cells = s.cells
      /\ t.dummy = s.dummy /\ t.lost = s.lost /\ t.orphans = s.orphans
  BY <1>4, <1>6 DEF ListStates
<1> HIDE DEF t
<1>8. SoundBut(t, {}, managers)
  BY <1>2, <1>4, <1>6, <1>7 DEF SoundBut
<1>9. t \in SoundStates(managers)
  BY <1>7, <1>8 DEF SoundStates
<1>10. ASSUME ~disorder.first, ~disturbed PROVE t.inBox = t.list /\ t.moves = {} /\ drag' = NoDrag
  <2>1. t.inBox = t.list /\ t.moves = {}
    BY <1>2, <1>5, <1>7, <1>10
  <2>2. drag' = NoDrag
    <3>1. drag' = [drag EXCEPT !.removed = drag.item # "none" /\ t.dragged = {}]
      BY <1>3 DEF ListBecome
    <3>2. NoDrag.item = "none" /\ [NoDrag EXCEPT !.removed = FALSE] = NoDrag
      BY NoDragStays
    <3>3. drag = NoDrag
      BY <1>5, <1>10
    <3>4. (drag.item # "none" /\ t.dragged = {}) = FALSE
      BY <3>2, <3>3
    <3> QED BY <3>1, <3>2, <3>3, <3>4
  <2> QED BY <2>1, <2>2
<1>11. ASSUME ~disorder.first, ~disturbed PROVE OrderFollows(t, drag')
  <2>1. t.inBox = t.list /\ t.moves = {} /\ drag' = NoDrag
    BY <1>10, <1>11
  <2> QED BY <2>1 DEF OrderFollows
<1>12. ~disorder.order /\ ~disturbed => t.inBox = t.list
  BY <1>1, <1>10 DEF OrderInv
<1>13. /\ t \in SoundStates(managers') /\ managers' \in 0..Cardinality(Paths)
       /\ t.rows = ToSet(t.list) /\ t.dragged \subseteq Dragged
  <2>1. t \in SoundStates(managers') /\ managers' \in 0..Cardinality(Paths)
    BY <1>3, <1>9
  <2>2. t.rows = ToSet(t.list) /\ t.dragged \subseteq Dragged
    BY <1>2, <1>7
  <2> QED BY <2>1, <2>2
<1> HIDE DEF disturbed
<1> QED BY <1>1, <1>3, <1>11, <1>12, <1>13, BecomeIs

LEMMA ListNextInv ==
  ASSUME ListAssumption, ListInv, [ListNext]_listVars
  PROVE  ListInv'
<1>1. CASE ListNext
  <2>1. ASSUME NEW q \in Orders, ListChanges(q) PROVE ListInv'
    BY <2>1, ChangesInv
  <2>2. ASSUME NEW p \in Paths, RowChanges(p) PROVE ListInv'
    BY <2>2, RowChangesInv
  <2>3. ASSUME NEW p \in Paths, DragBegin(p) PROVE ListInv'
    BY <2>3, DragBeginInv
  <2>4. ASSUME NEW p \in Paths, Drop(p) PROVE ListInv'
    BY <2>4, DropInv
  <2>5. CASE DelayedUpdate
    BY <2>5, DelayedInv
  <2>6. ASSUME NEW n \in 0..Cardinality(Cellular), ConnmansChange(n) PROVE ListInv'
    BY <2>6, ConnmansInv
  <2>7. CASE DragEnd
    BY <2>7, DragEndInv
  <2>8. ASSUME NEW c \in moves, MoveDone(c) PROVE ListInv'
    BY <2>8, MoveDoneInv
  <2>9. ASSUME NEW c \in moves, MoveFails(c) PROVE ListInv'
    BY <2>9, MoveFailsInv
  <2> QED BY <1>1, <2>1, <2>2, <2>3, <2>4, <2>5, <2>6, <2>7, <2>8, <2>9 DEF ListNext
<1>2. CASE UNCHANGED listVars
  <2>1. ListTypeOK'
    BY <1>2 DEF ListInv, ListTypeOK, listVars
  <2>2. ListNow' = ListNow /\ managers' = managers
    BY <1>2 DEF ListNow, Dragged, listVars
  <2>3. SoundBut(ListNow, {}, managers)'
    BY <2>2 DEF ListInv
  <2>4. OrderInv'
    BY <1>2, <2>2 DEF ListInv, OrderInv, Unsettled, listVars
  <2> QED BY <2>1, <2>3, <2>4 DEF ListInv
<1> QED BY <1>1, <1>2

LEMMA ListInvRight ==
  ASSUME ListAssumption, ListInv
  PROVE  ListIsRight
<1>1. /\ ListTypeOK /\ SoundBut(ListNow, {}, managers) /\ OrderInv
  BY DEF ListInv
<1>2. /\ ListNow \in ListStates /\ ListNow.list = list /\ ListNow.rows = ToSet(list)
      /\ ListNow.named = named /\ ListNow.inBox = inBox /\ ListNow.stale = stale /\ ListNow.due = due
      /\ ListNow.fallback = fallback /\ ListNow.cells = cells /\ ListNow.dummy = dummy
      /\ ListNow.orphans = orphans
      /\ ListNow.dragged = Dragged /\ ListNow.moves = moves /\ ListNow.lost = disorder.cells
      /\ list \in Seq(Paths) /\ Apart(list) /\ inBox \in Seq(Paths) /\ Apart(inBox)
  BY <1>1, ListParts
<1>3. /\ Len(list) \in Nat /\ DOMAIN list = 1..Len(list) /\ (list = <<>> <=> Len(list) = 0)
      /\ \A x : x \in ToSet(list) <=> \E i \in 1..Len(list) : list[i] = x
  BY <1>2, SeqFacts
<1>4. ToSet(list) = {} <=> list = <<>>
  <2>1. ASSUME list # <<>> PROVE list[1] \in ToSet(list)
    <3>1. 1 \in 1..Len(list)
      BY <1>3, <2>1
    <3> QED BY <1>3, <3>1
  <2>2. ASSUME list = <<>> PROVE ToSet(list) = {}
    <3>1. 1..Len(list) = {}
      BY <1>3, <2>2
    <3> QED BY <1>3, <3>1
  <2> QED BY <2>1, <2>2
<1>5. WidgetsMirrorRows
  BY <1>1, <1>2, <1>4 DEF SoundBut, WidgetsMirrorRows
<1>6. UpdatesArePending
  BY <1>1, <1>2, <1>4 DEF SoundBut, UpdatesArePending
<1>7. OrderIsRight
  <2>1. ASSUME ~Unsettled, list # <<>>, Head(list) \in named, ~disorder.first
        PROVE  Head(inBox) = Head(list)
    <3>1. drag = NoDrag /\ moves = {}
      BY <2>1 DEF Unsettled
    <3>2. OrderFollows(ListNow, drag)
      BY <1>1, <2>1 DEF OrderInv
    <3>3. 1 \in DOMAIN list /\ Head(list) = list[1]
      BY <1>2, <1>3, <2>1
    <3>4. Leads(inBox, Head(list))
      BY <1>2, <2>1, <3>1, <3>2, <3>3 DEF OrderFollows, Leads
    <3>5. inBox # <<>> /\ inBox[1] = Head(list)
      BY <3>4 DEF Leads
    <3> QED BY <1>2, <3>5
  <2> QED BY <1>1, <2>1 DEF OrderIsRight, OrderInv
<1>8. DummyIsRight
  <2>1. ASSUME due = {}, ~disorder.cells
        PROVE  dummy <=> managers > Cardinality(named \cap Cellular)
    <3>1. cells \in [live: SUBSET Cellular, dead: Nat]
      BY <1>1 DEF ListTypeOK
    <3>2. cells.live = named \cap Cellular /\ cells.dead = 0
      BY <1>1, <1>2, <2>1, <3>1 DEF SoundBut
    <3>3. IsFiniteSet(cells.live) /\ Cardinality(cells.live) \in Nat
      BY <3>1, LivesCount
    <3>4. dummy <=> managers > Cardinality(cells.live) + cells.dead
      BY <1>1, <1>2 DEF SoundBut
    <3> QED BY <3>2, <3>3, <3>4
  <2> QED BY <2>1 DEF DummyIsRight
<1> QED BY <1>5, <1>6, <1>7, <1>8 DEF ListIsRight

\* The state of the list stays in the sets it is declared with.
THEOREM ListTypeCorrect == ListSpec => []ListTypeOK
<1>1. ListInit => ListInv
  BY ListAssumption, ListInitInv
<1>2. ListInv /\ [ListNext]_listVars => ListInv'
  BY ListAssumption, ListNextInv
<1>3. ListInv => ListTypeOK
  BY DEF ListInv
<1> QED BY <1>1, <1>2, <1>3, PTL DEF ListSpec

\* The list of services shows, and is going to show, what connman and oFono have: a widget
\* for every row and no other, in connman's order if nothing jumbled it, the first one first
\* in any case, and the row for a modem if there are more modems than cellular services.
THEOREM ListIsAlwaysRight == ListSpec => []ListIsRight
<1>1. ListInit => ListInv
  BY ListAssumption, ListInitInv
<1>2. ListInv /\ [ListNext]_listVars => ListInv'
  BY ListAssumption, ListNextInv
<1>3. ListInv => ListIsRight
  BY ListAssumption, ListInvRight
<1> QED BY <1>1, <1>2, <1>3, PTL DEF ListSpec
=============================================================================
