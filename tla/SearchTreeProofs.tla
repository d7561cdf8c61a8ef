-------------------------- MODULE SearchTreeProofs --------------------------
(***************************************************************************)
(* Search trees: the keys of a node stand in order between the keys of its *)
(* ancestors, as checkNode of tree_test.go asks, and no key occurs twice.  *)
(* What splits, merges and borrowing do to such a tree, whatever operation *)
(* they are a part of.                                                     *)
(***************************************************************************)
EXTENDS TreeStructureProofs, FiniteSetTheorems, WellFoundedInduction

-----------------------------------------------------------------------------
(* Natural numbers.                                                        *)

LEMMA NatWellFounded == IsWellFoundedOn({p \in Nat \X Nat : p[1] < p[2]}, Nat)
BY NatLessThanWellFounded DEF OpToRel

LEMMA LeastElement ==
    ASSUME NEW T \in SUBSET Nat, T # {}
    PROVE  \E n \in T : \A m \in T : n <= m
<1> DEFINE less == {p \in Nat \X Nat : p[1] < p[2]}
<1>1. IsWellFoundedOn(less, Nat)
  BY NatWellFounded
<1>2. \A m, n \in Nat : m < n => <<m, n>> \in less
  OBVIOUS
<1> HIDE DEF less
<1>3. PICK n \in T : \A m \in T : ~(<<m, n>> \in less)
  BY <1>1, WFMin
<1>4. \A m \in T : ~(m < n) /\ m \in Nat /\ n \in Nat
  BY <1>2, <1>3
<1> QED
  BY <1>3, <1>4

LEMMA SetInduction ==
    ASSUME NEW S, 0 \in S, \A n \in Nat : n \in S => n + 1 \in S
    PROVE  Nat \subseteq S
<1> DEFINE T == Nat \ S
<1>1. SUFFICES ASSUME T # {} PROVE FALSE
  OBVIOUS
<1>2. PICK n \in T : \A m \in T : n <= m
  BY <1>1, LeastElement
<1>3. n # 0 /\ n \in Nat
  OBVIOUS
<1>4. n - 1 \in Nat /\ n - 1 \notin T
  BY <1>2, <1>3
<1> QED
  BY <1>3, <1>4

\* A function on a finite set of naturals is bounded.
LEMMA FiniteBound ==
    ASSUME NEW D, IsFiniteSet(D), NEW h, \A i \in D : h[i] \in Nat
    PROVE  \E m \in Nat : \A i \in D : h[i] <= m
<1>1. PICK n \in Nat : ExistsBijection(1 .. n, D)
  BY FS_NatBijection
<1>2. PICK f \in Bijection(1 .. n, D) : TRUE
  BY <1>1 DEF ExistsBijection
<1>3. f \in [1 .. n -> D] /\ \A i \in D : \E k \in 1 .. n : f[k] = i
  BY <1>2 DEF Bijection, Injection, Surjection
<1> DEFINE P(j) == \E m \in Nat : \A k \in 1 .. n : k <= j => h[f[k]] <= m
           S == {j \in Nat : P(j)}
<1>4. 0 \in S
  <2>1. \A k \in 1 .. n : k <= 0 => h[f[k]] <= 0
    BY <1>1
  <2> QED
    BY <2>1
<1>5. ASSUME NEW j \in Nat, j \in S PROVE j + 1 \in S
  <2>1. PICK m \in Nat : \A k \in 1 .. n : k <= j => h[f[k]] <= m
    BY <1>5
  <2>2. CASE j + 1 \in 1 .. n
    <3> DEFINE x == h[f[j + 1]]
    <3>1. x \in Nat
      BY <1>3, <2>2
    <3>2. PICK y \in Nat : y >= m /\ y >= x
      BY <3>1
    <3>3. \A k \in 1 .. n : k <= j + 1 => k <= j \/ k = j + 1
      OBVIOUS
    <3>4. \A k \in 1 .. n : h[f[k]] \in Nat
      BY <1>3
    <3>5. \A k \in 1 .. n : k <= j + 1 => h[f[k]] <= y
      BY <2>1, <3>2, <3>3, <3>4
    <3>6. P(j + 1)
      <4> WITNESS y \in Nat
      <4> QED
        BY <3>5
    <3> HIDE DEF P
    <3> QED
      BY <3>6
  <2>3. CASE j + 1 \notin 1 .. n
    <3>1. \A k \in 1 .. n : k <= j + 1 => k <= j
      BY <2>3
    <3>2. \A k \in 1 .. n : k <= j + 1 => h[f[k]] <= m
      BY <2>1, <3>1
    <3>3. P(j + 1)
      <4> WITNESS m \in Nat
      <4> QED
        BY <3>2
    <3> HIDE DEF P
    <3> QED
      BY <3>3
  <2> QED
    BY <2>2, <2>3
<1>6. n \in S
  <2> HIDE DEF S
  <2> QED
    BY <1>4, <1>5, SetInduction
<1>7. PICK m \in Nat : \A k \in 1 .. n : k <= n => h[f[k]] <= m
  BY <1>6
<1> HIDE DEF S, P
<1>8. ASSUME NEW i \in D PROVE h[i] <= m
  <2>1. PICK k \in 1 .. n : f[k] = i
    BY <1>3
  <2> QED
    BY <1>7, <2>1
<1> QED
  BY <1>8

-----------------------------------------------------------------------------
(* The keys of a node between those of its ancestors.                      *)

\* The keys of a node, between the key above which and the one below which all of
\* them are.  The root has neither.
Fences(v, low, high) ==
    [p \in 0 .. Len(v) + 1 |-> IF p = 0 THEN low ELSE IF p = Len(v) + 1 THEN high ELSE {v[p].First}]

\* The n + 1 fences of F stand in order, each on one key; the outer two may be missing.
Rising(F, n) ==
    /\ \A p \in 0 .. n : F[p] \subseteq Int
    /\ \A p \in 1 .. n - 1 : F[p] # {}
    /\ \A p, q \in 0 .. n : p < q => \A x \in F[p], y \in F[q] : x < y

Between(k, low, high) == (\A x \in low : x < k) /\ (\A y \in high : k < y)

\* Neighbouring fences.
LEMMA RisingPart ==
    ASSUME NEW F, NEW n \in Nat, Rising(F, n), NEW m \in 0 .. n, NEW k \in 0 .. n, m <= k,
           NEW G, \A p \in 0 .. k - m : G[p] = F[p + m]
    PROVE  Rising(G, k - m)
<1>1. \A p \in 0 .. k - m : p + m \in 0 .. n
  OBVIOUS
<1>2. \A p \in 1 .. k - m - 1 : p + m \in 1 .. n - 1 /\ p \in 0 .. k - m
  OBVIOUS
<1>3. \A p, q \in 0 .. k - m : p < q => p + m < q + m
  OBVIOUS
<1> QED
  BY <1>1, <1>2, <1>3 DEF Rising

\* Two rows of fences that meet.
Meet(F, m, G) == \E e \in Int : F[m] = {e} /\ G[0] = {e}
LEMMA RisingJoin ==
    ASSUME NEW F, NEW m \in Nat, Rising(F, m), NEW G, NEW k \in Nat, Rising(G, k),
           Meet(F, m, G), m >= 1, k >= 1,
           NEW J, \A p \in 0 .. m + k : J[p] = IF p <= m THEN F[p] ELSE G[p - m]
    PROVE  Rising(J, m + k)
<1>0. PICK e \in Int : F[m] = {e} /\ G[0] = {e}
  BY DEF Meet
<1>1. \A p \in 0 .. m + k : IF p <= m THEN p \in 0 .. m ELSE p - m \in 0 .. k /\ p - m > 0
  OBVIOUS
<1>2. \A p \in 0 .. m + k : J[p] \subseteq Int
  BY <1>1 DEF Rising
<1>3. ASSUME NEW p \in 1 .. m + k - 1 PROVE J[p] # {}
  <2>1. CASE p < m
    BY <2>1 DEF Rising
  <2>2. CASE p = m
    <3>1. p <= m /\ p \in 0 .. m + k /\ e \in {e}
      BY <2>2
    <3>2. J[p] = {e}
      BY <1>0, <2>2, <3>1
    <3> QED
      BY <3>1, <3>2
  <2>3. CASE p > m
    <3>1. p - m \in 1 .. k - 1 /\ ~(p <= m) /\ p \in 0 .. m + k
      BY <2>3
    <3> QED
      BY <3>1 DEF Rising
  <2> QED
    BY <2>1, <2>2, <2>3
<1>4. ASSUME NEW p \in 0 .. m + k, NEW q \in 0 .. m + k, p < q, NEW x \in J[p], NEW y \in J[q]
      PROVE  x < y
  <2>0. x \in Int /\ y \in Int
    BY <1>2
  <2>1. CASE q <= m
    <3>1. p \in 0 .. m /\ q \in 0 .. m /\ x \in F[p] /\ y \in F[q]
      BY <1>4, <2>1
    <3> QED
      BY <1>4, <3>1 DEF Rising
  <2>2. CASE ~(p <= m)
    <3>1. p - m \in 0 .. k /\ q - m \in 0 .. k /\ p - m < q - m /\ ~(q <= m)
      BY <1>4, <2>2
    <3>2. x \in G[p - m] /\ y \in G[q - m]
      BY <2>2, <3>1
    <3> QED
      BY <3>1, <3>2 DEF Rising
  <2>3. CASE p <= m /\ ~(q <= m)
    <3>1. x \in F[p] /\ y \in G[q - m] /\ q - m \in 0 .. k /\ 0 < q - m /\ p \in 0 .. m
      BY <2>3
    <3>2. p = m => x = e
      BY <1>0, <3>1
    <3>3. p < m => x < e
      BY <1>0, <3>1 DEF Rising
    <3>4. e < y
      BY <1>0, <3>1 DEF Rising
    <3> QED
      BY <2>0, <2>3, <3>2, <3>3, <3>4
  <2> QED
    BY <2>1, <2>2, <2>3
<1> QED
  BY <1>2, <1>3, <1>4 DEF Rising

\* One more fence between two neighbours.
LEMMA RisingInsert ==
    ASSUME NEW F, NEW n \in Nat, Rising(F, n), NEW q \in 0 .. n - 1,
           NEW e \in Int, Between(e, F[q], F[q + 1]),
           NEW G, \A p \in 0 .. n + 1 : G[p] = IF p <= q THEN F[p] ELSE IF p = q + 1 THEN {e} ELSE F[p - 1]
    PROVE  Rising(G, n + 1)
<1>1. \A p \in 0 .. n : F[p] \subseteq Int
  BY DEF Rising
<1>2. ASSUME NEW p \in 0 .. q, NEW x \in F[p] PROVE x < e
  <2>1. CASE p = q
    BY <1>2, <2>1 DEF Between
  <2>2. CASE p < q
    <3>1. q \in 1 .. n - 1 /\ p \in 0 .. n /\ q \in 0 .. n
      BY <2>2
    <3>2. PICK y \in F[q] : TRUE
      BY <3>1 DEF Rising
    <3>3. x < y /\ y < e
      BY <2>2, <3>1, <3>2 DEF Rising, Between
    <3> QED
      BY <1>1, <3>1, <3>2, <3>3
  <2> QED
    BY <2>1, <2>2
<1>3. ASSUME NEW p \in q + 1 .. n, NEW y \in F[p] PROVE e < y
  <2>1. CASE p = q + 1
    BY <1>3, <2>1 DEF Between
  <2>2. CASE p > q + 1
    <3>1. q + 1 \in 1 .. n - 1 /\ p \in 0 .. n /\ q + 1 \in 0 .. n
      BY <2>2
    <3>2. PICK x \in F[q + 1] : TRUE
      BY <3>1 DEF Rising
    <3>3. x < y /\ e < x
      BY <2>2, <3>1, <3>2 DEF Rising, Between
    <3> QED
      BY <1>1, <3>1, <3>2, <3>3
  <2> QED
    BY <2>1, <2>2
<1>4. \A p \in 0 .. n + 1 : \/ p \in 0 .. q /\ G[p] = F[p]
                            \/ p = q + 1 /\ G[p] = {e}
                            \/ p - 1 \in q + 1 .. n /\ G[p] = F[p - 1] /\ ~(p <= q + 1)
  OBVIOUS
<1>5. \A p \in 0 .. n + 1 : G[p] \subseteq Int
  BY <1>1, <1>4
<1>6. \A p \in 1 .. n : G[p] # {}
  <2>1. TAKE p \in 1 .. n
  <2>2. CASE p <= q
    BY <2>2 DEF Rising
  <2>3. CASE p = q + 1
    BY <2>3
  <2>4. CASE p > q + 1
    <3>1. p - 1 \in 1 .. n - 1 /\ G[p] = F[p - 1]
      BY <2>4
    <3> QED
      BY <3>1 DEF Rising
  <2> QED
    BY <2>2, <2>3, <2>4
<1>7. ASSUME NEW r \in 0 .. n + 1, NEW p \in 0 .. n + 1, r < p, NEW x \in G[r], NEW y \in G[p]
      PROVE  x < y
  <2>1. CASE r \in 0 .. q /\ G[r] = F[r]
    <3>1. x < e
      BY <1>2, <1>7, <2>1
    <3>2. p = q + 1 => y = e
      BY <1>7
    <3>3. p > q + 1 => e < y
      <4>1. ASSUME p > q + 1 PROVE e < y
        <5>1. p - 1 \in q + 1 .. n /\ G[p] = F[p - 1]
          BY <4>1
        <5> QED
          BY <1>3, <1>7, <5>1
      <4> QED
        BY <4>1
    <3>4. p <= q => x < y
      BY <1>7, <2>1 DEF Rising
    <3> QED
      BY <1>5, <1>7, <3>1, <3>2, <3>3, <3>4
  <2>2. CASE r = q + 1 /\ G[r] = {e}
    <3>1. p - 1 \in q + 1 .. n /\ G[p] = F[p - 1]
      BY <1>7, <2>2
    <3> QED
      BY <1>3, <1>7, <2>2, <3>1
  <2>3. CASE r - 1 \in q + 1 .. n /\ G[r] = F[r - 1] /\ ~(r <= q + 1)
    <3>1. p - 1 \in 0 .. n /\ r - 1 \in 0 .. n /\ r - 1 < p - 1 /\ G[p] = F[p - 1]
      BY <1>7, <2>3
    <3> QED
      BY <1>7, <2>3, <3>1 DEF Rising
  <2> QED
    BY <1>4, <2>1, <2>2, <2>3
<1> QED
  BY <1>5, <1>6, <1>7 DEF Rising

\* One fence less.
LEMMA RisingDrop ==
    ASSUME NEW F, NEW n \in Nat, Rising(F, n + 1), NEW q \in 1 .. n,
           NEW G, \A p \in 0 .. n : G[p] = IF p < q THEN F[p] ELSE F[p + 1]
    PROVE  Rising(G, n)
<1>1. \A p \in 0 .. n : p \in 0 .. n + 1 /\ p + 1 \in 0 .. n + 1
  OBVIOUS
<1>2. \A p \in 0 .. n : G[p] \subseteq Int
  BY <1>1 DEF Rising
<1>3. \A p \in 1 .. n - 1 : p \in 1 .. n /\ p + 1 \in 1 .. n /\ p \in 0 .. n
  OBVIOUS
<1>4. \A p \in 1 .. n - 1 : G[p] # {}
  BY <1>3 DEF Rising
<1>5. ASSUME NEW r \in 0 .. n, NEW p \in 0 .. n, r < p, NEW x \in G[r], NEW y \in G[p]
      PROVE  x < y
  <2> DEFINE s == IF r < q THEN r ELSE r + 1
             t == IF p < q THEN p ELSE p + 1
  <2>1. G[r] = F[s] /\ G[p] = F[t] /\ s < t /\ s \in 0 .. n + 1 /\ t \in 0 .. n + 1
    BY <1>5
  <2> HIDE DEF s, t
  <2> QED
    BY <1>5, <2>1 DEF Rising
<1> QED
  BY <1>2, <1>4, <1>5 DEF Rising

\* One fence moves between its neighbours.
LEMMA RisingMove ==
    ASSUME NEW F, NEW n \in Nat, Rising(F, n + 1), NEW q \in 1 .. n, NEW e \in Int,
           Between(e, F[q - 1], F[q + 1]),
           NEW G, \A p \in 0 .. n + 1 : G[p] = IF p = q THEN {e} ELSE F[p]
    PROVE  Rising(G, n + 1)
<1> DEFINE M == [p \in 0 .. n |-> IF p < q THEN F[p] ELSE F[p + 1]]
<1>1. Rising(M, n)
  <2>1. \A p \in 0 .. n : M[p] = IF p < q THEN F[p] ELSE F[p + 1]
    OBVIOUS
  <2> HIDE DEF M
  <2> QED
    BY <2>1, RisingDrop
<1>2. q - 1 \in 0 .. n - 1 /\ M[q - 1] = F[q - 1] /\ M[q - 1 + 1] = F[q + 1]
  <2>1. q - 1 \in 0 .. n /\ q - 1 < q /\ q - 1 + 1 \in 0 .. n /\ ~(q - 1 + 1 < q)
        /\ q - 1 + 1 + 1 = q + 1
    OBVIOUS
  <2> QED
    BY <2>1
<1>3. \A p \in 0 .. n + 1 : G[p] = IF p <= q - 1 THEN M[p]
                                    ELSE IF p = q - 1 + 1 THEN {e} ELSE M[p - 1]
  <2>1. TAKE p \in 0 .. n + 1
  <2>2. CASE p < q
    BY <2>2
  <2>3. CASE p = q
    BY <2>3
  <2>4. CASE p > q
    <3>1. p - 1 \in 0 .. n /\ ~(p - 1 < q) /\ p - 1 + 1 = p
      BY <2>4
    <3> QED
      BY <2>4, <3>1
  <2> QED
    BY <2>2, <2>3, <2>4
<1> HIDE DEF M
<1> QED
  BY <1>1, <1>2, <1>3, RisingInsert

LEMMA KeyOfTuple == ASSUME NEW t \in Tuple PROVE t.First \in Int /\ t.First \in Keys
BY KeysAssumption DEF Tuple

LEMMA FencesAt ==
    ASSUME NEW v \in Seq(Tuple), NEW low, NEW high
    PROVE  /\ Len(v) \in Nat
           /\ Fences(v, low, high)[0] = low /\ Fences(v, low, high)[Len(v) + 1] = high
           /\ \A p \in 1 .. Len(v) : Fences(v, low, high)[p] = {v[p].First} /\ v[p] \in Tuple
BY DEF Fences

\* A row of fences around the keys of v.
InOrder(v, low, high) == Rising(Fences(v, low, high), Len(v) + 1)

\* Two rows are equal where their fences are.
LEMMA SameRising ==
    ASSUME NEW F, NEW n \in Nat, Rising(F, n), NEW G, \A p \in 0 .. n : G[p] = F[p]
    PROVE  Rising(G, n)
<1>1. \A p \in 1 .. n - 1 : p \in 0 .. n
  OBVIOUS
<1> QED
  BY <1>1 DEF Rising

\* w is a part of v, from behind position m; G is one of F, from m on.
Part(w, v, m) == m + Len(w) <= Len(v) /\ \A i \in 1 .. Len(w) : w[i] = v[m + i]
Shifted(G, F, m, l) == \A p \in 0 .. l : G[p] = F[p + m]

\* Some of a node's keys, between the fences around them.
LEMMA FencesPart ==
    ASSUME NEW v \in Seq(Tuple), NEW low, NEW high, InOrder(v, low, high),
           NEW w \in Seq(Tuple), NEW m \in Nat, Part(w, v, m),
           NEW l, l = Fences(v, low, high)[m], NEW u, u = Fences(v, low, high)[m + Len(w) + 1]
    PROVE  /\ InOrder(w, l, u)
           /\ Shifted(Fences(w, l, u), Fences(v, low, high), m, Len(w) + 1)
<1> DEFINE F == Fences(v, low, high)
           G == Fences(w, l, u)
           n == Len(v) + 1
           k == m + Len(w) + 1
<1>1. Len(v) \in Nat /\ Len(w) \in Nat /\ k \in 0 .. n /\ m \in 0 .. n /\ m <= k /\ n \in Nat
      /\ k - m = Len(w) + 1
  BY DEF Part
<1>2. ASSUME NEW p \in 0 .. k - m PROVE G[p] = F[p + m]
  <2>1. CASE p = 0
    <3>1. p + m = m /\ G[p] = l
      BY <1>1, <2>1 DEF Fences
    <3> QED
      BY <3>1
  <2>2. CASE p = Len(w) + 1
    <3>1. p + m = m + Len(w) + 1 /\ G[p] = u
      BY <1>1, <2>2 DEF Fences
    <3> QED
      BY <3>1
  <2>3. CASE p \in 1 .. Len(w)
    <3>1. G[p] = {w[p].First} /\ w[p] = v[m + p]
      BY <2>3, FencesAt DEF Part
    <3>2. p + m \in 1 .. Len(v) /\ p + m = m + p
      BY <1>1, <2>3
    <3>3. F[p + m] = {v[p + m].First}
      BY <3>2, FencesAt
    <3> QED
      BY <3>1, <3>2, <3>3
  <2> QED
    BY <1>1, <2>1, <2>2, <2>3
<1>3. Rising(F, n)
  BY DEF InOrder
<1> HIDE DEF F, G, n, k
<1>4. Rising(G, k - m)
  BY <1>1, <1>2, <1>3, RisingPart
<1> QED
  BY <1>1, <1>2, <1>4 DEF InOrder, Shifted, F, G

\* One row behind the other.
Joint(J, F, G, m, n) == \A p \in 0 .. m + n : J[p] = IF p <= m THEN F[p] ELSE G[p - m]

\* The keys of two nodes and the one between them.
LEMMA FencesJoin ==
    ASSUME NEW v \in Seq(Tuple), NEW w \in Seq(Tuple), NEW e \in Tuple, NEW z \in Seq(Tuple),
           JoinsAround(z, v, e, w), NEW low, NEW high, NEW k, k = {e.First},
           InOrder(v, low, k), InOrder(w, k, high)
    PROVE  /\ InOrder(z, low, high)
           /\ \A p \in 0 .. Len(z) + 1 :
                 Fences(z, low, high)[p] = IF p <= Len(v) + 1 THEN Fences(v, low, k)[p]
                                           ELSE Fences(w, k, high)[p - Len(v) - 1]
<1> DEFINE F == Fences(v, low, k)
           G == Fences(w, k, high)
           J == Fences(z, low, high)
           m == Len(v) + 1
           n == Len(w) + 1
<1>1. /\ Len(v) \in Nat /\ Len(w) \in Nat /\ Len(z) = Len(v) + 1 + Len(w)
      /\ m \in Nat /\ n \in Nat /\ m >= 1 /\ n >= 1 /\ m + n = Len(z) + 1
      /\ m = Len(v) + 1 /\ n = Len(w) + 1 /\ e.First \in Int
  BY KeyOfTuple DEF JoinsAround
<1>2. /\ F[0] = low /\ F[m] = k /\ G[0] = k /\ G[n] = high /\ J[0] = low /\ J[m + n] = high
      /\ \A p \in 1 .. Len(v) : F[p] = {v[p].First}
      /\ \A p \in 1 .. Len(w) : G[p] = {w[p].First}
      /\ \A p \in 1 .. Len(z) : J[p] = {z[p].First}
  <2>1. F[0] = low /\ F[m] = k /\ \A p \in 1 .. Len(v) : F[p] = {v[p].First}
    BY FencesAt
  <2>2. G[0] = k /\ G[n] = high /\ \A p \in 1 .. Len(w) : G[p] = {w[p].First}
    BY FencesAt
  <2>3. J[0] = low /\ J[Len(z) + 1] = high /\ \A p \in 1 .. Len(z) : J[p] = {z[p].First}
    BY FencesAt
  <2> HIDE DEF F, G, J
  <2> QED
    BY <1>1, <2>1, <2>2, <2>3
<1>3. /\ Rising(F, m) /\ Rising(G, n) /\ (InOrder(z, low, high) <=> Rising(J, m + n))
  BY <1>1 DEF InOrder
<1> HIDE DEF F, G, J, m, n
<1>4. ASSUME NEW p \in 0 .. m + n PROVE J[p] = IF p <= m THEN F[p] ELSE G[p - m]
  <2>1. CASE p = 0
    BY <1>1, <1>2, <2>1
  <2>2. CASE p = m + n
    <3>1. ~(p <= m) /\ p - m = n
      BY <1>1, <2>2
    <3> QED
      BY <1>2, <2>2, <3>1
  <2>3. CASE p \in 1 .. Len(z)
    <3>1. J[p] = {z[p].First}
      BY <1>2, <2>3
    <3>2. CASE p <= Len(v)
      <4>1. z[p] = v[p] /\ p <= m /\ p \in 1 .. Len(v)
        BY <1>1, <2>3, <3>2 DEF JoinsAround
      <4> QED
        BY <1>2, <3>1, <4>1
    <3>3. CASE p = m
      <4>1. z[p] = e /\ p <= m
        BY <1>1, <2>3, <3>3 DEF JoinsAround
      <4> QED
        BY <1>2, <3>1, <3>3, <4>1
    <3>4. CASE p > m
      <4>1. z[p] = w[p - Len(v) - 1] /\ ~(p <= m) /\ p - Len(v) - 1 = p - m
        BY <1>1, <2>3, <3>4 DEF JoinsAround
      <4>2. p - m \in 1 .. Len(w)
        BY <1>1, <2>3, <3>4
      <4>3. G[p - m] = {w[p - m].First}
        BY <1>2, <4>2
      <4> QED
        BY <3>1, <4>1, <4>3
    <3> QED
      BY <1>1, <2>3, <3>2, <3>3, <3>4
  <2>4. p = 0 \/ p = m + n \/ p \in 1 .. Len(z)
    <3>1. m \in Nat /\ n \in Nat /\ Len(z) = m + n - 1
      BY <1>1
    <3> QED
      BY <3>1
  <2> QED
    BY <2>1, <2>2, <2>3, <2>4
<1>5. Rising(J, m + n)
  <2>1. m \in Nat /\ n \in Nat /\ m >= 1 /\ n >= 1 /\ e.First \in Int
        /\ F[m] = {e.First} /\ G[0] = {e.First}
    BY <1>1, <1>2
  <2>2. Meet(F, m, G)
    BY <2>1 DEF Meet
  <2>3. Rising(F, m) /\ Rising(G, n)
    BY <1>3
  <2> QED
    BY <1>4, <2>1, <2>2, <2>3, RisingJoin
<1>6. \A p \in 0 .. Len(z) + 1 : p \in 0 .. m + n /\ p - Len(v) - 1 = p - m
  BY <1>1
<1>7. \A p \in 0 .. Len(z) + 1 : J[p] = IF p <= Len(v) + 1 THEN F[p] ELSE G[p - Len(v) - 1]
  BY <1>1, <1>4, <1>6
<1> QED
  BY <1>3, <1>5, <1>7 DEF F, G, J

\* What a fence on t stands on.
Key(t) == {t.First}

\* A fence k more, one less behind fence q, another one there.
Widened(G, F, k, q, l) ==
    \A p \in 0 .. l + 1 : G[p] = IF p <= q THEN F[p] ELSE IF p = q + 1 THEN k ELSE F[p - 1]
Narrowed(G, F, q, l) == \A p \in 0 .. l : G[p] = IF p <= q THEN F[p] ELSE F[p + 1]
Moved(G, F, k, q, l) == \A p \in 0 .. l : G[p] = IF p = q + 1 THEN k ELSE F[p]

\* One more key.
LEMMA FencesInsert ==
    ASSUME NEW v \in Seq(Tuple), NEW low, NEW high, InOrder(v, low, high), NEW e \in Tuple,
           NEW q \in 0 .. Len(v), NEW z \in Seq(Tuple), Inserts(z, v, e, q),
           Between(e.First, Fences(v, low, high)[q], Fences(v, low, high)[q + 1])
    PROVE  /\ InOrder(z, low, high)
           /\ Widened(Fences(z, low, high), Fences(v, low, high), Key(e), q, Len(v) + 1)
<1> DEFINE F == Fences(v, low, high)
           G == Fences(z, low, high)
           n == Len(v) + 1
<1>1. /\ Len(v) \in Nat /\ Len(z) = Len(v) + 1 /\ n \in Nat /\ q \in 0 .. n - 1 /\ n + 1 = Len(z) + 1
      /\ e.First \in Int
  BY KeyOfTuple DEF Inserts
<1>2. ASSUME NEW p \in 0 .. n + 1
      PROVE  G[p] = IF p <= q THEN F[p] ELSE IF p = q + 1 THEN {e.First} ELSE F[p - 1]
  <2>1. CASE p = 0
    <3>1. G[p] = low /\ F[p] = low /\ p <= q
      BY <1>1, <2>1, FencesAt
    <3> QED
      BY <3>1
  <2>2. CASE p = n + 1
    <3>1. G[p] = high /\ F[p - 1] = high /\ ~(p <= q) /\ p # q + 1
      BY <1>1, <2>2, FencesAt
    <3> QED
      BY <3>1
  <2>3. CASE p \in 1 .. Len(z)
    <3>1. G[p] = {z[p].First}
      BY <2>3, FencesAt
    <3>2. CASE p <= q
      <4>1. z[p] = v[p] /\ p \in 1 .. Len(v)
        BY <1>1, <2>3, <3>2 DEF Inserts
      <4> QED
        BY <3>1, <3>2, <4>1, FencesAt
    <3>3. CASE p = q + 1
      <4>1. z[p] = e
        BY <1>1, <2>3, <3>3 DEF Inserts
      <4> QED
        BY <1>1, <3>1, <3>3, <4>1
    <3>4. CASE p > q + 1
      <4>1. z[p] = v[p - 1] /\ p - 1 \in 1 .. Len(v)
        BY <1>1, <2>3, <3>4 DEF Inserts
      <4>2. F[p - 1] = {v[p - 1].First}
        BY <4>1, FencesAt
      <4> QED
        BY <3>1, <3>4, <4>1, <4>2
    <3> QED
      BY <1>1, <2>3, <3>2, <3>3, <3>4
  <2> QED
    BY <1>1, <2>1, <2>2, <2>3
<1>3. Rising(F, n) /\ Between(e.First, F[q], F[q + 1])
  BY DEF InOrder
<1> HIDE DEF F, G
<1>4. Rising(G, n + 1)
  <2> HIDE DEF n
  <2> QED
    BY <1>1, <1>2, <1>3, RisingInsert
<1>5. Widened(G, F, Key(e), q, n)
  BY <1>2 DEF Widened, Key
<1> QED
  BY <1>1, <1>4, <1>5 DEF InOrder, F, G

\* One key less.
LEMMA FencesDrop ==
    ASSUME NEW v \in Seq(Tuple), NEW low, NEW high, InOrder(v, low, high),
           NEW q \in Nat, q < Len(v), NEW z \in Seq(Tuple), Drops(z, v, q)
    PROVE  InOrder(z, low, high) /\ Narrowed(Fences(z, low, high), Fences(v, low, high), q, Len(v))
<1> DEFINE F == Fences(v, low, high)
           G == Fences(z, low, high)
           n == Len(v)
<1>1. Len(v) \in Nat /\ Len(z) = Len(v) - 1 /\ n \in Nat /\ q + 1 \in 1 .. n /\ n = Len(z) + 1
  BY DEF Drops
<1>2. ASSUME NEW p \in 0 .. n PROVE G[p] = IF p < q + 1 THEN F[p] ELSE F[p + 1]
  <2>1. CASE p = 0
    <3>1. G[p] = low /\ F[p] = low /\ p < q + 1
      BY <1>1, <2>1, FencesAt
    <3> QED
      BY <3>1
  <2>2. CASE p = n
    <3>1. G[p] = high /\ F[p + 1] = high /\ ~(p < q + 1)
      BY <1>1, <2>2, FencesAt
    <3> QED
      BY <3>1
  <2>3. CASE p \in 1 .. Len(z)
    <3>1. G[p] = {z[p].First}
      BY <2>3, FencesAt
    <3>2. CASE p < q + 1
      <4>1. z[p] = v[p] /\ p \in 1 .. Len(v)
        BY <1>1, <2>3, <3>2 DEF Drops
      <4> QED
        BY <3>1, <3>2, <4>1, FencesAt
    <3>3. CASE ~(p < q + 1)
      <4>1. z[p] = v[p + 1] /\ p + 1 \in 1 .. Len(v)
        BY <1>1, <2>3, <3>3 DEF Drops
      <4>2. F[p + 1] = {v[p + 1].First}
        BY <4>1, FencesAt
      <4> QED
        BY <3>1, <3>3, <4>1, <4>2
    <3> QED
      BY <3>2, <3>3
  <2> QED
    BY <1>1, <2>1, <2>2, <2>3
<1>3. Rising(F, n + 1)
  BY DEF InOrder
<1> HIDE DEF F, G
<1>4. Rising(G, n)
  <2> HIDE DEF n
  <2> QED
    BY <1>1, <1>2, <1>3, RisingDrop
<1>5. \A p \in 0 .. n : p < q + 1 <=> p <= q
  BY <1>1
<1>6. Narrowed(G, F, q, n)
  BY <1>2, <1>5 DEF Narrowed
<1> QED
  BY <1>1, <1>4, <1>6 DEF InOrder, F, G

\* Another key in the place of one.
LEMMA FencesMove ==
    ASSUME NEW v \in Seq(Tuple), NEW low, NEW high, InOrder(v, low, high), NEW e \in Tuple,
           NEW q \in Nat, q < Len(v),
           Between(e.First, Fences(v, low, high)[q], Fences(v, low, high)[q + 2]),
           NEW z, z = swap(v, q, e)
    PROVE  /\ InOrder(z, low, high) /\ Len(z) = Len(v)
           /\ Moved(Fences(z, low, high), Fences(v, low, high), Key(e), q, Len(v) + 1)
<1> DEFINE F == Fences(v, low, high)
           G == Fences(z, low, high)
           n == Len(v)
<1>1. /\ Len(v) \in Nat /\ n \in Nat /\ q + 1 \in 1 .. n /\ e.First \in Int
      /\ q + 1 - 1 = q /\ q + 1 + 1 = q + 2
  BY KeyOfTuple
<1>2. z \in Seq(Tuple) /\ Swaps(z, v, e, q) /\ Len(z) = Len(v)
  <2>1. z \in Seq(Tuple) /\ Swaps(z, v, e, q)
    BY SwapAt
  <2> QED
    BY <2>1 DEF Swaps
<1>3. ASSUME NEW p \in 0 .. n + 1 PROVE G[p] = IF p = q + 1 THEN {e.First} ELSE F[p]
  <2>1. CASE p = 0
    <3>1. G[p] = low /\ F[p] = low /\ p # q + 1
      BY <1>1, <1>2, <2>1, FencesAt
    <3> QED
      BY <3>1
  <2>2. CASE p = n + 1
    <3>0. G[Len(z) + 1] = high
      BY <1>2, FencesAt
    <3>1. F[Len(v) + 1] = high
      BY FencesAt
    <3>2. p = Len(z) + 1 /\ p = Len(v) + 1 /\ p # q + 1
      BY <1>1, <1>2, <2>2
    <3> QED
      BY <3>0, <3>1, <3>2
  <2>3. CASE p \in 1 .. Len(v)
    <3>1. G[p] = {z[p].First} /\ F[p] = {v[p].First}
      BY <1>2, <2>3, FencesAt
    <3> QED
      BY <1>2, <2>3, <3>1 DEF Swaps
  <2> QED
    BY <1>1, <2>1, <2>2, <2>3
<1>4. Rising(F, n + 1) /\ Between(e.First, F[q], F[q + 2])
  BY DEF InOrder
<1> HIDE DEF F, G
<1>5. Rising(G, n + 1)
  <2> HIDE DEF n
  <2> DEFINE r == q + 1
  <2>1. r \in 1 .. n /\ n \in Nat /\ e.First \in Int /\ Between(e.First, F[r - 1], F[r + 1])
    BY <1>1, <1>4
  <2>2. \A p \in 0 .. n + 1 : G[p] = IF p = r THEN {e.First} ELSE F[p]
    BY <1>3
  <2> HIDE DEF r
  <2> QED
    BY <1>4, <2>1, <2>2, RisingMove
<1>6. Moved(G, F, Key(e), q, n + 1)
  BY <1>3 DEF Moved, Key
<1> QED
  BY <1>2, <1>5, <1>6 DEF InOrder, F, G

-----------------------------------------------------------------------------
(* A key among the fences.                                                 *)

\* A key between two neighbours is between the outer fences and on none.
LEMMA BetweenUp ==
    ASSUME NEW F, NEW n \in Nat, Rising(F, n), NEW p \in 0 .. n - 1, NEW k \in Int,
           Between(k, F[p], F[p + 1])
    PROVE  Between(k, F[0], F[n]) /\ \A q \in 0 .. n : k \notin F[q]
<1>1. p \in 0 .. n /\ p + 1 \in 0 .. n /\ 0 \in 0 .. n /\ n \in 0 .. n
  OBVIOUS
<1>2. ASSUME NEW q \in 0 .. n, q <= p, NEW x \in F[q] PROVE x < k
  <2>1. CASE q = p
    BY <1>2, <2>1 DEF Between
  <2>2. CASE q < p
    <3>1. p \in 1 .. n - 1
      BY <2>2
    <3>2. PICK y \in F[p] : TRUE
      BY <3>1 DEF Rising
    <3>3. x < y /\ y < k /\ x \in Int /\ y \in Int
      BY <1>1, <1>2, <2>2, <3>2 DEF Rising, Between
    <3> QED
      BY <3>3
  <2> QED
    BY <1>2, <2>1, <2>2
<1>3. ASSUME NEW q \in 0 .. n, q >= p + 1, NEW x \in F[q] PROVE k < x
  <2>1. CASE q = p + 1
    BY <1>3, <2>1 DEF Between
  <2>2. CASE q > p + 1
    <3>1. p + 1 \in 1 .. n - 1
      BY <2>2
    <3>2. PICK y \in F[p + 1] : TRUE
      BY <3>1 DEF Rising
    <3>3. y < x /\ k < y /\ x \in Int /\ y \in Int
      BY <1>1, <1>3, <2>2, <3>2 DEF Rising, Between
    <3> QED
      BY <3>3
  <2> QED
    BY <1>3, <2>1, <2>2
<1>4. \A q \in 0 .. n : q <= p \/ q >= p + 1
  OBVIOUS
<1>5. \A q \in 0 .. n : \A x \in F[q] : x < k \/ k < x
  BY <1>2, <1>3, <1>4
<1>6. \A q \in 0 .. n : k \notin F[q]
  BY <1>5
<1>7. (\A x \in F[0] : x < k) /\ (\A x \in F[n] : k < x)
  BY <1>1, <1>2, <1>3
<1> QED
  BY <1>6, <1>7 DEF Between

\* A key is between one pair of neighbours.
LEMMA BetweenOnce ==
    ASSUME NEW F, NEW n \in Nat, Rising(F, n), NEW p \in 0 .. n - 1, NEW q \in 0 .. n - 1,
           NEW k \in Int, Between(k, F[p], F[p + 1]), Between(k, F[q], F[q + 1])
    PROVE  p = q
<1>1. ASSUME NEW x \in 0 .. n - 1, NEW y \in 0 .. n - 1, x < y,
             Between(k, F[x], F[x + 1]), Between(k, F[y], F[y + 1])
      PROVE  FALSE
  <2>1. x + 1 \in 1 .. n - 1 /\ y \in 1 .. n - 1 /\ x + 1 \in 0 .. n /\ y \in 0 .. n
    BY <1>1
  <2>2. PICK d \in F[x + 1], e \in F[y] : TRUE
    BY <2>1 DEF Rising
  <2>3. k < d /\ e < k /\ d \in Int /\ e \in Int
    BY <1>1, <2>1, <2>2 DEF Between, Rising
  <2>4. CASE x + 1 = y
    <3>1. k < e
      BY <1>1, <2>2, <2>4 DEF Between
    <3> QED
      BY <2>3, <3>1
  <2>5. CASE x + 1 < y
    <3>1. d < e
      BY <2>1, <2>2, <2>5 DEF Rising
    <3> QED
      BY <2>3, <3>1
  <2> QED
    BY <1>1, <2>4, <2>5
<1>2. ~(p < q) /\ ~(q < p)
  BY <1>1
<1> QED
  BY <1>2

\* A fence is between the outer two.
LEMMA InnerBetween ==
    ASSUME NEW F, NEW n \in Nat, Rising(F, n), NEW p \in 1 .. n - 1, NEW k, F[p] = {k}
    PROVE  k \in Int /\ Between(k, F[0], F[n])
<1>1. p \in 0 .. n /\ 0 \in 0 .. n /\ n \in 0 .. n /\ 0 < p /\ p < n
  OBVIOUS
<1>2. k \in F[p]
  OBVIOUS
<1>3. k \in Int
  BY <1>1, <1>2 DEF Rising
<1>4. \A x \in F[0] : x < k
  BY <1>1, <1>2 DEF Rising
<1>5. \A y \in F[n] : k < y
  BY <1>1, <1>2 DEF Rising
<1> QED
  BY <1>3, <1>4, <1>5 DEF Between

\* A search that does not find the key ends between two neighbours.
LEMMA FindBetween ==
    ASSUME NEW v \in Seq(Tuple), NEW low, NEW high, NEW k \in Int, Between(k, low, high),
           NEW p \in find(v, k), ~Found(v, k, p)
    PROVE  /\ p \in 0 .. Len(v)
           /\ Between(k, Fences(v, low, high)[p], Fences(v, low, high)[p + 1])
<1> DEFINE F == Fences(v, low, high)
<1>1. /\ p \in 0 .. Len(v) /\ Len(v) \in Nat
      /\ \A i \in 1 .. p : v[i].First < k
      /\ \A i \in p + 1 .. Len(v) : k <= v[i].First
  BY DEF find
<1>2. \A x \in F[p] : x < k
  <2>1. CASE p = 0
    BY <2>1, FencesAt DEF Between
  <2>2. CASE p # 0
    <3>1. p \in 1 .. p /\ p \in 1 .. Len(v)
      BY <1>1, <2>2
    <3>2. F[p] = {v[p].First} /\ v[p].First < k
      BY <1>1, <3>1, FencesAt
    <3> QED
      BY <3>2
  <2> QED
    BY <2>1, <2>2
<1>3. \A x \in F[p + 1] : k < x
  <2>1. CASE p = Len(v)
    BY <2>1, FencesAt DEF Between
  <2>2. CASE p # Len(v)
    <3>1. p < Len(v) /\ p + 1 \in 1 .. Len(v) /\ p + 1 \in p + 1 .. Len(v)
      BY <1>1, <2>2
    <3>2. F[p + 1] = {v[p + 1].First} /\ v[p + 1] \in Tuple
      BY <3>1, FencesAt
    <3>3. k <= v[p + 1].First /\ v[p + 1].First # k /\ v[p + 1].First \in Int
      BY <1>1, <3>1, <3>2, KeyOfTuple DEF Found
    <3> QED
      BY <3>2, <3>3
  <2> QED
    BY <2>1, <2>2
<1> QED
  BY <1>1, <1>2, <1>3 DEF Between

\* A search for a key between two neighbours ends there.
LEMMA FindPlace ==
    ASSUME NEW v \in Seq(Tuple), NEW low, NEW high, InOrder(v, low, high), NEW k \in Int,
           NEW q \in 0 .. Len(v),
           Between(k, Fences(v, low, high)[q], Fences(v, low, high)[q + 1]),
           NEW p \in find(v, k)
    PROVE  p = q
<1> DEFINE F == Fences(v, low, high)
           n == Len(v) + 1
<1>0. /\ n \in Nat /\ q \in 0 .. n - 1 /\ Rising(F, n) /\ 0 \in 0 .. n /\ n \in 0 .. n
      /\ Between(k, F[q], F[q + 1])
  BY DEF InOrder
<1>1. Between(k, low, high) /\ \A j \in 0 .. n : k \notin F[j]
  <2>1. F[0] = low /\ F[n] = high
    BY FencesAt
  <2> HIDE DEF F, n
  <2> QED
    BY <1>0, <2>1, BetweenUp
<1>2. ~Found(v, k, p)
  <2>1. SUFFICES ASSUME p < Len(v), v[p + 1].First = k PROVE FALSE
    BY DEF Found
  <2>2. p + 1 \in 1 .. Len(v) /\ p + 1 \in 0 .. n
    BY <2>1 DEF find
  <2>3. F[p + 1] = {v[p + 1].First}
    BY <2>2, FencesAt
  <2> QED
    BY <1>1, <2>1, <2>2, <2>3
<1>3. p \in 0 .. Len(v) /\ Between(k, F[p], F[p + 1])
  BY <1>1, <1>2, FindBetween
<1>4. p \in 0 .. n - 1
  BY <1>3
<1> HIDE DEF F, n
<1> QED
  BY <1>0, <1>3, <1>4, BetweenOnce

\* Every key is replaced by another one in the same place.
Increasing(f, K) == \A x, y \in K : x < y => f[x] < f[y]
Image(f, K) == {f[x] : x \in K}

LEMMA RisingMap ==
    ASSUME NEW F, NEW n \in Nat, Rising(F, n), NEW f \in [Int -> Int], NEW K, Increasing(f, K),
           \A p \in 0 .. n : F[p] \subseteq K,
           NEW G, \A p \in 0 .. n : G[p] = Image(f, F[p])
    PROVE  Rising(G, n)
<1>1. \A p \in 1 .. n - 1 : p \in 0 .. n
  OBVIOUS
<1>2. \A p \in 0 .. n : G[p] \subseteq Int
  BY DEF Image, Rising
<1>3. ASSUME NEW p \in 1 .. n - 1 PROVE G[p] # {}
  <2>1. PICK x \in F[p] : TRUE
    BY DEF Rising
  <2>2. f[x] \in G[p]
    BY <1>1, <2>1 DEF Image
  <2> QED
    BY <2>2
<1>4. ASSUME NEW p \in 0 .. n, NEW q \in 0 .. n, p < q, NEW x \in G[p], NEW y \in G[q] PROVE x < y
  <2>1. PICK c \in F[p] : x = f[c]
    BY DEF Image
  <2>2. PICK d \in F[q] : y = f[d]
    BY DEF Image
  <2>3. c < d /\ c \in K /\ d \in K
    BY <1>4, <2>1, <2>2 DEF Rising
  <2> QED
    BY <2>1, <2>2, <2>3 DEF Increasing
<1> QED
  BY <1>2, <1>3, <1>4 DEF Rising

-----------------------------------------------------------------------------
(* Search trees.                                                           *)

\* Lo[i] and Hi[i]: the key above which and the one below which all keys are that
\* node i and the nodes under it hold.
Row(n, Lo, Hi) == Fences(n.values, Lo[n.id], Hi[n.id])
Hung(children, F, Lo, Hi) ==
    \A p \in DOMAIN children : Lo[children[p]] = F[p - 1] /\ Hi[children[p]] = F[p]
NodeInOrder(n, Lo, Hi) ==
    /\ InOrder(n.values, Lo[n.id], Hi[n.id])
    /\ Hung(n.children, Row(n, Lo, Hi), Lo, Hi)
Ordered(W, Lo, Hi) ==
    /\ Lo[rootId] = {} /\ Hi[rootId] = {}
    /\ \A i \in DOMAIN W : NodeInOrder(W[i], Lo, Hi)

Within(k, i, Lo, Hi) == Between(k, Lo[i], Hi[i])
Holds(n, k) == \E m \in DOMAIN n.values : n.values[m].First = k

Tree(W, h) == Typed(W) /\ IsFiniteSet(DOMAIN W) /\ \E weak : Balanced(W, h, weak)

LEMMA TreeParts ==
    ASSUME NEW W, NEW h, Tree(W, h)
    PROVE  /\ rootId \in DOMAIN W /\ \A i \in DOMAIN W : h[i] \in Nat
           /\ \A i \in DOMAIN W \ {rootId} : \E v \in DOMAIN W : \E p \in DOMAIN W[v].children :
                 W[v].children[p] = i /\ h[v] = h[i] + 1
<1>1. PICK weak : Balanced(W, h, weak)
  BY DEF Tree
<1>2. Typed(W) /\ rootId \in DOMAIN W
  BY DEF Tree, Typed
<1>3. \A i \in DOMAIN W : h[i] \in Nat
  BY <1>1, <1>2, Heights
<1>4. ASSUME NEW i \in DOMAIN W \ {rootId}
      PROVE  \E v \in DOMAIN W : \E p \in DOMAIN W[v].children : W[v].children[p] = i /\ h[v] = h[i] + 1
  <2>1. PICK v \in DOMAIN W : i \in Range(W[v].children)
    BY <1>1 DEF Balanced, Linked, ChildSets
  <2>2. h[v] = h[i] + 1
    BY <1>1, <2>1, ChildFacts
  <2> QED
    BY <2>1, <2>2 DEF Range
<1> QED
  BY <1>2, <1>3, <1>4

\* Every other node is below the root: there is no endless way up.
LEMMA RootOnTop ==
    ASSUME NEW W, NEW h, Tree(W, h), NEW i \in DOMAIN W \ {rootId}
    PROVE  h[i] < h[rootId]
<1>1. /\ rootId \in DOMAIN W /\ \A j \in DOMAIN W : h[j] \in Nat
      /\ \A j \in DOMAIN W \ {rootId} : \E v \in DOMAIN W : h[v] = h[j] + 1
  BY TreeParts
<1>2. PICK m \in Nat : \A j \in DOMAIN W : h[j] <= m
  BY <1>1, FiniteBound DEF Tree
<1> DEFINE high == {j \in DOMAIN W \ {rootId} : h[j] >= h[rootId]}
           T == {m - h[j] : j \in high}
<1>3. SUFFICES ASSUME i \in high PROVE FALSE
  BY <1>1
<1>4. T \in SUBSET Nat /\ T # {}
  BY <1>1, <1>2, <1>3
<1>5. PICK j \in high : \A l \in high : m - h[j] <= m - h[l]
  <2>1. PICK n \in T : \A l \in T : n <= l
    BY <1>4, LeastElement
  <2> QED
    BY <2>1
<1>6. PICK v \in DOMAIN W : h[v] = h[j] + 1
  BY <1>1
<1>7. v \in high
  BY <1>1, <1>5, <1>6
<1>8. m - h[j] <= m - h[v] /\ h[v] \in Nat /\ h[j] \in Nat
  BY <1>1, <1>5, <1>7
<1> QED
  BY <1>6, <1>8

\* A node in order, and where its children hang.
LEMMA RowFacts ==
    ASSUME NEW W, NEW h, Tree(W, h), NEW Lo, NEW Hi, Ordered(W, Lo, Hi), NEW i \in DOMAIN W
    PROVE  LET F == Row(W[i], Lo, Hi)
               n == Len(W[i].values) + 1
           IN /\ n \in Nat /\ n >= 1 /\ Rising(F, n) /\ F[0] = Lo[i] /\ F[n] = Hi[i]
              /\ \A m \in 1 .. n - 1 : F[m] = {W[i].values[m].First}
              /\ DOMAIN W[i].values = 1 .. n - 1
              /\ \A p \in DOMAIN W[i].children :
                    /\ p \in 1 .. n
                    /\ Lo[W[i].children[p]] = F[p - 1] /\ Hi[W[i].children[p]] = F[p]
<1> DEFINE v == W[i].values
           F == Row(W[i], Lo, Hi)
<1>1. /\ W[i].id = i /\ v \in Seq(Tuple) /\ W[i].children \in Seq(Ids \ {rootId})
      /\ W[i].leaf \in BOOLEAN
  BY TypedNode DEF Tree
<1>2. PICK weak : Balanced(W, h, weak)
  BY DEF Tree
<1>3. Shaped(W[i])
  BY <1>2 DEF Balanced, NodeOK
<1>4. InOrder(v, Lo[i], Hi[i]) /\ Hung(W[i].children, F, Lo, Hi) /\ F = Fences(v, Lo[i], Hi[i])
  BY <1>1 DEF Ordered, NodeInOrder, Row
<1>5. /\ Len(v) \in Nat /\ F[0] = Lo[i] /\ F[Len(v) + 1] = Hi[i]
      /\ \A p \in 1 .. Len(v) : F[p] = {v[p].First}
  BY <1>1, <1>4, FencesAt
<1>6. DOMAIN v = 1 .. Len(v) /\ \A p \in DOMAIN W[i].children : p \in 1 .. Len(v) + 1
  <2>1. CASE W[i].leaf
    BY <1>1, <1>3, <2>1 DEF Shaped
  <2>2. CASE ~W[i].leaf
    <3>1. Len(W[i].children) = Len(v) + 1
      BY <1>3, <2>2 DEF Shaped
    <3> QED
      BY <1>1, <3>1
  <2> QED
    BY <1>1, <2>1, <2>2
<1>7. Len(v) + 1 - 1 = Len(v) /\ Len(v) + 1 \in Nat /\ Len(v) + 1 >= 1
  BY <1>5
<1>8. Rising(F, Len(v) + 1)
  BY <1>4 DEF InOrder
<1>9. \A p \in DOMAIN W[i].children :
         Lo[W[i].children[p]] = F[p - 1] /\ Hi[W[i].children[p]] = F[p]
  BY <1>4 DEF Hung
<1> HIDE DEF F
<1>10. /\ Len(v) + 1 \in Nat /\ Len(v) + 1 >= 1 /\ Rising(F, Len(v) + 1)
       /\ F[0] = Lo[i] /\ F[Len(v) + 1] = Hi[i]
       /\ \A m \in 1 .. Len(v) + 1 - 1 : F[m] = {v[m].First}
       /\ DOMAIN v = 1 .. Len(v) + 1 - 1
       /\ \A p \in DOMAIN W[i].children :
             /\ p \in 1 .. Len(v) + 1
             /\ Lo[W[i].children[p]] = F[p - 1] /\ Hi[W[i].children[p]] = F[p]
  BY <1>5, <1>6, <1>7, <1>8, <1>9
<1> QED
  BY <1>10 DEF F

\* What is within a child is within its parent, which does not hold it.
LEMMA ChildSpan ==
    ASSUME NEW W, NEW h, Tree(W, h), NEW Lo, NEW Hi, Ordered(W, Lo, Hi), NEW i \in DOMAIN W,
           NEW p \in DOMAIN W[i].children, NEW k \in Int, Within(k, W[i].children[p], Lo, Hi)
    PROVE  /\ Within(k, i, Lo, Hi) /\ ~Holds(W[i], k)
           /\ Between(k, Row(W[i], Lo, Hi)[p - 1], Row(W[i], Lo, Hi)[p])
<1> DEFINE F == Row(W[i], Lo, Hi)
           n == Len(W[i].values) + 1
<1>1. /\ n \in Nat /\ n >= 1 /\ Rising(F, n) /\ F[0] = Lo[i] /\ F[n] = Hi[i]
      /\ \A m \in 1 .. n - 1 : F[m] = {W[i].values[m].First}
      /\ DOMAIN W[i].values = 1 .. n - 1
      /\ p \in 1 .. n /\ Lo[W[i].children[p]] = F[p - 1] /\ Hi[W[i].children[p]] = F[p]
  BY RowFacts
<1> HIDE DEF F, n
<1>2. Between(k, F[p - 1], F[p])
  BY <1>1 DEF Within
<1>3. p - 1 \in 0 .. n - 1 /\ p - 1 + 1 = p
  BY <1>1
<1>4. Between(k, F[0], F[n]) /\ \A q \in 0 .. n : k \notin F[q]
  <2> DEFINE r == p - 1
  <2>1. r \in 0 .. n - 1 /\ Between(k, F[r], F[r + 1])
    BY <1>2, <1>3
  <2> HIDE DEF r
  <2> QED
    BY <1>1, <2>1, BetweenUp
<1>5. ASSUME Holds(W[i], k) PROVE FALSE
  <2>1. PICK m \in DOMAIN W[i].values : W[i].values[m].First = k
    BY <1>5 DEF Holds
  <2>2. m \in 1 .. n - 1 /\ m \in 0 .. n
    BY <1>1
  <2>3. k \in F[m]
    BY <1>1, <2>1, <2>2
  <2> QED
    BY <1>4, <2>2, <2>3
<1>6. Within(k, i, Lo, Hi)
  BY <1>1, <1>4 DEF Within
<1> QED
  BY <1>2, <1>5, <1>6 DEF F

\* Two children of a node have no key in common.
LEMMA ChildrenApart ==
    ASSUME NEW W, NEW h, Tree(W, h), NEW Lo, NEW Hi, Ordered(W, Lo, Hi), NEW i \in DOMAIN W,
           NEW p \in DOMAIN W[i].children, NEW q \in DOMAIN W[i].children, NEW k \in Int,
           Within(k, W[i].children[p], Lo, Hi), Within(k, W[i].children[q], Lo, Hi)
    PROVE  p = q
<1> DEFINE F == Row(W[i], Lo, Hi)
           n == Len(W[i].values) + 1
           x == p - 1
           y == q - 1
<1>1. n \in Nat /\ Rising(F, n) /\ p \in 1 .. n /\ q \in 1 .. n
  BY RowFacts
<1>2. Between(k, F[p - 1], F[p]) /\ Between(k, F[q - 1], F[q])
  BY ChildSpan
<1> HIDE DEF F, n
<1>3. /\ x \in 0 .. n - 1 /\ y \in 0 .. n - 1 /\ x + 1 = p /\ y + 1 = q
      /\ Between(k, F[x], F[x + 1]) /\ Between(k, F[y], F[y + 1])
  BY <1>1, <1>2
<1>4. x = y
  <2> HIDE DEF x, y
  <2> QED
    BY <1>1, <1>3, BetweenOnce
<1> QED
  BY <1>3, <1>4

\* Two nodes of one level have no key in common.
LEMMA OneSpan ==
    ASSUME NEW W, NEW h, Tree(W, h), NEW Lo, NEW Hi, Ordered(W, Lo, Hi), NEW k \in Int,
           NEW i \in DOMAIN W, NEW j \in DOMAIN W, h[i] = h[j],
           Within(k, i, Lo, Hi), Within(k, j, Lo, Hi)
    PROVE  i = j
<1> DEFINE Apart(d) == \A x, y \in DOMAIN W :
              h[x] + d = h[rootId] /\ h[y] = h[x] /\ Within(k, x, Lo, Hi) /\ Within(k, y, Lo, Hi) => x = y
           S == {d \in Nat : Apart(d)}
<1>1. /\ rootId \in DOMAIN W /\ \A x \in DOMAIN W : h[x] \in Nat
      /\ \A x \in DOMAIN W \ {rootId} : \E v \in DOMAIN W : \E p \in DOMAIN W[v].children :
                 W[v].children[p] = x /\ h[v] = h[x] + 1
  BY TreeParts
<1>2. \A x \in DOMAIN W \ {rootId} : h[x] < h[rootId]
  BY RootOnTop
<1>3. 0 \in S
  BY <1>1, <1>2
<1>4. ASSUME NEW d \in Nat, d \in S PROVE d + 1 \in S
  <2>1. SUFFICES ASSUME NEW x \in DOMAIN W, NEW y \in DOMAIN W, h[x] + (d + 1) = h[rootId],
                        h[y] = h[x], Within(k, x, Lo, Hi), Within(k, y, Lo, Hi)
                 PROVE  x = y
    BY <1>4
  <2>2. x \in DOMAIN W \ {rootId} /\ y \in DOMAIN W \ {rootId} /\ h[x] \in Nat /\ h[y] \in Nat
    BY <1>1, <2>1
  <2>3. PICK v \in DOMAIN W : \E p \in DOMAIN W[v].children : W[v].children[p] = x /\ h[v] = h[x] + 1
    BY <1>1, <2>2
  <2>4. PICK p \in DOMAIN W[v].children : W[v].children[p] = x /\ h[v] = h[x] + 1
    BY <2>3
  <2>5. PICK w \in DOMAIN W : \E q \in DOMAIN W[w].children : W[w].children[q] = y /\ h[w] = h[y] + 1
    BY <1>1, <2>2
  <2>6. PICK q \in DOMAIN W[w].children : W[w].children[q] = y /\ h[w] = h[y] + 1
    BY <2>5
  <2>7. Within(k, v, Lo, Hi) /\ Within(k, w, Lo, Hi)
    BY <2>1, <2>4, <2>6, ChildSpan
  <2>8. h[v] + d = h[rootId] /\ h[w] = h[v]
    BY <2>1, <2>2, <2>4, <2>6
  <2>9. v = w
    BY <1>4, <2>7, <2>8
  <2>10. p = q
    BY <2>1, <2>4, <2>6, <2>9, ChildrenApart
  <2> QED
    BY <2>4, <2>6, <2>9, <2>10
<1>5. Nat \subseteq S
  <2> HIDE DEF S
  <2> QED
    BY <1>3, <1>4, SetInduction
<1> DEFINE e == h[rootId] - h[i]
<1>6. e \in Nat /\ h[i] + e = h[rootId]
  BY <1>1, <1>2
<1>7. Apart(e)
  BY <1>5, <1>6
<1> QED
  BY <1>6, <1>7

\* Every node lies under one of each higher level, which spans it.
LEMMA AncestorSpan ==
    ASSUME NEW W, NEW h, Tree(W, h), NEW Lo, NEW Hi, Ordered(W, Lo, Hi), NEW k \in Int,
           NEW j \in DOMAIN W, Within(k, j, Lo, Hi), NEW l \in Nat, h[j] <= l, l <= h[rootId]
    PROVE  \E i \in DOMAIN W : h[i] = l /\ Within(k, i, Lo, Hi)
<1> DEFINE Under(d) == h[j] + d <= h[rootId] =>
              \E i \in DOMAIN W : h[i] = h[j] + d /\ Within(k, i, Lo, Hi)
           S == {d \in Nat : Under(d)}
<1>1. /\ rootId \in DOMAIN W /\ \A x \in DOMAIN W : h[x] \in Nat
      /\ \A x \in DOMAIN W \ {rootId} : \E v \in DOMAIN W : \E p \in DOMAIN W[v].children :
                 W[v].children[p] = x /\ h[v] = h[x] + 1
  BY TreeParts
<1>2. 0 \in S
  BY <1>1
<1>3. ASSUME NEW d \in Nat, d \in S PROVE d + 1 \in S
  <2>1. SUFFICES ASSUME h[j] + (d + 1) <= h[rootId]
                 PROVE  \E i \in DOMAIN W : h[i] = h[j] + (d + 1) /\ Within(k, i, Lo, Hi)
    BY <1>3
  <2>2. h[j] \in Nat /\ h[rootId] \in Nat
    BY <1>1
  <2>3. PICK x \in DOMAIN W : h[x] = h[j] + d /\ Within(k, x, Lo, Hi)
    BY <1>3, <2>1, <2>2
  <2>4. x # rootId
    BY <2>1, <2>2, <2>3
  <2>5. PICK v \in DOMAIN W : \E p \in DOMAIN W[v].children : W[v].children[p] = x /\ h[v] = h[x] + 1
    BY <1>1, <2>4
  <2>6. PICK p \in DOMAIN W[v].children : W[v].children[p] = x /\ h[v] = h[x] + 1
    BY <2>5
  <2>7. Within(k, v, Lo, Hi)
    BY <2>3, <2>6, ChildSpan
  <2>8. h[v] = h[j] + (d + 1)
    BY <2>2, <2>3, <2>6
  <2> QED
    BY <2>7, <2>8
<1>4. Nat \subseteq S
  <2> HIDE DEF S
  <2> QED
    BY <1>2, <1>3, SetInduction
<1> DEFINE e == l - h[j]
<1>5. e \in Nat /\ h[j] + e = l
  BY <1>1
<1>6. Under(e)
  BY <1>4, <1>5
<1> QED
  BY <1>5, <1>6

\* The keys of a node are within it.
LEMMA HeldWithin ==
    ASSUME NEW W, NEW h, Tree(W, h), NEW Lo, NEW Hi, Ordered(W, Lo, Hi),
           NEW i \in DOMAIN W, NEW k, Holds(W[i], k)
    PROVE  k \in Int /\ Within(k, i, Lo, Hi)
<1> DEFINE F == Row(W[i], Lo, Hi)
           n == Len(W[i].values) + 1
<1>1. /\ n \in Nat /\ Rising(F, n) /\ F[0] = Lo[i] /\ F[n] = Hi[i]
      /\ \A m \in 1 .. n - 1 : F[m] = {W[i].values[m].First}
      /\ DOMAIN W[i].values = 1 .. n - 1
  BY RowFacts
<1> HIDE DEF F, n
<1>2. PICK m \in 1 .. n - 1 : F[m] = {k}
  BY <1>1 DEF Holds
<1>3. k \in Int /\ Between(k, F[0], F[n])
  BY <1>1, <1>2, InnerBetween
<1> QED
  BY <1>1, <1>3 DEF Within

\* A key that a node holds is within no other node of its level or a lower one.
LEMMA KeyHere ==
    ASSUME NEW W, NEW h, Tree(W, h), NEW Lo, NEW Hi, Ordered(W, Lo, Hi),
           NEW i \in DOMAIN W, NEW k, Holds(W[i], k),
           NEW j \in DOMAIN W, h[j] <= h[i], Within(k, j, Lo, Hi)
    PROVE  j = i
<1>1. k \in Int /\ Within(k, i, Lo, Hi)
  BY HeldWithin
<1>2. h[i] \in Nat /\ h[j] \in Nat /\ h[rootId] \in Nat /\ h[i] <= h[rootId]
  <2>1. h[i] \in Nat /\ h[j] \in Nat /\ h[rootId] \in Nat
    BY TreeParts
  <2>2. i # rootId => h[i] < h[rootId]
    BY RootOnTop
  <2> QED
    BY <2>1, <2>2
<1>3. CASE h[j] = h[i]
  BY <1>1, <1>3, OneSpan
<1>4. CASE h[j] < h[i]
  <2> DEFINE l == h[i] - 1
  <2>1. l \in Nat /\ h[j] <= l /\ l <= h[rootId] /\ l + 1 = h[i]
    BY <1>2, <1>4
  <2> HIDE DEF l
  <2>2. PICK x \in DOMAIN W : h[x] = l /\ Within(k, x, Lo, Hi)
    BY <1>1, <2>1, AncestorSpan
  <2>3. x # rootId
    BY <1>2, <2>1, <2>2
  <2>4. PICK v \in DOMAIN W : \E p \in DOMAIN W[v].children : W[v].children[p] = x /\ h[v] = h[x] + 1
    BY <2>3, TreeParts
  <2>5. PICK p \in DOMAIN W[v].children : W[v].children[p] = x /\ h[v] = h[x] + 1
    BY <2>4
  <2>6. Within(k, v, Lo, Hi) /\ ~Holds(W[v], k)
    BY <1>1, <2>2, <2>5, ChildSpan
  <2>7. v = i
    BY <1>1, <2>1, <2>2, <2>5, <2>6, OneSpan
  <2> QED
    BY <2>6, <2>7
<1> QED
  BY <1>2, <1>3, <1>4

\* No key twice.
KeysOnce(W) ==
    \A i, j \in DOMAIN W : \A m \in DOMAIN W[i].values : \A n \in DOMAIN W[j].values :
        W[i].values[m].First = W[j].values[n].First => i = j /\ m = n

LEMMA TreeKeysOnce ==
    ASSUME NEW W, NEW h, Tree(W, h), NEW Lo, NEW Hi, Ordered(W, Lo, Hi)
    PROVE  KeysOnce(W)
<1>1. SUFFICES ASSUME NEW i \in DOMAIN W, NEW j \in DOMAIN W,
                      NEW m \in DOMAIN W[i].values, NEW n \in DOMAIN W[j].values,
                      W[i].values[m].First = W[j].values[n].First
               PROVE  i = j /\ m = n
  BY DEF KeysOnce
<1> DEFINE k == W[i].values[m].First
<1>2. Holds(W[i], k) /\ Holds(W[j], k)
  BY <1>1 DEF Holds
<1> HIDE DEF k
<1>3. Within(k, i, Lo, Hi) /\ Within(k, j, Lo, Hi)
  BY <1>2, HeldWithin
<1>4. h[i] \in Nat /\ h[j] \in Nat
  BY TreeParts
<1>5. i = j
  <2>1. CASE h[i] <= h[j]
    BY <1>2, <1>3, <2>1, KeyHere
  <2>2. CASE h[j] <= h[i]
    BY <1>2, <1>3, <2>2, KeyHere
  <2> QED
    BY <1>4, <2>1, <2>2
<1>6. m = n
  <2> DEFINE F == Row(W[i], Lo, Hi)
             l == Len(W[i].values) + 1
  <2>1. /\ l \in Nat /\ Rising(F, l) /\ DOMAIN W[i].values = 1 .. l - 1
        /\ \A x \in 1 .. l - 1 : F[x] = {W[i].values[x].First}
    BY RowFacts
  <2> HIDE DEF F, l
  <2>2. /\ m \in 1 .. l - 1 /\ n \in 1 .. l - 1 /\ m \in 0 .. l /\ n \in 0 .. l
        /\ F[m] = {k} /\ F[n] = {k}
    BY <1>1, <1>5, <2>1 DEF k
  <2>3. k \in F[m] /\ k \in F[n]
    BY <2>2
  <2>4. k \in Int
    BY <2>1, <2>2, <2>3 DEF Rising
  <2>5. \A p, q \in 0 .. l : p < q => \A x \in F[p], y \in F[q] : x < y
    BY <2>1 DEF Rising
  <2>6. ~(k < k)
    BY <2>4
  <2>7. ~(m < n) /\ ~(n < m)
    BY <2>2, <2>3, <2>5, <2>6
  <2> QED
    BY <2>2, <2>7
<1> QED
  BY <1>5, <1>6

\* What bounds a node is a key of the tree.
LEMMA BoundsHeld ==
    ASSUME NEW W, NEW h, Tree(W, h), NEW Lo, NEW Hi, Ordered(W, Lo, Hi),
           NEW i \in DOMAIN W, NEW x \in Lo[i] \cup Hi[i]
    PROVE  \E j \in DOMAIN W : Holds(W[j], x)
<1> DEFINE Kept(d) == \A y \in DOMAIN W : h[y] + d = h[rootId] =>
              \A e \in Lo[y] \cup Hi[y] : \E j \in DOMAIN W : Holds(W[j], e)
           S == {d \in Nat : Kept(d)}
<1>1. /\ rootId \in DOMAIN W /\ \A y \in DOMAIN W : h[y] \in Nat
      /\ \A y \in DOMAIN W \ {rootId} : \E v \in DOMAIN W : \E p \in DOMAIN W[v].children :
                 W[v].children[p] = y /\ h[v] = h[y] + 1
  BY TreeParts
<1>2. \A y \in DOMAIN W \ {rootId} : h[y] < h[rootId]
  BY RootOnTop
<1>3. 0 \in S
  <2>1. \A y \in DOMAIN W : h[y] + 0 = h[rootId] => y = rootId
    BY <1>1, <1>2
  <2> QED
    BY <2>1 DEF Ordered
<1>4. ASSUME NEW d \in Nat, d \in S PROVE d + 1 \in S
  <2>1. SUFFICES ASSUME NEW y \in DOMAIN W, h[y] + (d + 1) = h[rootId], NEW e \in Lo[y] \cup Hi[y]
                 PROVE  \E j \in DOMAIN W : Holds(W[j], e)
    BY <1>4
  <2>2. y # rootId /\ h[y] \in Nat
    BY <1>1, <2>1
  <2>3. PICK v \in DOMAIN W : \E p \in DOMAIN W[v].children : W[v].children[p] = y /\ h[v] = h[y] + 1
    BY <1>1, <2>2
  <2>4. PICK p \in DOMAIN W[v].children : W[v].children[p] = y /\ h[v] = h[y] + 1
    BY <2>3
  <2> DEFINE F == Row(W[v], Lo, Hi)
             l == Len(W[v].values) + 1
  <2>5. /\ l \in Nat /\ DOMAIN W[v].values = 1 .. l - 1 /\ F[0] = Lo[v] /\ F[l] = Hi[v]
        /\ \A q \in 1 .. l - 1 : F[q] = {W[v].values[q].First}
        /\ p \in 1 .. l /\ Lo[y] = F[p - 1] /\ Hi[y] = F[p]
    BY <2>4, RowFacts
  <2> HIDE DEF F, l
  <2>6. ASSUME NEW q \in 0 .. l, e \in F[q] PROVE \E j \in DOMAIN W : Holds(W[j], e)
    <3>1. CASE q \in 1 .. l - 1
      <4>1. Holds(W[v], e)
        BY <2>5, <2>6, <3>1 DEF Holds
      <4> QED
        BY <4>1
    <3>2. CASE q = 0 \/ q = l
      <4>1. e \in Lo[v] \cup Hi[v]
        BY <2>5, <2>6, <3>2
      <4>2. h[v] + d = h[rootId]
        BY <1>1, <2>1, <2>2, <2>4
      <4> QED
        BY <1>4, <4>1, <4>2
    <3> QED
      BY <2>5, <3>1, <3>2
  <2>7. p \in 0 .. l /\ p - 1 \in 0 .. l
    BY <2>5
  <2> QED
    BY <2>1, <2>5, <2>6, <2>7
<1>5. Nat \subseteq S
  <2> HIDE DEF S
  <2> QED
    BY <1>3, <1>4, SetInduction
<1> DEFINE z == h[rootId] - h[i]
<1>6. z \in Nat /\ h[i] + z = h[rootId]
  BY <1>1, <1>2
<1>7. Kept(z)
  BY <1>5, <1>6
<1> QED
  BY <1>6, <1>7

\* What a row stands on.
LEMMA RowHeld ==
    ASSUME NEW W, NEW h, Tree(W, h), NEW Lo, NEW Hi, Ordered(W, Lo, Hi),
           NEW i \in DOMAIN W, NEW p \in 0 .. Len(W[i].values) + 1, NEW x \in Row(W[i], Lo, Hi)[p]
    PROVE  \E j \in DOMAIN W : Holds(W[j], x)
<1> DEFINE F == Row(W[i], Lo, Hi)
           l == Len(W[i].values) + 1
<1>1. /\ l \in Nat /\ DOMAIN W[i].values = 1 .. l - 1 /\ F[0] = Lo[i] /\ F[l] = Hi[i]
      /\ \A q \in 1 .. l - 1 : F[q] = {W[i].values[q].First}
      /\ p \in 0 .. l /\ x \in F[p]
  BY RowFacts
<1> HIDE DEF F, l
<1>2. CASE p \in 1 .. l - 1
  <2>1. Holds(W[i], x)
    BY <1>1, <1>2 DEF Holds
  <2> QED
    BY <2>1
<1>3. CASE p = 0 \/ p = l
  <2>1. x \in Lo[i] \cup Hi[i]
    BY <1>1, <1>3
  <2> QED
    BY <2>1, BoundsHeld
<1> QED
  BY <1>1, <1>2, <1>3

-----------------------------------------------------------------------------
(* The children of a node whose row changes.                               *)

\* The bounds of c stay.
Keeps(c, Lo, Hi, Lo2, Hi2) == Lo2[c] = Lo[c] /\ Hi2[c] = Hi[c]
KeepsAll(C, Lo, Hi, Lo2, Hi2) == \A c \in C : Keeps(c, Lo, Hi, Lo2, Hi2)

\* The bounds of the children at the positions that are not in P stay.
KeepsBut(C, P, Lo, Hi, Lo2, Hi2) == \A p \in DOMAIN C \ P : Keeps(C[p], Lo, Hi, Lo2, Hi2)
Bounds(Lo, Hi, x, low, high) == Lo[x] = low /\ Hi[x] = high

LEMMA HungSame ==
    ASSUME NEW C, NEW F, NEW Lo, NEW Hi, Hung(C, F, Lo, Hi), NEW Lo2, NEW Hi2, NEW G,
           \A p \in DOMAIN C : /\ G[p - 1] = F[p - 1] /\ G[p] = F[p]
                               /\ Keeps(C[p], Lo, Hi, Lo2, Hi2)
    PROVE  Hung(C, G, Lo2, Hi2)
BY DEF Hung, Keeps

LEMMA HungPart ==
    ASSUME NEW S, NEW C \in Seq(S), NEW F, NEW Lo, NEW Hi, Hung(C, F, Lo, Hi), NEW Lo2, NEW Hi2,
           NEW m \in Nat, NEW K \in Seq(S), Part(K, C, m), NEW l \in Nat, Len(K) <= l,
           KeepsAll(Range(K), Lo, Hi, Lo2, Hi2), NEW G, Shifted(G, F, m, l)
    PROVE  Hung(K, G, Lo2, Hi2)
<1>0. DOMAIN K = 1 .. Len(K)
  OBVIOUS
<1>1. SUFFICES ASSUME NEW p \in 1 .. Len(K) PROVE Lo2[K[p]] = G[p - 1] /\ Hi2[K[p]] = G[p]
  BY <1>0 DEF Hung
<1>2. m + p \in DOMAIN C /\ p \in 0 .. l /\ p - 1 \in 0 .. l /\ m + p - 1 = p - 1 + m /\ m + p = p + m
  BY DEF Part
<1>3. Lo[C[m + p]] = F[m + p - 1] /\ Hi[C[m + p]] = F[m + p]
  BY <1>2 DEF Hung
<1>4. Lo2[K[p]] = Lo[C[m + p]] /\ Hi2[K[p]] = Hi[C[m + p]]
  BY <1>0 DEF Keeps, KeepsAll, Part, Range
<1>5. G[p - 1] = F[p - 1 + m] /\ G[p] = F[p + m]
  BY <1>2 DEF Shifted
<1> QED
  BY <1>2, <1>3, <1>4, <1>5

LEMMA HungJoin ==
    ASSUME NEW S, NEW C \in Seq(S), NEW D \in Seq(S), NEW F, NEW G, NEW Lo, NEW Hi,
           Hung(C, F, Lo, Hi), Hung(D, G, Lo, Hi), NEW m \in Nat, NEW n \in Nat,
           (Len(C) = m /\ Len(D) <= n) \/ (C = <<>> /\ D = <<>>), F[m] = G[0],
           NEW J, Joint(J, F, G, m, n),
           NEW Lo2, NEW Hi2, KeepsAll(Range(C) \cup Range(D), Lo, Hi, Lo2, Hi2)
    PROVE  Hung(C \o D, J, Lo2, Hi2)
<1> USE DEF Joint, KeepsAll
<1>1. CASE C = <<>> /\ D = <<>>
  BY <1>1 DEF Hung
<1>2. CASE Len(C) = m /\ Len(D) <= n
  <2> DEFINE K == C \o D
  <2>1. /\ K \in Seq(S) /\ Len(K) = m + Len(D)
        /\ \A i \in 1 .. m + Len(D) : K[i] = IF i <= m THEN C[i] ELSE D[i - m]
    <3>1. /\ K \in Seq(S) /\ Len(K) = Len(C) + Len(D)
          /\ \A i \in 1 .. Len(C) + Len(D) : K[i] = IF i <= Len(C) THEN C[i] ELSE D[i - Len(C)]
      BY JoinedAt
    <3> HIDE DEF K
    <3> QED
      BY <1>2, <3>1
  <2> HIDE DEF K
  <2>2. ASSUME NEW p \in DOMAIN K PROVE Lo2[K[p]] = J[p - 1] /\ Hi2[K[p]] = J[p]
    <3>1. p \in 1 .. m + Len(D) /\ p \in 0 .. m + n /\ p - 1 \in 0 .. m + n /\ Len(D) \in Nat
      BY <1>2, <2>1
    <3>2. CASE p <= m
      <4>1. p \in DOMAIN C /\ K[p] = C[p] /\ p - 1 <= m
        BY <1>2, <2>1, <3>1, <3>2
      <4>2. Lo2[C[p]] = F[p - 1] /\ Hi2[C[p]] = F[p]
        BY <4>1 DEF Hung, Keeps, Range
      <4>3. J[p - 1] = F[p - 1] /\ J[p] = F[p]
        BY <3>1, <3>2, <4>1
      <4> QED
        BY <4>1, <4>2, <4>3
    <3>3. CASE ~(p <= m)
      <4> DEFINE q == p - m
      <4>1. q \in DOMAIN D /\ K[p] = D[q]
        BY <2>1, <3>1, <3>3
      <4>2. Lo2[D[q]] = G[q - 1] /\ Hi2[D[q]] = G[q]
        <5> HIDE DEF q
        <5> QED
          BY <4>1 DEF Hung, Keeps, Range
      <4>3. J[p] = G[q]
        BY <3>1, <3>3
      <4>4. J[p - 1] = G[q - 1]
        <5>1. CASE p = m + 1
          <6>1. p - 1 = m /\ q - 1 = 0 /\ p - 1 <= m
            BY <5>1
          <6> QED
            BY <3>1, <6>1
        <5>2. CASE p # m + 1
          <6>1. ~(p - 1 <= m) /\ p - 1 - m = q - 1
            BY <3>1, <3>3, <5>2
          <6> QED
            BY <3>1, <6>1
        <5> QED
          BY <5>1, <5>2
      <4> QED
        BY <4>1, <4>2, <4>3, <4>4
    <3> QED
      BY <3>2, <3>3
  <2> QED
    BY <2>2 DEF Hung, K
<1> QED
  BY <1>1, <1>2

\* One more fence, and y before the child at q + 1.
LEMMA HungInsert ==
    ASSUME NEW S, NEW C \in Seq(S), NEW F, NEW Lo, NEW Hi, Hung(C, F, Lo, Hi), NEW Lo2, NEW Hi2,
           NEW q \in Nat, q + 1 \in DOMAIN C, NEW y, NEW K \in Seq(S), Inserts(K, C, y, q),
           NEW k, NEW l \in Nat, Len(C) <= l,
           NEW G, Widened(G, F, k, q, l), KeepsBut(C, {q + 1}, Lo, Hi, Lo2, Hi2),
           NEW x, x = C[q + 1], Bounds(Lo2, Hi2, x, k, Hi[x]), Bounds(Lo2, Hi2, y, Lo[x], k)
    PROVE  Hung(K, G, Lo2, Hi2)
<1>a. /\ \A p \in 0 .. l + 1 : G[p] = IF p <= q THEN F[p] ELSE IF p = q + 1 THEN k ELSE F[p - 1]
      /\ \A p \in DOMAIN C : p # q + 1 => Keeps(C[p], Lo, Hi, Lo2, Hi2)
      /\ Lo2[x] = k /\ Hi2[x] = Hi[x] /\ Lo2[y] = Lo[x] /\ Hi2[y] = k
  BY DEF Widened, KeepsBut, Bounds
<1> USE <1>a
<1>1. SUFFICES ASSUME NEW p \in DOMAIN K PROVE Lo2[K[p]] = G[p - 1] /\ Hi2[K[p]] = G[p]
  BY DEF Hung
<1>2. /\ Len(C) \in Nat /\ p \in 1 .. Len(C) + 1 /\ p \in 0 .. l + 1 /\ p - 1 \in 0 .. l + 1
      /\ K[p] = IF p <= q THEN C[p] ELSE IF p = q + 1 THEN y ELSE C[p - 1]
  BY DEF Inserts
<1>3. \A r \in DOMAIN C : Lo[C[r]] = F[r - 1] /\ Hi[C[r]] = F[r]
  BY DEF Hung
<1>4. CASE p <= q
  <2>1. p \in DOMAIN C /\ p # q + 1 /\ p - 1 <= q /\ K[p] = C[p]
    BY <1>2, <1>4
  <2>2. G[p] = F[p] /\ G[p - 1] = F[p - 1]
    BY <1>2, <1>4, <2>1
  <2> QED
    BY <1>3, <2>1, <2>2 DEF Keeps
<1>5. CASE p = q + 1
  <2>1. K[p] = y /\ p - 1 = q /\ ~(p <= q) /\ q <= q /\ p - 1 <= q
    BY <1>2, <1>5
  <2>2. G[p] = k /\ G[p - 1] = F[p - 1]
    BY <1>2, <1>5, <2>1
  <2>3. Lo[x] = F[q]
    <3>1. q + 1 - 1 = q
      OBVIOUS
    <3> QED
      BY <1>3, <3>1
  <2> QED
    BY <2>1, <2>2, <2>3
<1>6. CASE p = q + 2
  <2>1. K[p] = x /\ ~(p <= q) /\ p # q + 1 /\ p - 1 = q + 1 /\ ~(p - 1 <= q)
    BY <1>2, <1>6
  <2>2. G[p] = F[p - 1] /\ G[p - 1] = k
    BY <1>2, <2>1
  <2>3. Hi[x] = F[q + 1]
    BY <1>3
  <2> QED
    BY <2>1, <2>2, <2>3
<1>7. CASE p > q + 2
  <2> DEFINE r == p - 1
  <2>4. ~(p <= q) /\ p # q + 1 /\ ~(r <= q) /\ r # q + 1 /\ r \in 1 .. Len(C)
    BY <1>2, <1>7
  <2>1. K[p] = C[r] /\ r \in DOMAIN C /\ r # q + 1 /\ ~(p <= q) /\ p # q + 1 /\ ~(r <= q)
    BY <1>2, <2>4
  <2>2. G[p] = F[r] /\ G[p - 1] = F[r - 1]
    BY <1>2, <2>1
  <2>3. Lo2[C[r]] = F[r - 1] /\ Hi2[C[r]] = F[r]
    <3> HIDE DEF r
    <3> QED
      BY <1>3, <2>1 DEF Keeps
  <2> QED
    BY <2>1, <2>2, <2>3
<1> QED
  BY <1>2, <1>4, <1>5, <1>6, <1>7

\* A place is at most q, or the one behind it, or further back.
LEMMA Beside ==
    ASSUME NEW p \in Int, NEW q \in Int
    PROVE  p <= q \/ p = q + 1 \/ p > q + 1
OBVIOUS

\* One fence less: the child before it reaches to the next one, and the child behind
\* it is gone.
LEMMA HungDrop ==
    ASSUME NEW S, NEW C \in Seq(S), NEW F, NEW Lo, NEW Hi, Hung(C, F, Lo, Hi), NEW Lo2, NEW Hi2,
           NEW q \in Nat, q + 2 \in DOMAIN C, NEW K \in Seq(S), Drops(K, C, q + 1),
           NEW l \in Nat, Len(C) <= l + 1,
           NEW G, Narrowed(G, F, q, l), KeepsBut(C, {q + 1, q + 2}, Lo, Hi, Lo2, Hi2),
           NEW x, x = C[q + 1], NEW y, y = C[q + 2], Bounds(Lo2, Hi2, x, Lo[x], Hi[y])
    PROVE  Hung(K, G, Lo2, Hi2)
<1>a. /\ \A p \in 0 .. l : G[p] = IF p <= q THEN F[p] ELSE F[p + 1]
      /\ \A p \in DOMAIN C : p # q + 1 /\ p # q + 2 => Keeps(C[p], Lo, Hi, Lo2, Hi2)
      /\ Lo2[x] = Lo[x] /\ Hi2[x] = Hi[C[q + 2]]
  BY DEF Narrowed, KeepsBut, Bounds
<1> USE <1>a
<1>1. SUFFICES ASSUME NEW p \in DOMAIN K PROVE Lo2[K[p]] = G[p - 1] /\ Hi2[K[p]] = G[p]
  BY DEF Hung
<1>0. Len(C) \in Nat /\ Len(K) = Len(C) - 1 /\ DOMAIN K = 1 .. Len(K)
  BY DEF Drops
<1>2. /\ Len(C) \in Nat /\ p \in 1 .. Len(C) - 1 /\ p \in 0 .. l /\ p - 1 \in 0 .. l
      /\ K[p] = IF p <= q + 1 THEN C[p] ELSE C[p + 1]
  <2>1. p \in 1 .. Len(C) - 1
    BY <1>0
  <2>2. p \in 0 .. l /\ p - 1 \in 0 .. l
    BY <1>0, <2>1
  <2> QED
    BY <1>0, <2>1, <2>2 DEF Drops
<1>3. \A r \in DOMAIN C : Lo[C[r]] = F[r - 1] /\ Hi[C[r]] = F[r]
  BY DEF Hung
<1>4. CASE p <= q
  <2>1. p \in DOMAIN C /\ p # q + 1 /\ p # q + 2 /\ p - 1 <= q /\ p <= q + 1 /\ K[p] = C[p]
    BY <1>2, <1>4
  <2>2. G[p] = F[p] /\ G[p - 1] = F[p - 1]
    BY <1>2, <1>4, <2>1
  <2> QED
    BY <1>3, <2>1, <2>2 DEF Keeps
<1>5. CASE p = q + 1
  <2>1. K[p] = x /\ p - 1 <= q /\ ~(p <= q) /\ p + 1 = q + 2 /\ p \in DOMAIN C
    BY <1>2, <1>5
  <2>2. G[p] = F[p + 1] /\ G[p - 1] = F[p - 1]
    BY <1>2, <2>1
  <2>3. Lo[x] = F[p - 1] /\ Hi[C[q + 2]] = F[q + 2]
    BY <1>3, <1>5, <2>1
  <2> QED
    BY <2>1, <2>2, <2>3
<1>6. CASE p > q + 1
  <2> DEFINE r == p + 1
  <2>0. K[p] = C[r] /\ p \in 1 .. Len(C) - 1 /\ Len(C) \in Nat
    <3>1. ~(p <= q + 1)
      BY <1>2, <1>6
    <3> QED
      BY <1>2, <3>1
  <2>1. K[p] = C[r] /\ r \in DOMAIN C /\ r # q + 1 /\ r # q + 2 /\ ~(p <= q) /\ ~(p - 1 <= q)
        /\ p - 1 + 1 = r - 1
    <3>1. /\ r \in 1 .. Len(C) /\ r # q + 1 /\ r # q + 2 /\ ~(p <= q) /\ ~(p - 1 <= q)
          /\ p - 1 + 1 = r - 1
      <4>1. PICK d \in Nat : d = Len(C)
        BY <2>0
      <4>2. p \in 1 .. d - 1
        BY <2>0, <4>1
      <4> HIDE <1>a
      <4>3. r \in 1 .. d
        BY <4>1, <4>2
      <4>4. r # q + 1 /\ r # q + 2 /\ ~(p <= q) /\ ~(p - 1 <= q) /\ p - 1 + 1 = r - 1
        BY <4>2, <1>6
      <4> QED
        BY <4>1, <4>3, <4>4
    <3> QED
      BY <2>0, <3>1
  <2>2. G[p] = F[r] /\ G[p - 1] = F[p - 1 + 1]
    BY <1>2, <2>1
  <2>3. Lo2[C[r]] = F[r - 1] /\ Hi2[C[r]] = F[r]
    <3> HIDE DEF r
    <3> QED
      BY <1>3, <2>1 DEF Keeps
  <2> HIDE DEF r
  <2> QED
    BY <2>1, <2>2, <2>3
<1>7. p <= q \/ p = q + 1 \/ p > q + 1
  <2>1. p \in Int /\ q \in Int
    BY <1>2
  <2> QED
    BY <2>1, Beside, Zenon
<1> QED
  BY <1>4, <1>5, <1>6, <1>7

\* The fence between the children at q + 1 and q + 2 moves.
LEMMA HungMove ==
    ASSUME NEW S, NEW C \in Seq(S), NEW F, NEW Lo, NEW Hi, Hung(C, F, Lo, Hi), NEW Lo2, NEW Hi2,
           NEW q \in Nat, q + 2 \in DOMAIN C, NEW k, NEW l \in Nat, Len(C) <= l,
           NEW G, Moved(G, F, k, q, l), KeepsBut(C, {q + 1, q + 2}, Lo, Hi, Lo2, Hi2),
           NEW x, x = C[q + 1], NEW y, y = C[q + 2],
           Bounds(Lo2, Hi2, x, Lo[x], k), Bounds(Lo2, Hi2, y, k, Hi[y])
    PROVE  Hung(C, G, Lo2, Hi2)
<1>a. /\ \A p \in 0 .. l : G[p] = IF p = q + 1 THEN k ELSE F[p]
      /\ \A p \in DOMAIN C : p # q + 1 /\ p # q + 2 => Keeps(C[p], Lo, Hi, Lo2, Hi2)
      /\ Lo2[x] = Lo[x] /\ Hi2[x] = k /\ Lo2[y] = k /\ Hi2[y] = Hi[y]
  BY DEF Moved, KeepsBut, Bounds
<1> USE <1>a
<1>1. SUFFICES ASSUME NEW p \in DOMAIN C PROVE Lo2[C[p]] = G[p - 1] /\ Hi2[C[p]] = G[p]
  BY DEF Hung
<1>2. /\ Len(C) \in Nat /\ p \in 1 .. Len(C) /\ p \in 0 .. l /\ p - 1 \in 0 .. l
      /\ Lo[C[p]] = F[p - 1] /\ Hi[C[p]] = F[p]
  BY DEF Hung
<1>3. CASE p = q + 1
  <2>1. G[p] = k /\ G[p - 1] = F[p - 1]
    BY <1>2, <1>3
  <2> QED
    BY <1>2, <1>3, <2>1
<1>4. CASE p = q + 2
  <2>1. p - 1 = q + 1 /\ p # q + 1
    BY <1>4
  <2>2. G[p - 1] = k /\ G[p] = F[p]
    BY <1>2, <2>1
  <2> QED
    BY <1>2, <1>4, <2>2
<1>5. CASE p # q + 1 /\ p # q + 2
  <2>1. p - 1 # q + 1
    BY <1>2, <1>5
  <2>2. G[p - 1] = F[p - 1] /\ G[p] = F[p]
    BY <1>2, <1>5, <2>1
  <2> QED
    BY <1>2, <1>5, <2>2 DEF Keeps
<1> QED
  BY <1>3, <1>4, <1>5

-----------------------------------------------------------------------------
(* Nodes that are joined and cut.                                          *)

\* K is a part of C, from behind position m.
Cuts(K, C, m) == K = <<>> \/ Part(K, C, m)

\* z and K are cut into v and C, the tuple t, and w and D.
CutInto(z, K, v, C, t, w, D) ==
    /\ JoinsAround(z, v, t, w)
    /\ Cuts(C, K, 0) /\ Len(C) <= Len(v) + 1
    /\ Cuts(D, K, Len(v) + 1) /\ Len(D) <= Len(w) + 1

\* Values v and children C that could be those of a node between low and high.
RowStands(v, C, low, high, Lo, Hi) ==
    InOrder(v, low, high) /\ Hung(C, Fences(v, low, high), Lo, Hi)

LEMMA StandsInOrder ==
    ASSUME NEW n, NEW Lo, NEW Hi
    PROVE  NodeInOrder(n, Lo, Hi) <=> RowStands(n.values, n.children, Lo[n.id], Hi[n.id], Lo, Hi)
BY DEF NodeInOrder, Row, RowStands

LEMMA CutKey ==
    ASSUME NEW z \in Seq(Tuple), NEW low, NEW high, InOrder(z, low, high),
           NEW v \in Seq(Tuple), NEW w \in Seq(Tuple), NEW t \in Tuple, JoinsAround(z, v, t, w)
    PROVE  t.First \in Int /\ Between(t.First, low, high)
<1> DEFINE F == Fences(z, low, high)
           l == Len(z) + 1
           x == Len(v)
           y == Len(w)
           m == x + 1
<1>1. x \in Nat /\ y \in Nat /\ m = x + 1 /\ x = Len(v) /\ y = Len(w)
  OBVIOUS
<1> HIDE DEF x, y, m
<1>2. Len(z) = x + 1 + y
  BY <1>1 DEF JoinsAround
<1>3. m \in 1 .. Len(z) /\ m \in 1 .. l - 1 /\ l \in Nat /\ ~(m <= Len(v)) /\ m = Len(v) + 1
  BY <1>1, <1>2
<1>4. z[m] = t
  BY <1>3 DEF JoinsAround
<1>5. \A p \in 1 .. Len(z) : F[p] = {z[p].First}
  BY FencesAt
<1>6. F[m] = {t.First} /\ F[0] = low /\ F[l] = high
  BY <1>3, <1>4, <1>5, FencesAt
<1>7. Rising(F, l)
  BY DEF InOrder
<1> HIDE DEF F, l
<1> QED
  BY <1>3, <1>6, <1>7, InnerBetween

LEMMA CutRows ==
    ASSUME NEW z \in Seq(Tuple), NEW S, NEW K \in Seq(S), NEW low, NEW high, NEW Lo, NEW Hi,
           RowStands(z, K, low, high, Lo, Hi),
           NEW v \in Seq(Tuple), NEW w \in Seq(Tuple), NEW t \in Tuple,
           NEW C \in Seq(S), NEW D \in Seq(S), CutInto(z, K, v, C, t, w, D),
           NEW Lo2, NEW Hi2, KeepsAll(Range(C) \cup Range(D), Lo, Hi, Lo2, Hi2)
    PROVE  RowStands(v, C, low, {t.First}, Lo2, Hi2) /\ RowStands(w, D, {t.First}, high, Lo2, Hi2)
<1> DEFINE k == {t.First}
<1>k. k = {t.First}
  OBVIOUS
<1> HIDE DEF k
<1> DEFINE F == Fences(z, low, high)
           G == Fences(v, low, k)
           H == Fences(w, k, high)
           x == Len(v)
           y == Len(w)
           m == x + 1
<1>0. m = x + 1 /\ m \in Nat /\ x \in Nat /\ y \in Nat /\ x = Len(v) /\ y = Len(w)
      /\ JoinsAround(z, v, t, w)
      /\ Cuts(C, K, 0) /\ Len(C) <= m /\ Cuts(D, K, m) /\ Len(D) <= y + 1
  BY DEF CutInto
<1>a. InOrder(z, low, high) /\ Hung(K, F, Lo, Hi)
  BY DEF RowStands
<1> HIDE DEF x, y, m
<1>1. /\ Len(z) = m + y
      /\ \A i \in 1 .. x : v[i] = z[0 + i]
      /\ \A i \in 1 .. y : w[i] = z[m + i]
      /\ z[m] = t
  <2>1. /\ Len(z) = m + y
        /\ \A i \in 1 .. Len(z) : z[i] = IF i <= x THEN v[i] ELSE IF i = m THEN t ELSE w[i - x - 1]
    <3>1. Len(z) = Len(v) + 1 + Len(w)
      BY <1>0 DEF JoinsAround
    <3>2. \A i \in 1 .. Len(z) :
            z[i] = IF i <= Len(v) THEN v[i] ELSE IF i = Len(v) + 1 THEN t ELSE w[i - Len(v) - 1]
      BY <1>0 DEF JoinsAround
    <3>3. x = Len(v) /\ m = Len(v) + 1 /\ Len(z) = m + y
      BY <1>0, <3>1
    <3> QED
      BY <3>2, <3>3
  <2>2. ASSUME NEW i \in 1 .. x PROVE v[i] = z[0 + i]
    <3>1. i \in 1 .. Len(z) /\ i <= x /\ 0 + i = i
      BY <1>0, <2>1
    <3> QED
      BY <2>1, <3>1
  <2>3. ASSUME NEW i \in 1 .. y PROVE w[i] = z[m + i]
    <3> DEFINE j == m + i
    <3>1. j \in 1 .. Len(z) /\ ~(j <= x) /\ j # m /\ j - x - 1 = i
      BY <1>0, <2>1
    <3> HIDE DEF j
    <3>2. z[j] = w[j - x - 1]
      BY <2>1, <3>1
    <3> QED
      BY <3>1, <3>2 DEF j
  <2>4. m \in 1 .. Len(z) /\ ~(m <= x)
    BY <1>0, <2>1
  <2>5. z[m] = t
    BY <2>1, <2>4
  <2> QED
    BY <2>1, <2>2, <2>3, <2>5
<1>2. F[m] = k /\ F[0] = low /\ F[Len(z) + 1] = high /\ t.First \in Int
  <2>1. m \in 1 .. Len(z)
    BY <1>0, <1>1
  <2>2. F[m] = {z[m].First}
    <3>1. \A p \in 1 .. Len(z) : F[p] = {z[p].First}
      BY FencesAt
    <3> QED
      BY <2>1, <3>1
  <2>5. F[m] = {t.First}
    BY <1>1, <2>2
  <2>3. F[0] = low /\ F[Len(z) + 1] = high
    BY FencesAt
  <2>4. t.First \in Int
    BY KeyOfTuple
  <2> QED
    BY <2>3, <2>4, <2>5 DEF k
<1> DEFINE n == 0
<1>3. n \in Nat /\ n + Len(v) <= Len(z) /\ n + Len(v) + 1 = m /\ m + Len(w) <= Len(z)
      /\ m + Len(w) + 1 = Len(z) + 1
  <2>1. Len(z) = m + y
    BY <1>1
  <2>2. x = Len(v) /\ y = Len(w) /\ m = x + 1 /\ x \in Nat /\ y \in Nat
    BY <1>0
  <2>3. n + x <= m + y /\ n + x + 1 = m /\ m + y <= m + y /\ m + y + 1 = m + y + 1
    BY <2>2
  <2> QED
    BY <2>1, <2>2, <2>3
<1> USE <1>a
<1>4. InOrder(v, low, k) /\ Shifted(G, F, n, m)
  <2>1. low = F[n] /\ k = F[n + Len(v) + 1] /\ Part(v, z, n) /\ m = Len(v) + 1
    BY <1>0, <1>1, <1>2, <1>3 DEF Part
  <2> HIDE DEF n
  <2>2. InOrder(v, low, k) /\ Shifted(G, F, n, Len(v) + 1)
    BY <1>3, <2>1, FencesPart
  <2> QED
    BY <2>1, <2>2
<1>5. InOrder(w, k, high) /\ Shifted(H, F, m, y + 1)
  <2>1. k = F[m] /\ high = F[m + Len(w) + 1] /\ Part(w, z, m)
    <3>1. \A i \in 1 .. Len(w) : w[i] = z[m + i]
      BY <1>0, <1>1
    <3> QED
      BY <1>2, <1>3, <3>1 DEF Part
  <2> HIDE DEF n
  <2>2. InOrder(w, k, high) /\ Shifted(H, F, m, Len(w) + 1)
    BY <1>0, <1>3, <2>1, FencesPart
  <2> QED
    BY <1>0, <2>2
<1>6. KeepsAll(Range(C), Lo, Hi, Lo2, Hi2) /\ KeepsAll(Range(D), Lo, Hi, Lo2, Hi2)
  BY DEF KeepsAll
<1>7. Hung(K, F, Lo, Hi)
  BY <1>a
<1>8. Hung(C, G, Lo2, Hi2)
  <2>1. CASE C = <<>>
    BY <2>1 DEF Hung
  <2>2. CASE Part(C, K, 0)
    <3>1. m \in Nat /\ Len(C) <= m /\ Shifted(G, F, n, m)
      BY <1>0, <1>4
    <3>2. Part(C, K, n)
      BY <2>2
    <3> HIDE DEF F, G, n
    <3> QED
      BY <1>3, <1>6, <1>7, <3>2, <3>1, HungPart
  <2> QED
    BY <1>0, <2>1, <2>2 DEF Cuts
<1>9. Hung(D, H, Lo2, Hi2)
  <2>1. CASE D = <<>>
    BY <2>1 DEF Hung
  <2>2. CASE Part(D, K, m)
    <3> DEFINE l == y + 1
    <3>1. l \in Nat /\ Len(D) <= l /\ Shifted(H, F, m, l)
      BY <1>0, <1>5
    <3> HIDE DEF F, H, n, l
    <3> QED
      BY <1>0, <1>6, <1>7, <2>2, <3>1, HungPart
  <2> QED
    BY <1>0, <2>1, <2>2 DEF Cuts
<1> QED
  BY <1>2, <1>4, <1>5, <1>8, <1>9 DEF RowStands, k

LEMMA CutRow ==
    ASSUME NEW z \in Seq(Tuple), NEW S, NEW K \in Seq(S), NEW low, NEW high, NEW Lo, NEW Hi,
           RowStands(z, K, low, high, Lo, Hi),
           NEW l \in Node, NEW r \in Node, l.children \in Seq(S), r.children \in Seq(S),
           NEW t \in Tuple, CutInto(z, K, l.values, l.children, t, r.values, r.children),
           NEW Lo2, NEW Hi2, KeepsAll(Range(l.children) \cup Range(r.children), Lo, Hi, Lo2, Hi2),
           Bounds(Lo2, Hi2, l.id, low, Key(t)), Bounds(Lo2, Hi2, r.id, Key(t), high)
    PROVE  NodeInOrder(l, Lo2, Hi2) /\ NodeInOrder(r, Lo2, Hi2)
<1> DEFINE v == l.values
           w == r.values
           C == l.children
           D == r.children
<1>1. v \in Seq(Tuple) /\ w \in Seq(Tuple) /\ C \in Seq(S) /\ D \in Seq(S)
  BY NodeParts
<1>2. /\ CutInto(z, K, v, C, t, w, D)
      /\ KeepsAll(Range(C) \cup Range(D), Lo, Hi, Lo2, Hi2)
      /\ RowStands(z, K, low, high, Lo, Hi)
  OBVIOUS
<1>3. Lo2[l.id] = low /\ Hi2[l.id] = {t.First} /\ Lo2[r.id] = {t.First} /\ Hi2[r.id] = high
  BY DEF Bounds, Key
<1> HIDE DEF v, w, C, D
<1>4. RowStands(v, C, low, {t.First}, Lo2, Hi2) /\ RowStands(w, D, {t.First}, high, Lo2, Hi2)
  <2>1. RowStands(v, C, low, {t.First}, Lo2, Hi2)
    BY <1>1, <1>2, CutRows
  <2>2. RowStands(w, D, {t.First}, high, Lo2, Hi2)
    BY <1>1, <1>2, CutRows
  <2> QED
    BY <2>1, <2>2
<1>5. /\ RowStands(l.values, l.children, Lo2[l.id], Hi2[l.id], Lo2, Hi2)
      /\ RowStands(r.values, r.children, Lo2[r.id], Hi2[r.id], Lo2, Hi2)
  BY <1>3, <1>4 DEF v, w, C, D
<1> QED
  BY <1>4, <1>5, StandsInOrder

\* Both nodes have children or none has.
Paired(v, C, w, D) ==
    (Len(C) = Len(v) + 1 /\ Len(D) = Len(w) + 1) \/ (C = <<>> /\ D = <<>>)

LEMMA JoinRows ==
    ASSUME NEW v \in Seq(Tuple), NEW w \in Seq(Tuple), NEW t \in Tuple, NEW z \in Seq(Tuple),
           JoinsAround(z, v, t, w), NEW low, NEW high, NEW k, k = {t.First},
           NEW S, NEW C \in Seq(S), NEW D \in Seq(S), Paired(v, C, w, D),
           NEW Lo, NEW Hi, RowStands(v, C, low, k, Lo, Hi), RowStands(w, D, k, high, Lo, Hi),
           NEW Lo2, NEW Hi2, KeepsAll(Range(C) \cup Range(D), Lo, Hi, Lo2, Hi2)
    PROVE  RowStands(z, C \o D, low, high, Lo2, Hi2)
<1> DEFINE F == Fences(v, low, k)
           G == Fences(w, k, high)
           J == Fences(z, low, high)
           m == Len(v) + 1
           n == Len(w) + 1
<1>0. /\ InOrder(v, low, k) /\ InOrder(w, k, high)
      /\ Hung(C, F, Lo, Hi) /\ Hung(D, G, Lo, Hi)
  BY DEF RowStands
<1>1. /\ m \in Nat /\ n \in Nat /\ Len(z) + 1 = m + n
      /\ ((Len(C) = m /\ Len(D) <= n) \/ (C = <<>> /\ D = <<>>))
  BY DEF JoinsAround, Paired
<1>2. /\ InOrder(z, low, high)
      /\ \A p \in 0 .. Len(z) + 1 :
            J[p] = IF p <= Len(v) + 1 THEN F[p] ELSE G[p - Len(v) - 1]
  BY <1>0, FencesJoin
<1>3. F[m] = G[0]
  BY FencesAt
<1>4. Joint(J, F, G, m, n)
  <2>1. \A p \in 0 .. m + n : p \in 0 .. Len(z) + 1 /\ p - Len(v) - 1 = p - m
    BY <1>1
  <2> HIDE DEF F, G, J
  <2> QED
    BY <1>2, <2>1 DEF Joint
<1>6. Hung(C \o D, J, Lo2, Hi2)
  <2> HIDE DEF F, G, J, m, n
  <2> QED
    BY <1>0, <1>1, <1>3, <1>4, HungJoin
<1> QED
  BY <1>2, <1>6 DEF RowStands

LEMMA JoinRow ==
    ASSUME NEW l \in Node, NEW r \in Node, Shaped(l), Shaped(r), l.leaf = r.leaf, NEW t \in Tuple,
           NEW Lo, NEW Hi, NodeInOrder(l, Lo, Hi), NodeInOrder(r, Lo, Hi),
           Hi[l.id] = Key(t), Lo[r.id] = Key(t),
           NEW z \in Seq(Tuple), JoinsAround(z, l.values, t, r.values),
           NEW Lo2, NEW Hi2,
           KeepsAll(Range(l.children) \cup Range(r.children), Lo, Hi, Lo2, Hi2)
    PROVE  /\ RowStands(z, l.children \o r.children, Lo[l.id], Hi[r.id], Lo2, Hi2)
           /\ l.children \o r.children \in Seq(Ids \ {rootId})
           /\ IF l.leaf THEN l.children \o r.children = <<>>
              ELSE Len(l.children \o r.children) = Len(z) + 1
<1> DEFINE v == l.values
           w == r.values
           C == l.children
           D == r.children
           k == {t.First}
           low == Lo[l.id]
           high == Hi[r.id]
           S == Ids \ {rootId}
<1>1. /\ v \in Seq(Tuple) /\ w \in Seq(Tuple) /\ C \in Seq(S) /\ D \in Seq(S) /\ l.leaf \in BOOLEAN
  BY NodeParts
<1>2. RowStands(v, C, low, k, Lo, Hi) /\ RowStands(w, D, k, high, Lo, Hi)
  BY StandsInOrder DEF Key
<1>3. IF l.leaf THEN C = <<>> /\ D = <<>> ELSE Len(C) = Len(v) + 1 /\ Len(D) = Len(w) + 1
  BY <1>1 DEF Shaped
<1>4. /\ k = {t.First} /\ JoinsAround(z, v, t, w)
      /\ KeepsAll(Range(C) \cup Range(D), Lo, Hi, Lo2, Hi2)
  OBVIOUS
<1>5. Len(z) = Len(v) + 1 + Len(w) /\ Len(v) \in Nat /\ Len(w) \in Nat
  <2>1. Len(v) \in Nat /\ Len(w) \in Nat
    BY <1>1
  <2> HIDE DEF v, w
  <2> QED
    BY <1>4, <2>1 DEF JoinsAround
<1> HIDE DEF v, w, C, D, k, low, high, S
<1>6. Paired(v, C, w, D)
  BY <1>1, <1>3 DEF Paired
<1>7. RowStands(z, C \o D, low, high, Lo2, Hi2)
  BY <1>1, <1>2, <1>4, <1>6, JoinRows
<1>8. C \o D \in Seq(S) /\ IF l.leaf THEN C \o D = <<>> ELSE Len(C \o D) = Len(z) + 1
  <2>1. C \o D \in Seq(S) /\ Len(C \o D) = Len(C) + Len(D)
    BY <1>1, Joined
  <2>2. CASE l.leaf
    <3>1. C \o D = <<>>
      BY <1>3, <2>2
    <3> QED
      BY <2>1, <2>2, <3>1
  <2>3. CASE ~l.leaf
    <3> DEFINE lenV == Len(v)
               lenW == Len(w)
    <3>1. lenV \in Nat /\ lenW \in Nat /\ Len(z) = lenV + 1 + lenW /\ Len(C) = lenV + 1 /\ Len(D) = lenW + 1
      BY <1>3, <1>5, <2>3
    <3> HIDE DEF lenV, lenW
    <3>2. Len(C \o D) = Len(z) + 1
      BY <2>1, <3>1
    <3> QED
      BY <2>1, <2>3, <3>2
  <2> QED
    BY <1>1, <2>1, <2>2, <2>3
<1> QED
  BY <1>7, <1>8 DEF C, D, low, high, S

\* A row where one of the children is cut in two, ...
LEMMA InsertRow ==
    ASSUME NEW w \in Seq(Tuple), NEW S, NEW C \in Seq(S), NEW low, NEW high, NEW Lo, NEW Hi,
           RowStands(w, C, low, high, Lo, Hi), Len(C) <= Len(w) + 1,
           NEW q \in Nat, q + 1 \in DOMAIN C, NEW x, x = C[q + 1],
           NEW e \in Tuple, Between(e.First, Lo[x], Hi[x]),
           NEW z \in Seq(Tuple), Inserts(z, w, e, q), NEW y, NEW K \in Seq(S), Inserts(K, C, y, q),
           NEW Lo2, NEW Hi2, KeepsBut(C, {q + 1}, Lo, Hi, Lo2, Hi2),
           Bounds(Lo2, Hi2, x, Key(e), Hi[x]), Bounds(Lo2, Hi2, y, Lo[x], Key(e))
    PROVE  RowStands(z, K, low, high, Lo2, Hi2)
<1> DEFINE F == Fences(w, low, high)
           G == Fences(z, low, high)
           l == Len(w) + 1
           k == Key(e)
<1>1. /\ InOrder(w, low, high) /\ Hung(C, F, Lo, Hi)
      /\ Len(w) \in Nat /\ Len(C) \in Nat /\ l \in Nat /\ Len(C) <= l /\ q \in 0 .. Len(w)
  BY DEF RowStands
<1>2. Lo[x] = F[q] /\ Hi[x] = F[q + 1]
  <2>1. q + 1 - 1 = q
    OBVIOUS
  <2> QED
    BY <1>1, <2>1 DEF Hung
<1>3. Between(e.First, F[q], F[q + 1])
  BY <1>2
<1>4. InOrder(z, low, high) /\ Widened(G, F, k, q, l)
  BY <1>1, <1>3, FencesInsert
<1>7. Bounds(Lo2, Hi2, x, k, Hi[x]) /\ Bounds(Lo2, Hi2, y, Lo[x], k)
  OBVIOUS
<1>8. Hung(K, G, Lo2, Hi2)
  <2> HIDE DEF F, G, k, l
  <2> QED
    BY <1>1, <1>4, <1>7, HungInsert
<1> QED
  BY <1>4, <1>8 DEF RowStands

\* ... one where the children behind the first q become one, ...
LEMMA DropRow ==
    ASSUME NEW w \in Seq(Tuple), NEW S, NEW C \in Seq(S), NEW low, NEW high, NEW Lo, NEW Hi,
           RowStands(w, C, low, high, Lo, Hi), Len(C) <= Len(w) + 1,
           NEW q \in Nat, q + 2 \in DOMAIN C, NEW x, x = C[q + 1], NEW y, y = C[q + 2],
           NEW z \in Seq(Tuple), Drops(z, w, q), NEW K \in Seq(S), Drops(K, C, q + 1),
           NEW Lo2, NEW Hi2, KeepsBut(C, {q + 1, q + 2}, Lo, Hi, Lo2, Hi2),
           Bounds(Lo2, Hi2, x, Lo[x], Hi[y])
    PROVE  RowStands(z, K, low, high, Lo2, Hi2)
<1> DEFINE F == Fences(w, low, high)
           G == Fences(z, low, high)
           l == Len(w)
<1>1. /\ InOrder(w, low, high) /\ Hung(C, F, Lo, Hi)
      /\ Len(C) \in Nat /\ l \in Nat /\ Len(C) <= l + 1 /\ q < Len(w)
  BY DEF RowStands
<1>2. InOrder(z, low, high) /\ Narrowed(G, F, q, l)
  BY <1>1, FencesDrop
<1>5. Hung(K, G, Lo2, Hi2)
  <2> HIDE DEF F, G, l
  <2> QED
    BY <1>1, <1>2, HungDrop
<1> QED
  BY <1>2, <1>5 DEF RowStands

\* ... and one where the fence between them moves.
LEMMA MoveRow ==
    ASSUME NEW w \in Seq(Tuple), NEW S, NEW C \in Seq(S), NEW low, NEW high, NEW Lo, NEW Hi,
           RowStands(w, C, low, high, Lo, Hi), Len(C) <= Len(w) + 1,
           NEW q \in Nat, q + 2 \in DOMAIN C, NEW x, x = C[q + 1], NEW y, y = C[q + 2],
           NEW e \in Tuple, Between(e.First, Lo[x], Hi[y]),
           NEW Lo2, NEW Hi2, KeepsBut(C, {q + 1, q + 2}, Lo, Hi, Lo2, Hi2),
           Bounds(Lo2, Hi2, x, Lo[x], Key(e)), Bounds(Lo2, Hi2, y, Key(e), Hi[y])
    PROVE  RowStands(swap(w, q, e), C, low, high, Lo2, Hi2)
<1> DEFINE F == Fences(w, low, high)
           z == swap(w, q, e)
           G == Fences(z, low, high)
           l == Len(w) + 1
           k == Key(e)
<1>1. /\ InOrder(w, low, high) /\ Hung(C, F, Lo, Hi)
      /\ Len(w) \in Nat /\ Len(C) \in Nat /\ l \in Nat /\ Len(C) <= l /\ q < Len(w)
  BY DEF RowStands
<1>2. Lo[x] = F[q] /\ Hi[y] = F[q + 2]
  <2>1. q + 1 - 1 = q /\ q + 1 \in DOMAIN C
    BY <1>1
  <2> QED
    BY <1>1, <2>1 DEF Hung
<1>3. Between(e.First, F[q], F[q + 2])
  BY <1>2
<1>4. InOrder(z, low, high) /\ Moved(G, F, k, q, l)
  BY <1>1, <1>3, FencesMove
<1>7. Bounds(Lo2, Hi2, x, Lo[x], k) /\ Bounds(Lo2, Hi2, y, k, Hi[y])
  OBVIOUS
<1>8. Hung(C, G, Lo2, Hi2)
  <2> HIDE DEF F, G, k, l
  <2> QED
    BY <1>1, <1>4, <1>7, HungMove
<1> QED
  BY <1>4, <1>8 DEF RowStands

-----------------------------------------------------------------------------
(* Search trees that change.                                               *)

SearchTree(W, h, weak, Lo, Hi) == Typed(W) /\ Balanced(W, h, weak) /\ Ordered(W, Lo, Hi)

\* The nodes of S may change, and the bounds of those of B.
Elsewhere(W, U, S, B) ==
    /\ \A j \in DOMAIN U \ S : j \in DOMAIN W /\ j \notin B /\ U[j] = W[j]
                               /\ Range(W[j].children) \cap B = {}
    /\ rootId \notin B
Apart(B, Lo, Hi, Lo2, Hi2) == \A i \in Ids \ B : Keeps(i, Lo, Hi, Lo2, Hi2)

LEMMA OrderedElse ==
    ASSUME NEW W, NEW Lo, NEW Hi, Typed(W), Ordered(W, Lo, Hi), NEW U, NEW S, NEW B,
           Elsewhere(W, U, S, B), NEW Lo2, NEW Hi2, Apart(B, Lo, Hi, Lo2, Hi2), rootId \in Ids,
           \A j \in DOMAIN U \cap S : NodeInOrder(U[j], Lo2, Hi2)
    PROVE  Ordered(U, Lo2, Hi2)
<1>1. Lo2[rootId] = {} /\ Hi2[rootId] = {}
  <2>1. Keeps(rootId, Lo, Hi, Lo2, Hi2)
    BY DEF Elsewhere, Apart
  <2> QED
    BY <2>1 DEF Keeps, Ordered
<1>2. ASSUME NEW j \in DOMAIN U \ S PROVE NodeInOrder(U[j], Lo2, Hi2)
  <2> DEFINE n == W[j]
             C == n.children
             F == Row(n, Lo, Hi)
  <2>1. j \in DOMAIN W /\ j \notin B /\ U[j] = n /\ Range(C) \cap B = {}
    BY DEF Elsewhere
  <2>2. n \in Node /\ n.id = j /\ j \in Ids /\ C \in Seq(Ids \ {rootId})
    BY <2>1, TypedNode
  <2>3. Keeps(j, Lo, Hi, Lo2, Hi2)
    BY <2>1, <2>2 DEF Apart
  <2>4. Row(n, Lo2, Hi2) = F /\ Lo2[n.id] = Lo[n.id] /\ Hi2[n.id] = Hi[n.id]
    BY <2>2, <2>3 DEF Keeps, Row
  <2>5. NodeInOrder(n, Lo, Hi)
    BY <2>1 DEF Ordered
  <2>6. ASSUME NEW p \in DOMAIN C PROVE Keeps(C[p], Lo, Hi, Lo2, Hi2)
    <3> HIDE DEF C
    <3>1. C[p] \in Range(C) /\ C[p] \in Ids \ {rootId}
      BY <2>2 DEF Range
    <3> QED
      BY <2>1, <3>1 DEF Apart
  <2>7. Hung(C, F, Lo, Hi)
    BY <2>5 DEF NodeInOrder
  <2>8. Hung(C, F, Lo2, Hi2)
    <3> HIDE DEF C, F
    <3> QED
      BY <2>6, <2>7, HungSame
  <2>9. NodeInOrder(n, Lo2, Hi2)
    BY <2>4, <2>5, <2>8 DEF NodeInOrder
  <2> QED
    BY <2>1, <2>9
<1> QED
  BY <1>1, <1>2 DEF Ordered

\* A node is the child of one node, and not of itself.
LEMMA OneParent ==
    ASSUME NEW W, NEW h, NEW weak, Typed(W), Balanced(W, h, weak), NEW v \in DOMAIN W,
           NEW x \in Range(W[v].children)
    PROVE  /\ x # v /\ x # rootId /\ x \in DOMAIN W
           /\ \A j \in DOMAIN W : x \in Range(W[j].children) => j = v
           /\ \A c \in Range(W[x].children) : c # x /\ c # v
<1>1. x \in DOMAIN W \ {rootId} /\ h[v] = h[x] + 1
  BY ChildFacts
<1>2. \A i \in DOMAIN W : h[i] \in Nat
  BY Heights
<1>3. \A c \in Range(W[x].children) : c \in DOMAIN W /\ h[x] = h[c] + 1
  BY <1>1, ChildFacts
<1>4. \A j \in DOMAIN W : x \in Range(W[j].children) => j = v
  BY DEF Balanced, Linked, ChildSets
<1>5. x # v /\ x # rootId /\ x \in DOMAIN W
  BY <1>1, <1>2
<1>6. ASSUME NEW c \in Range(W[x].children) PROVE c # x /\ c # v
  <2>1. c \in DOMAIN W /\ h[x] = h[c] + 1 /\ h[c] \in Nat /\ h[v] = h[x] + 1
    BY <1>1, <1>2, <1>3
  <2> QED
    BY <2>1
<1> QED
  BY <1>4, <1>5, <1>6

\* The bounds of a child, and what they are between.
LEMMA ChildBounds ==
    ASSUME NEW W, Typed(W), NEW Lo, NEW Hi, Ordered(W, Lo, Hi), NEW v \in DOMAIN W,
           NEW q \in Nat, q + 1 \in DOMAIN W[v].children, NEW x, x = W[v].children[q + 1]
    PROVE  Lo[x] = Row(W[v], Lo, Hi)[q] /\ Hi[x] = Row(W[v], Lo, Hi)[q + 1]
<1>1. NodeInOrder(W[v], Lo, Hi) /\ q + 1 - 1 = q
  BY DEF Ordered
<1> QED
  BY <1>1 DEF NodeInOrder, Hung

\* The middle of a child is between the keys beside that child.
LEMMA SplitPlace ==
    ASSUME NEW W, Typed(W), NEW Lo, NEW Hi, Ordered(W, Lo, Hi), NEW v \in DOMAIN W,
           NEW q \in Nat, q + 1 \in DOMAIN W[v].children, NEW x, x = W[v].children[q + 1],
           x \in DOMAIN W, NEW l \in Seq(Tuple), NEW r \in Seq(Tuple), NEW t \in Tuple,
           JoinsAround(W[x].values, l, t, r)
    PROVE  /\ t.First \in Int /\ Between(t.First, Lo[x], Hi[x])
           /\ Between(t.First, Row(W[v], Lo, Hi)[q], Row(W[v], Lo, Hi)[q + 1])
<1>1. Lo[x] = Row(W[v], Lo, Hi)[q] /\ Hi[x] = Row(W[v], Lo, Hi)[q + 1]
  <2>1. NodeInOrder(W[v], Lo, Hi) /\ q + 1 - 1 = q
    BY DEF Ordered
  <2> QED
    BY <2>1 DEF NodeInOrder, Hung
<1>2. InOrder(W[x].values, Lo[W[x].id], Hi[W[x].id])
  BY DEF Ordered, NodeInOrder
<1>3. W[x].id = x /\ W[x].values \in Seq(Tuple)
  BY TypedNode
<1>4. t.First \in Int /\ Between(t.First, Lo[x], Hi[x])
  BY <1>2, <1>3, CutKey
<1> QED
  BY <1>1, <1>4

\* What a node changes into stands in order.
LEMMA StandsAs ==
    ASSUME NEW n, NEW Lo, NEW Hi, NEW low, NEW high, Bounds(Lo, Hi, n.id, low, high),
           RowStands(n.values, n.children, low, high, Lo, Hi)
    PROVE  NodeInOrder(n, Lo, Hi)
BY StandsInOrder DEF Bounds

LEMMA StandsWhere ==
    ASSUME NEW W, Typed(W), NEW Lo, NEW Hi, Ordered(W, Lo, Hi), NEW x \in DOMAIN W
    PROVE  RowStands(W[x].values, W[x].children, Lo[x], Hi[x], Lo, Hi)
<1>1. NodeInOrder(W[x], Lo, Hi) /\ W[x].id = x
  BY TypedNode DEF Ordered
<1> QED
  BY <1>1, StandsInOrder

LEMMA ChildrenIds == ASSUME NEW C \in Seq(Ids \ {rootId}) PROVE Range(C) \subseteq Ids
BY DEF Range

\* The bounds of a child change, and of none of the other children, ...
LEMMA SiblingsKeep ==
    ASSUME NEW S, NEW C \in Seq(S), S \subseteq Ids, IsInjective(C), NEW P,
           NEW B, \A p \in DOMAIN C \ P : C[p] \notin B, NEW Lo, NEW Hi, NEW Lo2, NEW Hi2,
           Apart(B, Lo, Hi, Lo2, Hi2)
    PROVE  KeepsBut(C, P, Lo, Hi, Lo2, Hi2)
<1>1. ASSUME NEW p \in DOMAIN C \ P PROVE Keeps(C[p], Lo, Hi, Lo2, Hi2)
  <2>1. C[p] \in Ids \ B
    OBVIOUS
  <2> QED
    BY <2>1 DEF Apart
<1> QED
  BY <1>1 DEF KeepsBut

\* ... nor those of its own children.
LEMMA OwnKeep ==
    ASSUME NEW C, C \subseteq Ids, NEW B, C \cap B = {}, NEW Lo, NEW Hi, NEW Lo2, NEW Hi2,
           Apart(B, Lo, Hi, Lo2, Hi2)
    PROVE  KeepsAll(C, Lo, Hi, Lo2, Hi2)
BY DEF Apart, KeepsAll

\* x, the child of v behind the first q, is cut in two; the lower half is y.
LEMMA SplitOrder ==
    ASSUME NEW W, NEW h, NEW weak, NEW Lo, NEW Hi, SearchTree(W, h, weak, Lo, Hi),
           NEW v \in DOMAIN W, NEW q \in Nat, q + 1 \in DOMAIN W[v].children,
           Len(W[v].children) <= Len(W[v].values) + 1,
           NEW x, x = W[v].children[q + 1], NEW y \in Ids, y \notin DOMAIN W, y # rootId,
           NEW U, Typed(U), SplitInto(W, U, x, v, y), NEW t \in Tuple,
           CutInto(W[x].values, W[x].children, U[y].values, U[y].children, t,
                   U[x].values, U[x].children),
           Inserts(U[v].values, W[v].values, t, q), Inserts(U[v].children, W[v].children, y, q),
           Range(U[x].children) \cup Range(U[y].children) \subseteq Range(W[x].children)
    PROVE  \E Lo2, Hi2 : Ordered(U, Lo2, Hi2)
<1> DEFINE k == Key(t)
           Lo2 == [i \in Ids |-> IF i = x THEN k ELSE IF i = y THEN Lo[x] ELSE Lo[i]]
           Hi2 == [i \in Ids |-> IF i = y THEN k ELSE Hi[i]]
           C == W[v].children
           S == Ids \ {rootId}
           B == {x, y}
<1>0. Typed(W) /\ Balanced(W, h, weak) /\ Ordered(W, Lo, Hi)
  BY DEF SearchTree
<1>1. /\ W[v] \in Node /\ W[v].id = v /\ v \in Ids
      /\ C \in Seq(S) /\ W[v].values \in Seq(Tuple) /\ x \in Range(C)
  BY <1>0, TypedNode DEF Range
<1>2. /\ x # v /\ x # rootId /\ x \in DOMAIN W
      /\ \A j \in DOMAIN W : x \in Range(W[j].children) => j = v
      /\ \A c \in Range(W[x].children) : c # x /\ c # v
  BY <1>0, <1>1, OneParent
<1>a. W[x] \in Node /\ W[x].id = x /\ x \in Ids /\ W[x].children \in Seq(S)
      /\ W[x].values \in Seq(Tuple)
  BY <1>0, <1>2, TypedNode
<1>3. y # x /\ y # v
  BY <1>2
<1>4. \A j \in DOMAIN W : y \notin Range(W[j].children)
  BY <1>0, ChildFacts
<1>5. DOMAIN U = DOMAIN W \cup {y} /\ \A j \in DOMAIN W \ {x, v} : U[j] = W[j]
  BY DEF SplitInto
<1>6. /\ U[x] \in Node /\ U[x].id = x /\ U[x].children \in Seq(S) /\ U[x].values \in Seq(Tuple)
      /\ U[y] \in Node /\ U[y].id = y /\ U[y].children \in Seq(S) /\ U[y].values \in Seq(Tuple)
      /\ U[v] \in Node /\ U[v].id = v /\ U[v].children \in Seq(S) /\ U[v].values \in Seq(Tuple)
  <2>1. {x, y, v} \subseteq DOMAIN U
    BY <1>2, <1>5
  <2>2. \A i \in DOMAIN U : U[i] \in Node /\ U[i].id = i /\ U[i].children \in Seq(S)
                           /\ U[i].values \in Seq(Tuple)
    BY TypedNode
  <2> QED
    BY <2>1, <2>2
<1>7. /\ Bounds(Lo2, Hi2, x, Key(t), Hi[x]) /\ Bounds(Lo2, Hi2, y, Lo[x], Key(t))
      /\ Bounds(Lo2, Hi2, v, Lo[v], Hi[v])
  BY <1>1, <1>2, <1>3, <1>a DEF Bounds
<1>8. Apart(B, Lo, Hi, Lo2, Hi2)
  BY DEF Apart, Keeps
<1> HIDE DEF k, Lo2, Hi2
<1>9. NodeInOrder(U[y], Lo2, Hi2) /\ NodeInOrder(U[x], Lo2, Hi2)
  <2>1. RowStands(W[x].values, W[x].children, Lo[x], Hi[x], Lo, Hi)
    BY <1>0, <1>2, StandsWhere
  <2>2. KeepsAll(Range(U[y].children) \cup Range(U[x].children), Lo, Hi, Lo2, Hi2)
    <3> DEFINE T == Range(U[y].children) \cup Range(U[x].children)
    <3>1. T \subseteq Range(W[x].children) /\ Range(W[x].children) \subseteq Ids
      <4>1. Range(W[x].children) \subseteq Ids
        BY <1>a, ChildrenIds
      <4> QED
        BY <4>1
    <3>2. T \cap B = {}
      BY <1>2, <1>4, <3>1
    <3> HIDE DEF T, B
    <3>3. KeepsAll(T, Lo, Hi, Lo2, Hi2)
      BY <1>8, <3>1, <3>2, OwnKeep
    <3> QED
      BY <3>3 DEF T
  <2> DEFINE l == U[y]
             r == U[x]
             z == W[x].values
             K == W[x].children
             low == Lo[x]
             high == Hi[x]
  <2>3. /\ z \in Seq(Tuple) /\ K \in Seq(S) /\ RowStands(z, K, low, high, Lo, Hi)
        /\ l \in Node /\ r \in Node /\ l.children \in Seq(S) /\ r.children \in Seq(S)
        /\ CutInto(z, K, l.values, l.children, t, r.values, r.children)
        /\ KeepsAll(Range(l.children) \cup Range(r.children), Lo, Hi, Lo2, Hi2)
        /\ Bounds(Lo2, Hi2, l.id, low, Key(t)) /\ Bounds(Lo2, Hi2, r.id, Key(t), high)
    BY <1>6, <1>7, <1>a, <2>1, <2>2
  <2> HIDE DEF l, r, z, K, low, high, S
  <2>4. NodeInOrder(l, Lo2, Hi2) /\ NodeInOrder(r, Lo2, Hi2)
    BY <2>3, CutRow
  <2> QED
    BY <2>4 DEF l, r
<1>10. NodeInOrder(U[v], Lo2, Hi2)
  <2> DEFINE w == W[v].values
             z == U[v].values
             K == U[v].children
             low == Lo[v]
             high == Hi[v]
  <2>1. RowStands(w, C, low, high, Lo, Hi)
    BY <1>0, StandsWhere
  <2>2. Between(t.First, Lo[x], Hi[x])
    BY <1>0, <1>2, <1>6, SplitPlace DEF CutInto
  <2>3. KeepsBut(C, {q + 1}, Lo, Hi, Lo2, Hi2)
    <3> DEFINE P == {q + 1}
    <3>1. IsInjective(C)
      BY <1>0 DEF Balanced, NodeOK
    <3>2. \A p \in DOMAIN C : C[p] \in Range(C)
      BY DEF Range
    <3>3. \A p \in DOMAIN C \ P : C[p] \notin B
      BY <1>4, <3>1, <3>2 DEF IsInjective
    <3>4. S \subseteq Ids
      OBVIOUS
    <3> HIDE DEF P, B, C, S
    <3>5. KeepsBut(C, P, Lo, Hi, Lo2, Hi2)
      BY <1>1, <1>8, <3>1, <3>3, <3>4, SiblingsKeep
    <3> QED
      BY <3>5 DEF P
  <2>4. /\ w \in Seq(Tuple) /\ C \in Seq(S) /\ Len(C) <= Len(w) + 1 /\ q + 1 \in DOMAIN C
        /\ x = C[q + 1] /\ z \in Seq(Tuple) /\ K \in Seq(S)
        /\ Inserts(z, w, t, q) /\ Inserts(K, C, y, q)
    BY <1>1, <1>6
  <2>5. RowStands(z, K, low, high, Lo2, Hi2)
    <3> HIDE DEF w, z, K, low, high, C, S
    <3> QED
      BY <1>7, <2>1, <2>2, <2>3, <2>4, InsertRow
  <2> QED
    BY <1>6, <1>7, <2>5, StandsAs
<1>11. Ordered(U, Lo2, Hi2)
  <2> DEFINE T == {x, y, v}
  <2>1. \A j \in DOMAIN U \cap T : NodeInOrder(U[j], Lo2, Hi2)
    BY <1>9, <1>10
  <2>2. Elsewhere(W, U, T, B)
    BY <1>2, <1>4, <1>5 DEF Elsewhere
  <2>3. rootId \in Ids
    BY <1>0 DEF Typed
  <2> HIDE DEF T, B
  <2> QED
    BY <1>0, <1>8, <2>1, <2>2, <2>3, OrderedElse
<1> QED
  BY <1>11

\* Two neighbours meet at the key between them.
LEMMA NeighboursMeet ==
    ASSUME NEW W, Typed(W), NEW Lo, NEW Hi, Ordered(W, Lo, Hi), NEW v \in DOMAIN W,
           Len(W[v].children) <= Len(W[v].values) + 1,
           NEW q \in Nat, q + 2 \in DOMAIN W[v].children,
           NEW x, x = W[v].children[q + 1], NEW y, y = W[v].children[q + 2],
           NEW t, t = W[v].values[q + 1]
    PROVE  t \in Tuple /\ q < Len(W[v].values) /\ Hi[x] = Key(t) /\ Lo[y] = Key(t)
<1> DEFINE C == W[v].children
           w == W[v].values
           F == Fences(w, Lo[v], Hi[v])
<1>1. /\ W[v].id = v /\ C \in Seq(Ids \ {rootId}) /\ w \in Seq(Tuple)
      /\ NodeInOrder(W[v], Lo, Hi)
  BY TypedNode DEF Ordered
<1>2. Hung(C, F, Lo, Hi)
  BY <1>1 DEF NodeInOrder, Row
<1>3. q + 1 \in 1 .. Len(w) /\ q + 1 \in DOMAIN C /\ q + 2 \in DOMAIN C /\ q + 2 - 1 = q + 1
  <2> DEFINE l == Len(C)
             m == Len(w)
  <2>1. l \in Nat /\ m \in Nat /\ q + 2 <= l /\ l <= m + 1 /\ DOMAIN C = 1 .. l
    BY <1>1
  <2> HIDE DEF l, m, C
  <2>2. q + 1 \in 1 .. m /\ q + 1 \in 1 .. l /\ q + 2 \in 1 .. l /\ q + 2 - 1 = q + 1
    BY <2>1
  <2> QED
    BY <2>1, <2>2 DEF m
<1>4. x = C[q + 1] /\ y = C[q + 2] /\ t = w[q + 1]
  OBVIOUS
<1>5. F[q + 1] = {w[q + 1].First}
  BY <1>1, <1>3, FencesAt
<1> HIDE DEF C, F, w
<1>6. Hi[x] = F[q + 1] /\ Lo[y] = F[q + 1]
  BY <1>2, <1>3, <1>4 DEF Hung
<1>7. t \in Tuple /\ q < Len(w)
  BY <1>1, <1>3, <1>4
<1> QED
  BY <1>4, <1>5, <1>6, <1>7 DEF Key, w

\* The same nodes, but for those of S.
Rewrites(W, U, S) == DOMAIN U = DOMAIN W /\ \A j \in DOMAIN W \ S : U[j] = W[j]

\* l and r, with t between them, become m and o with e between them.
Shares(l, r, t, m, o, e) ==
    \E z \in Seq(Tuple) :
        /\ JoinsAround(z, l.values, t, r.values)
        /\ CutInto(z, l.children \o r.children, m.values, m.children, e, o.values, o.children)
        /\ Range(m.children) \cup Range(o.children) \subseteq Range(l.children) \cup Range(r.children)

\* x and y, the children of v behind the first q, share out what they hold.
LEMMA MoveOrder ==
    ASSUME NEW W, NEW h, NEW weak, NEW Lo, NEW Hi, SearchTree(W, h, weak, Lo, Hi),
           NEW v \in DOMAIN W, NEW q \in Nat, q + 2 \in DOMAIN W[v].children,
           Len(W[v].children) <= Len(W[v].values) + 1,
           NEW x, x = W[v].children[q + 1], NEW y, y = W[v].children[q + 2],
           Shaped(W[x]), Shaped(W[y]), W[x].leaf = W[y].leaf,
           NEW t, t = W[v].values[q + 1], NEW e \in Tuple,
           NEW U, Typed(U), Rewrites(W, U, {x, y, v}), Shares(W[x], W[y], t, U[x], U[y], e),
           U[v].values = swap(W[v].values, q, e), U[v].children = W[v].children
    PROVE  \E Lo2, Hi2 : Ordered(U, Lo2, Hi2)
<1> DEFINE Lo2 == [i \in Ids |-> IF i = y THEN Key(e) ELSE Lo[i]]
           Hi2 == [i \in Ids |-> IF i = x THEN Key(e) ELSE Hi[i]]
           C == W[v].children
           S == Ids \ {rootId}
           B == {x, y}
<1>0. Typed(W) /\ Balanced(W, h, weak) /\ Ordered(W, Lo, Hi)
  BY DEF SearchTree
<1>1. /\ W[v] \in Node /\ W[v].id = v /\ v \in Ids
      /\ C \in Seq(S) /\ W[v].values \in Seq(Tuple)
  BY <1>0, TypedNode
<1>b. x \in Range(C) /\ y \in Range(C) /\ q + 1 \in DOMAIN C /\ q + 2 \in DOMAIN C
  BY <1>1 DEF Range
<1>c. IsInjective(C) /\ x # y
  <2>1. IsInjective(C)
    BY <1>0 DEF Balanced, NodeOK
  <2> HIDE DEF C
  <2>2. x = C[q + 1] /\ y = C[q + 2] /\ q + 1 # q + 2
    BY DEF C
  <2> QED
    BY <1>b, <2>1, <2>2 DEF IsInjective
<1>o. \A i \in Range(C) : /\ i # v /\ i # rootId /\ i \in DOMAIN W
                          /\ \A j \in DOMAIN W : i \in Range(W[j].children) => j = v
                          /\ \A c \in Range(W[i].children) : c # i /\ c # v
  <2> SUFFICES ASSUME NEW i \in Range(W[v].children)
               PROVE  /\ i # v /\ i # rootId /\ i \in DOMAIN W
                      /\ \A j \in DOMAIN W : i \in Range(W[j].children) => j = v
                      /\ \A c \in Range(W[i].children) : c # i /\ c # v
    OBVIOUS
  <2> QED
    BY <1>0, OneParent
<1>2. /\ x # v /\ x # rootId /\ x \in DOMAIN W
      /\ \A j \in DOMAIN W : x \in Range(W[j].children) => j = v
      /\ \A c \in Range(W[x].children) : c # x /\ c # v
  <2> HIDE DEF C
  <2> QED
    BY <1>b, <1>o
<1>3. /\ y # v /\ y # rootId /\ y \in DOMAIN W
      /\ \A j \in DOMAIN W : y \in Range(W[j].children) => j = v
      /\ \A c \in Range(W[y].children) : c # y /\ c # v
  <2> HIDE DEF C
  <2> QED
    BY <1>b, <1>o
<1>a. /\ W[x] \in Node /\ W[x].id = x /\ x \in Ids /\ W[x].children \in Seq(S)
      /\ W[x].values \in Seq(Tuple)
      /\ W[y] \in Node /\ W[y].id = y /\ y \in Ids /\ W[y].children \in Seq(S)
      /\ W[y].values \in Seq(Tuple)
  <2>1. /\ W[x] \in Node /\ W[x].id = x /\ x \in Ids /\ W[x].children \in Seq(S)
        /\ W[x].values \in Seq(Tuple)
    <3>1. x \in DOMAIN W
      BY <1>2
    <3> QED
      BY <1>0, <3>1, TypedNode
  <2>2. /\ W[y] \in Node /\ W[y].id = y /\ y \in Ids /\ W[y].children \in Seq(S)
        /\ W[y].values \in Seq(Tuple)
    <3>1. y \in DOMAIN W
      BY <1>3
    <3> QED
      BY <1>0, <3>1, TypedNode
  <2> QED
    BY <2>1, <2>2
<1>4. t \in Tuple /\ Hi[x] = Key(t) /\ Lo[y] = Key(t)
  BY <1>0, NeighboursMeet
<1>5. DOMAIN U = DOMAIN W /\ \A j \in DOMAIN W \ {x, y, v} : U[j] = W[j]
  BY DEF Rewrites
<1>6. /\ U[x] \in Node /\ U[x].id = x /\ U[x].children \in Seq(S) /\ U[x].values \in Seq(Tuple)
      /\ U[y] \in Node /\ U[y].id = y /\ U[y].children \in Seq(S) /\ U[y].values \in Seq(Tuple)
      /\ U[v].id = v
  <2>1. x \in DOMAIN U /\ y \in DOMAIN U /\ v \in DOMAIN U
    BY <1>2, <1>3, <1>5
  <2>2. U[x] \in Node /\ U[x].id = x /\ U[x].children \in Seq(S) /\ U[x].values \in Seq(Tuple)
    BY <2>1, TypedNode
  <2>3. U[y] \in Node /\ U[y].id = y /\ U[y].children \in Seq(S) /\ U[y].values \in Seq(Tuple)
    BY <2>1, TypedNode
  <2>4. U[v].id = v
    BY <2>1, TypedNode
  <2> QED
    BY <2>2, <2>3, <2>4
<1>7. /\ Bounds(Lo2, Hi2, x, Lo[x], Key(e)) /\ Bounds(Lo2, Hi2, y, Key(e), Hi[y])
      /\ Bounds(Lo2, Hi2, v, Lo[v], Hi[v])
  <2>1. Bounds(Lo2, Hi2, x, Lo[x], Key(e))
    BY <1>a, <1>c DEF Bounds
  <2>2. Bounds(Lo2, Hi2, y, Key(e), Hi[y])
    BY <1>a, <1>c DEF Bounds
  <2>3. Bounds(Lo2, Hi2, v, Lo[v], Hi[v])
    BY <1>1, <1>2, <1>3 DEF Bounds
  <2> HIDE DEF Lo2, Hi2
  <2> QED
    BY <2>1, <2>2, <2>3
<1>8. Apart(B, Lo, Hi, Lo2, Hi2)
  BY DEF Apart, Keeps
<1> HIDE DEF Lo2, Hi2
<1> DEFINE K == W[x].children \o W[y].children
           low == Lo[x]
           high == Hi[y]
<1>z. PICK z \in Seq(Tuple) :
         /\ JoinsAround(z, W[x].values, t, W[y].values)
         /\ CutInto(z, K, U[x].values, U[x].children, e, U[y].values, U[y].children)
         /\ Range(U[x].children) \cup Range(U[y].children)
                \subseteq Range(W[x].children) \cup Range(W[y].children)
  BY DEF Shares
<1>9. RowStands(z, K, low, high, Lo, Hi) /\ K \in Seq(S)
  <2> DEFINE l == W[x]
             r == W[y]
  <2>1. NodeInOrder(l, Lo, Hi) /\ NodeInOrder(r, Lo, Hi)
    BY <1>0, <1>2, <1>3 DEF Ordered
  <2>2. KeepsAll(Range(l.children) \cup Range(r.children), Lo, Hi, Lo, Hi)
    BY DEF KeepsAll, Keeps
  <2>3. /\ l \in Node /\ r \in Node /\ l.id = x /\ r.id = y /\ Shaped(l) /\ Shaped(r)
        /\ l.leaf = r.leaf /\ JoinsAround(z, l.values, t, r.values)
    BY <1>a, <1>z
  <2> HIDE DEF l, r
  <2>4. Hi[l.id] = Key(t) /\ Lo[r.id] = Key(t)
    BY <1>4, <2>3
  <2>5. RowStands(z, l.children \o r.children, Lo[l.id], Hi[r.id], Lo, Hi)
    BY <1>4, <2>1, <2>2, <2>3, <2>4, JoinRow
  <2>6. RowStands(z, K, low, high, Lo, Hi)
    BY <2>3, <2>5 DEF l, r
  <2> QED
    BY <1>a, <2>6, Joined
<1>10. NodeInOrder(U[x], Lo2, Hi2) /\ NodeInOrder(U[y], Lo2, Hi2)
  <2>1. KeepsAll(Range(U[x].children) \cup Range(U[y].children), Lo, Hi, Lo2, Hi2)
    <3> DEFINE T == Range(U[x].children) \cup Range(U[y].children)
    <3>1. T \subseteq Ids
      <4>1. Range(U[x].children) \subseteq Ids /\ Range(U[y].children) \subseteq Ids
        BY <1>6, ChildrenIds
      <4> QED
        BY <4>1
    <3>2. T \cap B = {}
      <4>1. x \notin Range(W[x].children) /\ y \notin Range(W[x].children)
        BY <1>2, <1>3
      <4>2. x \notin Range(W[y].children) /\ y \notin Range(W[y].children)
        BY <1>2, <1>3
      <4> QED
        BY <1>z, <4>1, <4>2
    <3> HIDE DEF T, B
    <3>3. KeepsAll(T, Lo, Hi, Lo2, Hi2)
      BY <1>8, <3>1, <3>2, OwnKeep
    <3> QED
      BY <3>3 DEF T
  <2> DEFINE l == U[x]
             r == U[y]
  <2>3. /\ l \in Node /\ r \in Node /\ l.children \in Seq(S) /\ r.children \in Seq(S)
        /\ CutInto(z, K, l.values, l.children, e, r.values, r.children)
        /\ KeepsAll(Range(l.children) \cup Range(r.children), Lo, Hi, Lo2, Hi2)
        /\ Bounds(Lo2, Hi2, l.id, low, Key(e)) /\ Bounds(Lo2, Hi2, r.id, Key(e), high)
    BY <1>6, <1>7, <1>z, <2>1
  <2> HIDE DEF l, r, K, low, high, S
  <2>4. NodeInOrder(l, Lo2, Hi2) /\ NodeInOrder(r, Lo2, Hi2)
    BY <1>9, <2>3, CutRow
  <2> QED
    BY <2>4 DEF l, r
<1>11. NodeInOrder(U[v], Lo2, Hi2)
  <2> DEFINE w == W[v].values
             lv == Lo[v]
             hv == Hi[v]
  <2>1. RowStands(w, C, lv, hv, Lo, Hi)
    BY <1>0, StandsWhere
  <2>2. Between(e.First, Lo[x], Hi[y])
    <3>1. InOrder(z, low, high)
      BY <1>9 DEF RowStands
    <3>2. JoinsAround(z, U[x].values, e, U[y].values)
      BY <1>z DEF CutInto
    <3> QED
      BY <1>6, <3>1, <3>2, CutKey
  <2>3. KeepsBut(C, {q + 1, q + 2}, Lo, Hi, Lo2, Hi2)
    <3> DEFINE P == {q + 1, q + 2}
    <3>1. x = C[q + 1] /\ y = C[q + 2]
      OBVIOUS
    <3>2. S \subseteq Ids
      OBVIOUS
    <3> HIDE DEF C, S
    <3>3. \A p \in DOMAIN C \ P : C[p] \notin B
      BY <1>b, <1>c, <3>1 DEF IsInjective
    <3> HIDE DEF P, B
    <3>5. KeepsBut(C, P, Lo, Hi, Lo2, Hi2)
      BY <1>1, <1>8, <1>c, <3>2, <3>3, SiblingsKeep
    <3> QED
      BY <3>5 DEF P
  <2>4. /\ w \in Seq(Tuple) /\ C \in Seq(S) /\ Len(C) <= Len(w) + 1 /\ q + 2 \in DOMAIN C
        /\ x = C[q + 1] /\ y = C[q + 2]
    BY <1>1
  <2>5. RowStands(swap(w, q, e), C, lv, hv, Lo2, Hi2)
    <3> HIDE DEF w, lv, hv, C, S
    <3> QED
      BY <1>7, <2>1, <2>2, <2>3, <2>4, MoveRow
  <2> QED
    BY <1>6, <1>7, <2>5, StandsAs
<1>12. Ordered(U, Lo2, Hi2)
  <2> DEFINE T == {x, y, v}
  <2>1. \A j \in DOMAIN U \cap T : NodeInOrder(U[j], Lo2, Hi2)
    BY <1>10, <1>11
  <2>2. Elsewhere(W, U, T, B)
    BY <1>2, <1>3, <1>5 DEF Elsewhere
  <2>3. rootId \in Ids
    BY <1>0 DEF Typed
  <2> HIDE DEF T, B
  <2> QED
    BY <1>0, <1>8, <2>1, <2>2, <2>3, OrderedElse
<1> QED
  BY <1>12

\* y, the right neighbour of x, becomes part of x.
Absorbs(W, U, x, y, v) == DOMAIN U = DOMAIN W \ {y} /\ \A j \in DOMAIN U \ {x, v} : U[j] = W[j]

\* n holds what l and r hold, and t between it.
Unites(l, r, t, n) ==
    JoinsAround(n.values, l.values, t, r.values) /\ n.children = l.children \o r.children

\* x and y, the children of v behind the first q, become one.
LEMMA MergeOrder ==
    ASSUME NEW W, NEW h, NEW weak, NEW Lo, NEW Hi, SearchTree(W, h, weak, Lo, Hi),
           NEW v \in DOMAIN W, NEW q \in Nat, q + 2 \in DOMAIN W[v].children,
           Len(W[v].children) <= Len(W[v].values) + 1,
           NEW x, x = W[v].children[q + 1], NEW y, y = W[v].children[q + 2],
           Shaped(W[x]), Shaped(W[y]), W[x].leaf = W[y].leaf,
           NEW t, t = W[v].values[q + 1],
           NEW U, Typed(U), Absorbs(W, U, x, y, v), Unites(W[x], W[y], t, U[x]),
           Drops(U[v].values, W[v].values, q), Drops(U[v].children, W[v].children, q + 1)
    PROVE  \E Lo2, Hi2 : Ordered(U, Lo2, Hi2)
<1> DEFINE Hi2 == [i \in Ids |-> IF i = x THEN Hi[y] ELSE Hi[i]]
           C == W[v].children
           S == Ids \ {rootId}
           B == {x}
<1>0. Typed(W) /\ Balanced(W, h, weak) /\ Ordered(W, Lo, Hi)
  BY DEF SearchTree
<1>1. /\ W[v] \in Node /\ W[v].id = v /\ v \in Ids
      /\ C \in Seq(S) /\ W[v].values \in Seq(Tuple)
  BY <1>0, TypedNode
<1>b. x \in Range(C) /\ y \in Range(C) /\ q + 1 \in DOMAIN C /\ q + 2 \in DOMAIN C
  BY <1>1 DEF Range
<1>c. IsInjective(C) /\ x # y
  <2>1. IsInjective(C)
    BY <1>0 DEF Balanced, NodeOK
  <2> HIDE DEF C
  <2>2. x = C[q + 1] /\ y = C[q + 2] /\ q + 1 # q + 2
    BY DEF C
  <2> QED
    BY <1>b, <2>1, <2>2 DEF IsInjective
<1>o. \A i \in Range(C) : /\ i # v /\ i # rootId /\ i \in DOMAIN W
                          /\ \A j \in DOMAIN W : i \in Range(W[j].children) => j = v
                          /\ \A c \in Range(W[i].children) : c # i /\ c # v
  <2> SUFFICES ASSUME NEW i \in Range(W[v].children)
               PROVE  /\ i # v /\ i # rootId /\ i \in DOMAIN W
                      /\ \A j \in DOMAIN W : i \in Range(W[j].children) => j = v
                      /\ \A c \in Range(W[i].children) : c # i /\ c # v
    OBVIOUS
  <2> QED
    BY <1>0, OneParent
<1>2. /\ x # v /\ x # rootId /\ x \in DOMAIN W
      /\ \A j \in DOMAIN W : x \in Range(W[j].children) => j = v
      /\ \A c \in Range(W[x].children) : c # x /\ c # v
  <2> HIDE DEF C
  <2> QED
    BY <1>b, <1>o
<1>3. /\ y # v /\ y # rootId /\ y \in DOMAIN W
      /\ \A j \in DOMAIN W : y \in Range(W[j].children) => j = v
      /\ \A c \in Range(W[y].children) : c # y /\ c # v
  <2> HIDE DEF C
  <2> QED
    BY <1>b, <1>o
<1>a. /\ W[x] \in Node /\ W[x].id = x /\ x \in Ids /\ W[x].children \in Seq(S)
  BY <1>0, <1>2, TypedNode
<1>d. W[y] \in Node /\ W[y].id = y /\ y \in Ids /\ W[y].children \in Seq(S)
  BY <1>0, <1>3, TypedNode
<1>4. t \in Tuple /\ Hi[x] = Key(t) /\ Lo[y] = Key(t)
  BY <1>0, NeighboursMeet
<1>5. /\ DOMAIN U = DOMAIN W \ {y} /\ \A j \in DOMAIN U \ {x, v} : U[j] = W[j]
      /\ JoinsAround(U[x].values, W[x].values, t, W[y].values)
      /\ U[x].children = W[x].children \o W[y].children
  BY DEF Absorbs, Unites
<1>6. /\ U[x] \in Node /\ U[x].id = x /\ U[x].children \in Seq(S) /\ U[x].values \in Seq(Tuple)
      /\ U[v] \in Node /\ U[v].id = v /\ U[v].children \in Seq(S) /\ U[v].values \in Seq(Tuple)
  <2>1. x \in DOMAIN U /\ v \in DOMAIN U
    BY <1>2, <1>3, <1>5, <1>c
  <2> QED
    BY <2>1, TypedNode
<1>7. Bounds(Lo, Hi2, x, Lo[x], Hi[y]) /\ Bounds(Lo, Hi2, v, Lo[v], Hi[v])
  BY <1>1, <1>2, <1>a DEF Bounds
<1>8. Apart(B, Lo, Hi, Lo, Hi2)
  BY DEF Apart, Keeps
<1> HIDE DEF Hi2
<1>9. NodeInOrder(U[x], Lo, Hi2)
  <2> DEFINE l == W[x]
             r == W[y]
             z == U[x].values
             T == Range(l.children) \cup Range(r.children)
  <2>1. NodeInOrder(l, Lo, Hi) /\ NodeInOrder(r, Lo, Hi)
    BY <1>0, <1>2, <1>3 DEF Ordered
  <2>2. KeepsAll(T, Lo, Hi, Lo, Hi2)
    <3>1. T \subseteq Ids
      <4>1. Range(l.children) \subseteq Ids /\ Range(r.children) \subseteq Ids
        BY <1>a, <1>d, ChildrenIds
      <4> QED
        BY <4>1
    <3>2. T \cap B = {}
      BY <1>2, <1>3
    <3> HIDE DEF T, B
    <3> QED
      BY <1>8, <3>1, <3>2, OwnKeep
  <2>3. /\ l \in Node /\ r \in Node /\ l.id = x /\ r.id = y /\ Shaped(l) /\ Shaped(r)
        /\ l.leaf = r.leaf /\ JoinsAround(z, l.values, t, r.values) /\ z \in Seq(Tuple)
        /\ U[x].children = l.children \o r.children
    BY <1>5, <1>6, <1>a, <1>d
  <2>4. KeepsAll(Range(l.children) \cup Range(r.children), Lo, Hi, Lo, Hi2)
    BY <2>2
  <2> HIDE DEF l, r, z, T
  <2>5. Hi[l.id] = Key(t) /\ Lo[r.id] = Key(t)
    BY <1>4, <2>3
  <2>6. RowStands(z, l.children \o r.children, Lo[l.id], Hi[r.id], Lo, Hi2)
    BY <1>4, <2>1, <2>3, <2>4, <2>5, JoinRow
  <2>7. RowStands(z, U[x].children, Lo[x], Hi[y], Lo, Hi2)
    BY <2>3, <2>6
  <2> QED
    BY <1>6, <1>7, <2>7, StandsAs DEF z
<1>10. NodeInOrder(U[v], Lo, Hi2)
  <2> DEFINE w == W[v].values
             z == U[v].values
             K == U[v].children
             low == Lo[v]
             high == Hi[v]
  <2>1. RowStands(w, C, low, high, Lo, Hi)
    BY <1>0, StandsWhere
  <2>2. KeepsBut(C, {q + 1, q + 2}, Lo, Hi, Lo, Hi2)
    <3> DEFINE P == {q + 1, q + 2}
    <3>1. x = C[q + 1]
      OBVIOUS
    <3>2. S \subseteq Ids
      OBVIOUS
    <3> HIDE DEF C, S
    <3>3. \A p \in DOMAIN C \ P : C[p] \notin B
      BY <1>b, <1>c, <3>1 DEF IsInjective
    <3> HIDE DEF P, B
    <3>5. KeepsBut(C, P, Lo, Hi, Lo, Hi2)
      BY <1>1, <1>8, <1>c, <3>2, <3>3, SiblingsKeep
    <3> QED
      BY <3>5 DEF P
  <2>3. /\ w \in Seq(Tuple) /\ C \in Seq(S) /\ Len(C) <= Len(w) + 1 /\ q + 2 \in DOMAIN C
        /\ x = C[q + 1] /\ y = C[q + 2] /\ z \in Seq(Tuple) /\ K \in Seq(S)
        /\ Drops(z, w, q) /\ Drops(K, C, q + 1)
    BY <1>1, <1>6
  <2>4. RowStands(z, K, low, high, Lo, Hi2)
    <3> HIDE DEF w, z, K, low, high, C, S
    <3> QED
      BY <1>7, <2>1, <2>2, <2>3, DropRow
  <2> QED
    BY <1>6, <1>7, <2>4, StandsAs
<1>11. Ordered(U, Lo, Hi2)
  <2> DEFINE T == {x, v}
  <2>1. \A j \in DOMAIN U \cap T : NodeInOrder(U[j], Lo, Hi2)
    BY <1>9, <1>10
  <2>2. Elsewhere(W, U, T, B)
    BY <1>2, <1>3, <1>5 DEF Elsewhere
  <2>3. rootId \in Ids
    BY <1>0 DEF Typed
  <2> HIDE DEF T, B
  <2> QED
    BY <1>0, <1>8, <2>1, <2>2, <2>3, OrderedElse
<1> QED
  BY <1>11

\* x and y, with t between them, are the children of v behind the first q.
Neighbours(W, v, q, x, y, t) ==
    /\ v \in DOMAIN W /\ Len(W[v].children) <= Len(W[v].values) + 1
    /\ q \in Nat /\ q + 2 \in DOMAIN W[v].children
    /\ x = W[v].children[q + 1] /\ y = W[v].children[q + 2] /\ t = W[v].values[q + 1]

LEMMA NeighboursFacts ==
    ASSUME NEW W, Typed(W), NEW Lo, NEW Hi, Ordered(W, Lo, Hi), NEW v, NEW q, NEW x, NEW y, NEW t,
           Neighbours(W, v, q, x, y, t)
    PROVE  t \in Tuple /\ Hi[x] = Key(t) /\ Lo[y] = Key(t)
<1>1. /\ v \in DOMAIN W /\ Len(W[v].children) <= Len(W[v].values) + 1
      /\ q \in Nat /\ q + 2 \in DOMAIN W[v].children
      /\ x = W[v].children[q + 1] /\ y = W[v].children[q + 2] /\ t = W[v].values[q + 1]
  BY DEF Neighbours
<1> QED
  BY <1>1, NeighboursMeet

\* The two children of the root, and its one key, become the root.
LEMMA CollapseOrder ==
    ASSUME NEW W, NEW h, NEW weak, NEW Lo, NEW Hi, SearchTree(W, h, weak, Lo, Hi),
           Len(W[rootId].values) = 1, Len(W[rootId].children) = 2,
           NEW x, x = W[rootId].children[1], NEW y, y = W[rootId].children[2],
           Shaped(W[x]), Shaped(W[y]), W[x].leaf = W[y].leaf,
           NEW t, t = W[rootId].values[1],
           NEW U, Typed(U), DOMAIN U \subseteq DOMAIN W, \A j \in DOMAIN U \ {rootId} : U[j] = W[j],
           Unites(W[x], W[y], t, U[rootId])
    PROVE  Ordered(U, Lo, Hi)
<1>0. Typed(W) /\ Balanced(W, h, weak) /\ Ordered(W, Lo, Hi) /\ rootId \in DOMAIN W
  BY DEF SearchTree, Typed
<1> DEFINE v == rootId
           C == W[v].children
           S == Ids \ {rootId}
<1>1. C \in Seq(S) /\ W[v].values \in Seq(Tuple) /\ W[v].id = v /\ W[v] \in Node
  BY <1>0, TypedNode
<1>2. x \in Range(C) /\ y \in Range(C) /\ 1 \in DOMAIN C /\ 2 \in DOMAIN C
  BY <1>1 DEF Range
<1>3. x \in DOMAIN W /\ y \in DOMAIN W
  BY <1>0, <1>2, OneParent
<1>4. t \in Tuple /\ Hi[x] = Key(t) /\ Lo[y] = Key(t)
  <2>1. Neighbours(W, rootId, 0, x, y, t)
    BY <1>0, <1>2 DEF Neighbours
  <2> QED
    BY <1>0, <2>1, NeighboursFacts
<1>5. Lo[x] = {} /\ Hi[y] = {}
  <2> DEFINE w == W[v].values
             F == Fences(w, Lo[v], Hi[v])
  <2>1. Hung(C, F, Lo, Hi)
    BY <1>0, <1>1 DEF Ordered, NodeInOrder, Row
  <2>2. F[0] = Lo[v] /\ F[Len(w) + 1] = Hi[v]
    BY <1>1, FencesAt
  <2>3. x = C[1] /\ y = C[2] /\ 1 - 1 = 0 /\ Len(w) + 1 = 2
    OBVIOUS
  <2> HIDE DEF F, C, w
  <2>4. Lo[x] = F[0] /\ Hi[y] = F[2]
    BY <1>2, <2>1, <2>3 DEF Hung
  <2> QED
    BY <1>0, <2>2, <2>3, <2>4 DEF Ordered
<1>6. rootId \in DOMAIN U /\ U[v] \in Node /\ U[v].id = v /\ U[v].values \in Seq(Tuple)
  BY TypedNode DEF Typed
<1>7. Lo[rootId] = {} /\ Hi[rootId] = {}
  BY <1>0 DEF Ordered
<1>8. NodeInOrder(U[v], Lo, Hi)
  <2> DEFINE l == W[x]
             r == W[y]
             z == U[v].values
  <2>1. NodeInOrder(l, Lo, Hi) /\ NodeInOrder(r, Lo, Hi)
    BY <1>0, <1>3 DEF Ordered
  <2>2. KeepsAll(Range(l.children) \cup Range(r.children), Lo, Hi, Lo, Hi)
    BY DEF KeepsAll, Keeps
  <2>3. /\ l \in Node /\ r \in Node /\ l.id = x /\ r.id = y /\ Shaped(l) /\ Shaped(r)
        /\ l.leaf = r.leaf /\ JoinsAround(z, l.values, t, r.values) /\ z \in Seq(Tuple)
        /\ U[v].children = l.children \o r.children
    BY <1>0, <1>3, <1>6, TypedNode DEF Unites
  <2> HIDE DEF l, r, z
  <2>4. Hi[l.id] = Key(t) /\ Lo[r.id] = Key(t)
    BY <1>4, <2>3
  <2>5. RowStands(z, l.children \o r.children, Lo[l.id], Hi[r.id], Lo, Hi)
    BY <1>4, <2>1, <2>2, <2>3, <2>4, JoinRow
  <2>6. RowStands(z, U[v].children, Lo[v], Hi[v], Lo, Hi)
    BY <1>5, <1>7, <2>3, <2>5
  <2> QED
    BY <1>6, <2>6, StandsInOrder DEF z
<1> QED
  BY <1>0, <1>7, <1>8 DEF Ordered

\* The root is cut in two, y and z, and gets one key.
LEMMA SplitRootOrder ==
    ASSUME NEW W, NEW h, NEW weak, NEW Lo, NEW Hi, SearchTree(W, h, weak, Lo, Hi),
           NEW y \in Ids, NEW z \in Ids, NEW U, Typed(U), RootInto(W, U, y, z), NEW t \in Tuple,
           CutInto(W[rootId].values, W[rootId].children, U[y].values, U[y].children, t,
                   U[z].values, U[z].children),
           U[rootId].values = <<t>>, U[rootId].children = <<y, z>>,
           Range(U[y].children) \cup Range(U[z].children) \subseteq Range(W[rootId].children)
    PROVE  \E Lo2, Hi2 : Ordered(U, Lo2, Hi2)
<1> DEFINE k == Key(t)
           Lo2 == [i \in Ids |-> IF i = y THEN {} ELSE IF i = z THEN k ELSE Lo[i]]
           Hi2 == [i \in Ids |-> IF i = y THEN k ELSE IF i = z THEN {} ELSE Hi[i]]
           C == W[rootId].children
           S == Ids \ {rootId}
           B == {y, z}
<1>0. /\ Typed(W) /\ Balanced(W, h, weak) /\ Ordered(W, Lo, Hi) /\ rootId \in DOMAIN W
      /\ rootId \in Ids
  BY DEF SearchTree, Typed
<1>1. /\ W[rootId] \in Node /\ W[rootId].id = rootId
      /\ C \in Seq(S) /\ W[rootId].values \in Seq(Tuple)
  BY <1>0, TypedNode
<1>2. Lo[rootId] = {} /\ Hi[rootId] = {}
  BY <1>0 DEF Ordered
<1>3. y # rootId /\ z # rootId /\ y # z /\ y \notin DOMAIN W /\ z \notin DOMAIN W
  BY <1>0 DEF RootInto
<1>4. \A j \in DOMAIN W : y \notin Range(W[j].children) /\ z \notin Range(W[j].children)
  BY <1>0, <1>3, ChildFacts
<1>5. DOMAIN U = DOMAIN W \cup {y, z} /\ \A j \in DOMAIN W \ {rootId} : U[j] = W[j]
  BY DEF RootInto
<1>6. /\ U[y] \in Node /\ U[y].id = y /\ U[y].children \in Seq(S) /\ U[y].values \in Seq(Tuple)
      /\ U[z] \in Node /\ U[z].id = z /\ U[z].children \in Seq(S) /\ U[z].values \in Seq(Tuple)
      /\ U[rootId] \in Node /\ U[rootId].id = rootId
  BY <1>0, <1>5, TypedNode
<1>7. /\ Bounds(Lo2, Hi2, y, Lo[rootId], Key(t)) /\ Bounds(Lo2, Hi2, z, Key(t), Hi[rootId])
      /\ Bounds(Lo2, Hi2, rootId, {}, {})
  BY <1>0, <1>2, <1>3 DEF Bounds
<1>8. Apart(B, Lo, Hi, Lo2, Hi2)
  BY DEF Apart, Keeps
<1> HIDE DEF k, Lo2, Hi2
<1>a. RowStands(W[rootId].values, C, Lo[rootId], Hi[rootId], Lo, Hi)
  BY <1>0, StandsWhere
<1>9. NodeInOrder(U[y], Lo2, Hi2) /\ NodeInOrder(U[z], Lo2, Hi2)
  <2>2. KeepsAll(Range(U[y].children) \cup Range(U[z].children), Lo, Hi, Lo2, Hi2)
    <3> DEFINE T == Range(U[y].children) \cup Range(U[z].children)
    <3>1. T \subseteq Range(C) /\ Range(C) \subseteq Ids
      <4>1. Range(C) \subseteq Ids
        BY <1>1, ChildrenIds
      <4> QED
        BY <4>1
    <3>2. T \cap B = {}
      BY <1>0, <1>4, <3>1
    <3> HIDE DEF T, B
    <3>3. KeepsAll(T, Lo, Hi, Lo2, Hi2)
      BY <1>8, <3>1, <3>2, OwnKeep
    <3> QED
      BY <3>3 DEF T
  <2> DEFINE l == U[y]
             r == U[z]
             w == W[rootId].values
             K == W[rootId].children
             low == Lo[rootId]
             high == Hi[rootId]
  <2>3. /\ w \in Seq(Tuple) /\ K \in Seq(S) /\ RowStands(w, K, low, high, Lo, Hi)
        /\ l \in Node /\ r \in Node /\ l.children \in Seq(S) /\ r.children \in Seq(S)
        /\ CutInto(w, K, l.values, l.children, t, r.values, r.children)
        /\ KeepsAll(Range(l.children) \cup Range(r.children), Lo, Hi, Lo2, Hi2)
        /\ Bounds(Lo2, Hi2, l.id, low, Key(t)) /\ Bounds(Lo2, Hi2, r.id, Key(t), high)
    BY <1>1, <1>6, <1>7, <1>a, <2>2
  <2> HIDE DEF l, r, w, K, low, high, S
  <2>4. NodeInOrder(l, Lo2, Hi2) /\ NodeInOrder(r, Lo2, Hi2)
    BY <2>3, CutRow
  <2> QED
    BY <2>4 DEF l, r
<1>10. NodeInOrder(U[rootId], Lo2, Hi2)
  <2> DEFINE F == Fences(<<t>>, {}, {})
             v == <<t>>
             K == <<y, z>>
  <2>1. t.First \in Int
    BY KeyOfTuple
  <2>2. F[0] = {} /\ F[1] = {t.First} /\ F[2] = {} /\ Len(v) + 1 = 2
    BY DEF Fences
  <2>3. 1 - 1 = 0 /\ 2 - 1 = 1 /\ DOMAIN K = {1, 2} /\ K[1] = y /\ K[2] = z
    OBVIOUS
  <2>4. Lo2[y] = {} /\ Hi2[y] = {t.First} /\ Lo2[z] = {t.First} /\ Hi2[z] = {}
    BY <1>2, <1>7 DEF Bounds, Key
  <2> HIDE DEF F, v, K
  <2>5. Rising(F, 2)
    <3>1. \A p \in 0 .. 2 : p = 0 \/ p = 1 \/ p = 2
      OBVIOUS
    <3>2. \A p \in 0 .. 2 : F[p] \subseteq Int
      BY <2>1, <2>2, <3>1
    <3>3. \A p \in 1 .. 2 - 1 : F[p] # {}
      <4>1. \A p \in 1 .. 2 - 1 : p = 1
        OBVIOUS
      <4>2. F[1] # {}
        BY <2>2
      <4> QED
        BY <4>1, <4>2
    <3>4. \A p, q \in 0 .. 2 : p < q => F[p] = {} \/ F[q] = {}
      BY <2>2, <3>1
    <3> QED
      BY <3>2, <3>3, <3>4 DEF Rising
  <2>6. Hung(K, F, Lo2, Hi2)
    BY <2>2, <2>3, <2>4 DEF Hung
  <2>7. RowStands(v, K, {}, {}, Lo2, Hi2)
    BY <2>2, <2>5, <2>6 DEF RowStands, InOrder, F, v
  <2>8. U[rootId].values = v /\ U[rootId].children = K
    BY DEF v, K
  <2> QED
    BY <1>6, <1>7, <2>7, <2>8, StandsAs
<1>11. Ordered(U, Lo2, Hi2)
  <2> DEFINE T == {y, z, rootId}
  <2>1. \A j \in DOMAIN U \cap T : NodeInOrder(U[j], Lo2, Hi2)
    BY <1>9, <1>10
  <2>2. Elsewhere(W, U, T, B)
    BY <1>3, <1>4, <1>5 DEF Elsewhere
  <2> HIDE DEF T, B
  <2> QED
    BY <1>0, <1>8, <2>1, <2>2, OrderedElse
<1> QED
  BY <1>11

\* One node changes and keeps its bounds, as those of its children.
LEMMA OneOrder ==
    ASSUME NEW W, NEW Lo, NEW Hi, Typed(W), Ordered(W, Lo, Hi), NEW x \in DOMAIN W,
           NEW U, Rewrites(W, U, {x}), NodeInOrder(U[x], Lo, Hi)
    PROVE  Ordered(U, Lo, Hi)
<1>1. \A j \in DOMAIN W \ {x} : U[j] = W[j] /\ NodeInOrder(W[j], Lo, Hi)
  BY DEF Rewrites, Ordered
<1>2. DOMAIN U = DOMAIN W
  BY DEF Rewrites
<1> QED
  BY <1>1, <1>2 DEF Ordered

\* A leaf gets one more key, ...
LEMMA LeafInserts ==
    ASSUME NEW W, NEW Lo, NEW Hi, Typed(W), Ordered(W, Lo, Hi), NEW x \in DOMAIN W,
           NEW U, Typed(U), Rewrites(W, U, {x}), U[x].children = <<>>,
           NEW e \in Tuple, NEW q \in find(W[x].values, e.First), ~Found(W[x].values, e.First, q),
           Within(e.First, x, Lo, Hi), Inserts(U[x].values, W[x].values, e, q)
    PROVE  Ordered(U, Lo, Hi)
<1> DEFINE v == W[x].values
           z == U[x].values
           low == Lo[x]
           high == Hi[x]
<1>1. v \in Seq(Tuple) /\ x \in DOMAIN U /\ z \in Seq(Tuple) /\ U[x].id = x /\ W[x].id = x
  <2>1. x \in DOMAIN U
    BY DEF Rewrites
  <2>2. v \in Seq(Tuple) /\ W[x].id = x
    BY TypedNode
  <2>3. z \in Seq(Tuple) /\ U[x].id = x
    BY <2>1, TypedNode
  <2> QED
    BY <2>1, <2>2, <2>3
<1>2. InOrder(v, low, high)
  BY <1>1 DEF Ordered, NodeInOrder
<1>3. InOrder(z, low, high)
  <2>1. /\ v \in Seq(Tuple) /\ z \in Seq(Tuple) /\ e.First \in Int /\ Between(e.First, low, high)
        /\ q \in find(v, e.First) /\ ~Found(v, e.First, q) /\ Inserts(z, v, e, q)
        /\ InOrder(v, low, high)
    BY <1>1, <1>2, KeyOfTuple DEF Within
  <2> HIDE DEF v, z, low, high
  <2>2. q \in 0 .. Len(v) /\ Between(e.First, Fences(v, low, high)[q], Fences(v, low, high)[q + 1])
    BY <2>1, FindBetween
  <2> QED
    BY <2>1, <2>2, FencesInsert
<1>4. NodeInOrder(U[x], Lo, Hi)
  BY <1>1, <1>3 DEF NodeInOrder, Hung
<1> QED
  BY <1>4, OneOrder

\* ... one key less, ...
LEMMA LeafDrops ==
    ASSUME NEW W, NEW Lo, NEW Hi, Typed(W), Ordered(W, Lo, Hi), NEW x \in DOMAIN W,
           NEW U, Typed(U), Rewrites(W, U, {x}), U[x].children = <<>>,
           NEW q \in Nat, q < Len(W[x].values), Drops(U[x].values, W[x].values, q)
    PROVE  Ordered(U, Lo, Hi)
<1> DEFINE v == W[x].values
           z == U[x].values
           low == Lo[x]
           high == Hi[x]
<1>1. v \in Seq(Tuple) /\ x \in DOMAIN U /\ z \in Seq(Tuple) /\ U[x].id = x /\ W[x].id = x
  <2>1. x \in DOMAIN U
    BY DEF Rewrites
  <2>2. v \in Seq(Tuple) /\ W[x].id = x
    BY TypedNode
  <2>3. z \in Seq(Tuple) /\ U[x].id = x
    BY <2>1, TypedNode
  <2> QED
    BY <2>1, <2>2, <2>3
<1>2. InOrder(v, low, high)
  BY <1>1 DEF Ordered, NodeInOrder
<1>3. InOrder(z, low, high)
  <2> HIDE DEF v, z, low, high
  <2>1. Drops(z, v, q) /\ q < Len(v)
    BY DEF v, z
  <2> QED
    BY <1>1, <1>2, <2>1, FencesDrop
<1>4. NodeInOrder(U[x], Lo, Hi)
  BY <1>1, <1>3 DEF NodeInOrder, Hung
<1> QED
  BY <1>4, OneOrder

\* ... or a node another value under the same key.
SameKeys(z, v) == Len(z) = Len(v) /\ \A m \in 1 .. Len(v) : z[m].First = v[m].First
LEMMA SameKeysOrder ==
    ASSUME NEW W, NEW Lo, NEW Hi, Typed(W), Ordered(W, Lo, Hi), NEW x \in DOMAIN W,
           NEW U, Typed(U), Rewrites(W, U, {x}), U[x].children = W[x].children,
           SameKeys(U[x].values, W[x].values)
    PROVE  Ordered(U, Lo, Hi)
<1>1. x \in DOMAIN U /\ U[x].id = x /\ W[x].id = x
  <2>1. x \in DOMAIN U
    BY DEF Rewrites
  <2>2. W[x].id = x
    BY TypedNode
  <2>3. U[x].id = x
    BY <2>1, TypedNode
  <2> QED
    BY <2>1, <2>2, <2>3
<1>2. NodeInOrder(W[x], Lo, Hi)
  BY DEF Ordered
<1>3. Fences(U[x].values, Lo[x], Hi[x]) = Fences(W[x].values, Lo[x], Hi[x])
  <2>1. Len(W[x].values) \in Nat
    BY TypedNode
  <2> DEFINE w == U[x].values
             v == W[x].values
  <2>2. Len(w) = Len(v) /\ \A p \in 1 .. Len(v) : w[p].First = v[p].First
    BY DEF SameKeys
  <2> HIDE DEF v, w
  <2>3. \A p \in 0 .. Len(v) + 1 : p # 0 /\ p # Len(v) + 1 => w[p].First = v[p].First
    BY <2>1, <2>2 DEF v
  <2> QED
    BY <2>2, <2>3 DEF Fences, v, w
<1>4. Len(U[x].values) = Len(W[x].values)
  BY DEF SameKeys
<1>5. NodeInOrder(U[x], Lo, Hi)
  BY <1>1, <1>2, <1>3, <1>4 DEF NodeInOrder, InOrder, Row
<1> QED
  BY <1>5, OneOrder

\* Between the keys of a leaf and the key above it there is no other.
LEMMA KeyGap ==
    ASSUME NEW W, NEW h, Tree(W, h), NEW Lo, NEW Hi, Ordered(W, Lo, Hi),
           NEW x \in DOMAIN W, h[x] = 0, NEW t \in Tuple, Hi[x] = Key(t), NEW m \in Int,
           \A l \in Lo[x] : l < m, \A i \in DOMAIN W[x].values : W[x].values[i].First < m,
           NEW j \in DOMAIN W, NEW k, Holds(W[j], k)
    PROVE  k \in Int /\ (k < m \/ k >= t.First)
<1>1. k \in Int /\ t.First \in Int
  BY HeldWithin, KeyOfTuple
<1>2. ASSUME m <= k, k < t.First PROVE FALSE
  <2>1. Lo[x] \subseteq Int
    <3>1. /\ Len(W[x].values) + 1 \in Nat /\ Rising(Row(W[x], Lo, Hi), Len(W[x].values) + 1)
          /\ Row(W[x], Lo, Hi)[0] = Lo[x]
      BY RowFacts
    <3> QED
      BY <3>1 DEF Rising
  <2>2. Within(k, x, Lo, Hi)
    <3>1. \A y \in Key(t) : k < y
      BY <1>2 DEF Key
    <3>2. \A l \in Lo[x] : l < k
      BY <1>1, <1>2, <2>1
    <3> QED
      BY <3>1, <3>2 DEF Within, Between
  <2>3. h[j] \in Nat
    BY TreeParts
  <2>4. h[x] <= h[j]
    BY <2>3
  <2>5. x = j
    BY <1>1, <2>2, <2>4, KeyHere
  <2>6. k < m
    BY <2>5 DEF Holds
  <2> QED
    BY <1>1, <1>2, <2>6
<1> QED
  BY <1>1, <1>2

\* The keys of W but the one at position q of v are not between m and that one.
GapBelow(W, t, m) ==
    \A j \in DOMAIN W : \A k : Holds(W[j], k) => k \in Int /\ (k < m \/ k >= t.First)

\* A key gives way to the next lower one, wherever it bounds a node.
LEMMA KeyMoves ==
    ASSUME NEW W, NEW h, Tree(W, h), NEW Lo, NEW Hi, Ordered(W, Lo, Hi),
           NEW v \in DOMAIN W, NEW q \in Nat, q < Len(W[v].values),
           NEW t, t = W[v].values[q + 1], NEW e \in Tuple, e.First < t.First,
           GapBelow(W, t, e.First),
           NEW U, Rewrites(W, U, {v}), U[v].id = v, U[v].children = W[v].children,
           Swaps(U[v].values, W[v].values, e, q)
    PROVE  \E Lo2, Hi2 : Ordered(U, Lo2, Hi2)
<1> DEFINE m == e.First
           d == t.First
           f == [k \in Int |-> IF k = d THEN m ELSE k]
           K == {k \in Int : \E j \in DOMAIN W : Holds(W[j], k)}
           Lo2 == [i \in Ids |-> Image(f, Lo[i])]
           Hi2 == [i \in Ids |-> Image(f, Hi[i])]
<1>1. Typed(W) /\ KeysOnce(W) /\ rootId \in Ids /\ rootId \in DOMAIN W
  BY TreeKeysOnce DEF Tree, Typed
<1>2. W[v].values \in Seq(Tuple) /\ t \in Tuple /\ m \in Int /\ d \in Int /\ q + 1 \in DOMAIN W[v].values
  <2>1. W[v].values \in Seq(Tuple) /\ q + 1 \in DOMAIN W[v].values
    BY <1>1, TypedNode
  <2>2. t \in Tuple
    BY <2>1
  <2> QED
    BY <2>1, <2>2, KeyOfTuple
<1>3. Increasing(f, K)
  <2>1. ASSUME NEW x \in K, NEW y \in K, x < y PROVE f[x] < f[y]
    <3>1. x \in Int /\ y \in Int /\ (x < m \/ x >= d) /\ (y < m \/ y >= d)
      BY DEF GapBelow
    <3> QED
      BY <1>2, <2>1, <3>1
  <2> QED
    BY <2>1 DEF Increasing
<1>4. f \in [Int -> Int]
  BY <1>2
<1>5. DOMAIN U = DOMAIN W /\ \A j \in DOMAIN W \ {v} : U[j] = W[j]
  BY DEF Rewrites
<1> HIDE DEF K
<1>6. ASSUME NEW j \in DOMAIN W PROVE NodeInOrder(U[j], Lo2, Hi2)
  <2> DEFINE n == Len(W[j].values) + 1
             F == Row(W[j], Lo, Hi)
             G == Row(U[j], Lo2, Hi2)
             C == W[j].children
             w == U[j].values
  <2>1. /\ n \in Nat /\ n >= 1 /\ Rising(F, n) /\ F[0] = Lo[j] /\ F[n] = Hi[j]
        /\ \A p \in 1 .. n - 1 : F[p] = {W[j].values[p].First}
        /\ DOMAIN W[j].values = 1 .. n - 1
        /\ \A p \in DOMAIN C : p \in 1 .. n /\ Lo[C[p]] = F[p - 1] /\ Hi[C[p]] = F[p]
    BY RowFacts
  <2>2. j \in Ids /\ C \in Seq(Ids \ {rootId}) /\ W[j].values \in Seq(Tuple)
    BY <1>1, TypedNode
  <2>3. U[j].id = j /\ U[j].children = C
    BY <1>1, <1>5, TypedNode
  <2>4. Len(w) = Len(W[j].values)
    BY <1>5 DEF Swaps
  <2>5. \A p \in 1 .. n - 1 : w[p].First = f[W[j].values[p].First]
    <3>1. ASSUME NEW p \in 1 .. n - 1 PROVE w[p].First = f[W[j].values[p].First]
      <4> DEFINE k == W[j].values[p].First
      <4>1. W[j].values[p] \in Tuple /\ k \in Int
        <5>1. W[j].values[p] \in Tuple
          BY <2>1, <2>2
        <5> QED
          BY <5>1, KeyOfTuple
      <4>2. k = d => j = v /\ p = q + 1
        BY <1>1, <1>2, <2>1 DEF KeysOnce
      <4>3. CASE j = v /\ p = q + 1
        <5>1. p \in 1 .. Len(w)
          BY <2>1, <2>4
        <5>2. w[p] = e
          BY <4>3, <5>1 DEF Swaps
        <5>3. k = d
          BY <4>3
        <5> QED
          BY <4>1, <5>2, <5>3
      <4>4. CASE ~(j = v /\ p = q + 1)
        <5>1. w[p] = W[j].values[p]
          <6>1. p \in 1 .. Len(w)
            BY <2>1, <2>4
          <6>2. CASE j = v
            BY <4>4, <6>1, <6>2 DEF Swaps
          <6>3. CASE j # v
            BY <1>5, <6>3
          <6> QED
            BY <6>2, <6>3
        <5>2. k # d
          BY <4>2, <4>4
        <5> QED
          BY <4>1, <5>1, <5>2
      <4> QED
        BY <4>3, <4>4
    <3> QED
      BY <3>1
  <2>6. \A p \in 0 .. n : F[p] \subseteq K
    <3>1. ASSUME NEW p \in 0 .. n, NEW x \in F[p] PROVE x \in K
      <4>1. x \in Int
        BY <2>1 DEF Rising
      <4>2. \E i \in DOMAIN W : Holds(W[i], x)
        BY RowHeld
      <4> QED
        BY <4>1, <4>2 DEF K
    <3> QED
      BY <3>1
  <2>7. G[0] = Lo2[j] /\ G[n] = Hi2[j] /\ \A p \in 1 .. n - 1 : G[p] = {w[p].First}
    <3> DEFINE l == Len(w)
    <3>1. l + 1 = n /\ l \in Nat
      BY <2>1, <2>2, <2>4
    <3>2. G = Fences(w, Lo2[j], Hi2[j])
      BY <2>3 DEF Row
    <3> DEFINE low == Lo2[j]
               high == Hi2[j]
    <3> HIDE DEF low, high, w
    <3>3. G = [p \in 0 .. l + 1 |-> IF p = 0 THEN low ELSE IF p = l + 1 THEN high ELSE {w[p].First}]
      BY <3>2 DEF Fences, low, high
    <3> HIDE DEF G, n, l
    <3>4. G[0] = low /\ G[n] = high /\ \A p \in 1 .. n - 1 : G[p] = {w[p].First}
      BY <3>1, <3>3
    <3> QED
      BY <3>4 DEF low, high
  <2>8. Lo2[j] = Image(f, Lo[j]) /\ Hi2[j] = Image(f, Hi[j])
    BY <2>2
  <2>9. \A p \in 0 .. n : G[p] = Image(f, F[p])
    <3> HIDE DEF n, F, G, f, Lo2, Hi2, w
    <3>1. ASSUME NEW p \in 0 .. n PROVE G[p] = Image(f, F[p])
      <4>1. p = 0 \/ p = n \/ p \in 1 .. n - 1
        BY <2>1
      <4>2. CASE p \in 1 .. n - 1
        <5>1. F[p] = {W[j].values[p].First} /\ G[p] = {w[p].First}
          BY <2>1, <2>7, <4>2
        <5>2. w[p].First = f[W[j].values[p].First]
          BY <2>5, <4>2
        <5> QED
          BY <5>1, <5>2 DEF Image
      <4> QED
        BY <2>1, <2>7, <2>8, <4>1, <4>2
    <3> QED
      BY <3>1
  <2>10. Rising(G, n)
    <3> HIDE DEF n, F, G, f, Lo2, Hi2
    <3> QED
      BY <1>3, <1>4, <2>1, <2>6, <2>9, RisingMap
  <2>11. InOrder(U[j].values, Lo2[j], Hi2[j])
    <3>1. G = Fences(w, Lo2[j], Hi2[j]) /\ Len(w) + 1 = n
      BY <2>3, <2>4 DEF Row
    <3> HIDE DEF G, n, Lo2, Hi2
    <3> QED
      BY <2>10, <3>1 DEF InOrder
  <2>12. Hung(C, G, Lo2, Hi2)
    <3>1. ASSUME NEW p \in DOMAIN C PROVE Lo2[C[p]] = G[p - 1] /\ Hi2[C[p]] = G[p]
      <4>1. p \in 1 .. n /\ Lo[C[p]] = F[p - 1] /\ Hi[C[p]] = F[p]
        BY <2>1
      <4>2. p - 1 \in 0 .. n /\ p \in 0 .. n
        BY <2>1, <4>1
      <4>3. C[p] \in Ids
        BY <2>2
      <4>4. Lo2[C[p]] = Image(f, Lo[C[p]]) /\ Hi2[C[p]] = Image(f, Hi[C[p]])
        BY <4>3
      <4> HIDE DEF G, F, n, f, Lo2, Hi2, C
      <4> QED
        BY <2>9, <4>1, <4>2, <4>4
    <3> HIDE DEF G, Lo2, Hi2, C
    <3> QED
      BY <3>1 DEF Hung
  <2> HIDE DEF G, Lo2, Hi2, C
  <2> QED
    BY <2>3, <2>11, <2>12 DEF NodeInOrder, G
<1>7. Lo2[rootId] = {} /\ Hi2[rootId] = {}
  BY <1>1 DEF Ordered, Image
<1>8. Ordered(U, Lo2, Hi2)
  <2> HIDE DEF Lo2, Hi2
  <2> QED
    BY <1>5, <1>6, <1>7 DEF Ordered
<1> QED
  BY <1>8

-----------------------------------------------------------------------------
(* What a tree stores.                                                     *)

\* The elements of s but the one at position p.
Rest(s, p) == {s[i] : i \in DOMAIN s \ {p + 1}}

LEMMA InsertsRange ==
    ASSUME NEW S, NEW s \in Seq(S), NEW z \in Seq(S), NEW e, NEW p \in 0 .. Len(s), Inserts(z, s, e, p)
    PROVE  Range(z) = Range(s) \cup {e}
<1>1. /\ DOMAIN s = 1 .. Len(s) /\ DOMAIN z = 1 .. Len(s) + 1 /\ Len(s) \in Nat
      /\ \A i \in 1 .. Len(s) + 1 : z[i] = IF i <= p THEN s[i] ELSE IF i = p + 1 THEN e ELSE s[i - 1]
  BY DEF Inserts
<1>2. ASSUME NEW i \in DOMAIN z PROVE z[i] \in Range(s) \cup {e}
  <2>1. i <= p \/ i = p + 1 \/ (i - 1 \in DOMAIN s /\ z[i] = s[i - 1])
    BY <1>1
  <2>2. i <= p => i \in DOMAIN s /\ z[i] = s[i]
    BY <1>1
  <2>3. i = p + 1 => z[i] = e
    BY <1>1
  <2> QED
    BY <2>1, <2>2, <2>3 DEF Range
<1>3. ASSUME NEW i \in DOMAIN s PROVE s[i] \in Range(z)
  <2>1. i <= p => i \in DOMAIN z /\ z[i] = s[i]
    BY <1>1
  <2>2. ~(i <= p) => i + 1 \in DOMAIN z /\ z[i + 1] = s[i]
    <3>1. i \in 1 .. Len(s) /\ p \in Nat
      BY <1>1
    <3>2. ~(i <= p) => i + 1 \in 1 .. Len(s) + 1 /\ ~(i + 1 <= p) /\ i + 1 # p + 1 /\ (i + 1) - 1 = i
      BY <1>1, <3>1
    <3> QED
      BY <1>1, <3>2
  <2> QED
    BY <2>1, <2>2 DEF Range
<1>4. e \in Range(z)
  <2>1. p + 1 \in DOMAIN z /\ z[p + 1] = e
    BY <1>1
  <2> QED
    BY <2>1 DEF Range
<1>5. Range(z) \subseteq Range(s) \cup {e}
  BY <1>2 DEF Range
<1>6. Range(s) \subseteq Range(z)
  BY <1>3 DEF Range
<1> QED
  BY <1>4, <1>5, <1>6

LEMMA RestRange ==
    ASSUME NEW S, NEW s \in Seq(S), NEW p \in Nat, p < Len(s)
    PROVE  Range(s) = Rest(s, p) \cup {s[p + 1]}
<1>1. p + 1 \in DOMAIN s
  OBVIOUS
<1> QED
  BY <1>1 DEF Range, Rest

LEMMA DropsRange ==
    ASSUME NEW S, NEW s \in Seq(S), NEW z \in Seq(S), NEW p \in Nat, p < Len(s), Drops(z, s, p)
    PROVE  Range(z) = Rest(s, p)
<1>1. /\ DOMAIN s = 1 .. Len(s) /\ DOMAIN z = 1 .. Len(s) - 1 /\ Len(s) \in Nat
      /\ \A i \in 1 .. Len(s) - 1 : z[i] = IF i <= p THEN s[i] ELSE s[i + 1]
  BY DEF Drops
<1>2. ASSUME NEW i \in DOMAIN z PROVE z[i] \in Rest(s, p)
  <2>1. i <= p => i \in DOMAIN s \ {p + 1} /\ z[i] = s[i]
    BY <1>1
  <2>2. ~(i <= p) => i + 1 \in DOMAIN s \ {p + 1} /\ z[i] = s[i + 1]
    BY <1>1
  <2> QED
    BY <2>1, <2>2 DEF Rest
<1>3. ASSUME NEW i \in DOMAIN s \ {p + 1} PROVE s[i] \in Range(z)
  <2>1. i <= p => i \in DOMAIN z /\ z[i] = s[i]
    BY <1>1
  <2>2. ~(i <= p) => i - 1 \in DOMAIN z /\ z[i - 1] = s[i]
    <3>1. i \in 1 .. Len(s) /\ i # p + 1
      BY <1>1
    <3>2. ~(i <= p) => i - 1 \in 1 .. Len(s) - 1 /\ ~(i - 1 <= p) /\ (i - 1) + 1 = i
      BY <1>1, <3>1
    <3> QED
      BY <1>1, <3>2
  <2> QED
    BY <2>1, <2>2 DEF Range
<1>4. Range(z) \subseteq Rest(s, p)
  BY <1>2 DEF Range
<1>5. Rest(s, p) \subseteq Range(z)
  BY <1>3 DEF Rest
<1> QED
  BY <1>4, <1>5

LEMMA SwapsRange ==
    ASSUME NEW S, NEW s \in Seq(S), NEW z \in Seq(S), NEW p \in Nat, p < Len(s), NEW e, Swaps(z, s, e, p)
    PROVE  Range(z) = Rest(s, p) \cup {e}
<1>1. DOMAIN z = DOMAIN s /\ p + 1 \in DOMAIN s
      /\ \A i \in DOMAIN s : z[i] = IF i = p + 1 THEN e ELSE s[i]
  BY DEF Swaps
<1>2. \A i \in DOMAIN s \ {p + 1} : z[i] = s[i]
  BY <1>1
<1>3. z[p + 1] = e
  BY <1>1
<1> QED
  BY <1>1, <1>2, <1>3 DEF Range, Rest

LEMMA JoinsRange ==
    ASSUME NEW S, NEW l \in Seq(S), NEW r \in Seq(S), NEW z \in Seq(S), NEW t, JoinsAround(z, l, t, r)
    PROVE  Range(z) = Range(l) \cup {t} \cup Range(r)
<1>1. /\ DOMAIN l = 1 .. Len(l) /\ DOMAIN r = 1 .. Len(r) /\ Len(l) \in Nat /\ Len(r) \in Nat
      /\ DOMAIN z = 1 .. Len(l) + 1 + Len(r)
      /\ \A i \in 1 .. Len(l) + 1 + Len(r) :
            z[i] = IF i <= Len(l) THEN l[i] ELSE IF i = Len(l) + 1 THEN t ELSE r[i - Len(l) - 1]
  BY DEF JoinsAround
<1>2. ASSUME NEW i \in DOMAIN z PROVE z[i] \in Range(l) \cup {t} \cup Range(r)
  <2>1. i <= Len(l) => i \in DOMAIN l /\ z[i] = l[i]
    BY <1>1
  <2>2. i = Len(l) + 1 => z[i] = t
    BY <1>1
  <2>3. ~(i <= Len(l)) /\ i # Len(l) + 1 => i - Len(l) - 1 \in DOMAIN r /\ z[i] = r[i - Len(l) - 1]
    BY <1>1
  <2> QED
    BY <2>1, <2>2, <2>3 DEF Range
<1>3. ASSUME NEW i \in DOMAIN l PROVE l[i] \in Range(z)
  <2>1. i \in DOMAIN z /\ z[i] = l[i]
    BY <1>1
  <2> QED
    BY <2>1 DEF Range
<1>4. ASSUME NEW i \in DOMAIN r PROVE r[i] \in Range(z)
  <2> DEFINE j == Len(l) + 1 + i
  <2>1. j \in DOMAIN z /\ ~(j <= Len(l)) /\ j # Len(l) + 1 /\ j - Len(l) - 1 = i
    BY <1>1
  <2> HIDE DEF j
  <2>2. z[j] = r[i]
    BY <1>1, <2>1
  <2> QED
    BY <2>1, <2>2 DEF Range
<1>5. t \in Range(z)
  <2>1. Len(l) + 1 \in DOMAIN z /\ z[Len(l) + 1] = t
    BY <1>1
  <2> QED
    BY <2>1 DEF Range
<1>6. Range(z) \subseteq Range(l) \cup {t} \cup Range(r)
  BY <1>2 DEF Range
<1>7. Range(l) \subseteq Range(z) /\ Range(r) \subseteq Range(z)
  BY <1>3, <1>4 DEF Range
<1> QED
  BY <1>5, <1>6, <1>7

\* All that the nodes W hold; what those of P hold; without what is stored under k; with
\* e in its place.
Tuples(W) == UNION {Range(W[i].values) : i \in DOMAIN W}
Held(W, P) == UNION {Range(W[i].values) : i \in P}
Outside(W, P) == DOMAIN W \ P
Without(T, k) == {t \in T : t.First # k}
Putting(T, k, e) == Without(T, k) \cup {e}

\* The nodes of P become those of Q, and the others hold what they held.
Turns(W, U, P, Q) ==
    /\ P \subseteq DOMAIN W /\ Q \subseteq DOMAIN U /\ DOMAIN W \ P = DOMAIN U \ Q
    /\ \A j \in DOMAIN W \ P : U[j] = W[j]

LEMMA HeldIn ==
    /\ \A W, P, t : t \in Held(W, P) <=> \E i \in P : t \in Range(W[i].values)
    /\ \A W : Tuples(W) = Held(W, DOMAIN W)
    /\ \A W, P, Q : Held(W, P \cup Q) = Held(W, P) \cup Held(W, Q)
    /\ \A W, x : Held(W, {x}) = Range(W[x].values)
BY DEF Held, Tuples

LEMMA TurnsHeld ==
    ASSUME NEW W, NEW U, NEW P, NEW Q, Turns(W, U, P, Q)
    PROVE  /\ Tuples(W) = Held(W, Outside(W, P)) \cup Held(W, P)
           /\ Tuples(U) = Held(W, Outside(W, P)) \cup Held(U, Q)
<1> DEFINE R == DOMAIN W \ P
<1>1. Held(U, R) = Held(W, R)
  BY DEF Turns, Held
<1>2. DOMAIN W = R \cup P /\ DOMAIN U = R \cup Q
  BY DEF Turns
<1> HIDE DEF R
<1>3. Tuples(W) = Held(W, R \cup P) /\ Tuples(U) = Held(U, R \cup Q)
  BY <1>2, HeldIn
<1>4. Tuples(W) = Held(W, R) \cup Held(W, P) /\ Tuples(U) = Held(U, R) \cup Held(U, Q)
  BY <1>3, HeldIn
<1>5. Outside(W, P) = R
  BY DEF R, Outside
<1> QED
  BY <1>1, <1>4, <1>5

LEMMA TurnsSame ==
    ASSUME NEW W, NEW U, NEW P, NEW Q, Turns(W, U, P, Q), Held(W, P) = Held(U, Q)
    PROVE  Tuples(U) = Tuples(W)
<1>1. /\ Tuples(W) = Held(W, Outside(W, P)) \cup Held(W, P)
      /\ Tuples(U) = Held(W, Outside(W, P)) \cup Held(U, Q)
  BY TurnsHeld
<1> QED
  BY <1>1

\* The values of a node.
LEMMA ValuesAt ==
    ASSUME NEW W, Typed(W), NEW i \in DOMAIN W
    PROVE  W[i].values \in Seq(Tuple)
BY TypedNode

\* Half of x becomes y, and what is between the halves goes to v.
LEMMA SplitTuples ==
    ASSUME NEW W, NEW U, Typed(W), Typed(U), NEW x \in DOMAIN W, NEW v \in DOMAIN W, x # v,
           NEW y, y \notin DOMAIN W, SplitInto(W, U, x, v, y), NEW t,
           JoinsAround(W[x].values, U[y].values, t, U[x].values),
           NEW q \in 0 .. Len(W[v].values), Inserts(U[v].values, W[v].values, t, q)
    PROVE  Tuples(U) = Tuples(W)
<1>1. x \in DOMAIN U /\ v \in DOMAIN U /\ y \in DOMAIN U
  BY DEF SplitInto
<1>2. Range(W[x].values) = Range(U[y].values) \cup {t} \cup Range(U[x].values)
  BY <1>1, ValuesAt, JoinsRange
<1>3. Range(U[v].values) = Range(W[v].values) \cup {t}
  BY <1>1, ValuesAt, InsertsRange
<1>4. Turns(W, U, {x, v}, {x, v, y})
  BY <1>1 DEF SplitInto, Turns
<1>5. Held(W, {x, v}) = Held(U, {x, v, y})
  BY <1>2, <1>3 DEF Held
<1> QED
  BY <1>4, <1>5, TurnsSame

LEMMA SplitRootTuples ==
    ASSUME NEW W, NEW U, Typed(W), Typed(U), NEW y, NEW z, RootInto(W, U, y, z), NEW t,
           JoinsAround(W[rootId].values, U[y].values, t, U[z].values), U[rootId].values = <<t>>
    PROVE  Tuples(U) = Tuples(W)
<1>1. rootId \in DOMAIN W /\ rootId \in DOMAIN U /\ y \in DOMAIN U /\ z \in DOMAIN U
  BY DEF RootInto, Typed
<1>2. Range(W[rootId].values) = Range(U[y].values) \cup {t} \cup Range(U[z].values)
  BY <1>1, ValuesAt, JoinsRange
<1>3. Range(U[rootId].values) = {t}
  BY DEF Range
<1>4. Turns(W, U, {rootId}, {rootId, y, z})
  BY <1>1 DEF RootInto, Turns
<1>5. Held(W, {rootId}) = Held(U, {rootId, y, z})
  BY <1>2, <1>3 DEF Held
<1> QED
  BY <1>4, <1>5, TurnsSame

\* x and y share out what they hold, and the tuple of v between them.
LEMMA MoveTuples ==
    ASSUME NEW W, NEW U, Typed(W), Typed(U), NEW x \in DOMAIN W, NEW y \in DOMAIN W, NEW v \in DOMAIN W,
           x # y, x # v, y # v, Rewrites(W, U, {x, y, v}), NEW t, NEW e, NEW q \in Nat, q < Len(W[v].values),
           t = W[v].values[q + 1], Shares(W[x], W[y], t, U[x], U[y], e),
           Swaps(U[v].values, W[v].values, e, q)
    PROVE  Tuples(U) = Tuples(W)
<1>1. x \in DOMAIN U /\ v \in DOMAIN U /\ y \in DOMAIN U
  BY DEF Rewrites
<1>2. PICK z \in Seq(Tuple) : /\ JoinsAround(z, W[x].values, t, W[y].values)
                              /\ JoinsAround(z, U[x].values, e, U[y].values)
  BY DEF Shares, CutInto
<1>3. Range(z) = Range(W[x].values) \cup {t} \cup Range(W[y].values)
  BY <1>2, ValuesAt, JoinsRange
<1>4. Range(z) = Range(U[x].values) \cup {e} \cup Range(U[y].values)
  BY <1>1, <1>2, ValuesAt, JoinsRange
<1> DEFINE R == Rest(W[v].values, q)
<1>5. Range(W[v].values) = R \cup {t}
  BY ValuesAt, RestRange
<1>6. Range(U[v].values) = R \cup {e}
  BY <1>1, ValuesAt, SwapsRange
<1> HIDE DEF R
<1>7. Turns(W, U, {x, y, v}, {x, y, v})
  BY <1>1 DEF Rewrites, Turns
<1>8. Held(W, {x, y, v}) = Range(z) \cup R
  BY <1>3, <1>5 DEF Held
<1>9. Held(U, {x, y, v}) = Range(z) \cup R
  BY <1>4, <1>6 DEF Held
<1> QED
  BY <1>7, <1>8, <1>9, TurnsSame

\* y and the tuple of v between them go to x.
LEMMA MergeTuples ==
    ASSUME NEW W, NEW U, Typed(W), Typed(U), NEW x \in DOMAIN W, NEW y \in DOMAIN W, NEW v \in DOMAIN W,
           x # y, x # v, y # v, Absorbs(W, U, x, y, v), NEW t, NEW q \in Nat, q < Len(W[v].values),
           t = W[v].values[q + 1], Unites(W[x], W[y], t, U[x]), Drops(U[v].values, W[v].values, q)
    PROVE  Tuples(U) = Tuples(W)
<1>1. x \in DOMAIN U /\ v \in DOMAIN U
  BY DEF Absorbs
<1>2. Range(U[x].values) = Range(W[x].values) \cup {t} \cup Range(W[y].values)
  BY <1>1, ValuesAt, JoinsRange DEF Unites
<1> DEFINE R == Rest(W[v].values, q)
<1>3. Range(W[v].values) = R \cup {t}
  BY ValuesAt, RestRange
<1>4. Range(U[v].values) = R
  BY <1>1, ValuesAt, DropsRange
<1> HIDE DEF R
<1>5. Turns(W, U, {x, y, v}, {x, v})
  BY <1>1 DEF Absorbs, Turns
<1>6. Held(W, {x, y, v}) = Held(U, {x, v})
  BY <1>2, <1>3, <1>4 DEF Held
<1> QED
  BY <1>5, <1>6, TurnsSame

LEMMA CollapseTuples ==
    ASSUME NEW W, NEW U, Typed(W), Typed(U), NEW x \in DOMAIN W, NEW y \in DOMAIN W,
           x # rootId, y # rootId, DOMAIN U = DOMAIN W \ {x, y},
           \A j \in DOMAIN U \ {rootId} : U[j] = W[j], NEW t, W[rootId].values = <<t>>,
           Unites(W[x], W[y], t, U[rootId])
    PROVE  Tuples(U) = Tuples(W)
<1>1. rootId \in DOMAIN W /\ rootId \in DOMAIN U
  BY DEF Typed
<1>2. Range(U[rootId].values) = Range(W[x].values) \cup {t} \cup Range(W[y].values)
  BY <1>1, ValuesAt, JoinsRange DEF Unites
<1>3. Range(W[rootId].values) = {t}
  BY DEF Range
<1>4. Turns(W, U, {rootId, x, y}, {rootId})
  BY <1>1 DEF Turns
<1>5. Held(W, {rootId, x, y}) = Held(U, {rootId})
  BY <1>2, <1>3 DEF Held
<1> QED
  BY <1>4, <1>5, TurnsSame

\* The tuple at position p of n has the key k.
KeyAt(n, p, k) == p \in Nat /\ p < Len(n.values) /\ n.values[p + 1].First = k

Others(W, x, p) == Held(W, Outside(W, {x})) \cup Rest(W[x].values, p)

\* No other one has.
LEMMA OthersThan ==
    ASSUME NEW W, Typed(W), KeysOnce(W), NEW x \in DOMAIN W, NEW p, NEW k, KeyAt(W[x], p, k)
    PROVE  Without(Tuples(W), k) = Others(W, x, p)
<1> DEFINE C == Held(W, Outside(W, {x}))
           D == Rest(W[x].values, p)
<1>1. p + 1 \in DOMAIN W[x].values
  BY ValuesAt DEF KeyAt
<1>2. PICK n : n = p + 1
  OBVIOUS
<1>3. n \in DOMAIN W[x].values /\ W[x].values[n].First = k
  BY <1>1, <1>2 DEF KeyAt
<1>4. ASSUME NEW t \in Tuples(W) PROVE t \in C \cup D \/ t.First = k
  <2>1. PICK i \in DOMAIN W : t \in Range(W[i].values)
    BY DEF Tuples
  <2>2. PICK m \in DOMAIN W[i].values : t = W[i].values[m]
    BY <2>1 DEF Range
  <2>3. CASE i # x
    BY <2>1, <2>3 DEF Held, Outside
  <2>4. CASE i = x /\ m # n
    BY <1>2, <2>2, <2>4 DEF Rest
  <2>5. CASE i = x /\ m = n
    BY <1>3, <2>2, <2>5
  <2> QED
    BY <2>3, <2>4, <2>5
<1>5. ASSUME NEW t \in C PROVE t \in Tuples(W) /\ t.First # k
  <2>1. PICK i \in DOMAIN W \ {x} : t \in Range(W[i].values)
    BY DEF Held, Outside
  <2>2. PICK m \in DOMAIN W[i].values : t = W[i].values[m]
    BY <2>1 DEF Range
  <2>3. t \in Tuples(W)
    BY <2>1 DEF Tuples
  <2>4. t.First # k
    BY <1>3, <2>2 DEF KeysOnce
  <2> QED
    BY <2>3, <2>4
<1>6. ASSUME NEW t \in D PROVE t \in Tuples(W) /\ t.First # k
  <2>1. PICK m \in DOMAIN W[x].values : m # n /\ t = W[x].values[m]
    BY <1>2 DEF Rest
  <2>2. t \in Tuples(W)
    BY <2>1 DEF Tuples, Range
  <2>3. t.First # k
    BY <1>3, <2>1 DEF KeysOnce
  <2> QED
    BY <2>2, <2>3
<1> HIDE DEF C, D
<1>7. Without(Tuples(W), k) = C \cup D
  BY <1>4, <1>5, <1>6 DEF Without
<1> QED
  BY <1>7 DEF C, D, Others

\* One node is rewritten.
LEMMA OneTurns ==
    ASSUME NEW W, NEW U, NEW x \in DOMAIN W, Rewrites(W, U, {x})
    PROVE  /\ x \in DOMAIN U
           /\ Tuples(W) = Held(W, Outside(W, {x})) \cup Range(W[x].values)
           /\ Tuples(U) = Held(W, Outside(W, {x})) \cup Range(U[x].values)
<1>1. x \in DOMAIN U /\ Turns(W, U, {x}, {x})
  BY DEF Rewrites, Turns
<1>2. /\ Tuples(W) = Held(W, Outside(W, {x})) \cup Held(W, {x})
      /\ Tuples(U) = Held(W, Outside(W, {x})) \cup Held(U, {x})
  BY <1>1, TurnsHeld
<1>3. Held(W, {x}) = Range(W[x].values) /\ Held(U, {x}) = Range(U[x].values)
  BY HeldIn
<1> QED
  BY <1>1, <1>2, <1>3

\* A node loses a tuple, ...
LEMMA DropTuples ==
    ASSUME NEW W, NEW U, Typed(W), Typed(U), KeysOnce(W), NEW x \in DOMAIN W, Rewrites(W, U, {x}),
           NEW p, NEW k, KeyAt(W[x], p, k), Drops(U[x].values, W[x].values, p)
    PROVE  Tuples(U) = Without(Tuples(W), k)
<1>1. /\ x \in DOMAIN U
      /\ Tuples(W) = Held(W, Outside(W, {x})) \cup Range(W[x].values)
      /\ Tuples(U) = Held(W, Outside(W, {x})) \cup Range(U[x].values)
  BY OneTurns
<1>2. Range(U[x].values) = Rest(W[x].values, p)
  BY <1>1, ValuesAt, DropsRange DEF KeyAt
<1>3. Without(Tuples(W), k) = Others(W, x, p)
  BY OthersThan
<1> QED
  BY <1>1, <1>2, <1>3 DEF Others

\* ... has another value for a key, ...
LEMMA SwapsTuples ==
    ASSUME NEW W, NEW U, Typed(W), Typed(U), KeysOnce(W), NEW x \in DOMAIN W, Rewrites(W, U, {x}),
           NEW p, NEW k, KeyAt(W[x], p, k), NEW e, Swaps(U[x].values, W[x].values, e, p)
    PROVE  Tuples(U) = Putting(Tuples(W), k, e)
<1> DEFINE O == Held(W, Outside(W, {x}))
           R == Rest(W[x].values, p)
           E == {e}
<1>1. x \in DOMAIN U /\ Tuples(W) = O \cup Range(W[x].values) /\ Tuples(U) = O \cup Range(U[x].values)
  BY OneTurns
<1>2. Range(U[x].values) = R \cup E
  BY <1>1, ValuesAt, SwapsRange DEF KeyAt
<1>3. Without(Tuples(W), k) = O \cup R
  <2>1. Without(Tuples(W), k) = Others(W, x, p)
    BY OthersThan
  <2> QED
    BY <2>1 DEF Others
<1> HIDE DEF O, R, E
<1>4. Tuples(U) = Without(Tuples(W), k) \cup E
  BY <1>1, <1>2, <1>3
<1> QED
  BY <1>4 DEF E, Putting

\* ... or gets a tuple whose key nobody has.
Lacks(T, k) == \A t \in T : t.First # k

LEMMA InsertTuples ==
    ASSUME NEW W, NEW U, Typed(W), Typed(U), NEW x \in DOMAIN W, Rewrites(W, U, {x}),
           NEW e, NEW p \in 0 .. Len(W[x].values), Inserts(U[x].values, W[x].values, e, p),
           NEW k, Lacks(Tuples(W), k)
    PROVE  Tuples(U) = Putting(Tuples(W), k, e)
<1> DEFINE O == Held(W, Outside(W, {x}))
           E == {e}
<1>1. x \in DOMAIN U /\ Tuples(U) = O \cup Range(U[x].values) /\ Tuples(W) = O \cup Range(W[x].values)
  BY OneTurns
<1>2. Range(U[x].values) = Range(W[x].values) \cup E
  BY <1>1, ValuesAt, InsertsRange
<1>3. Without(Tuples(W), k) = Tuples(W)
  BY DEF Without, Lacks
<1> HIDE DEF O, E
<1>4. Tuples(U) = Without(Tuples(W), k) \cup E
  BY <1>1, <1>2, <1>3
<1> QED
  BY <1>4 DEF E, Putting

\* The last tuple of x takes the place of another one.
LEMMA ReplaceTuples ==
    ASSUME NEW W, NEW U, Typed(W), Typed(U), KeysOnce(W), NEW x \in DOMAIN W, NEW j \in DOMAIN W, j # x,
           Rewrites(W, U, {x, j}), NEW l \in Nat, l < Len(W[x].values), Drops(U[x].values, W[x].values, l),
           NEW e, e = W[x].values[l + 1], NEW p, NEW k, KeyAt(W[j], p, k),
           Swaps(U[j].values, W[j].values, e, p)
    PROVE  Tuples(U) = Without(Tuples(W), k)
<1>1. x \in DOMAIN U /\ j \in DOMAIN U /\ Turns(W, U, {x, j}, {x, j})
  BY DEF Rewrites, Turns
<1> DEFINE R == Rest(W[x].values, l)
           S == Rest(W[j].values, p)
           O == Outside(W, {x, j})
<1>2. Tuples(U) = Held(W, O) \cup Held(U, {x, j})
  BY <1>1, TurnsHeld
<1>3. Range(U[x].values) = R
  BY <1>1, ValuesAt, DropsRange
<1>4. Range(U[j].values) = S \cup {e}
  BY <1>1, ValuesAt, SwapsRange DEF KeyAt
<1>5. Range(W[x].values) = R \cup {e}
  BY ValuesAt, RestRange
<1>6. Without(Tuples(W), k) = Held(W, Outside(W, {j})) \cup S
  <2>1. Without(Tuples(W), k) = Others(W, j, p)
    BY OthersThan
  <2> QED
    BY <2>1 DEF Others
<1>7. Outside(W, {j}) = O \cup {x} /\ {x, j} = {x} \cup {j}
  BY DEF Outside
<1> HIDE DEF R, S, O
<1>8. Held(W, Outside(W, {j})) = Held(W, O) \cup (R \cup {e})
  BY <1>5, <1>7, HeldIn
<1>9. Held(U, {x, j}) = R \cup (S \cup {e})
  BY <1>3, <1>4, <1>7, HeldIn
<1> QED
  BY <1>2, <1>6, <1>8, <1>9

\* A key that is looked for in the right leaf, and not found, is nowhere.
LEMMA AbsentKey ==
    ASSUME NEW W, NEW h, Tree(W, h), NEW Lo, NEW Hi, Ordered(W, Lo, Hi), NEW x \in DOMAIN W, h[x] = 0,
           NEW k, Within(k, x, Lo, Hi), NEW p \in find(W[x].values, k), ~Found(W[x].values, k, p)
    PROVE  Lacks(Tuples(W), k)
<1> SUFFICES ASSUME NEW t \in Tuples(W), t.First = k PROVE FALSE
  BY DEF Lacks
<1>1. PICK i \in DOMAIN W : t \in Range(W[i].values)
  BY DEF Tuples
<1>2. Holds(W[i], k)
  BY <1>1 DEF Range, Holds
<1>3. h[x] <= h[i]
  BY TreeParts
<1>4. i = x
  BY <1>2, <1>3, KeyHere
<1>5. k \in Int
  BY <1>2, HeldWithin
<1>6. PICK v : v = W[x].values
  OBVIOUS
<1>7. v \in Seq(Tuple) /\ Len(v) \in Nat
  BY <1>6, ValuesAt DEF Tree
<1>8. PICK m \in DOMAIN v : v[m].First = k
  BY <1>2, <1>4, <1>6 DEF Holds
<1>9. p \in 0 .. Len(v) /\ (\A n \in 1 .. p : v[n].First < k)
      /\ (\A n \in p + 1 .. Len(v) : k <= v[n].First) /\ ~(p < Len(v) /\ v[p + 1].First = k)
  BY <1>6 DEF find, Found
<1>10. m \in 1 .. Len(v) /\ ~(m <= p)
  BY <1>5, <1>7, <1>8, <1>9
<1>11. InOrder(v, Lo[x], Hi[x])
  <2>1. W[x].id = x
    BY DEF Tree, Typed
  <2> QED
    BY <1>6, <2>1 DEF Ordered, NodeInOrder
<1>12. m # p + 1
  BY <1>8, <1>9, <1>10
<1>13. p + 1 \in 1 .. Len(v) /\ p + 1 < m
  BY <1>7, <1>9, <1>10, <1>12
<1>14. v[p + 1].First < v[m].First
  BY <1>7, <1>10, <1>11, <1>13 DEF InOrder, Rising, Fences
<1>15. k <= v[p + 1].First /\ v[p + 1].First \in Int
  <2>1. v[p + 1] \in Tuple
    BY <1>7, <1>13
  <2>2. p + 1 \in p + 1 .. Len(v)
    BY <1>7, <1>9, <1>13
  <2> QED
    BY <1>9, <2>1, <2>2, KeyOfTuple
<1> QED
  BY <1>5, <1>8, <1>14, <1>15

\* g is the key before k.
Before(T, g, k) == g < k /\ \A t \in T : t.First < k => t.First <= g

\* The last key of the leaf whose upper bound is a key is the one before that.
LEMMA LastBefore ==
    ASSUME NEW W, NEW h, Tree(W, h), NEW Lo, NEW Hi, Ordered(W, Lo, Hi), NEW x \in DOMAIN W, h[x] = 0,
           W[x].values # <<>>, NEW u, Hi[x] = Key(u), NEW e, e = Final(W[x].values)
    PROVE  Before(Tuples(W), e.First, u.First)
<1>1. PICK v : v = W[x].values
  OBVIOUS
<1>2. v \in Seq(Tuple) /\ Len(v) \in Nat /\ v # <<>>
  BY <1>1, ValuesAt DEF Tree
<1>3. PICK m : m = Len(v)
  OBVIOUS
<1>4. m \in 1 .. Len(v) /\ m \in DOMAIN v /\ e = v[m]
  BY <1>1, <1>2, <1>3 DEF Final
<1>5. PICK g : g = e.First
  OBVIOUS
<1>6. Holds(W[x], g)
  BY <1>1, <1>4, <1>5 DEF Holds
<1>7. g \in Int /\ Within(g, x, Lo, Hi)
  BY <1>6, HeldWithin
<1>8. InOrder(v, Lo[x], Hi[x])
  <2>1. W[x].id = x
    BY DEF Tree, Typed
  <2> QED
    BY <1>1, <2>1 DEF Ordered, NodeInOrder
<1>9. Lo[x] \subseteq Int /\ Hi[x] \subseteq Int
  BY <1>2, <1>8 DEF InOrder, Rising, Fences
<1>10. PICK k : k = u.First
  OBVIOUS
<1>11. Hi[x] = {k} /\ k \in Int
  BY <1>9, <1>10 DEF Key
<1>12. g < k /\ \A l \in Lo[x] : l < g
  BY <1>7, <1>11 DEF Within, Between
<1>13. ASSUME NEW t \in Tuples(W), t.First < k PROVE t.First <= g
  <2>1. PICK i \in DOMAIN W : t \in Range(W[i].values)
    BY DEF Tuples
  <2>2. PICK f : f = t.First
    OBVIOUS
  <2>3. Holds(W[i], f)
    BY <2>1, <2>2 DEF Range, Holds
  <2>4. f \in Int
    BY <2>3, HeldWithin
  <2>5. SUFFICES ASSUME g < f PROVE FALSE
    BY <1>7, <2>2, <2>4
  <2>6. Within(f, x, Lo, Hi)
    BY <1>7, <1>9, <1>11, <1>12, <1>13, <2>2, <2>4, <2>5 DEF Within, Between
  <2>7. h[x] <= h[i]
    BY TreeParts
  <2>8. i = x
    BY <2>3, <2>6, <2>7, KeyHere
  <2>9. PICK n \in DOMAIN v : v[n].First = f
    BY <1>1, <2>3, <2>8 DEF Holds
  <2>10. n \in 1 .. Len(v) /\ n # m
    BY <1>2, <1>4, <1>5, <1>7, <2>4, <2>5, <2>9
  <2>11. n < m
    BY <1>2, <1>3, <2>10
  <2>12. v[n].First < v[m].First
    BY <1>2, <1>4, <1>8, <2>10, <2>11 DEF InOrder, Rising, Fences
  <2> QED
    BY <1>4, <1>5, <1>7, <2>4, <2>5, <2>9, <2>12
<1> QED
  BY <1>5, <1>10, <1>12, <1>13 DEF Before
=============================================================================
