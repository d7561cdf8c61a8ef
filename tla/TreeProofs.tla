----------------------------- MODULE TreeProofs -----------------------------
(***************************************************************************)
(* Tree keeps its types, its root and the capacity of its nodes, for every *)
(* a, b, set of keys and ids, either backend, any choice of ids by NewId   *)
(* and any number of failing storage calls.                                *)
(***************************************************************************)
EXTENDS TreeProperties, SequenceTheorems, TLAPS

-----------------------------------------------------------------------------
(* What the helpers of slices.go and the searches return: slices of the    *)
(* same type, and how long.                                                *)

\* A part of a slice.
LEMMA PartOf ==
    ASSUME NEW S, NEW s \in Seq(S), NEW m \in Int, NEW n \in Int,
           m >= 1, n <= Len(s), n >= m - 1
    PROVE  /\ SubSeq(s, m, n) \in Seq(S)
           /\ Len(SubSeq(s, m, n)) = n - m + 1
           /\ \A i \in 1 .. n - m + 1 : SubSeq(s, m, n)[i] = s[m + i - 1]
<1>1. \A i \in m .. n : s[i] \in S
  OBVIOUS
<1> QED
  BY <1>1, SubSeqProperties

LEMMA Joined ==
    ASSUME NEW S, NEW s \in Seq(S), NEW t \in Seq(S)
    PROVE  s \o t \in Seq(S) /\ Len(s \o t) = Len(s) + Len(t)
BY ConcatProperties

LEMMA JoinedAround ==
    ASSUME NEW S, NEW s \in Seq(S), NEW e \in S, NEW t \in Seq(S)
    PROVE  s \o <<e>> \o t \in Seq(S) /\ Len(s \o <<e>> \o t) = Len(s) + 1 + Len(t)
<1> DEFINE z == s \o <<e>>
<1>1. <<e>> \in Seq(S) /\ Len(<<e>>) = 1
  OBVIOUS
<1>2. z \in Seq(S) /\ Len(z) = Len(s) + 1
  BY <1>1, Joined
<1>3. Len(s) \in Nat /\ Len(t) \in Nat
  OBVIOUS
<1> HIDE DEF z
<1>4. z \o t \in Seq(S) /\ Len(z \o t) = Len(z) + Len(t)
  BY <1>2, Joined
<1> QED
  BY <1>2, <1>3, <1>4 DEF z

LEMMA PopType ==
    ASSUME NEW S, NEW s \in Seq(S), NEW p \in Nat, p < Len(s)
    PROVE  pop(s, p) \in Seq(S) /\ Len(pop(s, p)) = Len(s) - 1
<1> DEFINE x == SubSeq(s, 1, (p + 1) - 1)
           y == SubSeq(s, p + 1 + 1, Len(s))
<1>1. Len(s) \in Nat
  OBVIOUS
<1>2. x \in Seq(S) /\ Len(x) = p
  BY <1>1, PartOf
<1>3. y \in Seq(S) /\ Len(y) = Len(s) - p - 1
  BY <1>1, PartOf
<1>4. pop(s, p) = x \o y
  BY DEF pop, SX!RemoveAt
<1> HIDE DEF x, y
<1> QED
  BY <1>1, <1>2, <1>3, <1>4, Joined

LEMMA PopLastType ==
    ASSUME NEW S, NEW s \in Seq(S), s # <<>>
    PROVE  /\ popLast(s) \in Seq(S) /\ Len(popLast(s)) = Len(s) - 1
           /\ \A i \in 1 .. Len(s) - 1 : popLast(s)[i] = s[i]
<1>1. Len(s) \in Nat \ {0}
  OBVIOUS
<1> DEFINE n == Len(s) - 1
<1>2. n \in Int /\ 1 \in Int /\ n <= Len(s) /\ n >= 0 /\ n - 1 + 1 = n
  BY <1>1
<1>3. popLast(s) = SubSeq(s, 1, n)
  BY DEF popLast
<1> HIDE DEF n
<1>4. /\ SubSeq(s, 1, n) \in Seq(S) /\ Len(SubSeq(s, 1, n)) = n - 1 + 1
      /\ \A i \in 1 .. n - 1 + 1 : SubSeq(s, 1, n)[i] = s[1 + i - 1]
  BY <1>2, PartOf
<1>5. \A i \in 1 .. n : SubSeq(s, 1, n)[i] = s[i]
  BY <1>2, <1>4
<1> QED
  BY <1>2, <1>3, <1>4, <1>5 DEF n

LEMMA SwapType ==
    ASSUME NEW S, NEW s \in Seq(S), NEW p \in Nat, p < Len(s), NEW e \in S
    PROVE  swap(s, p, e) \in Seq(S) /\ Len(swap(s, p, e)) = Len(s)
BY DEF swap, SX!ReplaceAt

LEMMA PrependType ==
    ASSUME NEW S, NEW s \in Seq(S), NEW e \in S
    PROVE  prepend(s, e) \in Seq(S) /\ Len(prepend(s, e)) = Len(s) + 1
<1>1. <<e>> \in Seq(S) /\ Len(<<e>>) = 1 /\ Len(s) \in Nat
  OBVIOUS
<1> QED
  BY <1>1, Joined DEF prepend

LEMMA PrependBeforeType ==
    ASSUME NEW S, NEW s \in Seq(S), NEW e \in S, NEW i \in DOMAIN s
    PROVE  prependBefore(s, e, i) \in Seq(S) /\ Len(prependBefore(s, e, i)) = Len(s) + 1
<1> DEFINE x == SubSeq(s, 1, i - 1)
           y == SubSeq(s, i, Len(s))
<1>1. Len(s) \in Nat /\ i \in 1 .. Len(s)
  OBVIOUS
<1>2. x \in Seq(S) /\ Len(x) = i - 1
  BY <1>1, PartOf
<1>3. y \in Seq(S) /\ Len(y) = Len(s) - i + 1
  BY <1>1, PartOf
<1>4. prependBefore(s, e, i) = x \o <<e>> \o y
  BY DEF prependBefore, SX!InsertAt
<1> HIDE DEF x, y
<1>5. x \o <<e>> \o y \in Seq(S) /\ Len(x \o <<e>> \o y) = Len(x) + 1 + Len(y)
  BY <1>2, <1>3, JoinedAround
<1>6. Len(x) + 1 + Len(y) = Len(s) + 1
  BY <1>1, <1>2, <1>3
<1> QED
  BY <1>4, <1>5, <1>6

-----------------------------------------------------------------------------
(* The elements of a slice, for slices that hold nothing twice.            *)

LEMMA PartElements ==
    ASSUME NEW S, NEW s \in Seq(S), NEW m \in Int, NEW n \in Int,
           m >= 1, n <= Len(s), n >= m - 1
    PROVE  /\ Range(SubSeq(s, m, n)) = {s[k] : k \in m .. n}
           /\ IsInjective(s) => IsInjective(SubSeq(s, m, n))
<1> DEFINE t == SubSeq(s, m, n)
<1>1. /\ t \in Seq(S) /\ Len(t) = n - m + 1
      /\ \A i \in 1 .. n - m + 1 : t[i] = s[m + i - 1]
  BY PartOf
<1> HIDE DEF t
<1>2. DOMAIN t = 1 .. n - m + 1 /\ DOMAIN s = 1 .. Len(s) /\ Len(s) \in Nat
  BY <1>1
<1>3. \A k \in m .. n : k - m + 1 \in DOMAIN t /\ t[k - m + 1] = s[k]
  BY <1>1, <1>2
<1>4. \A i \in DOMAIN t : m + i - 1 \in m .. n /\ m + i - 1 \in DOMAIN s /\ t[i] = s[m + i - 1]
  BY <1>1, <1>2
<1>5. Range(t) = {s[k] : k \in m .. n}
  BY <1>3, <1>4 DEF Range
<1>6. ASSUME IsInjective(s) PROVE IsInjective(t)
  BY <1>2, <1>4, <1>6 DEF IsInjective
<1> QED
  BY <1>5, <1>6 DEF t

LEMMA JoinedElements ==
    ASSUME NEW S, NEW s \in Seq(S), NEW t \in Seq(S)
    PROVE  /\ Range(s \o t) = Range(s) \cup Range(t)
           /\ IsInjective(s) /\ IsInjective(t) /\ Range(s) \cap Range(t) = {} => IsInjective(s \o t)
<1> DEFINE u == s \o t
<1>1. /\ Len(s) \in Nat /\ Len(t) \in Nat /\ DOMAIN u = 1 .. Len(s) + Len(t)
      /\ DOMAIN s = 1 .. Len(s) /\ DOMAIN t = 1 .. Len(t)
      /\ \A k \in DOMAIN u : u[k] = IF k <= Len(s) THEN s[k] ELSE t[k - Len(s)]
  BY ConcatProperties
<1> HIDE DEF u
<1>2. \A k \in DOMAIN u : IF k <= Len(s) THEN k \in DOMAIN s ELSE k - Len(s) \in DOMAIN t
  BY <1>1
<1>3. Range(s \o t) = Range(s) \cup Range(t)
  BY RangeConcatenation
<1>4. ASSUME IsInjective(s), IsInjective(t), Range(s) \cap Range(t) = {}
      PROVE  IsInjective(u)
  <2>1. ASSUME NEW j \in DOMAIN u, NEW k \in DOMAIN u, u[j] = u[k]
        PROVE  j = k
    <3>1. CASE j <= Len(s) /\ k <= Len(s)
      BY <1>1, <1>2, <1>4, <2>1, <3>1 DEF IsInjective
    <3>2. CASE ~(j <= Len(s)) /\ ~(k <= Len(s))
      <4>1. j - Len(s) = k - Len(s)
        BY <1>1, <1>2, <1>4, <2>1, <3>2 DEF IsInjective
      <4> QED
        BY <1>1, <4>1
    <3>3. ~(j <= Len(s) /\ ~(k <= Len(s)))
      BY <1>1, <1>2, <1>4, <2>1 DEF Range
    <3>4. ~(k <= Len(s) /\ ~(j <= Len(s)))
      BY <1>1, <1>2, <1>4, <2>1 DEF Range
    <3> QED
      BY <3>1, <3>2, <3>3, <3>4
  <2> QED
    BY <2>1 DEF IsInjective
<1> QED
  BY <1>3, <1>4 DEF u

LEMMA OneElement ==
    ASSUME NEW S, NEW e \in S
    PROVE  <<e>> \in Seq(S) /\ Range(<<e>>) = {e} /\ IsInjective(<<e>>)
BY DEF Range, IsInjective

LEMMA AppendElements ==
    ASSUME NEW S, NEW s \in Seq(S), NEW e \in S
    PROVE  /\ Range(Append(s, e)) = Range(s) \cup {e}
           /\ IsInjective(s) /\ e \notin Range(s) => IsInjective(Append(s, e))
<1>1. Append(s, e) = s \o <<e>>
  BY AppendIsConcat
<1>2. <<e>> \in Seq(S) /\ Range(<<e>>) = {e} /\ IsInjective(<<e>>)
  BY OneElement
<1> DEFINE f == <<e>>
<1> HIDE DEF f
<1>3. f \in Seq(S) /\ Range(f) = {e} /\ IsInjective(f) /\ Append(s, e) = s \o f
  BY <1>1, <1>2 DEF f
<1> QED
  BY <1>3, JoinedElements

LEMMA PrependElements ==
    ASSUME NEW S, NEW s \in Seq(S), NEW e \in S
    PROVE  /\ Range(prepend(s, e)) = Range(s) \cup {e}
           /\ IsInjective(s) /\ e \notin Range(s) => IsInjective(prepend(s, e))
<1> DEFINE f == <<e>>
<1>1. f \in Seq(S) /\ Range(f) = {e} /\ IsInjective(f) /\ prepend(s, e) = f \o s
  BY OneElement DEF prepend
<1> HIDE DEF f
<1> QED
  BY <1>1, JoinedElements

LEMMA PopElements ==
    ASSUME NEW S, NEW s \in Seq(S), IsInjective(s), NEW p \in Nat, p < Len(s)
    PROVE  Range(pop(s, p)) = Range(s) \ {s[p + 1]} /\ IsInjective(pop(s, p))
<1> DEFINE x == SubSeq(s, 1, (p + 1) - 1)
           y == SubSeq(s, p + 1 + 1, Len(s))
<1>1. Len(s) \in Nat /\ DOMAIN s = 1 .. Len(s) /\ p + 1 \in 1 .. Len(s)
  OBVIOUS
<1>2. x \in Seq(S) /\ Range(x) = {s[k] : k \in 1 .. p} /\ IsInjective(x)
  <2>1. x = SubSeq(s, 1, p)
    BY <1>1
  <2>2. SubSeq(s, 1, p) \in Seq(S)
    BY <1>1, PartOf
  <2>3. Range(SubSeq(s, 1, p)) = {s[k] : k \in 1 .. p} /\ IsInjective(SubSeq(s, 1, p))
    BY <1>1, PartElements
  <2> QED
    BY <2>1, <2>2, <2>3
<1>3. y \in Seq(S) /\ Range(y) = {s[k] : k \in p + 2 .. Len(s)} /\ IsInjective(y)
  <2>1. y = SubSeq(s, p + 2, Len(s))
    BY <1>1
  <2>2. SubSeq(s, p + 2, Len(s)) \in Seq(S)
    BY <1>1, PartOf
  <2>3. /\ Range(SubSeq(s, p + 2, Len(s))) = {s[k] : k \in p + 2 .. Len(s)}
        /\ IsInjective(SubSeq(s, p + 2, Len(s)))
    BY <1>1, PartElements
  <2> QED
    BY <2>1, <2>2, <2>3
<1>4. pop(s, p) = x \o y
  BY DEF pop, SX!RemoveAt
<1> HIDE DEF x, y
<1>5. \A j, k \in 1 .. Len(s) : s[j] = s[k] => j = k
  BY <1>1 DEF IsInjective
<1>6. Range(x) \cap Range(y) = {}
  <2>1. \A j \in 1 .. p, k \in p + 2 .. Len(s) : s[j] # s[k]
    BY <1>1, <1>5
  <2> QED
    BY <1>2, <1>3, <2>1
<1>7. Range(x) \cup Range(y) = Range(s) \ {s[p + 1]}
  <2>1. Range(s) = {s[k] : k \in 1 .. Len(s)}
    BY <1>1 DEF Range
  <2>2. (1 .. Len(s)) \ {p + 1} = (1 .. p) \cup (p + 2 .. Len(s))
    BY <1>1
  <2>3. Range(s) \ {s[p + 1]} = {s[k] : k \in (1 .. Len(s)) \ {p + 1}}
    BY <1>1, <1>5, <2>1
  <2> QED
    BY <1>2, <1>3, <2>2, <2>3
<1>8. Range(x \o y) = Range(x) \cup Range(y) /\ IsInjective(x \o y)
  <2>1. x \in Seq(S) /\ y \in Seq(S) /\ IsInjective(x) /\ IsInjective(y)
    BY <1>2, <1>3
  <2> QED
    BY <1>6, <2>1, JoinedElements
<1> QED
  BY <1>4, <1>7, <1>8

LEMMA PopLastElements ==
    ASSUME NEW S, NEW s \in Seq(S), IsInjective(s), s # <<>>
    PROVE  Range(popLast(s)) = Range(s) \ {s[Len(s)]} /\ IsInjective(popLast(s))
<1>1. Len(s) \in Nat \ {0} /\ DOMAIN s = 1 .. Len(s)
  OBVIOUS
<1>2. /\ Range(popLast(s)) = {s[k] : k \in 1 .. Len(s) - 1}
      /\ IsInjective(popLast(s))
  BY <1>1, PartElements DEF popLast
<1>3. \A j, k \in 1 .. Len(s) : s[j] = s[k] => j = k
  BY <1>1 DEF IsInjective
<1>4. Range(s) = {s[k] : k \in 1 .. Len(s)}
  BY <1>1 DEF Range
<1> QED
  BY <1>1, <1>2, <1>3, <1>4

LEMMA PrependBeforeElements ==
    ASSUME NEW S, NEW s \in Seq(S), IsInjective(s), NEW e \in S, e \notin Range(s),
           NEW i \in DOMAIN s
    PROVE  Range(prependBefore(s, e, i)) = Range(s) \cup {e} /\ IsInjective(prependBefore(s, e, i))
<1> DEFINE x == SubSeq(s, 1, i - 1)
           y == SubSeq(s, i, Len(s))
           f == <<e>>
           z == x \o f
<1>1. Len(s) \in Nat /\ DOMAIN s = 1 .. Len(s) /\ i \in 1 .. Len(s)
  OBVIOUS
<1>2. x \in Seq(S) /\ Range(x) = {s[k] : k \in 1 .. i - 1} /\ IsInjective(x)
  BY <1>1, PartOf, PartElements
<1>3. y \in Seq(S) /\ Range(y) = {s[k] : k \in i .. Len(s)} /\ IsInjective(y)
  BY <1>1, PartOf, PartElements
<1>4. prependBefore(s, e, i) = z \o y
  BY DEF prependBefore, SX!InsertAt
<1>5. \A j, k \in 1 .. Len(s) : s[j] = s[k] => j = k
  BY <1>1 DEF IsInjective
<1>6. Range(s) = {s[k] : k \in 1 .. Len(s)}
  BY <1>1 DEF Range
<1> HIDE DEF x, y
<1>7. Range(x) \cap Range(y) = {} /\ Range(x) \cup Range(y) = Range(s)
  <2>1. Range(x) \cap Range(y) = {}
    <3>1. \A j \in 1 .. i - 1, k \in i .. Len(s) : s[j] # s[k]
      BY <1>1, <1>5
    <3> QED
      BY <1>2, <1>3, <3>1
  <2>2. 1 .. Len(s) = (1 .. i - 1) \cup (i .. Len(s))
    BY <1>1
  <2> QED
    BY <1>2, <1>3, <1>6, <2>1, <2>2
<1>8. f \in Seq(S) /\ Range(f) = {e} /\ IsInjective(f)
  BY OneElement
<1> HIDE DEF f
<1>9. z \in Seq(S) /\ Range(z) = Range(x) \cup {e} /\ IsInjective(z)
  BY <1>2, <1>7, <1>8, JoinedElements, Joined
<1> HIDE DEF z
<1>10. Range(z) \cap Range(y) = {} /\ Range(z) \cup Range(y) = Range(s) \cup {e}
  BY <1>7, <1>9
<1>11. Range(z \o y) = Range(z) \cup Range(y) /\ IsInjective(z \o y)
  <2>1. z \in Seq(S) /\ y \in Seq(S) /\ IsInjective(z) /\ IsInjective(y)
    BY <1>3, <1>9
  <2>2. Range(z) \cap Range(y) = {}
    BY <1>10
  <2> QED
    BY <2>1, <2>2, JoinedElements
<1> QED
  BY <1>4, <1>10, <1>11

-----------------------------------------------------------------------------
(* The elements of a slice by their positions.                             *)

LEMMA JoinedAt ==
    ASSUME NEW S, NEW s \in Seq(S), NEW t \in Seq(S)
    PROVE  /\ s \o t \in Seq(S) /\ Len(s \o t) = Len(s) + Len(t)
           /\ \A i \in 1 .. Len(s) + Len(t) : (s \o t)[i] = IF i <= Len(s) THEN s[i] ELSE t[i - Len(s)]
BY ConcatProperties

\* z is s, e and t.
JoinsAround(z, s, e, t) ==
    /\ Len(z) = Len(s) + 1 + Len(t)
    /\ \A i \in 1 .. Len(z) : z[i] = IF i <= Len(s) THEN s[i]
                                     ELSE IF i = Len(s) + 1 THEN e ELSE t[i - Len(s) - 1]

LEMMA JoinedAroundAt ==
    ASSUME NEW S, NEW s \in Seq(S), NEW e \in S, NEW t \in Seq(S)
    PROVE  s \o <<e>> \o t \in Seq(S) /\ JoinsAround(s \o <<e>> \o t, s, e, t)
<1> DEFINE f == <<e>>
           y == s \o f
           z == y \o t
<1>1. f \in Seq(S) /\ Len(f) = 1 /\ f[1] = e /\ Len(s) \in Nat /\ Len(t) \in Nat
  OBVIOUS
<1> HIDE DEF f
<1>2. /\ y \in Seq(S) /\ Len(y) = Len(s) + 1
      /\ \A i \in 1 .. Len(s) + 1 : y[i] = IF i <= Len(s) THEN s[i] ELSE f[i - Len(s)]
  <2>1. /\ y \in Seq(S) /\ Len(y) = Len(s) + Len(f)
        /\ \A i \in 1 .. Len(s) + Len(f) : y[i] = IF i <= Len(s) THEN s[i] ELSE f[i - Len(s)]
    BY <1>1, JoinedAt
  <2> HIDE DEF y
  <2> QED
    BY <1>1, <2>1
<1> HIDE DEF y
<1>3. /\ z \in Seq(S) /\ Len(z) = Len(y) + Len(t)
      /\ \A i \in 1 .. Len(y) + Len(t) : z[i] = IF i <= Len(y) THEN y[i] ELSE t[i - Len(y)]
  BY <1>1, <1>2, JoinedAt
<1> HIDE DEF z
<1>4. \A i \in 1 .. Len(s) + 1 : y[i] = IF i <= Len(s) THEN s[i] ELSE e
  <2>1. TAKE i \in 1 .. Len(s) + 1
  <2>2. CASE i <= Len(s)
    BY <1>2, <2>2
  <2>3. CASE ~(i <= Len(s))
    <3>1. i - Len(s) = 1
      BY <1>1, <2>3
    <3> QED
      BY <1>1, <1>2, <2>3, <3>1
  <2> QED
    BY <2>2, <2>3
<1>5. ASSUME NEW i \in 1 .. Len(z)
      PROVE  z[i] = IF i <= Len(s) THEN s[i] ELSE IF i = Len(s) + 1 THEN e ELSE t[i - Len(s) - 1]
  <2>1. CASE i <= Len(s) + 1
    <3>1. i \in 1 .. Len(s) + 1 /\ i \in 1 .. Len(y) + Len(t) /\ i <= Len(y)
      BY <1>1, <1>2, <1>3, <2>1
    <3>2. z[i] = y[i]
      BY <1>3, <3>1
    <3>3. ~(i <= Len(s)) => i = Len(s) + 1
      BY <1>1, <2>1
    <3> QED
      BY <1>4, <3>1, <3>2, <3>3
  <2>2. CASE i > Len(s) + 1
    <3>1. i \in 1 .. Len(y) + Len(t) /\ ~(i <= Len(y)) /\ ~(i <= Len(s)) /\ i # Len(s) + 1
      BY <1>1, <1>2, <1>3, <2>2
    <3>2. i - Len(y) = i - Len(s) - 1
      BY <1>1, <1>2
    <3> QED
      BY <1>3, <3>1, <3>2
  <2> QED
    BY <1>1, <1>3, <2>1, <2>2
<1>6. z \in Seq(S) /\ JoinsAround(z, s, e, t)
  BY <1>2, <1>3, <1>5 DEF JoinsAround
<1> QED
  BY <1>6 DEF z, y, f

\* z is s with e after the first p elements.
Inserts(z, s, e, p) ==
    /\ Len(z) = Len(s) + 1
    /\ \A i \in 1 .. Len(z) : z[i] = IF i <= p THEN s[i] ELSE IF i = p + 1 THEN e ELSE s[i - 1]

LEMMA InsertedAt ==
    ASSUME NEW S, NEW s \in Seq(S), NEW e \in S, NEW p \in 0 .. Len(s)
    PROVE  LET z == SubSeq(s, 1, p) \o <<e>> \o SubSeq(s, p + 1, Len(s))
           IN z \in Seq(S) /\ Inserts(z, s, e, p)
<1> DEFINE x == SubSeq(s, 1, p)
           y == SubSeq(s, p + 1, Len(s))
           z == x \o <<e>> \o y
           n == Len(s)
<1>1. n \in Nat /\ p \in 0 .. n
  OBVIOUS
<1>2. x \in Seq(S) /\ Len(x) = p /\ \A i \in 1 .. p : x[i] = s[i]
  <2>1. /\ SubSeq(s, 1, p) \in Seq(S) /\ Len(SubSeq(s, 1, p)) = p - 1 + 1
        /\ \A i \in 1 .. p - 1 + 1 : SubSeq(s, 1, p)[i] = s[1 + i - 1]
    BY <1>1, PartOf
  <2>2. p - 1 + 1 = p /\ \A i \in 1 .. p : 1 + i - 1 = i
    BY <1>1
  <2> QED
    BY <2>1, <2>2
<1>3. y \in Seq(S) /\ Len(y) = n - p /\ \A i \in 1 .. n - p : y[i] = s[p + i]
  <2>1. /\ y \in Seq(S) /\ Len(y) = n - (p + 1) + 1
        /\ \A i \in 1 .. n - (p + 1) + 1 : y[i] = s[(p + 1) + i - 1]
    BY <1>1, PartOf
  <2>2. n - (p + 1) + 1 = n - p /\ \A i \in 1 .. n - p : (p + 1) + i - 1 = p + i
    BY <1>1
  <2> QED
    BY <2>1, <2>2
<1> HIDE DEF x, y
<1>4. z \in Seq(S) /\ JoinsAround(z, x, e, y)
  BY <1>2, <1>3, JoinedAroundAt
<1> HIDE DEF z, n
<1>5. Len(z) = n + 1
  BY <1>1, <1>2, <1>3, <1>4 DEF JoinsAround
<1>6. ASSUME NEW i \in 1 .. Len(z)
      PROVE  z[i] = IF i <= p THEN s[i] ELSE IF i = p + 1 THEN e ELSE s[i - 1]
  <2>1. CASE i <= p + 1
    BY <1>1, <1>2, <1>4, <2>1 DEF JoinsAround
  <2>2. CASE i > p + 1
    <3>1. i - p - 1 \in 1 .. n - p /\ p + (i - p - 1) = i - 1
      BY <1>1, <1>5, <2>2
    <3>2. y[i - p - 1] = s[i - 1]
      BY <1>3, <3>1
    <3> QED
      BY <1>1, <1>2, <1>4, <2>2, <3>2 DEF JoinsAround
  <2> QED
    BY <1>1, <1>5, <2>1, <2>2
<1>7. z \in Seq(S) /\ Inserts(z, s, e, p)
  BY <1>4, <1>5, <1>6 DEF Inserts, n
<1> QED
  BY <1>7 DEF x, y, z, n

LEMMA PrependBeforeAt ==
    ASSUME NEW S, NEW s \in Seq(S), NEW e \in S, NEW i \in DOMAIN s
    PROVE  prependBefore(s, e, i) \in Seq(S) /\ Inserts(prependBefore(s, e, i), s, e, i - 1)
<1> DEFINE p == i - 1
<1>1. p \in 0 .. Len(s) /\ p + 1 = i
  OBVIOUS
<1>2. prependBefore(s, e, i) = SubSeq(s, 1, p) \o <<e>> \o SubSeq(s, p + 1, Len(s))
  BY <1>1 DEF prependBefore, SX!InsertAt
<1> HIDE DEF p
<1>3. prependBefore(s, e, i) \in Seq(S) /\ Inserts(prependBefore(s, e, i), s, e, p)
  BY <1>1, <1>2, InsertedAt
<1> QED
  BY <1>3 DEF p

\* z is s without the element at position p.
Drops(z, s, p) ==
    /\ Len(z) = Len(s) - 1
    /\ \A i \in 1 .. Len(s) - 1 : z[i] = IF i <= p THEN s[i] ELSE s[i + 1]

LEMMA PopAt ==
    ASSUME NEW S, NEW s \in Seq(S), NEW p \in Nat, p < Len(s)
    PROVE  pop(s, p) \in Seq(S) /\ Drops(pop(s, p), s, p)
<1> DEFINE x == SubSeq(s, 1, (p + 1) - 1)
           y == SubSeq(s, p + 1 + 1, Len(s))
           z == x \o y
           n == Len(s)
<1>1. n \in Nat /\ p + 1 <= n
  OBVIOUS
<1>2. x \in Seq(S) /\ Len(x) = p /\ \A i \in 1 .. p : x[i] = s[i]
  <2>1. /\ x \in Seq(S) /\ Len(x) = (p + 1) - 1 - 1 + 1
        /\ \A i \in 1 .. (p + 1) - 1 - 1 + 1 : x[i] = s[1 + i - 1]
    BY <1>1, PartOf
  <2>2. (p + 1) - 1 - 1 + 1 = p /\ \A i \in 1 .. p : 1 + i - 1 = i
    BY <1>1
  <2> QED
    BY <2>1, <2>2
<1>3. y \in Seq(S) /\ Len(y) = n - p - 1 /\ \A i \in 1 .. n - p - 1 : y[i] = s[p + 1 + i]
  <2>1. /\ y \in Seq(S) /\ Len(y) = n - (p + 1 + 1) + 1
        /\ \A i \in 1 .. n - (p + 1 + 1) + 1 : y[i] = s[(p + 1 + 1) + i - 1]
    BY <1>1, PartOf
  <2>2. n - (p + 1 + 1) + 1 = n - p - 1 /\ \A i \in 1 .. n - p - 1 : (p + 1 + 1) + i - 1 = p + 1 + i
    BY <1>1
  <2> QED
    BY <2>1, <2>2
<1>4. pop(s, p) = z
  BY DEF pop, SX!RemoveAt
<1> HIDE DEF x, y
<1>5. /\ z \in Seq(S) /\ Len(z) = Len(x) + Len(y)
      /\ \A i \in 1 .. Len(x) + Len(y) : z[i] = IF i <= Len(x) THEN x[i] ELSE y[i - Len(x)]
  BY <1>2, <1>3, JoinedAt
<1> HIDE DEF z, n
<1>6. Len(z) = n - 1
  BY <1>1, <1>2, <1>3, <1>5
<1>7. ASSUME NEW i \in 1 .. n - 1 PROVE z[i] = IF i <= p THEN s[i] ELSE s[i + 1]
  <2>1. CASE i <= p
    BY <1>1, <1>2, <1>3, <1>5, <2>1
  <2>2. CASE i > p
    <3>1. i - p \in 1 .. n - p - 1 /\ p + 1 + (i - p) = i + 1
      BY <1>1, <2>2
    <3>2. y[i - p] = s[i + 1]
      BY <1>3, <3>1
    <3> QED
      BY <1>1, <1>2, <1>3, <1>5, <2>2, <3>2
  <2> QED
    BY <1>1, <2>1, <2>2
<1> QED
  BY <1>4, <1>5, <1>6, <1>7 DEF n, Drops

\* z is s with e in the place of the element at position p.
Swaps(z, s, e, p) ==
    /\ Len(z) = Len(s)
    /\ \A i \in 1 .. Len(z) : z[i] = IF i = p + 1 THEN e ELSE s[i]

LEMMA SwapAt ==
    ASSUME NEW S, NEW s \in Seq(S), NEW p \in Nat, p < Len(s), NEW e \in S
    PROVE  swap(s, p, e) \in Seq(S) /\ Swaps(swap(s, p, e), s, e, p)
BY DEF swap, SX!ReplaceAt, Swaps

LEMMA PrependAt ==
    ASSUME NEW S, NEW s \in Seq(S), NEW e \in S
    PROVE  prepend(s, e) \in Seq(S) /\ JoinsAround(prepend(s, e), <<>>, e, s)
<1> DEFINE x == <<>>
<1>1. x \in Seq(S) /\ x \o <<e>> = <<e>> /\ prepend(s, e) = x \o <<e>> \o s
  BY DEF prepend
<1> HIDE DEF x
<1>2. prepend(s, e) \in Seq(S) /\ JoinsAround(prepend(s, e), x, e, s)
  BY <1>1, JoinedAroundAt
<1> QED
  BY <1>2 DEF x

LEMMA AppendAt ==
    ASSUME NEW S, NEW s \in Seq(S), NEW e \in S
    PROVE  Append(s, e) \in Seq(S) /\ JoinsAround(Append(s, e), s, e, <<>>)
<1> DEFINE z == Append(s, e)
           n == Len(s) + 1
<1>1. /\ z \in Seq(S) /\ Len(z) = Len(s) + 1 /\ Len(s) \in Nat
      /\ \A i \in 1 .. Len(s) : z[i] = s[i]
      /\ z[n] = e /\ n \in Nat /\ n > Len(s)
  BY AppendProperties
<1>0. n = Len(s) + 1
  OBVIOUS
<1> HIDE DEF z, n
<1>2. JoinsAround(z, s, e, <<>>)
  <2>1. Len(<<>>) = 0 /\ \A i \in 1 .. Len(z) : i \in 1 .. Len(s) \/ i = n
    BY <1>0, <1>1
  <2>2. ASSUME NEW i \in 1 .. Len(z) PROVE z[i] = IF i <= Len(s) THEN s[i] ELSE e
    <3>1. CASE i \in 1 .. Len(s)
      BY <1>1, <3>1
    <3>2. CASE i = n
      <4>2. ~(i <= Len(s))
        BY <1>1, <3>2
      <4>1. z[n] = e
        BY <1>1
      <4>3. z[i] = z[n]
        BY <3>2
      <4> QED
        BY <4>1, <4>2, <4>3
    <3> QED
      BY <2>1, <3>1, <3>2
  <2>3. \A i \in 1 .. Len(z) : ~(i <= Len(s)) => i = n
    BY <1>0, <1>1
  <2>4. Len(z) = Len(s) + 1 + Len(<<>>)
    BY <1>1, <2>1
  <2> QED
    BY <2>2, <2>3, <2>4 DEF JoinsAround
<1> QED
  BY <1>1, <1>2 DEF z

-----------------------------------------------------------------------------
(* The invariant in the four parts the actions disturb.                    *)

FitNode(n) == n \in Node /\ Len(n.values) < b
FitCall(c) == /\ c \in StorageCalls
              /\ c.call = "Persist" => Len(c.node.values) < b
              /\ c.call = "Remove" => c.id # rootId
FitTodo(t) == t \in Seq(StorageCalls) /\ \A k \in DOMAIN t : FitCall(t[k])

FitNodes(n) == /\ DOMAIN n \subseteq Ids /\ rootId \in DOMAIN n
               /\ \A i \in DOMAIN n : FitNode(n[i]) /\ n[i].id = i

StorageOK ==
    /\ issued \subseteq Ids /\ rootId \in issued
    /\ FitNodes(nodes)
    /\ depth \in Int /\ treeDepth \in Int
    /\ stale \in [Ids -> Seq(Ids \ {rootId})]

PathOK(p) == p \in Seq(deleteStep) /\ \A k \in 2 .. Len(p) : p[k].visitedNode # rootId
LocalsOK ==
    /\ pc \in Labels
    /\ cur \in Node /\ FitNode(target)
    /\ PathOK(path)
    /\ at \in Nat /\ hole \in Nat
    /\ fresh \in Seq(Ids \ {rootId})
    /\ pc \in {"insert", "delete", "pop", "fix"} /\ path # <<>> => cur.id # rootId
    /\ pc = "idle" => path = <<>>
    /\ Len(cur.values) <= b
    /\ pc \notin {"grow", "done", "error", "panic"} => Len(cur.values) < b
    /\ pc = "insert" => req.op = "Insert"
    /\ pc = "pop" => hole < Len(target.values)

HistoryOK ==
    /\ req \in Request \cup {NoRequest}
    /\ faults \in 0 .. MaxFaults
    /\ before \subseteq Tuple

LEMMA Parts == IInv <=> StorageOK /\ FitTodo(todo) /\ LocalsOK /\ HistoryOK
<1>1. ASSUME IInv PROVE StorageOK
  BY <1>1 DEF IInv, TypeOK, RootStays, ValuesFit, StorageOK, FitNodes, FitNode
<1>2. ASSUME IInv PROVE FitTodo(todo)
  BY <1>2 DEF IInv, TypeOK, RootStays, ValuesFit, FitTodo, FitCall
<1>3. ASSUME IInv PROVE LocalsOK
  BY <1>3 DEF IInv, TypeOK, RootStays, CurFits, LocalsOK, PathOK, FitNode
<1>4. ASSUME IInv PROVE HistoryOK
  BY <1>4 DEF IInv, TypeOK, HistoryOK
<1>5. ASSUME StorageOK, FitTodo(todo), LocalsOK, HistoryOK PROVE IInv
  <2>1. TypeOK
    BY <1>5 DEF TypeOK, StorageOK, FitNodes, FitNode, FitTodo, LocalsOK, PathOK, HistoryOK
  <2>2. RootStays
    BY <1>5 DEF RootStays, StorageOK, FitNodes, FitTodo, FitCall, LocalsOK, PathOK
  <2>3. ValuesFit
    BY <1>5 DEF ValuesFit, StorageOK, FitNodes, FitNode, FitTodo, FitCall
  <2>4. CurFits
    BY <1>5 DEF CurFits, LocalsOK, FitNode
  <2> QED
    BY <2>1, <2>2, <2>3, <2>4 DEF IInv
<1> QED
  BY <1>1, <1>2, <1>3, <1>4, <1>5

LEMMA PartsNext == IInv' <=> StorageOK' /\ FitTodo(todo') /\ LocalsOK' /\ HistoryOK'
<1>1. ASSUME IInv' PROVE StorageOK'
  BY <1>1 DEF IInv, TypeOK, RootStays, ValuesFit, StorageOK, FitNodes, FitNode
<1>2. ASSUME IInv' PROVE FitTodo(todo')
  BY <1>2 DEF IInv, TypeOK, RootStays, ValuesFit, FitTodo, FitCall
<1>3. ASSUME IInv' PROVE LocalsOK'
  BY <1>3 DEF IInv, TypeOK, RootStays, CurFits, LocalsOK, PathOK, FitNode
<1>4. ASSUME IInv' PROVE HistoryOK'
  BY <1>4 DEF IInv, TypeOK, HistoryOK
<1>5. ASSUME StorageOK', FitTodo(todo'), LocalsOK', HistoryOK' PROVE IInv'
  <2>1. TypeOK'
    BY <1>5 DEF TypeOK, StorageOK, FitNodes, FitNode, FitTodo, LocalsOK, PathOK, HistoryOK
  <2>2. RootStays'
    BY <1>5 DEF RootStays, StorageOK, FitNodes, FitTodo, FitCall, LocalsOK, PathOK
  <2>3. ValuesFit'
    BY <1>5 DEF ValuesFit, StorageOK, FitNodes, FitNode, FitTodo, FitCall
  <2>4. CurFits'
    BY <1>5 DEF CurFits, LocalsOK, FitNode
  <2> QED
    BY <2>1, <2>2, <2>3, <2>4 DEF IInv
<1> QED
  BY <1>1, <1>2, <1>3, <1>4, <1>5

\* A step of the operation's own code leaves the storage and the history alone.
LEMMA ComputeStep ==
    ASSUME IInv, Compute, FitTodo(todo'), LocalsOK'
    PROVE  IInv'
<1>1. StorageOK' /\ HistoryOK'
  BY Parts DEF StorageOK, HistoryOK, Compute
<1> QED
  BY <1>1, PartsNext

-----------------------------------------------------------------------------
(* Nodes and calls.                                                        *)

LEMMA Parameters ==
    /\ a \in Nat /\ b \in Nat /\ a >= 2 /\ b >= 3 /\ b >= 2 * a - 1
    /\ middleIndex \in Nat /\ 2 * middleIndex <= b /\ middleIndex < b
BY ParametersAssumption DEF middleIndex

LEMMA NodeParts ==
    ASSUME NEW n \in Node
    PROVE  /\ n.id \in Ids /\ n.values \in Seq(Tuple) /\ n.children \in Seq(Ids \ {rootId})
           /\ n.leaf \in BOOLEAN /\ Len(n.values) \in Nat /\ Len(n.children) \in Nat
BY DEF Node

LEMMA WithValues ==
    ASSUME NEW n \in Node, NEW v \in Seq(Tuple), NEW c \in Seq(Ids \ {rootId})
    PROVE  LET n1 == [n EXCEPT !.values = v]
               n2 == [n EXCEPT !.values = v, !.children = c]
           IN /\ n1 \in Node /\ n1.values = v /\ n1.id = n.id
              /\ n2 \in Node /\ n2.values = v /\ n2.id = n.id
BY DEF Node

LEMMA WithId ==
    ASSUME NEW n \in Node, NEW i \in Ids
    PROVE  LET n1 == [n EXCEPT !.id = i]
           IN n1 \in Node /\ n1.values = n.values /\ n1.id = i
BY DEF Node

LEMMA NewNode ==
    ASSUME NEW i \in Ids, NEW l \in BOOLEAN
    PROVE  /\ createNewNode(i, l) \in Node
           /\ createNewNode(i, l).values = <<>> /\ createNewNode(i, l).id = i
BY DEF Node, createNewNode

LEMMA ChildType ==
    ASSUME NEW n \in Node, NEW p \in Int, NEW c \in Child(n, p)
    PROVE  c \in Ids \ {rootId}
BY DEF Child, Node

\* A child that is stored is a node that fits, and not the root.
LEMMA LoadedChild ==
    ASSUME StorageOK, NEW n \in Node, NEW p \in Int, NEW c \in Child(n, p), Stores(c)
    PROVE  FitNode(nodes[c]) /\ nodes[c].id # rootId
BY ChildType DEF StorageOK, FitNodes, Stores

LEMMA SwapTuples ==
    ASSUME NEW v \in Seq(Tuple), NEW p \in Nat, p < Len(v), NEW t \in Tuple
    PROVE  swap(v, p, t) \in Seq(Tuple) /\ Len(swap(v, p, t)) = Len(v)
BY SwapType

LEMMA AddType ==
    ASSUME NEW v \in Seq(Tuple), NEW t \in Tuple, NEW key, NEW p \in find(v, key)
    PROVE  add(v, t, p) \in Seq(Tuple) /\ Len(add(v, t, p)) = Len(v) + 1
<1> DEFINE x == SubSeq(v, 1, p)
           y == SubSeq(v, p + 1, Len(v))
<1>1. Len(v) \in Nat /\ p \in 0 .. Len(v)
  BY DEF find
<1>2. x \in Seq(Tuple) /\ Len(x) = p
  BY <1>1, PartOf
<1>3. y \in Seq(Tuple) /\ Len(y) = Len(v) - p
  BY <1>1, PartOf
<1>4. add(v, t, p) = x \o <<t>> \o y
  BY DEF add
<1> HIDE DEF x, y
<1>5. x \o <<t>> \o y \in Seq(Tuple) /\ Len(x \o <<t>> \o y) = Len(x) + 1 + Len(y)
  BY <1>2, <1>3, JoinedAround
<1>6. Len(x) + 1 + Len(y) = Len(v) + 1
  BY <1>1, <1>2, <1>3
<1> QED
  BY <1>4, <1>5, <1>6

LEMMA PersistCall ==
    ASSUME NEW n, FitNode(n)
    PROVE  FitCall(persist(n))
BY DEF FitNode, FitCall, persist, StorageCalls

LEMMA RemoveCall ==
    ASSUME NEW i \in Ids, i # rootId
    PROVE  FitCall(remove(i))
BY DEF FitCall, remove, StorageCalls

LEMMA SetDepthCall ==
    ASSUME NEW d \in Int
    PROVE  FitCall(updateDepth(d))
BY DEF FitCall, updateDepth, StorageCalls

LEMMA Queues ==
    /\ FitTodo(<<>>)
    /\ \A w : FitCall(w) => FitTodo(<<w>>)
    /\ \A w, x : FitCall(w) /\ FitCall(x) => FitTodo(<<w, x>>)
    /\ \A w, x, y : FitCall(w) /\ FitCall(x) /\ FitCall(y) => FitTodo(<<w, x, y>>)
    /\ \A w, x, y, z : FitCall(w) /\ FitCall(x) /\ FitCall(y) /\ FitCall(z)
                         => FitTodo(<<w, x, y, z>>)
BY DEF FitTodo, FitCall

\* A current node that fits needs no split.
LEMMA FitLocals ==
    ASSUME FitNode(cur'), FitNode(target'), PathOK(path'),
           pc' \in Labels, at' \in Nat, hole' \in Nat, fresh' \in Seq(Ids \ {rootId}),
           pc' \in {"insert", "delete", "pop", "fix"} /\ path' # <<>> => cur'.id # rootId,
           pc' = "idle" => path' = <<>>,
           pc' = "insert" => req'.op = "Insert",
           pc' = "pop" => hole' < Len(target'.values)
    PROVE  LocalsOK'
<1>1. cur' \in Node /\ Len(cur'.values) \in Nat /\ Len(cur'.values) < b
  BY NodeParts DEF FitNode
<1> QED
  BY <1>1, Parameters DEF LocalsOK

-----------------------------------------------------------------------------
(* Get, and the calls and returns.                                         *)

LEMMA InitNode == FitNode(NoNode) /\ NoNode.id = rootId
<1>1. NoNode \in Node /\ NoNode.values = <<>> /\ NoNode.id = rootId
  BY RootAssumption, NewNode DEF NoNode
<1>2. Len(<<>>) < b
  BY Parameters
<1> HIDE DEF NoNode
<1> QED
  BY <1>1, <1>2 DEF FitNode

LEMMA InitStep == Init => IInv
<1> SUFFICES ASSUME Init PROVE IInv
  OBVIOUS
<1>1. FitNode(NoNode) /\ NoNode.id = rootId
  BY InitNode
<1>2. StorageOK
  <2>1. /\ issued = {rootId} /\ depth = 1 /\ treeDepth = 1
        /\ stale \in [Ids -> Seq(Ids \ {rootId})]
        /\ nodes = [i \in {rootId} |-> NoNode]
    BY DEF Init, StorageInit, NoNode
  <2> HIDE DEF NoNode
  <2> QED
    BY <1>1, <2>1, RootAssumption DEF StorageOK, FitNodes
<1>3. LocalsOK
  <2>1. /\ pc = "idle" /\ cur = NoNode /\ target = NoNode
        /\ path = <<>> /\ fresh = <<>> /\ at = 0 /\ hole = 0
    BY DEF Init, Idle
  <2>2. PathOK(path) /\ fresh \in Seq(Ids \ {rootId})
    BY <2>1 DEF PathOK
  <2>3. NoNode \in Node /\ Len(NoNode.values) \in Nat /\ Len(NoNode.values) < b
    BY <1>1, NodeParts DEF FitNode
  <2> HIDE DEF NoNode
  <2> QED
    BY <1>1, <2>1, <2>2, <2>3, Parameters DEF LocalsOK, Labels
<1>4. HistoryOK
  BY BackendAssumption DEF Init, Idle, HistoryOK
<1>5. FitTodo(todo)
  BY Queues DEF Init, Idle
<1> QED
  BY <1>2, <1>3, <1>4, <1>5, Parts

LEMMA CallStep ==
    ASSUME IInv, NEW r \in Request, NEW l \in {"get", "insert", "delete"}, Call(r, l),
           l = "insert" => r.op = "Insert"
    PROVE  IInv'
<1> USE DEF Call, Goto
<1>1. StorageOK' /\ FitTodo(todo') /\ HistoryOK'
  BY Parts DEF StorageOK, HistoryOK
<1>2. FitNode(nodes[rootId])
  BY Parts DEF StorageOK, FitNodes
<1>3. Len(nodes[rootId].values) \in Nat
  BY <1>2, NodeParts DEF FitNode
<1>4. LocalsOK'
  <2>1. path' = path /\ PathOK(path)
    BY Parts DEF LocalsOK
  <2> QED
    BY <1>2, <1>3, <2>1, Parts, Parameters DEF LocalsOK, Labels, FitNode
<1> QED
  BY <1>1, <1>4, PartsNext

LEMMA GetSteps == ASSUME IInv, Get PROVE IInv'
<1>0. StorageOK /\ FitTodo(todo) /\ LocalsOK
  BY Parts
<1>1. CASE GetFound \/ GetNotFound
  <2>1. Compute /\ UNCHANGED <<locals, todo>> /\ pc' = "done"
    BY <1>1 DEF GetFound, GetNotFound, Finish
  <2>2. LocalsOK'
    BY <1>0, <2>1 DEF Compute, locals, LocalsOK, PathOK, FitNode, Labels
  <2> QED
    BY <1>0, <2>1, <2>2, ComputeStep
<1>2. CASE GetDescend
  <2>1. Compute /\ UNCHANGED <<path, at, target, hole, fresh, todo>> /\ pc' = "get" /\ pc = "get"
    BY <1>2 DEF GetDescend, Goto, At
  <2>2. FitNode(cur')
    BY <1>0, <1>2, LoadedChild DEF GetDescend, Loaded, find, LocalsOK
  <2>3. LocalsOK'
    <3>1. PathOK(path') /\ FitNode(target')
      BY <1>0, <2>1 DEF LocalsOK
    <3> QED
      BY <1>0, <2>1, <2>2, <3>1, FitLocals DEF LocalsOK, Labels
  <2> QED
    BY <1>0, <2>1, <2>3, ComputeStep
<1> QED
  BY <1>1, <1>2 DEF Get

LEMMA ReturnStep == ASSUME IInv, Return PROVE IInv'
<1>0. StorageOK /\ FitTodo(todo) /\ LocalsOK /\ HistoryOK
  BY Parts
<1>1. StorageOK' /\ FitTodo(todo')
  BY <1>0 DEF Return, StorageOK
<1>2. LocalsOK'
  <2>1. FitNode(NoNode) /\ NoNode \in Node /\ Len(NoNode.values) \in Nat
    BY InitNode, NodeParts DEF FitNode
  <2>2. /\ pc' = "idle" /\ cur' = NoNode /\ target' = NoNode
        /\ path' = <<>> /\ fresh' = <<>> /\ at' = 0 /\ hole' = 0
    BY DEF Return
  <2>3. PathOK(path') /\ fresh' \in Seq(Ids \ {rootId})
    BY <2>2 DEF PathOK
  <2> HIDE DEF NoNode
  <2> QED
    BY <2>1, <2>2, <2>3, Parameters DEF LocalsOK, Labels, FitNode
<1>3. HistoryOK'
  <2>1. Pairs \subseteq Tuple
    BY <1>0, NodeParts DEF Pairs, StorageOK, FitNodes, FitNode
  <2> QED
    BY <1>0, <2>1 DEF Return, HistoryOK
<1> QED
  BY <1>1, <1>2, <1>3, PartsNext

-----------------------------------------------------------------------------
(* Insert.                                                                 *)

LEMMA NewTupleType == ASSUME IInv, pc = "insert" PROVE NewTuple \in Tuple
BY Parts DEF LocalsOK, HistoryOK, NewTuple, Tuple, Request, NoRequest

LEMMA InsertReplaceStep == ASSUME IInv, InsertReplace PROVE IInv'
<1>0. StorageOK /\ FitTodo(todo) /\ LocalsOK /\ FitNode(cur) /\ pc = "insert"
  BY Parts DEF InsertReplace, At, LocalsOK, FitNode
<1>1. Compute /\ UNCHANGED locals /\ pc' = "done"
  BY DEF InsertReplace, Finish
<1>2. PICK p \in find(cur.values, req.key) :
         Found(cur.values, req.key, p) /\ todo' = <<persist(Replace(cur, p))>>
  BY DEF InsertReplace
<1>3. FitNode(Replace(cur, p))
  <2>1. cur \in Node /\ cur.values \in Seq(Tuple) /\ cur.children \in Seq(Ids \ {rootId})
    BY <1>0, NodeParts DEF FitNode
  <2>2. p \in Nat /\ p < Len(cur.values)
    BY <1>2, <2>1 DEF find, Found
  <2> DEFINE v == swap(cur.values, p, NewTuple)
  <2>3. v \in Seq(Tuple) /\ Len(v) = Len(cur.values)
    BY <1>0, <2>1, <2>2, NewTupleType, SwapTuples
  <2> HIDE DEF v
  <2>4. [cur EXCEPT !.values = v] \in Node /\ [cur EXCEPT !.values = v].values = v
    BY <2>1, <2>3, WithValues
  <2> QED
    BY <1>0, <2>3, <2>4 DEF FitNode, Replace, v
<1>4. FitTodo(todo')
  BY <1>2, <1>3, PersistCall, Queues
<1>5. LocalsOK'
  BY <1>0, <1>1 DEF Compute, locals, LocalsOK, PathOK, FitNode, Labels
<1> QED
  BY <1>1, <1>4, <1>5, ComputeStep

LEMMA InsertLeafStep == ASSUME IInv, InsertLeaf PROVE IInv'
<1>0. StorageOK /\ FitTodo(todo) /\ LocalsOK /\ FitNode(cur) /\ pc = "insert"
  BY Parts DEF InsertLeaf, At, LocalsOK, FitNode
<1>1. Compute /\ UNCHANGED <<path, at, target, hole, fresh, todo>> /\ pc' = "grow"
  BY DEF InsertLeaf, Goto
<1>2. PICK p \in find(cur.values, req.key) :
         cur' = [cur EXCEPT !.values = add(cur.values, NewTuple, p)]
  BY DEF InsertLeaf
<1>3. cur' \in Node /\ Len(cur'.values) <= b
  <2>1. cur \in Node /\ cur.values \in Seq(Tuple) /\ cur.children \in Seq(Ids \ {rootId})
    BY <1>0, NodeParts DEF FitNode
  <2> DEFINE v == add(cur.values, NewTuple, p)
  <2>2. v \in Seq(Tuple) /\ Len(v) = Len(cur.values) + 1
    BY <1>0, <2>1, NewTupleType, AddType
  <2>3. Len(cur.values) \in Nat
    BY <2>1
  <2> HIDE DEF v
  <2>4. [cur EXCEPT !.values = v] \in Node /\ [cur EXCEPT !.values = v].values = v
    BY <2>1, <2>2, WithValues
  <2> QED
    BY <1>0, <1>2, <2>2, <2>3, <2>4, Parameters DEF FitNode, v
<1>4. LocalsOK'
  BY <1>0, <1>1, <1>3 DEF LocalsOK, PathOK, FitNode, Labels
<1> QED
  BY <1>0, <1>1, <1>4, ComputeStep

\* The path grows by the current node: by the root first, then by other nodes.
LEMMA PushPath ==
    ASSUME NEW p, PathOK(p), NEW n \in Node, NEW i \in Nat, p # <<>> => n.id # rootId
    PROVE  LET q == Append(p, [visitedNode |-> n.id, positionInParent |-> i])
           IN PathOK(q) /\ q # <<>>
<1> DEFINE step == [visitedNode |-> n.id, positionInParent |-> i]
           q == Append(p, step)
<1>1. step \in deleteStep /\ step.visitedNode = n.id
  BY NodeParts DEF deleteStep
<1> HIDE DEF step
<1>2. p \in Seq(deleteStep) /\ \A k \in 2 .. Len(p) : p[k].visitedNode # rootId
  BY DEF PathOK
<1>3. /\ q \in Seq(deleteStep) /\ Len(q) = Len(p) + 1 /\ q[Len(q)] = step
      /\ \A k \in 1 .. Len(p) : q[k] = p[k]
  BY <1>1, <1>2
<1>4. ASSUME NEW k \in 2 .. Len(q) PROVE q[k].visitedNode # rootId
  <2>1. CASE k = Len(q)
    BY <1>1, <1>2, <1>3, <2>1
  <2>2. CASE k # Len(q)
    BY <1>2, <1>3, <2>2
  <2> QED
    BY <2>1, <2>2
<1> QED
  BY <1>1, <1>2, <1>3, <1>4 DEF PathOK, step

LEMMA InsertDescendStep == ASSUME IInv, InsertDescend PROVE IInv'
<1>0. StorageOK /\ FitTodo(todo) /\ LocalsOK /\ FitNode(cur) /\ pc = "insert"
  BY Parts DEF InsertDescend, At, LocalsOK, FitNode
<1>1. Compute /\ UNCHANGED <<at, target, hole, fresh, todo>> /\ pc' = "insert"
      /\ path' = Append(path, [visitedNode |-> cur.id, positionInParent |-> 0])
  BY DEF InsertDescend, Goto
<1>2. FitNode(cur') /\ cur'.id # rootId
  BY <1>0, LoadedChild DEF InsertDescend, find, LocalsOK
<1>3. PathOK(path')
  BY <1>0, <1>1, PushPath DEF LocalsOK, FitNode
<1>4. LocalsOK'
  BY <1>0, <1>1, <1>2, <1>3, FitLocals DEF LocalsOK, Labels, Compute
<1> QED
  BY <1>0, <1>1, <1>4, ComputeStep

LEMMA InsertPersistStep == ASSUME IInv, InsertPersist PROVE IInv'
<1>0. StorageOK /\ FitTodo(todo) /\ LocalsOK
  BY Parts
<1>1. Compute /\ UNCHANGED locals /\ pc' = "done" /\ todo' = <<persist(cur)>>
  BY DEF InsertPersist, Finish
<1>2. FitNode(cur)
  BY <1>0, NodeParts, Parameters DEF InsertPersist, Full, LocalsOK, FitNode
<1>3. FitTodo(todo')
  BY <1>1, <1>2, PersistCall, Queues
<1>4. LocalsOK'
  BY <1>0, <1>1 DEF Compute, locals, LocalsOK, PathOK, FitNode, Labels
<1> QED
  BY <1>1, <1>3, <1>4, ComputeStep

\* NewId answers an id that is not in use, so never the root's.
LEMMA InsertNewIdStep == ASSUME IInv, InsertNewId PROVE IInv'
<1>0. StorageOK /\ FitTodo(todo) /\ LocalsOK /\ HistoryOK
  BY Parts
<1>1. PICK id \in NextIds(issued) : issued' = issued \cup {id} /\ fresh' = Append(fresh, id)
  BY DEF InsertNewId
<1>2. id \in Ids /\ id # rootId
  BY <1>0, <1>1, NextIdsAssumption DEF StorageOK
<1>3. /\ UNCHANGED <<nodes, depth, treeDepth, req, faults, stale, before, cur, path, at,
                     target, hole, todo>>
      /\ pc' = "grow"
  BY DEF InsertNewId, Goto
<1>4. StorageOK' /\ FitTodo(todo') /\ HistoryOK'
  BY <1>0, <1>1, <1>2, <1>3 DEF StorageOK, HistoryOK
<1>5. fresh' \in Seq(Ids \ {rootId})
  BY <1>0, <1>1, <1>2 DEF LocalsOK
<1>6. LocalsOK'
  BY <1>0, <1>3, <1>5 DEF LocalsOK, PathOK, FitNode, Labels
<1> QED
  BY <1>4, <1>6, PartsNext

\* The halves of a full node fit, and what is between them is a tuple.
LEMMA SplitFits ==
    ASSUME NEW n \in Node, SplitInRange(n), NEW i \in Ids
    PROVE  /\ FitNode(SplitNew(n, i)) /\ SplitNew(n, i).id = i
           /\ FitNode(SplitOld(n)) /\ SplitOld(n).id = n.id
           /\ SplitMiddle(n) \in Tuple
<1> DEFINE m == middleIndex
           l == Len(n.values)
           c == Len(n.children)
           leftValues == SubSeq(n.values, 1, m)
           leftChildren == SubSeq(n.children, 1, m + 1)
           rightValues == SubSeq(n.values, m + 2, 2 * m + 1)
           someChildren == SubSeq(n.children, m + 2, 2 * m + 1)
           rightChildren == Append(someChildren, n.children[b + 1])
           none == <<>>
<1>1. /\ n.values \in Seq(Tuple) /\ n.children \in Seq(Ids \ {rootId})
      /\ n.leaf \in BOOLEAN /\ l \in Nat /\ c \in Nat
  BY NodeParts
<1>2. /\ b \in Nat /\ m \in Nat /\ 2 * m <= b /\ m < b
  BY Parameters
<1>3. l > 2 * m /\ (~n.leaf => c > b)
  BY DEF SplitInRange
<1> HIDE DEF m
<1>4. /\ m <= l /\ m + 1 <= l /\ 2 * m + 1 <= l
      /\ m + 2 \in Int /\ 2 * m + 1 \in Int /\ m + 2 >= 1 /\ 2 * m + 1 >= (m + 2) - 1
      /\ (2 * m + 1) - (m + 2) + 1 = m /\ m - 1 + 1 = m /\ m \in Int /\ m >= 1 - 1
      /\ m + 1 \in Int /\ m + 1 >= 1 - 1
  BY <1>1, <1>2, <1>3
<1>5. ~n.leaf => m + 1 <= c /\ 2 * m + 1 <= c /\ b + 1 \in 1 .. c
  BY <1>1, <1>2, <1>3
<1> HIDE DEF l, c
<1>6. leftValues \in Seq(Tuple) /\ Len(leftValues) = m
  BY <1>1, <1>4, PartOf DEF l
<1>7. rightValues \in Seq(Tuple) /\ Len(rightValues) = m
  BY <1>1, <1>4, PartOf DEF l
<1>8. ~n.leaf => leftChildren \in Seq(Ids \ {rootId})
  BY <1>1, <1>4, <1>5, PartOf DEF c
<1>9. ~n.leaf => rightChildren \in Seq(Ids \ {rootId})
  <2>1. ~n.leaf => someChildren \in Seq(Ids \ {rootId})
    BY <1>1, <1>4, <1>5, PartOf DEF c
  <2>2. ~n.leaf => n.children[b + 1] \in Ids \ {rootId}
    BY <1>1, <1>5 DEF c
  <2> HIDE DEF someChildren
  <2> QED
    BY <2>1, <2>2
<1>10. SplitMiddle(n) \in Tuple
  <2>1. m + 1 \in 1 .. Len(n.values)
    BY <1>1, <1>2, <1>4 DEF l
  <2> QED
    BY <1>1, <2>1 DEF SplitMiddle, m
<1> HIDE DEF leftValues, leftChildren, rightValues, rightChildren
<1>11. FitNode(SplitNew(n, i)) /\ SplitNew(n, i).id = i
  <2> DEFINE e == createNewNode(i, n.leaf)
             k == IF n.leaf THEN none ELSE leftChildren
  <2>1. e \in Node /\ e.id = i
    BY <1>1, NewNode
  <2>2. none \in Seq(Ids \ {rootId})
    OBVIOUS
  <2> HIDE DEF none
  <2>3. k \in Seq(Ids \ {rootId})
    BY <1>1, <1>8, <2>2
  <2>4. SplitNew(n, i) = [e EXCEPT !.values = leftValues, !.children = k]
    BY DEF SplitNew, leftValues, leftChildren, m, none
  <2> HIDE DEF e, k
  <2>5. SplitNew(n, i) \in Node /\ SplitNew(n, i).values = leftValues /\ SplitNew(n, i).id = e.id
    BY <1>6, <2>1, <2>3, <2>4 DEF Node
  <2> QED
    BY <1>2, <1>6, <2>1, <2>5 DEF FitNode
<1>12. FitNode(SplitOld(n)) /\ SplitOld(n).id = n.id
  <2> DEFINE k == IF n.leaf THEN n.children ELSE rightChildren
  <2>1. k \in Seq(Ids \ {rootId})
    BY <1>1, <1>9
  <2>2. SplitOld(n) = [n EXCEPT !.values = rightValues, !.children = k]
    BY DEF SplitOld, rightValues, rightChildren, m
  <2> HIDE DEF k
  <2>3. SplitOld(n) \in Node /\ SplitOld(n).values = rightValues /\ SplitOld(n).id = n.id
    BY <1>7, <2>1, <2>2 DEF Node
  <2> QED
    BY <1>2, <1>7, <2>3 DEF FitNode
<1> QED
  BY <1>10, <1>11, <1>12

\* The node last visited, unless it is the root, is not the root.
LEMMA PopPath ==
    ASSUME NEW p, PathOK(p), p # <<>>
    PROVE  /\ Final(p).visitedNode \in Ids /\ Final(p).positionInParent \in Nat
           /\ Len(p) \in Nat /\ Len(p) >= 1
           /\ Len(p) > 1 => Final(p).visitedNode # rootId
           /\ PathOK(popLast(p))
           /\ popLast(p) # <<>> => Len(p) > 1
<1>1. p \in Seq(deleteStep) /\ Len(p) \in Nat /\ Len(p) >= 1
  BY DEF PathOK
<1>2. Final(p) \in deleteStep
  BY <1>1 DEF Final
<1>3. /\ popLast(p) \in Seq(deleteStep) /\ Len(popLast(p)) = Len(p) - 1
      /\ \A i \in 1 .. Len(p) - 1 : popLast(p)[i] = p[i]
  BY <1>1, PopLastType
<1>4. Len(p) > 1 => Final(p).visitedNode # rootId
  BY <1>1 DEF PathOK, Final
<1>5. popLast(p) # <<>> => Len(p) > 1
  BY <1>1, <1>3
<1>6. PathOK(popLast(p))
  BY <1>1, <1>3 DEF PathOK
<1> QED
  BY <1>1, <1>2, <1>4, <1>5, <1>6 DEF deleteStep

\* The node last visited, when it is stored.
LEMMA ParentFits ==
    ASSUME StorageOK, LocalsOK, path # <<>>, Stores(Final(path).visitedNode)
    PROVE  /\ FitNode(Parent) /\ Parent.id = Final(path).visitedNode
           /\ Len(path) > 1 => Parent.id # rootId
<1>1. PathOK(path)
  BY DEF LocalsOK
<1>2. Len(path) > 1 => Final(path).visitedNode # rootId
  BY <1>1, PopPath
<1> DEFINE v == Final(path).visitedNode
<1>3. Len(path) > 1 => v # rootId
  BY <1>2
<1>4. v \in DOMAIN nodes /\ Parent = nodes[v]
  BY DEF Stores, Parent
<1> HIDE DEF v
<1>5. FitNode(nodes[v]) /\ nodes[v].id = v
  BY <1>4 DEF StorageOK, FitNodes
<1>6. FitNode(Parent) /\ Parent.id = v /\ (Len(path) > 1 => Parent.id # rootId)
  BY <1>3, <1>4, <1>5
<1> QED
  BY <1>6 DEF v

LEMMA InsertSplitStep == ASSUME IInv, InsertSplit PROVE IInv'
<1>0. StorageOK /\ FitTodo(todo) /\ LocalsOK /\ cur \in Node /\ SplitInRange(cur)
  BY Parts DEF InsertSplit, LocalsOK
<1>1. Compute /\ UNCHANGED <<at, target, hole>> /\ pc' = "grow" /\ path' = popLast(path)
      /\ fresh' = <<>> /\ path # <<>>
  BY DEF InsertSplit, Goto
<1>2. fresh[1] \in Ids \ {rootId}
  <2>1. Len(fresh) = 1 /\ fresh \in Seq(Ids \ {rootId})
    BY <1>0 DEF InsertSplit, LocalsOK
  <2> QED
    BY <2>1
<1>3. FitNode(Parent)
  <2>1. Stores(Final(path).visitedNode)
    BY DEF InsertSplit
  <2> QED
    BY <1>0, <1>1, <2>1, ParentFits
<1> DEFINE newNode == SplitNew(cur, fresh[1])
           middle == SplitMiddle(cur)
<1>4. /\ FitNode(newNode) /\ newNode.id \in Ids \ {rootId}
      /\ FitNode(SplitOld(cur)) /\ middle \in Tuple
  BY <1>0, <1>2, SplitFits
<1>5. /\ todo' = <<persist(SplitOld(cur)), persist(newNode)>>
      /\ \E i \in lastOf(Parent.children, cur.id) : \E p \in find(Parent.values, middle.First) :
            cur' = [Parent EXCEPT !.children = prependBefore(Parent.children, newNode.id, i),
                                  !.values = add(Parent.values, middle, p)]
  BY DEF InsertSplit, Parent
<1> HIDE DEF newNode, middle
<1>6. FitTodo(todo')
  BY <1>4, <1>5, PersistCall, Queues
<1>7. cur' \in Node /\ Len(cur'.values) <= b
  <2>1. PICK i \in lastOf(Parent.children, cur.id), p \in find(Parent.values, middle.First) :
            cur' = [Parent EXCEPT !.children = prependBefore(Parent.children, newNode.id, i),
                                  !.values = add(Parent.values, middle, p)]
    BY <1>5
  <2>2. /\ Parent.values \in Seq(Tuple) /\ Parent.children \in Seq(Ids \ {rootId})
        /\ Len(Parent.values) \in Nat /\ Len(Parent.values) < b /\ Parent \in Node
    BY <1>3, NodeParts DEF FitNode
  <2> DEFINE c == prependBefore(Parent.children, newNode.id, i)
             v == add(Parent.values, middle, p)
  <2>3. i \in DOMAIN Parent.children
    BY DEF lastOf
  <2>4. c \in Seq(Ids \ {rootId})
    BY <1>4, <2>2, <2>3, PrependBeforeType
  <2>5. v \in Seq(Tuple) /\ Len(v) = Len(Parent.values) + 1
    BY <1>4, <2>2, AddType
  <2> HIDE DEF c, v
  <2>6. cur' = [Parent EXCEPT !.children = c, !.values = v]
    BY <2>1 DEF c, v
  <2>7. cur' \in Node /\ cur'.values = v
    BY <2>2, <2>4, <2>5, <2>6 DEF Node
  <2> QED
    BY <2>2, <2>5, <2>7, Parameters
<1>8. PathOK(path') /\ fresh' \in Seq(Ids \ {rootId})
  BY <1>0, <1>1, PopPath DEF LocalsOK
<1>9. LocalsOK'
  BY <1>0, <1>1, <1>7, <1>8 DEF LocalsOK, FitNode, Labels
<1> QED
  BY <1>1, <1>6, <1>9, ComputeStep

LEMMA InsertSplitRootStep == ASSUME IInv, InsertSplitRoot PROVE IInv'
<1>0. StorageOK /\ FitTodo(todo) /\ LocalsOK /\ cur \in Node /\ SplitInRange(cur)
  BY Parts DEF InsertSplitRoot, LocalsOK
<1>1. Compute /\ UNCHANGED <<cur, path, at, target, hole>> /\ pc' = "done" /\ fresh' = <<>>
  BY DEF InsertSplitRoot, Finish
<1>2. fresh[1] \in Ids \ {rootId} /\ fresh[2] \in Ids \ {rootId}
  <2>1. Len(fresh) = 2 /\ fresh \in Seq(Ids \ {rootId})
    BY <1>0 DEF InsertSplitRoot, LocalsOK
  <2> QED
    BY <2>1
<1> DEFINE newNode == SplitNew(cur, fresh[1])
           half == SplitOld(cur)
           oldRoot == [half EXCEPT !.id = fresh[2]]
           empty == createNewNode(cur.id, FALSE)
           middles == <<SplitMiddle(cur)>>
           halves == <<newNode.id, oldRoot.id>>
           newRoot == [empty EXCEPT !.values = middles, !.children = halves]
<1>3. todo' = <<persist(newRoot), persist(oldRoot), persist(newNode), updateDepth(treeDepth + 1)>>
  BY DEF InsertSplitRoot, SplitRootCalls
<1>4. FitNode(newNode) /\ newNode.id = fresh[1]
      /\ FitNode(half) /\ SplitMiddle(cur) \in Tuple
  BY <1>0, <1>2, SplitFits
<1>5. middles \in Seq(Tuple) /\ Len(middles) = 1
  BY <1>4
<1>6. cur.id \in Ids /\ empty \in Node
  BY <1>0, NodeParts, NewNode
<1> HIDE DEF half, newNode, empty, middles
<1>7. FitNode(oldRoot) /\ oldRoot.id = fresh[2]
  BY <1>2, <1>4, WithId DEF FitNode
<1> HIDE DEF oldRoot
<1>8. halves \in Seq(Ids \ {rootId})
  BY <1>2, <1>4, <1>7
<1> HIDE DEF halves
<1>9. newRoot \in Node /\ newRoot.values = middles
  BY <1>5, <1>6, <1>8 DEF Node
<1>10. FitNode(newRoot)
  <2>1. Len(middles) < b
    BY <1>5, Parameters
  <2> HIDE DEF newRoot
  <2> QED
    BY <1>9, <2>1 DEF FitNode
<1> HIDE DEF newRoot
<1>11. FitTodo(todo')
  <2>1. treeDepth + 1 \in Int
    BY <1>0 DEF StorageOK
  <2> QED
    BY <1>3, <1>4, <1>7, <1>10, <2>1, PersistCall, SetDepthCall, Queues
<1>12. LocalsOK'
  <2>1. fresh' \in Seq(Ids \ {rootId}) /\ PathOK(path')
    BY <1>0, <1>1 DEF LocalsOK
  <2> QED
    BY <1>0, <1>1, <2>1 DEF LocalsOK, FitNode, Labels
<1> QED
  BY <1>1, <1>11, <1>12, ComputeStep

-----------------------------------------------------------------------------
(* Delete.                                                                 *)

\* What every step of Delete starts from.
LEMMA DeleteFacts ==
    ASSUME IInv, pc \in {"delete", "pop"}
    PROVE  /\ StorageOK /\ FitTodo(todo) /\ LocalsOK /\ FitNode(cur) /\ FitNode(target)
           /\ at \in Nat /\ hole \in Nat /\ fresh \in Seq(Ids \ {rootId})
           /\ PathOK(PushCur) /\ PushCur # <<>>
<1>1. StorageOK /\ FitTodo(todo) /\ LocalsOK
  BY Parts
<1>2. FitNode(cur) /\ FitNode(target) /\ at \in Nat /\ hole \in Nat
      /\ fresh \in Seq(Ids \ {rootId})
  BY <1>1 DEF LocalsOK, FitNode
<1>3. PathOK(path) /\ cur \in Node /\ (path # <<>> => cur.id # rootId)
  BY <1>1 DEF LocalsOK
<1>4. PathOK(PushCur) /\ PushCur # <<>>
  BY <1>2, <1>3, PushPath DEF PushCur
<1> QED
  BY <1>1, <1>2, <1>4

LEMMA DeleteLeafStep == ASSUME IInv, DeleteLeaf PROVE IInv'
<1>0. /\ StorageOK /\ LocalsOK /\ FitNode(cur) /\ FitNode(target)
      /\ at \in Nat /\ hole \in Nat /\ fresh \in Seq(Ids \ {rootId}) /\ PathOK(PushCur)
  BY DeleteFacts DEF DeleteLeaf, At
<1>1. /\ Compute /\ UNCHANGED <<cur, at, target, hole, fresh>>
      /\ pc' = "balance" /\ path' = PushCur
  BY DEF DeleteLeaf, Goto
<1>2. PICK p \in find(cur.values, req.key) :
         /\ Found(cur.values, req.key, p)
         /\ todo' = <<persist([cur EXCEPT !.values = pop(cur.values, p)])>>
  BY DEF DeleteLeaf
<1>3. FitTodo(todo')
  <2>1. /\ cur \in Node /\ cur.values \in Seq(Tuple) /\ Len(cur.values) \in Nat
        /\ Len(cur.values) < b
    BY <1>0, NodeParts DEF FitNode
  <2>2. p \in Nat /\ p < Len(cur.values)
    BY <1>2, <2>1 DEF find, Found
  <2> DEFINE v == pop(cur.values, p)
             n == [cur EXCEPT !.values = v]
  <2>3. v \in Seq(Tuple) /\ Len(v) = Len(cur.values) - 1
    BY <2>1, <2>2, PopType
  <2>4. todo' = <<persist(n)>>
    BY <1>2
  <2> HIDE DEF v
  <2>5. n \in Node /\ n.values = v
    BY <2>1, <2>3 DEF Node
  <2>6. FitNode(n)
    BY <2>1, <2>3, <2>5, Parameters DEF FitNode
  <2> HIDE DEF n
  <2> QED
    BY <2>4, <2>6, PersistCall, Queues
<1>4. LocalsOK'
  <2>1. FitNode(cur') /\ FitNode(target')
    BY <1>0, <1>1
  <2> QED
    BY <1>0, <1>1, <2>1, FitLocals DEF Labels
<1> QED
  BY <1>1, <1>3, <1>4, ComputeStep

LEMMA DeleteInnerStep == ASSUME IInv, DeleteInner PROVE IInv'
<1>0. /\ StorageOK /\ FitTodo(todo) /\ FitNode(cur) /\ cur \in Node
      /\ fresh \in Seq(Ids \ {rootId}) /\ PathOK(PushCur)
  BY DeleteFacts DEF DeleteInner, At, FitNode
<1>1. /\ Compute /\ UNCHANGED <<fresh, todo>>
      /\ pc' = "pop" /\ path' = PushCur /\ target' = cur
  BY DEF DeleteInner, Goto
<1>2. PICK p \in find(cur.values, req.key) :
         /\ \E c \in Child(cur, p) : Stores(c) /\ cur' = nodes[c]
         /\ hole' = p /\ at' = p /\ Found(cur.values, req.key, p)
  BY DEF DeleteInner
<1>3. p \in Nat /\ p < Len(cur.values)
  BY <1>2 DEF find, Found
<1>4. FitNode(cur') /\ cur'.id # rootId
  BY <1>0, <1>2, <1>3, LoadedChild
<1>5. LocalsOK'
  BY <1>0, <1>1, <1>2, <1>3, <1>4, FitLocals DEF Labels
<1> QED
  BY <1>0, <1>1, <1>5, ComputeStep

LEMMA DeleteDescendStep == ASSUME IInv, DeleteDescend PROVE IInv'
<1>0. /\ StorageOK /\ FitTodo(todo) /\ FitNode(cur) /\ cur \in Node /\ FitNode(target)
      /\ hole \in Nat /\ fresh \in Seq(Ids \ {rootId}) /\ PathOK(PushCur)
  BY DeleteFacts DEF DeleteDescend, At, FitNode
<1>1. /\ Compute /\ UNCHANGED <<target, hole, fresh, todo>>
      /\ pc' = "delete" /\ path' = PushCur
  BY DEF DeleteDescend, Goto
<1>2. PICK p \in find(cur.values, req.key) :
         /\ \E c \in Child(cur, p) : Stores(c) /\ cur' = nodes[c]
         /\ at' = p
  BY DEF DeleteDescend
<1>3. p \in Nat
  BY DEF find
<1>4. FitNode(cur') /\ cur'.id # rootId
  BY <1>0, <1>2, <1>3, LoadedChild
<1>5. FitNode(target')
  BY <1>0, <1>1
<1>6. LocalsOK'
  BY <1>0, <1>1, <1>2, <1>3, <1>4, <1>5, FitLocals DEF Labels
<1> QED
  BY <1>0, <1>1, <1>6, ComputeStep

LEMMA PopDescendStep == ASSUME IInv, PopDescend PROVE IInv'
<1>0. /\ StorageOK /\ FitTodo(todo) /\ FitNode(cur) /\ cur \in Node /\ FitNode(target)
      /\ hole \in Nat /\ fresh \in Seq(Ids \ {rootId}) /\ PathOK(PushCur)
      /\ hole < Len(target.values)
  BY DeleteFacts DEF PopDescend, At, FitNode, LocalsOK
<1> DEFINE p == Len(cur.children) - 1
<1>1. /\ Compute /\ UNCHANGED <<target, hole, fresh, todo>>
      /\ pc' = "pop" /\ path' = PushCur /\ at' = p
  BY DEF PopDescend, Goto
<1>2. PICK c \in Child(cur, p) : Stores(c) /\ cur' = nodes[c]
  BY DEF PopDescend
<1>3. p \in Nat
  <2>1. cur.children \in Seq(Ids \ {rootId}) /\ Len(cur.children) \in Nat
    BY <1>0, NodeParts
  <2>2. p + 1 \in DOMAIN cur.children
    BY <1>2 DEF Child
  <2> QED
    BY <2>1, <2>2
<1> HIDE DEF p
<1>4. FitNode(cur') /\ cur'.id # rootId
  BY <1>0, <1>2, <1>3, LoadedChild
<1>5. FitNode(target')
  BY <1>0, <1>1
<1>6. LocalsOK'
  BY <1>0, <1>1, <1>3, <1>4, <1>5, FitLocals DEF Labels
<1> QED
  BY <1>0, <1>1, <1>6, ComputeStep

LEMMA PopLeafStep == ASSUME IInv, PopLeaf PROVE IInv'
<1>0. /\ StorageOK /\ LocalsOK /\ FitNode(cur) /\ FitNode(target)
      /\ at \in Nat /\ hole \in Nat /\ fresh \in Seq(Ids \ {rootId}) /\ PathOK(PushCur)
      /\ hole < Len(target.values)
  BY DeleteFacts DEF PopLeaf, At, LocalsOK
<1>1. /\ Compute /\ UNCHANGED <<cur, at, hole, fresh>>
      /\ pc' = "balance" /\ path' = PushCur /\ cur.values # <<>>
  BY DEF PopLeaf, Goto
<1> DEFINE v == popLast(cur.values)
           leaf == [cur EXCEPT !.values = v]
           w == swap(target.values, hole, Predecessor(cur))
           replaced == [target EXCEPT !.values = w]
<1>2. /\ target' = replaced
      /\ todo' = IF Backend = "memory" THEN <<persist(leaf), persist(replaced)>>
                 ELSE <<persist(leaf)>>
  BY DEF PopLeaf
<1>3. /\ cur \in Node /\ cur.values \in Seq(Tuple) /\ Len(cur.values) \in Nat
      /\ Len(cur.values) < b
      /\ target \in Node /\ target.values \in Seq(Tuple) /\ Len(target.values) < b
  BY <1>0, NodeParts DEF FitNode
<1>4. FitNode(leaf)
  <2>1. v \in Seq(Tuple) /\ Len(v) = Len(cur.values) - 1
    BY <1>1, <1>3, PopLastType
  <2> HIDE DEF v
  <2>2. leaf \in Node /\ leaf.values = v
    BY <1>3, <2>1 DEF Node
  <2> QED
    BY <1>3, <2>1, <2>2, Parameters DEF FitNode
<1>5. FitNode(replaced)
  <2>1. Predecessor(cur) \in Tuple
    BY <1>1, <1>3 DEF Predecessor, Final
  <2>2. w \in Seq(Tuple) /\ Len(w) = Len(target.values)
    BY <1>0, <1>3, <2>1, SwapTuples
  <2> HIDE DEF w
  <2>3. replaced \in Node /\ replaced.values = w
    BY <1>3, <2>2 DEF Node
  <2> QED
    BY <1>3, <2>2, <2>3 DEF FitNode
<1> HIDE DEF leaf, replaced
<1>6. FitTodo(todo')
  BY <1>2, <1>4, <1>5, PersistCall, Queues
<1>7. LocalsOK'
  <2>1. FitNode(cur') /\ FitNode(target')
    BY <1>0, <1>1, <1>2, <1>5
  <2> QED
    BY <1>0, <1>1, <2>1, FitLocals DEF Labels
<1> QED
  BY <1>1, <1>6, <1>7, ComputeStep

LEMMA DeleteSteps == ASSUME IInv, Delete PROVE IInv'
<1>1. CASE DeleteAbsent
  <2>1. StorageOK /\ FitTodo(todo) /\ LocalsOK
    BY Parts
  <2>2. Compute /\ UNCHANGED <<locals, todo>> /\ pc' = "done"
    BY <1>1 DEF DeleteAbsent, Finish
  <2>3. LocalsOK'
    BY <2>1, <2>2 DEF Compute, locals, LocalsOK, PathOK, FitNode, Labels
  <2> QED
    BY <2>1, <2>2, <2>3, ComputeStep
<1> QED
  BY <1>1, DeleteLeafStep, DeleteInnerStep, DeleteDescendStep, PopDescendStep, PopLeafStep
     DEF Delete

-----------------------------------------------------------------------------
(* balanceTreeAfterDelete.                                                 *)

LEMMA BalanceLoadStep == ASSUME IInv, BalanceLoad PROVE IInv'
<1>0. /\ StorageOK /\ FitTodo(todo) /\ LocalsOK /\ FitNode(target) /\ PathOK(path)
      /\ hole \in Nat /\ fresh \in Seq(Ids \ {rootId}) /\ Len(path) \in Nat
  BY Parts DEF LocalsOK, PathOK
<1>1. /\ Compute /\ UNCHANGED <<target, hole, fresh, todo>>
      /\ pc' = "fix" /\ Len(path) > 1 /\ Stores(Final(path).visitedNode)
      /\ cur' = nodes[Final(path).visitedNode] /\ at' = Final(path).positionInParent
      /\ path' = popLast(path)
  BY DEF BalanceLoad, Goto
<1>2. path # <<>>
  BY <1>0, <1>1
<1>3. FitNode(cur') /\ cur'.id # rootId
  <2>1. cur' = Parent
    BY <1>1 DEF Parent
  <2> QED
    BY <1>0, <1>1, <1>2, <2>1, ParentFits
<1>4. PathOK(path') /\ at' \in Nat
  BY <1>0, <1>1, <1>2, PopPath
<1>5. FitNode(target')
  BY <1>0, <1>1
<1>6. LocalsOK'
  BY <1>0, <1>1, <1>3, <1>4, <1>5, FitLocals DEF Labels
<1> QED
  BY <1>0, <1>1, <1>6, ComputeStep

\* The loop goes on at the parent with fitting calls.
LEMMA NextLevelStep ==
    ASSUME IInv, pc = "fix", path # <<>>, NEW parent, FitNode(parent),
           Len(path) > 1 => parent.id # rootId, NextLevel(parent), FitTodo(todo')
    PROVE  IInv'
<1>0. /\ LocalsOK /\ FitNode(target) /\ PathOK(path)
      /\ hole \in Nat /\ fresh \in Seq(Ids \ {rootId})
  BY Parts DEF LocalsOK
<1>1. /\ Compute /\ UNCHANGED <<target, hole, fresh>>
      /\ cur' = parent /\ at' = Final(path).positionInParent /\ path' = popLast(path)
      /\ pc' \in {"done", "fix"}
  BY DEF NextLevel, AfterLevel, Goto, Finish
<1>2. PathOK(path') /\ at' \in Nat /\ (path' # <<>> => cur'.id # rootId)
  BY <1>0, <1>1, PopPath
<1>3. FitNode(target') /\ FitNode(cur')
  BY <1>0, <1>1
<1>4. LocalsOK'
  BY <1>0, <1>1, <1>2, <1>3, FitLocals DEF Labels
<1> QED
  BY <1>1, <1>4, ComputeStep

\* A repair starts from a parent, a sibling and a current node that fit.
LEMMA FixingFacts ==
    ASSUME IInv, NEW s \in Int, Fixing(s)
    PROVE  /\ StorageOK /\ pc = "fix" /\ path # <<>> /\ Underfull(cur)
           /\ FitNode(cur) /\ cur.id # rootId
           /\ FitNode(Parent) /\ (Len(path) > 1 => Parent.id # rootId)
           /\ FitNode(Sibling(s)) /\ Sibling(s).id # rootId
<1>1. /\ StorageOK /\ LocalsOK /\ pc = "fix" /\ path # <<>> /\ Underfull(cur)
      /\ Stores(Final(path).visitedNode)
  BY Parts DEF Fixing, At, ParentStored
<1>2. FitNode(cur) /\ cur.id # rootId
  BY <1>1 DEF LocalsOK, FitNode
<1>3. FitNode(Parent) /\ (Len(path) > 1 => Parent.id # rootId)
  BY <1>1, ParentFits
<1>4. FitNode(Sibling(s)) /\ Sibling(s).id # rootId
  <2>1. PICK c \in Child(Parent, s) : Stores(c)
    BY DEF Fixing
  <2>2. c = Parent.children[s + 1]
    BY <2>1 DEF Child
  <2>3. FitNode(nodes[c]) /\ nodes[c].id # rootId
    BY <1>1, <1>3, <2>1, LoadedChild DEF FitNode
  <2> QED
    BY <2>2, <2>3 DEF Sibling
<1> QED
  BY <1>1, <1>2, <1>3, <1>4

\* Other values and children for a node.
LEMMA Changed ==
    ASSUME NEW n, FitNode(n), NEW v \in Seq(Tuple), Len(v) < b, NEW c \in Seq(Ids \ {rootId})
    PROVE  /\ FitNode([n EXCEPT !.values = v]) /\ [n EXCEPT !.values = v].id = n.id
           /\ FitNode([n EXCEPT !.values = v, !.children = c])
           /\ [n EXCEPT !.values = v, !.children = c].id = n.id
<1>1. n \in Node
  BY DEF FitNode
<1>2. [n EXCEPT !.values = v] \in Node /\ [n EXCEPT !.values = v].values = v
      /\ [n EXCEPT !.values = v].id = n.id
  BY <1>1 DEF Node
<1>3. /\ [n EXCEPT !.values = v, !.children = c] \in Node
      /\ [n EXCEPT !.values = v, !.children = c].values = v
      /\ [n EXCEPT !.values = v, !.children = c].id = n.id
  BY <1>1 DEF Node
<1> QED
  BY <1>2, <1>3 DEF FitNode

LEMMA LendFits ==
    ASSUME NEW n, FitNode(n), CanLend(n), cur \in Node, ~cur.leaf => n.children # <<>>
    PROVE  FitNode(LendFirst(n)) /\ FitNode(LendLast(n)) /\ n.values # <<>>
<1>1. /\ n.values \in Seq(Tuple) /\ n.children \in Seq(Ids \ {rootId})
      /\ Len(n.values) \in Nat /\ Len(n.values) < b /\ Len(n.values) >= a
      /\ Len(n.children) \in Nat
  BY NodeParts DEF FitNode, CanLend
<1>2. n.values # <<>> /\ 0 < Len(n.values) /\ Len(n.values) - 1 < b /\ 0 \in Nat
  BY <1>1, Parameters
<1> DEFINE v == popFirst(n.values)
           w == popLast(n.values)
           first == IF cur.leaf THEN n.children ELSE popFirst(n.children)
           last == IF cur.leaf THEN n.children ELSE popLast(n.children)
<1>3. v \in Seq(Tuple) /\ Len(v) < b
  BY <1>1, <1>2, PopType DEF popFirst
<1>4. w \in Seq(Tuple) /\ Len(w) < b
  BY <1>1, <1>2, PopLastType
<1>5. first \in Seq(Ids \ {rootId})
  <2>1. CASE cur.leaf
    BY <1>1, <2>1
  <2>2. CASE ~cur.leaf
    <3>1. 0 < Len(n.children)
      BY <1>1, <2>2
    <3>2. popFirst(n.children) \in Seq(Ids \ {rootId})
      BY <1>1, <1>2, <3>1, PopType DEF popFirst
    <3> QED
      BY <2>2, <3>2
  <2> QED
    BY <2>1, <2>2
<1>6. last \in Seq(Ids \ {rootId})
  <2>1. CASE cur.leaf
    BY <1>1, <2>1
  <2>2. CASE ~cur.leaf
    <3>1. popLast(n.children) \in Seq(Ids \ {rootId})
      BY <1>1, <2>2, PopLastType
    <3> QED
      BY <2>2, <3>1
  <2> QED
    BY <2>1, <2>2
<1>7. /\ LendFirst(n) = [n EXCEPT !.values = v, !.children = first]
      /\ LendLast(n) = [n EXCEPT !.values = w, !.children = last]
  BY DEF LendFirst, LendLast
<1> HIDE DEF v, w, first, last
<1>8. FitNode([n EXCEPT !.values = v, !.children = first])
  BY <1>3, <1>5, Changed
<1>9. FitNode([n EXCEPT !.values = w, !.children = last])
  BY <1>4, <1>6, Changed
<1> QED
  BY <1>2, <1>7, <1>8, <1>9

LEMMA TakeFits ==
    ASSUME FitNode(cur), Underfull(cur), NEW t \in Tuple, NEW n \in Node,
           ~cur.leaf => n.children # <<>>
    PROVE  FitNode(TakeLast(t, n)) /\ FitNode(TakeFirst(t, n))
<1>1. /\ cur.values \in Seq(Tuple) /\ cur.children \in Seq(Ids \ {rootId})
      /\ cur.leaf \in BOOLEAN /\ Len(cur.values) \in Nat /\ Len(cur.values) + 1 < b
      /\ n.children \in Seq(Ids \ {rootId}) /\ Len(n.children) \in Nat
  BY NodeParts, Parameters DEF FitNode, Underfull
<1>2. ~cur.leaf => /\ n.children[1] \in Ids \ {rootId}
                   /\ Final(n.children) \in Ids \ {rootId}
  BY <1>1 DEF Final
<1> DEFINE v == Append(cur.values, t)
           w == prepend(cur.values, t)
           last == IF cur.leaf THEN cur.children ELSE Append(cur.children, n.children[1])
           first == IF cur.leaf THEN cur.children ELSE prepend(cur.children, Final(n.children))
<1>3. v \in Seq(Tuple) /\ Len(v) < b
  BY <1>1
<1>4. w \in Seq(Tuple) /\ Len(w) < b
  BY <1>1, PrependType
<1>5. last \in Seq(Ids \ {rootId})
  BY <1>1, <1>2
<1>6. first \in Seq(Ids \ {rootId})
  BY <1>1, <1>2, PrependType
<1>7. /\ TakeLast(t, n) = [cur EXCEPT !.values = v, !.children = last]
      /\ TakeFirst(t, n) = [cur EXCEPT !.values = w, !.children = first]
  BY DEF TakeLast, TakeFirst
<1> HIDE DEF v, w, first, last
<1>8. FitNode([cur EXCEPT !.values = v, !.children = last])
  BY <1>3, <1>5, Changed
<1>9. FitNode([cur EXCEPT !.values = w, !.children = first])
  BY <1>4, <1>6, Changed
<1> QED
  BY <1>7, <1>8, <1>9

LEMMA BorrowRightStep == ASSUME IInv, BorrowRight PROVE IInv'
<1> DEFINE sibling == Sibling(1)
           v == swap(Parent.values, 0, sibling.values[1])
           parent == [Parent EXCEPT !.values = v]
<1>0. /\ pc = "fix" /\ path # <<>> /\ Underfull(cur) /\ FitNode(cur)
      /\ FitNode(Parent) /\ (Len(path) > 1 => Parent.id # rootId)
      /\ FitNode(sibling)
  BY FixingFacts DEF BorrowRight
<1>1. /\ CanLend(sibling) /\ Parent.values # <<>> /\ (~cur.leaf => sibling.children # <<>>)
      /\ todo' = <<persist(LendFirst(sibling)), persist(parent),
                   persist(TakeLast(Parent.values[1], sibling))>>
      /\ NextLevel(parent)
  BY DEF BorrowRight
<1> HIDE DEF sibling
<1>2. /\ Parent.values \in Seq(Tuple) /\ Len(Parent.values) \in Nat /\ Len(Parent.values) < b
      /\ sibling.values \in Seq(Tuple) /\ sibling \in Node /\ cur \in Node
  BY <1>0, NodeParts DEF FitNode
<1>3. FitNode(LendFirst(sibling)) /\ sibling.values # <<>>
  BY <1>0, <1>1, <1>2, LendFits
<1>4. sibling.values[1] \in Tuple /\ Parent.values[1] \in Tuple /\ 0 \in Nat
      /\ 0 < Len(Parent.values)
  BY <1>1, <1>2, <1>3
<1>5. v \in Seq(Tuple) /\ Len(v) < b
  BY <1>2, <1>4, SwapTuples
<1>6. FitNode(TakeLast(Parent.values[1], sibling))
  BY <1>0, <1>1, <1>2, <1>4, TakeFits
<1> HIDE DEF v
<1>7. FitNode(parent) /\ parent.id = Parent.id
  <2>1. <<>> \in Seq(Ids \ {rootId})
    OBVIOUS
  <2> QED
    BY <1>0, <1>5, <2>1, Changed
<1> HIDE DEF parent
<1>8. FitTodo(todo')
  BY <1>1, <1>3, <1>6, <1>7, PersistCall, Queues
<1> QED
  BY <1>0, <1>1, <1>7, <1>8, NextLevelStep

LEMMA BorrowLeftStep == ASSUME IInv, BorrowLeft PROVE IInv'
<1> DEFINE sibling == Sibling(at - 1)
           v == swap(Parent.values, at - 1, Final(sibling.values))
           parent == [Parent EXCEPT !.values = v]
<1>at. at \in Nat /\ at > 0 /\ at - 1 \in Nat
  BY Parts DEF BorrowLeft, LocalsOK
<1>0. /\ pc = "fix" /\ path # <<>> /\ Underfull(cur) /\ FitNode(cur)
      /\ FitNode(Parent) /\ (Len(path) > 1 => Parent.id # rootId)
      /\ FitNode(sibling)
  BY <1>at, FixingFacts DEF BorrowLeft
<1>1. /\ CanLend(sibling) /\ Len(Parent.values) >= at /\ (~cur.leaf => sibling.children # <<>>)
      /\ todo' = <<persist(LendLast(sibling)), persist(parent),
                   persist(TakeFirst(Parent.values[at], sibling))>>
      /\ NextLevel(parent)
  BY DEF BorrowLeft
<1> HIDE DEF sibling
<1>2. /\ Parent.values \in Seq(Tuple) /\ Len(Parent.values) \in Nat /\ Len(Parent.values) < b
      /\ sibling.values \in Seq(Tuple) /\ sibling \in Node /\ cur \in Node
  BY <1>0, NodeParts DEF FitNode
<1>3. FitNode(LendLast(sibling)) /\ sibling.values # <<>>
  BY <1>0, <1>1, <1>2, LendFits
<1>4. Final(sibling.values) \in Tuple /\ Parent.values[at] \in Tuple
      /\ at - 1 < Len(Parent.values)
  BY <1>at, <1>1, <1>2, <1>3 DEF Final
<1>5. v \in Seq(Tuple) /\ Len(v) < b
  BY <1>at, <1>2, <1>4, SwapTuples
<1>6. FitNode(TakeFirst(Parent.values[at], sibling))
  BY <1>0, <1>1, <1>2, <1>4, TakeFits
<1> HIDE DEF v
<1>7. FitNode(parent) /\ parent.id = Parent.id
  <2>1. <<>> \in Seq(Ids \ {rootId})
    OBVIOUS
  <2> QED
    BY <1>0, <1>5, <2>1, Changed
<1> HIDE DEF parent
<1>8. FitTodo(todo')
  BY <1>1, <1>3, <1>6, <1>7, PersistCall, Queues
<1> QED
  BY <1>0, <1>1, <1>7, <1>8, NextLevelStep

LEMMA MergeStep ==
    ASSUME IInv, pc = "fix", path # <<>>, FitNode(Parent), Len(path) > 1 => Parent.id # rootId,
           NEW m \in Nat, NEW left, NEW right, FitNode(left), FitNode(right),
           left.id # rootId, right.id # rootId,
           Len(left.values) + 1 + Len(right.values) < b,
           merge(m, left, right)
    PROVE  IInv'
<1> DEFINE v == pop(Parent.values, m)
           c == pop(Parent.children, m + 1)
           parent == [Parent EXCEPT !.values = v, !.children = c]
           w == left.values \o <<Parent.values[m + 1]>> \o right.values
           d == left.children \o right.children
           merged == [left EXCEPT !.values = w, !.children = d]
<1>1. /\ Len(Parent.values) > m /\ Len(Parent.children) > m + 1
      /\ todo' = IF Len(path) = 1 /\ parent.values = <<>>
                   THEN CollapseCalls(parent, left, right, merged)
                   ELSE MergeCalls(parent, left, right, merged)
      /\ NextLevel(parent)
  BY DEF merge
<1>2. /\ Parent.values \in Seq(Tuple) /\ Len(Parent.values) \in Nat /\ Len(Parent.values) < b
      /\ Parent.children \in Seq(Ids \ {rootId}) /\ Parent.id \in Ids
      /\ left.values \in Seq(Tuple) /\ left.children \in Seq(Ids \ {rootId}) /\ left.id \in Ids
      /\ right.values \in Seq(Tuple) /\ right.children \in Seq(Ids \ {rootId}) /\ right.id \in Ids
  BY NodeParts DEF FitNode
<1>3. v \in Seq(Tuple) /\ Len(v) < b
  <2>1. v \in Seq(Tuple) /\ Len(v) = Len(Parent.values) - 1
    BY <1>1, <1>2, PopType
  <2> HIDE DEF v
  <2> QED
    BY <1>2, <2>1, Parameters
<1>4. c \in Seq(Ids \ {rootId})
  <2>1. m + 1 \in Nat
    OBVIOUS
  <2> QED
    BY <1>1, <1>2, <2>1, PopType
<1>5. w \in Seq(Tuple) /\ Len(w) < b
  <2>1. Parent.values[m + 1] \in Tuple
    BY <1>1, <1>2
  <2>2. w \in Seq(Tuple) /\ Len(w) = Len(left.values) + 1 + Len(right.values)
    BY <1>2, <2>1, JoinedAround
  <2> QED
    BY <2>2
<1>6. d \in Seq(Ids \ {rootId})
  BY <1>2, Joined
<1> HIDE DEF v, c, w, d
<1>7. FitNode(parent) /\ parent.id = Parent.id
  BY <1>3, <1>4, Changed
<1>8. FitNode(merged)
  BY <1>5, <1>6, Changed
<1> HIDE DEF parent, merged
<1>9. FitNode([merged EXCEPT !.id = parent.id])
  <2>1. merged \in Node /\ parent.id \in Ids
    BY <1>2, <1>7, <1>8 DEF FitNode
  <2> QED
    BY <1>8, <2>1, WithId DEF FitNode
<1>10. /\ FitCall(persist(parent)) /\ FitCall(persist(merged)) /\ FitCall(remove(left.id))
       /\ FitCall(remove(right.id)) /\ FitCall(persist([merged EXCEPT !.id = parent.id]))
  BY <1>2, <1>7, <1>8, <1>9, PersistCall, RemoveCall
<1>11. FitCall(updateDepth(treeDepth - 1))
  BY Parts, SetDepthCall DEF StorageOK
<1>12. FitTodo(CollapseCalls(parent, left, right, merged))
  BY <1>10, <1>11, Queues DEF CollapseCalls
<1>13. FitTodo(MergeCalls(parent, left, right, merged))
  BY <1>10, Queues DEF MergeCalls
<1>14. FitTodo(todo')
  BY <1>1, <1>12, <1>13
<1> QED
  BY <1>1, <1>7, <1>14, NextLevelStep

\* Two neighbours, one underfull and the other unable to lend, fit in one node
\* with the value between them.
LEMMA MergeRoom ==
    ASSUME NEW n, NEW o, FitNode(n), FitNode(o), Underfull(n), ~CanLend(o)
    PROVE  /\ Len(n.values) + 1 + Len(o.values) < b
           /\ Len(o.values) + 1 + Len(n.values) < b
<1> DEFINE x == Len(n.values)
           y == Len(o.values)
<1>1. x \in Nat /\ y \in Nat
  BY NodeParts DEF FitNode
<1>2. a \in Nat /\ b \in Nat /\ b >= 2 * a - 1
  BY Parameters
<1>3. x + 1 < a /\ ~(y >= a)
  BY DEF Underfull, CanLend
<1> HIDE DEF x, y
<1>4. x + 1 + y < b /\ y + 1 + x < b
  BY <1>1, <1>2, <1>3
<1> QED
  BY <1>4 DEF x, y

LEMMA MergeRightStep == ASSUME IInv, MergeRight PROVE IInv'
<1>1. /\ pc = "fix" /\ path # <<>> /\ Underfull(cur) /\ FitNode(cur) /\ cur.id # rootId
      /\ FitNode(Parent) /\ (Len(path) > 1 => Parent.id # rootId)
      /\ FitNode(Sibling(1)) /\ Sibling(1).id # rootId
  BY FixingFacts DEF MergeRight
<1>2. ~CanLend(Sibling(1)) /\ merge(0, cur, Sibling(1)) /\ 0 \in Nat
  BY DEF MergeRight
<1> HIDE DEF Sibling, merge
<1>3. Len(cur.values) + 1 + Len(Sibling(1).values) < b
  BY <1>1, <1>2, MergeRoom
<1> QED
  BY <1>1, <1>2, <1>3, MergeStep

LEMMA MergeLeftStep == ASSUME IInv, MergeLeft PROVE IInv'
<1>0. at \in Nat /\ at > 0 /\ at - 1 \in Nat
  BY Parts DEF MergeLeft, LocalsOK
<1>1. /\ pc = "fix" /\ path # <<>> /\ Underfull(cur) /\ FitNode(cur) /\ cur.id # rootId
      /\ FitNode(Parent) /\ (Len(path) > 1 => Parent.id # rootId)
      /\ FitNode(Sibling(at - 1)) /\ Sibling(at - 1).id # rootId
  BY <1>0, FixingFacts DEF MergeLeft
<1>2. ~CanLend(Sibling(at - 1)) /\ merge(at - 1, Sibling(at - 1), cur)
  BY DEF MergeLeft
<1>3. Len(Sibling(at - 1).values) + 1 + Len(cur.values) < b
  BY <1>1, <1>2, MergeRoom
<1> QED
  BY <1>0, <1>1, <1>2, <1>3, MergeStep

LEMMA BalanceSteps == ASSUME IInv, Balance PROVE IInv'
<1>1. CASE BalanceRoot \/ FixDone
  <2>1. StorageOK /\ FitTodo(todo) /\ LocalsOK
    BY Parts
  <2>2. Compute /\ UNCHANGED <<locals, todo>> /\ pc' = "done"
    BY <1>1 DEF BalanceRoot, FixDone, Finish
  <2>3. LocalsOK'
    BY <2>1, <2>2 DEF Compute, locals, LocalsOK, PathOK, FitNode, Labels
  <2> QED
    BY <2>1, <2>2, <2>3, ComputeStep
<1> QED
  BY <1>1, BalanceLoadStep, BorrowRightStep, BorrowLeftStep, MergeRightStep, MergeLeftStep
     DEF Balance

-----------------------------------------------------------------------------
(* The storage calls, errors and panics.                                   *)

\* What the file keeps of a node is a node that fits.
LEMMA StoredFits ==
    ASSUME NEW n, FitNode(n)
    PROVE  FitNode(Stored(n)) /\ Stored(n).id = n.id
<1>1. n \in Node /\ n.values \in Seq(Tuple) /\ Len(n.values) < b
      /\ n.children \in Seq(Ids \ {rootId})
  BY NodeParts DEF FitNode
<1>2. \A S : \A s \in Seq(S) : \A k \in Nat : Prefix(s, k) \in Seq(S) /\ Len(Prefix(s, k)) <= Len(s)
  <2> SUFFICES ASSUME NEW S, NEW s \in Seq(S), NEW k \in Nat
               PROVE  Prefix(s, k) \in Seq(S) /\ Len(Prefix(s, k)) <= Len(s)
    OBVIOUS
  <2> DEFINE e == IF Len(s) < k THEN Len(s) ELSE k
  <2>1. Len(s) \in Nat
    OBVIOUS
  <2>2. e \in Nat /\ e <= Len(s)
    BY <2>1
  <2>3. Prefix(s, k) = SubSeq(s, 1, e)
    BY DEF Prefix
  <2> HIDE DEF e
  <2>4. e >= 1 - 1 /\ 1 \in Int /\ e \in Int /\ e - 1 + 1 = e /\ 1 >= 1
    BY <2>2
  <2>5. SubSeq(s, 1, e) \in Seq(S) /\ Len(SubSeq(s, 1, e)) = e - 1 + 1
    BY <2>2, <2>4, PartOf
  <2> QED
    BY <2>2, <2>3, <2>4, <2>5
<1> DEFINE v == Prefix(n.values, b - 1)
           c == Prefix(n.children, b)
           file == [n EXCEPT !.values = v, !.children = c, !.leaf = (n.children = <<>>)]
<1>3. b - 1 \in Nat /\ b \in Nat /\ Len(n.values) \in Nat
  BY <1>1, Parameters
<1>4. v \in Seq(Tuple) /\ Len(v) <= Len(n.values)
  BY <1>1, <1>2, <1>3
<1>5. c \in Seq(Ids \ {rootId})
  BY <1>1, <1>2, <1>3
<1>6. Stored(n) = IF Backend = "memory" THEN n ELSE file
  BY DEF Stored
<1> HIDE DEF v, c
<1>7. file \in Node /\ file.values = v /\ file.id = n.id
  BY <1>1, <1>4, <1>5 DEF Node
<1>8. Len(v) \in Nat
  BY <1>4
<1>9. Len(v) < b
  BY <1>1, <1>3, <1>4, <1>8
<1> HIDE DEF file
<1>10. FitNode(file)
  BY <1>7, <1>9 DEF FitNode
<1> QED
  BY <1>6, <1>7, <1>10

LEMMA PutFits ==
    ASSUME FitNodes(nodes), NEW n, FitNode(n)
    PROVE  FitNodes(Put(n.id, n))
<1>1. n.id \in Ids
  BY NodeParts DEF FitNode
<1> QED
  BY <1>1 DEF FitNodes, Put

LEMMA DropFits ==
    ASSUME FitNodes(nodes), NEW i, i # rootId
    PROVE  FitNodes(Drop(i))
BY DEF FitNodes, Drop

\* What is left of a removed node's children are children.
LEMMA LeaveType ==
    ASSUME StorageOK, NEW i
    PROVE  Leave(i) \in [Ids -> Seq(Ids \ {rootId})]
<1>1. CASE Stores(i)
  <2>1. i \in Ids /\ nodes[i].children \in Seq(Ids \ {rootId})
    BY <1>1, NodeParts DEF Stores, StorageOK, FitNodes, FitNode
  <2> QED
    BY <2>1 DEF StorageOK, Leave
<1>2. CASE ~Stores(i)
  BY <1>2 DEF StorageOK, Leave
<1> QED
  BY <1>1, <1>2

LEMMA OverwriteType ==
    ASSUME StorageOK, NEW i
    PROVE  Overwrite(i) \in [Ids -> Seq(Ids \ {rootId})]
<1> DEFINE none == <<>>
<1>1. none \in Seq(Ids \ {rootId})
  OBVIOUS
<1>2. Overwrite(i) = [stale EXCEPT ![i] = none]
  BY DEF Overwrite
<1> HIDE DEF none
<1> QED
  BY <1>1, <1>2 DEF StorageOK

LEMMA TornParts ==
    ASSUME StorageOK, NEW n, FitNode(n), TornPersist(n)
    PROVE  \/ nodes' = nodes
           \/ \E m : /\ FitNode(m) /\ m.id = n.id /\ nodes' = Put(n.id, Stored(m))
                     /\ \/ m.values = n.values \/ m.values = <<>>
                        \/ n.id \in DOMAIN nodes /\ m = nodes[n.id]
<1> DEFINE none == <<>>
           old == IF Stores(n.id) THEN nodes[n.id]
                  ELSE [n EXCEPT !.values = none, !.children = stale[n.id]]
           torn == [n EXCEPT !.children = old.children]
<1>1. nodes' \in {nodes, Put(n.id, Stored(old)), Put(n.id, Stored(torn))}
  BY DEF TornPersist
<1>2. n \in Node /\ Len(n.values) < b /\ n.id \in Ids
  BY NodeParts DEF FitNode
<1>3. FitNode(old) /\ old.id = n.id
  <2>1. CASE Stores(n.id)
    BY <2>1 DEF StorageOK, FitNodes, Stores
  <2>2. CASE ~Stores(n.id)
    <3>1. none \in Seq(Tuple) /\ Len(none) < b
      BY Parameters
    <3>2. stale[n.id] \in Seq(Ids \ {rootId})
      BY <1>2 DEF StorageOK
    <3> HIDE DEF none
    <3> DEFINE e == [n EXCEPT !.values = none, !.children = stale[n.id]]
    <3>3. old = e
      BY <2>2
    <3>4. FitNode(e) /\ e.id = n.id
      BY <3>1, <3>2, Changed
    <3> HIDE DEF old, e
    <3> QED
      BY <3>3, <3>4
  <2> QED
    BY <2>1, <2>2
<1> HIDE DEF old
<1>4. old.children \in Seq(Ids \ {rootId})
  BY <1>3, NodeParts DEF FitNode
<1>5. torn \in Node /\ torn.values = n.values /\ torn.id = n.id
  BY <1>2, <1>4 DEF Node
<1> HIDE DEF torn
<1>6. FitNode(torn)
  BY <1>2, <1>5 DEF FitNode
<1>7. old.values = <<>> \/ (n.id \in DOMAIN nodes /\ old = nodes[n.id])
  BY <1>2 DEF old, none, Stores, Node
<1> QED
  BY <1>1, <1>3, <1>5, <1>6, <1>7

LEMMA TornFits ==
    ASSUME StorageOK, NEW n, FitNode(n), TornPersist(n)
    PROVE  FitNodes(nodes')
<1>1. FitNodes(nodes)
  BY DEF StorageOK
<1>2. ASSUME NEW m, FitNode(m), m.id = n.id, nodes' = Put(n.id, Stored(m)) PROVE FitNodes(nodes')
  <2>1. FitNode(Stored(m)) /\ Stored(m).id = n.id
    BY <1>2, StoredFits
  <2> QED
    BY <1>1, <1>2, <2>1, PutFits
<1> QED
  BY <1>1, <1>2, TornParts

\* The first call, and the queue after it.
LEMMA FirstCall ==
    ASSUME FitTodo(todo), todo # <<>>
    PROVE  FitTodo(Tail(todo)) /\ FitCall(Head(todo))
<1>1. todo \in Seq(StorageCalls) /\ \A k \in DOMAIN todo : FitCall(todo[k])
  BY DEF FitTodo
<1>2. FitCall(Head(todo))
  BY <1>1
<1>3. Tail(todo) \in Seq(StorageCalls) /\ \A k \in DOMAIN Tail(todo) : FitCall(Tail(todo)[k])
  BY <1>1
<1> QED
  BY <1>2, <1>3 DEF FitTodo

\* What a call holds, by its name.
LEMMA CallParts ==
    ASSUME NEW c, FitCall(c)
    PROVE  /\ c.call = "Persist" => FitNode(c.node)
           /\ c.call = "Remove" => c.id # rootId
           /\ c.call = "SetDepth" => c.depth \in Int
BY DEF FitCall, FitNode, StorageCalls

LEMMA StorageCallStep == ASSUME IInv, StorageCall PROVE IInv'
<1>0. StorageOK /\ FitTodo(todo) /\ LocalsOK /\ HistoryOK
  BY Parts
<1>1. /\ todo # <<>> /\ todo' = Tail(todo)
      /\ UNCHANGED <<pc, req, locals, ret, faults, before>>
  BY DEF StorageCall, CallPersist, CallRemove, CallSetDepth, Pending
<1>2. FitTodo(todo') /\ FitCall(Head(todo))
  BY <1>0, <1>1, FirstCall
<1>3. LocalsOK'
  BY <1>0, <1>1 DEF locals, LocalsOK, PathOK, FitNode
<1>4. HistoryOK'
  BY <1>0, <1>1 DEF HistoryOK
<1>5. StorageOK'
  <2>1. CASE CallPersist
    <3>1. /\ Head(todo).call = "Persist"
          /\ nodes' = Put(Head(todo).node.id, Stored(Head(todo).node))
          /\ stale' = Overwrite(Head(todo).node.id)
          /\ UNCHANGED <<issued, depth, treeDepth>>
      BY <2>1 DEF CallPersist, Pending
    <3>2. FitNode(Stored(Head(todo).node)) /\ Stored(Head(todo).node).id = Head(todo).node.id
      BY <1>2, <3>1, CallParts, StoredFits
    <3>3. FitNodes(nodes')
      BY <1>0, <3>1, <3>2, PutFits DEF StorageOK
    <3> QED
      BY <1>0, <3>1, <3>3, OverwriteType DEF StorageOK
  <2>2. CASE CallRemove
    <3>1. /\ Head(todo).call = "Remove"
          /\ nodes' = Drop(Head(todo).id) /\ issued' = issued \ {Head(todo).id}
          /\ stale' = Leave(Head(todo).id)
          /\ UNCHANGED <<depth, treeDepth>>
      BY <2>2 DEF CallRemove, Pending
    <3>2. Head(todo).id # rootId
      BY <1>2, <3>1, CallParts
    <3>3. FitNodes(nodes')
      BY <1>0, <3>1, <3>2, DropFits DEF StorageOK
    <3> QED
      BY <1>0, <3>1, <3>2, <3>3, LeaveType DEF StorageOK
  <2>3. CASE CallSetDepth
    <3>1. /\ Head(todo).call = "SetDepth"
          /\ depth' = Head(todo).depth /\ treeDepth' = Head(todo).depth
          /\ UNCHANGED <<nodes, issued, stale>>
      BY <2>3 DEF CallSetDepth, Pending
    <3>2. Head(todo).depth \in Int
      BY <1>2, <3>1, CallParts
    <3> QED
      BY <1>0, <3>1, <3>2 DEF StorageOK
  <2> QED
    BY <2>1, <2>2, <2>3 DEF StorageCall
<1> QED
  BY <1>2, <1>3, <1>4, <1>5, PartsNext

\* An operation that ends with an error or a panic drops its pending calls.
LEMMA AbortStep ==
    ASSUME IInv, NEW l \in {"error", "panic"}, Abort(l), StorageOK', faults' \in 0 .. MaxFaults
    PROVE  IInv'
<1>0. LocalsOK /\ HistoryOK
  BY Parts
<1>1. pc' = l /\ todo' = <<>> /\ UNCHANGED <<req, locals, before>>
  BY DEF Abort
<1>2. LocalsOK'
  BY <1>0, <1>1 DEF locals, LocalsOK, PathOK, FitNode, Labels
<1>3. HistoryOK'
  BY <1>0, <1>1 DEF HistoryOK
<1>4. FitTodo(todo')
  BY <1>1, Queues
<1> QED
  BY <1>2, <1>3, <1>4, PartsNext

LEMMA ErrorSteps == ASSUME IInv, LoadMissing \/ Panic PROVE IInv'
<1>1. StorageOK /\ HistoryOK
  BY Parts
<1>2. UNCHANGED <<storageVars, treeDepth, faults, stale>> /\ (Abort("error") \/ Abort("panic"))
  BY DEF LoadMissing, Panic
<1>3. StorageOK' /\ faults' \in 0 .. MaxFaults
  BY <1>1, <1>2 DEF StorageOK, storageVars, HistoryOK
<1> QED
  BY <1>2, <1>3, AbortStep

LEMMA FailStep == ASSUME IInv, Fail PROVE IInv'
<1>0. StorageOK /\ FitTodo(todo) /\ HistoryOK
  BY Parts
<1>1. faults' \in 0 .. MaxFaults /\ Abort("error")
  BY <1>0, BackendAssumption DEF Fail, HistoryOK
<1>2. StorageOK'
  <2>1. CASE UNCHANGED <<storageVars, treeDepth, stale>>
    BY <1>0, <2>1 DEF StorageOK, storageVars
  <2>2. CASE /\ issued' \in {issued} \cup {issued \cup {id} : id \in NextIds(issued)}
             /\ UNCHANGED <<nodes, depth, treeDepth, stale>>
    <3>1. issued' \subseteq Ids /\ rootId \in issued'
      BY <1>0, <2>2, NextIdsAssumption DEF StorageOK
    <3> QED
      BY <1>0, <2>2, <3>1 DEF StorageOK
  <2>3. CASE /\ Pending("Persist") /\ TornPersist(Head(todo).node)
             /\ UNCHANGED <<issued, depth, treeDepth, stale>>
    <3>1. FitNode(Head(todo).node)
      BY <1>0, <2>3, FirstCall, CallParts DEF Pending
    <3>2. FitNodes(nodes')
      BY <1>0, <2>3, <3>1, TornFits
    <3> QED
      BY <1>0, <2>3, <3>2 DEF StorageOK
  <2>4. CASE /\ Pending("Remove")
             /\ \/ UNCHANGED <<nodes, issued, stale>>
                \/ /\ nodes' = Drop(Head(todo).id)
                   /\ stale' = Leave(Head(todo).id)
                   /\ issued' \in {issued, issued \ {Head(todo).id}}
             /\ UNCHANGED <<depth, treeDepth>>
    <3>1. Head(todo).id # rootId
      BY <1>0, <2>4, FirstCall, CallParts DEF Pending
    <3>2. FitNodes(nodes')
      BY <1>0, <2>4, <3>1, DropFits DEF StorageOK
    <3> QED
      BY <1>0, <2>4, <3>1, <3>2, LeaveType DEF StorageOK
  <2>5. CASE /\ Pending("SetDepth")
             /\ depth' = Head(todo).depth /\ treeDepth' = Head(todo).depth
             /\ UNCHANGED <<nodes, issued, stale>>
    <3>1. Head(todo).depth \in Int
      BY <1>0, <2>5, FirstCall, CallParts DEF Pending
    <3> QED
      BY <1>0, <2>5, <3>1 DEF StorageOK
  <2> QED
    BY <2>1, <2>2, <2>3, <2>4, <2>5 DEF Fail
<1> QED
  BY <1>1, <1>2, AbortStep

-----------------------------------------------------------------------------
(* The theorems.                                                           *)

LEMMA InsertSteps == ASSUME IInv, Insert PROVE IInv'
BY InsertReplaceStep, InsertLeafStep, InsertDescendStep, InsertPersistStep, InsertNewIdStep,
   InsertSplitStep, InsertSplitRootStep DEF Insert

LEMMA CallSteps == ASSUME IInv, GetCall \/ InsertCall \/ DeleteCall PROVE IInv'
<1>1. CASE GetCall
  BY <1>1, CallStep DEF GetCall
<1>2. CASE InsertCall
  BY <1>2, CallStep DEF InsertCall
<1>3. CASE DeleteCall
  BY <1>3, CallStep DEF DeleteCall
<1> QED
  BY <1>1, <1>2, <1>3

\* IInv is inductive: every step of Tree keeps it.
THEOREM TreeKeepsInvariant == Spec => []IInv
<1>1. IInv /\ [Next]_vars => IInv'
  <2> SUFFICES ASSUME IInv, [Next]_vars PROVE IInv'
    OBVIOUS
  <2>1. CASE UNCHANGED vars
    <3>1. StorageOK' /\ FitTodo(todo') /\ LocalsOK' /\ HistoryOK'
      BY <2>1, Parts DEF vars, StorageOK, FitTodo, LocalsOK, HistoryOK, PathOK, FitNode
    <3> QED
      BY <3>1, PartsNext
  <2> QED
    BY <2>1, CallSteps, GetSteps, InsertSteps, DeleteSteps, BalanceSteps, StorageCallStep,
       ErrorSteps, ReturnStep, FailStep DEF Next, Step
<1> QED
  BY <1>1, InitStep, PTL DEF Spec

\* Whatever the backend, the keys and the failures: every variable keeps its
\* type, no node has the root as a child, and the root stays stored.
THEOREM TreeTypes == Spec => []TypeOK
<1>1. IInv => TypeOK
  BY DEF IInv
<1> QED
  BY <1>1, TreeKeepsInvariant, PTL

\* For every a and b that NewTree accepts, no Persist of Insert or Delete ever
\* hands the storage a node of b or more values: a split comes in time, a merge
\* and a borrowed value have room, whatever sizes the neighbours have.
THEOREM NodesFit == Spec => []ValuesFit
<1>1. IInv => ValuesFit
  BY DEF IInv
<1> QED
  BY <1>1, TreeKeepsInvariant, PTL
=============================================================================
