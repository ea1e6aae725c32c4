------------------------- MODULE JxsEntropy_proofs --------------------------
(***************************************************************************)
(* Proofs that the entropy decoder follows the entropy encoder             *)
(* (JxsEntropy): of the bitplane counts of a line, of its magnitudes and   *)
(* signs, of a packet, and of all the packets of a precinct, for every     *)
(* layout, all coding options, every (Q, R), any coefficients and any      *)
(* predictor state the encoder can be in; and that the layout of every job *)
(* jxs_encode accepts is one of those (JxsGeometry).                       *)
(***************************************************************************)
EXTENDS JxsCodec_proofs

(* The members of a set of numbers in order: each is found at its place.   *)
IsOrder(upto, S, n) ==
    /\ upto \in [0 .. n -> Seq(Nat)] /\ upto[0] = <<>>
    /\ \A k \in 1 .. n : upto[k] = IF k - 1 \in S THEN Append(upto[k - 1], k - 1) ELSE upto[k - 1]
LEMMA OrderExists ==
    ASSUME NEW S, NEW n \in Nat
    PROVE  \E upto : IsOrder(upto, S, n) /\ InOrder(S, n) = upto[n]
<1> DEFINE V == Seq(Nat)
           step == [k \in 1 .. n |-> [v \in V |-> IF k - 1 \in S THEN Append(v, k - 1) ELSE v]]
           Order(f) == f = [k \in 0 .. n |-> IF k = 0 THEN <<>>
                                             ELSE IF k - 1 \in S THEN Append(f[k - 1], k - 1) ELSE f[k - 1]]
           upto == CHOOSE f : Order(f)
<1>1. \A k \in 1 .. n : step[k] \in [V -> V]
  OBVIOUS
<1>2. <<>> \in V
  OBVIOUS
<1>3. PICK f : IsRun(f, n, V, <<>>, step)
  <2> HIDE DEF V, step
  <2> QED BY <1>1, <1>2, Recursion
<1>4. f \in [0 .. n -> V] /\ f[0] = <<>>
  BY <1>3 DEF IsRun
<1>5. \A k \in 1 .. n : f[k] = IF k - 1 \in S THEN Append(f[k - 1], k - 1) ELSE f[k - 1]
  <2> SUFFICES ASSUME NEW k \in 1 .. n PROVE f[k] = IF k - 1 \in S THEN Append(f[k - 1], k - 1) ELSE f[k - 1]
    OBVIOUS
  <2>1. k - 1 \in 0 .. n
    OBVIOUS
  <2> HIDE DEF V
  <2>2. f[k - 1] \in V
    BY <1>4, <2>1
  <2>3. f[k] = step[k][f[k - 1]]
    BY <1>3, Zenon DEF IsRun
  <2> QED BY <2>2, <2>3
<1>6. Order(f)
  <2> DEFINE body == [k \in 0 .. n |-> IF k = 0 THEN <<>>
                                        ELSE IF k - 1 \in S THEN Append(f[k - 1], k - 1) ELSE f[k - 1]]
  <2>1. \A k \in 0 .. n : f[k] = body[k]
    <3> HIDE DEF V, step
    <3> SUFFICES ASSUME NEW k \in 0 .. n PROVE f[k] = body[k]
      OBVIOUS
    <3>1. CASE k = 0
      BY <3>1, <1>4
    <3>2. CASE k \in 1 .. n
      BY <3>2, <1>5
    <3> QED BY <3>1, <3>2
  <2>2. DOMAIN f = 0 .. n /\ f = [k \in DOMAIN f |-> f[k]] /\ DOMAIN body = 0 .. n /\ body = [k \in 0 .. n |-> body[k]]
    <3> HIDE DEF V
    <3> QED BY <1>4
  <2>3. f = body
    <3> HIDE DEF V, body
    <3> QED BY <2>1, <2>2
  <2> QED BY <2>3
<1>7. Order(upto)
  <2> HIDE DEF Order
  <2> QED BY <1>6
<1>8. InOrder(S, n) = upto[n]
  BY DEF InOrder
<1> HIDE DEF upto
<1>9. upto[0] = <<>> /\ \A k \in 1 .. n : upto[k] = IF k - 1 \in S THEN Append(upto[k - 1], k - 1) ELSE upto[k - 1]
  <2>1. upto = [k \in 0 .. n |-> IF k = 0 THEN <<>>
                                  ELSE IF k - 1 \in S THEN Append(upto[k - 1], k - 1) ELSE upto[k - 1]]
    BY <1>7
  <2> HIDE DEF Order
  <2>2. \A k \in 0 .. n : upto[k] = IF k = 0 THEN <<>>
                                    ELSE IF k - 1 \in S THEN Append(upto[k - 1], k - 1) ELSE upto[k - 1]
    BY <2>1, Zenon
  <2>3. 0 \in 0 .. n /\ \A k \in 1 .. n : k \in 0 .. n /\ k # 0
    OBVIOUS
  <2> QED BY <2>2, <2>3
<1>10. \A k \in 0 .. n : upto[k] \in V
  <2> DEFINE A == {k \in 0 .. n : upto[k] \in V}
  <2>1. 0 \in A
    <3> HIDE DEF V
    <3> QED BY <1>2, <1>9
  <2>2. \A k \in 0 .. n - 1 : k \in A => k + 1 \in A
    <3> SUFFICES ASSUME NEW k \in 0 .. n - 1, upto[k] \in V PROVE upto[k + 1] \in V
      OBVIOUS
    <3>1. k + 1 \in 1 .. n /\ (k + 1) - 1 = k /\ k \in Nat
      OBVIOUS
    <3>2. upto[k + 1] = IF k \in S THEN Append(upto[k], k) ELSE upto[k]
      BY <3>1, <1>9
    <3> QED BY <3>1, <3>2
  <2> HIDE DEF A, V
  <2>3. 0 .. n \subseteq A
    BY <2>1, <2>2, UpTo
  <2> QED BY <2>3 DEF A
<1>11. upto \in [0 .. n -> V]
  <2> HIDE DEF V
  <2> QED BY <1>7, <1>10
<1> QED BY <1>8, <1>9, <1>11 DEF IsOrder

Below(S, k) == S \cap 0 .. k - 1
LEMMA BelowGrows ==
    ASSUME NEW S, NEW k \in Nat
    PROVE  /\ IsFiniteSet(Below(S, k)) /\ Cardinality(Below(S, k)) \in Nat
           /\ Below(S, 0) = {} /\ Cardinality(Below(S, 0)) = 0
           /\ Cardinality(Below(S, k + 1)) = Cardinality(Below(S, k)) + (IF k \in S THEN 1 ELSE 0)
           /\ Place(k, S) = Cardinality(Below(S, k + 1))
<1>1. IsFiniteSet(0 .. k - 1)
  BY FS_Interval
<1>2. IsFiniteSet(Below(S, k))
  <2>1. Below(S, k) \subseteq 0 .. k - 1
    BY DEF Below
  <2> QED BY <1>1, <2>1, FS_Subset
<1>3. Cardinality(Below(S, k)) \in Nat
  BY <1>2, FS_CardinalityType
<1>4. Below(S, 0) = {} /\ Cardinality({}) = 0
  BY FS_EmptySet DEF Below
<1>0. (k + 1) - 1 = k /\ Place(k, S) = Cardinality(Below(S, k + 1))
  BY DEF Place, Below
<1>5. CASE k \in S
  <2>1. Below(S, k + 1) = Below(S, k) \cup {k} /\ k \notin Below(S, k)
    BY <1>5 DEF Below
  <2>2. Cardinality(Below(S, k) \cup {k}) = Cardinality(Below(S, k)) + 1
    BY <1>2, <2>1, FS_AddElement
  <2> QED BY <1>0, <1>2, <1>3, <1>4, <1>5, <2>1, <2>2
<1>6. CASE k \notin S
  <2>1. Below(S, k + 1) = Below(S, k)
    BY <1>6 DEF Below
  <2> QED BY <1>0, <1>2, <1>3, <1>4, <1>6, <2>1
<1> QED BY <1>5, <1>6

LEMMA OrderFacts ==
    ASSUME NEW S, NEW n \in Nat
    PROVE  /\ InOrder(S, n) \in Seq(Nat) /\ Len(InOrder(S, n)) = Cardinality(Below(S, n))
           /\ \A g \in Below(S, n) : Place(g, S) \in 1 .. Len(InOrder(S, n)) /\ InOrder(S, n)[Place(g, S)] = g
           /\ \A i \in 1 .. Len(InOrder(S, n)) : InOrder(S, n)[i] \in Below(S, n) /\ Place(InOrder(S, n)[i], S) = i
<1>1. PICK upto : IsOrder(upto, S, n) /\ InOrder(S, n) = upto[n]
  BY OrderExists
<1> DEFINE SoFar(s, k) ==
        /\ s \in Seq(Nat) /\ Len(s) = Cardinality(Below(S, k))
        /\ \A g \in Below(S, k) : Place(g, S) \in 1 .. Len(s) /\ s[Place(g, S)] = g
        /\ \A i \in 1 .. Len(s) : s[i] \in Below(S, k) /\ Place(s[i], S) = i
           A == {k \in 0 .. n : SoFar(upto[k], k)}
<1>2. 0 \in A
  <2>1. upto[0] = <<>> /\ Below(S, 0) = {} /\ Cardinality(Below(S, 0)) = 0
    BY <1>1, BelowGrows DEF IsOrder
  <2>2. SoFar(<<>>, 0)
    BY <2>1
  <2> HIDE DEF SoFar
  <2> QED BY <2>1, <2>2
<1>3. \A k \in 0 .. n - 1 : k \in A => k + 1 \in A
  <2> HIDE DEF SoFar
  <2> SUFFICES ASSUME NEW k \in 0 .. n - 1, SoFar(upto[k], k) PROVE SoFar(upto[k + 1], k + 1)
    OBVIOUS
  <2>1. k + 1 \in 1 .. n /\ (k + 1) - 1 = k /\ k \in Nat
    OBVIOUS
  <2>2. upto[k + 1] = IF k \in S THEN Append(upto[k], k) ELSE upto[k]
    BY <2>1, <1>1 DEF IsOrder
  <2> DEFINE s == upto[k]
  <2> HIDE DEF s
  <2>3. SoFar(s, k)
    BY DEF s
  <2>4. s \in Seq(Nat) /\ Len(s) = Cardinality(Below(S, k)) /\ Len(s) \in Nat
    BY <2>3 DEF SoFar
  <2>5. CASE k \in S
    <3> DEFINE more == Append(s, k)
    <3>1. more \in Seq(Nat) /\ Len(more) = Len(s) + 1 /\ more[Len(s) + 1] = k /\ \A i \in 1 .. Len(s) : more[i] = s[i]
      BY <2>1, <2>4
    <3>2. Cardinality(Below(S, k + 1)) = Len(s) + 1 /\ Place(k, S) = Len(s) + 1
      BY <2>1, <2>4, <2>5, BelowGrows
    <3>3. Below(S, k + 1) = Below(S, k) \cup {k}
      BY <2>5 DEF Below
    <3> HIDE DEF more
    <3>4. \A g \in Below(S, k + 1) : Place(g, S) \in 1 .. Len(more) /\ more[Place(g, S)] = g
      <4> SUFFICES ASSUME NEW g \in Below(S, k + 1) PROVE Place(g, S) \in 1 .. Len(more) /\ more[Place(g, S)] = g
        OBVIOUS
      <4>1. CASE g = k
        BY <4>1, <3>1, <3>2, <2>4
      <4>2. CASE g \in Below(S, k)
        <5>1. Place(g, S) \in 1 .. Len(s) /\ s[Place(g, S)] = g
          BY <2>3, <4>2 DEF SoFar
        <5> QED BY <5>1, <3>1, <2>4
      <4> QED BY <4>1, <4>2, <3>3
    <3>5. \A i \in 1 .. Len(more) : more[i] \in Below(S, k + 1) /\ Place(more[i], S) = i
      <4> SUFFICES ASSUME NEW i \in 1 .. Len(more) PROVE more[i] \in Below(S, k + 1) /\ Place(more[i], S) = i
        OBVIOUS
      <4>1. CASE i = Len(s) + 1
        BY <4>1, <3>1, <3>2, <3>3
      <4>2. CASE i \in 1 .. Len(s)
        <5>1. s[i] \in Below(S, k) /\ Place(s[i], S) = i
          BY <2>3, <4>2 DEF SoFar
        <5> QED BY <5>1, <4>2, <3>1, <3>3
      <4> QED BY <4>1, <4>2, <3>1, <2>4
    <3>6. SoFar(more, k + 1)
      BY <3>1, <3>2, <3>4, <3>5 DEF SoFar
    <3> QED BY <3>6, <2>2, <2>5 DEF s, more
  <2>6. CASE k \notin S
    <3>1. Below(S, k + 1) = Below(S, k)
      BY <2>6 DEF Below
    <3>2. SoFar(s, k + 1)
      BY <3>1, <2>3 DEF SoFar
    <3> QED BY <3>2, <2>2, <2>6 DEF s
  <2> QED BY <2>5, <2>6
<1> HIDE DEF A
<1>4. 0 .. n \subseteq A
  BY <1>2, <1>3, UpTo
<1>5. SoFar(upto[n], n)
  BY <1>4 DEF A
<1> QED BY <1>1, <1>5

(* One bit more than its value for every number of a set, in sum, is their *)
(* values and their number.                                                *)
LEMMA PlacedSum ==
    ASSUME NEW S, NEW n \in Nat, NEW cnt, Len(cnt) = Cardinality(Below(S, n)),
           \A k \in 1 .. Len(cnt) : cnt[k] \in Nat,
           NEW bits, Len(bits) = n,
           \A k \in 1 .. n : bits[k] = IF k - 1 \in S THEN cnt[Place(k - 1, S)] + 1 ELSE 0
    PROVE  Total(bits) = Total(cnt) + Len(cnt) /\ Total(cnt) \in Nat
<1> DEFINE m == Len(cnt)
           At(k) == Cardinality(Below(S, k))
<1>0. \A k \in 0 .. n : At(k) \in Nat /\ At(k) <= m
  <2> SUFFICES ASSUME NEW k \in 0 .. n PROVE At(k) \in Nat /\ At(k) <= m
    OBVIOUS
  <2>0. k \in Nat
    OBVIOUS
  <2>1. IsFiniteSet(Below(S, n)) /\ Cardinality(Below(S, k)) \in Nat
    BY <2>0, BelowGrows
  <2>3. Below(S, k) \subseteq Below(S, n)
    BY DEF Below
  <2>2. At(k) <= Cardinality(Below(S, n)) /\ At(k) \in Nat
    BY <2>1, <2>3, FS_Subset
  <2> QED BY <2>2
<1>00. m \in Nat
  BY BelowGrows
<1>1. PICK sum : IsSum(sum, m, cnt) /\ Total(cnt) = sum[m]
  BY <1>00, RunningSum
<1>2. /\ sum[0] = 0 /\ \A k \in 1 .. m : sum[k] = sum[k - 1] + cnt[k]
      /\ \A k \in 0 .. m : sum[k] \in Int
  BY <1>1 DEF IsSum
<1>3. \A k \in 0 .. n - 1 : /\ At(k + 1) = At(k) + (IF k \in S THEN 1 ELSE 0)
                            /\ Place(k, S) = At(k + 1)
  <2> SUFFICES ASSUME NEW k \in 0 .. n - 1
               PROVE  At(k + 1) = At(k) + (IF k \in S THEN 1 ELSE 0) /\ Place(k, S) = At(k + 1)
    OBVIOUS
  <2>1. k \in Nat
    OBVIOUS
  <2> QED BY <2>1, BelowGrows
<1>4. At(0) = 0
  BY BelowGrows
<1> HIDE DEF At, m
<1>5. \A k \in 1 .. n : bits[k] \in Int
  <2> SUFFICES ASSUME NEW k \in 1 .. n PROVE bits[k] \in Int
    OBVIOUS
  <2>1. k - 1 \in 0 .. n - 1 /\ (k - 1) + 1 = k /\ k \in 0 .. n
    OBVIOUS
  <2>2. CASE k - 1 \in S
    <3>1. At(k) = At(k - 1) + 1 /\ Place(k - 1, S) = At(k) /\ At(k - 1) \in Nat /\ At(k) <= m /\ At(k) \in Nat
      BY <1>0, <1>3, <2>1, <2>2
    <3>2. At(k) \in 1 .. m
      BY <3>1, <1>00
    <3> QED BY <2>2, <3>1, <3>2 DEF m
  <2>3. CASE k - 1 \notin S
    BY <2>3
  <2> QED BY <2>2, <2>3
<1>6. PICK all : IsSum(all, n, bits) /\ Total(bits) = all[n]
  BY <1>5, RunningSum
<1> DEFINE A == {k \in 0 .. n : all[k] = sum[At(k)] + At(k)}
<1>7. 0 \in A
  BY <1>2, <1>4, <1>6 DEF IsSum
<1>8. \A k \in 0 .. n - 1 : k \in A => k + 1 \in A
  <2> SUFFICES ASSUME NEW k \in 0 .. n - 1, all[k] = sum[At(k)] + At(k)
               PROVE  all[k + 1] = sum[At(k + 1)] + At(k + 1)
    OBVIOUS
  <2>1. k + 1 \in 1 .. n /\ (k + 1) - 1 = k /\ k \in 0 .. n /\ k + 1 \in 0 .. n
    OBVIOUS
  <2>2. all[k + 1] = all[k] + bits[k + 1]
    BY <2>1, <1>6 DEF IsSum
  <2>3. CASE k \in S
    <3>1. At(k + 1) = At(k) + 1 /\ Place(k, S) = At(k + 1) /\ At(k) \in Nat /\ At(k + 1) <= m
      BY <1>0, <1>3, <2>1, <2>3
    <3>2. At(k + 1) \in 1 .. m /\ At(k + 1) - 1 = At(k) /\ At(k) \in 0 .. m
      BY <3>1, <1>00
    <3>3. bits[k + 1] = cnt[At(k + 1)] + 1
      BY <2>1, <2>3, <3>1
    <3>4. cnt[At(k + 1)] \in Nat /\ sum[At(k)] \in Int
      BY <3>2, <1>2 DEF m
    <3>5. sum[At(k + 1)] = sum[At(k)] + cnt[At(k + 1)]
      BY <3>2, <1>2
    <3> DEFINE u == sum[At(k)]
               v == cnt[At(k + 1)]
    <3>6. all[k + 1] = (u + At(k)) + (v + 1) /\ sum[At(k + 1)] = u + v
      BY <2>2, <3>3, <3>5
    <3>7. u \in Int /\ v \in Nat /\ At(k) \in Nat
      BY <3>1, <3>4
    <3> HIDE DEF u, v
    <3>8. (u + At(k)) + (v + 1) = (u + v) + (At(k) + 1)
      BY <3>7
    <3> QED BY <3>1, <3>6, <3>8
  <2>4. CASE k \notin S
    <3>1. At(k + 1) = At(k) /\ bits[k + 1] = 0 /\ At(k) \in 0 .. m
      BY <1>0, <1>3, <1>00, <2>1, <2>4
    <3>2. sum[At(k)] \in Int
      BY <3>1, <1>2
    <3> QED BY <2>2, <3>1, <3>2
  <2> QED BY <2>3, <2>4
<1> HIDE DEF A
<1>9. 0 .. n \subseteq A
  BY <1>7, <1>8, UpTo
<1>10. all[n] = sum[At(n)] + At(n)
  BY <1>9 DEF A
<1>11. At(n) = m
  BY DEF At, m
<1>12. Total(cnt) \in Nat
  BY <1>00, TotalNat DEF m
<1> QED BY <1>1, <1>6, <1>10, <1>11, <1>12 DEF m

Codable(g) == g.ng = 4 /\ g.ss = 8 /\ g.br \in {4, 5} /\ g.qpih \in {0, 1} /\ g.fs \in {0, 1} /\ g.rm \in {0, 1}
LineCounts(g, i, b) == [Groups(g, i, b) -> 0 .. MaxCount(g)]
CodingBits == [vertical : BOOLEAN, significance : BOOLEAN]

(* The counts of a line as ReadEntry finds them.                           *)
EntryRead(g, coded, raw, m, read) ==
    /\ read.m = m /\ read.fits /\ read.sigBits = Len(coded.sig)
    /\ read.cntBits = IF raw THEN g.br * Len(coded.cnt) ELSE Total(coded.cnt) + Len(coded.cnt)
    /\ read.cntBits \in Nat

LEMMA CountBounds ==
    ASSUME NEW g, Codable(g)
    PROVE  MaxCount(g) \in 0 .. 31 /\ VlcLimit(g) = 2 * MaxCount(g) + 2
<1>1. CASE g.br = 4
  <2>1. 2 ^ g.br = 16 /\ 2 ^ (g.br + 1) = 32
    BY <1>1
  <2> QED BY <2>1 DEF MaxCount, VlcLimit
<1>2. CASE g.br = 5
  <2>1. 2 ^ g.br = 32 /\ 2 ^ (g.br + 1) = 64
    BY <1>2
  <2> QED BY <2>1 DEF MaxCount, VlcLimit
<1> QED BY <1>1, <1>2 DEF Codable

(* A codeword stays below the limit at which the reader gives up.          *)
LEMMA CodeBelowLimit ==
    ASSUME NEW limit \in Nat, NEW top \in 0 .. limit, NEW t \in 0 .. limit, NEW m \in 0 .. limit, m - top >= -Theta(top, t)
    PROVE  VlcEncode(m - top, top, t) < 2 * limit + 2
<1>1. Theta(top, t) \in Nat /\ Theta(top, t) = IF top - t > 0 THEN top - t ELSE 0
  BY DEF Theta, Larger
<1> DEFINE theta == Theta(top, t)
           x == m - top
<1>2. x \in Int /\ VlcEncode(x, top, t) = IF x > theta THEN x + theta ELSE IF x < 0 THEN -2 * x - 1 ELSE 2 * x
  BY DEF VlcEncode
<1>3. theta <= limit /\ theta \in Nat /\ x >= -theta
  BY <1>1
<1>4. CASE x > theta
  BY <1>1, <1>2, <1>4
<1>5. CASE ~(x > theta)
  <2> DEFINE code == VlcEncode(m - top, top, t)
  <2>1. code = IF x < 0 THEN -2 * x - 1 ELSE 2 * x
    BY <1>2, <1>5
  <2> HIDE DEF x, theta, code
  <2>2. x <= theta
    BY <1>2, <1>3, <1>5
  <2>3. CASE x < 0
    BY <1>2, <1>3, <2>1, <2>2, <2>3 DEF code
  <2>4. CASE ~(x < 0)
    BY <1>2, <1>3, <2>1, <2>2, <2>4 DEF code
  <2> QED BY <2>3, <2>4
<1> QED BY <1>4, <1>5

(* Raw counts are read as they were written.                               *)
LEMMA RawRead ==
    ASSUME NEW g, Codable(g), NEW i, NEW b, CodeGroups(g, i, b) \in Nat,
           NEW m \in LineCounts(g, i, b), NEW top \in LineCounts(g, i, b), NEW t, NEW d,
           NEW coded, coded = [sig |-> <<>>, cnt |-> [k \in 1 .. CodeGroups(g, i, b) |-> m[k - 1]], fits |-> TRUE]
    PROVE  EntryRead(g, coded, TRUE, m, ReadEntry(g, i, b, coded, TRUE, d, <<>>, top, t))
<1> DEFINE n == CodeGroups(g, i, b)
           Skipped(x) == Skips(g, <<>>, x)
           present == Once({k \in DOMAIN top : ~Skipped(k)})
           Code(x) == Field(coded.cnt, Place(x, present), 0)
           Residual(x) == IF ~Skipped(x) THEN VlcDecode(Code(x), top[x], t)
                          ELSE SkippedResidual(g, d, top[x], t)
           found == Once([x \in DOMAIN top |-> IF TRUE THEN Field(coded.cnt, x + 1, 0) ELSE top[x] + Residual(x)])
           Bits(x) == IF TRUE THEN g.br ELSE IF Skipped(x) THEN 0 ELSE Code(x) + 1
           read == ReadEntry(g, i, b, coded, TRUE, d, <<>>, top, t)
<1>1. read = [m |-> found, sigBits |-> Len(<<>>),
              cntBits |-> Total([k \in 1 .. n |-> Bits(k - 1)]),
              fits |-> /\ \A x \in DOMAIN top : found[x] \in 0 .. MaxCount(g)
                       /\ ~TRUE => \A x \in DOMAIN top : Skipped(x) \/ Code(x) < VlcLimit(g)]
  BY DEF ReadEntry
<1>2. DOMAIN top = Groups(g, i, b) /\ DOMAIN m = Groups(g, i, b) /\ Groups(g, i, b) = 0 .. n - 1
  BY DEF LineCounts, Groups
<1>3. found = m
  <2> DEFINE plain == [x \in DOMAIN top |-> Field(coded.cnt, x + 1, 0)]
  <2>1. found = plain
    BY OnceIs
  <2>2. ASSUME NEW x \in Groups(g, i, b) PROVE plain[x] = m[x]
    <3>1. x + 1 \in 1 .. n /\ (x + 1) - 1 = x
      BY <1>2
    <3> QED BY <3>1, <1>2 DEF Field
  <2>3. plain \in [Groups(g, i, b) -> 0 .. MaxCount(g)]
    <3>1. \A x \in Groups(g, i, b) : plain[x] \in 0 .. MaxCount(g)
      <4> HIDE DEF plain
      <4> QED BY <2>2 DEF LineCounts
    <3> QED BY <3>1, <1>2
  <2> HIDE DEF plain, found
  <2> QED BY <2>1, <2>2, <2>3 DEF LineCounts
<1>4. Total([k \in 1 .. n |-> Bits(k - 1)]) = g.br * Len(coded.cnt)
  <2>1. n \in Nat /\ g.br \in Nat
    BY DEF Codable
  <2>2. Total([k \in 1 .. n |-> g.br]) = n * g.br
    BY <2>1, TotalOfSame
  <2>3. Len(coded.cnt) = n
    BY <2>1
  <2>4. [k \in 1 .. n |-> Bits(k - 1)] = [k \in 1 .. n |-> g.br]
    OBVIOUS
  <2> HIDE DEF n
  <2> QED BY <2>1, <2>2, <2>3, <2>4
<1>5. \A x \in DOMAIN top : m[x] \in 0 .. MaxCount(g)
  BY <1>2 DEF LineCounts
<1>6. g.br * Len(coded.cnt) \in Nat /\ Len(<<>>) = 0 /\ coded.sig = <<>>
  <2>1. g.br \in Nat /\ Len(coded.cnt) = n /\ n \in Nat
    BY DEF Codable
  <2> QED BY <2>1
<1>7. /\ read.m = found /\ read.sigBits = Len(<<>>) /\ read.cntBits = Total([k \in 1 .. n |-> Bits(k - 1)])
      /\ read.fits = (/\ \A x \in DOMAIN top : found[x] \in 0 .. MaxCount(g)
                      /\ ~TRUE => \A x \in DOMAIN top : Skipped(x) \/ Code(x) < VlcLimit(g))
  <2> HIDE DEF found, Bits, Skipped, Code, read
  <2> QED BY <1>1
<1> HIDE DEF found, Bits, Skipped, Code, read
<1>8. read.fits
  BY <1>3, <1>5, <1>7
<1>9. EntryRead(g, coded, TRUE, m, read)
  BY <1>3, <1>4, <1>6, <1>7, <1>8 DEF EntryRead
<1> QED BY <1>9 DEF read

(* The significance flags of a line tell the truth, one for every s groups.*)
FlagsOf(g, i, b, m, top, flags, t) ==
    flags = <<>> \/ \A x \in Groups(g, i, b) : /\ flags[1 + x \div g.ss] \in BOOLEAN
                                               /\ flags[1 + x \div g.ss] => Insignificant(g, m, top, t, x)
LEMMA PredictedRead ==
    ASSUME NEW g, Codable(g), NEW i, NEW b, CodeGroups(g, i, b) \in Nat,
           NEW m \in LineCounts(g, i, b), NEW top \in LineCounts(g, i, b), NEW t \in 0 .. MaxCount(g),
           NEW d \in CodingBits, ~d.vertical => \A x \in Groups(g, i, b) : top[x] = t,
           NEW flags, FlagsOf(g, i, b, m, top, flags, t),
           NEW coded, coded = PredictedEntry(g, i, b, m, top, flags, t), coded.fits
    PROVE  EntryRead(g, coded, FALSE, m, ReadEntry(g, i, b, coded, FALSE, d, flags, top, t))
<1> DEFINE n == CodeGroups(g, i, b)
           Skipped(x) == Skips(g, flags, x)
           S == {x \in Groups(g, i, b) : ~Skips(g, flags, x)}
           order == InOrder(S, n)
           Codeword(x) == VlcEncode(m[x] - top[x], top[x], t)
           present == Once({k \in DOMAIN top : ~Skipped(k)})
           Code(x) == Field(coded.cnt, Place(x, present), 0)
           Residual(x) == IF ~Skipped(x) THEN VlcDecode(Code(x), top[x], t)
                          ELSE SkippedResidual(g, d, top[x], t)
           found == Once([x \in DOMAIN top |-> IF FALSE THEN Field(coded.cnt, x + 1, 0) ELSE top[x] + Residual(x)])
           Bits(x) == IF FALSE THEN g.br ELSE IF Skipped(x) THEN 0 ELSE Code(x) + 1
           read == ReadEntry(g, i, b, coded, FALSE, d, flags, top, t)
<1>1. read = [m |-> found, sigBits |-> Len(flags),
              cntBits |-> Total([k \in 1 .. n |-> Bits(k - 1)]),
              fits |-> /\ \A x \in DOMAIN top : found[x] \in 0 .. MaxCount(g)
                       /\ ~FALSE => \A x \in DOMAIN top : Skipped(x) \/ Code(x) < VlcLimit(g)]
  BY DEF ReadEntry
<1>2. DOMAIN top = Groups(g, i, b) /\ DOMAIN m = Groups(g, i, b) /\ Groups(g, i, b) = 0 .. n - 1
  BY DEF LineCounts, Groups
<1>3. \A x \in Groups(g, i, b) : /\ m[x] \in 0 .. MaxCount(g) /\ top[x] \in 0 .. MaxCount(g)
                                 /\ m[x] - top[x] >= -Theta(top[x], t)
  <2>1. coded.fits <=> \A x \in DOMAIN m : m[x] - top[x] >= -Theta(top[x], t)
    BY DEF PredictedEntry
  <2> QED BY <2>1, <1>2 DEF LineCounts
<1>4. MaxCount(g) \in Nat /\ VlcLimit(g) = 2 * MaxCount(g) + 2
  BY CountBounds
<1>5. \A x \in Groups(g, i, b) : /\ Codeword(x) \in Nat /\ Codeword(x) < VlcLimit(g)
                                 /\ VlcDecode(Codeword(x), top[x], t) = m[x] - top[x]
  <2> SUFFICES ASSUME NEW x \in Groups(g, i, b)
               PROVE  /\ Codeword(x) \in Nat /\ Codeword(x) < VlcLimit(g)
                      /\ VlcDecode(Codeword(x), top[x], t) = m[x] - top[x]
    OBVIOUS
  <2>1. /\ m[x] \in 0 .. MaxCount(g) /\ top[x] \in 0 .. MaxCount(g) /\ t \in 0 .. MaxCount(g)
        /\ m[x] - top[x] >= -Theta(top[x], t)
    BY <1>3
  <2>2. Codeword(x) < 2 * MaxCount(g) + 2
    BY <1>4, <2>1, CodeBelowLimit
  <2>3. top[x] \in Int /\ t \in Int /\ m[x] - top[x] \in Int
    BY <1>4, <2>1
  <2>4. Codeword(x) \in Nat /\ VlcDecode(Codeword(x), top[x], t) = m[x] - top[x]
    BY <2>1, <2>3, VlcRoundTrip
  <2> QED BY <2>2, <2>4, <1>4
<1>6. coded.sig = flags /\ coded.cnt = [k \in 1 .. Len(order) |-> Codeword(order[k])]
  <2>1. Coded(g, i, b, flags) = order
    BY OnceIs DEF Coded
  <2> HIDE DEF order
  <2> QED BY <2>1 DEF PredictedEntry
<1>7. present = S
  BY <1>2, OnceIs
<1> HIDE DEF present
<1>8. Below(S, n) = S
  BY <1>2 DEF Below
<1>9. /\ order \in Seq(Nat) /\ Len(order) = Cardinality(S)
      /\ \A x \in S : Place(x, S) \in 1 .. Len(order) /\ order[Place(x, S)] = x
      /\ \A k \in 1 .. Len(order) : order[k] \in S
  <2> HIDE DEF S
  <2>1. n \in Nat
    OBVIOUS
  <2> HIDE DEF n
  <2> QED BY <1>8, <2>1, OrderFacts
<1> HIDE DEF order, Codeword
<1>10. Len(coded.cnt) = Len(order) /\ \A k \in 1 .. Len(coded.cnt) : coded.cnt[k] \in Nat
  <2>1. \A k \in 1 .. Len(order) : Codeword(order[k]) \in Nat
    BY <1>5, <1>9
  <2>2. Len(order) \in Nat
    BY <1>9
  <2> QED BY <1>6, <2>1, <2>2
<1>11. \A x \in S : Code(x) = Codeword(x) /\ Code(x) = coded.cnt[Place(x, S)]
  <2> SUFFICES ASSUME NEW x \in S PROVE Code(x) = Codeword(x) /\ Code(x) = coded.cnt[Place(x, S)]
    OBVIOUS
  <2>1. Place(x, S) \in 1 .. Len(order) /\ order[Place(x, S)] = x
    BY <1>9
  <2> HIDE DEF S
  <2>2. Place(x, S) \in DOMAIN coded.cnt /\ coded.cnt[Place(x, S)] = Codeword(x)
    BY <2>1, <1>6
  <2> QED BY <2>2, <1>7 DEF Field
<1>12. \A x \in Groups(g, i, b) : Skipped(x) <=> x \notin S
  OBVIOUS
<1> HIDE DEF Code, Skipped
<1>13. \A x \in Groups(g, i, b) : top[x] + Residual(x) = m[x]
  <2> SUFFICES ASSUME NEW x \in Groups(g, i, b) PROVE top[x] + Residual(x) = m[x]
    OBVIOUS
  <2>1. m[x] \in Int /\ top[x] \in Int /\ t \in Int
    BY <1>3, <1>4
  <2>2. CASE ~Skipped(x)
    <3>1. Residual(x) = m[x] - top[x]
      BY <2>2, <1>5, <1>11, <1>12
    <3> QED BY <2>1, <3>1
  <2>3. CASE Skipped(x)
    <3>1. Insignificant(g, m, top, t, x)
      BY <2>3 DEF FlagsOf, Skipped, Skips
    <3>2. Residual(x) = IF d.vertical /\ g.rm = 1 THEN t - top[x] ELSE 0
      BY <2>3 DEF SkippedResidual
    <3>3. IF g.rm = 0 THEN m[x] = top[x] ELSE m[x] = t
      BY <3>1 DEF Insignificant
    <3>4. g.rm \in {0, 1}
      BY DEF Codable
    <3>5. CASE d.vertical /\ g.rm = 1
      BY <3>2, <3>3, <3>5, <2>1
    <3>6. CASE ~(d.vertical /\ g.rm = 1)
      <4>1. m[x] = top[x]
        BY <3>3, <3>4, <3>6
      <4> QED BY <4>1, <3>2, <3>6, <2>1
    <3> QED BY <3>5, <3>6
  <2> QED BY <2>2, <2>3
<1> HIDE DEF Residual
<1>14. found = m
  <2> DEFINE plain == [x \in DOMAIN top |-> top[x] + Residual(x)]
  <2>1. found = plain
    BY OnceIs
  <2>2. \A x \in Groups(g, i, b) : plain[x] = m[x]
    BY <1>2, <1>13
  <2>3. plain \in [Groups(g, i, b) -> 0 .. MaxCount(g)]
    <3>1. \A x \in Groups(g, i, b) : plain[x] \in 0 .. MaxCount(g)
      <4> HIDE DEF plain
      <4> QED BY <2>2 DEF LineCounts
    <3> QED BY <3>1, <1>2
  <2> HIDE DEF plain, found
  <2> QED BY <2>1, <2>2, <2>3 DEF LineCounts
<1> DEFINE bits == [k \in 1 .. n |-> Bits(k - 1)]
<1>15. Total(bits) = Total(coded.cnt) + Len(coded.cnt) /\ Total(coded.cnt) \in Nat
  <2>1. \A k \in 1 .. n : bits[k] = IF k - 1 \in S THEN coded.cnt[Place(k - 1, S)] + 1 ELSE 0
    <3> SUFFICES ASSUME NEW k \in 1 .. n PROVE bits[k] = IF k - 1 \in S THEN coded.cnt[Place(k - 1, S)] + 1 ELSE 0
      OBVIOUS
    <3>1. k - 1 \in Groups(g, i, b)
      BY <1>2
    <3> QED BY <3>1, <1>11, <1>12
  <2>2. Len(bits) = n
    OBVIOUS
  <2>3. n \in Nat
    OBVIOUS
  <2>4. Len(coded.cnt) = Cardinality(Below(S, n))
    BY <1>8, <1>9, <1>10
  <2> DEFINE cnt == coded.cnt
  <2>5. /\ Len(cnt) = Cardinality(Below(S, n)) /\ \A k \in 1 .. Len(cnt) : cnt[k] \in Nat
        /\ \A k \in 1 .. n : bits[k] = IF k - 1 \in S THEN cnt[Place(k - 1, S)] + 1 ELSE 0
    BY <2>1, <2>4, <1>10
  <2> HIDE DEF bits, S, n, cnt
  <2>6. Total(bits) = Total(cnt) + Len(cnt) /\ Total(cnt) \in Nat
    BY <2>2, <2>3, <2>5, PlacedSum
  <2> QED BY <2>6 DEF cnt
<1>16. /\ read.m = found /\ read.sigBits = Len(flags) /\ read.cntBits = Total(bits)
       /\ read.fits = (/\ \A x \in DOMAIN top : found[x] \in 0 .. MaxCount(g)
                       /\ ~FALSE => \A x \in DOMAIN top : Skipped(x) \/ Code(x) < VlcLimit(g))
  <2> HIDE DEF found, Bits, read
  <2> QED BY <1>1
<1> HIDE DEF found, bits, read, S
<1>17. \A x \in DOMAIN top : Skipped(x) \/ Code(x) < VlcLimit(g)
  BY <1>2, <1>5, <1>11, <1>12
<1>18. read.fits
  BY <1>2, <1>3, <1>14, <1>16, <1>17
<1>19. EntryRead(g, coded, FALSE, m, read)
  <2>1. Len(coded.cnt) \in Nat
    BY <1>9, <1>10
  <2>2. Total(coded.cnt) + Len(coded.cnt) \in Nat
    BY <2>1, <1>15
  <2> QED BY <2>2, <1>6, <1>14, <1>15, <1>16, <1>18 DEF EntryRead
<1> QED BY <1>19 DEF read

(* What the prediction of line li of band b rests on: counts of this       *)
(* precinct, or of the one above.                                          *)
PredictorFits(g, i, b, li, counts, t, state) ==
    LET pred == Predictor(b, li, counts, t, state)
    IN  pred.top \in LineCounts(g, i, b) /\ pred.t \in 0 .. MaxCount(g)

LEMMA FlagsCover ==
    ASSUME NEW g, Codable(g), NEW i, NEW b, g.widths[i][b] \in Nat
    PROVE  /\ CodeGroups(g, i, b) \in Nat /\ SignificanceGroups(g, i, b) \in Nat
           /\ \A x \in Groups(g, i, b) : 1 + x \div g.ss \in 1 .. SignificanceGroups(g, i, b)
<1>1. PICK w \in Nat : w = g.widths[i][b]
  OBVIOUS
<1>2. g.ng = 4 /\ g.ss = 8 /\ g.ng * g.ss = 32
  BY DEF Codable
<1>3. CodeGroups(g, i, b) = (w + 4 - 1) \div 4 /\ SignificanceGroups(g, i, b) = (w + 32 - 1) \div 32
  BY <1>1, <1>2 DEF CodeGroups, SignificanceGroups, CeilDiv
<1>4. (w + 4 - 1) \div 4 \in Nat /\ (w + 32 - 1) \div 32 \in Nat
  OBVIOUS
<1>5. ASSUME NEW x \in 0 .. ((w + 4 - 1) \div 4) - 1 PROVE 1 + x \div 8 \in 1 .. (w + 32 - 1) \div 32
  OBVIOUS
<1> QED BY <1>2, <1>3, <1>4, <1>5 DEF Groups

LEMMA PredictedFits ==
    ASSUME NEW g, Codable(g), NEW i, NEW b, NEW li, NEW counts, NEW other, NEW t, NEW state, NEW vertical \in BOOLEAN,
           t[b] \in 0 .. MaxCount(g),
           vertical => /\ PredictorFits(g, i, b, li, counts, t, state)
                       /\ Predictor(b, li, other, t, state) = Predictor(b, li, counts, t, state)
    PROVE  LET top == Predicted(vertical, b, li, counts, t, state, Groups(g, i, b))
           IN  /\ top \in LineCounts(g, i, b) /\ (~vertical => \A x \in Groups(g, i, b) : top[x] = t[b])
               /\ Predicted(vertical, b, li, other, t, state, Groups(g, i, b)) = top
<1>1. MaxCount(g) \in 0 .. 31
  BY CountBounds
<1>2. CASE vertical
  <2> DEFINE pred == Predictor(b, li, counts, t, state)
             top == [x \in Groups(g, i, b) |-> Larger(pred.top[x], Larger(t[b], pred.t))]
  <2>1. pred.top \in LineCounts(g, i, b) /\ pred.t \in 0 .. MaxCount(g)
    BY <1>2 DEF PredictorFits
  <2>2. \A other_ \in {other, counts} : Predicted(vertical, b, li, other_, t, state, Groups(g, i, b)) = top
    BY <1>2 DEF Predicted
  <2> HIDE DEF pred
  <2>3. top \in LineCounts(g, i, b)
    <3>1. ASSUME NEW x \in Groups(g, i, b) PROVE Larger(pred.top[x], Larger(t[b], pred.t)) \in 0 .. MaxCount(g)
      <4>1. pred.top[x] \in 0 .. MaxCount(g)
        BY <2>1 DEF LineCounts
      <4> QED BY <4>1, <2>1 DEF Larger
    <3> QED BY <3>1 DEF LineCounts
  <2> QED BY <1>2, <2>2, <2>3
<1>3. CASE ~vertical
  BY <1>3 DEF Predicted, LineCounts
<1> QED BY <1>2, <1>3

(* The counts of a line, read with the predictions the encoder had, are    *)
(* those it wrote, and the reader neither runs over nor falls short,       *)
(* whatever the predictor, significance groups and raw mode (entropy.cc:   *)
(* EncodeCounts and the first part of PrecinctDecoder::Decode).            *)
THEOREM CountsRoundTrip ==
    ASSUME NEW g, NEW i, NEW e, NEW raw \in BOOLEAN, NEW d \in CodingBits, NEW counts, NEW other, NEW t, NEW state,
           NEW li, NEW m, NEW coded, Codable(g), g.widths[i][e.band] \in Nat, li = LineOf(g, e),
           m \in LineCounts(g, i, e.band), m = counts[e.band][li], t[e.band] \in 0 .. MaxCount(g),
           d.vertical => /\ PredictorFits(g, i, e.band, li, counts, t, state)
                         /\ Predictor(e.band, li, other, t, state) = Predictor(e.band, li, counts, t, state),
           coded = EncodeEntry(g, i, e, raw, d, counts, t, state), coded.fits
    PROVE  EntryRead(g, coded, raw, m, DecodeEntry(g, i, e, coded, raw, d, other, t, state))
<1> DEFINE b == e.band
           top == Predicted(d.vertical, b, li, counts, t, state, Groups(g, i, b))
           flags == IF d.significance THEN SignificanceFlags(g, i, b, m, top, t[b]) ELSE <<>>
           read == DecodeEntry(g, i, e, coded, raw, d, other, t, state)
           readFlags == IF raw \/ ~d.significance THEN <<>>
                        ELSE [j \in 1 .. SignificanceGroups(g, i, b) |-> Field(coded.sig, j, FALSE)]
<1>1. DOMAIN m = Groups(g, i, b) /\ d.vertical \in BOOLEAN /\ d.significance \in BOOLEAN
  BY DEF LineCounts, CodingBits
<1>2. /\ top \in LineCounts(g, i, b) /\ (~d.vertical => \A x \in Groups(g, i, b) : top[x] = t[b])
      /\ Predicted(d.vertical, b, li, other, t, state, Groups(g, i, b)) = top
  BY <1>1, PredictedFits
<1>3. CodeGroups(g, i, b) \in Nat /\ SignificanceGroups(g, i, b) \in Nat
  BY FlagsCover
<1>4. coded = IF raw THEN [sig |-> <<>>, cnt |-> [k \in 1 .. CodeGroups(g, i, b) |-> m[k - 1]], fits |-> TRUE]
              ELSE PredictedEntry(g, i, b, m, top, flags, t[b])
  BY <1>1, OnceIs DEF EncodeEntry
<1>5. read = ReadEntry(g, i, b, coded, raw, d, readFlags, top, t[b])
  BY <1>2, OnceIs DEF DecodeEntry
<1> HIDE DEF top, read
<1>6. CASE raw
  <2>1. readFlags = <<>> /\ raw = TRUE
    BY <1>6
  <2>2. EntryRead(g, coded, TRUE, m, ReadEntry(g, i, b, coded, TRUE, d, <<>>, top, t[b]))
    BY <1>2, <1>3, <1>4, <1>6, RawRead
  <2> QED BY <2>1, <2>2, <1>5 DEF read
<1>7. CASE ~raw
  <2>1. coded = PredictedEntry(g, i, b, m, top, flags, t[b])
    BY <1>4, <1>7
  <2>2. coded.sig = flags
    BY <2>1 DEF PredictedEntry
  <2>3. readFlags = flags
    <3>1. CASE d.significance
      <4> DEFINE N == SignificanceGroups(g, i, b)
                 F == SignificanceFlags(g, i, b, m, top, t[b])
      <4>1. DOMAIN F = 1 .. N /\ F = [j \in 1 .. N |-> F[j]]
        BY DEF SignificanceFlags
      <4>2. coded.sig = F /\ readFlags = [j \in 1 .. N |-> Field(coded.sig, j, FALSE)]
        BY <3>1, <1>7, <2>2
      <4> HIDE DEF F, N, readFlags
      <4>3. \A j \in 1 .. N : Field(F, j, FALSE) = F[j]
        BY <4>1 DEF Field
      <4>4. readFlags = F
        BY <4>1, <4>2, <4>3
      <4> QED BY <4>4, <3>1 DEF F
    <3>2. CASE ~d.significance
      BY <3>2
    <3> QED BY <3>1, <3>2
  <2>4. FlagsOf(g, i, b, m, top, flags, t[b])
    <3>1. CASE d.significance
      <4> SUFFICES ASSUME NEW x \in Groups(g, i, b)
                   PROVE  /\ flags[1 + x \div g.ss] \in BOOLEAN
                          /\ flags[1 + x \div g.ss] => Insignificant(g, m, top, t[b], x)
        BY DEF FlagsOf
      <4> DEFINE j == 1 + x \div g.ss
      <4>1. j \in 1 .. SignificanceGroups(g, i, b)
        BY FlagsCover
      <4>2. flags[j] = \A y \in DOMAIN m : y \div g.ss = j - 1 => Insignificant(g, m, top, t[b], y)
        BY <3>1, <4>1 DEF SignificanceFlags
      <4>3. x \div g.ss = j - 1
        <5>1. x \div 8 \in Int /\ g.ss = 8
          BY <1>3 DEF Groups, Codable
        <5> QED BY <5>1
      <4> HIDE DEF j, flags
      <4>4. flags[j] \in BOOLEAN /\ (flags[j] => Insignificant(g, m, top, t[b], x))
        BY <1>1, <4>2, <4>3
      <4> QED BY <4>4 DEF j
    <3>2. CASE ~d.significance
      BY <3>2 DEF FlagsOf
    <3> QED BY <3>1, <3>2
  <2> HIDE DEF flags, readFlags
  <2>5. EntryRead(g, coded, FALSE, m, ReadEntry(g, i, b, coded, FALSE, d, flags, top, t[b]))
    BY <1>2, <1>3, <2>1, <2>4, PredictedRead
  <2>6. raw = FALSE
    BY <1>7
  <2> QED BY <2>3, <2>5, <2>6, <1>5 DEF read
<1> QED BY <1>6, <1>7

(* A quantised line: every group keeps its magnitudes in the bitplanes     *)
(* above the truncation, and has signs only where they are not zero.       *)
GroupFits(g, group, t) ==
    /\ group.m \in t .. MaxCount(g)
    /\ group.v \in [0 .. 3 -> 0 .. 2 ^ (group.m - t) - 1]
    /\ group.s \in [0 .. 3 -> BOOLEAN] /\ \A j \in 0 .. 3 : group.s[j] => group.v[j] # 0
LineFits(g, i, b, line, t) ==
    DOMAIN line = Groups(g, i, b) /\ \A x \in Groups(g, i, b) : GroupFits(g, line[x], t)

LEMMA FewestBitplanes ==
    ASSUME NEW values, \A k \in DOMAIN values : Magnitude(values[k]) \in Nat /\ Magnitude(values[k]) < 2 ^ 31
    PROVE  /\ BitplaneCount(values) \in 0 .. 31
           /\ \A k \in DOMAIN values : Magnitude(values[k]) < 2 ^ BitplaneCount(values)
<1> DEFINE Covers(m) == \A k \in DOMAIN values : Magnitude(values[k]) < 2 ^ m
           T == {m \in 0 .. 31 : Covers(m)}
           R == OpToRel(<, Nat)
<1>1. IsWellFoundedOn(R, Nat)
  BY NatLessThanWellFounded, Zenon
<1>2. T \subseteq Nat /\ 31 \in T
  OBVIOUS
<1> HIDE DEF T, R
<1>3. PICK x \in T : \A y \in T : ~(<<y, x>> \in R)
  BY <1>1, <1>2, WFMin
<1>4. x \in 0 .. 31 /\ Covers(x)
  BY DEF T
<1>5. x > 0 => \E k \in DOMAIN values : Magnitude(values[k]) >= 2 ^ (x - 1)
  <2> SUFFICES ASSUME x > 0 PROVE \E k \in DOMAIN values : Magnitude(values[k]) >= 2 ^ (x - 1)
    OBVIOUS
  <2>1. x - 1 \in 0 .. 31 /\ <<x - 1, x>> \in Nat \X Nat /\ x - 1 < x
    BY <1>4
  <2>2. <<x - 1, x>> \in R
    BY <2>1 DEF R, OpToRel
  <2>3. x - 1 \notin T
    BY <1>3, <2>2
  <2>4. ~Covers(x - 1)
    BY <2>1, <2>3 DEF T
  <2>5. PICK k \in DOMAIN values : ~(Magnitude(values[k]) < 2 ^ (x - 1))
    BY <2>4
  <2>6. 2 ^ (x - 1) \in Nat
    BY <2>1, PowersGrow
  <2>7. Magnitude(values[k]) \in Nat
    BY <2>5
  <2> DEFINE a == Magnitude(values[k])
             w == 2 ^ (x - 1)
  <2>8. a \in Nat /\ w \in Nat /\ ~(a < w)
    BY <2>5, <2>6, <2>7
  <2> HIDE DEF a, w
  <2>9. a >= w
    BY <2>8
  <2> QED BY <2>9 DEF a, w
<1> HIDE DEF Covers
<1>6. \E m \in 0 .. 31 : Covers(m) /\ (m > 0 => \E k \in DOMAIN values : Magnitude(values[k]) >= 2 ^ (m - 1))
  BY <1>4, <1>5
<1> DEFINE P(m) == Covers(m) /\ (m > 0 => \E k \in DOMAIN values : Magnitude(values[k]) >= 2 ^ (m - 1))
<1>7. BitplaneCount(values) = CHOOSE m \in 0 .. 31 : P(m)
  BY DEF BitplaneCount, Covers
<1> HIDE DEF P
<1>8. BitplaneCount(values) \in 0 .. 31 /\ P(BitplaneCount(values))
  <2>1. \E m \in 0 .. 31 : P(m)
    BY <1>6 DEF P
  <2> QED BY <1>7, <2>1
<1> QED BY <1>8 DEF P, Covers

(* Every coefficient a 32-bit number, and none the least of them.          *)
Coefficient == -(2 ^ 31 - 1) .. 2 ^ 31 - 1

LEMMA ValueFits ==
    ASSUME NEW g, NEW t \in 0 .. 31, NEW m \in t .. 31, NEW a \in Nat, g.qpih \in {0, 1}, a < 2 ^ m
    PROVE  Quantize(g, a, m, t) \in 0 .. 2 ^ (m - t) - 1
<1>1. t \in 0 .. 32 /\ t \in 0 .. 31 /\ m \in 0 .. 31
  OBVIOUS
<1>2. CASE t < m
  BY <1>1, <1>2, QuantisedFits
<1>3. CASE ~(t < m)
  <2> DEFINE u == 2 ^ t
  <2>1. m = t
    BY <1>1, <1>3
  <2>2. a < u /\ u \in Nat \ {0}
    BY <1>1, <2>1, PowersGrow
  <2>3. Quantize(g, a, m, t) = IF g.qpih = 0 THEN a \div u ELSE 0
    BY <1>1, <2>1 DEF Quantize
  <2>4. Divides(a, u)
    BY <1>1, StepOf
  <2> HIDE DEF u
  <2>5. a < 1 * u /\ 1 \in Nat
    BY <2>2
  <2>6. a \div u \in 0 .. 1 - 1
    BY <2>2, <2>4, <2>5, Quotient
  <2>7. Quantize(g, a, m, t) = 0
    BY <2>3, <2>6
  <2>8. m - t = 0 /\ 2 ^ 0 = 1
    BY <1>1, <2>1
  <2> QED BY <2>7, <2>8
<1> QED BY <1>2, <1>3

(* A group as QuantiseLine leaves it, with the values it was made from.    *)
IsQuantised(g, t, values, group) ==
    LET m == Larger(BitplaneCount(values), t)
        v == [k \in 0 .. 3 |-> IF k \in DOMAIN values THEN Quantize(g, Magnitude(values[k]), m, t) ELSE 0]
    IN  /\ DOMAIN values \subseteq 0 .. 3 /\ \A k \in DOMAIN values : values[k] \in Coefficient
        /\ BitplaneCount(values) <= MaxCount(g)
        /\ group = [m |-> m, fits |-> TRUE, v |-> v, s |-> [k \in 0 .. 3 |-> v[k] # 0 /\ values[k] < 0]]

LEMMA MagnitudesFit ==
    ASSUME NEW g, NEW t \in 0 .. MaxCount(g), NEW values, NEW m, Codable(g),
           \A k \in DOMAIN values : values[k] \in Coefficient,
           m = Larger(BitplaneCount(values), t), BitplaneCount(values) <= MaxCount(g)
    PROVE  /\ m \in t .. MaxCount(g) /\ m \in 0 .. 31 /\ t \in 0 .. 31
           /\ \A k \in DOMAIN values : Magnitude(values[k]) \in Nat /\ Magnitude(values[k]) < 2 ^ m
<1>1. MaxCount(g) \in 0 .. 31
  BY CountBounds
<1>2. 2 ^ 31 = 2147483648
  OBVIOUS
<1>3. \A k \in DOMAIN values : Magnitude(values[k]) \in Nat /\ Magnitude(values[k]) < 2 ^ 31
  <2> SUFFICES ASSUME NEW k \in DOMAIN values PROVE Magnitude(values[k]) \in Nat /\ Magnitude(values[k]) < 2 ^ 31
    OBVIOUS
  <2>1. values[k] \in Int /\ -2147483648 < values[k] /\ values[k] < 2147483648
    BY <1>2 DEF Coefficient
  <2> QED BY <2>1, <1>2 DEF Magnitude
<1>4. BitplaneCount(values) \in 0 .. 31 /\ \A k \in DOMAIN values : Magnitude(values[k]) < 2 ^ BitplaneCount(values)
  BY <1>3, FewestBitplanes
<1>5. m \in t .. MaxCount(g) /\ m \in 0 .. 31 /\ t \in 0 .. 31 /\ BitplaneCount(values) <= m
  BY <1>1, <1>4 DEF Larger
<1>6. \A k \in DOMAIN values : Magnitude(values[k]) < 2 ^ m
  <2> SUFFICES ASSUME NEW k \in DOMAIN values PROVE Magnitude(values[k]) < 2 ^ m
    OBVIOUS
  <2> DEFINE a == Magnitude(values[k])
             w == 2 ^ BitplaneCount(values)
             u == 2 ^ m
  <2>1. w \in Nat /\ u \in Nat /\ w <= u
    BY <1>4, <1>5, PowersGrow
  <2>2. a < w /\ a \in Nat
    BY <1>3, <1>4
  <2> HIDE DEF a, w, u
  <2>3. a < u
    BY <2>1, <2>2
  <2> QED BY <2>3 DEF a, u
<1> QED BY <1>3, <1>5, <1>6

LEMMA GroupIsFit ==
    ASSUME NEW g, NEW t \in 0 .. MaxCount(g), NEW values, NEW group, Codable(g), IsQuantised(g, t, values, group)
    PROVE  GroupFits(g, group, t)
<1> DEFINE m == Larger(BitplaneCount(values), t)
           v == [k \in 0 .. 3 |-> IF k \in DOMAIN values THEN Quantize(g, Magnitude(values[k]), m, t) ELSE 0]
<1>1. /\ DOMAIN values \subseteq 0 .. 3 /\ \A k \in DOMAIN values : values[k] \in Coefficient
      /\ BitplaneCount(values) <= MaxCount(g)
      /\ group = [m |-> m, fits |-> TRUE, v |-> v, s |-> [k \in 0 .. 3 |-> v[k] # 0 /\ values[k] < 0]]
  BY DEF IsQuantised
<1>2. /\ m \in t .. MaxCount(g) /\ m \in 0 .. 31 /\ t \in 0 .. 31
      /\ \A k \in DOMAIN values : Magnitude(values[k]) \in Nat /\ Magnitude(values[k]) < 2 ^ m
  BY <1>1, MagnitudesFit
<1> HIDE DEF m
<1>7. \A k \in 0 .. 3 : v[k] \in 0 .. 2 ^ (m - t) - 1
  <2> SUFFICES ASSUME NEW k \in 0 .. 3 PROVE v[k] \in 0 .. 2 ^ (m - t) - 1
    OBVIOUS
  <2> DEFINE w == 2 ^ (m - t)
             a == Magnitude(values[k])
  <2>1. w \in Nat \ {0}
    <3>1. m - t \in 0 .. 31
      BY <1>2
    <3> QED BY <3>1, PowersGrow
  <2>2. CASE k \notin DOMAIN values
    <3>1. v[k] = 0
      BY <2>2
    <3> HIDE DEF w
    <3>2. v[k] \in 0 .. w - 1
      BY <3>1, <2>1
    <3> QED BY <3>2 DEF w
  <2>3. CASE k \in DOMAIN values
    <3>1. v[k] = Quantize(g, a, m, t)
      BY <2>3
    <3>2. a \in Nat /\ a < 2 ^ m /\ g.qpih \in {0, 1}
      BY <1>2, <2>3 DEF Codable
    <3>3. t \in 0 .. 31 /\ m \in t .. 31
      BY <1>2
    <3> HIDE DEF a
    <3>4. Quantize(g, a, m, t) \in 0 .. 2 ^ (m - t) - 1
      BY <3>2, <3>3, ValueFits
    <3> QED BY <3>1, <3>4
  <2> QED BY <2>2, <2>3
<1>8. \A k \in 0 .. 3 : group.s[k] \in BOOLEAN /\ (group.s[k] => group.v[k] # 0)
  <2> SUFFICES ASSUME NEW k \in 0 .. 3 PROVE group.s[k] \in BOOLEAN /\ (group.s[k] => group.v[k] # 0)
    OBVIOUS
  <2>1. group.s[k] = (v[k] # 0 /\ values[k] < 0) /\ group.v = v
    BY <1>1
  <2>2. k \notin DOMAIN values => v[k] = 0
    OBVIOUS
  <2>3. k \in DOMAIN values => (values[k] < 0) \in BOOLEAN
    OBVIOUS
  <2> QED BY <2>1, <2>2, <2>3
<1>9. group.m = m /\ group.v = v /\ group.s = [k \in 0 .. 3 |-> group.s[k]]
  BY <1>1
<1>10. v \in [0 .. 3 -> 0 .. 2 ^ (m - t) - 1]
  BY <1>7
<1>11. group.s \in [0 .. 3 -> BOOLEAN]
  BY <1>8, <1>9
<1> QED BY <1>2, <1>8, <1>9, <1>10, <1>11 DEF GroupFits

(* The groups of a quantised line, unless a coefficient has more bitplanes *)
(* than the headers can count.                                             *)
LEMMA QuantisedGroup ==
    ASSUME NEW g, NEW i, NEW b, NEW t \in 0 .. MaxCount(g), NEW row, NEW x \in Groups(g, i, b), Codable(g),
           \A y \in DOMAIN row : row[y] \in Coefficient, QuantiseLine(g, i, b, row, t)[x].fits
    PROVE  IsQuantised(g, t, GroupValues(g, row, x), QuantiseLine(g, i, b, row, t)[x])
<1> DEFINE line == QuantiseLine(g, i, b, row, t)
           values == GroupValues(g, row, x)
           raw == BitplaneCount(values)
           m == Larger(raw, t)
           v == [k \in 0 .. g.ng - 1 |-> IF k \in DOMAIN values THEN Quantize(g, Magnitude(values[k]), m, t) ELSE 0]
           group == [m |-> m, fits |-> raw <= MaxCount(g), v |-> v,
                     s |-> [k \in 0 .. g.ng - 1 |-> v[k] # 0 /\ values[k] < 0]]
<1>1. line[x] = group
  <2> DEFINE vals == Once(GroupValues(g, row, x))
             bits == BitplaneCount(vals)
             count == Larger(bits, t)
             mags == Once([k \in 0 .. g.ng - 1 |->
                        IF k \in DOMAIN vals THEN Quantize(g, Magnitude(vals[k]), count, t) ELSE 0])
             signs == [k \in 0 .. g.ng - 1 |-> mags[k] # 0 /\ vals[k] < 0]
  <2>1. line[x] = [m |-> count, fits |-> bits <= MaxCount(g), v |-> mags, s |-> signs]
    BY DEF QuantiseLine
  <2>2. vals = values
    BY OnceIs
  <2> HIDE DEF vals, values
  <2>3. mags = v
    BY <2>2, OnceIs
  <2> QED BY <2>1, <2>2, <2>3
<1>2. g.ng - 1 = 3
  BY DEF Codable
<1>3. raw <= MaxCount(g)
  <2>1. line[x].fits /\ group.fits = (raw <= MaxCount(g))
    OBVIOUS
  <2> HIDE DEF group, raw, line
  <2> QED BY <1>1, <2>1
<1>4. DOMAIN values \subseteq 0 .. 3 /\ \A k \in DOMAIN values : values[k] \in Coefficient
  BY <1>2 DEF GroupValues
<1>5. group = [m |-> m, fits |-> TRUE,
               v |-> [k \in 0 .. 3 |-> IF k \in DOMAIN values THEN Quantize(g, Magnitude(values[k]), m, t) ELSE 0],
               s |-> [k \in 0 .. 3 |-> v[k] # 0 /\ values[k] < 0]]
      /\ v = [k \in 0 .. 3 |-> IF k \in DOMAIN values THEN Quantize(g, Magnitude(values[k]), m, t) ELSE 0]
  <2> HIDE DEF values, m, raw
  <2> QED BY <1>2, <1>3
<1> HIDE DEF values, group, line
<1>6. IsQuantised(g, t, values, line[x])
  BY <1>1, <1>3, <1>4, <1>5 DEF IsQuantised
<1> QED BY <1>6 DEF values, line

LEMMA LineIsFit ==
    ASSUME NEW g, NEW i, NEW b, NEW t \in 0 .. MaxCount(g), NEW row, Codable(g),
           \A x \in DOMAIN row : row[x] \in Coefficient,
           \A x \in Groups(g, i, b) : QuantiseLine(g, i, b, row, t)[x].fits
    PROVE  LineFits(g, i, b, QuantiseLine(g, i, b, row, t), t)
<1> DEFINE line == QuantiseLine(g, i, b, row, t)
<1>1. DOMAIN line = Groups(g, i, b)
  BY DEF QuantiseLine
<1>2. \A x \in Groups(g, i, b) : GroupFits(g, line[x], t)
  BY QuantisedGroup, GroupIsFit
<1> HIDE DEF line
<1>3. LineFits(g, i, b, line, t)
  BY <1>1, <1>2 DEF LineFits
<1> QED BY <1>3 DEF line

CountsIn(line) == [x \in DOMAIN line |-> line[x].m]
MagnitudesIn(line) == [x \in DOMAIN line |-> line[x].v]
(* What a quantised line stands for.                                       *)
Dequantised(g, i, b, line, t) ==
    [x \in 0 .. g.widths[i][b] - 1 |->
        Dequantize(g, line[x \div g.ng].v[x % g.ng], line[x \div g.ng].s[x % g.ng], line[x \div g.ng].m, t)]
SignsOf(g, line) == IF g.fs = 1 THEN EncodeSigns(g, line) ELSE <<>>

LEMMA NonzeroFacts ==
    ASSUME NEW g, Codable(g), NEW n \in Nat, NEW v, DOMAIN v = 0 .. n - 1
    PROVE  /\ Places(g, v) = 4 * n
           /\ Nonzero(g, v) = {x \in 0 .. 4 * n - 1 : v[x \div 4][x % 4] # 0}
           /\ Below(Nonzero(g, v), Places(g, v)) = Nonzero(g, v)
           /\ IsFiniteSet(Nonzero(g, v)) /\ Cardinality(Nonzero(g, v)) \in Nat
<1>1. Cardinality(0 .. n - 1) = n
  <2>1. Cardinality(0 .. n - 1) = IF 0 > n - 1 THEN 0 ELSE (n - 1) - 0 + 1
    BY FS_Interval
  <2> QED BY <2>1
<1>2. g.ng = 4
  BY DEF Codable
<1>3. Places(g, v) = 4 * n
  BY <1>1, <1>2 DEF Places
<1>4. Nonzero(g, v) = {x \in 0 .. 4 * n - 1 : v[x \div 4][x % 4] # 0}
  BY <1>2, <1>3, OnceIs DEF Nonzero
<1>5. Below(Nonzero(g, v), Places(g, v)) = Nonzero(g, v)
  BY <1>3, <1>4 DEF Below
<1>6. 4 * n \in Nat
  OBVIOUS
<1>7. IsFiniteSet(Nonzero(g, v)) /\ Cardinality(Nonzero(g, v)) \in Nat
  BY <1>3, <1>5, <1>6, BelowGrows
<1> QED BY <1>3, <1>4, <1>5, <1>7

(* The magnitudes a reader finds in the data subpacket.                    *)
LEMMA MagnitudesRead ==
    ASSUME NEW g, Codable(g), NEW i, NEW e, NEW b, b = e.band, CodeGroups(g, i, b) \in Nat,
           NEW t \in 0 .. MaxCount(g), NEW line, LineFits(g, i, b, line, t),
           NEW m, m = CountsIn(line), NEW above, above = {x \in Groups(g, i, b) : m[x] > t},
           NEW dat, dat = EncodeData(g, i, e, line, t), NEW x \in Groups(g, i, b), NEW empty
    PROVE  LET group == Field(dat, Place(x, above), empty)
           IN  /\ m[x] > t => /\ [k \in 0 .. 3 |-> group.v[k] % 2 ^ (m[x] - t)] = line[x].v
                              /\ g.fs = 0 => group.s = line[x].s
               /\ m[x] <= t => line[x].v = [k \in 0 .. 3 |-> 0]
               /\ m[x] = line[x].m /\ m[x] \in t .. MaxCount(g)
<1> DEFINE n == CodeGroups(g, i, b)
           order == InOrder(above, n)
           Group(k) == [v |-> [j \in DOMAIN line[order[k]].v |-> line[order[k]].v[j] % 2 ^ (line[order[k]].m - t)],
                        s |-> IF g.fs = 0 THEN line[order[k]].s ELSE <<>>]
           group == Field(dat, Place(x, above), empty)
<1>1. DOMAIN line = Groups(g, i, b) /\ GroupFits(g, line[x], t) /\ Groups(g, i, b) = 0 .. n - 1
  BY DEF LineFits, Groups
<1>2. m[x] = line[x].m /\ DOMAIN m = Groups(g, i, b) /\ m[x] \in t .. MaxCount(g)
  BY <1>1 DEF CountsIn, GroupFits
<1>3. MaxCount(g) \in 0 .. 31
  BY CountBounds
<1>4. dat = [k \in 1 .. Len(order) |-> Group(k)]
  <2>1. DataGroups(g, i, b, m, t) = order
    <3>1. Once({y \in DOMAIN m : m[y] > t}) = above
      BY <1>2, OnceIs
    <3> QED BY <3>1 DEF DataGroups
  <2> HIDE DEF order
  <2>2. [y \in DOMAIN line |-> line[y].m] = m
    BY DEF CountsIn
  <2> QED BY <2>1, <2>2 DEF EncodeData
<1> DEFINE z == m[x] - t
           w == 2 ^ z
           v == line[x].v
<1>5. w \in Nat \ {0} /\ DOMAIN v = 0 .. 3 /\ (\A j \in 0 .. 3 : v[j] \in 0 .. w - 1) /\ v = [j \in 0 .. 3 |-> v[j]]
  <2>1. z \in 0 .. 31
    BY <1>2, <1>3
  <2>2. w \in Nat \ {0}
    <3> HIDE DEF z
    <3> QED BY <2>1, PowersGrow
  <2>3. v \in [0 .. 3 -> 0 .. w - 1]
    BY <1>1, <1>2 DEF GroupFits
  <2> HIDE DEF v, w
  <2> QED BY <2>2, <2>3
<1>6. ASSUME m[x] > t PROVE [k \in 0 .. 3 |-> group.v[k] % w] = v /\ (g.fs = 0 => group.s = line[x].s)
  <2>1. x \in above /\ Below(above, n) = above
    BY <1>1, <1>6 DEF Below
  <2>2. Place(x, above) \in 1 .. Len(order) /\ order[Place(x, above)] = x
    <3>1. n \in Nat
      OBVIOUS
    <3> HIDE DEF n
    <3> QED BY <2>1, <3>1, OrderFacts
  <2> HIDE DEF order
  <2>3. group = Group(Place(x, above))
    BY <1>4, <2>2 DEF Field
  <2>4. group = [v |-> [j \in DOMAIN v |-> v[j] % w], s |-> IF g.fs = 0 THEN line[x].s ELSE <<>>]
    BY <1>2, <2>2, <2>3
  <2>5. group.v = [j \in DOMAIN v |-> v[j] % w] /\ (g.fs = 0 => group.s = line[x].s)
    BY <2>4
  <2> HIDE DEF v, w, group
  <2>6. \A j \in 0 .. 3 : group.v[j] % w = v[j]
    <3> SUFFICES ASSUME NEW j \in 0 .. 3 PROVE group.v[j] % w = v[j]
      OBVIOUS
    <3>1. group.v[j] = v[j] % w
      BY <1>5, <2>5
    <3>2. v[j] \in Nat /\ v[j] < w /\ w \in Nat \ {0}
      BY <1>5
    <3>3. PICK u : u = v[j]
      OBVIOUS
    <3>4. u % w = u
      BY <3>2, <3>3
    <3> QED BY <3>1, <3>3, <3>4
  <2>7. [k \in 0 .. 3 |-> group.v[k] % w] = [k \in 0 .. 3 |-> v[k]]
    BY <2>6
  <2> QED BY <1>5, <2>5, <2>7
<1>7. ASSUME m[x] <= t PROVE v = [k \in 0 .. 3 |-> 0]
  <2>1. z = 0
    BY <1>2, <1>3, <1>7
  <2>2. w = 1
    <3> HIDE DEF z
    <3>1. w = 2 ^ 0
      BY <2>1
    <3> QED BY <3>1
  <2> HIDE DEF v, w
  <2>3. \A j \in 0 .. 3 : v[j] = 0
    BY <1>5, <2>2
  <2> QED BY <1>5, <2>3
<1> HIDE DEF group
<1> QED BY <1>2, <1>6, <1>7 DEF group

SignsAre(sgn, signed, line) ==
    \A y \in signed : Field(sgn, Place(y, signed), FALSE) = line[y \div 4].s[y % 4]

(* What the decoder reads of a line's data and signs is what the encoder   *)
(* wrote of it, up to the last bit.                                        *)
LEMMA SignsRead ==
    ASSUME NEW g, NEW i, NEW b, NEW t \in 0 .. MaxCount(g), NEW line,
           Codable(g), CodeGroups(g, i, b) \in Nat, LineFits(g, i, b, line, t)
    PROVE  LET signed == Nonzero(g, MagnitudesIn(line))
           IN  /\ Len(EncodeSigns(g, line)) = Cardinality(signed)
               /\ SignsAre(EncodeSigns(g, line), signed, line)
<1> DEFINE v == MagnitudesIn(line)
           n == CodeGroups(g, i, b)
           order == InOrder(Nonzero(g, v), Places(g, v))
           Sign(k) == line[order[k] \div 4].s[order[k] % 4]
<1>1. DOMAIN line = Groups(g, i, b) /\ DOMAIN v = 0 .. n - 1 /\ g.ng = 4
  BY DEF LineFits, MagnitudesIn, Groups, Codable
<1>2. v = Once([x \in DOMAIN line |-> line[x].v])
  BY OnceIs DEF MagnitudesIn
<1> HIDE DEF v
<1>3. EncodeSigns(g, line) = [k \in 1 .. Len(order) |-> Sign(k)]
  <2> HIDE DEF order
  <2> QED BY <1>1, <1>2 DEF EncodeSigns, order
<1>4. n \in Nat
  OBVIOUS
<1>5. /\ Places(g, v) = 4 * n /\ Nonzero(g, v) = {x \in 0 .. 4 * n - 1 : v[x \div 4][x % 4] # 0}
      /\ Below(Nonzero(g, v), Places(g, v)) = Nonzero(g, v)
  <2> HIDE DEF n
  <2> QED BY <1>1, <1>4, NonzeroFacts
<1>6. 4 * n \in Nat
  BY <1>4
<1>7. /\ order \in Seq(Nat) /\ Len(order) = Cardinality(Nonzero(g, v))
      /\ \A y \in Nonzero(g, v) : Place(y, Nonzero(g, v)) \in 1 .. Len(order) /\ order[Place(y, Nonzero(g, v))] = y
  <2> DEFINE S == Nonzero(g, v)
             N == Places(g, v)
  <2>1. N \in Nat /\ Below(S, N) = S
    BY <1>5, <1>6
  <2> HIDE DEF S, N
  <2>2. /\ InOrder(S, N) \in Seq(Nat) /\ Len(InOrder(S, N)) = Cardinality(S)
        /\ \A y \in S : Place(y, S) \in 1 .. Len(InOrder(S, N)) /\ InOrder(S, N)[Place(y, S)] = y
    BY <2>1, OrderFacts
  <2> QED BY <2>2 DEF S, N
<1> HIDE DEF order
<1>8. Len(EncodeSigns(g, line)) = Len(order)
  <2>1. Len(order) \in Nat
    BY <1>7
  <2> QED BY <1>3, <2>1
<1>9. ASSUME NEW y \in Nonzero(g, v)
      PROVE  Field(EncodeSigns(g, line), Place(y, Nonzero(g, v)), FALSE) = line[y \div 4].s[y % 4]
  <2>1. Place(y, Nonzero(g, v)) \in 1 .. Len(order) /\ order[Place(y, Nonzero(g, v))] = y
    BY <1>7
  <2>2. Field(EncodeSigns(g, line), Place(y, Nonzero(g, v)), FALSE) = Sign(Place(y, Nonzero(g, v)))
    BY <1>3, <2>1 DEF Field
  <2> QED BY <2>1, <2>2
<1>10. SignsAre(EncodeSigns(g, line), Nonzero(g, v), line)
  BY <1>9, Zenon DEF SignsAre
<1> QED BY <1>7, <1>8, <1>10 DEF v

(* The data and sign subpackets of a line (entropy.cc: EncodeData,         *)
(* EncodeSigns): with the counts of the line the decoder finds every       *)
(* magnitude and every sign, and consumes what was written.                *)
THEOREM DataRoundTrip ==
    ASSUME NEW g, NEW i, NEW e, NEW b, NEW t \in 0 .. MaxCount(g), NEW line,
           Codable(g), b = e.band, g.widths[i][b] \in Nat, LineFits(g, i, b, line, t)
    PROVE  DecodeLine(g, i, b, CountsIn(line), t, EncodeData(g, i, e, line, t), SignsOf(g, line))
           = [values |-> Dequantised(g, i, b, line, t), signBits |-> Len(SignsOf(g, line))]
<1> DEFINE m == CountsIn(line)
           dat == EncodeData(g, i, e, line, t)
           sgn == SignsOf(g, line)
           n == CodeGroups(g, i, b)
           none == [k \in 0 .. g.ng - 1 |-> 0]
           above == Once({k \in DOMAIN m : m[k] > t})
           Empty == [v |-> none, s |-> [k \in 0 .. g.ng - 1 |-> FALSE]]
           Group(x) == Field(dat, Place(x, above), Empty)
           v == Once([x \in DOMAIN m |-> IF m[x] <= t THEN none
                                         ELSE [k \in 0 .. g.ng - 1 |-> Group(x).v[k] % 2 ^ (m[x] - t)]])
           signed == Nonzero(g, v)
           Negative(x) == IF v[x \div g.ng][x % g.ng] = 0 THEN FALSE
                          ELSE IF g.fs = 1 THEN Field(sgn, Place(x, signed), FALSE)
                          ELSE Group(x \div g.ng).s[x % g.ng]
           values == [x \in 0 .. g.widths[i][b] - 1 |->
                        Dequantize(g, v[x \div g.ng][x % g.ng], Negative(x), m[x \div g.ng], t)]
<1>1. DecodeLine(g, i, b, m, t, dat, sgn) = [values |-> values, signBits |-> IF g.fs = 1 THEN Cardinality(signed) ELSE 0]
  BY DEF DecodeLine
<1>2. g.ng = 4 /\ g.ng - 1 = 3 /\ g.fs \in {0, 1}
  BY DEF Codable
<1>3. n \in Nat /\ Groups(g, i, b) = 0 .. n - 1 /\ DOMAIN m = Groups(g, i, b) /\ DOMAIN line = Groups(g, i, b)
  BY FlagsCover DEF CountsIn, LineFits, Groups
<1>4. above = {x \in Groups(g, i, b) : m[x] > t}
  BY <1>3, OnceIs
<1>5. \A x \in Groups(g, i, b) :
          /\ m[x] > t => /\ [k \in 0 .. 3 |-> Group(x).v[k] % 2 ^ (m[x] - t)] = line[x].v
                         /\ g.fs = 0 => Group(x).s = line[x].s
          /\ m[x] <= t => line[x].v = [k \in 0 .. 3 |-> 0]
          /\ m[x] = line[x].m /\ m[x] \in t .. MaxCount(g)
  <2> SUFFICES ASSUME NEW x \in Groups(g, i, b)
               PROVE  /\ m[x] > t => /\ [k \in 0 .. 3 |-> Group(x).v[k] % 2 ^ (m[x] - t)] = line[x].v
                                     /\ g.fs = 0 => Group(x).s = line[x].s
                      /\ m[x] <= t => line[x].v = [k \in 0 .. 3 |-> 0]
                      /\ m[x] = line[x].m /\ m[x] \in t .. MaxCount(g)
    OBVIOUS
  <2>1. m = CountsIn(line) /\ dat = EncodeData(g, i, e, line, t) /\ CodeGroups(g, i, b) \in Nat
    BY <1>3
  <2> HIDE DEF m, dat, above, Empty
  <2> QED BY <2>1, <1>4, MagnitudesRead
<1> HIDE DEF Group, above, m
<1>17. t \in Int /\ \A x \in Groups(g, i, b) : m[x] \in Int
  <2>1. MaxCount(g) \in 0 .. 31
    BY CountBounds
  <2>2. \A x \in Groups(g, i, b) : m[x] \in t .. MaxCount(g)
    BY <1>5
  <2> QED BY <2>1, <2>2
<1>6. v = MagnitudesIn(line)
  <2> DEFINE plain == [x \in DOMAIN m |-> IF m[x] <= t THEN none
                                          ELSE [k \in 0 .. g.ng - 1 |-> Group(x).v[k] % 2 ^ (m[x] - t)]]
  <2>1. v = plain
    BY OnceIs
  <2>2. ASSUME NEW x \in Groups(g, i, b) PROVE plain[x] = line[x].v
    <3>1. m[x] \in Int /\ t \in Int
      BY <1>17
    <3>2. CASE m[x] <= t
      BY <1>2, <1>3, <1>5, <3>2
    <3>3. CASE m[x] > t
      BY <1>2, <1>3, <1>5, <3>1, <3>3
    <3> QED BY <3>1, <3>2, <3>3
  <2>3. MagnitudesIn(line) = [x \in Groups(g, i, b) |-> line[x].v]
    BY <1>3 DEF MagnitudesIn
  <2>4. plain = [x \in Groups(g, i, b) |-> plain[x]]
    BY <1>3
  <2> HIDE DEF plain, v
  <2>5. plain = [x \in Groups(g, i, b) |-> line[x].v]
    BY <2>2, <2>4
  <2> QED BY <2>1, <2>3, <2>5
<1> HIDE DEF v, dat
<1>7. ASSUME NEW x \in 0 .. g.widths[i][b] - 1
      PROVE  /\ x \div 4 \in Groups(g, i, b) /\ x % 4 \in 0 .. 3 /\ x \in 0 .. 4 * n - 1
             /\ v[x \div 4] = line[x \div 4].v /\ m[x \div 4] = line[x \div 4].m
  <2>1. PICK w \in Nat : w = g.widths[i][b]
    OBVIOUS
  <2>2. n = (w + 4 - 1) \div 4 /\ x \in 0 .. w - 1
    BY <1>2, <2>1 DEF CodeGroups, CeilDiv
  <2> HIDE DEF n
  <2>3. x \div 4 \in 0 .. n - 1 /\ x % 4 \in 0 .. 3 /\ x \in 0 .. 4 * n - 1
    BY <2>2
  <2>4. v[x \div 4] = line[x \div 4].v
    BY <1>3, <1>6, <2>3 DEF MagnitudesIn
  <2> QED BY <1>3, <1>5, <2>3, <2>4
<1>8. DOMAIN v = 0 .. n - 1
  BY <1>3, <1>6 DEF MagnitudesIn
<1>9. signed = {x \in 0 .. 4 * n - 1 : v[x \div 4][x % 4] # 0}
  <2> HIDE DEF n
  <2> QED BY <1>3, <1>8, NonzeroFacts
<1>10. g.fs = 1 => Len(sgn) = Cardinality(signed) /\ SignsAre(sgn, signed, line)
  <2> SUFFICES ASSUME g.fs = 1 PROVE Len(sgn) = Cardinality(signed) /\ SignsAre(sgn, signed, line)
    OBVIOUS
  <2>1. sgn = EncodeSigns(g, line)
    BY DEF SignsOf
  <2>2. CodeGroups(g, i, b) \in Nat
    BY <1>3
  <2> HIDE DEF sgn
  <2> QED BY <2>1, <2>2, <1>6, SignsRead
<1>11. g.fs = 0 => Len(sgn) = 0
  BY DEF SignsOf
<1> HIDE DEF signed, sgn
<1>12. ASSUME NEW x \in 0 .. g.widths[i][b] - 1
       PROVE  Negative(x) = line[x \div 4].s[x % 4]
  <2> DEFINE y == x \div 4
             k == x % 4
  <2>1. y \in Groups(g, i, b) /\ k \in 0 .. 3 /\ x \in 0 .. 4 * n - 1 /\ v[y] = line[y].v /\ m[y] = line[y].m
    BY <1>7
  <2>2. GroupFits(g, line[y], t)
    BY <2>1 DEF LineFits
  <2>3. line[y].s[k] \in BOOLEAN /\ (line[y].s[k] => line[y].v[k] # 0)
    BY <2>1, <2>2 DEF GroupFits
  <2>4. Negative(x) = IF v[y][k] = 0 THEN FALSE
                      ELSE IF g.fs = 1 THEN Field(sgn, Place(x, signed), FALSE) ELSE Group(y).s[k]
    BY <1>2
  <2>5. v[y][k] # 0 => x \in signed
    BY <1>9, <2>1
  <2>6. v[y][k] # 0 => m[y] > t
    <3> HIDE DEF m, y, k
    <3>1. m[y] \in Int /\ t \in Int
      BY <1>17, <2>1
    <3>2. m[y] <= t => line[y].v = [j \in 0 .. 3 |-> 0]
      BY <1>5, <2>1
    <3>3. m[y] <= t => v[y][k] = 0
      BY <2>1, <3>2
    <3> QED BY <3>1, <3>3
  <2>7. g.fs = 0 /\ v[y][k] # 0 => Group(y).s[k] = line[y].s[k]
    BY <1>5, <2>1, <2>6
  <2>8. g.fs = 1 /\ v[y][k] # 0 => Field(sgn, Place(x, signed), FALSE) = line[y].s[k]
    BY <1>10, <2>5 DEF SignsAre
  <2> HIDE DEF m, y, k, Negative
  <2>9. Negative(x) = line[y].s[k]
    <3>1. CASE v[y][k] = 0
      BY <2>1, <2>3, <2>4, <3>1
    <3>2. CASE v[y][k] # 0
      BY <1>2, <2>4, <2>7, <2>8, <3>2
    <3> QED BY <3>1, <3>2
  <2> QED BY <2>9 DEF y, k
<1> HIDE DEF Negative
<1>13. values = Dequantised(g, i, b, line, t)
  <2>1. \A x \in 0 .. g.widths[i][b] - 1 :
            Dequantize(g, v[x \div g.ng][x % g.ng], Negative(x), m[x \div g.ng], t)
            = Dequantize(g, line[x \div g.ng].v[x % g.ng], line[x \div g.ng].s[x % g.ng], line[x \div g.ng].m, t)
    <3> HIDE DEF m
    <3> QED BY <1>2, <1>7, <1>12
  <2> QED BY <2>1 DEF Dequantised
<1>14. (IF g.fs = 1 THEN Cardinality(signed) ELSE 0) = Len(sgn)
  BY <1>2, <1>10, <1>11
<1> HIDE DEF values, m
<1>15. [values |-> values, signBits |-> IF g.fs = 1 THEN Cardinality(signed) ELSE 0]
       = [values |-> Dequantised(g, i, b, line, t), signBits |-> Len(sgn)]
  BY <1>13, <1>14
<1> QED BY <1>1, <1>15 DEF m, dat, sgn

LEMMA DataBitsIsNat ==
    ASSUME NEW g, NEW n \in Nat, NEW limit \in Nat, NEW t \in Nat, NEW m, DOMAIN m = 0 .. n - 1,
           \A x \in 0 .. n - 1 : m[x] \in t .. limit, Codable(g)
    PROVE  DataBits(g, m, t) \in Nat
<1> DEFINE Bits(x) == IF m[x] > t THEN g.ng * (m[x] - t) + (IF g.fs = 0 THEN g.ng ELSE 0) ELSE 0
           seq == [k \in 1 .. n |-> Bits(k - 1)]
<1>1. Cardinality(0 .. n - 1) = n
  <2>1. Cardinality(0 .. n - 1) = IF 0 > n - 1 THEN 0 ELSE (n - 1) - 0 + 1
    BY FS_Interval
  <2> QED BY <2>1
<1>2. DataBits(g, m, t) = Total(seq)
  BY <1>1 DEF DataBits
<1>3. \A k \in 1 .. n : seq[k] \in Nat
  <2> SUFFICES ASSUME NEW k \in 1 .. n PROVE Bits(k - 1) \in Nat
    OBVIOUS
  <2>1. m[k - 1] \in t .. limit
    OBVIOUS
  <2>2. PICK c : c = m[k - 1]
    OBVIOUS
  <2>3. c \in Nat /\ c - t \in Nat /\ g.ng = 4
    BY <2>1, <2>2 DEF Codable
  <2>4. 4 * (c - t) \in Nat
    BY <2>3
  <2> QED BY <2>2, <2>3, <2>4
<1>4. Len(seq) = n
  OBVIOUS
<1> HIDE DEF seq
<1> QED BY <1>2, <1>3, <1>4, TotalNat

(* The same lengths in bits and in bytes for both sides.                   *)
BytesOf(seq) == BytesFor(Total(seq))
LEMMA BytesOfNat ==
    ASSUME NEW seq, Len(seq) \in Nat, \A k \in 1 .. Len(seq) : seq[k] \in Nat
    PROVE  BytesOf(seq) \in Nat
<1>1. Total(seq) \in Nat
  BY TotalNat
<1> QED BY <1>1 DEF BytesOf, BytesFor

(* What the decoder must know before it reads a packet, and what it knows  *)
(* after.                                                                  *)
EntryReady(g, i, e, d, quantised, counts, other, t, state) ==
    LET b == e.band
        li == LineOf(g, e)
    IN  /\ g.widths[i][b] \in Nat /\ t[b] \in 0 .. MaxCount(g)
        /\ LineFits(g, i, b, quantised[b][li], t[b]) /\ counts[b][li] = CountsIn(quantised[b][li])
        /\ d.vertical => /\ PredictorFits(g, i, b, li, counts, t, state)
                         /\ Predictor(b, li, other, t, state) = Predictor(b, li, counts, t, state)
LineSent(g, quantised, e) == quantised[e.band][LineOf(g, e)]
CountsSent(g, quantised, packet) == [k \in DOMAIN packet |-> CountsIn(LineSent(g, quantised, packet[k]))]
ValuesSent(g, i, quantised, packet, t) ==
    [k \in DOMAIN packet |-> Dequantised(g, i, packet[k].band, LineSent(g, quantised, packet[k]), t[packet[k].band])]

LEMMA EntryFollows ==
    ASSUME NEW g, NEW i, NEW e, NEW raw \in BOOLEAN, NEW d \in CodingBits, NEW quantised, NEW counts, NEW other, NEW t,
           NEW state, Codable(g), EntryReady(g, i, e, d, quantised, counts, other, t, state),
           EncodeEntry(g, i, e, raw, d, counts, t, state).fits
    PROVE  LET coded == EncodeEntry(g, i, e, raw, d, counts, t, state)
               read == DecodeEntry(g, i, e, coded, raw, d, other, t, state)
               line == LineSent(g, quantised, e)
               b == e.band
           IN  /\ EntryRead(g, coded, raw, CountsIn(line), read)
               /\ DecodeLine(g, i, b, read.m, t[b], EncodeData(g, i, e, line, t[b]), SignsOf(g, line))
                  = [values |-> Dequantised(g, i, b, line, t[b]), signBits |-> Len(SignsOf(g, line))]
               /\ DataBits(g, CountsIn(line), t[b]) \in Nat /\ Len(SignsOf(g, line)) \in Nat
<1> DEFINE b == e.band
           li == LineOf(g, e)
           coded == EncodeEntry(g, i, e, raw, d, counts, t, state)
           read == DecodeEntry(g, i, e, coded, raw, d, other, t, state)
           line == LineSent(g, quantised, e)
           m == CountsIn(line)
           n == CodeGroups(g, i, b)
<1>1. /\ g.widths[i][b] \in Nat /\ t[b] \in 0 .. MaxCount(g) /\ LineFits(g, i, b, line, t[b]) /\ counts[b][li] = m
      /\ d.vertical => /\ PredictorFits(g, i, b, li, counts, t, state)
                       /\ Predictor(b, li, other, t, state) = Predictor(b, li, counts, t, state)
  BY DEF EntryReady, LineSent
<1>2. MaxCount(g) \in 0 .. 31 /\ n \in Nat /\ Groups(g, i, b) = 0 .. n - 1
  BY <1>1, CountBounds, FlagsCover DEF Groups
<1>3. DOMAIN line = Groups(g, i, b) /\ \A x \in Groups(g, i, b) : line[x].m \in t[b] .. MaxCount(g)
  BY <1>1 DEF LineFits, GroupFits
<1>4. DOMAIN m = Groups(g, i, b) /\ \A x \in Groups(g, i, b) : m[x] \in t[b] .. MaxCount(g)
  BY <1>3 DEF CountsIn
<1>5. m \in LineCounts(g, i, b)
  <2>1. m = [x \in Groups(g, i, b) |-> m[x]]
    BY <1>3 DEF CountsIn
  <2> HIDE DEF m
  <2>2. \A x \in Groups(g, i, b) : m[x] \in 0 .. MaxCount(g)
    BY <1>1, <1>2, <1>4
  <2> QED BY <2>1, <2>2 DEF LineCounts
<1>6. EntryRead(g, coded, raw, m, read)
  <2> HIDE DEF m, li, line, b
  <2>1. li = LineOf(g, e) /\ b = e.band
    BY DEF li, b
  <2>2. coded.fits
    OBVIOUS
  <2>3. m = counts[e.band][li]
    BY <1>1, <2>1
  <2>4. /\ g.widths[i][e.band] \in Nat /\ t[e.band] \in 0 .. MaxCount(g) /\ m \in LineCounts(g, i, e.band)
        /\ d.vertical => /\ PredictorFits(g, i, e.band, li, counts, t, state)
                         /\ Predictor(e.band, li, other, t, state) = Predictor(e.band, li, counts, t, state)
    BY <1>1, <1>5, <2>1
  <2> QED BY <2>1, <2>2, <2>3, <2>4, CountsRoundTrip
<1>7. read.m = m
  BY <1>6 DEF EntryRead
<1>8. DecodeLine(g, i, b, m, t[b], EncodeData(g, i, e, line, t[b]), SignsOf(g, line))
      = [values |-> Dequantised(g, i, b, line, t[b]), signBits |-> Len(SignsOf(g, line))]
  <2>1. b = e.band
    OBVIOUS
  <2> HIDE DEF line, b
  <2>2. /\ Codable(g) /\ b = e.band /\ g.widths[i][b] \in Nat /\ t[b] \in 0 .. MaxCount(g)
        /\ LineFits(g, i, b, line, t[b])
    BY <1>1, <2>1
  <2>3. PICK T : T = t[b]
    OBVIOUS
  <2>4. T \in 0 .. MaxCount(g) /\ LineFits(g, i, b, line, T)
    BY <2>2, <2>3
  <2>5. DecodeLine(g, i, b, m, T, EncodeData(g, i, e, line, T), SignsOf(g, line))
        = [values |-> Dequantised(g, i, b, line, T), signBits |-> Len(SignsOf(g, line))]
    BY <2>2, <2>4, DataRoundTrip
  <2> QED BY <2>3, <2>5
<1>9. DataBits(g, m, t[b]) \in Nat
  <2> HIDE DEF m, n, b, line, li
  <2>0. t[b] \in 0 .. MaxCount(g) /\ MaxCount(g) \in 0 .. 31
    BY <1>1, <1>2
  <2>1. t[b] \in Nat /\ MaxCount(g) \in Nat
    BY <2>0
  <2> QED BY <1>2, <1>4, <2>1, DataBitsIsNat
<1>10. Len(SignsOf(g, line)) \in Nat
  <2>1. CASE g.fs = 1
    <3> DEFINE v == MagnitudesIn(line)
    <3> HIDE DEF line, n, b
    <3>1. Len(SignsOf(g, line)) = Cardinality(Nonzero(g, v))
      BY <1>1, <1>2, <2>1, SignsRead DEF SignsOf, n
    <3>2. DOMAIN v = 0 .. n - 1
      BY <1>2, <1>3 DEF MagnitudesIn
    <3> QED BY <1>2, <3>1, <3>2, NonzeroFacts
  <2>2. CASE g.fs # 1
    BY <2>2 DEF SignsOf
  <2> QED BY <2>1, <2>2
<1> HIDE DEF read, coded, m, line
<1>11. /\ EntryRead(g, coded, raw, m, read)
       /\ DecodeLine(g, i, b, read.m, t[b], EncodeData(g, i, e, line, t[b]), SignsOf(g, line))
          = [values |-> Dequantised(g, i, b, line, t[b]), signBits |-> Len(SignsOf(g, line))]
       /\ DataBits(g, m, t[b]) \in Nat /\ Len(SignsOf(g, line)) \in Nat
  BY <1>6, <1>7, <1>8, <1>9, <1>10
<1> QED BY <1>11 DEF read, coded, m, line

PacketReady(g, i, packet, d, quantised, counts, other, t, state) ==
    /\ Len(packet) \in Nat /\ DOMAIN packet = 1 .. Len(packet)
    /\ \A k \in DOMAIN packet : EntryReady(g, i, packet[k], d, quantised, counts, other, t, state)
PacketRead(g, i, packet, pk, quantised, t, acc, after) ==
    /\ after.counts = PutLines(g, packet, acc.counts, CountsSent(g, quantised, packet))
    /\ after.out = PutLines(g, packet, acc.out, ValuesSent(g, i, quantised, packet, t))
    /\ after.used = acc.used + PacketBytes(g, pk) /\ PacketBytes(g, pk) \in Nat
    /\ after.fits
(* One packet: the decoder finds its lines, and uses up what the encoder   *)
(* counted, to the byte.                                                   *)
THEOREM PacketFollows ==
    ASSUME NEW g, NEW i, NEW packet, NEW raw \in BOOLEAN, NEW d \in CodingBits, NEW quantised, NEW counts, NEW acc, NEW t,
           NEW state, NEW pk, Codable(g), PacketReady(g, i, packet, d, quantised, counts, acc.counts, t, state),
           pk = EncodePacket(g, i, packet, raw, d, quantised, counts, t, state),
           \A k \in DOMAIN pk.entries : pk.entries[k].fits, acc.used \in Nat, acc.fits
    PROVE  PacketRead(g, i, packet, pk, quantised, t, acc, DecodePacket(g, i, packet, pk, d, acc, t, state))
<1> DEFINE n == Len(packet)
           E(k) == EncodeEntry(g, i, packet[k], raw, d, counts, t, state)
           L(k) == LineSent(g, quantised, packet[k])
           T(k) == t[packet[k].band]
           R(k) == DecodeEntry(g, i, packet[k], E(k), raw, d, acc.counts, t, state)
           D(k) == DecodeLine(g, i, packet[k].band, R(k).m, T(k), EncodeData(g, i, packet[k], L(k), T(k)), SignsOf(g, L(k)))
           entries == [k \in 1 .. n |-> E(k)]
           read == [k \in 1 .. n |-> R(k)]
           lines == [k \in 1 .. n |-> D(k)]
           sigs == [k \in 1 .. n |-> Len(E(k).sig)]
           cnts == [k \in 1 .. n |-> IF raw THEN g.br * Len(E(k).cnt) ELSE Total(E(k).cnt) + Len(E(k).cnt)]
           dats == [k \in 1 .. n |-> DataBits(g, CountsIn(L(k)), T(k))]
           sgns == [k \in 1 .. n |-> Len(SignsOf(g, L(k)))]
<1>1. n \in Nat /\ DOMAIN packet = 1 .. n
  BY DEF PacketReady
<1>2. /\ pk.raw = raw /\ pk.entries = entries /\ pk.sgn = [k \in 1 .. n |-> SignsOf(g, L(k))]
      /\ pk.dat = [k \in 1 .. n |-> EncodeData(g, i, packet[k], L(k), T(k))]
      /\ pk.lsig = BytesOf(sigs) /\ pk.lcnt = BytesOf(cnts) /\ pk.ldat = BytesOf(dats) /\ pk.lsgn = BytesOf(sgns)
  <2> DEFINE sent == [k \in DOMAIN packet |-> quantised[packet[k].band][LineOf(g, packet[k])]]
             signs == [k \in DOMAIN packet |-> IF g.fs = 1 THEN EncodeSigns(g, sent[k]) ELSE <<>>]
             Bits(k) == DataBits(g, [x \in DOMAIN sent[k] |-> sent[k][x].m], t[packet[k].band])
  <2>1. pk = Packet(g, i, packet, raw, Once(EncodeCounts(g, i, packet, raw, d, counts, t, state)), Once(sent), Once(signs), t)
    BY DEF EncodePacket
  <2>2. /\ Once(EncodeCounts(g, i, packet, raw, d, counts, t, state)) = entries /\ Once(sent) = sent /\ Once(signs) = signs
    <3>1. EncodeCounts(g, i, packet, raw, d, counts, t, state) = entries
      BY DEF EncodeCounts
    <3> HIDE DEF entries, sent, signs
    <3> QED BY <3>1, OnceIs
  <2>3. pk = Packet(g, i, packet, raw, entries, sent, signs, t)
    <3> HIDE DEF entries, sent, signs
    <3> QED BY <2>1, <2>2
  <2>4. sent = [k \in 1 .. n |-> L(k)] /\ signs = [k \in 1 .. n |-> SignsOf(g, L(k))]
    BY <1>1 DEF LineSent, SignsOf
  <2> HIDE DEF sent, signs
  <2>5. /\ pk.raw = raw /\ pk.entries = entries /\ pk.sgn = signs
        /\ pk.dat = [k \in 1 .. n |-> EncodeData(g, i, packet[k], sent[k], t[packet[k].band])]
        /\ pk.lsig = SigBytes(entries) /\ pk.lcnt = CntBytes(g, entries, raw)
        /\ pk.ldat = BytesFor(Total([k \in 1 .. n |-> Bits(k)]))
        /\ pk.lsgn = BytesFor(Total([k \in 1 .. n |-> Len(signs[k])]))
    <3> HIDE DEF entries, n
    <3> QED BY <1>1, <2>3 DEF Packet
  <2>6. /\ \A k \in 1 .. n : sent[k] = L(k) /\ signs[k] = SignsOf(g, L(k)) /\ Bits(k) = DataBits(g, CountsIn(L(k)), T(k))
    BY <2>4 DEF CountsIn
  <2>7. SigBytes(entries) = BytesOf(sigs) /\ CntBytes(g, entries, raw) = BytesOf(cnts)
    BY DEF SigBytes, CntBytes, BytesOf
  <2> HIDE DEF Bits, L, T, E, n, entries, sigs, cnts
  <2>8. [k \in 1 .. n |-> Bits(k)] = dats /\ [k \in 1 .. n |-> Len(signs[k])] = sgns
    BY <2>6
  <2>9. [k \in 1 .. n |-> EncodeData(g, i, packet[k], sent[k], t[packet[k].band])]
        = [k \in 1 .. n |-> EncodeData(g, i, packet[k], L(k), T(k))]
    BY <2>6 DEF T
  <2> QED BY <2>4, <2>5, <2>7, <2>8, <2>9 DEF BytesOf
<1>3. ASSUME NEW k \in 1 .. n
      PROVE  /\ EntryRead(g, E(k), raw, CountsIn(L(k)), R(k))
             /\ D(k) = [values |-> Dequantised(g, i, packet[k].band, L(k), T(k)), signBits |-> Len(SignsOf(g, L(k)))]
             /\ DataBits(g, CountsIn(L(k)), T(k)) \in Nat /\ Len(SignsOf(g, L(k))) \in Nat
  <2>1. E(k).fits
    <3>1. entries[k].fits
      BY <1>2
    <3> QED BY <3>1
  <2>2. EntryReady(g, i, packet[k], d, quantised, counts, acc.counts, t, state)
    BY <1>1 DEF PacketReady
  <2> QED BY <2>1, <2>2, EntryFollows
<1>4. /\ \A k \in 1 .. n : R(k).m = CountsIn(L(k)) /\ R(k).fits /\ R(k).sigBits = sigs[k]
      /\ \A k \in 1 .. n : R(k).cntBits = cnts[k] /\ cnts[k] \in Nat
      /\ \A k \in 1 .. n : D(k).values = Dequantised(g, i, packet[k].band, L(k), T(k)) /\ D(k).signBits = sgns[k]
      /\ \A k \in 1 .. n : DataBits(g, R(k).m, T(k)) = dats[k] /\ dats[k] \in Nat /\ sgns[k] \in Nat
  <2> HIDE DEF E, L, T, R, D, n
  <2> QED BY <1>3 DEF EntryRead
<1> DEFINE after == DecodePacket(g, i, packet, pk, d, acc, t, state)
           reads == [k \in DOMAIN packet |->
                        DecodeEntry(g, i, packet[k], pk.entries[k], pk.raw, d, acc.counts, t, state)]
           found(rs) == [k \in DOMAIN packet |->
                        DecodeLine(g, i, packet[k].band, rs[k].m, t[packet[k].band], pk.dat[k], pk.sgn[k])]
<1>5. after = AddPacket(g, packet, pk, acc, read, lines, t)
  <2>1. after = AddPacket(g, packet, pk, acc, Once(reads), Once(found(Once(reads))), t)
    BY DEF DecodePacket
  <2>2. reads = read
    <3>1. \A k \in 1 .. n : DecodeEntry(g, i, packet[k], pk.entries[k], pk.raw, d, acc.counts, t, state) = R(k)
      BY <1>2
    <3> HIDE DEF R, n
    <3> QED BY <1>1, <3>1
  <2>3. found(read) = lines
    <3>1. \A k \in 1 .. n : DecodeLine(g, i, packet[k].band, read[k].m, t[packet[k].band], pk.dat[k], pk.sgn[k]) = D(k)
      <4> SUFFICES ASSUME NEW k \in 1 .. n
                   PROVE  DecodeLine(g, i, packet[k].band, read[k].m, t[packet[k].band], pk.dat[k], pk.sgn[k]) = D(k)
        OBVIOUS
      <4>1. read[k] = R(k) /\ pk.dat[k] = EncodeData(g, i, packet[k], L(k), T(k)) /\ pk.sgn[k] = SignsOf(g, L(k))
        BY <1>2
      <4> HIDE DEF R, L, read
      <4> QED BY <4>1
    <3> HIDE DEF D, n, read
    <3> QED BY <1>1, <3>1
  <2> HIDE DEF reads, found, read, lines, after
  <2>4. Once(reads) = read /\ Once(found(Once(reads))) = lines
    BY <2>2, <2>3, OnceIs
  <2> QED BY <2>1, <2>4
<1>6. /\ after.counts = PutLines(g, packet, acc.counts, [k \in 1 .. n |-> read[k].m])
      /\ after.out = PutLines(g, packet, acc.out, [k \in 1 .. n |-> lines[k].values])
      /\ after.used = acc.used + PacketHeaderBytes(g) + BytesOf([k \in 1 .. n |-> read[k].sigBits]) + pk.lcnt + pk.ldat + pk.lsgn
      /\ after.fits = (/\ acc.fits
                       /\ \A k \in 1 .. n : read[k].fits
                       /\ BytesOf([k \in 1 .. n |-> read[k].cntBits]) <= pk.lcnt
                       /\ BytesOf([k \in 1 .. n |-> DataBits(g, read[k].m, T(k))]) <= pk.ldat
                       /\ BytesOf([k \in 1 .. n |-> lines[k].signBits]) <= pk.lsgn)
  <2> HIDE DEF after, read, lines, n
  <2> QED BY <1>1, <1>5 DEF AddPacket, BytesOf
<1>7. /\ [k \in 1 .. n |-> read[k].m] = CountsSent(g, quantised, packet)
      /\ [k \in 1 .. n |-> lines[k].values] = ValuesSent(g, i, quantised, packet, t)
      /\ [k \in 1 .. n |-> read[k].sigBits] = sigs /\ [k \in 1 .. n |-> read[k].cntBits] = cnts
      /\ [k \in 1 .. n |-> DataBits(g, read[k].m, T(k))] = dats /\ [k \in 1 .. n |-> lines[k].signBits] = sgns
  <2>1. \A k \in 1 .. n : read[k] = R(k) /\ lines[k] = D(k)
    OBVIOUS
  <2>2. CountsSent(g, quantised, packet) = [k \in 1 .. n |-> CountsIn(L(k))]
    BY <1>1 DEF CountsSent
  <2>3. ValuesSent(g, i, quantised, packet, t) = [k \in 1 .. n |-> Dequantised(g, i, packet[k].band, L(k), T(k))]
    BY <1>1 DEF ValuesSent
  <2>4. /\ sigs = [k \in 1 .. n |-> sigs[k]] /\ cnts = [k \in 1 .. n |-> cnts[k]]
        /\ dats = [k \in 1 .. n |-> dats[k]] /\ sgns = [k \in 1 .. n |-> sgns[k]]
    OBVIOUS
  <2> HIDE DEF read, lines, R, D, L, T, n, sigs, cnts, dats, sgns
  <2>5. [k \in 1 .. n |-> read[k].m] = CountsSent(g, quantised, packet)
    BY <1>4, <2>1, <2>2
  <2>6. [k \in 1 .. n |-> lines[k].values] = ValuesSent(g, i, quantised, packet, t)
    BY <1>4, <2>1, <2>3
  <2>7. [k \in 1 .. n |-> read[k].sigBits] = sigs /\ [k \in 1 .. n |-> read[k].cntBits] = cnts
    BY <1>4, <2>1, <2>4
  <2>8. [k \in 1 .. n |-> DataBits(g, read[k].m, T(k))] = dats /\ [k \in 1 .. n |-> lines[k].signBits] = sgns
    BY <1>4, <2>1, <2>4
  <2> QED BY <2>5, <2>6, <2>7, <2>8
<1>8. Len(cnts) = n /\ Len(dats) = n /\ Len(sgns) = n /\ Len(sigs) = n
  OBVIOUS
<1>9. \A k \in 1 .. n : read[k].fits
  <2>1. \A k \in 1 .. n : read[k] = R(k)
    OBVIOUS
  <2> HIDE DEF read, R, n
  <2> QED BY <1>4, <2>1
<1>10. \A k \in 1 .. n : sigs[k] \in Nat
  <2> SUFFICES ASSUME NEW k \in 1 .. n PROVE sigs[k] \in Nat
    OBVIOUS
  <2>1. sigs[k] = Len(E(k).sig)
    OBVIOUS
  <2>2. Len(E(k).sig) \in Nat
    <3> DEFINE m == counts[packet[k].band][LineOf(g, packet[k])]
               b == packet[k].band
               top == Once(Predicted(d.vertical, b, LineOf(g, packet[k]), counts, t, state, DOMAIN m))
               flags == IF d.significance THEN Once(SignificanceFlags(g, i, b, m, top, t[b])) ELSE <<>>
    <3>1. E(k).sig = IF raw THEN <<>> ELSE flags
      BY DEF EncodeEntry, PredictedEntry
    <3>2. g.widths[i][b] \in Nat
      BY <1>1 DEF PacketReady, EntryReady
    <3>3. SignificanceGroups(g, i, b) \in Nat
      BY <3>2, FlagsCover
    <3>4. Once(SignificanceFlags(g, i, b, m, top, t[b])) = SignificanceFlags(g, i, b, m, top, t[b])
      BY OnceIs
    <3> DEFINE N == SignificanceGroups(g, i, b)
               F(j) == \A x \in DOMAIN m : x \div g.ss = j - 1 => Insignificant(g, m, top, t[b], x)
    <3>5. SignificanceFlags(g, i, b, m, top, t[b]) = [j \in 1 .. N |-> F(j)]
      BY DEF SignificanceFlags
    <3> HIDE DEF m, top, b, F, N
    <3>6. Len([j \in 1 .. N |-> F(j)]) = N
      BY <3>3 DEF N
    <3>7. Len(SignificanceFlags(g, i, b, m, top, t[b])) \in Nat
      BY <3>3, <3>5, <3>6 DEF N
    <3>8. Len(<<>>) = 0
      OBVIOUS
    <3> HIDE DEF E
    <3>9. flags = <<>> \/ flags = SignificanceFlags(g, i, b, m, top, t[b])
      BY <3>4
    <3> HIDE DEF flags
    <3> QED BY <3>1, <3>7, <3>8, <3>9
  <2> HIDE DEF E, sigs
  <2> QED BY <2>1, <2>2
<1> HIDE DEF read, lines, sigs, cnts, dats, sgns, after
<1>11. BytesOf(sigs) \in Nat /\ BytesOf(cnts) \in Nat /\ BytesOf(dats) \in Nat /\ BytesOf(sgns) \in Nat
  <2> HIDE DEF n
  <2> QED BY <1>1, <1>4, <1>8, <1>10, BytesOfNat
<1>12. PacketHeaderBytes(g) \in Nat
  BY DEF PacketHeaderBytes
<1>13. PacketBytes(g, pk) = PacketHeaderBytes(g) + pk.lsig + pk.lcnt + pk.ldat + pk.lsgn
  BY DEF PacketBytes
<1>14. after.used = acc.used + PacketBytes(g, pk) /\ PacketBytes(g, pk) \in Nat
  <2> DEFINE a == BytesOf(sigs)
             b == BytesOf(cnts)
             c == BytesOf(dats)
             e == BytesOf(sgns)
             f == PacketHeaderBytes(g)
             u == acc.used
  <2>1. after.used = u + f + a + b + c + e /\ PacketBytes(g, pk) = f + a + b + c + e
    BY <1>2, <1>6, <1>7, <1>13
  <2>2. a \in Nat /\ b \in Nat /\ c \in Nat /\ e \in Nat /\ f \in Nat /\ u \in Nat
    BY <1>11, <1>12
  <2> HIDE DEF a, b, c, e, f, u
  <2>3. u + f + a + b + c + e = u + (f + a + b + c + e) /\ f + a + b + c + e \in Nat
    BY <2>2
  <2> QED BY <2>1, <2>3 DEF u
<1>15. after.fits
  <2>1. BytesOf(cnts) <= pk.lcnt /\ BytesOf(dats) <= pk.ldat /\ BytesOf(sgns) <= pk.lsgn
    BY <1>2, <1>11
  <2> QED BY <1>6, <1>7, <1>9, <2>1
<1>16. PacketRead(g, i, packet, pk, quantised, t, acc, after)
  BY <1>6, <1>7, <1>14, <1>15 DEF PacketRead
<1> QED BY <1>16 DEF after

(* A packet carries whole lines of bands; every line of a precinct is in   *)
(* one of its packets, behind the packet with the line above it.           *)
Carries(g, packet, b, li) == \E k \in DOMAIN packet : packet[k].band = b /\ LineOf(g, packet[k]) = li
SentBy(g, i, s, b, li) == \E x \in 1 .. s : Carries(g, g.packets[i][x], b, li)
EntrySound(g, i, s, e) ==
    /\ e.band \in Bands(g) /\ LineOf(g, e) \in 0 .. Lines(g, i, e.band) - 1
    /\ LineOf(g, e) > 0 => SentBy(g, i, s - 1, e.band, LineOf(g, e) - 1)
LayoutSound(g, i) ==
    LET packets == g.packets[i]
    IN  /\ Len(packets) \in Nat /\ DOMAIN packets = 1 .. Len(packets)
        /\ \A s \in DOMAIN packets :
              /\ Len(packets[s]) \in Nat /\ DOMAIN packets[s] = 1 .. Len(packets[s])
              /\ \A k \in DOMAIN packets[s] : EntrySound(g, i, s, packets[s][k])
        /\ \A b \in Bands(g) : \A li \in 0 .. Lines(g, i, b) - 1 : SentBy(g, i, Len(packets), b, li)

(* A precinct as the encoder has quantised it, the state it predicts from, *)
(* and what the decoder has of it after s packets.                         *)
PrecinctFits(g, i, quantised, counts, t) ==
    \A b \in Bands(g) :
        /\ g.widths[i][b] \in Nat /\ Lines(g, i, b) \in Nat /\ t[b] \in 0 .. MaxCount(g)
        /\ \A li \in 0 .. Lines(g, i, b) - 1 : /\ LineFits(g, i, b, quantised[b][li], t[b])
                                               /\ counts[b][li] = CountsIn(quantised[b][li])
StateFits(g, i, state) ==
    \A b \in Bands(g) : Lines(g, i, b) > 0 => /\ state.mLast[b] \in LineCounts(g, i, b)
                                              /\ state.tAbove[b] \in 0 .. MaxCount(g)
(* Lines sent with the first s packets, the others as they were. *)
Filled(g, i, s, new, old) ==
    [b \in Bands(g) |-> [li \in 0 .. Lines(g, i, b) - 1 |-> IF SentBy(g, i, s, b, li) THEN new[b][li] ELSE old[b]]]
CountTable(g, i, quantised) ==
    [b \in Bands(g) |-> [li \in 0 .. Lines(g, i, b) - 1 |-> CountsIn(quantised[b][li])]]
ValueTable(g, i, quantised, t) ==
    [b \in Bands(g) |-> [li \in 0 .. Lines(g, i, b) - 1 |-> Dequantised(g, i, b, quantised[b][li], t[b])]]
NoCounts(g, i) == [b \in Bands(g) |-> [x \in Groups(g, i, b) |-> 0]]
NoValues(g, i) == [b \in Bands(g) |-> [x \in 0 .. g.widths[i][b] - 1 |-> 0]]
HasRead(g, i, s, quantised, t, used) ==
    [counts |-> Filled(g, i, s, CountTable(g, i, quantised), NoCounts(g, i)),
     out |-> Filled(g, i, s, ValueTable(g, i, quantised, t), NoValues(g, i)),
     used |-> used, fits |-> TRUE]

LEMMA SentGrows ==
    ASSUME NEW g, NEW i, NEW s \in Nat, NEW b, NEW li
    PROVE  SentBy(g, i, s + 1, b, li) <=> SentBy(g, i, s, b, li) \/ Carries(g, g.packets[i][s + 1], b, li)
<1>1. 1 .. s + 1 = (1 .. s) \cup {s + 1}
  OBVIOUS
<1> QED BY <1>1 DEF SentBy

LEMMA LinesPut ==
    ASSUME NEW g, NEW i, NEW s \in Nat, NEW new, NEW old, NEW sent,
           \A k \in DOMAIN g.packets[i][s + 1] :
               LET e == g.packets[i][s + 1][k] IN sent[k] = new[e.band][LineOf(g, e)]
    PROVE  PutLines(g, g.packets[i][s + 1], Filled(g, i, s, new, old), sent) = Filled(g, i, s + 1, new, old)
<1> DEFINE packet == g.packets[i][s + 1]
           all == Filled(g, i, s, new, old)
           at(b, li) == {k \in DOMAIN packet : packet[k].band = b /\ LineOf(g, packet[k]) = li}
           put(b, li) == IF at(b, li) = {} THEN all[b][li] ELSE sent[CHOOSE k \in at(b, li) : TRUE]
           read(b, li) == IF SentBy(g, i, s + 1, b, li) THEN new[b][li] ELSE old[b]
<1>1. ASSUME NEW b \in Bands(g), NEW li \in 0 .. Lines(g, i, b) - 1 PROVE put(b, li) = read(b, li)
  <2>1. all[b][li] = IF SentBy(g, i, s, b, li) THEN new[b][li] ELSE old[b]
    BY DEF Filled
  <2>2. Carries(g, packet, b, li) <=> at(b, li) # {}
    BY DEF Carries
  <2>3. CASE at(b, li) = {}
    <3> HIDE DEF all, at, packet
    <3>1. SentBy(g, i, s + 1, b, li) <=> SentBy(g, i, s, b, li)
      BY <2>2, <2>3, SentGrows DEF packet
    <3> QED BY <2>1, <2>3, <3>1
  <2>4. CASE at(b, li) # {}
    <3> DEFINE k == CHOOSE x \in at(b, li) : TRUE
    <3>1. k \in at(b, li)
      BY <2>4
    <3>2. k \in DOMAIN packet /\ packet[k].band = b /\ LineOf(g, packet[k]) = li
      <4> HIDE DEF k
      <4> QED BY <3>1
    <3>3. sent[k] = new[b][li]
      <4> HIDE DEF k
      <4> QED BY <3>2
    <3>4. SentBy(g, i, s + 1, b, li)
      <4> HIDE DEF packet, at
      <4> QED BY <2>2, <2>4, SentGrows DEF packet
    <3> HIDE DEF all, at, packet
    <3> QED BY <2>4, <3>3, <3>4 DEF k
  <2> QED BY <2>3, <2>4
<1>2. \A b \in Bands(g) : DOMAIN all[b] = 0 .. Lines(g, i, b) - 1
  BY DEF Filled
<1>3. PutLines(g, packet, all, sent) = [b \in Bands(g) |-> [li \in DOMAIN all[b] |-> put(b, li)]]
  BY DEF PutLines
<1>4. Filled(g, i, s + 1, new, old) = [b \in Bands(g) |-> [li \in 0 .. Lines(g, i, b) - 1 |-> read(b, li)]]
  BY DEF Filled
<1> HIDE DEF put, read, all
<1>5. \A b \in Bands(g) : [li \in DOMAIN all[b] |-> put(b, li)] = [li \in 0 .. Lines(g, i, b) - 1 |-> read(b, li)]
  <2> SUFFICES ASSUME NEW b \in Bands(g)
               PROVE  [li \in DOMAIN all[b] |-> put(b, li)] = [li \in 0 .. Lines(g, i, b) - 1 |-> read(b, li)]
    OBVIOUS
  <2>1. DOMAIN all[b] = 0 .. Lines(g, i, b) - 1
    BY <1>2
  <2> QED BY <1>1, <2>1
<1> HIDE DEF packet
<1>6. PutLines(g, packet, all, sent) = Filled(g, i, s + 1, new, old)
  BY <1>3, <1>4, <1>5, Zenon
<1> QED BY <1>6 DEF all, packet

(* One packet more.                                                        *)
EntriesFit(packet, pk) == \A k \in DOMAIN packet : pk.entries[k].fits
LEMMA PacketDone ==
    ASSUME NEW g, NEW i, NEW s \in Nat, NEW raw \in BOOLEAN, NEW d \in CodingBits, NEW quantised, NEW counts,
           NEW t, NEW state, NEW used \in Nat,
           Codable(g), LayoutSound(g, i), s + 1 \in DOMAIN g.packets[i], PrecinctFits(g, i, quantised, counts, t),
           d.vertical => StateFits(g, i, state),
           EntriesFit(g.packets[i][s + 1], EncodePacket(g, i, g.packets[i][s + 1], raw, d, quantised, counts, t, state))
    PROVE  LET packet == g.packets[i][s + 1]
               pk == EncodePacket(g, i, packet, raw, d, quantised, counts, t, state)
           IN  /\ DecodePacket(g, i, packet, pk, d, HasRead(g, i, s, quantised, t, used), t, state)
                  = HasRead(g, i, s + 1, quantised, t, used + PacketBytes(g, pk))
               /\ PacketBytes(g, pk) \in Nat
<1> DEFINE packet == g.packets[i][s + 1]
           pk == EncodePacket(g, i, packet, raw, d, quantised, counts, t, state)
           acc == HasRead(g, i, s, quantised, t, used)
           after == DecodePacket(g, i, packet, pk, d, acc, t, state)
           table == CountTable(g, i, quantised)
<1>1. /\ Len(packet) \in Nat /\ DOMAIN packet = 1 .. Len(packet)
      /\ \A k \in DOMAIN packet : EntrySound(g, i, s + 1, packet[k])
  BY DEF LayoutSound
<1>2. acc.used = used /\ acc.fits /\ acc.counts = Filled(g, i, s, table, NoCounts(g, i))
      /\ acc.out = Filled(g, i, s, ValueTable(g, i, quantised, t), NoValues(g, i))
  BY DEF HasRead
<1>3. ASSUME NEW k \in DOMAIN packet
      PROVE  /\ EntryReady(g, i, packet[k], d, quantised, counts, acc.counts, t, state)
             /\ CountsSent(g, quantised, packet)[k] = table[packet[k].band][LineOf(g, packet[k])]
             /\ ValuesSent(g, i, quantised, packet, t)[k]
                = ValueTable(g, i, quantised, t)[packet[k].band][LineOf(g, packet[k])]
  <2> DEFINE b == packet[k].band
             li == LineOf(g, packet[k])
  <2>1. b \in Bands(g) /\ li \in 0 .. Lines(g, i, b) - 1 /\ (li > 0 => SentBy(g, i, s, b, li - 1))
    <3>1. EntrySound(g, i, s + 1, packet[k]) /\ (s + 1) - 1 = s
      BY <1>1
    <3> HIDE DEF packet
    <3> QED BY <3>1 DEF EntrySound
  <2>2. /\ g.widths[i][b] \in Nat /\ Lines(g, i, b) \in Nat /\ t[b] \in 0 .. MaxCount(g)
        /\ \A l \in 0 .. Lines(g, i, b) - 1 : /\ LineFits(g, i, b, quantised[b][l], t[b])
                                              /\ counts[b][l] = CountsIn(quantised[b][l])
    <3> HIDE DEF b
    <3> QED BY <2>1 DEF PrecinctFits
  <2>3. table[b][li] = CountsIn(quantised[b][li])
        /\ ValueTable(g, i, quantised, t)[b][li] = Dequantised(g, i, b, quantised[b][li], t[b])
    <3> HIDE DEF b, li
    <3> QED BY <2>1 DEF CountTable, ValueTable
  <2>4. ASSUME d.vertical
        PROVE  /\ PredictorFits(g, i, b, li, counts, t, state)
               /\ Predictor(b, li, acc.counts, t, state) = Predictor(b, li, counts, t, state)
    <3> HIDE DEF b, li, acc, table
    <3>1. CASE li = 0
      <4>1. \A other : Predictor(b, li, other, t, state) = [top |-> state.mLast[b], t |-> state.tAbove[b]]
        BY <3>1 DEF Predictor
      <4>2. state.mLast[b] \in LineCounts(g, i, b) /\ state.tAbove[b] \in 0 .. MaxCount(g)
        BY <2>1, <2>2, <2>4, <3>1 DEF StateFits
      <4> QED BY <4>1, <4>2 DEF PredictorFits
    <3>2. CASE li # 0
      <4>1. \A other : Predictor(b, li, other, t, state) = [top |-> other[b][li - 1], t |-> t[b]]
        BY <3>2 DEF Predictor
      <4>2. li - 1 \in 0 .. Lines(g, i, b) - 1 /\ li > 0
        BY <2>1, <2>2, <3>2
      <4>3. counts[b][li - 1] = CountsIn(quantised[b][li - 1]) /\ LineFits(g, i, b, quantised[b][li - 1], t[b])
        BY <2>2, <4>2
      <4>4. acc.counts[b][li - 1] = counts[b][li - 1]
        <5>1. acc.counts[b][li - 1] = table[b][li - 1]
          BY <1>2, <2>1, <4>2 DEF Filled
        <5>2. table[b][li - 1] = CountsIn(quantised[b][li - 1])
          BY <2>1, <4>2 DEF CountTable, table
        <5> QED BY <4>3, <5>1, <5>2
      <4>5. counts[b][li - 1] \in LineCounts(g, i, b)
        <5> DEFINE line == quantised[b][li - 1]
        <5>1. DOMAIN line = Groups(g, i, b) /\ \A x \in Groups(g, i, b) : line[x].m \in t[b] .. MaxCount(g)
          BY <4>3 DEF LineFits, GroupFits
        <5> HIDE DEF line
        <5>2. MaxCount(g) \in 0 .. 31
          BY CountBounds
        <5>3. \A x \in Groups(g, i, b) : line[x].m \in 0 .. MaxCount(g)
          BY <2>2, <5>1, <5>2
        <5>4. CountsIn(line) \in LineCounts(g, i, b)
          BY <5>1, <5>3 DEF CountsIn, LineCounts
        <5> QED BY <4>3, <5>4 DEF line
      <4> QED BY <2>2, <4>1, <4>4, <4>5 DEF PredictorFits
    <3> QED BY <3>1, <3>2
  <2>5. CountsSent(g, quantised, packet)[k] = CountsIn(quantised[b][li])
        /\ ValuesSent(g, i, quantised, packet, t)[k] = Dequantised(g, i, b, quantised[b][li], t[b])
    BY DEF CountsSent, ValuesSent, LineSent
  <2>6. EntryReady(g, i, packet[k], d, quantised, counts, acc.counts, t, state)
    <3> HIDE DEF acc, packet
    <3> QED BY <2>1, <2>2, <2>4 DEF EntryReady
  <2> QED BY <2>3, <2>5, <2>6
<1>4. PacketReady(g, i, packet, d, quantised, counts, acc.counts, t, state)
  <2> HIDE DEF packet, acc
  <2> QED BY <1>1, <1>3 DEF PacketReady
<1>5. DOMAIN pk.entries = DOMAIN packet
  <2>1. pk.entries = Once(EncodeCounts(g, i, packet, raw, d, counts, t, state))
    BY DEF EncodePacket, Packet
  <2>2. pk.entries = EncodeCounts(g, i, packet, raw, d, counts, t, state)
    <3> HIDE DEF pk, packet
    <3> QED BY <2>1, OnceIs
  <2>3. DOMAIN pk.entries = 1 .. Len(packet)
    <3> HIDE DEF pk, packet
    <3> QED BY <2>2 DEF EncodeCounts
  <2> HIDE DEF pk, packet
  <2> QED BY <1>1, <2>3
<1>6. PacketRead(g, i, packet, pk, quantised, t, acc, after)
  <2>1. \A k \in DOMAIN pk.entries : pk.entries[k].fits
    <3>1. \A k \in DOMAIN packet : pk.entries[k].fits
      BY DEF EntriesFit
    <3> HIDE DEF pk, packet
    <3> QED BY <1>5, <3>1
  <2>2. pk = EncodePacket(g, i, packet, raw, d, quantised, counts, t, state) /\ acc.used \in Nat /\ acc.fits
    BY <1>2
  <2> HIDE DEF pk, packet, acc
  <2> QED BY <1>4, <2>1, <2>2, PacketFollows DEF after
<1>7. /\ PutLines(g, packet, acc.counts, CountsSent(g, quantised, packet))
         = Filled(g, i, s + 1, table, NoCounts(g, i))
      /\ PutLines(g, packet, acc.out, ValuesSent(g, i, quantised, packet, t))
         = Filled(g, i, s + 1, ValueTable(g, i, quantised, t), NoValues(g, i))
  <2> HIDE DEF acc, table
  <2>1. \A k \in DOMAIN g.packets[i][s + 1] :
            CountsSent(g, quantised, packet)[k]
            = table[g.packets[i][s + 1][k].band][LineOf(g, g.packets[i][s + 1][k])]
    BY <1>3
  <2>2. \A k \in DOMAIN g.packets[i][s + 1] :
            ValuesSent(g, i, quantised, packet, t)[k]
            = ValueTable(g, i, quantised, t)[g.packets[i][s + 1][k].band][LineOf(g, g.packets[i][s + 1][k])]
    BY <1>3
  <2> DEFINE cs == CountsSent(g, quantised, packet)
             vs == ValuesSent(g, i, quantised, packet, t)
             values == ValueTable(g, i, quantised, t)
             c0 == NoCounts(g, i)
             v0 == NoValues(g, i)
  <2>3. PutLines(g, packet, Filled(g, i, s, table, c0), cs) = Filled(g, i, s + 1, table, c0)
    <3> HIDE DEF cs, c0
    <3> QED BY <2>1, LinesPut DEF cs
  <2>4. PutLines(g, packet, Filled(g, i, s, values, v0), vs) = Filled(g, i, s + 1, values, v0)
    <3> HIDE DEF vs, v0, values
    <3> QED BY <2>2, LinesPut DEF vs, values
  <2> QED BY <1>2, <2>3, <2>4
<1>8. after.counts = Filled(g, i, s + 1, table, NoCounts(g, i))
      /\ after.out = Filled(g, i, s + 1, ValueTable(g, i, quantised, t), NoValues(g, i))
      /\ after.used = used + PacketBytes(g, pk) /\ PacketBytes(g, pk) \in Nat /\ after.fits
  <2> HIDE DEF after, acc, pk, packet, table
  <2> QED BY <1>2, <1>6, <1>7 DEF PacketRead
<1>9. after = [counts |-> after.counts, out |-> after.out, used |-> after.used, fits |-> TRUE]
  <2> DEFINE rs == Once([k \in DOMAIN packet |->
                       DecodeEntry(g, i, packet[k], pk.entries[k], pk.raw, d, acc.counts, t, state)])
             ls == Once([k \in DOMAIN packet |->
                       DecodeLine(g, i, packet[k].band, rs[k].m, t[packet[k].band], pk.dat[k], pk.sgn[k])])
  <2>1. after = AddPacket(g, packet, pk, acc, rs, ls, t)
    BY DEF DecodePacket
  <2> HIDE DEF after, acc, pk, packet, rs, ls
  <2>2. after.fits = TRUE
    <3>1. after.fits \in BOOLEAN
      BY <2>1 DEF AddPacket
    <3> QED BY <1>8, <3>1
  <2>3. after = [counts |-> after.counts, out |-> after.out, used |-> after.used, fits |-> after.fits]
    BY <2>1 DEF AddPacket
  <2> QED BY <2>2, <2>3
<1>10. after = HasRead(g, i, s + 1, quantised, t, used + PacketBytes(g, pk))
  <2> HIDE DEF after, acc, pk, packet
  <2> QED BY <1>8, <1>9 DEF HasRead
<1> QED BY <1>8, <1>10

(* All the packets of a precinct.                                          *)
LEMMA PacketsFollow ==
    ASSUME NEW g, NEW i, NEW R, NEW d \in CodingBits, NEW quantised, NEW counts, NEW t, NEW state, NEW precinct,
           Codable(g), LayoutSound(g, i), PrecinctFits(g, i, quantised, counts, t),
           d.vertical => StateFits(g, i, state),
           precinct.packets = EncodePackets(g, i, R, d, quantised, counts, t, state), precinct.d = d,
           \A s \in DOMAIN precinct.packets :
               \A k \in DOMAIN precinct.packets[s].entries : precinct.packets[s].entries[k].fits
    PROVE  LET n == Len(g.packets[i])
               bytes == Total([s \in DOMAIN precinct.packets |-> PacketBytes(g, precinct.packets[s])])
           IN  DecodePackets(g, i, precinct, HasRead(g, i, 0, quantised, t, 0), t, state)
               = HasRead(g, i, n, quantised, t, bytes)
<1> DEFINE packets == g.packets[i]
           n == Len(packets)
           pk(s) == EncodePacket(g, i, packets[s], s \in R, d, quantised, counts, t, state)
           seq == [s \in 1 .. n |-> PacketBytes(g, pk(s))]
           start == HasRead(g, i, 0, quantised, t, 0)
<1>1. n \in Nat /\ DOMAIN packets = 1 .. n
  BY DEF LayoutSound
<1>2. precinct.packets = [s \in 1 .. n |-> pk(s)]
  BY <1>1 DEF EncodePackets
<1>3. \A s \in 1 .. n : precinct.packets[s] = pk(s)
  <2> HIDE DEF n, pk
  <2> QED BY <1>2
<1>4. ASSUME NEW s \in 0 .. n - 1, NEW used \in Nat
      PROVE  /\ DecodePacket(g, i, packets[s + 1], pk(s + 1), d, HasRead(g, i, s, quantised, t, used), t, state)
                = HasRead(g, i, s + 1, quantised, t, used + PacketBytes(g, pk(s + 1)))
             /\ PacketBytes(g, pk(s + 1)) \in Nat
  <2>1. s \in Nat /\ s + 1 \in 1 .. n
    BY <1>1
  <2>2. \A k \in DOMAIN pk(s + 1).entries : pk(s + 1).entries[k].fits
    <3>1. DOMAIN precinct.packets = 1 .. n
      <4> HIDE DEF n, pk
      <4> QED BY <1>2
    <3>2. \A k \in DOMAIN precinct.packets[s + 1].entries : precinct.packets[s + 1].entries[k].fits
      BY <2>1, <3>1
    <3>3. precinct.packets[s + 1] = pk(s + 1)
      BY <1>3, <2>1
    <3> HIDE DEF pk, n
    <3> QED BY <3>2, <3>3
  <2>3. \A k \in DOMAIN packets[s + 1] : pk(s + 1).entries[k].fits
    <3>1. pk(s + 1).entries = Once(EncodeCounts(g, i, packets[s + 1], s + 1 \in R, d, counts, t, state))
      BY DEF EncodePacket, Packet
    <3>2. DOMAIN EncodeCounts(g, i, packets[s + 1], s + 1 \in R, d, counts, t, state) = 1 .. Len(packets[s + 1])
      BY DEF EncodeCounts
    <3>3. DOMAIN packets[s + 1] = 1 .. Len(packets[s + 1])
      BY <1>1, <2>1 DEF LayoutSound
    <3> HIDE DEF pk, packets, n
    <3> QED BY <2>2, <3>1, <3>2, <3>3, OnceIs
  <2>4. s + 1 \in DOMAIN g.packets[i] /\ (s + 1 \in R) \in BOOLEAN
    BY <1>1, <2>1
  <2> DEFINE raw == s + 1 \in R
  <2>5. raw \in BOOLEAN /\ pk(s + 1) = EncodePacket(g, i, g.packets[i][s + 1], raw, d, quantised, counts, t, state)
    OBVIOUS
  <2> HIDE DEF n, raw, pk
  <2>6. EntriesFit(g.packets[i][s + 1], EncodePacket(g, i, g.packets[i][s + 1], raw, d, quantised, counts, t, state))
    BY <2>3, <2>5 DEF EntriesFit
  <2>7. /\ DecodePacket(g, i, packets[s + 1], pk(s + 1), d, HasRead(g, i, s, quantised, t, used), t, state)
           = HasRead(g, i, s + 1, quantised, t, used + PacketBytes(g, pk(s + 1)))
        /\ PacketBytes(g, pk(s + 1)) \in Nat
    BY <2>1, <2>4, <2>5, <2>6, PacketDone
  <2> QED BY <2>7
<1>5. \A s \in 1 .. n : PacketBytes(g, pk(s)) \in Nat
  <2> SUFFICES ASSUME NEW s \in 1 .. n PROVE PacketBytes(g, pk(s)) \in Nat
    OBVIOUS
  <2>1. s - 1 \in 0 .. n - 1 /\ (s - 1) + 1 = s /\ 0 \in Nat
    BY <1>1
  <2> HIDE DEF pk, n
  <2>2. PacketBytes(g, pk((s - 1) + 1)) \in Nat
    BY <1>4, <2>1
  <2> QED BY <2>1, <2>2
<1>6. Len(seq) = n /\ \A s \in 1 .. n : seq[s] = PacketBytes(g, pk(s))
  <2>1. seq = [s \in 1 .. n |-> seq[s]] /\ \A s \in 1 .. n : seq[s] = PacketBytes(g, pk(s))
    OBVIOUS
  <2> HIDE DEF seq, n, pk
  <2> QED BY <1>1, <2>1, IsSequence
<1>7. PICK sum : IsSum(sum, n, seq) /\ Total(seq) = sum[n]
  <2>1. \A s \in 1 .. n : seq[s] \in Int
    <3> HIDE DEF seq, n, pk
    <3> QED BY <1>5, <1>6
  <2> HIDE DEF seq, n
  <2> QED BY <1>1, <1>6, <2>1, RunningSum
<1>8. /\ \A s \in 0 .. n : sum[s] \in Nat
      /\ sum[0] = 0 /\ \A s \in 1 .. n : sum[s] = sum[s - 1] + PacketBytes(g, pk(s))
  <2> HIDE DEF seq, pk, n
  <2>1. sum[0] = 0 /\ \A s \in 1 .. n : sum[s] = sum[s - 1] + PacketBytes(g, pk(s))
    BY <1>6, <1>7 DEF IsSum
  <2> DEFINE A == {s \in 0 .. n : sum[s] \in Nat}
  <2>2. 0 \in A
    BY <1>1, <2>1
  <2>3. \A s \in 0 .. n - 1 : s \in A => s + 1 \in A
    <3> SUFFICES ASSUME NEW s \in 0 .. n - 1, sum[s] \in Nat PROVE sum[s + 1] \in Nat /\ s + 1 \in 0 .. n
      OBVIOUS
    <3>1. s + 1 \in 1 .. n /\ (s + 1) - 1 = s
      BY <1>1
    <3>2. sum[s + 1] = sum[s] + PacketBytes(g, pk(s + 1))
      BY <2>1, <3>1
    <3> QED BY <1>1, <1>5, <3>1, <3>2
  <2> HIDE DEF A
  <2>4. 0 .. n \subseteq A
    BY <1>1, <2>2, <2>3, UpTo
  <2> QED BY <2>1, <2>4 DEF A
<1> DEFINE A(s) == HasRead(g, i, s, quantised, t, sum[s])
           Fetched(f, s) == DecodePacket(g, i, packets[s], precinct.packets[s], precinct.d, Once(f[s - 1]), t, state)
           Runs(f) == f = [s \in 0 .. n |-> IF s = 0 THEN start ELSE Fetched(f, s)]
           upto == CHOOSE f : Runs(f)
<1>9. \A s \in 1 .. n : /\ A(s) = DecodePacket(g, i, packets[s], precinct.packets[s], precinct.d, Once(A(s - 1)), t, state)
  <2> SUFFICES ASSUME NEW s \in 1 .. n
               PROVE  A(s) = DecodePacket(g, i, packets[s], precinct.packets[s], precinct.d, Once(A(s - 1)), t, state)
    OBVIOUS
  <2>1. s - 1 \in 0 .. n - 1 /\ (s - 1) + 1 = s /\ s - 1 \in 0 .. n
    BY <1>1
  <2>2. Once(A(s - 1)) = A(s - 1) /\ precinct.d = d /\ precinct.packets[s] = pk(s)
    <3> HIDE DEF A, pk
    <3> QED BY <1>3, OnceIs
  <2>3. sum[s - 1] \in Nat /\ sum[s] = sum[s - 1] + PacketBytes(g, pk(s))
    <3> HIDE DEF pk
    <3> QED BY <1>8, <2>1
  <2>4. DecodePacket(g, i, packets[s], pk(s), d, A(s - 1), t, state)
        = HasRead(g, i, s, quantised, t, sum[s - 1] + PacketBytes(g, pk(s)))
    <3>1. PICK x : x = s - 1
      OBVIOUS
    <3>2. x \in 0 .. n - 1 /\ x + 1 = s /\ sum[x] \in Nat
      BY <2>1, <2>3, <3>1
    <3> HIDE DEF pk, packets, n
    <3>3. DecodePacket(g, i, packets[x + 1], pk(x + 1), d, HasRead(g, i, x, quantised, t, sum[x]), t, state)
          = HasRead(g, i, x + 1, quantised, t, sum[x] + PacketBytes(g, pk(x + 1)))
      BY <1>4, <3>2
    <3> QED BY <3>1, <3>2, <3>3
  <2>5. A(s) = HasRead(g, i, s, quantised, t, sum[s - 1] + PacketBytes(g, pk(s)))
    BY <2>3
  <2> HIDE DEF A, pk, packets
  <2> QED BY <2>2, <2>4, <2>5
<1>10. A(0) = start
  BY <1>8
<1>11. Runs(upto)
  <2> DEFINE f == [s \in 0 .. n |-> A(s)]
  <2>1. \A s \in 1 .. n : f[s] = A(s) /\ f[s - 1] = A(s - 1)
    <3>1. \A s \in 1 .. n : s \in 0 .. n /\ s - 1 \in 0 .. n
      BY <1>1
    <3> HIDE DEF n, A
    <3> QED BY <3>1
  <2>2. \A s \in 0 .. n : f[s] = IF s = 0 THEN start ELSE Fetched(f, s)
    <3> SUFFICES ASSUME NEW s \in 0 .. n PROVE f[s] = IF s = 0 THEN start ELSE Fetched(f, s)
      OBVIOUS
    <3>1. CASE s = 0
      <4>1. f[0] = A(0)
        BY <3>1
      <4> HIDE DEF f, A, Fetched
      <4> QED BY <1>10, <3>1, <4>1
    <3>2. CASE s \in 1 .. n
      <4>1. f[s] = A(s) /\ f[s - 1] = A(s - 1) /\ s # 0
        BY <2>1, <3>2
      <4> HIDE DEF f, A
      <4>2. Fetched(f, s) = A(s)
        BY <1>9, <3>2, <4>1
      <4> HIDE DEF Fetched
      <4> QED BY <4>1, <4>2
    <3> HIDE DEF f, A, Fetched
    <3> QED BY <1>1, <3>1, <3>2
  <2>3. f = [s \in 0 .. n |-> f[s]]
    OBVIOUS
  <2>4. Runs(f)
    <3> HIDE DEF f, Fetched, n, start
    <3>1. [s \in 0 .. n |-> f[s]] = [s \in 0 .. n |-> IF s = 0 THEN start ELSE Fetched(f, s)]
      BY <2>2
    <3> QED BY <2>3, <3>1
  <2> HIDE DEF Runs, f
  <2> QED BY <2>4
<1>12. upto[0] = start /\ \A s \in 1 .. n : upto[s] = Fetched(upto, s)
  <2>1. 0 \in 0 .. n /\ \A s \in 1 .. n : s \in 0 .. n /\ s # 0
    BY <1>1
  <2> HIDE DEF upto, Fetched, start, n
  <2>2. upto = [s \in 0 .. n |-> IF s = 0 THEN start ELSE Fetched(upto, s)]
    BY <1>11
  <2> DEFINE body(s) == IF s = 0 THEN start ELSE Fetched(upto, s)
  <2>3. \A s \in 0 .. n : upto[s] = body(s)
    <3>1. upto = [s \in 0 .. n |-> body(s)]
      BY <2>2
    <3> HIDE DEF body
    <3> QED BY <3>1
  <2> QED BY <2>1, <2>3
<1>13. upto[n] = A(n)
  <2> HIDE DEF upto, start, n
  <2> DEFINE B == {s \in 0 .. n : upto[s] = A(s)}
  <2>1. 0 \in B
    <3> HIDE DEF A
    <3> QED BY <1>1, <1>10, <1>12
  <2>2. \A s \in 0 .. n - 1 : s \in B => s + 1 \in B
    <3> SUFFICES ASSUME NEW s \in 0 .. n - 1, upto[s] = A(s) PROVE upto[s + 1] = A(s + 1) /\ s + 1 \in 0 .. n
      OBVIOUS
    <3>1. s + 1 \in 1 .. n /\ (s + 1) - 1 = s /\ s + 1 \in 0 .. n
      BY <1>1
    <3>2. upto[s + 1] = Fetched(upto, s + 1)
      BY <1>12, <3>1, Zenon
    <3> HIDE DEF A
    <3>3. Fetched(upto, s + 1) = DecodePacket(g, i, packets[s + 1], precinct.packets[s + 1], precinct.d, Once(A(s)), t, state)
      BY <3>1
    <3>4. A(s + 1) = DecodePacket(g, i, packets[s + 1], precinct.packets[s + 1], precinct.d, Once(A((s + 1) - 1)), t, state)
      BY <1>9, <3>1, Zenon
    <3> HIDE DEF Fetched
    <3> QED BY <3>1, <3>2, <3>3, <3>4
  <2> HIDE DEF B, A
  <2>3. 0 .. n \subseteq B
    BY <1>1, <2>1, <2>2, UpTo
  <2>4. n \in 0 .. n
    BY <1>1
  <2> QED BY <2>3, <2>4 DEF B
<1>14. DecodePackets(g, i, precinct, start, t, state) = upto[n]
  BY DEF DecodePackets
<1>15. sum[n] = Total([s \in DOMAIN precinct.packets |-> PacketBytes(g, precinct.packets[s])])
  <2>1. [s \in DOMAIN precinct.packets |-> PacketBytes(g, precinct.packets[s])] = seq
    <3>1. DOMAIN precinct.packets = 1 .. n
      <4> HIDE DEF n, pk
      <4> QED BY <1>2
    <3> HIDE DEF n, pk
    <3> QED BY <1>3, <3>1
  <2> HIDE DEF seq
  <2> QED BY <1>7, <2>1
<1> HIDE DEF upto, start
<1> QED BY <1>13, <1>14, <1>15 DEF start

(* The sum phi + phi / w + phi / w^2 + ..., of whole quotients.            *)
Base(w) == w \in Nat /\ w >= 2 /\ \A k \in Nat : Divides(k, w)
IsSeries(f, w, D) == \A k \in D : f[k] = IF k = 0 THEN 0 ELSE k + f[k \div w]
LEMMA SmallerQuotient ==
    ASSUME NEW w, Base(w), NEW k \in Nat \ {0}
    PROVE  k \div w \in 0 .. k - 1 /\ w * (k \div w) <= k
<1> DEFINE q == k \div w
<1>1. q \in Nat /\ q * w <= k /\ w \in Nat /\ w >= 2
  BY DEF Base, Divides
<1> HIDE DEF q
<1>2. q * 2 <= q * w /\ q * w = w * q
  BY <1>1
<1>3. PICK x \in Nat : x = q * w
  BY <1>1
<1>4. q < k /\ w * q <= k
  BY <1>1, <1>2, <1>3
<1> QED BY <1>1, <1>4 DEF q

LEMMA SeriesAgree ==
    ASSUME NEW w, Base(w), NEW n \in Nat, NEW m \in Nat, NEW f, NEW other, IsSeries(f, w, 0 .. n), IsSeries(other, w, 0 .. m)
    PROVE  \A k \in 0 .. n : k <= m => f[k] = other[k]
<1> DEFINE Same(j) == j <= n /\ j <= m => f[j] = other[j]
           A == {k \in Nat : \A j \in 0 .. k : Same(j)}
<1>1. 0 \in A
  <2>1. f[0] = 0 /\ other[0] = 0
    BY DEF IsSeries
  <2> QED BY <2>1
<1>2. \A k \in Nat : k \in A => k + 1 \in A
  <2> SUFFICES ASSUME NEW k \in Nat, k \in A PROVE k + 1 \in A
    OBVIOUS
  <2>1. \A j \in 0 .. k : Same(j)
    BY Zenon
  <2>2. Same(k + 1)
    <3> SUFFICES ASSUME k + 1 <= n, k + 1 <= m PROVE f[k + 1] = other[k + 1]
      OBVIOUS
    <3> DEFINE q == (k + 1) \div w
    <3>1. k + 1 \in Nat \ {0} /\ (k + 1) - 1 = k
      OBVIOUS
    <3>2. q \in 0 .. k
      <4>1. PICK x \in Nat \ {0} : x = k + 1 /\ x - 1 = k
        BY <3>1
      <4>2. x \div w \in 0 .. x - 1
        BY SmallerQuotient
      <4> QED BY <4>1, <4>2
    <3>3. k + 1 \in 0 .. n /\ k + 1 \in 0 .. m /\ k + 1 # 0
      OBVIOUS
    <3>4. f[k + 1] = (k + 1) + f[q] /\ other[k + 1] = (k + 1) + other[q]
      BY <3>3 DEF IsSeries
    <3> HIDE DEF q
    <3>5. Same(q) /\ q <= n /\ q <= m
      BY <2>1, <3>2
    <3> QED BY <3>4, <3>5
  <2>3. 0 .. k + 1 = (0 .. k) \cup {k + 1}
    OBVIOUS
  <2> HIDE DEF Same
  <2> QED BY <2>1, <2>2, <2>3
<1> HIDE DEF A
<1>3. Nat \subseteq A
  BY <1>1, <1>2, SetInduction
<1> SUFFICES ASSUME NEW k \in 0 .. n, k <= m PROVE f[k] = other[k]
  OBVIOUS
<1>4. k \in A /\ k \in 0 .. k
  BY <1>3
<1>5. Same(k)
  BY <1>4 DEF A
<1> QED BY <1>5

LEMMA SeriesExists ==
    ASSUME NEW w, Base(w)
    PROVE  \E f : f = [k \in Nat |-> IF k = 0 THEN 0 ELSE k + f[k \div w]]
<1> DEFINE A == {n \in Nat : \E f : IsSeries(f, w, 0 .. n)}
           First(n) == CHOOSE f : IsSeries(f, w, 0 .. n)
           series == [n \in Nat |-> First(n)[n]]
<1>1. 0 \in A
  <2> DEFINE f == [k \in 0 .. 0 |-> 0]
  <2>1. f[0] = 0 /\ \A k \in 0 .. 0 : k = 0
    OBVIOUS
  <2> HIDE DEF f
  <2> QED BY <2>1 DEF IsSeries
<1>2. ASSUME NEW n \in Nat, n \in A PROVE n + 1 \in A
  <2>1. PICK f : IsSeries(f, w, 0 .. n)
    BY <1>2
  <2> DEFINE next == (n + 1) + f[(n + 1) \div w]
             r == [k \in 0 .. n + 1 |-> IF k = n + 1 THEN next ELSE f[k]]
  <2>2. \A k \in 0 .. n : r[k] = f[k]
    OBVIOUS
  <2>3. r[n + 1] = next
    OBVIOUS
  <2>4. ASSUME NEW k \in 0 .. n + 1 PROVE r[k] = IF k = 0 THEN 0 ELSE k + r[k \div w]
    <3> HIDE DEF r
    <3>1. CASE k = 0
      BY <2>1, <2>2, <3>1 DEF IsSeries
    <3>2. CASE k # 0
      <4>1. k \in Nat \ {0}
        BY <3>2
      <4>2. PICK q : q = k \div w
        OBVIOUS
      <4>3. q \in 0 .. k - 1
        BY <4>1, <4>2, SmallerQuotient
      <4>4. q \in 0 .. n
        BY <4>3
      <4>5. r[q] = f[q]
        BY <2>2, <4>4
      <4>6. CASE k = n + 1
        BY <2>3, <3>2, <4>2, <4>5, <4>6
      <4>7. CASE k # n + 1
        <5>1. k \in 0 .. n
          BY <4>7
        <5>2. r[k] = f[k] /\ f[k] = k + f[q]
          BY <2>1, <2>2, <3>2, <4>2, <5>1 DEF IsSeries
        <5> QED BY <3>2, <4>2, <4>5, <5>2
      <4> QED BY <4>6, <4>7
    <3> QED BY <3>1, <3>2
  <2> HIDE DEF r
  <2> QED BY <2>4 DEF IsSeries
<1>3. \A n \in Nat : IsSeries(First(n), w, 0 .. n)
  <2> HIDE DEF A
  <2>1. Nat \subseteq A
    BY <1>1, <1>2, SetInduction
  <2> SUFFICES ASSUME NEW n \in Nat PROVE IsSeries(First(n), w, 0 .. n)
    OBVIOUS
  <2>2. \E f : IsSeries(f, w, 0 .. n)
    BY <2>1 DEF A
  <2> QED BY <2>2
<1> HIDE DEF First
<1>4. ASSUME NEW k \in Nat PROVE series[k] = IF k = 0 THEN 0 ELSE k + series[k \div w]
  <2>1. IsSeries(First(k), w, 0 .. k) /\ series[k] = First(k)[k] /\ k \in 0 .. k
    BY <1>3
  <2>2. CASE k = 0
    BY <2>1, <2>2 DEF IsSeries
  <2>3. CASE k # 0
    <3>1. PICK q : q = k \div w
      OBVIOUS
    <3>2. k \in Nat \ {0}
      BY <2>3
    <3>3. q \in 0 .. k - 1
      BY <3>1, <3>2, SmallerQuotient
    <3>4. q \in Nat /\ q \in 0 .. q /\ q <= k
      BY <3>3
    <3>5. IsSeries(First(q), w, 0 .. q) /\ series[q] = First(q)[q]
      BY <1>3, <3>4
    <3>6. First(q)[q] = First(k)[q]
      BY <2>1, <3>4, <3>5, SeriesAgree
    <3>7. First(k)[k] = k + First(k)[q]
      BY <2>1, <2>3, <3>1 DEF IsSeries
    <3> HIDE DEF series
    <3> QED BY <2>1, <2>3, <3>1, <3>5, <3>6, <3>7
  <2> QED BY <2>2, <2>3
<1>5. series = [k \in Nat |-> series[k]]
  OBVIOUS
<1> HIDE DEF series
<1>6. [k \in Nat |-> series[k]] = [k \in Nat |-> IF k = 0 THEN 0 ELSE k + series[k \div w]]
  BY <1>4
<1> QED BY <1>5, <1>6

(* It lies between phi and phi w / (w - 1).                                *)
LEMMA SeriesBounds ==
    ASSUME NEW w, Base(w), NEW f, f = [k \in Nat |-> IF k = 0 THEN 0 ELSE k + f[k \div w]]
    PROVE  \A k \in Nat : f[k] \in Nat /\ k <= f[k] /\ (w - 1) * f[k] <= w * k
<1> DEFINE Bounded(j) == f[j] \in Nat /\ j <= f[j] /\ (w - 1) * f[j] <= w * j
           A == {k \in Nat : \A j \in 0 .. k : Bounded(j)}
<1>0. \A k \in Nat : f[k] = IF k = 0 THEN 0 ELSE k + f[k \div w]
  OBVIOUS
<1>w. w \in Nat /\ w >= 2
  BY DEF Base
<1>1. 0 \in A
  <2>1. f[0] = 0
    BY <1>0
  <2> QED BY <1>w, <2>1
<1>2. \A k \in Nat : k \in A => k + 1 \in A
  <2> SUFFICES ASSUME NEW k \in Nat, k \in A PROVE k + 1 \in A
    OBVIOUS
  <2>1. \A j \in 0 .. k : Bounded(j)
    BY Zenon
  <2>2. Bounded(k + 1)
    <3>1. PICK x \in Nat \ {0} : x = k + 1 /\ x - 1 = k
      OBVIOUS
    <3>2. PICK q : q = x \div w
      OBVIOUS
    <3>3. q \in 0 .. k /\ w * q <= x
      BY <3>1, <3>2, SmallerQuotient
    <3>4. f[x] = x + f[q]
      BY <1>0, <3>2
    <3>5. Bounded(q)
      BY <2>1, <3>3
    <3>6. PICK y \in Nat : y = f[q] /\ (w - 1) * y <= w * q
      BY <3>5
    <3>7. (w - 1) * (x + y) = (w - 1) * x + (w - 1) * y /\ w * x = (w - 1) * x + x
      BY <1>w
    <3>8. (w - 1) * (x + y) <= w * x
      <4> DEFINE a == (w - 1) * x
                 b == (w - 1) * y
                 c == w * q
      <4>1. a \in Int /\ b \in Int /\ c \in Int
        BY <1>w, <3>3
      <4> HIDE DEF a, b, c
      <4>2. a + b <= a + x
        BY <3>3, <3>6, <4>1 DEF b, c
      <4> QED BY <3>7, <4>2 DEF a, b
    <3> QED BY <3>1, <3>4, <3>6, <3>8
  <2>3. 0 .. k + 1 = (0 .. k) \cup {k + 1}
    OBVIOUS
  <2> HIDE DEF Bounded
  <2> QED BY <2>1, <2>2, <2>3
<1> HIDE DEF A
<1>3. Nat \subseteq A
  BY <1>1, <1>2, SetInduction
<1> SUFFICES ASSUME NEW k \in Nat PROVE Bounded(k)
  OBVIOUS
<1>4. k \in A /\ k \in 0 .. k
  BY <1>3
<1> QED BY <1>4 DEF A

(* Annex D with the uniform quantiser: likewise (entropy.cc: Quantize,     *)
(* Dequantize).  What the decoder adds up lies between phi and             *)
(* phi w / (w - 1), which is where the encoder's rounding put the value.   *)
LEMMA NearBy ==
    ASSUME NEW a \in Nat, NEW v \in Nat, NEW w \in Nat, NEW pow \in Nat \ {0}, NEW r \in Nat, NEW q \in Nat, NEW s \in Nat,
           w = 2 * r, r >= 2, q = r * pow, v <= r - 1,
           v * (2 * q) <= a * (w - 1) + q, a * (w - 1) + q < v * (2 * q) + 2 * q,
           v * pow <= s, (w - 1) * s <= w * (v * pow)
    PROVE  a - s < pow /\ s - a < pow
<1>1. PICK phi \in Nat : phi = v * pow
  OBVIOUS
<1>2. PICK x \in Nat : x = a * (w - 1) /\ x = (w - 1) * a
  OBVIOUS
<1>3. PICK y \in Nat : y = (w - 1) * s
  OBVIOUS
<1>4. PICK z \in Nat : z = v * (2 * q)
  OBVIOUS
<1>5. w * phi = z
  <2>1. w * phi = (2 * r) * (v * pow)
    BY <1>1
  <2>2. (2 * r) * (v * pow) = v * (2 * (r * pow))
    OBVIOUS
  <2> QED BY <1>4, <2>1, <2>2
<1>6. (w - 1) * phi = z - phi
  <2>1. (w - 1) * phi = w * phi - phi
    OBVIOUS
  <2> QED BY <1>5, <2>1
<1>7. (w - 1) * phi <= (w - 1) * s
  BY <1>1
<1>8. phi <= q - pow
  <2>1. v * pow <= (r - 1) * pow /\ (r - 1) * pow = r * pow - pow
    OBVIOUS
  <2> QED BY <1>1, <2>1
<1>9. (w - 1) * pow = 2 * q - pow
  <2>1. (w - 1) * pow = (2 * r) * pow - pow /\ (2 * r) * pow = 2 * (r * pow)
    OBVIOUS
  <2> QED BY <2>1
<1>10. z - phi <= y /\ y <= z /\ z <= x + q /\ x + q < z + 2 * q
  BY <1>1, <1>2, <1>3, <1>4, <1>5, <1>6, <1>7
<1>11. q > pow
  <2>1. r * pow >= 2 * pow
    OBVIOUS
  <2> QED BY <2>1
<1>12. ASSUME a >= s + pow PROVE FALSE
  <2>1. (w - 1) * a >= (w - 1) * (s + pow) /\ (w - 1) * (s + pow) = (w - 1) * s + (w - 1) * pow
    BY <1>12
  <2>2. x >= y + (2 * q - pow)
    BY <1>2, <1>3, <1>9, <2>1
  <2> QED BY <1>8, <1>10, <2>2
<1>13. ASSUME s >= a + pow PROVE FALSE
  <2>1. (w - 1) * s >= (w - 1) * (a + pow) /\ (w - 1) * (a + pow) = (w - 1) * a + (w - 1) * pow
    BY <1>13
  <2>2. y >= x + (2 * q - pow)
    BY <1>2, <1>3, <1>9, <2>1
  <2> QED BY <1>10, <1>11, <2>2
<1> QED BY <1>12, <1>13

(* With the uniform quantiser too (entropy.cc: Quantize, Dequantize, whose *)
(* reconstruction is a series) a coefficient is decoded to within a step.  *)
THEOREM UniformWithinStep ==
    ASSUME NEW g, NEW m \in 0 .. 31, NEW t \in 0 .. 31, NEW a \in Nat, NEW negative \in BOOLEAN,
           g.qpih = 1, a < 2 ^ m
    PROVE  NearTo(IF negative THEN -a ELSE a, Dequantize(g, Quantize(g, a, m, t), negative, m, t), t)
<1> DEFINE c == IF negative THEN -a ELSE a
           v == Quantize(g, a, m, t)
           read == Dequantize(g, v, negative, m, t)
           pow == 2 ^ t
           q == 2 ^ m
<1> SUFFICES NearTo(c, read, t)
  OBVIOUS
<1>1. pow \in Nat \ {0} /\ q \in Nat \ {0} /\ (m <= t => q <= pow) /\ a < q /\ (t = 0 => pow = 1)
  <2>1. pow \in Nat \ {0} /\ (m <= t => q <= pow)
    BY PowersGrow
  <2>2. q \in Nat \ {0}
    BY PowersGrow
  <2>3. t = 0 => pow = 1
    OBVIOUS
  <2>4. a < q
    OBVIOUS
  <2> HIDE DEF pow, q
  <2> QED BY <2>1, <2>2, <2>3, <2>4
<1>2. ASSUME NEW x \in Nat, a - x < pow, x - a < pow, read = IF negative THEN -x ELSE x
      PROVE  c - read < pow /\ read - c < pow /\ (t = 0 => read = c) /\ read \in Int
  <2> HIDE DEF pow, q, read
  <2> QED BY <1>1, <1>2
<1>3. CASE m <= t
  <2>1. read = 0
    BY <1>3 DEF Dequantize
  <2> HIDE DEF pow, q, read, c
  <2>2. PICK x \in Nat : a - x < pow /\ x - a < pow /\ read = IF negative THEN -x ELSE x
    <3>1. PICK x \in Nat : x = 0 /\ -x = 0
      OBVIOUS
    <3> QED BY <1>1, <1>3, <2>1, <3>1
  <2>3. c - read < pow /\ read - c < pow /\ (t = 0 => read = c) /\ read \in Int
    BY <1>2, <2>2
  <2> QED BY <2>3 DEF pow, NearTo
<1>4. CASE t < m
  <2> DEFINE r == 2 ^ (m - t)
             w == 2 ^ (m - t + 1)
             u == 2 ^ (m + 1)
             x == a * (w - 1) + q
             Runs(f) == f = [phi \in Nat |-> IF phi = 0 THEN 0 ELSE phi + f[phi \div w]]
             series == CHOOSE f : Runs(f)
  <2>1. /\ m - t \in 0 .. 31 /\ m + 1 \in 0 .. 32 /\ m - t + 1 \in 0 .. 32 /\ t \in 0 .. m /\ 1 <= m - t /\ 1 \in 0 .. 31
        /\ m - t \in 0 .. (m - t) /\ (m - t) - (m - t) = 0
    BY <1>4
  <2>2. r * pow = q /\ u = 2 * q
    BY <2>1, PowersMultiply
  <2>3. w = 2 * r /\ r \in Nat /\ r >= 2
    <3>1. PICK n : n = m - t
      OBVIOUS
    <3>2. n \in 0 .. 31 /\ 0 \in 0 .. n /\ 1 <= n /\ 1 \in 0 .. 31
      BY <2>1, <3>1
    <3>3. 2 ^ (n + 1) = 2 * 2 ^ n
      BY <3>2, PowersMultiply
    <3>4. 2 ^ n \in Nat \ {0} /\ 2 <= 2 ^ n
      <4>1. 2 ^ n \in Nat \ {0} /\ (1 <= n => 2 ^ 1 <= 2 ^ n)
        BY <3>2, PowersGrow
      <4>2. 2 ^ 1 = 2
        OBVIOUS
      <4>3. 1 <= n
        BY <3>2
      <4> QED BY <4>1, <4>2, <4>3
    <3> QED BY <3>1, <3>3, <3>4
  <2>4. Base(w)
    <3>1. \A k \in Nat : Divides(k, w)
      BY <2>1, StepOf
    <3> HIDE DEF w, r
    <3> QED BY <2>3, <3>1 DEF Base
  <2>5. v = x \div u
    <3>1. ~(m <= t) /\ g.qpih # 0
      BY <1>4
    <3> QED BY <3>1 DEF Quantize
  <2>6. v \in 0 .. r - 1
    <3>1. g.qpih \in {0, 1}
      OBVIOUS
    <3> QED BY <1>4, <3>1, QuantisedFits
  <2>7. v * (2 * q) <= x /\ x < v * (2 * q) + 2 * q
    <3>1. x \in Nat
      <4> HIDE DEF w, q, r
      <4> QED BY <1>1, <2>3
    <3>2. x \in Nat => Divides(x, u)
      BY <2>1, StepOf
    <3> HIDE DEF x, u, q, v
    <3> QED BY <2>2, <2>5, <3>1, <3>2 DEF Divides
  <2>8. Runs(series)
    <3>1. \E f : Runs(f)
      <4> HIDE DEF w
      <4> QED BY <2>4, SeriesExists
    <3> HIDE DEF Runs
    <3> QED BY <3>1
  <2>9. read = IF v = 0 THEN 0 ELSE IF negative THEN -series[v * pow] ELSE series[v * pow]
    <3>1. ~(m <= t) /\ g.qpih # 0
      BY <1>4
    <3> HIDE DEF v
    <3> QED BY <3>1 DEF Dequantize
  <2> HIDE DEF series, w
  <2>10. \A k \in Nat : series[k] \in Nat /\ k <= series[k] /\ (w - 1) * series[k] <= w * k
    BY <2>4, <2>8, SeriesBounds
  <2>11. series[0] = 0
    BY <2>8
  <2> HIDE DEF pow, q, r, u, v, read, c, Runs
  <2>12. PICK s : s = series[v * pow]
    OBVIOUS
  <2>13. v \in Nat /\ v * pow \in Nat /\ v <= r - 1 /\ (v = 0 => v * pow = 0)
    BY <1>1, <2>3, <2>6
  <2>14. s \in Nat /\ v * pow <= s /\ (w - 1) * s <= w * (v * pow) /\ (v = 0 => s = 0)
    BY <2>10, <2>11, <2>12, <2>13
  <2>15. a - s < pow /\ s - a < pow
    <3>1. w \in Nat /\ q \in Nat /\ q = r * pow
      BY <1>1, <2>2, <2>3
    <3> QED BY <1>1, <2>3, <2>7, <2>13, <2>14, <3>1, NearBy
  <2>16. read = IF negative THEN -s ELSE s
    BY <2>9, <2>12, <2>14
  <2>17. read \in Int /\ c - read < pow /\ read - c < pow /\ (t = 0 => read = c)
    BY <1>2, <2>14, <2>15, <2>16
  <2> QED BY <2>17 DEF pow, NearTo
<1> QED BY <1>3, <1>4

LEMMA ValueWithin ==
    ASSUME NEW g, NEW m \in 0 .. 31, NEW t \in 0 .. 31, NEW c \in Int, NEW s \in BOOLEAN, Codable(g),
           Magnitude(c) < 2 ^ m,
           s <=> Quantize(g, Magnitude(c), m, t) # 0 /\ c < 0
    PROVE  NearTo(c, Dequantize(g, Quantize(g, Magnitude(c), m, t), s, m, t), t)
<1> DEFINE a == Magnitude(c)
           v == Quantize(g, a, m, t)
<1>0. PICK n \in BOOLEAN : n <=> c < 0
  OBVIOUS
<1>1. a \in Nat /\ a < 2 ^ m /\ c = IF n THEN -a ELSE a
  BY <1>0 DEF Magnitude
<1>2. Dequantize(g, v, s, m, t) = Dequantize(g, v, n, m, t)
  <2>1. CASE v = 0
    <3>1. \A x \in BOOLEAN : Dequantize(g, v, x, m, t) = 0
      BY <2>1 DEF Dequantize
    <3> QED BY <1>1, <3>1
  <2>2. CASE v # 0
    <3>1. s = n
      BY <1>0, <2>2
    <3> QED BY <3>1
  <2> QED BY <2>1, <2>2
<1> HIDE DEF a
<1>3. NearTo(IF n THEN -a ELSE a, Dequantize(g, Quantize(g, a, m, t), n, m, t), t)
  <2>1. ASSUME g.qpih = 0
        PROVE  NearTo(IF n THEN -a ELSE a, Dequantize(g, Quantize(g, a, m, t), n, m, t), t)
    BY <1>1, <2>1, DeadZoneWithinStep
  <2>2. CASE g.qpih = 1
    BY <1>1, <2>2, UniformWithinStep
  <2> QED BY <2>1, <2>2 DEF Codable
<1> HIDE DEF v
<1>4. NearTo(c, Dequantize(g, v, s, m, t), t)
  BY <1>1, <1>2, <1>3 DEF v
<1> QED BY <1>4 DEF v, a

LEMMA LineWithin ==
    ASSUME NEW g, NEW i, NEW b, NEW t \in 0 .. MaxCount(g), NEW row, Codable(g), g.widths[i][b] \in Nat,
           \A x \in DOMAIN row : row[x] \in Coefficient,
           \A x \in Groups(g, i, b) : QuantiseLine(g, i, b, row, t)[x].fits
    PROVE  \A x \in DOMAIN row \cap (0 .. g.widths[i][b] - 1) :
               NearTo(row[x], Dequantised(g, i, b, QuantiseLine(g, i, b, row, t), t)[x], t)
<1> DEFINE line == QuantiseLine(g, i, b, row, t)
<1> SUFFICES ASSUME NEW x \in DOMAIN row, x \in 0 .. g.widths[i][b] - 1
             PROVE  NearTo(row[x], Dequantised(g, i, b, line, t)[x], t)
  OBVIOUS
<1>1. PICK w \in Nat : w = g.widths[i][b]
  OBVIOUS
<1>2. PICK y, k : y = x \div 4 /\ k = x % 4
  OBVIOUS
<1>3. x \in 0 .. w - 1
  BY <1>1
<1>4. k \in 0 .. 3 /\ y * 4 + k = x /\ y \in 0 .. ((w + 4) - 1) \div 4 - 1
  BY <1>2, <1>3
<1>5. g.ng = 4
  BY DEF Codable
<1>6. y \in Groups(g, i, b)
  <2>1. CodeGroups(g, i, b) = (w + 4 - 1) \div 4
    BY <1>1, <1>5 DEF CodeGroups, CeilDiv
  <2>2. w + 4 - 1 = (w + 4) - 1
    OBVIOUS
  <2> QED BY <1>4, <2>1, <2>2 DEF Groups
<1> DEFINE values == GroupValues(g, row, y)
           group == line[y]
           m == Larger(BitplaneCount(values), t)
<1>7. IsQuantised(g, t, values, group)
  BY <1>6, QuantisedGroup
<1>8. k \in DOMAIN values /\ values[k] = row[x]
  BY <1>4, <1>5 DEF GroupValues
<1> HIDE DEF line, values
<1>9. /\ m \in 0 .. 31 /\ t \in 0 .. 31
      /\ \A j \in DOMAIN values : Magnitude(values[j]) \in Nat /\ Magnitude(values[j]) < 2 ^ m
  <2>1. (\A j \in DOMAIN values : values[j] \in Coefficient) /\ BitplaneCount(values) <= MaxCount(g)
    BY <1>7 DEF IsQuantised
  <2> QED BY <2>1, MagnitudesFit
<1>10. /\ group.m = m /\ group.v[k] = Quantize(g, Magnitude(row[x]), m, t)
       /\ group.s[k] = (group.v[k] # 0 /\ row[x] < 0)
  <2> DEFINE v == [j \in 0 .. 3 |-> IF j \in DOMAIN values THEN Quantize(g, Magnitude(values[j]), m, t) ELSE 0]
  <2>1. group = [m |-> m, fits |-> TRUE, v |-> v, s |-> [j \in 0 .. 3 |-> v[j] # 0 /\ values[j] < 0]]
    BY <1>7 DEF IsQuantised
  <2>2. v[k] = Quantize(g, Magnitude(row[x]), m, t)
    <3> HIDE DEF m
    <3> QED BY <1>4, <1>8
  <2>3. group.v = v /\ group.s[k] = (v[k] # 0 /\ values[k] < 0)
    <3> HIDE DEF v, m
    <3> QED BY <1>4, <2>1
  <2> HIDE DEF v, m, group
  <2>4. group.m = m
    <3> HIDE DEF v
    <3> QED BY <2>1
  <2> QED BY <1>8, <2>2, <2>3, <2>4
<1>11. Dequantised(g, i, b, line, t)[x] = Dequantize(g, group.v[k], group.s[k], group.m, t)
  BY <1>2, <1>5 DEF Dequantised
<1> HIDE DEF group, m
<1>12. NearTo(row[x], Dequantize(g, Quantize(g, Magnitude(row[x]), m, t), group.s[k], m, t), t)
  <2>1. row[x] \in Int
    BY DEF Coefficient
  <2>2. Magnitude(row[x]) < 2 ^ m
    BY <1>8, <1>9
  <2>3. PICK c \in Int : c = row[x]
    BY <2>1
  <2>4. group.s[k] \in BOOLEAN /\ (group.s[k] <=> Quantize(g, Magnitude(c), m, t) # 0 /\ c < 0)
    BY <1>10, <2>3
  <2>5. PICK s \in BOOLEAN : s = group.s[k]
    BY <2>4
  <2>6. NearTo(c, Dequantize(g, Quantize(g, Magnitude(c), m, t), s, m, t), t)
    BY <1>9, <2>2, <2>3, <2>4, <2>5, ValueWithin
  <2> QED BY <2>3, <2>5, <2>6
<1> QED BY <1>10, <1>11, <1>12

(* What PrecinctEncoder::Encode makes of a precinct, in parts.             *)
LEMMA EncodedIs ==
    ASSUME NEW g, NEW i, NEW q, NEW r, NEW d, NEW pc, NEW state
    PROVE  LET t == Truncations(g, q, r)
               quantised == QuantisePrecinct(g, i, pc, t)
           IN  EncodePrecinct(g, i, q, r, d, pc, state)
               = EncodeQuantised(g, i, q, r, d, quantised, CountsOf(quantised), t, state)
<1> DEFINE t == Once(Truncations(g, q, r))
           quantised == Once(QuantisePrecinct(g, i, pc, t))
<1>1. EncodePrecinct(g, i, q, r, d, pc, state)
      = EncodeQuantised(g, i, q, r, d, quantised, Once(CountsOf(quantised)), t, state)
  BY DEF EncodePrecinct
<1>2. t = Truncations(g, q, r)
  BY OnceIs
<1> HIDE DEF t
<1>3. quantised = QuantisePrecinct(g, i, pc, t)
  BY OnceIs
<1> HIDE DEF quantised
<1>4. Once(CountsOf(quantised)) = CountsOf(quantised)
  BY OnceIs
<1> QED BY <1>1, <1>2, <1>3, <1>4

IsEncoded(g, i, q, r, d, quantised, counts, t, state, e) ==
    /\ e.q = q /\ e.r = r /\ e.d = d /\ e.state = UpdateState(g, i, counts, t)
    /\ \E R : e.packets = EncodePackets(g, i, R, d, quantised, counts, t, state)
    /\ e.bytes = Total([s \in DOMAIN e.packets |-> PacketBytes(g, e.packets[s])])
    /\ e.fits => /\ d.vertical => state.valid
                 /\ \A b \in Bands(g) : \A li \in DOMAIN quantised[b] :
                       \A x \in DOMAIN quantised[b][li] : quantised[b][li][x].fits
                 /\ \A s \in DOMAIN e.packets : \A k \in DOMAIN e.packets[s].entries : e.packets[s].entries[k].fits
LEMMA EncodedParts ==
    ASSUME NEW g, NEW i, NEW q, NEW r, NEW d, NEW quantised, NEW counts, NEW t, NEW state
    PROVE  IsEncoded(g, i, q, r, d, quantised, counts, t, state,
                     EncodeQuantised(g, i, q, r, d, quantised, counts, t, state))
<1> DEFINE plain == Once(EncodePackets(g, i, {}, d, quantised, counts, t, state))
           R == Once(RawPackets(g, i, plain))
           coded == Once(IF R = {} THEN plain ELSE EncodePackets(g, i, R, d, quantised, counts, t, state))
           bytes == Total([s \in DOMAIN coded |-> PacketBytes(g, coded[s])])
           e == EncodeQuantised(g, i, q, r, d, quantised, counts, t, state)
<1>1. e = Precinct(g, q, r, d, quantised, coded, bytes, state, UpdateState(g, i, counts, t))
  BY DEF EncodeQuantised
<1>2. coded = EncodePackets(g, i, R, d, quantised, counts, t, state)
  <2>1. plain = EncodePackets(g, i, {}, d, quantised, counts, t, state)
    BY OnceIs
  <2> HIDE DEF plain, R
  <2>2. coded = IF R = {} THEN plain ELSE EncodePackets(g, i, R, d, quantised, counts, t, state)
    BY OnceIs
  <2> HIDE DEF coded
  <2> QED BY <2>1, <2>2
<1> HIDE DEF plain, R, coded, e
<1>3. /\ e.q = q /\ e.r = r /\ e.d = d /\ e.state = UpdateState(g, i, counts, t) /\ e.packets = coded /\ e.bytes = bytes
      /\ e.fits => /\ d.vertical => state.valid
                   /\ \A b \in Bands(g) : \A li \in DOMAIN quantised[b] :
                         \A x \in DOMAIN quantised[b][li] : quantised[b][li][x].fits
                   /\ \A s \in DOMAIN coded : \A k \in DOMAIN coded[s].entries : coded[s].entries[k].fits
  <2> HIDE DEF bytes
  <2> QED BY <1>1, Zenon DEF Precinct
<1>4. IsEncoded(g, i, q, r, d, quantised, counts, t, state, e)
  BY <1>2, <1>3 DEF IsEncoded
<1> QED BY <1>4 DEF e

(* The decoder before the first packet.                                    *)
LEMMA StartOf ==
    ASSUME NEW g, NEW i, NEW quantised, NEW t
    PROVE  [counts |-> [b \in Bands(g) |-> [li \in 0 .. Lines(g, i, b) - 1 |-> [x \in Groups(g, i, b) |-> 0]]],
            out |-> [b \in Bands(g) |-> [li \in 0 .. Lines(g, i, b) - 1 |-> [x \in 0 .. g.widths[i][b] - 1 |-> 0]]],
            used |-> 0, fits |-> TRUE]
           = HasRead(g, i, 0, quantised, t, 0)
<1>1. \A b, li : ~SentBy(g, i, 0, b, li)
  BY DEF SentBy
<1>2. ASSUME NEW new, NEW old
      PROVE  Filled(g, i, 0, new, old) = [b \in Bands(g) |-> [li \in 0 .. Lines(g, i, b) - 1 |-> old[b]]]
  BY <1>1 DEF Filled
<1>3. [b \in Bands(g) |-> [li \in 0 .. Lines(g, i, b) - 1 |-> NoCounts(g, i)[b]]]
      = [b \in Bands(g) |-> [li \in 0 .. Lines(g, i, b) - 1 |-> [x \in Groups(g, i, b) |-> 0]]]
  BY DEF NoCounts
<1>4. [b \in Bands(g) |-> [li \in 0 .. Lines(g, i, b) - 1 |-> NoValues(g, i)[b]]]
      = [b \in Bands(g) |-> [li \in 0 .. Lines(g, i, b) - 1 |-> [x \in 0 .. g.widths[i][b] - 1 |-> 0]]]
  BY DEF NoValues
<1>5. /\ Filled(g, i, 0, CountTable(g, i, quantised), NoCounts(g, i))
         = [b \in Bands(g) |-> [li \in 0 .. Lines(g, i, b) - 1 |-> [x \in Groups(g, i, b) |-> 0]]]
      /\ Filled(g, i, 0, ValueTable(g, i, quantised, t), NoValues(g, i))
         = [b \in Bands(g) |-> [li \in 0 .. Lines(g, i, b) - 1 |-> [x \in 0 .. g.widths[i][b] - 1 |-> 0]]]
  <2> DEFINE c0 == NoCounts(g, i)
             v0 == NoValues(g, i)
  <2>1. Filled(g, i, 0, CountTable(g, i, quantised), c0) = [b \in Bands(g) |-> [li \in 0 .. Lines(g, i, b) - 1 |-> c0[b]]]
    <3> HIDE DEF c0
    <3> QED BY <1>2
  <2>2. Filled(g, i, 0, ValueTable(g, i, quantised, t), v0) = [b \in Bands(g) |-> [li \in 0 .. Lines(g, i, b) - 1 |-> v0[b]]]
    <3> HIDE DEF v0
    <3> QED BY <1>2
  <2> QED BY <1>3, <1>4, <2>1, <2>2, Zenon
<1> QED BY <1>5 DEF HasRead

(* The tables the codec has of a precinct, its coefficients, and what is   *)
(* written of it.                                                          *)
TablesFit(g, i) ==
    \A b \in Bands(g) : g.widths[i][b] \in Nat /\ Lines(g, i, b) \in Nat /\ g.weights[b].gain \in Nat
CoefficientsFit(g, i, pc) ==
    \A b \in Bands(g) : \A li \in 0 .. Lines(g, i, b) - 1 : \A x \in DOMAIN pc[b][li] : pc[b][li][x] \in Coefficient
InStream(e, lprc) == [q |-> e.q, r |-> e.r, d |-> e.d, packets |-> e.packets, lprc |-> lprc]

LEMMA TruncationsFit ==
    ASSUME NEW g, NEW q \in 0 .. 31, NEW r, NEW b \in Bands(g), Codable(g), g.weights[b].gain \in Nat
    PROVE  Truncations(g, q, r)[b] \in 0 .. MaxCount(g) /\ Truncations(g, q, r)[b] = ComputeTruncation(g, b, q, r)
<1>1. MaxCount(g) \in 0 .. 31
  BY CountBounds
<1>2. PICK x \in Int : x = q - g.weights[b].gain - (IF g.weights[b].priority < r THEN 1 ELSE 0)
  OBVIOUS
<1>3. ComputeTruncation(g, b, q, r) = Clamp(x, 0, MaxCount(g))
  BY <1>2 DEF ComputeTruncation
<1>4. Clamp(x, 0, MaxCount(g)) \in 0 .. MaxCount(g)
  BY <1>1 DEF Clamp, Larger, Smaller
<1> QED BY <1>3, <1>4 DEF Truncations

LEMMA PrecinctIsFit ==
    ASSUME NEW g, NEW i, NEW q \in 0 .. 31, NEW r, NEW pc, NEW t, Codable(g), TablesFit(g, i), CoefficientsFit(g, i, pc),
           t = Truncations(g, q, r),
           \A b \in Bands(g) : \A li \in DOMAIN QuantisePrecinct(g, i, pc, t)[b] :
               \A x \in DOMAIN QuantisePrecinct(g, i, pc, t)[b][li] : QuantisePrecinct(g, i, pc, t)[b][li][x].fits
    PROVE  LET quantised == QuantisePrecinct(g, i, pc, t)
           IN  /\ PrecinctFits(g, i, quantised, CountsOf(quantised), t)
               /\ \A b \in Bands(g) : \A li \in 0 .. Lines(g, i, b) - 1 :
                     \A x \in DOMAIN pc[b][li] \cap (0 .. g.widths[i][b] - 1) :
                        NearTo(pc[b][li][x], Dequantised(g, i, b, quantised[b][li], t[b])[x], t[b])
<1> DEFINE quantised == QuantisePrecinct(g, i, pc, t)
           counts == CountsOf(quantised)
<1> SUFFICES ASSUME NEW b \in Bands(g)
             PROVE  /\ g.widths[i][b] \in Nat /\ Lines(g, i, b) \in Nat /\ t[b] \in 0 .. MaxCount(g)
                    /\ \A li \in 0 .. Lines(g, i, b) - 1 :
                          /\ LineFits(g, i, b, quantised[b][li], t[b])
                          /\ counts[b][li] = CountsIn(quantised[b][li])
                          /\ \A x \in DOMAIN pc[b][li] \cap (0 .. g.widths[i][b] - 1) :
                                NearTo(pc[b][li][x], Dequantised(g, i, b, quantised[b][li], t[b])[x], t[b])
  BY DEF PrecinctFits
<1>1. g.widths[i][b] \in Nat /\ Lines(g, i, b) \in Nat /\ t[b] \in 0 .. MaxCount(g)
  BY TruncationsFit DEF TablesFit
<1>2. ASSUME NEW li \in 0 .. Lines(g, i, b) - 1
      PROVE  /\ LineFits(g, i, b, quantised[b][li], t[b])
             /\ counts[b][li] = CountsIn(quantised[b][li])
             /\ \A x \in DOMAIN pc[b][li] \cap (0 .. g.widths[i][b] - 1) :
                   NearTo(pc[b][li][x], Dequantised(g, i, b, quantised[b][li], t[b])[x], t[b])
  <2> DEFINE row == pc[b][li]
             line == QuantiseLine(g, i, b, row, t[b])
  <2>1. quantised[b][li] = line /\ DOMAIN quantised = Bands(g) /\ DOMAIN quantised[b] = 0 .. Lines(g, i, b) - 1
    BY DEF QuantisePrecinct
  <2>2. DOMAIN line = Groups(g, i, b)
    BY DEF QuantiseLine
  <2>3. \A x \in Groups(g, i, b) : line[x].fits
    <3>1. \A x \in DOMAIN quantised[b][li] : quantised[b][li][x].fits
      BY <2>1
    <3> HIDE DEF quantised, line
    <3> QED BY <2>1, <2>2, <3>1
  <2>4. \A x \in DOMAIN row : row[x] \in Coefficient
    BY DEF CoefficientsFit
  <2>5. counts[b][li] = CountsIn(quantised[b][li])
    <3> HIDE DEF quantised
    <3> QED BY <2>1 DEF CountsOf, CountsIn
  <2> HIDE DEF row, quantised, counts
  <2>6. PICK T \in 0 .. MaxCount(g) : T = t[b]
    BY <1>1
  <2>7. LineFits(g, i, b, QuantiseLine(g, i, b, row, T), T)
    BY <2>3, <2>4, <2>6, LineIsFit
  <2>8. \A x \in DOMAIN row \cap (0 .. g.widths[i][b] - 1) :
            NearTo(row[x], Dequantised(g, i, b, QuantiseLine(g, i, b, row, T), T)[x], T)
    BY <1>1, <2>3, <2>4, <2>6, LineWithin
  <2> QED BY <2>1, <2>5, <2>6, <2>7, <2>8 DEF row
<1> QED BY <1>1, <1>2

Follows(g, i, pc, e, read) ==
    /\ read.fits /\ read.used = e.bytes
    /\ read.state = e.state /\ StateFits(g, i, e.state)
    /\ \A b \in Bands(g) :
          /\ DOMAIN read.out[b] = 0 .. Lines(g, i, b) - 1
          /\ \A li \in 0 .. Lines(g, i, b) - 1 :
                \A x \in DOMAIN pc[b][li] \cap (0 .. g.widths[i][b] - 1) :
                   NearTo(pc[b][li][x], read.out[b][li][x], ComputeTruncation(g, b, e.q, e.r))
(* Synchronisation, precinct by precinct: from the predictor state the     *)
(* encoder had, PrecinctDecoder::Decode reads what PrecinctEncoder::Encode *)
(* wrote without losing its place, whatever the coding flags, the sign and *)
(* raw-mode options, (Q, R) and the coefficients; it uses every byte the   *)
(* encoder counted and no more, ends in the encoder's predictor state, and *)
(* finds every coefficient to within a step of its band's truncation.      *)
THEOREM PrecinctFollows ==
    ASSUME NEW g, NEW i, NEW q \in 0 .. 31, NEW r, NEW d \in CodingBits, NEW pc, NEW state, NEW lprc,
           Codable(g), TablesFit(g, i), LayoutSound(g, i), CoefficientsFit(g, i, pc),
           state.valid \in BOOLEAN, d.vertical => StateFits(g, i, state),
           EncodePrecinct(g, i, q, r, d, pc, state).fits, EncodePrecinct(g, i, q, r, d, pc, state).bytes <= lprc
    PROVE  LET e == EncodePrecinct(g, i, q, r, d, pc, state)
           IN  Follows(g, i, pc, e, DecodePrecinct(g, i, InStream(e, lprc), state))
<1> DEFINE t == Truncations(g, q, r)
           quantised == QuantisePrecinct(g, i, pc, t)
           counts == CountsOf(quantised)
           e == EncodePrecinct(g, i, q, r, d, pc, state)
           precinct == InStream(e, lprc)
           read == DecodePrecinct(g, i, precinct, state)
           n == Len(g.packets[i])
           start == HasRead(g, i, 0, quantised, t, 0)
           end == HasRead(g, i, n, quantised, t, e.bytes)
<1>1. IsEncoded(g, i, q, r, d, quantised, counts, t, state, e)
  <2>1. e = EncodeQuantised(g, i, q, r, d, quantised, counts, t, state)
    BY EncodedIs
  <2> HIDE DEF e, quantised, counts, t
  <2> QED BY <2>1, EncodedParts
<1>2. /\ e.q = q /\ e.r = r /\ e.d = d /\ e.state = UpdateState(g, i, counts, t)
      /\ \E R : e.packets = EncodePackets(g, i, R, d, quantised, counts, t, state)
      /\ e.bytes = Total([s \in DOMAIN e.packets |-> PacketBytes(g, e.packets[s])])
      /\ d.vertical => state.valid
      /\ \A b \in Bands(g) : \A li \in DOMAIN quantised[b] :
            \A x \in DOMAIN quantised[b][li] : quantised[b][li][x].fits
      /\ \A s \in DOMAIN e.packets : \A k \in DOMAIN e.packets[s].entries : e.packets[s].entries[k].fits
  <2>1. e.fits
    OBVIOUS
  <2> HIDE DEF e, quantised, counts, t
  <2> QED BY <1>1, <2>1, Zenon DEF IsEncoded
<1>3. precinct.q = q /\ precinct.r = r /\ precinct.d = d /\ precinct.packets = e.packets /\ precinct.lprc = lprc
  <2> HIDE DEF e
  <2> QED BY <1>2 DEF InStream
<1>4. /\ PrecinctFits(g, i, quantised, counts, t)
      /\ \A b \in Bands(g) : \A li \in 0 .. Lines(g, i, b) - 1 :
            \A x \in DOMAIN pc[b][li] \cap (0 .. g.widths[i][b] - 1) :
               NearTo(pc[b][li][x], Dequantised(g, i, b, quantised[b][li], t[b])[x], t[b])
  <2> DEFINE T == t
  <2>1. T = Truncations(g, q, r)
    OBVIOUS
  <2> HIDE DEF T
  <2> QED BY <1>2, <2>1, PrecinctIsFit
<1> HIDE DEF e, precinct, quantised, counts
<1>5. read = Decoded(g, i, precinct, end, t)
  <2> DEFINE T == Once(Truncations(g, precinct.q, precinct.r))
             Blanks(Row(_)) == [b \in Bands(g) |-> [li \in 0 .. Lines(g, i, b) - 1 |-> Row(b)]]
             first == [counts |-> Blanks(LAMBDA b : [x \in Groups(g, i, b) |-> 0]),
                       out |-> Blanks(LAMBDA b : [x \in 0 .. g.widths[i][b] - 1 |-> 0]),
                       used |-> 0, fits |-> precinct.d.vertical => state.valid]
  <2>1. read = Decoded(g, i, precinct, Once(DecodePackets(g, i, precinct, first, T, state)), T)
    BY DEF DecodePrecinct
  <2>2. T = t
    BY <1>3, OnceIs
  <2>3. first = start
    <3>1. (precinct.d.vertical => state.valid) = TRUE
      BY <1>2, <1>3 DEF CodingBits
    <3>2. first = [counts |-> [b \in Bands(g) |-> [li \in 0 .. Lines(g, i, b) - 1 |-> [x \in Groups(g, i, b) |-> 0]]],
                   out |-> [b \in Bands(g) |-> [li \in 0 .. Lines(g, i, b) - 1 |-> [x \in 0 .. g.widths[i][b] - 1 |-> 0]]],
                   used |-> 0, fits |-> TRUE]
      BY <3>1
    <3> HIDE DEF t, first
    <3>3. first = HasRead(g, i, 0, quantised, t, 0)
      BY <3>1, <3>2, StartOf
    <3> QED BY <3>3
  <2> HIDE DEF T, first, t, start, read, n
  <2>4. DecodePackets(g, i, precinct, start, t, state) = end
    <3>1. PICK R : precinct.packets = EncodePackets(g, i, R, d, quantised, counts, t, state)
      BY <1>2, <1>3
    <3>2. DecodePackets(g, i, precinct, HasRead(g, i, 0, quantised, t, 0), t, state)
          = HasRead(g, i, Len(g.packets[i]), quantised, t,
                    Total([s \in DOMAIN precinct.packets |-> PacketBytes(g, precinct.packets[s])]))
      BY <1>2, <1>3, <1>4, <3>1, PacketsFollow
    <3> QED BY <1>2, <1>3, <3>2 DEF start, n
  <2> HIDE DEF end
  <2> QED BY <2>1, <2>2, <2>3, <2>4, OnceIs
<1>6. /\ end.used = e.bytes /\ end.fits
      /\ \A b \in Bands(g) : \A li \in 0 .. Lines(g, i, b) - 1 :
            /\ end.counts[b][li] = counts[b][li]
            /\ end.out[b][li] = Dequantised(g, i, b, quantised[b][li], t[b])
  <2>1. end.used = e.bytes /\ end.fits
        /\ end.counts = Filled(g, i, n, CountTable(g, i, quantised), NoCounts(g, i))
        /\ end.out = Filled(g, i, n, ValueTable(g, i, quantised, t), NoValues(g, i))
    <3> HIDE DEF n, t
    <3> QED BY DEF HasRead
  <2> HIDE DEF end, t
  <2>2. ASSUME NEW b \in Bands(g), NEW li \in 0 .. Lines(g, i, b) - 1
        PROVE  /\ end.counts[b][li] = counts[b][li]
               /\ end.out[b][li] = Dequantised(g, i, b, quantised[b][li], t[b])
    <3>1. SentBy(g, i, n, b, li)
      BY DEF LayoutSound
    <3> HIDE DEF n
    <3>2. end.counts[b][li] = CountTable(g, i, quantised)[b][li] /\ end.out[b][li] = ValueTable(g, i, quantised, t)[b][li]
      BY <2>1, <3>1 DEF Filled
    <3>3. counts[b][li] = CountsIn(quantised[b][li])
      BY <1>4 DEF PrecinctFits
    <3> QED BY <3>2, <3>3 DEF CountTable, ValueTable
  <2> QED BY <2>1, <2>2
<1>7. /\ read.out = end.out /\ read.used = end.used /\ read.fits = (end.fits /\ end.used <= precinct.lprc)
      /\ read.state = UpdateState(g, i, end.counts, t)
  <2> HIDE DEF read, end, t
  <2> QED BY <1>5 DEF Decoded
<1>8. UpdateState(g, i, end.counts, t) = UpdateState(g, i, counts, t) /\ StateFits(g, i, UpdateState(g, i, counts, t))
  <2> DEFINE LastOf(all, b) == IF Lines(g, i, b) = 0 THEN <<>> ELSE all[b][Lines(g, i, b) - 1]
  <2>1. \A all : UpdateState(g, i, all, t) = [valid |-> TRUE, tAbove |-> t, mLast |-> [b \in Bands(g) |-> LastOf(all, b)]]
    BY DEF UpdateState
  <2> HIDE DEF end, t
  <2>2. \A b \in Bands(g) : Lines(g, i, b) \in Nat
    BY DEF TablesFit
  <2>3. \A b \in Bands(g) : LastOf(end.counts, b) = LastOf(counts, b)
    <3> SUFFICES ASSUME NEW b \in Bands(g) PROVE LastOf(end.counts, b) = LastOf(counts, b)
      OBVIOUS
    <3>1. CASE Lines(g, i, b) = 0
      BY <3>1
    <3>2. CASE Lines(g, i, b) # 0
      <4>1. Lines(g, i, b) - 1 \in 0 .. Lines(g, i, b) - 1
        BY <2>2, <3>2
      <4> QED BY <1>6, <3>2, <4>1
    <3> QED BY <3>1, <3>2
  <2>4. ASSUME NEW b \in Bands(g), Lines(g, i, b) > 0
        PROVE  LastOf(counts, b) \in LineCounts(g, i, b) /\ t[b] \in 0 .. MaxCount(g)
    <3> DEFINE li == Lines(g, i, b) - 1
               line == quantised[b][li]
    <3>1. li \in 0 .. Lines(g, i, b) - 1 /\ Lines(g, i, b) # 0
      BY <2>2, <2>4
    <3>2. LineFits(g, i, b, line, t[b]) /\ counts[b][li] = CountsIn(line) /\ t[b] \in 0 .. MaxCount(g)
      BY <1>4, <3>1 DEF PrecinctFits
    <3>3. DOMAIN line = Groups(g, i, b) /\ \A x \in Groups(g, i, b) : line[x].m \in t[b] .. MaxCount(g)
      BY <3>2 DEF LineFits, GroupFits
    <3> HIDE DEF line
    <3>4. MaxCount(g) \in 0 .. 31
      BY CountBounds
    <3>5. \A x \in Groups(g, i, b) : line[x].m \in 0 .. MaxCount(g)
      BY <3>2, <3>3, <3>4
    <3>6. CountsIn(line) \in LineCounts(g, i, b)
      BY <3>3, <3>5 DEF CountsIn, LineCounts
    <3> QED BY <3>1, <3>2, <3>6
  <2> HIDE DEF LastOf
  <2>5. [b \in Bands(g) |-> LastOf(end.counts, b)] = [b \in Bands(g) |-> LastOf(counts, b)]
    BY <2>3
  <2>6. UpdateState(g, i, counts, t).tAbove = t
        /\ \A b \in Bands(g) : UpdateState(g, i, counts, t).mLast[b] = LastOf(counts, b)
    BY <2>1
  <2> QED BY <2>1, <2>4, <2>5, <2>6 DEF StateFits
<1>9. ASSUME NEW b \in Bands(g), NEW li \in 0 .. Lines(g, i, b) - 1
      PROVE  \A x \in DOMAIN pc[b][li] \cap (0 .. g.widths[i][b] - 1) :
                 NearTo(pc[b][li][x], read.out[b][li][x], ComputeTruncation(g, b, e.q, e.r))
  <2>1. t[b] = ComputeTruncation(g, b, e.q, e.r)
    BY <1>2, TruncationsFit DEF TablesFit
  <2> HIDE DEF read, end, t
  <2>2. read.out[b][li] = Dequantised(g, i, b, quantised[b][li], t[b])
    BY <1>6, <1>7
  <2> QED BY <1>4, <2>1, <2>2
<1>10. read.fits /\ read.used = e.bytes /\ read.state = e.state /\ StateFits(g, i, e.state)
  <2>1. e.bytes <= lprc
    BY DEF e
  <2> HIDE DEF read, end, t
  <2> QED BY <1>2, <1>3, <1>6, <1>7, <1>8, <2>1
<1>11. \A b \in Bands(g) : DOMAIN read.out[b] = 0 .. Lines(g, i, b) - 1
  <2>1. read.out = Filled(g, i, n, ValueTable(g, i, quantised, t), NoValues(g, i))
    <3>1. end.out = Filled(g, i, n, ValueTable(g, i, quantised, t), NoValues(g, i))
      <4> HIDE DEF n, t
      <4> QED BY DEF HasRead
    <3> HIDE DEF read, end, t, n
    <3> QED BY <1>7, <3>1
  <2> HIDE DEF read, n, t
  <2> QED BY <2>1 DEF Filled
<1>12. Follows(g, i, pc, e, read)
  <2> HIDE DEF read
  <2> QED BY <1>9, <1>10, <1>11 DEF Follows
<1> QED BY <1>12 DEF e, precinct

(* Division by any number.                                                 *)
LEMMA DivMod ==
    ASSUME NEW m \in Nat, NEW w \in Nat \ {0}, NEW c \in 0 .. w - 1
    PROVE  (m * w + c) \div w = m /\ (m * w + c) % w = c
<1> DEFINE x == m * w + c
           q == x \div w
<1>1. x \in Nat /\ m * w \in Nat /\ x = m * w + c
  OBVIOUS
<1> HIDE DEF x
<1>2. q \in Int /\ w * q <= x /\ x < w * q + w /\ x % w = x - w * q
  BY <1>1
<1> HIDE DEF q
<1>3. q = m
  <2>1. CASE q > m
    <3>1. PICK k \in Nat : q = m + 1 + k
      <4>1. q - (m + 1) \in Nat /\ q = m + 1 + (q - (m + 1))
        BY <1>2, <2>1
      <4> QED BY <4>1
    <3>2. w * q = m * w + w + w * k /\ w * k \in Nat
      BY <3>1
    <3> QED BY <1>1, <1>2, <3>2
  <2>2. CASE q < m
    <3>1. PICK k \in Nat : m = q + 1 + k
      <4>1. m - (q + 1) \in Nat /\ m = q + 1 + (m - (q + 1))
        BY <1>2, <2>2
      <4> QED BY <4>1
    <3>2. m * w = w * q + w + w * k /\ w * k \in Nat
      BY <1>2, <3>1
    <3> QED BY <1>1, <1>2, <3>2
  <2> QED BY <1>2, <2>1, <2>2
<1>4. x % w = c
  BY <1>1, <1>2, <1>3
<1> QED BY <1>3, <1>4 DEF x, q

LEMMA Parts ==
    ASSUME NEW x \in Nat, NEW w \in Nat \ {0}
    PROVE  x \div w \in Nat /\ x % w \in 0 .. w - 1 /\ x = (x \div w) * w + (x % w)
<1> DEFINE q == x \div w
<1>1. q \in Int /\ w * q <= x /\ x < w * q + w /\ x % w = x - w * q
  OBVIOUS
<1> HIDE DEF q
<1>2. q \in Nat
  <2>1. CASE q < 0
    <3>1. PICK k \in Nat : q = -1 - k
      <4>1. -1 - q \in Nat /\ q = -1 - (-1 - q)
        BY <1>1, <2>1
      <4> QED BY <4>1
    <3>2. w * q = -w - w * k /\ w * k \in Nat
      BY <3>1
    <3> QED BY <1>1, <3>2
  <2> QED BY <1>1, <2>1
<1>3. x % w \in 0 .. w - 1 /\ x = q * w + (x % w)
  <2>1. PICK r : r = x % w
    OBVIOUS
  <2>2. PICK z \in Int : z = w * q /\ z = q * w
    BY <1>2
  <2>3. z <= x /\ x < z + w /\ r = x - z
    BY <1>1, <2>1, <2>2
  <2>4. r \in 0 .. w - 1 /\ x = z + r
    BY <2>3
  <2> QED BY <2>1, <2>2, <2>4
<1> QED BY <1>2, <1>3 DEF q

(* What Keep keeps, in order.                                              *)
IsKept(kept, f, S) ==
    /\ Len(kept) \in Nat /\ DOMAIN kept = 1 .. Len(kept)
    /\ \A k \in DOMAIN kept : \E x \in S : /\ kept[k] = f[x]
                                           /\ \A y \in S : y < x => \E j \in 1 .. k - 1 : kept[j] = f[y]
    /\ \A x \in S : \E k \in DOMAIN kept : kept[k] = f[x]
LEMMA PlacesGrow ==
    ASSUME NEW S, NEW x \in Nat, NEW y \in Nat, x \in S, y < x
    PROVE  Place(y, S) < Place(x, S) /\ Place(y, S) \in Nat /\ Place(x, S) \in Nat
<1>1. Place(y, S) = Cardinality(Below(S, y + 1)) /\ Place(x, S) = Cardinality(Below(S, x)) + 1
  BY BelowGrows
<1>2. Below(S, y + 1) \subseteq Below(S, x)
  BY DEF Below
<1>3. IsFiniteSet(Below(S, x)) /\ Cardinality(Below(S, x)) \in Nat
  BY BelowGrows
<1>4. y + 1 \in Nat /\ IsFiniteSet(Below(S, y + 1)) /\ Cardinality(Below(S, y + 1)) \in Nat
  <2>1. y + 1 \in Nat
    OBVIOUS
  <2> QED BY <2>1, BelowGrows
<1>5. Cardinality(Below(S, y + 1)) <= Cardinality(Below(S, x))
  BY <1>2, <1>3, FS_Subset
<1> QED BY <1>1, <1>3, <1>4, <1>5

LEMMA KeepFacts ==
    ASSUME NEW n \in Nat, NEW f, f = [k \in 1 .. n |-> f[k]], NEW S, S \subseteq 1 .. n
    PROVE  IsKept(Keep(f, S), f, S)
<1> DEFINE at == InOrder(S, n + 1)
           kept == Keep(f, S)
<1>1. Len(f) = n
  BY IsSequence
<1>2. kept = [k \in DOMAIN at |-> f[at[k]]]
  BY <1>1 DEF Keep
<1>3. Below(S, n + 1) = S
  BY DEF Below
<1>4. /\ at \in Seq(Nat)
      /\ \A x \in S : Place(x, S) \in 1 .. Len(at) /\ at[Place(x, S)] = x
      /\ \A k \in 1 .. Len(at) : at[k] \in S /\ Place(at[k], S) = k
  <2>1. n + 1 \in Nat
    OBVIOUS
  <2> QED BY <1>3, <2>1, OrderFacts, Zenon
<1> HIDE DEF at
<1>5. Len(at) \in Nat /\ DOMAIN at = 1 .. Len(at)
  BY <1>4
<1>6. PICK N \in Nat : N = Len(at)
  BY <1>5
<1>7. kept = [k \in 1 .. N |-> f[at[k]]]
  BY <1>2, <1>5, <1>6
<1>8. Len(kept) = N /\ DOMAIN kept = 1 .. N /\ \A k \in 1 .. N : kept[k] = f[at[k]]
  <2> HIDE DEF kept
  <2>1. DOMAIN kept = 1 .. N /\ \A k \in 1 .. N : kept[k] = f[at[k]]
    BY <1>7
  <2>2. kept = [k \in 1 .. N |-> kept[k]]
    BY <1>7, <2>1
  <2> QED BY <2>1, <2>2, IsSequence
<1> HIDE DEF kept
<1>9. ASSUME NEW k \in 1 .. N
      PROVE  \E x \in S : kept[k] = f[x] /\ \A y \in S : y < x => \E j \in 1 .. k - 1 : kept[j] = f[y]
  <2>1. at[k] \in S /\ Place(at[k], S) = k /\ kept[k] = f[at[k]]
    BY <1>4, <1>6, <1>8
  <2>2. ASSUME NEW y \in S, y < at[k] PROVE \E j \in 1 .. k - 1 : kept[j] = f[y]
    <3>1. y \in Nat /\ at[k] \in Nat
      BY <2>1
    <3>2. Place(y, S) < k /\ Place(y, S) \in 1 .. N /\ at[Place(y, S)] = y
      BY <1>4, <1>6, <2>1, <2>2, <3>1, PlacesGrow
    <3>3. Place(y, S) \in 1 .. k - 1 /\ kept[Place(y, S)] = f[y]
      BY <1>8, <3>2
    <3> QED BY <3>3
  <2> QED BY <2>1, <2>2
<1>10. ASSUME NEW x \in S PROVE \E k \in 1 .. N : kept[k] = f[x]
  BY <1>4, <1>6, <1>8
<1>11. IsKept(kept, f, S)
  BY <1>8, <1>9, <1>10 DEF IsKept
<1> QED BY <1>11 DEF kept

(* Packets of a precinct, or some of them in a row: each line of a band    *)
(* but its first comes behind the line above it.                           *)
Entries(g) == [band : Bands(g), line : Nat]
Covers(g, f, b, li) == \E x \in 1 .. Len(f) : Carries(g, f[x], b, li)
BehindAbove(g, i, f, s, e) ==
    /\ LineOf(g, e) \in 0 .. Lines(g, i, e.band) - 1
    /\ LineOf(g, e) > 0 => \E x \in 1 .. s - 1 : Carries(g, f[x], e.band, LineOf(g, e) - 1)
IsBlock(g, i, f) ==
    /\ f \in Seq(Seq(Entries(g)))
    /\ \A s \in 1 .. Len(f) : \A k \in 1 .. Len(f[s]) : BehindAbove(g, i, f, s, f[s][k])

LEMMA BlockConcat ==
    ASSUME NEW g, NEW i, NEW a, NEW b, IsBlock(g, i, a), IsBlock(g, i, b)
    PROVE  /\ IsBlock(g, i, a \o b)
           /\ \A x, li : Covers(g, a, x, li) \/ Covers(g, b, x, li) => Covers(g, a \o b, x, li)
<1> DEFINE S == Seq(Entries(g))
           f == a \o b
<1>1. a \in Seq(S) /\ b \in Seq(S)
  BY DEF IsBlock
<1>2. PICK n \in Nat : n = Len(a)
  BY <1>1
<1>3. PICK m \in Nat : m = Len(b)
  BY <1>1
<1>4. f \in Seq(S) /\ Len(f) = n + m
      /\ (\A s \in 1 .. n : f[s] = a[s]) /\ (\A s \in 1 .. m : f[n + s] = b[s])
  <2> HIDE DEF S
  <2>1. f \in Seq(S) /\ Len(f) = Len(a) + Len(b)
        /\ \A s \in 1 .. Len(a) + Len(b) : f[s] = IF s <= Len(a) THEN a[s] ELSE b[s - Len(a)]
    BY <1>1, ConcatProperties
  <2>2. \A s \in 1 .. m : n + s \in 1 .. n + m /\ ~(n + s <= n) /\ (n + s) - n = s
    OBVIOUS
  <2>3. \A s \in 1 .. n : s \in 1 .. n + m /\ s <= n
    OBVIOUS
  <2> HIDE DEF f
  <2> QED BY <1>2, <1>3, <2>1, <2>2, <2>3
<1> HIDE DEF f
<1>5. ASSUME NEW s \in 1 .. Len(f), NEW k \in 1 .. Len(f[s]) PROVE BehindAbove(g, i, f, s, f[s][k])
  <2>1. CASE s \in 1 .. n
    <3>1. f[s] = a[s] /\ BehindAbove(g, i, a, s, a[s][k])
      BY <1>2, <1>4, <2>1 DEF IsBlock
    <3>2. \A x \in 1 .. s - 1 : f[x] = a[x]
      BY <1>4, <2>1
    <3> QED BY <3>1, <3>2 DEF BehindAbove
  <2>2. CASE s \notin 1 .. n
    <3>1. PICK z \in 1 .. m : s = n + z
      <4>1. s - n \in 1 .. m /\ s = n + (s - n)
        BY <1>4, <2>2
      <4> QED BY <4>1
    <3>2. f[s] = b[z] /\ BehindAbove(g, i, b, z, b[z][k])
      BY <1>3, <1>4, <3>1 DEF IsBlock
    <3>3. \A x \in 1 .. z - 1 : n + x \in 1 .. s - 1 /\ f[n + x] = b[x]
      <4>1. \A x \in 1 .. z - 1 : x \in 1 .. m /\ n + x \in 1 .. s - 1
        BY <3>1
      <4> QED BY <1>4, <4>1
    <3> QED BY <3>2, <3>3 DEF BehindAbove
  <2> QED BY <2>1, <2>2
<1>6. IsBlock(g, i, f)
  BY <1>4, <1>5 DEF IsBlock
<1>7. ASSUME NEW x, NEW li, Covers(g, a, x, li) \/ Covers(g, b, x, li) PROVE Covers(g, f, x, li)
  <2>1. CASE Covers(g, a, x, li)
    <3>1. PICK s \in 1 .. n : Carries(g, a[s], x, li)
      BY <1>2, <2>1 DEF Covers
    <3>2. s \in 1 .. Len(f) /\ f[s] = a[s]
      BY <1>4
    <3> QED BY <3>1, <3>2 DEF Covers
  <2>2. CASE Covers(g, b, x, li)
    <3>1. PICK s \in 1 .. m : Carries(g, b[s], x, li)
      BY <1>3, <2>2 DEF Covers
    <3>2. n + s \in 1 .. Len(f) /\ f[n + s] = b[s]
      BY <1>4
    <3> QED BY <3>1, <3>2 DEF Covers
  <2> QED BY <1>7, <2>1, <2>2
<1> QED BY <1>6, <1>7 DEF f

LEMMA BlockFlatten ==
    ASSUME NEW g, NEW i, NEW n \in Nat, NEW seqs, seqs = [k \in 1 .. n |-> seqs[k]],
           \A k \in 1 .. n : IsBlock(g, i, seqs[k])
    PROVE  /\ IsBlock(g, i, FlattenSeq(seqs))
           /\ \A k \in 1 .. n : \A x, li : Covers(g, seqs[k], x, li) => Covers(g, FlattenSeq(seqs), x, li)
<1> DEFINE S == Seq(Entries(g))
<1>1. Len(seqs) = n
  BY IsSequence
<1>2. CASE n = 0
  <2>1. FlattenSeq(seqs) = <<>>
    <3>1. seqs = <<>>
      BY <1>2
    <3>2. FlattenSeq(seqs) = seqs
      BY <1>1, <1>2 DEF FlattenSeq
    <3> QED BY <3>1, <3>2
  <2>2. IsBlock(g, i, <<>>)
    <3>1. <<>> \in Seq(S) /\ Len(<<>>) = 0
      OBVIOUS
    <3> QED BY <3>1 DEF IsBlock
  <2> QED BY <1>2, <2>1, <2>2
<1>3. CASE n # 0
  <2>1. \A k \in 1 .. n : seqs[k] \in Seq(S)
    BY DEF IsBlock
  <2> HIDE DEF S
  <2>2. PICK flat : IsFlat(flat, n, S, seqs) /\ FlattenSeq(seqs) = flat[n]
    <3>1. n \in Nat \ {0}
      BY <1>3
    <3> QED BY <1>1, <2>1, <3>1, Flattening
  <2> DEFINE A == {k \in 0 .. n : /\ IsBlock(g, i, flat[k])
                                  /\ \A j \in 1 .. k : \A x, li : Covers(g, seqs[j], x, li) => Covers(g, flat[k], x, li)}
  <2>3. 0 \in A
    <3>1. flat[0] = <<>>
      BY <2>2 DEF IsFlat
    <3>2. IsBlock(g, i, <<>>)
      <4>1. <<>> \in Seq(Seq(Entries(g))) /\ Len(<<>>) = 0
        OBVIOUS
      <4> QED BY <4>1 DEF IsBlock
    <3> QED BY <3>1, <3>2
  <2>4. ASSUME NEW k \in 0 .. n - 1, k \in A PROVE k + 1 \in A
    <3>1. k + 1 \in 1 .. n /\ (k + 1) - 1 = k
      OBVIOUS
    <3>2. flat[k + 1] = flat[k] \o seqs[k + 1]
      BY <2>2, <3>1 DEF IsFlat
    <3>3. IsBlock(g, i, flat[k]) /\ IsBlock(g, i, seqs[k + 1])
          /\ \A j \in 1 .. k : \A x, li : Covers(g, seqs[j], x, li) => Covers(g, flat[k], x, li)
      BY <2>4, <3>1
    <3>4. IsBlock(g, i, flat[k + 1])
          /\ \A x, li : Covers(g, flat[k], x, li) \/ Covers(g, seqs[k + 1], x, li) => Covers(g, flat[k + 1], x, li)
      BY <3>2, <3>3, BlockConcat
    <3>5. \A j \in 1 .. k + 1 : j \in 1 .. k \/ j = k + 1
      OBVIOUS
    <3>6. \A j \in 1 .. k + 1 : \A x, li : Covers(g, seqs[j], x, li) => Covers(g, flat[k + 1], x, li)
      BY <3>3, <3>4, <3>5
    <3> QED BY <3>1, <3>4, <3>6
  <2>5. 0 .. n \subseteq A
    <3> HIDE DEF A
    <3> QED BY <2>3, <2>4, UpTo
  <2>6. n \in A
    BY <2>5
  <2> QED BY <2>2, <2>6
<1> QED BY <1>2, <1>3

(* Without its empty packets.                                              *)
LEMMA BlockKept ==
    ASSUME NEW g, NEW i, NEW f, IsBlock(g, i, f), NEW packets,
           packets = Keep(f, {s \in DOMAIN f : f[s] # <<>>}), g.packets[i] = packets
    PROVE  /\ Len(packets) \in Nat /\ DOMAIN packets = 1 .. Len(packets)
           /\ \A s \in DOMAIN packets :
                 /\ Len(packets[s]) \in Nat /\ DOMAIN packets[s] = 1 .. Len(packets[s])
                 /\ \A k \in DOMAIN packets[s] : EntrySound(g, i, s, packets[s][k])
           /\ \A x, li : Covers(g, f, x, li) => SentBy(g, i, Len(packets), x, li)
<1> DEFINE S == {s \in DOMAIN f : f[s] # <<>>}
           E == Entries(g)
<1>1. f \in Seq(Seq(E))
  BY DEF IsBlock
<1> HIDE DEF E
<1>2. PICK n \in Nat : n = Len(f) /\ DOMAIN f = 1 .. n /\ f = [k \in 1 .. n |-> f[k]]
  BY <1>1
<1>3. IsKept(packets, f, S)
  <2>1. S \subseteq 1 .. n
    BY <1>2
  <2> HIDE DEF S
  <2>2. IsKept(Keep(f, S), f, S)
    BY <1>2, <2>1, KeepFacts
  <2> QED BY <2>2 DEF S
<1>4. \A s \in 1 .. n : \A x, li : Carries(g, f[s], x, li) => s \in S
  <2> SUFFICES ASSUME NEW s \in 1 .. n, NEW x, NEW li, Carries(g, f[s], x, li) PROVE f[s] # <<>>
    BY <1>2
  <2>1. DOMAIN f[s] # {}
    BY DEF Carries
  <2>2. DOMAIN <<>> = {}
    OBVIOUS
  <2> QED BY <2>1, <2>2
<1>5. S \subseteq 1 .. n
  BY <1>2
<1> HIDE DEF S
<1>6. PICK N \in Nat : N = Len(packets) /\ DOMAIN packets = 1 .. N
  BY <1>3 DEF IsKept
<1>7. ASSUME NEW s \in 1 .. N
      PROVE  /\ Len(packets[s]) \in Nat /\ DOMAIN packets[s] = 1 .. Len(packets[s])
             /\ \A k \in DOMAIN packets[s] : EntrySound(g, i, s, packets[s][k])
  <2>1. PICK z \in S : packets[s] = f[z] /\ \A y \in S : y < z => \E j \in 1 .. s - 1 : packets[j] = f[y]
    BY <1>3, <1>6 DEF IsKept
  <2>2. z \in 1 .. n /\ f[z] \in Seq(E)
    BY <1>1, <1>2, <1>5
  <2>3. Len(f[z]) \in Nat /\ DOMAIN f[z] = 1 .. Len(f[z]) /\ \A k \in DOMAIN f[z] : f[z][k] \in E
    BY <2>2
  <2>4. ASSUME NEW k \in DOMAIN f[z] PROVE EntrySound(g, i, s, f[z][k])
    <3> DEFINE e == f[z][k]
               li == LineOf(g, e)
    <3>1. BehindAbove(g, i, f, z, e)
      BY <1>2, <2>2, <2>3 DEF IsBlock
    <3>2. e.band \in Bands(g)
      BY <2>3 DEF E, Entries
    <3>3. li \in 0 .. Lines(g, i, e.band) - 1 /\ (li > 0 => \E x \in 1 .. z - 1 : Carries(g, f[x], e.band, li - 1))
      BY <3>1 DEF BehindAbove
    <3> HIDE DEF e, li
    <3>4. ASSUME li > 0 PROVE SentBy(g, i, s - 1, e.band, li - 1)
      <4>1. PICK x \in 1 .. z - 1 : Carries(g, f[x], e.band, li - 1)
        BY <3>3, <3>4
      <4>2. x \in 1 .. n /\ x < z
        BY <2>2
      <4>3. PICK j \in 1 .. s - 1 : packets[j] = f[x]
        BY <1>4, <2>1, <4>1, <4>2
      <4> QED BY <4>1, <4>3 DEF SentBy
    <3> QED BY <3>2, <3>3, <3>4 DEF EntrySound, e, li
  <2> QED BY <2>1, <2>3, <2>4
<1>8. ASSUME NEW x, NEW li, Covers(g, f, x, li) PROVE SentBy(g, i, N, x, li)
  <2>1. PICK s \in 1 .. n : Carries(g, f[s], x, li)
    BY <1>2, <1>8 DEF Covers
  <2>2. s \in S
    BY <1>4, <2>1
  <2>3. PICK k \in 1 .. N : packets[k] = f[s]
    BY <1>3, <1>6, <2>2 DEF IsKept
  <2> QED BY <2>1, <2>3 DEF SentBy
<1> QED BY <1>6, <1>7, <1>8

(* What the packets of a precinct rest on: the bands of the components     *)
(* decomposed, in the order of their filter types, then the others; as     *)
(* many lines of each in every precinct as its filter type has.            *)
Shaped(g, i) ==
    /\ g.nly \in Nat /\ g.sd \in Nat /\ Decomposed(g) \in Nat \ {0} /\ Beta1(g) \in Nat \ {0} /\ 2 ^ g.nly \in Nat
    /\ NBeta(g) = Beta1(g) + 3 * g.nly
    /\ \A b \in Bands(g) : /\ Span(g, b) \in Nat \ {0} /\ LineStart(g, b) \in Nat
                           /\ Lines(g, i, b) \in 0 .. Span(g, b)
                           /\ LineEnd(g, i, b) = LineStart(g, b) + Lines(g, i, b)
    /\ \A c \in 0 .. Decomposed(g) - 1 :
          /\ \A beta \in 0 .. Beta1(g) - 1 : Span(g, BandIndex(g, beta, c)) = 1
          /\ \A k \in 0 .. g.nly - 1 : \A j \in 0 .. 2 :
                Span(g, BandIndex(g, Beta1(g) + 3 * k + j, c)) = Span(g, BandIndex(g, Beta1(g) + 3 * k, 0))
    /\ \A c \in 0 .. g.sd - 1 : LET b == BandIndex(g, 0, Decomposed(g) + c)
                                IN  Span(g, b) = 2 ^ g.nly /\ LineStart(g, b) = 0

LEMMA BandPlaces ==
    ASSUME NEW g, g.sd \in Nat, Decomposed(g) \in Nat \ {0}, NBeta(g) \in Nat
    PROVE  /\ \A beta \in 0 .. NBeta(g) - 1 : \A c \in 0 .. Decomposed(g) - 1 : BandIndex(g, beta, c) \in Bands(g)
           /\ \A c \in 0 .. g.sd - 1 : BandIndex(g, 0, Decomposed(g) + c) \in Bands(g)
           /\ \A b \in Bands(g) :
                 \/ \E beta \in 0 .. NBeta(g) - 1 : \E c \in 0 .. Decomposed(g) - 1 : b = BandIndex(g, beta, c)
                 \/ \E c \in 0 .. g.sd - 1 : b = BandIndex(g, 0, Decomposed(g) + c)
<1>1. PICK w \in Nat \ {0} : w = Decomposed(g)
  OBVIOUS
<1>2. PICK n \in Nat : n = NBeta(g)
  OBVIOUS
<1>3. PICK z \in Nat : z = w * n
  OBVIOUS
<1>4. PICK sd \in Nat : sd = g.sd
  OBVIOUS
<1>5. Bands(g) = 0 .. z + sd - 1
  BY <1>1, <1>2, <1>3, <1>4 DEF Bands, NumBands
<1>6. /\ \A beta, c : c < w => BandIndex(g, beta, c) = w * beta + c
      /\ \A c \in 0 .. sd - 1 : BandIndex(g, 0, w + c) = z + c
  <2>1. \A beta, c : BandIndex(g, beta, c) = IF c < w THEN w * beta + c ELSE z + (c - w)
    BY <1>1, <1>2, <1>3 DEF BandIndex
  <2>2. \A c \in 0 .. sd - 1 : ~(w + c < w) /\ z + ((w + c) - w) = z + c
    OBVIOUS
  <2> QED BY <2>1, <2>2
<1>7. ASSUME NEW beta \in 0 .. n - 1, NEW c \in 0 .. w - 1 PROVE BandIndex(g, beta, c) \in Bands(g)
  <2>1. PICK k \in Nat : n = beta + 1 + k
    <3>1. n - (beta + 1) \in Nat /\ n = beta + 1 + (n - (beta + 1))
      OBVIOUS
    <3> QED BY <3>1
  <2>2. z = w * beta + w + w * k /\ w * beta \in Nat /\ w * k \in Nat
    BY <1>3, <2>1
  <2>3. PICK x \in Nat : x = w * beta
    BY <2>2
  <2>4. x + c \in 0 .. z + sd - 1
    <3>1. PICK y \in Nat : y = w * k
      BY <2>2
    <3> QED BY <2>2, <2>3, <3>1
  <2> QED BY <1>5, <1>6, <2>3, <2>4
<1>8. ASSUME NEW c \in 0 .. sd - 1 PROVE BandIndex(g, 0, w + c) \in Bands(g)
  BY <1>5, <1>6
<1>9. ASSUME NEW b \in Bands(g)
      PROVE  \/ \E beta \in 0 .. n - 1 : \E c \in 0 .. w - 1 : b = BandIndex(g, beta, c)
             \/ \E c \in 0 .. sd - 1 : b = BandIndex(g, 0, w + c)
  <2>1. CASE b < z
    <3>1. b \in Nat
      BY <1>5
    <3>2. PICK q \in Nat : \E c \in 0 .. w - 1 : b = q * w + c
      <4>1. b \div w \in Nat /\ (b % w) \in 0 .. w - 1 /\ b = (b \div w) * w + (b % w)
        BY <3>1, Parts
      <4> QED BY <4>1
    <3>3. PICK c \in 0 .. w - 1 : b = q * w + c
      BY <3>2
    <3>4. q < n
      <4> SUFFICES ASSUME ~(q < n) PROVE FALSE
        OBVIOUS
      <4>1. PICK k \in Nat : q = n + k
        <5>1. q - n \in Nat /\ q = n + (q - n)
          OBVIOUS
        <5> QED BY <5>1
      <4>2. q * w = z + k * w /\ k * w \in Nat
        BY <1>3, <4>1
      <4>3. PICK x \in Nat : x = k * w
        BY <4>2
      <4> QED BY <2>1, <3>3, <4>2, <4>3
    <3>5. BandIndex(g, q, c) = b
      <4>1. c < w /\ w * q = q * w
        OBVIOUS
      <4> QED BY <1>6, <3>3, <4>1
    <3> QED BY <3>4, <3>5
  <2>2. CASE ~(b < z)
    <3>1. b - z \in 0 .. sd - 1 /\ b = z + (b - z)
      BY <1>5, <2>2
    <3> QED BY <1>6, <3>1
  <2> QED BY <2>1, <2>2
<1> QED BY <1>1, <1>2, <1>4, <1>7, <1>8, <1>9

(* A packet carries the same line of some filter types, of all components, *)
(* where they have it.                                                     *)
Types(g, m, betas) == betas = [k \in 1 .. m |-> betas[k]] /\ \A k \in 1 .. m : betas[k] \in 0 .. NBeta(g) - 1
LEMMA RowSent ==
    ASSUME NEW g, NEW i, NEW m \in Nat, NEW betas, NEW rel \in Nat, Shaped(g, i), Types(g, m, betas)
    PROVE  LET packet == LinePacket(g, i, betas, rel)
           IN  /\ packet \in Seq(Entries(g))
               /\ \A k \in 1 .. Len(packet) :
                     LET b == packet[k].band
                     IN  /\ LineOf(g, packet[k]) = rel /\ rel < Lines(g, i, b)
                         /\ \E x \in 1 .. m : \E c \in 0 .. Decomposed(g) - 1 : b = BandIndex(g, betas[x], c)
               /\ \A x \in 1 .. m : \A c \in 0 .. Decomposed(g) - 1 :
                     rel < Lines(g, i, BandIndex(g, betas[x], c)) => Carries(g, packet, BandIndex(g, betas[x], c), rel)
<1>1. PICK w \in Nat \ {0} : w = Decomposed(g)
  BY DEF Shaped
<1>2. PICK n \in Nat : n = m * w
  OBVIOUS
<1>3. Len(betas) = m
  BY IsSequence DEF Types
<1> DEFINE At(k) == BandIndex(g, betas[1 + ((k - 1) \div w)], (k - 1) % w)
           Entry(k) == [band |-> At(k), line |-> rel + LineStart(g, At(k))]
           all == [k \in 1 .. n |-> Entry(k)]
           S == {k \in DOMAIN all : all[k].line < LineEnd(g, i, all[k].band)}
           packet == LinePacket(g, i, betas, rel)
<1>4. packet = Keep(all, S)
  BY <1>1, <1>2, <1>3 DEF LinePacket
<1>5. ASSUME NEW k \in 1 .. n
      PROVE  \E x \in 1 .. m : \E c \in 0 .. w - 1 : At(k) = BandIndex(g, betas[x], c) /\ At(k) \in Bands(g)
  <2>1. PICK y \in Nat : y = k - 1
    OBVIOUS
  <2>2. PICK q \in Nat : q = y \div w
    BY Parts
  <2>3. PICK c \in 0 .. w - 1 : c = (y % w) /\ y = q * w + c
    BY <2>2, Parts
  <2>4. q < m
    <3> SUFFICES ASSUME ~(q < m) PROVE FALSE
      OBVIOUS
    <3>1. PICK j \in Nat : q = m + j
      <4>1. q - m \in Nat /\ q = m + (q - m)
        OBVIOUS
      <4> QED BY <4>1
    <3>2. q * w = n + j * w /\ j * w \in Nat
      BY <1>2, <3>1
    <3>3. PICK z \in Nat : z = j * w
      BY <3>2
    <3> QED BY <2>1, <2>3, <3>2, <3>3
  <2>5. At(k) = BandIndex(g, betas[1 + q], c)
    BY <2>1, <2>2, <2>3
  <2>6. 1 + q \in 1 .. m /\ betas[1 + q] \in 0 .. NBeta(g) - 1
    BY <2>4 DEF Types
  <2>7. BandIndex(g, betas[1 + q], c) \in Bands(g)
    <3>1. NBeta(g) \in Nat
      BY DEF Shaped
    <3> QED BY <1>1, <2>6, <3>1, BandPlaces DEF Shaped
  <2> HIDE DEF At
  <2> QED BY <2>5, <2>6, <2>7
<1>6. ASSUME NEW x \in 1 .. m, NEW c \in 0 .. w - 1
      PROVE  \E k \in 1 .. n : At(k) = BandIndex(g, betas[x], c)
  <2>1. PICK q \in Nat : x = 1 + q /\ q < m
    <3>1. x - 1 \in Nat /\ x = 1 + (x - 1)
      OBVIOUS
    <3> QED BY <3>1
  <2>2. PICK y \in Nat : y = q * w + c
    <3>1. q * w \in Nat
      BY <2>1
    <3> QED BY <3>1
  <2>3. y \div w = q /\ y % w = c
    BY <2>2, DivMod
  <2>4. y + 1 \in 1 .. n
    <3>1. PICK j \in Nat : m = q + 1 + j
      <4>1. m - (q + 1) \in Nat /\ m = q + 1 + (m - (q + 1))
        BY <2>1
      <4> QED BY <4>1
    <3>2. n = q * w + w + j * w /\ j * w \in Nat /\ q * w \in Nat
      BY <1>2, <3>1
    <3>3. PICK z \in Nat : z = j * w
      BY <3>2
    <3>4. PICK v \in Nat : v = q * w
      BY <3>2
    <3> QED BY <2>2, <3>2, <3>3, <3>4
  <2>5. (y + 1) - 1 = y
    BY <2>2
  <2>6. At(y + 1) = BandIndex(g, betas[x], c)
    BY <2>1, <2>3, <2>5
  <2> HIDE DEF At
  <2> QED BY <2>4, <2>6
<1>7. \A k \in 1 .. n : /\ Entry(k).band = At(k) /\ Entry(k).line = rel + LineStart(g, At(k))
                        /\ Entry(k) \in Entries(g) /\ LineOf(g, Entry(k)) = rel
                        /\ (k \in S <=> rel < Lines(g, i, At(k)))
  <2> SUFFICES ASSUME NEW k \in 1 .. n
               PROVE  /\ Entry(k) \in Entries(g) /\ LineOf(g, Entry(k)) = rel
                      /\ (k \in S <=> rel < Lines(g, i, At(k)))
    OBVIOUS
  <2>1. At(k) \in Bands(g)
    BY <1>5
  <2> HIDE DEF At
  <2>2. PICK a \in Nat : a = LineStart(g, At(k))
    BY <2>1 DEF Shaped
  <2>3. PICK l \in Nat : l = Lines(g, i, At(k))
    BY <2>1 DEF Shaped
  <2>4. LineEnd(g, i, At(k)) = a + l
    BY <2>1, <2>2, <2>3 DEF Shaped
  <2>5. Entry(k) = [band |-> At(k), line |-> rel + a] /\ rel + a \in Nat
    BY <2>2
  <2>6. k \in S <=> rel + a < a + l
    BY <2>4, <2>5
  <2>7. LineOf(g, Entry(k)) = rel
    <3>1. (rel + a) - a = rel
      OBVIOUS
    <3> QED BY <2>2, <2>5, <3>1 DEF LineOf
  <2> QED BY <2>1, <2>3, <2>5, <2>6, <2>7 DEF Entries
<1>8. IsKept(packet, all, S)
  <2>1. S \subseteq 1 .. n /\ all = [k \in 1 .. n |-> all[k]]
    OBVIOUS
  <2> HIDE DEF S, all, packet
  <2> QED BY <1>4, <2>1, KeepFacts
<1>9. S \subseteq 1 .. n /\ \A k \in 1 .. n : all[k] = Entry(k)
  OBVIOUS
<1> HIDE DEF S, all, Entry, packet
<1>10. PICK N \in Nat : N = Len(packet) /\ DOMAIN packet = 1 .. N
  BY <1>8 DEF IsKept
<1>11. ASSUME NEW k \in 1 .. N
       PROVE  \E x \in S : x \in 1 .. n /\ packet[k] = Entry(x)
  BY <1>8, <1>9, <1>10 DEF IsKept
<1>12. packet \in Seq(Entries(g))
  <2>1. \A k \in 1 .. N : packet[k] \in Entries(g)
    BY <1>7, <1>11
  <2>2. packet = [k \in 1 .. N |-> packet[k]]
    <3>1. packet = [k \in DOMAIN packet |-> packet[k]]
      BY <1>4 DEF Keep
    <3> QED BY <1>10, <3>1
  <2>3. packet \in [1 .. N -> Entries(g)]
    BY <2>1, <2>2
  <2> QED BY <2>3
<1>13. ASSUME NEW k \in 1 .. Len(packet)
       PROVE  /\ LineOf(g, packet[k]) = rel /\ rel < Lines(g, i, packet[k].band)
              /\ \E x \in 1 .. m : \E c \in 0 .. w - 1 : packet[k].band = BandIndex(g, betas[x], c)
  <2>1. PICK x \in S : x \in 1 .. n /\ packet[k] = Entry(x)
    BY <1>10, <1>11
  <2> HIDE DEF At
  <2> QED BY <1>5, <1>7, <2>1
<1>14. ASSUME NEW x \in 1 .. m, NEW c \in 0 .. w - 1, rel < Lines(g, i, BandIndex(g, betas[x], c))
       PROVE  Carries(g, packet, BandIndex(g, betas[x], c), rel)
  <2>1. PICK k \in 1 .. n : At(k) = BandIndex(g, betas[x], c)
    BY <1>6
  <2> HIDE DEF At
  <2>2. k \in S
    BY <1>7, <1>14, <2>1
  <2>3. PICK j \in 1 .. N : packet[j] = Entry(k)
    BY <1>8, <1>9, <1>10, <2>2 DEF IsKept
  <2> QED BY <1>7, <1>10, <2>1, <2>3 DEF Carries
<1> QED BY <1>1, <1>12, <1>13, <1>14 DEF packet

LEMMA RowsSequence ==
    ASSUME NEW E, NEW n \in Nat, NEW f, f = [s \in 1 .. n |-> f[s]], \A s \in 1 .. n : f[s] \in Seq(E)
    PROVE  f \in Seq(Seq(E)) /\ Len(f) = n
<1> DEFINE S == Seq(E)
<1>1. \A s \in 1 .. n : f[s] \in S
  OBVIOUS
<1> HIDE DEF S
<1>2. f \in [1 .. n -> S]
  BY <1>1
<1>3. f \in Seq(S)
  BY <1>2
<1> QED BY <1>3, IsSequence DEF S

(* The packets of one level, line by line.                                 *)
LEMMA LevelSent ==
    ASSUME NEW g, NEW i, Shaped(g, i), NEW k \in 0 .. g.nly - 1
    PROVE  LET beta0 == Beta1(g) + 3 * k
               f == LevelPackets(g, i, beta0)
           IN  /\ IsBlock(g, i, f)
               /\ \A j \in 0 .. 2 : \A c \in 0 .. Decomposed(g) - 1 :
                     \A li \in 0 .. Lines(g, i, BandIndex(g, beta0 + j, c)) - 1 :
                        Covers(g, f, BandIndex(g, beta0 + j, c), li)
<1>1. PICK beta0 \in Nat : beta0 = Beta1(g) + 3 * k /\ \A j \in 0 .. 2 : beta0 + j \in 0 .. NBeta(g) - 1
  <2>1. PICK l \in Nat : l = g.nly
    BY DEF Shaped
  <2>2. PICK b \in Nat : b = Beta1(g)
    BY DEF Shaped
  <2>3. NBeta(g) = b + 3 * l
    BY <2>1, <2>2 DEF Shaped
  <2>4. k \in 0 .. l - 1
    BY <2>1
  <2> QED BY <2>2, <2>3, <2>4
<1>2. PICK w \in Nat \ {0} : w = Decomposed(g)
  BY DEF Shaped
<1>3. \A j \in 0 .. 2 : \A c \in 0 .. w - 1 : BandIndex(g, beta0 + j, c) \in Bands(g)
  <2>1. NBeta(g) \in Nat
    BY DEF Shaped
  <2> QED BY <1>1, <1>2, <2>1, BandPlaces DEF Shaped
<1>4. PICK S \in Nat \ {0} : S = Span(g, BandIndex(g, beta0, 0))
  <2>1. beta0 + 0 = beta0 /\ 0 \in 0 .. 2 /\ 0 \in 0 .. w - 1
    OBVIOUS
  <2>2. BandIndex(g, beta0, 0) \in Bands(g)
    BY <1>3, <2>1
  <2> QED BY <2>2 DEF Shaped
<1>5. \A j \in 0 .. 2 : \A c \in 0 .. w - 1 : Lines(g, i, BandIndex(g, beta0 + j, c)) \in 0 .. S
  <2> SUFFICES ASSUME NEW j \in 0 .. 2, NEW c \in 0 .. w - 1 PROVE Lines(g, i, BandIndex(g, beta0 + j, c)) \in 0 .. S
    OBVIOUS
  <2>1. Span(g, BandIndex(g, beta0 + j, c)) = S
    BY <1>1, <1>2, <1>4 DEF Shaped
  <2> QED BY <1>3, <2>1 DEF Shaped
<1> DEFINE R(s) == LinePacket(g, i, <<beta0 + ((s - 1) % 3)>>, (s - 1) \div 3)
           n == 3 * S
           f == [s \in 1 .. n |-> R(s)]
           BandAt(j, c) == BandIndex(g, beta0 + j, c)
<1>6. LevelPackets(g, i, beta0) = f
  BY <1>4 DEF LevelPackets
<1>7. ASSUME NEW j \in 0 .. 2, NEW rel \in 0 .. S - 1
      PROVE  /\ 3 * rel + j + 1 \in 1 .. n
             /\ R(3 * rel + j + 1) = LinePacket(g, i, <<beta0 + j>>, rel)
             /\ R(3 * rel + j + 1) \in Seq(Entries(g))
             /\ \A x \in 1 .. Len(R(3 * rel + j + 1)) :
                   LET e == R(3 * rel + j + 1)[x]
                   IN  /\ LineOf(g, e) = rel /\ rel < Lines(g, i, e.band)
                       /\ \E c \in 0 .. w - 1 : e.band = BandAt(j, c)
             /\ \A c \in 0 .. w - 1 : rel < Lines(g, i, BandAt(j, c)) => Carries(g, R(3 * rel + j + 1), BandAt(j, c), rel)
  <2>1. 3 * rel + j + 1 \in 1 .. n /\ ((3 * rel + j + 1) - 1) % 3 = j /\ ((3 * rel + j + 1) - 1) \div 3 = rel
    OBVIOUS
  <2>2. R(3 * rel + j + 1) = LinePacket(g, i, <<beta0 + j>>, rel)
    <3> DEFINE s == 3 * rel + j + 1
    <3>1. (s - 1) % 3 = j /\ (s - 1) \div 3 = rel
      BY <2>1
    <3> HIDE DEF s
    <3>2. R(s) = LinePacket(g, i, <<beta0 + j>>, rel)
      BY <3>1
    <3> QED BY <3>2 DEF s
  <2> DEFINE betas == <<beta0 + j>>
  <2>3. Types(g, 1, betas) /\ betas[1] = beta0 + j
    <3>1. betas = [x \in 1 .. 1 |-> betas[x]] /\ betas[1] = beta0 + j /\ \A x \in 1 .. 1 : x = 1
      OBVIOUS
    <3>2. \A x \in 1 .. 1 : betas[x] \in 0 .. NBeta(g) - 1
      BY <1>1, <3>1
    <3> QED BY <3>1, <3>2 DEF Types
  <2> HIDE DEF betas
  <2>4. rel \in Nat /\ 1 \in Nat /\ 1 \in 1 .. 1 /\ \A x \in 1 .. 1 : x = 1
    OBVIOUS
  <2> DEFINE packet == LinePacket(g, i, betas, rel)
  <2>5. /\ packet \in Seq(Entries(g))
        /\ \A x \in 1 .. Len(packet) :
              LET b == packet[x].band
              IN  /\ LineOf(g, packet[x]) = rel /\ rel < Lines(g, i, b)
                  /\ \E y \in 1 .. 1 : \E c \in 0 .. w - 1 : b = BandIndex(g, betas[y], c)
        /\ \A y \in 1 .. 1 : \A c \in 0 .. w - 1 :
              rel < Lines(g, i, BandIndex(g, betas[y], c)) => Carries(g, packet, BandIndex(g, betas[y], c), rel)
    BY <1>2, <2>3, <2>4, RowSent
  <2>6. R(3 * rel + j + 1) = packet
    BY <2>2 DEF betas
  <2> HIDE DEF packet, R
  <2> QED BY <2>1, <2>2, <2>3, <2>4, <2>5, <2>6
<1>8. ASSUME NEW s \in 1 .. n
      PROVE  \E j \in 0 .. 2 : \E rel \in 0 .. S - 1 : s = 3 * rel + j + 1
  <2>1. (s - 1) % 3 \in 0 .. 2 /\ (s - 1) \div 3 \in 0 .. S - 1 /\ s = 3 * ((s - 1) \div 3) + ((s - 1) % 3) + 1
    OBVIOUS
  <2> QED BY <2>1
<1>9. f \in Seq(Seq(Entries(g))) /\ Len(f) = n /\ \A s \in 1 .. n : f[s] = R(s)
  <2>1. n \in Nat /\ f = [s \in 1 .. n |-> f[s]] /\ \A s \in 1 .. n : f[s] = R(s)
    OBVIOUS
  <2> HIDE DEF f, R, n
  <2>2. ASSUME NEW s \in 1 .. n PROVE f[s] \in Seq(Entries(g))
    <3>1. PICK j \in 0 .. 2, rel \in 0 .. S - 1 : s = 3 * rel + j + 1
      BY <1>8
    <3>2. R(3 * rel + j + 1) \in Seq(Entries(g))
      BY <1>7
    <3> QED BY <2>1, <3>1, <3>2
  <2> QED BY <2>1, <2>2, RowsSequence
<1> HIDE DEF f, R, n, BandAt
<1>10. ASSUME NEW s \in 1 .. n, NEW x \in 1 .. Len(f[s]) PROVE BehindAbove(g, i, f, s, f[s][x])
  <2>1. PICK j \in 0 .. 2 : \E rel \in 0 .. S - 1 : s = 3 * rel + j + 1
    BY <1>8
  <2>2. PICK rel \in 0 .. S - 1 : s = 3 * rel + j + 1
    BY <2>1
  <2> DEFINE e == f[s][x]
  <2>3. PICK c \in 0 .. w - 1 : e.band = BandAt(j, c) /\ LineOf(g, e) = rel /\ rel < Lines(g, i, BandAt(j, c))
    <3> DEFINE row == R(3 * rel + j + 1)
    <3>1. f[s] = row
      BY <1>9, <2>2
    <3>2. \A z \in 1 .. Len(row) :
             LET d == row[z]
             IN  /\ LineOf(g, d) = rel /\ rel < Lines(g, i, d.band)
                 /\ \E c \in 0 .. w - 1 : d.band = BandAt(j, c)
      BY <1>7
    <3> HIDE DEF row
    <3>3. x \in 1 .. Len(row) /\ e = row[x]
      BY <3>1
    <3> HIDE DEF e
    <3>4. LineOf(g, e) = rel /\ rel < Lines(g, i, e.band) /\ \E c \in 0 .. w - 1 : e.band = BandAt(j, c)
      BY <3>2, <3>3
    <3> QED BY <3>4
  <2> HIDE DEF e
  <2>4. PICK l \in Nat : l = Lines(g, i, BandAt(j, c))
    <3>1. Lines(g, i, BandAt(j, c)) \in 0 .. S
      BY <1>5 DEF BandAt
    <3> QED BY <3>1
  <2>5. LineOf(g, e) \in 0 .. Lines(g, i, e.band) - 1
    BY <2>3, <2>4
  <2>6. ASSUME rel > 0 PROVE \E z \in 1 .. s - 1 : Carries(g, f[z], BandAt(j, c), rel - 1)
    <3>1. PICK before \in 0 .. S - 1 : before = rel - 1 /\ rel = before + 1
      BY <2>6
    <3>2. before < Lines(g, i, BandAt(j, c))
      BY <2>3, <2>4, <3>1
    <3>3. Carries(g, R(3 * before + j + 1), BandAt(j, c), before) /\ 3 * before + j + 1 \in 1 .. n
      BY <1>7, <3>2
    <3>4. 3 * before + j + 1 \in 1 .. s - 1
      BY <2>2, <3>1
    <3> QED BY <1>9, <3>1, <3>3, <3>4
  <2>7. BehindAbove(g, i, f, s, e)
    BY <2>3, <2>5, <2>6 DEF BehindAbove
  <2> QED BY <2>7 DEF e
<1>11. IsBlock(g, i, f)
  BY <1>9, <1>10 DEF IsBlock
<1>12. ASSUME NEW j \in 0 .. 2, NEW c \in 0 .. w - 1, NEW li \in 0 .. Lines(g, i, BandAt(j, c)) - 1
       PROVE  Covers(g, f, BandAt(j, c), li)
  <2>1. PICK l \in 0 .. S : l = Lines(g, i, BandAt(j, c))
    BY <1>5 DEF BandAt
  <2>2. li \in 0 .. S - 1 /\ li < Lines(g, i, BandAt(j, c))
    BY <2>1
  <2>3. Carries(g, R(3 * li + j + 1), BandAt(j, c), li) /\ 3 * li + j + 1 \in 1 .. n
    BY <1>7, <2>2
  <2> QED BY <1>9, <2>3 DEF Covers
<1> QED BY <1>1, <1>2, <1>6, <1>11, <1>12 DEF BandAt

(* The packets of the components that are not decomposed.                  *)
LEMMA UndecomposedSent ==
    ASSUME NEW g, NEW i, Shaped(g, i)
    PROVE  LET f == UndecomposedPackets(g, i)
           IN  /\ IsBlock(g, i, f)
               /\ \A c \in 0 .. g.sd - 1 : \A li \in 0 .. Lines(g, i, BandIndex(g, 0, Decomposed(g) + c)) - 1 :
                     Covers(g, f, BandIndex(g, 0, Decomposed(g) + c), li)
<1>1. PICK sd \in Nat : sd = g.sd
  BY DEF Shaped
<1>2. PICK S \in Nat : S = 2 ^ g.nly
  BY DEF Shaped
<1>3. PICK w \in Nat \ {0} : w = Decomposed(g)
  BY DEF Shaped
<1>4. PICK n \in Nat : n = sd * S
  OBVIOUS
<1> DEFINE BandAt(c) == BandIndex(g, 0, w + c)
           R(c, line) == IF line < LineEnd(g, i, BandAt(c)) THEN <<[band |-> BandAt(c), line |-> line]>> ELSE <<>>
           f == [s \in 1 .. n |-> R((s - 1) % sd, (s - 1) \div sd)]
<1>5. UndecomposedPackets(g, i) = f
  BY <1>1, <1>2, <1>3, <1>4 DEF UndecomposedPackets
<1>6. ASSUME NEW c \in 0 .. sd - 1
      PROVE  BandAt(c) \in Bands(g) /\ Lines(g, i, BandAt(c)) \in 0 .. S /\ LineStart(g, BandAt(c)) = 0
             /\ LineEnd(g, i, BandAt(c)) = Lines(g, i, BandAt(c))
  <2>1. NBeta(g) \in Nat
    BY DEF Shaped
  <2>2. BandAt(c) \in Bands(g)
    BY <1>1, <1>3, <2>1, BandPlaces DEF Shaped
  <2>3. Span(g, BandAt(c)) = S /\ LineStart(g, BandAt(c)) = 0
    BY <1>1, <1>2, <1>3 DEF Shaped
  <2> HIDE DEF BandAt
  <2>4. Lines(g, i, BandAt(c)) \in 0 .. S /\ LineEnd(g, i, BandAt(c)) = 0 + Lines(g, i, BandAt(c))
    BY <2>2, <2>3 DEF Shaped
  <2>5. PICK l \in 0 .. S : l = Lines(g, i, BandAt(c))
    BY <2>4
  <2> QED BY <2>2, <2>3, <2>4, <2>5
<1> HIDE DEF BandAt
<1>7. ASSUME NEW c \in 0 .. sd - 1, NEW line \in Nat
      PROVE  /\ R(c, line) \in Seq(Entries(g))
             /\ \A x \in 1 .. Len(R(c, line)) : /\ R(c, line)[x].band = BandAt(c) /\ LineOf(g, R(c, line)[x]) = line
                                                /\ line < Lines(g, i, BandAt(c))
             /\ line < Lines(g, i, BandAt(c)) => Carries(g, R(c, line), BandAt(c), line)
  <2> DEFINE e == [band |-> BandAt(c), line |-> line]
  <2>1. e \in Entries(g) /\ e.band = BandAt(c) /\ e.line = line
    BY <1>6 DEF Entries
  <2>2. LineOf(g, e) = line
    <3>1. line - 0 = line
      OBVIOUS
    <3> QED BY <1>6, <2>1, <3>1 DEF LineOf
  <2> HIDE DEF e
  <2>3. CASE line < Lines(g, i, BandAt(c))
    <3>1. R(c, line) = <<e>>
      BY <1>6, <2>3 DEF e
    <3>2. <<e>> \in Seq(Entries(g)) /\ Len(<<e>>) = 1 /\ <<e>>[1] = e /\ DOMAIN <<e>> = 1 .. 1
      BY <2>1
    <3> HIDE DEF R
    <3>3. Carries(g, <<e>>, BandAt(c), line)
      <4>1. 1 \in DOMAIN <<e>>
        BY <3>2
      <4> QED BY <2>1, <2>2, <3>2, <4>1 DEF Carries
    <3>4. \A x \in 1 .. 1 : x = 1
      OBVIOUS
    <3> QED BY <2>1, <2>2, <2>3, <3>1, <3>2, <3>3, <3>4
  <2>4. CASE ~(line < Lines(g, i, BandAt(c)))
    <3>1. R(c, line) = <<>>
      BY <1>6, <2>4
    <3>2. <<>> \in Seq(Entries(g)) /\ Len(<<>>) = 0 /\ 1 .. 0 = {}
      OBVIOUS
    <3> QED BY <2>4, <3>1, <3>2
  <2> QED BY <2>3, <2>4
<1>8. ASSUME NEW s \in 1 .. n
      PROVE  \E c \in 0 .. sd - 1 : \E rel \in 0 .. S - 1 : s = rel * sd + c + 1 /\ f[s] = R(c, rel)
  <2>1. sd # 0
    <3>1. CASE sd = 0
      <4>1. n = 0
        BY <1>4, <3>1
      <4> QED BY <4>1
    <3> QED BY <3>1
  <2>2. PICK y \in Nat : y = s - 1 /\ s = y + 1
    <3>1. s - 1 \in Nat /\ s = (s - 1) + 1
      OBVIOUS
    <3> QED BY <3>1
  <2>3. PICK q \in Nat : q = y \div sd
    BY <2>1, Parts
  <2>4. PICK c \in 0 .. sd - 1 : c = (y % sd) /\ y = q * sd + c
    <3>1. sd \in Nat \ {0}
      BY <2>1
    <3>2. (y % sd) \in 0 .. sd - 1 /\ y = (y \div sd) * sd + (y % sd)
      BY <3>1, Parts
    <3> QED BY <2>3, <3>2
  <2>5. q < S
    <3> SUFFICES ASSUME ~(q < S) PROVE FALSE
      OBVIOUS
    <3>1. PICK j \in Nat : q = S + j
      <4>1. q - S \in Nat /\ q = S + (q - S)
        OBVIOUS
      <4> QED BY <4>1
    <3>2. q * sd = n + j * sd /\ j * sd \in Nat
      BY <1>4, <3>1
    <3>3. PICK z \in Nat : z = j * sd
      BY <3>2
    <3> QED BY <2>2, <2>4, <3>2, <3>3
  <2>6. f[s] = R((s - 1) % sd, (s - 1) \div sd)
    OBVIOUS
  <2>7. f[s] = R(c, q)
    <3> HIDE DEF f, R
    <3> QED BY <2>2, <2>3, <2>4, <2>6
  <2>8. s = q * sd + c + 1
    <3>1. PICK z \in Nat : z = q * sd
      OBVIOUS
    <3> QED BY <2>2, <2>4, <3>1
  <2> HIDE DEF f, R
  <2> QED BY <2>5, <2>7, <2>8
<1>9. ASSUME NEW c \in 0 .. sd - 1, NEW rel \in 0 .. S - 1
      PROVE  rel * sd + c + 1 \in 1 .. n /\ f[rel * sd + c + 1] = R(c, rel)
  <2>1. PICK y \in Nat : y = rel * sd + c
    <3>1. rel * sd \in Nat
      OBVIOUS
    <3> QED BY <3>1
  <2>2. y \div sd = rel /\ y % sd = c
    BY <2>1, DivMod
  <2>3. y + 1 \in 1 .. n
    <3>1. PICK j \in Nat : S = rel + 1 + j
      <4>1. S - (rel + 1) \in Nat /\ S = rel + 1 + (S - (rel + 1))
        OBVIOUS
      <4> QED BY <4>1
    <3>2. n = rel * sd + sd + j * sd /\ j * sd \in Nat /\ rel * sd \in Nat
      BY <1>4, <3>1
    <3>3. PICK z \in Nat : z = j * sd
      BY <3>2
    <3>4. PICK v \in Nat : v = rel * sd
      BY <3>2
    <3> QED BY <2>1, <3>2, <3>3, <3>4
  <2>4. (y + 1) - 1 = y /\ rel * sd + c + 1 = y + 1
    BY <2>1
  <2>5. f[y + 1] = R(((y + 1) - 1) % sd, ((y + 1) - 1) \div sd)
    BY <2>3
  <2> HIDE DEF f, R
  <2> QED BY <2>2, <2>3, <2>4, <2>5
<1>10. f \in Seq(Seq(Entries(g))) /\ Len(f) = n
  <2>1. f = [s \in 1 .. n |-> f[s]]
    OBVIOUS
  <2> HIDE DEF f, R
  <2>2. ASSUME NEW s \in 1 .. n PROVE f[s] \in Seq(Entries(g))
    <3>1. PICK c \in 0 .. sd - 1, rel \in 0 .. S - 1 : f[s] = R(c, rel)
      BY <1>8
    <3>2. R(c, rel) \in Seq(Entries(g))
      <4>1. rel \in Nat
        OBVIOUS
      <4> QED BY <1>7, <4>1
    <3> QED BY <3>1, <3>2
  <2> QED BY <2>1, <2>2, RowsSequence
<1> HIDE DEF f, R
<1>11. ASSUME NEW s \in 1 .. n, NEW x \in 1 .. Len(f[s]) PROVE BehindAbove(g, i, f, s, f[s][x])
  <2>1. PICK c \in 0 .. sd - 1 : \E rel \in 0 .. S - 1 : s = rel * sd + c + 1 /\ f[s] = R(c, rel)
    BY <1>8
  <2>2. PICK rel \in 0 .. S - 1 : s = rel * sd + c + 1 /\ f[s] = R(c, rel)
    BY <2>1
  <2> DEFINE e == f[s][x]
  <2>3. e.band = BandAt(c) /\ LineOf(g, e) = rel /\ rel < Lines(g, i, BandAt(c))
    <3> DEFINE row == R(c, rel)
    <3>1. f[s] = row
      BY <2>2
    <3>2. \A z \in 1 .. Len(row) : row[z].band = BandAt(c) /\ LineOf(g, row[z]) = rel /\ rel < Lines(g, i, BandAt(c))
      BY <1>7
    <3> HIDE DEF row
    <3> QED BY <3>1, <3>2
  <2> HIDE DEF e
  <2>4. PICK l \in Nat : l = Lines(g, i, BandAt(c))
    BY <1>6
  <2>5. LineOf(g, e) \in 0 .. Lines(g, i, e.band) - 1
    BY <2>3, <2>4
  <2>6. ASSUME rel > 0 PROVE \E z \in 1 .. s - 1 : Carries(g, f[z], BandAt(c), rel - 1)
    <3>1. PICK before \in 0 .. S - 1 : before = rel - 1 /\ rel = before + 1
      BY <2>6
    <3>2. before < Lines(g, i, BandAt(c))
      BY <2>3, <2>4, <3>1
    <3>3. Carries(g, R(c, before), BandAt(c), before)
      <4>1. before \in Nat
        OBVIOUS
      <4> QED BY <1>7, <3>2, <4>1
    <3>4. before * sd + c + 1 \in 1 .. n /\ f[before * sd + c + 1] = R(c, before)
      BY <1>9
    <3>5. before * sd + c + 1 \in 1 .. s - 1
      <4>1. PICK z \in Nat : z = before * sd
        OBVIOUS
      <4>2. rel * sd = z + sd
        BY <3>1, <4>1
      <4> QED BY <2>2, <4>1, <4>2
    <3> QED BY <3>1, <3>3, <3>4, <3>5
  <2>7. BehindAbove(g, i, f, s, e)
    BY <2>3, <2>5, <2>6 DEF BehindAbove
  <2> QED BY <2>7 DEF e
<1>12. IsBlock(g, i, f)
  BY <1>10, <1>11 DEF IsBlock
<1>13. ASSUME NEW c \in 0 .. sd - 1, NEW li \in 0 .. Lines(g, i, BandAt(c)) - 1
       PROVE  Covers(g, f, BandAt(c), li)
  <2>1. PICK l \in 0 .. S : l = Lines(g, i, BandAt(c))
    BY <1>6
  <2>2. li \in 0 .. S - 1 /\ li < Lines(g, i, BandAt(c))
    BY <2>1
  <2>3. Carries(g, R(c, li), BandAt(c), li)
    BY <1>7, <2>2
  <2>4. li * sd + c + 1 \in 1 .. n /\ f[li * sd + c + 1] = R(c, li)
    BY <1>9, <2>2
  <2> QED BY <1>10, <2>3, <2>4 DEF Covers
<1> QED BY <1>1, <1>3, <1>5, <1>12, <1>13 DEF BandAt

(* The packet of the low-pass and horizontal-only bands.                   *)
LEMMA FirstSent ==
    ASSUME NEW g, NEW i, Shaped(g, i)
    PROVE  LET f == <<LinePacket(g, i, [k \in 1 .. Beta1(g) |-> k - 1], 0)>>
           IN  /\ IsBlock(g, i, f)
               /\ \A beta \in 0 .. Beta1(g) - 1 : \A c \in 0 .. Decomposed(g) - 1 :
                     \A li \in 0 .. Lines(g, i, BandIndex(g, beta, c)) - 1 : Covers(g, f, BandIndex(g, beta, c), li)
<1>1. PICK m \in Nat \ {0} : m = Beta1(g)
  BY DEF Shaped
<1>2. PICK w \in Nat \ {0} : w = Decomposed(g)
  BY DEF Shaped
<1> DEFINE betas == [k \in 1 .. m |-> k - 1]
           packet == LinePacket(g, i, betas, 0)
           f == <<packet>>
<1>3. \A x \in 1 .. m : betas[x] = x - 1
  OBVIOUS
<1>4. Types(g, m, betas)
  <2>1. PICK l \in Nat : l = g.nly
    BY DEF Shaped
  <2>2. NBeta(g) = m + 3 * l
    BY <1>1, <2>1 DEF Shaped
  <2>3. betas = [x \in 1 .. m |-> betas[x]]
    BY <1>3
  <2>4. \A x \in 1 .. m : betas[x] \in 0 .. NBeta(g) - 1
    BY <1>3, <2>2
  <2> QED BY <2>3, <2>4 DEF Types
<1> HIDE DEF betas
<1>5. /\ packet \in Seq(Entries(g))
      /\ \A k \in 1 .. Len(packet) :
            LET b == packet[k].band
            IN  /\ LineOf(g, packet[k]) = 0 /\ 0 < Lines(g, i, b)
                /\ \E x \in 1 .. m : \E c \in 0 .. w - 1 : b = BandIndex(g, betas[x], c)
      /\ \A x \in 1 .. m : \A c \in 0 .. w - 1 :
            0 < Lines(g, i, BandIndex(g, betas[x], c)) => Carries(g, packet, BandIndex(g, betas[x], c), 0)
  <2>1. 0 \in Nat /\ m \in Nat
    OBVIOUS
  <2> QED BY <1>2, <1>4, <2>1, RowSent
<1> HIDE DEF packet
<1>6. ASSUME NEW x \in 1 .. m, NEW c \in 0 .. w - 1
      PROVE  BandIndex(g, betas[x], c) \in Bands(g) /\ Lines(g, i, BandIndex(g, betas[x], c)) \in 0 .. 1
  <2>1. betas[x] \in 0 .. NBeta(g) - 1 /\ betas[x] \in 0 .. m - 1
    BY <1>3, <1>4 DEF Types
  <2>2. NBeta(g) \in Nat
    <3>1. PICK l \in Nat : l = g.nly
      BY DEF Shaped
    <3>2. NBeta(g) = m + 3 * l
      BY <1>1, <3>1 DEF Shaped
    <3> QED BY <3>2
  <2>3. BandIndex(g, betas[x], c) \in Bands(g)
    BY <1>2, <2>1, <2>2, BandPlaces DEF Shaped
  <2>4. Span(g, BandIndex(g, betas[x], c)) = 1
    BY <1>1, <1>2, <2>1 DEF Shaped
  <2>5. Lines(g, i, BandIndex(g, betas[x], c)) \in 0 .. Span(g, BandIndex(g, betas[x], c))
    BY <2>3 DEF Shaped
  <2> QED BY <2>3, <2>4, <2>5
<1>7. f \in Seq(Seq(Entries(g))) /\ Len(f) = 1 /\ f[1] = packet /\ \A s \in 1 .. 1 : s = 1
  <2> DEFINE E == Seq(Entries(g))
  <2>1. packet \in E
    BY <1>5
  <2> HIDE DEF E
  <2>2. f \in Seq(E) /\ Len(f) = 1 /\ f[1] = packet /\ \A s \in 1 .. 1 : s = 1
    BY <2>1
  <2> QED BY <2>2 DEF E
<1> HIDE DEF f
<1>8. ASSUME NEW s \in 1 .. Len(f), NEW k \in 1 .. Len(f[s]) PROVE BehindAbove(g, i, f, s, f[s][k])
  <2> DEFINE e == f[s][k]
  <2>1. k \in 1 .. Len(packet) /\ e = packet[k]
    BY <1>7
  <2> HIDE DEF e
  <2>2. LineOf(g, e) = 0 /\ 0 < Lines(g, i, e.band) /\ \E x \in 1 .. m : \E c \in 0 .. w - 1 : e.band = BandIndex(g, betas[x], c)
    BY <1>5, <2>1
  <2>3. PICK x \in 1 .. m, c \in 0 .. w - 1 : e.band = BandIndex(g, betas[x], c)
    BY <2>2
  <2>4. PICK l \in 0 .. 1 : l = Lines(g, i, e.band)
    BY <1>6, <2>3
  <2>5. BehindAbove(g, i, f, s, e)
    BY <2>2, <2>4 DEF BehindAbove
  <2> QED BY <2>5 DEF e
<1>9. IsBlock(g, i, f)
  BY <1>7, <1>8 DEF IsBlock
<1>10. ASSUME NEW beta \in 0 .. m - 1, NEW c \in 0 .. w - 1, NEW li \in 0 .. Lines(g, i, BandIndex(g, beta, c)) - 1
       PROVE  Covers(g, f, BandIndex(g, beta, c), li)
  <2>1. PICK x \in 1 .. m : betas[x] = beta
    <3>1. beta + 1 \in 1 .. m /\ (beta + 1) - 1 = beta
      OBVIOUS
    <3> QED BY <1>3, <3>1
  <2>2. PICK l \in 0 .. 1 : l = Lines(g, i, BandIndex(g, beta, c))
    BY <1>6, <2>1
  <2>3. li = 0 /\ 0 < Lines(g, i, BandIndex(g, beta, c))
    BY <2>2
  <2>4. Carries(g, packet, BandIndex(g, beta, c), 0)
    BY <1>5, <2>1, <2>3
  <2>5. 1 \in 1 .. Len(f)
    BY <1>7
  <2> QED BY <1>7, <2>3, <2>4, <2>5 DEF Covers
<1> QED BY <1>1, <1>2, <1>9, <1>10 DEF f, packet, betas

(* The bands of one level, by the number of their filter type.             *)
LEMMA LevelOf ==
    ASSUME NEW m \in Nat, NEW l \in Nat, NEW beta \in m .. m + 3 * l - 1
    PROVE  \E k \in 0 .. l - 1 : \E j \in 0 .. 2 : beta = (m + 3 * k) + j
<1>1. PICK y \in 0 .. 3 * l - 1 : beta = m + y
  <2>1. beta - m \in 0 .. 3 * l - 1 /\ beta = m + (beta - m)
    OBVIOUS
  <2> QED BY <2>1
<1>2. y \div 3 \in 0 .. l - 1 /\ (y % 3) \in 0 .. 2 /\ y = 3 * (y \div 3) + (y % 3)
  OBVIOUS
<1>3. PICK k \in 0 .. l - 1, j \in 0 .. 2 : y = 3 * k + j
  BY <1>2
<1>4. beta = (m + 3 * k) + j
  BY <1>1, <1>3
<1> QED BY <1>4

(* Every line of every band of a precinct is sent in one of its packets,   *)
(* behind the line above it (Geometry::packets), for any number of levels, *)
(* components and lines.                                                   *)
THEOREM EveryLineIsSent ==
    ASSUME NEW g, NEW i, Shaped(g, i), g.packets[i] = Packets(g, i)
    PROVE  LayoutSound(g, i)
<1>1. PICK m \in Nat \ {0} : m = Beta1(g)
  BY DEF Shaped
<1>2. PICK w \in Nat \ {0} : w = Decomposed(g)
  BY DEF Shaped
<1>3. PICK l \in Nat : l = g.nly
  BY DEF Shaped
<1> DEFINE first == <<LinePacket(g, i, [k \in 1 .. Beta1(g) |-> k - 1], 0)>>
           levels == [k \in 1 .. l |-> LevelPackets(g, i, Beta1(g) + 3 * (k - 1))]
           rest == UndecomposedPackets(g, i)
           flat == FlattenSeq(levels)
           slots == Once(first \o flat \o rest)
           packets == Keep(slots, {s \in DOMAIN slots : slots[s] # <<>>})
<1>4. g.packets[i] = packets
  BY <1>3 DEF Packets
<1>5. slots = (first \o flat) \o rest
  BY OnceIs
<1> HIDE DEF slots
<1>6. /\ IsBlock(g, i, first)
      /\ \A beta \in 0 .. m - 1 : \A c \in 0 .. w - 1 :
            \A li \in 0 .. Lines(g, i, BandIndex(g, beta, c)) - 1 : Covers(g, first, BandIndex(g, beta, c), li)
  BY <1>1, <1>2, FirstSent
<1>7. /\ levels = [k \in 1 .. l |-> levels[k]]
      /\ \A k \in 1 .. l : IsBlock(g, i, levels[k])
      /\ \A k \in 0 .. l - 1 : \A j \in 0 .. 2 : \A c \in 0 .. w - 1 :
            \A li \in 0 .. Lines(g, i, BandIndex(g, (m + 3 * k) + j, c)) - 1 :
               Covers(g, levels[k + 1], BandIndex(g, (m + 3 * k) + j, c), li)
  <2>1. ASSUME NEW k \in 0 .. l - 1
        PROVE  /\ IsBlock(g, i, levels[k + 1])
               /\ \A j \in 0 .. 2 : \A c \in 0 .. w - 1 :
                     \A li \in 0 .. Lines(g, i, BandIndex(g, (m + 3 * k) + j, c)) - 1 :
                        Covers(g, levels[k + 1], BandIndex(g, (m + 3 * k) + j, c), li)
    <3>1. k \in 0 .. g.nly - 1 /\ k + 1 \in 1 .. l /\ (k + 1) - 1 = k
      BY <1>3
    <3>2. levels[k + 1] = LevelPackets(g, i, Beta1(g) + 3 * k)
      BY <3>1
    <3> DEFINE lev == LevelPackets(g, i, Beta1(g) + 3 * k)
    <3>3. /\ IsBlock(g, i, lev)
          /\ \A j \in 0 .. 2 : \A c \in 0 .. w - 1 :
                \A li \in 0 .. Lines(g, i, BandIndex(g, (Beta1(g) + 3 * k) + j, c)) - 1 :
                   Covers(g, lev, BandIndex(g, (Beta1(g) + 3 * k) + j, c), li)
      BY <1>2, <3>1, LevelSent
    <3>4. levels[k + 1] = lev
      BY <3>2
    <3> HIDE DEF lev, levels
    <3> QED BY <1>1, <3>3, <3>4
  <2>2. ASSUME NEW k \in 1 .. l PROVE IsBlock(g, i, levels[k])
    <3>1. k - 1 \in 0 .. l - 1 /\ (k - 1) + 1 = k
      OBVIOUS
    <3> HIDE DEF levels
    <3> QED BY <2>1, <3>1
  <2>3. levels = [k \in 1 .. l |-> levels[k]]
    OBVIOUS
  <2> HIDE DEF levels
  <2> QED BY <2>1, <2>2, <2>3
<1> HIDE DEF levels
<1>8. /\ IsBlock(g, i, flat)
      /\ \A k \in 1 .. l : \A x, li : Covers(g, levels[k], x, li) => Covers(g, flat, x, li)
  BY <1>7, BlockFlatten
<1>9. /\ IsBlock(g, i, rest)
      /\ \A c \in 0 .. g.sd - 1 : \A li \in 0 .. Lines(g, i, BandIndex(g, 0, w + c)) - 1 :
            Covers(g, rest, BandIndex(g, 0, w + c), li)
  BY <1>2, UndecomposedSent
<1> HIDE DEF first, flat, rest
<1> DEFINE front == first \o flat
<1>10. IsBlock(g, i, front) /\ \A x, li : Covers(g, first, x, li) \/ Covers(g, flat, x, li) => Covers(g, front, x, li)
  BY <1>6, <1>8, BlockConcat
<1>11. slots = front \o rest
  BY <1>5
<1> HIDE DEF front
<1>12. IsBlock(g, i, slots) /\ \A x, li : Covers(g, front, x, li) \/ Covers(g, rest, x, li) => Covers(g, slots, x, li)
  BY <1>9, <1>10, <1>11, BlockConcat
<1>13. /\ Len(packets) \in Nat /\ DOMAIN packets = 1 .. Len(packets)
       /\ \A s \in DOMAIN packets :
             /\ Len(packets[s]) \in Nat /\ DOMAIN packets[s] = 1 .. Len(packets[s])
             /\ \A k \in DOMAIN packets[s] : EntrySound(g, i, s, packets[s][k])
       /\ \A x, li : Covers(g, slots, x, li) => SentBy(g, i, Len(packets), x, li)
  <2>1. packets = Keep(slots, {s \in DOMAIN slots : slots[s] # <<>>})
    OBVIOUS
  <2> HIDE DEF packets
  <2> QED BY <1>4, <1>12, <2>1, BlockKept
<1> HIDE DEF packets
<1>14. ASSUME NEW b \in Bands(g), NEW li \in 0 .. Lines(g, i, b) - 1 PROVE Covers(g, slots, b, li)
  <2>1. NBeta(g) = m + 3 * l /\ NBeta(g) \in Nat
    <3>1. NBeta(g) = m + 3 * l
      BY <1>1, <1>3 DEF Shaped
    <3> QED BY <3>1
  <2>2. \/ \E beta \in 0 .. NBeta(g) - 1 : \E c \in 0 .. w - 1 : b = BandIndex(g, beta, c)
        \/ \E c \in 0 .. g.sd - 1 : b = BandIndex(g, 0, w + c)
    BY <1>2, <2>1, BandPlaces DEF Shaped
  <2>3. CASE \E beta \in 0 .. NBeta(g) - 1 : \E c \in 0 .. w - 1 : b = BandIndex(g, beta, c)
    <3>1. PICK beta \in 0 .. NBeta(g) - 1, c \in 0 .. w - 1 : b = BandIndex(g, beta, c)
      BY <2>3
    <3>2. CASE beta < m
      <4>1. beta \in 0 .. m - 1
        BY <2>1, <3>2
      <4> QED BY <1>6, <1>10, <1>12, <3>1, <4>1
    <3>3. CASE ~(beta < m)
      <4>1. beta \in m .. m + 3 * l - 1
        BY <2>1, <3>3
      <4>2. PICK k \in 0 .. l - 1, j \in 0 .. 2 : beta = (m + 3 * k) + j
        BY <4>1, LevelOf
      <4>3. Covers(g, levels[k + 1], b, li)
        BY <1>7, <3>1, <4>2
      <4>4. k + 1 \in 1 .. l
        OBVIOUS
      <4> QED BY <1>8, <1>10, <1>12, <4>3, <4>4
    <3> QED BY <3>2, <3>3
  <2>4. CASE \E c \in 0 .. g.sd - 1 : b = BandIndex(g, 0, w + c)
    BY <1>9, <1>12, <2>4
  <2> QED BY <2>2, <2>3, <2>4
<1>15. LayoutSound(g, i)
  BY <1>4, <1>13, <1>14 DEF LayoutSound
<1> QED BY <1>15

(* The tables of Geometry depend on these headers and on nothing else.     *)
SameGrid(k, t) ==
    k.nc = t.nc /\ k.sd = t.sd /\ k.nlx = t.nlx /\ k.nly = t.nly /\ k.wf = t.wf /\ k.hf = t.hf /\ k.cw = t.cw /\ k.sx = t.sx
LEMMA SameBands ==
    ASSUME NEW k, NEW t, SameGrid(k, t)
    PROVE  /\ Decomposed(k) = Decomposed(t) /\ NBeta(k) = NBeta(t) /\ Beta1(k) = Beta1(t)
           /\ NumBands(k) = NumBands(t) /\ Bands(k) = Bands(t)
           /\ \A beta, c : BandIndex(k, beta, c) = BandIndex(t, beta, c)
           /\ \A b : Band(k, b) = Band(t, b)
           /\ NumPrecincts(k) = NumPrecincts(t) /\ PrecinctsPerRow(k) = PrecinctsPerRow(t)
           /\ \A i : PrecinctRow(k, i) = PrecinctRow(t, i) /\ PrecinctWidth(k, i) = PrecinctWidth(t, i)
                     /\ PrecinctColumn(k, i) = PrecinctColumn(t, i)
<1>0. k.nc = t.nc /\ k.sd = t.sd /\ k.nlx = t.nlx /\ k.nly = t.nly /\ k.wf = t.wf /\ k.hf = t.hf /\ k.cw = t.cw /\ k.sx = t.sx
  BY DEF SameGrid
<1>1. Decomposed(k) = Decomposed(t) /\ NBeta(k) = NBeta(t) /\ Beta1(k) = Beta1(t)
  BY <1>0 DEF Decomposed, NBeta, Beta1
<1>2. NumBands(k) = NumBands(t)
  BY <1>0, <1>1 DEF NumBands
<1>3. Bands(k) = Bands(t)
  BY <1>2 DEF Bands
<1>4. \A beta, c : BandIndex(k, beta, c) = BandIndex(t, beta, c)
  BY <1>1 DEF BandIndex
<1>5. \A c : ComponentWidth(k, c) = ComponentWidth(t, c) /\ ComponentHeight(k, c) = ComponentHeight(t, c)
  BY <1>0 DEF ComponentWidth, ComponentHeight
<1>6. ASSUME NEW b PROVE Band(k, b) = Band(t, b)
  BY <1>0, <1>1, <1>5, Zenon DEF Band
<1>7. MaxSx(k) = MaxSx(t)
  BY <1>0 DEF MaxSx
<1>8. ColumnWidth(k) = ColumnWidth(t)
  BY <1>0, <1>7 DEF ColumnWidth
<1>9. PrecinctsPerRow(k) = PrecinctsPerRow(t) /\ PrecinctRows(k) = PrecinctRows(t)
  BY <1>0, <1>8 DEF PrecinctsPerRow, PrecinctRows
<1>10. NumPrecincts(k) = NumPrecincts(t)
  BY <1>9 DEF NumPrecincts
<1>11. \A i : PrecinctRow(k, i) = PrecinctRow(t, i) /\ PrecinctColumn(k, i) = PrecinctColumn(t, i)
  BY <1>9 DEF PrecinctRow, PrecinctColumn
<1>12. \A i : PrecinctWidth(k, i) = PrecinctWidth(t, i)
  BY <1>0, <1>8, <1>9, <1>11 DEF PrecinctWidth
<1> QED BY <1>1, <1>2, <1>3, <1>4, <1>6, <1>9, <1>10, <1>11, <1>12

LEMMA SamePackets ==
    ASSUME NEW k, NEW t, SameGrid(k, t), k.bands = t.bands, NEW i
    PROVE  /\ Packets(k, i) = Packets(t, i)
           /\ \A b : /\ BandPrecinctWidth(k, i, b) = BandPrecinctWidth(t, i, b) /\ Span(k, b) = Span(t, b)
                     /\ LineStart(k, b) = LineStart(t, b) /\ LineEnd(k, i, b) = LineEnd(t, i, b)
<1>0. /\ Decomposed(k) = Decomposed(t) /\ Beta1(k) = Beta1(t) /\ \A beta, c : BandIndex(k, beta, c) = BandIndex(t, beta, c)
      /\ PrecinctRow(k, i) = PrecinctRow(t, i) /\ PrecinctWidth(k, i) = PrecinctWidth(t, i)
      /\ k.nly = t.nly /\ k.sx = t.sx /\ k.sd = t.sd
  BY SameBands DEF SameGrid
<1>1. \A b : Span(k, b) = Span(t, b)
  BY <1>0 DEF Span
<1>2. \A b : LineStart(k, b) = LineStart(t, b)
  BY <1>1 DEF LineStart
<1>3. \A b : LineEnd(k, i, b) = LineEnd(t, i, b)
  BY <1>0, <1>1, <1>2 DEF LineEnd
<1>4. \A b : BandPrecinctWidth(k, i, b) = BandPrecinctWidth(t, i, b)
  BY <1>0 DEF BandPrecinctWidth
<1>5. ASSUME NEW betas, NEW rel PROVE LinePacket(k, i, betas, rel) = LinePacket(t, i, betas, rel)
  <2> DEFINE A(g) == [x \in 1 .. Len(betas) * Decomposed(g) |->
                        LET b == BandIndex(g, betas[1 + (x - 1) \div Decomposed(g)], (x - 1) % Decomposed(g))
                        IN  [band |-> b, line |-> rel + LineStart(g, b)]]
             K(g, all) == Keep(all, {x \in DOMAIN all : all[x].line < LineEnd(g, i, all[x].band)})
  <2>1. \A g : LinePacket(g, i, betas, rel) = K(g, A(g))
    BY Zenon DEF LinePacket
  <2>2. A(k) = A(t)
    BY <1>0, <1>2, Zenon
  <2> HIDE DEF A
  <2>3. \A all : {x \in DOMAIN all : all[x].line < LineEnd(k, i, all[x].band)}
                 = {x \in DOMAIN all : all[x].line < LineEnd(t, i, all[x].band)}
    BY <1>3
  <2>4. \A all : K(k, all) = K(t, all)
    BY <2>3, Zenon
  <2> HIDE DEF K
  <2> QED BY <2>1, <2>2, <2>4
<1>6. ASSUME NEW beta0 PROVE LevelPackets(k, i, beta0) = LevelPackets(t, i, beta0)
  <2>1. 3 * Span(k, BandIndex(k, beta0, 0)) = 3 * Span(t, BandIndex(t, beta0, 0))
    BY <1>0, <1>1
  <2> QED BY <1>5, <2>1, Zenon DEF LevelPackets
<1>7. UndecomposedPackets(k, i) = UndecomposedPackets(t, i)
  <2> DEFINE w == Decomposed(t)
             sd == t.sd
             Entry(b, line) == <<[band |-> b, line |-> line]>>
             U(g) == [s \in 1 .. sd * 2 ^ t.nly |->
                        LET b == BandIndex(g, 0, w + ((s - 1) % sd))
                            line == (s - 1) \div sd
                        IN  IF line < LineEnd(g, i, b) THEN Entry(b, line) ELSE <<>>]
  <2>1. UndecomposedPackets(k, i) = U(k) /\ UndecomposedPackets(t, i) = U(t)
    BY <1>0, Zenon DEF UndecomposedPackets
  <2> HIDE DEF Entry, w, sd
  <2>2. U(k) = U(t)
    BY <1>0, <1>3, Zenon
  <2> QED BY <2>1, <2>2
<1>8. Packets(k, i) = Packets(t, i)
  <2> DEFINE first(g) == <<LinePacket(g, i, [x \in 1 .. Beta1(g) |-> x - 1], 0)>>
             levels(g) == [x \in 1 .. g.nly |-> LevelPackets(g, i, Beta1(g) + 3 * (x - 1))]
             slots(g) == Once(first(g) \o FlattenSeq(levels(g)) \o UndecomposedPackets(g, i))
             K(all) == Keep(all, {x \in DOMAIN all : all[x] # <<>>})
  <2>1. \A g : Packets(g, i) = K(slots(g))
    BY Zenon DEF Packets
  <2>2. first(k) = first(t)
    BY <1>0, <1>5
  <2>3. levels(k) = levels(t)
    BY <1>0, <1>6, Zenon
  <2> HIDE DEF first, levels
  <2>4. slots(k) = slots(t)
    BY <1>7, <2>2, <2>3, Zenon
  <2> HIDE DEF K, slots
  <2> QED BY <2>1, <2>4
<1> QED BY <1>1, <1>2, <1>3, <1>4, <1>8

(* A record with the tables of Geometry.                                   *)
IsTabled(t) ==
    /\ \A b \in Bands(t) : t.bands[b] = Band(t, b)
    /\ \A i \in 0 .. NumPrecincts(t) - 1 :
          /\ t.packets[i] = Packets(t, i)
          /\ \A b \in Bands(t) : /\ t.widths[i][b] = BandPrecinctWidth(t, i, b)
                                 /\ t.lines[i][b] = LineEnd(t, i, b) - LineStart(t, b)
LEMMA TablesAre ==
    ASSUME NEW c
    PROVE  IsTabled(Tables(MakeHeaders(c)))
<1> DEFINE g == MakeHeaders(c)
           bs == [bands |-> [b \in Bands(g) |-> Band(g, b)]]
           k == g ++ bs
           N == 0 .. NumPrecincts(k) - 1
           ps == [i \in N |-> Packets(k, i)]
           ws == [i \in N |-> [b \in Bands(k) |-> BandPrecinctWidth(k, i, b)]]
           ls == [i \in N |-> [b \in Bands(k) |-> LineEnd(k, i, b) - LineStart(k, b)]]
           w == [packets |-> ps, widths |-> ws, lines |-> ls]
           cfa == IF g.cpih = 3 THEN StarTetrix(g) ELSE None
           t == Tables(g)
<1>1. HeaderNames \subseteq DOMAIN g /\ \A x \in {"bands", "packets", "widths", "lines"} : x \notin DOMAIN g
  BY MadeHeaders
<1> HIDE DEF g
<1>2. Geometry(g) = k ++ w
  BY DEF Geometry
<1>3. t = (k ++ w) ++ cfa
  BY <1>2 DEF Tables
<1>4. DOMAIN bs = {"bands"} /\ bs["bands"] = [b \in Bands(g) |-> Band(g, b)]
  OBVIOUS
<1>5. DOMAIN w = {"packets", "widths", "lines"} /\ w["packets"] = ps /\ w["widths"] = ws /\ w["lines"] = ls
  <2> HIDE DEF ps, ws, ls
  <2> QED OBVIOUS
<1> HIDE DEF bs, w, cfa, t
<1>6. /\ DOMAIN k = DOMAIN g \cup DOMAIN bs /\ \A x \in DOMAIN g : k[x] = g[x]
      /\ \A x \in DOMAIN bs : x \notin DOMAIN g => k[x] = bs[x]
  BY Merged
<1>7. k["bands"] = [b \in Bands(g) |-> Band(g, b)]
  BY <1>1, <1>4, <1>6
<1> DEFINE u == k ++ w
<1>8. DOMAIN k = DOMAIN g \cup {"bands"}
  BY <1>4, <1>6
<1> HIDE DEF k
<1>9. /\ DOMAIN u = DOMAIN k \cup DOMAIN w /\ \A x \in DOMAIN k : u[x] = k[x]
      /\ \A x \in DOMAIN w : x \notin DOMAIN k => u[x] = w[x]
  BY Merged
<1>10. t = u ++ cfa
  BY <1>3
<1> HIDE DEF u
<1>11. DOMAIN u \subseteq DOMAIN t /\ \A x \in DOMAIN u : t[x] = u[x]
  <2>1. DOMAIN u \subseteq DOMAIN (u ++ cfa) /\ \A x \in DOMAIN u : (u ++ cfa)[x] = u[x]
    BY Merged
  <2> QED BY <1>10, <2>1
<1>12. t.bands = [b \in Bands(g) |-> Band(g, b)] /\ t.bands = k.bands
  BY <1>7, <1>8, <1>9, <1>11
<1>13. t.packets = ps /\ t.widths = ws /\ t.lines = ls
  <2>1. \A x \in {"packets", "widths", "lines"} : x \in DOMAIN w /\ x \notin DOMAIN k
    BY <1>1, <1>5, <1>8
  <2>2. \A x \in {"packets", "widths", "lines"} : t[x] = w[x]
    BY <1>9, <1>11, <2>1
  <2> QED BY <1>5, <2>2
<1>14. \A x \in HeaderNames : k[x] = g[x] /\ t[x] = g[x]
  BY <1>1, <1>6, <1>8, <1>9, <1>11
<1>15. SameGrid(k, t) /\ SameGrid(g, t)
  BY <1>14 DEF SameGrid, HeaderNames
<1>16. /\ Bands(k) = Bands(t) /\ Bands(g) = Bands(t) /\ NumPrecincts(k) = NumPrecincts(t)
       /\ \A b : Band(g, b) = Band(t, b)
  BY <1>15, SameBands
<1>17. \A b \in Bands(t) : t.bands[b] = Band(t, b)
  BY <1>12, <1>16
<1>18. ASSUME NEW i \in 0 .. NumPrecincts(t) - 1
       PROVE  /\ t.packets[i] = Packets(t, i)
              /\ \A b \in Bands(t) : /\ t.widths[i][b] = BandPrecinctWidth(t, i, b)
                                     /\ t.lines[i][b] = LineEnd(t, i, b) - LineStart(t, b)
  <2>1. /\ Packets(k, i) = Packets(t, i)
        /\ \A b : /\ BandPrecinctWidth(k, i, b) = BandPrecinctWidth(t, i, b)
                  /\ LineStart(k, b) = LineStart(t, b) /\ LineEnd(k, i, b) = LineEnd(t, i, b)
    BY <1>12, <1>15, SamePackets
  <2>2. i \in N
    BY <1>16
  <2>3. ps[i] = Packets(k, i)
    BY <2>2
  <2>4. \A b \in Bands(k) : ws[i][b] = BandPrecinctWidth(k, i, b)
    BY <2>2
  <2>5. \A b \in Bands(k) : ls[i][b] = LineEnd(k, i, b) - LineStart(k, b)
    BY <2>2
  <2> HIDE DEF ps, ws, ls, N
  <2> QED BY <1>13, <1>16, <2>1, <2>3, <2>4, <2>5
<1>19. IsTabled(t)
  BY <1>17, <1>18 DEF IsTabled
<1> QED BY <1>19 DEF t, g

(* The headers and tables the encoder and the decoder work with.           *)
Prepared(t) ==
    /\ Fitted(t) /\ IsTabled(t) /\ Codable(t)
    /\ \A c \in 0 .. t.nc - 1 : t.sx[c] \in 1 .. 2
    /\ \A b \in Bands(t) : t.weights[b].gain \in Nat
LEMMA TablesPrepared ==
    ASSUME NEW c, JobOk(c)
    PROVE  Prepared(Tables(MakeHeaders(c)))
<1> DEFINE g == MakeHeaders(c)
           t == Tables(g)
<1>1. Fitted(t) /\ IsTabled(t)
  BY TablesFitted, TablesAre
<1>2. Validate(g) /\ FieldsFit(g)
  BY DEF JobOk
<1>3. Fitted(g) /\ Alike(g, t)
  BY ValidFits, MadeHeaders, TablesKeep
<1> HIDE DEF g, t
<1>4. /\ g.nc \in 1 .. 8 /\ DOMAIN g.sx = 0 .. g.nc - 1 /\ g.ng = 4 /\ g.ss = 8
      /\ g.qpih \in {0, 1} /\ g.fs \in {0, 1} /\ g.rm \in {0, 1}
  BY <1>2 DEF Validate
<1>5. \A k \in DOMAIN g.sx : g.sx[k] = 1 \/ g.sx[k] = 2
  BY <1>2 DEF Validate
<1>6. g.br \in {4, 5}
  <2>1. g.fq = 0 => g.br = (IF g.depth[0] > 12 THEN 5 ELSE 4)
    BY <1>2 DEF Validate
  <2>2. g.fq # 0 => g.br = 4
    BY <1>2 DEF Validate
  <2> QED BY <2>1, <2>2
<1>7. \A b \in DOMAIN g.weights : g.weights[b].gain \in Nat
  <2> DEFINE B == 0 .. 2 ^ 8 - 1
  <2>1. \A b \in DOMAIN g.weights : g.weights[b] \in [gain : B, priority : B]
    BY <1>2, Zenon DEF FieldsFit
  <2>2. \A x \in B : x \in Nat
    <3> DEFINE v == 2 ^ 8
    <3>1. v \in Nat
      <4>1. 8 \in 0 .. 31
        OBVIOUS
      <4> QED BY <4>1, PowersGrow
    <3> HIDE DEF v
    <3>2. \A x \in 0 .. v - 1 : x \in Nat
      BY <3>1
    <3> QED BY <3>2, Zenon DEF v
  <2> HIDE DEF B
  <2> QED BY <2>1, <2>2
<1>8. DOMAIN g.weights = Bands(g)
  BY <1>2 DEF Validate
<1>9. /\ t.nc = g.nc /\ t.sx = g.sx /\ t.weights = g.weights /\ t.ng = g.ng /\ t.ss = g.ss /\ t.br = g.br
      /\ t.qpih = g.qpih /\ t.fs = g.fs /\ t.rm = g.rm /\ SameGrid(g, t)
  BY <1>3 DEF Alike, SameGrid
<1>10. Bands(t) = Bands(g)
  BY <1>9, SameBands
<1>11. Codable(t)
  BY <1>4, <1>6, <1>9 DEF Codable
<1>12. Prepared(t)
  BY <1>1, <1>4, <1>5, <1>7, <1>8, <1>9, <1>10, <1>11 DEF Prepared
<1> QED BY <1>12 DEF t, g

LEMMA Ceiling ==
    ASSUME NEW a \in Nat, NEW m \in Nat \ {0}
    PROVE  CeilDiv(a, m) \in Nat
<1>1. PICK x \in Nat : x = a + m - 1
  <2>1. a + m - 1 \in Nat
    OBVIOUS
  <2> QED BY <2>1
<1>2. x \div m \in Nat
  BY <1>1, Parts
<1> QED BY <1>1, <1>2 DEF CeilDiv

(* The shape of a band.                                                    *)
BandFits(t, x) ==
    /\ x.component \in 0 .. t.nc - 1 /\ x.dx \in 0 .. 8 /\ x.dy \in 0 .. t.nly /\ x.hx \in BOOLEAN /\ x.hy \in BOOLEAN
    /\ (x.hx => x.dx # 0) /\ (x.hy => x.dy # 0) /\ x.width \in Nat /\ x.height \in Nat
ShapeFits(t, s) ==
    /\ s.dx \in 0 .. 8 /\ s.dy \in 0 .. t.nly /\ s.hx \in BOOLEAN /\ s.hy \in BOOLEAN
    /\ (s.hx => s.dx # 0) /\ (s.hy => s.dy # 0)
BandIs(t, x, c, s) ==
    x.component = c /\ x.dx = s.dx /\ x.dy = s.dy /\ x.hx = s.hx /\ x.hy = s.hy /\ BandFits(t, x)

LEMMA ShapedBand ==
    ASSUME NEW t, Fitted(t), \A c \in 0 .. t.nc - 1 : t.sx[c] \in 1 .. 2, NEW s, ShapeFits(t, s), NEW c \in 0 .. t.nc - 1,
           NEW x, NEW decomposed,
           x = [component |-> c, decomposed |-> decomposed, dx |-> s.dx, dy |-> s.dy, hx |-> s.hx, hy |-> s.hy,
                width |-> IF s.hx THEN HighPassSize(ComponentWidth(t, c), s.dx) ELSE LowPassSize(ComponentWidth(t, c), s.dx),
                height |-> IF s.hy THEN HighPassSize(ComponentHeight(t, c), s.dy) ELSE LowPassSize(ComponentHeight(t, c), s.dy)]
    PROVE  BandIs(t, x, c, s)
<1>1. t.wf \in Nat /\ t.hf \in Nat /\ t.nly \in 0 .. 8
  BY DEF Fitted, FittedLayout
<1>2. PICK wc \in Nat : wc = ComponentWidth(t, c)
  <2>1. t.sx[c] \in Nat \ {0}
    OBVIOUS
  <2> QED BY <1>1, <2>1, Ceiling DEF ComponentWidth
<1>3. PICK hc \in Nat : hc = ComponentHeight(t, c)
  BY <1>1 DEF ComponentHeight
<1>4. ASSUME NEW n \in Nat, NEW d \in 0 .. 8
      PROVE  LowPassSize(n, d) \in Nat /\ (d # 0 => HighPassSize(n, d) \in Nat)
  <2>1. \A e \in 0 .. 8 : 2 ^ e \in Nat \ {0}
    <3>1. \A e \in 0 .. 8 : e \in 0 .. 31
      OBVIOUS
    <3> QED BY <3>1, PowersGrow
  <2>2. LowPassSize(n, d) \in Nat
    BY <2>1, Ceiling DEF LowPassSize
  <2>3. ASSUME d # 0 PROVE HighPassSize(n, d) \in Nat
    <3>1. d - 1 \in 0 .. 8
      BY <2>3
    <3>2. PICK y \in Nat : y = CeilDiv(n, 2 ^ (d - 1))
      BY <2>1, <3>1, Ceiling
    <3>3. y \div 2 \in Nat
      OBVIOUS
    <3> QED BY <3>2, <3>3 DEF HighPassSize
  <2> QED BY <2>2, <2>3
<1>5. s.dx \in 0 .. 8 /\ s.dy \in 0 .. 8
  <2>1. s.dx \in 0 .. 8 /\ s.dy \in 0 .. t.nly
    BY DEF ShapeFits
  <2> QED BY <1>1, <2>1
<1>6. x.width \in Nat /\ x.height \in Nat
  BY <1>2, <1>3, <1>4, <1>5 DEF ShapeFits
<1>7. x.component = c /\ x.dx = s.dx /\ x.dy = s.dy /\ x.hx = s.hx /\ x.hy = s.hy
  OBVIOUS
<1> HIDE DEF BandFits
<1>8. BandFits(t, x)
  BY <1>6, <1>7 DEF BandFits, ShapeFits
<1> QED BY <1>7, <1>8 DEF BandIs

ShapeOf(t, beta) ==
    LET level == t.nly - (beta - Beta1(t)) \div 3
        kind == (beta - Beta1(t)) % 3
    IN  IF beta < Beta1(t)
        THEN [dx |-> IF beta = 0 THEN t.nlx ELSE t.nlx - (beta - 1), dy |-> t.nly, hx |-> beta > 0, hy |-> FALSE]
        ELSE [dx |-> level, dy |-> level, hx |-> kind # 1, hy |-> kind # 0]
Whole == [dx |-> 0, dy |-> 0, hx |-> FALSE, hy |-> FALSE]

LEMMA LayoutNumbers ==
    ASSUME NEW t, Fitted(t)
    PROVE  /\ t.nlx \in 1 .. 8 /\ t.nly \in 0 .. 8 /\ t.nly <= t.nlx /\ t.sd \in 0 .. 7
           /\ Decomposed(t) \in 1 .. 8 /\ t.nc = Decomposed(t) + t.sd
           /\ Beta1(t) \in 1 .. 9 /\ Beta1(t) = t.nlx - t.nly + 1 /\ NBeta(t) = Beta1(t) + 3 * t.nly /\ NBeta(t) \in Nat
<1>1. t.nc \in 1 .. 8 /\ t.sd \in 0 .. 7 /\ t.sd < t.nc /\ t.nlx \in 1 .. 8 /\ t.nly \in 0 .. 8 /\ t.nly <= t.nlx
  BY DEF Fitted, FittedLayout
<1>2. \A nc \in 1 .. 8, sd \in 0 .. 7 : sd < nc => nc - sd \in 1 .. 8 /\ nc = (nc - sd) + sd
  OBVIOUS
<1>3. \A x \in 1 .. 8, y \in 0 .. 8 : y <= x => x - y + 1 \in 1 .. 9 /\ 2 * y + x + 1 = (x - y + 1) + 3 * y /\ 2 * y + x + 1 \in Nat
  OBVIOUS
<1> QED BY <1>1, <1>2, <1>3 DEF Decomposed, Beta1, NBeta

LEMMA ShapesFit ==
    ASSUME NEW t, Fitted(t), NEW beta \in 0 .. NBeta(t) - 1
    PROVE  ShapeFits(t, ShapeOf(t, beta))
<1>1. PICK nlx \in 1 .. 8 : nlx = t.nlx
  BY LayoutNumbers
<1>2. PICK nly \in 0 .. 8 : nly = t.nly /\ nly <= nlx
  BY <1>1, LayoutNumbers
<1>3. PICK m \in 1 .. 9 : m = Beta1(t) /\ m = nlx - nly + 1
  BY <1>1, <1>2, LayoutNumbers
<1>4. beta \in 0 .. m + 3 * nly - 1
  <2>1. NBeta(t) = m + 3 * nly
    BY <1>2, <1>3, LayoutNumbers
  <2> QED BY <2>1
<1> DEFINE s == ShapeOf(t, beta)
<1>5. CASE beta < m
  <2>1. s = [dx |-> IF beta = 0 THEN nlx ELSE nlx - (beta - 1), dy |-> nly, hx |-> beta > 0, hy |-> FALSE]
    BY <1>1, <1>2, <1>3, <1>5 DEF ShapeOf
  <2>2. PICK d \in 1 .. 8 : d = IF beta = 0 THEN nlx ELSE nlx - (beta - 1)
    BY <1>3, <1>4, <1>5
  <2>3. PICK hx \in BOOLEAN : hx = (beta > 0)
    <3>1. CASE beta > 0
      <4>1. TRUE = (beta > 0)
        BY <3>1
      <4> QED BY <4>1
    <3>2. CASE ~(beta > 0)
      <4>1. FALSE = (beta > 0)
        BY <3>2
      <4> QED BY <4>1
    <3> QED BY <3>1, <3>2
  <2>4. s = [dx |-> d, dy |-> nly, hx |-> hx, hy |-> FALSE]
    BY <2>1, <2>2, <2>3
  <2> HIDE DEF s
  <2>5. s.dx = d /\ s.dy = nly /\ s.hx = hx /\ s.hy = FALSE
    BY <2>4
  <2>6. d \in 0 .. 8 /\ d # 0 /\ nly \in 0 .. nly
    OBVIOUS
  <2> QED BY <1>2, <2>5, <2>6 DEF ShapeFits, s
<1>6. CASE ~(beta < m)
  <2>1. PICK y \in 0 .. 3 * nly - 1 : y = beta - Beta1(t)
    <3>1. beta - m \in 0 .. 3 * nly - 1
      BY <1>4, <1>6
    <3> QED BY <1>3, <3>1
  <2>2. PICK k \in 0 .. nly - 1 : k = y \div 3
    <3>1. y \div 3 \in 0 .. nly - 1
      OBVIOUS
    <3> QED BY <3>1
  <2>3. PICK hx \in BOOLEAN : hx = ((beta - Beta1(t)) % 3 # 1)
    OBVIOUS
  <2>4. PICK hy \in BOOLEAN : hy = ((beta - Beta1(t)) % 3 # 0)
    OBVIOUS
  <2>5. PICK d \in 1 .. nly : d = nly - k
    <3>1. nly - k \in 1 .. nly
      OBVIOUS
    <3> QED BY <3>1
  <2>6. t.nly - (beta - Beta1(t)) \div 3 = d
    BY <1>2, <2>1, <2>2, <2>5
  <2>7. s = [dx |-> d, dy |-> d, hx |-> hx, hy |-> hy]
    BY <1>3, <1>6, <2>3, <2>4, <2>6 DEF ShapeOf
  <2> HIDE DEF s
  <2>8. s.dx = d /\ s.dy = d /\ s.hx = hx /\ s.hy = hy
    BY <2>7
  <2>9. d \in 0 .. 8 /\ d # 0 /\ d \in 0 .. nly
    OBVIOUS
  <2> QED BY <1>2, <2>8, <2>9 DEF ShapeFits, s
<1> QED BY <1>5, <1>6

LEMMA BandTable ==
    ASSUME NEW t, Prepared(t)
    PROVE  /\ \A beta \in 0 .. NBeta(t) - 1 : \A c \in 0 .. Decomposed(t) - 1 :
                 LET b == BandIndex(t, beta, c) IN b \in Bands(t) /\ BandIs(t, t.bands[b], c, ShapeOf(t, beta))
           /\ \A c \in 0 .. t.sd - 1 :
                 LET b == BandIndex(t, 0, Decomposed(t) + c)
                 IN  b \in Bands(t) /\ BandIs(t, t.bands[b], Decomposed(t) + c, Whole)
<1>1. Fitted(t) /\ (\A c \in 0 .. t.nc - 1 : t.sx[c] \in 1 .. 2) /\ \A b \in Bands(t) : t.bands[b] = Band(t, b)
  BY DEF Prepared, IsTabled
<1>2. PICK w \in 1 .. 8 : w = Decomposed(t)
  BY <1>1, LayoutNumbers
<1>3. PICK n \in Nat : n = NBeta(t)
  BY <1>1, LayoutNumbers
<1>4. PICK sd \in 0 .. 7 : sd = t.sd /\ t.nc = w + sd
  BY <1>1, <1>2, LayoutNumbers
<1>5. /\ \A beta \in 0 .. n - 1 : \A c \in 0 .. w - 1 : BandIndex(t, beta, c) \in Bands(t)
      /\ \A c \in 0 .. sd - 1 : BandIndex(t, 0, w + c) \in Bands(t)
  <2>1. w \in Nat \ {0} /\ sd \in Nat
    OBVIOUS
  <2> QED BY <1>2, <1>3, <1>4, <2>1, BandPlaces
<1>6. PICK z \in Nat : z = w * n
  OBVIOUS
<1>7. ASSUME NEW beta \in 0 .. n - 1, NEW c \in 0 .. w - 1
      PROVE  BandIs(t, t.bands[BandIndex(t, beta, c)], c, ShapeOf(t, beta))
  <2> DEFINE b == BandIndex(t, beta, c)
             s == ShapeOf(t, beta)
  <2>1. PICK x \in Nat : x = beta * w
    OBVIOUS
  <2>2. b = x + c
    <3>1. w * beta = x
      BY <2>1
    <3> QED BY <1>2, <3>1 DEF BandIndex
  <2>3. b \div w = beta /\ b % w = c
    <3>1. w \in Nat \ {0} /\ beta \in Nat
      OBVIOUS
    <3>2. (beta * w + c) \div w = beta /\ (beta * w + c) % w = c
      BY <3>1, DivMod
    <3> QED BY <2>1, <2>2, <3>2
  <2>4. b < z
    <3>1. PICK k \in Nat : n = beta + 1 + k
      <4>1. n - (beta + 1) \in Nat /\ n = beta + 1 + (n - (beta + 1))
        OBVIOUS
      <4> QED BY <4>1
    <3>2. z = x + w + w * k
      BY <1>6, <2>1, <3>1
    <3>3. PICK y \in Nat : y = w * k
      OBVIOUS
    <3> QED BY <2>2, <3>2, <3>3
  <2>5. b < Decomposed(t) * NBeta(t)
    BY <1>2, <1>3, <1>6, <2>4
  <2>6. b \div Decomposed(t) = beta /\ b % Decomposed(t) = c
    BY <1>2, <2>3
  <2> HIDE DEF b
  <2>7. Band(t, b) = [component |-> c, decomposed |-> TRUE, dx |-> s.dx, dy |-> s.dy, hx |-> s.hx, hy |-> s.hy,
                width |-> IF s.hx THEN HighPassSize(ComponentWidth(t, c), s.dx) ELSE LowPassSize(ComponentWidth(t, c), s.dx),
                height |-> IF s.hy THEN HighPassSize(ComponentHeight(t, c), s.dy) ELSE LowPassSize(ComponentHeight(t, c), s.dy)]
    BY <2>5, <2>6, Zenon DEF Band, ShapeOf
  <2>8. ShapeFits(t, s) /\ c \in 0 .. t.nc - 1
    BY <1>1, <1>3, <1>4, ShapesFit
  <2> HIDE DEF s
  <2>9. BandIs(t, Band(t, b), c, s)
    <3> DEFINE x0 == Band(t, b)
    <3> HIDE DEF x0
    <3>1. x0 = [component |-> c, decomposed |-> TRUE, dx |-> s.dx, dy |-> s.dy, hx |-> s.hx, hy |-> s.hy,
                width |-> IF s.hx THEN HighPassSize(ComponentWidth(t, c), s.dx) ELSE LowPassSize(ComponentWidth(t, c), s.dx),
                height |-> IF s.hy THEN HighPassSize(ComponentHeight(t, c), s.dy) ELSE LowPassSize(ComponentHeight(t, c), s.dy)]
      BY <2>7 DEF x0
    <3>2. BandIs(t, x0, c, s)
      BY <1>1, <2>8, <3>1, ShapedBand
    <3> QED BY <3>2 DEF x0
  <2>10. t.bands[b] = Band(t, b)
    BY <1>1, <1>5 DEF b
  <2>11. BandIs(t, t.bands[b], c, s)
    BY <2>9, <2>10
  <2> QED BY <2>11 DEF b, s
<1>8. ASSUME NEW c \in 0 .. sd - 1
      PROVE  BandIs(t, t.bands[BandIndex(t, 0, w + c)], w + c, Whole)
  <2> DEFINE b == BandIndex(t, 0, w + c)
             s == Whole
             i == w + c
  <2>1. b = z + c
    <3>1. ~(w + c < w) /\ z + ((w + c) - w) = z + c
      OBVIOUS
    <3> QED BY <1>2, <1>3, <1>6, <3>1 DEF BandIndex
  <2>2. ~(b < Decomposed(t) * NBeta(t)) /\ Decomposed(t) + (b - Decomposed(t) * NBeta(t)) = i
    <3>1. ~(z + c < z) /\ w + ((z + c) - z) = w + c
      OBVIOUS
    <3> QED BY <1>2, <1>3, <1>6, <2>1, <3>1
  <2> HIDE DEF b, i
  <2>3. Band(t, b) = [component |-> i, decomposed |-> FALSE, dx |-> s.dx, dy |-> s.dy, hx |-> s.hx, hy |-> s.hy,
                width |-> IF s.hx THEN HighPassSize(ComponentWidth(t, i), s.dx) ELSE LowPassSize(ComponentWidth(t, i), s.dx),
                height |-> IF s.hy THEN HighPassSize(ComponentHeight(t, i), s.dy) ELSE LowPassSize(ComponentHeight(t, i), s.dy)]
    <3> DEFINE decomposed == b < Decomposed(t) * NBeta(t)
    <3>1. decomposed = FALSE
      BY <2>2
    <3> QED BY <2>2, <3>1, Zenon DEF Band, Whole
  <2>4. i \in 0 .. t.nc - 1
    BY <1>4 DEF i
  <2>5. ShapeFits(t, s)
    <3>1. t.nly \in 0 .. 8
      BY <1>1, LayoutNumbers
    <3>2. 0 \in 0 .. 8 /\ 0 \in 0 .. t.nly
      BY <3>1
    <3> QED BY <3>2 DEF ShapeFits, Whole
  <2> HIDE DEF s
  <2>6. BandIs(t, Band(t, b), i, s)
    <3> DEFINE x0 == Band(t, b)
    <3> HIDE DEF x0
    <3>1. x0 = [component |-> i, decomposed |-> FALSE, dx |-> s.dx, dy |-> s.dy, hx |-> s.hx, hy |-> s.hy,
                width |-> IF s.hx THEN HighPassSize(ComponentWidth(t, i), s.dx) ELSE LowPassSize(ComponentWidth(t, i), s.dx),
                height |-> IF s.hy THEN HighPassSize(ComponentHeight(t, i), s.dy) ELSE LowPassSize(ComponentHeight(t, i), s.dy)]
      BY <2>3 DEF x0
    <3>2. BandIs(t, x0, i, s)
      BY <1>1, <2>4, <2>5, <3>1, ShapedBand
    <3> QED BY <3>2 DEF x0
  <2>7. t.bands[b] = Band(t, b)
    BY <1>1, <1>5 DEF b
  <2>8. BandIs(t, t.bands[b], i, s)
    BY <2>6, <2>7
  <2> QED BY <2>8 DEF b, s, i
<1> QED BY <1>2, <1>3, <1>4, <1>5, <1>7, <1>8

LEMMA EveryBand ==
    ASSUME NEW t, Prepared(t), NEW b \in Bands(t)
    PROVE  BandFits(t, t.bands[b])
<1>1. Fitted(t)
  BY DEF Prepared
<1>2. t.sd \in Nat /\ Decomposed(t) \in Nat \ {0} /\ NBeta(t) \in Nat
  BY <1>1, LayoutNumbers
<1>3. \/ \E beta \in 0 .. NBeta(t) - 1 : \E c \in 0 .. Decomposed(t) - 1 : b = BandIndex(t, beta, c)
      \/ \E c \in 0 .. t.sd - 1 : b = BandIndex(t, 0, Decomposed(t) + c)
  BY <1>2, BandPlaces
<1>4. \E c, s : BandIs(t, t.bands[b], c, s)
  BY <1>3, BandTable
<1> QED BY <1>4 DEF BandIs

LEMMA SmallPowers == \A e \in 0 .. 8 : 2 ^ e \in Nat \ {0}
<1>1. \A e \in 0 .. 8 : e \in 0 .. 31
  OBVIOUS
<1> QED BY <1>1, PowersGrow

(* The lines of a band in a precinct: those of the band that its rows      *)
(* cover.                                                                  *)
Covered(t, i, b) == t.bands[b].height - PrecinctRow(t, i) * Span(t, b)
LEMMA LinesAre ==
    ASSUME NEW t, Prepared(t), NEW i \in 0 .. NumPrecincts(t) - 1, NEW b \in Bands(t)
    PROVE  /\ Span(t, b) \in Nat \ {0} /\ LineStart(t, b) \in Nat /\ Covered(t, i, b) \in Int
           /\ PrecinctRow(t, i) \in Nat /\ PrecinctColumn(t, i) \in 0 .. PrecinctsPerRow(t) - 1
           /\ i = PrecinctRow(t, i) * PrecinctsPerRow(t) + PrecinctColumn(t, i)
           /\ Lines(t, i, b) = Larger(0, Smaller(Covered(t, i, b), Span(t, b)))
           /\ Lines(t, i, b) \in 0 .. Span(t, b) /\ LineEnd(t, i, b) = LineStart(t, b) + Lines(t, i, b)
<1>1. Fitted(t)
  BY DEF Prepared
<1>2. PICK x : x = t.bands[b] /\ BandFits(t, x)
  BY EveryBand
<1>3. PICK nly \in 0 .. 8 : nly = t.nly
  BY <1>1, LayoutNumbers
<1>4. PICK S \in Nat \ {0} : S = Span(t, b)
  <2>1. nly - x.dy \in 0 .. 8
    <3>1. x.dy \in 0 .. nly
      BY <1>2, <1>3 DEF BandFits
    <3> QED BY <3>1
  <2> QED BY <1>2, <1>3, <2>1, SmallPowers DEF Span
<1>5. PICK s \in Nat : s = LineStart(t, b) /\ (s = 0 \/ s = S)
  BY <1>4 DEF LineStart
<1>6. /\ PrecinctRow(t, i) \in Nat /\ PrecinctColumn(t, i) \in 0 .. PrecinctsPerRow(t) - 1
      /\ i = PrecinctRow(t, i) * PrecinctsPerRow(t) + PrecinctColumn(t, i)
  <2>1. PICK w \in Nat \ {0} : w = PrecinctsPerRow(t)
    BY <1>1, Numbers
  <2>2. i \in Nat
    BY <1>1, Numbers
  <2>3. i \div w \in Nat /\ (i % w) \in 0 .. w - 1 /\ i = (i \div w) * w + (i % w)
    BY <2>1, <2>2, Parts
  <2> QED BY <2>1, <2>3 DEF PrecinctRow, PrecinctColumn
<1>7. PICK r \in Int : r = Covered(t, i, b)
  <2>1. PICK row \in Nat : row = PrecinctRow(t, i)
    BY <1>6
  <2>2. x.height \in Nat
    BY <1>2 DEF BandFits
  <2>3. x.height - row * S \in Int
    BY <2>2
  <2> QED BY <1>2, <1>4, <2>1, <2>3 DEF Covered
<1>8. PICK l \in 0 .. S : l = Larger(0, Smaller(r, S))
  <2>1. Larger(0, Smaller(r, S)) \in 0 .. S
    BY DEF Larger, Smaller
  <2> QED BY <2>1
<1>9. LineEnd(t, i, b) = s + l
  <2>1. LineEnd(t, i, b) = LineStart(t, b) + Larger(0, Smaller(Covered(t, i, b), Span(t, b)))
    BY DEF LineEnd, Covered
  <2> QED BY <1>4, <1>5, <1>7, <1>8, <2>1
<1>10. Lines(t, i, b) = (s + l) - s
  BY <1>5, <1>9 DEF Lines, Prepared, IsTabled
<1>11. Lines(t, i, b) = l
  BY <1>10
<1> QED BY <1>4, <1>5, <1>6, <1>7, <1>8, <1>9, <1>11

LEMMA PrecinctWidths ==
    ASSUME NEW t, Fitted(t), NEW i \in 0 .. NumPrecincts(t) - 1
    PROVE  PrecinctWidth(t, i) \in Nat /\ PrecinctWidth(t, i) <= ColumnWidth(t) /\ ColumnWidth(t) \in Nat \ {0}
<1>1. PICK cw \in Nat \ {0} : cw = ColumnWidth(t)
  <2>1. t.wf \in Nat \ {0} /\ t.cw \in Nat /\ t.nlx \in 1 .. 8
    BY DEF Fitted, FittedLayout
  <2>2. MaxSx(t) \in 1 .. 2
    BY DEF MaxSx
  <2>3. PICK pow \in Nat \ {0} : pow = 2 ^ t.nlx
    <3>1. t.nlx \in 0 .. 8
      BY <2>1
    <3> QED BY <3>1, SmallPowers
  <2>4. CASE t.cw > 0
    <3>1. 8 * t.cw \in Nat \ {0}
      BY <2>1, <2>4
    <3>2. 8 * t.cw * MaxSx(t) \in Nat \ {0}
      BY <2>2, <3>1
    <3>3. 8 * t.cw * MaxSx(t) * pow \in Nat \ {0}
      BY <3>2
    <3> QED BY <2>3, <2>4, <3>3 DEF ColumnWidth
  <2>5. CASE ~(t.cw > 0)
    BY <2>1, <2>5 DEF ColumnWidth
  <2> QED BY <2>4, <2>5
<1>2. PICK x \in Nat : x = t.wf - 1
  <2>1. t.wf \in Nat \ {0}
    BY DEF Fitted, FittedLayout
  <2>2. t.wf - 1 \in Nat
    BY <2>1
  <2> QED BY <2>2
<1>3. PICK last \in 1 .. cw : last = (x % cw) + 1
  <2>1. (x % cw) \in 0 .. cw - 1
    BY Parts
  <2>2. (x % cw) + 1 \in 1 .. cw
    BY <2>1
  <2> QED BY <2>2
<1>4. PrecinctWidth(t, i) = cw \/ PrecinctWidth(t, i) = last
  BY <1>1, <1>2, <1>3 DEF PrecinctWidth
<1> QED BY <1>1, <1>3, <1>4

LEMMA CeilingGrows ==
    ASSUME NEW a \in Nat, NEW c \in Nat, a <= c, NEW m \in Nat \ {0}
    PROVE  CeilDiv(a, m) <= CeilDiv(c, m) /\ CeilDiv(a, m) \div 2 <= CeilDiv(c, m) \div 2
           /\ CeilDiv(a, m) \in Nat /\ CeilDiv(c, m) \in Nat /\ CeilDiv(a, m) \div 2 \in Nat /\ CeilDiv(c, m) \div 2 \in Nat
<1>1. PICK x \in Nat : x = a + m - 1
  <2>1. a + m - 1 \in Nat
    OBVIOUS
  <2> QED BY <2>1
<1>2. PICK y \in Nat : y = c + m - 1
  <2>1. c + m - 1 \in Nat
    OBVIOUS
  <2> QED BY <2>1
<1>3. x <= y
  BY <1>1, <1>2
<1>4. PICK q \in Nat : q = x \div m /\ q * m <= x
  <2>1. x \div m \in Nat /\ (x % m) \in 0 .. m - 1 /\ x = (x \div m) * m + (x % m)
    BY Parts
  <2>2. PICK q \in Nat : q = x \div m
    BY <2>1
  <2>3. PICK z \in Nat : z = q * m
    OBVIOUS
  <2>4. z <= x
    BY <2>1, <2>2, <2>3
  <2> QED BY <2>2, <2>3, <2>4
<1>5. PICK r \in Nat : r = y \div m /\ y < (r + 1) * m
  <2>1. y \div m \in Nat /\ (y % m) \in 0 .. m - 1 /\ y = (y \div m) * m + (y % m)
    BY Parts
  <2>2. PICK r \in Nat : r = y \div m
    BY <2>1
  <2>3. PICK z \in Nat : z = r * m
    OBVIOUS
  <2>4. (r + 1) * m = z + m
    BY <2>3
  <2>5. y < z + m
    BY <2>1, <2>2, <2>3
  <2> QED BY <2>2, <2>4, <2>5
<1>6. q <= r
  <2> SUFFICES ASSUME ~(q <= r) PROVE FALSE
    OBVIOUS
  <2>1. PICK k \in Nat : q = r + 1 + k
    <3>1. q - (r + 1) \in Nat /\ q = r + 1 + (q - (r + 1))
      OBVIOUS
    <3> QED BY <3>1
  <2>2. q * m = (r + 1) * m + k * m /\ k * m \in Nat /\ (r + 1) * m \in Nat
    BY <2>1
  <2>3. PICK z \in Nat : z = k * m
    BY <2>2
  <2>4. PICK u \in Nat : u = (r + 1) * m
    BY <2>2
  <2> QED BY <1>3, <1>4, <1>5, <2>2, <2>3, <2>4
<1>7. q \div 2 <= r \div 2 /\ q \div 2 \in Nat /\ r \div 2 \in Nat
  BY <1>6
<1>8. CeilDiv(a, m) = q /\ CeilDiv(c, m) = r
  BY <1>1, <1>2, <1>4, <1>5 DEF CeilDiv
<1> QED BY <1>6, <1>7, <1>8

(* The columns of a band in a precinct: as many in every precinct of a     *)
(* column, nowhere more than in the first column.                          *)
LEMMA WidthsAre ==
    ASSUME NEW t, Prepared(t), NEW i \in 0 .. NumPrecincts(t) - 1, NEW k \in 0 .. NumPrecincts(t) - 1, NEW b \in Bands(t)
    PROVE  /\ t.widths[i][b] \in Nat
           /\ PrecinctColumn(t, i) = PrecinctColumn(t, k) => t.widths[i][b] = t.widths[k][b]
           /\ PrecinctColumn(t, k) = 0 => t.widths[i][b] <= t.widths[k][b]
<1>1. Fitted(t)
  BY DEF Prepared
<1>2. PICK x : x = t.bands[b] /\ BandFits(t, x)
  BY EveryBand
<1>3. t.widths[i][b] = BandPrecinctWidth(t, i, b) /\ t.widths[k][b] = BandPrecinctWidth(t, k, b)
  BY DEF Prepared, IsTabled
<1>4. PICK sx \in 1 .. 2 : sx = t.sx[x.component]
  BY <1>2 DEF BandFits, Prepared
<1>5. PICK a \in Nat : a = PrecinctWidth(t, i) /\ a <= ColumnWidth(t)
  BY <1>1, PrecinctWidths
<1>6. PICK c \in Nat : c = PrecinctWidth(t, k)
  BY <1>1, PrecinctWidths
<1> DEFINE W(v) == IF x.hx THEN CeilDiv(v, sx * 2 ^ (x.dx - 1)) \div 2 ELSE CeilDiv(v, sx * 2 ^ x.dx)
<1>7. t.widths[i][b] = W(a) /\ t.widths[k][b] = W(c)
  BY <1>2, <1>3, <1>4, <1>5, <1>6 DEF BandPrecinctWidth
<1>8. \A u, v \in Nat : u <= v => W(u) <= W(v) /\ W(u) \in Nat
  <2> SUFFICES ASSUME NEW u \in Nat, NEW v \in Nat, u <= v PROVE W(u) <= W(v) /\ W(u) \in Nat
    OBVIOUS
  <2>1. x.dx \in 0 .. 8 /\ x.hx \in BOOLEAN /\ (x.hx => x.dx # 0)
    BY <1>2 DEF BandFits
  <2>2. CASE x.hx
    <3>1. x.dx - 1 \in 0 .. 8
      BY <2>1, <2>2
    <3>2. PICK pow \in Nat \ {0} : pow = 2 ^ (x.dx - 1)
      BY <3>1, SmallPowers
    <3>3. sx * pow \in Nat \ {0}
      OBVIOUS
    <3>4. CeilDiv(u, sx * pow) \div 2 <= CeilDiv(v, sx * pow) \div 2 /\ CeilDiv(u, sx * pow) \div 2 \in Nat
      BY <3>3, CeilingGrows
    <3> QED BY <2>2, <3>2, <3>4
  <2>3. CASE ~x.hx
    <3>2. PICK pow \in Nat \ {0} : pow = 2 ^ x.dx
      BY <2>1, SmallPowers
    <3>3. sx * pow \in Nat \ {0}
      OBVIOUS
    <3>4. CeilDiv(u, sx * pow) <= CeilDiv(v, sx * pow) /\ CeilDiv(u, sx * pow) \in Nat
      BY <3>3, CeilingGrows
    <3> QED BY <2>3, <3>2, <3>4
  <2> QED BY <2>2, <2>3
<1> HIDE DEF W
<1>9. t.widths[i][b] \in Nat
  <2>1. a <= a
    OBVIOUS
  <2> QED BY <1>7, <1>8, <2>1
<1>10. ASSUME PrecinctColumn(t, i) = PrecinctColumn(t, k) PROVE a = c
  BY <1>5, <1>6, <1>10 DEF PrecinctWidth
<1>11. ASSUME PrecinctColumn(t, k) = 0 PROVE a <= c
  <2>1. PICK w \in Nat \ {0} : w = PrecinctsPerRow(t)
    BY <1>1, Numbers
  <2>2. CASE w = 1
    <3>1. PrecinctColumn(t, i) \in 0 .. w - 1
      BY <2>1, LinesAre
    <3>2. PrecinctColumn(t, i) = 0
      BY <2>2, <3>1
    <3> QED BY <1>5, <1>10, <1>11, <3>2
  <2>3. CASE w # 1
    <3>1. 0 < w - 1
      BY <2>3
    <3>2. c = ColumnWidth(t)
      BY <1>6, <1>11, <2>1, <3>1 DEF PrecinctWidth
    <3> QED BY <1>5, <3>2
  <2> QED BY <2>2, <2>3
<1> QED BY <1>7, <1>8, <1>9, <1>10, <1>11

LEMMA LevelShape ==
    ASSUME NEW t, Fitted(t), NEW k \in 0 .. t.nly - 1, NEW j \in 0 .. 2
    PROVE  /\ (Beta1(t) + 3 * k) + j \in 0 .. NBeta(t) - 1
           /\ ShapeOf(t, (Beta1(t) + 3 * k) + j).dy = t.nly - k
<1>1. PICK nly \in 0 .. 8 : nly = t.nly
  BY LayoutNumbers
<1>2. PICK m \in 1 .. 9 : m = Beta1(t)
  BY LayoutNumbers
<1>3. NBeta(t) = m + 3 * nly
  BY <1>1, <1>2, LayoutNumbers
<1>4. PICK x \in Nat : x = (m + 3 * k) + j /\ x \in 0 .. m + 3 * nly - 1 /\ ~(x < m) /\ (x - m) \div 3 = k
  <2>1. k \in 0 .. nly - 1
    BY <1>1
  <2>2. (m + 3 * k) + j \in Nat /\ (m + 3 * k) + j \in 0 .. m + 3 * nly - 1 /\ ~((m + 3 * k) + j < m)
        /\ ((m + 3 * k) + j) - m = 3 * k + j
    BY <2>1
  <2>3. (3 * k + j) \div 3 = k
    BY <2>1
  <2> QED BY <2>2, <2>3
<1> DEFINE level == t.nly - (x - Beta1(t)) \div 3
<1>5. ShapeOf(t, x) = [dx |-> level, dy |-> level, hx |-> (x - Beta1(t)) % 3 # 1, hy |-> (x - Beta1(t)) % 3 # 0]
  BY <1>2, <1>4, Zenon DEF ShapeOf
<1>6. level = t.nly - k
  BY <1>2, <1>4
<1> HIDE DEF level
<1>7. ShapeOf(t, x).dy = level
  BY <1>5
<1> QED BY <1>2, <1>3, <1>4, <1>6, <1>7

(* The layout of every precinct of a job is sound.                         *)
LEMMA TablesShaped ==
    ASSUME NEW t, Prepared(t), NEW i \in 0 .. NumPrecincts(t) - 1
    PROVE  Shaped(t, i) /\ TablesFit(t, i) /\ LayoutSound(t, i)
<1>1. Fitted(t)
  BY DEF Prepared
<1>2. PICK nly \in 0 .. 8 : nly = t.nly
  BY <1>1, LayoutNumbers
<1>3. PICK m \in 1 .. 9 : m = Beta1(t)
  BY <1>1, LayoutNumbers
<1>4. PICK w \in 1 .. 8 : w = Decomposed(t)
  BY <1>1, LayoutNumbers
<1>5. NBeta(t) = Beta1(t) + 3 * t.nly /\ NBeta(t) \in Nat /\ t.sd \in 0 .. 7
  BY <1>1, LayoutNumbers
<1>6. 2 ^ t.nly \in Nat
  BY <1>2, SmallPowers
<1>7. ASSUME NEW b \in Bands(t)
      PROVE  /\ Span(t, b) \in Nat \ {0} /\ LineStart(t, b) \in Nat
             /\ Lines(t, i, b) \in 0 .. Span(t, b)
             /\ LineEnd(t, i, b) = LineStart(t, b) + Lines(t, i, b)
  BY LinesAre
<1>8. ASSUME NEW c \in 0 .. w - 1, NEW beta \in 0 .. m - 1 PROVE Span(t, BandIndex(t, beta, c)) = 1
  <2>1. beta \in 0 .. NBeta(t) - 1
    <3>1. NBeta(t) = m + 3 * nly
      BY <1>2, <1>3, <1>5
    <3> QED BY <3>1
  <2>2. t.bands[BandIndex(t, beta, c)].dy = ShapeOf(t, beta).dy
    BY <1>4, <2>1, BandTable DEF BandIs
  <2>3. ShapeOf(t, beta).dy = nly
    <3>1. beta < Beta1(t)
      BY <1>3
    <3> QED BY <1>2, <3>1 DEF ShapeOf
  <2>4. nly - nly = 0 /\ 2 ^ 0 = 1
    <3>1. nly - nly = 0
      OBVIOUS
    <3> QED BY <3>1, PowersGrow
  <2> QED BY <1>2, <2>2, <2>3, <2>4 DEF Span
<1>9. ASSUME NEW k \in 0 .. t.nly - 1, NEW j \in 0 .. 2, NEW c \in 0 .. w - 1
      PROVE  Span(t, BandIndex(t, (Beta1(t) + 3 * k) + j, c)) = 2 ^ (t.nly - (t.nly - k))
  <2> DEFINE beta == (Beta1(t) + 3 * k) + j
  <2>1. beta \in 0 .. NBeta(t) - 1 /\ ShapeOf(t, beta).dy = t.nly - k
    BY <1>1, LevelShape
  <2> HIDE DEF beta
  <2>2. t.bands[BandIndex(t, beta, c)].dy = ShapeOf(t, beta).dy
    BY <1>4, <2>1, BandTable DEF BandIs
  <2>3. Span(t, BandIndex(t, beta, c)) = 2 ^ (t.nly - (t.nly - k))
    BY <2>1, <2>2 DEF Span
  <2> QED BY <2>3 DEF beta
<1>10. ASSUME NEW c \in 0 .. w - 1, NEW k \in 0 .. t.nly - 1, NEW j \in 0 .. 2
       PROVE  Span(t, BandIndex(t, Beta1(t) + 3 * k + j, c)) = Span(t, BandIndex(t, Beta1(t) + 3 * k, 0))
  <2>1. (Beta1(t) + 3 * k) + 0 = Beta1(t) + 3 * k /\ 0 \in 0 .. 2 /\ 0 \in 0 .. w - 1
    <3>1. (m + 3 * k) + 0 = m + 3 * k
      <4>1. k \in 0 .. nly - 1
        BY <1>2
      <4> QED BY <4>1
    <3> QED BY <1>3, <3>1
  <2>2. Span(t, BandIndex(t, (Beta1(t) + 3 * k) + j, c)) = Span(t, BandIndex(t, (Beta1(t) + 3 * k) + 0, 0))
    BY <1>9, <2>1
  <2> QED BY <2>1, <2>2
<1>11. ASSUME NEW c \in 0 .. t.sd - 1
       PROVE  LET b == BandIndex(t, 0, Decomposed(t) + c) IN Span(t, b) = 2 ^ t.nly /\ LineStart(t, b) = 0
  <2> DEFINE b == BandIndex(t, 0, Decomposed(t) + c)
  <2>1. t.bands[b].dy = 0 /\ t.bands[b].hy = FALSE
    BY BandTable DEF BandIs, Whole
  <2> HIDE DEF b
  <2>2. nly - 0 = nly
    OBVIOUS
  <2>3. Span(t, b) = 2 ^ t.nly /\ LineStart(t, b) = 0
    BY <1>2, <2>1, <2>2 DEF Span, LineStart
  <2> QED BY <2>3 DEF b
<1>12. t.nly \in Nat /\ t.sd \in Nat /\ Decomposed(t) \in Nat \ {0} /\ Beta1(t) \in Nat \ {0}
  BY <1>2, <1>3, <1>4, <1>5
<1>13. Shaped(t, i)
  BY <1>3, <1>4, <1>5, <1>6, <1>7, <1>8, <1>10, <1>11, <1>12 DEF Shaped
<1>14. TablesFit(t, i)
  <2> SUFFICES ASSUME NEW b \in Bands(t)
               PROVE  t.widths[i][b] \in Nat /\ Lines(t, i, b) \in Nat /\ t.weights[b].gain \in Nat
    BY DEF TablesFit
  <2>1. t.widths[i][b] \in Nat
    BY WidthsAre
  <2>2. PICK S \in Nat : S = Span(t, b)
    BY <1>7
  <2>3. Lines(t, i, b) \in Nat
    BY <1>7, <2>2
  <2> QED BY <2>1, <2>3 DEF Prepared
<1>15. t.packets[i] = Packets(t, i)
  BY DEF Prepared, IsTabled
<1> QED BY <1>13, <1>14, <1>15, EveryLineIsSent

(* For the headers of any job: the tables fit, every line of every band is *)
(* in a packet of its precinct, behind the line above it.                  *)
THEOREM EveryLayoutIsSound ==
    ASSUME NEW c, JobOk(c), NEW i \in 0 .. NumPrecincts(Tables(MakeHeaders(c))) - 1
    PROVE  LET t == Tables(MakeHeaders(c)) IN Codable(t) /\ TablesFit(t, i) /\ LayoutSound(t, i)
<1> DEFINE t == Tables(MakeHeaders(c))
<1>1. Prepared(t)
  BY TablesPrepared
<1>2. i \in 0 .. NumPrecincts(t) - 1
  OBVIOUS
<1> HIDE DEF t
<1> QED BY <1>1, <1>2, TablesShaped DEF Prepared, t
=============================================================================
