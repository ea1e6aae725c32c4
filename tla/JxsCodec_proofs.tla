-------------------------- MODULE JxsCodec_proofs --------------------------
(***************************************************************************)
(* Proofs about the JPEG XS codec (JxsCodec and the modules below it).     *)
(*   - Building blocks, for every input: each transform has an inverse,    *)
(*     the quantiser loses less than a step, what the bit writer and the   *)
(*     header writer put a reader gets back.                               *)
(*   - The encoder, for every job: the rate control finds what it looks    *)
(*     for, the slices written can be read, and a codestream of a constant *)
(*     rate takes its budget, less than a byte per precinct short, and     *)
(*     says so in its header.                                              *)
(*   - The decoder, for every codestream: no picture with a gap.           *)
(* What the entropy coder does packet by packet is in JxsEntropy_proofs;   *)
(* the wavelet transform of a whole picture is left to the run.            *)
(***************************************************************************)
EXTENDS JxsCodec, SequenceTheorems, FiniteSetTheorems, WellFoundedInduction, TLAPS

(* The variable-length code decodes to the residual that was encoded, for  *)
(* every predictor and truncation (entropy.cc: VlcEncode, VlcDecode).      *)
THEOREM VlcRoundTrip ==
    ASSUME NEW r \in Int, NEW t \in Int, NEW x \in Int, x >= -Theta(r, t)
    PROVE  /\ VlcEncode(x, r, t) \in Nat
           /\ VlcDecode(VlcEncode(x, r, t), r, t) = x
<1> DEFINE theta == Theta(r, t)
           n == VlcEncode(x, r, t)
<1>1. theta \in Nat
    BY DEF Theta, Larger
<1>2. CASE x > theta
    <2>1. n = x + theta /\ n > 2 * theta
        BY <1>1, <1>2 DEF VlcEncode
    <2> QED
        BY <2>1, <1>1, <1>2 DEF VlcDecode
<1>3. CASE x <= theta /\ x < 0
    <2>1. n = -2 * x - 1 /\ n <= 2 * theta /\ n \in Nat
        BY <1>1, <1>3 DEF VlcEncode
    <2>2. n % 2 = 1 /\ (n + 1) \div 2 = -x
        BY <2>1
    <2> QED
        BY <2>1, <2>2, <1>1 DEF VlcDecode
<1>4. CASE x <= theta /\ x >= 0
    <2>1. n = 2 * x /\ n <= 2 * theta /\ n \in Nat
        BY <1>1, <1>4 DEF VlcEncode
    <2>2. n % 2 = 0 /\ n \div 2 = x
        BY <2>1, <1>4
    <2> QED
        BY <2>1, <2>2, <1>1 DEF VlcDecode
<1> QED
    BY <1>1, <1>2, <1>3, <1>4

(* The reversible colour transform of a pixel (transform.cc: ForwardRct,   *)
(* InverseRct).                                                            *)
THEOREM ColourRoundTrip ==
    ASSUME NEW i \in [0 .. 2 -> Int]
    PROVE  /\ ForwardPixel(i) \in [0 .. 2 -> Int]
           /\ InversePixel(ForwardPixel(i)) = i
<1> DEFINE f == ForwardPixel(i)
<1>1. /\ f \in [0 .. 2 -> Int]
      /\ f[0] = (i[0] + 2 * i[1] + i[2]) \div 4
      /\ f[1] = i[2] - i[1]
      /\ f[2] = i[0] - i[1]
    BY DEF ForwardPixel
<1>2. \A a, b, c \in Int : (a + 2 * b + c) \div 4 - ((c - b) + (a - b)) \div 4 = b
    OBVIOUS
<1>3. f[0] - (f[1] + f[2]) \div 4 = i[1]
    BY <1>1, <1>2
<1>4. InversePixel(f) = [c \in 0 .. 2 |-> i[c]]
    BY <1>1, <1>3 DEF InversePixel
<1> QED
    BY <1>1, <1>4

-----------------------------------------------------------------------------
(* The extension by two samples on each side is symmetric about the first  *)
(* and about the last sample (transform.cc: ExtendSamples).                *)
LEMMA Remainder ==
    ASSUME NEW n \in Nat \ {0}, NEW r \in 0 .. n - 1
    PROVE  r % n = r /\ (r - n) % n = r /\ (r + n) % n = r
OBVIOUS

LEMMA MirrorOf ==
    ASSUME NEW z \in Nat, z >= 2, NEW i \in Int, NEW r \in 0 .. 2 * (z - 1) - 1,
           i = r \/ i = r - 2 * (z - 1) \/ i = r + 2 * (z - 1)
    PROVE  Mirror(i, z) = IF r < z THEN r ELSE 2 * (z - 1) - r
<1> DEFINE n == 2 * (z - 1)
<1>1. n \in Nat \ {0} /\ r \in 0 .. n - 1 /\ (i = r \/ i = r - n \/ i = r + n)
    OBVIOUS
<1> HIDE DEF n
<1>2. i % n = r
    BY <1>1, Remainder
<1> QED
    BY <1>2 DEF Mirror, n

Symmetric(x, z) == /\ x \in [-2 .. z + 1 -> Int]
                   /\ x[-1] = x[1] /\ x[-2] = x[2]
                   /\ x[z] = x[z - 2] /\ x[z + 1] = x[z - 3]

LEMMA Extended ==
    ASSUME NEW z \in Nat, z >= 2, NEW s \in [0 .. z - 1 -> Int]
    PROVE  /\ Symmetric(ExtendSamples(s, z), z)
           /\ \A i \in 0 .. z - 1 : ExtendSamples(s, z)[i] = s[i]
<1>1. \A i \in 0 .. z - 1 : Mirror(i, z) = i
    BY MirrorOf
<1>2. Mirror(-1, z) = 1
    <2> DEFINE n == 2 * (z - 1)
    <2>1. n \in Nat \ {0} /\ n - 1 \in 0 .. n - 1 /\ n - 1 - n = -1
        OBVIOUS
    <2> HIDE DEF n
    <2>2. (-1) % n = n - 1
        BY <2>1, Remainder
    <2>3. n = 2 * z - 2
        BY DEF n
    <2> QED
        BY <2>2, <2>3 DEF Mirror, n
<1>3. Mirror(-2, z) = IF z = 2 THEN 0 ELSE 2
    <2> DEFINE r == 2 * z - 4
    <2>1. r \in 0 .. 2 * (z - 1) - 1 /\ -2 = r - 2 * (z - 1)
        OBVIOUS
    <2>2. Mirror(-2, z) = IF r < z THEN r ELSE 2 * (z - 1) - r
        BY <2>1, MirrorOf
    <2> QED
        BY <2>2
<1>4. Mirror(z, z) = z - 2
    <2>1. CASE z = 2
        BY <2>1, MirrorOf
    <2>2. CASE z > 2
        BY <2>2, MirrorOf
    <2> QED
        BY <2>1, <2>2
<1>5. Mirror(z + 1, z) = IF z = 2 THEN 1 ELSE z - 3
    <2>1. CASE z = 2
        BY <2>1, MirrorOf
    <2>2. CASE z = 3
        BY <2>2, MirrorOf
    <2>3. CASE z > 3
        BY <2>3, MirrorOf
    <2> QED
        BY <2>1, <2>2, <2>3
<1>6. ASSUME NEW i \in -2 .. z + 1 PROVE Mirror(i, z) \in 0 .. z - 1
    <2>1. CASE i \in 0 .. z - 1
        BY <2>1, <1>1
    <2>2. CASE i = -1
        BY <2>2, <1>2
    <2>3. CASE i = -2
        BY <2>3, <1>3
    <2>4. CASE i = z
        BY <2>4, <1>4
    <2>5. CASE i = z + 1
        BY <2>5, <1>5
    <2> QED
        BY <2>1, <2>2, <2>3, <2>4, <2>5
<1> DEFINE x == ExtendSamples(s, z)
<1>7. x = [i \in -2 .. z + 1 |-> s[Mirror(i, z)]]
    BY DEF ExtendSamples
<1>8. x \in [-2 .. z + 1 -> Int]
    BY <1>6, <1>7
<1>9. \A i \in 0 .. z - 1 : x[i] = s[i]
    BY <1>1, <1>7
<1>10. x[-1] = x[1] /\ x[-2] = x[2]
    BY <1>1, <1>2, <1>3, <1>4, <1>7
<1>11. x[z] = x[z - 2] /\ x[z + 1] = x[z - 3]
    BY <1>1, <1>2, <1>4, <1>5, <1>7
<1> QED
    BY <1>8, <1>9, <1>10, <1>11 DEF Symmetric

LEMMA OnceIs == \A v : Once(v) = v
BY DEF Once

LEMMA Parity == \A i \in Int : (Even(i + 1) <=> ~Even(i)) /\ (Even(i - 1) <=> ~Even(i)) /\ (Even(i - 2) <=> Even(i))
BY DEF Even

(* The odd outputs of the forward filter, symmetric like their inputs.     *)
LEMMA OddStep ==
    ASSUME NEW z \in Nat, z >= 2, NEW x, Symmetric(x, z), NEW high,
           high = [i \in -2 .. z + 1 |-> IF ~Even(i) /\ i \in -1 .. z THEN x[i] - HighLift(x, i) ELSE x[i]]
    PROVE  /\ \A i \in -1 .. z : high[i] \in Int
           /\ \A i \in -1 .. z : Even(i) => high[i] = x[i]
           /\ \A i \in -1 .. z : ~Even(i) => high[i] = x[i] - HighLift(x, i)
           /\ high[-1] = high[1]
           /\ ~Even(z) => high[z] = high[z - 2]
<1>1. \A i \in -1 .. z : ~Even(i) => high[i] = x[i] - HighLift(x, i)
    OBVIOUS
<1>2. \A i \in -1 .. z : Even(i) => high[i] = x[i]
    OBVIOUS
<1>3. ASSUME NEW i \in -1 .. z PROVE high[i] \in Int
    <2>1. x[i - 1] \in Int /\ x[i] \in Int /\ x[i + 1] \in Int
        BY DEF Symmetric
    <2>2. HighLift(x, i) \in Int
        BY <2>1 DEF HighLift
    <2> QED
        BY <2>1, <2>2, <1>1, <1>2
<1>5. high[-1] = high[1]
    <2>1. x[-1 - 1] + x[-1 + 1] = x[1 - 1] + x[1 + 1]
        BY DEF Symmetric
    <2>2. HighLift(x, -1) = HighLift(x, 1)
        BY <2>1 DEF HighLift
    <2> QED
        BY <2>2, <1>1 DEF Symmetric, Even
<1>6. ASSUME ~Even(z) PROVE high[z] = high[z - 2]
    <2>1. z - 2 \in -1 .. z /\ ~Even(z - 2)
        BY <1>6, Parity
    <2>2. x[z - 1] + x[z + 1] = x[z - 2 - 1] + x[z - 2 + 1]
        BY DEF Symmetric
    <2>3. HighLift(x, z) = HighLift(x, z - 2)
        BY <2>2 DEF HighLift
    <2> QED
        BY <2>1, <2>3, <1>1, <1>6 DEF Symmetric
<1> QED
    BY <1>1, <1>2, <1>3, <1>5, <1>6

(* The 5/3 lifting filters in one dimension are inverses of each other,    *)
(* for every line of at least two samples, of even and of odd length       *)
(* (transform.cc: ForwardFilter1D, InverseFilter1D).                       *)
THEOREM LiftingRoundTrip ==
    ASSUME NEW z \in Nat, z >= 2, NEW s \in [0 .. z - 1 -> Int]
    PROVE  /\ ForwardFilter1D(s, z) \in [0 .. z - 1 -> Int]
           /\ InverseFilter1D(ForwardFilter1D(s, z), z) = s
<1> DEFINE x == ExtendSamples(s, z)
           high == [i \in -2 .. z + 1 |-> IF ~Even(i) /\ i \in -1 .. z THEN x[i] - HighLift(x, i) ELSE x[i]]
           y == ForwardFilter1D(s, z)
           w == ExtendSamples(y, z)
           low == [i \in -2 .. z + 1 |-> IF Even(i) /\ i \in 0 .. z THEN w[i] - LowLift(w, i) ELSE w[i]]
<1>1. y = [i \in 0 .. z - 1 |-> IF Even(i) THEN high[i] + LowLift(high, i) ELSE high[i]]
    BY OnceIs DEF ForwardFilter1D
<1>2. InverseFilter1D(y, z) = [i \in 0 .. z - 1 |-> IF Even(i) THEN low[i] ELSE low[i] + HighLift(low, i)]
    BY OnceIs DEF InverseFilter1D
<1>3. Symmetric(x, z) /\ \A i \in 0 .. z - 1 : x[i] = s[i]
    BY Extended
<1> HIDE DEF x, y
<1>4. /\ \A i \in -1 .. z : high[i] \in Int
      /\ \A i \in -1 .. z : Even(i) => high[i] = x[i]
      /\ \A i \in -1 .. z : ~Even(i) => high[i] = x[i] - HighLift(x, i)
      /\ high[-1] = high[1]
      /\ ~Even(z) => high[z] = high[z - 2]
    BY <1>3, OddStep
<1> HIDE DEF high
<1>5. ASSUME NEW i \in 0 .. z - 1 PROVE LowLift(high, i) \in Int
    <2>1. high[i - 1] \in Int /\ high[i + 1] \in Int
        BY <1>4
    <2> QED
        BY <2>1 DEF LowLift
<1>6. y \in [0 .. z - 1 -> Int]
    BY <1>1, <1>4, <1>5
<1>7. Symmetric(w, z) /\ \A i \in 0 .. z - 1 : w[i] = y[i]
    BY <1>6, Extended
<1> HIDE DEF w
<1>8. ASSUME NEW i \in -1 .. z, ~Even(i) PROVE w[i] = high[i]
    <2>1. CASE i \in 0 .. z - 1
        BY <2>1, <1>1, <1>7, <1>8
    <2>2. CASE i = -1
        <3>1. ~Even(1)
            BY DEF Even
        <3> QED
            BY <2>2, <3>1, <1>1, <1>4, <1>7 DEF Symmetric
    <2>3. CASE i = z
        <3>1. ~Even(z - 2) /\ z - 2 \in 0 .. z - 1
            BY <2>3, <1>8, Parity
        <3> QED
            BY <2>3, <3>1, <1>1, <1>4, <1>7, <1>8 DEF Symmetric
    <2> QED
        BY <2>1, <2>2, <2>3
<1>9. \A i \in 0 .. z - 1 : Even(i) => w[i] = x[i] + LowLift(high, i)
    BY <1>1, <1>4, <1>7
<1>10. ASSUME NEW i \in 0 .. z - 1, Even(i) PROVE low[i] = x[i]
    <2>1. ~Even(i - 1) /\ ~Even(i + 1) /\ i - 1 \in -1 .. z /\ i + 1 \in -1 .. z
        BY <1>10, Parity
    <2>2. LowLift(high, i) \in Int /\ LowLift(high, i) = LowLift(w, i)
        BY <2>1, <1>5, <1>8 DEF LowLift
    <2>3. low[i] = w[i] - LowLift(w, i)
        BY <1>10
    <2>4. x[i] \in Int
        BY <1>3 DEF Symmetric
    <2> HIDE DEF low
    <2> QED
        BY <1>9, <1>10, <2>2, <2>3, <2>4
(* The even step is also undone one position beyond a line of even length. *)
<1>11. ASSUME Even(z) PROVE low[z] = x[z]
    <2>1. z - 2 \in 0 .. z - 1 /\ Even(z - 2)
        BY <1>11, Parity
    <2>2. w[z - 1] + w[z + 1] = w[z - 3] + w[z - 1]
        BY <1>7 DEF Symmetric
    <2>3. LowLift(w, z) = LowLift(w, z - 2)
        BY <2>2 DEF LowLift
    <2>4. low[z] = low[z - 2]
        BY <1>7, <1>11, <2>1, <2>3 DEF Symmetric
    <2> HIDE DEF low
    <2> QED
        BY <1>3, <1>10, <2>1, <2>4 DEF Symmetric
<1>12. \A i \in 0 .. z - 1 : ~Even(i) => low[i] = x[i] - HighLift(x, i)
    BY <1>4, <1>8
<1> HIDE DEF low
<1>13. ASSUME NEW i \in 0 .. z - 1, ~Even(i)
       PROVE  low[i] + HighLift(low, i) = x[i]
    <2>1. Even(i - 1) /\ Even(i + 1) /\ i - 1 \in 0 .. z /\ i + 1 \in 0 .. z
        BY <1>13, Parity DEF Even
    <2>2. low[i - 1] = x[i - 1] /\ low[i + 1] = x[i + 1]
        BY <2>1, <1>10, <1>11
    <2>3. x[i - 1] \in Int /\ x[i + 1] \in Int
        BY <1>3 DEF Symmetric
    <2>4. HighLift(x, i) \in Int /\ HighLift(x, i) = HighLift(low, i)
        BY <2>2, <2>3 DEF HighLift
    <2>5. low[i] = x[i] - HighLift(x, i)
        BY <1>12, <1>13
    <2>6. x[i] \in Int
        BY <1>3 DEF Symmetric
    <2> HIDE DEF x
    <2> QED
        BY <2>4, <2>5, <2>6
<1>14. \A i \in 0 .. z - 1 : InverseFilter1D(y, z)[i] = s[i]
    BY <1>2, <1>3, <1>10, <1>13
<1>15. InverseFilter1D(y, z) = s
    BY <1>2, <1>14
<1> QED
    BY <1>6, <1>15 DEF y
-----------------------------------------------------------------------------
(* A plane: lines of samples.                                              *)
Plane(lines, width) == [0 .. lines - 1 -> [0 .. width - 1 -> Int]]

LEMMA WidthIs ==
    ASSUME NEW lines \in Nat, lines > 0, NEW width \in Nat, NEW plane \in Plane(lines, width)
    PROVE  /\ Width(plane) = width /\ DOMAIN plane = 0 .. lines - 1
           /\ \A y \in 0 .. lines - 1 : plane[y] \in [0 .. width - 1 -> Int]
<1>1. \A y \in 0 .. lines - 1 : plane[y] \in [0 .. width - 1 -> Int]
  BY DEF Plane
<1>2. DOMAIN plane[0] = 0 .. width - 1
  BY <1>1
<1>3. Cardinality(0 .. width - 1) = width
  BY FS_Interval
<1> QED BY <1>1, <1>2, <1>3 DEF Width, Plane

LEMMA TransposeTwice ==
    ASSUME NEW lines \in Nat, lines > 0, NEW width \in Nat, width > 0, NEW plane \in Plane(lines, width)
    PROVE  /\ Transpose(plane) \in Plane(width, lines)
           /\ Transpose(Transpose(plane)) = plane
<1> DEFINE t == Transpose(plane)
<1>1. DOMAIN plane = 0 .. lines - 1 /\ \A y \in 0 .. lines - 1 : plane[y] \in [0 .. width - 1 -> Int]
  BY WidthIs
<1>2. t = [x \in 0 .. width - 1 |-> [y \in 0 .. lines - 1 |-> plane[y][x]]]
  BY <1>1 DEF Transpose
<1>3. \A x \in 0 .. width - 1, y \in 0 .. lines - 1 : plane[y][x] \in Int
  BY <1>1
<1>4. t \in Plane(width, lines)
  BY <1>2, <1>3 DEF Plane
<1> HIDE DEF t
<1>5. DOMAIN t = 0 .. width - 1 /\ DOMAIN t[0] = 0 .. lines - 1
  BY <1>2
<1>6. Transpose(t) = [y \in 0 .. lines - 1 |-> [x \in 0 .. width - 1 |-> t[x][y]]]
  BY <1>5 DEF Transpose
<1>7. ASSUME NEW y \in 0 .. lines - 1 PROVE [x \in 0 .. width - 1 |-> t[x][y]] = plane[y]
  <2>1. \A x \in 0 .. width - 1 : t[x][y] = plane[y][x]
    BY <1>2
  <2>2. plane[y] = [x \in 0 .. width - 1 |-> plane[y][x]]
    BY <1>1
  <2> QED BY <2>1, <2>2
<1>8. plane = [y \in 0 .. lines - 1 |-> plane[y]]
  BY DEF Plane
<1> QED BY <1>4, <1>6, <1>7, <1>8 DEF t

(* One level along the lines is reversible, for every plane at least two   *)
(* samples wide, of even and of odd width (transform.cc: HorizontalForward,*)
(* HorizontalInverse).                                                     *)
Bisected(t, lines, width) ==
    /\ t.low \in Plane(lines, (width + 1) \div 2) /\ t.high \in Plane(lines, width \div 2)

LEMMA HorizontalRoundTrip ==
    ASSUME NEW lines \in Nat, lines > 0, NEW width \in Nat, width >= 2, NEW plane \in Plane(lines, width)
    PROVE  /\ Bisected(HorizontalForward(plane), lines, width)
           /\ HorizontalInverse(HorizontalForward(plane).low, HorizontalForward(plane).high) = plane
<1> DEFINE Line(r) == ForwardFilter1D(plane[r], width)
           t == HorizontalForward(plane)
           nl == (width + 1) \div 2
           nh == width \div 2
           Woven(r) == [i \in 0 .. width - 1 |-> IF Even(i) THEN t.low[r][i \div 2] ELSE t.high[r][i \div 2]]
<1>1. /\ Width(plane) = width /\ DOMAIN plane = 0 .. lines - 1
      /\ \A y \in 0 .. lines - 1 : plane[y] \in [0 .. width - 1 -> Int]
  BY WidthIs
<1>2. \A r \in 0 .. lines - 1 : Line(r) \in [0 .. width - 1 -> Int] /\ InverseFilter1D(Line(r), width) = plane[r]
  BY <1>1, LiftingRoundTrip
<1> HIDE DEF Line
<1>3. t = Split([r \in 0 .. lines - 1 |-> Line(r)], width)
  BY <1>1, OnceIs DEF HorizontalForward, Line
<1> HIDE DEF t
<1>4. /\ t.low = [r \in 0 .. lines - 1 |-> [i \in 0 .. nl - 1 |-> Line(r)[2 * i]]]
      /\ t.high = [r \in 0 .. lines - 1 |-> [i \in 0 .. nh - 1 |-> Line(r)[2 * i + 1]]]
  BY <1>3 DEF Split
<1>5. /\ nl \in Nat /\ nh \in Nat /\ nl > 0 /\ nl + nh = width
      /\ \A i \in 0 .. nl - 1 : 2 * i \in 0 .. width - 1
      /\ \A i \in 0 .. nh - 1 : 2 * i + 1 \in 0 .. width - 1
      /\ \A i \in 0 .. width - 1 : i % 2 = 0 => i \div 2 \in 0 .. nl - 1 /\ 2 * (i \div 2) = i
      /\ \A i \in 0 .. width - 1 : i % 2 # 0 => i \div 2 \in 0 .. nh - 1 /\ 2 * (i \div 2) + 1 = i
  OBVIOUS
<1> HIDE DEF nl, nh
<1>6. t.low \in Plane(lines, nl) /\ t.high \in Plane(lines, nh)
  <2>1. \A r \in 0 .. lines - 1, i \in 0 .. nl - 1 : Line(r)[2 * i] \in Int
    BY <1>2, <1>5
  <2>2. \A r \in 0 .. lines - 1, i \in 0 .. nh - 1 : Line(r)[2 * i + 1] \in Int
    BY <1>2, <1>5
  <2>3. t.low \in Plane(lines, nl)
    BY <1>4, <2>1 DEF Plane
  <2>4. t.high \in Plane(lines, nh)
    BY <1>4, <2>2 DEF Plane
  <2> QED BY <2>3, <2>4
<1>7. Width(t.low) + Width(t.high) = width /\ DOMAIN t.low = 0 .. lines - 1
  BY <1>5, <1>6, WidthIs
<1>8. ASSUME NEW r \in 0 .. lines - 1 PROVE Woven(r) = Line(r)
  <2>1. \A i \in 0 .. width - 1 : Even(i) => t.low[r][i \div 2] = Line(r)[i]
    BY <1>4, <1>5 DEF Even
  <2>2. \A i \in 0 .. width - 1 : ~Even(i) => t.high[r][i \div 2] = Line(r)[i]
    BY <1>4, <1>5 DEF Even
  <2>3. Line(r) = [i \in 0 .. width - 1 |-> Line(r)[i]]
    BY <1>2
  <2> QED BY <2>1, <2>2, <2>3
<1>9. HorizontalInverse(t.low, t.high) = [r \in 0 .. lines - 1 |-> InverseFilter1D(Woven(r), width)]
  BY <1>7 DEF HorizontalInverse
<1> HIDE DEF Woven
<1>10. \A r \in 0 .. lines - 1 : InverseFilter1D(Woven(r), width) = plane[r]
  BY <1>2, <1>8
<1>11. plane = [r \in 0 .. lines - 1 |-> plane[r]]
  BY DEF Plane
<1> QED BY <1>6, <1>9, <1>10, <1>11 DEF t, nl, nh, Bisected

(* The same down the columns (VerticalForward, VerticalInverse).           *)
LEMMA VerticalRoundTrip ==
    ASSUME NEW lines \in Nat, lines >= 2, NEW width \in Nat, width > 0, NEW plane \in Plane(lines, width)
    PROVE  /\ VerticalForward(plane).low \in Plane((lines + 1) \div 2, width)
           /\ VerticalForward(plane).high \in Plane(lines \div 2, width)
           /\ VerticalInverse(VerticalForward(plane).low, VerticalForward(plane).high) = plane
<1> DEFINE t == HorizontalForward(Transpose(plane))
           v == VerticalForward(plane)
<1>1. Transpose(plane) \in Plane(width, lines) /\ Transpose(Transpose(plane)) = plane
  BY TransposeTwice
<1>2. Bisected(t, width, lines) /\ HorizontalInverse(t.low, t.high) = Transpose(plane)
  BY <1>1, HorizontalRoundTrip
<1>3. v.low = Transpose(t.low) /\ v.high = Transpose(t.high)
  BY DEF VerticalForward, TransposeBoth
<1> HIDE DEF t, v
<1>4. (lines + 1) \div 2 \in Nat /\ (lines + 1) \div 2 > 0 /\ lines \div 2 \in Nat /\ lines \div 2 > 0
  OBVIOUS
<1>5. /\ v.low \in Plane((lines + 1) \div 2, width) /\ Transpose(v.low) = t.low
      /\ v.high \in Plane(lines \div 2, width) /\ Transpose(v.high) = t.high
  BY <1>2, <1>3, <1>4, TransposeTwice DEF Bisected
<1>6. VerticalInverse(v.low, v.high) = plane
  BY <1>1, <1>2, <1>5, Zenon DEF VerticalInverse
<1> QED BY <1>5, <1>6 DEF v

(* A full two-dimensional level: what the decoder puts together from the   *)
(* four bands of a level is the plane the encoder split into them, for     *)
(* every plane of at least two by two samples (transform.cc: ForwardDwt,   *)
(* InverseDwt).                                                            *)
THEOREM LevelRoundTrip ==
    ASSUME NEW lines \in Nat, lines >= 2, NEW width \in Nat, width >= 2, NEW plane \in Plane(lines, width),
           NEW v, v = VerticalForward(plane),
           NEW l, l = HorizontalForward(v.low), NEW u, u = HorizontalForward(v.high)
    PROVE  /\ Bisected(l, (lines + 1) \div 2, width) /\ Bisected(u, lines \div 2, width)
           /\ VerticalInverse(HorizontalInverse(l.low, l.high), HorizontalInverse(u.low, u.high)) = plane
<1>1. (lines + 1) \div 2 \in Nat /\ (lines + 1) \div 2 > 0 /\ lines \div 2 \in Nat /\ lines \div 2 > 0
  OBVIOUS
<1>2. v.low \in Plane((lines + 1) \div 2, width) /\ v.high \in Plane(lines \div 2, width)
  BY VerticalRoundTrip
<1>3. Bisected(l, (lines + 1) \div 2, width) /\ HorizontalInverse(l.low, l.high) = v.low
  BY <1>1, <1>2, HorizontalRoundTrip
<1>4. Bisected(u, lines \div 2, width) /\ HorizontalInverse(u.low, u.high) = v.high
  BY <1>1, <1>2, HorizontalRoundTrip
<1>5. VerticalInverse(v.low, v.high) = plane
  BY VerticalRoundTrip
<1> QED BY <1>3, <1>4, <1>5, Zenon

(* What dropping the fractional bits of a band costs: nothing without them *)
(* (fq = 0), else half the unit they are fractions of, for every number of *)
(* them the headers allow (transform.cc: StoreBand, ScaledBand).           *)
Dropped(g, v) == LET r == 2 ^ g.fq \div 2 IN IF v >= 0 THEN (v + r) \div 2 ^ g.fq ELSE -((-v + r) \div 2 ^ g.fq)

HalfUnit(g, v, read) ==
    /\ g.fq = 0 => read = v
    /\ v - read <= 2 ^ g.fq \div 2 /\ read - v <= 2 ^ g.fq \div 2

LEMMA DroppedIsClose ==
    ASSUME NEW g, g.fq \in {0, 6, 8}, NEW v \in Int
    PROVE  HalfUnit(g, v, Dropped(g, v) * 2 ^ g.fq)
<1>1. CASE g.fq = 0
  <2>1. 2 ^ g.fq = 1
    BY <1>1
  <2> QED BY <1>1, <2>1 DEF Dropped, HalfUnit
<1>2. CASE g.fq = 6
  <2>1. 2 ^ g.fq = 64
    BY <1>2
  <2> QED BY <1>2, <2>1 DEF Dropped, HalfUnit
<1>3. CASE g.fq = 8
  <2>1. 2 ^ g.fq = 256
    BY <1>3
  <2> QED BY <1>3, <2>1 DEF Dropped, HalfUnit
<1> QED BY <1>1, <1>2, <1>3

(* A band that was stored (transform.cc: StoreBand) and is scaled back by  *)
(* the decoder (ScaledBand) is the band of the wavelet without fractional  *)
(* bits, and within half a unit of it, sample by sample, with them.        *)
THEOREM StoredBands ==
    ASSUME NEW g, g.fq \in {0, 6, 8}, NEW lines \in Nat, lines > 0, NEW width \in Nat, NEW plane \in Plane(lines, width),
           NEW read, read = ScaledBand(g, StoreBand(g, plane))
    PROVE  /\ g.fq = 0 => read = plane
           /\ \A y \in 0 .. lines - 1, x \in 0 .. width - 1 : HalfUnit(g, plane[y][x], read[y][x])
<1> DEFINE q == StoreBand(g, plane)
<1>1. DOMAIN plane = 0 .. lines - 1 /\ \A y \in 0 .. lines - 1 : plane[y] \in [0 .. width - 1 -> Int]
  BY WidthIs
<1>2. q = [y \in 0 .. lines - 1 |-> [x \in 0 .. width - 1 |-> Dropped(g, plane[y][x])]]
  BY <1>1 DEF StoreBand, Dropped
<1> HIDE DEF q
<1>3. read = [y \in 0 .. lines - 1 |-> [x \in 0 .. width - 1 |-> Dropped(g, plane[y][x]) * 2 ^ g.fq]]
  BY <1>2 DEF ScaledBand, q
<1>4. \A y \in 0 .. lines - 1, x \in 0 .. width - 1 : plane[y][x] \in Int
  BY <1>1
<1>5. ASSUME NEW y \in 0 .. lines - 1, NEW x \in 0 .. width - 1
      PROVE  HalfUnit(g, plane[y][x], read[y][x])
  <2>1. read[y][x] = Dropped(g, plane[y][x]) * 2 ^ g.fq
    BY <1>3
  <2>2. HalfUnit(g, plane[y][x], Dropped(g, plane[y][x]) * 2 ^ g.fq)
    BY <1>4, DroppedIsClose
  <2> QED BY <2>1, <2>2, Zenon
<1>6. ASSUME g.fq = 0 PROVE read = plane
  <2>1. ASSUME NEW y \in 0 .. lines - 1 PROVE read[y] = plane[y]
    <3>1. \A x \in 0 .. width - 1 : read[y][x] = plane[y][x]
      BY <1>5, <1>6 DEF HalfUnit
    <3>2. read[y] = [x \in 0 .. width - 1 |-> read[y][x]] /\ plane[y] = [x \in 0 .. width - 1 |-> plane[y][x]]
      BY <1>1, <1>3
    <3> QED BY <3>1, <3>2
  <2>2. read = [y \in 0 .. lines - 1 |-> read[y]] /\ plane = [y \in 0 .. lines - 1 |-> plane[y]]
    BY <1>1, <1>3 DEF Plane
  <2> QED BY <2>1, <2>2
<1> QED BY <1>5, <1>6

LEMMA Unscaled ==
    ASSUME NEW n \in 0 .. 12, NEW a \in Int, NEW v \in Int
    PROVE  ((v * 2 ^ n - a) + a + 2 ^ n \div 2) \div 2 ^ n = v
<1> DEFINE Back(pow) == ((v * pow - a) + a + pow \div 2) \div pow = v
<1>1. Back(1) /\ Back(2) /\ Back(4) /\ Back(8) /\ Back(16) /\ Back(32) /\ Back(64)
  OBVIOUS
<1>2. Back(128) /\ Back(256) /\ Back(512) /\ Back(1024) /\ Back(2048) /\ Back(4096)
  OBVIOUS
<1>3. n \in {0, 1, 2, 3, 4, 5, 6, 7, 8, 9, 10, 11, 12}
  OBVIOUS
<1> HIDE DEF Back
<1>4. Back(2 ^ n)
  <2>0. n = 0 => 2 ^ n = 1
    OBVIOUS
  <2>1. n = 1 => 2 ^ n = 2
    OBVIOUS
  <2>2. n = 2 => 2 ^ n = 4
    OBVIOUS
  <2>3. n = 3 => 2 ^ n = 8
    OBVIOUS
  <2>4. n = 4 => 2 ^ n = 16
    OBVIOUS
  <2>5. n = 5 => 2 ^ n = 32
    OBVIOUS
  <2>6. n = 6 => 2 ^ n = 64
    OBVIOUS
  <2>7. n = 7 => 2 ^ n = 128
    OBVIOUS
  <2>8. n = 8 => 2 ^ n = 256
    OBVIOUS
  <2>9. n = 9 => 2 ^ n = 512
    OBVIOUS
  <2>10. n = 10 => 2 ^ n = 1024
    OBVIOUS
  <2>11. n = 11 => 2 ^ n = 2048
    OBVIOUS
  <2>12. n = 12 => 2 ^ n = 4096
    OBVIOUS
  <2> QED BY <1>1, <1>2, <1>3, <2>0, <2>1, <2>2, <2>3, <2>4, <2>5, <2>6, <2>7, <2>8, <2>9, <2>10, <2>11, <2>12
<1> QED BY <1>4 DEF Back

(* Samples come back from the coefficients they were scaled to, for every  *)
(* number of added bits up to 12, none of them or the 20 bits of a lossy   *)
(* codestream for samples of 8 bits (transform.cc: ScaleFromInput,         *)
(* ScaleToOutput).                                                         *)
THEOREM ScaleRoundTrip ==
    ASSUME NEW g, NEW i, g.depth[i] \in Nat, g.bw \in Nat, g.bw > 0, g.bw - g.depth[i] \in 0 .. 12,
           NEW lines \in Nat, lines > 0, NEW width \in Nat,
           NEW plane \in [0 .. lines - 1 -> [0 .. width - 1 -> 0 .. 2 ^ g.depth[i] - 1]]
    PROVE  ScaleToOutput(g, ScaleFromInput(g, plane, i), i) = plane
<1> DEFINE n == g.bw - g.depth[i]
           a == 2 ^ (g.bw - 1)
           top == 2 ^ g.depth[i] - 1
           q == ScaleFromInput(g, plane, i)
           r == ScaleToOutput(g, q, i)
           Back(y, x) == Clamp((q[y][x] + a + 2 ^ n \div 2) \div 2 ^ n, 0, top)
<1>1. /\ DOMAIN plane = 0 .. lines - 1
      /\ \A y \in 0 .. lines - 1 : plane[y] \in [0 .. width - 1 -> 0 .. top]
  OBVIOUS
<1>2. q = [y \in 0 .. lines - 1 |-> [x \in 0 .. width - 1 |-> plane[y][x] * 2 ^ n - a]]
  BY <1>1 DEF ScaleFromInput
<1>3. a \in Int /\ top \in Int /\ n \in 0 .. 12
  OBVIOUS
<1> HIDE DEF n, a, top, q
<1>4. r = [y \in 0 .. lines - 1 |-> [x \in 0 .. width - 1 |-> Back(y, x)]]
  BY <1>2 DEF ScaleToOutput, n, a, top
<1>5. ASSUME NEW y \in 0 .. lines - 1, NEW x \in 0 .. width - 1 PROVE Back(y, x) = plane[y][x]
  <2>1. plane[y][x] \in 0 .. top /\ plane[y][x] \in Int
    BY <1>1, <1>3
  <2>2. q[y][x] = plane[y][x] * 2 ^ n - a
    BY <1>2
  <2>3. (q[y][x] + a + 2 ^ n \div 2) \div 2 ^ n = plane[y][x]
    <3>1. ((plane[y][x] * 2 ^ n - a) + a + 2 ^ n \div 2) \div 2 ^ n = plane[y][x]
      BY <1>3, <2>1, Unscaled
    <3> QED BY <2>2, <3>1, Zenon
  <2>4. Clamp(plane[y][x], 0, top) = plane[y][x]
    BY <1>3, <2>1 DEF Clamp, Larger, Smaller
  <2> QED BY <2>3, <2>4
<1> HIDE DEF r, Back
<1>6. ASSUME NEW y \in 0 .. lines - 1 PROVE r[y] = plane[y]
  <2>1. r[y] = [x \in 0 .. width - 1 |-> Back(y, x)] /\ plane[y] = [x \in 0 .. width - 1 |-> plane[y][x]]
    BY <1>1, <1>4
  <2> QED BY <1>5, <2>1
<1>7. r = [y \in 0 .. lines - 1 |-> r[y]] /\ plane = [y \in 0 .. lines - 1 |-> plane[y]]
  BY <1>1, <1>4
<1> QED BY <1>6, <1>7 DEF r, q

-----------------------------------------------------------------------------
(* Star-Tetrix.  The neighbour of a pixel is a pixel of the picture, and   *)
(* its component lies at the place in the super pixel that the tap leads   *)
(* to, mirrored or not (transform.cc: Access).                             *)
LEMMA ComponentAt ==
    ASSUME NEW g, g.ct \in 0 .. 1, NEW a \in 0 .. 1, NEW b \in 0 .. 1
    PROVE  LET c == CHOOSE k \in 0 .. 3 : SubX(g, k) = a /\ SubY(k) = b
           IN  c \in 0 .. 3 /\ SubX(g, c) = a /\ SubY(c) = b
<1> DEFINE k == IF g.ct = 0 THEN (IF b = 1 THEN a ELSE 2 + a) ELSE (IF b = 1 THEN 1 - a ELSE 3 - a)
<1>1. k \in 0 .. 3 /\ SubX(g, k) = a /\ SubY(k) = b
  <2>1. CASE g.ct = 0
    BY <2>1 DEF SubX, SubY
  <2>2. CASE g.ct = 1
    BY <2>2 DEF SubX, SubY
  <2> QED BY <2>1, <2>2
<1> QED BY <1>1

Steps(tap) == tap[1] \in -1 .. 1 /\ tap[2] \in -1 .. 1

LEMMA AccessFacts ==
    ASSUME NEW g, g.ct \in 0 .. 1, g.wf \in Nat, g.hf \in Nat,
           NEW c \in 0 .. 3, NEW x \in 0 .. g.wf - 1, NEW y \in 0 .. g.hf - 1,
           NEW tap, Steps(tap)
    PROVE  LET at == Access(g, c, x, y, tap)
           IN  /\ at.x \in 0 .. g.wf - 1 /\ at.y \in 0 .. g.hf - 1 /\ at.c \in 0 .. 3
               /\ SubX(g, at.c) = IF tap[1] = 0 THEN SubX(g, c) ELSE 1 - SubX(g, c)
               /\ SubY(at.c) = IF tap[2] = 0 THEN SubY(c) ELSE 1 - SubY(c)
<1> DEFINE px == 2 * x + tap[1] + SubX(g, c)
           py == 2 * y + tap[2] + SubY(c)
           rx == IF px \in 0 .. 2 * g.wf - 1 THEN tap[1] ELSE -tap[1]
           ry == IF /\ py \in 0 .. 2 * g.hf - 1
                    /\ g.cf = 3 => tap[2] + SubY(c) \in 0 .. 1
                 THEN tap[2] ELSE -tap[2]
           qx == 2 * x + rx + SubX(g, c)
           qy == 2 * y + ry + SubY(c)
<1>1. SubX(g, c) \in 0 .. 1 /\ SubY(c) \in 0 .. 1
  BY DEF SubX, SubY
<1>2. tap[1] \in {-1, 0, 1} /\ tap[2] \in {-1, 0, 1}
  BY DEF Steps
<1>3. qx \in 0 .. 2 * g.wf - 1 /\ qx \div 2 \in 0 .. g.wf - 1
  <2>1. CASE px \in 0 .. 2 * g.wf - 1
    <3>1. qx = px
      BY <2>1
    <3> HIDE DEF px, rx, qx
    <3> QED BY <2>1, <3>1
  <2>2. CASE px < 0
    <3>1. x = 0 /\ tap[1] = -1 /\ SubX(g, c) = 0
      BY <2>2, <1>1, <1>2
    <3> QED BY <2>2, <3>1
  <2>3. CASE px >= 2 * g.wf
    <3>1. x = g.wf - 1 /\ tap[1] = 1 /\ SubX(g, c) = 1
      BY <2>3, <1>1, <1>2
    <3>2. rx = -1 /\ qx = 2 * (g.wf - 1)
      BY <2>3, <3>1
    <3> HIDE DEF px, rx, qx
    <3> QED BY <3>2
  <2> QED BY <2>1, <2>2, <2>3, <1>1, <1>2
<1>4. qy \in 0 .. 2 * g.hf - 1 /\ qy \div 2 \in 0 .. g.hf - 1
  <2>1. CASE ry = tap[2] /\ py \in 0 .. 2 * g.hf - 1
    <3>1. qy = py
      BY <2>1
    <3> HIDE DEF py, ry, qy
    <3> QED BY <2>1, <3>1
  <2>2. CASE ry = -tap[2] /\ tap[2] + SubY(c) \notin 0 .. 1
    <3>1. ry + SubY(c) \in 0 .. 1
      BY <2>2, <1>1, <1>2
    <3> HIDE DEF py, ry
    <3>2. ry \in Int /\ qy = 2 * y + (ry + SubY(c))
      BY <2>2, <1>1, <1>2
    <3> QED BY <3>1, <3>2
  <2>3. tap[2] + SubY(c) \in 0 .. 1 => py \in 0 .. 2 * g.hf - 1
    BY <1>1, <1>2
  <2>4. \/ ry = tap[2] /\ py \in 0 .. 2 * g.hf - 1
        \/ ry = -tap[2] /\ tap[2] + SubY(c) \notin 0 .. 1
    BY <2>3
  <2> QED BY <2>1, <2>2, <2>4
<1>5. qx % 2 = (IF tap[1] = 0 THEN SubX(g, c) ELSE 1 - SubX(g, c))
  <2>1. rx \in {tap[1], -tap[1]}
    OBVIOUS
  <2> HIDE DEF px, rx
  <2> QED BY <1>1, <1>2, <2>1
<1>6. qy % 2 = (IF tap[2] = 0 THEN SubY(c) ELSE 1 - SubY(c))
  <2>1. ry \in {tap[2], -tap[2]}
    OBVIOUS
  <2> HIDE DEF py, ry
  <2> QED BY <1>1, <1>2, <2>1
<1>7. Access(g, c, x, y, tap) = [c |-> CHOOSE k \in 0 .. 3 : SubX(g, k) = qx % 2 /\ SubY(k) = qy % 2,
                                 x |-> qx \div 2, y |-> qy \div 2]
  BY DEF Access
<1> HIDE DEF px, py, rx, ry, qx, qy
<1>8. qx % 2 \in 0 .. 1 /\ qy % 2 \in 0 .. 1
  BY <1>1, <1>5, <1>6
<1>9. LET d == CHOOSE k \in 0 .. 3 : SubX(g, k) = qx % 2 /\ SubY(k) = qy % 2
      IN  d \in 0 .. 3 /\ SubX(g, d) = qx % 2 /\ SubY(d) = qy % 2
  BY <1>8, ComponentAt
<1> QED BY <1>3, <1>4, <1>5, <1>6, <1>7, <1>9

(* The taps of a component that read none but the components in `from`.    *)
Reads(g, c, taps, from) ==
    /\ \A i \in 1 .. 4 : taps[i][3] \in Nat
    /\ \A i \in 1 .. 4, x \in 0 .. g.wf - 1, y \in 0 .. g.hf - 1 :
          LET at == Access(g, c, x, y, taps[i])
          IN  at.c \in from /\ at.x \in 0 .. g.wf - 1 /\ at.y \in 0 .. g.hf - 1

LEMMA DiagonalReads ==
    ASSUME NEW g, g.ct \in 0 .. 1, g.wf \in Nat, g.hf \in Nat, NEW c \in 0 .. 3
    PROVE  Reads(g, c, Diagonal, {3 - c})
<1>1. \A i \in 1 .. 4 : /\ Steps(Diagonal[i]) /\ Diagonal[i][3] \in Nat
                        /\ Diagonal[i][1] # 0 /\ Diagonal[i][2] # 0
  BY DEF Diagonal, Steps
<1>2. \A k \in 0 .. 3 : SubX(g, k) = 1 - SubX(g, c) /\ SubY(k) = 1 - SubY(c) => k = 3 - c
  <2>1. c \in {0, 1, 2, 3} /\ g.ct \in {0, 1}
    OBVIOUS
  <2> QED BY <2>1 DEF SubX, SubY
<1>3. ASSUME NEW i \in 1 .. 4, NEW x \in 0 .. g.wf - 1, NEW y \in 0 .. g.hf - 1
      PROVE  LET at == Access(g, c, x, y, Diagonal[i])
             IN  at.c \in {3 - c} /\ at.x \in 0 .. g.wf - 1 /\ at.y \in 0 .. g.hf - 1
  <2> DEFINE tap == Diagonal[i]
             at == Access(g, c, x, y, tap)
  <2>1. /\ at.x \in 0 .. g.wf - 1 /\ at.y \in 0 .. g.hf - 1 /\ at.c \in 0 .. 3
        /\ SubX(g, at.c) = IF tap[1] = 0 THEN SubX(g, c) ELSE 1 - SubX(g, c)
        /\ SubY(at.c) = IF tap[2] = 0 THEN SubY(c) ELSE 1 - SubY(c)
    BY <1>1, AccessFacts
  <2> HIDE DEF at
  <2>2. at.c \in {3 - c}
    BY <1>1, <1>2, <2>1
  <2> QED BY <2>1, <2>2 DEF at
<1> QED BY <1>1, <1>3 DEF Reads

LEMMA CrossReads ==
    ASSUME NEW g, g.ct \in 0 .. 1, g.wf \in Nat, g.hf \in Nat,
           NEW e \in Nat, NEW f \in Nat, NEW c \in 0 .. 3
    PROVE  Reads(g, c, Cross(e, f), IF c \in {0, 3} THEN {1, 2} ELSE {0, 3})
<1> DEFINE from == IF c \in {0, 3} THEN {1, 2} ELSE {0, 3}
<1>1. \A i \in 1 .. 4 : /\ Steps(Cross(e, f)[i]) /\ Cross(e, f)[i][3] \in Nat
                        /\ \/ Cross(e, f)[i][1] # 0 /\ Cross(e, f)[i][2] = 0
                           \/ Cross(e, f)[i][1] = 0 /\ Cross(e, f)[i][2] # 0
  BY DEF Cross, Steps
<1>2. \A k \in 0 .. 3 : (\/ SubX(g, k) = 1 - SubX(g, c) /\ SubY(k) = SubY(c)
                         \/ SubX(g, k) = SubX(g, c) /\ SubY(k) = 1 - SubY(c)) => k \in from
  <2>1. c \in {0, 1, 2, 3} /\ g.ct \in {0, 1}
    OBVIOUS
  <2> QED BY <2>1 DEF SubX, SubY
<1>3. ASSUME NEW i \in 1 .. 4, NEW x \in 0 .. g.wf - 1, NEW y \in 0 .. g.hf - 1
      PROVE  LET at == Access(g, c, x, y, Cross(e, f)[i])
             IN  at.c \in from /\ at.x \in 0 .. g.wf - 1 /\ at.y \in 0 .. g.hf - 1
  <2> DEFINE tap == Cross(e, f)[i]
             at == Access(g, c, x, y, tap)
  <2>1. /\ at.x \in 0 .. g.wf - 1 /\ at.y \in 0 .. g.hf - 1 /\ at.c \in 0 .. 3
        /\ SubX(g, at.c) = IF tap[1] = 0 THEN SubX(g, c) ELSE 1 - SubX(g, c)
        /\ SubY(at.c) = IF tap[2] = 0 THEN SubY(c) ELSE 1 - SubY(c)
    BY <1>1, AccessFacts
  <2> HIDE DEF at
  <2>2. at.c \in from
    BY <1>1, <1>2, <2>1
  <2> QED BY <2>1, <2>2 DEF at
<1> QED BY <1>1, <1>3 DEF Reads

-----------------------------------------------------------------------------
(* The increment of a lifting step before its sign.                        *)
Increment(g, planes, c, taps, n) ==
    LET Term(x, y, tap) == Neighbour(planes, Access(g, c, x, y, tap), tap[3])
        Sum(x, y) == Term(x, y, taps[1]) + Term(x, y, taps[2]) + Term(x, y, taps[3]) + Term(x, y, taps[4])
    IN  [y \in 0 .. g.hf - 1 |-> [x \in 0 .. g.wf - 1 |-> Sum(x, y) \div 2 ^ n]]

(* A function of the components whose planes `used` are full-size.         *)
Picture(g, planes, used) ==
    /\ planes = [c \in DOMAIN planes |-> planes[c]] /\ DOMAIN planes \subseteq Nat /\ used \subseteq DOMAIN planes
    /\ \A c \in used : planes[c] \in [0 .. g.hf - 1 -> [0 .. g.wf - 1 -> Int]]

SameOn(from, a, b) == \A k \in from : a[k] = b[k]

SameIncrement(g, a, b, c, taps, n) == Increment(g, a, c, taps, n) = Increment(g, b, c, taps, n)

LEMMA IncrementFacts ==
    ASSUME NEW g, NEW planes, NEW c, NEW taps, NEW from, NEW n \in {2, 3},
           Picture(g, planes, from), Reads(g, c, taps, from)
    PROVE  /\ Increment(g, planes, c, taps, n) \in [0 .. g.hf - 1 -> [0 .. g.wf - 1 -> Int]]
           /\ \A other : SameOn(from, other, planes) => SameIncrement(g, other, planes, c, taps, n)
<1> DEFINE Term(pl, x, y, tap) == Neighbour(pl, Access(g, c, x, y, tap), tap[3])
<1>1. ASSUME NEW i \in 1 .. 4, NEW x \in 0 .. g.wf - 1, NEW y \in 0 .. g.hf - 1
      PROVE  /\ Term(planes, x, y, taps[i]) \in Int
             /\ \A other : (\A k \in from : other[k] = planes[k])
                     => Term(other, x, y, taps[i]) = Term(planes, x, y, taps[i])
  <2> DEFINE at == Access(g, c, x, y, taps[i])
  <2>1. at.c \in from /\ at.x \in 0 .. g.wf - 1 /\ at.y \in 0 .. g.hf - 1 /\ taps[i][3] \in Nat
    BY DEF Reads
  <2>3. 2 ^ taps[i][3] \in Int
    BY <2>1
  <2> HIDE DEF at
  <2>2. planes[at.c][at.y][at.x] \in Int
    <3>1. planes[at.c] \in [0 .. g.hf - 1 -> [0 .. g.wf - 1 -> Int]]
      BY <2>1 DEF Picture
    <3>2. planes[at.c][at.y] \in [0 .. g.wf - 1 -> Int]
      BY <2>1, <3>1
    <3> QED BY <2>1, <3>2
  <2>4. Neighbour(planes, at, taps[i][3]) \in Int
    BY <2>2, <2>3 DEF Neighbour
  <2>5. \A other : (\A k \in from : other[k] = planes[k])
                     => Neighbour(other, at, taps[i][3]) = Neighbour(planes, at, taps[i][3])
    BY <2>1 DEF Neighbour
  <2> QED BY <2>4, <2>5 DEF at
<1> DEFINE Sum(pl, x, y) == Term(pl, x, y, taps[1]) + Term(pl, x, y, taps[2]) + Term(pl, x, y, taps[3]) + Term(pl, x, y, taps[4])
<1>2. \A pl : Increment(g, pl, c, taps, n) = [y \in 0 .. g.hf - 1 |-> [x \in 0 .. g.wf - 1 |-> Sum(pl, x, y) \div 2 ^ n]]
  BY DEF Increment
<1> HIDE DEF Term, Sum
<1>3. ASSUME NEW x \in 0 .. g.wf - 1, NEW y \in 0 .. g.hf - 1
      PROVE  /\ Sum(planes, x, y) \in Int
             /\ \A other : (\A k \in from : other[k] = planes[k]) => Sum(other, x, y) = Sum(planes, x, y)
  <2>1. /\ Term(planes, x, y, taps[1]) \in Int /\ Term(planes, x, y, taps[2]) \in Int
        /\ Term(planes, x, y, taps[3]) \in Int /\ Term(planes, x, y, taps[4]) \in Int
    BY <1>1
  <2>2. ASSUME NEW other, \A k \in from : other[k] = planes[k]
        PROVE  /\ Term(other, x, y, taps[1]) = Term(planes, x, y, taps[1])
               /\ Term(other, x, y, taps[2]) = Term(planes, x, y, taps[2])
               /\ Term(other, x, y, taps[3]) = Term(planes, x, y, taps[3])
               /\ Term(other, x, y, taps[4]) = Term(planes, x, y, taps[4])
    BY <1>1, <2>2
  <2>3. Sum(planes, x, y) \in Int
    BY <2>1 DEF Sum
  <2>4. \A other : (\A k \in from : other[k] = planes[k]) => Sum(other, x, y) = Sum(planes, x, y)
    BY <2>2 DEF Sum
  <2> QED BY <2>3, <2>4
<1>4. \A a \in Int : a \div 2 ^ n \in Int
  <2>1. n = 2 \/ n = 3
    OBVIOUS
  <2>2. 2 ^ 2 = 4 /\ 2 ^ 3 = 8
    OBVIOUS
  <2>3. \A a \in Int : a \div 4 \in Int /\ a \div 8 \in Int
    OBVIOUS
  <2>4. 2 ^ n = 4 \/ 2 ^ n = 8
    BY <2>1, <2>2
  <2> QED BY <2>3, <2>4
<1>5. \A x \in 0 .. g.wf - 1, y \in 0 .. g.hf - 1 : Sum(planes, x, y) \div 2 ^ n \in Int
  BY <1>3, <1>4
<1>6. ASSUME NEW other, \A k \in from : other[k] = planes[k]
      PROVE  Increment(g, other, c, taps, n) = Increment(g, planes, c, taps, n)
  <2>1. \A x \in 0 .. g.wf - 1, y \in 0 .. g.hf - 1 : Sum(other, x, y) = Sum(planes, x, y)
    BY <1>3, <1>6
  <2> DEFINE Floor(pl) == [y \in 0 .. g.hf - 1 |-> [x \in 0 .. g.wf - 1 |-> Sum(pl, x, y) \div 2 ^ n]]
  <2>2. \A y \in 0 .. g.hf - 1 : [x \in 0 .. g.wf - 1 |-> Sum(other, x, y) \div 2 ^ n]
                                = [x \in 0 .. g.wf - 1 |-> Sum(planes, x, y) \div 2 ^ n]
    BY <2>1
  <2>3. Floor(other) = Floor(planes)
    BY <2>2, Zenon
  <2> QED BY <2>3, <1>2
<1> QED BY <1>2, <1>5, <1>6 DEF SameOn, SameIncrement

LEMMA IncrementStays ==
    ASSUME NEW g, NEW planes, NEW c, NEW taps, NEW from, NEW n \in {2, 3},
           Picture(g, planes, from), Reads(g, c, taps, from),
           NEW other, SameOn(from, other, planes)
    PROVE  SameIncrement(g, other, planes, c, taps, n)
BY IncrementFacts, Zenon

(* What a lifting step makes of its component.                             *)
Lifted(g, planes, c, taps, n, sign) ==
    [y \in 0 .. g.hf - 1 |-> [x \in 0 .. g.wf - 1 |->
        planes[c][y][x] + sign * Increment(g, planes, c, taps, n)[y][x]]]

LEMMA LiftStepIs ==
    ASSUME NEW g, NEW planes, NEW c, NEW taps, NEW n, NEW sign, NEW used,
           Picture(g, planes, used), c \in used
    PROVE  LiftStep(g, planes, c, taps, n, sign) =
           [planes EXCEPT ![c] = Lifted(g, planes, c, taps, n, sign)]
<1> DEFINE Term(x, y, tap) == Neighbour(planes, Access(g, c, x, y, tap), tap[3])
           Sum(x, y) == Term(x, y, taps[1]) + Term(x, y, taps[2]) + Term(x, y, taps[3]) + Term(x, y, taps[4])
<1>1. LiftStep(g, planes, c, taps, n, sign) =
        [planes EXCEPT ![c] = [y \in DOMAIN planes[c] |-> [x \in DOMAIN planes[c][y] |->
            planes[c][y][x] + sign * (Sum(x, y) \div 2 ^ n)]]]
  BY DEF LiftStep
<1>2. Increment(g, planes, c, taps, n) = [y \in 0 .. g.hf - 1 |-> [x \in 0 .. g.wf - 1 |-> Sum(x, y) \div 2 ^ n]]
  BY DEF Increment
<1> HIDE DEF Sum
<1>3. DOMAIN planes[c] = 0 .. g.hf - 1 /\ \A y \in 0 .. g.hf - 1 : DOMAIN planes[c][y] = 0 .. g.wf - 1
  BY DEF Picture
<1> DEFINE Row(y) == [x \in 0 .. g.wf - 1 |-> planes[c][y][x] + sign * (Sum(x, y) \div 2 ^ n)]
           Wanted(y) == [x \in 0 .. g.wf - 1 |-> planes[c][y][x] + sign * Increment(g, planes, c, taps, n)[y][x]]
<1>4. [y \in DOMAIN planes[c] |-> [x \in DOMAIN planes[c][y] |-> planes[c][y][x] + sign * (Sum(x, y) \div 2 ^ n)]]
      = [y \in 0 .. g.hf - 1 |-> Row(y)]
  BY <1>3
<1>5. \A y \in 0 .. g.hf - 1 : Row(y) = Wanted(y)
  BY <1>2
<1> HIDE DEF Row, Wanted
<1>6. [y \in 0 .. g.hf - 1 |-> Row(y)] = [y \in 0 .. g.hf - 1 |-> Wanted(y)]
  BY <1>5
<1> QED BY <1>1, <1>4, <1>6 DEF Wanted, Lifted

LEMMA Samples ==
    ASSUME NEW g, NEW a \in [0 .. g.hf - 1 -> [0 .. g.wf - 1 -> Int]],
           NEW y \in 0 .. g.hf - 1, NEW x \in 0 .. g.wf - 1
    PROVE  a[y][x] \in Int
<1>1. a[y] \in [0 .. g.wf - 1 -> Int]
  OBVIOUS
<1> QED BY <1>1

IsPlane(g, plane) == plane \in [0 .. g.hf - 1 -> [0 .. g.wf - 1 -> Int]]
SameSamples(g, a, b) == \A y \in 0 .. g.hf - 1, x \in 0 .. g.wf - 1 : a[y][x] = b[y][x]
LEMMA SamePlane ==
    ASSUME NEW g, NEW a, NEW b, IsPlane(g, a), IsPlane(g, b), SameSamples(g, a, b)
    PROVE  a = b
<1> USE DEF IsPlane, SameSamples
<1>1. ASSUME NEW y \in 0 .. g.hf - 1 PROVE a[y] = b[y]
  <2>1. a[y] \in [0 .. g.wf - 1 -> Int] /\ b[y] \in [0 .. g.wf - 1 -> Int]
    OBVIOUS
  <2>2. \A x \in 0 .. g.wf - 1 : a[y][x] = b[y][x]
    OBVIOUS
  <2>3. a[y] = [x \in 0 .. g.wf - 1 |-> a[y][x]] /\ b[y] = [x \in 0 .. g.wf - 1 |-> b[y][x]]
    BY <2>1
  <2> QED BY <2>2, <2>3
<1>2. a = [y \in 0 .. g.hf - 1 |-> a[y]] /\ b = [y \in 0 .. g.hf - 1 |-> b[y]]
  OBVIOUS
<1> QED BY <1>1, <1>2

Lifts(g, planes, new, c, by, sign, used) ==
    /\ Picture(g, new, used) /\ DOMAIN new = DOMAIN planes
    /\ \A k \in DOMAIN planes \ {c} : new[k] = planes[k]
    /\ \A y \in 0 .. g.hf - 1, x \in 0 .. g.wf - 1 :
          by[y][x] \in Int /\ new[c][y][x] = planes[c][y][x] + sign * by[y][x]

(* A lifting step changes its own component alone, by increments that it   *)
(* leaves as they are.                                                     *)
LEMMA LiftFacts ==
    ASSUME NEW g, NEW planes, NEW c, NEW taps, NEW from, NEW used, NEW n \in {2, 3}, NEW sign \in {-1, 1},
           Picture(g, planes, used), c \in used, from \subseteq used, c \notin from, Reads(g, c, taps, from)
    PROVE  /\ Lifts(g, planes, LiftStep(g, planes, c, taps, n, sign), c, Increment(g, planes, c, taps, n), sign, used)
           /\ SameIncrement(g, LiftStep(g, planes, c, taps, n, sign), planes, c, taps, n)
<1> DEFINE new == LiftStep(g, planes, c, taps, n, sign)
           by == Increment(g, planes, c, taps, n)
<1> DEFINE lifted == Lifted(g, planes, c, taps, n, sign)
<1>1. Picture(g, planes, from) /\ Picture(g, planes, {c})
  BY DEF Picture
<1>2. new = [planes EXCEPT ![c] = lifted]
  BY <1>1, LiftStepIs
<1>3. by \in [0 .. g.hf - 1 -> [0 .. g.wf - 1 -> Int]]
  BY <1>1, IncrementFacts
<1> HIDE DEF new
<1>4. planes[c] \in [0 .. g.hf - 1 -> [0 .. g.wf - 1 -> Int]]
  BY <1>1 DEF Picture
<1>5. ASSUME NEW y \in 0 .. g.hf - 1, NEW x \in 0 .. g.wf - 1
      PROVE  by[y][x] \in Int /\ planes[c][y][x] + sign * by[y][x] \in Int
  <2>1. sign = 1 \/ sign = -1
    OBVIOUS
  <2>2. by[y][x] \in Int /\ planes[c][y][x] \in Int
    BY <1>3, <1>4, Samples
  <2> QED BY <2>1, <2>2
<1>6. lifted = [y \in 0 .. g.hf - 1 |-> [x \in 0 .. g.wf - 1 |-> planes[c][y][x] + sign * by[y][x]]]
  BY DEF Lifted
<1>7. /\ lifted \in [0 .. g.hf - 1 -> [0 .. g.wf - 1 -> Int]]
      /\ \A y \in 0 .. g.hf - 1, x \in 0 .. g.wf - 1 : lifted[y][x] = planes[c][y][x] + sign * by[y][x]
  BY <1>5, <1>6
<1> HIDE DEF lifted
<1>8. /\ DOMAIN new = DOMAIN planes /\ new[c] = lifted
      /\ \A k \in DOMAIN planes \ {c} : new[k] = planes[k]
  BY <1>1, <1>2 DEF Picture
<1>9. Picture(g, new, used)
  BY <1>1, <1>2, <1>7, <1>8 DEF Picture
<1>10. SameOn(from, new, planes)
  BY <1>8 DEF Picture, SameOn
<1>11. SameIncrement(g, new, planes, c, taps, n)
  BY <1>1, <1>10, IncrementStays
<1> HIDE DEF by
<1>12. Lifts(g, planes, new, c, by, sign, used)
  BY <1>5, <1>7, <1>8, <1>9 DEF Lifts
<1> QED BY <1>11, <1>12 DEF new, by

TakenBack(g, planes, used, new, back) == Picture(g, new, used) /\ back = planes

(* The step with the opposite sign takes it back.                          *)
LEMMA LiftBack ==
    ASSUME NEW g, NEW planes, NEW c, NEW taps, NEW from, NEW used, NEW n \in {2, 3}, NEW sign \in {-1, 1},
           Picture(g, planes, used), c \in used, from \subseteq used, c \notin from, Reads(g, c, taps, from)
    PROVE  TakenBack(g, planes, used, LiftStep(g, planes, c, taps, n, sign),
                     LiftStep(g, LiftStep(g, planes, c, taps, n, sign), c, taps, n, -sign))
<1> DEFINE new == LiftStep(g, planes, c, taps, n, sign)
           old == LiftStep(g, new, c, taps, n, -sign)
           by == Increment(g, planes, c, taps, n)
<1>1. Lifts(g, planes, new, c, by, sign, used) /\ SameIncrement(g, new, planes, c, taps, n)
  <2>1. Lifts(g, planes, new, c, by, sign, used)
    BY LiftFacts
  <2>2. SameIncrement(g, new, planes, c, taps, n)
    BY LiftFacts
  <2> QED BY <2>1, <2>2
<1> HIDE DEF new
<1>2. -sign \in {-1, 1} /\ Picture(g, new, used)
  BY <1>1 DEF Lifts
<1>3. Lifts(g, new, old, c, by, -sign, used)
  <2>1. Lifts(g, new, old, c, Increment(g, new, c, taps, n), -sign, used)
    BY <1>2, LiftFacts
  <2> HIDE DEF old
  <2> QED BY <1>1, <2>1 DEF SameIncrement
<1> HIDE DEF old, by
<1>4. /\ Picture(g, old, used) /\ DOMAIN old = DOMAIN planes
      /\ \A k \in DOMAIN planes \ {c} : old[k] = planes[k]
  BY <1>1, <1>3 DEF Lifts
<1>5. /\ old[c] \in [0 .. g.hf - 1 -> [0 .. g.wf - 1 -> Int]]
      /\ planes[c] \in [0 .. g.hf - 1 -> [0 .. g.wf - 1 -> Int]]
  BY <1>4 DEF Picture
<1>6. ASSUME NEW y \in 0 .. g.hf - 1, NEW x \in 0 .. g.wf - 1 PROVE old[c][y][x] = planes[c][y][x]
  <2>1. planes[c][y][x] \in Int /\ by[y][x] \in Int
    BY <1>1, <1>5, Samples DEF Lifts
  <2>2. new[c][y][x] = planes[c][y][x] + sign * by[y][x] /\ old[c][y][x] = new[c][y][x] + (-sign) * by[y][x]
    BY <1>1, <1>3 DEF Lifts
  <2>3. sign = 1 \/ sign = -1
    OBVIOUS
  <2> QED BY <2>1, <2>2, <2>3
<1>7. old[c] = planes[c]
  <2>1. SameSamples(g, old[c], planes[c])
    BY <1>6, Zenon DEF SameSamples
  <2>2. IsPlane(g, old[c]) /\ IsPlane(g, planes[c])
    BY <1>5, Zenon DEF IsPlane
  <2> QED BY <2>1, <2>2, SamePlane
<1>8. \A k \in DOMAIN planes : old[k] = planes[k]
  BY <1>4, <1>7
<1>9. old = planes
  BY <1>4, <1>8 DEF Picture
<1> QED BY <1>2, <1>9 DEF TakenBack, old, new

(* Two components in a row that do not read each other: the steps with the *)
(* opposite sign take them back in the same order.                         *)
Pair(g, planes, c, tapsC, d, tapsD, n, sign) ==
    LiftStep(g, LiftStep(g, planes, c, tapsC, n, sign), d, tapsD, n, sign)

LEMMA PairBack ==
    ASSUME NEW g, NEW planes, NEW c, NEW d, NEW tapsC, NEW tapsD, NEW from, NEW used,
           NEW n \in {2, 3}, NEW sign \in {-1, 1},
           Picture(g, planes, used), c \in used, d \in used, c # d,
           from \subseteq used, c \notin from, d \notin from,
           Reads(g, c, tapsC, from), Reads(g, d, tapsD, from)
    PROVE  TakenBack(g, planes, used, Pair(g, planes, c, tapsC, d, tapsD, n, sign),
                     Pair(g, Pair(g, planes, c, tapsC, d, tapsD, n, sign), c, tapsC, d, tapsD, n, -sign))
<1> DEFINE byC == Increment(g, planes, c, tapsC, n)
           byD == Increment(g, planes, d, tapsD, n)
           p1 == LiftStep(g, planes, c, tapsC, n, sign)
           p2 == LiftStep(g, p1, d, tapsD, n, sign)
           p3 == LiftStep(g, p2, c, tapsC, n, -sign)
           p4 == LiftStep(g, p3, d, tapsD, n, -sign)
<1>1. Lifts(g, planes, p1, c, byC, sign, used)
  BY LiftFacts
<1>2. -sign \in {-1, 1} /\ Picture(g, planes, from)
  BY DEF Picture
<1>3. Picture(g, p1, used) /\ SameOn(from, p1, planes)
  BY <1>1 DEF Lifts, SameOn, Picture
<1>4. SameIncrement(g, p1, planes, d, tapsD, n)
  BY <1>2, <1>3, IncrementStays
<1> HIDE DEF p1
<1>5. Lifts(g, p1, p2, d, byD, sign, used)
  <2>1. Lifts(g, p1, p2, d, Increment(g, p1, d, tapsD, n), sign, used)
    BY <1>3, LiftFacts
  <2> HIDE DEF p2
  <2> QED BY <1>4, <2>1 DEF SameIncrement
<1>6. Picture(g, p2, used) /\ SameOn(from, p2, planes)
  BY <1>3, <1>5 DEF Lifts, SameOn, Picture
<1>7. SameIncrement(g, p2, planes, c, tapsC, n)
  BY <1>2, <1>6, IncrementStays
<1> HIDE DEF p2
<1>8. Lifts(g, p2, p3, c, byC, -sign, used)
  <2>1. Lifts(g, p2, p3, c, Increment(g, p2, c, tapsC, n), -sign, used)
    BY <1>2, <1>6, LiftFacts
  <2> HIDE DEF p3
  <2> QED BY <1>7, <2>1 DEF SameIncrement
<1>9. Picture(g, p3, used) /\ SameOn(from, p3, planes)
  BY <1>6, <1>8 DEF Lifts, SameOn, Picture
<1>10. SameIncrement(g, p3, planes, d, tapsD, n)
  BY <1>2, <1>9, IncrementStays
<1> HIDE DEF p3
<1>11. Lifts(g, p3, p4, d, byD, -sign, used)
  <2>1. Lifts(g, p3, p4, d, Increment(g, p3, d, tapsD, n), -sign, used)
    BY <1>2, <1>9, LiftFacts
  <2> HIDE DEF p4
  <2> QED BY <1>10, <2>1 DEF SameIncrement
<1> HIDE DEF p4, byC, byD
<1>12. /\ Picture(g, p4, used) /\ DOMAIN p4 = DOMAIN planes
       /\ \A k \in DOMAIN planes \ {c, d} : p4[k] = planes[k]
       /\ p1[d] = planes[d] /\ p2[c] = p1[c] /\ p3[d] = p2[d] /\ p4[c] = p3[c]
  BY <1>1, <1>5, <1>8, <1>11 DEF Lifts, Picture
<1>13. /\ p4[c] \in [0 .. g.hf - 1 -> [0 .. g.wf - 1 -> Int]] /\ planes[c] \in [0 .. g.hf - 1 -> [0 .. g.wf - 1 -> Int]]
       /\ p4[d] \in [0 .. g.hf - 1 -> [0 .. g.wf - 1 -> Int]] /\ planes[d] \in [0 .. g.hf - 1 -> [0 .. g.wf - 1 -> Int]]
  BY <1>12 DEF Picture
<1>14. sign = 1 \/ sign = -1
  OBVIOUS
<1>15. ASSUME NEW y \in 0 .. g.hf - 1, NEW x \in 0 .. g.wf - 1 PROVE p4[c][y][x] = planes[c][y][x]
  <2>1. planes[c][y][x] \in Int /\ byC[y][x] \in Int
    BY <1>1, <1>13, Samples DEF Lifts
  <2>2. p1[c][y][x] = planes[c][y][x] + sign * byC[y][x] /\ p3[c][y][x] = p2[c][y][x] + (-sign) * byC[y][x]
    BY <1>1, <1>8 DEF Lifts
  <2>3. p1[c][y][x] = p2[c][y][x] /\ p4[c][y][x] = p3[c][y][x]
    BY <1>12
  <2> QED BY <2>1, <2>2, <2>3, <1>14
<1>16. ASSUME NEW y \in 0 .. g.hf - 1, NEW x \in 0 .. g.wf - 1 PROVE p4[d][y][x] = planes[d][y][x]
  <2>1. planes[d][y][x] \in Int /\ byD[y][x] \in Int
    BY <1>5, <1>13, Samples DEF Lifts
  <2>2. p2[d][y][x] = p1[d][y][x] + sign * byD[y][x] /\ p4[d][y][x] = p3[d][y][x] + (-sign) * byD[y][x]
    BY <1>5, <1>11 DEF Lifts
  <2>3. p1[d][y][x] = planes[d][y][x] /\ p3[d][y][x] = p2[d][y][x]
    BY <1>12
  <2> QED BY <2>1, <2>2, <2>3, <1>14
<1>17. p4[c] = planes[c] /\ p4[d] = planes[d]
  <2>1. p4[c] = planes[c]
    <3>1. SameSamples(g, p4[c], planes[c])
      BY <1>15, Zenon DEF SameSamples
    <3>2. IsPlane(g, p4[c]) /\ IsPlane(g, planes[c])
      BY <1>13, Zenon DEF IsPlane
    <3> QED BY <3>1, <3>2, SamePlane
  <2>2. p4[d] = planes[d]
    <3>1. SameSamples(g, p4[d], planes[d])
      BY <1>16, Zenon DEF SameSamples
    <3>2. IsPlane(g, p4[d]) /\ IsPlane(g, planes[d])
      BY <1>13, Zenon DEF IsPlane
    <3> QED BY <3>1, <3>2, SamePlane
  <2> QED BY <2>1, <2>2
<1>18. \A k \in DOMAIN planes : p4[k] = planes[k]
  BY <1>12, <1>17
<1>19. p4 = planes
  BY <1>12, <1>18 DEF Picture
<1> QED BY <1>6, <1>19 DEF p1, p2, p3, p4, Pair, TakenBack

LEMMA SwapTwice ==
    ASSUME NEW g, NEW planes, Picture(g, planes, 0 .. 3)
    PROVE  Picture(g, SwapSlots(planes), 0 .. 3) /\ SwapSlots(SwapSlots(planes)) = planes
<1> DEFINE q == SwapSlots(planes)
<1>1. \A c \in 0 .. 3 : (c + 2) % 4 \in 0 .. 3 /\ (((c + 2) % 4) + 2) % 4 = c
  OBVIOUS
<1>2. /\ DOMAIN q = DOMAIN planes /\ q = [c \in DOMAIN planes |-> q[c]]
      /\ \A c \in DOMAIN planes : q[c] = IF c \in 0 .. 3 THEN planes[(c + 2) % 4] ELSE planes[c]
  BY DEF SwapSlots
<1> HIDE DEF q
<1>3. Picture(g, q, 0 .. 3)
  BY <1>1, <1>2 DEF Picture
<1>4. ASSUME NEW c \in DOMAIN planes PROVE SwapSlots(q)[c] = planes[c]
  <2>1. SwapSlots(q)[c] = IF c \in 0 .. 3 THEN q[(c + 2) % 4] ELSE q[c]
    BY <1>2 DEF SwapSlots
  <2>2. CASE c \in 0 .. 3
    <3>1. (c + 2) % 4 \in DOMAIN planes
      BY <1>1, <2>2 DEF Picture
    <3>2. q[(c + 2) % 4] = planes[(((c + 2) % 4) + 2) % 4]
      BY <1>1, <1>2, <2>2, <3>1
    <3> QED BY <1>1, <2>1, <2>2, <3>2
  <2>3. CASE c \notin 0 .. 3
    BY <1>2, <2>1, <2>3
  <2> QED BY <2>2, <2>3
<1>5. SwapSlots(q) = [c \in DOMAIN planes |-> SwapSlots(q)[c]] /\ planes = [c \in DOMAIN planes |-> planes[c]]
  BY <1>2 DEF SwapSlots, Picture
<1> QED BY <1>3, <1>4, <1>5 DEF q

(* Each of the four steps of Star-Tetrix is taken back by the same step    *)
(* with the opposite sign.                                                 *)
LEMMA StarTetrixSteps ==
    ASSUME NEW g, g.ct \in 0 .. 1, g.wf \in Nat, g.hf \in Nat, g.e1 \in Nat, g.e2 \in Nat,
           NEW planes, Picture(g, planes, 0 .. 3), NEW sign \in {-1, 1}, NEW back \in {-1, 1}, back # sign
    PROVE  /\ TakenBack(g, planes, 0 .. 3, AvgStep(g, planes, sign), AvgStep(g, AvgStep(g, planes, sign), back))
           /\ TakenBack(g, planes, 0 .. 3, DeltaStep(g, planes, sign), DeltaStep(g, DeltaStep(g, planes, sign), back))
           /\ TakenBack(g, planes, 0 .. 3, YStep(g, planes, sign), YStep(g, YStep(g, planes, sign), back))
           /\ TakenBack(g, planes, 0 .. 3, CbCrStep(g, planes, sign), CbCrStep(g, CbCrStep(g, planes, sign), back))
<1>0. back = -sign
  OBVIOUS
<1>1. /\ Reads(g, 0, Diagonal, {3}) /\ Reads(g, 3, Diagonal, {0})
  <2>1. Reads(g, 0, Diagonal, {3 - 0}) /\ Reads(g, 3, Diagonal, {3 - 3})
    BY DiagonalReads
  <2> QED BY <2>1
<1>2. \A e, f \in Nat : /\ Reads(g, 0, Cross(e, f), {1, 2}) /\ Reads(g, 3, Cross(e, f), {1, 2})
                        /\ Reads(g, 1, Cross(e, f), {0, 3}) /\ Reads(g, 2, Cross(e, f), {0, 3})
  <2>1. ASSUME NEW e \in Nat, NEW f \in Nat, NEW c \in 0 .. 3
        PROVE  Reads(g, c, Cross(e, f), IF c \in {0, 3} THEN {1, 2} ELSE {0, 3})
    BY CrossReads
  <2>2. (0 \in {0, 3}) /\ (3 \in {0, 3}) /\ (1 \notin {0, 3}) /\ (2 \notin {0, 3})
    OBVIOUS
  <2>3. 0 \in 0 .. 3 /\ 1 \in 0 .. 3 /\ 2 \in 0 .. 3 /\ 3 \in 0 .. 3
    OBVIOUS
  <2> QED BY <2>1, <2>2, <2>3
<1>3. TakenBack(g, planes, 0 .. 3, AvgStep(g, planes, sign), AvgStep(g, AvgStep(g, planes, sign), back))
  <2>1. 0 \in 0 .. 3 /\ {3} \subseteq 0 .. 3 /\ 0 \notin {3}
    OBVIOUS
  <2>2. TakenBack(g, planes, 0 .. 3, LiftStep(g, planes, 0, Diagonal, 3, sign),
                  LiftStep(g, LiftStep(g, planes, 0, Diagonal, 3, sign), 0, Diagonal, 3, -sign))
    BY <1>1, <2>1, LiftBack
  <2> QED BY <1>0, <2>2 DEF AvgStep
<1>4. TakenBack(g, planes, 0 .. 3, DeltaStep(g, planes, sign), DeltaStep(g, DeltaStep(g, planes, sign), back))
  BY <1>0, <1>1, LiftBack DEF DeltaStep
<1>5. TakenBack(g, planes, 0 .. 3, YStep(g, planes, sign), YStep(g, YStep(g, planes, sign), back))
  <2>1. Reads(g, 0, Cross(g.e2, g.e1), {1, 2}) /\ Reads(g, 3, Cross(g.e1, g.e2), {1, 2})
    BY <1>2
  <2>2. 0 # 3 /\ 0 \in 0 .. 3 /\ 3 \in 0 .. 3 /\ {1, 2} \subseteq 0 .. 3 /\ 0 \notin {1, 2} /\ 3 \notin {1, 2}
    OBVIOUS
  <2>3. \A pow, s : YStep(g, pow, s) = Pair(g, pow, 0, Cross(g.e2, g.e1), 3, Cross(g.e1, g.e2), 3, s)
    BY DEF Pair, YStep
  <2>4. TakenBack(g, planes, 0 .. 3, Pair(g, planes, 0, Cross(g.e2, g.e1), 3, Cross(g.e1, g.e2), 3, sign),
                  Pair(g, Pair(g, planes, 0, Cross(g.e2, g.e1), 3, Cross(g.e1, g.e2), 3, sign),
                       0, Cross(g.e2, g.e1), 3, Cross(g.e1, g.e2), 3, -sign))
    BY <2>1, <2>2, PairBack
  <2> QED BY <1>0, <2>3, <2>4
<1>6. TakenBack(g, planes, 0 .. 3, CbCrStep(g, planes, sign), CbCrStep(g, CbCrStep(g, planes, sign), back))
  <2>1. Reads(g, 1, Cross(0, 0), {0, 3}) /\ Reads(g, 2, Cross(0, 0), {0, 3})
    BY <1>2
  <2>2. 1 # 2 /\ 1 \in 0 .. 3 /\ 2 \in 0 .. 3 /\ {0, 3} \subseteq 0 .. 3 /\ 1 \notin {0, 3} /\ 2 \notin {0, 3}
    OBVIOUS
  <2>3. \A pow, s : CbCrStep(g, pow, s) = Pair(g, pow, 1, Cross(0, 0), 2, Cross(0, 0), 2, s)
    BY DEF Pair, CbCrStep
  <2>4. TakenBack(g, planes, 0 .. 3, Pair(g, planes, 1, Cross(0, 0), 2, Cross(0, 0), 2, sign),
                  Pair(g, Pair(g, planes, 1, Cross(0, 0), 2, Cross(0, 0), 2, sign), 1, Cross(0, 0), 2, Cross(0, 0), 2, -sign))
    BY <2>1, <2>2, PairBack
  <2> QED BY <1>0, <2>3, <2>4
<1> QED BY <1>3, <1>4, <1>5, <1>6

(* Star-Tetrix, for every picture, CFA pattern, Cf and weights: the inverse*)
(* runs the steps in the opposite order and takes each of them back        *)
(* (transform.cc: ForwardMct, InverseMct).                                 *)
THEOREM StarTetrixRoundTrip ==
    ASSUME NEW g, g.cpih = 3, g.ct \in 0 .. 1, g.wf \in Nat, g.hf \in Nat, g.e1 \in Nat, g.e2 \in Nat,
           NEW planes, Picture(g, planes, 0 .. 3)
    PROVE  InverseMct(g, ForwardMct(g, planes)) = planes
<1> DEFINE p1 == SwapSlots(planes)
           p2 == CbCrStep(g, p1, -1)
           p3 == YStep(g, p2, 1)
           p4 == DeltaStep(g, p3, -1)
           p5 == AvgStep(g, p4, 1)
<1>1. ForwardMct(g, planes) = p5
  BY DEF ForwardMct
<1>2. InverseMct(g, p5) = SwapSlots(CbCrStep(g, YStep(g, DeltaStep(g, AvgStep(g, p5, -1), 1), -1), 1))
  BY DEF InverseMct
<1>3. -1 \in {-1, 1} /\ 1 \in {-1, 1} /\ -1 # 1
  OBVIOUS
<1>4. Picture(g, p1, 0 .. 3) /\ SwapSlots(p1) = planes
  BY SwapTwice
<1> HIDE DEF p1
<1>5. Picture(g, p2, 0 .. 3) /\ CbCrStep(g, p2, 1) = p1
  <2>1. TakenBack(g, p1, 0 .. 3, CbCrStep(g, p1, -1), CbCrStep(g, CbCrStep(g, p1, -1), 1))
    BY <1>3, <1>4, StarTetrixSteps
  <2> QED BY <2>1, Zenon DEF TakenBack
<1> HIDE DEF p2
<1>6. Picture(g, p3, 0 .. 3) /\ YStep(g, p3, -1) = p2
  <2>1. TakenBack(g, p2, 0 .. 3, YStep(g, p2, 1), YStep(g, YStep(g, p2, 1), -1))
    BY <1>3, <1>5, StarTetrixSteps
  <2> QED BY <2>1, Zenon DEF TakenBack
<1> HIDE DEF p3
<1>7. Picture(g, p4, 0 .. 3) /\ DeltaStep(g, p4, 1) = p3
  <2>1. TakenBack(g, p3, 0 .. 3, DeltaStep(g, p3, -1), DeltaStep(g, DeltaStep(g, p3, -1), 1))
    BY <1>3, <1>6, StarTetrixSteps
  <2> QED BY <2>1, Zenon DEF TakenBack
<1> HIDE DEF p4
<1>8. AvgStep(g, p5, -1) = p4
  <2>1. TakenBack(g, p4, 0 .. 3, AvgStep(g, p4, 1), AvgStep(g, AvgStep(g, p4, 1), -1))
    BY <1>3, <1>7, StarTetrixSteps
  <2> QED BY <2>1, Zenon DEF TakenBack
<1> HIDE DEF p5
<1>9. InverseMct(g, p5) = planes
  BY <1>2, <1>4, <1>5, <1>6, <1>7, <1>8, Zenon
<1> QED BY <1>1, <1>9, Zenon

(* The transform across the components, whichever the headers name.        *)
LEMMA RctRoundTrip ==
    ASSUME NEW g, g.wf \in Nat, g.hf \in Nat, NEW planes, Picture(g, planes, 0 .. 2)
    PROVE  InverseRct(ForwardRct(planes)) = planes
<1> DEFINE q == ForwardRct(planes)
           At(y, x) == Pixel(planes, y, x)
           Rows(pow, c) == DOMAIN pow[c] = 0 .. g.hf - 1 /\ \A y \in 0 .. g.hf - 1 : DOMAIN pow[c][y] = 0 .. g.wf - 1
<1>1. ASSUME NEW c \in 0 .. 2
      PROVE  c \in DOMAIN planes /\ planes[c] \in [0 .. g.hf - 1 -> [0 .. g.wf - 1 -> Int]] /\ Rows(planes, c)
  BY DEF Picture
<1>2. ASSUME NEW y \in 0 .. g.hf - 1, NEW x \in 0 .. g.wf - 1
      PROVE  At(y, x) \in [0 .. 2 -> Int] /\ \A c \in 0 .. 2 : At(y, x)[c] = planes[c][y][x]
  <2>1. \A c \in 0 .. 2 : planes[c][y][x] \in Int
    BY <1>1, Samples
  <2> QED BY <2>1 DEF Pixel
<1>3. /\ DOMAIN q = DOMAIN planes /\ q = [c \in DOMAIN planes |-> q[c]]
      /\ \A c \in DOMAIN planes : c > 2 => q[c] = planes[c]
  BY DEF ForwardRct
<1>4. ASSUME NEW c \in 0 .. 2
      PROVE  q[c] = [y \in 0 .. g.hf - 1 |-> [x \in 0 .. g.wf - 1 |-> ForwardPixel(At(y, x))[c]]]
  <2>1. q[c] = [y \in DOMAIN planes[c] |-> [x \in DOMAIN planes[c][y] |-> ForwardPixel(At(y, x))[c]]]
    BY <1>1 DEF ForwardRct
  <2> HIDE DEF At
  <2> QED BY <1>1, <2>1
<1> HIDE DEF q, At
<1>5. ASSUME NEW y \in 0 .. g.hf - 1, NEW x \in 0 .. g.wf - 1
      PROVE  Pixel(q, y, x) = ForwardPixel(At(y, x))
  <2>1. ForwardPixel(At(y, x)) \in [0 .. 2 -> Int]
    BY <1>2, ColourRoundTrip
  <2>2. \A c \in 0 .. 2 : q[c][y][x] = ForwardPixel(At(y, x))[c]
    BY <1>4
  <2> QED BY <2>1, <2>2 DEF Pixel
<1>6. ASSUME NEW c \in 0 .. 2 PROVE InverseRct(q)[c] = planes[c]
  <2>1. Rows(q, c)
    BY <1>4
  <2>2. InverseRct(q)[c] = [y \in DOMAIN q[c] |-> [x \in DOMAIN q[c][y] |-> InversePixel(Pixel(q, y, x))[c]]]
    <3>1. c \in DOMAIN q /\ ~(c > 2)
      BY <1>1, <1>3
    <3> QED BY <3>1 DEF InverseRct
  <2>3. InverseRct(q)[c] = [y \in 0 .. g.hf - 1 |-> [x \in 0 .. g.wf - 1 |-> InversePixel(Pixel(q, y, x))[c]]]
    BY <2>1, <2>2
  <2>4. ASSUME NEW y \in 0 .. g.hf - 1, NEW x \in 0 .. g.wf - 1
        PROVE  InversePixel(Pixel(q, y, x))[c] = planes[c][y][x] /\ planes[c][y][x] \in Int
    <3>1. InversePixel(ForwardPixel(At(y, x))) = At(y, x)
      BY <1>2, ColourRoundTrip
    <3> QED BY <1>1, <1>2, <1>5, <3>1, Samples
  <2> DEFINE back == InverseRct(q)[c]
             V(y, x) == InversePixel(Pixel(q, y, x))[c]
  <2>5. /\ back = [y \in 0 .. g.hf - 1 |-> [x \in 0 .. g.wf - 1 |-> V(y, x)]]
        /\ \A y \in 0 .. g.hf - 1, x \in 0 .. g.wf - 1 : V(y, x) = planes[c][y][x] /\ V(y, x) \in Int
    BY <2>3, <2>4
  <2>6. IsPlane(g, planes[c])
    BY <1>1 DEF IsPlane
  <2> HIDE DEF back, V
  <2>7. IsPlane(g, back) /\ SameSamples(g, back, planes[c])
    BY <2>5 DEF IsPlane, SameSamples
  <2>8. back = planes[c]
    BY <2>6, <2>7, SamePlane
  <2> QED BY <2>8 DEF back
<1>7. ASSUME NEW c \in DOMAIN planes, c > 2 PROVE InverseRct(q)[c] = planes[c]
  BY <1>3, <1>7 DEF InverseRct
<1>8. InverseRct(q) = [c \in DOMAIN planes |-> InverseRct(q)[c]] /\ planes = [c \in DOMAIN planes |-> planes[c]]
  BY <1>3 DEF InverseRct, Picture
<1>9. \A c \in DOMAIN planes : c \in 0 .. 2 \/ c > 2
  BY DEF Picture
<1>10. \A c \in DOMAIN planes : InverseRct(q)[c] = planes[c]
  BY <1>6, <1>7, <1>9
<1> QED BY <1>8, <1>10 DEF q

(* The components a transform reads.                                       *)
Transformed(g) == CASE g.cpih = 0 -> {} [] g.cpih = 1 -> 0 .. 2 [] g.cpih = 3 -> 0 .. 3

(* Every transform across the components is reversible, whichever the      *)
(* headers name (Table A.9), as long as the components it reads are of the *)
(* size of the picture (transform.cc: ForwardMct, InverseMct).             *)
THEOREM ComponentsRoundTrip ==
    ASSUME NEW g, g.cpih \in {0, 1, 3}, g.wf \in Nat, g.hf \in Nat,
           g.cpih = 3 => g.ct \in 0 .. 1 /\ g.e1 \in Nat /\ g.e2 \in Nat,
           NEW planes, Picture(g, planes, Transformed(g))
    PROVE  InverseMct(g, ForwardMct(g, planes)) = planes
<1>1. CASE g.cpih = 0
  BY <1>1 DEF ForwardMct, InverseMct
<1>2. CASE g.cpih = 1
  <2>1. InverseRct(ForwardRct(planes)) = planes
    BY <1>2, RctRoundTrip DEF Transformed
  <2>2. ForwardMct(g, planes) = ForwardRct(planes) /\ \A pow : InverseMct(g, pow) = InverseRct(pow)
    BY <1>2 DEF ForwardMct, InverseMct
  <2> QED BY <2>1, <2>2
<1>3. CASE g.cpih = 3
  BY <1>3, StarTetrixRoundTrip DEF Transformed
<1> QED BY <1>1, <1>2, <1>3

-----------------------------------------------------------------------------
(* Induction over a set, with the well-foundedness of < on Nat: a set that *)
(* holds 0 and, with each number up to n, the next one, holds them all.    *)
LEMMA SetInduction ==
    ASSUME NEW A, 0 \in A, \A k \in Nat : k \in A => k + 1 \in A
    PROVE  Nat \subseteq A
<1> DEFINE T == Nat \ A
           R == OpToRel(<, Nat)
<1>1. SUFFICES ASSUME T # {} PROVE FALSE
  OBVIOUS
<1>2. IsWellFoundedOn(R, Nat)
  BY NatLessThanWellFounded, Zenon
<1>3. T \subseteq Nat
  OBVIOUS
<1> HIDE DEF T, R
<1>4. PICK x \in T : \A y \in T : ~(<<y, x>> \in R)
  BY <1>1, <1>2, <1>3, WFMin
<1>5. x \in Nat /\ x # 0
  BY DEF T
<1>6. x - 1 \in T
  BY <1>5 DEF T
<1>7. <<x - 1, x>> \in Nat \X Nat /\ x - 1 < x
  BY <1>5
<1>8. <<x - 1, x>> \in R
  BY <1>7 DEF R, OpToRel
<1> QED BY <1>4, <1>6, <1>8

LEMMA UpTo ==
    ASSUME NEW n \in Nat, NEW A, 0 \in A, \A k \in 0 .. n - 1 : k \in A => k + 1 \in A
    PROVE  0 .. n \subseteq A
<1> DEFINE B == A \cup {k \in Nat : k > n}
<1>1. 0 \in B /\ \A k \in Nat : k \in B => k + 1 \in B
  OBVIOUS
<1> HIDE DEF B
<1>2. Nat \subseteq B
  BY <1>1, SetInduction
<1> QED BY <1>2 DEF B

(* A function defined by steps exists.                                     *)
IsRun(f, n, V, base, step) ==
    f \in [0 .. n -> V] /\ f[0] = base /\ \A k \in 1 .. n : f[k] = step[k][f[k - 1]]
LEMMA Recursion ==
    ASSUME NEW n \in Nat, NEW V, NEW base \in V, NEW step, \A k \in 1 .. n : step[k] \in [V -> V]
    PROVE  \E f : IsRun(f, n, V, base, step)
<1> USE DEF IsRun
<1> DEFINE Runs(m, f) == IsRun(f, m, V, base, step)
           A == {m \in 0 .. n : \E f : Runs(m, f)}
<1>1. 0 \in A
  <2> DEFINE f == [k \in 0 .. 0 |-> base]
  <2>1. f \in [0 .. 0 -> V] /\ f[0] = base /\ \A k \in 1 .. 0 : FALSE
    OBVIOUS
  <2> HIDE DEF f
  <2>2. Runs(0, f)
    BY <2>1
  <2> QED BY <2>2
<1>2. ASSUME NEW m \in 0 .. n - 1, m \in A PROVE m + 1 \in A
  <2>1. PICK f : Runs(m, f)
    BY <1>2
  <2> DEFINE next == step[m + 1][f[m]]
             g == [k \in 0 .. m + 1 |-> IF k = m + 1 THEN next ELSE f[k]]
  <2>2. m + 1 \in 1 .. n /\ m \in 0 .. m /\ f[m] \in V
    BY <2>1
  <2>3. next \in V
    BY <2>2
  <2>4. g \in [0 .. m + 1 -> V]
    <3> HIDE DEF next
    <3>1. \A k \in 0 .. m + 1 : k # m + 1 => f[k] \in V
      BY <2>1
    <3> QED BY <2>3, <3>1
  <2>5. g[0] = base
    BY <2>1
  <2>6. ASSUME NEW k \in 1 .. m + 1 PROVE g[k] = step[k][g[k - 1]]
    <3>1. CASE k = m + 1
      <4>1. g[k] = next /\ g[k - 1] = f[m]
        BY <3>1
      <4> QED BY <3>1, <4>1
    <3>2. CASE k # m + 1
      <4>1. g[k] = f[k] /\ g[k - 1] = f[k - 1] /\ k \in 1 .. m
        BY <3>2
      <4> QED BY <2>1, <4>1
    <3> QED BY <3>1, <3>2
  <2>7. Runs(m + 1, g)
    BY <2>4, <2>5, <2>6
  <2>8. m + 1 \in 0 .. n
    OBVIOUS
  <2> HIDE DEF Runs, g
  <2> QED BY <2>7, <2>8
<1>3. 0 .. n \subseteq A
  <2> HIDE DEF A
  <2> QED BY <1>1, <1>2, UpTo
<1>4. n \in A
  BY <1>3
<1> QED BY <1>4
(* What Total adds up, step by step.                                       *)
IsSum(sum, n, seq) ==
    sum \in [0 .. n -> Int] /\ sum[0] = 0 /\ \A k \in 1 .. n : sum[k] = sum[k - 1] + seq[k]
SumOf(terms) == LET sum[k \in Nat] == IF k = 0 THEN 0 ELSE sum[k - 1] + terms[k]
                IN  sum[Len(terms)]
LEMMA SumExists ==
    ASSUME NEW seq
    PROVE  \E sum : sum = [k \in Nat |-> IF k = 0 THEN 0 ELSE sum[k - 1] + seq[k]]
<1> DEFINE Sums(g, n) == g[0] = 0 /\ \A k \in 1 .. n : g[k] = g[k - 1] + seq[k]
           A == {n \in Nat : \E g : Sums(g, n)}
           First(n) == CHOOSE g : Sums(g, n)
           sum == [n \in Nat |-> First(n)[n]]
<1>1. 0 \in A
  <2> DEFINE g == [k \in 0 .. 0 |-> 0]
  <2>1. g[0] = 0 /\ \A k \in 1 .. 0 : FALSE
    OBVIOUS
  <2> HIDE DEF g
  <2> QED BY <2>1
<1>2. ASSUME NEW n \in Nat, n \in A PROVE n + 1 \in A
  <2>1. PICK g : Sums(g, n)
    BY <1>2
  <2> DEFINE next == g[n] + seq[n + 1]
             r == [k \in 0 .. n + 1 |-> IF k = n + 1 THEN next ELSE g[k]]
  <2>2. r[0] = 0
    BY <2>1
  <2>3. ASSUME NEW k \in 1 .. n + 1 PROVE r[k] = r[k - 1] + seq[k]
    <3>1. CASE k = n + 1
      <4>1. r[k] = next /\ r[k - 1] = g[n]
        BY <3>1
      <4> QED BY <3>1, <4>1
    <3>2. CASE k # n + 1
      <4>1. r[k] = g[k] /\ r[k - 1] = g[k - 1] /\ k \in 1 .. n
        BY <3>2
      <4> QED BY <2>1, <4>1
    <3> QED BY <3>1, <3>2
  <2> HIDE DEF r
  <2> QED BY <2>2, <2>3
<1>3. \A n \in Nat : Sums(First(n), n)
  <2> HIDE DEF A, Sums
  <2>1. Nat \subseteq A
    BY <1>1, <1>2, SetInduction
  <2> SUFFICES ASSUME NEW n \in Nat PROVE Sums(First(n), n)
    OBVIOUS
  <2>2. \E g : Sums(g, n)
    BY <2>1 DEF A
  <2> QED BY <2>2
<1> HIDE DEF First
<1>4. ASSUME NEW n \in Nat, NEW g, Sums(g, n), NEW other, Sums(other, n + 1)
      PROVE  other[n] = g[n]
  <2> DEFINE B == {k \in 0 .. n : other[k] = g[k]}
  <2>1. 0 \in B
    BY <1>4
  <2>2. \A k \in 0 .. n - 1 : k \in B => k + 1 \in B
    <3> SUFFICES ASSUME NEW k \in 0 .. n - 1, other[k] = g[k] PROVE other[k + 1] = g[k + 1]
      OBVIOUS
    <3>1. k + 1 \in 1 .. n /\ k + 1 \in 1 .. n + 1 /\ (k + 1) - 1 = k
      OBVIOUS
    <3>2. g[k + 1] = g[k] + seq[k + 1] /\ other[k + 1] = other[k] + seq[k + 1]
      BY <3>1, <1>4
    <3> QED BY <3>2
  <2> HIDE DEF B
  <2>3. 0 .. n \subseteq B
    BY <2>1, <2>2, UpTo
  <2> QED BY <2>3 DEF B
<1>5. sum = [k \in Nat |-> IF k = 0 THEN 0 ELSE sum[k - 1] + seq[k]]
  <2> SUFFICES ASSUME NEW k \in Nat PROVE sum[k] = IF k = 0 THEN 0 ELSE sum[k - 1] + seq[k]
    <3> HIDE DEF sum
    <3> QED BY DEF sum
  <2>1. CASE k = 0
    BY <2>1, <1>3
  <2>2. CASE k # 0
    <3> DEFINE n == k - 1
    <3>1. n \in Nat /\ n + 1 = k /\ k \in 1 .. k
      BY <2>2
    <3>2. Sums(First(n), n) /\ Sums(First(k), n + 1)
      BY <1>3, <3>1
    <3>3. First(k)[n] = First(n)[n]
      <4> HIDE DEF Sums, n
      <4> QED BY <3>1, <3>2, <1>4
    <3>4. First(k)[k] = First(k)[n] + seq[k]
      BY <3>1, <3>2
    <3>5. sum[k] = First(k)[k] /\ sum[n] = First(n)[n]
      BY <3>1
    <3> HIDE DEF sum, n
    <3>6. sum[k] = sum[n] + seq[k]
      BY <3>3, <3>4, <3>5
    <3> QED BY <2>2, <3>6 DEF n
  <2> QED BY <2>1, <2>2
<1> QED BY <1>5

LEMMA RunningSum ==
    ASSUME NEW seq, Len(seq) \in Nat, \A k \in 1 .. Len(seq) : seq[k] \in Int
    PROVE  \E sum : IsSum(sum, Len(seq), seq) /\ Total(seq) = sum[Len(seq)]
<1> DEFINE n == Len(seq)
           Sum(f) == f = [k \in Nat |-> IF k = 0 THEN 0 ELSE f[k - 1] + seq[k]]
           sum == CHOOSE f : Sum(f)
           upto == [k \in 0 .. n |-> sum[k]]
<1>0. n \in Nat
  OBVIOUS
<1>1. Sum(sum)
  <2>1. \E f : Sum(f)
    BY SumExists
  <2> HIDE DEF Sum
  <2> QED BY <2>1
<1>2. Total(seq) = sum[n]
  <2>1. Total(seq) = SumOf(Once(seq))
    BY DEF Total, SumOf
  <2>2. SumOf(Once(seq)) = SumOf(seq)
    BY OnceIs
  <2>3. SumOf(seq) = sum[n]
    BY DEF SumOf
  <2> QED BY <2>1, <2>2, <2>3
<1> HIDE DEF sum, n
<1>3. sum[0] = 0 /\ \A k \in 1 .. n : sum[k] = sum[k - 1] + seq[k]
  BY <1>0, <1>1
<1>4. \A k \in 0 .. n : sum[k] \in Int
  <2> DEFINE A == {k \in 0 .. n : sum[k] \in Int}
  <2>1. 0 \in A
    BY <1>0, <1>3
  <2>2. \A k \in 0 .. n - 1 : k \in A => k + 1 \in A
    <3> SUFFICES ASSUME NEW k \in 0 .. n - 1, sum[k] \in Int PROVE sum[k + 1] \in Int
      BY <1>0
    <3>1. k + 1 \in 1 .. n /\ (k + 1) - 1 = k
      BY <1>0
    <3>2. seq[k + 1] \in Int
      BY <3>1 DEF n
    <3> QED BY <3>1, <3>2, <1>3
  <2> HIDE DEF A
  <2>3. 0 .. n \subseteq A
    BY <1>0, <2>1, <2>2, UpTo
  <2> QED BY <2>3 DEF A
<1>5. /\ upto \in [0 .. n -> Int] /\ upto[0] = 0 /\ upto[n] = sum[n]
      /\ \A k \in 1 .. n : upto[k] = upto[k - 1] + seq[k]
  BY <1>0, <1>3, <1>4
<1> HIDE DEF upto
<1>6. IsSum(upto, n, seq) /\ Total(seq) = upto[n]
  BY <1>2, <1>5 DEF IsSum
<1> QED BY <1>6 DEF n

Ints(seq) == Len(seq) \in Nat /\ \A k \in 1 .. Len(seq) : seq[k] \in Int

(* Two running sums of the same terms are the same.                        *)
IsSumFrom(sum, at, base, n, seq) ==
    sum[at] = base /\ \A k \in 1 .. n : sum[at + k] = sum[(at + k) - 1] + seq[k]
LEMMA SameSum ==
    ASSUME NEW n \in Nat, NEW seq, \A k \in 1 .. n : seq[k] \in Int, NEW sum, IsSum(sum, n, seq),
           NEW at \in Nat, NEW base \in Int, NEW other, IsSumFrom(other, at, base, n, seq)
    PROVE  \A k \in 0 .. n : other[at + k] = base + sum[k]
<1> DEFINE A == {k \in 0 .. n : other[at + k] = base + sum[k]}
<1>0. /\ \A k \in 0 .. n : sum[k] \in Int
      /\ sum[0] = 0 /\ \A k \in 1 .. n : sum[k] = sum[k - 1] + seq[k]
      /\ other[at] = base /\ \A k \in 1 .. n : other[at + k] = other[(at + k) - 1] + seq[k]
  BY DEF IsSum, IsSumFrom
<1>1. 0 \in A
  BY <1>0
<1>2. \A k \in 0 .. n - 1 : k \in A => k + 1 \in A
  <2> SUFFICES ASSUME NEW k \in 0 .. n - 1, other[at + k] = base + sum[k]
               PROVE  other[at + (k + 1)] = base + sum[k + 1]
    OBVIOUS
  <2>1. k + 1 \in 1 .. n /\ (k + 1) - 1 = k /\ (at + (k + 1)) - 1 = at + k
    OBVIOUS
  <2>2. sum[k + 1] = sum[k] + seq[k + 1] /\ other[at + (k + 1)] = other[at + k] + seq[k + 1]
    BY <1>0, <2>1
  <2>3. sum[k] \in Int /\ sum[k + 1] \in Int
    BY <1>0, <2>1
  <2>4. seq[k + 1] \in Int
    BY <2>1
  <2> QED BY <2>2, <2>3, <2>4
<1> HIDE DEF A
<1>3. 0 .. n \subseteq A
  BY <1>1, <1>2, UpTo
<1> QED BY <1>3 DEF A

LEMMA TotalIsInt == ASSUME NEW seq, Ints(seq) PROVE Total(seq) \in Int
BY RunningSum DEF Ints, IsSum

(* Without its last term, and when two sums differ in their terms only     *)
(* beyond the first n.                                                     *)
LEMMA TotalPrefix ==
    ASSUME NEW seq, Ints(seq), NEW rest, Ints(rest), Len(seq) <= Len(rest),
           \A k \in 1 .. Len(seq) : rest[k] = seq[k],
           NEW sum, IsSum(sum, Len(rest), rest)
    PROVE  sum[Len(seq)] = Total(seq)
<1> DEFINE n == Len(seq)
<1>1. PICK first : IsSum(first, n, seq) /\ Total(seq) = first[n]
  BY RunningSum DEF Ints
<1>2. n \in Nat /\ n \in 0 .. n /\ 0 + n = n /\ n <= Len(rest) /\ Len(rest) \in Nat
  BY DEF Ints
<1>3. /\ \A k \in 1 .. n : seq[k] \in Int /\ rest[k] = seq[k]
      /\ \A k \in 0 .. n : first[k] \in Int
      /\ first[0] = 0 /\ \A k \in 1 .. n : first[k] = first[k - 1] + seq[k]
  BY <1>1 DEF IsSum, Ints
<1>4. IsSumFrom(sum, 0, 0, n, seq)
  <2> SUFFICES ASSUME NEW k \in 1 .. n PROVE sum[0 + k] = sum[(0 + k) - 1] + seq[k]
    BY DEF IsSum, IsSumFrom
  <2>1. 0 + k = k /\ k \in 1 .. Len(rest) /\ rest[k] = seq[k]
    BY <1>2, <1>3
  <2> QED BY <2>1 DEF IsSum
<1> HIDE DEF n
<1>5. \A k \in 0 .. n : sum[0 + k] = 0 + first[k]
  <2>1. 0 \in Nat /\ 0 \in Int /\ n \in Nat /\ \A k \in 1 .. n : seq[k] \in Int
    BY <1>2, <1>3
  <2> QED BY <2>1, <1>1, <1>4, SameSum
<1>6. sum[n] = 0 + first[n] /\ first[n] \in Int
  BY <1>2, <1>3, <1>5
<1> QED BY <1>1, <1>6 DEF n

LEMMA TotalLast ==
    ASSUME NEW seq, Ints(seq), Len(seq) > 0, NEW front, Len(front) = Len(seq) - 1,
           \A k \in 1 .. Len(seq) - 1 : front[k] = seq[k]
    PROVE  Total(seq) = Total(front) + seq[Len(seq)]
<1> DEFINE n == Len(seq)
<1>1. PICK sum : IsSum(sum, n, seq) /\ Total(seq) = sum[n]
  BY RunningSum DEF Ints
<1>2. Ints(front) /\ Len(front) <= n
  BY DEF Ints
<1>3. sum[n - 1] = Total(front)
  BY <1>1, <1>2, TotalPrefix
<1> QED BY <1>1, <1>3 DEF IsSum, Ints

LEMMA TotalNone == Total(<<>>) = 0
BY RunningSum DEF IsSum

LEMMA TotalConcat ==
    ASSUME NEW s \in Seq(Int), NEW t \in Seq(Int)
    PROVE  s \o t \in Seq(Int) /\ Total(s \o t) = Total(s) + Total(t)
<1> DEFINE st == s \o t
           m == Len(s)
           n == Len(t)
<1>1. /\ st \in Seq(Int) /\ Len(st) = m + n /\ m \in Nat /\ n \in Nat
      /\ \A k \in 1 .. m : st[k] = s[k]
      /\ \A k \in 1 .. n : st[m + k] = t[k]
  OBVIOUS
<1>2. Ints(s) /\ Ints(t)
  BY DEF Ints
<1> HIDE DEF st
<1>3. Ints(st)
  BY <1>1 DEF Ints
<1>4. PICK sum : IsSum(sum, m + n, st) /\ Total(st) = sum[m + n]
  BY <1>1, <1>3, RunningSum DEF Ints
<1>5. PICK tail : IsSum(tail, n, t) /\ Total(t) = tail[n]
  BY <1>2, RunningSum DEF Ints
<1>6. sum[m] = Total(s)
  <2>1. Len(st) = m + n /\ m <= m + n
    BY <1>1
  <2> QED BY <2>1, <1>1, <1>2, <1>3, <1>4, TotalPrefix
<1>7. /\ \A k \in 1 .. n : t[k] \in Int
      /\ \A k \in 0 .. n : tail[k] \in Int
      /\ tail[0] = 0 /\ \A k \in 1 .. n : tail[k] = tail[k - 1] + t[k]
  BY <1>2, <1>5 DEF IsSum, Ints
<1>8. IsSumFrom(sum, m, Total(s), n, t)
  <2> SUFFICES ASSUME NEW k \in 1 .. n PROVE sum[m + k] = sum[(m + k) - 1] + t[k]
    BY <1>6 DEF IsSumFrom
  <2>1. m + k \in 1 .. m + n /\ st[m + k] = t[k]
    BY <1>1
  <2> HIDE DEF m, n
  <2>2. \A i \in 1 .. m + n : sum[i] = sum[i - 1] + st[i]
    BY <1>4 DEF IsSum
  <2>3. sum[m + k] = sum[(m + k) - 1] + st[m + k]
    BY <2>1, <2>2, Zenon
  <2> QED BY <2>1, <2>3, Zenon
<1>9. Total(s) \in Int
  BY <1>2, TotalIsInt
<1> HIDE DEF m, n
<1>10. \A k \in 0 .. n : sum[m + k] = Total(s) + tail[k]
  <2>1. m \in Nat /\ n \in Nat /\ Total(s) \in Int /\ IsSum(tail, n, t) /\ \A k \in 1 .. n : t[k] \in Int
    BY <1>1, <1>5, <1>7, <1>9
  <2> QED BY <2>1, <1>8, SameSum
<1>11. n \in 0 .. n
  BY <1>1
<1> QED BY <1>1, <1>4, <1>5, <1>10, <1>11 DEF st

LEMMA TotalNat ==
    ASSUME NEW seq, Len(seq) \in Nat, \A k \in 1 .. Len(seq) : seq[k] \in Nat
    PROVE  Total(seq) \in Nat
<1> DEFINE n == Len(seq)
<1>1. PICK sum : IsSum(sum, n, seq) /\ Total(seq) = sum[n]
  BY RunningSum
<1> DEFINE A == {k \in 0 .. n : sum[k] \in Nat}
<1>2. 0 \in A
  BY <1>1 DEF IsSum
<1>3. \A k \in 0 .. n - 1 : k \in A => k + 1 \in A
  <2> SUFFICES ASSUME NEW k \in 0 .. n - 1, sum[k] \in Nat PROVE sum[k + 1] \in Nat
    OBVIOUS
  <2>1. k + 1 \in 1 .. n /\ (k + 1) - 1 = k
    OBVIOUS
  <2> QED BY <2>1, <1>1 DEF IsSum
<1> HIDE DEF A
<1>4. 0 .. n \subseteq A
  BY <1>2, <1>3, UpTo
<1> QED BY <1>1, <1>4 DEF A

LEMMA TotalOfSame ==
    ASSUME NEW n \in Nat, NEW c \in Nat
    PROVE  Total([k \in 1 .. n |-> c]) = n * c
<1> DEFINE seq == [k \in 1 .. n |-> c]
<1>0. Len(seq) = n /\ \A k \in 1 .. n : seq[k] = c
  <2>1. seq \in Seq(Nat)
    OBVIOUS
  <2> QED BY <2>1
<1> HIDE DEF seq
<1>1. PICK sum : IsSum(sum, n, seq) /\ Total(seq) = sum[n]
  BY <1>0, RunningSum
<1> DEFINE A == {k \in 0 .. n : sum[k] = k * c}
<1>2. 0 \in A
  BY <1>1 DEF IsSum
<1>3. \A k \in 0 .. n - 1 : k \in A => k + 1 \in A
  <2> SUFFICES ASSUME NEW k \in 0 .. n - 1, sum[k] = k * c PROVE sum[k + 1] = (k + 1) * c
    OBVIOUS
  <2>1. k + 1 \in 1 .. n /\ (k + 1) - 1 = k
    OBVIOUS
  <2>2. sum[k + 1] = k * c + c
    BY <2>1, <1>0, <1>1 DEF IsSum
  <2> QED BY <2>2
<1> HIDE DEF A
<1>4. 0 .. n \subseteq A
  BY <1>2, <1>3, UpTo
<1> QED BY <1>1, <1>4 DEF A, seq

-----------------------------------------------------------------------------
(* Concatenations: every element of every sequence has its place.          *)
IsFlat(flat, n, S, seqs) ==
    flat \in [0 .. n -> Seq(S)] /\ flat[0] = <<>> /\ \A k \in 1 .. n : flat[k] = flat[k - 1] \o seqs[k]
LEMMA Flattening ==
    ASSUME NEW seqs, NEW n \in Nat \ {0}, Len(seqs) = n, NEW S, \A k \in 1 .. n : seqs[k] \in Seq(S)
    PROVE  \E flat : IsFlat(flat, n, S, seqs) /\ FlattenSeq(seqs) = flat[n]
<1> DEFINE V == Seq(S)
           step == [k \in 1 .. n |-> [v \in V |-> v \o seqs[k]]]
           Flat(f) == f = [k \in 1 .. n |-> IF k = 1 THEN seqs[k] ELSE f[k - 1] \o seqs[k]]
           flat == CHOOSE f : Flat(f)
           g == [k \in 0 .. n |-> IF k = 0 THEN <<>> ELSE flat[k]]
<1>1. \A k \in 1 .. n : step[k] \in [V -> V]
  <2> SUFFICES ASSUME NEW k \in 1 .. n, NEW v \in V PROVE v \o seqs[k] \in V
    OBVIOUS
  <2>1. seqs[k] \in Seq(S)
    OBVIOUS
  <2> QED BY <2>1, ConcatProperties
<1>2. <<>> \in V
  OBVIOUS
<1>3. PICK f : IsRun(f, n, V, <<>>, step)
  <2> HIDE DEF V, step
  <2> QED BY <1>1, <1>2, Recursion
<1>4. \A k \in 1 .. n : f[k] = f[k - 1] \o seqs[k] /\ f[k - 1] \in V
  <2> SUFFICES ASSUME NEW k \in 1 .. n PROVE f[k] = f[k - 1] \o seqs[k] /\ f[k - 1] \in V
    OBVIOUS
  <2>1. k - 1 \in 0 .. n
    OBVIOUS
  <2> HIDE DEF V
  <2>2. f[k - 1] \in V
    BY <2>1, <1>3 DEF IsRun
  <2>3. f[k] = step[k][f[k - 1]]
    BY <1>3, Zenon DEF IsRun
  <2> QED BY <2>2, <2>3
<1>5. f[1] = seqs[1]
  <2>1. f[0] = <<>> /\ 1 \in 1 .. n /\ 1 - 1 = 0
    BY <1>3 DEF IsRun
  <2>2. f[1] = <<>> \o seqs[1] /\ seqs[1] \in Seq(S)
    BY <1>4, <2>1
  <2> QED BY <2>2, ConcatEmptySeq
<1>6. Flat([k \in 1 .. n |-> f[k]])
  <2> DEFINE r == [k \in 1 .. n |-> f[k]]
  <2> SUFFICES ASSUME NEW k \in 1 .. n PROVE r[k] = IF k = 1 THEN seqs[k] ELSE r[k - 1] \o seqs[k]
    <3> HIDE DEF r
    <3> QED BY DEF Flat, r
  <2>1. k # 1 => k - 1 \in 1 .. n
    OBVIOUS
  <2> QED BY <1>4, <1>5, <2>1
<1>7. Flat(flat)
  <2> HIDE DEF Flat
  <2> QED BY <1>6
<1>8. FlattenSeq(seqs) = flat[n]
  BY DEF FlattenSeq
<1> HIDE DEF flat, V
<1>9. g[0] = <<>> /\ \A k \in 1 .. n : g[k] = g[k - 1] \o seqs[k]
  <2>0. g[0] = <<>>
    OBVIOUS
  <2> SUFFICES ASSUME NEW k \in 1 .. n PROVE g[k] = g[k - 1] \o seqs[k]
    <3> HIDE DEF g
    <3> QED BY <2>0
  <2>1. CASE k = 1
    <3>1. g[k] = seqs[k] /\ g[k - 1] = <<>> /\ seqs[k] \in Seq(S)
      BY <1>7, <2>1
    <3> QED BY <3>1, ConcatEmptySeq
  <2>2. CASE k # 1
    <3>1. k - 1 \in 1 .. n
      BY <2>2
    <3>2. flat[k] = flat[k - 1] \o seqs[k]
      BY <1>7, <2>2
    <3> QED BY <3>1, <3>2
  <2> QED BY <2>1, <2>2
<1>10. \A k \in 0 .. n : g[k] \in V
  <2> DEFINE A == {k \in 0 .. n : g[k] \in V}
  <2>1. 0 \in A
    BY <1>2
  <2>2. \A k \in 0 .. n - 1 : k \in A => k + 1 \in A
    <3> SUFFICES ASSUME NEW k \in 0 .. n - 1, g[k] \in V PROVE g[k + 1] \in V
      OBVIOUS
    <3>1. k + 1 \in 1 .. n /\ (k + 1) - 1 = k
      OBVIOUS
    <3> HIDE DEF g
    <3>2. g[k + 1] = g[k] \o seqs[k + 1] /\ seqs[k + 1] \in Seq(S)
      BY <3>1, <1>9
    <3> QED BY <3>2, ConcatProperties DEF V
  <2> HIDE DEF A
  <2>3. 0 .. n \subseteq A
    BY <2>1, <2>2, UpTo
  <2> QED BY <2>3 DEF A
<1>11. IsFlat(g, n, S, seqs) /\ g[n] = flat[n]
  <2>1. g \in [0 .. n -> V]
    BY <1>10
  <2>2. g[n] = flat[n]
    OBVIOUS
  <2> HIDE DEF g
  <2> QED BY <1>9, <2>1, <2>2 DEF IsFlat, V
<1> QED BY <1>8, <1>11

(* Where the k-th sequence begins is the sum of the lengths before it.     *)
Lengths(seqs) == [k \in 1 .. Len(seqs) |-> Len(seqs[k])]
LEMMA FlattenPlaces ==
    ASSUME NEW seqs, NEW n \in Nat \ {0}, Len(seqs) = n, NEW S, \A k \in 1 .. n : seqs[k] \in Seq(S)
    PROVE  /\ FlattenSeq(seqs) \in Seq(S) /\ Ints(Lengths(seqs)) /\ Len(Lengths(seqs)) = n
           /\ Len(FlattenSeq(seqs)) = Total(Lengths(seqs))
           /\ \A sum : IsSum(sum, n, Lengths(seqs)) =>
                \A k \in 1 .. n : \A j \in 1 .. Len(seqs[k]) : FlattenSeq(seqs)[sum[k - 1] + j] = seqs[k][j]
<1> DEFINE lens == Lengths(seqs)
<1>1. PICK flat : IsFlat(flat, n, S, seqs) /\ FlattenSeq(seqs) = flat[n]
  BY Flattening
<1>2. /\ flat[0] = <<>>
      /\ \A k \in 1 .. n : flat[k] = flat[k - 1] \o seqs[k]
      /\ \A k \in 0 .. n : flat[k] \in Seq(S)
  BY <1>1 DEF IsFlat
<1>3. lens \in Seq(Nat) /\ Len(lens) = n /\ \A k \in 1 .. n : lens[k] = Len(seqs[k]) /\ lens[k] \in Nat
  <2>1. \A k \in 1 .. n : Len(seqs[k]) \in Nat
    OBVIOUS
  <2> QED BY <2>1 DEF Lengths
<1>4. Ints(lens)
  BY <1>3 DEF Ints
<1> HIDE DEF lens
<1>5. ASSUME NEW sum, IsSum(sum, n, lens)
      PROVE  /\ Len(flat[n]) = sum[n]
             /\ \A k \in 1 .. n : \A j \in 1 .. Len(seqs[k]) : flat[n][sum[k - 1] + j] = seqs[k][j]
  <2> DEFINE At(m) == /\ sum[m] \in Nat /\ Len(flat[m]) = sum[m]
                      /\ \A k \in 1 .. m : /\ sum[k - 1] \in Nat
                                           /\ \A j \in 1 .. Len(seqs[k]) : /\ sum[k - 1] + j \in 1 .. sum[m]
                                                                           /\ flat[m][sum[k - 1] + j] = seqs[k][j]
             A == {m \in 0 .. n : At(m)}
  <2>1. 0 \in A
    <3>1. sum[0] = 0 /\ Len(flat[0]) = 0 /\ \A k \in 1 .. 0 : FALSE
      BY <1>2, <1>5 DEF IsSum
    <3> QED BY <3>1
  <2>2. \A m \in 0 .. n - 1 : m \in A => m + 1 \in A
    <3> HIDE DEF At
    <3> SUFFICES ASSUME NEW m \in 0 .. n - 1, At(m) PROVE At(m + 1)
      OBVIOUS
    <3> USE DEF At
    <3>1. m + 1 \in 1 .. n /\ (m + 1) - 1 = m /\ m \in 0 .. n
      OBVIOUS
    <3>2. sum[m + 1] = sum[m] + Len(seqs[m + 1]) /\ seqs[m + 1] \in Seq(S)
      BY <3>1, <1>3, <1>5 DEF IsSum
    <3>3. flat[m + 1] = flat[m] \o seqs[m + 1] /\ flat[m] \in Seq(S)
      BY <3>1, <1>2
    <3> DEFINE a == flat[m]
               b == seqs[m + 1]
    <3> HIDE DEF a, b
    <3>4. /\ Len(a \o b) = Len(a) + Len(b) /\ Len(a) \in Nat /\ Len(b) \in Nat
          /\ \A i \in 1 .. Len(a) + Len(b) : (a \o b)[i] = IF i <= Len(a) THEN a[i] ELSE b[i - Len(a)]
      <4>1. a \in Seq(S) /\ b \in Seq(S)
        BY <3>2, <3>3 DEF a, b
      <4> QED BY <4>1, ConcatProperties, LenProperties
    <3>5. sum[m] = Len(a) /\ sum[m + 1] = Len(a) + Len(b) /\ sum[m] \in Nat
      BY <3>2 DEF a, b
    <3>6. ASSUME NEW k \in 1 .. m + 1
          PROVE  /\ sum[k - 1] \in Nat
                 /\ \A j \in 1 .. Len(seqs[k]) : /\ sum[k - 1] + j \in 1 .. sum[m + 1]
                                                 /\ flat[m + 1][sum[k - 1] + j] = seqs[k][j]
      <4>1. CASE k = m + 1
        <5>1. sum[k - 1] = Len(a) /\ seqs[k] = b
          BY <4>1, <3>5 DEF b
        <5>2. ASSUME NEW j \in 1 .. Len(b)
              PROVE  Len(a) + j \in 1 .. Len(a) + Len(b) /\ (a \o b)[Len(a) + j] = b[j]
          <6>1. Len(a) + j \in 1 .. Len(a) + Len(b) /\ ~(Len(a) + j <= Len(a)) /\ (Len(a) + j) - Len(a) = j
            BY <3>4
          <6> QED BY <6>1, <3>4
        <5> QED BY <5>1, <5>2, <3>3, <3>4, <3>5 DEF a, b
      <4>2. CASE k \in 1 .. m
        <5>1. sum[k - 1] \in Nat
          BY <4>2
        <5>2. ASSUME NEW j \in 1 .. Len(seqs[k])
              PROVE  sum[k - 1] + j \in 1 .. sum[m + 1] /\ flat[m + 1][sum[k - 1] + j] = seqs[k][j]
          <6> DEFINE i == sum[k - 1] + j
          <6>1. i \in 1 .. Len(a) /\ a[i] = seqs[k][j]
            BY <4>2, <3>5 DEF a
          <6> HIDE DEF i
          <6>2. i \in 1 .. Len(a) + Len(b) /\ i <= Len(a)
            BY <6>1, <3>4
          <6>3. (a \o b)[i] = a[i]
            BY <6>2, <3>4
          <6>4. i \in 1 .. sum[m + 1] /\ flat[m + 1][i] = seqs[k][j]
            BY <6>1, <6>2, <6>3, <3>3, <3>5 DEF a, b
          <6> QED BY <6>4 DEF i
        <5> QED BY <5>1, <5>2
      <4> QED BY <4>1, <4>2
    <3>7. sum[m + 1] \in Nat /\ Len(flat[m + 1]) = sum[m + 1]
      BY <3>3, <3>4, <3>5 DEF a, b
    <3> HIDE DEF a, b
    <3> QED BY <3>6, <3>7
  <2> HIDE DEF A
  <2>3. 0 .. n \subseteq A
    BY <2>1, <2>2, UpTo
  <2>4. At(n)
    BY <2>3 DEF A
  <2> QED BY <2>4
<1>6. PICK sum : IsSum(sum, n, lens) /\ Total(lens) = sum[n]
  BY <1>3, <1>4, RunningSum DEF Ints
<1>7. Len(flat[n]) = Total(lens)
  BY <1>5, <1>6
<1> QED BY <1>1, <1>2, <1>3, <1>4, <1>5, <1>7 DEF lens

-----------------------------------------------------------------------------
(* Powers of two up to the 31 bitplanes a coefficient may have.            *)
Power(n, pow) ==
    (n = 0 /\ pow = 1) \/ (n = 1 /\ pow = 2) \/ (n = 2 /\ pow = 4) \/
    (n = 3 /\ pow = 8) \/ (n = 4 /\ pow = 16) \/ (n = 5 /\ pow = 32) \/
    (n = 6 /\ pow = 64) \/ (n = 7 /\ pow = 128) \/ (n = 8 /\ pow = 256) \/
    (n = 9 /\ pow = 512) \/ (n = 10 /\ pow = 1024) \/ (n = 11 /\ pow = 2048) \/
    (n = 12 /\ pow = 4096) \/ (n = 13 /\ pow = 8192) \/ (n = 14 /\ pow = 16384) \/
    (n = 15 /\ pow = 32768) \/ (n = 16 /\ pow = 65536) \/ (n = 17 /\ pow = 131072) \/
    (n = 18 /\ pow = 262144) \/ (n = 19 /\ pow = 524288) \/ (n = 20 /\ pow = 1048576) \/
    (n = 21 /\ pow = 2097152) \/ (n = 22 /\ pow = 4194304) \/
    (n = 23 /\ pow = 8388608) \/ (n = 24 /\ pow = 16777216) \/
    (n = 25 /\ pow = 33554432) \/ (n = 26 /\ pow = 67108864) \/
    (n = 27 /\ pow = 134217728) \/ (n = 28 /\ pow = 268435456) \/
    (n = 29 /\ pow = 536870912) \/ (n = 30 /\ pow = 1073741824) \/
    (n = 31 /\ pow = 2147483648) \/ (n = 32 /\ pow = 4294967296)

LEMMA PowerTable ==
    ASSUME NEW n \in 0 .. 32
    PROVE  Power(n, 2 ^ n)
<1> DEFINE pow == 2 ^ n
<1>0. n = 0 => pow = 1
  OBVIOUS
<1>1. n = 1 => pow = 2
  OBVIOUS
<1>2. n = 2 => pow = 4
  OBVIOUS
<1>3. n = 3 => pow = 8
  OBVIOUS
<1>4. n = 4 => pow = 16
  OBVIOUS
<1>5. n = 5 => pow = 32
  OBVIOUS
<1>6. n = 6 => pow = 64
  OBVIOUS
<1>7. n = 7 => pow = 128
  OBVIOUS
<1>8. n = 8 => pow = 256
  OBVIOUS
<1>9. n = 9 => pow = 512
  OBVIOUS
<1>10. n = 10 => pow = 1024
  OBVIOUS
<1>11. n = 11 => pow = 2048
  OBVIOUS
<1>12. n = 12 => pow = 4096
  OBVIOUS
<1>13. n = 13 => pow = 8192
  OBVIOUS
<1>14. n = 14 => pow = 16384
  OBVIOUS
<1>15. n = 15 => pow = 32768
  OBVIOUS
<1>16. n = 16 => pow = 65536
  OBVIOUS
<1>17. n = 17 => pow = 131072
  OBVIOUS
<1>18. n = 18 => pow = 262144
  OBVIOUS
<1>19. n = 19 => pow = 524288
  OBVIOUS
<1>20. n = 20 => pow = 1048576
  OBVIOUS
<1>21. n = 21 => pow = 2097152
  OBVIOUS
<1>22. n = 22 => pow = 4194304
  OBVIOUS
<1>23. n = 23 => pow = 8388608
  OBVIOUS
<1>24. n = 24 => pow = 16777216
  OBVIOUS
<1>25. n = 25 => pow = 33554432
  OBVIOUS
<1>26. n = 26 => pow = 67108864
  OBVIOUS
<1>27. n = 27 => pow = 134217728
  OBVIOUS
<1>28. n = 28 => pow = 268435456
  OBVIOUS
<1>29. n = 29 => pow = 536870912
  OBVIOUS
<1>30. n = 30 => pow = 1073741824
  OBVIOUS
<1>31. n = 31 => pow = 2147483648
  OBVIOUS
<1>32. n = 32 => pow = 4294967296
  OBVIOUS
<1>33. n = 0 \/ n = 1 \/ n = 2 \/ n = 3 \/ n = 4 \/ n = 5 \/ n = 6 \/ n = 7 \/ n = 8 \/ n = 9 \/
      n = 10 \/ n = 11 \/ n = 12 \/ n = 13 \/ n = 14 \/ n = 15 \/ n = 16 \/ n = 17 \/ n = 18 \/
      n = 19 \/ n = 20 \/ n = 21 \/ n = 22 \/ n = 23 \/ n = 24 \/ n = 25 \/ n = 26 \/ n = 27 \/
      n = 28 \/ n = 29 \/ n = 30 \/ n = 31 \/ n = 32
  OBVIOUS
<1> HIDE DEF pow
<1>34. Power(n, pow)
  BY <1>0, <1>1, <1>2, <1>3, <1>4, <1>5, <1>6, <1>7, <1>8, <1>9, <1>10, <1>11, <1>12, <1>13, <1>14,
     <1>15, <1>16, <1>17, <1>18, <1>19, <1>20, <1>21, <1>22, <1>23, <1>24, <1>25, <1>26, <1>27,
     <1>28, <1>29, <1>30, <1>31, <1>32, <1>33 DEF Power
<1> QED BY <1>34 DEF pow

LEMMA PowersGrow ==
    ASSUME NEW m \in 0 .. 31, NEW t \in 0 .. 31
    PROVE  /\ 2 ^ t \in Nat \ {0}
           /\ m <= t => 2 ^ m <= 2 ^ t
<1> DEFINE pow == 2 ^ t
           q == 2 ^ m
<1>1. Power(t, pow) /\ Power(m, q)
  <2>1. t \in 0 .. 32 /\ m \in 0 .. 32
    OBVIOUS
  <2> QED BY <2>1, PowerTable
<1> HIDE DEF pow, q
<1>2. pow \in Nat \ {0} /\ (m <= t => q <= pow)
  BY <1>1 DEF Power
<1> QED BY <1>2 DEF pow, q

(* A magnitude is its quotient and less than a step more.                  *)
Divides(a, pow) == a \div pow \in Nat /\ (a \div pow) * pow <= a /\ a < (a \div pow) * pow + pow /\ pow \div 2 < pow /\ pow \div 2 \in Nat

LEMMA StepOf ==
    ASSUME NEW a \in Nat, NEW t \in 0 .. 32
    PROVE  Divides(a, 2 ^ t)
<1>1. /\ Divides(a, 1) /\ Divides(a, 2) /\ Divides(a, 4) /\ Divides(a, 8) /\ Divides(a, 16)
      /\ Divides(a, 32) /\ Divides(a, 64) /\ Divides(a, 128)
  BY DEF Divides
<1>2. /\ Divides(a, 256) /\ Divides(a, 512) /\ Divides(a, 1024) /\ Divides(a, 2048)
      /\ Divides(a, 4096) /\ Divides(a, 8192) /\ Divides(a, 16384) /\ Divides(a, 32768)
  BY DEF Divides
<1>3. /\ Divides(a, 65536) /\ Divides(a, 131072) /\ Divides(a, 262144) /\ Divides(a, 524288)
      /\ Divides(a, 1048576) /\ Divides(a, 2097152) /\ Divides(a, 4194304) /\ Divides(a, 8388608)
  BY DEF Divides
<1>4. /\ Divides(a, 16777216) /\ Divides(a, 33554432) /\ Divides(a, 67108864)
      /\ Divides(a, 134217728) /\ Divides(a, 268435456) /\ Divides(a, 536870912)
      /\ Divides(a, 1073741824) /\ Divides(a, 2147483648) /\ Divides(a, 4294967296)
  BY DEF Divides
<1> DEFINE pow == 2 ^ t
<1>5. Power(t, pow)
  BY PowerTable
<1> HIDE DEF pow
<1>6. Divides(a, pow)
  BY <1>1, <1>2, <1>3, <1>4, <1>5 DEF Power
<1> QED BY <1>6 DEF pow

LEMMA PowersMultiply ==
    ASSUME NEW m \in 0 .. 31, NEW t \in 0 .. m
    PROVE  2 ^ (m - t) * 2 ^ t = 2 ^ m /\ 2 ^ (m + 1) = 2 * 2 ^ m
<1> DEFINE pow == 2 ^ t
           q == 2 ^ m
           r == 2 ^ (m - t)
           w == 2 ^ (m + 1)
<1>1. m - t \in 0 .. 32 /\ m + 1 \in 0 .. 32 /\ t \in 0 .. 32 /\ m \in 0 .. 32
  OBVIOUS
<1>2. Power(t, pow)
  BY <1>1, PowerTable
<1>3. Power(m, q)
  BY <1>1, PowerTable
<1>4. Power(m - t, r)
  BY <1>1, PowerTable
<1>5. Power(m + 1, w)
  BY <1>1, PowerTable
<1> HIDE DEF pow, q, r, w
<1>6. r * pow = q /\ w = 2 * q
  BY <1>2, <1>3, <1>4, <1>5, SMTT(120) DEF Power
<1> QED BY <1>6 DEF pow, q, r, w

LEMMA Quotient ==
    ASSUME NEW x \in Nat, NEW w \in Nat \ {0}, NEW r \in Nat, Divides(x, w), x < r * w
    PROVE  x \div w \in 0 .. r - 1
<1>1. PICK v \in Nat : v = x \div w /\ v * w <= x
  BY DEF Divides
<1>2. v >= r => v * w >= r * w
  OBVIOUS
<1>3. v < r
  BY <1>1, <1>2
<1> QED BY <1>1, <1>3

(* What is written of a magnitude fits the m - t bitplanes it is given,    *)
(* with either quantiser (entropy.cc: Quantize; EncodeData writes these    *)
(* bitplanes and no more).                                                 *)
THEOREM QuantisedFits ==
    ASSUME NEW g, NEW m \in 0 .. 31, NEW t \in 0 .. 31, NEW a \in Nat, g.qpih \in {0, 1}, t < m, a < 2 ^ m
    PROVE  Quantize(g, a, m, t) \in 0 .. 2 ^ (m - t) - 1
<1> DEFINE pow == 2 ^ t
           q == 2 ^ m
           r == 2 ^ (m - t)
           w == 2 ^ (m + 1)
           s == 2 ^ (m - t + 1)
<1>1. /\ m - t \in 0 .. 32 /\ m + 1 \in 0 .. 32 /\ m - t + 1 \in 0 .. 32 /\ t \in 0 .. m
      /\ t \in 0 .. 32 /\ m \in 0 .. 32
  OBVIOUS
<1>2. Power(t, pow) /\ Power(m, q) /\ Power(m - t, r) /\ Power(m + 1, w) /\ Power(m - t + 1, s)
  <2>1. Power(t, pow) /\ Power(m, q)
    BY <1>1, PowerTable
  <2>2. Power(m - t, r)
    BY <1>1, PowerTable
  <2>3. Power(m + 1, w)
    BY <1>1, PowerTable
  <2>4. Power(m - t + 1, s)
    BY <1>1, PowerTable
  <2> QED BY <2>1, <2>2, <2>3, <2>4
<1>3. Divides(a, pow)
  BY <1>1, StepOf
<1>4. a < q
  OBVIOUS
<1>5. r * pow = q /\ w = 2 * q
  BY <1>1, PowersMultiply
<1>6. CASE g.qpih = 0
  <2>1. Quantize(g, a, m, t) = a \div pow
    BY <1>6 DEF Quantize
  <2> HIDE DEF pow, q, r, w, s
  <2>2. r * pow = q /\ pow \in Nat \ {0} /\ r \in Nat
    BY <1>2, <1>5 DEF Power
  <2>3. a \div pow \in 0 .. r - 1
    BY <1>3, <1>4, <2>2, Quotient
  <2> QED BY <2>1, <2>3 DEF r
<1>7. CASE g.qpih = 1
  <2> DEFINE x == a * (s - 1) + q
  <2>1. Quantize(g, a, m, t) = x \div w
    BY <1>7 DEF Quantize
  <2>2. x \in Nat => Divides(x, w)
    BY <1>1, StepOf
  <2> HIDE DEF pow, q, r, w, s
  <2>3. r * pow = q /\ w = 2 * q /\ s = 2 * r /\ q \in Nat \ {0} /\ r \in Nat \ {0}
    <3>2. m - t \in 0 .. 31 /\ s = 2 * r
      BY <1>1, <1>2 DEF Power
    <3> QED BY <1>2, <1>5, <3>2 DEF Power
  <2>4. \A b, d, e \in Nat : b <= d => b * e <= d * e
    OBVIOUS
  <2>5. s - 1 \in Nat /\ q - 1 \in Nat /\ a <= q - 1
    BY <1>4, <2>3
  <2>6. a * (s - 1) <= (q - 1) * (s - 1)
    BY <2>4, <2>5
  <2>7. (q - 1) * (s - 1) = q * s - q - s + 1 /\ q * s = r * w
    BY <2>3
  <2>8. PICK b \in Nat : b = a * (s - 1)
    BY <2>5
  <2>9. PICK d \in Nat : d = r * w /\ d = q * s
    BY <2>3, <2>7
  <2>10. x \in Nat /\ x < r * w
    BY <2>3, <2>6, <2>7, <2>8, <2>9
  <2> HIDE DEF x
  <2>11. w \in Nat \ {0} /\ x \div w \in 0 .. r - 1
    BY <2>2, <2>3, <2>10, Quotient
  <2> QED BY <2>1, <2>11 DEF r
<1> QED BY <1>6, <1>7

(* Within one step of truncation t, and exact where nothing is truncated.  *)
NearTo(c, read, t) == read \in Int /\ c - read < 2 ^ t /\ read - c < 2 ^ t /\ (t = 0 => read = c)

(* Annex D with a dead zone: a coefficient is decoded to within one step of*)
(* what was coded, and exactly when nothing is truncated, for every        *)
(* bitplane count and truncation (entropy.cc: Quantize, Dequantize).       *)
THEOREM DeadZoneWithinStep ==
    ASSUME NEW g, NEW m \in 0 .. 31, NEW t \in 0 .. 31, NEW a \in Nat, NEW negative \in BOOLEAN,
           g.qpih = 0, a < 2 ^ m
    PROVE  NearTo(IF negative THEN -a ELSE a, Dequantize(g, Quantize(g, a, m, t), negative, m, t), t)
<1> DEFINE c == IF negative THEN -a ELSE a
           read == Dequantize(g, Quantize(g, a, m, t), negative, m, t)
           pow == 2 ^ t
           v == a \div pow
<1>0. m <= t => a < pow
  <2>1. 2 ^ m \in Nat \ {0} /\ 2 ^ t \in Nat \ {0} /\ (m <= t => 2 ^ m <= 2 ^ t)
    BY PowersGrow
  <2> QED BY <2>1
<1>1. /\ pow \in Nat \ {0} /\ v \in Nat /\ v * pow <= a /\ a < v * pow + pow /\ pow \div 2 < pow /\ pow \div 2 \in Nat
  <2>1. t \in 0 .. 32 /\ t \in 0 .. 31
    OBVIOUS
  <2>2. Divides(a, pow)
    BY <2>1, StepOf
  <2>3. pow \in Nat \ {0}
    BY <2>1, PowersGrow
  <2> HIDE DEF pow
  <2> QED BY <2>2, <2>3 DEF Divides
<1>2. Quantize(g, a, m, t) = v
  BY DEF Quantize
<1>3. read = IF m <= t \/ v = 0 THEN 0 ELSE IF negative THEN -(v * pow + pow \div 2) ELSE v * pow + pow \div 2
  BY <1>2 DEF Dequantize
<1>4. t = 0 => pow = 1
  OBVIOUS
<1> HIDE DEF pow, read
<1>5. v = 0 => v * pow = 0
  BY <1>1
<1> HIDE DEF v
<1>6. PICK b \in Nat : b = v * pow
  BY <1>1
<1>7. PICK half \in Nat : half = pow \div 2
  BY <1>1
<1>8. c - read < pow /\ read - c < pow
  <2>1. pow \in Nat \ {0} /\ half \in Nat /\ half < pow /\ b <= a /\ a < b + pow /\ (v = 0 => b = 0)
    BY <1>1, <1>5, <1>6, <1>7
  <2>2. read = IF m <= t \/ v = 0 THEN 0 ELSE IF negative THEN -(b + half) ELSE b + half
    BY <1>3, <1>6, <1>7
  <2>3. CASE m <= t \/ v = 0
    <3>1. read = 0 /\ a < pow
      BY <1>0, <2>1, <2>2, <2>3
    <3> QED BY <2>1, <3>1
  <2>4. CASE ~(m <= t \/ v = 0)
    BY <2>1, <2>2, <2>4
  <2> QED BY <2>3, <2>4
<1>9. ASSUME t = 0 PROVE read = c
  BY <1>9, <1>0, <1>1, <1>3, <1>4, <1>5
<1>10. read \in Int
  BY <1>3, <1>6, <1>7
<1> QED BY <1>8, <1>9, <1>10 DEF pow, read, NearTo

-----------------------------------------------------------------------------
(* Bits, most significant first.                                           *)
Bit == {0, 1}
LEMMA BitOf ==
    ASSUME NEW v \in Int, NEW t \in 0 .. 32
    PROVE  (v \div 2 ^ t) % 2 \in Bit
<1> DEFINE pow == 2 ^ t
<1>1. pow \in Nat \ {0}
  <2>1. Power(t, pow)
    BY PowerTable
  <2> HIDE DEF pow
  <2> QED BY <2>1 DEF Power
<1> HIDE DEF pow
<1>2. v \div pow \in Int
  BY <1>1
<1>3. \A i \in Int : i % 2 \in {0, 1}
  OBVIOUS
<1> QED BY <1>2, <1>3 DEF pow, Bit

LEMMA PutBitsFacts ==
    ASSUME NEW v \in Int, NEW n \in 0 .. 32
    PROVE  PutBits(v, n) \in Seq(Bit) /\ Len(PutBits(v, n)) = n
<1> DEFINE e(i) == IF n - i > 30 THEN 0 ELSE (v \div 2 ^ (n - i)) % 2
<1>1. \A i \in 1 .. n : e(i) \in Bit
  <2> SUFFICES ASSUME NEW i \in 1 .. n, ~(n - i > 30) PROVE (v \div 2 ^ (n - i)) % 2 \in Bit
    BY DEF Bit
  <2>1. n - i \in 0 .. 32
    OBVIOUS
  <2> QED BY <2>1, BitOf
<1>2. PutBits(v, n) = [i \in 1 .. n |-> e(i)]
  BY DEF PutBits
<1> HIDE DEF e
<1>3. n \in Nat
  OBVIOUS
<1> QED BY <1>1, <1>2, <1>3

(* Half a quotient is the quotient by twice as much.                       *)
LEMMA NotAbove ==
    ASSUME NEW a \in Int, NEW b \in Nat \ {0}, NEW d \in Int, NEW r \in Int, d * b <= a, a < r * b
    PROVE  d < r
<1>1. d >= r => d * b >= r * b
  OBVIOUS
<1>2. d * b \in Int /\ r * b \in Int
  OBVIOUS
<1> QED BY <1>1, <1>2
LEMMA QuotientIs ==
    ASSUME NEW a \in Nat, NEW b \in Nat \ {0}, NEW q \in Nat, q * b <= a, a < (q + 1) * b
    PROVE  a \div b = q
<1> DEFINE d == a \div b
<1>1. d \in Nat /\ d * b <= a /\ a < (d + 1) * b
  OBVIOUS
<1> HIDE DEF d
<1>2. d < q + 1
  BY <1>1, NotAbove
<1>3. q < d + 1
  BY <1>1, NotAbove
<1> QED BY <1>1, <1>2, <1>3 DEF d
LEMMA ByTwo ==
    ASSUME NEW q \in Nat, NEW k \in Nat, NEW m \in Nat, k = q \div 2, m = q % 2
    PROVE  q = 2 * k + m /\ m <= 1
OBVIOUS
LEMMA HalvesAt ==
    ASSUME NEW v \in Nat, NEW w \in Nat \ {0}
    PROVE  v \div w \in Nat /\ v \div (2 * w) \in Nat /\ v \div w = 2 * (v \div (2 * w)) + ((v \div w) % 2)
<1> DEFINE q == v \div w
           k == q \div 2
           m == q % 2
<1>1. q \in Nat /\ q * w <= v /\ v < (q + 1) * w
  OBVIOUS
<1> HIDE DEF q
<1>2. k \in Nat /\ m \in Nat
  BY <1>1
<1>3. q = 2 * k + m /\ m <= 1
  BY <1>1, <1>2, ByTwo
<1> HIDE DEF k, m
<1>4. k * (2 * w) <= v
  <2>1. q * w = k * (2 * w) + m * w /\ m * w \in Nat /\ k * (2 * w) \in Nat
    BY <1>2, <1>3
  <2> QED BY <1>1, <2>1
<1>5. v < (k + 1) * (2 * w)
  <2>1. (k + 1) * (2 * w) = (q + 1) * w + (1 - m) * w
    BY <1>2, <1>3
  <2>2. (1 - m) * w \in Nat /\ (q + 1) * w \in Nat
    <3>1. 1 - m \in Nat
      BY <1>2, <1>3
    <3> QED BY <1>1, <3>1
  <2> QED BY <1>1, <2>1, <2>2
<1>6. v \div (2 * w) = k
  <2>1. 2 * w \in Nat \ {0}
    OBVIOUS
  <2> QED BY <1>2, <1>4, <1>5, <2>1, QuotientIs
<1>7. q = 2 * k + (q % 2)
  BY <1>3, Zenon DEF m
<1> DEFINE twice == 2 * w
<1> HIDE DEF twice
<1>8. v \div twice = k
  BY <1>6 DEF twice
<1>9. v \div twice \in Nat /\ q = 2 * (v \div twice) + (q % 2)
  BY <1>2, <1>7, <1>8
<1> QED BY <1>1, <1>9 DEF q, twice

(* What BitWriter::Put has written, wherever it stands, BitReader::Bits    *)
(* reads back.                                                             *)
Holds(bits, at, v, n) == \A k \in 1 .. n : bits[at + k] = PutBits(v, n)[k]
LEMMA BitsRoundTrip ==
    ASSUME NEW n \in 0 .. 32, NEW v \in Nat, v < 2 ^ n, v < 2 ^ 31,
           NEW bits, NEW at \in Nat, Holds(bits, at, v, n)
    PROVE  GetBits(bits, at, n) = v
<1> DEFINE Q(k) == v \div 2 ^ (n - k)
           Value(f) == f = [k \in 0 .. n |-> IF k = 0 THEN 0 ELSE 2 * f[k - 1] + bits[at + k]]
           value == CHOOSE f : Value(f)
<1>0. n \in Nat /\ n \in 0 .. n
  OBVIOUS
<1>1. Q(0) = 0 /\ Q(n) = v
  <2> DEFINE pow == 2 ^ n
  <2>1. Q(0) = v \div pow /\ Q(n) = v \div 1
    <3>1. n - 0 = n /\ n - n = 0 /\ 2 ^ 0 = 1
      OBVIOUS
    <3> QED BY <3>1
  <2>2. Power(n, pow)
    BY PowerTable
  <2>3. v < pow
    OBVIOUS
  <2> HIDE DEF pow, Q
  <2>4. pow \in Nat \ {0}
    BY <2>2 DEF Power
  <2>5. v \div pow = 0 /\ v \div 1 = v
    BY <2>3, <2>4
  <2> QED BY <2>1, <2>5
<1>2. ASSUME NEW k \in 1 .. n PROVE Q(k) = 2 * Q(k - 1) + bits[at + k] /\ Q(k) \in Nat /\ Q(k - 1) \in Nat
  <2> DEFINE t == n - k
  <2>1. t \in 0 .. 31 /\ n - (k - 1) = t + 1 /\ t \in 0 .. 32 /\ t + 1 \in 0 .. 32
    OBVIOUS
  <2>2. /\ v \div 2 ^ t \in Nat /\ v \div 2 ^ (t + 1) \in Nat
        /\ v \div 2 ^ t = 2 * (v \div 2 ^ (t + 1)) + ((v \div 2 ^ t) % 2)
    <3> DEFINE w == 2 ^ t
               twice == 2 ^ (t + 1)
    <3>1. Power(t, w) /\ Power(t + 1, twice)
      BY <2>1, PowerTable
    <3> HIDE DEF w, twice, t
    <3>2. twice = 2 * w /\ w \in Nat \ {0}
      BY <3>1 DEF Power
    <3>3. v \div w \in Nat /\ v \div (2 * w) \in Nat /\ v \div w = 2 * (v \div (2 * w)) + ((v \div w) % 2)
      BY <3>2, HalvesAt
    <3> QED BY <3>2, <3>3 DEF w, twice
  <2>4. bits[at + k] = IF t > 30 THEN 0 ELSE (v \div 2 ^ t) % 2
    BY DEF Holds, PutBits
  <2>5. t > 30 => v \div 2 ^ t = 0
    <3>1. t > 30 => t = 31
      BY <2>1
    <3> DEFINE pow == 2 ^ 31
    <3>2. Power(31, pow) /\ v < pow
      BY PowerTable
    <3> HIDE DEF pow
    <3>3. pow \in Nat \ {0}
      BY <3>2 DEF Power
    <3>4. v \div pow = 0
      BY <3>2, <3>3
    <3> HIDE DEF t
    <3> QED BY <3>1, <3>4 DEF pow
  <2>6. Q(k) = v \div 2 ^ t /\ Q(k - 1) = v \div 2 ^ (t + 1)
    BY <2>1
  <2> HIDE DEF Q, t
  <2> DEFINE a == v \div 2 ^ t
             b == v \div 2 ^ (t + 1)
  <2>7. a \in Nat /\ b \in Nat /\ a = 2 * b + (a % 2) /\ bits[at + k] = (IF t > 30 THEN 0 ELSE a % 2)
        /\ (t > 30 => a = 0)
    BY <2>2, <2>4, <2>5
  <2> HIDE DEF a, b
  <2>8. a = 2 * b + bits[at + k]
    <3> DEFINE x == bits[at + k]
               m == a % 2
    <3>1. x = (IF t > 30 THEN 0 ELSE m) /\ a = 2 * b + m
      BY <2>7, Zenon
    <3>2. t > 30 => m = 0
      <4>1. \A i \in Nat : i = 0 => i % 2 = 0
        OBVIOUS
      <4> QED BY <2>7, <4>1
    <3> HIDE DEF x, m
    <3>3. x = m
      BY <3>1, <3>2
    <3>4. a = 2 * b + x
      BY <3>1, <3>3
    <3> QED BY <3>4 DEF x
  <2> QED BY <2>6, <2>7, <2>8 DEF a, b
<1> HIDE DEF Q
<1>3. Value([k \in 0 .. n |-> Q(k)])
  <2> DEFINE r == [k \in 0 .. n |-> Q(k)]
  <2> SUFFICES ASSUME NEW k \in 0 .. n PROVE r[k] = IF k = 0 THEN 0 ELSE 2 * r[k - 1] + bits[at + k]
    <3> HIDE DEF r
    <3> QED BY DEF Value, r
  <2>1. CASE k = 0
    BY <2>1, <1>1
  <2>2. CASE k # 0
    <3>1. k \in 1 .. n /\ k - 1 \in 0 .. n
      BY <2>2
    <3> QED BY <2>2, <3>1, <1>2
  <2> QED BY <2>1, <2>2
<1>4. Value(value)
  <2> HIDE DEF Value
  <2> QED BY <1>3
<1>5. GetBits(bits, at, n) = value[n]
  BY DEF GetBits
<1> HIDE DEF value
<1>6. value[0] = 0 /\ \A k \in 1 .. n : value[k] = 2 * value[k - 1] + bits[at + k]
  BY <1>4
<1> DEFINE A == {k \in 0 .. n : value[k] = Q(k)}
<1>7. 0 \in A
  BY <1>1, <1>6
<1>8. \A k \in 0 .. n - 1 : k \in A => k + 1 \in A
  <2> SUFFICES ASSUME NEW k \in 0 .. n - 1, value[k] = Q(k) PROVE value[k + 1] = Q(k + 1)
    OBVIOUS
  <2>1. k + 1 \in 1 .. n /\ (k + 1) - 1 = k
    OBVIOUS
  <2>2. value[k + 1] = 2 * value[k] + bits[at + (k + 1)]
    BY <2>1, <1>6
  <2>3. Q(k + 1) = 2 * Q(k) + bits[at + (k + 1)]
    BY <2>1, <1>2
  <2> QED BY <2>2, <2>3
<1> HIDE DEF A
<1>9. 0 .. n \subseteq A
  BY <1>0, <1>7, <1>8, UpTo
<1> QED BY <1>0, <1>1, <1>5, <1>9 DEF A

(* The fields of a header segment, as they are listed by its writer and    *)
(* its parser.                                                             *)
IsFieldList(fields, n) ==
    /\ Len(fields) = n /\ DOMAIN fields = 1 .. n
    /\ \A i \in 1 .. n : fields[i][2] \in 0 .. 32
    /\ \A i, j \in 1 .. n : fields[i][1] = fields[j][1] => i = j
HasFields(record, fields, n) == \A i \in 1 .. n : record[fields[i][1]] \in Int
Fields(fields, record) == [i \in DOMAIN fields |-> PutBits(record[fields[i][1]], fields[i][2])]
Widths(fields) == [i \in DOMAIN fields |-> fields[i][2]]

LEMMA IsSequence ==
    ASSUME NEW n \in Nat, NEW f, f = [i \in 1 .. n |-> f[i]]
    PROVE  Len(f) = n /\ DOMAIN f = 1 .. n
<1> DEFINE S == {f[i] : i \in 1 .. n}
<1>1. \A i \in 1 .. n : f[i] \in S
  OBVIOUS
<1> HIDE DEF S
<1>2. f \in [1 .. n -> S]
  BY <1>1
<1>3. f \in Seq(S)
  BY <1>2
<1> QED BY <1>2, <1>3

LEMMA SumIsNat ==
    ASSUME NEW n \in Nat, NEW seq, \A k \in 1 .. n : seq[k] \in Nat, NEW sum, IsSum(sum, n, seq)
    PROVE  \A k \in 0 .. n : sum[k] \in Nat
<1> DEFINE A == {k \in 0 .. n : sum[k] \in Nat}
<1>1. 0 \in A
  BY DEF IsSum
<1>2. \A k \in 0 .. n - 1 : k \in A => k + 1 \in A
  <2> SUFFICES ASSUME NEW k \in 0 .. n - 1, sum[k] \in Nat PROVE sum[k + 1] \in Nat
    OBVIOUS
  <2>1. k + 1 \in 1 .. n /\ (k + 1) - 1 = k
    OBVIOUS
  <2> QED BY <2>1 DEF IsSum
<1> HIDE DEF A
<1>3. 0 .. n \subseteq A
  BY <1>1, <1>2, UpTo
<1> QED BY <1>3 DEF A

LEMMA PutFieldsFacts ==
    ASSUME NEW n \in Nat \ {0}, NEW fields, IsFieldList(fields, n),
           NEW record, HasFields(record, fields, n)
    PROVE  /\ PutFields(fields, record) \in Seq(Bit) /\ Ints(Widths(fields)) /\ Len(Widths(fields)) = n
           /\ Len(PutFields(fields, record)) = Total(Widths(fields))
           /\ \A sum : IsSum(sum, n, Widths(fields)) =>
                \A i \in 1 .. n : Holds(PutFields(fields, record), sum[i - 1], record[fields[i][1]], fields[i][2])
<1> DEFINE seqs == Fields(fields, record)
<1>1. /\ Len(seqs) = n
      /\ \A i \in 1 .. n : seqs[i] = PutBits(record[fields[i][1]], fields[i][2]) /\ seqs[i] \in Seq(Bit)
                           /\ Len(seqs[i]) = fields[i][2]
  <2>1. ASSUME NEW i \in 1 .. n
        PROVE  /\ PutBits(record[fields[i][1]], fields[i][2]) \in Seq(Bit)
               /\ Len(PutBits(record[fields[i][1]], fields[i][2])) = fields[i][2]
    <3>1. fields[i][2] \in 0 .. 32 /\ record[fields[i][1]] \in Int
      BY DEF IsFieldList, HasFields
    <3> QED BY <3>1, PutBitsFacts
  <2>2. seqs = [i \in 1 .. n |-> PutBits(record[fields[i][1]], fields[i][2])]
    BY DEF Fields, IsFieldList
  <2> HIDE DEF seqs
  <2>3. seqs = [i \in 1 .. n |-> seqs[i]]
    BY <2>2
  <2>4. Len(seqs) = n
    BY <2>3, IsSequence
  <2> QED BY <2>1, <2>2, <2>4
<1>2. PutFields(fields, record) = FlattenSeq(seqs)
  BY DEF PutFields, Fields
<1>3. Lengths(seqs) = Widths(fields)
  BY <1>1 DEF Lengths, Widths, IsFieldList
<1> HIDE DEF seqs
<1>4. /\ FlattenSeq(seqs) \in Seq(Bit) /\ Ints(Lengths(seqs)) /\ Len(Lengths(seqs)) = n
      /\ Len(FlattenSeq(seqs)) = Total(Lengths(seqs))
      /\ \A sum : IsSum(sum, n, Lengths(seqs)) =>
           \A k \in 1 .. n : \A j \in 1 .. Len(seqs[k]) : FlattenSeq(seqs)[sum[k - 1] + j] = seqs[k][j]
  <2>1. \A k \in 1 .. n : seqs[k] \in Seq(Bit)
    BY <1>1
  <2> QED BY <1>1, <2>1, FlattenPlaces
<1>5. ASSUME NEW sum, IsSum(sum, n, Widths(fields)), NEW i \in 1 .. n
      PROVE  Holds(PutFields(fields, record), sum[i - 1], record[fields[i][1]], fields[i][2])
  <2>1. \A j \in 1 .. Len(seqs[i]) : FlattenSeq(seqs)[sum[i - 1] + j] = seqs[i][j]
    BY <1>3, <1>4, <1>5
  <2>2. Len(seqs[i]) = fields[i][2] /\ seqs[i] = PutBits(record[fields[i][1]], fields[i][2])
    BY <1>1
  <2> QED BY <1>2, <2>1, <2>2 DEF Holds
<1> QED BY <1>2, <1>3, <1>4, <1>5

(* Where each field begins, as its parser counts.                          *)
AreStarts(start, fields) ==
    start = [i \in 1 .. Len(fields) |-> IF i = 1 THEN 0 ELSE start[i - 1] + fields[i - 1][2]]
LEMMA WidthsAreNat ==
    ASSUME NEW n \in Nat \ {0}, NEW fields, IsFieldList(fields, n)
    PROVE  \A k \in 1 .. n : Widths(fields)[k] \in Nat
<1> SUFFICES ASSUME NEW k \in 1 .. n PROVE Widths(fields)[k] \in Nat
  OBVIOUS
<1>1. fields[k][2] \in 0 .. 32 /\ k \in DOMAIN fields
  BY DEF IsFieldList
<1>2. Widths(fields)[k] = fields[k][2]
  BY <1>1, Zenon DEF Widths
<1>3. \A i \in 0 .. 32 : i \in Nat
  OBVIOUS
<1> QED BY <1>1, <1>2, <1>3, Zenon
LEMMA FieldStarts ==
    ASSUME NEW n \in Nat \ {0}, NEW fields, IsFieldList(fields, n), NEW sum, IsSum(sum, n, Widths(fields)),
           NEW start, AreStarts(start, fields)
    PROVE  \A i \in 1 .. n : start[i] = sum[i - 1]
<1> DEFINE A == {k \in 0 .. n - 1 : start[k + 1] = sum[k]}
<1>1. /\ sum[0] = 0 /\ \A k \in 1 .. n : sum[k] = sum[k - 1] + fields[k][2]
      /\ Len(fields) = n
  BY DEF IsSum, Widths, IsFieldList
<1>2. start[1] = 0 /\ \A i \in 2 .. n : start[i] = start[i - 1] + fields[i - 1][2]
  <2>1. 1 \in 1 .. Len(fields) /\ \A i \in 2 .. n : i \in 1 .. Len(fields) /\ i # 1
    BY <1>1
  <2> QED BY <2>1 DEF AreStarts
<1>3. 0 \in A
  BY <1>1, <1>2
<1>4. \A k \in 0 .. (n - 1) - 1 : k \in A => k + 1 \in A
  <2> SUFFICES ASSUME NEW k \in 0 .. (n - 1) - 1, start[k + 1] = sum[k] PROVE start[(k + 1) + 1] = sum[k + 1]
    OBVIOUS
  <2>1. (k + 1) + 1 \in 2 .. n /\ ((k + 1) + 1) - 1 = k + 1 /\ k + 1 \in 1 .. n /\ (k + 1) - 1 = k
    OBVIOUS
  <2>2. start[(k + 1) + 1] = start[k + 1] + fields[k + 1][2]
    BY <1>2, <2>1
  <2>3. sum[k + 1] = sum[k] + fields[k + 1][2]
    BY <1>1, <2>1
  <2> QED BY <2>2, <2>3
<1> HIDE DEF A
<1>5. n - 1 \in Nat
  OBVIOUS
<1>6. 0 .. n - 1 \subseteq A
  BY <1>3, <1>4, <1>5, UpTo
<1>7. ASSUME NEW i \in 1 .. n PROVE start[i] = sum[i - 1]
  <2>1. i - 1 \in A /\ (i - 1) + 1 = i
    BY <1>6
  <2> QED BY <2>1 DEF A
<1> QED BY <1>7

(* The parser of a segment that lists the fields its writer lists reads    *)
(* back every value that fits its field, whatever the fields and their     *)
(* widths (headers.cc: WritePih and ParsePih, and the other segments).     *)
THEOREM FieldsRoundTrip ==
    ASSUME NEW n \in Nat \ {0}, NEW fields, IsFieldList(fields, n), NEW record,
           HasFields(record, fields, n), NEW i \in 1 .. n,
           record[fields[i][1]] \in Nat, record[fields[i][1]] < 2 ^ fields[i][2], record[fields[i][1]] < 2 ^ 31
    PROVE  GetFields(fields, PutFields(fields, record))[fields[i][1]] = record[fields[i][1]]
<1> DEFINE bits == PutFields(fields, record)
           Start(f) == f = [k \in 1 .. Len(fields) |-> IF k = 1 THEN 0 ELSE f[k - 1] + fields[k - 1][2]]
           start == CHOOSE f : Start(f)
           name == fields[i][1]
<1>1. PICK sum : IsSum(sum, n, Widths(fields))
  <2>1. Ints(Widths(fields)) /\ Len(Widths(fields)) = n
    BY PutFieldsFacts
  <2> QED BY <2>1, RunningSum DEF Ints
<1>2. Holds(bits, sum[i - 1], record[name], fields[i][2])
  BY <1>1, PutFieldsFacts
<1>3. Start([k \in 1 .. Len(fields) |-> sum[k - 1]])
  <2> DEFINE f == [k \in 1 .. Len(fields) |-> sum[k - 1]]
  <2>0. Len(fields) = n
    BY DEF IsFieldList
  <2> SUFFICES ASSUME NEW k \in 1 .. n
               PROVE  f[k] = IF k = 1 THEN 0 ELSE f[k - 1] + fields[k - 1][2]
    <3> HIDE DEF f
    <3> QED BY <2>0 DEF Start, f
  <2>1. sum[0] = 0 /\ \A j \in 1 .. n : sum[j] = sum[j - 1] + fields[j][2]
    BY <1>1 DEF IsSum, Widths, IsFieldList
  <2>2. CASE k = 1
    BY <2>0, <2>1, <2>2
  <2>3. CASE k # 1
    <3>1. k - 1 \in 1 .. n
      BY <2>3
    <3>2. sum[k - 1] = sum[(k - 1) - 1] + fields[k - 1][2]
      BY <2>1, <3>1
    <3>3. f[k] = sum[k - 1] /\ f[k - 1] = sum[(k - 1) - 1]
      BY <2>0, <3>1
    <3> HIDE DEF f
    <3> QED BY <2>3, <3>2, <3>3
  <2> QED BY <2>2, <2>3
<1>4. Start(start)
  <2> HIDE DEF Start
  <2> QED BY <1>3
<1>5. (CHOOSE k \in DOMAIN fields : fields[k][1] = name) = i
  BY DEF IsFieldList
<1>6. GetFields(fields, bits)[name] = GetBits(bits, start[i], fields[i][2])
  <2>1. name \in {fields[k][1] : k \in DOMAIN fields}
    BY DEF IsFieldList
  <2> HIDE DEF bits, name
  <2> QED BY <1>5, <2>1 DEF GetFields
<1> HIDE DEF start, bits
<1>7. start[i] = sum[i - 1]
  <2>1. AreStarts(start, fields)
    BY <1>4 DEF AreStarts
  <2>2. \A k \in 1 .. n : start[k] = sum[k - 1]
    BY <1>1, <2>1, FieldStarts
  <2> QED BY <2>2
<1>8. sum[i - 1] \in Nat
  <2>1. \A k \in 1 .. n : Widths(fields)[k] \in Nat
    BY WidthsAreNat
  <2>2. \A k \in 0 .. n : sum[k] \in Nat
    BY <1>1, <2>1, SumIsNat
  <2> QED BY <2>2
<1>9. fields[i][2] \in 0 .. 32 /\ record[name] < 2 ^ fields[i][2] /\ record[name] < 2 ^ 31 /\ record[name] \in Nat
  BY DEF IsFieldList
<1> HIDE DEF name
<1>10. GetBits(bits, sum[i - 1], fields[i][2]) = record[name]
  BY <1>2, <1>8, <1>9, BitsRoundTrip
<1> QED BY <1>6, <1>7, <1>10 DEF bits, name

-----------------------------------------------------------------------------
(* The headers of an encoder: what WriteHeaders relies on.                 *)
PihFields ==
    << <<"lcod", 32>>, <<"ppih", 16>>, <<"plev", 16>>, <<"wf", 16>>, <<"hf", 16>>, <<"cw", 16>>,
       <<"hsl", 16>>, <<"nc", 8>>, <<"ng", 8>>, <<"ss", 8>>, <<"bw", 8>>, <<"fq", 4>>, <<"br", 4>>,
       <<"fslc", 1>>, <<"ppoc", 3>>, <<"cpih", 4>>, <<"nlx", 4>>, <<"nly", 4>>, <<"lh", 1>>,
       <<"rl", 1>>, <<"qpih", 2>>, <<"fs", 2>>, <<"rm", 2>> >>
CtsFields == << <<"reserved", 4>>, <<"cf", 4>>, <<"e1", 4>>, <<"e2", 4>> >>
Offset == (0 .. 2 ^ 16 - 1) \X (0 .. 2 ^ 16 - 1)
AtMostOne(S, T) == S = {} \/ \E x \in T : S = {x}
FittedPih(g) ==
    /\ g.lcod \in Int /\ g.ppih \in Int /\ g.plev \in Int /\ g.wf \in Int /\ g.hf \in Int /\ g.cw \in Int
    /\ g.hsl \in Int /\ g.nc \in Int /\ g.ng \in Int /\ g.ss \in Int /\ g.bw \in Int /\ g.fq \in Int
    /\ g.br \in Int /\ g.fslc \in Int /\ g.ppoc \in Int /\ g.cpih \in Int /\ g.nlx \in Int /\ g.nly \in Int
    /\ g.lh \in Int /\ g.rl \in Int /\ g.qpih \in Int /\ g.fs \in Int /\ g.rm \in Int
FittedLayout(g) ==
    /\ g.nc \in 1 .. 8 /\ g.sd \in 0 .. 7 /\ g.sd < g.nc
    /\ g.nlx \in 1 .. 8 /\ g.nly \in 0 .. 8 /\ g.nly <= g.nlx
    /\ g.wf \in Nat \ {0} /\ g.hf \in Nat \ {0} /\ g.hsl \in Nat \ {0} /\ g.cw \in Nat
FittedComponents(g) == \A i \in 0 .. g.nc - 1 : g.depth[i] \in Int /\ g.sx[i] \in Int /\ g.sy[i] \in Int
FittedWeights(g) == \A b \in Bands(g) : g.weights[b].gain \in Int /\ g.weights[b].priority \in Int
FittedOptions(g) ==
    /\ g.cap \subseteq 0 .. 31 /\ g.wgr = {} /\ g.nlt = {} /\ g.tpc = {} /\ g.comments = <<>>
    /\ AtMostOne(g.cts, [cf : 0 .. 3, e1 : 0 .. 3, e2 : 0 .. 3])
    /\ AtMostOne(g.crg, [0 .. g.nc - 1 -> Offset])
Fitted(g) == FittedPih(g) /\ FittedLayout(g) /\ FittedComponents(g) /\ FittedWeights(g) /\ FittedOptions(g)

LEMMA PihList == IsFieldList(PihFields, 23)
<1>1. Len(PihFields) = 23 /\ DOMAIN PihFields = 1 .. 23
  BY DEF PihFields
<1>2. \A i \in 1 .. 23 : PihFields[i][2] \in 0 .. 32
  BY DEF PihFields
<1>3. \A i, j \in 1 .. 23 : PihFields[i][1] = PihFields[j][1] => i = j
  BY DEF PihFields
<1> QED BY <1>1, <1>2, <1>3 DEF IsFieldList
LEMMA CtsList == IsFieldList(CtsFields, 4)
<1>1. Len(CtsFields) = 4 /\ DOMAIN CtsFields = 1 .. 4
  BY DEF CtsFields
<1>2. \A i \in 1 .. 4 : CtsFields[i][2] \in 0 .. 32
  BY DEF CtsFields
<1>3. \A i, j \in 1 .. 4 : CtsFields[i][1] = CtsFields[j][1] => i = j
  BY DEF CtsFields
<1> QED BY <1>1, <1>2, <1>3 DEF IsFieldList

LEMMA AtMostOneInSeq ==
    /\ SetToSeq({}) = <<>>
    /\ \A x : SetToSeq({x}) = <<x>>
<1>1. SetToSeq({}) = <<>>
  <2>1. Cardinality({}) = 0
    BY FS_EmptySet
  <2>2. \A f \in [1 .. 0 -> {}] : f = <<>>
    OBVIOUS
  <2>3. <<>> \in [1 .. 0 -> {}] /\ IsInjective(<<>>)
    BY DEF IsInjective
  <2> QED BY <2>1, <2>2, <2>3 DEF SetToSeq
<1>2. ASSUME NEW x PROVE SetToSeq({x}) = <<x>>
  <2>1. Cardinality({x}) = 1
    BY FS_Singleton
  <2>2. \A f \in [1 .. 1 -> {x}] : f = <<x>>
    OBVIOUS
  <2>3. <<x>> \in [1 .. 1 -> {x}] /\ IsInjective(<<x>>)
    BY DEF IsInjective
  <2> QED BY <2>1, <2>2, <2>3 DEF SetToSeq
<1> QED BY <1>1, <1>2

HeaderPieces == {[marker |-> "SOC"]} \cup {Segment(m, bits) : m \in HeaderMarkers, bits \in Seq(Bit)}
LEMMA IsPiece ==
    ASSUME NEW m \in HeaderMarkers, NEW bits \in Seq(Bit)
    PROVE  Segment(m, bits) \in HeaderPieces
BY DEF HeaderPieces

LEMMA Numbers ==
    ASSUME NEW g, Fitted(g)
    PROVE  /\ NumBands(g) \in Nat \ {0} /\ PrecinctsPerRow(g) \in Nat \ {0} /\ PrecinctRows(g) \in Nat \ {0}
           /\ NumPrecincts(g) \in Nat \ {0} /\ NumSlices(g) \in Nat \ {0}
<1>0. ASSUME NEW a \in Nat \ {0}, NEW b \in Nat \ {0} PROVE CeilDiv(a, b) \in Nat \ {0}
  <2> DEFINE c == (a + b) - 1
  <2>1. c \in Nat /\ c >= b
    OBVIOUS
  <2>2. CeilDiv(a, b) = c \div b
    BY DEF CeilDiv
  <2> HIDE DEF c
  <2>3. c \div b >= 1 /\ c \div b \in Nat
    BY <2>1
  <2> QED BY <2>2, <2>3
<1>1. /\ g.nc \in 1 .. 8 /\ g.sd \in 0 .. 7 /\ g.sd < g.nc
      /\ g.nlx \in 1 .. 8 /\ g.nly \in 0 .. 8 /\ g.nly <= g.nlx
      /\ g.wf \in Nat \ {0} /\ g.hf \in Nat \ {0} /\ g.hsl \in Nat \ {0} /\ g.cw \in Nat
  BY DEF Fitted, FittedLayout
<1>2. NumBands(g) \in Nat \ {0}
  <2> DEFINE d == Decomposed(g)
             n == NBeta(g)
  <2>1. d \in Nat \ {0} /\ n \in Nat \ {0}
    <3>1. \A nc \in 1 .. 8, sd \in 0 .. 7 : sd < nc => nc - sd \in Nat \ {0}
      OBVIOUS
    <3>2. \A nly \in 0 .. 8, nlx \in 1 .. 8 : 2 * nly + nlx + 1 \in Nat \ {0}
      OBVIOUS
    <3> QED BY <1>1, <3>1, <3>2, Zenon DEF Decomposed, NBeta
  <2>2. NumBands(g) = d * n + g.sd
    BY DEF NumBands
  <2> HIDE DEF d, n
  <2>3. d * n \in Nat \ {0}
    BY <2>1
  <2> DEFINE dn == d * n
  <2> HIDE DEF dn
  <2>4. dn \in Nat \ {0} /\ g.sd \in Nat
    BY <1>1, <2>3 DEF dn
  <2>5. dn + g.sd \in Nat \ {0}
    BY <2>4
  <2> QED BY <2>2, <2>5 DEF dn
<1>3. 2 ^ g.nlx \in Nat \ {0} /\ 2 ^ g.nly \in Nat \ {0}
  <2>1. \A t \in 0 .. 31 : 2 ^ t \in Nat \ {0}
    BY PowersGrow
  <2>2. g.nlx \in 0 .. 31 /\ g.nly \in 0 .. 31
    BY <1>1
  <2> QED BY <2>1, <2>2
<1>4. ColumnWidth(g) \in Nat \ {0}
  <2> DEFINE pow == 2 ^ g.nlx
  <2> HIDE DEF pow
  <2>1. MaxSx(g) \in 1 .. 2
    BY DEF MaxSx
  <2>2. g.cw > 0 => 8 * g.cw * MaxSx(g) * pow \in Nat \ {0}
    <3> SUFFICES ASSUME g.cw > 0 PROVE 8 * g.cw * MaxSx(g) * pow \in Nat \ {0}
      OBVIOUS
    <3>1. 8 * g.cw \in Nat \ {0}
      BY <1>1
    <3>2. 8 * g.cw * MaxSx(g) \in Nat \ {0}
      BY <2>1, <3>1
    <3> QED BY <1>3, <3>2 DEF pow
  <2> QED BY <1>1, <2>2 DEF ColumnWidth, pow
<1>5. PrecinctsPerRow(g) \in Nat \ {0} /\ PrecinctRows(g) \in Nat \ {0}
  BY <1>0, <1>1, <1>3, <1>4 DEF PrecinctsPerRow, PrecinctRows
<1>6. NumPrecincts(g) \in Nat \ {0}
  <2> DEFINE a == PrecinctsPerRow(g)
             b == PrecinctRows(g)
  <2> HIDE DEF a, b
  <2>1. a * b \in Nat \ {0}
    BY <1>5 DEF a, b
  <2> QED BY <2>1 DEF NumPrecincts, a, b
<1>7. NumSlices(g) \in Nat \ {0}
  BY <1>0, <1>1, <1>5 DEF NumSlices
<1> QED BY <1>2, <1>5, <1>6, <1>7

(* Every payload is a sequence of bits.                                    *)
LEMMA CapBits ==
    ASSUME NEW cap, cap \subseteq 0 .. 31
    PROVE  CapPayload(cap) \in Seq(Bit)
<1>1. CASE cap = {}
  BY <1>1 DEF CapPayload
<1>2. CASE cap # {}
  <2> DEFINE highest == CHOOSE i \in cap : \A j \in cap : j <= i
  <2>1. \E i \in cap : \A j \in cap : j <= i
    <3> DEFINE Below(k) == \A j \in cap : j <= 31 - k
               A == {k \in 0 .. 31 : Below(k) \/ \E i \in cap : \A j \in cap : j <= i}
    <3>1. 0 \in A
      OBVIOUS
    <3>2. \A k \in 0 .. 31 - 1 : k \in A => k + 1 \in A
      <4> SUFFICES ASSUME NEW k \in 0 .. 30, Below(k) PROVE Below(k + 1) \/ \E i \in cap : \A j \in cap : j <= i
        OBVIOUS
      <4>1. CASE 31 - k \in cap
        BY <4>1
      <4>2. CASE 31 - k \notin cap
        BY <4>2
      <4> QED BY <4>1, <4>2
    <3> HIDE DEF A
    <3>3. 31 \in Nat /\ 31 \in 0 .. 31
      OBVIOUS
    <3>4. 0 .. 31 \subseteq A
      BY <3>1, <3>2, <3>3, UpTo
    <3>5. 31 \in A
      BY <3>3, <3>4
    <3>6. ASSUME Below(31) PROVE \E i \in cap : \A j \in cap : j <= i
      <4>1. PICK i \in cap : TRUE
        BY <1>2
      <4>2. \A j \in cap : j = 0
        BY <3>6
      <4> QED BY <4>1, <4>2
    <3> QED BY <3>5, <3>6 DEF A
  <2>2. highest \in 0 .. 31
    BY <2>1
  <2> HIDE DEF highest
  <2> DEFINE n == 8 * (highest \div 8 + 1)
  <2>3. n \in Nat
    BY <2>2
  <2>4. CapPayload(cap) = [i \in 1 .. n |-> IF i - 1 \in cap THEN 1 ELSE 0]
    BY <1>2 DEF CapPayload, highest
  <2> HIDE DEF n
  <2>5. \A i \in 1 .. n : (IF i - 1 \in cap THEN 1 ELSE 0) \in Bit
    BY DEF Bit
  <2> QED BY <2>3, <2>4, <2>5
<1> QED BY <1>1, <1>2

LEMMA PihBits ==
    ASSUME NEW g, Fitted(g)
    PROVE  /\ PihPayload(g) \in Seq(Bit) /\ Ints(Widths(PihFields))
           /\ Len(PihPayload(g)) = Total(Widths(PihFields))
<1>1. HasFields(g, PihFields, 23)
  <2>1. \A i \in 1 .. 23 : PihFields[i][1] \in
            {"lcod", "ppih", "plev", "wf", "hf", "cw", "hsl", "nc", "ng", "ss", "bw", "fq", "br", "fslc", "ppoc",
             "cpih", "nlx", "nly", "lh", "rl", "qpih", "fs", "rm"}
    BY DEF PihFields
  <2>2. FittedPih(g)
    BY DEF Fitted
  <2> QED BY <2>1, <2>2 DEF HasFields, FittedPih
<1>2. PihPayload(g) = PutFields(PihFields, g)
  BY DEF PihPayload, PihFields
<1>3. 23 \in Nat \ {0}
  OBVIOUS
<1> QED BY <1>1, <1>2, <1>3, PihList, PutFieldsFacts

LEMMA TwoParts ==
    ASSUME NEW a \in Seq(Bit), NEW b \in Seq(Bit)
    PROVE  a \o b \in Seq(Bit) /\ Len(a \o b) = Len(a) + Len(b)
BY ConcatProperties

LEMMA Joined ==
    ASSUME NEW n \in Nat \ {0}, NEW seqs, seqs = [k \in 1 .. n |-> seqs[k]], \A k \in 1 .. n : seqs[k] \in Seq(Bit)
    PROVE  FlattenSeq(seqs) \in Seq(Bit)
<1>1. Len(seqs) = n
  BY IsSequence
<1> QED BY <1>1, FlattenPlaces

LEMMA CdtBits ==
    ASSUME NEW g, Fitted(g)
    PROVE  CdtPayload(g) \in Seq(Bit)
<1> DEFINE n == g.nc
           Part(k) == PutBits(g.depth[k - 1], 8) \o PutBits(g.sx[k - 1], 4) \o PutBits(g.sy[k - 1], 4)
           seqs == [k \in 1 .. n |-> Part(k)]
<1>1. n \in Nat \ {0} /\ FittedComponents(g)
  BY DEF Fitted, FittedLayout
<1>2. ASSUME NEW k \in 1 .. n PROVE Part(k) \in Seq(Bit)
  <2>1. k - 1 \in 0 .. g.nc - 1
    BY <1>1
  <2>2. g.depth[k - 1] \in Int /\ g.sx[k - 1] \in Int /\ g.sy[k - 1] \in Int
    BY <1>1, <2>1 DEF FittedComponents
  <2>3. 8 \in 0 .. 32 /\ 4 \in 0 .. 32
    OBVIOUS
  <2> QED BY <2>2, <2>3, PutBitsFacts, TwoParts
<1>3. CdtPayload(g) = FlattenSeq(seqs)
  BY DEF CdtPayload
<1>4. \A k \in 1 .. n : seqs[k] \in Seq(Bit)
  BY <1>2
<1>5. seqs = [k \in 1 .. n |-> seqs[k]]
  OBVIOUS
<1> HIDE DEF seqs, n
<1> QED BY <1>1, <1>3, <1>4, <1>5, Joined

LEMMA WeightsBits ==
    ASSUME NEW g, Fitted(g)
    PROVE  WeightsPayload(g, g.weights) \in Seq(Bit)
<1> DEFINE n == NumBands(g)
           w == g.weights
           Part(k) == IF ~Exists(g, k - 1) THEN <<>> ELSE PutBits(w[k - 1].gain, 8) \o PutBits(w[k - 1].priority, 8)
           seqs == [k \in 1 .. n |-> Part(k)]
<1>1. n \in Nat \ {0}
  BY Numbers
<1>2. ASSUME NEW k \in 1 .. n PROVE Part(k) \in Seq(Bit)
  <2>1. k - 1 \in Bands(g)
    BY <1>1 DEF Bands
  <2>3. w[k - 1].gain \in Int /\ w[k - 1].priority \in Int
    BY <2>1 DEF Fitted, FittedWeights
  <2>4. 8 \in 0 .. 32
    OBVIOUS
  <2>5. PutBits(w[k - 1].gain, 8) \o PutBits(w[k - 1].priority, 8) \in Seq(Bit)
    BY <2>3, <2>4, PutBitsFacts, TwoParts
  <2>6. <<>> \in Seq(Bit)
    OBVIOUS
  <2> QED BY <2>5, <2>6
<1>3. WeightsPayload(g, w) = FlattenSeq(seqs)
  BY DEF WeightsPayload
<1>4. \A k \in 1 .. n : seqs[k] \in Seq(Bit)
  BY <1>2
<1>5. seqs = [k \in 1 .. n |-> seqs[k]]
  OBVIOUS
<1> HIDE DEF seqs, n
<1> QED BY <1>1, <1>3, <1>4, <1>5, Joined

LEMMA Merged ==
    ASSUME NEW f, NEW g
    PROVE  /\ DOMAIN (f ++ g) = DOMAIN f \cup DOMAIN g
           /\ \A x \in DOMAIN f : (f ++ g)[x] = f[x]
           /\ \A x \in DOMAIN g : x \notin DOMAIN f => (f ++ g)[x] = g[x]
<1> DEFINE m == f ++ g
<1>1. m = [x \in DOMAIN f \cup DOMAIN g |-> IF x \in DOMAIN f THEN f[x] ELSE g[x]]
  BY DEF ++
<1> HIDE DEF m
<1>2. /\ DOMAIN m = DOMAIN f \cup DOMAIN g
      /\ \A x \in DOMAIN f : m[x] = f[x]
      /\ \A x \in DOMAIN g : x \notin DOMAIN f => m[x] = g[x]
  BY <1>1
<1> QED BY <1>2 DEF m

LEMMA CtsBits ==
    ASSUME NEW c \in [cf : 0 .. 3, e1 : 0 .. 3, e2 : 0 .. 3]
    PROVE  CtsPayload(c) \in Seq(Bit)
<1> DEFINE r == c ++ [reserved |-> 0]
<1>1. r["reserved"] = 0 /\ r["cf"] = c.cf /\ r["e1"] = c.e1 /\ r["e2"] = c.e2
  <2>1. DOMAIN c = {"cf", "e1", "e2"}
    OBVIOUS
  <2>2. DOMAIN [reserved |-> 0] = {"reserved"} /\ [reserved |-> 0]["reserved"] = 0
    OBVIOUS
  <2>3. /\ \A x \in DOMAIN c : r[x] = c[x]
        /\ "reserved" \notin DOMAIN c => r["reserved"] = [reserved |-> 0]["reserved"]
    BY <2>2, Merged, Zenon
  <2> HIDE DEF r
  <2> QED BY <2>1, <2>2, <2>3
<1>2. c.cf \in Int /\ c.e1 \in Int /\ c.e2 \in Int
  OBVIOUS
<1> HIDE DEF r
<1>3. \A i \in 1 .. 4 : CtsFields[i][1] \in {"reserved", "cf", "e1", "e2"}
  BY DEF CtsFields
<1>4. HasFields(r, CtsFields, 4)
  BY <1>1, <1>2, <1>3 DEF HasFields
<1>5. CtsPayload(c) = PutFields(CtsFields, r)
  BY DEF CtsPayload, CtsFields, r
<1>6. 4 \in Nat \ {0}
  OBVIOUS
<1> QED BY <1>4, <1>5, <1>6, CtsList, PutFieldsFacts

LEMMA CrgBits ==
    ASSUME NEW n \in Nat \ {0}, NEW c \in [0 .. n - 1 -> Offset]
    PROVE  CrgPayload(c) \in Seq(Bit)
<1> DEFINE Part(k) == PutBits(c[k - 1][1], 16) \o PutBits(c[k - 1][2], 16)
           seqs == [k \in 1 .. n |-> Part(k)]
<1>1. Cardinality(DOMAIN c) = n
  <2>1. n - 1 \in Int /\ 0 <= n - 1 /\ (n - 1) - 0 + 1 = n
    OBVIOUS
  <2>2. Cardinality(0 .. n - 1) = n
    BY <2>1, FS_Interval
  <2> QED BY <2>2
<1>2. ASSUME NEW k \in 1 .. n PROVE Part(k) \in Seq(Bit)
  <2>1. c[k - 1] \in Offset
    OBVIOUS
  <2>2. c[k - 1][1] \in Int /\ c[k - 1][2] \in Int
    <3> DEFINE Half == 0 .. 2 ^ 16 - 1
    <3>1. \A i \in Half : i \in Int
      OBVIOUS
    <3> HIDE DEF Half
    <3>2. c[k - 1] \in Half \X Half
      BY <2>1, Zenon DEF Offset, Half
    <3> QED BY <3>1, <3>2
  <2>3. 16 \in 0 .. 32
    OBVIOUS
  <2> QED BY <2>2, <2>3, PutBitsFacts, TwoParts
<1>3. CrgPayload(c) = FlattenSeq(seqs)
  BY <1>1 DEF CrgPayload
<1>4. \A k \in 1 .. n : seqs[k] \in Seq(Bit)
  BY <1>2
<1>5. seqs = [k \in 1 .. n |-> seqs[k]]
  OBVIOUS
<1> HIDE DEF seqs
<1> QED BY <1>3, <1>4, <1>5, Joined

(* The parts of WriteHeaders.                                              *)
FirstParts(g) ==
    <<[marker |-> "SOC"], Segment("CAP", CapPayload(g.cap)), Segment("PIH", PihPayload(g)),
      Segment("CDT", CdtPayload(g)), Segment("WGT", WeightsPayload(g, g.weights))>>
WgrPart(g) == SetToSeq({Segment("WGR", WeightsPayload(g, w)) : w \in g.wgr})
NltPart(g) == SetToSeq({Segment("NLT", NltPayload(n)) : n \in g.nlt})
CwdPart(g) == IF g.sd > 0 THEN <<Segment("CWD", PutBits(g.sd, 8))>> ELSE <<>>
CtsPart(g) == SetToSeq({Segment("CTS", CtsPayload(c)) : c \in g.cts})
CrgPart(g) == SetToSeq({Segment("CRG", CrgPayload(c)) : c \in g.crg})
TpcPart(g) == SetToSeq({Segment("TPC", TpcPayload(g, t)) : t \in g.tpc})
ComPart(g) == [k \in DOMAIN g.comments |-> Segment("COM", PutBits(g.comments[k], 16))]
LEMMA PartsAre ==
    ASSUME NEW g
    PROVE  WriteHeaders(g) = FirstParts(g) \o WgrPart(g) \o NltPart(g) \o CwdPart(g) \o CtsPart(g)
                             \o CrgPart(g) \o TpcPart(g) \o ComPart(g)
BY DEF WriteHeaders, FirstParts, WgrPart, NltPart, CwdPart, CtsPart, CrgPart, TpcPart, ComPart

LEMMA FirstPieces ==
    ASSUME NEW g, Fitted(g)
    PROVE  FirstParts(g) \in Seq(HeaderPieces)
<1>1. /\ Segment("CAP", CapPayload(g.cap)) \in HeaderPieces
      /\ Segment("PIH", PihPayload(g)) \in HeaderPieces
      /\ Segment("CDT", CdtPayload(g)) \in HeaderPieces
      /\ Segment("WGT", WeightsPayload(g, g.weights)) \in HeaderPieces
  <2>1. {"CAP", "PIH", "CDT", "WGT"} \subseteq HeaderMarkers
    BY DEF HeaderMarkers
  <2>2. CapPayload(g.cap) \in Seq(Bit)
    BY CapBits DEF Fitted, FittedOptions
  <2> QED BY <2>1, <2>2, PihBits, CdtBits, WeightsBits, IsPiece
<1>2. [marker |-> "SOC"] \in HeaderPieces
  BY DEF HeaderPieces
<1> QED BY <1>1, <1>2 DEF FirstParts

(* A part of at most one segment.                                          *)
LEMMA OneSegment ==
    ASSUME NEW S, NEW T, AtMostOne(S, T), NEW m \in HeaderMarkers, NEW Payload, \A x \in T : Payload[x] \in Seq(Bit)
    PROVE  SetToSeq({Segment(m, Payload[x]) : x \in S}) \in Seq(HeaderPieces)
<1>1. CASE S = {}
  <2>1. {Segment(m, Payload[x]) : x \in S} = {}
    BY <1>1
  <2>2. SetToSeq({}) \in Seq(HeaderPieces)
    <3>1. <<>> \in Seq(HeaderPieces)
      OBVIOUS
    <3> QED BY <3>1, AtMostOneInSeq
  <2> QED BY <2>1, <2>2, Zenon
<1>2. CASE \E x \in T : S = {x}
  <2>1. PICK x \in T : S = {x}
    BY <1>2
  <2>2. {Segment(m, Payload[y]) : y \in S} = {Segment(m, Payload[x])}
    BY <2>1
  <2>3. Segment(m, Payload[x]) \in HeaderPieces
    BY IsPiece
  <2>4. SetToSeq({Segment(m, Payload[x])}) = <<Segment(m, Payload[x])>>
    BY AtMostOneInSeq
  <2>5. <<Segment(m, Payload[x])>> \in Seq(HeaderPieces)
    BY <2>3
  <2> QED BY <2>2, <2>4, <2>5, Zenon
<1> QED BY <1>1, <1>2 DEF AtMostOne

LEMMA OtherPieces ==
    ASSUME NEW g, Fitted(g)
    PROVE  /\ WgrPart(g) \in Seq(HeaderPieces) /\ NltPart(g) \in Seq(HeaderPieces) /\ CwdPart(g) \in Seq(HeaderPieces)
           /\ CtsPart(g) \in Seq(HeaderPieces) /\ CrgPart(g) \in Seq(HeaderPieces) /\ TpcPart(g) \in Seq(HeaderPieces)
           /\ ComPart(g) \in Seq(HeaderPieces)
<1>0. /\ g.wgr = {} /\ g.nlt = {} /\ g.tpc = {} /\ g.comments = <<>>
      /\ AtMostOne(g.cts, [cf : 0 .. 3, e1 : 0 .. 3, e2 : 0 .. 3])
      /\ AtMostOne(g.crg, [0 .. g.nc - 1 -> Offset])
      /\ g.sd \in 0 .. 7 /\ g.nc \in Nat \ {0}
  BY DEF Fitted, FittedOptions, FittedLayout
<1>1. WgrPart(g) = <<>> /\ NltPart(g) = <<>> /\ TpcPart(g) = <<>> /\ ComPart(g) = <<>>
  <2>1. WgrPart(g) = SetToSeq({}) /\ NltPart(g) = SetToSeq({}) /\ TpcPart(g) = SetToSeq({})
    BY <1>0 DEF WgrPart, NltPart, TpcPart
  <2>2. ComPart(g) = <<>>
    BY <1>0 DEF ComPart
  <2> QED BY <2>1, <2>2, AtMostOneInSeq
<1>2. CwdPart(g) \in Seq(HeaderPieces)
  <2>1. g.sd \in Int /\ 8 \in 0 .. 32 /\ "CWD" \in HeaderMarkers
    BY <1>0 DEF HeaderMarkers
  <2>2. Segment("CWD", PutBits(g.sd, 8)) \in HeaderPieces
    BY <2>1, PutBitsFacts, IsPiece
  <2> QED BY <2>2 DEF CwdPart
<1>3. CtsPart(g) \in Seq(HeaderPieces)
  <2> DEFINE T == [cf : 0 .. 3, e1 : 0 .. 3, e2 : 0 .. 3]
             Payload == [c \in T |-> CtsPayload(c)]
  <2>1. \A c \in T : Payload[c] \in Seq(Bit) /\ Payload[c] = CtsPayload(c)
    BY CtsBits
  <2>2. "CTS" \in HeaderMarkers /\ AtMostOne(g.cts, T)
    BY <1>0 DEF HeaderMarkers
  <2> HIDE DEF T, Payload
  <2>3. SetToSeq({Segment("CTS", Payload[c]) : c \in g.cts}) \in Seq(HeaderPieces)
    BY <2>1, <2>2, OneSegment
  <2>4. \A c \in g.cts : Payload[c] = CtsPayload(c)
    BY <2>1, <2>2 DEF AtMostOne
  <2> QED BY <2>3, <2>4 DEF CtsPart
<1>4. CrgPart(g) \in Seq(HeaderPieces)
  <2> DEFINE T == [0 .. g.nc - 1 -> Offset]
             Payload == [c \in T |-> CrgPayload(c)]
  <2>1. \A c \in T : Payload[c] \in Seq(Bit) /\ Payload[c] = CrgPayload(c)
    BY <1>0, CrgBits
  <2>2. "CRG" \in HeaderMarkers /\ AtMostOne(g.crg, T)
    BY <1>0 DEF HeaderMarkers
  <2> HIDE DEF T, Payload
  <2>3. SetToSeq({Segment("CRG", Payload[c]) : c \in g.crg}) \in Seq(HeaderPieces)
    BY <2>1, <2>2, OneSegment
  <2>4. \A c \in g.crg : Payload[c] = CrgPayload(c)
    BY <2>1, <2>2 DEF AtMostOne
  <2> QED BY <2>3, <2>4 DEF CrgPart
<1> QED BY <1>1, <1>2, <1>3, <1>4

(* The headers written twice, with the size of the codestream in Lcod and  *)
(* without: they differ in the third piece alone.                          *)
Twins(s, a, t, b) ==
    /\ s \in Seq(HeaderPieces) /\ t \in Seq(HeaderPieces) /\ Len(t) = Len(s) /\ Len(s) >= 3
    /\ s[3] = a /\ t[3] = b /\ \A i \in 1 .. Len(s) : i # 3 => s[i] = t[i]
LEMMA TwinsGrow ==
    ASSUME NEW s, NEW a, NEW t, NEW b, Twins(s, a, t, b), NEW more \in Seq(HeaderPieces)
    PROVE  Twins(s \o more, a, t \o more, b)
<1>1. /\ s \in Seq(HeaderPieces) /\ t \in Seq(HeaderPieces) /\ Len(t) = Len(s) /\ Len(s) >= 3
      /\ s[3] = a /\ t[3] = b /\ \A i \in 1 .. Len(s) : i # 3 => s[i] = t[i]
  BY DEF Twins
<1> DEFINE x == s \o more
           y == t \o more
           n == Len(s)
           m == Len(more)
<1>2. n \in Nat /\ m \in Nat
  BY <1>1
<1>3. /\ x \in Seq(HeaderPieces) /\ Len(x) = n + m
      /\ \A i \in 1 .. n + m : x[i] = IF i <= n THEN s[i] ELSE more[i - n]
  BY <1>1, ConcatProperties
<1>4. /\ y \in Seq(HeaderPieces) /\ Len(y) = n + m
      /\ \A i \in 1 .. n + m : y[i] = IF i <= n THEN t[i] ELSE more[i - n]
  <2>1. t \in Seq(HeaderPieces) /\ more \in Seq(HeaderPieces) /\ Len(t) = n
    BY <1>1
  <2>2. /\ y \in Seq(HeaderPieces) /\ Len(y) = Len(t) + m
        /\ \A i \in 1 .. Len(t) + m : y[i] = IF i <= Len(t) THEN t[i] ELSE more[i - Len(t)]
    BY <2>1, ConcatProperties
  <2> HIDE DEF n, m, y
  <2> QED BY <2>1, <2>2
<1> HIDE DEF x, y, m, n
<1>5. n >= 3
  BY <1>1 DEF n
<1>6. x[3] = a /\ y[3] = b
  <2>1. 3 \in 1 .. n + m /\ 3 <= n
    BY <1>2, <1>5
  <2> QED BY <1>1, <1>3, <1>4, <2>1
<1>7. \A i \in 1 .. n + m : i # 3 => x[i] = y[i]
  <2> SUFFICES ASSUME NEW i \in 1 .. n + m, i # 3 PROVE x[i] = y[i]
    OBVIOUS
  <2>1. CASE i <= n
    <3>1. i \in 1 .. n
      BY <2>1, <1>2
    <3>2. s[i] = t[i]
      BY <1>1, <3>1 DEF n
    <3> QED BY <1>3, <1>4, <2>1, <3>2
  <2>2. CASE ~(i <= n)
    BY <1>3, <1>4, <2>2
  <2> QED BY <2>1, <2>2
<1>8. Twins(x, a, y, b)
  BY <1>2, <1>3, <1>4, <1>5, <1>6, <1>7 DEF Twins
<1> QED BY <1>8 DEF x, y

HeaderNames ==
    {"lcod", "ppih", "plev", "wf", "hf", "cw", "hsl", "nc", "ng", "ss", "bw", "fq", "br", "fslc", "ppoc",
     "cpih", "nlx", "nly", "lh", "rl", "qpih", "fs", "rm", "sd", "depth", "sx", "sy", "weights", "cap",
     "wgr", "nlt", "tpc", "comments", "cts", "crg"}
Alike(g, e) ==
    /\ g.ppih = e.ppih /\ g.plev = e.plev /\ g.wf = e.wf /\ g.hf = e.hf /\ g.cw = e.cw /\ g.hsl = e.hsl
    /\ g.nc = e.nc /\ g.ng = e.ng /\ g.ss = e.ss /\ g.bw = e.bw /\ g.fq = e.fq /\ g.br = e.br
    /\ g.fslc = e.fslc /\ g.ppoc = e.ppoc /\ g.cpih = e.cpih /\ g.nlx = e.nlx /\ g.nly = e.nly
    /\ g.lh = e.lh /\ g.rl = e.rl /\ g.qpih = e.qpih /\ g.fs = e.fs /\ g.rm = e.rm /\ g.sd = e.sd
    /\ g.depth = e.depth /\ g.sx = e.sx /\ g.sy = e.sy /\ g.weights = e.weights /\ g.cap = e.cap
    /\ g.wgr = e.wgr /\ g.nlt = e.nlt /\ g.tpc = e.tpc /\ g.comments = e.comments /\ g.cts = e.cts /\ g.crg = e.crg
LEMMA LcodAlone ==
    ASSUME NEW g, HeaderNames \subseteq DOMAIN g, NEW size
    PROVE  LET e == [g EXCEPT !.lcod = size] IN Alike(g, e) /\ e.lcod = size /\ DOMAIN e = DOMAIN g
<1> DEFINE e == [g EXCEPT !.lcod = size]
<1>1. \A x \in DOMAIN g : x # "lcod" => g[x] = e[x]
  OBVIOUS
<1>2. "lcod" \in DOMAIN g
  BY DEF HeaderNames
<1>3. e["lcod"] = size
  BY <1>2
<1>4. DOMAIN e = DOMAIN g
  OBVIOUS
<1> HIDE DEF e
<1>5. \A x \in HeaderNames : x # "lcod" => g[x] = e[x]
  BY <1>1
<1>6. Alike(g, e)
  BY <1>5 DEF Alike, HeaderNames
<1>7. Alike(g, e) /\ e.lcod = size /\ DOMAIN e = DOMAIN g
  BY <1>3, <1>4, <1>6
<1> QED BY <1>7 DEF e

LEMMA AlikeFitted ==
    ASSUME NEW g, NEW e, Alike(g, e), Fitted(g), e.lcod \in Int
    PROVE  Fitted(e)
<1>1. FittedPih(g) /\ FittedLayout(g) /\ FittedComponents(g) /\ FittedWeights(g) /\ FittedOptions(g)
  BY DEF Fitted
<1>2. FittedPih(e)
  BY <1>1 DEF FittedPih, Alike
<1>3. FittedLayout(e)
  BY <1>1 DEF FittedLayout, Alike
<1>4. FittedComponents(e)
  BY <1>1 DEF FittedComponents, Alike
<1>5. NumBands(g) = NumBands(e)
  BY DEF Alike, NumBands, Decomposed, NBeta
<1>6. FittedWeights(e)
  BY <1>1, <1>5 DEF FittedWeights, Alike, Bands
<1>7. FittedOptions(e)
  BY <1>1 DEF FittedOptions, Alike
<1> QED BY <1>2, <1>3, <1>4, <1>6, <1>7 DEF Fitted

LEMMA AlikePayloads ==
    ASSUME NEW g, NEW e, Alike(g, e)
    PROVE  /\ CapPayload(g.cap) = CapPayload(e.cap) /\ CdtPayload(g) = CdtPayload(e)
           /\ WeightsPayload(g, g.weights) = WeightsPayload(e, e.weights)
           /\ CwdPart(g) = CwdPart(e) /\ CtsPart(g) = CtsPart(e) /\ CrgPart(g) = CrgPart(e)
<1>1. /\ g.nc = e.nc /\ g.sd = e.sd /\ g.nlx = e.nlx /\ g.nly = e.nly /\ g.depth = e.depth /\ g.sx = e.sx
      /\ g.sy = e.sy /\ g.weights = e.weights /\ g.cap = e.cap /\ g.cts = e.cts /\ g.crg = e.crg
  BY DEF Alike
<1>2. Decomposed(g) = Decomposed(e) /\ NBeta(g) = NBeta(e) /\ Beta1(g) = Beta1(e)
  BY <1>1 DEF Decomposed, NBeta, Beta1
<1>3. NumBands(g) = NumBands(e)
  BY <1>1, <1>2 DEF NumBands
<1>4. \A b : Exists(g, b) = Exists(e, b)
  BY <1>1, <1>2 DEF Exists
<1>5. WeightsPayload(g, g.weights) = WeightsPayload(e, e.weights)
  BY <1>1, <1>3, <1>4 DEF WeightsPayload
<1>6. CdtPayload(g) = CdtPayload(e)
  BY <1>1 DEF CdtPayload
<1>7. CwdPart(g) = CwdPart(e) /\ CtsPart(g) = CtsPart(e) /\ CrgPart(g) = CrgPart(e)
  BY <1>1 DEF CwdPart, CtsPart, CrgPart
<1> QED BY <1>1, <1>5, <1>6, <1>7

LEMMA WrittenTwice ==
    ASSUME NEW g, Fitted(g), NEW e, Fitted(e), Alike(g, e)
    PROVE  Twins(WriteHeaders(g), Segment("PIH", PihPayload(g)), WriteHeaders(e), Segment("PIH", PihPayload(e)))
<1> DEFINE a == Segment("PIH", PihPayload(g))
           b == Segment("PIH", PihPayload(e))
           n1 == CwdPart(g)
           n2 == CtsPart(g)
           n3 == CrgPart(g)
<1>1. FirstParts(g) \in Seq(HeaderPieces) /\ FirstParts(e) \in Seq(HeaderPieces)
  BY FirstPieces
<1>2. Twins(FirstParts(g), a, FirstParts(e), b)
  <2>1. CapPayload(g.cap) = CapPayload(e.cap) /\ CdtPayload(g) = CdtPayload(e)
        /\ WeightsPayload(g, g.weights) = WeightsPayload(e, e.weights)
    BY AlikePayloads
  <2> DEFINE s == FirstParts(g)
             t == FirstParts(e)
  <2>2. Len(s) = 5 /\ Len(t) = 5 /\ s[3] = a /\ t[3] = b
    BY DEF FirstParts
  <2>3. s[1] = t[1] /\ s[2] = t[2] /\ s[4] = t[4] /\ s[5] = t[5]
    BY <2>1 DEF FirstParts
  <2> HIDE DEF s, t, a, b
  <2>4. \A i \in 1 .. 5 : i # 3 => s[i] = t[i]
    BY <2>3
  <2>5. s \in Seq(HeaderPieces) /\ t \in Seq(HeaderPieces)
    BY <1>1 DEF s, t
  <2> QED BY <2>2, <2>4, <2>5 DEF Twins, s, t
<1>3. /\ WgrPart(g) \in Seq(HeaderPieces) /\ NltPart(g) \in Seq(HeaderPieces) /\ CwdPart(g) \in Seq(HeaderPieces)
      /\ CtsPart(g) \in Seq(HeaderPieces) /\ CrgPart(g) \in Seq(HeaderPieces) /\ TpcPart(g) \in Seq(HeaderPieces)
      /\ ComPart(g) \in Seq(HeaderPieces)
  BY OtherPieces
<1>4. /\ WgrPart(g) = WgrPart(e) /\ NltPart(g) = NltPart(e) /\ CwdPart(g) = CwdPart(e)
      /\ CtsPart(g) = CtsPart(e) /\ CrgPart(g) = CrgPart(e) /\ TpcPart(g) = TpcPart(e)
      /\ ComPart(g) = ComPart(e)
  <2>1. FittedOptions(g) /\ FittedOptions(e)
    BY DEF Fitted
  <2>2. /\ g.wgr = {} /\ g.nlt = {} /\ g.tpc = {} /\ g.comments = <<>>
        /\ e.wgr = {} /\ e.nlt = {} /\ e.tpc = {} /\ e.comments = <<>>
    BY <2>1 DEF FittedOptions
  <2>3. WgrPart(g) = WgrPart(e) /\ NltPart(g) = NltPart(e) /\ TpcPart(g) = TpcPart(e) /\ ComPart(g) = ComPart(e)
    <3>1. /\ WgrPart(g) = SetToSeq({}) /\ NltPart(g) = SetToSeq({}) /\ TpcPart(g) = SetToSeq({})
          /\ WgrPart(e) = SetToSeq({}) /\ NltPart(e) = SetToSeq({}) /\ TpcPart(e) = SetToSeq({})
      BY <2>2 DEF WgrPart, NltPart, TpcPart
    <3>2. ComPart(g) = <<>> /\ ComPart(e) = <<>>
      BY <2>2 DEF ComPart
    <3> QED BY <3>1, <3>2
  <2> QED BY <2>3, AlikePayloads
<1> HIDE DEF a, b
<1> DEFINE s1 == FirstParts(g)       t1 == FirstParts(e)
           s2 == s1 \o WgrPart(g)    t2 == t1 \o WgrPart(g)
           s3 == s2 \o NltPart(g)    t3 == t2 \o NltPart(g)
           s4 == s3 \o CwdPart(g)    t4 == t3 \o CwdPart(g)
           s5 == s4 \o CtsPart(g)    t5 == t4 \o CtsPart(g)
           s6 == s5 \o CrgPart(g)    t6 == t5 \o CrgPart(g)
           s7 == s6 \o TpcPart(g)    t7 == t6 \o TpcPart(g)
           s8 == s7 \o ComPart(g)    t8 == t7 \o ComPart(g)
<1>a. WriteHeaders(g) = s8
  BY PartsAre, Zenon
<1>b. WriteHeaders(e) = t8
  BY PartsAre, <1>4, Zenon
<1>5. Twins(s2, a, t2, b)
  BY <1>2, <1>3, TwinsGrow
<1> HIDE DEF s2, t2
<1>6. Twins(s3, a, t3, b)
  BY <1>5, <1>3, TwinsGrow
<1> HIDE DEF s3, t3
<1>7. Twins(s4, a, t4, b)
  BY <1>6, <1>3, TwinsGrow
<1> HIDE DEF s4, t4
<1>8. Twins(s5, a, t5, b)
  BY <1>7, <1>3, TwinsGrow
<1> HIDE DEF s5, t5
<1>9. Twins(s6, a, t6, b)
  BY <1>8, <1>3, TwinsGrow
<1> HIDE DEF s6, t6
<1>10. Twins(s7, a, t7, b)
  BY <1>9, <1>3, TwinsGrow
<1> HIDE DEF s7, t7
<1>11. Twins(s8, a, t8, b)
  BY <1>10, <1>3, TwinsGrow
<1> HIDE DEF s8, t8
<1> QED BY <1>a, <1>b, <1>11 DEF a, b

JobOk(c) ==
    LET headers == MakeHeaders(c)
    IN  /\ Validate(headers) /\ \A i \in DOMAIN headers.sy : headers.sy[i] = 1
        /\ headers.cpih = 3 => PatternTypes(headers) # {}
        /\ FieldsFit(headers) /\ c.target \in Nat

(* What MakeHeaders sets whatever the configuration.                       *)
LEMMA MadeHeaders ==
    ASSUME NEW c
    PROVE  LET g == MakeHeaders(c)
           IN  /\ HeaderNames \subseteq DOMAIN g /\ g.lcod = 0 /\ g.ppih = 0 /\ g.plev = 0
               /\ g.wgr = {} /\ g.nlt = {} /\ g.tpc = {} /\ g.comments = <<>>
               /\ g.cap \subseteq 0 .. 31 /\ \E x : g.cts \subseteq {x}
               /\ \A x \in {"bands", "packets", "widths", "lines"} : x \notin DOMAIN g
<1> DEFINE a == [f \in ConfiguredFields |-> c[f]]
           b == IF c.lossless THEN [bw |-> c.depth[0], fq |-> 0, br |-> IF c.depth[0] > 12 THEN 5 ELSE 4]
                ELSE [bw |-> 20, fq |-> 8, br |-> 4]
           d == [lcod |-> 0, ppih |-> 0, plev |-> 0, ng |-> 4, ss |-> 8, fslc |-> 0, ppoc |-> 0]
           cap == (IF c.lossless THEN {kLossless} ELSE {}) \cup (IF c.sd > 0 THEN {kCwd} ELSE {})
                \cup (IF c.rl = 1 THEN {kRawModePerPacket} ELSE {}) \cup (IF c.cpih = 3 THEN {kStarTetrix} ELSE {})
           cts == IF c.cpih = 3 THEN {c.cts} ELSE {}
           crg == IF c.cpih = 3 /\ c.crg = {} THEN {Offsets(<<0, 1, 0, 1>>, <<0, 0, 1, 1>>)} ELSE c.crg
           e == [cap |-> cap, cts |-> cts, crg |-> crg,
                 wgr |-> {}, nlt |-> {}, tpc |-> {}, comments |-> <<>>]
           g == a ++ b ++ d ++ e
<1>1. MakeHeaders(c) = g
  BY DEF MakeHeaders
<1>2. DOMAIN a = ConfiguredFields /\ DOMAIN b = {"bw", "fq", "br"}
  OBVIOUS
<1>3. DOMAIN d = {"lcod", "ppih", "plev", "ng", "ss", "fslc", "ppoc"} /\ d["lcod"] = 0 /\ d["ppih"] = 0 /\ d["plev"] = 0
  OBVIOUS
<1>4. cap \subseteq 0 .. 31 /\ cts \subseteq {c.cts}
  BY DEF kLossless, kCwd, kRawModePerPacket, kStarTetrix
<1> HIDE DEF cap, cts, crg
<1>5. /\ DOMAIN e = {"cap", "cts", "crg", "wgr", "nlt", "tpc", "comments"}
      /\ e["cap"] = cap /\ e["cts"] = cts /\ e["wgr"] = {} /\ e["nlt"] = {} /\ e["tpc"] = {} /\ e["comments"] = <<>>
  OBVIOUS
<1> HIDE DEF a, b, d, e
<1>6. DOMAIN (a ++ b) = ConfiguredFields \cup {"bw", "fq", "br"}
  BY <1>2, Merged
<1>7. /\ DOMAIN ((a ++ b) ++ d) = DOMAIN (a ++ b) \cup DOMAIN d
      /\ \A x \in DOMAIN d : x \notin DOMAIN (a ++ b) => ((a ++ b) ++ d)[x] = d[x]
  BY Merged
<1>8. /\ DOMAIN g = DOMAIN ((a ++ b) ++ d) \cup DOMAIN e
      /\ \A x \in DOMAIN ((a ++ b) ++ d) : g[x] = ((a ++ b) ++ d)[x]
      /\ \A x \in DOMAIN e : x \notin DOMAIN ((a ++ b) ++ d) => g[x] = e[x]
  BY Merged
<1> HIDE DEF g
<1>9. DOMAIN ((a ++ b) ++ d) = ConfiguredFields \cup {"bw", "fq", "br"} \cup
          {"lcod", "ppih", "plev", "ng", "ss", "fslc", "ppoc"}
  BY <1>3, <1>6, <1>7
<1>10. HeaderNames \subseteq DOMAIN g
  BY <1>5, <1>8, <1>9 DEF HeaderNames, ConfiguredFields
<1>11. g.lcod = 0 /\ g.ppih = 0 /\ g.plev = 0
  BY <1>3, <1>6, <1>7, <1>8, <1>9 DEF ConfiguredFields
<1>12. g.cap = cap /\ g.cts = cts /\ g.wgr = {} /\ g.nlt = {} /\ g.tpc = {} /\ g.comments = <<>>
  BY <1>5, <1>8, <1>9 DEF ConfiguredFields
<1>13. \A x \in {"bands", "packets", "widths", "lines"} : x \notin DOMAIN g
  BY <1>5, <1>8, <1>9 DEF ConfiguredFields
<1>14. /\ HeaderNames \subseteq DOMAIN g /\ g.lcod = 0 /\ g.ppih = 0 /\ g.plev = 0
       /\ g.wgr = {} /\ g.nlt = {} /\ g.tpc = {} /\ g.comments = <<>>
       /\ g.cap \subseteq 0 .. 31 /\ \E x : g.cts \subseteq {x}
       /\ \A x \in {"bands", "packets", "widths", "lines"} : x \notin DOMAIN g
  BY <1>4, <1>10, <1>11, <1>12, <1>13
<1> QED BY <1>1, <1>14

(* Tables adds to the headers and changes none of them.                    *)
LEMMA TablesKeep ==
    ASSUME NEW g, HeaderNames \subseteq DOMAIN g
    PROVE  Alike(g, Tables(g)) /\ Tables(g).lcod = g.lcod /\ HeaderNames \subseteq DOMAIN Tables(g)
<1> DEFINE bs == [bands |-> [b \in Bands(g) |-> Band(g, b)]]
           k == g ++ bs
           more == [packets |-> [i \in 0 .. NumPrecincts(k) - 1 |-> Packets(k, i)],
                    widths |-> [i \in 0 .. NumPrecincts(k) - 1 |-> [b \in Bands(k) |-> BandPrecinctWidth(k, i, b)]],
                    lines |-> Geometry(g).lines]
           cfa == IF g.cpih = 3 THEN StarTetrix(g) ELSE None
<1>1. \E w : Geometry(g) = k ++ w
  BY DEF Geometry
<1>2. PICK w : Geometry(g) = k ++ w
  BY <1>1
<1> HIDE DEF bs, cfa
<1>3. Tables(g) = (k ++ w) ++ cfa
  BY <1>2 DEF Tables, cfa
<1>4. DOMAIN g \subseteq DOMAIN k /\ \A x \in DOMAIN g : k[x] = g[x]
  BY Merged
<1> HIDE DEF k
<1>5. DOMAIN k \subseteq DOMAIN (k ++ w) /\ \A x \in DOMAIN k : (k ++ w)[x] = k[x]
  BY Merged
<1> DEFINE u == k ++ w
           t == Tables(g)
<1>6. DOMAIN u \subseteq DOMAIN t /\ \A x \in DOMAIN u : t[x] = u[x]
  <2>1. t = u ++ cfa
    BY <1>3
  <2> HIDE DEF u, t
  <2>2. DOMAIN u \subseteq DOMAIN (u ++ cfa) /\ \A x \in DOMAIN u : (u ++ cfa)[x] = u[x]
    BY Merged
  <2> QED BY <2>1, <2>2
<1>7. \A x \in DOMAIN g : x \in DOMAIN t /\ t[x] = g[x]
  <2> HIDE DEF t
  <2> QED BY <1>4, <1>5, <1>6
<1> HIDE DEF t
<1>8. HeaderNames \subseteq DOMAIN t
  BY <1>7
<1>9. \A x \in HeaderNames : t[x] = g[x]
  BY <1>7
<1>10. Alike(g, t) /\ t.lcod = g.lcod
  BY <1>9 DEF Alike, HeaderNames
<1> QED BY <1>8, <1>10 DEF t

LEMMA ValidFits ==
    ASSUME NEW c, JobOk(c)
    PROVE  Fitted(MakeHeaders(c))
<1> DEFINE g == MakeHeaders(c)
<1>1. /\ g.lcod = 0 /\ g.ppih = 0 /\ g.plev = 0
      /\ g.wgr = {} /\ g.nlt = {} /\ g.tpc = {} /\ g.comments = <<>>
      /\ g.cap \subseteq 0 .. 31 /\ \E x : g.cts \subseteq {x}
  BY MadeHeaders
<1>2. Validate(g) /\ FieldsFit(g)
  BY DEF JobOk
<1> HIDE DEF g
<1> DEFINE W == 0 .. 2 ^ 16 - 1
           B == 0 .. 2 ^ 8 - 1
<1>0. /\ \A x \in W : x \in Nat /\ x \in Int /\ (x # 0 => x \in Nat \ {0}) /\ (x >= 1 => x # 0)
      /\ \A x \in B : x \in Nat /\ x \in Int
  <2>1. \A t \in 0 .. 31 : 2 ^ t \in Nat \ {0}
    BY PowersGrow
  <2>2. 16 \in 0 .. 31 /\ 8 \in 0 .. 31
    OBVIOUS
  <2> DEFINE w == 2 ^ 16
             v == 2 ^ 8
  <2>3. w \in Nat /\ v \in Nat
    BY <2>1, <2>2
  <2> HIDE DEF w, v
  <2>4. /\ \A x \in 0 .. w - 1 : x \in Nat /\ x \in Int /\ (x # 0 => x \in Nat \ {0}) /\ (x >= 1 => x # 0)
        /\ \A x \in 0 .. v - 1 : x \in Nat /\ x \in Int
    BY <2>3
  <2> QED BY <2>4, Zenon DEF w, v
<1>a. /\ {g.wf, g.hf, g.cw, g.hsl} \subseteq W
      /\ {g.sd, g.lh, g.rl} \subseteq B
      /\ \A b \in DOMAIN g.weights : g.weights[b] \in [gain : B, priority : B]
  BY <1>2, Zenon DEF FieldsFit
<1> HIDE DEF W, B
<1>3. /\ g.nc \in 1 .. 8 /\ DOMAIN g.sx = 0 .. g.nc - 1 /\ g.ng = 4 /\ g.ss = 8 /\ g.fslc = 0 /\ g.ppoc = 0 /\ g.hsl >= 1
      /\ g.cpih \in {0, 1, 3} /\ g.qpih \in {0, 1} /\ g.fs \in {0, 1} /\ g.rm \in {0, 1}
      /\ g.nlx \in 1 .. 8
  BY <1>2 DEF Validate
<1>4. \A i \in DOMAIN g.sx : g.depth[i] \in 8 .. 16 /\ (g.sx[i] = 1 \/ g.sx[i] = 2) /\ g.sy[i] \in 1 .. g.sx[i]
  BY <1>2 DEF Validate
<1>5. /\ g.wf \in W /\ g.hf \in W /\ g.cw \in W /\ g.hsl \in W
      /\ g.sd \in B /\ g.lh \in B /\ g.rl \in B
  BY <1>a
<1>6. g.fq \in {0, 6, 8} /\ g.br \in 4 .. 5 /\ g.bw \in Int
  <2>1. 0 \in DOMAIN g.sx
    BY <1>3
  <2>2. g.depth[0] \in 8 .. 16
    BY <1>4, <2>1
  <2>3. DOMAIN g.depth = DOMAIN g.sx
    BY <1>2, Zenon DEF FieldsFit
  <2>4. g.fq = 0 => g.depth[0] = g.bw /\ g.br \in {4, 5}
    BY <1>2, <2>1, <2>3 DEF Validate
  <2>5. g.fq # 0 => (g.bw = 18 \/ g.bw = 20) /\ (g.fq = 6 \/ g.fq = 8) /\ g.br = 4
    BY <1>2 DEF Validate
  <2> QED BY <2>2, <2>4, <2>5
<1>7. g.nly \in 0 .. 8 /\ g.nly <= g.nlx
  <2>1. \E m \in 1 .. 2 : g.nly \in (m - 1) .. Smaller(g.nlx, 6)
    BY <1>2 DEF Validate
  <2>2. \A x \in 1 .. 8, m \in 1 .. 2 : \A y : y \in (m - 1) .. Smaller(x, 6) => y \in 0 .. 8 /\ y <= x
    BY DEF Smaller
  <2> QED BY <1>3, <2>1, <2>2
<1>8. g.wf \in Nat \ {0} /\ g.hf \in Nat \ {0}
  <2>1. \A x \in 1 .. 8, m \in 1 .. 2 : m * 2 ^ x \in Nat \ {0}
    <3> SUFFICES ASSUME NEW x \in 1 .. 8, NEW m \in 1 .. 2 PROVE m * 2 ^ x \in Nat \ {0}
      OBVIOUS
    <3>1. x \in 0 .. 31
      OBVIOUS
    <3>2. 2 ^ x \in Nat \ {0}
      BY <3>1, PowersGrow
    <3> DEFINE pow == 2 ^ x
    <3> HIDE DEF pow
    <3>3. pow \in Nat \ {0}
      BY <3>2 DEF pow
    <3>4. m * pow \in Nat \ {0}
      BY <3>3
    <3> QED BY <3>4 DEF pow
  <2>2. MaxSx(g) \in 1 .. 2
    BY DEF MaxSx
  <2>3. \A x \in 0 .. 8 : 2 ^ x \in Nat \ {0}
    <3>1. \A x \in 0 .. 31 : 2 ^ x \in Nat \ {0}
      BY PowersGrow
    <3>2. \A x \in 0 .. 8 : x \in 0 .. 31
      OBVIOUS
    <3> QED BY <3>1, <3>2
  <2>4. g.wf >= MaxSx(g) * 2 ^ g.nlx
    BY <1>2 DEF Validate
  <2>5. \E m \in 1 .. 2 : g.hf >= m * 2 ^ g.nly
    BY <1>2 DEF Validate
  <2>6. g.wf # 0
    <3> DEFINE e == MaxSx(g) * 2 ^ g.nlx
    <3>1. e \in Nat \ {0}
      BY <1>3, <2>1, <2>2
    <3> HIDE DEF e
    <3>2. g.wf >= e
      BY <2>4 DEF e
    <3>3. \A x : x = 0 /\ x >= e => FALSE
      BY <3>1
    <3> QED BY <3>2, <3>3
  <2>7. g.hf # 0
    <3>1. PICK m \in 1 .. 2 : g.hf >= m * 2 ^ g.nly
      BY <2>5
    <3> DEFINE pow == 2 ^ g.nly
    <3>2. pow \in Nat \ {0}
      BY <1>7, <2>3
    <3> HIDE DEF pow
    <3>3. m * pow \in Nat \ {0} /\ g.hf >= m * pow
      BY <3>1, <3>2 DEF pow
    <3>4. \A x : x = 0 /\ x >= m * pow => FALSE
      BY <3>3
    <3> QED BY <3>3, <3>4
  <2> QED BY <1>0, <1>5, <2>6, <2>7
<1>9. FittedPih(g)
  <2>1. g.lcod \in Int /\ g.ppih \in Int /\ g.plev \in Int
    BY <1>1
  <2>2. /\ \A x \in 1 .. 8 : x \in Int
        /\ \A x \in 0 .. 8 : x \in Int
        /\ \A x \in 4 .. 5 : x \in Int
        /\ \A x \in {0, 1} : x \in Int
        /\ \A x \in {0, 1, 3} : x \in Int
        /\ \A x \in {0, 6, 8} : x \in Int
    OBVIOUS
  <2>3. g.wf \in Int /\ g.hf \in Int /\ g.cw \in Int /\ g.hsl \in Int /\ g.lh \in Int /\ g.rl \in Int
    BY <1>0, <1>5
  <2>4. g.ng \in Int /\ g.ss \in Int /\ g.fslc \in Int /\ g.ppoc \in Int
    BY <1>3
  <2>5. g.nc \in Int /\ g.cpih \in Int /\ g.qpih \in Int /\ g.fs \in Int /\ g.rm \in Int /\ g.nlx \in Int
    BY <1>3, <2>2
  <2>6. g.fq \in Int /\ g.br \in Int /\ g.bw \in Int /\ g.nly \in Int
    BY <1>6, <1>7, <2>2
  <2> QED BY <2>1, <2>3, <2>4, <2>5, <2>6 DEF FittedPih
<1>10. FittedLayout(g)
  <2>1. g.sd > 0 => g.sd < g.nc
    BY <1>2 DEF Validate
  <2>2. \A n \in 1 .. 8, x \in Nat : (x > 0 => x < n) => x \in 0 .. 7 /\ x < n
    OBVIOUS
  <2>3. g.sd \in 0 .. 7 /\ g.sd < g.nc
    BY <1>0, <1>3, <1>5, <2>1, <2>2, Zenon
  <2>5. g.hsl \in Nat \ {0} /\ g.cw \in Nat
    BY <1>0, <1>3, <1>5, Zenon
  <2> QED BY <1>3, <1>7, <1>8, <2>3, <2>5, Zenon DEF FittedLayout
<1>11. FittedComponents(g)
  BY <1>3, <1>4 DEF FittedComponents
<1>12. FittedWeights(g)
  <2>1. DOMAIN g.weights = Bands(g)
    BY <1>2 DEF Validate
  <2> QED BY <1>0, <1>a, <2>1 DEF FittedWeights
<1>13. FittedOptions(g)
  <2>1. AtMostOne(g.cts, [cf : 0 .. 3, e1 : 0 .. 3, e2 : 0 .. 3])
    <3>1. g.cts \subseteq [cf : 0 .. 3, e1 : 0 .. 3, e2 : 0 .. 3]
      BY <1>2, Zenon DEF FieldsFit
    <3>2. g.cts = {} \/ \E x : g.cts = {x}
      BY <1>1
    <3> QED BY <3>1, <3>2 DEF AtMostOne
  <2>2. AtMostOne(g.crg, [0 .. g.nc - 1 -> Offset])
    <3>1. \A x, y \in g.crg : x = y /\ x \in [DOMAIN x -> Offset]
      BY <1>2, Zenon DEF FieldsFit, Offset
    <3>2. \A x \in g.crg : DOMAIN x = 0 .. g.nc - 1
      BY <1>2 DEF Validate
    <3>3. \A x \in g.crg : x \in [0 .. g.nc - 1 -> Offset]
      BY <3>1, <3>2
    <3>4. g.crg = {} \/ \E x \in g.crg : g.crg = {x}
      BY <3>1
    <3> QED BY <3>3, <3>4 DEF AtMostOne
  <2> QED BY <1>1, <2>1, <2>2 DEF FittedOptions
<1>14. Fitted(g)
  BY <1>9, <1>10, <1>11, <1>12, <1>13 DEF Fitted
<1> QED BY <1>14 DEF g

LEMMA TablesFitted ==
    ASSUME NEW c, JobOk(c)
    PROVE  LET g == Tables(MakeHeaders(c))
           IN  Fitted(g) /\ HeaderNames \subseteq DOMAIN g /\ g.lcod = 0
<1> DEFINE m == MakeHeaders(c)
           t == Tables(m)
<1>1. HeaderNames \subseteq DOMAIN m /\ m.lcod = 0
  BY MadeHeaders
<1>2. Fitted(m)
  BY ValidFits
<1> HIDE DEF m
<1>3. Alike(m, t) /\ t.lcod = m.lcod /\ HeaderNames \subseteq DOMAIN t
  BY <1>1, TablesKeep
<1> HIDE DEF t
<1>4. t.lcod = 0 /\ t.lcod \in Int
  BY <1>1, <1>3
<1>5. Fitted(t)
  BY <1>2, <1>3, <1>4, AlikeFitted
<1>6. Fitted(t) /\ HeaderNames \subseteq DOMAIN t /\ t.lcod = 0
  BY <1>3, <1>4, <1>5
<1> QED BY <1>6 DEF t, m

(* Sizes in bytes of the pieces of a codestream.                           *)
PieceSizes(g, s) == [k \in DOMAIN s |-> PieceBytes(g, s[k])]
Sized(g, S) == \A x \in S : PieceBytes(g, x) \in Int
LEMMA HeaderPieceBytes ==
    ASSUME NEW g
    PROVE  /\ \A x \in HeaderPieces : PieceBytes(g, x) \in Nat
           /\ \A m \in HeaderMarkers, bits \in Seq(Bit) : PieceBytes(g, Segment(m, bits)) = 4 + (Len(bits) \div 8)
<1>1. ASSUME NEW m \in HeaderMarkers, NEW bits \in Seq(Bit)
      PROVE  PieceBytes(g, Segment(m, bits)) = 4 + (Len(bits) \div 8)
  <2> DEFINE x == [marker |-> m, bits |-> bits]
  <2>1. x.marker = m /\ x.bits = bits
    OBVIOUS
  <2>2. m \notin {"SOC", "EOC"} /\ m # "SLH"
    BY DEF HeaderMarkers
  <2>3. Bytes(x) = Len(bits) \div 8
    BY <2>1 DEF Bytes
  <2> HIDE DEF x
  <2>4. PieceBytes(g, x) = 4 + Bytes(x)
    BY <2>1, <2>2 DEF PieceBytes
  <2> QED BY <2>3, <2>4 DEF x, Segment
<1>2. PieceBytes(g, [marker |-> "SOC"]) = 2
  BY DEF PieceBytes
<1>3. \A m \in HeaderMarkers, bits \in Seq(Bit) : 4 + (Len(bits) \div 8) \in Nat
  OBVIOUS
<1>4. \A m \in HeaderMarkers, bits \in Seq(Bit) : PieceBytes(g, Segment(m, bits)) \in Nat
  BY <1>1, <1>3
<1>5. ASSUME NEW x \in HeaderPieces PROVE PieceBytes(g, x) \in Nat
  <2>1. x = [marker |-> "SOC"] \/ \E m \in HeaderMarkers, bits \in Seq(Bit) : x = Segment(m, bits)
    BY DEF HeaderPieces
  <2> QED BY <1>2, <1>4, <2>1
<1> QED BY <1>1, <1>5

LEMMA SizesFacts ==
    ASSUME NEW g, NEW S, Sized(g, S), NEW s \in Seq(S)
    PROVE  /\ PieceSizes(g, s) \in Seq(Int) /\ Len(PieceSizes(g, s)) = Len(s)
           /\ \A k \in 1 .. Len(s) : PieceSizes(g, s)[k] = PieceBytes(g, s[k])
           /\ SizeOf(g, s) = Total(PieceSizes(g, s))
<1> DEFINE z == PieceSizes(g, s)
           n == Len(s)
<1>1. n \in Nat /\ DOMAIN s = 1 .. n
  OBVIOUS
<1>2. \A k \in 1 .. n : PieceBytes(g, s[k]) \in Int
  BY DEF Sized
<1>3. z = [k \in 1 .. n |-> PieceBytes(g, s[k])]
  BY <1>1 DEF PieceSizes
<1>4. SizeOf(g, s) = Total(z)
  BY DEF SizeOf, PieceSizes
<1> HIDE DEF z, n
<1>5. z \in Seq(Int) /\ Len(z) = n /\ \A k \in 1 .. n : z[k] = PieceBytes(g, s[k])
  BY <1>1, <1>2, <1>3
<1> QED BY <1>4, <1>5 DEF z, n

LEMMA SizeOfConcat ==
    ASSUME NEW g, NEW S, Sized(g, S), NEW s \in Seq(S), NEW t \in Seq(S)
    PROVE  SizeOf(g, s \o t) = SizeOf(g, s) + SizeOf(g, t)
<1> DEFINE st == s \o t
           a == PieceSizes(g, s)
           b == PieceSizes(g, t)
           c == PieceSizes(g, st)
           m == Len(s)
           n == Len(t)
<1>1. /\ st \in Seq(S) /\ m \in Nat /\ n \in Nat /\ Len(st) = m + n
      /\ \A k \in 1 .. m + n : st[k] = IF k <= m THEN s[k] ELSE t[k - m]
  BY ConcatProperties
<1> HIDE DEF st
<1>2. /\ a \in Seq(Int) /\ Len(a) = m /\ \A k \in 1 .. m : a[k] = PieceBytes(g, s[k])
      /\ SizeOf(g, s) = Total(a)
  BY SizesFacts
<1>3. /\ b \in Seq(Int) /\ Len(b) = n /\ \A k \in 1 .. n : b[k] = PieceBytes(g, t[k])
      /\ SizeOf(g, t) = Total(b)
  BY SizesFacts
<1>4. /\ c \in Seq(Int) /\ Len(c) = m + n /\ \A k \in 1 .. m + n : c[k] = PieceBytes(g, st[k])
      /\ SizeOf(g, st) = Total(c)
  <2>1. /\ c \in Seq(Int) /\ Len(c) = Len(st) /\ \A k \in 1 .. Len(st) : c[k] = PieceBytes(g, st[k])
        /\ SizeOf(g, st) = Total(c)
    BY <1>1, SizesFacts
  <2> HIDE DEF c, m, n
  <2> QED BY <1>1, <2>1
<1> HIDE DEF a, b, c, m, n
<1>5. /\ a \o b \in Seq(Int) /\ Len(a \o b) = m + n
      /\ \A k \in 1 .. m + n : (a \o b)[k] = IF k <= m THEN a[k] ELSE b[k - m]
  <2>1. /\ a \o b \in Seq(Int) /\ Len(a \o b) = Len(a) + Len(b)
        /\ \A k \in 1 .. Len(a) + Len(b) : (a \o b)[k] = IF k <= Len(a) THEN a[k] ELSE b[k - Len(a)]
    BY <1>2, <1>3, ConcatProperties
  <2> QED BY <1>2, <1>3, <2>1
<1>6. \A k \in 1 .. m + n : c[k] = (a \o b)[k]
  <2> SUFFICES ASSUME NEW k \in 1 .. m + n PROVE c[k] = (a \o b)[k]
    OBVIOUS
  <2>1. CASE k <= m
    <3>1. k \in 1 .. m
      BY <1>1, <2>1
    <3> QED BY <1>1, <1>2, <1>4, <1>5, <2>1, <3>1
  <2>2. CASE ~(k <= m)
    <3>1. k - m \in 1 .. n
      BY <1>1, <2>2
    <3> QED BY <1>1, <1>3, <1>4, <1>5, <2>2, <3>1
  <2> QED BY <2>1, <2>2
<1>7. c = a \o b
  <2> DEFINE d == a \o b
  <2>1. d \in Seq(Int) /\ Len(d) = Len(c) /\ \A k \in 1 .. Len(c) : c[k] = d[k]
    BY <1>4, <1>5, <1>6
  <2> HIDE DEF d
  <2>2. c = d
    BY <1>4, <2>1
  <2> QED BY <2>2 DEF d
<1>8. Total(a \o b) = Total(a) + Total(b)
  BY <1>2, <1>3, TotalConcat
<1> QED BY <1>2, <1>3, <1>4, <1>7, <1>8 DEF st

(* The size of the headers does not depend on what is written into Lcod.   *)
LEMMA SizeOfTwins ==
    ASSUME NEW g, NEW s, NEW a, NEW t, NEW b, Twins(s, a, t, b), PieceBytes(g, a) = PieceBytes(g, b)
    PROVE  SizeOf(g, s) = SizeOf(g, t) /\ SizeOf(g, s) \in Nat
<1>1. /\ s \in Seq(HeaderPieces) /\ t \in Seq(HeaderPieces) /\ Len(t) = Len(s) /\ Len(s) >= 3
      /\ s[3] = a /\ t[3] = b /\ \A i \in 1 .. Len(s) : i # 3 => s[i] = t[i]
  BY DEF Twins
<1>2. Sized(g, HeaderPieces)
  BY HeaderPieceBytes DEF Sized
<1> DEFINE x == PieceSizes(g, s)
           y == PieceSizes(g, t)
           n == Len(s)
<1>3. /\ x \in Seq(Int) /\ Len(x) = n /\ \A k \in 1 .. n : x[k] = PieceBytes(g, s[k])
      /\ SizeOf(g, s) = Total(x)
  BY <1>1, <1>2, SizesFacts
<1>4. /\ y \in Seq(Int) /\ Len(y) = n /\ \A k \in 1 .. n : y[k] = PieceBytes(g, t[k])
      /\ SizeOf(g, t) = Total(y)
  <2>1. /\ y \in Seq(Int) /\ Len(y) = Len(t) /\ \A k \in 1 .. Len(t) : y[k] = PieceBytes(g, t[k])
        /\ SizeOf(g, t) = Total(y)
    BY <1>1, <1>2, SizesFacts
  <2> HIDE DEF y
  <2> QED BY <1>1, <2>1
<1> HIDE DEF x, y
<1>5. \A k \in 1 .. n : x[k] = y[k]
  <2> SUFFICES ASSUME NEW k \in 1 .. n PROVE x[k] = y[k]
    OBVIOUS
  <2>1. CASE k = 3
    BY <1>1, <1>3, <1>4, <2>1
  <2>2. CASE k # 3
    BY <1>1, <1>3, <1>4, <2>2
  <2> QED BY <2>1, <2>2
<1>6. x = y
  <2>1. x \in Seq(Int) /\ y \in Seq(Int) /\ Len(x) = Len(y) /\ \A k \in 1 .. Len(x) : x[k] = y[k]
    BY <1>3, <1>4, <1>5
  <2> QED BY <2>1
<1>7. Total(x) \in Nat
  <2>1. \A k \in 1 .. n : x[k] \in Nat
    <3>1. \A k \in 1 .. n : s[k] \in HeaderPieces
      BY <1>1
    <3>2. \A v \in HeaderPieces : PieceBytes(g, v) \in Nat
      BY HeaderPieceBytes
    <3> QED BY <1>3, <3>1, <3>2
  <2>2. Len(x) \in Nat
    BY <1>3
  <2> QED BY <1>3, <2>1, <2>2, TotalNat
<1> QED BY <1>3, <1>4, <1>6, <1>7

LEMMA LcodIsFree ==
    ASSUME NEW g, Fitted(g), HeaderNames \subseteq DOMAIN g, NEW size \in Int
    PROVE  LET e == [g EXCEPT !.lcod = size]
           IN  /\ WriteHeaders(e) \in Seq(HeaderPieces) /\ Len(WriteHeaders(e)) >= 3
               /\ WriteHeaders(e)[3] = Segment("PIH", PihPayload(e))
               /\ SizeOf(g, WriteHeaders(e)) = HeaderBytes(g) /\ HeaderBytes(g) \in Nat
               /\ Fitted(e) /\ e.lcod = size
<1> DEFINE e == [g EXCEPT !.lcod = size]
<1>1. Alike(g, e) /\ e.lcod = size
  BY LcodAlone
<1> HIDE DEF e
<1>2. Fitted(e)
  BY <1>1, AlikeFitted
<1> DEFINE a == Segment("PIH", PihPayload(g))
           b == Segment("PIH", PihPayload(e))
           s == WriteHeaders(g)
           t == WriteHeaders(e)
<1>3. Twins(s, a, t, b)
  BY <1>1, <1>2, WrittenTwice
<1>4. /\ PihPayload(g) \in Seq(Bit) /\ PihPayload(e) \in Seq(Bit)
      /\ Len(PihPayload(g)) = Len(PihPayload(e))
  BY <1>2, PihBits
<1>5. PieceBytes(g, a) = PieceBytes(g, b)
  <2>1. "PIH" \in HeaderMarkers
    BY DEF HeaderMarkers
  <2> QED BY <1>4, <2>1, HeaderPieceBytes
<1> HIDE DEF a, s, t
<1>6. SizeOf(g, s) = SizeOf(g, t) /\ SizeOf(g, s) \in Nat
  BY <1>3, <1>5, SizeOfTwins
<1>7. t \in Seq(HeaderPieces) /\ Len(t) >= 3 /\ t[3] = b
  BY <1>3 DEF Twins
<1> QED BY <1>1, <1>2, <1>6, <1>7 DEF HeaderBytes, s, t, e

(* A sum grows by its last term.                                           *)
LEMMA TotalGrows ==
    ASSUME NEW n \in Nat, NEW e, \A t \in 1 .. n + 1 : e[t] \in Int
    PROVE  /\ Total([t \in 1 .. n + 1 |-> e[t]]) = Total([t \in 1 .. n |-> e[t]]) + e[n + 1]
           /\ Total([t \in 1 .. n |-> e[t]]) \in Int
<1> DEFINE a == [t \in 1 .. n + 1 |-> e[t]]
           b == [t \in 1 .. n |-> e[t]]
<1>1. Len(a) = n + 1 /\ Len(b) = n
  <2>1. a = [t \in 1 .. n + 1 |-> a[t]] /\ b = [t \in 1 .. n |-> b[t]] /\ n + 1 \in Nat
    OBVIOUS
  <2> HIDE DEF a, b
  <2>2. Len(a) = n + 1
    BY <2>1, IsSequence
  <2>3. Len(b) = n
    BY <2>1, IsSequence
  <2> QED BY <2>2, <2>3
<1>2. /\ \A k \in 1 .. n + 1 : a[k] = e[k]
      /\ \A k \in 1 .. n : b[k] = e[k]
  OBVIOUS
<1> HIDE DEF a, b
<1>3. Ints(a) /\ Ints(b)
  BY <1>1, <1>2 DEF Ints
<1>4. Len(a) > 0 /\ Len(b) = Len(a) - 1 /\ \A k \in 1 .. Len(a) - 1 : b[k] = a[k]
  BY <1>1, <1>2
<1>5. Total(a) = Total(b) + a[Len(a)]
  BY <1>3, <1>4, TotalLast
<1>6. a[Len(a)] = e[n + 1]
  BY <1>1, <1>2
<1>7. Total(b) \in Int
  BY <1>3, TotalIsInt
<1> QED BY <1>5, <1>6, <1>7 DEF a, b

LEMMA TotalChanges ==
    ASSUME NEW n \in Nat \ {0}, NEW e, NEW f, \A t \in 1 .. n : e[t] \in Int /\ f[t] \in Int,
           \A t \in 1 .. n : t # n => e[t] = f[t]
    PROVE  Total([t \in 1 .. n |-> f[t]]) = (Total([t \in 1 .. n |-> e[t]]) + f[n]) - e[n]
<1>1. PICK m \in Nat : n = m + 1
  <2>1. n - 1 \in Nat /\ n = (n - 1) + 1
    OBVIOUS
  <2> QED BY <2>1
<1>2. /\ Total([t \in 1 .. m + 1 |-> e[t]]) = Total([t \in 1 .. m |-> e[t]]) + e[m + 1]
      /\ Total([t \in 1 .. m |-> e[t]]) \in Int
  BY <1>1, TotalGrows
<1>3. Total([t \in 1 .. m + 1 |-> f[t]]) = Total([t \in 1 .. m |-> f[t]]) + f[m + 1]
  BY <1>1, TotalGrows
<1>4. [t \in 1 .. m |-> f[t]] = [t \in 1 .. m |-> e[t]]
  BY <1>1
<1>5. e[n] \in Int /\ f[n] \in Int
  OBVIOUS
<1> DEFINE x == Total([t \in 1 .. m |-> e[t]])
           y == Total([t \in 1 .. n |-> e[t]])
           z == Total([t \in 1 .. n |-> f[t]])
<1>6. y = x + e[n] /\ z = x + f[n] /\ x \in Int
  BY <1>1, <1>2, <1>3, <1>4
<1> HIDE DEF x, y, z
<1>7. z = (y + f[n]) - e[n]
  BY <1>5, <1>6
<1> QED BY <1>7 DEF y, z

(* Slices in bytes.                                                        *)
SliceWith(y, k, w) == [marker |-> "SLH", ysl |-> y, precincts |-> [j \in 1 .. k |-> w[j]]]
LEMMA SliceBytes ==
    ASSUME NEW g, PrecinctHeaderBytes(g) \in Int, NEW y, NEW k \in Nat, NEW w, \A j \in 1 .. k : w[j].lprc \in Int
    PROVE  /\ PieceBytes(g, SliceWith(y, k, w)) = 6 + Total([j \in 1 .. k |-> PrecinctHeaderBytes(g) + w[j].lprc])
           /\ PieceBytes(g, SliceWith(y, k, w)) \in Int
<1> DEFINE x == SliceWith(y, k, w)
           q == [j \in 1 .. k |-> w[j]]
           z == [j \in 1 .. k |-> PrecinctHeaderBytes(g) + w[j].lprc]
<1>1. x.marker = "SLH" /\ x.precincts = q
  BY DEF SliceWith
<1>2. DOMAIN q = 1 .. k /\ \A j \in 1 .. k : q[j] = w[j]
  OBVIOUS
<1> HIDE DEF x, q
<1>3. PieceBytes(g, x) = SliceHeaderBytes + Total([j \in DOMAIN x.precincts |->
                                               PrecinctHeaderBytes(g) + x.precincts[j].lprc])
  BY <1>1 DEF PieceBytes
<1>4. [j \in DOMAIN x.precincts |-> PrecinctHeaderBytes(g) + x.precincts[j].lprc] = z
  BY <1>1, <1>2
<1>5. PieceBytes(g, x) = 6 + Total(z)
  BY <1>3, <1>4 DEF SliceHeaderBytes
<1>6. Ints(z)
  <2>1. z = [j \in 1 .. k |-> z[j]] /\ \A j \in 1 .. k : z[j] \in Int
    OBVIOUS
  <2> HIDE DEF z
  <2>2. Len(z) = k
    BY <2>1, IsSequence
  <2> QED BY <2>1, <2>2 DEF Ints
<1>7. Total(z) \in Int
  BY <1>6, TotalIsInt
<1> QED BY <1>5, <1>7 DEF x

LEMMA EmptySliceBytes ==
    ASSUME NEW g, PrecinctHeaderBytes(g) \in Int, NEW y
    PROVE  PieceBytes(g, [marker |-> "SLH", ysl |-> y, precincts |-> <<>>]) = 6
<1>1. PICK w : w = [j \in 1 .. 0 |-> j]
  OBVIOUS
<1>2. [marker |-> "SLH", ysl |-> y, precincts |-> <<>>] = SliceWith(y, 0, w)
  <2>1. [j \in 1 .. 0 |-> w[j]] = <<>>
    OBVIOUS
  <2> QED BY <2>1 DEF SliceWith
<1>3. PICK k \in Nat : k = 0
  OBVIOUS
<1>6. \A j \in 1 .. k : w[j].lprc \in Int
  BY <1>3
<1>4. PieceBytes(g, SliceWith(y, k, w)) = 6 + Total([j \in 1 .. k |-> PrecinctHeaderBytes(g) + w[j].lprc])
  BY <1>6, SliceBytes
<1>5. Total([j \in 1 .. 0 |-> PrecinctHeaderBytes(g) + w[j].lprc]) = 0
  <2>1. [j \in 1 .. 0 |-> PrecinctHeaderBytes(g) + w[j].lprc] = <<>>
    OBVIOUS
  <2> QED BY <2>1, TotalNone
<1> QED BY <1>2, <1>3, <1>4, <1>5

LEMMA SliceGrows ==
    ASSUME NEW g, PrecinctHeaderBytes(g) \in Int, NEW y, NEW k \in Nat, NEW v, \A j \in 1 .. k : v[j].lprc \in Int,
           NEW w, w.lprc \in Int
    PROVE  PieceBytes(g, SliceWith(y, k + 1, [j \in 1 .. k + 1 |-> IF j <= k THEN v[j] ELSE w]))
               = PieceBytes(g, SliceWith(y, k, v)) + (PrecinctHeaderBytes(g) + w.lprc)
<1> DEFINE one == [j \in 1 .. k + 1 |-> IF j <= k THEN v[j] ELSE w]
           b == PrecinctHeaderBytes(g)
           e == [j \in 1 .. k + 1 |-> b + one[j].lprc]
<1>1. \A j \in 1 .. k : one[j] = v[j] /\ one[j].lprc \in Int
  OBVIOUS
<1>2. one[k + 1] = w
  OBVIOUS
<1>3. \A j \in 1 .. k + 1 : one[j].lprc \in Int
  OBVIOUS
<1> HIDE DEF one, b
<1>4. b \in Int
  BY DEF b
<1>5. \A j \in 1 .. k + 1 : e[j] = b + one[j].lprc /\ e[j] \in Int
  BY <1>3, <1>4
<1> HIDE DEF e
<1>6. /\ Total([j \in 1 .. k + 1 |-> e[j]]) = Total([j \in 1 .. k |-> e[j]]) + e[k + 1]
      /\ Total([j \in 1 .. k |-> e[j]]) \in Int
  BY <1>5, TotalGrows
<1>7. PieceBytes(g, SliceWith(y, k + 1, one)) = 6 + Total([j \in 1 .. k + 1 |-> b + one[j].lprc])
  BY <1>3, SliceBytes, k + 1 \in Nat DEF b
<1>8. PieceBytes(g, SliceWith(y, k, v)) = 6 + Total([j \in 1 .. k |-> b + v[j].lprc])
  BY SliceBytes DEF b
<1>9. [j \in 1 .. k + 1 |-> e[j]] = [j \in 1 .. k + 1 |-> b + one[j].lprc]
  BY <1>5
<1>10. [j \in 1 .. k |-> e[j]] = [j \in 1 .. k |-> b + v[j].lprc]
  BY <1>1, <1>5
<1>11. e[k + 1] = b + w.lprc /\ b + w.lprc \in Int
  BY <1>2, <1>4, <1>5
<1> DEFINE t1 == Total([j \in 1 .. k + 1 |-> e[j]])
           t0 == Total([j \in 1 .. k |-> e[j]])
           p1 == PieceBytes(g, SliceWith(y, k + 1, one))
           p0 == PieceBytes(g, SliceWith(y, k, v))
           x == b + w.lprc
<1>12. t1 = t0 + x /\ t0 \in Int /\ x \in Int /\ p1 = 6 + t1 /\ p0 = 6 + t0
  BY <1>6, <1>7, <1>8, <1>9, <1>10, <1>11
<1> HIDE DEF t1, t0, p1, p0, x
<1>13. p1 = p0 + x
  BY <1>12
<1> QED BY <1>13 DEF p1, p0, x, b, one

(* The codestream so far, with a slice more or with more in its last one.  *)
LEMMA SizeOfSlices ==
    ASSUME NEW g, NEW n \in Nat, NEW s
    PROVE  SizeOf(g, [t \in 1 .. n |-> s[t]]) = Total([t \in 1 .. n |-> PieceBytes(g, s[t])])
<1>1. [k \in DOMAIN [t \in 1 .. n |-> s[t]] |-> PieceBytes(g, [t \in 1 .. n |-> s[t]][k])]
      = [t \in 1 .. n |-> PieceBytes(g, s[t])]
  OBVIOUS
<1> QED BY <1>1 DEF SizeOf

LEMMA OneSliceMore ==
    ASSUME NEW g, NEW n \in Nat, NEW s, \A t \in 1 .. n : PieceBytes(g, s[t]) \in Int, NEW x, PieceBytes(g, x) \in Int
    PROVE  SizeOf(g, [t \in 1 .. n + 1 |-> IF t <= n THEN s[t] ELSE x])
               = SizeOf(g, [t \in 1 .. n |-> s[t]]) + PieceBytes(g, x)
<1> DEFINE a == [t \in 1 .. n + 1 |-> IF t <= n THEN s[t] ELSE x]
           e == [t \in 1 .. n + 1 |-> PieceBytes(g, a[t])]
<1>1. (\A t \in 1 .. n : a[t] = s[t]) /\ a[n + 1] = x /\ a = [t \in 1 .. n + 1 |-> a[t]]
  OBVIOUS
<1> HIDE DEF a
<1>2. \A t \in 1 .. n + 1 : e[t] = PieceBytes(g, a[t]) /\ e[t] \in Int
  <2> SUFFICES ASSUME NEW t \in 1 .. n + 1 PROVE PieceBytes(g, a[t]) \in Int
    OBVIOUS
  <2>1. t \in 1 .. n \/ t = n + 1
    OBVIOUS
  <2> QED BY <1>1, <2>1
<1> HIDE DEF e
<1>3. Total([t \in 1 .. n + 1 |-> e[t]]) = Total([t \in 1 .. n |-> e[t]]) + e[n + 1]
  BY <1>2, TotalGrows
<1>4. [t \in 1 .. n + 1 |-> e[t]] = [t \in 1 .. n + 1 |-> PieceBytes(g, a[t])]
  BY <1>2
<1>5. [t \in 1 .. n |-> e[t]] = [t \in 1 .. n |-> PieceBytes(g, s[t])]
  <2>1. \A t \in 1 .. n : t \in 1 .. n + 1
    OBVIOUS
  <2>2. \A t \in 1 .. n : e[t] = PieceBytes(g, s[t])
    BY <1>1, <1>2, <2>1
  <2> QED BY <2>2
<1>6. SizeOf(g, [t \in 1 .. n + 1 |-> a[t]]) = Total([t \in 1 .. n + 1 |-> PieceBytes(g, a[t])])
  BY SizeOfSlices, n + 1 \in Nat
<1>7. SizeOf(g, [t \in 1 .. n |-> s[t]]) = Total([t \in 1 .. n |-> PieceBytes(g, s[t])])
  BY SizeOfSlices
<1>8. e[n + 1] = PieceBytes(g, x)
  BY <1>1, <1>2
<1>9. SizeOf(g, a) = SizeOf(g, [t \in 1 .. n |-> s[t]]) + PieceBytes(g, x)
  BY <1>1, <1>3, <1>4, <1>5, <1>6, <1>7, <1>8
<1> QED BY <1>9 DEF a

LEMMA LastSliceChanges ==
    ASSUME NEW g, NEW n \in Nat \ {0}, NEW s, \A t \in 1 .. n : PieceBytes(g, s[t]) \in Int, NEW x, PieceBytes(g, x) \in Int
    PROVE  SizeOf(g, [t \in 1 .. n |-> IF t = n THEN x ELSE s[t]])
               = (SizeOf(g, [t \in 1 .. n |-> s[t]]) + PieceBytes(g, x)) - PieceBytes(g, s[n])
<1> DEFINE a == [t \in 1 .. n |-> IF t = n THEN x ELSE s[t]]
           e == [t \in 1 .. n |-> PieceBytes(g, s[t])]
           f == [t \in 1 .. n |-> PieceBytes(g, a[t])]
<1>1. (\A t \in 1 .. n : t # n => a[t] = s[t]) /\ a[n] = x /\ a = [t \in 1 .. n |-> a[t]]
  OBVIOUS
<1> HIDE DEF a
<1>2. \A t \in 1 .. n : f[t] = PieceBytes(g, a[t]) /\ f[t] \in Int
  BY <1>1
<1>3. \A t \in 1 .. n : e[t] = PieceBytes(g, s[t]) /\ e[t] \in Int
  OBVIOUS
<1>a. n \in 1 .. n
  OBVIOUS
<1> HIDE DEF e, f
<1>4. \A t \in 1 .. n : t # n => e[t] = f[t]
  BY <1>1, <1>2, <1>3
<1>5. Total([t \in 1 .. n |-> f[t]]) = (Total([t \in 1 .. n |-> e[t]]) + f[n]) - e[n]
  BY <1>2, <1>3, <1>4, TotalChanges
<1>6. [t \in 1 .. n |-> f[t]] = [t \in 1 .. n |-> PieceBytes(g, a[t])]
  BY <1>2
<1>7. [t \in 1 .. n |-> e[t]] = [t \in 1 .. n |-> PieceBytes(g, s[t])]
  BY <1>3
<1>8. SizeOf(g, [t \in 1 .. n |-> a[t]]) = Total([t \in 1 .. n |-> PieceBytes(g, a[t])])
  BY SizeOfSlices
<1>9. SizeOf(g, [t \in 1 .. n |-> s[t]]) = Total([t \in 1 .. n |-> PieceBytes(g, s[t])])
  BY SizeOfSlices
<1>10. f[n] = PieceBytes(g, x) /\ e[n] = PieceBytes(g, s[n])
  BY <1>1, <1>2, <1>3, <1>a
<1>11. SizeOf(g, a) = (SizeOf(g, [t \in 1 .. n |-> s[t]]) + PieceBytes(g, x)) - PieceBytes(g, s[n])
  BY <1>1, <1>5, <1>6, <1>7, <1>8, <1>9, <1>10
<1> QED BY <1>11 DEF a

(* Precincts per slice.  The header of the next slice is due where the     *)
(* precincts of those begun end; until then the precinct is within the     *)
(* last one begun.                                                         *)
PerSlice(g) == g.hsl * PrecinctsPerRow(g)
Due(n, i, per) == i <= n * per /\ n * per < i + per
Within(n, i, per) == n >= 1 /\ (n - 1) * per <= i /\ i < n * per

LEMMA SlicesCover ==
    ASSUME NEW g, Fitted(g)
    PROVE  /\ PerSlice(g) \in Nat \ {0}
           /\ NumPrecincts(g) <= NumSlices(g) * PerSlice(g)
           /\ (NumSlices(g) - 1) * PerSlice(g) < NumPrecincts(g)
           /\ \A i : StartsSlice(g, i) <=> \E t \in 0 .. NumSlices(g) - 1 : i = t * PerSlice(g)
<1> DEFINE rows == PrecinctRows(g)
           row == PrecinctsPerRow(g)
           H == g.hsl
           ns == NumSlices(g)
           per == PerSlice(g)
<1>1. rows \in Nat \ {0} /\ row \in Nat \ {0} /\ ns \in Nat \ {0}
  BY Numbers
<1>2. H \in Nat \ {0}
  BY DEF Fitted, FittedLayout
<1>3. per = H * row
  BY DEF PerSlice
<1>4. NumPrecincts(g) = row * rows
  BY DEF NumPrecincts
<1>5. ns = ((rows + H) - 1) \div H
  <2>1. ns = CeilDiv(rows, H)
    BY DEF NumSlices
  <2> HIDE DEF ns, rows, H
  <2>2. (rows + H) - 1 = rows + H - 1
    BY <1>1, <1>2
  <2> QED BY <2>1, <2>2 DEF CeilDiv
<1>6. \A t : SliceFirstPrecinct(g, t) = t * H * row
  BY DEF SliceFirstPrecinct
<1>7. \A i : StartsSlice(g, i) <=> \E t \in 0 .. ns - 1 : i = t * H * row
  BY <1>6 DEF StartsSlice
<1> HIDE DEF rows, row, H, ns, per
<1>8. per \in Nat \ {0}
  BY <1>1, <1>2, <1>3
<1>9. \A t \in Nat : t * H * row = t * per
  BY <1>1, <1>2, <1>3
<1>10. \A i : StartsSlice(g, i) <=> \E t \in 0 .. ns - 1 : i = t * per
  <2>1. \A t \in 0 .. ns - 1 : t \in Nat
    BY <1>1
  <2>2. \A t \in 0 .. ns - 1 : t * H * row = t * per
    BY <1>9, <2>1
  <2> QED BY <1>7, <2>2
<1>11. rows <= ns * H /\ (ns - 1) * H < rows
  <2> DEFINE a == (rows + H) - 1
  <2>1. a \in Nat
    BY <1>1, <1>2
  <2>2. (a \div H) * H <= a /\ a < (a \div H) * H + H
    <3> HIDE DEF a
    <3> QED BY <1>2, <2>1
  <2>3. ns * H <= a /\ a < ns * H + H
    BY <1>5, <2>2
  <2>4. (ns - 1) * H = ns * H - H
    BY <1>1, <1>2
  <2> DEFINE m == ns * H
             l == (ns - 1) * H
  <2>5. m \in Int /\ l = m - H /\ m <= a /\ a < m + H
    BY <1>1, <1>2, <2>3, <2>4
  <2> HIDE DEF m, l
  <2>6. rows <= m /\ l < rows
    BY <1>1, <1>2, <2>5
  <2> QED BY <2>6 DEF m, l
<1>12. row * rows <= ns * per
  <2> DEFINE k == ns * H
  <2>1. k \in Nat /\ rows <= k
    BY <1>1, <1>2, <1>11
  <2>2. ns * per = row * k
    BY <1>1, <1>2, <1>3
  <2> HIDE DEF k
  <2>3. row * rows <= row * k
    BY <1>1, <2>1
  <2> QED BY <2>2, <2>3
<1>13. (ns - 1) * per < row * rows
  <2> DEFINE k == (ns - 1) * H
  <2>1. k \in Nat /\ k < rows
    BY <1>1, <1>2, <1>11
  <2>2. (ns - 1) * per = row * k
    BY <1>1, <1>2, <1>3
  <2> HIDE DEF k
  <2>3. row * k < row * rows
    BY <1>1, <2>1
  <2> QED BY <2>2, <2>3
<1> QED BY <1>4, <1>8, <1>10, <1>12, <1>13 DEF ns, per

LEMMA NextSlice ==
    ASSUME NEW n \in Nat, NEW i \in Nat, NEW per \in Nat \ {0}, NEW ns \in Nat, NEW N \in Nat,
           i < N, N <= ns * per, Due(n, i, per)
    PROVE  /\ (\E t \in 0 .. ns - 1 : i = t * per) => Within(n + 1, i, per)
           /\ ~(\E t \in 0 .. ns - 1 : i = t * per) => Within(n, i, per)
<1>0. n * per \in Nat /\ ns * per \in Nat
  OBVIOUS
<1>1. (n + 1) * per = n * per + per /\ (n - 1) * per = n * per - per /\ (n + 1) - 1 = n
  OBVIOUS
<1>2. ASSUME NEW t \in 0 .. ns - 1, i = t * per PROVE n * per = i
  <2>1. t \in Nat /\ t * per <= n * per /\ n * per < t * per + per /\ (t + 1) * per = t * per + per
    BY <1>2 DEF Due
  <2>2. n * per <= n * per /\ n * per < (t + 1) * per
    BY <1>0, <2>1
  <2>3. n < t + 1
    BY <2>1, <2>2, NotAbove, <1>0
  <2>4. t * per < (n + 1) * per
    BY <1>0, <1>1, <2>1
  <2>5. t < n + 1
    <3>1. t * per \in Nat /\ t * per <= t * per
      BY <2>1
    <3> QED BY <2>1, <2>4, <3>1, NotAbove
  <2>6. t = n
    BY <2>1, <2>3, <2>5
  <2> QED BY <1>2, <2>6
<1>3. n * per = i => Within(n + 1, i, per)
  <2> DEFINE np == n * per
             n1 == (n + 1) * per
  <2>1. np \in Nat /\ n1 = np + per
    BY <1>0, <1>1
  <2> HIDE DEF np, n1
  <2>2. np = i => np <= i /\ i < n1
    BY <2>1
  <2> QED BY <1>1, <2>2 DEF np, n1, Within
<1>4. ASSUME ~(\E t \in 0 .. ns - 1 : i = t * per) PROVE Within(n, i, per)
  <2>1. n * per # i
    <3> SUFFICES ASSUME n * per = i PROVE FALSE
      OBVIOUS
    <3>1. n * per <= n * per /\ n * per < ns * per
      BY <1>0
    <3>2. n < ns
      BY <1>0, <3>1, NotAbove
    <3> QED BY <1>4, <3>2
  <2> DEFINE np == n * per
             n1 == (n - 1) * per
  <2>2. np \in Nat /\ n1 = np - per /\ i <= np /\ np < i + per /\ np # i
    BY <1>0, <1>1, <2>1 DEF Due
  <2> HIDE DEF np, n1
  <2>3. n1 <= i /\ i < np /\ np # 0
    BY <2>2
  <2>4. n >= 1
    <3>1. n = 0 => np = 0
      BY DEF np
    <3> QED BY <2>3, <3>1
  <2> QED BY <2>3, <2>4 DEF np, n1, Within
<1> QED BY <1>2, <1>3, <1>4

LEMMA AfterPrecinct ==
    ASSUME NEW n \in Nat, NEW i \in Nat, NEW per \in Nat \ {0}, Within(n, i, per)
    PROVE  Due(n, i + 1, per)
<1> DEFINE np == n * per
           n1 == (n - 1) * per
<1>1. np \in Nat /\ n1 = np - per /\ n1 <= i /\ i < np
  BY DEF Within
<1> HIDE DEF np, n1
<1>2. i + 1 <= np /\ np < (i + 1) + per
  BY <1>1
<1> QED BY <1>2 DEF np, Due

LEMMA LastSlice ==
    ASSUME NEW n \in Nat, NEW i \in Nat, NEW per \in Nat \ {0}, NEW ns \in Nat \ {0}, NEW N \in Nat,
           i = N - 1, N <= ns * per, (ns - 1) * per < N, Within(n, i, per)
    PROVE  n = ns
<1> DEFINE a == (n - 1) * per
           b == n * per
           c == (ns - 1) * per
           d == ns * per
<1>1. a \in Int /\ b \in Int /\ c \in Int /\ d \in Int
  OBVIOUS
<1>2. a <= i /\ i < b /\ n >= 1
  BY DEF Within
<1>3. N <= d /\ c < N
  OBVIOUS
<1> HIDE DEF a, b, c, d
<1>4. a < d /\ c < b
  BY <1>1, <1>2, <1>3
<1>5. n - 1 < ns
  <2>1. a <= a
    BY <1>1
  <2> QED BY <1>1, <1>4, <2>1, NotAbove DEF a, d
<1>6. ns - 1 < n
  <2>1. c <= c
    BY <1>1
  <2> QED BY <1>1, <1>4, <2>1, NotAbove DEF b, c
<1> QED BY <1>2, <1>5, <1>6

(* What the jobs of the encoder are: headers that fit their fields, and    *)
(* the bytes that are not packets.                                         *)
JobFitted ==
    ~job.foreign => /\ Fitted(h) /\ HeaderNames \subseteq DOMAIN h
                    /\ job.fixed = FixedBytes(h) /\ config.target \in Nat
                    /\ \E j \in Jobs : config = j.config
LEMMA JobInit == Init => JobFitted
<1> SUFFICES ASSUME Init PROVE JobFitted
  OBVIOUS
<1>1. CASE phase = "transform"
  <2>1. PICK j \in Jobs : job = [config |-> j.config, h |-> Tables(MakeHeaders(j.config)),
                                 fixed |-> FixedBytes(Tables(MakeHeaders(j.config))),
                                 image |-> j.image, foreign |-> FALSE, damaged |-> j.damaged]
    BY <1>1 DEF Init
  <2>2. JobOk(j.config)
    BY JobsAssumption DEF JobOk
  <2>3. Fitted(Tables(MakeHeaders(j.config))) /\ HeaderNames \subseteq DOMAIN Tables(MakeHeaders(j.config))
    BY <2>2, TablesFitted
  <2>4. /\ h = Tables(MakeHeaders(j.config)) /\ config = j.config
        /\ job.fixed = FixedBytes(Tables(MakeHeaders(j.config)))
    BY <2>1 DEF h, config
  <2>5. config.target \in Nat
    BY <2>2, <2>4 DEF JobOk
  <2> QED BY <2>3, <2>4, <2>5 DEF JobFitted
<1>2. CASE phase = "deliver"
  <2>1. job.foreign = TRUE
    BY <1>2 DEF Init
  <2> QED BY <2>1 DEF JobFitted
<1> QED BY <1>1, <1>2 DEF Init

LEMMA HeaderBytesIsNat ==
    ASSUME NEW g, Fitted(g), HeaderNames \subseteq DOMAIN g
    PROVE  HeaderBytes(g) \in Nat
<1>1. 0 \in Int
  OBVIOUS
<1> QED BY <1>1, LcodIsFree

LEMMA JobNumbers ==
    ASSUME JobFitted, ~job.foreign
    PROVE  /\ NumBands(h) \in Nat \ {0} /\ NumPrecincts(h) \in Nat \ {0} /\ NumSlices(h) \in Nat \ {0}
           /\ HeaderBytes(h) \in Nat /\ PrecinctHeaderBytes(h) \in Nat
           /\ config.target \in Nat /\ job.fixed \in Nat /\ BodyBudget \in Int
<1>1. Fitted(h) /\ HeaderNames \subseteq DOMAIN h /\ job.fixed = FixedBytes(h) /\ config.target \in Nat
  BY DEF JobFitted
<1>2. NumBands(h) \in Nat \ {0} /\ NumPrecincts(h) \in Nat \ {0} /\ NumSlices(h) \in Nat \ {0}
  BY <1>1, Numbers
<1>3. HeaderBytes(h) \in Nat
  BY <1>1, HeaderBytesIsNat
<1>4. PrecinctHeaderBytes(h) \in Nat
  <2> DEFINE n == NumBands(h)
  <2>1. PrecinctHeaderBytes(h) = BytesFor(40 + 2 * n)
    BY DEF PrecinctHeaderBytes
  <2>2. n \in Nat
    BY <1>2
  <2> HIDE DEF n
  <2>3. 40 + 2 * n \in Nat
    BY <2>2
  <2>4. \A b \in Nat : BytesFor(b) \in Nat
    BY DEF BytesFor
  <2> QED BY <2>1, <2>3, <2>4
<1>5. job.fixed \in Nat
  <2> DEFINE hb == HeaderBytes(h)
             ns == NumSlices(h)
             np == NumPrecincts(h)
             ph == PrecinctHeaderBytes(h)
  <2>1. job.fixed = hb + ns * 6 + 2 + np * ph
    BY <1>1 DEF FixedBytes, SliceHeaderBytes
  <2>2. hb \in Nat /\ ns \in Nat /\ np \in Nat /\ ph \in Nat
    BY <1>2, <1>3, <1>4
  <2> HIDE DEF hb, ns, np, ph
  <2>3. np * ph \in Nat
    BY <2>2
  <2>4. hb + ns * 6 + 2 + np * ph \in Nat
    BY <2>2, <2>3
  <2> QED BY <2>1, <2>4
<1>6. BodyBudget \in Int
  <2>1. config.target - job.fixed \in Int
    BY <1>1, <1>5
  <2>2. \A a \in Int, b \in Nat \ {0} : a \div b \in Int
    OBVIOUS
  <2> QED BY <1>2, <2>1, <2>2 DEF BodyBudget
<1> QED BY <1>1, <1>2, <1>3, <1>4, <1>5, <1>6

-----------------------------------------------------------------------------
(* Rate control.  Coding a precinct with (Q, R) is a function of its       *)
(* coefficients, its coding flags and the predictor of its column, none of *)
(* which change while the pair is searched.                                *)
LEMMA TriedPair ==
    ASSUME NEW g, NEW i, NEW q, NEW r, NEW d, NEW pc, NEW state
    PROVE  /\ EncodePrecinct(g, i, q, r, d, pc, state).q = q
           /\ EncodePrecinct(g, i, q, r, d, pc, state).r = r
           /\ EncodePrecinct(g, i, q, r, d, pc, state).fits =>
                 EncodePrecinct(g, i, q, r, d, pc, state).bytes \in 1 .. 2 ^ 20 - 1
BY Zenon DEF EncodePrecinct, EncodeQuantised, Precinct

Top == 2 * NumBands(h) - 1
ConstantRate == ~job.foreign /\ ~config.lossless

IsSearch(s) ==
    \E d, pc, best : \E lo, hi, rlo, rhi \in Int :
        s = [d |-> d, pc |-> pc, best |-> best, lo |-> lo, hi |-> hi, rlo |-> rlo, rhi |-> rhi]

(* The best pair so far, as the packets it was measured with.              *)
Measured ==
    phase \in {"Q", "R", "emit"} =>
        /\ IsSearch(search) /\ search.best = Try(search.best.q, search.best.r)
        /\ search.best.q \in 0 .. 31 /\ search.best.r \in 0 .. Top /\ search.best.fits
        /\ ConstantRate => Fits(search.best)

(* The binary search for Q: what lies below lo is known not to fit; hi is  *)
(* the best Q.  It ends where they meet.                                   *)
SmallestQ == search.best.q = 0 \/ ~Fits(Try(search.best.q - 1, 0))
SearchingQ ==
    phase = "Q" =>
        /\ ConstantRate /\ search.lo \in 0 .. 31 /\ search.lo < search.hi
        /\ search.hi = search.best.q /\ search.best.r = 0
        /\ search.lo = 0 \/ ~Fits(Try(search.lo - 1, 0))
        /\ search.rlo = 0 /\ search.rhi = Top

(* The one for R, at that Q: the pair after rhi does not fit, rlo is best. *)
LargestR == search.best.r = Top \/ ~Fits(Try(search.best.q, search.best.r + 1))
SearchingR ==
    phase = "R" =>
        /\ ConstantRate /\ SmallestQ
        /\ search.rlo = search.best.r /\ search.rlo < search.rhi /\ search.rhi <= Top
        /\ search.rhi = Top \/ ~Fits(Try(search.best.q, search.rhi + 1))

BestIsLocal == phase = "emit" /\ ConstantRate => Fits(search.best) /\ SmallestQ /\ LargestR

Coding ==
    /\ phase \in {"transform", "precinct", "Q", "R", "emit"} => ~job.foreign
    /\ ~job.foreign => /\ NumBands(h) \in Nat \ {0} /\ NumPrecincts(h) \in Nat \ {0}
                       /\ config.target \in Nat /\ job.fixed \in Nat

RateInv == Coding /\ Measured /\ SearchingQ /\ SearchingR /\ BestIsLocal

LEMMA RateInit == Init => RateInv
<1> SUFFICES ASSUME Init PROVE RateInv
  OBVIOUS
<1>1. Coding
  <2>1. JobFitted
    BY JobInit
  <2>2. phase = "transform" => ~job.foreign
    BY DEF Init
  <2>3. phase \in {"transform", "deliver"}
    BY DEF Init
  <2> QED BY <2>1, <2>2, <2>3, JobNumbers DEF Coding
<1>2. phase \in {"transform", "deliver"}
  BY DEF Init
<1> QED BY <1>1, <1>2 DEF RateInv, Measured, SearchingQ, SearchingR, BestIsLocal

LEMMA SameTry ==
    ASSUME UNCHANGED <<job, p, enc>>, search'.d = search.d, search'.pc = search.pc
    PROVE  /\ \A q, r : Try(q, r)' = Try(q, r)
           /\ \A c : Fits(c)' = Fits(c)
           /\ Top' = Top /\ ConstantRate' = ConstantRate
BY DEF Try, Fits, Top, ConstantRate, BodyBudget, h, config, Column

LEMMA Halfway ==
    ASSUME NEW a \in Nat, NEW b \in Nat, a < b
    PROVE  /\ (a + b) \div 2 \in a .. b - 1
           /\ (a + b + 1) \div 2 \in a + 1 .. b
OBVIOUS

(* A probe of the search for Q.                                            *)
LEMMA RateTryQ == ASSUME RateInv, TryQ PROVE RateInv'
<1> USE DEF Coding
<1>1. /\ phase = "Q" /\ ConstantRate /\ IsSearch(search) /\ search.best = Try(search.best.q, search.best.r)
      /\ search.best.q \in 0 .. 31 /\ search.best.r = 0 /\ search.best.fits /\ Fits(search.best)
      /\ search.lo \in 0 .. 31 /\ search.lo < search.hi /\ search.hi = search.best.q
      /\ search.lo = 0 \/ ~Fits(Try(search.lo - 1, 0))
      /\ search.rlo = 0 /\ search.rhi = Top
  BY DEF RateInv, Measured, SearchingQ, TryQ
<1>2. UNCHANGED <<job, p, enc>>
  BY DEF TryQ
<1>3. Coding'
  BY <1>1, <1>2 DEF RateInv, TryQ, ConstantRate, h, config
<1> DEFINE mid == (search.lo + search.hi) \div 2
<1> DEFINE tried == Try(mid, 0)
<1>4. mid \in search.lo .. search.hi - 1 /\ mid \in 0 .. 31
  <2>1. search.lo \in Nat /\ search.hi \in Nat /\ search.lo < search.hi
    BY <1>1
  <2>2. mid \in search.lo .. search.hi - 1
    BY <2>1, Halfway
  <2> HIDE DEF mid
  <2> QED BY <1>1, <2>2
<1>5. tried.q = mid /\ tried.r = 0 /\ tried = Try(tried.q, tried.r)
  BY TriedPair DEF Try
<1>6. search' = ProbeQ(tried)
      /\ phase' = IF ~tried.fits THEN "threw" ELSE IF search'.lo < search'.hi THEN "Q" ELSE "R"
  BY DEF TryQ
<1> HIDE DEF mid, tried
<1>7. PICK d, pc, best : \E lo, hi, rlo, rhi \in Int :
          search = [d |-> d, pc |-> pc, best |-> best, lo |-> lo, hi |-> hi, rlo |-> rlo, rhi |-> rhi]
  BY <1>1 DEF IsSearch
<1>8. /\ IsSearch(search') /\ search'.d = search.d /\ search'.pc = search.pc
      /\ search'.rlo = search.rlo /\ search'.rhi = search.rhi
      /\ search'.best = IF Fits(tried) THEN tried ELSE search.best
      /\ search'.hi = IF Fits(tried) THEN mid ELSE search.hi
      /\ search'.lo = IF Fits(tried) THEN search.lo ELSE mid + 1
  <2>1. PICK lo, hi, rlo, rhi \in Int :
            search = [d |-> d, pc |-> pc, best |-> best, lo |-> lo, hi |-> hi, rlo |-> rlo, rhi |-> rhi]
    BY <1>7
  <2>2. CASE Fits(tried)
    <3>1. search' = [d |-> d, pc |-> pc, best |-> tried, lo |-> lo, hi |-> mid, rlo |-> rlo, rhi |-> rhi]
      BY <1>5, <1>6, <2>1, <2>2 DEF ProbeQ
    <3>2. mid \in Int
      BY <1>4
    <3> QED BY <2>1, <2>2, <3>1, <3>2 DEF IsSearch
  <2>3. CASE ~Fits(tried)
    <3>1. search' = [d |-> d, pc |-> pc, best |-> best, lo |-> mid + 1, hi |-> hi, rlo |-> rlo, rhi |-> rhi]
      BY <1>5, <1>6, <2>1, <2>3 DEF ProbeQ
    <3>2. mid + 1 \in Int
      BY <1>4
    <3> QED BY <2>1, <2>3, <3>1, <3>2 DEF IsSearch
  <2> QED BY <2>2, <2>3
<1>9. /\ \A q, r : Try(q, r)' = Try(q, r)
      /\ \A c : Fits(c)' = Fits(c)
      /\ Top' = Top /\ ConstantRate' = ConstantRate
  BY <1>2, <1>8, SameTry
<1>10. Top \in Nat \ {0}
  BY <1>1 DEF RateInv, Top, ConstantRate
<1> QED BY <1>1, <1>3, <1>4, <1>5, <1>6, <1>8, <1>9, <1>10
        DEF RateInv, Measured, SearchingQ, SearchingR, BestIsLocal, SmallestQ

(* The first pair tried for a precinct: the coarsest one, or (0, 0).       *)
LEMMA RateBegin == ASSUME RateInv, BeginPrecinct PROVE RateInv'
<1>1. phase = "precinct" /\ UNCHANGED <<job, p>>
  BY DEF BeginPrecinct
<1>2. ~job.foreign /\ Coding /\ NumBands(h) \in Nat \ {0}
  BY <1>1 DEF RateInv, Coding
<1> DEFINE d == [vertical |-> config.vertical /\ enc'[Column(h)].valid, significance |-> config.significance]
<1> DEFINE q == IF config.lossless THEN 0 ELSE 31
<1>3. PICK pc, first :
         /\ first = EncodePrecinct(h, p, q, 0, d, pc, enc'[Column(h)])
         /\ search' = [d |-> d, pc |-> pc, best |-> first, lo |-> 0, hi |-> 31,
                       rlo |-> 0, rhi |-> 2 * NumBands(h) - 1]
         /\ phase' = IF ~first.fits THEN "threw"
                     ELSE IF config.lossless THEN "emit" ELSE IF Fits(first) THEN "Q" ELSE "rejected"
  BY DEF BeginPrecinct
<1>4. first.q = q /\ first.r = 0
  BY <1>3, TriedPair
<1>5. q \in 0 .. 31 /\ (q = 31 \/ config.lossless)
  OBVIOUS
<1> HIDE DEF d, q
<1>6. /\ search'.d = d /\ search'.pc = pc /\ search'.best = first /\ search'.lo = 0 /\ search'.hi = 31
      /\ search'.rlo = 0 /\ search'.rhi = Top
  BY <1>3 DEF Top
<1>7. h' = h /\ config' = config /\ Top' = Top /\ ConstantRate' = ConstantRate /\ Column(h)' = Column(h)
  BY <1>1 DEF h, config, Top, ConstantRate, Column
<1>8. \A c : Fits(c)' = Fits(c)
  BY <1>1 DEF Fits, BodyBudget, h, config
<1>9. Try(search.best.q, search.best.r)' = search'.best
  <2>1. Try(search.best.q, search.best.r)'
           = EncodePrecinct(h', p', search'.best.q, search'.best.r, search'.d, search'.pc, enc'[Column(h)'])
    BY DEF Try
  <2> QED BY <1>1, <1>3, <1>4, <1>6, <1>7, <2>1
<1>10. Top \in Nat \ {0} /\ Top \in Int
  BY <1>2 DEF Top
<1>11. IsSearch(search')
  <2>1. search' = [d |-> d, pc |-> pc, best |-> first, lo |-> 0, hi |-> 31, rlo |-> 0, rhi |-> Top]
    BY <1>3 DEF Top
  <2>2. 0 \in Int /\ 31 \in Int
    OBVIOUS
  <2>3. IsSearch([d |-> d, pc |-> pc, best |-> first, lo |-> 0, hi |-> 31, rlo |-> 0, rhi |-> Top])
    BY <1>10, <2>2, Zenon DEF IsSearch
  <2> QED BY <2>1, <2>3
<1>12. Coding'
  BY <1>1, <1>2, <1>7 DEF Coding
<1>13. Measured'
  BY <1>3, <1>4, <1>5, <1>6, <1>7, <1>8, <1>9, <1>10, <1>11 DEF Measured, ConstantRate
<1>14. SearchingQ'
  BY <1>2, <1>3, <1>4, <1>5, <1>6, <1>7, <1>10 DEF SearchingQ, ConstantRate
<1>15. SearchingR' /\ BestIsLocal'
  BY <1>3, <1>7 DEF SearchingR, BestIsLocal, ConstantRate
<1> QED BY <1>12, <1>13, <1>14, <1>15 DEF RateInv

(* A probe of the search for R.                                            *)
LEMMA RateTryR == ASSUME RateInv, TryR PROVE RateInv'
<1>1. /\ phase = "R" /\ ConstantRate /\ IsSearch(search) /\ search.best = Try(search.best.q, search.best.r)
      /\ search.best.q \in 0 .. 31 /\ search.best.r \in 0 .. Top /\ search.best.fits /\ Fits(search.best)
      /\ SmallestQ /\ search.rlo = search.best.r /\ search.rlo < search.rhi /\ search.rhi <= Top
      /\ search.rhi = Top \/ ~Fits(Try(search.best.q, search.rhi + 1))
  BY DEF RateInv, Measured, SearchingR, TryR
<1>2. UNCHANGED <<job, p, enc>>
  BY DEF TryR
<1>3. Coding' /\ Top \in Nat \ {0}
  BY <1>1, <1>2 DEF RateInv, Coding, TryR, ConstantRate, h, config, Top
<1> DEFINE mid == (search.rlo + search.rhi + 1) \div 2
<1> DEFINE tried == Try(search.best.q, mid)
<1>4. mid \in search.rlo + 1 .. search.rhi /\ mid \in 0 .. Top /\ search.rhi \in Int
  <2>1. PICK d, pc, best : \E lo, hi, rlo, rhi \in Int :
            search = [d |-> d, pc |-> pc, best |-> best, lo |-> lo, hi |-> hi, rlo |-> rlo, rhi |-> rhi]
    BY <1>1 DEF IsSearch
  <2>2. search.rhi \in Int
    BY <2>1
  <2>3. search.rlo \in Nat /\ search.rhi \in Nat /\ search.rlo < search.rhi
    BY <1>1, <1>3, <2>2
  <2>4. mid \in search.rlo + 1 .. search.rhi
    BY <2>3, Halfway
  <2> HIDE DEF mid
  <2> QED BY <1>1, <1>3, <2>2, <2>3, <2>4
<1>5. tried.q = search.best.q /\ tried.r = mid /\ tried = Try(tried.q, tried.r)
  BY TriedPair DEF Try
<1>6. search' = ProbeR(tried)
      /\ phase' = IF ~tried.fits THEN "threw" ELSE IF search'.rlo < search'.rhi THEN "R" ELSE "emit"
  BY DEF TryR
<1> HIDE DEF mid, tried
<1>8. /\ IsSearch(search') /\ search'.d = search.d /\ search'.pc = search.pc
      /\ search'.best = IF Fits(tried) THEN tried ELSE search.best
      /\ search'.rlo = IF Fits(tried) THEN mid ELSE search.rlo
      /\ search'.rhi = IF Fits(tried) THEN search.rhi ELSE mid - 1
  <2>1. PICK d, pc, best : \E lo, hi, rlo, rhi \in Int :
            search = [d |-> d, pc |-> pc, best |-> best, lo |-> lo, hi |-> hi, rlo |-> rlo, rhi |-> rhi]
    BY <1>1 DEF IsSearch
  <2>2. PICK lo, hi, rlo, rhi \in Int :
            search = [d |-> d, pc |-> pc, best |-> best, lo |-> lo, hi |-> hi, rlo |-> rlo, rhi |-> rhi]
    BY <2>1
  <2>3. CASE Fits(tried)
    <3>1. search' = [d |-> d, pc |-> pc, best |-> tried, lo |-> lo, hi |-> hi, rlo |-> mid, rhi |-> rhi]
      BY <1>5, <1>6, <2>2, <2>3 DEF ProbeR
    <3>2. mid \in Int
      BY <1>4
    <3> QED BY <2>2, <2>3, <3>1, <3>2 DEF IsSearch
  <2>4. CASE ~Fits(tried)
    <3>1. search' = [d |-> d, pc |-> pc, best |-> best, lo |-> lo, hi |-> hi, rlo |-> rlo, rhi |-> mid - 1]
      BY <1>5, <1>6, <2>2, <2>4 DEF ProbeR
    <3>2. mid - 1 \in Int
      BY <1>4
    <3> QED BY <2>2, <2>4, <3>1, <3>2 DEF IsSearch
  <2> QED BY <2>3, <2>4
<1>9. /\ \A q, r : Try(q, r)' = Try(q, r)
      /\ \A c : Fits(c)' = Fits(c)
      /\ Top' = Top /\ ConstantRate' = ConstantRate
  BY <1>2, <1>8, SameTry
<1>10. SmallestQ'
  BY <1>1, <1>5, <1>8, <1>9 DEF SmallestQ
<1>11. Measured' /\ SearchingQ'
  BY <1>1, <1>4, <1>5, <1>6, <1>8, <1>9 DEF Measured, SearchingQ
<1>12. search'.rlo = search'.best.r /\ search'.rhi <= Top /\ search'.rlo <= search'.rhi
       /\ search'.rlo \in Int /\ search'.rhi \in Int
       /\ (search'.rhi = Top \/ ~Fits(Try(search'.best.q, search'.rhi + 1)))
  <2>1. CASE Fits(tried)
    BY <1>1, <1>3, <1>4, <1>5, <1>8, <2>1
  <2>2. CASE ~Fits(tried)
    <3>1. mid - 1 + 1 = mid
      BY <1>4
    <3>2. ~Fits(Try(search.best.q, mid - 1 + 1))
      BY <2>2, <3>1 DEF tried
    <3> QED BY <1>1, <1>3, <1>4, <1>5, <1>8, <2>2, <3>2
  <2> QED BY <2>1, <2>2
<1>14. SearchingR'
  BY <1>1, <1>6, <1>9, <1>10, <1>12 DEF SearchingR
<1>15. BestIsLocal'
  <2>1. SUFFICES ASSUME phase' = "emit" PROVE (Fits(search.best) /\ LargestR)'
    BY <1>10 DEF BestIsLocal
  <2>2. search'.rlo = search'.rhi
    BY <1>6, <1>12, <2>1
  <2>3. Fits(search.best)'
    BY <1>1, <1>8, <1>9
  <2>4. LargestR'
    BY <1>9, <1>12, <2>2 DEF LargestR
  <2> QED BY <2>3, <2>4
<1> QED BY <1>3, <1>11, <1>14, <1>15 DEF RateInv

(* What has been written: slices in the order of their numbers, and in them*)
(* precincts a decoder can take.                                           *)
Written(w) ==
    /\ w.q \in 0 .. 31 /\ w.r \in 0 .. Top /\ w.lprc \in 1 .. 2 ^ 20 - 1
    /\ Total([s \in DOMAIN w.packets |-> PacketBytes(h, w.packets[s])]) \in 1 .. w.lprc
    /\ \A s \in DOMAIN w.packets : LengthsFit(h, w.packets[s])
IsSlice(s, ysl) ==
    \E n \in Nat : \E w :
        /\ s = [marker |-> "SLH", ysl |-> ysl, precincts |-> [k \in 1 .. n |-> w[k]]]
        /\ \A k \in 1 .. n : Written(w[k])
StreamReadable == \E n \in Nat : \E s :
    stream = [t \in 1 .. n |-> s[t]] /\ \A t \in 1 .. n : IsSlice(s[t], t - 1)
Budgeted == phase \in {"precinct", "Q", "R", "emit"} /\ ConstantRate => BodyBudget \in 1 .. 2 ^ 20 - 1

LEMMA SequenceOf ==
    ASSUME NEW n \in Nat, NEW s, NEW x
    PROVE  LET q == [t \in 1 .. n |-> s[t]]
           IN  /\ Len(q) = n
               /\ Append(q, x) = [t \in 1 .. n + 1 |-> IF t <= n THEN s[t] ELSE x]
<1> DEFINE q == [t \in 1 .. n |-> s[t]]
<1> DEFINE S == {s[t] : t \in 1 .. n} \cup {x}
<1>1. q \in Seq(S)
  OBVIOUS
<1>2. x \in S
  OBVIOUS
<1>3. Len(q) = n
  BY <1>1
<1>4. Append(q, x) \in Seq(S) /\ Len(Append(q, x)) = n + 1
      /\ \A t \in 1 .. n + 1 : Append(q, x)[t] = IF t <= n THEN q[t] ELSE x
  <2> HIDE DEF q, S
  <2> QED BY <1>1, <1>2, <1>3
<1>5. Append(q, x) = [t \in 1 .. n + 1 |-> IF t <= n THEN s[t] ELSE x]
  <2> DEFINE a == Append(q, x)
  <2>1. a = [t \in 1 .. n + 1 |-> a[t]]
    <3>1. a \in Seq(S) /\ Len(a) = n + 1
      BY <1>4
    <3> HIDE DEF a, S
    <3> QED BY <3>1
  <2>2. \A t \in 1 .. n + 1 : a[t] = IF t <= n THEN s[t] ELSE x
    <3>1. \A t \in 1 .. n + 1 : a[t] = IF t <= n THEN q[t] ELSE x
      BY <1>4
    <3>2. \A t \in 1 .. n + 1 : t <= n => q[t] = s[t]
      OBVIOUS
    <3> HIDE DEF a, q
    <3> QED BY <3>1, <3>2
  <2> HIDE DEF a
  <2> QED BY <2>1, <2>2
<1> QED BY <1>3, <1>5

LEMMA CodedFits ==
    ASSUME NEW g, NEW i, NEW q, NEW r, NEW d, NEW pc, NEW state
    PROVE  LET e == EncodePrecinct(g, i, q, r, d, pc, state)
           IN  /\ e.bytes = Total([s \in DOMAIN e.packets |-> PacketBytes(g, e.packets[s])])
               /\ e.fits => \A s \in DOMAIN e.packets : LengthsFit(g, e.packets[s])
<1>1. ASSUME NEW quantised, NEW counts, NEW t
      PROVE  LET e == EncodeQuantised(g, i, q, r, d, quantised, counts, t, state)
             IN  /\ e.bytes = Total([s \in DOMAIN e.packets |-> PacketBytes(g, e.packets[s])])
                 /\ e.fits => \A s \in DOMAIN e.packets : LengthsFit(g, e.packets[s])
  BY Zenon DEF EncodeQuantised, Precinct
<1> QED BY <1>1, Zenon DEF EncodePrecinct

WriterInv == RateInv /\ Budgeted /\ StreamReadable

(* A precinct adds to the last slice what the search has measured.         *)
LEMMA WrittenBy ==
    ASSUME RateInv, Budgeted, phase = "emit", NEW lprc,
           lprc = IF config.lossless THEN search.best.bytes ELSE BodyBudget,
           NEW d
    PROVE  /\ search.best.bytes <= lprc
           /\ Written([q |-> search.best.q, r |-> search.best.r, d |-> d,
                       packets |-> search.best.packets, lprc |-> lprc])
<1> DEFINE best == search.best
<1>1. /\ best = Try(best.q, best.r) /\ best.fits /\ best.q \in 0 .. 31 /\ best.r \in 0 .. Top
      /\ (ConstantRate => Fits(best)) /\ ~job.foreign
  BY DEF RateInv, Measured, Coding
<1>2. best = EncodePrecinct(h, p, best.q, best.r, search.d, search.pc, enc[Column(h)])
  BY <1>1 DEF Try
<1>3. /\ best.bytes \in 1 .. 2 ^ 20 - 1
      /\ best.bytes = Total([s \in DOMAIN best.packets |-> PacketBytes(h, best.packets[s])])
      /\ \A s \in DOMAIN best.packets : LengthsFit(h, best.packets[s])
  <2> HIDE DEF best
  <2> QED BY <1>1, <1>2, TriedPair, CodedFits
<1>4. lprc \in 1 .. 2 ^ 20 - 1 /\ best.bytes <= lprc
  <2>1. CASE config.lossless
    BY <1>3, <2>1
  <2>2. CASE ~config.lossless
    <3>1. ConstantRate /\ BodyBudget \in 1 .. 2 ^ 20 - 1 /\ best.bytes <= BodyBudget
      BY <1>1, <2>2 DEF ConstantRate, Budgeted, Fits
    <3> QED BY <2>2, <3>1
  <2> QED BY <2>1, <2>2
<1>5. best.bytes \in 1 .. lprc
  BY <1>3, <1>4
<1> HIDE DEF best
<1>6. Written([q |-> best.q, r |-> best.r, d |-> d, packets |-> best.packets, lprc |-> lprc])
  BY <1>1, <1>3, <1>4, <1>5 DEF Written
<1> QED BY <1>4, <1>6 DEF best

(* What Emit writes is what the search has measured.                       *)
LEMMA EmitWrites ==
    ASSUME WriterInv, Emit
    PROVE  \E w : /\ Written(w) /\ w.lprc = (IF config.lossless THEN search.best.bytes ELSE BodyBudget)
                  /\ stream' = [stream EXCEPT ![Len(stream)].precincts = Append(@, w)]
                  /\ p' = (IF p = NumPrecincts(h) - 1 THEN 0 ELSE p + 1)
                  /\ phase' = (IF p = NumPrecincts(h) - 1 THEN "write" ELSE "precinct")
<1> DEFINE best == search.best
<1> DEFINE lprc == IF config.lossless THEN best.bytes ELSE BodyBudget
<1> DEFINE w == [q |-> best.q, r |-> best.r, d |-> best.d, packets |-> best.packets, lprc |-> lprc]
<1>1. phase = "emit"
  BY DEF Emit
<1>2. best = Try(best.q, best.r)
  BY <1>1 DEF WriterInv, RateInv, Measured
<1>3. best.bytes <= lprc /\ Written(w)
  BY <1>1, WrittenBy DEF WriterInv
<1>4. /\ stream' = [stream EXCEPT ![Len(stream)].precincts = Append(@, w)]
      /\ p' = (IF p = NumPrecincts(h) - 1 THEN 0 ELSE p + 1)
      /\ phase' = (IF p = NumPrecincts(h) - 1 THEN "write" ELSE "precinct")
  <2>1. PICK e : /\ e = Try(best.q, best.r)
                 /\ ~(e.bytes > (IF config.lossless THEN e.bytes ELSE BodyBudget)) =>
                       /\ phase' = (IF p = NumPrecincts(h) - 1 THEN "write" ELSE "precinct")
                       /\ p' = (IF p = NumPrecincts(h) - 1 THEN 0 ELSE p + 1)
                       /\ stream' = [stream EXCEPT ![Len(stream)].precincts =
                             Append(@, [q |-> e.q, r |-> e.r, d |-> e.d, packets |-> e.packets,
                                        lprc |-> IF config.lossless THEN e.bytes ELSE BodyBudget])]
    BY DEF Emit
  <2>2. e = best
    BY <1>2, <2>1
  <2>3. best.bytes \in Int /\ lprc \in Int
    BY <1>1, <1>2, TriedPair, <1>3 DEF Written, WriterInv, RateInv, Measured, Try
  <2>4. ~(best.bytes > lprc)
    BY <1>3, <2>3
  <2> QED BY <2>1, <2>2, <2>4
<1>5. w.lprc = lprc
  OBVIOUS
<1> HIDE DEF w
<1> QED BY <1>3, <1>4, <1>5

OneMore(k, v, w) == [j \in 1 .. k + 1 |-> IF j <= k THEN v[j] ELSE w]
WithLast(n, s, x) == [t \in 1 .. n |-> IF t = n THEN x ELSE s[t]]
Grown(was, n, w) == [was EXCEPT ![n].precincts = Append(@, w)]
LEMMA LastGrows ==
    ASSUME NEW n \in Nat \ {0}, NEW s, NEW y, NEW k \in Nat, NEW v, NEW w, s[n] = SliceWith(y, k, v),
           NEW was, was = [t \in 1 .. n |-> s[t]]
    PROVE  Grown(was, n, w) = WithLast(n, s, SliceWith(y, k + 1, OneMore(k, v, w)))
<1> DEFINE old == [j \in 1 .. k |-> v[j]]
           one == [j \in 1 .. k + 1 |-> IF j <= k THEN v[j] ELSE w]
           slice == SliceWith(y, k + 1, one)
<1>1. Append(old, w) = one
  BY SequenceOf
<1>2. s[n] = [marker |-> "SLH", ysl |-> y, precincts |-> old]
  BY DEF SliceWith
<1>3. slice = [marker |-> "SLH", ysl |-> y, precincts |-> one]
  <2>1. [j \in 1 .. k + 1 |-> one[j]] = one
    OBVIOUS
  <2> QED BY <2>1 DEF SliceWith
<1> HIDE DEF one, old
<1>4. was[n] = s[n]
  OBVIOUS
<1>5. [s[n] EXCEPT !.precincts = Append(was[n].precincts, w)] = slice
  <2>1. was[n].precincts = old
    BY <1>2, <1>4
  <2>2. Append(was[n].precincts, w) = one
    BY <1>1, <2>1
  <2>3. [s[n] EXCEPT !.precincts = one] = slice
    BY <1>2, <1>3
  <2> QED BY <2>2, <2>3
<1> HIDE DEF slice
<1>6. [was EXCEPT ![n].precincts = Append(@, w)] = [was EXCEPT ![n] = [was[n] EXCEPT !.precincts = Append(was[n].precincts, w)]]
  OBVIOUS
<1>7. [was EXCEPT ![n].precincts = Append(@, w)] = [was EXCEPT ![n] = slice]
  BY <1>4, <1>5, <1>6
<1>8. [was EXCEPT ![n] = slice] = [t \in 1 .. n |-> IF t = n THEN slice ELSE s[t]]
  OBVIOUS
<1>9. Grown(was, n, w) = WithLast(n, s, slice)
  BY <1>7, <1>8 DEF Grown, WithLast
<1>10. one = OneMore(k, v, w)
  BY DEF one, OneMore
<1> QED BY <1>9, <1>10 DEF slice

LEMMA RateEmit == ASSUME WriterInv, Emit PROVE WriterInv' /\ phase' # "threw"
<1>1. phase = "emit" /\ UNCHANGED job
  BY DEF Emit
<1>2. PICK w : /\ Written(w)
               /\ stream' = [stream EXCEPT ![Len(stream)].precincts = Append(@, w)]
               /\ phase' = (IF p = NumPrecincts(h) - 1 THEN "write" ELSE "precinct")
  BY EmitWrites
<1>3. RateInv'
  BY <1>1, <1>2 DEF WriterInv, RateInv, Coding, Measured, SearchingQ, SearchingR, BestIsLocal, h, config
<1>4. Budgeted'
  BY <1>1 DEF WriterInv, Budgeted, ConstantRate, BodyBudget, h, config
<1>5. StreamReadable'
  <2>1. PICK n \in Nat : \E s :
            stream = [t \in 1 .. n |-> s[t]] /\ \A t \in 1 .. n : IsSlice(s[t], t - 1)
    BY DEF WriterInv, StreamReadable
  <2>2. PICK s : stream = [t \in 1 .. n |-> s[t]] /\ \A t \in 1 .. n : IsSlice(s[t], t - 1)
    BY <2>1
  <2>3. Len(stream) = n
    BY <2>2, SequenceOf
  <2>4. \A v : Written(v)' = Written(v)
    BY <1>1 DEF Written, Top, h
  <2>5. \A v, ysl : IsSlice(v, ysl)' = IsSlice(v, ysl)
    BY <2>4 DEF IsSlice
  <2>6. CASE n = 0
    <3>1. stream' = [t \in 1 .. n |-> s[t]]
      BY <1>2, <2>2, <2>3, <2>6
    <3> QED BY <2>2, <2>6, <3>1 DEF StreamReadable
  <2>7. CASE n # 0
    <3>1. PICK y : y = n - 1
      OBVIOUS
    <3>2. IsSlice(s[n], y)
      BY <2>2, <2>7, <3>1
    <3>3. PICK k \in Nat : \E v : s[n] = SliceWith(y, k, v) /\ \A j \in 1 .. k : Written(v[j])
      BY <3>2 DEF IsSlice, SliceWith
    <3>4. PICK v : s[n] = SliceWith(y, k, v) /\ \A j \in 1 .. k : Written(v[j])
      BY <3>3
    <3> DEFINE one == OneMore(k, v, w)
               slice == SliceWith(y, k + 1, one)
               after == WithLast(n, s, slice)
    <3>5. IsSlice(slice, y)
      <4>1. \A j \in 1 .. k + 1 : Written(one[j])
        BY <1>2, <3>4 DEF OneMore
      <4>2. k + 1 \in Nat
        OBVIOUS
      <4> HIDE DEF one
      <4> QED BY <4>1, <4>2 DEF IsSlice, SliceWith
    <3>6. stream' = after
      <4>1. Grown(stream, n, w) = after
        BY <2>2, <2>7, <3>4, LastGrows
      <4> HIDE DEF after
      <4> QED BY <1>2, <2>3, <4>1 DEF Grown
    <3> HIDE DEF one, slice
    <3>7. after = [t \in 1 .. n |-> after[t]] /\ \A t \in 1 .. n : IsSlice(after[t], t - 1)
      BY <2>2, <3>1, <3>5 DEF WithLast
    <3> HIDE DEF after
    <3> QED BY <2>5, <3>6, <3>7 DEF StreamReadable
  <2> QED BY <2>6, <2>7
<1> QED BY <1>2, <1>3, <1>4, <1>5 DEF WriterInv

(* Steps that leave the slices, or what a precinct may take, alone.        *)
LEMMA StreamStays ==
    ASSUME StreamReadable, UNCHANGED <<job, stream>>
    PROVE  StreamReadable'
<1>1. \A w : Written(w)' = Written(w)
  BY DEF Written, Top, h
<1>2. \A s, ysl : IsSlice(s, ysl)' = IsSlice(s, ysl)
  BY <1>1 DEF IsSlice
<1> QED BY <1>2 DEF StreamReadable
LEMMA BudgetStays ==
    ASSUME Budgeted, UNCHANGED job, phase \in {"precinct", "Q", "R"}
    PROVE  Budgeted'
BY DEF Budgeted, ConstantRate, BodyBudget, h, config

LEMMA StreamBegin == ASSUME StreamReadable, BeginPrecinct PROVE StreamReadable'
<1>1. UNCHANGED job
  BY DEF BeginPrecinct
<1>2. CASE UNCHANGED stream
  BY <1>1, <1>2, StreamStays
<1>3. CASE stream' = Append(stream, [marker |-> "SLH", ysl |-> Len(stream), precincts |-> <<>>])
  <2>0. PICK n \in Nat : \E s :
            stream = [t \in 1 .. n |-> s[t]] /\ \A t \in 1 .. n : IsSlice(s[t], t - 1)
    BY DEF StreamReadable
  <2>1. PICK s : stream = [t \in 1 .. n |-> s[t]] /\ \A t \in 1 .. n : IsSlice(s[t], t - 1)
    BY <2>0
  <2> DEFINE new == [marker |-> "SLH", ysl |-> n, precincts |-> <<>>]
  <2> DEFINE after == [t \in 1 .. n + 1 |-> IF t <= n THEN s[t] ELSE new]
  <2>2. Len(stream) = n
    BY <2>1, SequenceOf
  <2>3. stream' = after
    <3>1. stream' = Append(stream, new)
      BY <1>3, <2>2
    <3> HIDE DEF new
    <3> QED BY <2>1, <3>1, SequenceOf
  <2>4. IsSlice(new, n)
    <3>1. <<>> = [k \in 1 .. 0 |-> n]
      OBVIOUS
    <3>2. PICK w : w = [k \in 1 .. 0 |-> n]
      OBVIOUS
    <3>3. new = [marker |-> "SLH", ysl |-> n, precincts |-> [k \in 1 .. 0 |-> w[k]]]
      BY <3>1, <3>2
    <3>4. 0 \in Nat /\ \A k \in 1 .. 0 : Written(w[k])
      OBVIOUS
    <3> HIDE DEF new
    <3> QED BY <3>3, <3>4 DEF IsSlice
  <2>5. \A t \in 1 .. n + 1 : IsSlice(after[t], t - 1)
    <3> HIDE DEF new
    <3> SUFFICES ASSUME NEW t \in 1 .. n + 1 PROVE IsSlice(after[t], t - 1)
      OBVIOUS
    <3>1. CASE t <= n
      BY <2>1, <3>1
    <3>2. CASE ~(t <= n)
      <4>1. t - 1 = n
        BY <3>2
      <4> QED BY <2>4, <3>2, <4>1
    <3> QED BY <3>1, <3>2
  <2>6. \A w : Written(w)' = Written(w)
    BY <1>1 DEF Written, Top, h
  <2>7. \A v, ysl : IsSlice(v, ysl)' = IsSlice(v, ysl)
    BY <2>6 DEF IsSlice
  <2>8. n + 1 \in Nat /\ stream' = [t \in 1 .. n + 1 |-> after[t]]
    BY <2>3
  <2> HIDE DEF after
  <2> QED BY <2>5, <2>7, <2>8 DEF StreamReadable
<1> QED BY <1>2, <1>3 DEF BeginPrecinct

LEMMA Divided ==
    ASSUME NEW a \in Int, NEW b \in Nat \ {0}, a > b
    PROVE  a \div b \in Nat \ {0}
OBVIOUS

LEMMA RateTransform == ASSUME WriterInv, Transform PROVE WriterInv'
<1>1. phase = "transform" /\ UNCHANGED <<job, stream>> /\ phase' \in {"precinct", "rejected"}
  BY DEF Transform
<1>2. RateInv'
  BY <1>1 DEF WriterInv, RateInv, Coding, Measured, SearchingQ, SearchingR, BestIsLocal, h, config
<1>3. StreamReadable'
  BY <1>1, StreamStays DEF WriterInv
<1>4. Budgeted'
  <2>1. SUFFICES ASSUME phase' = "precinct", ConstantRate PROVE BodyBudget \in 1 .. 2 ^ 20 - 1
    BY <1>1 DEF Budgeted, ConstantRate, BodyBudget, h, config
  <2>2. config.target > job.fixed + NumPrecincts(h) /\ BodyBudget < 2 ^ 20
    BY <2>1 DEF Transform, ConstantRate
  <2>3. NumPrecincts(h) \in Nat \ {0} /\ config.target \in Nat /\ job.fixed \in Nat
    BY <1>1 DEF WriterInv, RateInv, Coding
  <2>4. config.target - job.fixed \in Int /\ config.target - job.fixed > NumPrecincts(h)
    BY <2>2, <2>3
  <2>5. BodyBudget \in Nat \ {0}
    BY <2>3, <2>4, Divided DEF BodyBudget
  <2> QED BY <2>2, <2>5
<1> QED BY <1>2, <1>3, <1>4 DEF WriterInv

(* Decoding, and delivering the codestream, disturb none of it.            *)
LEMMA RateAfter ==
    ASSUME WriterInv, UNCHANGED <<job, stream>>,
           phase' \notin {"transform", "precinct", "Q", "R", "emit"}
    PROVE  WriterInv'
<1>1. RateInv'
  BY DEF WriterInv, RateInv, Coding, Measured, SearchingQ, SearchingR, BestIsLocal, h, config
<1>2. StreamReadable'
  BY StreamStays DEF WriterInv
<1> QED BY <1>1, <1>2 DEF WriterInv, Budgeted

LEMMA RateStutters == ASSUME WriterInv, UNCHANGED vars PROVE WriterInv'
<1>1. UNCHANGED <<job, phase, p, search, enc, stream>>
  BY DEF vars
<1>2. /\ \A q, r : Try(q, r)' = Try(q, r)
      /\ \A c : Fits(c)' = Fits(c)
      /\ Top' = Top /\ ConstantRate' = ConstantRate
  BY <1>1 DEF Try, Fits, Top, ConstantRate, BodyBudget, h, config, Column
<1>3. RateInv'
  BY <1>1, <1>2 DEF WriterInv, RateInv, Coding, Measured, SearchingQ, SearchingR, BestIsLocal, SmallestQ, LargestR, h, config
<1>4. Budgeted'
  BY <1>1 DEF WriterInv, Budgeted, ConstantRate, BodyBudget, h, config
<1> QED BY <1>1, <1>3, <1>4, StreamStays DEF WriterInv

LEMMA RateStep == ASSUME WriterInv, [Next]_vars PROVE WriterInv' /\ (phase = "emit" => phase' # "threw")
<1>1. CASE Transform
  BY <1>1, RateTransform DEF Transform
<1>2. CASE BeginPrecinct
  BY <1>2, RateBegin, StreamBegin, BudgetStays DEF WriterInv, BeginPrecinct
<1>3. CASE TryQ
  BY <1>3, RateTryQ, StreamStays, BudgetStays DEF WriterInv, TryQ
<1>4. CASE TryR
  BY <1>4, RateTryR, StreamStays, BudgetStays DEF WriterInv, TryR
<1>5. CASE Emit
  BY <1>5, RateEmit
<1>6. CASE Write
  BY <1>6, RateAfter DEF Write
<1>7. CASE Deliver
  <2>1. phase = "deliver" /\ UNCHANGED <<job, stream>> /\ phase' \in {"refused", "info", "decode"}
    BY <1>7 DEF Deliver
  <2> QED BY <2>1, RateAfter
<1>8. CASE Read
  <2>1. phase = "decode" /\ UNCHANGED <<job, stream>> /\ phase' \in {"refused", "lost", "decode"}
    BY <1>8 DEF Read
  <2> QED BY <2>1, RateAfter
<1>9. CASE Reconstruct
  <2>1. phase = "decode" /\ UNCHANGED <<job, stream>> /\ phase' \in {"refused", "done"}
    BY <1>9 DEF Reconstruct
  <2> QED BY <2>1, RateAfter
<1>10. CASE UNCHANGED vars
  BY <1>10, RateStutters DEF vars
<1> QED BY <1>1, <1>2, <1>3, <1>4, <1>5, <1>6, <1>7, <1>8, <1>9, <1>10 DEF Next

LEMMA WriterInit == Init => WriterInv
<1> SUFFICES ASSUME Init PROVE WriterInv
  OBVIOUS
<1>1. RateInv /\ phase \in {"transform", "deliver"}
  BY RateInit DEF Init
<1>2. StreamReadable
  <2>1. CASE stream = <<>>
    <3>1. PICK s : s = [t \in 1 .. 0 |-> t]
      OBVIOUS
    <3>2. stream = [t \in 1 .. 0 |-> s[t]] /\ 0 \in Nat /\ \A t \in 1 .. 0 : IsSlice(s[t], t - 1)
      BY <2>1, <3>1
    <3> QED BY <3>2 DEF StreamReadable
  <2>2. CASE stream = <<[marker |-> "SLH", ysl |-> 0, precincts |-> <<>>]>>
    <3> DEFINE one == [marker |-> "SLH", ysl |-> 0, precincts |-> <<>>]
    <3>1. IsSlice(one, 0)
      <4>1. PICK w : w = [k \in 1 .. 0 |-> k]
        OBVIOUS
      <4>2. one = [marker |-> "SLH", ysl |-> 0, precincts |-> [k \in 1 .. 0 |-> w[k]]]
        BY <4>1
      <4>3. 0 \in Nat /\ \A k \in 1 .. 0 : Written(w[k])
        OBVIOUS
      <4> HIDE DEF one
      <4> QED BY <4>2, <4>3 DEF IsSlice
    <3> HIDE DEF one
    <3>2. PICK s : s = [t \in 1 .. 1 |-> one]
      OBVIOUS
    <3>3. stream = [t \in 1 .. 1 |-> s[t]]
      BY <2>2, <3>2 DEF one
    <3>4. 1 \in Nat /\ \A t \in 1 .. 1 : IsSlice(s[t], t - 1)
      BY <3>1, <3>2
    <3> QED BY <3>3, <3>4 DEF StreamReadable
  <2> QED BY <2>1, <2>2 DEF Init
<1> QED BY <1>1, <1>2 DEF WriterInv, Budgeted

(* Whatever is encoded at whatever rate, the searches and the slices       *)
(* written are in the state the code takes for granted.                    *)
THEOREM WriterSound == Spec => []WriterInv
BY WriterInit, RateStep, PTL DEF Spec

(* What the two binary searches of encoder.cc:147-178 guarantee of any     *)
(* codestream: the pair about to be written fits the budget, the next      *)
(* finer Q without refinement does not, and neither does one more          *)
(* refinement at that Q.                                                   *)
THEOREM RateControlIsLocal == Spec => []BestIsLocal
<1>1. WriterInv => BestIsLocal
  BY DEF WriterInv, RateInv
<1> QED BY <1>1, WriterSound, PTL

(* What encoder.cc:184 says of the sizes, where the search stands.         *)
SizesMonotone ==
    /\ \A q1, q2 \in 0 .. 31 : q1 < q2 /\ Fits(Try(q1, 0)) => Fits(Try(q2, 0))
    /\ \A r1, r2 \in 0 .. Top : r1 < r2 /\ Fits(Try(search.best.q, r2)) => Fits(Try(search.best.q, r1))

(* The best of all pairs, and not just among its neighbours, in every state*)
(* in which the size of the precinct falls with Q and rises with R, as the *)
(* comment on the binary searches (encoder.cc:184) takes for granted.      *)
THEOREM RateControlIsBest == Spec => [](SizesMonotone => BestFits)
<1>1. ASSUME WriterInv, SizesMonotone, phase = "emit", ~config.lossless PROVE BestFits
  <2> DEFINE best == search.best
  <2>1. /\ ~job.foreign /\ NumBands(h) \in Nat \ {0}
        /\ best.q \in 0 .. 31 /\ best.r \in 0 .. Top
    BY <1>1 DEF WriterInv, RateInv, Coding, Measured
  <2>2. Fits(best) /\ SmallestQ /\ LargestR
    BY <1>1, <2>1 DEF WriterInv, RateInv, BestIsLocal, ConstantRate
  <2>3. ASSUME NEW q \in 0 .. best.q - 1 PROVE ~Fits(Try(q, 0))
    <3>1. best.q - 1 \in 0 .. 31 /\ q \in 0 .. 31 /\ best.q # 0 /\ (q = best.q - 1 \/ q < best.q - 1)
      BY <2>1, <2>3
    <3>2. ~Fits(Try(best.q - 1, 0))
      BY <2>2, <3>1 DEF SmallestQ
    <3> QED BY <1>1, <3>1, <3>2 DEF SizesMonotone
  <2>4. ASSUME NEW r \in best.r + 1 .. Top PROVE ~Fits(Try(best.q, r))
    <3>1. best.r + 1 \in 0 .. Top /\ r \in 0 .. Top /\ best.r # Top /\ (r = best.r + 1 \/ best.r + 1 < r)
      BY <2>1, <2>4 DEF Top
    <3>2. ~Fits(Try(best.q, best.r + 1))
      BY <2>2, <3>1 DEF LargestR
    <3> QED BY <1>1, <3>1, <3>2 DEF SizesMonotone
  <2> QED BY <2>2, <2>3, <2>4 DEF BestFits, Top
<1>2. WriterInv => (SizesMonotone => BestFits)
  BY <1>1 DEF BestFits
<1> QED BY <1>2, WriterSound, PTL

SecondCodingFits == [][phase = "emit" => phase' # "threw"]_vars

(* Coding the winner again to advance the predictor (encoder.cc:224) gives *)
(* what was measured, so the check at encoder.cc:228 never throws.         *)
THEOREM SecondCoding == Spec => SecondCodingFits
<1>1. WriterInv /\ [Next]_vars => [phase = "emit" => phase' # "threw"]_vars
  BY RateStep
<1> QED BY <1>1, WriterSound, PTL DEF Spec, SecondCodingFits

(* What the encoder writes a decoder may take (decoder.cc): the slices are *)
(* numbered in order, and the precincts in them have a Q, an R and an Lprc *)
(* within range, room for their packets, and packets whose lengths fit     *)
(* their headers.                                                          *)
THEOREM WrittenIsReadable == Spec => []StreamReadable
BY WriterSound, PTL DEF WriterInv

-----------------------------------------------------------------------------
(* How long a codestream of a constant rate becomes: a size is counted     *)
(* along with every slice and precinct, until the headers are written.     *)
(* The bytes written so far: six for the header of every slice begun, and  *)
(* as many for every precinct as the budget says.                          *)
Cost == PrecinctHeaderBytes(h) + BodyBudget
Spent(precincts) == SizeOf(h, stream) = 6 * Len(stream) + precincts * Cost
Counted ==
    ConstantRate =>
        /\ phase \in {"transform", "precinct"} =>
              p \in 0 .. NumPrecincts(h) - 1 /\ Due(Len(stream), p, PerSlice(h)) /\ Spent(p)
        /\ phase \in {"Q", "R", "emit"} =>
              p \in 0 .. NumPrecincts(h) - 1 /\ Within(Len(stream), p, PerSlice(h)) /\ Spent(p)
        /\ phase \in {"write", "deliver"} =>
              Len(stream) = NumSlices(h) /\ Spent(NumPrecincts(h)) /\ BodyBudget \in Nat
        /\ phase = "deliver" => codestream = WriteHeaders(WrittenHeaders) \o Body

LEMMA CountInit ==
    ASSUME Init, JobFitted
    PROVE  Counted
<1> SUFFICES ASSUME ConstantRate PROVE Counted
  BY DEF Counted
<1>1. phase = "transform" /\ stream = <<>> /\ p = 0
  BY DEF Init, ConstantRate
<1>2. ~job.foreign /\ NumPrecincts(h) \in Nat \ {0} /\ Cost \in Int
  <2>1. ~job.foreign
    BY DEF ConstantRate
  <2> QED BY <2>1, JobNumbers DEF Cost
<1>3. Len(stream) = 0 /\ SizeOf(h, stream) = 0
  <2>1. [k \in DOMAIN <<>> |-> PieceBytes(h, <<>>[k])] = <<>>
    OBVIOUS
  <2>2. SizeOf(h, <<>>) = 0
    BY <2>1, TotalNone DEF SizeOf
  <2> QED BY <1>1, <2>2
<1>4. PerSlice(h) \in Nat \ {0}
  BY <1>2, SlicesCover DEF JobFitted
<1>5. p \in 0 .. NumPrecincts(h) - 1
  BY <1>1, <1>2
<1>6. Due(Len(stream), p, PerSlice(h))
  <2> DEFINE per == PerSlice(h)
  <2> HIDE DEF per
  <2>1. Due(0, 0, per)
    BY <1>4 DEF Due, per
  <2> QED BY <1>1, <1>3, <2>1 DEF per
<1>7. Spent(p)
  <2> DEFINE x == Cost
  <2>1. x \in Int /\ (Spent(p) <=> 0 = 6 * 0 + 0 * x)
    BY <1>1, <1>2, <1>3 DEF Spent
  <2> HIDE DEF x
  <2>2. 0 = 6 * 0 + 0 * x
    BY <2>1
  <2> QED BY <2>1, <2>2
<1> QED BY <1>1, <1>5, <1>6, <1>7 DEF Counted

LEMMA JobStays ==
    ASSUME UNCHANGED job
    PROVE  /\ h' = h /\ config' = config /\ ConstantRate' = ConstantRate /\ Cost' = Cost /\ BodyBudget' = BodyBudget
           /\ NumPrecincts(h)' = NumPrecincts(h) /\ PerSlice(h)' = PerSlice(h) /\ NumSlices(h)' = NumSlices(h)
           /\ JobFitted' = JobFitted
           /\ (UNCHANGED stream => \A k : Spent(k)' = Spent(k))
           /\ (UNCHANGED stream => Body' = Body /\ WrittenHeaders' = WrittenHeaders)
<1>1. h' = h /\ config' = config
  BY DEF h, config
<1>2. BodyBudget' = BodyBudget /\ ConstantRate' = ConstantRate /\ JobFitted' = JobFitted
  BY <1>1 DEF BodyBudget, ConstantRate, JobFitted
<1>3. Cost' = Cost
  BY <1>1, <1>2 DEF Cost
<1>4. NumPrecincts(h)' = NumPrecincts(h) /\ PerSlice(h)' = PerSlice(h) /\ NumSlices(h)' = NumSlices(h)
  BY <1>1
<1>5. UNCHANGED stream => \A k : Spent(k)' = Spent(k)
  BY <1>1, <1>3 DEF Spent
<1>6. UNCHANGED stream => Body' = Body
  BY DEF Body
<1>7. UNCHANGED stream => WrittenHeaders' = WrittenHeaders
  BY <1>1, <1>6 DEF WrittenHeaders
<1> QED BY <1>1, <1>2, <1>3, <1>4, <1>5, <1>6, <1>7

LEMMA LprcIsNat == \A x \in 1 .. 2 ^ 20 - 1 : x \in Nat /\ x \in Int
<1> DEFINE a == 2 ^ 20
<1>1. 20 \in 0 .. 31
  OBVIOUS
<1>2. a \in Nat
  BY <1>1, PowersGrow
<1> HIDE DEF a
<1>3. \A x \in 1 .. a - 1 : x \in Nat /\ x \in Int
  BY <1>2
<1> QED BY <1>3, Zenon DEF a

LEMMA SlicesHaveSizes ==
    ASSUME JobFitted, ~job.foreign, NEW s, NEW y, IsSlice(s, y)
    PROVE  PieceBytes(h, s) \in Int
<1>1. PrecinctHeaderBytes(h) \in Int
  BY JobNumbers
<1>2. PICK k \in Nat : \E w :
        /\ s = [marker |-> "SLH", ysl |-> y, precincts |-> [j \in 1 .. k |-> w[j]]]
        /\ \A j \in 1 .. k : Written(w[j])
  BY DEF IsSlice
<1>3. PICK w :
        /\ s = [marker |-> "SLH", ysl |-> y, precincts |-> [j \in 1 .. k |-> w[j]]]
        /\ \A j \in 1 .. k : Written(w[j])
  BY <1>2
<1>4. \A j \in 1 .. k : w[j].lprc \in Int
  <2>1. \A j \in 1 .. k : w[j].lprc \in 1 .. 2 ^ 20 - 1
    BY <1>3 DEF Written
  <2> QED BY <2>1, LprcIsNat, Zenon
<1>5. PieceBytes(h, SliceWith(y, k, w)) \in Int
  BY <1>1, <1>4, SliceBytes
<1> QED BY <1>3, <1>5 DEF SliceWith

LEMMA CountBegin == ASSUME WriterInv, JobFitted, Counted, BeginPrecinct PROVE Counted'
<1>1. phase = "precinct" /\ UNCHANGED <<job, p>>
  BY DEF BeginPrecinct
<1>2. SUFFICES ASSUME ConstantRate PROVE Counted'
  BY <1>1, JobStays DEF Counted
<1>3. ~job.foreign /\ ~config.lossless
  BY <1>2 DEF ConstantRate
<1>4. phase' \in {"threw", "Q", "rejected"}
  BY <1>3 DEF BeginPrecinct
<1> DEFINE n == Len(stream)
           per == PerSlice(h)
           N == NumPrecincts(h)
           ns == NumSlices(h)
<1>5. p \in 0 .. N - 1 /\ Due(n, p, per) /\ Spent(p)
  BY <1>1, <1>2 DEF Counted
<1>6. /\ N \in Nat \ {0} /\ ns \in Nat \ {0} /\ per \in Nat \ {0} /\ N <= ns * per
      /\ \A i : StartsSlice(h, i) <=> \E t \in 0 .. ns - 1 : i = t * per
  BY <1>3, JobNumbers, SlicesCover DEF JobFitted
<1>7. PICK k \in Nat : \E s : stream = [t \in 1 .. k |-> s[t]] /\ \A t \in 1 .. k : IsSlice(s[t], t - 1)
  BY DEF WriterInv, StreamReadable
<1>8. PICK s : stream = [t \in 1 .. k |-> s[t]] /\ \A t \in 1 .. k : IsSlice(s[t], t - 1)
  BY <1>7
<1>9. n = k
  BY <1>8, SequenceOf
<1>10. Within(IF StartsSlice(h, p) THEN n + 1 ELSE n, p, per)
  <2> HIDE DEF n, per, N, ns
  <2>1. p \in Nat /\ p < N /\ N \in Nat /\ ns \in Nat /\ n \in Nat
    BY <1>5, <1>6, <1>9
  <2>2. /\ (\E t \in 0 .. ns - 1 : p = t * per) => Within(n + 1, p, per)
        /\ ~(\E t \in 0 .. ns - 1 : p = t * per) => Within(n, p, per)
    BY <1>5, <1>6, <2>1, NextSlice
  <2> QED BY <1>6, <2>2
<1>11. CASE StartsSlice(h, p)
  <2> DEFINE new == [marker |-> "SLH", ysl |-> n, precincts |-> <<>>]
             after == [t \in 1 .. k + 1 |-> IF t <= k THEN s[t] ELSE new]
  <2>1. stream' = Append(stream, new)
    BY <1>11 DEF BeginPrecinct
  <2>2. PieceBytes(h, new) = 6
    BY <1>3, JobNumbers, EmptySliceBytes
  <2> HIDE DEF new
  <2>3. stream' = after
    BY <1>8, <2>1, SequenceOf
  <2>4. \A t \in 1 .. k : PieceBytes(h, s[t]) \in Int
    BY <1>3, <1>8, SlicesHaveSizes
  <2>5. SizeOf(h, after) = SizeOf(h, stream) + 6
    <3>1. PieceBytes(h, new) \in Int
      BY <2>2
    <3>2. SizeOf(h, after) = SizeOf(h, [t \in 1 .. k |-> s[t]]) + PieceBytes(h, new)
      BY <2>4, <3>1, OneSliceMore
    <3> QED BY <1>8, <2>2, <3>2
  <2>6. Len(after) = n + 1
    <3>1. k + 1 \in Nat /\ after = [t \in 1 .. k + 1 |-> after[t]]
      OBVIOUS
    <3> HIDE DEF after
    <3> QED BY <1>9, <3>1, IsSequence
  <2>7. Spent(p)'
    <3> DEFINE x == p * Cost
               size == SizeOf(h, stream)
    <3>1. size = 6 * n + x
      BY <1>5 DEF Spent
    <3>2. x \in Int
      <4>1. Cost \in Int /\ p \in Int
        BY <1>3, <1>5, JobNumbers DEF Cost
      <4> DEFINE c == Cost
      <4> HIDE DEF c
      <4>2. p * c \in Int
        BY <4>1 DEF c
      <4> QED BY <4>2 DEF c
    <3>3. SizeOf(h, stream)' = size + 6 /\ Len(stream)' = n + 1 /\ (p * Cost)' = x
      BY <1>1, <2>3, <2>5, <2>6, JobStays
    <3> HIDE DEF x, size, n, after
    <3>4. size + 6 = 6 * (n + 1) + x
      BY <1>9, <3>1, <3>2
    <3> QED BY <3>3, <3>4 DEF Spent
  <2>8. Within(Len(stream)', p, per)
    BY <1>10, <1>11, <2>3, <2>6
  <2> QED BY <1>1, <1>4, <1>5, <2>7, <2>8, JobStays DEF Counted
<1>12. CASE ~StartsSlice(h, p)
  <2>1. UNCHANGED stream
    BY <1>12 DEF BeginPrecinct
  <2>2. Within(Len(stream)', p, per)
    BY <1>10, <1>12, <2>1
  <2>3. Spent(p)'
    BY <1>1, <1>5, <2>1, JobStays DEF Spent
  <2> QED BY <1>1, <1>4, <1>5, <2>2, <2>3, JobStays DEF Counted
<1> QED BY <1>11, <1>12

LEMMA CountEmit == ASSUME WriterInv, JobFitted, Counted, Emit PROVE Counted'
<1>1. phase = "emit" /\ UNCHANGED job
  BY DEF Emit
<1>2. SUFFICES ASSUME ConstantRate PROVE Counted'
  BY <1>1, JobStays DEF Counted
<1>3. ~job.foreign /\ ~config.lossless
  BY <1>2 DEF ConstantRate
<1> DEFINE n == Len(stream)
           per == PerSlice(h)
           N == NumPrecincts(h)
           ns == NumSlices(h)
           ph == PrecinctHeaderBytes(h)
<1>4. p \in 0 .. N - 1 /\ Within(n, p, per) /\ Spent(p)
  BY <1>1, <1>2 DEF Counted
<1>5. /\ N \in Nat \ {0} /\ ns \in Nat \ {0} /\ per \in Nat \ {0} /\ N <= ns * per /\ (ns - 1) * per < N
      /\ ph \in Int /\ BodyBudget \in Int
  BY <1>3, JobNumbers, SlicesCover DEF JobFitted
<1>6. PICK w : /\ Written(w) /\ w.lprc = (IF config.lossless THEN search.best.bytes ELSE BodyBudget)
               /\ stream' = [stream EXCEPT ![Len(stream)].precincts = Append(@, w)]
               /\ p' = (IF p = N - 1 THEN 0 ELSE p + 1)
               /\ phase' = (IF p = N - 1 THEN "write" ELSE "precinct")
  BY EmitWrites
<1>7. w.lprc = BodyBudget
  BY <1>3, <1>6
<1>8. PICK m \in Nat : \E s : stream = [t \in 1 .. m |-> s[t]] /\ \A t \in 1 .. m : IsSlice(s[t], t - 1)
  BY DEF WriterInv, StreamReadable
<1>9. PICK s : stream = [t \in 1 .. m |-> s[t]] /\ \A t \in 1 .. m : IsSlice(s[t], t - 1)
  BY <1>8
<1>10. n = m /\ m \in Nat \ {0}
  <2>1. n = m
    BY <1>9, SequenceOf
  <2>2. n >= 1
    BY <1>4 DEF Within
  <2> QED BY <1>8, <2>1, <2>2
<1>11. IsSlice(s[m], m - 1)
  BY <1>9, <1>10
<1>27. PICK y : y = m - 1
  OBVIOUS
<1>12. PICK k \in Nat : \E v : s[m] = SliceWith(y, k, v) /\ \A j \in 1 .. k : Written(v[j])
  BY <1>11, <1>27 DEF IsSlice, SliceWith
<1>13. PICK v : s[m] = SliceWith(y, k, v) /\ \A j \in 1 .. k : Written(v[j])
  BY <1>12
<1> DEFINE slice == SliceWith(y, k + 1, [j \in 1 .. k + 1 |-> IF j <= k THEN v[j] ELSE w])
           after == [t \in 1 .. m |-> IF t = m THEN slice ELSE s[t]]
<1>14. stream' = after
  <2>1. [stream EXCEPT ![m].precincts = Append(@, w)] = after
    <3>1. Grown(stream, m, w) = WithLast(m, s, SliceWith(y, k + 1, OneMore(k, v, w)))
      BY <1>9, <1>10, <1>13, LastGrows
    <3>2. OneMore(k, v, w) = [j \in 1 .. k + 1 |-> IF j <= k THEN v[j] ELSE w]
      BY DEF OneMore
    <3>3. Grown(stream, m, w) = WithLast(m, s, slice)
      BY <3>1, <3>2
    <3> HIDE DEF slice
    <3> QED BY <3>3 DEF Grown, WithLast
  <2> HIDE DEF after
  <2> QED BY <1>6, <1>10, <2>1
<1>15. \A j \in 1 .. k : v[j].lprc \in Int
  <2>1. \A j \in 1 .. k : v[j].lprc \in 1 .. 2 ^ 20 - 1
    BY <1>13 DEF Written
  <2> QED BY <2>1, LprcIsNat, Zenon
<1>16. PieceBytes(h, slice) = PieceBytes(h, s[m]) + (ph + BodyBudget)
  <2>1. w.lprc \in Int
    BY <1>5, <1>7
  <2>2. PieceBytes(h, slice) = PieceBytes(h, SliceWith(y, k, v)) + (ph + w.lprc)
    <3>1. \A g : PrecinctHeaderBytes(g) \in Int =>
              PieceBytes(g, slice) = PieceBytes(g, SliceWith(y, k, v)) + (PrecinctHeaderBytes(g) + w.lprc)
      BY <1>15, <2>1, SliceGrows
    <3> HIDE DEF slice
    <3> QED BY <1>5, <3>1
  <2> QED BY <1>7, <1>13, <2>2
<1>17. \A t \in 1 .. m : PieceBytes(h, s[t]) \in Int
  BY <1>3, <1>9, SlicesHaveSizes
<1> HIDE DEF slice
<1>18. PieceBytes(h, s[m]) \in Int /\ PieceBytes(h, slice) \in Int
  <2>1. PieceBytes(h, s[m]) \in Int
    BY <1>10, <1>17
  <2> QED BY <1>5, <1>16, <2>1
<1>19. SizeOf(h, after) = (SizeOf(h, stream) + PieceBytes(h, slice)) - PieceBytes(h, s[m])
  <2>1. SizeOf(h, after) = (SizeOf(h, [t \in 1 .. m |-> s[t]]) + PieceBytes(h, slice)) - PieceBytes(h, s[m])
    BY <1>10, <1>17, <1>18, LastSliceChanges
  <2> QED BY <1>9, <2>1
<1>20. Len(after) = n
  <2>1. after = [t \in 1 .. m |-> after[t]]
    OBVIOUS
  <2> HIDE DEF after
  <2>2. Len(after) = m
    BY <2>1, IsSequence
  <2> QED BY <1>10, <2>2
<1> HIDE DEF after
<1>21. PICK i \in Nat : i = p /\ i < N
  BY <1>4, <1>5
<1>22. Spent(i + 1)'
  <2> DEFINE c == Cost
             size == SizeOf(h, stream)
             x == i * c
             z == (i + 1) * c
             b == PieceBytes(h, s[m])
  <2>1. size = 6 * n + x
    BY <1>4, <1>21 DEF Spent
  <2>2. c \in Int /\ c = ph + BodyBudget
    BY <1>5 DEF Cost
  <2>3. (SizeOf(h, stream))' = (size + (b + c)) - b /\ Len(stream)' = n /\ Cost' = c
    BY <1>1, <1>14, <1>16, <1>19, <1>20, <2>2, JobStays
  <2>4. n \in Nat /\ b \in Int
    BY <1>10, <1>18
  <2> HIDE DEF c, size, b, n
  <2>5. z = x + c /\ x \in Int
    BY <2>2
  <2> HIDE DEF x, z
  <2>6. (size + (b + c)) - b = 6 * n + z
    BY <2>1, <2>2, <2>4, <2>5
  <2> QED BY <2>3, <2>6 DEF Spent, z
<1>23. Len(stream)' = n
  BY <1>14, <1>20
<1> HIDE DEF n, per, N, ns
<1>24. n \in Nat /\ Within(n, i, per)
  BY <1>4, <1>10, <1>21 DEF n
<1>25. CASE i = N - 1
  <2>1. phase' = "write"
    BY <1>6, <1>21, <1>25
  <2>2. n = ns
    <3>1. N \in Nat
      BY <1>5
    <3> QED BY <1>5, <1>24, <1>25, <3>1, LastSlice
  <2>3. Spent(N)'
    <3>1. i + 1 = N
      BY <1>5, <1>25
    <3> QED BY <1>22, <3>1, <1>1, JobStays DEF N, Spent
  <2>4. BodyBudget \in Nat
    <3>1. BodyBudget \in 1 .. 2 ^ 20 - 1
      BY <1>1, <1>2 DEF WriterInv, Budgeted
    <3> QED BY <3>1, LprcIsNat, Zenon
  <2> QED BY <1>1, <1>23, <2>1, <2>2, <2>3, <2>4, JobStays DEF Counted, N, ns
<1>26. CASE i # N - 1
  <2>1. phase' = "precinct" /\ p' = i + 1
    BY <1>6, <1>21, <1>26
  <2>2. Due(n, i + 1, per)
    BY <1>5, <1>24, AfterPrecinct
  <2>3. i + 1 \in 0 .. N - 1
    BY <1>5, <1>21, <1>26
  <2>4. Spent(p)'
    BY <1>22, <2>1 DEF Spent
  <2> QED BY <1>1, <1>23, <2>1, <2>2, <2>3, <2>4, JobStays DEF Counted, N, per
<1> QED BY <1>25, <1>26

(* Steps that write no slice leave the count alone; after delivery there   *)
(* is none to keep.                                                        *)
LEMMA CountStays ==
    ASSUME Counted, UNCHANGED <<job, p, stream>>,
           \/ phase = "transform" /\ phase' \in {"precinct", "rejected"}
           \/ phase = "Q" /\ phase' \in {"threw", "Q", "R"}
           \/ phase = "R" /\ phase' \in {"threw", "R", "emit"}
           \/ UNCHANGED <<phase, codestream>>
    PROVE  Counted'
<1>1. /\ (phase' \in {"transform", "precinct"} => phase \in {"transform", "precinct"})
      /\ (phase' \in {"Q", "R", "emit"} => phase \in {"Q", "R", "emit"})
      /\ (phase' \in {"write", "deliver"} => phase \in {"write", "deliver"})
      /\ (phase' = "deliver" => phase = "deliver" /\ codestream' = codestream)
  OBVIOUS
<1>2. \A k : Spent(k)' = Spent(k)
  BY JobStays
<1>3. Spent(p)' = Spent(p) /\ Spent(NumPrecincts(h))' = Spent(NumPrecincts(h))
  BY JobStays DEF Spent
<1> QED BY <1>1, <1>3, JobStays DEF Counted

LEMMA CountAfter ==
    ASSUME Counted, UNCHANGED job,
           phase' \notin {"transform", "precinct", "Q", "R", "emit", "write", "deliver"}
    PROVE  Counted'
BY DEF Counted

LEMMA CountStep == ASSUME WriterInv, JobFitted, Counted, [Next]_vars PROVE JobFitted' /\ Counted'
<1>0. UNCHANGED job
  BY DEF Next, vars, Transform, BeginPrecinct, TryQ, TryR, Emit, Write, Deliver, Read, Reconstruct
<1>1. CASE Transform
  <2>1. phase = "transform" /\ phase' \in {"precinct", "rejected"} /\ UNCHANGED <<job, p, stream>>
    BY <1>1 DEF Transform
  <2> QED BY <1>0, <2>1, CountStays, JobStays
<1>2. CASE BeginPrecinct
  BY <1>0, <1>2, CountBegin, JobStays
<1>3. CASE TryQ
  <2>1. phase = "Q" /\ phase' \in {"threw", "Q", "R"} /\ UNCHANGED <<job, p, stream>>
    BY <1>3 DEF TryQ
  <2> QED BY <1>0, <2>1, CountStays, JobStays
<1>4. CASE TryR
  <2>1. phase = "R" /\ phase' \in {"threw", "R", "emit"} /\ UNCHANGED <<job, p, stream>>
    BY <1>4 DEF TryR
  <2> QED BY <1>0, <2>1, CountStays, JobStays
<1>5. CASE Emit
  BY <1>0, <1>5, CountEmit, JobStays
<1>6. CASE Write
  <2>1. /\ phase = "write" /\ phase' = "deliver" /\ UNCHANGED <<job, p, stream>>
        /\ codestream' = WriteHeaders(WrittenHeaders) \o Body
    BY <1>6 DEF Write
  <2>2. Spent(NumPrecincts(h))' = Spent(NumPrecincts(h))
    BY <2>1, JobStays DEF Spent
  <2>3. (WriteHeaders(WrittenHeaders) \o Body)' = WriteHeaders(WrittenHeaders) \o Body
    BY <2>1, JobStays
  <2>4. Counted'
    BY <2>1, <2>2, <2>3, JobStays DEF Counted
  <2> QED BY <1>0, <2>4, JobStays
<1>7. CASE Deliver
  <2>1. phase' \in {"refused", "info", "decode"}
    BY <1>7 DEF Deliver
  <2> QED BY <1>0, <2>1, CountAfter, JobStays
<1>8. CASE Read
  <2>1. phase' \in {"refused", "lost", "decode"}
    BY <1>8 DEF Read
  <2> QED BY <1>0, <2>1, CountAfter, JobStays
<1>9. CASE Reconstruct
  <2>1. phase' \in {"refused", "done"}
    BY <1>9 DEF Reconstruct
  <2> QED BY <1>0, <2>1, CountAfter, JobStays
<1>10. CASE UNCHANGED vars
  BY <1>0, <1>10, CountStays, JobStays DEF vars
<1> QED BY <1>1, <1>2, <1>3, <1>4, <1>5, <1>6, <1>7, <1>8, <1>9, <1>10 DEF Next

LEMMA OnePiece ==
    ASSUME NEW g, NEW x, PieceBytes(g, x) \in Int
    PROVE  SizeOf(g, <<x>>) = PieceBytes(g, x)
<1> DEFINE e == [t \in 1 .. 1 |-> PieceBytes(g, x)]
<1>1. PICK z \in Nat : z = 0
  OBVIOUS
<1>2. \A t \in 1 .. z + 1 : e[t] \in Int
  BY <1>1
<1>3. Total([t \in 1 .. z + 1 |-> e[t]]) = Total([t \in 1 .. z |-> e[t]]) + e[z + 1]
  <2> HIDE DEF e
  <2> QED BY <1>2, TotalGrows
<1>4. [t \in 1 .. z |-> e[t]] = <<>>
  BY <1>1
<1>5. [t \in 1 .. z + 1 |-> e[t]] = [k \in DOMAIN <<x>> |-> PieceBytes(g, <<x>>[k])]
  BY <1>1
<1>6. e[z + 1] = PieceBytes(g, x)
  BY <1>1
<1>7. SizeOf(g, <<x>>) = 0 + PieceBytes(g, x)
  <2> HIDE DEF e
  <2>1. SizeOf(g, <<x>>) = Total([t \in 1 .. z + 1 |-> e[t]])
    BY <1>5 DEF SizeOf
  <2> QED BY <1>3, <1>4, <1>6, <2>1, TotalNone
<1> QED BY <1>7

(* A codestream as long as its headers, its slices and the two bytes of    *)
(* EOC.                                                                    *)
LEMMA Delivered ==
    ASSUME JobFitted, Counted, StreamReadable, ConstantRate, phase = "deliver"
    PROVE  /\ SizeOf(h, codestream) = HeaderBytes(h) + SizeOf(h, Body)
           /\ SizeOf(h, Body) = SizeOf(h, stream) + 2 /\ SizeOf(h, stream) \in Int
           /\ codestream[3] = Segment("PIH", PihPayload(WrittenHeaders))
           /\ Fitted(WrittenHeaders) /\ WrittenHeaders.lcod = HeaderBytes(h) + SizeOf(h, Body)
<1>1. ~job.foreign /\ ~config.lossless
  BY DEF ConstantRate
<1>2. Fitted(h) /\ HeaderNames \subseteq DOMAIN h
  BY <1>1 DEF JobFitted
<1>3. PICK n \in Nat : \E s : stream = [t \in 1 .. n |-> s[t]] /\ \A t \in 1 .. n : IsSlice(s[t], t - 1)
  BY DEF StreamReadable
<1>4. PICK s : stream = [t \in 1 .. n |-> s[t]] /\ \A t \in 1 .. n : IsSlice(s[t], t - 1)
  BY <1>3
<1> DEFINE eoc == [marker |-> "EOC"]
           slices == {s[t] : t \in 1 .. n}
           S == HeaderPieces \cup slices \cup {eoc}
<1>5. PieceBytes(h, eoc) = 2
  BY DEF PieceBytes
<1>6. Sized(h, S)
  <2>1. \A x \in HeaderPieces : PieceBytes(h, x) \in Int
    BY HeaderPieceBytes
  <2>2. \A x \in slices : PieceBytes(h, x) \in Int
    BY <1>1, <1>4, SlicesHaveSizes
  <2> HIDE DEF slices, eoc
  <2> QED BY <1>5, <2>1, <2>2 DEF Sized
<1>7. stream \in Seq(S)
  <2>1. \A t \in 1 .. n : s[t] \in S
    OBVIOUS
  <2> HIDE DEF S
  <2> QED BY <1>4, <2>1
<1>8. <<eoc>> \in Seq(S)
  <2>1. eoc \in S
    OBVIOUS
  <2> HIDE DEF S, eoc
  <2> QED BY <2>1
<1>9. HeaderPieces \subseteq S
  OBVIOUS
<1>10. Body = stream \o <<eoc>>
  BY DEF Body
<1> HIDE DEF S, eoc
<1>11. Body \in Seq(S) /\ SizeOf(h, Body) = SizeOf(h, stream) + SizeOf(h, <<eoc>>)
  BY <1>6, <1>7, <1>8, <1>10, SizeOfConcat, ConcatProperties
<1>12. SizeOf(h, <<eoc>>) = 2
  BY <1>5, OnePiece
<1>13. SizeOf(h, stream) \in Int /\ SizeOf(h, Body) \in Int
  <2>1. \A x \in Seq(Int) : Ints(x)
    BY DEF Ints
  <2>2. SizeOf(h, stream) \in Int
    BY <1>6, <1>7, <2>1, SizesFacts, TotalIsInt
  <2> QED BY <1>11, <1>12, <2>2
<1> DEFINE size == HeaderBytes(h) + SizeOf(h, Body)
<1>14. size \in Int
  BY <1>2, <1>13, HeaderBytesIsNat
<1>15. WrittenHeaders = [h EXCEPT !.lcod = size]
  BY <1>1 DEF WrittenHeaders
<1> DEFINE w == WrittenHeaders
<1> HIDE DEF size
<1>16. /\ WriteHeaders(w) \in Seq(HeaderPieces) /\ Len(WriteHeaders(w)) >= 3
       /\ WriteHeaders(w)[3] = Segment("PIH", PihPayload(w))
       /\ SizeOf(h, WriteHeaders(w)) = HeaderBytes(h)
       /\ Fitted(w) /\ w.lcod = size
  BY <1>2, <1>14, <1>15, LcodIsFree
<1>17. codestream = WriteHeaders(w) \o Body
  BY DEF Counted
<1> DEFINE hs == WriteHeaders(w)
<1>18. hs \in Seq(S) /\ Len(hs) >= 3
  <2> HIDE DEF hs
  <2>1. hs \in Seq(HeaderPieces) /\ Len(hs) >= 3
    BY <1>16 DEF hs
  <2> QED BY <1>9, <2>1
<1> HIDE DEF hs, w
<1>19. SizeOf(h, codestream) = SizeOf(h, hs) + SizeOf(h, Body)
  BY <1>6, <1>11, <1>17, <1>18, SizeOfConcat DEF hs
<1>20. codestream[3] = hs[3]
  <2>1. codestream = hs \o Body
    BY <1>17 DEF hs
  <2>2. 3 \in 1 .. Len(hs) + Len(Body) /\ 3 <= Len(hs)
    BY <1>11, <1>18
  <2> QED BY <1>11, <1>18, <2>1, <2>2, ConcatProperties
<1> QED BY <1>11, <1>12, <1>13, <1>16, <1>19, <1>20 DEF hs, w, size

LEMMA SizeIsBudgeted ==
    ASSUME JobFitted, Counted, StreamReadable, ConstantRate, phase = "deliver"
    PROVE  /\ SizeOf(h, codestream) \in Nat
           /\ SizeOf(h, codestream) <= config.target
           /\ config.target < SizeOf(h, codestream) + NumPrecincts(h)
<1>1. ~job.foreign
  BY DEF ConstantRate
<1> DEFINE size == SizeOf(h, codestream)
           hb == HeaderBytes(h)
           ns == NumSlices(h)
           N == NumPrecincts(h)
           ph == PrecinctHeaderBytes(h)
           B == BodyBudget
           fixed == job.fixed
           target == config.target
           body == SizeOf(h, stream)
<1>2. /\ hb \in Nat /\ ns \in Nat /\ N \in Nat \ {0} /\ ph \in Nat /\ target \in Nat /\ fixed \in Nat
  BY <1>1, JobNumbers
<1>3. Len(stream) = ns /\ body = 6 * Len(stream) + N * Cost /\ B \in Nat
  BY DEF Counted, Spent
<1>4. Cost = ph + B
  BY DEF Cost
<1>5. fixed = hb + ns * 6 + 2 + N * ph
  BY <1>1 DEF JobFitted, FixedBytes, SliceHeaderBytes
<1>6. size = hb + (body + 2) /\ body \in Int
  BY Delivered
<1>7. B = (target - fixed) \div N
  BY DEF BodyBudget
<1> DEFINE nb == N * B
           nph == N * ph
<1> HIDE DEF size, hb, ns, N, ph, B, fixed, target, body
<1>8. N * Cost = nph + nb /\ nph \in Nat /\ nb \in Nat
  BY <1>2, <1>3, <1>4
<1>9. nb <= target - fixed /\ target - fixed < nb + N
  <2> DEFINE a == target - fixed
  <2>1. a \in Int
    BY <1>2
  <2>2. B = a \div N
    BY <1>7
  <2> HIDE DEF a
  <2>3. N * B <= a /\ a < N * B + N
    BY <1>2, <2>1, <2>2
  <2> QED BY <2>3 DEF a
<1> HIDE DEF nb, nph
<1>10. size = fixed + nb
  <2>1. body = 6 * ns + (nph + nb)
    BY <1>3, <1>8
  <2>2. fixed = hb + ns * 6 + 2 + nph
    BY <1>5 DEF nph
  <2> QED BY <1>2, <1>6, <1>8, <2>1, <2>2
<1>11. size \in Nat /\ size <= target /\ target < size + N
  BY <1>2, <1>8, <1>9, <1>10
<1> QED BY <1>11 DEF size, target, N

(* What Lcod says is read back as it was written.                          *)
LEMMA LcodIsRead ==
    ASSUME NEW g, Fitted(g), g.lcod \in Nat, g.lcod < 2 ^ 31
    PROVE  ParsePih(PihPayload(g)).lcod = g.lcod
<1>1. HasFields(g, PihFields, 23)
  <2>1. \A i \in 1 .. 23 : PihFields[i][1] \in
            {"lcod", "ppih", "plev", "wf", "hf", "cw", "hsl", "nc", "ng", "ss", "bw", "fq", "br", "fslc", "ppoc",
             "cpih", "nlx", "nly", "lh", "rl", "qpih", "fs", "rm"}
    BY DEF PihFields
  <2>2. FittedPih(g)
    BY DEF Fitted
  <2> QED BY <2>1, <2>2 DEF HasFields, FittedPih
<1>2. PihPayload(g) = PutFields(PihFields, g)
  BY DEF PihPayload, PihFields
<1>3. ParsePih(PihPayload(g)) = GetFields(PihFields, PutFields(PihFields, g))
  BY <1>2 DEF ParsePih, PihFields
<1>4. PihFields[1][1] = "lcod" /\ PihFields[1][2] = 32
  BY DEF PihFields
<1>5. g.lcod < 2 ^ 32
  <2> DEFINE a == 2 ^ 31
             b == 2 ^ 32
  <2>0. 31 \in 0 .. 32 /\ 32 \in 0 .. 32
    OBVIOUS
  <2>1. Power(31, a) /\ Power(32, b)
    BY <2>0, PowerTable
  <2> HIDE DEF a, b
  <2>2. a \in Nat /\ b \in Nat /\ a <= b
    BY <2>1 DEF Power
  <2>3. g.lcod < a
    BY DEF a
  <2>4. \A x \in Nat : x < a => x < b
    BY <2>2
  <2> QED BY <2>3, <2>4 DEF b
<1>6. PICK i \in 1 .. 23 : i = 1
  OBVIOUS
<1>7. /\ g[PihFields[i][1]] \in Nat /\ g[PihFields[i][1]] < 2 ^ PihFields[i][2] /\ g[PihFields[i][1]] < 2 ^ 31
  BY <1>4, <1>5, <1>6, Zenon
<1>8. GetFields(PihFields, PutFields(PihFields, g))[PihFields[i][1]] = g[PihFields[i][1]]
  <2>1. PICK n \in Nat \ {0} : n = 23
    OBVIOUS
  <2>2. IsFieldList(PihFields, n) /\ HasFields(g, PihFields, n) /\ i \in 1 .. n
    BY <1>1, <2>1, PihList
  <2>3. PICK fields : fields = PihFields
    OBVIOUS
  <2>4. IsFieldList(fields, n) /\ HasFields(g, fields, n) /\ g[fields[i][1]] \in Nat /\ g[fields[i][1]] < 2 ^ fields[i][2] /\ g[fields[i][1]] < 2 ^ 31
    BY <1>7, <2>2, <2>3, Zenon
  <2>5. GetFields(fields, PutFields(fields, g))[fields[i][1]] = g[fields[i][1]]
    BY <2>2, <2>4, FieldsRoundTrip
  <2> QED BY <2>3, <2>5
<1> QED BY <1>3, <1>4, <1>6, <1>8

(* The bytes of the slices written are those of their headers and, for     *)
(* every precinct, of its budget; a slice is begun exactly where the one   *)
(* before is full; what is delivered is the headers, written last, and     *)
(* that body (encoder.cc: EncodePrecincts, Encode).                        *)
BudgetInv == WriterInv /\ JobFitted /\ Counted
THEOREM BudgetSound == Spec => []BudgetInv
<1>1. Init => BudgetInv
  BY WriterInit, JobInit, CountInit DEF BudgetInv
<1>2. BudgetInv /\ [Next]_vars => BudgetInv'
  BY RateStep, CountStep DEF BudgetInv
<1> QED BY <1>1, <1>2, PTL DEF Spec

(* A codestream of a constant rate is never longer than the target and less*)
(* than a byte per precinct shorter, whatever was encoded (encoder.cc: the *)
(* padding of every precinct to BodyBudget).                               *)
BudgetMet ==
    phase = "deliver" /\ ConstantRate =>
        SizeOf(h, codestream) <= config.target /\ config.target < SizeOf(h, codestream) + NumPrecincts(h)
THEOREM BudgetIsMet == Spec => []BudgetMet
<1>1. BudgetInv => BudgetMet
  BY SizeIsBudgeted DEF BudgetInv, WriterInv, BudgetMet
<1> QED BY <1>1, BudgetSound, PTL

(* And Lcod, in the picture header written last, is that length when it is *)
(* parsed (encoder.cc: lcod; headers.cc: PihPayload, ParsePih).  The model *)
(* computes no power above 2^30, hence the bound on the target.            *)
THEOREM BudgetIsExact ==
    ASSUME \A j \in Jobs : j.config.target < 2 ^ 31
    PROVE  Spec => []BudgetExact
<1>1. BudgetInv => BudgetExact
  <2> SUFFICES ASSUME BudgetInv, phase = "deliver", ConstantRate PROVE BudgetExact
    BY DEF BudgetExact, ConstantRate
  <2> DEFINE size == SizeOf(h, codestream)
  <2>1. size \in Nat /\ size <= config.target /\ config.target < size + NumPrecincts(h)
    BY SizeIsBudgeted DEF BudgetInv, WriterInv
  <2>2. /\ codestream[3] = Segment("PIH", PihPayload(WrittenHeaders))
        /\ Fitted(WrittenHeaders) /\ WrittenHeaders.lcod = size
    BY Delivered DEF BudgetInv, WriterInv
  <2>3. config.target \in Nat /\ config.target < 2 ^ 31
    BY DEF BudgetInv, JobFitted, ConstantRate
  <2> HIDE DEF size
  <2>4. size < 2 ^ 31
    <3> DEFINE a == 2 ^ 31
               target == config.target
    <3>0. 31 \in 0 .. 31
      OBVIOUS
    <3>1. a \in Nat
      BY <3>0, PowersGrow
    <3>2. target \in Nat /\ target < a /\ size <= target
      BY <2>1, <2>3
    <3> HIDE DEF a, target
    <3>3. size < a
      BY <2>1, <3>1, <3>2
    <3> QED BY <3>3 DEF a
  <2>5. ParsePih(PihPayload(WrittenHeaders)).lcod = size
    BY <2>1, <2>2, <2>4, LcodIsRead
  <2>6. ParsePih(codestream[3].bits).lcod = size
    <3>1. codestream[3].bits = PihPayload(WrittenHeaders)
      BY <2>2 DEF Segment
    <3> QED BY <2>5, <3>1
  <2> QED BY <2>1, <2>6 DEF BudgetExact, size
<1> QED BY <1>1, BudgetSound, PTL

(* The decoder, whatever it is given.  The i-th precinct was where it had  *)
(* to be: in the slice that bears the number it must bear, in range.       *)
SliceAt(g, i) == i \div (g.hsl * PrecinctsPerRow(g))
Taken(i) ==
    LET t == SliceAt(parsed, i)
    IN  /\ SliceReadable(parsed, t)
        /\ PrecinctReadable(parsed, t, i - SliceFirstPrecinct(parsed, t) + 1)
NothingSkipped ==
    phase = "done" => /\ AtEnd(NumSlices(parsed))
                      /\ \A i \in 0 .. NumPrecincts(parsed) - 1 : Taken(i)
DecoderInv ==
    /\ phase \in {"transform", "write", "deliver"} => p = 0
    /\ phase \in {"decode", "done"} => p \in Nat /\ \A i \in 0 .. p - 1 : Taken(i)
    /\ phase = "done" => p = NumPrecincts(parsed) /\ AtEnd(NumSlices(parsed))

LEMMA TakenStays == ASSUME UNCHANGED <<parsed, codestream>> PROVE \A i : Taken(i)' = Taken(i)
BY DEF Taken, SliceReadable, PrecinctReadable

LEMMA DecoderStep == ASSUME DecoderInv, [Next]_vars PROVE DecoderInv'
<1>1. CASE Transform
  BY <1>1 DEF Transform, DecoderInv
<1>2. CASE BeginPrecinct \/ TryQ \/ TryR
  <2>1. phase' \notin {"transform", "write", "deliver", "decode", "done"}
    BY <1>2 DEF BeginPrecinct, TryQ, TryR
  <2> QED BY <2>1 DEF DecoderInv
<1>3. CASE Emit
  <2>1. phase' \in {"threw", "precinct"} \/ (phase' = "write" /\ p' = 0)
    BY <1>3 DEF Emit
  <2> QED BY <2>1 DEF DecoderInv
<1>4. CASE Write
  BY <1>4 DEF Write, DecoderInv
<1>5. CASE Deliver
  <2>1. phase = "deliver" /\ p' = p /\ phase' \in {"refused", "info", "decode"}
    BY <1>5 DEF Deliver
  <2>2. p' = 0
    BY <2>1 DEF DecoderInv
  <2> QED BY <2>1, <2>2 DEF DecoderInv
<1>6. CASE Read
  <2>1. /\ phase = "decode" /\ phase' \in {"refused", "lost", "decode"} /\ UNCHANGED <<parsed, codestream>>
        /\ phase' = "decode" => p' = p + 1 /\ Taken(p)
    BY <1>6 DEF Read, Taken, SliceAt, SliceOf
  <2>2. SUFFICES ASSUME phase' = "decode" PROVE p' \in Nat /\ \A i \in 0 .. p' - 1 : Taken(i)'
    BY <2>1 DEF DecoderInv
  <2>3. p \in Nat /\ \A i \in 0 .. p - 1 : Taken(i)
    BY <2>1 DEF DecoderInv
  <2>4. \A i \in 0 .. p' - 1 : i = p \/ i \in 0 .. p - 1
    BY <2>1, <2>2, <2>3
  <2>5. \A i \in 0 .. p' - 1 : Taken(i)
    BY <2>1, <2>2, <2>3, <2>4
  <2> QED BY <2>1, <2>2, <2>3, <2>5, TakenStays
<1>7. CASE Reconstruct
  <2>1. /\ phase = "decode" /\ phase' \in {"refused", "done"} /\ UNCHANGED <<p, parsed, codestream>>
        /\ p = NumPrecincts(parsed) /\ (phase' = "done" => AtEnd(NumSlices(parsed)))
    BY <1>7 DEF Reconstruct
  <2>2. AtEnd(NumSlices(parsed))' = AtEnd(NumSlices(parsed)) /\ NumPrecincts(parsed)' = NumPrecincts(parsed)
    BY <2>1 DEF AtEnd
  <2> QED BY <2>1, <2>2, TakenStays DEF DecoderInv
<1>8. CASE UNCHANGED vars
  <2>1. UNCHANGED <<phase, p, parsed, codestream>>
    BY <1>8 DEF vars
  <2>2. AtEnd(NumSlices(parsed))' = AtEnd(NumSlices(parsed)) /\ NumPrecincts(parsed)' = NumPrecincts(parsed)
    BY <2>1 DEF AtEnd
  <2> QED BY <2>1, <2>2, TakenStays DEF DecoderInv
<1> QED BY <1>1, <1>2, <1>3, <1>4, <1>5, <1>6, <1>7, <1>8 DEF Next

(* Whatever became of the codestream on its way, a picture is put out only *)
(* if every precinct was found in its place, in a slice that bears its     *)
(* number, with Q, R and Lprc in range, and EOC behind the last slice      *)
(* (decoder.cc: Decode).                                                   *)
THEOREM NeverIncomplete == Spec => []NothingSkipped
<1>1. Init => DecoderInv
  BY DEF Init, DecoderInv
<1>2. DecoderInv => NothingSkipped
  BY DEF DecoderInv, NothingSkipped
<1> QED BY <1>1, <1>2, DecoderStep, PTL DEF Spec

=============================================================================
