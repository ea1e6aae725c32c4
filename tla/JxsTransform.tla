---------------------------- MODULE JxsTransform ----------------------------
(***************************************************************************)
(* The transform layer of the JPEG XS codec (compression/jxs/transform.cc):*)
(* the scaling of Annex G without a non-linearity, the reversible colour   *)
(* and Star-Tetrix transforms of Annex F and the 5/3 wavelet of Annex E.   *)
(* A plane is a function of rows, plane[y][x].  a \div 2^n is floor(a/2^n),*)
(* what >> does to a negative operand.  Every intermediate value is        *)
(* checked by the code to fit 32 bits (Narrow); TLC's integers have that   *)
(* width too and stop the run on an overflow.                              *)
(***************************************************************************)
EXTENDS JxsGeometry

Width(plane) == Cardinality(DOMAIN plane[0])
Transpose(plane) == [x \in DOMAIN plane[0] |-> [y \in DOMAIN plane |-> plane[y][x]]]

(* Scaling by the difference between the nominal precision of the          *)
(* coefficients and the sample depth, around mid-range (Annex G).          *)
ScaleFromInput(h, plane, i) ==
    [y \in DOMAIN plane |-> [x \in DOMAIN plane[y] |->
        plane[y][x] * 2 ^ (h.bw - h.depth[i]) - 2 ^ (h.bw - 1)]]

ScaleToOutput(h, plane, i) ==
    LET zeta == h.bw - h.depth[i]
        round == 2 ^ zeta \div 2
    IN  [y \in DOMAIN plane |-> [x \in DOMAIN plane[y] |->
            Clamp((plane[y][x] + 2 ^ (h.bw - 1) + round) \div 2 ^ zeta, 0, 2 ^ h.depth[i] - 1)]]

-----------------------------------------------------------------------------
(* Annex E in one dimension.  Whole-sample symmetric extension by two      *)
(* samples on each side, then two lifting steps in place: an even output   *)
(* reads odd neighbours only and an odd output even neighbours only.       *)
Mirror(i, z) == LET k == i % (2 * (z - 1)) IN IF k < z THEN k ELSE 2 * (z - 1) - k
ExtendSamples(x, z) == [i \in -2 .. z + 1 |-> x[Mirror(i, z)]]

LowLift(x, i) == (x[i - 1] + x[i + 1] + 2) \div 4
HighLift(x, i) == (x[i - 1] + x[i + 1]) \div 2
Even(i) == i % 2 = 0

InverseFilter1D(s, z) ==
    LET x == Once(ExtendSamples(s, z))
        low == Once([i \in -2 .. z + 1 |-> IF Even(i) /\ i \in 0 .. z THEN x[i] - LowLift(x, i) ELSE x[i]])
    IN  [i \in 0 .. z - 1 |-> IF Even(i) THEN low[i] ELSE low[i] + HighLift(low, i)]

ForwardFilter1D(s, z) ==
    LET x == Once(ExtendSamples(s, z))
        high == Once([i \in -2 .. z + 1 |-> IF ~Even(i) /\ i \in -1 .. z THEN x[i] - HighLift(x, i) ELSE x[i]])
    IN  [i \in 0 .. z - 1 |-> IF Even(i) THEN high[i] + LowLift(high, i) ELSE high[i]]

(* Even positions of a line hold the low-pass band, odd ones the high-pass *)
(* band.  The vertical filters work on columns.                            *)
Split(y, z) ==
    [low  |-> [r \in DOMAIN y |-> [i \in 0 .. (z + 1) \div 2 - 1 |-> y[r][2 * i]]],
     high |-> [r \in DOMAIN y |-> [i \in 0 .. z \div 2 - 1 |-> y[r][2 * i + 1]]]]
HorizontalForward(plane) ==
    Split(Once([r \in DOMAIN plane |-> ForwardFilter1D(plane[r], Width(plane))]), Width(plane))

HorizontalInverse(low, high) ==
    LET z == Width(low) + Width(high)
    IN  [r \in DOMAIN low |->
            InverseFilter1D([i \in 0 .. z - 1 |-> IF Even(i) THEN low[r][i \div 2] ELSE high[r][i \div 2]], z)]

TransposeBoth(t) == [low |-> Transpose(t.low), high |-> Transpose(t.high)]
VerticalForward(plane) == TransposeBoth(HorizontalForward(Transpose(plane)))
VerticalInverse(low, high) == Transpose(HorizontalInverse(Transpose(low), Transpose(high)))

-----------------------------------------------------------------------------
(* Annex E in two dimensions, of component k.  The fractional bits Fq are  *)
(* dropped with rounding when a band is stored and appended again when it  *)
(* is read.                                                                *)
FindBand(h, k, hx, hy, dx, dy) ==
    CHOOSE b \in Bands(h) :
        LET band == h.bands[b]
        IN  band.decomposed /\ band.component = k
            /\ band.hx = hx /\ band.hy = hy /\ band.dx = dx /\ band.dy = dy

StoreBand(h, plane) ==
    LET r == 2 ^ h.fq \div 2
    IN  [y \in DOMAIN plane |-> [x \in DOMAIN plane[y] |->
            LET v == plane[y][x]
            IN  IF v >= 0 THEN (v + r) \div 2 ^ h.fq ELSE -((-v + r) \div 2 ^ h.fq)]]
ScaledBand(h, plane) ==
    [y \in DOMAIN plane |-> [x \in DOMAIN plane[y] |-> plane[y][x] * 2 ^ h.fq]]

(* The bands of component k: levels with vertical filtering first, then    *)
(* the horizontal-only ones; the result maps band indices to planes.  acc  *)
(* holds the bands stored so far and the plane still to be split.          *)
Put(h, k, acc, hx, hy, dx, dy, plane) ==
    [acc EXCEPT !.bands = (FindBand(h, k, hx, hy, dx, dy) :> StoreBand(h, plane)) @@ @]
PutRows(h, k, d, acc, l) ==
    [Put(h, k, acc, TRUE, FALSE, d, Smaller(d, h.nly), l.high) EXCEPT !.ll = l.low]
PutColumns(h, k, d, acc, u) ==
    Put(h, k, Put(h, k, acc, FALSE, TRUE, d, d, u.low), TRUE, TRUE, d, d, u.high)
PutLevel(h, k, d, acc, v) ==
    PutColumns(h, k, d, PutRows(h, k, d, acc, HorizontalForward(v.low)), HorizontalForward(v.high))

ForwardDwt(h, plane, k) ==
    LET Level(acc, d) ==
            IF d <= h.nly THEN PutLevel(h, k, d, acc, VerticalForward(acc.ll))
            ELSE PutRows(h, k, d, acc, HorizontalForward(acc.ll))
        Rest(acc) == Put(h, k, acc, FALSE, FALSE, h.nlx, h.nly, acc.ll).bands
    IN  IF k >= Decomposed(h) THEN BandIndex(h, 0, k) :> StoreBand(h, plane)
        ELSE Rest(FoldLeft(Level, [ll |-> plane, bands |-> <<>>], [d \in 1 .. h.nlx |-> d]))

InverseDwt(h, bands, k) ==
    LET Read(hx, hy, dx, dy) == ScaledBand(h, bands[FindBand(h, k, hx, hy, dx, dy)])
        Level(ll, d) ==
            IF d > h.nly THEN HorizontalInverse(ll, Read(TRUE, FALSE, d, h.nly))
            ELSE VerticalInverse(HorizontalInverse(ll, Read(TRUE, FALSE, d, d)),
                                 HorizontalInverse(Read(FALSE, TRUE, d, d), Read(TRUE, TRUE, d, d)))
    IN  IF k >= Decomposed(h) THEN ScaledBand(h, bands[BandIndex(h, 0, k)])
        ELSE FoldLeft(Level, Read(FALSE, FALSE, h.nlx, h.nly), [d \in 1 .. h.nlx |-> h.nlx + 1 - d])
-----------------------------------------------------------------------------
(* Annex F.  The reversible colour transform of components 0, 1 and 2.     *)
Pixel(planes, y, x) == [c \in 0 .. 2 |-> planes[c][y][x]]
ForwardPixel(i) ==
    [c \in 0 .. 2 |-> IF c = 0 THEN (i[0] + 2 * i[1] + i[2]) \div 4
                      ELSE IF c = 1 THEN i[2] - i[1] ELSE i[0] - i[1]]
InversePixel(i) ==
    LET green == i[0] - (i[1] + i[2]) \div 4
    IN  [c \in 0 .. 2 |-> IF c = 0 THEN green + i[2] ELSE IF c = 1 THEN green ELSE green + i[1]]

ForwardRct(planes) ==
    [c \in DOMAIN planes |-> IF c > 2 THEN planes[c]
        ELSE [y \in DOMAIN planes[c] |-> [x \in DOMAIN planes[c][y] |-> ForwardPixel(Pixel(planes, y, x))[c]]]]
InverseRct(planes) ==
    [c \in DOMAIN planes |-> IF c > 2 THEN planes[c]
        ELSE [y \in DOMAIN planes[c] |-> [x \in DOMAIN planes[c][y] |-> InversePixel(Pixel(planes, y, x))[c]]]]

(* Star-Tetrix.  The CFA pattern type follows from the offsets of the      *)
(* first four components (CRG), in units of half the grid spacing: RGGB    *)
(* and BGGR are of type 0, GRBG and GBRG of type 1 (Table F.9).            *)
kHalf == 32768
Offsets(xs, ys) == [c \in 0 .. 3 |-> <<kHalf * xs[c + 1], kHalf * ys[c + 1]>>]
kPatterns == <<{Offsets(<<0, 1, 0, 1>>, <<0, 0, 1, 1>>), Offsets(<<1, 1, 0, 0>>, <<1, 0, 1, 0>>)},
               {Offsets(<<1, 0, 1, 0>>, <<0, 0, 1, 1>>), Offsets(<<0, 0, 1, 1>>, <<1, 0, 1, 0>>)}>>
PatternTypes(h) == {ct \in 0 .. 1 : \E c \in h.crg : [i \in 0 .. 3 |-> c[i]] \in kPatterns[ct + 1]}
StarTetrix(h) ==
    LET cts == CHOOSE c \in h.cts : TRUE
    IN  [ct |-> CHOOSE ct \in PatternTypes(h) : TRUE, cf |-> cts.cf, e1 |-> cts.e1, e2 |-> cts.e2]

(* The coded component c sits at (SubX, SubY) of its super                 *)
(* pixel; Access finds the component and super pixel of the neighbour      *)
(* (rx, ry), mirrored at the edges of the picture and, for Cf = 3, kept in *)
(* the current row of super pixels.                                        *)
SubX(h, c) == IF h.ct = 0 THEN c % 2 ELSE 1 - (c % 2)
SubY(c) == IF c < 2 THEN 1 ELSE 0
Access(h, c, x, y, tap) ==
    LET px == 2 * x + tap[1] + SubX(h, c)
        py == 2 * y + tap[2] + SubY(c)
        rx == IF px \in 0 .. 2 * h.wf - 1 THEN tap[1] ELSE -tap[1]
        ry == IF /\ py \in 0 .. 2 * h.hf - 1
                 /\ h.cf = 3 => tap[2] + SubY(c) \in 0 .. 1
              THEN tap[2] ELSE -tap[2]
        qx == 2 * x + rx + SubX(h, c)
        qy == 2 * y + ry + SubY(c)
    IN  [c |-> CHOOSE k \in 0 .. 3 : SubX(h, k) = qx % 2 /\ SubY(k) = qy % 2,
         x |-> qx \div 2, y |-> qy \div 2]

(* A lifting step adds sign * floor(sum of the weighted neighbours / 2^n)  *)
(* to component c.  No neighbour is in component c, so the order in which  *)
(* the pixels are updated does not matter.                                 *)
Neighbour(planes, at, weight) == planes[at.c][at.y][at.x] * 2 ^ weight
LiftStep(h, planes, c, taps, n, sign) ==
    LET Term(x, y, tap) == Neighbour(planes, Access(h, c, x, y, tap), tap[3])
        Sum(x, y) == Term(x, y, taps[1]) + Term(x, y, taps[2]) + Term(x, y, taps[3]) + Term(x, y, taps[4])
    IN  [planes EXCEPT ![c] = [y \in DOMAIN planes[c] |-> [x \in DOMAIN planes[c][y] |->
            planes[c][y][x] + sign * (Sum(x, y) \div 2 ^ n)]]]

Diagonal == <<<<-1, -1, 0>>, <<1, -1, 0>>, <<-1, 1, 0>>, <<1, 1, 0>>>>
Cross(across, along) == <<<<-1, 0, across>>, <<1, 0, across>>, <<0, -1, along>>, <<0, 1, along>>>>

AvgStep(h, planes, sign) == LiftStep(h, planes, 0, Diagonal, 3, sign)
DeltaStep(h, planes, sign) == LiftStep(h, planes, 3, Diagonal, 2, sign)
YStep(h, planes, sign) ==
    LiftStep(h, LiftStep(h, planes, 0, Cross(h.e2, h.e1), 3, sign), 3, Cross(h.e1, h.e2), 3, sign)
CbCrStep(h, planes, sign) ==
    LiftStep(h, LiftStep(h, planes, 1, Cross(0, 0), 2, sign), 2, Cross(0, 0), 2, sign)
SwapSlots(planes) ==
    [c \in DOMAIN planes |-> IF c \in 0 .. 3 THEN planes[(c + 2) % 4] ELSE planes[c]]

ForwardMct(h, planes) ==
    CASE h.cpih = 0 -> planes
      [] h.cpih = 1 -> ForwardRct(planes)
      [] h.cpih = 3 -> AvgStep(h, DeltaStep(h, YStep(h, CbCrStep(h, SwapSlots(planes), -1), 1), -1), 1)
InverseMct_ForwardOrder(h, planes) ==
    CASE h.cpih = 0 -> planes
      [] h.cpih = 1 -> InverseRct(planes)
      [] h.cpih = 3 -> SwapSlots(AvgStep(h, DeltaStep(h, YStep(h, CbCrStep(h, planes, 1), -1), 1), -1))
InverseMct(h, planes) ==
    CASE h.cpih = 0 -> planes
      [] h.cpih = 1 -> InverseRct(planes)
      [] h.cpih = 3 -> SwapSlots(CbCrStep(h, YStep(h, DeltaStep(h, AvgStep(h, planes, -1), 1), -1), 1))
=============================================================================
