---------------------------- MODULE JxsGeometry ----------------------------
(***************************************************************************)
(* Band, precinct, line and packet geometry of a JPEG XS picture           *)
(* (compression/jxs/geometry.cc and the container helpers of               *)
(* coefficients.hpp).  Everything is derived from the headers alone and is *)
(* shared by the encoder and the decoder.  A header record h holds the     *)
(* fields of PictureHeader the codec reads, under their names, with        *)
(*   sx       the horizontal sampling factor of each component,            *)
(*   sd       the number of components without wavelet decomposition,      *)
(*   weights  the gain and priority of each band.                          *)
(* Components are never subsampled vertically (the constructor refuses     *)
(* sy # 1), so every band exists.  Indices start at 0 as in the code.      *)
(***************************************************************************)
EXTENDS Integers, Sequences, FiniteSets, SequencesExt

(* A value, computed once: TLC would repeat a function's body at every use.*)
Once(v) == CHOOSE x \in {v} : TRUE

(* f, and g where f is undefined (written out, where TLC's @@ would do, so *)
(* that it can be reasoned about).                                         *)
f ++ g == [x \in DOMAIN f \cup DOMAIN g |-> IF x \in DOMAIN f THEN f[x] ELSE g[x]]

(* The members of S below n, smallest first.                               *)
InOrder(S, n) ==
    LET upto[k \in 0 .. n] == IF k = 0 THEN <<>>
                              ELSE IF k - 1 \in S THEN Append(upto[k - 1], k - 1) ELSE upto[k - 1]
    IN  upto[n]

(* The elements of seq at the places in S, in order.                       *)
Keep(seq, S) == LET at == InOrder(S, Len(seq) + 1) IN [k \in DOMAIN at |-> seq[at[k]]]

Larger(a, b) == IF a > b THEN a ELSE b
Smaller(a, b) == IF a < b THEN a ELSE b
Clamp(v, lo, hi) == Larger(lo, Smaller(v, hi))
CeilDiv(a, b) == (a + b - 1) \div b

LowPassSize(n, depth) == CeilDiv(n, 2 ^ depth)
HighPassSize(n, depth) == CeilDiv(n, 2 ^ (depth - 1)) \div 2

(* Filter types and bands (B.3): LL, the horizontal-only HL bands, then    *)
(* HL, LH, HH of each two-dimensional level, coarsest first.  The number   *)
(* of levels satisfies nly <= nlx (Validate).                              *)
Decomposed(h) == h.nc - h.sd
NBeta(h) == 2 * h.nly + h.nlx + 1
Beta1(h) == h.nlx - h.nly + 1
NumBands(h) == Decomposed(h) * NBeta(h) + h.sd
Bands(h) == 0 .. NumBands(h) - 1
BandIndex(h, beta, i) == IF i < Decomposed(h) THEN Decomposed(h) * beta + i
                         ELSE Decomposed(h) * NBeta(h) + (i - Decomposed(h))

ComponentWidth(h, i) == CeilDiv(h.wf, h.sx[i])
ComponentHeight(h, i) == h.hf

Band(h, b) ==
    LET decomposed == b < Decomposed(h) * NBeta(h)
        beta == b \div Decomposed(h)
        level == h.nly - (beta - Beta1(h)) \div 3
        kind == (beta - Beta1(h)) % 3
        shape == IF ~decomposed THEN [dx |-> 0, dy |-> 0, hx |-> FALSE, hy |-> FALSE]
                 ELSE IF beta < Beta1(h)
                 THEN [dx |-> IF beta = 0 THEN h.nlx ELSE h.nlx - (beta - 1), dy |-> h.nly,
                       hx |-> beta > 0, hy |-> FALSE]
                 ELSE [dx |-> level, dy |-> level, hx |-> kind # 1, hy |-> kind # 0]
        i == IF decomposed THEN b % Decomposed(h)
             ELSE Decomposed(h) + (b - Decomposed(h) * NBeta(h))
        wc == ComponentWidth(h, i)
        hc == ComponentHeight(h, i)
    IN  [component |-> i, decomposed |-> decomposed,
         dx |-> shape.dx, dy |-> shape.dy, hx |-> shape.hx, hy |-> shape.hy,
         width |-> IF shape.hx THEN HighPassSize(wc, shape.dx) ELSE LowPassSize(wc, shape.dx),
         height |-> IF shape.hy THEN HighPassSize(hc, shape.dy) ELSE LowPassSize(hc, shape.dy)]

-----------------------------------------------------------------------------
(* The precinct grid (B.5): columns of ColumnWidth sampling-grid columns,  *)
(* rows of 2^nly lines; the last column and the last row may be cut off.   *)
MaxSx(h) == IF \E i \in 0 .. h.nc - 1 : h.sx[i] = 2 THEN 2 ELSE 1
ColumnWidth(h) == IF h.cw > 0 THEN 8 * h.cw * MaxSx(h) * 2 ^ h.nlx ELSE h.wf
PrecinctsPerRow(h) == CeilDiv(h.wf, ColumnWidth(h))
PrecinctRows(h) == CeilDiv(h.hf, 2 ^ h.nly)
NumPrecincts(h) == PrecinctsPerRow(h) * PrecinctRows(h)
PrecinctRow(h, p) == p \div PrecinctsPerRow(h)
PrecinctColumn(h, p) == p % PrecinctsPerRow(h)
PrecinctWidth(h, p) == IF PrecinctColumn(h, p) < PrecinctsPerRow(h) - 1 THEN ColumnWidth(h)
                       ELSE ((h.wf - 1) % ColumnWidth(h)) + 1

BandPrecinctWidth(h, p, b) ==
    LET band == h.bands[b]
        sx == h.sx[band.component]
    IN  IF band.hx THEN CeilDiv(PrecinctWidth(h, p), sx * 2 ^ (band.dx - 1)) \div 2
        ELSE CeilDiv(PrecinctWidth(h, p), sx * 2 ^ band.dx)

(* Lines of a band in a precinct (B.6): [LineStart, LineEnd).              *)
Span(h, b) == 2 ^ (h.nly - h.bands[b].dy)
LineStart(h, b) == IF h.bands[b].hy THEN Span(h, b) ELSE 0
LineEnd(h, p, b) ==
    LET remaining == h.bands[b].height - PrecinctRow(h, p) * Span(h, b)
    IN  LineStart(h, b) + Larger(0, Smaller(remaining, Span(h, b)))

(* The packets of a precinct (B.7): line 0 of the LL and horizontal-only   *)
(* bands; then, level by level and line by line, one packet per filter     *)
(* type; then one packet per line of the components that are not           *)
(* decomposed.  Packets without an entry are left out.                     *)
LinePacket(h, p, betas, rel) ==
    LET all == [k \in 1 .. Len(betas) * Decomposed(h) |->
                  LET b == BandIndex(h, betas[1 + (k - 1) \div Decomposed(h)], (k - 1) % Decomposed(h))
                  IN  [band |-> b, line |-> rel + LineStart(h, b)]]
    IN  Keep(all, {k \in DOMAIN all : all[k].line < LineEnd(h, p, all[k].band)})
LevelPackets(h, p, beta0) ==
    [s \in 1 .. 3 * Span(h, BandIndex(h, beta0, 0)) |-> LinePacket(h, p, <<beta0 + ((s - 1) % 3)>>, (s - 1) \div 3)]
UndecomposedPackets(h, p) ==
    [s \in 1 .. h.sd * 2 ^ h.nly |->
        LET b == BandIndex(h, 0, Decomposed(h) + ((s - 1) % h.sd))
            line == (s - 1) \div h.sd
        IN  IF line < LineEnd(h, p, b) THEN <<[band |-> b, line |-> line]>> ELSE <<>>]
Packets(h, p) ==
    LET slots == Once(<<LinePacket(h, p, [k \in 1 .. Beta1(h) |-> k - 1], 0)>>
                      \o FlattenSeq([k \in 1 .. h.nly |-> LevelPackets(h, p, Beta1(h) + 3 * (k - 1))])
                      \o UndecomposedPackets(h, p))
    IN  Keep(slots, {s \in DOMAIN slots : slots[s] # <<>>})

-----------------------------------------------------------------------------
(* The Geometry object: the headers with the tables of bands, of the width *)
(* and number of lines of each band in each precinct, and of packets.      *)
Geometry(headers) ==
    LET h == headers ++ [bands |-> [b \in Bands(headers) |-> Band(headers, b)]]
        precincts == 0 .. NumPrecincts(h) - 1
    IN  h ++ [packets |-> [p \in precincts |-> Packets(h, p)],
              widths |-> [p \in precincts |-> [b \in Bands(h) |-> BandPrecinctWidth(h, p, b)]],
              lines |-> [p \in precincts |-> [b \in Bands(h) |-> LineEnd(h, p, b) - LineStart(h, b)]]]
Lines(h, p, b) == h.lines[p][b]
CodeGroups(h, p, b) == CeilDiv(h.widths[p][b], h.ng)
SignificanceGroups(h, p, b) == CeilDiv(h.widths[p][b], h.ng * h.ss)

-----------------------------------------------------------------------------
(* Slices (B.11): hsl precinct rows each, the last one possibly fewer.     *)
NumSlices(h) == CeilDiv(PrecinctRows(h), h.hsl)
SliceFirstPrecinct(h, t) == t * h.hsl * PrecinctsPerRow(h)
StartsSlice(h, p) == \E t \in 0 .. NumSlices(h) - 1 : p = SliceFirstPrecinct(h, t)

(* Band-sample position of index xi of line li of band b in precinct p     *)
(* (ToBandPosition), and the copies between the band buffers of the        *)
(* picture, indexed [band][y][x], and those of one precinct.               *)
BandX(h, p, b, xi) ==
    PrecinctColumn(h, p) * h.widths[PrecinctRow(h, p) * PrecinctsPerRow(h)][b] + xi
BandY(h, p, b, li) == PrecinctRow(h, p) * Span(h, b) + li

ExtractPrecinct(h, p, bands) ==
    [b \in Bands(h) |->
        LET band == h.bands[b]
        IN  [li \in 0 .. Lines(h, p, b) - 1 |->
                [xi \in 0 .. h.widths[p][b] - 1 |->
                    LET x == BandX(h, p, b, xi)
                        y == BandY(h, p, b, li)
                    IN  IF x < band.width /\ y < band.height THEN bands[b][y][x] ELSE 0]]]

PlacePrecinct(h, p, lines, bands) ==
    [b \in Bands(h) |->
        LET row0 == BandY(h, p, b, 0)
            col0 == BandX(h, p, b, 0)
            width == h.widths[p][b]
        IN  [y \in DOMAIN bands[b] |->
                IF y - row0 \notin DOMAIN lines[b] THEN bands[b][y]
                ELSE [x \in DOMAIN bands[b][y] |->
                        IF x - col0 \in 0 .. width - 1 THEN lines[b][y - row0][x - col0]
                        ELSE bands[b][y][x]]]]
=============================================================================
