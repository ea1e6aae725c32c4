------------------------- MODULE JxsDecoder_proofs --------------------------
(***************************************************************************)
(* Proofs that Decode follows Encode through a whole codestream (JxsCodec),*)
(* whatever happens to its pieces on the way.                              *)
(*                                                                         *)
(* What the encoder has coded so far is a chain of precincts (Chain), each *)
(* of which takes its reader from the predictor states the encoder had     *)
(* before it to those it had after it (Sent): that holds precinct by       *)
(* precinct by JxsEntropy_proofs.  The codestream lays that chain out in   *)
(* slices (Laid), and no alteration of its pieces puts anything else into  *)
(* a slice that still carries the number it is read at (PiecesOk).  So the *)
(* decoder, wherever it stands, has followed the chain up to there         *)
(* (FollowInv).                                                            *)
(***************************************************************************)
EXTENDS JxsEntropy_proofs

(* The fields of the headers and of the geometry the decoder works with.   *)
SameCoding(k, g) ==
    /\ SameGrid(k, g) /\ k.hsl = g.hsl /\ k.bands = g.bands
    /\ k.packets = g.packets /\ k.widths = g.widths /\ k.lines = g.lines
    /\ k.ng = g.ng /\ k.ss = g.ss /\ k.br = g.br /\ k.qpih = g.qpih /\ k.fs = g.fs /\ k.rm = g.rm
    /\ k.lh = g.lh /\ k.weights = g.weights
LEMMA SameEntropy ==
    ASSUME NEW k, NEW g, SameCoding(k, g)
    PROVE  /\ \A i, precinct, state : DecodePrecinct(k, i, precinct, state) = DecodePrecinct(g, i, precinct, state)
<1>0. /\ k.packets = g.packets /\ k.widths = g.widths /\ k.lines = g.lines
      /\ k.ng = g.ng /\ k.ss = g.ss /\ k.br = g.br /\ k.qpih = g.qpih /\ k.fs = g.fs /\ k.rm = g.rm
      /\ k.lh = g.lh /\ k.weights = g.weights /\ k.wf = g.wf /\ k.nc = g.nc /\ SameGrid(k, g) /\ k.bands = g.bands
  BY DEF SameCoding, SameGrid
<1>1. Bands(k) = Bands(g)
  BY <1>0, SameBands
<1>2. \A b : LineStart(k, b) = LineStart(g, b)
  BY <1>0, SamePackets
<1>3. MaxCount(k) = MaxCount(g) /\ VlcLimit(k) = VlcLimit(g)
  BY <1>0 DEF MaxCount, VlcLimit
<1>4. \A b, q, r : ComputeTruncation(k, b, q, r) = ComputeTruncation(g, b, q, r)
  BY <1>0, <1>3, Zenon DEF ComputeTruncation
<1>5. \A q, r : Truncations(k, q, r) = Truncations(g, q, r)
  BY <1>1, <1>4, Zenon DEF Truncations
<1>6. \A i, b : /\ Lines(k, i, b) = Lines(g, i, b) /\ CodeGroups(k, i, b) = CodeGroups(g, i, b)
               /\ SignificanceGroups(k, i, b) = SignificanceGroups(g, i, b)
  BY <1>0, Zenon DEF Lines, CodeGroups, SignificanceGroups
<1>7. \A i, b : Groups(k, i, b) = Groups(g, i, b)
  BY <1>6, Zenon DEF Groups
<1>8. \A i, counts, t : UpdateState(k, i, counts, t) = UpdateState(g, i, counts, t)
  BY <1>1, <1>6, Zenon DEF UpdateState
<1>9. \A e : LineOf(k, e) = LineOf(g, e)
  BY <1>2, Zenon DEF LineOf
<1>10. \A v, negative, m, t : Dequantize(k, v, negative, m, t) = Dequantize(g, v, negative, m, t)
  <2> SUFFICES ASSUME NEW v, NEW negative, NEW m, NEW t
               PROVE  Dequantize(k, v, negative, m, t) = Dequantize(g, v, negative, m, t)
    OBVIOUS
  <2> DEFINE zeta == m - t + 1
             series == CHOOSE f : f = [phi \in Nat |-> IF phi = 0 THEN 0 ELSE phi + f[phi \div 2 ^ zeta]]
             D(qpih) == LET magnitude == IF qpih = 0 THEN v * 2 ^ t + 2 ^ t \div 2 ELSE series[v * 2 ^ t]
                        IN  IF m <= t \/ v = 0 THEN 0 ELSE IF negative THEN -magnitude ELSE magnitude
  <2>1. Dequantize(k, v, negative, m, t) = D(k.qpih) /\ Dequantize(g, v, negative, m, t) = D(g.qpih)
    BY Zenon DEF Dequantize
  <2> HIDE DEF D
  <2> QED BY <1>0, <2>1
<1>11. \A flags, x : Skips(k, flags, x) = Skips(g, flags, x)
  BY <1>0, Zenon DEF Skips
<1>12. \A m, t : DataBits(k, m, t) = DataBits(g, m, t)
  BY <1>0, Zenon DEF DataBits
<1>13. \A v : Nonzero(k, v) = Nonzero(g, v)
  BY <1>0, Zenon DEF Nonzero, Places
<1>14. PacketHeaderBytes(k) = PacketHeaderBytes(g)
  BY <1>0 DEF PacketHeaderBytes, ShortHeader
<1>15. \A d, top, t : SkippedResidual(k, d, top, t) = SkippedResidual(g, d, top, t)
  BY <1>0, Zenon DEF SkippedResidual
<1>16. \A i, b, coded, raw, d, flags, top, t :
          ReadEntry(k, i, b, coded, raw, d, flags, top, t) = ReadEntry(g, i, b, coded, raw, d, flags, top, t)
  <2> SUFFICES ASSUME NEW i, NEW b, NEW coded, NEW raw, NEW d, NEW flags, NEW top, NEW t
               PROVE  ReadEntry(k, i, b, coded, raw, d, flags, top, t) = ReadEntry(g, i, b, coded, raw, d, flags, top, t)
    OBVIOUS
  <2> DEFINE present(f) == Once({x \in DOMAIN top : ~Skips(f, flags, x)})
             Code(f, x) == Field(coded.cnt, Place(x, present(f)), 0)
             Residual(f, x) == IF ~Skips(f, flags, x) THEN VlcDecode(Code(f, x), top[x], t)
                               ELSE SkippedResidual(f, d, top[x], t)
             m(f) == Once([x \in DOMAIN top |-> IF raw THEN Field(coded.cnt, x + 1, 0) ELSE top[x] + Residual(f, x)])
             Bits(f, x) == IF raw THEN f.br ELSE IF Skips(f, flags, x) THEN 0 ELSE Code(f, x) + 1
             bits(f) == Total([x \in 1 .. CodeGroups(f, i, b) |-> Bits(f, x - 1)])
             fits(f) == /\ \A x \in DOMAIN top : m(f)[x] \in 0 .. MaxCount(f)
                        /\ ~raw => \A x \in DOMAIN top : Skips(f, flags, x) \/ Code(f, x) < VlcLimit(f)
  <2>1. \A f : ReadEntry(f, i, b, coded, raw, d, flags, top, t)
               = [m |-> m(f), sigBits |-> Len(flags), cntBits |-> bits(f), fits |-> fits(f)]
    BY Zenon DEF ReadEntry
  <2>2. present(k) = present(g)
    BY <1>11, Zenon
  <2>3. \A x : Code(k, x) = Code(g, x)
    BY <2>2, Zenon
  <2> HIDE DEF Code, present
  <2>4. \A x : Residual(k, x) = Residual(g, x)
    BY <1>11, <1>15, <2>3, Zenon
  <2>5. \A x : Bits(k, x) = Bits(g, x)
    BY <1>0, <1>11, <2>3, Zenon
  <2> HIDE DEF Residual, Bits
  <2>6. m(k) = m(g)
    BY <2>4, Zenon
  <2>7. bits(k) = bits(g)
    BY <1>6, <2>5, Zenon
  <2> HIDE DEF m, bits
  <2>8. fits(k) = fits(g)
    <3>1. (\A x \in DOMAIN top : m(k)[x] \in 0 .. MaxCount(k)) = (\A x \in DOMAIN top : m(g)[x] \in 0 .. MaxCount(g))
      BY <1>3, <2>6
    <3>2. (\A x \in DOMAIN top : Skips(k, flags, x) \/ Code(k, x) < VlcLimit(k))
          = (\A x \in DOMAIN top : Skips(g, flags, x) \/ Code(g, x) < VlcLimit(g))
      BY <1>3, <1>11, <2>3
    <3> QED BY <3>1, <3>2
  <2> HIDE DEF fits
  <2> QED BY <2>1, <2>6, <2>7, <2>8, Zenon
<1>17. \A i, e, coded, raw, d, counts, t, state :
          DecodeEntry(k, i, e, coded, raw, d, counts, t, state) = DecodeEntry(g, i, e, coded, raw, d, counts, t, state)
  <2> SUFFICES ASSUME NEW i, NEW e, NEW coded, NEW raw, NEW d, NEW counts, NEW t, NEW state
               PROVE  DecodeEntry(k, i, e, coded, raw, d, counts, t, state) = DecodeEntry(g, i, e, coded, raw, d, counts, t, state)
    OBVIOUS
  <2> DEFINE flags(f) == IF raw \/ ~d.significance THEN <<>>
                         ELSE [j \in 1 .. SignificanceGroups(f, i, e.band) |-> Field(coded.sig, j, FALSE)]
             top(f) == Once(Predicted(d.vertical, e.band, LineOf(f, e), counts, t, state, Groups(f, i, e.band)))
  <2>1. \A f : DecodeEntry(f, i, e, coded, raw, d, counts, t, state)
               = ReadEntry(f, i, e.band, coded, raw, d, flags(f), top(f), t[e.band])
    BY Zenon DEF DecodeEntry
  <2>2. flags(k) = flags(g)
    BY <1>6, Zenon
  <2>3. top(k) = top(g)
    BY <1>7, <1>9, Zenon
  <2> HIDE DEF flags, top
  <2> QED BY <1>16, <2>1, <2>2, <2>3, Zenon
<1>18. \A i, b, m, t, dat, sgn : DecodeLine(k, i, b, m, t, dat, sgn) = DecodeLine(g, i, b, m, t, dat, sgn)
  <2> SUFFICES ASSUME NEW i, NEW b, NEW m, NEW t, NEW dat, NEW sgn
               PROVE  DecodeLine(k, i, b, m, t, dat, sgn) = DecodeLine(g, i, b, m, t, dat, sgn)
    OBVIOUS
  <2> DEFINE n == g.ng
             none == [x \in 0 .. n - 1 |-> 0]
             above == Once({x \in DOMAIN m : m[x] > t})
             Empty == [v |-> none, s |-> [x \in 0 .. n - 1 |-> FALSE]]
             Group(x) == Field(dat, Place(x, above), Empty)
             v == Once([x \in DOMAIN m |-> IF m[x] <= t THEN none
                                           ELSE [y \in 0 .. n - 1 |-> Group(x).v[y] % 2 ^ (m[x] - t)]])
             Negative(signed, fs, x) == IF v[x \div n][x % n] = 0 THEN FALSE
                                        ELSE IF fs = 1 THEN Field(sgn, Place(x, signed), FALSE)
                                        ELSE Group(x \div n).s[x % n]
             Value(f, signed, fs, x) == Dequantize(f, v[x \div n][x % n], Negative(signed, fs, x), m[x \div n], t)
             L(f, signed, fs, width) == [values |-> [x \in 0 .. width - 1 |-> Value(f, signed, fs, x)],
                                         signBits |-> IF fs = 1 THEN Cardinality(signed) ELSE 0]
  <2>1. \A f : f.ng = n => DecodeLine(f, i, b, m, t, dat, sgn) = L(f, Nonzero(f, v), f.fs, f.widths[i][b])
    <3> SUFFICES ASSUME NEW f, f.ng = n
                 PROVE  DecodeLine(f, i, b, m, t, dat, sgn) = L(f, Nonzero(f, v), f.fs, f.widths[i][b])
      OBVIOUS
    <3> HIDE DEF n
    <3> QED BY Zenon DEF DecodeLine
  <2>2. DecodeLine(k, i, b, m, t, dat, sgn) = L(k, Nonzero(g, v), g.fs, g.widths[i][b])
    <3>1. DecodeLine(k, i, b, m, t, dat, sgn) = L(k, Nonzero(k, v), k.fs, k.widths[i][b])
      BY <1>0, <2>1
    <3> HIDE DEF L, v
    <3> QED BY <1>0, <1>13, <3>1
  <2>3. DecodeLine(g, i, b, m, t, dat, sgn) = L(g, Nonzero(g, v), g.fs, g.widths[i][b])
    BY <2>1
  <2> DEFINE signed == Nonzero(g, v)
             width == g.widths[i][b]
  <2> HIDE DEF signed, width, v, Negative
  <2>4. \A x : Value(k, signed, g.fs, x) = Value(g, signed, g.fs, x)
    BY <1>10, Zenon
  <2> HIDE DEF Value
  <2>5. L(k, signed, g.fs, width) = L(g, signed, g.fs, width)
    BY <2>4, Zenon
  <2> HIDE DEF L
  <2> QED BY <2>2, <2>3, <2>5, Zenon DEF signed, width
<1>19. \A packet, all, new : PutLines(k, packet, all, new) = PutLines(g, packet, all, new)
  <2> SUFFICES ASSUME NEW packet, NEW all, NEW new PROVE PutLines(k, packet, all, new) = PutLines(g, packet, all, new)
    OBVIOUS
  <2> DEFINE at(f, b, li) == {x \in DOMAIN packet : packet[x].band = b /\ LineOf(f, packet[x]) = li}
             Choice(S, b, li) == IF S = {} THEN all[b][li] ELSE new[CHOOSE x \in S : TRUE]
  <2>1. \A f : PutLines(f, packet, all, new)
               = [b \in Bands(f) |-> [li \in DOMAIN all[b] |-> Choice(at(f, b, li), b, li)]]
    BY Zenon DEF PutLines
  <2>2. \A b, li : at(k, b, li) = at(g, b, li)
    BY <1>9, Zenon
  <2> HIDE DEF at, Choice
  <2>3. [b \in Bands(k) |-> [li \in DOMAIN all[b] |-> Choice(at(k, b, li), b, li)]]
        = [b \in Bands(g) |-> [li \in DOMAIN all[b] |-> Choice(at(g, b, li), b, li)]]
    BY <1>1, <2>2, Zenon
  <2> QED BY <2>1, <2>3
<1>20. \A packet, pk, acc, read, lines, t :
          AddPacket(k, packet, pk, acc, read, lines, t) = AddPacket(g, packet, pk, acc, read, lines, t)
  <2> SUFFICES ASSUME NEW packet, NEW pk, NEW acc, NEW read, NEW lines, NEW t
               PROVE  AddPacket(k, packet, pk, acc, read, lines, t) = AddPacket(g, packet, pk, acc, read, lines, t)
    OBVIOUS
  <2> DEFINE Used(Bits(_)) == BytesFor(Total([x \in DOMAIN packet |-> Bits(x)]))
             lsig == Used(LAMBDA x : read[x].sigBits)
             data(f) == Used(LAMBDA x : DataBits(f, read[x].m, t[packet[x].band]))
             counts(f) == PutLines(f, packet, acc.counts, [x \in DOMAIN packet |-> read[x].m])
             out(f) == PutLines(f, packet, acc.out, [x \in DOMAIN packet |-> lines[x].values])
             A(c, o, bytes, dat) ==
                 [counts |-> c, out |-> o,
                  used |-> acc.used + bytes + lsig + pk.lcnt + pk.ldat + pk.lsgn,
                  fits |-> /\ acc.fits
                           /\ \A x \in DOMAIN packet : read[x].fits
                           /\ Used(LAMBDA x : read[x].cntBits) <= pk.lcnt
                           /\ dat <= pk.ldat
                           /\ Used(LAMBDA x : lines[x].signBits) <= pk.lsgn]
  <2>1. \A f : AddPacket(f, packet, pk, acc, read, lines, t) = A(counts(f), out(f), PacketHeaderBytes(f), data(f))
    BY Zenon DEF AddPacket
  <2>2. counts(k) = counts(g) /\ out(k) = out(g)
    BY <1>19, Zenon
  <2>3. data(k) = data(g)
    BY <1>12, Zenon
  <2> HIDE DEF A, counts, out, data
  <2> QED BY <1>14, <2>1, <2>2, <2>3, Zenon
<1>21. \A i, packet, pk, d, acc, t, state :
          DecodePacket(k, i, packet, pk, d, acc, t, state) = DecodePacket(g, i, packet, pk, d, acc, t, state)
  <2> SUFFICES ASSUME NEW i, NEW packet, NEW pk, NEW d, NEW acc, NEW t, NEW state
               PROVE  DecodePacket(k, i, packet, pk, d, acc, t, state) = DecodePacket(g, i, packet, pk, d, acc, t, state)
    OBVIOUS
  <2> DEFINE read(f) == Once([x \in DOMAIN packet |-> DecodeEntry(f, i, packet[x], pk.entries[x], pk.raw, d, acc.counts, t, state)])
             lines(f, m) == Once([x \in DOMAIN packet |->
                                DecodeLine(f, i, packet[x].band, m[x].m, t[packet[x].band], pk.dat[x], pk.sgn[x])])
  <2>1. \A f : DecodePacket(f, i, packet, pk, d, acc, t, state) = AddPacket(f, packet, pk, acc, read(f), lines(f, read(f)), t)
    BY Zenon DEF DecodePacket
  <2>2. read(k) = read(g)
    BY <1>17, Zenon
  <2>3. \A m : lines(k, m) = lines(g, m)
    BY <1>18, Zenon
  <2> HIDE DEF read, lines
  <2>4. DecodePacket(k, i, packet, pk, d, acc, t, state) = AddPacket(k, packet, pk, acc, read(g), lines(g, read(g)), t)
    BY <2>1, <2>2, <2>3, Zenon
  <2>5. DecodePacket(g, i, packet, pk, d, acc, t, state) = AddPacket(g, packet, pk, acc, read(g), lines(g, read(g)), t)
    BY <2>1
  <2> QED BY <1>20, <2>4, <2>5, Zenon
<1>22. \A i, precinct, start, t, state : DecodePackets(k, i, precinct, start, t, state) = DecodePackets(g, i, precinct, start, t, state)
  <2> SUFFICES ASSUME NEW i, NEW precinct, NEW start, NEW t, NEW state
               PROVE  DecodePackets(k, i, precinct, start, t, state) = DecodePackets(g, i, precinct, start, t, state)
    OBVIOUS
  <2> DEFINE packets == g.packets[i]
             n == Len(packets)
             Next1(f, F, s) == IF s = 0 THEN start
                              ELSE DecodePacket(f, i, packets[s], precinct.packets[s], precinct.d, Once(F[s - 1]), t, state)
             Run(f) == CHOOSE F : F = [s \in 0 .. n |-> Next1(f, F, s)]
  <2>1. \A f : f.packets = g.packets => DecodePackets(f, i, precinct, start, t, state) = Run(f)[n]
    BY Zenon DEF DecodePackets
  <2>2. \A F, s : Next1(k, F, s) = Next1(g, F, s)
    BY <1>21, Zenon
  <2> HIDE DEF Next1, n
  <2>3. \A F : [s \in 0 .. n |-> Next1(k, F, s)] = [s \in 0 .. n |-> Next1(g, F, s)]
    BY <2>2, Zenon
  <2>4. Run(k) = Run(g)
    BY <2>3, Zenon
  <2> HIDE DEF Run
  <2> QED BY <1>0, <2>1, <2>4
<1>23. \A i, precinct, end, t : Decoded(k, i, precinct, end, t) = Decoded(g, i, precinct, end, t)
  BY <1>8, Zenon DEF Decoded
<1> SUFFICES ASSUME NEW i, NEW precinct, NEW state
             PROVE  DecodePrecinct(k, i, precinct, state) = DecodePrecinct(g, i, precinct, state)
  OBVIOUS
<1> DEFINE T(f) == Once(Truncations(f, precinct.q, precinct.r))
           counts(f) == [b \in Bands(f) |-> [li \in 0 .. Lines(f, i, b) - 1 |-> [x \in Groups(f, i, b) |-> 0]]]
           out(f) == [b \in Bands(f) |-> [li \in 0 .. Lines(f, i, b) - 1 |-> [x \in 0 .. f.widths[i][b] - 1 |-> 0]]]
           start(f) == [counts |-> counts(f), out |-> out(f), used |-> 0, fits |-> precinct.d.vertical => state.valid]
<1>24. \A f : DecodePrecinct(f, i, precinct, state)
              = Decoded(f, i, precinct, Once(DecodePackets(f, i, precinct, start(f), T(f), state)), T(f))
  BY Zenon DEF DecodePrecinct
<1>25. T(k) = T(g)
  BY <1>5, Zenon
<1>26. counts(k) = counts(g)
  BY <1>1, <1>6, <1>7, Zenon
<1>27. out(k) = out(g)
  <2> DEFINE Row0(f, b) == [x \in 0 .. f.widths[i][b] - 1 |-> 0]
  <2>1. \A b : Row0(k, b) = Row0(g, b)
    BY <1>0
  <2> HIDE DEF Row0
  <2>2. [b \in Bands(k) |-> [li \in 0 .. Lines(k, i, b) - 1 |-> Row0(k, b)]]
        = [b \in Bands(g) |-> [li \in 0 .. Lines(g, i, b) - 1 |-> Row0(g, b)]]
    BY <1>1, <1>6, <2>1, Zenon
  <2> QED BY <2>2 DEF Row0
<1> HIDE DEF T, counts, out
<1>28. start(k) = start(g)
  BY <1>26, <1>27
<1> HIDE DEF start
<1> QED
  BY <1>22, <1>23, <1>24, <1>25, <1>28, Zenon

LEMMA SamePlaces ==
    ASSUME NEW k, NEW g, SameCoding(k, g)
    PROVE  /\ Bands(k) = Bands(g) /\ NumBands(k) = NumBands(g) /\ NumPrecincts(k) = NumPrecincts(g)
           /\ PrecinctsPerRow(k) = PrecinctsPerRow(g) /\ k.hsl = g.hsl
           /\ \A i : PrecinctColumn(k, i) = PrecinctColumn(g, i)
           /\ \A i : StartsSlice(k, i) <=> StartsSlice(g, i)
           /\ \A t : SliceFirstPrecinct(k, t) = SliceFirstPrecinct(g, t)
           /\ Unpredicted(k) = Unpredicted(g) /\ Blank(k) = Blank(g)
           /\ \A i, lines, cs : PlacePrecinct(k, i, lines, cs) = PlacePrecinct(g, i, lines, cs)
<1>0. SameGrid(k, g) /\ k.hsl = g.hsl /\ k.bands = g.bands /\ k.widths = g.widths /\ k.hf = g.hf /\ k.nly = g.nly
  BY DEF SameCoding, SameGrid
<1>1. /\ Bands(k) = Bands(g) /\ NumBands(k) = NumBands(g) /\ NumPrecincts(k) = NumPrecincts(g)
      /\ PrecinctsPerRow(k) = PrecinctsPerRow(g)
      /\ \A i : PrecinctRow(k, i) = PrecinctRow(g, i) /\ PrecinctColumn(k, i) = PrecinctColumn(g, i)
  BY <1>0, SameBands
<1>2. NumSlices(k) = NumSlices(g)
  BY <1>0 DEF NumSlices, PrecinctRows
<1>3. \A t : SliceFirstPrecinct(k, t) = SliceFirstPrecinct(g, t)
  BY <1>0, <1>1 DEF SliceFirstPrecinct
<1>4. \A i : StartsSlice(k, i) <=> StartsSlice(g, i)
  BY <1>2, <1>3 DEF StartsSlice
<1>5. Unpredicted(k) = Unpredicted(g)
  BY <1>1 DEF Unpredicted, Columns
<1>6. Blank(k) = Blank(g)
  BY <1>0, <1>1, Zenon DEF Blank
<1>7. \A b : Span(k, b) = Span(g, b)
  BY <1>0, Zenon DEF Span
<1>8. \A i, b, li : BandY(k, i, b, li) = BandY(g, i, b, li)
  BY <1>1, <1>7, Zenon DEF BandY
<1>9. \A i, b, xi : BandX(k, i, b, xi) = BandX(g, i, b, xi)
  BY <1>0, <1>1, Zenon DEF BandX
<1>10. ASSUME NEW i, NEW lines, NEW cs PROVE PlacePrecinct(k, i, lines, cs) = PlacePrecinct(g, i, lines, cs)
  <2> DEFINE Y(f, b) == BandY(f, i, b, 0)
             X(f, b) == BandX(f, i, b, 0)
             W(f, b) == f.widths[i][b]
             row(f, b, y) == [x \in DOMAIN cs[b][y] |->
                                IF x - X(f, b) \in 0 .. W(f, b) - 1 THEN lines[b][y - Y(f, b)][x - X(f, b)]
                                ELSE cs[b][y][x]]
             rows(f, b) == [y \in DOMAIN cs[b] |-> IF y - Y(f, b) \notin DOMAIN lines[b] THEN cs[b][y] ELSE row(f, b, y)]
             placed(f) == [b \in Bands(f) |-> rows(f, b)]
  <2>1. \A f : PlacePrecinct(f, i, lines, cs) = placed(f)
    BY Zenon DEF PlacePrecinct
  <2>2. \A b : Y(k, b) = Y(g, b) /\ X(k, b) = X(g, b) /\ W(k, b) = W(g, b)
    BY <1>0, <1>8, <1>9
  <2> HIDE DEF Y, X, W
  <2>4. ASSUME NEW b PROVE rows(k, b) = rows(g, b)
    <3>1. PICK yb : Y(k, b) = yb /\ Y(g, b) = yb
      BY <2>2
    <3>2. PICK xb : X(k, b) = xb /\ X(g, b) = xb
      BY <2>2
    <3>3. PICK wb : W(k, b) = wb /\ W(g, b) = wb
      BY <2>2
    <3> DEFINE r(y) == [x \in DOMAIN cs[b][y] |->
                          IF x - xb \in 0 .. wb - 1 THEN lines[b][y - yb][x - xb] ELSE cs[b][y][x]]
    <3>4. \A y : row(k, b, y) = r(y) /\ row(g, b, y) = r(y)
      BY <3>1, <3>2, <3>3
    <3> HIDE DEF row, r
    <3>5. /\ rows(k, b) = [y \in DOMAIN cs[b] |-> IF y - yb \notin DOMAIN lines[b] THEN cs[b][y] ELSE r(y)]
          /\ rows(g, b) = [y \in DOMAIN cs[b] |-> IF y - yb \notin DOMAIN lines[b] THEN cs[b][y] ELSE r(y)]
      BY <3>1, <3>4
    <3> QED BY <3>5
  <2> HIDE DEF rows
  <2>5. placed(k) = placed(g)
    BY <1>1, <2>4, Zenon
  <2> HIDE DEF placed
  <2> QED BY <2>1, <2>5
<1> QED BY <1>0, <1>1, <1>3, <1>4, <1>5, <1>6, <1>10

(* The state of a column serves every precinct below in that column.       *)
LEMMA StateServesBelow ==
    ASSUME NEW t, NEW i \in 0 .. NumPrecincts(t) - 1, NEW k \in 0 .. NumPrecincts(t) - 1, NEW state,
           Prepared(t), i <= k, PrecinctColumn(t, i) = PrecinctColumn(t, k), StateFits(t, i, state)
    PROVE  StateFits(t, k, state)
<1>1. PICK w \in Nat \ {0} : w = PrecinctsPerRow(t)
  <2>1. Fitted(t)
    BY DEF Prepared
  <2> QED BY <2>1, Numbers
<1>2. SUFFICES ASSUME NEW b \in Bands(t), Lines(t, k, b) > 0
               PROVE  state.mLast[b] \in LineCounts(t, k, b) /\ state.tAbove[b] \in 0 .. MaxCount(t)
  BY DEF StateFits
<1>3. t.widths[i][b] = t.widths[k][b]
  BY WidthsAre
<1>4. LineCounts(t, k, b) = LineCounts(t, i, b)
  BY <1>3 DEF LineCounts, Groups, CodeGroups
<1>5. PICK S \in Nat \ {0} : S = Span(t, b)
  BY LinesAre
<1>6. PICK r \in Nat : r = PrecinctRow(t, i)
  BY LinesAre
<1>7. PICK s \in Nat : s = PrecinctRow(t, k)
  BY LinesAre
<1>8. PICK c \in Nat : c = PrecinctColumn(t, k) /\ i = r * w + c /\ k = s * w + c
  BY <1>1, <1>6, <1>7, LinesAre
<1>9. r <= s
  <2> SUFFICES ASSUME s < r PROVE FALSE
    BY <1>6, <1>7
  <2>1. PICK n \in Nat \ {0} : r = s + n
    <3>1. r - s \in Nat \ {0} /\ r = s + (r - s)
      OBVIOUS
    <3> QED BY <3>1
  <2>2. r * w = s * w + n * w /\ n * w \in Nat \ {0} /\ s * w \in Nat
    BY <2>1
  <2>3. PICK z \in Nat \ {0} : z = n * w
    BY <2>2
  <2>4. PICK y \in Nat : y = s * w
    BY <2>2
  <2> QED BY <1>8, <2>2, <2>3, <2>4
<1>10. PICK u \in Int : u = Covered(t, i, b)
  BY LinesAre
<1>11. PICK v \in Int : v = Covered(t, k, b)
  BY LinesAre
<1>12. v <= u
  <2>1. PICK height \in Nat : height = t.bands[b].height
    BY EveryBand DEF BandFits
  <2>2. u = height - r * S /\ v = height - s * S
    BY <1>5, <1>6, <1>7, <1>10, <1>11, <2>1 DEF Covered
  <2>3. PICK n \in Nat : s = r + n
    <3>1. s - r \in Nat /\ s = r + (s - r)
      BY <1>9
    <3> QED BY <3>1
  <2>4. s * S = r * S + n * S /\ n * S \in Nat /\ r * S \in Nat
    BY <2>3
  <2>5. PICK z \in Nat : z = n * S
    BY <2>4
  <2>6. PICK y \in Nat : y = r * S
    BY <2>4
  <2> QED BY <2>2, <2>4, <2>5, <2>6
<1>13. Lines(t, i, b) > 0
  <2>1. Lines(t, i, b) = Larger(0, Smaller(u, S)) /\ Lines(t, k, b) = Larger(0, Smaller(v, S))
    BY <1>5, <1>10, <1>11, LinesAre
  <2> QED BY <1>2, <1>12, <2>1 DEF Larger, Smaller
<1> QED BY <1>4, <1>13 DEF StateFits

(* Where a precinct lies in the band buffers: no two in the same place     *)
(* (geometry.cc: ToBandPosition).                                          *)
PlacedAt(g, k, b, row, col, span, wide) ==
    /\ row = PrecinctRow(g, k) /\ col = PrecinctColumn(g, k) /\ span = Span(g, b)
    /\ wide = g.widths[row * PrecinctsPerRow(g)][b] /\ row * PrecinctsPerRow(g) \in 0 .. NumPrecincts(g) - 1
    /\ PrecinctColumn(g, row * PrecinctsPerRow(g)) = 0
    /\ g.widths[k][b] \in 0 .. wide /\ Lines(g, k, b) \in 0 .. span
    /\ \A xi \in Nat : BandX(g, k, b, xi) = col * wide + xi
    /\ \A li \in Nat : BandY(g, k, b, li) = row * span + li
LEMMA PlacesAre ==
    ASSUME NEW g, NEW k \in 0 .. NumPrecincts(g) - 1, NEW b \in Bands(g), Prepared(g)
    PROVE  \E row, col, span, wide \in Nat : PlacedAt(g, k, b, row, col, span, wide)
<1>1. PICK w \in Nat \ {0} : w = PrecinctsPerRow(g)
  <2>1. Fitted(g)
    BY DEF Prepared
  <2> QED BY <2>1, Numbers
<1>2. PICK S \in Nat \ {0} : S = Span(g, b) /\ Lines(g, k, b) \in 0 .. S
  BY LinesAre
<1>3. PICK row \in Nat : row = PrecinctRow(g, k)
  BY LinesAre
<1>4. PICK col \in 0 .. w - 1 : col = PrecinctColumn(g, k) /\ k = row * w + col
  BY <1>1, <1>3, LinesAre
<1>5. row * w \in 0 .. NumPrecincts(g) - 1 /\ PrecinctColumn(g, row * w) = 0
  <2>1. PICK n \in Nat : n = NumPrecincts(g)
    <3>1. Fitted(g)
      BY DEF Prepared
    <3> QED BY <3>1, Numbers
  <2>2. PICK z \in Nat : z = row * w
    OBVIOUS
  <2>3. z \in 0 .. n - 1
    BY <1>4, <2>1, <2>2
  <2>4. ((row * w + 0) % w) = 0
    <3>1. 0 \in 0 .. w - 1
      OBVIOUS
    <3> QED BY <3>1, DivMod
  <2>5. (z % w) = 0
    BY <2>2, <2>4
  <2> QED BY <1>1, <2>1, <2>2, <2>3, <2>5 DEF PrecinctColumn
<1>6. PICK wide \in Nat : wide = g.widths[row * w][b] /\ g.widths[k][b] \in 0 .. wide
  <2>1. g.widths[row * w][b] \in Nat /\ g.widths[k][b] \in Nat /\ g.widths[k][b] <= g.widths[row * w][b]
    BY <1>5, WidthsAre
  <2> QED BY <2>1
<1>7. \A xi \in Nat : BandX(g, k, b, xi) = col * wide + xi
  BY <1>1, <1>3, <1>4, <1>6 DEF BandX
<1>8. \A li \in Nat : BandY(g, k, b, li) = row * S + li
  BY <1>2, <1>3 DEF BandY
<1>9. col \in Nat /\ S \in Nat
  BY <1>4
<1>10. PlacedAt(g, k, b, row, col, S, wide)
  BY <1>1, <1>2, <1>3, <1>4, <1>5, <1>6, <1>7, <1>8 DEF PlacedAt
<1> QED BY <1>3, <1>6, <1>9, <1>10

LEMMA PlacesDiffer ==
    ASSUME NEW g, NEW k \in 0 .. NumPrecincts(g) - 1, NEW i \in 0 .. NumPrecincts(g) - 1, NEW b \in Bands(g), Prepared(g),
           NEW li \in 0 .. Lines(g, k, b) - 1, NEW xi \in 0 .. g.widths[k][b] - 1,
           BandY(g, k, b, li) - BandY(g, i, b, 0) \in 0 .. Lines(g, i, b) - 1,
           BandX(g, k, b, xi) - BandX(g, i, b, 0) \in 0 .. g.widths[i][b] - 1
    PROVE  k = i
<1>0. 0 \in Nat
  OBVIOUS
<1>1. PICK w \in Nat \ {0} : w = PrecinctsPerRow(g)
  <2>1. Fitted(g)
    BY DEF Prepared
  <2> QED BY <2>1, Numbers
<1>2. PICK r, c, S, W \in Nat : PlacedAt(g, k, b, r, c, S, W)
  BY PlacesAre
<1>3. PICK s, d, T, V \in Nat : PlacedAt(g, i, b, s, d, T, V)
  BY PlacesAre
<1>a. /\ r = PrecinctRow(g, k) /\ c = PrecinctColumn(g, k) /\ S = Span(g, b)
      /\ W = g.widths[r * w][b] /\ r * w \in 0 .. NumPrecincts(g) - 1 /\ PrecinctColumn(g, r * w) = 0
      /\ g.widths[k][b] \in 0 .. W /\ Lines(g, k, b) \in 0 .. S
      /\ \A x \in Nat : BandX(g, k, b, x) = c * W + x
      /\ \A y \in Nat : BandY(g, k, b, y) = r * S + y
  BY <1>1, <1>2 DEF PlacedAt
<1>b. /\ s = PrecinctRow(g, i) /\ d = PrecinctColumn(g, i) /\ T = Span(g, b)
      /\ V = g.widths[s * w][b] /\ s * w \in 0 .. NumPrecincts(g) - 1 /\ PrecinctColumn(g, s * w) = 0
      /\ g.widths[i][b] \in 0 .. V /\ Lines(g, i, b) \in 0 .. T
      /\ \A x \in Nat : BandX(g, i, b, x) = d * V + x
      /\ \A y \in Nat : BandY(g, i, b, y) = s * T + y
  BY <1>1, <1>3 DEF PlacedAt
<1>4. S = T /\ V = W
  <2>1. V = W
    <3>1. PICK a : a = r * w
      OBVIOUS
    <3>2. PICK e : e = s * w
      OBVIOUS
    <3>3. a \in 0 .. NumPrecincts(g) - 1 /\ e \in 0 .. NumPrecincts(g) - 1 /\ PrecinctColumn(g, a) = PrecinctColumn(g, e)
      BY <1>a, <1>b, <3>1, <3>2, Zenon
    <3>4. g.widths[a][b] = g.widths[e][b]
      BY <3>3, WidthsAre
    <3> QED BY <1>a, <1>b, <3>1, <3>2, <3>4, Zenon
  <2> QED BY <1>a, <1>b, <2>1
<1>5. li \in 0 .. S - 1 /\ xi \in 0 .. W - 1 /\ li \in Nat /\ xi \in Nat
  BY <1>a
<1>6. PICK lj \in 0 .. S - 1 : r * S + li = s * S + lj
  <2>1. PICK y \in Nat : y = r * S
    OBVIOUS
  <2>2. PICK z \in Nat : z = s * S
    OBVIOUS
  <2>3. (y + li) - (z + 0) \in 0 .. Lines(g, i, b) - 1
    BY <1>0, <1>a, <1>b, <1>4, <1>5, <2>1, <2>2
  <2>4. PICK l \in 0 .. S : l = Lines(g, i, b)
    BY <1>b, <1>4
  <2>5. (y + li) - z \in 0 .. S - 1 /\ y + li = z + ((y + li) - z)
    BY <2>3, <2>4
  <2> QED BY <2>1, <2>2, <2>5
<1>7. PICK xj \in 0 .. W - 1 : c * W + xi = d * W + xj
  <2>1. PICK y \in Nat : y = c * W
    OBVIOUS
  <2>2. PICK z \in Nat : z = d * W
    OBVIOUS
  <2>3. (y + xi) - (z + 0) \in 0 .. g.widths[i][b] - 1
    BY <1>0, <1>a, <1>b, <1>4, <1>5, <2>1, <2>2
  <2>4. PICK l \in 0 .. W : l = g.widths[i][b]
    BY <1>b, <1>4
  <2>5. (y + xi) - z \in 0 .. W - 1 /\ y + xi = z + ((y + xi) - z)
    BY <2>3, <2>4
  <2> QED BY <2>1, <2>2, <2>5
<1>8. r = s
  <2>1. S \in Nat \ {0}
    BY <1>5
  <2>2. (r * S + li) \div S = r /\ (s * S + lj) \div S = s
    BY <1>5, <1>6, <2>1, DivMod
  <2> QED BY <1>6, <2>2
<1>9. c = d
  <2>1. W \in Nat \ {0}
    BY <1>5
  <2>2. (c * W + xi) \div W = c /\ (d * W + xj) \div W = d
    BY <1>5, <1>7, <2>1, DivMod
  <2> QED BY <1>7, <2>2
<1>10. k = r * w + c /\ i = s * w + d
  BY <1>1, <1>a, <1>b, LinesAre
<1> QED BY <1>8, <1>9, <1>10

(* What is read of a precinct is close to the coefficients: first in the   *)
(* precinct itself, then where it is put, and so for those before it.      *)
InPicture(g, k, b, li, xi) == BandX(g, k, b, xi) < g.bands[b].width /\ BandY(g, k, b, li) < g.bands[b].height
Close(g, k, cs, x, out) ==
    \A b \in Bands(g) :
        /\ DOMAIN out[b] = 0 .. Lines(g, k, b) - 1
        /\ \A li \in 0 .. Lines(g, k, b) - 1 : \A xi \in 0 .. g.widths[k][b] - 1 :
              InPicture(g, k, b, li, xi) =>
                 NearTo(cs[b][BandY(g, k, b, li)][BandX(g, k, b, xi)], out[b][li][xi], ComputeTruncation(g, b, x.q, x.r))
ClosePlaced(g, k, cs, x, all) ==
    \A b \in Bands(g) : \A li \in 0 .. Lines(g, k, b) - 1 : \A xi \in 0 .. g.widths[k][b] - 1 :
        InPicture(g, k, b, li, xi) =>
           NearTo(cs[b][BandY(g, k, b, li)][BandX(g, k, b, xi)], all[b][BandY(g, k, b, li)][BandX(g, k, b, xi)],
                  ComputeTruncation(g, b, x.q, x.r))
Followed(g, cs, w, n, all) == \A k \in 0 .. n - 1 : ClosePlaced(g, k, cs, w[k], all)
IsBuffer(g, all) ==
    \A b \in Bands(g) : /\ DOMAIN all[b] = 0 .. g.bands[b].height - 1
                        /\ \A y \in 0 .. g.bands[b].height - 1 : DOMAIN all[b][y] = 0 .. g.bands[b].width - 1

LEMMA PlacedSample ==
    ASSUME NEW g, NEW i, NEW out, NEW all, NEW b \in Bands(g),
           NEW y \in 0 .. g.bands[b].height - 1, NEW x \in 0 .. g.bands[b].width - 1, IsBuffer(g, all)
    PROVE  PlacePrecinct(g, i, out, all)[b][y][x]
           = IF /\ y - BandY(g, i, b, 0) \in DOMAIN out[b]
                /\ x - BandX(g, i, b, 0) \in 0 .. g.widths[i][b] - 1
             THEN out[b][y - BandY(g, i, b, 0)][x - BandX(g, i, b, 0)] ELSE all[b][y][x]
<1>1. DOMAIN all[b] = 0 .. g.bands[b].height - 1 /\ DOMAIN all[b][y] = 0 .. g.bands[b].width - 1
  BY DEF IsBuffer
<1>2. PlacePrecinct(g, i, out, all)[b]
      = [v \in DOMAIN all[b] |->
            IF v - BandY(g, i, b, 0) \notin DOMAIN out[b] THEN all[b][v]
            ELSE [u \in DOMAIN all[b][v] |->
                    IF u - BandX(g, i, b, 0) \in 0 .. g.widths[i][b] - 1
                    THEN out[b][v - BandY(g, i, b, 0)][u - BandX(g, i, b, 0)] ELSE all[b][v][u]]]
  BY Zenon DEF PlacePrecinct
<1>3. y \in DOMAIN all[b] /\ x \in DOMAIN all[b][y]
  BY <1>1
<1>4. PlacePrecinct(g, i, out, all)[b][y]
      = IF y - BandY(g, i, b, 0) \notin DOMAIN out[b] THEN all[b][y]
        ELSE [u \in DOMAIN all[b][y] |->
                IF u - BandX(g, i, b, 0) \in 0 .. g.widths[i][b] - 1
                THEN out[b][y - BandY(g, i, b, 0)][u - BandX(g, i, b, 0)] ELSE all[b][y][u]]
  BY <1>2, <1>3, Zenon
<1>5. CASE y - BandY(g, i, b, 0) \notin DOMAIN out[b]
  BY <1>4, <1>5
<1>6. CASE y - BandY(g, i, b, 0) \in DOMAIN out[b]
  BY <1>3, <1>4, <1>6
<1> QED BY <1>5, <1>6

LEMMA PlacedIsBuffer ==
    ASSUME NEW g, NEW i, NEW out, NEW all, IsBuffer(g, all)
    PROVE  IsBuffer(g, PlacePrecinct(g, i, out, all))
<1>1. SUFFICES ASSUME NEW b \in Bands(g)
               PROVE  /\ DOMAIN PlacePrecinct(g, i, out, all)[b] = 0 .. g.bands[b].height - 1
                      /\ \A y \in 0 .. g.bands[b].height - 1 :
                            DOMAIN PlacePrecinct(g, i, out, all)[b][y] = 0 .. g.bands[b].width - 1
  BY DEF IsBuffer
<1>2. DOMAIN all[b] = 0 .. g.bands[b].height - 1
      /\ \A y \in 0 .. g.bands[b].height - 1 : DOMAIN all[b][y] = 0 .. g.bands[b].width - 1
  BY DEF IsBuffer
<1>3. PlacePrecinct(g, i, out, all)[b]
      = [v \in DOMAIN all[b] |->
            IF v - BandY(g, i, b, 0) \notin DOMAIN out[b] THEN all[b][v]
            ELSE [u \in DOMAIN all[b][v] |->
                    IF u - BandX(g, i, b, 0) \in 0 .. g.widths[i][b] - 1
                    THEN out[b][v - BandY(g, i, b, 0)][u - BandX(g, i, b, 0)] ELSE all[b][v][u]]]
  BY Zenon DEF PlacePrecinct
<1> QED BY <1>2, <1>3

LEMMA BlankIsBuffer ==
    ASSUME NEW g
    PROVE  IsBuffer(g, Blank(g))
BY DEF IsBuffer, Blank

LEMMA PlacedFollows ==
    ASSUME NEW g, NEW i \in 0 .. NumPrecincts(g) - 1, NEW cs, NEW w, NEW out, NEW all, Prepared(g), IsBuffer(g, all),
           Followed(g, cs, w, i, all), Close(g, i, cs, w[i], out)
    PROVE  Followed(g, cs, w, i + 1, PlacePrecinct(g, i, out, all))
<1> DEFINE new == PlacePrecinct(g, i, out, all)
<1>1. SUFFICES ASSUME NEW k \in 0 .. i, NEW b \in Bands(g), NEW li \in 0 .. Lines(g, k, b) - 1,
                      NEW xi \in 0 .. g.widths[k][b] - 1, InPicture(g, k, b, li, xi)
               PROVE  NearTo(cs[b][BandY(g, k, b, li)][BandX(g, k, b, xi)], new[b][BandY(g, k, b, li)][BandX(g, k, b, xi)],
                             ComputeTruncation(g, b, w[k].q, w[k].r))
  <2> HIDE DEF new
  <2>1. i \in Int
    BY Numbers DEF Prepared
  <2>2. 0 .. (i + 1) - 1 = 0 .. i
    BY <2>1
  <2> QED BY <2>2 DEF Followed, ClosePlaced, new
<1>2. PICK n \in Nat : n = NumPrecincts(g)
  BY Numbers DEF Prepared
<1>3. k \in 0 .. n - 1 /\ i \in 0 .. n - 1 /\ k \in 0 .. NumPrecincts(g) - 1 /\ i \in Nat /\ k \in Nat
  BY <1>2
<1>4. PICK y, x \in Nat : y = BandY(g, k, b, li) /\ x = BandX(g, k, b, xi)
  <2>0. PICK row, col, span, wide \in Nat : PlacedAt(g, k, b, row, col, span, wide)
    BY <1>3, PlacesAre
  <2>1. /\ \A v \in Nat : BandX(g, k, b, v) = col * wide + v
        /\ \A v \in Nat : BandY(g, k, b, v) = row * span + v
        /\ Lines(g, k, b) \in 0 .. span /\ g.widths[k][b] \in 0 .. wide
    BY <2>0, Zenon DEF PlacedAt
  <2>2. li \in Nat /\ xi \in Nat
    BY <2>1
  <2>3. row * span + li \in Nat /\ col * wide + xi \in Nat
    BY <2>2
  <2> QED BY <2>1, <2>2, <2>3
<1>5. y \in 0 .. g.bands[b].height - 1 /\ x \in 0 .. g.bands[b].width - 1
  <2>1. g.bands[b].height \in Nat /\ g.bands[b].width \in Nat
    BY EveryBand DEF BandFits
  <2> QED BY <1>1, <1>4, <2>1 DEF InPicture
<1>6. DOMAIN out[b] = 0 .. Lines(g, i, b) - 1
  BY DEF Close
<1>7. CASE k = i
  <2>0. PICK row, col, span, wide \in Nat : PlacedAt(g, i, b, row, col, span, wide)
    BY <1>3, PlacesAre
  <2>1. /\ \A v \in Nat : BandX(g, i, b, v) = col * wide + v
        /\ \A v \in Nat : BandY(g, i, b, v) = row * span + v
        /\ Lines(g, i, b) \in 0 .. span /\ g.widths[i][b] \in 0 .. wide
    BY <2>0, Zenon DEF PlacedAt
  <2>2. li \in Nat /\ xi \in Nat /\ 0 \in Nat
    BY <1>7, <2>1
  <2>3. y - BandY(g, i, b, 0) = li
    <3>1. PICK z \in Nat : z = row * span
      OBVIOUS
    <3> QED BY <1>4, <1>7, <2>1, <2>2, <3>1
  <2>4. x - BandX(g, i, b, 0) = xi
    <3>1. PICK z \in Nat : z = col * wide
      OBVIOUS
    <3> QED BY <1>4, <1>7, <2>1, <2>2, <3>1
  <2>5. /\ y - BandY(g, i, b, 0) \in DOMAIN out[b]
        /\ x - BandX(g, i, b, 0) \in 0 .. g.widths[i][b] - 1
    BY <1>6, <1>7, <2>3, <2>4
  <2>6. new[b][y][x] = out[b][li][xi]
    <3>1. new[b][y][x]
          = IF /\ y - BandY(g, i, b, 0) \in DOMAIN out[b]
               /\ x - BandX(g, i, b, 0) \in 0 .. g.widths[i][b] - 1
            THEN out[b][y - BandY(g, i, b, 0)][x - BandX(g, i, b, 0)] ELSE all[b][y][x]
      BY <1>5, PlacedSample
    <3> HIDE DEF new
    <3>2. new[b][y][x] = out[b][y - BandY(g, i, b, 0)][x - BandX(g, i, b, 0)]
      BY <2>5, <3>1
    <3> QED BY <2>3, <2>4, <3>2
  <2>7. NearTo(cs[b][y][x], out[b][li][xi], ComputeTruncation(g, b, w[k].q, w[k].r))
    BY <1>1, <1>4, <1>7 DEF Close
  <2> HIDE DEF new
  <2> QED BY <1>4, <2>6, <2>7
<1>8. CASE k # i
  <2>1. ~(/\ y - BandY(g, i, b, 0) \in DOMAIN out[b]
          /\ x - BandX(g, i, b, 0) \in 0 .. g.widths[i][b] - 1)
    BY <1>3, <1>4, <1>6, <1>8, PlacesDiffer
  <2>2. new[b][y][x] = all[b][y][x]
    <3>1. new[b][y][x]
          = IF /\ y - BandY(g, i, b, 0) \in DOMAIN out[b]
               /\ x - BandX(g, i, b, 0) \in 0 .. g.widths[i][b] - 1
            THEN out[b][y - BandY(g, i, b, 0)][x - BandX(g, i, b, 0)] ELSE all[b][y][x]
      BY <1>5, PlacedSample
    <3> HIDE DEF new
    <3> QED BY <2>1, <3>1
  <2>3. k \in 0 .. i - 1
    BY <1>3, <1>8
  <2>4. NearTo(cs[b][y][x], all[b][y][x], ComputeTruncation(g, b, w[k].q, w[k].r))
    BY <1>1, <1>4, <2>3 DEF Followed, ClosePlaced
  <2> HIDE DEF new
  <2> QED BY <1>4, <2>2, <2>4
<1> QED BY <1>7, <1>8

(* A precinct taken out of the band buffers (geometry.cc).                 *)
Narrow(g, cs) ==
    \A b \in Bands(g) : \A y \in 0 .. g.bands[b].height - 1 : \A x \in 0 .. g.bands[b].width - 1 :
        cs[b][y][x] \in Coefficient
LEMMA PositionsAreNat ==
    ASSUME NEW g, NEW k \in 0 .. NumPrecincts(g) - 1, NEW b \in Bands(g), Prepared(g),
           NEW li \in 0 .. Lines(g, k, b) - 1, NEW xi \in 0 .. g.widths[k][b] - 1
    PROVE  BandY(g, k, b, li) \in Nat /\ BandX(g, k, b, xi) \in Nat
<1>0. PICK row, col, span, wide \in Nat : PlacedAt(g, k, b, row, col, span, wide)
  BY PlacesAre
<1>1. /\ \A v \in Nat : BandX(g, k, b, v) = col * wide + v
      /\ \A v \in Nat : BandY(g, k, b, v) = row * span + v
      /\ Lines(g, k, b) \in 0 .. span /\ g.widths[k][b] \in 0 .. wide
  BY <1>0, Zenon DEF PlacedAt
<1>2. li \in Nat /\ xi \in Nat
  BY <1>1
<1>3. row * span + li \in Nat /\ col * wide + xi \in Nat
  BY <1>2
<1> QED BY <1>1, <1>2, <1>3

LEMMA ExtractedSample ==
    ASSUME NEW g, NEW k, NEW cs, NEW b \in Bands(g),
           NEW li \in 0 .. Lines(g, k, b) - 1, NEW xi \in 0 .. g.widths[k][b] - 1
    PROVE  /\ DOMAIN ExtractPrecinct(g, k, cs)[b] = 0 .. Lines(g, k, b) - 1
           /\ DOMAIN ExtractPrecinct(g, k, cs)[b][li] = 0 .. g.widths[k][b] - 1
           /\ ExtractPrecinct(g, k, cs)[b][li][xi]
              = IF InPicture(g, k, b, li, xi) THEN cs[b][BandY(g, k, b, li)][BandX(g, k, b, xi)] ELSE 0
<1>1. ExtractPrecinct(g, k, cs)[b]
      = [v \in 0 .. Lines(g, k, b) - 1 |->
            [u \in 0 .. g.widths[k][b] - 1 |->
                IF BandX(g, k, b, u) < g.bands[b].width /\ BandY(g, k, b, v) < g.bands[b].height
                THEN cs[b][BandY(g, k, b, v)][BandX(g, k, b, u)] ELSE 0]]
  BY Zenon DEF ExtractPrecinct
<1>2. ExtractPrecinct(g, k, cs)[b][li]
      = [u \in 0 .. g.widths[k][b] - 1 |->
                IF BandX(g, k, b, u) < g.bands[b].width /\ BandY(g, k, b, li) < g.bands[b].height
                THEN cs[b][BandY(g, k, b, li)][BandX(g, k, b, u)] ELSE 0]
  BY <1>1, Zenon
<1> QED BY <1>1, <1>2, Zenon DEF InPicture

LEMMA ExtractedFits ==
    ASSUME NEW g, NEW k \in 0 .. NumPrecincts(g) - 1, NEW cs, Prepared(g), Narrow(g, cs)
    PROVE  CoefficientsFit(g, k, ExtractPrecinct(g, k, cs))
<1> DEFINE pc == ExtractPrecinct(g, k, cs)
<1>1. SUFFICES ASSUME NEW b \in Bands(g), NEW li \in 0 .. Lines(g, k, b) - 1, NEW xi \in DOMAIN pc[b][li]
               PROVE  pc[b][li][xi] \in Coefficient
  BY DEF CoefficientsFit
<1>2. PICK width : width = g.widths[k][b]
  OBVIOUS
<1>3. DOMAIN pc[b][li] = 0 .. width - 1
  <2>1. pc[b] = [v \in 0 .. Lines(g, k, b) - 1 |->
            [u \in 0 .. g.widths[k][b] - 1 |->
                IF BandX(g, k, b, u) < g.bands[b].width /\ BandY(g, k, b, v) < g.bands[b].height
                THEN cs[b][BandY(g, k, b, v)][BandX(g, k, b, u)] ELSE 0]]
    BY Zenon DEF ExtractPrecinct
  <2> HIDE DEF pc
  <2> QED BY <1>2, <2>1
<1>4. xi \in 0 .. g.widths[k][b] - 1
  BY <1>2, <1>3
<1>5. pc[b][li][xi] = IF InPicture(g, k, b, li, xi) THEN cs[b][BandY(g, k, b, li)][BandX(g, k, b, xi)] ELSE 0
  BY <1>4, ExtractedSample
<1> HIDE DEF pc
<1>6. CASE InPicture(g, k, b, li, xi)
  <2>1. PICK y \in Nat : y = BandY(g, k, b, li)
    BY <1>4, PositionsAreNat
  <2>2. PICK x \in Nat : x = BandX(g, k, b, xi)
    BY <1>4, PositionsAreNat
  <2>3. g.bands[b].height \in Nat /\ g.bands[b].width \in Nat
    BY EveryBand DEF BandFits
  <2>4. y \in 0 .. g.bands[b].height - 1 /\ x \in 0 .. g.bands[b].width - 1
    BY <1>6, <2>1, <2>2, <2>3 DEF InPicture
  <2> QED BY <1>5, <1>6, <2>1, <2>2, <2>4 DEF Narrow
<1>7. CASE ~InPicture(g, k, b, li, xi)
  <2>1. 0 \in Coefficient
    BY DEF Coefficient
  <2> QED BY <1>5, <1>7, <2>1
<1> QED BY <1>6, <1>7

(* The predictor states of all columns: valid ones serve every precinct    *)
(* that is still to come in their column.                                  *)
StartState(g, k, s) == IF StartsSlice(g, k) THEN Unpredicted(g) ELSE s
Usable(g, s, n) ==
    /\ s = [c \in Columns(g) |-> s[c]]
    /\ \A c \in Columns(g) :
          /\ s[c].valid \in BOOLEAN
          /\ s[c].valid => \A k \in n .. NumPrecincts(g) - 1 : PrecinctColumn(g, k) = c => StateFits(g, k, s[c])
LEMMA UnpredictedIsUsable ==
    ASSUME NEW g, NEW n
    PROVE  Usable(g, Unpredicted(g), n)
BY DEF Usable, Unpredicted, NoState

LEMMA StartIsUsable ==
    ASSUME NEW g, NEW n, NEW s, Usable(g, s, n)
    PROVE  Usable(g, StartState(g, n, s), n)
BY UnpredictedIsUsable DEF StartState

(* What a precinct x written from the states s leaves to its reader: it    *)
(* fits, takes the reader to the states the writer has after it, and gives *)
(* back what was coded, within a step of its quantiser.                    *)
Sent(g, k, cs, x, s, after) ==
    LET start == StartState(g, k, s)
        read == DecodePrecinct(g, k, x, start[PrecinctColumn(g, k)])
    IN  /\ x.q \in 0 .. 31 /\ read.fits /\ after = [start EXCEPT ![PrecinctColumn(g, k)] = read.state]
        /\ Close(g, k, cs, x, read.out)

LEMMA CodedPair ==
    ASSUME NEW g, NEW i, NEW q, NEW r, NEW d, NEW pc, NEW state
    PROVE  /\ EncodePrecinct(g, i, q, r, d, pc, state).q = q /\ EncodePrecinct(g, i, q, r, d, pc, state).r = r
           /\ EncodePrecinct(g, i, q, r, d, pc, state).state.valid = TRUE
BY Zenon DEF EncodePrecinct, EncodeQuantised, Precinct, UpdateState

LEMMA CodedIsSent ==
    ASSUME NEW g, NEW k \in 0 .. NumPrecincts(g) - 1, NEW cs, NEW s, NEW q \in 0 .. 31, NEW r, NEW d \in CodingBits,
           NEW lprc, NEW e, Prepared(g), Narrow(g, cs), Usable(g, s, k),
           d.vertical => StartState(g, k, s)[PrecinctColumn(g, k)].valid,
           e = EncodePrecinct(g, k, q, r, d, ExtractPrecinct(g, k, cs), StartState(g, k, s)[PrecinctColumn(g, k)]),
           e.fits, e.bytes <= lprc
    PROVE  LET after == [StartState(g, k, s) EXCEPT ![PrecinctColumn(g, k)] = e.state]
           IN  Sent(g, k, cs, InStream(e, lprc), s, after) /\ Usable(g, after, k + 1)
<1> DEFINE col == PrecinctColumn(g, k)
           start == StartState(g, k, s)
           after == [start EXCEPT ![col] = e.state]
           pc == ExtractPrecinct(g, k, cs)
           read == DecodePrecinct(g, k, InStream(e, lprc), start[col])
<1>1. Codable(g) /\ TablesFit(g, k) /\ LayoutSound(g, k)
  BY TablesShaped DEF Prepared
<1>2. CoefficientsFit(g, k, pc)
  BY ExtractedFits
<1>3. col \in Columns(g)
  <2>1. k \in 0 .. NumPrecincts(g) - 1 /\ Prepared(g)
    OBVIOUS
  <2>2. PICK b : b \in Bands(g)
    <3>1. NumBands(g) \in Nat \ {0}
      BY Numbers DEF Prepared
    <3> QED BY <3>1 DEF Bands
  <2> QED BY <2>1, <2>2, LinesAre DEF Columns
<1>4. Usable(g, start, k)
  BY StartIsUsable
<1>5. start[col].valid \in BOOLEAN /\ (d.vertical => StateFits(g, k, start[col]))
  <2>1. PICK N \in Nat : N = NumPrecincts(g)
    BY Numbers DEF Prepared
  <2>2. k \in k .. NumPrecincts(g) - 1
    BY <2>1
  <2> HIDE DEF start
  <2> QED BY <1>3, <1>4, <2>2 DEF start, Usable
<1>6. Follows(g, k, pc, e, read)
  <2> HIDE DEF start, col, pc
  <2>1. EncodePrecinct(g, k, q, r, d, pc, start[col]).fits /\ EncodePrecinct(g, k, q, r, d, pc, start[col]).bytes <= lprc
    BY DEF start, col, pc
  <2>2. Follows(g, k, pc, EncodePrecinct(g, k, q, r, d, pc, start[col]),
                DecodePrecinct(g, k, InStream(EncodePrecinct(g, k, q, r, d, pc, start[col]), lprc), start[col]))
    BY <1>1, <1>2, <1>5, <2>1, PrecinctFollows
  <2> QED BY <2>2 DEF start, col, pc
<1>7. e.q = q /\ e.r = r /\ e.state.valid = TRUE
  <2> HIDE DEF start, col, pc
  <2>1. e = EncodePrecinct(g, k, q, r, d, pc, start[col])
    BY DEF start, col, pc
  <2>2. PICK was : was = start[col]
    OBVIOUS
  <2>3. /\ EncodePrecinct(g, k, q, r, d, pc, was).q = q /\ EncodePrecinct(g, k, q, r, d, pc, was).r = r
        /\ EncodePrecinct(g, k, q, r, d, pc, was).state.valid = TRUE
    BY CodedPair, Zenon
  <2> QED BY <2>1, <2>2, <2>3, Zenon
<1> HIDE DEF read
<1>8. Close(g, k, cs, InStream(e, lprc), read.out)
  <2>1. InStream(e, lprc).q = e.q /\ InStream(e, lprc).r = e.r
    BY DEF InStream
  <2>2. SUFFICES ASSUME NEW b \in Bands(g)
                 PROVE  /\ DOMAIN read.out[b] = 0 .. Lines(g, k, b) - 1
                        /\ \A li \in 0 .. Lines(g, k, b) - 1 : \A xi \in 0 .. g.widths[k][b] - 1 :
                             InPicture(g, k, b, li, xi) =>
                                NearTo(cs[b][BandY(g, k, b, li)][BandX(g, k, b, xi)], read.out[b][li][xi],
                                       ComputeTruncation(g, b, e.q, e.r))
    BY <2>1, Zenon DEF Close
  <2>3. DOMAIN read.out[b] = 0 .. Lines(g, k, b) - 1
    BY <1>6 DEF Follows
  <2>4. ASSUME NEW li \in 0 .. Lines(g, k, b) - 1, NEW xi \in 0 .. g.widths[k][b] - 1, InPicture(g, k, b, li, xi)
        PROVE  NearTo(cs[b][BandY(g, k, b, li)][BandX(g, k, b, xi)], read.out[b][li][xi], ComputeTruncation(g, b, e.q, e.r))
    <3>1. DOMAIN pc[b][li] = 0 .. g.widths[k][b] - 1 /\ pc[b][li][xi] = cs[b][BandY(g, k, b, li)][BandX(g, k, b, xi)]
      BY <2>4, ExtractedSample
    <3> HIDE DEF pc
    <3>2. xi \in DOMAIN pc[b][li] \cap (0 .. g.widths[k][b] - 1)
      BY <3>1
    <3>3. NearTo(pc[b][li][xi], read.out[b][li][xi], ComputeTruncation(g, b, e.q, e.r))
      BY <1>6, <3>2 DEF Follows
    <3> QED BY <3>1, <3>3
  <2> QED BY <2>3, <2>4
<1>9. read.fits /\ read.state = e.state /\ StateFits(g, k, e.state)
  BY <1>6 DEF Follows
<1>10. Sent(g, k, cs, InStream(e, lprc), s, after)
  <2>1. after = [start EXCEPT ![col] = read.state]
    BY <1>9
  <2>2. InStream(e, lprc).q \in 0 .. 31
    BY <1>7 DEF InStream
  <2> HIDE DEF after
  <2> QED BY <1>8, <1>9, <2>1, <2>2 DEF Sent, read, start, col
<1>11. Usable(g, after, k + 1)
  <2> HIDE DEF start, col
  <2>1. start = [c \in Columns(g) |-> start[c]]
        /\ \A c \in Columns(g) :
              /\ start[c].valid \in BOOLEAN
              /\ start[c].valid => \A j \in k .. NumPrecincts(g) - 1 : PrecinctColumn(g, j) = c => StateFits(g, j, start[c])
    BY <1>4, Zenon DEF Usable
  <2>2. DOMAIN after = Columns(g) /\ \A c \in Columns(g) : after[c] = IF c = col THEN e.state ELSE start[c]
    BY <2>1
  <2>3. after = [c \in Columns(g) |-> after[c]]
    BY <2>1
  <2>4. PICK N \in Nat : N = NumPrecincts(g)
    BY Numbers DEF Prepared
  <2>5. k \in 0 .. N - 1
    BY <2>4
  <2>6. ASSUME NEW c \in Columns(g)
        PROVE  /\ after[c].valid \in BOOLEAN
               /\ after[c].valid => \A j \in k + 1 .. NumPrecincts(g) - 1 : PrecinctColumn(g, j) = c => StateFits(g, j, after[c])
    <3> HIDE DEF after
    <3>1. CASE c = col
      <4>1. ASSUME NEW j \in k + 1 .. NumPrecincts(g) - 1, PrecinctColumn(g, j) = c PROVE StateFits(g, j, e.state)
        <5>1. j \in 0 .. NumPrecincts(g) - 1 /\ k <= j
          BY <2>4, <2>5
        <5>2. PrecinctColumn(g, k) = PrecinctColumn(g, j)
          BY <3>1, <4>1 DEF col
        <5> QED BY <1>9, <5>1, <5>2, StateServesBelow
      <4> QED BY <1>7, <2>2, <3>1, <4>1
    <3>2. CASE c # col
      <4>1. after[c] = start[c]
        BY <2>2, <3>2
      <4>2. \A j \in k + 1 .. NumPrecincts(g) - 1 : j \in k .. NumPrecincts(g) - 1
        BY <2>4, <2>5
      <4> QED BY <2>1, <4>1, <4>2
    <3> QED BY <3>1, <3>2
  <2> HIDE DEF after
  <2> QED BY <2>3, <2>6 DEF Usable
<1> QED BY <1>10, <1>11

(* The slices the encoder has written: m of them, with the precincts       *)
(* w[0], ..., w[n - 1], per of them in all slices but the last.            *)
SlotsIn(per, n, t) == IF t * per <= n THEN per ELSE n - (t - 1) * per
TraceSlice(per, n, w, t) ==
    [marker |-> "SLH", ysl |-> t - 1, precincts |-> [j \in 1 .. SlotsIn(per, n, t) |-> w[(t - 1) * per + (j - 1)]]]
Laid(slices, per, m, n, w) ==
    /\ m \in Nat /\ n \in Nat /\ (m - 1) * per <= n /\ n <= m * per
    /\ slices = [t \in 1 .. m |-> TraceSlice(per, n, w, t)]
OneMorePrecinct(w, n, x) == [k \in 0 .. n |-> IF k < n THEN w[k] ELSE x]

LEMMA Multiples ==
    ASSUME NEW per \in Nat \ {0}, NEW m \in Nat, NEW t \in 1 .. m
    PROVE  /\ (t - 1) * per \in Nat /\ t * per = (t - 1) * per + per /\ t * per <= m * per
           /\ (t < m => t * per <= (m - 1) * per)
<1>1. PICK d \in Nat : m = t + d
  <2>1. m - t \in Nat /\ m = t + (m - t)
    OBVIOUS
  <2> QED BY <2>1
<1>2. t \in Nat /\ t - 1 \in Nat
  OBVIOUS
<1>3. t * per = (t - 1) * per + per /\ (t - 1) * per \in Nat /\ t * per \in Nat
  BY <1>2
<1>4. m * per = t * per + d * per /\ d * per \in Nat
  BY <1>1, <1>2
<1>5. t < m => t * per <= (m - 1) * per
  <2>1. SUFFICES ASSUME t < m PROVE t * per <= (m - 1) * per
    OBVIOUS
  <2>2. PICK e \in Nat : m - 1 = t + e
    <3>1. m - 1 - t \in Nat /\ m - 1 = t + (m - 1 - t)
      BY <2>1
    <3> QED BY <3>1
  <2>3. (m - 1) * per = t * per + e * per /\ e * per \in Nat
    BY <2>2, <1>2
  <2> QED BY <1>3, <2>3
<1> QED BY <1>3, <1>4, <1>5

LEMMA SlotsAre ==
    ASSUME NEW per \in Nat \ {0}, NEW m \in Nat, NEW n \in Nat, (m - 1) * per <= n, n <= m * per, NEW t \in 1 .. m
    PROVE  /\ t < m => SlotsIn(per, n, t) = per
           /\ t = m => SlotsIn(per, n, t) = n - (m - 1) * per
           /\ SlotsIn(per, n, t) \in 0 .. per
           /\ \A j \in 1 .. SlotsIn(per, n, t) : (t - 1) * per + (j - 1) \in 0 .. n - 1
<1>1. /\ (t - 1) * per \in Nat /\ t * per = (t - 1) * per + per /\ t * per <= m * per
      /\ (t < m => t * per <= (m - 1) * per)
  BY Multiples
<1>2. PICK a \in Nat : a = (t - 1) * per
  BY <1>1
<1>3. PICK b \in Nat : b = m * per
  OBVIOUS
<1>4. PICK c \in Int : c = (m - 1) * per
  OBVIOUS
<1>5. b = c + per
  <2>1. m * per = (m - 1) * per + per
    OBVIOUS
  <2> QED BY <1>3, <1>4, <2>1
<1>6. SlotsIn(per, n, t) = IF a + per <= n THEN per ELSE n - a
  BY <1>1, <1>2, Zenon DEF SlotsIn
<1>7. c <= n /\ n <= b /\ (t < m => a + per <= c) /\ (t = m => a = c)
  BY <1>1, <1>2, <1>3, <1>4
<1>8. t < m \/ t = m
  OBVIOUS
<1>9. t < m => SlotsIn(per, n, t) = per /\ a + per <= n
  BY <1>4, <1>6, <1>7
<1>10. t = m => SlotsIn(per, n, t) = n - c
  BY <1>4, <1>5, <1>6, <1>7
<1>11. SlotsIn(per, n, t) \in 0 .. per /\ \A j \in 1 .. SlotsIn(per, n, t) : a + (j - 1) \in 0 .. n - 1
  <2>1. CASE t < m
    BY <1>9, <2>1
  <2>2. CASE t = m
    <3>1. SlotsIn(per, n, t) = n - c /\ a = c
      BY <1>7, <1>10, <2>2
    <3> QED BY <1>4, <1>5, <1>7, <3>1
  <2> QED BY <1>8, <2>1, <2>2
<1> QED BY <1>2, <1>4, <1>9, <1>10, <1>11

LEMMA LaidNone ==
    ASSUME NEW per \in Nat \ {0}, NEW w
    PROVE  Laid(<<>>, per, 0, 0, w)
<1>1. (0 - 1) * per <= 0 /\ 0 <= 0 * per
  OBVIOUS
<1>2. <<>> = [t \in 1 .. 0 |-> TraceSlice(per, 0, w, t)]
  OBVIOUS
<1> QED BY <1>1, <1>2 DEF Laid

LEMMA LaidSlice ==
    ASSUME NEW slices, NEW per \in Nat \ {0}, NEW m, NEW n, NEW w, Laid(slices, per, m, n, w), m * per <= n
    PROVE  Laid(Append(slices, [marker |-> "SLH", ysl |-> Len(slices), precincts |-> <<>>]), per, m + 1, n, w)
<1> DEFINE new == [marker |-> "SLH", ysl |-> Len(slices), precincts |-> <<>>]
<1>1. m \in Nat /\ n \in Nat /\ m * per = n /\ slices = [t \in 1 .. m |-> TraceSlice(per, n, w, t)]
  BY DEF Laid
<1>2. (m + 1) - 1 = m /\ m + 1 \in Nat /\ (m + 1) * per = m * per + per
  BY <1>1
<1>3. Len(slices) = m /\ Append(slices, new) = [t \in 1 .. m + 1 |-> IF t <= m THEN TraceSlice(per, n, w, t) ELSE new]
  <2> DEFINE s == [t \in 1 .. m |-> TraceSlice(per, n, w, t)]
  <2>1. [t \in 1 .. m |-> s[t]] = s
    OBVIOUS
  <2>2. \A t \in 1 .. m : s[t] = TraceSlice(per, n, w, t)
    OBVIOUS
  <2> HIDE DEF new, s
  <2>3. Len(s) = m /\ Append(s, new) = [t \in 1 .. m + 1 |-> IF t <= m THEN s[t] ELSE new]
    <3>1. /\ Len([t \in 1 .. m |-> s[t]]) = m
          /\ Append([t \in 1 .. m |-> s[t]], new) = [t \in 1 .. m + 1 |-> IF t <= m THEN s[t] ELSE new]
      BY <1>1, SequenceOf
    <3> QED BY <2>1, <3>1, Zenon
  <2>4. [t \in 1 .. m + 1 |-> IF t <= m THEN s[t] ELSE new]
        = [t \in 1 .. m + 1 |-> IF t <= m THEN TraceSlice(per, n, w, t) ELSE new]
    BY <1>1, <2>2
  <2> QED BY <1>1, <2>3, <2>4 DEF s
<1>4. new = TraceSlice(per, n, w, m + 1)
  <2>1. ~((m + 1) * per <= n) /\ n - m * per = 0
    BY <1>1, <1>2
  <2>2. SlotsIn(per, n, m + 1) = 0
    BY <1>2, <2>1, Zenon DEF SlotsIn
  <2>3. [j \in 1 .. SlotsIn(per, n, m + 1) |-> w[((m + 1) - 1) * per + (j - 1)]] = <<>>
    BY <2>2
  <2> QED BY <1>2, <1>3, <2>3, Zenon DEF TraceSlice
<1>5. Append(slices, new) = [t \in 1 .. m + 1 |-> TraceSlice(per, n, w, t)]
  <2> HIDE DEF new
  <2>1. \A t \in 1 .. m + 1 : ~(t <= m) => t = m + 1
    BY <1>1
  <2> QED BY <1>3, <1>4, <2>1
<1>6. n <= (m + 1) * per /\ ((m + 1) - 1) * per <= n
  BY <1>1, <1>2
<1> QED BY <1>1, <1>2, <1>5, <1>6 DEF Laid

LEMMA LaidPrecinct ==
    ASSUME NEW slices, NEW per \in Nat \ {0}, NEW m, NEW n, NEW w, NEW x,
           Laid(slices, per, m, n, w), n < m * per
    PROVE  Laid([slices EXCEPT ![Len(slices)].precincts = Append(@, x)], per, m, n + 1, OneMorePrecinct(w, n, x))
<1> DEFINE more == OneMorePrecinct(w, n, x)
           c == (m - 1) * per
<1>1. m \in Nat /\ n \in Nat /\ c <= n /\ n <= m * per /\ slices = [t \in 1 .. m |-> TraceSlice(per, n, w, t)]
  BY DEF Laid
<1>2. m \in Nat \ {0} /\ m \in 1 .. m /\ c \in Int /\ m * per = c + per
  <2>1. m # 0
    BY <1>1
  <2>2. m * per = (m - 1) * per + per
    BY <1>1
  <2> QED BY <1>1, <2>1, <2>2
<1>3. Len(slices) = m
  <2> DEFINE s == [t \in 1 .. m |-> TraceSlice(per, n, w, t)]
  <2>1. [t \in 1 .. m |-> s[t]] = s
    OBVIOUS
  <2> HIDE DEF s
  <2>2. Len(s) = m
    BY <1>1, <2>1, SequenceOf
  <2> QED BY <1>1, <2>2 DEF s
<1>4. \A k \in 0 .. n - 1 : more[k] = w[k]
  BY <1>1 DEF OneMorePrecinct
<1>5. more[n] = x
  BY <1>1 DEF OneMorePrecinct
<1> HIDE DEF more, c
<1>6. ASSUME NEW t \in 1 .. m, t < m
      PROVE  TraceSlice(per, n + 1, more, t) = TraceSlice(per, n, w, t)
  <2>1. SlotsIn(per, n, t) = per /\ \A j \in 1 .. SlotsIn(per, n, t) : (t - 1) * per + (j - 1) \in 0 .. n - 1
    BY <1>1, <1>6, SlotsAre DEF c
  <2>2. SlotsIn(per, n + 1, t) = per
    <3>1. c <= n + 1 /\ n + 1 <= m * per /\ n + 1 \in Nat
      BY <1>1, <1>2
    <3> QED BY <1>1, <1>6, <3>1, SlotsAre DEF c
  <2>3. \A j \in 1 .. per : more[(t - 1) * per + (j - 1)] = w[(t - 1) * per + (j - 1)]
    BY <1>4, <2>1
  <2> QED BY <2>1, <2>2, <2>3 DEF TraceSlice
<1>7. [TraceSlice(per, n, w, m) EXCEPT !.precincts = Append(@, x)] = TraceSlice(per, n + 1, more, m)
  <2>1. PICK k \in Nat : k = n - c
    BY <1>1, <1>2
  <2>2. SlotsIn(per, n, m) = k /\ \A j \in 1 .. k : c + (j - 1) \in 0 .. n - 1
    BY <1>1, <1>2, <2>1, SlotsAre DEF c
  <2>3. SlotsIn(per, n + 1, m) = k + 1
    <3>1. c <= n + 1 /\ n + 1 <= m * per /\ n + 1 \in Nat /\ (n + 1) - c = k + 1
      BY <1>1, <1>2, <2>1
    <3> QED BY <1>1, <1>2, <3>1, SlotsAre DEF c
  <2> DEFINE old == [j \in 1 .. k |-> w[c + (j - 1)]]
             new == [j \in 1 .. k + 1 |-> more[c + (j - 1)]]
  <2>4. Append(old, x) = new
    <3>1. Append(old, x) = [j \in 1 .. k + 1 |-> IF j <= k THEN old[j] ELSE x]
      <4>1. old = [j \in 1 .. k |-> old[j]]
        OBVIOUS
      <4> HIDE DEF old
      <4> QED BY <4>1, SequenceOf
    <3>2. ASSUME NEW j \in 1 .. k + 1 PROVE (IF j <= k THEN old[j] ELSE x) = more[c + (j - 1)]
      <4>1. CASE j <= k
        <5>1. j \in 1 .. k
          BY <4>1
        <5>2. old[j] = w[c + (j - 1)] /\ c + (j - 1) \in 0 .. n - 1
          BY <2>2, <5>1
        <5> HIDE DEF old
        <5> QED BY <1>4, <4>1, <5>2
      <4>2. CASE ~(j <= k)
        <5>1. c + (j - 1) = n
          BY <1>1, <1>2, <2>1, <4>2
        <5> QED BY <1>5, <4>2, <5>1
      <4> QED BY <4>1, <4>2
    <3> HIDE DEF old
    <3> QED BY <3>1, <3>2
  <2>5. TraceSlice(per, n, w, m) = [marker |-> "SLH", ysl |-> m - 1, precincts |-> old]
    BY <2>2, Zenon DEF TraceSlice, c
  <2>6. TraceSlice(per, n + 1, more, m) = [marker |-> "SLH", ysl |-> m - 1, precincts |-> new]
    BY <2>3, Zenon DEF TraceSlice, c
  <2> HIDE DEF old, new
  <2> QED BY <2>4, <2>5, <2>6
<1>8. [slices EXCEPT ![Len(slices)].precincts = Append(@, x)]
      = [slices EXCEPT ![m] = [TraceSlice(per, n, w, m) EXCEPT !.precincts = Append(@, x)]]
  <2>1. slices[m] = TraceSlice(per, n, w, m)
    BY <1>1, <1>2
  <2> QED BY <1>3, <2>1
<1>9. [slices EXCEPT ![Len(slices)].precincts = Append(@, x)] = [t \in 1 .. m |-> TraceSlice(per, n + 1, more, t)]
  <2>1. DOMAIN slices = 1 .. m /\ \A t \in 1 .. m : slices[t] = TraceSlice(per, n, w, t)
    BY <1>1
  <2>2. \A t \in 1 .. m : t = m \/ t < m
    BY <1>1
  <2>3. [slices EXCEPT ![m] = TraceSlice(per, n + 1, more, m)]
        = [t \in 1 .. m |-> IF t = m THEN TraceSlice(per, n + 1, more, m) ELSE slices[t]]
    BY <2>1
  <2>4. \A t \in 1 .. m : (IF t = m THEN TraceSlice(per, n + 1, more, m) ELSE slices[t]) = TraceSlice(per, n + 1, more, t)
    BY <1>6, <2>1, <2>2
  <2> QED BY <1>7, <1>8, <2>3, <2>4
<1>10. n + 1 \in Nat /\ (m - 1) * per <= n + 1 /\ n + 1 <= m * per
  BY <1>1, <1>2 DEF c
<1> QED BY <1>1, <1>9, <1>10 DEF Laid, more

(* The slice and the place in it of precinct i.                            *)
LEMMA PlaceOf ==
    ASSUME NEW slices, NEW per \in Nat \ {0}, NEW m, NEW n, NEW w, Laid(slices, per, m, n, w), NEW i \in 0 .. n - 1
    PROVE  LET t == i \div per + 1
               j == i - (i \div per) * per + 1
           IN  /\ t \in 1 .. m /\ j \in 1 .. SlotsIn(per, n, t)
               /\ DOMAIN slices = 1 .. m /\ DOMAIN slices[t].precincts = 1 .. SlotsIn(per, n, t)
               /\ slices[t].precincts[j] = w[i]
<1>1. m \in Nat /\ n \in Nat /\ (m - 1) * per <= n /\ n <= m * per
      /\ slices = [t \in 1 .. m |-> TraceSlice(per, n, w, t)]
  BY DEF Laid
<1>2. i \in Nat /\ i < n
  BY <1>1
<1>3. PICK q \in Nat : q = i \div per /\ i - q * per \in 0 .. per - 1 /\ q * per \in Nat
  <2>1. PICK a \in Nat : a = i \div per
    BY <1>2, Parts
  <2>2. PICK b \in 0 .. per - 1 : b = i % per
    BY <1>2, Parts
  <2>3. i = a * per + b
    BY <1>2, <2>1, <2>2, Parts
  <2>4. a * per \in Nat
    BY <2>1
  <2>5. i - a * per \in 0 .. per - 1
    BY <2>2, <2>3, <2>4
  <2> QED BY <2>1, <2>4, <2>5
<1>4. PICK j \in 1 .. per : j = i - q * per + 1
  <2>1. PICK d \in 0 .. per - 1 : d = i - q * per
    BY <1>3
  <2>2. d + 1 \in 1 .. per
    BY <2>1
  <2> QED BY <2>1, <2>2
<1>5. q + 1 \in 1 .. m
  <2>1. q * per <= i /\ i < m * per
    BY <1>1, <1>2, <1>3
  <2>2. q < m
    BY <1>1, <1>2, <1>3, <2>1, NotAbove
  <2> QED BY <1>1, <1>3, <2>2
<1>6. j \in 1 .. SlotsIn(per, n, q + 1)
  <2>1. SlotsIn(per, n, q + 1) = IF (q + 1) * per <= n THEN per ELSE n - ((q + 1) - 1) * per
    BY Zenon DEF SlotsIn
  <2>2. (q + 1) - 1 = q
    BY <1>3
  <2>3. PICK c \in Nat : c = q * per
    BY <1>3
  <2>4. SlotsIn(per, n, q + 1) = per \/ SlotsIn(per, n, q + 1) = n - c
    BY <2>1, <2>2, <2>3
  <2> QED BY <1>1, <1>2, <1>4, <2>3, <2>4
<1>7. slices[q + 1] = TraceSlice(per, n, w, q + 1) /\ DOMAIN slices = 1 .. m
  BY <1>1, <1>5
<1>8. slices[q + 1].precincts = [v \in 1 .. SlotsIn(per, n, q + 1) |-> w[((q + 1) - 1) * per + (v - 1)]]
  BY <1>7 DEF TraceSlice
<1>9. slices[q + 1].precincts[j] = w[i] /\ DOMAIN slices[q + 1].precincts = 1 .. SlotsIn(per, n, q + 1)
  <2>1. ((q + 1) - 1) * per + (j - 1) = i
    <3>1. PICK c \in Nat : c = q * per
      BY <1>3
    <3>2. (q + 1) - 1 = q
      BY <1>3
    <3>3. c + (j - 1) = i
      BY <1>2, <1>4, <3>1
    <3> QED BY <3>1, <3>2, <3>3
  <2> QED BY <1>6, <1>8, <2>1
<1> QED BY <1>3, <1>4, <1>5, <1>6, <1>7, <1>9

(* The precincts of all slices, in their order.                            *)
LEMMA LaidPlaces ==
    ASSUME NEW slices, NEW per \in Nat \ {0}, NEW m, NEW n, NEW w, Laid(slices, per, m, n, w), m # 0
    PROVE  /\ DOMAIN FlattenSeq([t \in DOMAIN slices |-> slices[t].precincts]) = 1 .. n
           /\ \A k \in 1 .. n : FlattenSeq([t \in DOMAIN slices |-> slices[t].precincts])[k] = w[k - 1]
<1> DEFINE seqs == [t \in DOMAIN slices |-> slices[t].precincts]
           S == {w[k] : k \in 0 .. n - 1}
           sum == [k \in 0 .. m |-> IF k = m THEN n ELSE k * per]
           lens == Lengths(seqs)
           flat == FlattenSeq(seqs)
<1>1. m \in Nat \ {0} /\ n \in Nat /\ (m - 1) * per <= n /\ n <= m * per
      /\ slices = [t \in 1 .. m |-> TraceSlice(per, n, w, t)]
  BY DEF Laid
<1>2. seqs = [t \in 1 .. m |-> [j \in 1 .. SlotsIn(per, n, t) |-> w[(t - 1) * per + (j - 1)]]]
  <2>1. DOMAIN slices = 1 .. m
    BY <1>1
  <2>2. \A t \in 1 .. m : slices[t].precincts = [j \in 1 .. SlotsIn(per, n, t) |-> w[(t - 1) * per + (j - 1)]]
    BY <1>1 DEF TraceSlice
  <2> QED BY <2>1, <2>2
<1>3. ASSUME NEW t \in 1 .. m
      PROVE  /\ seqs[t] = [j \in 1 .. SlotsIn(per, n, t) |-> w[(t - 1) * per + (j - 1)]]
             /\ seqs[t] \in Seq(S) /\ Len(seqs[t]) = SlotsIn(per, n, t) /\ SlotsIn(per, n, t) \in Nat
  <2>1. SlotsIn(per, n, t) \in 0 .. per /\ \A j \in 1 .. SlotsIn(per, n, t) : (t - 1) * per + (j - 1) \in 0 .. n - 1
    BY <1>1, SlotsAre
  <2>2. PICK z \in Nat : z = SlotsIn(per, n, t)
    BY <2>1
  <2> DEFINE one == [j \in 1 .. z |-> w[(t - 1) * per + (j - 1)]]
  <2>3. seqs[t] = one
    BY <1>2, <2>2
  <2>4. \A j \in 1 .. z : w[(t - 1) * per + (j - 1)] \in S
    BY <2>1, <2>2
  <2> HIDE DEF S, seqs
  <2>5. one \in Seq(S) /\ Len(one) = z
    <3>1. one \in Seq(S)
      BY <2>4
    <3>2. DOMAIN one = 1 .. z
      OBVIOUS
    <3> HIDE DEF one
    <3> QED BY <3>1, <3>2
  <2> QED BY <2>2, <2>3, <2>5
<1>4. Len(seqs) = m
  <2>1. [t \in 1 .. m |-> seqs[t]] = seqs
    BY <1>2
  <2> HIDE DEF seqs
  <2>2. Len([t \in 1 .. m |-> seqs[t]]) = m
    BY <1>1, SequenceOf
  <2> QED BY <2>1, <2>2, Zenon
<1> HIDE DEF S, seqs
<1>5. /\ flat \in Seq(S) /\ Ints(lens) /\ Len(lens) = m /\ Len(flat) = Total(lens)
      /\ \A s : IsSum(s, m, lens) => \A k \in 1 .. m : \A j \in 1 .. Len(seqs[k]) : flat[s[k - 1] + j] = seqs[k][j]
  BY <1>1, <1>3, <1>4, FlattenPlaces
<1>6. \A k \in 1 .. m : lens[k] = SlotsIn(per, n, k)
  BY <1>3, <1>4 DEF Lengths
<1>7. IsSum(sum, m, lens)
  <2>1. \A k \in 0 .. m : k * per \in Int
    OBVIOUS
  <2>2. sum \in [0 .. m -> Int]
    BY <1>1, <2>1
  <2>3. sum[0] = 0
    BY <1>1
  <2>4. ASSUME NEW k \in 1 .. m PROVE sum[k] = sum[k - 1] + lens[k]
    <3>1. k - 1 \in 0 .. m /\ k - 1 # m /\ k \in 0 .. m
      BY <1>1
    <3>2. sum[k - 1] = (k - 1) * per
      BY <3>1
    <3>3. CASE k < m
      <4>1. lens[k] = per /\ sum[k] = k * per
        <5>1. SlotsIn(per, n, k) = per
          BY <1>1, <3>3, SlotsAre
        <5>2. sum[k] = k * per
          BY <3>1, <3>3
        <5> HIDE DEF sum, lens
        <5> QED BY <1>6, <5>1, <5>2
      <4>2. k * per = (k - 1) * per + per
        BY <1>1, Multiples
      <4> QED BY <3>2, <4>1, <4>2
    <3>4. CASE k = m
      <4>1. lens[k] = n - (m - 1) * per
        BY <1>1, <1>6, <3>4, SlotsAre
      <4>2. sum[k] = n
        BY <3>1, <3>4
      <4>3. PICK c \in Int : c = (m - 1) * per
        BY <1>1
      <4>4. sum[k - 1] = c
        BY <3>2, <3>4, <4>3
      <4> HIDE DEF sum
      <4> QED BY <1>1, <4>1, <4>2, <4>3, <4>4
    <3> QED BY <1>1, <3>3, <3>4
  <2> HIDE DEF sum
  <2> QED BY <2>2, <2>3, <2>4 DEF IsSum
<1>8. Total(lens) = n
  <2>1. sum[m] = n
    BY <1>1
  <2> HIDE DEF sum, lens
  <2>2. sum[Len(lens)] = Total(lens)
    <3>1. Len(lens) <= Len(lens) /\ \A k \in 1 .. Len(lens) : lens[k] = lens[k]
      BY <1>1, <1>5
    <3> QED BY <1>5, <1>7, <3>1, TotalPrefix
  <2> QED BY <1>5, <2>1, <2>2
<1>9. DOMAIN flat = 1 .. n
  <2> HIDE DEF flat
  <2> QED BY <1>5, <1>8
<1>10. ASSUME NEW k \in 1 .. n PROVE flat[k] = w[k - 1]
  <2>1. PICK i \in 0 .. n - 1 : i = k - 1
    BY <1>1
  <2>2. PICK q \in Nat : q = i \div per
    <3>1. i \in Nat
      BY <1>1, <2>1
    <3> QED BY <3>1, Parts
  <2>3. PICK j : j = i - q * per + 1
    OBVIOUS
  <2>4. q + 1 \in 1 .. m /\ j \in 1 .. SlotsIn(per, n, q + 1) /\ slices[q + 1].precincts[j] = w[i]
        /\ DOMAIN slices = 1 .. m
    BY <2>2, <2>3, PlaceOf
  <2>5. flat[sum[(q + 1) - 1] + j] = seqs[q + 1][j]
    <3> HIDE DEF sum, lens, flat
    <3>1. j \in 1 .. Len(seqs[q + 1])
      BY <1>3, <2>4
    <3> QED BY <1>5, <1>7, <2>4, <3>1
  <2>6. sum[(q + 1) - 1] + j = k
    <3>1. (q + 1) - 1 = q /\ q \in 0 .. m /\ q # m
      BY <1>1, <2>2, <2>4
    <3>2. sum[q] = q * per
      BY <3>1
    <3>3. PICK c \in Nat : c = q * per
      BY <2>2
    <3>4. i \in Nat /\ k = i + 1
      BY <1>1, <2>1
    <3> HIDE DEF sum
    <3>5. c + (i - c + 1) = i + 1
      BY <3>3, <3>4
    <3> QED BY <2>3, <3>1, <3>2, <3>3, <3>4, <3>5
  <2>7. seqs[q + 1][j] = w[i]
    BY <2>4 DEF seqs
  <2> HIDE DEF flat, sum
  <2> QED BY <2>1, <2>5, <2>6, <2>7
<1> QED BY <1>9, <1>10 DEF flat, seqs

(* The pieces the decoder may meet: what is no slice, and slices of the    *)
(* encoder's, whole or cut off behind one of their precincts.              *)
OtherPiece(x) == "marker" \in DOMAIN x /\ x.marker # "SLH"
CutSlice(slices, y, z) == [marker |-> "SLH", ysl |-> y, precincts |-> [j \in 1 .. z |-> slices[y + 1].precincts[j]]]
PieceOk(slices, x) ==
    \/ OtherPiece(x)
    \/ \E y, z \in Nat : /\ y + 1 \in DOMAIN slices /\ 1 .. z \subseteq DOMAIN slices[y + 1].precincts
                         /\ x = CutSlice(slices, y, z)
PiecesOk(slices, s) == \E T : s \in Seq(T) /\ \A x \in T : PieceOk(slices, x)

LEMMA PieceRead ==
    ASSUME NEW slices, NEW s, NEW i \in DOMAIN s, PiecesOk(slices, s), s[i].marker = "SLH"
    PROVE  /\ s[i].ysl + 1 \in DOMAIN slices
           /\ \A j \in DOMAIN s[i].precincts : s[i].precincts[j] = slices[s[i].ysl + 1].precincts[j]
<1>1. PieceOk(slices, s[i])
  BY ElementOfSeq DEF PiecesOk
<1>2. PICK y, z \in Nat : y + 1 \in DOMAIN slices /\ s[i] = CutSlice(slices, y, z)
  BY <1>1 DEF PieceOk, OtherPiece
<1>3. s[i].ysl = y /\ s[i].precincts = [j \in 1 .. z |-> slices[y + 1].precincts[j]]
  BY <1>2 DEF CutSlice
<1> QED BY <1>2, <1>3

LEMMA PiecesSub ==
    ASSUME NEW slices, NEW s, PiecesOk(slices, s), NEW a \in Nat \ {0}, NEW b \in Int, b <= Len(s)
    PROVE  PiecesOk(slices, SubSeq(s, a, b))
<1>1. PICK T : s \in Seq(T) /\ \A x \in T : PieceOk(slices, x)
  BY DEF PiecesOk
<1>2. \A i \in a .. b : s[i] \in T
  BY <1>1, ElementOfSeq
<1>3. SubSeq(s, a, b) \in Seq(T)
  BY <1>2, SubSeqProperties
<1> QED BY <1>1, <1>3 DEF PiecesOk

LEMMA PiecesConcat ==
    ASSUME NEW slices, NEW s, NEW r, PiecesOk(slices, s), PiecesOk(slices, r)
    PROVE  PiecesOk(slices, s \o r)
<1>1. PICK T : s \in Seq(T) /\ \A x \in T : PieceOk(slices, x)
  BY DEF PiecesOk
<1>2. PICK U : r \in Seq(U) /\ \A x \in U : PieceOk(slices, x)
  BY DEF PiecesOk
<1> DEFINE V == T \cup U
<1>3. s \in Seq(V) /\ r \in Seq(V) /\ \A x \in V : PieceOk(slices, x)
  BY <1>1, <1>2
<1> HIDE DEF V
<1>4. s \o r \in Seq(V)
  BY <1>3, ConcatProperties
<1> QED BY <1>3, <1>4 DEF PiecesOk

LEMMA PiecesOne ==
    ASSUME NEW slices, NEW x, PieceOk(slices, x)
    PROVE  PiecesOk(slices, <<x>>)
<1>1. PICK T : T = {x}
  OBVIOUS
<1>2. <<x>> \in Seq(T) /\ \A v \in T : PieceOk(slices, v)
  BY <1>1
<1> QED BY <1>2, Zenon DEF PiecesOk

LEMMA PiecesSet ==
    ASSUME NEW slices, NEW s, PiecesOk(slices, s), NEW i, NEW x, i \in DOMAIN s => PieceOk(slices, x)
    PROVE  PiecesOk(slices, [s EXCEPT ![i] = x])
<1>1. PICK T : s \in Seq(T) /\ \A v \in T : PieceOk(slices, v)
  BY DEF PiecesOk
<1>2. CASE i \in DOMAIN s
  <2> DEFINE V == T \cup {x}
  <2>1. s \in Seq(V) /\ x \in V /\ \A v \in V : PieceOk(slices, v)
    BY <1>1, <1>2
  <2> HIDE DEF V
  <2>2. [s EXCEPT ![i] = x] \in Seq(V)
    BY <1>2, <2>1
  <2> QED BY <2>1, <2>2 DEF PiecesOk
<1>3. CASE i \notin DOMAIN s
  <2>1. [s EXCEPT ![i] = x] = s
    BY <1>1, <1>3
  <2> QED BY <2>1
<1> QED BY <1>2, <1>3

LEMMA PiecesReverse ==
    ASSUME NEW slices, NEW s, PiecesOk(slices, s)
    PROVE  PiecesOk(slices, Reverse(s))
<1>1. PICK T : s \in Seq(T) /\ \A v \in T : PieceOk(slices, v)
  BY DEF PiecesOk
<1>2. \A i \in 1 .. Len(s) : s[(Len(s) - i) + 1] \in T
  BY <1>1, ElementOfSeq
<1>3. Reverse(s) \in Seq(T)
  BY <1>1, <1>2 DEF Reverse
<1> QED BY <1>1, <1>3 DEF PiecesOk

LEMMA PieceAt ==
    ASSUME NEW slices, NEW s, PiecesOk(slices, s)
    PROVE  /\ Len(s) \in Nat /\ DOMAIN s = 1 .. Len(s)
           /\ \A i \in 1 .. Len(s) : PieceOk(slices, s[i])
<1>1. PICK T : s \in Seq(T) /\ \A v \in T : PieceOk(slices, v)
  BY DEF PiecesOk
<1> QED BY <1>1, ElementOfSeq

(* Pieces with another marker, other bits, or the last precinct cut off.   *)
LEMMA PieceMarked ==
    ASSUME NEW slices, NEW x, PieceOk(slices, x)
    PROVE  PieceOk(slices, [x EXCEPT !.marker = "SLI"])
<1>1. "marker" \in DOMAIN x
  BY DEF PieceOk, OtherPiece, CutSlice
<1>2. OtherPiece([x EXCEPT !.marker = "SLI"])
  BY <1>1 DEF OtherPiece
<1> QED BY <1>2 DEF PieceOk
LEMMA PieceBits ==
    ASSUME NEW slices, NEW x, PieceOk(slices, x), NEW bits
    PROVE  PieceOk(slices, [x EXCEPT !.bits = bits])
<1>1. CASE OtherPiece(x)
  <2>1. OtherPiece([x EXCEPT !.bits = bits])
    BY <1>1 DEF OtherPiece
  <2> QED BY <2>1 DEF PieceOk
<1>2. CASE ~OtherPiece(x)
  <2>1. PICK y, z \in Nat : x = CutSlice(slices, y, z)
    BY <1>2 DEF PieceOk
  <2>2. [x EXCEPT !.bits = bits] = x
    BY <2>1 DEF CutSlice
  <2> QED BY <2>2
<1> QED BY <1>1, <1>2
LEMMA PieceCut ==
    ASSUME NEW slices, NEW x, PieceOk(slices, x), 1 \in DOMAIN x.precincts
    PROVE  PieceOk(slices, [x EXCEPT !.precincts = Front(@)])
<1>1. CASE OtherPiece(x)
  <2>1. OtherPiece([x EXCEPT !.precincts = Front(@)])
    BY <1>1 DEF OtherPiece
  <2> QED BY <2>1 DEF PieceOk
<1>2. CASE ~OtherPiece(x)
  <2>1. PICK y, z \in Nat : /\ y + 1 \in DOMAIN slices /\ 1 .. z \subseteq DOMAIN slices[y + 1].precincts
                            /\ x = CutSlice(slices, y, z)
    BY <1>2 DEF PieceOk
  <2>2. PICK all : all = slices[y + 1].precincts
    OBVIOUS
  <2> DEFINE q == [j \in 1 .. z |-> all[j]]
  <2>3. x = [marker |-> "SLH", ysl |-> y, precincts |-> q]
    BY <2>1, <2>2 DEF CutSlice
  <2>4. z \in Nat \ {0}
    BY <2>3
  <2>5. PICK less \in Nat : less = z - 1 /\ 1 .. less \subseteq 1 .. z
    BY <2>4
  <2>6. Front(q) = [j \in 1 .. less |-> all[j]]
    <3>1. q \in Seq({all[j] : j \in 1 .. z}) /\ Len(q) = z
      OBVIOUS
    <3>2. SubSeq(q, 1, less) = [j \in 1 .. less |-> q[j]]
      <4> HIDE DEF q
      <4> QED BY <2>5, <3>1
    <3>3. \A j \in 1 .. less : q[j] = all[j]
      BY <2>5
    <3> HIDE DEF q
    <3> QED BY <2>5, <3>1, <3>2, <3>3 DEF Front
  <2>7. [x EXCEPT !.precincts = Front(@)] = [marker |-> "SLH", ysl |-> y, precincts |-> Front(q)]
    <3> HIDE DEF q
    <3> QED BY <2>3
  <2>8. [x EXCEPT !.precincts = Front(@)] = CutSlice(slices, y, less)
    <3> HIDE DEF q
    <3> QED BY <2>2, <2>6, <2>7 DEF CutSlice
  <2>9. 1 .. less \subseteq DOMAIN slices[y + 1].precincts
    BY <2>1, <2>5
  <2> QED BY <2>1, <2>8, <2>9 DEF PieceOk
<1> QED BY <1>1, <1>2

(* The first slice header, other slice header or EOC is a piece.           *)
LEMMA FirstSliceIs ==
    ASSUME NEW slices, NEW s, PiecesOk(slices, s), Ends(s) # {}
    PROVE  FirstSlice(s) \in 1 .. Len(s) /\ Len(s) \in Nat
<1> DEFINE T == Ends(s)
           R == OpToRel(<, Nat)
<1>1. IsWellFoundedOn(R, Nat)
  BY NatLessThanWellFounded, Zenon
<1>2. Len(s) \in Nat /\ DOMAIN s = 1 .. Len(s)
  BY PieceAt
<1>3. T \subseteq Nat /\ T \subseteq 1 .. Len(s)
  BY <1>2 DEF Ends
<1> HIDE DEF T, R
<1>4. PICK x \in T : \A y \in T : ~(<<y, x>> \in R)
  BY <1>1, <1>3, WFMin DEF T
<1>5. \A y \in T : x <= y
  <2>1. SUFFICES ASSUME NEW y \in T, y < x PROVE FALSE
    BY <1>3
  <2>2. <<y, x>> \in Nat \X Nat
    BY <1>3
  <2>3. <<y, x>> \in R
    BY <2>1, <2>2 DEF R, OpToRel
  <2> QED BY <1>4, <2>3
<1>6. FirstSlice(s) \in T
  BY <1>4, <1>5 DEF FirstSlice, T
<1> QED BY <1>2, <1>3, <1>6

(* The codestream the encoder writes, and whatever becomes of it.          *)
LEMMA WrittenPieces ==
    ASSUME NEW g, NEW slices, NEW per \in Nat \ {0}, NEW m, NEW n, NEW w, Fitted(g), Laid(slices, per, m, n, w)
    PROVE  LET s == WriteHeaders(g) \o (slices \o <<[marker |-> "EOC"]>>)
           IN  PiecesOk(slices, s) /\ Len(s) >= 5 /\ Ends(s) # {}
<1> DEFINE eoc == [marker |-> "EOC"]
           hs == WriteHeaders(g)
           body == slices \o <<eoc>>
           s == hs \o body
<1>1. hs \in Seq(HeaderPieces) /\ Len(hs) >= 5
  <2> DEFINE H == HeaderPieces
  <2>1. FirstParts(g) \in Seq(H) /\ Len(FirstParts(g)) = 5
    <3>1. FirstParts(g) \in Seq(H)
      BY FirstPieces
    <3>2. Len(FirstParts(g)) = 5
      BY DEF FirstParts
    <3> QED BY <3>1, <3>2
  <2> HIDE DEF H
  <2>2. \A a \in Seq(H) : \A b \in Seq(H) : Len(a) >= 5 => a \o b \in Seq(H) /\ Len(a \o b) >= 5
    <3> SUFFICES ASSUME NEW a \in Seq(H), NEW b \in Seq(H), Len(a) >= 5 PROVE a \o b \in Seq(H) /\ Len(a \o b) >= 5
      OBVIOUS
    <3>1. a \o b \in Seq(H) /\ Len(a \o b) = Len(a) + Len(b) /\ Len(a) \in Nat /\ Len(b) \in Nat
      BY ConcatProperties
    <3> QED BY <3>1
  <2>3. PICK f, a, b, c, d, e, i, j :
            /\ f = FirstParts(g) /\ a = WgrPart(g) /\ b = NltPart(g) /\ c = CwdPart(g) /\ d = CtsPart(g)
            /\ e = CrgPart(g) /\ i = TpcPart(g) /\ j = ComPart(g)
    OBVIOUS
  <2>4. a \in Seq(H) /\ b \in Seq(H) /\ c \in Seq(H) /\ d \in Seq(H) /\ e \in Seq(H) /\ i \in Seq(H) /\ j \in Seq(H)
        /\ f \in Seq(H) /\ Len(f) = 5
    BY <2>1, <2>3, OtherPieces DEF H
  <2>5. f \o a \in Seq(H) /\ Len(f \o a) >= 5
    <3>1. Len(f) >= 5
      BY <2>4
    <3> QED BY <2>2, <2>4, <3>1, Zenon
  <2>6. f \o a \o b \in Seq(H) /\ Len(f \o a \o b) >= 5
    BY <2>2, <2>4, <2>5
  <2>7. f \o a \o b \o c \in Seq(H) /\ Len(f \o a \o b \o c) >= 5
    BY <2>2, <2>4, <2>6
  <2>8. f \o a \o b \o c \o d \in Seq(H) /\ Len(f \o a \o b \o c \o d) >= 5
    BY <2>2, <2>4, <2>7
  <2>9. f \o a \o b \o c \o d \o e \in Seq(H) /\ Len(f \o a \o b \o c \o d \o e) >= 5
    BY <2>2, <2>4, <2>8
  <2>10. f \o a \o b \o c \o d \o e \o i \in Seq(H) /\ Len(f \o a \o b \o c \o d \o e \o i) >= 5
    BY <2>2, <2>4, <2>9
  <2>11. f \o a \o b \o c \o d \o e \o i \o j \in Seq(H) /\ Len(f \o a \o b \o c \o d \o e \o i \o j) >= 5
    BY <2>2, <2>4, <2>10
  <2> QED BY <2>3, <2>11, PartsAre DEF H
<1>2. \A x \in HeaderPieces : PieceOk(slices, x)
  <2>1. SUFFICES ASSUME NEW x \in HeaderPieces PROVE OtherPiece(x)
    BY DEF PieceOk
  <2>2. CASE x = [marker |-> "SOC"]
    BY <2>2 DEF OtherPiece
  <2>3. ASSUME NEW mk \in HeaderMarkers, NEW bits \in Seq(Bit), x = Segment(mk, bits) PROVE OtherPiece(x)
    <3>1. mk # "SLH"
      BY DEF HeaderMarkers
    <3> QED BY <2>3, <3>1 DEF OtherPiece, Segment
  <2> QED BY <2>2, <2>3 DEF HeaderPieces
<1>3. PiecesOk(slices, hs)
  <2> HIDE DEF hs
  <2> QED BY <1>1, <1>2, Zenon DEF PiecesOk
<1>4. PiecesOk(slices, slices)
  <2>1. m \in Nat /\ n \in Nat /\ (m - 1) * per <= n /\ n <= m * per /\ slices = [t \in 1 .. m |-> TraceSlice(per, n, w, t)]
    BY DEF Laid
  <2> DEFINE T == {slices[t] : t \in 1 .. m}
  <2>2. slices \in Seq(T)
    <3>1. \A t \in 1 .. m : slices[t] \in T
      OBVIOUS
    <3>2. slices = [t \in 1 .. m |-> slices[t]]
      BY <2>1
    <3> HIDE DEF T
    <3> QED BY <2>1, <3>1, <3>2
  <2>3. ASSUME NEW t \in 1 .. m PROVE PieceOk(slices, slices[t])
    <3>1. PICK z \in Nat : z = SlotsIn(per, n, t)
      BY <2>1, SlotsAre
    <3>2. PICK y \in Nat : y = t - 1 /\ y + 1 = t
      BY <2>1
    <3> DEFINE q == [j \in 1 .. z |-> w[(t - 1) * per + (j - 1)]]
    <3>3. slices[t] = [marker |-> "SLH", ysl |-> t - 1, precincts |-> q]
      BY <2>1, <3>1 DEF TraceSlice
    <3>4. q = [j \in 1 .. z |-> q[j]] /\ DOMAIN q = 1 .. z
      OBVIOUS
    <3> HIDE DEF q
    <3>5. slices[y + 1].precincts = q /\ DOMAIN slices = 1 .. m
      BY <2>1, <3>2, <3>3
    <3>6. slices[t] = CutSlice(slices, y, z)
      BY <3>2, <3>3, <3>4, <3>5 DEF CutSlice
    <3>7. y + 1 \in DOMAIN slices /\ 1 .. z \subseteq DOMAIN slices[y + 1].precincts
      BY <3>2, <3>4, <3>5
    <3> QED BY <3>6, <3>7 DEF PieceOk
  <2>4. \A x \in T : PieceOk(slices, x)
    BY <2>3
  <2> HIDE DEF T
  <2> QED BY <2>2, <2>4, Zenon DEF PiecesOk
<1>5. PiecesOk(slices, <<eoc>>)
  <2>1. OtherPiece(eoc)
    BY DEF OtherPiece
  <2> HIDE DEF eoc
  <2>2. PieceOk(slices, eoc)
    BY <2>1 DEF PieceOk
  <2> QED BY <2>2, PiecesOne
<1>6. PiecesOk(slices, body)
  <2> HIDE DEF eoc
  <2> QED BY <1>4, <1>5, PiecesConcat
<1>7. PiecesOk(slices, s)
  <2> HIDE DEF hs, body
  <2> QED BY <1>3, <1>6, PiecesConcat
<1>8. Len(s) >= 5 /\ Ends(s) # {}
  <2>1. PICK T : slices \in Seq(T)
    BY <1>4 DEF PiecesOk
  <2>2. PICK U : hs \in Seq(U) /\ U = HeaderPieces
    BY <1>1
  <2> DEFINE V == T \cup U \cup {eoc}
  <2>3. slices \in Seq(V) /\ hs \in Seq(V) /\ eoc \in V
    BY <2>1, <2>2
  <2> HIDE DEF V, hs, eoc
  <2>4. <<eoc>> \in Seq(V) /\ Len(<<eoc>>) = 1 /\ <<eoc>>[1] = eoc
    BY <2>3
  <2>5. PICK k \in Nat : k = Len(slices)
    BY <2>1
  <2>6. body \in Seq(V) /\ Len(body) = k + 1 /\ body[k + 1] = eoc
    <3>1. /\ slices \o <<eoc>> \in Seq(V) /\ Len(slices \o <<eoc>>) = k + 1
          /\ \A i \in 1 .. k + 1 : (slices \o <<eoc>>)[i] = IF i <= k THEN slices[i] ELSE <<eoc>>[i - k]
      BY <2>3, <2>4, <2>5, ConcatProperties
    <3>2. k + 1 \in 1 .. k + 1 /\ ~(k + 1 <= k) /\ (k + 1) - k = 1
      OBVIOUS
    <3> QED BY <2>4, <3>1, <3>2
  <2>7. PICK l \in Nat : l = Len(hs) /\ l >= 5
    BY <1>1, <2>2 DEF hs
  <2> HIDE DEF body
  <2>8. /\ s \in Seq(V) /\ Len(s) = l + (k + 1) /\ s[l + (k + 1)] = eoc
    <3>1. /\ hs \o body \in Seq(V) /\ Len(hs \o body) = l + (k + 1)
          /\ \A i \in 1 .. l + (k + 1) : (hs \o body)[i] = IF i <= l THEN hs[i] ELSE body[i - l]
      <4>1. /\ hs \o body \in Seq(V) /\ Len(hs \o body) = Len(hs) + Len(body)
            /\ \A i \in 1 .. Len(hs) + Len(body) : (hs \o body)[i] = IF i <= Len(hs) THEN hs[i] ELSE body[i - Len(hs)]
        BY <2>3, <2>6, ConcatProperties
      <4> QED BY <2>6, <2>7, <4>1, Zenon
    <3>2. l + (k + 1) \in 1 .. l + (k + 1) /\ ~(l + (k + 1) <= l) /\ (l + (k + 1)) - l = k + 1
      BY <2>7
    <3> QED BY <2>6, <3>1, <3>2
  <2> HIDE DEF s
  <2>9. Len(s) >= 5 /\ l + (k + 1) \in DOMAIN s
    BY <2>7, <2>8
  <2>10. s[l + (k + 1)].marker = "EOC"
    BY <2>8 DEF eoc
  <2> QED BY <2>9, <2>10 DEF Ends
<1> QED BY <1>7, <1>8 DEF s, hs, body, eoc

LEMMA AlteredPieces ==
    ASSUME NEW slices, NEW s, PiecesOk(slices, s), Len(s) >= 5, Ends(s) # {}, NEW r \in Altered(s)
    PROVE  PiecesOk(slices, r)
<1> DEFINE first == FirstSlice(s)
           size == Len(s)
           quadratic == Segment("NLT", NltPayload([type |-> 1, dco |-> -1]))
<1>1. size \in Nat /\ DOMAIN s = 1 .. size /\ \A i \in 1 .. size : PieceOk(slices, s[i])
  BY PieceAt
<1>2. first \in 1 .. size
  BY FirstSliceIs
<1>3. \A m, bits : m # "SLH" => PieceOk(slices, Segment(m, bits))
  BY DEF PieceOk, OtherPiece, Segment
<1>4. ASSUME NEW a \in Nat \ {0}, NEW b \in Int, b <= size PROVE PiecesOk(slices, SubSeq(s, a, b))
  BY <1>4, PiecesSub
<1>5. ASSUME NEW i \in 1 .. size, NEW x, PieceOk(slices, x) PROVE PiecesOk(slices, InsertAt(s, i, x))
  <2>1. PiecesOk(slices, SubSeq(s, 1, i - 1)) /\ PiecesOk(slices, SubSeq(s, i, size))
    BY <1>1, <1>4
  <2>2. PiecesOk(slices, <<x>>)
    BY <1>5, PiecesOne
  <2>3. PiecesOk(slices, SubSeq(s, 1, i - 1) \o <<x>>)
    BY <2>1, <2>2, PiecesConcat
  <2> QED BY <2>1, <2>3, PiecesConcat DEF InsertAt
<1>6. ASSUME NEW i \in 1 .. size, r \in {RemoveAt(s, i), InsertAt(s, i, s[i]), SubSeq(s, 1, i - 1)} PROVE PiecesOk(slices, r)
  <2>1. PiecesOk(slices, SubSeq(s, 1, i - 1)) /\ PiecesOk(slices, SubSeq(s, i + 1, size))
    BY <1>1, <1>4
  <2>2. PiecesOk(slices, RemoveAt(s, i))
    BY <2>1, PiecesConcat DEF RemoveAt
  <2>3. PiecesOk(slices, InsertAt(s, i, s[i]))
    BY <1>1, <1>5
  <2> QED BY <1>6, <2>1, <2>2, <2>3
<1>7. ASSUME NEW i \in 1 .. size - 1, r = [s EXCEPT ![i] = s[i + 1], ![i + 1] = s[i]] PROVE PiecesOk(slices, r)
  <2>1. PieceOk(slices, s[i]) /\ PieceOk(slices, s[i + 1])
    BY <1>1
  <2>2. PICK one : one = [s EXCEPT ![i] = s[i + 1]]
    OBVIOUS
  <2>3. PiecesOk(slices, one)
    BY <2>1, <2>2, PiecesSet
  <2>4. PiecesOk(slices, [one EXCEPT ![i + 1] = s[i]])
    BY <2>1, <2>3, PiecesSet
  <2>5. r = [one EXCEPT ![i + 1] = s[i]]
    BY <1>7, <2>2
  <2> QED BY <2>4, <2>5
<1>8. PiecesOk(slices, SubSeq(s, 1, 3) \o Reverse(SubSeq(s, 4, first - 1)) \o SubSeq(s, first, size))
  <2>1. PiecesOk(slices, SubSeq(s, 1, 3)) /\ PiecesOk(slices, SubSeq(s, first, size))
    BY <1>1, <1>2, <1>4
  <2>2. PiecesOk(slices, SubSeq(s, 4, first - 1))
    BY <1>1, <1>2, <1>4
  <2>3. PiecesOk(slices, Reverse(SubSeq(s, 4, first - 1)))
    BY <2>2, PiecesReverse
  <2>4. PiecesOk(slices, SubSeq(s, 1, 3) \o Reverse(SubSeq(s, 4, first - 1)))
    BY <2>1, <2>3, PiecesConcat
  <2> QED BY <2>1, <2>4, PiecesConcat
<1>9. ASSUME 1 \in DOMAIN s[size - 1].precincts
      PROVE  PiecesOk(slices, SubSeq(s, 1, size - 2) \o <<[s[size - 1] EXCEPT !.precincts = Front(@)]>>)
  <2>1. size - 1 \in 1 .. size
    BY <1>1
  <2>2. PieceOk(slices, [s[size - 1] EXCEPT !.precincts = Front(@)])
    BY <1>1, <1>9, <2>1, PieceCut
  <2>3. PiecesOk(slices, SubSeq(s, 1, size - 2))
    BY <1>1, <1>4
  <2>4. PiecesOk(slices, <<[s[size - 1] EXCEPT !.precincts = Front(@)]>>)
    BY <2>2, PiecesOne
  <2> QED BY <2>3, <2>4, PiecesConcat
<1>10. PiecesOk(slices, InsertAt(s, 4, Segment("unknown", <<>>))) /\ PiecesOk(slices, InsertAt(s, 4, quadratic))
  <2>1. 4 \in 1 .. size
    BY <1>1
  <2>2. PieceOk(slices, Segment("unknown", <<>>)) /\ PieceOk(slices, quadratic)
    BY <1>3
  <2> HIDE DEF quadratic
  <2> QED BY <1>5, <2>1, <2>2
<1>11. PiecesOk(slices, [s EXCEPT ![first].marker = "SLI"])
  <2>1. PieceOk(slices, [s[first] EXCEPT !.marker = "SLI"])
    BY <1>1, <1>2, PieceMarked
  <2>2. [s EXCEPT ![first].marker = "SLI"] = [s EXCEPT ![first] = [s[first] EXCEPT !.marker = "SLI"]]
    OBVIOUS
  <2> QED BY <2>1, <2>2, PiecesSet
<1>12. \A bits : PiecesOk(slices, [s EXCEPT ![2].bits = bits])
  <2> SUFFICES ASSUME NEW bits PROVE PiecesOk(slices, [s EXCEPT ![2].bits = bits])
    OBVIOUS
  <2>1. PieceOk(slices, [s[2] EXCEPT !.bits = bits])
    BY <1>1, PieceBits
  <2>2. [s EXCEPT ![2].bits = bits] = [s EXCEPT ![2] = [s[2] EXCEPT !.bits = bits]]
    OBVIOUS
  <2> QED BY <2>1, <2>2, PiecesSet
<1>13. [s EXCEPT ![2].bits = @ \o PutBits(0, 8)] = [s EXCEPT ![2].bits = s[2].bits \o PutBits(0, 8)]
  OBVIOUS
<1> DEFINE moved == SubSeq(s, 1, 3) \o Reverse(SubSeq(s, 4, first - 1)) \o SubSeq(s, first, size)
           cut == SubSeq(s, 1, size - 2) \o <<[s[size - 1] EXCEPT !.precincts = Front(@)]>>
           unknown == InsertAt(s, 4, Segment("unknown", <<>>))
           asked == InsertAt(s, 4, quadratic)
           other == [s EXCEPT ![first].marker = "SLI"]
           longer == [s EXCEPT ![2].bits = @ \o PutBits(0, 8)]
           bad == [s EXCEPT ![2].bits = PutBits(0, 32) \o PutBits(1, 8)]
           Lost(i) == {RemoveAt(s, i), InsertAt(s, i, s[i]), SubSeq(s, 1, i - 1)}
           Exchanged(i) == [s EXCEPT ![i] = s[i + 1], ![i + 1] = s[i]]
           S1 == UNION {Lost(i) : i \in 1 .. size}
           S2 == {Exchanged(i) : i \in 1 .. size - 1}
           S3 == {cut : k \in {1} \cap DOMAIN s[size - 1].precincts}
<1>14. Altered(s) = S1 \cup S2 \cup {moved} \cup S3 \cup {unknown, asked, other} \cup {longer, bad}
  BY Zenon DEF Altered
<1>15. PiecesOk(slices, longer) /\ PiecesOk(slices, bad)
  <2>1. PiecesOk(slices, [s EXCEPT ![2].bits = s[2].bits \o PutBits(0, 8)])
    BY <1>12
  <2> QED BY <1>12, <1>13, <2>1
<1>16. PiecesOk(slices, moved) /\ PiecesOk(slices, unknown) /\ PiecesOk(slices, asked) /\ PiecesOk(slices, other)
  BY <1>8, <1>10, <1>11
<1>17. 1 \in DOMAIN s[size - 1].precincts => PiecesOk(slices, cut)
  BY <1>9
<1>18. \A i \in 1 .. size : r \in Lost(i) => PiecesOk(slices, r)
  BY <1>6
<1>19. \A i \in 1 .. size - 1 : r = Exchanged(i) => PiecesOk(slices, r)
  BY <1>7
<1> HIDE DEF moved, cut, unknown, asked, other, longer, bad, Lost, Exchanged, size
<1>20. r \in S1 => PiecesOk(slices, r)
  BY <1>18
<1>21. r \in S2 => PiecesOk(slices, r)
  BY <1>19
<1>22. r \in S3 => PiecesOk(slices, r)
  BY <1>17
<1> HIDE DEF S1, S2, S3
<1> QED BY <1>14, <1>15, <1>16, <1>20, <1>21, <1>22

(* The fields the decoder codes with, of headers read and written.         *)
CodingFields ==
    {"nc", "sd", "nlx", "nly", "wf", "hf", "cw", "sx", "hsl", "bands", "packets", "widths", "lines",
     "ng", "ss", "br", "qpih", "fs", "rm", "lh", "weights"}
LEMMA TablesNames ==
    ASSUME NEW g, HeaderNames \subseteq DOMAIN g
    PROVE  CodingFields \subseteq DOMAIN Tables(g)
<1> DEFINE k == g ++ [bands |-> [b \in Bands(g) |-> Band(g, b)]]
           cfa == IF g.cpih = 3 THEN StarTetrix(g) ELSE None
<1>1. Tables(g) = Geometry(g) ++ cfa
  BY Zenon DEF Tables
<1>2. \E a, b, c : Geometry(g) = k ++ [packets |-> a, widths |-> b, lines |-> c]
  BY Zenon DEF Geometry
<1>3. DOMAIN k = DOMAIN g \cup {"bands"}
  BY DEF ++
<1> HIDE DEF k, cfa
<1>4. PICK w : Geometry(g) = k ++ w /\ DOMAIN w = {"packets", "widths", "lines"}
  BY <1>2
<1>5. DOMAIN Geometry(g) = DOMAIN k \cup DOMAIN w
  BY <1>4 DEF ++
<1>6. DOMAIN Tables(g) = DOMAIN Geometry(g) \cup DOMAIN cfa
  BY <1>1 DEF ++
<1> QED BY <1>3, <1>4, <1>5, <1>6 DEF CodingFields, HeaderNames

LEMMA ReadCoding ==
    ASSUME NEW written, NEW g, NEW lcod, NEW optional, NEW k, CodingFields \subseteq DOMAIN g,
           written = g \/ written = [g EXCEPT !.lcod = lcod],
           optional \subseteq {"wgr", "tpc", "comments", "crg"},
           \A f \in (DOMAIN k \cap DOMAIN written) \ optional : k[f] = written[f],
           DOMAIN written \subseteq DOMAIN k
    PROVE  SameCoding(k, g)
<1>1. \A f \in CodingFields : f \in DOMAIN written /\ written[f] = g[f]
  <2>1. \A f \in CodingFields : f # "lcod"
    BY DEF CodingFields
  <2>2. CASE written = g
    BY <2>2
  <2>3. CASE written = [g EXCEPT !.lcod = lcod]
    BY <2>1, <2>3
  <2> QED BY <2>2, <2>3
<1>2. \A f \in CodingFields : f \notin optional
  BY DEF CodingFields
<1>3. \A f \in CodingFields : k[f] = g[f]
  BY <1>1, <1>2
<1> QED BY <1>3 DEF CodingFields, SameCoding, SameGrid

HeadersRead == parsed # None => SameHeaders(parsed, WrittenHeaders)
JobReady ==
    ~job.foreign => Prepared(h) /\ {config.vertical, config.significance} \subseteq BOOLEAN /\ CodingFields \subseteq DOMAIN h
LEMMA HeadersCode ==
    ASSUME HeadersRead, JobReady, parsed # None, ~job.foreign
    PROVE  SameCoding(parsed, h)
<1>1. SameHeaders(parsed, WrittenHeaders)
  BY DEF HeadersRead
<1>2. PICK written, lcod : written = WrittenHeaders /\ (written = h \/ written = [h EXCEPT !.lcod = lcod])
  BY DEF WrittenHeaders
<1>3. Optional \subseteq {"wgr", "tpc", "comments", "crg"}
  BY DEF Optional
<1>4. /\ \A f \in (DOMAIN parsed \cap DOMAIN written) \ Optional : parsed[f] = written[f]
      /\ DOMAIN written \subseteq DOMAIN parsed
  BY <1>1, <1>2, Zenon DEF SameHeaders
<1>5. CodingFields \subseteq DOMAIN h
  BY DEF JobReady
<1>6. PICK k, g, optional : k = parsed /\ g = h /\ optional = Optional
  OBVIOUS
<1>7. SameCoding(k, g)
  BY <1>2, <1>3, <1>4, <1>5, <1>6, ReadCoding
<1> QED BY <1>6, <1>7

LEMMA ReadyInit == Init => JobReady
<1> SUFFICES ASSUME Init PROVE JobReady
  OBVIOUS
<1>1. CASE phase = "transform"
  <2>1. PICK j \in Jobs : job = [config |-> j.config, h |-> Tables(MakeHeaders(j.config)),
                                 fixed |-> FixedBytes(Tables(MakeHeaders(j.config))),
                                 image |-> j.image, foreign |-> FALSE, damaged |-> j.damaged]
    BY <1>1 DEF Init
  <2>2. JobOk(j.config) /\ {j.config.vertical, j.config.significance} \subseteq BOOLEAN
    BY JobsAssumption DEF JobOk
  <2>3. Prepared(Tables(MakeHeaders(j.config)))
    BY <2>2, TablesPrepared
  <2>4. CodingFields \subseteq DOMAIN Tables(MakeHeaders(j.config))
    BY MadeHeaders, TablesNames
  <2>5. h = Tables(MakeHeaders(j.config)) /\ config = j.config
    BY <2>1 DEF h, config
  <2> QED BY <2>2, <2>3, <2>4, <2>5 DEF JobReady
<1>2. CASE phase = "deliver"
  <2>1. job.foreign = TRUE
    BY <1>2 DEF Init
  <2> QED BY <2>1 DEF JobReady
<1> QED BY <1>1, <1>2 DEF Init

(* The n precincts coded so far and the predictor states between them: in  *)
(* the slices, in their order, each leaving its reader in the state the    *)
(* encoder was in after it.                                                *)
Chain(g, cs, w, S, n) ==
    S[0] = Unpredicted(g) /\ \A k \in 0 .. n - 1 : Sent(g, k, cs, w[k], S[k], S[k + 1])
CodedSoFar(g, cs, slices, m, n, w, S) ==
    /\ Laid(slices, PerSlice(g), m, n, w) /\ n \in 0 .. NumPrecincts(g)
    /\ Chain(g, cs, w, S, n) /\ Usable(g, S[n], n)

LEMMA CodedNone ==
    ASSUME NEW g, NEW cs, Prepared(g)
    PROVE  \E w, S : CodedSoFar(g, cs, <<>>, 0, 0, w, S) /\ S[0] = Unpredicted(g)
<1>1. PerSlice(g) \in Nat \ {0}
  BY SlicesCover DEF Prepared
<1>2. NumPrecincts(g) \in Nat \ {0}
  BY Numbers DEF Prepared
<1>3. PICK S : S = [k \in {0} |-> Unpredicted(g)]
  OBVIOUS
<1>4. S[0] = Unpredicted(g)
  BY <1>3
<1>5. Chain(g, cs, S, S, 0)
  BY <1>4 DEF Chain
<1>6. Usable(g, S[0], 0)
  BY <1>4, UnpredictedIsUsable
<1>7. Laid(<<>>, PerSlice(g), 0, 0, S)
  BY <1>1, LaidNone
<1>8. 0 \in 0 .. NumPrecincts(g)
  BY <1>2
<1> QED BY <1>4, <1>5, <1>6, <1>7, <1>8 DEF CodedSoFar

LEMMA CodedSlice ==
    ASSUME NEW g, NEW cs, NEW slices, NEW m, NEW n, NEW w, NEW S, Prepared(g),
           CodedSoFar(g, cs, slices, m, n, w, S), m * PerSlice(g) <= n
    PROVE  CodedSoFar(g, cs, Append(slices, [marker |-> "SLH", ysl |-> Len(slices), precincts |-> <<>>]), m + 1, n, w, S)
<1>1. PICK per \in Nat \ {0} : per = PerSlice(g)
  BY SlicesCover DEF Prepared
<1>2. Laid(slices, per, m, n, w) /\ m * per <= n
  BY <1>1 DEF CodedSoFar
<1>3. Laid(Append(slices, [marker |-> "SLH", ysl |-> Len(slices), precincts |-> <<>>]), per, m + 1, n, w)
  BY <1>2, LaidSlice
<1> QED BY <1>1, <1>3, Zenon DEF CodedSoFar

WithPrecinct(slices, x) == [slices EXCEPT ![Len(slices)].precincts = Append(@, x)]
LEMMA CodedPrecinct ==
    ASSUME NEW g, NEW cs, NEW slices, NEW m, NEW n, NEW w, NEW S, NEW x, NEW after, Prepared(g),
           CodedSoFar(g, cs, slices, m, n, w, S), n < NumPrecincts(g), n < m * PerSlice(g),
           Sent(g, n, cs, x, S[n], after), Usable(g, after, n + 1)
    PROVE  /\ CodedSoFar(g, cs, WithPrecinct(slices, x), m, n + 1, OneMorePrecinct(w, n, x), OneMorePrecinct(S, n + 1, after))
           /\ OneMorePrecinct(S, n + 1, after)[n + 1] = after
<1> DEFINE more == OneMorePrecinct(S, n + 1, after)
           long == OneMorePrecinct(w, n, x)
<1>1. PICK per \in Nat \ {0} : per = PerSlice(g)
  BY SlicesCover DEF Prepared
<1>2. PICK N \in Nat : N = NumPrecincts(g)
  BY Numbers DEF Prepared
<1>3. n \in Nat /\ n + 1 \in 0 .. N
  BY <1>2 DEF CodedSoFar
<1>4. Laid(WithPrecinct(slices, x), per, m, n + 1, long)
  <2>1. Laid(slices, per, m, n, w) /\ n < m * per
    BY <1>1 DEF CodedSoFar
  <2> QED BY <2>1, LaidPrecinct DEF WithPrecinct
<1>5. /\ \A k \in 0 .. n : more[k] = S[k]
      /\ more[n + 1] = after
      /\ \A k \in 0 .. n - 1 : long[k] = w[k]
      /\ long[n] = x
  BY <1>3 DEF OneMorePrecinct
<1> HIDE DEF more, long
<1>6. Chain(g, cs, long, more, n + 1)
  <2>1. S[0] = Unpredicted(g) /\ \A k \in 0 .. n - 1 : Sent(g, k, cs, w[k], S[k], S[k + 1])
    BY DEF CodedSoFar, Chain
  <2>2. more[0] = Unpredicted(g)
    BY <1>3, <1>5, <2>1
  <2>3. ASSUME NEW k \in 0 .. (n + 1) - 1 PROVE Sent(g, k, cs, long[k], more[k], more[k + 1])
    <3>1. CASE k = n
      <4>1. long[k] = x /\ more[k] = S[n] /\ more[k + 1] = after
        BY <1>3, <1>5, <3>1
      <4> QED BY <3>1, <4>1
    <3>2. CASE k # n
      <4>1. k \in 0 .. n - 1 /\ k \in 0 .. n /\ k + 1 \in 0 .. n
        BY <1>3, <3>2
      <4> QED BY <1>5, <2>1, <4>1
    <3> QED BY <3>1, <3>2
  <2> QED BY <2>2, <2>3 DEF Chain
<1>7. Usable(g, more[n + 1], n + 1)
  BY <1>5
<1>8. CodedSoFar(g, cs, WithPrecinct(slices, x), m, n + 1, long, more)
  BY <1>1, <1>2, <1>3, <1>4, <1>6, <1>7, Zenon DEF CodedSoFar
<1> QED BY <1>5, <1>8 DEF more, long

(* Where encoder and decoder are in that chain.                            *)
CoefficientsNarrow == ~job.foreign /\ phase # "transform" => Narrow(h, bands)
Writing(m, n, S) ==
    /\ phase \in {"transform", "precinct"} =>
          n = p /\ p < NumPrecincts(h) /\ Due(m, p, PerSlice(h)) /\ enc = S[p]
    /\ phase \in {"Q", "R", "emit"} =>
          /\ n = p /\ p < NumPrecincts(h) /\ Within(m, p, PerSlice(h)) /\ enc = StartState(h, p, S[p])
          /\ search.d \in CodingBits /\ (search.d.vertical => enc[Column(h)].valid)
          /\ search.pc = ExtractPrecinct(h, p, bands)
    /\ phase \in {"write", "deliver", "decode"} => n = NumPrecincts(h) /\ enc = S[n]
    /\ phase \in {"transform", "write", "deliver"} => p = 0
    /\ phase = "deliver" => codestream = WriteHeaders(WrittenHeaders) \o Body
Reading(w, S) ==
    phase = "decode" /\ SameCoding(parsed, h) =>
        /\ p \in 0 .. NumPrecincts(h) /\ dec = S[p] /\ IsBuffer(h, decoded)
        /\ Followed(h, bands, w, p, decoded) /\ PiecesOk(stream, codestream)
Active == {"transform", "precinct", "Q", "R", "emit", "write", "deliver", "decode"}
FollowInv ==
    ~job.foreign /\ CoefficientsNarrow =>
        /\ phase \in Active =>
              \E m, n, w, S : CodedSoFar(h, bands, stream, m, n, w, S) /\ Writing(m, n, S) /\ Reading(w, S)
        /\ phase = "lost" => ~SameCoding(parsed, h)

LEMMA FollowInit == ASSUME Init PROVE FollowInv
<1> SUFFICES ASSUME ~job.foreign PROVE FollowInv
  BY DEF FollowInv
<1>1. phase = "transform" /\ p = 0 /\ enc = Unpredicted(h) /\ stream = <<>>
  BY DEF Init
<1>2. Prepared(h)
  BY ReadyInit DEF JobReady
<1>3. PICK w, S : CodedSoFar(h, bands, <<>>, 0, 0, w, S) /\ S[0] = Unpredicted(h)
  BY <1>2, CodedNone
<1>4. Due(0, 0, PerSlice(h)) /\ 0 < NumPrecincts(h)
  <2>1. PICK per \in Nat \ {0} : per = PerSlice(h)
    BY <1>2, SlicesCover DEF Prepared
  <2>2. NumPrecincts(h) \in Nat \ {0}
    BY <1>2, Numbers DEF Prepared
  <2>3. Due(0, 0, per)
    BY DEF Due
  <2> QED BY <2>1, <2>2, <2>3
<1>5. Writing(0, 0, S) /\ Reading(w, S)
  BY <1>1, <1>3, <1>4 DEF Writing, Reading
<1> QED BY <1>1, <1>3, <1>5 DEF FollowInv

LEMMA FollowTransform ==
    ASSUME FollowInv, Transform, ~job.foreign, phase' \in Active
    PROVE  \E m, n, w, S : (CodedSoFar(h, bands, stream, m, n, w, S) /\ Writing(m, n, S) /\ Reading(w, S))'
<1>1. /\ phase = "transform" /\ phase' \in {"precinct", "rejected"}
      /\ UNCHANGED <<job, p, search, enc, stream, codestream, parsed, dec, decoded, picture>>
  BY DEF Transform
<1>2. CoefficientsNarrow
  BY <1>1 DEF CoefficientsNarrow
<1>3. PICK m, n, w, S : CodedSoFar(h, bands, stream, m, n, w, S) /\ Writing(m, n, S)
  BY <1>1, <1>2 DEF FollowInv, Active
<1>4. n = p /\ p = 0 /\ p < NumPrecincts(h) /\ Due(m, p, PerSlice(h)) /\ enc = S[p]
  BY <1>1, <1>3 DEF Writing
<1>5. h' = h /\ NumPrecincts(h)' = NumPrecincts(h) /\ PerSlice(h)' = PerSlice(h)
  BY <1>1, JobStays
<1>6. PICK g, cs, slices : g = h /\ cs = bands' /\ slices = stream
  OBVIOUS
<1>7. CodedSoFar(g, cs, slices, m, n, w, S)
  <2>1. Laid(slices, PerSlice(g), m, n, w) /\ n \in 0 .. NumPrecincts(g) /\ S[0] = Unpredicted(g) /\ Usable(g, S[n], n)
    BY <1>3, <1>6 DEF CodedSoFar, Chain
  <2>2. \A k \in 0 .. n - 1 : FALSE
    BY <1>4
  <2> QED BY <2>1, <2>2, Zenon DEF CodedSoFar, Chain
<1>8. CodedSoFar(h, bands, stream, m, n, w, S)'
  BY <1>1, <1>5, <1>6, <1>7
<1>9. (Writing(m, n, S) /\ Reading(w, S))'
  BY <1>1, <1>4, <1>5 DEF Writing, Reading, Active
<1> QED BY <1>8, <1>9

LEMMA FollowBegin ==
    ASSUME FollowInv, JobReady, BeginPrecinct, CoefficientsNarrow, ~job.foreign, phase' \in Active
    PROVE  \E m, n, w, S : (CodedSoFar(h, bands, stream, m, n, w, S) /\ Writing(m, n, S) /\ Reading(w, S))'
<1>1. /\ phase = "precinct" /\ phase' \in {"emit", "Q"} /\ UNCHANGED <<job, bands, p, codestream, parsed, dec, decoded, picture>>
      /\ enc' = AtSliceStart(h, enc)
  BY DEF BeginPrecinct, Active
<1>2. PICK m, n, w, S : CodedSoFar(h, bands, stream, m, n, w, S) /\ Writing(m, n, S)
  BY <1>1 DEF FollowInv, Active
<1>3. n = p /\ p < NumPrecincts(h) /\ Due(m, p, PerSlice(h)) /\ enc = S[p]
  BY <1>1, <1>2 DEF Writing
<1>4. h' = h /\ NumPrecincts(h)' = NumPrecincts(h) /\ PerSlice(h)' = PerSlice(h)
  BY <1>1, JobStays
<1>5. Prepared(h) /\ Fitted(h) /\ config.vertical \in BOOLEAN /\ config.significance \in BOOLEAN
  BY DEF JobReady, Prepared
<1>6. PICK N \in Nat \ {0} : N = NumPrecincts(h)
  BY <1>5, Numbers
<1>7. PICK per \in Nat \ {0} : per = PerSlice(h)
  BY <1>5, SlicesCover
<1>8. m \in Nat /\ n \in Nat
  BY <1>2 DEF CodedSoFar, Laid
<1>9. PICK ns \in Nat \ {0} : ns = NumSlices(h)
  BY <1>5, Numbers
<1>10. N <= ns * per /\ (StartsSlice(h, p) <=> \E t \in 0 .. ns - 1 : p = t * per)
  BY <1>5, <1>6, <1>7, <1>9, SlicesCover
<1>11. (StartsSlice(h, p) => Within(m + 1, p, per)) /\ (~StartsSlice(h, p) => Within(m, p, per))
  <2>1. p \in Nat /\ p < N /\ Due(m, p, per)
    BY <1>3, <1>6, <1>7, <1>8
  <2> QED BY <1>8, <1>10, <2>1, NextSlice
<1>12. enc' = StartState(h, p, S[p])
  BY <1>1, <1>3 DEF AtSliceStart, StartState
<1>13. /\ search'.d \in CodingBits /\ (search'.d.vertical => enc'[PrecinctColumn(h, p)].valid)
       /\ search'.pc = ExtractPrecinct(h, p, bands)
  <2>1. PICK d, pc, best : /\ d = [vertical |-> config.vertical /\ enc'[Column(h)].valid, significance |-> config.significance]
                           /\ pc = ExtractPrecinct(h, p, bands)
                           /\ search' = [d |-> d, pc |-> pc, best |-> best, lo |-> 0, hi |-> 31,
                                         rlo |-> 0, rhi |-> 2 * NumBands(h) - 1]
    BY DEF BeginPrecinct
  <2>2. PICK v \in BOOLEAN : v = (config.vertical /\ enc'[Column(h)].valid)
    OBVIOUS
  <2>3. d = [vertical |-> v, significance |-> config.significance]
    BY <2>1, <2>2
  <2>4. d \in CodingBits /\ d.vertical = v
    BY <1>5, <2>3 DEF CodingBits
  <2>5. search'.d = d /\ search'.pc = pc
    BY <2>1
  <2>6. v => enc'[PrecinctColumn(h, p)].valid
    BY <2>2 DEF Column
  <2> QED BY <2>1, <2>4, <2>5, <2>6
<1>14. \E v \in {m, m + 1} : CodedSoFar(h, bands, stream', v, n, w, S) /\ Within(v, p, per)
  <2>1. CASE StartsSlice(h, p)
    <3>1. stream' = Append(stream, [marker |-> "SLH", ysl |-> Len(stream), precincts |-> <<>>])
      BY <2>1 DEF BeginPrecinct
    <3>2. Within(m + 1, p, per)
      BY <1>11, <2>1
    <3>3. m * PerSlice(h) <= n
      <4>1. ((m + 1) - 1) * per <= p /\ (m + 1) - 1 = m
        BY <1>8, <3>2 DEF Within
      <4> QED BY <1>3, <1>7, <4>1
    <3>4. CodedSoFar(h, bands, stream', m + 1, n, w, S)
      BY <1>2, <1>5, <3>1, <3>3, CodedSlice
    <3> QED BY <3>2, <3>4
  <2>2. CASE ~StartsSlice(h, p)
    BY <1>2, <1>11, <2>2 DEF BeginPrecinct
  <2> QED BY <2>1, <2>2
<1>15. PICK v : CodedSoFar(h, bands, stream', v, n, w, S) /\ Within(v, p, per)
  BY <1>14
<1>16. CodedSoFar(h, bands, stream, v, n, w, S)'
  BY <1>1, <1>4, <1>15
<1>17. (Writing(v, n, S) /\ Reading(w, S))'
  BY <1>1, <1>3, <1>4, <1>7, <1>12, <1>13, <1>15 DEF Writing, Reading, Column
<1> QED BY <1>16, <1>17

LEMMA FollowTry ==
    ASSUME FollowInv, RateInv, TryQ \/ TryR, CoefficientsNarrow, ~job.foreign, phase' \in Active
    PROVE  \E m, n, w, S : (CodedSoFar(h, bands, stream, m, n, w, S) /\ Writing(m, n, S) /\ Reading(w, S))'
<1>1. /\ phase \in {"Q", "R"} /\ phase' \in {"Q", "R", "emit"}
      /\ UNCHANGED <<job, bands, p, enc, stream, codestream, parsed, dec, decoded, picture>>
  BY DEF TryQ, TryR, Active
<1>2. PICK m, n, w, S : CodedSoFar(h, bands, stream, m, n, w, S) /\ Writing(m, n, S)
  BY <1>1 DEF FollowInv, Active
<1>3. search'.d = search.d /\ search'.pc = search.pc
  <2>1. IsSearch(search)
    BY <1>1 DEF RateInv, Measured
  <2>2. PICK candidate : search' \in {ProbeQ(candidate), ProbeR(candidate)}
    BY DEF TryQ, TryR
  <2> QED BY <2>1, <2>2 DEF IsSearch, ProbeQ, ProbeR
<1>4. h' = h /\ NumPrecincts(h)' = NumPrecincts(h) /\ PerSlice(h)' = PerSlice(h)
  BY <1>1, JobStays
<1>5. CodedSoFar(h, bands, stream, m, n, w, S)'
  BY <1>1, <1>2, <1>4
<1>6. (Writing(m, n, S) /\ Reading(w, S))'
  <2>1. /\ n = p /\ p < NumPrecincts(h) /\ Within(m, p, PerSlice(h)) /\ enc = StartState(h, p, S[p])
        /\ search.d \in CodingBits /\ (search.d.vertical => enc[Column(h)].valid)
        /\ search.pc = ExtractPrecinct(h, p, bands)
    BY <1>1, <1>2 DEF Writing
  <2> QED BY <1>1, <1>3, <1>4, <2>1 DEF Writing, Reading, Column
<1> QED BY <1>5, <1>6

(* The precinct Emit writes is the one the search has measured, and the    *)
(* predictor state it leaves is that of its second coding.                 *)
LEMMA EmitCodes ==
    ASSUME WriterInv, Emit
    PROVE  \E e, lprc :
              /\ e = EncodePrecinct(h, p, search.best.q, search.best.r, search.d, search.pc, enc[Column(h)])
              /\ e.fits /\ e.bytes <= lprc /\ search.best.q \in 0 .. 31
              /\ enc' = [enc EXCEPT ![Column(h)] = e.state]
              /\ stream' = [stream EXCEPT ![Len(stream)].precincts = Append(@, InStream(e, lprc))]
              /\ p' = (IF p = NumPrecincts(h) - 1 THEN 0 ELSE p + 1)
              /\ phase' = (IF p = NumPrecincts(h) - 1 THEN "write" ELSE "precinct")
<1> DEFINE best == search.best
<1> DEFINE lprc == IF config.lossless THEN best.bytes ELSE BodyBudget
<1>1. phase = "emit"
  BY DEF Emit
<1>2. best = Try(best.q, best.r) /\ best.q \in 0 .. 31 /\ best.fits
  BY <1>1 DEF WriterInv, RateInv, Measured
<1>3. best.bytes <= lprc
  BY <1>1, WrittenBy DEF WriterInv
<1>4. PICK e : /\ e = Try(best.q, best.r)
               /\ ~(e.bytes > (IF config.lossless THEN e.bytes ELSE BodyBudget)) =>
                     /\ phase' = (IF p = NumPrecincts(h) - 1 THEN "write" ELSE "precinct")
                     /\ p' = (IF p = NumPrecincts(h) - 1 THEN 0 ELSE p + 1)
                     /\ enc' = [enc EXCEPT ![Column(h)] = e.state]
                     /\ stream' = [stream EXCEPT ![Len(stream)].precincts =
                           Append(@, [q |-> e.q, r |-> e.r, d |-> e.d, packets |-> e.packets,
                                      lprc |-> IF config.lossless THEN e.bytes ELSE BodyBudget])]
  BY DEF Emit
<1>5. e = best
  BY <1>2, <1>4
<1>6. best.bytes \in Int /\ lprc \in Int
  <2>1. best.bytes \in 1 .. 2 ^ 20 - 1
    BY <1>2, TriedPair DEF Try
  <2>2. ~config.lossless => ConstantRate
    BY <1>1 DEF WriterInv, RateInv, Coding, ConstantRate
  <2>3. ~config.lossless => BodyBudget \in 1 .. 2 ^ 20 - 1
    BY <1>1, <2>2 DEF WriterInv, Budgeted
  <2> QED BY <2>1, <2>3
<1>7. ~(best.bytes > lprc)
  BY <1>3, <1>6
<1>8. e = EncodePrecinct(h, p, best.q, best.r, search.d, search.pc, enc[Column(h)])
  BY <1>4 DEF Try
<1>9. stream' = [stream EXCEPT ![Len(stream)].precincts = Append(@, InStream(e, lprc))]
  BY <1>4, <1>5, <1>7 DEF InStream
<1>10. /\ enc' = [enc EXCEPT ![Column(h)] = e.state]
       /\ p' = (IF p = NumPrecincts(h) - 1 THEN 0 ELSE p + 1)
       /\ phase' = (IF p = NumPrecincts(h) - 1 THEN "write" ELSE "precinct")
  BY <1>4, <1>5, <1>7
<1>11. e.fits /\ e.bytes <= lprc /\ best.q \in 0 .. 31
  BY <1>2, <1>3, <1>5
<1> HIDE DEF lprc
<1> QED BY <1>8, <1>9, <1>10, <1>11

LEMMA FollowEmit ==
    ASSUME FollowInv, WriterInv, JobReady, Emit, CoefficientsNarrow, ~job.foreign, phase' \in Active
    PROVE  \E m, n, w, S : (CodedSoFar(h, bands, stream, m, n, w, S) /\ Writing(m, n, S) /\ Reading(w, S))'
<1>1. /\ phase = "emit" /\ UNCHANGED <<job, bands, codestream, parsed, dec, decoded, picture>>
  BY DEF Emit
<1>2. PICK m, n, w, S : CodedSoFar(h, bands, stream, m, n, w, S) /\ Writing(m, n, S)
  BY <1>1 DEF FollowInv, Active
<1>3. /\ n = p /\ p < NumPrecincts(h) /\ Within(m, p, PerSlice(h)) /\ enc = StartState(h, p, S[p])
      /\ search.d \in CodingBits /\ (search.d.vertical => enc[PrecinctColumn(h, p)].valid)
      /\ search.pc = ExtractPrecinct(h, p, bands)
  BY <1>1, <1>2 DEF Writing, Column
<1>4. h' = h /\ NumPrecincts(h)' = NumPrecincts(h) /\ PerSlice(h)' = PerSlice(h)
  BY <1>1, JobStays
<1>5. Prepared(h) /\ Fitted(h)
  BY DEF JobReady, Prepared
<1>6. PICK N \in Nat \ {0} : N = NumPrecincts(h)
  BY <1>5, Numbers
<1>7. PICK per \in Nat \ {0} : per = PerSlice(h)
  BY <1>5, SlicesCover
<1>8. m \in Nat /\ n \in Nat /\ p \in 0 .. NumPrecincts(h) - 1
  BY <1>2, <1>3, <1>6 DEF CodedSoFar, Laid
<1>9. PICK e, lprc :
              /\ e = EncodePrecinct(h, p, search.best.q, search.best.r, search.d, search.pc, enc[Column(h)])
              /\ e.fits /\ e.bytes <= lprc /\ search.best.q \in 0 .. 31
              /\ enc' = [enc EXCEPT ![Column(h)] = e.state]
              /\ stream' = [stream EXCEPT ![Len(stream)].precincts = Append(@, InStream(e, lprc))]
              /\ p' = (IF p = NumPrecincts(h) - 1 THEN 0 ELSE p + 1)
              /\ phase' = (IF p = NumPrecincts(h) - 1 THEN "write" ELSE "precinct")
  BY EmitCodes
<1>10. Narrow(h, bands)
  BY <1>1 DEF CoefficientsNarrow
<1>11. Usable(h, S[p], p)
  BY <1>2, <1>3 DEF CodedSoFar
<1>12. PICK q, r, d, s : q = search.best.q /\ r = search.best.r /\ d = search.d /\ s = S[p]
  OBVIOUS
<1>13. /\ e = EncodePrecinct(h, p, q, r, d, ExtractPrecinct(h, p, bands), StartState(h, p, s)[PrecinctColumn(h, p)])
       /\ d.vertical => StartState(h, p, s)[PrecinctColumn(h, p)].valid
       /\ enc' = [StartState(h, p, s) EXCEPT ![PrecinctColumn(h, p)] = e.state]
  BY <1>3, <1>9, <1>12 DEF Column
<1>14. Sent(h, p, bands, InStream(e, lprc), s, enc') /\ Usable(h, enc', p + 1)
  <2>1. /\ q \in 0 .. 31 /\ d \in CodingBits /\ p \in 0 .. NumPrecincts(h) - 1 /\ Prepared(h) /\ Narrow(h, bands)
        /\ Usable(h, s, p) /\ e.fits /\ e.bytes <= lprc
    BY <1>3, <1>5, <1>8, <1>9, <1>10, <1>11, <1>12
  <2>2. LET after == [StartState(h, p, s) EXCEPT ![PrecinctColumn(h, p)] = e.state]
        IN  Sent(h, p, bands, InStream(e, lprc), s, after) /\ Usable(h, after, p + 1)
    BY <1>13, <2>1, CodedIsSent
  <2>3. PICK a : a = [StartState(h, p, s) EXCEPT ![PrecinctColumn(h, p)] = e.state]
    OBVIOUS
  <2>4. Sent(h, p, bands, InStream(e, lprc), s, a) /\ Usable(h, a, p + 1)
    BY <2>2, <2>3
  <2> QED BY <1>13, <2>3, <2>4
<1>15. PICK x, after : x = InStream(e, lprc) /\ after = enc'
  OBVIOUS
<1>16. Sent(h, n, bands, x, S[n], after) /\ Usable(h, after, n + 1)
  BY <1>3, <1>12, <1>14, <1>15
<1>17. n < m * PerSlice(h)
  BY <1>3 DEF Within
<1>18. PICK more, ww : more = OneMorePrecinct(S, n + 1, after) /\ ww = OneMorePrecinct(w, n, x)
  OBVIOUS
<1>19. CodedSoFar(h, bands, stream', m, n + 1, ww, more) /\ more[n + 1] = after
  <2>1. n < NumPrecincts(h) /\ CodedSoFar(h, bands, stream, m, n, w, S) /\ Prepared(h)
    BY <1>2, <1>3, <1>5
  <2>2. /\ CodedSoFar(h, bands, WithPrecinct(stream, x), m, n + 1, OneMorePrecinct(w, n, x), OneMorePrecinct(S, n + 1, after))
        /\ OneMorePrecinct(S, n + 1, after)[n + 1] = after
    BY <1>16, <1>17, <2>1, CodedPrecinct
  <2>3. stream' = WithPrecinct(stream, x)
    BY <1>9, <1>15 DEF WithPrecinct
  <2> QED BY <1>18, <2>2, <2>3
<1>20. CodedSoFar(h, bands, stream, m, n + 1, ww, more)'
  BY <1>1, <1>4, <1>19
<1>21. Due(m, p + 1, per)
  BY <1>3, <1>7, <1>8, AfterPrecinct
<1>22. (Writing(m, n + 1, more) /\ Reading(ww, more))'
  <2>1. CASE p = NumPrecincts(h) - 1
    <3>1. phase' = "write" /\ p' = 0 /\ n + 1 = NumPrecincts(h)
      BY <1>3, <1>6, <1>8, <1>9, <2>1
    <3> QED BY <1>4, <1>15, <1>19, <3>1 DEF Writing, Reading
  <2>2. CASE p # NumPrecincts(h) - 1
    <3>1. phase' = "precinct" /\ p' = p + 1
      BY <1>9, <2>2
    <3>2. p + 1 < NumPrecincts(h)
      BY <1>3, <1>6, <1>8, <2>2
    <3> QED BY <1>3, <1>4, <1>7, <1>15, <1>19, <1>21, <3>1, <3>2 DEF Writing, Reading
  <2> QED BY <2>1, <2>2
<1> QED BY <1>20, <1>22

LEMMA FollowWrite ==
    ASSUME FollowInv, Write, CoefficientsNarrow, ~job.foreign
    PROVE  \E m, n, w, S : (CodedSoFar(h, bands, stream, m, n, w, S) /\ Writing(m, n, S) /\ Reading(w, S))'
<1>1. /\ phase = "write" /\ phase' = "deliver" /\ codestream' = WriteHeaders(WrittenHeaders) \o Body
      /\ UNCHANGED <<job, bands, p, search, enc, stream, parsed, dec, decoded, picture>>
  BY DEF Write
<1>2. PICK m, n, w, S : CodedSoFar(h, bands, stream, m, n, w, S) /\ Writing(m, n, S)
  BY <1>1 DEF FollowInv, Active
<1>3. n = NumPrecincts(h) /\ enc = S[n] /\ p = 0
  BY <1>1, <1>2 DEF Writing
<1>4. h' = h /\ NumPrecincts(h)' = NumPrecincts(h) /\ Body' = Body /\ WrittenHeaders' = WrittenHeaders
  BY <1>1, JobStays
<1>5. CodedSoFar(h, bands, stream, m, n, w, S)'
  BY <1>1, <1>2, <1>4
<1>6. codestream' = WriteHeaders(WrittenHeaders') \o Body'
  BY <1>1, <1>4
<1>7. (Writing(m, n, S) /\ Reading(w, S))'
  BY <1>1, <1>3, <1>4, <1>6 DEF Writing, Reading
<1> QED BY <1>5, <1>7

(* What the decoder is given is made of pieces of what was written.        *)
LEMMA WrittenIsOk ==
    ASSUME BudgetInv, JobReady, phase = "deliver", ~job.foreign, codestream = WriteHeaders(WrittenHeaders) \o Body,
           NEW m, NEW n, NEW w, Laid(stream, PerSlice(h), m, n, w),
           NEW s \in {codestream} \cup (IF job.damaged THEN Altered(codestream) ELSE {})
    PROVE  PiecesOk(stream, s)
<1>1. Fitted(h)
  BY DEF JobReady, Prepared
<1>2. Fitted(WrittenHeaders)
  <2>1. CASE config.lossless
    <3>1. WrittenHeaders = h
      BY <2>1 DEF WrittenHeaders
    <3> QED BY <1>1, <3>1
  <2>2. CASE ~config.lossless
    <3>1. ConstantRate
      BY <2>2 DEF ConstantRate
    <3> QED BY <3>1, Delivered DEF BudgetInv, WriterInv
  <2> QED BY <2>1, <2>2
<1>3. PICK per, g : per \in Nat \ {0} /\ per = PerSlice(h) /\ g = WrittenHeaders
  BY <1>1, SlicesCover
<1>4. LET c == WriteHeaders(g) \o (stream \o <<[marker |-> "EOC"]>>)
      IN  PiecesOk(stream, c) /\ Len(c) >= 5 /\ Ends(c) # {}
  BY <1>2, <1>3, WrittenPieces
<1>5. PICK c : c = WriteHeaders(g) \o (stream \o <<[marker |-> "EOC"]>>)
  OBVIOUS
<1>6. c = codestream
  BY <1>3, <1>5 DEF Body
<1>7. PiecesOk(stream, codestream) /\ Len(codestream) >= 5 /\ Ends(codestream) # {}
  BY <1>4, <1>5, <1>6
<1>8. CASE s = codestream
  BY <1>7, <1>8
<1>9. CASE s \in Altered(codestream)
  BY <1>7, <1>9, AlteredPieces
<1> QED BY <1>8, <1>9

LEMMA FollowDeliver ==
    ASSUME FollowInv, BudgetInv, JobReady, Deliver, CoefficientsNarrow, ~job.foreign, phase' \in Active
    PROVE  \E m, n, w, S : (CodedSoFar(h, bands, stream, m, n, w, S) /\ Writing(m, n, S) /\ Reading(w, S))'
<1>1. phase = "deliver" /\ UNCHANGED <<job, bands, p, search, enc, stream, picture>>
  BY DEF Deliver
<1>2. PICK m, n, w, S : CodedSoFar(h, bands, stream, m, n, w, S) /\ Writing(m, n, S)
  BY <1>1 DEF FollowInv, Active
<1>3. n = NumPrecincts(h) /\ enc = S[n] /\ p = 0 /\ codestream = WriteHeaders(WrittenHeaders) \o Body
  BY <1>1, <1>2 DEF Writing
<1>4. h' = h /\ NumPrecincts(h)' = NumPrecincts(h) /\ PerSlice(h)' = PerSlice(h)
  BY <1>1, JobStays
<1>5. PICK s \in {codestream} \cup (IF job.damaged THEN Altered(codestream) ELSE {}) :
         LET headers == ParseHeaders(s)
         IN  IF headers = {} THEN phase' = "refused"
             ELSE \E g \in {IF job.foreign THEN read ELSE Tables(read) : read \in headers} :
                     /\ parsed' = g
                     /\ codestream' = SubSeq(s, FirstSlice(s), Len(s))
                     /\ IF job.foreign THEN phase' = "info" /\ UNCHANGED <<dec, decoded>>
                        ELSE phase' = "decode" /\ dec' = Unpredicted(g) /\ decoded' = Blank(g)
  BY DEF Deliver
<1>6. ParseHeaders(s) # {}
  BY <1>5 DEF Active
<1>7. PICK g : /\ parsed' = g /\ codestream' = SubSeq(s, FirstSlice(s), Len(s))
               /\ phase' = "decode" /\ dec' = Unpredicted(g) /\ decoded' = Blank(g)
  BY <1>5, <1>6
<1>8. Ends(s) # {}
  BY <1>6 DEF ParseHeaders
<1>9. PiecesOk(stream, s)
  <2>1. Laid(stream, PerSlice(h), m, n, w)
    BY <1>2 DEF CodedSoFar
  <2> QED BY <1>1, <1>3, <2>1, WrittenIsOk
<1>10. PiecesOk(stream, codestream')
  <2>1. FirstSlice(s) \in 1 .. Len(s) /\ Len(s) \in Nat
    BY <1>8, <1>9, FirstSliceIs
  <2>2. PICK a \in Nat \ {0}, b \in Int : a = FirstSlice(s) /\ b = Len(s) /\ b <= Len(s)
    BY <2>1
  <2>3. PiecesOk(stream, SubSeq(s, a, b))
    BY <1>9, <2>2, PiecesSub
  <2> QED BY <1>7, <2>2, <2>3
<1>11. CodedSoFar(h, bands, stream, m, n, w, S)'
  BY <1>1, <1>2, <1>4
<1>12. Writing(m, n, S)'
  BY <1>1, <1>3, <1>4, <1>7 DEF Writing
<1>13. ASSUME SameCoding(g, h)
       PROVE  /\ 0 \in 0 .. NumPrecincts(h) /\ dec' = S[0] /\ IsBuffer(h, decoded')
              /\ Followed(h, bands, w, 0, decoded')
  <2>1. Unpredicted(g) = Unpredicted(h) /\ Blank(g) = Blank(h)
    BY <1>13, SamePlaces
  <2>2. S[0] = Unpredicted(h) /\ 0 \in 0 .. NumPrecincts(h)
    <3>1. n \in 0 .. NumPrecincts(h) /\ S[0] = Unpredicted(h)
      BY <1>2 DEF CodedSoFar, Chain
    <3>2. PICK N \in Nat \ {0} : N = NumPrecincts(h)
      BY Numbers DEF JobReady, Prepared
    <3> QED BY <3>1, <3>2
  <2>3. IsBuffer(h, Blank(h))
    BY BlankIsBuffer
  <2>4. Followed(h, bands, w, 0, decoded')
    <3>1. \A k \in 0 .. 0 - 1 : FALSE
      OBVIOUS
    <3> QED BY <3>1, Zenon DEF Followed
  <2> QED BY <1>7, <2>1, <2>2, <2>3, <2>4
<1>14. Reading(w, S)'
  BY <1>1, <1>3, <1>4, <1>7, <1>10, <1>13 DEF Reading
<1> QED BY <1>11, <1>12, <1>14

(* A precinct the decoder finds readable is the one the encoder wrote, if  *)
(* it works with the headers written.                                      *)
FoundAt(i, t, k, x) ==
    /\ t = i \div (parsed.hsl * PrecinctsPerRow(parsed)) /\ k = i - SliceFirstPrecinct(parsed, t) + 1
    /\ SliceReadable(parsed, t) /\ PrecinctReadable(parsed, t, k) /\ x = codestream[t + 1].precincts[k]
LEMMA ReadIsWritten ==
    ASSUME NEW m, NEW n, NEW w, NEW i \in 0 .. n - 1, NEW t, NEW k, NEW x,
           SameCoding(parsed, h), Fitted(h), PiecesOk(stream, codestream),
           Laid(stream, PerSlice(h), m, n, w), FoundAt(i, t, k, x)
    PROVE  x = w[i]
<1>0. /\ t = i \div (parsed.hsl * PrecinctsPerRow(parsed)) /\ k = i - SliceFirstPrecinct(parsed, t) + 1
      /\ SliceReadable(parsed, t) /\ PrecinctReadable(parsed, t, k) /\ x = codestream[t + 1].precincts[k]
  BY DEF FoundAt
<1>1. PICK per \in Nat \ {0} : per = PerSlice(h)
  BY SlicesCover
<1>2. PICK hsl \in Nat, row \in Nat : hsl = h.hsl /\ row = PrecinctsPerRow(h)
  BY Numbers DEF Fitted, FittedLayout
<1>3. per = hsl * row
  BY <1>1, <1>2 DEF PerSlice
<1>4. PrecinctsPerRow(parsed) = row /\ parsed.hsl = hsl
  BY <1>2, SamePlaces
<1>5. t = i \div per
  BY <1>0, <1>3, <1>4
<1>6. SliceFirstPrecinct(parsed, t) = t * hsl * row
  BY <1>4 DEF SliceFirstPrecinct
<1>7. i \in Nat /\ t \in Int
  BY <1>5 DEF Laid
<1>8. t * hsl * row = t * per
  BY <1>2, <1>3, <1>7
<1>9. k = i - (i \div per) * per + 1
  BY <1>0, <1>5, <1>6, <1>8
<1>10. Laid(stream, per, m, n, w)
  BY <1>1
<1>11. /\ i \div per + 1 \in 1 .. m /\ i - (i \div per) * per + 1 \in 1 .. SlotsIn(per, n, i \div per + 1)
       /\ DOMAIN stream = 1 .. m
       /\ stream[i \div per + 1].precincts[i - (i \div per) * per + 1] = w[i]
  <2>1. LET t_ == i \div per + 1
            j == i - (i \div per) * per + 1
        IN  /\ t_ \in 1 .. m /\ j \in 1 .. SlotsIn(per, n, t_)
            /\ DOMAIN stream = 1 .. m /\ DOMAIN stream[t_].precincts = 1 .. SlotsIn(per, n, t_)
            /\ stream[t_].precincts[j] = w[i]
    BY <1>10, PlaceOf
  <2> QED BY <2>1
<1>12. stream[t + 1].precincts[k] = w[i]
  BY <1>5, <1>9, <1>11
<1>13. t + 1 \in DOMAIN codestream /\ codestream[t + 1].marker = "SLH" /\ codestream[t + 1].ysl = t
  BY <1>0 DEF SliceReadable
<1>14. k \in DOMAIN codestream[t + 1].precincts
  BY <1>0 DEF PrecinctReadable
<1>15. \A j \in DOMAIN codestream[t + 1].precincts :
          codestream[t + 1].precincts[j] = stream[codestream[t + 1].ysl + 1].precincts[j]
  <2>1. PICK at : at = t + 1
    OBVIOUS
  <2>2. \A j \in DOMAIN codestream[at].precincts : codestream[at].precincts[j] = stream[codestream[at].ysl + 1].precincts[j]
    BY <1>13, <2>1, PieceRead
  <2> QED BY <2>1, <2>2
<1>16. codestream[t + 1].precincts[k] = stream[t + 1].precincts[k]
  BY <1>13, <1>14, <1>15
<1> QED BY <1>0, <1>12, <1>16

LEMMA FollowRead ==
    ASSUME FollowInv, JobReady, Read, CoefficientsNarrow, ~job.foreign
    PROVE  /\ phase' \in Active =>
                 \E m, n, w, S : (CodedSoFar(h, bands, stream, m, n, w, S) /\ Writing(m, n, S) /\ Reading(w, S))'
           /\ phase' = "lost" => ~SameCoding(parsed, h)'
<1>1. /\ phase = "decode" /\ p < NumPrecincts(parsed) /\ phase' \in {"refused", "decode", "lost"}
      /\ UNCHANGED <<job, bands, search, enc, stream, codestream, parsed, picture>>
  BY DEF Read
<1>2. PICK m, n, w, S : CodedSoFar(h, bands, stream, m, n, w, S) /\ Writing(m, n, S) /\ Reading(w, S)
  BY <1>1 DEF FollowInv, Active
<1>3. n = NumPrecincts(h) /\ enc = S[n]
  BY <1>1, <1>2 DEF Writing
<1>4. h' = h /\ NumPrecincts(h)' = NumPrecincts(h) /\ PerSlice(h)' = PerSlice(h)
  BY <1>1, JobStays
<1>5. Prepared(h) /\ Fitted(h)
  BY DEF JobReady, Prepared
<1>6. PICK N \in Nat \ {0} : N = NumPrecincts(h)
  BY <1>5, Numbers
<1>7. ASSUME SameCoding(parsed, h), phase' # "refused"
      PROVE  /\ phase' = "decode" /\ p' \in 0 .. NumPrecincts(h) /\ dec' = S[p'] /\ IsBuffer(h, decoded')
             /\ Followed(h, bands, w, p', decoded')
  <2>1. /\ p \in 0 .. NumPrecincts(h) /\ dec = S[p] /\ IsBuffer(h, decoded)
        /\ Followed(h, bands, w, p, decoded) /\ PiecesOk(stream, codestream)
    BY <1>1, <1>2, <1>7 DEF Reading
  <2>2. p \in 0 .. n - 1 /\ p \in 0 .. NumPrecincts(h) - 1 /\ p + 1 \in 0 .. NumPrecincts(h)
    <3>1. NumPrecincts(parsed) = NumPrecincts(h)
      BY <1>7, SamePlaces
    <3> QED BY <1>1, <1>3, <1>6, <2>1, <3>1
  <2>3. PICK t, k, x, result :
           /\ t = p \div (parsed.hsl * PrecinctsPerRow(parsed)) /\ k = p - SliceFirstPrecinct(parsed, t) + 1
           /\ SliceReadable(parsed, t) /\ PrecinctReadable(parsed, t, k)
           /\ x = codestream[t + 1].precincts[k]
           /\ result = DecodePrecinct(parsed, p, x, AtSliceStart(parsed, dec)[Column(parsed)])
           /\ dec' = [AtSliceStart(parsed, dec) EXCEPT ![Column(parsed)] = result.state]
           /\ decoded' = PlacePrecinct(parsed, p, result.out, decoded)
           /\ phase' = (IF result.fits THEN "decode" ELSE "lost") /\ p' = p + 1
    BY <1>7 DEF Read, SliceOf
  <2>4. Laid(stream, PerSlice(h), m, n, w) /\ Chain(h, bands, w, S, n)
    BY <1>2 DEF CodedSoFar
  <2>5. x = w[p]
    <3>1. /\ SameCoding(parsed, h) /\ Fitted(h) /\ PiecesOk(stream, codestream)
          /\ Laid(stream, PerSlice(h), m, n, w) /\ p \in 0 .. n - 1
          /\ FoundAt(p, t, k, x)
      BY <1>5, <1>7, <2>1, <2>2, <2>3, <2>4 DEF FoundAt
    <3> QED BY <3>1, ReadIsWritten
  <2>6. AtSliceStart(parsed, dec) = StartState(h, p, S[p]) /\ Column(parsed) = PrecinctColumn(h, p)
    <3>1. /\ Unpredicted(parsed) = Unpredicted(h) /\ (StartsSlice(parsed, p) <=> StartsSlice(h, p))
          /\ PrecinctColumn(parsed, p) = PrecinctColumn(h, p)
      BY <1>7, SamePlaces
    <3> QED BY <2>1, <3>1 DEF AtSliceStart, StartState, Column
  <2>7. PICK start, read : start = StartState(h, p, S[p]) /\ read = DecodePrecinct(h, p, w[p], start[PrecinctColumn(h, p)])
    OBVIOUS
  <2>8. result = read
    <3>1. PICK state : state = start[PrecinctColumn(h, p)]
      OBVIOUS
    <3>2. DecodePrecinct(parsed, p, w[p], state) = DecodePrecinct(h, p, w[p], state)
      BY <1>7, SameEntropy
    <3> QED BY <2>3, <2>5, <2>6, <2>7, <3>1, <3>2
  <2>9. /\ read.fits /\ S[p + 1] = [start EXCEPT ![PrecinctColumn(h, p)] = read.state]
        /\ Close(h, p, bands, w[p], read.out)
    <3>1. Sent(h, p, bands, w[p], S[p], S[p + 1])
      BY <2>2, <2>4 DEF Chain
    <3> QED BY <2>7, <3>1 DEF Sent
  <2>10. phase' = "decode" /\ p' = p + 1 /\ dec' = S[p + 1]
    BY <2>3, <2>6, <2>7, <2>8, <2>9
  <2>11. decoded' = PlacePrecinct(h, p, read.out, decoded)
    BY <1>7, <2>3, <2>8, SamePlaces
  <2>12. PICK out : out = read.out
    OBVIOUS
  <2>13. IsBuffer(h, PlacePrecinct(h, p, out, decoded))
    BY <2>1, PlacedIsBuffer
  <2>14. Followed(h, bands, w, p + 1, PlacePrecinct(h, p, out, decoded))
    BY <1>5, <2>1, <2>2, <2>9, <2>12, PlacedFollows
  <2> QED BY <2>2, <2>10, <2>11, <2>12, <2>13, <2>14
<1>8. SameCoding(parsed, h)' <=> SameCoding(parsed, h)
  BY <1>1, <1>4
<1>9. phase' = "lost" => ~SameCoding(parsed, h)'
  BY <1>7, <1>8
<1>10. ASSUME phase' \in Active
       PROVE  \E mm, nn, ww, SS : (CodedSoFar(h, bands, stream, mm, nn, ww, SS) /\ Writing(mm, nn, SS) /\ Reading(ww, SS))'
  <2>1. phase' = "decode"
    BY <1>1, <1>10 DEF Active
  <2>2. CodedSoFar(h, bands, stream, m, n, w, S)'
    BY <1>1, <1>2, <1>4
  <2>3. Writing(m, n, S)'
    BY <1>1, <1>3, <1>4, <2>1 DEF Writing
  <2>4. SameCoding(parsed, h) => PiecesOk(stream, codestream)
    BY <1>1, <1>2 DEF Reading
  <2>5. Reading(w, S)'
    BY <1>1, <1>4, <1>7, <1>8, <2>1, <2>4 DEF Reading
  <2> QED BY <2>2, <2>3, <2>5
<1> QED BY <1>9, <1>10

LEMMA ReadyStep ==
    ASSUME JobReady, [Next]_vars
    PROVE  JobReady'
<1>1. UNCHANGED job
  BY DEF Next, vars, Transform, BeginPrecinct, TryQ, TryR, Emit, Write, Deliver, Read, Reconstruct
<1>2. h' = h /\ config' = config
  BY <1>1, JobStays
<1> QED BY <1>1, <1>2 DEF JobReady

(* The headers the decoder works with are there as long as it decodes.     *)
HeadersThere == phase \in {"decode", "lost"} => ~job.foreign /\ parsed # None
LEMMA TablesAreThere ==
    ASSUME NEW g
    PROVE  Tables(g) # None
<1> DEFINE k == g ++ [bands |-> [b \in Bands(g) |-> Band(g, b)]]
           cfa == IF g.cpih = 3 THEN StarTetrix(g) ELSE None
<1>1. Tables(g) = Geometry(g) ++ cfa
  BY Zenon DEF Tables
<1>2. \E a, b, c : Geometry(g) = k ++ [packets |-> a, widths |-> b, lines |-> c]
  BY Zenon DEF Geometry
<1> HIDE DEF k, cfa
<1>3. PICK w : Geometry(g) = k ++ w /\ DOMAIN w = {"packets", "widths", "lines"}
  BY <1>2
<1>4. DOMAIN Geometry(g) = DOMAIN k \cup DOMAIN w
  BY <1>3 DEF ++
<1>5. DOMAIN Tables(g) = DOMAIN Geometry(g) \cup DOMAIN cfa
  BY <1>1 DEF ++
<1>6. "packets" \in DOMAIN Tables(g)
  BY <1>3, <1>4, <1>5
<1>7. DOMAIN None = {}
  BY DEF None
<1> QED BY <1>6, <1>7

LEMMA ThereStep ==
    ASSUME HeadersThere, [Next]_vars
    PROVE  HeadersThere'
<1>1. CASE Deliver
  <2>1. ASSUME phase' \in {"decode", "lost"} PROVE ~job'.foreign /\ \E g : parsed' = Tables(g)
    BY <1>1, <2>1 DEF Deliver
  <2> QED BY <2>1, TablesAreThere DEF HeadersThere, None
<1>2. CASE Transform \/ BeginPrecinct \/ TryQ \/ TryR \/ Emit \/ Write
  BY <1>2 DEF HeadersThere, Transform, BeginPrecinct, TryQ, TryR, Emit, Write
<1>3. CASE Read
  BY <1>3 DEF HeadersThere, Read, None
<1>4. CASE Reconstruct
  BY <1>4 DEF HeadersThere, Reconstruct
<1>5. CASE UNCHANGED vars
  BY <1>5 DEF HeadersThere, vars, None
<1> QED BY <1>1, <1>2, <1>3, <1>4, <1>5 DEF Next

LEMMA NarrowBefore ==
    ASSUME UNCHANGED <<job, bands>>, phase' # "transform", CoefficientsNarrow', ~job.foreign
    PROVE  CoefficientsNarrow
<1>1. h' = h
  BY JobStays
<1> QED BY <1>1 DEF CoefficientsNarrow

LEMMA FollowStep ==
    ASSUME FollowInv, BudgetInv, JobReady, [Next]_vars
    PROVE  FollowInv'
<1> SUFFICES ASSUME ~job.foreign, CoefficientsNarrow'
             PROVE  /\ phase' \in Active =>
                          \E m, n, w, S : (CodedSoFar(h, bands, stream, m, n, w, S) /\ Writing(m, n, S) /\ Reading(w, S))'
                    /\ phase' = "lost" => ~SameCoding(parsed, h)'
  <2>1. UNCHANGED job
    BY DEF Next, vars, Transform, BeginPrecinct, TryQ, TryR, Emit, Write, Deliver, Read, Reconstruct
  <2> QED BY <2>1 DEF FollowInv, Active
<1>1. CASE Transform
  <2>1. phase' # "lost"
    BY <1>1 DEF Transform
  <2> QED BY <1>1, <2>1, FollowTransform
<1>2. CASE BeginPrecinct
  <2>1. phase' \notin {"lost", "transform"} /\ UNCHANGED <<job, bands>>
    BY <1>2 DEF BeginPrecinct
  <2> QED BY <1>2, <2>1, NarrowBefore, FollowBegin
<1>3. CASE TryQ \/ TryR
  <2>1. phase' \notin {"lost", "transform"} /\ UNCHANGED <<job, bands>>
    BY <1>3 DEF TryQ, TryR
  <2> QED BY <1>3, <2>1, NarrowBefore, FollowTry DEF BudgetInv, WriterInv
<1>4. CASE Emit
  <2>1. phase' \notin {"lost", "transform"} /\ UNCHANGED <<job, bands>>
    BY <1>4 DEF Emit
  <2> QED BY <1>4, <2>1, NarrowBefore, FollowEmit DEF BudgetInv
<1>5. CASE Write
  <2>1. phase' \notin {"lost", "transform"} /\ UNCHANGED <<job, bands>>
    BY <1>5 DEF Write
  <2> QED BY <1>5, <2>1, NarrowBefore, FollowWrite
<1>6. CASE Deliver
  <2>1. phase' \notin {"lost", "transform"} /\ UNCHANGED <<job, bands>>
    BY <1>6 DEF Deliver
  <2> QED BY <1>6, <2>1, NarrowBefore, FollowDeliver
<1>7. CASE Read
  <2>1. phase' # "transform" /\ UNCHANGED <<job, bands>>
    BY <1>7 DEF Read
  <2> QED BY <1>7, <2>1, NarrowBefore, FollowRead
<1>8. CASE Reconstruct
  <2>1. phase' \in {"refused", "done"}
    BY <1>8 DEF Reconstruct
  <2> QED BY <2>1 DEF Active
<1>9. CASE UNCHANGED vars
  <2>1. UNCHANGED <<job, phase, bands, p, search, enc, stream, codestream, parsed, dec, decoded, picture>>
    BY <1>9 DEF vars
  <2>2. /\ h' = h /\ NumPrecincts(h)' = NumPrecincts(h) /\ PerSlice(h)' = PerSlice(h)
        /\ Body' = Body /\ WrittenHeaders' = WrittenHeaders
    BY <2>1, JobStays
  <2>3. CoefficientsNarrow
    BY <2>1, <2>2 DEF CoefficientsNarrow
  <2>4. SameCoding(parsed, h)' <=> SameCoding(parsed, h)
    BY <2>1, <2>2
  <2>5. ASSUME NEW m, NEW n, NEW w, NEW S, CodedSoFar(h, bands, stream, m, n, w, S), Writing(m, n, S), Reading(w, S)
        PROVE  (CodedSoFar(h, bands, stream, m, n, w, S) /\ Writing(m, n, S) /\ Reading(w, S))'
    <3>1. CodedSoFar(h, bands, stream, m, n, w, S)'
      BY <2>1, <2>2, <2>5
    <3>2. Writing(m, n, S)'
      BY <2>1, <2>2, <2>5 DEF Writing, Column
    <3>3. Reading(w, S)'
      BY <2>1, <2>2, <2>4, <2>5 DEF Reading
    <3> QED BY <3>1, <3>2, <3>3
  <2> QED BY <2>1, <2>3, <2>4, <2>5 DEF FollowInv
<1> QED BY <1>1, <1>2, <1>3, <1>4, <1>5, <1>6, <1>7, <1>8, <1>9 DEF Next

(* Encoder and decoder, step by step of Encode and of Decode: the decoder  *)
(* stands where the chain of the precincts coded so far says it should.    *)
SyncInv == BudgetInv /\ JobReady /\ HeadersThere /\ FollowInv
THEOREM InStep == Spec => []SyncInv
<1>1. Init => JobReady /\ HeadersThere /\ FollowInv
  <2>1. Init => HeadersThere
    BY DEF Init, HeadersThere
  <2> QED BY <2>1, ReadyInit, FollowInit
<1>2. BudgetInv /\ JobReady /\ HeadersThere /\ FollowInv /\ [Next]_vars => (JobReady /\ HeadersThere /\ FollowInv)'
  BY ReadyStep, ThereStep, FollowStep
<1> QED BY <1>1, <1>2, BudgetSound, PTL DEF Spec, SyncInv

LEMMA WithinOneStep ==
    ASSUME NEW k, NEW w, Prepared(h), Narrow(h, bands), k - 1 \in 0 .. NumPrecincts(h) - 1, Precincts[k] = w[k - 1], w[k - 1].q \in 0 .. 31,
           ClosePlaced(h, k - 1, bands, w[k - 1], decoded)
    PROVE  WithinStep(k)
<1> DEFINE sent == ExtractPrecinct(h, k - 1, bands)
           read == ExtractPrecinct(h, k - 1, decoded)
<1>1. PICK i \in 0 .. NumPrecincts(h) - 1 : i = k - 1
  OBVIOUS
<1>2. SUFFICES ASSUME NEW b \in Bands(h), NEW y \in DOMAIN sent[b], NEW x \in DOMAIN sent[b][y]
               PROVE  sent[b][y][x] - read[b][y][x] < Step(b, k) /\ -(sent[b][y][x] - read[b][y][x]) < Step(b, k)
  BY DEF WithinStep
<1>3. DOMAIN sent[b] = 0 .. Lines(h, i, b) - 1
  BY <1>1 DEF ExtractPrecinct
<1>4. y \in 0 .. Lines(h, i, b) - 1
  BY <1>3
<1>5. DOMAIN sent[b][y] = 0 .. h.widths[i][b] - 1
  BY <1>1, <1>4 DEF ExtractPrecinct
<1>6. x \in 0 .. h.widths[i][b] - 1
  BY <1>5
<1>7. PICK c, r : /\ c = bands[b][BandY(h, i, b, y)][BandX(h, i, b, x)]
                  /\ r = decoded[b][BandY(h, i, b, y)][BandX(h, i, b, x)]
  OBVIOUS
<1>8. /\ sent[b][y][x] = (IF InPicture(h, i, b, y, x) THEN c ELSE 0)
      /\ read[b][y][x] = (IF InPicture(h, i, b, y, x) THEN r ELSE 0)
  BY <1>1, <1>4, <1>6, <1>7, ExtractedSample
<1>9. PICK t : t = ComputeTruncation(h, b, w[k - 1].q, w[k - 1].r)
  OBVIOUS
<1>10. Step(b, k) = 2 ^ t
  BY <1>9 DEF Step
<1>11. t \in 0 .. 31
  <2>1. PICK q \in 0 .. 31 : q = w[k - 1].q
    OBVIOUS
  <2>2. PICK ref : ref = w[k - 1].r
    OBVIOUS
  <2>3. Codable(h) /\ h.weights[b].gain \in Nat
    BY DEF Prepared
  <2>4. MaxCount(h) \in 0 .. 31
    BY <2>3, CountBounds
  <2>5. ComputeTruncation(h, b, q, ref) \in 0 .. MaxCount(h)
    BY <2>3, TruncationsFit
  <2> QED BY <1>9, <2>1, <2>2, <2>4, <2>5
<1>12. PICK pow \in Nat \ {0} : pow = 2 ^ t
  BY <1>11, PowersGrow
<1> HIDE DEF sent, read
<1>13. CASE InPicture(h, i, b, y, x)
  <2>1. NearTo(c, r, t)
    BY <1>1, <1>4, <1>6, <1>7, <1>9, <1>13 DEF ClosePlaced
  <2>2. r \in Int /\ c - r < pow /\ r - c < pow
    BY <1>12, <2>1 DEF NearTo
  <2>3. c \in Int
    <3>1. BandY(h, i, b, y) \in Nat /\ BandX(h, i, b, x) \in Nat
      BY <1>4, <1>6, PositionsAreNat
    <3>2. PICK by \in Nat, bx \in Nat : by = BandY(h, i, b, y) /\ bx = BandX(h, i, b, x)
      BY <3>1
    <3>3. PICK wide \in Nat, high \in Nat : wide = h.bands[b].width /\ high = h.bands[b].height
      BY EveryBand DEF BandFits
    <3>4. by \in 0 .. h.bands[b].height - 1 /\ bx \in 0 .. h.bands[b].width - 1
      BY <1>13, <3>2, <3>3 DEF InPicture
    <3> QED BY <1>7, <3>2, <3>4 DEF Narrow, Coefficient
  <2>4. c - r < pow /\ -(c - r) < pow
    BY <2>2, <2>3
  <2> QED BY <1>8, <1>10, <1>12, <1>13, <2>4
<1>14. CASE ~InPicture(h, i, b, y, x)
  <2>1. sent[b][y][x] = 0 /\ read[b][y][x] = 0
    BY <1>8, <1>14
  <2>2. 0 - 0 < pow /\ -(0 - 0) < pow
    OBVIOUS
  <2> QED BY <1>10, <1>12, <2>1, <2>2
<1> QED BY <1>13, <1>14

(* Synchronisation, whatever is encoded with whatever rate, and whatever   *)
(* becomes of the codestream, as long as the decoder works with the        *)
(* headers that were written and the transform keeps the coefficients      *)
(* within the bitplanes the coder has: no subpacket is longer or shorter   *)
(* than its header says, the predictor states agree at the end, and every  *)
(* coefficient is read within a quantisation step (encoder.cc, decoder.cc, *)
(* entropy.cc).  What is left out is the encoder that throws because a     *)
(* packet is longer than its header can say.                               *)
THEOREM DecoderNeverDrifts == Spec => [](CoefficientsNarrow /\ HeadersRead /\ phase # "threw" => DecoderFollows)
<1>1. ASSUME SyncInv, CoefficientsNarrow, HeadersRead, phase # "threw" PROVE DecoderFollows
  <2>1. phase \in {"decode", "lost"} => ~job.foreign /\ SameCoding(parsed, h)
    BY <1>1, HeadersCode DEF SyncInv, HeadersThere
  <2>2. phase # "lost"
    BY <1>1, <2>1 DEF SyncInv, FollowInv
  <2>3. ASSUME phase = "decode", p = NumPrecincts(h) PROVE dec = enc /\ \A k \in DOMAIN Precincts : WithinStep(k)
    <3>1. ~job.foreign /\ SameCoding(parsed, h) /\ Prepared(h) /\ Fitted(h)
      BY <1>1, <2>1, <2>3 DEF SyncInv, JobReady, Prepared
    <3>2. PICK m, n, w, S : CodedSoFar(h, bands, stream, m, n, w, S) /\ Writing(m, n, S) /\ Reading(w, S)
      BY <1>1, <2>3, <3>1 DEF SyncInv, FollowInv, Active
    <3>3. PICK N \in Nat \ {0} : N = NumPrecincts(h)
      BY <3>1, Numbers
    <3>4. PICK per \in Nat \ {0} : per = PerSlice(h)
      BY <3>1, SlicesCover
    <3>5. n = N /\ enc = S[n] /\ dec = S[p] /\ p = N /\ Followed(h, bands, w, p, decoded)
      BY <2>3, <3>1, <3>2, <3>3 DEF Writing, Reading
    <3>6. Laid(stream, per, m, n, w) /\ m # 0
      <4>1. Laid(stream, per, m, n, w)
        BY <3>2, <3>4 DEF CodedSoFar
      <4>2. m \in Nat /\ n <= m * per
        BY <4>1 DEF Laid
      <4> QED BY <3>3, <3>4, <3>5, <4>1, <4>2
    <3>7. DOMAIN Precincts = 1 .. n /\ \A k \in 1 .. n : Precincts[k] = w[k - 1]
      BY <3>6, LaidPlaces DEF Precincts
    <3>8. ASSUME NEW k \in DOMAIN Precincts PROVE WithinStep(k)
      <4>1. k \in 1 .. N /\ k - 1 \in 0 .. NumPrecincts(h) - 1 /\ k - 1 \in 0 .. n - 1 /\ k - 1 \in 0 .. p - 1
        BY <3>3, <3>5, <3>7
      <4>2. Precincts[k] = w[k - 1]
        BY <3>5, <3>7, <4>1
      <4>3. ClosePlaced(h, k - 1, bands, w[k - 1], decoded)
        BY <3>5, <4>1 DEF Followed
      <4>4. w[k - 1].q \in 0 .. 31
        <5>1. \A i \in 0 .. n - 1 : Sent(h, i, bands, w[i], S[i], S[i + 1])
          BY <3>2 DEF CodedSoFar, Chain
        <5>2. PICK i \in 0 .. n - 1 : i = k - 1
          BY <4>1
        <5>3. w[i].q \in 0 .. 31
          BY <5>1 DEF Sent
        <5> QED BY <5>2, <5>3
      <4>5. Narrow(h, bands)
        BY <1>1, <2>3, <3>1 DEF CoefficientsNarrow
      <4> QED BY <3>1, <4>1, <4>2, <4>3, <4>4, <4>5, WithinOneStep
    <3> QED BY <3>5, <3>8
  <2> QED BY <1>1, <2>2, <2>3 DEF DecoderFollows
<1>2. SyncInv => (CoefficientsNarrow /\ HeadersRead /\ phase # "threw" => DecoderFollows)
  BY <1>1
<1> QED BY <1>2, InStep, PTL
=============================================================================
