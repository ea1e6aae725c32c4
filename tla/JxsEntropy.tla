----------------------------- MODULE JxsEntropy -----------------------------
(***************************************************************************)
(* The entropy layer of the JPEG XS codec (compression/jxs/entropy.cc):    *)
(* coefficients of one precinct -> packets, and back.  A subpacket is the  *)
(* sequence of the fields written to it, each counted with the bits it     *)
(* takes: a significance flag, a variable-length codeword (given by its    *)
(* number of 1 bits), a raw count, the magnitudes and signs of a code      *)
(* group.  What the encoder leaves out is left out of the sequence, so the *)
(* decoder finds a field only by repeating the encoder's decisions.        *)
(***************************************************************************)
EXTENDS JxsGeometry

Magnitude(c) == IF c < 0 THEN -c ELSE c
BytesFor(bits) == (bits + 7) \div 8
MaxCount(h) == 2 ^ h.br - 1
Total(seq) == LET terms == Once(seq)
                  sum[k \in Nat] == IF k = 0 THEN 0 ELSE sum[k - 1] + terms[k]
              IN  sum[Len(terms)]

(* Truncation position of a band (Table C.12).                             *)
ComputeTruncation(h, b, q, r) ==
    LET refine == IF h.weights[b].priority < r THEN 1 ELSE 0
    IN  Clamp(q - h.weights[b].gain - refine, 0, MaxCount(h))
Truncations(h, q, r) == [b \in Bands(h) |-> ComputeTruncation(h, b, q, r)]

(* The variable-length code of a residual x in the context of predictor r  *)
(* and truncation t (C.7): the number of 1 bits before the comma bit.  It  *)
(* represents residuals from -Theta on; more ones than the limit mean that *)
(* the decoder lost synchronisation.                                       *)
Theta(r, t) == Larger(r - t, 0)
VlcEncode(x, r, t) == IF x > Theta(r, t) THEN x + Theta(r, t)
                      ELSE IF x < 0 THEN -2 * x - 1 ELSE 2 * x
VlcDecode(n, r, t) == IF n > 2 * Theta(r, t) THEN n - Theta(r, t)
                      ELSE IF n % 2 = 1 THEN -((n + 1) \div 2) ELSE n \div 2
VlcLimit(h) == 2 ^ (h.br + 1)

(* Quantisation (Annex D).                                                 *)
BitplaneCount(values) ==
    CHOOSE m \in 0 .. 31 : /\ \A i \in DOMAIN values : Magnitude(values[i]) < 2 ^ m
                           /\ m > 0 => \E i \in DOMAIN values : Magnitude(values[i]) >= 2 ^ (m - 1)
Quantize(h, magnitude, m, t) ==
    IF h.qpih = 0 THEN magnitude \div 2 ^ t
    ELSE IF m <= t THEN 0
    ELSE (magnitude * (2 ^ (m - t + 1) - 1) + 2 ^ m) \div 2 ^ (m + 1)
Dequantize(h, v, negative, m, t) ==
    LET zeta == m - t + 1
        series[phi \in Nat] == IF phi = 0 THEN 0 ELSE phi + series[phi \div 2 ^ zeta]
        magnitude == IF h.qpih = 0 THEN v * 2 ^ t + 2 ^ t \div 2 ELSE series[v * 2 ^ t]
    IN  IF m <= t \/ v = 0 THEN 0 ELSE IF negative THEN -magnitude ELSE magnitude

-----------------------------------------------------------------------------
(* The vertical predictor (C.6.3).  The state of a precinct column is the  *)
(* last coded line of counts and the truncation of each band in the        *)
(* precinct above, invalid at the top of a slice.                          *)
NoState == [valid |-> FALSE]
UpdateState(h, p, counts, t) ==
    [valid |-> TRUE, tAbove |-> t,
     mLast |-> [b \in Bands(h) |-> IF Lines(h, p, b) = 0 THEN <<>> ELSE counts[b][Lines(h, p, b) - 1]]]

(* Prediction of every code group of line li of band b: from the line      *)
(* above in the same precinct, or from the precinct above.                 *)
Predictor(b, li, counts, t, state) ==
    IF li = 0 THEN [top |-> state.mLast[b], t |-> state.tAbove[b]]
    ELSE [top |-> counts[b][li - 1], t |-> t[b]]
Predicted(vertical, b, li, counts, t, state, groups) ==
    IF ~vertical THEN [g \in groups |-> t[b]]
    ELSE LET pred == Predictor(b, li, counts, t, state)
         IN  [g \in groups |-> Larger(pred.top[g], Larger(t[b], pred.t))]

Groups(h, p, b) == 0 .. CodeGroups(h, p, b) - 1
LineOf(h, entry) == entry.line - LineStart(h, entry.band)

(* The groups whose count is coded, in order, and the place of one of them.*)
Skips(h, flags, g) == flags # <<>> /\ flags[1 + g \div h.ss]
Coded(h, p, b, flags) ==
    InOrder(Once({g \in Groups(h, p, b) : ~Skips(h, flags, g)}), CodeGroups(h, p, b))
Place(g, coded) == Cardinality(coded \cap 0 .. g)
(* Reading past a subpacket's fields finds its zero padding.               *)
Field(seq, k, padding) == IF k \in DOMAIN seq THEN seq[k] ELSE padding

-----------------------------------------------------------------------------
(* Encoder.  Counts are clamped to the truncation: a group whose count is  *)
(* not above it carries no data.                                           *)
GroupValues(h, line, g) ==
    [k \in {j \in 0 .. h.ng - 1 : g * h.ng + j \in DOMAIN line} |-> line[g * h.ng + k]]

QuantiseLine(h, p, b, line, t) ==
    [g \in Groups(h, p, b) |->
        LET values == Once(GroupValues(h, line, g))
            raw == BitplaneCount(values)
            m == Larger(raw, t)
            v == Once([k \in 0 .. h.ng - 1 |->
                    IF k \in DOMAIN values THEN Quantize(h, Magnitude(values[k]), m, t) ELSE 0])
        IN  [m |-> m, fits |-> raw <= MaxCount(h), v |-> v,
             s |-> [k \in 0 .. h.ng - 1 |-> v[k] # 0 /\ values[k] < 0]]]

QuantisePrecinct(h, p, coefficients, t) ==
    [b \in Bands(h) |-> [li \in 0 .. Lines(h, p, b) - 1 |->
        QuantiseLine(h, p, b, coefficients[b][li], t[b])]]
CountsOf(quantised) ==
    [b \in DOMAIN quantised |-> [li \in DOMAIN quantised[b] |->
        [g \in DOMAIN quantised[b][li] |-> quantised[b][li][g].m]]]

(* A significance group is insignificant when each of its code groups has  *)
(* a zero residual (Rm = 0) or its truncation as count (Rm = 1).           *)
Insignificant(h, m, top, t, g) == IF h.rm = 0 THEN m[g] = top[g] ELSE m[g] = t

SignificanceFlags(h, p, b, m, top, t) ==
    [j \in 1 .. SignificanceGroups(h, p, b) |->
        \A g \in DOMAIN m : g \div h.ss = j - 1 => Insignificant(h, m, top, t, g)]

PredictedEntry(h, p, b, m, top, flags, t) ==
    LET coded == Coded(h, p, b, flags)
    IN  [sig |-> flags,
         cnt |-> [k \in 1 .. Len(coded) |-> VlcEncode(m[coded[k]] - top[coded[k]], top[coded[k]], t)],
         fits |-> \A g \in DOMAIN m : m[g] - top[g] >= -Theta(top[g], t)]
EncodeEntry(h, p, e, raw, d, counts, t, state) ==
    LET b == e.band
        m == counts[b][LineOf(h, e)]
        top == Once(Predicted(d.vertical, b, LineOf(h, e), counts, t, state, DOMAIN m))
        flags == IF d.significance THEN Once(SignificanceFlags(h, p, b, m, top, t[b])) ELSE <<>>
    IN  IF raw THEN [sig |-> <<>>, cnt |-> [k \in 1 .. CodeGroups(h, p, b) |-> m[k - 1]], fits |-> TRUE]
        ELSE PredictedEntry(h, p, b, m, top, flags, t[b])

EncodeCounts(h, p, packet, raw, d, counts, t, state) ==
    [k \in 1 .. Len(packet) |-> EncodeEntry(h, p, packet[k], raw, d, counts, t, state)]
SigBytes(entries) == BytesFor(Total([k \in DOMAIN entries |-> Len(entries[k].sig)]))
CntBytes(h, entries, raw) ==
    BytesFor(Total([k \in DOMAIN entries |->
        IF raw THEN h.br * Len(entries[k].cnt) ELSE Total(entries[k].cnt) + Len(entries[k].cnt)]))

(* Data: for a group above the truncation, its signs (unless they have a   *)
(* subpacket of their own, Fs = 1) and m - t bitplanes of its magnitudes.  *)
DataGroups(h, p, b, m, t) ==
    InOrder(Once({g \in DOMAIN m : m[g] > t}), CodeGroups(h, p, b))
EncodeData(h, p, e, line, t) ==
    LET m == [g \in DOMAIN line |-> line[g].m]
        above == DataGroups(h, p, e.band, m, t)
    IN  [k \in 1 .. Len(above) |->
            LET group == line[above[k]]
            IN  [v |-> [j \in DOMAIN group.v |-> group.v[j] % 2 ^ (group.m - t)],
                 s |-> IF h.fs = 0 THEN group.s ELSE <<>>]]
DataBits(h, m, t) ==
    LET Bits(g) == IF m[g] > t THEN h.ng * (m[g] - t) + (IF h.fs = 0 THEN h.ng ELSE 0) ELSE 0
    IN  Total([k \in 1 .. Cardinality(DOMAIN m) |-> Bits(k - 1)])
Places(h, v) == h.ng * Cardinality(DOMAIN v)
Nonzero(h, v) == Once({x \in 0 .. Places(h, v) - 1 : v[x \div h.ng][x % h.ng] # 0})
EncodeSigns(h, line) ==
    LET v == Once([g \in DOMAIN line |-> line[g].v])
        at == InOrder(Nonzero(h, v), Places(h, v))
    IN  [k \in 1 .. Len(at) |-> line[at[k] \div h.ng].s[at[k] % h.ng]]

(* C.5.3: where the counts of a packet take more bytes than raw ones they  *)
(* are written raw: packet by packet (Rl = 1), or for all the packets of a *)
(* band whose sum is too large (Rl = 0), repeated until no band changes.   *)
RawFallback(h, packets, coded, raw) ==
    LET ids == DOMAIN packets
        Of(b) == {s \in ids : \E k \in DOMAIN packets[s] : packets[s][k].band = b}
        Cost(R, s) == IF s \in R THEN raw[s] ELSE coded[s]
        Sum(b, Op(_)) == Total([s \in ids |-> IF s \in Of(b) THEN Op(s) ELSE 0])
        Exceeds(R, b) == Sum(b, LAMBDA s : Cost(R, s)) > Sum(b, LAMBDA s : raw[s])
        Round(R) == LET upto[b \in -1 .. NumBands(h) - 1] ==
                            IF b = -1 THEN R
                            ELSE LET S == Once(upto[b - 1])
                                 IN  IF Exceeds(S, b) THEN S \cup Of(b) ELSE S
                    IN  upto[NumBands(h) - 1]
        fixed[R \in SUBSET ids] == LET next == Once(Round(R)) IN IF next = R THEN R ELSE fixed[next]
    IN  IF h.rl = 1 THEN {s \in ids : coded[s] > raw[s]} ELSE fixed[{}]

ShortHeader(h) == h.wf * h.nc < 32752 /\ h.lh = 0
PacketHeaderBytes(h) == IF ShortHeader(h) THEN 5 ELSE 7
LengthsFit(h, pk) ==
    IF ShortHeader(h) THEN pk.ldat < 2 ^ 15 /\ pk.lcnt < 2 ^ 13 /\ pk.lsgn < 2 ^ 11
    ELSE pk.ldat < 2 ^ 20 /\ pk.lcnt < 2 ^ 20 /\ pk.lsgn < 2 ^ 15

(* One packet of quantised precinct: header, counts, data and signs.       *)
Packet(h, p, packet, raw, entries, lines, signs, t) ==
    LET Bits(k) == DataBits(h, [g \in DOMAIN lines[k] |-> lines[k][g].m], t[packet[k].band])
    IN  [raw |-> raw, entries |-> entries, sgn |-> signs,
         dat |-> [k \in DOMAIN packet |-> EncodeData(h, p, packet[k], lines[k], t[packet[k].band])],
         lsig |-> SigBytes(entries), lcnt |-> CntBytes(h, entries, raw),
         ldat |-> BytesFor(Total([k \in DOMAIN packet |-> Bits(k)])),
         lsgn |-> BytesFor(Total([k \in DOMAIN packet |-> Len(signs[k])]))]
EncodePacket(h, p, packet, raw, d, quantised, counts, t, state) ==
    LET lines == [k \in DOMAIN packet |-> quantised[packet[k].band][LineOf(h, packet[k])]]
        signs == [k \in DOMAIN packet |-> IF h.fs = 1 THEN EncodeSigns(h, lines[k]) ELSE <<>>]
    IN  Packet(h, p, packet, raw, Once(EncodeCounts(h, p, packet, raw, d, counts, t, state)),
               Once(lines), Once(signs), t)
PacketBytes(h, pk) == PacketHeaderBytes(h) + pk.lsig + pk.lcnt + pk.ldat + pk.lsgn

(* The packets of a precinct that are written raw, and the final packets.  *)
RawPackets(h, p, plain) ==
    LET packets == h.packets[p]
    IN  RawFallback(h, packets, [s \in DOMAIN packets |-> plain[s].lsig + plain[s].lcnt],
                    [s \in DOMAIN packets |-> BytesFor(h.br *
                        Total([k \in DOMAIN packets[s] |-> CodeGroups(h, p, packets[s][k].band)]))])
EncodePackets(h, p, R, d, quantised, counts, t, state) ==
    [s \in DOMAIN h.packets[p] |->
        EncodePacket(h, p, h.packets[p][s], s \in R, d, quantised, counts, t, state)]

(* PrecinctEncoder::Encode.  fits says that no check of the code throws;   *)
(* d holds the vertical and significance bits, the same for every band.    *)
Precinct(h, q, r, d, quantised, coded, bytes, state, next) ==
    [q |-> q, r |-> r, d |-> d, packets |-> coded, bytes |-> bytes, state |-> next,
     fits |-> /\ q \in 0 .. 31 /\ r \in 0 .. 2 * NumBands(h) - 1
              /\ d.vertical => state.valid
              /\ \A b \in Bands(h) : \A li \in DOMAIN quantised[b] :
                    \A g \in DOMAIN quantised[b][li] : quantised[b][li][g].fits
              /\ \A s \in DOMAIN coded : /\ LengthsFit(h, coded[s])
                                         /\ \A k \in DOMAIN coded[s].entries : coded[s].entries[k].fits
              /\ bytes \in 1 .. 2 ^ 20 - 1]
EncodeQuantised(h, p, q, r, d, quantised, counts, t, state) ==
    LET plain == Once(EncodePackets(h, p, {}, d, quantised, counts, t, state))
        R == Once(RawPackets(h, p, plain))
        coded == Once(IF R = {} THEN plain ELSE EncodePackets(h, p, R, d, quantised, counts, t, state))
        bytes == Total([s \in DOMAIN coded |-> PacketBytes(h, coded[s])])
    IN  Precinct(h, q, r, d, quantised, coded, bytes, state, UpdateState(h, p, counts, t))
EncodePrecinct(h, p, q, r, d, coefficients, state) ==
    LET t == Once(Truncations(h, q, r))
        quantised == Once(QuantisePrecinct(h, p, coefficients, t))
    IN  EncodeQuantised(h, p, q, r, d, quantised, Once(CountsOf(quantised)), t, state)

-----------------------------------------------------------------------------
(* Decoder.  Each packet is read with the counts of the lines decoded so   *)
(* far; bits counts what the decoder consumed, to be compared with the     *)
(* length the packet header declares.  The fields are those of the entry,  *)
(* so a decoder that has lost its place in one entry starts the next one   *)
(* where the encoder did; the counts it found show that it was lost.  A    *)
(* group of an insignificant significance group has no codeword: its       *)
(* residual is implied.                                                    *)
SkippedResidual_Zero(h, d, top, t) == 0
SkippedResidual(h, d, top, t) == IF d.vertical /\ h.rm = 1 THEN t - top ELSE 0
ReadEntry(h, p, b, coded, raw, d, flags, top, t) ==
    LET Skipped(g) == Skips(h, flags, g)
        present == Once({k \in DOMAIN top : ~Skipped(k)})
        Code(g) == Field(coded.cnt, Place(g, present), 0)
        Residual(g) == IF ~Skipped(g) THEN VlcDecode(Code(g), top[g], t)
                       ELSE SkippedResidual(h, d, top[g], t)
        m == Once([g \in DOMAIN top |-> IF raw THEN Field(coded.cnt, g + 1, 0) ELSE top[g] + Residual(g)])
        Bits(g) == IF raw THEN h.br ELSE IF Skipped(g) THEN 0 ELSE Code(g) + 1
    IN  [m |-> m, sigBits |-> Len(flags),
         cntBits |-> Total([k \in 1 .. CodeGroups(h, p, b) |-> Bits(k - 1)]),
         fits |-> /\ \A g \in DOMAIN top : m[g] \in 0 .. MaxCount(h)
                  /\ ~raw => \A g \in DOMAIN top : Skipped(g) \/ Code(g) < VlcLimit(h)]
DecodeEntry(h, p, e, coded, raw, d, counts, t, state) ==
    LET b == e.band
        flags == IF raw \/ ~d.significance THEN <<>>
                 ELSE [j \in 1 .. SignificanceGroups(h, p, b) |-> Field(coded.sig, j, FALSE)]
    IN  ReadEntry(h, p, b, coded, raw, d, flags,
                  Once(Predicted(d.vertical, b, LineOf(h, e), counts, t, state, Groups(h, p, b))), t[b])

(* Magnitudes and signs of one line, and the coefficients they stand for.  *)
DecodeLine(h, p, b, m, t, dat, sgn) ==
    LET none == [k \in 0 .. h.ng - 1 |-> 0]
        above == Once({k \in DOMAIN m : m[k] > t})
        Empty == [v |-> none, s |-> [k \in 0 .. h.ng - 1 |-> FALSE]]
        Group(g) == Field(dat, Place(g, above), Empty)
        v == Once([g \in DOMAIN m |-> IF m[g] <= t THEN none
                                      ELSE [k \in 0 .. h.ng - 1 |-> Group(g).v[k] % 2 ^ (m[g] - t)]])
        signed == Nonzero(h, v)
        Negative(x) == IF v[x \div h.ng][x % h.ng] = 0 THEN FALSE
                       ELSE IF h.fs = 1 THEN Field(sgn, Place(x, signed), FALSE)
                       ELSE Group(x \div h.ng).s[x % h.ng]
    IN  [values |-> [x \in 0 .. h.widths[p][b] - 1 |->
                        Dequantize(h, v[x \div h.ng][x % h.ng], Negative(x), m[x \div h.ng], t)],
         signBits |-> IF h.fs = 1 THEN Cardinality(signed) ELSE 0]

(* One packet: counts first, all of its bands, then data, then signs.      *)
PutLines(h, packet, all, new) ==
    [b \in Bands(h) |-> [li \in DOMAIN all[b] |->
        LET at == {k \in DOMAIN packet : packet[k].band = b /\ LineOf(h, packet[k]) = li}
        IN  IF at = {} THEN all[b][li] ELSE new[CHOOSE k \in at : TRUE]]]
AddPacket(h, packet, pk, acc, read, lines, t) ==
    LET Used(Bits(_)) == BytesFor(Total([k \in DOMAIN packet |-> Bits(k)]))
        lsig == Used(LAMBDA k : read[k].sigBits)
    IN  [counts |-> PutLines(h, packet, acc.counts, [k \in DOMAIN packet |-> read[k].m]),
         out |-> PutLines(h, packet, acc.out, [k \in DOMAIN packet |-> lines[k].values]),
         used |-> acc.used + PacketHeaderBytes(h) + lsig + pk.lcnt + pk.ldat + pk.lsgn,
         fits |-> /\ acc.fits
                  /\ \A k \in DOMAIN packet : read[k].fits
                  /\ Used(LAMBDA k : read[k].cntBits) <= pk.lcnt
                  /\ Used(LAMBDA k : DataBits(h, read[k].m, t[packet[k].band])) <= pk.ldat
                  /\ Used(LAMBDA k : lines[k].signBits) <= pk.lsgn]
DecodePacket(h, p, packet, pk, d, acc, t, state) ==
    LET read == Once([k \in DOMAIN packet |->
                    DecodeEntry(h, p, packet[k], pk.entries[k], pk.raw, d, acc.counts, t, state)])
        lines == Once([k \in DOMAIN packet |->
                    DecodeLine(h, p, packet[k].band, read[k].m, t[packet[k].band], pk.dat[k], pk.sgn[k])])
    IN  AddPacket(h, packet, pk, acc, read, lines, t)

(* PrecinctDecoder::Decode of a body of lprc bytes.                        *)
DecodePackets(h, p, precinct, start, t, state) ==
    LET packets == h.packets[p]
        upto[s \in 0 .. Len(packets)] ==
            IF s = 0 THEN start
            ELSE DecodePacket(h, p, packets[s], precinct.packets[s], precinct.d, Once(upto[s - 1]), t, state)
    IN  upto[Len(packets)]
Decoded(h, p, precinct, end, t) ==
    [out |-> end.out, used |-> end.used, fits |-> end.fits /\ end.used <= precinct.lprc,
     state |-> UpdateState(h, p, end.counts, t)]
DecodePrecinct(h, p, precinct, state) ==
    LET t == Once(Truncations(h, precinct.q, precinct.r))
        Blank(Row(_)) == [b \in Bands(h) |-> [li \in 0 .. Lines(h, p, b) - 1 |-> Row(b)]]
        start == [counts |-> Blank(LAMBDA b : [g \in Groups(h, p, b) |-> 0]),
                  out |-> Blank(LAMBDA b : [x \in 0 .. h.widths[p][b] - 1 |-> 0]),
                  used |-> 0, fits |-> precinct.d.vertical => state.valid]
    IN  Decoded(h, p, precinct, Once(DecodePackets(h, p, precinct, start, t, state)), t)
=============================================================================
