------------------------------ MODULE JxsCodec ------------------------------
(***************************************************************************)
(* The reference JPEG XS encoder with its rate control                     *)
(* (compression/jxs/encoder.cc) and the decoder that reads its codestream  *)
(* (decoder.cc), on top of the transform and entropy layers.  The encoder  *)
(* transforms the picture, then codes it precinct by precinct: without     *)
(* loss at Q = 0, or at a constant rate, searching the pair (Q, R) whose   *)
(* packets fit the byte budget.  Both sides carry the bitplane counts of   *)
(* the precinct above, per precinct column, to predict the next ones.      *)
(*                                                                         *)
(* The encoder keeps the slices it has written; the finished codestream,   *)
(* headers included, is handed to the decoder as it is or, for some jobs,  *)
(* with a piece lost, repeated, misplaced or unknown, or cut off.  The     *)
(* decoder knows nothing but the codestream.  The other job is a codestream*)
(* of another encoder whose headers are parsed (jxs_info).                 *)
(***************************************************************************)
EXTENDS JxsTransform, JxsEntropy, JxsHeaders

CONSTANTS
    Jobs,       \* what the encoder may be asked: [config |-> ..., image |-> ..., damaged |-> whether
                \* the codestream may reach the decoder altered]
    Foreign     \* headers of codestreams of other encoders

VARIABLES
    job,        \* the picture and configuration being coded, or the foreign headers
    phase,      \* where Encode or Decode is
    bands,      \* wavelet coefficients of the picture
    p,          \* the next precinct
    search,     \* the rate control of the precinct being coded
    enc,        \* predictor state of the encoder, per precinct column
    stream,     \* slices written
    codestream, \* what the decoder is given; once the headers are parsed, what follows them
    parsed,     \* the headers the decoder works with
    dec,        \* predictor state of the decoder, per precinct column
    decoded,    \* coefficients decoded so far
    picture     \* the decoded picture

vars == <<job, phase, bands, p, search, enc, stream, codestream, parsed, dec, decoded, picture>>
None == <<>>

(* The headers the encoder derives from its configuration.                 *)
ConfiguredFields == {"wf", "hf", "cw", "hsl", "nc", "nlx", "nly", "cpih", "qpih", "fs", "rm", "rl", "lh",
                     "depth", "sx", "sy", "sd", "weights"}
MakeHeaders(c) ==
    [f \in ConfiguredFields |-> c[f]]
    ++ (IF c.lossless THEN [bw |-> c.depth[0], fq |-> 0, br |-> IF c.depth[0] > 12 THEN 5 ELSE 4]
        ELSE [bw |-> 20, fq |-> 8, br |-> 4])
    ++ [lcod |-> 0, ppih |-> 0, plev |-> 0, ng |-> 4, ss |-> 8, fslc |-> 0, ppoc |-> 0]
    ++ [cap |-> (IF c.lossless THEN {kLossless} ELSE {}) \cup (IF c.sd > 0 THEN {kCwd} ELSE {})
                \cup (IF c.rl = 1 THEN {kRawModePerPacket} ELSE {}) \cup (IF c.cpih = 3 THEN {kStarTetrix} ELSE {}),
        cts |-> IF c.cpih = 3 THEN {c.cts} ELSE {},
        crg |-> IF c.cpih = 3 /\ c.crg = {} THEN {Offsets(<<0, 1, 0, 1>>, <<0, 0, 1, 1>>)} ELSE c.crg,
        wgr |-> {}, nlt |-> {}, tpc |-> {}, comments |-> <<>>]

(* What Encode and Decode derive from the headers, once: the geometry,     *)
(* whose constructor refuses vertical subsampling, and the CFA pattern.    *)
Tables(headers) ==
    Geometry(headers) ++ (IF headers.cpih = 3 THEN StarTetrix(headers) ELSE None)

(* A configuration the headers accept, in fields of PictureHeader's,       *)
(* Component's and BandWeights' widths, with at most one CRG.              *)
FieldsFit(headers) ==
    /\ {headers.wf, headers.hf, headers.cw, headers.hsl} \subseteq 0 .. 2 ^ 16 - 1
    /\ {headers.sd, headers.lh, headers.rl} \subseteq 0 .. 2 ^ 8 - 1
    /\ DOMAIN headers.depth = DOMAIN headers.sx /\ DOMAIN headers.sy = DOMAIN headers.sx
    /\ \A b \in DOMAIN headers.weights : headers.weights[b] \in [gain : 0 .. 2 ^ 8 - 1, priority : 0 .. 2 ^ 8 - 1]
    /\ headers.cts \subseteq [cf : 0 .. 3, e1 : 0 .. 3, e2 : 0 .. 3]
    /\ \A c, d \in headers.crg : c = d /\ c \in [DOMAIN c -> (0 .. 2 ^ 16 - 1) \X (0 .. 2 ^ 16 - 1)]
ASSUME JobsAssumption ==
    \A j \in Jobs : LET headers == MakeHeaders(j.config)
                    IN  /\ Validate(headers) /\ \A i \in DOMAIN headers.sy : headers.sy[i] = 1
                        /\ headers.cpih = 3 => PatternTypes(headers) # {}
                        /\ FieldsFit(headers) /\ j.config.target \in Nat
                        /\ {j.config.vertical, j.config.significance} \subseteq BOOLEAN
ASSUME ForeignAssumption == \A headers \in Foreign : Validate(headers)

(* Sizes of the marker segments and slices, of a precinct header, and of   *)
(* everything that is not packets.                                         *)
PrecinctHeaderBytes(h) == BytesFor(40 + 2 * NumBands(h))
SliceHeaderBytes == 6
PieceBytes(h, piece) ==
    CASE piece.marker \in {"SOC", "EOC"} -> 2
      [] piece.marker = "SLH" -> SliceHeaderBytes + Total([k \in DOMAIN piece.precincts |->
                                                     PrecinctHeaderBytes(h) + piece.precincts[k].lprc])
      [] OTHER -> 4 + Bytes(piece)
SizeOf(h, pieces) == Total([k \in DOMAIN pieces |-> PieceBytes(h, pieces[k])])
HeaderBytes(h) == SizeOf(h, WriteHeaders(h))
FixedBytes_OneSlice(h) == HeaderBytes(h) + SliceHeaderBytes + 2 + NumPrecincts(h) * PrecinctHeaderBytes(h)
FixedBytes(h) == HeaderBytes(h) + NumSlices(h) * SliceHeaderBytes + 2
                 + NumPrecincts(h) * PrecinctHeaderBytes(h)

h == job.h
config == job.config
BodyBudget == (config.target - job.fixed) \div NumPrecincts(h)
Columns(g) == 0 .. PrecinctsPerRow(g) - 1
Unpredicted(g) == [c \in Columns(g) |-> NoState]
Blank(g) == [b \in Bands(g) |-> [y \in 0 .. g.bands[b].height - 1 |-> [x \in 0 .. g.bands[b].width - 1 |-> 0]]]

Body == stream \o <<[marker |-> "EOC"]>>

Init ==
    /\ \/ /\ \E j \in Jobs :
              LET headers == MakeHeaders(j.config)
              IN  job = [config |-> j.config, h |-> Tables(headers), fixed |-> FixedBytes(Tables(headers)),
                         image |-> j.image, foreign |-> FALSE, damaged |-> j.damaged]
          /\ phase = "transform" /\ stream = <<>> /\ codestream = <<>> /\ enc = Unpredicted(h)
       \/ /\ \E headers \in Foreign :
              /\ job = [h |-> headers, foreign |-> TRUE, damaged |-> TRUE]
              /\ stream = <<[marker |-> "SLH", ysl |-> 0, precincts |-> <<>>]>>
              /\ codestream = WriteHeaders(headers) \o Body
          /\ phase = "deliver" /\ enc = None
    /\ p = 0 /\ bands = None /\ search = None
    /\ parsed = None /\ dec = None /\ decoded = None /\ picture = None

-----------------------------------------------------------------------------
(* Encoder.  The forward transforms, and the budget of every precinct.     *)
Coefficients ==
    LET planes == Once(ForwardMct(h, [c \in 0 .. h.nc - 1 |-> ScaleFromInput(h, job.image[c], c)]))
        upto[k \in -1 .. h.nc - 1] == IF k = -1 THEN <<>> ELSE ForwardDwt(h, planes[k], k) @@ upto[k - 1]
    IN  upto[h.nc - 1]
Transform ==
    /\ phase = "transform"
    /\ bands' = Coefficients
    /\ phase' = IF config.lossless \/ (/\ config.target > job.fixed + NumPrecincts(h)
                                       /\ BodyBudget < 2 ^ 20)
                THEN "precinct" ELSE "rejected"
    /\ UNCHANGED <<job, p, search, enc, stream, codestream, parsed, dec, decoded, picture>>

AtSliceStart(g, states) == IF StartsSlice(g, p) THEN Unpredicted(g) ELSE states
Column(g) == PrecinctColumn(g, p)
Fits(candidate) == candidate.bytes <= BodyBudget
Try(q, r) == EncodePrecinct(h, p, q, r, search.d, search.pc, enc[Column(h)])

(* A precinct, behind the header of its slice if it is the first of one:   *)
(* its coefficients and its coding flags; with no loss at Q = 0, otherwise *)
(* Q = 31 must fit.                                                        *)
BeginPrecinct ==
    /\ phase = "precinct"
    /\ stream' = IF StartsSlice(h, p) THEN Append(stream, [marker |-> "SLH", ysl |-> Len(stream), precincts |-> <<>>])
                 ELSE stream
    /\ enc' = AtSliceStart(h, enc)
    /\ LET d == [vertical |-> config.vertical /\ enc'[Column(h)].valid, significance |-> config.significance]
           q == IF config.lossless THEN 0 ELSE 31
       IN  \E pc \in {ExtractPrecinct(h, p, bands)} :
           \E first \in {EncodePrecinct(h, p, q, 0, d, pc, enc'[Column(h)])} :
              /\ search' = [d |-> d, pc |-> pc, best |-> first, lo |-> 0, hi |-> 31,
                            rlo |-> 0, rhi |-> 2 * NumBands(h) - 1]
              /\ phase' = IF ~first.fits THEN "threw"
                          ELSE IF config.lossless THEN "emit" ELSE IF Fits(first) THEN "Q" ELSE "rejected"
    /\ UNCHANGED <<job, bands, p, codestream, parsed, dec, decoded, picture>>

(* One probe of the binary search for the smallest Q that fits at R = 0,   *)
(* then of the one for the largest R that fits at that Q.                  *)
ProbeQ(candidate) ==
    IF Fits(candidate) THEN [search EXCEPT !.best = candidate, !.hi = candidate.q]
    ELSE [search EXCEPT !.lo = candidate.q + 1]
TryQ ==
    /\ phase = "Q"
    /\ \E candidate \in {Try((search.lo + search.hi) \div 2, 0)} :
          /\ search' = ProbeQ(candidate)
          /\ phase' = IF ~candidate.fits THEN "threw" ELSE IF search'.lo < search'.hi THEN "Q" ELSE "R"
    /\ UNCHANGED <<job, bands, p, enc, stream, codestream, parsed, dec, decoded, picture>>

ProbeR_KeepsLast(candidate) ==
    IF Fits(candidate) THEN [search EXCEPT !.best = candidate, !.rlo = candidate.r]
    ELSE [search EXCEPT !.best = candidate, !.rhi = candidate.r - 1]
ProbeR(candidate) ==
    IF Fits(candidate) THEN [search EXCEPT !.best = candidate, !.rlo = candidate.r]
    ELSE [search EXCEPT !.rhi = candidate.r - 1]
TryR ==
    /\ phase = "R"
    /\ \E candidate \in {Try(search.best.q, (search.rlo + search.rhi + 1) \div 2)} :
          /\ search' = ProbeR(candidate)
          /\ phase' = IF ~candidate.fits THEN "threw" ELSE IF search'.rlo < search'.rhi THEN "R" ELSE "emit"
    /\ UNCHANGED <<job, bands, p, enc, stream, codestream, parsed, dec, decoded, picture>>

(* The winner is coded again to advance the predictor, then written and    *)
(* filled up to the budget.                                                *)
Emit ==
    LET last == p = NumPrecincts(h) - 1
    IN  /\ phase = "emit"
        /\ \E best \in {Try(search.best.q, search.best.r)} :
              LET lprc == IF config.lossless THEN best.bytes ELSE BodyBudget
              IN  IF best.bytes > lprc THEN phase' = "threw" /\ UNCHANGED <<p, enc, stream>>
                  ELSE /\ enc' = [enc EXCEPT ![Column(h)] = best.state]
                       /\ stream' = [stream EXCEPT ![Len(stream)].precincts =
                              Append(@, [q |-> best.q, r |-> best.r, d |-> best.d,
                                         packets |-> best.packets, lprc |-> lprc])]
                       /\ p' = IF last THEN 0 ELSE p + 1
                       /\ phase' = IF last THEN "write" ELSE "precinct"
        /\ search' = None
        /\ UNCHANGED <<job, bands, codestream, parsed, dec, decoded, picture>>

(* The headers are written last, with the size of a constant-rate          *)
(* codestream in Lcod.                                                     *)
WrittenHeaders ==
    IF job.foreign \/ config.lossless THEN h ELSE [h EXCEPT !.lcod = HeaderBytes(h) + SizeOf(h, Body)]
Write ==
    /\ phase = "write"
    /\ codestream' = WriteHeaders(WrittenHeaders) \o Body
    /\ phase' = "deliver"
    /\ UNCHANGED <<job, bands, p, search, enc, stream, parsed, dec, decoded, picture>>

-----------------------------------------------------------------------------
(* What may become of a codestream on its way: the header segments in the  *)
(* opposite order, a piece lost, repeated or exchanged with the next one,  *)
(* the rest cut off, after a piece or inside the last slice, a segment     *)
(* nobody knows or has asked for, a slice with temporal differences, a     *)
(* capability field the decoder cannot take.                               *)
Altered(s) ==
    LET last == Len(s)
        slices == FirstSlice(s)
        Exchanged(i, j) == [s EXCEPT ![i] = s[j], ![j] = s[i]]
        quadratic == Segment("NLT", NltPayload([type |-> 1, dco |-> -1]))
    IN  (UNION {{RemoveAt(s, i), InsertAt(s, i, s[i]), SubSeq(s, 1, i - 1)} : i \in 1 .. last})
        \cup {Exchanged(i, i + 1) : i \in 1 .. last - 1}
        \cup {SubSeq(s, 1, 3) \o Reverse(SubSeq(s, 4, slices - 1)) \o SubSeq(s, slices, last)}
        \cup {SubSeq(s, 1, last - 2) \o <<[s[last - 1] EXCEPT !.precincts = Front(@)]>> :
                 k \in {1} \cap DOMAIN s[last - 1].precincts}
        \cup {InsertAt(s, 4, Segment("unknown", <<>>)), InsertAt(s, 4, quadratic), [s EXCEPT ![slices].marker = "SLI"]}
        \cup {[s EXCEPT ![2].bits = @ \o PutBits(0, 8)], [s EXCEPT ![2].bits = PutBits(0, 32) \o PutBits(1, 8)]}

(* The start of Decode: the headers are parsed, or the parser throws.      *)
Deliver ==
    /\ phase = "deliver"
    /\ \E s \in {codestream} \cup (IF job.damaged THEN Altered(codestream) ELSE {}) :
          LET headers == ParseHeaders(s)
          IN  IF headers = {} THEN /\ phase' = "refused" /\ codestream' = s
                                   /\ UNCHANGED <<parsed, dec, decoded>>
              ELSE \E g \in {IF job.foreign THEN read ELSE Tables(read) : read \in headers} :
                     /\ parsed' = g
                     /\ codestream' = SubSeq(s, FirstSlice(s), Len(s))
                     /\ IF job.foreign THEN phase' = "info" /\ UNCHANGED <<dec, decoded>>
                        ELSE phase' = "decode" /\ dec' = Unpredicted(g) /\ decoded' = Blank(g)
    /\ UNCHANGED <<job, bands, p, search, enc, stream, picture>>

(* Decoder: precinct by precinct.  A slice must carry its number, and what *)
(* stands where a precinct is expected must be one: the first bytes of a   *)
(* marker are an Lprc out of range.                                        *)
SliceOf(g) == p \div (g.hsl * PrecinctsPerRow(g))
SliceReadable(g, t) ==
    t + 1 \in DOMAIN codestream /\ codestream[t + 1].marker = "SLH" /\ codestream[t + 1].ysl = t
PrecinctReadable(g, t, k) ==
    /\ k \in DOMAIN codestream[t + 1].precincts
    /\ LET precinct == codestream[t + 1].precincts[k]
       IN  precinct.lprc \in 1 .. 2 ^ 20 - 1 /\ precinct.q <= 31 /\ precinct.r < 2 * NumBands(g)
Read ==
    /\ phase = "decode" /\ p < NumPrecincts(parsed)
    /\ LET g == parsed
           t == SliceOf(g)
           k == p - SliceFirstPrecinct(g, t) + 1
       IN  IF ~SliceReadable(g, t) \/ ~PrecinctReadable(g, t, k)
           THEN phase' = "refused" /\ UNCHANGED <<p, dec, decoded>>
           ELSE \E result \in {DecodePrecinct(g, p, codestream[t + 1].precincts[k], AtSliceStart(g, dec)[Column(g)])} :
                   /\ dec' = [AtSliceStart(g, dec) EXCEPT ![Column(g)] = result.state]
                   /\ decoded' = PlacePrecinct(g, p, result.out, decoded)
                   /\ phase' = IF result.fits THEN "decode" ELSE "lost"
                   /\ p' = p + 1
    /\ UNCHANGED <<job, bands, search, enc, stream, codestream, parsed, picture>>

(* EOC, then the inverse transforms.                                       *)
AtEnd_Unchecked(t) == TRUE
AtEnd(t) == t + 1 \in DOMAIN codestream /\ codestream[t + 1].marker = "EOC"
Reconstruct ==
    LET g == parsed
    IN  /\ phase = "decode" /\ p = NumPrecincts(g)
        /\ IF ~AtEnd(NumSlices(g))
           THEN phase' = "refused" /\ UNCHANGED picture
           ELSE /\ \E planes \in {InverseMct(g, [k \in 0 .. g.nc - 1 |-> InverseDwt(g, decoded, k)])} :
                      picture' = [k \in 0 .. g.nc - 1 |-> ScaleToOutput(g, planes[k], k)]
                /\ phase' = "done"
        /\ UNCHANGED <<job, bands, p, search, enc, stream, codestream, parsed, dec, decoded>>

Next == Transform \/ BeginPrecinct \/ TryQ \/ TryR \/ Emit \/ Write \/ Deliver \/ Read \/ Reconstruct
Spec == Init /\ [][Next]_vars
-----------------------------------------------------------------------------
(* Losslessness (--lossless, and the round-trip test): the picture decoded *)
(* from a codestream coded without loss is the picture that was encoded,   *)
(* whatever its layout, colour transform, decomposition and coding flags.  *)
Lossless == phase = "done" /\ config.lossless => picture = job.image

(* Synchronisation: the decoder repeats every decision of the encoder.  It *)
(* never finds a subpacket longer or shorter than the packet header says,  *)
(* its predictor state after each precinct is the encoder's, and what it   *)
(* decodes is within one quantisation step of the coefficient, for every   *)
(* (Q, R) the rate control chose.  Neither side ever throws.               *)
Precincts == FlattenSeq([t \in DOMAIN stream |-> stream[t].precincts])
Step(b, k) == 2 ^ ComputeTruncation(h, b, Precincts[k].q, Precincts[k].r)
WithinStep(k) ==
    LET sent == ExtractPrecinct(h, k - 1, bands)
        read == ExtractPrecinct(h, k - 1, decoded)
    IN  \A b \in Bands(h) : \A y \in DOMAIN sent[b] : \A x \in DOMAIN sent[b][y] :
            LET error == sent[b][y][x] - read[b][y][x]
            IN  error < Step(b, k) /\ -error < Step(b, k)
DecoderFollows ==
    /\ phase \notin {"threw", "lost"}
    /\ phase = "decode" /\ p = NumPrecincts(h) => dec = enc /\ \A k \in DOMAIN Precincts : WithinStep(k)

(* Rate control: what encoder.cc:184 relies on.  The precinct about to be  *)
(* written fits; no smaller Q would have fitted, and at its Q no larger R, *)
(* not just none of those the binary searches probed.                      *)
BestFits ==
    phase = "emit" /\ ~config.lossless =>
        /\ Fits(search.best)
        /\ \A q \in 0 .. search.best.q - 1 : ~Fits(Try(q, 0))
        /\ \A r \in search.best.r + 1 .. 2 * NumBands(h) - 1 : ~Fits(Try(search.best.q, r))

(* Constant bit rate: the codestream never exceeds the target size, misses *)
(* it by less than one byte per precinct, and Lcod says how long it is.    *)
BudgetExact ==
    phase = "deliver" /\ ~job.foreign /\ ~config.lossless =>
        LET size == SizeOf(h, codestream)
        IN  /\ size <= config.target /\ config.target < size + NumPrecincts(h)
            /\ ParsePih(codestream[3].bits).lcod = size

(* The parser and the writer agree (headers_test.cc:62), and what keeps a  *)
(* wrong picture from being decoded: the decoder works with the headers    *)
(* that were written, whatever the order of the segments, but for those    *)
(* no picture depends on, which may be missing; it finishes only if the    *)
(* slices are all there in their order, up to EOC; and it refuses only     *)
(* what differs from the codestream written in more than the order of the  *)
(* segments after PIH, a repeated CAP or PIH or what follows EOC.          *)
Optional == {"wgr", "tpc", "comments"} \cup (IF h.cpih = 3 THEN {} ELSE {"crg"})
SameHeaders(read, written) ==
    /\ \A f \in (DOMAIN read \cap DOMAIN written) \ Optional : read[f] = written[f]
    /\ DOMAIN written \subseteq DOMAIN read
    /\ read.wgr \subseteq written.wgr /\ read.tpc \subseteq written.tpc /\ read.crg \subseteq written.crg
    /\ ToSet(read.comments) \subseteq ToSet(written.comments)
SamePieces(s, written) ==
    /\ Len(s) = Len(written) /\ ToSet(s) = ToSet(written)
    /\ SubSeq(s, 1, 3) = SubSeq(written, 1, 3)
    /\ IsSuffix(Body, s)
OnlyAsWritten ==
    /\ parsed # None => SameHeaders(parsed, WrittenHeaders)
    /\ phase = "done" => IsPrefix(Body, codestream)
    /\ phase = "refused" => IF parsed # None THEN ~IsPrefix(Body, codestream)
                            ELSE ~SamePieces(codestream, WriteHeaders(WrittenHeaders) \o Body)
=============================================================================
