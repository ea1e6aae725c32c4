----------------------------- MODULE JxsHeaders -----------------------------
(***************************************************************************)
(* The marker segments of a JPEG XS codestream (compression/jxs/           *)
(* headers.cc): WriteHeaders, ParseHeaders and Validate.                   *)
(*                                                                         *)
(* A codestream is the sequence of its pieces, each with its marker: SOC,  *)
(* the header segments, whose payload is a sequence of bits, the slices    *)
(* with their precincts, and EOC.  A headers record has the fields of      *)
(* PictureHeader, Component (functions of the component: depth, sx, sy)    *)
(* and Headers; cap is the set of capability bits, and an optional member  *)
(* is the set of its at most one value.  A writer and the parser of a      *)
(* segment each list their own fields, as in the code.                     *)
(***************************************************************************)
EXTENDS JxsGeometry

(* BitWriter and BitReader: the most significant bit first.  Values stay   *)
(* below 2^31, the largest power TLC can compute.                          *)
PutBits(value, n) == [i \in 1 .. n |-> IF n - i > 30 THEN 0 ELSE (value \div 2 ^ (n - i)) % 2]
GetBits(bits, at, n) ==
    LET value[k \in 0 .. n] == IF k = 0 THEN 0 ELSE 2 * value[k - 1] + bits[at + k]
    IN  value[n]

PutFields(fields, record) ==
    FlattenSeq([i \in DOMAIN fields |-> PutBits(record[fields[i][1]], fields[i][2])])
GetFields(fields, bits) ==
    LET start[i \in 1 .. Len(fields)] == IF i = 1 THEN 0 ELSE start[i - 1] + fields[i - 1][2]
    IN  [name \in {fields[i][1] : i \in DOMAIN fields} |->
            LET i == CHOOSE k \in DOMAIN fields : fields[k][1] = name
            IN  GetBits(bits, start[i], fields[i][2])]

(* A sign bit and the value modulo 2^n.                                    *)
PutSigned(value, n) == <<IF value < 0 THEN 1 ELSE 0>> \o PutBits(IF value < 0 THEN value + 2 ^ n ELSE value, n)
GetSigned_Unsigned(bits, at, n) == GetBits(bits, at + 1, n)
GetSigned(bits, at, n) == GetBits(bits, at + 1, n) - bits[at + 1] * 2 ^ n

Bytes(segment) == Len(segment.bits) \div 8
Segment(marker, bits) == [marker |-> marker, bits |-> bits]

-----------------------------------------------------------------------------
(* Capabilities, under their bit numbers (Table A.5).                      *)
kStarTetrix == 1
kQuadraticNlt == 2
kExtendedNlt == 3
kVerticalSubsampling == 4
kCwd == 5
kLossless == 6
kRawModePerPacket == 8
kTdc == 9

(* ComputeBandLayout: a band exists when its first line is a line of its   *)
(* component; every band of a component that is not decomposed exists.     *)
Exists(h, b) ==
    LET below == b \div Decomposed(h) - Beta1(h)
    IN  b < Decomposed(h) * NBeta(h) /\ below >= 0 /\ below % 3 # 0
            => 2 ^ (below \div 3) % h.sy[b % Decomposed(h)] = 0
ExistingBands(h) == {b \in Bands(h) : Exists(h, b)}

Validate(h) ==
    LET lossless == h.fq = 0
        whole == {i \in DOMAIN h.sx : h.sx[i] = 1 /\ h.sy[i] = 1}
        vertical == \E i \in DOMAIN h.sy : h.sy[i] > 1
        maxSy == IF vertical THEN 2 ELSE 1
    IN  /\ h.nc \in 1 .. 8 /\ DOMAIN h.sx = 0 .. h.nc - 1
        /\ h.ng = 4 /\ h.ss = 8 /\ h.fslc = 0 /\ h.ppoc = 0 /\ h.hsl >= 1
        /\ h.cpih \in {0, 1, 3} /\ {h.qpih, h.fs, h.rm} \subseteq {0, 1}
        /\ \A i \in DOMAIN h.sx : /\ h.depth[i] \in 8 .. 16
                                  /\ h.sx[i] = 1 \/ (h.sx[i] = 2 /\ i \in {1, 2})
                                  /\ h.sy[i] \in 1 .. h.sx[i]
        /\ h.nlx \in 1 .. 8 /\ h.nly \in (maxSy - 1) .. Smaller(h.nlx, 6)
        /\ h.wf >= MaxSx(h) * 2 ^ h.nlx /\ h.hf >= maxSy * 2 ^ h.nly
        /\ h.cw > 0 => h.wf % ColumnWidth(h) >= MaxSx(h) * 2 ^ h.nlx
        \* Table A.8
        /\ IF lossless THEN /\ \A i \in DOMAIN h.depth : h.depth[i] = h.bw
                            /\ h.br = (IF h.depth[0] > 12 THEN 5 ELSE 4)
                            /\ h.nlt = {} /\ kLossless \in h.cap
           ELSE \/ h.bw = 18 /\ h.fq = 6 /\ h.br = 4 /\ h.nlt # {} /\ h.cap \cap {kQuadraticNlt, kExtendedNlt} # {}
                \/ h.bw = 20 /\ h.fq = 8 /\ h.br = 4 /\ h.cap \cap {kQuadraticNlt, kExtendedNlt} = {}
        /\ \A n \in h.nlt : (IF n.type = 1 THEN kQuadraticNlt ELSE kExtendedNlt) \in h.cap
        \* Table A.9
        /\ h.cpih = 1 => h.nc >= 3 /\ 0 .. 2 \subseteq whole
        /\ h.cpih = 3 => h.nc >= 4 /\ 0 .. 3 \subseteq whole /\ h.cts # {} /\ h.crg # {} /\ kStarTetrix \in h.cap
        /\ \A c \in h.cts : h.cpih = 3 /\ c.cf \in {0, 3} /\ c.e1 \in 0 .. 3 /\ c.e2 \in 0 .. 3
        /\ \A c \in h.crg : DOMAIN c = 0 .. h.nc - 1
        /\ h.sd > 0 => h.nc > 3 /\ h.sd < h.nc /\ h.nc - h.sd .. h.nc - 1 \subseteq whole /\ kCwd \in h.cap
        /\ (kVerticalSubsampling \in h.cap) = vertical
        /\ (kRawModePerPacket \in h.cap) = (h.rl = 1)
        /\ DOMAIN h.weights = Bands(h) /\ \A b \in ExistingBands(h) : h.weights[b].gain \in 0 .. 15
        /\ \A w \in h.wgr : DOMAIN w = Bands(h)
        /\ \A t \in h.tpc : /\ DOMAIN t.yh = Bands(h) /\ DOMAIN t.sh = Bands(h)
                            /\ t.qbi \in -8 .. 7 /\ t.qbr \in -8 .. 7 /\ kTdc \in h.cap

-----------------------------------------------------------------------------
(* The segments as written.  CAP ends with the byte of its highest bit.    *)
CapPayload(cap) ==
    IF cap = {} THEN <<>>
    ELSE LET highest == CHOOSE i \in cap : \A j \in cap : j <= i
         IN  [i \in 1 .. 8 * (highest \div 8 + 1) |-> IF i - 1 \in cap THEN 1 ELSE 0]

PihPayload(h) ==
    PutFields(<< <<"lcod", 32>>, <<"ppih", 16>>, <<"plev", 16>>, <<"wf", 16>>, <<"hf", 16>>, <<"cw", 16>>,
                 <<"hsl", 16>>, <<"nc", 8>>, <<"ng", 8>>, <<"ss", 8>>, <<"bw", 8>>, <<"fq", 4>>, <<"br", 4>>,
                 <<"fslc", 1>>, <<"ppoc", 3>>, <<"cpih", 4>>, <<"nlx", 4>>, <<"nly", 4>>, <<"lh", 1>>,
                 <<"rl", 1>>, <<"qpih", 2>>, <<"fs", 2>>, <<"rm", 2>> >>, h)

CdtPayload(h) ==
    FlattenSeq([k \in 1 .. h.nc |-> PutBits(h.depth[k - 1], 8) \o PutBits(h.sx[k - 1], 4) \o PutBits(h.sy[k - 1], 4)])
WeightsPayload(h, weights) ==
    FlattenSeq([k \in 1 .. NumBands(h) |-> IF ~Exists(h, k - 1) THEN <<>>
                    ELSE PutBits(weights[k - 1].gain, 8) \o PutBits(weights[k - 1].priority, 8)])
NltPayload(n) ==
    PutBits(n.type, 8) \o (IF n.type = 1 THEN PutSigned(n.dco, 15)
                           ELSE PutBits(n.t1, 32) \o PutBits(n.t2, 32) \o PutBits(n.e, 8))
CtsPayload(c) == PutFields(<< <<"reserved", 4>>, <<"cf", 4>>, <<"e1", 4>>, <<"e2", 4>> >>, c ++ [reserved |-> 0])
CrgPayload(c) == FlattenSeq([k \in 1 .. Cardinality(DOMAIN c) |-> PutBits(c[k - 1][1], 16) \o PutBits(c[k - 1][2], 16)])
TpcPayload(h, t) ==
    PutBits(t.si, 8) \o PutSigned(t.qbi, 3) \o PutSigned(t.qbr, 3)
    \o FlattenSeq([k \in 1 .. NumBands(h) |-> PutBits(t.yh[k - 1], 8) \o PutBits(t.sh[k - 1], 8)])

WriteHeaders(h) ==
    <<[marker |-> "SOC"], Segment("CAP", CapPayload(h.cap)), Segment("PIH", PihPayload(h)),
      Segment("CDT", CdtPayload(h)), Segment("WGT", WeightsPayload(h, h.weights))>>
    \o SetToSeq({Segment("WGR", WeightsPayload(h, w)) : w \in h.wgr})
    \o SetToSeq({Segment("NLT", NltPayload(n)) : n \in h.nlt})
    \o (IF h.sd > 0 THEN <<Segment("CWD", PutBits(h.sd, 8))>> ELSE <<>>)
    \o SetToSeq({Segment("CTS", CtsPayload(c)) : c \in h.cts})
    \o SetToSeq({Segment("CRG", CrgPayload(c)) : c \in h.crg})
    \o SetToSeq({Segment("TPC", TpcPayload(h, t)) : t \in h.tpc})
    \o [k \in DOMAIN h.comments |-> Segment("COM", PutBits(h.comments[k], 16))]

-----------------------------------------------------------------------------
(* The segments as parsed.  Each parser throws on a length or a value the  *)
(* standard forbids: Readable says when it does not.                       *)
ParseCap(bits) == {i \in 0 .. Len(bits) - 1 : bits[i + 1] = 1}
CapReadable(bits) == /\ ParseCap(bits) \subseteq 0 .. 31
                     /\ bits # <<>> => GetBits(bits, Len(bits) - 8, 8) # 0

ParsePih(bits) ==
    GetFields(<< <<"lcod", 32>>, <<"ppih", 16>>, <<"plev", 16>>, <<"wf", 16>>, <<"hf", 16>>, <<"cw", 16>>,
                 <<"hsl", 16>>, <<"nc", 8>>, <<"ng", 8>>, <<"ss", 8>>, <<"bw", 8>>, <<"fq", 4>>, <<"br", 4>>,
                 <<"fslc", 1>>, <<"ppoc", 3>>, <<"cpih", 4>>, <<"nlx", 4>>, <<"nly", 4>>, <<"lh", 1>>,
                 <<"rl", 1>>, <<"qpih", 2>>, <<"fs", 2>>, <<"rm", 2>> >>, bits)

ParseCdt(bits, nc) ==
    [depth |-> [i \in 0 .. nc - 1 |-> GetBits(bits, 16 * i, 8)],
     sx |-> [i \in 0 .. nc - 1 |-> GetBits(bits, 16 * i + 8, 4)],
     sy |-> [i \in 0 .. nc - 1 |-> GetBits(bits, 16 * i + 12, 4)]]
ParseWeights(h, bits) ==
    LET existing == ExistingBands(h)
        At(b) == 16 * Cardinality({c \in existing : c < b})
    IN  [b \in Bands(h) |-> IF b \notin existing THEN [gain |-> 0, priority |-> 0]
                            ELSE [gain |-> GetBits(bits, At(b), 8), priority |-> GetBits(bits, At(b) + 8, 8)]]
WeightsReadable(h, segment) ==
    /\ Bytes(segment) = 2 * Cardinality(ExistingBands(h))
    /\ \A b \in Bands(h) : ParseWeights(h, segment.bits)[b].gain <= 15
ParseNlt(bits) ==
    LET type == GetBits(bits, 0, 8)
    IN  IF type = 1 THEN [type |-> 1, dco |-> GetSigned(bits, 8, 15)]
        ELSE [type |-> 2, t1 |-> GetBits(bits, 8, 32), t2 |-> GetBits(bits, 40, 32), e |-> GetBits(bits, 72, 8)]
NltReadable(segment) ==
    LET type == GetBits(segment.bits, 0, 8)
    IN  \/ Bytes(segment) = 3 /\ type = 1
        \/ Bytes(segment) = 10 /\ type = 2 /\ GetBits(segment.bits, 72, 8) \in 1 .. 4
ParseCts(bits) == GetFields(<< <<"reserved", 4>>, <<"cf", 4>>, <<"e1", 4>>, <<"e2", 4>> >>, bits)
ParseCrg(bits, nc) == [i \in 0 .. nc - 1 |-> <<GetBits(bits, 32 * i, 16), GetBits(bits, 32 * i + 16, 16)>>]
ParseTpc(h, bits) ==
    [si |-> GetBits(bits, 0, 8), qbi |-> GetSigned(bits, 8, 3), qbr |-> GetSigned(bits, 12, 3),
     yh |-> [b \in Bands(h) |-> GetBits(bits, 16 + 16 * b, 8)],
     sh |-> [b \in Bands(h) |-> GetBits(bits, 24 + 16 * b, 8)]]

(* ParseHeaders: the segments run up to the first slice header or EOC, CAP *)
(* and PIH first, then the others in any order, each at most once but for  *)
(* comments.  (A further CAP or PIH is not looked at.)  The result is the  *)
(* set of the headers parsed, empty when the parser throws.                *)
HeaderMarkers == {"CAP", "PIH", "CDT", "WGT", "WGR", "NLT", "CWD", "CTS", "CRG", "TPC", "COM"}
Ends(codestream) == {i \in DOMAIN codestream : codestream[i].marker \in {"SLH", "SLI", "EOC"}}
FirstSlice(codestream) == CHOOSE i \in Ends(codestream) : \A j \in Ends(codestream) : i <= j
HeaderSegments(codestream) == SubSeq(codestream, 2, FirstSlice(codestream) - 1)
Of(segments, marker) == {segments[i] : i \in {k \in DOMAIN segments : segments[k].marker = marker}}

SegmentsReadable(segments) ==
    /\ Len(segments) >= 2 /\ segments[1].marker = "CAP" /\ segments[2].marker = "PIH"
    /\ CapReadable(segments[1].bits) /\ Bytes(segments[2]) = 24
    /\ \A i, j \in DOMAIN segments :
          /\ segments[i].marker \in HeaderMarkers
          /\ segments[i].marker = segments[j].marker => i = j \/ segments[i].marker \in {"CAP", "PIH", "COM"}
    /\ Of(segments, "CDT") # {} /\ Of(segments, "WGT") # {}

(* The headers that fix the bands, and the segments read with their help.  *)
BandLayout(segments) ==
    LET pih == ParsePih(segments[2].bits)
        cdt == CHOOSE s \in Of(segments, "CDT") : TRUE
        sd == IF Of(segments, "CWD") = {} THEN 0 ELSE GetBits((CHOOSE s \in Of(segments, "CWD") : TRUE).bits, 0, 8)
    IN  pih @@ ParseCdt(cdt.bits, pih.nc) @@ [sd |-> sd]
BandLayoutReadable(segments) ==
    LET nc == ParsePih(segments[2].bits).nc
    IN  /\ \A s \in Of(segments, "CDT") : Bytes(s) = 2 * nc
        /\ \A s \in Of(segments, "CWD") : Bytes(s) = 1
        /\ BandLayout(segments).sd < nc

Readable(h, segments) ==
    /\ \A s \in Of(segments, "WGT") \cup Of(segments, "WGR") : WeightsReadable(h, s)
    /\ \A s \in Of(segments, "NLT") : NltReadable(s)
    /\ \A s \in Of(segments, "CTS") : Bytes(s) = 2 /\ ParseCts(s.bits).reserved = 0
    /\ \A s \in Of(segments, "CRG") : Bytes(s) = 4 * h.nc
    /\ \A s \in Of(segments, "TPC") : Bytes(s) = 2 + 2 * NumBands(h)
    /\ \A s \in Of(segments, "COM") : Bytes(s) >= 2
Parsed(h, segments) ==
    LET comments == SelectSeq(segments, LAMBDA s : s.marker = "COM")
    IN  h @@ [cap |-> ParseCap(segments[1].bits),
              weights |-> ParseWeights(h, (CHOOSE s \in Of(segments, "WGT") : TRUE).bits),
              wgr |-> {ParseWeights(h, s.bits) : s \in Of(segments, "WGR")},
              nlt |-> {ParseNlt(s.bits) : s \in Of(segments, "NLT")},
              cts |-> {[f \in {"cf", "e1", "e2"} |-> ParseCts(s.bits)[f]] : s \in Of(segments, "CTS")},
              crg |-> {ParseCrg(s.bits, h.nc) : s \in Of(segments, "CRG")},
              tpc |-> {ParseTpc(h, s.bits) : s \in Of(segments, "TPC")},
              comments |-> [k \in DOMAIN comments |-> GetBits(comments[k].bits, 0, 16)]]

ParseHeaders(codestream) ==
    IF \/ codestream = <<>> \/ Ends(codestream) = {}
       \/ codestream[1].marker # "SOC"
       \/ ~SegmentsReadable(HeaderSegments(codestream)) \/ ~BandLayoutReadable(HeaderSegments(codestream))
    THEN {}
    ELSE LET segments == HeaderSegments(codestream)
             layout == BandLayout(segments)
         IN  IF ~Readable(layout, segments) THEN {} ELSE {h \in {Parsed(layout, segments)} : Validate(h)}
=============================================================================
