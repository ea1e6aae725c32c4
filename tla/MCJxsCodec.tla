----------------------------- MODULE MCJxsCodec -----------------------------
(***************************************************************************)
(* Small pictures of every layout the codec distinguishes.                 *)
(***************************************************************************)
EXTENDS JxsCodec

(* Contents: a smooth ramp, noise that fills the sample range, and flat    *)
(* areas with isolated extremes, of which most code groups are zero.       *)
Sample(kind, depth, c, x, y) ==
    LET top == 2 ^ depth - 1
    IN  CASE kind = "ramp"   -> (7 * x + 11 * y + 40 * c) % (top + 1)
          [] kind = "noise"  -> (x * x * 97 + y * y * 61 + x * y * 37 + c * 149 + 13 * y) % (top + 1)
          [] kind = "sparse" -> IF (x + 3 * y + c) % 7 = 0 THEN top
                                ELSE IF (x + y + c) % 11 = 0 THEN 0 ELSE 2 ^ (depth - 1)

MCImage(c, kind) ==
    [k \in 0 .. c.nc - 1 |-> [y \in 0 .. c.hf - 1 |-> [x \in 0 .. CeilDiv(c.wf, c.sx[k]) - 1 |->
        Sample(kind, c.depth[k], k, x, y)]]]

(* Gains fall from the low-pass band on; the priorities are a permutation. *)
Weighted(c) ==
    c @@ [weights |-> [b \in Bands(c) |-> [gain |-> Larger(0, 3 - b \div 2),
                                           priority |-> (5 * b + 2) % NumBands(c)]]]

Layout(nc, sd, cpih, wf, hf, cw, nlx, nly, hsl) ==
    [nc |-> nc, sd |-> sd, cpih |-> cpih, wf |-> wf, hf |-> hf, cw |-> cw, nlx |-> nlx, nly |-> nly,
     hsl |-> hsl, sx |-> [k \in 0 .. nc - 1 |-> 1], sy |-> [k \in 0 .. nc - 1 |-> 1],
     depth |-> [k \in 0 .. nc - 1 |-> 8], cts |-> [cf |-> 0, e1 |-> 0, e2 |-> 0], crg |-> {}]

(* Two lines per precinct and more, a cut-off last row, two slices.        *)
Grey == Layout(1, 0, 0, 9, 10, 0, 2, 2, 2)
(* Bayer mosaics, with and without vertical decomposition, both patterns.  *)
Bayer == [Layout(4, 1, 3, 3, 4, 0, 1, 0, 2) EXCEPT !.depth = [k \in 0 .. 3 |-> 12], !.cts = [cf |-> 0, e1 |-> 1, e2 |-> 2]]
BayerInline == [Layout(4, 1, 3, 3, 3, 0, 1, 1, 8) EXCEPT !.cts.cf = 3,
                                                         !.crg = {Offsets(<<0, 0, 1, 1>>, <<1, 0, 1, 0>>)}]
(* Red, green and blue; subsampled chroma; two precinct columns; three     *)
(* significance groups.                                                    *)
Rgb == Layout(3, 0, 1, 5, 5, 0, 1, 1, 8)
Chroma == [Layout(3, 0, 0, 6, 3, 0, 1, 1, 1) EXCEPT !.sx = [k \in 0 .. 2 |-> IF k = 0 THEN 1 ELSE 2]]
Columns2 == Layout(1, 0, 0, 19, 3, 1, 1, 0, 8)
Wide == Layout(1, 0, 0, 66, 2, 0, 1, 0, 8)

(* qpih, fs, rm, rl, vertical prediction and significance coding.          *)
Flags(q, fs, rm, rl, v, s) == [qpih |-> q, fs |-> fs, rm |-> rm, rl |-> rl, lh |-> 0, vertical |-> v, significance |-> s]
AllFlags == {Flags(1, 0, 1, 1, TRUE, FALSE), Flags(0, 1, 0, 0, TRUE, TRUE),
             Flags(1, 1, 1, 0, TRUE, TRUE), Flags(0, 0, 0, 1, FALSE, TRUE)}

(* Without loss, and at a smaller and a larger budget of bytes per         *)
(* precinct.                                                               *)
WithoutLoss == [lossless |-> TRUE, bytes |-> 0]
Rate(bytes) == [lossless |-> FALSE, bytes |-> bytes]
Demands == ({WithoutLoss} \X {"ramp", "noise", "sparse"})
           \cup ({Rate(20)} \X {"ramp", "noise"}) \cup ({Rate(45)} \X {"noise", "sparse"})

MCJob(layout, flags, rate, kind) ==
    LET c == Weighted(layout @@ flags @@ [lossless |-> rate.lossless])
        headers == MakeHeaders(c)
    IN  [config |-> c @@ [target |-> FixedBytes(headers) + NumPrecincts(headers) * rate.bytes + 1],
         image |-> MCImage(c, kind),
         damaged |-> kind = "sparse" /\ flags.fs = 1]
MCJobs == {MCJob(l, f, d[1], d[2]) : l \in {Grey, Bayer, BayerInline, Rgb, Chroma, Columns2, Wide},
                                     f \in AllFlags, d \in Demands}

(* Other encoders: everything optional at once, vertically subsampled      *)
(* chroma (with bands that do not exist), and both non-linearities.        *)
Plain(layout) ==
    MakeHeaders(Weighted(layout) @@ [lossless |-> FALSE, qpih |-> 1, fs |-> 0, rm |-> 1, rl |-> 0, lh |-> 1])
AnyWeights(hs) == [b \in Bands(hs) |-> [gain |-> b % 16, priority |-> 255 - b]]
Everything == LET hs == Plain(Bayer)
              IN  [hs EXCEPT !.cap = @ \cup {kTdc}, !.wgr = {AnyWeights(hs)}, !.comments = <<32768, 1>>,
                             !.ppih = 4660,
                             !.tpc = {[si |-> 8, qbi |-> -3, qbr |-> 5, yh |-> [b \in Bands(hs) |-> 2 * b],
                                       sh |-> [b \in Bands(hs) |-> 200 - b]]}]
Subsampled == LET hs == Plain([Chroma EXCEPT !.hf = 4, !.sy = [k \in 0 .. 2 |-> IF k = 0 THEN 1 ELSE 2],
                                             !.crg = {[k \in 0 .. 2 |-> <<k, 7 * k>>]}])
              IN  [hs EXCEPT !.cap = @ \cup {kVerticalSubsampling},
                             !.weights = [b \in Bands(hs) |-> IF Exists(hs, b) THEN @[b]
                                                              ELSE [gain |-> 0, priority |-> 0]]]
Gamma(n, capability) == [Plain(Grey) EXCEPT !.bw = 18, !.fq = 6, !.nlt = {n}, !.cap = {capability}]
MCForeign == {Everything, Subsampled, Gamma([type |-> 1, dco |-> -500], kQuadraticNlt),
              Gamma([type |-> 2, t1 |-> 70000, t2 |-> 90001, e |-> 3], kExtendedNlt)}
=============================================================================
