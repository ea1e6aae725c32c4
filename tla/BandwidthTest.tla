---------------------------- MODULE BandwidthTest ----------------------------
(***************************************************************************)
(* Measuring a camera: FrameStatsOp and FrameCheckOp (hsb/ops) behind a    *)
(* receiver, and the verdict of apps/bandwidth_test.                       *)
(*                                                                         *)
(* The FPGA writes the frames to two pages in turn, whether the pipeline   *)
(* keeps up or not.  The receiver hands on the newest frame, stats and     *)
(* check run on threads of their own behind queues of one message, and the *)
(* main thread samples the statistics while they run.  FrameCheckOp reads  *)
(* the page late, and up to twice: for a dump and for the CRC.             *)
(***************************************************************************)
EXTENDS Integers, Sequences, FiniteSets

CONSTANTS
  MaxFrames,    \* bound: frames the FPGA sends
  CrcEvery,     \* --crc-every
  DumpEvery,    \* --dump-every
  DumpLimit,    \* --dump-limit
  AllowedDrops  \* --allow-drops

ASSUME BandwidthAssumption ==
  /\ {MaxFrames, DumpLimit, AllowedDrops} \subseteq Nat
  /\ {CrcEvery, DumpEvery} \subseteq Nat \ {0}

VARIABLES
  sent,     \* frames the FPGA has sent; frame n carries the number n
  pages,    \* what the two pages hold: the frame last written, and whether it is whole
  latest,   \* the newest frame's metadata, <<>> when the receiver has taken it
  drops,    \* the receiver's counter of dropped packets
  toStats, toCheck, \* the queues of the two operators
  stats,    \* FrameStatsSnapshot, and last_dropped_counter_
  check,    \* FrameCheckSnapshot, and what compute() is doing
  ticking,  \* the receiver's run condition
  test,     \* the main thread: "measuring", "draining", or its verdict
  seen,     \* history: the frames FrameStatsOp has processed
  copies    \* history: what the check copied, and found

measureVars == <<sent, pages, latest, drops, toStats, toCheck, stats, check, ticking, test, seen, copies>>

(* How a frame reaches the host: whole, with a packet missing, cut short   *)
(* by the sensor (with a byte count above 0, as only such are counted),    *)
(* constant, whole but without a CRC; or not at all (Lose).                *)
Kinds == {"whole", "damaged", "short", "flat", "no crc"}
Frames == [number : 0..(MaxFrames - 1), kind : Kinds, dropped : 0..MaxFrames]
Slots == {<< >>} \cup {<< f >> : f \in Frames} \* a queue of one message
Idle == "idle"
Contents == [number : 0..(MaxFrames - 1), kind : Kinds] \cup {[number |-> -1, kind |-> "flat"]}

MeasureTypeOK ==
  /\ sent \in 0..MaxFrames /\ drops \in 0..MaxFrames
  /\ pages \in [{0, 1} -> Contents]
  /\ {latest, toStats, toCheck} \subseteq Slots
  /\ stats \in [frames : Nat, gaps : Nat, dropped : Nat, short : Nat,
                first : -1..MaxFrames, last : -1..MaxFrames, counter : -1..MaxFrames]
  /\ check \in [stage : {Idle, "dump", "crc", "emit"}, frame : Slots, frames : Nat, checked : Nat,
                bad : Nat, unavailable : Nat, size : Nat, flat : Nat, dumped : 0..DumpLimit]
  /\ ticking \in BOOLEAN
  /\ test \in {"measuring", "draining", "pass", "fail", "error"}
  /\ seen \subseteq Frames
  /\ copies \subseteq [for : {"dump", "crc"}, frame : Frames, content : Contents]

MeasureInit ==
  /\ sent = 0 /\ drops = 0
  /\ pages = [i \in {0, 1} |-> [number |-> -1, kind |-> "flat"]]
  /\ latest = << >> /\ toStats = << >> /\ toCheck = << >>
  /\ stats = [frames |-> 0, gaps |-> 0, dropped |-> 0, short |-> 0, first |-> -1, last |-> -1, counter |-> -1]
  /\ check = [stage |-> Idle, frame |-> << >>, frames |-> 0, checked |-> 0, bad |-> 0, unavailable |-> 0,
              size |-> 0, flat |-> 0, dumped |-> 0]
  /\ ticking = TRUE /\ test = "measuring"
  /\ seen = {} /\ copies = {}
-----------------------------------------------------------------------------
(* The FPGA and the receiver operator (hololink).                          *)

(* A damaged or lost frame moves the counter of dropped packets.           *)
SendFrame(kind) ==
  /\ sent < MaxFrames /\ test \notin {"pass", "fail", "error"}
  /\ sent' = sent + 1
  /\ drops' = drops + (IF kind = "damaged" THEN 1 ELSE 0)
  /\ pages' = [pages EXCEPT ![sent % 2] = [number |-> sent, kind |-> kind]]
  /\ latest' = << [number |-> sent, kind |-> kind, dropped |-> drops'] >>
  /\ UNCHANGED <<toStats, toCheck, stats, check, ticking, test, seen, copies>>

Lose ==
  /\ sent < MaxFrames /\ test \notin {"pass", "fail", "error"}
  /\ sent' = sent + 1
  /\ drops' = drops + 1
  /\ UNCHANGED <<pages, latest, toStats, toCheck, stats, check, ticking, test, seen, copies>>

Receive ==
  /\ ticking /\ latest # << >> /\ toStats = << >>
  /\ toStats' = latest /\ latest' = << >>
  /\ UNCHANGED <<sent, pages, drops, toCheck, stats, check, ticking, test, seen, copies>>
-----------------------------------------------------------------------------
(* FrameStatsOp                                                            *)

Positive(n) == IF n > 0 THEN n ELSE 0

Skipped_Inclusive(last, number) == Positive(number - last) \* mutant
Skipped(last, number) == Positive(number - last - 1)

(* The first frame only sets the base of the two differences.              *)
Counted(s, f) ==
  [s EXCEPT !.frames = @ + 1,
            !.first = IF @ < 0 THEN f.number ELSE @,
            !.last = f.number,
            !.gaps = @ + (IF s.last >= 0 THEN Skipped(s.last, f.number) ELSE 0),
            !.dropped = @ + (IF s.counter >= 0 THEN Positive(f.dropped - s.counter) ELSE 0),
            !.counter = f.dropped,
            !.short = @ + (IF f.kind = "short" THEN 1 ELSE 0)]

(* The output has no condition: stats runs although check has a frame      *)
(* waiting, and the framework then refuses the message and the run fails.  *)
StatsCompute ==
  /\ toStats # << >>
  /\ stats' = Counted(stats, Head(toStats))
  /\ seen' = seen \cup {Head(toStats)}
  /\ toStats' = << >>
  /\ IF toCheck = << >> THEN toCheck' = toStats /\ UNCHANGED test
                        ELSE test' = "error" /\ UNCHANGED toCheck
  /\ test \notin {"pass", "fail", "error"}
  /\ UNCHANGED <<sent, pages, latest, drops, check, ticking, copies>>
-----------------------------------------------------------------------------
(* FrameCheckOp                                                            *)

Due(every) == check.frames % every = 0
Page(f) == pages[f.number % 2]

(* compute() copies the page for the dump, then again for the CRC.         *)
Stages_CrcFirst == <<"crc", "dump", "emit">> \* mutant
Stages == <<"dump", "crc", "emit">>
After(stage) == LET i == CHOOSE i \in 1..2 : Stages[i] = stage IN Stages[i + 1]

CheckBegin ==
  /\ check.stage = Idle /\ toCheck # << >>
  /\ check' = [check EXCEPT !.stage = Stages[1], !.frame = toCheck, !.frames = @ + 1,
                            !.size = @ + (IF Head(toCheck).kind = "short" THEN 1 ELSE 0)]
  /\ toCheck' = << >>
  /\ UNCHANGED <<sent, pages, latest, drops, toStats, stats, ticking, test, seen, copies>>

Copy(purpose, f) == copies' = copies \cup {[for |-> purpose, frame |-> f, content |-> Page(f)]}

WantDump == check.dumped < DumpLimit /\ Due(DumpEvery)

CheckDump ==
  /\ check.stage = "dump"
  /\ IF WantDump
     THEN /\ Copy("dump", Head(check.frame))
          /\ check' = [check EXCEPT !.stage = After(@), !.dumped = @ + 1]
     ELSE check' = [check EXCEPT !.stage = After(@)] /\ UNCHANGED copies
  /\ UNCHANGED <<sent, pages, latest, drops, toStats, toCheck, stats, ticking, test, seen>>

(* The FPGA's CRC is that of the frame as it was sent.                     *)
Intact(f, content) == content.number = f.number /\ content.kind # "damaged"

Mismatch_OfMetadata(f) == f.kind = "damaged" \* mutant: the page is not looked at
Mismatch(f) == ~Intact(f, Page(f))

Verified(f) ==
  [check EXCEPT !.stage = After(@), !.checked = @ + 1,
                !.bad = @ + (IF Mismatch(f) THEN 1 ELSE 0),
                !.flat = @ + (IF Page(f).kind = "flat" THEN 1 ELSE 0)]

(* A CRC of 0 in the metadata means that the FPGA gave none.               *)
CheckCrc ==
  LET f == Head(check.frame) IN
  /\ check.stage = "crc"
  /\ \/ ~Due(CrcEvery) /\ check' = [check EXCEPT !.stage = After(@)] /\ UNCHANGED copies
     \/ Due(CrcEvery) /\ f.kind = "no crc" /\ UNCHANGED copies
        /\ check' = [check EXCEPT !.stage = After(@), !.unavailable = @ + 1]
     \/ Due(CrcEvery) /\ f.kind # "no crc" /\ check' = Verified(f) /\ Copy("crc", f)
  /\ UNCHANGED <<sent, pages, latest, drops, toStats, toCheck, stats, ticking, test, seen>>

(* Receive-only: nothing is connected behind the check.                    *)
CheckEnd ==
  /\ check.stage = "emit"
  /\ check' = [check EXCEPT !.stage = Idle, !.frame = << >>]
  /\ UNCHANGED <<sent, pages, latest, drops, toStats, toCheck, stats, ticking, test, seen, copies>>
-----------------------------------------------------------------------------
(* apps/bandwidth_test                                                     *)

TakeEnd_NoStop == \* mutant
  /\ test = "measuring"
  /\ test' = "draining"
  /\ UNCHANGED <<sent, pages, latest, drops, toStats, toCheck, stats, check, ticking, seen, copies>>

(* The measurement ends before the pipeline drains; the windows and rates  *)
(* themselves are not modelled.                                            *)
TakeEnd ==
  /\ test = "measuring"
  /\ test' = "draining"
  /\ ticking' = FALSE
  /\ UNCHANGED <<sent, pages, latest, drops, toStats, toCheck, stats, check, seen, copies>>

Drained == ~ticking /\ toStats = << >> /\ toCheck = << >> /\ check.stage = Idle

Passes_Reported(rateOk) == \* mutant: only what the receiver reports counts
  /\ stats.frames > 0 /\ rateOk
  /\ stats.dropped <= AllowedDrops
  /\ stats.short = 0 /\ check.bad = 0 /\ check.flat = 0

(* The rate is compared with what the sensor's timing predicts: rateOk.    *)
Passes(rateOk) ==
  /\ stats.frames > 0 /\ rateOk
  /\ stats.gaps + stats.dropped <= AllowedDrops
  /\ stats.short = 0 /\ check.bad = 0 /\ check.flat = 0

(* After future.get(): every operator has run to its end.                  *)
Judge ==
  /\ test = "draining" /\ Drained
  /\ \E rateOk \in BOOLEAN : test' = IF Passes(rateOk) THEN "pass" ELSE "fail"
  /\ UNCHANGED <<sent, pages, latest, drops, toStats, toCheck, stats, check, ticking, seen, copies>>

Pipeline == Receive \/ StatsCompute \/ CheckBegin \/ CheckDump \/ CheckCrc \/ CheckEnd

MeasureNext ==
  \/ \E kind \in Kinds : SendFrame(kind)
  \/ Lose \/ Pipeline \/ TakeEnd \/ Judge

MeasureSpec == MeasureInit /\ [][MeasureNext]_measureVars
FairMeasureSpec == MeasureSpec /\ WF_measureVars(Pipeline) /\ WF_measureVars(TakeEnd) /\ WF_measureVars(Judge)
-----------------------------------------------------------------------------
(* The gaps are exactly the frames missing between the first and the last  *)
(* frame that came through, however the frames were lost: on the wire, or  *)
(* overtaken before the receiver took them.                                *)
GapsExact ==
  stats.frames > 0 => stats.gaps = (stats.last - stats.first + 1) - Cardinality(seen)

(* PASS with no drops allowed: between the first and the last frame none   *)
(* is missing or short, and every frame the CRC was due for was compared,  *)
(* in full, with what the FPGA sent, unless the FPGA gave no CRC.          *)
PassIsSound ==
  test = "pass" /\ AllowedDrops = 0 =>
    /\ {f.number : f \in seen} = stats.first..stats.last
    /\ \A f \in seen : f.kind # "short"
    /\ check.checked + check.unavailable = Cardinality(seen) \div CrcEvery
    /\ \A c \in copies : c.for = "crc" => Intact(c.frame, c.content) /\ c.content.kind # "flat"

(* DESIGN.md 6.3: a page overwritten while a frame of it is still read is  *)
(* detected, for the frames the CRC is checked of: no page that changed    *)
(* under the check counts as good.                                         *)
OverwriteDetected ==
  check.bad = Cardinality({c \in copies : c.for = "crc" /\ ~Intact(c.frame, c.content)})

(* A frame that was dumped and whose CRC was then found good has a good    *)
(* dump: the dump is the earlier of the two copies.                        *)
VerifiedDumpIsGood ==
  \A d, c \in copies :
    d.for = "dump" /\ c.for = "crc" /\ d.frame = c.frame /\ Intact(c.frame, c.content)
      => Intact(d.frame, d.content)

(* The run comes to a verdict, or the framework ends it.                   *)
Concludes == <>(test \in {"pass", "fail", "error"})
=============================================================================
