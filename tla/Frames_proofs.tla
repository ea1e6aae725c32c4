---------------------------- MODULE Frames_proofs ----------------------------
(***************************************************************************)
(* Proofs about where frames come from and how they are counted: the       *)
(* emulated camera (EmuSource), for every set of configurations and frame  *)
(* rates, every number of sessions and of killed hosts, and then the       *)
(* measurement of a camera (BandwidthTest), for every number of frames,    *)
(* every way of losing and damaging them and every CRC and dump interval.  *)
(*                                                                         *)
(* EmuSource: a session is trusted with what it has written or still has   *)
(* to write (ScriptInv): so the registers are the plan's when the script   *)
(* is empty, whatever an earlier session left in them.  Once they are, a   *)
(* frame of another geometry can only be one that was read before          *)
(* (StrayInv).  The pace of the frames is an invariant of the thread alone *)
(* (PaceInv).                                                              *)
(*                                                                         *)
(* BandwidthTest: the argument is one of order.  A frame moves from the    *)
(* receiver through the two queues into the check, and frames never        *)
(* overtake each other (CheckInOrder); what is behind in the pipeline was  *)
(* counted, or copied, before.  And a page is only ever overwritten by a   *)
(* later frame, so that a copy that was spoilt stays spoilt (PagesMoveOn). *)
(***************************************************************************)
EXTENDS EmuSource, BandwidthTest, SequenceTheorems, FiniteSetTheorems, TLAPS

(* The values a plan gives to the registers, and the registers it writes.  *)
Value(p) ==
  LET m == kModes[p.mode]
  IN [MDBIT |-> IF m.bits = 12 THEN 1 ELSE 0, ADDMODE |-> IF m.readout = "binning" THEN 1 ELSE 0,
      WINMODE |-> IF m.readout = "crop" THEN 4 ELSE 0,
      PIX_HWIDTH |-> m.width, PIX_VWIDTH |-> m.height,
      HMAX |-> p.timing.hmax, VMAX |-> p.timing.vmax]

Window == {"PIX_HWIDTH", "PIX_VWIDTH"}
Switches == {"MDBIT", "ADDMODE", "WINMODE"}
Lengths == {"HMAX", "VMAX"}
Config(p) == Switches \cup Lengths \cup (IF kModes[p.mode].readout = "crop" THEN Window ELSE {})

ToWrite(p, S) == {w \in Writes : w.register \in S /\ w.value = Byte(Value(p)[w.register], w.byte)}
Elems(s) == {s[i] : i \in DOMAIN s}

IsWord(n) == n \in Nat /\ n < 65536
IsLineLength(n) == IsWord(n) /\ n >= 100

PlanOK ==
  host # "off" =>
    /\ plan = [mode |-> plan.mode, want |-> plan.want, timing |-> plan.timing, layout |-> plan.layout]
    /\ plan.mode \in Modes /\ plan.layout = CsiLayout(kModes[plan.mode])
    /\ plan.timing = [rate |-> plan.timing.rate, hmax |-> plan.timing.hmax, vmax |-> plan.timing.vmax]
    /\ IsLineLength(plan.timing.hmax) /\ plan.timing.vmax \in 0..kMaxVmax

ScriptInv ==
  /\ host \in {"off", "streaming"} => script = << >>
  /\ host # "off" =>
       /\ \A w \in Elems(script) : w.register \in Config(plan) => w \in ToWrite(plan, Config(plan))
       /\ \A w \in ToWrite(plan, Config(plan)) :
            w \in Elems(script) \/ registers[w.register][w.byte] = w.value
  /\ host \notin {"off", "configuring"} =>
       \A w \in Elems(script) : w.register \in {"STANDBY", "XMSTA", "VMAX"}

StrayInv ==
  /\ strays <= 1 /\ (host = "configuring" => strays = 0)
  /\ host \notin {"off", "configuring"} /\ strays >= 1 /\ pc = "send" =>
       FrameOf(current) = plan.layout

LateInv ==
  /\ late <= 1 /\ (streaming(registers) => late = 0)
  /\ pc \in {"read", "send"} => late = 0

PaceInv ==
  /\ pc = "send" => current.period >= 1
  /\ ~behind =>
       /\ pc # "retry" /\ burst <= 1
       /\ pc \in {"test", "idle", "read", "send"} => burst = 0
       /\ pc \in {"test", "read", "send", "sleep"} => due >= 0
       /\ pc = "sleep" /\ due = 0 => burst = 0

IndInv == TypeOK /\ PlanOK /\ ScriptInv /\ StrayInv /\ LateInv /\ PaceInv
-----------------------------------------------------------------------------
(* Registers and their bytes.                                              *)
LEMMA NamesAre ==
  Names = {"STANDBY", "XMSTA", "MDBIT", "ADDMODE", "WINMODE", "PIX_HWIDTH", "PIX_VWIDTH", "HMAX", "VMAX"}
  BY DEF Names, Defaults

LEMMA Widths ==
  /\ \A name \in {"STANDBY", "XMSTA", "MDBIT", "ADDMODE", "WINMODE"} : Width(name) = 1
  /\ \A name \in {"PIX_HWIDTH", "PIX_VWIDTH", "HMAX"} : Width(name) = 2
  /\ Width("VMAX") = 3
  /\ \A name \in Names : Width(name) \in 1..3
<1>1. \A n \in 1..3, v \in Int : Len(Bytes(n, v)) = n
  BY DEF Bytes
<1> QED
  BY <1>1, NamesAre DEF Width, Defaults

LEMMA ByteInRange ==
  ASSUME NEW v \in Int, NEW i \in 1..3
  PROVE  Byte(v, i) \in 0..255
  BY DEF Byte, Scale

(* A value of so many bytes is the sum of its bytes.                       *)
LEMMA Division ==
  ASSUME NEW v \in Nat
  PROVE  /\ v \div 256 \in Nat /\ v % 256 \in 0..255 /\ v = 256 * (v \div 256) + (v % 256)
         /\ v <= 255 => v % 256 = v
         /\ v <= 65535 => v \div 256 <= 255
<1>1. v \div 256 \in Nat /\ v % 256 \in 0..255
  BY SMT
<1>2. v = 256 * (v \div 256) + (v % 256)
  BY SMT
<1>3. v <= 255 => v % 256 = v
  BY SMT
<1>4. v <= 65535 => v \div 256 <= 255
  BY SMT
<1> QED
  BY <1>1, <1>2, <1>3, <1>4, SMT

LEMMA BytesOf ==
  ASSUME NEW v \in Nat
  PROVE  /\ Byte(v, 1) = v % 256 /\ Byte(v, 2) = (v \div 256) % 256
         /\ Byte(v, 3) = ((v \div 256) \div 256) % 256
<1>1. v \div 1 = v /\ v \div 65536 = (v \div 256) \div 256
  BY SMT
<1> QED
  BY <1>1, SMT DEF Byte, Scale

LEMMA BytesAddUp ==
  ASSUME NEW v \in Nat, v <= kMaxVmax
  PROVE  /\ v <= 255 => Byte(v, 1) = v
         /\ v <= 65535 => Byte(v, 1) + 256 * Byte(v, 2) = v
         /\ Byte(v, 1) + 256 * Byte(v, 2) + 65536 * Byte(v, 3) = v
<1> DEFINE q == v \div 256
           h == q \div 256
<1>1. v \in Nat /\ v <= 1048575
  BY SMT DEF kMaxVmax
<1>2. q \in Nat /\ v = 256 * q + (v % 256) /\ v % 256 \in 0..255
  BY <1>1, Division, SMT
<1>3. q <= 65535
  BY <1>1, <1>2, SMT
<1>4. h \in Nat /\ q = 256 * h + (q % 256) /\ q % 256 \in 0..255 /\ h <= 255
  BY <1>2, <1>3, Division, SMT
<1>5. h % 256 = h /\ (v <= 65535 => q <= 255) /\ (q <= 255 => q % 256 = q)
  BY <1>1, <1>2, <1>4, Division, SMT
<1>6. Byte(v, 1) = v % 256 /\ Byte(v, 2) = q % 256 /\ Byte(v, 3) = h % 256
  BY <1>1, BytesOf, SMT
<1>7. v <= 255 => v % 256 = v
  BY <1>1, Division, SMT
<1> HIDE DEF q, h
<1>9. v <= 65535 => Byte(v, 1) + 256 * Byte(v, 2) = v
  BY <1>1, <1>2, <1>4, <1>5, <1>6, SMT
<1>10. Byte(v, 1) + 256 * Byte(v, 2) + 65536 * Byte(v, 3) = v
  BY <1>1, <1>2, <1>4, <1>5, <1>6, SMT
<1> QED
  BY <1>6, <1>7, <1>9, <1>10

LEMMA MaxOfTwo ==
  ASSUME NEW a \in Int, NEW b \in Int
  PROVE  Max({a, b}) \in {a, b} /\ Max({a, b}) >= a /\ Max({a, b}) >= b
<1>1. \E x \in {a, b} : \A y \in {a, b} : x >= y
  OBVIOUS
<1> QED
  BY <1>1 DEF Max

LEMMA MinOfTwo ==
  ASSUME NEW a \in Int, NEW b \in Int
  PROVE  Min({a, b}) \in {a, b} /\ Min({a, b}) <= a /\ Min({a, b}) <= b
<1>1. \E x \in {a, b} : \A y \in {a, b} : x <= y
  OBVIOUS
<1> QED
  BY <1>1 DEF Min

LEMMA Caps ==
  ASSUME NEW n \in 0..2
  PROVE  AtMost2(n + 1) \in 0..2 /\ (n = 0 => AtMost2(n + 1) = 1)
<1>1. AtMost2(n + 1) \in {n + 1, 2} /\ AtMost2(n + 1) <= n + 1 /\ AtMost2(n + 1) <= 2
  BY MinOfTwo DEF AtMost2
<1> QED
  BY <1>1

LEMMA PeriodIsPositive ==
  ASSUME NEW h \in Nat, NEW v \in Nat
  PROVE  Period(h, v) \in Nat /\ Period(h, v) >= 1
<1> DEFINE ticks == (h * v + TickCycles \div 2) \div TickCycles
<1>1. h * v \in Int
  BY SMT
<1>2. ticks \in Int
  BY <1>1, SMT DEF TickCycles
<1>3. Period(h, v) \in {2, Max({1, ticks})}
  BY Zenon DEF Period
<1> HIDE DEF ticks
<1>4. Max({1, ticks}) \in {1, ticks} /\ Max({1, ticks}) >= 1
  BY <1>2, MaxOfTwo, SMT
<1> QED
  BY <1>2, <1>3, <1>4, SMT

Typed(r) == DOMAIN r = Names /\ \A name \in Names : r[name] \in [1..Width(name) -> 0..255]

LEMMA MultiIsNat ==
  ASSUME NEW r, Typed(r), NEW name \in Names
  PROVE  multi(r, name) \in Nat
<1>1. r[name] \in [1..Width(name) -> 0..255] /\ Width(name) \in 1..3
  BY Widths DEF Typed
<1>2. DOMAIN r[name] = 1..Width(name) /\ \A i \in 1..Width(name) : r[name][i] \in 0..255
  BY <1>1
<1>3. \A i \in 1..3 : ByteAt(r[name], i) \in 0..255
  BY <1>2 DEF ByteAt
<1> HIDE DEF ByteAt
<1>4. ByteAt(r[name], 1) \in Nat /\ ByteAt(r[name], 2) \in Nat /\ ByteAt(r[name], 3) \in Nat
  BY <1>3
<1> QED
  BY <1>4, SMT DEF multi

LEMMA GeometryHasPeriod ==
  ASSUME NEW r, Typed(r)
  PROVE  geometry(r).period \in Nat /\ geometry(r).period >= 1
<1>1. multi(r, "HMAX") \in Nat /\ multi(r, "VMAX") \in Nat
  BY MultiIsNat, NamesAre
<1> QED
  BY <1>1, PeriodIsPositive DEF geometry
-----------------------------------------------------------------------------
(* What a script is made of.                                               *)
LEMMA ElemsOfConcat ==
  ASSUME NEW s \in Seq(Writes), NEW t \in Seq(Writes)
  PROVE  s \o t \in Seq(Writes) /\ Elems(s \o t) = Elems(s) \cup Elems(t)
<1>1. s \o t \in Seq(Writes)
  OBVIOUS
<1>2. \A i \in DOMAIN (s \o t) : (s \o t)[i] \in Elems(s) \cup Elems(t)
  BY DEF Elems
<1>3. \A i \in DOMAIN s : i \in DOMAIN (s \o t) /\ (s \o t)[i] = s[i]
  OBVIOUS
<1>4. \A i \in DOMAIN t : Len(s) + i \in DOMAIN (s \o t) /\ (s \o t)[Len(s) + i] = t[i]
  OBVIOUS
<1>5. Elems(s) \cup Elems(t) \subseteq Elems(s \o t)
  BY <1>3, <1>4, Zenon DEF Elems
<1>6. Elems(s \o t) \subseteq Elems(s) \cup Elems(t)
  BY <1>2, Zenon DEF Elems
<1> QED
  BY <1>1, <1>5, <1>6

LEMMA ElemsOfTail ==
  ASSUME NEW s \in Seq(Writes), s # << >>
  PROVE  /\ Head(s) \in Writes /\ Tail(s) \in Seq(Writes)
         /\ Elems(s) = {Head(s)} \cup Elems(Tail(s))
<1>1. Head(s) \in Writes /\ Tail(s) \in Seq(Writes) /\ Head(s) = s[1] /\ 1 \in DOMAIN s
  OBVIOUS
<1>2. \A i \in DOMAIN Tail(s) : i + 1 \in DOMAIN s /\ Tail(s)[i] = s[i + 1]
  OBVIOUS
<1>3. \A i \in DOMAIN s : i = 1 \/ (i - 1 \in DOMAIN Tail(s) /\ s[i] = Tail(s)[i - 1])
  OBVIOUS
<1>4. Elems(s) \subseteq {Head(s)} \cup Elems(Tail(s))
  BY <1>1, <1>3 DEF Elems
<1>5. Elems(Tail(s)) \subseteq Elems(s)
  BY <1>2, Zenon DEF Elems
<1>6. Head(s) \in Elems(s)
  BY <1>1 DEF Elems
<1> QED
  BY <1>1, <1>4, <1>5, <1>6

LEMMA ElemsOfWrite ==
  ASSUME NEW name \in Names, NEW v \in Int
  PROVE  /\ Write(name, v) \in Seq(Writes)
         /\ Elems(Write(name, v)) = {w \in Writes : w.register = name /\ w.value = Byte(v, w.byte)}
<1> DEFINE W(i) == [register |-> name, byte |-> i, value |-> Byte(v, i)]
<1>1. Width(name) \in 1..3
  BY Widths
<1>2. \A i \in 1..Width(name) : W(i) \in Writes
  BY <1>1, ByteInRange DEF Writes
<1>3. Write(name, v) = [i \in 1..Width(name) |-> W(i)]
  BY DEF Write
<1>4. Write(name, v) \in Seq(Writes) /\ DOMAIN Write(name, v) = 1..Width(name)
  BY <1>1, <1>2, <1>3
<1>5. \A w \in Writes : w.register = name /\ w.value = Byte(v, w.byte) =>
        w.byte \in 1..Width(name) /\ w = W(w.byte)
  BY <1>1 DEF Writes
<1> QED
  BY <1>2, <1>3, <1>4, <1>5 DEF Elems
-----------------------------------------------------------------------------
(* The timing of a plan fits its registers.                                *)
IsMode(m) ==
  /\ m.fps \in Rates /\ m.hmax \in {0, 341} /\ m.bits \in {10, 12}
  /\ IsWord(m.width) /\ m.width # 0 /\ IsWord(m.height) /\ m.height # 0
  /\ m.readout \in {"all-pixel", "crop", "binning"}
  /\ m.readout = "all-pixel" => m.width = 3552 /\ m.height = 3556
  /\ m.readout = "binning" => m.width = 1776 /\ m.height = 1778 /\ m.bits = 12

LEMMA ModesAreModes == \A k \in Modes : IsMode(kModes[k])
<1>1. Modes = {"FULL_RAW10", "FULL_RAW12", "BIN2_RAW12", "CROP_3552X2160_RAW10",
               "CROP_1280X720_RAW10", "BIN2_RAW12_60"}
  BY SMT DEF Modes, kModes
<1>2. IsMode(kModes["FULL_RAW10"]) /\ IsMode(kModes["FULL_RAW12"])
  BY SMT DEF kModes, IsMode, Rates, IsWord
<1>3. IsMode(kModes["BIN2_RAW12"]) /\ IsMode(kModes["BIN2_RAW12_60"])
  BY SMT DEF kModes, IsMode, Rates, IsWord
<1>4. IsMode(kModes["CROP_3552X2160_RAW10"]) /\ IsMode(kModes["CROP_1280X720_RAW10"])
  BY SMT DEF kModes, IsMode, Rates, IsWord
<1> QED
  BY <1>1, <1>2, <1>3, <1>4

LEMMA LinesAreInt ==
  ASSUME NEW a \in Nat, NEW b \in Nat, b > 0
  PROVE  RoundUpEven(CeilDiv(a, b)) \in Int
<1>1. CeilDiv(a, b) \in Int
  BY SMT DEF CeilDiv
<1>2. \A n \in Int : RoundUpEven(n) \in Int
  BY SMT DEF RoundUpEven
<1> QED
  BY <1>1, <1>2

LEMMA MinVmaxIsNat ==
  ASSUME NEW m, IsMode(m)
  PROVE  MinVmax(m) \in Nat
<1>1. IsWord(m.height)
  BY Zenon DEF IsMode
<1>2. ReadoutLines(m) \in Nat
  BY <1>1, SMT DEF ReadoutLines, IsWord
<1> QED
  BY <1>2, SMT DEF MinVmax, kVmaxMargin

LEMMA Capped ==
  ASSUME NEW a \in Int, NEW b \in Nat
  PROVE  Min({Max({a, b}), kMaxVmax}) \in 0..kMaxVmax
<1>1. PICK x \in Int : x = Max({a, b}) /\ x >= b
  <2>1. b \in Int
    OBVIOUS
  <2>2. Max({a, b}) \in {a, b} /\ Max({a, b}) >= b
    BY <2>1, MaxOfTwo, Zenon
  <2>3. Max({a, b}) \in Int
    BY <2>1, <2>2, Zenon
  <2> QED
    BY <2>2, <2>3, Zenon
<1>2. kMaxVmax \in Nat
  BY SMT DEF kMaxVmax
<1>3. PICK y : y = Min({x, kMaxVmax}) /\ y \in {x, kMaxVmax} /\ y <= kMaxVmax
  <2>1. kMaxVmax \in Int
    BY <1>2, SMT
  <2> QED
    BY <2>1, MinOfTwo, Zenon
<1>4. y \in 0..kMaxVmax
  BY <1>1, <1>2, <1>3, SMT
<1> QED
  BY <1>1, <1>3, <1>4, Zenon

LEMMA VmaxFits ==
  ASSUME NEW m, IsMode(m), NEW hmax, IsLineLength(hmax), NEW fps, fps \in Rates
  PROVE  VmaxForFps(m, hmax, fps) \in 0..kMaxVmax
<1>1. fps[1] \in Nat \ {0} /\ fps[2] \in Nat \ {0}
  BY SMT DEF Rates
<1>2. hmax * fps[1] \in Nat /\ hmax * fps[1] > 0
  <2>1. ASSUME NEW a \in Nat \ {0}, NEW b \in Nat \ {0}  PROVE a * b \in Nat /\ a * b > 0
    BY SMT
  <2>2. hmax \in Nat \ {0}
    BY SMT DEF IsLineLength, IsWord
  <2> QED
    BY <1>1, <2>1, <2>2, Zenon
<1>3. kHmaxClockHz * fps[2] \in Nat
  BY <1>1, SMT DEF kHmaxClockHz
<1>4. RoundUpEven(CeilDiv(kHmaxClockHz * fps[2], hmax * fps[1])) \in Int
  BY <1>2, <1>3, LinesAreInt, Zenon
<1> QED
  BY <1>4, MinVmaxIsNat, Capped, Zenon DEF VmaxForFps

LEMMA FastestIsOne ==
  ASSUME NEW S, S \subseteq kAllLaneRates, S # {}
  PROVE  Max(S) \in S
<1> DEFINE Fastest(x) == x \in S /\ \A y \in S : x >= y
<1>1. \A y \in S : y \in {2376, 2079, 1782, 1440, 1188, 891, 720, 594}
  BY SMT DEF kAllLaneRates
<1>2. 2376 \in S => Fastest(2376)
  BY <1>1, SMT
<1>3. 2376 \notin S /\ 2079 \in S => Fastest(2079)
  BY <1>1, SMT
<1>4. S \cap {2376, 2079} = {} /\ 1782 \in S => Fastest(1782)
  BY <1>1, SMT
<1>5. S \cap {2376, 2079, 1782} = {} /\ 1440 \in S => Fastest(1440)
  BY <1>1, SMT
<1>6. S \cap {2376, 2079, 1782, 1440} = {} /\ 1188 \in S => Fastest(1188)
  BY <1>1, SMT
<1>7. S \cap {2376, 2079, 1782, 1440, 1188} = {} /\ 891 \in S => Fastest(891)
  BY <1>1, SMT
<1>8. S \cap {2376, 2079, 1782, 1440, 1188, 891} = {} /\ 720 \in S => Fastest(720)
  BY <1>1, SMT
<1>9. S \cap {2376, 2079, 1782, 1440, 1188, 891, 720} = {} => Fastest(594)
  BY <1>1, SMT
<1>10. \E x : Fastest(x)
  <2> HIDE DEF Fastest
  <2> QED
    BY <1>2, <1>3, <1>4, <1>5, <1>6, <1>7, <1>8, <1>9, SMT
<1> QED
  BY <1>10, SMT DEF Max

LEMMA TableHmaxFits ==
  ASSUME NEW rate, rate \in kAllLaneRates, NEW lanes
  PROVE  IsLineLength(HmaxFor(rate, lanes))
<1>1. rate \in {2376, 2079, 1782, 1440, 1188, 891, 720, 594}
  BY SMT DEF kAllLaneRates
<1>2. rate \in {720, 594} => HmaxFor(rate, lanes) = 1256
  BY SMT DEF HmaxFor
<1>3. rate \in {1440, 891} => HmaxFor(rate, lanes) = 628
  BY SMT DEF HmaxFor
<1>4. rate = 1188 => HmaxFor(rate, lanes) \in {628, 1256}
  BY SMT DEF HmaxFor
<1>5. rate = 1782 => HmaxFor(rate, lanes) = 314
  BY SMT DEF HmaxFor
<1>6. rate = 2079 => HmaxFor(rate, lanes) = 366
  BY SMT DEF HmaxFor
<1>7. rate = 2376 => HmaxFor(rate, lanes) \in {318, 628}
  BY SMT DEF HmaxFor
<1> QED
  BY <1>1, <1>2, <1>3, <1>4, <1>5, <1>6, <1>7, SMT DEF IsLineLength, IsWord

IsTiming(t) == t = [rate |-> t.rate, hmax |-> t.hmax, vmax |-> t.vmax]
               /\ IsLineLength(t.hmax) /\ t.vmax \in 0..kMaxVmax

LEMMA TimingFits ==
  ASSUME NEW m, IsMode(m), NEW rate, rate \in kAllLaneRates, NEW want,
         want.fps \in Rates \cup {<<0, 1>>}, IsWord(want.hmax), want.hmax \notin 1..99
  PROVE  IsTiming(Timing(m, rate, want))
<1> DEFINE t == Timing(m, rate, want)
<1>1. t = [rate |-> t.rate, hmax |-> t.hmax, vmax |-> t.vmax]
  BY Zenon DEF Timing
<1>2. IsLineLength(t.hmax)
  <2>1. want.hmax # 0 => t.hmax = want.hmax
    BY SMT DEF Timing
  <2>2. want.hmax = 0 /\ m.hmax # 0 => t.hmax = m.hmax
    BY SMT DEF Timing
  <2>3. want.hmax = 0 /\ m.hmax = 0 => t.hmax = HmaxFor(rate, want.lanes)
    BY SMT DEF Timing
  <2>4. m.hmax \in {0, 341}
    BY SMT DEF IsMode
  <2>5. IsLineLength(HmaxFor(rate, want.lanes))
    BY TableHmaxFits, Zenon
  <2>6. IsLineLength(341) /\ (want.hmax # 0 => IsLineLength(want.hmax))
    BY SMT DEF IsWord, IsLineLength
  <2> HIDE DEF t
  <2> QED
    BY <2>1, <2>2, <2>3, <2>4, <2>5, <2>6, Zenon
<1>3. PICK fps : fps \in Rates /\ t.vmax = VmaxForFps(m, t.hmax, fps)
  <2>1. m.fps \in Rates /\ (want.fps[1] > 0 => want.fps \in Rates)
    BY SMT DEF IsMode
  <2>2. t.vmax = VmaxForFps(m, t.hmax, IF want.fps[1] > 0 THEN want.fps ELSE m.fps)
    BY Zenon DEF Timing
  <2> HIDE DEF t
  <2> QED
    BY <2>1, <2>2, Zenon
<1> HIDE DEF t
<1>4. t.vmax \in 0..kMaxVmax
  BY <1>2, <1>3, VmaxFits, SMT
<1> QED
  BY <1>1, <1>2, <1>4 DEF IsTiming, t

LEMMA PlannedTimingFits ==
  ASSUME NEW w \in Wants, PlanTiming(kModes[w.mode], w.want) # NoTiming
  PROVE  /\ w.mode \in Modes
         /\ IsTiming(PlanTiming(kModes[w.mode], w.want))
<1>1. w.mode \in Modes /\ w.want.fps \in Rates \cup {<<0, 1>>} /\ IsWord(w.want.hmax)
  <2>1. w.mode \in Modes /\ w.want \in Wanted /\ w.want.hmax < 65536
    BY EmuAssumption, SMT DEF EmuAssumption
  <2>2. w.want.fps \in Rates \cup {<<0, 1>>} /\ w.want.hmax \in Nat
    BY <2>1, SMT DEF Wanted
  <2> QED
    BY <2>1, <2>2, SMT DEF IsWord
<1>2. IsMode(kModes[w.mode])
  BY <1>1, ModesAreModes, Zenon
<1>3. PICK rates : /\ rates # {} /\ rates \subseteq kAllLaneRates /\ w.want.hmax \notin 1..99
                   /\ PlanTiming(kModes[w.mode], w.want)
                        = Timing(kModes[w.mode], Max(rates), w.want)
  <2> DEFINE m == kModes[w.mode]
             r == IF w.want.rate # 0 THEN Usable(m, w.want.max) \cap {w.want.rate}
                  ELSE Usable(m, w.want.max)
  <2>1. r # {} /\ w.want.hmax \notin 1..99 /\ PlanTiming(m, w.want) = Timing(m, Max(r), w.want)
    BY Zenon DEF PlanTiming
  <2>2. r \subseteq kAllLaneRates
    BY Zenon DEF Usable
  <2> HIDE DEF r
  <2> QED
    BY <2>1, <2>2
<1> QED
  BY <1>1, <1>2, <1>3, FastestIsOne, TimingFits, Zenon
-----------------------------------------------------------------------------
(* configure() writes the plan's values, and all of them.                  *)
IsPart(p, s, S) == s \in Seq(Writes) /\ Elems(s) = ToWrite(p, S)

LEMMA PartsAddUp ==
  ASSUME NEW p, NEW s, NEW t, NEW S, NEW T, IsPart(p, s, S), IsPart(p, t, T)
  PROVE  IsPart(p, s \o t, S \cup T)
<1>1. ToWrite(p, S \cup T) = ToWrite(p, S) \cup ToWrite(p, T)
  BY Zenon DEF ToWrite
<1> QED
  BY <1>1, ElemsOfConcat, Zenon DEF IsPart

LEMMA WriteIsPart ==
  ASSUME NEW p, NEW name \in Names, Value(p)[name] \in Int
  PROVE  IsPart(p, Write(name, Value(p)[name]), {name})
<1>1. ToWrite(p, {name}) =
        {w \in Writes : w.register = name /\ w.value = Byte(Value(p)[name], w.byte)}
  BY Zenon DEF ToWrite
<1> QED
  BY <1>1, ElemsOfWrite, Zenon DEF IsPart

LEMMA Values ==
  ASSUME NEW p, IsMode(kModes[p.mode])
  PROVE  LET m == kModes[p.mode]
         IN /\ Value(p)["MDBIT"] = (IF m.bits = 12 THEN 1 ELSE 0)
            /\ Value(p)["ADDMODE"] = (IF m.readout = "binning" THEN 1 ELSE 0)
            /\ Value(p)["WINMODE"] = (IF m.readout = "crop" THEN 4 ELSE 0)
            /\ Value(p)["PIX_HWIDTH"] = m.width /\ Value(p)["PIX_VWIDTH"] = m.height
            /\ Value(p)["HMAX"] = p.timing.hmax /\ Value(p)["VMAX"] = p.timing.vmax
  BY Zenon DEF Value

LEMMA ConfigureWritesThePlan ==
  ASSUME NEW p, IsMode(kModes[p.mode]), IsTiming(p.timing)
  PROVE  IsPart(p, configure(kModes[p.mode], p.timing), Config(p))
<1> DEFINE m == kModes[p.mode]
<1>1. IsPart(p, BitDepth(m), {"MDBIT"})
  <2>1. Value(p)["MDBIT"] \in Int
    BY Values, SMT
  <2> QED
    BY <2>1, Values, WriteIsPart, NamesAre DEF BitDepth
<1>2. ASSUME NEW v \in Int, v = Value(p)["WINMODE"], NEW u \in Int, u = Value(p)["ADDMODE"]
      PROVE  IsPart(p, Write("WINMODE", v) \o Write("ADDMODE", u), {"WINMODE"} \cup {"ADDMODE"})
  BY <1>2, WriteIsPart, PartsAddUp, NamesAre
<1>3. IsPart(p, BitDepth(m) \o ReadoutTable(m), Switches)
  <2>1. {"MDBIT"} \cup ({"WINMODE"} \cup {"ADDMODE"}) = Switches
        /\ {"MDBIT"} \cup (({"WINMODE"} \cup {"ADDMODE"}) \cup {"MDBIT"}) = Switches
    BY DEF Switches
  <2>2. m.readout \in {"all-pixel", "crop", "binning"}
    BY DEF IsMode
  <2>3. CASE m.readout = "all-pixel"
    <3>1. ReadoutTable(m) = Write("WINMODE", 0) \o Write("ADDMODE", 0)
      BY <2>3 DEF ReadoutTable
    <3>2. Value(p)["WINMODE"] = 0 /\ Value(p)["ADDMODE"] = 0
      BY <2>3, Values
    <3> QED
      BY <1>1, <1>2, <2>1, <3>1, <3>2, PartsAddUp
  <2>4. CASE m.readout = "crop"
    <3>1. ReadoutTable(m) = Write("WINMODE", 4) \o Write("ADDMODE", 0)
      BY <2>4 DEF ReadoutTable
    <3>2. Value(p)["WINMODE"] = 4 /\ Value(p)["ADDMODE"] = 0
      BY <2>4, Values
    <3> QED
      BY <1>1, <1>2, <2>1, <3>1, <3>2, PartsAddUp
  <2>5. CASE m.readout = "binning"
    <3>1. ReadoutTable(m) = Write("WINMODE", 0) \o Write("ADDMODE", 1) \o Write("MDBIT", 1)
      BY <2>5 DEF ReadoutTable
    <3>2. Value(p)["WINMODE"] = 0 /\ Value(p)["ADDMODE"] = 1 /\ Value(p)["MDBIT"] = 1
      BY <2>5, Values DEF IsMode
    <3>3. IsPart(p, Write("MDBIT", 1), {"MDBIT"})
      BY <3>2, WriteIsPart, NamesAre
    <3>4. IsPart(p, Write("WINMODE", 0) \o Write("ADDMODE", 1), {"WINMODE"} \cup {"ADDMODE"})
      BY <1>2, <3>2
    <3>5. IsPart(p, ReadoutTable(m), ({"WINMODE"} \cup {"ADDMODE"}) \cup {"MDBIT"})
      BY <3>1, <3>3, <3>4, PartsAddUp
    <3> QED
      BY <1>1, <2>1, <3>5, PartsAddUp
  <2> QED
    BY <2>2, <2>3, <2>4, <2>5
<1>4. IsPart(p, write_crop(m), {"PIX_HWIDTH"} \cup {"PIX_VWIDTH"})
  <2>1. Value(p)["PIX_HWIDTH"] = m.width /\ Value(p)["PIX_VWIDTH"] = m.height
        /\ m.width \in Int /\ m.height \in Int
    BY Values, SMT DEF IsMode, IsWord
  <2> QED
    BY <2>1, WriteIsPart, PartsAddUp, NamesAre DEF write_crop
<1>5. IsPart(p, write_timing(p.timing), {"HMAX"} \cup {"VMAX"})
  <2>1. Value(p)["HMAX"] = p.timing.hmax /\ Value(p)["VMAX"] = p.timing.vmax
        /\ p.timing.hmax \in Int /\ p.timing.vmax \in Int
    BY Values, SMT DEF IsTiming, IsLineLength, IsWord
  <2> QED
    BY <2>1, WriteIsPart, PartsAddUp, NamesAre DEF write_timing
<1>6. IsPart(p, IF m.readout = "crop" THEN write_crop(m) ELSE << >>,
                IF m.readout = "crop" THEN Window ELSE {})
  <2>1. CASE m.readout = "crop"
    BY <1>4, <2>1 DEF Window
  <2>2. CASE m.readout # "crop"
    BY <2>2 DEF IsPart, Elems, ToWrite
  <2> QED
    BY <2>1, <2>2
<1>7. IsPart(p, (BitDepth(m) \o ReadoutTable(m)) \o (IF m.readout = "crop" THEN write_crop(m) ELSE << >>),
                Switches \cup (IF m.readout = "crop" THEN Window ELSE {}))
  BY <1>3, <1>6, PartsAddUp
<1>8. IsPart(p, configure(m, p.timing),
                (Switches \cup (IF m.readout = "crop" THEN Window ELSE {})) \cup ({"HMAX"} \cup {"VMAX"}))
  BY <1>5, <1>7, PartsAddUp, Zenon DEF configure
<1>9. (Switches \cup (IF m.readout = "crop" THEN Window ELSE {})) \cup ({"HMAX"} \cup {"VMAX"}) = Config(p)
  BY DEF Config, Lengths
<1> QED
  BY <1>8, <1>9
-----------------------------------------------------------------------------
(* Registers that hold a plan's values say its frame.                      *)
Holds(r, p, S) == \A w \in ToWrite(p, S) : r[w.register][w.byte] = w.value

LEMMA RegisterHolds ==
  ASSUME NEW r, NEW p, NEW S, Holds(r, p, S), NEW name \in Names, name \in S,
         Value(p)[name] \in Int, NEW i \in 1..Width(name)
  PROVE  r[name][i] = Byte(Value(p)[name], i)
<1> DEFINE w == [register |-> name, byte |-> i, value |-> Byte(Value(p)[name], i)]
<1>1. i \in 1..3
  BY Widths
<1>2. Byte(Value(p)[name], i) \in 0..255
  BY <1>1, ByteInRange
<1>3. w \in Writes
  BY <1>1, <1>2 DEF Writes
<1>4. w \in ToWrite(p, S)
  BY <1>3 DEF ToWrite
<1>5. r[w.register][w.byte] = w.value
  BY <1>4, Zenon DEF Holds
<1> QED
  BY <1>5

LEMMA SwitchHolds ==
  ASSUME NEW r, Typed(r), NEW p, NEW S, Holds(r, p, S), NEW name \in Switches, name \in S,
         Value(p)[name] \in 0..4
  PROVE  r[name] = <<Value(p)[name]>>
<1>1. name \in Names /\ Width(name) = 1
  BY Widths, NamesAre DEF Switches
<1>2. r[name][1] = Byte(Value(p)[name], 1)
  BY <1>1, RegisterHolds
<1>3. Byte(Value(p)[name], 1) = Value(p)[name]
  <2>1. Value(p)[name] \in Nat /\ Value(p)[name] <= 255 /\ Value(p)[name] <= kMaxVmax
    BY SMT DEF kMaxVmax
  <2> QED
    BY <2>1, BytesAddUp, SMT
<1>4. r[name] \in [1..1 -> 0..255]
  BY <1>1 DEF Typed
<1> QED
  BY <1>2, <1>3, <1>4

LEMMA NumberHolds ==
  ASSUME NEW r, Typed(r), NEW p, NEW S, Holds(r, p, S), NEW name \in Names, name \in S,
         Value(p)[name] \in Nat,
         \/ Width(name) = 2 /\ IsWord(Value(p)[name])
         \/ Width(name) = 3 /\ Value(p)[name] <= kMaxVmax
  PROVE  multi(r, name) = Value(p)[name]
<1> DEFINE v == Value(p)[name]
<1>1. v \in Int /\ v <= kMaxVmax /\ DOMAIN r[name] = 1..Width(name)
  <2>1. DOMAIN r[name] = 1..Width(name)
    BY DEF Typed
  <2> QED
    BY <2>1, SMT DEF IsWord, kMaxVmax
<1>2. \A i \in 1..Width(name) : r[name][i] = Byte(v, i)
  BY <1>1, RegisterHolds
<1> HIDE DEF v
<1>3. Byte(v, 1) \in Nat /\ Byte(v, 2) \in Nat /\ Byte(v, 3) \in Nat
  <2>1. Byte(v, 1) \in 0..255 /\ Byte(v, 2) \in 0..255 /\ Byte(v, 3) \in 0..255
    BY <1>1, ByteInRange
  <2> QED
    BY <2>1
<1>4. CASE Width(name) = 2
  <2>1. ByteAt(r[name], 1) = Byte(v, 1) /\ ByteAt(r[name], 2) = Byte(v, 2)
        /\ ByteAt(r[name], 3) = 0
    BY <1>1, <1>2, <1>4, SMT DEF ByteAt
  <2>2. v \in Nat /\ v <= 65535
    BY <1>4, SMT DEF IsWord, v
  <2>3. Byte(v, 1) + 256 * Byte(v, 2) = v
    BY <1>1, <2>2, BytesAddUp, SMT
  <2>4. multi(r, name) = Byte(v, 1) + 256 * Byte(v, 2) + 65536 * 0
    BY <2>1, SMT DEF multi
  <2> QED
    BY <1>3, <2>3, <2>4, SMT DEF v
<1>5. CASE Width(name) = 3
  <2>1. ByteAt(r[name], 1) = Byte(v, 1) /\ ByteAt(r[name], 2) = Byte(v, 2)
        /\ ByteAt(r[name], 3) = Byte(v, 3)
    BY <1>1, <1>2, <1>5, SMT DEF ByteAt
  <2>2. v \in Nat
    BY DEF v
  <2>3. Byte(v, 1) + 256 * Byte(v, 2) + 65536 * Byte(v, 3) = v
    BY <1>1, <2>2, BytesAddUp, SMT
  <2> QED
    BY <2>1, <2>3, SMT DEF multi, v
<1> QED
  BY <1>4, <1>5

LEMMA PlannedFrame ==
  ASSUME NEW r, Typed(r), NEW p, IsMode(kModes[p.mode]),
         Holds(r, p, Config(p) \ Lengths)
  PROVE  FrameOf(geometry(r)) = CsiLayout(kModes[p.mode])
<1> DEFINE m == kModes[p.mode]
           g == geometry(r)
           S == Config(p) \ Lengths
<1>1. Switches \subseteq S /\ (m.readout = "crop" => Window \subseteq S)
  BY DEF Switches, Config, Lengths, Window
<1>2. r["MDBIT"] = <<IF m.bits = 12 THEN 1 ELSE 0>>
  <2>1. Value(p)["MDBIT"] \in 0..4 /\ "MDBIT" \in Switches
    BY Values DEF Switches
  <2> QED
    BY <1>1, <2>1, SwitchHolds, Values
<1>3. r["ADDMODE"] = <<IF m.readout = "binning" THEN 1 ELSE 0>>
  <2>1. Value(p)["ADDMODE"] \in 0..4 /\ "ADDMODE" \in Switches
    BY Values DEF Switches
  <2> QED
    BY <1>1, <2>1, SwitchHolds, Values
<1>4. r["WINMODE"] = <<IF m.readout = "crop" THEN 4 ELSE 0>>
  <2>1. Value(p)["WINMODE"] \in 0..4 /\ "WINMODE" \in Switches
    BY Values DEF Switches
  <2> QED
    BY <1>1, <2>1, SwitchHolds, Values
<1>5. m.readout = "crop" => multi(r, "PIX_HWIDTH") = m.width /\ multi(r, "PIX_VWIDTH") = m.height
  <2> SUFFICES ASSUME m.readout = "crop"  PROVE multi(r, "PIX_HWIDTH") = m.width
                                             /\ multi(r, "PIX_VWIDTH") = m.height
    OBVIOUS
  <2>1. Value(p)["PIX_HWIDTH"] = m.width /\ Value(p)["PIX_VWIDTH"] = m.height
        /\ IsWord(m.width) /\ IsWord(m.height) /\ m.width \in Nat /\ m.height \in Nat
    BY Values, SMT DEF IsMode, IsWord
  <2>2. {"PIX_HWIDTH", "PIX_VWIDTH"} \subseteq S \cap Names
        /\ Width("PIX_HWIDTH") = 2 /\ Width("PIX_VWIDTH") = 2
    BY <1>1, Widths, NamesAre DEF Window
  <2> HIDE DEF S
  <2> QED
    BY <2>1, <2>2, NumberHolds DEF S
<1>6. m.width # 0 /\ m.height # 0 /\ m.bits \in {10, 12}
      /\ m.readout \in {"all-pixel", "crop", "binning"}
      /\ (m.readout = "all-pixel" => m.width = 3552 /\ m.height = 3556)
      /\ (m.readout = "binning" => m.width = 1776 /\ m.height = 1778)
      /\ m.width \in Nat /\ m.height \in Nat
  BY SMT DEF IsMode, IsWord
<1>7. g.bits = m.bits
  BY <1>2, <1>6, SMT DEF geometry
<1>8. g.width = m.width /\ g.height = m.height
  <2>1. CASE m.readout = "all-pixel"
    BY <1>3, <1>4, <1>6, <2>1, SMT DEF geometry
  <2>2. CASE m.readout = "crop"
    BY <1>3, <1>4, <1>5, <1>6, <2>2, SMT DEF geometry
  <2>3. CASE m.readout = "binning"
    BY <1>3, <1>4, <1>6, <2>3, SMT DEF geometry
  <2> QED
    BY <1>6, <2>1, <2>2, <2>3
<1> HIDE DEF g, m
<1>9. FrameOf(g) = CsiLayout(m)
  BY <1>7, <1>8, Zenon DEF FrameOf, CsiLayout
<1> QED
  BY <1>9 DEF g, m
-----------------------------------------------------------------------------
(* The thread and main leave the registers and the host alone.             *)
HostOK ==
  /\ host \in {"off", "configuring", "starting", "streaming", "retiming", "stopping"}
  /\ script \in Seq(Writes) /\ sessions \in 0..MaxSessions /\ deaths \in 0..MaxDeaths
FlagsOK == {reached, g_stop, behind, fresh} \subseteq BOOLEAN
ThreadOK ==
  /\ pc \in {"test", "idle", "read", "send", "sleep", "retry", "done"}
  /\ current.period \in Nat /\ due \in Int
  /\ FlagsOK /\ main \in {"running", "ended"}
  /\ strays \in 0..2 /\ late \in 0..2 /\ burst \in 0..2

LEMMA TypeParts == TypeOK <=> Typed(registers) /\ HostOK /\ ThreadOK
  BY Zenon DEF TypeOK, Typed, HostOK, ThreadOK, FlagsOK

LEMMA InitInv == Init => IndInv
<1> SUFFICES ASSUME Init PROVE IndInv
  OBVIOUS
<1>1. Typed(registers)
  <2>1. registers = Defaults
    BY DEF Init
  <2>2. \A v \in Nat : Bytes(2, v) \in [1..2 -> 0..255] /\ Bytes(3, v) \in [1..3 -> 0..255]
    BY ByteInRange DEF Bytes
  <2>3. DOMAIN registers = Names
    BY <2>1 DEF Names
  <2>4. \A name \in {"STANDBY", "XMSTA", "MDBIT", "ADDMODE", "WINMODE"} :
          registers[name] \in [1..1 -> 0..255]
    BY <2>1 DEF Defaults
  <2>5. \A name \in {"PIX_HWIDTH", "PIX_VWIDTH"} : registers[name] \in [1..2 -> 0..255]
    BY <2>1 DEF Defaults
  <2>6. registers["HMAX"] \in [1..2 -> 0..255] /\ registers["VMAX"] \in [1..3 -> 0..255]
    <3>1. registers["HMAX"] = Bytes(2, 366) /\ registers["VMAX"] = Bytes(3, 3648)
      BY <2>1, SMT DEF Defaults
    <3> QED
      BY <2>2, <3>1, SMT
  <2>7. \A name \in Names : registers[name] \in [1..Width(name) -> 0..255]
    <3> DEFINE Good(name) == registers[name] \in [1..Width(name) -> 0..255]
    <3>1. ASSUME NEW name \in {"STANDBY", "XMSTA", "MDBIT", "ADDMODE", "WINMODE"}
          PROVE  registers[name] \in [1..Width(name) -> 0..255]
      <4>1. Width(name) = 1
        BY Widths
      <4>2. registers[name] \in [1..1 -> 0..255]
        BY <2>4, SMT
      <4> QED
        BY <4>1, <4>2, Zenon
    <3>2. ASSUME NEW name \in {"PIX_HWIDTH", "PIX_VWIDTH", "HMAX"}
          PROVE  registers[name] \in [1..Width(name) -> 0..255]
      <4>1. Width(name) = 2
        BY Widths
      <4>2. registers[name] \in [1..2 -> 0..255]
        BY <2>5, <2>6, Zenon
      <4> QED
        BY <4>1, <4>2, Zenon
    <3>3. registers["VMAX"] \in [1..Width("VMAX") -> 0..255]
      <4>1. Width("VMAX") = 3
        BY Widths
      <4> QED
        BY <2>6, <4>1, Zenon
    <3>4. /\ \A name \in {"STANDBY", "XMSTA", "MDBIT", "ADDMODE", "WINMODE"} : Good(name)
          /\ \A name \in {"PIX_HWIDTH", "PIX_VWIDTH", "HMAX"} : Good(name)
          /\ Good("VMAX")
      BY <3>1, <3>2, <3>3, Zenon
    <3> HIDE DEF Good
    <3>5. \A name \in Names : Good(name)
      BY <3>4, NamesAre, SMT
    <3> QED
      BY <3>5, Zenon DEF Good
  <2> QED
    BY <2>3, <2>7 DEF Typed
<1>2. HostOK /\ ThreadOK
  <2>1. 0 \in 0..MaxSessions /\ 0 \in 0..MaxDeaths
    BY EmuAssumption DEF EmuAssumption
  <2>2. current.period \in Nat /\ script \in Seq(Writes)
    BY DEF Init, NoGeometry
  <2>3. FlagsOK
    BY Zenon DEF Init, FlagsOK
  <2>4. ThreadOK
    BY <2>2, <2>3 DEF Init, ThreadOK
  <2>5. HostOK
    BY <2>1, <2>2 DEF Init, HostOK
  <2> QED
    BY <2>4, <2>5
<1>3. ~streaming(registers)
  BY DEF Init, streaming, Defaults
<1> QED
  BY <1>1, <1>2, <1>3, TypeParts DEF Init, IndInv, PlanOK, ScriptInv, StrayInv, LateInv, PaceInv, Elems

(* Once a session is configured, its geometry registers hold the plan's.   *)
LEMMA Configured ==
  ASSUME IndInv, host \notin {"off", "configuring"}
  PROVE  FrameOf(geometry(registers)) = plan.layout
<1>1. Typed(registers) /\ IsMode(kModes[plan.mode]) /\ plan.layout = CsiLayout(kModes[plan.mode])
  BY TypeParts, ModesAreModes DEF IndInv, PlanOK
<1>2. Holds(registers, plan, Config(plan) \ Lengths)
  <2> SUFFICES ASSUME NEW w \in ToWrite(plan, Config(plan) \ Lengths)
               PROVE  registers[w.register][w.byte] = w.value
    BY Zenon DEF Holds
  <2>1. w \in ToWrite(plan, Config(plan)) /\ w.register \notin {"STANDBY", "XMSTA", "VMAX"}
    BY DEF ToWrite, Config, Switches, Window, Lengths
  <2> QED
    BY <2>1, Zenon DEF IndInv, ScriptInv
<1> QED
  BY <1>1, <1>2, PlannedFrame

(* A step of the thread keeps what is said of the host, and its own pace.  *)
LEMMA ThreadSteps ==
  ASSUME IndInv, ServeCamera \/ Tick
  PROVE  IndInv'
<1> USE DEF IndInv
<1>1. UNCHANGED <<registers, host, plan, script, sessions, deaths, g_stop, main>>
  BY DEF ServeCamera, Test, Wake, Read, Send, SendFails, Awake, Tick, hostVars, mainVars
<1>2. Typed(registers)' /\ HostOK' /\ ThreadOK
  BY <1>1, TypeParts DEF Typed, HostOK
<1>3. ThreadOK' => TypeOK'
  BY <1>2, Zenon DEF Typed, TypeOK, HostOK, ThreadOK, FlagsOK
<1>4. FlagsOK'
  <2>1. FlagsOK
    BY <1>2 DEF ThreadOK
  <2> QED
    BY <1>1, <2>1 DEF FlagsOK, ServeCamera, Test, Wake, Read, Send, SendFails, Awake, Tick, history, mainVars
<1>5. PlanOK' /\ ScriptInv'
  BY <1>1 DEF PlanOK, ScriptInv
<1>6. CASE Test
  <2>1. TypeOK'
    BY <1>1, <1>2, <1>3, <1>4, <1>6 DEF Test, ThreadOK, hostVars, mainVars, history
  <2>2. StrayInv'
    BY <1>6 DEF Test, StrayInv, hostVars, history
  <2>3. LateInv'
    BY <1>6 DEF Test, LateInv, ThreadOK, history
  <2>4. PaceInv'
    BY <1>6 DEF Test, PaceInv, history
  <2> QED
    BY <1>5, <2>1, <2>2, <2>3, <2>4
<1>7. CASE Wake
  <2>1. TypeOK'
    BY <1>1, <1>2, <1>3, <1>4, <1>7 DEF Wake, ThreadOK, hostVars, mainVars
  <2> QED
    BY <1>5, <1>7, <2>1 DEF Wake, StrayInv, LateInv, PaceInv, ThreadOK, hostVars
<1>8. CASE Read
  <2>1. geometry(registers).period \in Nat /\ geometry(registers).period >= 1
    BY TypeParts, GeometryHasPeriod
  <2>2. TypeOK'
    BY <1>1, <1>2, <1>3, <1>4, <1>8, <2>1 DEF Read, ThreadOK, hostVars, mainVars, history
  <2>3. StrayInv'
    BY <1>8, Configured DEF Read, StrayInv, hostVars, history
  <2>4. LateInv'
    BY <1>8 DEF Read, LateInv, history
  <2>5. PaceInv'
    BY <1>8, <2>1 DEF Read, PaceInv, history
  <2> QED
    BY <1>5, <2>2, <2>3, <2>4, <2>5
<1>9. CASE Send
  <2>1. pc' \in {"sleep", "done"} /\ due' \in {due, due + current.period}
        /\ pc = "send" /\ UNCHANGED <<current, behind>>
        /\ (pc' = "sleep" => due' = due + current.period)
    BY <1>9 DEF Send, ThreadOK
  <2>2. late = 0 /\ late' \in {0, 1} /\ (streaming(registers) => late' = 0)
    BY <1>9, Caps, <1>2 DEF Send, LateInv, ThreadOK
  <2>3. strays' \in {strays, 1} /\ (host \in {"off", "configuring"} => strays' = strays)
    BY <1>9, Caps, <1>2 DEF Send, StrayInv, ThreadOK
  <2>4. burst' \in 0..2 /\ (~behind => burst' = 1)
    BY <1>9, Caps, <1>2 DEF Send, PaceInv, ThreadOK
  <2>5. TypeOK'
    BY <1>1, <1>2, <1>3, <1>4, <2>1, <2>2, <2>3, <2>4 DEF ThreadOK
  <2>6. StrayInv'
    BY <1>1, <2>1, <2>3 DEF StrayInv, ThreadOK, hostVars
  <2>7. LateInv'
    BY <1>1, <2>1, <2>2 DEF LateInv, streaming
  <2>8. PaceInv'
    BY <1>2, <2>1, <2>4 DEF PaceInv, ThreadOK
  <2> QED
    BY <1>5, <2>5, <2>6, <2>7, <2>8
<1>10. CASE SendFails
  <2>1. TypeOK'
    BY <1>1, <1>2, <1>3, <1>4, <1>10 DEF SendFails, ThreadOK, hostVars, mainVars
  <2> QED
    BY <1>5, <1>10, <2>1 DEF SendFails, StrayInv, LateInv, PaceInv, ThreadOK, hostVars
<1>11. CASE Awake
  <2>1. TypeOK'
    BY <1>1, <1>2, <1>3, <1>4, <1>11 DEF Awake, ThreadOK, hostVars, mainVars, history
  <2> QED
    BY <1>2, <1>5, <1>11, <2>1 DEF Awake, StrayInv, LateInv, PaceInv, ThreadOK, hostVars, history
<1>12. CASE Tick
  <2>1. due' \in Int /\ due' >= due - 1 /\ burst' = 0 /\ pc \in {"idle", "retry", "sleep"}
        /\ (pc = "sleep" => due > 0)
        /\ UNCHANGED <<pc, current, reached, mainVars, strays, late, behind, fresh>>
    <3>1. due - 1 \in Int /\ 0 - MaxLag \in Int
      BY <1>2, EmuAssumption DEF EmuAssumption, ThreadOK
    <3> QED
      BY <1>12, <3>1, MaxOfTwo DEF Tick
  <2>2. TypeOK'
    BY <1>1, <1>2, <1>3, <1>4, <2>1 DEF ThreadOK
  <2>3. StrayInv' /\ LateInv'
    BY <1>1, <2>1 DEF StrayInv, LateInv, hostVars, streaming
  <2>4. PaceInv'
    BY <1>2, <2>1 DEF PaceInv, ThreadOK
  <2> QED
    BY <1>5, <2>2, <2>3, <2>4
<1> QED
  BY <1>6, <1>7, <1>8, <1>9, <1>10, <1>11, <1>12 DEF ServeCamera
-----------------------------------------------------------------------------
(* The host's steps.                                                       *)
HostStep == (\E w \in Wants : Configure(w)) \/ (\E fps \in FrameRates : SetFrameRate(fps))
            \/ HostWrite \/ HostGoesOn \/ Stop \/ Die

LEMMA ConfigureStep ==
  ASSUME IndInv, NEW w \in Wants, Configure(w)
  PROVE  PlanOK' /\ ScriptInv' /\ HostOK'
<1> DEFINE m == kModes[w.mode]
           t == PlanTiming(m, w.want)
<1>1. HostOK /\ PlanOK /\ ScriptInv /\ host = "off" /\ UNCHANGED registers
      /\ sessions < MaxSessions /\ sessions' = sessions + 1 /\ UNCHANGED deaths
  BY TypeParts DEF IndInv, Configure
<1>2. sessions' \in 0..MaxSessions
  BY <1>1, EmuAssumption DEF HostOK, EmuAssumption
<1>3. CASE t = NoTiming
  <2>1. UNCHANGED <<host, plan, script>>
    BY <1>3 DEF Configure
  <2> QED
    BY <1>1, <1>2, <2>1 DEF PlanOK, ScriptInv, HostOK
<1>4. CASE t # NoTiming
  <2>1. host' = "configuring" /\ script' = configure(m, t)
        /\ plan' = [mode |-> w.mode, want |-> w.want, timing |-> t, layout |-> CsiLayout(m)]
    BY <1>4, Zenon DEF Configure
  <2>2. w.mode \in Modes /\ IsTiming(t) /\ IsMode(m)
    BY <1>4, PlannedTimingFits, ModesAreModes, Zenon
  <2>3. plan'.mode = w.mode /\ plan'.timing = t /\ plan'.want = w.want /\ plan'.layout = CsiLayout(m)
    BY <2>1
  <2> HIDE DEF t
  <2>4. PlanOK'
    BY <2>1, <2>2, <2>3, Zenon DEF PlanOK, IsTiming
  <2>5. IsPart(plan', script', Config(plan'))
    BY <2>1, <2>2, <2>3, ConfigureWritesThePlan, Zenon
  <2>6. Elems(script') = ToWrite(plan', Config(plan')) /\ script' \in Seq(Writes)
    BY <2>5, Zenon DEF IsPart
  <2>7. ScriptInv'
    BY <2>1, <2>6, Zenon DEF ScriptInv
  <2>8. HostOK'
    BY <1>1, <1>2, <2>1, <2>6 DEF HostOK
  <2> QED
    BY <2>4, <2>7, <2>8
<1> QED
  BY <1>3, <1>4

LEMMA OneByteWritten ==
  ASSUME NEW D, NEW R, NEW f \in [D -> R], NEW i \in D, NEW v \in R
  PROVE  /\ [f EXCEPT ![i] = v] \in [D -> R] /\ [f EXCEPT ![i] = v][i] = v
         /\ \A j \in D \ {i} : [f EXCEPT ![i] = v][j] = f[j]
  OBVIOUS

LEMMA WriteStep ==
  ASSUME IndInv, HostWrite
  PROVE  Typed(registers)' /\ PlanOK' /\ ScriptInv' /\ HostOK'
<1> DEFINE w == Head(script)
<1>1. Typed(registers) /\ HostOK /\ PlanOK /\ ScriptInv
  BY TypeParts DEF IndInv
<1>2. script # << >> /\ script' = Tail(script) /\ UNCHANGED <<host, plan, sessions, deaths>>
      /\ registers' = [registers EXCEPT ![w.register][w.byte] = w.value]
  BY DEF HostWrite
<1>3. w \in Writes /\ script' \in Seq(Writes) /\ Elems(script) = {w} \cup Elems(script')
  BY <1>1, <1>2, ElemsOfTail DEF HostOK
<1> HIDE DEF w
<1>4. w.register \in Names /\ w.byte \in 1..Width(w.register) /\ w.value \in 0..255
  <2>1. Width(w.register) \in 1..3
    BY <1>3, Widths DEF Writes
  <2> QED
    BY <1>3, <2>1 DEF Writes
<1>5. DOMAIN registers' = Names
      /\ registers'[w.register] = [registers[w.register] EXCEPT ![w.byte] = w.value]
      /\ \A name \in Names \ {w.register} : registers'[name] = registers[name]
  BY <1>1, <1>2, <1>4 DEF Typed
<1>6. Typed(registers)'
  <2>1. registers[w.register] \in [1..Width(w.register) -> 0..255]
    BY <1>1, <1>4, Zenon DEF Typed
  <2>2. registers'[w.register] \in [1..Width(w.register) -> 0..255]
    <3> DEFINE D == 1..Width(w.register)
               R == 0..255
               f == registers[w.register]
    <3>1. f \in [D -> R] /\ w.byte \in D /\ w.value \in R /\ registers'[w.register] = [f EXCEPT ![w.byte] = w.value]
      BY <1>4, <1>5, <2>1
    <3> HIDE DEF D, R, f
    <3>2. registers'[w.register] \in [D -> R]
      BY <3>1, OneByteWritten
    <3> QED
      BY <3>2 DEF D, R
  <2>3. \A name \in Names \ {w.register} : registers'[name] \in [1..Width(name) -> 0..255]
    BY <1>1, <1>5, Zenon DEF Typed
  <2>4. \A name \in Names : registers'[name] \in [1..Width(name) -> 0..255]
    BY <2>2, <2>3, Zenon
  <2> QED
    BY <1>5, <2>4, Zenon DEF Typed
<1>7. registers'[w.register][w.byte] = w.value
  <2>1. DOMAIN registers[w.register] = 1..Width(w.register)
    BY <1>1, <1>4 DEF Typed
  <2> QED
    BY <1>4, <1>5, <2>1
<1>8. ASSUME NEW n \in Names, NEW i \in 1..Width(n), n # w.register \/ i # w.byte
      PROVE  registers'[n][i] = registers[n][i]
  <2>1. CASE n # w.register
    BY <1>5, <2>1
  <2>2. CASE n = w.register
    <3>1. registers[n] \in [1..Width(n) -> 0..255]
      BY <1>1, Zenon DEF Typed
    <3>2. i \in (1..Width(n)) \ {w.byte}
      BY <1>8, <2>2
    <3> DEFINE D == 1..Width(n)
               R == 0..255
               f == registers[n]
    <3>3. f \in [D -> R] /\ w.byte \in D /\ w.value \in R /\ registers'[n] = [f EXCEPT ![w.byte] = w.value]
          /\ i \in D \ {w.byte}
      BY <1>4, <1>5, <2>2, <3>1, <3>2
    <3> HIDE DEF D, R, f
    <3>4. registers'[n][i] = f[i]
      BY <3>3, OneByteWritten
    <3> QED
      BY <3>4 DEF f
  <2> QED
    BY <2>1, <2>2
<1>9. ScriptInv'
  <2>1. host # "off" => \A x \in ToWrite(plan, Config(plan)) :
          x \in Elems(script') \/ registers'[x.register][x.byte] = x.value
    <3> SUFFICES ASSUME host # "off", NEW x \in ToWrite(plan, Config(plan)), x \notin Elems(script')
                 PROVE  registers'[x.register][x.byte] = x.value
      OBVIOUS
    <3>1. x.register \in Names /\ x.byte \in 1..Width(x.register) /\ x.register \in Config(plan)
          /\ x.value = Byte(Value(plan)[x.register], x.byte)
      <4>1. x \in Writes /\ x.register \in Config(plan)
            /\ x.value = Byte(Value(plan)[x.register], x.byte)
        BY Zenon DEF ToWrite
      <4>2. Width(x.register) \in 1..3
        BY <4>1, Widths DEF Writes
      <4> QED
        BY <4>1, <4>2 DEF Writes
    <3>2. x = w \/ registers[x.register][x.byte] = x.value
      BY <1>1, <1>3, Zenon DEF ScriptInv
    <3>3. CASE x.register = w.register /\ x.byte = w.byte
      <4>1. w \in ToWrite(plan, Config(plan))
        BY <1>1, <1>3, <3>1, <3>3, Zenon DEF ScriptInv
      <4>2. w.value = x.value
        BY <3>1, <3>3, <4>1, Zenon DEF ToWrite
      <4> QED
        BY <1>7, <3>3, <4>2
    <3>4. CASE ~(x.register = w.register /\ x.byte = w.byte)
      <4>1. registers[x.register][x.byte] = x.value
        BY <3>2, <3>4
      <4> QED
        BY <1>8, <3>1, <3>4, <4>1
    <3> QED
      BY <3>3, <3>4
  <2>2. host \in {"off", "streaming"} => FALSE
    BY <1>1, <1>2 DEF ScriptInv
  <2>3. Elems(script') \subseteq Elems(script)
    BY <1>3
  <2> QED
    BY <1>1, <1>2, <2>1, <2>2, <2>3, Zenon DEF ScriptInv
<1> QED
  BY <1>1, <1>2, <1>3, <1>6, <1>9 DEF PlanOK, HostOK

LEMMA GoOnStep ==
  ASSUME IndInv, HostGoesOn
  PROVE  PlanOK' /\ ScriptInv' /\ HostOK'
<1>1. HostOK /\ PlanOK /\ ScriptInv /\ script = << >>
      /\ UNCHANGED <<registers, plan, sessions, deaths>>
  BY TypeParts DEF IndInv, HostGoesOn
<1>2. Elems(script) = {}
  BY <1>1 DEF Elems
<1>3. CASE host = "configuring" /\ host' = "starting" /\ script' = StartSequence
  <2>2. script' \in Seq(Writes) /\ \A w \in Elems(script') : w.register \in {"STANDBY", "XMSTA"}
    <3>1. Write("STANDBY", 0) \in Seq(Writes) /\ Write("XMSTA", 0) \in Seq(Writes)
          /\ (\A w \in Elems(Write("STANDBY", 0)) : w.register = "STANDBY")
          /\ (\A w \in Elems(Write("XMSTA", 0)) : w.register = "XMSTA")
      BY ElemsOfWrite, NamesAre
    <3> QED
      BY <1>3, <3>1, ElemsOfConcat DEF StartSequence
  <2>3. {"STANDBY", "XMSTA"} \cap Config(plan) = {}
    BY DEF Config, Switches, Lengths, Window
  <2>4. ScriptInv'
    BY <1>1, <1>2, <1>3, <2>2, <2>3 DEF ScriptInv
  <2> QED
    BY <1>1, <1>3, <2>2, <2>4 DEF HostOK, PlanOK
<1>4. CASE host # "configuring"
  <2>1. host' \in {"streaming", "off"} /\ script' = << >> /\ (host' # "off" => host # "off")
    BY <1>1, <1>4 DEF HostGoesOn
  <2>2. ScriptInv'
    BY <1>1, <1>2, <2>1 DEF ScriptInv, Elems
  <2>3. HostOK' /\ PlanOK'
    BY <1>1, <2>1 DEF HostOK, PlanOK
  <2> QED
    BY <2>2, <2>3
<1> QED
  BY <1>3, <1>4 DEF HostGoesOn

LEMMA RetimeStep ==
  ASSUME IndInv, NEW fps \in FrameRates, SetFrameRate(fps)
  PROVE  PlanOK' /\ ScriptInv' /\ HostOK' /\ plan'.layout = plan.layout
<1> DEFINE vmax == VmaxForFps(kModes[plan.mode], plan.timing.hmax, fps)
<1>1. HostOK /\ PlanOK /\ ScriptInv /\ host = "streaming" /\ host' = "retiming"
      /\ plan' = [plan EXCEPT !.timing.vmax = vmax, !.want.fps = fps]
      /\ script' = Write("VMAX", vmax) /\ UNCHANGED <<registers, sessions, deaths>>
  BY TypeParts DEF IndInv, SetFrameRate
<1>2. IsMode(kModes[plan.mode]) /\ IsLineLength(plan.timing.hmax) /\ fps \in Rates
  BY <1>1, ModesAreModes, EmuAssumption DEF PlanOK, EmuAssumption
<1>3. vmax \in 0..kMaxVmax
  BY <1>2, VmaxFits, Zenon
<1> HIDE DEF vmax
<1>4. plan'.mode = plan.mode /\ plan'.layout = plan.layout
      /\ plan'.timing = [rate |-> plan.timing.rate, hmax |-> plan.timing.hmax, vmax |-> vmax]
      /\ plan' = [mode |-> plan'.mode, want |-> plan'.want, timing |-> plan'.timing, layout |-> plan'.layout]
  <2>1. plan = [mode |-> plan.mode, want |-> plan.want, timing |-> plan.timing, layout |-> plan.layout]
        /\ plan.timing = [rate |-> plan.timing.rate, hmax |-> plan.timing.hmax, vmax |-> plan.timing.vmax]
    BY <1>1 DEF PlanOK
  <2> QED
    BY <1>1, <2>1
<1>5. PlanOK'
  <2>1. plan.mode \in Modes /\ plan.layout = CsiLayout(kModes[plan.mode])
    BY <1>1 DEF PlanOK
  <2>2. plan'.timing.hmax = plan.timing.hmax /\ plan'.timing.vmax = vmax
        /\ plan'.timing = [rate |-> plan'.timing.rate, hmax |-> plan'.timing.hmax, vmax |-> plan'.timing.vmax]
    BY <1>4
  <2> QED
    BY <1>2, <1>3, <1>4, <2>1, <2>2 DEF PlanOK
<1>6. vmax \in Int
  BY <1>3
<1>7. script' \in Seq(Writes)
      /\ Elems(script') = {w \in Writes : w.register = "VMAX" /\ w.value = Byte(vmax, w.byte)}
  BY <1>1, <1>6, ElemsOfWrite, NamesAre
<1>8. Config(plan') = Config(plan) /\ Value(plan')["VMAX"] = vmax
      /\ \A name \in Config(plan) \ {"VMAX"} : Value(plan')[name] = Value(plan)[name]
  <2>1. Config(plan') = Config(plan)
    BY <1>4 DEF Config
  <2>2. Value(plan')["VMAX"] = vmax
    BY <1>4 DEF Value
  <2>3. \A name \in {"MDBIT", "ADDMODE", "WINMODE", "PIX_HWIDTH", "PIX_VWIDTH", "HMAX"} :
          Value(plan')[name] = Value(plan)[name]
    BY <1>4 DEF Value
  <2>4. Config(plan) \ {"VMAX"} \subseteq {"MDBIT", "ADDMODE", "WINMODE", "PIX_HWIDTH", "PIX_VWIDTH", "HMAX"}
    BY DEF Config, Switches, Lengths, Window
  <2> QED
    BY <2>1, <2>2, <2>3, <2>4
<1>9. ScriptInv'
  <2>1. \A w \in Elems(script') : w.register = "VMAX" /\ w \in ToWrite(plan', {"VMAX"})
    BY <1>7, <1>8 DEF ToWrite
  <2>2. \A w \in ToWrite(plan', Config(plan')) :
          w.register = "VMAX" => w \in Elems(script')
    BY <1>7, <1>8 DEF ToWrite
  <2>3. \A w \in ToWrite(plan', Config(plan')) :
          w.register # "VMAX" => w \in ToWrite(plan, Config(plan))
    BY <1>8 DEF ToWrite
  <2>4. \A w \in ToWrite(plan, Config(plan)) : registers[w.register][w.byte] = w.value
    BY <1>1 DEF ScriptInv, Elems
  <2>5. \A w \in Elems(script') : w.register \in Config(plan') => w \in ToWrite(plan', Config(plan'))
    BY <2>1 DEF ToWrite
  <2> QED
    BY <1>1, <2>1, <2>2, <2>3, <2>4, <2>5 DEF ScriptInv
<1> QED
  BY <1>1, <1>4, <1>5, <1>7, <1>9 DEF HostOK

LEMMA StopStep ==
  ASSUME IndInv, Stop
  PROVE  PlanOK' /\ ScriptInv' /\ HostOK'
<1>1. HostOK /\ PlanOK /\ ScriptInv /\ host = "streaming" /\ host' = "stopping"
      /\ script' = StopSequence /\ UNCHANGED <<registers, plan, sessions, deaths>>
  BY TypeParts DEF IndInv, Stop
<1>2. script' \in Seq(Writes) /\ \A w \in Elems(script') : w.register \in {"STANDBY", "XMSTA"}
  <2>1. Write("STANDBY", 1) \in Seq(Writes) /\ Write("XMSTA", 1) \in Seq(Writes)
        /\ (\A w \in Elems(Write("STANDBY", 1)) : w.register = "STANDBY")
        /\ (\A w \in Elems(Write("XMSTA", 1)) : w.register = "XMSTA")
    BY ElemsOfWrite, NamesAre
  <2> QED
    BY <1>1, <2>1, ElemsOfConcat DEF StopSequence
<1>3. {"STANDBY", "XMSTA"} \cap Config(plan) = {}
  BY DEF Config, Switches, Lengths, Window
<1>4. Elems(script) = {}
  BY <1>1 DEF ScriptInv, Elems
<1>5. ScriptInv'
  BY <1>1, <1>2, <1>3, <1>4 DEF ScriptInv
<1> QED
  BY <1>1, <1>2, <1>5 DEF HostOK, PlanOK

LEMMA HostSteps ==
  ASSUME IndInv, HostStep
  PROVE  IndInv'
<1>1. Typed(registers) /\ HostOK /\ ThreadOK /\ PlanOK /\ ScriptInv /\ StrayInv /\ LateInv /\ PaceInv
  BY TypeParts DEF IndInv
<1>2. UNCHANGED <<pc, current, due, reached, g_stop, main, burst, behind>>
  BY DEF HostStep, Configure, SetFrameRate, HostWrite, HostGoesOn, Stop, Die, threadVars, mainVars, history
<1>3. PaceInv'
  BY <1>1, <1>2 DEF PaceInv
<1>4. ASSUME Typed(registers)', HostOK', ThreadOK', PlanOK', ScriptInv', StrayInv', LateInv'
      PROVE  IndInv'
  <2>1. TypeOK'
    BY <1>4, Zenon DEF TypeOK, Typed, HostOK, ThreadOK, FlagsOK
  <2> QED
    BY <1>3, <1>4, <2>1 DEF IndInv
<1>5. ASSUME fresh' \in {fresh, FALSE}, strays' \in {strays, 0}, late' \in {late, 0}
      PROVE  ThreadOK'
  <2>1. FlagsOK'
    BY <1>1, <1>2, <1>5, Zenon DEF ThreadOK, FlagsOK
  <2> QED
    BY <1>1, <1>2, <1>5, <2>1 DEF ThreadOK
<1>6. ASSUME UNCHANGED <<registers, late>>
      PROVE  Typed(registers)' /\ LateInv'
  BY <1>1, <1>2, <1>6 DEF Typed, LateInv, streaming
<1>7. ASSUME NEW w \in Wants, Configure(w)  PROVE IndInv'
  <2>1. strays' = 0 /\ fresh' = FALSE /\ UNCHANGED <<registers, late>>
    BY <1>7 DEF Configure
  <2>2. StrayInv'
    BY <2>1 DEF StrayInv
  <2> QED
    BY <1>4, <1>5, <1>6, <1>7, <2>1, <2>2, ConfigureStep
<1>8. ASSUME NEW fps \in FrameRates, SetFrameRate(fps)  PROVE IndInv'
  <2>1. UNCHANGED <<registers, strays, late, fresh>> /\ host = "streaming" /\ host' = "retiming"
    BY <1>8 DEF SetFrameRate, history
  <2>2. PlanOK' /\ ScriptInv' /\ HostOK' /\ plan'.layout = plan.layout
    BY <1>8, RetimeStep
  <2>3. StrayInv'
    BY <1>1, <1>2, <2>1, <2>2 DEF StrayInv
  <2> QED
    BY <1>4, <1>5, <1>6, <2>1, <2>2, <2>3
<1>9. CASE HostWrite
  <2>1. UNCHANGED <<host, plan, strays, fresh>>
        /\ late' = IF streaming(registers') THEN 0 ELSE late
    BY <1>9 DEF HostWrite
  <2>2. StrayInv'
    BY <1>1, <1>2, <2>1 DEF StrayInv
  <2>3. late' \in {late, 0} /\ (late = 0 => late' = 0) /\ (streaming(registers') => late' = 0)
    BY <2>1
  <2>4. LateInv'
    BY <1>1, <1>2, <2>3 DEF LateInv, streaming
  <2> QED
    BY <1>4, <1>5, <1>9, <2>1, <2>2, <2>3, <2>4, WriteStep
<1>10. CASE HostGoesOn
  <2>1. UNCHANGED <<registers, plan, strays, late, fresh>>
        /\ host' # "configuring"
        /\ (host' \notin {"off", "configuring"} /\ host = "configuring" => strays = 0)
    BY <1>1, <1>10 DEF HostGoesOn, history, StrayInv
  <2>2. host = "off" => FALSE
    BY <1>10 DEF HostGoesOn
  <2>3. StrayInv'
    BY <1>1, <1>2, <2>1, <2>2 DEF StrayInv
  <2> QED
    BY <1>4, <1>5, <1>6, <1>10, <2>1, <2>3, GoOnStep
<1>11. CASE Stop
  <2>1. UNCHANGED <<registers, plan, strays, late, fresh>> /\ host = "streaming" /\ host' = "stopping"
    BY <1>11 DEF Stop, history
  <2>2. StrayInv'
    BY <1>1, <1>2, <2>1 DEF StrayInv
  <2> QED
    BY <1>4, <1>5, <1>6, <1>11, <2>1, <2>2, StopStep
<1>12. CASE Die
  <2>1. UNCHANGED <<registers, plan, sessions, strays, late, fresh>> /\ host' = "off" /\ script' = << >>
        /\ deaths < MaxDeaths /\ deaths' = deaths + 1
    BY <1>12 DEF Die, history
  <2>2. deaths' \in 0..MaxDeaths
    BY <1>1, <2>1, EmuAssumption DEF HostOK, EmuAssumption
  <2>3. HostOK'
    BY <1>1, <2>1, <2>2 DEF HostOK
  <2>4. PlanOK' /\ ScriptInv' /\ StrayInv'
    BY <1>1, <2>1 DEF PlanOK, ScriptInv, StrayInv
  <2> QED
    BY <1>4, <1>5, <1>6, <2>1, <2>3, <2>4
<1> QED
  BY <1>7, <1>8, <1>9, <1>10, <1>11, <1>12 DEF HostStep

LEMMA OtherSteps ==
  ASSUME IndInv, Signal \/ AllDone \/ Join \/ UNCHANGED vars
  PROVE  IndInv'
<1>1. UNCHANGED <<registers, host, plan, script, sessions, deaths, pc, current, due, reached,
                  strays, late, burst, behind, fresh>>
  BY DEF Signal, AllDone, Join, vars, registerVars, hostVars, threadVars, mainVars, history
<1>2. main' \in {main, "ended"} /\ g_stop' \in {g_stop, TRUE}
  BY DEF Signal, AllDone, Join, vars, mainVars
<1>3. Typed(registers) /\ HostOK /\ ThreadOK /\ FlagsOK
  BY TypeParts DEF IndInv, ThreadOK
<1>4. FlagsOK'
  BY <1>1, <1>2, <1>3, Zenon DEF FlagsOK
<1>5. Typed(registers)' /\ HostOK' /\ ThreadOK'
  BY <1>1, <1>2, <1>3, <1>4 DEF Typed, HostOK, ThreadOK
<1>6. TypeOK'
  BY <1>4, <1>5, Zenon DEF TypeOK, Typed, HostOK, ThreadOK, FlagsOK
<1> QED
  BY <1>1, <1>6 DEF IndInv, PlanOK, ScriptInv, StrayInv, LateInv, PaceInv, streaming

(* The invariant holds however the emulator's threads and the writes of    *)
(* the driver interleave (emu_source, native_imx676_sensor.cc).            *)
THEOREM Inductive == Spec => []IndInv
<1>1. IndInv /\ [Next]_vars => IndInv'
  <2> SUFFICES ASSUME IndInv, [Next]_vars PROVE IndInv'
    OBVIOUS
  <2>1. HostStep \/ (ServeCamera \/ Tick) \/ (Signal \/ AllDone \/ Join \/ UNCHANGED vars)
    BY Zenon DEF Next, HostStep
  <2> QED
    BY <2>1, HostSteps, ThreadSteps, OtherSteps, Zenon
<1> QED
  BY <1>1, InitInv, PTL DEF Spec
-----------------------------------------------------------------------------
(* The emulator never sends a second frame within a tick of a sensor that  *)
(* keeps streaming: ServeCamera sleeps until `next`, and sets it to now    *)
(* while it does not stream.                                               *)
THEOREM FramesKeepTheirPace == Spec => []NoBurst
<1>1. IndInv => NoBurst
  BY DEF IndInv, PaceInv, NoBurst
<1> QED
  BY <1>1, Inductive, PTL

(* At most one frame of another geometry reaches a configured session, and *)
(* at most one is sent after the stop: what ServeCamera reads and sends in *)
(* separate steps is behind by one frame.                                  *)
THEOREM StrayFramesAreFew == Spec => []OneStrayFrame
<1>1. IndInv => OneStrayFrame
  BY DEF IndInv, StrayInv, LateInv, OneStrayFrame
<1> QED
  BY <1>1, Inductive, PTL

(* A configured session finds the frame it is trained on and the planned   *)
(* timing in the registers, for every sequence of modes, rates and deaths. *)
THEOREM SessionsFindTheirFrame == Spec => []TrainedOnIt
<1>1. IndInv => TrainedOnIt
  <2> SUFFICES ASSUME IndInv, Programmed
               PROVE  /\ FrameOf(geometry(registers)) = plan.layout
                      /\ multi(registers, "HMAX") = plan.timing.hmax
                      /\ multi(registers, "VMAX") = plan.timing.vmax
    BY DEF TrainedOnIt
  <2>1. script = << >> /\ host \notin {"off", "configuring"}
    BY DEF Programmed
  <2>2. Typed(registers) /\ IsMode(kModes[plan.mode])
        /\ IsLineLength(plan.timing.hmax) /\ plan.timing.vmax \in 0..kMaxVmax
    BY <2>1, TypeParts, ModesAreModes DEF IndInv, PlanOK
  <2>3. Holds(registers, plan, Config(plan))
    BY <2>1 DEF IndInv, ScriptInv, Elems, Holds
  <2>4. Value(plan)["HMAX"] = plan.timing.hmax /\ Value(plan)["VMAX"] = plan.timing.vmax
    BY <2>2, Values
  <2>5. {"HMAX", "VMAX"} \subseteq Config(plan) \cap Names /\ Width("HMAX") = 2 /\ Width("VMAX") = 3
    BY Widths, NamesAre DEF Config, Lengths
  <2>6. IsWord(plan.timing.hmax) /\ plan.timing.hmax \in Nat
        /\ plan.timing.vmax \in Nat /\ plan.timing.vmax <= kMaxVmax
    BY <2>2, SMT DEF IsLineLength, IsWord
  <2>7. multi(registers, "HMAX") = plan.timing.hmax
    BY <2>2, <2>3, <2>4, <2>5, <2>6, NumberHolds
  <2>8. multi(registers, "VMAX") = plan.timing.vmax
    BY <2>2, <2>3, <2>4, <2>5, <2>6, NumberHolds
  <2>9. FrameOf(geometry(registers)) = plan.layout
    BY <2>1, Configured
  <2> QED
    BY <2>7, <2>8, <2>9
<1> QED
  BY <1>1, Inductive, PTL
-----------------------------------------------------------------------------
(* What a plan promises.                                                   *)

(* Lines long enough for the rate: a rounded up quotient is not less than  *)
(* the quotient.                                                           *)
LEMMA CeilCovers ==
  ASSUME NEW a \in Nat, NEW h \in Nat \ {0}, NEW f \in Nat \ {0},
         NEW v \in Int, v >= CeilDiv(a, h * f)
  PROVE  v * f >= a \div h
<1> DEFINE d == h * f
           q == a \div h
           c == (a + d - 1) \div d
<1>1. d \in Nat /\ d > 0
  BY SMT
<1>2. q \in Nat /\ h * q <= a
  BY SMT
<1>3. CeilDiv(a, h * f) = c
  BY Zenon DEF CeilDiv
<1> HIDE DEF q
<1>4. c \in Int /\ a <= d * c
  <2> HIDE DEF d
  <2>1. a + d - 1 \in Nat
    BY <1>1, SMT
  <2> DEFINE n == a + d - 1
  <2>2. c = n \div d
    OBVIOUS
  <2> HIDE DEF n
  <2>3. n \in Nat
    BY <2>1 DEF n
  <2>4. n \div d \in Int /\ n < d * (n \div d) + d
    BY <1>1, <2>3, SMT
  <2>5. PICK x \in Int : x = n \div d /\ n < d * x + d
    BY <2>4
  <2>6. d * x \in Int
    BY <1>1, SMT
  <2>7. a <= d * x
    BY <1>1, <2>5, <2>6, SMT DEF n
  <2> QED
    BY <2>2, <2>5, <2>7, SMT
<1> HIDE DEF c
<1>5. v >= c
  BY <1>3, SMT
<1>6. d * c <= d * v
  <2> HIDE DEF d
  <2> QED
    BY <1>1, <1>4, <1>5, SMT
<1>7. d * v = h * (v * f)
  BY SMT DEF d
<1>8. v * f \in Int /\ h * q <= h * (v * f)
  <2>1. v * f \in Int /\ h * (v * f) \in Int /\ h * q \in Int
    BY <1>2, SMT
  <2>2. d * c \in Int
    BY <1>1, <1>4, SMT
  <2> HIDE DEF d
  <2> QED
    BY <1>2, <1>4, <1>6, <1>7, <2>1, <2>2, SMT
<1>9. \A x \in Int : h * q <= h * x => q <= x
  BY <1>2, SMT
<1> QED
  BY <1>2, <1>8, <1>9, SMT DEF q

LEMMA MaxKeepsAll ==
  ASSUME NEW a \in Int, NEW b \in Int, NEW c \in Int
  PROVE  LET v == Min({Max({a, b}), c}) IN v \in Int /\ (v = c \/ (v >= a /\ v >= b)) /\ (b <= c => v >= b)
<1> DEFINE x == Max({a, b})
           v == Min({x, c})
<1>1. x \in {a, b} /\ x >= a /\ x >= b
  BY MaxOfTwo
<1> HIDE DEF x
<1>2. x \in Int
  BY <1>1
<1>3. v \in {x, c} /\ v <= x /\ v <= c
  BY <1>2, MinOfTwo
<1> HIDE DEF v
<1>4. v \in Int /\ (v = c \/ (v >= a /\ v >= b)) /\ (b <= c => v >= b)
  BY <1>1, <1>2, <1>3
<1> QED
  BY <1>4 DEF v, x

LEMMA MinVmaxFits ==
  ASSUME NEW m, IsMode(m)
  PROVE  /\ MinVmax(m) \in Nat /\ MinVmax(m) <= kMaxVmax
         /\ MinVmax(m) = m.height * (IF m.readout = "binning" THEN 2 ELSE 1) + kVmaxMargin
<1>1. m.height \in Nat /\ m.height <= 65535
  BY SMT DEF IsMode, IsWord
<1> DEFINE lines == IF m.readout = "binning" THEN 2 ELSE 1
<1>2. lines \in {1, 2} /\ ReadoutLines(m) = m.height * lines
  BY <1>1, SMT DEF ReadoutLines
<1>3. \A h \in Nat, l \in {1, 2} : h <= 65535 =>
        h * l + 72 \in Nat /\ h * l + 72 <= 1048575
  BY SMT
<1>4. MinVmax(m) = m.height * lines + 72
  BY <1>2, SMT DEF MinVmax, kVmaxMargin
<1> HIDE DEF lines
<1>5. m.height * lines + 72 \in Nat /\ m.height * lines + 72 <= 1048575
  BY <1>1, <1>2, <1>3, SMT
<1> QED
  BY <1>4, <1>5, SMT DEF kVmaxMargin, kMaxVmax, lines

(* VmaxForFps: not faster than asked, and not shorter than the readout.    *)
LEMMA VmaxIsSound ==
  ASSUME NEW m, IsMode(m), NEW hmax, IsLineLength(hmax), NEW fps, fps \in Rates
  PROVE  LET v == VmaxForFps(m, hmax, fps)
         IN /\ v = kMaxVmax \/ v * fps[1] >= (kHmaxClockHz * fps[2]) \div hmax
            /\ v >= m.height * (IF m.readout = "binning" THEN 2 ELSE 1) + kVmaxMargin
<1> DEFINE a == kHmaxClockHz * fps[2]
           q == CeilDiv(a, hmax * fps[1])
           v == VmaxForFps(m, hmax, fps)
<1>1. hmax \in Nat \ {0} /\ fps[1] \in Nat \ {0} /\ fps[2] \in Nat
  BY SMT DEF IsLineLength, IsWord, Rates
<1>2. a \in Nat
  BY <1>1, SMT DEF kHmaxClockHz
<1>3. q \in Int
  <2>1. hmax * fps[1] \in Nat /\ hmax * fps[1] > 0
    <3>1. ASSUME NEW x \in Nat \ {0}, NEW y \in Nat \ {0}  PROVE x * y \in Nat /\ x * y > 0
      BY SMT
    <3> QED
      BY <1>1, <3>1, Zenon
  <2> HIDE DEF a
  <2> QED
    BY <1>2, <2>1, SMT DEF CeilDiv
<1>4. RoundUpEven(q) \in Int /\ RoundUpEven(q) >= q
  <2> HIDE DEF q
  <2> QED
    BY <1>3, SMT DEF RoundUpEven
<1>5. MinVmax(m) \in Int /\ kMaxVmax \in Int /\ MinVmax(m) <= kMaxVmax
  <2>1. MinVmax(m) \in Nat /\ MinVmax(m) <= kMaxVmax
    BY MinVmaxFits, Zenon
  <2>2. kMaxVmax \in Nat
    BY SMT DEF kMaxVmax
  <2> QED
    BY <2>1, <2>2, SMT
<1>6. v = Min({Max({RoundUpEven(q), MinVmax(m)}), kMaxVmax})
  BY Zenon DEF VmaxForFps
<1> HIDE DEF a, q, v
<1>7. /\ v = kMaxVmax \/ v >= RoundUpEven(q)
      /\ v >= MinVmax(m)
  BY <1>4, <1>5, <1>6, MaxKeepsAll, Zenon
<1>8. v \in Int
  BY <1>4, <1>5, <1>6, MaxKeepsAll, Zenon
<1>9. v = kMaxVmax \/ v * fps[1] >= a \div hmax
  <2>1. CASE v = kMaxVmax
    BY <2>1, Zenon
  <2>2. CASE v >= RoundUpEven(q)
    <3>1. v >= CeilDiv(a, hmax * fps[1])
      <4>1. v >= q
        BY <1>3, <1>4, <1>8, <2>2
      <4> QED
        BY <4>1, Zenon DEF q
    <3> QED
      BY <1>1, <1>2, <1>8, <3>1, CeilCovers, Zenon
  <2> QED
    BY <1>7, <2>1, <2>2, Zenon
<1>10. v >= m.height * (IF m.readout = "binning" THEN 2 ELSE 1) + kVmaxMargin
  BY <1>7, MinVmaxFits, Zenon
<1> QED
  BY <1>9, <1>10, Zenon DEF v, a

(* The lines of a mode fit through four lanes at each lane rate that the   *)
(* mode allows, with the table's line length for that rate.                *)
FitsThrough(m, rate, hmax) ==
  LET linesPerLine == IF m.readout = "binning" THEN 2 ELSE 1
  IN m.width * m.bits * 297 < 4 * hmax * linesPerLine * 4 * rate

LEMMA LinesFit ==
  ASSUME NEW k \in Modes, NEW rate \in kAllLaneRates, IsLaneRateAllowed(kModes[k], rate)
  PROVE  FitsThrough(kModes[k], rate, IF kModes[k].hmax # 0 THEN kModes[k].hmax ELSE HmaxFor(rate, 4))
<1>1. k \in {"FULL_RAW10", "FULL_RAW12", "BIN2_RAW12", "CROP_3552X2160_RAW10",
             "CROP_1280X720_RAW10", "BIN2_RAW12_60"}
  BY SMT DEF Modes, kModes
<1>2. /\ HmaxFor(2376, 4) = 318 /\ HmaxFor(1782, 4) = 314 /\ HmaxFor(1188, 4) = 628
      /\ HmaxFor(1440, 4) = 628 /\ HmaxFor(891, 4) = 628
      /\ HmaxFor(720, 4) = 1256 /\ HmaxFor(594, 4) = 1256
  BY SMT DEF HmaxFor
<1> DEFINE Table(m) ==
      CASE m.readout = "binning" -> {1782, 891, 594}
        [] m.readout # "binning" /\ m.bits = 10 -> {2376, 1188, 594}
        [] m.readout # "binning" /\ m.bits = 12 -> {1440, 720}
<1>3. rate \in Table(kModes[k])
  BY Zenon DEF IsLaneRateAllowed
<1>4. CASE k = "FULL_RAW10"
  <2>1. kModes[k] = [readout |-> "all-pixel", width |-> 3552, height |-> 3556, bits |-> 10,
                     fps |-> <<30, 1>>, hmax |-> 0]
    BY <1>4, SMT DEF kModes
  <2>2. rate \in {2376, 1188, 594}
    BY <1>3, <2>1, SMT
  <2> QED
    BY <1>2, <2>1, <2>2, SMT DEF FitsThrough
<1>5. CASE k = "FULL_RAW12"
  <2>1. kModes[k] = [readout |-> "all-pixel", width |-> 3552, height |-> 3556, bits |-> 12,
                     fps |-> <<30, 1>>, hmax |-> 0]
    BY <1>5, SMT DEF kModes
  <2>2. rate \in {1440, 720}
    BY <1>3, <2>1, SMT
  <2> QED
    BY <1>2, <2>1, <2>2, SMT DEF FitsThrough
<1>6. CASE k = "BIN2_RAW12"
  <2>1. kModes[k] = [readout |-> "binning", width |-> 1776, height |-> 1778, bits |-> 12,
                     fps |-> <<30, 1>>, hmax |-> 0]
    BY <1>6, SMT DEF kModes
  <2>2. rate \in {1782, 891, 594}
    BY <1>3, <2>1, SMT
  <2> QED
    BY <1>2, <2>1, <2>2, SMT DEF FitsThrough
<1>7. CASE k = "CROP_3552X2160_RAW10"
  <2>1. kModes[k] = [readout |-> "crop", width |-> 3552, height |-> 2160, bits |-> 10,
                     fps |-> <<50, 1>>, hmax |-> 0]
    BY <1>7, SMT DEF kModes
  <2>2. rate \in {2376, 1188, 594}
    BY <1>3, <2>1, SMT
  <2> QED
    BY <1>2, <2>1, <2>2, SMT DEF FitsThrough
<1>8. CASE k = "CROP_1280X720_RAW10"
  <2>1. kModes[k] = [readout |-> "crop", width |-> 1280, height |-> 720, bits |-> 10,
                     fps |-> <<60, 1>>, hmax |-> 0]
    BY <1>8, SMT DEF kModes
  <2>2. rate \in {2376, 1188, 594}
    BY <1>3, <2>1, SMT
  <2> QED
    BY <1>2, <2>1, <2>2, SMT DEF FitsThrough
<1>9. CASE k = "BIN2_RAW12_60"
  <2>1. kModes[k] = [readout |-> "binning", width |-> 1776, height |-> 1778, bits |-> 12,
                     fps |-> <<60, 1>>, hmax |-> 341]
    BY <1>9, SMT DEF kModes
  <2>2. rate \in {1782, 891, 594}
    BY <1>3, <2>1, SMT
  <2> QED
    BY <2>1, <2>2, SMT DEF FitsThrough
<1> QED
  BY <1>1, <1>4, <1>5, <1>6, <1>7, <1>8, <1>9, Zenon

Sound(m, want, t) ==
  LET fps == IF want.fps[1] > 0 THEN want.fps ELSE m.fps
      linesPerLine == IF m.readout = "binning" THEN 2 ELSE 1
  IN /\ t.rate <= want.max /\ IsLaneRateAllowed(m, t.rate)
     /\ t.vmax = kMaxVmax \/ t.vmax * fps[1] >= (kHmaxClockHz * fps[2]) \div t.hmax
     /\ t.vmax >= m.height * linesPerLine + kVmaxMargin
     /\ want.lanes = 4 /\ want.hmax = 0 => FitsThrough(m, t.rate, t.hmax)

LEMMA SoundIsPlanIsSound ==
  PlanIsSound <=> (plan # NoPlan => Sound(kModes[plan.mode], plan.want, plan.timing))
  BY Zenon DEF PlanIsSound, Sound, FitsThrough

LEMMA PlannedIsSound ==
  ASSUME NEW w \in Wants, PlanTiming(kModes[w.mode], w.want) # NoTiming
  PROVE  Sound(kModes[w.mode], w.want, PlanTiming(kModes[w.mode], w.want))
<1> DEFINE m == kModes[w.mode]
           want == w.want
           t == PlanTiming(m, want)
           rates == IF want.rate # 0 THEN Usable(m, want.max) \cap {want.rate} ELSE Usable(m, want.max)
           rate == Max(rates)
           fps == IF want.fps[1] > 0 THEN want.fps ELSE m.fps
<1>1. w.mode \in Modes /\ IsMode(m) /\ IsTiming(t)
  BY PlannedTimingFits, ModesAreModes, Zenon
<1>2. rates # {} /\ t = Timing(m, rate, want)
  BY Zenon DEF PlanTiming
<1>3. rates \subseteq Usable(m, want.max)
  BY Zenon
<1> HIDE DEF rates
<1>4. rate \in Usable(m, want.max)
  <2>1. rates \subseteq kAllLaneRates
    BY <1>3, Zenon DEF Usable
  <2> QED
    BY <1>2, <1>3, <2>1, FastestIsOne, Zenon
<1> HIDE DEF rate
<1>5. rate \in kAllLaneRates /\ rate <= want.max /\ IsLaneRateAllowed(m, rate)
  BY <1>4, Zenon DEF Usable
<1>6. /\ t.rate = rate /\ t.vmax = VmaxForFps(m, t.hmax, fps)
      /\ want.hmax = 0 /\ want.lanes = 4
           => t.hmax = IF m.hmax # 0 THEN m.hmax ELSE HmaxFor(rate, 4)
  <2> HIDE DEF m, want, t
  <2>1. t.rate = rate /\ t.vmax = VmaxForFps(m, t.hmax, fps)
    BY <1>2, Zenon DEF Timing
  <2>2. want.hmax = 0 => t.hmax = IF m.hmax # 0 THEN m.hmax ELSE HmaxFor(rate, want.lanes)
    BY <1>2, SMT DEF Timing
  <2> QED
    BY <2>1, <2>2, Zenon
<1>7. fps \in Rates
  <2>1. want.fps \in Rates \cup {<<0, 1>>}
    BY EmuAssumption, SMT DEF EmuAssumption, Wanted
  <2>2. m.fps \in Rates /\ (want.fps[1] > 0 => want.fps \in Rates)
    BY <1>1, <2>1, SMT DEF IsMode
  <2> QED
    BY <2>2, Zenon
<1> HIDE DEF t
<1>8. /\ t.vmax = kMaxVmax \/ t.vmax * fps[1] >= (kHmaxClockHz * fps[2]) \div t.hmax
      /\ t.vmax >= m.height * (IF m.readout = "binning" THEN 2 ELSE 1) + kVmaxMargin
  <2>1. IsLineLength(t.hmax)
    BY <1>1, Zenon DEF IsTiming
  <2> HIDE DEF fps, m
  <2> QED
    BY <1>1, <1>6, <1>7, <2>1, VmaxIsSound, Zenon
<1>9. want.lanes = 4 /\ want.hmax = 0 => FitsThrough(m, t.rate, t.hmax)
  BY <1>1, <1>5, <1>6, LinesFit, Zenon
<1>10. t.rate <= want.max /\ IsLaneRateAllowed(m, t.rate)
  BY <1>5, <1>6, Zenon
<1>11. Sound(m, want, t)
  BY <1>8, <1>9, <1>10, Zenon DEF Sound
<1> QED
  BY <1>11, Zenon DEF t

(* Another frame rate leaves the rest of a sound plan sound.               *)
LEMMA RetimedIsSound ==
  ASSUME NEW m, IsMode(m), NEW want \in Wanted, NEW t, IsTiming(t), Sound(m, want, t),
         NEW fps, fps \in Rates, NEW want1, NEW t1,
         want1 = [want EXCEPT !.fps = fps],
         t1 = [rate |-> t.rate, hmax |-> t.hmax, vmax |-> VmaxForFps(m, t.hmax, fps)]
  PROVE  Sound(m, want1, t1) /\ want1 \in Wanted
<1>1. /\ want1.fps = fps /\ want1.max = want.max /\ want1.lanes = want.lanes
      /\ want1.hmax = want.hmax /\ want1 \in Wanted
  BY SMT DEF Wanted
<1>2. t1.rate = t.rate /\ t1.hmax = t.hmax /\ t1.vmax = VmaxForFps(m, t.hmax, fps)
  BY Zenon
<1>3. fps[1] > 0
  BY SMT DEF Rates
<1>4. IsLineLength(t.hmax)
  BY Zenon DEF IsTiming
<1>5. /\ t1.vmax = kMaxVmax \/ t1.vmax * fps[1] >= (kHmaxClockHz * fps[2]) \div t1.hmax
      /\ t1.vmax >= m.height * (IF m.readout = "binning" THEN 2 ELSE 1) + kVmaxMargin
  BY <1>2, <1>4, VmaxIsSound, Zenon
<1>6. /\ t1.rate <= want1.max /\ IsLaneRateAllowed(m, t1.rate)
      /\ want1.lanes = 4 /\ want1.hmax = 0 => FitsThrough(m, t1.rate, t1.hmax)
  BY <1>1, <1>2, Zenon DEF Sound
<1>7. (IF want1.fps[1] > 0 THEN want1.fps ELSE m.fps) = fps
  BY <1>1, <1>3, Zenon
<1> QED
  BY <1>1, <1>5, <1>6, <1>7, Zenon DEF Sound

PlanInv == PlanIsSound /\ (host # "off" => plan.want \in Wanted)

LEMMA PlanStep ==
  ASSUME IndInv, PlanInv, [Next]_vars
  PROVE  PlanInv'
<1>1. CASE UNCHANGED <<plan>> /\ (host' # "off" => host # "off")
  BY <1>1 DEF PlanInv, PlanIsSound
<1>2. ASSUME NEW w \in Wants, Configure(w)
      PROVE  PlanInv'
  <2> DEFINE m == kModes[w.mode]
             t == PlanTiming(m, w.want)
  <2>1. CASE t = NoTiming
    <3>1. UNCHANGED <<host, plan>>
      BY <1>2, <2>1 DEF Configure
    <3> QED
      BY <3>1, <1>1
  <2>2. CASE t # NoTiming
    <3>1. plan' = [mode |-> w.mode, want |-> w.want, timing |-> t, layout |-> CsiLayout(m)]
      BY <1>2, <2>2, Zenon DEF Configure
    <3>2. Sound(m, w.want, t) /\ w.want \in Wanted
      <4>1. Sound(m, w.want, t)
        BY <2>2, PlannedIsSound, Zenon
      <4> QED
        BY <4>1, EmuAssumption DEF EmuAssumption
    <3> HIDE DEF t
    <3>3. plan'.mode = w.mode /\ plan'.want = w.want /\ plan'.timing = t
      BY <3>1, Zenon
    <3>4. PlanIsSound' <=> (plan' # NoPlan => Sound(kModes[plan'.mode], plan'.want, plan'.timing))
      BY Zenon DEF PlanIsSound, Sound, FitsThrough
    <3> QED
      BY <3>2, <3>3, <3>4, Zenon DEF PlanInv
  <2> QED
    BY <2>1, <2>2
<1>3. ASSUME NEW fps \in FrameRates, SetFrameRate(fps)
      PROVE  PlanInv'
  <2> DEFINE m == kModes[plan.mode]
             vmax == VmaxForFps(m, plan.timing.hmax, fps)
  <2>1. /\ host = "streaming" /\ fps \in Rates
        /\ plan' = [plan EXCEPT !.timing.vmax = vmax, !.want.fps = fps]
    BY <1>3, EmuAssumption DEF SetFrameRate, EmuAssumption
  <2>2. /\ plan = [mode |-> plan.mode, want |-> plan.want, timing |-> plan.timing, layout |-> plan.layout]
        /\ plan.mode \in Modes /\ IsMode(m)
        /\ plan.timing = [rate |-> plan.timing.rate, hmax |-> plan.timing.hmax, vmax |-> plan.timing.vmax]
        /\ IsTiming(plan.timing)
    BY <2>1, ModesAreModes DEF IndInv, PlanOK, IsTiming
  <2>3. plan # NoPlan
    <3>1. "none" \notin Modes
      BY SMT DEF Modes, kModes
    <3> QED
      BY <2>2, <3>1 DEF NoPlan
  <2>4. Sound(m, plan.want, plan.timing) /\ plan.want \in Wanted
    BY <2>1, <2>3, SoundIsPlanIsSound, Zenon DEF PlanInv
  <2> DEFINE want1 == [plan.want EXCEPT !.fps = fps]
             t1 == [rate |-> plan.timing.rate, hmax |-> plan.timing.hmax, vmax |-> vmax]
  <2>5. Sound(m, want1, t1) /\ want1 \in Wanted
    <3>1. fps \in Rates
      BY <2>1, Zenon
    <3>2. IsMode(m) /\ IsTiming(plan.timing)
      BY <2>2, Zenon
    <3> HIDE DEF m
    <3> QED
      BY <2>4, <3>1, <3>2, RetimedIsSound
  <2> HIDE DEF vmax, m
  <2>6. plan'.mode = plan.mode /\ plan'.want = want1 /\ plan'.timing = t1
    BY <2>1, <2>2
  <2> HIDE DEF want1, t1
  <2>7. PlanIsSound' <=> (plan' # NoPlan => Sound(kModes[plan'.mode], plan'.want, plan'.timing))
    BY Zenon DEF PlanIsSound, Sound, FitsThrough
  <2> QED
    BY <2>5, <2>6, <2>7, Zenon DEF PlanInv, m
<1>4. CASE HostGoesOn \/ Stop \/ Die
  BY <1>1, <1>4 DEF HostGoesOn, Stop, Die
<1>5. CASE HostWrite \/ ServeCamera \/ Tick \/ Signal \/ AllDone \/ Join \/ UNCHANGED vars
  <2>1. UNCHANGED <<host, plan>>
    BY <1>5 DEF HostWrite, ServeCamera, Test, Wake, Read, Send, SendFails, Awake, Tick,
                Signal, AllDone, Join, vars, hostVars
  <2> QED
    BY <1>1, <2>1
<1> QED
  BY <1>2, <1>3, <1>4, <1>5 DEF Next

(* Every plan a session is configured with, for every mode, receiver,      *)
(* frame rate and line length asked for, keeps what PlanTiming is for      *)
(* (imx676_mode.cc): a lane rate that is allowed, a frame that is not      *)
(* shorter than its readout nor faster than asked, lines that fit through  *)
(* four lanes.                                                             *)
THEOREM PlansAreSound == Spec => []PlanIsSound
<1>1. Init => PlanInv
  BY DEF Init, PlanInv, PlanIsSound
<1>2. IndInv /\ PlanInv /\ [Next]_vars => PlanInv'
  BY PlanStep
<1>3. PlanInv => PlanIsSound
  BY DEF PlanInv
<1> QED
  BY <1>1, <1>2, <1>3, Inductive, PTL DEF Spec
-----------------------------------------------------------------------------
(* The measurement of a camera (BandwidthTest).                            *)

(* Where a frame still is says what it is later than.                      *)
StatsInOrder ==
  /\ latest # << >> => stats.last < Head(latest).number /\ Head(latest).number < sent
  /\ toStats # << >> => stats.last < Head(toStats).number /\ Head(toStats).number < sent
  /\ latest # << >> /\ toStats # << >> => Head(toStats).number < Head(latest).number
  /\ stats.last < sent /\ drops <= sent

CheckInOrder ==
  /\ toCheck # << >> => Head(toCheck).number <= stats.last
  /\ check.stage # Idle =>
       /\ check.frame # << >> /\ Head(check.frame).number <= stats.last
       /\ toCheck # << >> => Head(check.frame).number < Head(toCheck).number
       /\ \A c \in copies : c.frame.number <= Head(check.frame).number
  /\ check.stage = Idle /\ toCheck # << >> =>
       \A c \in copies : c.frame.number < Head(toCheck).number
  /\ check.stage \in {"dump", "crc"} =>
       \A c \in copies : c.for = "crc" => c.frame.number < Head(check.frame).number
  /\ \A c \in copies : c.frame.number <= stats.last

(* What FrameStatsOp has counted.                                          *)
SeenCounted ==
  /\ IsFiniteSet(seen)
  /\ stats.frames = 0 => seen = {} /\ stats.last = -1 /\ stats.first = -1 /\ stats.gaps = 0
  /\ stats.frames > 0 => 0 <= stats.first /\ stats.first <= stats.last
  /\ \A f \in seen : f.number <= stats.last

(* A page holds the frame it was asked for, or a later one; what a dump    *)
(* has copied is what the page holds, unless the page has moved on since.  *)
Written(f) == f.number <= Page(f).number
PagesMoveOn ==
  /\ \A i \in {0, 1} : pages[i].number < sent
  /\ \A q \in {latest, toStats, toCheck, check.frame} : q # << >> => Written(Head(q))
  /\ \A d \in copies : d.for = "dump" =>
       /\ d.frame.number <= d.content.number
       /\ d.content.number <= Page(d.frame).number
       /\ d.content.number = Page(d.frame).number => d.content = Page(d.frame)

Bad == {c \in copies : c.for = "crc" /\ ~Intact(c.frame, c.content)}
BadCounted == IsFiniteSet(Bad) /\ check.bad = Cardinality(Bad)

MeasureInv ==
  /\ MeasureTypeOK /\ StatsInOrder /\ CheckInOrder /\ SeenCounted /\ GapsExact
  /\ PagesMoveOn /\ BadCounted /\ VerifiedDumpIsGood
-----------------------------------------------------------------------------
(* A queue is empty or holds one frame.                                    *)
LEMMA SlotHead ==
  ASSUME NEW q \in Slots, q # << >>
  PROVE  Head(q) \in Frames /\ q = << Head(q) >>
BY DEF Slots

LEMMA SlotFill ==
  ASSUME NEW f \in Frames
  PROVE  << f >> \in Slots /\ << >> \in Slots /\ << f >> # << >> /\ Head(<< f >>) = f
BY DEF Slots

(* The pages alternate.                                                    *)
LEMMA PageIndex ==
  ASSUME NEW n \in Nat
  PROVE  n % 2 \in {0, 1}
OBVIOUS

LEMMA FrameType ==
  ASSUME NEW f \in Frames
  PROVE  f.number \in Nat /\ f.number % 2 \in {0, 1} /\ f.dropped \in Nat
BY PageIndex, BandwidthAssumption DEF Frames

LEMMA PageType ==
  ASSUME MeasureTypeOK, NEW f \in Frames
  PROVE  Page(f) \in Contents /\ Page(f).number \in Int
<1>1. f.number % 2 \in {0, 1} /\ pages \in [{0, 1} -> Contents]
  BY FrameType DEF MeasureTypeOK
<1>2. Page(f) \in Contents
  BY <1>1 DEF Page
<1> QED BY <1>2 DEF Contents

(* A frame that is waiting somewhere is a frame.                           *)
LEMMA Waiting ==
  ASSUME MeasureTypeOK, NEW q \in {latest, toStats, toCheck, check.frame}, q # << >>
  PROVE  Head(q) \in Frames /\ q = << Head(q) >>
<1>1. q \in Slots
  BY DEF MeasureTypeOK
<1> QED BY <1>1, SlotHead

LEMMA StatsType ==
  ASSUME MeasureTypeOK
  PROVE  /\ stats.last \in Int /\ stats.first \in Int /\ stats.counter \in Int
         /\ stats.frames \in Nat /\ stats.gaps \in Nat /\ stats.dropped \in Nat /\ stats.short \in Nat
BY BandwidthAssumption DEF MeasureTypeOK

LEMMA PagesType ==
  ASSUME MeasureTypeOK
  PROVE  \A i \in {0, 1} : pages[i] \in Contents /\ pages[i].number \in Int
<1>1. \A i \in {0, 1} : pages[i] \in Contents
  BY DEF MeasureTypeOK
<1> QED BY <1>1 DEF Contents

(* The stages of compute() follow each other.                              *)
LEMMA StageOrder == After("dump") = "crc" /\ After("crc") = "emit"
BY DEF After, Stages

(* The invariant holds before the first frame (FrameStatsOp and            *)
(* FrameCheckOp as start() leaves them).                                   *)
THEOREM InitEstablishes == MeasureInit => MeasureInv
<1> SUFFICES ASSUME MeasureInit PROVE MeasureInv
  OBVIOUS
<1>0. << >> \in Slots /\ MaxFrames \in Nat /\ DumpLimit \in Nat
  BY BandwidthAssumption DEF Slots
<1>1. MeasureTypeOK
  <2>1. pages \in [{0, 1} -> Contents]
    BY DEF MeasureInit, Contents
  <2> QED BY <1>0, <2>1 DEF MeasureInit, MeasureTypeOK, Idle
<1>2. StatsInOrder /\ CheckInOrder
  BY DEF MeasureInit, StatsInOrder, CheckInOrder, Idle
<1>3. SeenCounted /\ GapsExact
  BY FS_EmptySet DEF MeasureInit, SeenCounted, GapsExact
<1>4. PagesMoveOn
  BY DEF MeasureInit, PagesMoveOn
<1>5. BadCounted
  <2>1. Bad = {}
    BY DEF MeasureInit, Bad
  <2> QED BY <2>1, FS_EmptySet DEF MeasureInit, BadCounted
<1>6. VerifiedDumpIsGood
  BY DEF MeasureInit, VerifiedDumpIsGood
<1> QED BY <1>1, <1>2, <1>3, <1>4, <1>5, <1>6 DEF MeasureInv

(* The FPGA writes a page: every frame still under way is earlier than the *)
(* one it writes.                                                          *)
LEMMA SendKeepsInvariant ==
  ASSUME MeasureInv, NEW kind \in Kinds, SendFrame(kind)
  PROVE  MeasureInv'
<1>1. /\ sent \in Nat /\ sent < MaxFrames /\ sent' = sent + 1 /\ MaxFrames \in Nat
      /\ drops \in Nat /\ drops' \in Nat /\ drops <= drops' /\ drops' <= drops + 1
      /\ drops <= sent /\ sent % 2 \in {0, 1}
      /\ pages' = [pages EXCEPT ![sent % 2] = [number |-> sent, kind |-> kind]]
      /\ latest' = << [number |-> sent, kind |-> kind, dropped |-> drops'] >>
      /\ UNCHANGED <<toStats, toCheck, stats, check, ticking, test, seen, copies>>
  BY BandwidthAssumption, PageIndex DEF MeasureInv, MeasureTypeOK, StatsInOrder, SendFrame
<1> DEFINE f == [number |-> sent, kind |-> kind, dropped |-> drops']
           content == [number |-> sent, kind |-> kind]
<1>2. f \in Frames /\ content \in Contents /\ f.number = sent
  BY <1>1 DEF Frames, Contents
<1>3. latest' \in Slots /\ latest' # << >> /\ Head(latest') = f
  BY <1>1, <1>2, SlotFill
<1>4. pages \in [{0, 1} -> Contents] /\ pages' \in [{0, 1} -> Contents]
  BY <1>1, <1>2 DEF MeasureInv, MeasureTypeOK
<1>5. MeasureTypeOK'
  BY <1>1, <1>3, <1>4 DEF MeasureInv, MeasureTypeOK
<1>6. stats.last \in Int /\ stats.last < sent
  BY StatsType DEF MeasureInv, StatsInOrder
<1>7. StatsInOrder'
  <2>1. toStats # << >> => /\ stats.last < Head(toStats).number /\ Head(toStats).number < sent
                           /\ Head(toStats).number \in Nat
    BY Waiting, FrameType DEF MeasureInv, StatsInOrder
  <2> QED BY <1>1, <1>2, <1>3, <1>6, <2>1 DEF StatsInOrder
<1>8. CheckInOrder' /\ SeenCounted' /\ GapsExact' /\ BadCounted' /\ VerifiedDumpIsGood'
  BY <1>1 DEF MeasureInv, CheckInOrder, SeenCounted, GapsExact, BadCounted, Bad, VerifiedDumpIsGood
<1>9. \A i \in {0, 1} : /\ pages[i].number < sent /\ pages[i].number \in Int
                        /\ pages'[i] = IF i = sent % 2 THEN content ELSE pages[i]
  BY <1>1, <1>4 DEF MeasureInv, PagesMoveOn, Contents
<1>10. ASSUME NEW g \in Frames, Written(g), g.number < sent
       PROVE  Written(g)'
  <2>1. g.number \in Nat /\ g.number % 2 \in {0, 1}
    BY PageIndex DEF Frames
  <2> QED BY <1>1, <1>9, <1>10, <2>1 DEF Written, Page
<1>11. PagesMoveOn'
  <2>1. \A i \in {0, 1} : pages'[i].number < sent'
    BY <1>1, <1>9
  <2>2. Head(latest').number <= pages'[Head(latest').number % 2].number
    <3>1. pages'[sent % 2] = content /\ content.number = sent
      BY <1>1, <1>9
    <3> QED BY <1>1, <1>2, <1>3, <3>1
  <2>3. ASSUME NEW q \in {toStats, toCheck, check.frame}, q # << >>
        PROVE  Written(Head(q))'
    <3>1. Written(Head(q)) /\ Head(q) \in Frames
      BY <2>3, Waiting DEF MeasureInv, PagesMoveOn
    <3>2. /\ Page(Head(q)).number < sent /\ Page(Head(q)).number \in Int
          /\ Head(q).number \in Nat
      BY <3>1, <1>9, FrameType DEF Page
    <3> QED BY <3>1, <3>2, <1>1, <1>10 DEF Written
  <2>4. ASSUME NEW d \in copies, d.for = "dump"
        PROVE  /\ d.content.number <= Page(d.frame)'.number
               /\ d.content.number = Page(d.frame)'.number => d.content = Page(d.frame)'
    <3>1. /\ d.frame \in Frames /\ d.content \in Contents
          /\ d.content.number <= Page(d.frame).number
          /\ d.content.number = Page(d.frame).number => d.content = Page(d.frame)
      BY <2>4 DEF MeasureInv, MeasureTypeOK, PagesMoveOn
    <3>2. d.frame.number % 2 \in {0, 1} /\ d.content.number \in Int
      BY <3>1, PageIndex DEF Frames, Contents
    <3> QED BY <1>1, <1>9, <3>1, <3>2 DEF Page
  <2>5. \A q \in {latest, toStats, toCheck, check.frame}' : q # << >> => Written(Head(q))'
    BY <1>1, <2>2, <2>3 DEF Written, Page
  <2>6. \A d \in copies : d.for = "dump" => d.frame.number <= d.content.number
    BY DEF MeasureInv, PagesMoveOn
  <2> QED BY <1>1, <2>1, <2>4, <2>5, <2>6 DEF PagesMoveOn
<1> QED BY <1>5, <1>7, <1>8, <1>11 DEF MeasureInv

LEMMA LoseKeepsInvariant ==
  ASSUME MeasureInv, Lose
  PROVE  MeasureInv'
<1>1. /\ sent \in Nat /\ sent < MaxFrames /\ sent' = sent + 1 /\ MaxFrames \in Nat
      /\ drops \in Nat /\ drops' = drops + 1 /\ drops <= sent
      /\ UNCHANGED <<pages, latest, toStats, toCheck, stats, check, ticking, test, seen, copies>>
  BY BandwidthAssumption DEF MeasureInv, MeasureTypeOK, StatsInOrder, Lose
<1>2. MeasureTypeOK'
  BY <1>1 DEF MeasureInv, MeasureTypeOK
<1>3. StatsInOrder'
  <2>1. /\ stats.last \in Int
        /\ \A q \in {latest, toStats} : q # << >> => Head(q).number \in Nat
    BY Waiting, FrameType, StatsType DEF MeasureInv
  <2> QED BY <1>1, <2>1 DEF MeasureInv, StatsInOrder
<1>4. CheckInOrder' /\ SeenCounted' /\ GapsExact' /\ BadCounted' /\ VerifiedDumpIsGood'
  BY <1>1 DEF MeasureInv, CheckInOrder, SeenCounted, GapsExact, BadCounted, Bad, VerifiedDumpIsGood
<1>5. PagesMoveOn'
  <2>1. \A i \in {0, 1} : pages[i].number < sent /\ pages[i].number \in Int
    BY PagesType DEF MeasureInv, PagesMoveOn
  <2> QED BY <1>1, <2>1 DEF MeasureInv, PagesMoveOn, Written, Page
<1> QED BY <1>2, <1>3, <1>4, <1>5 DEF MeasureInv

LEMMA ReceiveKeepsInvariant ==
  ASSUME MeasureInv, Receive
  PROVE  MeasureInv'
<1>1. /\ latest # << >> /\ toStats' = latest /\ latest' = << >>
      /\ UNCHANGED <<sent, pages, drops, toCheck, stats, check, ticking, test, seen, copies>>
  BY DEF Receive
<1>2. MeasureTypeOK'
  BY <1>1 DEF MeasureInv, MeasureTypeOK, Slots
<1>3. StatsInOrder'
  BY <1>1 DEF MeasureInv, StatsInOrder
<1>4. CheckInOrder' /\ SeenCounted' /\ GapsExact' /\ BadCounted' /\ VerifiedDumpIsGood'
  BY <1>1 DEF MeasureInv, CheckInOrder, SeenCounted, GapsExact, BadCounted, Bad, VerifiedDumpIsGood
<1>5. PagesMoveOn'
  BY <1>1 DEF MeasureInv, PagesMoveOn, Written, Page
<1> QED BY <1>2, <1>3, <1>4, <1>5 DEF MeasureInv

(* FrameStatsOp counts a frame later than all it has seen: the gap it adds *)
(* is the number of frames missing before this one.                        *)
LEMMA StatsComputeKeepsInvariant ==
  ASSUME MeasureInv, StatsCompute
  PROVE  MeasureInv'
<1> DEFINE f == Head(toStats)
<1>1. /\ toStats # << >> /\ toStats' = << >>
      /\ stats' = Counted(stats, f) /\ seen' = seen \cup {f}
      /\ \/ toCheck = << >> /\ toCheck' = toStats /\ UNCHANGED test
         \/ toCheck # << >> /\ toCheck' = toCheck /\ test' = "error"
      /\ UNCHANGED <<sent, pages, latest, drops, check, ticking, copies>>
  BY DEF StatsCompute
<1>2. /\ f \in Frames /\ f.number \in Nat /\ f.dropped \in Nat
      /\ stats.last < f.number /\ f.number < sent /\ sent \in Nat /\ sent <= MaxFrames
      /\ f.dropped \in 0..MaxFrames /\ MaxFrames \in Nat
  <2>1. f \in Frames
    BY <1>1, Waiting DEF MeasureInv
  <2>2. f.dropped \in 0..MaxFrames
    BY <2>1 DEF Frames
  <2>3. sent \in Nat /\ sent <= MaxFrames /\ MaxFrames \in Nat
    BY BandwidthAssumption DEF MeasureInv, MeasureTypeOK
  <2> QED BY <1>1, <2>1, <2>2, <2>3, FrameType DEF MeasureInv, StatsInOrder
<1>3. /\ stats.last \in Int /\ stats.first \in Int /\ stats.counter \in Int
      /\ stats.frames \in Nat /\ stats.gaps \in Nat /\ stats.dropped \in Nat /\ stats.short \in Nat
      /\ stats.first \in -1..MaxFrames /\ -1 <= stats.last
  BY StatsType, BandwidthAssumption DEF MeasureInv, MeasureTypeOK
<1> DEFINE gap == IF stats.last >= 0 THEN f.number - stats.last - 1 ELSE 0
<1>4. /\ stats' \in [frames : Nat, gaps : Nat, dropped : Nat, short : Nat,
                     first : -1..MaxFrames, last : -1..MaxFrames, counter : -1..MaxFrames]
      /\ stats'.frames = stats.frames + 1 /\ stats'.last = f.number
      /\ stats'.first = (IF stats.first < 0 THEN f.number ELSE stats.first)
      /\ stats'.gaps = stats.gaps + gap
  <2>1. Positive(f.number - stats.last - 1) = f.number - stats.last - 1
    BY <1>2, <1>3 DEF Positive
  <2>2. Positive(f.dropped - stats.counter) \in Nat
    BY <1>2, <1>3 DEF Positive
  <2>3. stats \in [frames : Nat, gaps : Nat, dropped : Nat, short : Nat,
                   first : -1..MaxFrames, last : -1..MaxFrames, counter : -1..MaxFrames]
    BY DEF MeasureInv, MeasureTypeOK
  <2>4. stats' = [stats EXCEPT !.frames = @ + 1,
                               !.first = IF @ < 0 THEN f.number ELSE @,
                               !.last = f.number,
                               !.gaps = @ + gap,
                               !.dropped = @ + (IF stats.counter >= 0
                                                THEN Positive(f.dropped - stats.counter) ELSE 0),
                               !.counter = f.dropped,
                               !.short = @ + (IF f.kind = "short" THEN 1 ELSE 0)]
    BY <1>1, <2>1 DEF Counted, Skipped
  <2>5. gap \in Nat
    BY <1>2, <1>3
  <2>6. f.number \in -1..MaxFrames /\ f.dropped \in -1..MaxFrames
    BY <1>2
  <2> DEFINE short == IF f.kind = "short" THEN 1 ELSE 0
             lost == IF stats.counter >= 0 THEN Positive(f.dropped - stats.counter) ELSE 0
             first == IF stats.first < 0 THEN f.number ELSE stats.first
  <2>7. short \in Nat /\ lost \in Nat /\ first \in -1..MaxFrames
    BY <1>3, <2>2, <2>6
  <2>8. stats' = [stats EXCEPT !.frames = stats.frames + 1, !.first = first, !.last = f.number,
                               !.gaps = stats.gaps + gap, !.dropped = stats.dropped + lost,
                               !.counter = f.dropped, !.short = stats.short + short]
    BY <2>4
  <2>9. /\ stats.frames + 1 \in Nat /\ stats.gaps + gap \in Nat
        /\ stats.dropped + lost \in Nat /\ stats.short + short \in Nat
    BY <1>3, <2>5, <2>7
  <2>10. /\ stats'.frames = stats.frames + 1 /\ stats'.last = f.number
         /\ stats'.first = first /\ stats'.gaps = stats.gaps + gap
    BY <2>3, <2>8
  <2> HIDE DEF f, gap, short, lost, first
  <2>11. stats' \in [frames : Nat, gaps : Nat, dropped : Nat, short : Nat,
                     first : -1..MaxFrames, last : -1..MaxFrames, counter : -1..MaxFrames]
    BY <2>3, <2>6, <2>7, <2>8, <2>9
  <2> QED BY <2>10, <2>11 DEF first
<1>later. f.number = stats'.last /\ stats.last < stats'.last /\ stats'.last \in Int /\ stats.last \in Int
  BY <1>2, <1>3, <1>4
<1>5. toCheck' \in Slots /\ << >> \in Slots
  BY <1>1 DEF MeasureInv, MeasureTypeOK, Slots
<1>6. MeasureTypeOK'
  BY <1>1, <1>2, <1>4, <1>5 DEF MeasureInv, MeasureTypeOK
<1>7. StatsInOrder'
  BY <1>1, <1>2, <1>4 DEF MeasureInv, StatsInOrder
<1>8. \A c \in copies : c.frame.number \in Nat /\ c.frame.number <= stats.last
  BY FrameType DEF MeasureInv, MeasureTypeOK, CheckInOrder
<1>9. CheckInOrder'
  <2>1. CASE toCheck # << >>
    <3>1. toCheck' = toCheck /\ Head(toCheck).number \in Nat /\ Head(toCheck).number <= stats.last
      BY <1>1, <2>1, Waiting, FrameType DEF MeasureInv, CheckInOrder
    <3>2. check.stage # Idle => Head(check.frame).number \in Nat
      BY Waiting, FrameType DEF MeasureInv, CheckInOrder
    <3> HIDE DEF f, gap
    <3>3. /\ Head(toCheck).number <= stats'.last
          /\ \A c \in copies : c.frame.number <= stats'.last
          /\ check.stage # Idle => Head(check.frame).number <= stats'.last
      BY <1>later, <1>8, <3>1, <3>2 DEF MeasureInv, CheckInOrder
    <3> QED BY <1>1, <3>1, <3>3 DEF MeasureInv, CheckInOrder
  <2>2. CASE toCheck = << >>
    <3>1. toCheck' = toStats /\ Head(toCheck') = f
      BY <1>1, <2>2
    <3>2. check.stage # Idle => Head(check.frame).number \in Nat
      BY Waiting, FrameType DEF MeasureInv, CheckInOrder
    <3>3. Head(toCheck').number = stats'.last
      BY <1>4, <3>1
    <3> HIDE DEF f, gap
    <3>4. /\ \A c \in copies : c.frame.number < stats'.last
          /\ check.stage # Idle => Head(check.frame).number < stats'.last
      BY <1>later, <1>8, <3>2 DEF MeasureInv, CheckInOrder
    <3>5. /\ \A c \in copies : c.frame.number <= stats'.last
          /\ check.stage # Idle => Head(check.frame).number <= stats'.last
          /\ stats'.last \in Int /\ stats'.last <= stats'.last
      BY <1>later, <1>8, <3>2, <3>4
    <3> QED BY <1>1, <3>3, <3>4, <3>5 DEF MeasureInv, CheckInOrder
  <2> QED BY <2>1, <2>2
<1>10. /\ IsFiniteSet(seen) /\ f \notin seen /\ IsFiniteSet(seen')
       /\ Cardinality(seen) \in Nat /\ Cardinality(seen') = Cardinality(seen) + 1
  <2>1. IsFiniteSet(seen) /\ f \notin seen
    BY <1>2, <1>3 DEF MeasureInv, SeenCounted
  <2> QED BY <1>1, <2>1, FS_AddElement, FS_CardinalityType
<1>11. SeenCounted'
  <2>1. ASSUME NEW g \in seen' PROVE g.number <= stats'.last
    <3>1. g = f \/ (g \in seen /\ g.number \in Nat /\ g.number <= stats.last)
      BY <1>1, FrameType DEF MeasureInv, SeenCounted, MeasureTypeOK
    <3> QED BY <3>1, <1>2, <1>3, <1>4
  <2>2. 0 <= stats'.first /\ stats'.first <= stats'.last
    BY <1>2, <1>3, <1>4 DEF MeasureInv, SeenCounted
  <2> QED BY <1>3, <1>4, <1>10, <2>1, <2>2 DEF SeenCounted
<1>12. GapsExact'
  <2>1. CASE stats.frames = 0
    <3>1. Cardinality(seen) = 0 /\ stats.last = -1 /\ stats.first = -1 /\ stats.gaps = 0
      BY <2>1, FS_EmptySet DEF MeasureInv, SeenCounted
    <3> QED BY <1>2, <1>4, <1>10, <3>1 DEF GapsExact
  <2>2. CASE stats.frames > 0
    <3>1. /\ stats.gaps = (stats.last - stats.first + 1) - Cardinality(seen)
          /\ 0 <= stats.first /\ stats.first <= stats.last
      BY <2>2 DEF MeasureInv, SeenCounted, GapsExact
    <3> QED BY <1>2, <1>3, <1>4, <1>10, <3>1 DEF GapsExact
  <2> QED BY <1>3, <2>1, <2>2
<1>13. PagesMoveOn'
  <2>1. \A q \in {latest, toStats, toCheck, check.frame} : q # << >> => Written(Head(q))
    BY DEF MeasureInv, PagesMoveOn
  <2>2. \A q \in {latest, toStats, toCheck, check.frame}' : q # << >> => Written(Head(q))'
    BY <1>1, <2>1 DEF Written, Page
  <2> QED BY <1>1, <2>2 DEF MeasureInv, PagesMoveOn, Page
<1>14. BadCounted' /\ VerifiedDumpIsGood'
  BY <1>1, <1>4 DEF MeasureInv, BadCounted, Bad, VerifiedDumpIsGood
<1> QED BY <1>6, <1>7, <1>9, <1>11, <1>12, <1>13, <1>14 DEF MeasureInv

(* A frame enters the check after everything that was copied before.       *)
LEMMA CheckBeginKeepsInvariant ==
  ASSUME MeasureInv, CheckBegin
  PROVE  MeasureInv'
<1>1. /\ check.stage = Idle /\ toCheck # << >> /\ toCheck' = << >>
      /\ check' = [check EXCEPT !.stage = "dump", !.frame = toCheck, !.frames = @ + 1,
                                !.size = @ + (IF Head(toCheck).kind = "short" THEN 1 ELSE 0)]
      /\ UNCHANGED <<sent, pages, latest, drops, toStats, stats, ticking, test, seen, copies>>
  BY DEF CheckBegin, Stages
<1>2. check' \in [stage : {Idle, "dump", "crc", "emit"}, frame : Slots, frames : Nat, checked : Nat,
                  bad : Nat, unavailable : Nat, size : Nat, flat : Nat, dumped : 0..DumpLimit]
  <2>1. /\ toCheck \in Slots
        /\ check \in [stage : {Idle, "dump", "crc", "emit"}, frame : Slots, frames : Nat,
                      checked : Nat, bad : Nat, unavailable : Nat, size : Nat, flat : Nat,
                      dumped : 0..DumpLimit]
    BY DEF MeasureInv, MeasureTypeOK
  <2> DEFINE short == IF Head(toCheck).kind = "short" THEN 1 ELSE 0
  <2>2. /\ check' = [check EXCEPT !.stage = "dump", !.frame = toCheck,
                                 !.frames = check.frames + 1, !.size = check.size + short]
        /\ short \in Nat /\ check.frames \in Nat /\ check.size \in Nat
    BY <1>1, <2>1
  <2>3. check.frames + 1 \in Nat /\ check.size + short \in Nat
    BY <2>2
  <2> HIDE DEF short
  <2> QED BY <2>1, <2>2, <2>3
<1>3. MeasureTypeOK'
  BY <1>1, <1>2 DEF MeasureInv, MeasureTypeOK, Slots
<1>4. check'.stage = "dump" /\ check'.frame = toCheck /\ check'.bad = check.bad
  BY <1>1 DEF MeasureInv, MeasureTypeOK
<1>5. StatsInOrder' /\ SeenCounted' /\ GapsExact' /\ BadCounted' /\ VerifiedDumpIsGood'
  BY <1>1, <1>4 DEF MeasureInv, StatsInOrder, SeenCounted, GapsExact, BadCounted, Bad, VerifiedDumpIsGood
<1>6. CheckInOrder'
  <2>1. \A c \in copies : c.frame.number \in Nat
    BY FrameType DEF MeasureInv, MeasureTypeOK
  <2>2. Head(toCheck).number \in Nat
    BY <1>1, Waiting, FrameType DEF MeasureInv
  <2> QED BY <1>1, <1>4, <2>1, <2>2 DEF MeasureInv, CheckInOrder, Idle
<1>7. PagesMoveOn'
  <2>1. \A q \in {latest, toStats, toCheck, check.frame}' : q # << >> => Written(Head(q))'
    BY <1>1, <1>4 DEF MeasureInv, PagesMoveOn, Written, Page
  <2> QED BY <1>1, <2>1 DEF MeasureInv, PagesMoveOn, Page
<1> QED BY <1>3, <1>5, <1>6, <1>7 DEF MeasureInv

(* The dump copies the page as it is now: no CRC of this frame was checked *)
(* before, so that nothing is known of it yet.                             *)
LEMMA CheckDumpKeepsInvariant ==
  ASSUME MeasureInv, CheckDump
  PROVE  MeasureInv'
<1> DEFINE f == Head(check.frame)
           copy == [for |-> "dump", frame |-> f, content |-> Page(f)]
<1>1. /\ check.stage = "dump" /\ check.frame # << >>
      /\ UNCHANGED <<sent, pages, latest, drops, toStats, toCheck, stats, ticking, test, seen>>
  BY DEF CheckDump, MeasureInv, CheckInOrder, Idle
<1>2. /\ f \in Frames /\ f.number \in Nat /\ Page(f) \in Contents /\ Page(f).number \in Int
      /\ f.number <= Page(f).number /\ f.number <= stats.last
  BY <1>1, Waiting, FrameType, PageType DEF MeasureInv, CheckInOrder, PagesMoveOn, Written, Idle
<1>3. /\ copies' \in {copies, copies \cup {copy}}
      /\ check' = [check EXCEPT !.stage = "crc", !.dumped = check'.dumped]
      /\ check'.dumped \in 0..DumpLimit
  <2>1. check.dumped \in 0..DumpLimit /\ DumpLimit \in Nat
    BY BandwidthAssumption DEF MeasureInv, MeasureTypeOK
  <2>2. CASE WantDump
    <3>1. /\ copies' = copies \cup {copy}
          /\ check' = [check EXCEPT !.stage = "crc", !.dumped = check.dumped + 1]
      BY <2>2, StageOrder, <1>1 DEF CheckDump, Copy
    <3>2. check'.dumped = check.dumped + 1 /\ check.dumped < DumpLimit
      BY <3>1, <2>2 DEF WantDump, MeasureInv, MeasureTypeOK
    <3> QED BY <2>1, <3>1, <3>2
  <2>3. CASE ~WantDump
    <3>1. copies' = copies /\ check' = [check EXCEPT !.stage = "crc"]
      BY <2>3, StageOrder, <1>1 DEF CheckDump
    <3>2. check'.dumped = check.dumped /\ check' = [check EXCEPT !.stage = "crc", !.dumped = check.dumped]
      BY <3>1 DEF MeasureInv, MeasureTypeOK
    <3> QED BY <2>1, <3>1, <3>2
  <2> QED BY <2>2, <2>3
<1>4. /\ check'.stage = "crc" /\ check'.frame = check.frame /\ check'.bad = check.bad
      /\ check' \in [stage : {Idle, "dump", "crc", "emit"}, frame : Slots, frames : Nat, checked : Nat,
                     bad : Nat, unavailable : Nat, size : Nat, flat : Nat, dumped : 0..DumpLimit]
  BY <1>3 DEF MeasureInv, MeasureTypeOK
<1>5. copy.for = "dump" /\ copy.frame = f /\ copy.content = Page(f)
      /\ copy \in [for : {"dump", "crc"}, frame : Frames, content : Contents]
  BY <1>2
<1> HIDE DEF copy, f
<1>6. MeasureTypeOK'
  BY <1>1, <1>3, <1>4, <1>5 DEF MeasureInv, MeasureTypeOK
<1>7. StatsInOrder' /\ SeenCounted' /\ GapsExact'
  BY <1>1 DEF MeasureInv, StatsInOrder, SeenCounted, GapsExact
<1>8. \A c \in copies' : c.for = "crc" => c \in copies
  BY <1>3, <1>5
<1>9. CheckInOrder'
  <2>1. \A c \in copies' : c.frame.number <= f.number /\ c.frame.number <= stats.last
    BY <1>1, <1>2, <1>3, <1>5 DEF MeasureInv, CheckInOrder, Idle, f
  <2>2. Head(check'.frame) = f /\ Head(check.frame) = f
    BY <1>4 DEF f
  <2>3. \A c \in copies : c.for = "crc" => c.frame.number < f.number
    BY <1>1, <2>2 DEF MeasureInv, CheckInOrder
  <2> QED BY <1>1, <1>2, <1>4, <1>8, <2>1, <2>2, <2>3 DEF MeasureInv, CheckInOrder, Idle
<1>10. PagesMoveOn'
  <2>1. \A q \in {latest, toStats, toCheck, check.frame}' : q # << >> => Written(Head(q))'
    BY <1>1, <1>4 DEF MeasureInv, PagesMoveOn, Written, Page
  <2>2. \A d \in copies' : d.for = "dump" =>
          /\ d.frame.number <= d.content.number
          /\ d.content.number <= Page(d.frame).number
          /\ d.content.number = Page(d.frame).number => d.content = Page(d.frame)
    BY <1>2, <1>3, <1>5 DEF MeasureInv, PagesMoveOn
  <2> QED BY <1>1, <2>1, <2>2 DEF MeasureInv, PagesMoveOn, Page
<1>11. BadCounted'
  <2>1. Bad' = Bad
    BY <1>3, <1>5 DEF Bad, Intact
  <2> QED BY <1>4, <2>1 DEF MeasureInv, BadCounted
<1>12. VerifiedDumpIsGood'
  <2> SUFFICES ASSUME NEW d \in copies', NEW c \in copies', d.for = "dump", c.for = "crc",
                      d.frame = c.frame, Intact(c.frame, c.content)
               PROVE  Intact(d.frame, d.content)
    BY DEF VerifiedDumpIsGood, Intact
  <2>1. c \in copies /\ c.frame.number < f.number
    BY <1>1, <1>8 DEF MeasureInv, CheckInOrder, f
  <2>2. d \in copies
    BY <1>2, <1>3, <1>5, <2>1
  <2> QED BY <2>1, <2>2 DEF MeasureInv, VerifiedDumpIsGood
<1> QED BY <1>6, <1>7, <1>9, <1>10, <1>11, <1>12 DEF MeasureInv

(* The CRC is that of the frame as it was sent: found good, the page holds *)
(* this frame still, and held it when the dump was taken.                  *)
LEMMA CheckCrcKeepsInvariant ==
  ASSUME MeasureInv, CheckCrc
  PROVE  MeasureInv'
<1> DEFINE f == Head(check.frame)
           copy == [for |-> "crc", frame |-> f, content |-> Page(f)]
           bad == IF Mismatch(f) THEN 1 ELSE 0
<1>1. /\ check.stage = "crc" /\ check.frame # << >>
      /\ UNCHANGED <<sent, pages, latest, drops, toStats, toCheck, stats, ticking, test, seen>>
  BY DEF CheckCrc, MeasureInv, CheckInOrder, Idle
<1>2. /\ f \in Frames /\ f.number \in Nat /\ Page(f) \in Contents /\ Page(f).number \in Int
      /\ f.number <= Page(f).number /\ f.number <= stats.last
  BY <1>1, Waiting, FrameType, PageType DEF MeasureInv, CheckInOrder, PagesMoveOn, Written, Idle
<1>3. check \in [stage : {Idle, "dump", "crc", "emit"}, frame : Slots, frames : Nat, checked : Nat,
                 bad : Nat, unavailable : Nat, size : Nat, flat : Nat, dumped : 0..DumpLimit]
  BY DEF MeasureInv, MeasureTypeOK
<1>4. \/ copies' = copies /\ check'.bad = check.bad
      \/ copies' = copies \cup {copy} /\ check'.bad = check.bad + bad
  <2>1. CASE UNCHANGED copies
    BY <1>3, <2>1 DEF CheckCrc, Copy, Verified
  <2>2. CASE check' = Verified(f) /\ Copy("crc", f)
    BY <1>3, <2>2 DEF Copy, Verified
  <2> QED BY <2>1, <2>2 DEF CheckCrc
<1>5. /\ check'.stage = "emit" /\ check'.frame = check.frame
      /\ check' \in [stage : {Idle, "dump", "crc", "emit"}, frame : Slots, frames : Nat, checked : Nat,
                     bad : Nat, unavailable : Nat, size : Nat, flat : Nat, dumped : 0..DumpLimit]
  <2>1. CASE check' = [check EXCEPT !.stage = After(@)]
    BY <1>1, <1>3, <2>1, StageOrder
  <2>2. CASE check' = [check EXCEPT !.stage = After(@), !.unavailable = @ + 1]
    <3>1. check' = [check EXCEPT !.stage = "emit", !.unavailable = check.unavailable + 1]
      BY <1>1, <1>3, <2>2, StageOrder
    <3>2. check.unavailable + 1 \in Nat
      BY <1>3
    <3> QED BY <1>3, <3>1, <3>2
  <2>3. CASE check' = Verified(f)
    <3> DEFINE flat == IF Page(f).kind = "flat" THEN 1 ELSE 0
    <3>1. check' = [check EXCEPT !.stage = "emit", !.checked = check.checked + 1,
                                 !.bad = check.bad + bad, !.flat = check.flat + flat]
      BY <1>1, <1>3, <2>3, StageOrder DEF Verified
    <3>2. check.checked + 1 \in Nat /\ check.bad + bad \in Nat /\ check.flat + flat \in Nat
      BY <1>3
    <3> HIDE DEF flat, bad, f
    <3> QED BY <1>3, <3>1, <3>2
  <2> QED BY <2>1, <2>2, <2>3 DEF CheckCrc
<1>6. copy.for = "crc" /\ copy.frame = f /\ copy.content = Page(f)
      /\ copy \in [for : {"dump", "crc"}, frame : Frames, content : Contents]
  BY <1>2
<1>7. Mismatch(f) <=> ~Intact(f, Page(f))
  BY DEF Mismatch
<1> HIDE DEF copy, f
<1>8. MeasureTypeOK'
  BY <1>1, <1>4, <1>5, <1>6 DEF MeasureInv, MeasureTypeOK
<1>9. StatsInOrder' /\ SeenCounted' /\ GapsExact'
  BY <1>1 DEF MeasureInv, StatsInOrder, SeenCounted, GapsExact
<1>10. CheckInOrder'
  <2>1. \A c \in copies' : c.frame.number <= f.number /\ c.frame.number <= stats.last
    BY <1>1, <1>2, <1>4, <1>6 DEF MeasureInv, CheckInOrder, Idle, f
  <2>2. Head(check'.frame) = f /\ Head(check.frame) = f
    BY <1>5 DEF f
  <2> QED BY <1>1, <1>2, <1>5, <2>1, <2>2 DEF MeasureInv, CheckInOrder, Idle
<1>11. PagesMoveOn'
  <2>1. \A q \in {latest, toStats, toCheck, check.frame}' : q # << >> => Written(Head(q))'
    BY <1>1, <1>5 DEF MeasureInv, PagesMoveOn, Written, Page
  <2>2. \A d \in copies' : d.for = "dump" => d \in copies
    BY <1>4, <1>6
  <2> QED BY <1>1, <2>1, <2>2 DEF MeasureInv, PagesMoveOn, Page
<1>12. copy \notin copies
  <2>1. \A c \in copies : c.for = "crc" => c.frame.number < f.number
    BY <1>1 DEF MeasureInv, CheckInOrder, f
  <2> QED BY <1>2, <1>6, <2>1
<1>13. BadCounted'
  <2>1. IsFiniteSet(Bad) /\ check.bad = Cardinality(Bad)
    BY DEF MeasureInv, BadCounted
  <2>2. CASE copies' = copies /\ check'.bad = check.bad
    BY <2>1, <2>2 DEF Bad, BadCounted
  <2>3. CASE copies' = copies \cup {copy} /\ check'.bad = check.bad + bad /\ Mismatch(f)
    <3>1. Bad' = Bad \cup {copy} /\ copy \notin Bad
      BY <1>6, <1>7, <1>12, <2>3 DEF Bad
    <3> QED BY <2>1, <2>3, <3>1, FS_AddElement DEF BadCounted
  <2>4. CASE copies' = copies \cup {copy} /\ check'.bad = check.bad + bad /\ ~Mismatch(f)
    <3>1. Bad' = Bad
      BY <1>6, <1>7, <2>4 DEF Bad
    <3> QED BY <1>3, <2>1, <2>4, <3>1 DEF BadCounted
  <2> QED BY <1>4, <2>2, <2>3, <2>4
<1>14. VerifiedDumpIsGood'
  <2> SUFFICES ASSUME NEW d \in copies', NEW c \in copies', d.for = "dump", c.for = "crc",
                      d.frame = c.frame, Intact(c.frame, c.content)
               PROVE  Intact(d.frame, d.content)
    BY DEF VerifiedDumpIsGood, Intact
  <2>1. d \in copies
    BY <1>4, <1>6
  <2>2. CASE c \in copies
    BY <2>1, <2>2 DEF MeasureInv, VerifiedDumpIsGood
  <2>3. CASE c = copy
    <3>1. /\ f.number <= d.content.number /\ d.content.number <= Page(f).number
          /\ d.content.number = Page(f).number => d.content = Page(f)
          /\ d.content.number \in Int
      <4>1. d.frame = f /\ d \in copies /\ d.for = "dump"
        BY <1>6, <2>1, <2>3
      <4>2. d.content \in Contents
        BY <4>1 DEF MeasureInv, MeasureTypeOK
      <4> QED BY <4>1, <4>2 DEF MeasureInv, PagesMoveOn, Contents
    <3>2. Page(f).number = f.number /\ Intact(f, Page(f))
      BY <1>6, <2>3 DEF Intact
    <3>3. d.content = Page(f)
      BY <1>2, <3>1, <3>2
    <3> QED BY <1>6, <2>3, <3>2, <3>3
  <2> QED BY <1>4, <2>2, <2>3
<1> QED BY <1>8, <1>9, <1>10, <1>11, <1>13, <1>14 DEF MeasureInv

LEMMA CheckEndKeepsInvariant ==
  ASSUME MeasureInv, CheckEnd
  PROVE  MeasureInv'
<1>1. /\ check.stage = "emit"
      /\ check' = [check EXCEPT !.stage = Idle, !.frame = << >>]
      /\ UNCHANGED <<sent, pages, latest, drops, toStats, toCheck, stats, ticking, test, seen, copies>>
  BY DEF CheckEnd
<1>2. /\ check'.stage = Idle /\ check'.frame = << >> /\ check'.bad = check.bad
      /\ check' \in [stage : {Idle, "dump", "crc", "emit"}, frame : Slots, frames : Nat, checked : Nat,
                     bad : Nat, unavailable : Nat, size : Nat, flat : Nat, dumped : 0..DumpLimit]
  BY <1>1 DEF MeasureInv, MeasureTypeOK, Slots
<1>3. MeasureTypeOK'
  BY <1>1, <1>2 DEF MeasureInv, MeasureTypeOK
<1>4. StatsInOrder' /\ SeenCounted' /\ GapsExact' /\ BadCounted' /\ VerifiedDumpIsGood'
  BY <1>1, <1>2 DEF MeasureInv, StatsInOrder, SeenCounted, GapsExact, BadCounted, Bad, VerifiedDumpIsGood
<1>5. CheckInOrder'
  <2>1. /\ \A c \in copies : c.frame.number <= Head(check.frame).number /\ c.frame.number \in Nat
        /\ check.frame # << >>
        /\ toCheck # << >> => Head(check.frame).number < Head(toCheck).number
    BY <1>1, FrameType DEF MeasureInv, CheckInOrder, MeasureTypeOK, Idle
  <2>2. /\ Head(check.frame).number \in Nat
        /\ toCheck # << >> => Head(toCheck).number \in Nat
    BY <2>1, Waiting, FrameType DEF MeasureInv
  <2>3. toCheck # << >> => \A c \in copies : c.frame.number < Head(toCheck).number
    BY <2>1, <2>2
  <2> QED BY <1>1, <1>2, <2>3 DEF MeasureInv, CheckInOrder, Idle
<1>6. PagesMoveOn'
  BY <1>1, <1>2 DEF MeasureInv, PagesMoveOn, Written, Page
<1> QED BY <1>3, <1>4, <1>5, <1>6 DEF MeasureInv

LEMMA MainKeepsInvariant ==
  ASSUME MeasureInv, TakeEnd \/ Judge \/ UNCHANGED measureVars
  PROVE  MeasureInv'
<1>1. /\ test' \in {"measuring", "draining", "pass", "fail", "error"} /\ ticking' \in BOOLEAN
      /\ UNCHANGED <<sent, pages, latest, drops, toStats, toCheck, stats, check, seen, copies>>
  BY DEF TakeEnd, Judge, measureVars, MeasureInv, MeasureTypeOK
<1>2. MeasureTypeOK'
  BY <1>1 DEF MeasureInv, MeasureTypeOK
<1>3. StatsInOrder' /\ CheckInOrder' /\ SeenCounted' /\ GapsExact' /\ BadCounted' /\ VerifiedDumpIsGood'
  BY <1>1 DEF MeasureInv, StatsInOrder, CheckInOrder, SeenCounted, GapsExact, BadCounted, Bad,
              VerifiedDumpIsGood
<1>4. PagesMoveOn'
  BY <1>1 DEF MeasureInv, PagesMoveOn, Written, Page
<1> QED BY <1>2, <1>3, <1>4 DEF MeasureInv

(* Every step of the FPGA, the pipeline and the test keeps the invariant.  *)
THEOREM StepsKeep == MeasureInv /\ [MeasureNext]_measureVars => MeasureInv'
<1> SUFFICES ASSUME MeasureInv, [MeasureNext]_measureVars PROVE MeasureInv'
  OBVIOUS
<1>1. ASSUME NEW kind \in Kinds, SendFrame(kind) PROVE MeasureInv'
  BY <1>1, SendKeepsInvariant
<1>2. CASE Lose
  BY <1>2, LoseKeepsInvariant
<1>3. CASE Receive
  BY <1>3, ReceiveKeepsInvariant
<1>4. CASE StatsCompute
  BY <1>4, StatsComputeKeepsInvariant
<1>5. CASE CheckBegin
  BY <1>5, CheckBeginKeepsInvariant
<1>6. CASE CheckDump
  BY <1>6, CheckDumpKeepsInvariant
<1>7. CASE CheckCrc
  BY <1>7, CheckCrcKeepsInvariant
<1>8. CASE CheckEnd
  BY <1>8, CheckEndKeepsInvariant
<1>9. CASE TakeEnd \/ Judge \/ UNCHANGED measureVars
  BY <1>9, MainKeepsInvariant
<1> QED BY <1>1, <1>2, <1>3, <1>4, <1>5, <1>6, <1>7, <1>8, <1>9 DEF MeasureNext, Pipeline

(* The invariant holds whatever the link loses and in whatever order the   *)
(* operators of bandwidth_test run.                                        *)
THEOREM Invariance == MeasureSpec => []MeasureInv
BY InitEstablishes, StepsKeep, PTL DEF MeasureSpec
-----------------------------------------------------------------------------
(* Every variable keeps its type; no queue holds more than one frame.      *)
THEOREM TypeCorrect == MeasureSpec => []MeasureTypeOK
<1>1. MeasureInv => MeasureTypeOK
  BY DEF MeasureInv
<1> QED BY <1>1, Invariance, PTL

(* FrameStatsOp counts exactly the missing frames between the first and    *)
(* the last that came through, however the frames were lost.               *)
THEOREM GapsAreExact == MeasureSpec => []GapsExact
<1>1. MeasureInv => GapsExact
  BY DEF MeasureInv
<1> QED BY <1>1, Invariance, PTL

(* FrameCheckOp counts as bad exactly the frames whose page was damaged or *)
(* overwritten by the time it was copied for the CRC.                      *)
THEOREM OverwritesAreDetected == MeasureSpec => []OverwriteDetected
<1>1. MeasureInv => OverwriteDetected
  BY DEF MeasureInv, BadCounted, Bad, OverwriteDetected
<1> QED BY <1>1, Invariance, PTL

(* A dump whose frame then passes the CRC is itself good.                  *)
THEOREM VerifiedDumpsAreGood == MeasureSpec => []VerifiedDumpIsGood
<1>1. MeasureInv => VerifiedDumpIsGood
  BY DEF MeasureInv
<1> QED BY <1>1, Invariance, PTL
-----------------------------------------------------------------------------
(* The verdict.  What a PASS is decided by, the counters, against what it  *)
(* is about, the frames.                                                   *)
SeenWhole ==
  /\ stats.frames = Cardinality(seen)
  /\ stats.frames > 0 /\ stats.gaps = 0 => {f.number : f \in seen} = stats.first..stats.last
  /\ stats.short = 0 => \A f \in seen : f.kind # "short"

Flat == {c \in copies : c.for = "crc" /\ c.content.kind = "flat"}
FlatCounted == check.flat = 0 => Flat = {}

(* Every frame counted is handed on, unless the framework ended the run;   *)
(* every CrcEvery-th was compared.                                         *)
HandedOn == test # "error" => stats.frames = check.frames + (IF toCheck = << >> THEN 0 ELSE 1)
Begun == IF check.stage \in {"dump", "crc"} THEN check.frames - 1 ELSE check.frames
CrcWhenDue ==
  /\ check.stage # Idle => check.frames > 0
  /\ check.checked + check.unavailable = Begun \div CrcEvery

Passed ==
  test = "pass" =>
    /\ Drained /\ stats.frames > 0 /\ stats.gaps + stats.dropped <= AllowedDrops
    /\ stats.short = 0 /\ check.bad = 0 /\ check.flat = 0

VerdictInv == SeenWhole /\ FlatCounted /\ HandedOn /\ CrcWhenDue /\ Passed

LEMMA CheckType ==
  ASSUME MeasureTypeOK
  PROVE  /\ check.frames \in Nat /\ check.checked \in Nat /\ check.unavailable \in Nat
         /\ check.flat \in Nat /\ check.bad \in Nat /\ CrcEvery \in Nat \ {0}
BY BandwidthAssumption DEF MeasureTypeOK

(* Division is what it should be, whatever the divisor.                    *)
LEMMA DivIsUnique ==
  ASSUME NEW k \in Nat \ {0}, NEW q \in Int, NEW r \in 0..(k - 1)
  PROVE  (k * q + r) \div k = q /\ (k * q + r) % k = r
<1> DEFINE m == k * q + r
           p == m \div k
           s == m % k
<1>1. m \in Int /\ p \in Int /\ s \in 0..(k - 1) /\ m = k * p + s
  OBVIOUS
<1>2. k * (p - q) = r - s
  BY <1>1
<1>3. r - s < k /\ s - r < k
  BY <1>1
<1>4. ~(p - q >= 1)
  <2>1. p - q >= 1 => k * (p - q) >= k
    BY <1>1
  <2> QED BY <1>2, <1>3, <2>1, <1>1
<1>5. ~(q - p >= 1)
  <2>1. q - p >= 1 => k * (q - p) >= k
    BY <1>1
  <2>2. k * (q - p) = s - r
    BY <1>1, <1>2
  <2> QED BY <1>3, <2>1, <2>2, <1>1
<1>6. p = q
  BY <1>1, <1>4, <1>5
<1> QED BY <1>1, <1>2, <1>6

(* Of n + 1 frames one more is due than of n, if the last one is.          *)
LEMMA DueCount ==
  ASSUME NEW n \in Nat, NEW k \in Nat \ {0}
  PROVE  (n + 1) \div k = (n \div k) + (IF (n + 1) % k = 0 THEN 1 ELSE 0)
<1> DEFINE q == n \div k
           r == n % k
<1>1. q \in Int /\ r \in 0..(k - 1) /\ n = k * q + r
  OBVIOUS
<1> HIDE DEF q, r
<1>2. CASE r = k - 1
  <2>1. n + 1 = k * (q + 1) + 0
    BY <1>1, <1>2
  <2>2. (n + 1) \div k = q + 1 /\ (n + 1) % k = 0
    BY <1>1, <2>1, DivIsUnique
  <2> QED BY <2>2 DEF q
<1>3. CASE r < k - 1
  <2>1. n + 1 = k * q + (r + 1) /\ r + 1 \in 0..(k - 1) /\ r + 1 # 0
    BY <1>1, <1>3
  <2>2. (n + 1) \div k = q /\ (n + 1) % k = r + 1
    BY <1>1, <2>1, DivIsUnique
  <2> QED BY <1>1, <2>1, <2>2 DEF q
<1> QED BY <1>1, <1>2, <1>3

LEMMA VerdictInit == MeasureInit => VerdictInv
<1> SUFFICES ASSUME MeasureInit PROVE VerdictInv
  OBVIOUS
<1>1. SeenWhole
  BY FS_EmptySet DEF MeasureInit, SeenWhole
<1>2. FlatCounted /\ HandedOn /\ Passed
  BY DEF MeasureInit, FlatCounted, Flat, HandedOn, Passed
<1>3. CrcWhenDue
  <2>1. CrcEvery \in Nat \ {0} /\ 0 = CrcEvery * 0 + 0 /\ 0 \in 0..(CrcEvery - 1)
    BY BandwidthAssumption
  <2>2. 0 \div CrcEvery = 0
    BY <2>1, DivIsUnique
  <2> QED BY <2>2 DEF MeasureInit, CrcWhenDue, Begun, Idle
<1> QED BY <1>1, <1>2, <1>3 DEF VerdictInv

(* The FPGA and the receiver change nothing a verdict is made of.          *)
LEMMA VerdictArrival ==
  ASSUME VerdictInv, Lose \/ Receive \/ \E kind \in Kinds : SendFrame(kind)
  PROVE  VerdictInv'
<1>1. /\ UNCHANGED <<toCheck, stats, check, ticking, test, seen, copies>>
      /\ test = "pass" => Receive
  BY DEF Lose, Receive, SendFrame
<1>2. SeenWhole' /\ FlatCounted' /\ HandedOn' /\ CrcWhenDue'
  BY <1>1 DEF VerdictInv, SeenWhole, FlatCounted, Flat, HandedOn, CrcWhenDue, Begun
<1>3. Passed'
  BY <1>1 DEF VerdictInv, Passed, Drained, Receive
<1> QED BY <1>2, <1>3 DEF VerdictInv

LEMMA VerdictStats ==
  ASSUME MeasureInv, VerdictInv, StatsCompute
  PROVE  VerdictInv'
<1> DEFINE f == Head(toStats)
<1>1. /\ toStats # << >> /\ test \notin {"pass", "fail", "error"}
      /\ stats' = Counted(stats, f) /\ seen' = seen \cup {f}
      /\ \/ toCheck = << >> /\ toCheck' = toStats /\ UNCHANGED test
         \/ toCheck # << >> /\ toCheck' = toCheck /\ test' = "error"
      /\ UNCHANGED <<check, copies>>
  BY DEF StatsCompute
<1>2. /\ f \in Frames /\ f.number \in Nat /\ stats.last < f.number
  BY <1>1, Waiting, FrameType DEF MeasureInv, StatsInOrder
<1>3. /\ stats.last \in Int /\ stats.first \in Int /\ stats.frames \in Nat /\ stats.gaps \in Nat
      /\ stats.short \in Nat
  BY StatsType DEF MeasureInv
<1>4. /\ stats'.frames = stats.frames + 1 /\ stats'.last = f.number
      /\ stats'.first = (IF stats.first < 0 THEN f.number ELSE stats.first)
      /\ stats'.gaps = stats.gaps + (IF stats.last >= 0 THEN f.number - stats.last - 1 ELSE 0)
      /\ stats'.short = stats.short + (IF f.kind = "short" THEN 1 ELSE 0)
  <2>1. Positive(f.number - stats.last - 1) = f.number - stats.last - 1
    BY <1>2, <1>3 DEF Positive
  <2>2. stats \in [frames : Nat, gaps : Nat, dropped : Nat, short : Nat,
                   first : -1..MaxFrames, last : -1..MaxFrames, counter : -1..MaxFrames]
    BY DEF MeasureInv, MeasureTypeOK
  <2> QED BY <1>1, <2>1, <2>2 DEF Counted, Skipped
<1>5. IsFiniteSet(seen) /\ f \notin seen /\ Cardinality(seen') = stats.frames + 1
  <2>1. IsFiniteSet(seen) /\ f \notin seen
    BY <1>2, <1>3 DEF MeasureInv, SeenCounted
  <2> QED BY <1>1, <2>1, FS_AddElement DEF VerdictInv, SeenWhole
<1>6. SeenWhole'
  <2>1. ASSUME stats'.gaps = 0
        PROVE  {g.number : g \in seen'} = stats'.first..stats'.last
    <3>1. {g.number : g \in seen'} = {g.number : g \in seen} \cup {f.number}
      BY <1>1
    <3>2. CASE stats.frames = 0
      <4>1. seen = {} /\ stats'.first = f.number
        BY <1>4, <3>2 DEF MeasureInv, SeenCounted
      <4>2. {g.number : g \in seen} = {} /\ f.number..f.number = {f.number}
        BY <1>2, <4>1
      <4>3. {g.number : g \in seen'} = {f.number}
        BY <3>1, <4>2
      <4>4. stats'.first = f.number /\ stats'.last = f.number
        BY <1>4, <4>1
      <4> HIDE DEF f
      <4> QED BY <4>2, <4>3, <4>4
    <3>3. CASE stats.frames > 0
      <4>1. /\ 0 <= stats.first /\ stats.first <= stats.last
            /\ stats.gaps = 0 /\ f.number = stats.last + 1 /\ stats'.first = stats.first
        <5>1. 0 <= stats.first /\ stats.first <= stats.last
          BY <3>3 DEF MeasureInv, SeenCounted
        <5> HIDE DEF f
        <5>2. stats.gaps + (f.number - stats.last - 1) = 0 /\ stats'.first = stats.first
          BY <1>3, <1>4, <2>1, <5>1
        <5> QED BY <1>2, <1>3, <5>1, <5>2
      <4>2. {g.number : g \in seen} = stats.first..stats.last
        BY <3>3, <4>1 DEF VerdictInv, SeenWhole
      <4> HIDE DEF f
      <4>3. stats.first..(stats.last + 1) = (stats.first..stats.last) \cup {stats.last + 1}
        BY <1>3, <4>1
      <4> QED BY <1>4, <3>1, <4>1, <4>2, <4>3
    <3> QED BY <1>3, <3>2, <3>3
  <2>2. stats'.short = 0 => \A g \in seen' : g.kind # "short"
    BY <1>1, <1>3, <1>4 DEF VerdictInv, SeenWhole
  <2> QED BY <1>4, <1>5, <2>1, <2>2 DEF SeenWhole
<1>7. FlatCounted' /\ CrcWhenDue'
  BY <1>1 DEF VerdictInv, FlatCounted, Flat, CrcWhenDue, Begun
<1>8. HandedOn'
  <2>1. check.frames \in Nat
    BY CheckType DEF MeasureInv
  <2> QED BY <1>1, <1>3, <1>4, <2>1 DEF VerdictInv, HandedOn
<1>9. Passed'
  BY <1>1 DEF Passed
<1> QED BY <1>6, <1>7, <1>8, <1>9 DEF VerdictInv

LEMMA VerdictBegin ==
  ASSUME MeasureInv, VerdictInv, CheckBegin
  PROVE  VerdictInv'
<1>1. /\ check.stage = Idle /\ toCheck # << >> /\ toCheck' = << >>
      /\ UNCHANGED <<toStats, stats, ticking, test, seen, copies>>
  BY DEF CheckBegin
<1>2. /\ check'.stage = "dump" /\ check'.frames = check.frames + 1 /\ check'.checked = check.checked
      /\ check'.unavailable = check.unavailable /\ check'.flat = check.flat /\ check.frames \in Nat
  BY DEF CheckBegin, Stages, MeasureInv, MeasureTypeOK
<1>3. SeenWhole' /\ FlatCounted'
  BY <1>1, <1>2 DEF VerdictInv, SeenWhole, FlatCounted, Flat
<1>4. HandedOn'
  BY <1>1, <1>2 DEF VerdictInv, HandedOn
<1>5. CrcWhenDue'
  BY <1>1, <1>2 DEF VerdictInv, CrcWhenDue, Begun, Idle
<1>6. Passed'
  BY <1>1 DEF VerdictInv, Passed, Drained
<1> QED BY <1>3, <1>4, <1>5, <1>6 DEF VerdictInv

LEMMA VerdictDump ==
  ASSUME MeasureInv, VerdictInv, CheckDump
  PROVE  VerdictInv'
<1>1. check.stage = "dump" /\ UNCHANGED <<toStats, toCheck, stats, ticking, test, seen>>
  BY DEF CheckDump
<1>2. /\ check'.stage = "crc" /\ check'.frames = check.frames /\ check'.checked = check.checked
      /\ check'.unavailable = check.unavailable /\ check'.flat = check.flat
  BY <1>1, StageOrder DEF CheckDump, MeasureInv, MeasureTypeOK
<1>3. Flat' = Flat
  BY DEF CheckDump, Copy, Flat
<1>4. SeenWhole' /\ FlatCounted' /\ HandedOn'
  BY <1>1, <1>2, <1>3 DEF VerdictInv, SeenWhole, FlatCounted, HandedOn
<1>5. CrcWhenDue'
  BY <1>1, <1>2 DEF VerdictInv, CrcWhenDue, Begun, Idle
<1>6. Passed'
  BY <1>1 DEF VerdictInv, Passed, Drained, Idle
<1> QED BY <1>4, <1>5, <1>6 DEF VerdictInv

LEMMA VerdictCrc ==
  ASSUME MeasureInv, VerdictInv, CheckCrc
  PROVE  VerdictInv'
<1> DEFINE f == Head(check.frame)
           flat == IF Page(f).kind = "flat" THEN 1 ELSE 0
           isDue == IF check.frames % CrcEvery = 0 THEN 1 ELSE 0
<1>1. check.stage = "crc" /\ UNCHANGED <<toStats, toCheck, stats, ticking, test, seen>>
  BY DEF CheckCrc
<1>2. /\ check.frames \in Nat /\ check.checked \in Nat /\ check.unavailable \in Nat
      /\ check.flat \in Nat /\ CrcEvery \in Nat \ {0}
  BY CheckType DEF MeasureInv
<1>3. /\ check'.stage = "emit" /\ check'.frames = check.frames
      /\ check'.checked + check'.unavailable = check.checked + check.unavailable + isDue
      /\ \/ copies' = copies /\ check'.flat = check.flat
         \/ /\ copies' = copies \cup {[for |-> "crc", frame |-> f, content |-> Page(f)]}
            /\ check'.flat = check.flat + flat
  <2>1. check \in [stage : {Idle, "dump", "crc", "emit"}, frame : Slots, frames : Nat, checked : Nat,
                   bad : Nat, unavailable : Nat, size : Nat, flat : Nat, dumped : 0..DumpLimit]
    BY DEF MeasureInv, MeasureTypeOK
  <2>2. CASE ~Due(CrcEvery) /\ check' = [check EXCEPT !.stage = After(@)] /\ UNCHANGED copies
    BY <1>1, <1>2, <2>1, <2>2, StageOrder DEF Due
  <2>3. CASE Due(CrcEvery) /\ UNCHANGED copies
             /\ check' = [check EXCEPT !.stage = After(@), !.unavailable = @ + 1]
    BY <1>1, <1>2, <2>1, <2>3, StageOrder DEF Due
  <2>4. CASE Due(CrcEvery) /\ check' = Verified(f) /\ Copy("crc", f)
    <3>1. /\ check'.stage = "emit" /\ check'.frames = check.frames
          /\ check'.checked = check.checked + 1 /\ check'.unavailable = check.unavailable
          /\ check'.flat = check.flat + flat
      BY <1>1, <2>1, <2>4, StageOrder DEF Verified
    <3> QED BY <1>2, <2>4, <3>1 DEF Due, Copy
  <2> QED BY <2>2, <2>3, <2>4 DEF CheckCrc
<1>4. SeenWhole' /\ HandedOn'
  BY <1>1, <1>3 DEF VerdictInv, SeenWhole, HandedOn
<1>5. FlatCounted'
  BY <1>2, <1>3 DEF VerdictInv, FlatCounted, Flat
<1>6. CrcWhenDue'
  <2>1. /\ check.frames > 0 /\ check.frames - 1 \in Nat /\ (check.frames - 1) + 1 = check.frames
        /\ check.checked + check.unavailable = (check.frames - 1) \div CrcEvery
    BY <1>1, <1>2 DEF VerdictInv, CrcWhenDue, Begun, Idle
  <2>2. check.frames \div CrcEvery = ((check.frames - 1) \div CrcEvery) + isDue
    BY <1>2, <2>1, DueCount
  <2>3. Begun' = check.frames
    BY <1>3 DEF Begun
  <2> QED BY <1>3, <2>1, <2>2, <2>3 DEF CrcWhenDue
<1>7. Passed'
  BY <1>1 DEF VerdictInv, Passed, Drained, Idle
<1> QED BY <1>4, <1>5, <1>6, <1>7 DEF VerdictInv

LEMMA VerdictEnd ==
  ASSUME MeasureInv, VerdictInv, CheckEnd
  PROVE  VerdictInv'
<1>1. check.stage = "emit" /\ UNCHANGED <<toStats, toCheck, stats, ticking, test, seen, copies>>
  BY DEF CheckEnd
<1>2. /\ check'.stage = Idle /\ check'.frames = check.frames /\ check'.checked = check.checked
      /\ check'.unavailable = check.unavailable /\ check'.flat = check.flat
  BY DEF CheckEnd, MeasureInv, MeasureTypeOK
<1>3. SeenWhole' /\ FlatCounted' /\ HandedOn'
  BY <1>1, <1>2 DEF VerdictInv, SeenWhole, FlatCounted, Flat, HandedOn
<1>4. CrcWhenDue'
  BY <1>1, <1>2 DEF VerdictInv, CrcWhenDue, Begun, Idle
<1>5. Passed'
  BY <1>1 DEF VerdictInv, Passed, Drained, Idle
<1> QED BY <1>3, <1>4, <1>5 DEF VerdictInv

LEMMA VerdictMain ==
  ASSUME MeasureInv, VerdictInv, TakeEnd \/ Judge \/ UNCHANGED measureVars
  PROVE  VerdictInv'
<1>1. UNCHANGED <<toStats, toCheck, stats, check, seen, copies>> /\ (test = "error" => test' = "error")
  BY DEF TakeEnd, Judge, measureVars
<1>2. SeenWhole' /\ FlatCounted' /\ HandedOn' /\ CrcWhenDue'
  BY <1>1 DEF VerdictInv, SeenWhole, FlatCounted, Flat, HandedOn, CrcWhenDue, Begun, TakeEnd, Judge, measureVars
<1>3. Passed'
  <2>1. CASE TakeEnd
    BY <2>1 DEF TakeEnd, Passed
  <2>2. CASE Judge
    BY <2>2 DEF Judge, Passed, Passes, Drained
  <2>3. CASE UNCHANGED measureVars
    BY <2>3 DEF measureVars, VerdictInv, Passed, Drained
  <2> QED BY <2>1, <2>2, <2>3
<1> QED BY <1>2, <1>3 DEF VerdictInv

LEMMA VerdictSteps == MeasureInv /\ VerdictInv /\ [MeasureNext]_measureVars => VerdictInv'
<1> SUFFICES ASSUME MeasureInv, VerdictInv, [MeasureNext]_measureVars PROVE VerdictInv'
  OBVIOUS
<1>1. CASE Lose \/ Receive \/ \E kind \in Kinds : SendFrame(kind)
  BY <1>1, VerdictArrival
<1>2. CASE StatsCompute
  BY <1>2, VerdictStats
<1>3. CASE CheckBegin
  BY <1>3, VerdictBegin
<1>4. CASE CheckDump
  BY <1>4, VerdictDump
<1>5. CASE CheckCrc
  BY <1>5, VerdictCrc
<1>6. CASE CheckEnd
  BY <1>6, VerdictEnd
<1>7. CASE TakeEnd \/ Judge \/ UNCHANGED measureVars
  BY <1>7, VerdictMain
<1> QED BY <1>1, <1>2, <1>3, <1>4, <1>5, <1>6, <1>7 DEF MeasureNext, Pipeline

(* PASS with no drops allowed means what it says: no frame between the     *)
(* first and the last is missing or short, and every frame the CRC was due *)
(* for was compared, in full, with what the FPGA sent.                     *)
THEOREM PassMeansGood == MeasureSpec => []PassIsSound
<1>1. ASSUME MeasureInv, VerdictInv PROVE PassIsSound
  <2> SUFFICES ASSUME test = "pass", AllowedDrops = 0 PROVE
        /\ {f.number : f \in seen} = stats.first..stats.last
        /\ \A f \in seen : f.kind # "short"
        /\ check.checked + check.unavailable = Cardinality(seen) \div CrcEvery
        /\ \A c \in copies : c.for = "crc" => Intact(c.frame, c.content) /\ c.content.kind # "flat"
    BY DEF PassIsSound
  <2>1. /\ toCheck = << >> /\ check.stage = Idle /\ stats.frames > 0 /\ stats.short = 0
        /\ stats.gaps + stats.dropped <= 0 /\ check.bad = 0 /\ check.flat = 0
    BY <1>1 DEF VerdictInv, Passed, Drained
  <2>2. stats.gaps = 0
    BY <1>1, <2>1, StatsType DEF MeasureInv
  <2>3. stats.frames = Cardinality(seen) /\ stats.frames = check.frames
    BY <1>1, <2>1, CheckType DEF VerdictInv, SeenWhole, HandedOn, MeasureInv
  <2>4. check.checked + check.unavailable = Cardinality(seen) \div CrcEvery
    BY <1>1, <2>1, <2>3 DEF VerdictInv, CrcWhenDue, Begun, Idle
  <2>5. Bad = {} /\ Flat = {}
    BY <1>1, <2>1, FS_EmptySet DEF MeasureInv, BadCounted, VerdictInv, FlatCounted
  <2> QED BY <1>1, <2>1, <2>2, <2>4, <2>5 DEF VerdictInv, SeenWhole, Bad, Flat
<1>2. MeasureSpec => [](MeasureInv /\ VerdictInv)
  BY InitEstablishes, StepsKeep, VerdictInit, VerdictSteps, PTL DEF MeasureSpec
<1> QED BY <1>1, <1>2, PTL
=============================================================================
