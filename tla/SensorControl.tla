---------------------------- MODULE SensorControl ----------------------------
(***************************************************************************)
(* Live sensor control: CameraControls::Apply (apps/cam_tuner) drives      *)
(* NativeImx676Sensor (hsb/sensors/imx676), which writes the registers of  *)
(* a sensor that keeps streaming.                                          *)
(*                                                                         *)
(* Apply holds the mutex of CameraControls, so one request is served at a  *)
(* time; what it interleaves with is the sensor, which takes over the      *)
(* written registers at each frame start unless REGHOLD is 1.  A frame may *)
(* start in every state, so what is said of every state with REGHOLD 0 is  *)
(* said of every frame.  One I2C transaction writes one byte and may fail. *)
(*                                                                         *)
(* A register byte is a digit of base Base; times are counted in lines (1H *)
(* periods): an fps value stands for the frame length kHmaxClockHz /       *)
(* (hmax * fps), an exposure for its integration lines.                    *)
(***************************************************************************)
EXTENDS Integers, Sequences

CONSTANTS
  Base,            \* 2^8 in the code
  MinVmax,         \* readout lines + kVmaxMargin
  MaxVmax,         \* kMaxVmax
  MinShr0,         \* kMinShr0
  MinIntegration,  \* kMinIntegrationLines
  MaxBlackLevel,   \* 1023
  DefaultBlackLevel, \* kBlackLevelRegisterDefault
  Requests,        \* bound: the /control requests that occur
  Configs          \* bound: the configurations the rig starts with

(* The keys in the order Apply looks at them.  "tpg" is no key but what    *)
(* pattern_changed asks for.                                               *)
Order == <<"fps", "exposure", "gain", "black", "select", "pattern", "tpg">>
Keys == {"fps", "exposure", "gain", "black", "select", "pattern", "tpg"}
IsRequest(r) ==
  /\ r = [k \in DOMAIN r |-> r[k]] /\ DOMAIN r \subseteq Keys
  /\ \A k \in DOMAIN r : r[k] \in Nat
  /\ "select" \in DOMAIN r => r["select"] < Base \* a pattern is a byte

ASSUME SensorAssumption ==
  /\ Base \in Nat \ {0, 1}
  /\ {MinVmax, MaxVmax, MinShr0, MinIntegration, MaxBlackLevel, DefaultBlackLevel} \subseteq Nat
  /\ MinShr0 + MinIntegration <= MinVmax /\ MinVmax <= MaxVmax
  /\ MaxVmax < Base * Base * Base /\ DefaultBlackLevel <= MaxBlackLevel
  /\ \A r \in Requests : r # << >> /\ IsRequest(r) /\ "tpg" \notin DOMAIN r
  /\ \A c \in Configs : /\ c.vmax \in MinVmax..MaxVmax /\ {c.exposure, c.gain} \subseteq Nat
                        /\ c.pattern \in BOOLEAN /\ c.select \in 0..(Base - 1)

VARIABLES
  shadow,  \* the register bytes as written
  cache,   \* timing_, options_ of the driver; black_level_, test_pattern_, test_pattern_select_ of the controls
  request, \* the keys Apply still has to look at, with their values
  script,  \* what remains of the driver call being executed
  torn,    \* history: registers some, but not all bytes of a value were written to
  serving, \* history: the key whose call is being executed
  stale    \* history: keys whose call failed and has not completed since

vars == <<shadow, cache, request, script, torn, serving, stale>>

Bytes == [VMAX |-> 3, SHR0 |-> 3, GAIN |-> 2, BLKLEVEL |-> 2, REGHOLD |-> 1, TPG_EN |-> 1, PATSEL |-> 1]
Registers == DOMAIN Bytes

Weights == <<1, Base, Base * Base>>
Digit(v, i) == (v \div Weights[i]) % Base
Digits(reg, v) == [i \in 1..Bytes[reg] |-> Digit(v, i)]
(* What VMAX or SHR0, of three bytes each, is set to.                      *)
Value(regs, reg) == regs[reg][1] + Base * regs[reg][2] + Base * Base * regs[reg][3]
-----------------------------------------------------------------------------
(* hsb/sensors/imx676/imx676_mode.                                         *)

AtLeast(a, b) == IF a < b THEN b ELSE a
AtMost(a, b) == IF a > b THEN b ELSE a

RoundUpEven(n) == n + (n % 2)
VmaxForFps(lines) == AtMost(AtLeast(RoundUpEven(lines), MinVmax), MaxVmax)

Shr0ForExposure(vmax, exposure) ==
  AtMost(AtLeast(vmax - exposure, MinShr0), vmax - MinIntegration)

MaxExposure(vmax) == vmax - MinShr0
-----------------------------------------------------------------------------
(* The driver's calls, as scripts: register writes and assignments to the  *)
(* cached values, in the order the code makes them.                        *)

Write(reg, v) ==
  [i \in 1..Bytes[reg] |->
     [kind |-> "write", reg |-> reg, byte |-> i, value |-> Digit(v, i)]]
Assign(field, v) == << [kind |-> "assign", field |-> field, value |-> v] >>

Latched_NoHold(reg, v) == Write(reg, v) \* mutant
Latched(reg, v) == Write("REGHOLD", 1) \o Write(reg, v) \o Write("REGHOLD", 0)

SetExposure(vmax, exposure) ==
  Assign("exposure", exposure) \o Latched("SHR0", Shr0ForExposure(vmax, exposure))

SetFrameRate_KeepsShutter(vmax) == Latched("VMAX", vmax) \o Assign("vmax", vmax) \* mutant
SetFrameRate(vmax) ==
  Latched("VMAX", vmax) \o Assign("vmax", vmax) \o SetExposure(vmax, cache.exposure)

SetGain(gain) == Assign("gain", gain) \o Latched("GAIN", gain)

(* set_black_level, and the assignment to black_level_ after it.           *)
SetBlackLevel(level) == Write("BLKLEVEL", level) \o Assign("black", level)

(* Only BLKLEVEL_LOW: the high byte keeps what it holds.                   *)
BlackLow(low) == << Write("BLKLEVEL", low)[1] >>

SetTestPattern_NoSelect(enable, select) == \* mutant: PATSEL is not written
  IF enable THEN BlackLow(0) \o Write("TPG_EN", 1)
            ELSE BlackLow(Digit(DefaultBlackLevel, 1)) \o Write("TPG_EN", 0)

(* TestPatternEnable / TestPatternDisable: the tables also set the low     *)
(* byte of BLKLEVEL.                                                       *)
SetTestPattern(enable, select) ==
  IF enable THEN BlackLow(0) \o Write("TPG_EN", 1) \o Write("PATSEL", select)
            ELSE BlackLow(Digit(DefaultBlackLevel, 1)) \o Write("TPG_EN", 0)
-----------------------------------------------------------------------------
(* configure(): everything is programmed while the sensor is in standby.   *)
Configured(c) ==
  [VMAX |-> Digits("VMAX", c.vmax),
   SHR0 |-> Digits("SHR0", Shr0ForExposure(c.vmax, c.exposure)),
   GAIN |-> Digits("GAIN", c.gain),
   BLKLEVEL |-> IF c.pattern THEN [Digits("BLKLEVEL", DefaultBlackLevel) EXCEPT ![1] = 0]
                             ELSE Digits("BLKLEVEL", DefaultBlackLevel),
   REGHOLD |-> <<0>>,
   TPG_EN |-> <<IF c.pattern THEN 1 ELSE 0>>,
   PATSEL |-> <<IF c.pattern THEN c.select ELSE 0>>]

TypeOK ==
  /\ \A reg \in Registers : shadow[reg] \in [1..Bytes[reg] -> 0..(Base - 1)]
  /\ torn \subseteq Registers
  /\ cache.vmax \in MinVmax..MaxVmax /\ cache.exposure \in Nat /\ cache.gain \in Nat
  /\ cache.black \in 0..MaxBlackLevel /\ cache.pattern \in BOOLEAN

Init ==
  \E c \in Configs :
    /\ cache = [vmax |-> c.vmax, exposure |-> c.exposure, gain |-> c.gain, pattern |-> c.pattern,
                select |-> c.select, black |-> DefaultBlackLevel]
    /\ shadow = Configured(c)
    /\ torn = {}
    /\ request = << >>
    /\ script = << >>
    /\ serving = "tpg"
    /\ stale = {}

Idle == request = << >> /\ script = << >>

(* A request arrives and Apply takes the mutex.                            *)
Apply(r) ==
  /\ Idle
  /\ request' = r
  /\ UNCHANGED <<shadow, cache, script, torn, serving, stale>>

FirstKey == Order[CHOOSE i \in DOMAIN Order :
                    /\ Order[i] \in DOMAIN request
                    /\ \A j \in 1..(i - 1) : Order[j] \notin DOMAIN request]
Without(r, key) == [k \in DOMAIN r \ {key} |-> r[k]]

(* Is the value one the branch of `key` accepts?                           *)
Accepted(key, v) ==
  CASE key = "fps"      -> v >= MinVmax
    [] key = "exposure" -> v > 0 /\ v <= MaxExposure(cache.vmax)
    [] key = "gain"     -> v < Base * Base
    [] key = "black"    -> v <= MaxBlackLevel
    [] OTHER            -> TRUE

Call(key, v) ==
  CASE key = "fps"      -> SetFrameRate(VmaxForFps(v))
    [] key = "exposure" -> SetExposure(cache.vmax, v)
    [] key = "gain"     -> SetGain(v)
    [] key = "black"    -> SetBlackLevel(v)
    [] key = "select"   -> Assign("select", v)
    [] key = "pattern"  -> Assign("pattern", v = 1)
    [] key = "tpg"      -> SetTestPattern(cache.pattern, cache.select)

WithTpg(r) == IF "tpg" \in DOMAIN r THEN r ELSE [k \in DOMAIN r \cup {"tpg"} |-> IF k = "tpg" THEN 1 ELSE r[k]]

(* The next branch of Apply: an unacceptable value is recorded as an error *)
(* and skipped, an acceptable one runs the driver call.  A select or a     *)
(* pattern key sets pattern_changed, which ends in one set_test_pattern.   *)
HandleKey ==
  /\ script = << >>
  /\ request # << >>
  /\ LET key == FirstKey
         rest == Without(request, key)
     IN IF Accepted(key, request[key])
        THEN /\ script' = Call(key, request[key])
             /\ request' = IF key \in {"select", "pattern"} THEN WithTpg(rest) ELSE rest
        ELSE /\ request' = rest
             /\ UNCHANGED script
  /\ serving' = FirstKey
  /\ UNCHANGED <<shadow, cache, torn, stale>>

(* The last step of a call repairs what earlier failures of it left        *)
(* behind; set_frame_rate ends in set_exposure_s.                          *)
Completed == IF serving = "fps" THEN {"fps", "exposure"} ELSE {serving}
StillStale == IF Len(script) = 1 THEN stale \ Completed ELSE stale

DoAssign ==
  /\ script # << >>
  /\ Head(script).kind = "assign"
  /\ cache' = [cache EXCEPT ![Head(script).field] = Head(script).value]
  /\ script' = Tail(script)
  /\ stale' = StillStale
  /\ UNCHANGED <<shadow, request, torn, serving>>

Written == [shadow EXCEPT ![Head(script).reg][Head(script).byte] = Head(script).value]

Tear ==
  LET w == Head(script)
  IN torn' = IF w.byte < Bytes[w.reg] THEN torn \cup {w.reg} ELSE torn \ {w.reg}

DoWrite ==
  /\ script # << >>
  /\ Head(script).kind = "write"
  /\ shadow' = Written
  /\ Tear
  /\ script' = Tail(script)
  /\ stale' = StillStale
  /\ UNCHANGED <<cache, request, serving>>

(* The transaction times out, with or without an effect: the exception     *)
(* leaves the driver and Apply, and the rest of the request is not looked  *)
(* at.                                                                     *)
WriteFails ==
  /\ script # << >>
  /\ Head(script).kind = "write"
  /\ shadow' \in {shadow, Written}
  /\ torn' = IF Bytes[Head(script).reg] > 1 THEN torn \cup {Head(script).reg} ELSE torn
  /\ script' = << >>
  /\ request' = << >>
  /\ stale' = stale \cup {serving}
  /\ UNCHANGED <<cache, serving>>

Next ==
  \/ \E r \in Requests : Apply(r)
  \/ HandleKey \/ DoAssign \/ DoWrite \/ WriteFails

Spec == Init /\ [][Next]_vars
-----------------------------------------------------------------------------
(* While REGHOLD is 0, and a frame may take the registers over, VMAX, SHR0 *)
(* and the gain are whole, whatever the frame boundary falls between,      *)
(* except a register whose own call failed and was not repeated since.     *)
LatchedWhole ==
  shadow.REGHOLD[1] = 0 =>
    /\ "VMAX" \in torn => "fps" \in stale
    /\ "SHR0" \in torn => stale \cap {"fps", "exposure"} # {}
    /\ "GAIN" \in torn => "gain" \in stale

(* Between requests the sensor is programmed with what the driver believes *)
(* it is: the cached frame length, and the shutter its clamping rule gives *)
(* for the cached exposure at that length, which integrates light.  After  *)
(* a failed transaction a successful repetition of the call restores that, *)
(* whatever other calls are made in between.                               *)
TimingMatchesDriver ==
  Idle /\ stale \cap {"fps", "exposure"} = {} =>
    /\ stale = {} => shadow.REGHOLD[1] = 0
    /\ Value(shadow, "VMAX") = cache.vmax
    /\ Value(shadow, "SHR0") = Shr0ForExposure(cache.vmax, cache.exposure)
    /\ Value(shadow, "SHR0") + MinIntegration <= Value(shadow, "VMAX")

(* Between requests the generator runs iff test_pattern_ says so, with the *)
(* pattern last selected, also when it was selected while it was off; and  *)
(* BLKLEVEL, which both set_black_level and the pattern tables write, has  *)
(* the high byte of the level the controls report and the low byte of that *)
(* level or of the table.                                                  *)
PatternMatchesControls ==
  Idle /\ "tpg" \notin stale =>
    /\ (shadow.TPG_EN[1] = 1) = cache.pattern
    /\ cache.pattern => shadow.PATSEL[1] = cache.select
    /\ "black" \notin stale =>
         /\ shadow.BLKLEVEL[2] = Digit(cache.black, 2)
         /\ shadow.BLKLEVEL[1] \in {Digit(cache.black, 1),
                                    IF cache.pattern THEN 0 ELSE Digit(DefaultBlackLevel, 1)}

(* native_imx676_sensor.hpp:51 "Runtime controls (safe while streaming;    *)
(* latched with REGHOLD)": no frame runs with a shutter that lies outside  *)
(* the frame.                                                              *)
FrameExposes ==
  shadow.REGHOLD[1] = 0 => Value(shadow, "SHR0") + MinIntegration <= Value(shadow, "VMAX")
=============================================================================
