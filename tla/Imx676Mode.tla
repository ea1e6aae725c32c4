----------------------------- MODULE Imx676Mode ------------------------------
(***************************************************************************)
(* hsb/sensors/imx676/imx676_mode: the catalogue of sensor modes, with its *)
(* real numbers, and the arithmetic that plans a mode's timing and the     *)
(* layout of its frames.  A frame rate is a fraction <<num, den>> of Hz.   *)
(***************************************************************************)
EXTENDS Integers, FiniteSetsExt

kHmaxClockHz == 74250000
kVmaxMargin == 72
kMaxVmax == 1048575

kModes ==
  [FULL_RAW10 |-> [readout |-> "all-pixel", width |-> 3552, height |-> 3556, bits |-> 10,
                   fps |-> <<30, 1>>, hmax |-> 0],
   FULL_RAW12 |-> [readout |-> "all-pixel", width |-> 3552, height |-> 3556, bits |-> 12,
                   fps |-> <<30, 1>>, hmax |-> 0],
   BIN2_RAW12 |-> [readout |-> "binning", width |-> 1776, height |-> 1778, bits |-> 12,
                   fps |-> <<30, 1>>, hmax |-> 0],
   CROP_3552X2160_RAW10 |-> [readout |-> "crop", width |-> 3552, height |-> 2160, bits |-> 10,
                             fps |-> <<50, 1>>, hmax |-> 0],
   CROP_1280X720_RAW10 |-> [readout |-> "crop", width |-> 1280, height |-> 720, bits |-> 10,
                            fps |-> <<60, 1>>, hmax |-> 0],
   BIN2_RAW12_60 |-> [readout |-> "binning", width |-> 1776, height |-> 1778, bits |-> 12,
                      fps |-> <<60, 1>>, hmax |-> 341]]

Modes == DOMAIN kModes
-----------------------------------------------------------------------------
(* Lane rates, in Mbps.                                                    *)
kAllLaneRates == {2376, 2079, 1782, 1440, 1188, 891, 720, 594}

IsLaneRateAllowed(m, rate) ==
  rate \in CASE m.readout = "binning" -> {1782, 891, 594}
             [] m.readout # "binning" /\ m.bits = 10 -> {2376, 1188, 594}
             [] m.readout # "binning" /\ m.bits = 12 -> {1440, 720}

Usable(m, max) == {rate \in kAllLaneRates : rate <= max /\ IsLaneRateAllowed(m, rate)}

HmaxFor(rate, lanes) ==
  CASE rate = 2376 -> IF lanes = 2 THEN 628 ELSE 318
    [] rate = 2079 -> 366
    [] rate = 1782 -> 314
    [] rate = 1188 -> IF lanes = 2 THEN 1256 ELSE 628
    [] rate \in {1440, 891} -> 628
    [] rate \in {720, 594} -> 1256
-----------------------------------------------------------------------------
(* Lines per frame.                                                        *)
ReadoutLines(m) == IF m.readout = "binning" THEN 2 * m.height ELSE m.height
MinVmax_OutputLines(m) == m.height + kVmaxMargin \* mutant: binning reads twice as many lines
MinVmax(m) == ReadoutLines(m) + kVmaxMargin

CeilDiv(a, b) == (a + b - 1) \div b
RoundUpEven(n) == n + (n % 2)

VmaxForFps(m, hmax, fps) ==
  Min({Max({RoundUpEven(CeilDiv(kHmaxClockHz * fps[2], hmax * fps[1])), MinVmax(m)}), kMaxVmax})

(* What PlanTiming is asked for: max is the receiver's limit in Mbps per   *)
(* lane; rate, fps and hmax may be left to it (0, <<0, 1>> and 0).         *)
NoTiming == [rate |-> 0, hmax |-> 0, vmax |-> 0]
Timing(m, rate, want) ==
  LET hmax == CASE want.hmax # 0 -> want.hmax [] want.hmax = 0 /\ m.hmax # 0 -> m.hmax
                [] OTHER -> HmaxFor(rate, want.lanes)
      fps == IF want.fps[1] > 0 THEN want.fps ELSE m.fps
  IN [rate |-> rate, hmax |-> hmax, vmax |-> VmaxForFps(m, hmax, fps)]

PlanTiming(m, want) ==
  LET rates == IF want.rate # 0 THEN Usable(m, want.max) \cap {want.rate} ELSE Usable(m, want.max)
  IN IF rates = {} \/ want.lanes \notin {2, 4} \/ want.hmax \in 1..99 THEN NoTiming
     ELSE Timing(m, Max(rates), want)
-----------------------------------------------------------------------------
(* The frame as it reaches the receiver.                                   *)
RoundUp8(bytes) == ((bytes + 7) \div 8) * 8
LineBytes(width, bits) == RoundUp8((width * bits) \div 8)

(* ConfigureConverter, without embedded lines or trailing bytes.           *)
CsiLayout(m) ==
  [width |-> m.width, height |-> m.height, bits |-> m.bits,
   lineBytes |-> LineBytes(m.width, m.bits), length |-> LineBytes(m.width, m.bits) * m.height]
=============================================================================
