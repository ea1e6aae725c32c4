------------------------------ MODULE EmuSource ------------------------------
(***************************************************************************)
(* The emulator loopback: apps/emu_source serves the frames of an emulated *)
(* IMX676, while NativeImx676Sensor (hsb/sensors/imx676) programs the      *)
(* emulated registers over I2C, from another process, byte by byte.        *)
(*                                                                         *)
(* The emulator's thread polls streaming(), reads geometry() and sends a   *)
(* frame in three separate steps; the register store is never reset, so    *)
(* that a session starts from what the last one left, which may have been  *)
(* killed with the sensor streaming.  The cameras of the emulator do not   *)
(* interact: the model has one.                                            *)
(*                                                                         *)
(* Time passes in ticks of TickCycles sensor clocks while the thread       *)
(* sleeps, and not while it works.  Registers the emulator does not look   *)
(* at are left out of the writes.                                          *)
(***************************************************************************)
EXTENDS Imx676Mode, Sequences, SequencesExt

CONSTANTS
  Wants,       \* bound: what the sessions configure, [mode, want]
  FrameRates,  \* bound: arguments of set_frame_rate
  Limited,     \* BOOLEAN: the option --frames is given
  MaxSessions, \* bound: sessions of the host
  MaxDeaths,   \* bound: sessions that end without stop()
  MaxLag       \* bound: ticks by which `next` falls behind

TickCycles == 1237500 \* 1/60 s

Rates == (Nat \ {0}) \X (Nat \ {0})
Wanted == [fps : Rates \cup {<<0, 1>>}, max : Nat, rate : Nat, lanes : Nat, hmax : Nat]

ASSUME EmuAssumption ==
  /\ \A w \in Wants : w.mode \in Modes /\ w.want \in Wanted /\ w.want.hmax < 65536
  /\ FrameRates \subseteq Rates
  /\ Limited \in BOOLEAN
  /\ {MaxSessions, MaxDeaths, MaxLag} \subseteq Nat

VARIABLES
  registers, \* Imx676Emulator::registers_, bytes by name
  host,      \* the driver: "off", "configuring", "starting", "streaming", "retiming", "stopping"
  plan,      \* the driver's mode and timing, the converter's layout
  script,    \* the register bytes it has still to write
  pc,        \* where ServeCamera stands
  current,   \* the geometry the frame at hand was generated for
  due,       \* ticks until `next`
  g_stop,    \* the flag of the signal handler and of main
  main,      \* "running" or "ended"
  reached,   \* frames_sent has come to the limit
  strays,    \* history: frames of this session that are not what it was configured for
  late,      \* history: frames sent since the registers say stop
  burst,     \* history: frames sent within this tick, since the sensor was found stopped
  behind,    \* history: a send has failed since `next` was last set to now
  fresh,     \* history: a frame of the running session has been sent
  sessions, deaths \* bounds

registerVars == <<registers>>
hostVars == <<host, plan, script, sessions, deaths>>
threadVars == <<pc, current, due, reached>>
mainVars == <<g_stop, main>>
history == <<strays, late, burst, behind, fresh>>
vars == <<registers, hostVars, threadVars, mainVars, history>>
-----------------------------------------------------------------------------
(* Imx676Emulator.                                                         *)

Scale == <<1, 256, 65536>>
Byte(v, i) == (v \div Scale[i]) % 256
Bytes(n, v) == [i \in 1..n |-> Byte(v, i)]

(* Registers of up to three bytes, the lowest first.                       *)
ByteAt(bytes, i) == IF i \in DOMAIN bytes THEN bytes[i] ELSE 0
multi(r, name) == ByteAt(r[name], 1) + 256 * ByteAt(r[name], 2) + 65536 * ByteAt(r[name], 3)

Defaults ==
  [STANDBY |-> <<1>>, XMSTA |-> <<1>>, MDBIT |-> <<0>>, ADDMODE |-> <<0>>, WINMODE |-> <<0>>,
   PIX_HWIDTH |-> <<0, 0>>, PIX_VWIDTH |-> <<0, 0>>, HMAX |-> Bytes(2, 366), VMAX |-> Bytes(3, 3648)]

streaming(r) == r.STANDBY = <<0>> /\ r.XMSTA = <<0>>

Period(hmax, vmax) ==
  IF hmax = 0 \/ vmax = 0 THEN 2 ELSE Max({1, (hmax * vmax + TickCycles \div 2) \div TickCycles})

geometry(r) ==
  LET windowed == r.WINMODE = <<4>> /\ multi(r, "PIX_HWIDTH") # 0 /\ multi(r, "PIX_VWIDTH") # 0
      width  == IF windowed THEN multi(r, "PIX_HWIDTH") ELSE 3552
      height == IF windowed THEN multi(r, "PIX_VWIDTH") ELSE 3556
      factor == IF r.ADDMODE = <<1>> THEN 2 ELSE 1
  IN [width |-> width \div factor, height |-> height \div factor,
      bits |-> IF r.MDBIT = <<1>> THEN 12 ELSE 10,
      period |-> Period(multi(r, "HMAX"), multi(r, "VMAX"))]

(* GenerateFrame: its size is all a receiver can tell it by.               *)
FrameOf(g) == [width |-> g.width, height |-> g.height, bits |-> g.bits,
               lineBytes |-> LineBytes(g.width, g.bits), length |-> LineBytes(g.width, g.bits) * g.height]
-----------------------------------------------------------------------------
(* The driver's register writes.                                           *)

Names == DOMAIN Defaults
Width(name) == Len(Defaults[name])
Writes == {w \in [register : Names, byte : 1..3, value : 0..255] : w.byte <= Width(w.register)}

Write(name, value) ==
  [i \in 1..Width(name) |-> [register |-> name, byte |-> i, value |-> Byte(value, i)]]

BitDepth(m) == Write("MDBIT", IF m.bits = 12 THEN 1 ELSE 0)

ReadoutTable_KeepsWindow(m) == \* mutant: the tables without a window do not switch it off
  IF m.readout = "crop" THEN Write("WINMODE", 4) \o Write("ADDMODE", 0)
  ELSE Write("ADDMODE", IF m.readout = "binning" THEN 1 ELSE 0)

ReadoutTable(m) ==
  CASE m.readout = "all-pixel" -> Write("WINMODE", 0) \o Write("ADDMODE", 0)
    [] m.readout = "crop"      -> Write("WINMODE", 4) \o Write("ADDMODE", 0)
    [] m.readout = "binning"   -> Write("WINMODE", 0) \o Write("ADDMODE", 1) \o Write("MDBIT", 1)

(* A window is as wide and as high as its mode's picture.                  *)
write_crop(m) == Write("PIX_HWIDTH", m.width) \o Write("PIX_VWIDTH", m.height)

write_timing(t) == Write("HMAX", t.hmax) \o Write("VMAX", t.vmax)

configure(m, t) ==
  BitDepth(m) \o ReadoutTable(m) \o (IF m.readout = "crop" THEN write_crop(m) ELSE << >>)
  \o write_timing(t)

StartSequence == Write("STANDBY", 0) \o Write("XMSTA", 0)
StopSequence == Write("XMSTA", 1) \o Write("STANDBY", 1)
-----------------------------------------------------------------------------
NoGeometry == [width |-> 0, height |-> 0, bits |-> 0, period |-> 0]
NoPlan == [mode |-> "none", want |-> << >>, timing |-> NoTiming, layout |-> << >>]

TypeOK ==
  /\ DOMAIN registers = Names
  /\ \A name \in Names : registers[name] \in [1..Width(name) -> 0..255]
  /\ host \in {"off", "configuring", "starting", "streaming", "retiming", "stopping"}
  /\ script \in Seq(Writes)
  /\ sessions \in 0..MaxSessions /\ deaths \in 0..MaxDeaths
  /\ pc \in {"test", "idle", "read", "send", "sleep", "retry", "done"}
  /\ current.period \in Nat /\ due \in Int
  /\ {reached, g_stop, behind, fresh} \subseteq BOOLEAN
  /\ main \in {"running", "ended"}
  /\ strays \in 0..2 /\ late \in 0..2 /\ burst \in 0..2

Init ==
  /\ registers = Defaults
  /\ host = "off" /\ plan = NoPlan /\ script = << >> /\ sessions = 0 /\ deaths = 0
  /\ pc = "test" /\ current = NoGeometry /\ due = 0 /\ reached = FALSE
  /\ g_stop = FALSE /\ main = "running"
  /\ strays = 0 /\ late = 0 /\ burst = 0 /\ behind = FALSE /\ fresh = FALSE
-----------------------------------------------------------------------------
(* The host.                                                               *)

(* set_mode and configure(); when no timing can be planned it throws       *)
(* before it has written anything.                                         *)
Configure(w) ==
  /\ host = "off" /\ sessions < MaxSessions /\ main = "running"
  /\ LET m == kModes[w.mode]
         t == PlanTiming(m, w.want)
     IN IF t = NoTiming THEN UNCHANGED <<host, plan, script>>
        ELSE /\ host' = "configuring"
             /\ plan' = [mode |-> w.mode, want |-> w.want, timing |-> t, layout |-> CsiLayout(m)]
             /\ script' = configure(m, t)
  /\ sessions' = sessions + 1
  /\ strays' = 0 /\ fresh' = FALSE
  /\ UNCHANGED <<registers, deaths, threadVars, mainVars, late, burst, behind>>

(* One I2C transaction: i2c_transaction() of the emulator.                 *)
HostWrite ==
  /\ script # << >>
  /\ LET w == Head(script)
     IN registers' = [registers EXCEPT ![w.register][w.byte] = w.value]
  /\ script' = Tail(script)
  /\ late' = IF streaming(registers') THEN 0 ELSE late
  /\ UNCHANGED <<host, plan, sessions, deaths, threadVars, mainVars, strays, burst, behind, fresh>>

(* The call has made its writes; `start()` follows configure().            *)
HostGoesOn ==
  /\ script = << >>
  /\ \/ host = "configuring" /\ host' = "starting" /\ script' = StartSequence
     \/ host \in {"starting", "retiming"} /\ host' = "streaming" /\ UNCHANGED script
     \/ host = "stopping" /\ host' = "off" /\ UNCHANGED script
  /\ UNCHANGED <<registers, plan, sessions, deaths, threadVars, mainVars, history>>

(* set_frame_rate of a running sensor.  timing_ is assigned after the      *)
(* writes, which nothing can tell here.                                    *)
SetFrameRate(fps) ==
  /\ host = "streaming"
  /\ host' = "retiming"
  /\ LET vmax == VmaxForFps(kModes[plan.mode], plan.timing.hmax, fps)
     IN /\ plan' = [plan EXCEPT !.timing.vmax = vmax, !.want.fps = fps]
        /\ script' = Write("VMAX", vmax)
  /\ UNCHANGED <<registers, sessions, deaths, threadVars, mainVars, history>>

Stop ==
  /\ host = "streaming"
  /\ host' = "stopping" /\ script' = StopSequence
  /\ UNCHANGED <<registers, plan, sessions, deaths, threadVars, mainVars, history>>

(* The host process is gone, wherever it stood.                            *)
Die ==
  /\ host # "off" /\ deaths < MaxDeaths
  /\ host' = "off" /\ script' = << >> /\ deaths' = deaths + 1
  /\ UNCHANGED <<registers, plan, sessions, threadVars, mainVars, history>>
-----------------------------------------------------------------------------
(* ServeCamera.                                                            *)

Test_OnceStreaming == \* mutant: the sensor is only polled before its first frame
  /\ pc = "test"
  /\ pc' = CASE g_stop -> "done" [] ~g_stop /\ (streaming(registers) \/ fresh) -> "read" [] OTHER -> "idle"
  /\ UNCHANGED <<registers, hostVars, current, due, reached, mainVars, history>>

Test ==
  /\ pc = "test"
  /\ pc' = CASE g_stop -> "done" [] ~g_stop /\ streaming(registers) -> "read" [] OTHER -> "idle"
  /\ UNCHANGED <<registers, hostVars, current, due, reached, mainVars, history>>

Wake_KeepsNext == \* mutant: `next` stays where it was
  /\ pc = "idle"
  /\ pc' = "test" /\ behind' = FALSE /\ burst' = 0
  /\ UNCHANGED <<registers, hostVars, current, due, reached, mainVars, strays, late, fresh>>

(* Not streaming: 5 ms later `next` is now.                                *)
Wake ==
  /\ pc = "idle"
  /\ pc' = "test" /\ due' = 0 /\ behind' = FALSE /\ burst' = 0
  /\ UNCHANGED <<registers, hostVars, current, reached, mainVars, strays, late, fresh>>

Read_FirstOnly == \* mutant: the geometry is kept once there is a frame
  /\ pc = "read"
  /\ pc' = "send"
  /\ current' = IF current = NoGeometry THEN geometry(registers) ELSE current
  /\ UNCHANGED <<registers, hostVars, due, reached, mainVars, history>>

(* geometry(), and a new frame when it is another one.                     *)
Read ==
  /\ pc = "read"
  /\ pc' = "send"
  /\ current' = geometry(registers)
  /\ UNCHANGED <<registers, hostVars, due, reached, mainVars, history>>

AtMost2(n) == Min({n, 2})

(* The frame is on its way; with --frames it may be the last.              *)
Send ==
  /\ pc = "send"
  /\ \/ pc' = "sleep" /\ due' = due + current.period /\ UNCHANGED reached
     \/ Limited /\ pc' = "done" /\ reached' = TRUE /\ UNCHANGED due
  /\ burst' = AtMost2(burst + 1)
  /\ late' = IF streaming(registers) THEN late ELSE AtMost2(late + 1)
  /\ IF host \in {"off", "configuring"} THEN UNCHANGED <<strays, fresh>>
     ELSE IF FrameOf(current) = plan.layout THEN fresh' = TRUE /\ UNCHANGED strays
     ELSE strays' = AtMost2(strays + 1) /\ UNCHANGED fresh
  /\ UNCHANGED <<registers, hostVars, current, mainVars, behind>>

SendFails_Leaves == \* mutant: the loop ends
  /\ pc = "send"
  /\ pc' = "done" /\ behind' = TRUE
  /\ UNCHANGED <<registers, hostVars, current, due, reached, mainVars, strays, late, burst, fresh>>

(* The data plane refuses the frame: try again 100 ms later.               *)
SendFails ==
  /\ pc = "send"
  /\ pc' = "retry" /\ behind' = TRUE
  /\ UNCHANGED <<registers, hostVars, current, due, reached, mainVars, strays, late, burst, fresh>>

Awake ==
  /\ pc = "retry" \/ (pc = "sleep" /\ due <= 0)
  /\ pc' = "test"
  /\ UNCHANGED <<registers, hostVars, current, due, reached, mainVars, history>>

Tick ==
  /\ pc \in {"idle", "retry"} \/ (pc = "sleep" /\ due > 0)
  /\ due' = Max({due - 1, 0 - MaxLag})
  /\ burst' = 0
  /\ UNCHANGED <<registers, hostVars, pc, current, reached, mainVars, strays, late, behind, fresh>>

ServeCamera == Test \/ Wake \/ Read \/ Send \/ SendFails \/ Awake
-----------------------------------------------------------------------------
(* main: a signal or --duration, every camera at its limit, the join.      *)
Signal ==
  /\ ~g_stop /\ g_stop' = TRUE
  /\ UNCHANGED <<registers, hostVars, threadVars, main, history>>

AllDone ==
  /\ ~g_stop /\ reached /\ g_stop' = TRUE
  /\ UNCHANGED <<registers, hostVars, threadVars, main, history>>

Join ==
  /\ main = "running" /\ g_stop /\ pc = "done"
  /\ main' = "ended"
  /\ UNCHANGED <<registers, hostVars, threadVars, g_stop, history>>

Next ==
  \/ \E w \in Wants : Configure(w)
  \/ \E fps \in FrameRates : SetFrameRate(fps)
  \/ HostWrite \/ HostGoesOn \/ Stop \/ Die
  \/ ServeCamera \/ Tick
  \/ Signal \/ AllDone \/ Join

(* The thread and main are scheduled, time passes, the data plane does not *)
(* refuse every frame for ever.  Nothing is assumed of the host.           *)
Fairness ==
  /\ WF_vars(Test \/ Wake \/ Read \/ Awake) /\ WF_vars(Tick) /\ SF_vars(Send)
  /\ WF_vars(AllDone) /\ WF_vars(Join)

Spec == Init /\ [][Next]_vars /\ Fairness
-----------------------------------------------------------------------------
Programmed == script = << >> /\ host \in {"starting", "streaming", "stopping"}

(* What a configured session finds in the emulator, whatever sessions came *)
(* before it and however they ended: the frame the emulator generates is   *)
(* the frame the receiver was trained on, byte for byte of its length, and *)
(* HMAX and VMAX are the planned ones.                                     *)
TrainedOnIt ==
  Programmed =>
    /\ FrameOf(geometry(registers)) = plan.layout
    /\ multi(registers, "HMAX") = plan.timing.hmax
    /\ multi(registers, "VMAX") = plan.timing.vmax

(* The thread looks at the registers in two steps and sends in a third:    *)
(* one frame, generated before or while the session was configured, may    *)
(* reach it, and one may still be sent after the sensor was told to stop;  *)
(* never a second one.                                                     *)
OneStrayFrame == strays <= 1 /\ late <= 1

(* The emulator paces its frames and does not make up for the time it was  *)
(* not streaming: it never sends a second frame within a tick, except when *)
(* it has found the sensor stopped in between.                             *)
NoBurst == ~behind => burst <= 1

(* The timing a mode is planned with: a lane rate the mode and the         *)
(* receiver allow; never faster than asked, but for VMAX at its limit;     *)
(* no frame shorter than its readout; and on four lanes, with the line     *)
(* length left to the plan, the lines of a frame fit through the lanes.    *)
PlanIsSound ==
  plan # NoPlan =>
    LET m == kModes[plan.mode]
        t == plan.timing
        fps == IF plan.want.fps[1] > 0 THEN plan.want.fps ELSE m.fps
        linesPerLine == IF m.readout = "binning" THEN 2 ELSE 1
    IN /\ t.rate <= plan.want.max /\ IsLaneRateAllowed(m, t.rate)
       /\ t.vmax = kMaxVmax \/ t.vmax * fps[1] >= (kHmaxClockHz * fps[2]) \div t.hmax
       /\ t.vmax >= m.height * linesPerLine + kVmaxMargin
       /\ plan.want.lanes = 4 /\ plan.want.hmax = 0 =>
            m.width * m.bits * 297 < 4 * t.hmax * linesPerLine * 4 * t.rate

(* A session that keeps streaming gets a frame it was configured for,      *)
(* although sends fail in between, unless the emulator is told to end or   *)
(* has sent the frames of its limit; and then the emulator does end.       *)
FramesFlow ==
  /\ host = "streaming" ~> (fresh \/ host # "streaming" \/ g_stop \/ reached)
  /\ (g_stop \/ reached) ~> main = "ended"
=============================================================================
