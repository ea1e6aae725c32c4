----------------------------- MODULE RigBringup -----------------------------
(***************************************************************************)
(* Bringing up the board and its cameras: CameraRig (hsb/pipeline), the    *)
(* DA322 helpers (hsb/board/da322), the IMX676 driver with its P22 adapter *)
(* (hsb/sensors/imx676), and the hsbctl commands that touch the same       *)
(* hardware.                                                               *)
(*                                                                         *)
(* The hardware outlives the processes: sessions follow one another, each  *)
(* may be cut short between any two of its accesses (an exception, a       *)
(* kill), and the next one starts from whatever it left.  A session is the *)
(* sequence of accesses the code makes, then, for a rig, a running         *)
(* pipeline whose receivers start and stop their sensors on threads of     *)
(* their own.  Bound: one process drives the board at a time.              *)
(***************************************************************************)
EXTENDS Naturals, Sequences

CONSTANTS
  Cameras,  \* the ports of the board
  Rigs,     \* bound: the configurations a rig is started with
  Commands  \* bound: the hsbctl commands that are run

(* The outputs of the P22 adapter's expander.                              *)
Outputs == {"PW_EN", "RST", "TENABLE"}

(* A rig: which camera is configured how, and the options of RigConfig.    *)
CameraConfigs == [mode : {"FULL_RAW10", "FULL_RAW12", "BIN2_RAW12", "CROP_RAW10"},
                  lanes : {"2 lanes", "4 lanes"}, pattern : {"off", "on"}]

ASSUME RigAssumption ==
  /\ \A rig \in Rigs : /\ DOMAIN rig.cameras \subseteq Cameras
                       /\ rig.cameras \in [DOMAIN rig.cameras -> CameraConfigs]
                       /\ {rig.reset, rig.p22} \subseteq BOOLEAN
  /\ \A c \in Commands :
       /\ c.camera \in Cameras
       /\ c.name \in {"reset", "setup-clock", "lanes", "dt", "gpio", "i2c", "wr",
                     "power-up", "power-down", "configure"}
       /\ c.name = "gpio" => c.level \in BOOLEAN
       /\ c.name = "i2c" => c.high \subseteq Outputs
       /\ c.name = "configure" => c.config \in CameraConfigs

VARIABLES
  clock,    \* setup_clock() has run since the last reset
  camEn,    \* the CAM_EN line of each camera
  port,     \* per camera: the lane setting, and its byte of MIPI_DT_CTRL
  pins,     \* per camera: the outputs of the P22 expander that are high
  regs,     \* per camera: the sensor's registers
  phase,    \* "idle", "setup" or "running"
  rig,      \* the cameras of the running session; empty for hsbctl
  adapter,  \* the session's sensors sit behind P22 adapters
  todo,     \* the cameras ConfigureSensors has not come to yet
  script,   \* the accesses the main thread has still to make before the next one
  receiver, \* per camera: the receiver operator
  device,   \* per camera: the writes left of device_start or device_stop
  ticking,  \* cameras whose run condition is enabled
  stopping, \* StopAll has been called
  clean     \* history: this session reset the board, and nothing cut it short

hardware == <<clock, camEn, port, pins, regs>>
session == <<phase, rig, adapter, todo, script>>
process == <<session, receiver, device, ticking, stopping, clean>>
vars == <<hardware, process>>

kModes == [FULL_RAW10 |-> [format |-> "RAW10", readout |-> "all-pixel"],
           FULL_RAW12 |-> [format |-> "RAW12", readout |-> "all-pixel"],
           BIN2_RAW12 |-> [format |-> "RAW12", readout |-> "binning"],
           CROP_RAW10 |-> [format |-> "RAW10", readout |-> "crop"]]

(* Registers of one purpose are one register here; INIT stands for the     *)
(* vendor's block, TIMING for lane rate, HMAX, VMAX and the exposure.      *)
PowerOn == [STANDBY |-> "1", XMSTA |-> "1", INIT |-> "reset", LANEMODE |-> "reset",
            ADBIT |-> "reset", MDBIT |-> "reset", READOUT |-> "reset",
            WINDOW |-> "reset", TIMING |-> "reset", TPG |-> "off"]

Answers(k) == camEn[k] /\ "TENABLE" \notin pins[k]
Streaming(k) == camEn[k] /\ regs[k].STANDBY = "0" /\ regs[k].XMSTA = "0"
-----------------------------------------------------------------------------
(* The accesses, and the sequences the code makes of them.                 *)

Access(kind, k) == [kind |-> kind, camera |-> k]
Register(k, r, v) == [kind |-> "register", camera |-> k, register |-> r, value |-> v]
RawRegister(k, r, v) == [kind |-> "raw register", camera |-> k, register |-> r, value |-> v]
CameraEnable(k, level) == [kind |-> "gpio", camera |-> k, level |-> level]
SetLanes(k, n) == [kind |-> "lanes", camera |-> k, lanes |-> n]
SetDataType(k, t) == [kind |-> "data type", camera |-> k, type |-> t]
Expander(k, kept, high) == [kind |-> "p22", camera |-> k, kept |-> kept, high |-> high]

DataTypeFor(format) == IF format = "RAW10" THEN "0x2B" ELSE "0x2C"

ConfigurePort(k, c) ==
  << SetLanes(k, c.lanes), SetDataType(k, DataTypeFor(kModes[c.mode].format)) >>

PowerCycle_EnableOnly(k) == << CameraEnable(k, TRUE) >> \* mutant
PowerCycle(k) == << CameraEnable(k, FALSE), CameraEnable(k, TRUE) >>

(* P22Adapter: PowerUp sets every output, PowerDown works on what it read. *)
PowerUp(k) == << Expander(k, {}, {}), Expander(k, {}, {"PW_EN"}), Expander(k, {}, {"PW_EN", "RST"}) >>
PowerDown(k) == << Expander(k, Outputs \ {"RST"}, {}), Expander(k, {"TENABLE"}, {}) >>

InitSettings(k) == << Register(k, "LANEMODE", "4 lanes"), Register(k, "INIT", "vendor") >>

BitDepth(k, format) == << Register(k, "ADBIT", format), Register(k, "MDBIT", format) >>

(* kBinning2x2 overrides the bit depth: 10-bit AD, 12-bit output.          *)
ReadoutTable(k, readout) ==
  << Register(k, "READOUT", readout) >>
  \o (IF readout = "binning" THEN << Register(k, "ADBIT", "RAW10"), Register(k, "MDBIT", "RAW12") >>
                             ELSE << >>)
  \o (IF readout = "crop" THEN << Register(k, "WINDOW", "crop") >> ELSE << >>)

Tables_DepthLast(k, m) == ReadoutTable(k, m.readout) \o BitDepth(k, m.format) \* mutant
Tables(k, m) == BitDepth(k, m.format) \o ReadoutTable(k, m.readout)

(* NativeImx676Sensor::configure                                           *)
Configure(k, c, p22) ==
  (IF p22 THEN PowerUp(k) ELSE << >>)
  \o << Access("probe", k) >> \o InitSettings(k) \o << Register(k, "LANEMODE", c.lanes) >>
  \o Tables(k, kModes[c.mode])
  \o << Register(k, "TIMING", c.mode) >>
  \o (IF c.pattern = "on" THEN << Register(k, "TPG", "on") >> ELSE << >>)

(* CameraRig::ConfigureSensors, on a DA322: the board, then camera after   *)
(* camera.                                                                 *)
ConfigureBoard(r) ==
  IF r.reset THEN << [kind |-> "reset"], [kind |-> "setup clock"] >>
             ELSE << [kind |-> "setup clock"] >>

ConfigureCamera(k, c, p22) == ConfigurePort(k, c) \o PowerCycle(k) \o Configure(k, c, p22)

(* The state-changing commands of hsbctl.                                  *)
Command(c) ==
  CASE c.name = "reset"       -> << [kind |-> "reset"] >>
    [] c.name = "setup-clock" -> << [kind |-> "setup clock"] >>
    [] c.name = "lanes"       -> << SetLanes(c.camera, c.lanes) >>
    [] c.name = "dt"          -> << SetDataType(c.camera, c.type) >>
    [] c.name = "gpio"        -> << CameraEnable(c.camera, c.level) >>
    [] c.name = "i2c"         -> << Expander(c.camera, {}, c.high) >>
    [] c.name = "wr"          -> << RawRegister(c.camera, c.register, c.value) >>
    [] c.name = "power-up"    -> << [kind |-> "setup clock"] >> \o PowerCycle(c.camera) \o PowerUp(c.camera)
    [] c.name = "power-down"  -> PowerDown(c.camera)
    [] c.name = "configure"   -> ConfigurePort(c.camera, c.config) \o << [kind |-> "setup clock"] >>
                                 \o PowerCycle(c.camera) \o Configure(c.camera, c.config, TRUE)

StartSequence(k) == << Register(k, "STANDBY", "0"), Register(k, "XMSTA", "0") >>
StopSequence_Omitted(k) == << >> \* mutant
StopSequence(k) == << Register(k, "XMSTA", "1"), Register(k, "STANDBY", "1") >>
-----------------------------------------------------------------------------
TypeOK ==
  /\ clock \in BOOLEAN
  /\ camEn \in [Cameras -> BOOLEAN]
  /\ pins \in [Cameras -> SUBSET Outputs]
  /\ DOMAIN port = Cameras /\ DOMAIN regs = Cameras
  /\ \A k \in Cameras : DOMAIN port[k] = {"lanes", "type"} /\ DOMAIN regs[k] = DOMAIN PowerOn
  /\ phase \in {"idle", "setup", "running"}
  /\ DOMAIN rig \subseteq Cameras /\ rig \in [DOMAIN rig -> CameraConfigs]
  /\ adapter \in BOOLEAN /\ todo \subseteq DOMAIN rig
  /\ receiver \in [Cameras -> {"off", "starting", "receiving", "stopping", "done"}]
  /\ DOMAIN device = Cameras /\ ticking \subseteq DOMAIN rig
  /\ stopping \in BOOLEAN /\ clean \in BOOLEAN

(* A board that was just powered: the defaults of the bitstream, the       *)
(* adapter's pull-ups.                                                     *)
BoardDefaults == [lanes |-> "4 lanes", type |-> "0x2B"]

NoRig == << >>

Init ==
  /\ clock = FALSE
  /\ camEn = [k \in Cameras |-> FALSE]
  /\ port = [k \in Cameras |-> BoardDefaults]
  /\ pins = [k \in Cameras |-> {"PW_EN", "RST"}]
  /\ regs = [k \in Cameras |-> PowerOn]
  /\ phase = "idle" /\ rig = NoRig /\ adapter = FALSE /\ todo = {} /\ script = << >>
  /\ receiver = [k \in Cameras |-> "off"]
  /\ device = [k \in Cameras |-> << >>]
  /\ ticking = {} /\ stopping = FALSE /\ clean = FALSE
-----------------------------------------------------------------------------
(* The effect of one access on the hardware.                               *)

(* Hololink::reset(): all GPIOs read 0 after it; whether the lane and data *)
(* type registers survive is not known.                                    *)
Reset(a) ==
  /\ a.kind = "reset"
  /\ clock' = FALSE
  /\ camEn' = [k \in Cameras |-> FALSE]
  /\ regs' = [k \in Cameras |-> PowerOn]
  /\ port' \in {port, [k \in Cameras |-> BoardDefaults]}
  /\ UNCHANGED pins

SetupClock(a) == a.kind = "setup clock" /\ clock' = TRUE /\ UNCHANGED <<camEn, port, pins, regs>>

(* CAM_EN is the module's reset: low, the sensor forgets its registers.    *)
DriveGpio(a) ==
  /\ a.kind = "gpio"
  /\ camEn' = [camEn EXCEPT ![a.camera] = a.level]
  /\ regs' = IF a.level THEN regs ELSE [regs EXCEPT ![a.camera] = PowerOn]
  /\ UNCHANGED <<clock, port, pins>>

WriteLanes(a) ==
  /\ a.kind = "lanes"
  /\ port' = [port EXCEPT ![a.camera].lanes = a.lanes]
  /\ UNCHANGED <<clock, camEn, pins, regs>>

WriteDataType_WholeWord(a) == \* mutant: the other ports' bytes are not read back first
  /\ a.kind = "data type"
  /\ port' = [k \in Cameras |-> [port[k] EXCEPT !.type = a.type]]
  /\ UNCHANGED <<clock, camEn, pins, regs>>

(* SetDataType reads the word the ports share and replaces one byte.       *)
WriteDataType(a) ==
  /\ a.kind = "data type"
  /\ port' = [port EXCEPT ![a.camera].type = a.type]
  /\ UNCHANGED <<clock, camEn, pins, regs>>

WriteExpander(a) ==
  /\ a.kind = "p22"
  /\ pins' = [pins EXCEPT ![a.camera] = (@ \cap a.kept) \cup a.high]
  /\ UNCHANGED <<clock, camEn, port, regs>>

Probe(a) == a.kind = "probe" /\ Answers(a.camera) /\ UNCHANGED hardware

WriteRegister(a) ==
  /\ a.kind \in {"register", "raw register"}
  /\ Answers(a.camera)
  /\ regs' = [regs EXCEPT ![a.camera][a.register] = a.value]
  /\ UNCHANGED <<clock, camEn, port, pins>>

Perform(a) ==
  \/ Reset(a) \/ SetupClock(a) \/ DriveGpio(a) \/ WriteLanes(a) \/ WriteDataType(a)
  \/ WriteExpander(a) \/ Probe(a) \/ WriteRegister(a)

Unanswered(a) == a.kind \in {"probe", "register", "raw register"} /\ ~Answers(a.camera)
-----------------------------------------------------------------------------
(* Sessions.                                                               *)

BeginRig ==
  /\ phase = "idle"
  /\ \E r \in Rigs : /\ rig' = r.cameras /\ adapter' = r.p22
                     /\ todo' = DOMAIN r.cameras /\ script' = ConfigureBoard(r)
  /\ phase' = "setup" /\ clean' = FALSE /\ stopping' = FALSE
  /\ UNCHANGED <<hardware, receiver, device, ticking>>

BeginCommand ==
  /\ phase = "idle"
  /\ \E c \in Commands : script' = Command(c)
  /\ phase' = "setup" /\ clean' = FALSE
  /\ UNCHANGED <<hardware, rig, adapter, todo, receiver, device, ticking, stopping>>

MainStep ==
  /\ phase = "setup" /\ script # << >>
  /\ Perform(Head(script))
  /\ script' = Tail(script)
  /\ clean' = (clean \/ Head(script).kind = "reset")
  /\ UNCHANGED <<phase, rig, adapter, todo, receiver, device, ticking, stopping>>

(* The loop of ConfigureSensors: the order is the one of the rig's file.   *)
NextCamera ==
  /\ phase = "setup" /\ script = << >>
  /\ \E k \in todo : /\ script' = ConfigureCamera(k, rig[k], adapter)
                     /\ todo' = todo \ {k}
  /\ UNCHANGED <<hardware, phase, rig, adapter, receiver, device, ticking, stopping, clean>>

(* The process is gone: by itself, by an exception, or killed.  Nothing    *)
(* but the control connection is closed on the way out.                    *)
Leave ==
  /\ phase' = "idle" /\ rig' = NoRig /\ adapter' = FALSE /\ todo' = {} /\ script' = << >>
  /\ receiver' = [k \in Cameras |-> "off"]
  /\ device' = [k \in Cameras |-> << >>]
  /\ ticking' = {} /\ stopping' = FALSE
  /\ UNCHANGED hardware

CommandDone == phase = "setup" /\ script = << >> /\ rig = NoRig /\ Leave /\ UNCHANGED clean

(* The I2C transaction is not acknowledged: the driver throws, main leaves.*)
Refused ==
  /\ \/ phase = "setup" /\ script # << >> /\ Unanswered(Head(script))
     \/ \E k \in Cameras : device[k] # << >> /\ Unanswered(Head(device[k]))
  /\ Leave /\ clean' = FALSE

Die == phase # "idle" /\ Leave /\ clean' = FALSE

(* BuildChain for every camera, then run_async.                            *)
Compose ==
  /\ phase = "setup" /\ script = << >> /\ rig # NoRig /\ todo = {}
  /\ phase' = "running"
  /\ ticking' = DOMAIN rig
  /\ receiver' = [k \in Cameras |-> IF k \in DOMAIN rig THEN "starting" ELSE "off"]
  /\ device' = [k \in Cameras |-> IF k \in DOMAIN rig THEN StartSequence(k) ELSE << >>]
  /\ UNCHANGED <<hardware, rig, adapter, todo, script, stopping, clean>>

(* device_start or device_stop writes its next register.                   *)
DeviceStep(k) ==
  /\ device[k] # << >>
  /\ Perform(Head(device[k]))
  /\ device' = [device EXCEPT ![k] = Tail(@)]
  /\ UNCHANGED <<session, receiver, ticking, stopping, clean>>

Started(k) ==
  /\ receiver[k] = "starting" /\ device[k] = << >>
  /\ receiver' = [receiver EXCEPT ![k] = "receiving"]
  /\ UNCHANGED <<hardware, session, device, ticking, stopping, clean>>

(* The receiver does not tick any more: the framework stops the operator.  *)
StopReceiver(k) ==
  /\ receiver[k] = "receiving" /\ k \notin ticking
  /\ receiver' = [receiver EXCEPT ![k] = "stopping"]
  /\ device' = [device EXCEPT ![k] = StopSequence(k)]
  /\ UNCHANGED <<hardware, session, ticking, stopping, clean>>

Stopped(k) ==
  /\ receiver[k] = "stopping" /\ device[k] = << >>
  /\ receiver' = [receiver EXCEPT ![k] = "done"]
  /\ UNCHANGED <<hardware, session, device, ticking, stopping, clean>>

StopAll_FirstOnly == \* mutant
  /\ phase = "running" /\ stopping' = TRUE
  /\ ticking' = ticking \ {CHOOSE k \in DOMAIN rig : TRUE}
  /\ UNCHANGED <<hardware, session, receiver, device, clean>>

(* On SIGINT or after the duration, and again every 100 ms.                *)
StopAll ==
  /\ phase = "running" /\ stopping' = TRUE
  /\ ticking' = {}
  /\ UNCHANGED <<hardware, session, receiver, device, clean>>

(* A live control of the test pattern (SensorControl has the detail): the  *)
(* web server serves while the pipeline starts, runs and stops.            *)
SetPattern(k, v) ==
  /\ phase = "running" /\ k \in DOMAIN rig
  /\ Answers(k)
  /\ regs' = [regs EXCEPT ![k].TPG = v]
  /\ rig' = [rig EXCEPT ![k].pattern = v]
  /\ UNCHANGED <<clock, camEn, port, pins, phase, adapter, todo, script, receiver, device, ticking, stopping, clean>>

(* future.get() returns when every receiver has stopped.                   *)
Finish ==
  /\ phase = "running" /\ \A k \in DOMAIN rig : receiver[k] = "done"
  /\ Leave /\ UNCHANGED clean

Receiver(k) == DeviceStep(k) \/ Started(k) \/ StopReceiver(k) \/ Stopped(k)

Next ==
  \/ BeginRig \/ BeginCommand \/ MainStep \/ NextCamera \/ CommandDone \/ Refused \/ Die
  \/ Compose \/ StopAll \/ Finish
  \/ \E k \in Cameras : Receiver(k) \/ \E v \in {"off", "on"} : SetPattern(k, v)

Spec == Init /\ [][Next]_vars

(* The framework schedules every operator, and main waits for the result.  *)
FairSpec == Spec /\ \A k \in Cameras : WF_vars(Receiver(k)) /\ WF_vars(Finish) /\ WF_vars(Refused)
-----------------------------------------------------------------------------
(* While a receiver receives, the port is set to the lanes and the data    *)
(* type its sensor sends, whatever was configured after it, and the        *)
(* D-PHY is clocked.                                                       *)
PortMatches ==
  \A k \in Cameras : receiver[k] = "receiving" =>
    /\ clock /\ Answers(k)
    /\ port[k].lanes = regs[k].LANEMODE
    /\ port[k].type = (IF regs[k].MDBIT = "RAW10" THEN "0x2B" ELSE "0x2C")

(* What a freshly powered sensor holds after it was programmed with c.     *)
Programmed(c) ==
  [PowerOn EXCEPT !.INIT = "vendor", !.LANEMODE = c.lanes, !.READOUT = kModes[c.mode].readout,
                  !.ADBIT = IF c.mode = "BIN2_RAW12" THEN "RAW10" ELSE kModes[c.mode].format,
                  !.MDBIT = kModes[c.mode].format,
                  !.WINDOW = IF c.mode = "CROP_RAW10" THEN "crop" ELSE "reset",
                  !.TIMING = c.mode, !.TPG = c.pattern]

(* A running pipeline finds its sensors exactly as configured: nothing of  *)
(* an earlier session (its test pattern, its window, a register written by *)
(* hand) is left in them.                                                  *)
NothingInherited ==
  phase = "running" =>
    \A k \in DOMAIN rig :
      [regs[k] EXCEPT !.STANDBY = "1", !.XMSTA = "1"] = Programmed(rig[k])

(* configure() writes a sensor's registers only while it is in standby,    *)
(* even when the previous session died with the sensor streaming.          *)
ConfiguresInStandby ==
  script # << >> /\ Head(script).kind = "register" =>
    LET k == Head(script).camera IN Answers(k) => regs[k].STANDBY = "1"

(* From its reset on, and after it has ended normally, a session has no    *)
(* sensor streaming but those its own receivers have started.              *)
NoStrayStream ==
  clean => \A k \in Cameras : Streaming(k) => receiver[k] \in {"starting", "receiving", "stopping"}

(* StopAll ends the session: every receiver stops, and main returns.       *)
StopEnds == stopping ~> phase = "idle"
=============================================================================
