-------------------------- MODULE RigBringup_proofs --------------------------
(***************************************************************************)
(* Proofs about RigBringup, for any number of ports, any configurations    *)
(* and any hsbctl commands between the sessions.  What a session leaves    *)
(* to be done is in its script, so the invariant speaks of the script: of  *)
(* each item of a camera (a register, its port's settings, whether it      *)
(* answers, the clock), either the last access that touches it sets it to  *)
(* the value wanted, or none touches it and it has the value.              *)
(***************************************************************************)
EXTENDS RigBringup, SequenceTheorems, TLAPS

(* The accesses the code makes.                                            *)
CommandValues(name, field) == {c[field] : c \in {d \in Commands : d.name = name}}

Values ==
  {"0", "1", "2 lanes", "4 lanes", "vendor", "0x2B", "0x2C", "RAW10", "RAW12", "all-pixel",
   "binning", "crop", "on", "FULL_RAW10", "FULL_RAW12", "BIN2_RAW12", "CROP_RAW10",
   "STANDBY", "XMSTA", "INIT", "LANEMODE", "ADBIT", "MDBIT", "READOUT", "WINDOW", "TIMING", "TPG"}
  \cup CommandValues("lanes", "lanes") \cup CommandValues("dt", "type")
  \cup CommandValues("wr", "register") \cup CommandValues("wr", "value")

BoardAccesses ==
  [kind : {"reset", "setup clock"}]
  \cup [kind : {"gpio"}, camera : Cameras, level : BOOLEAN]
  \cup [kind : {"lanes"}, camera : Cameras, lanes : Values]
  \cup [kind : {"data type"}, camera : Cameras, type : Values]

(* What configure() does to the adapter and the sensor of a camera.        *)
Registers == {"INIT", "LANEMODE", "ADBIT", "MDBIT", "READOUT", "WINDOW", "TIMING", "TPG"}

SensorAccesses(k) ==
  [kind : {"p22"}, camera : {k}, kept : SUBSET Outputs, high : SUBSET Outputs]
  \cup [kind : {"probe"}, camera : {k}]
  \cup [kind : {"register"}, camera : {k}, register : Registers, value : Values]

RawAccesses == [kind : {"raw register"}, camera : Cameras, register : Values, value : Values]

Accesses == BoardAccesses \cup RawAccesses \cup UNION {SensorAccesses(k) : k \in Cameras}

(* The items a camera depends on, and what they hold.                      *)
Items == Registers \cup {"clock", "answers", "lanes", "type"}

Holds(k, x) ==
  CASE x = "clock"   -> IF clock THEN "on" ELSE "off"
    [] x = "answers" -> IF Answers(k) THEN "yes" ELSE "no"
    [] x = "lanes"   -> port[k].lanes
    [] x = "type"    -> port[k].type
    [] OTHER         -> regs[k][x]

Wanted(c, x) ==
  CASE x = "clock"   -> "on"
    [] x = "answers" -> "yes"
    [] x = "lanes"   -> c.lanes
    [] x = "type"    -> DataTypeFor(kModes[c.mode].format)
    [] OTHER         -> Programmed(c)[x]

(* The access leaves x of camera k with value v; it may change x of k.     *)
Cuts(a, k) == a.kind = "gpio" /\ a.camera = k /\ ~a.level

Sets(a, k, x, v) ==
  \/ a.kind = "setup clock" /\ x = "clock" /\ v = "on"
  \/ a.kind = "probe" /\ a.camera = k /\ x = "answers" /\ v = "yes"
  \/ a.kind = "lanes" /\ a.camera = k /\ x = "lanes" /\ v = a.lanes
  \/ a.kind = "data type" /\ a.camera = k /\ x = "type" /\ v = a.type
  \/ Cuts(a, k) /\ x \in Registers /\ v = PowerOn[x]
  \/ a.kind = "register" /\ a.camera = k /\ x = a.register /\ x \in Registers /\ v = a.value

Touches(a, k, x) ==
  \/ a.kind = "reset"
  \/ a.kind = "setup clock" /\ x = "clock"
  \/ a.kind \in {"gpio", "p22", "probe"} /\ a.camera = k /\ x = "answers"
  \/ a.kind = "lanes" /\ a.camera = k /\ x = "lanes"
  \/ a.kind = "data type" /\ a.camera = k /\ x = "type"
  \/ Cuts(a, k) /\ x \in Registers
  \/ a.kind \in {"register", "raw register"} /\ a.camera = k /\ x = a.register

(* The script s ends with x of k set to v; it does not touch x of k.       *)
Ends(s, k, x, v) ==
  \E i \in 1..Len(s) : Sets(s[i], k, x, v) /\ \A j \in i+1..Len(s) : ~Touches(s[j], k, x)

Quiet(s, k, x) == \A i \in 1..Len(s) : ~Touches(s[i], k, x)

Settled(k, x, v) == Ends(script, k, x, v) \/ (Quiet(script, k, x) /\ Holds(k, x) = v)
-----------------------------------------------------------------------------
(* The inductive invariant.                                                *)

(* A register written by hand comes alone, and configure() writes to a     *)
(* sensor in standby, or after its power cut.                              *)
ScriptInv ==
  /\ script \in Seq(Accesses)
  /\ \A i \in 1..Len(script) :
       /\ script[i].kind = "raw register" => i = 1 /\ Len(script) = 1 /\ ~clean
       /\ script[i].kind = "register" =>
            \/ regs[script[i].camera].STANDBY = "1"
            \/ \E j \in 1..i-1 : Cuts(script[j], script[i].camera)

(* The cameras the rig has come to are, or will be, as wanted; the clock   *)
(* is for all of them.                                                     *)
SettledInv ==
  \A k \in DOMAIN rig : \A x \in Items :
    k \notin todo \/ x = "clock" => Settled(k, x, Wanted(rig[k], x))

PhaseInv ==
  /\ phase # "setup" => script = << >> /\ todo = {}
  /\ phase = "idle" => DOMAIN rig = {}
  /\ \A k \in Cameras : phase # "running" \/ k \notin DOMAIN rig => receiver[k] = "off"

(* What is left of a start or stop sequence.                               *)
DeviceInv ==
  \A k \in Cameras :
    /\ receiver[k] \in {"off", "receiving", "done"} => device[k] = << >>
    /\ receiver[k] = "starting" =>
         device[k] \in {StartSequence(k), << Register(k, "XMSTA", "0") >>, << >>}
    /\ receiver[k] = "stopping" =>
         device[k] \in {StopSequence(k), << Register(k, "STANDBY", "1") >>, << >>}
    /\ receiver[k] = "done" \/ (receiver[k] = "stopping" /\ device[k] = << >>) =>
         regs[k].STANDBY = "1"

CleanInv ==
  clean => \A k \in Cameras : \/ regs[k].STANDBY = "1"
                              \/ receiver[k] \in {"starting", "receiving", "stopping"}

IInv == TypeOK /\ ScriptInv /\ SettledInv /\ PhaseInv /\ DeviceInv /\ CleanInv
-----------------------------------------------------------------------------
(* What one access does to an item: what it does not touch it leaves, and  *)
(* what it sets has the value.                                             *)
LEMMA Effect ==
  ASSUME TypeOK, NEW a \in Accesses, Perform(a), NEW k \in Cameras, NEW x \in Items
  PROVE  /\ ~Touches(a, k, x) => Holds(k, x)' = Holds(k, x)
         /\ \A v : Sets(a, k, x, v) => Holds(k, x)' = v
<1> USE DEF Touches, Sets, Cuts, Holds, Answers, Items, Registers
<1>1. CASE Reset(a)
  BY <1>1 DEF Reset
<1>2. CASE SetupClock(a)
  BY <1>2 DEF SetupClock
<1>3. CASE DriveGpio(a)
  BY <1>3 DEF DriveGpio, TypeOK, PowerOn
<1>4. CASE WriteLanes(a)
  BY <1>4 DEF WriteLanes, TypeOK
<1>5. CASE WriteDataType(a)
  BY <1>5 DEF WriteDataType, TypeOK
<1>6. CASE WriteExpander(a)
  BY <1>6 DEF WriteExpander, TypeOK
<1>7. CASE Probe(a)
  BY <1>7 DEF Probe, hardware
<1>8. CASE WriteRegister(a)
  BY <1>8 DEF WriteRegister, TypeOK, PowerOn
<1> QED BY <1>1, <1>2, <1>3, <1>4, <1>5, <1>6, <1>7, <1>8 DEF Perform

(* An access made is one less in the script: what was settled stays so.    *)
LEMMA StaysSettled ==
  ASSUME TypeOK, script \in Seq(Accesses), script # << >>, Perform(Head(script)),
         script' = Tail(script), NEW k \in Cameras, NEW x \in Items, NEW v, Settled(k, x, v)
  PROVE  Settled(k, x, v)'
<1> DEFINE a == Head(script)
           n == Len(script)
<1>1. /\ a \in Accesses /\ a = script[1] /\ n \in Nat /\ n > 0
      /\ Len(script') = n - 1 /\ \A i \in 1..n - 1 : script'[i] = script[i + 1]
  BY HeadTailProperties
<1>2. /\ ~Touches(a, k, x) => Holds(k, x)' = Holds(k, x)
      /\ Sets(a, k, x, v) => Holds(k, x)' = v
  BY <1>1, Effect
<1> HIDE DEF a, n
<1>3. CASE Quiet(script, k, x) /\ Holds(k, x) = v
  BY <1>1, <1>2, <1>3 DEF Quiet, Settled, n
<1>4. ASSUME NEW i \in 1..n, Sets(script[i], k, x, v), \A j \in i+1..n : ~Touches(script[j], k, x)
      PROVE  Settled(k, x, v)'
  <2>1. CASE i = 1
    <3>1. Quiet(script', k, x)
      BY <1>1, <1>4, <2>1 DEF Quiet
    <3> QED BY <3>1, <1>1, <1>2, <1>4, <2>1 DEF Settled
  <2>2. CASE i > 1
    <3>1. i - 1 \in 1..Len(script') /\ script'[i - 1] = script[i]
      BY <1>1, <2>2
    <3>2. \A j \in i..Len(script') : script'[j] = script[j + 1] /\ j + 1 \in i + 1..n
      BY <1>1, <2>2
    <3>3. \A j \in (i - 1) + 1..Len(script') : ~Touches(script'[j], k, x)
      BY <3>2, <1>4, <2>2
    <3>4. Ends(script', k, x, v)
      BY <3>1, <3>3, <1>4 DEF Ends
    <3> QED BY <3>4 DEF Settled
  <2> QED BY <2>1, <2>2
<1> QED BY <1>3, <1>4 DEF Settled, Ends, n
-----------------------------------------------------------------------------
(* Scripts are put together from parts: what a part ends with survives     *)
(* quiet parts after it.                                                   *)
LEMMA Joins ==
  ASSUME NEW s \in Seq(Accesses), NEW t \in Seq(Accesses), NEW k, NEW x, NEW v
  PROVE  /\ Ends(t, k, x, v) => Ends(s \o t, k, x, v)
         /\ Ends(s, k, x, v) /\ Quiet(t, k, x) => Ends(s \o t, k, x, v)
         /\ Quiet(s, k, x) /\ Quiet(t, k, x) => Quiet(s \o t, k, x)
<1> DEFINE u == s \o t
           m == Len(s)
           n == Len(t)
<1>1. /\ Len(u) = m + n /\ m \in Nat /\ n \in Nat
      /\ \A i \in 1..m : u[i] = s[i]
      /\ \A i \in 1..n : u[m + i] = t[i]
      /\ \A i \in m + 1..m + n : u[i] = t[i - m] /\ i - m \in 1..n
  BY ConcatProperties, LenProperties
<1> HIDE DEF u, m, n
<1>2. ASSUME NEW i \in 1..n, Sets(t[i], k, x, v), \A j \in i+1..n : ~Touches(t[j], k, x)
      PROVE  Ends(u, k, x, v)
  <2>1. m + i \in 1..Len(u) /\ u[m + i] = t[i]
    BY <1>1
  <2>2. \A j \in m + i + 1..Len(u) : u[j] = t[j - m] /\ j - m \in i + 1..n
    BY <1>1
  <2> QED BY <2>1, <2>2, <1>2 DEF Ends
<1>3. ASSUME NEW i \in 1..m, Sets(s[i], k, x, v), \A j \in i+1..m : ~Touches(s[j], k, x),
             Quiet(t, k, x)
      PROVE  Ends(u, k, x, v)
  <2>1. i \in 1..Len(u) /\ u[i] = s[i]
    BY <1>1
  <2>2. ASSUME NEW j \in i + 1..Len(u)
        PROVE  ~Touches(u[j], k, x)
    BY <1>1, <1>3, <2>2 DEF Quiet, n
  <2> QED BY <2>1, <2>2, <1>3 DEF Ends
<1>4. Quiet(s, k, x) /\ Quiet(t, k, x) => Quiet(u, k, x)
  <2> SUFFICES ASSUME Quiet(s, k, x), Quiet(t, k, x), NEW i \in 1..Len(u)
               PROVE  ~Touches(u[i], k, x)
    BY DEF Quiet
  <2>1. CASE i \in 1..m
    BY <1>1, <2>1 DEF Quiet, m
  <2>2. CASE i \in m + 1..m + n
    BY <1>1, <2>2 DEF Quiet, n
  <2> QED BY <1>1, <2>1, <2>2
<1> QED BY <1>2, <1>3, <1>4 DEF Ends, u, m, n
-----------------------------------------------------------------------------
(* The accesses of configure() go to one camera, and are the code's.       *)
LEMMA SensorAccessTypes ==
  ASSUME NEW k \in Cameras
  PROVE  /\ SensorAccesses(k) \subseteq Accesses
         /\ Seq(SensorAccesses(k)) \subseteq Seq(Accesses)
<1>1. SensorAccesses(k) \subseteq Accesses
  BY DEF Accesses
<1> QED BY <1>1, SeqMonotonic

(* What the table of modes says of a configuration.                        *)
LEMMA Modes ==
  ASSUME NEW c \in CameraConfigs
  PROVE  LET m == kModes[c.mode] IN
         /\ m.format \in {"RAW10", "RAW12"} /\ m.readout \in {"all-pixel", "binning", "crop"}
         /\ (m.readout = "binning") <=> (c.mode = "BIN2_RAW12")
         /\ (m.readout = "crop") <=> (c.mode = "CROP_RAW10")
         /\ m.readout = "binning" => m.format = "RAW12"
         /\ {c.mode, c.lanes, m.format, m.readout, DataTypeFor(m.format)} \subseteq Values
         /\ c.pattern \in {"off", "on"}
<1>1. c.mode \in {"FULL_RAW10", "FULL_RAW12", "BIN2_RAW12", "CROP_RAW10"}
      /\ c.lanes \in {"2 lanes", "4 lanes"} /\ c.pattern \in {"off", "on"}
  BY DEF CameraConfigs
<1>2. LET m == kModes[c.mode] IN
      /\ m.format \in {"RAW10", "RAW12"} /\ m.readout \in {"all-pixel", "binning", "crop"}
      /\ (m.readout = "binning") <=> (c.mode = "BIN2_RAW12")
      /\ (m.readout = "crop") <=> (c.mode = "CROP_RAW10")
      /\ m.readout = "binning" => m.format = "RAW12"
  <2>1. /\ kModes["FULL_RAW10"] = [format |-> "RAW10", readout |-> "all-pixel"]
        /\ kModes["FULL_RAW12"] = [format |-> "RAW12", readout |-> "all-pixel"]
        /\ kModes["BIN2_RAW12"] = [format |-> "RAW12", readout |-> "binning"]
        /\ kModes["CROP_RAW10"] = [format |-> "RAW10", readout |-> "crop"]
    BY DEF kModes
  <2>2. CASE c.mode = "FULL_RAW10"
    BY <2>1, <2>2
  <2>3. CASE c.mode = "FULL_RAW12"
    BY <2>1, <2>3
  <2>4. CASE c.mode = "BIN2_RAW12"
    BY <2>1, <2>4
  <2>5. CASE c.mode = "CROP_RAW10"
    BY <2>1, <2>5
  <2> QED BY <1>1, <2>2, <2>3, <2>4, <2>5
<1>3. {"RAW10", "RAW12", "all-pixel", "binning", "crop", "2 lanes", "4 lanes", "0x2B", "0x2C",
       "FULL_RAW10", "FULL_RAW12", "BIN2_RAW12", "CROP_RAW10"} \subseteq Values
  BY DEF Values
<1> QED BY <1>1, <1>2, <1>3 DEF DataTypeFor

(* Every part of configure(), and so the whole, is made of such accesses.  *)
LEMMA ConfigureTypes ==
  ASSUME NEW k \in Cameras, NEW c \in CameraConfigs, NEW p22 \in BOOLEAN
  PROVE  LET S == Seq(SensorAccesses(k)) IN
         /\ PowerUp(k) \in S /\ << Access("probe", k) >> \in S /\ InitSettings(k) \in S
         /\ << Register(k, "LANEMODE", c.lanes) >> \in S
         /\ BitDepth(k, kModes[c.mode].format) \in S
         /\ ReadoutTable(k, kModes[c.mode].readout) \in S
         /\ Tables(k, kModes[c.mode]) \in S
         /\ << Register(k, "TIMING", c.mode) >> \in S
         /\ << Register(k, "TPG", "on") >> \in S
         /\ Configure(k, c, p22) \in S
<1> DEFINE A == SensorAccesses(k)
<1>1. ASSUME NEW r \in Registers, NEW v \in Values
      PROVE  Register(k, r, v) \in A
  BY DEF Register, SensorAccesses
<1>2. \A high \in SUBSET Outputs : Expander(k, {}, high) \in A
  BY DEF Expander, SensorAccesses
<1>3. Access("probe", k) \in A
  BY DEF Access, SensorAccesses
<1>4. /\ kModes[c.mode].format \in Values /\ kModes[c.mode].readout \in Values
      /\ c.mode \in Values /\ c.lanes \in Values
  BY Modes
<1>5. {"4 lanes", "vendor", "RAW10", "RAW12", "crop", "on"} \subseteq Values
  BY DEF Values
<1>6. {"INIT", "LANEMODE", "ADBIT", "MDBIT", "READOUT", "WINDOW", "TIMING", "TPG"} \subseteq Registers
  BY DEF Registers
<1>7. {} \in SUBSET Outputs /\ {"PW_EN"} \in SUBSET Outputs /\ {"PW_EN", "RST"} \in SUBSET Outputs
  BY DEF Outputs
<1> HIDE DEF A
<1>8. << >> \in Seq(A) /\ \A a \in A : << a >> \in Seq(A)
  OBVIOUS
<1>9. \A a, b \in A : << a, b >> \in Seq(A)
  OBVIOUS
<1>10. \A s, t \in Seq(A) : s \o t \in Seq(A)
  OBVIOUS
<1>11. PowerUp(k) \in Seq(A)
  <2>1. Expander(k, {}, {}) \in A /\ Expander(k, {}, {"PW_EN"}) \in A
        /\ Expander(k, {}, {"PW_EN", "RST"}) \in A
    BY <1>2, <1>7
  <2> QED BY <2>1 DEF PowerUp
<1>12. InitSettings(k) \in Seq(A)
  BY <1>1, <1>5, <1>6, <1>9 DEF InitSettings
<1>13. BitDepth(k, kModes[c.mode].format) \in Seq(A)
  BY <1>1, <1>4, <1>6, <1>9 DEF BitDepth
<1>14. ReadoutTable(k, kModes[c.mode].readout) \in Seq(A)
  BY <1>1, <1>4, <1>5, <1>6, <1>8, <1>9, <1>10 DEF ReadoutTable
<1>15. Tables(k, kModes[c.mode]) \in Seq(A)
  BY <1>10, <1>13, <1>14 DEF Tables
<1>16. /\ << Access("probe", k) >> \in Seq(A) /\ << Register(k, "LANEMODE", c.lanes) >> \in Seq(A)
       /\ << Register(k, "TIMING", c.mode) >> \in Seq(A) /\ << Register(k, "TPG", "on") >> \in Seq(A)
  BY <1>1, <1>3, <1>4, <1>5, <1>6, <1>8
<1>17. Configure(k, c, p22) \in Seq(A)
  BY <1>8, <1>10, <1>11, <1>12, <1>15, <1>16 DEF Configure
<1> QED BY <1>11, <1>12, <1>13, <1>14, <1>15, <1>16, <1>17 DEF A
-----------------------------------------------------------------------------
(* A part of a script leaves the items X as c wants them, and does not     *)
(* touch the items Q.                                                      *)
Leaves(s, k, c, X, Q) ==
  /\ \A x \in X : Ends(s, k, x, Wanted(c, x))
  /\ \A x \in Q : Quiet(s, k, x)

(* Parts joined: the second has the last word.                             *)
LEMMA JoinedLeaves ==
  ASSUME NEW s \in Seq(Accesses), NEW t \in Seq(Accesses), NEW k, NEW c,
         NEW X, NEW Q, NEW Y, NEW R, Leaves(s, k, c, X, Q), Leaves(t, k, c, Y, R)
  PROVE  Leaves(s \o t, k, c, Y \cup (X \cap R), Q \cap R)
<1>1. ASSUME NEW x, x \in Y \cup (X \cap R)
      PROVE  Ends(s \o t, k, x, Wanted(c, x))
  BY <1>1, Joins DEF Leaves
<1>2. ASSUME NEW x \in Q \cap R
      PROVE  Quiet(s \o t, k, x)
  BY <1>2, Joins DEF Leaves
<1> QED BY <1>1, <1>2 DEF Leaves

(* The same for parts that leave alone whatever they do not set.           *)
LEMMA JoinedSets ==
  ASSUME NEW s \in Seq(Accesses), NEW t \in Seq(Accesses), NEW k, NEW c,
         NEW X, NEW Y, Leaves(s, k, c, X, Items \ X), Leaves(t, k, c, Y, Items \ Y),
         X \subseteq Items
  PROVE  Leaves(s \o t, k, c, X \cup Y, Items \ (X \cup Y))
<1>1. Leaves(s \o t, k, c, Y \cup (X \cap (Items \ Y)), (Items \ X) \cap (Items \ Y))
  BY JoinedLeaves
<1>2. /\ Y \cup (X \cap (Items \ Y)) = X \cup Y
      /\ (Items \ X) \cap (Items \ Y) = Items \ (X \cup Y)
  OBVIOUS
<1> QED BY <1>1, <1>2

(* Parts of no, one and two accesses.                                      *)
LEMMA ShortParts ==
  ASSUME NEW k, NEW x
  PROVE  /\ Quiet(<< >>, k, x)
         /\ \A a, v : Sets(a, k, x, v) => Ends(<< a >>, k, x, v)
         /\ \A a : ~Touches(a, k, x) => Quiet(<< a >>, k, x)
         /\ \A a, b, v : Sets(b, k, x, v) => Ends(<< a, b >>, k, x, v)
         /\ \A a, b, v : Sets(a, k, x, v) /\ ~Touches(b, k, x) => Ends(<< a, b >>, k, x, v)
         /\ \A a, b : ~Touches(a, k, x) /\ ~Touches(b, k, x) => Quiet(<< a, b >>, k, x)
         /\ \A a, b, c : ~Touches(a, k, x) /\ ~Touches(b, k, x) /\ ~Touches(c, k, x)
                         => Quiet(<< a, b, c >>, k, x)
<1> USE DEF Quiet, Ends
<1>1. Quiet(<< >>, k, x)
  OBVIOUS
<1>2. ASSUME NEW a, NEW v, Sets(a, k, x, v)
      PROVE  Ends(<< a >>, k, x, v)
  BY <1>2
<1>3. ASSUME NEW a, ~Touches(a, k, x)
      PROVE  Quiet(<< a >>, k, x)
  BY <1>3
<1>4. ASSUME NEW a, NEW b, NEW v, Sets(b, k, x, v)
      PROVE  Ends(<< a, b >>, k, x, v)
  <2>1. 2 \in 1..Len(<< a, b >>) /\ << a, b >>[2] = b /\ \A j \in 2 + 1..Len(<< a, b >>) : FALSE
    OBVIOUS
  <2> QED BY <2>1, <1>4
<1>5. ASSUME NEW a, NEW b, NEW v, Sets(a, k, x, v), ~Touches(b, k, x)
      PROVE  Ends(<< a, b >>, k, x, v)
  <2>1. 1 \in 1..Len(<< a, b >>) /\ << a, b >>[1] = a
        /\ \A j \in 1 + 1..Len(<< a, b >>) : << a, b >>[j] = b
    OBVIOUS
  <2> QED BY <2>1, <1>5
<1>6. ASSUME NEW a, NEW b, ~Touches(a, k, x), ~Touches(b, k, x)
      PROVE  Quiet(<< a, b >>, k, x)
  BY <1>6
<1>7. ASSUME NEW a, NEW b, NEW c, ~Touches(a, k, x), ~Touches(b, k, x), ~Touches(c, k, x)
      PROVE  Quiet(<< a, b, c >>, k, x)
  BY <1>7
<1> QED BY <1>1, <1>2, <1>3, <1>4, <1>5, <1>6, <1>7 DEF Quiet
-----------------------------------------------------------------------------
(* The registers configure() does not write for c: the window outside the  *)
(* crop modes, the pattern generator when it shall be off.                 *)
NotWritten(c) ==
  (IF c.mode = "CROP_RAW10" THEN {} ELSE {"WINDOW"}) \cup (IF c.pattern = "on" THEN {} ELSE {"TPG"})

(* What c wants of each item.                                              *)
LEMMA WantedIs ==
  ASSUME NEW c \in CameraConfigs
  PROVE  LET m == kModes[c.mode] IN
         /\ Wanted(c, "clock") = "on" /\ Wanted(c, "answers") = "yes"
         /\ Wanted(c, "lanes") = c.lanes /\ Wanted(c, "type") = DataTypeFor(m.format)
         /\ Wanted(c, "INIT") = "vendor" /\ Wanted(c, "LANEMODE") = c.lanes
         /\ Wanted(c, "READOUT") = m.readout /\ Wanted(c, "MDBIT") = m.format
         /\ Wanted(c, "ADBIT") = (IF c.mode = "BIN2_RAW12" THEN "RAW10" ELSE m.format)
         /\ Wanted(c, "WINDOW") = (IF c.mode = "CROP_RAW10" THEN "crop" ELSE "reset")
         /\ Wanted(c, "TIMING") = c.mode /\ Wanted(c, "TPG") = c.pattern
         /\ \A x \in NotWritten(c) : x \in Registers /\ Wanted(c, x) = PowerOn[x]
         /\ \A x \in Registers : Wanted(c, x) = Programmed(c)[x]
<1>1. LET m == kModes[c.mode] IN
      /\ Wanted(c, "clock") = "on" /\ Wanted(c, "answers") = "yes"
      /\ Wanted(c, "lanes") = c.lanes /\ Wanted(c, "type") = DataTypeFor(m.format)
  BY DEF Wanted
<1>2. \A x \in Registers : Wanted(c, x) = Programmed(c)[x]
  BY DEF Wanted, Registers
<1>3. LET m == kModes[c.mode] IN
      /\ Programmed(c).INIT = "vendor" /\ Programmed(c).LANEMODE = c.lanes
      /\ Programmed(c).READOUT = m.readout /\ Programmed(c).MDBIT = m.format
      /\ Programmed(c).ADBIT = (IF c.mode = "BIN2_RAW12" THEN "RAW10" ELSE m.format)
      /\ Programmed(c).WINDOW = (IF c.mode = "CROP_RAW10" THEN "crop" ELSE "reset")
      /\ Programmed(c).TIMING = c.mode /\ Programmed(c).TPG = c.pattern
  BY DEF Programmed, PowerOn
<1>4. PowerOn.WINDOW = "reset" /\ PowerOn.TPG = "off"
  BY DEF PowerOn
<1>5. c.pattern \in {"off", "on"}
  BY Modes
<1> HIDE DEF Registers
<1>6. /\ "INIT" \in Registers /\ "LANEMODE" \in Registers /\ "READOUT" \in Registers
      /\ "MDBIT" \in Registers /\ "ADBIT" \in Registers /\ "WINDOW" \in Registers
      /\ "TIMING" \in Registers /\ "TPG" \in Registers
  BY DEF Registers
<1>7. \A x \in NotWritten(c) : x \in Registers /\ Wanted(c, x) = PowerOn[x]
  BY <1>2, <1>3, <1>4, <1>5, <1>6 DEF NotWritten
<1> QED BY <1>1, <1>2, <1>3, <1>6, <1>7

(* A write of a register sets it and touches nothing else.                 *)
LEMMA RegisterWrite ==
  ASSUME NEW k, NEW r \in Registers, NEW v
  PROVE  /\ Sets(Register(k, r, v), k, r, v)
         /\ \A x \in Items : x # r => ~Touches(Register(k, r, v), k, x)
  BY DEF Register, Sets, Touches, Cuts

(* The adapter's and the probe's accesses concern only whether the camera  *)
(* answers; the probe goes through only when it does.                      *)
LEMMA ProbedPart ==
  ASSUME NEW k \in Cameras, NEW c \in CameraConfigs, NEW p22 \in BOOLEAN
  PROVE  LET s == (IF p22 THEN PowerUp(k) ELSE << >>) \o << Access("probe", k) >> IN
         /\ s \in Seq(Accesses)
         /\ Leaves(s, k, c, {"answers"}, Items \ {"answers"})
<1> DEFINE u == IF p22 THEN PowerUp(k) ELSE << >>
           p == << Access("probe", k) >>
<1>1. u \in Seq(Accesses) /\ p \in Seq(Accesses)
  <2>1. << >> \in Seq(Accesses)
    OBVIOUS
  <2> QED BY <2>1, ConfigureTypes, SensorAccessTypes
<1>2. ASSUME NEW x \in Items \ {"answers"}
      PROVE  Quiet(u, k, x)
  <2>1. \A kept, high : ~Touches(Expander(k, kept, high), k, x)
    BY DEF Touches, Expander, Cuts
  <2> QED BY <2>1, ShortParts DEF PowerUp
<1>3. /\ Sets(Access("probe", k), k, "answers", "yes")
      /\ \A x \in Items \ {"answers"} : ~Touches(Access("probe", k), k, x)
  BY DEF Sets, Touches, Cuts, Access
<1>4. Leaves(u, k, c, {}, Items \ {"answers"})
  BY <1>2 DEF Leaves
<1>5. Wanted(c, "answers") = "yes"
  BY WantedIs
<1>6. Leaves(p, k, c, {"answers"}, Items \ {"answers"})
  BY <1>3, <1>5, ShortParts DEF Leaves
<1> HIDE DEF u, p
<1>7. Leaves(u \o p, k, c, {"answers"} \cup ({} \cap (Items \ {"answers"})),
             (Items \ {"answers"}) \cap (Items \ {"answers"}))
  BY <1>1, <1>4, <1>6, JoinedLeaves
<1>8. Leaves(u \o p, k, c, {"answers"}, Items \ {"answers"})
  BY <1>7 DEF Leaves
<1>9. u \o p \in Seq(Accesses)
  BY <1>1
<1> QED BY <1>8, <1>9 DEF u, p

(* The tables of a mode: the readout table comes second, for the 2x2       *)
(* binning overrides the bit depth.                                        *)
LEMMA TablesPart ==
  ASSUME NEW k \in Cameras, NEW c \in CameraConfigs
  PROVE  LET X == {"ADBIT", "MDBIT", "READOUT"} \cup ({"WINDOW"} \ NotWritten(c)) IN
         Leaves(Tables(k, kModes[c.mode]), k, c, X, Items \ X)
<1> DEFINE m == kModes[c.mode]
           depth == << Register(k, "ADBIT", m.format), Register(k, "MDBIT", m.format) >>
           readout == << Register(k, "READOUT", m.readout) >>
           binning == << Register(k, "ADBIT", "RAW10"), Register(k, "MDBIT", "RAW12") >>
           crop == << Register(k, "WINDOW", "crop") >>
           B == IF m.readout = "binning" THEN binning ELSE << >>
           C == IF m.readout = "crop" THEN crop ELSE << >>
           XB == IF m.readout = "binning" THEN {"ADBIT", "MDBIT"} ELSE {}
           XD == IF m.readout = "binning" THEN {"MDBIT"} ELSE {"ADBIT", "MDBIT"}
           XC == {"WINDOW"} \ NotWritten(c)
<1>1. /\ m.format \in Values /\ m.readout \in Values
      /\ {"RAW10", "RAW12", "crop"} \subseteq Values
      /\ {"ADBIT", "MDBIT", "READOUT", "WINDOW"} \subseteq Registers
      /\ {"ADBIT", "MDBIT", "READOUT", "WINDOW"} \subseteq Items
  BY Modes DEF Values, Registers, Items
<1>2. ASSUME NEW r \in Registers, NEW v \in Values
      PROVE  Register(k, r, v) \in Accesses
  BY SensorAccessTypes DEF Register, SensorAccesses
<1>3. /\ depth \in Seq(Accesses) /\ readout \in Seq(Accesses) /\ B \in Seq(Accesses)
      /\ C \in Seq(Accesses)
  <2>1. /\ \A a \in Accesses : << a >> \in Seq(Accesses)
        /\ \A a, b \in Accesses : << a, b >> \in Seq(Accesses)
        /\ << >> \in Seq(Accesses)
    OBVIOUS
  <2> QED BY <1>1, <1>2, <2>1
<1>4. /\ Wanted(c, "MDBIT") = m.format /\ Wanted(c, "READOUT") = m.readout
      /\ Wanted(c, "ADBIT") = (IF m.readout = "binning" THEN "RAW10" ELSE m.format)
      /\ m.readout = "binning" => m.format = "RAW12"
      /\ m.readout = "crop" => Wanted(c, "WINDOW") = "crop" /\ XC = {"WINDOW"}
      /\ m.readout # "crop" => XC = {}
  BY WantedIs, Modes DEF NotWritten
<1>5. \A s, t \in Seq(Accesses) : s \o t \in Seq(Accesses)
  OBVIOUS
<1> HIDE DEF m
<1>6. \A r \in Registers : \A v : /\ Sets(Register(k, r, v), k, r, v)
                                  /\ \A x \in Items : x # r => ~Touches(Register(k, r, v), k, x)
  BY RegisterWrite
<1>7. Leaves(depth, k, c, XD, Items \ {"ADBIT", "MDBIT"})
  <2>1. ASSUME NEW x \in XD
        PROVE  Ends(depth, k, x, Wanted(c, x))
    BY <1>1, <1>4, <1>6, ShortParts
  <2>2. ASSUME NEW x \in Items \ {"ADBIT", "MDBIT"}
        PROVE  Quiet(depth, k, x)
    BY <1>1, <1>6, ShortParts
  <2> QED BY <2>1, <2>2 DEF Leaves
<1>8. Leaves(readout, k, c, {"READOUT"}, Items \ {"READOUT"})
  BY <1>1, <1>4, <1>6, ShortParts DEF Leaves
<1>9. Leaves(B, k, c, XB, Items \ XB)
  <2>1. ASSUME NEW x \in XB
        PROVE  Ends(B, k, x, Wanted(c, x))
    BY <1>1, <1>4, <1>6, ShortParts
  <2>2. ASSUME NEW x \in Items \ XB
        PROVE  Quiet(B, k, x)
    BY <1>1, <1>6, ShortParts
  <2> QED BY <2>1, <2>2 DEF Leaves
<1>10. Leaves(C, k, c, XC, Items \ XC)
  BY <1>1, <1>4, <1>6, ShortParts DEF Leaves
<1> HIDE DEF depth, readout, B, C, XC
<1> DEFINE RB == {"READOUT"} \cup XB
           RBC == RB \cup XC
<1>11. Leaves(readout \o B, k, c, RB, Items \ RB) /\ readout \o B \in Seq(Accesses)
  <2>1. {"READOUT"} \subseteq Items
    BY <1>1
  <2>2. readout \o B \in Seq(Accesses)
    BY <1>3, <1>5
  <2> HIDE DEF XB
  <2>3. Leaves(readout \o B, k, c, RB, Items \ RB)
    BY <1>3, <1>8, <1>9, <2>1, JoinedSets
  <2> QED BY <2>2, <2>3
<1>12. RB \subseteq Items
  BY <1>1
<1> HIDE DEF RB
<1>13. /\ Leaves(readout \o B \o C, k, c, RBC, Items \ RBC)
       /\ readout \o B \o C \in Seq(Accesses)
  <2>1. readout \o B \o C \in Seq(Accesses)
    BY <1>3, <1>5
  <2>2. Leaves(readout \o B \o C, k, c, RBC, Items \ RBC)
    BY <1>3, <1>10, <1>11, <1>12, JoinedSets
  <2> QED BY <2>1, <2>2
<1> HIDE DEF RBC
<1> DEFINE X == {"ADBIT", "MDBIT", "READOUT"} \cup XC
<1>14. Leaves(depth \o (readout \o B \o C), k, c, RBC \cup (XD \cap (Items \ RBC)),
              (Items \ {"ADBIT", "MDBIT"}) \cap (Items \ RBC))
  BY <1>3, <1>7, <1>13, JoinedLeaves
<1>15. /\ X \subseteq RBC \cup (XD \cap (Items \ RBC))
       /\ Items \ X \subseteq (Items \ {"ADBIT", "MDBIT"}) \cap (Items \ RBC)
  <2>1. "ADBIT" \notin XC /\ "MDBIT" \notin XC
    BY DEF XC
  <2> QED BY <1>1, <2>1 DEF RBC, RB
<1>16. Leaves(depth \o (readout \o B \o C), k, c, X, Items \ X)
  BY <1>14, <1>15 DEF Leaves
<1>17. Tables(k, m) = depth \o (readout \o B \o C)
  BY DEF Tables, BitDepth, ReadoutTable, depth, readout, B, C
<1> QED BY <1>16, <1>17 DEF m, XC

(* configure() leaves every register as wanted that it writes, and the     *)
(* camera answering; the others it does not touch.                         *)
LEMMA ConfigurePart ==
  ASSUME NEW k \in Cameras, NEW c \in CameraConfigs, NEW p22 \in BOOLEAN
  PROVE  LET X == (Registers \ NotWritten(c)) \cup {"answers"} IN
         Leaves(Configure(k, c, p22), k, c, X, Items \ X)
<1> DEFINE probed == (IF p22 THEN PowerUp(k) ELSE << >>) \o << Access("probe", k) >>
           init == InitSettings(k)
           lanes == << Register(k, "LANEMODE", c.lanes) >>
           tables == Tables(k, kModes[c.mode])
           timing == << Register(k, "TIMING", c.mode) >>
           pattern == IF c.pattern = "on" THEN << Register(k, "TPG", "on") >> ELSE << >>
           XT == {"ADBIT", "MDBIT", "READOUT"} \cup ({"WINDOW"} \ NotWritten(c))
           XP == {"TPG"} \ NotWritten(c)
<1>1. /\ probed \in Seq(Accesses) /\ init \in Seq(Accesses) /\ lanes \in Seq(Accesses)
      /\ tables \in Seq(Accesses) /\ timing \in Seq(Accesses) /\ pattern \in Seq(Accesses)
  <2>1. << >> \in Seq(Accesses)
    OBVIOUS
  <2> QED BY <2>1, ProbedPart, ConfigureTypes, SensorAccessTypes
<1>2. \A s, t \in Seq(Accesses) : s \o t \in Seq(Accesses)
  OBVIOUS
<1>3. \A r \in Registers : \A v : /\ Sets(Register(k, r, v), k, r, v)
                              /\ \A x \in Items : x # r => ~Touches(Register(k, r, v), k, x)
  BY RegisterWrite
<1>4. /\ {"INIT", "LANEMODE", "TIMING", "TPG"} \subseteq Registers
      /\ {"answers", "INIT", "LANEMODE", "TIMING"} \subseteq Items
      /\ XT \subseteq Items
  BY DEF Registers, Items
<1>5. /\ Wanted(c, "INIT") = "vendor" /\ Wanted(c, "LANEMODE") = c.lanes
      /\ Wanted(c, "TIMING") = c.mode /\ Wanted(c, "TPG") = c.pattern
      /\ c.pattern = "on" => XP = {"TPG"}
      /\ c.pattern # "on" => XP = {}
  BY WantedIs DEF NotWritten
<1>6. Leaves(probed, k, c, {"answers"}, Items \ {"answers"})
  BY ProbedPart
<1>7. Leaves(init, k, c, {"INIT"}, Items \ {"INIT", "LANEMODE"})
  BY <1>3, <1>4, <1>5, ShortParts DEF Leaves, InitSettings
<1>8. Leaves(lanes, k, c, {"LANEMODE"}, Items \ {"LANEMODE"})
  BY <1>3, <1>4, <1>5, ShortParts DEF Leaves
<1>9. Leaves(tables, k, c, XT, Items \ XT)
  BY TablesPart
<1>10. Leaves(timing, k, c, {"TIMING"}, Items \ {"TIMING"})
  BY <1>3, <1>4, <1>5, ShortParts DEF Leaves
<1>11. Leaves(pattern, k, c, XP, Items \ XP)
  BY <1>3, <1>4, <1>5, ShortParts DEF Leaves
<1> DEFINE X1 == {"answers", "INIT", "LANEMODE"}
           X2 == X1 \cup XT
           X3 == X2 \cup {"TIMING"}
           X4 == X3 \cup XP
<1>12. Configure(k, c, p22) = probed \o init \o lanes \o tables \o timing \o pattern
  BY DEF Configure
<1>13. X4 = (Registers \ NotWritten(c)) \cup {"answers"}
  BY DEF Registers, NotWritten
<1>14. X1 \subseteq Items /\ X2 \subseteq Items /\ X3 \subseteq Items
  BY <1>4
<1> HIDE DEF probed, init, lanes, tables, timing, pattern, XT, XP
<1>15. /\ probed \o init \in Seq(Accesses) /\ probed \o init \o lanes \in Seq(Accesses)
       /\ probed \o init \o lanes \o tables \in Seq(Accesses)
       /\ probed \o init \o lanes \o tables \o timing \in Seq(Accesses)
  BY <1>1, <1>2
<1>16. Leaves(probed \o init \o lanes, k, c, X1, Items \ X1)
  <2>1. Leaves(probed \o init, k, c, {"INIT"} \cup ({"answers"} \cap (Items \ {"INIT", "LANEMODE"})),
               (Items \ {"answers"}) \cap (Items \ {"INIT", "LANEMODE"}))
    BY <1>1, <1>6, <1>7, JoinedLeaves
  <2>2. Leaves(probed \o init, k, c, {"INIT", "answers"}, Items \ {"answers", "INIT", "LANEMODE"})
    BY <2>1, <1>4 DEF Leaves
  <2>3. Leaves(probed \o init \o lanes, k, c,
               {"LANEMODE"} \cup ({"INIT", "answers"} \cap (Items \ {"LANEMODE"})),
               (Items \ {"answers", "INIT", "LANEMODE"}) \cap (Items \ {"LANEMODE"}))
    BY <1>1, <1>15, <1>8, <2>2, JoinedLeaves
  <2> QED BY <2>3, <1>4 DEF Leaves
<1> HIDE DEF X1
<1>17. Leaves(probed \o init \o lanes \o tables, k, c, X2, Items \ X2)
  BY <1>1, <1>9, <1>14, <1>15, <1>16, JoinedSets
<1> HIDE DEF X2
<1>18. Leaves(probed \o init \o lanes \o tables \o timing, k, c, X3, Items \ X3)
  BY <1>1, <1>10, <1>14, <1>15, <1>17, JoinedSets
<1> HIDE DEF X3
<1>19. Leaves(probed \o init \o lanes \o tables \o timing \o pattern, k, c, X4, Items \ X4)
  BY <1>1, <1>11, <1>14, <1>15, <1>18, JoinedSets
<1> HIDE DEF X4
<1> QED BY <1>12, <1>13, <1>19

(* The whole of what ConfigureSensors does for a camera: every item of it  *)
(* is set as wanted, but the clock, which is the board's.                  *)
LEMMA CameraPart ==
  ASSUME NEW k \in Cameras, NEW c \in CameraConfigs, NEW p22 \in BOOLEAN
  PROVE  Leaves(ConfigureCamera(k, c, p22), k, c, Items \ {"clock"}, {"clock"})
<1> DEFINE conf == ConfigurePort(k, c)
           cycle == PowerCycle(k)
           rest == Configure(k, c, p22)
           type == DataTypeFor(kModes[c.mode].format)
<1>1. conf \in Seq(Accesses) /\ cycle \in Seq(Accesses) /\ rest \in Seq(Accesses)
  <2>1. c.lanes \in Values /\ type \in Values
    BY Modes
  <2>2. /\ SetLanes(k, c.lanes) \in Accesses /\ SetDataType(k, type) \in Accesses
        /\ \A level \in BOOLEAN : CameraEnable(k, level) \in Accesses
    BY <2>1 DEF Accesses, BoardAccesses, SetLanes, SetDataType, CameraEnable
  <2>3. TRUE \in BOOLEAN /\ FALSE \in BOOLEAN
    OBVIOUS
  <2>4. \A a, b \in Accesses : << a, b >> \in Seq(Accesses)
    OBVIOUS
  <2>5. conf \in Seq(Accesses) /\ cycle \in Seq(Accesses)
    BY <2>2, <2>3, <2>4 DEF ConfigurePort, PowerCycle
  <2> QED BY <2>5, ConfigureTypes, SensorAccessTypes
<1>2. Leaves(conf, k, c, {"lanes", "type"}, Items \ {"lanes", "type"})
  <2>1. /\ Sets(SetLanes(k, c.lanes), k, "lanes", c.lanes)
        /\ Sets(SetDataType(k, type), k, "type", type)
        /\ \A x \in Items : x # "lanes" => ~Touches(SetLanes(k, c.lanes), k, x)
        /\ \A x \in Items : x # "type" => ~Touches(SetDataType(k, type), k, x)
    BY DEF Sets, Touches, Cuts, SetLanes, SetDataType
  <2>2. Wanted(c, "lanes") = c.lanes /\ Wanted(c, "type") = type
    BY WantedIs
  <2>3. "lanes" \in Items /\ "type" \in Items
    BY DEF Items
  <2> QED BY <2>1, <2>2, <2>3, ShortParts DEF Leaves, ConfigurePort
<1>3. Leaves(cycle, k, c, NotWritten(c), {"clock", "lanes", "type"})
  <2>1. /\ \A x \in Registers : Sets(CameraEnable(k, FALSE), k, x, PowerOn[x])
        /\ \A x \in Registers : ~Touches(CameraEnable(k, TRUE), k, x)
    BY DEF Sets, Touches, Cuts, CameraEnable, Registers
  <2>2. \A x \in {"clock", "lanes", "type"} : \A level \in BOOLEAN :
          ~Touches(CameraEnable(k, level), k, x)
    BY DEF Touches, Cuts, CameraEnable, Registers
  <2>3. \A x \in NotWritten(c) : x \in Registers /\ Wanted(c, x) = PowerOn[x]
    BY WantedIs
  <2> QED BY <2>1, <2>2, <2>3, ShortParts DEF Leaves, PowerCycle
<1> DEFINE X == (Registers \ NotWritten(c)) \cup {"answers"}
<1>4. Leaves(rest, k, c, X, Items \ X)
  BY ConfigurePart
<1>5. NotWritten(c) \subseteq Registers
  BY WantedIs
<1>6. conf \o cycle \in Seq(Accesses)
  BY <1>1
<1> HIDE DEF conf, cycle, rest
<1>7. Leaves(conf \o cycle, k, c,
             NotWritten(c) \cup ({"lanes", "type"} \cap {"clock", "lanes", "type"}),
             (Items \ {"lanes", "type"}) \cap {"clock", "lanes", "type"})
  BY <1>1, <1>2, <1>3, JoinedLeaves
<1>8. Leaves(conf \o cycle, k, c, NotWritten(c) \cup {"lanes", "type"}, {"clock"})
  BY <1>7 DEF Leaves, Items
<1>9. Leaves(conf \o cycle \o rest, k, c,
             X \cup ((NotWritten(c) \cup {"lanes", "type"}) \cap (Items \ X)),
             {"clock"} \cap (Items \ X))
  BY <1>1, <1>4, <1>6, <1>8, JoinedLeaves
<1>10. /\ Items \ {"clock"} \subseteq X \cup ((NotWritten(c) \cup {"lanes", "type"}) \cap (Items \ X))
       /\ {"clock"} \subseteq {"clock"} \cap (Items \ X)
  BY <1>5 DEF Items, Registers
<1>11. Leaves(conf \o cycle \o rest, k, c, Items \ {"clock"}, {"clock"})
  BY <1>9, <1>10 DEF Leaves
<1> QED BY <1>11 DEF ConfigureCamera, conf, cycle, rest
-----------------------------------------------------------------------------
(* The accesses to one camera and its port.                                *)
PortAccesses(k) ==
  [kind : {"gpio"}, camera : {k}, level : BOOLEAN]
  \cup [kind : {"lanes"}, camera : {k}, lanes : Values]
  \cup [kind : {"data type"}, camera : {k}, type : Values]

(* They touch nothing of another camera, nor the clock.                    *)
LEMMA OthersQuiet ==
  ASSUME NEW k \in Cameras, NEW q \in Cameras, NEW x \in Items, q # k \/ x = "clock",
         NEW s \in Seq(PortAccesses(k) \cup SensorAccesses(k))
  PROVE  Quiet(s, q, x)
<1>1. ASSUME NEW a \in PortAccesses(k) \cup SensorAccesses(k)
      PROVE  ~Touches(a, q, x)
  <2>1. a.camera = k /\ a.kind \in {"gpio", "lanes", "data type", "p22", "probe", "register"}
        /\ (a.kind = "register" => a.register \in Registers)
    BY DEF PortAccesses, SensorAccesses
  <2> QED BY <2>1 DEF Touches, Cuts, Registers
<1>2. \A i \in 1..Len(s) : s[i] \in PortAccesses(k) \cup SensorAccesses(k)
  BY ElementOfSeq
<1> QED BY <1>1, <1>2 DEF Quiet

(* What may be written before the sensor's registers are.                  *)
PlainAccesses ==
  [kind : {"setup clock"}] \cup UNION {PortAccesses(k) : k \in Cameras}

(* A script that cuts the power of k and then configures it is guarded.    *)
Guarded(s) ==
  \A i \in 1..Len(s) :
    /\ s[i].kind # "raw register"
    /\ s[i].kind = "register" => \E j \in 1..i-1 : Cuts(s[j], s[i].camera)

LEMMA GuardedScript ==
  ASSUME NEW k \in Cameras, NEW s \in Seq(PlainAccesses), NEW t \in Seq(SensorAccesses(k)),
         NEW n \in 1..Len(s), Cuts(s[n], k)
  PROVE  s \o t \in Seq(Accesses) /\ Guarded(s \o t)
<1>1. /\ PlainAccesses \subseteq Accesses
      /\ \A a \in PlainAccesses : a.kind \in {"setup clock", "gpio", "lanes", "data type"}
  <2>1. ASSUME NEW q \in Cameras, NEW a \in PortAccesses(q)
        PROVE  a \in BoardAccesses /\ a.kind \in {"gpio", "lanes", "data type"}
    BY DEF PortAccesses, BoardAccesses
  <2>2. ASSUME NEW a \in [kind : {"setup clock"}]
        PROVE  a \in BoardAccesses /\ a.kind = "setup clock"
    BY DEF BoardAccesses
  <2> QED BY <2>1, <2>2 DEF PlainAccesses, Accesses
<1>2. SensorAccesses(k) \subseteq Accesses
  BY SensorAccessTypes
<1>3. s \in Seq(Accesses) /\ t \in Seq(Accesses)
  BY <1>1, <1>2, SeqMonotonic
<1>4. \A a \in SensorAccesses(k) : a.kind \in {"p22", "probe", "register"} /\ a.camera = k
  BY DEF SensorAccesses
<1> DEFINE u == s \o t
<1>5. /\ Len(u) = Len(s) + Len(t) /\ Len(s) \in Nat /\ Len(t) \in Nat
      /\ \A i \in 1..Len(s) : u[i] = s[i] /\ s[i] \in PlainAccesses
      /\ \A i \in Len(s) + 1..Len(u) : u[i] = t[i - Len(s)] /\ t[i - Len(s)] \in SensorAccesses(k)
  BY <1>3, ConcatProperties, ElementOfSeq, LenProperties
<1> HIDE DEF u
<1>6. ASSUME NEW i \in 1..Len(u)
      PROVE  /\ u[i].kind # "raw register"
             /\ u[i].kind = "register" => \E j \in 1..i-1 : Cuts(u[j], u[i].camera)
  <2>1. CASE i \in 1..Len(s)
    BY <1>1, <1>5, <2>1
  <2>2. CASE i \in Len(s) + 1..Len(u)
    <3>1. u[i].kind \in {"p22", "probe", "register"} /\ u[i].camera = k
      BY <1>4, <1>5, <2>2
    <3>2. n \in 1..i - 1 /\ u[n] = s[n]
      BY <1>5, <2>2
    <3> QED BY <3>1, <3>2
  <2>3. i \in 1..Len(s) \/ i \in Len(s) + 1..Len(u)
    BY <1>5
  <2> QED BY <2>1, <2>2, <2>3
<1>7. Guarded(u)
  BY <1>6 DEF Guarded
<1>8. s \o t \in Seq(Accesses)
  BY <1>3
<1> QED BY <1>7, <1>8 DEF u

(* The script of a camera.                                                 *)
LEMMA CameraScript ==
  ASSUME NEW k \in Cameras, NEW c \in CameraConfigs, NEW p22 \in BOOLEAN
  PROVE  LET s == ConfigureCamera(k, c, p22) IN
         /\ s \in Seq(Accesses) /\ Guarded(s)
         /\ s \in Seq(PortAccesses(k) \cup SensorAccesses(k))
<1> DEFINE conf == ConfigurePort(k, c)
           cycle == PowerCycle(k)
           rest == Configure(k, c, p22)
<1>1. /\ conf \in Seq(PortAccesses(k)) /\ cycle \in Seq(PortAccesses(k))
      /\ Len(conf) = 2 /\ Len(cycle) = 2 /\ Cuts(cycle[1], k)
  <2>1. c.lanes \in Values /\ DataTypeFor(kModes[c.mode].format) \in Values
    BY Modes
  <2>2. /\ SetLanes(k, c.lanes) \in PortAccesses(k)
        /\ SetDataType(k, DataTypeFor(kModes[c.mode].format)) \in PortAccesses(k)
        /\ CameraEnable(k, TRUE) \in PortAccesses(k) /\ CameraEnable(k, FALSE) \in PortAccesses(k)
        /\ Cuts(CameraEnable(k, FALSE), k)
    BY <2>1 DEF PortAccesses, SetLanes, SetDataType, CameraEnable, Cuts
  <2>3. \A a, b \in PortAccesses(k) : /\ << a, b >> \in Seq(PortAccesses(k))
                                      /\ Len(<< a, b >>) = 2 /\ << a, b >>[1] = a
    OBVIOUS
  <2> QED BY <2>2, <2>3 DEF ConfigurePort, PowerCycle
<1>2. rest \in Seq(SensorAccesses(k))
  BY ConfigureTypes
<1>3. PortAccesses(k) \subseteq PlainAccesses
  BY DEF PlainAccesses
<1> HIDE DEF conf, cycle, rest
<1>4. conf \o cycle \in Seq(PortAccesses(k)) /\ 3 \in 1..Len(conf \o cycle) /\ Cuts((conf \o cycle)[3], k)
  <2>1. conf \o cycle \in Seq(PortAccesses(k))
    BY <1>1
  <2>2. /\ Len(conf \o cycle) = Len(conf) + Len(cycle)
        /\ \A i \in 1..Len(conf) + Len(cycle) :
             (conf \o cycle)[i] = IF i <= Len(conf) THEN conf[i] ELSE cycle[i - Len(conf)]
    BY <1>1, ConcatProperties
  <2>3. Len(conf \o cycle) = 4 /\ (conf \o cycle)[3] = cycle[1]
    BY <1>1, <2>2
  <2> QED BY <2>1, <2>3, <1>1
<1>5. conf \o cycle \in Seq(PlainAccesses)
  BY <1>3, <1>4, SeqMonotonic
<1>6. conf \o cycle \o rest \in Seq(Accesses) /\ Guarded(conf \o cycle \o rest)
  BY <1>2, <1>4, <1>5, GuardedScript
<1>7. conf \o cycle \o rest \in Seq(PortAccesses(k) \cup SensorAccesses(k))
  <2> DEFINE U == PortAccesses(k) \cup SensorAccesses(k)
  <2>1. conf \o cycle \in Seq(U) /\ rest \in Seq(U)
    BY <1>2, <1>4, SeqMonotonic
  <2> HIDE DEF U
  <2>2. conf \o cycle \o rest \in Seq(U)
    BY <2>1
  <2> QED BY <2>2 DEF U
<1> QED BY <1>6, <1>7 DEF ConfigureCamera, conf, cycle, rest

(* What neither probes nor writes a sensor.                                *)
QuietAccesses ==
  [kind : {"reset"}] \cup PlainAccesses
  \cup [kind : {"p22"}, camera : Cameras, kept : SUBSET Outputs, high : SUBSET Outputs]

LEMMA QuietScript ==
  ASSUME NEW s \in Seq(QuietAccesses)
  PROVE  s \in Seq(Accesses) /\ Guarded(s)
<1>1. ASSUME NEW a \in QuietAccesses
      PROVE  a \in Accesses /\ a.kind \notin {"register", "raw register"}
  <2>1. ASSUME NEW k \in Cameras, a \in PortAccesses(k)
        PROVE  a \in BoardAccesses /\ a.kind \in {"gpio", "lanes", "data type"}
    BY <2>1 DEF PortAccesses, BoardAccesses
  <2>2. ASSUME a \in [kind : {"reset"}] \cup [kind : {"setup clock"}]
        PROVE  a \in BoardAccesses /\ a.kind \in {"reset", "setup clock"}
    BY <2>2 DEF BoardAccesses
  <2>3. ASSUME a \in [kind : {"p22"}, camera : Cameras, kept : SUBSET Outputs, high : SUBSET Outputs]
        PROVE  a.camera \in Cameras /\ a \in SensorAccesses(a.camera) /\ a.kind = "p22"
    BY <2>3 DEF SensorAccesses
  <2> QED BY <2>1, <2>2, <2>3 DEF QuietAccesses, PlainAccesses, Accesses
<1>2. QuietAccesses \subseteq Accesses
  BY <1>1
<1>3. s \in Seq(Accesses)
  BY <1>2, SeqMonotonic
<1>4. \A i \in 1..Len(s) : s[i] \in QuietAccesses
  BY ElementOfSeq
<1> QED BY <1>1, <1>3, <1>4 DEF Guarded

(* A command of hsbctl is guarded, or a single register written by hand.   *)
LEMMA CommandScript ==
  ASSUME NEW c \in Commands
  PROVE  /\ Command(c) \in Seq(Accesses)
         /\ Guarded(Command(c)) \/ (Len(Command(c)) = 1 /\ Command(c)[1].kind = "raw register")
<1> DEFINE k == c.camera
           clk == << [kind |-> "setup clock"] >>
<1>1. /\ k \in Cameras
      /\ c.name \in {"reset", "setup-clock", "lanes", "dt", "gpio", "i2c", "wr",
                     "power-up", "power-down", "configure"}
      /\ c.name = "gpio" => c.level \in BOOLEAN
      /\ c.name = "i2c" => c.high \subseteq Outputs
      /\ c.name = "configure" => c.config \in CameraConfigs
  BY RigAssumption
<1>2. /\ c.name = "lanes" => c.lanes \in Values
      /\ c.name = "dt" => c.type \in Values
      /\ c.name = "wr" => c.register \in Values /\ c.value \in Values
  BY DEF Values, CommandValues
<1>3. PortAccesses(k) \subseteq PlainAccesses /\ PlainAccesses \subseteq QuietAccesses
      /\ [kind : {"p22"}, camera : {k}, kept : SUBSET Outputs, high : SUBSET Outputs]
           \subseteq QuietAccesses
  BY <1>1 DEF PlainAccesses, QuietAccesses
<1>4. \A level \in BOOLEAN : CameraEnable(k, level) \in PortAccesses(k)
  BY DEF CameraEnable, PortAccesses
<1>5. \A kept, high \in SUBSET Outputs : Expander(k, kept, high) \in QuietAccesses
  BY <1>1 DEF Expander, QuietAccesses
<1>6. [kind |-> "setup clock"] \in PlainAccesses /\ [kind |-> "reset"] \in QuietAccesses
  BY DEF PlainAccesses, QuietAccesses
<1>7. \A A : \A a, b, d \in A :
        << a >> \in Seq(A) /\ << a, b >> \in Seq(A) /\ << a, b, d >> \in Seq(A)
  OBVIOUS
<1>8. \A A : \A s, t \in Seq(A) : s \o t \in Seq(A)
  OBVIOUS
<1>9. CASE c.name = "reset"
  BY <1>6, <1>7, <1>9, QuietScript DEF Command
<1>10. CASE c.name = "setup-clock"
  BY <1>3, <1>6, <1>7, <1>10, QuietScript DEF Command
<1>11. CASE c.name = "lanes"
  <2>1. SetLanes(k, c.lanes) \in QuietAccesses
    BY <1>2, <1>3, <1>11 DEF SetLanes, PortAccesses
  <2>2. << SetLanes(k, c.lanes) >> \in Seq(QuietAccesses)
    BY <2>1, <1>7
  <2>3. Command(c) = << SetLanes(k, c.lanes) >>
    BY <1>11 DEF Command
  <2> QED BY <2>2, <2>3, QuietScript
<1>12. CASE c.name = "dt"
  <2>1. SetDataType(k, c.type) \in QuietAccesses
    BY <1>2, <1>3, <1>12 DEF SetDataType, PortAccesses
  <2>2. << SetDataType(k, c.type) >> \in Seq(QuietAccesses)
    BY <2>1, <1>7
  <2>3. Command(c) = << SetDataType(k, c.type) >>
    BY <1>12 DEF Command
  <2> QED BY <2>2, <2>3, QuietScript
<1>13. CASE c.name = "gpio"
  <2>1. CameraEnable(k, c.level) \in QuietAccesses
    BY <1>1, <1>3, <1>4, <1>13
  <2>2. << CameraEnable(k, c.level) >> \in Seq(QuietAccesses)
    BY <2>1, <1>7
  <2>3. Command(c) = << CameraEnable(k, c.level) >>
    BY <1>13 DEF Command
  <2> QED BY <2>2, <2>3, QuietScript
<1>14. CASE c.name = "i2c"
  <2>1. Expander(k, {}, c.high) \in QuietAccesses
    BY <1>1, <1>5, <1>14
  <2>2. << Expander(k, {}, c.high) >> \in Seq(QuietAccesses)
    BY <2>1, <1>7
  <2>3. Command(c) = << Expander(k, {}, c.high) >>
    BY <1>14 DEF Command
  <2> QED BY <2>2, <2>3, QuietScript
<1>15. CASE c.name = "wr"
  <2> DEFINE a == RawRegister(k, c.register, c.value)
  <2>1. a \in RawAccesses /\ a.kind = "raw register"
    BY <1>1, <1>2, <1>15 DEF RawAccesses, RawRegister
  <2>2. RawAccesses \subseteq Accesses
    BY DEF Accesses
  <2>3. Command(c) = << a >>
    BY <1>15 DEF Command
  <2> HIDE DEF a
  <2>4. << a >> \in Seq(Accesses) /\ Len(<< a >>) = 1 /\ << a >>[1] = a
    BY <2>1, <2>2, <1>7
  <2> QED BY <2>1, <2>3, <2>4
<1>16. CASE c.name = "power-up"
  <2>1. clk \in Seq(QuietAccesses)
    BY <1>3, <1>6, <1>7
  <2>2. PowerCycle(k) \in Seq(QuietAccesses)
    BY <1>3, <1>4, <1>7 DEF PowerCycle
  <2>3. PowerUp(k) \in Seq(QuietAccesses)
    <3>1. {} \in SUBSET Outputs /\ {"PW_EN"} \in SUBSET Outputs /\ {"PW_EN", "RST"} \in SUBSET Outputs
      BY DEF Outputs
    <3> QED BY <3>1, <1>5, <1>7 DEF PowerUp
  <2>4. Command(c) = clk \o PowerCycle(k) \o PowerUp(k)
    BY <1>16 DEF Command
  <2> HIDE DEF clk
  <2>5. Command(c) \in Seq(QuietAccesses)
    BY <1>8, <2>1, <2>2, <2>3, <2>4
  <2> QED BY <2>5, QuietScript
<1>17. CASE c.name = "power-down"
  <2>1. {} \in SUBSET Outputs /\ Outputs \ {"RST"} \in SUBSET Outputs /\ {"TENABLE"} \in SUBSET Outputs
    BY DEF Outputs
  <2>2. PowerDown(k) \in Seq(QuietAccesses)
    BY <2>1, <1>5, <1>7 DEF PowerDown
  <2>3. Command(c) = PowerDown(k)
    BY <1>17 DEF Command
  <2> QED BY <2>2, <2>3, QuietScript
<1>18. CASE c.name = "configure"
  <2> DEFINE conf == ConfigurePort(k, c.config)
             s == conf \o clk \o PowerCycle(k)
             t == Configure(k, c.config, TRUE)
  <2>1. c.config \in CameraConfigs /\ TRUE \in BOOLEAN /\ FALSE \in BOOLEAN
    BY <1>1, <1>18
  <2>2. c.config.lanes \in Values /\ DataTypeFor(kModes[c.config.mode].format) \in Values
    BY <2>1, Modes
  <2>3. conf \in Seq(PlainAccesses) /\ Len(conf) = 2
    <3>1. /\ SetLanes(k, c.config.lanes) \in PlainAccesses
          /\ SetDataType(k, DataTypeFor(kModes[c.config.mode].format)) \in PlainAccesses
      BY <2>2, <1>3 DEF SetLanes, SetDataType, PortAccesses
    <3> QED BY <3>1, <1>7 DEF ConfigurePort
  <2>4. clk \in Seq(PlainAccesses) /\ Len(clk) = 1
    BY <1>6, <1>7
  <2>5. PowerCycle(k) \in Seq(PlainAccesses) /\ Len(PowerCycle(k)) = 2
        /\ Cuts(PowerCycle(k)[1], k)
    BY <2>1, <1>3, <1>4, <1>7 DEF PowerCycle, CameraEnable, Cuts
  <2>6. t \in Seq(SensorAccesses(k))
    BY <1>1, <2>1, ConfigureTypes
  <2>7. Command(c) = s \o t
    BY <1>18 DEF Command
  <2> HIDE DEF conf, clk, t
  <2>8. conf \o clk \in Seq(PlainAccesses) /\ Len(conf \o clk) = 3
    <3>1. conf \o clk \in Seq(PlainAccesses) /\ Len(conf \o clk) = Len(conf) + Len(clk)
      BY <2>3, <2>4, ConcatProperties
    <3> QED BY <3>1, <2>3, <2>4
  <2>9. /\ s \in Seq(PlainAccesses) /\ Len(s) = Len(conf \o clk) + Len(PowerCycle(k))
        /\ \A i \in 1..Len(conf \o clk) + Len(PowerCycle(k)) :
             s[i] = IF i <= Len(conf \o clk) THEN (conf \o clk)[i]
                                            ELSE PowerCycle(k)[i - Len(conf \o clk)]
    BY <2>5, <2>8, ConcatProperties
  <2>10. 4 \in 1..Len(s) /\ s[4] = PowerCycle(k)[1]
    BY <2>5, <2>8, <2>9
  <2> HIDE DEF s
  <2>11. s \o t \in Seq(Accesses) /\ Guarded(s \o t)
    BY <1>1, <2>5, <2>6, <2>9, <2>10, GuardedScript
  <2> QED BY <2>7, <2>11
<1> QED BY <1>1, <1>9, <1>10, <1>11, <1>12, <1>13, <1>14, <1>15, <1>16, <1>17, <1>18
-----------------------------------------------------------------------------
(* The initial state: nothing runs, nothing is to be done.                 *)
LEMMA InitInv == Init => IInv
<1> SUFFICES ASSUME Init PROVE IInv
  OBVIOUS
<1>1. DOMAIN rig = {} /\ rig \in [DOMAIN rig -> CameraConfigs]
  BY DEF Init, NoRig
<1>2. \A k \in Cameras : port[k] = BoardDefaults /\ regs[k] = PowerOn /\ pins[k] \in SUBSET Outputs
  BY DEF Init, Outputs
<1>3. TypeOK
  BY <1>1, <1>2 DEF Init, TypeOK, BoardDefaults
<1>4. ScriptInv
  BY DEF Init, ScriptInv
<1>5. SettledInv /\ PhaseInv
  BY <1>1 DEF Init, SettledInv, PhaseInv
<1>6. DeviceInv /\ CleanInv
  BY DEF Init, DeviceInv, CleanInv
<1> QED BY <1>3, <1>4, <1>5, <1>6 DEF IInv

(* An access keeps the types of the hardware's state.                      *)
HardwareOK ==
  /\ clock \in BOOLEAN
  /\ camEn \in [Cameras -> BOOLEAN]
  /\ pins \in [Cameras -> SUBSET Outputs]
  /\ DOMAIN port = Cameras /\ DOMAIN regs = Cameras
  /\ \A k \in Cameras : DOMAIN port[k] = {"lanes", "type"} /\ DOMAIN regs[k] = DOMAIN PowerOn

LEMMA AccessKeepsType ==
  ASSUME HardwareOK, NEW a, Perform(a),
         a.kind = "gpio" => a.level \in BOOLEAN, a.kind = "p22" => a.high \subseteq Outputs
  PROVE  HardwareOK'
<1> USE DEF HardwareOK
<1>1. CASE Reset(a)
  BY <1>1 DEF Reset, BoardDefaults
<1>2. CASE SetupClock(a)
  BY <1>2 DEF SetupClock
<1>3. CASE DriveGpio(a)
  BY <1>3 DEF DriveGpio
<1>4. CASE WriteLanes(a)
  BY <1>4 DEF WriteLanes
<1>5. CASE WriteDataType(a)
  BY <1>5 DEF WriteDataType
<1>6. CASE WriteExpander(a)
  BY <1>6 DEF WriteExpander
<1>7. CASE Probe(a)
  BY <1>7 DEF Probe, hardware
<1>8. CASE WriteRegister(a)
  BY <1>8 DEF WriteRegister
<1> QED BY <1>1, <1>2, <1>3, <1>4, <1>5, <1>6, <1>7, <1>8 DEF Perform

(* What the accesses' sets say of their members.                           *)
LEMMA AccessFacts ==
  ASSUME NEW a \in Accesses
  PROVE  /\ a.kind = "gpio" => a.level \in BOOLEAN
         /\ a.kind = "p22" => a.high \subseteq Outputs
         /\ a.kind = "register" => a.camera \in Cameras /\ a.register \in Registers
<1>1. CASE a \in BoardAccesses
  BY <1>1 DEF BoardAccesses
<1>2. ASSUME NEW k \in Cameras, a \in SensorAccesses(k)
      PROVE  /\ a.kind \in {"p22", "probe", "register"}
             /\ a.kind = "p22" => a.high \subseteq Outputs
             /\ a.kind = "register" => a.camera = k /\ a.register \in Registers
  BY <1>2 DEF SensorAccesses
<1>3. CASE a \in RawAccesses
  BY <1>3 DEF RawAccesses
<1>4. \/ a \in BoardAccesses
      \/ \E k \in Cameras : a \in SensorAccesses(k)
      \/ a \in RawAccesses
  BY DEF Accesses
<1> QED BY <1>1, <1>2, <1>3, <1>4

(* A sensor leaves standby only by a start sequence or a hand's write, and *)
(* is in standby once its power was cut or the board was reset.            *)
LEMMA Standby ==
  ASSUME TypeOK, NEW a \in Accesses, Perform(a), NEW k \in Cameras
  PROVE  /\ a.kind # "raw register" /\ regs[k].STANDBY = "1" => regs'[k].STANDBY = "1"
         /\ Cuts(a, k) \/ a.kind = "reset" => regs'[k].STANDBY = "1"
<1>1. PowerOn.STANDBY = "1" /\ "STANDBY" \in DOMAIN PowerOn
  BY DEF PowerOn
<1>2. a.kind = "register" => a.camera \in Cameras /\ a.register \in Registers
  BY AccessFacts
<1> USE DEF Cuts
<1>3. CASE Reset(a)
  BY <1>1, <1>3 DEF Reset
<1>4. CASE SetupClock(a) \/ WriteLanes(a) \/ WriteDataType(a) \/ WriteExpander(a) \/ Probe(a)
  BY <1>4 DEF SetupClock, WriteLanes, WriteDataType, WriteExpander, Probe, hardware
<1>5. CASE DriveGpio(a)
  BY <1>1, <1>5 DEF DriveGpio, TypeOK
<1>6. CASE WriteRegister(a)
  <2>1. /\ a.kind \in {"register", "raw register"}
        /\ regs' = [regs EXCEPT ![a.camera][a.register] = a.value]
    BY <1>6 DEF WriteRegister
  <2>2. a.kind = "register" => a.register # "STANDBY"
    BY <1>2 DEF Registers
  <2>3. a.kind = "register" => regs'[k].STANDBY = regs[k].STANDBY
    BY <2>1, <2>2, <1>1 DEF TypeOK
  <2> QED BY <2>1, <2>3
<1> QED BY <1>3, <1>4, <1>5, <1>6 DEF Perform

(* Nothing to be done: settled means held.                                 *)
LEMMA NothingToDo ==
  ASSUME script = << >>, NEW k, NEW x, NEW v
  PROVE  Settled(k, x, v) <=> Holds(k, x) = v
  BY DEF Settled, Ends, Quiet

(* A step that leaves the hardware and the script keeps what is settled.   *)
LEMMA SettledUnchanged ==
  ASSUME SettledInv, UNCHANGED <<hardware, rig, todo, script>>
  PROVE  SettledInv'
<1>1. ASSUME NEW k, NEW x
      PROVE  Holds(k, x)' = Holds(k, x)
  BY DEF Holds, Answers, hardware
<1>2. ASSUME NEW k, NEW x, NEW v, Settled(k, x, v)
      PROVE  Settled(k, x, v)'
  BY <1>1, <1>2 DEF Settled
<1> QED BY <1>2 DEF SettledInv
-----------------------------------------------------------------------------
(* The steps, one lemma each.                                              *)

(* The main thread makes its next access.                                  *)
LEMMA MainStepKeeps ==
  ASSUME IInv, MainStep
  PROVE  IInv'
<1> DEFINE a == Head(script)
           n == Len(script)
<1>1. /\ TypeOK /\ ScriptInv /\ SettledInv /\ PhaseInv /\ DeviceInv /\ CleanInv
  BY DEF IInv
<1>2. /\ phase = "setup" /\ script # << >> /\ Perform(a) /\ script' = Tail(script)
      /\ clean' = (clean \/ a.kind = "reset")
      /\ UNCHANGED <<phase, rig, adapter, todo, receiver, device, ticking, stopping>>
  BY DEF MainStep
<1>3. /\ a \in Accesses /\ a = script[1] /\ n \in Nat /\ n > 0
      /\ script \in Seq(Accesses) /\ script' \in Seq(Accesses) /\ Len(script') = n - 1
      /\ \A i \in 1..n - 1 : script'[i] = script[i + 1] /\ script[i + 1] \in Accesses
  <2>1. script \in Seq(Accesses) /\ script # << >> /\ script' = Tail(script)
    BY <1>1, <1>2 DEF ScriptInv
  <2>2. \A i \in 1..Len(script) : script[i] \in Accesses
    BY <2>1, ElementOfSeq
  <2>3. n \in Nat /\ n > 0 /\ a = script[1]
    BY <2>1
  <2>4. /\ script' \in Seq(Accesses) /\ Len(script') = n - 1
        /\ \A i \in 1..n - 1 : script'[i] = script[i + 1]
    BY <2>1, HeadTailProperties
  <2> QED BY <2>1, <2>2, <2>3, <2>4
<1>4. \A k \in Cameras :
        /\ a.kind # "raw register" /\ regs[k].STANDBY = "1" => regs'[k].STANDBY = "1"
        /\ Cuts(a, k) \/ a.kind = "reset" => regs'[k].STANDBY = "1"
  BY <1>1, <1>2, <1>3, Standby
<1> HIDE DEF a, n
<1>5. TypeOK'
  <2>1. HardwareOK'
    BY <1>1, <1>2, <1>3, AccessKeepsType, AccessFacts DEF HardwareOK, TypeOK
  <2>2. clean' \in BOOLEAN
    BY <1>1, <1>2 DEF TypeOK
  <2> QED BY <1>1, <1>2, <2>1, <2>2 DEF TypeOK, HardwareOK
<1>6. a.kind = "raw register" => n = 1 /\ ~clean
  <2>1. 1 \in 1..Len(script)
    BY <1>3 DEF n
  <2> QED BY <1>1, <1>3, <2>1 DEF ScriptInv, n
<1>7. ScriptInv'
  <2> SUFFICES ASSUME NEW i \in 1..n - 1
               PROVE  /\ script'[i].kind # "raw register"
                      /\ script'[i].kind = "register" =>
                           \/ regs'[script'[i].camera].STANDBY = "1"
                           \/ \E j \in 1..i-1 : Cuts(script'[j], script'[i].camera)
    BY <1>3 DEF ScriptInv
  <2>1. i + 1 \in 1..Len(script) /\ i + 1 # 1 /\ script'[i] = script[i + 1] /\ n # 1
    BY <1>3 DEF n
  <2>2. script'[i].kind # "raw register"
    BY <1>1, <2>1 DEF ScriptInv
  <2>3. ASSUME script'[i].kind = "register"
        PROVE  \/ regs'[script'[i].camera].STANDBY = "1"
               \/ \E j \in 1..i-1 : Cuts(script'[j], script'[i].camera)
    <3> DEFINE k == script'[i].camera
    <3>1. k \in Cameras
      BY <1>3, <2>3, AccessFacts
    <3>2. regs[k].STANDBY = "1" \/ \E j \in 1..i : Cuts(script[j], k)
      <4>1. (i + 1) - 1 = i /\ script[i + 1].kind = "register" /\ script[i + 1].camera = k
        BY <2>1, <2>3
      <4>2. \/ regs[script[i + 1].camera].STANDBY = "1"
            \/ \E j \in 1..(i + 1) - 1 : Cuts(script[j], script[i + 1].camera)
        BY <1>1, <2>1, <4>1 DEF ScriptInv
      <4> QED BY <4>1, <4>2
    <3> HIDE DEF k
    <3>3. CASE regs[k].STANDBY = "1"
      BY <1>4, <1>6, <2>1, <3>1, <3>3 DEF k
    <3>4. ASSUME NEW j \in 1..i, Cuts(script[j], k)
          PROVE  regs'[k].STANDBY = "1" \/ \E q \in 1..i-1 : Cuts(script'[q], k)
      <4>1. CASE j = 1
        BY <1>3, <1>4, <3>1, <3>4, <4>1
      <4>2. CASE j > 1
        <5>1. j - 1 \in 1..i - 1 /\ j - 1 \in 1..n - 1 /\ j - 1 + 1 = j
          BY <1>3, <4>2
        <5> QED BY <1>3, <3>4, <5>1
      <4> QED BY <4>1, <4>2
    <3> QED BY <3>2, <3>3, <3>4 DEF k
  <2> QED BY <2>2, <2>3
<1>8. SettledInv'
  <2> SUFFICES ASSUME NEW k \in DOMAIN rig, NEW x \in Items, k \notin todo \/ x = "clock"
               PROVE  Settled(k, x, Wanted(rig[k], x))'
    BY <1>2 DEF SettledInv
  <2>1. Settled(k, x, Wanted(rig[k], x)) /\ k \in Cameras
    BY <1>1 DEF SettledInv, TypeOK
  <2> DEFINE v == Wanted(rig[k], x)
  <2>2. v' = v
    BY <1>2
  <2> HIDE DEF v
  <2>3. Settled(k, x, v)
    BY <2>1 DEF v
  <2>4. \A w : Settled(k, x, w) => Settled(k, x, w)'
    BY <1>1, <1>2, <1>3, <2>1, StaysSettled DEF a
  <2> QED BY <2>2, <2>3, <2>4 DEF v
<1>9. PhaseInv' /\ DeviceInv'
  <2>1. \A k \in Cameras : receiver[k] = "off" /\ device[k] = << >>
    BY <1>1, <1>2 DEF PhaseInv, DeviceInv
  <2> QED BY <1>1, <1>2, <2>1 DEF PhaseInv, DeviceInv
<1>10. CleanInv'
  <2>1. \A k \in Cameras : receiver[k] = "off"
    BY <1>1, <1>2 DEF PhaseInv
  <2>2. CASE a.kind = "reset"
    BY <1>4, <2>2 DEF CleanInv
  <2>3. CASE a.kind # "reset" /\ clean
    <3>1. \A k \in Cameras : regs[k].STANDBY = "1"
      BY <1>1, <2>1, <2>3 DEF CleanInv
    <3> QED BY <1>4, <1>6, <2>3, <3>1 DEF CleanInv
  <2> QED BY <1>2, <2>2, <2>3 DEF CleanInv
<1> QED BY <1>5, <1>7, <1>8, <1>9, <1>10 DEF IInv

(* ConfigureSensors comes to the next camera.                              *)
LEMMA NextCameraKeeps ==
  ASSUME IInv, NextCamera
  PROVE  IInv'
<1>1. /\ TypeOK /\ ScriptInv /\ SettledInv /\ PhaseInv /\ DeviceInv /\ CleanInv
  BY DEF IInv
<1>2. PICK k \in todo : script' = ConfigureCamera(k, rig[k], adapter) /\ todo' = todo \ {k}
  BY DEF NextCamera
<1>3. /\ phase = "setup" /\ script = << >>
      /\ UNCHANGED <<hardware, phase, rig, adapter, receiver, device, ticking, stopping, clean>>
  BY DEF NextCamera
<1>4. k \in Cameras /\ k \in DOMAIN rig /\ rig[k] \in CameraConfigs /\ adapter \in BOOLEAN
  BY <1>1 DEF TypeOK
<1>5. /\ script' \in Seq(Accesses) /\ Guarded(script')
      /\ script' \in Seq(PortAccesses(k) \cup SensorAccesses(k))
      /\ Leaves(script', k, rig[k], Items \ {"clock"}, {"clock"})
  BY <1>2, <1>4, CameraScript, CameraPart
<1>6. TypeOK'
  BY <1>1, <1>2, <1>3 DEF TypeOK, hardware
<1>7. ScriptInv'
  BY <1>5 DEF ScriptInv, Guarded
<1>8. SettledInv'
  <2> SUFFICES ASSUME NEW q \in DOMAIN rig, NEW x \in Items, q \notin todo' \/ x = "clock"
               PROVE  Settled(q, x, Wanted(rig[q], x))'
    BY <1>3 DEF SettledInv
  <2>1. q \in Cameras
    BY <1>1 DEF TypeOK
  <2>2. Holds(q, x)' = Holds(q, x)
    BY <1>3 DEF Holds, Answers, hardware
  <2>3. CASE q = k /\ x # "clock"
    <3>1. Ends(script', q, x, Wanted(rig[q], x))
      BY <1>5, <2>3 DEF Leaves
    <3> QED BY <1>3, <3>1 DEF Settled
  <2>4. CASE ~(q = k /\ x # "clock")
    <3>1. Settled(q, x, Wanted(rig[q], x))
      BY <1>1, <1>2, <2>4 DEF SettledInv
    <3>2. Holds(q, x) = Wanted(rig[q], x)
      BY <1>3, <3>1, NothingToDo
    <3>3. Quiet(script', q, x)
      BY <1>4, <1>5, <2>1, <2>4, OthersQuiet
    <3> QED BY <1>3, <2>2, <3>2, <3>3 DEF Settled
  <2> QED BY <2>3, <2>4
<1>9. PhaseInv' /\ DeviceInv' /\ CleanInv'
  BY <1>1, <1>3 DEF PhaseInv, DeviceInv, CleanInv, hardware
<1> QED BY <1>6, <1>7, <1>8, <1>9 DEF IInv

(* A session begins: for a rig, the clock is all that is under way.        *)
LEMMA BeginKeeps ==
  ASSUME IInv, BeginRig \/ BeginCommand
  PROVE  IInv'
<1>1. /\ TypeOK /\ ScriptInv /\ SettledInv /\ PhaseInv /\ DeviceInv /\ CleanInv
  BY DEF IInv
<1>2. /\ phase = "idle" /\ phase' = "setup" /\ clean' = FALSE
      /\ UNCHANGED <<hardware, receiver, device, ticking>>
      /\ stopping' \in BOOLEAN
  BY <1>1 DEF BeginRig, BeginCommand, TypeOK
<1>3. \A k \in Cameras : receiver[k] = "off" /\ device[k] = << >>
  BY <1>1, <1>2 DEF PhaseInv, DeviceInv
<1>4. DOMAIN rig = {} /\ todo = {} /\ ticking = {}
  BY <1>1, <1>2 DEF PhaseInv, TypeOK
<1>5. PhaseInv' /\ DeviceInv' /\ CleanInv'
  BY <1>1, <1>2, <1>3 DEF PhaseInv, DeviceInv, CleanInv, hardware
<1>6. ASSUME DOMAIN rig' \subseteq Cameras, rig' \in [DOMAIN rig' -> CameraConfigs],
             adapter' \in BOOLEAN, todo' \subseteq DOMAIN rig'
      PROVE  TypeOK'
  BY <1>1, <1>2, <1>4, <1>6 DEF TypeOK, hardware
<1>7. CASE BeginRig
  <2>1. PICK r \in Rigs : /\ rig' = r.cameras /\ adapter' = r.p22
                          /\ todo' = DOMAIN r.cameras /\ script' = ConfigureBoard(r)
    BY <1>7 DEF BeginRig
  <2>2. TypeOK'
    BY <1>6, <2>1, RigAssumption
  <2> DEFINE reset == [kind |-> "reset"]
             clk == [kind |-> "setup clock"]
  <2>3. reset \in QuietAccesses /\ clk \in QuietAccesses
    BY DEF QuietAccesses, PlainAccesses
  <2>4. ASSUME NEW k
        PROVE  Sets(clk, k, "clock", "on")
    BY DEF Sets
  <2> HIDE DEF reset, clk
  <2>5. script' \in {<< reset, clk >>, << clk >>}
    BY <2>1 DEF ConfigureBoard, reset, clk
  <2>6. \A a, b \in QuietAccesses : << a >> \in Seq(QuietAccesses) /\ << a, b >> \in Seq(QuietAccesses)
    OBVIOUS
  <2>7. script' \in Seq(QuietAccesses)
    BY <2>3, <2>5, <2>6
  <2>8. ScriptInv'
    BY <2>7, QuietScript DEF ScriptInv, Guarded
  <2>9. SettledInv'
    <3> SUFFICES ASSUME NEW k \in DOMAIN rig', NEW x \in Items, k \notin todo' \/ x = "clock"
                 PROVE  Settled(k, x, Wanted(rig[k], x))'
      BY DEF SettledInv
    <3>1. x = "clock" /\ Wanted(rig'[k], x) = "on"
      BY <2>1 DEF Wanted
    <3>2. Ends(script', k, x, "on")
      BY <2>4, <2>5, <3>1, ShortParts
    <3> QED BY <3>1, <3>2 DEF Settled
  <2> QED BY <1>5, <2>2, <2>8, <2>9 DEF IInv
<1>8. CASE BeginCommand
  <2>1. PICK c \in Commands : script' = Command(c)
    BY <1>8 DEF BeginCommand
  <2>2. UNCHANGED <<rig, adapter, todo>>
    BY <1>8 DEF BeginCommand
  <2>3. TypeOK'
    BY <1>1, <1>6, <2>2 DEF TypeOK
  <2>4. /\ script' \in Seq(Accesses)
        /\ Guarded(script') \/ (Len(script') = 1 /\ script'[1].kind = "raw register")
    BY <2>1, CommandScript
  <2>5. ScriptInv'
    <3>1. CASE Guarded(script')
      BY <2>4, <3>1 DEF ScriptInv, Guarded
    <3>2. CASE Len(script') = 1 /\ script'[1].kind = "raw register"
      <4>1. Len(script') = 1
        BY <3>2
      <4>2. \A i \in 1..Len(script') : i = 1
        BY <4>1
      <4>3. "raw register" # "register" /\ ~clean'
        BY <1>2
      <4> QED BY <2>4, <3>2, <4>2, <4>3 DEF ScriptInv
    <3> QED BY <2>4, <3>1, <3>2
  <2>6. SettledInv'
    BY <1>4, <2>2 DEF SettledInv
  <2> QED BY <1>5, <2>3, <2>5, <2>6 DEF IInv
<1> QED BY <1>7, <1>8

(* The process is gone: what is left is hardware, and clean only when all  *)
(* receivers had stopped or none was ever started.                         *)
LEMMA LeaveKeeps ==
  ASSUME IInv, CommandDone \/ Refused \/ Die \/ Finish
  PROVE  IInv'
<1>1. /\ TypeOK /\ ScriptInv /\ SettledInv /\ PhaseInv /\ DeviceInv /\ CleanInv
  BY DEF IInv
<1>2. Leave
  BY DEF CommandDone, Refused, Die, Finish
<1>3. DOMAIN rig' = {} /\ rig' \in [DOMAIN rig' -> CameraConfigs]
  BY <1>2 DEF Leave, NoRig
<1>4. clean' \in BOOLEAN /\ (clean' => clean /\ (CommandDone \/ Finish))
  <2>1. CASE CommandDone
    BY <1>1, <2>1 DEF CommandDone, TypeOK
  <2>2. CASE Refused
    BY <2>2 DEF Refused
  <2>3. CASE Die
    BY <2>3 DEF Die
  <2>4. CASE Finish
    BY <1>1, <2>4 DEF Finish, TypeOK
  <2> QED BY <2>1, <2>2, <2>3, <2>4
<1>5. TypeOK'
  <2>1. HardwareOK'
    BY <1>1, <1>2 DEF Leave, TypeOK, HardwareOK, hardware
  <2>2. /\ phase' = "idle" /\ adapter' = FALSE /\ todo' = {} /\ ticking' = {} /\ stopping' = FALSE
        /\ receiver' = [k \in Cameras |-> "off"] /\ DOMAIN device' = Cameras
    BY <1>2 DEF Leave
  <2>3. receiver' \in [Cameras -> {"off", "starting", "receiving", "stopping", "done"}]
    BY <2>2
  <2> QED BY <1>3, <1>4, <2>1, <2>2, <2>3 DEF TypeOK, HardwareOK
<1>6. ScriptInv'
  <2>1. script' = << >> /\ << >> \in Seq(Accesses) /\ Len(<< >>) = 0
    BY <1>2 DEF Leave
  <2> QED BY <2>1 DEF ScriptInv
<1>7. SettledInv' /\ PhaseInv' /\ DeviceInv'
  BY <1>2, <1>3 DEF Leave, SettledInv, PhaseInv, DeviceInv
<1>8. CleanInv'
  <2> SUFFICES ASSUME clean', NEW k \in Cameras
               PROVE  regs'[k].STANDBY = "1"
    BY DEF CleanInv
  <2>1. clean /\ (CommandDone \/ Finish)
    BY <1>4
  <2>2. receiver[k] \in {"off", "done"}
    <3>1. CASE CommandDone
      BY <1>1, <3>1 DEF CommandDone, PhaseInv
    <3>2. CASE Finish
      BY <1>1, <3>2 DEF Finish, PhaseInv
    <3> QED BY <2>1, <3>1, <3>2
  <2>3. regs[k].STANDBY = "1"
    BY <1>1, <2>1, <2>2 DEF CleanInv
  <2> QED BY <1>2, <2>3 DEF Leave, hardware
<1> QED BY <1>5, <1>6, <1>7, <1>8 DEF IInv

(* The pipeline is composed when every camera was configured.              *)
LEMMA ComposeKeeps ==
  ASSUME IInv, Compose
  PROVE  IInv'
<1>1. /\ TypeOK /\ ScriptInv /\ SettledInv /\ PhaseInv /\ DeviceInv /\ CleanInv
  BY DEF IInv
<1>2. /\ phase = "setup" /\ phase' = "running" /\ script = << >> /\ todo = {} /\ ticking' = DOMAIN rig
      /\ receiver' = [k \in Cameras |-> IF k \in DOMAIN rig THEN "starting" ELSE "off"]
      /\ device' = [k \in Cameras |-> IF k \in DOMAIN rig THEN StartSequence(k) ELSE << >>]
      /\ UNCHANGED <<hardware, rig, adapter, todo, script, stopping, clean>>
  BY DEF Compose
<1>3. TypeOK'
  BY <1>1, <1>2 DEF TypeOK, hardware
<1>4. ScriptInv'
  BY <1>1, <1>2 DEF ScriptInv, hardware
<1>5. SettledInv'
  BY <1>1, <1>2, SettledUnchanged
<1>6. PhaseInv' /\ DeviceInv'
  BY <1>2 DEF PhaseInv, DeviceInv
<1>7. CleanInv'
  <2>1. \A k \in Cameras : receiver[k] = "off"
    BY <1>1, <1>2 DEF PhaseInv
  <2> QED BY <1>1, <1>2, <2>1 DEF CleanInv, hardware
<1> QED BY <1>3, <1>4, <1>5, <1>6, <1>7 DEF IInv

(* The start and stop sequences write STANDBY and XMSTA of their camera.   *)
LEMMA DeviceStepKeeps ==
  ASSUME IInv, NEW k \in Cameras, DeviceStep(k)
  PROVE  IInv'
<1>1. /\ TypeOK /\ ScriptInv /\ SettledInv /\ PhaseInv /\ DeviceInv /\ CleanInv
  BY DEF IInv
<1> DEFINE a == Head(device[k])
<1>2. /\ device[k] # << >> /\ Perform(a) /\ device' = [device EXCEPT ![k] = Tail(@)]
      /\ UNCHANGED <<session, receiver, ticking, stopping, clean>>
  BY DEF DeviceStep
<1>3. receiver[k] \in {"starting", "stopping"} /\ phase = "running" /\ script = << >>
  <2>1. receiver[k] \in {"off", "starting", "receiving", "stopping", "done"}
    BY <1>1 DEF TypeOK
  <2>2. receiver[k] \in {"starting", "stopping"}
    BY <1>1, <1>2, <2>1 DEF DeviceInv
  <2> QED BY <1>1, <2>2 DEF PhaseInv
<1>4. /\ a \in {Register(k, "STANDBY", "0"), Register(k, "XMSTA", "0"),
                Register(k, "XMSTA", "1"), Register(k, "STANDBY", "1")}
      /\ receiver[k] = "starting" => device'[k] \in {<< Register(k, "XMSTA", "0") >>, << >>}
      /\ receiver[k] = "stopping" =>
           \/ device'[k] = << Register(k, "STANDBY", "1") >>
           \/ device'[k] = << >> /\ a = Register(k, "STANDBY", "1")
  <2>1. device'[k] = Tail(device[k])
    BY <1>1, <1>2 DEF TypeOK
  <2>2. \A b, c : /\ Head(<< b, c >>) = b /\ Tail(<< b, c >>) = << c >>
                  /\ Head(<< b >>) = b /\ Tail(<< b >>) = << >>
    OBVIOUS
  <2>3. CASE receiver[k] = "starting"
    <3>1. device[k] \in {<< Register(k, "STANDBY", "0"), Register(k, "XMSTA", "0") >>,
                         << Register(k, "XMSTA", "0") >>}
      BY <1>1, <1>2, <2>3 DEF DeviceInv, StartSequence
    <3> QED BY <2>1, <2>2, <2>3, <3>1
  <2>4. CASE receiver[k] = "stopping"
    <3>1. device[k] \in {<< Register(k, "XMSTA", "1"), Register(k, "STANDBY", "1") >>,
                         << Register(k, "STANDBY", "1") >>}
      BY <1>1, <1>2, <2>4 DEF DeviceInv, StopSequence
    <3> QED BY <2>1, <2>2, <2>4, <3>1
  <2> QED BY <1>3, <2>3, <2>4
<1> HIDE DEF a
<1>5. PICK r \in {"STANDBY", "XMSTA"}, v \in {"0", "1"} :
        /\ a = Register(k, r, v)
        /\ a.kind = "register" /\ a.camera = k /\ a.register = r /\ a.value = v
  BY <1>4 DEF Register
<1>6. regs' = [regs EXCEPT ![k][r] = v] /\ UNCHANGED <<clock, camEn, port, pins>>
  BY <1>2, <1>5 DEF Perform, Reset, SetupClock, DriveGpio, WriteLanes, WriteDataType, WriteExpander,
                    Probe, WriteRegister
<1>7. TypeOK'
  <2>1. HardwareOK'
    BY <1>1, <1>2, <1>5, AccessKeepsType DEF HardwareOK, TypeOK
  <2>2. DOMAIN device' = Cameras
    BY <1>1, <1>2 DEF TypeOK
  <2> QED BY <1>1, <1>2, <2>1, <2>2 DEF TypeOK, HardwareOK, session
<1>8. ScriptInv'
  BY <1>1, <1>2, <1>3 DEF ScriptInv, session
<1>9. SettledInv'
  <2>1. ASSUME NEW q \in Cameras, NEW x \in Items
        PROVE  Holds(q, x)' = Holds(q, x)
    BY <1>1, <1>5, <1>6 DEF Holds, Answers, Items, Registers, TypeOK
  <2>2. ASSUME NEW q \in Cameras, NEW x \in Items, NEW w, Settled(q, x, w)
        PROVE  Settled(q, x, w)'
    BY <1>2, <1>3, <2>1, <2>2 DEF Settled, session
  <2> QED BY <1>1, <1>2, <2>2 DEF SettledInv, TypeOK, session
<1>10. PhaseInv'
  BY <1>1, <1>2 DEF PhaseInv, session
<1>11. \A q \in Cameras : q # k => regs'[q] = regs[q] /\ device'[q] = device[q]
  BY <1>1, <1>2, <1>6 DEF TypeOK
<1>12. DeviceInv'
  <2>1. receiver[k] = "stopping" /\ device'[k] = << >> => regs'[k].STANDBY = "1"
    <3>1. a = Register(k, "STANDBY", "1") => r = "STANDBY" /\ v = "1"
      BY <1>5 DEF Register
    <3>2. k \in DOMAIN regs /\ "STANDBY" \in DOMAIN regs[k]
      BY <1>1 DEF TypeOK, PowerOn
    <3>3. << Register(k, "STANDBY", "1") >> # << >>
      OBVIOUS
    <3> QED BY <1>4, <1>6, <3>1, <3>2, <3>3
  <2> QED BY <1>1, <1>2, <1>3, <1>4, <1>11, <2>1 DEF DeviceInv
<1>13. CleanInv'
  BY <1>1, <1>2, <1>3, <1>11 DEF CleanInv
<1> QED BY <1>7, <1>8, <1>9, <1>10, <1>12, <1>13 DEF IInv

(* The receivers' other steps, and StopAll, leave hardware and session.    *)
LEMMA ReceiverKeeps ==
  ASSUME IInv, StopAll \/ \E k \in Cameras : Started(k) \/ StopReceiver(k) \/ Stopped(k)
  PROVE  IInv'
<1>1. /\ TypeOK /\ ScriptInv /\ SettledInv /\ PhaseInv /\ DeviceInv /\ CleanInv
  BY DEF IInv
<1>2. UNCHANGED <<hardware, session, clean>>
  BY DEF StopAll, Started, StopReceiver, Stopped
<1>3. ScriptInv' /\ SettledInv'
  BY <1>1, <1>2, SettledUnchanged DEF ScriptInv, session, hardware
<1>4. CASE StopAll
  BY <1>1, <1>2, <1>3, <1>4
     DEF StopAll, IInv, TypeOK, PhaseInv, DeviceInv, CleanInv, hardware, session
<1>5. ASSUME NEW k \in Cameras, Started(k) \/ StopReceiver(k) \/ Stopped(k)
      PROVE  IInv'
  <2>1. /\ receiver[k] = "starting" /\ device[k] = << >> /\ receiver' = [receiver EXCEPT ![k] = "receiving"]
             /\ UNCHANGED <<device, ticking, stopping>>
        \/ /\ receiver[k] = "receiving" /\ receiver' = [receiver EXCEPT ![k] = "stopping"]
           /\ device' = [device EXCEPT ![k] = StopSequence(k)] /\ UNCHANGED <<ticking, stopping>>
        \/ /\ receiver[k] = "stopping" /\ device[k] = << >> /\ receiver' = [receiver EXCEPT ![k] = "done"]
           /\ UNCHANGED <<device, ticking, stopping>>
    BY <1>5 DEF Started, StopReceiver, Stopped
  <2>2. TypeOK'
    BY <1>1, <1>2, <2>1 DEF TypeOK, hardware, session
  <2>3. \A q \in Cameras : q # k => receiver'[q] = receiver[q] /\ device'[q] = device[q]
    BY <1>1, <2>1 DEF TypeOK
  <2>4. receiver[k] # "off" /\ k \in DOMAIN rig /\ phase = "running"
    BY <1>1, <2>1 DEF PhaseInv
  <2>5. PhaseInv'
    BY <1>1, <1>2, <2>3, <2>4 DEF PhaseInv, session
  <2>6. /\ receiver'[k] \in {"receiving", "stopping", "done"}
        /\ receiver'[k] \in {"receiving", "done"} => device'[k] = << >>
        /\ receiver'[k] = "stopping" => device'[k] = StopSequence(k)
        /\ receiver'[k] = "done" => regs[k].STANDBY = "1"
    BY <1>1, <2>1 DEF TypeOK, DeviceInv
  <2>7. StopSequence(k) # << >>
    BY DEF StopSequence
  <2>8. DeviceInv'
    BY <1>1, <1>2, <2>3, <2>6, <2>7 DEF DeviceInv, hardware
  <2>9. CleanInv'
    BY <1>1, <1>2, <2>3, <2>6 DEF CleanInv, hardware
  <2> QED BY <1>3, <2>2, <2>5, <2>8, <2>9 DEF IInv
<1> QED BY <1>4, <1>5

(* A live pattern control writes the register and what is wanted of it.    *)
LEMMA SetPatternKeeps ==
  ASSUME IInv, NEW k \in Cameras, NEW v \in {"off", "on"}, SetPattern(k, v)
  PROVE  IInv'
<1>1. /\ TypeOK /\ ScriptInv /\ SettledInv /\ PhaseInv /\ DeviceInv /\ CleanInv
  BY DEF IInv
<1>2. /\ phase = "running" /\ k \in DOMAIN rig
      /\ regs' = [regs EXCEPT ![k].TPG = v] /\ rig' = [rig EXCEPT ![k].pattern = v]
      /\ UNCHANGED <<clock, camEn, port, pins, phase, adapter, todo, script, receiver, device,
                     ticking, stopping, clean>>
  BY DEF SetPattern
<1>3. script = << >> /\ script' = << >>
  BY <1>1, <1>2 DEF PhaseInv
<1>4. /\ DOMAIN rig' = DOMAIN rig
      /\ \A q \in DOMAIN rig : q # k => rig'[q] = rig[q] /\ regs'[q] = regs[q]
      /\ rig'[k] = [rig[k] EXCEPT !.pattern = v] /\ rig[k] \in CameraConfigs
      /\ regs'[k] = [regs[k] EXCEPT !.TPG = v]
  BY <1>1, <1>2 DEF TypeOK
<1>5. /\ rig'[k] \in CameraConfigs /\ rig'[k].pattern = v
      /\ rig'[k].mode = rig[k].mode /\ rig'[k].lanes = rig[k].lanes
  BY <1>4 DEF CameraConfigs
<1>6. /\ \A q \in Cameras : regs'[q].STANDBY = regs[q].STANDBY /\ DOMAIN regs'[q] = DOMAIN regs[q]
      /\ DOMAIN regs' = DOMAIN regs
  BY <1>1, <1>2 DEF TypeOK, PowerOn
<1>7. TypeOK'
  <2>1. rig' \in [DOMAIN rig' -> CameraConfigs]
    BY <1>1, <1>2, <1>4, <1>5 DEF TypeOK
  <2> QED BY <1>1, <1>2, <1>4, <1>6, <2>1 DEF TypeOK
<1>8. ScriptInv'
  BY <1>1, <1>3 DEF ScriptInv
<1>9. SettledInv'
  <2> SUFFICES ASSUME NEW q \in DOMAIN rig, NEW x \in Items
               PROVE  Settled(q, x, Wanted(rig[q], x))'
    BY <1>4 DEF SettledInv
  <2>1. todo = {}
    BY <1>1, <1>2 DEF PhaseInv
  <2>2. Settled(q, x, Wanted(rig[q], x))
    BY <1>1, <2>1 DEF SettledInv
  <2>3. Holds(q, x) = Wanted(rig[q], x)
    BY <1>3, <2>2, NothingToDo
  <2>4. Holds(q, x)' = Wanted(rig'[q], x)
    <3>1. CASE q # k
      BY <1>2, <1>4, <2>3, <3>1 DEF Holds, Answers
    <3>2. CASE q = k /\ x = "TPG"
      <4>1. Wanted(rig'[k], "TPG") = v
        BY <1>5, WantedIs
      <4>2. "TPG" \in DOMAIN regs[k]
        BY <1>1, <1>2 DEF TypeOK, PowerOn
      <4> QED BY <1>4, <3>2, <4>1, <4>2 DEF Holds
    <3>3. CASE q = k /\ x # "TPG"
      <4>1. Holds(k, x)' = Holds(k, x)
        <5>1. x \in Registers => x \in DOMAIN regs[k]
          BY <1>1, <1>2 DEF TypeOK, PowerOn, Registers
        <5>2. x \in Registers => regs'[k][x] = regs[k][x]
          BY <1>4, <3>3, <5>1
        <5> QED BY <1>2, <5>2 DEF Holds, Answers, Items
      <4>2. Wanted(rig'[k], x) = Wanted(rig[k], x)
        <5> DEFINE c == rig[k]
                   d == rig'[k]
                   m == kModes[c.mode]
        <5>1. /\ Wanted(c, "clock") = "on" /\ Wanted(c, "answers") = "yes"
              /\ Wanted(c, "lanes") = c.lanes /\ Wanted(c, "type") = DataTypeFor(m.format)
              /\ Wanted(c, "INIT") = "vendor" /\ Wanted(c, "LANEMODE") = c.lanes
              /\ Wanted(c, "READOUT") = m.readout /\ Wanted(c, "MDBIT") = m.format
              /\ Wanted(c, "ADBIT") = (IF c.mode = "BIN2_RAW12" THEN "RAW10" ELSE m.format)
              /\ Wanted(c, "WINDOW") = (IF c.mode = "CROP_RAW10" THEN "crop" ELSE "reset")
              /\ Wanted(c, "TIMING") = c.mode
          BY <1>4, WantedIs
        <5>2. /\ Wanted(d, "clock") = "on" /\ Wanted(d, "answers") = "yes"
              /\ Wanted(d, "lanes") = c.lanes /\ Wanted(d, "type") = DataTypeFor(m.format)
              /\ Wanted(d, "INIT") = "vendor" /\ Wanted(d, "LANEMODE") = c.lanes
              /\ Wanted(d, "READOUT") = m.readout /\ Wanted(d, "MDBIT") = m.format
              /\ Wanted(d, "ADBIT") = (IF c.mode = "BIN2_RAW12" THEN "RAW10" ELSE m.format)
              /\ Wanted(d, "WINDOW") = (IF c.mode = "CROP_RAW10" THEN "crop" ELSE "reset")
              /\ Wanted(d, "TIMING") = c.mode
          BY <1>5, WantedIs
        <5> HIDE DEF c, d, m
        <5>3. x \in {"clock", "answers", "lanes", "type", "INIT", "LANEMODE", "READOUT", "MDBIT",
                     "ADBIT", "WINDOW", "TIMING"}
          BY <3>3 DEF Items, Registers
        <5>4. Wanted(d, x) = Wanted(c, x)
          BY <5>1, <5>2, <5>3
        <5> QED BY <5>4 DEF c, d
      <4> QED BY <2>3, <3>3, <4>1, <4>2
    <3> QED BY <3>1, <3>2, <3>3
  <2>5. Quiet(script', q, x)
    BY <1>3 DEF Quiet
  <2> QED BY <2>4, <2>5 DEF Settled
<1>10. PhaseInv' /\ DeviceInv' /\ CleanInv'
  BY <1>1, <1>2, <1>4, <1>6 DEF PhaseInv, DeviceInv, CleanInv
<1> QED BY <1>7, <1>8, <1>9, <1>10 DEF IInv

(* The invariant holds in every state.                                     *)
LEMMA Invariant == Spec => []IInv
<1>1. IInv /\ UNCHANGED vars => IInv'
  <2> SUFFICES ASSUME IInv, UNCHANGED vars PROVE IInv'
    OBVIOUS
  <2>1. UNCHANGED <<hardware, session, receiver, device, ticking, stopping, clean>>
    BY DEF vars, process
  <2>2. UNCHANGED <<clock, camEn, port, pins, regs, phase, rig, adapter, todo, script>>
    BY <2>1 DEF hardware, session
  <2>3. SettledInv'
    BY <2>1, <2>2, SettledUnchanged DEF IInv
  <2> QED BY <2>1, <2>2, <2>3 DEF IInv, TypeOK, ScriptInv, PhaseInv, DeviceInv, CleanInv
<1>2. IInv /\ [Next]_vars => IInv'
  BY <1>1, MainStepKeeps, NextCameraKeeps, BeginKeeps, LeaveKeeps, ComposeKeeps, DeviceStepKeeps,
     ReceiverKeeps, SetPatternKeeps DEF Next, Receiver
<1> QED BY <1>2, InitInv, PTL DEF Spec
-----------------------------------------------------------------------------
(* The theorems.                                                           *)

(* Every variable keeps its type.                                          *)
THEOREM TypeCorrect == Spec => []TypeOK
<1>1. IInv => TypeOK
  BY DEF IInv
<1> QED BY <1>1, Invariant, PTL

(* In a running pipeline every camera of the rig holds what its            *)
(* configuration wants.                                                    *)
LEMMA RunningHolds ==
  ASSUME IInv, phase = "running", NEW k \in DOMAIN rig, NEW x \in Items
  PROVE  Holds(k, x) = Wanted(rig[k], x)
<1>1. script = << >> /\ todo = {}
  BY DEF IInv, PhaseInv
<1>2. Settled(k, x, Wanted(rig[k], x))
  BY <1>1 DEF IInv, SettledInv
<1> QED BY <1>1, <1>2, NothingToDo

(* While a receiver receives, its port has the lanes and the data type     *)
(* its sensor sends, whatever was configured after it and whatever the     *)
(* sessions before left, and the D-PHY is clocked (camera_rig.cc,          *)
(* ConfigureSensors; da322_board.cc, SetDataType).                         *)
THEOREM PortsMatch == Spec => []PortMatches
<1>1. IInv => PortMatches
  <2> SUFFICES ASSUME IInv, NEW k \in Cameras, receiver[k] = "receiving"
               PROVE  /\ clock /\ Answers(k)
                      /\ port[k].lanes = regs[k].LANEMODE
                      /\ port[k].type = (IF regs[k].MDBIT = "RAW10" THEN "0x2B" ELSE "0x2C")
    BY DEF PortMatches
  <2>1. phase = "running" /\ k \in DOMAIN rig
    BY DEF IInv, PhaseInv
  <2>2. rig[k] \in CameraConfigs
    BY <2>1 DEF IInv, TypeOK
  <2>3. \A x \in Items : Holds(k, x) = Wanted(rig[k], x)
    BY <2>1, RunningHolds
  <2>4. /\ Holds(k, "clock") = Wanted(rig[k], "clock") /\ Holds(k, "answers") = Wanted(rig[k], "answers")
        /\ Holds(k, "lanes") = Wanted(rig[k], "lanes") /\ Holds(k, "type") = Wanted(rig[k], "type")
        /\ Holds(k, "LANEMODE") = Wanted(rig[k], "LANEMODE")
        /\ Holds(k, "MDBIT") = Wanted(rig[k], "MDBIT")
    BY <2>3 DEF Items, Registers
  <2>5. /\ Wanted(rig[k], "clock") = "on" /\ Wanted(rig[k], "answers") = "yes"
        /\ Wanted(rig[k], "lanes") = Wanted(rig[k], "LANEMODE")
        /\ Wanted(rig[k], "type") = (IF Wanted(rig[k], "MDBIT") = "RAW10" THEN "0x2B" ELSE "0x2C")
    BY <2>2, WantedIs DEF DataTypeFor
  <2> QED BY <2>4, <2>5 DEF Holds
<1> QED BY <1>1, Invariant, PTL

(* A running pipeline finds its sensors as a fresh power-up and its own    *)
(* configuration leave them: nothing of an earlier session is in them      *)
(* (native_imx676_sensor.cc, configure; da322_board.cc, PowerCycleCamera). *)
THEOREM NothingIsInherited == Spec => []NothingInherited
<1>1. IInv => NothingInherited
  <2> SUFFICES ASSUME IInv, phase = "running", NEW k \in DOMAIN rig
               PROVE  [regs[k] EXCEPT !.STANDBY = "1", !.XMSTA = "1"] = Programmed(rig[k])
    BY DEF NothingInherited
  <2>1. k \in Cameras /\ rig[k] \in CameraConfigs /\ DOMAIN regs[k] = DOMAIN PowerOn
    BY DEF IInv, TypeOK
  <2>2. \A x \in Registers : regs[k][x] = Programmed(rig[k])[x]
    <3>1. ASSUME NEW x \in Registers
          PROVE  Holds(k, x) = Wanted(rig[k], x) /\ Wanted(rig[k], x) = Programmed(rig[k])[x]
      BY <2>1, RunningHolds, WantedIs DEF Items
    <3>2. \A x \in Registers : Holds(k, x) = regs[k][x]
      BY DEF Holds, Registers
    <3> QED BY <3>1, <3>2
  <2> DEFINE f == [regs[k] EXCEPT !.STANDBY = "1", !.XMSTA = "1"]
             g == Programmed(rig[k])
  <2>3. /\ DOMAIN PowerOn = Registers \cup {"STANDBY", "XMSTA"}
        /\ PowerOn.STANDBY = "1" /\ PowerOn.XMSTA = "1"
    BY DEF PowerOn, Registers
  <2>4. f = [x \in DOMAIN PowerOn |-> f[x]] /\ f.STANDBY = "1" /\ f.XMSTA = "1"
        /\ \A x \in Registers : f[x] = regs[k][x]
    BY <2>1, <2>3 DEF Registers
  <2>5. g = [x \in DOMAIN PowerOn |-> g[x]] /\ g.STANDBY = "1" /\ g.XMSTA = "1"
    BY <2>3 DEF Programmed
  <2> HIDE DEF f, g
  <2>6. \A x \in DOMAIN PowerOn : f[x] = g[x]
    BY <2>2, <2>3, <2>4, <2>5 DEF g
  <2>7. f = g
    BY <2>4, <2>5, <2>6
  <2> QED BY <2>7 DEF f, g
<1> QED BY <1>1, Invariant, PTL

(* configure() writes a sensor only in standby, whatever state the session *)
(* before died in.                                                         *)
THEOREM AlwaysConfiguresInStandby == Spec => []ConfiguresInStandby
<1>1. IInv => ConfiguresInStandby
  <2> SUFFICES ASSUME IInv, script # << >>, Head(script).kind = "register"
               PROVE  regs[Head(script).camera].STANDBY = "1"
    BY DEF ConfiguresInStandby
  <2>1. script \in Seq(Accesses)
    BY DEF IInv, ScriptInv
  <2>2. 1 \in 1..Len(script) /\ Head(script) = script[1] /\ 1..1 - 1 = {}
    BY <2>1
  <2> QED BY <2>2 DEF IInv, ScriptInv
<1> QED BY <1>1, Invariant, PTL

(* After its reset and until it ends normally a session has no sensor      *)
(* streaming that no receiver of its own has started.                      *)
THEOREM NoStrayStreams == Spec => []NoStrayStream
<1>1. IInv => NoStrayStream
  BY DEF IInv, CleanInv, NoStrayStream, Streaming
<1> QED BY <1>1, Invariant, PTL
=============================================================================
