------------------------ MODULE SensorControl_proofs ------------------------
(***************************************************************************)
(* Proofs about SensorControl for every base, every set of limits and      *)
(* requests, and every pattern of failed transactions: only whole          *)
(* registers are latched, and between requests the sensor is programmed    *)
(* with what the driver and the controls believe.                          *)
(*                                                                         *)
(* First part: what can be latched.  A driver call is a script that only   *)
(* ever gets shorter, so that what is left of it, counted from its end,    *)
(* says where the call stands (Shape): whether REGHOLD is 1 (Held), and    *)
(* which register is half written (TornIsHeld) or still to be written      *)
(* whole (WholeAgain).                                                     *)
(***************************************************************************)
EXTENDS SensorControl, SequenceTheorems, TLAPS

At(s, i) == s[Len(s) + 1 - i]
Elems(s) == {s[i] : i \in DOMAIN s}
IsScript(s) == s \in Seq(Elems(s))

IsWrite(w, reg, byte) == w.kind = "write" /\ w.reg = reg /\ w.byte = byte
IsHold(w, v) == IsWrite(w, "REGHOLD", 1) /\ w.value = v
IsFree(w) == w.kind = "assign" \/ (w.kind = "write" /\ w.reg \in {"BLKLEVEL", "TPG_EN", "PATSEL"})

(* The latched write of a register of n bytes, `after` steps from the end. *)
LatchShape(s, after, reg, n) ==
  /\ Len(s) >= after + 1 => IsHold(At(s, after + 1), 0)
  /\ \A k \in 1..n : Len(s) >= after + 1 + k => IsWrite(At(s, after + 1 + k), reg, n + 1 - k)
  /\ Len(s) >= after + n + 2 => IsHold(At(s, after + n + 2), 1)

Shape(key, s) ==
  CASE key = "gain" -> /\ Len(s) <= 5 /\ LatchShape(s, 0, "GAIN", 2)
                       /\ Len(s) >= 5 => IsFree(At(s, 5))
    [] key = "exposure" -> /\ Len(s) <= 6 /\ LatchShape(s, 0, "SHR0", 3)
                           /\ Len(s) >= 6 => IsFree(At(s, 6))
    [] key = "fps" -> /\ Len(s) <= 12 /\ LatchShape(s, 0, "SHR0", 3) /\ LatchShape(s, 7, "VMAX", 3)
                      /\ Len(s) >= 6 => IsFree(At(s, 6))
                      /\ Len(s) >= 7 => IsFree(At(s, 7))
    [] OTHER -> \A i \in 1..Len(s) : IsFree(At(s, i))

ScriptInv ==
  /\ IsScript(script) /\ serving \in Keys /\ Shape(serving, script)
  /\ IsRequest(request)

Hold == shadow["REGHOLD"][1]
Held ==
  /\ "REGHOLD" \in DOMAIN shadow /\ 1 \in DOMAIN shadow["REGHOLD"]
  /\ serving = "gain" /\ Len(script) \in 1..3 => Hold = 1
  /\ serving \in {"exposure", "fps"} /\ Len(script) \in 1..4 => Hold = 1
  /\ serving = "fps" /\ Len(script) \in 8..11 => Hold = 1

(* A register that is torn, and not because its own call failed, is being  *)
(* written.                                                                *)
TornIsHeld ==
  /\ "GAIN" \in torn /\ "gain" \notin stale => serving = "gain" /\ Len(script) = 2
  /\ "SHR0" \in torn /\ stale \cap {"fps", "exposure"} = {} =>
       serving \in {"exposure", "fps"} /\ Len(script) \in {2, 3}
  /\ "VMAX" \in torn /\ "fps" \notin stale => serving = "fps" /\ Len(script) \in {9, 10}

(* A call that has written a register has written it whole.                *)
WholeAgain ==
  /\ serving = "gain" /\ Len(script) = 1 => "GAIN" \notin torn
  /\ serving \in {"exposure", "fps"} /\ Len(script) = 1 => "SHR0" \notin torn
  /\ serving = "fps" /\ Len(script) \in 1..8 => "VMAX" \notin torn

IndInv == ScriptInv /\ Held /\ TornIsHeld /\ WholeAgain
-----------------------------------------------------------------------------
LEMMA SequencesAreScripts ==
  ASSUME NEW S, NEW s \in Seq(S)
  PROVE  IsScript(s)
<1>1. DOMAIN s = 1..Len(s) /\ Len(s) \in Nat /\ s = [i \in 1..Len(s) |-> s[i]]
  OBVIOUS
<1>2. \A i \in 1..Len(s) : s[i] \in Elems(s)
  BY <1>1 DEF Elems
<1> HIDE DEF Elems
<1> QED
  BY <1>1, <1>2 DEF IsScript

LEMMA AtOfTail ==
  ASSUME NEW s, IsScript(s), s # << >>
  PROVE  /\ IsScript(Tail(s)) /\ Len(Tail(s)) = Len(s) - 1 /\ Len(s) \in Nat \ {0}
         /\ Head(s) = At(s, Len(s))
         /\ \A i \in 1..Len(Tail(s)) : At(Tail(s), i) = At(s, i)
<1>1. s \in Seq(Elems(s)) /\ Len(s) \in Nat \ {0}
  BY DEF IsScript
<1>2. Tail(s) \in Seq(Elems(s)) /\ Len(Tail(s)) = Len(s) - 1 /\ Head(s) = s[1]
      /\ \A i \in 1..(Len(s) - 1) : Tail(s)[i] = s[i + 1]
  BY <1>1
<1>3. IsScript(Tail(s))
  BY <1>2, SequencesAreScripts
<1> QED
  BY <1>1, <1>2, <1>3 DEF At

Joined(u, s, t) ==
  /\ IsScript(u) /\ Len(u) = Len(s) + Len(t) /\ Len(s) \in Nat /\ Len(t) \in Nat
  /\ \A i \in 1..Len(t) : At(u, i) = At(t, i)
  /\ \A i \in 1..Len(s) : At(u, Len(t) + i) = At(s, i)

LEMMA AtOfConcat ==
  ASSUME NEW s, IsScript(s), NEW t, IsScript(t)
  PROVE  Joined(s \o t, s, t)
<1> DEFINE E == Elems(s) \cup Elems(t)
<1>1. s \in Seq(E) /\ t \in Seq(E)
  BY DEF IsScript
<1> HIDE DEF E
<1>2. s \o t \in Seq(E) /\ Len(s \o t) = Len(s) + Len(t) /\ Len(s) \in Nat /\ Len(t) \in Nat
      /\ \A i \in 1..(Len(s) + Len(t)) : (s \o t)[i] = IF i <= Len(s) THEN s[i] ELSE t[i - Len(s)]
  BY <1>1
<1>3. IsScript(s \o t)
  BY <1>2, SequencesAreScripts
<1>4. \A i \in 1..Len(t) : At(s \o t, i) = At(t, i)
  BY <1>2 DEF At
<1>5. \A i \in 1..Len(s) : At(s \o t, Len(t) + i) = At(s, i)
  BY <1>2 DEF At
<1> QED
  BY <1>2, <1>3, <1>4, <1>5 DEF Joined

LEMMA WriteHasShape ==
  ASSUME NEW reg \in Registers, NEW v
  PROVE  /\ IsScript(Write(reg, v)) /\ Len(Write(reg, v)) = Bytes[reg]
         /\ \A k \in 1..Bytes[reg] :
              /\ IsWrite(At(Write(reg, v), k), reg, Bytes[reg] + 1 - k)
              /\ At(Write(reg, v), k).value = Digit(v, Bytes[reg] + 1 - k)
<1> DEFINE W(i) == [kind |-> "write", reg |-> reg, byte |-> i, value |-> Digit(v, i)]
           n == Bytes[reg]
<1>1. n \in 1..3
  BY DEF Registers, Bytes
<1>2. Write(reg, v) = [i \in 1..n |-> W(i)]
  BY DEF Write
<1> HIDE DEF n
<1>3. Len(Write(reg, v)) = n /\ DOMAIN Write(reg, v) = 1..n /\ \A i \in 1..n : Write(reg, v)[i] = W(i)
  BY <1>1, <1>2
<1>4. IsScript(Write(reg, v))
  BY <1>1, <1>2, <1>3 DEF IsScript, Elems
<1>5. \A k \in 1..n : At(Write(reg, v), k) = W(n + 1 - k)
  BY <1>1, <1>3 DEF At
<1> QED
  BY <1>3, <1>4, <1>5 DEF n, IsWrite

LEMMA AssignHasShape ==
  ASSUME NEW field, NEW v
  PROVE  IsScript(Assign(field, v)) /\ Len(Assign(field, v)) = 1 /\ IsFree(At(Assign(field, v), 1))
  BY DEF Assign, IsScript, Elems, At, IsFree

LEMMA HoldHasShape ==
  ASSUME NEW v \in {0, 1}
  PROVE  LET s == Write("REGHOLD", v) IN IsScript(s) /\ Len(s) = 1 /\ IsHold(At(s, 1), v)
<1> DEFINE s == Write("REGHOLD", v)
<1>1. "REGHOLD" \in Registers /\ Bytes["REGHOLD"] = 1
  BY DEF Registers, Bytes
<1>2. IsScript(s) /\ Len(s) = 1
      /\ \A k \in 1..1 : IsWrite(At(s, k), "REGHOLD", 1 + 1 - k) /\ At(s, k).value = Digit(v, 1 + 1 - k)
  BY <1>1, WriteHasShape
<1> HIDE DEF s
<1>3. IsWrite(At(s, 1), "REGHOLD", 1) /\ At(s, 1).value = Digit(v, 1)
  BY <1>2
<1>4. Digit(v, 1) = v
  <2>1. Base \in Nat /\ Base > 1 /\ Weights[1] = 1
    BY SensorAssumption DEF SensorAssumption, Weights
  <2>2. v \div 1 = v /\ v % Base = v
    BY <2>1
  <2> QED
    BY <2>1, <2>2 DEF Digit
<1> QED
  BY <1>2, <1>3, <1>4 DEF s, IsHold

(* REGHOLD 1, the bytes of a register, the highest at the end, REGHOLD 0.  *)
LEMMA LatchedHasShape ==
  ASSUME NEW reg \in Registers, NEW v
  PROVE  /\ IsScript(Latched(reg, v)) /\ Len(Latched(reg, v)) = Bytes[reg] + 2
         /\ LatchShape(Latched(reg, v), 0, reg, Bytes[reg])
<1> DEFINE n == Bytes[reg]
           on == Write("REGHOLD", 1)
           off == Write("REGHOLD", 0)
           w == Write(reg, v)
<1>1. n \in 1..3 /\ "REGHOLD" \in Registers /\ Bytes["REGHOLD"] = 1
  BY DEF Registers, Bytes
<1>3. IsScript(on) /\ Len(on) = 1 /\ IsHold(At(on, 1), 1)
  BY HoldHasShape
<1>4. IsScript(off) /\ Len(off) = 1 /\ IsHold(At(off, 1), 0)
  BY HoldHasShape
<1>5. IsScript(w) /\ Len(w) = n /\ \A k \in 1..n : IsWrite(At(w, k), reg, n + 1 - k)
  BY WriteHasShape
<1> HIDE DEF n, on, off, w
<1>6. IsScript(on \o w) /\ Len(on \o w) = n + 1
      /\ (\A k \in 1..n : At(on \o w, k) = At(w, k)) /\ At(on \o w, n + 1) = At(on, 1)
  <2>1. Joined(on \o w, on, w)
    BY <1>3, <1>5, AtOfConcat, Zenon
  <2> QED
    BY <1>1, <1>3, <1>5, <2>1 DEF Joined
<1> DEFINE s == (on \o w) \o off
<1>7. IsScript(s) /\ Len(s) = n + 2 /\ At(s, 1) = At(off, 1)
      /\ (\A k \in 1..(n + 1) : At(s, 1 + k) = At(on \o w, k))
  <2>1. Joined(s, on \o w, off)
    BY <1>4, <1>6, AtOfConcat, Zenon
  <2> HIDE DEF s
  <2> QED
    BY <1>1, <1>4, <1>6, <2>1 DEF Joined
<1> HIDE DEF s
<1>8. \A k \in 1..n : IsWrite(At(s, 1 + k), reg, n + 1 - k)
  BY <1>1, <1>5, <1>6, <1>7
<1>9. IsHold(At(s, n + 2), 1) /\ IsHold(At(s, 1), 0)
  BY <1>1, <1>3, <1>4, <1>6, <1>7
<1>10. LatchShape(s, 0, reg, n)
  BY <1>1, <1>7, <1>8, <1>9 DEF LatchShape
<1> QED
  BY <1>7, <1>10 DEF s, on, w, off, n, Latched

LEMMA ExposureHasShape ==
  ASSUME NEW vmax, NEW exposure
  PROVE  LET s == SetExposure(vmax, exposure)
         IN IsScript(s) /\ Len(s) = 6 /\ LatchShape(s, 0, "SHR0", 3) /\ IsFree(At(s, 6))
<1> DEFINE a == Assign("exposure", exposure)
           l == Latched("SHR0", Shr0ForExposure(vmax, exposure))
           s == SetExposure(vmax, exposure)
<1>1. IsScript(a) /\ Len(a) = 1 /\ IsFree(At(a, 1))
  BY AssignHasShape
<1>2. IsScript(l) /\ Len(l) = 5 /\ LatchShape(l, 0, "SHR0", 3)
  <2>1. "SHR0" \in Registers /\ Bytes["SHR0"] = 3
    BY DEF Registers, Bytes
  <2>2. IsScript(l) /\ Len(l) = Bytes["SHR0"] + 2 /\ LatchShape(l, 0, "SHR0", Bytes["SHR0"])
    BY <2>1, LatchedHasShape, Zenon
  <2> QED
    BY <2>1, <2>2
<1>3. s = a \o l
  BY DEF SetExposure
<1> HIDE DEF a, l, s
<1>4. IsScript(s) /\ Len(s) = 6 /\ (\A i \in 1..5 : At(s, i) = At(l, i)) /\ At(s, 6) = At(a, 1)
  <2>1. Joined(s, a, l)
    BY <1>1, <1>2, <1>3, AtOfConcat, Zenon
  <2> QED
    BY <1>1, <1>2, <2>1 DEF Joined
<1> QED
  BY <1>1, <1>2, <1>4 DEF LatchShape, s

LEMMA FrameRateHasShape ==
  ASSUME NEW vmax
  PROVE  LET s == SetFrameRate(vmax)
         IN IsScript(s) /\ Len(s) = 12 /\ Shape("fps", s)
<1> DEFINE l == Latched("VMAX", vmax)
           a == Assign("vmax", vmax)
           e == SetExposure(vmax, cache.exposure)
           s == SetFrameRate(vmax)
<1>1. IsScript(l) /\ Len(l) = 5 /\ LatchShape(l, 0, "VMAX", 3)
  <2>1. "VMAX" \in Registers /\ Bytes["VMAX"] = 3
    BY DEF Registers, Bytes
  <2>2. IsScript(l) /\ Len(l) = Bytes["VMAX"] + 2 /\ LatchShape(l, 0, "VMAX", Bytes["VMAX"])
    BY <2>1, LatchedHasShape, Zenon
  <2> QED
    BY <2>1, <2>2
<1>2. IsScript(a) /\ Len(a) = 1 /\ IsFree(At(a, 1))
  BY AssignHasShape
<1>3. IsScript(e) /\ Len(e) = 6 /\ LatchShape(e, 0, "SHR0", 3) /\ IsFree(At(e, 6))
  BY ExposureHasShape, Zenon
<1>4. s = (l \o a) \o e
  BY <1>1, <1>2, <1>3 DEF SetFrameRate, IsScript
<1> HIDE DEF l, a, e, s
<1> DEFINE la == l \o a
<1>5. IsScript(la) /\ Len(la) = 6 /\ At(la, 1) = At(a, 1) /\ \A i \in 1..5 : At(la, 1 + i) = At(l, i)
  <2>1. Joined(la, l, a)
    BY <1>1, <1>2, AtOfConcat, Zenon
  <2> HIDE DEF la
  <2> QED
    BY <1>1, <1>2, <2>1 DEF Joined
<1> HIDE DEF la
<1>6. IsScript(s) /\ Len(s) = 12 /\ (\A i \in 1..6 : At(s, i) = At(e, i))
      /\ \A i \in 1..6 : At(s, 6 + i) = At(la, i)
  <2>1. Joined(s, la, e)
    BY <1>3, <1>4, <1>5, AtOfConcat, Zenon DEF la
  <2> QED
    BY <1>3, <1>5, <2>1 DEF Joined
<1>7. At(s, 7) = At(a, 1) /\ \A i \in 1..5 : At(s, 7 + i) = At(l, i)
  BY <1>5, <1>6
<1>8. LatchShape(s, 0, "SHR0", 3) /\ IsFree(At(s, 6)) /\ IsFree(At(s, 7))
  BY <1>2, <1>3, <1>6, <1>7 DEF LatchShape
<1>9. LatchShape(s, 7, "VMAX", 3)
  BY <1>1, <1>6, <1>7 DEF LatchShape
<1> QED
  BY <1>6, <1>8, <1>9 DEF Shape, s

LEMMA GainHasShape ==
  ASSUME NEW gain
  PROVE  LET s == SetGain(gain) IN IsScript(s) /\ Len(s) = 5 /\ Shape("gain", s)
<1> DEFINE a == Assign("gain", gain)
           l == Latched("GAIN", gain)
           s == SetGain(gain)
<1>1. IsScript(a) /\ Len(a) = 1 /\ IsFree(At(a, 1))
  BY AssignHasShape
<1>2. IsScript(l) /\ Len(l) = 4 /\ LatchShape(l, 0, "GAIN", 2)
  <2>1. "GAIN" \in Registers /\ Bytes["GAIN"] = 2
    BY DEF Registers, Bytes
  <2>2. IsScript(l) /\ Len(l) = Bytes["GAIN"] + 2 /\ LatchShape(l, 0, "GAIN", Bytes["GAIN"])
    BY <2>1, LatchedHasShape, Zenon
  <2> QED
    BY <2>1, <2>2
<1>3. s = a \o l
  BY DEF SetGain
<1> HIDE DEF a, l, s
<1>4. IsScript(s) /\ Len(s) = 5 /\ (\A i \in 1..4 : At(s, i) = At(l, i)) /\ At(s, 5) = At(a, 1)
  <2>1. Joined(s, a, l)
    BY <1>1, <1>2, <1>3, AtOfConcat, Zenon
  <2> QED
    BY <1>1, <1>2, <2>1 DEF Joined
<1> QED
  BY <1>1, <1>2, <1>4 DEF LatchShape, Shape, s

(* The calls that write no latched register.                               *)
AllFree(s) == IsScript(s) /\ \A i \in 1..Len(s) : IsFree(At(s, i))

LEMMA FreeCallsJoin ==
  ASSUME NEW s, AllFree(s), NEW t, AllFree(t)
  PROVE  AllFree(s \o t)
<1> DEFINE u == s \o t
<1>1. Joined(u, s, t)
  BY AtOfConcat, Zenon DEF AllFree
<1> HIDE DEF u
<1>2. ASSUME NEW i \in 1..Len(u)
      PROVE  IsFree(At(u, i))
  <2>1. CASE i <= Len(t)
    BY <1>1, <2>1 DEF Joined, AllFree
  <2>2. CASE i > Len(t)
    <3>1. i - Len(t) \in 1..Len(s) /\ i = Len(t) + (i - Len(t))
      BY <1>1, <2>2 DEF Joined
    <3> QED
      BY <1>1, <3>1 DEF Joined, AllFree
  <2> QED
    BY <1>1, <2>1, <2>2 DEF Joined
<1>3. AllFree(u)
  BY <1>1, <1>2 DEF Joined, AllFree
<1> QED
  BY <1>3 DEF u

LEMMA FreeWrites ==
  ASSUME NEW reg \in {"BLKLEVEL", "TPG_EN", "PATSEL"}, NEW v
  PROVE  AllFree(Write(reg, v))
<1>1. reg \in Registers
  BY DEF Registers, Bytes
<1>2. IsScript(Write(reg, v)) /\ Len(Write(reg, v)) = Bytes[reg]
      /\ \A k \in 1..Bytes[reg] : IsWrite(At(Write(reg, v), k), reg, Bytes[reg] + 1 - k)
  BY <1>1, WriteHasShape
<1> QED
  BY <1>2 DEF AllFree, IsFree, IsWrite

LEMMA FreeCalls ==
  ASSUME NEW v, NEW enable, NEW select, NEW field
  PROVE  /\ AllFree(Assign(field, v))
         /\ AllFree(SetBlackLevel(v))
         /\ AllFree(SetTestPattern(enable, select))
<1>1. ASSUME NEW f
      PROVE  AllFree(Assign(f, v))
  <2> DEFINE a == Assign(f, v)
  <2>1. IsScript(a) /\ Len(a) = 1 /\ IsFree(At(a, 1))
    BY AssignHasShape
  <2> HIDE DEF a
  <2> QED
    BY <2>1 DEF AllFree, a
<1>2. AllFree(SetBlackLevel(v))
  BY <1>1, FreeWrites, FreeCallsJoin DEF SetBlackLevel
<1>3. ASSUME NEW low
      PROVE  AllFree(BlackLow(low))
  BY DEF BlackLow, Write, Bytes, AllFree, IsScript, Elems, At, IsFree
<1>4. AllFree(SetTestPattern(enable, select))
  <2>1. CASE enable
    BY <1>3, <2>1, FreeWrites, FreeCallsJoin DEF SetTestPattern
  <2>2. CASE ~enable
    BY <1>3, <2>2, FreeWrites, FreeCallsJoin DEF SetTestPattern
  <2> QED
    BY <2>1, <2>2
<1> QED
  BY <1>1, <1>2, <1>4

(* What HandleKey starts: a script at its beginning.                       *)
LEMMA CallHasShape ==
  ASSUME NEW key \in Keys, NEW v
  PROVE  LET s == Call(key, v)
         IN /\ IsScript(s) /\ Shape(key, s)
            /\ key = "gain" => Len(s) = 5
            /\ key = "exposure" => Len(s) = 6
            /\ key = "fps" => Len(s) = 12
<1> DEFINE s == Call(key, v)
<1>1. CASE key = "fps"
  <2>1. s = SetFrameRate(VmaxForFps(v))
    BY <1>1 DEF Call
  <2> QED
    BY <1>1, <2>1, FrameRateHasShape
<1>2. CASE key = "exposure"
  <2>1. s = SetExposure(cache.vmax, v)
    BY <1>2 DEF Call
  <2> HIDE DEF s
  <2>2. IsScript(s) /\ Len(s) = 6 /\ LatchShape(s, 0, "SHR0", 3) /\ IsFree(At(s, 6))
    BY <2>1, ExposureHasShape, Zenon
  <2>3. Shape(key, s)
    BY <1>2, <2>2 DEF Shape
  <2> QED
    BY <1>2, <2>2, <2>3 DEF s
<1>3. CASE key = "gain"
  <2>1. s = SetGain(v)
    BY <1>3 DEF Call
  <2> QED
    BY <1>3, <2>1, GainHasShape
<1>4. CASE key \in {"black", "select", "pattern", "tpg"}
  <2>1. AllFree(s)
    <3>1. CASE key = "black"
      BY <3>1, FreeCalls DEF Call
    <3>2. CASE key = "select"
      BY <3>2, FreeCalls DEF Call
    <3>3. CASE key = "pattern"
      <4>1. s = Assign("pattern", v = 1)
        BY <3>3 DEF Call
      <4> QED
        BY <4>1, FreeCalls, Zenon
    <3>4. CASE key = "tpg"
      BY <3>4, FreeCalls DEF Call
    <3> QED
      BY <1>4, <3>1, <3>2, <3>3, <3>4
  <2> HIDE DEF s
  <2>2. IsScript(s) /\ Shape(key, s)
    BY <1>4, <2>1 DEF AllFree, Shape
  <2> QED
    BY <1>4, <2>2 DEF s
<1> QED
  BY <1>1, <1>2, <1>3, <1>4 DEF Keys

LEMMA FirstKeyIsFirst ==
  ASSUME request # << >>, IsRequest(request)
  PROVE  \E i \in DOMAIN Order : /\ Order[i] \in DOMAIN request /\ FirstKey = Order[i]
                                 /\ \A j \in 1..(i - 1) : Order[j] \notin DOMAIN request
<1> DEFINE D == DOMAIN request
           First(i) == Order[i] \in D /\ \A j \in 1..(i - 1) : Order[j] \notin D
<1>1. DOMAIN Order = 1..7
  BY DEF Order
<1>2. D # {} /\ D \subseteq Keys
  <2>1. ASSUME D = {}
        PROVE  FALSE
    <3>1. request = [k \in {} |-> request[k]]
      BY <2>1 DEF IsRequest
    <3>2. DOMAIN << >> = {} /\ << >> = [k \in {} |-> request[k]]
      OBVIOUS
    <3> QED
      BY <3>1, <3>2
  <2> QED
    BY <2>1 DEF IsRequest
<1>3. \E i \in DOMAIN Order : First(i)
  <2>1. /\ Order[1] = "fps" /\ Order[2] = "exposure" /\ Order[3] = "gain" /\ Order[4] = "black"
        /\ Order[5] = "select" /\ Order[6] = "pattern" /\ Order[7] = "tpg"
    BY DEF Order
  <2> HIDE DEF D
  <2>2. CASE Order[1] \in D
    BY <1>1, <2>2
  <2>3. CASE Order[1] \notin D /\ Order[2] \in D
    BY <1>1, <2>3
  <2>4. CASE Order[1] \notin D /\ Order[2] \notin D /\ Order[3] \in D
    BY <1>1, <2>4
  <2>5. CASE (\A j \in 1..3 : Order[j] \notin D) /\ Order[4] \in D
    BY <1>1, <2>5
  <2>6. CASE (\A j \in 1..4 : Order[j] \notin D) /\ Order[5] \in D
    BY <1>1, <2>6
  <2>7. CASE (\A j \in 1..5 : Order[j] \notin D) /\ Order[6] \in D
    BY <1>1, <2>7
  <2>8. CASE (\A j \in 1..6 : Order[j] \notin D) /\ Order[7] \in D
    BY <1>1, <2>8
  <2>9. \E i \in 1..7 : Order[i] \in D
    <3>1. PICK key \in D : key \in Keys
      BY <1>2
    <3>2. \E i \in 1..7 : Order[i] = key
      BY <2>1, <3>1 DEF Keys
    <3> QED
      BY <3>1, <3>2
  <2> QED
    BY <2>2, <2>3, <2>4, <2>5, <2>6, <2>7, <2>8, <2>9
<1>4. \E i \in DOMAIN Order : First(i) /\ FirstKey = Order[i]
  BY <1>3, Zenon DEF FirstKey
<1> QED
  BY <1>4

LEMMA FirstKeyIsAKey ==
  ASSUME request # << >>, IsRequest(request)
  PROVE  FirstKey \in DOMAIN request /\ FirstKey \in Keys
  BY FirstKeyIsFirst DEF IsRequest

LEMMA RequestsShrink ==
  ASSUME NEW r, IsRequest(r), NEW key
  PROVE  IsRequest(Without(r, key)) /\ IsRequest(WithTpg(r))
<1>1. IsRequest(Without(r, key))
  BY DEF IsRequest, Without
<1>2. IsRequest(WithTpg(r))
  BY DEF IsRequest, WithTpg, Keys
<1> QED
  BY <1>1, <1>2
-----------------------------------------------------------------------------
(* The steps.  Without a script nothing is half written but what a failed  *)
(* call left behind.                                                       *)
NothingHalfWritten ==
  /\ "GAIN" \in torn => "gain" \in stale
  /\ "SHR0" \in torn => stale \cap {"fps", "exposure"} # {}
  /\ "VMAX" \in torn => "fps" \in stale

LEMMA NoScript ==
  ASSUME script = << >>
  PROVE  /\ IsScript(script) /\ Len(script) = 0
         /\ \A key : Shape(key, script)
         /\ TornIsHeld => NothingHalfWritten
<1>1. IsScript(script) /\ Len(script) = 0
  BY DEF IsScript, Elems
<1>2. \A key : Shape(key, script)
  BY <1>1 DEF Shape, LatchShape
<1>3. TornIsHeld => NothingHalfWritten
  BY <1>1 DEF TornIsHeld, NothingHalfWritten
<1> QED
  BY <1>1, <1>2, <1>3

LEMMA InitEstablishes ==
  ASSUME Init
  PROVE  IndInv
<1>1. PICK c \in Configs : shadow = Configured(c)
  BY DEF Init
<1>2. script = << >> /\ request = << >> /\ serving = "tpg" /\ torn = {}
  BY DEF Init
<1>3. "REGHOLD" \in DOMAIN shadow /\ 1 \in DOMAIN shadow["REGHOLD"]
  BY <1>1 DEF Configured
<1>4. IsRequest(request)
  BY <1>2 DEF IsRequest
<1>5. ScriptInv
  BY <1>2, <1>4, NoScript DEF ScriptInv, Keys
<1>6. Held /\ TornIsHeld /\ WholeAgain
  BY <1>2, <1>3, NoScript DEF Held, TornIsHeld, WholeAgain
<1> QED
  BY <1>5, <1>6 DEF IndInv

LEMMA ApplyKeeps ==
  ASSUME IndInv, NEW r \in Requests, Apply(r)
  PROVE  IndInv'
<1>1. IsRequest(r)
  BY SensorAssumption DEF SensorAssumption
<1>2. request' = r /\ script' = script /\ serving' = serving /\ torn' = torn /\ shadow' = shadow
      /\ stale' = stale
  BY DEF Apply
<1>3. ScriptInv'
  BY <1>1, <1>2 DEF IndInv, ScriptInv, Shape, LatchShape, At, IsHold, IsWrite, IsFree, IsScript, Elems, IsRequest
<1>4. Held' /\ TornIsHeld' /\ WholeAgain'
  BY <1>2 DEF IndInv, Held, Hold, TornIsHeld, WholeAgain
<1> QED
  BY <1>3, <1>4 DEF IndInv

LEMMA HandleKeyKeeps ==
  ASSUME IndInv, HandleKey
  PROVE  IndInv'
<1> DEFINE key == FirstKey
           rest == Without(request, key)
<1>1. script = << >> /\ request # << >> /\ IsRequest(request)
  BY DEF HandleKey, IndInv, ScriptInv
<1>2. key \in Keys /\ IsRequest(rest) /\ IsRequest(WithTpg(rest))
  BY <1>1, FirstKeyIsAKey, RequestsShrink
<1>3. NothingHalfWritten
  BY <1>1, NoScript DEF IndInv
<1>4. serving' = key /\ shadow' = shadow /\ torn' = torn /\ stale' = stale /\ request' \in {rest, WithTpg(rest)}
      /\ script' \in {script, Call(key, request[key])}
  BY DEF HandleKey
<1>5. IsScript(script') /\ Shape(key, script')
      /\ \/ Len(script') = 0
         \/ /\ key = "gain" => Len(script') = 5
            /\ key = "exposure" => Len(script') = 6
            /\ key = "fps" => Len(script') = 12
  <2>1. CASE script' = script
    BY <1>1, <2>1, NoScript
  <2>2. CASE script' = Call(key, request[key])
    <3> DEFINE v == request[key]
    <3> HIDE DEF key, v
    <3> QED
      BY <1>2, <2>2, CallHasShape DEF v
  <2> QED
    BY <1>4, <2>1, <2>2
<1> HIDE DEF key, rest
<1>6. ScriptInv'
  <2>1. IsRequest(request')
    BY <1>2, <1>4
  <2> QED
    BY <1>2, <1>4, <1>5, <2>1 DEF ScriptInv
<1>7. /\ ~(key = "gain" /\ Len(script') \in 1..4) /\ ~(key = "exposure" /\ Len(script') \in 1..5)
      /\ ~(key = "fps" /\ Len(script') \in 1..11)
  <2>1. CASE Len(script') = 0
    BY <2>1
  <2>2. CASE key = "gain" /\ Len(script') = 5
    BY <2>2
  <2>3. CASE key = "exposure" /\ Len(script') = 6
    BY <2>3
  <2>4. CASE key = "fps" /\ Len(script') = 12
    BY <2>4
  <2>5. CASE key \notin {"gain", "exposure", "fps"}
    BY <2>5
  <2> QED
    BY <1>5, <2>1, <2>2, <2>3, <2>4, <2>5
<1>8. Held'
  <2>1. "REGHOLD" \in DOMAIN shadow /\ 1 \in DOMAIN shadow["REGHOLD"]
    BY DEF IndInv, Held
  <2> QED
    BY <1>4, <1>7, <2>1 DEF Held, Hold
<1>9. TornIsHeld'
  BY <1>3, <1>4 DEF NothingHalfWritten, TornIsHeld
<1>10. WholeAgain'
  BY <1>4, <1>7 DEF WholeAgain
<1> QED
  BY <1>6, <1>8, <1>9, <1>10 DEF IndInv

(* What a step of a script finds at its head, and leaves of its shape.     *)
LEMMA ScriptShrinks ==
  ASSUME IndInv, script # << >>, script' = Tail(script), serving' = serving, request' = request
  PROVE  ScriptInv' /\ Len(script') = Len(script) - 1 /\ Len(script) \in Nat \ {0}
<1>1. /\ IsScript(Tail(script)) /\ Len(Tail(script)) = Len(script) - 1 /\ Len(script) \in Nat \ {0}
      /\ \A i \in 1..Len(Tail(script)) : At(Tail(script), i) = At(script, i)
  BY AtOfTail DEF IndInv, ScriptInv
<1> DEFINE t == Tail(script)
           n == Len(t)
<1> HIDE DEF t
<1>2. ASSUME NEW after \in Nat, NEW reg, NEW m \in Nat, LatchShape(script, after, reg, m)
      PROVE  LatchShape(t, after, reg, m)
  BY <1>1, <1>2 DEF LatchShape, t
<1>3. Shape(serving, t)
  <2>1. Shape(serving, script) /\ serving \in Keys
    BY DEF IndInv, ScriptInv
  <2>2. CASE serving = "gain"
    BY <1>1, <1>2, <2>1, <2>2 DEF Shape, t
  <2>3. CASE serving = "exposure"
    <3>1. Len(script) <= 6 /\ LatchShape(script, 0, "SHR0", 3) /\ (Len(script) >= 6 => IsFree(At(script, 6)))
      BY <2>1, <2>3 DEF Shape
    <3>2. LatchShape(t, 0, "SHR0", 3)
      BY <1>2, <3>1
    <3>3. Len(t) <= 6 /\ (Len(t) >= 6 => IsFree(At(t, 6)))
      BY <1>1, <3>1 DEF t
    <3> QED
      BY <2>3, <3>2, <3>3 DEF Shape
  <2>4. CASE serving = "fps"
    <3>1. /\ Len(script) <= 12 /\ LatchShape(script, 0, "SHR0", 3) /\ LatchShape(script, 7, "VMAX", 3)
          /\ Len(script) >= 6 => IsFree(At(script, 6))
          /\ Len(script) >= 7 => IsFree(At(script, 7))
      BY <2>1, <2>4 DEF Shape
    <3>2. LatchShape(t, 0, "SHR0", 3) /\ LatchShape(t, 7, "VMAX", 3)
      BY <1>2, <3>1
    <3>3. /\ Len(t) <= 12
          /\ Len(t) >= 6 => IsFree(At(t, 6))
          /\ Len(t) >= 7 => IsFree(At(t, 7))
      BY <1>1, <3>1 DEF t
    <3> QED
      BY <2>4, <3>2, <3>3 DEF Shape
  <2>5. CASE serving \notin {"gain", "exposure", "fps"}
    BY <1>1, <2>1, <2>5 DEF Shape, t
  <2> QED
    BY <2>2, <2>3, <2>4, <2>5
<1>4. ScriptInv'
  BY <1>1, <1>3 DEF IndInv, ScriptInv, t
<1> QED
  BY <1>1, <1>4

(* Where in a call each kind of step is.                                   *)
HeadFits(w, n) ==
  /\ w.kind = "assign" =>
       /\ serving = "gain" => n = 5
       /\ serving = "exposure" => n = 6
       /\ serving = "fps" => n \in {6, 7}
  /\ w.kind = "write" =>
       /\ serving = "gain" =>
            /\ n = 4 => IsHold(w, 1)
            /\ n \in {2, 3} => IsWrite(w, "GAIN", 4 - n)
            /\ n = 1 => IsHold(w, 0)
            /\ n <= 4 \/ IsFree(w)
       /\ serving \in {"exposure", "fps"} =>
            /\ n = 5 => IsHold(w, 1)
            /\ n \in {2, 3, 4} => IsWrite(w, "SHR0", 5 - n)
            /\ n = 1 => IsHold(w, 0)
            /\ n \in {6, 7} => IsFree(w)
            /\ n <= 6 \/ serving = "fps"
       /\ serving = "fps" =>
            /\ n = 12 => IsHold(w, 1)
            /\ n \in {9, 10, 11} => IsWrite(w, "VMAX", 12 - n)
            /\ n = 8 => IsHold(w, 0)
            /\ n <= 12
       /\ serving \notin {"gain", "exposure", "fps"} => IsFree(w)

LEMMA HeadHasShape ==
  ASSUME IndInv, script # << >>
  PROVE  HeadFits(Head(script), Len(script))
<1>1. Len(script) \in Nat \ {0} /\ Head(script) = At(script, Len(script))
  BY AtOfTail DEF IndInv, ScriptInv
<1>2. Shape(serving, script) /\ serving \in Keys
  BY DEF IndInv, ScriptInv
<1> DEFINE w == Head(script)
           n == Len(script)
<1> HIDE DEF w, n
<1>3. n \in Nat \ {0} /\ w = At(script, n) /\ Len(script) = n
  BY <1>1 DEF w, n
<1> SUFFICES HeadFits(w, n)
  BY DEF w, n
<1>4. ASSUME NEW after \in Nat, NEW reg, NEW m \in Nat, LatchShape(script, after, reg, m)
      PROVE  /\ n = after + 1 => IsHold(w, 0)
             /\ \A k \in 1..m : n = after + 1 + k => IsWrite(w, reg, m + 1 - k)
             /\ n = after + m + 2 => IsHold(w, 1)
  BY <1>3, <1>4 DEF LatchShape, n
<1>5. \A v : IsHold(w, v) => w.kind = "write"
  BY DEF IsHold, IsWrite
<1>6. \A reg, byte : IsWrite(w, reg, byte) => w.kind = "write"
  BY DEF IsWrite
<1>7. CASE serving = "gain"
  <2>1. n \in 1..5 /\ LatchShape(script, 0, "GAIN", 2) /\ (n = 5 => IsFree(w))
    BY <1>2, <1>3, <1>7 DEF Shape
  <2>2. /\ n = 1 => IsHold(w, 0)
        /\ n = 2 => IsWrite(w, "GAIN", 2)
        /\ n = 3 => IsWrite(w, "GAIN", 1)
        /\ n = 4 => IsHold(w, 1)
    BY <1>4, <2>1
  <2> QED
    BY <1>5, <1>6, <1>7, <2>1, <2>2 DEF HeadFits
<1>8. ASSUME LatchShape(script, 0, "SHR0", 3)
      PROVE  /\ n = 1 => IsHold(w, 0)
             /\ n = 2 => IsWrite(w, "SHR0", 3)
             /\ n = 3 => IsWrite(w, "SHR0", 2)
             /\ n = 4 => IsWrite(w, "SHR0", 1)
             /\ n = 5 => IsHold(w, 1)
  BY <1>3, <1>4, <1>8
<1>9. CASE serving = "exposure"
  <2>1. n \in 1..6 /\ LatchShape(script, 0, "SHR0", 3) /\ (n = 6 => IsFree(w))
    BY <1>2, <1>3, <1>9 DEF Shape
  <2> QED
    BY <1>5, <1>6, <1>8, <1>9, <2>1 DEF HeadFits
<1>10. CASE serving = "fps"
  <2>1. /\ n \in 1..12 /\ LatchShape(script, 0, "SHR0", 3) /\ LatchShape(script, 7, "VMAX", 3)
        /\ n = 6 => IsFree(w)
        /\ n = 7 => IsFree(w)
    BY <1>2, <1>3, <1>10 DEF Shape
  <2>2. /\ n = 8 => IsHold(w, 0)
        /\ n = 9 => IsWrite(w, "VMAX", 3)
        /\ n = 10 => IsWrite(w, "VMAX", 2)
        /\ n = 11 => IsWrite(w, "VMAX", 1)
        /\ n = 12 => IsHold(w, 1)
    BY <1>4, <2>1
  <2> QED
    BY <1>5, <1>6, <1>8, <1>10, <2>1, <2>2 DEF HeadFits
<1>11. CASE serving \notin {"gain", "exposure", "fps"}
  <2>1. \A i \in 1..n : IsFree(At(script, i))
    BY <1>2, <1>11 DEF Shape, n
  <2>2. IsFree(w)
    BY <1>3, <2>1
  <2> QED
    BY <1>11, <2>2 DEF HeadFits
<1> QED
  BY <1>7, <1>9, <1>10, <1>11

LEMMA AssignKeeps ==
  ASSUME IndInv, DoAssign
  PROVE  IndInv'
<1>1. /\ script # << >> /\ Head(script).kind = "assign" /\ script' = Tail(script)
      /\ shadow' = shadow /\ request' = request /\ torn' = torn /\ serving' = serving /\ stale' = StillStale
  BY DEF DoAssign
<1>2. ScriptInv' /\ Len(script') = Len(script) - 1 /\ Len(script) \in Nat \ {0}
  BY <1>1, ScriptShrinks
<1> DEFINE n == Len(script)
           m == Len(script')
<1>3. HeadFits(Head(script), n)
  BY <1>1, HeadHasShape
<1> HIDE DEF n, m
<1>4. m = n - 1 /\ n \in Nat \ {0}
  BY <1>2 DEF m, n
<1>5. /\ serving = "gain" => n = 5
      /\ serving = "exposure" => n = 6
      /\ serving = "fps" => n \in {6, 7}
  BY <1>1, <1>3 DEF HeadFits
<1>6. Held'
  <2>1. "REGHOLD" \in DOMAIN shadow /\ 1 \in DOMAIN shadow["REGHOLD"]
    BY DEF IndInv, Held
  <2>2. /\ ~(serving = "gain" /\ m \in 1..3) /\ ~(serving \in {"exposure", "fps"} /\ m \in 1..4)
        /\ ~(serving = "fps" /\ m \in 8..11)
    BY <1>4, <1>5
  <2> QED
    BY <1>1, <2>1, <2>2 DEF Held, m
<1>7. TornIsHeld'
  <2>1. NothingHalfWritten
    <3>1. /\ ~(serving = "gain" /\ n = 2) /\ ~(serving \in {"exposure", "fps"} /\ n \in {2, 3})
          /\ ~(serving = "fps" /\ n \in {9, 10})
      BY <1>5
    <3> QED
      BY <3>1 DEF IndInv, TornIsHeld, NothingHalfWritten, n
  <2>2. \A key \in {"gain", "fps", "exposure"} : key \in stale' <=> key \in stale
    <3>1. Len(script) = 1 => serving \notin {"gain", "fps", "exposure"}
      BY <1>5 DEF n
    <3>2. CASE Len(script) = 1
      BY <1>1, <3>1, <3>2 DEF StillStale, Completed
    <3>3. CASE Len(script) # 1
      BY <1>1, <3>3 DEF StillStale
    <3> QED
      BY <3>2, <3>3
  <2> QED
    BY <1>1, <2>1, <2>2 DEF TornIsHeld, NothingHalfWritten
<1>8. WholeAgain'
  <2>1. WholeAgain
    BY DEF IndInv
  <2>2. /\ ~(serving = "gain" /\ m = 1) /\ ~(serving \in {"exposure", "fps"} /\ m = 1)
        /\ serving = "fps" /\ m \in 1..8 => n \in 1..8
    BY <1>4, <1>5
  <2> QED
    BY <1>1, <2>1, <2>2 DEF WholeAgain, m, n
<1> QED
  BY <1>2, <1>6, <1>7, <1>8 DEF IndInv

(* A failed transaction ends the call; what it may have torn is its own.   *)
LEMMA FailureKeeps ==
  ASSUME IndInv, WriteFails
  PROVE  IndInv'
<1> DEFINE w == Head(script)
           n == Len(script)
<1>1. /\ script # << >> /\ w.kind = "write" /\ script' = << >> /\ request' = << >> /\ serving' = serving
      /\ shadow' \in {shadow, Written} /\ stale' = stale \cup {serving}
      /\ torn' = IF Bytes[w.reg] > 1 THEN torn \cup {w.reg} ELSE torn
  BY DEF WriteFails
<1>2. HeadFits(w, n) /\ serving \in Keys /\ n \in Nat \ {0}
  BY <1>1, HeadHasShape, AtOfTail DEF IndInv, ScriptInv
<1> HIDE DEF w, n
<1>3. IsScript(script') /\ Len(script') = 0 /\ \A key : Shape(key, script')
  <2>1. IsScript(<< >>) /\ Len(<< >>) = 0
    BY DEF IsScript, Elems
  <2> QED
    BY <1>1, <2>1 DEF Shape, LatchShape
<1>4. ScriptInv'
  <2>1. IsRequest(request')
    BY <1>1 DEF IsRequest
  <2> QED
    BY <1>1, <1>2, <1>3, <2>1 DEF ScriptInv
<1>5. Held'
  <2>1. "REGHOLD" \in DOMAIN shadow /\ 1 \in DOMAIN shadow["REGHOLD"]
    BY DEF IndInv, Held
  <2>2. "REGHOLD" \in DOMAIN shadow' /\ 1 \in DOMAIN shadow'["REGHOLD"]
    BY <1>1, <2>1 DEF Written
  <2> QED
    BY <1>3, <2>2 DEF Held
<1>6. TornIsHeld'
  <2>1. TornIsHeld
    BY DEF IndInv
  <2>2. w.reg = "GAIN" => serving = "gain"
    BY <1>1, <1>2 DEF HeadFits, IsHold, IsWrite, IsFree
  <2>3. w.reg = "SHR0" => serving \in {"exposure", "fps"}
    BY <1>1, <1>2 DEF HeadFits, IsHold, IsWrite, IsFree
  <2>4. w.reg = "VMAX" => serving = "fps"
    BY <1>1, <1>2 DEF HeadFits, IsHold, IsWrite, IsFree
  <2>5. torn' \subseteq torn \cup {w.reg}
    BY <1>1
  <2>6. "GAIN" \in torn' => "gain" \in stale'
    BY <1>1, <2>1, <2>2, <2>5 DEF TornIsHeld
  <2>7. "SHR0" \in torn' => stale' \cap {"fps", "exposure"} # {}
    BY <1>1, <2>1, <2>3, <2>5 DEF TornIsHeld
  <2>8. "VMAX" \in torn' => "fps" \in stale'
    BY <1>1, <2>1, <2>4, <2>5 DEF TornIsHeld
  <2> QED
    BY <2>6, <2>7, <2>8 DEF TornIsHeld
<1>7. WholeAgain'
  BY <1>3 DEF WholeAgain
<1> QED
  BY <1>4, <1>5, <1>6, <1>7 DEF IndInv

(* The places a write has in a call of n steps to go.                      *)
Places(w, n) ==
  \/ IsHold(w, 0) /\ (n = 1 \/ (serving = "fps" /\ n = 8))
  \/ IsHold(w, 1) /\ \/ serving = "gain" /\ n = 4
                     \/ serving \in {"exposure", "fps"} /\ n = 5
                     \/ serving = "fps" /\ n = 12
  \/ serving = "gain" /\ n \in {2, 3} /\ IsWrite(w, "GAIN", 4 - n)
  \/ serving \in {"exposure", "fps"} /\ n \in {2, 3, 4} /\ IsWrite(w, "SHR0", 5 - n)
  \/ serving = "fps" /\ n \in {9, 10, 11} /\ IsWrite(w, "VMAX", 12 - n)
  \/ IsFree(w) /\ \/ serving = "gain" /\ n > 4
                  \/ serving = "exposure" /\ n = 6
                  \/ serving = "fps" /\ n \in {6, 7}
                  \/ serving \notin {"gain", "exposure", "fps"}

LEMMA WritesHavePlaces ==
  ASSUME NEW w, w.kind = "write", NEW n \in Nat \ {0}, HeadFits(w, n)
  PROVE  Places(w, n)
<1>1. CASE serving = "gain"
  BY <1>1 DEF HeadFits, Places
<1>2. CASE serving = "exposure"
  BY <1>2 DEF HeadFits, Places
<1>3. CASE serving = "fps"
  BY <1>3 DEF HeadFits, Places
<1>4. CASE serving \notin {"gain", "exposure", "fps"}
  BY <1>4 DEF HeadFits, Places
<1> QED
  BY <1>1, <1>2, <1>3, <1>4

(* What a written byte does to REGHOLD and to the torn registers.          *)
LEMMA WriteEffects ==
  ASSUME IndInv, DoWrite
  PROVE  LET w == Head(script)
             n == Len(script)
         IN /\ ScriptInv' /\ Len(script') = n - 1 /\ n \in Nat \ {0} /\ serving' = serving
            /\ Places(w, n)
            /\ "REGHOLD" \in DOMAIN shadow' /\ 1 \in DOMAIN shadow'["REGHOLD"]
            /\ IsHold(w, 1) => Hold' = 1
            /\ w.reg # "REGHOLD" => Hold' = Hold
            /\ stale' = IF n = 1 THEN stale \ Completed ELSE stale
            /\ \A reg : reg \in torn' => reg \in torn \/ (reg = w.reg /\ w.byte < Bytes[reg])
            /\ w.reg \in torn' => w.byte < Bytes[w.reg]
<1> DEFINE w == Head(script)
           n == Len(script)
<1>1. /\ script # << >> /\ w.kind = "write" /\ script' = Tail(script) /\ shadow' = Written
      /\ request' = request /\ serving' = serving
      /\ stale' = IF n = 1 THEN stale \ Completed ELSE stale
      /\ torn' = IF w.byte < Bytes[w.reg] THEN torn \cup {w.reg} ELSE torn \ {w.reg}
  BY DEF DoWrite, Tear, StillStale
<1>2. ScriptInv' /\ Len(script') = n - 1 /\ n \in Nat \ {0} /\ HeadFits(w, n)
  BY <1>1, ScriptShrinks, HeadHasShape
<1>3. shadow' = [shadow EXCEPT ![w.reg][w.byte] = w.value]
  BY <1>1 DEF Written
<1>4. "REGHOLD" \in DOMAIN shadow /\ 1 \in DOMAIN shadow["REGHOLD"]
  BY DEF IndInv, Held
<1> HIDE DEF w, n
<1>5. "REGHOLD" \in DOMAIN shadow' /\ 1 \in DOMAIN shadow'["REGHOLD"]
  BY <1>3, <1>4
<1>6. IsHold(w, 1) => Hold' = 1
  BY <1>3, <1>4 DEF IsHold, IsWrite, Hold
<1>7. w.reg # "REGHOLD" => Hold' = Hold
  BY <1>3, <1>4 DEF Hold
<1>8. Places(w, n)
  BY <1>1, <1>2, WritesHavePlaces
<1>9. /\ \A reg : reg \in torn' => reg \in torn \/ (reg = w.reg /\ w.byte < Bytes[reg])
      /\ w.reg \in torn' => w.byte < Bytes[w.reg]
  BY <1>1
<1> QED
  BY <1>1, <1>2, <1>5, <1>6, <1>7, <1>8, <1>9 DEF w, n

LEMMA WriteKeeps ==
  ASSUME IndInv, DoWrite
  PROVE  IndInv'
<1> DEFINE w == Head(script)
           n == Len(script)
           m == Len(script')
<1>1. /\ ScriptInv' /\ m = n - 1 /\ n \in Nat \ {0} /\ serving' = serving /\ Places(w, n)
      /\ "REGHOLD" \in DOMAIN shadow' /\ 1 \in DOMAIN shadow'["REGHOLD"]
      /\ IsHold(w, 1) => Hold' = 1
      /\ w.reg # "REGHOLD" => Hold' = Hold
      /\ stale' = IF n = 1 THEN stale \ Completed ELSE stale
      /\ \A reg : reg \in torn' => reg \in torn \/ (reg = w.reg /\ w.byte < Bytes[reg])
      /\ w.reg \in torn' => w.byte < Bytes[w.reg]
  BY WriteEffects
<1>2. /\ Held /\ TornIsHeld /\ WholeAgain /\ serving \in Keys
  BY DEF IndInv, ScriptInv
<1>3. Len(script) = n /\ Len(script') = m
  OBVIOUS
<1>4. w.kind = "write"
  BY DEF DoWrite
<1> HIDE DEF w, n, m
<1>5. Bytes["GAIN"] = 2 /\ Bytes["SHR0"] = 3 /\ Bytes["VMAX"] = 3
  BY DEF Bytes
<1>6. m = n - 1 /\ n \in Nat \ {0} /\ Places(w, n)
  BY <1>1
<1>7. /\ w.reg = "GAIN" => serving = "gain" /\ n \in {2, 3} /\ w.byte = 4 - n
      /\ w.reg = "SHR0" => serving \in {"exposure", "fps"} /\ n \in {2, 3, 4} /\ w.byte = 5 - n
      /\ w.reg = "VMAX" => serving = "fps" /\ n \in {9, 10, 11} /\ w.byte = 12 - n
  <2>1. IsFree(w) => w.kind = "assign" \/ w.reg \in {"BLKLEVEL", "TPG_EN", "PATSEL"}
    BY DEF IsFree
  <2>2. w.kind = "write"
    BY <1>4
  <2>3. \A v : IsHold(w, v) => w.reg = "REGHOLD"
    BY DEF IsHold, IsWrite
  <2>4. \A reg, byte : IsWrite(w, reg, byte) => w.reg = reg /\ w.byte = byte
    BY DEF IsWrite
  <2> QED
    BY <1>6, <2>1, <2>2, <2>3, <2>4 DEF Places
<1>8. Held'
  <2>1. \/ IsHold(w, 1)
        \/ /\ w.reg # "REGHOLD"
           /\ serving = "gain" /\ m \in 1..3 => n \in 1..3
           /\ serving \in {"exposure", "fps"} /\ m \in 1..4 => n \in 1..4
           /\ serving = "fps" /\ m \in 8..11 => n \in 8..11
        \/ m = 0
        \/ serving = "fps" /\ m = 7
    <3>1. CASE IsHold(w, 0)
      BY <1>4, <1>6, <3>1 DEF Places, IsHold, IsWrite, IsFree
    <3>2. CASE w.reg = "REGHOLD" /\ ~IsHold(w, 0)
      BY <1>4, <1>6, <3>2 DEF Places, IsWrite, IsFree
    <3>3. CASE w.reg # "REGHOLD"
      BY <1>4, <1>6, <3>3 DEF Places, IsHold, IsWrite, IsFree
    <3> QED
      BY <3>1, <3>2, <3>3
  <2> QED
    BY <1>1, <1>2, <1>3, <2>1 DEF Held
<1>9. "GAIN" \in torn' /\ "gain" \notin stale' => serving = "gain" /\ m = 2
  <2> SUFFICES ASSUME "GAIN" \in torn', "gain" \notin stale'
               PROVE  serving = "gain" /\ m = 2
    OBVIOUS
  <2>1. CASE w.reg = "GAIN"
    <3>1. w.byte < 2
      BY <1>1, <1>5, <2>1
    <3>2. serving = "gain" /\ n \in {2, 3} /\ w.byte = 4 - n
      BY <1>7, <2>1
    <3> QED
      BY <1>1, <3>1, <3>2
  <2>2. CASE w.reg # "GAIN"
    <3>1. "GAIN" \in torn
      BY <1>1, <2>2
    <3>2. "gain" \in stale \/ (serving = "gain" /\ n = 2)
      BY <1>2, <1>3, <3>1 DEF TornIsHeld
    <3>3. CASE serving = "gain" /\ n = 2
      BY <1>1, <2>2, <3>3 DEF Places, IsHold, IsWrite
    <3>4. CASE "gain" \in stale
      <4>1. n = 1 /\ serving = "gain"
        BY <1>1, <3>4 DEF Completed
      <4> QED
        BY <1>2, <1>3, <3>1, <4>1 DEF WholeAgain
    <3> QED
      BY <3>2, <3>3, <3>4
  <2> QED
    BY <2>1, <2>2
<1>10. "SHR0" \in torn' /\ stale' \cap {"fps", "exposure"} = {} => serving \in {"exposure", "fps"} /\ m \in {2, 3}
  <2> SUFFICES ASSUME "SHR0" \in torn', stale' \cap {"fps", "exposure"} = {}
               PROVE  serving \in {"exposure", "fps"} /\ m \in {2, 3}
    OBVIOUS
  <2>1. CASE w.reg = "SHR0"
    <3>1. w.byte < 3
      BY <1>1, <1>5, <2>1
    <3>2. serving \in {"exposure", "fps"} /\ n \in {2, 3, 4} /\ w.byte = 5 - n
      BY <1>7, <2>1
    <3> QED
      BY <1>1, <3>1, <3>2
  <2>2. CASE w.reg # "SHR0"
    <3>1. "SHR0" \in torn
      BY <1>1, <2>2
    <3>2. stale \cap {"fps", "exposure"} # {} \/ (serving \in {"exposure", "fps"} /\ n \in {2, 3})
      BY <1>2, <1>3, <3>1 DEF TornIsHeld
    <3>3. CASE serving \in {"exposure", "fps"} /\ n \in {2, 3}
      BY <1>1, <2>2, <3>3 DEF Places, IsHold, IsWrite, IsFree
    <3>4. CASE stale \cap {"fps", "exposure"} # {}
      <4>1. n = 1 /\ serving \in {"exposure", "fps"}
        BY <1>1, <3>4 DEF Completed
      <4> QED
        BY <1>2, <1>3, <3>1, <4>1 DEF WholeAgain
    <3> QED
      BY <3>2, <3>3, <3>4
  <2> QED
    BY <2>1, <2>2
<1>11. "VMAX" \in torn' /\ "fps" \notin stale' => serving = "fps" /\ m \in {9, 10}
  <2> SUFFICES ASSUME "VMAX" \in torn', "fps" \notin stale'
               PROVE  serving = "fps" /\ m \in {9, 10}
    OBVIOUS
  <2>1. CASE w.reg = "VMAX"
    <3>1. w.byte < 3
      BY <1>1, <1>5, <2>1
    <3>2. serving = "fps" /\ n \in {9, 10, 11} /\ w.byte = 12 - n
      BY <1>7, <2>1
    <3> QED
      BY <1>1, <3>1, <3>2
  <2>2. CASE w.reg # "VMAX"
    <3>1. "VMAX" \in torn
      BY <1>1, <2>2
    <3>2. "fps" \in stale \/ (serving = "fps" /\ n \in {9, 10})
      BY <1>2, <1>3, <3>1 DEF TornIsHeld
    <3>3. CASE serving = "fps" /\ n \in {9, 10}
      BY <1>1, <2>2, <3>3 DEF Places, IsHold, IsWrite, IsFree
    <3>4. CASE "fps" \in stale
      <4>1. n = 1 /\ serving = "fps"
        BY <1>1, <3>4 DEF Completed
      <4> QED
        BY <1>2, <1>3, <3>1, <4>1 DEF WholeAgain
    <3> QED
      BY <3>2, <3>3, <3>4
  <2> QED
    BY <2>1, <2>2
<1>12. TornIsHeld'
  BY <1>1, <1>3, <1>9, <1>10, <1>11 DEF TornIsHeld
<1>13. WholeAgain'
  <2>1. serving = "gain" /\ m = 1 => "GAIN" \notin torn'
    <3> SUFFICES ASSUME serving = "gain", m = 1
                 PROVE  "GAIN" \notin torn'
      OBVIOUS
    <3>1. w.reg = "GAIN" /\ w.byte = 2
      BY <1>1 DEF Places, IsHold, IsWrite, IsFree
    <3> QED
      BY <1>1, <1>5, <3>1
  <2>2. serving \in {"exposure", "fps"} /\ m = 1 => "SHR0" \notin torn'
    <3> SUFFICES ASSUME serving \in {"exposure", "fps"}, m = 1
                 PROVE  "SHR0" \notin torn'
      OBVIOUS
    <3>1. w.reg = "SHR0" /\ w.byte = 3
      BY <1>1 DEF Places, IsHold, IsWrite, IsFree
    <3> QED
      BY <1>1, <1>5, <3>1
  <2>3. serving = "fps" /\ m \in 1..8 => "VMAX" \notin torn'
    <3> SUFFICES ASSUME serving = "fps", m \in 1..8
                 PROVE  "VMAX" \notin torn'
      OBVIOUS
    <3>1. CASE n = 9
      <4>1. w.reg = "VMAX" /\ w.byte = 3
        BY <1>1, <3>1 DEF Places, IsHold, IsWrite, IsFree
      <4> QED
        BY <1>1, <1>5, <4>1
    <3>2. CASE n \in 2..8
      <4>1. w.reg # "VMAX"
        BY <1>7, <3>2
      <4>2. "VMAX" \notin torn
        BY <1>2, <1>3, <3>2 DEF WholeAgain
      <4> QED
        BY <1>1, <4>1, <4>2
    <3> QED
      BY <1>1, <3>1, <3>2
  <2> QED
    BY <1>1, <1>3, <2>1, <2>2, <2>3 DEF WholeAgain
<1> QED
  BY <1>1, <1>8, <1>12, <1>13 DEF IndInv

LEMMA StutterKeeps ==
  ASSUME IndInv, UNCHANGED vars
  PROVE  IndInv'
<1>1. /\ request' = request /\ script' = script /\ serving' = serving /\ torn' = torn /\ shadow' = shadow
      /\ stale' = stale
  BY DEF vars
<1>2. ScriptInv'
  BY <1>1 DEF IndInv, ScriptInv, Shape, LatchShape, At, IsHold, IsWrite, IsFree, IsScript, Elems, IsRequest
<1>3. Held' /\ TornIsHeld' /\ WholeAgain'
  BY <1>1 DEF IndInv, Held, Hold, TornIsHeld, WholeAgain
<1> QED
  BY <1>2, <1>3 DEF IndInv

(* The invariant is inductive for any registers' base, limits, requests    *)
(* and pattern of failed transactions.                                     *)
THEOREM Inductive == Spec => []IndInv
<1>1. Init => IndInv
  BY InitEstablishes
<1>2. IndInv /\ [Next]_vars => IndInv'
  BY ApplyKeeps, HandleKeyKeeps, AssignKeeps, WriteKeeps, FailureKeeps, StutterKeeps DEF Next
<1> QED
  BY <1>1, <1>2, PTL DEF Spec

(* A frame never takes over a half written VMAX, SHR0 or gain, wherever    *)
(* its start falls between the transactions of NativeImx676Sensor, unless  *)
(* the call that writes the register failed and was not repeated.          *)
THEOREM OnlyWholeRegistersAreLatched == Spec => []LatchedWhole
<1>1. IndInv => LatchedWhole
  BY DEF IndInv, Held, TornIsHeld, Hold, LatchedWhole
<1> QED
  BY <1>1, Inductive, PTL
-----------------------------------------------------------------------------
(***************************************************************************)
(* Second part: what the sensor is programmed with between requests.       *)
(*                                                                         *)
(* Here the order of the steps does not matter, only which steps are left: *)
(* every byte a call writes is written once (REGHOLD apart), so that what  *)
(* a byte Will hold when the call has returned is known from its start.    *)
(***************************************************************************)
W(reg, i, v) == [kind |-> "write", reg |-> reg, byte |-> i, value |-> v]
A(field, v) == [kind |-> "assign", field |-> field, value |-> v]
WriteSet(reg, v) == {W(reg, i, Digit(v, i)) : i \in 1..Bytes[reg]}
HoldSet == {W("REGHOLD", 1, 1), W("REGHOLD", 1, 0)}

LEMMA ElemsOfEmpty == Elems(<< >>) = {}
  BY DEF Elems

LEMMA ElemsOfConcat ==
  ASSUME NEW s, IsScript(s), NEW t, IsScript(t)
  PROVE  IsScript(s \o t) /\ Elems(s \o t) = Elems(s) \cup Elems(t)
<1> DEFINE E == Elems(s) \cup Elems(t)
           u == s \o t
<1>1. s \in Seq(E) /\ t \in Seq(E)
  BY DEF IsScript
<1>2. DOMAIN s = 1..Len(s) /\ DOMAIN t = 1..Len(t) /\ Len(s) \in Nat /\ Len(t) \in Nat
  BY <1>1
<1> HIDE DEF E
<1>3. /\ u \in Seq(E) /\ DOMAIN u = 1..(Len(s) + Len(t))
      /\ \A i \in 1..(Len(s) + Len(t)) : u[i] = IF i <= Len(s) THEN s[i] ELSE t[i - Len(s)]
  BY <1>1
<1> HIDE DEF u
<1>4. \A i \in DOMAIN u : u[i] \in Elems(s) \cup Elems(t)
  <2> TAKE i \in DOMAIN u
  <2>1. CASE i <= Len(s)
    <3>1. i \in DOMAIN s /\ u[i] = s[i]
      BY <1>2, <1>3, <2>1
    <3> QED
      BY <3>1 DEF Elems
  <2>2. CASE i > Len(s)
    <3>1. i - Len(s) \in DOMAIN t /\ u[i] = t[i - Len(s)]
      BY <1>2, <1>3, <2>2
    <3> QED
      BY <3>1 DEF Elems
  <2> QED
    BY <1>2, <1>3, <2>1, <2>2
<1>5. \A i \in DOMAIN s : s[i] \in Elems(u)
  <2> TAKE i \in DOMAIN s
  <2>1. i \in DOMAIN u /\ u[i] = s[i]
    BY <1>2, <1>3
  <2> QED
    BY <2>1 DEF Elems
<1>6. \A i \in DOMAIN t : t[i] \in Elems(u)
  <2> TAKE i \in DOMAIN t
  <2>1. Len(s) + i \in DOMAIN u /\ u[Len(s) + i] = t[i]
    BY <1>2, <1>3
  <2> QED
    BY <2>1 DEF Elems
<1>7. Elems(u) = Elems(s) \cup Elems(t)
  BY <1>4, <1>5, <1>6 DEF Elems
<1>8. IsScript(u)
  BY <1>3, SequencesAreScripts
<1> QED
  BY <1>7, <1>8 DEF u

LEMMA ElemsOfTail ==
  ASSUME NEW s, IsScript(s), s # << >>
  PROVE  IsScript(Tail(s)) /\ Elems(s) = Elems(Tail(s)) \cup {Head(s)}
<1>1. IsScript(Tail(s))
  BY AtOfTail
<1>2. s \in Seq(Elems(s)) /\ Len(s) \in Nat \ {0} /\ DOMAIN s = 1..Len(s)
  BY DEF IsScript
<1>3. /\ Head(s) = s[1] /\ DOMAIN Tail(s) = 1..(Len(s) - 1)
      /\ \A i \in 1..(Len(s) - 1) : Tail(s)[i] = s[i + 1]
  BY <1>2
<1> DEFINE t == Tail(s)
           h == Head(s)
<1> HIDE DEF t, h
<1>4. h = s[1] /\ DOMAIN t = 1..(Len(s) - 1) /\ \A i \in 1..(Len(s) - 1) : t[i] = s[i + 1]
  BY <1>3 DEF t, h
<1>5. \A i \in DOMAIN s : s[i] \in Elems(t) \cup {h}
  <2> TAKE i \in DOMAIN s
  <2>1. CASE i = 1
    BY <1>4, <2>1
  <2>2. CASE i # 1
    <3>1. i - 1 \in DOMAIN t /\ t[i - 1] = s[i]
      BY <1>2, <1>4, <2>2
    <3> QED
      BY <3>1 DEF Elems
  <2> QED
    BY <2>1, <2>2
<1>6. h \in Elems(s)
  BY <1>2, <1>4 DEF Elems
<1>7. \A i \in DOMAIN t : t[i] \in Elems(s)
  <2> TAKE i \in DOMAIN t
  <2>1. i + 1 \in DOMAIN s /\ s[i + 1] = t[i]
    BY <1>2, <1>4
  <2> QED
    BY <2>1 DEF Elems
<1>8. Elems(s) = Elems(t) \cup {h}
  BY <1>5, <1>6, <1>7 DEF Elems
<1> QED
  BY <1>1, <1>8 DEF t, h

LEMMA ElemsOfWrite ==
  ASSUME NEW reg \in Registers, NEW v
  PROVE  IsScript(Write(reg, v)) /\ Elems(Write(reg, v)) = WriteSet(reg, v)
<1>1. IsScript(Write(reg, v))
  BY WriteHasShape
<1>2. DOMAIN Write(reg, v) = 1..Bytes[reg] /\ \A i \in 1..Bytes[reg] : Write(reg, v)[i] = W(reg, i, Digit(v, i))
  BY DEF Write, W
<1> DEFINE s == Write(reg, v)
<1> HIDE DEF s
<1>3. DOMAIN s = 1..Bytes[reg] /\ \A i \in 1..Bytes[reg] : s[i] = W(reg, i, Digit(v, i))
  BY <1>2 DEF s
<1>4. Elems(s) = WriteSet(reg, v)
  BY <1>3 DEF Elems, WriteSet
<1> QED
  BY <1>1, <1>4 DEF s

LEMMA ElemsOfAssign ==
  ASSUME NEW field, NEW v
  PROVE  IsScript(Assign(field, v)) /\ Elems(Assign(field, v)) = {A(field, v)}
<1>1. IsScript(Assign(field, v))
  BY AssignHasShape
<1>2. Elems(Assign(field, v)) = {A(field, v)}
  BY DEF Assign, Elems, A
<1> QED
  BY <1>1, <1>2

LEMMA SmallDigits ==
  ASSUME NEW v \in 0..(Base - 1)
  PROVE  Digit(v, 1) = v
<1>1. Base \in Nat /\ Base > 1 /\ Weights[1] = 1
  BY SensorAssumption DEF SensorAssumption, Weights
<1>2. v \div 1 = v /\ v % Base = v
  BY <1>1
<1> QED
  BY <1>1, <1>2 DEF Digit

LEMMA BinaryDigits == Digit(0, 1) = 0 /\ Digit(1, 1) = 1
<1>1. 0 \in 0..(Base - 1) /\ 1 \in 0..(Base - 1)
  BY SensorAssumption DEF SensorAssumption
<1> QED
  BY <1>1, SmallDigits

LEMMA ElemsOfHold ==
  ASSUME NEW v \in {0, 1}
  PROVE  IsScript(Write("REGHOLD", v)) /\ Elems(Write("REGHOLD", v)) = {W("REGHOLD", 1, v)}
<1>1. "REGHOLD" \in Registers /\ Bytes["REGHOLD"] = 1
  BY DEF Registers, Bytes
<1>2. IsScript(Write("REGHOLD", v)) /\ Elems(Write("REGHOLD", v)) = WriteSet("REGHOLD", v)
  BY <1>1, ElemsOfWrite
<1>3. Digit(v, 1) = v
  BY BinaryDigits
<1>4. WriteSet("REGHOLD", v) = {W("REGHOLD", 1, v)}
  BY <1>1, <1>3 DEF WriteSet
<1> QED
  BY <1>2, <1>4

LEMMA ElemsOfLatched ==
  ASSUME NEW reg \in Registers, NEW v
  PROVE  IsScript(Latched(reg, v)) /\ Elems(Latched(reg, v)) = HoldSet \cup WriteSet(reg, v)
<1> DEFINE on == Write("REGHOLD", 1)
           off == Write("REGHOLD", 0)
           w == Write(reg, v)
<1>1. IsScript(on) /\ Elems(on) = {W("REGHOLD", 1, 1)} /\ IsScript(off) /\ Elems(off) = {W("REGHOLD", 1, 0)}
  BY ElemsOfHold
<1>2. IsScript(w) /\ Elems(w) = WriteSet(reg, v)
  BY ElemsOfWrite
<1>3. Latched(reg, v) = (on \o w) \o off
  BY DEF Latched
<1> HIDE DEF on, off, w
<1>4. IsScript(on \o w) /\ Elems(on \o w) = Elems(on) \cup Elems(w)
  BY <1>1, <1>2, ElemsOfConcat
<1> DEFINE s == on \o w
<1> HIDE DEF s
<1>5. IsScript(s \o off) /\ Elems(s \o off) = Elems(s) \cup Elems(off)
  BY <1>1, <1>4, ElemsOfConcat DEF s
<1> QED
  BY <1>1, <1>2, <1>3, <1>4, <1>5 DEF s, HoldSet

LEMMA ElemsOfExposure ==
  ASSUME NEW vmax, NEW e
  PROVE  /\ IsScript(SetExposure(vmax, e))
         /\ Elems(SetExposure(vmax, e)) =
              {A("exposure", e)} \cup (HoldSet \cup WriteSet("SHR0", Shr0ForExposure(vmax, e)))
<1>1. "SHR0" \in Registers
  BY DEF Registers, Bytes
<1> DEFINE a == Assign("exposure", e)
           x == Shr0ForExposure(vmax, e)
           l == Latched("SHR0", x)
<1>2. IsScript(a) /\ Elems(a) = {A("exposure", e)}
  BY ElemsOfAssign
<1>3. IsScript(l) /\ Elems(l) = HoldSet \cup WriteSet("SHR0", x)
  BY <1>1, ElemsOfLatched
<1>4. SetExposure(vmax, e) = a \o l
  BY DEF SetExposure
<1> HIDE DEF a, l, x
<1>5. IsScript(a \o l) /\ Elems(a \o l) = Elems(a) \cup Elems(l)
  BY <1>2, <1>3, ElemsOfConcat
<1> QED
  BY <1>2, <1>3, <1>4, <1>5 DEF x

LEMMA ElemsOfFrameRate ==
  ASSUME NEW v
  PROVE  LET e == cache.exposure
         IN /\ IsScript(SetFrameRate(v))
            /\ Elems(SetFrameRate(v)) =
                 {A("vmax", v), A("exposure", e)} \cup HoldSet \cup WriteSet("VMAX", v)
                   \cup WriteSet("SHR0", Shr0ForExposure(v, e))
<1>1. "VMAX" \in Registers
  BY DEF Registers, Bytes
<1> DEFINE e == cache.exposure
           l == Latched("VMAX", v)
           a == Assign("vmax", v)
           x == SetExposure(v, e)
<1>2. IsScript(a) /\ Elems(a) = {A("vmax", v)}
  BY ElemsOfAssign
<1>3. IsScript(l) /\ Elems(l) = HoldSet \cup WriteSet("VMAX", v)
  BY <1>1, ElemsOfLatched
<1>4. IsScript(x)
      /\ Elems(x) = {A("exposure", e)} \cup (HoldSet \cup WriteSet("SHR0", Shr0ForExposure(v, e)))
  BY ElemsOfExposure
<1>5. SetFrameRate(v) = (l \o a) \o x
  BY <1>2, <1>3, <1>4 DEF SetFrameRate, IsScript
<1> HIDE DEF a, l, x
<1>6. IsScript(l \o a) /\ Elems(l \o a) = Elems(l) \cup Elems(a)
  BY <1>2, <1>3, ElemsOfConcat
<1> DEFINE s == l \o a
<1> HIDE DEF s
<1>7. IsScript(s \o x) /\ Elems(s \o x) = Elems(s) \cup Elems(x)
  BY <1>4, <1>6, ElemsOfConcat DEF s
<1> QED
  BY <1>2, <1>3, <1>4, <1>5, <1>6, <1>7 DEF s

LEMMA ElemsOfGain ==
  ASSUME NEW v
  PROVE  IsScript(SetGain(v)) /\ Elems(SetGain(v)) = {A("gain", v)} \cup (HoldSet \cup WriteSet("GAIN", v))
<1>1. "GAIN" \in Registers
  BY DEF Registers, Bytes
<1> DEFINE a == Assign("gain", v)
           l == Latched("GAIN", v)
<1>2. IsScript(a) /\ Elems(a) = {A("gain", v)}
  BY ElemsOfAssign
<1>3. IsScript(l) /\ Elems(l) = HoldSet \cup WriteSet("GAIN", v)
  BY <1>1, ElemsOfLatched
<1>4. SetGain(v) = a \o l
  BY DEF SetGain
<1> HIDE DEF a, l
<1>5. IsScript(a \o l) /\ Elems(a \o l) = Elems(a) \cup Elems(l)
  BY <1>2, <1>3, ElemsOfConcat
<1> QED
  BY <1>2, <1>3, <1>4, <1>5

LEMMA ElemsOfBlackLevel ==
  ASSUME NEW v
  PROVE  IsScript(SetBlackLevel(v)) /\ Elems(SetBlackLevel(v)) = {A("black", v)} \cup WriteSet("BLKLEVEL", v)
<1>1. "BLKLEVEL" \in Registers
  BY DEF Registers, Bytes
<1> DEFINE a == Assign("black", v)
           w == Write("BLKLEVEL", v)
<1>2. IsScript(a) /\ Elems(a) = {A("black", v)}
  BY ElemsOfAssign
<1>3. IsScript(w) /\ Elems(w) = WriteSet("BLKLEVEL", v)
  BY <1>1, ElemsOfWrite
<1>4. SetBlackLevel(v) = w \o a
  BY DEF SetBlackLevel
<1> HIDE DEF a, w
<1>5. IsScript(w \o a) /\ Elems(w \o a) = Elems(w) \cup Elems(a)
  BY <1>2, <1>3, ElemsOfConcat
<1> QED
  BY <1>2, <1>3, <1>4, <1>5

(* TPG_EN, PATSEL when the generator is switched on, and the low byte of   *)
(* BLKLEVEL.                                                               *)
On(p) == IF p THEN 1 ELSE 0
Low(p) == IF p THEN 0 ELSE Digit(DefaultBlackLevel, 1)
PatternSet(p, sel) ==
  {W("BLKLEVEL", 1, Low(p)), W("TPG_EN", 1, On(p))} \cup (IF p THEN {W("PATSEL", 1, sel)} ELSE {})

LEMMA LowIsADigit == \A p \in BOOLEAN : Low(p) \in 0..(Base - 1) /\ Digit(Low(p), 1) = Low(p)
<1>1. Base \in Nat /\ Base > 1 /\ DefaultBlackLevel \in Nat /\ Weights[1] = 1
  BY SensorAssumption DEF SensorAssumption, Weights
<1>2. (DefaultBlackLevel \div 1) % Base \in 0..(Base - 1)
  BY <1>1
<1>3. Digit(DefaultBlackLevel, 1) \in 0..(Base - 1)
  BY <1>1, <1>2 DEF Digit
<1>4. 0 \in 0..(Base - 1)
  BY <1>1
<1> QED
  BY <1>3, <1>4, SmallDigits DEF Low

LEMMA ElemsOfBlackLow ==
  ASSUME NEW low
  PROVE  IsScript(BlackLow(low)) /\ Elems(BlackLow(low)) = {W("BLKLEVEL", 1, Digit(low, 1))}
<1>1. BlackLow(low) = << W("BLKLEVEL", 1, Digit(low, 1)) >>
  BY DEF BlackLow, Write, Bytes, W
<1> QED
  BY <1>1 DEF IsScript, Elems

LEMMA ElemsOfTestPattern ==
  ASSUME NEW p \in BOOLEAN, NEW sel \in 0..(Base - 1)
  PROVE  IsScript(SetTestPattern(p, sel)) /\ Elems(SetTestPattern(p, sel)) = PatternSet(p, sel)
<1>1. /\ "TPG_EN" \in Registers /\ "PATSEL" \in Registers /\ Bytes["TPG_EN"] = 1 /\ Bytes["PATSEL"] = 1
  BY DEF Registers, Bytes
<1> DEFINE b == BlackLow(Low(p))
           t == Write("TPG_EN", On(p))
           x == Write("PATSEL", sel)
<1>2. IsScript(b) /\ Elems(b) = {W("BLKLEVEL", 1, Low(p))}
  BY ElemsOfBlackLow, LowIsADigit
<1>3. IsScript(t) /\ Elems(t) = {W("TPG_EN", 1, On(p))}
  <2>1. Elems(t) = WriteSet("TPG_EN", On(p)) /\ IsScript(t)
    BY <1>1, ElemsOfWrite
  <2>2. Digit(On(p), 1) = On(p)
    BY BinaryDigits DEF On
  <2> QED
    BY <1>1, <2>1, <2>2 DEF WriteSet
<1>4. IsScript(x) /\ Elems(x) = {W("PATSEL", 1, sel)}
  <2>1. Elems(x) = WriteSet("PATSEL", sel) /\ IsScript(x)
    BY <1>1, ElemsOfWrite
  <2>2. Digit(sel, 1) = sel
    BY SmallDigits
  <2> QED
    BY <1>1, <2>1, <2>2 DEF WriteSet
<1>5. /\ p => SetTestPattern(p, sel) = (b \o t) \o x
      /\ ~p => SetTestPattern(p, sel) = b \o t
  BY <1>2, <1>3, <1>4 DEF SetTestPattern, Low, On, IsScript
<1> HIDE DEF b, t, x
<1>6. IsScript(b \o t) /\ Elems(b \o t) = Elems(b) \cup Elems(t)
  BY <1>2, <1>3, ElemsOfConcat
<1> DEFINE s == b \o t
<1> HIDE DEF s
<1>7. IsScript(s \o x) /\ Elems(s \o x) = Elems(s) \cup Elems(x)
  BY <1>4, <1>6, ElemsOfConcat DEF s
<1>8. CASE p
  BY <1>2, <1>3, <1>4, <1>5, <1>6, <1>7, <1>8 DEF s, PatternSet
<1>9. CASE ~p
  BY <1>2, <1>3, <1>5, <1>6, <1>9 DEF s, PatternSet
<1> QED
  BY <1>8, <1>9
-----------------------------------------------------------------------------
(* Which key's call writes which byte, and assigns which value.            *)
Owns(key, reg, i) ==
  \/ reg = "VMAX" /\ key = "fps"
  \/ reg = "SHR0" /\ key \in {"fps", "exposure"}
  \/ reg = "GAIN" /\ key = "gain"
  \/ reg = "REGHOLD" /\ key \in {"fps", "exposure", "gain"}
  \/ reg = "BLKLEVEL" /\ (key = "black" \/ (key = "tpg" /\ i = 1))
  \/ reg \in {"TPG_EN", "PATSEL"} /\ key = "tpg"

Fields == {"vmax", "exposure", "gain", "pattern", "select", "black"}
OwnsField(key, f) ==
  \/ f = "vmax" /\ key = "fps"
  \/ f = "exposure" /\ key \in {"fps", "exposure"}
  \/ f \in {"gain", "black", "select", "pattern"} /\ key = f

IsValue(f, v) ==
  /\ f = "vmax" => v \in MinVmax..MaxVmax
  /\ f \in {"exposure", "gain"} => v \in Nat
  /\ f = "pattern" => v \in BOOLEAN
  /\ f = "select" => v \in 0..(Base - 1)
  /\ f = "black" => v \in 0..MaxBlackLevel

WriteOf(key, w) ==
  /\ w.kind = "write" /\ w.reg \in Registers /\ w.byte \in 1..Bytes[w.reg]
  /\ w.value \in 0..(Base - 1) /\ Owns(key, w.reg, w.byte)
AssignOf(key, w) ==
  /\ w.kind = "assign" /\ w.field \in Fields /\ IsValue(w.field, w.value) /\ OwnsField(key, w.field)

ShadowTyped ==
  /\ DOMAIN shadow = Registers
  /\ \A reg \in Registers : shadow[reg] \in [1..Bytes[reg] -> 0..(Base - 1)]
CacheTyped == DOMAIN cache = Fields /\ \A f \in Fields : IsValue(f, cache[f])
ScriptTyped == \A w \in Elems(script) : WriteOf(serving, w) \/ AssignOf(serving, w)
Typed == ShadowTyped /\ CacheTyped /\ ScriptTyped /\ torn \subseteq Registers

(* tpg is asked for at the end of a request, and no call that can fail     *)
(* runs while it is.                                                       *)
TpgLast ==
  "tpg" \in DOMAIN request =>
    /\ DOMAIN request \subseteq {"pattern", "tpg"}
    /\ script # << >> => serving \in {"select", "pattern"}

(* What a byte of a register, a register and a cached value will be when   *)
(* the call has returned.                                                  *)
Will(reg, i, v) ==
  /\ \A w \in Elems(script) : IsWrite(w, reg, i) => w.value = v
  /\ (\A w \in Elems(script) : ~IsWrite(w, reg, i)) => shadow[reg][i] = v
WillHold(reg, v) == \A i \in 1..Bytes[reg] : Will(reg, i, Digit(v, i))

IsAssign(w, f) == w.kind = "assign" /\ w.field = f
WillBe(f, v) ==
  /\ \A w \in Elems(script) : IsAssign(w, f) => w.value = v
  /\ (\A w \in Elems(script) : ~IsAssign(w, f)) => cache[f] = v

(* No call of these keys has failed, or one is running that repairs it.    *)
Clean(keys) == stale \cap keys = {} \/ (serving \in keys /\ script # << >>)

TimingWillBe(v, e) ==
  /\ WillBe("vmax", v) /\ WillBe("exposure", e)
  /\ Clean({"fps"}) => WillHold("VMAX", v)
  /\ Clean({"fps", "exposure"}) => WillHold("SHR0", Shr0ForExposure(v, e))
TimingInv == \E v \in MinVmax..MaxVmax, e \in Nat : TimingWillBe(v, e)

Latching == {"fps", "exposure", "gain"}
HoldInv ==
  stale \cap Latching = {} /\ (script = << >> \/ serving \notin Latching) => Hold = 0

Generating == Clean({"tpg"}) /\ "tpg" \notin DOMAIN request
PatternWillBe(b, p, sel) ==
  /\ WillBe("black", b) /\ WillBe("pattern", p) /\ WillBe("select", sel)
  /\ Generating => Will("TPG_EN", 1, On(p)) /\ (p => Will("PATSEL", 1, sel))
  /\ Clean({"black"}) => Will("BLKLEVEL", 2, Digit(b, 2))
  /\ Generating /\ Clean({"black"}) =>
       Will("BLKLEVEL", 1, Digit(b, 1)) \/ Will("BLKLEVEL", 1, Low(p))
PatternInv ==
  \E b \in 0..MaxBlackLevel, p \in BOOLEAN, sel \in 0..(Base - 1) : PatternWillBe(b, p, sel)

SettledInv == IndInv /\ Typed /\ TpgLast /\ TimingInv /\ HoldInv /\ PatternInv
-----------------------------------------------------------------------------
LEMMA DigitsAreDigits == \A v \in Nat, i \in 1..3 : Digit(v, i) \in 0..(Base - 1)
<1>1. Base \in Nat /\ Base > 1
  BY SensorAssumption DEF SensorAssumption
<1>2. Base * Base \in Nat /\ Base * Base > 0
  BY <1>1
<1>3. \A i \in 1..3 : Weights[i] \in Nat /\ Weights[i] > 0
  BY <1>1, <1>2 DEF Weights
<1>4. \A v \in Nat, u \in Nat : u > 0 => (v \div u) \in Nat
  OBVIOUS
<1>5. \A x \in Nat : x % Base \in 0..(Base - 1)
  BY <1>1
<1> QED
  BY <1>3, <1>4, <1>5 DEF Digit

LEMMA LimitsAreNumbers ==
  /\ MinVmax \in Nat /\ MaxVmax \in Nat /\ MinShr0 \in Nat /\ MinIntegration \in Nat
  /\ MaxBlackLevel \in Nat /\ DefaultBlackLevel \in Nat /\ DefaultBlackLevel <= MaxBlackLevel
  /\ MinShr0 + MinIntegration <= MinVmax /\ MinVmax <= MaxVmax
  BY SensorAssumption DEF SensorAssumption

LEMMA ShutterFits ==
  ASSUME NEW v \in MinVmax..MaxVmax, NEW e \in Nat
  PROVE  Shr0ForExposure(v, e) \in MinShr0..(v - MinIntegration)
  BY LimitsAreNumbers DEF Shr0ForExposure, AtMost, AtLeast

LEMMA FrameLengthFits ==
  ASSUME NEW n \in Nat
  PROVE  VmaxForFps(n) \in MinVmax..MaxVmax
<1>1. RoundUpEven(n) \in Nat
  BY DEF RoundUpEven
<1> QED
  BY <1>1, LimitsAreNumbers DEF VmaxForFps, AtMost, AtLeast

LEMMA WriteSetIsTyped ==
  ASSUME NEW reg \in Registers, NEW v \in Nat, NEW w \in WriteSet(reg, v)
  PROVE  /\ w.kind = "write" /\ w.reg = reg /\ w.byte \in 1..Bytes[reg]
         /\ w.value = Digit(v, w.byte) /\ w.value \in 0..(Base - 1)
<1>1. PICK i \in 1..Bytes[reg] : w = W(reg, i, Digit(v, i))
  BY DEF WriteSet
<1>2. i \in 1..3
  BY <1>1 DEF Registers, Bytes
<1>3. Digit(v, i) \in 0..(Base - 1)
  BY <1>2, DigitsAreDigits
<1> QED
  BY <1>1, <1>3 DEF W

LEMMA HoldSetIsTyped ==
  ASSUME NEW w \in HoldSet
  PROVE  /\ w.kind = "write" /\ w.reg = "REGHOLD" /\ w.reg \in Registers /\ w.byte \in 1..Bytes[w.reg]
         /\ w.value \in 0..(Base - 1)
<1>1. 0 \in 0..(Base - 1) /\ 1 \in 0..(Base - 1)
  BY SensorAssumption DEF SensorAssumption
<1> QED
  BY <1>1 DEF HoldSet, W, Registers, Bytes

(* A value a request may carry for a key.                                  *)
IsAsked(key, v) == v \in Nat /\ (key = "select" => v < Base)

LEMMA CallIsTyped ==
  ASSUME CacheTyped, NEW key \in Keys, NEW v, IsAsked(key, v), Accepted(key, v)
  PROVE  \A w \in Elems(Call(key, v)) : WriteOf(key, w) \/ AssignOf(key, w)
<1>1. /\ {"VMAX", "SHR0", "GAIN", "BLKLEVEL", "TPG_EN", "PATSEL"} \subseteq Registers
      /\ Bytes["BLKLEVEL"] = 2 /\ Bytes["TPG_EN"] = 1 /\ Bytes["PATSEL"] = 1
  BY DEF Registers, Bytes
<1>2. v \in Nat /\ (key = "select" => v < Base)
  BY DEF IsAsked
<1>3. /\ cache["vmax"] \in MinVmax..MaxVmax /\ cache["exposure"] \in Nat
      /\ cache["pattern"] \in BOOLEAN /\ cache["select"] \in 0..(Base - 1)
  BY DEF CacheTyped, Fields, IsValue
<1>4. ASSUME key \in Latching, NEW w \in HoldSet
      PROVE  WriteOf(key, w)
  BY <1>4, HoldSetIsTyped DEF WriteOf, Owns, Latching
<1>5. ASSUME NEW reg \in Registers, NEW n \in Nat, NEW w \in WriteSet(reg, n),
             \A i \in 1..Bytes[reg] : Owns(key, reg, i)
      PROVE  WriteOf(key, w)
  BY <1>5, WriteSetIsTyped DEF WriteOf
<1>6. ASSUME NEW f \in Fields, NEW x, IsValue(f, x), OwnsField(key, f)
      PROVE  AssignOf(key, A(f, x))
  BY <1>6 DEF AssignOf, A
<1>7. CASE key = "fps"
  <2> DEFINE x == VmaxForFps(v)
             e == cache["exposure"]
             s == Shr0ForExposure(x, e)
  <2>1. x \in MinVmax..MaxVmax /\ x \in Nat /\ s \in Nat
    <3>1. x \in MinVmax..MaxVmax
      BY <1>2, FrameLengthFits
    <3> HIDE DEF x, e
    <3>2. s \in MinShr0..(x - MinIntegration)
      BY <1>3, <3>1, ShutterFits DEF e
    <3> QED
      BY <3>1, <3>2, LimitsAreNumbers
  <2>2. Elems(Call(key, v)) =
          {A("vmax", x), A("exposure", e)} \cup HoldSet \cup WriteSet("VMAX", x) \cup WriteSet("SHR0", s)
    BY <1>7, ElemsOfFrameRate DEF Call
  <2> HIDE DEF x, e, s
  <2>3. AssignOf(key, A("vmax", x))
    BY <1>6, <1>7, <2>1 DEF IsValue, OwnsField, Fields
  <2>4. AssignOf(key, A("exposure", e))
    BY <1>3, <1>6, <1>7 DEF IsValue, OwnsField, Fields, e
  <2>5. \A w \in WriteSet("VMAX", x) : WriteOf(key, w)
    BY <1>1, <1>5, <1>7, <2>1 DEF Owns
  <2>6. \A w \in WriteSet("SHR0", s) : WriteOf(key, w)
    BY <1>1, <1>5, <1>7, <2>1 DEF Owns
  <2>7. \A w \in HoldSet : WriteOf(key, w)
    BY <1>4, <1>7 DEF Latching
  <2> QED
    BY <2>2, <2>3, <2>4, <2>5, <2>6, <2>7
<1>8. CASE key = "exposure"
  <2> DEFINE s == Shr0ForExposure(cache["vmax"], v)
  <2>1. s \in Nat
    BY <1>2, <1>3, ShutterFits, LimitsAreNumbers
  <2>2. Elems(Call(key, v)) = {A("exposure", v)} \cup (HoldSet \cup WriteSet("SHR0", s))
    BY <1>8, ElemsOfExposure DEF Call
  <2> HIDE DEF s
  <2>3. AssignOf(key, A("exposure", v))
    BY <1>2, <1>6, <1>8 DEF IsValue, OwnsField, Fields
  <2>4. \A w \in WriteSet("SHR0", s) : WriteOf(key, w)
    BY <1>1, <1>5, <1>8, <2>1 DEF Owns
  <2>5. \A w \in HoldSet : WriteOf(key, w)
    BY <1>4, <1>8 DEF Latching
  <2> QED
    BY <2>2, <2>3, <2>4, <2>5
<1>9. CASE key = "gain"
  <2>1. Elems(Call(key, v)) = {A("gain", v)} \cup (HoldSet \cup WriteSet("GAIN", v))
    BY <1>9, ElemsOfGain DEF Call
  <2>2. AssignOf(key, A("gain", v))
    BY <1>2, <1>6, <1>9 DEF IsValue, OwnsField, Fields
  <2>3. \A w \in WriteSet("GAIN", v) : WriteOf(key, w)
    BY <1>1, <1>2, <1>5, <1>9 DEF Owns
  <2>4. \A w \in HoldSet : WriteOf(key, w)
    BY <1>4, <1>9 DEF Latching
  <2> QED
    BY <2>1, <2>2, <2>3, <2>4
<1>10. CASE key = "black"
  <2>1. Elems(Call(key, v)) = {A("black", v)} \cup WriteSet("BLKLEVEL", v)
    BY <1>10, ElemsOfBlackLevel DEF Call
  <2>2. v \in 0..MaxBlackLevel
    BY <1>2, <1>10, LimitsAreNumbers DEF Accepted
  <2>3. AssignOf(key, A("black", v))
    BY <1>6, <1>10, <2>2 DEF IsValue, OwnsField, Fields
  <2>4. \A w \in WriteSet("BLKLEVEL", v) : WriteOf(key, w)
    BY <1>1, <1>2, <1>5, <1>10 DEF Owns
  <2> QED
    BY <2>1, <2>3, <2>4
<1>11. CASE key = "select"
  <2>1. Elems(Call(key, v)) = {A("select", v)}
    BY <1>11, ElemsOfAssign DEF Call
  <2>2. v \in 0..(Base - 1)
    BY <1>2, <1>11, SensorAssumption DEF SensorAssumption
  <2> QED
    BY <1>6, <1>11, <2>1, <2>2 DEF IsValue, OwnsField, Fields
<1>12. CASE key = "pattern"
  <2>1. Call(key, v) = Assign("pattern", v = 1)
    BY <1>12 DEF Call
  <2> DEFINE b == v = 1
  <2>2. b \in BOOLEAN
    OBVIOUS
  <2> HIDE DEF b
  <2>3. Elems(Call(key, v)) = {A("pattern", b)}
    BY <2>1, ElemsOfAssign, Zenon DEF b
  <2>4. AssignOf(key, A("pattern", b))
    BY <1>6, <1>12, <2>2, Zenon DEF IsValue, OwnsField, Fields
  <2> QED
    BY <2>3, <2>4
<1>13. CASE key = "tpg"
  <2> DEFINE p == cache["pattern"]
             sel == cache["select"]
  <2>1. Elems(Call(key, v)) = PatternSet(p, sel)
    BY <1>3, <1>13, ElemsOfTestPattern DEF Call
  <2>2. /\ Low(p) \in 0..(Base - 1) /\ On(p) \in 0..(Base - 1) /\ sel \in 0..(Base - 1)
    BY <1>3, LowIsADigit, SensorAssumption DEF On, SensorAssumption
  <2> HIDE DEF p, sel
  <2>3. WriteOf(key, W("BLKLEVEL", 1, Low(p)))
    BY <1>1, <1>13, <2>2 DEF WriteOf, W, Owns
  <2>4. WriteOf(key, W("TPG_EN", 1, On(p)))
    BY <1>1, <1>13, <2>2 DEF WriteOf, W, Owns
  <2>5. WriteOf(key, W("PATSEL", 1, sel))
    BY <1>1, <1>13, <2>2 DEF WriteOf, W, Owns
  <2> QED
    BY <2>1, <2>3, <2>4, <2>5 DEF PatternSet
<1> QED
  BY <1>7, <1>8, <1>9, <1>10, <1>11, <1>12, <1>13 DEF Keys

(* A step of a script takes its head.                                      *)
LEMMA HeadIsTyped ==
  ASSUME IndInv, Typed, script # << >>
  PROVE  LET w == Head(script)
         IN /\ Elems(script) = Elems(Tail(script)) \cup {w}
            /\ w.kind = "write" => WriteOf(serving, w)
            /\ w.kind = "assign" => AssignOf(serving, w)
<1>1. IsScript(script)
  BY DEF IndInv, ScriptInv
<1>2. Elems(script) = Elems(Tail(script)) \cup {Head(script)}
  BY <1>1, ElemsOfTail
<1>3. WriteOf(serving, Head(script)) \/ AssignOf(serving, Head(script))
  BY <1>2 DEF Typed, ScriptTyped
<1> QED
  BY <1>2, <1>3 DEF WriteOf, AssignOf

LEMMA WillStays ==
  ASSUME IndInv, Typed, DoWrite \/ DoAssign,
         NEW reg \in Registers, NEW i \in 1..Bytes[reg], NEW v, Will(reg, i, v)
  PROVE  Will(reg, i, v)'
<1> DEFINE w == Head(script)
           t == Tail(script)
<1>1. script # << >> /\ script' = t
  BY DEF DoWrite, DoAssign
<1>2. /\ Elems(script) = Elems(t) \cup {w}
      /\ w.kind = "write" => WriteOf(serving, w)
  BY <1>1, HeadIsTyped
<1>3. \/ w.kind = "write" /\ shadow' = [shadow EXCEPT ![w.reg][w.byte] = w.value]
      \/ w.kind = "assign" /\ shadow' = shadow
  BY DEF DoWrite, DoAssign, Written
<1>4. reg \in DOMAIN shadow /\ i \in DOMAIN shadow[reg]
  BY DEF Typed, ShadowTyped
<1> HIDE DEF w, t
<1>5. CASE IsWrite(w, reg, i)
  <2>1. w.value = v
    BY <1>2, <1>5 DEF Will
  <2>2. shadow'[reg][i] = v
    BY <1>3, <1>4, <1>5, <2>1 DEF IsWrite
  <2> QED
    BY <1>1, <1>2, <2>2 DEF Will
<1>6. CASE ~IsWrite(w, reg, i)
  <2>1. shadow'[reg][i] = shadow[reg][i]
    BY <1>3, <1>4, <1>6 DEF IsWrite
  <2> QED
    BY <1>1, <1>2, <1>6, <2>1 DEF Will
<1> QED
  BY <1>5, <1>6

LEMMA WillBeStays ==
  ASSUME IndInv, Typed, DoWrite \/ DoAssign, NEW f \in Fields, NEW v, WillBe(f, v)
  PROVE  WillBe(f, v)'
<1> DEFINE w == Head(script)
           t == Tail(script)
<1>1. script # << >> /\ script' = t
  BY DEF DoWrite, DoAssign
<1>2. Elems(script) = Elems(t) \cup {w}
  BY <1>1, HeadIsTyped
<1>3. \/ w.kind = "assign" /\ cache' = [cache EXCEPT ![w.field] = w.value]
      \/ w.kind = "write" /\ cache' = cache
  BY DEF DoWrite, DoAssign
<1>4. f \in DOMAIN cache
  BY DEF Typed, CacheTyped
<1> HIDE DEF w, t
<1>5. CASE IsAssign(w, f)
  <2>1. w.value = v
    BY <1>2, <1>5 DEF WillBe
  <2>2. cache'[f] = v
    BY <1>3, <1>4, <1>5, <2>1 DEF IsAssign
  <2> QED
    BY <1>1, <1>2, <2>2 DEF WillBe
<1>6. CASE ~IsAssign(w, f)
  <2>1. cache'[f] = cache[f]
    BY <1>3, <1>4, <1>6 DEF IsAssign
  <2> QED
    BY <1>1, <1>2, <1>6, <2>1 DEF WillBe
<1> QED
  BY <1>5, <1>6

(* Repairing a key takes its call.                                         *)
LEMMA CleanBefore ==
  ASSUME IndInv, DoWrite \/ DoAssign, NEW keys,
         "exposure" \in keys => "fps" \in keys, Clean(keys)'
  PROVE  Clean(keys)
<1>1. script # << >> /\ serving' = serving /\ stale' = StillStale
  BY DEF DoWrite, DoAssign
<1>2. CASE serving \in keys
  BY <1>1, <1>2 DEF Clean
<1>3. CASE serving \notin keys
  <2>1. stale' \cap keys = {}
    BY <1>1, <1>3 DEF Clean
  <2>2. Completed \cap keys = {}
    BY <1>3 DEF Completed
  <2>3. stale \cap keys = {}
    BY <1>1, <2>1, <2>2 DEF StillStale
  <2> QED
    BY <2>3 DEF Clean
<1> QED
  BY <1>2, <1>3

(* A failed call leaves alone what it does not write: the call is gone, so *)
(* what the others' bytes and values will be they are.                     *)
LEMMA FailureLeaves ==
  ASSUME IndInv, Typed, WriteFails,
         NEW reg \in Registers, NEW i \in 1..Bytes[reg], ~Owns(serving, reg, i), NEW v, Will(reg, i, v)
  PROVE  Will(reg, i, v)'
<1> DEFINE w == Head(script)
<1>1. script # << >> /\ w.kind = "write" /\ script' = << >> /\ shadow' \in {shadow, Written}
  BY DEF WriteFails
<1>2. WriteOf(serving, w)
  BY <1>1, HeadIsTyped
<1>3. \A x \in Elems(script) : ~IsWrite(x, reg, i)
  BY DEF Typed, ScriptTyped, IsWrite, WriteOf, AssignOf
<1>4. ~IsWrite(w, reg, i)
  BY <1>2 DEF IsWrite, WriteOf
<1>5. shadow[reg][i] = v
  BY <1>3 DEF Will
<1>6. shadow'[reg][i] = shadow[reg][i]
  <2>1. reg \in DOMAIN shadow /\ i \in DOMAIN shadow[reg]
    BY DEF Typed, ShadowTyped
  <2>2. Written = [shadow EXCEPT ![w.reg][w.byte] = w.value]
    BY DEF Written
  <2> HIDE DEF w
  <2> QED
    BY <1>1, <1>4, <2>1, <2>2 DEF IsWrite
<1>7. \A x \in Elems(script') : FALSE
  BY <1>1, ElemsOfEmpty
<1> QED
  BY <1>5, <1>6, <1>7 DEF Will

LEMMA FailureLeavesCache ==
  ASSUME IndInv, Typed, WriteFails, NEW f \in Fields
  PROVE  /\ \A v : cache[f] = v => WillBe(f, v)'
         /\ ~OwnsField(serving, f) => \A v : WillBe(f, v) => cache[f] = v
<1>1. script' = << >> /\ cache' = cache
  BY DEF WriteFails
<1>2. \A x \in Elems(script') : FALSE
  BY <1>1, ElemsOfEmpty
<1>3. \A v : cache[f] = v => WillBe(f, v)'
  BY <1>1, <1>2 DEF WillBe
<1>4. ASSUME ~OwnsField(serving, f)
      PROVE  \A x \in Elems(script) : ~IsAssign(x, f)
  BY <1>4 DEF Typed, ScriptTyped, IsAssign, WriteOf, AssignOf
<1> QED
  BY <1>3, <1>4 DEF WillBe

LEMMA FailureSoils ==
  ASSUME WriteFails, NEW keys, Clean(keys)'
  PROVE  serving \notin keys /\ Clean(keys)
<1>1. script' = << >> /\ stale' = stale \cup {serving}
  BY DEF WriteFails
<1> QED
  BY <1>1 DEF Clean

(* Without a call, what will be is.                                        *)
LEMMA WillIsNow ==
  ASSUME script = << >>
  PROVE  /\ \A reg, i, v : Will(reg, i, v) <=> shadow[reg][i] = v
         /\ \A f, v : WillBe(f, v) <=> cache[f] = v
  BY ElemsOfEmpty DEF Will, WillBe

(* What HandleKey starts, and what it leaves alone.                        *)
Starts(key, v) ==
  /\ key = FirstKey /\ v = request[key] /\ key \in Keys /\ IsAsked(key, v)
  /\ script = << >> /\ serving' = key
  /\ UNCHANGED <<shadow, cache, torn, stale>>
  /\ \/ Accepted(key, v) /\ script' = Call(key, v)
     \/ ~Accepted(key, v) /\ script' = << >>
  /\ \A w \in Elems(script') : WriteOf(key, w) \/ AssignOf(key, w)

LEMMA HandleKeyStarts ==
  ASSUME IndInv, Typed, HandleKey
  PROVE  Starts(FirstKey, request[FirstKey])
<1> DEFINE key == FirstKey
           v == request[key]
<1>1. script = << >> /\ request # << >> /\ IsRequest(request)
  BY DEF HandleKey, IndInv, ScriptInv
<1>2. key \in DOMAIN request /\ key \in Keys
  BY <1>1, FirstKeyIsAKey
<1>3. IsAsked(key, v)
  BY <1>1, <1>2 DEF IsRequest, IsAsked
<1>4. /\ serving' = key /\ UNCHANGED <<shadow, cache, torn, stale>>
      /\ \/ Accepted(key, v) /\ script' = Call(key, v)
         \/ ~Accepted(key, v) /\ script' = << >>
  BY <1>1 DEF HandleKey
<1> HIDE DEF key, v
<1>5. \A w \in Elems(script') : WriteOf(key, w) \/ AssignOf(key, w)
  BY <1>2, <1>3, <1>4, CallIsTyped, ElemsOfEmpty DEF Typed
<1>6. Starts(key, v)
  BY <1>1, <1>2, <1>3, <1>4, <1>5 DEF Starts, key, v
<1> QED
  BY <1>6 DEF key, v

LEMMA StartLeaves ==
  ASSUME NEW key, NEW x, Starts(key, x), NEW reg, NEW i, ~Owns(key, reg, i), NEW v, Will(reg, i, v)
  PROVE  Will(reg, i, v)'
<1>1. shadow' = shadow /\ shadow[reg][i] = v
  BY WillIsNow DEF Starts
<1>2. \A w \in Elems(script') : ~IsWrite(w, reg, i)
  BY DEF Starts, WriteOf, AssignOf, IsWrite
<1> QED
  BY <1>1, <1>2 DEF Will

LEMMA StartLeavesCache ==
  ASSUME NEW key, NEW x, Starts(key, x), NEW f, ~OwnsField(key, f), NEW v, WillBe(f, v)
  PROVE  WillBe(f, v)'
<1>1. cache' = cache /\ cache[f] = v
  BY WillIsNow DEF Starts
<1>2. \A w \in Elems(script') : ~IsAssign(w, f)
  BY DEF Starts, WriteOf, AssignOf, IsAssign
<1> QED
  BY <1>1, <1>2 DEF WillBe

LEMMA StartCleans ==
  ASSUME NEW key, NEW x, Starts(key, x), NEW keys, Clean(keys)', ~(key \in keys /\ script' # << >>)
  PROVE  Clean(keys)
  BY DEF Starts, Clean

(* A value that is not accepted starts nothing.                            *)
LEMMA NothingStarts ==
  ASSUME NEW key, NEW x, Starts(key, x), script' = << >>
  PROVE  /\ \A reg, i, v : Will(reg, i, v) => Will(reg, i, v)'
         /\ \A f, v : WillBe(f, v) => WillBe(f, v)'
<1>1. script = << >> /\ shadow' = shadow /\ cache' = cache
  BY DEF Starts
<1>2. script' = script
  BY <1>1
<1> QED
  BY <1>1, <1>2 DEF Will, WillBe
-----------------------------------------------------------------------------
(* Frame length and shutter.                                               *)
LEMMA TimingAtStart ==
  ASSUME Init
  PROVE  TimingInv
<1>1. PICK c \in Configs :
        /\ cache = [vmax |-> c.vmax, exposure |-> c.exposure, gain |-> c.gain, pattern |-> c.pattern,
                    select |-> c.select, black |-> DefaultBlackLevel]
        /\ shadow = Configured(c)
  BY DEF Init
<1>2. script = << >>
  BY DEF Init
<1>3. c.vmax \in MinVmax..MaxVmax /\ c.exposure \in Nat
  BY SensorAssumption DEF SensorAssumption
<1>4. WillBe("vmax", c.vmax) /\ WillBe("exposure", c.exposure)
  BY <1>1, <1>2, WillIsNow
<1>5. \A i \in 1..Bytes["VMAX"] : shadow["VMAX"][i] = Digit(c.vmax, i)
  BY <1>1 DEF Configured, Digits
<1>6. \A i \in 1..Bytes["SHR0"] : shadow["SHR0"][i] = Digit(Shr0ForExposure(c.vmax, c.exposure), i)
  BY <1>1 DEF Configured, Digits
<1>7. WillHold("VMAX", c.vmax) /\ WillHold("SHR0", Shr0ForExposure(c.vmax, c.exposure))
  BY <1>2, <1>5, <1>6, WillIsNow DEF WillHold
<1> QED
  BY <1>3, <1>4, <1>7 DEF TimingInv, TimingWillBe

LEMMA TimingStepped ==
  ASSUME IndInv, Typed, TimingInv, DoWrite \/ DoAssign
  PROVE  TimingInv'
<1>1. PICK v \in MinVmax..MaxVmax, e \in Nat : TimingWillBe(v, e)
  BY DEF TimingInv
<1>2. "VMAX" \in Registers /\ "SHR0" \in Registers /\ "vmax" \in Fields /\ "exposure" \in Fields
  BY DEF Registers, Bytes, Fields
<1>3. WillBe("vmax", v)' /\ WillBe("exposure", e)'
  BY <1>1, <1>2, WillBeStays DEF TimingWillBe
<1>4. ASSUME Clean({"fps"})'
      PROVE  WillHold("VMAX", v)'
  <2>1. WillHold("VMAX", v)
    BY <1>1, <1>4, CleanBefore DEF TimingWillBe
  <2> QED
    BY <1>2, <2>1, WillStays DEF WillHold
<1>5. ASSUME Clean({"fps", "exposure"})'
      PROVE  WillHold("SHR0", Shr0ForExposure(v, e))'
  <2>1. WillHold("SHR0", Shr0ForExposure(v, e))
    BY <1>1, <1>5, CleanBefore DEF TimingWillBe
  <2> QED
    BY <1>2, <2>1, WillStays DEF WillHold
<1>6. TimingWillBe(v, e)'
  BY <1>3, <1>4, <1>5 DEF TimingWillBe
<1> QED
  BY <1>6 DEF TimingInv

LEMMA TimingFailed ==
  ASSUME IndInv, Typed, TimingInv, WriteFails
  PROVE  TimingInv'
<1>1. PICK v \in MinVmax..MaxVmax, e \in Nat : TimingWillBe(v, e)
  BY DEF TimingInv
<1>2. "VMAX" \in Registers /\ "SHR0" \in Registers /\ "vmax" \in Fields /\ "exposure" \in Fields
  BY DEF Registers, Bytes, Fields
<1>3. PICK u \in MinVmax..MaxVmax, d \in Nat : u = cache["vmax"] /\ d = cache["exposure"]
  BY <1>2 DEF Typed, CacheTyped, IsValue
<1>4. /\ WillBe("vmax", u)' /\ WillBe("exposure", d)'
      /\ serving # "fps" => u = v
      /\ serving \notin {"fps", "exposure"} => d = e
  BY <1>1, <1>2, <1>3, FailureLeavesCache DEF OwnsField, TimingWillBe
<1>5. ASSUME Clean({"fps"})'
      PROVE  WillHold("VMAX", u)'
  <2>1. serving # "fps" /\ WillHold("VMAX", v)
    BY <1>1, <1>5, FailureSoils DEF TimingWillBe
  <2> QED
    BY <1>2, <1>4, <2>1, FailureLeaves DEF WillHold, Owns
<1>6. ASSUME Clean({"fps", "exposure"})'
      PROVE  WillHold("SHR0", Shr0ForExposure(u, d))'
  <2>1. serving \notin {"fps", "exposure"} /\ WillHold("SHR0", Shr0ForExposure(v, e))
    BY <1>1, <1>6, FailureSoils DEF TimingWillBe
  <2>2. u = v /\ d = e
    BY <1>4, <2>1
  <2>3. WillHold("SHR0", Shr0ForExposure(v, e))'
    BY <1>2, <2>1, FailureLeaves DEF WillHold, Owns
  <2> QED
    BY <2>2, <2>3
<1>7. TimingWillBe(u, d)'
  BY <1>4, <1>5, <1>6 DEF TimingWillBe
<1> QED
  BY <1>3, <1>7 DEF TimingInv

(* What a script that writes a register, or assigns a value, once makes of *)
(* it.                                                                     *)
LEMMA WritesWill ==
  ASSUME NEW reg \in Registers, NEW v \in Nat,
         \A w \in Elems(script') : w.kind = "write" /\ w.reg = reg => w \in WriteSet(reg, v),
         WriteSet(reg, v) \subseteq Elems(script')
  PROVE  WillHold(reg, v)'
<1>1. ASSUME NEW i \in 1..Bytes[reg]
      PROVE  Will(reg, i, Digit(v, i))'
  <2>1. W(reg, i, Digit(v, i)) \in Elems(script') /\ IsWrite(W(reg, i, Digit(v, i)), reg, i)
    BY DEF WriteSet, IsWrite, W
  <2>2. \A w \in Elems(script') : IsWrite(w, reg, i) => w.value = Digit(v, i)
    BY WriteSetIsTyped DEF IsWrite
  <2> QED
    BY <2>1, <2>2 DEF Will
<1> QED
  BY <1>1 DEF WillHold

LEMMA AssignsWill ==
  ASSUME NEW f, NEW v,
         \A w \in Elems(script') : w.kind = "assign" /\ w.field = f => w = A(f, v),
         A(f, v) \in Elems(script')
  PROVE  WillBe(f, v)'
  BY DEF WillBe, IsAssign, A

LEMMA TimingStarted ==
  ASSUME IndInv, Typed, TimingInv, HandleKey
  PROVE  TimingInv'
<1>1. PICK key, n : Starts(key, n)
  BY HandleKeyStarts
<1>2. PICK v \in MinVmax..MaxVmax, e \in Nat : TimingWillBe(v, e)
  BY DEF TimingInv
<1>3. "VMAX" \in Registers /\ "SHR0" \in Registers /\ "vmax" \in Fields /\ "exposure" \in Fields
  BY DEF Registers, Bytes, Fields
<1>4. script = << >> /\ v \in Nat /\ n \in Nat /\ cache["vmax"] = v /\ cache["exposure"] = e
  BY <1>1, <1>2, WillIsNow, LimitsAreNumbers DEF Starts, IsAsked, TimingWillBe
<1>5. CASE script' = << >>
  <2>1. \A keys : Clean(keys)' => Clean(keys)
    BY <1>1, <1>5, StartCleans
  <2>2. TimingWillBe(v, e)'
    BY <1>1, <1>2, <1>5, <2>1, NothingStarts DEF TimingWillBe, WillHold
  <2> QED
    BY <2>2 DEF TimingInv
<1>6. CASE script' # << >> /\ key = "fps"
  <2> DEFINE x == VmaxForFps(n)
             s == Shr0ForExposure(x, e)
  <2>1. x \in MinVmax..MaxVmax
    BY <1>4, FrameLengthFits
  <2>2. script' = SetFrameRate(x)
    BY <1>1, <1>6 DEF Starts, Call
  <2>3. Elems(script') =
          {A("vmax", x), A("exposure", e)} \cup HoldSet \cup WriteSet("VMAX", x) \cup WriteSet("SHR0", s)
    BY <1>4, <2>2, ElemsOfFrameRate
  <2> HIDE DEF x
  <2>4. s \in Nat /\ x \in Nat
    BY <2>1, ShutterFits, LimitsAreNumbers
  <2> HIDE DEF s
  <2>5. \A w \in WriteSet("VMAX", x) : w.kind = "write" /\ w.reg = "VMAX"
    BY <1>3, <2>4, WriteSetIsTyped
  <2>6. \A w \in WriteSet("SHR0", s) : w.kind = "write" /\ w.reg = "SHR0"
    BY <1>3, <2>4, WriteSetIsTyped
  <2>7. \A w \in HoldSet : w.kind = "write" /\ w.reg = "REGHOLD"
    BY HoldSetIsTyped
  <2>8. WillBe("vmax", x)' /\ WillBe("exposure", e)'
    BY <2>3, <2>5, <2>6, <2>7, AssignsWill DEF A
  <2>9. WillHold("VMAX", x)'
    BY <1>3, <2>3, <2>4, <2>5, <2>6, <2>7, WritesWill DEF A
  <2>10. WillHold("SHR0", s)'
    BY <1>3, <2>3, <2>4, <2>5, <2>6, <2>7, WritesWill DEF A
  <2>11. TimingWillBe(x, e)'
    BY <2>8, <2>9, <2>10 DEF TimingWillBe, s
  <2> QED
    BY <2>1, <2>11 DEF TimingInv
<1>7. CASE script' # << >> /\ key = "exposure"
  <2> DEFINE s == Shr0ForExposure(v, n)
  <2>1. script' = SetExposure(v, n)
    BY <1>1, <1>4, <1>7 DEF Starts, Call
  <2>2. Elems(script') = {A("exposure", n)} \cup (HoldSet \cup WriteSet("SHR0", s))
    BY <2>1, ElemsOfExposure
  <2>3. s \in Nat
    <3>1. s \in MinShr0..(v - MinIntegration)
      BY <1>4, ShutterFits
    <3> QED
      BY <1>4, <3>1, LimitsAreNumbers
  <2> HIDE DEF s
  <2>4. \A w \in WriteSet("SHR0", s) : w.kind = "write" /\ w.reg = "SHR0"
    BY <1>3, <2>3, WriteSetIsTyped
  <2>5. \A w \in HoldSet : w.kind = "write" /\ w.reg = "REGHOLD"
    BY HoldSetIsTyped
  <2>6. WillBe("exposure", n)'
    BY <2>2, <2>4, <2>5, AssignsWill DEF A
  <2>7. WillBe("vmax", v)'
    BY <1>1, <1>2, <1>7, StartLeavesCache DEF TimingWillBe, OwnsField
  <2>8. WillHold("SHR0", s)'
    BY <1>3, <2>2, <2>3, <2>4, <2>5, WritesWill DEF A
  <2>9. ASSUME Clean({"fps"})'
        PROVE  WillHold("VMAX", v)'
    <3>1. Clean({"fps"})
      BY <1>1, <1>7, <2>9, StartCleans
    <3> QED
      BY <1>1, <1>2, <1>7, <3>1, StartLeaves DEF TimingWillBe, WillHold, Owns
  <2>10. TimingWillBe(v, n)'
    BY <2>6, <2>7, <2>8, <2>9 DEF TimingWillBe, s
  <2> QED
    BY <1>4, <2>10 DEF TimingInv
<1>8. CASE key \notin {"fps", "exposure"}
  <2>1. WillBe("vmax", v)' /\ WillBe("exposure", e)'
    BY <1>1, <1>2, <1>8, StartLeavesCache DEF TimingWillBe, OwnsField
  <2>2. ASSUME Clean({"fps"})'
        PROVE  WillHold("VMAX", v)'
    <3>1. Clean({"fps"})
      BY <1>1, <1>8, <2>2, StartCleans
    <3> QED
      BY <1>1, <1>2, <1>8, <3>1, StartLeaves DEF TimingWillBe, WillHold, Owns
  <2>3. ASSUME Clean({"fps", "exposure"})'
        PROVE  WillHold("SHR0", Shr0ForExposure(v, e))'
    <3>1. Clean({"fps", "exposure"})
      BY <1>1, <1>8, <2>3, StartCleans
    <3>2. WillHold("SHR0", Shr0ForExposure(v, e))
      BY <1>2, <3>1 DEF TimingWillBe
    <3> QED
      BY <1>1, <1>8, <3>2, StartLeaves DEF WillHold, Owns
  <2>4. TimingWillBe(v, e)'
    BY <2>1, <2>2, <2>3 DEF TimingWillBe
  <2> QED
    BY <2>4 DEF TimingInv
<1> QED
  BY <1>5, <1>6, <1>7, <1>8
-----------------------------------------------------------------------------
(* Types, the requests, and REGHOLD.                                       *)
LEMMA TypedAtStart ==
  ASSUME Init
  PROVE  Typed /\ TpgLast /\ HoldInv
<1>1. PICK c \in Configs :
        /\ cache = [vmax |-> c.vmax, exposure |-> c.exposure, gain |-> c.gain, pattern |-> c.pattern,
                    select |-> c.select, black |-> DefaultBlackLevel]
        /\ shadow = Configured(c)
  BY DEF Init
<1>2. script = << >> /\ request = << >> /\ torn = {}
  BY DEF Init
<1>3. /\ c.vmax \in MinVmax..MaxVmax /\ c.exposure \in Nat /\ c.gain \in Nat
      /\ c.pattern \in BOOLEAN /\ c.select \in 0..(Base - 1)
  BY SensorAssumption DEF SensorAssumption
<1>4. DefaultBlackLevel \in 0..MaxBlackLevel
  BY LimitsAreNumbers
<1>5. CacheTyped
  BY <1>1, <1>3, <1>4 DEF CacheTyped, Fields, IsValue
<1>6. ASSUME NEW reg \in {"VMAX", "SHR0", "GAIN", "BLKLEVEL"}, NEW v \in Nat
      PROVE  Digits(reg, v) \in [1..Bytes[reg] -> 0..(Base - 1)]
  <2>1. Bytes[reg] \in 1..3
    BY DEF Bytes
  <2>2. \A i \in 1..Bytes[reg] : Digit(v, i) \in 0..(Base - 1)
    BY <2>1, DigitsAreDigits
  <2> QED
    BY <2>2 DEF Digits
<1>7. 0 \in 0..(Base - 1) /\ 1 \in 0..(Base - 1)
  BY SensorAssumption DEF SensorAssumption
<1>8. c.vmax \in Nat /\ Shr0ForExposure(c.vmax, c.exposure) \in Nat
  <2>1. Shr0ForExposure(c.vmax, c.exposure) \in MinShr0..(c.vmax - MinIntegration)
    BY <1>3, ShutterFits
  <2> QED
    BY <1>3, <2>1, LimitsAreNumbers
<1>9. DOMAIN shadow = Registers
  BY <1>1 DEF Configured, Registers, Bytes
<1>10. /\ shadow["VMAX"] = Digits("VMAX", c.vmax)
       /\ shadow["SHR0"] = Digits("SHR0", Shr0ForExposure(c.vmax, c.exposure))
       /\ shadow["GAIN"] = Digits("GAIN", c.gain)
       /\ shadow["BLKLEVEL"] = IF c.pattern THEN [Digits("BLKLEVEL", DefaultBlackLevel) EXCEPT ![1] = 0]
                                            ELSE Digits("BLKLEVEL", DefaultBlackLevel)
       /\ shadow["REGHOLD"] = <<0>>
       /\ shadow["TPG_EN"] = <<IF c.pattern THEN 1 ELSE 0>>
       /\ shadow["PATSEL"] = <<IF c.pattern THEN c.select ELSE 0>>
  BY <1>1 DEF Configured
<1>11. shadow["VMAX"] \in [1..Bytes["VMAX"] -> 0..(Base - 1)]
  BY <1>6, <1>8, <1>10
<1>12. shadow["SHR0"] \in [1..Bytes["SHR0"] -> 0..(Base - 1)]
  BY <1>6, <1>8, <1>10
<1>13. shadow["GAIN"] \in [1..Bytes["GAIN"] -> 0..(Base - 1)]
  BY <1>3, <1>6, <1>10
<1>14. shadow["BLKLEVEL"] \in [1..Bytes["BLKLEVEL"] -> 0..(Base - 1)]
  <2>1. Digits("BLKLEVEL", DefaultBlackLevel) \in [1..Bytes["BLKLEVEL"] -> 0..(Base - 1)]
    BY <1>6, LimitsAreNumbers
  <2> QED
    BY <1>7, <1>10, <2>1
<1>15. \A v \in 0..(Base - 1) : <<v>> \in [1..1 -> 0..(Base - 1)]
  OBVIOUS
<1>16. Bytes["REGHOLD"] = 1 /\ Bytes["TPG_EN"] = 1 /\ Bytes["PATSEL"] = 1
  BY DEF Bytes
<1>17. /\ shadow["REGHOLD"] \in [1..Bytes["REGHOLD"] -> 0..(Base - 1)]
       /\ shadow["TPG_EN"] \in [1..Bytes["TPG_EN"] -> 0..(Base - 1)]
       /\ shadow["PATSEL"] \in [1..Bytes["PATSEL"] -> 0..(Base - 1)]
  BY <1>3, <1>7, <1>10, <1>15, <1>16
<1>18. Registers = {"VMAX", "SHR0", "GAIN", "BLKLEVEL", "REGHOLD", "TPG_EN", "PATSEL"}
  BY DEF Registers, Bytes
<1>19. ShadowTyped
  BY <1>9, <1>11, <1>12, <1>13, <1>14, <1>17, <1>18 DEF ShadowTyped
<1>20. ScriptTyped
  BY <1>2, ElemsOfEmpty DEF ScriptTyped
<1>21. TpgLast
  BY <1>2 DEF TpgLast
<1>22. HoldInv
  BY <1>10 DEF HoldInv, Hold
<1> QED
  BY <1>2, <1>5, <1>19, <1>20, <1>21, <1>22 DEF Typed

LEMMA WrittenIsTyped ==
  ASSUME ShadowTyped, WriteOf(serving, Head(script)), shadow' = Written
  PROVE  ShadowTyped'
<1> DEFINE w == Head(script)
<1>1. WriteOf(serving, w) /\ shadow' = [shadow EXCEPT ![w.reg][w.byte] = w.value]
  BY DEF Written
<1> HIDE DEF w
<1>2. DOMAIN shadow' = Registers
  BY <1>1 DEF ShadowTyped
<1>3. ASSUME NEW reg \in Registers
      PROVE  shadow'[reg] \in [1..Bytes[reg] -> 0..(Base - 1)]
  <2>1. shadow[reg] \in [1..Bytes[reg] -> 0..(Base - 1)] /\ reg \in DOMAIN shadow
    BY DEF ShadowTyped
  <2>2. CASE reg = w.reg
    <3>1. shadow'[reg] = [shadow[reg] EXCEPT ![w.byte] = w.value]
      BY <1>1, <2>1, <2>2
    <3>2. w.byte \in 1..Bytes[reg] /\ w.value \in 0..(Base - 1)
      BY <1>1, <2>2 DEF WriteOf
    <3> QED
      BY <2>1, <3>1, <3>2
  <2>3. CASE reg # w.reg
    BY <1>1, <2>1, <2>3
  <2> QED
    BY <2>2, <2>3
<1> QED
  BY <1>2, <1>3 DEF ShadowTyped

LEMMA TypedStepped ==
  ASSUME IndInv, Typed, TpgLast, HoldInv, DoWrite \/ DoAssign
  PROVE  Typed' /\ TpgLast' /\ HoldInv'
<1> DEFINE w == Head(script)
           n == Len(script)
<1>1. script # << >> /\ script' = Tail(script) /\ serving' = serving /\ stale' = StillStale
      /\ request' = request
  BY DEF DoWrite, DoAssign
<1>2. /\ Elems(script) = Elems(Tail(script)) \cup {w}
      /\ w.kind = "write" => WriteOf(serving, w)
      /\ w.kind = "assign" => AssignOf(serving, w)
  BY <1>1, HeadIsTyped
<1>3. HeadFits(w, n) /\ n \in Nat \ {0} /\ Len(Tail(script)) = n - 1
  BY <1>1, HeadHasShape, AtOfTail DEF IndInv, ScriptInv
<1>4. \/ /\ w.kind = "write" /\ cache' = cache /\ shadow' = [shadow EXCEPT ![w.reg][w.byte] = w.value]
         /\ torn' \subseteq torn \cup {w.reg}
      \/ w.kind = "assign" /\ shadow' = shadow /\ torn' = torn /\ cache' = [cache EXCEPT ![w.field] = w.value]
  BY DEF DoWrite, DoAssign, Written, Tear
<1>5. ScriptTyped'
  BY <1>1, <1>2 DEF Typed, ScriptTyped, WriteOf, AssignOf
<1>6. TpgLast'
  BY <1>1 DEF TpgLast
<1> HIDE DEF w, n
<1>7. CASE w.kind = "assign"
  <2>1. AssignOf(serving, w) /\ shadow' = shadow /\ torn' = torn /\ cache' = [cache EXCEPT ![w.field] = w.value]
    BY <1>2, <1>4, <1>7
  <2>2. CacheTyped'
    BY <2>1 DEF Typed, CacheTyped, AssignOf
  <2>3. Typed'
    BY <1>5, <2>1, <2>2 DEF Typed, ShadowTyped
  <2>4. HoldInv'
    <3> SUFFICES ASSUME stale' \cap Latching = {}, script' = << >> \/ serving' \notin Latching
                 PROVE  Hold' = 0
      BY DEF HoldInv
    <3>1. serving \notin Latching
      <4> SUFFICES ASSUME serving \in Latching
                   PROVE  FALSE
        OBVIOUS
      <4>1. n \in {5, 6, 7}
        BY <1>3, <1>7 DEF HeadFits, Latching
      <4>2. Len(script') = n - 1 /\ script' = << >>
        BY <1>1, <1>3
      <4> QED
        BY <4>1, <4>2
    <3>2. stale \cap Latching = {}
      BY <1>1, <3>1 DEF StillStale, Completed, Latching
    <3> QED
      BY <2>1, <3>1, <3>2 DEF HoldInv, Hold
  <2> QED
    BY <1>6, <2>3, <2>4
<1>8. CASE w.kind = "write"
  <2>1. /\ WriteOf(serving, w) /\ cache' = cache /\ torn' \subseteq torn \cup {w.reg}
        /\ shadow' = [shadow EXCEPT ![w.reg][w.byte] = w.value]
    BY <1>2, <1>4, <1>8
  <2>2. ShadowTyped'
    <3>1. shadow' = Written
      BY <1>8 DEF DoWrite, DoAssign, w
    <3> QED
      BY <2>1, <3>1, WrittenIsTyped DEF Typed, w
  <2>3. Typed'
    BY <1>5, <2>1, <2>2 DEF Typed, CacheTyped, WriteOf
  <2>4. HoldInv'
    <3> SUFFICES ASSUME stale' \cap Latching = {}, script' = << >> \/ serving' \notin Latching
                 PROVE  Hold' = 0
      BY DEF HoldInv
    <3>0. "REGHOLD" \in DOMAIN shadow /\ 1 \in DOMAIN shadow["REGHOLD"]
      BY DEF IndInv, Held
    <3>1. CASE serving \notin Latching
      <4>1. stale \cap Latching = {}
        BY <1>1, <3>1 DEF StillStale, Completed, Latching
      <4>2. w.reg # "REGHOLD"
        BY <2>1, <3>1 DEF WriteOf, Owns, Latching
      <4>3. Hold' = Hold
        BY <2>1, <3>0, <4>2 DEF Hold
      <4> QED
        BY <3>1, <4>1, <4>3 DEF HoldInv
    <3>2. CASE serving \in Latching
      <4>1. n = 1
        <5>1. Len(script') = n - 1 /\ script' = << >>
          BY <1>1, <1>3, <3>2
        <5> QED
          BY <1>3, <5>1
      <4>2. IsHold(w, 0)
        BY <1>3, <1>8, <3>2, <4>1 DEF HeadFits, Latching
      <4> QED
        BY <2>1, <3>0, <4>2 DEF IsHold, IsWrite, Hold
    <3> QED
      BY <3>1, <3>2
  <2> QED
    BY <1>6, <2>3, <2>4
<1> QED
  BY <1>4, <1>7, <1>8

LEMMA TypedFailed ==
  ASSUME IndInv, Typed, TpgLast, HoldInv, WriteFails
  PROVE  Typed' /\ TpgLast' /\ HoldInv' /\ "tpg" \notin DOMAIN request /\ serving \notin {"select", "pattern"}
<1> DEFINE w == Head(script)
<1>1. /\ script # << >> /\ w.kind = "write" /\ script' = << >> /\ request' = << >> /\ serving' = serving
      /\ shadow' \in {shadow, Written} /\ stale' = stale \cup {serving} /\ cache' = cache
      /\ torn' \subseteq torn \cup {w.reg}
  BY DEF WriteFails
<1>2. WriteOf(serving, w)
  BY <1>1, HeadIsTyped
<1>3. Written = [shadow EXCEPT ![w.reg][w.byte] = w.value]
  BY DEF Written
<1> HIDE DEF w
<1>4. ShadowTyped'
  <2>1. CASE shadow' = shadow
    BY <2>1 DEF Typed, ShadowTyped
  <2>2. CASE shadow' = Written
    BY <1>2, <2>2, WrittenIsTyped DEF Typed, w
  <2> QED
    BY <1>1, <2>1, <2>2
<1>5. Typed'
  BY <1>1, <1>2, <1>4, ElemsOfEmpty DEF Typed, CacheTyped, ScriptTyped, WriteOf
<1>6. TpgLast'
  BY <1>1 DEF TpgLast
<1>7. serving \notin {"select", "pattern"}
  BY <1>2 DEF WriteOf, Owns
<1>8. "tpg" \notin DOMAIN request
  BY <1>1, <1>7 DEF TpgLast
<1>9. HoldInv'
  <2> SUFFICES ASSUME stale' \cap Latching = {}
               PROVE  Hold' = 0
    BY DEF HoldInv
  <2>1. serving \notin Latching /\ stale \cap Latching = {}
    BY <1>1
  <2>2. w.reg # "REGHOLD"
    BY <1>2, <2>1 DEF WriteOf, Owns, Latching
  <2>3. "REGHOLD" \in DOMAIN shadow
    BY DEF IndInv, Held
  <2>4. Hold' = Hold
    BY <1>1, <1>3, <2>2, <2>3 DEF Hold
  <2> QED
    BY <2>1, <2>4 DEF HoldInv
<1> QED
  BY <1>5, <1>6, <1>7, <1>8, <1>9

(* Order: the keys FirstKey passes over are not in the request.            *)
LEMMA FirstKeyComesFirst ==
  ASSUME request # << >>, IsRequest(request)
  PROVE  /\ FirstKey = "select" => DOMAIN request \subseteq {"select", "pattern", "tpg"}
         /\ FirstKey = "pattern" => DOMAIN request \subseteq {"pattern", "tpg"}
         /\ FirstKey = "tpg" => DOMAIN request \subseteq {"tpg"}
<1>1. /\ DOMAIN Order = 1..7
      /\ Order[1] = "fps" /\ Order[2] = "exposure" /\ Order[3] = "gain" /\ Order[4] = "black"
      /\ Order[5] = "select" /\ Order[6] = "pattern" /\ Order[7] = "tpg"
  BY DEF Order
<1>2. PICK i \in 1..7 : FirstKey = Order[i] /\ \A j \in 1..(i - 1) : Order[j] \notin DOMAIN request
  BY <1>1, FirstKeyIsFirst
<1>3. DOMAIN request \subseteq Keys
  BY DEF IsRequest
<1>4. CASE i \in 1..4
  <2>1. FirstKey \in {"fps", "exposure", "gain", "black"}
    BY <1>1, <1>2, <1>4
  <2> QED
    BY <2>1
<1>5. CASE i = 5
  BY <1>1, <1>2, <1>3, <1>5 DEF Keys
<1>6. CASE i = 6
  BY <1>1, <1>2, <1>3, <1>6 DEF Keys
<1>7. CASE i = 7
  BY <1>1, <1>2, <1>3, <1>7 DEF Keys
<1> QED
  BY <1>4, <1>5, <1>6, <1>7

LEMMA TypedStarted ==
  ASSUME IndInv, Typed, TpgLast, HoldInv, HandleKey
  PROVE  Typed' /\ TpgLast' /\ HoldInv'
<1>1. PICK key, n : Starts(key, n) /\ key = FirstKey /\ n = request[FirstKey]
  BY HandleKeyStarts
<1>2. script = << >> /\ request # << >> /\ IsRequest(request)
  BY DEF HandleKey, IndInv, ScriptInv
<1>3. Typed'
  BY <1>1 DEF Starts, Typed, ShadowTyped, CacheTyped, ScriptTyped
<1>4. HoldInv'
  BY <1>1 DEF Starts, HoldInv, Hold
<1>5. TpgLast'
  <2> DEFINE rest == Without(request, key)
  <2>1. DOMAIN rest = DOMAIN request \ {key}
    BY DEF Without
  <2>2. DOMAIN WithTpg(rest) = DOMAIN rest \cup {"tpg"}
    BY DEF WithTpg
  <2>3. \/ key \in {"select", "pattern"} /\ request' = WithTpg(rest)
        \/ key \notin {"select", "pattern"} /\ request' = rest
    BY <1>1 DEF HandleKey, Accepted
  <2>4. key \in Keys /\ serving' = key
    BY <1>1 DEF Starts
  <2> HIDE DEF rest
  <2>5. CASE key \in {"select", "pattern"}
    <3>1. DOMAIN request \subseteq {"select", "pattern", "tpg"}
          /\ (key = "pattern" => DOMAIN request \subseteq {"pattern", "tpg"})
      BY <1>1, <1>2, <2>5, FirstKeyComesFirst
    <3> QED
      BY <2>1, <2>2, <2>3, <2>4, <2>5, <3>1 DEF TpgLast
  <2>6. CASE key = "tpg"
    BY <2>1, <2>3, <2>6 DEF TpgLast
  <2>7. CASE key \notin {"select", "pattern", "tpg"}
    <3>1. key \in DOMAIN request
      BY <1>1, <1>2, FirstKeyIsAKey
    <3>2. "tpg" \notin DOMAIN request
      BY <2>7, <3>1 DEF TpgLast
    <3> QED
      BY <2>1, <2>3, <2>7, <3>2 DEF TpgLast
  <2> QED
    BY <2>5, <2>6, <2>7
<1> QED
  BY <1>3, <1>4, <1>5
-----------------------------------------------------------------------------
(* Generator and black level.                                              *)
LEMMA PatternAtStart ==
  ASSUME Init
  PROVE  PatternInv
<1>1. PICK c \in Configs :
        /\ cache = [vmax |-> c.vmax, exposure |-> c.exposure, gain |-> c.gain, pattern |-> c.pattern,
                    select |-> c.select, black |-> DefaultBlackLevel]
        /\ shadow = Configured(c)
  BY DEF Init
<1>2. script = << >>
  BY DEF Init
<1>3. /\ c.pattern \in BOOLEAN /\ c.select \in 0..(Base - 1) /\ DefaultBlackLevel \in 0..MaxBlackLevel
  BY SensorAssumption, LimitsAreNumbers DEF SensorAssumption
<1>4. /\ WillBe("black", DefaultBlackLevel) /\ WillBe("pattern", c.pattern) /\ WillBe("select", c.select)
  BY <1>1, <1>2, WillIsNow
<1>5. /\ shadow["TPG_EN"] = << On(c.pattern) >>
      /\ shadow["PATSEL"] = <<IF c.pattern THEN c.select ELSE 0>>
      /\ shadow["BLKLEVEL"] = IF c.pattern THEN [Digits("BLKLEVEL", DefaultBlackLevel) EXCEPT ![1] = 0]
                                           ELSE Digits("BLKLEVEL", DefaultBlackLevel)
  BY <1>1 DEF Configured, On
<1>6. Digits("BLKLEVEL", DefaultBlackLevel) = [i \in 1..2 |-> Digit(DefaultBlackLevel, i)]
  BY DEF Digits, Bytes
<1>7. shadow["BLKLEVEL"][2] = Digit(DefaultBlackLevel, 2) /\ shadow["BLKLEVEL"][1] = Low(c.pattern)
  BY <1>5, <1>6 DEF Low
<1>8. Will("TPG_EN", 1, On(c.pattern)) /\ (c.pattern => Will("PATSEL", 1, c.select))
  BY <1>2, <1>5, WillIsNow
<1>9. Will("BLKLEVEL", 2, Digit(DefaultBlackLevel, 2)) /\ Will("BLKLEVEL", 1, Low(c.pattern))
  BY <1>2, <1>7, WillIsNow
<1> QED
  BY <1>3, <1>4, <1>8, <1>9 DEF PatternInv, PatternWillBe

PatternBytes ==
  /\ "TPG_EN" \in Registers /\ "PATSEL" \in Registers /\ "BLKLEVEL" \in Registers
  /\ 1 \in 1..Bytes["TPG_EN"] /\ 1 \in 1..Bytes["PATSEL"]
  /\ 1 \in 1..Bytes["BLKLEVEL"] /\ 2 \in 1..Bytes["BLKLEVEL"]
  /\ "black" \in Fields /\ "pattern" \in Fields /\ "select" \in Fields

LEMMA PatternBytesAre == PatternBytes
  BY DEF PatternBytes, Registers, Bytes, Fields

LEMMA PatternStepped ==
  ASSUME IndInv, Typed, PatternInv, DoWrite \/ DoAssign
  PROVE  PatternInv'
<1>1. PICK b \in 0..MaxBlackLevel, p \in BOOLEAN, sel \in 0..(Base - 1) : PatternWillBe(b, p, sel)
  BY DEF PatternInv
<1>2. PatternBytes
  BY PatternBytesAre
<1>3. request' = request
  BY DEF DoWrite, DoAssign
<1>4. WillBe("black", b)' /\ WillBe("pattern", p)' /\ WillBe("select", sel)'
  BY <1>1, <1>2, WillBeStays DEF PatternWillBe, PatternBytes
<1>5. Clean({"tpg"})' => Clean({"tpg"})
  BY CleanBefore
<1>6. Clean({"black"})' => Clean({"black"})
  BY CleanBefore
<1>7. Generating' => Generating
  BY <1>3, <1>5 DEF Generating
<1>8. /\ \A v : Will("TPG_EN", 1, v) => Will("TPG_EN", 1, v)'
      /\ \A v : Will("PATSEL", 1, v) => Will("PATSEL", 1, v)'
      /\ \A v : Will("BLKLEVEL", 1, v) => Will("BLKLEVEL", 1, v)'
      /\ \A v : Will("BLKLEVEL", 2, v) => Will("BLKLEVEL", 2, v)'
  BY <1>2, WillStays DEF PatternBytes
<1>9. PatternWillBe(b, p, sel)'
  BY <1>1, <1>4, <1>6, <1>7, <1>8 DEF PatternWillBe
<1> QED
  BY <1>9 DEF PatternInv

LEMMA PatternFailed ==
  ASSUME IndInv, Typed, TpgLast, HoldInv, PatternInv, WriteFails
  PROVE  PatternInv'
<1>1. PICK b \in 0..MaxBlackLevel, p \in BOOLEAN, sel \in 0..(Base - 1) : PatternWillBe(b, p, sel)
  BY DEF PatternInv
<1>2. PatternBytes
  BY PatternBytesAre
<1>3. "tpg" \notin DOMAIN request /\ serving \notin {"select", "pattern"}
  BY TypedFailed
<1>4. PICK a \in 0..MaxBlackLevel : a = cache["black"]
  BY <1>2 DEF Typed, CacheTyped, IsValue, PatternBytes
<1>5. WillBe("black", a)' /\ (serving # "black" => a = b)
  BY <1>1, <1>2, <1>4, FailureLeavesCache DEF OwnsField, PatternWillBe, PatternBytes
<1>6. cache["pattern"] = p /\ cache["select"] = sel
  BY <1>1, <1>2, <1>3, FailureLeavesCache DEF OwnsField, PatternWillBe, PatternBytes
<1>7. WillBe("pattern", p)' /\ WillBe("select", sel)'
  BY <1>2, <1>6, FailureLeavesCache DEF PatternBytes
<1>8. Clean({"tpg"})' => serving # "tpg" /\ Generating
  BY <1>3, FailureSoils DEF Generating
<1>9. Clean({"black"})' => serving # "black" /\ Clean({"black"})
  BY FailureSoils
<1>10. serving # "tpg" => /\ \A v : Will("TPG_EN", 1, v) => Will("TPG_EN", 1, v)'
                          /\ \A v : Will("PATSEL", 1, v) => Will("PATSEL", 1, v)'
  BY <1>2, FailureLeaves DEF PatternBytes, Owns
<1>11. serving # "black" => \A v : Will("BLKLEVEL", 2, v) => Will("BLKLEVEL", 2, v)'
  BY <1>2, FailureLeaves DEF PatternBytes, Owns
<1>12. serving \notin {"tpg", "black"} => \A v : Will("BLKLEVEL", 1, v) => Will("BLKLEVEL", 1, v)'
  BY <1>2, FailureLeaves DEF PatternBytes, Owns
<1>13. Generating' => Clean({"tpg"})'
  BY DEF Generating
<1>14. Generating' => Will("TPG_EN", 1, On(p))' /\ (p => Will("PATSEL", 1, sel)')
  BY <1>1, <1>8, <1>10, <1>13 DEF PatternWillBe
<1>15. Clean({"black"})' => Will("BLKLEVEL", 2, Digit(a, 2))'
  BY <1>1, <1>5, <1>9, <1>11 DEF PatternWillBe
<1>16. Generating' /\ Clean({"black"})' =>
         Will("BLKLEVEL", 1, Digit(a, 1))' \/ Will("BLKLEVEL", 1, Low(p))'
  BY <1>1, <1>5, <1>8, <1>9, <1>12, <1>13 DEF PatternWillBe
<1>17. PatternWillBe(a, p, sel)'
  BY <1>5, <1>7, <1>14, <1>15, <1>16 DEF PatternWillBe
<1> QED
  BY <1>17 DEF PatternInv

LEMMA PatternStarted ==
  ASSUME IndInv, Typed, TpgLast, PatternInv, HandleKey
  PROVE  PatternInv'
<1>1. PICK key, n : Starts(key, n) /\ key = FirstKey /\ n = request[FirstKey]
  BY HandleKeyStarts
<1>2. PICK b \in 0..MaxBlackLevel, p \in BOOLEAN, sel \in 0..(Base - 1) : PatternWillBe(b, p, sel)
  BY DEF PatternInv
<1>3. PatternBytes
  BY PatternBytesAre
<1>4. /\ script = << >> /\ key \in Keys /\ n \in Nat
      /\ key = "select" => n \in 0..(Base - 1)
  BY <1>1, SensorAssumption DEF Starts, IsAsked, SensorAssumption
<1>5. cache["black"] = b /\ cache["pattern"] = p /\ cache["select"] = sel
  BY <1>2, <1>4, WillIsNow DEF PatternWillBe
<1>6. /\ key \in {"select", "pattern"} => "tpg" \in DOMAIN request'
      /\ key \notin {"select", "pattern", "tpg"} => ("tpg" \in DOMAIN request => "tpg" \in DOMAIN request')
  <2>1. DOMAIN Without(request, key) = DOMAIN request \ {key}
    BY DEF Without
  <2>2. "tpg" \in DOMAIN WithTpg(Without(request, key))
    BY DEF WithTpg
  <2>3. /\ key \in {"select", "pattern"} => request' = WithTpg(Without(request, key))
        /\ key \notin {"select", "pattern"} => request' = Without(request, key)
    BY <1>1 DEF HandleKey, Accepted
  <2> QED
    BY <2>1, <2>2, <2>3
<1>7. ASSUME script' = << >>
      PROVE  key \notin {"select", "pattern", "tpg"}
  <2>1. CASE key = "select"
    <3>1. script' = Assign("select", n)
      BY <1>1, <2>1 DEF Starts, Accepted, Call
    <3> QED
      BY <1>7, <3>1, ElemsOfAssign, ElemsOfEmpty
  <2>2. CASE key = "pattern"
    <3>1. script' = Assign("pattern", n = 1)
      BY <1>1, <2>2 DEF Starts, Accepted, Call
    <3>2. Len(script') = 1
      BY <3>1 DEF Assign
    <3> QED
      BY <1>7, <3>2
  <2>3. CASE key = "tpg"
    <3>1. script' = SetTestPattern(p, sel)
      BY <1>1, <1>5, <2>3 DEF Starts, Accepted, Call
    <3>2. Elems(script') = PatternSet(p, sel)
      BY <3>1, ElemsOfTestPattern
    <3> QED
      BY <1>7, <3>2, ElemsOfEmpty DEF PatternSet
  <2> QED
    BY <2>1, <2>2, <2>3
<1>8. CASE script' = << >> \/ key \in Latching
  <2>1. WillBe("black", b)' /\ WillBe("pattern", p)' /\ WillBe("select", sel)'
    BY <1>1, <1>2, <1>8, NothingStarts, StartLeavesCache DEF PatternWillBe, OwnsField, Latching
  <2>2. /\ \A v : Will("TPG_EN", 1, v) => Will("TPG_EN", 1, v)'
        /\ \A v : Will("PATSEL", 1, v) => Will("PATSEL", 1, v)'
        /\ \A v : Will("BLKLEVEL", 1, v) => Will("BLKLEVEL", 1, v)'
        /\ \A v : Will("BLKLEVEL", 2, v) => Will("BLKLEVEL", 2, v)'
    BY <1>1, <1>8, NothingStarts, StartLeaves DEF Owns, Latching
  <2>3. /\ Clean({"tpg"})' => Clean({"tpg"})
        /\ Clean({"black"})' => Clean({"black"})
    BY <1>1, <1>8, StartCleans DEF Latching
  <2>4. Generating' => Generating
    BY <1>6, <1>7, <1>8, <2>3 DEF Generating, Latching
  <2>5. PatternWillBe(b, p, sel)'
    BY <1>2, <2>1, <2>2, <2>3, <2>4 DEF PatternWillBe
  <2> QED
    BY <2>5 DEF PatternInv
<1>9. CASE script' # << >> /\ key = "black"
  <2>1. Accepted(key, n) /\ script' = SetBlackLevel(n)
    BY <1>1, <1>9 DEF Starts, Call
  <2>2. n \in 0..MaxBlackLevel
    BY <1>4, <1>9, <2>1, LimitsAreNumbers DEF Accepted
  <2>3. Elems(script') = {A("black", n)} \cup WriteSet("BLKLEVEL", n)
    BY <2>1, ElemsOfBlackLevel
  <2>4. \A w \in WriteSet("BLKLEVEL", n) : w.kind = "write" /\ w.reg = "BLKLEVEL"
    BY <1>3, <1>4, WriteSetIsTyped DEF PatternBytes
  <2>5. WillBe("black", n)'
    BY <2>3, <2>4, AssignsWill DEF A
  <2>6. WillBe("pattern", p)' /\ WillBe("select", sel)'
    BY <1>1, <1>2, <1>9, StartLeavesCache DEF PatternWillBe, OwnsField
  <2>7. WillHold("BLKLEVEL", n)'
    BY <1>3, <1>4, <2>3, <2>4, WritesWill DEF A, PatternBytes
  <2>8. Will("BLKLEVEL", 1, Digit(n, 1))' /\ Will("BLKLEVEL", 2, Digit(n, 2))'
    BY <1>3, <2>7 DEF WillHold, PatternBytes
  <2>9. Clean({"tpg"})' => Clean({"tpg"})
    BY <1>1, <1>9, StartCleans
  <2>10. Generating' => Generating
    BY <1>6, <1>9, <2>9 DEF Generating
  <2>11. /\ \A v : Will("TPG_EN", 1, v) => Will("TPG_EN", 1, v)'
         /\ \A v : Will("PATSEL", 1, v) => Will("PATSEL", 1, v)'
    BY <1>1, <1>9, StartLeaves DEF Owns
  <2>12. PatternWillBe(n, p, sel)'
    BY <1>2, <2>5, <2>6, <2>8, <2>10, <2>11 DEF PatternWillBe
  <2> QED
    BY <2>2, <2>12 DEF PatternInv
<1>10. CASE key \in {"select", "pattern"}
  <2>1. ~Generating'
    BY <1>6, <1>10 DEF Generating
  <2>2. WillBe("black", b)'
    BY <1>1, <1>2, <1>10, StartLeavesCache DEF PatternWillBe, OwnsField
  <2>3. Clean({"black"})' => Will("BLKLEVEL", 2, Digit(b, 2))'
    <3>1. Clean({"black"})' => Clean({"black"})
      BY <1>1, <1>10, StartCleans
    <3> QED
      BY <1>1, <1>2, <1>10, <3>1, StartLeaves DEF PatternWillBe, Owns
  <2>4. CASE key = "select"
    <3>1. script' = Assign("select", n)
      BY <1>1, <2>4 DEF Starts, Accepted, Call
    <3>2. WillBe("select", n)'
      BY <3>1, ElemsOfAssign, AssignsWill
    <3>3. WillBe("pattern", p)'
      BY <1>1, <1>2, <2>4, StartLeavesCache DEF PatternWillBe, OwnsField
    <3>4. PatternWillBe(b, p, n)'
      BY <2>1, <2>2, <2>3, <3>2, <3>3 DEF PatternWillBe
    <3> QED
      BY <1>4, <2>4, <3>4 DEF PatternInv
  <2>5. CASE key = "pattern"
    <3>1. PICK q \in BOOLEAN : q = (n = 1)
      OBVIOUS
    <3>2. script' = Assign("pattern", q)
      BY <1>1, <2>5, <3>1 DEF Starts, Accepted, Call
    <3>3. Elems(script') = {A("pattern", q)}
      BY <3>2, ElemsOfAssign
    <3>4. WillBe("pattern", q)'
      BY <3>3, AssignsWill
    <3>5. WillBe("select", sel)'
      BY <1>1, <1>2, <2>5, StartLeavesCache DEF PatternWillBe, OwnsField
    <3>6. PatternWillBe(b, q, sel)'
      BY <2>1, <2>2, <2>3, <3>4, <3>5 DEF PatternWillBe
    <3> QED
      BY <3>6 DEF PatternInv
  <2> QED
    BY <1>10, <2>4, <2>5
<1>11. CASE key = "tpg"
  <2>1. script' = SetTestPattern(p, sel)
    BY <1>1, <1>5, <1>11 DEF Starts, Accepted, Call
  <2>2. Elems(script') = PatternSet(p, sel)
    BY <2>1, ElemsOfTestPattern
  <2>3. WillBe("black", b)' /\ WillBe("pattern", p)' /\ WillBe("select", sel)'
    BY <1>1, <1>2, <1>11, StartLeavesCache DEF PatternWillBe, OwnsField
  <2>4. Will("TPG_EN", 1, On(p))' /\ (p => Will("PATSEL", 1, sel)') /\ Will("BLKLEVEL", 1, Low(p))'
    <3>1. ASSUME NEW reg, NEW v, W(reg, 1, v) \in PatternSet(p, sel),
                 \A w \in PatternSet(p, sel) : w.reg = reg => w = W(reg, 1, v)
          PROVE  Will(reg, 1, v)'
      <4>1. IsWrite(W(reg, 1, v), reg, 1)
        BY DEF W, IsWrite
      <4>2. \A w \in Elems(script') : IsWrite(w, reg, 1) => w.value = v
        BY <2>2, <3>1 DEF W, IsWrite
      <4> QED
        BY <2>2, <3>1, <4>1, <4>2 DEF Will
    <3>2. Will("TPG_EN", 1, On(p))'
      BY <3>1 DEF PatternSet, W
    <3>3. Will("BLKLEVEL", 1, Low(p))'
      BY <3>1 DEF PatternSet, W
    <3>4. ASSUME p
          PROVE  Will("PATSEL", 1, sel)'
      <4>1. PatternSet(p, sel) =
              {W("BLKLEVEL", 1, Low(p)), W("TPG_EN", 1, On(p)), W("PATSEL", 1, sel)}
        BY <3>4 DEF PatternSet
      <4> QED
        BY <3>1, <4>1 DEF W
    <3> QED
      BY <3>2, <3>3, <3>4
  <2>5. Clean({"black"})' => Will("BLKLEVEL", 2, Digit(b, 2))'
    <3>1. Clean({"black"})' => Clean({"black"})
      BY <1>1, <1>11, StartCleans
    <3> QED
      BY <1>1, <1>2, <1>11, <3>1, StartLeaves DEF PatternWillBe, Owns
  <2>6. PatternWillBe(b, p, sel)'
    BY <2>3, <2>4, <2>5 DEF PatternWillBe
  <2> QED
    BY <2>6 DEF PatternInv
<1> QED
  BY <1>4, <1>8, <1>9, <1>10, <1>11 DEF Keys, Latching
-----------------------------------------------------------------------------
LEMMA DivisionUnique ==
  ASSUME NEW b \in Nat \ {0}, NEW q \in Nat, NEW r \in Nat, r < b, NEW a \in Nat, a = b * q + r
  PROVE  a \div b = q /\ a % b = r
<1>1. (a \div b) \in Nat /\ (a % b) \in Nat /\ a % b < b /\ a = b * (a \div b) + (a % b)
  OBVIOUS
<1> DEFINE d == a \div b
           m == a % b
<1> HIDE DEF d, m
<1>2. d \in Nat /\ m \in Nat /\ m < b /\ b * d + m = b * q + r
  BY <1>1 DEF d, m
<1>3. CASE d > q
  <2>1. PICK k \in Nat : d = q + 1 + k
    BY <1>2, <1>3
  <2>2. b * d = b * q + b + b * k /\ b * k >= 0
    BY <2>1
  <2> QED
    BY <1>2, <2>2
<1>4. CASE d < q
  <2>1. PICK k \in Nat : q = d + 1 + k
    BY <1>2, <1>4
  <2>2. b * q = b * d + b + b * k /\ b * k >= 0
    BY <1>2, <2>1
  <2> QED
    BY <1>2, <2>2
<1>5. CASE d = q
  BY <1>2, <1>5 DEF d, m
<1> QED
  BY <1>2, <1>3, <1>4, <1>5

(* Three digits make up a number that fits three bytes.                    *)
LEMMA DigitsMakeUp ==
  ASSUME NEW v \in Nat, v < Base * Base * Base
  PROVE  Digit(v, 1) + Base * Digit(v, 2) + Base * Base * Digit(v, 3) = v
<1> DEFINE b == Base
<1>1. b \in Nat /\ b > 1
  BY SensorAssumption DEF SensorAssumption
<1> HIDE DEF b
<1> DEFINE q == v \div b
           r == v % b
           p == q \div b
           s == q % b
<1>2. q \in Nat /\ r \in Nat /\ r < b /\ v = b * q + r
  BY <1>1
<1> HIDE DEF q, r
<1>3. p \in Nat /\ s \in Nat /\ s < b /\ q = b * p + s
  BY <1>1, <1>2
<1> HIDE DEF p, s
<1>4. v = (b * b) * p + (b * s + r)
  <2>1. b * q = b * (b * p) + b * s
    BY <1>1, <1>3
  <2>2. b * (b * p) = (b * b) * p
    BY <1>1, <1>3
  <2> QED
    BY <1>1, <1>2, <1>3, <2>1, <2>2
<1>5. b * s + r \in Nat /\ b * s + r < b * b
  <2>1. PICK k \in Nat : b = s + 1 + k
    BY <1>1, <1>3
  <2>2. b * b = b * s + b + b * k /\ b * k \in Nat /\ b * s \in Nat
    BY <1>1, <1>3, <2>1
  <2> QED
    BY <1>1, <1>2, <2>2
<1>6. b * b \in Nat \ {0}
  BY <1>1
<1> DEFINE c == b * b
           t == b * s + r
<1>7. v = c * p + t /\ c \in Nat \ {0} /\ t \in Nat /\ t < c
  BY <1>4, <1>5, <1>6
<1> HIDE DEF c, t
<1>8. v \div c = p
  BY <1>3, <1>7, DivisionUnique
<1>9. p < b
  <2> SUFFICES ASSUME p >= b
               PROVE  FALSE
    BY <1>1, <1>3
  <2>1. PICK k \in Nat : p = b + k
    BY <1>1, <1>3
  <2>2. c * p = c * b + c * k /\ c * k \in Nat /\ c * b \in Nat
    BY <1>1, <1>7, <2>1
  <2>3. v >= c * b
    BY <1>7, <2>2
  <2>4. v < c * b
    BY DEF b, c
  <2> QED
    BY <1>1, <1>7, <2>2, <2>3, <2>4
<1>10. p % b = p
  BY <1>1, <1>3, <1>9
<1>11. v \div 1 = v
  OBVIOUS
<1>12. Digit(v, 1) = r /\ Digit(v, 2) = s /\ Digit(v, 3) = p
  BY <1>8, <1>10, <1>11 DEF Digit, Weights, b, c, r, s, q
<1>13. r + b * s + b * b * p = v
  BY <1>1, <1>2, <1>3, <1>4
<1> QED
  BY <1>12, <1>13 DEF b

(* What is said of a state is said of any that looks the same.             *)
LEMMA SameStays ==
  ASSUME SettledInv, UNCHANGED <<shadow, cache, script, torn, serving, stale>>,
         request' = request \/ (request = << >> /\ "tpg" \notin DOMAIN request')
  PROVE  Typed' /\ TpgLast' /\ TimingInv' /\ HoldInv' /\ PatternInv'
<1>1. Typed' /\ HoldInv'
  BY DEF SettledInv, Typed, ShadowTyped, CacheTyped, ScriptTyped, HoldInv, Hold
<1>2. /\ \A reg, i, v : Will(reg, i, v)' <=> Will(reg, i, v)
      /\ \A f, v : WillBe(f, v)' <=> WillBe(f, v)
      /\ \A keys : Clean(keys)' <=> Clean(keys)
  BY DEF Will, WillBe, Clean
<1>3. TimingInv'
  <2>1. PICK v \in MinVmax..MaxVmax, e \in Nat : TimingWillBe(v, e)
    BY DEF SettledInv, TimingInv
  <2>2. TimingWillBe(v, e)'
    BY <1>2, <2>1 DEF TimingWillBe, WillHold
  <2> QED
    BY <2>2 DEF TimingInv
<1>4. "tpg" \in DOMAIN request' => request' = request
  OBVIOUS
<1>5. TpgLast'
  BY <1>4 DEF SettledInv, TpgLast
<1>6. PatternInv'
  <2>1. PICK b \in 0..MaxBlackLevel, p \in BOOLEAN, sel \in 0..(Base - 1) : PatternWillBe(b, p, sel)
    BY DEF SettledInv, PatternInv
  <2>2. "tpg" \in DOMAIN request => "tpg" \in DOMAIN request'
    <3>1. DOMAIN << >> = {}
      OBVIOUS
    <3> QED
      BY <3>1
  <2>3. Generating' => Generating
    BY <1>2, <2>2 DEF Generating
  <2>4. PatternWillBe(b, p, sel)'
    BY <1>2, <2>1, <2>3 DEF PatternWillBe
  <2> QED
    BY <2>4 DEF PatternInv
<1> QED
  BY <1>1, <1>3, <1>5, <1>6

(* What the registers and the driver's cached values will be once the call *)
(* under way returns is known at every step of it, whichever transactions  *)
(* have failed.                                                            *)
THEOREM Settles == Spec => []SettledInv
<1>1. Init => SettledInv
  BY InitEstablishes, TypedAtStart, TimingAtStart, PatternAtStart DEF SettledInv
<1>2. SettledInv /\ [Next]_vars => SettledInv'
  <2> SUFFICES ASSUME SettledInv, [Next]_vars
               PROVE  SettledInv'
    OBVIOUS
  <2>1. ASSUME NEW r \in Requests, Apply(r)
        PROVE  SettledInv'
    <3>1. request' = r /\ request = << >> /\ UNCHANGED <<shadow, cache, script, torn, serving, stale>>
      BY <2>1 DEF Apply, Idle
    <3>2. "tpg" \notin DOMAIN r
      BY SensorAssumption DEF SensorAssumption
    <3>3. IndInv'
      BY <2>1, ApplyKeeps DEF SettledInv
    <3> QED
      BY <3>1, <3>2, <3>3, SameStays DEF SettledInv
  <2>2. CASE HandleKey
    BY <2>2, HandleKeyKeeps, TypedStarted, TimingStarted, PatternStarted DEF SettledInv
  <2>3. CASE DoAssign
    BY <2>3, AssignKeeps, TypedStepped, TimingStepped, PatternStepped DEF SettledInv
  <2>4. CASE DoWrite
    BY <2>4, WriteKeeps, TypedStepped, TimingStepped, PatternStepped DEF SettledInv
  <2>5. CASE WriteFails
    BY <2>5, FailureKeeps, TypedFailed, TimingFailed, PatternFailed DEF SettledInv
  <2>6. CASE UNCHANGED vars
    <3>1. IndInv'
      BY <2>6, StutterKeeps DEF SettledInv
    <3>2. request' = request /\ UNCHANGED <<shadow, cache, script, torn, serving, stale>>
      BY <2>6 DEF vars
    <3> QED
      BY <3>1, <3>2, SameStays DEF SettledInv
  <2> QED
    BY <2>1, <2>2, <2>3, <2>4, <2>5, <2>6 DEF Next
<1> QED
  BY <1>1, <1>2, PTL DEF Spec

(* The registers hold bytes, and the driver's cached values are in range.  *)
THEOREM TypeCorrect == Spec => []TypeOK
<1>1. SettledInv => TypeOK
  BY DEF SettledInv, Typed, ShadowTyped, CacheTyped, Fields, IsValue, TypeOK
<1> QED
  BY <1>1, Settles, PTL

(* Between requests VMAX and SHR0 hold the cached frame length and the     *)
(* shutter that NativeImx676Sensor's clamping gives for the cached         *)
(* exposure, and the shutter leaves the frame lines to integrate, unless a *)
(* failed set_frame_rate or set_exposure_s was not repeated since.         *)
THEOREM TimingSettles == Spec => []TimingMatchesDriver
<1>1. SettledInv => TimingMatchesDriver
  <2> SUFFICES ASSUME SettledInv, Idle, stale \cap {"fps", "exposure"} = {}
               PROVE  /\ stale = {} => shadow["REGHOLD"][1] = 0
                      /\ Value(shadow, "VMAX") = cache["vmax"]
                      /\ Value(shadow, "SHR0") = Shr0ForExposure(cache["vmax"], cache["exposure"])
                      /\ Value(shadow, "SHR0") + MinIntegration <= Value(shadow, "VMAX")
    BY DEF TimingMatchesDriver
  <2>1. script = << >>
    BY DEF Idle
  <2>2. stale = {} => shadow["REGHOLD"][1] = 0
    BY <2>1 DEF SettledInv, HoldInv, Hold
  <2>3. PICK v \in MinVmax..MaxVmax, e \in Nat : TimingWillBe(v, e)
    BY DEF SettledInv, TimingInv
  <2>4. cache["vmax"] = v /\ cache["exposure"] = e
    BY <2>1, <2>3, WillIsNow DEF TimingWillBe
  <2> DEFINE s == Shr0ForExposure(v, e)
  <2>5. WillHold("VMAX", v) /\ WillHold("SHR0", s)
    BY <2>3 DEF TimingWillBe, Clean
  <2>6. s \in MinShr0..(v - MinIntegration)
    BY ShutterFits
  <2> HIDE DEF s
  <2>7. ASSUME NEW reg \in {"VMAX", "SHR0"}, NEW n \in Nat, n < Base * Base * Base, WillHold(reg, n)
        PROVE  Value(shadow, reg) = n
    <3>1. 1 \in 1..Bytes[reg] /\ 2 \in 1..Bytes[reg] /\ 3 \in 1..Bytes[reg]
      BY DEF Bytes
    <3>2. /\ shadow[reg][1] = Digit(n, 1) /\ shadow[reg][2] = Digit(n, 2)
          /\ shadow[reg][3] = Digit(n, 3)
      BY <2>1, <2>7, <3>1, WillIsNow DEF WillHold
    <3> QED
      BY <2>7, <3>2, DigitsMakeUp DEF Value
  <2>8. /\ v \in Nat /\ v < Base * Base * Base
        /\ s \in Nat /\ s < Base * Base * Base /\ s + MinIntegration <= v
    <3>1. MaxVmax < Base * Base * Base /\ Base * Base * Base \in Nat
      BY SensorAssumption DEF SensorAssumption
    <3> DEFINE cube == Base * Base * Base
    <3> HIDE DEF cube
    <3>2. MaxVmax < cube /\ cube \in Nat
      BY <3>1 DEF cube
    <3>3. v \in Nat /\ v < cube /\ s \in Nat /\ s < cube /\ s + MinIntegration <= v
      BY <2>6, <3>2, LimitsAreNumbers
    <3> QED
      BY <3>3 DEF cube
  <2>9. Value(shadow, "VMAX") = v /\ Value(shadow, "SHR0") = s
    BY <2>5, <2>7, <2>8
  <2> QED
    BY <2>2, <2>4, <2>8, <2>9 DEF s
<1> QED
  BY <1>1, Settles, PTL

(* Between requests the generator runs iff CameraControls says so, with    *)
(* the pattern selected last, and BLKLEVEL is the black level's or the     *)
(* pattern table's, unless a failed call was not repeated since.           *)
THEOREM PatternSettles == Spec => []PatternMatchesControls
<1>1. SettledInv => PatternMatchesControls
  <2> SUFFICES ASSUME SettledInv, Idle, "tpg" \notin stale
               PROVE  /\ (shadow["TPG_EN"][1] = 1) = cache["pattern"]
                      /\ cache["pattern"] => shadow["PATSEL"][1] = cache["select"]
                      /\ "black" \notin stale =>
                           /\ shadow["BLKLEVEL"][2] = Digit(cache["black"], 2)
                           /\ shadow["BLKLEVEL"][1] \in {Digit(cache["black"], 1), Low(cache["pattern"])}
    BY DEF PatternMatchesControls, Low
  <2>1. script = << >> /\ "tpg" \notin DOMAIN request
    BY DEF Idle
  <2>2. PICK b \in 0..MaxBlackLevel, p \in BOOLEAN, sel \in 0..(Base - 1) : PatternWillBe(b, p, sel)
    BY DEF SettledInv, PatternInv
  <2>3. cache["black"] = b /\ cache["pattern"] = p /\ cache["select"] = sel
    BY <2>1, <2>2, WillIsNow DEF PatternWillBe
  <2>4. Generating /\ ("black" \notin stale => Clean({"black"}))
    BY <2>1 DEF Generating, Clean
  <2>5. shadow["TPG_EN"][1] = On(p) /\ (p => shadow["PATSEL"][1] = sel)
    BY <2>1, <2>2, <2>4, WillIsNow DEF PatternWillBe
  <2>6. "black" \notin stale =>
          /\ shadow["BLKLEVEL"][2] = Digit(b, 2)
          /\ shadow["BLKLEVEL"][1] \in {Digit(b, 1), Low(p)}
    BY <2>1, <2>2, <2>4, WillIsNow DEF PatternWillBe
  <2>7. (On(p) = 1) = p
    BY DEF On
  <2> QED
    BY <2>3, <2>5, <2>6, <2>7
<1> QED
  BY <1>1, Settles, PTL
=============================================================================
