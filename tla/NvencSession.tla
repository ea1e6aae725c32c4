---------------------------- MODULE NvencSession -----------------------------
(***************************************************************************)
(* hsb/encode/nvenc_session: one encoder session of the NVENC driver.      *)
(* Encode() maps a registered device buffer, hands it to the driver with   *)
(* the next output bitstream of a ring, and Drain() reads the finished     *)
(* bitstreams in the order they were handed out.  A session is used by one *)
(* thread; what is hard is that each driver call may fail, that the        *)
(* exception leaves the call half done, and that the caller may go on.     *)
(*                                                                         *)
(* The driver is external.  It may buffer a picture                        *)
(* (NV_ENC_ERR_NEED_MORE_INPUT); once it accepts a later one, or the end   *)
(* of the stream, everything buffered is available.  A bitstream without a *)
(* picture cannot be locked.                                               *)
(*                                                                         *)
(* Pictures are numbered in the order of the Encode() calls; the number    *)
(* stands for the picture, its time stamp and its mapped input.            *)
(***************************************************************************)
EXTENDS Naturals, Sequences

CONSTANTS
  Buffers,       \* max(num_output_buffers, 1)
  DeviceBuffers, \* registered device buffers the caller has
  MaxPictures,   \* bound: calls of Encode that get as far as the driver
  Buffering,     \* BOOLEAN: may the driver answer NEED_MORE_INPUT?
  DriverFaults   \* BOOLEAN: may a driver call fail?

ASSUME NvencAssumption ==
  /\ Buffers \in Nat \ {0}
  /\ MaxPictures \in Nat
  /\ Buffering \in BOOLEAN
  /\ DriverFaults \in BOOLEAN

VARIABLES
  doing,         \* "idle": no call; "draining": inside Drain; "destroyed"
  registered,    \* frames whose handle is not null
  nextBitstream, \* next_bitstream
  pending,       \* pending: what Drain still has to read, oldest first
  holds,         \* driver: the picture encoded into each bitstream, 0: none
  mapped,        \* driver: pictures whose input is mapped, with their frame
  pictures,      \* number of the last picture
  delivered,     \* number of the picture of the last packet in `out`
  packets,       \* history: packets appended to `out`
  failed         \* history: did a driver call fail?

sessionVars == <<doing, registered, nextBitstream, pending, holds, mapped, pictures,
          delivered, packets, failed>>

Bitstreams == 0..(Buffers - 1)
Pending == [picture : Nat \ {0}, bitstream : Bitstreams]

SessionTypeOK ==
  /\ doing \in {"idle", "draining", "destroyed"}
  /\ registered \subseteq DeviceBuffers
  /\ nextBitstream \in Bitstreams
  /\ pending \in Seq(Pending) /\ Len(pending) <= Buffers
  /\ holds \in [Bitstreams -> Nat]
  /\ mapped \subseteq (Nat \ {0}) \X DeviceBuffers
  /\ pictures \in Nat /\ delivered \in Nat /\ packets \in Nat
  /\ failed \in BOOLEAN

SessionInit ==
  /\ doing = "idle"
  /\ registered = {}
  /\ nextBitstream = 0
  /\ pending = << >>
  /\ holds = [b \in Bitstreams |-> 0]
  /\ mapped = {}
  /\ pictures = 0 /\ delivered = 0 /\ packets = 0
  /\ failed = FALSE
-----------------------------------------------------------------------------
(* Register and Unregister; a buffer the driver has mapped cannot be       *)
(* unregistered, the call throws and the handle stays.                     *)
Register(f) ==
  /\ doing = "idle"
  /\ registered' = registered \cup {f}
  /\ UNCHANGED <<doing, nextBitstream, pending, holds, mapped, pictures, delivered, packets, failed>>

Unregister(f) ==
  /\ doing = "idle"
  /\ f \in registered
  /\ \A m \in mapped : m[2] # f
  /\ registered' = registered \ {f}
  /\ UNCHANGED <<doing, nextBitstream, pending, holds, mapped, pictures, delivered, packets, failed>>

(* What nvEncEncodePicture answers, and what that does to the bitstream.   *)
Statuses ==
  {"success"} \cup (IF Buffering THEN {"need_more_input"} ELSE {})
              \cup (IF DriverFaults THEN {"error"} ELSE {})

NextInRing(b) == (b + 1) % Buffers

RingFull_Never == FALSE \* mutant: no test
RingFull == Len(pending) >= Buffers

(* Mutant: the entry is made after the status has been looked at.          *)
Encode_PendingOnSuccess(f) ==
  /\ doing = "idle"
  /\ f \in registered
  /\ ~RingFull
  /\ pictures < MaxPictures
  /\ pictures' = pictures + 1
  /\ mapped' = mapped \cup {<<pictures', f>>}
  /\ nextBitstream' = NextInRing(nextBitstream)
  /\ \E status \in Statuses :
       /\ holds' = [holds EXCEPT ![nextBitstream] = IF status = "error" THEN 0 ELSE pictures']
       /\ pending' = IF status = "success"
                     THEN Append(pending, [picture |-> pictures', bitstream |-> nextBitstream])
                     ELSE pending
       /\ doing' = IF status = "success" THEN "draining" ELSE "idle"
       /\ failed' = (failed \/ status = "error")
  /\ UNCHANGED <<registered, delivered, packets>>

(* Encode() up to Drain(): map, take the next bitstream, submit.  The      *)
(* entry of `pending` is made whatever the driver answered.  With a full   *)
(* ring, or a buffer that is not registered, it throws and changes nothing.*)
Encode(f) ==
  /\ doing = "idle"
  /\ f \in registered
  /\ ~RingFull
  /\ pictures < MaxPictures
  /\ pictures' = pictures + 1
  /\ mapped' = mapped \cup {<<pictures', f>>}
  /\ nextBitstream' = NextInRing(nextBitstream)
  /\ \E status \in Statuses :
       /\ holds' = [holds EXCEPT ![nextBitstream] = IF status = "error" THEN 0 ELSE pictures']
       /\ pending' = Append(pending, [picture |-> pictures', bitstream |-> nextBitstream])
       /\ doing' = IF status = "success" THEN "draining" ELSE "idle"
       /\ failed' = (failed \/ status = "error")
  /\ UNCHANGED <<registered, delivered, packets>>

(* Flush(): EOS was accepted, Drain begins.                                *)
FlushSession ==
  /\ doing = "idle"
  /\ doing' = "draining"
  /\ UNCHANGED <<registered, nextBitstream, pending, holds, mapped, pictures, delivered, packets, failed>>

(* nvEncMapInputResource or EOS fails: nothing has changed.                *)
CallFails ==
  /\ DriverFaults
  /\ doing = "idle"
  /\ failed' = TRUE
  /\ UNCHANGED <<doing, registered, nextBitstream, pending, holds, mapped, pictures, delivered, packets>>
-----------------------------------------------------------------------------
(* One turn of Drain's loop.  The entry leaves `pending` first.            *)
Pop_Newest == pending' = SubSeq(pending, 1, Len(pending) - 1) \* mutant
Pop == pending' = Tail(pending)

Oldest == Head(pending)
HasPicture == holds[Oldest.bitstream] # 0

(* Lock, copy to `out`, unlock, unmap.  The copied packet is the one the   *)
(* bitstream holds.                                                        *)
DrainOne ==
  /\ doing = "draining"
  /\ pending # << >>
  /\ HasPicture
  /\ Pop
  /\ delivered' = holds[Oldest.bitstream]
  /\ packets' = packets + 1
  /\ mapped' = {m \in mapped : m[1] # Oldest.picture}
  /\ UNCHANGED <<doing, registered, nextBitstream, holds, pictures, failed>>

(* LockBitstream fails: the exception leaves Drain; the entry is gone, its *)
(* input stays mapped.                                                     *)
LockFails ==
  /\ doing = "draining"
  /\ pending # << >>
  /\ DriverFaults \/ ~HasPicture
  /\ Pop
  /\ doing' = "idle"
  /\ failed' = TRUE
  /\ UNCHANGED <<registered, nextBitstream, holds, mapped, pictures, delivered, packets>>

(* Unlock or Unmap fails: the packet is in `out`, the exception leaves     *)
(* Drain and the input stays mapped.                                       *)
ReleaseFails ==
  /\ DriverFaults
  /\ doing = "draining"
  /\ pending # << >>
  /\ HasPicture
  /\ Pop
  /\ delivered' = holds[Oldest.bitstream]
  /\ packets' = packets + 1
  /\ doing' = "idle"
  /\ failed' = TRUE
  /\ UNCHANGED <<registered, nextBitstream, holds, mapped, pictures>>

DrainEnd ==
  /\ doing = "draining"
  /\ pending = << >>
  /\ doing' = "idle"
  /\ UNCHANGED <<registered, nextBitstream, pending, holds, mapped, pictures, delivered, packets, failed>>

(* ~NvencSession: unmaps what is pending, destroys bitstreams and encoder. *)
Destroy ==
  /\ doing = "idle"
  /\ doing' = "destroyed"
  /\ mapped' = {m \in mapped : \A i \in DOMAIN pending : pending[i].picture # m[1]}
  /\ pending' = << >>
  /\ UNCHANGED <<registered, nextBitstream, holds, pictures, delivered, packets, failed>>

SessionNext ==
  \/ \E f \in DeviceBuffers : Register(f) \/ Unregister(f) \/ Encode(f)
  \/ FlushSession \/ CallFails
  \/ DrainOne \/ LockFails \/ ReleaseFails \/ DrainEnd
  \/ Destroy

SessionSpec == SessionInit /\ [][SessionNext]_sessionVars
-----------------------------------------------------------------------------
(* What makes NotOverwritten inductive: the pending entries are the last   *)
(* Len(pending) places of the ring before nextBitstream, in ring order,    *)
(* their pictures are in order and newer than the last one delivered.      *)
Behind(d) == IF d <= nextBitstream THEN nextBitstream - d ELSE nextBitstream + Buffers - d

RingSegment ==
  \A i \in DOMAIN pending : pending[i].bitstream = Behind(Len(pending) + 1 - i)

PendingInOrder ==
  /\ delivered <= pictures
  /\ \A i \in DOMAIN pending : delivered < pending[i].picture /\ pending[i].picture <= pictures
  /\ \A i, j \in DOMAIN pending : i < j => pending[i].picture < pending[j].picture

HoldsItsPicture == \A i \in DOMAIN pending : holds[pending[i].bitstream] \in {0, pending[i].picture}

SessionInv == SessionTypeOK /\ RingSegment /\ PendingInOrder /\ HoldsItsPicture

(* A bitstream is not handed to the driver again while an earlier picture  *)
(* in it waits to be read: every pending entry names a bitstream of its    *)
(* own, and it holds the entry's picture or, after an error, none.         *)
NotOverwritten ==
  /\ \A i, j \in DOMAIN pending : i # j => pending[i].bitstream # pending[j].bitstream
  /\ \A i \in DOMAIN pending : holds[pending[i].bitstream] \in {0, pending[i].picture}

(* Packets appear in the order of the pictures and none twice, although    *)
(* calls fail half way and the caller goes on.                             *)
PacketsInOrder == [][packets' # packets => delivered' > delivered]_sessionVars

(* Without a failed call every picture becomes exactly one packet, none is *)
(* left over when a call that drains returns, and a picture's input stays  *)
(* mapped exactly while its entry is pending, so that the caller can       *)
(* unregister the buffer as soon as the packet is out.                     *)
NothingLost ==
  ~failed =>
    /\ doing # "destroyed" => packets + Len(pending) = pictures
    /\ {m[1] : m \in mapped} = {pending[i].picture : i \in DOMAIN pending}
=============================================================================
