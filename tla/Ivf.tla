--------------------------------- MODULE Ivf ---------------------------------
(***************************************************************************)
(* hsb/encode/ivf: IvfWriter and IvfReader on one file.  The reader may    *)
(* follow a file that is still being written, the writing process may end  *)
(* without Close(), and a write may run out of space.                      *)
(*                                                                         *)
(* The file is a sequence of fields.  The file header is two of them, the  *)
(* magic and frame_count (the other header fields never change); a frame   *)
(* is its size, its pts and `size` payload fields.  Fields carry small     *)
(* numbers, so a reader that has lost its place takes one for another, as  *)
(* it would take bytes.  What fwrite accepted reaches the file in pieces.  *)
(***************************************************************************)
EXTENDS Naturals, Sequences, SequencesExt

CONSTANTS
  Sizes,       \* bound: payload sizes that occur
  MaxWrites,   \* bound: calls of WriteFrame per opened file
  MaxOpens,    \* bound: calls of IvfWriter::Open
  Faults       \* BOOLEAN: may a write fall short?

ASSUME IvfAssumption ==
  /\ Sizes \subseteq Nat
  /\ MaxWrites \in Nat /\ MaxOpens \in Nat
  /\ Faults \in BOOLEAN

VARIABLES
  fields,   \* everything written to the file, buffered or not
  flushed,  \* how many of them are in the file
  writing,  \* IvfWriter::file_ is not null
  frames,   \* frames_
  written,  \* history: the frames WriteFrame returned true for
  calls,    \* history: calls of WriteFrame since Open
  health,   \* history since Open: "good", "stopped" (only the last call
            \* fell short), "mixed" (calls went on after one fell short),
            \* "headless" (Open itself fell short)
  opens,    \* calls of IvfWriter::Open
  closed,   \* history: did the last Close return true?
  reading,  \* IvfReader: "closed", "open", "eof" (a read fell short)
  pos,      \* the reader's position
  count,    \* header_.frame_count as the reader saw it
  got,      \* history: the frames ReadFrame returned true for
  found     \* history: the file the reader opened was "closed" or "growing";
            \* "none": no file, or the writer has truncated it since

writerVars == <<fields, flushed, writing, frames, written, calls, health, opens, closed>>
readerVars == <<reading, pos, count, got, found>>
ivfVars == <<writerVars, readerVars>>

Magic == 99
HeaderSize == 2
CountField == 2
FrameHeaderSize == 2

Header == <<Magic, 0>>
(* A frame as it is laid out: the payload of the n-th frame is n, n, ...;  *)
(* `at` is history, where in the file it was laid.                         *)
Frame(size, pts, at) == [size |-> size, pts |-> pts, at |-> at]
Layout(f) == <<f.size, f.pts>> \o [i \in 1..f.size |-> f.pts]

FileTypeOK ==
  /\ fields \in Seq(Nat) /\ flushed \in 0..Len(fields)
  /\ writing \in BOOLEAN /\ closed \in BOOLEAN
  /\ health \in {"good", "stopped", "mixed", "headless"} /\ found \in {"none", "growing", "closed"}
  /\ frames \in 0..MaxWrites /\ Len(written) = frames
  /\ calls \in 0..MaxWrites /\ opens \in 0..MaxOpens
  /\ reading \in {"closed", "open", "eof"}
  /\ pos \in Nat /\ count \in Nat

IvfInit ==
  /\ fields = << >> /\ flushed = 0
  /\ writing = FALSE /\ frames = 0 /\ written = << >> /\ calls = 0
  /\ health = "good" /\ opens = 0 /\ closed = FALSE
  /\ reading = "closed" /\ pos = 0 /\ count = 0 /\ got = << >> /\ found = "none"
-----------------------------------------------------------------------------
(* How much of `data` a write may append: all of it or, with Faults, any   *)
(* part.                                                                   *)
Accepted(data) == IF Faults THEN {SubSeq(data, 1, n) : n \in 0..Len(data)} ELSE {data}

Whole(was) == IF was = "stopped" THEN "mixed" ELSE was
Short(was) == CASE was = "good" -> "stopped" [] was = "stopped" -> "mixed" [] OTHER -> was

(* IvfWriter::Open on a closed writer: the file is truncated, the header   *)
(* written.  The writer is open even when it returns false.                *)
Open ==
  /\ ~writing
  /\ opens < MaxOpens
  /\ fields' \in Accepted(Header)
  /\ flushed' = 0
  /\ writing' = TRUE
  /\ frames' = 0 /\ written' = << >> /\ calls' = 0
  /\ health' = IF fields' = Header THEN "good" ELSE "headless"
  /\ opens' = opens + 1
  /\ closed' = FALSE
  /\ found' = "none"
  /\ UNCHANGED <<reading, pos, count, got>>

(* WriteFrame: header, then payload; frames_ counts whole frames only.     *)
WriteFrame(size) ==
  LET f == Frame(size, calls + 1, Len(fields))
  IN /\ writing
     /\ calls < MaxWrites
     /\ calls' = calls + 1
     /\ \E data \in Accepted(Layout(f)) :
          /\ fields' = fields \o data
          /\ IF data = Layout(f)
             THEN /\ frames' = frames + 1
                  /\ written' = Append(written, f)
                  /\ health' = Whole(health)
             ELSE /\ health' = Short(health)
                  /\ UNCHANGED <<frames, written>>
     /\ UNCHANGED <<flushed, writing, opens, closed, readerVars>>

(* stdio hands some of its buffer to the file.                             *)
Flush ==
  /\ writing
  /\ flushed' \in (flushed + 1)..Len(fields)
  /\ UNCHANGED <<fields, writing, frames, written, calls, health, opens, closed, readerVars>>

Close_NoSeek == \* mutant: the count is written where the file ends
  /\ writing
  /\ writing' = FALSE
  /\ fields' = Append(fields, frames) /\ flushed' = Len(fields') /\ closed' = TRUE
  /\ UNCHANGED <<frames, written, calls, health, opens, readerVars>>

(* The patch of frame_count; a seek beyond a short header leaves a hole.   *)
Patched ==
  IF Len(fields) >= CountField THEN [fields EXCEPT ![CountField] = frames]
  ELSE fields \o [i \in 1..(CountField - 1 - Len(fields)) |-> 0] \o <<frames>>

(* Close: fseek flushes, fwrite patches, fclose flushes again.  The count  *)
(* is not written when the seek fails; a flush that falls short loses the  *)
(* end of the file.                                                        *)
Close ==
  /\ writing
  /\ writing' = FALSE
  /\ \/ fields' = Patched /\ flushed' = Len(fields') /\ closed' = TRUE
     \/ /\ Faults
        /\ \E n \in flushed..Len(fields) : fields' = SubSeq(fields, 1, n)
        /\ flushed' = Len(fields')
        /\ closed' = FALSE
  /\ UNCHANGED <<frames, written, calls, health, opens, readerVars>>

(* The writing process ends without Close: what was not flushed is gone.   *)
Crash ==
  /\ writing
  /\ writing' = FALSE
  /\ fields' = SubSeq(fields, 1, flushed)
  /\ UNCHANGED <<flushed, frames, written, calls, health, opens, closed, readerVars>>
-----------------------------------------------------------------------------
(* IvfReader; it sees what has been flushed.                               *)
InFile == SubSeq(fields, 1, flushed)

(* Open: closes what was open, then reads and parses the header.           *)
ReaderOpen ==
  /\ reading' = IF flushed >= HeaderSize /\ fields[1] = Magic THEN "open" ELSE "closed"
  /\ pos' = HeaderSize
  /\ count' = IF reading' = "open" THEN fields[CountField] ELSE count
  /\ got' = << >>
  /\ found' = IF closed THEN "closed" ELSE "growing"
  /\ UNCHANGED writerVars

Payload(from, size) == SubSeq(InFile, from + 1, from + size)

(* Mutant: the payload's length is not looked at.                          *)
ReadFrame_Short ==
  /\ reading = "open"
  /\ IF pos + FrameHeaderSize > flushed
     THEN /\ reading' = "eof"
          /\ UNCHANGED <<pos, got>>
     ELSE LET size == InFile[pos + 1]
              from == pos + FrameHeaderSize
          IN /\ pos' = from + size
             /\ got' = Append(got, [pts |-> InFile[pos + 2], data |-> SubSeq(InFile, from + 1, IF from + size > flushed THEN flushed ELSE from + size)])
             /\ UNCHANGED reading
  /\ UNCHANGED <<writerVars, count, found>>

(* ReadFrame: a short read makes it return false, now and for ever.        *)
ReadFrame ==
  /\ reading = "open"
  /\ IF pos + FrameHeaderSize > flushed
     THEN /\ reading' = "eof"
          /\ UNCHANGED <<pos, got>>
     ELSE LET size == InFile[pos + 1]
              from == pos + FrameHeaderSize
          IN IF from + size > flushed
             THEN /\ reading' = "eof"
                  /\ UNCHANGED <<pos, got>>
             ELSE /\ pos' = from + size
                  /\ got' = Append(got, [pts |-> InFile[pos + 2], data |-> Payload(from, size)])
                  /\ UNCHANGED reading
  /\ UNCHANGED <<writerVars, count, found>>

ReaderClose ==
  /\ reading' = "closed"
  /\ UNCHANGED <<writerVars, pos, count, got, found>>

IvfNext ==
  \/ Open \/ Flush \/ Close \/ Crash
  \/ \E size \in Sizes : WriteFrame(size)
  \/ ReaderOpen \/ ReadFrame \/ ReaderClose

IvfSpec == IvfInit /\ [][IvfNext]_ivfVars
-----------------------------------------------------------------------------
AsRead(f) == [pts |-> f.pts, data |-> [i \in 1..f.size |-> f.pts]]
Frames == [i \in DOMAIN written |-> AsRead(written[i])]

(* What a reader obtains is a prefix of the frames written: of a file that *)
(* is being written, of one whose writer crashed in the middle of a frame, *)
(* and of one whose writer stopped at the first failed call.               *)
ReadsPrefix == found # "none" /\ health \in {"good", "stopped"} => IsPrefix(got, Frames)

(* A reader that opens a file after a Close that returned true sees the    *)
(* number of frames it will obtain, and obtains all of them; also when the *)
(* last WriteFrame fell short and left a part of a frame behind.           *)
CountIsFrames ==
  found = "closed" /\ health \in {"good", "stopped"} /\ reading = "eof"
    => count = Len(got) /\ got = Frames
=============================================================================
