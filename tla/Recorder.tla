------------------------------ MODULE Recorder ------------------------------
(***************************************************************************)
(* The recording of one room: AudioRecorder and RecordingManager           *)
(* (server/src/AudioRecorder.cpp) as the mixer drives them                 *)
(* (server/src/mixer_server.cpp).  All of it runs on the mixer's loop.     *)
(*                                                                         *)
(* A sample is the number of the block it was mixed in, and two bytes in   *)
(* the file.  What fwrite has accepted is taken to be in the file; a file  *)
(* that is not there is one that holds nothing.  The two sizes in the      *)
(* header are numbers of bytes modulo SizeMod, as the code writes them;    *)
(* the length of the data itself is not bounded.                           *)
(***************************************************************************)
EXTENDS Naturals, Sequences

CONSTANTS
  FlushAt,     \* samples at which the buffer is written (96000 bytes)
  SizeMod,     \* the sizes are kept modulo this (uint32_t: 2^32)
  MaxSeconds,  \* bound: the clock
  MaxTicks,    \* bound: blocks mixed
  MaxFaults    \* bound: failed writes, failed opens and ends of the process

ASSUME FlushAssumption == FlushAt \in Nat \ {0}
ASSUME WidthAssumption == SizeMod \in Nat \ {0}
ASSUME BoundAssumption ==
  MaxSeconds \in Nat \ {0} /\ MaxTicks \in Nat /\ MaxFaults \in Nat

VARIABLES
  occupied,    \* somebody is in the room
  recording,   \* Room::recording; recorders_ has an entry exactly then
               \* (RecordingFollowsUsers of MixerServer)
  rec,         \* that AudioRecorder
  disk,        \* the files: a take is named by the second it starts in
  now,         \* the clock
  errno,
  tick, faults

vars == <<occupied, recording, rec, disk, now, errno, tick, faults>>

Seconds == 1 .. MaxSeconds

\* A recorder that has not been started records.
MutIdle == [live |-> TRUE, file |-> 0, buffer |-> <<>>, total |-> 0]

\* A fresh recorder: recording_, the file, pcm_buffer_, total_data_bytes_.
Idle == [live |-> FALSE, file |-> 0, buffer |-> <<>>, total |-> 0]

\* A file: its samples, what its header tells (data_size, file_size), whether a
\* fault hit it.
Empty == [data |-> <<>>, size |-> 0, riff |-> 0, broken |-> FALSE]

Init ==
  /\ occupied = FALSE /\ recording = FALSE /\ rec = Idle
  /\ disk = [t \in Seconds |-> Empty]
  /\ now = 1 /\ errno = "other" /\ tick = 0 /\ faults = 0

-----------------------------------------------------------------------------
(* The process around it.                                                   *)

Fault == faults < MaxFaults /\ faults' = faults + 1

Second ==
  /\ now < MaxSeconds /\ now' = now + 1
  /\ UNCHANGED <<occupied, recording, rec, disk, errno, tick, faults>>

\* Some other call fails and leaves its errno.
SystemCall ==
  /\ errno' \in {"EEXIST", "other"} \ {errno}
  /\ UNCHANGED <<occupied, recording, rec, disk, now, tick, faults>>

-----------------------------------------------------------------------------
(* startRecording.                                                          *)

\* The file as fopen and the header leave it.
Truncated == [disk EXCEPT ![now] = Empty]

\* The directory is there, so mkdir_recursive returns true; startRecording takes
\* that for an error, and goes on only if errno is EEXIST by chance.
Refused ==
  /\ errno # "EEXIST"
  /\ UNCHANGED <<recording, rec, disk, errno, faults>>

Opens ==
  /\ errno = "EEXIST"
  /\ recording' = TRUE
  /\ rec' = [Idle EXCEPT !.live = TRUE, !.file = now]
  /\ disk' = Truncated
  /\ UNCHANGED <<errno, faults>>

\* fopen fails, or the header cannot be written.
OpenFails ==
  /\ errno = "EEXIST" /\ Fault
  /\ disk' \in {disk, [Truncated EXCEPT ![now].broken = TRUE]}
  /\ errno' = "other"
  /\ UNCHANGED <<recording, rec>>

\* MIXER_JOIN.
Join ==
  /\ occupied' = TRUE
  /\ IF recording THEN UNCHANGED <<recording, rec, disk, errno, faults>>
                  ELSE Refused \/ Opens \/ OpenFails
  /\ UNCHANGED <<now, tick>>

-----------------------------------------------------------------------------
(* writeFrames.                                                             *)

\* The mix is mono, twice as many samples are read: half a block is whatever
\* lies behind the vector.
Block(n) == <<n, 0>>

Grown == rec.buffer \o Block(tick + 1)

Active == recording /\ rec.live

\* fwrite has accepted these samples.
Written(s) == [disk EXCEPT ![rec.file].data = @ \o s]

Buffers ==
  /\ Active /\ Len(Grown) < FlushAt
  /\ rec' = [rec EXCEPT !.buffer = Grown]
  /\ UNCHANGED <<disk, errno, faults>>

\* The buffer is kept after it has been written.
MutFlushed == [rec EXCEPT !.total = @ + Len(Grown), !.buffer = Grown]

\* The recorder after a flush.
Flushed == [rec EXCEPT !.total = @ + Len(Grown), !.buffer = <<>>]

Flushes ==
  /\ Active /\ Len(Grown) >= FlushAt
  /\ disk' = Written(Grown)
  /\ rec' = Flushed
  /\ UNCHANGED <<errno, faults>>

\* A short write does not end the recording.
MutFailed == [rec EXCEPT !.buffer = Grown]

\* The recorder after a short write: the file stays open, and is never touched
\* again.
Failed == [rec EXCEPT !.buffer = Grown, !.live = FALSE]

ShortWrite ==
  /\ Active /\ Len(Grown) >= FlushAt /\ Fault
  /\ \E n \in 0 .. (Len(Grown) - 1) :
       disk' = [Written(SubSeq(Grown, 1, n)) EXCEPT ![rec.file].broken = TRUE]
  /\ rec' = Failed
  /\ errno' = "other"

NotRecorded == ~Active /\ UNCHANGED <<rec, disk, errno, faults>>

\* The mixing timer broadcasts the mix of a room that is not empty.
MixTick ==
  /\ occupied
  /\ tick < MaxTicks /\ tick' = tick + 1
  /\ Buffers \/ Flushes \/ ShortWrite \/ NotRecorded
  /\ UNCHANGED <<occupied, recording, now>>

-----------------------------------------------------------------------------
(* stopRecording.                                                           *)

\* The header is written with what was flushed before.
MutTotal == rec.total

\* total_data_bytes_ with the rest of the buffer, however much fwrite took.
Total == rec.total + Len(rec.buffer)

Bytes(samples) == 2 * samples

\* The size of the data chunk: the count, cast to uint32_t.
DataSize == Bytes(Total) % SizeMod

\* The size of the RIFF chunk: 4 + sizeof(WavHeader) - 8 + data_size.
FileSize == (4 + 44 - 8 + DataSize) % SizeMod

Finalizes ==
  /\ Active
  /\ disk' = [Written(rec.buffer) EXCEPT
                 ![rec.file].size = DataSize, ![rec.file].riff = FileSize]
  /\ UNCHANGED <<errno, faults>>

\* A write of finalizeWav fails, which nobody looks at: the rest of the buffer
\* or either size may be missing.
FinalizeFails ==
  /\ Active /\ Fault
  /\ \E n \in 0 .. Len(rec.buffer), size \in {0, DataSize}, riff \in {0, FileSize} :
       disk' = [Written(SubSeq(rec.buffer, 1, n)) EXCEPT
                  ![rec.file].size = size, ![rec.file].riff = riff,
                  ![rec.file].broken = TRUE]
  /\ errno' = "other"

\* MIXER_LEAVE or the end of the connection of the last user.  A recorder that
\* has failed does not finalize its file.
LastLeaves ==
  /\ occupied /\ occupied' = FALSE
  /\ Finalizes \/ FinalizeFails \/ (~Active /\ UNCHANGED <<disk, errno, faults>>)
  /\ recording' = FALSE /\ rec' = Idle
  /\ UNCHANGED <<now, tick>>

\* The process ends (no signal is handled) and is started again: no recorder is
\* destroyed.
Restart ==
  /\ Fault
  /\ occupied' = FALSE /\ recording' = FALSE /\ rec' = Idle
  /\ disk' = IF Active THEN [disk EXCEPT ![rec.file].broken = TRUE] ELSE disk
  /\ errno' = "other"
  /\ UNCHANGED <<now, tick>>

-----------------------------------------------------------------------------
Next == Join \/ MixTick \/ LastLeaves \/ Restart \/ Second \/ SystemCall

Spec == Init /\ [][Next]_vars

-----------------------------------------------------------------------------
(* Properties.                                                              *)

TypeOK ==
  /\ occupied \in BOOLEAN /\ recording \in BOOLEAN
  /\ rec \in [live : BOOLEAN, file : Nat, buffer : Seq(Nat), total : Nat]
  /\ rec.live => recording /\ rec.file \in Seconds
  /\ disk \in [Seconds -> [data : Seq(Nat), size : Nat, riff : Nat, broken : BOOLEAN]]
  /\ now \in Seconds /\ errno \in {"EEXIST", "other"}
  /\ tick \in Nat /\ faults \in Nat

\* A take that is over and that no fault hit.
Finished(t) == ~disk[t].broken /\ ~(Active /\ rec.file = t)

\* What the size of a take's data comes to.
Raw(t) == Bytes(Len(disk[t].data))

\* data_size of every finished take is the size of its data, whatever was
\* flushed along the way or still buffered at the end, as long as a uint32_t
\* holds it; of longer takes see SizeTold, of file_size see RiffTold.
HeaderHonest ==
  \A t \in Seconds : Finished(t) /\ Raw(t) < SizeMod => disk[t].size = Raw(t)

\* "Flush ... to avoid unbounded memory growth": what waits in memory, and is
\* lost when the process ends, stays below the threshold, and one block above
\* it once a write has failed.
BufferBounded ==
  /\ rec.live => Len(rec.buffer) < FlushAt
  /\ Len(rec.buffer) <= FlushAt + 1

\* With its buffer, its flushes and the sizes written afterwards the recorder
\* is a tape: nothing that was mixed is lost, doubled or out of order.
Names == Seconds
Rolling == IF Active THEN rec.file ELSE 0
TapeOf == INSTANCE Tape WITH
  NoName <- 0,
  on <- Rolling,
  tape <- IF Active THEN disk[rec.file].data \o rec.buffer ELSE <<>>,
  kept <- [t \in Seconds |-> IF t = Rolling THEN <<>> ELSE disk[t].data]
TapeSpec == TapeOf!Spec

-----------------------------------------------------------------------------
(* What the code says of itself and does not do; TLC refutes it.            *)

\* "Start recording when first user joins the room" (mixer_server.cpp).
FirstJoinRecords == occupied /\ faults = 0 => recording

\* "raw audio bytes" (AudioRecorder.h, of data_size).
SizeTold == \A t \in Seconds : Finished(t) => disk[t].size = Raw(t)

\* "total file size - 8" (AudioRecorder.h, of file_size), also of takes that are
\* short enough: the file is 44 bytes of header and the data.
RiffTold ==
  \A t \in Seconds :
    Finished(t) /\ Raw(t) > 0 /\ Raw(t) + 44 < SizeMod => disk[t].riff = Raw(t) + 44 - 8
=============================================================================
