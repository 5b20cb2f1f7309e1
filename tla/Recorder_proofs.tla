--------------------------- MODULE Recorder_proofs ---------------------------
(* Proofs about Recorder: types, the sizes in the headers, the bound of the  *)
(* buffer, and that the buffered recorder is a tape.                         *)
EXTENDS Recorder, SequenceTheorems, TLAPS

Recorders == [live : BOOLEAN, file : Nat, buffer : Seq(Nat), total : Nat]
Files == [data : Seq(Nat), size : Nat, riff : Nat, broken : BOOLEAN]

\* What a live recorder has counted is what its file holds.
Counted == rec.live => rec.total = Len(disk[rec.file].data)

IInv == TypeOK /\ Counted /\ HeaderHonest /\ BufferBounded

-----------------------------------------------------------------------------
(* Values.                                                                  *)

LEMMA BlockType == ASSUME NEW n \in Nat PROVE Block(n) \in Seq(Nat) /\ Len(Block(n)) = 2
  BY DEF Block

LEMMA Regrouped ==
  \A a, b, c \in Seq(Nat) : (a \o b) \o c = a \o (b \o c)
  BY ConcatAssociative

LEMMA NoSamples == <<>> \in Seq(Nat) /\ Len(<<>>) = 0
  OBVIOUS

LEMMA IdleType == Idle \in Recorders /\ ~Idle.live /\ Idle.buffer = <<>> /\ Idle.total = 0
  BY NoSamples DEF Idle, Recorders

LEMMA EmptyType == Empty \in Files /\ Empty.data = <<>> /\ Empty.size = Bytes(Len(Empty.data))
  BY NoSamples DEF Empty, Files, Bytes

\* A size as the header keeps it is a number, and the size itself if it fits.
LEMMA Fits ==
  ASSUME NEW n \in Nat
  PROVE  n % SizeMod \in Nat /\ (n < SizeMod => n % SizeMod = n)
  BY WidthAssumption

LEMMA BytesType == ASSUME NEW n \in Nat PROVE Bytes(n) \in Nat
  BY DEF Bytes

LEMMA SizeTypes == ASSUME Total \in Nat PROVE DataSize \in Nat /\ FileSize \in Nat
<1>1. Bytes(Total) \in Nat
  BY BytesType
<1>2. DataSize \in Nat
  BY <1>1, Fits DEF DataSize
<1>3. 4 + 44 - 8 + DataSize \in Nat
  BY <1>2
<1>4. QED
  BY <1>2, <1>3, Fits DEF FileSize

\* TypeOK in the words of this module.
LEMMA Types ==
  TypeOK <=> /\ occupied \in BOOLEAN /\ recording \in BOOLEAN
             /\ rec \in Recorders
             /\ rec.live => recording /\ rec.file \in Seconds
             /\ disk \in [Seconds -> Files]
             /\ now \in Seconds /\ errno \in {"EEXIST", "other"}
             /\ tick \in Nat /\ faults \in Nat
  BY DEF TypeOK, Recorders, Files

\* Samples are appended to a file; the others stay.
LEMMA WrittenType ==
  ASSUME TypeOK, rec.file \in Seconds, NEW s \in Seq(Nat)
  PROVE  /\ Written(s) \in [Seconds -> Files]
         /\ Written(s)[rec.file].data = disk[rec.file].data \o s
         /\ Len(Written(s)[rec.file].data) = Len(disk[rec.file].data) + Len(s)
         /\ Written(s)[rec.file].size = disk[rec.file].size
         /\ Written(s)[rec.file].broken = disk[rec.file].broken
         /\ \A t \in Seconds \ {rec.file} : Written(s)[t] = disk[t]
<1>1. disk \in [Seconds -> Files] /\ disk[rec.file] \in Files
  BY Types
<1>2. disk[rec.file].data \in Seq(Nat)
  BY <1>1 DEF Files
<1>3. disk[rec.file].data \o s \in Seq(Nat)
      /\ Len(disk[rec.file].data \o s) = Len(disk[rec.file].data) + Len(s)
  BY <1>2
<1>4. Written(s)[rec.file] = [disk[rec.file] EXCEPT !.data = @ \o s]
      /\ \A t \in Seconds \ {rec.file} : Written(s)[t] = disk[t]
  BY <1>1 DEF Written
<1>5. Written(s)[rec.file] \in Files
  BY <1>1, <1>3, <1>4 DEF Files
<1>6. Written(s) \in [Seconds -> Files]
  BY <1>1, <1>3 DEF Written, Files
<1>7. QED
  BY <1>1, <1>3, <1>4, <1>6 DEF Files

LEMMA GrownType ==
  ASSUME TypeOK
  PROVE  Grown \in Seq(Nat) /\ Len(Grown) = Len(rec.buffer) + 2
<1>1. rec.buffer \in Seq(Nat) /\ tick + 1 \in Nat
  BY Types DEF Recorders
<1>2. Block(tick + 1) \in Seq(Nat) /\ Len(Block(tick + 1)) = 2
  BY <1>1, BlockType
<1>3. \A a, b \in Seq(Nat) : a \o b \in Seq(Nat) /\ Len(a \o b) = Len(a) + Len(b)
  OBVIOUS
<1>4. QED
  BY <1>1, <1>2, <1>3 DEF Grown

-----------------------------------------------------------------------------
(* The invariant.                                                           *)

LEMMA InitIInv == Init => IInv
<1> SUFFICES ASSUME Init PROVE IInv
  OBVIOUS
<1>1. now \in Seconds
  BY BoundAssumption DEF Init, Seconds
<1>2. disk \in [Seconds -> Files] /\ rec = Idle
  BY EmptyType DEF Init
<1>3. TypeOK
  BY <1>1, <1>2, IdleType, Types DEF Init
<1>4. Counted /\ BufferBounded
  BY <1>2, IdleType, NoSamples, FlushAssumption DEF Counted, BufferBounded
<1>5. HeaderHonest
  BY EmptyType DEF Init, HeaderHonest, Finished, Raw
<1>6. QED
  BY <1>3, <1>4, <1>5 DEF IInv

\* A file that is only appended to, or told its size, keeps the headers of the
\* others honest.
LEMMA OthersHonest ==
  ASSUME IInv, rec.file \in Seconds,
         \A t \in Seconds \ {rec.file} : disk'[t] = disk[t],
         Active',  rec'.file = rec.file
  PROVE  HeaderHonest'
  BY DEF IInv, HeaderHonest, Finished, Raw

\* Nothing that the invariant speaks of changes, or the room is not recorded.
LEMMA RecorderUntouched ==
  ASSUME IInv, rec' = rec, disk' = disk, recording' = recording,
         occupied' \in BOOLEAN, now' \in Seconds, errno' \in {"EEXIST", "other"},
         tick' \in Nat, faults' \in Nat
  PROVE  IInv'
  BY DEF IInv, TypeOK, Counted, HeaderHonest, Finished, Raw, BufferBounded, Active

\* What a step on the live recorder of an occupied room shows of the types.
LEMMA NextTypes ==
  ASSUME TypeOK, rec' \in Recorders, disk' \in [Seconds -> Files],
         rec'.live => Active /\ rec'.file = rec.file,
         occupied' = occupied, recording' = recording, now' = now,
         errno' \in {"EEXIST", "other"}, tick' \in Nat, faults' \in Nat
  PROVE  TypeOK'
<1>1. rec'.live => recording' /\ rec'.file \in Seconds
  BY Types DEF Active
<1>2. QED
  BY <1>1, Types DEF TypeOK, Recorders, Files

LEMMA FaultType == TypeOK /\ Fault => faults' \in Nat
  BY Types DEF Fault

LEMMA OpensIInv == ASSUME IInv, Join, ~recording, Opens PROVE IInv'
<1>1. TypeOK /\ rec' = [Idle EXCEPT !.live = TRUE, !.file = now] /\ recording' = TRUE
      /\ disk' = [disk EXCEPT ![now] = Empty] /\ errno' = errno /\ faults' = faults
      /\ now' = now /\ tick' = tick /\ occupied' = TRUE
  BY DEF IInv, Opens, Join, Truncated
<1>2. now \in Seconds /\ now \in Nat
  BY <1>1, Types, BoundAssumption DEF Seconds
<1>3. rec' \in Recorders /\ rec'.live /\ rec'.file = now /\ rec'.buffer = <<>> /\ rec'.total = 0
  BY <1>1, <1>2, IdleType DEF Recorders
<1>4. disk' \in [Seconds -> Files] /\ disk'[now] = Empty
      /\ \A t \in Seconds \ {now} : disk'[t] = disk[t]
  BY <1>1, <1>2, Types, EmptyType
<1>5. TypeOK'
  BY <1>1, <1>2, <1>3, <1>4, Types DEF TypeOK, Recorders, Files
<1>6. Counted' /\ BufferBounded'
  BY <1>3, <1>4, EmptyType, NoSamples, FlushAssumption DEF Counted, BufferBounded
<1>7. HeaderHonest'
  BY <1>1, <1>3, <1>4, Types DEF IInv, HeaderHonest, Finished, Raw, Active
<1>8. QED
  BY <1>5, <1>6, <1>7 DEF IInv

LEMMA OpenFailsIInv == ASSUME IInv, Join, ~recording, OpenFails PROVE IInv'
<1>1. TypeOK /\ rec' = rec /\ recording' = recording /\ ~rec.live
      /\ now' = now /\ tick' = tick /\ occupied' = TRUE /\ errno' = "other" /\ faults' \in Nat
  BY FaultType, Types DEF IInv, OpenFails, Join
<1>2. disk' = disk \/ disk' = [[disk EXCEPT ![now] = Empty] EXCEPT ![now].broken = TRUE]
  BY DEF OpenFails, Truncated
<1>3. now \in Seconds /\ disk \in [Seconds -> Files]
  BY <1>1, Types
<1>4. disk' \in [Seconds -> Files]
      /\ \A t \in Seconds : disk'[t] = disk[t] \/ disk'[t].broken
  BY <1>2, <1>3, EmptyType, ZenonT(30) DEF Files
<1>5. TypeOK'
  BY <1>1, <1>4, Types DEF TypeOK, Recorders, Files
<1>6. QED
  BY <1>1, <1>4, <1>5 DEF IInv, Counted, HeaderHonest, Finished, Raw, BufferBounded, Active

LEMMA JoinIInv == ASSUME IInv, Join PROVE IInv'
<1>1. CASE recording \/ Refused
  BY <1>1, RecorderUntouched DEF Join, Refused, Opens, OpenFails, IInv, TypeOK
<1>2. CASE ~recording /\ (Opens \/ OpenFails)
  BY <1>2, OpensIInv, OpenFailsIInv
<1>3. QED
  BY <1>1, <1>2 DEF Join

\* What the parts of a step of a live recorder start from.
LEMMA LiveRecorder ==
  ASSUME IInv, Active
  PROVE  /\ TypeOK /\ rec.file \in Seconds /\ rec \in Recorders
         /\ disk \in [Seconds -> Files]
         /\ rec.buffer \in Seq(Nat) /\ Len(rec.buffer) \in Nat
         /\ disk[rec.file].data \in Seq(Nat)
         /\ rec.total = Len(disk[rec.file].data)
         /\ Len(rec.buffer) < FlushAt
<1>1. TypeOK /\ rec.live
  BY DEF IInv, Active
<1>2. rec.file \in Seconds /\ rec \in Recorders /\ disk \in [Seconds -> Files]
  BY <1>1, Types
<1>3. rec.buffer \in Seq(Nat) /\ disk[rec.file].data \in Seq(Nat)
  BY <1>2 DEF Recorders, Files
<1>4. QED
  BY <1>1, <1>2, <1>3 DEF IInv, Counted, BufferBounded

LEMMA BuffersIInv == ASSUME IInv, MixTick, Buffers PROVE IInv'
<1>1. /\ rec' = [rec EXCEPT !.buffer = Grown] /\ disk' = disk /\ errno' = errno
      /\ faults' = faults /\ tick' = tick + 1 /\ occupied' = occupied
      /\ recording' = recording /\ now' = now /\ Len(Grown) < FlushAt /\ Active
  BY DEF Buffers, MixTick
<1>2. TypeOK /\ Grown \in Seq(Nat) /\ rec \in Recorders
  BY <1>1, LiveRecorder, GrownType
<1>3. rec' \in Recorders /\ rec'.buffer = Grown /\ rec'.live = rec.live
      /\ rec'.file = rec.file /\ rec'.total = rec.total
  BY <1>1, <1>2 DEF Recorders
<1>4. TypeOK'
  <2>1. errno' \in {"EEXIST", "other"} /\ tick' \in Nat /\ faults' \in Nat
        /\ disk' \in [Seconds -> Files]
    BY <1>1, <1>2, Types
  <2>2. QED
    BY <1>1, <1>2, <1>3, <2>1, NextTypes
<1>5. Counted' /\ HeaderHonest'
  BY <1>1, <1>3 DEF IInv, Counted, HeaderHonest, Finished, Raw, Active
<1>6. BufferBounded'
  BY <1>1, <1>2, <1>3, FlushAssumption DEF BufferBounded
<1>7. QED
  BY <1>4, <1>5, <1>6 DEF IInv

LEMMA FlushesIInv == ASSUME IInv, MixTick, Flushes PROVE IInv'
<1>1. /\ rec' = [rec EXCEPT !.total = @ + Len(Grown), !.buffer = <<>>]
      /\ disk' = Written(Grown) /\ errno' = errno
      /\ faults' = faults /\ tick' = tick + 1 /\ occupied' = occupied
      /\ recording' = recording /\ now' = now /\ Active
  BY DEF Flushes, Flushed, MixTick
<1>2. /\ TypeOK /\ rec.file \in Seconds /\ rec \in Recorders
      /\ Grown \in Seq(Nat) /\ Len(Grown) \in Nat
      /\ rec.total = Len(disk[rec.file].data)
  BY <1>1, LiveRecorder, GrownType
<1> rec.total \in Nat /\ rec.total + Len(Grown) \in Nat /\ <<>> \in Seq(Nat)
  BY <1>2, NoSamples DEF Recorders
<1>3. rec' \in Recorders /\ rec'.buffer = <<>> /\ rec'.live = rec.live
      /\ rec'.file = rec.file /\ rec'.total = rec.total + Len(Grown)
  BY <1>1, <1>2 DEF Recorders
<1>4. /\ disk' \in [Seconds -> Files]
      /\ Len(disk'[rec.file].data) = Len(disk[rec.file].data) + Len(Grown)
      /\ \A t \in Seconds \ {rec.file} : disk'[t] = disk[t]
  BY <1>1, <1>2, WrittenType
<1>5. TypeOK'
  <2>1. errno' \in {"EEXIST", "other"} /\ tick' \in Nat /\ faults' \in Nat
    BY <1>1, <1>2, Types
  <2>2. QED
    BY <1>1, <1>2, <1>3, <1>4, <2>1, NextTypes
<1>6. Counted' /\ BufferBounded'
  BY <1>2, <1>3, <1>4, NoSamples, FlushAssumption DEF Counted, BufferBounded
<1>7. HeaderHonest'
  BY <1>1, <1>2, <1>3, <1>4, OthersHonest DEF Active
<1>8. QED
  BY <1>5, <1>6, <1>7 DEF IInv

\* A write that took some of the samples.
LEMMA PartType ==
  ASSUME NEW s \in Seq(Nat), NEW n \in 0 .. Len(s)
  PROVE  SubSeq(s, 1, n) \in Seq(Nat)
  OBVIOUS

LEMMA ShortWriteIInv == ASSUME IInv, MixTick, ShortWrite PROVE IInv'
<1>1. /\ rec' = [rec EXCEPT !.buffer = Grown, !.live = FALSE] /\ errno' = "other"
      /\ tick' = tick + 1 /\ occupied' = occupied
      /\ recording' = recording /\ now' = now /\ Active
  BY DEF ShortWrite, Failed, MixTick
<1>2. /\ TypeOK /\ rec.file \in Seconds /\ rec \in Recorders
      /\ Grown \in Seq(Nat) /\ Len(Grown) = Len(rec.buffer) + 2
      /\ Len(rec.buffer) \in Nat /\ Len(rec.buffer) < FlushAt
  BY <1>1, LiveRecorder, GrownType
<1>3. rec' \in Recorders /\ rec'.buffer = Grown /\ ~rec'.live
  BY <1>1, <1>2 DEF Recorders
<1>4. PICK n \in 0 .. (Len(Grown) - 1) :
        disk' = [Written(SubSeq(Grown, 1, n)) EXCEPT ![rec.file].broken = TRUE]
  BY DEF ShortWrite
<1>5. SubSeq(Grown, 1, n) \in Seq(Nat)
  BY <1>2, <1>4, PartType
<1>6. /\ Written(SubSeq(Grown, 1, n)) \in [Seconds -> Files]
      /\ \A t \in Seconds \ {rec.file} : Written(SubSeq(Grown, 1, n))[t] = disk[t]
  BY <1>2, <1>5, WrittenType
<1>7. disk' \in [Seconds -> Files] /\ disk'[rec.file].broken
      /\ \A t \in Seconds \ {rec.file} : disk'[t] = disk[t]
  BY <1>2, <1>4, <1>6 DEF Files
<1>8. faults' \in Nat
  BY <1>2, FaultType DEF ShortWrite
<1>9. TypeOK'
  <2>1. errno' \in {"EEXIST", "other"} /\ tick' \in Nat
    BY <1>1, <1>2, Types
  <2>2. QED
    BY <1>1, <1>2, <1>3, <1>7, <1>8, <2>1, NextTypes
<1>10. Counted' /\ BufferBounded'
  BY <1>2, <1>3, FlushAssumption DEF Counted, BufferBounded
<1>11. HeaderHonest'
  BY <1>7 DEF IInv, HeaderHonest, Finished, Raw
<1>12. QED
  BY <1>9, <1>10, <1>11 DEF IInv

LEMMA MixTickIInv == ASSUME IInv, MixTick PROVE IInv'
<1>1. CASE NotRecorded
  BY <1>1, RecorderUntouched, Types DEF MixTick, NotRecorded, IInv
<1>2. CASE Buffers \/ Flushes \/ ShortWrite
  BY <1>2, BuffersIInv, FlushesIInv, ShortWriteIInv
<1>3. QED
  BY <1>1, <1>2 DEF MixTick

\* The last user leaves, or the process ends, with the files left like this.
LEMMA StopIInv ==
  ASSUME IInv, occupied' = FALSE, recording' = FALSE, rec' = Idle, now' = now, tick' = tick,
         errno' \in {"EEXIST", "other"}, faults' \in Nat,
         disk' \in [Seconds -> Files],
         \A t \in Seconds :
           \/ disk'[t] = disk[t] /\ ~(Active /\ rec.file = t)
           \/ disk'[t].broken
           \/ Bytes(Len(disk'[t].data)) < SizeMod => disk'[t].size = Bytes(Len(disk'[t].data))
  PROVE  IInv'
<1>1. TypeOK
  BY DEF IInv
<1>2. TypeOK'
  BY <1>1, IdleType, Types DEF TypeOK, Recorders, Files
<1>3. Counted' /\ BufferBounded'
  BY IdleType, NoSamples, FlushAssumption DEF Counted, BufferBounded
<1>4. HeaderHonest'
  BY DEF IInv, HeaderHonest, Finished, Raw
<1>5. QED
  BY <1>2, <1>3, <1>4 DEF IInv

LEMMA FinalizesIInv == ASSUME IInv, LastLeaves, Finalizes PROVE IInv'
<1>1. /\ Active /\ errno' = errno /\ faults' = faults
      /\ disk' = [Written(rec.buffer) EXCEPT
                     ![rec.file].size = DataSize, ![rec.file].riff = FileSize]
      /\ occupied' = FALSE /\ recording' = FALSE /\ rec' = Idle /\ now' = now /\ tick' = tick
  BY DEF LastLeaves, Finalizes
<1>2. /\ TypeOK /\ rec.file \in Seconds /\ rec.buffer \in Seq(Nat)
      /\ Len(rec.buffer) \in Nat /\ rec.total = Len(disk[rec.file].data) /\ rec \in Recorders
  BY <1>1, LiveRecorder
<1>3. /\ Written(rec.buffer) \in [Seconds -> Files]
      /\ Len(Written(rec.buffer)[rec.file].data) = Len(disk[rec.file].data) + Len(rec.buffer)
      /\ \A t \in Seconds \ {rec.file} : Written(rec.buffer)[t] = disk[t]
  BY <1>2, WrittenType
<1>4. Total \in Nat /\ Total = Len(disk[rec.file].data) + Len(rec.buffer)
  BY <1>2 DEF Total, Recorders
<1>5. DataSize \in Nat /\ FileSize \in Nat
  BY <1>4, SizeTypes
<1>6. /\ disk' \in [Seconds -> Files]
      /\ disk'[rec.file].data = Written(rec.buffer)[rec.file].data
      /\ disk'[rec.file].size = DataSize
      /\ \A t \in Seconds \ {rec.file} : disk'[t] = disk[t]
  BY <1>1, <1>2, <1>3, <1>5 DEF Files
<1>7. /\ Bytes(Len(disk'[rec.file].data)) = Bytes(Total)
      /\ Bytes(Total) < SizeMod => disk'[rec.file].size = Bytes(Total)
  <2>1. Bytes(Total) \in Nat
    BY <1>4, BytesType
  <2>2. Len(disk'[rec.file].data) = Total
    BY <1>3, <1>4, <1>6
  <2>3. Bytes(Total) < SizeMod => DataSize = Bytes(Total)
    BY <2>1, Fits DEF DataSize
  <2>4. QED
    BY <1>6, <2>2, <2>3
<1>8. errno' \in {"EEXIST", "other"} /\ faults' \in Nat
  BY <1>1, <1>2, Types
<1>9. \A t \in Seconds :
        \/ disk'[t] = disk[t] /\ ~(Active /\ rec.file = t)
        \/ Bytes(Len(disk'[t].data)) < SizeMod => disk'[t].size = Bytes(Len(disk'[t].data))
  BY <1>6, <1>7
<1>10. QED
  BY <1>1, <1>6, <1>8, <1>9, StopIInv

LEMMA FinalizeFailsIInv == ASSUME IInv, LastLeaves, FinalizeFails PROVE IInv'
<1>1. /\ Active /\ errno' = "other"
      /\ occupied' = FALSE /\ recording' = FALSE /\ rec' = Idle /\ now' = now /\ tick' = tick
  BY DEF LastLeaves, FinalizeFails
<1>2. PICK n \in 0 .. Len(rec.buffer), size \in {0, DataSize}, riff \in {0, FileSize} :
        disk' = [Written(SubSeq(rec.buffer, 1, n)) EXCEPT
                   ![rec.file].size = size, ![rec.file].riff = riff,
                   ![rec.file].broken = TRUE]
  BY DEF FinalizeFails
<1>3. /\ TypeOK /\ rec.file \in Seconds /\ rec.buffer \in Seq(Nat) /\ rec \in Recorders
      /\ Len(rec.buffer) \in Nat
  BY <1>1, LiveRecorder
<1>4. SubSeq(rec.buffer, 1, n) \in Seq(Nat)
  BY <1>2, <1>3, PartType
<1>5. /\ Written(SubSeq(rec.buffer, 1, n)) \in [Seconds -> Files]
      /\ \A t \in Seconds \ {rec.file} : Written(SubSeq(rec.buffer, 1, n))[t] = disk[t]
  BY <1>3, <1>4, WrittenType
<1>6. size \in Nat /\ riff \in Nat
  <2>1. Total \in Nat
    BY <1>3 DEF Total, Recorders
  <2>2. QED
    BY <1>2, <2>1, SizeTypes
<1>7. /\ disk' \in [Seconds -> Files] /\ disk'[rec.file].broken
      /\ \A t \in Seconds \ {rec.file} : disk'[t] = disk[t]
  <2> DEFINE W == Written(SubSeq(rec.buffer, 1, n))
             F == [W[rec.file] EXCEPT !.size = size, !.riff = riff, !.broken = TRUE]
  <2>1. W[rec.file] \in Files
    BY <1>3, <1>5
  <2>2. F \in Files /\ F.broken
    BY <1>6, <2>1 DEF Files
  <2>3. disk' = [W EXCEPT ![rec.file] = F]
    BY <1>2, <1>3, <1>5
  <2> HIDE DEF W, F
  <2>4. W \in [Seconds -> Files] /\ \A t \in Seconds \ {rec.file} : W[t] = disk[t]
    BY <1>5 DEF W
  <2>5. QED
    BY <1>3, <2>2, <2>3, <2>4
<1>8. faults' \in Nat
  BY <1>3, FaultType DEF FinalizeFails
<1>9. QED
  BY <1>1, <1>7, <1>8, StopIInv

LEMMA LastLeavesIInv == ASSUME IInv, LastLeaves PROVE IInv'
<1>1. CASE Finalizes \/ FinalizeFails
  BY <1>1, FinalizesIInv, FinalizeFailsIInv
<1>2. CASE ~Active /\ UNCHANGED <<disk, errno, faults>>
  <2>1. TypeOK
    BY DEF IInv
  <2>2. disk' \in [Seconds -> Files] /\ errno' \in {"EEXIST", "other"} /\ faults' \in Nat
    BY <1>2, <2>1, Types
  <2>3. QED
    BY <1>2, <2>2, StopIInv DEF LastLeaves
<1>3. QED
  BY <1>1, <1>2 DEF LastLeaves

LEMMA RestartIInv == ASSUME IInv, Restart PROVE IInv'
<1>1. TypeOK /\ disk \in [Seconds -> Files]
  BY Types DEF IInv
<1>2. faults' \in Nat /\ errno' \in {"EEXIST", "other"}
  BY <1>1, FaultType DEF Restart
<1>3. Active => rec.file \in Seconds
  BY LiveRecorder
<1>4. /\ disk' \in [Seconds -> Files]
      /\ \A t \in Seconds : disk'[t].broken \/ (disk'[t] = disk[t] /\ ~(Active /\ rec.file = t))
  BY <1>1, <1>3 DEF Restart, Files
<1>5. QED
  BY <1>2, <1>4, StopIInv DEF Restart

LEMMA NextIInv == ASSUME IInv, [Next]_vars PROVE IInv'
<1>1. CASE Join \/ MixTick \/ LastLeaves \/ Restart
  BY <1>1, JoinIInv, MixTickIInv, LastLeavesIInv, RestartIInv
<1>2. CASE Second
  <2>1. now' \in Seconds
    BY <1>2, Types, BoundAssumption DEF IInv, Second, Seconds
  <2>2. QED
    BY <1>2, <2>1, RecorderUntouched, Types DEF IInv, Second
<1>3. CASE SystemCall
  BY <1>3, RecorderUntouched, Types DEF IInv, SystemCall
<1>4. CASE UNCHANGED vars
  BY <1>4, RecorderUntouched, Types DEF IInv, vars
<1>5. QED
  BY <1>1, <1>2, <1>3, <1>4 DEF Next

THEOREM Invariant == Spec => []IInv
BY InitIInv, NextIInv, PTL DEF Spec

\* Every variable keeps its type, and only a room that is recorded has a live
\* recorder, on one of the files, for all bounds.
THEOREM TypeCorrect == Spec => []TypeOK
<1>1. IInv => TypeOK
  BY DEF IInv
<1>2. QED
  BY <1>1, Invariant, PTL

\* data_size in the header of a finished take that no fault hit is the size of
\* its data, whatever the threshold and however many flushes there were, for
\* every take the width of the field holds (in the code: below 4 GiB).
THEOREM HeadersAreHonest == Spec => []HeaderHonest
<1>1. IInv => HeaderHonest
  BY DEF IInv
<1>2. QED
  BY <1>1, Invariant, PTL

\* The samples that wait in memory stay below the threshold of the flush, also
\* after writes have failed.
THEOREM MemoryIsBounded == Spec => []BufferBounded
<1>1. IInv => BufferBounded
  BY DEF IInv
<1>2. QED
  BY <1>1, Invariant, PTL

-----------------------------------------------------------------------------
(* The recorder is a tape.                                                  *)

\* The refinement mapping.
TapeNow == IF Active THEN disk[rec.file].data \o rec.buffer ELSE <<>>
KeptNow == [t \in Seconds |-> IF t = Rolling THEN <<>> ELSE disk[t].data]

LEMMA TapeInit == Init => TapeOf!Init
<1> SUFFICES ASSUME Init PROVE TapeOf!Init
  OBVIOUS
<1>1. ~Active /\ Rolling = 0
  BY IdleType DEF Init, Active, Rolling
<1>2. \A t \in Seconds : disk[t].data = <<>> /\ t # 0
  BY EmptyType, BoundAssumption DEF Init, Seconds
<1>3. QED
  BY <1>1, <1>2 DEF Init, TapeOf!Init, Names

\* A step that the tape does not see.
LEMMA TapeStutter ==
  ASSUME rec' = rec, disk' = disk, recording' = recording, tick' = tick, faults' = faults
  PROVE  UNCHANGED TapeOf!vars
  BY DEF TapeOf!vars, Rolling, Active

\* What the mapping gives.
LEMMA Unrolled ==
  ASSUME ~Active
  PROVE  Rolling = 0 /\ TapeNow = <<>> /\ KeptNow = [t \in Seconds |-> disk[t].data]
<1>1. \A t \in Seconds : t # 0
  BY BoundAssumption DEF Seconds
<1>2. QED
  BY <1>1 DEF Rolling, TapeNow, KeptNow

LEMMA Rolled ==
  ASSUME Active, rec.file \in Seconds
  PROVE  /\ Rolling = rec.file /\ Rolling # 0
         /\ TapeNow = disk[rec.file].data \o rec.buffer
         /\ KeptNow = [t \in Seconds |-> IF t = rec.file THEN <<>> ELSE disk[t].data]
<1>1. rec.file # 0
  BY BoundAssumption DEF Seconds
<1>2. QED
  BY <1>1 DEF Rolling, TapeNow, KeptNow

LEMMA UnrolledNext ==
  ASSUME ~Active'
  PROVE  Rolling' = 0 /\ TapeNow' = <<>> /\ KeptNow' = [t \in Seconds |-> disk'[t].data]
<1>1. \A t \in Seconds : t # 0
  BY BoundAssumption DEF Seconds
<1>2. QED
  BY <1>1 DEF Rolling, TapeNow, KeptNow

\* The steps of the tape, of the mapped state.
LEMMA MixOf ==
  ASSUME tick' = tick + 1, faults' = faults, Rolling' = Rolling, KeptNow' = KeptNow,
         TapeNow' = IF Rolling = 0 THEN TapeNow ELSE TapeNow \o Block(tick')
  PROVE  TapeOf!Mix
  BY DEF TapeOf!Mix, TapeNow, KeptNow

LEMMA FinishOf ==
  ASSUME Rolling # 0, Rolling' = 0, TapeNow' = <<>>, tick' = tick, faults' = faults,
         KeptNow' = [KeptNow EXCEPT ![Rolling] = TapeNow]
  PROVE  TapeOf!Finish
  BY DEF TapeOf!Finish, TapeNow, KeptNow

LEMMA CutOf ==
  ASSUME Rolling # 0, Rolling' = 0, TapeNow' = <<>>, tick' = tick, faults' = faults + 1,
         \E n \in 0 .. Len(TapeNow) : KeptNow' = [KeptNow EXCEPT ![Rolling] = SubSeq(TapeNow, 1, n)]
  PROVE  TapeOf!Cut
  BY DEF TapeOf!Cut, TapeNow, KeptNow

LEMMA CutMixOf ==
  ASSUME Rolling # 0, Rolling' = 0, TapeNow' = <<>>, tick' = tick + 1, faults' = faults + 1,
         \E n \in 0 .. Len(TapeNow \o Block(tick')) :
           KeptNow' = [KeptNow EXCEPT ![Rolling] = SubSeq(TapeNow \o Block(tick'), 1, n)]
  PROVE  TapeOf!Cut
  BY DEF TapeOf!Cut, TapeNow, KeptNow

\* A file that took a part of what follows it is a beginning of the tape.
LEMMA Beginning ==
  ASSUME NEW d \in Seq(Nat), NEW b \in Seq(Nat), NEW n \in 0 .. Len(b)
  PROVE  /\ Len(d) + n \in 0 .. Len(d \o b)
         /\ SubSeq(d \o b, 1, Len(d) + n) = d \o SubSeq(b, 1, n)
  OBVIOUS

LEMMA OpensTape == ASSUME IInv, Join, ~recording, Opens PROVE TapeOf!Next
<1>1. /\ rec' = [Idle EXCEPT !.live = TRUE, !.file = now] /\ recording' = TRUE
      /\ disk' = [disk EXCEPT ![now] = Empty] /\ faults' = faults /\ tick' = tick
  BY DEF Opens, Join, Truncated
<1>2. now \in Seconds /\ now \in Nat /\ now # 0 /\ disk \in [Seconds -> Files]
  BY Types, BoundAssumption DEF IInv, Seconds
<1>3. rec'.live /\ rec'.file = now /\ rec'.buffer = <<>>
  BY <1>1, <1>2 DEF Idle
<1>4. disk'[now].data = <<>> /\ \A t \in Seconds \ {now} : disk'[t] = disk[t]
  BY <1>1, <1>2, EmptyType
<1>5. ~Active /\ Active'
  BY <1>1, <1>3 DEF Active
<1>6. Rolling = 0 /\ KeptNow = [t \in Seconds |-> disk[t].data]
  BY <1>5, Unrolled
<1>7. Rolling' = now
  BY <1>3, <1>5 DEF Rolling
<1>8. TapeNow' = <<>>
  <2>1. <<>> \o <<>> = <<>>
    OBVIOUS
  <2>2. QED
    BY <1>3, <1>4, <1>5, <2>1 DEF TapeNow
<1>9. KeptNow' = [KeptNow EXCEPT ![now] = <<>>]
  BY <1>2, <1>4, <1>6, <1>7 DEF KeptNow
<1>10. TapeOf!Begin(now)
  BY <1>1, <1>6, <1>7, <1>8, <1>9 DEF TapeOf!Begin, TapeNow, KeptNow
<1>11. QED
  BY <1>2, <1>10 DEF TapeOf!Next, TapeOf!Begin, Names

LEMMA OpenFailsTape == ASSUME IInv, Join, ~recording, OpenFails PROVE TapeOf!Next
<1>1. /\ rec' = rec /\ recording' = recording /\ tick' = tick /\ faults' = faults + 1
      /\ disk' = disk \/ disk' = [[disk EXCEPT ![now] = Empty] EXCEPT ![now].broken = TRUE]
  BY DEF OpenFails, Join, Truncated, Fault
<1>2. now \in Seconds /\ disk \in [Seconds -> Files]
  BY Types DEF IInv
<1>3. ~Active /\ ~Active'
  BY <1>1 DEF Active
<1>4. /\ Rolling = 0 /\ Rolling' = 0 /\ TapeNow = <<>> /\ TapeNow' = <<>>
      /\ KeptNow = [t \in Seconds |-> disk[t].data]
      /\ KeptNow' = [t \in Seconds |-> disk'[t].data]
  BY <1>3, Unrolled, UnrolledNext
<1>5. CASE disk' = disk
  <2>1. TapeOf!Fault
    BY <1>1, <1>4, <1>5 DEF TapeOf!Fault, TapeNow, KeptNow
  <2>2. QED
    BY <2>1 DEF TapeOf!Next
<1>6. CASE disk' = [[disk EXCEPT ![now] = Empty] EXCEPT ![now].broken = TRUE]
  <2>1. disk'[now].data = <<>> /\ \A t \in Seconds \ {now} : disk'[t] = disk[t]
    BY <1>2, <1>6, EmptyType DEF Files
  <2>2. KeptNow' = [KeptNow EXCEPT ![now] = <<>>]
    BY <1>2, <1>4, <2>1
  <2>3. TapeOf!Spoil(now)
    BY <1>1, <1>4, <2>2 DEF TapeOf!Spoil, TapeNow, KeptNow
  <2>4. QED
    BY <1>2, <2>3 DEF TapeOf!Next, TapeOf!Spoil, Names
<1>7. QED
  BY <1>1, <1>5, <1>6

LEMMA BuffersTape == ASSUME IInv, MixTick, Buffers PROVE TapeOf!Next
<1>1. /\ rec' = [rec EXCEPT !.buffer = Grown] /\ disk' = disk /\ recording' = recording
      /\ faults' = faults /\ tick' = tick + 1 /\ Active
  BY DEF Buffers, MixTick
<1>2. /\ rec.file \in Seconds /\ rec.buffer \in Seq(Nat) /\ disk[rec.file].data \in Seq(Nat)
      /\ rec \in Recorders /\ tick \in Nat
  BY <1>1, LiveRecorder, Types DEF IInv
<1>3. rec'.buffer = Grown /\ rec'.live = rec.live /\ rec'.file = rec.file
  BY <1>1, <1>2 DEF Recorders
<1>4. Active' /\ Rolling' = Rolling
  BY <1>1, <1>3 DEF Active, Rolling
<1>5. KeptNow' = KeptNow
  BY <1>1, <1>4 DEF KeptNow
<1>6. Rolling # 0 /\ TapeNow = disk[rec.file].data \o rec.buffer
  BY <1>1, <1>2, Rolled
<1>7. TapeNow' = TapeNow \o Block(tick')
  <2>1. TapeNow' = disk[rec.file].data \o (rec.buffer \o Block(tick'))
    BY <1>1, <1>3, <1>4 DEF TapeNow, Grown
  <2>2. Block(tick') \in Seq(Nat)
    BY <1>1, <1>2 DEF Block
  <2>3. QED
    BY <1>2, <1>6, <2>1, <2>2, Regrouped
<1>8. TapeOf!Mix
  BY <1>1, <1>4, <1>5, <1>6, <1>7, MixOf
<1>9. QED
  BY <1>8 DEF TapeOf!Next

LEMMA FlushesTape == ASSUME IInv, MixTick, Flushes PROVE TapeOf!Next
<1>1. /\ rec' = [rec EXCEPT !.total = @ + Len(Grown), !.buffer = <<>>]
      /\ disk' = Written(Grown) /\ recording' = recording
      /\ faults' = faults /\ tick' = tick + 1 /\ Active
  BY DEF Flushes, Flushed, MixTick
<1>2. /\ TypeOK /\ rec.file \in Seconds /\ rec.buffer \in Seq(Nat)
      /\ disk[rec.file].data \in Seq(Nat) /\ rec \in Recorders /\ Grown \in Seq(Nat)
      /\ tick \in Nat
  BY <1>1, LiveRecorder, GrownType, Types
<1>3. rec'.buffer = <<>> /\ rec'.live = rec.live /\ rec'.file = rec.file
  BY <1>1, <1>2 DEF Recorders
<1>4. /\ disk'[rec.file].data = disk[rec.file].data \o Grown
      /\ \A t \in Seconds \ {rec.file} : disk'[t] = disk[t]
  BY <1>1, <1>2, WrittenType
<1>5. Active' /\ Rolling' = Rolling /\ Rolling = rec.file
  BY <1>1, <1>2, <1>3 DEF Active, Rolling
<1>6. KeptNow' = KeptNow
  BY <1>4, <1>5 DEF KeptNow
<1>7. Rolling # 0 /\ TapeNow = disk[rec.file].data \o rec.buffer
  BY <1>1, <1>2, Rolled
<1>8. TapeNow' = TapeNow \o Block(tick')
  <2>1. TapeNow' = (disk[rec.file].data \o Grown) \o <<>>
    BY <1>3, <1>4, <1>5 DEF TapeNow
  <2>2. disk[rec.file].data \o Grown \in Seq(Nat)
    BY <1>2
  <2>3. TapeNow' = disk[rec.file].data \o (rec.buffer \o Block(tick'))
    BY <1>1, <2>1, <2>2, ConcatEmptySeq DEF Grown
  <2>4. Block(tick') \in Seq(Nat)
    BY <1>1, <1>2 DEF Block
  <2>5. QED
    BY <1>2, <1>7, <2>3, <2>4, Regrouped
<1>9. TapeOf!Mix
  BY <1>1, <1>5, <1>6, <1>7, <1>8, MixOf
<1>10. QED
  BY <1>9 DEF TapeOf!Next

LEMMA ShortWriteTape == ASSUME IInv, MixTick, ShortWrite PROVE TapeOf!Next
<1>1. /\ rec' = [rec EXCEPT !.buffer = Grown, !.live = FALSE] /\ recording' = recording
      /\ faults' = faults + 1 /\ tick' = tick + 1 /\ Active
  BY DEF ShortWrite, Failed, Fault, MixTick
<1>2. /\ TypeOK /\ rec.file \in Seconds /\ rec.buffer \in Seq(Nat)
      /\ disk[rec.file].data \in Seq(Nat) /\ rec \in Recorders /\ Grown \in Seq(Nat)
      /\ Len(Grown) \in Nat /\ tick \in Nat
  BY <1>1, LiveRecorder, GrownType, Types
<1>3. ~Active'
  BY <1>1, <1>2 DEF Active, Recorders
<1>4. PICK n \in 0 .. (Len(Grown) - 1) :
        disk' = [Written(SubSeq(Grown, 1, n)) EXCEPT ![rec.file].broken = TRUE]
  BY DEF ShortWrite
<1>5. SubSeq(Grown, 1, n) \in Seq(Nat) /\ n \in 0 .. Len(Grown)
  BY <1>2, <1>4, PartType
<1>6. /\ Written(SubSeq(Grown, 1, n)) \in [Seconds -> Files]
      /\ Written(SubSeq(Grown, 1, n))[rec.file].data = disk[rec.file].data \o SubSeq(Grown, 1, n)
      /\ \A t \in Seconds \ {rec.file} : Written(SubSeq(Grown, 1, n))[t] = disk[t]
  BY <1>2, <1>5, WrittenType
<1>7. /\ disk'[rec.file].data = disk[rec.file].data \o SubSeq(Grown, 1, n)
      /\ \A t \in Seconds \ {rec.file} : disk'[t] = disk[t]
  BY <1>2, <1>4, <1>6 DEF Files
<1>8. /\ Rolling = rec.file /\ Rolling # 0 /\ TapeNow = disk[rec.file].data \o rec.buffer
      /\ KeptNow = [t \in Seconds |-> IF t = rec.file THEN <<>> ELSE disk[t].data]
  BY <1>1, <1>2, Rolled
<1>9. Rolling' = 0 /\ TapeNow' = <<>> /\ KeptNow' = [t \in Seconds |-> disk'[t].data]
  BY <1>3, UnrolledNext
<1>10. TapeNow \o Block(tick') = disk[rec.file].data \o Grown
  <2>1. Block(tick') \in Seq(Nat) /\ Grown = rec.buffer \o Block(tick')
    BY <1>1, <1>2 DEF Block, Grown
  <2>2. QED
    BY <1>2, <1>8, <2>1, Regrouped
<1>11. /\ Len(disk[rec.file].data) + n \in 0 .. Len(TapeNow \o Block(tick'))
       /\ SubSeq(TapeNow \o Block(tick'), 1, Len(disk[rec.file].data) + n)
             = disk[rec.file].data \o SubSeq(Grown, 1, n)
  <2>1. /\ Len(disk[rec.file].data) + n \in 0 .. Len(disk[rec.file].data \o Grown)
        /\ SubSeq(disk[rec.file].data \o Grown, 1, Len(disk[rec.file].data) + n)
              = disk[rec.file].data \o SubSeq(Grown, 1, n)
    BY <1>2, <1>5, Beginning
  <2>2. QED
    BY <1>10, <2>1
<1>12. KeptNow' = [KeptNow EXCEPT ![Rolling] =
                     SubSeq(TapeNow \o Block(tick'), 1, Len(disk[rec.file].data) + n)]
  BY <1>2, <1>7, <1>8, <1>9, <1>11
<1>13. TapeOf!Cut
  BY <1>1, <1>8, <1>9, <1>11, <1>12, CutMixOf
<1>14. QED
  BY <1>13 DEF TapeOf!Next

LEMMA NotRecordedTape == ASSUME IInv, MixTick, NotRecorded PROVE TapeOf!Next
<1>1. ~Active /\ ~Active' /\ disk' = disk /\ faults' = faults /\ tick' = tick + 1
  BY DEF MixTick, NotRecorded, Active
<1>2. /\ Rolling = 0 /\ Rolling' = 0 /\ TapeNow = <<>> /\ TapeNow' = <<>> /\ KeptNow' = KeptNow
  BY <1>1, Unrolled, UnrolledNext
<1>3. TapeOf!Mix
  BY <1>1, <1>2, MixOf
<1>4. QED
  BY <1>3 DEF TapeOf!Next

LEMMA FinalizesTape == ASSUME IInv, LastLeaves, Finalizes PROVE TapeOf!Next
<1>1. /\ Active /\ faults' = faults /\ tick' = tick /\ recording' = FALSE
      /\ disk' = [Written(rec.buffer) EXCEPT
                     ![rec.file].size = DataSize, ![rec.file].riff = FileSize]
  BY DEF LastLeaves, Finalizes
<1>2. /\ TypeOK /\ rec.file \in Seconds /\ rec.buffer \in Seq(Nat)
  BY <1>1, LiveRecorder
<1>3. /\ Written(rec.buffer) \in [Seconds -> Files]
      /\ Written(rec.buffer)[rec.file].data = disk[rec.file].data \o rec.buffer
      /\ \A t \in Seconds \ {rec.file} : Written(rec.buffer)[t] = disk[t]
  BY <1>2, WrittenType
<1>4. /\ disk'[rec.file].data = disk[rec.file].data \o rec.buffer
      /\ \A t \in Seconds \ {rec.file} : disk'[t] = disk[t]
  BY <1>1, <1>2, <1>3 DEF Files
<1>5. /\ Rolling = rec.file /\ Rolling # 0 /\ TapeNow = disk[rec.file].data \o rec.buffer
      /\ KeptNow = [t \in Seconds |-> IF t = rec.file THEN <<>> ELSE disk[t].data]
  BY <1>1, <1>2, Rolled
<1>6. Rolling' = 0 /\ TapeNow' = <<>> /\ KeptNow' = [t \in Seconds |-> disk'[t].data]
  BY <1>1, UnrolledNext DEF Active
<1>7. KeptNow' = [KeptNow EXCEPT ![Rolling] = TapeNow]
  BY <1>2, <1>4, <1>5, <1>6
<1>8. TapeOf!Finish
  BY <1>1, <1>5, <1>6, <1>7, FinishOf
<1>9. QED
  BY <1>8 DEF TapeOf!Next

LEMMA FinalizeFailsTape == ASSUME IInv, LastLeaves, FinalizeFails PROVE TapeOf!Next
<1>1. /\ Active /\ faults' = faults + 1 /\ tick' = tick /\ recording' = FALSE
  BY DEF LastLeaves, FinalizeFails, Fault
<1>2. PICK n \in 0 .. Len(rec.buffer), size \in {0, DataSize}, riff \in {0, FileSize} :
        disk' = [Written(SubSeq(rec.buffer, 1, n)) EXCEPT
                   ![rec.file].size = size, ![rec.file].riff = riff,
                   ![rec.file].broken = TRUE]
  BY DEF FinalizeFails
<1>3. /\ TypeOK /\ rec.file \in Seconds /\ rec.buffer \in Seq(Nat)
      /\ disk[rec.file].data \in Seq(Nat)
  BY <1>1, LiveRecorder
<1>4. SubSeq(rec.buffer, 1, n) \in Seq(Nat)
  BY <1>2, <1>3, PartType
<1>5. /\ Written(SubSeq(rec.buffer, 1, n)) \in [Seconds -> Files]
      /\ Written(SubSeq(rec.buffer, 1, n))[rec.file].data
           = disk[rec.file].data \o SubSeq(rec.buffer, 1, n)
      /\ \A t \in Seconds \ {rec.file} : Written(SubSeq(rec.buffer, 1, n))[t] = disk[t]
  BY <1>3, <1>4, WrittenType
<1>6. /\ disk'[rec.file].data = disk[rec.file].data \o SubSeq(rec.buffer, 1, n)
      /\ \A t \in Seconds \ {rec.file} : disk'[t] = disk[t]
  BY <1>2, <1>3, <1>5 DEF Files
<1>7. /\ Rolling = rec.file /\ Rolling # 0 /\ TapeNow = disk[rec.file].data \o rec.buffer
      /\ KeptNow = [t \in Seconds |-> IF t = rec.file THEN <<>> ELSE disk[t].data]
  BY <1>1, <1>3, Rolled
<1>8. Rolling' = 0 /\ TapeNow' = <<>> /\ KeptNow' = [t \in Seconds |-> disk'[t].data]
  BY <1>1, UnrolledNext DEF Active
<1>9. /\ Len(disk[rec.file].data) + n \in 0 .. Len(TapeNow)
      /\ SubSeq(TapeNow, 1, Len(disk[rec.file].data) + n)
           = disk[rec.file].data \o SubSeq(rec.buffer, 1, n)
  BY <1>2, <1>3, <1>7, Beginning
<1>10. KeptNow' = [KeptNow EXCEPT ![Rolling] = SubSeq(TapeNow, 1, Len(disk[rec.file].data) + n)]
  BY <1>3, <1>6, <1>7, <1>8, <1>9
<1>11. TapeOf!Cut
  BY <1>1, <1>7, <1>8, <1>9, <1>10, CutOf
<1>12. QED
  BY <1>11 DEF TapeOf!Next

LEMMA RestartTape == ASSUME IInv, Restart PROVE TapeOf!Next
<1>1. faults' = faults + 1 /\ tick' = tick /\ ~Active'
  BY DEF Restart, Fault, Active
<1>2. Rolling' = 0 /\ TapeNow' = <<>> /\ KeptNow' = [t \in Seconds |-> disk'[t].data]
  BY <1>1, UnrolledNext
<1>3. CASE ~Active
  <2>1. disk' = disk
    BY <1>3 DEF Restart
  <2>2. Rolling = 0 /\ TapeNow = <<>> /\ KeptNow = [t \in Seconds |-> disk[t].data]
    BY <1>3, Unrolled
  <2>3. TapeOf!Fault
    BY <1>1, <1>2, <2>1, <2>2 DEF TapeOf!Fault, TapeNow, KeptNow
  <2>4. QED
    BY <2>3 DEF TapeOf!Next
<1>4. CASE Active
  <2>1. /\ rec.file \in Seconds /\ rec.buffer \in Seq(Nat) /\ disk[rec.file].data \in Seq(Nat)
        /\ disk \in [Seconds -> Files]
    BY <1>4, LiveRecorder
  <2>2. /\ disk'[rec.file].data = disk[rec.file].data
        /\ \A t \in Seconds \ {rec.file} : disk'[t] = disk[t]
    BY <1>4, <2>1 DEF Restart, Files
  <2>3. /\ Rolling = rec.file /\ Rolling # 0 /\ TapeNow = disk[rec.file].data \o rec.buffer
        /\ KeptNow = [t \in Seconds |-> IF t = rec.file THEN <<>> ELSE disk[t].data]
    BY <1>4, <2>1, Rolled
  <2>4. /\ Len(disk[rec.file].data) \in 0 .. Len(TapeNow)
        /\ SubSeq(TapeNow, 1, Len(disk[rec.file].data)) = disk[rec.file].data
    <3>1. \A d, b \in Seq(Nat) : Len(d) \in 0 .. Len(d \o b) /\ SubSeq(d \o b, 1, Len(d)) = d
      OBVIOUS
    <3>2. QED
      BY <2>1, <2>3, <3>1
  <2>5. KeptNow' = [KeptNow EXCEPT ![Rolling] = SubSeq(TapeNow, 1, Len(disk[rec.file].data))]
    BY <1>2, <2>1, <2>2, <2>3, <2>4
  <2>6. TapeOf!Cut
    BY <1>1, <1>2, <2>3, <2>4, <2>5, CutOf
  <2>7. QED
    BY <2>6 DEF TapeOf!Next
<1>5. QED
  BY <1>3, <1>4

LEMMA TapeStep == ASSUME IInv, [Next]_vars PROVE [TapeOf!Next]_(TapeOf!vars)
<1>1. CASE Join
  <2>1. CASE recording \/ Refused
    <3>1. rec' = rec /\ disk' = disk /\ recording' = recording /\ tick' = tick /\ faults' = faults
      BY <1>1, <2>1 DEF Join, Refused, Opens, OpenFails
    <3>2. QED
      BY <3>1, TapeStutter
  <2>2. CASE ~recording /\ (Opens \/ OpenFails)
    BY <1>1, <2>2, OpensTape, OpenFailsTape
  <2>3. QED
    BY <1>1, <2>1, <2>2 DEF Join
<1>2. CASE MixTick
  BY <1>2, BuffersTape, FlushesTape, ShortWriteTape, NotRecordedTape DEF MixTick
<1>3. CASE LastLeaves
  <2>1. CASE Finalizes \/ FinalizeFails
    BY <1>3, <2>1, FinalizesTape, FinalizeFailsTape
  <2>2. CASE ~Active /\ UNCHANGED <<disk, errno, faults>>
    <3>1. ~Active' /\ disk' = disk /\ tick' = tick /\ faults' = faults
      BY <1>3, <2>2 DEF LastLeaves, Active
    <3>2. Rolling = 0 /\ TapeNow = <<>> /\ Rolling' = 0 /\ TapeNow' = <<>> /\ KeptNow' = KeptNow
      BY <2>2, <3>1, Unrolled, UnrolledNext
    <3>3. UNCHANGED TapeOf!vars
      BY <3>1, <3>2 DEF TapeOf!vars, TapeNow, KeptNow
    <3>4. QED
      BY <3>3
  <2>3. QED
    BY <1>3, <2>1, <2>2 DEF LastLeaves
<1>4. CASE Restart
  BY <1>4, RestartTape
<1>5. CASE Second \/ SystemCall \/ UNCHANGED vars
  BY <1>5, TapeStutter DEF Second, SystemCall, vars
<1>6. QED
  BY <1>1, <1>2, <1>3, <1>4, <1>5 DEF Next

\* The recorder implements the tape: with a buffer that is written in parts, a
\* header that is told its size afterwards, writes that fail and a process that
\* ends, no mixed block is lost, doubled or moved in what is recorded.
THEOREM ImplementsTape == Spec => TapeSpec
<1>1. Spec => []IInv
  BY Invariant
<1>2. QED
  BY <1>1, TapeInit, TapeStep, PTL DEF Spec, TapeSpec, TapeOf!Spec

=============================================================================
