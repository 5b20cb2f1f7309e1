---------------------------- MODULE MixerJitter ----------------------------
(***************************************************************************)
(* One user's voice inside the mixer server: the jitter buffer its frames  *)
(* wait in (UserEndpoint in server/src/mixer_server.h), the two knobs that *)
(* MIXER_TUNE turns while frames come and go, and the Track that conceals  *)
(* missing frames (server/src/audio_mixer.h).                              *)
(*                                                                         *)
(* A frame is known by its place in the order of arrival, counted modulo   *)
(* Wrap; the mixer does not read the sequence number of a packet.          *)
(***************************************************************************)
EXTENDS Naturals, Sequences

CONSTANTS
  TargetMax, CapMax,           \* JITTER_TARGET_MAX, JITTER_MAX_DEPTH_MAX
  TargetDefault, CapDefault,   \* JITTER_TARGET_DEFAULT, JITTER_MAX_DEPTH_DEFAULT
  PlcMax,                      \* AudioMixer::PLC_MAX_DECAY
  Wrap,                        \* bound: frames are counted modulo Wrap
  MaxTunes, MaxRejoins,        \* bounds: MIXER_TUNEs, and further MIXER_JOINs,
                               \* while the user stays in the room
  KnobsOrdered                 \* discipline: nobody sets the cap below the target

NoKnob == 999999    \* a field that MIXER_TUNE does not carry
NoFrame == 999999   \* no frame

ASSUME KnobAssumption ==
  /\ TargetMax \in Nat \ {0} /\ CapMax \in Nat \ {0}
  /\ TargetDefault \in 1..TargetMax /\ CapDefault \in 1..CapMax
  /\ TargetDefault <= CapDefault
  /\ TargetMax < NoKnob /\ CapMax < NoKnob
  /\ KnobsOrdered \in BOOLEAN
ASSUME PlcAssumption == PlcMax \in Nat
ASSUME BoundAssumption ==
  /\ Wrap \in Nat /\ CapMax < Wrap /\ Wrap < NoFrame
  /\ MaxTunes \in Nat /\ MaxRejoins \in Nat

VARIABLES
  present,   \* the room has an endpoint for the user
  queue,     \* jitter_queue
  primed,    \* jitter_primed
  target,    \* jitter_target
  cap,       \* jitter_max_depth
  prev,      \* the frame in Track::prevAudio, NoFrame without a Track
  decay,     \* Track::decayCount
  arrived,   \* the last frame that was enqueued
  heard,     \* what the last tick mixed of this user
  run,       \* ticks in a row in which the frame of that tick was mixed
  tunes, rejoins   \* counted against the bounds

buffer == <<queue, primed, target, cap>>
track == <<prev, decay>>
mixed == <<heard, run>>
vars == <<present, queue, primed, target, cap, prev, decay, arrived, heard, run, tunes, rejoins>>

Frames == 0..(Wrap - 1)
NextFrame(f) == IF f = Wrap - 1 THEN 0 ELSE f + 1

TypeOK ==
  /\ present \in BOOLEAN
  /\ queue \in Seq(Frames)
  /\ primed \in BOOLEAN
  /\ target \in 1..TargetMax
  /\ cap \in 1..CapMax
  /\ prev \in Frames \cup {NoFrame}
  /\ decay \in 0..PlcMax
  /\ arrived \in Frames
  /\ heard \in {"fresh", "replay", "silence"}
  /\ run \in Nat
  /\ tunes \in 0..MaxTunes
  /\ rejoins \in 0..MaxRejoins

Init ==
  /\ present = FALSE
  /\ queue = <<>> /\ primed = FALSE
  /\ target = TargetDefault /\ cap = CapDefault
  /\ prev = NoFrame /\ decay = 0
  /\ arrived = 0
  /\ heard = "silence" /\ run = 0
  /\ tunes = 0 /\ rejoins = 0

-----------------------------------------------------------------------------
\* The oldest n frames are kept.
MutOldest(q, n) == IF Len(q) > n THEN SubSeq(q, 1, n) ELSE q

\* while (size > n) pop_front
Newest(q, n) == IF Len(q) > n THEN SubSeq(q, Len(q) - n + 1, Len(q)) ELSE q

\* MIXER_JOIN puts a fresh endpoint in place of what was there; a Track that
\* the user had goes on.
Join ==
  /\ \/ ~present /\ UNCHANGED rejoins
     \/ present /\ rejoins < MaxRejoins /\ rejoins' = rejoins + 1
  /\ present' = TRUE
  /\ queue' = <<>> /\ primed' = FALSE
  /\ target' = TargetDefault /\ cap' = CapDefault
  /\ UNCHANGED <<track, arrived, mixed, tunes>>

\* MIXER_LEAVE or the end of the control connection: no endpoint, no Track.
Leave ==
  /\ present
  /\ present' = FALSE
  /\ queue' = <<>> /\ primed' = FALSE
  /\ target' = TargetDefault /\ cap' = CapDefault
  /\ prev' = NoFrame /\ decay' = 0
  /\ heard' = "silence" /\ run' = 0
  /\ tunes' = 0 /\ rejoins' = 0
  /\ UNCHANGED arrived

Enqueue(q, f, k) == Newest(Append(q, f), k)

\* An audio datagram of a user in the room.
Packet ==
  /\ present
  /\ arrived' = NextFrame(arrived)
  /\ queue' = Enqueue(queue, arrived', cap)
  /\ UNCHANGED <<present, primed, target, cap, track, mixed, tunes, rejoins>>

\* std::max(1, std::min(max, x))
Clamped(x, max) == IF x > max THEN max ELSE IF x < 1 THEN 1 ELSE x

\* The cap is stored, and the queue is left for the next packet to trim.
MutCapped(q, k) == q

\* What a new cap leaves of the queue.
Capped(q, k) == Newest(q, k)

\* MIXER_TUNE with a target t and a cap k, either of which may be missing.
MixerTune(t, k) ==
  /\ present /\ tunes < MaxTunes
  /\ tunes' = tunes + 1
  /\ target' = IF t = NoKnob THEN target ELSE Clamped(t, TargetMax)
  /\ cap' = IF k = NoKnob THEN cap ELSE Clamped(k, CapMax)
  /\ KnobsOrdered => target' <= cap'
  /\ primed' = (primed /\ t = NoKnob)
  /\ LET trimmed == IF t = NoKnob THEN queue ELSE Newest(queue, target')
     IN  queue' = IF k = NoKnob THEN trimmed ELSE Capped(trimmed, cap')
  /\ UNCHANGED <<present, track, arrived, mixed, rejoins>>

\* The mixer starts only above the target.
MutFilled == Len(queue) > target

\* What an endpoint waits for before it gives its first frame.
Filled == Len(queue) >= target

\* The count of replays is not advanced.
MutDecayedNever(d) == d

\* The count is advanced without a limit.
MutDecayedOn(d) == d + 1

\* decayCount after one more tick without a frame.
Decayed(d) == IF d < PlcMax THEN d + 1 ELSE d

\* A tick of the mixing timer: the oldest frame is mixed, or what the Track
\* still has to offer, at a gain that falls with decay.
Fresh ==
  /\ present
  /\ primed \/ Filled
  /\ queue # <<>>
  /\ primed' = TRUE
  /\ queue' = Tail(queue)
  /\ prev' = Head(queue) /\ decay' = 0
  /\ heard' = "fresh" /\ run' = 1
  /\ UNCHANGED <<present, target, cap, arrived, tunes, rejoins>>

Conceal ==
  /\ present
  /\ ~((primed \/ Filled) /\ queue # <<>>)
  /\ primed' = (primed \/ Filled)
  /\ decay' = IF prev = NoFrame THEN decay ELSE Decayed(decay)
  /\ \/ /\ prev # NoFrame /\ decay < PlcMax
        /\ heard' = "replay" /\ run' = run + 1
     \/ /\ prev = NoFrame \/ decay = PlcMax
        /\ heard' = "silence" /\ run' = 0
  /\ UNCHANGED <<present, queue, target, cap, prev, arrived, tunes, rejoins>>

MixTick == Fresh \/ Conceal

Next ==
  \/ Join \/ Leave \/ Packet \/ MixTick
  \/ \E t \in 0..(TargetMax + 1) \cup {NoKnob}, k \in 0..(CapMax + 1) \cup {NoKnob} :
       MixerTune(t, k)

Spec == Init /\ [][Next]_vars

\* The timer is re-armed by every tick, and a client in a room sends frames
\* without end, not all of which are lost.
FairSpec == Spec /\ WF_vars(MixTick) /\ WF_vars(Packet)

-----------------------------------------------------------------------------
(* Properties.                                                              *)

\* The frames that wait are the newest ones, in the order of their arrival and
\* without a gap: bursts, knobs and rejoins only ever cost the oldest, and what
\* was mixed or dropped does not come back.
QueueIsNewest ==
  /\ queue # <<>> => queue[Len(queue)] = arrived
  /\ \A i \in 1..(Len(queue) - 1) : queue[i + 1] = NextFrame(queue[i])

\* The queue, and with it the delay of a voice, is within the cap at any time,
\* also when the cap is turned down on a full queue.
LatencyBounded == Len(queue) <= cap

\* A frame is mixed once and replayed in at most PlcMax further ticks ("never
\* an infinite loop"), whatever joins and knobs come in between.
RepeatBounded == run <= PlcMax + 1

\* Two independent knobs: a user who stays in a room and keeps sending is heard
\* again and again, however the knobs were turned.
StreamHeard == (present /\ heard # "fresh") ~> (~present \/ heard = "fresh")
============================================================================
