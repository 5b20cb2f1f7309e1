------------------------- MODULE MixerJitter_proofs -------------------------
(***************************************************************************)
(* For all values of the knobs and of their limits: the queue of a voice   *)
(* holds its newest frames, within the cap, and concealment is bounded.    *)
(***************************************************************************)
EXTENDS MixerJitter, SequenceTheorems, TLAPS

\* QueueIsNewest of any queue and any last arrival.
Run(q, a) ==
  /\ q # <<>> => q[Len(q)] = a
  /\ \A i \in 1..(Len(q) - 1) : q[i + 1] = NextFrame(q[i])

\* The ticks a frame has been mixed in are counted by decay, too.
ReplaysCounted == run <= decay + 1

Inv == TypeOK /\ QueueIsNewest /\ LatencyBounded /\ ReplaysCounted

-----------------------------------------------------------------------------
\* Places of arrival are counted modulo Wrap: the frame that handle_udp_audio
\* enqueues next has a place, too.
LEMMA NextFrameType == \A f \in Frames : NextFrame(f) \in Frames
  BY BoundAssumption DEF Frames, NextFrame

\* Popping the front until n frames are left keeps the last n, in their order.
LEMMA NewestProps ==
  ASSUME NEW S, NEW q \in Seq(S), NEW n \in Nat
  PROVE  /\ Newest(q, n) \in Seq(S)
         /\ Len(Newest(q, n)) <= n
         /\ Len(Newest(q, n)) <= Len(q)
         /\ \A i \in 1..Len(Newest(q, n)) :
              Newest(q, n)[i] = q[i + (Len(q) - Len(Newest(q, n)))]
<1>1. CASE Len(q) > n
  <2>1. Newest(q, n) = SubSeq(q, Len(q) - n + 1, Len(q))
    BY <1>1 DEF Newest
  <2>2. Len(q) \in Nat
    OBVIOUS
  <2>3. \A i \in Len(q) - n + 1..Len(q) : i \in 1..Len(q)
    BY <1>1, <2>2
  <2>4. /\ SubSeq(q, Len(q) - n + 1, Len(q)) \in Seq(S)
        /\ Len(SubSeq(q, Len(q) - n + 1, Len(q))) = n
        /\ \A i \in 1..n : SubSeq(q, Len(q) - n + 1, Len(q))[i] = q[Len(q) - n + 1 + i - 1]
    BY <1>1, <2>2, <2>3, SubSeqProperties
  <2> QED
    BY <1>1, <2>1, <2>2, <2>4
<1>2. CASE ~(Len(q) > n)
  BY <1>2 DEF Newest
<1> QED
  BY <1>1, <1>2

\* What is left of a queue of newest frames after its front was trimmed, by the
\* cap or by MIXER_TUNE, is a queue of newest frames.
LEMMA NewestRun ==
  ASSUME NEW q \in Seq(Frames), NEW n \in Nat, NEW a \in Frames, Run(q, a)
  PROVE  Run(Newest(q, n), a)
<1> DEFINE p == Newest(q, n)
           d == Len(q) - Len(p)
<1>1. /\ p \in Seq(Frames) /\ Len(p) \in Nat /\ Len(q) \in Nat
      /\ Len(p) <= Len(q)
      /\ \A i \in 1..Len(p) : p[i] = q[i + d]
  BY NewestProps
<1>2. d \in Nat /\ Len(p) + d = Len(q)
  BY <1>1
<1> HIDE DEF p, d
<1>3. ASSUME p # <<>> PROVE p[Len(p)] = a
  <2>1. Len(p) \in 1..Len(p) /\ q # <<>>
    BY <1>1, <1>3, EmptySeq
  <2> QED
    BY <1>1, <1>2, <2>1 DEF Run
<1>4. ASSUME NEW i \in 1..(Len(p) - 1) PROVE p[i + 1] = NextFrame(p[i])
  <2>1. i \in 1..Len(p) /\ i + 1 \in 1..Len(p) /\ i + d \in 1..(Len(q) - 1)
    BY <1>1, <1>2
  <2>2. p[i + 1] = q[(i + d) + 1] /\ p[i] = q[i + d]
    BY <1>1, <1>2, <2>1, SMTT(30)
  <2> QED
    BY <2>1, <2>2 DEF Run
<1> QED
  BY <1>3, <1>4 DEF Run, p

\* handle_udp_audio keeps a queue of newest frames that ends in the new one,
\* within the cap.
LEMMA EnqueueRun ==
  ASSUME NEW q \in Seq(Frames), NEW k \in Nat, NEW a \in Frames, Run(q, a)
  PROVE  /\ Enqueue(q, NextFrame(a), k) \in Seq(Frames)
         /\ Len(Enqueue(q, NextFrame(a), k)) <= k
         /\ Run(Enqueue(q, NextFrame(a), k), NextFrame(a))
<1> DEFINE b == NextFrame(a)
           p == Append(q, b)
<1>1. b \in Frames
  BY NextFrameType
<1>2. /\ p \in Seq(Frames) /\ Len(p) = Len(q) + 1 /\ Len(q) \in Nat
      /\ \A i \in 1..Len(q) : p[i] = q[i]
      /\ p[Len(q) + 1] = b
  BY <1>1, AppendProperties
<1> HIDE DEF p
<1>3. ASSUME NEW i \in 1..(Len(p) - 1) PROVE p[i + 1] = NextFrame(p[i])
  <2>1. i \in 1..Len(q)
    BY <1>2
  <2>2. CASE i = Len(q)
    <3>1. q # <<>>
      BY <2>1, EmptySeq
    <3> QED
      BY <1>2, <2>1, <2>2, <3>1 DEF Run
  <2>3. CASE i < Len(q)
    <3>1. i \in 1..(Len(q) - 1) /\ i + 1 \in 1..Len(q)
      BY <1>2, <2>1, <2>3
    <3> QED
      BY <1>2, <2>1, <3>1 DEF Run
  <2> QED
    BY <1>2, <2>1, <2>2, <2>3
<1>4. Run(p, b)
  BY <1>2, <1>3 DEF Run
<1> QED
  BY <1>1, <1>2, <1>4, NewestProps, NewestRun DEF Enqueue, p

\* The empty queue of a new endpoint is one.
LEMMA EmptyRun == \A a \in Frames : Run(<<>>, a) /\ Len(<<>>) = 0
  BY EmptySeq DEF Run

\* A mixing tick takes the oldest frame, and the rest is still a queue of newest
\* frames.
LEMMA TailRun ==
  ASSUME NEW q \in Seq(Frames), q # <<>>, NEW a \in Frames, Run(q, a)
  PROVE  Run(Tail(q), a)
<1>1. /\ Tail(q) \in Seq(Frames) /\ Len(q) \in Nat
      /\ Len(Tail(q)) = Len(q) - 1
      /\ \A i \in 1..Len(Tail(q)) : Tail(q)[i] = q[i + 1]
  BY HeadTailProperties
<1>2. ASSUME Tail(q) # <<>> PROVE Tail(q)[Len(Tail(q))] = a
  <2>1. Len(Tail(q)) \in 1..Len(Tail(q))
    BY <1>1, <1>2, EmptySeq
  <2> QED
    BY <1>1, <2>1 DEF Run
<1>3. ASSUME NEW i \in 1..(Len(Tail(q)) - 1)
      PROVE  Tail(q)[i + 1] = NextFrame(Tail(q)[i])
  <2>1. /\ i \in 1..Len(Tail(q)) /\ i + 1 \in 1..Len(Tail(q))
        /\ i + 1 \in 1..(Len(q) - 1)
    BY <1>1
  <2> QED
    BY <1>1, <2>1 DEF Run
<1> QED
  BY <1>2, <1>3 DEF Run

-----------------------------------------------------------------------------
(* The invariant.                                                           *)

LEMMA InvInit == Init => Inv
<1> SUFFICES ASSUME Init PROVE Inv
  OBVIOUS
<1>1. arrived \in Frames /\ 0 \in 0..PlcMax
  BY BoundAssumption, PlcAssumption, KnobAssumption DEF Init, Frames
<1>2. TypeOK
  <2>1. present \in BOOLEAN /\ primed \in BOOLEAN
    BY DEF Init
  <2>2. queue \in Seq(Frames)
    BY EmptySeq DEF Init
  <2>3. /\ target \in 1..TargetMax /\ cap \in 1..CapMax
        /\ run \in Nat /\ tunes \in 0..MaxTunes /\ rejoins \in 0..MaxRejoins
    BY KnobAssumption, BoundAssumption DEF Init
  <2>4. prev \in Frames \cup {NoFrame} /\ heard \in {"fresh", "replay", "silence"}
    BY DEF Init
  <2> QED
    BY <1>1, <2>1, <2>2, <2>3, <2>4 DEF Init, TypeOK
<1>3. QueueIsNewest /\ Len(queue) = 0
  BY <1>1, EmptyRun DEF Init, QueueIsNewest, Run
<1> QED
  BY <1>1, <1>2, <1>3, KnobAssumption DEF Inv, Init, LatencyBounded, ReplaysCounted

\* A fresh endpoint, or none: nothing waits.
LEMMA EmptyStep ==
  ASSUME Inv, queue' = <<>>, cap' \in 1..CapMax, arrived' \in Frames
  PROVE  queue' \in Seq(Frames) /\ QueueIsNewest' /\ LatencyBounded'
<1>1. Run(queue', arrived') /\ Len(queue') = 0 /\ queue' \in Seq(Frames)
  BY EmptyRun, EmptySeq
<1> QED
  BY <1>1, KnobAssumption DEF QueueIsNewest, Run, LatencyBounded

LEMMA InvStep == Inv /\ [Next]_vars => Inv'
<1> SUFFICES ASSUME Inv, [Next]_vars PROVE Inv'
  OBVIOUS
<1> USE KnobAssumption, PlcAssumption, BoundAssumption
<1>1. CASE Join
  <2>1. queue' = <<>> /\ cap' \in 1..CapMax /\ arrived' \in Frames
    BY <1>1 DEF Join, Inv, TypeOK
  <2>2. queue' \in Seq(Frames) /\ QueueIsNewest' /\ LatencyBounded'
    BY <2>1, EmptyStep
  <2>3. TypeOK'
    <3>1. present' \in BOOLEAN /\ primed' \in BOOLEAN /\ target' \in 1..TargetMax
      BY <1>1 DEF Join
    <3>2. rejoins' \in 0..MaxRejoins /\ tunes' \in 0..MaxTunes
      BY <1>1 DEF Join, Inv, TypeOK
    <3>3. UNCHANGED <<prev, decay, arrived, heard, run>>
      BY <1>1 DEF Join, track, mixed
    <3> QED
      BY <2>1, <2>2, <3>1, <3>2, <3>3 DEF Inv, TypeOK
  <2>4. ReplaysCounted'
    BY <1>1 DEF Join, Inv, ReplaysCounted, track, mixed
  <2> QED
    BY <2>2, <2>3, <2>4 DEF Inv
<1>2. CASE Leave
  <2>1. queue' = <<>> /\ cap' \in 1..CapMax /\ arrived' \in Frames
    BY <1>2 DEF Leave, Inv, TypeOK
  <2>2. queue' \in Seq(Frames) /\ QueueIsNewest' /\ LatencyBounded'
    BY <2>1, EmptyStep
  <2>3. TypeOK'
    <3>1. present' \in BOOLEAN /\ primed' \in BOOLEAN /\ target' \in 1..TargetMax
      BY <1>2 DEF Leave
    <3>2. prev' \in Frames \cup {NoFrame} /\ heard' \in {"fresh", "replay", "silence"}
      BY <1>2 DEF Leave
    <3>3. decay' \in 0..PlcMax /\ run' \in Nat
      BY <1>2 DEF Leave
    <3>4. rejoins' \in 0..MaxRejoins /\ tunes' \in 0..MaxTunes
      BY <1>2 DEF Leave
    <3> QED
      BY <2>1, <2>2, <3>1, <3>2, <3>3, <3>4 DEF TypeOK
  <2>4. ReplaysCounted'
    BY <1>2 DEF Leave, ReplaysCounted
  <2> QED
    BY <2>2, <2>3, <2>4 DEF Inv
<1>3. CASE Packet
  <2>1. /\ queue \in Seq(Frames) /\ arrived \in Frames /\ Run(queue, arrived)
        /\ cap \in Nat
    BY DEF Inv, TypeOK, QueueIsNewest, Run
  <2>2. /\ queue' \in Seq(Frames) /\ Len(queue') <= cap'
        /\ Run(queue', arrived') /\ arrived' \in Frames
    BY <1>3, <2>1, EnqueueRun, NextFrameType DEF Packet
  <2>3. QueueIsNewest' /\ LatencyBounded'
    BY <2>2 DEF QueueIsNewest, Run, LatencyBounded
  <2> QED
    BY <1>3, <2>2, <2>3 DEF Packet, Inv, TypeOK, ReplaysCounted, track, mixed
<1>4. ASSUME NEW t \in 0..(TargetMax + 1) \cup {NoKnob},
             NEW k \in 0..(CapMax + 1) \cup {NoKnob},
             MixerTune(t, k)
      PROVE  Inv'
  <2> DEFINE trimmed == IF t = NoKnob THEN queue ELSE Newest(queue, target')
  <2>1. /\ queue \in Seq(Frames) /\ arrived \in Frames /\ Run(queue, arrived)
        /\ cap \in 1..CapMax /\ Len(queue) <= cap /\ Len(queue) \in Nat
    BY DEF Inv, TypeOK, QueueIsNewest, Run, LatencyBounded
  <2>2. target' \in 1..TargetMax /\ cap' \in 1..CapMax
    BY <1>4 DEF MixerTune, Clamped, Inv, TypeOK, NoKnob
  <2>3. /\ trimmed \in Seq(Frames) /\ Run(trimmed, arrived)
        /\ Len(trimmed) \in Nat /\ Len(trimmed) <= cap
    <3>1. CASE t = NoKnob
      BY <2>1, <3>1
    <3>2. CASE t # NoKnob
      <4>1. /\ Newest(queue, target') \in Seq(Frames)
            /\ Len(Newest(queue, target')) <= Len(queue)
            /\ Run(Newest(queue, target'), arrived)
        BY <2>1, <2>2, NewestProps, NewestRun
      <4> QED
        BY <2>1, <3>2, <4>1
    <3> QED
      BY <3>1, <3>2
  <2>4. queue' = IF k = NoKnob THEN trimmed ELSE Newest(trimmed, cap')
    BY <1>4 DEF MixerTune, Capped
  <2> HIDE DEF trimmed
  <2>5. queue' \in Seq(Frames) /\ Run(queue', arrived) /\ Len(queue') <= cap'
    <3>1. CASE k = NoKnob
      BY <1>4, <2>3, <2>4, <3>1 DEF MixerTune
    <3>2. CASE k # NoKnob
      BY <2>1, <2>2, <2>3, <2>4, <3>2, NewestProps, NewestRun
    <3> QED
      BY <3>1, <3>2
  <2>6. QueueIsNewest' /\ LatencyBounded'
    BY <1>4, <2>5 DEF MixerTune, QueueIsNewest, Run, LatencyBounded
  <2>7. primed' \in BOOLEAN /\ tunes' \in 0..MaxTunes
    BY <1>4 DEF MixerTune, Inv, TypeOK
  <2> QED
    BY <1>4, <2>2, <2>5, <2>6, <2>7
    DEF MixerTune, Inv, TypeOK, ReplaysCounted, track, mixed
<1>5. CASE Fresh
  <2>1. /\ queue \in Seq(Frames) /\ arrived \in Frames /\ Run(queue, arrived)
        /\ queue # <<>>
    BY <1>5 DEF Fresh, Inv, TypeOK, QueueIsNewest, Run
  <2>2. /\ Head(queue) \in Frames /\ Tail(queue) \in Seq(Frames)
        /\ Len(Tail(queue)) = Len(queue) - 1 /\ Len(queue) \in Nat
        /\ Run(Tail(queue), arrived)
    BY <2>1, HeadTailProperties, TailRun
  <2>3. QueueIsNewest' /\ LatencyBounded'
    BY <1>5, <2>2 DEF Fresh, Inv, TypeOK, QueueIsNewest, Run, LatencyBounded
  <2> QED
    BY <1>5, <2>2, <2>3 DEF Fresh, Inv, TypeOK, ReplaysCounted
<1>6. CASE Conceal
  <2>1. primed' \in BOOLEAN
    BY <1>6 DEF Conceal, Inv, TypeOK
  <2>2. decay' \in 0..PlcMax /\ run' \in Nat /\ run' <= decay' + 1
    BY <1>6 DEF Conceal, Decayed, Inv, TypeOK, ReplaysCounted
  <2>3. heard' \in {"fresh", "replay", "silence"}
    BY <1>6 DEF Conceal
  <2> QED
    BY <1>6, <2>1, <2>2, <2>3
    DEF Conceal, Inv, TypeOK, QueueIsNewest, LatencyBounded, ReplaysCounted
<1>7. CASE UNCHANGED vars
  BY <1>7 DEF vars, Inv, TypeOK, QueueIsNewest, LatencyBounded, ReplaysCounted
<1> QED
  BY <1>1, <1>2, <1>3, <1>4, <1>5, <1>6, <1>7 DEF Next, MixTick

-----------------------------------------------------------------------------
(* Theorems.                                                                *)

LEMMA Invariance == Spec => []Inv
  BY InvInit, InvStep, PTL DEF Spec

\* Every knob stays within its limits and every frame is a frame.
THEOREM TypeCorrect == Spec => []TypeOK
<1>1. Inv => TypeOK
  BY DEF Inv
<1> QED
  BY <1>1, Invariance, PTL

\* jitter_queue always holds the newest frames, in order and without a gap,
\* however bursts, MIXER_TUNE, takeovers and ticks of the mixing timer interleave.
THEOREM NewestQueued == Spec => []QueueIsNewest
<1>1. Inv => QueueIsNewest
  BY DEF Inv
<1> QED
  BY <1>1, Invariance, PTL

\* jitter_queue never holds more frames than the cap, for any limits of the
\* knobs.
THEOREM NewestWithinCap == Spec => []LatencyBounded
<1>1. Inv => LatencyBounded
  BY DEF Inv
<1> QED
  BY <1>1, Invariance, PTL

\* A stalled track replays a frame in at most PLC_MAX_DECAY further ticks.
THEOREM ReplaysBounded == Spec => []RepeatBounded
<1>1. Inv => RepeatBounded
  BY PlcAssumption DEF Inv, TypeOK, ReplaysCounted, RepeatBounded
<1> QED
  BY <1>1, Invariance, PTL
=============================================================================
