-------------------------------- MODULE Tape --------------------------------
(***************************************************************************)
(* What recording a room promises: while the tape rolls, every mixed block *)
(* is appended to it; when it stops, what is kept under its name is the    *)
(* tape; only a fault may cut it, and then what is kept is its beginning.  *)
(***************************************************************************)
EXTENDS Naturals, Sequences

CONSTANTS
  Names,   \* of kept tapes
  NoName,
  Block(_) \* the samples of the n-th mixed block

VARIABLES
  tick,    \* blocks mixed
  on,      \* the name of the tape that rolls
  tape,    \* what it holds
  kept,    \* what is kept under each name
  faults

vars == <<tick, on, tape, kept, faults>>

Init ==
  /\ tick = 0 /\ on = NoName /\ tape = <<>> /\ faults = 0
  /\ kept = [t \in Names |-> <<>>]

\* A tape of the same name is overwritten.
Begin(t) ==
  /\ on = NoName /\ on' = t
  /\ tape' = <<>> /\ kept' = [kept EXCEPT ![t] = <<>>]
  /\ UNCHANGED <<tick, faults>>

Spoil(t) ==
  /\ on = NoName
  /\ kept' = [kept EXCEPT ![t] = <<>>]
  /\ faults' = faults + 1
  /\ UNCHANGED <<tick, on, tape>>

Mix ==
  /\ tick' = tick + 1
  /\ tape' = IF on = NoName THEN tape ELSE tape \o Block(tick')
  /\ UNCHANGED <<on, kept, faults>>

Finish ==
  /\ on # NoName /\ on' = NoName
  /\ tape' = <<>> /\ kept' = [kept EXCEPT ![on] = tape]
  /\ UNCHANGED <<tick, faults>>

\* A fault, possibly of the very write that a block brought on.
Cut ==
  /\ on # NoName /\ on' = NoName
  /\ faults' = faults + 1
  /\ tape' = <<>>
  /\ \/ UNCHANGED tick
        /\ \E n \in 0 .. Len(tape) : kept' = [kept EXCEPT ![on] = SubSeq(tape, 1, n)]
     \/ tick' = tick + 1
        /\ \E n \in 0 .. Len(tape \o Block(tick')) :
             kept' = [kept EXCEPT ![on] = SubSeq(tape \o Block(tick'), 1, n)]

Fault == on = NoName /\ faults' = faults + 1 /\ UNCHANGED <<tick, on, tape, kept>>

Next ==
  \/ \E t \in Names : Begin(t) \/ Spoil(t)
  \/ Mix \/ Finish \/ Cut \/ Fault

Spec == Init /\ [][Next]_vars
=============================================================================
