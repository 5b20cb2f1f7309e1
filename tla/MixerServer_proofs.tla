------------------------- MODULE MixerServer_proofs -------------------------
(***************************************************************************)
(* What holds of the mixer server for any number of connections, users and *)
(* rooms.  Whatever clients send: types, no ghost voice, no recording of   *)
(* an empty room.  If a connection joins once: no dangling connection.  If *)
(* moreover the server sees a user leave a room before it sees it join     *)
(* another: SeatHeard, and the refinement of SessionRegistry.              *)
(***************************************************************************)
EXTENDS MixerServer, TLAPS

\* What holds under no discipline.
Base == TypeOK /\ NoGhostVoice /\ RecordingFollowsUsers

\* What a client believes of its seat is tied to its connection.
SeatVoiced ==
  \A c \in Conns : seat[c] # NoSeat => tcp[c] = "open" /\ seat[c] \in voice[c]

\* An endpoint names an open connection, which holds this seat and so no other.
Seated ==
  \A r \in Rooms, u \in Users :
    ctl[r][u] # NoConn => tcp[ctl[r][u]] = "open" /\ seat[ctl[r][u]] = <<r, u>>

Inv == Base /\ SeatVoiced /\ Seated

-----------------------------------------------------------------------------
\* All that MIXER_LEAVE and clear_tcp_client do to the rooms: the tables keep
\* their types, the seats of S are vacant and no other, and the voices and the
\* recordings that remain belong to users who remain.
LEMMA EvictStep ==
  ASSUME TypeOK, NoGhostVoice, RecordingFollowsUsers,
         NEW S \in SUBSET Seats, Evict(S)
  PROVE  /\ ctl' \in [Rooms -> [Users -> Conns \cup {NoConn}]]
         /\ \A r \in Rooms, u \in Users :
              ctl'[r][u] = IF <<r, u>> \in S THEN NoConn ELSE ctl[r][u]
         /\ index' \in [Users -> Rooms \cup {NoRoom}]
         /\ rooms' \in SUBSET Rooms /\ recording' \in SUBSET Rooms
         /\ takes' \in SUBSET Rooms
         /\ queued' \in SUBSET Seats /\ tracks' \in SUBSET Seats
         /\ NoGhostVoice' /\ RecordingFollowsUsers'
<1>1. /\ ctl' \in [Rooms -> [Users -> Conns \cup {NoConn}]]
      /\ \A r \in Rooms, u \in Users :
           ctl'[r][u] = IF <<r, u>> \in S THEN NoConn ELSE ctl[r][u]
  BY DEF Evict, Vacate, TypeOK
<1>2. index' \in [Users -> Rooms \cup {NoRoom}]
  BY DEF Evict, Unindex, TypeOK
<1>3. queued' = queued \ S /\ tracks' = tracks \ S
  BY DEF Evict, Untrack
<1>4. NoGhostVoice'
  <2> SUFFICES ASSUME NEW s \in queued' \cup tracks' PROVE ctl'[s[1]][s[2]] # NoConn
    BY DEF NoGhostVoice
  <2>1. s \in Seats /\ s \notin S /\ ctl[s[1]][s[2]] # NoConn
    BY <1>3 DEF NoGhostVoice, TypeOK
  <2>2. s[1] \in Rooms /\ s[2] \in Users /\ s = <<s[1], s[2]>>
    BY <2>1 DEF Seats
  <2> QED
    BY <1>1, <2>1, <2>2
<1> DEFINE emptied == {r \in rooms :
                         /\ \E u \in Users : <<r, u>> \in S
                         /\ \A u \in Users : ctl'[r][u] = NoConn}
<1>5. /\ rooms' = rooms \ emptied /\ recording' = recording \ emptied
      /\ takes' = takes \ (emptied \cap recording)
  BY DEF Evict, Discard
<1>6. ASSUME NEW r \in Rooms
      PROVE  r \in rooms' <=> \E u \in Users : ctl'[r][u] # NoConn
  <2>1. r \in rooms <=> \E u \in Users : ctl[r][u] # NoConn
    BY DEF RecordingFollowsUsers
  <2>2. CASE \E u \in Users : <<r, u>> \in S
    BY <1>1, <1>5, <2>1, <2>2
  <2>3. CASE ~\E u \in Users : <<r, u>> \in S
    BY <1>1, <1>5, <2>1, <2>3
  <2> QED
    BY <2>2, <2>3
<1> HIDE DEF emptied
<1>7. takes' = recording' /\ recording' \subseteq rooms'
  BY <1>5 DEF RecordingFollowsUsers
<1>8. RecordingFollowsUsers'
  BY <1>6, <1>7 DEF RecordingFollowsUsers
<1> QED
  BY <1>1, <1>2, <1>3, <1>4, <1>5, <1>8 DEF TypeOK

LEMMA InvInit == Init => Inv
<1> SUFFICES ASSUME Init PROVE Inv
  OBVIOUS
<1>1. TypeOK
  BY DEF Init, Nothing, TypeOK
<1>2. SeatVoiced
  BY DEF Init, SeatVoiced
<1>3. Seated
  BY DEF Init, Nothing, Seated
<1>4. NoGhostVoice
  BY DEF Init, Nothing, NoGhostVoice
<1>5. RecordingFollowsUsers
  BY DEF Init, Nothing, RecordingFollowsUsers
<1> QED
  BY <1>1, <1>2, <1>3, <1>4, <1>5 DEF Inv, Base

\* What MIXER_JOIN does to the endpoints.
LEMMA JoinTables ==
  ASSUME TypeOK, NEW c \in Conns, NEW r \in Rooms, NEW u \in Users, MixerJoin(c, r, u)
  PROVE  /\ ctl' \in [Rooms -> [Users -> Conns \cup {NoConn}]]
         /\ ctl'[r][u] = c
         /\ \A q \in Rooms, v \in Users : <<q, v>> # <<r, u>> => ctl'[q][v] = ctl[q][v]
BY DEF MixerJoin, TypeOK

\* MIXER_JOIN adds a user to a room, with nothing queued.
LEMMA JoinBase ==
  ASSUME Base, NEW c \in Conns, NEW r \in Rooms, NEW u \in Users, MixerJoin(c, r, u)
  PROVE  Base'
<1> USE DEF Base
<1>1. /\ ctl' \in [Rooms -> [Users -> Conns \cup {NoConn}]]
      /\ ctl'[r][u] = c
      /\ \A q \in Rooms, v \in Users : <<q, v>> # <<r, u>> => ctl'[q][v] = ctl[q][v]
  BY JoinTables
<1>2. TypeOK'
  <2>1. tcp' \in [Conns -> {"free", "open", "closing"}]
    BY DEF MixerJoin, TypeOK
  <2>2. seat' \in [Conns -> Seats \cup {NoSeat}]
    BY DEF MixerJoin, TypeOK, Seats
  <2>3. voice' \in [Conns -> SUBSET Seats]
    BY DEF MixerJoin, TypeOK, Seats
  <2>4. index' \in [Users -> Rooms \cup {NoRoom}]
    BY DEF MixerJoin, Reindex, TypeOK
  <2>5. /\ rooms' \in SUBSET Rooms /\ queued' \in SUBSET Seats /\ tracks' \in SUBSET Seats
        /\ recording' \in SUBSET Rooms /\ takes' \in SUBSET Rooms
    BY DEF MixerJoin, TypeOK
  <2> QED
    BY <1>1, <2>1, <2>2, <2>3, <2>4, <2>5 DEF TypeOK
<1>3. NoGhostVoice'
  <2> SUFFICES ASSUME NEW s \in queued' \cup tracks' PROVE ctl'[s[1]][s[2]] # NoConn
    BY DEF NoGhostVoice
  <2>1. s \in queued \cup tracks /\ s \in Seats /\ ctl[s[1]][s[2]] # NoConn
    BY DEF MixerJoin, NoGhostVoice, TypeOK
  <2>2. s[1] \in Rooms /\ s[2] \in Users /\ s = <<s[1], s[2]>>
    BY <2>1 DEF Seats
  <2> QED
    BY <1>1, <2>1, <2>2, ConnAssumption
<1>4. RecordingFollowsUsers'
  <2>1. \A q \in Rooms : q \in rooms' <=> \E v \in Users : ctl'[q][v] # NoConn
    <3> SUFFICES ASSUME NEW q \in Rooms
                 PROVE  q \in rooms' <=> \E v \in Users : ctl'[q][v] # NoConn
      OBVIOUS
    <3>1. q \in rooms <=> \E v \in Users : ctl[q][v] # NoConn
      BY DEF RecordingFollowsUsers
    <3>2. rooms' = rooms \cup {r}
      BY DEF MixerJoin
    <3>3. CASE q = r
      BY <1>1, <3>2, <3>3, ConnAssumption
    <3>4. CASE q # r
      BY <1>1, <3>1, <3>2, <3>4
    <3> QED
      BY <3>3, <3>4
  <2>2. takes' = recording' /\ recording' \subseteq rooms'
    BY DEF MixerJoin, RecordingFollowsUsers
  <2> QED
    BY <2>1, <2>2 DEF RecordingFollowsUsers
<1> QED
  BY <1>2, <1>3, <1>4

\* MIXER_JOIN closes the connection it displaces without looking for its other
\* seats: it has none, if a connection joins once.
LEMMA JoinSeated ==
  ASSUME OwnSeat, Inv, NEW c \in Conns, NEW r \in Rooms, NEW u \in Users, MixerJoin(c, r, u)
  PROVE  SeatVoiced' /\ Seated'
<1> USE DEF Inv, Base
<1> DEFINE D == Displaced(c, r, u)
<1>1. /\ ctl' \in [Rooms -> [Users -> Conns \cup {NoConn}]]
      /\ ctl'[r][u] = c
      /\ \A q \in Rooms, v \in Users : <<q, v>> # <<r, u>> => ctl'[q][v] = ctl[q][v]
  BY JoinTables
<1>2. /\ tcp' = [x \in Conns |-> IF x \in D THEN "closing" ELSE tcp[x]]
      /\ seat' = [x \in Conns |-> IF x = c THEN <<r, u>>
                                  ELSE IF x \in D THEN NoSeat ELSE seat[x]]
      /\ voice' = [voice EXCEPT ![c] = @ \cup {<<r, u>>}]
      /\ \A x \in D : x = ctl[r][u] /\ x # c
  BY DEF MixerJoin, Displaced
<1> HIDE DEF D
<1>3. tcp[c] = "open" /\ voice[c] = {} /\ seat[c] = NoSeat /\ c \notin D
  BY <1>2 DEF MixerJoin, SeatVoiced, TypeOK
<1>4. SeatVoiced'
  BY <1>2, <1>3 DEF SeatVoiced, TypeOK
<1>5. Seated'
  <2> SUFFICES ASSUME NEW q \in Rooms, NEW v \in Users, ctl'[q][v] # NoConn
               PROVE  /\ tcp'[ctl'[q][v]] = "open"
                      /\ seat'[ctl'[q][v]] = <<q, v>>
    BY DEF Seated
  <2>1. CASE <<q, v>> = <<r, u>>
    BY <1>1, <1>2, <1>3, <2>1
  <2>2. CASE <<q, v>> # <<r, u>>
    <3> DEFINE x == ctl[q][v]
    <3>1. ctl'[q][v] = x /\ x # NoConn /\ x \in Conns
      BY <1>1, <2>2 DEF TypeOK
    <3>2. tcp[x] = "open" /\ seat[x] = <<q, v>>
      BY <3>1 DEF Seated
    <3>3. x # c
      BY <1>3, <3>2, SeatAssumption, SMTT(30)
    <3>4. ASSUME x \in D PROVE FALSE
      <4>1. x = ctl[r][u]
        BY <1>2, <3>4
      <4>2. seat[x] = <<r, u>>
        BY <3>1, <4>1 DEF Seated
      <4> QED
        BY <2>2, <3>2, <4>2
    <3> QED
      BY <1>2, <3>1, <3>2, <3>3, <3>4
  <2> QED
    BY <2>1, <2>2
<1> QED
  BY <1>4, <1>5

\* The end of a connection, noticed by on_tcp_read.
LEMMA HangupBase ==
  ASSUME Base, NEW c \in Conns, Hangup(c)
  PROVE  Base'
<1> USE DEF Base
<1>1. HeldBy(c) \in SUBSET Seats /\ Evict(HeldBy(c))
  BY DEF HeldBy, Hangup
<1>2. /\ tcp' = [tcp EXCEPT ![c] = "closing"]
      /\ seat' = [seat EXCEPT ![c] = NoSeat]
      /\ voice' = voice
  BY DEF Hangup
<1>3. NoGhostVoice' /\ RecordingFollowsUsers'
  BY <1>1, EvictStep
<1>4. TypeOK'
  BY <1>1, <1>2, EvictStep DEF TypeOK
<1> QED
  BY <1>3, <1>4

\* clear_tcp_client forgets the connection wherever it is named.
LEMMA HangupSeated ==
  ASSUME Inv, NEW c \in Conns, Hangup(c)
  PROVE  SeatVoiced' /\ Seated'
<1> USE DEF Inv, Base
<1>1. HeldBy(c) \in SUBSET Seats /\ Evict(HeldBy(c))
  BY DEF HeldBy, Hangup
<1>2. /\ tcp' = [tcp EXCEPT ![c] = "closing"]
      /\ seat' = [seat EXCEPT ![c] = NoSeat]
      /\ voice' = voice
  BY DEF Hangup
<1>3. SeatVoiced'
  BY <1>2 DEF SeatVoiced, TypeOK
<1>4. Seated'
  <2> SUFFICES ASSUME NEW q \in Rooms, NEW v \in Users, ctl'[q][v] # NoConn
               PROVE  /\ tcp'[ctl'[q][v]] = "open"
                      /\ seat'[ctl'[q][v]] = <<q, v>>
    BY DEF Seated
  <2>1. ctl'[q][v] = IF <<q, v>> \in HeldBy(c) THEN NoConn ELSE ctl[q][v]
    BY <1>1, EvictStep
  <2>2. ctl'[q][v] = ctl[q][v] /\ ctl[q][v] # c /\ ctl[q][v] \in Conns
    BY <2>1 DEF HeldBy, Seats, TypeOK
  <2>3. tcp[ctl[q][v]] = "open" /\ seat[ctl[q][v]] = <<q, v>>
    BY <2>2 DEF Seated
  <2> QED
    BY <1>2, <2>2, <2>3 DEF TypeOK
<1> QED
  BY <1>3, <1>4

\* MIXER_LEAVE.
LEMMA LeaveBase ==
  ASSUME Base, NEW c \in Conns, NEW r \in Rooms, NEW u \in Users, MixerLeave(c, r, u)
  PROVE  Base'
<1> USE DEF Base
<1>1. tcp' = tcp /\ voice' = voice /\ seat' \in [Conns -> Seats \cup {NoSeat}]
  BY DEF MixerLeave, TypeOK
<1>2. CASE r \in rooms
  <2>1. {<<r, u>>} \in SUBSET Seats /\ Evict({<<r, u>>})
    BY <1>2 DEF MixerLeave, Seats
  <2>2. NoGhostVoice' /\ RecordingFollowsUsers'
    BY <2>1, EvictStep
  <2>3. TypeOK'
    BY <1>1, <2>1, EvictStep DEF TypeOK
  <2> QED
    BY <2>2, <2>3
<1>3. CASE r \notin rooms
  <2>1. UNCHANGED serverVars
    BY <1>3 DEF MixerLeave
  <2>2. TypeOK'
    BY <1>1, <2>1 DEF TypeOK, serverVars
  <2>3. NoGhostVoice' /\ RecordingFollowsUsers'
    BY <2>1 DEF NoGhostVoice, RecordingFollowsUsers, serverVars
  <2> QED
    BY <2>2, <2>3
<1> QED
  BY <1>2, <1>3

LEMMA LeaveSeated ==
  ASSUME OwnSeat, Inv, NEW c \in Conns, NEW r \in Rooms, NEW u \in Users,
         MixerLeave(c, r, u)
  PROVE  SeatVoiced' /\ Seated'
<1> USE DEF Inv, Base
<1>1. /\ tcp' = tcp /\ voice' = voice
      /\ seat' = [seat EXCEPT ![c] = NoSeat]
      /\ seat[c] = <<r, u>>
  BY DEF MixerLeave, TypeOK
<1>2. SeatVoiced'
  BY <1>1 DEF SeatVoiced, TypeOK
<1>3. \A q \in Rooms, v \in Users :
        ctl'[q][v] # NoConn => ctl'[q][v] = ctl[q][v] /\ <<q, v>> # <<r, u>>
  <2>1. CASE r \in rooms
    <3>1. {<<r, u>>} \in SUBSET Seats /\ Evict({<<r, u>>})
      BY <2>1 DEF MixerLeave, Seats
    <3>2. \A q \in Rooms, v \in Users :
            ctl'[q][v] = IF <<q, v>> \in {<<r, u>>} THEN NoConn ELSE ctl[q][v]
      BY <3>1, EvictStep
    <3> QED
      BY <3>2
  <2>2. CASE r \notin rooms
    <3>1. ctl' = ctl
      BY <2>2 DEF MixerLeave, serverVars
    <3>2. \A v \in Users : ctl[r][v] = NoConn
      BY <2>2 DEF RecordingFollowsUsers
    <3> QED
      BY <3>1, <3>2
  <2> QED
    BY <2>1, <2>2
<1>4. Seated'
  <2> SUFFICES ASSUME NEW q \in Rooms, NEW v \in Users, ctl'[q][v] # NoConn
               PROVE  /\ tcp'[ctl'[q][v]] = "open"
                      /\ seat'[ctl'[q][v]] = <<q, v>>
    BY DEF Seated
  <2>1. ctl'[q][v] = ctl[q][v] /\ <<q, v>> # <<r, u>> /\ ctl[q][v] \in Conns
    BY <1>3 DEF TypeOK
  <2>2. tcp[ctl[q][v]] = "open" /\ seat[ctl[q][v]] = <<q, v>>
    BY <2>1 DEF Seated
  <2>3. ctl[q][v] # c
    BY <1>1, <2>1, <2>2
  <2> QED
    BY <1>1, <2>1, <2>2, <2>3 DEF TypeOK
<1> QED
  BY <1>2, <1>4

\* Accepting a connection and freeing one touch no room.
LEMMA HandleTables ==
  ASSUME TypeOK, NEW c \in Conns, Connect(c) \/ OnClose(c)
  PROVE  /\ UNCHANGED serverVars /\ seat' = seat /\ tcp[c] # "open"
         /\ tcp' = [tcp EXCEPT ![c] = tcp'[c]] /\ tcp'[c] \in {"free", "open", "closing"}
         /\ voice' = [voice EXCEPT ![c] = voice'[c]] /\ voice'[c] \in SUBSET Seats
BY DEF Connect, OnClose, TypeOK

LEMMA HandleBase ==
  ASSUME Base, NEW c \in Conns, Connect(c) \/ OnClose(c)
  PROVE  Base'
<1> USE DEF Base
<1>1. TypeOK'
  BY HandleTables DEF TypeOK, serverVars
<1>2. NoGhostVoice' /\ RecordingFollowsUsers'
  BY HandleTables DEF NoGhostVoice, RecordingFollowsUsers, serverVars
<1> QED
  BY <1>1, <1>2

\* No room points to a connection that is accepted or freed.
LEMMA HandleSeated ==
  ASSUME Inv, NEW c \in Conns, Connect(c) \/ OnClose(c)
  PROVE  SeatVoiced' /\ Seated'
<1> USE DEF Inv, Base
<1>1. SeatVoiced'
  BY HandleTables DEF SeatVoiced, TypeOK
<1>2. Seated'
  BY HandleTables DEF Seated, TypeOK, serverVars
<1> QED
  BY <1>1, <1>2

\* A datagram reaches no one but a user who is in the room, a tick mixes no one
\* but a user who was queued.
LEMMA AudioBase ==
  ASSUME Base, (\E c \in Conns : Audio(c)) \/ MixTick
  PROVE  Base'
<1> USE DEF Base
<1>1. UNCHANGED <<tcp, ctl, index, rooms, recording, takes, seat, voice>>
  BY DEF Audio, MixTick
<1>2. \A s \in queued' \cup tracks' :
        s \in queued \cup tracks \/ (s \in Seats /\ ctl[s[1]][s[2]] # NoConn)
  <2>1. ASSUME NEW c \in Conns, Audio(c)
        PROVE  tracks' = tracks /\ \E s \in voice[c] : queued' = queued \cup Routed(s[2])
    BY <2>1 DEF Audio
  <2>2. ASSUME NEW u, NEW s \in Routed(u)
        PROVE  s \in Seats /\ ctl[s[1]][s[2]] # NoConn
    BY <2>2 DEF Routed
  <2>3. ASSUME MixTick
        PROVE  queued' \subseteq queued /\ tracks' \subseteq queued \cup tracks
    BY <2>3 DEF MixTick
  <2> QED
    BY <2>1, <2>2, <2>3
<1>3. NoGhostVoice'
  BY <1>1, <1>2 DEF NoGhostVoice
<1>4. queued' \in SUBSET Seats /\ tracks' \in SUBSET Seats
  BY <1>2 DEF TypeOK
<1>5. TypeOK'
  BY <1>1, <1>4 DEF TypeOK
<1> QED
  BY <1>1, <1>3, <1>5 DEF RecordingFollowsUsers

LEMMA RestartBase == Base /\ Restart => Base'
<1> SUFFICES ASSUME Base, Restart PROVE Base'
  OBVIOUS
<1>1. TypeOK'
  BY DEF Base, Restart, TypeOK
<1>2. NoGhostVoice' /\ RecordingFollowsUsers'
  BY DEF Restart, NoGhostVoice, RecordingFollowsUsers
<1> QED
  BY <1>1, <1>2 DEF Base

\* What holds whatever clients send.
LEMMA BaseStep == Base /\ [Next]_vars => Base'
<1> SUFFICES ASSUME Base, [Next]_vars PROVE Base'
  OBVIOUS
<1>1. CASE UNCHANGED vars
  BY <1>1 DEF vars, Base, TypeOK, NoGhostVoice, RecordingFollowsUsers
<1> QED
  BY <1>1, JoinBase, HangupBase, LeaveBase, HandleBase, AudioBase, RestartBase DEF Next

LEMMA BaseInvariance == Spec => []Base
<1>1. Init => Base
  BY InvInit DEF Inv
<1> QED
  BY <1>1, BaseStep, PTL DEF Spec

\* What holds if a connection joins once.
LEMMA InvStep == OwnSeat /\ Inv /\ [Next]_vars => Inv'
<1> SUFFICES ASSUME OwnSeat, Inv, [Next]_vars PROVE Inv'
  OBVIOUS
<1>1. Base'
  BY BaseStep DEF Inv
<1>2. CASE UNCHANGED vars \/ (\E c \in Conns : Audio(c)) \/ MixTick
  <2>1. UNCHANGED <<tcp, ctl, seat, voice>>
    BY <1>2 DEF vars, Audio, MixTick
  <2> QED
    BY <1>1, <2>1 DEF Inv, SeatVoiced, Seated
<1>3. CASE Restart
  BY <1>1, <1>3 DEF Restart, Inv, SeatVoiced, Seated
<1>4. CASE \E c \in Conns : \/ Connect(c) \/ Hangup(c) \/ OnClose(c)
                           \/ \E r \in Rooms, u \in Users : MixerJoin(c, r, u) \/ MixerLeave(c, r, u)
  BY <1>1, <1>4, JoinSeated, HangupSeated, LeaveSeated, HandleSeated DEF Inv
<1> QED
  BY <1>2, <1>3, <1>4 DEF Next

LEMMA Invariance == OwnSeat => (Spec => []Inv)
<1> SUFFICES ASSUME OwnSeat PROVE Spec => []Inv
  OBVIOUS
<1>1. Inv /\ [Next]_vars => Inv'
  BY InvStep
<1> QED
  BY <1>1, InvInit, PTL DEF Spec

-----------------------------------------------------------------------------
(* The seat of a session, for users in one room at a time.                  *)

\* A user the server knows in two rooms is the hazard: here there is none, as
\* the index names only one of them.
LEMMA SeatStep == OneRoom /\ OwnSeat /\ Inv /\ SeatHeard /\ [Next]_vars => SeatHeard'
<1> SUFFICES ASSUME OneRoom, OwnSeat, Inv, SeatHeard, [Next]_vars,
                    NEW c \in Conns, NEW r \in Rooms, NEW u \in Users,
                    tcp'[c] = "open", seat'[c] = <<r, u>>
             PROVE  ctl'[r][u] = c /\ index'[u] = r
  BY DEF SeatHeard
<1> USE DEF Inv, Base
<1>0. <<r, u>> # NoSeat
  BY SeatAssumption
<1>1. ASSUME tcp[c] = "open", seat[c] = <<r, u>>
      PROVE  ctl[r][u] = c /\ index[u] = r
  BY <1>1 DEF SeatHeard
<1>2. ASSUME NEW x \in Conns, NEW q \in Rooms, NEW v \in Users, MixerJoin(x, q, v)
      PROVE  ctl'[r][u] = c /\ index'[u] = r
  <2>1. /\ ctl' = [ctl EXCEPT ![q][v] = x]
        /\ index' = [index EXCEPT ![v] = q]
        /\ \A p \in Rooms \ {q} : ctl[p][v] = NoConn
    BY <1>2 DEF MixerJoin, Reindex, NowhereElse
  <2>2. CASE c = x
    <3>1. seat'[c] = <<q, v>>
      BY <1>2, <2>2 DEF MixerJoin, TypeOK
    <3> QED
      BY <2>1, <2>2, <3>1 DEF TypeOK
  <2>3. CASE c # x
    <3>1. c \notin Displaced(x, q, v) /\ seat[c] = <<r, u>> /\ tcp[c] = "open"
      BY <1>0, <1>2, <2>3 DEF MixerJoin, TypeOK
    <3>2. ctl[r][u] = c /\ index[u] = r
      BY <1>1, <3>1
    <3>3. v # u
      <4> SUFFICES ASSUME v = u PROVE FALSE
        OBVIOUS
      <4>1. CASE q = r
        BY <2>3, <3>1, <3>2, <4>1, ConnAssumption DEF Displaced
      <4>2. CASE q # r
        BY <2>1, <3>2, <4>2, ConnAssumption
      <4> QED
        BY <4>1, <4>2
    <3> QED
      BY <2>1, <3>2, <3>3 DEF TypeOK
  <2> QED
    BY <2>2, <2>3
<1>3. ASSUME NEW S \in SUBSET Seats, Evict(S), ctl[r][u] = c, index[u] = r,
             <<r, u>> \notin S,
             \A q \in Rooms : <<q, u>> \in S => ctl[q][u] # NoConn
      PROVE  ctl'[r][u] = c /\ index'[u] = r
  <2>1. ctl'[r][u] = c
    BY <1>3, EvictStep
  <2>2. ASSUME NEW q \in Rooms, <<q, u>> \in S PROVE FALSE
    <3>1. ctl[q][u] \in Conns /\ tcp[ctl[q][u]] = "open" /\ seat[ctl[q][u]] = <<q, u>>
      BY <1>3, <2>2 DEF Seated, TypeOK
    <3>2. index[u] = q
      BY <3>1 DEF SeatHeard
    <3> QED
      BY <1>3, <2>2, <3>2
  <2>3. index'[u] = index[u]
    BY <1>3, <2>2 DEF Evict, Unindex, TypeOK
  <2> QED
    BY <1>3, <2>1, <2>3
<1>4. ASSUME NEW x \in Conns, Hangup(x)
      PROVE  ctl'[r][u] = c /\ index'[u] = r
  <2>1. c # x /\ seat[c] = <<r, u>> /\ tcp[c] = "open"
    BY <1>0, <1>4 DEF Hangup, TypeOK
  <2>2. ctl[r][u] = c /\ index[u] = r
    BY <1>1, <2>1
  <2>3. /\ HeldBy(x) \in SUBSET Seats /\ Evict(HeldBy(x)) /\ <<r, u>> \notin HeldBy(x)
        /\ \A q \in Rooms : <<q, u>> \in HeldBy(x) => ctl[q][u] # NoConn
    BY <1>4, <2>1, <2>2, ConnAssumption DEF Hangup, HeldBy
  <2> QED
    BY <1>3, <2>2, <2>3
<1>5. ASSUME NEW x \in Conns, NEW q \in Rooms, NEW v \in Users, MixerLeave(x, q, v)
      PROVE  ctl'[r][u] = c /\ index'[u] = r
  <2>1. c # x /\ seat[c] = <<r, u>> /\ tcp[c] = "open"
    BY <1>0, <1>5 DEF MixerLeave, TypeOK
  <2>2. ctl[r][u] = c /\ index[u] = r
    BY <1>1, <2>1
  <2>3. seat[x] = <<q, v>> /\ tcp[x] = "open"
    BY <1>5 DEF MixerLeave
  <2>4. ctl[q][v] = x
    BY <2>3 DEF SeatHeard
  <2>5. CASE q \in rooms
    <3>1. {<<q, v>>} \in SUBSET Seats /\ Evict({<<q, v>>})
      BY <1>5, <2>5 DEF MixerLeave, Seats
    <3>2. <<r, u>> \notin {<<q, v>>}
      BY <2>1, <2>2, <2>4
    <3>3. \A p \in Rooms : <<p, u>> \in {<<q, v>>} => ctl[p][u] # NoConn
      BY <2>4, ConnAssumption
    <3> QED
      BY <1>3, <2>2, <3>1, <3>2, <3>3
  <2>6. CASE q \notin rooms
    BY <1>5, <2>2, <2>6 DEF MixerLeave, serverVars
  <2> QED
    BY <2>5, <2>6
<1>6. ASSUME NEW x \in Conns, Connect(x) \/ OnClose(x)
      PROVE  ctl'[r][u] = c /\ index'[u] = r
  <2>1. seat' = seat /\ UNCHANGED serverVars /\ tcp[x] # "open"
    BY <1>6 DEF Connect, OnClose
  <2>2. tcp[c] = "open"
    BY <1>0, <2>1 DEF SeatVoiced
  <2> QED
    BY <1>1, <2>1, <2>2 DEF serverVars
<1>7. ASSUME (\E x \in Conns : Audio(x)) \/ MixTick \/ UNCHANGED vars
      PROVE  ctl'[r][u] = c /\ index'[u] = r
  BY <1>1, <1>7 DEF Audio, MixTick, vars
<1>8. ~Restart
  BY <1>0 DEF Restart
<1> QED
  BY <1>2, <1>4, <1>5, <1>6, <1>7, <1>8 DEF Next

-----------------------------------------------------------------------------
(* Theorems.                                                                *)

\* The tables of mixer_server.cpp keep their types, whatever clients send.
THEOREM TypeCorrect == Spec => []TypeOK
<1>1. Base => TypeOK
  BY DEF Base
<1> QED
  BY <1>1, BaseInvariance, PTL

\* If a connection joins once, broadcast_levels never writes to one that is
\* closing, freed or another session's, although a takeover closes one without
\* clear_tcp_client, whatever rooms the users are in.
THEOREM NeverDangling == OwnSeat => (Spec => []NoDanglingTcp)
<1> SUFFICES ASSUME OwnSeat PROVE Spec => []NoDanglingTcp
  OBVIOUS
<1>1. Inv => NoDanglingTcp
  <2> SUFFICES ASSUME Inv, NEW r \in Rooms, NEW u \in Users, ctl[r][u] # NoConn
               PROVE  tcp[ctl[r][u]] = "open" /\ <<r, u>> \in voice[ctl[r][u]]
    BY DEF NoDanglingTcp
  <2>1. /\ ctl[r][u] \in Conns /\ tcp[ctl[r][u]] = "open"
        /\ seat[ctl[r][u]] = <<r, u>> /\ <<r, u>> # NoSeat
    BY SeatAssumption DEF Inv, Base, TypeOK, Seated
  <2> QED
    BY <2>1 DEF Inv, SeatVoiced
<1> QED
  BY <1>1, Invariance, PTL

\* Nothing queued and no track outlives its user in a room: what late datagrams,
\* takeovers and evictions leave behind is never a voice nobody owns.
THEOREM NothingOutlivesUsers == Spec => []NoGhostVoice
<1>1. Base => NoGhostVoice
  BY DEF Base
<1> QED
  BY <1>1, BaseInvariance, PTL

\* No room and no recording outlives its last user, on either way out, and a
\* room is recorded exactly while a recorder is kept for it.
THEOREM RecordingsEnd == Spec => []RecordingFollowsUsers
<1>1. Base => RecordingFollowsUsers
  BY DEF Base
<1> QED
  BY <1>1, BaseInvariance, PTL

\* For users in one room and connections with one session, the session that was acknowledged last holds
\* the seat and is found by user_room_index_, through takeovers, closes in any
\* order and late datagrams.
THEOREM SeatsAreHeard == OneRoom /\ OwnSeat => (Spec => []SeatHeard)
<1> SUFFICES ASSUME OneRoom, OwnSeat PROVE Spec => []SeatHeard
  OBVIOUS
<1>1. Init => SeatHeard
  BY DEF Init, SeatHeard
<1>2. Inv /\ SeatHeard /\ [Next]_vars => SeatHeard'
  BY SeatStep
<1> QED
  BY <1>1, <1>2, Invariance, PTL DEF Spec

-----------------------------------------------------------------------------
(* The registry.  For users in one room at a time the mixer implements the   *)
(* SessionRegistry the signaling server implements, although it finds a       *)
(* session through user_room_index_ and its rooms through Room::users.        *)

\* The session and the rooms of each user, as the refinement maps them.
Holders == [u \in Users |-> Holder(u)]
InRooms == [u \in Users |-> {r \in Rooms : ctl[r][u] # NoConn}]

\* The index names the one room a user is in.
LEMMA IndexNamesRoom ==
  ASSUME Inv, SeatHeard, NEW r \in Rooms, NEW u \in Users, ctl[r][u] # NoConn
  PROVE  index[u] = r /\ ctl[r][u] \in Conns
BY DEF Inv, Base, Seated, SeatHeard, TypeOK

\* What a step does to the endpoints and the index entry of a user is all that
\* the registry sees of it.
LEMMA OthersUntouched ==
  ASSUME NEW v \in Users, index'[v] = index[v],
         \A q \in Rooms : ctl'[q][v] = ctl[q][v],
         index[v] \in Rooms \cup {NoRoom}
  PROVE  Holders'[v] = Holders[v] /\ InRooms'[v] = InRooms[v]
BY DEF Holders, InRooms, Holder

LEMMA JoinImplements ==
  ASSUME OneRoom, Inv, NEW c \in Conns, NEW r \in Rooms, NEW u \in Users, MixerJoin(c, r, u)
  PROVE  Registry!Enter(c, u, r)
<1> USE DEF Inv, Base, TypeOK
<1>1. /\ ctl' = [ctl EXCEPT ![r][u] = c]
      /\ index' = [index EXCEPT ![u] = r]
      /\ \A q \in Rooms \ {r} : ctl[q][u] = NoConn
  BY DEF MixerJoin, Reindex, NowhereElse
<1>2. InRooms[u] \subseteq {r}
  BY <1>1 DEF InRooms
<1>3. Holders'[u] = c /\ InRooms'[u] = {r}
  <2>1. index'[u] = r /\ ctl'[r][u] = c /\ r # NoRoom /\ c # NoConn
    BY <1>1, RoomAssumption, ConnAssumption
  <2>2. \A q \in Rooms \ {r} : ctl'[q][u] = NoConn
    BY <1>1
  <2> QED BY <2>1, <2>2 DEF Holders, InRooms, Holder
<1>4. ASSUME NEW v \in Users \ {u}
      PROVE  Holders'[v] = Holders[v] /\ InRooms'[v] = InRooms[v]
  <2>1. index'[v] = index[v] /\ \A q \in Rooms : ctl'[q][v] = ctl[q][v]
    BY <1>1
  <2> QED BY <2>1, OthersUntouched
<1>5. Holders' = [Holders EXCEPT ![u] = c]
  BY <1>3, <1>4 DEF Holders
<1>6. InRooms' = [InRooms EXCEPT ![u] = {r}]
  BY <1>3, <1>4 DEF InRooms
<1> QED
  BY <1>2, <1>5, <1>6 DEF Registry!Enter, Holders, InRooms

\* Either way out of a room, for the one seat it empties.
LEMMA EvictImplements ==
  ASSUME Inv, SeatHeard, NEW r \in Rooms, NEW u \in Users,
         ctl[r][u] # NoConn, Evict({<<r, u>>})
  PROVE  Registry!End(u)
<1> USE DEF Inv, Base, TypeOK
<1>1. {<<r, u>>} \in SUBSET Seats
  BY DEF Seats
<1>2. \A q \in Rooms, v \in Users :
        ctl'[q][v] = IF <<q, v>> \in {<<r, u>>} THEN NoConn ELSE ctl[q][v]
  BY <1>1, EvictStep
<1>3. index'[u] = NoRoom /\ \A v \in Users \ {u} : index'[v] = index[v]
  BY DEF Evict, Unindex
<1>4. \A q \in Rooms : ctl'[q][u] = NoConn
  BY <1>2, IndexNamesRoom
<1>5. Holders[u] # NoConn
  BY IndexNamesRoom, RoomAssumption DEF Holders, Holder
<1>6. Holders'[u] = NoConn /\ InRooms'[u] = {}
  BY <1>3, <1>4 DEF Holders, InRooms, Holder
<1>7. ASSUME NEW v \in Users \ {u}
      PROVE  Holders'[v] = Holders[v] /\ InRooms'[v] = InRooms[v]
  <2>1. index'[v] = index[v] /\ \A q \in Rooms : ctl'[q][v] = ctl[q][v]
    BY <1>2, <1>3
  <2> QED BY <2>1, OthersUntouched
<1>8. Holders' = [Holders EXCEPT ![u] = NoConn]
  BY <1>6, <1>7 DEF Holders
<1>9. InRooms' = [InRooms EXCEPT ![u] = {}]
  BY <1>6, <1>7 DEF InRooms
<1> QED
  BY <1>5, <1>8, <1>9 DEF Registry!End, Holders, InRooms

\* clear_tcp_client finds at most one seat: the one the connection was given.
LEMMA HangupImplements ==
  ASSUME Inv, SeatHeard, NEW c \in Conns, Hangup(c)
  PROVE  (\E u \in Users : Registry!End(u)) \/ (Holders' = Holders /\ InRooms' = InRooms)
<1> USE DEF Inv, Base, TypeOK
<1>1. Evict(HeldBy(c)) /\ HeldBy(c) \in SUBSET Seats
  BY DEF Hangup, HeldBy
<1>2. CASE HeldBy(c) = {}
  <2>1. \A q \in Rooms, v \in Users : ctl'[q][v] = ctl[q][v]
    <3>1. \A q \in Rooms, v \in Users :
            ctl'[q][v] = IF <<q, v>> \in HeldBy(c) THEN NoConn ELSE ctl[q][v]
      BY <1>1, EvictStep
    <3> QED BY <1>2, <3>1
  <2>2. \A v \in Users : index'[v] = index[v]
    BY <1>1, <1>2 DEF Evict, Unindex
  <2>3. \A v \in Users : Holders'[v] = Holders[v] /\ InRooms'[v] = InRooms[v]
    BY <2>1, <2>2, OthersUntouched
  <2> QED BY <2>3 DEF Holders, InRooms
<1>3. CASE HeldBy(c) # {}
  <2>1. PICK r \in Rooms, u \in Users : <<r, u>> \in HeldBy(c)
    <3>1. PICK s \in Seats : s \in HeldBy(c)
      BY <1>1, <1>3
    <3>2. s[1] \in Rooms /\ s[2] \in Users /\ s = <<s[1], s[2]>>
      BY <3>1 DEF Seats
    <3> QED BY <3>1, <3>2
  <2>2. ctl[r][u] = c /\ ctl[r][u] # NoConn /\ seat[c] = <<r, u>>
    BY <2>1, ConnAssumption DEF HeldBy, Seated
  <2>3. HeldBy(c) = {<<r, u>>}
    <3> SUFFICES ASSUME NEW s \in HeldBy(c) PROVE s = <<r, u>>
      BY <2>1
    <3>1. s \in Seats /\ ctl[s[1]][s[2]] = c
      BY DEF HeldBy
    <3>2. s[1] \in Rooms /\ s[2] \in Users /\ s = <<s[1], s[2]>>
      BY <3>1 DEF Seats
    <3> QED BY <2>2, <3>1, <3>2, ConnAssumption DEF Seated
  <2> QED BY <1>1, <2>2, <2>3, EvictImplements
<1> QED BY <1>2, <1>3

\* The seat a client leaves is its user's: the room exists and is emptied of it.
LEMMA LeaveImplements ==
  ASSUME OwnSeat, Inv, SeatHeard, NEW c \in Conns, NEW r \in Rooms, NEW u \in Users,
         MixerLeave(c, r, u)
  PROVE  Registry!End(u)
<1>1. ctl[r][u] = c /\ ctl[r][u] # NoConn
  BY ConnAssumption DEF MixerLeave, SeatHeard
<1>2. r \in rooms
  BY <1>1 DEF Inv, Base, RecordingFollowsUsers
<1> QED
  BY <1>1, <1>2, EvictImplements DEF MixerLeave

LEMMA RegistryStep ==
  ASSUME OneRoom, OwnSeat, Inv, SeatHeard, [Next]_vars
  PROVE  Registry!Next \/ (Holders' = Holders /\ InRooms' = InRooms)
<1>1. CASE UNCHANGED <<ctl, index>>
  BY <1>1 DEF Holders, InRooms, Holder
<1>2. ASSUME NEW c \in Conns, Connect(c) \/ OnClose(c) \/ Audio(c)
      PROVE  UNCHANGED <<ctl, index>>
  BY <1>2 DEF Connect, OnClose, Audio, serverVars
<1>3. CASE MixTick \/ UNCHANGED vars
  BY <1>1, <1>3 DEF MixTick, vars
<1>4. ASSUME NEW c \in Conns, NEW r \in Rooms, NEW u \in Users,
             MixerJoin(c, r, u) \/ MixerLeave(c, r, u)
      PROVE  Registry!Next
  BY <1>4, JoinImplements, LeaveImplements DEF Registry!Next
<1>5. ASSUME NEW c \in Conns, Hangup(c)
      PROVE  Registry!Next \/ (Holders' = Holders /\ InRooms' = InRooms)
  BY <1>5, HangupImplements DEF Registry!Next
<1>6. CASE Restart
  <2>1. Holders' = [u \in Users |-> NoConn] /\ InRooms' = [u \in Users |-> {}]
    BY <1>6 DEF Restart, Holders, InRooms, Holder
  <2> QED BY <2>1 DEF Registry!Next, Registry!Reset, Holders, InRooms
<1> QED
  BY <1>1, <1>2, <1>3, <1>4, <1>5, <1>6 DEF Next

\* SESSION_REPLACED has the semantics it has in the signaling server, for users
\* in one room at a time and connections that join once: the mixer implements
\* the same SessionRegistry.
THEOREM ImplementsRegistry == OneRoom /\ OwnSeat => (Spec => RegistrySpec)
<1> SUFFICES ASSUME OneRoom, OwnSeat PROVE Spec => RegistrySpec
  OBVIOUS
<1>1. Init => Registry!Init
  BY DEF Init, Nothing, Registry!Init, Holder
<1>2. Inv /\ SeatHeard /\ [Next]_vars
        => [Registry!Next]_<<[u \in Users |-> Holder(u)],
                             [u \in Users |-> {r \in Rooms : ctl[r][u] # NoConn}]>>
  BY RegistryStep DEF Holders, InRooms
<1> QED
  BY <1>1, <1>2, Invariance, SeatsAreHeard, PTL DEF Spec, RegistrySpec, Registry!Spec
=============================================================================
