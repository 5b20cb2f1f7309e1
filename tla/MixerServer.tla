---------------------------- MODULE MixerServer ----------------------------
(***************************************************************************)
(* The mixer server's rooms (server/src/mixer_server.cpp): who is mixed,   *)
(* on which control connection, which room the audio of a user goes to,    *)
(* which rooms are recorded.                                               *)
(*                                                                         *)
(* One libuv loop runs every callback to completion (rooms_mutex_ is never *)
(* contended), so a callback is an action.  What interleaves: control      *)
(* connections of one user, each a TCP stream of its own, are read in any  *)
(* order; audio datagrams may be late, lost or repeated; uv_close only     *)
(* marks a handle; a connection that was lost may be noticed much later.   *)
(*                                                                         *)
(* A connection stands for a uv_tcp_t and the memory it lives in, and for  *)
(* the client session at its other end.                                    *)
(***************************************************************************)
EXTENDS Naturals

CONSTANTS
  Conns,     \* addresses of uv_tcp_t handles
  Users,
  Rooms,
  NoConn, NoRoom, NoSeat,   \* "not there" values; a seat is a <<room, user>>
  OneRoom,   \* discipline: the server has seen a user leave a room before it
             \* sees it join another
  OwnSeat    \* discipline: a connection joins once (every client connects anew
             \* to join again), and leaves no seat but the one it was given

ASSUME ConnAssumption == NoConn \notin Conns
ASSUME RoomAssumption == NoRoom \notin Rooms
ASSUME SeatAssumption == NoSeat \notin Rooms \X Users
ASSUME DisciplineAssumption == OneRoom \in BOOLEAN /\ OwnSeat \in BOOLEAN

VARIABLES
  tcp,        \* state of each handle
  ctl,        \* ctl[r][u]: UserEndpoint::tcp_client, NoConn if r has no u
  index,      \* user_room_index_
  rooms,      \* keys of rooms_
  recording,  \* the rooms whose recording flag is set
  takes,      \* keys of RecordingManager::recorders_
  queued,     \* the seats with frames in their jitter_queue
  tracks,     \* the seats with a Track in their room's AudioMixer
  seat,       \* the client's side: the seat its last MIXER_JOIN_ACK gave it
  voice       \* the client's side: the seats the session was given, whose
              \* datagrams may still arrive after it left

serverVars == <<ctl, index, rooms, recording, takes, queued, tracks>>
vars == <<tcp, ctl, index, rooms, recording, takes, queued, tracks, seat, voice>>

Seats == Rooms \X Users

TypeOK ==
  /\ tcp \in [Conns -> {"free", "open", "closing"}]
  /\ ctl \in [Rooms -> [Users -> Conns \cup {NoConn}]]
  /\ index \in [Users -> Rooms \cup {NoRoom}]
  /\ rooms \in SUBSET Rooms
  /\ recording \in SUBSET Rooms
  /\ takes \in SUBSET Rooms
  /\ queued \in SUBSET Seats
  /\ tracks \in SUBSET Seats
  /\ seat \in [Conns -> Seats \cup {NoSeat}]
  /\ voice \in [Conns -> SUBSET Seats]

Nothing ==
  /\ ctl = [r \in Rooms |-> [u \in Users |-> NoConn]]
  /\ index = [u \in Users |-> NoRoom]
  /\ rooms = {} /\ recording = {} /\ takes = {}
  /\ queued = {} /\ tracks = {}

Init ==
  /\ Nothing
  /\ tcp = [c \in Conns |-> "free"]
  /\ seat = [c \in Conns |-> NoSeat]
  /\ voice = [c \in Conns |-> {}]

-----------------------------------------------------------------------------
(* What the handlers share.                                                 *)

\* The endpoint of an evicted user stays.
MutVacateNothing(S) == UNCHANGED ctl

\* Room::users.erase
Vacate(S) ==
  ctl' = [r \in Rooms |-> [u \in Users |->
            IF <<r, u>> \in S THEN NoConn ELSE ctl[r][u]]]

\* user_room_index_.erase, whatever room the entry names.
Unindex(S) ==
  index' = [u \in Users |->
              IF \E r \in Rooms : <<r, u>> \in S THEN NoRoom ELSE index[u]]

\* Recordings of emptied rooms go on.
MutStopNothing(emptied) ==
  /\ rooms' = rooms \ emptied
  /\ recording' = recording \ emptied
  /\ UNCHANGED takes

\* The rooms that lost their last user stop recording and are removed.
Discard(emptied) ==
  /\ rooms' = rooms \ emptied
  /\ recording' = recording \ emptied
  /\ takes' = takes \ (emptied \cap recording)

\* The Track of an evicted user stays.
MutKeepTracks(S) == UNCHANGED tracks

\* removeTrack
Untrack(S) == tracks' = tracks \ S

\* The users of these seats leave their rooms.
Evict(S) ==
  /\ Vacate(S)
  /\ queued' = queued \ S
  /\ Untrack(S)
  /\ Unindex(S)
  /\ Discard({r \in rooms :
                /\ \E u \in Users : <<r, u>> \in S
                /\ \A u \in Users : ctl'[r][u] = NoConn})

-----------------------------------------------------------------------------
(* Control connections.                                                     *)

\* on_tcp_new_connection, of a new session: nothing of the former one at this
\* address is still on its way.
Connect(c) ==
  /\ tcp[c] = "free"
  /\ tcp' = [tcp EXCEPT ![c] = "open"]
  /\ voice' = [voice EXCEPT ![c] = {}]
  /\ UNCHANGED <<serverVars, seat>>

\* The connection is closed without clear_tcp_client.
MutHeldByNone(c) == {}

\* The seats clear_tcp_client looks for.
HeldBy(c) == {s \in Seats : ctl[s[1]][s[2]] = c}

\* End of file or an error: on_tcp_read runs clear_tcp_client, then closes.
Hangup(c) ==
  /\ tcp[c] = "open"
  /\ Evict(HeldBy(c))
  /\ tcp' = [tcp EXCEPT ![c] = "closing"]
  /\ seat' = [seat EXCEPT ![c] = NoSeat]
  /\ UNCHANGED voice

\* The close callback does no more than free the handle.
OnClose(c) ==
  /\ tcp[c] = "closing"
  /\ tcp' = [tcp EXCEPT ![c] = "free"]
  /\ UNCHANGED <<serverVars, seat, voice>>

-----------------------------------------------------------------------------
(* Control messages.                                                        *)

\* A user in one room at a time, as far as the server knows.
NowhereElse(r, u) ==
  OneRoom => \A q \in Rooms \ {r} : ctl[q][u] = NoConn

\* A takeover leaves the old connection open.
MutDisplacedNone(c, r, u) == {}

\* The connection a takeover closes, unless it is closing.
Displaced(c, r, u) == {x \in Conns \ {c} : x = ctl[r][u] /\ tcp[x] = "open"}

\* The index is given the full id, "room:user", in place of the room.
MutReindexFull(r, u) == index' = [index EXCEPT ![u] = <<r, u>>]

\* user_room_index_[u] = r
Reindex(r, u) == index' = [index EXCEPT ![u] = r]

\* MIXER_JOIN.  The endpoint is replaced by a fresh one; a session it had is
\* closed without clear_tcp_client.  Recording may fail to start.
MixerJoin(c, r, u) ==
  /\ tcp[c] = "open" /\ NowhereElse(r, u)
  /\ OwnSeat => voice[c] = {}
  /\ tcp' = [x \in Conns |-> IF x \in Displaced(c, r, u) THEN "closing" ELSE tcp[x]]
  /\ seat' = [x \in Conns |->
       IF x = c THEN <<r, u>> ELSE IF x \in Displaced(c, r, u) THEN NoSeat ELSE seat[x]]
  /\ voice' = [voice EXCEPT ![c] = @ \cup {<<r, u>>}]
  /\ ctl' = [ctl EXCEPT ![r][u] = c]
  /\ Reindex(r, u)
  /\ rooms' = rooms \cup {r}
  /\ queued' = queued \ {<<r, u>>}
  /\ UNCHANGED tracks
  /\ \/ r \in recording /\ UNCHANGED <<recording, takes>>
     \/ /\ r \notin recording
        /\ recording' = recording \cup {r}
        /\ takes' = takes \cup {r}
     \/ /\ r \notin recording
        /\ takes' = takes \ {r}
        /\ UNCHANGED recording

\* MIXER_LEAVE, of the seat it names.
MixerLeave(c, r, u) ==
  /\ tcp[c] = "open"
  /\ OwnSeat => seat[c] = <<r, u>>
  /\ seat' = [seat EXCEPT ![c] = IF @ = <<r, u>> THEN NoSeat ELSE @]
  /\ IF r \in rooms THEN Evict({<<r, u>>}) ELSE UNCHANGED serverVars
  /\ UNCHANGED <<tcp, voice>>

-----------------------------------------------------------------------------
(* Audio.                                                                   *)

\* The seats a datagram of user u reaches: the index decides, not the room
\* the datagram names.
Routed(u) == {s \in Seats : s[2] = u /\ s[1] = index[u] /\ ctl[s[1]][u] # NoConn}

\* An audio datagram of a session, on time or late.
Audio(c) ==
  /\ \E s \in voice[c] : queued' = queued \cup Routed(s[2])
  /\ UNCHANGED <<tcp, ctl, index, rooms, recording, takes, tracks, seat, voice>>

\* One tick of the mixing timer, over all rooms: every primed endpoint gives
\* its oldest frame to its track, and its queue may be empty then.
MixTick ==
  \E given \in SUBSET queued : \E drained \in SUBSET given :
    /\ given # {}
    /\ tracks' = tracks \cup given
    /\ queued' = queued \ drained
    /\ UNCHANGED <<tcp, ctl, index, rooms, recording, takes, seat, voice>>

-----------------------------------------------------------------------------
\* The process is restarted with nothing; datagrams may still be on their way.
Restart ==
  /\ tcp' = [c \in Conns |-> "free"]
  /\ seat' = [c \in Conns |-> NoSeat]
  /\ ctl' = [r \in Rooms |-> [u \in Users |-> NoConn]]
  /\ index' = [u \in Users |-> NoRoom]
  /\ rooms' = {} /\ recording' = {} /\ takes' = {}
  /\ queued' = {} /\ tracks' = {}
  /\ UNCHANGED voice

Next ==
  \/ \E c \in Conns :
       \/ Connect(c) \/ Hangup(c) \/ OnClose(c) \/ Audio(c)
       \/ \E r \in Rooms, u \in Users : MixerJoin(c, r, u) \/ MixerLeave(c, r, u)
  \/ MixTick \/ Restart

Spec == Init /\ [][Next]_vars

-----------------------------------------------------------------------------
(* Properties.                                                              *)

\* broadcast_levels writes to tcp_client without asking whether it still
\* lives: no endpoint may keep a connection that is being closed, or an address
\* that has become another session's, although a takeover closes a connection
\* without running clear_tcp_client.
NoDanglingTcp ==
  \A r \in Rooms, u \in Users :
    ctl[r][u] # NoConn => tcp[ctl[r][u]] = "open" /\ <<r, u>> \in voice[ctl[r][u]]

\* A session that was acknowledged, is open and has not left holds its seat,
\* and its audio is mixed in the room it is in.
SeatHeard ==
  \A c \in Conns, r \in Rooms, u \in Users :
    tcp[c] = "open" /\ seat[c] = <<r, u>> => ctl[r][u] = c /\ index[u] = r

\* No voice without a user: whatever is queued or mixed in a room belongs to a
\* user who is in it, even when datagrams of a session that ended come late.
NoGhostVoice ==
  \A s \in queued \cup tracks : ctl[s[1]][s[2]] # NoConn

\* A room exists, and is recorded, only while somebody is in it, and its
\* recording flag says whether a recorder is running.
RecordingFollowsUsers ==
  /\ takes = recording
  /\ recording \subseteq rooms
  /\ \A r \in Rooms : r \in rooms <=> \E u \in Users : ctl[r][u] # NoConn

\* SESSION_REPLACED has the semantics it has in the signaling server
\* (SPA1_PROTOCOL.md): one session per user.
Holder(u) == IF index[u] = NoRoom THEN NoConn ELSE ctl[index[u]][u]
Registry == INSTANCE SessionRegistry WITH
  holder <- [u \in Users |-> Holder(u)],
  inRooms <- [u \in Users |-> {r \in Rooms : ctl[r][u] # NoConn}]
RegistrySpec == Registry!Spec

-----------------------------------------------------------------------------
(* What the code says of itself and does not do; TLC refutes it.            *)

\* The index finds a user's endpoint: user_room_index_ maps a user to its room
\* (mixer_server.h).
IndexComplete ==
  \A r \in Rooms, u \in Users : ctl[r][u] # NoConn => index[u] # NoRoom
============================================================================
