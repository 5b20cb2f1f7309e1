------------------------- MODULE SignalingServer -------------------------
(***************************************************************************)
(* The signaling server: room membership, the session that speaks for each *)
(* user, takeover of a session by a newer connection, heartbeats, timeouts *)
(* and the reaping of idle rooms (server/src/signaling_server.cpp, user.cpp*)
(* and room.cpp).                                                          *)
(*                                                                         *)
(* One libuv loop runs every handler to completion, so each handler is one *)
(* action.  What interleaves is the ORDER of handlers: uv_close only marks *)
(* a handle, its on_close callback runs later, and the messages of other   *)
(* connections may be handled in between.                                  *)
(*                                                                         *)
(* A connection stands for a ClientContext and the memory it lives in: a   *)
(* deleted context is "free", and the next accepted connection may get the *)
(* same address.                                                           *)
(*                                                                         *)
(* Operators named Mut... are not part of the model: each is a definition  *)
(* next to it with a plausible bug, kept to show that a property notices.  *)
(***************************************************************************)
EXTENDS Naturals

CONSTANTS
  Conns,       \* addresses of ClientContexts
  Users,       \* user ids as the clients write them
  Rooms,       \* room ids
  Passwords,   \* room passwords
  NoConn, NoUser, NoRoom, NoPwd,   \* "not there" values of the above
  Escape,      \* json_escape, as a function on user ids
  Timeout,     \* ticks without a heartbeat a session survives   (90 s)
  IdleLimit,   \* ticks an empty room survives                   (30 min)
  OneUser,     \* discipline: a connection only ever speaks for one user
  OneRoom,     \* discipline: a user leaves a room before entering another
  SoleCreate   \* discipline: CREATE_ROOM only while no other session exists

ASSUME ConnAssumption == NoConn \notin Conns
ASSUME RoomAssumption == NoRoom \notin Rooms
ASSUME PwdAssumption  == NoPwd \notin Passwords
\* json_escape leaves an id alone or yields one that no client uses.
ASSUME EscapeAssumption ==
  /\ DOMAIN Escape = Users
  /\ \A u \in Users : Escape[u] = u \/ Escape[u] \notin Users
  /\ \A u \in Users : Escape[u] # NoUser
  /\ NoUser \notin Users
ASSUME LimitAssumption == Timeout \in Nat /\ IdleLimit \in Nat
ASSUME DisciplineAssumption ==
  OneUser \in BOOLEAN /\ OneRoom \in BOOLEAN /\ SoleCreate \in BOOLEAN

VARIABLES
  st,          \* state of each connection's handle
  uid,         \* ClientContext::user_id
  displaced,   \* ClientContext::displaced
  ctxOf,       \* user_id_to_ctx_
  client,      \* UserManager::users_[u]->client, NoConn if u has no entry
  age,         \* ticks since users_[u]->last_heartbeat
  rooms,       \* keys of RoomManager::rooms_
  members,     \* Room::users_
  pwd,         \* Room::password_hash_
  idle,        \* ticks since Room::empty_since_, counted while empty
  asked,       \* the client's side: its roomId, set before a request is sent
  at,          \* the client's side: the room its last ACK put it in
  out          \* the set of frames the last step wrote to each connection

tables == <<ctxOf, client, age>>
roomVars == <<rooms, members, pwd, idle>>
clientVars == <<asked, at>>
vars == <<st, uid, displaced, ctxOf, client, age, rooms, members, pwd, idle, asked, at, out>>

Keys == {Escape[u] : u \in Users}
Silence == [x \in Conns |-> {}]

TypeOK ==
  /\ st \in [Conns -> {"free", "open", "closing"}]
  /\ uid \in [Conns -> Keys \cup {NoUser}]
  /\ displaced \in [Conns -> BOOLEAN]
  /\ ctxOf \in [Users -> Conns \cup {NoConn}]
  /\ client \in [Users -> Conns \cup {NoConn}]
  /\ age \in [Users -> 0..(Timeout + 1)]
  /\ rooms \in SUBSET Rooms
  /\ members \in [Rooms -> SUBSET Users]
  /\ pwd \in [Rooms -> Passwords \cup {NoPwd}]
  /\ idle \in [Rooms -> 0..IdleLimit]
  /\ asked \in [Conns -> Rooms \cup {NoRoom}]
  /\ at \in [Conns -> Rooms \cup {NoRoom}]
  /\ DOMAIN out = Conns
  /\ \A r \in Rooms \ rooms : members[r] = {} /\ pwd[r] = NoPwd

Init ==
  /\ st = [c \in Conns |-> "free"]
  /\ uid = [c \in Conns |-> NoUser]
  /\ displaced = [c \in Conns |-> FALSE]
  /\ ctxOf = [u \in Users |-> NoConn]
  /\ client = [u \in Users |-> NoConn]
  /\ age = [u \in Users |-> 0]
  /\ rooms = {}
  /\ members = [r \in Rooms |-> {}]
  /\ pwd = [r \in Rooms |-> NoPwd]
  /\ idle = [r \in Rooms |-> 0]
  /\ asked = [c \in Conns |-> NoRoom]
  /\ at = [c \in Conns |-> NoRoom]
  /\ out = Silence

-----------------------------------------------------------------------------
(* What the clients do (the environment of the server).                    *)

\* A client writes on an open connection, for the user it is logged in as.
\* The web client's user may log in or out, from the home page, while the
\* connection stays up.
Speaks(c, u) ==
  /\ st[c] = "open"
  /\ uid[c] \in {NoUser, Escape[u]} \/ (~OneUser /\ at[c] = NoRoom)

\* A user in one room at a time, as far as the server knows.
NowhereElse(r, u) ==
  OneRoom => \A q \in Rooms \ {r} : u \notin members[q]

-----------------------------------------------------------------------------
(* What the handlers share.                                                 *)

\* The connections broadcast_to_room(r, _, u) writes to: a write to a handle
\* that is closing is refused.
Hears(x, r, u) ==
  st'[x] = "open" /\ \E v \in members[r] \ {u} : client'[v] = x

\* The last member is never removed.
MutRemoveShared(R, u) ==
  /\ members' = [r \in Rooms |->
                   IF r \in R /\ members[r] # {u} THEN members[r] \ {u} ELSE members[r]]
  /\ UNCHANGED idle

\* Room::remove_user on each room of R: the last one out starts the clock.
RemoveFrom(R, u) ==
  /\ members' = [r \in Rooms |->
                   IF r \in R THEN members[r] \ {u} ELSE members[r]]
  /\ idle' = [r \in Rooms |->
                IF r \in R /\ members[r] = {u} THEN 0 ELSE idle[r]]

\* A new room with its first member.
NewRoom(r, u, p) ==
  /\ rooms' = rooms \cup {r}
  /\ members' = [members EXCEPT ![r] = {u}]
  /\ pwd' = [pwd EXCEPT ![r] = p]
  /\ idle' = [idle EXCEPT ![r] = 0]

\* user_id_to_ctx_.erase is forgotten.
MutEraseUserOnly(u) ==
  /\ UNCHANGED ctxOf
  /\ client' = [client EXCEPT ![u] = NoConn]
  /\ age' = [age EXCEPT ![u] = 0]

\* user_id_to_ctx_.erase(u) and remove_user_no_close(u).
Erase(u) ==
  /\ ctxOf' = [ctxOf EXCEPT ![u] = NoConn]
  /\ client' = [client EXCEPT ![u] = NoConn]
  /\ age' = [age EXCEPT ![u] = 0]

\* An existing User keeps the handle it has.
MutBindIfNew(c, u) ==
  /\ uid' = [uid EXCEPT ![c] = Escape[u]]
  /\ client' = [client EXCEPT ![u] = IF @ = NoConn THEN c ELSE @]
  /\ ctxOf' = [ctxOf EXCEPT ![u] = c]

\* Both tables now name c for u.
Bind(c, u) ==
  /\ uid' = [uid EXCEPT ![c] = Escape[u]]
  /\ client' = [client EXCEPT ![u] = c]
  /\ ctxOf' = [ctxOf EXCEPT ![u] = c]

-----------------------------------------------------------------------------
(* Connections.                                                             *)

Connect(c) ==
  /\ st[c] = "free"
  /\ st' = [st EXCEPT ![c] = "open"]
  /\ out' = Silence
  /\ UNCHANGED <<uid, displaced, clientVars, tables, roomVars>>

\* End of file or an error on the socket: on_read closes the handle.
Hangup(c) ==
  /\ st[c] = "open"
  /\ st' = [st EXCEPT ![c] = "closing"]
  /\ out' = Silence
  /\ UNCHANGED <<uid, displaced, clientVars, tables, roomVars>>

\* on_close ignores the displaced flag, as it did before the flag existed.
MutCascadesAlways(c) == uid[c] \in Users

\* on_close skips a user the UserManager has already dropped.
MutCascadesIfKnown(c) == ~displaced[c] /\ uid[c] \in Users /\ client[uid[c]] = c

\* Whether the end of a connection is the end of its user's session.
Cascades(c) == ~displaced[c] /\ uid[c] \in Users

\* The deferred close callback deletes the context.  Unless it was displaced,
\* its user also leaves every room and loses its entry in both tables.
OnClose(c) ==
  /\ st[c] = "closing"
  /\ st' = [st EXCEPT ![c] = "free"]
  /\ uid' = [uid EXCEPT ![c] = NoUser]
  /\ displaced' = [displaced EXCEPT ![c] = FALSE]
  /\ asked' = [asked EXCEPT ![c] = NoRoom]
  /\ at' = [at EXCEPT ![c] = NoRoom]
  /\ UNCHANGED <<rooms, pwd>>
  /\ \/ /\ ~Cascades(c)
        /\ out' = Silence
        /\ UNCHANGED <<tables, members, idle>>
     \/ /\ Cascades(c)
        /\ RemoveFrom({r \in rooms : uid[c] \in members[r]}, uid[c])
        /\ Erase(uid[c])
        /\ out' = [x \in Conns |->
             {<<"PEER_LEFT", r, uid[c]>> :
                r \in {q \in rooms : uid[c] \in members[q] /\ Hears(x, q, uid[c])}}]

-----------------------------------------------------------------------------
(* Messages.                                                                *)

\* CREATE_ROOM binds the user to this connection before it looks at the room,
\* and displaces nobody.
CreateRoom(c, r, u, p) ==
  /\ Speaks(c, u) /\ NowhereElse(r, u)
  /\ SoleCreate => ctxOf[u] \in {NoConn, c}
  /\ Bind(c, u)
  /\ age' = [age EXCEPT ![u] = 0]
  /\ asked' = [asked EXCEPT ![c] = r]
  /\ UNCHANGED <<st, displaced>>
  /\ \/ /\ r \in rooms
        /\ out' = [Silence EXCEPT ![c] = {<<"ERROR">>}]
        /\ UNCHANGED <<roomVars, at>>
     \/ /\ r \notin rooms
        /\ NewRoom(r, u, p)
        /\ at' = [at EXCEPT ![c] = r]
        /\ out' = [Silence EXCEPT ![c] = {<<"CREATE_ROOM_ACK", r>>}]

\* The connection JOIN_ROOM displaces: another one still bound to the user.
Displaced(c, u) == {x \in Conns : x = ctxOf[u] /\ x # c /\ st[x] # "free"}

\* Room::check_password fails.
Denied(r, p) == pwd[r] # NoPwd /\ pwd[r] # p

\* No PEER_LIST for the newcomer.
MutUnlisted(c, r, u, x) ==
  (IF x = c THEN {<<"JOIN_ROOM_ACK", r>>} ELSE {})
  \cup (IF Hears(x, r, u) THEN {<<"PEER_JOINED", r, u>>} ELSE {})

\* Frames of an accepted JOIN_ROOM.
JoinFrames(c, r, u, x) ==
  (IF x = c
     THEN {<<"JOIN_ROOM_ACK", r>>} \cup
          {<<"PEER_LIST", r, S>> : S \in {members[r] \ {u}} \ {{}}}
     ELSE {})
  \cup (IF Hears(x, r, u) THEN {<<"PEER_JOINED", r, u>>} ELSE {})

Notice(told, u, x) ==
  IF x \in told THEN {<<"SESSION_REPLACED", u>>} ELSE {}

\* JOIN_ROOM takes the user's session over, before it looks at the room or the
\* password, and creates a missing room without a password.  uv_close cancels
\* what is not yet written, so SESSION_REPLACED may be lost.  The heartbeat of
\* an entry that exists already is not refreshed.
JoinRoom(c, r, u, p) ==
  /\ Speaks(c, u) /\ NowhereElse(r, u)
  /\ displaced' = [x \in Conns |-> displaced[x] \/ x \in Displaced(c, u)]
  /\ st' = [x \in Conns |-> IF x \in Displaced(c, u) THEN "closing" ELSE st[x]]
  /\ Bind(c, u)
  /\ asked' = [asked EXCEPT ![c] = r]
  /\ age' = IF client[u] = NoConn THEN [age EXCEPT ![u] = 0] ELSE age
  /\ \E told \in SUBSET {x \in Displaced(c, u) : st[x] = "open"} :
       \/ /\ r \notin rooms
          /\ NewRoom(r, u, NoPwd)
          /\ at' = [at EXCEPT ![c] = r]
          /\ out' = [x \in Conns |-> Notice(told, u, x) \cup JoinFrames(c, r, u, x)]
       \/ /\ r \in rooms /\ Denied(r, p)
          /\ out' = [x \in Conns |->
                       Notice(told, u, x) \cup IF x = c THEN {<<"ERROR">>} ELSE {}]
          /\ UNCHANGED <<roomVars, at>>
       \/ /\ r \in rooms /\ ~Denied(r, p)
          /\ members' = [members EXCEPT ![r] = @ \cup {u}]
          /\ at' = [at EXCEPT ![c] = r]
          /\ out' = [x \in Conns |-> Notice(told, u, x) \cup JoinFrames(c, r, u, x)]
          /\ UNCHANGED <<rooms, pwd, idle>>

\* LEAVE_ROOM leaves the one room it names, and unbinds the user altogether.
LeaveRoom(c, r, u) ==
  /\ st[c] = "open" /\ uid[c] = Escape[u] /\ asked[c] = r
  /\ RemoveFrom({r} \cap rooms, u)
  /\ Erase(u)
  /\ uid' = [uid EXCEPT ![c] = NoUser]
  /\ asked' = [asked EXCEPT ![c] = NoRoom]
  /\ at' = [at EXCEPT ![c] = NoRoom]
  /\ UNCHANGED <<st, displaced, rooms, pwd>>
  /\ out' = [x \in Conns |->
       (IF x = c THEN {<<"LEAVE_ROOM_ACK">>} ELSE {}) \cup
       (IF Hears(x, r, u) THEN {<<"PEER_LEFT", r, u>>} ELSE {})]

\* The heartbeat is acknowledged and not recorded.
MutRefreshNothing(u) == UNCHANGED age

\* update_heartbeat
Refresh(u) == age' = [age EXCEPT ![u] = 0]

Heartbeat(c, u) ==
  /\ st[c] = "open" /\ uid[c] = Escape[u]
  /\ Refresh(u)
  /\ out' = [Silence EXCEPT ![c] = {<<"HEARTBEAT_ACK">>}]
  /\ UNCHANGED <<st, uid, displaced, clientVars, ctxOf, client, roomVars>>

ListRooms(c) ==
  /\ st[c] = "open"
  /\ out' = [Silence EXCEPT ![c] = {<<"ROOM_LIST", rooms>>}]
  /\ UNCHANGED <<st, uid, displaced, clientVars, tables, roomVars>>

-----------------------------------------------------------------------------
(* Timers.  libuv runs pending close callbacks before it comes round to the *)
(* timers, so none is outstanding when a timer fires or time passes.        *)

Settled == \A c \in Conns : st[c] # "closing"

Tick ==
  /\ Settled
  /\ age' = [u \in Users |->
       IF client[u] # NoConn /\ age[u] <= Timeout THEN age[u] + 1 ELSE age[u]]
  /\ idle' = [r \in Rooms |->
       IF r \in rooms /\ members[r] = {} /\ idle[r] < IdleLimit
         THEN idle[r] + 1 ELSE idle[r]]
  /\ out' = Silence
  /\ UNCHANGED <<st, uid, displaced, clientVars, ctxOf, client, rooms, members, pwd>>

Expired == {u \in Users : client[u] # NoConn /\ age[u] > Timeout}

\* on_user_remove was never set.
MutTimedOutNone == {}

\* The connections on_user_remove closes.
TimedOut == {c \in Conns : st[c] = "open" /\ \E u \in Expired : client[u] = c}

\* check_timeouts drops every expired user and closes its connection; the rest
\* is left to the close callback.
CheckTimeouts ==
  /\ Settled /\ Expired # {}
  /\ client' = [u \in Users |-> IF u \in Expired THEN NoConn ELSE client[u]]
  /\ age' = [u \in Users |-> IF u \in Expired THEN 0 ELSE age[u]]
  /\ st' = [c \in Conns |-> IF c \in TimedOut THEN "closing" ELSE st[c]]
  /\ out' = Silence
  /\ UNCHANGED <<uid, displaced, clientVars, ctxOf, roomVars>>

\* The reaper trusts empty_since_ alone.
MutReapableUncounted == {r \in rooms : idle[r] >= IdleLimit}

\* The reaper spares rooms with a password.
MutReapableOpen ==
  {r \in rooms : members[r] = {} /\ pwd[r] = NoPwd /\ idle[r] >= IdleLimit}

Reapable == {r \in rooms : members[r] = {} /\ idle[r] >= IdleLimit}

ReapIdleRooms ==
  /\ Settled /\ Reapable # {}
  /\ rooms' = rooms \ Reapable
  /\ pwd' = [r \in Rooms |-> IF r \in Reapable THEN NoPwd ELSE pwd[r]]
  /\ idle' = [r \in Rooms |-> IF r \in Reapable THEN 0 ELSE idle[r]]
  /\ out' = Silence
  /\ UNCHANGED <<st, uid, displaced, clientVars, tables, members>>

-----------------------------------------------------------------------------
\* The process dies, or is redeployed, and starts again with nothing: no table
\* is persisted and every connection is gone.  Using a freed context is
\* undefined; the handlers above then go on as if it held nothing, a later
\* context may live at its address, or the process dies here.
Restart ==
  /\ st' = [c \in Conns |-> "free"]
  /\ uid' = [c \in Conns |-> NoUser]
  /\ displaced' = [c \in Conns |-> FALSE]
  /\ rooms' = {}
  /\ members' = [r \in Rooms |-> {}]
  /\ pwd' = [r \in Rooms |-> NoPwd]
  /\ idle' = [r \in Rooms |-> 0]
  /\ asked' = [c \in Conns |-> NoRoom]
  /\ at' = [c \in Conns |-> NoRoom]
  /\ ctxOf' = [u \in Users |-> NoConn]
  /\ client' = [u \in Users |-> NoConn]
  /\ age' = [u \in Users |-> 0]
  /\ out' = Silence

-----------------------------------------------------------------------------
Message(c) ==
  \/ \E r \in Rooms, u \in Users, p \in Passwords \cup {NoPwd} :
       CreateRoom(c, r, u, p) \/ JoinRoom(c, r, u, p)
  \/ \E r \in Rooms, u \in Users : LeaveRoom(c, r, u)
  \/ \E u \in Users : Heartbeat(c, u)
  \/ ListRooms(c)

Next ==
  \/ \E c \in Conns : Connect(c) \/ Hangup(c) \/ OnClose(c) \/ Message(c)
  \/ Tick \/ CheckTimeouts \/ ReapIdleRooms \/ Restart

Spec == Init /\ [][Next]_vars

-----------------------------------------------------------------------------
(* Properties.                                                              *)

\* The two tables name the same connection: the one a broadcast writes to is
\* the one a takeover displaces.  The handlers update the tables separately,
\* and check_timeouts only one of them.
TablesAgree ==
  \A u \in Users : client[u] # NoConn => client[u] = ctxOf[u]

\* user_id_to_ctx_ never outlives the context it points to: the context is
\* allocated, still carries that user, and was not displaced.  JOIN_ROOM and
\* REGISTER_AUDIO_ADDR dereference this pointer.
NoDanglingCtx ==
  \A u \in Users :
    ctxOf[u] # NoConn =>
      /\ st[ctxOf[u]] # "free"
      /\ uid[ctxOf[u]] = Escape[u]
      /\ ~displaced[ctxOf[u]]

\* What the displaced flag is for: a connection that was let into a room and
\* is still open keeps its seat and its table entries, whatever older or newer
\* connections of the same user do or finish doing.
SeatKept ==
  \A c \in Conns :
    st[c] = "open" /\ at[c] # NoRoom /\ uid[c] \in Users =>
      /\ at[c] \in rooms
      /\ uid[c] \in members[at[c]]
      /\ ctxOf[uid[c]] = c
      /\ client[uid[c]] = c

\* No ghosts: a member of a room has a connection whose end will remove it.
MemberHasSession ==
  \A r \in Rooms : \A u \in members[r] :
    \E c \in Conns : st[c] # "free" /\ uid[c] = Escape[u] /\ ~displaced[c]

\* The abstract promise, SessionRegistry: one session and one room per user,
\* and the end of the session is the end of the membership.
Registry == INSTANCE SessionRegistry WITH
  holder <- ctxOf,
  inRooms <- [u \in Users |-> {r \in Rooms : u \in members[r]}]
RegistrySpec == Registry!Spec

-----------------------------------------------------------------------------
(* What the repository says of the server and its code does not do; each is *)
(* the property of a run that TLC refutes.                                  *)

\* The close of an older context does not erase the room slot of a live session
\* of its user (signaling_server.h, ClientContext::displaced).
CloseSparesSessions ==
  [][\A x, c \in Conns :
       /\ OnClose(x) /\ st[c] = "open" /\ at[c] # NoRoom /\ uid[c] \in Users
       /\ uid[c] \in members[at[c]]
       => uid[c] \in members'[at[c]]]_vars

\* SESSION_REPLACED is sent when a duplicate user JOINS (SPA1_PROTOCOL.md): the
\* connection that replaces another one gets into the room.
ReplacedByJoin ==
  [][\A x \in Conns, u \in Users :
       <<"SESSION_REPLACED", u>> \in out'[x] =>
         \E c \in Conns, r \in Rooms : <<"JOIN_ROOM_ACK", r>> \in out'[c]]_vars
=============================================================================
