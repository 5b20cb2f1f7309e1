---------------------- MODULE SignalingServer_proofs ----------------------
(***************************************************************************)
(* What holds of the signaling server for any number of connections, users *)
(* and rooms and any timeouts.  TypeOK and TablesAgree hold whatever the   *)
(* clients do, NoDanglingCtx for clients that keep OneUser, SeatKept if    *)
(* they also keep SoleCreate, MemberHasSession if they keep OneUser and    *)
(* OneRoom.  With all three the server implements SessionRegistry.  The    *)
(* last part is what the modules about the clients build on.               *)
(***************************************************************************)
EXTENDS SignalingServer, PeerList, TLAPS

\* Next, flattened: one disjunct per handler, for the step lemmas below.
Step ==
  \/ \E c \in Conns :
       \/ Connect(c) \/ Hangup(c) \/ OnClose(c) \/ ListRooms(c)
       \/ \E u \in Users : Heartbeat(c, u)
       \/ \E r \in Rooms, u \in Users : LeaveRoom(c, r, u)
       \/ \E r \in Rooms, u \in Users, p \in Passwords \cup {NoPwd} :
            CreateRoom(c, r, u, p) \/ JoinRoom(c, r, u, p)
  \/ Tick \/ CheckTimeouts \/ ReapIdleRooms \/ Restart

LEMMA NextIsStep == Next => Step
  BY DEF Next, Step, Message

-----------------------------------------------------------------------------
(* Type correctness.                                                        *)

LEMMA TypeInit == Init => TypeOK
  BY LimitAssumption DEF Init, TypeOK, Silence

LEMMA TypeStep == TypeOK /\ [Next]_vars => TypeOK'
<1> SUFFICES ASSUME TypeOK, [Next]_vars PROVE TypeOK'
  OBVIOUS
<1> USE LimitAssumption, EscapeAssumption DEF TypeOK, Keys, Silence
<1>1. ASSUME NEW c \in Conns, Connect(c) PROVE TypeOK'
  BY <1>1 DEF Connect, clientVars, tables, roomVars
<1>2. ASSUME NEW c \in Conns, Hangup(c) PROVE TypeOK'
  BY <1>2 DEF Hangup, clientVars, tables, roomVars
<1>3. ASSUME NEW c \in Conns, OnClose(c) PROVE TypeOK'
  <2>1. CASE ~Cascades(c)
    BY <1>3, <2>1 DEF OnClose, tables
  <2>2. CASE Cascades(c)
    <3>1. /\ members' \in [Rooms -> SUBSET Users]
          /\ \A q \in Rooms : members'[q] \subseteq members[q]
          /\ idle' \in [Rooms -> 0..IdleLimit]
      <4> DEFINE R == {r \in rooms : uid[c] \in members[r]}
      <4>1. RemoveFrom(R, uid[c])
        BY <1>3, <2>2 DEF OnClose
      <4> HIDE DEF R
      <4> QED BY <4>1 DEF RemoveFrom
    <3>2. Erase(uid[c])
      BY <1>3, <2>2 DEF OnClose
    <3>3. DOMAIN out' = Conns
      BY <1>3, <2>2 DEF OnClose
    <3> QED
      BY <1>3, <2>2, <3>1, <3>2, <3>3 DEF OnClose, Erase, Cascades
  <2> QED BY <2>1, <2>2
<1>4. ASSUME NEW c \in Conns, ListRooms(c) PROVE TypeOK'
  BY <1>4 DEF ListRooms, clientVars, tables, roomVars
<1>5. ASSUME NEW c \in Conns, NEW u \in Users, Heartbeat(c, u) PROVE TypeOK'
  BY <1>5 DEF Heartbeat, Refresh, clientVars, roomVars
<1>6. ASSUME NEW c \in Conns, NEW r \in Rooms, NEW u \in Users, LeaveRoom(c, r, u)
      PROVE TypeOK'
  BY <1>6 DEF LeaveRoom, RemoveFrom, Erase
<1>7. ASSUME NEW c \in Conns, NEW r \in Rooms, NEW u \in Users,
             NEW p \in Passwords \cup {NoPwd}, CreateRoom(c, r, u, p)
      PROVE TypeOK'
  <2>1. /\ st' = st /\ displaced' = displaced
        /\ age' \in [Users -> 0..(Timeout + 1)]
        /\ asked' \in [Conns -> Rooms \cup {NoRoom}]
    BY <1>7 DEF CreateRoom
  <2>2. /\ uid' \in [Conns -> Keys \cup {NoUser}]
        /\ ctxOf' \in [Users -> Conns \cup {NoConn}]
        /\ client' \in [Users -> Conns \cup {NoConn}]
    BY <1>7 DEF CreateRoom, Bind
  <2>3. /\ rooms' \in SUBSET Rooms
        /\ members' \in [Rooms -> SUBSET Users]
        /\ pwd' \in [Rooms -> Passwords \cup {NoPwd}]
        /\ idle' \in [Rooms -> 0..IdleLimit]
        /\ at' \in [Conns -> Rooms \cup {NoRoom}]
    BY <1>7 DEF CreateRoom, NewRoom, roomVars
  <2>4. DOMAIN out' = Conns
    BY <1>7 DEF CreateRoom
  <2>5. \A q \in Rooms \ rooms' : members'[q] = {} /\ pwd'[q] = NoPwd
    BY <1>7 DEF CreateRoom, NewRoom, roomVars
  <2> QED BY <2>1, <2>2, <2>3, <2>4, <2>5
<1>8. ASSUME NEW c \in Conns, NEW r \in Rooms, NEW u \in Users,
             NEW p \in Passwords \cup {NoPwd}, JoinRoom(c, r, u, p)
      PROVE TypeOK'
  <2>1. /\ st' \in [Conns -> {"free", "open", "closing"}]
        /\ displaced' \in [Conns -> BOOLEAN]
        /\ age' \in [Users -> 0..(Timeout + 1)]
        /\ asked' \in [Conns -> Rooms \cup {NoRoom}]
    BY <1>8 DEF JoinRoom
  <2>2. /\ uid' \in [Conns -> Keys \cup {NoUser}]
        /\ ctxOf' \in [Users -> Conns \cup {NoConn}]
        /\ client' \in [Users -> Conns \cup {NoConn}]
    BY <1>8 DEF JoinRoom, Bind
  <2>3. /\ rooms' \in SUBSET Rooms
        /\ members' \in [Rooms -> SUBSET Users]
        /\ pwd' \in [Rooms -> Passwords \cup {NoPwd}]
        /\ idle' \in [Rooms -> 0..IdleLimit]
        /\ at' \in [Conns -> Rooms \cup {NoRoom}]
    BY <1>8, SMTT(30) DEF JoinRoom, NewRoom, roomVars
  <2>4. DOMAIN out' = Conns
    BY <1>8 DEF JoinRoom
  <2>5. \A q \in Rooms \ rooms' : members'[q] = {} /\ pwd'[q] = NoPwd
    BY <1>8 DEF JoinRoom, NewRoom, roomVars
  <2> QED BY <2>1, <2>2, <2>3, <2>4, <2>5
<1>9. CASE Tick
  BY <1>9 DEF Tick, clientVars
<1>10. CASE CheckTimeouts
  BY <1>10 DEF CheckTimeouts, clientVars, roomVars
<1>11. CASE ReapIdleRooms
  BY <1>11 DEF ReapIdleRooms, Reapable, clientVars, tables
<1>12. CASE Restart
  BY <1>12 DEF Restart
<1>13. CASE UNCHANGED vars
  BY <1>13 DEF vars
<1> QED
  BY <1>1, <1>2, <1>3, <1>4, <1>5, <1>6, <1>7, <1>8, <1>9, <1>10, <1>11,
     <1>12, <1>13, NextIsStep DEF Step

\* Every handler leaves every table well typed.
THEOREM TypeCorrect == Spec => []TypeOK
  BY TypeInit, TypeStep, PTL DEF Spec

-----------------------------------------------------------------------------
(* The two tables.  TablesAgree is inductive by itself: a handler that writes *)
(* one table writes both, or only erases from client.                        *)

LEMMA TablesStep == TypeOK /\ TablesAgree /\ [Next]_vars => TablesAgree'
<1> SUFFICES ASSUME TypeOK, TablesAgree, [Next]_vars PROVE TablesAgree'
  OBVIOUS
<1> USE ConnAssumption DEF TypeOK, TablesAgree
<1>1. CASE UNCHANGED <<ctxOf, client>>
  BY <1>1
<1>2. ASSUME NEW u \in Users, Erase(u) PROVE TablesAgree'
  BY <1>2 DEF Erase
<1>3. ASSUME NEW c \in Conns, NEW u \in Users, Bind(c, u) PROVE TablesAgree'
  BY <1>3 DEF Bind
<1>4. CASE CheckTimeouts
  BY <1>4 DEF CheckTimeouts
<1>5. CASE Restart
  BY <1>5 DEF Restart
<1>6. ASSUME NEW c \in Conns, OnClose(c) PROVE TablesAgree'
  BY <1>1, <1>2, <1>6 DEF OnClose, Cascades, tables
<1>7. ASSUME NEW c \in Conns, Connect(c) \/ Hangup(c) \/ ListRooms(c)
      PROVE TablesAgree'
  BY <1>1, <1>7 DEF Connect, Hangup, ListRooms, tables
<1>8. ASSUME NEW c \in Conns, NEW u \in Users, Heartbeat(c, u) PROVE TablesAgree'
  BY <1>1, <1>8 DEF Heartbeat
<1>9. ASSUME NEW c \in Conns, NEW r \in Rooms, NEW u \in Users, LeaveRoom(c, r, u)
      PROVE TablesAgree'
  BY <1>2, <1>9 DEF LeaveRoom
<1>10. ASSUME NEW c \in Conns, NEW r \in Rooms, NEW u \in Users,
              NEW p \in Passwords \cup {NoPwd},
              CreateRoom(c, r, u, p) \/ JoinRoom(c, r, u, p)
      PROVE TablesAgree'
  BY <1>3, <1>10 DEF CreateRoom, JoinRoom
<1>11. CASE Tick \/ ReapIdleRooms \/ UNCHANGED vars
  BY <1>1, <1>11 DEF Tick, ReapIdleRooms, tables, vars
<1> QED
  BY <1>4, <1>5, <1>6, <1>7, <1>8, <1>9, <1>10, <1>11, NextIsStep DEF Step

\* A broadcast to a user writes to the connection a takeover would displace,
\* whatever the clients do.
THEOREM TablesAlwaysAgree == Spec => []TablesAgree
<1>1. Init => TablesAgree
  BY DEF Init, TablesAgree
<1> QED
  BY <1>1, TablesStep, TypeCorrect, PTL DEF Spec

-----------------------------------------------------------------------------
(* No dangling context.  Needs clients that speak for one user per connection *)
(* under ids json_escape leaves alone.                                       *)

Plain == \A u \in Users : Escape[u] = u

\* Only a handle that is being closed is displaced; a deleted context is blank.
DisplacedClosing == \A c \in Conns : displaced[c] => st[c] = "closing"

Danglers == TypeOK /\ DisplacedClosing /\ NoDanglingCtx

LEMMA DanglersStep ==
  ASSUME Plain, OneUser, Danglers, TypeOK', [Next]_vars
  PROVE  Danglers'
<1> USE ConnAssumption, EscapeAssumption
    DEF Danglers, TypeOK, DisplacedClosing, NoDanglingCtx, Plain
<1>1. CASE UNCHANGED <<st, uid, displaced, ctxOf>>
  BY <1>1
<1>2. ASSUME NEW c \in Conns, Connect(c) \/ Hangup(c) PROVE Danglers'
  BY <1>2 DEF Connect, Hangup, tables
<1>3. ASSUME NEW c \in Conns, OnClose(c) PROVE Danglers'
  <2>1. CASE ~Cascades(c)
    BY <1>3, <2>1 DEF OnClose, Cascades, tables
  <2>2. CASE Cascades(c)
    BY <1>3, <2>2 DEF OnClose, Cascades, Erase
  <2> QED BY <2>1, <2>2
<1>4. ASSUME NEW c \in Conns, NEW r \in Rooms, NEW u \in Users, LeaveRoom(c, r, u)
      PROVE Danglers'
  BY <1>4 DEF LeaveRoom, Erase
<1>5. ASSUME NEW c \in Conns, NEW r \in Rooms, NEW u \in Users,
             NEW p \in Passwords \cup {NoPwd}, CreateRoom(c, r, u, p)
      PROVE Danglers'
  <2>1. /\ st[c] = "open" /\ uid[c] \in {NoUser, u}
        /\ UNCHANGED <<st, displaced>> /\ Bind(c, u)
    BY <1>5 DEF CreateRoom, Speaks
  <2> QED BY <2>1 DEF Bind
<1>6. ASSUME NEW c \in Conns, NEW r \in Rooms, NEW u \in Users,
             NEW p \in Passwords \cup {NoPwd}, JoinRoom(c, r, u, p)
      PROVE Danglers'
  <2>1. /\ st[c] = "open" /\ uid[c] \in {NoUser, u}
        /\ displaced' = [x \in Conns |-> displaced[x] \/ x \in Displaced(c, u)]
        /\ st' = [x \in Conns |-> IF x \in Displaced(c, u) THEN "closing" ELSE st[x]]
        /\ Bind(c, u)
    BY <1>6 DEF JoinRoom, Speaks
  <2> QED BY <2>1 DEF Bind, Displaced
<1>7. CASE CheckTimeouts
  BY <1>7 DEF CheckTimeouts, TimedOut
<1>8. CASE Restart
  BY <1>8 DEF Restart
<1>9. ASSUME NEW c \in Conns,
             ListRooms(c) \/ (\E u \in Users : Heartbeat(c, u))
      PROVE Danglers'
  BY <1>1, <1>9 DEF ListRooms, Heartbeat, tables
<1>10. CASE Tick \/ ReapIdleRooms \/ UNCHANGED vars
  BY <1>1, <1>10 DEF Tick, ReapIdleRooms, tables, vars
<1> QED
  BY <1>2, <1>3, <1>4, <1>5, <1>6, <1>7, <1>8, <1>9, <1>10, NextIsStep DEF Step

\* The context a takeover dereferences is allocated, belongs to that user and
\* was not displaced: no use after free in process_join_room.
THEOREM NeverDangling ==
  ASSUME Plain, OneUser
  PROVE  Spec => []NoDanglingCtx
<1>1. Init => Danglers
  BY TypeInit DEF Init, Danglers, DisplacedClosing, NoDanglingCtx
<1>2. Danglers /\ [Next]_vars => Danglers'
  BY TypeStep, DanglersStep DEF Danglers
<1>3. Danglers => NoDanglingCtx
  BY DEF Danglers
<1> QED
  BY <1>1, <1>2, <1>3, PTL DEF Spec

-----------------------------------------------------------------------------
(* Seats.  Needs SoleCreate as well: every session is owned by the connection *)
(* that ctxOf names.                                                         *)

\* A context that was not displaced owns the session of its user.
Owner ==
  \A c \in Conns : st[c] # "free" /\ ~displaced[c] /\ uid[c] \in Users
                     => ctxOf[uid[c]] = c

\* While it is open the UserManager has its handle; only a connection that is
\* timing out loses that entry first.
OwnerKnown ==
  \A c \in Conns : st[c] = "open" /\ uid[c] \in Users => client[uid[c]] = c

\* A seat belongs to a user, and to a room that has it as a member.
SeatTaken ==
  \A c \in Conns : at[c] # NoRoom =>
     /\ uid[c] # NoUser
     /\ st[c] = "open" /\ uid[c] \in Users =>
          at[c] \in rooms /\ uid[c] \in members[at[c]]

Seats == Danglers /\ Owner /\ OwnerKnown /\ SeatTaken

\* Blank contexts: what a new connection starts with.
Blank == \A c \in Conns : st[c] = "free" => uid[c] = NoUser /\ at[c] = NoRoom

SeatInv == Seats /\ Blank

LEMMA SeatStep ==
  ASSUME Plain, OneUser, SoleCreate, SeatInv, Danglers', [Next]_vars
  PROVE  SeatInv'
<1> USE ConnAssumption, EscapeAssumption, RoomAssumption
    DEF SeatInv, Seats, Danglers, Owner, OwnerKnown, SeatTaken, Blank, Plain,
        TypeOK, DisplacedClosing
<1>1. CASE UNCHANGED <<st, uid, displaced, ctxOf, client, rooms, members, at>>
  BY <1>1
<1>2. ASSUME NEW c \in Conns, Connect(c) \/ Hangup(c) PROVE SeatInv'
  BY <1>2 DEF Connect, Hangup, tables, roomVars, clientVars
<1>3. ASSUME NEW c \in Conns, OnClose(c) PROVE SeatInv'
  <2>1. CASE ~Cascades(c)
    BY <1>3, <2>1 DEF OnClose, Cascades, tables
  <2>2. CASE Cascades(c)
    <3>1. /\ uid[c] \in Users /\ ctxOf[uid[c]] = c /\ st[c] = "closing"
          /\ \A x \in Conns \ {c} : st[x] = "open" => uid[x] # uid[c]
      BY <1>3, <2>2 DEF OnClose, Cascades
    <3>2. /\ members' \in [Rooms -> SUBSET Users] /\ rooms' = rooms
          /\ \A r \in Rooms : members[r] \ {uid[c]} \subseteq members'[r]
      BY <1>3, <2>2, <3>1 DEF OnClose, RemoveFrom
    <3>3. Erase(uid[c])
      BY <1>3, <2>2 DEF OnClose
    <3> QED
      BY <1>3, <3>1, <3>2, <3>3 DEF OnClose, Erase
  <2> QED BY <2>1, <2>2
<1>4. ASSUME NEW c \in Conns, NEW r \in Rooms, NEW u \in Users, LeaveRoom(c, r, u)
      PROVE SeatInv'
  <2>1. /\ st[c] = "open" /\ uid[c] = u /\ ctxOf[u] = c
        /\ \A x \in Conns \ {c} : st[x] # "free" /\ ~displaced[x] => uid[x] # u
    BY <1>4 DEF LeaveRoom
  <2>2. /\ rooms' = rooms
        /\ \A q \in Rooms : members[q] \ {u} \subseteq members'[q]
    BY <1>4 DEF LeaveRoom, RemoveFrom
  <2> QED
    BY <1>4, <2>1, <2>2 DEF LeaveRoom, Erase
<1>5. ASSUME NEW c \in Conns, NEW r \in Rooms, NEW u \in Users,
             NEW p \in Passwords \cup {NoPwd}, CreateRoom(c, r, u, p)
      PROVE SeatInv'
  <2>1. /\ st[c] = "open" /\ uid[c] \in {NoUser, u} /\ ctxOf[u] \in {NoConn, c}
        /\ UNCHANGED <<st, displaced>> /\ Bind(c, u)
    BY <1>5 DEF CreateRoom, Speaks
  <2>2. \/ UNCHANGED <<rooms, members, at>>
        \/ /\ r \notin rooms /\ rooms' = rooms \cup {r}
           /\ members' = [members EXCEPT ![r] = {u}]
           /\ at' = [at EXCEPT ![c] = r]
    BY <1>5 DEF CreateRoom, NewRoom, roomVars
  <2> QED BY <2>1, <2>2, SMTT(30) DEF Bind
<1>6. ASSUME NEW c \in Conns, NEW r \in Rooms, NEW u \in Users,
             NEW p \in Passwords \cup {NoPwd}, JoinRoom(c, r, u, p)
      PROVE SeatInv'
  <2>1. /\ st[c] = "open" /\ uid[c] \in {NoUser, u}
        /\ displaced' = [x \in Conns |-> displaced[x] \/ x \in Displaced(c, u)]
        /\ st' = [x \in Conns |-> IF x \in Displaced(c, u) THEN "closing" ELSE st[x]]
        /\ Bind(c, u)
    BY <1>6 DEF JoinRoom, Speaks
  <2>2. \/ UNCHANGED <<rooms, members, at>>
        \/ /\ r \notin rooms /\ rooms' = rooms \cup {r}
           /\ members' = [members EXCEPT ![r] = {u}]
           /\ at' = [at EXCEPT ![c] = r]
        \/ /\ r \in rooms /\ rooms' = rooms
           /\ members' = [members EXCEPT ![r] = @ \cup {u}]
           /\ at' = [at EXCEPT ![c] = r]
    BY <1>6 DEF JoinRoom, NewRoom, roomVars
  <2>3. ASSUME NEW x \in Conns, x # c, st'[x] # "free", ~displaced'[x]
        PROVE  /\ st'[x] = st[x] /\ ~displaced[x] /\ uid'[x] = uid[x]
               /\ uid[x] # u
    <3>1. x \notin Displaced(c, u) /\ ~displaced[x] /\ st'[x] = st[x]
      BY <2>1, <2>3
    <3>2. uid'[x] = uid[x]
      BY <2>1, <2>3 DEF Bind
    <3>3. ASSUME uid[x] = u PROVE FALSE
      BY <2>3, <3>1, <3>3 DEF Displaced
    <3> QED BY <3>1, <3>2, <3>3
  <2>4. ASSUME NEW x \in Conns, x # c, st'[x] = "open"
        PROVE  /\ st[x] = "open" /\ ~displaced'[x] /\ uid'[x] = uid[x] /\ uid[x] # u
    <3>1. ~displaced'[x]
      BY <2>4
    <3> QED BY <2>3, <2>4, <3>1
  <2>5. /\ uid'[c] = u /\ ctxOf'[u] = c /\ client'[u] = c
        /\ \A v \in Users \ {u} : ctxOf'[v] = ctxOf[v] /\ client'[v] = client[v]
    BY <2>1 DEF Bind
  <2>6. Owner'
    BY <2>3, <2>5
  <2>7. OwnerKnown'
    BY <2>4, <2>5
  <2>8. Blank'
    <3>1. \A x \in Conns : st'[x] = "free" => st[x] = "free" /\ x # c
      BY <2>1 DEF Displaced
    <3>2. \A x \in Conns : x # c => uid'[x] = uid[x] /\ at'[x] = at[x]
      BY <2>1, <2>2 DEF Bind
    <3> QED BY <3>1, <3>2
  <2>9. SeatTaken'
    <3>1. /\ \A x \in Conns : x # c => at'[x] = at[x] /\ uid'[x] = uid[x]
          /\ \A q \in rooms : q \in rooms' /\ members[q] \subseteq members'[q]
      BY <2>1, <2>2, SMTT(30) DEF Bind
    <3>2. at'[c] # NoRoom => at'[c] \in rooms' /\ u \in members'[at'[c]]
      BY <2>1, <2>2
    <3> QED BY <2>4, <2>5, <3>1, <3>2
  <2> QED BY <2>6, <2>7, <2>8, <2>9
<1>7. CASE CheckTimeouts
  BY <1>7 DEF CheckTimeouts, TimedOut, roomVars, clientVars
<1>8. CASE ReapIdleRooms
  BY <1>8 DEF ReapIdleRooms, Reapable, tables, clientVars
<1>9. CASE Restart
  BY <1>9 DEF Restart
<1>10. ASSUME NEW c \in Conns,
              ListRooms(c) \/ (\E u \in Users : Heartbeat(c, u))
       PROVE SeatInv'
  BY <1>1, <1>10 DEF ListRooms, Heartbeat, tables, roomVars, clientVars
<1>11. CASE Tick \/ UNCHANGED vars
  BY <1>1, <1>11 DEF Tick, vars, clientVars
<1> QED
  BY <1>2, <1>3, <1>4, <1>5, <1>6, <1>7, <1>8, <1>9, <1>10, <1>11, NextIsStep
  DEF Step

LEMMA SeatsAlways ==
  ASSUME Plain, OneUser, SoleCreate
  PROVE  Spec => []SeatInv
<1>1. Init => SeatInv
  BY TypeInit DEF Init, SeatInv, Seats, Danglers, DisplacedClosing,
     NoDanglingCtx, Owner, OwnerKnown, SeatTaken, Blank
<1>2. SeatInv /\ [Next]_vars => SeatInv'
  BY TypeStep, DanglersStep, SeatStep DEF SeatInv, Seats, Danglers
<1> QED
  BY <1>1, <1>2, PTL DEF Spec

\* No takeover, timeout, late close callback or reaping takes the seat of an
\* open connection away.
THEOREM SeatsAreKept ==
  ASSUME Plain, OneUser, SoleCreate
  PROVE  Spec => []SeatKept
<1>1. SeatInv => SeatKept
  BY DEF SeatInv, Seats, Danglers, Owner, OwnerKnown, SeatTaken, SeatKept,
     DisplacedClosing, TypeOK
<1> QED
  BY <1>1, SeatsAlways, PTL

-----------------------------------------------------------------------------
(* Ghosts.  LEAVE_ROOM leaves only the room it names, so a member is covered *)
(* by a connection that asked for that very room last.  SoleCreate is not    *)
(* needed: a session a CREATE_ROOM did not displace covers nobody else.      *)

\* The end of x, by LEAVE_ROOM or by closing, removes u from r.
Covers(x, r, u) ==
  st[x] # "free" /\ uid[x] = u /\ ~displaced[x] /\ asked[x] = r

Covered == \A r \in Rooms : \A u \in members[r] : \E x \in Conns : Covers(x, r, u)

\* A member that was one before keeps its cover, when nothing happened to it.
LEMMA CoverKept ==
  ASSUME Covered, TypeOK, NEW r \in Rooms, NEW u \in members[r],
         \A x \in Conns : Covers(x, r, u) => Covers(x, r, u)'
  PROVE  \E x \in Conns : Covers(x, r, u)'
<1>1. PICK x \in Conns : Covers(x, r, u)
  BY DEF Covered
<1> QED
  BY <1>1

\* Other users are not concerned by what c does for u.
LEMMA CoverElsewhere ==
  ASSUME Plain, OneUser, Danglers, NEW c \in Conns, NEW u \in Users,
         uid[c] \in {NoUser, u}, NEW x \in Conns, NEW r \in Rooms, NEW v \in Users \ {u},
         Covers(x, r, v)
  PROVE  x # c /\ x # ctxOf[u]
<1>1. x # c
  BY EscapeAssumption DEF Covers
<1>2. ASSUME x = ctxOf[u] PROVE FALSE
  BY <1>2, ConnAssumption DEF Covers, Danglers, NoDanglingCtx, Plain, TypeOK
<1> QED
  BY <1>1, <1>2

\* CREATE_ROOM and JOIN_ROOM: the user is in no other room, and c covers it.
LEMMA CoveredByEntry ==
  ASSUME Plain, OneUser, OneRoom, Danglers, TypeOK', Covered,
         NEW c \in Conns, NEW r \in Rooms, NEW u \in Users,
         NEW p \in Passwords \cup {NoPwd}, CreateRoom(c, r, u, p) \/ JoinRoom(c, r, u, p)
  PROVE  Covered'
<1> USE DEF Plain, Danglers, TypeOK, DisplacedClosing
<1>1. /\ st[c] = "open" /\ uid[c] \in {NoUser, u} /\ ~displaced[c]
      /\ \A q \in Rooms \ {r} : u \notin members[q]
  BY DEF CreateRoom, JoinRoom, Speaks, NowhereElse
<1>2. /\ uid' = [uid EXCEPT ![c] = u]
      /\ asked' = [asked EXCEPT ![c] = r]
  BY DEF CreateRoom, JoinRoom, Bind
<1>3. /\ st'[c] = "open" /\ ~displaced'[c]
      /\ \A x \in Conns : x # c /\ x # ctxOf[u] =>
           st'[x] = st[x] /\ displaced'[x] = displaced[x]
  BY <1>1 DEF CreateRoom, JoinRoom, Displaced
<1>4. \A q \in Rooms : q # r => members'[q] = members[q]
  BY DEF CreateRoom, JoinRoom, NewRoom, roomVars
<1>5. members'[r] \subseteq members[r] \cup {u}
  BY DEF CreateRoom, JoinRoom, NewRoom, roomVars
<1> SUFFICES ASSUME NEW q \in Rooms, NEW v \in members'[q]
             PROVE  \E x \in Conns : Covers(x, q, v)'
  BY DEF Covered
<1>6. CASE v = u
  <2>1. q = r
    BY <1>1, <1>4, <1>6
  <2>2. Covers(c, r, u)'
    BY <1>2, <1>3 DEF Covers
  <2> QED BY <1>6, <2>1, <2>2
<1>7. CASE v # u
  <2>1. v \in members[q] /\ v \in Users \ {u}
    BY <1>4, <1>5, <1>7
  <2>2. ASSUME NEW x \in Conns, Covers(x, q, v) PROVE Covers(x, q, v)'
    <3>1. x # c /\ x # ctxOf[u]
      BY <1>1, <2>1, <2>2, CoverElsewhere
    <3> QED BY <1>2, <1>3, <2>2, <3>1 DEF Covers
  <2> QED BY <2>1, <2>2, CoverKept
<1> QED BY <1>6, <1>7

\* LEAVE_ROOM removes the user from the room its connection covers it in.
LEMMA CoveredByLeave ==
  ASSUME Plain, OneUser, Danglers, Covered,
         NEW c \in Conns, NEW r \in Rooms, NEW u \in Users, LeaveRoom(c, r, u)
  PROVE  Covered'
<1> USE DEF Plain, Danglers, TypeOK
<1>1. /\ uid[c] = u /\ asked[c] = r /\ UNCHANGED <<st, displaced>>
      /\ \A x \in Conns \ {c} : uid'[x] = uid[x] /\ asked'[x] = asked[x]
  BY DEF LeaveRoom
<1>2. \A q \in Rooms : members'[q] \subseteq members[q]
  BY DEF LeaveRoom, RemoveFrom
<1>3. u \notin members'[r]
  BY DEF LeaveRoom, RemoveFrom
<1> SUFFICES ASSUME NEW q \in Rooms, NEW v \in members'[q]
             PROVE  \E x \in Conns : Covers(x, q, v)'
  BY DEF Covered
<1>4. v \in members[q]
  BY <1>2
<1>5. ASSUME NEW x \in Conns, Covers(x, q, v) PROVE Covers(x, q, v)'
  <2>1. x # c
    BY <1>1, <1>3, <1>5 DEF Covers
  <2> QED BY <1>1, <1>5, <2>1 DEF Covers
<1> QED BY <1>4, <1>5, CoverKept

\* The close callback removes the user of an undisplaced connection from every
\* room; a displaced one covered nobody.
LEMMA CoveredByClose ==
  ASSUME Plain, Danglers, Covered, NEW c \in Conns, OnClose(c)
  PROVE  Covered'
<1> USE DEF Danglers, TypeOK
<1>1. /\ displaced'[c] = FALSE
      /\ \A x \in Conns \ {c} : /\ st'[x] = st[x] /\ uid'[x] = uid[x]
                               /\ displaced'[x] = displaced[x] /\ asked'[x] = asked[x]
  BY DEF OnClose
<1>2. \A q \in Rooms : members'[q] \subseteq members[q]
  BY DEF OnClose, RemoveFrom
<1>3. ASSUME Cascades(c), NEW q \in Rooms PROVE uid[c] \notin members'[q]
  BY <1>3 DEF OnClose, RemoveFrom
<1> SUFFICES ASSUME NEW q \in Rooms, NEW v \in members'[q]
             PROVE  \E x \in Conns : Covers(x, q, v)'
  BY DEF Covered
<1>4. v \in members[q] /\ v \in Users
  BY <1>2
<1>5. ASSUME NEW x \in Conns, Covers(x, q, v) PROVE Covers(x, q, v)'
  <2>1. ASSUME x = c PROVE FALSE
    BY <1>3, <1>4, <1>5, <2>1 DEF Covers, Cascades
  <2> QED BY <1>1, <1>5, <2>1 DEF Covers
<1> QED BY <1>4, <1>5, CoverKept

LEMMA CoveredStep ==
  ASSUME Plain, OneUser, OneRoom, Danglers, TypeOK', Covered, [Next]_vars
  PROVE  Covered'
<1> USE DEF Danglers, TypeOK
<1>1. ASSUME \A q \in Rooms : members'[q] \subseteq members[q],
             \A x \in Conns : /\ st[x] # "free" => st'[x] # "free"
                             /\ uid'[x] = uid[x] /\ displaced'[x] = displaced[x]
                             /\ asked'[x] = asked[x]
      PROVE  Covered'
  BY <1>1 DEF Covered, Covers
<1>2. ASSUME NEW c \in Conns,
             \/ Connect(c) \/ Hangup(c) \/ ListRooms(c)
             \/ \E u \in Users : Heartbeat(c, u)
      PROVE  Covered'
  BY <1>1, <1>2 DEF Connect, Hangup, ListRooms, Heartbeat, clientVars, roomVars
<1>3. CASE Tick \/ CheckTimeouts \/ ReapIdleRooms \/ UNCHANGED vars
  BY <1>1, <1>3 DEF Tick, CheckTimeouts, ReapIdleRooms, clientVars, roomVars, vars
<1>4. CASE Restart
  BY <1>4 DEF Restart, Covered
<1> QED
  BY <1>2, <1>3, <1>4, CoveredByEntry, CoveredByLeave, CoveredByClose, NextIsStep
  DEF Step

LEMMA CoveredAlways ==
  ASSUME Plain, OneUser, OneRoom
  PROVE  Spec => [](Danglers /\ Covered)
<1>1. Init => Danglers /\ Covered
  BY TypeInit DEF Init, Danglers, DisplacedClosing, NoDanglingCtx, Covered
<1>2. (Danglers /\ Covered) /\ [Next]_vars => (Danglers /\ Covered)'
  BY TypeStep, DanglersStep, CoveredStep DEF Danglers
<1> QED
  BY <1>1, <1>2, PTL DEF Spec

\* No ghosts: whoever is a member of a room has a connection whose end removes
\* it, through takeovers, denied joins, timeouts and late close callbacks, also
\* for clients that CREATE_ROOM beside a session that lives on.
THEOREM NoGhostMembers ==
  ASSUME Plain, OneUser, OneRoom
  PROVE  Spec => []MemberHasSession
<1>1. Danglers /\ Covered => MemberHasSession
  BY DEF Covered, Covers, MemberHasSession, Danglers, TypeOK, Plain
<1> QED
  BY <1>1, CoveredAlways, PTL

-----------------------------------------------------------------------------
(* The registry.  For clients that keep all three disciplines the server     *)
(* implements SessionRegistry: every handler is one of its actions or changes *)
(* neither sessions nor memberships.                                          *)

\* The rooms each user is in, as the refinement maps them.
InRooms == [u \in Users |-> {r \in Rooms : u \in members[r]}]

\* Both tables name c, and no membership changes.
LEMMA TakesSession ==
  ASSUME NEW c \in Conns, NEW u \in Users, Bind(c, u), members' = members
  PROVE  Registry!Take(c, u)
<1>1. ctxOf' = [ctxOf EXCEPT ![u] = c]
  BY DEF Bind
<1>2. InRooms' = InRooms
  BY DEF InRooms
<1> QED
  BY <1>1, <1>2 DEF Registry!Take, InRooms

\* Both tables name c, and u is a member of r, of no other room.
LEMMA EntersRoom ==
  ASSUME NEW c \in Conns, NEW u \in Users, NEW r \in Rooms, Bind(c, u), TypeOK,
         \A q \in Rooms \ {r} : u \notin members[q],
         \A q \in Rooms \ {r} : members'[q] = members[q],
         members'[r] = members[r] \cup {u}
  PROVE  Registry!Enter(c, u, r)
<1>1. ctxOf' = [ctxOf EXCEPT ![u] = c]
  BY DEF Bind
<1>2. InRooms[u] \subseteq {r}
  BY DEF InRooms
<1>3. InRooms' = [InRooms EXCEPT ![u] = {r}]
  <2>1. InRooms'[u] = {r}
    BY DEF InRooms
  <2>2. ASSUME NEW v \in Users \ {u} PROVE InRooms'[v] = InRooms[v]
    BY DEF InRooms
  <2> QED BY <2>1, <2>2 DEF InRooms
<1> QED
  BY <1>1, <1>2, <1>3 DEF Registry!Enter, InRooms

\* The tables forget u, and so does every room.
LEMMA EndsSession ==
  ASSUME NEW u \in Users, Erase(u), TypeOK, ctxOf[u] # NoConn,
         \A q \in Rooms : members'[q] = members[q] \ {u}
  PROVE  Registry!End(u)
<1>1. ctxOf' = [ctxOf EXCEPT ![u] = NoConn]
  BY DEF Erase
<1>2. InRooms' = [InRooms EXCEPT ![u] = {}]
  <2>1. InRooms'[u] = {}
    BY DEF InRooms
  <2>2. ASSUME NEW v \in Users \ {u} PROVE InRooms'[v] = InRooms[v]
    BY DEF InRooms
  <2> QED BY <2>1, <2>2 DEF InRooms
<1> QED
  BY <1>1, <1>2 DEF Registry!End, InRooms

\* CREATE_ROOM and JOIN_ROOM: the session is taken over whether or not the
\* request is granted.
LEMMA EntryImplements ==
  ASSUME OneRoom, TypeOK, NEW c \in Conns, NEW r \in Rooms, NEW u \in Users,
         NEW p \in Passwords \cup {NoPwd}, CreateRoom(c, r, u, p) \/ JoinRoom(c, r, u, p)
  PROVE  Registry!Take(c, u) \/ Registry!Enter(c, u, r)
<1>1. Bind(c, u) /\ \A q \in Rooms \ {r} : u \notin members[q]
  BY DEF CreateRoom, JoinRoom, NowhereElse
<1>2. CASE members' = members
  BY <1>1, <1>2, TakesSession
<1>3. CASE r \notin rooms /\ members' = [members EXCEPT ![r] = {u}]
  <2>1. members[r] = {}
    BY <1>3 DEF TypeOK
  <2> QED BY <1>1, <1>3, <2>1, EntersRoom DEF TypeOK
<1>4. CASE members' = [members EXCEPT ![r] = @ \cup {u}]
  BY <1>1, <1>4, EntersRoom DEF TypeOK
<1> QED
  BY <1>2, <1>3, <1>4 DEF CreateRoom, JoinRoom, NewRoom, roomVars

\* LEAVE_ROOM leaves one room and forgets the session: the user is in no other,
\* as its only session is the one that covers it.
LEMMA LeavesEveryRoom ==
  ASSUME Plain, SeatInv, Covered,
         NEW c \in Conns, NEW r \in Rooms, NEW u \in Users, LeaveRoom(c, r, u)
  PROVE  /\ ctxOf[u] = c /\ Erase(u)
         /\ \A q \in Rooms \ {r} : u \notin members[q]
         /\ \A q \in Rooms : members'[q] = members[q] \ {u}
<1> USE DEF SeatInv, Seats, Danglers, TypeOK, Plain
<1>1. /\ st[c] = "open" /\ uid[c] = u /\ asked[c] = r /\ ~displaced[c]
      /\ Erase(u) /\ RemoveFrom({r} \cap rooms, u)
  BY DEF LeaveRoom, DisplacedClosing
<1>2. ctxOf[u] = c
  BY <1>1 DEF Owner
<1>3. ASSUME NEW q \in Rooms \ {r} PROVE u \notin members[q]
  <2> SUFFICES ASSUME u \in members[q] PROVE FALSE
    OBVIOUS
  <2>1. PICK x \in Conns : Covers(x, q, u)
    BY DEF Covered
  <2>2. x = c
    BY <1>2, <2>1 DEF Covers, Owner
  <2> QED BY <1>1, <2>1, <2>2 DEF Covers
<1>4. ASSUME NEW q \in Rooms PROVE members'[q] = members[q] \ {u}
  BY <1>1, <1>3 DEF RemoveFrom
<1> QED
  BY <1>1, <1>2, <1>3, <1>4

LEMMA LeaveImplements ==
  ASSUME Plain, SeatInv, Covered,
         NEW c \in Conns, NEW r \in Rooms, NEW u \in Users, LeaveRoom(c, r, u)
  PROVE  Registry!End(u)
<1>1. c # NoConn
  BY ConnAssumption
<1> QED
  BY <1>1, LeavesEveryRoom, EndsSession DEF SeatInv, Seats, Danglers

\* The close callback of the session's owner does so by looking at every room.
LEMMA CloseLeavesEveryRoom ==
  ASSUME SeatInv, NEW c \in Conns, OnClose(c), Cascades(c),
         NEW u \in Users, u = uid[c]
  PROVE  /\ ctxOf[u] = c /\ Erase(u)
         /\ \A q \in Rooms : members'[q] = members[q] \ {u}
<1> USE DEF SeatInv, Seats, Danglers, TypeOK
<1>1. Erase(u) /\ RemoveFrom({q \in rooms : u \in members[q]}, u)
  BY DEF OnClose, Cascades
<1>2. ctxOf[u] = c
  BY DEF OnClose, Cascades, Owner
<1>3. ASSUME NEW q \in Rooms PROVE members'[q] = members[q] \ {u}
  BY <1>1 DEF RemoveFrom
<1> QED
  BY <1>1, <1>2, <1>3

LEMMA CloseImplements ==
  ASSUME SeatInv, NEW c \in Conns, OnClose(c), Cascades(c),
         NEW u \in Users, u = uid[c]
  PROVE  Registry!End(u)
<1>1. c # NoConn
  BY ConnAssumption
<1> QED
  BY <1>1, CloseLeavesEveryRoom, EndsSession DEF SeatInv, Seats, Danglers

LEMMA RegistryStep ==
  ASSUME Plain, OneRoom, SeatInv, Covered, [Next]_vars
  PROVE  Registry!Next \/ (ctxOf' = ctxOf /\ InRooms' = InRooms)
<1>1. CASE UNCHANGED <<ctxOf, members>>
  BY <1>1 DEF InRooms
<1>2. ASSUME NEW c \in Conns, OnClose(c) PROVE Registry!Next \/ UNCHANGED <<ctxOf, members>>
  <2>1. CASE Cascades(c)
    <3>1. PICK u \in Users : u = uid[c]
      BY <2>1 DEF Cascades
    <3>2. Registry!End(u)
      BY <1>2, <2>1, <3>1, CloseImplements
    <3> QED BY <3>2 DEF Registry!Next
  <2>2. CASE ~Cascades(c)
    BY <1>2, <2>2 DEF OnClose, tables
  <2> QED BY <2>1, <2>2
<1>3. ASSUME NEW c \in Conns, NEW r \in Rooms, NEW u \in Users, LeaveRoom(c, r, u)
      PROVE Registry!Next
  BY <1>3, LeaveImplements DEF Registry!Next
<1>4. ASSUME NEW c \in Conns, NEW r \in Rooms, NEW u \in Users,
             NEW p \in Passwords \cup {NoPwd}, CreateRoom(c, r, u, p) \/ JoinRoom(c, r, u, p)
      PROVE Registry!Next
  BY <1>4, EntryImplements DEF Registry!Next, SeatInv, Seats, Danglers
<1>5. ASSUME NEW c \in Conns,
             \/ Connect(c) \/ Hangup(c) \/ ListRooms(c)
             \/ \E u \in Users : Heartbeat(c, u)
      PROVE UNCHANGED <<ctxOf, members>>
  BY <1>5 DEF Connect, Hangup, ListRooms, Heartbeat, tables, roomVars
<1>6. CASE Tick \/ CheckTimeouts \/ ReapIdleRooms \/ UNCHANGED vars
  BY <1>1, <1>6 DEF Tick, CheckTimeouts, ReapIdleRooms, tables, roomVars, vars
<1>7. CASE Restart
  <2>1. /\ ctxOf' = [u \in Users |-> NoConn]
        /\ InRooms' = [u \in Users |-> {}]
    BY <1>7 DEF Restart, InRooms
  <2> QED BY <2>1 DEF Registry!Next, Registry!Reset, InRooms
<1> QED
  BY <1>1, <1>2, <1>3, <1>4, <1>5, <1>6, <1>7, NextIsStep DEF Step

\* The server implements the promise of SessionRegistry: one session and one
\* room per user, a takeover keeps the room, and the end of the session is the
\* end of the membership.
THEOREM ImplementsRegistry ==
  ASSUME Plain, OneUser, OneRoom, SoleCreate
  PROVE  Spec => RegistrySpec
<1>1. Init => Registry!Init
  BY DEF Init, Registry!Init
<1>2. SeatInv /\ (Danglers /\ Covered) /\ [Next]_vars
        => [Registry!Next]_<<ctxOf, InRooms>>
  BY RegistryStep
<1>3. SeatInv /\ (Danglers /\ Covered) /\ [Next]_vars
        => [Registry!Next]_<<ctxOf, [u \in Users |-> {r \in Rooms : u \in members[r]}]>>
  BY <1>2 DEF InRooms
<1> QED
  BY <1>1, <1>3, SeatsAlways, CoveredAlways, PTL DEF Spec, RegistrySpec, Registry!Spec

-----------------------------------------------------------------------------
(* What a client can rely on, if all clients keep the three disciplines.     *)

\* The one room a user of an open connection is in is the one it asked for; so
\* is the one it has a seat in.
RoomAskedFor ==
  \A x \in Conns :
    /\ \A r \in Rooms : st[x] = "open" /\ uid[x] \in members[r] => asked[x] = r
    /\ st[x] = "open" /\ at[x] # NoRoom /\ uid[x] \in Users =>
         at[x] \in Rooms /\ uid[x] \in members[at[x]] /\ asked[x] = at[x]

\* What the server guarantees to clients that keep all three disciplines.
Served == SeatInv /\ Covered /\ TablesAgree /\ RoomAskedFor

LEMMA CoverIsOwn ==
  ASSUME Plain, SeatInv, Covered
  PROVE  RoomAskedFor
<1> USE DEF SeatInv, Seats, Danglers, TypeOK, DisplacedClosing
<1>1. ASSUME NEW x \in Conns, NEW r \in Rooms, st[x] = "open", uid[x] \in members[r]
      PROVE  asked[x] = r
  <2>1. uid[x] \in Users /\ ~displaced[x]
    BY <1>1
  <2>2. ctxOf[uid[x]] = x
    BY <1>1, <2>1 DEF Owner
  <2>3. PICK y \in Conns : Covers(y, r, uid[x])
    BY <1>1 DEF Covered
  <2>4. y = x
    BY <2>1, <2>2, <2>3 DEF Covers, Owner
  <2> QED BY <2>3, <2>4 DEF Covers
<1>2. ASSUME NEW x \in Conns, st[x] = "open", at[x] # NoRoom, uid[x] \in Users
      PROVE  at[x] \in Rooms /\ uid[x] \in members[at[x]]
  BY <1>2 DEF SeatTaken
<1> QED
  BY <1>1, <1>2 DEF RoomAskedFor

LEMMA ServedAlways ==
  ASSUME Plain, OneUser, OneRoom, SoleCreate
  PROVE  Spec => []Served
<1>1. SeatInv /\ (Danglers /\ Covered) /\ TablesAgree => Served
  BY CoverIsOwn DEF Served
<1> QED
  BY <1>1, SeatsAlways, CoveredAlways, TablesAlwaysAgree, PTL

\* Who hears a broadcast: the connections, open after the step, of the members.
LEMMA HearsMembers ==
  ASSUME Plain, Served', TypeOK, NEW x \in Conns, NEW r \in Rooms, NEW u \in Users
  PROVE  Hears(x, r, u) <=> st'[x] = "open" /\ uid'[x] \in members[r] \ {u}
<1> USE ConnAssumption DEF Served, SeatInv, Seats, Danglers, TypeOK, Plain
<1>1. ASSUME Hears(x, r, u) PROVE st'[x] = "open" /\ uid'[x] \in members[r] \ {u}
  <2>1. PICK v \in members[r] \ {u} : client'[v] = x
    BY <1>1 DEF Hears
  <2>2. v \in Users
    OBVIOUS
  <2>3. ctxOf'[v] = x
    BY <2>1, <2>2 DEF TablesAgree
  <2>4. uid'[x] = v
    BY <2>2, <2>3 DEF NoDanglingCtx
  <2> QED BY <1>1, <2>1, <2>4 DEF Hears
<1>2. ASSUME st'[x] = "open", uid'[x] \in members[r] \ {u} PROVE Hears(x, r, u)
  <2>1. client'[uid'[x]] = x
    BY <1>2 DEF OwnerKnown
  <2> QED BY <1>2, <2>1 DEF Hears
<1> QED
  BY <1>1, <1>2

-----------------------------------------------------------------------------
(* The reducer, on the sets of frames the server writes in one step.        *)

\* Frames the reducer of the list ignores.
Quiet(frames) == \A f \in frames : f[1] \notin {"PEER_LIST", "PEER_JOINED", "PEER_LEFT"}

LEMMA ShownNothing ==
  ASSUME NEW list, NEW frames, Quiet(frames)
  PROVE  Shown(list, frames) = list
BY DEF Shown, Quiet

LEMMA ShownListed ==
  ASSUME NEW list, NEW quiet, Quiet(quiet), NEW f, f[1] = "PEER_LIST"
  PROVE  Shown(list, quiet \cup {f}) = f[3]
<1>1. {g \in quiet \cup {f} : g[1] = "PEER_LIST"} = {f}
  BY DEF Quiet
<1>2. /\ {g \in quiet \cup {f} : g[1] = "PEER_JOINED"} = {}
      /\ {g \in quiet \cup {f} : g[1] = "PEER_LEFT"} = {}
  BY DEF Quiet
<1>3. {g[3] : g \in {f}} = {f[3]} /\ {g[3] : g \in {}} = {}
  OBVIOUS
<1>4. Shown(list, quiet \cup {f}) = (UNION {f[3]} \cup {}) \ {}
  BY <1>1, <1>2, <1>3, {f[3]} # {}, Zenon DEF Shown
<1> QED
  BY <1>4

LEMMA ShownJoined ==
  ASSUME NEW list, NEW quiet, Quiet(quiet), NEW f, f[1] = "PEER_JOINED"
  PROVE  Shown(list, quiet \cup {f}) = list \cup {f[3]}
<1>1. {g \in quiet \cup {f} : g[1] = "PEER_JOINED"} = {f}
  BY DEF Quiet
<1>2. /\ {g \in quiet \cup {f} : g[1] = "PEER_LIST"} = {}
      /\ {g \in quiet \cup {f} : g[1] = "PEER_LEFT"} = {}
  BY DEF Quiet
<1>3. {g[3] : g \in {f}} = {f[3]} /\ {g[3] : g \in {}} = {}
  OBVIOUS
<1> QED
  BY <1>1, <1>2, <1>3, Zenon DEF Shown

\* Whether or not the frame comes, as long as it comes to whoever shows u.
LEMMA ShownLeft ==
  ASSUME NEW list, NEW frames, NEW u,
         \A f \in frames : f[1] \notin {"PEER_LIST", "PEER_JOINED"},
         \A f \in frames : f[1] = "PEER_LEFT" => f[3] = u,
         u \in list => \E f \in frames : f[1] = "PEER_LEFT"
  PROVE  Shown(list, frames) = list \ {u}
<1> DEFINE left == {f[3] : f \in {g \in frames : g[1] = "PEER_LEFT"}}
<1>1. left \subseteq {u} /\ (u \in list => left = {u})
  OBVIOUS
<1>2. /\ {f[3] : f \in {g \in frames : g[1] = "PEER_LIST"}} = {}
      /\ {f[3] : f \in {g \in frames : g[1] = "PEER_JOINED"}} = {}
  OBVIOUS
<1>3. Shown(list, frames) = list \ left
  BY <1>2 DEF Shown
<1> QED
  BY <1>1, <1>3

\* The newcomer's list is the one it is sent, if there was anyone to list.
LEMMA JoinShownToNewcomer ==
  ASSUME Plain, Served', TypeOK, NEW c \in Conns, NEW r \in Rooms, NEW u \in Users,
         uid'[c] = u, NEW told, c \notin told, NEW list
  PROVE  Shown(list, Notice(told, u, c) \cup JoinFrames(c, r, u, c)) =
           IF members[r] \subseteq {u} THEN list ELSE members[r] \ {u}
<1> DEFINE ack == {<<"JOIN_ROOM_ACK", r>>}
           listed == <<"PEER_LIST", r, members[r] \ {u}>>
<1>1. ~Hears(c, r, u)
  BY HearsMembers
<1>2. Quiet(ack)
  BY DEF Quiet
<1>3. listed[1] = "PEER_LIST" /\ listed[3] = members[r] \ {u}
  OBVIOUS
<1>4. Notice(told, u, c) \cup JoinFrames(c, r, u, c) =
        IF members[r] \subseteq {u} THEN ack ELSE ack \cup {listed}
  BY <1>1 DEF Notice, JoinFrames
<1> HIDE DEF ack, listed
<1>5. Shown(list, ack) = list
  BY <1>2, ShownNothing
<1>6. Shown(list, ack \cup {listed}) = members[r] \ {u}
  BY <1>2, <1>3, ShownListed
<1> QED
  BY <1>4, <1>5, <1>6

\* A member that stays open shows the newcomer; nobody else hears of it.
LEMMA JoinShownToOthers ==
  ASSUME Plain, Served', TypeOK, NEW c \in Conns, NEW r \in Rooms, NEW u \in Users,
         NEW x \in Conns, x # c, st'[x] = "open", NEW told, NEW list
  PROVE  LET frames == Notice(told, u, x) \cup JoinFrames(c, r, u, x)
         IN  \/ uid'[x] \in members[r] \ {u} /\ Shown(list, frames) = list \cup {u}
             \/ uid'[x] \notin members[r] \ {u} /\ Shown(list, frames) = list
<1> DEFINE notice == Notice(told, u, x)
           joined == <<"PEER_JOINED", r, u>>
<1>1. Hears(x, r, u) <=> uid'[x] \in members[r] \ {u}
  BY HearsMembers
<1>2. Quiet(notice)
  BY DEF Notice, Quiet
<1>3. joined[1] = "PEER_JOINED" /\ joined[3] = u
  OBVIOUS
<1>4. notice \cup JoinFrames(c, r, u, x) =
        IF Hears(x, r, u) THEN notice \cup {joined} ELSE notice
  BY DEF JoinFrames
<1> HIDE DEF notice, joined
<1>5. Shown(list, notice) = list
  BY <1>2, ShownNothing
<1>6. Shown(list, notice \cup {joined}) = list \cup {u}
  BY <1>2, <1>3, ShownJoined
<1>7. CASE Hears(x, r, u)
  <2>1. Shown(list, notice \cup JoinFrames(c, r, u, x)) = list \cup {u}
    BY <1>4, <1>6, <1>7
  <2> QED BY <1>1, <1>7, <2>1 DEF notice
<1>8. CASE ~Hears(x, r, u)
  <2>1. Shown(list, notice \cup JoinFrames(c, r, u, x)) = list
    BY <1>4, <1>5, <1>8
  <2> QED BY <1>1, <1>8, <2>1 DEF notice
<1> QED
  BY <1>7, <1>8
=============================================================================
