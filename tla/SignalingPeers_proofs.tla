----------------------- MODULE SignalingPeers_proofs -----------------------
(***************************************************************************)
(* What the clients of the signaling server show: for any number of        *)
(* connections, users and rooms, a client that has a seat shows exactly    *)
(* the other members of its room.                                          *)
(***************************************************************************)
EXTENDS SignalingPeers, SignalingServer_proofs

-----------------------------------------------------------------------------
(* The invariant.                                                           *)

\* A list is only ever shown by an open connection whose user is a member of the
\* room it asked for last, and names other members of that room.  A connection
\* that took a session over and was then denied the room hears of it too.
Heard ==
  \A x \in Conns : \A w \in peers[x] :
    /\ st[x] = "open" /\ asked[x] \in Rooms
    /\ uid[x] \in members[asked[x]]
    /\ w \in members[asked[x]] \ {uid[x]}

PeersInv == Heard /\ PeersAgree

-----------------------------------------------------------------------------
(* What a step means for the client at the end of one connection.           *)

\* The invariant, of one connection.
HeardOf(x) ==
  \A w \in peers[x] :
    /\ st[x] = "open" /\ asked[x] \in Rooms
    /\ uid[x] \in members[asked[x]]
    /\ w \in members[asked[x]] \ {uid[x]}
AgreesOf(x) ==
  st[x] = "open" /\ at[x] # NoRoom /\ uid[x] \in Users =>
    peers[x] = members[at[x]] \ {uid[x]}
Fine(x) == HeardOf(x) /\ AgreesOf(x)

\* Nothing of the client's own changes.
Untouched(x) ==
  /\ st[x] = "open" /\ st'[x] = "open"
  /\ uid'[x] = uid[x] /\ asked'[x] = asked[x] /\ at'[x] = at[x]

LEMMA FineIfCleared ==
  ASSUME Served', NEW x \in Conns, Cleared(x), peers'[x] = {}
  PROVE  Fine(x)'
<1>1. HeardOf(x)'
  BY DEF HeardOf
<1>2. ASSUME st'[x] = "open", at'[x] # NoRoom, uid'[x] \in Users PROVE FALSE
  BY <1>2, RoomAssumption DEF Cleared, Served, RoomAskedFor
<1> QED
  BY <1>1, <1>2 DEF Fine, AgreesOf

LEMMA FineIfQuiet ==
  ASSUME NEW x \in Conns, Fine(x), Untouched(x), members' = members, peers'[x] = peers[x]
  PROVE  Fine(x)'
BY DEF Fine, HeardOf, AgreesOf, Untouched

\* Another member left, and a frame said so to whoever showed it.
LEMMA FineIfGone ==
  ASSUME Served, NEW x \in Conns, NEW w \in Users, Fine(x), Untouched(x), uid[x] # w,
         \A q \in Rooms : members'[q] = members[q] \ {w},
         peers'[x] = peers[x] \ {w}
  PROVE  Fine(x)'
<1>1. HeardOf(x)'
  BY DEF Fine, HeardOf, Untouched
<1>2. AgreesOf(x)'
  <2> SUFFICES ASSUME at[x] # NoRoom, uid[x] \in Users
               PROVE  peers'[x] = members'[at[x]] \ {uid[x]}
    BY DEF AgreesOf, Untouched
  <2>1. at[x] \in Rooms
    BY DEF Untouched, Served, RoomAskedFor
  <2> QED BY <2>1 DEF Fine, AgreesOf, Untouched
<1> QED
  BY <1>1, <1>2 DEF Fine

\* The members of r are those it had and u; no other room changes.
Gains(r, u) ==
  /\ members'[r] = members[r] \cup {u}
  /\ \A q \in Rooms \ {r} : members'[q] = members[q]

\* Another user joined, and a frame said so to the members of that room alone.
LEMMA FineIfJoined ==
  ASSUME Served, NEW x \in Conns, NEW r \in Rooms, NEW u \in Users,
         Fine(x), Untouched(x), uid[x] # u, Gains(r, u),
         peers'[x] = IF uid[x] \in members[r] THEN peers[x] \cup {u} ELSE peers[x]
  PROVE  Fine(x)'
<1>1. uid[x] \in members[r] => asked[x] = r
  BY DEF Served, RoomAskedFor, Untouched
<1>2. HeardOf(x)'
  BY <1>1 DEF Fine, HeardOf, Untouched, Gains
<1>3. AgreesOf(x)'
  <2> SUFFICES ASSUME at[x] # NoRoom, uid[x] \in Users
               PROVE  peers'[x] = members'[at[x]] \ {uid[x]}
    BY DEF AgreesOf, Untouched
  <2>1. at[x] \in Rooms /\ uid[x] \in members[at[x]] /\ asked[x] = at[x]
    BY DEF Untouched, Served, RoomAskedFor
  <2>2. peers[x] = members[at[x]] \ {uid[x]}
    BY DEF Fine, AgreesOf, Untouched
  <2> QED BY <1>1, <2>1, <2>2 DEF Gains
<1> QED
  BY <1>2, <1>3 DEF Fine

\* The request of c for room r and user u, seen from c before any answer.
Requests(c, r, u) ==
  /\ st[c] = "open" /\ uid[c] \in {NoUser, u} /\ \A q \in Rooms \ {r} : u \notin members[q]
  /\ st'[c] = "open" /\ uid'[c] = u /\ asked'[c] = r

\* What c shows before the answer is at most what room r has.
LEMMA ShownBeforeAnswer ==
  ASSUME Served, NEW c \in Conns, NEW r \in Rooms, NEW u \in Users,
         Fine(c), Requests(c, r, u), peers[c] # {}
  PROVE  asked[c] = r /\ u \in members[r] /\ peers[c] \subseteq members[r] \ {u}
<1>1. PICK w \in peers[c] : TRUE
  OBVIOUS
<1>2. asked[c] \in Rooms /\ uid[c] \in members[asked[c]] /\ uid[c] \in Users
  BY <1>1 DEF Fine, HeardOf, Served, SeatInv, Seats, Danglers, TypeOK
<1>3. uid[c] = u
  BY <1>2, EscapeAssumption DEF Requests
<1>4. asked[c] = r
  BY <1>2, <1>3 DEF Requests
<1> QED
  BY <1>2, <1>3, <1>4 DEF Fine, HeardOf

\* The request was granted: the list is the one it was sent, if there was one.
LEMMA FineIfEntered ==
  ASSUME Served, NEW c \in Conns, NEW r \in Rooms, NEW u \in Users,
         Fine(c), Requests(c, r, u), at'[c] = r, Gains(r, u),
         peers'[c] = IF members[r] \subseteq {u} THEN peers[c] ELSE members[r] \ {u}
  PROVE  Fine(c)'
<1>1. peers'[c] = members[r] \ {u}
  BY ShownBeforeAnswer
<1> QED
  BY <1>1 DEF Fine, HeardOf, AgreesOf, Requests, Gains

\* The request was refused, after the takeover.
LEMMA FineIfRefused ==
  ASSUME Served, NEW c \in Conns, NEW r \in Rooms, NEW u \in Users,
         Fine(c), Requests(c, r, u), at'[c] = at[c], members' = members,
         peers'[c] = peers[c]
  PROVE  Fine(c)'
<1>1. HeardOf(c)'
  BY ShownBeforeAnswer DEF Fine, HeardOf, Requests
<1>2. AgreesOf(c)'
  <2> SUFFICES ASSUME at[c] # NoRoom PROVE peers[c] = members[at[c]] \ {u}
    BY DEF AgreesOf, Requests
  <2>1. uid[c] = u
    BY DEF Served, SeatInv, Seats, SeatTaken, Requests
  <2> QED BY <2>1 DEF Fine, AgreesOf, Requests
<1> QED
  BY <1>1, <1>2 DEF Fine

-----------------------------------------------------------------------------
(* The steps.                                                               *)

\* A step that leaves memberships, the client and its list alone.
Calm(x) == Untouched(x) /\ members' = members /\ peers'[x] = peers[x]

\* What PNext says of the client at x.
Reduced(x) == peers'[x] = IF Cleared(x) THEN {} ELSE Shown(peers[x], out'[x])

LEMMA UntouchedIsNotCleared ==
  ASSUME NEW x \in Conns, Untouched(x)
  PROVE  ~Cleared(x)
BY DEF Untouched, Cleared

\* CREATE_ROOM.  A room it makes was empty before.
LEMMA CreateFine ==
  ASSUME Plain, OneUser, OneRoom, Served, Served',
         NEW c \in Conns, NEW r \in Rooms, NEW u \in Users,
         NEW p \in Passwords \cup {NoPwd}, CreateRoom(c, r, u, p), SoleCreate,
         NEW x \in Conns, Fine(x), Reduced(x), st[x] = "open"
  PROVE  Fine(x)'
<1> USE DEF Served, SeatInv, Seats, Danglers, TypeOK, Plain
<1>1. Requests(c, r, u) /\ ctxOf[u] \in {NoConn, c}
  BY DEF CreateRoom, Speaks, NowhereElse, Bind, Requests
<1>2. x # c => Untouched(x) /\ uid[x] # u
  <2>1. ASSUME x # c PROVE Untouched(x)
    <3>1. st'[x] = st[x] /\ uid'[x] = uid[x] /\ asked'[x] = asked[x]
      BY <2>1 DEF CreateRoom, Bind
    <3>2. at'[x] = at[x]
      BY <2>1 DEF CreateRoom
    <3> QED BY <3>1, <3>2 DEF Untouched
  <2>2. ASSUME x # c, uid[x] = u PROVE FALSE
    BY <1>1, <2>2, ConnAssumption DEF Owner, DisplacedClosing
  <2> QED BY <2>1, <2>2
<1>3. Quiet(out'[x])
  BY DEF CreateRoom, Silence, Quiet
<1>4. ~Cleared(x)
  BY <1>1, <1>2, RoomAssumption DEF Cleared, Untouched, Requests
<1>5. peers'[x] = peers[x]
  BY <1>3, <1>4, ShownNothing DEF Reduced
<1>6. CASE members' = members /\ at' = at
  BY <1>1, <1>2, <1>5, <1>6, FineIfQuiet, FineIfRefused
<1>7. CASE /\ r \notin rooms /\ members' = [members EXCEPT ![r] = {u}]
           /\ at' = [at EXCEPT ![c] = r]
  <2>1. members[r] = {} /\ Gains(r, u)
    BY <1>7 DEF Gains
  <2>2. CASE x = c
    BY <1>1, <1>5, <1>7, <2>1, <2>2, FineIfEntered
  <2>3. CASE x # c
    BY <1>2, <1>5, <2>1, <2>3, FineIfJoined
  <2> QED BY <2>2, <2>3
<1> QED
  BY <1>6, <1>7 DEF CreateRoom, NewRoom, roomVars

\* JOIN_ROOM, granted or denied.
LEMMA JoinFine ==
  ASSUME Plain, OneUser, OneRoom, Served, Served', TypeOK,
         NEW c \in Conns, NEW r \in Rooms, NEW u \in Users,
         NEW p \in Passwords \cup {NoPwd}, JoinRoom(c, r, u, p),
         NEW x \in Conns, Fine(x), Reduced(x), st[x] = "open"
  PROVE  Fine(x)'
<1> USE DEF Served, SeatInv, Seats, Danglers, TypeOK, Plain
<1>1. /\ displaced' = [y \in Conns |-> displaced[y] \/ y \in Displaced(c, u)]
      /\ st' = [y \in Conns |-> IF y \in Displaced(c, u) THEN "closing" ELSE st[y]]
      /\ Bind(c, u) /\ asked' = [asked EXCEPT ![c] = r]
  BY DEF JoinRoom
<1>2. c \notin Displaced(c, u)
  BY DEF Displaced
<1>3. Requests(c, r, u)
  <2>1. st[c] = "open" /\ uid[c] \in {NoUser, u} /\ \A q \in Rooms \ {r} : u \notin members[q]
    BY DEF JoinRoom, Speaks, NowhereElse
  <2> QED BY <1>1, <1>2, <2>1 DEF Requests, Bind
<1>4. CASE x \in Displaced(c, u)
  <2>1. Cleared(x)
    BY <1>1, <1>4 DEF Cleared
  <2> QED BY <2>1, FineIfCleared DEF Reduced
<1>5. CASE x \notin Displaced(c, u)
  <2>1. st'[x] = "open" /\ ~Cleared(x)
    BY <1>1, <1>5, RoomAssumption DEF Cleared
  <2>2. peers'[x] = Shown(peers[x], out'[x])
    BY <2>1 DEF Reduced
  <2>3. x # c => uid[x] # u /\ uid'[x] = uid[x] /\ asked'[x] = asked[x]
    <3>1. ASSUME x # c, uid[x] = u PROVE FALSE
      <4>1. ctxOf[u] = x
        BY <3>1 DEF Owner, DisplacedClosing
      <4> QED BY <1>5, <3>1, <4>1 DEF Displaced
    <3> QED BY <1>1, <3>1 DEF Bind
  <2>4. uid'[c] = u
    BY <1>3 DEF Requests
  <2> DEFINE D == {y \in Displaced(c, u) : st[y] = "open"}
  <2>5. ASSUME NEW told \in SUBSET D, at' = [at EXCEPT ![c] = r], Gains(r, u),
               out' = [y \in Conns |-> Notice(told, u, y) \cup JoinFrames(c, r, u, y)]
        PROVE  Fine(x)'
    <3>1. c \notin told
      BY <1>2
    <3>2. out'[x] = Notice(told, u, x) \cup JoinFrames(c, r, u, x)
      BY <2>5
    <3>3. CASE x = c
      <4>2. at'[c] = r
        BY <2>5
      <4> HIDE DEF Served, SeatInv, Seats, Danglers, TypeOK, Plain, D
      <4>0. Shown(peers[c], Notice(told, u, c) \cup JoinFrames(c, r, u, c)) =
              IF members[r] \subseteq {u} THEN peers[c] ELSE members[r] \ {u}
        BY <2>4, <3>1, JoinShownToNewcomer
      <4>1. peers'[c] = IF members[r] \subseteq {u} THEN peers[c] ELSE members[r] \ {u}
        BY <2>2, <3>2, <3>3, <4>0
      <4> QED BY <1>3, <2>5, <3>3, <4>1, <4>2, FineIfEntered
    <3>4. CASE x # c
      <4> HIDE DEF Served, SeatInv, Seats, Danglers, TypeOK, Plain, D
      <4> DEFINE frames == Notice(told, u, x) \cup JoinFrames(c, r, u, x)
      <4>1. \/ uid'[x] \in members[r] \ {u} /\ Shown(peers[x], frames) = peers[x] \cup {u}
            \/ uid'[x] \notin members[r] \ {u} /\ Shown(peers[x], frames) = peers[x]
        BY <2>1, <3>4, JoinShownToOthers
      <4> HIDE DEF frames
      <4>3. peers'[x] = IF uid[x] \in members[r] THEN peers[x] \cup {u} ELSE peers[x]
        BY <2>2, <2>3, <3>2, <3>4, <4>1 DEF frames
      <4>2. Untouched(x)
        BY <2>1, <2>3, <2>5, <3>4 DEF Untouched
      <4> QED BY <2>3, <2>5, <3>4, <4>2, <4>3, FineIfJoined
    <3> QED BY <3>3, <3>4
  <2>6. ASSUME NEW told \in SUBSET D, UNCHANGED <<roomVars, at>>,
               out' = [y \in Conns |->
                         Notice(told, u, y) \cup IF y = c THEN {<<"ERROR">>} ELSE {}]
        PROVE  Fine(x)'
    <3>1. Quiet(out'[x])
      BY <2>6 DEF Notice, Quiet
    <3>2. peers'[x] = peers[x]
      BY <2>2, <3>1, ShownNothing
    <3>3. members' = members /\ at' = at
      BY <2>6 DEF roomVars
    <3>4. x # c => Untouched(x)
      BY <2>1, <2>3, <3>3 DEF Untouched
    <3> QED BY <1>3, <3>2, <3>3, <3>4, FineIfQuiet, FineIfRefused
  <2>7. PICK told \in SUBSET D :
       \/ /\ r \notin rooms
          /\ NewRoom(r, u, NoPwd)
          /\ at' = [at EXCEPT ![c] = r]
          /\ out' = [y \in Conns |-> Notice(told, u, y) \cup JoinFrames(c, r, u, y)]
       \/ /\ out' = [y \in Conns |->
                       Notice(told, u, y) \cup IF y = c THEN {<<"ERROR">>} ELSE {}]
          /\ UNCHANGED <<roomVars, at>>
       \/ /\ members' = [members EXCEPT ![r] = @ \cup {u}]
          /\ at' = [at EXCEPT ![c] = r]
          /\ out' = [y \in Conns |-> Notice(told, u, y) \cup JoinFrames(c, r, u, y)]
    BY DEF JoinRoom
  <2>8. ASSUME r \notin rooms, NewRoom(r, u, NoPwd) PROVE Gains(r, u)
    BY <2>8 DEF NewRoom, Gains
  <2>9. ASSUME members' = [members EXCEPT ![r] = @ \cup {u}] PROVE Gains(r, u)
    BY <2>9 DEF Gains
  <2> HIDE DEF D
  <2> QED BY <2>5, <2>6, <2>7, <2>8, <2>9
<1> QED
  BY <1>4, <1>5

\* The end of a session tells whoever shows its user, and nobody else's list
\* changes.
LEMMA EndFine ==
  ASSUME Plain, Served, Served', NEW c \in Conns, NEW u \in Users, ctxOf[u] = c,
         st[c] # "free", ~displaced[c],
         \A q \in Rooms : members'[q] = members[q] \ {u},
         NEW x \in Conns, x # c, Fine(x), Reduced(x), Untouched(x),
         \A f \in out'[x] : f[1] = "PEER_LEFT" /\ f[3] = u,
         \A q \in rooms : u \in members[q] /\ Hears(x, q, u) => <<"PEER_LEFT", q, u>> \in out'[x]
  PROVE  Fine(x)'
<1>1. TypeOK
  BY DEF Served, SeatInv, Seats, Danglers
<1>2. uid[x] # u
  BY <1>1, ConnAssumption DEF Untouched, Served, SeatInv, Seats, Danglers, Owner, DisplacedClosing, TypeOK
<1>3. ASSUME u \in peers[x] PROVE \E f \in out'[x] : f[1] = "PEER_LEFT"
  <2> DEFINE q == asked[x]
  <2>1. q \in Rooms /\ u \in members[q] /\ uid[x] \in members[q] \ {u}
    BY <1>2, <1>3 DEF Fine, HeardOf
  <2>2. q \in rooms
    BY <1>1, <2>1 DEF TypeOK
  <2>3. Hears(x, q, u)
    <3>1. st'[x] = "open" /\ uid'[x] \in members[q] \ {u}
      BY <2>1 DEF Untouched
    <3> HIDE DEF q
    <3> QED BY <1>1, <2>1, <3>1, HearsMembers
  <2> QED BY <2>1, <2>2, <2>3
<1>4. \A f \in out'[x] : f[1] \notin {"PEER_LIST", "PEER_JOINED"}
  OBVIOUS
<1>5. Shown(peers[x], out'[x]) = peers[x] \ {u}
  BY <1>3, <1>4, ShownLeft
<1>6. peers'[x] = peers[x] \ {u}
  BY <1>5, UntouchedIsNotCleared DEF Reduced
<1> QED
  BY <1>2, <1>6, FineIfGone

\* LEAVE_ROOM.
LEMMA LeaveFine ==
  ASSUME Plain, Served, Served',
         NEW c \in Conns, NEW r \in Rooms, NEW u \in Users, LeaveRoom(c, r, u),
         NEW x \in Conns, Fine(x), Reduced(x), st[x] = "open"
  PROVE  Fine(x)'
<1> USE DEF Served, SeatInv, Seats, Danglers, TypeOK
<1>1. CASE x = c
  <2>1. Cleared(x)
    BY <1>1, RoomAssumption DEF LeaveRoom, Cleared
  <2> QED BY <2>1, FineIfCleared DEF Reduced
<1>2. CASE x # c
  <2>1. Untouched(x)
    BY <1>2 DEF LeaveRoom, Untouched
  <2>2. /\ ctxOf[u] = c /\ \A q \in Rooms \ {r} : u \notin members[q]
        /\ \A q \in Rooms : members'[q] = members[q] \ {u}
    BY LeavesEveryRoom
  <2>3. st[c] # "free" /\ ~displaced[c]
    BY DEF LeaveRoom, DisplacedClosing
  <2>4. out'[x] = IF Hears(x, r, u) THEN {<<"PEER_LEFT", r, u>>} ELSE {}
    BY <1>2 DEF LeaveRoom
  <2>5. \A f \in out'[x] : f[1] = "PEER_LEFT" /\ f[3] = u
    BY <2>4
  <2>6. \A q \in rooms : u \in members[q] /\ Hears(x, q, u) => <<"PEER_LEFT", q, u>> \in out'[x]
    BY <2>2, <2>4
  <2> HIDE DEF Served, SeatInv, Seats, Danglers, TypeOK
  <2> QED BY <1>2, <2>1, <2>2, <2>3, <2>5, <2>6, EndFine
<1> QED
  BY <1>1, <1>2

\* The close callback; that of a displaced connection is silent.
LEMMA CloseFine ==
  ASSUME Plain, Served, Served', NEW c \in Conns, OnClose(c),
         NEW x \in Conns, Fine(x), Reduced(x), st[x] = "open"
  PROVE  Fine(x)'
<1> USE DEF Served, SeatInv, Seats, Danglers, TypeOK
<1>1. x # c /\ Untouched(x)
  BY DEF OnClose, Untouched
<1>2. CASE Cascades(c)
  <2>1. PICK u \in Users : u = uid[c]
    BY <1>2 DEF Cascades
  <2>2. ctxOf[u] = c /\ \A q \in Rooms : members'[q] = members[q] \ {u}
    BY <1>2, <2>1, CloseLeavesEveryRoom
  <2>3. st[c] # "free" /\ ~displaced[c]
    BY <1>2 DEF OnClose, Cascades
  <2>4. out'[x] = {<<"PEER_LEFT", q, u>> :
                     q \in {q \in rooms : u \in members[q] /\ Hears(x, q, u)}}
    BY <1>2, <2>1 DEF OnClose
  <2>5. \A f \in out'[x] : f[1] = "PEER_LEFT" /\ f[3] = u
    BY <2>4
  <2>6. \A q \in rooms : u \in members[q] /\ Hears(x, q, u) => <<"PEER_LEFT", q, u>> \in out'[x]
    BY <2>4
  <2> HIDE DEF Served, SeatInv, Seats, Danglers, TypeOK
  <2> QED BY <1>1, <2>2, <2>3, <2>5, <2>6, EndFine
<1>3. CASE ~Cascades(c)
  <2>1. members' = members /\ Quiet(out'[x])
    BY <1>3 DEF OnClose, Silence, Quiet
  <2>2. peers'[x] = peers[x]
    BY <1>1, <2>1, UntouchedIsNotCleared, ShownNothing DEF Reduced
  <2> QED BY <1>1, <2>1, <2>2, FineIfQuiet
<1> QED
  BY <1>2, <1>3

\* The other handlers change no membership: a client is left alone, or its
\* connection ends.
LEMMA CalmFine ==
  ASSUME Served', NEW x \in Conns, Fine(x), Reduced(x), st[x] = "open",
         members' = members, Quiet(out'[x]), uid'[x] = uid[x],
         asked'[x] = asked[x], at'[x] = at[x]
  PROVE  Fine(x)'
<1>1. CASE st'[x] = "open"
  <2>1. Untouched(x)
    BY <1>1 DEF Untouched
  <2>2. peers'[x] = peers[x]
    BY <2>1, UntouchedIsNotCleared, ShownNothing DEF Reduced
  <2> QED BY <2>1, <2>2, FineIfQuiet
<1>2. CASE st'[x] # "open"
  BY <1>2, FineIfCleared DEF Reduced, Cleared
<1> QED
  BY <1>1, <1>2

\* What PNext says of any connection, in a step of the server.
LEMMA StepFine ==
  ASSUME Plain, OneUser, OneRoom, SoleCreate, Served, Served', Next,
         NEW x \in Conns, Fine(x), Reduced(x)
  PROVE  Fine(x)'
<1> USE DEF Served, SeatInv, Seats, Danglers, TypeOK
<1>1. CASE st[x] = "open"
  <2>1. ASSUME NEW c \in Conns,
               \/ Connect(c) \/ Hangup(c) \/ ListRooms(c)
               \/ \E u \in Users : Heartbeat(c, u)
        PROVE  Fine(x)'
    <3>1. /\ members' = members /\ Quiet(out'[x]) /\ uid'[x] = uid[x]
          /\ asked'[x] = asked[x] /\ at'[x] = at[x]
      BY <2>1 DEF Connect, Hangup, ListRooms, Heartbeat, clientVars, roomVars, Silence, Quiet
    <3> QED BY <1>1, <3>1, CalmFine
  <2>2. CASE Tick \/ CheckTimeouts \/ ReapIdleRooms
    <3>1. /\ members' = members /\ Quiet(out'[x]) /\ uid'[x] = uid[x]
          /\ asked'[x] = asked[x] /\ at'[x] = at[x]
      BY <2>2 DEF Tick, CheckTimeouts, ReapIdleRooms, clientVars, roomVars, Silence, Quiet
    <3> QED BY <1>1, <3>1, CalmFine
  <2>3. CASE Restart
    <3>1. Cleared(x)
      BY <2>3 DEF Restart, Cleared
    <3> QED BY <3>1, FineIfCleared DEF Reduced
  <2>4. ASSUME NEW c \in Conns, NEW r \in Rooms, NEW u \in Users, LeaveRoom(c, r, u)
        PROVE  Fine(x)'
    BY <1>1, <2>4, LeaveFine
  <2>5. ASSUME NEW c \in Conns, NEW r \in Rooms, NEW u \in Users,
               NEW p \in Passwords \cup {NoPwd}, CreateRoom(c, r, u, p) \/ JoinRoom(c, r, u, p)
        PROVE  Fine(x)'
    BY <1>1, <2>5, CreateFine, JoinFine
  <2>6. ASSUME NEW c \in Conns, OnClose(c) PROVE Fine(x)'
    BY <1>1, <2>6, CloseFine
  <2> QED
    BY <2>1, <2>2, <2>3, <2>4, <2>5, <2>6, NextIsStep DEF Step
<1>2. CASE st[x] # "open" /\ st'[x] = "open"
  <2>1. Connect(x)
    <3>1. PICK c \in Conns : Connect(c) /\ c = x
      <4>1. ASSUME NEW c \in Conns, Connect(c) PROVE c = x
        BY <1>2, <4>1 DEF Connect
      <4>2. ASSUME NEW c \in Conns,
                   \/ Hangup(c) \/ OnClose(c) \/ ListRooms(c)
                   \/ \E u \in Users : Heartbeat(c, u)
                   \/ \E r \in Rooms, u \in Users : LeaveRoom(c, r, u)
            PROVE FALSE
        BY <1>2, <4>2 DEF Hangup, OnClose, ListRooms, Heartbeat, LeaveRoom
      <4>3. ASSUME NEW c \in Conns, NEW r \in Rooms, NEW u \in Users,
                   NEW p \in Passwords \cup {NoPwd},
                   CreateRoom(c, r, u, p) \/ JoinRoom(c, r, u, p)
            PROVE FALSE
        BY <1>2, <4>3 DEF CreateRoom, JoinRoom
      <4>4. ~(Tick \/ CheckTimeouts \/ ReapIdleRooms \/ Restart)
        BY <1>2 DEF Tick, CheckTimeouts, ReapIdleRooms, Restart
      <4> QED BY <4>1, <4>2, <4>3, <4>4, NextIsStep DEF Step
    <3> QED BY <3>1
  <2>2. at'[x] = NoRoom /\ Quiet(out'[x])
    BY <2>1 DEF Connect, clientVars, Blank, Silence, Quiet
  <2>3. peers[x] = {}
    BY <1>2 DEF Fine, HeardOf
  <2>4. peers'[x] = {}
    BY <2>2, <2>3, ShownNothing DEF Reduced
  <2> QED BY <2>2, <2>4 DEF Fine, HeardOf, AgreesOf
<1>3. CASE st'[x] # "open"
  BY <1>3, FineIfCleared DEF Reduced, Cleared
<1> QED
  BY <1>1, <1>2, <1>3

LEMMA PeersStep ==
  ASSUME Plain, OneUser, OneRoom, SoleCreate, Served, Served', PeersInv, [PNext]_pvars
  PROVE  PeersInv'
<1>1. \A x \in Conns : Fine(x)
  BY DEF PeersInv, Heard, PeersAgree, Fine, HeardOf, AgreesOf
<1>2. CASE PNext
  <2>1. ASSUME NEW x \in Conns PROVE Fine(x)'
    <3>1. Next /\ Reduced(x)
      BY <1>2 DEF PNext, Reduced
    <3> QED BY <1>1, <3>1, StepFine
  <2> QED BY <2>1 DEF PeersInv, Heard, PeersAgree, Fine, HeardOf, AgreesOf
<1>3. CASE UNCHANGED pvars
  BY <1>3 DEF pvars, vars, PeersInv, Heard, PeersAgree
<1> QED
  BY <1>2, <1>3

-----------------------------------------------------------------------------
\* What a client in a room shows is what the server has: every other member and
\* no one who left, through takeovers, denied joins, timeouts and closes of
\* several connections in any order.
THEOREM PeersAlwaysAgree ==
  ASSUME Plain, OneUser, OneRoom, SoleCreate
  PROVE  PSpec => []PeersAgree
<1>1. PInit => Init /\ PeersInv
  BY DEF PInit, Init, PeersInv, Heard, PeersAgree
<1>2. [PNext]_pvars => [Next]_vars
  BY DEF PNext, pvars
<1>3. Served /\ Served' /\ PeersInv /\ [PNext]_pvars => PeersInv'
  BY PeersStep
<1>4. PeersInv => PeersAgree
  BY DEF PeersInv
<1>5. PSpec => Spec
  BY <1>1, <1>2, PTL DEF PSpec, Spec
<1> QED
  BY <1>1, <1>3, <1>4, <1>5, ServedAlways, PTL DEF PSpec
============================================================================
