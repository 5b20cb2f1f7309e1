-------------------------- MODULE WebClient_proofs --------------------------
(***************************************************************************)
(* What holds of the browser tabs and the signaling server together, for   *)
(* any number of tabs, sockets, rooms, requests and faults.  First what    *)
(* needs no discipline: types, and that a step of the tabs is one of the   *)
(* server.  Then, for users who wait (Patient), one socket per tab and its *)
(* heartbeat; with OneUser, who displaces whom; with OneRoom and           *)
(* SoleCreate too, the mailbox of a tab and the list it leads to.          *)
(***************************************************************************)
EXTENDS WebClient, SignalingServer_proofs

-----------------------------------------------------------------------------
(* The server's part of a step: one of its own, or none.                    *)

Entry(c, r, u) ==
  \E p \in Passwords \cup {NoPwd} : CreateRoom(c, r, u, p) \/ JoinRoom(c, r, u, p)

\* What a tab may write on its connection, for its own user.
Writes(t, r) ==
  /\ ws[t] # NoConn /\ st[ws[t]] = "open"
  /\ \/ Entry(ws[t], r, who[t]) /\ t \in askers'
     \/ LeaveRoom(ws[t], r, who[t])

ServerStep ==
  \/ Quietly
  \/ \E c \in Conns : Connect(c) \/ Hangup(c) \/ OnClose(c)
  \/ \E t \in Tabs, r \in Rooms : Writes(t, r)
  \/ Restart

\* The types of a tab's own variables.
Pages == [Tabs -> Rooms \cup {NoRoom}]

\* A pending request: <<stage, type, room, password, socket>>.
Asking == {"sent", "connect"} \X Types \X Rooms \X (Passwords \cup {NoPwd}) \X Conns

\* Only a tab whose user asked for a room remembers one, or waits for one.
Login ==
  /\ who \in [Tabs -> Users]
  /\ askers \subseteq Tabs
  /\ \A t \in Tabs : roomId[t] # NoRoom \/ request[t] # NoRequest => t \in askers

\* The tab's end of a socket is closed if and only if no tab has handlers on it.
Sockets ==
  /\ far \in [Conns -> Tabs \cup {NoTab}]
  /\ near \in [Conns -> {"connecting", "open", "closed"}]
  /\ ws \in [Tabs -> Conns \cup {NoConn}]
  /\ timer \in [Tabs -> BOOLEAN]
  /\ beats \in [Tabs -> BOOLEAN]
  /\ \A c \in Conns : near[c] = "closed" <=> far[c] = NoTab
  /\ \A t \in Tabs : ws[t] # NoConn => far[ws[t]] = t

\* The room a tab shows is the one its page will leave, and it waits for nothing.
Screens ==
  /\ roomId \in Pages
  /\ page \in Pages
  /\ held \in Pages
  /\ replaced \in [Tabs -> BOOLEAN]
  /\ request \in [Tabs -> Asking \cup {NoRequest}]
  /\ \A t \in Tabs :
       page[t] # NoRoom => held[t] = page[t] /\ request[t] = NoRequest

TabInv == TypeOK /\ Login /\ Sockets /\ Screens

LEMMA AskingParts ==
  ASSUME NEW q \in Asking
  PROVE  /\ q # NoRequest /\ q[1] \in {"sent", "connect"} /\ q[2] \in Types
         /\ q[3] \in Rooms /\ q[4] \in Passwords \cup {NoPwd} /\ q[5] \in Conns
BY DEF Asking, NoRequest

LEMMA AskingMade ==
  ASSUME NEW stage \in {"sent", "connect"}, NEW type \in Types, NEW r \in Rooms,
         NEW p \in Passwords \cup {NoPwd}, NEW c \in Conns
  PROVE  /\ <<stage, type, r, p, c>> \in Asking
         /\ <<stage, type, r, p, c>> # NoRequest
BY DEF Asking, NoRequest

\* What a tab writes when it leaves, and when it asks.
LEMMA LeavesStep ==
  ASSUME NEW t \in Tabs, TabInv, Leaves(t)
  PROVE  /\ UNCHANGED faults
         /\ \/ Quietly
            \/ /\ Usable(ws[t]) /\ st[ws[t]] = "open" /\ uid[ws[t]] = Escape[who[t]]
               /\ roomId[t] # NoRoom /\ asked[ws[t]] = roomId[t]
               /\ LeaveRoom(ws[t], roomId[t], who[t])
BY DEF Leaves, Sends

LEMMA RequestsStep ==
  ASSUME NEW t \in Tabs, NEW type, NEW r \in Rooms, NEW p \in Passwords \cup {NoPwd},
         Requests(t, type, r, p)
  PROVE  \/ Quietly
         \/ Usable(ws[t]) /\ st[ws[t]] = "open" /\ Entry(ws[t], r, who[t])
BY DEF Requests, Sends, Joins, Entry

LEMMA OpenedStep ==
  ASSUME NEW c \in Conns, NEW t \in Tabs, t = far[c], Opened(c)
  PROVE  \/ Quietly
         \/ /\ roomId[t] # NoRoom /\ st[ws[t]] = "open"
            /\ ws[t] = c \/ Usable(ws[t])
            /\ Entry(ws[t], roomId[t], who[t]) /\ askers' = askers
BY DEF Opened, Joins, Replays, Entry, asking

LEMMA WNextIsServerStep ==
  ASSUME TabInv, WNext
  PROVE  ServerStep
<1> USE ConnAssumption, RoomAssumption DEF TabInv, Login, Sockets, Screens, Pages
<1>1. ASSUME NEW c \in Conns, Accept(c) \/ ServerNotices(c) \/ ServerCloses(c) \/ Drop(c)
      PROVE  ServerStep
  BY <1>1 DEF Accept, ServerNotices, ServerCloses, Drop, ServerStep
<1>2. ASSUME NEW c \in Conns, Closed(c) \/ Lost(c)
      PROVE  ServerStep
  BY <1>2 DEF Closed, Lost, ServerStep
<1>3. ASSUME NEW c \in Conns, Opened(c) PROVE ServerStep
  <2>1. PICK t \in Tabs : t = far[c]
    BY <1>3 DEF Opened
  <2>2. \/ Quietly
        \/ /\ roomId[t] # NoRoom /\ st[ws[t]] = "open"
           /\ ws[t] = c \/ Usable(ws[t])
           /\ Entry(ws[t], roomId[t], who[t]) /\ askers' = askers
    BY <1>3, <2>1, OpenedStep
  <2>3. roomId[t] # NoRoom => roomId[t] \in Rooms
    OBVIOUS
  <2>4. ws[t] = c \/ Usable(ws[t]) => ws[t] # NoConn
    BY DEF Usable
  <2> QED BY <2>2, <2>3, <2>4 DEF ServerStep, Writes
<1>4. ASSUME NEW t \in Tabs, Leaves(t) PROVE ServerStep
  <2>1. CASE Quietly
    BY <2>1 DEF ServerStep
  <2>2. CASE ~Quietly
    <3>1. PICK r \in Rooms : r = roomId[t]
      BY <1>4, <2>2, LeavesStep
    <3> QED BY <1>4, <2>2, <3>1, LeavesStep DEF ServerStep, Writes, Usable
  <2> QED BY <2>1, <2>2
<1>5. ASSUME NEW c \in Conns, Receive(c) PROVE ServerStep
  <2>1. PICK t \in Tabs : t = far[c]
    BY <1>5 DEF Receive
  <2>2. Leaves(t) \/ Quietly
    BY <1>5, <2>1 DEF Receive
  <2> QED BY <1>4, <2>2 DEF ServerStep
<1>6. ASSUME NEW t \in Tabs, NEW type, NEW r \in Rooms, NEW p \in Passwords \cup {NoPwd},
             Requests(t, type, r, p), t \in askers'
      PROVE  ServerStep
  BY <1>6, RequestsStep DEF ServerStep, Writes, Usable
<1>7. ASSUME NEW t \in Tabs, NEW type, NEW r \in Rooms, NEW p \in Passwords \cup {NoPwd},
             Ask(t, type, r, p)
      PROVE  ServerStep
  BY <1>6, <1>7 DEF Ask, ServerStep
<1>8. ASSUME NEW t \in Tabs, Continue(t) PROVE ServerStep
  <2>1. request[t] \in Asking
    BY <1>8 DEF Continue
  <2>2. request[t][3] \in Rooms /\ request[t][4] \in Passwords \cup {NoPwd}
    BY <2>1, AskingParts
  <2>3. t \in askers'
    BY <1>8 DEF Continue, asking
  <2> QED BY <1>6, <1>8, <2>2, <2>3 DEF Continue
<1>9. ASSUME NEW t \in Tabs, Leave(t) PROVE ServerStep
  BY <1>4, <1>9 DEF Leave
<1>10. ASSUME NEW t \in Tabs,
              Reconnect(t) \/ RequestTimesOut(t) \/ Browse(t) \/ Acknowledge(t)
       PROVE  ServerStep
  BY <1>10 DEF Reconnect, RequestTimesOut, Browse, Acknowledge, ServerStep
<1>11. CASE Crash
  BY <1>11 DEF Crash, ServerStep
<1> QED
  BY <1>1, <1>2, <1>3, <1>5, <1>7, <1>8, <1>9, <1>10, <1>11 DEF WNext, Socket

\* A step of the tabs is a step of the server, but for what the server wrote in
\* its last one.
Unmoved == UNCHANGED <<st, uid, displaced, clientVars, tables, roomVars>>

LEMMA ServerStepIsNext ==
  ASSUME Login, Sockets, ServerStep
  PROVE  Next \/ (Unmoved /\ out' = Silence)
<1>1. ASSUME NEW t \in Tabs, NEW r \in Rooms, Writes(t, r) PROVE Next
  <2>1. ws[t] \in Conns /\ who[t] \in Users
    BY <1>1 DEF Login, Sockets, Writes
  <2>2. Message(ws[t])
    BY <1>1, <2>1 DEF Writes, Entry, Message
  <2> QED BY <2>1, <2>2 DEF Next
<1> QED
  BY <1>1 DEF ServerStep, Quietly, Unmoved, Next

LEMMA ServerTyped ==
  ASSUME TabInv, [WNext]_wvars
  PROVE  TypeOK'
<1>1. CASE WNext
  <2>1. Next \/ (Unmoved /\ out' = Silence)
    BY <1>1, WNextIsServerStep, ServerStepIsNext DEF TabInv
  <2>2. ASSUME Unmoved, out' = Silence PROVE TypeOK'
    BY <2>2 DEF TabInv, Unmoved, TypeOK, clientVars, tables, roomVars, Silence, Keys
  <2> QED BY <2>1, <2>2, TypeStep DEF TabInv
<1>2. CASE UNCHANGED wvars
  BY <1>2, TypeStep DEF TabInv, wvars
<1> QED
  BY <1>1, <1>2

-----------------------------------------------------------------------------
(* Types, ends and screens, whatever the users do.                          *)

LEMMA SocketsKept ==
  ASSUME Sockets, UNCHANGED <<far, near, ws, timer, beats>>
  PROVE  Sockets'
BY DEF Sockets

LEMMA SocketsEnd ==
  ASSUME Sockets, NEW c \in Conns, NEW t \in Tabs, t = far[c],
         replaced \in [Tabs -> BOOLEAN], SocketEnds(c)
  PROVE  Sockets'
<1> USE TabAssumption, ConnAssumption DEF Sockets
<1>1. /\ far' = [far EXCEPT ![c] = NoTab]
      /\ near' = [near EXCEPT ![c] = "closed"]
      /\ ws' = [ws EXCEPT ![t] = IF ws[t] = c THEN NoConn ELSE ws[t]]
      /\ beats' = [beats EXCEPT ![t] = FALSE]
  BY DEF SocketEnds
<1>2. timer' \in [Tabs -> BOOLEAN]
  BY DEF SocketEnds, Scheduled
<1>3. /\ far' \in [Conns -> Tabs \cup {NoTab}]
      /\ near' \in [Conns -> {"connecting", "open", "closed"}]
      /\ ws' \in [Tabs -> Conns \cup {NoConn}]
      /\ beats' \in [Tabs -> BOOLEAN]
      /\ \A x \in Conns : near'[x] = "closed" <=> far'[x] = NoTab
  BY <1>1
<1>4. \A s \in Tabs : ws'[s] # NoConn => ws'[s] = ws[s] /\ ws[s] # c
  BY <1>1
<1> QED BY <1>1, <1>2, <1>3, <1>4

LEMMA SocketsOpened ==
  ASSUME Sockets, NEW c \in Conns, Opened(c)
  PROVE  Sockets'
BY TabAssumption DEF Sockets, Opened, Beating

LEMMA SocketsNew ==
  ASSUME Sockets, NEW c \in Conns, NEW t \in Tabs, NewSocket(t, c),
         timer' \in [Tabs -> BOOLEAN], beats' = beats
  PROVE  Sockets'
<1>1. c \in Unused
  BY DEF NewSocket
<1> QED
  BY <1>1, TabAssumption, ConnAssumption DEF Sockets, NewSocket, Unused

LEMMA SocketsStep ==
  ASSUME TabInv, [WNext]_wvars
  PROVE  Sockets'
<1> USE DEF TabInv
<1>1. CASE UNCHANGED <<far, near, ws, timer, beats>>
  BY <1>1, SocketsKept
<1>2. ASSUME NEW c \in Conns, Socket(c) \/ Drop(c) \/ Lost(c)
      PROVE  Sockets'
  <2>1. ASSUME Closed(c) \/ Lost(c) PROVE Sockets'
    <3>1. PICK t \in Tabs : t = far[c]
      BY <2>1 DEF Closed, Lost, Sockets
    <3> QED BY <2>1, <3>1, SocketsEnd DEF Closed, Lost, Screens
  <2>2. ASSUME Accept(c) \/ ServerNotices(c) \/ ServerCloses(c) \/ Drop(c) \/ Receive(c)
        PROVE  Sockets'
    BY <1>1, <2>2 DEF Accept, ServerNotices, ServerCloses, Drop, Receive, netVars
  <2> QED BY <1>2, <2>1, <2>2, SocketsOpened DEF Socket
<1>3. ASSUME NEW t \in Tabs, Reconnect(t) PROVE Sockets'
  BY <1>3, SocketsNew DEF Reconnect, Fired, Sockets
<1>4. ASSUME NEW t \in Tabs, NEW type, NEW r, NEW p, Ask(t, type, r, p) PROVE Sockets'
  <2>1. \/ UNCHANGED netVars
        \/ \E c \in Conns : NewSocket(t, c) /\ UNCHANGED <<timer, beats>>
    BY <1>4 DEF Ask, Requests
  <2> QED BY <1>1, <2>1, SocketsNew DEF netVars, Sockets
<1>5. ASSUME NEW t \in Tabs,
             Continue(t) \/ RequestTimesOut(t) \/ Leave(t) \/ Browse(t) \/ Acknowledge(t)
      PROVE  Sockets'
  BY <1>1, <1>5 DEF Continue, Requests, RequestTimesOut, Leave, Browse, Acknowledge, netVars
<1>6. CASE Crash
  BY <1>1, <1>6 DEF Crash, netVars
<1>7. CASE UNCHANGED wvars
  BY <1>1, <1>7 DEF wvars, netVars
<1> QED
  BY <1>2, <1>3, <1>4, <1>5, <1>6, <1>7 DEF WNext

LEMMA ScreensKept ==
  ASSUME Screens, UNCHANGED <<roomId, page, held, replaced, request>>
  PROVE  Screens'
BY DEF Screens, Pages

\* A request given up, and nothing else.
LEMMA ScreensGivenUp ==
  ASSUME Screens, NEW t \in Tabs, UNCHANGED <<roomId, page, held, replaced>>,
         request' = [request EXCEPT ![t] = NoRequest] \/ request' = request
  PROVE  Screens'
BY DEF Screens, Pages

\* A request of a tab that is on the home page.
LEMMA ScreensAsked ==
  ASSUME Screens, NEW t \in Tabs, page[t] = NoRoom, UNCHANGED <<page, held, replaced>>,
         NEW q \in Asking \cup {NoRequest}, request' = [request EXCEPT ![t] = q],
         NEW r \in Rooms,
         \/ roomId' = [roomId EXCEPT ![t] = r]
              /\ (q # NoRequest /\ q[1] = "sent" => q[3] = r)
         \/ roomId' = roomId /\ q # NoRequest /\ q[1] = "connect"
  PROVE  Screens'
BY DEF Screens, Pages

LEMMA ScreensRequested ==
  ASSUME TabInv, NEW t \in Tabs, page[t] = NoRoom,
         NEW type \in Types, NEW r \in Rooms, NEW p \in Passwords \cup {NoPwd},
         Requests(t, type, r, p)
  PROVE  Screens'
<1> DEFINE q == IF Usable(ws[t]) THEN <<"sent", type, r, NoPwd, ws[t]>> ELSE NoRequest
<1>1. Usable(ws[t]) => ws[t] \in Conns
  BY DEF Usable, TabInv, Sockets
<1>2. q \in Asking \cup {NoRequest} /\ (q # NoRequest => q[3] = r)
  BY <1>1, AskingMade
<1>3. /\ roomId' = [roomId EXCEPT ![t] = r] /\ UNCHANGED <<page, held, replaced>>
      /\ request' = [request EXCEPT ![t] = q]
  BY DEF Requests
<1> HIDE DEF q
<1> QED BY <1>2, <1>3, ScreensAsked DEF TabInv

\* onmessage and its effects.
LEMMA ScreensReceived ==
  ASSUME TabInv, NEW c \in Conns, Receive(c)
  PROVE  Screens'
<1> USE DEF TabInv
<1>1. PICK t \in Tabs : t = far[c]
  BY DEF Receive, Sockets
<1> DEFINE frames == Head(inbox[c])
           taken == Accepted(t, frames)
           evicted == Latched(t, frames) /\ (IF taken THEN request[t][3] ELSE held[t]) # NoRoom
           left == IF taken \/ Refused(t, frames) THEN NoRequest ELSE request[t]
           after(room) == IF evicted THEN NoRoom ELSE IF taken THEN request[t][3] ELSE room
<1>2. /\ replaced' = [replaced EXCEPT ![t] = Latched(t, frames)]
      /\ request' = [request EXCEPT ![t] = left]
      /\ page' = [page EXCEPT ![t] = after(page[t])]
      /\ held' = [held EXCEPT ![t] = after(held[t])]
      /\ roomId' = [roomId EXCEPT ![t] = IF evicted THEN NoRoom ELSE roomId[t]]
  BY <1>1 DEF Receive
<1>3. Latched(t, frames) \in BOOLEAN
  BY DEF Latched, Screens
<1>4. taken => /\ request[t] \in Asking /\ request[t][1] = "sent" /\ request[t][3] \in Rooms
               /\ request[t] # NoRequest
  <2> SUFFICES ASSUME taken PROVE request[t] \in Asking /\ request[t][1] = "sent"
    BY AskingParts
  <2> QED BY DEF Accepted, Screens
<1>5. replaced' \in [Tabs -> BOOLEAN]
  BY <1>2, <1>3 DEF Screens
<1>6. /\ page[t] \in Rooms \cup {NoRoom} /\ held[t] \in Rooms \cup {NoRoom}
      /\ request[t] \in Asking \cup {NoRequest}
  BY DEF Screens, Pages
<1>7. /\ after(page[t]) \in Rooms \cup {NoRoom} /\ after(held[t]) \in Rooms \cup {NoRoom}
      /\ left \in Asking \cup {NoRequest}
  BY <1>4, <1>6
<1>9. taken => left = NoRequest
  OBVIOUS
<1>10. left = NoRequest \/ left = request[t]
  OBVIOUS
<1> HIDE DEF taken, evicted, left, frames
<1>11. /\ page' \in Pages /\ held' \in Pages /\ roomId' \in Pages
       /\ request' \in [Tabs -> Asking \cup {NoRequest}]
  BY <1>2, <1>7 DEF Screens, Pages
<1>12. ASSUME NEW s \in Tabs \ {t}
       PROVE  /\ request'[s] = request[s] /\ page'[s] = page[s]
              /\ held'[s] = held[s] /\ roomId'[s] = roomId[s]
  BY <1>2 DEF Screens, Pages
<1>13. /\ request'[t] = left /\ page'[t] = after(page[t]) /\ held'[t] = after(held[t])
       /\ roomId'[t] = IF evicted THEN NoRoom ELSE roomId[t]
  BY <1>2 DEF Screens, Pages
<1>14. page'[t] # NoRoom => held'[t] = page'[t] /\ request'[t] = NoRequest
  BY <1>9, <1>10, <1>13 DEF Screens
<1> QED BY <1>5, <1>11, <1>12, <1>14 DEF Screens

LEMMA ScreensStep ==
  ASSUME TabInv, [WNext]_wvars
  PROVE  Screens'
<1> USE DEF TabInv
<1>1. CASE UNCHANGED <<roomId, page, held, replaced, request>>
  BY <1>1, ScreensKept
<1>2. ASSUME NEW c \in Conns, Socket(c) \/ Drop(c) \/ Lost(c)
      PROVE  Screens'
  <2>1. ASSUME Closed(c) \/ Lost(c) PROVE Screens'
    <3>1. PICK t \in Tabs : t = far[c]
      BY <2>1 DEF Closed, Lost, Sockets
    <3>2. SocketEnds(c)
      BY <2>1 DEF Closed, Lost
    <3>3. /\ request' = [request EXCEPT ![t] =
               IF request[t] # NoRequest /\ request[t][5] = c THEN NoRequest ELSE request[t]]
          /\ UNCHANGED <<roomId, page, held, replaced>>
      BY <3>1, <3>2 DEF SocketEnds
    <3>4. request' = [request EXCEPT ![t] = NoRequest] \/ request' = request
      BY <3>3 DEF Screens
    <3> QED BY <3>3, <3>4, ScreensGivenUp
  <2>2. ASSUME Accept(c) \/ ServerNotices(c) \/ ServerCloses(c) \/ Drop(c) \/ Opened(c)
        PROVE  Screens'
    BY <1>1, <2>2 DEF Accept, ServerNotices, ServerCloses, Drop, Opened, pageVars
  <2> QED BY <1>2, <2>1, <2>2, ScreensReceived DEF Socket
<1>3. ASSUME NEW t \in Tabs, Reconnect(t) PROVE Screens'
  BY <1>1, <1>3 DEF Reconnect, pageVars
<1>4. ASSUME NEW t \in Tabs, NEW type \in Types, NEW r \in Rooms,
             NEW p \in Passwords \cup {NoPwd}, Ask(t, type, r, p)
      PROVE  Screens'
  <2>1. page[t] = NoRoom
    BY <1>4 DEF Ask
  <2>2. ASSUME NEW c \in Conns, request' = [request EXCEPT ![t] = <<"connect", type, r, p, c>>],
               UNCHANGED <<roomId, page, held, replaced>>
        PROVE  Screens'
    <3>1. <<"connect", type, r, p, c>> \in Asking
      BY AskingMade
    <3>2. PICK q \in Asking : q = <<"connect", type, r, p, c>>
      BY <3>1
    <3>3. q # NoRequest /\ q[1] = "connect"
      BY <3>2, AskingParts
    <3> QED BY <2>1, <2>2, <3>2, <3>3, ScreensAsked
  <2>3. \/ Requests(t, type, r, p)
        \/ \E c \in Conns : /\ request' = [request EXCEPT ![t] = <<"connect", type, r, p, c>>]
                            /\ UNCHANGED <<roomId, page, held, replaced>>
    BY <1>4 DEF Ask, Sockets
  <2> QED BY <2>1, <2>2, <2>3, ScreensRequested
<1>5. ASSUME NEW t \in Tabs, Continue(t) PROVE Screens'
  <2>1. request[t] \in Asking /\ page[t] = NoRoom
    BY <1>5 DEF Continue, Screens
  <2>2. request[t][2] \in Types /\ request[t][3] \in Rooms
        /\ request[t][4] \in Passwords \cup {NoPwd}
    BY <2>1, AskingParts
  <2> QED BY <1>5, <2>1, <2>2, ScreensRequested DEF Continue
<1>6. ASSUME NEW t \in Tabs, RequestTimesOut(t) PROVE Screens'
  BY <1>6, ScreensGivenUp DEF RequestTimesOut
<1>7. ASSUME NEW t \in Tabs, Leave(t) PROVE Screens'
  BY <1>7 DEF Leave, GoesHome, Screens, Pages
<1>8. ASSUME NEW t \in Tabs, Browse(t) \/ Acknowledge(t) PROVE Screens'
  BY <1>8 DEF Browse, Acknowledge, Screens, Pages
<1>9. CASE Crash
  BY <1>1, <1>9 DEF Crash, pageVars
<1>10. CASE UNCHANGED wvars
  BY <1>1, <1>10 DEF wvars, pageVars
<1> QED
  BY <1>2, <1>3, <1>4, <1>5, <1>6, <1>7, <1>8, <1>9, <1>10 DEF WNext

LEMMA LoginKept ==
  ASSUME Login, who' = who, UNCHANGED asking,
         \A t \in Tabs : roomId'[t] \in {roomId[t], NoRoom}
                         /\ request'[t] \in {request[t], NoRequest}
  PROVE  Login'
BY DEF Login, asking

LEMMA LoginStep ==
  ASSUME TabInv, [WNext]_wvars
  PROVE  Login'
<1> USE DEF TabInv, Login, Screens, Pages
<1>1. ASSUME NEW c \in Conns, Socket(c) \/ Drop(c) \/ Lost(c) PROVE Login'
  <2>1. ASSUME Accept(c) \/ Opened(c) \/ ServerNotices(c) \/ ServerCloses(c) \/ Drop(c)
        PROVE  Login'
    BY <2>1, LoginKept DEF Accept, Opened, ServerNotices, ServerCloses, Drop, bounds, pageVars
  <2>2. ASSUME Closed(c) \/ Lost(c) PROVE Login'
    BY <2>2, LoginKept DEF Closed, Lost, SocketEnds
  <2>3. ASSUME Receive(c) PROVE Login'
    <3>1. \A t \in Tabs : roomId'[t] \in {roomId[t], NoRoom}
                          /\ request'[t] \in {request[t], NoRequest}
      BY <2>3 DEF Receive
    <3> QED BY <2>3, <3>1, LoginKept DEF Receive
  <2> QED BY <1>1, <2>1, <2>2, <2>3 DEF Socket
<1>2. ASSUME NEW t \in Tabs, NEW type, NEW r, NEW p, Requests(t, type, r, p),
             t \in askers', askers \subseteq askers', askers' \subseteq Tabs
      PROVE  Login'
  BY <1>2 DEF Requests
<1>3. ASSUME NEW t \in Tabs, NEW type, NEW r, NEW p, Ask(t, type, r, p) PROVE Login'
  <2>1. askers' = askers \cup {t}
    BY <1>3 DEF Ask
  <2>2. \/ Requests(t, type, r, p)
        \/ /\ who' = who /\ roomId' = roomId
           /\ \A s \in Tabs \ {t} : request'[s] = request[s]
    BY <1>3 DEF Ask
  <2> QED BY <1>2, <2>1, <2>2
<1>4. ASSUME NEW t \in Tabs, Continue(t) PROVE Login'
  BY <1>2, <1>4 DEF Continue, asking
<1>5. ASSUME NEW t \in Tabs,
             Reconnect(t) \/ RequestTimesOut(t) \/ Leave(t) \/ Browse(t) \/ Acknowledge(t)
      PROVE Login'
  BY <1>5, LoginKept DEF Reconnect, RequestTimesOut, Leave, Browse, Acknowledge, bounds, pageVars
<1>6. CASE Crash \/ UNCHANGED wvars
  BY <1>6, LoginKept DEF Crash, wvars, bounds, pageVars
<1> QED
  BY <1>1, <1>3, <1>4, <1>5, <1>6 DEF WNext

LEMMA FirstSockets ==
  ASSUME WInit
  PROVE  /\ ws \in [Tabs -> Conns]
         /\ \A s, t \in Tabs : ws[s] = ws[t] => s = t
         /\ \A t \in Tabs : far[ws[t]] = t
         /\ \A c \in Conns : far[c] # NoTab => far[c] \in Tabs /\ ws[far[c]] = c
<1>1. /\ First \in [Tabs -> Conns]
      /\ \A s, t \in Tabs : First[s] = First[t] => s = t
  BY SocketAssumption DEF First
<1>2. ws = First
  BY DEF WInit
<1>3. ASSUME NEW c \in Conns, \E t \in Tabs : ws[t] = c
      PROVE  far[c] \in Tabs /\ ws[far[c]] = c
  BY <1>3 DEF WInit
<1>4. ASSUME NEW c \in Conns, ~ \E t \in Tabs : ws[t] = c
      PROVE  far[c] = NoTab
  BY <1>4 DEF WInit
<1> QED
  BY <1>1, <1>2, <1>3, <1>4

LEMMA TabInit == WInit => TabInv
<1> SUFFICES ASSUME WInit PROVE TabInv
  OBVIOUS
<1>1. TypeOK
  BY TypeInit DEF WInit
<1>2. Login
  BY TabAssumption DEF WInit, Login
<1>3. Sockets
  <2>1. far \in [Conns -> Tabs \cup {NoTab}]
    <3>1. \A c \in Conns : far[c] \in Tabs \cup {NoTab}
      BY FirstSockets
    <3> QED BY <3>1 DEF WInit
  <2> QED BY <2>1, FirstSockets DEF WInit, Sockets
<1>4. Screens
  BY DEF WInit, Screens, Pages
<1> QED
  BY <1>1, <1>2, <1>3, <1>4 DEF TabInv

LEMMA TabStep == TabInv /\ [WNext]_wvars => TabInv'
  BY ServerTyped, SocketsStep, ScreensStep, LoginStep DEF TabInv

\* The tables of the server and the ends of every socket are well typed, whatever
\* the users, the network and the clocks do; the page of a user who goes home only
\* by leaving shows a room only while the service remembers it.
THEOREM TabsTypeCorrect == WSpec => []WTypeOK
<1>1. TabInv => WTypeOK
  BY DEF TabInv, Sockets, Screens, Pages, WTypeOK
<1> QED
  BY <1>1, TabInit, TabStep, PTL DEF WSpec

-----------------------------------------------------------------------------
(* One socket per tab.  Needs users that wait: one who asks while a reconnect *)
(* is pending makes a tab open two sockets.                                   *)

\* A tab has handlers on its current socket only, and a reconnect or a request
\* is pending only for it.
OneSocket ==
  /\ \A c \in Conns : far[c] # NoTab => ws[far[c]] = c
  /\ \A t \in Tabs : timer[t] => ws[t] = NoConn

AsksOnIt == \A t \in Tabs : request[t] # NoRequest => request[t][5] = ws[t]

Lone == OneSocket /\ AsksOnIt /\ HeartbeatRuns

LEMMA LoneKept ==
  ASSUME Lone, UNCHANGED netVars, \A t \in Tabs : request'[t] \in {request[t], NoRequest}
  PROVE  Lone'
BY DEF netVars, Lone, OneSocket, AsksOnIt, HeartbeatRuns, Usable

\* The socket closes: nothing is pending on it, and the timer may be set.
LEMMA LoneEnds ==
  ASSUME TabInv, Lone, NEW c \in Conns, NEW t \in Tabs, t = far[c], SocketEnds(c)
  PROVE  Lone'
<1> USE TabAssumption, ConnAssumption DEF TabInv, Sockets, Lone, OneSocket
<1>1. ws[t] = c
  OBVIOUS
<1>2. /\ far' = [far EXCEPT ![c] = NoTab]
      /\ near' = [near EXCEPT ![c] = "closed"]
      /\ ws' = [ws EXCEPT ![t] = NoConn]
      /\ beats' = [beats EXCEPT ![t] = FALSE]
      /\ \A s \in Tabs \ {t} : timer'[s] = timer[s] /\ request'[s] = request[s]
  BY <1>1 DEF SocketEnds, Scheduled, Screens
<1>3. request'[t] = NoRequest
  BY <1>1 DEF SocketEnds, AsksOnIt, Screens
<1>4. OneSocket'
  BY <1>1, <1>2
<1>5. AsksOnIt'
  BY <1>2, <1>3 DEF AsksOnIt
<1>6. ASSUME NEW s \in Tabs, Usable(ws[s])' PROVE beats'[s]
  <2>1. s # t
    BY <1>2, <1>6 DEF Usable
  <2>2. ws'[s] = ws[s] /\ beats'[s] = beats[s] /\ Usable(ws[s])
    BY <1>2, <1>6, <2>1 DEF Usable
  <2> QED BY <2>2 DEF HeartbeatRuns
<1> QED
  BY <1>4, <1>5, <1>6 DEF HeartbeatRuns

\* A tab without a socket opens one; its timer is not set, or has just fired.
LEMMA LoneNew ==
  ASSUME TabInv, Lone, NEW c \in Conns, NEW t \in Tabs, ws[t] = NoConn, NewSocket(t, c),
         ~timer'[t], \A s \in Tabs \ {t} : timer'[s] = timer[s], beats' = beats,
         request'[t] # NoRequest => request'[t][5] = c,
         \A s \in Tabs \ {t} : request'[s] = request[s]
  PROVE  Lone'
<1> USE TabAssumption, ConnAssumption DEF TabInv, Sockets, Lone, OneSocket
<1>1. /\ far[c] = NoTab
      /\ ws' = [ws EXCEPT ![t] = c]
      /\ far' = [far EXCEPT ![c] = t]
      /\ near' = [near EXCEPT ![c] = "connecting"]
  BY DEF NewSocket, Unused
<1>2. \A x \in Conns : far[x] # t
  OBVIOUS
<1>3. OneSocket'
  BY <1>1, <1>2
<1>4. AsksOnIt'
  BY <1>1 DEF AsksOnIt
<1>5. ASSUME NEW s \in Tabs, Usable(ws[s])' PROVE beats'[s]
  <2>1. s # t /\ ws'[s] = ws[s] /\ Usable(ws[s])
    BY <1>1, <1>5 DEF Usable
  <2> QED BY <2>1 DEF HeartbeatRuns
<1> QED
  BY <1>3, <1>4, <1>5 DEF HeartbeatRuns

\* The first thing onopen does is to start the heartbeat.
LEMMA LoneOpened ==
  ASSUME TabInv, Lone, NEW c \in Conns, Opened(c)
  PROVE  Lone'
<1> USE TabAssumption DEF TabInv, Sockets, Lone, OneSocket
<1>1. PICK t \in Tabs : t = far[c]
  BY DEF Opened
<1>2. /\ near' = [near EXCEPT ![c] = "open"]
      /\ beats' = [beats EXCEPT ![t] = TRUE]
      /\ UNCHANGED <<far, ws, timer, request>>
  BY <1>1 DEF Opened, Beating, pageVars
<1>3. ASSUME NEW s \in Tabs, Usable(ws[s])' PROVE beats'[s]
  <2>1. s # t => ws[s] # c
    BY <1>1, ConnAssumption
  <2>2. s # t => Usable(ws[s])
    BY <1>2, <1>3, <2>1 DEF Usable
  <2> QED BY <1>2, <2>2 DEF HeartbeatRuns
<1> QED
  BY <1>2, <1>3 DEF AsksOnIt, HeartbeatRuns

LEMMA LoneRequested ==
  ASSUME TabInv, Lone, NEW t \in Tabs, NEW type, NEW r, NEW p, Requests(t, type, r, p)
  PROVE  Lone'
<1> DEFINE q == IF Usable(ws[t]) THEN <<"sent", type, r, NoPwd, ws[t]>> ELSE NoRequest
<1>1. UNCHANGED netVars /\ request' = [request EXCEPT ![t] = q]
  BY DEF Requests
<1>2. q # NoRequest => q[5] = ws[t]
  OBVIOUS
<1> HIDE DEF q
<1>3. AsksOnIt'
  BY <1>1, <1>2 DEF Lone, AsksOnIt, netVars, TabInv, Screens
<1> QED BY <1>1, <1>3 DEF Lone, OneSocket, HeartbeatRuns, Usable, netVars

LEMMA LoneAsk ==
  ASSUME Patient, TabInv, Lone, NEW t \in Tabs, NEW type, NEW r, NEW p, Ask(t, type, r, p)
  PROVE  Lone'
<1> USE DEF TabInv, Screens
<1>1. CASE Requests(t, type, r, p)
  BY <1>1, LoneRequested
<1>2. ASSUME request' = [request EXCEPT ![t] = <<"connect", type, r, p, ws[t]>>],
             UNCHANGED netVars
      PROVE  Lone'
  <2>1. request'[t][5] = ws[t]
    BY <1>2
  <2>2. AsksOnIt'
    BY <1>2, <2>1 DEF Lone, AsksOnIt, netVars
  <2> QED BY <1>2, <2>2 DEF Lone, OneSocket, HeartbeatRuns, Usable, netVars
<1>3. ASSUME NEW c \in Conns, ws[t] = NoConn, NewSocket(t, c), UNCHANGED <<timer, beats>>,
             request' = [request EXCEPT ![t] = <<"connect", type, r, p, c>>]
      PROVE  Lone'
  <2>1. ~timer[t]
    BY DEF Ask, Idle
  <2>2. request'[t][5] = c /\ \A s \in Tabs \ {t} : request'[s] = request[s]
    BY <1>3
  <2> QED BY <1>3, <2>1, <2>2, LoneNew
<1> QED
  BY <1>1, <1>2, <1>3 DEF Ask

LEMMA LoneStep ==
  ASSUME Patient, TabInv, Lone, [WNext]_wvars
  PROVE  Lone'
<1> USE DEF TabInv
<1>1. ASSUME NEW c \in Conns, Socket(c) \/ Drop(c) \/ Lost(c)
      PROVE  Lone'
  <2>1. ASSUME Closed(c) \/ Lost(c) PROVE Lone'
    <3>1. PICK t \in Tabs : t = far[c]
      BY <2>1 DEF Closed, Lost, Sockets
    <3> QED BY <2>1, <3>1, LoneEnds DEF Closed, Lost
  <2>2. ASSUME Accept(c) \/ ServerNotices(c) \/ ServerCloses(c) \/ Drop(c)
        PROVE  Lone'
    BY <2>2, LoneKept DEF Accept, ServerNotices, ServerCloses, Drop, pageVars
  <2>3. ASSUME Receive(c) PROVE Lone'
    <3>1. /\ UNCHANGED netVars
          /\ \A t \in Tabs : request'[t] \in {request[t], NoRequest}
      BY <2>3 DEF Receive, Screens
    <3> QED BY <3>1, LoneKept
  <2> QED BY <1>1, <2>1, <2>2, <2>3, LoneOpened DEF Socket
<1>2. ASSUME NEW t \in Tabs, Reconnect(t) PROVE Lone'
  <2>1. ws[t] = NoConn /\ timer[t]
    BY <1>2 DEF Reconnect, Lone, OneSocket
  <2>2. request[t] = NoRequest
    <3>1. ASSUME request[t] # NoRequest PROVE FALSE
      <4>1. request[t] \in Asking /\ request[t][5] = NoConn
        BY <2>1, <3>1 DEF Lone, AsksOnIt, Screens
      <4> QED BY <4>1, AskingParts, ConnAssumption
    <3> QED BY <3>1
  <2>3. /\ \E c \in Conns : NewSocket(t, c)
        /\ timer' = [timer EXCEPT ![t] = FALSE] /\ beats' = beats /\ request' = request
    BY <1>2 DEF Reconnect, Fired, pageVars
  <2> QED BY <2>1, <2>2, <2>3, LoneNew DEF Sockets
<1>3. ASSUME NEW t \in Tabs, NEW type, NEW r, NEW p, Ask(t, type, r, p) PROVE Lone'
  BY <1>3, LoneAsk
<1>4. ASSUME NEW t \in Tabs, Continue(t) PROVE Lone'
  BY <1>4, LoneRequested DEF Continue
<1>5. ASSUME NEW t \in Tabs,
             RequestTimesOut(t) \/ Leave(t) \/ Browse(t) \/ Acknowledge(t)
      PROVE  Lone'
  BY <1>5, LoneKept DEF RequestTimesOut, Leave, Browse, Acknowledge, Screens
<1>6. CASE Crash \/ UNCHANGED wvars
  BY <1>6, LoneKept DEF Crash, wvars, pageVars
<1> QED
  BY <1>1, <1>2, <1>3, <1>4, <1>5, <1>6 DEF WNext

LEMMA LoneInit == WInit => Lone
<1> SUFFICES ASSUME WInit PROVE Lone
  OBVIOUS
<1>1. OneSocket
  BY FirstSockets DEF WInit, OneSocket
<1>2. \A c \in Conns : near[c] # "open"
  BY DEF WInit
<1>3. HeartbeatRuns
  BY <1>2, FirstSockets DEF HeartbeatRuns, Usable
<1> QED
  BY <1>1, <1>3 DEF Lone, AsksOnIt, WInit

\* The sockets of a tab share a heartbeat timer that each onclose stops; a tab
\* whose user waits for reconnects has one socket, so it always runs.
THEOREM HeartbeatsRun ==
  ASSUME Patient
  PROVE  WSpec => []HeartbeatRuns
<1>1. TabInv /\ Lone /\ [WNext]_wvars => (TabInv /\ Lone)'
  BY TabStep, LoneStep
<1>2. Lone => HeartbeatRuns
  BY DEF Lone
<1> QED
  BY <1>1, <1>2, TabInit, LoneInit, PTL DEF WSpec

-----------------------------------------------------------------------------
(* What is on its way to a tab.                                             *)

Frames ==
  ({"PEER_JOINED", "PEER_LEFT"} \X Rooms \X Users)
  \cup ({"PEER_LIST"} \X Rooms \X SUBSET Users)
  \cup ({"JOIN_ROOM_ACK", "CREATE_ROOM_ACK"} \X Rooms)
  \cup ({"SESSION_REPLACED"} \X Users)
  \cup {<<"ERROR">>, <<"LEAVE_ROOM_ACK">>}

LEMMA EntryFrames ==
  ASSUME TypeOK, NEW c \in Conns, NEW r \in Rooms, NEW u \in Users, Entry(c, r, u),
         NEW x \in Conns
  PROVE  out'[x] \subseteq Frames
<1> USE DEF TypeOK, Frames
<1>1. PICK p \in Passwords \cup {NoPwd} : CreateRoom(c, r, u, p) \/ JoinRoom(c, r, u, p)
  BY DEF Entry
<1>2. CASE CreateRoom(c, r, u, p)
  BY <1>2 DEF CreateRoom, Silence
<1>3. CASE JoinRoom(c, r, u, p)
  <2>1. Notice({}, u, x) = {} /\ \A told : Notice(told, u, x) \subseteq {<<"SESSION_REPLACED", u>>}
    BY DEF Notice
  <2>2. JoinFrames(c, r, u, x) \subseteq Frames
    BY DEF JoinFrames
  <2>3. \E told : \/ out'[x] = Notice(told, u, x) \cup JoinFrames(c, r, u, x)
                  \/ out'[x] = Notice(told, u, x) \cup IF x = c THEN {<<"ERROR">>} ELSE {}
    BY <1>3 DEF JoinRoom
  <2> QED BY <2>1, <2>2, <2>3
<1> QED BY <1>1, <1>2, <1>3

LEMMA OutTyped ==
  ASSUME TabInv, ServerStep, NEW x \in Conns
  PROVE  out'[x] \subseteq Frames
<1> USE DEF TabInv
<1>1. CASE Quietly \/ Restart \/ \E c \in Conns : Connect(c) \/ Hangup(c)
  BY <1>1 DEF Quietly, Restart, Connect, Hangup, Silence
<1>2. ASSUME NEW c \in Conns, OnClose(c) PROVE out'[x] \subseteq Frames
  BY <1>2 DEF OnClose, Silence, Cascades, Frames, TypeOK
<1>3. ASSUME NEW t \in Tabs, NEW r \in Rooms, Writes(t, r) PROVE out'[x] \subseteq Frames
  <2>1. ws[t] \in Conns /\ who[t] \in Users
    BY <1>3 DEF Login, Sockets, Writes
  <2>2. CASE LeaveRoom(ws[t], r, who[t])
    BY <2>1, <2>2 DEF LeaveRoom, Frames
  <2> QED BY <1>3, <2>1, <2>2, EntryFrames DEF Writes
<1> QED BY <1>1, <1>2, <1>3 DEF ServerStep

\* A tab that has gone is sent nothing.
Boxes ==
  /\ inbox \in [Conns -> Seq(SUBSET Frames)]
  /\ \A c \in Conns : far[c] = NoTab => inbox[c] = <<>>

\* What the server wrote to x in this step.
Mail(x) == {f \in out'[x] : f[1] # "LEAVE_ROOM_ACK"}

\* The mailbox of x after a step: emptied, or read from, and then written to.
Passes(x, box) == inbox'[x] = box \/ inbox'[x] = Append(box, Mail(x))

LEMMA PostedStep ==
  ASSUME NEW x \in Conns, NEW box, Posted(box)
  PROVE  /\ far[x] = NoTab => inbox'[x] = <<>>
         /\ far[x] # NoTab => inbox'[x] = IF Mail(x) = {} THEN box[x] ELSE Append(box[x], Mail(x))
BY DEF Posted, Mail

\* What a step does to one mailbox.
Box(x) ==
  \/ /\ inbox'[x] = <<>>
     /\ far[x] = NoTab \/ far'[x] = NoTab \/ st'[x] # "open"
  \/ /\ far'[x] = far[x] /\ far[x] # NoTab
     /\ \/ /\ ~Receive(x)
           /\ \/ inbox'[x] = inbox[x] /\ Mail(x) = {}
              \/ inbox'[x] = Append(inbox[x], Mail(x))
        \/ /\ Receive(x)
           /\ \/ inbox'[x] = Tail(inbox[x]) /\ Mail(x) = {}
              \/ inbox'[x] = Append(Tail(inbox[x]), Mail(x))

LEMMA BoxStep ==
  ASSUME TabInv, Boxes, WNext, NEW x \in Conns
  PROVE  Box(x)
<1> USE DEF TabInv, Sockets, Boxes
<1>7. ASSUME NEW c \in Conns, Receive(c), c = x \/ ~Receive(x) PROVE Box(x)
  <2> DEFINE box == [inbox EXCEPT ![c] = Tail(inbox[c])]
  <2>1. Posted(box) /\ far' = far
    BY <1>7 DEF Receive, netVars
  <2>2. box[x] = IF x = c THEN Tail(inbox[c]) ELSE inbox[x]
    OBVIOUS
  <2> HIDE DEF box
  <2>3. /\ far[x] = NoTab => inbox'[x] = <<>>
        /\ far[x] # NoTab => inbox'[x] = IF Mail(x) = {} THEN box[x] ELSE Append(box[x], Mail(x))
    BY <2>1, PostedStep
  <2>4. CASE x = c
    <3>1. Receive(x)
      BY <1>7, <2>4
    <3> QED BY <2>1, <2>2, <2>3, <2>4, <3>1 DEF Box
  <2>5. CASE x # c
    BY <1>7, <2>1, <2>2, <2>3, <2>5 DEF Box
  <2> QED BY <2>4, <2>5
<1>0. CASE Receive(x)
  BY <1>0, <1>7
<1> SUFFICES ASSUME ~Receive(x) PROVE Box(x)
  BY <1>0
<1>1. ASSUME inbox' = inbox, out' = Silence, far'[x] = far[x] \/ far[x] = NoTab
      PROVE  Box(x)
  <2>1. Mail(x) = {}
    BY <1>1 DEF Mail, Silence
  <2> QED BY <1>1, <2>1 DEF Box
<1>2. ASSUME Posted(inbox), far' = far PROVE Box(x)
  BY <1>2, PostedStep DEF Box
<1>3. ASSUME NEW c \in Conns, Accept(c) \/ ServerNotices(c) PROVE Box(x)
  BY <1>1, <1>3 DEF Accept, ServerNotices, Connect, Hangup, netVars
<1>4. ASSUME NEW c \in Conns, Opened(c) \/ ServerCloses(c) PROVE Box(x)
  BY <1>2, <1>4 DEF Opened, ServerCloses, netVars
<1>5. ASSUME NEW c \in Conns, Closed(c) \/ Lost(c) PROVE Box(x)
  <2>1. /\ inbox' = [inbox EXCEPT ![c] = <<>>] /\ far' = [far EXCEPT ![c] = NoTab]
        /\ out' = Silence
    BY <1>5 DEF Closed, Lost, SocketEnds, Quietly
  <2>2. Mail(x) = {}
    BY <2>1 DEF Mail, Silence
  <2> QED BY <2>1, <2>2 DEF Box
<1>6. ASSUME NEW c \in Conns, Drop(c) PROVE Box(x)
  <2>1. /\ inbox' = [inbox EXCEPT ![c] = <<>>] /\ far' = far /\ out' = Silence
        /\ st'[c] = "closing"
    BY <1>6 DEF Drop, Hangup, netVars, TypeOK
  <2>2. Mail(x) = {}
    BY <2>1 DEF Mail, Silence
  <2> QED BY <2>1, <2>2 DEF Box
<1>8. ASSUME NEW t \in Tabs, NEW c \in Conns, NewSocket(t, c), inbox' = inbox, Quietly
      PROVE  Box(x)
  <2>1. far'[x] = far[x] \/ far[x] = NoTab
    BY <1>8 DEF NewSocket, Unused
  <2> QED BY <1>1, <1>8, <2>1 DEF Quietly
<1>9. ASSUME NEW t \in Tabs, NEW type, NEW r, NEW p, Requests(t, type, r, p) PROVE Box(x)
  BY <1>2, <1>9 DEF Requests, netVars
<1>10. ASSUME NEW t \in Tabs, NEW type, NEW r, NEW p, Ask(t, type, r, p) PROVE Box(x)
  <2>1. CASE Requests(t, type, r, p)
    BY <1>9, <2>1
  <2>2. CASE inbox' = inbox /\ Quietly /\ far' = far
    BY <1>1, <2>2 DEF Quietly
  <2>3. CASE inbox' = inbox /\ Quietly /\ \E c \in Conns : NewSocket(t, c)
    BY <1>8, <2>3
  <2> QED BY <1>10, <2>1, <2>2, <2>3 DEF Ask, netVars
<1>11. ASSUME NEW t \in Tabs, Reconnect(t) PROVE Box(x)
  BY <1>8, <1>11 DEF Reconnect
<1>12. ASSUME NEW t \in Tabs, Continue(t) PROVE Box(x)
  BY <1>9, <1>12 DEF Continue
<1>13. ASSUME NEW t \in Tabs, RequestTimesOut(t) \/ Browse(t) \/ Acknowledge(t) PROVE Box(x)
  BY <1>1, <1>13 DEF RequestTimesOut, Browse, Acknowledge, Quietly, netVars
<1>14. ASSUME NEW t \in Tabs, Leave(t) PROVE Box(x)
  BY <1>2, <1>14 DEF Leave, netVars
<1>15. CASE Crash
  BY <1>15 DEF Crash, Restart, Box
<1> QED
  BY <1>3, <1>4, <1>5, <1>6, <1>7, <1>10, <1>11, <1>12, <1>13, <1>14, <1>15
  DEF WNext, Socket

LEMMA InboxIsFunction ==
  ASSUME Boxes, TabInv, WNext
  PROVE  inbox' = [x \in Conns |-> inbox'[x]]
<1> USE DEF Boxes
<1>1. ASSUME NEW box, Posted(box) PROVE inbox' = [x \in Conns |-> inbox'[x]]
  BY <1>1 DEF Posted
<1>2. ASSUME inbox' = inbox \/ (\E c \in Conns : inbox' = [inbox EXCEPT ![c] = <<>>])
      PROVE  inbox' = [x \in Conns |-> inbox'[x]]
  BY <1>2
<1>3. ASSUME NEW c \in Conns, Socket(c) \/ Drop(c) \/ Lost(c)
      PROVE inbox' = [x \in Conns |-> inbox'[x]]
  BY <1>1, <1>2, <1>3 DEF Socket, Drop, Lost, Accept, Opened, Receive, Closed, ServerNotices,
     ServerCloses, SocketEnds
<1>4. ASSUME NEW t \in Tabs, NEW type, NEW r, NEW p,
             Ask(t, type, r, p) \/ Requests(t, type, r, p)
      PROVE  inbox' = [x \in Conns |-> inbox'[x]]
  BY <1>1, <1>2, <1>4 DEF Ask, Requests
<1>5. ASSUME NEW t \in Tabs,
             \/ Reconnect(t) \/ Continue(t) \/ RequestTimesOut(t)
             \/ Leave(t) \/ Browse(t) \/ Acknowledge(t)
      PROVE  inbox' = [x \in Conns |-> inbox'[x]]
  BY <1>1, <1>2, <1>4, <1>5 DEF Reconnect, Continue, RequestTimesOut, Leave, Browse, Acknowledge
<1>6. CASE Crash
  BY <1>6 DEF Crash
<1> QED BY <1>3, <1>4, <1>5, <1>6 DEF WNext

\* Nobody logs in or out.
LEMMA WhoStays ==
  ASSUME TabInv, WNext
  PROVE  who' = who /\ askers \subseteq askers'
<1>1. ASSUME NEW c \in Conns, Socket(c) \/ Drop(c) \/ Lost(c)
      PROVE  who' = who /\ askers' = askers
  BY <1>1 DEF Socket, Drop, Lost, Accept, Opened, Receive, Closed, ServerNotices, ServerCloses,
     SocketEnds, bounds, asking
<1>2. ASSUME NEW t \in Tabs, NEW type, NEW r, NEW p, Ask(t, type, r, p)
      PROVE  who' = who /\ askers \subseteq askers'
  BY <1>2 DEF Ask, Requests
<1>3. ASSUME NEW t \in Tabs,
             \/ Reconnect(t) \/ Continue(t) \/ RequestTimesOut(t)
             \/ Leave(t) \/ Browse(t) \/ Acknowledge(t)
      PROVE  who' = who /\ askers' = askers
  BY <1>3 DEF Reconnect, Continue, Requests, RequestTimesOut, Leave, Browse, Acknowledge, bounds, asking
<1>4. CASE Crash
  BY <1>4 DEF Crash, asking
<1> QED BY <1>1, <1>2, <1>3, <1>4 DEF WNext

\* Who has handlers on x: the same tab, nobody, or a tab that opened an address
\* of which the server knows nothing.
LEMMA FarStep ==
  ASSUME TabInv, WNext, NEW x \in Conns
  PROVE  \/ far'[x] \in {far[x], NoTab}
         \/ far'[x] \in Tabs /\ st[x] = "free" /\ Quietly
<1> USE DEF TabInv, Sockets
<1>1. CASE UNCHANGED far
  BY <1>1
<1>2. ASSUME NEW t \in Tabs, NEW c \in Conns, NewSocket(t, c), Quietly
      PROVE  \/ far'[x] \in {far[x], NoTab}
             \/ far'[x] \in Tabs /\ st[x] = "free" /\ Quietly
  BY <1>2 DEF NewSocket, Unused
<1>3. ASSUME NEW c \in Conns, Socket(c) \/ Drop(c) \/ Lost(c) PROVE far'[x] \in {far[x], NoTab}
  BY <1>3 DEF Socket, Drop, Lost, Accept, Opened, Receive, Closed, ServerNotices, ServerCloses,
     SocketEnds, netVars
<1>4. ASSUME NEW t \in Tabs, NEW type, NEW r, NEW p, Ask(t, type, r, p)
      PROVE  far' = far \/ \E c \in Conns : NewSocket(t, c) /\ Quietly
  BY <1>4 DEF Ask, Requests, netVars
<1>5. ASSUME NEW t \in Tabs,
             \/ Continue(t) \/ RequestTimesOut(t)
             \/ Leave(t) \/ Browse(t) \/ Acknowledge(t)
      PROVE far' = far
  BY <1>5 DEF Continue, Requests, RequestTimesOut, Leave, Browse, Acknowledge, netVars
<1>6. ASSUME NEW t \in Tabs, Reconnect(t)
      PROVE  \E c \in Conns : NewSocket(t, c) /\ Quietly
  BY <1>6 DEF Reconnect
<1>7. CASE Crash
  BY <1>7 DEF Crash, netVars
<1> QED BY <1>1, <1>2, <1>3, <1>4, <1>5, <1>6, <1>7 DEF WNext

LEMMA BoxesStep ==
  ASSUME TabInv, Boxes, [WNext]_wvars
  PROVE  Boxes'
<1>1. CASE WNext
  <2>1. ASSUME NEW x \in Conns
        PROVE  inbox'[x] \in Seq(SUBSET Frames) /\ (far'[x] = NoTab => inbox'[x] = <<>>)
    <3>1. ServerStep
      BY <1>1, WNextIsServerStep
    <3>2. Mail(x) \in SUBSET Frames
      BY <3>1, OutTyped DEF Mail
    <3>3. inbox[x] \in Seq(SUBSET Frames)
      BY DEF Boxes
    <3>4. Receive(x) => Tail(inbox[x]) \in Seq(SUBSET Frames)
      BY <3>3 DEF Receive
    <3>5. Box(x)
      BY <1>1, BoxStep
    <3> DEFINE S == SUBSET Frames
    <3>6. ASSUME NEW box \in Seq(S) PROVE Append(box, Mail(x)) \in Seq(S)
      <4> HIDE DEF S
      <4> QED BY <3>2, <3>6 DEF S
    <3>7. inbox'[x] \in Seq(S)
      <4>1. inbox[x] \in Seq(S) /\ <<>> \in Seq(S)
        BY <3>3
      <4>2. Receive(x) => Tail(inbox[x]) \in Seq(S)
        BY <3>4
      <4> HIDE DEF S
      <4>3. /\ Append(inbox[x], Mail(x)) \in Seq(S)
            /\ Receive(x) => Append(Tail(inbox[x]), Mail(x)) \in Seq(S)
        BY <3>6, <4>1, <4>2
      <4> QED BY <3>5, <4>1, <4>2, <4>3, Zenon DEF Box
    <3>8. far'[x] = NoTab => inbox'[x] = <<>>
      BY <3>5 DEF Box
    <3> QED BY <3>7, <3>8
  <2> QED BY <1>1, <2>1, InboxIsFunction DEF Boxes
<1>2. CASE UNCHANGED wvars
  BY <1>2 DEF Boxes, wvars, netVars
<1> QED BY <1>1, <1>2

\* The one step that tells a tab it was replaced.
LEMMA ReplacedBy ==
  ASSUME TabInv, WNext, NEW t \in Tabs, replaced'[t], ~replaced[t]
  PROVE  \E c \in Conns : Receive(c) /\ far[c] = t /\ Latched(t, Head(inbox[c]))
<1> USE DEF TabInv, Screens
<1>1. ASSUME NEW c \in Conns, Socket(c) \/ Drop(c) \/ Lost(c)
      PROVE  Receive(c) /\ far[c] = t /\ Latched(t, Head(inbox[c]))
  <2>1. Receive(c)
    BY <1>1 DEF Socket, Drop, Lost, Accept, Opened, Closed, ServerNotices, ServerCloses,
       SocketEnds, pageVars
  <2> QED BY <2>1 DEF Receive
<1>2. ASSUME NEW s \in Tabs, NEW type, NEW r, NEW p, Ask(s, type, r, p) PROVE FALSE
  BY <1>2 DEF Ask, Requests
<1>3. ASSUME NEW s \in Tabs,
             \/ Reconnect(s) \/ Continue(s) \/ RequestTimesOut(s)
             \/ Leave(s) \/ Browse(s) \/ Acknowledge(s)
      PROVE FALSE
  BY <1>3 DEF Reconnect, Continue, Requests, RequestTimesOut, Leave, Browse, Acknowledge, pageVars
<1>4. CASE Crash
  BY <1>4 DEF Crash, pageVars
<1> QED BY <1>1, <1>2, <1>3, <1>4 DEF WNext

-----------------------------------------------------------------------------
(* Replaced by whom.  Needs clients that keep OneUser and users that wait.    *)

\* Another tab of the user of t has asked for a room.
Other(t) == \E s \in Tabs \ {t} : who[s] = who[t] /\ s \in askers

\* Frames that t can explain: SESSION_REPLACED only if there is such a tab.
Honest(t, frames) == (\E f \in frames : f[1] = "SESSION_REPLACED") => Other(t)

\* A context is the user's of the tab at its other end; a free one is nobody's.
Signed ==
  \A c \in Conns :
    /\ st[c] = "free" => uid[c] = NoUser
    /\ far[c] # NoTab /\ uid[c] # NoUser => uid[c] = who[far[c]]

Explained ==
  /\ ReplacedByOther
  /\ \A c \in Conns : far[c] # NoTab =>
       \A i \in 1..Len(inbox[c]) : Honest(far[c], inbox[c][i])

ReplacedInv == TabInv /\ Lone /\ Boxes /\ Danglers /\ Signed /\ Explained

\* A context is bound by its own tab, or blanked.
LEMMA UidStep ==
  ASSUME Plain, TabInv, ServerStep, NEW x \in Conns
  PROVE  \/ uid'[x] = NoUser
         \/ uid'[x] = uid[x] /\ (st'[x] = "free" => st[x] = "free")
         \/ far[x] \in Tabs /\ uid'[x] = who[far[x]] /\ st'[x] # "free"
<1> USE DEF TabInv, TypeOK
<1>1. CASE Quietly \/ Restart \/ \E c \in Conns : Connect(c) \/ Hangup(c)
  BY <1>1 DEF Quietly, Restart, Connect, Hangup
<1>2. ASSUME NEW c \in Conns, OnClose(c)
      PROVE  uid'[x] = NoUser \/ (uid'[x] = uid[x] /\ st'[x] = st[x])
  BY <1>2 DEF OnClose
<1>3. ASSUME NEW t \in Tabs, NEW r \in Rooms, Writes(t, r)
      PROVE  \/ uid'[x] = NoUser
             \/ uid'[x] = uid[x] /\ (st'[x] = "free" => st[x] = "free")
             \/ far[x] \in Tabs /\ uid'[x] = who[far[x]] /\ st'[x] # "free"
  <2>1. ws[t] \in Conns /\ who[t] \in Users /\ far[ws[t]] = t
    BY <1>3 DEF Login, Sockets, Writes
  <2>2. CASE LeaveRoom(ws[t], r, who[t])
    BY <2>1, <2>2 DEF LeaveRoom
  <2>3. ASSUME NEW p, CreateRoom(ws[t], r, who[t], p) \/ JoinRoom(ws[t], r, who[t], p)
        PROVE  \/ uid'[x] = uid[x] /\ (st'[x] = "free" => st[x] = "free")
               \/ far[x] \in Tabs /\ uid'[x] = who[far[x]] /\ st'[x] # "free"
    <3>1. uid' = [uid EXCEPT ![ws[t]] = who[t]]
      BY <2>1, <2>3 DEF CreateRoom, JoinRoom, Bind, Plain
    <3>2. st[ws[t]] = "open" /\ (st'[x] = st[x] \/ st'[x] = "closing")
      BY <1>3, <2>1, <2>3 DEF CreateRoom, JoinRoom, Writes
    <3> QED BY <2>1, <3>1, <3>2
  <2> QED BY <1>3, <2>2, <2>3 DEF Writes, Entry
<1> QED BY <1>1, <1>2, <1>3 DEF ServerStep

LEMMA SignedStep ==
  ASSUME Plain, TabInv, Signed, [WNext]_wvars
  PROVE  Signed'
<1>1. CASE WNext
  <2> SUFFICES ASSUME NEW x \in Conns
               PROVE  /\ st'[x] = "free" => uid'[x] = NoUser
                      /\ far'[x] # NoTab /\ uid'[x] # NoUser => uid'[x] = who'[far'[x]]
    BY DEF Signed
  <2>1. \/ uid'[x] = NoUser
        \/ uid'[x] = uid[x] /\ (st'[x] = "free" => st[x] = "free")
        \/ far[x] \in Tabs /\ uid'[x] = who[far[x]] /\ st'[x] # "free"
    BY <1>1, WNextIsServerStep, UidStep
  <2>2. \/ far'[x] \in {far[x], NoTab}
        \/ far'[x] \in Tabs /\ st[x] = "free" /\ uid'[x] = uid[x]
    BY <1>1, FarStep DEF Quietly
  <2>3. who' = who
    BY <1>1, WhoStays
  <2> QED BY <2>1, <2>2, <2>3 DEF Signed
<1>2. CASE UNCHANGED wvars
  BY <1>2 DEF Signed, wvars, vars, netVars
<1> QED BY <1>1, <1>2

\* Only a JOIN_ROOM of another tab of the user replaces a session.
LEMMA ReplacedFrames ==
  ASSUME Plain, TabInv, Lone, Danglers, Signed, ServerStep, who' = who,
         NEW x \in Conns, NEW s \in Tabs, far[x] = s,
         NEW f \in out'[x], f[1] = "SESSION_REPLACED"
  PROVE  Other(s)'
<1> USE DEF TabInv, Sockets, Login
<1>1. ~ (Quietly \/ Restart \/ \E c \in Conns : Connect(c) \/ Hangup(c))
  BY DEF Quietly, Restart, Connect, Hangup, Silence
<1>2. ASSUME NEW c \in Conns, OnClose(c) PROVE FALSE
  BY <1>2 DEF OnClose, Silence
<1>3. PICK t \in Tabs, r \in Rooms : Writes(t, r)
  BY <1>1, <1>2 DEF ServerStep
<1> DEFINE c == ws[t]
           u == who[t]
<1>4. c \in Conns /\ u \in Users /\ far[c] = t
  BY <1>3 DEF Writes
<1> HIDE DEF c, u
<1>5. ASSUME LeaveRoom(c, r, u) PROVE FALSE
  BY <1>5 DEF LeaveRoom
<1>6. ASSUME NEW p, CreateRoom(c, r, u, p) PROVE FALSE
  BY <1>6 DEF CreateRoom, Silence
<1>7. t \in askers' /\ Entry(c, r, u)
  BY <1>3, <1>5 DEF Writes, c, u
<1>8. PICK p : JoinRoom(c, r, u, p)
  BY <1>6, <1>7 DEF Entry
<1>9. x \in Displaced(c, u)
  <2>1. \A g \in JoinFrames(c, r, u, x) : g[1] # "SESSION_REPLACED"
    BY DEF JoinFrames
  <2>2. PICK told \in SUBSET Displaced(c, u) :
          \/ out'[x] = Notice(told, u, x) \cup JoinFrames(c, r, u, x)
          \/ out'[x] = Notice(told, u, x) \cup IF x = c THEN {<<"ERROR">>} ELSE {}
    <3>1. PICK told \in SUBSET {y \in Displaced(c, u) : st[y] = "open"} :
            \/ out' = [y \in Conns |-> Notice(told, u, y) \cup JoinFrames(c, r, u, y)]
            \/ out' = [y \in Conns |->
                         Notice(told, u, y) \cup IF y = c THEN {<<"ERROR">>} ELSE {}]
      BY <1>8, Zenon DEF JoinRoom
    <3>2. told \in SUBSET Displaced(c, u)
      BY <3>1
    <3> QED BY <3>1, <3>2
  <2>3. f \in Notice(told, u, x)
    BY <2>1, <2>2
  <2> QED BY <2>2, <2>3 DEF Notice
<1>10. x = ctxOf[u] /\ x # c
  BY <1>9 DEF Displaced
<1>11. uid[x] = u
  BY <1>4, <1>10, ConnAssumption DEF Danglers, NoDanglingCtx, Plain
<1>12. who[s] = u
  BY <1>4, <1>11, EscapeAssumption, TabAssumption DEF Signed
<1>13. s # t
  BY <1>10, TabAssumption DEF Lone, OneSocket, c
<1> QED
  BY <1>7, <1>12, <1>13 DEF Other, u

\* The elements of a mailbox after a step.
LEMMA BoxParts ==
  ASSUME Boxes, NEW x \in Conns, Box(x), Mail(x) \in SUBSET Frames,
         NEW i \in 1..Len(inbox'[x])
  PROVE  /\ far'[x] = far[x] /\ far[x] # NoTab
         /\ \/ inbox'[x][i] = Mail(x)
            \/ \E j \in 1..Len(inbox[x]) : inbox'[x][i] = inbox[x][j]
<1> DEFINE S == SUBSET Frames
<1>1. inbox[x] \in Seq(S) /\ Mail(x) \in S
  BY DEF Boxes
<1>2. Receive(x) => inbox[x] # <<>>
  BY DEF Receive
<1> HIDE DEF S
<1>3. inbox'[x] # <<>>
  OBVIOUS
<1>4. ASSUME NEW box \in Seq(S), inbox'[x] = box \/ inbox'[x] = Append(box, Mail(x))
      PROVE  inbox'[x][i] = Mail(x) \/ \E j \in 1..Len(box) : inbox'[x][i] = box[j]
  BY <1>1, <1>4
<1>5. CASE inbox'[x] = inbox[x] \/ inbox'[x] = Append(inbox[x], Mail(x))
  BY <1>1, <1>3, <1>4, <1>5 DEF Box
<1>6. CASE /\ Receive(x)
           /\ inbox'[x] = Tail(inbox[x]) \/ inbox'[x] = Append(Tail(inbox[x]), Mail(x))
  <2>1. /\ Tail(inbox[x]) \in Seq(S)
        /\ Len(Tail(inbox[x])) = Len(inbox[x]) - 1
        /\ \A j \in 1..Len(Tail(inbox[x])) : Tail(inbox[x])[j] = inbox[x][j + 1]
    BY <1>1, <1>2, <1>6
  <2>2. inbox'[x][i] = Mail(x) \/ \E j \in 1..Len(Tail(inbox[x])) : inbox'[x][i] = Tail(inbox[x])[j]
    BY <1>4, <1>6, <2>1
  <2>3. ASSUME NEW j \in 1..Len(Tail(inbox[x]))
        PROVE  j + 1 \in 1..Len(inbox[x]) /\ Tail(inbox[x])[j] = inbox[x][j + 1]
    BY <1>1, <2>1, <2>3
  <2>4. far'[x] = far[x] /\ far[x] # NoTab
    BY <1>3 DEF Box
  <2> QED BY <2>2, <2>3, <2>4
<1> QED
  BY <1>3, <1>5, <1>6 DEF Box

LEMMA ExplainedStep ==
  ASSUME Plain, ReplacedInv, [WNext]_wvars
  PROVE  Explained'
<1> USE DEF ReplacedInv
<1>1. CASE WNext
  <2>1. ServerStep /\ who' = who /\ askers \subseteq askers'
    BY <1>1, WNextIsServerStep, WhoStays
  <2>2. \A t \in Tabs : Other(t) => Other(t)'
    BY <2>1 DEF Other
  <2>3. ASSUME NEW x \in Conns, far'[x] # NoTab, NEW i \in 1..Len(inbox'[x])
        PROVE  Honest(far[x], inbox[x][i])'
    <3>1. Box(x) /\ Mail(x) \in SUBSET Frames
      BY <1>1, <2>1, BoxStep, OutTyped DEF Mail
    <3>2. /\ far'[x] = far[x] /\ far[x] # NoTab
          /\ \/ inbox'[x][i] = Mail(x)
             \/ \E j \in 1..Len(inbox[x]) : inbox'[x][i] = inbox[x][j]
      BY <3>1, BoxParts
    <3>3. PICK s \in Tabs : s = far[x]
      BY <3>2 DEF TabInv, Sockets
    <3>4. ASSUME NEW f \in inbox'[x][i], f[1] = "SESSION_REPLACED"
          PROVE  Other(s)'
      <4>1. CASE inbox'[x][i] = Mail(x)
        BY <2>1, <3>3, <3>4, <4>1, ReplacedFrames DEF Mail
      <4>2. CASE \E j \in 1..Len(inbox[x]) : inbox'[x][i] = inbox[x][j]
        <5>1. Other(s)
          BY <3>2, <3>3, <3>4, <4>2 DEF Explained, Honest
        <5> QED BY <2>2, <5>1
      <4> QED BY <3>2, <4>1, <4>2
    <3>5. far'[x] = s
      BY <3>2, <3>3
    <3> QED BY <3>4, <3>5 DEF Honest, Other
  <2>4. ASSUME NEW t \in Tabs, replaced'[t] PROVE Other(t)'
    <3>1. CASE replaced[t]
      BY <2>2, <3>1 DEF Explained, ReplacedByOther, Other
    <3>2. CASE ~replaced[t]
      <4>1. PICK c \in Conns : Receive(c) /\ far[c] = t /\ Latched(t, Head(inbox[c]))
        BY <1>1, <2>4, <3>2, ReplacedBy
      <4>2. /\ far[c] # NoTab /\ inbox[c] # <<>>
            /\ \E f \in Head(inbox[c]) : f[1] = "SESSION_REPLACED"
        BY <3>2, <4>1, TabAssumption DEF Receive, Latched
      <4>3. 1 \in 1..Len(inbox[c]) /\ Head(inbox[c]) = inbox[c][1]
        BY <4>2 DEF Boxes
      <4>4. Other(t)
        BY <4>1, <4>2, <4>3 DEF Explained, Honest
      <4> QED BY <2>2, <4>4
    <3> QED BY <3>1, <3>2
  <2> QED BY <2>3, <2>4 DEF Explained, ReplacedByOther, Other
<1>2. CASE UNCHANGED wvars
  BY <1>2 DEF Explained, ReplacedByOther, Honest, Other, wvars, netVars, pageVars, bounds, asking
<1> QED BY <1>1, <1>2

LEMMA TabsMoveServer ==
  ASSUME TabInv, [WNext]_wvars
  PROVE  TypeOK' /\ ([Next]_vars \/ Unmoved)
<1>1. CASE WNext
  BY <1>1, WNextIsServerStep, ServerStepIsNext, ServerTyped DEF TabInv
<1>2. CASE UNCHANGED wvars
  BY <1>2, ServerTyped DEF wvars
<1> QED BY <1>1, <1>2

LEMMA DanglersTabs ==
  ASSUME Plain, OneUser, TabInv, Danglers, [WNext]_wvars
  PROVE  Danglers'
<1>1. TypeOK' /\ ([Next]_vars \/ Unmoved)
  BY TabsMoveServer
<1>2. CASE [Next]_vars
  BY <1>1, <1>2, DanglersStep
<1>3. CASE Unmoved
  BY <1>1, <1>3 DEF Unmoved, Danglers, DisplacedClosing, NoDanglingCtx, tables
<1> QED BY <1>1, <1>2, <1>3

LEMMA BoxesInit == WInit => Boxes
  BY DEF WInit, Boxes

LEMMA ReplacedInit ==
  ASSUME WInit
  PROVE  ReplacedInv
<1>1. TabInv /\ Lone /\ Boxes
  BY TabInit, LoneInit, BoxesInit
<1>2. Danglers
  BY TypeInit DEF WInit, Init, Danglers, DisplacedClosing, NoDanglingCtx
<1>3. Signed
  BY DEF WInit, Init, Signed
<1>4. Explained
  BY DEF WInit, Explained, ReplacedByOther
<1> QED BY <1>1, <1>2, <1>3, <1>4 DEF ReplacedInv

LEMMA ReplacedStep ==
  ASSUME Plain, OneUser, Patient, ReplacedInv, [WNext]_wvars
  PROVE  ReplacedInv'
<1>1. TabInv' /\ Lone' /\ Boxes'
  BY TabStep, LoneStep, BoxesStep DEF ReplacedInv
<1>2. Danglers' /\ Signed'
  BY DanglersTabs, SignedStep DEF ReplacedInv
<1>3. Explained'
  BY ExplainedStep
<1> QED BY <1>1, <1>2, <1>3 DEF ReplacedInv

\* A tab never displaces itself: through drops the server or the tab sees
\* first, reconnects, replays, requests that time out and restarts of the
\* server, it is told it was replaced only if another tab of its user asked for
\* a room.
THEOREM OnlyOthersReplace ==
  ASSUME Plain, OneUser, Patient
  PROVE  WSpec => []ReplacedByOther
<1>1. WInit => ReplacedInv
  BY ReplacedInit
<1>2. ReplacedInv /\ [WNext]_wvars => ReplacedInv'
  BY ReplacedStep
<1>3. ReplacedInv => ReplacedByOther
  BY DEF ReplacedInv, Explained
<1> QED
  BY <1>1, <1>2, <1>3, PTL DEF WSpec

-----------------------------------------------------------------------------
(* The list a tab will show once it has read its mailbox.                   *)

LEMMA ShownMonotone ==
  ASSUME NEW frames, NEW list, NEW more, list \subseteq more
  PROVE  Shown(list, frames) \subseteq Shown(more, frames)
BY DEF Shown

LEMMA ShownOfMail ==
  ASSUME NEW x, NEW list
  PROVE  Shown(list, out'[x]) = Shown(list, Mail(x))
<1>1. \A type \in {"PEER_LIST", "PEER_JOINED", "PEER_LEFT"} :
        {g \in out'[x] : g[1] = type} = {g \in Mail(x) : g[1] = type}
  BY DEF Mail
<1> QED BY <1>1 DEF Shown

\* v is in the list, or in a set of frames of the mailbox, and no later one
\* takes it out.
Reaches(list, box, v) ==
  \/ v \in list /\ \A i \in 1..Len(box) : v \in Shown({v}, box[i])
  \/ \E i \in 1..Len(box) :
       v \in Shown({}, box[i]) /\ \A j \in (i + 1)..Len(box) : v \in Shown({v}, box[j])

LEMMA ReachesRead ==
  ASSUME NEW S, NEW list, NEW box \in Seq(S), box # <<>>, NEW v, Reaches(list, box, v)
  PROVE  Reaches(Shown(list, Head(box)), Tail(box), v)
<1>1. /\ Len(box) \in Nat /\ Len(box) > 0
      /\ Len(Tail(box)) = Len(box) - 1
      /\ \A i \in 1..Len(Tail(box)) : Tail(box)[i] = box[i + 1] /\ i + 1 \in 1..Len(box)
      /\ Head(box) = box[1]
  OBVIOUS
<1>2. CASE v \in list /\ \A i \in 1..Len(box) : v \in Shown({v}, box[i])
  <2>0. 1 \in 1..Len(box)
    BY <1>1
  <2>1. v \in Shown({v}, box[1]) /\ {v} \subseteq list
    BY <1>2, <2>0
  <2>2. v \in Shown(list, Head(box))
    BY <1>1, <2>1, ShownMonotone
  <2>3. \A i \in 1..Len(Tail(box)) : v \in Shown({v}, Tail(box)[i])
    BY <1>1, <1>2
  <2> QED BY <2>2, <2>3 DEF Reaches
<1>3. ASSUME NEW i \in 1..Len(box), v \in Shown({}, box[i]),
             \A j \in (i + 1)..Len(box) : v \in Shown({v}, box[j])
      PROVE  Reaches(Shown(list, Head(box)), Tail(box), v)
  <2>1. CASE i = 1
    <3>1. v \in Shown({}, Head(box)) /\ {} \subseteq list
      BY <1>1, <1>3, <2>1
    <3>2. v \in Shown(list, Head(box))
      BY <3>1, ShownMonotone
    <3>3. ASSUME NEW k \in 1..Len(Tail(box)) PROVE v \in Shown({v}, Tail(box)[k])
      <4>1. k + 1 \in (i + 1)..Len(box) /\ Tail(box)[k] = box[k + 1]
        BY <1>1, <2>1
      <4> QED BY <1>3, <4>1
    <3> QED BY <3>2, <3>3 DEF Reaches
  <2>2. CASE i # 1
    <3>1. i - 1 \in 1..Len(Tail(box)) /\ Tail(box)[i - 1] = box[i]
      BY <1>1, <2>2
    <3>2. ASSUME NEW k \in ((i - 1) + 1)..Len(Tail(box)) PROVE v \in Shown({v}, Tail(box)[k])
      <4>1. k + 1 \in (i + 1)..Len(box) /\ Tail(box)[k] = box[k + 1]
        BY <1>1, <2>2
      <4> QED BY <1>3, <4>1
    <3> QED BY <1>3, <3>1, <3>2 DEF Reaches
  <2> QED BY <2>1, <2>2
<1> QED BY <1>2, <1>3 DEF Reaches

LEMMA ReachesWritten ==
  ASSUME NEW S, NEW list, NEW box \in Seq(S), NEW m \in S, NEW v,
         \/ v \in Shown({}, m)
         \/ Reaches(list, box, v) /\ v \in Shown({v}, m)
  PROVE  Reaches(list, Append(box, m), v)
<1> DEFINE all == Append(box, m)
           n == Len(box) + 1
<1>1. /\ Len(box) \in Nat /\ Len(all) = n /\ all[n] = m
      /\ \A i \in 1..Len(box) : all[i] = box[i]
  OBVIOUS
<1> HIDE DEF all
<1>2. CASE v \in Shown({}, m)
  <2>1. n \in 1..Len(all) /\ v \in Shown({}, all[n]) /\ \A j \in (n + 1)..Len(all) : FALSE
    BY <1>1, <1>2
  <2> QED BY <2>1 DEF Reaches, all
<1>3. CASE Reaches(list, box, v) /\ v \in Shown({v}, m)
  <2>0. \A i \in 1..Len(all) : i \in 1..Len(box) \/ i = n
    BY <1>1
  <2>1. CASE v \in list /\ \A i \in 1..Len(box) : v \in Shown({v}, box[i])
    <3>1. ASSUME NEW i \in 1..Len(all) PROVE v \in Shown({v}, all[i])
      BY <1>1, <1>3, <2>0, <2>1
    <3> QED BY <2>1, <3>1 DEF Reaches, all
  <2>2. ASSUME NEW i \in 1..Len(box), v \in Shown({}, box[i]),
               \A j \in (i + 1)..Len(box) : v \in Shown({v}, box[j])
        PROVE  Reaches(list, Append(box, m), v)
    <3>1. i \in 1..Len(all) /\ v \in Shown({}, all[i])
      BY <1>1, <2>2
    <3>2. ASSUME NEW j \in (i + 1)..Len(all) PROVE v \in Shown({v}, all[j])
      <4>1. (j \in (i + 1)..Len(box) /\ all[j] = box[j]) \/ j = n
        BY <1>1
      <4>2. j = n => v \in Shown({v}, all[j])
        BY <1>1, <1>3
      <4> HIDE DEF n
      <4> QED BY <2>2, <4>1, <4>2
    <3> QED BY <3>1, <3>2 DEF Reaches, all
  <2> QED BY <1>3, <2>1, <2>2 DEF Reaches
<1> QED BY <1>2, <1>3

\* Nothing on its way: the list is what it is.
LEMMA ReachesEmpty ==
  ASSUME NEW list, NEW v, Reaches(list, <<>>, v)
  PROVE  v \in list
BY DEF Reaches

-----------------------------------------------------------------------------
(* What the server writes to a seat: whoever is a member after a step was one *)
(* before and was not taken off, or is named.  Needs all three disciplines.   *)

\* v was with x in its room, and what the server wrote does not take v off.
StaysWith(x, v) ==
  /\ st[x] = "open" /\ at'[x] = at[x] /\ uid[x] \in Users /\ uid'[x] = uid[x]
  /\ v \in members[at[x]] \ {uid[x]}
  /\ v \in Shown({v}, out'[x])

\* v is in the room of x.
InRoomOf(x, v) == st[x] = "open" /\ at[x] # NoRoom /\ v \in members[at[x]] \ {uid[x]}

Named(x, v) == v \in Shown({}, out'[x]) \/ StaysWith(x, v)

LEMMA SeatBefore ==
  ASSUME Plain, Served, NEW x \in Conns, st[x] = "open", at[x] # NoRoom
  PROVE  /\ uid[x] \in Users /\ at[x] \in Rooms /\ at[x] \in rooms
         /\ uid[x] \in members[at[x]] /\ asked[x] = at[x]
<1>1. uid[x] \in Users
  BY DEF Plain, Served, SeatInv, Seats, SeatTaken, Danglers, TypeOK, Keys
<1> QED BY <1>1 DEF Served, SeatInv, Seats, SeatTaken, RoomAskedFor, Danglers, TypeOK

LEMMA NamedIfQuiet ==
  ASSUME Plain, Served, NEW x \in Conns, NEW v, InRoomOf(x, v)', st[x] = "open",
         at'[x] = at[x], uid'[x] = uid[x], members' = members, Quiet(out'[x])
  PROVE  Named(x, v)
<1>1. Shown({v}, out'[x]) = {v}
  BY ShownNothing
<1> QED BY <1>1, SeatBefore DEF Named, StaysWith, InRoomOf

\* Another member leaves every room.
LEMMA NamedIfGone ==
  ASSUME Plain, Served, NEW x \in Conns, NEW v, InRoomOf(x, v)', st[x] = "open",
         at'[x] = at[x], uid'[x] = uid[x], NEW u,
         \A q \in Rooms : members'[q] = members[q] \ {u},
         \A f \in out'[x] : f[1] = "PEER_LEFT" /\ f[3] = u
  PROVE  Named(x, v)
<1>1. at[x] \in Rooms
  BY SeatBefore DEF InRoomOf
<1>2. v \in members[at[x]] /\ v # u
  BY <1>1 DEF InRoomOf
<1> DEFINE list == {v}
<1>3. /\ \A f \in out'[x] : f[1] \notin {"PEER_LIST", "PEER_JOINED"}
      /\ \A f \in out'[x] : f[1] = "PEER_LEFT" => f[3] = u
      /\ u \in list => \E f \in out'[x] : f[1] = "PEER_LEFT"
  BY <1>2
<1> HIDE DEF list
<1>5. Shown(list, out'[x]) = list \ {u}
  BY <1>3, ShownLeft
<1>4. Shown({v}, out'[x]) = {v} \ {u}
  BY <1>5 DEF list
<1> QED BY <1>2, <1>4, SeatBefore DEF Named, StaysWith, InRoomOf

LEMMA NamedByCreate ==
  ASSUME Plain, OneUser, OneRoom, SoleCreate, Served, Served',
         NEW c \in Conns, NEW r \in Rooms, NEW u \in Users,
         NEW p \in Passwords \cup {NoPwd}, CreateRoom(c, r, u, p),
         NEW x \in Conns, NEW v, InRoomOf(x, v)'
  PROVE  Named(x, v)
<1> USE DEF Served, SeatInv, Seats, Danglers, TypeOK, Plain
<1>1. /\ st[c] = "open" /\ uid[c] \in {NoUser, u} /\ st' = st
      /\ uid' = [uid EXCEPT ![c] = u]
  BY DEF CreateRoom, Speaks, Bind
<1>2. Quiet(out'[x])
  BY DEF CreateRoom, Silence, Quiet
<1>3. CASE /\ r \notin rooms /\ members' = [members EXCEPT ![r] = {u}]
           /\ at' = [at EXCEPT ![c] = r]
  <2>1. x # c
    BY <1>1, <1>3 DEF InRoomOf
  <2>2. st[x] = "open" /\ at'[x] = at[x] /\ uid'[x] = uid[x] /\ at[x] # NoRoom
    BY <1>1, <1>3, <2>1 DEF InRoomOf
  <2>3. at[x] \in rooms
    BY <2>2, SeatBefore
  <2>4. v \in members[at[x]] \ {uid[x]}
    BY <1>3, <2>2, <2>3 DEF InRoomOf
  <2>5. Shown({v}, out'[x]) = {v}
    BY <1>2, ShownNothing
  <2> QED BY <2>2, <2>4, <2>5, SeatBefore DEF Named, StaysWith
<1>4. CASE members' = members /\ at' = at
  <2>1. st[x] = "open" /\ at[x] # NoRoom /\ at'[x] = at[x]
    BY <1>1, <1>4 DEF InRoomOf
  <2>2. uid[x] \in Users
    BY <2>1, SeatBefore
  <2>3. uid'[x] = uid[x]
    BY <1>1, <2>2, EscapeAssumption
  <2> QED BY <1>2, <1>4, <2>1, <2>3, NamedIfQuiet
<1> QED BY <1>3, <1>4 DEF CreateRoom, NewRoom, roomVars

LEMMA NamedByJoin ==
  ASSUME Plain, OneUser, OneRoom, Served, Served', TypeOK,
         NEW c \in Conns, NEW r \in Rooms, NEW u \in Users,
         NEW p \in Passwords \cup {NoPwd}, JoinRoom(c, r, u, p),
         NEW x \in Conns, NEW v, InRoomOf(x, v)'
  PROVE  Named(x, v)
<1> USE DEF Served, SeatInv, Seats, Danglers, TypeOK, Plain
<1>1. /\ st[c] = "open" /\ uid[c] \in {NoUser, u}
      /\ st' = [y \in Conns |-> IF y \in Displaced(c, u) THEN "closing" ELSE st[y]]
      /\ uid' = [uid EXCEPT ![c] = u]
  BY DEF JoinRoom, Speaks, Bind
<1>2. c \notin Displaced(c, u)
  BY DEF Displaced
<1>3. st[x] = "open" /\ st'[x] = "open"
  BY <1>1 DEF InRoomOf
<1> DEFINE D == {y \in Displaced(c, u) : st[y] = "open"}
<1>4. ASSUME NEW told \in SUBSET D, at' = [at EXCEPT ![c] = r],
             members'[r] = members[r] \cup {u},
             \A q \in Rooms \ {r} : members'[q] = members[q],
             out' = [y \in Conns |-> Notice(told, u, y) \cup JoinFrames(c, r, u, y)]
      PROVE  Named(x, v)
  <2>1. c \notin told /\ out'[x] = Notice(told, u, x) \cup JoinFrames(c, r, u, x)
    BY <1>2, <1>4
  <2>2. CASE x = c
    <3>1. v \in members[r] \ {u} /\ uid'[c] = u
      BY <1>1, <1>4, <2>2 DEF InRoomOf
    <3> HIDE DEF Served, SeatInv, Seats, Danglers, TypeOK, Plain, D
    <3>2. Shown({}, Notice(told, u, c) \cup JoinFrames(c, r, u, c)) =
            IF members[r] \subseteq {u} THEN {} ELSE members[r] \ {u}
      BY <2>1, <3>1, JoinShownToNewcomer
    <3>3. v \in Shown({}, out'[x])
      BY <2>1, <2>2, <3>1, <3>2
    <3> QED BY <3>3 DEF Named
  <2>3. CASE x # c
    <3>1. at'[x] = at[x] /\ uid'[x] = uid[x] /\ at[x] # NoRoom
      BY <1>1, <1>4, <2>3 DEF InRoomOf
    <3>2. at[x] \in Rooms /\ uid[x] \in Users /\ uid[x] \in members[at[x]]
      BY <1>3, <3>1, SeatBefore
    <3> HIDE DEF Served, SeatInv, Seats, Danglers, TypeOK, Plain, D
    <3> DEFINE frames == Notice(told, u, x) \cup JoinFrames(c, r, u, x)
    <3>3. ASSUME NEW list
          PROVE  \/ uid'[x] \in members[r] \ {u} /\ Shown(list, frames) = list \cup {u}
                 \/ uid'[x] \notin members[r] \ {u} /\ Shown(list, frames) = list
      <4>1. x # c /\ st'[x] = "open"
        BY <1>3, <2>3
      <4> QED BY <4>1, JoinShownToOthers
    <3>4. out'[x] = frames
      BY <2>1
    <3> HIDE DEF frames
    <3>5. CASE v \in members[at[x]]
      <4>1. v \in Shown({v}, out'[x])
        BY <3>3, <3>4
      <4> QED BY <1>3, <3>1, <3>2, <3>5, <4>1 DEF Named, StaysWith, InRoomOf
    <3>6. CASE v \notin members[at[x]]
      <4>1. v = u /\ at[x] = r /\ v # uid[x]
        BY <1>4, <3>1, <3>2, <3>6 DEF InRoomOf
      <4>2. uid'[x] \in members[r] \ {u}
        BY <3>1, <3>2, <4>1
      <4>3. Shown({}, frames) = {} \cup {u}
        BY <3>3, <4>2
      <4> QED BY <3>4, <4>1, <4>3 DEF Named
    <3> QED BY <3>5, <3>6
  <2> QED BY <2>2, <2>3
<1>5. ASSUME NEW told \in SUBSET D, UNCHANGED <<roomVars, at>>,
             out' = [y \in Conns |->
                       Notice(told, u, y) \cup IF y = c THEN {<<"ERROR">>} ELSE {}]
      PROVE  Named(x, v)
  <2>1. Quiet(out'[x])
    BY <1>5 DEF Notice, Quiet
  <2>2. members' = members /\ at'[x] = at[x] /\ at[x] # NoRoom
    BY <1>5 DEF roomVars, InRoomOf
  <2>3. uid[x] \in Users
    BY <1>3, <2>2, SeatBefore
  <2>4. uid'[x] = uid[x]
    BY <1>1, <2>3, EscapeAssumption
  <2> QED BY <1>3, <2>1, <2>2, <2>4, NamedIfQuiet
<1>6. PICK told \in SUBSET D :
     \/ /\ r \notin rooms
        /\ NewRoom(r, u, NoPwd)
        /\ at' = [at EXCEPT ![c] = r]
        /\ out' = [y \in Conns |-> Notice(told, u, y) \cup JoinFrames(c, r, u, y)]
     \/ /\ out' = [y \in Conns |->
                     Notice(told, u, y) \cup IF y = c THEN {<<"ERROR">>} ELSE {}]
        /\ UNCHANGED <<roomVars, at>>
     \/ /\ members' = [members EXCEPT ![r] = @ \cup {u}]
        /\ at' = [at EXCEPT ![c] = r]
        /\ out' = [y \in Conns |-> Notice(told, u, y) \cup JoinFrames(c, r, u, y)]
  BY DEF JoinRoom
<1>7. ASSUME r \notin rooms, NewRoom(r, u, NoPwd)
      PROVE  /\ members'[r] = members[r] \cup {u}
             /\ \A q \in Rooms \ {r} : members'[q] = members[q]
  BY <1>7 DEF NewRoom
<1>8. ASSUME members' = [members EXCEPT ![r] = @ \cup {u}]
      PROVE  /\ members'[r] = members[r] \cup {u}
             /\ \A q \in Rooms \ {r} : members'[q] = members[q]
  BY <1>8
<1> HIDE DEF D
<1> QED BY <1>4, <1>5, <1>6, <1>7, <1>8

LEMMA NamedStep ==
  ASSUME Plain, OneUser, OneRoom, SoleCreate, TabInv, Served, Served', ServerStep,
         NEW x \in Conns, NEW v, InRoomOf(x, v)'
  PROVE  Named(x, v)
<1>1. CASE Quietly \/ \E c \in Conns : Connect(c) \/ Hangup(c)
  <2>1. /\ members' = members /\ at' = at /\ uid' = uid /\ out' = Silence
        /\ st'[x] = "open" => st[x] \in {"open", "free"}
    BY <1>1 DEF Quietly, Connect, Hangup, clientVars, roomVars, TabInv, TypeOK
  <2>2. Quiet(out'[x])
    BY <2>1 DEF Silence, Quiet
  <2>3. st[x] # "free"
    BY <2>1 DEF InRoomOf, Served, SeatInv, Blank
  <2> QED BY <2>1, <2>2, <2>3, NamedIfQuiet DEF InRoomOf
<1>2. ASSUME NEW c \in Conns, OnClose(c) PROVE Named(x, v)
  <2>1. x # c /\ st[x] = "open" /\ at'[x] = at[x] /\ uid'[x] = uid[x]
    BY <1>2 DEF OnClose, InRoomOf, TabInv, TypeOK
  <2>2. CASE Cascades(c)
    <3>1. PICK u \in Users : u = uid[c]
      BY <2>2 DEF Cascades
    <3>2. \A q \in Rooms : members'[q] = members[q] \ {u}
      BY <1>2, <2>2, <3>1, CloseLeavesEveryRoom DEF Served
    <3>3. out'[x] = {<<"PEER_LEFT", q, u>> :
                       q \in {q \in rooms : u \in members[q] /\ Hears(x, q, u)}}
      BY <1>2, <2>2, <3>1 DEF OnClose
    <3>4. \A f \in out'[x] : f[1] = "PEER_LEFT" /\ f[3] = u
      BY <3>3
    <3> QED BY <2>1, <3>2, <3>4, NamedIfGone
  <2>3. CASE ~Cascades(c)
    <3>1. members' = members /\ Quiet(out'[x])
      BY <1>2, <2>3 DEF OnClose, Silence, Quiet
    <3> QED BY <2>1, <3>1, NamedIfQuiet
  <2> QED BY <2>2, <2>3
<1>3. ASSUME NEW t \in Tabs, NEW r \in Rooms, Writes(t, r) PROVE Named(x, v)
  <2>1. PICK c \in Conns, u \in Users : c = ws[t] /\ u = who[t]
    BY <1>3 DEF TabInv, Login, Sockets, Writes
  <2>2. CASE LeaveRoom(c, r, u)
    <3>1. x # c /\ st[x] = "open" /\ at'[x] = at[x] /\ uid'[x] = uid[x]
      BY <2>2 DEF LeaveRoom, InRoomOf, TabInv, TypeOK
    <3>2. \A q \in Rooms : members'[q] = members[q] \ {u}
      BY <2>2, LeavesEveryRoom DEF Served
    <3>3. out'[x] = IF Hears(x, r, u) THEN {<<"PEER_LEFT", r, u>>} ELSE {}
      BY <2>2, <3>1 DEF LeaveRoom
    <3>4. \A f \in out'[x] : f[1] = "PEER_LEFT" /\ f[3] = u
      BY <3>3
    <3> QED BY <3>1, <3>2, <3>4, NamedIfGone
  <2>3. ASSUME NEW p \in Passwords \cup {NoPwd}, CreateRoom(c, r, u, p) \/ JoinRoom(c, r, u, p)
        PROVE  Named(x, v)
    BY <2>3, NamedByCreate, NamedByJoin DEF TabInv
  <2> QED BY <1>3, <2>1, <2>2, <2>3 DEF Writes, Entry
<1>4. CASE Restart
  BY <1>4 DEF Restart, InRoomOf
<1> QED BY <1>1, <1>2, <1>3, <1>4 DEF ServerStep

-----------------------------------------------------------------------------
(* Missing peers.                                                           *)

\* The tab at the other end of a seat has it open, remembers its room, and its
\* list will name every other member.
InformedOf(t, x) ==
  far[x] = t /\ st[x] = "open" /\ at[x] # NoRoom =>
    /\ near[x] = "open" /\ asked[x] = roomId[t]
    /\ \A v \in members[at[x]] \ {uid[x]} : Reaches(peers[t], inbox[x], v)

Informed == \A t \in Tabs, x \in Conns : InformedOf(t, x)

PeersTyped == DOMAIN peers = Tabs

\* The server's part of a step in which t writes nothing.
Apart(t) ==
  \/ Quietly
  \/ \E c \in Conns : Connect(c) \/ Hangup(c) \/ OnClose(c)
  \/ \E s \in Tabs \ {t}, r \in Rooms : Writes(s, r)
  \/ Restart

\* What t reads and shows in a step in which it writes nothing.
Reads(t, x) ==
  /\ Apart(t)
  /\ roomId'[t] = roomId[t]
  /\ near'[x] \in {near[x], "open"}
  /\ IF Receive(x) THEN peers'[t] = Shown(peers[t], Head(inbox[x])) ELSE peers'[t] = peers[t]

\* It asks for a room, or leaves one.
AsksFor(t, x, r) ==
  /\ Entry(x, r, who[t]) /\ roomId'[t] = r
  /\ near'[x] = "open" /\ peers'[t] = peers[t] /\ ~Receive(x)
GoesAway(t) == Leaves(t)

TabMoves(t, x) ==
  GoesAway(t) \/ Reads(t, x) \/ \E r \in Rooms : AsksFor(t, x, r)

\* A tab only writes on its own socket.
LEMMA OthersApart ==
  ASSUME TabInv, NEW t \in Tabs, NEW s \in Tabs \ {t}, NEW r \in Rooms,
         \/ Quietly
         \/ /\ ws[s] # NoConn /\ st[ws[s]] = "open"
            /\ \/ Entry(ws[s], r, who[s]) /\ s \in askers'
               \/ LeaveRoom(ws[s], r, who[s])
  PROVE  Apart(t)
BY DEF Apart, Writes

LEMMA LeavesApart ==
  ASSUME TabInv, NEW t \in Tabs, NEW s \in Tabs \ {t}, Leaves(s)
  PROVE  Apart(t)
<1>1. CASE Quietly
  BY <1>1, OthersApart DEF Apart
<1>2. CASE ~Quietly
  <2>1. /\ Usable(ws[s]) /\ st[ws[s]] = "open" /\ LeaveRoom(ws[s], roomId[s], who[s])
        /\ roomId[s] # NoRoom
    BY <1>2, LeavesStep
  <2>2. PICK r \in Rooms : r = roomId[s]
    BY <2>1 DEF TabInv, Screens, Pages
  <2> QED BY <2>1, <2>2, OthersApart DEF Usable
<1> QED BY <1>1, <1>2

LEMMA ReadsReceived ==
  ASSUME TabInv, Lone, PeersTyped, NEW c \in Conns, Receive(c), NEW t \in Tabs, NEW x \in Conns,
         far[x] = t, c = x \/ ~Receive(x)
  PROVE  GoesAway(t) \/ Reads(t, x)
<1> USE DEF TabInv, Screens, Sockets
<1>1. PICK s \in Tabs : s = far[c]
  BY DEF Receive
<1> DEFINE frames == Head(inbox[c])
           evicted == Latched(s, frames)
                      /\ (IF Accepted(s, frames) THEN request[s][3] ELSE held[s]) # NoRoom
<1>3. /\ roomId' = [roomId EXCEPT ![s] = IF evicted THEN NoRoom ELSE roomId[s]]
      /\ peers' = [peers EXCEPT ![s] = IF evicted THEN {} ELSE Shown(peers[s], frames)]
      /\ IF evicted THEN Leaves(s) ELSE Quietly
      /\ UNCHANGED netVars
  BY <1>1 DEF Receive
<1>4. near' = near
  BY <1>3 DEF netVars
<1>5. CASE s = t
  <2>1. c = x
    <3>1. ws[t] = c
      BY <1>1, <1>5, TabAssumption DEF Lone, OneSocket
    <3>2. ws[t] = x
      BY TabAssumption DEF Lone, OneSocket
    <3> QED BY <3>1, <3>2
  <2>2. Receive(x)
    BY <2>1
  <2>3. CASE evicted
    BY <1>3, <1>5, <2>3 DEF GoesAway, Pages
  <2>4. CASE ~evicted
    <3>1. Quietly /\ roomId'[t] = roomId[t] /\ peers'[t] = Shown(peers[t], Head(inbox[x]))
      BY <1>3, <1>5, <2>1, <2>4 DEF Pages, PeersTyped
    <3> QED BY <1>4, <2>2, <3>1 DEF Reads, Apart
  <2> QED BY <2>3, <2>4
<1>6. CASE s # t
  <2>1. c # x
    BY <1>1, <1>6
  <2>2. roomId'[t] = roomId[t] /\ peers'[t] = peers[t]
    BY <1>3, <1>6 DEF Pages, PeersTyped
  <2>3. Apart(t)
    <3>1. CASE evicted
      BY <1>3, <1>6, <3>1, LeavesApart
    <3>2. CASE ~evicted
      BY <1>3, <3>2 DEF Apart
    <3> QED BY <3>1, <3>2
  <2> QED BY <1>4, <2>1, <2>2, <2>3 DEF Reads
<1> QED BY <1>5, <1>6

LEMMA ReadsNothing ==
  ASSUME NEW t \in Tabs, NEW x \in Conns, Apart(t), ~Receive(x),
         roomId'[t] = roomId[t], peers'[t] = peers[t], near'[x] \in {near[x], "open"}
  PROVE  TabMoves(t, x)
BY DEF TabMoves, Reads

\* joinRoom or createRoom, by t or by another tab.
LEMMA MovesRequested ==
  ASSUME TabInv, Lone, PeersTyped, NEW t \in Tabs, NEW x \in Conns, far[x] = t,
         st'[x] = "open", ~Receive(x),
         NEW s \in Tabs, NEW type, NEW r \in Rooms, NEW p \in Passwords \cup {NoPwd},
         Requests(s, type, r, p), s \in askers', Usable(ws[s])
  PROVE  TabMoves(t, x)
<1> USE DEF TabInv, Screens, Sockets
<1>1. near' = near /\ roomId' = [roomId EXCEPT ![s] = r] /\ peers' = peers
  BY DEF Requests, netVars
<1>2. \/ Quietly
      \/ Usable(ws[s]) /\ st[ws[s]] = "open" /\ Entry(ws[s], r, who[s])
  BY RequestsStep
<1>3. CASE s # t
  <2>1. Apart(t)
    BY <1>2, <1>3, OthersApart DEF Usable
  <2> QED BY <1>1, <1>3, <2>1, ReadsNothing DEF Pages
<1>4. CASE s = t
  <2>1. ws[t] = x
    BY TabAssumption DEF Lone, OneSocket
  <2>2. st[x] = "open" => Entry(x, r, who[t])
    BY <1>4, <2>1 DEF Requests, Sends, Joins, Entry
  <2>3. st[x] # "open" => Quietly
    BY <1>2, <1>4, <2>1
  <2>4. st[x] = "open"
    BY <2>3 DEF Quietly
  <2>5. near'[x] = "open" /\ roomId'[t] = r
    BY <1>1, <1>4, <2>1 DEF Usable, Pages
  <2> QED BY <1>1, <2>2, <2>4, <2>5 DEF TabMoves, AsksFor
<1> QED BY <1>3, <1>4

LEMMA MovesOpened ==
  ASSUME TabInv, Lone, PeersTyped, NEW t \in Tabs, NEW x \in Conns, far[x] = t,
         ~Receive(x), NEW c \in Conns, Opened(c)
  PROVE  TabMoves(t, x)
<1> USE DEF TabInv, Screens, Sockets, Pages
<1>1. PICK s \in Tabs : s = far[c]
  BY DEF Opened
<1>2. /\ near' = [near EXCEPT ![c] = "open"] /\ roomId' = roomId /\ peers' = peers
  BY DEF Opened, pageVars
<1>3. near'[x] \in {near[x], "open"}
  BY <1>2
<1>4. \/ Quietly
      \/ /\ roomId[s] # NoRoom /\ st[ws[s]] = "open"
         /\ ws[s] = c \/ Usable(ws[s])
         /\ Entry(ws[s], roomId[s], who[s]) /\ askers' = askers
  BY <1>1, OpenedStep
<1>5. CASE Quietly
  BY <1>2, <1>3, <1>5, ReadsNothing DEF Apart
<1>6. CASE ~Quietly
  <2>1. PICK r \in Rooms : r = roomId[s]
    BY <1>4, <1>6
  <2>2. s \in askers'
    BY <1>4, <1>6 DEF Login
  <2>3. ws[s] = c
    BY <1>1, TabAssumption DEF Lone, OneSocket
  <2>4. CASE s # t
    <3>1. Apart(t)
      BY <1>4, <1>6, <2>1, <2>2, <2>3, <2>4, ConnAssumption, OthersApart
    <3> QED BY <1>2, <1>3, <3>1, ReadsNothing
  <2>5. CASE s = t
    <3>1. c = x
      BY <2>3, <2>5, TabAssumption DEF Lone, OneSocket
    <3>2. Entry(x, r, who[t]) /\ roomId'[t] = r /\ near'[x] = "open"
      BY <1>2, <1>4, <1>6, <2>1, <2>3, <2>5, <3>1
    <3> QED BY <1>2, <3>2 DEF TabMoves, AsksFor
  <2> QED BY <2>4, <2>5
<1> QED BY <1>5, <1>6

LEMMA MovesLeave ==
  ASSUME TabInv, PeersTyped, NEW t \in Tabs, NEW x \in Conns, ~Receive(x),
         NEW s \in Tabs, Leave(s)
  PROVE  TabMoves(t, x)
<1> USE DEF TabInv, Screens, Pages
<1>1. Leaves(s)
  BY DEF Leave
<1>2. CASE s = t
  BY <1>1, <1>2 DEF TabMoves, GoesAway
<1>3. CASE s # t
  <2>1. near' = near /\ roomId'[t] = roomId[t] /\ peers'[t] = peers[t]
    BY <1>3 DEF Leave, GoesHome, netVars, PeersTyped
  <2>2. Apart(t)
    BY <1>1, <1>3, LeavesApart
  <2> QED BY <2>1, <2>2, ReadsNothing
<1> QED BY <1>2, <1>3

LEMMA TabMovesStep ==
  ASSUME Patient, TabInv, Lone, PeersTyped, WNext, NEW t \in Tabs, NEW x \in Conns,
         far[x] = t, far'[x] = t, st'[x] = "open"
  PROVE  TabMoves(t, x)
<1> USE DEF TabInv, Screens, Sockets
<1>1. CASE Receive(x)
  BY <1>1, ReadsReceived DEF TabMoves
<1> SUFFICES ASSUME ~Receive(x) PROVE TabMoves(t, x)
  BY <1>1
<1>2. ASSUME NEW c \in Conns, Receive(c) PROVE TabMoves(t, x)
  BY <1>2, ReadsReceived DEF TabMoves
<1>3. ASSUME NEW c \in Conns, Accept(c) \/ ServerNotices(c) \/ ServerCloses(c) \/ Drop(c)
      PROVE  TabMoves(t, x)
  <2>1. Apart(t) /\ UNCHANGED <<near, roomId, peers>>
    BY <1>3 DEF Accept, ServerNotices, ServerCloses, Drop, Apart, netVars, pageVars
  <2> QED BY <2>1, ReadsNothing
<1>4. ASSUME NEW c \in Conns, Closed(c) \/ Lost(c) PROVE TabMoves(t, x)
  <2>1. Quietly /\ SocketEnds(c)
    BY <1>4 DEF Closed, Lost
  <2>2. x # c
    BY <2>1, TabAssumption DEF SocketEnds
  <2>3. near'[x] = near[x] /\ UNCHANGED <<roomId, peers>>
    BY <2>1, <2>2 DEF SocketEnds
  <2> QED BY <2>1, <2>3, ReadsNothing DEF Apart
<1>5. ASSUME NEW s \in Tabs, NEW c \in Conns, NewSocket(s, c), Quietly,
             UNCHANGED <<roomId, peers>>
      PROVE  TabMoves(t, x)
  <2>1. x # c
    BY <1>5, TabAssumption DEF NewSocket, Unused
  <2>2. near'[x] = near[x]
    BY <1>5, <2>1 DEF NewSocket
  <2> QED BY <1>5, <2>2, ReadsNothing DEF Apart
<1>6. ASSUME NEW s \in Tabs, NEW type, NEW r \in Rooms, NEW p \in Passwords \cup {NoPwd},
             Ask(s, type, r, p)
      PROVE  TabMoves(t, x)
  <2>1. s \in askers'
    BY <1>6 DEF Ask
  <2>2. CASE Usable(ws[s]) /\ Requests(s, type, r, p)
    BY <2>1, <2>2, MovesRequested
  <2>3. CASE Quietly /\ UNCHANGED <<near, roomId, peers>>
    BY <2>3, ReadsNothing DEF Apart
  <2>4. CASE Quietly /\ UNCHANGED <<roomId, peers>> /\ \E c \in Conns : NewSocket(s, c)
    BY <1>5, <2>4
  <2> QED BY <1>6, <2>2, <2>3, <2>4 DEF Ask, netVars
<1>7. ASSUME NEW s \in Tabs, Continue(s) PROVE TabMoves(t, x)
  <2>1. request[s] # NoRequest /\ request[s] \in Asking /\ Usable(request[s][5])
    BY <1>7 DEF Continue
  <2>2. request[s][5] = ws[s] /\ request[s][3] \in Rooms
        /\ request[s][4] \in Passwords \cup {NoPwd}
    BY <2>1, AskingParts DEF Lone, AsksOnIt
  <2>3. s \in askers'
    BY <1>7, <2>1 DEF Continue, asking, Login
  <2> QED BY <1>7, <2>1, <2>2, <2>3, MovesRequested DEF Continue
<1>8. ASSUME NEW s \in Tabs, RequestTimesOut(s) \/ Browse(s) \/ Acknowledge(s) PROVE TabMoves(t, x)
  <2>1. Quietly /\ UNCHANGED <<near, roomId, peers>>
    BY <1>8 DEF RequestTimesOut, Browse, Acknowledge, netVars
  <2> QED BY <2>1, ReadsNothing DEF Apart
<1>9. ASSUME NEW s \in Tabs, Reconnect(s) PROVE TabMoves(t, x)
  BY <1>5, <1>9 DEF Reconnect, pageVars
<1>10. CASE Crash
  BY <1>10, ReadsNothing DEF Crash, Apart, netVars, pageVars
<1> QED
  BY <1>2, <1>3, <1>4, <1>6, <1>7, <1>8, <1>9, <1>10, MovesOpened, MovesLeave
  DEF WNext, Socket

\* In a step in which its tab writes nothing, a seat stays what it is, or goes.
LEMMA ApartKeeps ==
  ASSUME TabInv, Served, NEW t \in Tabs, NEW x \in Conns, far[x] = t, Apart(t),
         st'[x] = "open", at'[x] # NoRoom
  PROVE  st[x] = "open" /\ at'[x] = at[x] /\ asked'[x] = asked[x]
<1> USE DEF TabInv, TypeOK
<1>1. CASE Quietly \/ Restart
  BY <1>1 DEF Quietly, Restart, clientVars
<1>2. ASSUME NEW c \in Conns, Connect(c) \/ Hangup(c)
      PROVE  st[x] = "open" /\ at'[x] = at[x] /\ asked'[x] = asked[x]
  <2>1. at'[x] = at[x] /\ asked'[x] = asked[x] /\ st[x] \in {"open", "free"}
    BY <1>2 DEF Connect, Hangup, clientVars
  <2> QED BY <2>1 DEF Served, SeatInv, Blank
<1>3. ASSUME NEW c \in Conns, OnClose(c)
      PROVE  st[x] = "open" /\ at'[x] = at[x] /\ asked'[x] = asked[x]
  BY <1>3 DEF OnClose
<1>4. ASSUME NEW s \in Tabs \ {t}, NEW r \in Rooms, Writes(s, r)
      PROVE  st[x] = "open" /\ at'[x] = at[x] /\ asked'[x] = asked[x]
  <2>1. PICK c \in Conns, u \in Users : c = ws[s] /\ u = who[s]
    BY <1>4 DEF Login, Sockets, Writes
  <2>2. c # x
    BY <1>4, <2>1, ConnAssumption DEF Sockets
  <2>3. CASE LeaveRoom(c, r, u)
    BY <2>2, <2>3 DEF LeaveRoom
  <2>4. ASSUME NEW p, CreateRoom(c, r, u, p)
        PROVE  st[x] = "open" /\ at'[x] = at[x] /\ asked'[x] = asked[x]
    BY <2>2, <2>4 DEF CreateRoom
  <2>5. ASSUME NEW p, JoinRoom(c, r, u, p)
        PROVE  st[x] = "open" /\ at'[x] = at[x] /\ asked'[x] = asked[x]
    <3>1. st'[x] = IF x \in Displaced(c, u) THEN "closing" ELSE st[x]
      BY <2>5 DEF JoinRoom
    <3>2. asked'[x] = asked[x]
      BY <2>2, <2>5 DEF JoinRoom
    <3>3. at'[x] = at[x]
      BY <2>2, <2>5 DEF JoinRoom
    <3> QED BY <3>1, <3>2, <3>3
  <2> QED BY <1>4, <2>1, <2>3, <2>4, <2>5 DEF Writes, Entry
<1> QED BY <1>1, <1>2, <1>3, <1>4 DEF Apart

\* A tab with a seat remembers its room, so one that leaves gives the seat up.
LEMMA AwayIsGone ==
  ASSUME Plain, TabInv, Lone, Signed, Served, Informed,
         NEW t \in Tabs, NEW x \in Conns, far[x] = t, GoesAway(t), st'[x] = "open"
  PROVE  at'[x] = NoRoom
<1> USE DEF TabInv, TypeOK
<1>1. ws[t] = x
  BY TabAssumption DEF Lone, OneSocket
<1>2. CASE Quietly
  <2> SUFFICES ASSUME at[x] # NoRoom PROVE FALSE
    BY <1>2 DEF Quietly, clientVars
  <2>1. st[x] = "open"
    BY <1>2 DEF Quietly
  <2>2. near[x] = "open" /\ asked[x] = roomId[t] /\ roomId[t] # NoRoom
    BY <2>1, SeatBefore, RoomAssumption DEF Informed, InformedOf
  <2>3. uid[x] \in Users
    BY <2>1, SeatBefore
  <2>4. uid[x] = who[t]
    BY <2>3, TabAssumption, EscapeAssumption DEF Signed
  <2>5. LeaveRoom(x, roomId[t], who[t])
    BY <1>1, <2>1, <2>2, <2>3, <2>4, ConnAssumption DEF GoesAway, Leaves, Sends, Usable, Plain
  <2>6. at'[x] = NoRoom
    BY <2>5 DEF LeaveRoom
  <2> QED BY <1>2, <2>6 DEF Quietly, clientVars
<1>3. CASE ~Quietly
  <2>1. LeaveRoom(x, roomId[t], who[t])
    BY <1>1, <1>3, LeavesStep DEF GoesAway
  <2> QED BY <2>1 DEF LeaveRoom
<1> QED BY <1>2, <1>3

\* The list and the mailbox after a step, together.
LEMMA ReachesStep ==
  ASSUME Boxes, NEW t \in Tabs, NEW x \in Conns, far[x] = t, far'[x] = t, st'[x] = "open",
         Box(x), Mail(x) \in SUBSET Frames, NEW v,
         IF Receive(x) THEN peers'[t] = Shown(peers[t], Head(inbox[x])) ELSE peers'[t] = peers[t],
         \/ v \in Shown({}, Mail(x))
         \/ Reaches(peers[t], inbox[x], v) /\ v \in Shown({v}, Mail(x))
  PROVE  Reaches(peers'[t], inbox'[x], v)
<1> DEFINE S == SUBSET Frames
           base == IF Receive(x) THEN Tail(inbox[x]) ELSE inbox[x]
<1>1. inbox[x] \in Seq(S) /\ Mail(x) \in S /\ (Receive(x) => inbox[x] # <<>>)
  BY DEF Boxes, Receive
<1> HIDE DEF S
<1>2. base \in Seq(S)
  BY <1>1
<1>3. Reaches(peers[t], inbox[x], v) => Reaches(peers'[t], base, v)
  <2>1. CASE Receive(x)
    BY <1>1, <2>1, ReachesRead
  <2>2. CASE ~Receive(x)
    BY <2>2
  <2> QED BY <2>1, <2>2
<1>4. (inbox'[x] = base /\ Mail(x) = {}) \/ inbox'[x] = Append(base, Mail(x))
  BY TabAssumption DEF Box
<1> HIDE DEF base
<1>5. CASE inbox'[x] = Append(base, Mail(x))
  <2>1. \/ v \in Shown({}, Mail(x))
        \/ Reaches(peers'[t], base, v) /\ v \in Shown({v}, Mail(x))
    BY <1>3
  <2>2. Reaches(peers'[t], Append(base, Mail(x)), v)
    BY <1>1, <1>2, <2>1, ReachesWritten
  <2> QED BY <1>5, <2>2
<1>6. CASE inbox'[x] = base /\ Mail(x) = {}
  <2>1. Shown({}, Mail(x)) = {}
    BY <1>6 DEF Shown
  <2> QED BY <1>3, <1>6, <2>1
<1> QED BY <1>4, <1>5, <1>6

LEMMA InformedOfStep ==
  ASSUME Plain, OneUser, OneRoom, SoleCreate, Patient,
         TabInv, Lone, Boxes, Signed, PeersTyped, Served, Served', Informed, WNext,
         NEW t \in Tabs, NEW x \in Conns
  PROVE  InformedOf(t, x)'
<1> SUFFICES ASSUME far'[x] = t, st'[x] = "open", at'[x] # NoRoom
             PROVE  /\ near'[x] = "open" /\ asked'[x] = roomId'[t]
                    /\ \A v \in members'[at'[x]] \ {uid'[x]} : Reaches(peers'[t], inbox'[x], v)
  BY DEF InformedOf, Reaches
<1>1. ServerStep /\ Box(x)
  BY WNextIsServerStep, BoxStep
<1>2. Mail(x) \in SUBSET Frames
  BY <1>1, OutTyped DEF Mail
<1>3. far[x] = t
  BY FarStep, TabAssumption DEF Quietly
<1>4. TabMoves(t, x) /\ ~GoesAway(t)
  BY <1>3, TabMovesStep, AwayIsGone
<1>5. /\ near'[x] = "open" /\ asked'[x] = roomId'[t]
      /\ IF Receive(x) THEN peers'[t] = Shown(peers[t], Head(inbox[x])) ELSE peers'[t] = peers[t]
  <2>1. ASSUME NEW r \in Rooms, AsksFor(t, x, r) PROVE asked'[x] = roomId'[t]
    BY <2>1 DEF AsksFor, Entry, CreateRoom, JoinRoom, TabInv, TypeOK
  <2>2. ASSUME Reads(t, x) PROVE near'[x] = "open" /\ asked'[x] = roomId'[t]
    <3>1. st[x] = "open" /\ at[x] # NoRoom /\ asked'[x] = asked[x]
      BY <1>3, <2>2, ApartKeeps DEF Reads
    <3> QED BY <1>3, <2>2, <3>1 DEF Reads, Informed, InformedOf
  <2> QED BY <1>4, <2>1, <2>2 DEF TabMoves, AsksFor, Reads
<1>6. ASSUME NEW v \in members'[at'[x]] \ {uid'[x]} PROVE Reaches(peers'[t], inbox'[x], v)
  <2>1. InRoomOf(x, v)'
    BY <1>6 DEF InRoomOf
  <2>2. Named(x, v)
    BY <1>1, <2>1, NamedStep
  <2>3. /\ Shown({}, out'[x]) = Shown({}, Mail(x))
        /\ Shown({v}, out'[x]) = Shown({v}, Mail(x))
    BY ShownOfMail
  <2>4. StaysWith(x, v) => Reaches(peers[t], inbox[x], v)
    BY <1>3 DEF StaysWith, Informed, InformedOf
  <2>5. \/ v \in Shown({}, Mail(x))
        \/ Reaches(peers[t], inbox[x], v) /\ v \in Shown({v}, Mail(x))
    BY <2>2, <2>3, <2>4 DEF Named, StaysWith
  <2> QED BY <1>1, <1>2, <1>3, <1>5, <2>5, ReachesStep
<1> QED BY <1>5, <1>6

LEMMA InformedStep ==
  ASSUME Plain, OneUser, OneRoom, SoleCreate, Patient,
         TabInv, Lone, Boxes, Signed, PeersTyped, Served, Served', Informed, [WNext]_wvars
  PROVE  Informed'
<1>1. CASE WNext
  BY <1>1, InformedOfStep DEF Informed
<1>2. CASE UNCHANGED wvars
  <2>1. /\ UNCHANGED <<st, uid, asked, at, members>>
        /\ UNCHANGED <<far, near, inbox, roomId, peers>>
    BY <1>2 DEF wvars, vars, netVars, pageVars
  <2>2. ASSUME NEW t \in Tabs, NEW x \in Conns PROVE InformedOf(t, x)'
    <3>1. InformedOf(t, x)
      BY DEF Informed
    <3>2. ASSUME NEW v PROVE Reaches(peers[t], inbox[x], v)' <=> Reaches(peers[t], inbox[x], v)
      BY <2>1 DEF Reaches
    <3> QED BY <2>1, <3>1, <3>2 DEF InformedOf
  <2> QED BY <2>2 DEF Informed
<1> QED BY <1>1, <1>2

LEMMA PeersTypedStep ==
  ASSUME PeersTyped, [WNext]_wvars
  PROVE  PeersTyped'
<1>1. ASSUME NEW c \in Conns, Socket(c) \/ Drop(c) \/ Lost(c) PROVE DOMAIN peers' = Tabs
  BY <1>1 DEF Socket, Drop, Lost, Accept, Opened, Receive, Closed, ServerNotices, ServerCloses,
     SocketEnds, pageVars, PeersTyped
<1>2. ASSUME NEW t \in Tabs, NEW type, NEW r, NEW p, Ask(t, type, r, p)
      PROVE  DOMAIN peers' = Tabs
  BY <1>2 DEF Ask, Requests, PeersTyped
<1>3. ASSUME NEW t \in Tabs,
             \/ Reconnect(t) \/ Continue(t) \/ RequestTimesOut(t)
             \/ Leave(t) \/ Browse(t) \/ Acknowledge(t)
      PROVE  DOMAIN peers' = Tabs
  BY <1>3 DEF Reconnect, Continue, Requests, RequestTimesOut, Leave, GoesHome, Browse, Acknowledge,
     pageVars, PeersTyped
<1>4. CASE Crash \/ UNCHANGED wvars
  BY <1>4 DEF Crash, wvars, pageVars, PeersTyped
<1> QED BY <1>1, <1>2, <1>3, <1>4 DEF WNext, PeersTyped

\* What the server guarantees does not depend on how the tabs drive it.
Kept == SeatInv /\ Covered /\ TablesAgree

LEMMA KeptStep ==
  ASSUME Plain, OneUser, OneRoom, SoleCreate, TabInv, Kept, [WNext]_wvars
  PROVE  Kept'
<1> USE DEF Kept
<1>1. TypeOK' /\ ([Next]_vars \/ Unmoved)
  BY TabsMoveServer
<1>2. CASE [Next]_vars
  <2>1. Danglers /\ TypeOK
    BY DEF SeatInv, Seats, Danglers
  <2>2. Danglers'
    BY <1>1, <1>2, <2>1, DanglersStep
  <2> QED BY <1>1, <1>2, <2>1, <2>2, SeatStep, CoveredStep, TablesStep
<1>3. CASE Unmoved
  <2>1. SeatInv'
    BY <1>1, <1>3 DEF Unmoved, SeatInv, Seats, Danglers, DisplacedClosing, NoDanglingCtx, Owner,
       OwnerKnown, SeatTaken, Blank, tables, clientVars, roomVars
  <2>2. Covered'
    BY <1>3 DEF Unmoved, Covered, Covers, clientVars, roomVars
  <2>3. TablesAgree'
    BY <1>3 DEF Unmoved, TablesAgree, tables
  <2> QED BY <2>1, <2>2, <2>3
<1> QED BY <1>1, <1>2, <1>3

LEMMA PeersInit ==
  ASSUME WInit
  PROVE  TabInv /\ Lone /\ Boxes /\ Signed /\ PeersTyped /\ Kept /\ Informed
<1>1. TabInv /\ Lone /\ Boxes /\ Signed /\ Danglers
  BY TabInit, LoneInit, BoxesInit, ReplacedInit DEF ReplacedInv
<1>2. Kept
  BY <1>1 DEF WInit, Init, Kept, SeatInv, Seats, Owner, OwnerKnown, SeatTaken, Blank, Covered,
     TablesAgree
<1>3. PeersTyped
  BY DEF WInit, PeersTyped
<1>4. Informed
  BY DEF WInit, Init, Informed, InformedOf
<1> QED BY <1>1, <1>2, <1>3, <1>4

\* A tab with nothing on its way shows every member of its room.
LEMMA InformedShows ==
  ASSUME Plain, TabInv, Signed, Served, Informed
  PROVE  NoMissingPeer
<1> USE DEF TabInv, Sockets
<1> SUFFICES ASSUME NEW t \in Tabs, NEW c, c = ws[t], Usable(c), st[c] = "open",
                    page[t] # NoRoom, at[c] = page[t], inbox[c] = <<>>,
                    NEW v \in members[at[c]] \ {who[t]}
             PROVE  v \in peers[t]
  BY DEF NoMissingPeer
<1>1. c \in Conns /\ far[c] = t
  BY DEF Usable
<1>2. uid[c] = who[t]
  <2>1. uid[c] \in Users
    BY <1>1, SeatBefore
  <2> QED BY <1>1, <2>1, TabAssumption, EscapeAssumption DEF Signed
<1>3. Reaches(peers[t], inbox[c], v)
  BY <1>1, <1>2 DEF Informed, InformedOf
<1>4. Reaches(peers[t], <<>>, v)
  BY <1>3
<1> QED BY <1>4, ReachesEmpty

\* What the replay is for: whatever drops, reconnects, restarts of the server
\* and joins and leaves of others there were, a tab that shows its room, has its
\* socket open and has read what was sent to it lists every other member.
THEOREM NoPeerMissed ==
  ASSUME Plain, OneUser, OneRoom, SoleCreate, Patient
  PROVE  WSpec => []NoMissingPeer
<1> DEFINE I == TabInv /\ Lone /\ Boxes /\ Signed /\ PeersTyped /\ Kept
<1>1. WInit => I /\ Informed
  BY PeersInit
<1>2. I /\ [WNext]_wvars => I'
  <2>1. ASSUME I, [WNext]_wvars PROVE I'
    <3>1. TabInv' /\ Lone' /\ Boxes'
      BY <2>1, TabStep, LoneStep, BoxesStep
    <3>2. Signed' /\ PeersTyped'
      BY <2>1, SignedStep, PeersTypedStep
    <3>3. Kept'
      BY <2>1, KeptStep
    <3> QED BY <3>1, <3>2, <3>3
  <2> QED BY <2>1
<1>3. I => Served
  BY CoverIsOwn DEF Kept, Served
<1>4. I /\ Served /\ Served' /\ Informed /\ [WNext]_wvars => Informed'
  BY InformedStep
<1>5. I /\ Served /\ Informed => NoMissingPeer
  BY InformedShows
<1> HIDE DEF I
<1> QED
  BY <1>1, <1>2, <1>3, <1>4, <1>5, PTL DEF WSpec
=============================================================================
