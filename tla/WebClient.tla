----------------------------- MODULE WebClient -----------------------------
(***************************************************************************)
(* The signaling server together with browser tabs: the socket of each     *)
(* tab, its reconnect timer, the JOIN_ROOM it replays, its one pending     *)
(* request and what the page shows (web/src/services/signalService.ts,     *)
(* hooks/useSignal.ts and App.tsx).                                        *)
(*                                                                         *)
(* A tab and the server see a connection end at different times: st is the *)
(* server's view, near the tab's.  What the server writes waits in inbox   *)
(* until the tab's message event; what a tab writes is handled at once, or *)
(* lost when the server's end is already closing.                          *)
(***************************************************************************)
EXTENDS SignalingServer, PeerList, Sequences

CONSTANTS
  Tabs, NoTab,
  Logins,      \* the ways the tabs may be logged in: functions to Users
  Patient,     \* discipline: the user asks for nothing while a former socket
               \* is closing or a reconnect is pending
  MaxAsks,     \* requests of the users, all tabs together
  MaxFaults    \* faults of the network, the server and the clock

ASSUME TabAssumption == NoTab \notin Tabs /\ Logins \subseteq [Tabs -> Users]
ASSUME UserBehaviourAssumption ==
  /\ Patient \in BOOLEAN
  /\ MaxAsks \in Nat /\ MaxFaults \in Nat
\* There are sockets for all tabs to start with.
ASSUME SocketAssumption ==
  \E f \in [Tabs -> Conns] : \A s, t \in Tabs : f[s] = f[t] => s = t

VARIABLES
  who,         \* the user id of each tab; two tabs may share one
  far,         \* far[c]: the tab whose handlers are attached to socket c
  near,        \* near[c]: readyState of socket c
  inbox,       \* inbox[c]: frames on their way to the tab, a set per write
  ws,          \* SignalService::ws, NoConn when it is closed
  timer,       \* reconnectTimer is set
  beats,       \* heartbeatTimer is set
  roomId,      \* SignalService::roomId
  request,     \* the pending request <<stage, type, room, password, socket>>,
               \* the password only until it is sent
  page,        \* App: the room shown, NoRoom on the home page
  held,        \* App: roomId, the room to leave on SESSION_REPLACED and on the
               \* back button
  replaced,    \* sessionReplaced, of the service and of the page
  peers,       \* useSignal: peers
  asks, faults,\* counters of the bounds
  askers       \* the tabs that have requested a room

netVars == <<far, near, ws, timer, beats>>
pageVars == <<roomId, request, page, held, replaced, peers>>
asking == <<asks, askers>>
bounds == <<asking, faults>>
wvars == <<vars, who, netVars, inbox, pageVars, bounds>>

NoRequest == <<>>

First == CHOOSE f \in [Tabs -> Conns] : \A s, t \in Tabs : f[s] = f[t] => s = t

\* App mounts: every tab has called connect().
WInit ==
  /\ Init
  /\ who \in Logins
  /\ ws = First
  /\ far = [c \in Conns |-> IF \E t \in Tabs : ws[t] = c
                              THEN CHOOSE t \in Tabs : ws[t] = c ELSE NoTab]
  /\ near = [c \in Conns |-> IF far[c] = NoTab THEN "closed" ELSE "connecting"]
  /\ inbox = [c \in Conns |-> <<>>]
  /\ timer = [t \in Tabs |-> FALSE]
  /\ beats = [t \in Tabs |-> FALSE]
  /\ roomId = [t \in Tabs |-> NoRoom]
  /\ request = [t \in Tabs |-> NoRequest]
  /\ page = [t \in Tabs |-> NoRoom]
  /\ held = [t \in Tabs |-> NoRoom]
  /\ replaced = [t \in Tabs |-> FALSE]
  /\ peers = [t \in Tabs |-> {}]
  /\ asks = 0 /\ askers = {}
  /\ faults = 0

-----------------------------------------------------------------------------
(* Both ends.                                                               *)

\* The server does nothing in this step.
Quietly ==
  /\ out' = Silence
  /\ UNCHANGED <<st, uid, displaced, clientVars, tables, roomVars>>

\* What the server wrote in this step is on its way, behind what was.
Posted(box) ==
  inbox' = [c \in Conns |->
    LET frames == {f \in out'[c] : f[1] # "LEAVE_ROOM_ACK"}
    IN IF far[c] = NoTab THEN <<>>
       ELSE IF frames = {} THEN box[c] ELSE Append(box[c], frames)]

Fault == faults < MaxFaults /\ faults' = faults + 1

Usable(c) == c # NoConn /\ near[c] = "open"

\* A message written on the tab's current socket, ready or not.
Sends(t, Handler(_)) ==
  IF Usable(ws[t]) /\ st[ws[t]] = "open"
    THEN Handler(ws[t])
    ELSE Quietly /\ UNCHANGED faults

\* A lost SESSION_REPLACED is a fault: libuv writes a short frame at once
\* unless the socket's buffer is full.
Joins(c, t, r, p) ==
  /\ JoinRoom(c, r, who[t], p)
  /\ \/ /\ \A x \in Displaced(c, who[t]) :
             st[x] = "open" => <<"SESSION_REPLACED", who[t]>> \in out'[x]
        /\ UNCHANGED faults
     \/ /\ \E x \in Displaced(c, who[t]) :
             st[x] = "open" /\ <<"SESSION_REPLACED", who[t]>> \notin out'[x]
        /\ Fault

Unused == {c \in Conns : st[c] = "free" /\ far[c] = NoTab}

\* connect() with a new socket.  Unused addresses are alike: which one it gets
\* makes no difference.
NewSocket(t, c) ==
  /\ Unused # {} /\ c = CHOOSE x \in Unused : TRUE
  /\ ws' = [ws EXCEPT ![t] = c]
  /\ far' = [far EXCEPT ![c] = t]
  /\ near' = [near EXCEPT ![c] = "connecting"]

-----------------------------------------------------------------------------
(* The life of a socket.                                                    *)

\* The proxy and the server accept the connection.
Accept(c) ==
  /\ near[c] = "connecting"
  /\ Connect(c)
  /\ UNCHANGED <<who, netVars, inbox, pageVars, bounds>>

\* A reconnect does not go back to the room.
MutReplaysNothing(t) == FALSE

Replays(t) == roomId[t] # NoRoom

\* The heartbeat is started by the first onopen only.
MutBeating(t) == beats' = [beats EXCEPT ![t] = t \notin askers]

\* startHeartbeat
Beating(t) == beats' = [beats EXCEPT ![t] = TRUE]

\* onopen: the heartbeat starts, and JOIN_ROOM is replayed, without password,
\* on whatever is the current socket by now.
Opened(c) ==
  LET t == far[c]
  IN /\ near[c] = "connecting" /\ st[c] = "open"
     /\ near' = [near EXCEPT ![c] = "open"]
     /\ Beating(t)
     /\ IF Replays(t) /\ (ws[t] = c \/ Usable(ws[t])) /\ st[ws[t]] = "open"
          THEN Joins(ws[t], t, roomId[t], NoPwd)
          ELSE Quietly /\ UNCHANGED faults
     /\ Posted(inbox)
     /\ UNCHANGED <<who, far, ws, timer, pageVars, asking>>

\* onclose reconnects whatever the server said.
MutScheduled(t) == timer' = [timer EXCEPT ![t] = TRUE]

\* onclose: scheduleReconnect, unless the session was replaced.
Scheduled(t) == timer' = [timer EXCEPT ![t] = @ \/ ~replaced[t]]

\* The tab's socket c is closed: a request that waits on it is rejected.
SocketEnds(c) ==
  LET t == far[c]
  IN /\ far' = [far EXCEPT ![c] = NoTab]
     /\ near' = [near EXCEPT ![c] = "closed"]
     /\ ws' = [ws EXCEPT ![t] = IF @ = c THEN NoConn ELSE @]
     /\ beats' = [beats EXCEPT ![t] = FALSE]
     /\ Scheduled(t)
     /\ request' = [request EXCEPT ![t] = IF @ # NoRequest /\ @[5] = c THEN NoRequest ELSE @]
     /\ inbox' = [inbox EXCEPT ![c] = <<>>]
     /\ UNCHANGED <<who, roomId, page, held, replaced, peers, asking>>

\* The close event after the server's end closed, behind everything it wrote.
Closed(c) ==
  /\ far[c] # NoTab /\ inbox[c] = <<>>
  /\ st[c] = "closing" \/ (st[c] = "free" /\ near[c] = "open")
  /\ SocketEnds(c)
  /\ Quietly
  /\ UNCHANGED faults

\* The server learns that the tab's end is gone.
ServerNotices(c) ==
  /\ far[c] = NoTab
  /\ Hangup(c)
  /\ UNCHANGED <<who, netVars, inbox, pageVars, bounds>>

\* The deferred close callback of the server.
ServerCloses(c) ==
  /\ OnClose(c)
  /\ Posted(inbox)
  /\ UNCHANGED <<who, netVars, pageVars, bounds>>

-----------------------------------------------------------------------------
(* Timers and faults.                                                       *)

\* The timer is not forgotten when it fires.
MutFired(t) == UNCHANGED timer

Fired(t) == timer' = [timer EXCEPT ![t] = FALSE]

\* scheduleReconnect's callback, 3 s after a close.
Reconnect(t) ==
  /\ timer[t]
  /\ Fired(t)
  /\ \E c \in Conns : NewSocket(t, c)
  /\ Quietly
  /\ UNCHANGED <<who, inbox, beats, pageVars, bounds>>

\* The connection breaks and the server learns it first.
Drop(c) ==
  /\ far[c] # NoTab
  /\ Fault
  /\ Hangup(c)
  /\ inbox' = [inbox EXCEPT ![c] = <<>>]
  /\ UNCHANGED <<who, netVars, pageVars, asking>>

\* It breaks, or cannot be opened, and the tab learns it first.
Lost(c) ==
  /\ far[c] # NoTab
  /\ st[c] = "open" \/ near[c] = "connecting"
  /\ Fault
  /\ SocketEnds(c)
  /\ Quietly

\* The server is restarted.
Crash ==
  /\ Fault
  /\ Restart
  /\ inbox' = [c \in Conns |-> <<>>]
  /\ UNCHANGED <<who, netVars, pageVars, asking>>

\* sendAndWait gives up after 8 s, whether or not the server has answered.
RequestTimesOut(t) ==
  /\ request[t] # NoRequest /\ request[t][1] = "sent"
  /\ Fault
  /\ request' = [request EXCEPT ![t] = NoRequest]
  /\ Quietly
  /\ UNCHANGED <<who, netVars, inbox, roomId, page, held, replaced, peers, asking>>

-----------------------------------------------------------------------------
(* Messages from the server.                                                *)

\* leaveRoom forgets the room and tells nobody.
MutLeaves(t) == Quietly /\ UNCHANGED faults

\* leaveRoom, on the current socket if it is open.  The server refuses an empty
\* room id, which is what a tab sends that has left already.
Leaves(t) ==
  LET Handler(c) == /\ IF roomId[t] # NoRoom /\ asked[c] = roomId[t] /\ uid[c] = Escape[who[t]]
                         THEN LeaveRoom(c, roomId[t], who[t]) ELSE Quietly
                    /\ UNCHANGED faults
  IN Sends(t, Handler)

\* The answer the pending request takes for its own: the first of its type, or
\* the first ERROR.
Accepted(t, frames) ==
  /\ request[t] # NoRequest /\ request[t][1] = "sent"
  /\ \E f \in frames : f[1] = request[t][2]
Refused(t, frames) ==
  /\ request[t] # NoRequest /\ request[t][1] = "sent"
  /\ <<"ERROR">> \in frames

\* SESSION_REPLACED is handled like any other frame.
MutLatched(t, frames) == replaced[t]

Latched(t, frames) == replaced[t] \/ \E f \in frames : f[1] = "SESSION_REPLACED"

\* onmessage, the subscribers it calls and App's effects: an accepted request
\* shows the room; a replaced session latches and makes the page leave.
Receive(c) ==
  LET t == far[c]
      frames == Head(inbox[c])
      Shows(room) == IF Accepted(t, frames) THEN request[t][3] ELSE room
      evicted == Latched(t, frames) /\ Shows(held[t]) # NoRoom
  IN /\ near[c] = "open" /\ inbox[c] # <<>>
     /\ replaced' = [replaced EXCEPT ![t] = Latched(t, frames)]
     /\ request' = [request EXCEPT ![t] =
          IF Accepted(t, frames) \/ Refused(t, frames) THEN NoRequest ELSE @]
     /\ page' = [page EXCEPT ![t] = IF evicted THEN NoRoom ELSE Shows(@)]
     /\ held' = [held EXCEPT ![t] = IF evicted THEN NoRoom ELSE Shows(@)]
     /\ roomId' = [roomId EXCEPT ![t] = IF evicted THEN NoRoom ELSE @]
     /\ peers' = [peers EXCEPT ![t] = IF evicted THEN {} ELSE Shown(@, frames)]
     /\ IF evicted THEN Leaves(t) ELSE Quietly /\ UNCHANGED faults
     /\ Posted([inbox EXCEPT ![c] = Tail(@)])
     /\ UNCHANGED <<who, netVars, asking>>

-----------------------------------------------------------------------------
(* The user.                                                                *)

\* The tab has no socket but the current one, and is not about to open one.
Idle(t) == ~timer[t] /\ \A c \in Conns : far[c] = t => c = ws[t]

\* joinRoom or createRoom, once connected: the room is remembered before the
\* server has answered.
Requests(t, type, r, p) ==
  LET Handler(c) == IF type = "JOIN_ROOM_ACK" THEN Joins(c, t, r, p)
                    ELSE CreateRoom(c, r, who[t], p) /\ UNCHANGED faults
  IN /\ roomId' = [roomId EXCEPT ![t] = r]
     /\ request' = [request EXCEPT ![t] =
          IF Usable(ws[t]) THEN <<"sent", type, r, NoPwd, ws[t]>> ELSE NoRequest]
     /\ Sends(t, Handler)
     /\ Posted(inbox)
     /\ UNCHANGED <<who, netVars, page, held, replaced, peers>>

\* The user asks for a room on the home page.  ensureConnected: an open socket
\* is used, one that is connecting is waited for, else one is opened, whether
\* or not a reconnect is pending.
Ask(t, type, r, p) ==
  /\ page[t] = NoRoom /\ request[t] = NoRequest /\ ~replaced[t]
  /\ Patient => Idle(t)
  /\ asks < MaxAsks
  /\ asks' = asks + 1 /\ askers' = askers \cup {t}
  /\ \/ Usable(ws[t]) /\ Requests(t, type, r, p)
     \/ /\ ws[t] # NoConn /\ near[ws[t]] = "connecting"
        /\ request' = [request EXCEPT ![t] = <<"connect", type, r, p, ws[t]>>]
        /\ Quietly
        /\ UNCHANGED <<who, netVars, inbox, roomId, page, held, replaced, peers, faults>>
     \/ /\ ws[t] = NoConn
        /\ \E c \in Conns :
             /\ NewSocket(t, c)
             /\ request' = [request EXCEPT ![t] = <<"connect", type, r, p, c>>]
        /\ Quietly
        /\ UNCHANGED <<who, inbox, timer, beats, roomId, page, held, replaced, peers, faults>>

\* ensureConnected's promise has resolved.
Continue(t) ==
  /\ request[t] # NoRequest /\ request[t][1] = "connect"
  /\ Usable(request[t][5])
  /\ Requests(t, request[t][2], request[t][3], request[t][4])
  /\ UNCHANGED asking

\* The page stays, although the room is forgotten.
MutGoesHome(t) ==
  /\ held' = [held EXCEPT ![t] = NoRoom]
  /\ peers' = [peers EXCEPT ![t] = {}]
  /\ UNCHANGED page

GoesHome(t) ==
  /\ page' = [page EXCEPT ![t] = NoRoom]
  /\ held' = [held EXCEPT ![t] = NoRoom]
  /\ peers' = [peers EXCEPT ![t] = {}]

\* The leave button; the back button, from the home page too.
Leave(t) ==
  /\ held[t] # NoRoom
  /\ Leaves(t)
  /\ roomId' = [roomId EXCEPT ![t] = NoRoom]
  /\ GoesHome(t)
  /\ Posted(inbox)
  /\ UNCHANGED <<who, netVars, request, replaced, asking>>

\* The brand and the first link of the menu show the home page and leave nothing.
Browse(t) ==
  /\ page[t] # NoRoom
  /\ page' = [page EXCEPT ![t] = NoRoom]
  /\ Quietly
  /\ UNCHANGED <<who, netVars, inbox, roomId, request, held, replaced, peers, bounds>>

\* The user closes the notice that another device took over.
Acknowledge(t) ==
  /\ replaced[t]
  /\ Patient => Idle(t) /\ ws[t] = NoConn
  /\ replaced' = [replaced EXCEPT ![t] = FALSE]
  /\ Quietly
  /\ UNCHANGED <<who, netVars, inbox, roomId, request, page, held, peers, bounds>>

-----------------------------------------------------------------------------
Types == {"JOIN_ROOM_ACK", "CREATE_ROOM_ACK"}

Socket(c) == Accept(c) \/ Opened(c) \/ Receive(c) \/ Closed(c)
             \/ ServerNotices(c) \/ ServerCloses(c)

WNext ==
  \/ \E c \in Conns : Socket(c) \/ Drop(c) \/ Lost(c)
  \/ \E t \in Tabs :
       \/ Reconnect(t) \/ Continue(t) \/ RequestTimesOut(t)
       \/ Leave(t) \/ Browse(t) \/ Acknowledge(t)
       \/ \E type \in Types, r \in Rooms, p \in Passwords \cup {NoPwd} : Ask(t, type, r, p)
  \/ Crash

WSpec == WInit /\ [][WNext]_wvars

\* Sockets and timers do what they must; users and faults need not.
WFairness ==
  /\ \A c \in Conns : WF_wvars(Socket(c))
  /\ \A t \in Tabs : WF_wvars(Reconnect(t) \/ Continue(t))

WFairSpec == WSpec /\ WFairness

-----------------------------------------------------------------------------
(* Properties.                                                              *)

WTypeOK ==
  /\ TypeOK
  /\ far \in [Conns -> Tabs \cup {NoTab}]
  /\ \A c \in Conns : near[c] = "closed" <=> far[c] = NoTab
  /\ \A c \in Conns : near[c] \in {"connecting", "open", "closed"}
  /\ \A t \in Tabs : ws[t] # NoConn => far[ws[t]] = t
  /\ page \in [Tabs -> Rooms \cup {NoRoom}]
  /\ held \in [Tabs -> Rooms \cup {NoRoom}]
  /\ \A t \in Tabs : page[t] # NoRoom => held[t] = page[t]

\* A tab is told that a newer session replaced its own only if another tab of
\* its user asked for a room: it never displaces itself, through all drops,
\* reconnects and replays.
ReplacedByOther ==
  \A t \in Tabs :
    replaced[t] => \E s \in Tabs \ {t} : who[s] = who[t] /\ s \in askers

\* As long as its socket is open a tab sends heartbeats, although the sockets
\* share one heartbeat timer and each onclose stops it.
HeartbeatRuns ==
  \A t \in Tabs : Usable(ws[t]) => beats[t]

\* What the replay is for: in a room, a tab with its socket open knows every
\* peer once it has read what was sent to it.
NoMissingPeer ==
  \A t \in Tabs :
    LET c == ws[t]
    IN Usable(c) /\ st[c] = "open" /\ page[t] # NoRoom /\ at[c] = page[t] /\ inbox[c] = <<>>
         => members[at[c]] \ {who[t]} \subseteq peers[t]

\* The tab holds the session of its user, and the user is in room r.
Seated(t, r) ==
  /\ Usable(ws[t])
  /\ ctxOf[who[t]] = ws[t]
  /\ who[t] \in members[r]

\* A tab that shows a room, which its service remembers, is in it again after
\* any drop, as long as the room admits a user without password, unless it goes
\* home or is told it was replaced.
Rejoined ==
  \A t \in Tabs, r \in Rooms :
    page[t] = r /\ roomId[t] = r
      ~> (page[t] # r \/ roomId[t] # r \/ Seated(t, r) \/ Denied(r, NoPwd))

\* A user none of whose tabs remembers a room any more, since each has left or
\* was replaced, ends up in none at the server, even if LEAVE_ROOM was written
\* on a socket that was ending or could not be written at all.
NoGhost ==
  \A u \in Users :
    (\A t \in Tabs : who[t] = u => roomId[t] = NoRoom)
      ~> \/ \A r \in Rooms : u \notin members[r]
         \/ \E t \in Tabs : who[t] = u /\ roomId[t] # NoRoom

\* Two tabs of one user do not displace each other for ever.
TugEnds == <>[][\A x \in Conns : displaced'[x] => displaced[x]]_wvars

-----------------------------------------------------------------------------
(* What the code says of itself and does not do; TLC refutes it.            *)

\* A user none of whose tabs has a room, as its page knows it, or waits for an
\* answer is in no room in the end: a request that the page reports as failed
\* has not entered a room (App.tsx, handleJoinRoom).
HomeIsOut ==
  \A u \in Users :
    (\A t \in Tabs : who[t] = u => held[t] = NoRoom /\ request[t] = NoRequest)
      ~> \/ \A r \in Rooms : u \notin members[r]
         \/ \E t \in Tabs : who[t] = u /\ (held[t] # NoRoom \/ request[t] # NoRequest)

\* The replay brings a tab that shows a room back into it (signalService.ts,
\* onopen).
ReplayRejoins ==
  \A t \in Tabs, r \in Rooms : page[t] = r ~> (page[t] # r \/ Seated(t, r))
============================================================================
