------------------------------ MODULE WebAudio ------------------------------
(***************************************************************************)
(* The way of one web user's audio: the room page and its runInit loop     *)
(* (web/src/pages/RoomPage.tsx), the singleton AudioService with a control *)
(* and an audio WebSocket (web/src/services/audioService.ts), the proxy    *)
(* that routes mixed audio by uid (web/ws-mixer-proxy.js) and what the     *)
(* mixer knows of the user (server/src/mixer_server.cpp).                  *)
(*                                                                         *)
(* An await is a point where anything else may run: every stretch of code  *)
(* between two of them is one action.  A socket has two ends that learn at *)
(* different times that it is closed: near is the page's, far the proxy's. *)
(***************************************************************************)
EXTENDS Naturals

CONSTANTS
  Sockets, NoSock,
  Rooms, NoRoom,
  Runs,        \* at most this many runInit loops at a time
  Attempts,    \* MAX_ATTEMPTS of connectMixer
  Mic,         \* the microphone was granted
  Waits,       \* discipline: the user leaves a room only when the page is
               \* connected to the mixer
  Prompt,      \* discipline: both ends of a socket have learnt of its end
               \* before the next one is opened
  MaxVisits,   \* rooms entered
  MaxFaults    \* faults of the network, the proxy and the clock

ASSUME SocketAssumption == NoSock \notin Sockets /\ NoRoom \notin Rooms
ASSUME BoundAssumption ==
  /\ {Attempts, MaxVisits, MaxFaults} \subseteq Nat /\ Attempts # 0
  /\ {Mic, Waits, Prompt} \subseteq BOOLEAN

VARIABLES
  page,        \* the room shown, NoRoom on the home page
  runs,        \* the runInit loops
  roomId, controlWs, audioWs, capturing,   \* AudioService
  reopen,      \* pending timers that reopen the audio socket
  sock,        \* the sockets
  wsByUid,     \* the proxy: the socket the mix of a room goes to
  seat,        \* the mixer: the user's control connection in each room
  index,       \* the mixer: user_room_index_
  addr,        \* the mixer: the rooms in which addr_valid is set
  visits, faults

service == <<roomId, controlWs, audioWs, capturing, reopen>>
mixer == <<seat, index, addr>>
bounds == <<visits, faults>>
vars == <<page, runs, service, sock, wsByUid, mixer, bounds>>

\* A socket that is not there: its kind, its ends, the attempt it belongs to
\* (named by its control socket; none for a reopened audio socket), the timer
\* that opens the attempt's audio socket, the room of the message on its way
\* to the mixer, the MIXER_JOIN_ACK on its way back, the uid the proxy took
\* from its first packet.
Blank == [kind |-> "none", near |-> "closed", far |-> "closed", of |-> NoSock,
          gap |-> FALSE, mail |-> NoRoom, ack |-> FALSE, uid |-> NoRoom]

NoRun == [room |-> NoRoom, live |-> FALSE, step |-> "none", tries |-> 0, on |-> NoSock]

Init ==
  /\ page = NoRoom
  /\ runs = [k \in Runs |-> NoRun]
  /\ roomId = NoRoom /\ controlWs = NoSock /\ audioWs = NoSock
  /\ capturing = FALSE /\ reopen = 0
  /\ sock = [s \in Sockets |-> Blank]
  /\ wsByUid = [r \in Rooms |-> NoSock]
  /\ seat = [r \in Rooms |-> NoSock] /\ index = NoRoom /\ addr = {}
  /\ visits = 0 /\ faults = 0

-----------------------------------------------------------------------------
(* Sockets.                                                                 *)

Fault == faults < MaxFaults /\ faults' = faults + 1

Alive(s) == s # NoSock /\ sock[s].near \in {"connecting", "open"}

Usable(s) == s # NoSock /\ sock[s].near = "open"

\* Nothing of it is left.
Dead(f, s) ==
  /\ f[s].near = "closed" /\ f[s].far = "closed" /\ ~f[s].gap
  /\ \A t \in Sockets : f[t].of = s => f[t].near = "closed"

Swept(f) == [s \in Sockets |-> IF Dead(f, s) THEN Blank ELSE f[s]]

Halves == {s \in Sockets : sock[s].near = "closing" \/ (sock[s].near = "closed" /\ sock[s].far = "open")}

Unused == {s \in Sockets : sock[s] = Blank /\ \A k \in Runs : runs[k].on # s}

\* new WebSocket.  Unused sockets are alike.
Fresh(s) ==
  /\ Prompt => Halves = {}
  /\ Unused # {} /\ s = CHOOSE x \in Unused : TRUE

Opening(kind, attempt) ==
  [Blank EXCEPT !.kind = kind, !.near = "connecting", !.of = attempt]

-----------------------------------------------------------------------------
(* The page.                                                                *)

\* The room page is mounted; init() of the microphone is done.
Enter(k, r) ==
  /\ page = NoRoom /\ runs[k] = NoRun
  /\ visits < MaxVisits /\ visits' = visits + 1
  /\ page' = r
  /\ runs' = [runs EXCEPT ![k] = [NoRun EXCEPT !.room = r, !.live = TRUE, !.step = "dial"]]
  /\ capturing' = FALSE
  /\ UNCHANGED <<roomId, controlWs, audioWs, reopen, sock, wsByUid, mixer, faults>>

\* Unmounting the page does not stop the capture.
MutUnmounted ==
  /\ page' = NoRoom
  /\ runs' = [k \in Runs |-> [runs[k] EXCEPT !.live = FALSE]]
  /\ UNCHANGED capturing

\* The room page is unmounted: cancelledRef and stopCapture.  The sockets stay.
Unmounted ==
  /\ page' = NoRoom
  /\ runs' = [k \in Runs |-> [runs[k] EXCEPT !.live = FALSE]]
  /\ capturing' = FALSE

\* The user leaves the room.
Leave ==
  /\ page # NoRoom
  /\ Waits => /\ \A k \in Runs : runs[k] = NoRun
              /\ \A s \in Sockets : ~sock[s].ack /\ sock[s].mail = NoRoom
  /\ Unmounted
  /\ UNCHANGED <<roomId, controlWs, audioWs, reopen, sock, wsByUid, mixer, bounds>>

-----------------------------------------------------------------------------
(* connectMixer.                                                            *)

\* The sockets of a former connection are forgotten, not closed.
MutClosing == sock

\* close() on the service's two sockets.
Closing ==
  [s \in Sockets |-> IF s \in {controlWs, audioWs} /\ Alive(s)
                       THEN [sock[s] EXCEPT !.near = "closing"] ELSE sock[s]]

\* connectMixerOnce: the transports of a former connection are closed.
Dial(k) ==
  /\ runs[k].step = "dial"
  /\ runs' = [runs EXCEPT ![k].step = "clean"]
  /\ roomId' = runs[k].room
  /\ sock' = Swept(Closing)
  /\ controlWs' = NoSock /\ audioWs' = NoSock
  /\ UNCHANGED <<page, capturing, reopen, wsByUid, mixer, bounds>>

\* 100 ms later the control socket is opened.
OpenControl(k) ==
  /\ runs[k].step = "clean"
  /\ \E s \in Sockets :
       /\ Fresh(s)
       /\ sock' = [sock EXCEPT ![s] = Opening("control", NoSock)]
       /\ controlWs' = s
       /\ runs' = [runs EXCEPT ![k].step = "await", ![k].on = s]
  /\ UNCHANGED <<page, roomId, audioWs, capturing, reopen, wsByUid, mixer, bounds>>

\* openAudioWs, 80 ms after the control socket has opened.
OpenAudio(s) ==
  /\ sock[s].gap
  /\ \E a \in Sockets :
       /\ Fresh(a)
       /\ sock' = [sock EXCEPT ![s].gap = FALSE, ![a] = Opening("audio", s)]
       /\ audioWs' = a
  /\ UNCHANGED <<page, runs, roomId, controlWs, capturing, reopen, wsByUid, mixer, bounds>>

\* send() on these sockets: lost on one that is closed at either end.
Posted(f, S) ==
  [s \in Sockets |-> IF s \in S /\ f[s].near = "open" /\ f[s].far = "open"
                       THEN [f[s] EXCEPT !.mail = roomId] ELSE f[s]]

\* Both ends of socket s are open.
Opened(s) == [sock EXCEPT ![s].near = "open", ![s].far = "open"]

Starts == UNCHANGED <<page, roomId, controlWs, audioWs, reopen, wsByUid, mixer, bounds>>

\* onopen of the control socket.
ControlOpens(s) ==
  /\ sock[s].kind = "control" /\ sock[s].near = "connecting"
  /\ sock' = [Opened(s) EXCEPT ![s].gap = TRUE]
  /\ UNCHANGED <<runs, capturing>>
  /\ Starts

\* onopen of an attempt's audio socket, checkBothReady: MIXER_JOIN and the
\* handshake on whatever are the current sockets; connectMixer resolves, runInit
\* starts the capture.  send() throws on a socket that is connecting.
AudioOpens(s) ==
  LET throws == controlWs # NoSock /\ Opened(s)[controlWs].near = "connecting"
      Awaits(k) == runs[k].step = "await" /\ runs[k].on = sock[s].of
  IN /\ sock[s].kind = "audio" /\ sock[s].near = "connecting" /\ sock[s].of # NoSock
     /\ sock' = IF throws THEN Opened(s) ELSE Posted(Opened(s), {controlWs, audioWs})
     /\ runs' = [k \in Runs |->
          IF ~Awaits(k) THEN runs[k]
          ELSE IF throws THEN [runs[k] EXCEPT !.step = "stuck"] ELSE NoRun]
     /\ capturing' = (capturing \/ (Mic /\ ~throws /\ \E k \in Runs : Awaits(k)))
     /\ Starts

\* onopen of a reopened audio socket: the handshake, on the current one.
AudioReopens(s) ==
  /\ sock[s].kind = "audio" /\ sock[s].near = "connecting" /\ sock[s].of = NoSock
  /\ sock' = Posted(Opened(s), {audioWs})
  /\ UNCHANGED <<runs, capturing>>
  /\ Starts

\* The attempt can no longer succeed.
Hopeless(c) ==
  \/ ~Alive(c)
  \/ ~sock[c].gap /\ sock[c].near = "open" /\ \A a \in Sockets : sock[a].of = c => ~Alive(a)

\* The attempt fails, or is too slow (15 s): its sockets, or whatever are the
\* current ones, are closed.  After the last one runInit backs off.
Fails(k) ==
  /\ \/ runs[k].step = "await" /\ Hopeless(runs[k].on) /\ UNCHANGED faults
     \/ runs[k].step = "await" /\ ~Hopeless(runs[k].on) /\ Fault
  /\ sock' = Swept(Closing)
  /\ controlWs' = NoSock /\ audioWs' = NoSock
  /\ runs' = [runs EXCEPT ![k] =
       IF @.tries + 1 = Attempts THEN [@ EXCEPT !.step = "backoff", !.tries = 0, !.on = NoSock]
       ELSE [@ EXCEPT !.step = "pause", !.tries = runs[k].tries + 1, !.on = NoSock]]
  /\ UNCHANGED <<page, roomId, capturing, reopen, wsByUid, mixer, visits>>

\* The next attempt, 800 ms later, whether or not the page is still there; but
\* after a backoff only if it is.  An 80 ms timer has fired by then.
Retry(k) ==
  /\ runs[k].step \in {"pause", "backoff"}
  /\ \A s \in Sockets : ~sock[s].gap
  /\ runs' = [runs EXCEPT ![k] = IF @.step = "backoff" /\ ~@.live THEN NoRun
                                 ELSE [@ EXCEPT !.step = "dial"]]
  /\ UNCHANGED <<page, service, sock, wsByUid, mixer, bounds>>

-----------------------------------------------------------------------------
(* The end of a socket.                                                     *)

\* onclose: without the control socket nothing is captured; an attempt's audio
\* socket is reopened 1 s later, a reopened one is not.
Ends(s) ==
  /\ capturing' = (capturing /\ sock[s].kind # "control")
  /\ reopen' = IF sock[s].kind = "audio" /\ sock[s].of # NoSock THEN reopen + 1 ELSE reopen

\* The page learns that socket s is closed.
NearEnds(s) ==
  /\ Ends(s)
  /\ sock' = Swept([sock EXCEPT ![s].near = "closed", ![s].ack = FALSE])
  /\ controlWs' = IF controlWs = s THEN NoSock ELSE controlWs
  /\ audioWs' = IF audioWs = s THEN NoSock ELSE audioWs
  /\ UNCHANGED <<page, runs, roomId, wsByUid, mixer, visits>>

\* It has closed the socket, or the proxy has.
NearCloses(s) ==
  /\ \/ sock[s].near = "closing"
     \/ sock[s].near = "open" /\ sock[s].far = "closed"
  /\ NearEnds(s)
  /\ UNCHANGED faults

\* The connection cannot be opened, or it breaks and the page learns it first.
Lost(s) ==
  /\ Alive(s) /\ (sock[s].near = "open" => sock[s].far = "open")
  /\ Fault
  /\ NearEnds(s)

\* The proxy's close event deletes the entry of the uid, whose socket it may be.
Unrouted(s) == [r \in Rooms |-> IF r = sock[s].uid THEN NoSock ELSE wsByUid[r]]

\* The mixer keeps the user whose control connection has closed.
MutEvicts(s) == UNCHANGED mixer

\* The address of a closed connection is kept.
MutForgets(s) ==
  LET left == {r \in Rooms : seat[r] = s}
  IN /\ seat' = [r \in Rooms |-> IF r \in left THEN NoSock ELSE seat[r]]
     /\ index' = IF left = {} THEN index ELSE NoRoom
     /\ UNCHANGED addr

\* clear_tcp_client, in every room, whatever room the index names.
Evicts(s) ==
  LET left == {r \in Rooms : seat[r] = s}
  IN /\ seat' = [r \in Rooms |-> IF r \in left THEN NoSock ELSE seat[r]]
     /\ index' = IF left = {} THEN index ELSE NoRoom
     /\ addr' = addr \ left

\* The proxy learns that socket s is closed.
FarEnds(s) ==
  /\ wsByUid' = Unrouted(s)
  /\ Evicts(s)
  /\ sock' = Swept([sock EXCEPT ![s].far = "closed", ![s].mail = NoRoom, ![s].uid = NoRoom])
  /\ UNCHANGED <<page, runs, service, visits>>

\* The page's end is closed.
FarCloses(s) ==
  /\ sock[s].far = "open" /\ ~Alive(s)
  /\ FarEnds(s)
  /\ UNCHANGED faults

\* The connection breaks and the proxy learns it first, or it gives up.
Drop(s) ==
  /\ sock[s].far = "open" /\ Alive(s)
  /\ Fault
  /\ FarEnds(s)

\* The reconnect timer of an audio socket: whichever room the page shows.
Reopens ==
  /\ reopen > 0 /\ reopen' = reopen - 1
  /\ IF Alive(audioWs)
       THEN UNCHANGED <<sock, audioWs>>
       ELSE \E a \in Sockets :
              /\ Fresh(a)
              /\ sock' = [sock EXCEPT ![a] = Opening("audio", NoSock)]
              /\ audioWs' = a
  /\ UNCHANGED <<page, runs, roomId, controlWs, capturing, wsByUid, mixer, bounds>>

-----------------------------------------------------------------------------
(* Messages.                                                                *)

\* MIXER_JOIN: a fresh endpoint without address; the connection it had is
\* closed, and its page, if it is this one, told so.
Join(s) ==
  LET r == sock[s].mail
      old == seat[r]
      told == old \notin {s, NoSock} /\ sock[old].near = "open"
  IN /\ sock[s].kind = "control" /\ r # NoRoom
     /\ seat' = [seat EXCEPT ![r] = s]
     /\ index' = r
     /\ addr' = addr \ {r}
     /\ sock' = LET f == [sock EXCEPT ![s].mail = NoRoom, ![s].ack = (sock[s].near = "open")]
                IN IF old \in {s, NoSock} THEN f
                   ELSE Swept([f EXCEPT ![old].far = "closed", ![old].mail = NoRoom])
     /\ IF told THEN Unmounted ELSE UNCHANGED <<page, runs, capturing>>
     /\ UNCHANGED <<roomId, controlWs, audioWs, reopen, wsByUid, bounds>>

\* MIXER_JOIN_ACK starts the capture, whatever the page shows by now.
Acknowledged(s) ==
  /\ sock[s].ack /\ sock[s].near = "open"
  /\ sock' = [sock EXCEPT ![s].ack = FALSE]
  /\ capturing' = (capturing \/ Mic)
  /\ UNCHANGED <<page, runs, roomId, controlWs, audioWs, reopen, wsByUid, mixer, bounds>>

\* The proxy takes the uid of the first packet of a socket.
Registers(s, r) ==
  LET new == sock[s].uid = NoRoom
  IN /\ sock' = [sock EXCEPT ![s].mail = NoRoom, ![s].uid = IF new THEN r ELSE @]
     /\ wsByUid' = IF new THEN [wsByUid EXCEPT ![r] = s] ELSE wsByUid

\* The handshake: the mixer takes the address if the user is in that room.
Handshake(s) ==
  LET r == sock[s].mail
  IN /\ sock[s].kind = "audio" /\ r # NoRoom
     /\ Registers(s, r)
     /\ addr' = addr \cup {q \in {r} : seat[q] # NoSock}
     /\ UNCHANGED <<page, runs, service, seat, index, bounds>>

\* Only the handshake tells the mixer an address.
MutAddressed == UNCHANGED addr

\* A frame's address is taken for the room of the index.
Addressed == addr' = addr \cup {r \in Rooms : r = index /\ seat[r] # NoSock}

\* A captured frame.
Frame ==
  /\ capturing /\ Usable(audioWs)
  /\ sock[audioWs].far = "open" /\ sock[audioWs].mail = NoRoom
  /\ Registers(audioWs, roomId)
  /\ Addressed
  /\ UNCHANGED <<page, runs, service, seat, index, bounds>>

-----------------------------------------------------------------------------
Carry(s) == Join(s) \/ Acknowledged(s) \/ Handshake(s)

Socket(s) == ControlOpens(s) \/ OpenAudio(s) \/ AudioOpens(s) \/ AudioReopens(s)
             \/ NearCloses(s) \/ FarCloses(s)

Step(k) == Dial(k) \/ OpenControl(k) \/ Fails(k) \/ Retry(k)

Next ==
  \/ \E k \in Runs : Step(k) \/ \E r \in Rooms : Enter(k, r)
  \/ \E s \in Sockets : Socket(s) \/ Carry(s) \/ Lost(s) \/ Drop(s)
  \/ Leave \/ Reopens \/ Frame

Spec == Init /\ [][Next]_vars

Fairness ==
  /\ \A k \in Runs : WF_vars(Step(k))
  /\ \A s \in Sockets : WF_vars(Socket(s)) /\ WF_vars(Carry(s))
  /\ WF_vars(Reopens) /\ WF_vars(Frame)

FairSpec == Spec /\ Fairness

-----------------------------------------------------------------------------
(* Properties.                                                              *)

Steps == {"none", "dial", "clean", "await", "stuck", "pause", "backoff"}

TypeOK ==
  /\ page \in Rooms \cup {NoRoom} /\ roomId \in Rooms \cup {NoRoom}
  /\ \A k \in Runs : runs[k].step \in Steps /\ runs[k].tries \in 0 .. (Attempts - 1)
  /\ {controlWs, audioWs} \subseteq Sockets \cup {NoSock}
  /\ \A s \in Sockets :
       /\ sock[s].kind \in {"none", "control", "audio"}
       /\ sock[s].near \in {"connecting", "open", "closing", "closed"}
       /\ sock[s].far \in {"open", "closed"}
       /\ sock[s].uid # NoRoom => sock[s].kind = "audio" /\ sock[s].far = "open"
  /\ wsByUid \in [Rooms -> Sockets \cup {NoSock}]
  /\ seat \in [Rooms -> Sockets \cup {NoSock}]
  /\ addr \subseteq {r \in Rooms : seat[r] # NoSock}

\* The mix of the room reaches the page.
Heard(r) ==
  /\ r \in addr
  /\ wsByUid[r] # NoSock /\ Usable(wsByUid[r]) /\ sock[wsByUid[r]].far = "open"

\* The microphone is heard by nobody but the room the page shows, although the
\* sockets stay open when a room is left, attempts outlive their page and every
\* control socket's onclose and MIXER_JOIN_ACK touches the one capture.
MicOnlyInRoom == capturing => page # NoRoom /\ page = roomId

\* What is captured is mixed in the room the page shows, although the mixer
\* goes by an index that joins set and the ends of older connections erase.
MixedWhereShown ==
  capturing /\ index # NoRoom /\ seat[index] # NoSock => index = page

\* A page that never sends MIXER_LEAVE, and keeps its connection after it has
\* left a room, has one seat: the old one is gone before it joins again.
OneSeat ==
  \A r, q \in Rooms : seat[r] # NoSock /\ seat[q] # NoSock => r = q

\* Nobody dials any more and a connection is missing: a control socket is
\* never reopened, an audio socket once.
Deaf ==
  /\ \A k \in Runs : runs[k] = NoRun
  /\ controlWs = NoSock \/ (audioWs = NoSock /\ reopen = 0)

\* The proxy serves two audio sockets of the page: the reconnect timer fired
\* while an attempt was under way.
Doubled ==
  \E s, t \in Sockets :
    s # t /\ \A x \in {s, t} : sock[x].kind = "audio" /\ sock[x].far = "open"

\* A page that dials hears its room in the end, through all failed attempts
\* and reconnects, unless it leaves, loses a connection it does not reopen, or
\* has opened an audio socket too many.
Connects ==
  \A k \in Runs, r \in Rooms :
    runs[k].live /\ runs[k].room = r ~> page # r \/ Heard(r) \/ Deaf \/ Doubled

-----------------------------------------------------------------------------
(* What the code says of itself and does not do; TLC refutes it.            *)

\* "We just keep dialing the mixer until it picks up" (RoomPage.tsx, runInit).
DialsUntilPickup ==
  \A k \in Runs, r \in Rooms :
    runs[k].live /\ runs[k].room = r ~> page # r \/ seat[r] # NoSock

\* "signal the silent-retry loop in runInit() to stop on unmount", and
\* stopCapture (RoomPage.tsx).
SilentAfterLeave == page = NoRoom => ~capturing

\* An entry of the proxy is removed only with its own socket: "leaving the new
\* entry is correct" (wt-mixer-proxy/main.go, which mirrors wsByUid).
EntryKept ==
  [][\A r \in Rooms :
       wsByUid[r] # NoSock /\ wsByUid'[r] = NoSock => sock'[wsByUid[r]].far = "closed"]_vars

\* "Stage 3 runs even if stage 2 fails, so listening still works"
\* (RoomPage.tsx).
ListeningWorks ==
  \A k \in Runs, r \in Rooms :
    runs[k].live /\ runs[k].room = r ~> page # r \/ Heard(r)
=============================================================================
