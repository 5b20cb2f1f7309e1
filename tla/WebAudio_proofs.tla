-------------------------- MODULE WebAudio_proofs --------------------------
(***************************************************************************)
(* What holds of the way of a web user's audio for any number of sockets,  *)
(* rooms and attempts: TypeOK whatever the user and the network do, and,   *)
(* for a user who waits to be connected before leaving a room and sockets  *)
(* whose ends are both told in time, one seat at the mixer, a microphone   *)
(* that is heard in the room shown and nowhere else.                       *)
(***************************************************************************)
EXTENDS WebAudio, TLAPS

-----------------------------------------------------------------------------
(* The first invariant: types, kinds of sockets, one room per control       *)
(* socket.  It needs no discipline.                                         *)

SockType ==
  [kind : {"none", "control", "audio"},
   near : {"connecting", "open", "closing", "closed"}, far : {"open", "closed"},
   of : Sockets \cup {NoSock}, gap : BOOLEAN, mail : Rooms \cup {NoRoom},
   ack : BOOLEAN, uid : Rooms \cup {NoRoom}]

RunType ==
  [room : Rooms \cup {NoRoom}, live : BOOLEAN, step : Steps,
   tries : 0 .. (Attempts - 1), on : Sockets \cup {NoSock}]

Typed ==
  /\ page \in Rooms \cup {NoRoom} /\ roomId \in Rooms \cup {NoRoom}
  /\ runs \in [Runs -> RunType]
  /\ sock \in [Sockets -> SockType]
  /\ controlWs \in Sockets \cup {NoSock} /\ audioWs \in Sockets \cup {NoSock}
  /\ capturing \in BOOLEAN
  /\ index \in Rooms \cup {NoRoom} /\ addr \in SUBSET Rooms
  /\ wsByUid \in [Rooms -> Sockets \cup {NoSock}]
  /\ seat \in [Rooms -> Sockets \cup {NoSock}]

\* The service's sockets are alive and of their kind; a seat is held by a control
\* socket the proxy serves; messages and uids end with the far end.
Kinds ==
  /\ controlWs # NoSock => sock[controlWs].kind = "control" /\ Alive(controlWs)
  /\ audioWs # NoSock => sock[audioWs].kind = "audio" /\ Alive(audioWs)
  /\ \A r \in Rooms : seat[r] # NoSock =>
       sock[seat[r]].kind = "control" /\ sock[seat[r]].far = "open"
  /\ \A s \in Sockets : sock[s].mail # NoRoom => sock[s].far = "open"
  /\ \A s \in Sockets : sock[s].uid # NoRoom =>
       sock[s].kind = "audio" /\ sock[s].far = "open"
  /\ \A r \in addr : seat[r] # NoSock

\* A control socket is dialled for one room: roomId, as long as it is the current
\* one.
OneRoomEach ==
  \A s \in Sockets :
    /\ \A q, r \in Rooms : seat[q] = s /\ seat[r] = s => q = r
    /\ \A q \in Rooms : seat[q] = s /\ sock[s].mail # NoRoom => sock[s].mail = q
    /\ \A q \in Rooms : seat[q] = s /\ controlWs = s => q = roomId
    /\ sock[s].mail # NoRoom /\ controlWs = s => sock[s].mail = roomId

TInv == Typed /\ Kinds /\ OneRoomEach

LEMMA BlankTyped == Blank \in SockType
  BY DEF Blank, SockType

LEMMA NoRunTyped == NoRun \in RunType
  BY BoundAssumption DEF NoRun, RunType, Steps

\* What the handlers of a run change of it.
LEMMA RunFields ==
  ASSUME NEW x \in RunType, NEW st \in Steps, NEW n \in 0 .. (Attempts - 1),
         NEW s \in Sockets \cup {NoSock}
  PROVE  /\ [x EXCEPT !.step = st] \in RunType
         /\ [x EXCEPT !.step = st, !.on = s] \in RunType
         /\ [x EXCEPT !.step = st, !.tries = n, !.on = s] \in RunType
BY DEF RunType

\* Sweeping turns sockets closed at both ends into Blank and leaves the rest.
LEMMA SweptSockets ==
  ASSUME NEW f \in [Sockets -> SockType]
  PROVE  /\ Swept(f) \in [Sockets -> SockType]
         /\ \A s \in Sockets :
              \/ Swept(f)[s] = f[s]
              \/ /\ Swept(f)[s] = Blank /\ f[s].near = "closed" /\ f[s].far = "closed"
                 /\ ~f[s].gap
BY BlankTyped DEF Swept, Dead

\* close() on the service's sockets touches their near ends alone.
LEMMA ClosingSockets ==
  ASSUME Typed
  PROVE  /\ Closing \in [Sockets -> SockType]
         /\ \A s \in Sockets :
              \/ Closing[s] = sock[s] /\ (s \notin {controlWs, audioWs} \/ ~Alive(s))
              \/ /\ Closing[s] = [sock[s] EXCEPT !.near = "closing"]
                 /\ s \in {controlWs, audioWs}
BY DEF Closing, Typed, SockType

LEMMA TypedInit == Init => TInv
<1> SUFFICES ASSUME Init PROVE TInv
  OBVIOUS
<1>1. Typed
  BY BlankTyped, NoRunTyped DEF Init, Typed
<1>2. \A s \in Sockets : sock[s].mail = NoRoom /\ sock[s].uid = NoRoom
  BY DEF Init, Blank
<1>3. Kinds
  BY <1>2 DEF Init, Kinds
<1>4. OneRoomEach
  BY <1>2, SocketAssumption DEF Init, OneRoomEach
<1> QED
  BY <1>1, <1>3, <1>4 DEF TInv

\* The page is entered or left, or a run goes on without touching a socket.
LEMMA PageTyped ==
  ASSUME TInv, \/ \E k \in Runs, r \in Rooms : Enter(k, r)
               \/ \E k \in Runs : Retry(k)
               \/ Leave
  PROVE  TInv'
<1>1. UNCHANGED <<roomId, controlWs, audioWs, sock, wsByUid, mixer>>
  BY DEF Enter, Retry, Leave, service
<1>2. /\ page' \in Rooms \cup {NoRoom} /\ capturing' \in BOOLEAN
      /\ runs' \in [Runs -> RunType]
  <2>1. ASSUME NEW k \in Runs, NEW r \in Rooms, Enter(k, r)
        PROVE  /\ page' \in Rooms \cup {NoRoom} /\ capturing' \in BOOLEAN
               /\ runs' \in [Runs -> RunType]
    BY <2>1, NoRunTyped DEF Enter, TInv, Typed, RunType, Steps
  <2>2. ASSUME NEW k \in Runs, Retry(k)
        PROVE  /\ page' \in Rooms \cup {NoRoom} /\ capturing' \in BOOLEAN
               /\ runs' \in [Runs -> RunType]
    BY <2>2, NoRunTyped DEF Retry, TInv, Typed, RunType, Steps, service
  <2>3. ASSUME Leave
        PROVE  /\ page' \in Rooms \cup {NoRoom} /\ capturing' \in BOOLEAN
               /\ runs' \in [Runs -> RunType]
    BY <2>3 DEF Leave, Unmounted, TInv, Typed, RunType
  <2> QED BY <2>1, <2>2, <2>3
<1> QED
  BY <1>1, <1>2 DEF TInv, Typed, Kinds, OneRoomEach, mixer, Alive

\* close() on the current sockets, by Dial and Fails.
LEMMA ClosesTyped ==
  ASSUME TInv, sock' = Swept(Closing), controlWs' = NoSock, audioWs' = NoSock,
         page' = page, roomId' \in Rooms \cup {NoRoom}, capturing' = capturing,
         runs' \in [Runs -> RunType], UNCHANGED <<wsByUid, mixer>>
  PROVE  TInv'
<1>1. /\ sock' \in [Sockets -> SockType]
      /\ \A s \in Sockets :
           /\ sock'[s].kind = sock[s].kind \/ sock[s].far = "closed"
           /\ sock'[s].far = sock[s].far
           /\ sock'[s].mail \in {sock[s].mail, NoRoom}
           /\ sock'[s].uid \in {sock[s].uid, NoRoom}
  <2>1. /\ sock' \in [Sockets -> SockType]
        /\ \A s \in Sockets :
              \/ sock'[s] = Closing[s]
              \/ sock'[s] = Blank /\ Closing[s].far = "closed"
    BY ClosingSockets, SweptSockets DEF TInv
  <2>2. ASSUME NEW s \in Sockets
        PROVE  /\ Closing[s].kind = sock[s].kind /\ Closing[s].far = sock[s].far
               /\ Closing[s].mail = sock[s].mail /\ Closing[s].uid = sock[s].uid
    <3>1. sock[s] \in SockType
      BY DEF TInv, Typed
    <3>2. Closing[s] = sock[s] \/ Closing[s] = [sock[s] EXCEPT !.near = "closing"]
      BY ClosingSockets DEF TInv
    <3> QED BY <3>1, <3>2 DEF SockType
  <2> QED BY <2>1, <2>2 DEF Blank
<1>2. Typed'
  BY <1>1 DEF TInv, Typed, mixer
<1>3. Kinds'
  BY <1>1 DEF TInv, Typed, Kinds, mixer
<1>4. OneRoomEach'
  BY <1>1, SocketAssumption DEF TInv, OneRoomEach, mixer
<1> QED
  BY <1>2, <1>3, <1>4 DEF TInv

LEMMA DialTyped ==
  ASSUME TInv, NEW k \in Runs, Dial(k) \/ Fails(k)
  PROVE  TInv'
<1>1. runs' \in [Runs -> RunType]
  <2>1. runs[k] \in RunType /\ runs[k].tries \in 0 .. (Attempts - 1)
    BY DEF TInv, Typed, RunType
  <2>2. CASE Dial(k)
    <3>1. [runs[k] EXCEPT !.step = "clean"] \in RunType
      BY <2>1 DEF RunType, Steps
    <3> QED BY <2>2, <3>1 DEF Dial, TInv, Typed
  <2>3. CASE Fails(k) /\ runs[k].tries + 1 = Attempts
    <3>1. [runs[k] EXCEPT !.step = "backoff", !.tries = 0, !.on = NoSock] \in RunType
      <4>1. 0 \in 0 .. (Attempts - 1)
        BY BoundAssumption
      <4> QED BY <2>1, <4>1, RunFields DEF Steps
    <3>2. runs' = [runs EXCEPT ![k] =
                     [runs[k] EXCEPT !.step = "backoff", !.tries = 0, !.on = NoSock]]
      BY <2>3 DEF Fails
    <3> QED BY <3>1, <3>2 DEF TInv, Typed
  <2>4. CASE Fails(k) /\ runs[k].tries + 1 # Attempts
    <3>0. runs[k].tries + 1 \in 0 .. (Attempts - 1)
      BY <2>1, <2>4, BoundAssumption
    <3>1. [runs[k] EXCEPT !.step = "pause", !.tries = runs[k].tries + 1, !.on = NoSock]
            \in RunType
      BY <2>1, <3>0, RunFields DEF Steps
    <3>2. runs' = [runs EXCEPT ![k] =
              [runs[k] EXCEPT !.step = "pause", !.tries = runs[k].tries + 1, !.on = NoSock]]
      BY <2>4 DEF Fails
    <3> QED BY <3>1, <3>2 DEF TInv, Typed
  <2> QED BY <2>2, <2>3, <2>4
<1>2. roomId' \in Rooms \cup {NoRoom}
  BY DEF Dial, Fails, TInv, Typed, RunType
<1> QED
  BY <1>1, <1>2, ClosesTyped DEF Dial, Fails

\* A socket that is opened was blank.
LEMMA FreshBlank ==
  ASSUME NEW s, Fresh(s)
  PROVE  /\ s \in Sockets /\ sock[s] = Blank /\ \A k \in Runs : runs[k].on # s
         /\ Prompt => Halves = {}
BY DEF Fresh, Unused

LEMMA OpeningTyped ==
  ASSUME NEW kind \in {"control", "audio"}, NEW s \in Sockets \cup {NoSock}
  PROVE  Opening(kind, s) \in SockType
BY BlankTyped DEF Opening, SockType

\* A new socket, control or audio, with the rest as it was.
LEMMA OpensTyped ==
  ASSUME TInv, NEW a \in Sockets, sock[a] = Blank,
         NEW kind \in {"control", "audio"}, NEW s \in Sockets \cup {NoSock},
         \/ sock' = [sock EXCEPT ![a] = Opening(kind, s)]
         \/ /\ s \in Sockets /\ sock[s].gap
            /\ sock' = [sock EXCEPT ![s].gap = FALSE, ![a] = Opening(kind, s)],
         \/ kind = "control" /\ controlWs' = a /\ audioWs' = audioWs
         \/ kind = "audio" /\ audioWs' = a /\ controlWs' = controlWs,
         runs' \in [Runs -> RunType], UNCHANGED <<page, roomId, capturing, wsByUid, mixer>>
  PROVE  TInv'
<1>1. /\ sock' \in [Sockets -> SockType]
      /\ sock'[a].kind = kind /\ sock'[a].near = "connecting"
      /\ sock'[a].mail = NoRoom /\ sock'[a].uid = NoRoom
      /\ \A t \in Sockets \ {a} :
           /\ sock'[t].kind = sock[t].kind /\ sock'[t].near = sock[t].near
           /\ sock'[t].far = sock[t].far /\ sock'[t].mail = sock[t].mail
           /\ sock'[t].uid = sock[t].uid
  <2>0. sock \in [Sockets -> SockType] /\ Opening(kind, s) \in SockType
    BY OpeningTyped DEF TInv, Typed
  <2>1. /\ Opening(kind, s).kind = kind /\ Opening(kind, s).near = "connecting"
        /\ Opening(kind, s).mail = NoRoom /\ Opening(kind, s).uid = NoRoom
    BY DEF Opening, Blank
  <2>2. CASE sock' = [sock EXCEPT ![a] = Opening(kind, s)]
    BY <2>0, <2>1, <2>2
  <2>3. CASE /\ s \in Sockets /\ sock[s].gap
             /\ sock' = [sock EXCEPT ![s].gap = FALSE, ![a] = Opening(kind, s)]
    <3>1. s # a
      BY <2>3 DEF Blank
    <3>2. sock'[a] = Opening(kind, s) /\ sock'[s] = [sock[s] EXCEPT !.gap = FALSE]
      BY <2>0, <2>3, <3>1
    <3>3. \A t \in Sockets \ {a, s} : sock'[t] = sock[t]
      BY <2>0, <2>3
    <3>4. sock[s] \in SockType
      BY <2>0, <2>3
    <3>5. /\ sock'[s] \in SockType
          /\ sock'[s].kind = sock[s].kind /\ sock'[s].near = sock[s].near
          /\ sock'[s].far = sock[s].far /\ sock'[s].mail = sock[s].mail
          /\ sock'[s].uid = sock[s].uid
      BY <3>2, <3>4 DEF SockType
    <3>6. sock' \in [Sockets -> SockType]
      <4>1. \A t \in Sockets : sock'[t] \in SockType
        BY <2>0, <3>2, <3>3, <3>5
      <4>2. sock' = [t \in Sockets |-> sock'[t]]
        BY <2>0, <2>3
      <4> QED BY <4>1, <4>2
    <3> QED BY <2>1, <3>2, <3>3, <3>5, <3>6
  <2> QED BY <2>2, <2>3
<1>2. \A r \in Rooms : seat[r] # a
  BY SocketAssumption DEF TInv, Kinds, Blank
<1>3. controlWs # a /\ audioWs # a
  BY SocketAssumption DEF TInv, Kinds, Blank
<1>4. Typed'
  BY <1>1 DEF TInv, Typed, mixer
<1>5. Kinds'
  BY <1>1, <1>2, <1>3 DEF TInv, Typed, Kinds, mixer, Alive
<1>6. OneRoomEach'
  BY <1>1, <1>2, <1>3 DEF TInv, OneRoomEach, mixer
<1> QED
  BY <1>4, <1>5, <1>6 DEF TInv

LEMMA OpenTyped ==
  ASSUME TInv, (\E k \in Runs : OpenControl(k)) \/ (\E s \in Sockets : OpenAudio(s)) \/ Reopens
  PROVE  TInv'
<1>1. ASSUME NEW k \in Runs, OpenControl(k) PROVE TInv'
  <2>1. PICK s \in Sockets :
          /\ Fresh(s) /\ sock' = [sock EXCEPT ![s] = Opening("control", NoSock)]
          /\ controlWs' = s
          /\ runs' = [runs EXCEPT ![k].step = "await", ![k].on = s]
    BY <1>1 DEF OpenControl
  <2>2. runs' \in [Runs -> RunType]
    <3>1. runs[k] \in RunType /\ runs[k].tries \in 0 .. (Attempts - 1)
      BY DEF TInv, Typed, RunType
    <3>2. [runs[k] EXCEPT !.step = "await", !.on = s] \in RunType
      BY <3>1, RunFields DEF Steps
    <3>3. runs' = [runs EXCEPT ![k] = [runs[k] EXCEPT !.step = "await", !.on = s]]
      BY <2>1 DEF TInv, Typed
    <3> QED BY <3>2, <3>3 DEF TInv, Typed
  <2> QED BY <1>1, <2>1, <2>2, FreshBlank, OpensTyped DEF OpenControl
<1>2. ASSUME NEW s \in Sockets, OpenAudio(s) PROVE TInv'
  <2>1. PICK a \in Sockets :
          /\ Fresh(a) /\ audioWs' = a
          /\ sock' = [sock EXCEPT ![s].gap = FALSE, ![a] = Opening("audio", s)]
    BY <1>2 DEF OpenAudio
  <2> QED BY <1>2, <2>1, FreshBlank, OpensTyped DEF OpenAudio, TInv, Typed
<1>3. ASSUME Reopens PROVE TInv'
  <2>1. CASE Alive(audioWs)
    <3>1. UNCHANGED <<page, roomId, runs, capturing, sock, controlWs, audioWs, wsByUid, mixer>>
      BY <1>3, <2>1 DEF Reopens
    <3> QED BY <3>1 DEF TInv, Typed, Kinds, OneRoomEach, mixer, Alive
  <2>2. CASE ~Alive(audioWs)
    <3>1. PICK a \in Sockets :
            /\ Fresh(a) /\ audioWs' = a
            /\ sock' = [sock EXCEPT ![a] = Opening("audio", NoSock)]
      BY <1>3, <2>2 DEF Reopens
    <3> QED BY <1>3, <3>1, FreshBlank, OpensTyped DEF Reopens, TInv, Typed
  <2> QED BY <2>1, <2>2
<1> QED
  BY <1>1, <1>2, <1>3

\* send() adds messages for roomId on open sockets among S, and nothing else.
LEMMA PostedSockets ==
  ASSUME NEW f \in [Sockets -> SockType], NEW S, roomId \in Rooms \cup {NoRoom}
  PROVE  /\ Posted(f, S) \in [Sockets -> SockType]
         /\ \A t \in Sockets :
              \/ Posted(f, S)[t] = f[t]
              \/ /\ Posted(f, S)[t] = [f[t] EXCEPT !.mail = roomId]
                 /\ t \in S /\ f[t].near = "open" /\ f[t].far = "open"
BY DEF Posted, SockType

\* What send() leaves alone, field by field.
LEMMA PostedFields ==
  ASSUME NEW f \in [Sockets -> SockType], NEW S, roomId \in Rooms \cup {NoRoom},
         NEW t \in Sockets
  PROVE  /\ Posted(f, S)[t].kind = f[t].kind /\ Posted(f, S)[t].near = f[t].near
         /\ Posted(f, S)[t].far = f[t].far /\ Posted(f, S)[t].of = f[t].of
         /\ Posted(f, S)[t].gap = f[t].gap /\ Posted(f, S)[t].ack = f[t].ack
         /\ Posted(f, S)[t].uid = f[t].uid
         /\ \/ Posted(f, S)[t].mail = f[t].mail
            \/ Posted(f, S)[t].mail = roomId /\ t \in S /\ f[t].far = "open"
<1>1. f[t] \in SockType
  OBVIOUS
<1>2. \/ Posted(f, S)[t] = f[t]
      \/ /\ Posted(f, S)[t] = [f[t] EXCEPT !.mail = roomId]
         /\ t \in S /\ f[t].near = "open" /\ f[t].far = "open"
  BY PostedSockets
<1> QED
  BY <1>1, <1>2 DEF SockType

\* Opening both ends of a socket, field by field.
LEMMA OpenedFields ==
  ASSUME Typed, NEW s \in Sockets, NEW t \in Sockets
  PROVE  /\ Opened(s) \in [Sockets -> SockType]
         /\ t # s => Opened(s)[t] = sock[t]
         /\ Opened(s)[s].near = "open" /\ Opened(s)[s].far = "open"
         /\ Opened(s)[t].kind = sock[t].kind /\ Opened(s)[t].of = sock[t].of
         /\ Opened(s)[t].gap = sock[t].gap /\ Opened(s)[t].ack = sock[t].ack
         /\ Opened(s)[t].uid = sock[t].uid /\ Opened(s)[t].mail = sock[t].mail
<1>1. sock \in [Sockets -> SockType] /\ sock[s] \in SockType /\ sock[t] \in SockType
  BY DEF Typed
<1>2. Opened(s)[s] = [[sock[s] EXCEPT !.near = "open"] EXCEPT !.far = "open"]
  BY <1>1 DEF Opened
<1>3. Opened(s)[s] \in SockType /\ \A x \in Sockets \ {s} : Opened(s)[x] = sock[x]
  BY <1>1, <1>2 DEF SockType, Opened
<1>4. Opened(s) = [x \in Sockets |-> Opened(s)[x]]
  BY <1>1 DEF Opened
<1>5. Opened(s) \in [Sockets -> SockType]
  BY <1>1, <1>3, <1>4
<1>6. /\ Opened(s)[s].near = "open" /\ Opened(s)[s].far = "open"
      /\ Opened(s)[s].kind = sock[s].kind /\ Opened(s)[s].of = sock[s].of
      /\ Opened(s)[s].gap = sock[s].gap /\ Opened(s)[s].ack = sock[s].ack
      /\ Opened(s)[s].uid = sock[s].uid /\ Opened(s)[s].mail = sock[s].mail
  BY <1>1, <1>2 DEF SockType
<1> QED
  BY <1>3, <1>5, <1>6

\* A socket that was connecting is open; what is sent then goes to the service's
\* sockets.
LEMMA StartsTyped ==
  ASSUME TInv, NEW s \in Sockets, sock' \in [Sockets -> SockType],
         \A t \in Sockets :
           /\ sock'[t].kind = sock[t].kind /\ sock'[t].uid = sock[t].uid
           /\ t # s => sock'[t].near = sock[t].near /\ sock'[t].far = sock[t].far
           /\ \/ sock'[t].mail = sock[t].mail
              \/ /\ sock'[t].mail = roomId /\ t \in {controlWs, audioWs}
                 /\ sock'[t].far = "open",
         sock'[s].near = "open", sock'[s].far = "open",
         runs' \in [Runs -> RunType], capturing' \in BOOLEAN, Starts
  PROVE  TInv'
<1>1. UNCHANGED <<page, roomId, controlWs, audioWs, wsByUid, seat, index, addr>>
  BY DEF Starts, mixer
<1>2. Typed'
  BY <1>1 DEF TInv, Typed
<1>3. Kinds'
  BY <1>1 DEF TInv, Typed, Kinds, Alive
<1>4. \A q \in Rooms : seat[q] # NoSock => seat[q] # audioWs
  BY DEF TInv, Kinds
<1>5. OneRoomEach'
  <2> SUFFICES ASSUME NEW t \in Sockets
        PROVE  /\ \A q, r \in Rooms : seat[q] = t /\ seat[r] = t => q = r
               /\ \A q \in Rooms : seat[q] = t /\ sock'[t].mail # NoRoom => sock'[t].mail = q
               /\ \A q \in Rooms : seat[q] = t /\ controlWs = t => q = roomId
               /\ sock'[t].mail # NoRoom /\ controlWs = t => sock'[t].mail = roomId
    BY <1>1 DEF OneRoomEach
  <2>1. /\ \A q, r \in Rooms : seat[q] = t /\ seat[r] = t => q = r
        /\ \A q \in Rooms : seat[q] = t /\ sock[t].mail # NoRoom => sock[t].mail = q
        /\ \A q \in Rooms : seat[q] = t /\ controlWs = t => q = roomId
        /\ sock[t].mail # NoRoom /\ controlWs = t => sock[t].mail = roomId
    BY DEF TInv, OneRoomEach
  <2>2. \A q \in Rooms : seat[q] = t => t # audioWs
    BY <1>4, SocketAssumption
  <2> QED BY <2>1, <2>2
<1> QED
  BY <1>2, <1>3, <1>5 DEF TInv

LEMMA SocketOpensTyped ==
  ASSUME TInv, NEW s \in Sockets, ControlOpens(s) \/ AudioOpens(s) \/ AudioReopens(s)
  PROVE  TInv'
<1>0. Typed /\ roomId \in Rooms \cup {NoRoom} /\ capturing \in BOOLEAN
      /\ runs \in [Runs -> RunType]
  BY DEF TInv, Typed
<1>1. Opened(s) \in [Sockets -> SockType]
  BY <1>0, OpenedFields
<1>2. CASE ControlOpens(s)
  <2>1. sock' = [Opened(s) EXCEPT ![s] = [Opened(s)[s] EXCEPT !.gap = TRUE]]
    BY <1>1, <1>2 DEF ControlOpens
  <2>2. [Opened(s)[s] EXCEPT !.gap = TRUE] \in SockType
    BY <1>1, ZenonT(30) DEF SockType
  <2>3. sock' \in [Sockets -> SockType]
    BY <1>1, <2>1, <2>2
  <2>4. \A t \in Sockets : \/ t # s /\ sock'[t] = Opened(s)[t]
                           \/ t = s /\ sock'[t] = [Opened(s)[s] EXCEPT !.gap = TRUE]
    BY <1>1, <2>1
  <2>5. Opened(s)[s] \in SockType
    BY <1>1
  <2>6. \A t \in Sockets :
           /\ sock'[t].kind = Opened(s)[t].kind /\ sock'[t].near = Opened(s)[t].near
           /\ sock'[t].far = Opened(s)[t].far /\ sock'[t].mail = Opened(s)[t].mail
           /\ sock'[t].uid = Opened(s)[t].uid
    BY <2>4, <2>5 DEF SockType
  <2>7. Starts /\ UNCHANGED <<runs, capturing>>
    BY <1>2 DEF ControlOpens
  <2> QED BY <1>0, <2>3, <2>6, <2>7, OpenedFields, StartsTyped
<1>3. CASE AudioOpens(s) \/ AudioReopens(s)
  <2>1. /\ Starts /\ capturing' \in BOOLEAN
        /\ \/ sock' = Opened(s)
           \/ sock' = Posted(Opened(s), {controlWs, audioWs})
           \/ sock' = Posted(Opened(s), {audioWs})
    BY <1>0, <1>3 DEF AudioOpens, AudioReopens
  <2>2. runs' \in [Runs -> RunType]
    <3>1. CASE AudioOpens(s)
      <4>1. \A k \in Runs : [runs[k] EXCEPT !.step = "stuck"] \in RunType
        BY <1>0 DEF RunType, Steps
      <4>2. /\ runs' = [k \in Runs |-> runs'[k]]
            /\ \A k \in Runs : runs'[k] \in {runs[k], NoRun, [runs[k] EXCEPT !.step = "stuck"]}
        BY <3>1 DEF AudioOpens
      <4> QED BY <1>0, <4>1, <4>2, NoRunTyped
    <3>2. CASE AudioReopens(s)
      BY <1>0, <3>2 DEF AudioReopens
    <3> QED BY <1>3, <3>1, <3>2
  <2>3. sock' \in [Sockets -> SockType]
    BY <1>0, <1>1, <2>1, PostedSockets
  <2>4. \A t \in Sockets :
           /\ sock'[t].kind = Opened(s)[t].kind /\ sock'[t].near = Opened(s)[t].near
           /\ sock'[t].far = Opened(s)[t].far /\ sock'[t].uid = Opened(s)[t].uid
           /\ \/ sock'[t].mail = Opened(s)[t].mail
              \/ /\ sock'[t].mail = roomId /\ t \in {controlWs, audioWs}
                 /\ sock'[t].far = "open"
    BY <1>0, <1>1, <2>1, PostedFields
  <2> QED BY <1>0, <2>1, <2>2, <2>3, <2>4, OpenedFields, StartsTyped
<1> QED
  BY <1>2, <1>3

\* A socket ends at the near end: the others are as they were.
LEMMA NearEndsTyped ==
  ASSUME TInv, NEW s \in Sockets, NearEnds(s)
  PROVE  TInv'
<1> DEFINE f == [sock EXCEPT ![s].near = "closed", ![s].ack = FALSE]
<1>1. sock \in [Sockets -> SockType] /\ sock[s] \in SockType
  BY DEF TInv, Typed
<1>2. f[s] = [[sock[s] EXCEPT !.near = "closed"] EXCEPT !.ack = FALSE]
  BY <1>1
<1>3. \A t \in Sockets \ {s} : f[t] = sock[t]
  BY <1>1
<1>4. /\ f[s] \in SockType
      /\ f[s].kind = sock[s].kind /\ f[s].far = sock[s].far
      /\ f[s].mail = sock[s].mail /\ f[s].uid = sock[s].uid
  BY <1>1, <1>2 DEF SockType
<1>5. f \in [Sockets -> SockType]
  <2>1. f = [t \in Sockets |-> f[t]]
    BY <1>1
  <2> QED BY <1>1, <1>3, <1>4, <2>1
<1>6. sock' = Swept(f)
  BY DEF NearEnds
<1> HIDE DEF f
<1>7. /\ sock' \in [Sockets -> SockType]
      /\ \A t \in Sockets : sock'[t] = f[t] \/ (/\ sock'[t] = Blank
                                                /\ f[t].near = "closed" /\ f[t].far = "closed")
  BY <1>5, <1>6, SweptSockets
<1>8. \A t \in Sockets :
        /\ t # s => \/ sock'[t] = sock[t]
                    \/ sock'[t] = Blank /\ sock[t].near = "closed" /\ sock[t].far = "closed"
        /\ sock'[t].kind = sock[t].kind \/ sock[t].far = "closed"
        /\ sock'[t].far = sock[t].far
        /\ sock'[t].mail \in {sock[t].mail, NoRoom}
        /\ sock'[t].uid \in {sock[t].uid, NoRoom}
  BY <1>3, <1>4, <1>7 DEF Blank
<1>9. /\ controlWs' \in {controlWs, NoSock} /\ audioWs' \in {audioWs, NoSock}
      /\ controlWs' # NoSock => controlWs' # s
      /\ audioWs' # NoSock => audioWs' # s
      /\ capturing' \in BOOLEAN
      /\ UNCHANGED <<page, runs, roomId, wsByUid, seat, index, addr>>
  BY SocketAssumption DEF NearEnds, Ends, mixer, TInv, Typed
<1>10. Typed'
  BY <1>7, <1>9 DEF TInv, Typed
<1>11. Kinds'
  BY <1>8, <1>9 DEF TInv, Typed, Kinds, Alive
<1>12. OneRoomEach'
  BY <1>8, <1>9, SocketAssumption DEF TInv, OneRoomEach
<1> QED
  BY <1>10, <1>11, <1>12 DEF TInv

\* A socket ends at the far end: the mixer forgets the seat it held.
LEMMA FarEndsTyped ==
  ASSUME TInv, NEW s \in Sockets, FarEnds(s)
  PROVE  TInv'
<1> DEFINE f == [sock EXCEPT ![s].far = "closed", ![s].mail = NoRoom, ![s].uid = NoRoom]
<1>1. sock \in [Sockets -> SockType] /\ sock[s] \in SockType
  BY DEF TInv, Typed
<1>2. f[s] = [[[sock[s] EXCEPT !.far = "closed"] EXCEPT !.mail = NoRoom] EXCEPT !.uid = NoRoom]
  BY <1>1
<1>3. \A t \in Sockets \ {s} : f[t] = sock[t]
  BY <1>1
<1>4. /\ f[s] \in SockType
      /\ f[s].kind = sock[s].kind /\ f[s].near = sock[s].near
      /\ f[s].mail = NoRoom /\ f[s].uid = NoRoom
  BY <1>1, <1>2 DEF SockType
<1>5. f \in [Sockets -> SockType]
  <2>1. f = [t \in Sockets |-> f[t]]
    BY <1>1
  <2> QED BY <1>1, <1>3, <1>4, <2>1
<1>6. sock' = Swept(f)
  BY DEF FarEnds
<1> HIDE DEF f
<1>7. /\ sock' \in [Sockets -> SockType]
      /\ \A t \in Sockets : sock'[t] = f[t] \/ (/\ sock'[t] = Blank
                                                /\ f[t].near = "closed" /\ f[t].far = "closed")
  BY <1>5, <1>6, SweptSockets
<1>8. \A t \in Sockets :
        /\ t # s => \/ sock'[t] = sock[t]
                    \/ sock'[t] = Blank /\ sock[t].near = "closed" /\ sock[t].far = "closed"
        /\ \/ sock'[t].kind = sock[t].kind /\ sock'[t].near = sock[t].near
           \/ sock[t].near = "closed"
        /\ sock'[t].mail # NoRoom => t # s /\ sock'[t] = sock[t]
        /\ sock'[t].uid # NoRoom => t # s /\ sock'[t] = sock[t]
  BY <1>3, <1>4, <1>7 DEF Blank
<1>9. /\ UNCHANGED <<page, runs, roomId, controlWs, audioWs, capturing>>
      /\ wsByUid' = [r \in Rooms |-> IF r = sock[s].uid THEN NoSock ELSE wsByUid[r]]
      /\ seat' = [r \in Rooms |-> IF seat[r] = s THEN NoSock ELSE seat[r]]
      /\ index' \in {index, NoRoom} /\ addr' \subseteq addr
      /\ \A r \in addr' : seat[r] # s
  BY DEF FarEnds, Unrouted, Evicts, service, TInv, Typed
<1>10. Typed'
  BY <1>7, <1>9 DEF TInv, Typed
<1>11. Kinds'
  <2>1. /\ (controlWs # NoSock => sock[controlWs].kind = "control" /\ Alive(controlWs))'
        /\ (audioWs # NoSock => sock[audioWs].kind = "audio" /\ Alive(audioWs))'
    BY <1>8, <1>9 DEF TInv, Typed, Kinds, Alive
  <2>2. \A r \in Rooms : seat'[r] # NoSock => seat'[r] = seat[r] /\ seat[r] # s
    BY <1>9
  <2>3. \A r \in Rooms : seat'[r] # NoSock =>
          sock'[seat'[r]].kind = "control" /\ sock'[seat'[r]].far = "open"
    BY <1>8, <2>2 DEF TInv, Typed, Kinds
  <2>4. \A t \in Sockets :
          /\ sock'[t].mail # NoRoom => sock'[t].far = "open"
          /\ sock'[t].uid # NoRoom => sock'[t].kind = "audio" /\ sock'[t].far = "open"
    BY <1>8 DEF TInv, Kinds
  <2>5. \A r \in addr' : seat'[r] # NoSock
    BY <1>9 DEF TInv, Typed, Kinds
  <2> QED BY <2>1, <2>3, <2>4, <2>5 DEF Kinds
<1>12. OneRoomEach'
  BY <1>8, <1>9, SocketAssumption DEF TInv, OneRoomEach
<1> QED
  BY <1>10, <1>11, <1>12 DEF TInv

\* What MIXER_JOIN of socket s does to the sockets: its message is taken, a former
\* holder of the seat is closed.
LEMMA JoinSockets ==
  ASSUME TInv, NEW s \in Sockets, Join(s)
  PROVE  /\ sock' \in [Sockets -> SockType]
         /\ LET old == seat[sock[s].mail]
            IN /\ old \in Sockets \cup {NoSock}
               /\ \A t \in Sockets \ {s, old} :
                    \/ sock'[t] = sock[t]
                    \/ /\ sock'[t] = Blank /\ old \notin {s, NoSock}
                       /\ sock[t].near = "closed" /\ sock[t].far = "closed"
               /\ sock'[s] = [sock[s] EXCEPT !.mail = NoRoom, !.ack = (sock[s].near = "open")]
               /\ old \notin {s, NoSock} =>
                    /\ sock'[old].mail = NoRoom /\ sock'[old].uid = NoRoom
                    /\ \/ sock'[old].kind = "control" /\ sock'[old].near = sock[old].near
                       \/ sock[old].near = "closed"
<1> DEFINE r == sock[s].mail
           old == seat[r]
           f == [sock EXCEPT ![s].mail = NoRoom, ![s].ack = (sock[s].near = "open")]
           g == [f EXCEPT ![old].far = "closed", ![old].mail = NoRoom]
<1>1. /\ sock \in [Sockets -> SockType] /\ sock[s] \in SockType
      /\ r \in Rooms /\ old \in Sockets \cup {NoSock}
  BY DEF TInv, Typed, SockType, Join
<1>2. f[s] = [[sock[s] EXCEPT !.mail = NoRoom] EXCEPT !.ack = (sock[s].near = "open")]
  BY <1>1
<1>3. \A t \in Sockets \ {s} : f[t] = sock[t]
  BY <1>1
<1>4. f[s] \in SockType /\ f[s].far = sock[s].far
  BY <1>1, <1>2 DEF SockType
<1>5. f \in [Sockets -> SockType]
  <2>1. f = [t \in Sockets |-> f[t]]
    BY <1>1
  <2> QED BY <1>1, <1>3, <1>4, <2>1
<1>6. sock' = IF old \in {s, NoSock} THEN f ELSE Swept(g)
  BY DEF Join
<1>7. f[s] = [sock[s] EXCEPT !.mail = NoRoom, !.ack = (sock[s].near = "open")]
  BY <1>1, <1>2
<1>8. sock[s].far = "open"
  BY <1>1, SocketAssumption DEF TInv, Kinds
<1>9. CASE old \in {s, NoSock}
  BY <1>1, <1>3, <1>5, <1>6, <1>7, <1>9
<1>10. CASE old \notin {s, NoSock}
  <2>1. old \in Sockets /\ old # s /\ sock[old] \in SockType
    BY <1>1, <1>10
  <2>2. sock[old].kind = "control" /\ sock[old].uid = NoRoom
    BY <1>1, <1>10 DEF TInv, Kinds
  <2> HIDE DEF f
  <2>3. g[old] = [[f[old] EXCEPT !.far = "closed"] EXCEPT !.mail = NoRoom]
    BY <1>5, <2>1
  <2>4. \A t \in Sockets \ {old} : g[t] = f[t]
    BY <1>5, <2>1
  <2>5. /\ g[old] \in SockType /\ g[old].mail = NoRoom
        /\ g[old].uid = NoRoom /\ g[old].kind = "control" /\ g[old].near = sock[old].near
    <3> HIDE DEF g
    <3>1. f[old] = sock[old]
      BY <1>3, <2>1
    <3> HIDE DEF old
    <3>2. g[old] = [[sock[old] EXCEPT !.far = "closed"] EXCEPT !.mail = NoRoom]
      BY <2>3, <3>1
    <3> QED BY <2>1, <2>2, <3>2 DEF SockType
  <2>6. g \in [Sockets -> SockType]
    <3>1. g = [t \in Sockets |-> g[t]]
      BY <1>5
    <3> QED BY <1>5, <2>4, <2>5, <3>1
  <2>7. sock' = Swept(g)
    BY <1>6, <1>10
  <2> HIDE DEF g
  <2>8. /\ sock' \in [Sockets -> SockType]
        /\ \A t \in Sockets : sock'[t] = g[t] \/ (/\ sock'[t] = Blank
                                                  /\ g[t].near = "closed" /\ g[t].far = "closed")
    BY <2>6, <2>7, SweptSockets
  <2>9. g[s].far = "open" /\ sock'[s] = f[s]
    BY <1>4, <1>8, <2>1, <2>4, <2>8
  <2>10. \A t \in Sockets \ {s, old} :
           \/ sock'[t] = sock[t]
           \/ sock'[t] = Blank /\ sock[t].near = "closed" /\ sock[t].far = "closed"
    BY <1>3, <2>4, <2>8
  <2>11. /\ sock'[old].mail = NoRoom /\ sock'[old].uid = NoRoom
         /\ \/ sock'[old].kind = "control" /\ sock'[old].near = sock[old].near
            \/ sock[old].near = "closed"
    BY <2>1, <2>5, <2>8 DEF Blank
  <2> QED BY <1>1, <1>7, <1>10, <2>8, <2>9, <2>10, <2>11
<1> QED
  BY <1>9, <1>10

LEMMA JoinTyped ==
  ASSUME TInv, NEW s \in Sockets, Join(s)
  PROVE  TInv'
<1> DEFINE r == sock[s].mail
           old == seat[r]
<1>1. /\ r \in Rooms /\ old \in Sockets \cup {NoSock}
      /\ sock[s] \in SockType /\ sock[s].kind = "control" /\ sock[s].far = "open"
  BY SocketAssumption DEF TInv, Typed, Kinds, SockType, Join
<1>2. /\ seat' = [seat EXCEPT ![r] = s] /\ index' = r /\ addr' = addr \ {r}
      /\ UNCHANGED <<roomId, controlWs, audioWs, wsByUid>>
      /\ page' \in Rooms \cup {NoRoom} /\ capturing' \in BOOLEAN
  BY DEF Join, Unmounted, TInv, Typed
<1>3. runs' \in [Runs -> RunType]
  <2>1. \A k \in Runs : [runs[k] EXCEPT !.live = FALSE] \in RunType
    BY DEF TInv, Typed, RunType
  <2>2. runs' = runs \/ runs' = [k \in Runs |-> [runs[k] EXCEPT !.live = FALSE]]
    BY DEF Join, Unmounted
  <2> QED BY <2>1, <2>2 DEF TInv, Typed
<1>4. sock' \in [Sockets -> SockType]
  BY JoinSockets
<1>5. /\ sock'[s].kind = "control" /\ sock'[s].near = sock[s].near
      /\ sock'[s].far = "open" /\ sock'[s].mail = NoRoom /\ sock'[s].uid = sock[s].uid
  <2>1. sock'[s] = [sock[s] EXCEPT !.mail = NoRoom, !.ack = (sock[s].near = "open")]
    BY JoinSockets
  <2> QED BY <1>1, <2>1 DEF SockType
<1>6. \A t \in Sockets \ {s, old} :
        \/ sock'[t] = sock[t]
        \/ sock'[t] = Blank /\ sock[t].near = "closed" /\ sock[t].far = "closed"
  BY JoinSockets
<1>7. old \notin {s, NoSock} =>
        /\ sock'[old].mail = NoRoom /\ sock'[old].uid = NoRoom
        /\ \/ sock'[old].kind = "control" /\ sock'[old].near = sock[old].near
           \/ sock[old].near = "closed"
        /\ sock[old].kind = "control"
        /\ \A q \in Rooms : seat[q] = old => q = r
  <2>1. old \notin {s, NoSock} =>
        /\ sock'[old].mail = NoRoom /\ sock'[old].uid = NoRoom
        /\ \/ sock'[old].kind = "control" /\ sock'[old].near = sock[old].near
           \/ sock[old].near = "closed"
    BY JoinSockets
  <2>2. old \notin {s, NoSock} =>
        /\ sock[old].kind = "control" /\ \A q \in Rooms : seat[q] = old => q = r
    BY <1>1 DEF TInv, Kinds, OneRoomEach
  <2> QED BY <2>1, <2>2
<1>8. seat \in [Rooms -> Sockets \cup {NoSock}]
  BY DEF TInv, Typed
<1>9. \A q \in Rooms : seat'[q] = IF q = r THEN s ELSE seat[q]
  BY <1>1, <1>2, <1>8
<1> HIDE DEF r, old
<1>10. Typed'
  BY <1>1, <1>2, <1>3, <1>4 DEF TInv, Typed
<1>11. Kinds'
  <2>1. (controlWs # NoSock => sock[controlWs].kind = "control" /\ Alive(controlWs))'
    BY <1>2, <1>5, <1>6, <1>7 DEF TInv, Typed, Kinds, Alive
  <2>2. (audioWs # NoSock => sock[audioWs].kind = "audio" /\ Alive(audioWs))'
    BY <1>1, <1>2, <1>5, <1>6, <1>7 DEF TInv, Typed, Kinds, Alive
  <2>3. \A q \in Rooms : seat'[q] # NoSock =>
          sock'[seat'[q]].kind = "control" /\ sock'[seat'[q]].far = "open"
    <3> SUFFICES ASSUME NEW q \in Rooms, seat'[q] # NoSock
          PROVE  sock'[seat'[q]].kind = "control" /\ sock'[seat'[q]].far = "open"
      OBVIOUS
    <3>1. CASE q = r
      BY <1>5, <1>9, <3>1
    <3>2. CASE q # r
      <4>1. seat'[q] = seat[q] /\ seat[q] \in Sockets
        BY <1>8, <1>9, <3>2
      <4>2. sock[seat[q]].kind = "control" /\ sock[seat[q]].far = "open"
        BY <4>1 DEF TInv, Kinds
      <4>3. seat[q] # old \/ old = s \/ old = NoSock
        BY <1>7, <3>2
      <4> QED BY <1>5, <1>6, <4>1, <4>2, <4>3
    <3> QED BY <3>1, <3>2
  <2>4. \A t \in Sockets :
          /\ sock'[t].mail # NoRoom => sock'[t] = sock[t]
          /\ sock'[t].uid # NoRoom => sock'[t] = sock[t] \/ t = s
    BY <1>1, <1>5, <1>6, <1>7, SocketAssumption DEF Blank
  <2>5. \A t \in Sockets :
          /\ sock'[t].mail # NoRoom => sock'[t].far = "open"
          /\ sock'[t].uid # NoRoom => sock'[t].kind = "audio" /\ sock'[t].far = "open"
    BY <1>1, <1>5, <2>4 DEF TInv, Kinds
  <2>6. \A q \in addr' : seat'[q] # NoSock
    BY <1>1, <1>2, <1>9 DEF TInv, Typed, Kinds
  <2> QED BY <2>1, <2>2, <2>3, <2>5, <2>6 DEF Kinds
<1>12. OneRoomEach'
  <2>1. \A t \in Sockets : sock'[t].mail # NoRoom => sock'[t] = sock[t] /\ t # s
    BY <1>1, <1>5, <1>6, <1>7, SocketAssumption DEF Blank
  <2>2. /\ \A q \in Rooms : seat[q] = s => q = r
        /\ controlWs = s => r = roomId
    BY <1>1, SocketAssumption DEF r, TInv, OneRoomEach
  <2> QED BY <1>2, <1>9, <2>1, <2>2 DEF TInv, OneRoomEach
<1> QED
  BY <1>10, <1>11, <1>12 DEF TInv

\* A message that leaves ends, kinds and mails of the sockets alone, but for mails
\* taken off an audio socket.
LEMMA CarryTyped ==
  ASSUME TInv, (\E s \in Sockets : Acknowledged(s) \/ Handshake(s)) \/ Frame
  PROVE  TInv'
<1>1. ASSUME NEW s \in Sockets, Acknowledged(s) PROVE TInv'
  <2>1. sock \in [Sockets -> SockType] /\ sock[s] \in SockType
    BY DEF TInv, Typed
  <2>2. sock' = [sock EXCEPT ![s] = [sock[s] EXCEPT !.ack = FALSE]]
    BY <1>1 DEF Acknowledged
  <2>3. [sock[s] EXCEPT !.ack = FALSE] \in SockType
    BY <2>1 DEF SockType
  <2>4. sock' \in [Sockets -> SockType]
    BY <2>1, <2>2, <2>3
  <2>5. \A t \in Sockets :
          /\ sock'[t].kind = sock[t].kind /\ sock'[t].near = sock[t].near
          /\ sock'[t].far = sock[t].far /\ sock'[t].mail = sock[t].mail
          /\ sock'[t].uid = sock[t].uid
    <3>1. \A t \in Sockets : sock'[t] = IF t = s THEN [sock[s] EXCEPT !.ack = FALSE] ELSE sock[t]
      BY <2>1, <2>2
    <3> QED BY <2>1, <3>1 DEF SockType
  <2>6. /\ UNCHANGED <<page, runs, roomId, controlWs, audioWs, wsByUid, seat, index, addr>>
        /\ capturing' \in BOOLEAN
    BY <1>1 DEF Acknowledged, mixer, TInv, Typed
  <2>7. Typed'
    BY <2>4, <2>6 DEF TInv, Typed
  <2>8. Kinds'
    BY <2>5, <2>6 DEF TInv, Typed, Kinds, Alive
  <2>9. OneRoomEach'
    BY <2>5, <2>6 DEF TInv, OneRoomEach
  <2> QED BY <2>7, <2>8, <2>9 DEF TInv
<1>2. ASSUME NEW s \in Sockets, NEW r \in Rooms \cup {NoRoom}, Registers(s, r),
             sock[s].kind = "audio", sock[s].far = "open",
             UNCHANGED <<page, runs, service, seat, index>>,
             addr' \subseteq Rooms, \A q \in addr' : q \in addr \/ seat[q] # NoSock
      PROVE  TInv'
  <2> DEFINE u == IF sock[s].uid = NoRoom THEN r ELSE sock[s].uid
  <2>1. sock \in [Sockets -> SockType] /\ sock[s] \in SockType
    BY DEF TInv, Typed
  <2>2. sock' = [sock EXCEPT ![s] = [[sock[s] EXCEPT !.mail = NoRoom] EXCEPT !.uid = u]]
    BY <1>2, <2>1 DEF Registers, SockType
  <2>3. [[sock[s] EXCEPT !.mail = NoRoom] EXCEPT !.uid = u] \in SockType
    BY <1>2, <2>1 DEF SockType
  <2>4. sock' \in [Sockets -> SockType]
    BY <2>1, <2>2, <2>3
  <2>5. /\ \A t \in Sockets \ {s} : sock'[t] = sock[t]
        /\ sock'[s].kind = "audio" /\ sock'[s].far = "open"
        /\ sock'[s].near = sock[s].near /\ sock'[s].mail = NoRoom
    BY <1>2, <2>1, <2>2, <2>3 DEF SockType
  <2>6. wsByUid' \in [Rooms -> Sockets \cup {NoSock}]
    BY <1>2 DEF Registers, TInv, Typed
  <2>7. UNCHANGED <<page, runs, roomId, controlWs, audioWs, capturing, seat, index>>
    BY <1>2 DEF service
  <2>8. Typed'
    BY <1>2, <2>4, <2>6, <2>7 DEF TInv, Typed
  <2>9. \A q \in Rooms : seat[q] # s
    BY <1>2, SocketAssumption DEF TInv, Kinds
  <2>10. Kinds'
    BY <1>2, <2>5, <2>7, <2>9 DEF TInv, Typed, Kinds, Alive
  <2>11. OneRoomEach'
    BY <1>2, <2>5, <2>7, <2>9 DEF TInv, OneRoomEach
  <2> QED BY <2>8, <2>10, <2>11 DEF TInv
<1>3. ASSUME NEW s \in Sockets, Handshake(s) PROVE TInv'
  <2>1. /\ sock[s].mail \in Rooms \cup {NoRoom} /\ sock[s].mail # NoRoom
        /\ sock[s].kind = "audio" /\ sock[s].far = "open"
    BY <1>3 DEF Handshake, TInv, Typed, SockType, Kinds
  <2>2. /\ Registers(s, sock[s].mail) /\ UNCHANGED <<page, runs, service, seat, index>>
        /\ addr' \subseteq Rooms /\ \A q \in addr' : q \in addr \/ seat[q] # NoSock
    BY <1>3, <2>1 DEF Handshake, TInv, Typed
  <2> QED BY <1>2, <2>1, <2>2
<1>4. ASSUME Frame PROVE TInv'
  <2>1. /\ audioWs \in Sockets /\ sock[audioWs].kind = "audio" /\ sock[audioWs].far = "open"
        /\ roomId \in Rooms \cup {NoRoom}
    BY <1>4 DEF Frame, Usable, TInv, Typed, Kinds
  <2>2. /\ Registers(audioWs, roomId) /\ UNCHANGED <<page, runs, service, seat, index>>
        /\ addr' \subseteq Rooms /\ \A q \in addr' : q \in addr \/ seat[q] # NoSock
    BY <1>4 DEF Frame, Addressed, TInv, Typed
  <2>3. PICK s \in Sockets : s = audioWs
    BY <2>1
  <2> QED BY <1>2, <2>1, <2>2, <2>3
<1> QED
  BY <1>1, <1>3, <1>4

LEMMA TypedStep == TInv /\ [Next]_vars => TInv'
<1> SUFFICES ASSUME TInv, [Next]_vars PROVE TInv'
  OBVIOUS
<1>1. ASSUME NEW k \in Runs, Step(k) \/ \E r \in Rooms : Enter(k, r) PROVE TInv'
  BY <1>1, DialTyped, OpenTyped, PageTyped DEF Step
<1>2. ASSUME NEW s \in Sockets, Socket(s) PROVE TInv'
  BY <1>2, SocketOpensTyped, OpenTyped, NearEndsTyped, FarEndsTyped
    DEF Socket, NearCloses, FarCloses
<1>3. ASSUME NEW s \in Sockets, Carry(s) PROVE TInv'
  BY <1>3, JoinTyped, CarryTyped DEF Carry
<1>4. ASSUME NEW s \in Sockets, Lost(s) \/ Drop(s) PROVE TInv'
  BY <1>4, NearEndsTyped, FarEndsTyped DEF Lost, Drop
<1>5. CASE Leave \/ Reopens \/ Frame
  BY <1>5, PageTyped, OpenTyped, CarryTyped
<1>6. CASE UNCHANGED vars
  BY <1>6 DEF TInv, Typed, Kinds, OneRoomEach, Alive, vars, service, mixer
<1> QED
  BY <1>1, <1>2, <1>3, <1>4, <1>5, <1>6 DEF Next

LEMMA TypedAlways == Spec => []TInv
BY TypedInit, TypedStep, PTL DEF Spec

\* Types, kinds and ends of the sockets, whatever the user, the proxy and the
\* network do: a socket routed by a uid is an audio socket the proxy still serves,
\* and the mixer has an address only where it has a control connection.
THEOREM TypeCorrect == Spec => []TypeOK
<1>1. TInv => TypeOK
  BY DEF TInv, Typed, Kinds, TypeOK, SockType, RunType
<1> QED
  BY <1>1, TypedAlways, PTL

-----------------------------------------------------------------------------
(* The second invariant, of a user who waits and sockets whose ends are      *)
(* told in time: one run at a time, one message or timer that can complete   *)
(* its attempt, one control socket the proxy serves.                         *)

Active(k) == runs[k].step # "none"

Control(s) == sock[s].kind = "control"

\* A control socket that is being opened or that the proxy serves.
Live(s) == Control(s) /\ (sock[s].near = "connecting" \/ sock[s].far = "open")

\* An attempt's audio socket is being opened.
Tried(s) == sock[s].kind = "audio" /\ sock[s].near = "connecting" /\ sock[s].of # NoSock

\* The attempt is past its control socket and not yet complete.
Token(s) == sock[s].gap \/ Tried(s)

\* One run, of the room shown.
OneRun ==
  \A k \in Runs :
    /\ ~Active(k) => runs[k] = NoRun
    /\ Active(k) =>
         /\ \A j \in Runs : Active(j) => j = k
         /\ page # NoRoom /\ runs[k].room = page /\ runs[k].live
         /\ runs[k].step # "stuck"
         /\ runs[k].step # "dial" => roomId = page

\* While it runs, nothing is captured and nothing that starts a capture is on
\* its way.
Silent ==
  \A k \in Runs : Active(k) =>
    /\ ~capturing
    /\ \A s \in Sockets : ~sock[s].ack /\ (Control(s) => sock[s].mail = NoRoom)

\* What the steps of a run know of the sockets.
Phases ==
  \A k \in Runs :
    /\ runs[k].step = "dial" => /\ \A s \in Sockets : ~sock[s].gap
                                /\ (\E s \in Sockets : Token(s)) => controlWs = NoSock
    /\ runs[k].step = "clean" => controlWs = NoSock /\ \A s \in Sockets : ~Token(s)
    /\ runs[k].step = "await" =>
         /\ runs[k].on \in Sockets /\ controlWs \in {runs[k].on, NoSock}
         /\ \A s \in Sockets : /\ sock[s].gap => s = runs[k].on
                               /\ Tried(s) => sock[s].of = runs[k].on
                               /\ Token(s) => sock[runs[k].on].near # "connecting"
         /\ \A q \in Rooms : seat[q] = NoSock
    /\ runs[k].step \in {"pause", "backoff"} => controlWs = NoSock

OneToken ==
  \A s \in Sockets : Token(s) =>
    /\ page # NoRoom /\ roomId = page
    /\ \E k \in Runs : Active(k)
    /\ \A t \in Sockets : Token(t) => t = s
    /\ ~(sock[s].gap /\ Tried(s))
    /\ Tried(s) => s = audioWs

OneControl ==
  /\ \A s \in Sockets : Control(s) /\ Alive(s) => s = controlWs
  /\ \A s, t \in Sockets : Live(s) /\ Live(t) => s = t
  /\ controlWs # NoSock /\ sock[controlWs].near = "connecting" =>
       \E k \in Runs : runs[k].step = "await" /\ runs[k].on = controlWs

\* Joins and their answers are of the room shown; seats of the room dialled last,
\* but while it is being dialled.
ThisRoom ==
  /\ \A s \in Sockets : (Control(s) /\ sock[s].mail # NoRoom) \/ sock[s].ack =>
       page # NoRoom /\ page = roomId
  /\ \A s \in Sockets : Control(s) /\ sock[s].mail # NoRoom => sock[s].mail = roomId
  /\ \A q \in Rooms : seat[q] # NoSock => q = roomId \/ \E k \in Runs : runs[k].step = "clean"

DInv == /\ OneRun /\ Silent /\ Phases /\ OneToken /\ OneControl /\ ThisRoom
        /\ MicOnlyInRoom /\ OneSeat

\* A step that leaves page and runs alone and takes sockets, messages and seats
\* away, or adds some that no attempt and no seat hangs on.
Fades ==
  /\ UNCHANGED <<page, runs, roomId>>
  /\ controlWs' \in {controlWs, NoSock}
  /\ capturing' => capturing
  /\ \A q \in Rooms : seat'[q] \in {seat[q], NoSock}
  /\ \A t \in Sockets :
       /\ sock'[t].kind = "control" =>
            /\ Control(t) /\ sock'[t].mail \in {sock[t].mail, NoRoom}
            /\ sock'[t].near \in {"connecting", "open"} =>
                 /\ sock[t].near \in {"connecting", "open"}
                 /\ controlWs' = controlWs
            /\ sock'[t].near = "connecting" => sock[t].near = "connecting"
            /\ sock'[t].far = "open" => sock[t].far = "open"
       /\ sock[t].near # "connecting" =>
            sock'[t].near # "connecting" \/ \A k \in Runs : runs[k].on # t
       /\ sock'[t].gap => sock[t].gap
       /\ Tried(t)' => Tried(t) /\ sock'[t].of = sock[t].of /\ audioWs' = audioWs
       /\ sock'[t].ack => sock[t].ack

\* What the invariant says is not disturbed by it.
LEMMA FadesKeeps ==
  ASSUME TInv, TInv', DInv, Fades
  PROVE  DInv'
<1>1. /\ \A k \in Runs : Active(k)' = Active(k)
      /\ \A s \in Sockets : Token(s)' => Token(s)
      /\ \A s \in Sockets : Control(s)' => Control(s)
      /\ \A s \in Sockets : Live(s)' => Live(s)
  BY DEF Fades, Active, Token, Control, Live
<1>2. OneRun'
  BY <1>1 DEF Fades, DInv, OneRun, Active
<1>3. Silent'
  BY <1>1 DEF Fades, DInv, Silent, Control
<1>4. Phases'
  <2> SUFFICES ASSUME NEW k \in Runs
        PROVE
    /\ runs[k].step = "dial" => /\ \A s \in Sockets : ~sock'[s].gap
                                /\ (\E s \in Sockets : Token(s)') => controlWs' = NoSock
    /\ runs[k].step = "clean" => controlWs' = NoSock /\ \A s \in Sockets : ~Token(s)'
    /\ runs[k].step = "await" =>
         /\ runs[k].on \in Sockets /\ controlWs' \in {runs[k].on, NoSock}
         /\ \A s \in Sockets : /\ sock'[s].gap => s = runs[k].on
                               /\ Tried(s)' => sock'[s].of = runs[k].on
                               /\ Token(s)' => sock'[runs[k].on].near # "connecting"
         /\ \A q \in Rooms : seat'[q] = NoSock
    /\ runs[k].step \in {"pause", "backoff"} => controlWs' = NoSock
    BY DEF Fades, Phases
  <2>1. runs[k].step = "dial" => /\ \A s \in Sockets : ~sock'[s].gap
                                 /\ (\E s \in Sockets : Token(s)') => controlWs' = NoSock
    BY <1>1 DEF Fades, DInv, Phases
  <2>2. runs[k].step = "clean" => controlWs' = NoSock /\ \A s \in Sockets : ~Token(s)'
    BY <1>1 DEF Fades, DInv, Phases
  <2>3. runs[k].step \in {"pause", "backoff"} => controlWs' = NoSock
    BY DEF Fades, DInv, Phases
  <2>4. ASSUME runs[k].step = "await"
        PROVE  /\ runs[k].on \in Sockets /\ controlWs' \in {runs[k].on, NoSock}
               /\ \A s \in Sockets : /\ sock'[s].gap => s = runs[k].on
                                     /\ Tried(s)' => sock'[s].of = runs[k].on
                                     /\ Token(s)' => sock'[runs[k].on].near # "connecting"
               /\ \A q \in Rooms : seat'[q] = NoSock
    <3>1. /\ runs[k].on \in Sockets /\ controlWs \in {runs[k].on, NoSock}
          /\ \A s \in Sockets : /\ sock[s].gap => s = runs[k].on
                                /\ Tried(s) => sock[s].of = runs[k].on
                                /\ Token(s) => sock[runs[k].on].near # "connecting"
          /\ \A q \in Rooms : seat[q] = NoSock
      BY <2>4 DEF DInv, Phases
    <3>2. ASSUME NEW s \in Sockets, Token(s)'
          PROVE  sock'[runs[k].on].near # "connecting"
      BY <1>1, <3>1, <3>2 DEF Fades
    <3> QED BY <1>1, <3>1, <3>2 DEF Fades
  <2> QED BY <2>1, <2>2, <2>3, <2>4
<1>5. OneToken'
  BY <1>1 DEF Fades, DInv, OneToken
<1>6. OneControl'
  BY <1>1 DEF Fades, DInv, OneControl, Alive, Control, TInv, Typed, Kinds
<1>7. ThisRoom'
  BY <1>1 DEF Fades, DInv, ThisRoom, Control
<1>8. MicOnlyInRoom' /\ OneSeat'
  BY DEF Fades, DInv, MicOnlyInRoom, OneSeat
<1> QED
  BY <1>2, <1>3, <1>4, <1>5, <1>6, <1>7, <1>8 DEF DInv

\* Sweeping, field by field: the ends and the timer are as they were.
LEMMA SweptFields ==
  ASSUME NEW f \in [Sockets -> SockType], NEW t \in Sockets
  PROVE  /\ Swept(f)[t].near = f[t].near /\ Swept(f)[t].far = f[t].far
         /\ Swept(f)[t].gap = f[t].gap
         /\ Swept(f)[t].kind \in {f[t].kind, "none"}
         /\ Swept(f)[t].mail \in {f[t].mail, NoRoom}
         /\ Swept(f)[t].ack => f[t].ack
         /\ f[t].near # "closed" => Swept(f)[t] = f[t]
<1>1. f[t].gap \in BOOLEAN
  BY DEF SockType
<1>2. \/ Swept(f)[t] = f[t]
      \/ /\ Swept(f)[t] = Blank /\ f[t].near = "closed" /\ f[t].far = "closed"
         /\ ~f[t].gap
  BY SweptSockets
<1>3. /\ Blank.kind = "none" /\ Blank.near = "closed" /\ Blank.far = "closed"
      /\ Blank.gap = FALSE /\ Blank.mail = NoRoom /\ Blank.ack = FALSE
  BY DEF Blank
<1>4. CASE Swept(f)[t] = f[t]
  BY <1>4
<1>5. CASE /\ Swept(f)[t] = Blank /\ f[t].near = "closed" /\ f[t].far = "closed"
           /\ ~f[t].gap
  <2>1. f[t].gap = FALSE
    BY <1>1, <1>5
  <2> QED BY <1>3, <1>5, <2>1
<1> QED
  BY <1>2, <1>4, <1>5

LEMMA NearEndsFades ==
  ASSUME TInv, DInv, NEW s \in Sockets, NearEnds(s)
  PROVE  Fades
<1> DEFINE f == [sock EXCEPT ![s].near = "closed", ![s].ack = FALSE]
<1>1. sock \in [Sockets -> SockType] /\ sock[s] \in SockType
  BY DEF TInv, Typed
<1>2. f[s] = [[sock[s] EXCEPT !.near = "closed"] EXCEPT !.ack = FALSE]
  BY <1>1
<1>3. \A t \in Sockets \ {s} : f[t] = sock[t]
  BY <1>1
<1>4. /\ f[s] \in SockType /\ f[s].near = "closed" /\ ~f[s].ack
      /\ f[s].kind = sock[s].kind /\ f[s].far = sock[s].far
      /\ f[s].mail = sock[s].mail /\ f[s].gap = sock[s].gap
  BY <1>1, <1>2 DEF SockType
<1>5. f \in [Sockets -> SockType]
  <2>1. f = [t \in Sockets |-> f[t]]
    BY <1>1
  <2> QED BY <1>1, <1>3, <1>4, <2>1
<1>6. sock' = Swept(f)
  BY DEF NearEnds
<1> HIDE DEF f
<1>7. \A t \in Sockets :
        /\ sock'[t].near = f[t].near /\ sock'[t].far = f[t].far
        /\ sock'[t].gap = f[t].gap /\ sock'[t].kind \in {f[t].kind, "none"}
        /\ sock'[t].mail \in {f[t].mail, NoRoom} /\ (sock'[t].ack => f[t].ack)
        /\ f[t].near # "closed" => sock'[t] = f[t]
  BY <1>5, <1>6, SweptFields
<1>8. \A t \in Sockets :
        /\ sock'[t].near # "closed" => t # s /\ sock'[t] = sock[t]
        /\ t # s => sock'[t].near = sock[t].near
        /\ sock'[t].far = sock[t].far /\ sock'[t].gap = sock[t].gap
        /\ sock'[t].kind \in {sock[t].kind, "none"}
        /\ sock'[t].mail \in {sock[t].mail, NoRoom} /\ (sock'[t].ack => sock[t].ack)
  BY <1>3, <1>4, <1>7
<1>9. /\ UNCHANGED <<page, runs, roomId, seat>>
      /\ controlWs' = IF controlWs = s THEN NoSock ELSE controlWs
      /\ audioWs' = IF audioWs = s THEN NoSock ELSE audioWs
      /\ capturing' => capturing
  BY DEF NearEnds, Ends, mixer
<1>10. \A q \in Rooms : seat'[q] \in {seat[q], NoSock}
  BY <1>9
<1>11. ASSUME NEW t \in Sockets
       PROVE
       /\ sock'[t].kind = "control" =>
            /\ Control(t) /\ sock'[t].mail \in {sock[t].mail, NoRoom}
            /\ sock'[t].near \in {"connecting", "open"} =>
                 /\ sock[t].near \in {"connecting", "open"}
                 /\ controlWs' = controlWs
            /\ sock'[t].near = "connecting" => sock[t].near = "connecting"
            /\ sock'[t].far = "open" => sock[t].far = "open"
       /\ sock[t].near # "connecting" =>
            sock'[t].near # "connecting" \/ \A k \in Runs : runs[k].on # t
       /\ sock'[t].gap => sock[t].gap
       /\ Tried(t)' => Tried(t) /\ sock'[t].of = sock[t].of /\ audioWs' = audioWs
       /\ sock'[t].ack => sock[t].ack
  <2>1. sock'[t].kind = "control" /\ sock'[t].near \in {"connecting", "open"} =>
          controlWs' = controlWs
    <3>1. \A x \in Sockets : Control(x) /\ Alive(x) => x = controlWs
      BY DEF DInv, OneControl
    <3> QED BY <1>8, <1>9, <3>1, SocketAssumption DEF Control, Alive
  <2>2. Tried(t)' => Tried(t) /\ sock'[t].of = sock[t].of /\ audioWs' = audioWs
    <3>1. Tried(t) => t = audioWs
      BY DEF DInv, OneToken, Token
    <3> QED BY <1>8, <1>9, <3>1 DEF Tried
  <2> QED BY <1>8, <2>1, <2>2 DEF Control
<1> QED
  BY <1>9, <1>10, <1>11 DEF Fades

LEMMA FarEndsFades ==
  ASSUME TInv, DInv, NEW s \in Sockets, FarEnds(s)
  PROVE  Fades
<1> DEFINE f == [sock EXCEPT ![s].far = "closed", ![s].mail = NoRoom, ![s].uid = NoRoom]
<1>1. sock \in [Sockets -> SockType] /\ sock[s] \in SockType
  BY DEF TInv, Typed
<1>2. f[s] = [[[sock[s] EXCEPT !.far = "closed"] EXCEPT !.mail = NoRoom] EXCEPT !.uid = NoRoom]
  BY <1>1
<1>3. \A t \in Sockets \ {s} : f[t] = sock[t]
  BY <1>1
<1>4. /\ f[s] \in SockType /\ f[s].far = "closed" /\ f[s].mail = NoRoom
      /\ f[s].kind = sock[s].kind /\ f[s].near = sock[s].near
      /\ f[s].of = sock[s].of /\ f[s].gap = sock[s].gap /\ f[s].ack = sock[s].ack
  BY <1>1, <1>2 DEF SockType
<1>5. f \in [Sockets -> SockType]
  <2>1. f = [t \in Sockets |-> f[t]]
    BY <1>1
  <2> QED BY <1>1, <1>3, <1>4, <2>1
<1>6. sock' = Swept(f)
  BY DEF FarEnds
<1> HIDE DEF f
<1>7. \A t \in Sockets :
        /\ sock'[t].near = f[t].near /\ sock'[t].far = f[t].far
        /\ sock'[t].gap = f[t].gap /\ sock'[t].kind \in {f[t].kind, "none"}
        /\ sock'[t].mail \in {f[t].mail, NoRoom} /\ (sock'[t].ack => f[t].ack)
        /\ f[t].near # "closed" => sock'[t] = f[t]
  BY <1>5, <1>6, SweptFields
<1>8. \A t \in Sockets :
        /\ sock'[t].near = sock[t].near
        /\ sock'[t].near # "closed" => sock'[t].kind = sock[t].kind /\ sock'[t].of = sock[t].of
        /\ sock'[t].far = "open" => sock[t].far = "open"
        /\ sock'[t].gap = sock[t].gap
        /\ sock'[t].kind \in {sock[t].kind, "none"}
        /\ sock'[t].mail \in {sock[t].mail, NoRoom} /\ (sock'[t].ack => sock[t].ack)
  BY <1>3, <1>4, <1>7
<1>9. UNCHANGED <<page, runs, roomId, controlWs, audioWs, capturing>>
  BY DEF FarEnds, service
<1>10. \A q \in Rooms : seat'[q] \in {seat[q], NoSock}
  BY DEF FarEnds, Evicts
<1> QED
  BY <1>8, <1>9, <1>10 DEF Fades, Control, Tried

LEMMA FreshFades ==
  ASSUME TInv, DInv, Reopens
  PROVE  Fades
<1>1. UNCHANGED <<page, runs, roomId, controlWs, capturing, seat>>
  BY DEF Reopens, mixer
<1>2. CASE Alive(audioWs)
  BY <1>1, <1>2 DEF Reopens, Fades, Control, Tried
<1>3. CASE ~Alive(audioWs)
  <2>1. PICK a \in Sockets :
          Fresh(a) /\ sock' = [sock EXCEPT ![a] = Opening("audio", NoSock)]
    BY <1>3 DEF Reopens
  <2>2. sock'[a] = Opening("audio", NoSock) /\ \A t \in Sockets \ {a} : sock'[t] = sock[t]
    BY <2>1 DEF TInv, Typed
  <2>3. /\ Opening("audio", NoSock).kind = "audio" /\ Opening("audio", NoSock).of = NoSock
        /\ ~Opening("audio", NoSock).gap /\ ~Opening("audio", NoSock).ack
    BY DEF Opening, Blank
  <2>4. \A t \in Sockets : ~Tried(t)
    <3>1. \A t \in Sockets : Tried(t) => t = audioWs
      BY DEF DInv, OneToken, Token
    <3> QED BY <1>3, <3>1, SocketAssumption DEF Tried, Alive
  <2>5. sock[a] = Blank
    BY <2>1, FreshBlank
  <2>6. \A k \in Runs : runs[k].on # a
    BY <2>1, FreshBlank
  <2>7. \A t \in Sockets :
          /\ sock'[t].kind = "control" => sock'[t] = sock[t]
          /\ sock[t].near # "connecting" => sock'[t].near # "connecting" \/ t = a
          /\ sock'[t].gap => sock[t].gap
          /\ sock'[t].ack => sock[t].ack
    BY <2>2, <2>3
  <2>8. \A t \in Sockets : ~Tried(t)'
    BY <2>2, <2>3, <2>4 DEF Tried
  <2> QED BY <1>1, <2>6, <2>7, <2>8 DEF Fades, Control
<1> QED
  BY <1>2, <1>3

\* A handshake or a frame only takes a uid and a message of an audio socket.
LEMMA CarryFades ==
  ASSUME TInv, (\E s \in Sockets : Handshake(s)) \/ Frame
  PROVE  Fades
<1>1. ASSUME NEW s \in Sockets, NEW r, Registers(s, r), sock[s].kind = "audio",
             UNCHANGED <<page, runs, service, seat>>
      PROVE  Fades
  <2> DEFINE u == IF sock[s].uid = NoRoom THEN r ELSE sock[s].uid
  <2>1. sock \in [Sockets -> SockType] /\ sock[s] \in SockType
    BY DEF TInv, Typed
  <2>2. sock' = [sock EXCEPT ![s] = [[sock[s] EXCEPT !.mail = NoRoom] EXCEPT !.uid = u]]
    BY <1>1, <2>1 DEF Registers, SockType
  <2>3. /\ \A t \in Sockets \ {s} : sock'[t] = sock[t]
        /\ sock'[s].kind = "audio" /\ sock'[s].of = sock[s].of
        /\ sock'[s].near = sock[s].near /\ sock'[s].gap = sock[s].gap
        /\ sock'[s].ack = sock[s].ack
    BY <1>1, <2>1, <2>2 DEF SockType
  <2> QED BY <1>1, <2>3 DEF Fades, service, Control, Tried
<1>2. CASE \E s \in Sockets : Handshake(s)
  BY <1>1, <1>2 DEF Handshake
<1>3. CASE Frame
  <2>1. audioWs \in Sockets /\ sock[audioWs].kind = "audio"
    BY <1>3 DEF Frame, Usable, TInv, Typed, Kinds
  <2>2. PICK s \in Sockets : s = audioWs
    BY <2>1
  <2> QED BY <1>1, <1>3, <2>1, <2>2 DEF Frame
<1> QED
  BY <1>2, <1>3

\* An audio socket opens: what the sockets were is known field by field.
LEMMA AudioOpened ==
  ASSUME TInv, NEW s \in Sockets, NEW S,
         sock' = Opened(s) \/ sock' = Posted(Opened(s), S), NEW t \in Sockets
  PROVE  /\ sock'[t].kind = sock[t].kind /\ sock'[t].of = sock[t].of
         /\ sock'[t].gap = sock[t].gap /\ sock'[t].ack = sock[t].ack
         /\ t # s => sock'[t].near = sock[t].near /\ sock'[t].far = sock[t].far
         /\ sock'[s].near = "open"
         /\ \/ sock'[t].mail = sock[t].mail
            \/ sock'[t].mail = roomId /\ t \in S
<1>0. Typed /\ roomId \in Rooms \cup {NoRoom}
  BY DEF TInv, Typed
<1>1. /\ Opened(s) \in [Sockets -> SockType]
      /\ t # s => Opened(s)[t] = sock[t]
      /\ Opened(s)[s].near = "open"
      /\ Opened(s)[t].kind = sock[t].kind /\ Opened(s)[t].of = sock[t].of
      /\ Opened(s)[t].gap = sock[t].gap /\ Opened(s)[t].ack = sock[t].ack
      /\ Opened(s)[t].mail = sock[t].mail
  BY <1>0, OpenedFields
<1>2. CASE sock' = Opened(s)
  BY <1>1, <1>2
<1>3. CASE sock' = Posted(Opened(s), S)
  <2>1. /\ sock'[t].kind = Opened(s)[t].kind /\ sock'[t].near = Opened(s)[t].near
        /\ sock'[t].far = Opened(s)[t].far /\ sock'[t].of = Opened(s)[t].of
        /\ sock'[t].gap = Opened(s)[t].gap /\ sock'[t].ack = Opened(s)[t].ack
        /\ \/ sock'[t].mail = Opened(s)[t].mail
           \/ sock'[t].mail = roomId /\ t \in S
    BY <1>0, <1>1, <1>3, PostedFields
  <2>2. sock'[s].near = Opened(s)[s].near
    BY <1>0, <1>1, <1>3, PostedFields
  <2> QED BY <1>1, <2>1, <2>2
<1> QED
  BY <1>2, <1>3

\* It fades, if only an audio socket is sent anything and no run awaits it.
LEMMA AudioOpensFades ==
  ASSUME TInv, NEW s \in Sockets, sock[s].kind = "audio",
         \/ sock' = Opened(s)
         \/ sock' = Posted(Opened(s), {audioWs})
         \/ sock' = Posted(Opened(s), {controlWs, audioWs}) /\ controlWs = NoSock,
         UNCHANGED <<runs, capturing>>, Starts
  PROVE  Fades
<1>1. \A t \in Sockets :
         /\ sock'[t].kind = sock[t].kind /\ sock'[t].of = sock[t].of
         /\ sock'[t].gap = sock[t].gap /\ sock'[t].ack = sock[t].ack
         /\ t # s => sock'[t].near = sock[t].near /\ sock'[t].far = sock[t].far
         /\ sock'[s].near = "open"
         /\ \/ sock'[t].mail = sock[t].mail
            \/ sock'[t].mail = roomId /\ t = audioWs
  <2>1. PICK S : /\ sock' = Opened(s) \/ sock' = Posted(Opened(s), S)
                 /\ S = {audioWs} \/ S = {NoSock, audioWs}
    OBVIOUS
  <2>2. \A t \in Sockets : t \in S => t = audioWs
    BY <2>1, SocketAssumption
  <2> QED BY <2>1, <2>2, AudioOpened
<1>2. UNCHANGED <<page, runs, roomId, controlWs, audioWs, capturing, seat>>
  BY DEF Starts, mixer
<1>3. \A t \in Sockets : sock[t].kind = "control" => t # s /\ t # audioWs
  BY SocketAssumption DEF TInv, Kinds
<1>4. ASSUME NEW t \in Sockets
      PROVE  Tried(t)' => Tried(t) /\ sock'[t].of = sock[t].of
  BY <1>1 DEF Tried
<1>5. \A t \in Sockets : sock'[t].kind = "control" =>
        /\ Control(t) /\ sock'[t].mail = sock[t].mail
        /\ sock'[t].near = sock[t].near /\ sock'[t].far = sock[t].far
  BY <1>1, <1>3 DEF Control
<1>6. \A t \in Sockets : /\ sock[t].near # "connecting" => sock'[t].near # "connecting"
                         /\ sock'[t].gap = sock[t].gap /\ sock'[t].ack = sock[t].ack
  BY <1>1
<1> QED
  BY <1>2, <1>4, <1>5, <1>6 DEF Fades

\* The attempt succeeds: its run is over, MIXER_JOIN is on its way, the capture
\* starts.  It can be no other attempt, room or socket by now.
LEMMA AudioOpensKeeps ==
  ASSUME TInv, TInv', DInv, NEW s \in Sockets, AudioOpens(s)
  PROVE  DInv'
<1>1. /\ sock[s].kind = "audio" /\ sock[s].near = "connecting" /\ sock[s].of # NoSock
      /\ Starts
  BY DEF AudioOpens
<1>2. /\ page # NoRoom /\ roomId = page /\ s = audioWs
      /\ \A t \in Sockets : Token(t) => t = s
      /\ Token(s) /\ Tried(s) /\ ~sock[s].gap
  BY <1>1 DEF DInv, OneToken, Token, Tried
<1>3. PICK k \in Runs : Active(k)
  BY <1>2 DEF DInv, OneToken
<1>4. /\ \A j \in Runs : j # k => runs[j] = NoRun
      /\ runs[k].step # "stuck" /\ ~capturing
      /\ \A t \in Sockets : ~sock[t].ack /\ (Control(t) => sock[t].mail = NoRoom)
  BY <1>3 DEF DInv, OneRun, Silent
<1>5. runs[k].step \in Steps
  BY DEF TInv, Typed, RunType
<1>6. runs[k].step # "clean"
  BY <1>2 DEF DInv, Phases
<1>7. CASE runs[k].step # "await"
  <2>1. controlWs = NoSock
    BY <1>2, <1>3, <1>4, <1>5, <1>6, <1>7 DEF DInv, Phases, Steps, Active
  <2>2. \A j \in Runs : ~(runs[j].step = "await")
    BY <1>4, <1>7 DEF NoRun
  <2>3. sock' = Posted(Opened(s), {controlWs, audioWs})
    BY <2>1 DEF AudioOpens
  <2>5. capturing' = capturing
    <3>1. capturing' = (capturing \/ FALSE)
      BY <2>2 DEF AudioOpens
    <3> QED BY <3>1 DEF TInv, Typed
  <2>4. runs' = runs
    <3>1. runs' = [j \in Runs |-> runs[j]]
      BY <2>2 DEF AudioOpens
    <3> QED BY <3>1 DEF TInv, Typed
  <2> QED BY <1>1, <2>1, <2>3, <2>4, <2>5, AudioOpensFades, FadesKeeps
<1>8. CASE runs[k].step = "await"
  <2>1. /\ runs[k].on \in Sockets /\ controlWs \in {runs[k].on, NoSock}
        /\ sock[s].of = runs[k].on
        /\ sock[runs[k].on].near # "connecting"
        /\ \A q \in Rooms : seat[q] = NoSock
    BY <1>2, <1>8 DEF DInv, Phases
  <2>2. controlWs # NoSock => controlWs # s /\ Opened(s)[controlWs].near # "connecting"
    <3>1. controlWs # NoSock => controlWs \in Sockets /\ controlWs # s
      BY <1>1, <2>1 DEF TInv, Kinds
    <3>2. Typed
      BY DEF TInv
    <3>3. controlWs # NoSock => Opened(s)[controlWs] = sock[controlWs]
      BY <3>1, <3>2, OpenedFields
    <3> QED BY <2>1, <3>1, <3>3
  <2>3. /\ sock' = Posted(Opened(s), {controlWs, audioWs})
        /\ runs' = [j \in Runs |->
              IF ~(runs[j].step = "await" /\ runs[j].on = sock[s].of) THEN runs[j] ELSE NoRun]
    BY <2>2 DEF AudioOpens
  <2>4. \A j \in Runs : runs'[j] = NoRun
    BY <1>4, <1>8, <2>1, <2>3
  <2>5. \A t \in Sockets :
         /\ sock'[t].kind = sock[t].kind /\ sock'[t].of = sock[t].of
         /\ sock'[t].gap = sock[t].gap /\ sock'[t].ack = sock[t].ack
         /\ t # s => sock'[t].near = sock[t].near /\ sock'[t].far = sock[t].far
         /\ sock'[s].near = "open"
         /\ \/ sock'[t].mail = sock[t].mail
            \/ sock'[t].mail = roomId
    BY <2>3, AudioOpened
  <2>6. UNCHANGED <<page, roomId, controlWs, audioWs, seat>>
    BY <1>1 DEF Starts, mixer
  <2>7. \A j \in Runs : ~Active(j)' /\ runs'[j].step = "none"
    BY <2>4 DEF Active, NoRun
  <2>8. OneRun' /\ Silent' /\ Phases'
    BY <2>4, <2>7 DEF OneRun, Silent, Phases
  <2>9. \A t \in Sockets : ~Token(t)'
    BY <1>2, <2>5 DEF Token, Tried
  <2>10. OneToken'
    BY <2>9 DEF OneToken
  <2>11. \A t \in Sockets : /\ Control(t)' = Control(t)
                            /\ Control(t) => sock'[t].near = sock[t].near /\ sock'[t].far = sock[t].far
    BY <1>1, <2>5 DEF Control
  <2>12. controlWs # NoSock => sock'[controlWs].near # "connecting"
    BY <2>1, <2>5
  <2>13. OneControl'
    BY <2>6, <2>11, <2>12 DEF DInv, OneControl, Alive, Live
  <2>14. ThisRoom'
    BY <1>2, <1>4, <2>1, <2>5, <2>6, <2>11 DEF ThisRoom, Control
  <2>15. MicOnlyInRoom' /\ OneSeat'
    BY <1>2, <2>6 DEF DInv, MicOnlyInRoom, OneSeat
  <2> QED BY <2>8, <2>10, <2>13, <2>14, <2>15 DEF DInv
<1> QED
  BY <1>7, <1>8

\* The room page is entered by a service nobody dials for.
LEMMA EnterKeeps ==
  ASSUME TInv, DInv, NEW k \in Runs, NEW r \in Rooms, Enter(k, r)
  PROVE  DInv'
<1>1. /\ page = NoRoom /\ page' = r /\ r # NoRoom /\ ~capturing'
      /\ UNCHANGED <<roomId, controlWs, audioWs, sock, seat>>
  BY SocketAssumption DEF Enter, mixer
<1>2. \A j \in Runs : ~Active(j) /\ runs[j] = NoRun
  BY <1>1 DEF DInv, OneRun
<1>3. /\ \A j \in Runs \ {k} : runs'[j] = NoRun
      /\ runs'[k].room = r /\ runs'[k].live /\ runs'[k].step = "dial"
  BY <1>2 DEF Enter, TInv, Typed, NoRun
<1>4. \A s \in Sockets : ~Token(s) /\ Token(s)' = Token(s)
  BY <1>1 DEF DInv, OneToken, Token, Tried
<1>5. \A s \in Sockets : ~sock[s].ack /\ (Control(s) => sock[s].mail = NoRoom)
  BY <1>1 DEF DInv, ThisRoom
<1>6. /\ \A s \in Sockets : Control(s)' = Control(s) /\ Live(s)' = Live(s)
      /\ \A j \in Runs : /\ Active(j)' <=> j = k
                         /\ runs'[j].step # "dial" => runs'[j].step = "none"
  BY <1>1, <1>3 DEF Control, Live, Active, NoRun
<1>7. OneRun'
  BY <1>1, <1>3, <1>6 DEF OneRun
<1>8. Silent'
  BY <1>1, <1>5, <1>6 DEF Silent
<1>9. Phases'
  BY <1>1, <1>4, <1>6 DEF Phases, Token
<1>10. OneToken' /\ ThisRoom'
  <2>1. \A q \in Rooms : seat[q] # NoSock => q = roomId
    BY <1>2 DEF DInv, ThisRoom, NoRun
  <2> QED BY <1>1, <1>4, <1>5, <1>6, <2>1 DEF OneToken, ThisRoom
<1>11. OneControl'
  <2>1. ~(controlWs # NoSock /\ sock[controlWs].near = "connecting")
    BY <1>2 DEF DInv, OneControl, NoRun
  <2> QED BY <1>1, <1>6, <2>1 DEF DInv, OneControl, Alive
<1>12. MicOnlyInRoom' /\ OneSeat'
  BY <1>1 DEF DInv, MicOnlyInRoom, OneSeat
<1> QED
  BY <1>7, <1>8, <1>9, <1>10, <1>11, <1>12 DEF DInv

\* It is left when the last attempt has succeeded.
LEMMA LeaveKeeps ==
  ASSUME Waits, TInv, DInv, Leave
  PROVE  DInv'
<1>1. /\ \A j \in Runs : runs[j] = NoRun
      /\ \A s \in Sockets : ~sock[s].ack /\ sock[s].mail = NoRoom
      /\ ~capturing'
      /\ UNCHANGED <<roomId, controlWs, audioWs, sock, seat>>
  BY DEF Leave, Unmounted, mixer
<1>2. \A j \in Runs : runs'[j] = NoRun
  <2>1. [NoRun EXCEPT !.live = FALSE] = NoRun
    <3>1. NoRun \in RunType /\ NoRun.live = FALSE
      BY NoRunTyped DEF NoRun
    <3> QED BY <3>1 DEF RunType
  <2>2. runs' = [j \in Runs |-> [runs[j] EXCEPT !.live = FALSE]]
    BY DEF Leave, Unmounted
  <2> QED BY <1>1, <2>1, <2>2
<1>3. \A s \in Sockets : /\ ~Token(s) /\ Token(s)' = Token(s)
                         /\ Control(s)' = Control(s) /\ Live(s)' = Live(s)
  BY <1>1 DEF DInv, OneToken, Token, Tried, Active, NoRun, Control, Live
<1>4. \A j \in Runs : ~Active(j)' /\ runs'[j].step = "none" /\ runs[j].step = "none"
  BY <1>1, <1>2 DEF Active, NoRun
<1>5. OneRun' /\ Silent' /\ Phases'
  BY <1>2, <1>4 DEF OneRun, Silent, Phases
<1>6. OneToken' /\ ThisRoom'
  BY <1>1, <1>3, <1>4 DEF DInv, OneToken, ThisRoom
<1>7. OneControl'
  BY <1>1, <1>3, <1>4 DEF DInv, OneControl, Alive
<1>8. MicOnlyInRoom' /\ OneSeat'
  BY <1>1 DEF DInv, MicOnlyInRoom, OneSeat
<1> QED
  BY <1>5, <1>6, <1>7, <1>8 DEF DInv

\* close() on the service's sockets: none of a former attempt is left but its
\* timer.
LEMMA ClosesSockets ==
  ASSUME TInv, DInv, sock' = Swept(Closing)
  PROVE  /\ \A t \in Sockets :
              /\ sock'[t].near = sock[t].near \/ sock'[t].near = "closing"
              /\ sock'[t].far = sock[t].far /\ sock'[t].gap = sock[t].gap
              /\ sock'[t].kind \in {sock[t].kind, "none"}
              /\ sock'[t].mail \in {sock[t].mail, NoRoom}
              /\ sock'[t].ack => sock[t].ack
         /\ \A t \in Sockets : ~Tried(t)'
         /\ \A t \in Sockets : sock'[t].kind = "control" =>
              sock'[t].near \notin {"connecting", "open"}
<1>1. Typed /\ Closing \in [Sockets -> SockType]
  BY ClosingSockets DEF TInv
<1>2. ASSUME NEW t \in Sockets
      PROVE  /\ Closing[t].far = sock[t].far /\ Closing[t].gap = sock[t].gap
             /\ Closing[t].kind = sock[t].kind /\ Closing[t].mail = sock[t].mail
             /\ Closing[t].ack = sock[t].ack
             /\ \/ Closing[t].near = "closing"
                \/ /\ Closing[t] = sock[t] /\ (t \notin {controlWs, audioWs} \/ ~Alive(t))
  <2>1. sock[t] \in SockType
    BY <1>1 DEF Typed
  <2>2. \/ Closing[t] = sock[t] /\ (t \notin {controlWs, audioWs} \/ ~Alive(t))
        \/ Closing[t] = [sock[t] EXCEPT !.near = "closing"]
    BY <1>1, ClosingSockets
  <2> QED BY <2>1, <2>2 DEF SockType
<1>3. ASSUME NEW t \in Sockets
      PROVE  /\ sock'[t].near = Closing[t].near /\ sock'[t].far = Closing[t].far
             /\ sock'[t].gap = Closing[t].gap
             /\ sock'[t].kind \in {Closing[t].kind, "none"}
             /\ sock'[t].mail \in {Closing[t].mail, NoRoom}
             /\ sock'[t].ack => Closing[t].ack
             /\ Closing[t].near # "closed" => sock'[t] = Closing[t]
  BY <1>1, SweptFields
<1>4. ASSUME NEW t \in Sockets, sock'[t].near \in {"connecting", "open"}
      PROVE  t \notin {controlWs, audioWs} /\ sock'[t] = sock[t]
  <2>1. Closing[t] = sock[t] /\ (t \notin {controlWs, audioWs} \/ ~Alive(t))
    BY <1>2, <1>3, <1>4
  <2>2. sock'[t] = sock[t]
    BY <1>3, <1>4, <2>1
  <2> QED BY <1>4, <2>1, <2>2, SocketAssumption DEF Alive
<1>5. \A t \in Sockets : ~Tried(t)'
  <2>1. \A t \in Sockets : Tried(t) => t = audioWs
    BY DEF DInv, OneToken, Token
  <2> QED BY <1>4, <2>1 DEF Tried
<1>6. \A t \in Sockets : sock'[t].kind = "control" =>
        sock'[t].near \notin {"connecting", "open"}
  <2>1. \A t \in Sockets : Control(t) /\ Alive(t) => t = controlWs
    BY DEF DInv, OneControl
  <2> QED BY <1>4, <2>1, SocketAssumption DEF Control, Alive
<1> QED
  BY <1>2, <1>3, <1>5, <1>6

LEMMA DialKeeps ==
  ASSUME TInv, TInv', DInv, NEW k \in Runs, Dial(k) \/ Fails(k)
  PROVE  DInv'
<1>1. /\ sock' = Swept(Closing) /\ controlWs' = NoSock /\ audioWs' = NoSock
      /\ UNCHANGED <<page, capturing, seat>>
      /\ Active(k) /\ runs[k].step \in {"dial", "await"}
  BY DEF Dial, Fails, mixer, Active
<1>2. /\ page # NoRoom /\ runs[k].room = page /\ runs[k].live /\ ~capturing
      /\ \A j \in Runs \ {k} : runs[j] = NoRun
      /\ \A s \in Sockets : ~sock[s].ack /\ (Control(s) => sock[s].mail = NoRoom)
  BY <1>1 DEF DInv, OneRun, Silent
<1>3. /\ \A j \in Runs \ {k} : runs'[j] = NoRun
      /\ runs'[k].room = page /\ runs'[k].live
      /\ roomId' = page
      /\ \/ runs'[k].step = "clean" /\ runs[k].step = "dial"
         \/ /\ runs'[k].step \in {"pause", "backoff"} /\ runs[k].step = "await"
            /\ roomId' = roomId
  <2>1. /\ runs \in [Runs -> RunType] /\ runs[k] \in RunType
    BY DEF TInv, Typed
  <2>2. CASE Dial(k)
    <3>1. runs'[k] = [runs[k] EXCEPT !.step = "clean"] /\ \A j \in Runs \ {k} : runs'[j] = runs[j]
      BY <2>1, <2>2 DEF Dial
    <3>2. runs'[k].room = page /\ runs'[k].live /\ runs'[k].step = "clean"
      BY <1>2, <2>1, <3>1 DEF RunType
    <3> QED BY <1>2, <2>2, <3>1, <3>2 DEF Dial
  <2>3. CASE Fails(k)
    <3>1. /\ \/ runs'[k] = [runs[k] EXCEPT !.step = "backoff", !.tries = 0, !.on = NoSock]
             \/ runs'[k] = [runs[k] EXCEPT !.step = "pause", !.tries = runs[k].tries + 1, !.on = NoSock]
          /\ \A j \in Runs \ {k} : runs'[j] = runs[j]
      BY <2>1, <2>3 DEF Fails
    <3>2. runs'[k].room = page /\ runs'[k].live /\ runs'[k].step \in {"pause", "backoff"}
      <4>1. CASE runs'[k] = [runs[k] EXCEPT !.step = "backoff", !.tries = 0, !.on = NoSock]
        BY <1>2, <2>1, <4>1 DEF RunType
      <4>2. CASE runs'[k] = [runs[k] EXCEPT !.step = "pause", !.tries = runs[k].tries + 1,
                                            !.on = NoSock]
        <5> DEFINE n == runs[k].tries + 1
        <5>1. runs'[k] = [runs[k] EXCEPT !.step = "pause", !.tries = n, !.on = NoSock]
          BY <4>2
        <5> HIDE DEF n
        <5> QED BY <1>2, <2>1, <5>1 DEF RunType
      <4> QED BY <3>1, <4>1, <4>2
    <3>3. runs[k].step = "await" /\ roomId' = roomId
      BY <2>3 DEF Fails
    <3>4. roomId = page
      BY <1>1, <3>3 DEF DInv, OneRun
    <3> QED BY <1>2, <3>1, <3>2, <3>3, <3>4
  <2> QED BY <2>2, <2>3
<1>4. /\ \A t \in Sockets :
           /\ sock'[t].near = sock[t].near \/ sock'[t].near = "closing"
           /\ sock'[t].far = sock[t].far /\ sock'[t].gap = sock[t].gap
           /\ sock'[t].kind \in {sock[t].kind, "none"}
           /\ sock'[t].mail \in {sock[t].mail, NoRoom}
           /\ sock'[t].ack => sock[t].ack
      /\ \A t \in Sockets : ~Tried(t)'
      /\ \A t \in Sockets : sock'[t].kind = "control" =>
           sock'[t].near \notin {"connecting", "open"}
  BY <1>1, ClosesSockets
<1>5. /\ \A j \in Runs : Active(j)' <=> j = k
      /\ \A j \in Runs \ {k} : runs'[j].step = "none"
  BY <1>3 DEF Active, NoRun
<1>6. OneRun'
  BY <1>1, <1>2, <1>3, <1>5 DEF OneRun
<1>7. Silent'
  BY <1>1, <1>2, <1>4, <1>5 DEF Silent, Control
<1>8. \A t \in Sockets : Token(t)' => sock[t].gap /\ sock'[t].gap
  BY <1>4 DEF Token
<1>9. Phases'
  <2>1. runs[k].step = "dial" => \A t \in Sockets : ~Token(t)'
    BY <1>8 DEF DInv, Phases
  <2> QED BY <1>1, <1>3, <1>5, <2>1 DEF Phases
<1>10. OneToken'
  <2>1. \A s, t \in Sockets : sock[s].gap /\ sock[t].gap => s = t
    BY DEF DInv, OneToken, Token
  <2>2. \A s \in Sockets : Token(s)' =>
          /\ \A t \in Sockets : Token(t)' => t = s
          /\ ~Tried(s)'
    BY <1>4, <1>8, <2>1
  <2>3. page' # NoRoom /\ roomId' = page' /\ Active(k)'
    BY <1>1, <1>2, <1>3, <1>5
  <2> QED BY <2>2, <2>3 DEF OneToken
<1>11. OneControl'
  <2>1. \A s \in Sockets : ~(Control(s) /\ Alive(s))'
    BY <1>4 DEF Control, Alive
  <2>2. \A s \in Sockets : Live(s)' => Live(s)
    BY <1>4 DEF Control, Live
  <2>3. \A s, t \in Sockets : Live(s) /\ Live(t) => s = t
    BY DEF DInv, OneControl
  <2> QED BY <1>1, <2>1, <2>2, <2>3 DEF OneControl
<1>12. ThisRoom'
  <2>1. \A s \in Sockets : ~sock'[s].ack /\ (Control(s)' => sock'[s].mail = NoRoom)
    BY <1>2, <1>4 DEF Control
  <2>2. \A q \in Rooms : seat'[q] # NoSock => q = roomId' \/ runs'[k].step = "clean"
    BY <1>1, <1>3 DEF DInv, Phases
  <2> QED BY <2>1, <2>2 DEF ThisRoom
<1>13. MicOnlyInRoom' /\ OneSeat'
  BY <1>1, <1>2 DEF DInv, MicOnlyInRoom, OneSeat
<1> QED
  BY <1>6, <1>7, <1>9, <1>10, <1>11, <1>12, <1>13 DEF DInv

\* The next attempt: the page is still there.
LEMMA RetryKeeps ==
  ASSUME TInv, DInv, NEW k \in Runs, Retry(k)
  PROVE  DInv'
<1>1. /\ UNCHANGED <<page, roomId, controlWs, audioWs, capturing, sock, seat>>
      /\ runs[k].step \in {"pause", "backoff"} /\ Active(k)
      /\ \A s \in Sockets : ~sock[s].gap
  BY DEF Retry, service, mixer, Active
<1>2. /\ page # NoRoom /\ runs[k].room = page /\ runs[k].live /\ roomId = page
      /\ \A j \in Runs \ {k} : runs[j] = NoRun
      /\ controlWs = NoSock
  BY <1>1 DEF DInv, OneRun, Phases
<1>3. /\ \A j \in Runs \ {k} : runs'[j] = NoRun
      /\ runs'[k] = [runs[k] EXCEPT !.step = "dial"]
  BY <1>2 DEF Retry, TInv, Typed
<1>4. runs'[k].room = page /\ runs'[k].live /\ runs'[k].step = "dial"
  <2>1. runs[k] \in RunType
    BY DEF TInv, Typed
  <2> QED BY <1>2, <1>3, <2>1 DEF RunType
<1>5. /\ \A j \in Runs : (Active(j)' <=> j = k) /\ (Active(j) <=> j = k)
      /\ \A j \in Runs \ {k} : runs'[j].step = "none" /\ runs[j].step = "none"
      /\ \A s \in Sockets : /\ Token(s)' = Token(s) /\ Control(s)' = Control(s)
                            /\ Live(s)' = Live(s)
  <2>1. \A j \in Runs \ {k} : runs'[j].step = "none" /\ runs[j].step = "none"
    BY <1>2, <1>3 DEF NoRun
  <2>2. \A j \in Runs : (Active(j)' <=> j = k) /\ (Active(j) <=> j = k)
    BY <1>1, <1>4, <2>1 DEF Active
  <2>3. \A s \in Sockets : /\ Token(s)' = Token(s) /\ Control(s)' = Control(s)
                            /\ Live(s)' = Live(s)
    BY <1>1 DEF Token, Tried, Control, Live
  <2> QED BY <2>1, <2>2, <2>3
<1>6. OneRun'
  BY <1>1, <1>2, <1>3, <1>4, <1>5 DEF OneRun
<1>7. Silent'
  BY <1>1, <1>5 DEF DInv, Silent
<1>8. Phases'
  BY <1>1, <1>2, <1>4, <1>5 DEF Phases
<1>9. OneToken'
  BY <1>1, <1>5 DEF DInv, OneToken, Tried
<1>10. OneControl'
  BY <1>1, <1>2, <1>5 DEF DInv, OneControl, Alive
<1>11. ThisRoom'
  BY <1>1, <1>5 DEF DInv, ThisRoom
<1>12. MicOnlyInRoom' /\ OneSeat'
  BY <1>1 DEF DInv, MicOnlyInRoom, OneSeat
<1> QED
  BY <1>6, <1>7, <1>8, <1>9, <1>10, <1>11, <1>12 DEF DInv

\* The control socket of an attempt: both ends of the last one have ended, so the
\* mixer has no seat left.
LEMMA OpenControlKeeps ==
  ASSUME Prompt, TInv, DInv, NEW k \in Runs, OpenControl(k)
  PROVE  DInv'
<1>1. PICK s \in Sockets :
        /\ Fresh(s) /\ sock' = [sock EXCEPT ![s] = Opening("control", NoSock)]
        /\ controlWs' = s
        /\ runs' = [runs EXCEPT ![k].step = "await", ![k].on = s]
  BY DEF OpenControl
<1>2. /\ UNCHANGED <<page, roomId, audioWs, capturing, seat>>
      /\ runs[k].step = "clean" /\ Active(k)
  BY DEF OpenControl, mixer, Active
<1>3. /\ page # NoRoom /\ runs[k].room = page /\ runs[k].live /\ roomId = page
      /\ \A j \in Runs \ {k} : runs[j] = NoRun
      /\ controlWs = NoSock /\ \A t \in Sockets : ~Token(t)
      /\ ~capturing
      /\ \A t \in Sockets : ~sock[t].ack /\ (Control(t) => sock[t].mail = NoRoom)
  BY <1>2 DEF DInv, OneRun, Phases, Silent
<1>4. sock[s] = Blank /\ Halves = {}
  BY <1>1, FreshBlank
<1>5. \A t \in Sockets : ~(Control(t) /\ Alive(t)) /\ ~Live(t)
  <2>1. \A t \in Sockets : ~(Control(t) /\ Alive(t))
    BY <1>3, SocketAssumption DEF DInv, OneControl
  <2>2. ASSUME NEW t \in Sockets, Live(t) PROVE FALSE
    <3>1. sock[t].near \notin {"connecting", "open"} /\ sock[t].far = "open"
      BY <2>1, <2>2, SocketAssumption DEF Live, Alive
    <3>2. sock[t].near \in {"closing", "closed"}
      BY <3>1 DEF TInv, Typed, SockType
    <3> QED BY <1>4, <3>1, <3>2 DEF Halves
  <2> QED BY <2>1, <2>2
<1>6. \A q \in Rooms : seat[q] = NoSock
  BY <1>5 DEF TInv, Typed, Kinds, Live, Control
<1>7. /\ sock'[s] = Opening("control", NoSock) /\ \A t \in Sockets \ {s} : sock'[t] = sock[t]
  BY <1>1 DEF TInv, Typed
<1>8. /\ sock'[s].kind = "control" /\ sock'[s].near = "connecting" /\ sock'[s].gap = FALSE
      /\ sock'[s].mail = NoRoom /\ sock'[s].ack = FALSE
  BY <1>7 DEF Opening, Blank
<1>9. /\ \A j \in Runs \ {k} : runs'[j] = NoRun
      /\ runs'[k].room = page /\ runs'[k].live /\ runs'[k].step = "await"
      /\ runs'[k].on = s
  <2>1. runs \in [Runs -> RunType] /\ runs[k] \in RunType
    BY DEF TInv, Typed
  <2>2. runs' = [runs EXCEPT ![k] = [runs[k] EXCEPT !.step = "await", !.on = s]]
    BY <1>1, <2>1
  <2>3. runs'[k] = [runs[k] EXCEPT !.step = "await", !.on = s]
    BY <2>1, <2>2
  <2> QED BY <1>3, <2>1, <2>2, <2>3 DEF RunType
<1>10. /\ \A j \in Runs : Active(j)' <=> j = k
       /\ \A j \in Runs \ {k} : runs'[j].step = "none"
       /\ \A t \in Sockets : ~Token(t)'
       /\ \A t \in Sockets : Live(t)' => t = s
       /\ \A t \in Sockets : ~sock'[t].ack /\ (Control(t)' => sock'[t].mail = NoRoom)
  BY <1>3, <1>5, <1>7, <1>8, <1>9 DEF Active, NoRun, Token, Tried, Control, Live
<1>11. OneRun'
  BY <1>2, <1>3, <1>9, <1>10 DEF OneRun
<1>12. Silent'
  BY <1>2, <1>3, <1>10 DEF Silent
<1>13. Phases'
  BY <1>1, <1>2, <1>6, <1>9, <1>10 DEF Phases, Token
<1>14. OneToken'
  BY <1>10 DEF OneToken
<1>15. OneControl'
  BY <1>1, <1>5, <1>7, <1>9, <1>10 DEF OneControl, Control, Alive
<1>16. ThisRoom' /\ MicOnlyInRoom' /\ OneSeat'
  BY <1>2, <1>3, <1>6, <1>10 DEF ThisRoom, MicOnlyInRoom, OneSeat
<1> QED
  BY <1>11, <1>12, <1>13, <1>14, <1>15, <1>16 DEF DInv

\* The 80 ms timer opens the attempt's audio socket: the token passes to it.
LEMMA OpenAudioKeeps ==
  ASSUME TInv, DInv, NEW s \in Sockets, OpenAudio(s)
  PROVE  DInv'
<1>1. PICK a \in Sockets :
        /\ Fresh(a) /\ audioWs' = a
        /\ sock' = [sock EXCEPT ![s].gap = FALSE, ![a] = Opening("audio", s)]
  BY DEF OpenAudio
<1>2. /\ UNCHANGED <<page, runs, roomId, controlWs, capturing, seat>>
      /\ sock[s].gap /\ Token(s)
  BY DEF OpenAudio, mixer, Token
<1>3. /\ page # NoRoom /\ roomId = page /\ \E k \in Runs : Active(k)
      /\ \A t \in Sockets : Token(t) => t = s
      /\ ~Tried(s)
  BY <1>2 DEF DInv, OneToken
<1>4. /\ sock[a] = Blank /\ a # s /\ \A k \in Runs : runs[k].on # a
  <2>1. sock[a] = Blank /\ \A k \in Runs : runs[k].on # a
    BY <1>1, FreshBlank
  <2>2. ~Blank.gap
    BY DEF Blank
  <2> QED BY <1>2, <2>1, <2>2
<1>5. /\ sock'[a] = Opening("audio", s) /\ sock'[s] = [sock[s] EXCEPT !.gap = FALSE]
      /\ \A t \in Sockets \ {a, s} : sock'[t] = sock[t]
  BY <1>1, <1>4 DEF TInv, Typed
<1>6. /\ sock'[a].kind = "audio" /\ sock'[a].near = "connecting" /\ sock'[a].of = s
      /\ sock'[a].gap = FALSE /\ sock'[a].mail = NoRoom /\ sock'[a].ack = FALSE
  BY <1>5 DEF Opening, Blank
<1>7. /\ sock'[s].kind = sock[s].kind /\ sock'[s].near = sock[s].near
      /\ sock'[s].far = sock[s].far /\ sock'[s].of = sock[s].of
      /\ sock'[s].gap = FALSE /\ sock'[s].mail = sock[s].mail /\ sock'[s].ack = sock[s].ack
  <2>1. sock[s] \in SockType
    BY DEF TInv, Typed
  <2> QED BY <1>5, <2>1 DEF SockType
<1>8. \A t \in Sockets \ {a} :
        /\ sock'[t].kind = sock[t].kind /\ sock'[t].near = sock[t].near
        /\ sock'[t].far = sock[t].far /\ sock'[t].mail = sock[t].mail
        /\ sock'[t].of = sock[t].of /\ sock'[t].ack = sock[t].ack
        /\ sock'[t].gap = FALSE
  <2>1. \A t \in Sockets \ {a, s} : sock[t].gap = FALSE
    BY <1>3 DEF Token, TInv, Typed, SockType
  <2> QED BY <1>5, <1>7, <2>1
<1>9. /\ \A t \in Sockets : Control(t)' => Control(t) /\ t # a
      /\ \A t \in Sockets : Live(t)' => Live(t)
      /\ \A t \in Sockets : Token(t)' => t = a
      /\ Tried(a)' /\ ~sock'[a].gap
  BY <1>2, <1>3, <1>6, <1>8, SocketAssumption DEF Control, Live, Token, Tried
<1>10. OneRun'
  BY <1>2 DEF DInv, OneRun, Active
<1>11. Silent'
  BY <1>2, <1>6, <1>8, <1>9 DEF DInv, Silent, Active
<1>12. Phases'
  <2> SUFFICES ASSUME NEW k \in Runs
      PROVE
    /\ runs[k].step = "dial" => /\ \A t \in Sockets : ~sock'[t].gap
                                /\ (\E t \in Sockets : Token(t)') => controlWs = NoSock
    /\ runs[k].step = "clean" => controlWs = NoSock /\ \A t \in Sockets : ~Token(t)'
    /\ runs[k].step = "await" =>
         /\ runs[k].on \in Sockets /\ controlWs \in {runs[k].on, NoSock}
         /\ \A t \in Sockets : /\ sock'[t].gap => t = runs[k].on
                               /\ Tried(t)' => sock'[t].of = runs[k].on
                               /\ Token(t)' => sock'[runs[k].on].near # "connecting"
         /\ \A q \in Rooms : seat[q] = NoSock
    /\ runs[k].step \in {"pause", "backoff"} => controlWs = NoSock
    BY <1>2 DEF Phases
  <2>1. runs[k].step # "dial" /\ runs[k].step # "clean"
    BY <1>2 DEF DInv, Phases
  <2>2. ASSUME runs[k].step = "await"
        PROVE  /\ runs[k].on \in Sockets /\ controlWs \in {runs[k].on, NoSock}
               /\ \A t \in Sockets : /\ sock'[t].gap => t = runs[k].on
                                     /\ Tried(t)' => sock'[t].of = runs[k].on
                                     /\ Token(t)' => sock'[runs[k].on].near # "connecting"
               /\ \A q \in Rooms : seat[q] = NoSock
    <3>1. /\ runs[k].on \in Sockets /\ controlWs \in {runs[k].on, NoSock}
          /\ s = runs[k].on /\ sock[s].near # "connecting"
          /\ \A q \in Rooms : seat[q] = NoSock
      BY <1>2, <2>2 DEF DInv, Phases
    <3>2. \A t \in Sockets : /\ ~sock'[t].gap
                             /\ Tried(t)' => sock'[t].of = s
      BY <1>6, <1>8, <1>9 DEF Token
    <3>3. sock'[s].near # "connecting"
      BY <1>7, <3>1
    <3>4. \A t \in Sockets : /\ sock'[t].gap => t = runs[k].on
                             /\ Tried(t)' => sock'[t].of = runs[k].on
                             /\ Token(t)' => sock'[runs[k].on].near # "connecting"
      BY <3>1, <3>2, <3>3
    <3>5. /\ runs[k].on \in Sockets /\ controlWs \in {runs[k].on, NoSock}
          /\ \A q \in Rooms : seat[q] = NoSock
      BY <3>1
    <3> QED BY <3>4, <3>5
  <2>3. runs[k].step \in {"pause", "backoff"} => controlWs = NoSock
    BY DEF DInv, Phases
  <2> QED BY <2>1, <2>2, <2>3
<1>13. OneToken'
  BY <1>1, <1>2, <1>3, <1>9 DEF OneToken, Active
<1>14. OneControl'
  <2>1. \A t \in Sockets : (Control(t) /\ Alive(t))' => Control(t) /\ Alive(t)
    BY <1>8, <1>9 DEF Alive
  <2>2. controlWs \in Sockets \cup {NoSock} /\ (controlWs # NoSock => sock[controlWs].kind = "control")
    BY DEF TInv, Typed, Kinds
  <2>3. controlWs # NoSock => sock'[controlWs].near = sock[controlWs].near
    BY <1>4, <1>8, <2>2 DEF Blank
  <2> QED BY <1>2, <1>9, <2>1, <2>3 DEF DInv, OneControl
<1>15. ThisRoom'
  BY <1>2, <1>6, <1>8, <1>9 DEF DInv, ThisRoom
<1>16. MicOnlyInRoom' /\ OneSeat'
  BY <1>2 DEF DInv, MicOnlyInRoom, OneSeat
<1> QED
  BY <1>10, <1>11, <1>12, <1>13, <1>14, <1>15, <1>16 DEF DInv

\* The control socket opens: it is the one a run awaits.
LEMMA ControlOpensKeeps ==
  ASSUME TInv, DInv, NEW s \in Sockets, ControlOpens(s)
  PROVE  DInv'
<1>1. /\ sock[s].kind = "control" /\ sock[s].near = "connecting"
      /\ UNCHANGED <<page, runs, roomId, controlWs, audioWs, capturing, seat>>
      /\ sock' = [Opened(s) EXCEPT ![s].gap = TRUE]
  BY DEF ControlOpens, Starts, mixer
<1>2. s = controlWs /\ Live(s) /\ Control(s)
  BY <1>1, SocketAssumption DEF DInv, OneControl, Control, Alive, Live
<1>3. PICK k \in Runs : runs[k].step = "await" /\ runs[k].on = s
  BY <1>1, <1>2, SocketAssumption DEF DInv, OneControl
<1>4. /\ page # NoRoom /\ roomId = page /\ Active(k)
      /\ \A j \in Runs \ {k} : runs[j].step = "none"
  BY <1>3 DEF DInv, OneRun, Active, NoRun
<1>5. \A t \in Sockets : ~Token(t)
  BY <1>1, <1>3 DEF DInv, Phases
<1>6. /\ Opened(s) \in [Sockets -> SockType] /\ Opened(s)[s] \in SockType
      /\ \A t \in Sockets \ {s} : Opened(s)[t] = sock[t]
      /\ Opened(s)[s].near = "open" /\ Opened(s)[s].far = "open"
      /\ Opened(s)[s].kind = "control" /\ Opened(s)[s].mail = sock[s].mail
      /\ Opened(s)[s].ack = sock[s].ack
  <2>1. Typed
    BY DEF TInv
  <2> QED BY <1>1, <2>1, OpenedFields
<1>7. /\ \A t \in Sockets \ {s} : sock'[t] = sock[t]
      /\ sock'[s].near = "open" /\ sock'[s].kind = "control" /\ sock'[s].gap
      /\ sock'[s].mail = sock[s].mail /\ sock'[s].ack = sock[s].ack
  <2>1. sock'[s] = [Opened(s)[s] EXCEPT !.gap = TRUE] /\ \A t \in Sockets \ {s} : sock'[t] = Opened(s)[t]
    BY <1>1, <1>6
  <2> QED BY <1>6, <2>1 DEF SockType
<1>8. /\ \A t \in Sockets : Control(t)' = Control(t)
      /\ \A t \in Sockets : Live(t)' => Live(t)
      /\ \A t \in Sockets : Token(t)' => t = s
      /\ ~Tried(s)' /\ Token(s)'
  BY <1>1, <1>2, <1>5, <1>7 DEF Control, Live, Token, Tried
<1>9. OneRun'
  BY <1>1 DEF DInv, OneRun, Active
<1>10. \A t \in Sockets : sock'[t].mail = sock[t].mail /\ sock'[t].ack = sock[t].ack
  BY <1>7
<1>11. Silent'
  BY <1>1, <1>8, <1>10 DEF DInv, Silent, Active
<1>12. Phases'
  <2>1. \A q \in Rooms : seat[q] = NoSock
    BY <1>3 DEF DInv, Phases
  <2>2. \A t \in Sockets : ~Tried(t)'
    BY <1>8 DEF Token
  <2>3. \A t \in Sockets : sock'[t].gap => t = s
    BY <1>8 DEF Token
  <2> QED BY <1>1, <1>2, <1>3, <1>4, <1>7, <2>1, <2>2, <2>3 DEF Phases
<1>13. OneToken'
  BY <1>1, <1>4, <1>8 DEF OneToken, Active
<1>14. OneControl'
  <2>1. \A t \in Sockets : (Control(t) /\ Alive(t))' => t = s
    BY <1>1, <1>2, <1>7 DEF Control, Alive, DInv, OneControl
  <2> QED BY <1>1, <1>2, <1>7, <1>8, <2>1 DEF DInv, OneControl
<1>15. ThisRoom'
  BY <1>1, <1>8, <1>10 DEF DInv, ThisRoom
<1>16. MicOnlyInRoom' /\ OneSeat'
  BY <1>1 DEF DInv, MicOnlyInRoom, OneSeat
<1> QED
  BY <1>9, <1>11, <1>12, <1>13, <1>14, <1>15, <1>16 DEF DInv

\* MIXER_JOIN: nobody else has the seat.
LEMMA JoinKeeps ==
  ASSUME TInv, TInv', DInv, NEW s \in Sockets, Join(s)
  PROVE  DInv'
<1> DEFINE r == sock[s].mail
           old == seat[r]
<1>1. /\ sock[s].kind = "control" /\ r # NoRoom /\ r \in Rooms
      /\ sock[s].far = "open" /\ sock[s] \in SockType
  BY ZenonT(30) DEF Join, TInv, Typed, Kinds, SockType
<1>2. /\ page # NoRoom /\ page = roomId /\ r = roomId
      /\ \A k \in Runs : ~Active(k) /\ runs[k] = NoRun /\ runs[k].step # "clean"
  <2>1. /\ page # NoRoom /\ page = roomId /\ r = roomId
        /\ \A k \in Runs : ~Active(k) /\ runs[k] = NoRun
    BY <1>1 DEF DInv, ThisRoom, OneRun, Silent, Control
  <2> QED BY <2>1 DEF Active
<1>3. old \in {s, NoSock}
  <2>1. old # NoSock => old \in Sockets /\ Live(old)
    BY <1>1 DEF TInv, Typed, Kinds, Live, Control
  <2>2. Live(s)
    BY <1>1 DEF Live, Control
  <2> QED BY <2>1, <2>2 DEF DInv, OneControl
<1>4. UNCHANGED <<page, runs, roomId, controlWs, audioWs, capturing>>
  BY <1>3 DEF Join
<1>5. /\ sock'[s] = [sock[s] EXCEPT !.mail = NoRoom, !.ack = (sock[s].near = "open")]
      /\ \A t \in Sockets \ {s} : sock'[t] = sock[t]
  BY <1>3, SocketAssumption, JoinSockets, ZenonT(30)
<1>6. /\ sock'[s].kind = "control" /\ sock'[s].near = sock[s].near
      /\ sock'[s].far = "open" /\ sock'[s].mail = NoRoom /\ sock'[s].gap = sock[s].gap
  BY <1>1, <1>5 DEF SockType
<1>7. \A q \in Rooms : seat'[q] = IF q = r THEN s ELSE seat[q]
  BY <1>1 DEF Join, TInv, Typed
<1> HIDE DEF r, old
<1>8. \A t \in Sockets : /\ Control(t)' = Control(t) /\ Live(t)' = Live(t)
                         /\ sock'[t].mail \in {sock[t].mail, NoRoom}
                         /\ sock'[t].near = sock[t].near
  BY <1>1, <1>5, <1>6, ZenonT(30) DEF Control, Live
<1>9. \A t \in Sockets : ~Token(t)'
  <2>1. \A t \in Sockets : ~Token(t)
    BY <1>2 DEF DInv, OneToken
  <2> QED BY <1>5, <1>6, <2>1 DEF Token, Tried
<1>10. OneRun' /\ Silent' /\ Phases'
  BY <1>2, <1>4 DEF OneRun, Silent, Phases, Active, NoRun
<1>11. OneToken'
  BY <1>9 DEF OneToken
<1>12. OneControl'
  <2>1. \A t \in Sockets : Alive(t)' = Alive(t)
    BY <1>8 DEF Alive
  <2>2. controlWs # NoSock => sock'[controlWs].near = sock[controlWs].near
    BY <1>8 DEF TInv, Typed
  <2> QED BY <1>4, <1>8, <2>1, <2>2 DEF DInv, OneControl
<1>13. \A q \in Rooms : seat'[q] # NoSock => q = roomId
  BY <1>2, <1>7 DEF DInv, ThisRoom
<1>14. ThisRoom'
  BY <1>2, <1>4, <1>8, <1>13 DEF DInv, ThisRoom
<1>15. MicOnlyInRoom' /\ OneSeat'
  BY <1>4, <1>13 DEF DInv, MicOnlyInRoom, OneSeat
<1> QED
  BY <1>10, <1>11, <1>12, <1>14, <1>15 DEF DInv

\* MIXER_JOIN_ACK: no run is under way, the room is the one shown.
LEMMA AcknowledgedKeeps ==
  ASSUME TInv, DInv, NEW s \in Sockets, Acknowledged(s)
  PROVE  DInv'
<1>1. /\ sock[s].ack /\ sock' = [sock EXCEPT ![s] = [sock[s] EXCEPT !.ack = FALSE]]
      /\ UNCHANGED <<page, runs, roomId, controlWs, audioWs, seat>>
  BY DEF Acknowledged, mixer, TInv, Typed
<1>2. page # NoRoom /\ page = roomId /\ \A k \in Runs : ~Active(k)
  BY <1>1 DEF DInv, ThisRoom, Silent
<1>3. \A t \in Sockets :
        /\ sock'[t].kind = sock[t].kind /\ sock'[t].near = sock[t].near
        /\ sock'[t].far = sock[t].far /\ sock'[t].of = sock[t].of
        /\ sock'[t].gap = sock[t].gap /\ sock'[t].mail = sock[t].mail
  <2>1. sock \in [Sockets -> SockType] /\ sock[s] \in SockType
    BY DEF TInv, Typed
  <2>2. sock'[s] = [sock[s] EXCEPT !.ack = FALSE] /\ \A t \in Sockets \ {s} : sock'[t] = sock[t]
    BY <1>1, <2>1
  <2> QED BY <2>1, <2>2 DEF SockType
<1>4. \A t \in Sockets : /\ Control(t)' = Control(t) /\ Live(t)' = Live(t)
                         /\ Alive(t)' = Alive(t) /\ Token(t)' = Token(t)
  BY <1>3 DEF Control, Live, Alive, Token, Tried
<1>5. OneRun' /\ Silent' /\ Phases'
  BY <1>1, <1>2 DEF DInv, OneRun, Silent, Phases, Active
<1>6. OneToken'
  BY <1>2, <1>4 DEF DInv, OneToken
<1>7. OneControl'
  <2>1. controlWs # NoSock => sock'[controlWs].near = sock[controlWs].near
    BY <1>3 DEF TInv, Typed
  <2> QED BY <1>1, <1>4, <2>1 DEF DInv, OneControl
<1>8. ThisRoom'
  BY <1>1, <1>2, <1>3, <1>4 DEF DInv, ThisRoom
<1>9. MicOnlyInRoom' /\ OneSeat'
  BY <1>1, <1>2 DEF DInv, MicOnlyInRoom, OneSeat
<1> QED
  BY <1>5, <1>6, <1>7, <1>8, <1>9 DEF DInv

LEMMA DInvInit == Init => DInv
<1> SUFFICES ASSUME Init PROVE DInv
  OBVIOUS
<1>1. \A k \in Runs : runs[k] = NoRun /\ ~Active(k) /\ runs[k].step = "none"
  BY DEF Init, NoRun, Active
<1>2. \A s \in Sockets :
        /\ ~sock[s].ack /\ ~sock[s].gap /\ sock[s].kind = "none"
        /\ ~Token(s) /\ ~Control(s) /\ ~Live(s)
  BY DEF Init, Blank, Token, Tried, Control, Live
<1>3. OneRun /\ Silent /\ Phases
  BY <1>1 DEF OneRun, Silent, Phases
<1>4. OneToken /\ OneControl /\ ThisRoom
  BY <1>2 DEF Init, OneToken, OneControl, ThisRoom
<1>5. MicOnlyInRoom /\ OneSeat
  BY DEF Init, MicOnlyInRoom, OneSeat
<1> QED
  BY <1>3, <1>4, <1>5 DEF DInv

LEMMA DInvStep ==
  ASSUME Waits, Prompt
  PROVE  TInv /\ DInv /\ [Next]_vars => DInv'
<1> SUFFICES ASSUME TInv, DInv, [Next]_vars PROVE DInv'
  OBVIOUS
<1>0. TInv'
  BY TypedStep
<1>1. ASSUME NEW k \in Runs, Step(k) \/ \E r \in Rooms : Enter(k, r) PROVE DInv'
  BY <1>0, <1>1, DialKeeps, OpenControlKeeps, RetryKeeps, EnterKeeps DEF Step
<1>2. ASSUME NEW s \in Sockets, Socket(s) PROVE DInv'
  <2>1. CASE ControlOpens(s)
    BY <2>1, ControlOpensKeeps
  <2>2. CASE OpenAudio(s)
    BY <2>2, OpenAudioKeeps
  <2>3. CASE AudioOpens(s)
    BY <1>0, <2>3, AudioOpensKeeps
  <2>4. CASE AudioReopens(s)
    BY <1>0, <2>4, AudioOpensFades, FadesKeeps DEF AudioReopens
  <2>5. CASE NearCloses(s)
    BY <1>0, <2>5, NearEndsFades, FadesKeeps DEF NearCloses
  <2>6. CASE FarCloses(s)
    BY <1>0, <2>6, FarEndsFades, FadesKeeps DEF FarCloses
  <2> QED BY <1>2, <2>1, <2>2, <2>3, <2>4, <2>5, <2>6 DEF Socket
<1>3. ASSUME NEW s \in Sockets, Carry(s) PROVE DInv'
  BY <1>0, <1>3, JoinKeeps, AcknowledgedKeeps, CarryFades, FadesKeeps DEF Carry
<1>4. ASSUME NEW s \in Sockets, Lost(s) \/ Drop(s) PROVE DInv'
  BY <1>0, <1>4, NearEndsFades, FarEndsFades, FadesKeeps DEF Lost, Drop
<1>5. CASE Leave \/ Reopens \/ Frame
  BY <1>0, <1>5, LeaveKeeps, FreshFades, CarryFades, FadesKeeps
<1>6. CASE UNCHANGED vars
  <2>1. Fades
    BY <1>6 DEF Fades, vars, service, mixer, Control, Tried
  <2> QED BY <1>0, <2>1, FadesKeeps
<1> QED
  BY <1>1, <1>2, <1>3, <1>4, <1>5, <1>6 DEF Next

LEMMA DInvAlways ==
  ASSUME Waits, Prompt
  PROVE  Spec => [](TInv /\ DInv)
<1>1. TInv /\ DInv /\ [Next]_vars => TInv' /\ DInv'
  BY TypedStep, DInvStep
<1> QED
  BY <1>1, TypedInit, DInvInit, PTL DEF Spec

\* The microphone of a user who waits to be connected is captured only while the
\* room it is mixed in is shown, whatever breaks and however often it is dialled.
THEOREM MicStaysInRoom ==
  ASSUME Waits, Prompt
  PROVE  Spec => []MicOnlyInRoom
<1>1. TInv /\ DInv => MicOnlyInRoom
  BY DEF DInv
<1> QED
  BY <1>1, DInvAlways, PTL

\* Such a user never has two seats at the mixer, although MIXER_LEAVE is never
\* sent and control sockets come and go.
THEOREM OneSeatAlways ==
  ASSUME Waits, Prompt
  PROVE  Spec => []OneSeat
<1>1. TInv /\ DInv => OneSeat
  BY DEF DInv
<1> QED
  BY <1>1, DInvAlways, PTL

\* What such a user says is mixed in no room but the one shown, although the mixer
\* goes by an index that ends of older connections erase.
THEOREM MixedInRoomShown ==
  ASSUME Waits, Prompt
  PROVE  Spec => []MixedWhereShown
<1>1. TInv /\ DInv => MixedWhereShown
  <2> SUFFICES ASSUME TInv, DInv, capturing, index # NoRoom, seat[index] # NoSock
               PROVE  index = page
    BY DEF MixedWhereShown
  <2>1. page = roomId /\ \A k \in Runs : ~Active(k)
    BY DEF DInv, MicOnlyInRoom, Silent
  <2>2. index \in Rooms
    BY DEF TInv, Typed
  <2>3. \A k \in Runs : runs[k].step # "clean"
    BY <2>1 DEF Active
  <2> QED BY <2>1, <2>2, <2>3 DEF DInv, ThisRoom
<1> QED
  BY <1>1, DInvAlways, PTL
=============================================================================
