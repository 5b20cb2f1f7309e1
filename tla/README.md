# Tonel in TLA+

Tonel is a real-time rehearsal room: clients (web, macOS, Windows) meet in rooms through a
signaling server and play together through a mixer server that returns to each of them the mix of
the others. This directory models the two servers, the recorder and the web client on its two ways to
them (signaling and audio, proxies included), checks the models with TLC on small instances and proves with
TLAPS, for instances of any size, every safety property those runs check: the invariants and the action
property, and that both servers and the recorder implement their specifications. Liveness is checked by TLC.

## 1. The system

`server/src/main.cpp` starts the signaling server (TCP 9001, UDP 9001 for address discovery) and the
mixer server (a TCP port for control, a UDP port for audio) on **one libuv loop**. Every callback runs to
completion, so inside the servers a callback is atomic; what interleaves is the *order* of callbacks
of different connections, timers, and the deferred close callbacks of `uv_close`. Outside, browsers
reach the servers through Node proxies (`web/ws-proxy.js`, `web/ws-mixer-proxy.js`) or a Go
WebTransport proxy; native clients open sockets of their own, or talk peer to peer.

| component | state | operations | hard part | what makes it correct |
|---|---|---|---|---|
| signaling server (`signaling_server`, `user`, `room`) | contexts with `user_id`/`displaced`; `user_id_to_ctx_`; `users_`; rooms with members, password, `empty_since_` | CREATE/JOIN/LEAVE_ROOM, LIST_ROOMS, HEARTBEAT, REGISTER_AUDIO_ADDR, connection open/close, heartbeat sweep, reaper, DISCOVER | three tables that point at each other, updated by different handlers; a close callback that runs after a newer session exists | the tables agree and never dangle; a live session keeps its seat; no ghost member; clients' peer lists equal the membership; silent sessions and empty rooms end |
| mixer server, rooms (`mixer_server`) | rooms of `UserEndpoint`s with `tcp_client`; `user_room_index_`; recorders; tracks | MIXER_JOIN/LEAVE, MIXER_TUNE, PEER_GAIN, PING, audio datagrams, mixing timer, connection end | control and audio travel separately and late; a takeover closes a connection without the usual cleanup; the index knows one room per user | no endpoint names a closed connection; a live session is heard in its room; nothing of a departed user is queued, mixed or recorded |
| mixer server, one voice (`UserEndpoint`, `audio_mixer.h`) | jitter queue, primed flag, two knobs; previous frame and decay count | enqueue, tick, tune, replace | bursts, loss, knobs turned on a full queue | newest frames, bounded delay, bounded replay, a stream that keeps coming is heard |
| audio recorder (`AudioRecorder.cpp`) | recorder per room: `recording_`, buffer, byte count, file | start, write with flushes, stop and finalize | a failing open, write or finalize midway; the end of the process; sizes counted in two places | nothing mixed is lost, doubled or reordered; the two sizes in a finished file's header are the file's; memory stays bounded |
| `ws-mixer-proxy.js`, `wt-mixer-proxy/main.go` | uid → socket map | register, relay, close | close of an old socket after the new one registered | the mix reaches the user's latest socket |
| `ws-proxy.js` | pairs of sockets, pending messages | bridge, close | a close in every state of the other side | both ends end together, no message reordered |
| web signaling client (`signalService.ts`, `useSignal.ts`, `App.tsx`) | socket, reconnect timer, heartbeat timer, room to replay, pending request, `sessionReplaced`; page and peer list | connect, request, reconnect, replay, leave, SESSION_REPLACED | handlers of a former socket run next to those of the present one; a replay races SESSION_REPLACED and leaves the password out; late answers | it is in the room it shows, with the peers it shows; it never displaces itself; nobody stays behind in a room no tab is in |
| web audio service (`audioService.ts`, `RoomPage.tsx`) | control and audio WebSocket, timers, `capturing`; the `runInit` loop; audio graph | connectMixer with its attempts, reopen of the audio socket, start and stop of the capture | awaits outlive the page; sockets outlive the room; each handler touches the one capture | the microphone is heard in the room shown and nowhere else; who dials hears the room in the end |
| macOS and Windows clients | the same in Swift and C#, one fresh TCP connection per room; peer-to-peer transport; client jitter buffer | | hole punching, addresses of departed peers | |
| user service | SQLite users and tokens | WeChat callback, verify, profile | find-or-create of two logins | one account per WeChat id |
| password hasher, configuration, UI, deployment scripts, tests, miniaudio (vendored) | – | – | – | not modelled |

`PROJECT.json` lists them all with their status, and under `hazards` where the code is hard to test.

### How they interact

The client JOINs a room at the signaling server, then opens a mixer control connection, sends
MIXER_JOIN, and streams SPA1 datagrams whose user field is `room:user`. The two servers share **no**
state: a user may have a seat in one and none in the other. Each has its own takeover: a second
session of a user closes the first one with a best-effort SESSION_REPLACED.

## 2. Modules

| module | models | role |
|---|---|---|
| `SessionRegistry` | what both servers promise about sessions | abstract specification: one holder and one room per user; a session starts, is replaced, ends |
| `SignalingServer` | `signaling_server.cpp`, `user.cpp`, `room.cpp` | state machine, safety properties, refinement of `SessionRegistry` |
| `SignalingPeers` | `useSignal.ts` on top of the server | composition: each step of the server with the reaction of the clients' reducers to the frames it wrote |
| `SignalingTiming` | the server's timers against the clients' heartbeat timers | composition with a clock, fairness, liveness |
| `MixerServer` | rooms, control connections, routing of audio, recording flags | state machine, safety properties, refinement of `SessionRegistry` |
| `MixerJitter` | one user's queue, knobs and packet-loss concealment | state machine, safety and liveness |
| `PeerList` | the reducer of `useSignal.ts` | one operator, used by both modules with clients |
| `WebClient` | browser tabs: `signalService.ts`, `useSignal.ts`, `App.tsx`, on top of `SignalingServer` | composition: every step of a tab carries out what the server does with its message; faults; fairness, liveness |
| `WebAudio` | `RoomPage.tsx`'s `runInit`, `audioService.ts`'s sockets, `ws-mixer-proxy.js`'s `wsByUid`, the mixer's seat, index and return address of that user | composition of four programs; faults; fairness, liveness |
| `Tape` | what recording a room promises | abstract specification |
| `Recorder` | `AudioRecorder.cpp` as the mixer drives it | state machine, safety properties, refinement of `Tape` |
| `SignalingServer_proofs`, `SignalingTiming_proofs`, `SignalingPeers_proofs`, `WebClient_proofs` | | theorems; the last three build on the first |
| `MixerServer_proofs`, `MixerJitter_proofs`, `WebAudio_proofs`, `Recorder_proofs` | | theorems |
| `MC...` | | values and symmetry sets for TLC |

State and actions carry the source's names. `SignalingServer`: `st`/`uid`/`displaced` are a
`ClientContext`, `ctxOf` is `user_id_to_ctx_`, `client` and `age` are `UserManager::users_`,
`rooms`/`members`/`pwd`/`idle` are `RoomManager`; `CreateRoom`, `JoinRoom`, `LeaveRoom`, `Heartbeat`,
`ListRooms`, `Connect`, `Hangup`, `OnClose`, `CheckTimeouts`, `ReapIdleRooms` are the handlers. `at`,
`asked` are what the client at the other end knows, `out` the frames a step writes. `MixerServer`:
`ctl[r][u]` is `rooms_[r]->users[u].tcp_client`, `index` is `user_room_index_`, `takes` the recorders,
`queued`/`tracks` who has frames waiting or a `Track`; `seat` and `voice` are the clients': the seat a connection
joined last, and all the identities its datagrams carry; `MixerJoin`, `MixerLeave`, `Hangup`
(`clear_tcp_client`), `Audio`, `MixTick`. `MixerJitter`: `queue`, `primed`, `target`, `cap` are the
`jitter_*` fields, `prev` and `decay` a `Track`.

`WebClient` has the variables of `SignalingServer` and, per tab, `ws`, `timer` (`reconnectTimer`),
`beats` (`heartbeatTimer`), `roomId`, `request` (the promise of `sendAndWait` or `ensureConnected`),
`replaced` (`sessionReplaced`), `page`, `held` (App's own `roomId`, the room the page was given) and `peers`; per socket, the tab whose handlers it has (`far`), its
`readyState` (`near`) and the frames on their way (`inbox`, one set per write of the server). `Opened`,
`Receive`, `Closed` are `onopen`, `onmessage`, `onclose`; a socket's two ends learn of its end in separate
steps. `WebAudio` has one record per WebSocket (`kind`, both ends, the attempt it belongs to, the message
and the MIXER_JOIN_ACK on their way) and one per `runInit` loop, whose `step` is the await it is at: every
stretch of code between two awaits is one action. `Recorder` has `rec` (an `AudioRecorder`), `disk` (what
`fwrite` accepted, the two sizes in the header, each modulo `SizeMod`, the width of its field), `errno`, the clock in seconds; a sample is the number of the
block it was mixed in, so that lost, doubled and reordered samples show.

A connection is the *address* of its context: "free" memory may be handed to the next connection,
so a pointer that was not erased in time finds a stranger there. `Restart` (a crash or a deployment) clears
everything a server keeps. Operators named `Mut...` are a definition next to them with a plausible
bug; they are no part of the models and show that each property notices its bug.

### Disciplines of the clients

What the servers guarantee depends on how clients behave. The dependence is explicit: a Boolean
constant guards the client's action.

| constant | means | kept by | broken by |
|---|---|---|---|
| `OneUser` | a signaling connection speaks for one user | native clients | the web client: log out and in on a live connection |
| `OneRoom` (signaling) | a user has left a room before it enters another | native clients (a fresh connection per room) and a web client that waits for LEAVE_ROOM_ACK | two tabs of one user |
| `SoleCreate` | CREATE_ROOM only while no other session of the user exists | native clients: they only JOIN | the web client with a second tab, or with its old socket not yet closed |
| `OneRoom` (mixer) | the server has seen a user leave one room before it joins the next | clients in the usual order of packets | the order of two TCP connections: LEAVE or FIN of the old one may be read after JOIN on the new one, a lost connection much later; the web client sends no MIXER_LEAVE at all (section 5) |
| `OwnSeat` (mixer) | a control connection sends one MIXER_JOIN, and MIXER_LEAVE only of the seat it has | every client and proxy of the repository: each opens a connection per room | nothing in the server: it takes any number of joins, of other rooms and users, and a leave of anybody's seat (section 5) |
| `KnobsOrdered` | nobody sets the cap below the target | defaults (8 ≤ 124) | the debug panel's independent sliders (section 5) |
| `Patient` (`WebClient`) | the user asks for a room, or closes the takeover notice, only when no former socket is closing and no reconnect is pending | a user who waits 3 s | a user who does not (`Web_self`) |
| `Waits` (`WebAudio`) | the user leaves a room only when the page is connected to the mixer | most users | a user who leaves at once (`Path_leave`) |
| `Prompt` (`WebAudio`) | both ends of a WebSocket have learnt of its end before the next is opened | a network without loss: `connectMixerOnce` waits 100 ms after `close()` | a connection that breaks silently |
| `Mic` (`WebAudio`) | the microphone was granted | | a user who denies it (section 5) |

`WebAudio`'s property `OneSeat` is where `OneRoom` of the mixer comes from: although the web client sends
no MIXER_LEAVE, with `Prompt` and `Waits` its old seat is gone before it joins again. In the runs of `WebClient`,
`SoleCreate` is on (`Signaling_create` is what happens without it); `OneRoom` is on in `Web` and restricts nothing
there, since there is one room, in which two tabs of one user meet (section 5 says what two rooms add).

## 3. Runs

| run | shows | instance |
|---|---|---|
| `Signaling` | `TypeOK`, `TablesAgree`, `NoDanglingCtx`, `SeatKept`, `MemberHasSession`, `PeersAgree`, refinement `RegistrySpec` | 3 connections, 2 users, 2 rooms, 1 password, all disciplines |
| `Timing` | `BeatingSurvives`, `SilentSeatGivenUp`, `EmptyRoomReaped` | 2 connections of 1 user (one punctual), 1 room; timeout 3, heartbeat 1, idle limit 2 ticks |
| `Signaling_create` ✗ | `CloseSparesSessions` | 2 connections, 1 user |
| `Mixer` | `TypeOK`, `NoDanglingTcp`, `SeatHeard`, `NoGhostVoice`, `RecordingFollowsUsers`, refinement `RegistrySpec` | 3 connections, 2 users, 2 rooms, `OneRoom`, `OwnSeat` |
| `Jitter` | `TypeOK`, `QueueIsNewest`, `LatencyBounded`, `RepeatBounded`, liveness `StreamHeard` | target 1..2, cap 1..3, 2 replays, frames modulo 4, 2 tunes and 2 rejoins per stay |
| `Web` | `WTypeOK`, `ReplacedByOther`, `HeartbeatRuns`, `NoMissingPeer`, liveness `Rejoined`, `NoGhost`, `TugEnds` | 2 tabs of one user or of two, 3 sockets, 1 room, 1 password, 2 requests, 1 fault, `Patient` |
| `Web_self` ✗ | `ReplacedByOther` | 1 tab whose user is not `Patient`, 2 requests, 1 fault |
| `Web_timeout` ✗ | `HomeIsOut` | 1 tab, 1 request, 1 fault |
| `Path` | `TypeOK`, `MicOnlyInRoom`, `MixedWhereShown`, `OneSeat`, liveness `Connects` | 4 sockets, 2 rooms, 2 attempts per dial, 2 visits, 2 faults, `Waits`, `Prompt`, `Mic` |
| `Path_leave` ✗ | `SilentAfterLeave` | 1 visit, no fault, not `Waits` |
| `Path_ws` ✗ | `EntryKept` | as `Path` |
| `Recorder` | `TypeOK`, `HeaderHonest`, `BufferBounded`, refinement `TapeSpec` | 7 blocks, a flush every 3 blocks, 3 seconds, 2 faults, size fields of 24 values |

✗ marks a run that TLC refutes: the property is what the repository says, the counterexample what the
code does (section 5).

**Why the bounds are enough.** Every race in the servers is between the connections of *one* user: an
old one that is closing, a current one, and one that takes over while the old close callback is still
pending. That needs three connections; a context address that is reused is among them. The second
user is the witness: it must not lose its seat, its peer list or its room when the first one moves,
and the last-one-out paths (empty room, recording stop) need both a room with company and one
without. Two rooms are what `OneRoom` and the routing index are about. In `Timing` the timeout is
three heartbeat periods, so that a heartbeat can be early, late or missing before it is due; in
`Jitter` the cap is above the target and frames are counted modulo one more than the cap, enough to
tell neighbours in the queue apart; 0 and max+1 exercise the clamps. Symmetry is used only in runs
without liveness; `RegistrySpec` is a safety property, and no definition distinguishes the members of
the symmetric sets.

In `Web` a tab needs two sockets at a time for its former and its present one, and the second tab one: three
sockets are enough for every overlap a `Patient` user can meet; a lost SESSION_REPLACED, a drop seen first by
either end, a restart of the server and a request that times out each count as the one fault, and each is
followed by everything the code does by itself. Two requests are one for each tab, or two of one tab, which
may go home by the leave button, the back button or the menu, and come back, in between. Both logins (one user in
two tabs, two users) are initial states. In `Path` an attempt has two sockets, and two more are the reopened audio socket and the control socket of the next attempt;
two faults are one to break a connection and one to break its repair; two rooms and two visits are the
change of rooms. In `Recorder` a block is two samples, four bytes, and the threshold six samples, so that a take ends just before, at and just after a flush; a take of seven blocks has two flushes and a rest; three seconds
give two takes of their own and one that overwrites another. `SizeMod` stands for 2^32: with 24 a size field
holds takes of five blocks, whose header must be right, and wraps for longer ones.

**Fairness.** `SignalingTiming`: libuv runs all pending close callbacks in each loop iteration (weak
fairness of `OnClose`, and `[]<>Settled`); timers, the clock and the reaper fire whenever they are due
at a point with no close pending, which recurs but need not persist, hence strong fairness. Only
connections in `Punctual` owe heartbeats; the others may be silent for ever. `MixerJitter`: the mixing
timer re-arms itself at the end of every tick (`WF(MixTick)`); a client in a room keeps sending and not
every datagram is lost (`WF(Packet)`). `WebClient`: the event loops of browser and server run the
events of a socket that are due (`WF(Socket(c))`), and a tab's timer and resolved promises run
(`WF(Reconnect(t) \/ Continue(t))`). `WebAudio`: the same per socket, per `runInit` loop (`Step(k)`) and for
messages that are on their way (`Carry(s)`, TCP), for the reopen timer and for captured frames. Users, faults
and the 8 s timeout of an answer owe nothing, and faults are finitely many by their bound. Nothing is
assumed of the safety runs.

## 4. Theorems

TLAPS proves, for any number of connections, users, rooms, tabs, sockets and any values of the limits:

| theorem | statement | assumption |
|---|---|---|
| `SignalingServer_proofs!TypeCorrect` | `Spec => []TypeOK` | – |
| `!TablesAlwaysAgree` | `[]TablesAgree` | – |
| `!NeverDangling` | `[]NoDanglingCtx` | no id needs escaping, `OneUser` |
| `!SeatsAreKept` | `[]SeatKept` | no id needs escaping, `OneUser`, `SoleCreate` |
| `!NoGhostMembers` | `[]MemberHasSession` | no id needs escaping, `OneUser`, `OneRoom` |
| `!ImplementsRegistry` | `Spec => RegistrySpec`, the refinement | no id needs escaping, `OneUser`, `OneRoom`, `SoleCreate` |
| `SignalingTiming_proofs!BeatingAlwaysSurvives` | `TSpec => BeatingSurvives`, an action property | no id needs escaping, `OneUser` |
| `SignalingPeers_proofs!PeersAlwaysAgree` | `PSpec => []PeersAgree` | no id needs escaping, `OneUser`, `OneRoom`, `SoleCreate` |
| `WebClient_proofs!TabsTypeCorrect` | `WSpec => []WTypeOK` | – |
| `!HeartbeatsRun` | `[]HeartbeatRuns` | `Patient` |
| `!OnlyOthersReplace` | `[]ReplacedByOther` | no id needs escaping, `OneUser`, `Patient` |
| `!NoPeerMissed` | `[]NoMissingPeer` | no id needs escaping, `OneUser`, `OneRoom`, `SoleCreate`, `Patient` |
| `MixerServer_proofs!TypeCorrect` | `[]TypeOK` | – |
| `!NeverDangling` | `[]NoDanglingTcp` | `OwnSeat` |
| `!NothingOutlivesUsers` | `[]NoGhostVoice` | – |
| `!RecordingsEnd` | `[]RecordingFollowsUsers` | – |
| `!SeatsAreHeard` | `[]SeatHeard` | `OneRoom`, `OwnSeat` |
| `!ImplementsRegistry` | `Spec => RegistrySpec`, the refinement | `OneRoom`, `OwnSeat` |
| `MixerJitter_proofs!TypeCorrect` | `[]TypeOK` | – |
| `!NewestQueued` | `[]QueueIsNewest` | – |
| `!NewestWithinCap` | `[]LatencyBounded` | – |
| `!ReplaysBounded` | `[]RepeatBounded` | – |
| `WebAudio_proofs!TypeCorrect` | `[]TypeOK` | – |
| `!MicStaysInRoom` | `[]MicOnlyInRoom` | `Waits`, `Prompt` |
| `!OneSeatAlways` | `[]OneSeat` | `Waits`, `Prompt` |
| `!MixedInRoomShown` | `[]MixedWhereShown` | `Waits`, `Prompt` |
| `Recorder_proofs!TypeCorrect` | `[]TypeOK` | – |
| `!HeadersAreHonest` | `[]HeaderHonest`: `data_size` of the takes the field holds | – |
| `!MemoryIsBounded` | `[]BufferBounded` | – |
| `!ImplementsTape` | `Spec => TapeSpec`, the refinement | – |

The assumptions on constants are the named ASSUMEs of the modules (the "not there" values are not
members, `Escape` leaves an id alone or yields one no client uses, limits are naturals, there is a socket for
each tab, an attempt is made at least once). The disciplines are hypotheses, each where the table of section 2 says
who keeps it, and the runs check the same properties under the same hypotheses. None of the theorems uses a
bound of TLC's: the number of faults, requests and visits is arbitrary.

**The arguments.**

*Signaling.* `TablesAgree` is inductive by itself: a handler that writes `client` writes `ctxOf` too, or
only erases from `client`. `NoDanglingCtx` is not: after `JoinRoom` has displaced a connection its
context lives on until `OnClose`, and must by then be named by nobody. `Danglers` adds that a
displaced context is closing, so that `Connect` never revives one. `SeatKept` needs, in
`SeatInv`, that a context which was not displaced is the one `ctxOf` names for its user (`Owner`) and,
while it is open, the one `client` names (`OwnerKnown`), that a seat goes with a user and a room which
has that user (`SeatTaken`), and that free contexts are blank (`Blank`): then the one close callback
that cascades for a user is the one of its current session, and no close of a displaced context
touches it.

*Ghosts and the registry.* That a member has a session is not inductive: LEAVE_ROOM leaves only the room it
names and then forgets the user, so a connection that is in two rooms would leave a ghost in one. `Covered` says
that each member is covered by a connection that asked for *that* room last (`Covers`); `OneRoom` is what a new
entry needs, and `SoleCreate` is not needed, since a session which a CREATE_ROOM did not displace covers nobody
else. With `SeatInv` the cover is the one session `ctxOf` names; then LEAVE_ROOM and the cascading close both end
*every* membership, which is what `End` of `SessionRegistry` asks. `holder` is `ctxOf`, a user's rooms are those that list it:
CREATE_ROOM and JOIN_ROOM are `Take` (refused) or `Enter`, a leave and a cascading close are `End`, a restart is
`Reset`, all else stutters, the sweep too, for it touches only `client`.

*Heartbeats.* `Counted`: as long as a punctual connection that has beaten is bound, the age of its user is at most the time it
has been silent, which is at most one period. `Beat` resets both, a tick adds one to each, a takeover
clears `beaten`. `OneUser` is what makes the user of a handle the one the heartbeat is for (`HandleOfOne`).

*Peer lists.* `PeersAgree` speaks of clients with a seat; a client that took a session over and was denied the
room hears of that room as well, so the invariant adds `Heard`: whatever a list names is another member of the
room asked for. `Served` collects what the proofs need of the server: `SeatInv`, `Covered`, `TablesAgree`, and that
the room a user is in is the one it asked for. A few lemmas say what the reducer `Shown` does with the set of frames each
handler writes; `HearsMembers` says that a broadcast reaches exactly the open connections of the members.

*Web tabs.* `TabInv` holds without any discipline: a room that is shown is the one the page was given, and nothing is
asked meanwhile (`Screens`), a socket's end is open if and only if a tab listens (`Sockets`), a tab that remembers a room has asked
for one (`Login`). From it, every step of the tabs is one of the server or none (`WNextIsServerStep`), so the server's
lemmas apply to it unchanged. `Lone`, for patient users, is one socket per tab, with which the shared heartbeat timer and
the pending request agree. `ReplacedByOther` is carried by `Explained`: every SESSION_REPLACED still in a mailbox can be
explained by another tab; only JOIN_ROOM writes one, to the connection `ctxOf` names, which is signed by its user
(`Signed`) and not the joining tab's own, as that has one socket. For `NoMissingPeer` the list *and* the mailbox
count: `Reaches(list, box, v)` says that v is listed, or will be by some frame to come, and that no later frame takes it off.
`Named` is the server's side: whoever is a member with x after a step is named in what x was sent, or was a
member before and was not taken off. `Informed` says that each seat's tab remembers its room and reaches
every other member; the one step that would break it, a tab that forgets the room and keeps the seat, is excluded
because leaving on an open socket always carries out LEAVE_ROOM (`AwayIsGone`).

*Mixer.* Two layers. `Base`, without any discipline, joins `TypeOK`, `NoGhostVoice` and `RecordingFollowsUsers`;
nothing is queued or mixed of a departed user because `Routed` asks the endpoint table, not only the index. It
says nothing of where an endpoint points. `Inv`, with `OwnSeat`, adds `SeatVoiced` and `Seated`: an endpoint names
an open connection whose *one* seat it is. That gives `NoDanglingTcp`, although a takeover skips `clear_tcp_client`:
the endpoint is overwritten in the same callback, and the connection that is closed is named by no other. A connection
that has joined twice is named by two endpoints, and only one of them is overwritten: `OwnSeat` is needed, the server
does not enforce it, and without it TLC shows the pointer that is left (section 5). `SeatHeard` is inductive under `OneRoom`
as well, and only under it (section 5). The refinement of
`SessionRegistry` maps the holder of a user to the connection of its endpoint in the room the index names; a takeover
that closes the old connection and overwrites its entry in one callback is a single `Enter`, and `SeatHeard` makes every
eviction the end of that one seat.

*Jitter.* The queue is a contiguous run of arrivals ending at the last one. `Append` of the next
arrival, `Tail` and dropping from the front all preserve that, which three lemmas on sequences
say (`Newest` in particular). `ReplaysCounted` ties `run`, which no code has, to `decay`, which the
code has: `run <= decay + 1`.

*Audio of a web user.* Two layers. `TInv` needs no discipline: kinds and ends of sockets, the uid map and the seats
name sockets that are alive, a control socket is for one room (`OneRoomEach`). `DInv`, for a user who waits and sockets whose
ends are told in time, is about who may act: at most one `runInit` loop, of the room shown (`OneRun`), captures
nothing while it runs (`Silent`), knows at each of its awaits which sockets are left (`Phases`); at most one of the gap
between the two sockets and the opening audio socket can complete its attempt (`OneToken`); the proxy serves one control
socket (`OneControl`); joins on their way, answers and seats are of the room dialled last (`ThisRoom`). The properties are conjuncts of it, or
follow. Trying to prove it showed two places where the model was loose, now as in the code: the
mixer's takeover ends the old connection with what was still unread on it, and the attempt counter
counts the attempt that fails.

*Recorder.* The header has two sizes, each of them a `uint32_t`. `HeaderHonest` is about `data_size`: of a
finished take that no fault hit it is the size of the data, if the field can hold it (`Raw(t) < SizeMod`); of a longer
take (`SizeTold`) and of `file_size` (`RiffTold`) nothing is claimed, as section 5 says. While a take rolls
nothing in the file says how much was counted, so the inductive invariant adds `Counted`:
`total_data_bytes_` of a live recorder is the length of what is in its file. Flushes move samples from the
buffer to the file and to the count at once; a short write ends the live recorder and marks the file; `Total` at
the end adds the rest, and `DataSize` is that modulo the width of the field, the number itself below it (`Fits`). `BufferBounded` is inductive with `TypeOK`: a flush at the threshold empties the
buffer, a failed write ends the take. For the refinement, `tape` is the file followed by the buffer, and
`kept` the files of the takes that are over: `Buffers` and `Flushes` are both `Mix`, a finalize is `Finish`, a
short write, a failed finalize and the end of the process are `Cut`, and every other step is a stutter, a `Begin`,
a `Spoil`, a `Fault` or a `Mix` that no tape hears. Lemmas on concatenation and `SubSeq` carry the data
through.

**Only model-checked.** Liveness under fairness is out of the prover's reach: `SilentSeatGivenUp` and
`EmptyRoomReaped` (`Timing`), `StreamHeard` (`Jitter`), `Rejoined`, `NoGhost` and `TugEnds` (`Web`), `Connects` (`Path`). So
are the counterexamples of section 5, which are about particular instances.

## 5. Where the code and its documentation disagree

Each has a run that TLC refutes:

* `Signaling_create`: CREATE_ROOM rebinds a user without displacing its older connection; when that
  one closes, the live session loses its seat, which `signaling_server.h:17-21` says cannot happen.
* `Web_timeout`: a request that times out is reported as failed (`App.tsx:291`), but the server has carried it out and
  the service remembers the room: the user is a member for good, and the page has no room to leave.
* `Web_self`: `ensureConnected` opens a socket although a reconnect is pending; the timer opens another, its
  replayed JOIN_ROOM displaces the first, and the user is told that another device took over.
* `Path_leave`: `runInit` asks `cancelledRef` only after a failed `connectMixer`; a user who leaves during a dial
  that succeeds is captured on the home page, in the room that was left.
* `Path_ws`: the proxy deletes the entry of a uid on the close of any socket of it; an audio socket the
  reconnect timer opened during a dial takes the entry of the one in use with it.

Some definitions that no run of `PROJECT.json` checks, or not under these constants, are refuted as well;
to see it, name the property alone in a copy of the configuration:

| property | configuration, changed | what happens |
|---|---|---|
| `ReplacedByJoin` (`SignalingServer`) | `Signaling_create` | JOIN_ROOM with a wrong password ends the user's live session first and fails then (`SPA1_PROTOCOL.md:195`) |
| `PunctualSurvives` (`SignalingTiming`) | `Timing` | a takeover inherits the old heartbeat time, so the fresh connection can be closed as idle at once (`ARCHITECTURE.md:88`) |
| `NoDanglingTcp` (`MixerServer`) | `Mixer`, `OwnSeat = FALSE` | a connection that joins two rooms, or as two users, and is displaced from one seat is still named by the endpoint of the other, which `broadcast_levels` writes to; `mixer_server.cpp:381-386` says that `clear_tcp_client` "won't match anything by then because we've already overwritten the slot", which is true of that slot only. No client of the repository joins twice |
| `IndexComplete` (`MixerServer`) | `Mixer`, `OneRoom = FALSE` | the end of an old session erases the routing entry of the new one; the user is in the room and not heard (`mixer_server.h:259`) |
| `StreamHeard` (`MixerJitter`) | `Jitter`, `KnobsOrdered = FALSE` | a cap below the target silences the user for good (`mixer_server.h:136-138`) |
| `NoGhost` (`WebClient`) | `Web_timeout`, 2 rooms, `OneRoom = FALSE`, `MaxAsks = 2` | a request for one room times out at the client, one for another room succeeds: LEAVE_ROOM leaves the second only and forgets the user, who stays in the first for good; `signaling_server.cpp:594` takes the cleanup it skips for redundant. The same after a leave while the connection is down: the old close then finds a newer session. With `OneRoom = TRUE`, 3 requests and 2 faults `NoGhost` holds of two rooms |
| `ReplayRejoins` (`WebClient`) | `Web_timeout` | the replayed JOIN_ROOM has no password: in a protected room the tab shows a room it is not in |
| `DialsUntilPickup` (`WebAudio`) | `Path` | the control socket closes before the audio socket opens: `this.controlWs?.send` (`audioService.ts:2726`) sends no MIXER_JOIN, `connectMixer` resolves, nobody dials again (`RoomPage.tsx:211-212`) |
| `FirstJoinRecords` (`Recorder`) | `Recorder` | a room is recorded only if `errno` happens to be `EEXIST`, because a `bool` is read as the result of `mkdir` (`AudioRecorder.cpp:261`); `mixer_server.cpp:403` says that recording starts when the first user joins |
| `RiffTold` (`Recorder`) | `Recorder`, `SizeMod = 1000` | `file_size` is the size of the data plus 40 (`AudioRecorder.cpp:195`); `AudioRecorder.h:18` calls it the total file size less 8, which is 36 more: it is wrong by 4 in every take |
| `SizeTold` (`Recorder`) | `Recorder` | `data_size` is a `size_t` cast to `uint32_t` (`AudioRecorder.cpp:194`): of a take longer than 4 GiB the header tells the size modulo 2^32 |
| `ListeningWorks` (`WebAudio`) | `Path`, `Mic = FALSE`, `MaxFaults = 0` | without a microphone the handshake is all that tells the mixer an address, and one that overtakes MIXER_JOIN is cleared by it |

Seen while reading and kept as notes, because they follow from one line of code:
the brand and the first link of the menu show the home page and leave nothing (`App.tsx:345`, `:349`, `:385`),
although the other entries are "Refused while in a room" (`App.tsx:155`); a user who goes home so, asks again and presses
back while the answer is on its way is shown the room that has been left (`Rejoined` is stated of a room the service
remembers);
`docs/DEVELOPMENT.md:238` says empty rooms persist (`reap_idle_rooms` removes them after 30 minutes);
`AppState.swift:195-197` expects an error for a missing room (JOIN_ROOM creates it); LEAVE_ROOM of one
of several rooms forgets the user everywhere and leaves a ghost in the others; an id that
`json_escape` changes is never cleaned up; a connection that changes its user leaves an entry that
dangles once it closes. The last three are excluded from the runs by `OneRoom`, `Escape` and `OneUser`.

More of the kind. The mix is one channel of `frame_count` floats, and `writeFrames` reads `frame_count` × 2 of
them (`mixer_server.cpp:868`, `AudioRecorder.cpp:289`): half of every recorded block is whatever lies behind
the vector. `Block(n) == <<n, 0>>` keeps all such samples as one value, since nothing depends on theirs.
After a short write the file stays open with size 0 in its header, and the room is flagged as recorded
until it empties; `finalizeWav` looks at no result; no signal is handled, so a restart leaves a take with
size 0; a take that starts in the second of the last one overwrites it. The `onclose` of a reopened audio
socket opens nothing (`audioService.ts:2788`); the `onclose` of a former control socket stops the capture of
the present one (excluded by `Prompt`); over WebTransport the ScriptProcessor fallback tests the audio
WebSocket and sends nothing (`audioService.ts:2424`). A PEER_LIST is not sent to the only member, so a reconnect into an
emptied room leaves the old peers on screen (`NoMissingPeer` is the half that holds). A lost packet takes
one frame off the mixer's cushion for good; a control connection, or a signaling connection without a
room, that vanishes without FIN is never closed.

## 6. Not modelled

* Text: parsing, argument errors (they change no state), JSON lines split over reads.
* REGISTER_AUDIO_ADDR and UDP DISCOVER; PEER_GAIN; PING; Opus; samples. The mixer's return address is in
  `WebAudio`, for one user.
* `uv_accept` failure; the hash of a password failing; memory exhaustion.
* `SignalingServer` alone has no gap between `uv_close` and the peer noticing; `WebClient` has it.
* In `WebClient`: a link to another room followed while in a room (`App.tsx:138`), the clock and the heartbeat sweep (they are in `SignalingTiming`), logout (the user id
  changes), the await of `mixerRttProbe.stop` between an answer and the room page, the bridge as a program of
  its own (it accepts, hears and closes with the server).
* In `WebAudio`: a second user or a second device at the mixer, WebTransport and its proxy, the audio graph,
  playback and rate control, MIXER_TUNE and PING, `destroy()` (never called), reload of the page.
* In `Recorder`: the C library's own buffer, so that what `fwrite` accepted survives the end of the process;
  the conversion to 16 bits; the 24-bit format, which nobody asks for.
* Use of freed memory is not followed further: after it, handlers go on as if the memory held
  nothing, or the process restarts.
* Programs that are left out altogether: the native clients, the peer-to-peer transport, the user
  service, the bridge, the WebTransport proxy. By lines most of the repository is the vendored
  `libs/miniaudio`, which is not Tonel's own.

## 7. Plan

1. `SignalingServer`, `SessionRegistry`, `SignalingPeers`, `SignalingTiming` and proofs. *Done.*
2. `MixerServer`, `MixerJitter` and proofs. *Done.*
3. `WebClient` with `PeerList`, on `SignalingServer`. *Done.*
4. `WebAudio`: page, audio service, proxy, return address. *Done.*
5. `Recorder`, `Tape`, invariants and the refinement proved. *Done.*
6. Theorems: `MemberHasSession`, the refinements of `SessionRegistry`, `PeersAgree`, `BeatingSurvives`, the
   safety properties of `WebClient` and `WebAudio`. *Done.*
7. REGISTER_AUDIO_ADDR with the native clients' peer-to-peer transport (addresses, hole punching), the
   bridge with its pending messages, the clients' `JitterBuffer`, the user service.

## 8. Running

    tlc -config Signaling.cfg MCSignalingPeers.tla
    tlc -config Mixer.cfg MCMixerServer.tla
    tlc -config Web.cfg MCWebClient.tla
    tlapm SignalingServer_proofs.tla

`PROJECT.json` gives the module of each configuration. No run takes more than a few
minutes, nor do the proofs of a module.
