-------------------------- MODULE SignalingTiming --------------------------
(***************************************************************************)
(* The signaling server against the clock of its clients: a heartbeat      *)
(* timer that starts when a connection opens and fires every HbPeriod      *)
(* ticks (web/src/services/signalService.ts), as long as the client and    *)
(* its network are alive.                                                  *)
(***************************************************************************)
EXTENDS SignalingServer

CONSTANTS
  HbPeriod,    \* ticks between two heartbeats of a client        (5 s)
  Punctual     \* connections whose client never misses a heartbeat

ASSUME HbAssumption == HbPeriod \in 1..Timeout /\ Punctual \subseteq Conns

VARIABLES
  quiet,       \* ticks since the connection opened, or since it last sent a
               \* heartbeat (if punctual) or anything at all (if not)
  beaten       \* it has sent a heartbeat since it was last bound to its user

tvars == <<vars, quiet, beaten>>

Longest == Timeout + 1

TInit ==
  /\ Init
  /\ quiet = [c \in Conns |-> 0]
  /\ beaten = [c \in Conns |-> FALSE]

\* The heartbeat timer.  Without a user the frame changes nothing.
Beat(c) ==
  /\ quiet' = [quiet EXCEPT ![c] = 0]
  /\ \/ /\ \E u \in Users : Heartbeat(c, u)
        /\ beaten' = [beaten EXCEPT ![c] = TRUE]
     \/ /\ st[c] = "open" /\ uid[c] = NoUser
        /\ UNCHANGED <<vars, beaten>>

\* Time cannot pass a heartbeat a punctual client owes.
TTick ==
  /\ \A c \in Punctual : st[c] = "open" => quiet[c] < HbPeriod
  /\ Tick
  /\ quiet' = [c \in Conns |->
       IF st[c] = "open" /\ quiet[c] < Longest THEN quiet[c] + 1 ELSE quiet[c]]
  /\ UNCHANGED beaten

\* The heartbeat timer runs on whatever else a punctual client sends.
Running(c) == [x \in Conns |->
  IF st'[x] = "open" /\ (x \in Punctual \/ x # c) THEN quiet[x] ELSE 0]

Others(c) ==
  /\ \/ Connect(c) \/ Hangup(c) \/ OnClose(c)
     \/ \E r \in Rooms, u \in Users, p \in Passwords \cup {NoPwd} :
          CreateRoom(c, r, u, p) \/ JoinRoom(c, r, u, p)
     \/ \E r \in Rooms, u \in Users : LeaveRoom(c, r, u)
  /\ quiet' = Running(c)
  /\ beaten' = [x \in Conns |-> x # c /\ st'[x] = "open" /\ beaten[x]]

TCheckTimeouts ==
  /\ CheckTimeouts
  /\ quiet' = [x \in Conns |-> IF st'[x] = "open" THEN quiet[x] ELSE 0]
  /\ beaten' = [x \in Conns |-> st'[x] = "open" /\ beaten[x]]

TNext ==
  \/ \E c \in Conns : Beat(c) \/ Others(c)
  \/ TTick \/ TCheckTimeouts
  \/ ReapIdleRooms /\ UNCHANGED <<quiet, beaten>>

TSpec == TInit /\ [][TNext]_tvars

\* Every iteration of the loop ends with ALL pending close callbacks, so it
\* comes to its timers with none outstanding again and again, and a timer that
\* is due then fires however many connections come and go in between (strong
\* fairness).  Punctual clients get round to their heartbeats, and time passes.
TFairness ==
  /\ []<>Settled
  /\ \A c \in Conns : WF_tvars(Others(c) /\ OnClose(c))
  /\ \A c \in Punctual : WF_tvars(Beat(c))
  /\ SF_tvars(TTick) /\ SF_tvars(TCheckTimeouts)
  /\ SF_tvars(ReapIdleRooms /\ UNCHANGED <<quiet, beaten>>)

TFairSpec == TSpec /\ TFairness

-----------------------------------------------------------------------------
\* A connection that has heartbeaten since it was bound, and keeps doing so, is
\* not the one a timeout closes, whoever held its user before.
BeatingSurvives ==
  [][\A c \in Punctual :
       TCheckTimeouts /\ st[c] = "open" /\ beaten[c] => st'[c] = "open"]_tvars

\* Heartbeat / idle disconnect: only an idle connection is disconnected.
PunctualSurvives ==
  [][\A c \in Punctual :
       TCheckTimeouts /\ st[c] = "open" => st'[c] = "open"]_tvars

\* A seat whose client fell silent is given up: the connection is closed, or it
\* speaks up again.
SilentSeatGivenUp ==
  \A c \in Conns :
    (st[c] = "open" /\ at[c] # NoRoom /\ quiet[c] = Longest)
      ~> (st[c] # "open" \/ at[c] = NoRoom \/ quiet[c] < Longest)

\* A room that stays empty is reaped.
EmptyRoomReaped ==
  \A r \in Rooms : (r \in rooms /\ members[r] = {}) ~> (r \notin rooms \/ members[r] # {})
============================================================================
