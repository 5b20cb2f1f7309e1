---------------------- MODULE SignalingTiming_proofs ----------------------
(***************************************************************************)
(* What holds of heartbeats and timeouts for any heartbeat period within   *)
(* the timeout, any number of connections and any clients that keep        *)
(* OneUser: the age the server counts for a user never exceeds the silence *)
(* of the punctual connection that has heartbeaten for it.                 *)
(***************************************************************************)
EXTENDS SignalingTiming, SignalingServer_proofs

\* A silent connection is an open one, and a punctual one is silent for at most
\* one period.
Clocks ==
  /\ quiet \in [Conns -> 0..Longest]
  /\ beaten \in [Conns -> BOOLEAN]
  /\ \A c \in Conns : st[c] # "open" => quiet[c] = 0
  /\ \A c \in Punctual : quiet[c] <= HbPeriod

\* Since its last heartbeat the server has counted no more ticks than it was
\* silent; which is not so of one that took its user over and has not sent any.
Counted ==
  \A c \in Punctual : \A u \in Users :
    st[c] = "open" /\ beaten[c] /\ client[u] = c => age[u] <= quiet[c]

BeatInv == Danglers /\ TablesAgree /\ Clocks /\ Counted

\* What the server does in a step of TNext.
LEMMA TimedIsNext == TNext => [Next]_vars
  BY DEF TNext, Beat, Others, TTick, TCheckTimeouts, Next, Message

\* A connection is the handle of the one user it carries.
LEMMA HandleOfOne ==
  ASSUME Plain, Danglers, TablesAgree, NEW c \in Conns, NEW u \in Users, client[u] = c
  PROVE  uid[c] = u
<1>1. client[u] # NoConn /\ ctxOf[u] = c
  BY ConnAssumption DEF TablesAgree
<1> QED BY <1>1 DEF Danglers, NoDanglingCtx, Plain

LEMMA ClocksBeat ==
  ASSUME TypeOK, Clocks, NEW c \in Conns, Beat(c)
  PROVE  Clocks'
<1>1. st' = st /\ quiet' = [quiet EXCEPT ![c] = 0]
  BY DEF Beat, Heartbeat, vars
<1>2. beaten' \in [Conns -> BOOLEAN]
  BY DEF Beat, Clocks
<1>3. quiet' \in [Conns -> 0..Longest]
  BY <1>1, LimitAssumption DEF Clocks, Longest
<1>4. \A x \in Conns : quiet'[x] = IF x = c THEN 0 ELSE quiet[x]
  BY <1>1 DEF Clocks
<1>5. Punctual \subseteq Conns /\ 0 <= HbPeriod
  BY HbAssumption
<1> QED
  BY <1>1, <1>2, <1>3, <1>4, <1>5 DEF Clocks

LEMMA ClocksRun ==
  ASSUME TypeOK, Clocks, NEW c, quiet' = Running(c), beaten' \in [Conns -> BOOLEAN]
  PROVE  Clocks'
BY HbAssumption, LimitAssumption DEF Clocks, Running, Longest

LEMMA ClocksTick ==
  ASSUME TypeOK, Clocks, TTick
  PROVE  Clocks'
<1> USE HbAssumption, LimitAssumption DEF Clocks, Longest
<1>1. /\ st' = st /\ beaten' = beaten
      /\ \A c \in Punctual : st[c] = "open" => quiet[c] < HbPeriod
  BY DEF TTick, Tick
<1>2. quiet' = [c \in Conns |->
        IF st[c] = "open" /\ quiet[c] < Timeout + 1 THEN quiet[c] + 1 ELSE quiet[c]]
  BY DEF TTick
<1>3. quiet' \in [Conns -> 0..(Timeout + 1)]
  BY <1>2
<1> QED
  BY <1>1, <1>2, <1>3

LEMMA ClocksStep ==
  ASSUME TypeOK, Clocks, [TNext]_tvars
  PROVE  Clocks'
<1>1. ASSUME NEW c \in Conns, Others(c) PROVE Clocks'
  <2>1. beaten' \in [Conns -> BOOLEAN]
    BY <1>1 DEF Others, Clocks
  <2> QED BY <1>1, <2>1, ClocksRun DEF Others
<1>2. CASE TCheckTimeouts
  BY <1>2, HbAssumption, LimitAssumption DEF TCheckTimeouts, CheckTimeouts, Clocks, Longest
<1>3. CASE ReapIdleRooms /\ UNCHANGED <<quiet, beaten>>
  BY <1>3 DEF ReapIdleRooms, Clocks
<1>4. CASE UNCHANGED tvars
  BY <1>4 DEF tvars, vars, Clocks
<1> QED
  BY <1>1, <1>2, <1>3, <1>4, ClocksBeat, ClocksTick DEF TNext

LEMMA CountedBeat ==
  ASSUME Plain, BeatInv, NEW c \in Conns, Beat(c)
  PROVE  Counted'
<1> USE HbAssumption, LimitAssumption, EscapeAssumption
    DEF BeatInv, Danglers, TypeOK, Clocks, Longest
<1> SUFFICES ASSUME NEW x \in Punctual, NEW u \in Users, st'[x] = "open", beaten'[x],
                    client'[u] = x
             PROVE  age'[u] <= quiet'[x]
  BY DEF Counted
<1>1. st' = st /\ client' = client /\ quiet' = [quiet EXCEPT ![c] = 0] /\ x \in Conns
  BY DEF Beat, Heartbeat, vars
<1>2. uid[x] = u
  BY <1>1, HandleOfOne
<1>3. ASSUME NEW v \in Users, Heartbeat(c, v), beaten' = [beaten EXCEPT ![c] = TRUE]
      PROVE  age'[u] <= quiet'[x]
  <2>1. age' = [age EXCEPT ![v] = 0] /\ uid[c] = v
    BY <1>3 DEF Heartbeat, Refresh, Plain
  <2>2. CASE x = c
    BY <1>1, <1>2, <2>1, <2>2
  <2>3. CASE x # c
    BY <1>1, <1>3, <2>1, <2>3 DEF Counted
  <2> QED BY <2>2, <2>3
<1>4. CASE uid[c] = NoUser /\ UNCHANGED <<vars, beaten>>
  <2>1. x # c
    BY <1>2, <1>4
  <2> QED BY <1>1, <1>4, <2>1 DEF Counted, vars
<1> QED
  BY <1>3, <1>4 DEF Beat

LEMMA CountedOthers ==
  ASSUME BeatInv, NEW c \in Conns, Others(c)
  PROVE  Counted'
<1> USE ConnAssumption, HbAssumption, LimitAssumption
    DEF BeatInv, Danglers, TypeOK, Clocks, Longest
<1> SUFFICES ASSUME NEW x \in Punctual, NEW u \in Users, st'[x] = "open", beaten'[x],
                    client'[u] = x
             PROVE  age'[u] <= quiet'[x]
  BY DEF Counted
<1>1. x \in Conns /\ x # c /\ beaten[x] /\ quiet'[x] = quiet[x]
  BY DEF Others, Running
<1>2. ASSUME st[x] = "open", client[u] = x, age'[u] = age[u]
      PROVE  age'[u] <= quiet'[x]
  BY <1>1, <1>2 DEF Counted
<1>3. CASE Connect(c) \/ Hangup(c)
  BY <1>1, <1>2, <1>3 DEF Connect, Hangup, tables
<1>4. ASSUME NEW v, Erase(v), st[x] = "open" PROVE age'[u] <= quiet'[x]
  BY <1>1, <1>2, <1>4 DEF Erase
<1>5. CASE OnClose(c)
  BY <1>1, <1>2, <1>4, <1>5 DEF OnClose, tables
<1>6. ASSUME NEW r \in Rooms, NEW v \in Users, NEW p,
             CreateRoom(c, r, v, p) \/ JoinRoom(c, r, v, p)
      PROVE  age'[u] <= quiet'[x]
  <2>1. client' = [client EXCEPT ![v] = c] /\ u # v
    BY <1>1, <1>6 DEF CreateRoom, JoinRoom, Bind
  <2>2. st[x] = "open" /\ age'[u] = age[u]
    BY <1>1, <1>6, <2>1 DEF CreateRoom, JoinRoom
  <2> QED BY <1>2, <2>1, <2>2
<1>7. ASSUME NEW r \in Rooms, NEW v \in Users, LeaveRoom(c, r, v)
      PROVE  age'[u] <= quiet'[x]
  BY <1>4, <1>7 DEF LeaveRoom
<1> QED
  BY <1>3, <1>5, <1>6, <1>7 DEF Others

\* A tick is counted for the server and for the client.
LEMMA CountedTick ==
  ASSUME BeatInv, TTick
  PROVE  Counted'
<1> USE ConnAssumption, HbAssumption, LimitAssumption
    DEF BeatInv, Danglers, TypeOK, Clocks, Longest
<1> SUFFICES ASSUME NEW x \in Punctual, NEW u \in Users, st'[x] = "open", beaten'[x],
                    client'[u] = x
             PROVE  age'[u] <= quiet'[x]
  BY DEF Counted
<1>1. x \in Conns /\ st[x] = "open" /\ beaten[x] /\ client[u] = x
  BY DEF TTick, Tick
<1>2. quiet[x] < Timeout + 1
  BY <1>1 DEF TTick
<1>3. quiet'[x] = quiet[x] + 1
  BY <1>1, <1>2 DEF TTick
<1>4. age'[u] \in {age[u], age[u] + 1}
  BY DEF TTick, Tick
<1>5. age[u] <= quiet[x]
  BY <1>1 DEF Counted
<1> QED
  BY <1>1, <1>3, <1>4, <1>5

LEMMA CountedStep ==
  ASSUME Plain, BeatInv, [TNext]_tvars
  PROVE  Counted'
<1>1. CASE TCheckTimeouts
  <2> SUFFICES ASSUME NEW x \in Punctual, NEW u \in Users, st'[x] = "open", beaten'[x],
                      client'[u] = x
               PROVE  age'[u] <= quiet'[x]
    BY DEF Counted
  <2>1. x \in Conns /\ client[u] = x /\ age'[u] = age[u]
    BY <1>1, HbAssumption, ConnAssumption DEF TCheckTimeouts, CheckTimeouts
  <2>2. st[x] = "open" /\ beaten[x] /\ quiet'[x] = quiet[x]
    BY <1>1, <2>1 DEF TCheckTimeouts, CheckTimeouts
  <2> QED BY <2>1, <2>2 DEF BeatInv, Counted
<1>2. CASE ReapIdleRooms /\ UNCHANGED <<quiet, beaten>>
  BY <1>2 DEF ReapIdleRooms, BeatInv, Counted, tables
<1>3. CASE UNCHANGED tvars
  BY <1>3 DEF tvars, vars, BeatInv, Counted
<1> QED
  BY <1>1, <1>2, <1>3, CountedBeat, CountedOthers, CountedTick DEF TNext

LEMMA BeatInit == TInit => BeatInv
<1> SUFFICES ASSUME TInit PROVE BeatInv
  OBVIOUS
<1>1. Danglers /\ TablesAgree
  BY TypeInit DEF TInit, Init, Danglers, DisplacedClosing, NoDanglingCtx, TablesAgree
<1>2. Clocks
  BY HbAssumption, LimitAssumption DEF TInit, Clocks, Longest
<1>3. Counted
  BY HbAssumption DEF TInit, Counted
<1> QED
  BY <1>1, <1>2, <1>3 DEF BeatInv

LEMMA BeatStep ==
  ASSUME Plain, OneUser, BeatInv, [TNext]_tvars
  PROVE  BeatInv'
<1>1. [Next]_vars
  BY TimedIsNext DEF tvars
<1>2. Danglers'
  BY <1>1, TypeStep, DanglersStep DEF BeatInv, Danglers
<1>3. TablesAgree'
  BY <1>1, TablesStep DEF BeatInv, Danglers
<1>4. Clocks'
  BY ClocksStep DEF BeatInv, Danglers
<1> QED
  BY <1>2, <1>3, <1>4, CountedStep DEF BeatInv

\* Whose age is past the timeout has no connection that beats.
LEMMA BeatingIsYoung ==
  ASSUME BeatInv, NEW c \in Punctual, TCheckTimeouts, st[c] = "open", beaten[c]
  PROVE  st'[c] = "open"
<1> USE HbAssumption, LimitAssumption DEF BeatInv, Danglers, TypeOK, Clocks, Longest
<1>1. c \in Conns
  OBVIOUS
<1>2. ASSUME NEW u \in Expired, client[u] = c PROVE FALSE
  <2>1. u \in Users /\ age[u] > Timeout
    BY DEF Expired
  <2>2. age[u] <= quiet[c] /\ quiet[c] <= HbPeriod
    BY <1>2, <2>1 DEF Counted
  <2> QED BY <1>1, <2>1, <2>2
<1>3. c \notin TimedOut
  BY <1>2 DEF TimedOut
<1> QED
  BY <1>1, <1>3 DEF TCheckTimeouts, CheckTimeouts

\* check_timeouts never closes a connection whose client has heartbeaten since
\* it was bound and keeps its heartbeat timer, whoever held its user before,
\* for any heartbeat period up to the timeout.
THEOREM BeatingAlwaysSurvives ==
  ASSUME Plain, OneUser
  PROVE  TSpec => BeatingSurvives
<1>1. BeatInv /\ [TNext]_tvars => BeatInv'
  BY BeatStep
<1>2. BeatInv /\ [TNext]_tvars =>
        [\A c \in Punctual :
           TCheckTimeouts /\ st[c] = "open" /\ beaten[c] => st'[c] = "open"]_tvars
  BY BeatingIsYoung
<1> QED
  BY <1>1, <1>2, BeatInit, PTL DEF TSpec, BeatingSurvives
=============================================================================
