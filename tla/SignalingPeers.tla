-------------------------- MODULE SignalingPeers --------------------------
(***************************************************************************)
(* The signaling server together with what its clients show: the list of   *)
(* peers a client builds from the PEER_ frames it is sent                  *)
(* (web/src/hooks/useSignal.ts; AppState.handleSignal is the same).  A     *)
(* connection here is the first one of a freshly started client, so its    *)
(* list starts empty.                                                      *)
(***************************************************************************)
EXTENDS SignalingServer, PeerList

VARIABLE peers    \* peers[c]: the list shown by the client at the end of c

pvars == <<vars, peers>>

PInit == Init /\ peers = [c \in Conns |-> {}]

\* leaveRoom empties the list; a new client starts with an empty one.
Cleared(c) == st'[c] # "open" \/ (asked[c] # NoRoom /\ asked'[c] = NoRoom)

PNext ==
  /\ Next
  /\ peers' = [c \in Conns |-> IF Cleared(c) THEN {} ELSE Shown(peers[c], out'[c])]

PSpec == PInit /\ [][PNext]_pvars

\* What a client in a room shows is what the server has: every other member,
\* no one who left.  Takeovers, timeouts and closes of several connections in
\* any order must each tell exactly the right ones.
PeersAgree ==
  \A c \in Conns :
    st[c] = "open" /\ at[c] # NoRoom /\ uid[c] \in Users =>
      peers[c] = members[at[c]] \ {uid[c]}
===========================================================================
