------------------------------ MODULE PeerList ------------------------------
(***************************************************************************)
(* The list of peers a client folds from the frames it is sent             *)
(* (web/src/hooks/useSignal.ts; AppState.handleSignal is the same).        *)
(***************************************************************************)

\* PEER_LIST is not expected after the first one.
MutShown(list, frames) ==
  (list \cup {f[3] : f \in {g \in frames : g[1] = "PEER_JOINED"}})
  \ {f[3] : f \in {g \in frames : g[1] = "PEER_LEFT"}}

\* The list after the frames of one step of the server.  The reducer does not
\* look at the room a frame is about.
Shown(list, frames) ==
  LET listed == {f[3] : f \in {g \in frames : g[1] = "PEER_LIST"}}
      base   == IF listed = {} THEN list ELSE UNION listed
      joined == {f[3] : f \in {g \in frames : g[1] = "PEER_JOINED"}}
      left   == {f[3] : f \in {g \in frames : g[1] = "PEER_LEFT"}}
  IN (base \cup joined) \ left
=============================================================================
