-------------------------- MODULE SessionRegistry --------------------------
(***************************************************************************)
(* What the signaling server promises to users who are in one room at a    *)
(* time: a user has at most one session, held by one connection; a newer   *)
(* connection may take the session over, room and all; and when the        *)
(* session ends the user is in no room.                                    *)
(***************************************************************************)
CONSTANTS Conns, Users, Rooms, NoConn

VARIABLES
  holder,    \* the connection that holds each user's session, or NoConn
  inRooms    \* the rooms each user is in

Init ==
  /\ holder = [u \in Users |-> NoConn]
  /\ inRooms = [u \in Users |-> {}]

\* A connection takes the session, from nobody, from itself or from another
\* connection; the user stays where it is.
Take(c, u) ==
  /\ holder' = [holder EXCEPT ![u] = c]
  /\ UNCHANGED inRooms

\* As Take, and the user is in room r from now on; it was in no other.
Enter(c, u, r) ==
  /\ inRooms[u] \subseteq {r}
  /\ holder' = [holder EXCEPT ![u] = c]
  /\ inRooms' = [inRooms EXCEPT ![u] = {r}]

End(u) ==
  /\ holder[u] # NoConn
  /\ holder' = [holder EXCEPT ![u] = NoConn]
  /\ inRooms' = [inRooms EXCEPT ![u] = {}]

\* The server restarts with nothing.
Reset ==
  /\ holder' = [u \in Users |-> NoConn]
  /\ inRooms' = [u \in Users |-> {}]

Next ==
  \/ \E u \in Users, c \in Conns :
       Take(c, u) \/ \E r \in Rooms : Enter(c, u, r)
  \/ \E u \in Users : End(u)
  \/ Reset

Spec == Init /\ [][Next]_<<holder, inRooms>>
============================================================================
