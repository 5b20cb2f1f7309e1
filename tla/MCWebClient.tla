---------------------------- MODULE MCWebClient ----------------------------
(* A small instance of WebClient for TLC.                                  *)
EXTENDS WebClient, TLC

CONSTANTS c1, c2, c3, alice, bob, r1, r2, p1, t1, t2

\* Both tabs of one user, or of two.
LoginsOfTwo == {[t \in Tabs |-> alice], [t \in Tabs |-> IF t = t1 THEN alice ELSE bob]}

LoginOfOne == {[t \in Tabs |-> alice]}

PlainEscape == [u \in Users |-> u]
=============================================================================
