--------------------------- MODULE MCSessionHub ----------------------------
(* Small instances of SessionHub for TLC: every connection joins with a *)
(* participant id of its own, so that connections are interchangeable.  *)
EXTENDS SessionHub, TLC

OwnPid   == [c \in Conns |-> c]
AnyOrder == Permutations(Conns)
=============================================================================
