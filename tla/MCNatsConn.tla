---------------------------- MODULE MCNatsConn ----------------------------
(***************************************************************************)
(* NatsConn on two subscriptions of one plugin.                            *)
(***************************************************************************)
EXTENDS NatsConn

CONSTANTS s1, s2, x, y

OneSubject  == [s \in Subs |-> x]
TwoSubjects == [s \in Subs |-> IF s = s1 THEN x ELSE y]
=============================================================================
