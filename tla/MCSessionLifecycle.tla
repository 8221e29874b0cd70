-------------------------- MODULE MCSessionLifecycle ---------------------------
(* The lifecycle of one session alone.  The roster is empty where students do  *)
(* not matter: a solve of an empty roster still regenerates the draft.         *)
EXTENDS SessionLifecycle, TLC

CONSTANTS s1, o1, k1, r1, e1, e2, d1, d2

MCGrade == [s \in Students |-> 1]
================================================================================
