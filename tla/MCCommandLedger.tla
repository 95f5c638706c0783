-------------------------- MODULE MCCommandLedger --------------------------
(***************************************************************************)
(* Values of CommandLedger's constants: one request, one command requested *)
(* twice, or two commands of different sessions.                           *)
(***************************************************************************)
EXTENDS CommandLedger, TLC

CONSTANTS r1, r2, c1, c2, s1, s2

OneRequest  == r1 :> c1
Retried     == r1 :> c1 @@ r2 :> c1
Different   == r1 :> c1 @@ r2 :> c2
OneSession  == c1 :> s1
TwoSessions == c1 :> s1 @@ c2 :> s2
=============================================================================
