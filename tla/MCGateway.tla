------------------------------- MODULE MCGateway -------------------------------
(* The instance of Gateway that TLC checks; connections are alike.         *)
EXTENDS Gateway, TLC

Alike == Permutations(Conns)
===============================================================================
