--------------------------- MODULE MCClientSession ---------------------------
(* Instances of ClientSession for TLC: sessions of two members of the       *)
(* household, two of them of the same one.                                  *)
EXTENDS ClientSession, TLC

McTokens == {"t1", "t2", "t3"}
McOwner  == [t \in McTokens |-> IF t = "t2" THEN "bo" ELSE "ana"]
=============================================================================
