--------------------------- MODULE MC_GattServer ---------------------------
(* Model-checking instances of GattServer.  The connection bookkeeping     *)
(* run uses one service with two characteristics; the runs about the      *)
(* attribute database use two services.                                   *)
EXTENDS GattServer, TLC

CONSTANTS s1, s2, c1, c2, h1, h2

OneSvc == {s1}
TwoSvcs == {s1, s2}
OneChr == {c1}
TwoChrs == {c1, c2}
C1InS1 == (c1 :> s1)
BothInS1 == (c1 :> s1) @@ (c2 :> s1)
OnePerSvc == (c1 :> s1) @@ (c2 :> s2)
NoChrs == {}
NoSvcOf == [c \in NoChrs |-> s1]
MCConnIds == {h1, h2}
MCSymmetry == Permutations(MCConnIds)
=============================================================================
