------------------------------ MODULE MC_Client ------------------------------
(* Model values and constant definitions for checking Client with TLC.     *)
EXTENDS Client, TLC

CONSTANTS h1, h2

MCHandles == {h1}
TwoHandles == {h1, h2}
NoSelfDelete == {<<FALSE, FALSE>>}
AnySelfDelete == BOOLEAN \X BOOLEAN
=============================================================================
