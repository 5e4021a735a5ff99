---------------------------- MODULE MC_AttValue ----------------------------
EXTENDS AttValue, TLC

CONSTANTS app, host

MCTasks == {app, host}
AppOnly == {app}
BothKinds == {"set", "append"}
SetOnly == {"set"}
\* Values that fit (1 .. 2 bytes with a 3-byte maximum) and one that does not.
FitSizes == {1, 2}
AllSizes == {0, 1, 2, 4}
=============================================================================
