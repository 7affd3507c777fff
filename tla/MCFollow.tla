------------------------------ MODULE MCFollow ------------------------------
(* Instances of Follow for TLC.                                             *)
EXTENDS Follow, TLC

\* Success, a failure, a code that kranq keeps for itself, and the end of usage.
ScriptCodes == {0, 1, 64, 75}
=============================================================================
