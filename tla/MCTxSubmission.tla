--------------------------- MODULE MCTxSubmission ---------------------------
(***************************************************************************)
(* Two tokens whose commits are sent at once, for TLC.                     *)
(***************************************************************************)
EXTENDS TxSubmissionProperties

CONSTANTS a1, a2

TwoTokens == {a1, a2}
LowAndHigh == {0, 11}
CommitCalls == Calls
EveryFault == AllFaults
=============================================================================
