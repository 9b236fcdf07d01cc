----------------------------- MODULE MCL2Client -----------------------------
(***************************************************************************)
(* Small instances of the client for TLC.                                  *)
(***************************************************************************)
EXTENDS L2ClientProperties

CONSTANTS o1, h1

OneOrder == {o1}
OneHandler == {h1}
RoundTwo == {2}
RoundThree == {3}
NoFaults == {}
Trouble == AllFaults
=============================================================================
