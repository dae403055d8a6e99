---------------------------- MODULE MCSubmission ----------------------------
(* Instances of Submission for TLC.                                        *)
EXTENDS Submission, TLC

CONSTANTS r1, r2

TwoReqs == {r1, r2}
=============================================================================
