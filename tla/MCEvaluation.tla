---------------------------- MODULE MCEvaluation ----------------------------
(* Instances of Evaluation for TLC.                                        *)
EXTENDS Evaluation, TLC

(* The first fixture is one that cannot be reproduced.                     *)
SecondOnly == [f \in Fixtures |-> f = 2]

(* The run of the second may log two verdicts, so that a match is followed *)
(* by what a later delivery comes to.                                      *)
SecondTwice == [f \in Fixtures |-> IF f = 2 THEN 2 ELSE 1]
=============================================================================
