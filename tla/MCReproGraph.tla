---------------------------- MODULE MCReproGraph ----------------------------
(***************************************************************************)
(* ReproGraph for TLC: more hypotheses asked for than the ceiling allows,  *)
(* and a recursion limit that all attempts fit in, but not a minimization  *)
(* after the last (17 for three attempts, as LangGraph's 25 is for five).  *)
(***************************************************************************)
EXTENDS ReproGraph

MCOutcomes == AllOutcomes
=============================================================================
