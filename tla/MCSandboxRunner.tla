-------------------------- MODULE MCSandboxRunner --------------------------
(***************************************************************************)
(* SandboxRunner for TLC: more jobs than slots.                            *)
(***************************************************************************)
EXTENDS SandboxRunner

CONSTANTS j1, j2

TwoJobs == {j1, j2}
=============================================================================
