----------------------------- MODULE GraphNodes -----------------------------
(***************************************************************************)
(* The nodes and the conditional edges of the bug-reproduction graph       *)
(* (worker/app/graph), as operators on the state that LangGraph threads    *)
(* through them.  A node returns a partial update; the operator that       *)
(* models it returns the merged state.  What a node may observe of the     *)
(* outside (the clone, pip, the sandbox) is an argument.                   *)
(*                                                                         *)
(* Data is reduced to what routing and the terminal status depend on: a    *)
(* script, a record and a minimized script are identified by the attempt   *)
(* that produced them (0: none), an error by whether it is set.            *)
(***************************************************************************)
EXTENDS Integers, Sequences

CONSTANTS
    MaxHypotheses,  \* "max_hypotheses" of the task payload
    Ceiling,        \* the safe maximum ingest clamps it to (10 in the code)
    Outcomes        \* the sandbox outcomes considered, some of AllOutcomes

\* What one sandbox call can come back with, as far as the nodes tell apart:
\*   raised       the HTTP call failed (exit code -1 is recorded)
\*   infra        exit code 125 or a Docker failure on stderr
\*   infra_stdout a Docker failure text that only verdict's wider search sees
\*   timeout      the script ran into its time limit
\*   clean        no error signature in the output
\*   other_error  an error signature that is not the reported one
\*   same_error   the reported error
AllOutcomes == {"raised", "infra", "infra_stdout", "timeout", "clean",
                "other_error", "same_error"}

ASSUME GraphAssumption ==
    /\ MaxHypotheses \in Nat \ {0}
    /\ Ceiling \in Nat \ {0}
    /\ Outcomes \subseteq AllOutcomes

Verdicts == {"matched", "no_match", "error", "infra_error"}

Record  == [idx: Nat, verdict: Verdicts]
NoLast  == [idx |-> 0, out |-> "none", verdict |-> "none"]
Last    == [idx: Nat, out: AllOutcomes \cup {"none"}, verdict: Verdicts \cup {"none"}]

FinalVerdicts == {"unset", "matched", "infra_error", "invalid_input",
                  "succeeded", "failed", "error"}

\* The working tree in the repos volume: no directory, a checkout that is not
\* the requested one, or the requested commit or branch.
Trees == {"absent", "other_revision", "requested"}

State == [max: Nat, idx: Nat, script: Nat, minimized: Nat, last: Last,
          history: Seq(Record), reproduced: BOOLEAN, final_verdict: FinalVerdicts,
          error: BOOLEAN, persist_error: BOOLEAN, tree: Trees]

\* The state the payload starts on a thread that has no checkpoint.
FreshState ==
    [max |-> MaxHypotheses, idx |-> 0, script |-> 0, minimized |-> 0,
     last |-> NoLast, history |-> << >>, reproduced |-> FALSE,
     final_verdict |-> "unset", error |-> FALSE, persist_error |-> FALSE,
     tree |-> "absent"]

\* Calling the graph with a payload on a thread that has a checkpoint starts
\* again at ingest: the payload's keys replace the checkpoint's, every other
\* channel keeps the value the earlier invocation left in it.
Resume(checkpoint) == [checkpoint EXCEPT !.max = MaxHypotheses]

Smaller(a, b) == IF a <= b THEN a ELSE b

-----------------------------------------------------------------------------
(* The nodes                                                               *)

IngestNode(s, valid) ==
    IF valid THEN [s EXCEPT !.max = Smaller(s.max, Ceiling)]
             ELSE [s EXCEPT !.error = TRUE, !.final_verdict = "invalid_input"]

\* A clone or a checkout that fails is logged and tolerated.  A directory that is
\* already there is not cloned again, only checked out; the requested revision stays.
CloneResults(s) ==
    {t \in Trees : /\ s.tree # "absent" => t # "absent"
                   /\ s.tree = "requested" => t = "requested"}

RepoAnalysisNode(s, tree) == [s EXCEPT !.tree = tree]

\* Without a directory there is nothing to install and the node is skipped.
InstallFails(s, ok) == s.tree # "absent" /\ ~ok

DependencyInstallNode(s, ok) ==
    IF InstallFails(s, ok) THEN [s EXCEPT !.error = TRUE, !.persist_error = TRUE]
                           ELSE s

HypothesisGenNode(s) == [s EXCEPT !.idx = @ + 1]

\* Mutant: a script that is there already is kept.
ScriptGenNodeOnce(s) == IF s.script = 0 THEN [s EXCEPT !.script = s.idx] ELSE s

ScriptGenNode(s) == [s EXCEPT !.script = s.idx]

SandboxExecNode(s, out) ==
    LET ran == [s EXCEPT !.last =
                  [idx     |-> s.idx,
                   out     |-> out,
                   verdict |-> IF out = "infra" THEN "infra_error" ELSE "error"]]
    IN  IF out = "infra"
        THEN [ran EXCEPT !.final_verdict = "infra_error", !.error = TRUE]
        ELSE ran

\* The verdict on one execution record.
Judge(rec) ==
    CASE rec.verdict = "infra_error" \/ rec.out = "infra_stdout" -> "infra_error"
      [] rec.verdict # "infra_error" /\ rec.out \in {"timeout", "raised"} -> "error"
      [] rec.verdict # "infra_error" /\ rec.out = "same_error"          -> "matched"
      [] OTHER                                                        -> "no_match"

VerdictNode(s) ==
    LET v == Judge(s.last)
    IN  [s EXCEPT !.last.verdict  = v,
                  !.history       = Append(@, [idx |-> s.last.idx, verdict |-> v]),
                  !.reproduced    = v = "matched",
                  !.final_verdict = IF v \in {"infra_error", "matched"} THEN v ELSE "unset",
                  !.error         = @ \/ v = "infra_error"]

MinimizationNode(s) == [s EXCEPT !.minimized = s.script]

-----------------------------------------------------------------------------
(* The conditional edges                                                   *)

\* Mutant: a failed installation is tried again for ever.
RouteAfterDependencyInstallRetry(s) == IF s.error THEN "env_setup" ELSE "hypothesis_gen"

RouteAfterDependencyInstall(s) == IF s.error THEN "persist" ELSE "hypothesis_gen"

InfraError(s) == s.final_verdict = "infra_error" \/ s.last.verdict = "infra_error"

\* Mutants: one attempt too many; and an infrastructure failure that counts as any
\* other failed attempt.
RouteAfterVerdictOffByOne(s) ==
    CASE InfraError(s)                                      -> "persist"
      [] ~InfraError(s) /\ s.reproduced                     -> "minimization"
      [] ~InfraError(s) /\ ~s.reproduced /\ s.idx <= s.max  -> "hypothesis_gen"
      [] OTHER                                              -> "persist"

RouteAfterVerdictNoInfra(s) ==
    CASE s.reproduced                      -> "minimization"
      [] ~s.reproduced /\ s.idx < s.max    -> "hypothesis_gen"
      [] OTHER                             -> "persist"

RouteAfterVerdict(s) ==
    CASE InfraError(s)                                        -> "persist"
      [] ~InfraError(s) /\ s.reproduced                       -> "minimization"
      [] ~InfraError(s) /\ ~s.reproduced /\ s.idx < s.max     -> "hypothesis_gen"
      [] OTHER                                                -> "persist"

-----------------------------------------------------------------------------
(* What persist concludes from the state                                   *)

TerminalVerdict(s) ==
    CASE s.final_verdict # "unset"                                  -> s.final_verdict
      [] s.final_verdict = "unset" /\ s.last.verdict = "infra_error" -> "infra_error"
      [] s.final_verdict = "unset" /\ s.last.verdict # "infra_error"
                              /\ s.reproduced                  -> "succeeded"
      [] OTHER                                                 -> "failed"

\* Mutants: the verdict is written as it is; and the error is looked at first.
RowStatusAsVerdict(s) == TerminalVerdict(s)

RowStatusErrorFirst(s) ==
    CASE s.error                                               -> "error"
      [] ~s.error /\ TerminalVerdict(s) = "infra_error"        -> "infra_error"
      [] ~s.error /\ TerminalVerdict(s) # "infra_error"
                 /\ s.reproduced                              -> "succeeded"
      [] OTHER                                                 -> "failed"

\* The status persist writes to the run's row.
RowStatus(s) ==
    CASE TerminalVerdict(s) = "infra_error"                          -> "infra_error"
      [] TerminalVerdict(s) # "infra_error"
         /\ (s.error \/ TerminalVerdict(s) = "error")                -> "error"
      [] TerminalVerdict(s) \notin {"infra_error", "error"}
         /\ ~s.error /\ s.reproduced                                 -> "succeeded"
      [] OTHER                                                       -> "failed"

TerminalStatuses == {"succeeded", "failed", "error", "infra_error"}
=============================================================================
