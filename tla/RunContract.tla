---------------------------- MODULE RunContract ----------------------------
(***************************************************************************)
(* What one run of the agent promises to whoever started it (the CLI, the   *)
(* TUI, the daemon), without any of the policies: it uses up at most        *)
(* MaxTurns turns; it ends exactly once, with a reason that tells the       *)
(* truth and one Finished event, or with an error and none; and it does     *)
(* end.  AgentLoop and Committee implement it.                              *)
(***************************************************************************)
EXTENDS Naturals

CONSTANTS MaxTurns, MaxRuns, Reasons, None

VARIABLES status,   \* "running", "finished" (a summary) or "failed" (an error)
          why,      \* the summary's stopped_reason
          left,     \* turns left
          answer,   \* this turn's reply: None, "work", or "done" when it claims done
          told,     \* Finished events of this run
          runs

vars == <<status, why, left, answer, told, runs>>

Init == /\ status = "running" /\ why = None /\ left = MaxTurns
        /\ answer = None /\ told = 0 /\ runs = 1

Running == status = "running"

\* The model replies, once in a turn.
Reply == /\ Running /\ left > 0 /\ answer = None
         /\ answer' \in {"work", "done"}
         /\ UNCHANGED <<status, why, left, told, runs>>

\* The turn is over and the run goes on.
UseTurn == /\ Running /\ left > 0
           /\ left' = left - 1 /\ answer' = None
           /\ UNCHANGED <<status, why, told, runs>>

\* A reason is only given when it is true.
Truthful(r) ==
    /\ r = "MaxTurns" <=> left = 0
    /\ r = "Done" => answer = "done"
    /\ r = "Budget" => answer = "work"
    /\ r = "ApprovalRequired" => answer = None

End == /\ Running /\ status' = "finished" /\ told' = 1
       /\ \E r \in Reasons : Truthful(r) /\ why' = r
       /\ UNCHANGED <<left, answer, runs>>

\* An error of a hook or of the goal checker ends the run without a summary.
Break == /\ Running /\ left > 0 /\ status' = "failed"
         /\ UNCHANGED <<why, left, answer, told, runs>>

Restart == /\ ~Running /\ runs < MaxRuns /\ runs' = runs + 1
           /\ status' = "running" /\ why' = None /\ left' = MaxTurns /\ answer' = None
           /\ told' = 0

Progress == Reply \/ UseTurn \/ End \/ Break

Spec == Init /\ [][Progress \/ Restart]_vars /\ WF_vars(Progress)
=============================================================================
