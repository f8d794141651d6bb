----------------------------- MODULE Committee -----------------------------
(***************************************************************************)
(* One run in committee mode: a planner, then an executor whose edits a     *)
(* reviewer judges (run_planner_preflight_if_enabled and                    *)
(* run_committee_loop_with_events).  None of AgentLoop's policies runs in   *)
(* this loop: it has its own stop, budget and review rules.                 *)
(*                                                                          *)
(* After each turn of the executor that edited the workspace the reviewer   *)
(* sees the diff.  It approves, requests changes, which the executor finds  *)
(* in its context at the next turn, or blocks, and then the operator is     *)
(* asked whether to go on.  Requests for the same diff, or turn after turn, *)
(* become a block.                                                          *)
(*                                                                          *)
(* Left out: what the roles say, the planner's own turns (a run of          *)
(* AgentLoop with a budget of its own), the reviewer's costs, which the     *)
(* budget does not count, and the saving and committing after the run,      *)
(* whose failures are only reported.                                        *)
(*                                                                          *)
(* A definition MutXxx is not part of the model: it is Xxx with a mistake a *)
(* change to the code could make, kept to show that a property notices it.  *)
(***************************************************************************)
EXTENDS Naturals, Sequences, FiniteSets

CONSTANTS
    MaxTurns,      \* options.max_turns
    MaxPasses,     \* committee.max_review_passes, at least 1
    Budget,        \* options.budget_usd in units of the model; 0 is none
    TurnCosts,     \* what a turn of the executor may cost
    Diffs,         \* the diffs, by their signature
    CanAsk,        \* whether the executor has an ask_user_port
    None

ASSUME CommitteeBounds == /\ {MaxTurns, MaxPasses} \subseteq Nat \ {0}
                          /\ Budget \in Nat /\ TurnCosts \subseteq Nat
ASSUME CommitteeNames == None \notin Diffs /\ CanAsk \in BOOLEAN

Reasons == {"Done", "ApprovalRequired", "MaxTurns", "Budget", "Interrupted"}
ASSUME NoReason == None \notin Reasons \cup {"work", "done"}

Points  == {"planner", "hook", "turn", "model", "review", "asking", "check",
            "closing", "returned"}
Events  == [kind : {"reply", "unreviewed", "approve", "feedback", "block",
                    "override", "cancel"}]

VARIABLES
    pc,        \* where the run is
    turn,      \* turn_index
    reply,     \* what the executor did in this turn: None, "work" or "done"
    diff,      \* the diff of the workspace, None when there is none
    requests,  \* review_pass_counter
    rejected,  \* diff_rejection_counts
    cost,      \* total_usage
    cancelled, \* the run's token
    stop,      \* stop_reason, once the loop is left
    told,      \* Finished events of the loop
    result,    \* what the host gets: None, "summary" or "error"
    log,       \* history: what happened, in order
    given      \* history: how often changes were asked for, by diff

review == <<requests, rejected, given>>
vars   == <<pc, turn, reply, diff, review, cost, cancelled, stop, told, result, log>>

Goto(p)   == pc' = p /\ UNCHANGED <<stop, told, result>>
Finish(r) == pc' = "closing" /\ stop' = r /\ told' = told + 1 /\ UNCHANGED result
Break     == pc' = "returned" /\ result' = "error" /\ UNCHANGED <<stop, told>>
Logs(k)   == log' = Append(log, [kind |-> k])
-----------------------------------------------------------------------------
(* Before the loop. *)

\* The planner is not asked for, or writes its plan, or its run fails.
Planner ==
    /\ pc = "planner" /\ (Goto("hook") \/ Break)
    /\ UNCHANGED <<turn, reply, diff, review, cost, cancelled, log>>

\* The session_start hook.
Start ==
    /\ pc = "hook" /\ (Goto("turn") \/ Break)
    /\ UNCHANGED <<turn, reply, diff, review, cost, cancelled, log>>
-----------------------------------------------------------------------------
(* The executor. *)

\* The token is not looked at.
MutMayTurn == turn < MaxTurns
MayTurn == turn < MaxTurns /\ ~cancelled

BeginTurn ==
    /\ pc = "turn"
    /\ IF MayTurn THEN Goto("model")
       ELSE Finish(IF turn < MaxTurns THEN "Interrupted" ELSE "MaxTurns")
    /\ UNCHANGED <<turn, reply, diff, review, cost, cancelled, log>>

\* A turn that comes to an end may have changed the workspace and has its cost.
Replies(r) ==
    /\ pc = "model" /\ reply' = r
    /\ diff' \in Diffs \cup {None}
    /\ \E c \in TurnCosts : cost' = cost + c
    /\ UNCHANGED <<turn, rejected, given, cancelled>>

\* should_consider_reviewer: file_write, file_patch, a shell command that edits.
Edits == Replies("work") /\ Goto("review") /\ Logs("reply") /\ UNCHANGED requests

\* Any other tool, one that failed, or a claim of done.
Others ==
    /\ Replies("work") \/ Replies("done")
    /\ requests' = 0 /\ Goto("check")
    /\ log' = log \o <<[kind |-> "reply"], [kind |-> "unreviewed"]>>

\* Any error, a cancelled stream and a provider's included.
TurnFails ==
    /\ pc = "model" /\ Finish("ApprovalRequired")
    /\ diff' \in Diffs \cup {None}
    /\ UNCHANGED <<turn, reply, review, cost, cancelled, log>>
-----------------------------------------------------------------------------
(* The reviewer. *)

NoDiff ==
    /\ pc = "review" /\ diff = None
    /\ requests' = 0 /\ Goto("check") /\ Logs("unreviewed")
    /\ UNCHANGED <<turn, reply, diff, rejected, given, cost, cancelled>>

ReviewerFails ==
    /\ pc = "review" /\ diff # None /\ Goto("check")
    /\ UNCHANGED <<turn, reply, diff, review, cost, cancelled, log>>

Approves ==
    /\ pc = "review" /\ diff # None
    /\ requests' = 0 /\ Goto("check") /\ Logs("approve")
    /\ UNCHANGED <<turn, reply, diff, rejected, given, cost, cancelled>>

\* Only requests in a row are counted.
MutTooOften(times, row) == row >= MaxPasses
\* One more request is let through.
MutTooOftenByOne(times, row) == times >= MaxPasses \/ row > MaxPasses
\* guarded_reviewer_verdict, after it has counted.
TooOften(times, row) == times >= MaxPasses \/ row >= MaxPasses

\* A block: the operator is asked, or the run is over when nobody can be.
Block ==
    /\ Logs("block")
    /\ IF CanAsk THEN Goto("asking") /\ UNCHANGED cancelled
                 ELSE Finish("Interrupted") /\ cancelled' = TRUE

RequestsChanges ==
    /\ pc = "review" /\ diff # None
    /\ requests' = requests + 1
    /\ rejected' = [rejected EXCEPT ![diff] = @ + 1]
    /\ IF TooOften(rejected'[diff], requests')
       THEN Block /\ UNCHANGED given
       ELSE /\ Goto("check") /\ Logs("feedback")
            /\ given' = [given EXCEPT ![diff] = @ + 1]
            /\ UNCHANGED cancelled
    /\ UNCHANGED <<turn, reply, diff, cost>>

Blocks ==
    /\ pc = "review" /\ diff # None /\ Block
    /\ UNCHANGED <<turn, reply, diff, review, cost>>

\* Every answer counts as an override.
MutAnswer ==
    /\ pc = "asking"
    /\ requests' = 0 /\ Goto("check")
    /\ \/ Logs("override")
       \/ UNCHANGED log
    /\ UNCHANGED <<turn, reply, diff, rejected, given, cost, cancelled>>
\* The operator overrides the block or does not; a cancel is not noticed here.
Answer ==
    /\ pc = "asking"
    /\ \/ /\ requests' = 0 /\ Goto("check") /\ Logs("override")
          /\ UNCHANGED cancelled
       \/ /\ cancelled' = TRUE /\ Finish("Interrupted")
          /\ UNCHANGED <<requests, log>>
    /\ UNCHANGED <<turn, reply, diff, rejected, given, cost>>
-----------------------------------------------------------------------------
(* The end of a turn and of the run. *)

Spent == Budget > 0 /\ cost >= Budget

\* The budget comes first.
MutCheck ==
    /\ pc = "check"
    /\ IF Spent THEN Finish("Budget") /\ UNCHANGED <<turn, reply>>
       ELSE IF reply = "done" THEN Finish("Done") /\ UNCHANGED <<turn, reply>>
       ELSE turn' = turn + 1 /\ reply' = None /\ Goto("turn")
    /\ UNCHANGED <<diff, review, cost, cancelled, log>>
Check ==
    /\ pc = "check"
    /\ IF reply = "done" THEN Finish("Done") /\ UNCHANGED <<turn, reply>>
       ELSE IF Spent THEN Finish("Budget") /\ UNCHANGED <<turn, reply>>
       ELSE turn' = turn + 1 /\ reply' = None /\ Goto("turn")
    /\ UNCHANGED <<diff, review, cost, cancelled, log>>

\* The session_end and completion hooks may still turn the summary into an error.
Return ==
    /\ pc = "closing" /\ pc' = "returned"
    /\ result' \in {"summary", "error"}
    /\ UNCHANGED <<turn, reply, diff, review, cost, cancelled, stop, told, log>>

\* The operator cancels, at any moment.
Cancel ==
    /\ pc # "returned" /\ ~cancelled
    /\ cancelled' = TRUE /\ Logs("cancel")
    /\ UNCHANGED <<pc, turn, reply, diff, review, cost, stop, told, result>>
-----------------------------------------------------------------------------
Init ==
    /\ pc = "planner" /\ turn = 0 /\ reply = None /\ diff \in Diffs \cup {None}
    /\ requests = 0 /\ rejected = [d \in Diffs |-> 0] /\ given = rejected
    /\ cost = 0 /\ cancelled = FALSE /\ stop = None /\ told = 0 /\ result = None
    /\ log = << >>

Executor == BeginTurn \/ Edits \/ Others \/ TurnFails
Reviewer == NoDiff \/ ReviewerFails \/ Approves \/ RequestsChanges \/ Blocks
RunStep  == Planner \/ Start \/ Executor \/ Reviewer \/ Answer \/ Check \/ Return

\* The run has returned to its host.
Over == pc = "returned" /\ UNCHANGED vars

Next == RunStep \/ Cancel \/ Over

\* The task of the run is polled, the provider answers, and so does the operator
\* who is asked about a block.
Spec == Init /\ [][Next]_vars /\ WF_vars(RunStep)
-----------------------------------------------------------------------------
(* Properties. *)

\* Every variable has its type.
TypeOK ==
    /\ pc \in Points /\ turn \in 0..MaxTurns /\ reply \in {None, "work", "done"}
    /\ diff \in Diffs \cup {None} /\ requests \in 0..MaxPasses
    /\ rejected \in [Diffs -> Nat] /\ given \in [Diffs -> Nat] /\ cost \in Nat
    /\ cancelled \in BOOLEAN /\ stop \in Reasons \cup {None} /\ told \in 0..1
    /\ result \in {None, "summary", "error"} /\ log \in Seq(Events)

\* docs/agents/committee-runbook.md, M-COM5: a reviewer that keeps asking for
\* changes of the same diff blocks it, whatever lies between the requests (other
\* diffs, approvals, overrides, turns without a review).
SameDiffBlocks == \A d \in Diffs : given[d] < MaxPasses

\* And so does one that asks for changes turn after turn, with another diff each time,
\* reviews that failed included.
Indices(k, i) == {j \in i..Len(log) : log[j].kind \in k}
RequestsEnd ==
    \A i \in 1..Len(log) :
        Indices({"unreviewed", "approve", "override"}, i) = {}
            => Cardinality(Indices({"feedback"}, i)) < MaxPasses

\* Requests for changes end, over one diff and over ever new ones.
RequestLimits == SameDiffBlocks /\ RequestsEnd

\* The executor does not go on after a block that the operator has not overridden.
BlockHolds ==
    \A i \in 1..Len(log) :
        log[i].kind = "block" /\ Indices({"reply"}, i) # {} =>
            \E j \in Indices({"override"}, i) : Indices({"reply"}, i) \cap i..j = {}

\* Once the operator has cancelled, the executor is heard from once more at most.
CancelStops ==
    \A i \in 1..Len(log) :
        log[i].kind = "cancel" => Cardinality(Indices({"reply"}, i)) <= 1

Contract == INSTANCE RunContract WITH
    MaxRuns <- 1, runs <- 1,
    status <- IF told = 1 THEN "finished"
              ELSE IF pc = "returned" THEN "failed" ELSE "running",
    why    <- stop,
    left   <- MaxTurns - turn,
    answer <- reply

\* The committee keeps the contract of every run: at most MaxTurns turns, one end
\* with a reason that is true and one Finished event, or an error and none; and it
\* does end.
ImplementsRunContract == Contract!Spec
=============================================================================
