----------------------------- MODULE AgentLoop -----------------------------
(***************************************************************************)
(* The agent run loop of peridot-core: HarnessAgent::                       *)
(* run_until_done_with_events and the loop policies it dispatches.          *)
(*                                                                          *)
(* One behaviour is a sequence of at most MaxRuns runs of one agent.  A     *)
(* run is a bounded series of turns; each turn passes through the program   *)
(* points in Points, and the policies of a turn are separate steps, because *)
(* the operator's cancel token may be fired between any two of them.        *)
(*                                                                          *)
(* What the model, the tools, the verifier, the hooks and the graders       *)
(* answer is chosen nondeterministically from the sets the constants give.  *)
(* The text of messages, events and reminders is left out; the one reminder *)
(* the code reads back, the newest "[auto-verify]" note, is `marker`.       *)
(*                                                                          *)
(* A definition MutXxx is not part of the model: it is Xxx with a mistake a *)
(* change to the code could make, kept to show that a property notices it.  *)
(***************************************************************************)
EXTENDS Integers, Sequences, FiniteSets

CONSTANTS
    MaxTurns,       \* AgentRunRequest.max_turns
    MaxRuns,        \* bound of the model: runs of the same agent
    FixCap,         \* auto_fix.max_attempts
    ErrorCap,       \* MAX_ERROR_RECOVERY_ATTEMPTS
    StuckThreshold, \* StuckDetector.threshold
    Budget,         \* budget_usd in units, 0 means no budget
    WarnAt,         \* cost at which the budget warning is due, 0 means never
    Tools,          \* the kinds of tool call the model may make
    Labels,         \* result summaries the stuck detector tells apart
    Sigs,           \* verify failures: a verify tool and its failure signature
    Verdicts,       \* what an automatic verify may come back with
    Errors,         \* errors a turn may end with: [kind, sig] records
    TurnCosts,      \* cost units a model reply may add
    GateCosts,      \* cost units a goal check or a grading may add
    None,           \* an absent value
    AutoVerify,     \* auto_verify_after_mutation
    AutoFix,        \* auto_fix.enabled
    GoalGate,       \* Goal mode with a goal checker model
    AutoGrade,      \* auto_grade_on_done
    MayCancel,      \* the operator may cancel the run
    HooksMayFail,   \* an operator hook may exit with an error
    DeleteMayFail,  \* removing the pending-resume file may fail
    Compaction,     \* the context may be compacted at the start of a turn
    InitialMarkers  \* the newest auto-verify note the context starts with

(***************************************************************************)
(* "edit" is file_write or file_patch; "change" is git_commit or            *)
(* agent_delegate; "verify" is verify_build, verify_test or verify_lint;    *)
(* "done" is agent_done, also the one synthesised for a plain text reply;   *)
(* "other" is any other tool, a batch of read-only ones included.           *)
(***************************************************************************)
ToolKinds  == {"edit", "change", "verify", "done", "other"}
VerdictSet == {"passed", "skipped", "failed", "couldnotrun"}
Markers    == VerdictSet \cup {"none"}
ErrorKinds == {"approval", "config", "other"}
Phases     == {"Planning", "Executing", "Verifying", "Recovering", "Done"}
Reasons    == {"Done", "ApprovalRequired", "MaxTurns", "Budget", "Interrupted"}
Points     == {"turn_start", "pre_turn", "model", "turn_error",
               "budget_warning", "stuck_detector", "auto_verify", "auto_fix",
               "preflight", "goal_checker", "auto_grade", "budget_check",
               "finished", "failed"}

ASSUME BoundAssumption ==
    /\ {MaxTurns, MaxRuns, FixCap, Budget, WarnAt} \subseteq Nat
    /\ {ErrorCap, StuckThreshold} \subseteq Nat \ {0}
    /\ TurnCosts \subseteq Nat /\ GateCosts \subseteq Nat
ASSUME AlphabetAssumption ==
    /\ Tools \subseteq ToolKinds /\ Verdicts \subseteq VerdictSet
    /\ Errors \subseteq [kind : ErrorKinds, sig : Sigs]
    /\ InitialMarkers \subseteq Markers
ASSUME SwitchAssumption ==
    {AutoVerify, AutoFix, GoalGate, AutoGrade, MayCancel, HooksMayFail,
     DeleteMayFail, Compaction} \subseteq BOOLEAN

VARIABLES
    turn, pc, phase, reason,  \* turn_index, where the loop is, state.phase, why it stopped
    cancelled,                \* the CancelToken of the run has fired
    cur, outcomes,            \* the outcome of this turn, and those pushed so far
    err,                      \* the error this turn ended with
    dirty, flushFail,         \* AutoVerifyAfterMutationPolicy
    fixFail,                  \* AutoFixLoopPolicy
    errorStreak,              \* ErrorRecoveryPolicy
    stuckStreak,              \* StuckDetector
    cost, warned,             \* total_usage, BudgetWarningPolicy
    marker,                   \* newest "[auto-verify]" note in the context
    sidecar,                  \* the pending-resume file
    runs, finishedEvents,     \* runs started, Finished events of this run
    history                   \* history variable: what really happened in this run

vars == <<turn, pc, phase, reason, cancelled, cur, outcomes, err, dirty,
          flushFail, fixFail, errorStreak, stuckStreak, cost, warned, marker,
          sidecar, runs, finishedEvents, history>>

verifyVars == <<dirty, flushFail, fixFail>>
streakVars == <<errorStreak, stuckStreak>>
runVars    == <<sidecar, runs>>
turnVars   == <<turn, cur, err>>
costVars   == <<cost, warned>>
-----------------------------------------------------------------------------
(***************************************************************************)
(* Data.                                                                    *)
(***************************************************************************)
Outcomes ==
    {o \in [tool : Tools, res : {"ok", "skip", "fail"}, label : Labels,
            sig : Sigs \cup {None}] :
        /\ o.res = "skip" => o.tool = "verify"
        /\ o.tool = "done" => o.res = "ok"
        /\ (o.tool = "verify" /\ o.res = "fail") <=> o.sig # None}

ASSUME NoneAssumption ==
    None \notin Outcomes /\ None \notin Errors /\ None \notin Sigs
        /\ None \notin ToolKinds \X Labels /\ None \notin ToolKinds

\* tool_result.success: a verify that found no command to run is a success.
Succeeded(o) == o.res # "fail"

\* VerifyFailureState, StuckDetector and ErrorRecoveryPolicy all count the
\* consecutive occurrences of one signature.
MutNoStreak == [of |-> None, n |-> -1]
NoStreak == [of |-> None, n |-> 0]
Bump(s, x) == IF s.of = x THEN [of |-> x, n |-> s.n + 1] ELSE [of |-> x, n |-> 1]

Event(kind, by, verdict, sig) ==
    [kind |-> kind, by |-> by, verdict |-> verdict, sig |-> sig]
Changed(kind, by) == Event(kind, by, "none", None)

VerdictOf(o) == IF o.res = "ok" THEN "passed"
                ELSE IF o.res = "skip" THEN "skipped" ELSE "failed"

EventOf(o) ==
    IF o.tool = "verify" THEN Event("verify", "model", VerdictOf(o), o.sig)
    ELSE IF o.tool \in {"edit", "change"} /\ o.res = "ok" THEN Changed(o.tool, "model")
    ELSE Event("reply", "model", "none", None)
-----------------------------------------------------------------------------
(***************************************************************************)
(* Control.  Finish is finalize_run, the normal end of a run; Fail is an    *)
(* error that leaves run_until_done_with_events through `?`.                *)
(***************************************************************************)
Over == pc \in {"finished", "failed"}

Goto(p) == pc' = p /\ UNCHANGED <<reason, finishedEvents>>

Finish(r) ==
    /\ pc' = "finished"
    /\ reason' = r
    /\ finishedEvents' = finishedEvents + 1

Fail == pc' = "failed" /\ UNCHANGED <<reason, finishedEvents>>

NextTurn == turn' = turn + 1 /\ cur' = None /\ err' = None /\ Goto("turn_start")

\* A hook that fails makes the policy return an error instead of going on.
HookThen(A) == A \/ (HooksMayFail /\ Fail)

Init ==
    /\ turn = 0 /\ pc = "turn_start" /\ phase = "Planning" /\ reason = None
    /\ cancelled = FALSE
    /\ cur = None /\ outcomes = << >> /\ err = None
    /\ dirty = FALSE /\ flushFail = NoStreak /\ fixFail = NoStreak
    /\ errorStreak = NoStreak /\ stuckStreak = NoStreak
    /\ cost = 0 /\ warned = FALSE
    /\ marker \in InitialMarkers
    /\ sidecar = None
    /\ runs = 1 /\ finishedEvents = 0
    /\ history = << >>

\* The operator fires the run's cancel token, at any moment.
Cancel ==
    /\ MayCancel /\ ~Over /\ ~cancelled
    /\ cancelled' = TRUE
    /\ history' = Append(history, Event("cancel", "operator", "none", None))
    /\ UNCHANGED <<turn, pc, phase, reason, cur, outcomes, err, verifyVars,
                   streakVars, costVars, marker, runVars, finishedEvents>>

MutTurnsUsed == turn > MaxTurns
TurnsUsed == turn >= MaxTurns

\* The turn loop is exhausted.
TurnLimit ==
    /\ pc = "turn_start" /\ TurnsUsed
    /\ Finish("MaxTurns")
    /\ UNCHANGED <<turnVars, phase, cancelled, outcomes, verifyVars, streakVars,
                   costVars, marker, runVars, history>>

MutCancelSeen == cancelled /\ turn = 0
CancelSeen == cancelled

TurnStart ==
    /\ pc = "turn_start" /\ ~TurnsUsed
    /\ IF CancelSeen THEN Finish("Interrupted") ELSE Goto("pre_turn")
    /\ UNCHANGED <<turnVars, phase, cancelled, outcomes, verifyVars, streakVars,
                   costVars, marker, runVars, history>>

MutAfterPreTurn == "turn_start"
AfterPreTurn == "model"

NothingToResume ==
    /\ pc = "pre_turn" /\ (turn # 0 \/ sidecar = None)
    /\ Goto(AfterPreTurn)
    /\ UNCHANGED <<turnVars, phase, cancelled, outcomes, verifyVars, streakVars,
                   costVars, marker, runVars, history>>

\* PendingResumePolicy: the call that waited for approval is executed before
\* the model is asked.  It may fail, with or without having been carried out.
RemainingSidecars == {None} \cup (IF DeleteMayFail THEN {sidecar} ELSE {})

ResumePending ==
    /\ pc = "pre_turn" /\ turn = 0 /\ sidecar # None
    /\ sidecar' \in RemainingSidecars
    /\ \/ /\ sidecar \in {"edit", "change"}
          /\ history' = Append(history, Changed(sidecar, "resume"))
       \/ history' = history
    /\ Goto(AfterPreTurn)
    /\ UNCHANGED <<turnVars, phase, cancelled, outcomes, verifyVars, streakVars,
                   costVars, marker, runs>>
-----------------------------------------------------------------------------
(***************************************************************************)
(* run_turn_with_events.                                                    *)
(***************************************************************************)

\* Compaction drops old entries; an auto-verify note is not protected from it.
NotesAfterCompaction == {marker} \cup (IF Compaction THEN {"none"} ELSE {})

\* The turn ends with an outcome: a text reply, a batch or one tool call.
ModelReply ==
    /\ pc = "model"
    /\ \E o \in Outcomes, c \in TurnCosts :
        /\ cur' = o
        /\ cost' = cost + c
        /\ phase' = IF o.tool = "done" THEN "Done" ELSE "Verifying"
        /\ history' = Append(history, EventOf(o))
    /\ marker' \in NotesAfterCompaction
    /\ Goto("budget_warning")
    /\ UNCHANGED <<turn, err, cancelled, outcomes, verifyVars, streakVars,
                   warned, runVars>>

\* The tool needs the operator's approval: the call is written to the sidecar
\* (best effort) and the run halts.
ApprovalHalt ==
    /\ pc = "model"
    /\ \E e \in Errors : e.kind = "approval"
    /\ \E k \in Tools \ {"done"} :
        sidecar' \in {sidecar, k}
    /\ phase' = "Executing"
    /\ marker' \in NotesAfterCompaction
    /\ Finish("ApprovalRequired")
    /\ UNCHANGED <<turnVars, cancelled, outcomes, verifyVars, streakVars,
                   costVars, runs, history>>

\* The turn ends with an error: the provider call failed (the phase is as it
\* was), or the tool call did.  The usage of the turn is lost.  A post hook
\* fails after the tool was carried out.
ModelError ==
    /\ pc = "model"
    /\ \E e \in Errors :
        /\ e.kind # "approval"
        /\ err' = e
        /\ \/ phase' \in {phase, "Executing"}
              /\ history' = Append(history, Event("error", "model", "none", e.sig))
           \/ /\ HooksMayFail
              /\ phase' = "Executing"
              /\ \E k \in Tools \cap {"edit", "change"} :
                    history' = Append(Append(history, Changed(k, "posthook")),
                                      Event("error", "model", "none", e.sig))
    /\ marker' \in NotesAfterCompaction
    /\ Goto("turn_error")
    /\ UNCHANGED <<turn, cur, cancelled, outcomes, verifyVars, streakVars,
                   costVars, runVars>>
-----------------------------------------------------------------------------
(***************************************************************************)
(* The error path: the driver's cancel check, then ErrorRecoveryPolicy.     *)
(***************************************************************************)
ErrorInterrupted ==
    /\ pc = "turn_error" /\ cancelled
    /\ Finish("Interrupted")
    /\ UNCHANGED <<turnVars, phase, cancelled, outcomes, verifyVars, streakVars,
                   costVars, marker, runVars, history>>

ConfigError ==
    /\ pc = "turn_error" /\ ~cancelled /\ err.kind = "config"
    /\ HookThen(Finish("Interrupted"))
    /\ UNCHANGED <<turnVars, phase, cancelled, outcomes, verifyVars, streakVars,
                   costVars, marker, runVars, history>>

MutRecoveryExhausted(s) == s.n > ErrorCap
RecoveryExhausted(s) == s.n >= ErrorCap

RecoverFromError ==
    /\ pc = "turn_error" /\ ~cancelled /\ err.kind # "config"
    /\ phase' = "Recovering"
    /\ LET streak == Bump(errorStreak, err.sig) IN
        \/ /\ errorStreak' = streak
           /\ ~RecoveryExhausted(streak) /\ NextTurn
        \/ /\ errorStreak' = streak
           /\ RecoveryExhausted(streak) /\ HookThen(Finish("Interrupted"))
           /\ UNCHANGED turnVars
        \/ HooksMayFail /\ Fail /\ UNCHANGED <<errorStreak, turnVars>>
    /\ UNCHANGED <<cancelled, outcomes, verifyVars, stuckStreak, costVars,
                   marker, runVars, history>>
-----------------------------------------------------------------------------
(***************************************************************************)
(* The post_turn policies, in the order of the policy list.                 *)
(***************************************************************************)
WarningDue == Budget > 0 /\ WarnAt > 0 /\ cost >= WarnAt /\ ~warned

\* ErrorRecoveryPolicy forgets its streak; BudgetWarningPolicy warns once.
BudgetWarning ==
    /\ pc = "budget_warning"
    /\ errorStreak' = NoStreak
    /\ \/ warned' = (warned \/ WarningDue) /\ Goto("stuck_detector")
       \/ WarningDue /\ HooksMayFail /\ Fail /\ UNCHANGED warned
    /\ UNCHANGED <<turnVars, phase, cancelled, outcomes, verifyVars,
                   stuckStreak, cost, marker, runVars, history>>

MutStuckAbort(s) == s.n > 2 * StuckThreshold
StuckAbort(s) == s.n >= 2 * StuckThreshold

StuckDetector ==
    /\ pc = "stuck_detector"
    /\ LET streak == Bump(stuckStreak, <<cur.tool, cur.label>>) IN
        /\ stuckStreak' = streak
        /\ \/ /\ streak.n < StuckThreshold
              /\ Goto("auto_verify") /\ UNCHANGED <<phase, outcomes>>
           \/ /\ streak.n >= StuckThreshold /\ ~StuckAbort(streak)
              /\ phase' = "Recovering"
              /\ HookThen(Goto("auto_verify")) /\ UNCHANGED outcomes
           \/ /\ StuckAbort(streak)
              /\ phase' = "Recovering"
              /\ \/ Finish("Interrupted") /\ outcomes' = Append(outcomes, cur)
                 \/ HooksMayFail /\ Fail /\ UNCHANGED outcomes
    /\ UNCHANGED <<turnVars, cancelled, errorStreak, verifyVars, costVars,
                   marker, runVars, history>>

\* The last policy of the chain hands over to the driver, which pushes the
\* outcome and goes on with the done gates or the budget check.
AfterAutoVerify == IF AutoFix THEN "auto_fix"
                   ELSE IF cur.tool = "done" THEN "preflight" ELSE "budget_check"

AutoVerifyContinue ==
    /\ Goto(AfterAutoVerify)
    /\ outcomes' = IF AutoFix THEN outcomes ELSE Append(outcomes, cur)
    /\ UNCHANGED phase

MarksDirty(o) == o.tool = "edit" /\ Succeeded(o)
MutFlushDue == dirty /\ ~MarksDirty(cur) /\ cur.tool \notin {"verify", "done"}
FlushDue == dirty /\ ~MarksDirty(cur) /\ cur.tool # "verify"

\* A successful edit marks the burst dirty; the model's own verify settles it.
AutoVerifyWait ==
    /\ pc = "auto_verify" /\ ~(AutoVerify /\ FlushDue)
    /\ dirty' = IF ~AutoVerify THEN dirty
                ELSE MarksDirty(cur) \/ (dirty /\ cur.tool # "verify")
    /\ flushFail' = IF AutoVerify /\ cur.tool = "verify" /\ Succeeded(cur)
                    THEN NoStreak ELSE flushFail
    /\ AutoVerifyContinue
    /\ UNCHANGED <<turnVars, cancelled, streakVars, fixFail, costVars, marker,
                   runVars, history>>

BreakerTrips(s) == s.n >= FixCap

MutFlushTrips(v, s) == v = "failed" /\ AutoFix /\ s.n > FixCap
FlushTrips(v, s) == v = "failed" /\ AutoFix /\ BreakerTrips(s)

\* Any other turn flushes the burst with one verify_build.
AutoVerifyFlush ==
    /\ pc = "auto_verify" /\ AutoVerify /\ FlushDue
    /\ dirty' = FALSE
    /\ \E v \in Verdicts, s \in Sigs :
        LET streak == Bump(flushFail, s)
        IN  /\ marker' = v
            /\ history' = Append(history,
                    Event("verify", "flush", v, IF v = "failed" THEN s ELSE None))
            /\ flushFail' = IF v \in {"passed", "skipped"} THEN NoStreak
                            ELSE IF v = "failed" /\ AutoFix THEN streak ELSE flushFail
            /\ \/ ~FlushTrips(v, streak) /\ AutoVerifyContinue
               \/ /\ FlushTrips(v, streak) /\ phase' = "Recovering"
                  /\ \/ Finish("Interrupted") /\ outcomes' = Append(outcomes, cur)
                     \/ HooksMayFail /\ Fail /\ UNCHANGED outcomes
    /\ UNCHANGED <<turnVars, cancelled, streakVars, fixFail, costVars, runVars>>

\* AutoFixLoopPolicy counts the model's own failing verifies.
MutCountsForFix(o) == o.tool = "verify" /\ Succeeded(o)
CountsForFix(o) == o.tool = "verify" /\ ~Succeeded(o)

AutoFixPolicy ==
    /\ pc = "auto_fix"
    /\ LET streak == Bump(fixFail, cur.sig) IN
        \/ /\ ~CountsForFix(cur)
           /\ fixFail' = NoStreak
           /\ outcomes' = Append(outcomes, cur)
           /\ Goto(IF cur.tool = "done" THEN "preflight" ELSE "budget_check")
           /\ UNCHANGED phase
        \/ /\ CountsForFix(cur) /\ ~BreakerTrips(streak)
           /\ fixFail' = streak
           /\ outcomes' = Append(outcomes, cur)
           /\ Goto("budget_check")
           /\ UNCHANGED phase
        \/ /\ CountsForFix(cur) /\ BreakerTrips(streak)
           /\ fixFail' = streak
           /\ phase' = "Recovering"
           /\ \/ Finish("Interrupted") /\ outcomes' = Append(outcomes, cur)
              \/ HooksMayFail /\ Fail /\ UNCHANGED outcomes
    /\ UNCHANGED <<turnVars, cancelled, dirty, flushFail, streakVars, costVars,
                   marker, runVars, history>>
-----------------------------------------------------------------------------
(***************************************************************************)
(* The on_done gates and the budget check.                                  *)
(***************************************************************************)
IsMutation(o) == o.tool \in {"edit", "change"} /\ Succeeded(o)

\* PreflightPolicy::unverified_mutation_reason: the newest successful mutation
\* is not followed by a successful verify outcome, and the newest auto-verify
\* note does not excuse it.
Uncovered(outs) ==
    \E i \in 1..Len(outs) :
        /\ IsMutation(outs[i])
        /\ \A j \in i + 1 .. Len(outs) :
            ~IsMutation(outs[j]) /\ ~(outs[j].tool = "verify" /\ Succeeded(outs[j]))

MutExcuses(note) == note # "none"
Excuses(note) == note \in {"passed", "skipped", "couldnotrun"}

AfterPreflight == IF GoalGate THEN "goal_checker"
                  ELSE IF AutoGrade THEN "auto_grade" ELSE "finished"

Preflight ==
    /\ pc = "preflight"
    /\ \/ /\ Uncovered(outcomes) /\ ~Excuses(marker)
          /\ NextTurn
       \/ /\ ~(Uncovered(outcomes) /\ ~Excuses(marker))
          /\ IF AfterPreflight = "finished" THEN Finish("Done") ELSE Goto(AfterPreflight)
          /\ UNCHANGED turnVars
    /\ UNCHANGED <<phase, cancelled, outcomes, verifyVars, streakVars, costVars,
                   marker, runVars, history>>

\* GoalCheckerPolicy: an error of the provider leaves the run.
GoalChecker ==
    /\ pc = "goal_checker"
    /\ \E c \in GateCosts :
        \/ /\ cost' = cost + c                       \* satisfied
           /\ IF AutoGrade THEN Goto("auto_grade") ELSE Finish("Done")
           /\ UNCHANGED <<phase, turnVars>>
        \/ /\ cost' = cost + c                       \* not satisfied
           /\ phase' = "Recovering"
           /\ \/ NextTurn
              \/ HooksMayFail /\ Fail /\ UNCHANGED turnVars
        \/ Fail /\ UNCHANGED <<cost, phase, turnVars>>
    /\ UNCHANGED <<cancelled, outcomes, verifyVars, streakVars, warned,
                   marker, runVars, history>>

\* AutoGradePolicy: no diff to grade, a grader that is unavailable, a pass, or
\* a rejection.
AutoGrader ==
    /\ pc = "auto_grade"
    /\ \/ Finish("Done") /\ UNCHANGED <<phase, cost, turnVars>>
       \/ \E c \in GateCosts :
            /\ cost' = cost + c
            /\ \/ Finish("Done") /\ UNCHANGED <<phase, turnVars>>
               \/ phase' = "Recovering" /\ NextTurn
    /\ UNCHANGED <<cancelled, outcomes, verifyVars, streakVars, warned,
                   marker, runVars, history>>

MutOverBudget == Budget > 0 /\ cost > Budget
OverBudget == Budget > 0 /\ cost >= Budget

BudgetCheck ==
    /\ pc = "budget_check"
    /\ \/ /\ OverBudget
          /\ phase' = "Recovering"
          /\ Finish("Budget")
          /\ UNCHANGED turnVars
       \/ ~OverBudget /\ NextTurn /\ UNCHANGED phase
    /\ UNCHANGED <<cancelled, outcomes, verifyVars, streakVars, costVars,
                   marker, runVars, history>>

\* The next run of the same agent: the policies are built anew, the context
\* (its newest note), the phase and the sidecar are what the last run left.
NextRun ==
    /\ Over /\ runs < MaxRuns
    /\ runs' = runs + 1
    /\ turn' = 0 /\ pc' = "turn_start" /\ reason' = None /\ cancelled' = FALSE
    /\ cur' = None /\ outcomes' = << >> /\ err' = None
    /\ dirty' = FALSE /\ flushFail' = NoStreak /\ fixFail' = NoStreak
    /\ errorStreak' = NoStreak /\ stuckStreak' = NoStreak
    /\ cost' = 0 /\ warned' = FALSE /\ finishedEvents' = 0
    /\ history' = << >>
    /\ UNCHANGED <<phase, marker, sidecar>>

\* The agent is idle once its last run is over.
Idle == Over /\ runs >= MaxRuns /\ UNCHANGED vars

Step ==
    \/ TurnLimit \/ TurnStart \/ NothingToResume \/ ResumePending
    \/ ModelReply \/ ApprovalHalt \/ ModelError
    \/ ErrorInterrupted \/ ConfigError \/ RecoverFromError
    \/ BudgetWarning \/ StuckDetector
    \/ AutoVerifyWait \/ AutoVerifyFlush \/ AutoFixPolicy
    \/ Preflight \/ GoalChecker \/ AutoGrader \/ BudgetCheck

Next == Step \/ Cancel \/ NextRun \/ Idle

\* The loop is one async task: whatever it awaits (provider, tool, hook)
\* returns in the end, and the executor polls it again.
Spec == Init /\ [][Next]_vars /\ WF_vars(Step)
-----------------------------------------------------------------------------
(***************************************************************************)
(* Properties.                                                              *)
(***************************************************************************)
EventSet == [kind : {"edit", "change", "verify", "reply", "error", "cancel"},
             by : {"model", "resume", "posthook", "flush", "operator"},
             verdict : Markers, sig : Sigs \cup {None}]
Streaks(X) == [of : X \cup {None}, n : Nat]

\* Every variable of the loop has the type the code gives it.
TypeOK ==
    /\ turn \in Nat /\ pc \in Points /\ phase \in Phases
    /\ reason \in Reasons \cup {None}
    /\ cancelled \in BOOLEAN /\ dirty \in BOOLEAN /\ warned \in BOOLEAN
    /\ cur \in Outcomes \cup {None} /\ outcomes \in Seq(Outcomes)
    /\ err \in Errors \cup {None}
    /\ flushFail \in Streaks(Sigs) /\ fixFail \in Streaks(Sigs)
    /\ errorStreak \in Streaks(Sigs)
    /\ stuckStreak \in Streaks(ToolKinds \X Labels)
    /\ cost \in Nat /\ marker \in Markers
    /\ sidecar \in ToolKinds \cup {None}
    /\ runs \in Nat /\ finishedEvents \in Nat
    /\ history \in Seq(EventSet)

DoneAccepted == pc = "finished" /\ reason = "Done"

\* An edit whose turn produced an outcome, with no attempt to verify since.
UnverifiedEdit(h) ==
    \E i \in 1..Len(h) :
        /\ h[i].kind = "edit" /\ h[i].by = "model"
        /\ \A j \in i + 1 .. Len(h) : h[j].kind # "verify"

\* The last verify was run by `by`, after an edit, and it failed.
LastVerifyFailed(h, by) ==
    \E i \in 1..Len(h) :
        /\ h[i].kind = "verify" /\ h[i].verdict = "failed" /\ h[i].by = by
        /\ \A j \in i + 1 .. Len(h) : h[j].kind # "verify"
        /\ \E k \in 1 .. i - 1 : h[k].kind = "edit"

\* With auto-verify on, agent_done is never accepted over an edit that no
\* verify has looked at (the burst is flushed on the turn that says done).
DoneNeverBlind == DoneAccepted /\ AutoVerify => ~UnverifiedEdit(history)

\* agent_done is never accepted when the last verify is an automatic one that
\* failed, whatever notes compaction dropped and whatever came in between.
FailedFlushBlocksDone == DoneAccepted => ~LastVerifyFailed(history, "flush")

\* How many times P held since R last did, at the end of h.
Since(h, P(_), R(_)) ==
    Cardinality({i \in 1..Len(h) :
        P(h[i]) /\ \A j \in i + 1 .. Len(h) : ~R(h[j])})
Below(n, cap) == n = 0 \/ n < cap

\* The circuit breaker of auto-verify: the loop never begins another turn after
\* FixCap identical automatic failures with no green verify between them.
FlushBreaker ==
    pc = "turn_start" /\ AutoFix =>
        \A s \in Sigs :
            LET Fails(e)  == e.kind = "verify" /\ e.by = "flush" /\ e.sig = s
                Resets(e) == /\ e.kind = "verify"
                             /\ \/ e.verdict \in {"passed", "skipped"}
                                \/ e.by = "flush" /\ e.verdict = "failed" /\ e.sig # s
            IN  Below(Since(history, Fails, Resets), FixCap)

\* The circuit breaker of auto-fix: the same for the model's own failing
\* verifies on consecutive replies.
ModelBreaker ==
    pc = "turn_start" /\ AutoFix =>
        \A s \in Sigs :
            LET Fails(e)  == e.kind = "verify" /\ e.by = "model" /\ e.sig = s
                Resets(e) == e.by = "model" /\ e.kind # "error" /\ ~Fails(e)
            IN  Below(Since(history, Fails, Resets), FixCap)

\* A verify that keeps failing the same way ends the run, whoever calls it
\* (AutoVerifyAfterMutationPolicy, AutoFixLoopPolicy).
VerifyBreakers == FlushBreaker /\ ModelBreaker

\* Error recovery: the loop never begins another turn after ErrorCap errors
\* with one signature and no reply between them.
ErrorBreaker ==
    pc = "turn_start" =>
        \A s \in Sigs :
            LET Errs(e)   == e.kind = "error" /\ e.sig = s
                Resets(e) == e.by = "model" /\ ~Errs(e)
            IN  Since(history, Errs, Resets) < ErrorCap

\* Stuck detection: the loop never begins another turn after 2*StuckThreshold
\* replies with the same tool and summary, refused agent_done included.
StuckBound ==
    pc = "turn_start" =>
        \A o \in Outcomes :
            LET Same(x)  == x.tool = o.tool /\ x.label = o.label
                Other(x) == ~Same(x)
            IN  Since(outcomes, Same, Other) < 2 * StuckThreshold

\* A model that repeats an error or itself is stopped (ErrorRecoveryPolicy,
\* StuckDetectorPolicy).
RepetitionBreakers == ErrorBreaker /\ StuckBound

\* The loop never begins a turn at or over budget, except after a refused
\* agent_done, whose `continue` skips the check.
BudgetHolds ==
    pc = "turn_start" /\ Budget > 0 /\ outcomes # << >>
        /\ outcomes[Len(outcomes)].tool # "done" => cost < Budget

\* Once the operator has cancelled, at most the turn that was being taken is
\* finished: the model is not heard from twice.
CancelStops ==
    LET Heard(e)   == e.by = "model"
        Cancels(e) == e.kind = "cancel"
    IN  cancelled => Cardinality({i \in 1..Len(history) :
            Heard(history[i]) /\ \E j \in 1 .. i - 1 : Cancels(history[j])}) <= 1

Contract == INSTANCE RunContract WITH
    status <- IF pc \in {"finished", "failed"} THEN pc ELSE "running",
    why    <- reason,
    left   <- MaxTurns - turn,
    answer <- IF cur = None THEN None ELSE IF cur.tool = "done" THEN "done" ELSE "work",
    told   <- finishedEvents

\* The loop implements the abstract run: at most MaxTurns turns, one truthful
\* end with its one Finished event, or an error without, and an end at all.
ImplementsRunContract == Contract!Spec
-----------------------------------------------------------------------------
(***************************************************************************)
(* What the documents say and the code does not do (see README.md).         *)
(***************************************************************************)

\* README.md:24: agent_done is refused while the last verify failed.
DoneNeverAfterFailure ==
    DoneAccepted => ~LastVerifyFailed(history, "model")

=============================================================================
