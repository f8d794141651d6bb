-------------------------- MODULE AgentLoopProofs --------------------------
(***************************************************************************)
(* What holds of the agent loop for every bound, alphabet and switch.       *)
(*                                                                          *)
(* TypeOK is not inductive: the post_turn policies read the outcome of the  *)
(* turn and the error path reads its error, so the invariant also says that *)
(* they are there when they are read.                                       *)
(*                                                                          *)
(* The first half is about what agent_done is accepted over, the second     *)
(* about what ends a run: the contract the loop keeps with its host, the    *)
(* budget, the operator's cancel, and the breakers that stop a model which  *)
(* repeats an error, itself or a failing verify.                            *)
(***************************************************************************)
EXTENDS AgentLoop, FiniteSetTheorems, TLAPS

PostPoints == {"budget_warning", "stuck_detector", "auto_verify", "auto_fix"}

TypeInv == /\ TypeOK
           /\ pc \in PostPoints => cur # None
           /\ pc = "turn_error" => err # None

\* Counting an element of X keeps a streak over X.
LEMMA BumpType ==
    ASSUME NEW X, NEW s \in Streaks(X), NEW x \in X
    PROVE  Bump(s, x) \in Streaks(X)
BY DEF Bump, Streaks

\* The streak a policy starts from and resets to is one over any X.
LEMMA NoStreakType == ASSUME NEW X PROVE NoStreak \in Streaks(X)
BY DEF NoStreak, Streaks

\* Append keeps the element type of a sequence.
LEMMA AppendType ==
    ASSUME NEW S, NEW q \in Seq(S), NEW e \in S
    PROVE  Append(q, e) \in Seq(S)
OBVIOUS

\* The fields of a turn's outcome, and the event it is recorded as.
LEMMA OutcomeType ==
    ASSUME NEW o \in Outcomes
    PROVE  /\ o.tool \in ToolKinds /\ o.label \in Labels
           /\ o.sig \in Sigs \cup {None} /\ o.res \in {"ok", "skip", "fail"}
           /\ <<o.tool, o.label>> \in ToolKinds \X Labels
           /\ o.tool = "verify" /\ o.res = "fail" => o.sig \in Sigs
           /\ EventOf(o) \in EventSet
<1>1. o \in [tool : Tools, res : {"ok", "skip", "fail"}, label : Labels,
             sig : Sigs \cup {None}]
  BY DEF Outcomes
<1>2. (o.tool = "verify" /\ o.res = "fail") => o.sig # None
  BY DEF Outcomes
<1>3. o.tool \in ToolKinds
  BY <1>1, AlphabetAssumption
<1>4. EventOf(o) \in EventSet
  <2>1. VerdictOf(o) \in Markers
    BY <1>1 DEF VerdictOf, Markers, VerdictSet
  <2>2. CASE o.tool = "verify"
    BY <1>1, <2>1, <2>2 DEF EventOf, Event, EventSet
  <2>3. CASE o.tool # "verify" /\ o.tool \in {"edit", "change"} /\ o.res = "ok"
    BY <2>3 DEF EventOf, Event, Changed, EventSet, Markers
  <2>4. CASE o.tool # "verify" /\ ~(o.tool \in {"edit", "change"} /\ o.res = "ok")
    BY <2>4 DEF EventOf, Event, EventSet, Markers
  <2> QED BY <2>2, <2>3, <2>4
<1> QED BY <1>1, <1>2, <1>3, <1>4

\* The sets the alphabet constants are drawn from.
LEMMA Alphabets ==
    /\ Tools \subseteq ToolKinds /\ Verdicts \subseteq Markers
    /\ TurnCosts \subseteq Nat /\ GateCosts \subseteq Nat
    /\ \A e \in Errors : e.kind \in ErrorKinds /\ e.sig \in Sigs
BY AlphabetAssumption, BoundAssumption DEF Markers

\* What the events the loop records look like.
LEMMA EventType ==
    /\ \A k \in {"edit", "change"}, b \in {"resume", "posthook"} :
            Changed(k, b) \in EventSet
    /\ \A s \in Sigs : Event("error", "model", "none", s) \in EventSet
    /\ \A v \in Markers, s \in Sigs \cup {None} :
            Event("verify", "flush", v, s) \in EventSet
    /\ Event("cancel", "operator", "none", None) \in EventSet
BY DEF Changed, Event, EventSet, Markers

\* The initial state satisfies the invariant.
LEMMA TypeInit == Init => TypeInv
<1> SUFFICES ASSUME Init PROVE TypeInv
  OBVIOUS
<1>1. NoStreak \in Streaks(Sigs) /\ NoStreak \in Streaks(ToolKinds \X Labels)
  BY NoStreakType
<1>2. marker \in Markers
  BY AlphabetAssumption DEF Init
<1>3. << >> \in Seq(Outcomes) /\ << >> \in Seq(EventSet)
  OBVIOUS
<1>4. flushFail \in Streaks(Sigs) /\ fixFail \in Streaks(Sigs)
      /\ errorStreak \in Streaks(Sigs) /\ stuckStreak \in Streaks(ToolKinds \X Labels)
  BY <1>1 DEF Init
<1> QED
  BY <1>2, <1>3, <1>4 DEF Init, TypeInv, TypeOK, PostPoints, Points, Phases

\* Every step of the loop preserves it.
LEMMA TypeStep == TypeInv /\ [Next]_vars => TypeInv'
<1> SUFFICES ASSUME TypeInv, [Next]_vars PROVE TypeInv'
  OBVIOUS
<1> USE DEF TypeInv, TypeOK, PostPoints, Points, Phases, Reasons, Goto, Finish,
            Fail, NextTurn, verifyVars, streakVars, runVars, turnVars, costVars
<1>s. /\ NoStreak \in Streaks(Sigs) /\ NoStreak \in Streaks(ToolKinds \X Labels)
  BY NoStreakType
<1>1. CASE TurnLimit
  BY <1>1 DEF TurnLimit
<1>2. CASE TurnStart
  BY <1>2 DEF TurnStart
<1>3. CASE NothingToResume
  BY <1>3 DEF NothingToResume, AfterPreTurn
<1>4. CASE ResumePending
  BY <1>4, EventType DEF ResumePending, AfterPreTurn, RemainingSidecars
<1>5. CASE ModelReply
  <2>1. PICK o \in Outcomes, c \in TurnCosts :
            /\ cur' = o
            /\ cost' = cost + c
            /\ phase' = IF o.tool = "done" THEN "Done" ELSE "Verifying"
            /\ history' = Append(history, EventOf(o))
    BY <1>5 DEF ModelReply
  <2>2. history' \in Seq(EventSet)
    <3>1. EventOf(o) \in EventSet
      BY OutcomeType
    <3> QED
      BY <2>1, <3>1, AppendType
  <2>3. cost' \in Nat /\ phase' \in Phases /\ cur' \in Outcomes /\ cur' # None
    BY <2>1, Alphabets, NoneAssumption
  <2>4. marker' \in Markers
    BY <1>5 DEF ModelReply, NotesAfterCompaction, Markers
  <2> QED
    BY <1>5, <2>2, <2>3, <2>4 DEF ModelReply
<1>6. CASE ApprovalHalt
  BY <1>6, Alphabets DEF ApprovalHalt, NotesAfterCompaction, Markers
<1>7. CASE ModelError
  <2>1. PICK e \in Errors :
            /\ e.kind # "approval"
            /\ err' = e
            /\ \/ phase' \in {phase, "Executing"}
                  /\ history' = Append(history, Event("error", "model", "none", e.sig))
               \/ /\ HooksMayFail
                  /\ phase' = "Executing"
                  /\ \E k \in Tools \cap {"edit", "change"} :
                        history' = Append(Append(history, Changed(k, "posthook")),
                                          Event("error", "model", "none", e.sig))
    BY <1>7 DEF ModelError
  <2>2. history' \in Seq(EventSet)
    <3>1. Event("error", "model", "none", e.sig) \in EventSet
      BY Alphabets, EventType
    <3>2. CASE history' = Append(history, Event("error", "model", "none", e.sig))
      BY <3>1, <3>2, AppendType
    <3>3. ASSUME NEW k \in Tools \cap {"edit", "change"},
                 history' = Append(Append(history, Changed(k, "posthook")),
                                   Event("error", "model", "none", e.sig))
          PROVE  history' \in Seq(EventSet)
      <4>1. Changed(k, "posthook") \in EventSet
        BY EventType
      <4>2. Append(history, Changed(k, "posthook")) \in Seq(EventSet)
        BY <4>1, AppendType
      <4> QED
        BY <3>1, <3>3, <4>2, AppendType
    <3> QED
      BY <2>1, <3>2, <3>3
  <2>5. phase' \in Phases
    BY <2>1
  <2>3. marker' \in Markers
    BY <1>7 DEF ModelError, NotesAfterCompaction, Markers
  <2>4. err' \in Errors /\ err' # None
    BY <2>1, NoneAssumption
  <2> QED
    BY <1>7, <2>2, <2>3, <2>4, <2>5 DEF ModelError
<1>8. CASE ErrorInterrupted
  BY <1>8 DEF ErrorInterrupted
<1>9. CASE ConfigError
  BY <1>9 DEF ConfigError, HookThen
<1>10. CASE RecoverFromError
  <2>1. errorStreak' \in Streaks(Sigs)
    <3>1. err \in Errors
      BY <1>10 DEF RecoverFromError
    <3>2. err.sig \in Sigs
      BY <3>1, Alphabets
    <3>3. errorStreak' \in {errorStreak, Bump(errorStreak, err.sig)}
      BY <1>10 DEF RecoverFromError
    <3>4. Bump(errorStreak, err.sig) \in Streaks(Sigs)
      BY <3>2, BumpType
    <3> QED
      BY <3>3, <3>4
  <2>2. /\ phase' = "Recovering"
        /\ UNCHANGED <<cancelled, outcomes, verifyVars, stuckStreak, costVars,
                       marker, runVars, history>>
    BY <1>10 DEF RecoverFromError
  <2>3. \/ NextTurn
        \/ (Finish("Interrupted") \/ Fail) /\ UNCHANGED turnVars
    BY <1>10 DEF RecoverFromError, HookThen
  <2>4. CASE NextTurn
    BY <2>1, <2>2, <2>4
  <2>5. CASE (Finish("Interrupted") \/ Fail) /\ UNCHANGED turnVars
    BY <2>1, <2>2, <2>5
  <2> QED
    BY <2>3, <2>4, <2>5
<1>11. CASE BudgetWarning
  <2>1. errorStreak' \in Streaks(Sigs)
    BY <1>11, <1>s DEF BudgetWarning
  <2>2. warned' = (warned \/ WarningDue) \/ warned' = warned
    BY <1>11 DEF BudgetWarning
  <2>3. warned' \in BOOLEAN
    BY <2>2 DEF WarningDue
  <2>4. pc' \in {"stuck_detector", "failed"} /\ UNCHANGED <<reason, finishedEvents>>
    BY <1>11 DEF BudgetWarning
  <2>5. /\ pc = "budget_warning"
        /\ UNCHANGED <<turnVars, phase, cancelled, outcomes, verifyVars,
                       stuckStreak, cost, marker, runVars, history>>
    BY <1>11 DEF BudgetWarning
  <2> QED
    BY <2>1, <2>3, <2>4, <2>5
<1>12. CASE StuckDetector
  <2>1. cur \in Outcomes
    BY <1>12 DEF StuckDetector
  <2>2. stuckStreak' \in Streaks(ToolKinds \X Labels)
    BY <1>12, <2>1, BumpType, OutcomeType DEF StuckDetector
  <2>3. outcomes' \in Seq(Outcomes)
    <3>1. Append(outcomes, cur) \in Seq(Outcomes)
      BY <2>1, AppendType
    <3> QED
      BY <1>12, <3>1 DEF StuckDetector, HookThen
  <2>4. /\ phase' \in Phases
        /\ \/ pc' \in {"auto_verify", "failed"} /\ UNCHANGED <<reason, finishedEvents>>
           \/ Finish("Interrupted")
    BY <1>12 DEF StuckDetector, HookThen
  <2> QED
    BY <1>12, <2>2, <2>3, <2>4 DEF StuckDetector
<1>c. ASSUME pc = "auto_verify", AutoVerifyContinue
      PROVE  /\ outcomes' \in Seq(Outcomes) /\ phase' \in Phases
             /\ pc' \in {"auto_fix", "preflight", "budget_check"}
             /\ UNCHANGED <<reason, finishedEvents>>
  <2>1. Append(outcomes, cur) \in Seq(Outcomes)
    BY <1>c, AppendType
  <2> QED
    BY <1>c, <2>1 DEF AutoVerifyContinue, AfterAutoVerify
<1>13. CASE AutoVerifyWait
  <2>1. dirty' \in BOOLEAN
    <3>1. dirty' = dirty \/ dirty' = (MarksDirty(cur) \/ (dirty /\ cur.tool # "verify"))
      BY <1>13 DEF AutoVerifyWait
    <3> QED
      BY <3>1 DEF MarksDirty
  <2>2. flushFail' \in Streaks(Sigs)
    BY <1>13, <1>s DEF AutoVerifyWait
  <2> QED
    BY <1>13, <1>c, <2>1, <2>2 DEF AutoVerifyWait
<1>14. CASE AutoVerifyFlush
  <2>1. PICK v \in Verdicts, s \in Sigs :
            LET streak == Bump(flushFail, s)
            IN  /\ marker' = v
                /\ history' = Append(history,
                        Event("verify", "flush", v, IF v = "failed" THEN s ELSE None))
                /\ flushFail' = IF v \in {"passed", "skipped"} THEN NoStreak
                                ELSE IF v = "failed" /\ AutoFix THEN streak ELSE flushFail
                /\ \/ ~FlushTrips(v, streak) /\ AutoVerifyContinue
                   \/ /\ FlushTrips(v, streak) /\ phase' = "Recovering"
                      /\ \/ Finish("Interrupted") /\ outcomes' = Append(outcomes, cur)
                         \/ HooksMayFail /\ Fail /\ UNCHANGED outcomes
    BY <1>14 DEF AutoVerifyFlush
  <2>2. marker' \in Markers
    BY <2>1, Alphabets
  <2>3. history' \in Seq(EventSet)
    <3>1. Event("verify", "flush", v, IF v = "failed" THEN s ELSE None) \in EventSet
      BY Alphabets, EventType
    <3> QED
      BY <2>1, <3>1, AppendType
  <2>4. flushFail' \in Streaks(Sigs)
    <3>1. Bump(flushFail, s) \in Streaks(Sigs)
      BY BumpType
    <3> QED
      BY <2>1, <3>1, <1>s
  <2>5. /\ outcomes' \in Seq(Outcomes) /\ phase' \in Phases
        /\ \/ /\ pc' \in {"auto_fix", "preflight", "budget_check", "failed"}
              /\ UNCHANGED <<reason, finishedEvents>>
           \/ Finish("Interrupted")
    <3>1. pc = "auto_verify" /\ cur \in Outcomes
      BY <1>14 DEF AutoVerifyFlush
    <3>2. Append(outcomes, cur) \in Seq(Outcomes)
      BY <3>1, AppendType
    <3> QED
      BY <2>1, <3>1, <3>2, <1>c
  <2>6. /\ pc = "auto_verify" /\ dirty' \in BOOLEAN
        /\ UNCHANGED <<turnVars, cancelled, streakVars, fixFail, costVars, runVars>>
    BY <1>14 DEF AutoVerifyFlush
  <2> QED
    BY <2>2, <2>3, <2>4, <2>5, <2>6
<1>15. CASE AutoFixPolicy
  <2>1. cur \in Outcomes
    BY <1>15 DEF AutoFixPolicy
  <2>2. Append(outcomes, cur) \in Seq(Outcomes)
    BY <2>1, AppendType
  <2>3. CountsForFix(cur) => Bump(fixFail, cur.sig) \in Streaks(Sigs)
    <3>1. CountsForFix(cur) => cur.sig \in Sigs
      BY <2>1, OutcomeType DEF CountsForFix, Succeeded
    <3> QED
      BY <3>1, BumpType
  <2>4. fixFail' \in Streaks(Sigs) /\ outcomes' \in Seq(Outcomes) /\ phase' \in Phases
    BY <1>15, <2>2, <2>3, <1>s DEF AutoFixPolicy
  <2>5. \/ /\ pc' \in {"preflight", "budget_check", "failed"}
           /\ UNCHANGED <<reason, finishedEvents>>
        \/ Finish("Interrupted")
    BY <1>15 DEF AutoFixPolicy
  <2> QED
    BY <1>15, <2>4, <2>5 DEF AutoFixPolicy
<1>16. CASE Preflight
  BY <1>16 DEF Preflight, AfterPreflight
<1>17. CASE GoalChecker
  BY <1>17, Alphabets DEF GoalChecker
<1>18. CASE AutoGrader
  BY <1>18, Alphabets, SMTT(30) DEF AutoGrader
<1>19. CASE BudgetCheck
  BY <1>19 DEF BudgetCheck
<1>20. CASE Cancel
  BY <1>20, EventType DEF Cancel
<1>21. CASE NextRun
  <2>1. << >> \in Seq(Outcomes) /\ << >> \in Seq(EventSet)
    OBVIOUS
  <2>2. /\ flushFail' \in Streaks(Sigs) /\ fixFail' \in Streaks(Sigs)
        /\ errorStreak' \in Streaks(Sigs)
        /\ stuckStreak' \in Streaks(ToolKinds \X Labels)
    BY <1>21, <1>s DEF NextRun
  <2>3. outcomes' \in Seq(Outcomes) /\ history' \in Seq(EventSet)
    BY <1>21, <2>1 DEF NextRun
  <2>4. cancelled' \in BOOLEAN /\ dirty' \in BOOLEAN /\ warned' \in BOOLEAN
    BY <1>21 DEF NextRun
  <2>5. /\ cur' = None /\ err' = None /\ reason' = None
        /\ pc' = "turn_start" /\ turn' = 0 /\ cost' = 0
        /\ finishedEvents' = 0 /\ runs' \in Nat
        /\ UNCHANGED <<phase, marker, sidecar>>
    BY <1>21 DEF NextRun
  <2> QED
    BY <2>2, <2>3, <2>4, <2>5
<1>22. CASE UNCHANGED vars
  BY <1>22 DEF vars
<1> QED
  BY <1>1, <1>2, <1>3, <1>4, <1>5, <1>6, <1>7, <1>8, <1>9, <1>10, <1>11, <1>12,
     <1>13, <1>14, <1>15, <1>16, <1>17, <1>18, <1>19, <1>20, <1>21, <1>22
  DEF Next, Step, Idle

\* Every variable has its type in every reachable state, whatever the bounds,
\* the alphabets and the switches are.
THEOREM TypeCorrect == Spec => []TypeOK
<1>1. Init => TypeInv
  BY TypeInit
<1>2. TypeInv /\ [Next]_vars => TypeInv'
  BY TypeStep
<1>3. TypeInv => TypeOK
  BY DEF TypeInv
<1> QED
  BY <1>1, <1>2, <1>3, PTL DEF Spec
-----------------------------------------------------------------------------
(***************************************************************************)
(* agent_done is never accepted over an edit nothing has looked at.         *)
(*                                                                          *)
(* While an edit waits for its verify either the policy's dirty flag is up  *)
(* or the edit is the outcome the post_turn chain is still handling; after  *)
(* the model's own verify, and past the auto-verify policy in a turn that   *)
(* says done, nothing is waiting.                                           *)
(***************************************************************************)
BeforeAutoVerify == {"budget_warning", "stuck_detector", "auto_verify"}

Pending == dirty \/ (pc \in BeforeAutoVerify /\ MarksDirty(cur))

Settled ==
    \/ pc \in BeforeAutoVerify /\ cur.tool = "verify"
    \/ pc = "auto_fix" /\ cur.tool = "done"
    \/ pc \in {"preflight", "goal_checker", "auto_grade"}
    \/ DoneAccepted

BlindInv ==
    AutoVerify /\ UnverifiedEdit(history) =>
        /\ ~Settled
        /\ Over \/ Pending

\* What one more event does to "there is an unverified edit".
LEMMA UnverifiedAppend ==
    ASSUME NEW h \in Seq(EventSet), NEW e \in EventSet
    PROVE  UnverifiedEdit(Append(h, e)) <=>
               \/ e.kind = "edit" /\ e.by = "model"
               \/ e.kind # "verify" /\ UnverifiedEdit(h)
<1> DEFINE g == Append(h, e)
<1>1. /\ Len(g) = Len(h) + 1 /\ g[Len(h) + 1] = e
      /\ \A i \in 1..Len(h) : g[i] = h[i]
      /\ Len(h) \in Nat
  OBVIOUS
<1>2. ASSUME UnverifiedEdit(g)
      PROVE  \/ e.kind = "edit" /\ e.by = "model"
             \/ e.kind # "verify" /\ UnverifiedEdit(h)
  <2>1. PICK i \in 1..Len(g) : /\ g[i].kind = "edit" /\ g[i].by = "model"
                               /\ \A j \in i + 1 .. Len(g) : g[j].kind # "verify"
    BY <1>2 DEF UnverifiedEdit
  <2>2. CASE i = Len(h) + 1
    BY <1>1, <2>1, <2>2
  <2>3. CASE i \in 1..Len(h)
    <3>1. g[Len(h) + 1].kind # "verify"
      BY <1>1, <2>1, <2>3
    <3>2. h[i].kind = "edit" /\ h[i].by = "model"
          /\ \A j \in i + 1 .. Len(h) : h[j].kind # "verify"
      BY <1>1, <2>1, <2>3
    <3> QED
      BY <1>1, <2>3, <3>1, <3>2 DEF UnverifiedEdit
  <2> QED
    BY <1>1, <2>1, <2>2, <2>3
<1>3. ASSUME e.kind = "edit", e.by = "model" PROVE UnverifiedEdit(g)
  BY <1>1, <1>3 DEF UnverifiedEdit
<1>4. ASSUME e.kind # "verify", UnverifiedEdit(h) PROVE UnverifiedEdit(g)
  <2>1. PICK i \in 1..Len(h) : /\ h[i].kind = "edit" /\ h[i].by = "model"
                               /\ \A j \in i + 1 .. Len(h) : h[j].kind # "verify"
    BY <1>4 DEF UnverifiedEdit
  <2>2. \A j \in i + 1 .. Len(g) : g[j].kind # "verify"
    BY <1>1, <1>4, <2>1
  <2> QED
    BY <1>1, <2>1, <2>2 DEF UnverifiedEdit
<1> QED
  BY <1>2, <1>3, <1>4

\* Every step preserves it: an edit sets the flag on its way to the gates, and
\* the flag is only taken down by a verify.
LEMMA BlindStep == TypeInv /\ BlindInv /\ [Next]_vars => BlindInv'
<1> SUFFICES ASSUME TypeInv, BlindInv, [Next]_vars, AutoVerify, UnverifiedEdit(history)'
             PROVE  ~Settled' /\ (Over' \/ Pending')
  BY DEF BlindInv
<1> USE DEF Goto, Finish, Fail, NextTurn, verifyVars, streakVars, runVars, turnVars,
            costVars, Over, BeforeAutoVerify, DoneAccepted
<1>h. history \in Seq(EventSet)
  BY DEF TypeInv, TypeOK
<1>q. ASSUME history' = history
      PROVE  UnverifiedEdit(history) /\ ~Settled /\ (Over \/ Pending)
  BY <1>q DEF BlindInv, UnverifiedEdit
<1>e. ASSUME NEW e \in EventSet, history' = Append(history, e), e.by # "model"
      PROVE  UnverifiedEdit(history) /\ ~Settled /\ (Over \/ Pending)
  <2>1. UnverifiedEdit(Append(history, e))
    BY <1>e DEF UnverifiedEdit
  <2> QED
    BY <1>e, <1>h, <2>1, UnverifiedAppend DEF BlindInv
<1>1. CASE TurnLimit
  BY <1>1, <1>q DEF TurnLimit, Settled
<1>2. CASE TurnStart
  BY <1>2, <1>q DEF TurnStart, Settled, Pending
<1>3. CASE NothingToResume
  BY <1>3, <1>q DEF NothingToResume, AfterPreTurn, Settled, Pending
<1>4. CASE ResumePending
  <2>1. UnverifiedEdit(history) /\ (Over \/ Pending)
    <3>1. CASE history' = history
      BY <3>1, <1>q
    <3>2. CASE sidecar \in {"edit", "change"}
               /\ history' = Append(history, Changed(sidecar, "resume"))
      <4>1. Changed(sidecar, "resume") \in EventSet
        BY <3>2, EventType
      <4>2. Changed(sidecar, "resume").by # "model"
        BY DEF Changed, Event
      <4> QED
        BY <3>2, <4>1, <4>2, <1>e
    <3> QED
      BY <1>4, <3>1, <3>2 DEF ResumePending
  <2> QED
    BY <1>4, <2>1 DEF ResumePending, AfterPreTurn, Settled, Pending
<1>5. CASE ModelReply
  <2>1. PICK o \in Outcomes : cur' = o /\ history' = Append(history, EventOf(o))
    BY <1>5 DEF ModelReply
  <2>2. EventOf(o) \in EventSet
    BY OutcomeType
  <2>3. \/ EventOf(o).kind = "edit" /\ EventOf(o).by = "model"
        \/ EventOf(o).kind # "verify" /\ UnverifiedEdit(history)
    <3>1. UnverifiedEdit(Append(history, EventOf(o)))
      BY <2>1 DEF UnverifiedEdit
    <3> QED
      BY <1>h, <2>2, <3>1, UnverifiedAppend
  <2>4. o.tool # "verify"
    BY <2>3 DEF EventOf, Event, Changed
  <2>5. pc = "model" /\ pc' = "budget_warning" /\ dirty' = dirty
    BY <1>5 DEF ModelReply
  <2>6. ~Settled'
    BY <2>1, <2>4, <2>5 DEF Settled
  <2>7. CASE EventOf(o).kind = "edit"
    <3>1. MarksDirty(o)
      BY <2>7 DEF EventOf, Event, Changed, MarksDirty, Succeeded
    <3> QED
      BY <2>1, <2>5, <2>6, <3>1 DEF Pending
  <2>8. CASE UnverifiedEdit(history)
    BY <2>5, <2>6, <2>8 DEF BlindInv, Pending
  <2> QED
    BY <2>3, <2>7, <2>8
<1>6. CASE ApprovalHalt
  BY <1>6, <1>q DEF ApprovalHalt, Settled
<1>7. CASE ModelError
  <2>1. PICK e \in Errors :
            \/ history' = Append(history, Event("error", "model", "none", e.sig))
            \/ \E k \in Tools \cap {"edit", "change"} :
                  history' = Append(Append(history, Changed(k, "posthook")),
                                    Event("error", "model", "none", e.sig))
    BY <1>7 DEF ModelError
  <2>2. /\ Event("error", "model", "none", e.sig) \in EventSet
        /\ Event("error", "model", "none", e.sig).kind = "error"
    <3>1. e.sig \in Sigs
      BY Alphabets
    <3> QED
      BY <3>1, EventType DEF Event
  <2>3. UnverifiedEdit(history)
    <3>1. CASE history' = Append(history, Event("error", "model", "none", e.sig))
      <4>1. UnverifiedEdit(Append(history, Event("error", "model", "none", e.sig)))
        BY <3>1 DEF UnverifiedEdit
      <4> QED
        BY <1>h, <2>2, <4>1, UnverifiedAppend
    <3>2. ASSUME NEW k \in Tools \cap {"edit", "change"},
                 history' = Append(Append(history, Changed(k, "posthook")),
                                   Event("error", "model", "none", e.sig))
          PROVE  UnverifiedEdit(history)
      <4> DEFINE g == Append(history, Changed(k, "posthook"))
      <4>1. Changed(k, "posthook") \in EventSet /\ Changed(k, "posthook").by # "model"
        BY EventType DEF Changed, Event
      <4>2. g \in Seq(EventSet)
        BY <1>h, <4>1, AppendType
      <4>3. UnverifiedEdit(Append(g, Event("error", "model", "none", e.sig)))
        BY <3>2 DEF UnverifiedEdit
      <4> HIDE DEF g
      <4>4. UnverifiedEdit(g)
        BY <2>2, <4>2, <4>3, UnverifiedAppend
      <4> QED
        BY <1>h, <4>1, <4>4, UnverifiedAppend DEF g
    <3> QED
      BY <2>1, <3>1, <3>2
  <2>4. pc = "model" /\ pc' = "turn_error" /\ dirty' = dirty
    BY <1>7 DEF ModelError
  <2> QED
    BY <2>3, <2>4 DEF BlindInv, Settled, Pending
<1>8. CASE ErrorInterrupted
  BY <1>8, <1>q DEF ErrorInterrupted, Settled
<1>9. CASE ConfigError
  BY <1>9, <1>q DEF ConfigError, HookThen, Settled
<1>10. CASE RecoverFromError
  BY <1>10, <1>q DEF RecoverFromError, HookThen, Settled, Pending
<1>11. CASE BudgetWarning
  BY <1>11, <1>q DEF BudgetWarning, Settled, Pending
<1>12. CASE StuckDetector
  BY <1>12, <1>q DEF StuckDetector, HookThen, Settled, Pending
<1>13. CASE AutoVerifyWait
  <2>1. pc = "auto_verify" /\ cur' = cur /\ ~FlushDue
    BY <1>13 DEF AutoVerifyWait
  <2>2. UnverifiedEdit(history) /\ cur.tool # "verify" /\ Pending
    BY <1>13, <1>q, <2>1 DEF AutoVerifyWait, Settled
  <2>3. MarksDirty(cur)
    BY <2>1, <2>2 DEF FlushDue, Pending
  <2>4. dirty' = TRUE
    BY <1>13, <2>3 DEF AutoVerifyWait
  <2>5. cur.tool = "edit" /\ pc' \in {"auto_fix", "budget_check"}
    BY <1>13, <2>3 DEF AutoVerifyWait, AutoVerifyContinue, AfterAutoVerify, MarksDirty
  <2> QED
    BY <2>1, <2>4, <2>5 DEF Settled, Pending
<1>14. CASE AutoVerifyFlush
  <2>1. PICK v \in Verdicts, s \in Sigs :
            history' = Append(history,
                Event("verify", "flush", v, IF v = "failed" THEN s ELSE None))
    BY <1>14 DEF AutoVerifyFlush
  <2> DEFINE e == Event("verify", "flush", v, IF v = "failed" THEN s ELSE None)
  <2>2. e \in EventSet /\ e.kind = "verify"
    BY Alphabets, EventType DEF Event
  <2>3. UnverifiedEdit(Append(history, e))
    BY <2>1 DEF UnverifiedEdit
  <2> HIDE DEF e
  <2> QED
    BY <1>h, <2>2, <2>3, UnverifiedAppend
<1>15. CASE AutoFixPolicy
  BY <1>15, <1>q DEF AutoFixPolicy, CountsForFix, Settled, Pending
<1>16. CASE Preflight
  BY <1>16, <1>q DEF Preflight, Settled
<1>17. CASE GoalChecker
  BY <1>17, <1>q DEF GoalChecker, Settled
<1>18. CASE AutoGrader
  BY <1>18, <1>q DEF AutoGrader, Settled
<1>19. CASE BudgetCheck
  BY <1>19, <1>q DEF BudgetCheck, Settled, Pending
<1>20. CASE Cancel
  <2>1. /\ Event("cancel", "operator", "none", None) \in EventSet
        /\ Event("cancel", "operator", "none", None).by # "model"
    BY EventType DEF Event
  <2>2. UnverifiedEdit(history) /\ ~Settled /\ (Over \/ Pending)
    BY <1>20, <2>1, <1>e DEF Cancel
  <2> QED
    BY <1>20, <2>2 DEF Cancel, Settled, Pending
<1>21. CASE NextRun
  BY <1>21 DEF NextRun, UnverifiedEdit
<1>22. CASE UNCHANGED vars
  BY <1>22, <1>q DEF vars, Settled, Pending
<1> QED
  BY <1>1, <1>2, <1>3, <1>4, <1>5, <1>6, <1>7, <1>8, <1>9, <1>10, <1>11, <1>12,
     <1>13, <1>14, <1>15, <1>16, <1>17, <1>18, <1>19, <1>20, <1>21, <1>22
  DEF Next, Step, Idle

\* With auto-verify on, agent_done is never accepted over an edit that no verify
\* has looked at: AutoVerifyAfterMutationPolicy::post_turn flushes the burst in
\* the very turn that says done, before the done gates run.
THEOREM NeverBlind == Spec => []DoneNeverBlind
<1>1. Init => TypeInv /\ BlindInv
  <2>1. Init => ~UnverifiedEdit(history)
    BY DEF Init, UnverifiedEdit
  <2> QED
    BY <2>1, TypeInit DEF BlindInv
<1>2. TypeInv /\ BlindInv /\ [Next]_vars => (TypeInv /\ BlindInv)'
  BY TypeStep, BlindStep
<1>3. BlindInv => DoneNeverBlind
  BY DEF BlindInv, DoneNeverBlind, Settled
<1> QED
  BY <1>1, <1>2, <1>3, PTL DEF Spec
-----------------------------------------------------------------------------
(***************************************************************************)
(* agent_done is never accepted while the last verify is an automatic one   *)
(* that failed.                                                             *)
(*                                                                          *)
(* PreflightPolicy decides from the outcomes and from the newest note in    *)
(* the context; the failure is in neither for sure (compaction may drop the *)
(* note, and an automatic verify is not an outcome).  What saves it is that *)
(* a flush only happens for an edit among the outcomes, which stays         *)
(* uncovered until a verify of the model covers it.                         *)
(***************************************************************************)
FailedFlush(h) == LastVerifyFailed(h, "flush")

\* The outcomes as the driver will have pushed them: auto_fix is the only
\* program point where the current outcome is past auto_verify and not pushed.
Recorded == IF pc = "auto_fix" THEN Append(outcomes, cur) ELSE outcomes

GateInv ==
    /\ dirty => AutoVerify /\ (Over \/ Uncovered(Recorded))
    /\ FailedFlush(history) =>
           /\ Over \/ (Uncovered(Recorded) /\ ~Excuses(marker))
           /\ cur # None => cur.tool # "verify"
           /\ pc \notin {"goal_checker", "auto_grade"} /\ ~DoneAccepted

Covers(o) == o.tool = "verify" /\ Succeeded(o)

\* Only a successful verify covers an uncovered mutation, and a mutation is
\* uncovered when it is pushed.
LEMMA UncoveredAppend ==
    ASSUME NEW q \in Seq(Outcomes), NEW o \in Outcomes,
           IsMutation(o) \/ (Uncovered(q) /\ ~Covers(o))
    PROVE  Uncovered(Append(q, o))
<1> DEFINE g == Append(q, o)
<1>1. /\ Len(g) = Len(q) + 1 /\ g[Len(q) + 1] = o
      /\ \A i \in 1..Len(q) : g[i] = q[i]
      /\ Len(q) \in Nat
  OBVIOUS
<1>2. CASE IsMutation(o)
  BY <1>1, <1>2 DEF Uncovered
<1>3. CASE ~IsMutation(o) /\ Uncovered(q) /\ ~Covers(o)
  <2>1. PICK i \in 1..Len(q) :
            /\ IsMutation(q[i])
            /\ \A j \in i + 1 .. Len(q) : ~IsMutation(q[j]) /\ ~Covers(q[j])
    BY <1>3 DEF Uncovered, Covers
  <2>2. ASSUME NEW j \in i + 1 .. Len(g) PROVE ~IsMutation(g[j]) /\ ~Covers(g[j])
    <3>1. CASE j = Len(q) + 1
      BY <1>1, <1>3, <3>1
    <3>2. CASE j \in i + 1 .. Len(q)
      BY <1>1, <2>1, <3>2
    <3> QED
      BY <1>1, <2>2, <3>1, <3>2
  <2>3. i \in 1..Len(g) /\ IsMutation(g[i])
    BY <1>1, <2>1
  <2> QED
    BY <2>2, <2>3 DEF Uncovered, Covers
<1> QED
  BY <1>2, <1>3

\* An event makes the last verify a failed flush only by being one.
LEMMA FailedFlushAppend ==
    ASSUME NEW h \in Seq(EventSet), NEW e \in EventSet, FailedFlush(Append(h, e))
    PROVE  \/ e.kind = "verify" /\ e.verdict = "failed" /\ e.by = "flush"
           \/ e.kind # "verify" /\ FailedFlush(h)
<1> DEFINE g == Append(h, e)
<1>1. /\ Len(g) = Len(h) + 1 /\ g[Len(h) + 1] = e
      /\ \A i \in 1..Len(h) : g[i] = h[i]
      /\ Len(h) \in Nat
  OBVIOUS
<1>2. PICK i \in 1..Len(g) :
          /\ g[i].kind = "verify" /\ g[i].verdict = "failed" /\ g[i].by = "flush"
          /\ \A j \in i + 1 .. Len(g) : g[j].kind # "verify"
          /\ \E k \in 1 .. i - 1 : g[k].kind = "edit"
  BY DEF FailedFlush, LastVerifyFailed
<1>3. CASE i = Len(h) + 1
  BY <1>1, <1>2, <1>3
<1>4. CASE i \in 1..Len(h)
  <2>1. e.kind # "verify"
    BY <1>1, <1>2, <1>4
  <2>2. /\ h[i].kind = "verify" /\ h[i].verdict = "failed" /\ h[i].by = "flush"
        /\ \A j \in i + 1 .. Len(h) : h[j].kind # "verify"
    BY <1>1, <1>2, <1>4
  <2>3. \E k \in 1 .. i - 1 : h[k].kind = "edit"
    BY <1>1, <1>2, <1>4
  <2> QED
    BY <1>4, <2>1, <2>2, <2>3 DEF FailedFlush, LastVerifyFailed
<1> QED
  BY <1>1, <1>2, <1>3, <1>4

\* The same for an event that is no failed flush: it can only keep one.
LEMMA FailedFlushKept ==
    ASSUME NEW h \in Seq(EventSet), NEW e \in EventSet, e.by # "flush",
           FailedFlush(Append(h, e))
    PROVE  e.kind # "verify" /\ FailedFlush(h)
BY FailedFlushAppend

\* Past auto_verify the outcome counts as recorded.
LEMMA ContinueRecords ==
    ASSUME pc = "auto_verify", AutoVerifyContinue, UNCHANGED cur
    PROVE  Recorded' = Append(outcomes, cur)
           /\ pc' \in {"auto_fix", "preflight", "budget_check"} /\ reason' = reason
BY DEF AutoVerifyContinue, AfterAutoVerify, Goto, Recorded

\* Every step preserves it.
LEMMA GateStep == TypeInv /\ GateInv /\ [Next]_vars => GateInv'
<1> SUFFICES ASSUME TypeInv, GateInv, [Next]_vars PROVE GateInv'
  OBVIOUS
<1> USE DEF Goto, Finish, Fail, NextTurn, verifyVars, streakVars, runVars, turnVars,
            costVars, Over, DoneAccepted
<1>h. history \in Seq(EventSet) /\ outcomes \in Seq(Outcomes) /\ cur \in Outcomes \cup {None}
  BY DEF TypeInv, TypeOK
<1>q. ASSUME history' = history, FailedFlush(history)' PROVE FailedFlush(history)
  BY <1>q DEF FailedFlush, LastVerifyFailed
<1>p. ASSUME NEW h, history' = h, FailedFlush(history)' PROVE FailedFlush(h)
  BY <1>p DEF FailedFlush, LastVerifyFailed
<1>e. ASSUME NEW e \in EventSet, e.by # "flush", history' = Append(history, e),
             FailedFlush(history)'
      PROVE  e.kind # "verify" /\ FailedFlush(history)
  <2>1. FailedFlush(Append(history, e))
    BY <1>e, <1>p
  <2> QED
    BY <1>e, <1>h, <2>1, FailedFlushKept
\* A step that records nothing and sets no flag has only the control to show.
<1>o. ASSUME UNCHANGED <<dirty, outcomes, cur>>, pc # "auto_fix", pc' # "auto_fix"
      PROVE  Uncovered(Recorded)' <=> Uncovered(Recorded)
  BY <1>o DEF Recorded, Uncovered
<1>1. CASE TurnLimit
  BY <1>1, <1>q DEF TurnLimit, GateInv
<1>2. CASE TurnStart
  BY <1>2, <1>q, <1>o DEF TurnStart, GateInv
<1>3. CASE NothingToResume
  BY <1>3, <1>q, <1>o DEF NothingToResume, AfterPreTurn, GateInv
<1>4. CASE ResumePending
  <2>1. FailedFlush(history)' => FailedFlush(history)
    <3>1. CASE history' = history
      BY <3>1, <1>q
    <3>2. CASE sidecar \in {"edit", "change"}
               /\ history' = Append(history, Changed(sidecar, "resume"))
      <4>1. Changed(sidecar, "resume") \in EventSet
            /\ Changed(sidecar, "resume").by # "flush"
        BY <3>2, EventType DEF Changed, Event
      <4> QED
        BY <3>2, <4>1, <1>e
    <3> QED
      BY <1>4, <3>1, <3>2 DEF ResumePending
  <2> QED
    BY <1>4, <2>1, <1>o DEF ResumePending, AfterPreTurn, GateInv
<1>5. CASE ModelReply
  <2>1. PICK o \in Outcomes : cur' = o /\ history' = Append(history, EventOf(o))
    BY <1>5 DEF ModelReply
  <2>2. EventOf(o) \in EventSet /\ EventOf(o).by # "flush"
        /\ (o.tool = "verify" => EventOf(o).kind = "verify")
    BY OutcomeType DEF EventOf, Event, Changed
  <2>3. FailedFlush(history)' => FailedFlush(history) /\ cur'.tool # "verify"
    BY <2>1, <2>2, <1>e
  <2>4. Uncovered(Recorded)' <=> Uncovered(Recorded)
    BY <1>5 DEF ModelReply, Recorded, Uncovered
  <2>5. /\ pc = "model" /\ pc' = "budget_warning" /\ dirty' = dirty
        /\ marker' \in {marker, "none"}
    BY <1>5 DEF ModelReply, NotesAfterCompaction
  <2> QED
    BY <2>3, <2>4, <2>5 DEF GateInv, Excuses
<1>6. CASE ApprovalHalt
  BY <1>6, <1>q DEF ApprovalHalt, GateInv
<1>7. CASE ModelError
  <2>1. PICK e \in Errors :
            \/ history' = Append(history, Event("error", "model", "none", e.sig))
            \/ \E k \in Tools \cap {"edit", "change"} :
                  history' = Append(Append(history, Changed(k, "posthook")),
                                    Event("error", "model", "none", e.sig))
    BY <1>7 DEF ModelError
  <2> DEFINE x == Event("error", "model", "none", e.sig)
  <2>2. x \in EventSet /\ x.by # "flush"
    BY Alphabets, EventType DEF Event
  <2>3. FailedFlush(history)' => FailedFlush(history)
    <3>1. CASE history' = Append(history, x)
      BY <2>2, <3>1, <1>e
    <3>2. ASSUME NEW k \in Tools \cap {"edit", "change"},
                 history' = Append(Append(history, Changed(k, "posthook")), x),
                 FailedFlush(history)'
          PROVE  FailedFlush(history)
      <4> DEFINE g == Append(history, Changed(k, "posthook"))
      <4>1. Changed(k, "posthook") \in EventSet /\ Changed(k, "posthook").by # "flush"
        BY EventType DEF Changed, Event
      <4>2. g \in Seq(EventSet)
        BY <1>h, <4>1, AppendType
      <4>3. FailedFlush(Append(g, x))
        BY <3>2, <1>p
      <4> HIDE DEF g, x
      <4>4. FailedFlush(g)
        BY <2>2, <4>2, <4>3, FailedFlushKept
      <4> QED
        BY <1>h, <4>1, <4>4, FailedFlushKept DEF g
    <3> QED
      BY <2>1, <3>1, <3>2
  <2>4. /\ pc = "model" /\ pc' = "turn_error" /\ UNCHANGED <<dirty, outcomes, cur>>
        /\ marker' \in {marker, "none"}
    BY <1>7 DEF ModelError, NotesAfterCompaction
  <2> QED
    BY <2>3, <2>4, <1>o DEF GateInv, Excuses
<1>8. CASE ErrorInterrupted
  BY <1>8, <1>q DEF ErrorInterrupted, GateInv
<1>9. CASE ConfigError
  BY <1>9, <1>q DEF ConfigError, HookThen, GateInv
<1>10. CASE RecoverFromError
  <2>1. Uncovered(Recorded)' <=> Uncovered(Recorded)
    BY <1>10 DEF RecoverFromError, HookThen, Recorded, Uncovered
  <2> QED
    BY <1>10, <2>1, <1>q DEF RecoverFromError, HookThen, GateInv
<1>11. CASE BudgetWarning
  BY <1>11, <1>q, <1>o DEF BudgetWarning, GateInv
<1>12. CASE StuckDetector
  <2>1. \/ pc' = "auto_verify" /\ outcomes' = outcomes
        \/ Over' /\ ~DoneAccepted'
    BY <1>12 DEF StuckDetector, HookThen
  <2>2. pc = "stuck_detector" /\ UNCHANGED <<cur, dirty, marker, history>>
    BY <1>12 DEF StuckDetector
  <2> QED
    BY <2>1, <2>2, <1>q, <1>o DEF GateInv
<1>13. CASE AutoVerifyWait
  <2>1. /\ pc = "auto_verify" /\ cur \in Outcomes /\ UNCHANGED <<cur, marker, history>>
        /\ dirty' = IF ~AutoVerify THEN dirty
                    ELSE MarksDirty(cur) \/ (dirty /\ cur.tool # "verify")
    BY <1>13 DEF AutoVerifyWait, TypeInv, PostPoints, TypeOK
  <2>2. /\ Recorded' = Append(outcomes, cur) /\ reason' = reason
        /\ pc' \in {"auto_fix", "preflight", "budget_check"}
    BY <1>13, <2>1, ContinueRecords DEF AutoVerifyWait
  <2>3. ASSUME IsMutation(cur) \/ (Uncovered(Recorded) /\ cur.tool # "verify")
        PROVE  Uncovered(Recorded)'
    <3>1. Recorded = outcomes
      BY <2>1 DEF Recorded
    <3>2. Uncovered(Append(outcomes, cur))
      BY <1>h, <2>1, <2>3, <3>1, UncoveredAppend DEF Covers
    <3> QED
      BY <2>2, <3>2 DEF Uncovered
  <2>4. dirty' => AutoVerify /\ Uncovered(Recorded)'
    BY <2>1, <2>3 DEF GateInv, MarksDirty, IsMutation
  <2>5. FailedFlush(history)' => cur'.tool # "verify" /\ Uncovered(Recorded)'
                                 /\ ~Excuses(marker)'
    <3>1. cur # None
      BY <2>1, NoneAssumption
    <3> QED
      BY <2>1, <2>3, <3>1, <1>q DEF GateInv, Excuses
  <2> QED
    BY <2>2, <2>4, <2>5 DEF GateInv
<1>14. CASE AutoVerifyFlush
  <2>1. PICK v \in Verdicts, s \in Sigs :
            /\ marker' = v
            /\ history' = Append(history,
                   Event("verify", "flush", v, IF v = "failed" THEN s ELSE None))
            /\ \/ AutoVerifyContinue
               \/ Over' /\ ~DoneAccepted'
    BY <1>14 DEF AutoVerifyFlush
  <2>2. /\ pc = "auto_verify" /\ dirty' = FALSE /\ cur \in Outcomes /\ cur' = cur
        /\ AutoVerify /\ cur.tool # "verify" /\ dirty
    BY <1>14 DEF AutoVerifyFlush, FlushDue, TypeInv, PostPoints, TypeOK
  <2> DEFINE e == Event("verify", "flush", v, IF v = "failed" THEN s ELSE None)
  <2>3. e \in EventSet /\ e.kind = "verify" /\ e.verdict = v
    BY Alphabets, EventType DEF Event
  <2>4. FailedFlush(history)' => ~Excuses(marker)'
    <3>1. ASSUME FailedFlush(history)' PROVE FailedFlush(Append(history, e))
      BY <1>p, <2>1, <3>1
    <3> HIDE DEF e
    <3>2. ASSUME FailedFlush(history)' PROVE v = "failed"
      BY <1>h, <2>3, <3>1, <3>2, FailedFlushAppend
    <3> QED
      BY <2>1, <3>2 DEF Excuses
  <2>5. Uncovered(Append(outcomes, cur))
    <3>1. Uncovered(outcomes)
      BY <2>2 DEF GateInv, Recorded
    <3> QED
      BY <1>h, <2>2, <3>1, UncoveredAppend DEF Covers
  <2>6. CASE AutoVerifyContinue
    <3>1. /\ Recorded' = Append(outcomes, cur)
          /\ pc' \in {"auto_fix", "preflight", "budget_check"}
      BY <2>2, <2>6, ContinueRecords
    <3>2. Uncovered(Recorded)'
      BY <2>5, <3>1 DEF Uncovered
    <3> QED
      BY <2>2, <2>4, <3>1, <3>2 DEF GateInv
  <2>7. CASE Over' /\ ~DoneAccepted'
    BY <2>2, <2>7 DEF GateInv
  <2> QED
    BY <2>1, <2>6, <2>7
<1>15. CASE AutoFixPolicy
  <2>1. /\ pc = "auto_fix" /\ UNCHANGED <<cur, dirty, marker, history>>
        /\ \/ Over' /\ ~DoneAccepted'
           \/ outcomes' = Append(outcomes, cur) /\ pc' \in {"preflight", "budget_check"}
    BY <1>15 DEF AutoFixPolicy
  <2>2. ~Over' => (Uncovered(Recorded)' <=> Uncovered(Recorded))
    BY <2>1 DEF Recorded, Uncovered
  <2> QED
    BY <2>1, <2>2, <1>q DEF GateInv
<1>16. CASE Preflight
  <2>1. /\ pc = "preflight" /\ UNCHANGED <<dirty, outcomes, marker, history>>
        /\ \/ pc' = "turn_start" /\ cur' = None
           \/ /\ ~(Uncovered(outcomes) /\ ~Excuses(marker))
              /\ cur' = cur
              /\ pc' \in {"goal_checker", "auto_grade", "finished"}
    BY <1>16 DEF Preflight, AfterPreflight
  <2>2. Uncovered(Recorded)' <=> Uncovered(Recorded)
    BY <2>1 DEF Recorded, Uncovered
  <2>3. CASE pc' = "turn_start" /\ cur' = None
    BY <2>1, <2>2, <2>3, <1>q DEF GateInv
  <2>4. CASE ~(Uncovered(outcomes) /\ ~Excuses(marker))
    <3>1. ~FailedFlush(history)
      BY <2>1, <2>4 DEF GateInv, Recorded
    <3> QED
      BY <2>1, <2>2, <3>1, <1>q DEF GateInv
  <2> QED
    BY <2>1, <2>3, <2>4
<1>17. CASE GoalChecker
  <2>1. ~FailedFlush(history)' /\ pc' # "auto_fix"
    BY <1>17, <1>q DEF GoalChecker, GateInv
  <2>2. Uncovered(Recorded)' <=> Uncovered(Recorded)
    BY <1>17 DEF GoalChecker, Recorded, Uncovered
  <2> QED
    BY <1>17, <2>1, <2>2 DEF GoalChecker, GateInv
<1>18. CASE AutoGrader
  <2>1. ~FailedFlush(history)' /\ pc' # "auto_fix"
    BY <1>18, <1>q DEF AutoGrader, GateInv
  <2>2. Uncovered(Recorded)' <=> Uncovered(Recorded)
    BY <1>18 DEF AutoGrader, Recorded, Uncovered
  <2> QED
    BY <1>18, <2>1, <2>2 DEF AutoGrader, GateInv
<1>19. CASE BudgetCheck
  <2>1. Uncovered(Recorded)' <=> Uncovered(Recorded)
    BY <1>19 DEF BudgetCheck, Recorded, Uncovered
  <2> QED
    BY <1>19, <2>1, <1>q DEF BudgetCheck, GateInv
<1>20. CASE Cancel
  <2>1. /\ Event("cancel", "operator", "none", None) \in EventSet
        /\ Event("cancel", "operator", "none", None).by # "flush"
    BY EventType DEF Event
  <2>2. FailedFlush(history)' => FailedFlush(history)
    BY <1>20, <2>1, <1>e DEF Cancel
  <2>3. UNCHANGED <<pc, reason, cur, dirty, outcomes, marker>>
    BY <1>20 DEF Cancel
  <2>4. Uncovered(Recorded)' <=> Uncovered(Recorded)
    BY <2>3 DEF Recorded, Uncovered
  <2> QED
    BY <2>2, <2>3, <2>4 DEF GateInv, Excuses
<1>21. CASE NextRun
  <2>1. ~FailedFlush(history)' /\ dirty' = FALSE
    BY <1>21 DEF NextRun, FailedFlush, LastVerifyFailed
  <2> QED
    BY <2>1 DEF GateInv
<1>22. CASE UNCHANGED vars
  <2>1. Uncovered(Recorded)' <=> Uncovered(Recorded)
    BY <1>22 DEF vars, Recorded, Uncovered
  <2> QED
    BY <1>22, <2>1, <1>q DEF vars, GateInv, Excuses
<1> QED
  BY <1>1, <1>2, <1>3, <1>4, <1>5, <1>6, <1>7, <1>8, <1>9, <1>10, <1>11, <1>12,
     <1>13, <1>14, <1>15, <1>16, <1>17, <1>18, <1>19, <1>20, <1>21, <1>22
  DEF Next, Step, Idle

\* agent_done is never accepted while the last verify is an automatic one that
\* failed: PreflightPolicy finds the edit it was run for uncovered, and no note
\* excuses it, because the flush has replaced the notes of earlier ones.
THEOREM GateHolds == Spec => []FailedFlushBlocksDone
<1>1. Init => TypeInv /\ GateInv
  <2>1. Init => ~FailedFlush(history) /\ dirty = FALSE
    BY DEF Init, FailedFlush, LastVerifyFailed
  <2> QED
    BY <2>1, TypeInit DEF GateInv
<1>2. TypeInv /\ GateInv /\ [Next]_vars => (TypeInv /\ GateInv)'
  BY TypeStep, GateStep
<1>3. GateInv => FailedFlushBlocksDone
  BY DEF GateInv, FailedFlushBlocksDone, FailedFlush
<1> QED
  BY <1>1, <1>2, <1>3, PTL DEF Spec

-----------------------------------------------------------------------------
(***************************************************************************)
(* The safety part of ImplementsRunContract: under the mapping Contract,    *)
(* every step of the agent loop is a step of the run contract or none.      *)
(***************************************************************************)
DonePoints == {"preflight", "goal_checker", "auto_grade"}

\* What the mapping needs: a turn in progress is one of MaxTurns, the model's
\* reply is there exactly after it was heard, the done gates only see a claim
\* of done and the budget check never sees one; and no run that goes on has told
\* its end.
ContractInv ==
    /\ turn <= MaxTurns
    /\ pc \notin {"turn_start", "finished", "failed"} => turn < MaxTurns
    /\ pc \in {"turn_start", "pre_turn", "model", "turn_error"} => cur = None
    /\ pc \in DonePoints => cur # None /\ cur.tool = "done"
    /\ pc = "budget_check" => cur # None /\ cur.tool # "done"
    /\ ~Over => finishedEvents = 0

RunStep == Contract!Progress \/ Contract!Restart

\* The initial state satisfies it, and maps to the contract's initial state.
LEMMA ContractInit == Init => ContractInv /\ Contract!Init
BY BoundAssumption DEF Init, ContractInv, DonePoints, Over, Contract!Init

\* Every step preserves it.
LEMMA ContractInvStep == TypeInv /\ ContractInv /\ [Next]_vars => ContractInv'
<1> SUFFICES ASSUME TypeInv, ContractInv, [Next]_vars PROVE ContractInv'
  OBVIOUS
<1> USE BoundAssumption DEF ContractInv, DonePoints, Goto, Finish, Fail, NextTurn,
            turnVars, TypeInv, TypeOK, PostPoints, Over
<1>1. CASE TurnLimit
  BY <1>1 DEF TurnLimit
<1>2. CASE TurnStart
  BY <1>2 DEF TurnStart, TurnsUsed
<1>3. CASE NothingToResume
  BY <1>3 DEF NothingToResume, AfterPreTurn
<1>4. CASE ResumePending
  BY <1>4 DEF ResumePending, AfterPreTurn
<1>5. CASE ModelReply
  BY <1>5 DEF ModelReply
<1>6. CASE ApprovalHalt
  BY <1>6 DEF ApprovalHalt
<1>7. CASE ModelError
  BY <1>7 DEF ModelError
<1>8. CASE ErrorInterrupted
  BY <1>8 DEF ErrorInterrupted
<1>9. CASE ConfigError
  BY <1>9 DEF ConfigError, HookThen
<1>10. CASE RecoverFromError
  <2>1. \/ NextTurn
        \/ (Finish("Interrupted") \/ Fail) /\ UNCHANGED turnVars
    BY <1>10 DEF RecoverFromError, HookThen
  <2>2. pc = "turn_error" /\ UNCHANGED runVars
    BY <1>10 DEF RecoverFromError
  <2> QED
    BY <2>1, <2>2
<1>11. CASE BudgetWarning
  BY <1>11 DEF BudgetWarning
<1>12. CASE StuckDetector
  <2>1. \/ pc' \in {"auto_verify", "failed"} /\ UNCHANGED <<reason, finishedEvents>>
        \/ Finish("Interrupted")
    BY <1>12 DEF StuckDetector, HookThen
  <2>2. pc = "stuck_detector" /\ UNCHANGED <<turnVars, runVars>>
    BY <1>12 DEF StuckDetector
  <2> QED
    BY <2>1, <2>2
<1>13. CASE AutoVerifyWait
  BY <1>13 DEF AutoVerifyWait, AutoVerifyContinue, AfterAutoVerify
<1>14. CASE AutoVerifyFlush
  BY <1>14 DEF AutoVerifyFlush, AutoVerifyContinue, AfterAutoVerify
<1>15. CASE AutoFixPolicy
  BY <1>15 DEF AutoFixPolicy, CountsForFix
<1>16. CASE Preflight
  BY <1>16 DEF Preflight, AfterPreflight
<1>17. CASE GoalChecker
  <2>1. \/ NextTurn
        \/ /\ \/ pc' \in {"auto_grade", "failed"} /\ UNCHANGED <<reason, finishedEvents>>
              \/ Finish("Done")
           /\ UNCHANGED turnVars
    BY <1>17 DEF GoalChecker
  <2>2. pc = "goal_checker" /\ UNCHANGED runVars
    BY <1>17 DEF GoalChecker
  <2> QED
    BY <2>1, <2>2
<1>18. CASE AutoGrader
  <2>1. NextTurn \/ (Finish("Done") /\ UNCHANGED turnVars)
    BY <1>18 DEF AutoGrader
  <2>2. pc = "auto_grade" /\ UNCHANGED runVars
    BY <1>18 DEF AutoGrader
  <2> QED
    BY <2>1, <2>2
<1>19. CASE BudgetCheck
  BY <1>19 DEF BudgetCheck
<1>20. CASE Cancel
  BY <1>20 DEF Cancel
<1>21. CASE NextRun
  BY <1>21 DEF NextRun
<1>22. CASE UNCHANGED vars
  BY <1>22 DEF vars
<1> QED
  BY <1>1, <1>2, <1>3, <1>4, <1>5, <1>6, <1>7, <1>8, <1>9, <1>10, <1>11, <1>12,
     <1>13, <1>14, <1>15, <1>16, <1>17, <1>18, <1>19, <1>20, <1>21, <1>22
  DEF Next, Step, Idle

\* Every step maps to a step of the contract or to a stutter.
LEMMA ContractStep ==
    TypeInv /\ ContractInv /\ [Next]_vars => [RunStep]_(Contract!vars)
<1> SUFFICES ASSUME TypeInv, ContractInv, [Next]_vars
             PROVE  RunStep \/ UNCHANGED Contract!vars
  OBVIOUS
<1> USE BoundAssumption
    DEF RunStep, Contract!Progress, Contract!vars, Contract!Reply, Contract!UseTurn,
        Contract!End, Contract!Truthful, Contract!Break, Contract!Restart,
        Contract!Running, ContractInv, DonePoints, Reasons, Goto, Finish, Fail,
        NextTurn, turnVars, runVars, TypeInv, TypeOK, PostPoints, Over
<1>1. CASE TurnLimit
  BY <1>1 DEF TurnLimit, TurnsUsed
<1>2. CASE TurnStart
  BY <1>2 DEF TurnStart, TurnsUsed
<1>3. CASE NothingToResume
  BY <1>3 DEF NothingToResume, AfterPreTurn
<1>4. CASE ResumePending
  BY <1>4 DEF ResumePending, AfterPreTurn
<1>5. CASE ModelReply
  BY <1>5, NoneAssumption DEF ModelReply
<1>6. CASE ApprovalHalt
  BY <1>6 DEF ApprovalHalt
<1>7. CASE ModelError
  BY <1>7 DEF ModelError
<1>8. CASE ErrorInterrupted
  BY <1>8 DEF ErrorInterrupted
<1>9. CASE ConfigError
  BY <1>9 DEF ConfigError, HookThen
<1>10. CASE RecoverFromError
  <2>1. \/ NextTurn
        \/ (Finish("Interrupted") \/ Fail) /\ UNCHANGED turnVars
    BY <1>10 DEF RecoverFromError, HookThen
  <2>2. pc = "turn_error" /\ UNCHANGED runVars
    BY <1>10 DEF RecoverFromError
  <2> QED
    BY <2>1, <2>2, SMTT(30)
<1>11. CASE BudgetWarning
  BY <1>11 DEF BudgetWarning
<1>12. CASE StuckDetector
  <2>1. \/ pc' \in {"auto_verify", "failed"} /\ UNCHANGED <<reason, finishedEvents>>
        \/ Finish("Interrupted")
    BY <1>12 DEF StuckDetector, HookThen
  <2>2. pc = "stuck_detector" /\ UNCHANGED <<turnVars, runVars>>
    BY <1>12 DEF StuckDetector
  <2> QED
    BY <2>1, <2>2
<1>13. CASE AutoVerifyWait
  BY <1>13 DEF AutoVerifyWait, AutoVerifyContinue, AfterAutoVerify
<1>14. CASE AutoVerifyFlush
  BY <1>14, SMTT(30) DEF AutoVerifyFlush, AutoVerifyContinue, AfterAutoVerify
<1>15. CASE AutoFixPolicy
  BY <1>15, SMTT(30) DEF AutoFixPolicy
<1>16. CASE Preflight
  BY <1>16, SMTT(30) DEF Preflight, AfterPreflight
<1>17. CASE GoalChecker
  <2>1. \/ NextTurn
        \/ /\ \/ pc' \in {"auto_grade", "failed"} /\ UNCHANGED <<reason, finishedEvents>>
              \/ Finish("Done")
           /\ UNCHANGED turnVars
    BY <1>17 DEF GoalChecker
  <2>2. pc = "goal_checker" /\ UNCHANGED runVars
    BY <1>17 DEF GoalChecker
  <2> QED
    BY <2>1, <2>2, SMTT(30)
<1>18. CASE AutoGrader
  <2>1. NextTurn \/ (Finish("Done") /\ UNCHANGED turnVars)
    BY <1>18 DEF AutoGrader
  <2>2. pc = "auto_grade" /\ UNCHANGED runVars
    BY <1>18 DEF AutoGrader
  <2> QED
    BY <2>1, <2>2, SMTT(30)
<1>19. CASE BudgetCheck
  BY <1>19, SMTT(30) DEF BudgetCheck
<1>20. CASE Cancel
  BY <1>20 DEF Cancel
<1>21. CASE NextRun
  BY <1>21 DEF NextRun
<1>22. CASE UNCHANGED vars
  BY <1>22 DEF vars
<1> QED
  BY <1>1, <1>2, <1>3, <1>4, <1>5, <1>6, <1>7, <1>8, <1>9, <1>10, <1>11, <1>12,
     <1>13, <1>14, <1>15, <1>16, <1>17, <1>18, <1>19, <1>20, <1>21, <1>22
  DEF Next, Step, Idle

\* The agent loop implements the run contract, its liveness apart: at most
\* MaxTurns turns, one end, and a reason that is true of the turn it ended in
\* (run_until_done_with_events and finalize_run).
THEOREM ContractSafe == Spec => Contract!Init /\ [][RunStep]_(Contract!vars)
<1>1. Init => TypeInv /\ ContractInv /\ Contract!Init
  BY TypeInit, ContractInit
<1>2. TypeInv /\ ContractInv /\ [Next]_vars => (TypeInv /\ ContractInv)'
  BY TypeStep, ContractInvStep
<1>3. TypeInv /\ ContractInv /\ [Next]_vars => [RunStep]_(Contract!vars)
  BY ContractStep
<1> QED
  BY <1>1, <1>2, <1>3, PTL DEF Spec
-----------------------------------------------------------------------------
(***************************************************************************)
(* The budget.  The check follows every reply but a claim of done; an error *)
(* path adds no cost.                                                       *)
(***************************************************************************)
LastTool(outs) == outs[Len(outs)].tool

\* The cost is below the budget whenever the last outcome was no claim of done, from
\* the budget check of a turn to the reply of the next; the done gates have a claim of
\* done as the last outcome.
BudgetInv ==
    /\ pc \in {"turn_start", "pre_turn", "model", "turn_error"} /\ Budget > 0
          /\ outcomes # << >> /\ LastTool(outcomes) # "done" => cost < Budget
    /\ pc \in DonePoints => outcomes # << >> /\ LastTool(outcomes) = "done"

\* The tool of the outcome pushed last.
LEMMA LastToolOfAppend ==
    ASSUME NEW q \in Seq(Outcomes), NEW o \in Outcomes
    PROVE  Append(q, o) # << >> /\ LastTool(Append(q, o)) = o.tool
<1>1. Len(Append(q, o)) = Len(q) + 1 /\ Append(q, o)[Len(q) + 1] = o /\ Len(q) \in Nat
  OBVIOUS
<1> QED
  BY <1>1 DEF LastTool

LEMMA BudgetStep == TypeInv /\ BudgetInv /\ [Next]_vars => BudgetInv'
<1> SUFFICES ASSUME TypeInv, BudgetInv, [Next]_vars PROVE BudgetInv'
  OBVIOUS
<1> USE DEF BudgetInv, DonePoints, Goto, Finish, Fail, NextTurn, turnVars, costVars
<1>p. ASSUME pc \in PostPoints, outcomes' = Append(outcomes, cur)
      PROVE  outcomes' # << >> /\ LastTool(outcomes') = cur.tool
  BY <1>p, LastToolOfAppend DEF TypeInv, TypeOK
<1>1. CASE TurnLimit
  BY <1>1 DEF TurnLimit
<1>2. CASE TurnStart
  BY <1>2 DEF TurnStart
<1>3. CASE NothingToResume
  BY <1>3 DEF NothingToResume, AfterPreTurn
<1>4. CASE ResumePending
  BY <1>4 DEF ResumePending, AfterPreTurn
<1>5. CASE ModelReply
  BY <1>5 DEF ModelReply
<1>6. CASE ApprovalHalt
  BY <1>6 DEF ApprovalHalt
<1>7. CASE ModelError
  BY <1>7 DEF ModelError
<1>8. CASE ErrorInterrupted
  BY <1>8 DEF ErrorInterrupted
<1>9. CASE ConfigError
  BY <1>9 DEF ConfigError, HookThen
<1>10. CASE RecoverFromError
  <2>1. pc = "turn_error" /\ pc' \in {"turn_start", "finished", "failed"}
        /\ UNCHANGED <<outcomes, cost>>
    BY <1>10 DEF RecoverFromError, HookThen
  <2> QED
    BY <2>1
<1>11. CASE BudgetWarning
  BY <1>11 DEF BudgetWarning
<1>12. CASE StuckDetector
  <2>1. pc' \in {"auto_verify", "finished", "failed"}
    BY <1>12 DEF StuckDetector, HookThen
  <2> QED
    BY <2>1
<1>13. CASE AutoVerifyWait
  <2>1. pc = "auto_verify" /\ AutoVerifyContinue
    BY <1>13 DEF AutoVerifyWait
  <2> QED
    BY <2>1, <1>p DEF AutoVerifyContinue, AfterAutoVerify, PostPoints
<1>14. CASE AutoVerifyFlush
  <2>1. pc = "auto_verify" /\ (AutoVerifyContinue \/ pc' \in {"finished", "failed"})
    BY <1>14 DEF AutoVerifyFlush
  <2> QED
    BY <2>1, <1>p DEF AutoVerifyContinue, AfterAutoVerify, PostPoints
<1>15. CASE AutoFixPolicy
  BY <1>15, <1>p DEF AutoFixPolicy, PostPoints
<1>16. CASE Preflight
  BY <1>16 DEF Preflight, AfterPreflight
<1>17. CASE GoalChecker
  <2>1. pc = "goal_checker" /\ outcomes' = outcomes
        /\ pc' \in {"turn_start", "auto_grade", "finished", "failed"}
    BY <1>17 DEF GoalChecker
  <2> QED
    BY <2>1
<1>18. CASE AutoGrader
  <2>1. pc = "auto_grade" /\ outcomes' = outcomes /\ pc' \in {"turn_start", "finished"}
    BY <1>18 DEF AutoGrader
  <2> QED
    BY <2>1
<1>19. CASE BudgetCheck
  BY <1>19, BoundAssumption, SMTT(30) DEF BudgetCheck, OverBudget, TypeInv, TypeOK
<1>20. CASE Cancel
  BY <1>20 DEF Cancel
<1>21. CASE NextRun
  BY <1>21 DEF NextRun
<1>22. CASE UNCHANGED vars
  BY <1>22 DEF vars
<1> QED
  BY <1>1, <1>2, <1>3, <1>4, <1>5, <1>6, <1>7, <1>8, <1>9, <1>10, <1>11, <1>12,
     <1>13, <1>14, <1>15, <1>16, <1>17, <1>18, <1>19, <1>20, <1>21, <1>22
  DEF Next, Step, Idle

\* No turn begins at or over the budget after a reply that was no claim of done: the
\* driver's budget check follows each of them (run_until_done_with_events).
THEOREM BudgetIsKept == Spec => []BudgetHolds
<1>1. Init => TypeInv /\ BudgetInv
  BY TypeInit DEF Init, BudgetInv, DonePoints
<1>2. TypeInv /\ BudgetInv /\ [Next]_vars => (TypeInv /\ BudgetInv)'
  BY TypeStep, BudgetStep
<1>3. BudgetInv => BudgetHolds
  BY DEF BudgetInv, BudgetHolds, LastTool
<1> QED
  BY <1>1, <1>2, <1>3, PTL DEF Spec
-----------------------------------------------------------------------------
(***************************************************************************)
(* Counting in a sequence: the elements of A behind one of B, and those     *)
(* that no element of B comes after.                                        *)
(***************************************************************************)
Behind(q, A, B) == {i \in 1..Len(q) : q[i] \in A /\ \E j \in 1 .. i - 1 : q[j] \in B}
RunOf(q, A, B)  == {i \in 1..Len(q) : q[i] \in A /\ \A j \in i + 1 .. Len(q) : q[j] \notin B}

\* The facts of Append the next lemmas need.
LEMMA AppendFacts ==
    ASSUME NEW S, NEW q \in Seq(S), NEW e \in S
    PROVE  /\ Append(q, e) \in Seq(S) /\ Len(q) \in Nat
           /\ Len(Append(q, e)) = Len(q) + 1 /\ Append(q, e)[Len(q) + 1] = e
           /\ \A i \in 1..Len(q) : Append(q, e)[i] = q[i]
OBVIOUS

\* A set of positions can be counted.
LEMMA PositionsFinite ==
    ASSUME NEW n \in Nat, NEW P \in SUBSET (1..n)
    PROVE  IsFiniteSet(P) /\ Cardinality(P) \in Nat
<1>1. IsFiniteSet(1..n)
  BY FS_Interval
<1> QED
  BY <1>1, FS_Subset, FS_CardinalityType

\* The next position is a new one.
LEMMA OneMore ==
    ASSUME NEW n \in Nat, NEW P \in SUBSET (1..n)
    PROVE  Cardinality(P \cup {n + 1}) = Cardinality(P) + 1
<1>1. n + 1 \notin P
  OBVIOUS
<1> QED
  BY <1>1, PositionsFinite, FS_AddElement

\* What one more element does to the elements of A behind one of B.
LEMMA BehindAppend ==
    ASSUME NEW S, NEW q \in Seq(S), NEW e \in S, NEW A, NEW B
    PROVE  /\ e \notin A => Behind(Append(q, e), A, B) = Behind(q, A, B)
           /\ (\A i \in 1..Len(q) : q[i] \notin B) => Behind(Append(q, e), A, B) = {}
           /\ Cardinality(Behind(q, A, B)) \in Nat
           /\ Cardinality(Behind(Append(q, e), A, B)) <= Cardinality(Behind(q, A, B)) + 1
<1> DEFINE g == Append(q, e)
           n == Len(q)
<1>1. /\ n \in Nat /\ Len(g) = n + 1 /\ g[n + 1] = e /\ \A i \in 1..n : g[i] = q[i]
  BY AppendFacts
<1> HIDE DEF g, n
<1>2. Behind(q, A, B) = {i \in 1..n : q[i] \in A /\ \E j \in 1 .. i - 1 : q[j] \in B}
  BY DEF Behind, n
<1>3. \A i \in 1..n : (\E j \in 1 .. i - 1 : g[j] \in B) <=> (\E j \in 1 .. i - 1 : q[j] \in B)
  BY <1>1
<1>4. Behind(g, A, B) \subseteq Behind(q, A, B) \cup {n + 1}
      /\ Behind(q, A, B) \subseteq Behind(g, A, B)
  BY <1>1, <1>2, <1>3 DEF Behind
<1>5. n + 1 \in Behind(g, A, B) => e \in A /\ \E j \in 1..n : q[j] \in B
  BY <1>1 DEF Behind
<1>6. Behind(q, A, B) \in SUBSET (1..n)
  BY <1>2
<1>7. e \notin A => Behind(g, A, B) = Behind(q, A, B)
  BY <1>4, <1>5
<1>8. (\A i \in 1..n : q[i] \notin B) => Behind(g, A, B) = {}
  <2>1. (\A i \in 1..n : q[i] \notin B) => Behind(q, A, B) = {}
    BY <1>1, <1>2
  <2> QED
    BY <1>4, <1>5, <2>1
<1>9. Cardinality(Behind(g, A, B)) <= Cardinality(Behind(q, A, B)) + 1
  <2> DEFINE P == Behind(q, A, B)
             G == Behind(g, A, B)
  <2>1. G = P \/ G = P \cup {n + 1}
    BY <1>4
  <2>2. Cardinality(P) \in Nat /\ Cardinality(P \cup {n + 1}) = Cardinality(P) + 1
    BY <1>1, <1>6, PositionsFinite, OneMore
  <2> HIDE DEF P, G
  <2>3. Cardinality(G) \in {Cardinality(P), Cardinality(P) + 1}
    BY <2>1, <2>2
  <2>4. Cardinality(G) <= Cardinality(P) + 1
    BY <2>2, <2>3
  <2> QED
    BY <2>4 DEF P, G
<1> QED
  BY <1>1, <1>6, <1>7, <1>8, <1>9, PositionsFinite DEF g, n

\* What one more element does to the elements of A that no element of B comes after.
LEMMA RunOfAppend ==
    ASSUME NEW S, NEW q \in Seq(S), NEW e \in S, NEW A, NEW B
    PROVE  /\ Cardinality(RunOf(q, A, B)) \in Nat
           /\ e \notin B => Cardinality(RunOf(Append(q, e), A, B))
                  = IF e \in A THEN Cardinality(RunOf(q, A, B)) + 1
                               ELSE Cardinality(RunOf(q, A, B))
           /\ e \in B /\ e \notin A => Cardinality(RunOf(Append(q, e), A, B)) = 0
<1> DEFINE g == Append(q, e)
           n == Len(q)
<1>1. /\ n \in Nat /\ Len(g) = n + 1 /\ g[n + 1] = e /\ \A i \in 1..n : g[i] = q[i]
  BY AppendFacts
<1> HIDE DEF g, n
<1>2. RunOf(q, A, B) = {i \in 1..n : q[i] \in A /\ \A j \in i + 1 .. n : q[j] \notin B}
  BY DEF RunOf, n
<1>3. RunOf(q, A, B) \in SUBSET (1..n)
  BY <1>2
<1>4. Cardinality(RunOf(q, A, B)) \in Nat
  BY <1>1, <1>3, PositionsFinite
<1>5. ASSUME e \notin B
      PROVE  Cardinality(RunOf(g, A, B))
                  = IF e \in A THEN Cardinality(RunOf(q, A, B)) + 1
                               ELSE Cardinality(RunOf(q, A, B))
  <2>1. \A i \in 1..n : (\A j \in i + 1 .. n + 1 : g[j] \notin B)
                             <=> (\A j \in i + 1 .. n : q[j] \notin B)
    BY <1>1, <1>5
  <2>2. RunOf(g, A, B) = {i \in 1 .. n + 1 : g[i] \in A /\ \A j \in i + 1 .. n + 1 : g[j] \notin B}
    BY <1>1 DEF RunOf
  <2>3. ASSUME NEW i \in 1..n PROVE i \in RunOf(g, A, B) <=> i \in RunOf(q, A, B)
    <3>1. i \in 1 .. n + 1 /\ g[i] = q[i]
      BY <1>1
    <3>2. i \in RunOf(g, A, B) <=> g[i] \in A /\ \A j \in i + 1 .. n + 1 : g[j] \notin B
      BY <2>2, <3>1
    <3>3. i \in RunOf(q, A, B) <=> q[i] \in A /\ \A j \in i + 1 .. n : q[j] \notin B
      BY <1>2
    <3> QED
      BY <2>1, <3>1, <3>2, <3>3
  <2>4. n + 1 \in RunOf(g, A, B) <=> e \in A
    <3>1. n + 1 \in 1 .. n + 1 /\ \A j \in n + 1 + 1 .. n + 1 : g[j] \notin B
      BY <1>1
    <3> QED
      BY <1>1, <2>2, <3>1
  <2>5. RunOf(g, A, B) \subseteq (1..n) \cup {n + 1}
    <3>1. 1 .. n + 1 = (1..n) \cup {n + 1}
      BY <1>1
    <3> QED
      BY <2>2, <3>1
  <2>6. CASE e \in A
    <3>1. RunOf(g, A, B) = RunOf(q, A, B) \cup {n + 1}
      BY <1>3, <2>3, <2>4, <2>5, <2>6
    <3> QED
      BY <1>1, <1>3, <2>6, <3>1, OneMore
  <2>7. CASE e \notin A
    <3>1. RunOf(g, A, B) = RunOf(q, A, B)
      BY <1>3, <2>3, <2>4, <2>5, <2>7
    <3> QED
      BY <2>7, <3>1
  <2> QED
    BY <2>6, <2>7
<1>6. ASSUME e \in B, e \notin A PROVE Cardinality(RunOf(g, A, B)) = 0
  <2>1. RunOf(g, A, B) = {}
    BY <1>1, <1>6 DEF RunOf
  <2> QED
    BY <2>1, FS_EmptySet
<1> QED
  BY <1>4, <1>5, <1>6 DEF g, n

\* Nothing is counted in the empty sequence.
LEMMA CountEmpty ==
    ASSUME NEW A, NEW B
    PROVE  /\ Behind(<< >>, A, B) = {} /\ RunOf(<< >>, A, B) = {}
           /\ Cardinality({}) = 0
BY FS_EmptySet DEF Behind, RunOf
-----------------------------------------------------------------------------
(***************************************************************************)
(* The cancel.  The token is looked at before a turn and after an error, so *)
(* the model may be heard from once: in the turn that was being taken.      *)
(***************************************************************************)
Heard   == {e \in EventSet : e.by = "model"}
Cancels == {e \in EventSet : e.kind = "cancel"}

\* A run on its way to the model has heard nothing behind a cancel, and there is no
\* cancel before the token is set.
CancelInv ==
    /\ Cardinality(Behind(history, Heard, Cancels)) <= 1
    /\ pc \in {"pre_turn", "model"} => Behind(history, Heard, Cancels) = {}
    /\ ~cancelled => \A i \in 1..Len(history) : history[i] \notin Cancels

LEMMA CancelStep == TypeInv /\ CancelInv /\ [Next]_vars => CancelInv'
<1> SUFFICES ASSUME TypeInv, CancelInv, [Next]_vars PROVE CancelInv'
  OBVIOUS
<1> USE DEF Goto, Finish, Fail, NextTurn
<1>h. history \in Seq(EventSet) /\ cancelled \in BOOLEAN
  BY DEF TypeInv, TypeOK
<1>q. ASSUME history' = history, cancelled' = cancelled,
             pc' \in {"pre_turn", "model"} => pc \in {"pre_turn", "model"} \/ ~cancelled
      PROVE  CancelInv'
  <2>1. ~cancelled => Behind(history, Heard, Cancels) = {}
    BY <1>h DEF Behind, CancelInv
  <2> QED
    BY <1>q, <2>1 DEF CancelInv
<1>e. ASSUME NEW e \in EventSet, e \notin Heard, e \notin Cancels, cancelled' = cancelled,
             history' = Append(history, e),
             pc' \in {"pre_turn", "model"} => pc \in {"pre_turn", "model"}
      PROVE  CancelInv'
  <2>1. Behind(history', Heard, Cancels) = Behind(history, Heard, Cancels)
    BY <1>e, <1>h, BehindAppend
  <2>2. \A i \in 1..Len(history') : history'[i] = e \/ \E j \in 1..Len(history) : history'[i] = history[j]
    BY <1>e, <1>h, AppendFacts
  <2> QED
    BY <1>e, <2>1, <2>2 DEF CancelInv
\* One event of the model, in the turn that is being taken.
<1>m. ASSUME NEW h \in Seq(EventSet), Behind(h, Heard, Cancels) = {},
             ~cancelled => \A i \in 1..Len(h) : h[i] \notin Cancels,
             NEW e \in EventSet, e \notin Cancels, cancelled' = cancelled,
             history' = Append(h, e), pc' \notin {"pre_turn", "model"}
      PROVE  CancelInv'
  <2>1. Cardinality(Behind(h, Heard, Cancels)) = 0
    BY <1>m, FS_EmptySet
  <2>3. Cardinality(Behind(Append(h, e), Heard, Cancels)) <= Cardinality(Behind(h, Heard, Cancels)) + 1
    BY <1>m, BehindAppend
  <2>4. Cardinality(Behind(history', Heard, Cancels)) <= 1
    BY <1>m, <2>1, <2>3
  <2>2. \A i \in 1..Len(history') : history'[i] = e \/ \E j \in 1..Len(h) : history'[i] = h[j]
    BY <1>m, AppendFacts
  <2> QED
    BY <1>m, <2>2, <2>4 DEF CancelInv
<1>1. CASE ResumePending
  <2>1. /\ pc = "pre_turn" /\ cancelled' = cancelled /\ pc' = "model"
        /\ \/ sidecar \in {"edit", "change"} /\ history' = Append(history, Changed(sidecar, "resume"))
           \/ history' = history
    BY <1>1 DEF ResumePending, AfterPreTurn
  <2>2. CASE history' = history
    BY <1>q, <2>1, <2>2
  <2>3. CASE sidecar \in {"edit", "change"} /\ history' = Append(history, Changed(sidecar, "resume"))
    <3>1. /\ Changed(sidecar, "resume") \in EventSet
          /\ Changed(sidecar, "resume") \notin Heard /\ Changed(sidecar, "resume") \notin Cancels
      BY <2>3, EventType DEF Changed, Event, Heard, Cancels
    <3> QED
      BY <1>e, <2>1, <2>3, <3>1
  <2> QED
    BY <2>1, <2>2, <2>3
<1>2. CASE ModelReply
  <2>1. PICK o \in Outcomes : history' = Append(history, EventOf(o))
    BY <1>2 DEF ModelReply
  <2>2. EventOf(o) \in EventSet /\ EventOf(o) \notin Cancels
    BY OutcomeType DEF EventOf, Event, Changed, Cancels
  <2>3. pc = "model" /\ pc' = "budget_warning" /\ cancelled' = cancelled
    BY <1>2 DEF ModelReply
  <2> QED
    BY <1>h, <1>m, <2>1, <2>2, <2>3 DEF CancelInv
<1>3. CASE ModelError
  <2>1. PICK e \in Errors :
            \/ history' = Append(history, Event("error", "model", "none", e.sig))
            \/ \E k \in Tools \cap {"edit", "change"} :
                  history' = Append(Append(history, Changed(k, "posthook")),
                                    Event("error", "model", "none", e.sig))
    BY <1>3 DEF ModelError
  <2> DEFINE x == Event("error", "model", "none", e.sig)
  <2>2. x \in EventSet /\ x \notin Cancels
    BY Alphabets, EventType DEF Event, Cancels
  <2>3. pc = "model" /\ pc' = "turn_error" /\ cancelled' = cancelled
    BY <1>3 DEF ModelError
  <2> HIDE DEF x
  <2>4. CASE history' = Append(history, x)
    BY <1>h, <1>m, <2>2, <2>3, <2>4 DEF CancelInv
  <2>5. ASSUME NEW k \in Tools \cap {"edit", "change"},
               history' = Append(Append(history, Changed(k, "posthook")), x)
        PROVE  CancelInv'
    <3> DEFINE c == Changed(k, "posthook")
               h == Append(history, c)
    <3>1. c \in EventSet /\ c \notin Heard /\ c \notin Cancels
      BY EventType DEF Changed, Event, Heard, Cancels
    <3> HIDE DEF c
    <3>2. h \in Seq(EventSet) /\ Behind(h, Heard, Cancels) = {}
      BY <1>h, <2>3, <3>1, BehindAppend, AppendFacts DEF CancelInv
    <3>3. \A i \in 1..Len(h) : h[i] = c \/ \E j \in 1..Len(history) : h[i] = history[j]
      BY <1>h, <3>1, AppendFacts
    <3>4. ~cancelled => \A i \in 1..Len(h) : h[i] \notin Cancels
      BY <3>1, <3>3 DEF CancelInv
    <3>5. history' = Append(h, x)
      BY <2>5 DEF c
    <3> HIDE DEF h
    <3> QED
      BY <1>m, <2>2, <2>3, <3>2, <3>4, <3>5
  <2> QED
    BY <2>1, <2>4, <2>5 DEF x
<1>4. CASE AutoVerifyFlush
  <2>1. PICK v \in Verdicts, s \in Sigs :
            history' = Append(history,
                Event("verify", "flush", v, IF v = "failed" THEN s ELSE None))
    BY <1>4 DEF AutoVerifyFlush
  <2> DEFINE e == Event("verify", "flush", v, IF v = "failed" THEN s ELSE None)
  <2>2. e \in EventSet /\ e \notin Heard /\ e \notin Cancels
    BY Alphabets, EventType DEF Event, Heard, Cancels
  <2>3. cancelled' = cancelled /\ pc' \notin {"pre_turn", "model"}
    BY <1>4 DEF AutoVerifyFlush, AutoVerifyContinue, AfterAutoVerify
  <2> HIDE DEF e
  <2> QED
    BY <1>e, <2>1, <2>2, <2>3 DEF e
<1>5. CASE Cancel
  <2> DEFINE e == Event("cancel", "operator", "none", None)
  <2>1. e \in EventSet /\ e \notin Heard
    BY EventType DEF Event, Heard
  <2>2. /\ history' = Append(history, e) /\ pc' = pc /\ cancelled' = TRUE
    BY <1>5 DEF Cancel
  <2> HIDE DEF e
  <2>3. Behind(history', Heard, Cancels) = Behind(history, Heard, Cancels)
    BY <1>h, <2>1, <2>2, BehindAppend
  <2> QED
    BY <2>2, <2>3 DEF CancelInv
<1>6. CASE NextRun
  <2>1. history' = << >> /\ pc' = "turn_start"
    BY <1>6 DEF NextRun
  <2>2. Cardinality(Behind(history', Heard, Cancels)) = 0
    BY <2>1, CountEmpty
  <2> QED
    BY <2>1, <2>2 DEF CancelInv
<1>7. CASE TurnLimit \/ NothingToResume \/ ApprovalHalt \/ ErrorInterrupted \/ ConfigError
           \/ RecoverFromError \/ UNCHANGED vars
  BY <1>7, <1>q DEF TurnLimit, NothingToResume, AfterPreTurn, ApprovalHalt, ErrorInterrupted,
     ConfigError, RecoverFromError, HookThen, vars
<1>8. CASE BudgetWarning \/ StuckDetector \/ AutoVerifyWait \/ AutoFixPolicy \/ Preflight
           \/ GoalChecker \/ AutoGrader \/ BudgetCheck
  BY <1>8, <1>q DEF BudgetWarning, StuckDetector, HookThen, AutoVerifyWait, AutoVerifyContinue,
     AfterAutoVerify, AutoFixPolicy, Preflight, AfterPreflight, GoalChecker, AutoGrader,
     BudgetCheck
<1>9. CASE TurnStart
  BY <1>9, <1>q DEF TurnStart, CancelSeen
<1> QED
  BY <1>1, <1>2, <1>3, <1>4, <1>5, <1>6, <1>7, <1>8, <1>9 DEF Next, Step, Idle

\* Once the operator has cancelled the model is heard from once more at most: in the
\* turn that was being taken (the cancel checks of run_until_done_with_events).
THEOREM CancelIsObeyed == Spec => []CancelStops
<1>1. Init => TypeInv /\ CancelInv
  <2> SUFFICES ASSUME Init PROVE TypeInv /\ CancelInv
    OBVIOUS
  <2>1. history = << >> /\ pc = "turn_start"
    BY DEF Init
  <2>2. Cardinality(Behind(history, Heard, Cancels)) = 0
    BY <2>1, CountEmpty
  <2> QED
    BY <2>1, <2>2, TypeInit DEF CancelInv
<1>2. TypeInv /\ CancelInv /\ [Next]_vars => (TypeInv /\ CancelInv)'
  BY TypeStep, CancelStep
<1>3. TypeInv /\ CancelInv => CancelStops
  <2> SUFFICES ASSUME TypeInv, CancelInv PROVE CancelStops
    OBVIOUS
  <2>1. history \in Seq(EventSet)
    BY DEF TypeInv, TypeOK
  <2>2. \A i \in 1..Len(history) : history[i] \in EventSet
    BY <2>1
  <2>3. Behind(history, Heard, Cancels) = {i \in 1..Len(history) :
            history[i].by = "model" /\ \E j \in 1 .. i - 1 : history[j].kind = "cancel"}
    BY <2>1, <2>2 DEF Behind, Heard, Cancels
  <2> QED
    BY <2>3 DEF CancelInv, CancelStops
<1> QED
  BY <1>1, <1>2, <1>3, PTL DEF Spec
-----------------------------------------------------------------------------
(***************************************************************************)
(* The breakers.  Each counts the repetitions of one thing in a streak that *)
(* it sets aside at anything else; what really happened since is at most    *)
(* what the streak says, and the streak is below its limit while the run    *)
(* goes on.                                                                 *)
(***************************************************************************)

\* What a streak says of x: its number when it is a streak of x, nothing otherwise.
Counted(streak, x) == IF streak.of = x THEN streak.n ELSE 0

\* Counting x once more adds one to what the streak says of x and makes it say
\* nothing of anything else.
LEMMA CountedBump ==
    ASSUME NEW X, NEW st \in Streaks(X), NEW x \in X, NEW y
    PROVE  /\ Counted(st, y) \in Nat /\ Counted(st, y) \in {0, st.n}
           /\ Counted(Bump(st, x), y) = IF y = x THEN Counted(st, y) + 1 ELSE 0
           /\ Bump(st, x).n \in Nat
<1>1. st.n \in Nat
  BY DEF Streaks
<1> QED
  BY <1>1 DEF Counted, Bump

\* The streak a policy starts from says nothing of anything.
LEMMA CountedNoStreak == ASSUME NEW y PROVE Counted(NoStreak, y) = 0 /\ NoStreak.n = 0
BY DEF Counted, NoStreak

(***************************************************************************)
(* Errors.                                                                  *)
(***************************************************************************)
Errs(s)      == {e \in EventSet : e.kind = "error" /\ e.sig = s}
ErrResets(s) == {e \in EventSet : e.by = "model" /\ ~(e.kind = "error" /\ e.sig = s)}
ErrRun(h, s) == Cardinality(RunOf(h, Errs(s), ErrResets(s)))

\* What an event does to the errors with signature s since the model last did
\* something else.
LEMMA ErrRunAppend ==
    ASSUME NEW h \in Seq(EventSet), NEW e \in EventSet, NEW s
    PROVE  /\ ErrRun(h, s) \in Nat
           /\ e.by # "model" /\ e.kind # "error" => ErrRun(Append(h, e), s) = ErrRun(h, s)
           /\ e.kind = "error" /\ e.sig = s => ErrRun(Append(h, e), s) = ErrRun(h, s) + 1
           /\ e.by = "model" /\ ~(e.kind = "error" /\ e.sig = s) => ErrRun(Append(h, e), s) = 0
BY RunOfAppend DEF ErrRun, Errs, ErrResets

PastWarning == {"stuck_detector", "auto_verify", "auto_fix", "budget_check"} \cup DonePoints

\* What the errors since the last reply may come to, before the policy has counted the
\* error of this turn or forgotten the streak of the last.
ErrRoom(s) ==
    IF pc = "turn_error" THEN IF s = err.sig THEN Counted(errorStreak, s) + 1 ELSE 0
    ELSE IF pc = "budget_warning" THEN 0 ELSE Counted(errorStreak, s)

ErrorInv ==
    ~Over =>
        /\ errorStreak.n < ErrorCap
        /\ pc \in PastWarning => errorStreak = NoStreak
        /\ \A s \in Sigs : ErrRun(history, s) <= ErrRoom(s)

LEMMA ErrorStep == TypeInv /\ ErrorInv /\ [Next]_vars => ErrorInv'
<1> SUFFICES ASSUME TypeInv, ErrorInv, [Next]_vars, ~Over' PROVE ErrorInv'
  BY DEF ErrorInv
<1> USE DEF Goto, Finish, Fail, NextTurn, Over, PastWarning, DonePoints
<1>h. history \in Seq(EventSet) /\ errorStreak \in Streaks(Sigs)
  BY DEF TypeInv, TypeOK
<1>q. ASSUME UNCHANGED errorStreak, ~Over,
             \A s \in Sigs : ErrRun(history', s) = ErrRun(history, s),
             pc \notin {"turn_error", "budget_warning"}, pc' \notin {"turn_error", "budget_warning"},
             pc' \in PastWarning => pc \in PastWarning
      PROVE  ErrorInv'
  BY <1>q DEF ErrorInv, ErrRoom
<1>e. ASSUME NEW e \in EventSet, e.by # "model", e.kind # "error", history' = Append(history, e)
      PROVE  \A s \in Sigs : ErrRun(history', s) = ErrRun(history, s)
  BY <1>e, <1>h, ErrRunAppend
<1>1. CASE TurnStart \/ NothingToResume
  BY <1>1, <1>q DEF TurnStart, NothingToResume, AfterPreTurn, streakVars
<1>2. CASE ResumePending
  <2>1. pc = "pre_turn" /\ pc' = "model" /\ UNCHANGED errorStreak
    BY <1>2 DEF ResumePending, AfterPreTurn, streakVars
  <2>2. \A s \in Sigs : ErrRun(history', s) = ErrRun(history, s)
    <3>1. CASE history' = history
      BY <3>1
    <3>2. CASE sidecar \in {"edit", "change"} /\ history' = Append(history, Changed(sidecar, "resume"))
      <4>1. /\ Changed(sidecar, "resume") \in EventSet
            /\ Changed(sidecar, "resume").by = "resume" /\ Changed(sidecar, "resume").kind = sidecar
        BY <3>2, EventType DEF Changed, Event
      <4> QED
        BY <1>e, <3>2, <4>1
    <3> QED
      BY <1>2, <3>1, <3>2 DEF ResumePending
  <2> QED
    BY <1>q, <2>1, <2>2
<1>3. CASE ModelReply
  <2>1. PICK o \in Outcomes : history' = Append(history, EventOf(o))
    BY <1>3 DEF ModelReply
  <2>2. EventOf(o) \in EventSet /\ EventOf(o).by = "model" /\ EventOf(o).kind # "error"
    BY OutcomeType DEF EventOf, Event, Changed
  <2>3. \A s \in Sigs : ErrRun(history', s) = 0
    BY <1>h, <2>1, <2>2, ErrRunAppend
  <2>4. pc = "model" /\ pc' = "budget_warning" /\ UNCHANGED errorStreak
    BY <1>3 DEF ModelReply, streakVars
  <2> QED
    BY <2>3, <2>4 DEF ErrorInv, ErrRoom
<1>4. CASE ModelError
  <2>1. PICK e \in Errors :
            /\ err' = e
            /\ \/ history' = Append(history, Event("error", "model", "none", e.sig))
               \/ \E k \in Tools \cap {"edit", "change"} :
                  history' = Append(Append(history, Changed(k, "posthook")),
                                    Event("error", "model", "none", e.sig))
    BY <1>4 DEF ModelError
  <2> DEFINE x == Event("error", "model", "none", e.sig)
  <2>2. x \in EventSet /\ x.by = "model" /\ x.kind = "error" /\ x.sig = e.sig
    BY Alphabets, EventType DEF Event
  <2> HIDE DEF x
  <2>3. \E h \in Seq(EventSet) : /\ history' = Append(h, x)
                                 /\ \A s \in Sigs : ErrRun(h, s) = ErrRun(history, s)
    <3>1. CASE history' = Append(history, x)
      BY <1>h, <3>1
    <3>2. ASSUME NEW k \in Tools \cap {"edit", "change"},
                 history' = Append(Append(history, Changed(k, "posthook")), x)
          PROVE  \E h \in Seq(EventSet) : /\ history' = Append(h, x)
                                 /\ \A s \in Sigs : ErrRun(h, s) = ErrRun(history, s)
      <4> DEFINE c == Changed(k, "posthook")
      <4>1. c \in EventSet /\ c.by # "model" /\ c.kind # "error"
        BY EventType DEF Changed, Event
      <4> HIDE DEF c
      <4>2. /\ Append(history, c) \in Seq(EventSet)
            /\ \A s \in Sigs : ErrRun(Append(history, c), s) = ErrRun(history, s)
        BY <1>h, <4>1, ErrRunAppend, AppendFacts
      <4> QED
        BY <3>2, <4>2 DEF c
    <3> QED
      BY <2>1, <3>1, <3>2 DEF x
  <2>4. PICK h \in Seq(EventSet) : /\ history' = Append(h, x)
                                   /\ \A s \in Sigs : ErrRun(h, s) = ErrRun(history, s)
    BY <2>3
  <2>5. \A s \in Sigs : ErrRun(history', s) = IF s = e.sig THEN ErrRun(history, s) + 1 ELSE 0
    BY <2>2, <2>4, ErrRunAppend
  <2>6. pc = "model" /\ pc' = "turn_error" /\ UNCHANGED errorStreak
    BY <1>4 DEF ModelError, streakVars
  <2>7. \A s \in Sigs : ErrRun(history, s) \in Nat /\ Counted(errorStreak, s) \in Nat
                        /\ ErrRun(history, s) <= Counted(errorStreak, s)
    BY <1>h, <2>2, <2>6, ErrRunAppend, CountedBump DEF ErrorInv, ErrRoom
  <2> QED
    BY <2>1, <2>5, <2>6, <2>7 DEF ErrorInv, ErrRoom
<1>5. CASE RecoverFromError
  <2>1. /\ pc = "turn_error" /\ pc' = "turn_start" /\ history' = history
        /\ errorStreak' = Bump(errorStreak, err.sig) /\ ~RecoveryExhausted(errorStreak')
    BY <1>5 DEF RecoverFromError, HookThen
  <2>2. err.sig \in Sigs
    BY <2>1, Alphabets DEF TypeInv, TypeOK
  <2>3. errorStreak'.n < ErrorCap
    <3>1. Bump(errorStreak, err.sig).n \in Nat
      BY <1>h, <2>2, CountedBump
    <3> QED
      BY <2>1, <3>1, BoundAssumption DEF RecoveryExhausted
  <2>4. \A s \in Sigs : Counted(errorStreak', s) = ErrRoom(s)
    BY <1>h, <2>1, <2>2, CountedBump DEF ErrRoom
  <2>5. \A s \in Sigs : ErrRun(history', s) <= Counted(errorStreak', s)
    BY <2>1, <2>4 DEF ErrorInv
  <2> QED
    BY <2>1, <2>3, <2>5 DEF ErrorInv, ErrRoom
<1>6. CASE BudgetWarning
  <2>1. /\ pc = "budget_warning" /\ pc' = "stuck_detector" /\ history' = history
        /\ errorStreak' = NoStreak
    BY <1>6 DEF BudgetWarning
  <2>2. \A s \in Sigs : ErrRun(history, s) <= 0
    BY <2>1 DEF ErrorInv, ErrRoom
  <2> QED
    BY <2>1, <2>2, CountedNoStreak, BoundAssumption DEF ErrorInv, ErrRoom
<1>7. CASE AutoVerifyFlush
  <2>1. PICK v \in Verdicts, s \in Sigs :
            history' = Append(history,
                Event("verify", "flush", v, IF v = "failed" THEN s ELSE None))
    BY <1>7 DEF AutoVerifyFlush
  <2> DEFINE e == Event("verify", "flush", v, IF v = "failed" THEN s ELSE None)
  <2>2. e \in EventSet /\ e.by = "flush" /\ e.kind = "verify"
    BY Alphabets, EventType DEF Event
  <2> HIDE DEF e
  <2>3. \A t \in Sigs : ErrRun(history', t) = ErrRun(history, t)
    BY <1>e, <2>1, <2>2 DEF e
  <2>4. /\ pc = "auto_verify" /\ pc' \in PastWarning /\ UNCHANGED errorStreak
    BY <1>7 DEF AutoVerifyFlush, AutoVerifyContinue, AfterAutoVerify, streakVars
  <2> QED
    BY <1>q, <2>3, <2>4
<1>8. CASE StuckDetector
  <2>1. pc = "stuck_detector" /\ pc' = "auto_verify" /\ UNCHANGED <<history, errorStreak>>
    BY <1>8 DEF StuckDetector, HookThen
  <2> QED
    BY <2>1, <1>q
<1>9. CASE AutoVerifyWait \/ AutoFixPolicy \/ Preflight
  <2>1. /\ pc \in PastWarning /\ pc' \in PastWarning \cup {"turn_start"}
        /\ UNCHANGED <<history, errorStreak>>
    BY <1>9 DEF AutoVerifyWait, AutoVerifyContinue, AfterAutoVerify, AutoFixPolicy, Preflight,
       AfterPreflight, streakVars
  <2> QED
    BY <2>1, <1>q
<1>10. CASE GoalChecker \/ AutoGrader \/ BudgetCheck
  <2>1. /\ pc \in PastWarning /\ pc' \in PastWarning \cup {"turn_start"}
        /\ UNCHANGED <<history, errorStreak>>
    BY <1>10 DEF GoalChecker, AutoGrader, BudgetCheck, streakVars
  <2> QED
    BY <2>1, <1>q
<1>11. CASE Cancel
  <2> DEFINE e == Event("cancel", "operator", "none", None)
  <2>1. e \in EventSet /\ e.by = "operator" /\ e.kind = "cancel"
    BY EventType DEF Event
  <2>2. history' = Append(history, e) /\ UNCHANGED <<pc, err, errorStreak>>
    BY <1>11 DEF Cancel, streakVars
  <2> HIDE DEF e
  <2>3. \A s \in Sigs : ErrRun(history', s) = ErrRun(history, s)
    BY <1>e, <2>1, <2>2
  <2> QED
    BY <2>2, <2>3 DEF ErrorInv, ErrRoom
<1>12. CASE NextRun
  <2>1. history' = << >> /\ pc' = "turn_start" /\ errorStreak' = NoStreak
    BY <1>12 DEF NextRun
  <2>2. \A s \in Sigs : ErrRun(history', s) = 0
    BY <2>1, CountEmpty DEF ErrRun
  <2> QED
    BY <2>1, <2>2, CountedNoStreak, BoundAssumption DEF ErrorInv, ErrRoom
<1>13. CASE UNCHANGED vars
  BY <1>13 DEF vars, ErrorInv, ErrRoom
<1>14. CASE TurnLimit \/ ApprovalHalt \/ ErrorInterrupted \/ ConfigError
  BY <1>14 DEF TurnLimit, ApprovalHalt, ErrorInterrupted, ConfigError, HookThen
<1> QED
  BY <1>1, <1>2, <1>3, <1>4, <1>5, <1>6, <1>7, <1>8, <1>9, <1>10, <1>11, <1>12,
     <1>13, <1>14 DEF Next, Step, Idle

(***************************************************************************)
(* The stuck detector.  It counts an outcome before the driver pushes it.   *)
(***************************************************************************)
Alike(k)       == {o \in Outcomes : <<o.tool, o.label>> = k}
StuckRun(q, k) == Cardinality(RunOf(q, Alike(k), Outcomes \ Alike(k)))

\* What an outcome does to the outcomes like k at the end.
LEMMA StuckRunAppend ==
    ASSUME NEW q \in Seq(Outcomes), NEW o \in Outcomes, NEW k
    PROVE  /\ StuckRun(q, k) \in Nat
           /\ StuckRun(Append(q, o), k)
                = IF k = <<o.tool, o.label>> THEN StuckRun(q, k) + 1 ELSE 0
BY RunOfAppend DEF StuckRun, Alike

\* The outcomes as the detector has seen them.
Seen == IF pc \in {"auto_verify", "auto_fix"} THEN Append(outcomes, cur) ELSE outcomes

StuckInv ==
    ~Over =>
        /\ stuckStreak.n < 2 * StuckThreshold
        /\ \A k \in ToolKinds \X Labels : StuckRun(Seen, k) <= Counted(stuckStreak, k)

LEMMA StuckStep == TypeInv /\ StuckInv /\ [Next]_vars => StuckInv'
<1> SUFFICES ASSUME TypeInv, StuckInv, [Next]_vars, ~Over' PROVE StuckInv'
  BY DEF StuckInv
<1> USE DEF Goto, Finish, Fail, NextTurn, Over
<1>h. outcomes \in Seq(Outcomes) /\ stuckStreak \in Streaks(ToolKinds \X Labels)
  BY DEF TypeInv, TypeOK
<1>q. ASSUME UNCHANGED stuckStreak, ~Over, Seen' = Seen PROVE StuckInv'
  BY <1>q DEF StuckInv
<1>o. ASSUME UNCHANGED outcomes, pc \notin {"auto_verify", "auto_fix"},
             pc' \notin {"auto_verify", "auto_fix"}
      PROVE  Seen' = Seen
  BY <1>o DEF Seen
<1>1. CASE StuckDetector
  <2> DEFINE x == <<cur.tool, cur.label>>
  <2>1. /\ pc = "stuck_detector" /\ pc' = "auto_verify" /\ UNCHANGED <<outcomes, cur>>
        /\ stuckStreak' = Bump(stuckStreak, x)
        /\ stuckStreak'.n < StuckThreshold \/ ~StuckAbort(stuckStreak')
    BY <1>1 DEF StuckDetector, HookThen, turnVars
  <2>2. cur \in Outcomes /\ x \in ToolKinds \X Labels
    BY <2>1, OutcomeType DEF TypeInv, TypeOK, PostPoints
  <2> HIDE DEF x
  <2>3. stuckStreak' = Bump(stuckStreak, x) /\ Bump(stuckStreak, x).n \in Nat
    BY <1>h, <2>1, <2>2, CountedBump
  <2>4. stuckStreak'.n < 2 * StuckThreshold
    BY <2>1, <2>3, BoundAssumption DEF StuckAbort
  <2>5. Seen = outcomes /\ Seen' = Append(outcomes, cur)
    BY <2>1 DEF Seen
  <2>6. ASSUME NEW k \in ToolKinds \X Labels
        PROVE  StuckRun(Seen', k) <= Counted(stuckStreak', k)
    <3>1. StuckRun(Append(outcomes, cur), k) = IF k = x THEN StuckRun(outcomes, k) + 1 ELSE 0
      BY <1>h, <2>2, StuckRunAppend DEF x
    <3>2. Counted(stuckStreak', k) = IF k = x THEN Counted(stuckStreak, k) + 1 ELSE 0
      BY <1>h, <2>2, <2>3, CountedBump
    <3>3. StuckRun(outcomes, k) \in Nat /\ Counted(stuckStreak, k) \in Nat
      BY <1>h, <2>2, StuckRunAppend, CountedBump
    <3>4. StuckRun(outcomes, k) <= Counted(stuckStreak, k)
      BY <2>1, <2>5 DEF StuckInv
    <3> QED
      BY <2>5, <3>1, <3>2, <3>3, <3>4
  <2> QED
    BY <2>4, <2>6 DEF StuckInv
<1>2. CASE AutoVerifyWait \/ AutoVerifyFlush
  <2>1. pc = "auto_verify" /\ AutoVerifyContinue /\ UNCHANGED <<cur, stuckStreak>>
    BY <1>2 DEF AutoVerifyWait, AutoVerifyFlush, turnVars, streakVars
  <2>2. Seen' = Seen
    BY <2>1 DEF Seen, AutoVerifyContinue, AfterAutoVerify
  <2> QED
    BY <1>q, <2>1, <2>2
<1>3. CASE AutoFixPolicy
  <2>1. /\ pc = "auto_fix" /\ pc' \in {"preflight", "budget_check"}
        /\ outcomes' = Append(outcomes, cur) /\ UNCHANGED stuckStreak
    BY <1>3 DEF AutoFixPolicy, streakVars
  <2> QED
    BY <1>q, <2>1 DEF Seen
<1>4. CASE Cancel
  <2>1. UNCHANGED <<pc, outcomes, cur, stuckStreak>>
    BY <1>4 DEF Cancel, streakVars
  <2> QED
    BY <1>q, <2>1 DEF Seen
<1>5. CASE NextRun
  <2>1. outcomes' = << >> /\ pc' = "turn_start" /\ stuckStreak' = NoStreak
    BY <1>5 DEF NextRun
  <2>2. \A k : StuckRun(Seen', k) = 0
    BY <2>1, CountEmpty DEF StuckRun, Seen
  <2> QED
    BY <2>1, <2>2, CountedNoStreak, BoundAssumption DEF StuckInv
<1>6. CASE TurnStart \/ NothingToResume \/ ResumePending \/ ModelReply \/ ModelError
  BY <1>6, <1>o, <1>q DEF TurnStart, NothingToResume, ResumePending, AfterPreTurn, ModelReply,
     ModelError, streakVars
<1>7. CASE RecoverFromError
  <2>1. /\ pc = "turn_error" /\ pc' = "turn_start" /\ UNCHANGED <<outcomes, stuckStreak>>
    BY <1>7 DEF RecoverFromError, HookThen
  <2> QED
    BY <1>o, <1>q, <2>1
<1>8. CASE BudgetWarning \/ Preflight \/ BudgetCheck
  BY <1>8, <1>o, <1>q DEF BudgetWarning, Preflight, AfterPreflight, BudgetCheck, streakVars
<1>9. CASE GoalChecker \/ AutoGrader
  <2>1. /\ pc \in {"goal_checker", "auto_grade"} /\ pc' \in {"turn_start", "auto_grade"}
        /\ UNCHANGED <<outcomes, stuckStreak>>
    BY <1>9 DEF GoalChecker, AutoGrader, streakVars
  <2> QED
    BY <1>o, <1>q, <2>1
<1>10. CASE UNCHANGED vars
  BY <1>10, <1>q DEF vars, Seen
<1>11. CASE TurnLimit \/ ApprovalHalt \/ ErrorInterrupted \/ ConfigError
  BY <1>11 DEF TurnLimit, ApprovalHalt, ErrorInterrupted, ConfigError, HookThen
<1> QED
  BY <1>1, <1>2, <1>3, <1>4, <1>5, <1>6, <1>7, <1>8, <1>9, <1>10, <1>11
  DEF Next, Step, Idle

\* A model that repeats an error, or itself, is stopped: no turn begins after ErrorCap
\* errors with one signature and no reply between them (ErrorRecoveryPolicy), nor after
\* twice StuckThreshold replies that look alike (StuckDetectorPolicy).
THEOREM RepetitionIsStopped == Spec => []RepetitionBreakers
<1>1. Init => TypeInv /\ ErrorInv /\ StuckInv
  <2> SUFFICES ASSUME Init PROVE ErrorInv /\ StuckInv
    BY TypeInit
  <2>1. /\ history = << >> /\ outcomes = << >> /\ pc = "turn_start"
        /\ errorStreak = NoStreak /\ stuckStreak = NoStreak
    BY DEF Init
  <2>2. \A s : ErrRun(history, s) = 0
    BY <2>1, CountEmpty DEF ErrRun
  <2>3. \A k : StuckRun(Seen, k) = 0
    BY <2>1, CountEmpty DEF StuckRun, Seen
  <2>4. ErrorInv
    BY <2>1, <2>2, CountedNoStreak, BoundAssumption
    DEF ErrorInv, ErrRoom, PastWarning, DonePoints
  <2>5. StuckInv
    BY <2>1, <2>3, CountedNoStreak, BoundAssumption DEF StuckInv
  <2> QED
    BY <2>4, <2>5
<1>2. TypeInv /\ ErrorInv /\ StuckInv /\ [Next]_vars => (TypeInv /\ ErrorInv /\ StuckInv)'
  BY TypeStep, ErrorStep, StuckStep
<1>3. TypeInv /\ ErrorInv /\ StuckInv => RepetitionBreakers
  <2> SUFFICES ASSUME TypeInv, ErrorInv, StuckInv, pc = "turn_start"
               PROVE  ErrorBreaker /\ StuckBound
    BY DEF RepetitionBreakers, ErrorBreaker, StuckBound
  <2>1. /\ history \in Seq(EventSet) /\ outcomes \in Seq(Outcomes) /\ ~Over
        /\ errorStreak \in Streaks(Sigs) /\ stuckStreak \in Streaks(ToolKinds \X Labels)
    BY DEF TypeInv, TypeOK, Over
  <2>2. \A i \in 1..Len(history) : history[i] \in EventSet
    BY <2>1
  <2>3. \A i \in 1..Len(outcomes) : outcomes[i] \in Outcomes
    BY <2>1
  <2>4. ASSUME NEW s \in Sigs
        PROVE  /\ ErrRun(history, s) < ErrorCap
               /\ RunOf(history, Errs(s), ErrResets(s)) = {i \in 1..Len(history) :
                    /\ history[i].kind = "error" /\ history[i].sig = s
                    /\ \A j \in i + 1 .. Len(history) :
                         ~(history[j].by = "model"
                             /\ ~(history[j].kind = "error" /\ history[j].sig = s))}
    <3>1. ErrRun(history, s) <= Counted(errorStreak, s)
      BY <2>1 DEF ErrorInv, ErrRoom
    <3>2. Counted(errorStreak, s) \in {0, errorStreak.n} /\ errorStreak.n < ErrorCap
      BY <2>1, CountedBump DEF ErrorInv
    <3>3. ErrRun(history, s) \in Nat /\ Counted(errorStreak, s) \in Nat
      BY <2>1, EventType, ErrRunAppend, CountedBump
    <3>4. RunOf(history, Errs(s), ErrResets(s)) = {i \in 1..Len(history) :
                    /\ history[i].kind = "error" /\ history[i].sig = s
                    /\ \A j \in i + 1 .. Len(history) :
                         ~(history[j].by = "model"
                             /\ ~(history[j].kind = "error" /\ history[j].sig = s))}
      BY <2>1, <2>2 DEF RunOf, Errs, ErrResets
    <3> QED
      BY <3>1, <3>2, <3>3, <3>4, BoundAssumption
  <2>5. ErrorBreaker
    BY <2>4 DEF ErrorBreaker, Since, ErrRun
  <2>6. ASSUME NEW o \in Outcomes
        PROVE  /\ StuckRun(outcomes, <<o.tool, o.label>>) < 2 * StuckThreshold
               /\ RunOf(outcomes, Alike(<<o.tool, o.label>>), Outcomes \ Alike(<<o.tool, o.label>>))
                    = {i \in 1..Len(outcomes) :
                    /\ outcomes[i].tool = o.tool /\ outcomes[i].label = o.label
                    /\ \A j \in i + 1 .. Len(outcomes) :
                         ~(~(outcomes[j].tool = o.tool /\ outcomes[j].label = o.label))}
    <3> DEFINE k == <<o.tool, o.label>>
    <3>1. k \in ToolKinds \X Labels
      BY OutcomeType
    <3>4. RunOf(outcomes, Alike(k), Outcomes \ Alike(k)) = {i \in 1..Len(outcomes) :
                    /\ outcomes[i].tool = o.tool /\ outcomes[i].label = o.label
                    /\ \A j \in i + 1 .. Len(outcomes) :
                         ~(~(outcomes[j].tool = o.tool /\ outcomes[j].label = o.label))}
      BY <2>1, <2>3 DEF RunOf, Alike
    <3> HIDE DEF k
    <3>2. StuckRun(outcomes, k) <= Counted(stuckStreak, k)
      BY <2>1, <3>1 DEF StuckInv, Seen
    <3>3. /\ Counted(stuckStreak, k) \in {0, stuckStreak.n} /\ Counted(stuckStreak, k) \in Nat
          /\ StuckRun(outcomes, k) \in Nat /\ stuckStreak.n < 2 * StuckThreshold
      BY <2>1, <3>1, CountedBump, StuckRunAppend DEF StuckInv
    <3>5. StuckRun(outcomes, k) < 2 * StuckThreshold
      BY <3>2, <3>3, BoundAssumption
    <3> QED
      BY <3>4, <3>5 DEF k
  <2>7. StuckBound
    BY <2>6 DEF StuckBound, Since, StuckRun
  <2> QED
    BY <2>5, <2>7
<1> QED
  BY <1>1, <1>2, <1>3, PTL DEF Spec

(***************************************************************************)
(* Failing verifies: the automatic ones (AutoVerifyAfterMutationPolicy) and *)
(* the model's own (AutoFixLoopPolicy).                                     *)
(***************************************************************************)
FlushFails(s)  == {e \in EventSet : e.kind = "verify" /\ e.by = "flush" /\ e.sig = s}
FlushResets(s) == {e \in EventSet :
    /\ e.kind = "verify"
    /\ \/ e.verdict \in {"passed", "skipped"}
       \/ e.by = "flush" /\ e.verdict = "failed" /\ e.sig # s}
FlushRun(h, s) == Cardinality(RunOf(h, FlushFails(s), FlushResets(s)))

\* What an event does to the automatic failures with signature s since a green verify
\* or another automatic failure.
LEMMA FlushRunAppend ==
    ASSUME NEW h \in Seq(EventSet), NEW e \in EventSet, NEW s
    PROVE  /\ FlushRun(h, s) \in Nat
           /\ e.kind # "verify" => FlushRun(Append(h, e), s) = FlushRun(h, s)
           /\ e.kind = "verify" /\ e.by # "flush" =>
                FlushRun(Append(h, e), s)
                  = IF e.verdict \in {"passed", "skipped"} THEN 0 ELSE FlushRun(h, s)
           /\ e.kind = "verify" /\ e.by = "flush" /\ e.verdict = "failed" =>
                FlushRun(Append(h, e), s) = IF e.sig = s THEN FlushRun(h, s) + 1 ELSE 0
           /\ e.kind = "verify" /\ e.by = "flush" /\ e.verdict # "failed" /\ e.sig # s =>
                FlushRun(Append(h, e), s)
                  = IF e.verdict \in {"passed", "skipped"} THEN 0 ELSE FlushRun(h, s)
<1>1. FlushRun(h, s) \in Nat
  BY RunOfAppend DEF FlushRun
<1>2. CASE e \in FlushFails(s) /\ e \notin FlushResets(s)
  <2>1. FlushRun(Append(h, e), s) = FlushRun(h, s) + 1
    BY <1>2, RunOfAppend DEF FlushRun
  <2> QED
    BY <1>1, <1>2, <2>1 DEF FlushFails, FlushResets
<1>3. CASE e \notin FlushFails(s) /\ e \notin FlushResets(s)
  <2>1. FlushRun(Append(h, e), s) = FlushRun(h, s)
    BY <1>3, RunOfAppend DEF FlushRun
  <2> QED
    BY <1>1, <1>3, <2>1 DEF FlushFails, FlushResets
<1>4. CASE e \notin FlushFails(s) /\ e \in FlushResets(s)
  <2>1. FlushRun(Append(h, e), s) = 0
    BY <1>4, RunOfAppend DEF FlushRun
  <2> QED
    BY <1>1, <1>4, <2>1 DEF FlushFails, FlushResets
<1>5. CASE e \in FlushFails(s) /\ e \in FlushResets(s)
  BY <1>1, <1>5 DEF FlushFails, FlushResets
<1> QED
  BY <1>2, <1>3, <1>4, <1>5

\* A green verify of the model is in the history at once, and in the streak only when
\* the policy has run.
FlushInv ==
    AutoFix /\ ~Over =>
        /\ Below(flushFail.n, FixCap)
        /\ \A s \in Sigs : FlushRun(history, s) <= Counted(flushFail, s)
        /\ pc \in BeforeAutoVerify /\ cur.tool = "verify" /\ Succeeded(cur) =>
              \A s \in Sigs : FlushRun(history, s) = 0

LEMMA FlushStep == TypeInv /\ FlushInv /\ [Next]_vars => FlushInv'
<1> SUFFICES ASSUME TypeInv, FlushInv, [Next]_vars, ~Over', AutoFix PROVE FlushInv'
  BY DEF FlushInv
<1> USE DEF Goto, Finish, Fail, NextTurn, Over, BeforeAutoVerify
<1>h. history \in Seq(EventSet) /\ flushFail \in Streaks(Sigs)
  BY DEF TypeInv, TypeOK
<1>q. ASSUME UNCHANGED flushFail, ~Over,
             \A s \in Sigs : FlushRun(history', s) = FlushRun(history, s),
             pc' \in BeforeAutoVerify => pc \in BeforeAutoVerify /\ UNCHANGED cur
      PROVE  FlushInv'
  BY <1>q DEF FlushInv
<1>e. ASSUME NEW e \in EventSet, e.kind # "verify", history' = Append(history, e)
      PROVE  \A s \in Sigs : FlushRun(history', s) = FlushRun(history, s)
  BY <1>e, <1>h, FlushRunAppend
<1>1. CASE ResumePending
  <2>1. pc = "pre_turn" /\ pc' = "model" /\ UNCHANGED flushFail
    BY <1>1 DEF ResumePending, AfterPreTurn, verifyVars
  <2>2. \A s \in Sigs : FlushRun(history', s) = FlushRun(history, s)
    <3>1. CASE history' = history
      BY <3>1
    <3>2. CASE sidecar \in {"edit", "change"} /\ history' = Append(history, Changed(sidecar, "resume"))
      <4>1. Changed(sidecar, "resume") \in EventSet /\ Changed(sidecar, "resume").kind = sidecar
        BY <3>2, EventType DEF Changed, Event
      <4> QED
        BY <1>e, <3>2, <4>1
    <3> QED
      BY <1>1, <3>1, <3>2 DEF ResumePending
  <2> QED
    BY <1>q, <2>1, <2>2
<1>2. CASE ModelReply
  <2>1. PICK o \in Outcomes : cur' = o /\ history' = Append(history, EventOf(o))
    BY <1>2 DEF ModelReply
  <2>2. /\ EventOf(o) \in EventSet /\ EventOf(o).by # "flush"
        /\ EventOf(o).kind = "verify" <=> o.tool = "verify"
        /\ o.tool = "verify" /\ Succeeded(o) => EventOf(o).verdict \in {"passed", "skipped"}
    BY OutcomeType DEF EventOf, Event, Changed, VerdictOf, Succeeded
  <2>3. ASSUME NEW s \in Sigs
        PROVE  /\ FlushRun(history', s) \in {0, FlushRun(history, s)}
               /\ FlushRun(history, s) \in Nat
               /\ o.tool = "verify" /\ Succeeded(o) => FlushRun(history', s) = 0
    BY <1>h, <2>1, <2>2, FlushRunAppend
  <2>4. pc = "model" /\ pc' = "budget_warning" /\ UNCHANGED flushFail
    BY <1>2 DEF ModelReply, verifyVars
  <2>5. ASSUME NEW s \in Sigs PROVE FlushRun(history', s) <= Counted(flushFail, s)
    <3>1. FlushRun(history, s) <= Counted(flushFail, s) /\ Counted(flushFail, s) \in Nat
      BY <1>h, <2>4, CountedBump DEF FlushInv
    <3> QED
      BY <2>3, <3>1
  <2> QED
    BY <2>1, <2>3, <2>4, <2>5 DEF FlushInv
<1>3. CASE ModelError
  <2>1. PICK e \in Errors :
            \/ history' = Append(history, Event("error", "model", "none", e.sig))
            \/ \E k \in Tools \cap {"edit", "change"} :
                  history' = Append(Append(history, Changed(k, "posthook")),
                                    Event("error", "model", "none", e.sig))
    BY <1>3 DEF ModelError
  <2> DEFINE x == Event("error", "model", "none", e.sig)
  <2>2. x \in EventSet /\ x.kind = "error"
    BY Alphabets, EventType DEF Event
  <2> HIDE DEF x
  <2>3. \A s \in Sigs : FlushRun(history', s) = FlushRun(history, s)
    <3>1. CASE history' = Append(history, x)
      BY <1>e, <2>2, <3>1
    <3>2. ASSUME NEW k \in Tools \cap {"edit", "change"},
                 history' = Append(Append(history, Changed(k, "posthook")), x)
          PROVE  \A s \in Sigs : FlushRun(history', s) = FlushRun(history, s)
      <4> DEFINE c == Changed(k, "posthook")
      <4>1. c \in EventSet /\ c.kind # "verify"
        BY EventType DEF Changed, Event
      <4> HIDE DEF c
      <4>2. /\ Append(history, c) \in Seq(EventSet)
            /\ \A s \in Sigs : FlushRun(Append(history, c), s) = FlushRun(history, s)
        BY <1>h, <4>1, AppendFacts, FlushRunAppend
      <4>3. history' = Append(Append(history, c), x)
        BY <3>2 DEF c
      <4>4. ASSUME NEW h \in Seq(EventSet), NEW s \in Sigs
            PROVE  FlushRun(Append(h, x), s) = FlushRun(h, s)
        BY <2>2, FlushRunAppend
      <4> QED
        BY <4>2, <4>3, <4>4
    <3> QED
      BY <2>1, <3>1, <3>2 DEF x
  <2>4. pc = "model" /\ pc' = "turn_error" /\ UNCHANGED flushFail
    BY <1>3 DEF ModelError, verifyVars
  <2> QED
    BY <1>q, <2>3, <2>4
<1>4. CASE AutoVerifyWait
  <2>1. pc = "auto_verify" /\ pc' \notin BeforeAutoVerify /\ history' = history
    BY <1>4 DEF AutoVerifyWait, AutoVerifyContinue, AfterAutoVerify
  <2>2. CASE flushFail' = flushFail
    BY <1>q, <2>1, <2>2
  <2>3. CASE flushFail' = NoStreak /\ cur.tool = "verify" /\ Succeeded(cur)
    BY <2>1, <2>3, CountedNoStreak DEF FlushInv, Below
  <2> QED
    BY <1>4, <2>2, <2>3 DEF AutoVerifyWait
<1>5. CASE AutoVerifyFlush
  <2>1. PICK v \in Verdicts, s \in Sigs :
            LET streak == Bump(flushFail, s)
            IN  /\ history' = Append(history,
                        Event("verify", "flush", v, IF v = "failed" THEN s ELSE None))
                /\ flushFail' = IF v \in {"passed", "skipped"} THEN NoStreak
                                ELSE IF v = "failed" /\ AutoFix THEN streak ELSE flushFail
                /\ ~FlushTrips(v, streak) /\ AutoVerifyContinue
    BY <1>5 DEF AutoVerifyFlush
  <2> DEFINE e == Event("verify", "flush", v, IF v = "failed" THEN s ELSE None)
  <2>2. /\ e \in EventSet /\ e.kind = "verify" /\ e.by = "flush" /\ e.verdict = v
        /\ e.sig = IF v = "failed" THEN s ELSE None
    BY Alphabets, EventType DEF Event
  <2> HIDE DEF e
  <2>3. history' = Append(history, e)
    BY <2>1 DEF e
  <2>4. pc = "auto_verify" /\ pc' \notin BeforeAutoVerify
    BY <1>5, <2>1 DEF AutoVerifyFlush, AutoVerifyContinue, AfterAutoVerify
  <2>5. \A t \in Sigs : /\ FlushRun(history, t) \in Nat /\ Counted(flushFail, t) \in Nat
                        /\ FlushRun(history, t) <= Counted(flushFail, t) /\ t # None
    BY <1>h, <2>2, <2>4, FlushRunAppend, CountedBump, NoneAssumption DEF FlushInv
  <2>6. CASE v \in {"passed", "skipped"}
    <3>1. \A t \in Sigs : FlushRun(history', t) = 0
      BY <1>h, <2>2, <2>3, <2>5, <2>6, FlushRunAppend
    <3> QED
      BY <2>1, <2>4, <2>6, <3>1, CountedNoStreak DEF FlushInv, Below
  <2>7. CASE v = "failed"
    <3>1. flushFail' = Bump(flushFail, s) /\ ~BreakerTrips(Bump(flushFail, s))
      BY <2>1, <2>7 DEF FlushTrips
    <3>2. Below(flushFail'.n, FixCap)
      <4>1. Bump(flushFail, s).n \in Nat
        BY <1>h, CountedBump
      <4> QED
        BY <3>1, <4>1, BoundAssumption DEF BreakerTrips, Below
    <3>3. ASSUME NEW t \in Sigs PROVE FlushRun(history', t) <= Counted(flushFail', t)
      <4>1. FlushRun(history', t) = IF s = t THEN FlushRun(history, t) + 1 ELSE 0
        BY <1>h, <2>2, <2>3, <2>7, FlushRunAppend
      <4>2. Counted(flushFail', t) = IF t = s THEN Counted(flushFail, t) + 1 ELSE 0
        BY <1>h, <3>1, CountedBump
      <4> QED
        BY <2>5, <4>1, <4>2
    <3> QED
      BY <2>4, <3>2, <3>3 DEF FlushInv
  <2>8. CASE v \notin {"passed", "skipped", "failed"}
    <3>1. \A t \in Sigs : FlushRun(history', t) = FlushRun(history, t)
      BY <1>h, <2>2, <2>3, <2>5, <2>8, FlushRunAppend
    <3> QED
      BY <1>q, <2>1, <2>4, <2>8, <3>1
  <2> QED
    BY <2>6, <2>7, <2>8
<1>6. CASE Cancel
  <2> DEFINE e == Event("cancel", "operator", "none", None)
  <2>1. e \in EventSet /\ e.kind = "cancel"
    BY EventType DEF Event
  <2>2. history' = Append(history, e) /\ UNCHANGED <<pc, cur, flushFail>>
    BY <1>6 DEF Cancel, verifyVars
  <2> HIDE DEF e
  <2>3. \A s \in Sigs : FlushRun(history', s) = FlushRun(history, s)
    BY <1>e, <2>1, <2>2
  <2> QED
    BY <1>q, <2>2, <2>3
<1>7. CASE NextRun
  <2>1. history' = << >> /\ pc' = "turn_start" /\ flushFail' = NoStreak
    BY <1>7 DEF NextRun
  <2>2. \A s \in Sigs : FlushRun(history', s) = 0
    BY <2>1, CountEmpty DEF FlushRun
  <2> QED
    BY <2>1, <2>2, CountedNoStreak DEF FlushInv, Below
<1>8. CASE TurnStart \/ NothingToResume \/ BudgetWarning \/ AutoFixPolicy \/ Preflight
  BY <1>8, <1>q DEF TurnStart, NothingToResume, AfterPreTurn, BudgetWarning, AutoFixPolicy,
     Preflight, AfterPreflight, verifyVars, turnVars
<1>9. CASE RecoverFromError
  <2>1. pc = "turn_error" /\ pc' = "turn_start" /\ UNCHANGED <<history, flushFail>>
    BY <1>9 DEF RecoverFromError, HookThen, verifyVars
  <2> QED
    BY <1>q, <2>1
<1>10. CASE StuckDetector
  <2>1. pc = "stuck_detector" /\ pc' = "auto_verify" /\ UNCHANGED <<history, flushFail, cur>>
    BY <1>10 DEF StuckDetector, HookThen, verifyVars, turnVars
  <2> QED
    BY <1>q, <2>1
<1>11. CASE GoalChecker \/ AutoGrader \/ BudgetCheck
  <2>1. /\ pc \in {"goal_checker", "auto_grade", "budget_check"}
        /\ pc' \in {"turn_start", "auto_grade"} /\ UNCHANGED <<history, flushFail>>
    BY <1>11 DEF GoalChecker, AutoGrader, BudgetCheck, verifyVars
  <2> QED
    BY <1>q, <2>1
<1>12. CASE UNCHANGED vars
  BY <1>12, <1>q DEF vars, verifyVars
<1>13. CASE TurnLimit \/ ApprovalHalt \/ ErrorInterrupted \/ ConfigError
  BY <1>13 DEF TurnLimit, ApprovalHalt, ErrorInterrupted, ConfigError, HookThen
<1> QED
  BY <1>1, <1>2, <1>3, <1>4, <1>5, <1>6, <1>7, <1>8, <1>9, <1>10, <1>11, <1>12,
     <1>13 DEF Next, Step, Idle

OwnFails(s)  == {e \in EventSet : e.kind = "verify" /\ e.by = "model" /\ e.sig = s}
OwnResets(s) == {e \in EventSet : /\ e.by = "model" /\ e.kind # "error"
                                  /\ ~(e.kind = "verify" /\ e.by = "model" /\ e.sig = s)}
OwnRun(h, s) == Cardinality(RunOf(h, OwnFails(s), OwnResets(s)))

\* What an event does to the model's own failures with signature s since it last did
\* something else.
LEMMA OwnRunAppend ==
    ASSUME NEW h \in Seq(EventSet), NEW e \in EventSet, NEW s
    PROVE  /\ OwnRun(h, s) \in Nat
           /\ e.by # "model" \/ e.kind = "error" => OwnRun(Append(h, e), s) = OwnRun(h, s)
           /\ e.by = "model" /\ e.kind # "error" =>
                OwnRun(Append(h, e), s)
                  = IF e.kind = "verify" /\ e.sig = s THEN OwnRun(h, s) + 1 ELSE 0
BY RunOfAppend DEF OwnRun, OwnFails, OwnResets

\* What those failures may come to, before the policy has counted this turn's.
OwnRoom(s) ==
    IF pc \in PostPoints
    THEN IF CountsForFix(cur) /\ cur.sig = s THEN Counted(fixFail, s) + 1 ELSE 0
    ELSE Counted(fixFail, s)

OwnInv ==
    AutoFix /\ ~Over =>
        /\ Below(fixFail.n, FixCap)
        /\ \A s \in Sigs : OwnRun(history, s) <= OwnRoom(s)

LEMMA OwnStep == TypeInv /\ OwnInv /\ [Next]_vars => OwnInv'
<1> SUFFICES ASSUME TypeInv, OwnInv, [Next]_vars, ~Over', AutoFix PROVE OwnInv'
  BY DEF OwnInv
<1> USE DEF Goto, Finish, Fail, NextTurn, Over, PostPoints
<1>h. history \in Seq(EventSet) /\ fixFail \in Streaks(Sigs)
  BY DEF TypeInv, TypeOK
<1>q. ASSUME UNCHANGED fixFail, ~Over,
             \A s \in Sigs : OwnRun(history', s) = OwnRun(history, s),
             pc' \in PostPoints <=> pc \in PostPoints, pc \in PostPoints => UNCHANGED cur
      PROVE  OwnInv'
  <2>1. \A s \in Sigs : OwnRoom(s)' = OwnRoom(s)
    BY <1>q DEF OwnRoom
  <2> QED
    BY <1>q, <2>1 DEF OwnInv
<1>e. ASSUME NEW e \in EventSet, e.by # "model" \/ e.kind = "error",
             history' = Append(history, e)
      PROVE  \A s \in Sigs : OwnRun(history', s) = OwnRun(history, s)
  BY <1>e, <1>h, OwnRunAppend
<1>1. CASE ResumePending
  <2>1. pc = "pre_turn" /\ pc' = "model" /\ UNCHANGED fixFail
    BY <1>1 DEF ResumePending, AfterPreTurn, verifyVars
  <2>2. \A s \in Sigs : OwnRun(history', s) = OwnRun(history, s)
    <3>1. CASE history' = history
      BY <3>1
    <3>2. CASE sidecar \in {"edit", "change"} /\ history' = Append(history, Changed(sidecar, "resume"))
      <4>1. Changed(sidecar, "resume") \in EventSet /\ Changed(sidecar, "resume").by = "resume"
        BY <3>2, EventType DEF Changed, Event
      <4> QED
        BY <1>e, <3>2, <4>1
    <3> QED
      BY <1>1, <3>1, <3>2 DEF ResumePending
  <2> QED
    BY <1>q, <2>1, <2>2
<1>2. CASE ModelReply
  <2>1. PICK o \in Outcomes : cur' = o /\ history' = Append(history, EventOf(o))
    BY <1>2 DEF ModelReply
  <2>2. /\ EventOf(o) \in EventSet /\ EventOf(o).by = "model" /\ EventOf(o).kind # "error"
        /\ EventOf(o).kind = "verify" /\ EventOf(o).sig # None => CountsForFix(o)
        /\ EventOf(o).kind = "verify" => EventOf(o).sig = o.sig
    BY OutcomeType DEF EventOf, Event, Changed, CountsForFix, Succeeded, Outcomes
  <2>3. pc = "model" /\ pc' = "budget_warning" /\ UNCHANGED fixFail
    BY <1>2 DEF ModelReply, verifyVars
  <2>4. ASSUME NEW s \in Sigs PROVE OwnRun(history', s) <= OwnRoom(s)'
    <3>1. OwnRun(history', s) = IF EventOf(o).kind = "verify" /\ EventOf(o).sig = s
                                THEN OwnRun(history, s) + 1 ELSE 0
      BY <1>h, <2>1, <2>2, OwnRunAppend
    <3>2. /\ OwnRun(history, s) <= Counted(fixFail, s)
          /\ OwnRun(history, s) \in Nat /\ Counted(fixFail, s) \in Nat
      BY <1>h, <2>2, <2>3, OwnRunAppend, CountedBump DEF OwnInv, OwnRoom
    <3>3. OwnRoom(s)' = IF CountsForFix(o) /\ o.sig = s THEN Counted(fixFail, s) + 1 ELSE 0
      BY <2>1, <2>3 DEF OwnRoom
    <3>4. EventOf(o).kind = "verify" /\ EventOf(o).sig = s => CountsForFix(o) /\ o.sig = s
      BY <2>2, NoneAssumption
    <3> QED
      BY <3>1, <3>2, <3>3, <3>4
  <2> QED
    BY <2>3, <2>4 DEF OwnInv
<1>3. CASE ModelError
  <2>1. PICK e \in Errors :
            \/ history' = Append(history, Event("error", "model", "none", e.sig))
            \/ \E k \in Tools \cap {"edit", "change"} :
                  history' = Append(Append(history, Changed(k, "posthook")),
                                    Event("error", "model", "none", e.sig))
    BY <1>3 DEF ModelError
  <2> DEFINE x == Event("error", "model", "none", e.sig)
  <2>2. x \in EventSet /\ x.kind = "error"
    BY Alphabets, EventType DEF Event
  <2> HIDE DEF x
  <2>3. \A s \in Sigs : OwnRun(history', s) = OwnRun(history, s)
    <3>1. CASE history' = Append(history, x)
      BY <1>e, <2>2, <3>1
    <3>2. ASSUME NEW k \in Tools \cap {"edit", "change"},
                 history' = Append(Append(history, Changed(k, "posthook")), x)
          PROVE  \A s \in Sigs : OwnRun(history', s) = OwnRun(history, s)
      <4> DEFINE c == Changed(k, "posthook")
      <4>1. c \in EventSet /\ c.by # "model"
        BY EventType DEF Changed, Event
      <4> HIDE DEF c
      <4>2. /\ Append(history, c) \in Seq(EventSet)
            /\ \A s \in Sigs : OwnRun(Append(history, c), s) = OwnRun(history, s)
        BY <1>h, <4>1, AppendFacts, OwnRunAppend
      <4>3. history' = Append(Append(history, c), x)
        BY <3>2 DEF c
      <4> QED
        BY <2>2, <4>2, <4>3, OwnRunAppend
    <3> QED
      BY <2>1, <3>1, <3>2 DEF x
  <2>4. pc = "model" /\ pc' = "turn_error" /\ UNCHANGED fixFail
    BY <1>3 DEF ModelError, verifyVars
  <2> QED
    BY <1>q, <2>3, <2>4
<1>4. CASE AutoVerifyWait
  <2>1. /\ pc = "auto_verify" /\ pc' = "auto_fix"
        /\ UNCHANGED <<history, cur, fixFail>>
    BY <1>4 DEF AutoVerifyWait, AutoVerifyContinue, AfterAutoVerify, turnVars
  <2> QED
    BY <1>q, <2>1
<1>5. CASE AutoVerifyFlush
  <2>1. PICK v \in Verdicts, s \in Sigs :
            history' = Append(history,
                Event("verify", "flush", v, IF v = "failed" THEN s ELSE None))
    BY <1>5 DEF AutoVerifyFlush
  <2> DEFINE e == Event("verify", "flush", v, IF v = "failed" THEN s ELSE None)
  <2>2. e \in EventSet /\ e.by = "flush"
    BY Alphabets, EventType DEF Event
  <2> HIDE DEF e
  <2>3. \A t \in Sigs : OwnRun(history', t) = OwnRun(history, t)
    BY <1>e, <2>1, <2>2 DEF e
  <2>4. pc = "auto_verify" /\ pc' = "auto_fix" /\ UNCHANGED <<cur, fixFail>>
    BY <1>5 DEF AutoVerifyFlush, AutoVerifyContinue, AfterAutoVerify, turnVars
  <2> QED
    BY <1>q, <2>3, <2>4
<1>6. CASE AutoFixPolicy
  <2>1. pc = "auto_fix" /\ pc' \in {"preflight", "budget_check"} /\ history' = history
    BY <1>6 DEF AutoFixPolicy
  <2>2. ASSUME NEW s \in Sigs
        PROVE  OwnRun(history, s) <= IF CountsForFix(cur) /\ cur.sig = s
                                     THEN Counted(fixFail, s) + 1 ELSE 0
    BY <2>1 DEF OwnInv, OwnRoom
  <2>3. CASE ~CountsForFix(cur)
    <3>1. fixFail' = NoStreak
      BY <1>6, <2>3 DEF AutoFixPolicy
    <3> QED
      BY <2>1, <2>2, <2>3, <3>1, CountedNoStreak DEF OwnInv, OwnRoom, Below
  <2>4. CASE CountsForFix(cur)
    <3>1. fixFail' = Bump(fixFail, cur.sig) /\ ~BreakerTrips(Bump(fixFail, cur.sig))
      BY <1>6, <2>1, <2>4 DEF AutoFixPolicy
    <3>2. cur.sig \in Sigs
      BY <2>1, <2>4, OutcomeType DEF CountsForFix, Succeeded, TypeInv, TypeOK
    <3>3. Below(fixFail'.n, FixCap)
      <4>1. Bump(fixFail, cur.sig).n \in Nat
        BY <1>h, <3>2, CountedBump
      <4> QED
        BY <3>1, <4>1, BoundAssumption DEF BreakerTrips, Below
    <3>4. ASSUME NEW s \in Sigs PROVE OwnRun(history', s) <= Counted(fixFail', s)
      <4>1. Counted(fixFail', s) = IF s = cur.sig THEN Counted(fixFail, s) + 1 ELSE 0
        BY <1>h, <3>1, <3>2, CountedBump
      <4> QED
        BY <2>1, <2>2, <2>4, <4>1
    <3> QED
      BY <2>1, <3>3, <3>4 DEF OwnInv, OwnRoom
  <2> QED
    BY <2>3, <2>4
<1>7. CASE Cancel
  <2> DEFINE e == Event("cancel", "operator", "none", None)
  <2>1. e \in EventSet /\ e.by = "operator"
    BY EventType DEF Event
  <2>2. history' = Append(history, e) /\ UNCHANGED <<pc, cur, fixFail>> /\ ~Over
    BY <1>7 DEF Cancel, verifyVars
  <2> HIDE DEF e
  <2>3. \A s \in Sigs : OwnRun(history', s) = OwnRun(history, s)
    BY <1>e, <2>1, <2>2
  <2> QED
    BY <1>q, <2>2, <2>3
<1>8. CASE NextRun
  <2>1. history' = << >> /\ pc' = "turn_start" /\ fixFail' = NoStreak
    BY <1>8 DEF NextRun
  <2>2. \A s \in Sigs : OwnRun(history', s) = 0
    BY <2>1, CountEmpty DEF OwnRun
  <2> QED
    BY <2>1, <2>2, CountedNoStreak DEF OwnInv, OwnRoom, Below
<1>9. CASE TurnStart \/ NothingToResume \/ BudgetWarning \/ Preflight
  BY <1>9, <1>q DEF TurnStart, NothingToResume, AfterPreTurn, BudgetWarning,
     Preflight, AfterPreflight, verifyVars, turnVars
<1>10. CASE RecoverFromError
  <2>1. pc = "turn_error" /\ pc' = "turn_start" /\ UNCHANGED <<history, fixFail>>
    BY <1>10 DEF RecoverFromError, HookThen, verifyVars
  <2> QED
    BY <1>q, <2>1
<1>11. CASE StuckDetector
  <2>1. pc = "stuck_detector" /\ pc' = "auto_verify" /\ UNCHANGED <<history, fixFail, cur>>
    BY <1>11 DEF StuckDetector, HookThen, verifyVars, turnVars
  <2> QED
    BY <1>q, <2>1
<1>12. CASE GoalChecker \/ AutoGrader \/ BudgetCheck
  <2>1. /\ pc \in {"goal_checker", "auto_grade", "budget_check"}
        /\ pc' \in {"turn_start", "auto_grade"} /\ UNCHANGED <<history, fixFail>>
    BY <1>12 DEF GoalChecker, AutoGrader, BudgetCheck, verifyVars
  <2> QED
    BY <1>q, <2>1
<1>13. CASE UNCHANGED vars
  BY <1>13, <1>q DEF vars, verifyVars
<1>14. CASE TurnLimit \/ ApprovalHalt \/ ErrorInterrupted \/ ConfigError
  BY <1>14 DEF TurnLimit, ApprovalHalt, ErrorInterrupted, ConfigError, HookThen
<1> QED
  BY <1>1, <1>2, <1>3, <1>4, <1>5, <1>6, <1>7, <1>8, <1>9, <1>10, <1>11, <1>12,
     <1>13, <1>14 DEF Next, Step, Idle

\* A verify that keeps failing the same way ends the run, whoever calls it: no turn
\* begins after FixCap identical automatic failures with no green verify between
\* them, nor after FixCap identical failures of the model's own on consecutive replies.
THEOREM FailingVerifyStops == Spec => []VerifyBreakers
<1>1. Init => TypeInv /\ FlushInv /\ OwnInv
  <2> SUFFICES ASSUME Init PROVE FlushInv /\ OwnInv
    BY TypeInit
  <2>1. /\ history = << >> /\ pc = "turn_start" /\ flushFail = NoStreak /\ fixFail = NoStreak
    BY DEF Init
  <2>2. \A s : FlushRun(history, s) = 0 /\ OwnRun(history, s) = 0
    BY <2>1, CountEmpty DEF FlushRun, OwnRun
  <2>3. FlushInv
    BY <2>1, <2>2, CountedNoStreak DEF FlushInv, Below, BeforeAutoVerify
  <2>4. OwnInv
    BY <2>1, <2>2, CountedNoStreak DEF OwnInv, OwnRoom, Below, PostPoints
  <2> QED
    BY <2>3, <2>4
<1>2. TypeInv /\ FlushInv /\ OwnInv /\ [Next]_vars => (TypeInv /\ FlushInv /\ OwnInv)'
  BY TypeStep, FlushStep, OwnStep
<1>3. TypeInv /\ FlushInv /\ OwnInv => VerifyBreakers
  <2> SUFFICES ASSUME TypeInv, FlushInv, OwnInv, pc = "turn_start", AutoFix
               PROVE  FlushBreaker /\ ModelBreaker
    BY DEF VerifyBreakers, FlushBreaker, ModelBreaker
  <2>1. /\ history \in Seq(EventSet) /\ ~Over
        /\ flushFail \in Streaks(Sigs) /\ fixFail \in Streaks(Sigs)
    BY DEF TypeInv, TypeOK, Over
  <2>2. \A i \in 1..Len(history) : history[i] \in EventSet
    BY <2>1
  <2>c. ASSUME NEW n \in Nat, NEW st \in Streaks(Sigs), NEW s \in Sigs,
               n <= Counted(st, s), Below(st.n, FixCap)
        PROVE  Below(n, FixCap)
    <3>1. Counted(st, s) \in {0, st.n} /\ Counted(st, s) \in Nat
      BY CountedBump
    <3> QED
      BY <2>c, <3>1, BoundAssumption DEF Below
  <2>3. ASSUME NEW s \in Sigs
        PROVE  /\ Below(FlushRun(history, s), FixCap)
               /\ RunOf(history, FlushFails(s), FlushResets(s)) = {i \in 1..Len(history) :
                    /\ history[i].kind = "verify" /\ history[i].by = "flush" /\ history[i].sig = s
                    /\ \A j \in i + 1 .. Len(history) :
                         ~(/\ history[j].kind = "verify"
                           /\ \/ history[j].verdict \in {"passed", "skipped"}
                              \/ history[j].by = "flush" /\ history[j].verdict = "failed"
                                   /\ history[j].sig # s)}
    <3>1. FlushRun(history, s) <= Counted(flushFail, s) /\ Below(flushFail.n, FixCap)
      BY <2>1 DEF FlushInv
    <3>2. FlushRun(history, s) \in Nat
      BY <2>1, EventType, FlushRunAppend
    <3>3. Below(FlushRun(history, s), FixCap)
      BY <2>1, <2>c, <3>1, <3>2
    <3> QED
      BY <2>1, <2>2, <3>3 DEF RunOf, FlushFails, FlushResets
  <2>4. FlushBreaker
    BY <2>3 DEF FlushBreaker, Since, FlushRun
  <2>5. ASSUME NEW s \in Sigs
        PROVE  /\ Below(OwnRun(history, s), FixCap)
               /\ RunOf(history, OwnFails(s), OwnResets(s)) = {i \in 1..Len(history) :
                    /\ history[i].kind = "verify" /\ history[i].by = "model" /\ history[i].sig = s
                    /\ \A j \in i + 1 .. Len(history) :
                         ~(history[j].by = "model" /\ history[j].kind # "error"
                           /\ ~(history[j].kind = "verify" /\ history[j].by = "model"
                                  /\ history[j].sig = s))}
    <3>1. OwnRun(history, s) <= Counted(fixFail, s) /\ Below(fixFail.n, FixCap)
      BY <2>1 DEF OwnInv, OwnRoom, PostPoints
    <3>2. OwnRun(history, s) \in Nat
      BY <2>1, EventType, OwnRunAppend
    <3>3. Below(OwnRun(history, s), FixCap)
      BY <2>1, <2>c, <3>1, <3>2
    <3> QED
      BY <2>1, <2>2, <3>3 DEF RunOf, OwnFails, OwnResets
  <2>6. ModelBreaker
    BY <2>5 DEF ModelBreaker, Since, OwnRun
  <2> QED
    BY <2>4, <2>6
<1> QED
  BY <1>1, <1>2, <1>3, PTL DEF Spec
=============================================================================
