---------------------------- MODULE DaemonProofs ----------------------------
(***************************************************************************)
(* What holds of the daemon for every number of sessions, calls and runs,   *)
(* when a client starts a session again only after the earlier run of it    *)
(* has gone, and prunes no session recorded as running or suspended.       *)
(*                                                                          *)
(* The map finds everything by session id, so the invariant has to say that *)
(* an id stands for one run at a time: OneLive and Entries.  The properties *)
(* of the runs are parts of it or follow from it.                           *)
(***************************************************************************)
EXTENDS Daemon, TLAPS

\* A run that was never spawned has no session and was not stopped.
Fresh == \A r \in Runs : phase[r] = "unused" => r \notin stopped /\ sess[r] = NoId

\* An entry belongs to a run of its session that is at work or ending, or waits
\* for an approval after that run; what is not in the map is blank.
Entries ==
    \A s \in Ids :
        IF s \in open
        THEN /\ token[s] \in Runs \ stopped /\ sess[token[s]] = s
             /\ task[s] # NoRun => sess[task[s]] = s
             /\ waiting[s] = NoCall =>
                    /\ AtWork(token[s]) \/ phase[token[s]] = "ending"
                    /\ task[s] = token[s] \/ resuming = token[s]
             /\ waiting[s] # NoCall => phase[token[s]] = "over"
        ELSE task[s] = NoRun /\ token[s] = NoRun /\ waiting[s] = NoCall /\ grants[s] = {}

\* A session in the map has no other run.
OneLive == \A r \in Runs : Present(r) /\ sess[r] \in open => token[sess[r]] = r

\* A run at work that was not stopped has an entry.
Tracked == \A r \in Runs \ stopped : AtWork(r) => sess[r] \in open

\* The grants of a session are in the config of its run, and none waits.
Granted ==
    /\ \A s \in Ids : waiting[s] \notin grants[s]
    /\ \A r \in Runs : phase[r] \in {"working", "asking", "marking"} /\ sess[r] \in open
                         => grants[sess[r]] \subseteq allowed[r]

\* A handle without an entry belongs to a run that leaves and was not stopped, so
\* that it will get to close it.
Handles ==
    /\ open \subseteq registered
    /\ \A s \in registered \ open :
           \E r \in Runs \ stopped : sess[r] = s /\ phase[r] \in {"ending", "leaving"}

\* Until its run ends, the record of a session in the map does not say it is over.
Records == \A s \in open : phase[token[s]] # "ending" => stored[s] \in {"Running", "Suspended"}

\* While an approval is carried out, the entry has the token of the run spawned.
Resuming ==
    /\ main = "approving" <=> resuming # NoRun
    /\ resuming # NoRun /\ sess[resuming] \in open => token[sess[resuming]] = resuming

IInv == /\ TypeOK /\ Fresh /\ Entries /\ OneLive /\ Tracked /\ QuestionAnswerable
        /\ Granted /\ Handles /\ Records /\ Resuming

\* The client behaves as the pass run has it.
Tame == Impatient = FALSE /\ Pruned \cap {"Running", "Suspended"} = {}

\* Taking one session out of the map and stopping what its entry names leaves
\* every other entry alone, and stops runs of that session only.
LEMMA HaltOne ==
    ASSUME IInv, NEW s \in Ids, Removed({s}), Stopped({s})
    PROVE  /\ open' = open \ {s} /\ open' \subseteq Ids
           /\ task' \in [Ids -> Runs \cup {NoRun}] /\ token' \in [Ids -> Runs \cup {NoRun}]
           /\ waiting' \in [Ids -> Calls \cup {NoCall}] /\ grants' \in [Ids -> SUBSET Calls]
           /\ task'[s] = NoRun /\ token'[s] = NoRun /\ waiting'[s] = NoCall /\ grants'[s] = {}
           /\ \A x \in Ids \ {s} : /\ task'[x] = task[x] /\ token'[x] = token[x]
                                   /\ waiting'[x] = waiting[x] /\ grants'[x] = grants[x]
           /\ stopped \subseteq stopped' /\ stopped' \subseteq Runs
           /\ s \in open => token[s] \in stopped'
           /\ \A r \in stopped' \ stopped : sess[r] = s
<1>1. stopped' = stopped \cup {r \in Runs : r \in {task[s], token[s]}}
  BY DEF Stopped
<1>2. /\ stopped \subseteq stopped' /\ stopped' \subseteq Runs
      /\ s \in open => token[s] \in stopped'
  BY <1>1 DEF IInv, TypeOK, Entries
<1>3. \A r \in stopped' \ stopped : sess[r] = s
  BY <1>1, DaemonBoundAssumption DEF IInv, TypeOK, Entries, Runs, NoRun
<1>4. /\ open' = open \ {s} /\ open' \subseteq Ids
      /\ task' \in [Ids -> Runs \cup {NoRun}] /\ token' \in [Ids -> Runs \cup {NoRun}]
      /\ task'[s] = NoRun /\ token'[s] = NoRun
      /\ \A x \in Ids \ {s} : task'[x] = task[x] /\ token'[x] = token[x]
  BY DEF Removed, IInv, TypeOK
<1>5. /\ waiting' \in [Ids -> Calls \cup {NoCall}] /\ grants' \in [Ids -> SUBSET Calls]
      /\ waiting'[s] = NoCall /\ grants'[s] = {}
      /\ \A x \in Ids \ {s} : waiting'[x] = waiting[x] /\ grants'[x] = grants[x]
  BY DEF Removed, IInv, TypeOK
<1> QED BY <1>2, <1>3, <1>4, <1>5

\* What a cancel, a denial and a removal of a session in the map have in common
\* keeps what the invariant says of runs, questions and the router.
LEMMA HaltKeeps ==
    ASSUME IInv, NEW s \in Ids, s \in open, Removed({s}), Stopped({s}),
           Closed(s), ClearAsks(s), UNCHANGED <<phase, sess, allowed>>,
           UNCHANGED resuming, resuming = NoRun
    PROVE  /\ Fresh' /\ Entries' /\ OneLive' /\ Tracked' /\ QuestionAnswerable'
           /\ Handles' /\ asks' \subseteq Runs /\ registered' \subseteq Ids
<1>1. Fresh'
  BY HaltOne, DaemonNamesAssumption DEF IInv, Fresh, TypeOK
<1>2. Entries'
  BY HaltOne DEF IInv, Entries, AtWork, TypeOK, Runs, NoRun
<1>3. OneLive'
  BY HaltOne DEF IInv, OneLive, Present, TypeOK
<1>4. Tracked'
  BY HaltOne DEF IInv, Tracked, OneLive, Present, AtWork, TypeOK
<1>5. QuestionAnswerable'
  BY HaltOne, <1>4 DEF IInv, QuestionAnswerable, Tracked, AtWork, ClearAsks, RunsOf, TypeOK
<1>6. Handles'
  BY HaltOne DEF IInv, Handles, Entries, OneLive, Present, Closed, TypeOK
<1>7. asks' \subseteq Runs /\ registered' \subseteq Ids
  BY DEF IInv, TypeOK, ClearAsks, Closed
<1> QED BY <1>1, <1>2, <1>3, <1>4, <1>5, <1>6, <1>7

\* Halting a session that is not in the map changes neither entries nor runs.
LEMMA HaltNone ==
    ASSUME IInv, NEW s \in Ids, s \notin open, Removed({s}), Stopped({s})
    PROVE  UNCHANGED <<open, task, token, waiting, grants, stopped>>
<1>1. stopped' = stopped \cup {r \in Runs : r \in {task[s], token[s]}}
  BY DEF Stopped
<1>2. task[s] = NoRun /\ token[s] = NoRun /\ waiting[s] = NoCall /\ grants[s] = {}
  BY DEF IInv, Entries
<1>3. stopped' = stopped /\ open' = open
  BY <1>1, <1>2 DEF Removed, Runs, NoRun
<1>4. task' = task /\ token' = token /\ waiting' = waiting /\ grants' = grants
  BY <1>2 DEF Removed, IInv, TypeOK
<1> QED BY <1>3, <1>4

LEMMA SuspendKeeps ==
    ASSUME Tame, IInv, NEW s \in Ids, Suspend(s)
    PROVE  IInv'
<1>1. resuming = NoRun
  BY DEF Suspend, Handler, Ready, IInv, Resuming
<1>2. /\ Fresh' /\ Entries' /\ OneLive' /\ Tracked' /\ QuestionAnswerable'
      /\ Handles' /\ asks' \subseteq Runs /\ registered' \subseteq Ids
  BY <1>1, HaltKeeps DEF Suspend, Handler, Handled
<1>3. TypeOK'
  BY <1>2, HaltOne DEF Suspend, Handler, Handled, Updated, IInv, TypeOK, Lifecycles
<1>4. Granted' /\ Records' /\ Resuming'
  BY <1>1, HaltOne DEF Suspend, Handler, Handled, Updated, IInv, TypeOK, Granted, Records, Resuming
<1> QED BY <1>2, <1>3, <1>4 DEF IInv

LEMMA SessionRemoveKeeps ==
    ASSUME Tame, IInv, NEW s \in Ids, SessionRemove(s)
    PROVE  IInv'
<1>1. resuming = NoRun
  BY DEF SessionRemove, Handler, Ready, IInv, Resuming
<1>2. CASE s \in open
  <2>1. /\ Fresh' /\ Entries' /\ OneLive' /\ Tracked' /\ QuestionAnswerable'
        /\ Handles' /\ asks' \subseteq Runs /\ registered' \subseteq Ids
    BY <1>1, <1>2, HaltKeeps DEF SessionRemove, Handler, Handled
  <2>2. TypeOK'
    BY <2>1, HaltOne DEF SessionRemove, Handler, Handled, Saved, IInv, TypeOK, Lifecycles
  <2>3. Granted' /\ Resuming'
    BY <1>1, HaltOne DEF SessionRemove, Handler, Handled, IInv, TypeOK, Granted, Resuming
  <2>4. Records'
    <3>1. open' = open \ {s} /\ \A x \in Ids \ {s} : token'[x] = token[x]
      BY HaltOne DEF SessionRemove
    <3> QED BY <3>1 DEF SessionRemove, Saved, IInv, TypeOK, Records
  <2> QED BY <2>1, <2>2, <2>3, <2>4 DEF IInv
<1>3. CASE s \notin open
  <2>1. UNCHANGED <<open, task, token, waiting, grants, stopped, registered, asks,
                    phase, sess, allowed, resuming>> /\ Saved(s, "Absent")
    BY <1>3, HaltNone DEF SessionRemove, Handler, Handled
  <2>2. main' # "approving" /\ main # "approving" /\ TypeOK'
    BY <2>1 DEF SessionRemove, Handler, Ready, Handled, Saved, IInv, TypeOK, Lifecycles
  <2>3. Fresh' /\ Entries' /\ OneLive' /\ Tracked' /\ QuestionAnswerable' /\ Granted' /\ Handles'
    BY <2>1 DEF IInv, Fresh, Entries, AtWork, OneLive, Present, Tracked, QuestionAnswerable,
                Granted, Handles
  <2>4. Records' /\ Resuming'
    BY <2>1, <2>2, <1>3 DEF IInv, Records, Resuming, Saved, TypeOK
  <2> QED BY <2>2, <2>3, <2>4 DEF IInv
<1> QED BY <1>2, <1>3

LEMMA DenyKeeps ==
    ASSUME Tame, IInv, NEW s \in Ids, Deny(s)
    PROVE  IInv'
<1>1. resuming = NoRun
  BY DEF Deny, Handler, Ready, IInv, Resuming
<1>2. CASE s \in open
  <2>1. /\ Fresh' /\ Entries' /\ OneLive' /\ Tracked' /\ QuestionAnswerable'
        /\ Handles' /\ asks' \subseteq Runs /\ registered' \subseteq Ids
    BY <1>1, <1>2, HaltKeeps DEF Deny, Handler, Handled
  <2>2. TypeOK'
    BY <2>1, HaltOne DEF Deny, Handler, Handled, IInv, TypeOK, Lifecycles
  <2>3. Granted' /\ Records' /\ Resuming'
    BY <1>1, HaltOne DEF Deny, Handler, Handled, IInv, TypeOK, Granted, Records, Resuming
  <2> QED BY <2>1, <2>2, <2>3 DEF IInv
<1>3. CASE s \notin open
  <2>1. UNCHANGED <<open, task, token, waiting, grants, stopped, registered, stored,
                    phase, sess, allowed, resuming>> /\ ClearAsks(s)
    BY <1>3, HaltNone DEF Deny, Handler, Handled
  <2>2. main' # "approving" /\ main # "approving" /\ TypeOK'
    BY <2>1 DEF Deny, Handler, Ready, Handled, ClearAsks, IInv, TypeOK
  <2>3. Fresh' /\ Entries' /\ OneLive' /\ Tracked' /\ Granted' /\ Handles' /\ Records' /\ Resuming'
    BY <2>1, <2>2 DEF IInv, Fresh, Entries, AtWork, OneLive, Present, Tracked,
                Granted, Handles, Records, Resuming
  <2>4. QuestionAnswerable'
    BY <2>1, <1>3 DEF IInv, QuestionAnswerable, Tracked, AtWork, ClearAsks, RunsOf
  <2> QED BY <2>2, <2>3, <2>4 DEF IInv
<1> QED BY <1>2, <1>3

LEMMA StartKeeps ==
    ASSUME Tame, IInv, NEW s \in Ids, NEW b \in BOOLEAN, Start(s, b)
    PROVE  IInv'
<1>1. TypeOK' /\ Fresh' /\ OneLive' /\ Tracked'
  BY DEF IInv, Tame, Start, Handler, Handled, Spawn, Saved, RunsOf, TypeOK, Phases,
     Lifecycles, Fresh, OneLive, Present, Tracked, AtWork
<1>2. QuestionAnswerable' /\ Granted' /\ Handles' /\ Records' /\ Resuming'
  BY DEF IInv, Start, Handler, Ready, Handled, Spawn, Unused, Saved,
     QuestionAnswerable, TypeOK, Granted, Handles, Records, Resuming
<1>3. Entries'
  BY DaemonNamesAssumption DEF IInv, Start, Handler, Handled, Spawn, Unused,
     Entries, AtWork, TypeOK, Fresh
<1> QED BY <1>1, <1>2, <1>3 DEF IInv

LEMMA SessionNewKeeps ==
    ASSUME Tame, IInv, NEW s \in Ids, SessionNew(s)
    PROVE  IInv'
<1>1. TypeOK' /\ Fresh' /\ Entries' /\ OneLive' /\ Tracked'
  BY DEF IInv, SessionNew, Handler, Handled, Saved, entries, runs, TypeOK,
     Lifecycles, Fresh, Entries, AtWork, OneLive, Present, Tracked
<1>2. QuestionAnswerable' /\ Granted' /\ Handles' /\ Records' /\ Resuming'
  BY DEF IInv, SessionNew, Handler, Ready, Handled, Saved, entries, runs,
     QuestionAnswerable, Granted, Handles, Records, Resuming
<1> QED BY <1>1, <1>2 DEF IInv

LEMMA SessionSaveKeeps ==
    ASSUME Tame, IInv, NEW s \in Ids, SessionSave(s)
    PROVE  IInv'
<1>1. TypeOK' /\ Fresh' /\ Entries' /\ OneLive' /\ Tracked'
  BY DEF IInv, SessionSave, Handler, Handled, Saved, entries, runs, TypeOK,
     Lifecycles, Fresh, Entries, AtWork, OneLive, Present, Tracked
<1>2. QuestionAnswerable' /\ Granted' /\ Handles' /\ Records' /\ Resuming'
  BY DEF IInv, SessionSave, Handler, Ready, Handled, Saved, entries, runs,
     QuestionAnswerable, Granted, Handles, Records, Resuming
<1> QED BY <1>1, <1>2 DEF IInv

LEMMA StatusKeeps ==
    ASSUME Tame, IInv, Status
    PROVE  IInv'
<1>1. TypeOK' /\ Fresh' /\ Entries' /\ OneLive' /\ Tracked'
  BY DEF IInv, Status, Handler, Handled, entries, runs, TypeOK,
     Lifecycles, Fresh, Entries, AtWork, OneLive, Present, Tracked
<1>2. QuestionAnswerable' /\ Granted' /\ Handles' /\ Records' /\ Resuming'
  BY DEF IInv, Status, Handler, Ready, Handled, entries, runs, TypeOK,
     QuestionAnswerable, Granted, Handles, Records, Resuming
<1> QED BY <1>1, <1>2 DEF IInv

LEMMA PruneKeeps ==
    ASSUME Tame, IInv, NEW l \in Lifecycles, Prune(l)
    PROVE  IInv'
<1>1. TypeOK' /\ Fresh' /\ Entries' /\ OneLive'
  BY DEF IInv, Prune, Handler, Handled, Removed, runs, TypeOK, Fresh, Entries,
     AtWork, OneLive, Present
<1>2. QuestionAnswerable' /\ Granted' /\ Records' /\ Resuming'
  BY DEF IInv, Prune, Handler, Ready, Handled, Removed, runs, QuestionAnswerable,
     TypeOK, Granted, Records, Resuming
<1>3. Tracked'
  <2>1. \A x \in open : stored[x] = l => phase[token[x]] = "ending"
    BY DEF Prune, Tame, IInv, Records
  <2>2. \A r \in Runs \ stopped : AtWork(r) => sess[r] \in open /\ stored[sess[r]] # l
    BY <2>1 DEF IInv, Tracked, OneLive, Present, AtWork
  <2>3. open' = open \ {x \in Ids : stored[x] = l}
    BY DEF Prune, Removed
  <2> QED BY <2>2, <2>3 DEF Prune, runs, Tracked, AtWork
<1>4. Handles'
  <2>1. \A x \in open : stored[x] = l => phase[token[x]] = "ending"
    BY DEF Prune, Tame, IInv, Records
  <2>2. open' = open \ {x \in Ids : stored[x] = l}
    BY DEF Prune, Removed
  <2>3. \A x \in open \ open' : \E r \in Runs \ stopped : sess[r] = x /\ phase[r] = "ending"
    BY <2>1, <2>2 DEF IInv, Entries, TypeOK
  <2> QED BY <2>2, <2>3 DEF IInv, Handles, Prune, runs
<1> QED BY <1>1, <1>2, <1>3, <1>4 DEF IInv

LEMMA ApproveKeeps ==
    ASSUME Tame, IInv, NEW s \in Ids, NEW c \in Calls, Approve(s, c)
    PROVE  IInv'
<1>1. TypeOK' /\ Fresh' /\ QuestionAnswerable' /\ Handles'
  BY DEF IInv, Approve, Spawn, Unused, Granting, shared, TypeOK, Phases, Fresh,
     QuestionAnswerable, Handles
<1>2. Entries' /\ OneLive' /\ Tracked'
  BY DaemonNamesAssumption DEF IInv, Approve, Ready, Spawn, Unused, Granting,
     Entries, AtWork, TypeOK, Runs, NoRun, Fresh, OneLive, Present, Resuming,
     Tracked
<1>3. Granted' /\ Records' /\ Resuming'
  BY DaemonNamesAssumption DEF IInv, Approve, Spawn, Unused, Granting, shared,
     Granted, TypeOK, Entries, OneLive, Present, Runs, NoRun, Records, Resuming
<1> QED BY <1>1, <1>2, <1>3 DEF IInv

LEMMA AttachKeeps ==
    ASSUME Tame, IInv, Attach
    PROVE  IInv'
<1>1. TypeOK' /\ Fresh' /\ OneLive' /\ Tracked'
  BY DEF IInv, Attach, shared, runs, TypeOK, Fresh, OneLive, Present, Tracked,
     AtWork
<1>2. QuestionAnswerable' /\ Granted' /\ Handles' /\ Records' /\ Resuming'
  BY DEF IInv, Attach, shared, runs, QuestionAnswerable, Granted, Handles, Records,
     Resuming
<1>3. Entries'
  BY DEF IInv, Attach, runs, Entries, AtWork, TypeOK, Resuming
<1> QED BY <1>1, <1>2, <1>3 DEF IInv

LEMMA AnswerKeeps ==
    ASSUME Tame, IInv, NEW r \in Runs, Answer(r)
    PROVE  IInv'
<1>1. TypeOK' /\ Fresh' /\ Entries' /\ OneLive' /\ Tracked'
  BY DEF IInv, Answer, Handler, Handled, entries, TypeOK, Phases, Fresh, Entries,
     AtWork, OneLive, Present, Tracked
<1>2. QuestionAnswerable' /\ Granted' /\ Handles' /\ Records' /\ Resuming'
  BY DEF IInv, Answer, Handler, Ready, Handled, entries, QuestionAnswerable, TypeOK,
     Granted, Handles, Records, Resuming
<1> QED BY <1>1, <1>2 DEF IInv

LEMMA QuietKeeps ==
    ASSUME Tame, IInv, (OtherLine \/ Shutdown \/ CloseInput \/ BreakPipe \/ Restart)
    PROVE  IInv'
<1>1. Fresh' /\ Entries' /\ OneLive' /\ Tracked'
  BY DaemonBoundAssumption DEF IInv, OtherLine, Shutdown, CloseInput, BreakPipe,
     Restart, Handler, Handled, entries, runs, Fresh, Entries, AtWork, OneLive,
     Present, Tracked
<1>2. QuestionAnswerable' /\ Granted' /\ Handles' /\ Records' /\ Resuming'
  BY DEF IInv, OtherLine, Shutdown, CloseInput, BreakPipe, Restart, Handler, Ready,
     Handled, entries, shared, runs, QuestionAnswerable, Granted, Handles, Records,
     Resuming
<1>3. TypeOK'
  <2>1. main' \in {"reading", "approving", "stopping", "leaving", "gone"}
    BY DEF OtherLine, Handler, Handled, Shutdown, CloseInput, BreakPipe, Restart, IInv, TypeOK
  <2>2. broken' \in BOOLEAN /\ eof' \in BOOLEAN /\ resuming' = resuming
    BY DEF OtherLine, Handler, Handled, Shutdown, CloseInput, BreakPipe, Restart, IInv, TypeOK
  <2>3. UNCHANGED <<open, task, token, waiting, grants, registered, stored, asks, phase,
                    sess, allowed, stopped>>
    BY DEF OtherLine, Shutdown, CloseInput, BreakPipe, Restart, entries, shared, runs
  <2> QED BY <2>1, <2>2, <2>3 DEF IInv, TypeOK
<1> QED BY <1>1, <1>2, <1>3 DEF IInv

LEMMA DrainKeeps ==
    ASSUME Tame, IInv, Drain
    PROVE  IInv'
<1>1. Entries' /\ OneLive' /\ QuestionAnswerable'
  BY DEF IInv, Drain, Removed, Stopped, Entries, OneLive, QuestionAnswerable
<1>2. Granted' /\ Handles' /\ Records' /\ Resuming'
  BY DEF IInv, Drain, Removed, Granted, Handles, Records, Resuming
<1>3. TypeOK'
  <2>1. stopped' \subseteq Runs
    BY DEF Drain, Stopped, IInv, TypeOK
  <2>2. open' \subseteq Ids /\ task' \in [Ids -> Runs \cup {NoRun}] /\ token' \in [Ids -> Runs \cup {NoRun}]
    BY DEF Drain, Removed, IInv, TypeOK
  <2>3. waiting' \in [Ids -> Calls \cup {NoCall}] /\ grants' \in [Ids -> SUBSET Calls]
    BY DEF Drain, Removed, IInv, TypeOK
  <2> QED BY <2>1, <2>2, <2>3 DEF Drain, Updated, IInv, TypeOK, Lifecycles
<1>4. Fresh'
  <2>1. \A r \in stopped' \ stopped : \E x \in open : r # NoRun /\ (r = task[x] \/ r = token[x])
    BY DaemonBoundAssumption DEF Drain, Stopped, Runs, NoRun
  <2>2. \A x \in open : /\ task[x] # NoRun => sess[task[x]] = x
                        /\ sess[token[x]] = x
    BY DEF IInv, Entries, TypeOK
  <2>3. \A r \in stopped' \ stopped : sess[r] \in Ids
    BY <2>1, <2>2 DEF IInv, TypeOK
  <2> QED BY <2>3, DaemonNamesAssumption DEF Drain, IInv, Fresh
<1>5. Tracked'
  <2>1. \A x \in open : token[x] \in Runs /\ token[x] \in stopped'
    BY DEF Drain, Stopped, IInv, Entries, TypeOK, Runs, NoRun
  <2>2. \A r \in Runs \ stopped : AtWork(r) => r \in stopped'
    BY <2>1 DEF IInv, Tracked, OneLive, Present, AtWork
  <2> QED BY <2>2 DEF Drain, Stopped, Tracked, AtWork
<1> QED BY <1>1, <1>2, <1>3, <1>4, <1>5 DEF IInv

LEMMA ExitKeeps ==
    ASSUME Tame, IInv, Exit
    PROVE  IInv'
<1>1. TypeOK' /\ Fresh' /\ Entries' /\ OneLive'
  BY DEF IInv, Exit, entries, runs, TypeOK, Fresh, Entries, AtWork, OneLive, Present
<1>2. Tracked' /\ Granted' /\ Handles' /\ Records' /\ Resuming'
  BY DEF IInv, Exit, entries, runs, Tracked, AtWork, Granted, Handles, Records,
     Resuming
<1>3. QuestionAnswerable'
  BY DEF IInv, Exit, runs, QuestionAnswerable, Present
<1> QED BY <1>1, <1>2, <1>3 DEF IInv

LEMMA CrashKeeps ==
    ASSUME Tame, IInv, Crash
    PROVE  IInv'
<1>1. TypeOK' /\ Fresh' /\ Entries' /\ OneLive' /\ Tracked'
  BY DEF IInv, Crash, Removed, TypeOK, Phases, Fresh, Entries, AtWork, OneLive,
     Tracked
<1>2. QuestionAnswerable' /\ Granted' /\ Handles' /\ Records' /\ Resuming'
  BY DEF IInv, Crash, Removed, QuestionAnswerable, TypeOK, Granted, Handles,
     Records, Resuming
<1> QED BY <1>1, <1>2 DEF IInv

LEMMA BeginKeeps ==
    ASSUME Tame, IInv, NEW r \in Runs, Begin(r)
    PROVE  IInv'
<1>1. TypeOK' /\ Fresh' /\ Entries' /\ OneLive' /\ Tracked'
  BY DEF IInv, Begin, Goes, entries, shared, loop, TypeOK, Phases, Fresh, Entries,
     AtWork, OneLive, Present, Tracked
<1>2. QuestionAnswerable' /\ Granted' /\ Handles' /\ Records' /\ Resuming'
  BY DEF IInv, Begin, Goes, entries, shared, loop, QuestionAnswerable, TypeOK,
     Granted, Handles, Records, Resuming
<1> QED BY <1>1, <1>2 DEF IInv

LEMMA AskKeeps ==
    ASSUME Tame, IInv, NEW r \in Runs, Ask(r)
    PROVE  IInv'
<1>1. TypeOK' /\ Fresh' /\ Entries' /\ OneLive' /\ Tracked'
  BY DEF IInv, Ask, Goes, entries, loop, TypeOK, Phases, Fresh, Entries, AtWork,
     OneLive, Present, Tracked
<1>2. QuestionAnswerable' /\ Granted' /\ Handles' /\ Records' /\ Resuming'
  BY DEF IInv, Ask, Goes, entries, loop, QuestionAnswerable, Granted, Handles,
     Records, Resuming
<1> QED BY <1>1, <1>2 DEF IInv

LEMMA WakeKeeps ==
    ASSUME Tame, IInv, NEW r \in Runs, Wake(r)
    PROVE  IInv'
<1>1. TypeOK' /\ Fresh' /\ Entries' /\ OneLive' /\ Tracked'
  BY DEF IInv, Wake, Goes, entries, shared, loop, TypeOK, Phases, Fresh, Entries,
     AtWork, OneLive, Present, Tracked
<1>2. QuestionAnswerable' /\ Granted' /\ Handles' /\ Records' /\ Resuming'
  BY DEF IInv, Wake, Goes, entries, shared, loop, QuestionAnswerable, Granted,
     Handles, Records, Resuming
<1> QED BY <1>1, <1>2 DEF IInv

LEMMA NeedApprovalKeeps ==
    ASSUME Tame, IInv, NEW r \in Runs, NeedApproval(r)
    PROVE  IInv'
<1>1. TypeOK' /\ Fresh' /\ Entries' /\ OneLive' /\ Tracked'
  BY DEF IInv, NeedApproval, Goes, entries, shared, loop, TypeOK, Phases, Fresh,
     Entries, AtWork, OneLive, Present, Tracked
<1>2. QuestionAnswerable' /\ Granted' /\ Handles' /\ Records' /\ Resuming'
  BY DEF IInv, NeedApproval, Goes, entries, shared, loop, QuestionAnswerable,
     Granted, Handles, Records, Resuming
<1> QED BY <1>1, <1>2 DEF IInv

LEMMA MarkKeeps ==
    ASSUME Tame, IInv, NEW r \in Runs, NEW c \in Calls, Mark(r, c)
    PROVE  IInv'
<1>1. TypeOK' /\ Fresh' /\ OneLive' /\ Tracked'
  BY DEF IInv, Mark, Goes, Waits, shared, loop, TypeOK, Phases, Fresh, OneLive,
     Present, Tracked, AtWork
<1>2. QuestionAnswerable' /\ Granted' /\ Handles' /\ Records' /\ Resuming'
  BY DEF IInv, Mark, Goes, Waits, shared, loop, QuestionAnswerable, TypeOK, Granted,
     Handles, Records, Resuming
<1>3. Entries'
  BY DaemonNamesAssumption DEF IInv, Mark, Goes, Waits, loop, Entries, AtWork,
     TypeOK, OneLive, Present
<1> QED BY <1>1, <1>2, <1>3 DEF IInv

LEMMA EndKeeps ==
    ASSUME Tame, IInv, NEW r \in Runs, End(r)
    PROVE  IInv'
<1>1. Tracked' /\ QuestionAnswerable' /\ Granted' /\ Handles' /\ Resuming'
  BY DEF IInv, End, Goes, entries, loop, Tracked, AtWork, QuestionAnswerable,
     Granted, Handles, Resuming
<1>2. Records'
  BY DEF IInv, End, Goes, Saved, Updated, entries, Records, TypeOK, OneLive, Present
<1>3. TypeOK' /\ Fresh'
  BY DEF IInv, End, Goes, Outcomes, Saved, Updated, entries, loop, TypeOK, Phases,
     Lifecycles, Fresh
<1>4. Entries' /\ OneLive'
  BY DEF IInv, End, Goes, entries, loop, Entries, AtWork, OneLive, Present
<1> QED BY <1>1, <1>2, <1>3, <1>4 DEF IInv

LEMMA RemoveKeeps ==
    ASSUME Tame, IInv, NEW r \in Runs, Remove(r)
    PROVE  IInv'
<1>1. TypeOK' /\ Fresh' /\ Entries'
  BY DEF IInv, Remove, Goes, Removed, shared, loop, TypeOK, Phases, Fresh, Entries,
     AtWork
<1>2. OneLive' /\ QuestionAnswerable' /\ Granted' /\ Resuming'
  BY DEF IInv, Remove, Goes, Removed, shared, loop, OneLive, Present, TypeOK,
     QuestionAnswerable, Granted, Resuming
<1>3. Handles' /\ Records'
  BY DEF IInv, Remove, Goes, Removed, shared, Handles, TypeOK, Entries, OneLive,
     Present, Records
<1>4. Tracked'
  <2>1. \A q \in Runs \ stopped : AtWork(q) /\ sess[q] = sess[r] => FALSE
    BY DEF Remove, IInv, Tracked, OneLive, Present, AtWork
  <2> QED BY <2>1 DEF Remove, Goes, Removed, IInv, TypeOK, Tracked, AtWork
<1> QED BY <1>1, <1>2, <1>3, <1>4 DEF IInv

LEMMA CloseRouterKeeps ==
    ASSUME Tame, IInv, NEW r \in Runs, CloseRouter(r)
    PROVE  IInv'
<1>1. Tracked' /\ Granted' /\ Records' /\ Resuming'
  BY DEF IInv, CloseRouter, Goes, entries, loop, Tracked, AtWork, Granted, Records,
     Resuming
<1>2. QuestionAnswerable'
  BY DEF IInv, CloseRouter, Goes, ClearAsks, RunsOf, QuestionAnswerable, Tracked,
     AtWork, OneLive, Present
<1>3. TypeOK' /\ Fresh'
  BY DEF IInv, CloseRouter, Goes, Closed, ClearAsks, entries, loop, TypeOK, Phases,
     Fresh
<1>4. Entries' /\ OneLive'
  BY DEF IInv, CloseRouter, Goes, entries, loop, Entries, AtWork, OneLive, Present
<1>5. Handles'
  <2>1. sess[r] \in Ids /\ sess[r] \notin open
    BY DEF CloseRouter, IInv, TypeOK, Entries, OneLive, Present, AtWork
  <2> QED BY <2>1 DEF CloseRouter, Goes, Closed, entries, IInv, TypeOK, Handles
<1> QED BY <1>1, <1>2, <1>3, <1>4, <1>5 DEF IInv

LEMMA DieKeeps ==
    ASSUME Tame, IInv, NEW r \in Runs, Die(r)
    PROVE  IInv'
<1>1. TypeOK' /\ Fresh' /\ Entries' /\ OneLive'
  BY DEF IInv, Die, Goes, entries, shared, loop, TypeOK, Phases, Fresh, Entries,
     AtWork, OneLive, Present
<1>2. Tracked' /\ QuestionAnswerable' /\ Granted' /\ Handles' /\ Resuming'
  BY DEF IInv, Die, Goes, entries, shared, loop, Tracked, AtWork,
     QuestionAnswerable, Granted, Handles, Resuming
<1>3. Records'
  BY DEF IInv, Die, Goes, entries, shared, Records, TypeOK, Entries
<1> QED BY <1>1, <1>2, <1>3 DEF IInv

LEMMA InitKeeps == Init => IInv
<1> SUFFICES ASSUME Init PROVE IInv
  OBVIOUS
<1>1. token = [s \in Ids |-> NoRun] /\ task = [s \in Ids |-> NoRun]
  BY DEF Init
<1>2. TypeOK
  BY <1>1 DEF Init, TypeOK, Phases, Lifecycles
<1>3. Entries
  BY <1>1 DEF Init, Entries
<1>4. Granted /\ Handles /\ Records /\ Resuming
  BY DEF Init, Granted, Handles, Records, Resuming
<1>5. Fresh /\ OneLive /\ Tracked /\ QuestionAnswerable
  BY DEF Init, Fresh, OneLive, Present, Tracked, AtWork, QuestionAnswerable
<1> QED BY <1>2, <1>3, <1>4, <1>5 DEF IInv

LEMMA NextKeeps == ASSUME Tame, IInv, [Next]_vars PROVE IInv'
<1>1. CASE LoopStep
  BY <1>1, StartKeeps, SessionNewKeeps, SessionSaveKeeps, SuspendKeeps, SessionRemoveKeeps,
     PruneKeeps, DenyKeeps, ApproveKeeps, AttachKeeps, AnswerKeeps, QuietKeeps, DrainKeeps,
     ExitKeeps, StatusKeeps DEF LoopStep
<1>2. CASE \E r \in Runs : RunStep(r)
  BY <1>2, BeginKeeps, AskKeeps, WakeKeeps, NeedApprovalKeeps, MarkKeeps, EndKeeps, RemoveKeeps,
     CloseRouterKeeps, DieKeeps DEF RunStep, Leave
<1>3. CASE CloseInput \/ BreakPipe \/ Crash \/ Restart
  BY <1>3, QuietKeeps, CrashKeeps
<1>4. CASE UNCHANGED vars
  BY <1>4 DEF vars, entries, shared, runs, loop, IInv, TypeOK, Fresh, Entries, OneLive, Present,
     Tracked, AtWork, QuestionAnswerable, Granted, Handles, Records, Resuming
<1> QED BY <1>1, <1>2, <1>3, <1>4 DEF Next

\* The invariant holds in every state of a tame daemon.
THEOREM DaemonInvariant == ASSUME Tame PROVE Spec => []IInv
<1>1. IInv /\ [Next]_vars => IInv'
  BY NextKeeps
<1> QED BY <1>1, InitKeeps, PTL DEF Spec

\* Every variable keeps its type (the state DaemonState and the runs share).
THEOREM DaemonTypes == ASSUME Tame PROVE Spec => []TypeOK
<1>1. IInv => TypeOK
  BY DEF IInv
<1> QED BY <1>1, DaemonInvariant, PTL

\* A run at work that nobody stopped can be found and stopped through the map
\* (suspend_live_session, shutdown_sessions), so session.cancel finds it.
THEOREM RunsStayTracked == ASSUME Tame PROVE Spec => []RunsTracked
<1>1. ASSUME IInv PROVE RunsTracked
  <2> SUFFICES ASSUME NEW r \in Runs \ stopped, AtWork(r)
               PROVE  /\ sess[r] \in open /\ token[sess[r]] = r
                      /\ task[sess[r]] = r \/ resuming = r
    BY DEF RunsTracked
  <2>1. sess[r] \in open /\ token[sess[r]] = r /\ sess[r] \in Ids
    BY <1>1 DEF IInv, Tracked, OneLive, Present, AtWork, TypeOK
  <2>2. waiting[sess[r]] = NoCall
    BY <1>1, <2>1 DEF IInv, Entries, AtWork
  <2> QED BY <1>1, <2>1, <2>2 DEF IInv, Entries
<1> QED BY <1>1, DaemonInvariant, PTL

\* A session that waits for an approval has no run, so handle_approval_respond
\* never puts a second one on its transcript.
THEOREM WaitingStaysIdle == ASSUME Tame PROVE Spec => []WaitingIsIdle
<1>1. ASSUME IInv PROVE WaitingIsIdle
  <2> SUFFICES ASSUME NEW s \in Ids, waiting[s] # NoCall, NEW r \in Runs, sess[r] = s
               PROVE  ~Present(r)
    BY DEF WaitingIsIdle, RunsOf
  <2>1. s \in open /\ phase[token[s]] = "over"
    BY <1>1 DEF IInv, Entries
  <2> QED BY <1>1, <2>1 DEF IInv, OneLive, Present
<1> QED BY <1>1, DaemonInvariant, PTL

\* A question of a run that was not stopped can be answered
\* (DaemonAskUserPort::ask, clear_pending_ask_user_for_session).
THEOREM QuestionsStayAnswerable == ASSUME Tame PROVE Spec => []QuestionAnswerable
<1>1. IInv => QuestionAnswerable
  BY DEF IInv
<1> QED BY <1>1, DaemonInvariant, PTL

\* A granted call is not asked for again (apply_session_approval_grants).
THEOREM GrantsLast == ASSUME Tame PROVE Spec => []NeverAskedTwice
<1>1. IInv => NeverAskedTwice
  BY DEF IInv, Granted, NeverAskedTwice
<1> QED BY <1>1, DaemonInvariant, PTL

\* Router and map agree up to runs that leave (the registration in
\* handle_session_start, the tail of run_session_task), and the record of a
\* session that is held says Running (save_daemon_session_record).
THEOREM DirectoriesAgree == ASSUME Tame PROVE Spec => []StoresAgree
<1>1. ASSUME IInv PROVE RouterAgrees
  BY <1>1 DEF IInv, Handles, RouterAgrees, RunsOf
<1>2. ASSUME IInv PROVE HeldIsLive
  BY <1>2 DEF IInv, Records, Entries, AtWork, TypeOK, HeldIsLive
<1>3. ASSUME IInv PROVE StoresAgree
  BY <1>1, <1>2, <1>3 DEF StoresAgree
<1> QED BY <1>3, DaemonInvariant, PTL

=============================================================================
