---------------------------- MODULE TuiSessions ----------------------------
(***************************************************************************)
(* The interactive host of peridot-cli: one terminal loop                   *)
(* (peridot-tui run_interactive_with_events), the SessionRouter behind its  *)
(* callbacks, and the agent runs that the callbacks spawn.                  *)
(*                                                                          *)
(* The loop is one thread.  Every tick it applies the runtime events that   *)
(* wait in the channel, carries out the session command the last key        *)
(* queued, swaps the state it shows when the current session changed,       *)
(* dispatches a queued input, and reads at most one key.  The runs are      *)
(* tasks of their own: they interleave with every step of the loop and talk *)
(* to it through the channel only, except for an answer to a question,      *)
(* which the loop hands to the run that waits for it, and a cancel token,   *)
(* which the loop fires and the run looks at.                               *)
(*                                                                          *)
(* A TuiState is reduced to the five fields that decide what the loop does; *)
(* the transcript, the counters and the side panel are left out.            *)
(*                                                                          *)
(* A definition MutXxx is not part of the model: it is Xxx with a mistake a *)
(* change to the code could make, kept to show that a property notices it.  *)
(***************************************************************************)
EXTENDS Integers, Sequences, FiniteSets

CONSTANTS
    MaxSessions, \* bound of the model: session ids that are ever made
    MaxTasks,    \* bound of the model: tasks given, approvals granted included
    MaxPrompts,  \* bound of the model: questions and approval requests of runs
    Keys,        \* what the operator may do, a subset of KeyKinds
    Patient      \* the operator starts a run only when the session is quiet

(***************************************************************************)
(* "pick" is Ctrl+T and Enter on a session of the list, "cycle" is Ctrl+W.  *)
(* The keys from "new" on are slash commands that queue a session command;  *)
(* "spawn" stands for /session new <task>, /fork, /teammate and /worktree,  *)
(* which register a session and start a run in it at once.                  *)
(***************************************************************************)
Commands == {"new", "spawn", "switch", "close", "resume", "clear", "import"}
KeyKinds == {"submit", "interrupt", "approve", "deny", "answer", "pick",
             "cycle"} \cup Commands

ASSUME TuiBoundAssumption ==
    MaxSessions \in Nat \ {0} /\ {MaxTasks, MaxPrompts} \subseteq Nat
ASSUME TuiSwitchAssumption == Keys \subseteq KeyKinds /\ Patient \in BOOLEAN

NoSession  == 0                    \* current_session_id is the empty string
NoRun      == 0
SessionIds == 1..MaxSessions
RunIds     == 1..MaxTasks
Statuses   == {"Idle", "Running", "WaitingApproval", "Interrupted", "Ended"}
Phases     == {"starting", "running", "asking", "halting", "ended"}
EventKinds == {"RunStarted", "ApprovalRequested", "AskUserRequested",
               "Interrupted", "Finished", "Failed"}
Events     == [sess : SessionIds \cup {NoSession}, kind : EventKinds,
               run : RunIds]
\* The fields of a TuiState.  A panel is named by the run that asked for it;
\* the queued inputs are counted; "Ended" is Succeeded or Failed.
TuiStates  == [status : Statuses, approval : RunIds \cup {NoRun},
               question : RunIds \cup {NoRun}, queue : 0..MaxTasks,
               task : BOOLEAN]
NoCommand  == [kind |-> "none", target |-> NoSession]

VARIABLES
    tick,             \* where the loop is in its body
    state, last,      \* the TuiState it shows, and the session that belongs to
    other,            \* other_states: the TuiStates of sessions shown before
    current,          \* state.current_session_id
    tabs, attention,  \* state.sessions, and those flagged pending_attention
    command,          \* state.pending_session_commands: one key queues one
    router,           \* the SessionRouter: order, foreground, and in token the
                      \* run whose cancel token the handle of a session holds
    runs,             \* the runs spawned so far
    channel,          \* runtime events sent and not yet applied
    made,             \* session ids made so far
    tasks, prompts    \* what is left of the bounds MaxTasks and MaxPrompts

loop   == <<tick, state, last, other, current, tabs, attention, command>>
vars   == <<loop, router, runs, channel, made, tasks, prompts>>

-----------------------------------------------------------------------------
(* The session router. *)

Registered == DOMAIN router.token
In(seq)    == {seq[i] : i \in DOMAIN seq}
\* seq without s; the order of the others is kept.
Without(seq, s) ==
    LET kept  == {i \in DOMAIN seq : seq[i] # s}
        At(n) == CHOOSE i \in kept : Cardinality({k \in kept : k <= i}) = n
    IN  [n \in 1..Cardinality(kept) |-> seq[At(n)]]

\* A map with v for x.
With(f, x, v) == [y \in DOMAIN f \cup {x} |-> IF y = x THEN v ELSE f[y]]

Register(ro, s) ==
    [order      |-> Append(Without(ro.order, s), s),
     token      |-> With(ro.token, s, NoRun),
     foreground |-> IF ro.foreground = NoSession THEN s ELSE ro.foreground]

\* The foreground is left on the closed session.
MutClose(ro, s) ==
    IF s \notin DOMAIN ro.token THEN ro
    ELSE [ro EXCEPT !.order = Without(@, s),
                    !.token = [x \in DOMAIN @ \ {s} |-> @[x]]]
Close(ro, s) ==
    LET order == Without(ro.order, s)
    IN  IF s \notin DOMAIN ro.token THEN ro
        ELSE [order      |-> order,
              token      |-> [x \in DOMAIN ro.token \ {s} |-> ro.token[x]],
              foreground |-> IF ro.foreground # s THEN ro.foreground
                             ELSE IF order = <<>> THEN NoSession
                             ELSE Head(order)]

\* The token is handed to the run only.
MutHoldToken(ro, s, r) == ro
\* A new token is put in the handle of s, when s has one.
HoldToken(ro, s, r) ==
    IF s \in DOMAIN ro.token THEN [ro EXCEPT !.token[s] = r] ELSE ro

\* The runs after the token in the handle of s has been fired.
Fire(s) ==
    IF s \in Registered /\ router.token[s] # NoRun
    THEN [runs EXCEPT ![router.token[s]].fired = TRUE]
    ELSE runs

-----------------------------------------------------------------------------
(* What an event does to a TuiState. *)

Fresh == [status |-> "Idle", approval |-> NoRun, question |-> NoRun,
          queue |-> 0, task |-> FALSE]
Busy(u) == u.status \in {"Running", "WaitingApproval"}

AfterFinished(u) ==
    IF u.approval # NoRun        THEN "WaitingApproval"
    ELSE IF u.status = "Interrupted" THEN "Interrupted"
    ELSE "Ended"

Apply(u, e) ==
    CASE e.kind = "RunStarted"        -> [u EXCEPT !.status = "Running",
                                                   !.task = TRUE]
      [] e.kind = "ApprovalRequested" -> [u EXCEPT !.status = "WaitingApproval",
                                                   !.approval = e.run]
      [] e.kind = "AskUserRequested"  -> [u EXCEPT !.question = e.run]
      [] e.kind = "Interrupted"       -> [u EXCEPT !.status = "Interrupted"]
      [] e.kind = "Finished"          -> [u EXCEPT !.status = AfterFinished(u)]
      [] e.kind = "Failed"            -> [u EXCEPT !.status = "Ended"]

\* The TuiState of session s, wherever it is kept.
TuiOf(s) == IF s = last THEN state
            ELSE IF s \in DOMAIN other THEN other[s] ELSE Fresh

Unfinished(s) == {r \in DOMAIN runs : runs[r].sess = s /\ runs[r].phase # "ended"}
Waiting(s)    == {i \in DOMAIN channel : channel[i].sess = s}
Quiet(s)      == Unfinished(s) = {} /\ Waiting(s) = {}
MayStart      == Patient => Quiet(current)

Run(s) == [sess |-> s, phase |-> "starting", fired |-> FALSE]

\* spawn_tui_agent_run in session s, behind a fresh cancel token.
Spawn(s, ro) ==
    /\ runs' = Append(runs, Run(s))
    /\ router' = HoldToken(ro, s, Len(runs) + 1)

-----------------------------------------------------------------------------
(* The loop: one tick. *)

ApplyEvent ==
    /\ tick = "events" /\ channel # <<>>
    /\ channel' = Tail(channel)
    /\ LET e == Head(channel)
       IN  IF current = NoSession \/ e.sess = current
           THEN /\ state' = Apply(state, e)
                /\ UNCHANGED <<other, attention>>
           ELSE /\ other' = [s \in DOMAIN other |->
                                IF s = e.sess THEN Apply(other[s], e)
                                ELSE other[s]]
                /\ attention' = IF e.kind = "ApprovalRequested"
                                THEN attention \cup ({e.sess} \cap In(tabs))
                                ELSE attention
                /\ UNCHANGED state
    /\ UNCHANGED <<tick, last, current, tabs, command, router, runs, made,
                   tasks, prompts>>

(* With the channel empty the loop goes on to apply_session_command: one     *)
(* disjunct per command that changes state.                                 *)

Carry(kind) ==
    /\ tick = "events" /\ channel = <<>> /\ command.kind = kind
    /\ tick' = "show" /\ command' = NoCommand
    /\ UNCHANGED <<state, last, other, channel, tasks, prompts>>

NothingQueued ==
    Carry("none") /\ UNCHANGED <<current, tabs, attention, router, runs, made>>

NewId      == made + 1
NewTab(ts) == made' = NewId /\ tabs' = Append(ts, NewId)

SessionNew ==
    /\ Carry("new") /\ NewTab(tabs)
    /\ router' = Register(router, NewId)
    /\ UNCHANGED <<current, attention, runs>>

SessionSpawn ==
    /\ Carry("spawn") /\ NewTab(tabs)
    /\ Spawn(NewId, Register(router, NewId))
    /\ UNCHANGED <<current, attention>>

\* An imported session gets a tab, and no handle until the next start.
SessionImport ==
    /\ Carry("import") /\ NewTab(tabs)
    /\ UNCHANGED <<current, attention, router, runs>>

SessionSwitch ==
    /\ Carry("switch")
    /\ IF command.target \in Registered
       THEN /\ router' = [router EXCEPT !.foreground = command.target]
            /\ current' = command.target
            /\ attention' = attention \ {command.target}
       ELSE UNCHANGED <<router, current, attention>>
    /\ UNCHANGED <<tabs, runs, made>>

SessionClose ==
    /\ Carry("close")
    /\ IF command.target \in Registered
       THEN /\ runs' = Fire(command.target)
            /\ router' = Close(router, command.target)
            /\ tabs' = Without(tabs, command.target)
            /\ attention' = attention \ {command.target}
            /\ current' = IF current = command.target
                          THEN router'.foreground ELSE current
       ELSE UNCHANGED <<runs, router, tabs, attention, current>>
    /\ UNCHANGED made

\* The new run starts in the current session, whatever runs there already.
SessionResume ==
    /\ Carry("resume") /\ Spawn(current, router)
    /\ UNCHANGED <<current, tabs, attention, made>>

ClearAndRestart ==
    /\ Carry("clear") /\ NewTab(Without(tabs, current))
    /\ runs' = Fire(current)
    /\ router' = Register(Close(router, current), NewId)
    /\ attention' = attention \ {current}
    /\ current' = NewId

CommandStep == \/ NothingQueued \/ SessionNew \/ SessionSpawn \/ SessionImport
               \/ SessionSwitch \/ SessionClose \/ SessionResume
               \/ ClearAndRestart

(* Then swap_foreground_state, when the current session is no longer the one *)
(* shown, and drain_input_queue on the state that is shown now.              *)

\* The state shown is never swapped.
MutSwapDue == FALSE
SwapDue == current # last /\ current # NoSession
Shown   == IF SwapDue THEN TuiOf(current) ELSE state

\* The queue is not looked at, the agent is not, or only an idle start counts.
MutMayDrainBusy(u)  == u.queue > 0 /\ u.status # "Interrupted"
MutMayDrainIdle(u)  == u.queue > 0 /\ u.status = "Idle"
MayDrain(u) == u.queue > 0 /\ u.status # "Interrupted" /\ ~Busy(u)

\* A dispatched input marks the state busy at once, before its run starts.
Show ==
    /\ tick = "show" /\ tick' = "key"
    /\ IF SwapDue
       THEN /\ last' = current
            /\ other' = With([s \in DOMAIN other \ {current} |-> other[s]], last, state)
       ELSE UNCHANGED <<last, other>>
    /\ IF MayDrain(Shown)
       THEN /\ state' = [Shown EXCEPT !.queue = @ - 1, !.status = "Running"]
            /\ Spawn(current, router)
       ELSE state' = Shown /\ UNCHANGED <<runs, router>>
    /\ UNCHANGED <<current, tabs, attention, command, channel, made, tasks,
                   prompts>>

-----------------------------------------------------------------------------
(* The loop: at most one key.  An approval panel takes every key, and after  *)
(* it a question panel does.                                                *)

Key(k) ==
    /\ k \in Keys /\ tick = "key" /\ tick' = "events"
    /\ UNCHANGED <<last, other, tabs, channel, made, prompts>>
NoPanel == state.approval = NoRun /\ state.question = NoRun

NoKey ==
    /\ tick = "key" /\ tick' = "events"
    /\ UNCHANGED <<state, last, other, current, tabs, attention, command,
                   router, runs, channel, made, tasks, prompts>>

UseTask == tasks > 0 /\ tasks' = tasks - 1

\* submit_input: queued behind a busy state, otherwise started through on_submit.
Submit ==
    /\ Key("submit") /\ NoPanel /\ UseTask
    /\ IF Busy(state)
       THEN /\ state' = [state EXCEPT !.queue = @ + 1]
            /\ UNCHANGED <<runs, router>>
       ELSE MayStart /\ Spawn(current, router) /\ UNCHANGED state
    /\ UNCHANGED <<current, attention, command>>

\* Esc while busy: on_interrupt, which finds the handle of the current session.
Interrupt ==
    /\ Key("interrupt") /\ NoPanel /\ Busy(state)
    /\ runs' = Fire(current)
    /\ state' = IF current \in Registered THEN [state EXCEPT !.queue = 0]
                ELSE state
    /\ UNCHANGED <<current, attention, command, router, tasks>>

\* record_approval_decision, for either decision.
Decided(u) == [u EXCEPT !.approval = NoRun,
                        !.status = IF @ = "WaitingApproval" THEN "Running" ELSE @]

\* on_approval starts the last task again; with no task known it gives up.
Approve ==
    /\ Key("approve") /\ state.approval # NoRun
    /\ state' = Decided(state)
    /\ IF state.task
       THEN UseTask /\ MayStart /\ Spawn(current, router)
       ELSE UNCHANGED <<tasks, runs, router>>
    /\ UNCHANGED <<current, attention, command>>

Deny ==
    /\ Key("deny") /\ state.approval # NoRun
    /\ state' = Decided(state)
    /\ UNCHANGED <<current, attention, command, router, runs, tasks>>

\* The panel is closed and the run is not woken.
MutAnswer ==
    /\ Key("answer") /\ state.approval = NoRun /\ state.question # NoRun
    /\ state' = [state EXCEPT !.question = NoRun]
    /\ UNCHANGED <<current, attention, command, router, runs, tasks>>

\* The question panel is confirmed or cancelled: resolve_ask_user finds the
\* request in the map of pending ones and wakes the run that waits.
Answer ==
    /\ Key("answer") /\ state.approval = NoRun /\ state.question # NoRun
    /\ state' = [state EXCEPT !.question = NoRun]
    /\ runs' = IF runs[state.question].phase = "asking"
               THEN [runs EXCEPT ![state.question].phase = "running"] ELSE runs
    /\ UNCHANGED <<current, attention, command, router, tasks>>

Pick(s) ==
    /\ Key("pick") /\ NoPanel /\ Len(tabs) > 1 /\ s \in In(tabs)
    /\ current' = s /\ attention' = attention \ {s}
    /\ UNCHANGED <<state, command, router, runs, tasks>>

\* session_directory::cycle_foreground: the tab after the current one.
NextTab ==
    LET here == {i \in DOMAIN tabs : tabs[i] = current}
    IN  IF here = {} THEN tabs[1]
        ELSE tabs[((CHOOSE i \in here : \A j \in here : i <= j) % Len(tabs)) + 1]
Cycle ==
    /\ Key("cycle") /\ NoPanel /\ tabs # <<>>
    /\ current' = NextTab
    /\ UNCHANGED <<state, attention, command, router, runs, tasks>>

\* reset_for_clear keeps last_task.
Cleared(u) == [Fresh EXCEPT !.task = u.task]

Slash(kind, target) ==
    /\ Key(kind) /\ NoPanel
    /\ target # NoSession <=> kind \in {"switch", "close"}
    /\ kind \in {"new", "spawn", "import", "clear"} => made < MaxSessions
    /\ IF kind \in {"spawn", "resume"} THEN UseTask ELSE UNCHANGED tasks
    /\ kind = "resume" => MayStart
    /\ command' = [kind |-> kind, target |-> target]
    /\ state' = IF kind = "clear" THEN Cleared(state) ELSE state
    /\ UNCHANGED <<current, attention, router, runs>>

KeyStep == \/ NoKey \/ Submit \/ Interrupt \/ Approve \/ Deny \/ Answer \/ Cycle
           \/ \E s \in SessionIds : Pick(s)
           \/ \E kind \in Commands, s \in In(tabs) \cup {NoSession} : Slash(kind, s)

LoopStep == ApplyEvent \/ CommandStep \/ Show \/ KeyStep

-----------------------------------------------------------------------------
(* An agent run.  The inside of its loop is module AgentLoop; here it is    *)
(* what the terminal sees of it.                                            *)

Advance(r, from, to, kind) ==
    /\ runs[r].phase \in from
    /\ runs' = [runs EXCEPT ![r].phase = to]
    /\ channel' = Append(channel, [sess |-> runs[r].sess, kind |-> kind, run |-> r])
    /\ UNCHANGED <<loop, router, made, tasks>>
UsePrompt == prompts > 0 /\ prompts' = prompts - 1

Starts(r)     == Advance(r, {"starting"}, "running", "RunStarted") /\ UNCHANGED prompts
\* The error of the run is not sent to the channel.
MutFails(r) ==
    /\ runs[r].phase \in {"starting", "running"}
    /\ runs' = [runs EXCEPT ![r].phase = "ended"]
    /\ UNCHANGED <<loop, router, channel, made, tasks, prompts>>
\* A provider, a tool server or a snapshot that cannot be set up, or an error
\* that leaves the run: spawn_tui_agent_run reports it.
Fails(r)      == Advance(r, {"starting", "running"}, "ended", "Failed") /\ UNCHANGED prompts
Asks(r)       == Advance(r, {"running"}, "asking", "AskUserRequested") /\ UsePrompt
NeedsApproval(r) ==
    Advance(r, {"running"}, "halting", "ApprovalRequested") /\ UsePrompt
SeesCancel(r) == /\ runs[r].fired
                 /\ Advance(r, {"running"}, "halting", "Interrupted")
                 /\ UNCHANGED prompts
Finishes(r)   == Advance(r, {"running", "halting"}, "ended", "Finished") /\ UNCHANGED prompts

RunStep(r) == \/ Starts(r) \/ Fails(r) \/ Asks(r) \/ NeedsApproval(r)
              \/ SeesCancel(r) \/ Finishes(r)

-----------------------------------------------------------------------------
\* One session, registered and shown, as a first start leaves it.
Init ==
    /\ tick = "events" /\ state = Fresh /\ last = 1 /\ other = <<>>
    /\ current = 1 /\ tabs = <<1>> /\ attention = {} /\ command = NoCommand
    /\ router = [order |-> <<1>>, token |-> [s \in {1} |-> NoRun], foreground |-> 1]
    /\ runs = <<>> /\ channel = <<>> /\ made = 1
    /\ tasks = MaxTasks /\ prompts = MaxPrompts

Next == LoopStep \/ \E r \in DOMAIN runs : RunStep(r)

\* The loop polls the keyboard with a timeout, so it goes on without keys; a
\* spawned run is polled by the async runtime.  Nothing makes the operator act.
Fairness == WF_vars(LoopStep) /\ \A r \in RunIds : WF_vars(r \in DOMAIN runs /\ RunStep(r))
Spec == Init /\ [][Next]_vars /\ Fairness

-----------------------------------------------------------------------------
(* Properties. *)

\* The router's three fields agree, and the terminal's list agrees with them:
\* the order lists every handle once, the foreground is one of them unless there
\* is none, every handle has a tab, and the current session has a tab unless it
\* is the empty string (SessionRouter and apply_session_command keep them).
DirectoryConsistent ==
    /\ In(router.order) = Registered /\ Len(router.order) = Cardinality(Registered)
    /\ IF Registered = {} THEN router.foreground = NoSession
                          ELSE router.foreground \in Registered
    /\ Registered \cup attention \subseteq In(tabs)
    /\ Len(tabs) = Cardinality(In(tabs))
    /\ current \in In(tabs) \cup {NoSession}

\* A session that is shown as busy, so that it queues its input, has a run that
\* is not over, an event on its way, or an approval panel to act on; otherwise
\* nothing would ever end the wait (is_agent_busy and drain_input_queue).
BusyMeansWorking ==
    \A s \in In(tabs) :
        Busy(TuiOf(s)) => \/ TuiOf(s).approval # NoRun
                          \/ ~Quiet(s)

\* A run that waits for the operator's answer can get one: its question is on
\* the panel of its session or about to be (TuiAskUserPort::ask waits for the
\* answer without looking at its cancel token).
QuestionReachable ==
    \A r \in DOMAIN runs :
        runs[r].phase = "asking" /\ runs[r].sess \in In(tabs) =>
            \/ TuiOf(runs[r].sess).question = r
            \/ \E i \in DOMAIN channel :
                   channel[i].kind = "AskUserRequested" /\ channel[i].run = r

\* The events of a session stay in that session: the panels of a tab were asked
\* for by a run of that tab, so an approval given there resumes the work it was
\* asked for.
PanelsBelong ==
    \A s \in In(tabs) :
        \A r \in {TuiOf(s).approval, TuiOf(s).question} \ {NoRun} :
            runs[r].sess = s

\* A session never has two runs at work on the same context snapshot and
\* workspace.
OneRunAtATime ==
    \A s \in In(tabs) : Cardinality(Unfinished(s)) <= 1

\* Every run of a session the router knows, or knew, can still be stopped: its
\* token is the one in the handle, where Esc and /session close find it, or it
\* has been fired.
EveryRunCancellable ==
    \A r \in DOMAIN runs :
        LET s == runs[r].sess
        IN  s # NoSession /\ runs[r].phase # "ended" =>
                runs[r].fired \/ (s \in Registered /\ router.token[s] = r)

\* A session has one run at most, and the operator can stop it.
OneStoppableRun == OneRunAtATime /\ EveryRunCancellable

Facing(s) == current = s /\ last = s
\* Queued input of the session shown is dispatched in the end, unless the
\* operator looks at another session, interrupts it, or leaves a panel open.
QueueDrains ==
    \A s \in SessionIds :
        (Facing(s) /\ state.queue > 0) ~>
            (~Facing(s) \/ state.queue = 0 \/ state.status = "Interrupted" \/ ~NoPanel)

=============================================================================
