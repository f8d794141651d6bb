# A TLA+ model of peridot-agent

Peridot is a terminal coding agent: a loop asks a language model what to do,
carries out the tool calls it answers with, verifies the edits, and stops when
the work is done, the budget is spent or the operator says so. Several such
loops run side by side, each in a session of its own, in a terminal or behind an
editor. This directory holds TLA+ modules that model the control of that
program, the configurations that check them with TLC, and proofs, checked by
TLAPS, of the properties that matter most. Paths below are relative to the
repository; `core` is `crates/peridot-core/src`, `cli` is
`crates/peridot-cli/src`, `tui` is `crates/peridot-tui/src`, `context` is
`crates/peridot-context/src`, `vscode` is `extensions/vscode/src`.

Contents: 1 the system, 2 the modules, 3 the runs, 4 bounds and fairness, 5 the
proofs, 6 where the code and its documents differ, 7 observations without a run,
8 what is not modelled, 9 the plan, 10 how to run everything.

## 1. The system

### 1.1 Components

Each component with the state it keeps, what it does, and what makes it right.
The module that models it is in bold.

| component | state | operations | what makes it correct |
|---|---|---|---|
| agent run loop (`core/agent.rs`, `core/loop_policy/`), **AgentLoop** | turn number, phase, outcomes so far, the policies' counters, usage, the newest auto-verify note, the pending-resume file | `run_until_done_with_events`: pre-turn, turn, error, post-turn and done policies | it ends; `agent_done` is not accepted over unverified or failing work; repetition, errors and cost are bounded; a cancel is seen |
| committee loop (`cli/run_loop.rs`), **Committee** | turn, review counters, rejections by diff, usage | planner, executor's turn, review, block question | requests for changes end; a block holds; the same contract as the agent loop |
| context manager (`context/lib.rs`) and the turn's records (`core/agent.rs`), **Transcript** | entries of the conversation, `context.bin`, `pending_resume.bin` | append, compact, trim, repair, snapshot, resume, halt and replay | every tool result has its call, every call a result; the current task survives; an approved call is carried out once |
| terminal loop (`tui/input.rs`, `tui/state.rs`), **TuiSessions** | the `TuiState` shown, the stashed ones, the current session, the tabs, queued input, panels | one tick: events, session command, swap, queue, key | events reach the session they belong to; no panel is lost; queued input is dispatched |
| session router (`cli/session_router.rs`), **TuiSessions**, **Daemon**, **PeerInboxes** | order, handles with cancel tokens and inboxes, foreground | register, close, switch, set token, peer messages | order, handles and foreground agree; each run can be cancelled; a peer message is read once, in order, by kin |
| terminal host (`cli/main.rs`), **TuiSessions**, **SessionStore** | pending questions, spawned tasks, snapshots, records, worktrees | submit, interrupt, approve, answer, session commands, persist, restore, close | one run per session; nothing of a closed session comes back |
| worktree cleanup (`cli/worktree_cleanup.rs`), **SessionStore** | session records, git worktrees | reconcile after an unclean shutdown | no change is lost, nothing in use is removed, no worktree is forgotten |
| daemon (`cli/commands/daemon/`), **Daemon** | session entries, pending questions, router, stored lifecycle | JSON-RPC start, cancel, approve, respond, session commands, shutdown | one entry per live run; a question can be answered; the stores agree; the end of the input ends it |
| editor extension (`vscode/extension.ts`, `sidebar.ts`, `daemon.ts`), **Editor** | chats, tracked runs, message queue, its daemon, pending requests | start, cancel, delete, clear, queue, reconcile | no chat shows a run that is gone; one daemon; no call waits for nothing |
| cancel token (`peridot-common/src/cancel.rs`), in each of them | a flag | fire, look | once fired it stays fired |
| tools, verify, sub-agents (`crates/peridot-tools`, `peridot-verify`) | none, or the file system | one call each | a failed write leaves the old file; undo restores it |
| memory (`crates/peridot-memory`) | SQLite tables | one transaction each | the database's |
| providers (`crates/peridot-llm`), MCP client (`crates/peridot-mcp`) | retry schedule, catalog cache, request ids | request, retry, refresh | bounded retries; an answer goes to its request |
| curator, goal controller | skill states, goal status | archive, restore, pause, resume | nothing in use is removed |
| rendering, parsing, scanning, one-shot commands | none | pure, or read once and print | not a question for a model checker |

### 1.2 How they interact

* The host (terminal, daemon, or one-shot command) builds a `HarnessAgent` and
  calls `run_until_done_with_events`, or the committee loop. Host and run share
  a **cancel token** (an atomic flag that is only ever set), an **event
  channel** (run to host, in order), and, for a question, a one-shot **answer
  channel** (host to run).
* A tool call that needs approval ends the run: the call is written to the
  pending-resume file, the run says `ApprovalRequired`, and the operator's yes
  starts a **new run** of the same session, whose first act is that call.
* The terminal loop is one thread; runs are tasks of the async runtime. The
  daemon's request loop handles one line at a time; its runs are tasks that
  share its maps, each behind a lock of its own.
* The extension host is single-threaded and talks to the daemon over two pipes:
  requests one way, answers and announcements the other. What it calls the
  active chat may change while a handler waits for an answer.
* Terminal and daemon share `memory.db` and the worktrees of a project, and
  nothing tells either that the other is at work.
* A transcript outlives a run (`context.bin`), and so does the newest
  auto-verify note in it, which the done gate reads.
* Runs of a parent and its children send each other **peer messages** through
  inboxes in the router; an inbox is emptied at the start of each turn. Sender and
  reader look the inbox up under the router's lock and use it after.

### 1.3 What is hard

* *Orders of calls.* Edits are verified in bursts, and the done gate decides
  from the outcomes and from a note in the context. Which sequences of edits,
  verifies, commits and done claims slip through?
* *Counters with several resets.* Four breakers of the agent loop and two of the
  committee count repetitions, each reset by different things.
* *Failure in the middle of a chain.* Each policy runs operator hooks, which
  may fail, and then the rest of the chain is skipped.
* *A cancel at any moment*, looked at in a few places only.
* *Everything is found by session id.* Nothing in the daemon's map says which
  run an entry was made for; an aborted task still takes steps until it waits.
* *Two files written at different moments* (transcript and pending call), *two
  records of one session* (snapshot and row), *a record and a worktree*: a
  process may die between any two.
* *Two threads of control in the terminal*, *two processes on one store*, *two
  pipes between extension and daemon*.

`PROJECT.json` lists each of these at its line under `hazards`, with the
property that watches it, or why none does.

## 2. The modules

A module's `VARIABLES` are the fields the code keeps, named as it names them,
its actions the handlers and steps; a few variables marked *history* record what
happened so that a property can speak of it. Names, texts and ids are reduced to
what the code compares. Definitions named `MutXxx` are not part of a model: each
is `Xxx` with a mistake a change to the code could make, and `PROJECT.json`
names the property that notices it.

### 2.1 RunContract, AgentLoop, Committee

`RunContract` is the abstract specification of a run, as its host sees it: it
uses at most `MaxTurns` turns; it ends once, with a reason that is true
(`MaxTurns` only when no turn is left, `Done` only when this turn's reply claims
done, and so on) and one `Finished` event, or with an error and none; and it does
end. Both loops implement it, under the mapping each calls `Contract`.

`AgentLoop` is `HarnessAgent::run_until_done_with_events` (core/agent.rs) and the
policies it dispatches. A behaviour is a series of at most `MaxRuns` runs of one
agent. `pc` is where the loop is, and each program point is a step of its own,
because the cancel token may be fired between any two:

    turn_start -> pre_turn -> model -+-> turn_error -----------------> turn_start
                                     +-> budget_warning -> stuck_detector
         -> auto_verify -> auto_fix -+-> preflight -> goal_checker -> auto_grade
                                     +-> budget_check ---------------> turn_start
    any of them -> finished (a summary) or failed (an error)

| code | definition |
|---|---|
| the `for turn_index` loop, its cancel check and its end | `TurnStart`, `TurnLimit` |
| `PendingResumePolicy::pre_turn` | `NothingToResume`, `ResumePending` |
| `run_turn_with_events`, as its outcome | `ModelReply`, `ApprovalHalt`, `ModelError` |
| the error path, `ErrorRecoveryPolicy` | `ErrorInterrupted`, `ConfigError`, `RecoverFromError` |
| `BudgetWarningPolicy`, `StuckDetectorPolicy` | `BudgetWarning`, `StuckDetector` |
| `AutoVerifyAfterMutationPolicy` | `AutoVerifyWait` (no flush due), `AutoVerifyFlush` |
| `AutoFixLoopPolicy` | `AutoFixPolicy` |
| `PreflightPolicy`, `GoalCheckerPolicy`, `AutoGradePolicy` on done | `Preflight`, `GoalChecker`, `AutoGrader` |
| the budget check at the end of a turn | `BudgetCheck` |
| `finalize_run`; an error through `?` | `Finish`, `Fail` |
| the operator's cancel; the host's next run | `Cancel`, `NextRun` |

What the model, the tools, the verifier, the hooks and the graders answer is
chosen from the sets the constants give: five kinds of tool (`edit` marks a burst
dirty, `change` is a mutation that does not, `verify`, `done`, `other`), three
results (`skip` is a verify that found no command, which the code counts as a
success), a `label` for the summary the stuck detector compares, a signature for
a failure. The one text the code reads back, the newest `[auto-verify]` note, is
`marker`; it survives runs and may be lost to compaction. `history` is a history
variable. Policies that only add a reminder to the context change nothing the
model keeps. `MCAgentLoop` gives the constants a configuration cannot write.

`Committee` is `run_planner_preflight_if_enabled` and
`run_committee_loop_with_events` (cli/run_loop.rs), with the checkpoint of
`cli/committee` folded in:

| code | definition |
|---|---|
| the planner, the `session_start` hook | `Planner`, `Start` |
| the executor's turn and how it ends | `BeginTurn`, `Edits`, `Others`, `TurnFails` |
| the review of a diff: none, failed, approve, request changes, block | `NoDiff`, `ReviewerFails`, `Approves`, `RequestsChanges`, `Blocks` |
| the question whether to go on after a block | `Answer` |
| done, budget and the next turn; the hooks after the end | `Check`, `Return` |

`requests` and `rejected` are the code's two counters (in a row, and by diff);
`log` and `given` are history.

### 2.2 Transcript

One session's transcript from run to run: `ContextManager` (context/lib.rs) and
the places of core/agent.rs that append to it, save `context.bin` and write, take
and remove `pending_resume.bin`. An entry is its source and its tool call ids; an
id may be used again in a later turn.

| code | definition |
|---|---|
| a run starts from `context.bin`: typed input, or an approval | `Starts`, `Submit`, `Approve` |
| the operator denies, clears | `Deny`, `Clear` |
| `PendingResumePolicy` takes the call, executes it and records the result | `Boundary`, `Replayed` |
| compaction at the start of a turn, then the request | `Compacted`, `KeepFrom`, `Anchor`, `Request` |
| assembling, trimming to the limit, pair repair | `Untrimmed`, `MayTrim`, `OnlyCalled`, `OnlyAnswered`, `Requests` |
| what a turn records: text, a batch, its results, a failed call, a halt | `Replies`, `Invokes`, `Finishes`, `ToolFails`, `NeedsApproval`, `ProviderFails` |
| the policies after a turn; a run that ends or is cut off at any point | `Ended`, `Quit` |

### 2.3 TuiSessions

The terminal loop (`run_interactive_with_events`, tui/input.rs), the state each
session shows (tui/state.rs), the tab list (tui/session_directory.rs), the router
(cli/session_router.rs), the host's callbacks and session commands (cli/main.rs),
and the runs they spawn, of which only what the terminal sees is kept. One tick:

| code | `tick` | definition |
|---|---|---|
| apply every waiting event | `"events"` | `ApplyEvent`, one event at a time until none waits |
| `apply_session_command` | `"events"` | `NothingQueued`, `SessionNew`, `SessionSpawn`, `SessionImport`, `SessionSwitch`, `SessionClose`, `SessionResume`, `ClearAndRestart` |
| `swap_foreground_state`, `drain_input_queue` | `"show"` | `Show` |
| at most one key | `"key"` | `NoKey`, `Submit`, `Interrupt`, `Approve`, `Deny`, `Answer`, `Pick`, `Cycle`, `Slash` |

Runs (`Starts`, `Fails`, `Asks`, `NeedsApproval`, `SeesCancel`, `Finishes`)
interleave with each of these steps. A `TuiState` is reduced to the five fields
that decide what the loop does. `state`, `last` and `other` are the state shown,
whose it is, and the stash; `current` is `current_session_id`, which a key may
move one tick before the swap follows. `router.token[s]` is the run whose cancel
token the handle of `s` holds. `SessionSpawn` stands for `/session new <task>`,
`/fork`, `/teammate` and `/worktree`. With `Patient = TRUE` a run is started by
hand only when the session has no unfinished run and no waiting event; the code
does not enforce it, and section 7 says what happens without.

### 2.4 Daemon

`peridot daemon` (cli/commands/daemon/: mod.rs, approval.rs, session_cmd.rs). The
request loop handles one line at a time; `run_session_task`s interleave with it.

| code | definition |
|---|---|
| `session.start`, `/session new`, `save` | `Start`, `SessionNew`, `SessionSave` |
| `session.cancel`, `/goal pause` | `Suspend` |
| `/clear`, `/session close`, `delete`, `prune` | `SessionRemove`, `Prune` |
| `approval.respond`: no; yes, in two steps under two locks | `Deny`; `Approve`, `Attach` |
| `interaction.respond`, `peridot.status`, `shutdown` | `Answer`, `Status`, `Shutdown` |
| a run: begin, ask, be woken, need an approval, mark the entry, end, remove itself, close its handle | `Begin`, `Ask`, `Wake`, `NeedApproval`, `Mark`, `End`, `Remove`, `CloseRouter` |
| an aborted run is dropped where it waits | `Die` |
| the end of the input, of stdout, of the process; its restart | `CloseInput`, `BreakPipe`, `Drain`, `Exit`, `Crash`, `Restart` |

Two constants bound the client: `Impatient` lets it start a session again before
its cancelled run has gone, `Pruned` says which lifecycles it prunes. `Tame`
(DaemonProofs) is the client the passing run and the theorems assume: not
impatient, and it prunes no `Running` or `Suspended` record. Section 7 has what
goes wrong otherwise. The session record stands for the row in `memory.db` and
for `context.bin`.

### 2.5 Editor

The VS Code extension: `runTask`, `ensureWorkspaceRun`, the queue and the session
routing of extension.ts, `PeridotSidebarProvider`, and the JSON-RPC client of
daemon.ts. `requests` and `lines` are the daemon's stdin and stdout; each line is
handled by one step (`HandleLine`), and between two lines the user may do
anything: `Select`, `RunTask`, `QueueAdd`, `Cancel`, `Delete`, `Clear`. The host
goes on with `Opened`, `OpenFails`, `Dispatch` (the queue's timer), `TimeOut`,
`Exit`. Of the daemon, only what the host sees is kept: the order of its answers,
announcements and terminal events (`Reads`, `AgentDone`, `SessionEnds`).

### 2.6 SessionStore

Sessions of a project on disk: the records of `memory.db`, the snapshots
`tui_state.json`, the worktrees, a terminal that writes and dies, and the
processes that reconcile.

| code | definition |
|---|---|
| `reconcile_stale_worktrees`: read all; per record inspect, remove, save | `Begin`; `Inspect`, `Remove`, `Save` |
| start-up: restore a session, register the others, or a fresh one | `Restore`, `Fresh` |
| `/teammate`, `/worktree`; submit; what a run shows | `Spawn`, `Submit`, `Started`, `Work`, `End`, `Interrupt`, `Switch` |
| `persist_session_snapshot` | `Persist` |
| `/session close` and `delete_persisted_session`, in their order | `Close`, `Delete` |
| the process dies, between any two of these | `Die` |

`Processes` says who reconciles: with `"daemon"` in it, the editor's daemon does
while a terminal is at work.

### 2.7 PeerInboxes

The notes parent and child sessions send each other with the `agent_message` tool.
A handle (`made` of them so far) is a `SessionHandle` with its inbox and its
parent; the router says which handle an id has now (`handle`), and a handle that
was closed or replaced lives on for who has already looked it up. A message is a
number, the order of sending; `at` says how far it is, `via` in which inbox it was
put.

| code | definition |
|---|---|
| `register`, `close`, `parent_of`, `is_child_of` | `Register`, `Close`, `ParentOf`, `IsChildOf` |
| `send_to_parent`, `send_to_child`: may it be addressed? | `SendToParent`, `SendToChild` |
| `push_to`: look up the inbox and unlock the router; put the message in | `Find`; `Push` |
| `drain_inbox`: look up the inbox; empty it into the context | `LookUp`; `Drain` |
| the beginning of a run; the end of a turn, and of the run | `Begin`; `TurnEnds` |

One run sends one message at a time (tool calls that write are carried out one after
the other, and the bus has no point at which it waits), but between any two steps
others act, the host included. Several runs of one session may be under way. An id
may be registered while it is in use, also as its own parent: ids are made of the
process and the second (section 7), and a resumed session of the daemon is
registered again. The model is the life of one router: inboxes and parents are not
on disk, and a process that starts begins with an empty router.

### 2.8 The proofs

`AgentLoopProofs`, `CommitteeProofs`, `DaemonProofs`, `TranscriptProofs`,
`SessionStoreProofs`, `EditorProofs`, `TuiSessionsProofs` and `PeerInboxesProofs`
hold the theorems of section 5.

## 3. The runs

| run | question | properties | distinct states |
|---|---|---|---|
| `loop_verify` | over every order of edits, commits, verifies and done claims, what may done be accepted over, and do the two verify breakers trip in time? | `TypeOK`, `DoneNeverBlind`, `FailedFlushBlocksDone`, `VerifyBreakers` | 3.0 M |
| `loop_breakers` | with errors, failing hooks, costly gates and a cancel at any moment, are errors, repetition and cost bounded? | `RepetitionBreakers`, `CancelStops`, `BudgetHolds` | 4.6 M |
| `loop_contract` | with every feature on and three runs in a row, does each run end and keep the contract? | `ImplementsRunContract` | 116 k |
| `committee_runs` | with every verdict, failing reviewers, overrides and a cancel at any moment, do requests end, does a block hold, and does the committee keep the same contract? | `RequestLimits`, `BlockHolds`, `CancelStops`, `ImplementsRunContract` | 309 k |
| `transcript_runs` | over three runs with halts, denials, folding, trimming and cuts at any point, is every request acceptable, and is an approved call taken once? | `RequestsWellPaired`, `SavedAnswered`, `ObjectiveKept`, `ApprovedOnce`, `FoldingKeepsPairs` | 1.86 M |
| `tui_slash` | with a patient operator who changes sessions by command, does every session that looks busy work, does every panel reach its run, can every run be stopped, does queued input go out? | `BusyMeansWorking`, `QuestionReachable`, `PanelsBelong`, `OneStoppableRun`, `QueueDrains` | 527 k |
| `tui_any_order` | with every key and command in every order, do router, tabs and current session agree? | `DirectoryConsistent` | 889 k |
| `daemon_sessions` | with requests, ends, aborts, broken pipes and a crash in any order, can every run be stopped and every question be answered, do the stores agree, and does the process end? | `RunsTracked`, `WaitingIsIdle`, `NeverAskedTwice`, `QuestionAnswerable`, `StoresAgree`, `EofEnds` | 787 k |
| `editor_runs` | whatever the user does between a request and its answer, and however daemons fail, does the sidebar agree with the daemon? | `NoRunStuck`, `OneDaemon`, `HandedOnce`, `CallsPending` | 2.86 M |
| `sessions_restart` | a terminal cut off anywhere, three times: what is lost, forgotten or brought back? | `GoneIsNoticed`, `ClosedStaysClosed`, `TreesKept`, `StartsReconciled` | 1.03 M |
| `peer_messages` | whatever is registered, replaced and closed between any two locks, where may a delivered message be, how often and in which order is it read, and by whom? | `DeliveredOnce`, `InOrder`, `KinOnly` | 1.66 M |
| `sessions_live` | does reconciling take only what an unclean shutdown left? It does not (section 6) | `LiveTreeStays`, violated | |

What the passing runs show:

* `DoneNeverBlind`: with auto-verify on, no accepted `agent_done` leaves an edit
  of the model that nothing has tried to verify since. The gate alone does not
  give this (an old `passed` note satisfies it); it holds because the flush runs
  in the very turn that says done, before the gates.
* `FailedFlushBlocksDone`: done is not accepted while the last verify is an
  automatic one that failed, also when compaction has dropped the note about it.
* `VerifyBreakers` (`FlushBreaker` and `ModelBreaker`): `FixCap` identical
  failures end the run, the automatic ones counted apart from the model's own,
  each with exactly the resets the code has.
* `RepetitionBreakers` (`ErrorBreaker` and `StuckBound`), `BudgetHolds`: no turn
  begins after `ErrorCap` equal errors in a row, after `2 * StuckThreshold` equal
  replies (refused done claims included), or at the budget, except after a
  refused done, whose `continue` skips the check.
* `CancelStops` (both loops): after a cancel the model is heard from at most once
  more.
* `ImplementsRunContract` (both loops): the end is unique, truthful, told once
  and reached, whatever fails in between.
* `RequestLimits` (`SameDiffBlocks` and `RequestsEnd`), `BlockHolds`: the executor is asked for changes
  to one diff, or turn after turn, fewer than `max_review_passes` times, and never
  goes on after a block nobody has overridden.
* `RequestsWellPaired`, `SavedAnswered`, `FoldingKeepsPairs`: no sequence of
  batches, failures, folds, trims, replays and restarts makes a request a provider
  would refuse, or saves a call without an answer; folding never cuts between a
  call and its result (while no id is used twice).
* `ObjectiveKept`: the task of a run survives every compaction of that run.
* `ApprovedOnce` (`TakenOnce` and `AskedIsPending`): over a chain of runs, an approved call is taken
  from the file once at most, and what the operator is asked about is what the
  next run will take.
* `BusyMeansWorking`, `QuestionReachable`: nothing is shown busy that will never
  end, and no run waits for an answer that cannot be given.
* `PanelsBelong`, `OneStoppableRun` (one run at a time, and Esc or close finds its
  token): events stay in their session, and every run can be stopped.
* `QueueDrains`: queued input of the session being looked at is dispatched,
  unless the operator leaves, interrupts, or ignores a panel.
* `DirectoryConsistent`: the six pieces of state that name sessions agree after
  any sequence of new, spawn, import, switch, close, clear, pick and cycle.
* `RunsTracked`, `WaitingIsIdle`, `QuestionAnswerable`: though tasks find their
  entries by session id and an approval installs its run in two steps, each run
  that nobody stopped is the one its entry names, an approval never puts a second
  run on a transcript in use, and no question loses its sender.
* `NeverAskedTwice`, `StoresAgree`: grants last through resumed runs; entries,
  router and lifecycles agree.
* `EofEnds`: closing the pipe ends the process whatever its runs are doing.
* `NoRunStuck`, `CallsPending`: a session id learnt late, a refused or timed-out
  start, a dead daemon and a delete in between never leave a chat with a run that
  is gone (but after `/clear`), nor a call of `runTask` waiting for nothing.
* `OneDaemon`, `HandedOnce`: several callers spawn one daemon; two terminal events
  of one run hand a queued message over once.
* `TreesKept` (`ChangesKept` and `TreeStaysNamed`), `GoneIsNoticed`: a worktree with changes is
  removed only by closing its session; a worktree and the record that names it
  part only where the next start notices.
* `DeliveredOnce` (`ReadOnce` and `NotLost`), `InOrder`: a message whose sender was
  told `delivered` is read once at most, in the order its sender sent, and until then
  waits in the very inbox that was found for it, though two runs of one session may
  read it. With that inbox it is lost when the session is closed or replaced, and
  nobody is told: the one way to lose it, besides arriving after the last turn of
  the last run. The order holds although the inbox may be replaced between two
  messages, because a reader that looks up later never gets an older handle.
* `KinOnly`: what a run reads comes from a session that was registered as its parent
  or its child, also when ids were given anew between the question and the delivery.
* `ClosedStaysClosed`, `StartsReconciled`: no snapshot or reconciliation brings a
  closed session's record back, and no start leaves a `Running` record behind.

## 4. Bounds and fairness

| constant | value | why it is enough |
|---|---|---|
| `AgentLoop!MaxTurns` | 5 (2 in `loop_contract`) | an edit, a failing and a passing verify, one more call, and done are five turns; a streak at its cap with a reset in the middle fits as well. In `loop_contract` the question is the shape of a run and the step to the next |
| `AgentLoop!MaxRuns` | 1, 3 in `loop_contract` | halt for approval, resume, and a run that must not resume again |
| `FixCap`, `ErrorCap`, `StuckThreshold` | 2, 3, 2 or 3 | smaller than `MaxTurns`, so that each breaker trips, and is reset, within a run |
| `Budget`, `TurnCosts`, `GateCosts` | 3 and {0, 1}, or 2 and {1} | below, at and above the budget are all reached |
| `Sigs`, `Labels` | at most 2, 1 | a breaker compares with the last signature only; the tool already makes two replies differ |
| `Tools`, `Errors`, switches | a slice in each run | `loop_verify` leaves errors out, `loop_breakers` leaves verification out: their policies read disjoint state. `loop_contract` has all of them |
| Committee: `MaxTurns`, `MaxPasses`, `Diffs` | 4, 2, 2 | a request, another diff or an override in between, and the request that becomes a block; a block, its override and one more turn |
| Transcript: `CallIds`, `KeepTail`, `MaxRuns`, `MaxHalts`, `MaxLog` | 2, 2, 3, 2, 5 | a batch of two lies across the cut; an id is used again; halt, resumed run, second halt and its run; turns add to transcripts of up to five entries |
| TuiSessions: `MaxSessions`, `MaxTasks`, `MaxPrompts` | 2, 2, 2 (3, 1, 1 in `tui_any_order`) | the session shown, the one left, and one to close between them; a run and the one queued or approved behind it, a question and an approval; the directory does not depend on them |
| Daemon: `Ids`, `Calls`, `MaxRuns` | 2, 1, 3 | a run, the approved run behind it and a run of another session; two calls would only repeat the grant |
| Editor: `Chats`, `MaxRuns`, `MaxQueued`, `MaxUnread` | 2, 2, 1, 2 | the chat that waits and the one made active meanwhile; two answers, or an answer and an end, in the pipe at once. The daemon handles one request of the user interface at a time, and deleted chats are not used again |
| SessionStore: `Spawned`, `MaxRounds`, `MaxTasks` | 1, 3, 2 (1, 2, 1 in `sessions_live`) | one worktree beside the project; a life, the one that reconciles it cut off, and one that finishes; a run before and after |
| PeerInboxes: `Sessions`, `MaxHandles`, `MaxRuns`, `MaxMessages` | 3, 3, 2, 2 | parent, child and a stranger, or two of them and a second handle of one; a sender and a reader, or two readers of one inbox; two messages have an order. The sessions are symmetric and no property is temporal |

Fairness. `AgentLoop` and `Committee` have `WF_vars` of their own steps: the loop
is one async task, everything it awaits (provider, tool, verifier, hook) has a
timeout or an end, and the operator who is asked about a block is assumed to
answer. `Cancel` and `NextRun` have none: nothing makes the operator act. The
terminal polls the keyboard with a timeout of 100 ms, so `WF_vars(LoopStep)` is
the loop going round without keys (`NoKey` is one of its steps), and each run is
fair on its own; no key is, so `QueueDrains` excuses an operator who leaves a
panel open. In `Daemon` only what waits for nothing but a lock or the end of
others is fair: `Attach`, `Drain`, `Exit`, and for each run `Die` and the end once
begun; neither the agent, the client nor the extension has to do anything.
`Transcript`, `Editor`, `SessionStore` and `PeerInboxes` state no fairness: their
properties are safety properties, in which everything may stop at any point.

`CHECK_DEADLOCK` is off in `Transcript`, `SessionStore` and `PeerInboxes` only, where
the world may come to rest: all runs, halts, tasks, lives or messages the bounds
allow are used up.

## 5. The proofs

Each theorem holds for every value of the constants its assumptions allow: every
number of turns, runs, sessions and calls, every threshold, alphabet and switch.
Each is an inductive argument with one step per action.

| module | theorem | statement |
|---|---|---|
| AgentLoopProofs | `TypeCorrect` | `Spec => []TypeOK` |
| | `NeverBlind`, `GateHolds` | `Spec => []DoneNeverBlind`, `Spec => []FailedFlushBlocksDone` |
| | `ContractSafe` | the safety part of `ImplementsRunContract` |
| | `BudgetIsKept`, `CancelIsObeyed` | `Spec => []BudgetHolds`, `Spec => []CancelStops` |
| | `RepetitionIsStopped`, `FailingVerifyStops` | `Spec => []RepetitionBreakers`, `Spec => []VerifyBreakers` |
| CommitteeProofs | `CommitteeContract` | the safety part of its `ImplementsRunContract` |
| | `SameDiffIsBlocked`, `RequestsAreLimited`, together `RequestsComeToAnEnd` | `Spec => []` of `SameDiffBlocks`, `RequestsEnd`, `RequestLimits` |
| | `BlockIsHeld`, `CancelIsHeard` | `Spec => []` of `BlockHolds`, `CancelStops` |
| TranscriptProofs | `RequestsArePaired`, `SavedIsAnswered`, `ObjectiveStays` | `Spec => []` of `RequestsWellPaired`, `SavedAnswered`, `ObjectiveKept` |
| | `FoldingIsSafe` | `Spec => FoldingKeepsPairs` |
| | `NoCallIsTakenTwice`, `QuestionMatchesFile`, together `ApprovalIsForOneCall` | `Spec => []` of `TakenOnce`, `AskedIsPending`, `ApprovedOnce` |
| TuiSessionsProofs | `DirectoryIsConsistent` | `Spec => []DirectoryConsistent` |
| | `BusyIsWorking`, `QuestionsAreReachable`, `PanelsStayHome`, `RunsAreStoppable` | with `BySlash`: `Spec => []` of `BusyMeansWorking`, `QuestionReachable`, `PanelsBelong`, `OneStoppableRun` |
| DaemonProofs | `RunsStayTracked`, `WaitingStaysIdle`, `QuestionsStayAnswerable`, `GrantsLast`, `DirectoriesAgree` | `Tame /\ Spec => []` of `RunsTracked`, `WaitingIsIdle`, `QuestionAnswerable`, `NeverAskedTwice`, `StoresAgree` |
| EditorProofs | `OneDaemonAtMost`, `MessagesAreHandedOnce`, `NoCallIsForgotten`, `NoChatIsStuck` | `Spec => []` of `OneDaemon`, `HandedOnce`, `CallsPending`, `NoRunStuck` |
| PeerInboxesProofs | `PeerTypes` | `Spec => []TypeOK` |
| | `MessagesAreDeliveredOnce`, `OrderIsKept`, `OnlyKinIsRead` | `Spec => []` of `DeliveredOnce`, `InOrder`, `KinOnly` |
| SessionStoreProofs | `ChangesAreKept`, `TreesStayNamed`, together `TreesAreKept` | with `OnlyTerminals`: `Spec =>` `ChangesKept`, `TreeStaysNamed`, `TreesKept` |
| | `StartsAreReconciled` | with `OnlyTerminals`: `Spec => StartsReconciled` |
| | `ClosedAreForgotten`, `GoneAreNoticed` | with `OnlyTerminals`: `Spec => []` of `ClosedStaysClosed`, `GoneIsNoticed` |
| | `LiveTreesStay` | with `OnlyTerminals`: `Spec => LiveTreeStays`, which `sessions_live` breaks with a daemon |

The inductive invariants, and why each is needed:

* **AgentLoop, types.** The policies after a turn read its outcome and the error
  path its error; `TypeInv` adds that they are there when they are read.
* **`NeverBlind`**: `BlindInv`. When there is an unverified edit, the run is over
  without done, or the burst is still *pending* (the flag is up, or the edit is
  the current outcome on its way to the policy that will raise it) and the loop is
  not yet *settled*, that is, not past the policy with a claim of done in hand.
* **`GateHolds`**: `GateInv`. The gate sees neither the failure (an automatic
  verify is not an outcome) nor, for sure, the note about it (compaction may drop
  it). While the burst is dirty, and from a failed flush until the model's next
  verify, an edit among the outcomes is uncovered, and no note excuses it.
* **`ContractSafe`**: `ContractInv`. A turn in progress is one of `MaxTurns`,
  there is a reply exactly after it was heard, the done gates only see a claim of
  done and the budget check never sees one, and `Finished` was told exactly when
  the run has finished.
* **The breakers**: a property counts events in the history, a policy keeps a
  streak, and the two are one step apart while the policy has not run yet. For
  each signature (or tool and label) the invariants `ErrorInv`, `StuckInv`,
  `FlushInv` and `OwnInv` bound the number of events since the last one that
  resets it by what the streak says, plus one where this turn's is still to be
  counted (`ErrRoom`, `OwnRoom`). The sizes are those of sets of positions, about
  which one lemma each says what one more event does. `BudgetInv` and `CancelInv`
  say where in a turn the cost is below the budget, and where no reply may follow
  a cancel.
* **Committee**: `LimitInv` ties the history to the code's counters (an approval
  forgets neither the rejections of a diff, `given[d] <= rejected[d]`, and both
  stay below the limit while the executor is at work), `RunInv` says what reply,
  turn and `told` are at each program point, `LogInv` types the log, and
  `HistoryInv` says of every moment of the log what may have come after it: one
  reply after a cancel, fewer requests in a row than the counter says, and no
  reply between a block and its override.
* **Transcript**: the two statements about messages rest on the *shape* of the
  entries (`Shaped`): the results of a batch are the entries right behind it, in
  its order, and only while a batch is at work may its last ones be missing. The
  order is why: a cut or a fold may then only fall between batches, or where
  `KeepFrom` finds no orphan. From that, the messages stay *paired* through
  merging, dropping from the front and repairing, and a result in a paired request
  is open exactly when its call is right there, so the repair takes away what the
  cut has orphaned and nothing else. `Objective`: the last task in the transcript
  is that of the run, which compaction keeps. `HaltInv`: a call in the file was
  not taken yet (`Untaken`), and from the first turn's boundary on a run of the
  agent loop has emptied the file (`Emptied`); the committee loop never does.
* **TuiSessions**: `DirInv` (order and tokens of the router name the same
  sessions once each, and every name used is a tab) is inductive for every key and
  command. The others need `SlashInv`: what the state of a session says (busy,
  waiting for an approval, asking, ready to drain) is compared with its runs *and*
  with the events that wait for it (`TabInv`), since a state is always older than
  the run; the events of a run come in the order it sent them and the last one
  ends it (`ChannelInv`); a session has one active run (`SoleInv`), whose token is
  in its handle or was fired (`TokenInv`); events are applied and keys read only
  while the session shown is the current one (`PlaceInv`).
* **Daemon**: the map finds everything by session id, so the invariant says that
  an id stands for one run at a time. `Entries` ties an entry to the run whose
  token it has, `OneLive` says a session in the map has no other run, `Tracked`
  and `Handles` that a run or a router handle without an entry was stopped or is
  leaving, `Granted` that the grants are in the run's own configuration,
  `Records` what the stored lifecycle may be, `Resuming` what holds between the
  two steps of an approval. `Tame` is where the argument needs the client: an
  entry is removed by id, so the run that leaves must be the last of its session.
* **Editor**: `OneInv` (there is a daemon or a spawn, never both, and `up` says
  which), `QueueInv` (what was handed on, what the timer holds and what is queued
  are one growing sequence), and `PendingInv`, which is `CallsPending` with the
  facts the pipes need: while a spawn goes on nothing is left to read.
  `NoRunStuck` needs the order of the lines. `YoungInv`: as long as the host has
  not read the answer to a start, no chat, no request and no answer to the user
  names the new session (`Unheard`), and in the pipe no list and no end of a run
  names it before that answer does (`InTurn`). So when the answer comes, its chat
  is the only one with the session, and `OwnInv` keeps it so: while the chat, its
  run and the session belong together (`Own`), no other chat has the session, no
  request or answer about it is on behalf of another chat, and when the session is
  no longer live a line that takes the run out is in the pipe, or the record is
  gone (`Kept`). `SideInv`, `CallInv`, `TrackInv` and `StartInv` say where
  sessions, calls, tracked runs and answers may come from.
* **SessionStore**: `Quiet` (a terminal that is not up has no runs and no handles,
  and the session it closes has lost its handle), `JobsSound` (a reconciliation
  belongs to a start, and the worktree it is about to remove is clean) and
  `Forgotten` (a closed session has no record, no handle and no place in the list
  of a reconciliation). For the names, `NamedInv`: the list a reconciliation has
  read is still what the store says (`ListSound`), and a handle names the worktree
  when the record does (`HandlesSound`).
* **PeerInboxes**: one invariant, `IInv`, of which the properties are part or
  consequence. `RouterInv`: the handle of a session is the newest that was made for
  its id, so nobody finds an older one than before. `MailInv`: a run sends one
  message at a time, so a message under way is the last of its run, and the handles
  found for the messages from one run to one session never go back. `PlaceInv`: what
  is in an inbox or a context was delivered there, once. `OrderInv`: the order of one
  sender holds inside an inbox and between a context and an inbox it was read from;
  and a run about to empty an inbox has read nothing from a newer one. Steps that
  move no message are treated at once (`Quiet`); `Push` and `Drain` have a lemma each.

Hypotheses. Assumptions on constants are of two kinds: numbers are naturals and
thresholds positive, and names are distinct. None bounds a size. Three
hypotheses about who acts are part of the theorems that need them, each named
for what it excludes, and each satisfied by the configuration of the run:

* `BySlash` (TuiSessions): the operator is patient (section 2.3) and uses the keys
  of `tui_slash`. Denials, Ctrl+W, the picker, sessions started in the background
  and imported ones are excluded because with them the statements are false
  (section 7, *Terminal*).
* `Tame` (Daemon): section 2.4.
* `OnlyTerminals` (SessionStore): no second process reconciles the store. That
  `LiveTreeStays` holds under it, and TLC breaks it without it, says that the
  daemon is the only way to lose a worktree in use.

Sizes and minima. The library's induction theorems take an operator parameter,
which the provers cannot instantiate, so nothing is proved by induction on a
number. Where it would be needed, `TranscriptProofs` takes the least (or largest)
element of a bounded set of numbers instead: strict inclusion is well founded on
the subsets of a finite set, and `k..n` shrinks as `k` grows (`LargestOf`,
`LeastOf`). That the messages of a request stay paired however many are dropped
(`CutsArePaired`), and that the function which describes the dropping exists at
all (`CutsExist`), is shown by looking at the least number for which it would not.
This is also why `Transcript` states `KeepFrom` as the last cut that leaves no
result behind and `retain` as a choice of positions (`Keep`), where the code has
loops: the comment at each says why the two are the same, and TLC has compared
them on all short inputs.

Every safety property a run checks is also a theorem. Model-checked only, being
out of the prover's reach: `QueueDrains`, `EofEnds` and the fairness part of both
`ImplementsRunContract` (liveness and ENABLED are not supported). No module uses a
RECURSIVE operator, which would take the SMT backend away.

A proof that failed for a good reason: without `StartedAgain`, `NoRunStuck` is
false. The least behaviour we know of takes four chats, four runs and 34 steps, more
than the run of section 3 has, so TLC had not met it; following the attempted proof
step by step, TLC confirms it: section 7, *Editor*.

## 6. Where the code and its documents differ

TLC finds each of these statements violated.

1. **`DoneNeverAfterFailure`**, with `AgentLoopStaleMarker.cfg` (kept for this, not
   one of the runs of `PROJECT.json`). `README.md:24`: `agent_done` is refused while the
   last verify failed. `core/loop_policy/preflight.rs:129` accepts the newest
   `[auto-verify]` note whatever came after it: edit, automatic verify passes,
   the model's own `verify_test` fails, done is accepted.
2. **`sessions_live`**. `cli/worktree_cleanup.rs:97`: reconciling is for sessions
   left `running` by an unclean shutdown. The daemon reconciles the project's store
   on every `peridot.status` (`cli/commands/daemon/mod.rs:696`), takes every record
   that says `Running` for such a session, and removes the clean worktree in which
   a run of a terminal is at work.

## 7. Observations without a run

Met while modelling. The models contain each of these unless it says otherwise;
most contradict a document or comment and are recorded here because a run each
would repeat a cause or show one step.

**Agent loop.**
* A fix is an edit, and every turn that is not a failing verify resets the
  auto-fix count (`auto_fix.rs:90`), so edit, fail, edit, fail never trips the
  breaker that `auto_fix.rs:25-27` promises for the same fix with the same failure.
* A hook or goal checker that fails leaves through `?` (`agent.rs:1535`) and emits
  no `Finished`, which `agent.rs:78-79` says every exit path does. The contract
  says: an error and no `Finished`.
* A skipped verify counts as a success (`tools/verify.rs:171-173`) and so lifts an
  earlier failure in the gate (`preflight.rs:125`). The stale note of section 6
  also excuses a later `git_commit` or `agent_delegate`, which do not mark the
  burst dirty (`preflight.rs:129-135`).
* A refused done goes on with the next turn without the budget check
  (`agent.rs:1596`), and the usage of a failed turn is never counted
  (`agent.rs:1500`); `BudgetHolds` states the first exception.
* An edit whose post hook fails is recorded as an error (`agent.rs:620`), and an
  edit carried out by `PendingResumePolicy` (`pending_resume.rs:67`) does not mark
  the burst dirty: neither is ever verified. `DoneNeverBlind` speaks of edits
  whose turn produced an outcome.
* If the pending-resume file cannot be removed the next run executes the call
  again (`agent.rs:1960-1975`, documented as best effort). `AgentLoop` has this
  behind `DeleteMayFail`; `TakenOnce` speaks of files that can be removed.

**Committee.**
* None of the loop policies runs in full committee mode: done is accepted right
  after "request changes" and over unverified or failing edits (`README.md:24`).
* Every error of a turn, a provider's or a cancelled stream's included, ends the
  run with `ApprovalRequired` (`run_loop.rs:795-800`), which `requests.rs:403`
  explains as a tool that needs approval; the daemon then waits for an approval of
  nothing.
* The planner gets no cancel token (`run_loop.rs:490-519`), and while the block
  question is open a cancel is not noticed. A cancel at the last turn ends
  `MaxTurns`. A reviewer that fails does not reset the count in a row.
* Planner's and reviewer's costs are not in the budget. The planner's run sends
  `RunStarted` and `Finished` of its own, so a terminal takes the session for done
  and dispatches queued input before the executor starts.
* A `session_end` or completion hook that fails after `Finished` makes the run an
  error for the host: `Finished`, then `Failed`.

**Transcript.**
* A denied call stays in `pending_resume.bin`; the next run takes it, and the note
  it leaves (`agent.rs:2041`) says that the operator approved.
* A halt does not save the transcript, so the resumed run's result has no call and
  is recorded as a reminder (`README.md:254-257` describes a tool result). With
  cut 0 compaction only adds a summary. Trimming may empty a request whose last
  tool turn alone exceeds the limit.
* A batch in which one call needs approval ends `ApprovalRequired` without an
  event or a file; the committee loop neither reads nor clears the file.

**Terminal.**
* A denied approval sets the status to `Running` (`tui/state.rs:2557`) and starts
  no run: the session stays busy and its input is never dispatched.
* A session started in the background has no stashed state before it is first
  shown (`tui/input.rs:179`), so its question is dropped while its run waits for
  the answer and for nothing else; `docs/agents/multisession-runbook.md:281` says
  the stash is populated.
* Ctrl+W and the picker move the current session one tick before the swap, and
  the events in between are applied to the state of the session left
  (`tui/input.rs:174`); they and `/clear` do not move the router's foreground
  (`session_router.rs:5`).
* Until `RunStarted` is applied a session does not look busy. A second submit, a
  `/session resume` during a run (`main.rs:1596`), or an approval given before the
  `Finished` of the run that asked, starts a second run and replaces the first
  one's token: nothing can cancel it (`session_router.rs:57`). With
  `Patient = FALSE` TLC breaks `OneStoppableRun` this way.
* A session started in the background and then shown has no last task, so
  approving its call starts nothing and leaves it `Running` (`main.rs:879`).
* With no current session, events of any session are applied to the state that
  happens to be shown. A question raises no attention flag.
* Session ids are the process id and the second: two sessions made within a second
  share one (`main.rs:1313`). The models make unique ids.

**Sessions on disk.**
* The status in a snapshot is serialised and never reset (`main.rs:688-713`): a
  restored session that was at work still looks `Running`, the next persist
  records `Running` again, and typed input waits for ever, against
  `multisession-runbook.md:36-38` and `:113-114`.
* Follow-up tasks and approved calls of a worktree session run in the main
  checkout (`main.rs:839-858`, `:950`; runbook:16), with another `context.bin`;
  the transcript inherited from a parent is copied to where a worktree child does
  not read it (runbook:80-86).
* A spawned session that was never shown has no record: if the terminal goes, its
  worktree is never reconciled (runbook:346), and after a restart it is a tab
  without a handle. One shown after its run began is recorded `Idle`.
* After a restart only the restored session has its `TuiState`; showing another
  one overwrites its snapshot and record with `Idle`.
* A death between removing the worktree and deleting the record of a session being
  closed leaves a record of a missing worktree; a failing `git worktree remove` at
  close orphans the worktree; branches are never deleted, so `/worktree b` fails
  the second time (runbook:78-79). The first two are the exceptions in
  `GoneIsNoticed` and `TreeStaysNamed`.
* A tab of a closed session may come back from another session's older snapshot.
* With a daemon at work on the same store a reconciliation may also overwrite
  `Done`, bring deleted records back, and remove changes made between its `git
  status` and its `git worktree remove --force`.

**Daemon.**
* The task of a run removes its entry by session id (`mod.rs:1574`): when a client
  cancels, and starts the session again before the cancelled run has gone, the new
  run loses its entry and can no longer be cancelled (`mod.rs:1642-1643` says why
  that must not be). `Impatient = TRUE` reaches it.
* `peridot.status` suspends the records of the daemon's own live sessions, after
  which `/session prune suspended` drops their entries without stopping the runs;
  `prune running` likewise. `Pruned` leaves both out.
* A denial leaves the lifecycle `Running` (`approval.rs:127`); `/session save`
  racing the end of a run writes `Running` over `Done`; a cancel racing it writes
  `Suspended`; a delete while the tail saves makes the record again (`mod.rs:1532`).
* The broken-pipe flag is read only after a line; `shutdown` does not end the
  process before stdin does. A scope of "once" behaves like "command"
  (`approval.rs:376`).

**Editor.**
* The extension sends `session_id` but never `resume: true` (`extension.ts:1052-1060`)
  and the daemon refuses a session that has a record (`mod.rs:914-938`): a follow-up
  fails, against the extension's `README.md:131-132`.
* `/clear` wipes the chat and the daemon's session but leaves the run in
  `activeRuns`, so the chat refuses the next task; the announcement that comes with
  it makes another chat active, which is then the one wiped, and whose run stays
  tracked too (`extension.ts:2239-2259`). A later list makes a new chat for that
  run's session, and a cancel or a delete from there takes only the new chat out:
  the run stays tracked under the other one. This takes four chats, and is why
  `NoRunStuck` speaks of chats whose session is that of their run. `/clear` with
  nothing to clear cancels the only other run.
* A session whose record `/clear` deleted can be started again, by a task that was
  sent before the answer. The chat of its first run stays tracked, so two chats have
  a run of one session; a cancel from one of them takes only that one out
  (`extension.ts` forgets the chat it asked for), and the other refuses every task
  until the daemon goes away. Two late answers must have named the active chat's
  session in between, hence the four chats; hence also `StartedAgain`.
* A run ends with two terminal events; the second one's drain clears the timer of
  the first and a queued message is lost (`extension.ts:2311`). The second
  `finished` of a background chat is applied to the active one.
* Deleting a chat whose run has just ended leaves that run tracked under a chat
  that is gone; the next list may bring the chat back; a late answer to its start
  gives its session to the active chat.

## 8. What is not modelled

The map covers some eight per cent of the repository's Rust and TypeScript. The
rest is of three kinds.

*Left out for good.* Rendering, menus, pickers, localisation, settings and slash
parsing (`tui/render`, `slash_picker.rs`, most of `state.rs` and `peridot-common`):
pure functions of the state, without a behaviour to check. Wire formats, scanners
and parsers. One-shot commands (`commands/session.rs` for the most part, setup,
doctor, export): they read, print or write once and exit. The memory store's other
tables: single SQLite transactions. The shell and the sandbox: the operating
system's. Prompts, grading and scoring: text. Tests, which are inside most files.

*Abstracted inside a module.* AgentLoop: the inside of a turn, which is one step
with the outcomes it may have. Committee: the planner's turns. Transcript: token
counts, offload and evidence, texts, pinned entries (none is made outside tests).
TuiSessions: editing keys, several `RunStarted` of one start, hydration,
persistence. Daemon: goal, settings, model and branch commands, the
committee's approval errors. Editor: approvals and questions, the other slash
commands, several lines in one chunk, persistence over a window reload, output of
a daemon that was let go. SessionStore: approvals, second runs, renames.

*Not yet.* File checkpoints, transport retries and the model catalog,
the MCP client, the curator, sub-agents, branches of a transcript. See the plan.

## 9. The plan

Done: AgentLoop with RunContract, TuiSessions; then Daemon, Transcript, Editor,
SessionStore, Committee, PeerInboxes, each with its runs, and the proofs of section 5. Next:

1. **FileCheckpoints** (`core/checkpoint.rs`, `cli/checkpoints.rs`): backup, write and
   undo, each cut off at any step. Questions it should answer: ids are compared as
   strings (time, number, tool), is the last one the most recent; a refused patch
   leaves a checkpoint, does undo then undo the last change; a checkpoint that was
   cut off, does it block the ones before it.
2. **Planner in the terminal**: Committee's planner as a run of its own in
   TuiSessions, for the `Finished` that reaches the host first.
3. **Transport retries, catalog, MCP client**: an answer goes to its request, the
   retries end, a stale catalog is not preferred.
4. **SessionViews**, an abstract specification in which every session owns its view
   and is sent its events in order; TuiSessions with slash commands implements it.
5. **Branches** (`/session branch`, edits of `context.bin`), sub-agents, the curator.

Theorems to add: the safety invariants of the modules above.

## 10. Running it

    tlc -workers 2 -config AgentLoopVerify.cfg MCAgentLoop.tla
    tlc -workers 2 -config DaemonSessions.cfg Daemon.tla
    tlapm DaemonProofs.tla

and likewise for every run in `PROJECT.json` (its module, configuration and
properties) and every `*Proofs.tla`. `PROJECT.json` also maps every definition to
the lines it models and lists the mutants, findings, hazards and theorems.
