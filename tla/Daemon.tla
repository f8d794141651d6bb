------------------------------- MODULE Daemon -------------------------------
(***************************************************************************)
(* `peridot daemon`: the JSON-RPC host of the editor extension.             *)
(*                                                                          *)
(* One loop reads request lines and carries each out before the next        *)
(* (dispatch_line is awaited).  session.start, and an approval, spawn a run *)
(* (run_session_task) as a task of its own.  Runs and loop share the map of *)
(* session entries, the router, the questions that wait for an answer and   *)
(* the session records in memory.db, and everything is found by session id: *)
(* nothing in the map says which run an entry was made for.                 *)
(*                                                                          *)
(* Stopping a run fires its token and aborts its task.  An aborted task is  *)
(* dropped when it next has to wait, so a stopped run may still take steps, *)
(* those that write to the map and to the records included.                 *)
(*                                                                          *)
(* A handler is one step, except approval.respond, which spawns the run and *)
(* only then puts its handle in the entry.  The agent's own work is reduced *)
(* to asking a question, needing an approval and ending; a session record   *)
(* to its lifecycle; a tool call to a name.                                 *)
(*                                                                          *)
(* A definition MutXxx is not part of the model: it is Xxx with a mistake a *)
(* change to the code could make, kept to show that a property notices it.  *)
(***************************************************************************)
EXTENDS Integers, FiniteSets

CONSTANTS
    Ids, NoId,      \* session ids
    Calls, NoCall,  \* tool calls that need an approval
    MaxRuns,        \* bound of the model: runs that are ever spawned
    Impatient,      \* the client may start a session again while an earlier run
                    \* of it has not quite gone
    Pruned          \* the lifecycles the client prunes

Lifecycles == {"Idle", "Running", "Suspended", "Done", "Failed"}

ASSUME DaemonNamesAssumption == NoId \notin Ids /\ NoCall \notin Calls
ASSUME DaemonBoundAssumption == MaxRuns \in Nat
ASSUME DaemonClientAssumption == Impatient \in BOOLEAN /\ Pruned \subseteq Lifecycles

NoRun == 0
Runs  == 1..MaxRuns
\* Where a run is: spawned; with the agent; waiting for an answer; back from the
\* agent with a call to approve; its record written and its last event sent; its
\* entry removed.
Phases == {"unused", "starting", "working", "asking", "marking", "ending",
           "leaving", "over"}

VARIABLES
    open,                         \* keys of the map of session entries
    task, token, waiting, grants, \* SessionEntry: task, cancel,
                                  \* waiting_approval and approval_grants
    registered,                   \* sessions the router holds a handle of
    stored,                       \* lifecycle of the session records
    asks,                         \* runs whose sender is in ask_user_pending
    phase, sess, allowed,         \* a run: its session, and the calls its config
                                  \* allows
    stopped,                      \* runs that were cancelled and aborted
    main, resuming,               \* the request loop, the run it is spawning
    broken, eof                   \* stdout is gone, stdin is closed

entries == <<open, task, token, waiting, grants>>
shared  == <<registered, stored, asks>>
runs    == <<phase, sess, allowed, stopped>>
loop    == <<main, resuming, broken, eof>>
vars    == <<entries, shared, runs, loop>>

RunsOf(s)  == {r \in Runs : sess[r] = s}
Present(r) == phase[r] \notin {"unused", "over"}
AtWork(r)  == phase[r] \in {"starting", "working", "asking", "marking"}

-----------------------------------------------------------------------------
(* The map, the router, the questions and the records. *)

\* The entries of the sessions in X are taken out of the map.
Removed(X) ==
    /\ open'    = open \ X
    /\ task'    = [s \in Ids |-> IF s \in X THEN NoRun ELSE task[s]]
    /\ token'   = [s \in Ids |-> IF s \in X THEN NoRun ELSE token[s]]
    /\ waiting' = [s \in Ids |-> IF s \in X THEN NoCall ELSE waiting[s]]
    /\ grants'  = [s \in Ids |-> IF s \in X THEN {} ELSE grants[s]]

\* The entries are dropped without a word to their runs.
MutStopped(X) == stopped' = stopped
\* The token of each entry of X is fired and its task aborted.
Stopped(X) ==
    stopped' = stopped \cup {r \in Runs : \E s \in X : r \in {task[s], token[s]}}

\* The handle is left behind.
MutClosed(s) == registered' = registered
\* The router forgets the handle of the session.
Closed(s)    == registered' = registered \ {s}

\* The senders of every session are dropped.
MutClearAsks(s) == asks' = {}
\* clear_pending_ask_user_for_session drops the senders of one session.
ClearAsks(s)    == asks' = asks \ RunsOf(s)

\* update_session_lifecycle: a record that is not there stays away.
Updated(X, l) ==
    stored' = [s \in Ids |-> IF s \in X /\ stored[s] # "Absent" THEN l ELSE stored[s]]
\* A record is only updated, never made.
MutSaved(s, l) == stored' = IF stored[s] = "Absent" THEN stored ELSE [stored EXCEPT ![s] = l]
\* save_session_record makes the record when there is none.
Saved(s, l) == stored' = [stored EXCEPT ![s] = l]

Unused == {r \in Runs : phase[r] = "unused"}
\* The next run is spawned, for session s.
Spawn(s, r) ==
    /\ r \in Unused /\ \A q \in Unused : r <= q
    /\ phase' = [phase EXCEPT ![r] = "starting"]
    /\ sess'  = [sess EXCEPT ![r] = s]
    /\ UNCHANGED <<allowed, stopped>>

-----------------------------------------------------------------------------
(* The request loop.  It looks at the flag the writer raised only after it  *)
(* has handled a line.                                                      *)

Ready   == main = "reading" /\ ~eof
Handled == /\ main' = IF broken THEN "stopping" ELSE "reading"
           /\ UNCHANGED <<resuming, broken, eof>>
Handler == Ready /\ Handled

\* session.start: refused for a session in the map, and for one that is on disk
\* unless the client says it resumes.  The run waits for start_tx, so it begins
\* after the record is saved.
MayStart(s, resume) ==
    /\ s \notin open
    /\ resume \/ stored[s] = "Absent"

Start(s, resume) ==
    /\ Handler /\ MayStart(s, resume)
    /\ Impatient \/ \A r \in RunsOf(s) : ~Present(r)
    /\ \E r \in Runs :
           /\ Spawn(s, r)
           /\ task'  = [task EXCEPT ![s] = r]
           /\ token' = [token EXCEPT ![s] = r]
    /\ open'       = open \cup {s}
    /\ waiting'    = [waiting EXCEPT ![s] = NoCall]
    /\ grants'     = [grants EXCEPT ![s] = {}]
    /\ registered' = registered \cup {s}
    /\ Saved(s, "Running")
    /\ UNCHANGED asks

\* /session new: a record under an id nobody has used.
SessionNew(s) ==
    /\ Handler /\ s \notin open /\ stored[s] = "Absent" /\ RunsOf(s) = {}
    /\ Saved(s, "Idle")
    /\ UNCHANGED <<entries, registered, asks, runs>>

\* /session save writes the record of a session in the map as running.
SessionSave(s) ==
    /\ Handler /\ s \in open
    /\ Saved(s, "Running")
    /\ UNCHANGED <<entries, registered, asks, runs>>

\* session.cancel and /goal pause.
Suspend(s) ==
    /\ Handler /\ s \in open
    /\ Removed({s}) /\ Stopped({s})
    /\ Closed(s) /\ ClearAsks(s)
    /\ Updated({s}, "Suspended")
    /\ UNCHANGED <<phase, sess, allowed>>

\* /clear, /session close and /session delete: as a cancel, when the session is
\* in the map, and then the record and the files go.
SessionRemove(s) ==
    /\ Handler /\ (s \in open \/ stored[s] # "Absent")
    /\ Removed({s}) /\ Stopped({s})
    /\ IF s \in open THEN Closed(s) /\ ClearAsks(s)
                     ELSE UNCHANGED <<registered, asks>>
    /\ Saved(s, "Absent")
    /\ UNCHANGED <<phase, sess, allowed>>

\* /session prune deletes the records with a lifecycle and drops the entries of
\* those sessions; it fires no token and closes no handle of the router.
Prune(l) ==
    LET gone == {s \in Ids : stored[s] = l}
    IN  /\ Handler /\ l \in Pruned /\ gone # {}
        /\ Removed(gone)
        /\ stored' = [s \in Ids |-> IF s \in gone THEN "Absent" ELSE stored[s]]
        /\ UNCHANGED <<registered, asks, runs>>

\* approval.respond with a denial: whatever the session is doing, its entry goes
\* and its run is stopped.  The record is not touched.
Deny(s) ==
    /\ Handler
    /\ Removed({s}) /\ Stopped({s})
    /\ IF s \in open THEN Closed(s) ELSE UNCHANGED registered
    /\ ClearAsks(s)
    /\ UNCHANGED <<stored, phase, sess, allowed>>

\* The entry keeps the token of the run that is over.
MutGranting(s, r) == token' = token /\ waiting' = [waiting EXCEPT ![s] = NoCall]
\* approval.respond with an approval, under the lock of the map: the grant is
\* noted, for the call that waits or for the one the operator made of it, and the
\* session gets a new token and a run.
Granting(s, r)    == /\ token' = [token EXCEPT ![s] = r]
                     /\ waiting' = [waiting EXCEPT ![s] = NoCall]
Approve(s, c) ==
    /\ Ready /\ waiting[s] # NoCall
    /\ grants'  = [grants EXCEPT ![s] = @ \cup {c}]
    /\ \E r \in Runs : Spawn(s, r) /\ Granting(s, r) /\ resuming' = r
    /\ main' = "approving"
    /\ UNCHANGED <<open, task, shared, broken, eof>>
\* The entry, if it is still there, gets the handle of the spawned run.
Attach ==
    /\ main = "approving"
    /\ task' = IF sess[resuming] \in open
               THEN [task EXCEPT ![sess[resuming]] = resuming] ELSE task
    /\ main' = IF broken THEN "stopping" ELSE "reading"
    /\ resuming' = NoRun
    /\ UNCHANGED <<open, token, waiting, grants, shared, runs, broken, eof>>

\* interaction.respond hands the answer to the run that waits, if it still does.
Answer(r) ==
    /\ Handler /\ r \in asks
    /\ asks'  = asks \ {r}
    /\ phase' = IF phase[r] = "asking" /\ r \notin stopped
                THEN [phase EXCEPT ![r] = "working"] ELSE phase
    /\ UNCHANGED <<entries, registered, stored, sess, allowed, stopped>>

\* peridot.status suspends every record that says Running: what a process that died
\* left behind, and the sessions of this one (reconcile_stale_worktrees).
Status ==
    /\ Handler
    /\ stored' = [s \in Ids |-> IF stored[s] = "Running" THEN "Suspended" ELSE stored[s]]
    /\ UNCHANGED <<entries, registered, asks, runs>>

\* Every other request changes nothing that is modelled; shutdown ends the loop.
OtherLine == Handler /\ UNCHANGED <<entries, shared, runs>>
Shutdown  == /\ Ready /\ main' = "stopping"
             /\ UNCHANGED <<resuming, broken, eof, entries, shared, runs>>

\* shutdown_sessions, at the end of the input or after the loop was told to stop.
Drain ==
    /\ main = "stopping" \/ (main = "reading" /\ eof)
    /\ Removed(open) /\ Stopped(open)
    /\ Updated(open, "Suspended")
    /\ registered' = {}
    /\ main' = "leaving"
    /\ UNCHANGED <<asks, phase, sess, allowed, resuming, broken, eof>>

\* The process ends when the writer has (the last run has dropped its sender) and
\* the reader has (its thread sits in a read until stdin is closed).
Exit ==
    /\ main = "leaving" /\ eof /\ \A r \in Runs : ~Present(r)
    /\ main' = "gone" /\ asks' = {}
    /\ UNCHANGED <<entries, registered, stored, runs, resuming, broken, eof>>

LoopStep ==
    \/ \E s \in Ids : \/ SessionNew(s) \/ SessionSave(s) \/ Suspend(s)
                      \/ SessionRemove(s) \/ Deny(s)
                      \/ \E resume \in BOOLEAN : Start(s, resume)
                      \/ \E c \in Calls : Approve(s, c)
    \/ \E l \in Lifecycles : Prune(l)
    \/ \E r \in Runs : Answer(r)
    \/ Status \/ OtherLine \/ Shutdown \/ Attach \/ Drain \/ Exit

-----------------------------------------------------------------------------
(* A run: run_session_task, and the port it asks questions through. *)

Goes(r, p) == phase' = [phase EXCEPT ![r] = p]

\* The config goes to the agent as the start request left it.
MutBegin(r) ==
    /\ phase[r] = "starting" /\ Goes(r, "working")
    /\ UNCHANGED <<entries, shared, sess, allowed, stopped, loop>>
\* The run takes the grants of its session from the entry.
Begin(r) ==
    /\ phase[r] = "starting" /\ Goes(r, "working")
    /\ allowed' = [allowed EXCEPT ![r] = grants[sess[r]]]
    /\ UNCHANGED <<entries, shared, sess, stopped, loop>>

\* DaemonAskUserPort::ask puts a sender in the pending map and waits.
Ask(r) ==
    /\ phase[r] = "working" /\ Goes(r, "asking")
    /\ asks' = asks \cup {r}
    /\ UNCHANGED <<entries, registered, stored, sess, allowed, stopped, loop>>
\* The sender was dropped: the answer is Cancelled, unless the task was aborted.
Wake(r) ==
    /\ phase[r] = "asking" /\ r \notin asks
    /\ Goes(r, IF r \in stopped THEN "over" ELSE "working")
    /\ UNCHANGED <<entries, shared, sess, allowed, stopped, loop>>

\* The agent stops at a call its config does not allow.
NeedApproval(r) ==
    /\ phase[r] = "working" /\ Calls \ allowed[r] # {} /\ Goes(r, "marking")
    /\ UNCHANGED <<entries, shared, sess, allowed, stopped, loop>>
\* Every entry is told.
MutWaits(s, c) == /\ task' = [task EXCEPT ![s] = NoRun]
                  /\ waiting' = [x \in Ids |-> IF x \in open THEN c ELSE waiting[x]]
\* mark_session_waiting_approval: the entry keeps the request, if it is there.
Waits(s, c)    == /\ task' = [task EXCEPT ![s] = NoRun]
                  /\ waiting' = [waiting EXCEPT ![s] = c]
Mark(r, c) ==
    /\ phase[r] = "marking" /\ c \notin allowed[r] /\ Goes(r, "over")
    /\ IF sess[r] \in open THEN Waits(sess[r], c) ELSE UNCHANGED <<task, waiting>>
    /\ UNCHANGED <<open, token, grants, shared, sess, allowed, stopped, loop>>

\* The agent is done: the record is written with what stopped it and the last
\* event is sent.  A run that fails only touches a record that is there; only a
\* run whose token was fired is interrupted.
Ended(r, l) == l # "Suspended" \/ r \in stopped
Outcomes    == {"Done", "Failed", "Suspended"}
End(r) ==
    /\ phase[r] = "working" /\ Goes(r, "ending")
    /\ \/ \E l \in Outcomes : Ended(r, l) /\ Saved(sess[r], l)
       \/ Updated({sess[r]}, "Failed")
    /\ UNCHANGED <<entries, registered, asks, sess, allowed, stopped, loop>>
\* The entry of the session is removed, whichever run it is for.
Remove(r) ==
    /\ phase[r] = "ending" /\ Goes(r, "leaving")
    /\ Removed({sess[r]})
    /\ UNCHANGED <<shared, sess, allowed, stopped, loop>>
\* The handle in the router and the open questions of the session go.
CloseRouter(r) ==
    /\ phase[r] = "leaving" /\ Goes(r, "over")
    /\ Closed(sess[r]) /\ ClearAsks(sess[r])
    /\ UNCHANGED <<entries, stored, sess, allowed, stopped, loop>>

\* A stopped run is dropped where it has to wait: for the lock, the agent, the
\* answer.
Die(r) ==
    /\ r \in stopped /\ phase[r] \in {"starting", "working", "asking", "marking", "ending"}
    /\ Goes(r, "over")
    /\ UNCHANGED <<entries, shared, sess, allowed, stopped, loop>>

Leave(r)   == (\E c \in Calls : Mark(r, c)) \/ Remove(r) \/ CloseRouter(r)
RunStep(r) == \/ Begin(r) \/ Ask(r) \/ Wake(r) \/ NeedApproval(r) \/ End(r)
              \/ Leave(r) \/ Die(r)

-----------------------------------------------------------------------------
(* What happens to the process. *)

CloseInput == ~eof /\ main # "gone" /\ eof' = TRUE
              /\ UNCHANGED <<entries, shared, runs, main, resuming, broken>>
\* writer_task fails to write, ends, and raises the flag.
BreakPipe  == ~broken /\ main # "gone" /\ broken' = TRUE
              /\ UNCHANGED <<entries, shared, runs, main, resuming, eof>>
\* Only the records outlive the process.
Crash ==
    /\ main # "gone" /\ main' = "gone"
    /\ Removed(Ids) /\ registered' = {} /\ asks' = {}
    /\ phase' = [r \in Runs |-> IF phase[r] = "unused" THEN "unused" ELSE "over"]
    /\ allowed' = [r \in Runs |-> {}] /\ stopped' = {} /\ resuming' = NoRun
    /\ UNCHANGED <<stored, sess, broken, eof>>
\* The extension starts the daemon again; no record is looked at until the first
\* peridot.status.
Restart ==
    /\ main = "gone" /\ main' = "reading" /\ broken' = FALSE /\ eof' = FALSE
    /\ UNCHANGED <<entries, shared, runs, resuming>>

Init ==
    /\ open = {} /\ registered = {} /\ asks = {} /\ stopped = {}
    /\ task = [s \in Ids |-> NoRun] /\ token = task
    /\ waiting = [s \in Ids |-> NoCall] /\ grants = [s \in Ids |-> {}]
    /\ stored = [s \in Ids |-> "Absent"]
    /\ phase = [r \in Runs |-> "unused"] /\ sess = [r \in Runs |-> NoId]
    /\ allowed = [r \in Runs |-> {}]
    /\ main = "reading" /\ resuming = NoRun /\ broken = FALSE /\ eof = FALSE

Next == LoopStep \/ (\E r \in Runs : RunStep(r))
        \/ CloseInput \/ BreakPipe \/ Crash \/ Restart

\* The runtime polls the loop and the runs; an aborted run that waits is dropped,
\* and the end of a run waits for nothing but a lock.  Nothing makes the agent
\* stop of itself, the client send a line or the extension start the daemon.
Fairness ==
    /\ WF_vars(Attach) /\ WF_vars(Drain) /\ WF_vars(Exit)
    /\ \A r \in Runs : WF_vars(Die(r)) /\ WF_vars(Leave(r))
Spec == Init /\ [][Next]_vars /\ Fairness

-----------------------------------------------------------------------------
(* Properties. *)

\* Every variable holds a value of its type.
TypeOK ==
    /\ open \subseteq Ids /\ registered \subseteq Ids
    /\ asks \subseteq Runs /\ stopped \subseteq Runs
    /\ task \in [Ids -> Runs \cup {NoRun}] /\ token \in [Ids -> Runs \cup {NoRun}]
    /\ waiting \in [Ids -> Calls \cup {NoCall}] /\ grants \in [Ids -> SUBSET Calls]
    /\ stored \in [Ids -> Lifecycles \cup {"Absent"}]
    /\ phase \in [Runs -> Phases] /\ sess \in [Runs -> Ids \cup {NoId}]
    /\ \A r \in Runs : phase[r] # "unused" => sess[r] \in Ids
    /\ allowed \in [Runs -> SUBSET Calls]
    /\ main \in {"reading", "approving", "stopping", "leaving", "gone"}
    /\ resuming \in Runs \cup {NoRun} /\ broken \in BOOLEAN /\ eof \in BOOLEAN

\* A run at work that nobody has stopped can be stopped: the map has an entry for
\* its session, with the token of this run and, once an approval has put it
\* there, its task.  Otherwise session.cancel answers that nothing was running
\* and shutdown waits for a run it never told to stop.
RunsTracked ==
    \A r \in Runs \ stopped : AtWork(r) =>
        /\ sess[r] \in open /\ token[sess[r]] = r
        /\ task[sess[r]] = r \/ resuming = r

\* A session that waits for an approval has no run: an approval never puts a
\* second run on a transcript that is in use.
WaitingIsIdle ==
    \A s \in Ids : waiting[s] # NoCall => \A r \in RunsOf(s) : ~Present(r)

\* An approval counts for as long as the session is in the map: the operator is
\* not asked again for a call that was granted, through runs and edited calls.
NeverAskedTwice == \A s \in Ids : waiting[s] \notin grants[s]

\* A question is not answered behind the operator's back: as long as its run has
\* not been stopped, the sender is where interaction.respond finds it.
QuestionAnswerable ==
    \A r \in Runs \ stopped : phase[r] = "asking" => r \in asks

\* A session in the map has a handle in the router, which peer messages need; and
\* a handle without an entry is about to be closed by the run that leaves.
RouterAgrees ==
    /\ open \subseteq registered
    /\ \A s \in registered \ open :
           \E r \in RunsOf(s) : phase[r] \in {"ending", "leaving"}

\* A session whose run is at work, or which waits for an approval, has a record that
\* does not say it is over: session.list shows it, a start without resume is refused
\* for it, and no prune of finished sessions takes its transcript away.
HeldIsLive ==
    \A s \in open : waiting[s] # NoCall \/ AtWork(token[s])
                     => stored[s] \in {"Running", "Suspended"}

\* Map, router and records agree on which sessions there are.
StoresAgree == RouterAgrees /\ HeldIsLive

\* When the extension closes the pipe the process ends, whatever its runs do.
EofEnds == eof ~> main = "gone"

=============================================================================
