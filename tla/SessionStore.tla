---------------------------- MODULE SessionStore ----------------------------
(***************************************************************************)
(* The sessions of a project on disk, their git worktrees, and the          *)
(* processes that come and go.                                              *)
(*                                                                          *)
(* A terminal keeps its sessions in memory and writes the one it shows to   *)
(* disk about once a second: tui_state.json first, then the record in       *)
(* memory.db.  When it dies the memory is gone and its runs with it.  The   *)
(* next start reconciles what the records say with what can be true         *)
(* (reconcile_stale_worktrees), then restores one session and registers the *)
(* others.  The daemon of the editor reconciles the same store whenever it  *)
(* is asked for its status, whatever runs in a terminal meanwhile.          *)
(*                                                                          *)
(* Reconciling reads all records at once and then, for each that says       *)
(* Running, inspects the worktree, removes it when it is clean, and writes  *)
(* the record back as it was read, with the changes.                        *)
(*                                                                          *)
(* Left out: the transcripts, approvals (TuiSessions), events that are late *)
(* (TuiSessions), a second run in a session that has one, the rename, which *)
(* changes a title only, what a run does outside its worktree, and the      *)
(* records the daemon keeps of its own sessions (Daemon).                   *)
(*                                                                          *)
(* A definition MutXxx is not part of the model: it is Xxx with a mistake a *)
(* change to the code could make, kept to show that a property notices it.  *)
(***************************************************************************)
EXTENDS Integers, FiniteSets

CONSTANTS
    Spawned,   \* ids of the sessions made by /teammate and /worktree
    Main,      \* the session of the project directory itself
    None,      \* nothing
    Processes, \* those that reconcile: Terminal, and perhaps Daemon
    MaxRounds, \* bounds of the model: how often each of them does,
    MaxTasks   \* and tasks typed

Terminal == "terminal"
Daemon   == "daemon"

ASSUME StoreBounds == /\ Processes \subseteq {Terminal, Daemon}
                      /\ {MaxRounds, MaxTasks} \subseteq Nat

Sessions == Spawned \cup {Main}
Status   == {"Idle", "Running", "Ended", "Interrupted"}
Places   == {"project", "tree"}
\* SessionRecord: branch says whether worktree_branch is set.
Records  == [status : {"Idle", "Running", "Suspended", "Done"},
             place : Places, branch : BOOLEAN]
Blobs    == [status : Status, tabs : SUBSET Sessions]
Handles  == [place : Places, branch : BOOLEAN]
Runs     == [place : Places, phase : {"new", "working", "cancelled"}]
Jobs     == [step : {"off", "pick", "remove", "save"}, at : Sessions \cup {None},
             todo : [Sessions -> Records \cup {None}]]

ASSUME StoreNames == /\ Main \notin Spawned
                     /\ None \notin Sessions \cup Status \cup Records

VARIABLES
    record,  \* session_records of memory.db
    blob,    \* tui_state.json of each session
    tree,    \* the worktree of each session, which Main never has
    stage,   \* of the terminal: "down", "starting" or "up"
    handle,  \* its SessionRouter
    tabs,    \* state.sessions
    current, \* state.current_session_id
    view,    \* agent_run_status of the sessions that have a TuiState
    run,     \* the runs of its sessions
    closing, \* the session it is closing
    job,     \* the reconciliation of each process
    left,    \* how many more each may do
    tasks,   \* how many more tasks may be typed
    fate     \* history: whether the operator closed a session; "closing" stays
             \* when the process died at it

disk   == <<record, blob, tree>>
memory == <<handle, tabs, current, view, run, closing>>
vars   == <<disk, stage, memory, job, left, tasks, fate>>

-----------------------------------------------------------------------------
(* Reconciling. *)

Off == [step |-> "off", at |-> None, todo |-> [s \in Sessions |-> None]]

\* Only the sessions with a worktree are looked at.
MutStale == [s \in Sessions |->
               IF record[s] # None /\ record[s].status = "Running" /\ record[s].branch
               THEN [record[s] EXCEPT !.status = "Suspended"] ELSE None]
\* The records that say Running, as they are to be saved.
Stale == [s \in Sessions |->
            IF record[s] # None /\ record[s].status = "Running"
            THEN [record[s] EXCEPT !.status = "Suspended"] ELSE None]

\* The record keeps its worktree.
MutMovedBack(r) == r
\* The record is moved back to the project directory.
MovedBack(r) == [r EXCEPT !.place = "project", !.branch = FALSE]

InTree(r) == r.branch /\ r.place = "tree"

\* The daemon answers at the end, a terminal goes on with its start.
Reconciled(p) == job[p].step = "pick" /\ \A s \in Sessions : job[p].todo[s] = None

\* reconcile_stale_worktrees at the start of a terminal, or for peridot.status.
Begin(p) ==
    /\ left[p] > 0
    /\ job[p].step = "off" \/ (p = Daemon /\ Reconciled(p))
    /\ left' = [left EXCEPT ![p] = @ - 1]
    /\ job' = [job EXCEPT ![p] = [step |-> "pick", at |-> None, todo |-> Stale]]
    /\ IF p = Terminal THEN stage = "down" /\ stage' = "starting"
                       ELSE UNCHANGED stage
    /\ UNCHANGED <<disk, memory, tasks, fate>>

\* Every worktree that is there is taken for clean.
MutRemovable(s) == tree[s] # "none"
\* `git status` in the worktree lists nothing.
Removable(s) == tree[s] = "clean"

\* The next record: a worktree that is missing is forgotten, one that is clean
\* will be removed, unless `git status` fails; the rest stays as it is.
Inspect(p) ==
    /\ job[p].step = "pick"
    /\ \E s \in Sessions, step \in {"save", "remove"} :
        LET r       == job[p].todo[s]
            missing == InTree(r) /\ tree[s] = "none"
        IN  /\ r # None
            /\ step = "remove" => InTree(r) /\ Removable(s)
            /\ job' = [job EXCEPT ![p] =
                         [step |-> step, at |-> s,
                          todo |-> [@.todo EXCEPT ![s] =
                                      IF missing THEN MovedBack(r) ELSE r]]]
    /\ UNCHANGED <<disk, stage, memory, left, tasks, fate>>

\* `git worktree remove --force`, which may fail, and does when there is none.
Remove(p) ==
    /\ job[p].step = "remove"
    /\ LET s == job[p].at
       IN  \/ /\ tree[s] # "none"
              /\ tree' = [tree EXCEPT ![s] = "none"]
              /\ job' = [job EXCEPT ![p].step = "save",
                                    ![p].todo[s] = MovedBack(@)]
           \/ /\ UNCHANGED tree
              /\ job' = [job EXCEPT ![p].step = "save"]
    /\ UNCHANGED <<record, blob, stage, memory, left, tasks, fate>>

\* The record as it was read, over whatever it is by now.
Save(p) ==
    /\ job[p].step = "save"
    /\ LET s == job[p].at
       IN  /\ record' = [record EXCEPT ![s] = job[p].todo[s]]
           /\ job' = [job EXCEPT ![p].step = "pick", ![p].at = None,
                                 ![p].todo[s] = None]
    /\ UNCHANGED <<blob, tree, stage, memory, left, tasks, fate>>

-----------------------------------------------------------------------------
(* The start of a terminal. *)

Recorded == {s \in Sessions : record[s] # None /\ blob[s] # None}
\* The sessions it may restore: the latest, or any by --resume.
Restorable == {s \in Sessions : blob[s] # None}

Shared == [place |-> "project", branch |-> FALSE]
\* Every session is registered in the project directory.
MutRegistered(s) == IF s \in Recorded THEN Shared ELSE None
\* hydrate_persisted_sessions, for the sessions that have both.
Registered(s) == IF s \in Recorded
                 THEN [place |-> record[s].place, branch |-> record[s].branch]
                 ELSE None

Up(p, s, names, status) ==
    /\ p = Terminal /\ Reconciled(p) /\ stage' = "up"
    /\ job' = [job EXCEPT ![p] = Off]
    /\ current' = s
    /\ tabs' = names \cup Recorded
    /\ handle' = [x \in Sessions |->
                    IF x = s /\ s \notin Recorded THEN Shared ELSE Registered(x)]
    /\ view' = [x \in Sessions |-> IF x = s THEN status ELSE None]
    /\ UNCHANGED <<disk, run, closing, left, tasks>>

\* The state is shown as it was saved.
Restore(p) ==
    \E s \in Restorable :
        /\ Up(p, s, blob[s].tabs, blob[s].status)
        /\ fate' = IF fate[s] = "closed" THEN [fate EXCEPT ![s] = "open"] ELSE fate

\* There is nothing to restore: a session with a new id, which takes the name
\* of an earlier one here.
Fresh(p) ==
    /\ Recorded = {} /\ Up(p, Main, {Main}, "Idle")
    /\ fate' = [fate EXCEPT ![Main] = "open"]

-----------------------------------------------------------------------------
(* The terminal at work. *)

AtWork == stage = "up" /\ closing = None
Keeps  == UNCHANGED <<stage, job, left, fate>>

\* /teammate and /worktree.  Nothing is recorded until the session is shown.
Spawn(s) ==
    /\ AtWork /\ fate[s] = "open" /\ s \notin tabs
    /\ tree[s] = "none" /\ record[s] = None /\ blob[s] = None
    /\ tree' = [tree EXCEPT ![s] = "clean"]
    /\ handle' = [handle EXCEPT ![s] = [place |-> "tree", branch |-> TRUE]]
    /\ tabs' = tabs \cup {s}
    /\ run' = [run EXCEPT ![s] = [place |-> "tree", phase |-> "new"]]
    /\ UNCHANGED <<record, blob, current, view, closing, tasks>> /\ Keeps

\* on_submit: the run is given the project directory, in a spawned session too.
Submit ==
    /\ AtWork /\ current # None /\ tasks > 0
    /\ run[current] = None /\ view[current] # "Running"
    /\ tasks' = tasks - 1
    /\ run' = [run EXCEPT ![current] = [place |-> "project", phase |-> "new"]]
    /\ UNCHANGED <<disk, handle, tabs, current, view, closing>> /\ Keeps

\* An event changes the status of a session that has been shown.
Shows(s, status) == view' = IF view[s] = None THEN view ELSE [view EXCEPT ![s] = status]

Started(s) ==
    /\ run[s] # None /\ run[s].phase = "new"
    /\ run' = [run EXCEPT ![s].phase = "working"] /\ Shows(s, "Running")
    /\ UNCHANGED <<disk, handle, tabs, current, closing, tasks>> /\ Keeps

\* A tool of the run edits, or commits, in the worktree, while it is there.
Work(s) ==
    /\ run[s] # None /\ run[s].phase # "new" /\ run[s].place = "tree"
    /\ tree[s] # "none"
    /\ \E t \in {"clean", "dirty"} \ {tree[s]} : tree' = [tree EXCEPT ![s] = t]
    /\ UNCHANGED <<record, blob, memory, tasks>> /\ Keeps

End(s) ==
    /\ run[s] # None
    /\ run' = [run EXCEPT ![s] = None]
    /\ Shows(s, IF run[s].phase = "cancelled" THEN "Interrupted" ELSE "Ended")
    /\ UNCHANGED <<disk, handle, tabs, current, closing, tasks>> /\ Keeps

Cancelled(s) == IF run[s] = None THEN run ELSE [run EXCEPT ![s].phase = "cancelled"]

\* Esc.
Interrupt ==
    /\ AtWork /\ current # None /\ view[current] = "Running"
    /\ handle[current] # None /\ run' = Cancelled(current)
    /\ UNCHANGED <<disk, handle, tabs, current, view, closing, tasks>> /\ Keeps

\* A session is picked from the list: one not shown before gets a new state.
Switch(s) ==
    /\ AtWork /\ s \in tabs \ {current}
    /\ current' = s
    /\ view' = IF view[s] = None THEN [view EXCEPT ![s] = "Idle"] ELSE view
    /\ UNCHANGED <<disk, handle, tabs, run, closing, tasks>> /\ Keeps

-----------------------------------------------------------------------------
(* Saving, closing, dying. *)

\* lifecycle_from_status.
Lifecycle(status) == CASE status = "Idle" -> "Idle"
                       [] status = "Running" -> "Running"
                       [] status = "Ended" -> "Done"
                       [] status = "Interrupted" -> "Suspended"

Written == [blob EXCEPT ![current] = [status |-> view[current], tabs |-> tabs]]

\* persist_session_snapshot: the session shown; a record only with a handle.
Persist ==
    /\ AtWork /\ current # None
    /\ blob' = Written
    /\ record' = IF handle[current] = None THEN record
                 ELSE [record EXCEPT ![current] =
                         [status |-> Lifecycle(view[current]),
                          place  |-> handle[current].place,
                          branch |-> handle[current].branch]]
    /\ UNCHANGED <<tree, memory, tasks>> /\ Keeps

\* /session close: cancel, close the handle, remove the worktree ...
Close(s) ==
    /\ AtWork /\ s \in tabs /\ handle[s] # None
    /\ closing' = s
    /\ run' = Cancelled(s)
    /\ handle' = [handle EXCEPT ![s] = None]
    /\ \/ UNCHANGED tree
       \/ /\ InTree(handle[s]) /\ tree[s] # "none"
          /\ tree' = [tree EXCEPT ![s] = "none"]
    /\ fate' = [fate EXCEPT ![s] = "closing"]
    /\ UNCHANGED <<record, blob, tabs, current, view, tasks, stage, job, left>>

\* The record stays.
MutDelete ==
    /\ closing # None
    /\ closing' = None
    /\ fate' = [fate EXCEPT ![closing] = "closed"]
    /\ tabs' = tabs \ {closing}
    /\ blob' = [blob EXCEPT ![closing] = None]
    /\ current' \in IF current # closing THEN {current}
                    ELSE IF \A s \in Sessions : handle[s] = None THEN {None}
                    ELSE {s \in Sessions : handle[s] # None}
    /\ view' = IF current' # None /\ view[current'] = None
               THEN [view EXCEPT ![current'] = "Idle"] ELSE view
    /\ UNCHANGED <<record, tree, stage, handle, run, job, left, tasks>>
\* ... and then its record and files; the foreground of the router is shown.
Delete ==
    /\ closing # None
    /\ closing' = None
    /\ fate' = [fate EXCEPT ![closing] = "closed"]
    /\ tabs' = tabs \ {closing}
    /\ record' = [record EXCEPT ![closing] = None]
    /\ blob' = [blob EXCEPT ![closing] = None]
    /\ current' \in IF current # closing THEN {current}
                    ELSE IF \A s \in Sessions : handle[s] = None THEN {None}
                    ELSE {s \in Sessions : handle[s] # None}
    /\ view' = IF current' # None /\ view[current'] = None
               THEN [view EXCEPT ![current'] = "Idle"] ELSE view
    /\ UNCHANGED <<tree, stage, handle, run, job, left, tasks>>

\* The terminal is quit or dies, at any moment, its runs with it; it may have
\* written tui_state.json and not the record.
Die ==
    /\ stage # "down" /\ stage' = "down"
    /\ \/ UNCHANGED blob
       \/ /\ AtWork /\ current # None
          /\ blob' = Written
    /\ handle' = [s \in Sessions |-> None] /\ tabs' = {} /\ current' = None
    /\ view' = [s \in Sessions |-> None] /\ run' = [s \in Sessions |-> None]
    /\ closing' = None
    /\ job' = [job EXCEPT ![Terminal] = Off]
    /\ UNCHANGED <<record, tree, left, tasks, fate>>

-----------------------------------------------------------------------------

Init ==
    /\ record = [s \in Sessions |-> None] /\ blob = record
    /\ tree = [s \in Sessions |-> "none"]
    /\ stage = "down" /\ handle = record /\ tabs = {} /\ current = None
    /\ view = record /\ run = record /\ closing = None
    /\ job = [p \in Processes |-> Off] /\ left = [p \in Processes |-> MaxRounds]
    /\ tasks = MaxTasks /\ fate = [s \in Sessions |-> "open"]

Reconcile(p) == Begin(p) \/ Inspect(p) \/ Remove(p) \/ Save(p)
Opening(p)   == Restore(p) \/ Fresh(p)
RunStep      == \/ \E s \in Sessions : Started(s) \/ End(s)
                \/ \E s \in Spawned : Work(s)
Operator     == \/ Submit \/ Interrupt
                \/ \E s \in Spawned : Spawn(s)
                \/ \E s \in Sessions : Switch(s) \/ Close(s)

Next == \/ \E p \in Processes : Reconcile(p) \/ Opening(p)
        \/ RunStep \/ Operator \/ Persist \/ Delete \/ Die

Spec == Init /\ [][Next]_vars
-----------------------------------------------------------------------------
(* Properties. *)

\* Every variable has its type: SessionRecord, TuiState and SessionHandle hold
\* what the code puts in them.
TypeOK ==
    /\ record \in [Sessions -> Records \cup {None}]
    /\ blob \in [Sessions -> Blobs \cup {None}]
    /\ tree \in [Sessions -> {"none", "clean", "dirty"}]
    /\ stage \in {"down", "starting", "up"}
    /\ handle \in [Sessions -> Handles \cup {None}]
    /\ tabs \in SUBSET Sessions
    /\ {current, closing} \subseteq Sessions \cup {None}
    /\ view \in [Sessions -> Status \cup {None}]
    /\ run \in [Sessions -> Runs \cup {None}]
    /\ job \in [Processes -> Jobs]
    /\ left \in [Processes -> 0..MaxRounds] /\ tasks \in 0..MaxTasks
    /\ fate \in [Sessions -> {"open", "closing", "closed"}]

\* reconcile_record_worktree: changes that are not committed leave a worktree
\* by the hand of its run, or with the session the operator closes.
ChangesKept ==
    [][\A s \in Spawned :
          tree[s] = "dirty" /\ tree'[s] = "none" => closing' = s]_vars

\* A record that names a worktree which is gone will be put right: it says
\* Running, so the next start looks at it, or the closing of its session is
\* about to delete it, or died at that.
GoneIsNoticed ==
    \A s \in Spawned :
        record[s] # None /\ InTree(record[s]) /\ tree[s] = "none" =>
            \/ record[s].status = "Running"
            \/ fate[s] = "closing"

\* A worktree that some record names is never forgotten while it is there, but
\* when its session is closed and git refuses to remove it.
TreeStaysNamed ==
    [][\A s \in Spawned :
          record[s] # None /\ InTree(record[s]) /\ tree'[s] # "none" =>
              \/ record'[s] # None /\ InTree(record'[s])
              \/ closing = s]_vars

\* A worktree with changes is neither removed nor forgotten, but by closing its session.
TreesKept == ChangesKept /\ TreeStaysNamed

\* delete_persisted_session: a session that was closed is not recorded again,
\* by a snapshot, a reconciliation or a later start, unless it is resumed by id.
ClosedStaysClosed == \A s \in Sessions : fate[s] = "closed" => record[s] = None

\* The startup leaves no record that says Running: every later one is of a
\* session of this terminal.
StartsReconciled ==
    [][stage = "starting" /\ stage' = "up" =>
          \A s \in Sessions : record'[s] # None => record'[s].status # "Running"]_vars

\* worktree_cleanup.rs: only what an unclean shutdown left is removed, never
\* the worktree of a run that is at work.
LiveTreeStays ==
    [][\A s \in Spawned :
          /\ run[s] # None /\ run[s].place = "tree" /\ closing' # s
          /\ tree[s] # "none"
          => tree'[s] # "none"]_vars
=============================================================================
