------------------------------- MODULE Editor -------------------------------
(***************************************************************************)
(* The editor extension: chats in a sidebar, the runs the extension host    *)
(* tracks for them, and one daemon it talks to over two pipes.              *)
(*                                                                          *)
(* The host is single-threaded: a handler runs up to the point where it     *)
(* awaits an answer of the daemon and goes on when the line with the answer *)
(* is handled.  Between the two the user may do anything, and what the      *)
(* handler then calls `the active chat` may be another one.  Sessions are   *)
(* the daemon's: the host learns the id of a session from the answer to     *)
(* session.start, and routes every later event by it.                       *)
(*                                                                          *)
(* Of the daemon only what the host can see is here: the order in which it  *)
(* answers, announces the list of sessions and sends the events that end a  *)
(* run (module Daemon has the rest).  Of a chat: its session, whether it is *)
(* shown as running, and the tasks in its transcript; the draft has none of *)
(* them.  Left out: approvals and questions, and the events that only add   *)
(* to a transcript.                                                         *)
(*                                                                          *)
(* A definition MutXxx is not part of the model: it is Xxx with a mistake a *)
(* change to the code could make, kept to show that a property notices it.  *)
(***************************************************************************)
EXTENDS Integers, Sequences, FiniteSets, SequencesExt

CONSTANTS
    Chats, NoChat,  \* chats of the sidebar; NoChat is the draft
    MaxRuns,        \* bound of the model: tasks that are ever started
    MaxQueued,      \* bound of the model: messages that are ever queued
    MaxUnread       \* bound of the model: lines in a pipe when more is written

ASSUME EditorNamesAssumption == NoChat \notin Chats
ASSUME EditorBoundsAssumption == {MaxRuns, MaxQueued, MaxUnread} \subseteq Nat

\* A run is one call of runTask; a session has the number of the run it was
\* made for.
Runs      == 1..MaxRuns
NoRun     == 0
NoSession == 0
NoTask    == 0
\* Where runTask is: waiting for a daemon; for the answer to session.start; for
\* an answer of a daemon that was let go; done.
Steps == {"unused", "opening", "sent", "orphan", "over"}

VARIABLES
    chats, active,                \* PeridotSidebarProvider: sessions, activeChatId
    session, shown, transcript,   \* of a chat: daemonSessionId, running, transcript
    step, of, asked, known,       \* a run: its chat, the session it continues, and
                                  \* ActiveRun.sessionId
    tracked,                      \* WorkspaceRun.activeRuns
    up, keepAlive, spawns,        \* workspaceRun, its keepAlive, and the spawns in
                                  \* progress
    daemons,                      \* daemon processes nobody told to stop
    queue, due, typed, handed,    \* state.queue, queueDispatchTimer; how many were
                                  \* typed, which were handed to runTask
    requests, lines,              \* the daemon's stdin and stdout
    live, closing, stored         \* the daemon's sessions: running, of these those
                                  \* whose agent is done, and all it has a record of

sidebar == <<chats, active, session, shown, transcript>>
calls   == <<step, of, asked, known>>
host    == <<tracked, up, keepAlive, spawns, daemons>>
tasks   == <<queue, due, typed, handed>>
pipes   == <<requests, lines>>
daemon  == <<live, closing, stored>>
vars    == <<sidebar, calls, host, tasks, pipes, daemon>>

Unused  == {r \in Runs : step[r] = "unused"}
Opening == {r \in Runs : step[r] = "opening"}

\* The requests, with what the host will do when it has the answer, and the lines.
StartOf(r)         == [kind |-> "start", run |-> r, session |-> asked[r], chat |-> of[r]]
Request(k, s, c)   == [kind |-> k, run |-> NoRun, session |-> s, chat |-> c]
Answer(q, ok, s)   == [kind |-> "answer", to |-> q, ok |-> ok, session |-> s]
Ended(s)           == [kind |-> "ended", session |-> s]
Listed(S, L)       == [kind |-> "list", all |-> S, live |-> L]

\* A rejected promise goes on before the user can do anything.
Settled == up \/ lines = <<>>

Put(f, X, v) == [c \in Chats |-> IF c \in X THEN v ELSE f[c]]

\* The numbers of a set, in their order: the one sequence there is.
InOrder(S) == {s \in [1..Cardinality(S) -> S] : \A i, j \in DOMAIN s : i < j => s[i] < s[j]}

-----------------------------------------------------------------------------
(* The sidebar. *)

Fresh == {c \in Chats \ chats : \A r \in Runs : of[r] # c}

\* The chat ensureActiveSession answers: the active one or a new one.
Current == IF active \in chats THEN {active} ELSE Fresh

\* The chat a message for chat c ends up in.
Target(c) == IF c \in chats THEN c ELSE active

\* The chat whose tracked run has session s.
ChatsOf(s) == {c \in Chats : tracked[c] # NoRun /\ known[tracked[c]] = s /\ s # NoSession}

\* currentActiveRun, and singleActiveRun when there is none: the chats of the run.
CurrentRun == IF active \notin chats THEN {}
              ELSE IF tracked[active] # NoRun THEN {active} ELSE ChatsOf(session[active])
AnyRun     == LET C == {c \in Chats : tracked[c] # NoRun}
              IN  IF CurrentRun # {} THEN CurrentRun
                  ELSE IF \E c \in C : C = {c} THEN C ELSE {}

\* When the active chat is one of X the view moves on, to one of S if there is one.
Moved(X, S) == IF active \notin X THEN active' = active
               ELSE active' \in IF S = {} THEN {NoChat} ELSE S

\* deleteSession.
Dropped(c) ==
    /\ chats' = chats \ {c} /\ Moved({c}, chats')
    /\ session' = Put(session, {c}, NoSession) /\ shown' = Put(shown, {c}, FALSE)
    /\ transcript' = Put(transcript, {c}, {})

\* reconcileDaemonSessions: a chat for every session of the list, and none for a
\* session that is not in it.  (Bound of the model: no chats are made when the
\* names run out.)
Reconciled(all, running) ==
    LET pruned  == {c \in chats : session[c] \notin all \cup {NoSession}}
        unknown == {s \in all : \A c \in chats : session[c] # s}
        Named   == {f \in [unknown -> Fresh] : \A s, t \in unknown : f[s] = f[t] => s = t}
    IN  \E f \in IF Named = {} THEN {[s \in {} |-> NoChat]} ELSE Named :
          /\ chats' = (chats \ pruned) \cup {f[s] : s \in DOMAIN f}
          /\ Moved(pruned, chats')
          /\ session' = [c \in Chats |-> IF c \in pruned THEN NoSession
                         ELSE IF \E s \in DOMAIN f : f[s] = c THEN CHOOSE s \in DOMAIN f : f[s] = c
                         ELSE session[c]]
          /\ shown' = [c \in Chats |-> IF session'[c] = NoSession THEN shown[c] /\ c \notin pruned
                                       ELSE session'[c] \in running]
          /\ transcript' = Put(transcript, pruned, {})

\* clearActiveSession.  (The same bound.)
Cleared ==
    \/ \E c \in Current :
          /\ chats' = chats \cup {c} /\ active' = c
          /\ session' = Put(session, {c}, NoSession) /\ shown' = Put(shown, {c}, FALSE)
          /\ transcript' = Put(transcript, {c}, {})
    \/ Current = {} /\ UNCHANGED sidebar

\* The user picks a chat, or opens a new one (loadDraftSessionIntoState).
Select == \E c \in chats \cup {NoChat} :
    /\ Settled /\ active' = c
    /\ UNCHANGED <<chats, session, shown, transcript, calls, host, tasks, pipes, daemon>>

-----------------------------------------------------------------------------
(* The workspace daemon. *)

\* Every caller that finds no daemon spawns one.
MutEnsure == spawns' = spawns + 1
\* ensureWorkspaceRun, when there is no daemon: callers share the spawn.
Ensure    == spawns' = IF spawns = 0 THEN 1 ELSE spawns

\* spawnWorkspaceRun has its process: it subscribes to the list of sessions, and
\* the runs that waited for it go on, a later one of a chat in the earlier one's
\* place.
Opened ==
    /\ spawns > 0 /\ spawns' = spawns - 1 /\ daemons' = daemons + 1
    /\ up' = TRUE /\ keepAlive' = FALSE
    /\ \E rs \in InOrder(Opening) :
         requests' = <<Request("subscribe", NoSession, NoChat)>>
                     \o [i \in DOMAIN rs |-> StartOf(rs[i])]
    /\ step' = [r \in Runs |-> IF r \in Opening THEN "sent" ELSE step[r]]
    /\ tracked' = [c \in Chats |-> LET mine == {r \in Opening : of[r] = c}
                                   IN  IF mine = {} THEN tracked[c] ELSE Max(mine)]
    /\ lines' = <<>>
    /\ UNCHANGED <<sidebar, of, asked, known, tasks, daemon>>

\* The runs are left waiting.
MutOpenFails == /\ spawns > 0 /\ spawns' = spawns - 1
                /\ UNCHANGED <<sidebar, calls, tracked, up, keepAlive, daemons, tasks, pipes, daemon>>
\* There is no process: the runs that waited are told so.
OpenFails ==
    /\ spawns > 0 /\ spawns' = spawns - 1
    /\ \E rs \in InOrder(Opening) :
         lines' = [i \in DOMAIN rs |-> Answer(StartOf(rs[i]), FALSE, NoSession)]
    /\ UNCHANGED <<sidebar, calls, tracked, up, keepAlive, daemons, tasks, requests, daemon>>

\* What the host still waits for of the kinds K: an answer that was not read, and
\* a request that was not answered.
UnreadAt(ls, K) == {i \in DOMAIN ls : ls[i].kind = "answer" /\ ls[i].to.kind \in K}
OpenAt(K)       == {i \in DOMAIN requests : requests[i].kind \in K}

\* What was not read of the answers is forgotten with the pipe.
MutRejected(ls, K) ==
    \E qs \in InOrder(OpenAt(K)) :
        lines' = [i \in DOMAIN qs |-> Answer(requests[qs[i]], FALSE, NoSession)]
\* rejectAll: what was asked of the daemon and not answered, of the kinds K.
Rejected(ls, K) ==
    \E as \in InOrder(UnreadAt(ls, K)), qs \in InOrder(OpenAt(K)) :
        lines' = [i \in DOMAIN as |-> Answer(ls[as[i]].to, FALSE, NoSession)]
                 \o [i \in DOMAIN qs |-> Answer(requests[qs[i]], FALSE, NoSession)]
UiKinds == {"cancel", "delete", "clear", "clearing"}

\* finishRunByClient: the chats of C have no run any more, and a daemon nobody
\* uses and that is not kept alive is let go.  ls are the lines that are left, st
\* where the runs are.
Untrack(C, ls, st) ==
    IF up /\ ~keepAlive /\ \A c \in Chats \ C : tracked[c] = NoRun
    THEN /\ up' = FALSE /\ daemons' = daemons - 1 /\ tracked' = [c \in Chats |-> NoRun]
         /\ step' = [r \in Runs |-> IF st[r] = "sent" THEN "orphan" ELSE st[r]]
         /\ Rejected(ls, UiKinds) /\ requests' = <<>>
         /\ live' = {} /\ closing' = {}
         /\ UNCHANGED <<keepAlive, spawns, stored>>
    ELSE /\ tracked' = Put(tracked, C, NoRun) /\ step' = st /\ lines' = ls
         /\ UNCHANGED <<up, keepAlive, spawns, daemons, requests, daemon>>

\* The daemon dies: every run it had is failed, every promise rejected.
Exit ==
    /\ up /\ up' = FALSE /\ keepAlive' = FALSE /\ daemons' = daemons - 1
    /\ tracked' = [c \in Chats |-> NoRun]
    /\ shown' = Put(shown, {Target(c) : c \in {x \in Chats : tracked[x] # NoRun}}, FALSE)
    /\ Rejected(lines, UiKinds \cup {"start"}) /\ requests' = <<>>
    /\ live' = {} /\ closing' = {}
    /\ UNCHANGED <<chats, active, session, transcript, calls, spawns, tasks, stored>>

-----------------------------------------------------------------------------
(* Tasks. *)

\* runTask and prepareForTask, in a chat that has no tracked run: the task is shown
\* in the chat before anything is known of the daemon.
RunTask ==
    \E r \in Unused, c \in Current :
        /\ \A q \in Unused : r <= q
        /\ tracked[c] = NoRun
        /\ chats' = chats \cup {c} /\ active' = c
        /\ shown' = Put(shown, {c}, TRUE)
        /\ transcript' = Put(transcript, {c}, transcript[c] \cup {r})
        /\ of' = [of EXCEPT ![r] = c] /\ asked' = [asked EXCEPT ![r] = session[c]]
        /\ IF up THEN /\ step' = [step EXCEPT ![r] = "sent"]
                      /\ tracked' = Put(tracked, {c}, r)
                      /\ requests' = Append(requests, StartOf(r)')
                      /\ UNCHANGED spawns
                 ELSE /\ step' = [step EXCEPT ![r] = "opening"]
                      /\ Ensure /\ UNCHANGED <<tracked, requests>>
        /\ UNCHANGED <<session, known, up, keepAlive, daemons, lines, daemon>>

UserRun == Settled /\ RunTask /\ UNCHANGED tasks

\* A message typed in a chat that is shown as running.
QueueAdd ==
    /\ Settled /\ active \in chats /\ shown[active] /\ typed < MaxQueued
    /\ typed' = typed + 1 /\ queue' = Append(queue, typed')
    /\ UNCHANGED <<sidebar, calls, host, due, handed, pipes, daemon>>

\* The message stays in the queue.
MutDrainQueue == /\ due' = IF queue = <<>> THEN due ELSE Head(queue)
                 /\ UNCHANGED <<queue, typed, handed>>
\* drainQueue: the timer is set for the first message, the timer that was set
\* before is cleared.
DrainQueue == /\ due' = IF queue = <<>> THEN due ELSE Head(queue)
              /\ queue' = IF queue = <<>> THEN queue ELSE Tail(queue)
              /\ UNCHANGED <<typed, handed>>

\* The timer: the message is run in the chat that is shown by now, or refused with
\* a warning when that chat has a run.
Dispatch ==
    /\ Settled /\ due # NoTask /\ due' = NoTask /\ handed' = Append(handed, due)
    /\ UNCHANGED <<queue, typed>>
    /\ \/ RunTask
       \/ active \in chats /\ tracked[active] # NoRun /\ UNCHANGED <<sidebar, calls, host, pipes, daemon>>

-----------------------------------------------------------------------------
(* What else the user asks of the daemon.  Bound of the model: one thing at a *)
(* time.                                                                     *)

Asks(q) ==
    /\ \A p \in ToSet(requests) : p.kind \notin UiKinds
    /\ \A l \in ToSet(lines) : l.kind = "answer" => l.to.kind \notin UiKinds
    /\ requests' = Append(requests, q)
    /\ UNCHANGED <<sidebar, calls, host, tasks, lines, daemon>>

\* cancelTask: before the session is known the run is only forgotten.
Cancel ==
    /\ Settled
    /\ \E c \in CurrentRun :
         IF known[tracked[c]] # NoSession
         THEN Asks(Request("cancel", known[tracked[c]], c))
         ELSE /\ Untrack({c}, lines, step) /\ shown' = Put(shown, {active}, FALSE)
              /\ UNCHANGED <<chats, active, session, transcript, of, asked, known, tasks>>

\* deleteSession of the sidebar.
Delete ==
    /\ Settled
    /\ \E c \in chats :
         LET s == IF tracked[c] # NoRun /\ known[tracked[c]] # NoSession
                  THEN known[tracked[c]] ELSE session[c]
         IN  IF s # NoSession /\ up THEN Asks(Request("delete", s, c))
             ELSE /\ Untrack({c}, lines, step) /\ Dropped(c)
                  /\ UNCHANGED <<of, asked, known, tasks>>

\* /clear of the chat that is shown.
Clear ==
    /\ Settled /\ up
    /\ LET S == {known[tracked[c]] : c \in CurrentRun} \ {NoSession}
           s == IF active \in chats THEN session[active] ELSE NoSession
       IN  \E t \in IF S # {} THEN S ELSE {s} : Asks(Request("clear", t, active))

-----------------------------------------------------------------------------
(* The lines of the daemon. *)

\* The run whose event it is stays tracked.
MutFinishRunBySession(s, rest) == Untrack({}, rest, step)
FinishRunBySession(s, rest)    == Untrack(ChatsOf(s), rest, step)

\* An event that ends a run: it is shown in the run's chat, or in the active one
\* when no tracked run has that session.
OnEnded(l, rest) ==
    /\ shown' = Put(shown, IF ChatsOf(l.session) = {} THEN {active}
                           ELSE {Target(c) : c \in ChatsOf(l.session)}, FALSE)
    /\ FinishRunBySession(l.session, rest)
    /\ DrainQueue
    /\ UNCHANGED <<chats, active, session, transcript, of, asked, known>>

\* The answer to session.start; one that comes after the time-out is dropped.
OnStarted(l, rest) ==
    LET r == l.to.run
        c == Target(of[r])
    IN  /\ lines' = rest
        /\ IF step[r] = "sent"
           THEN /\ step' = [step EXCEPT ![r] = "over"]
                /\ known' = [known EXCEPT ![r] = l.session]
                /\ session' = Put(session, {c}, l.session)
           ELSE UNCHANGED <<step, known, session>>
        /\ UNCHANGED <<chats, active, shown, transcript, of, asked, host, tasks, requests, daemon>>

\* session.start failed: the error is shown in the active chat.
StartFailed(r, rest) ==
    /\ Untrack({of[r]}, rest, [step EXCEPT ![r] = "over"])
    /\ shown' = Put(shown, {active}, FALSE)
    /\ UNCHANGED <<chats, active, session, transcript, of, asked, known, tasks>>

OnRefused(l, rest) ==
    IF step[l.to.run] \in {"sent", "opening"} THEN StartFailed(l.to.run, rest)
    ELSE lines' = rest /\ UNCHANGED <<sidebar, calls, host, tasks, requests, daemon>>

\* The answer to a cancel.
OnCancelled(l, rest) ==
    /\ IF l.ok THEN Untrack({l.to.chat}, rest, step) /\ shown' = Put(shown, {active}, FALSE)
               ELSE lines' = rest /\ UNCHANGED <<shown, step, host, requests, daemon>>
    /\ UNCHANGED <<chats, active, session, transcript, of, asked, known, tasks>>

\* The answer to the cancel of a deleted chat.
OnDeleted(l, rest) ==
    /\ Untrack({l.to.chat}, rest, step) /\ Dropped(l.to.chat)
    /\ UNCHANGED <<of, asked, known, tasks>>

\* The answer to /clear: when the daemon had nothing to clear, the run of the chat,
\* or the only one there is, is cancelled first; then the chat that is active by
\* now is wiped.
OnCleared(l, rest) ==
    LET C == {c \in AnyRun : known[tracked[c]] # NoSession}
    IN  IF ~l.ok
        THEN /\ shown' = Put(shown, {active}, FALSE) /\ lines' = rest
             /\ UNCHANGED <<chats, active, session, transcript, calls, host, tasks, requests, daemon>>
        ELSE IF l.session = NoSession /\ C # {}
        THEN /\ \E c \in C :
                  requests' = Append(requests, Request("clearing", known[tracked[c]], c))
             /\ lines' = rest /\ UNCHANGED <<sidebar, calls, host, tasks, daemon>>
        ELSE Cleared /\ lines' = rest /\ UNCHANGED <<calls, host, tasks, requests, daemon>>

OnClearing(l, rest) ==
    Untrack({l.to.chat}, rest, step) /\ Cleared /\ UNCHANGED <<of, asked, known, tasks>>

OnList(l, rest) ==
    /\ Reconciled(l.all, l.live) /\ lines' = rest
    /\ UNCHANGED <<calls, host, tasks, requests, daemon>>

\* session.subscribe_list is answered; the list in the answer is the next line.
OnSubscribed(l, rest) ==
    /\ keepAlive' = TRUE /\ lines' = rest
    /\ UNCHANGED <<sidebar, calls, tracked, up, spawns, daemons, tasks, requests, daemon>>

OnAnswer(l, rest) ==
    \/ l.to.kind = "subscribe" /\ OnSubscribed(l, rest)
    \/ l.to.kind = "start" /\ l.ok /\ OnStarted(l, rest)
    \/ l.to.kind = "start" /\ ~l.ok /\ OnRefused(l, rest)
    \/ l.to.kind = "cancel" /\ OnCancelled(l, rest)
    \/ l.to.kind = "delete" /\ OnDeleted(l, rest)
    \/ l.to.kind = "clear" /\ OnCleared(l, rest)
    \/ l.to.kind = "clearing" /\ OnClearing(l, rest)

HandleLine ==
    /\ lines # <<>>
    /\ LET l == Head(lines)
           rest == Tail(lines)
       IN  \/ l.kind = "ended" /\ OnEnded(l, rest)
           \/ l.kind = "list" /\ OnList(l, rest)
           \/ l.kind = "answer" /\ OnAnswer(l, rest)

\* No answer to session.start in time.
TimeOut(r) == Settled /\ step[r] = "sent" /\ StartFailed(r, lines)

\* The daemon that was let go answered, or ended without an answer.
OrphanAnswer(r) ==
    /\ Settled /\ step[r] = "orphan"
    /\ \/ /\ step' = [step EXCEPT ![r] = "over"] /\ stored' = stored \cup {r}
          /\ known' = [known EXCEPT ![r] = r] /\ session' = Put(session, {Target(of[r])}, r)
          /\ asked[r] = NoSession
          /\ UNCHANGED <<chats, active, shown, transcript, of, asked, host, tasks, pipes, live, closing>>
       \/ StartFailed(r, lines)

-----------------------------------------------------------------------------
(* The daemon, as the host sees it. *)

Says(ls) == Len(lines) < MaxUnread /\ lines' = lines \o ls

Stops(s)    == live' = live \ {s} /\ closing' = closing \ {s}

\* session.start without resume: a session that has a record is refused.
Accepts(q) ==
    LET s == IF q.session = NoSession THEN q.run ELSE q.session
    IN  IF q.session \in stored
        THEN Says(<<Answer(q, FALSE, NoSession)>>) /\ UNCHANGED daemon
        ELSE /\ live' = live \cup {s} /\ stored' = stored \cup {s} /\ UNCHANGED closing
             /\ Says(<<Answer(q, TRUE, s), Listed(stored', live')>>)

\* session.cancel: the agent may still have said that it ended.
Cancels(q) ==
    IF q.session \notin live
    THEN Says(<<Answer(q, FALSE, NoSession)>>) /\ UNCHANGED daemon
    ELSE /\ Stops(q.session) /\ UNCHANGED stored
         /\ \E late \in {<<>>, <<Ended(q.session)>>} :
                Says(late \o <<Answer(q, TRUE, q.session), Listed(stored, live')>>)

\* /clear: the session is cancelled and its record deleted; the list is announced
\* before the answer.
Wipes(q) ==
    IF q.session \notin stored
    THEN Says(<<Answer(q, TRUE, NoSession)>>) /\ UNCHANGED daemon
    ELSE /\ Stops(q.session) /\ stored' = stored \ {q.session}
         /\ Says(<<Listed(stored', live'), Answer(q, TRUE, q.session)>>)

Reads ==
    /\ up /\ requests # <<>> /\ requests' = Tail(requests)
    /\ LET q == Head(requests)
       IN  \/ q.kind = "subscribe" /\ UNCHANGED daemon
              /\ Says(<<Answer(q, TRUE, NoSession), Listed(stored, live)>>)
           \/ q.kind = "start" /\ Accepts(q)
           \/ q.kind \in {"cancel", "delete", "clearing"} /\ Cancels(q)
           \/ q.kind = "clear" /\ Wipes(q)
    /\ UNCHANGED <<sidebar, calls, host, tasks>>

\* The agent's own Finished event.
AgentDone(s) ==
    /\ s \in live \ closing /\ closing' = closing \cup {s} /\ Says(<<Ended(s)>>)
    /\ UNCHANGED <<sidebar, calls, host, tasks, requests, live, stored>>

\* The daemon's: finished after the agent's, or error without it.
SessionEnds(s) ==
    /\ s \in live /\ Stops(s) /\ Says(<<Ended(s), Listed(stored, live')>>)
    /\ UNCHANGED <<sidebar, calls, host, tasks, requests, stored>>

-----------------------------------------------------------------------------
Init ==
    /\ chats = {} /\ active = NoChat
    /\ session = [c \in Chats |-> NoSession] /\ shown = [c \in Chats |-> FALSE]
    /\ transcript = [c \in Chats |-> {}]
    /\ step = [r \in Runs |-> "unused"] /\ of = [r \in Runs |-> NoChat]
    /\ asked = [r \in Runs |-> NoSession] /\ known = [r \in Runs |-> NoSession]
    /\ tracked = [c \in Chats |-> NoRun] /\ up = FALSE /\ keepAlive = FALSE
    /\ spawns = 0 /\ daemons = 0
    /\ queue = <<>> /\ due = NoTask /\ typed = 0 /\ handed = <<>>
    /\ requests = <<>> /\ lines = <<>>
    /\ live = {} /\ closing = {} /\ stored = {}

UserStep   == Select \/ UserRun \/ QueueAdd \/ Cancel \/ Delete \/ Clear
HostStep   == Opened \/ OpenFails \/ Dispatch \/ HandleLine
              \/ \E r \in Runs : TimeOut(r) \/ OrphanAnswer(r)
DaemonStep == Exit \/ Reads \/ \E s \in Runs : AgentDone(s) \/ SessionEnds(s)

Next == UserStep \/ HostStep \/ DaemonStep

Spec == Init /\ [][Next]_vars

-----------------------------------------------------------------------------
(* Properties. *)

\* A chat is never stuck with a run that is gone: while activeRuns has a run, its
\* session.start waits for an answer, or its session is live, or a line is on its
\* way that takes the run out.  (Runs are routed by a session id that is learnt
\* late, and runTask refuses a chat whose run is still there.)  But for /clear: the
\* host does not cancel what the daemon cancelled, nor does it forget the run of the
\* chat it wipes, which may be another one by the time of the answer; and a task may
\* start the wiped session again, after which several runs go by its id.
Releases(l, c, s) ==
    \/ l.kind = "ended" /\ l.session = s
    \/ l.kind = "answer" /\ l.ok /\ l.to.kind \in {"cancel", "delete", "clearing"} /\ l.to.chat = c
StartedAgain(s) == \E q \in Runs : asked[q] = s
NoRunStuck ==
    \A c \in chats : LET r == tracked[c] IN
        r # NoRun => \/ step[r] = "sent"
                     \/ known[r] \in live
                     \/ known[r] \notin stored \cup {NoSession} \/ session[c] # known[r]
                     \/ StartedAgain(known[r])
                     \/ \E l \in ToSet(lines) : Releases(l, c, known[r])

\* However many callers want a daemon at the same time, and whenever one is let go
\* or dies, there is one at most that nobody told to stop (ensureWorkspaceRun:
\* `so we never start (and then leak) more than one daemon`).
OneDaemon == daemons + spawns <= 1

\* A queued message is handed to runTask once at most, though every event that ends
\* a run drains the queue, a run ends with two of them, and a drain may find the
\* timer of the one before still running.
HandedOnce == \A i, j \in DOMAIN handed : handed[i] = handed[j] => i = j

\* No call of runTask waits for nothing, whatever becomes of the daemon: the spawn it
\* waits for is going on, its request or the answer is in a pipe of a daemon that is
\* there, or its rejection is about to be handled.  (A daemon that was let go while
\* the call waited is not followed.)
Answered(r, oks) == \E l \in ToSet(lines) :
    l.kind = "answer" /\ l.to.kind = "start" /\ l.to.run = r /\ l.ok \in oks
CallsPending ==
    \A r \in Runs :
        /\ step[r] = "opening" => spawns > 0 \/ Answered(r, {FALSE})
        /\ step[r] = "sent" =>
               \/ up /\ (StartOf(r) \in ToSet(requests) \/ Answered(r, {TRUE}))
               \/ Answered(r, {FALSE})

=============================================================================
