---------------------------- MODULE PeerInboxes ----------------------------
(***************************************************************************)
(* Peer messages: a session's run sends a note to the parent or to a child  *)
(* of its session (the agent_message tool), and a run reads what its own    *)
(* session was sent at the start of every turn.                             *)
(*                                                                          *)
(* The router has one handle per session id, with the inbox and the parent  *)
(* of the session.  Registering an id again replaces the handle: the inbox  *)
(* of the new one is empty.  Runs are tasks of a multi-threaded runtime, and *)
(* each of them knows the router by its lock only: a sender looks up whom   *)
(* it may address, then the inbox, and then appends to it, each under a     *)
(* lock of its own; a reader looks up the inbox and empties it later.  In   *)
(* between, the host may close or replace the session, and others send.     *)
(*                                                                          *)
(* This is the life of one router.  No inbox and no parent is on disk: the  *)
(* process that comes next registers the sessions again, without a parent.  *)
(*                                                                          *)
(* Left out: the texts, all else a turn does, and that a fork or a later run *)
(* takes over the context of an earlier one: what a run read itself counts.  *)
(* A run of no session finds nothing in the router, and is left out too.    *)
(*                                                                          *)
(* A definition MutXxx is not part of the model: it is Xxx with a mistake a *)
(* change to the code could make, kept to show that a property notices it.  *)
(***************************************************************************)
EXTENDS Naturals, Sequences

CONSTANTS
    Sessions, NoSession,  \* ids of sessions; NoSession is no parent
    MaxHandles,           \* bound of the model: handles that are ever made
    MaxRuns,              \* bound of the model: runs that are ever started
    MaxMessages           \* bound of the model: messages that are ever sent

ASSUME PeerNamesAssumption == NoSession \notin Sessions
ASSUME PeerBoundsAssumption == {MaxHandles, MaxRuns, MaxMessages} \subseteq Nat

Handles  == 1..MaxHandles
NoHandle == 0
Runs     == 1..MaxRuns
Messages == 1..MaxMessages

VARIABLES
    handle,            \* SessionRouter.sessions: the handle of an id
    made, id, parent,  \* how many handles were made; SessionHandle.id, parent_id
    inbox,             \* SessionHandle.inbox
    turn, of,          \* of a run: where its loop is; its session
    hand,              \* the inbox a run is about to empty
    context,           \* the messages that are in the context of a run
    sent,              \* how many messages were sent
    at, by, to, via    \* of a message: how far it is; the run that sends it; the
                       \* session it is for; the handle whose inbox was looked up

router == <<handle, made, id, parent>>
loop   == <<turn, of, hand>>
mail   == <<sent, at, by, to, via>>
vars   == <<router, inbox, loop, context, mail>>

-----------------------------------------------------------------------------
(* The router. *)

\* register: a fresh handle, in the place of the one that has the id.  A fork or a
\* worktree session is made with a parent, the session in the foreground, which has
\* the same id when it was forked in the same second; what is new, restored from disk
\* or made by the daemon has none.
Register(s, p) ==
    /\ made < MaxHandles /\ p \in {NoSession} \cup {q \in Sessions : handle[q] # NoHandle}
    /\ made' = made + 1
    /\ handle' = [handle EXCEPT ![s] = made']
    /\ id' = [id EXCEPT ![made'] = s] /\ parent' = [parent EXCEPT ![made'] = p]
    /\ UNCHANGED <<inbox, loop, context, mail>>

\* close.
Close(s) ==
    /\ handle[s] # NoHandle /\ handle' = [handle EXCEPT ![s] = NoHandle]
    /\ UNCHANGED <<made, id, parent, inbox, loop, context, mail>>

ParentOf(s) == IF handle[s] = NoHandle THEN NoSession ELSE parent[handle[s]]

\* Any session of the router may be addressed.
MutIsChildOf(s, c) == handle[c] # NoHandle
IsChildOf(s, c)    == handle[c] # NoHandle /\ parent[handle[c]] = s

-----------------------------------------------------------------------------
(* Sending, in the middle of a turn: one tool call after the other. *)

Sending(r) == \E m \in 1..sent : by[m] = r /\ at[m] \in {"addressed", "found"}

\* The router was asked whether run r may address session s.
Sends(r, s, may) ==
    /\ turn[r] = "acts" /\ ~Sending(r) /\ sent < MaxMessages
    /\ sent' = sent + 1
    /\ at' = [at EXCEPT ![sent'] = IF may THEN "addressed" ELSE "refused"]
    /\ by' = [by EXCEPT ![sent'] = r] /\ to' = [to EXCEPT ![sent'] = s]
    /\ UNCHANGED <<router, inbox, loop, context, via>>

SendToParent(r) == LET p == ParentOf(of[r]) IN Sends(r, p, p # NoSession)
SendToChild(r)  == \E c \in Sessions : Sends(r, c, IsChildOf(of[r], c))

\* push_to, first half: the inbox is looked up, and the router unlocked.
Find(m) ==
    /\ at[m] = "addressed"
    /\ IF handle[to[m]] = NoHandle
       THEN at' = [at EXCEPT ![m] = "refused"] /\ UNCHANGED via
       ELSE at' = [at EXCEPT ![m] = "found"] /\ via' = [via EXCEPT ![m] = handle[to[m]]]
    /\ UNCHANGED <<router, inbox, loop, context, sent, by, to>>

\* The message goes to the front of the queue.
MutDeliver(m) == inbox' = [inbox EXCEPT ![via[m]] = <<m>> \o @]
Deliver(m)    == inbox' = [inbox EXCEPT ![via[m]] = Append(@, m)]

\* push_to, second half; the sender is told that the message was delivered.
Push(m) ==
    /\ at[m] = "found" /\ at' = [at EXCEPT ![m] = "delivered"]
    /\ Deliver(m)
    /\ UNCHANGED <<router, loop, context, sent, by, to, via>>

-----------------------------------------------------------------------------
(* Runs. *)

Begin(r, s) ==
    /\ turn[r] = "unused" /\ \A q \in Runs : turn[q] = "unused" => r <= q
    /\ handle[s] # NoHandle
    /\ turn' = [turn EXCEPT ![r] = "starts"] /\ of' = [of EXCEPT ![r] = s]
    /\ UNCHANGED <<router, inbox, hand, context, mail>>

\* drain_inbox, first half: the inbox is looked up, and the router unlocked.
LookUp(r) ==
    /\ turn[r] = "starts"
    /\ IF handle[of[r]] # NoHandle
       THEN turn' = [turn EXCEPT ![r] = "drains"] /\ hand' = [hand EXCEPT ![r] = handle[of[r]]]
       ELSE turn' = [turn EXCEPT ![r] = "acts"] /\ UNCHANGED hand
    /\ UNCHANGED <<router, inbox, of, context, mail>>

\* The messages are copied, and stay in the inbox.
MutEmpties(h) == UNCHANGED inbox
Empties(h)    == inbox' = [inbox EXCEPT ![h] = <<>>]

\* One message is read and the rest is thrown away.
MutReads(r) == context' = [context EXCEPT ![r] =
                   IF inbox[hand[r]] = <<>> THEN @ ELSE Append(@, Head(inbox[hand[r]]))]
Reads(r)    == context' = [context EXCEPT ![r] = @ \o inbox[hand[r]]]

\* drain_inbox, second half: what is there goes to the context.
Drain(r) ==
    /\ turn[r] = "drains" /\ turn' = [turn EXCEPT ![r] = "acts"]
    /\ Reads(r) /\ Empties(hand[r]) /\ hand' = [hand EXCEPT ![r] = NoHandle]
    /\ UNCHANGED <<router, of, mail>>

\* The turn is over, and the run goes on with the next one or ends: it was
\* cancelled, is done, or may take no more turns.
TurnEnds(r) ==
    /\ turn[r] = "acts" /\ ~Sending(r)
    /\ \E t \in {"starts", "over"} : turn' = [turn EXCEPT ![r] = t]
    /\ UNCHANGED <<router, inbox, of, hand, context, mail>>

-----------------------------------------------------------------------------
Init ==
    /\ handle = [s \in Sessions |-> NoHandle] /\ made = 0
    /\ id = [h \in Handles |-> NoSession] /\ parent = [h \in Handles |-> NoSession]
    /\ inbox = [h \in Handles |-> <<>>]
    /\ turn = [r \in Runs |-> "unused"] /\ of = [r \in Runs |-> NoSession]
    /\ hand = [r \in Runs |-> NoHandle] /\ context = [r \in Runs |-> <<>>]
    /\ sent = 0 /\ at = [m \in Messages |-> "unsent"] /\ by = [m \in Messages |-> 0]
    /\ to = [m \in Messages |-> NoSession] /\ via = [m \in Messages |-> NoHandle]

HostStep == \/ \E s \in Sessions, p \in Sessions \cup {NoSession} : Register(s, p)
            \/ \E s \in Sessions : Close(s)
            \/ \E r \in Runs, s \in Sessions : Begin(r, s)
RunStep  == \/ \E r \in Runs : LookUp(r) \/ Drain(r) \/ TurnEnds(r) \/ SendToParent(r) \/ SendToChild(r)
            \/ \E m \in Messages : Find(m) \/ Push(m)

Next == HostStep \/ RunStep

Spec == Init /\ [][Next]_vars

-----------------------------------------------------------------------------
(* Properties. *)

\* Where a message is in a queue or in a context.
In(seq, m) == {i \in DOMAIN seq : seq[i] = m}

\* No message is read twice, not even when two runs of one session empty the inbox
\* at the same time, or when the session is replaced while a run does; nor does a
\* message that was read wait to be read again.
ReadOnce ==
    /\ \A r, q \in Runs : \A i \in DOMAIN context[r], j \in DOMAIN context[q] :
           context[r][i] = context[q][j] => r = q /\ i = j
    /\ \A r \in Runs, h \in Handles : \A i \in DOMAIN context[r], j \in DOMAIN inbox[h] :
           context[r][i] # inbox[h][j]

\* A message the sender was told is delivered is in the context of a run of the
\* session it is for, or waits in the inbox that was found for it: it is lost with
\* that inbox, when the session is closed or replaced, and in no other way.
NotLost ==
    \A m \in Messages : at[m] = "delivered" =>
        \/ In(inbox[via[m]], m) # {}
        \/ \E r \in Runs : of[r] = to[m] /\ In(context[r], m) # {}

\* Delivered is delivered once.
DeliveredOnce == ReadOnce /\ NotLost

\* What one run sends is read in the order in which it was sent.
InOrder ==
    \A r \in Runs : \A i, j \in DOMAIN context[r] :
        i < j /\ by[context[r][i]] = by[context[r][j]] => context[r][i] < context[r][j]

\* Messages are read by a parent or a child only: one of the two sessions was
\* registered with the other as its parent (`A subagent can only message its own
\* direct children, never arbitrary peers`).
Kin(s, t) == \E h \in 1..made : id[h] = s /\ parent[h] = t
KinOnly ==
    \A r \in Runs, m \in Messages : In(context[r], m) # {} =>
        Kin(of[by[m]], of[r]) \/ Kin(of[r], of[by[m]])
=============================================================================
