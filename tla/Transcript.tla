----------------------------- MODULE Transcript -----------------------------
(***************************************************************************)
(* The transcript of one session, from run to run.                          *)
(*                                                                          *)
(* A run reads context.bin into a ContextManager, appends what happens in   *)
(* its turns, sometimes folds the older part into a summary, and turns the  *)
(* entries into the messages of each request.  context.bin is written again *)
(* after a turn that succeeded, and only then.  A run that stops at a tool  *)
(* call which needs an approval leaves the call in a second file,           *)
(* pending_resume.bin, and the next run executes it before its first        *)
(* request.  The two files are written at different moments, and a run can  *)
(* be cut off anywhere in between.                                          *)
(*                                                                          *)
(* The committee loop (run_committee_loop_with_events) runs the same turns  *)
(* but has no policies: it neither reads pending_resume.bin nor writes      *)
(* context.bin, and ends at the first turn that fails.                      *)
(*                                                                          *)
(* An entry is its source and its tool call ids; a text is left out, and so *)
(* are token counts: whether a transcript is long enough to be folded, or a *)
(* request to be cut, is a choice.  Ids may be used again in later turns:   *)
(* for a server that sends none the client makes them up per response.      *)
(* No entry is pinned: nothing outside the tests pins one.                  *)
(*                                                                          *)
(* A definition MutXxx is not part of the model: it is Xxx with a mistake a *)
(* change to the code could make, kept to show that a property notices it.  *)
(***************************************************************************)
EXTENDS Integers, FiniteSets, SequencesExt

CONSTANTS
    CallIds,   \* tool call ids
    KeepTail,  \* COMPACTION_KEEP_TAIL, the entries compaction leaves alone
    MaxRuns,   \* bounds of the model: runs of the session,
    MaxHalts,  \* halts for an approval,
    MaxLog     \* and entries of a transcript to which a turn still adds

ASSUME TranscriptBoundAssumption ==
    KeepTail \in Nat /\ MaxRuns \in Nat /\ MaxHalts \in Nat /\ MaxLog \in Nat

\* What the user types: a task, or a word (is_substantive_user_task is false).
Inputs == {"task", "word"}
Halts  == 1..MaxHalts
None   == 0

VARIABLES
    log,       \* ContextManager.entries of the run
    disk,      \* context.bin
    sidecar,   \* pending_resume.bin: the halt whose call it holds, or None
    waiting,   \* the halt the operator is asked about, or None
    halts,     \* the halts so far
    taken,     \* how often the call of a halt was taken from pending_resume.bin
    stage,     \* where the run is
    first,     \* it has not had a turn yet
    committee, \* it is a committee loop
    input,     \* what the user typed
    runs       \* the runs so far

files    == <<disk, sidecar>>
approval == <<waiting, halts, taken>>
run      == <<first, committee, input, runs>>
vars     == <<log, files, approval, stage, run>>

Stages == {"idle", "boundary", "replaying", "ready", "asking", "acting", "ended"}

-----------------------------------------------------------------------------
(* Entries. *)

User(i, n) == [kind |-> i, ids |-> <<>>, run |-> n]
Note       == [kind |-> "note", ids |-> <<>>, run |-> None]  \* PlanReminder and the like
Text       == [kind |-> "text", ids |-> <<>>, run |-> None]  \* an answer without a call
Calls(c)   == [kind |-> "calls", ids |-> c, run |-> None]
Result(c)  == [kind |-> "result", ids |-> <<c>>, run |-> None]
Answers(c) == [i \in 1..Len(c) |-> Result(c[i])]
Notes      == {<<>>, <<Note>>}

\* What a turn of the model may call: one tool, or several that only read.
Batches == {<<c>> : c \in CallIds} \cup {<<c, d>> : c, d \in CallIds}
Invoked == {b \in Batches : IsInjective(b)}
Entries == {Note, Text} \cup {User(i, n) : i \in Inputs, n \in 1..MaxRuns}
             \cup {Calls(b) : b \in Invoked} \cup {Result(c) : c \in CallIds}

Ids(S)       == UNION {ToSet(e.ids) : e \in S}
CalledIn(s)  == Ids({e \in ToSet(s) : e.kind = "calls"})
AnsweredIn(s) == Ids({e \in ToSet(s) : e.kind = "result"})
Rest(s, k)   == SubSeq(s, k + 1, Len(s))
Upto(s, k)   == SubSeq(s, 1, k)
\* retain: what s has at the positions in I, in their order.
Keep(s, I)   ==
    LET At(n) == CHOOSE i \in I : Cardinality({k \in I : k <= i}) = n
    IN  [n \in 1..Cardinality(I) |-> s[At(n)]]

-----------------------------------------------------------------------------
(* Compaction. *)

\* Results that are kept, whose call is among the first k entries and not kept.
Orphans(s, k) ==
    {i \in (k + 1)..Len(s) :
        /\ s[i].kind = "result"
        /\ s[i].ids[1] \in CalledIn(Upto(s, k)) \ CalledIn(Rest(s, k))}
\* The cut is where it was asked for.
MutKeepFrom(s) == Len(s) - KeepTail
\* protocol_safe_keep_from: from where it was asked for, the cut moves back to the
\* call of a result that would be left behind, until there is none.  Every cut
\* between the call and where the cut was leaves the same result behind, so it
\* stops at the last cut that leaves none.
KeepFrom(s) == Max({k \in 0..(Len(s) - KeepTail) : Orphans(s, k) = {}})

UsersBefore(s, k)  == {i \in 1..k : s[i].kind \in Inputs}
TasksBefore(s, k)  == {i \in 1..k : s[i].kind = "task"}
\* The first prompt stays for good.
MutAnchor(s, k) == IF UsersBefore(s, k) = {} THEN <<>> ELSE <<s[Min(UsersBefore(s, k))]>>
\* preserved_current_user_entry_before: the last task, or else the last word.
Anchor(s, k) ==
    IF TasksBefore(s, k) # {} THEN <<s[Max(TasksBefore(s, k))]>>
    ELSE IF UsersBefore(s, k) # {} THEN <<s[Max(UsersBefore(s, k))]>> ELSE <<>>

\* compact_tier1, and compact_with_llm_inner when the provider answers.
Compacted(s) ==
    LET k == KeepFrom(s) IN Anchor(s, k) \o <<Note>> \o Rest(s, k)

-----------------------------------------------------------------------------
(* The messages of a request. *)

Role(e) == IF e.kind \in Inputs \cup {"note"} THEN "user"
           ELSE IF e.kind = "result" THEN "tool" ELSE "assistant"
Message(e) == [role |-> Role(e), ids |-> e.ids]

\* merge_consecutive_roles: plain messages of one role become one.
Merged(m) ==
    Keep(m, {i \in DOMAIN m : i = 1 \/ m[i].ids # <<>> \/ m[i] # m[i - 1]})

\* Every result stays.
MutOnlyCalled(m) == m
\* A result stays if its call came before it and nothing has answered it yet.
Open(m, i) ==
    \E j \in 1..(i - 1) :
        /\ m[j].role = "assistant" /\ m[i].ids[1] \in ToSet(m[j].ids)
        /\ \A k \in (j + 1)..(i - 1) : m[k].role = "tool" => m[k].ids # m[i].ids
OnlyCalled(m) == Keep(m, {i \in DOMAIN m : m[i].role = "tool" => Open(m, i)})

\* A call stays if something answers it, anywhere, and a message with calls if one
\* of them stays (one with a text stays without them, and asks for no answer then).
OnlyAnswered(m) ==
    LET answered == UNION {ToSet(x.ids) : x \in {y \in ToSet(m) : y.role = "tool"}}
        Left(x)  == Keep(x.ids, {k \in DOMAIN x.ids : x.ids[k] \in answered})
        left     == [i \in DOMAIN m |-> IF m[i].role # "assistant" THEN m[i]
                                        ELSE [m[i] EXCEPT !.ids = Left(m[i])]]
    IN  Keep(left, {i \in DOMAIN m : m[i].ids # <<>> => left[i].ids # <<>>})

\* repair_tool_call_pairs
Repaired(m) == OnlyCalled(OnlyAnswered(m))

\* trim_to_hard_limit drops the first message and repairs, until what is left is
\* small enough or a single message; how many it drops is for the sizes to say.
MayTrim(m, most) ==
    LET cut[n \in 0..most] ==
            IF n = 0 THEN m
            ELSE IF Len(cut[n - 1]) > 1 THEN Repaired(Tail(cut[n - 1])) ELSE cut[n - 1]
    IN {cut[n] : n \in 0..most}

\* to_messages: the requests the entries may become.
Untrimmed == Merged([i \in 1..Len(log) |-> Message(log[i])])
Requests  == {Repaired(m) : m \in MayTrim(Untrimmed, Len(Untrimmed))}

-----------------------------------------------------------------------------
(* A run. *)

\* A run starts with what is on disk.
Starts(i, c) ==
    /\ stage = "idle" /\ runs < MaxRuns
    /\ log' = disk /\ stage' = "boundary"
    /\ first' = TRUE /\ committee' = c /\ input' = i
    /\ runs' = runs + 1
    /\ waiting' = None
    /\ UNCHANGED <<files, halts, taken>>

\* The user types something in a session that waits for nothing.
Submit(i, c) == waiting = None /\ Starts(i, c)
\* The user approves: the session runs again, with the input it had.
Approve(c)   == waiting # None /\ Starts(input, c)
\* The user denies the call, or cancels the session.  Both files stay.
Deny ==
    /\ stage = "idle" /\ waiting # None /\ waiting' = None
    /\ UNCHANGED <<log, files, halts, taken, stage, run>>
\* The session is cleared: its directory goes.
Clear ==
    /\ stage = "idle" /\ disk' = <<>> /\ sidecar' = None /\ waiting' = None
    /\ UNCHANGED <<log, halts, taken, stage, run>>

\* A run ends, is dropped or dies with the process: only the files are left.
Leaves == stage' = "idle" /\ log' = <<>>
Quit   == stage # "idle" /\ Leaves /\ UNCHANGED <<files, approval, run>>

\* The file is removed when the call has been executed.
MutTake == taken' = [taken EXCEPT ![sidecar] = @ + 1] /\ UNCHANGED sidecar
\* take_pending_resume removes the file before the call is executed.
Take    == taken' = [taken EXCEPT ![sidecar] = @ + 1] /\ sidecar' = None

\* The top of an iteration: messages of other sessions and a changed AGENTS.md are
\* noted, and before the first turn a call that waits in the file is taken.
Boundary ==
    /\ stage = "boundary"
    /\ \E n \in IF committee THEN {<<>>} ELSE Notes : log' = log \o n
    /\ IF first /\ sidecar # None /\ ~committee
       THEN stage' = "replaying" /\ Take
       ELSE stage' = "ready" /\ UNCHANGED <<sidecar, taken>>
    /\ UNCHANGED <<disk, waiting, halts, run>>

\* The last entry with calls, and which of its calls have no result after it
\* (latest_unanswered_tool_call_id takes the first of them).
Calling(s)    == {i \in 1..Len(s) : s[i].kind = "calls"}
Batch(s)      == IF Calling(s) = {} THEN <<>> ELSE s[Max(Calling(s))].ids
Unanswered(s) ==
    {k \in DOMAIN Batch(s) : Batch(s)[k] \notin AnsweredIn(Rest(s, Max(Calling(s))))}
\* append_pending_resume_observation
Observed(s) ==
    IF Unanswered(s) = {} THEN <<Note>> ELSE <<Result(Batch(s)[Min(Unanswered(s))])>>
\* The call that was taken is executed; when that fails, as it does when nothing
\* allows the call, a note says so.
Replayed ==
    /\ stage = "replaying" /\ stage' = "ready"
    /\ \E n \in Notes : log' = log \o Observed(log) \o n
    /\ UNCHANGED <<files, approval, run>>

\* The turn begins: what the user typed goes in, with the plan, before the first
\* one; then the transcript is folded if it is long (or if /compact was asked for);
\* then the request goes out.
Typed == IF first THEN {<<User(input, runs)>> \o n : n \in Notes} ELSE {<<>>}
Request ==
    /\ stage = "ready" /\ stage' = "asking"
    /\ Len(log) < MaxLog
    /\ \E t \in Typed :
           LET s == log \o t
           IN log' = s \/ (Len(s) > KeepTail /\ log' = Compacted(s))
    /\ first' = FALSE
    /\ UNCHANGED <<files, approval, committee, input, runs>>

\* A turn that failed: the policies note it and the loop goes on or gives up.
Fails(s) ==
    \/ /\ ~committee /\ stage' = "boundary"
       /\ \E n \in Notes : log' = s \o n
    \/ Leaves
\* A turn that succeeded: the transcript is written, if that works.
Saves(s) == IF committee THEN disk' = disk ELSE disk' \in {s, disk}
Succeeds(s) ==
    /\ stage' = "ended" /\ log' = s
    /\ Saves(s)

Same == UNCHANGED <<sidecar, approval, run>>

ProviderFails == stage = "asking" /\ Fails(log) /\ UNCHANGED disk /\ Same
\* An answer without a call ends the turn, unless agent_done fails.
Replies ==
    /\ stage = "asking"
    /\ \E t \in {<<>>, <<Text>>} :
           Succeeds(log \o t) \/ (Fails(log \o t) /\ UNCHANGED disk)
    /\ Same
\* The calls that will be executed are recorded: one, or all of a batch of reads.
Invokes ==
    /\ stage = "asking" /\ stage' = "acting"
    /\ \E b \in Invoked : log' = Append(log, Calls(b))
    /\ UNCHANGED disk /\ Same

\* The call at work and those of its batch behind it.
Missing == Rest(Batch(log), Min(Unanswered(log)) - 1)
\* A tool has a result; after the last one the turn is over.
Finishes ==
    /\ stage = "acting"
    /\ LET s == Append(log, Result(Missing[1]))
       IN IF Len(Missing) = 1 THEN Succeeds(s)
          ELSE log' = s /\ UNCHANGED <<stage, disk>>
    /\ Same
\* The other calls of the batch are left open.
MutClosing == <<Result(Missing[1])>>
\* A call that fails is answered, and so is every call of the batch after it.
Closing    == Answers(Missing)
ToolFails ==
    /\ stage = "acting" /\ Fails(log \o Closing)
    /\ UNCHANGED disk /\ Same
\* A single call needs an approval: it goes to the file, if that works, and the
\* run ends.  The transcript is not written.
NeedsApproval ==
    /\ stage = "acting" /\ Last(log).kind = "calls" /\ Len(Missing) = 1
    /\ halts < MaxHalts /\ halts' = halts + 1
    /\ sidecar' \in {sidecar, halts'}
    /\ waiting' = halts'
    /\ Leaves
    /\ UNCHANGED <<disk, taken, run>>

\* After a turn that succeeded the policies, or the reviewer, may add a note; the
\* loop goes on or ends.
Ended ==
    /\ stage = "ended"
    /\ \/ stage' = "boundary" /\ \E n \in Notes : log' = log \o n
       \/ Leaves
    /\ UNCHANGED disk /\ Same

Init ==
    /\ log = <<>> /\ disk = <<>> /\ sidecar = None
    /\ waiting = None /\ halts = 0 /\ taken = [n \in Halts |-> 0]
    /\ stage = "idle" /\ runs = 0
    /\ first = FALSE /\ committee = FALSE /\ input = "task"

Operator == \/ \E c \in BOOLEAN : Approve(c) \/ \E i \in Inputs : Submit(i, c)
            \/ Deny \/ Clear
Turn  == Boundary \/ Replayed \/ Request \/ ProviderFails \/ Replies \/ Invokes
         \/ Finishes \/ ToolFails \/ NeedsApproval \/ Ended
Next  == Operator \/ Turn \/ Quit
Spec  == Init /\ [][Next]_vars

-----------------------------------------------------------------------------
(* Properties. *)

\* What a provider accepts: the calls of a message are answered by the messages
\* right after it, each once, and nothing else is an answer.
WellPaired(m) ==
    /\ \A i \in DOMAIN m : m[i].role = "assistant" =>
           \A k \in DOMAIN m[i].ids :
               i + k \in DOMAIN m /\ m[i + k].role = "tool" /\ m[i + k].ids[1] = m[i].ids[k]
    /\ \A i \in DOMAIN m : m[i].role = "tool" =>
           \E j \in 1..(i - 1) : m[j].role = "assistant" /\ i - j \in DOMAIN m[j].ids

\* Whatever was folded, cut off, restored or replayed, a request is well paired:
\* a provider rejects one that is not, and would reject every later one as well.
RequestsWellPaired == stage = "asking" => \A m \in Requests : WellPaired(m)

\* A run never starts from a transcript with a call that was not answered.
SavedAnswered == Unanswered(disk) = {}

\* Folding a transcript in which no id is used twice leaves no result behind
\* without its call, however many results lie across the cut.
Distinct(s) == \A i, j \in DOMAIN s :
    i < j /\ s[i].kind = "calls" => ToSet(s[i].ids) \cap CalledIn(Rest(s, i)) = {}
Attached(s) == \A i \in DOMAIN s : s[i].kind = "result" =>
    i > 1 /\ s[i - 1].kind \in {"calls", "result"}
FoldingKeepsPairs ==
    [][Request /\ Distinct(log) /\ Attached(log) => Attached(log')]_vars

\* The task of a run stays in its transcript through every compaction.
ObjectiveKept ==
    stage \in {"asking", "acting", "ended"} /\ input = "task" =>
        \E i \in DOMAIN log : log[i].kind = "task" /\ log[i].run = runs

\* A call that waited for an approval is taken from the file at most once, also
\* when a run is cut off while it executes the call.
TakenOnce == \A n \in Halts : taken[n] <= 1

\* What the operator is asked about is what the next run will take: no older call
\* is left in the file (a committee loop never takes one, and leaves it there).
AskedIsPending == waiting # None /\ ~committee => sidecar \in {None, waiting}

\* An approval is of the call the operator was shown, and is good for one execution.
ApprovedOnce == TakenOnce /\ AskedIsPending

=============================================================================
