---------------------------- MODULE EditorProofs ----------------------------
(***************************************************************************)
(* The host of the editor extension: for any number of chats, tasks, queued *)
(* messages and lines in the pipes there is one daemon at most, a queued     *)
(* message is handed on once, no call of runTask waits for nothing, and no    *)
(* chat is stuck with a run that is gone.                                    *)
(***************************************************************************)
EXTENDS Editor, FiniteSetTheorems, SequenceTheorems, TLAPS

-----------------------------------------------------------------------------
(* One daemon.  A spawn goes on only while there is no daemon, and the        *)
(* daemons nobody told to stop are counted by up.                           *)

OneInv ==
    /\ up \in BOOLEAN
    /\ up => spawns = 0 /\ daemons = 1
    /\ ~up => spawns \in {0, 1} /\ daemons = 0
    /\ up \/ live = {}

\* A step that leaves the daemon process alone.
LEMMA SameDaemon ==
    ASSUME OneInv, UNCHANGED <<up, spawns, daemons>>, up \/ UNCHANGED live
    PROVE  OneInv'
BY DEF OneInv

\* A run that is taken out, with the daemon if nothing else needs it.
LEMMA UntrackOne ==
    ASSUME OneInv, NEW C, NEW ls, NEW st, Untrack(C, ls, st)
    PROVE  OneInv'
<1>1. CASE up /\ ~keepAlive /\ \A c \in Chats \ C : tracked[c] = NoRun
  <2>1. up' = FALSE /\ daemons' = daemons - 1 /\ live' = {} /\ spawns' = spawns
    BY <1>1 DEF Untrack
  <2>2. spawns = 0 /\ daemons = 1
    BY <1>1 DEF OneInv
  <2>3. spawns' = 0 /\ daemons' = 0
    BY <2>1, <2>2
  <2> QED
    BY <2>1, <2>3, Zenon DEF OneInv
<1>2. CASE ~(up /\ ~keepAlive /\ \A c \in Chats \ C : tracked[c] = NoRun)
  BY <1>2 DEF OneInv, Untrack, daemon
<1> QED
  BY <1>1, <1>2

LEMMA RunTaskOne == OneInv /\ RunTask => OneInv'
BY DEF OneInv, RunTask, Ensure, daemon

LEMMA StartFailedOne ==
    ASSUME OneInv, NEW r, NEW rest, StartFailed(r, rest)
    PROVE  OneInv'
BY UntrackOne DEF StartFailed

LEMMA UserOne == OneInv /\ UserStep => OneInv'
<1> SUFFICES ASSUME OneInv, UserStep PROVE OneInv'
  OBVIOUS
<1>1. CASE Select
  BY <1>1, SameDaemon DEF Select, host, daemon
<1>2. CASE UserRun
  BY <1>2, RunTaskOne DEF UserRun
<1>3. CASE QueueAdd
  BY <1>3, SameDaemon DEF QueueAdd, host, daemon
<1>4. ASSUME NEW q, Asks(q) PROVE OneInv'
  BY <1>4, SameDaemon DEF Asks, host, daemon
<1>5. CASE Cancel
  BY <1>4, <1>5, UntrackOne DEF Cancel
<1>6. CASE Delete
  BY <1>4, <1>6, UntrackOne DEF Delete
<1>7. CASE Clear
  BY <1>4, <1>7 DEF Clear
<1> QED
  BY <1>1, <1>2, <1>3, <1>5, <1>6, <1>7 DEF UserStep

LEMMA AnswerOne ==
    ASSUME OneInv, NEW l, NEW rest, OnAnswer(l, rest)
    PROVE  OneInv'
<1>1. CASE OnSubscribed(l, rest)
  BY <1>1, SameDaemon DEF OnSubscribed, daemon
<1>2. CASE OnStarted(l, rest)
  BY <1>2, SameDaemon DEF OnStarted, host, daemon
<1>3. CASE OnRefused(l, rest)
  BY <1>3, SameDaemon, StartFailedOne DEF OnRefused, host, daemon
<1>4. CASE OnCancelled(l, rest)
  BY <1>4, SameDaemon, UntrackOne DEF OnCancelled, host, daemon
<1>5. CASE OnDeleted(l, rest)
  BY <1>5, UntrackOne DEF OnDeleted
<1>6. CASE OnCleared(l, rest)
  BY <1>6, SameDaemon DEF OnCleared, host, daemon
<1>7. CASE OnClearing(l, rest)
  BY <1>7, UntrackOne DEF OnClearing
<1> QED
  BY <1>1, <1>2, <1>3, <1>4, <1>5, <1>6, <1>7 DEF OnAnswer

LEMMA HostOne == OneInv /\ HostStep => OneInv'
<1> SUFFICES ASSUME OneInv, HostStep PROVE OneInv'
  OBVIOUS
<1>1. CASE Opened
  BY <1>1 DEF OneInv, Opened, daemon
<1>2. CASE OpenFails
  BY <1>2 DEF OneInv, OpenFails, daemon
<1>3. CASE Dispatch
  BY <1>3, SameDaemon, RunTaskOne DEF Dispatch, host, daemon
<1>4. CASE HandleLine
  <2>1. ASSUME NEW l, NEW rest, OnEnded(l, rest) PROVE OneInv'
    BY <2>1, UntrackOne DEF OnEnded, FinishRunBySession
  <2>2. ASSUME NEW l, NEW rest, OnList(l, rest) PROVE OneInv'
    BY <2>2, SameDaemon DEF OnList, host, daemon
  <2> QED
    BY <1>4, <2>1, <2>2, AnswerOne DEF HandleLine
<1>5. ASSUME NEW r \in Runs, TimeOut(r) PROVE OneInv'
  BY <1>5, StartFailedOne DEF TimeOut
<1>6. ASSUME NEW r \in Runs, OrphanAnswer(r) PROVE OneInv'
  BY <1>6, SameDaemon, StartFailedOne DEF OrphanAnswer, host
<1> QED
  BY <1>1, <1>2, <1>3, <1>4, <1>5, <1>6 DEF HostStep

LEMMA DaemonOne == OneInv /\ DaemonStep => OneInv'
<1> SUFFICES ASSUME OneInv, DaemonStep PROVE OneInv'
  OBVIOUS
<1>1. CASE Exit
  <2>1. up /\ up' = FALSE /\ daemons' = daemons - 1 /\ live' = {} /\ spawns' = spawns
    BY <1>1 DEF Exit
  <2>2. spawns = 0 /\ daemons = 1
    BY <2>1 DEF OneInv
  <2>3. spawns' = 0 /\ daemons' = 0
    BY <2>1, <2>2
  <2> QED
    BY <2>1, <2>3, Zenon DEF OneInv
<1>2. CASE Reads
  BY <1>2, SameDaemon DEF Reads, host
<1>3. ASSUME NEW s \in Runs, AgentDone(s) PROVE OneInv'
  BY <1>3, SameDaemon DEF AgentDone, host
<1>4. ASSUME NEW s \in Runs, SessionEnds(s) PROVE OneInv'
  BY <1>4, SameDaemon DEF OneInv, SessionEnds, host
<1> QED
  BY <1>1, <1>2, <1>3, <1>4 DEF DaemonStep

LEMMA OneInductive == Init /\ [][Next]_vars => []OneInv
<1>1. Init => OneInv
  BY DEF Init, OneInv
<1>2. OneInv /\ [Next]_vars => OneInv'
  <2>1. ASSUME OneInv, UNCHANGED vars PROVE OneInv'
    BY <2>1 DEF OneInv, vars, host, daemon
  <2> QED
    BY <2>1, UserOne, HostOne, DaemonOne DEF Next
<1> QED
  BY <1>1, <1>2, PTL

\* ensureWorkspaceRun never starts a second daemon: not for callers that come while
\* a spawn goes on, nor after the daemon was let go or died.
THEOREM OneDaemonAtMost == Spec => []OneDaemon
<1>1. OneInv => OneDaemon
  BY DEF OneInv, OneDaemon
<1> QED
  BY <1>1, OneInductive, PTL DEF Spec

-----------------------------------------------------------------------------
(* The queue.  Messages are numbered as they are typed; what was handed on,   *)
(* what the timer holds and what is queued are in that order.                *)

\* The numbers of seq grow.
Grows(seq) == \A i, j \in DOMAIN seq : i < j => seq[i] < seq[j]

QueueInv ==
    /\ typed \in Nat /\ queue \in Seq(1..typed) /\ handed \in Seq(1..typed)
    /\ due \in 0..typed
    /\ Grows(handed) /\ Grows(queue)
    /\ \A i \in DOMAIN handed, j \in DOMAIN queue : handed[i] < queue[j]
    /\ \A j \in DOMAIN queue : due < queue[j]
    /\ due # NoTask => \A i \in DOMAIN handed : handed[i] < due

LEMMA SameQueue ==
    ASSUME QueueInv, UNCHANGED tasks
    PROVE  QueueInv'
BY DEF QueueInv, Grows, tasks

LEMMA QueueAddKeeps ==
    ASSUME QueueInv, typed' = typed + 1, queue' = Append(queue, typed'), UNCHANGED <<due, handed>>
    PROVE  QueueInv'
<1>1. /\ typed \in Nat /\ queue \in Seq(1..typed) /\ handed \in Seq(1..typed)
      /\ due \in 0..typed /\ typed' = typed + 1 /\ due' = due /\ handed' = handed
      /\ queue' = Append(queue, typed + 1)
  BY DEF QueueInv
<1>2. typed' \in Nat /\ due' \in 0..typed' /\ 1..typed \subseteq 1..typed' /\ typed + 1 \in 1..typed'
  BY <1>1
<1>3. /\ Len(queue) \in Nat /\ DOMAIN queue = 1..Len(queue)
      /\ \A j \in DOMAIN queue : queue[j] \in 1..typed
      /\ \A i \in DOMAIN handed : handed[i] \in 1..typed
  BY <1>1, LenProperties, ElementOfSeq
<1>4. handed' \in Seq(1..typed') /\ queue \in Seq(1..typed')
  BY <1>1, <1>2
<1>5. /\ queue' \in Seq(1..typed') /\ DOMAIN queue' = 1..(Len(queue) + 1)
      /\ \A j \in DOMAIN queue : queue'[j] = queue[j]
      /\ queue'[Len(queue) + 1] = typed + 1
  BY <1>1, <1>2, <1>3, <1>4, AppendProperties
<1>6. \A j \in DOMAIN queue' : j \in DOMAIN queue \/ j = Len(queue) + 1
  BY <1>3, <1>5
<1>7. Grows(queue')
  <2> SUFFICES ASSUME NEW i \in DOMAIN queue', NEW j \in DOMAIN queue', i < j
               PROVE  queue'[i] < queue'[j]
    BY DEF Grows
  <2>1. i \in DOMAIN queue /\ queue'[i] = queue[i]
    BY <1>3, <1>5, <1>6
  <2>2. CASE j \in DOMAIN queue
    BY <2>1, <2>2, <1>5 DEF QueueInv, Grows
  <2>3. CASE j = Len(queue) + 1
    BY <2>1, <2>3, <1>1, <1>3, <1>5
  <2> QED
    BY <1>6, <2>2, <2>3
<1>8. \A i \in DOMAIN handed, j \in DOMAIN queue' : handed[i] < queue'[j]
  <2> SUFFICES ASSUME NEW i \in DOMAIN handed, NEW j \in DOMAIN queue'
               PROVE  handed[i] < queue'[j]
    OBVIOUS
  <2>1. CASE j \in DOMAIN queue
    BY <2>1, <1>5 DEF QueueInv
  <2>2. CASE j = Len(queue) + 1
    BY <2>2, <1>1, <1>3, <1>5
  <2> QED
    BY <1>6, <2>1, <2>2
<1>9. \A j \in DOMAIN queue' : due < queue'[j]
  <2> SUFFICES ASSUME NEW j \in DOMAIN queue'  PROVE due < queue'[j]
    OBVIOUS
  <2>1. CASE j \in DOMAIN queue
    BY <2>1, <1>5 DEF QueueInv
  <2>2. CASE j = Len(queue) + 1
    BY <2>2, <1>1, <1>5
  <2> QED
    BY <1>6, <2>1, <2>2
<1>10. Grows(handed') /\ (due' # NoTask => \A i \in DOMAIN handed' : handed'[i] < due')
  BY <1>1 DEF QueueInv, Grows
<1> QED
  BY <1>1, <1>2, <1>4, <1>5, <1>7, <1>8, <1>9, <1>10 DEF QueueInv

LEMMA DrainKeeps == ASSUME QueueInv, DrainQueue PROVE QueueInv'
<1>1. CASE queue = <<>>
  BY <1>1 DEF QueueInv, Grows, DrainQueue
<1>2. CASE queue # <<>>
  <2>1. /\ due' = queue[1] /\ queue' = Tail(queue) /\ UNCHANGED <<typed, handed>>
        /\ 1 \in DOMAIN queue
    BY <1>2 DEF QueueInv, DrainQueue
  <2>2. /\ queue' \in Seq(1..typed) /\ Len(queue') = Len(queue) - 1
        /\ \A j \in DOMAIN queue' : j + 1 \in DOMAIN queue /\ queue'[j] = queue[j + 1]
    BY <1>2, <2>1 DEF QueueInv
  <2>3. Grows(queue')
    BY <2>2 DEF QueueInv, Grows
  <2>4. /\ \A i \in DOMAIN handed, j \in DOMAIN queue' : handed[i] < queue'[j]
        /\ \A j \in DOMAIN queue' : queue[1] < queue'[j]
    <3>1. ASSUME NEW j \in DOMAIN queue' PROVE j + 1 \in DOMAIN queue /\ 1 < j + 1 /\ queue'[j] = queue[j + 1]
      BY <2>2
    <3> QED
      BY <2>1, <3>1 DEF QueueInv, Grows
  <2>5. queue[1] \in 1..typed /\ \A i \in DOMAIN handed : handed[i] < queue[1]
    BY <2>1 DEF QueueInv
  <2> QED
    BY <2>1, <2>2, <2>3, <2>4, <2>5 DEF QueueInv, Grows
<1> QED
  BY <1>1, <1>2

LEMMA HandKeeps ==
    ASSUME QueueInv, due # NoTask, due' = NoTask, handed' = Append(handed, due),
           UNCHANGED <<queue, typed>>
    PROVE  QueueInv'
<1>1. due \in 1..typed
  BY DEF QueueInv, NoTask
<1>2. /\ handed' \in Seq(1..typed) /\ Len(handed') = Len(handed) + 1
      /\ \A i \in DOMAIN handed' : \/ i \in DOMAIN handed /\ handed'[i] = handed[i]
                                   \/ i = Len(handed) + 1 /\ handed'[i] = due
  BY <1>1 DEF QueueInv
<1>3. Grows(handed')
  BY <1>1, <1>2 DEF QueueInv, Grows
<1>4. \A i \in DOMAIN handed', j \in DOMAIN queue : handed'[i] < queue[j]
  BY <1>2 DEF QueueInv
<1> QED
  BY <1>1, <1>2, <1>3, <1>4 DEF QueueInv, Grows, NoTask

\* What a step can do to the queue.
LEMMA QueueSteps ==
    Next => \/ UNCHANGED tasks
            \/ typed' = typed + 1 /\ queue' = Append(queue, typed') /\ UNCHANGED <<due, handed>>
            \/ DrainQueue
            \/ /\ due # NoTask /\ due' = NoTask /\ handed' = Append(handed, due)
               /\ UNCHANGED <<queue, typed>>
<1>1. UserStep => UNCHANGED tasks \/ QueueAdd
  BY DEF UserStep, Select, UserRun, Cancel, Delete, Clear, Asks, tasks
<1>2. DaemonStep => UNCHANGED tasks
  BY DEF DaemonStep, Exit, Reads, AgentDone, SessionEnds, tasks
<1>3. ASSUME HandleLine PROVE UNCHANGED tasks \/ DrainQueue
  <2>1. ASSUME NEW l, NEW rest, OnAnswer(l, rest) PROVE UNCHANGED tasks
    BY <2>1 DEF OnAnswer, OnSubscribed, OnStarted, OnRefused, StartFailed, OnCancelled,
                OnDeleted, OnCleared, OnClearing, tasks
  <2> QED
    BY <1>3, <2>1 DEF HandleLine, OnEnded, OnList, tasks
<1>4. ASSUME HostStep PROVE UNCHANGED tasks \/ DrainQueue \/ Dispatch
  BY <1>3, <1>4 DEF HostStep, Opened, OpenFails, TimeOut, OrphanAnswer, StartFailed, tasks
<1> QED
  BY <1>1, <1>2, <1>4 DEF Next, QueueAdd, Dispatch

LEMMA QueueInductive == Init /\ [][Next]_vars => []QueueInv
<1>1. Init => QueueInv
  BY DEF Init, QueueInv, Grows, NoTask
<1>2. QueueInv /\ [Next]_vars => QueueInv'
  <2>1. UNCHANGED vars => UNCHANGED tasks
    BY DEF vars, tasks
  <2> QED
    BY <2>1, QueueSteps, SameQueue, QueueAddKeeps, DrainKeeps, HandKeeps
<1> QED
  BY <1>1, <1>2, PTL

\* drainQueue and the timer: no message is run twice, or refused and run later,
\* however the ends of runs and the timers fall.
THEOREM MessagesAreHandedOnce == Spec => []HandedOnce
<1>1. QueueInv => HandedOnce
  <2> SUFFICES ASSUME QueueInv, NEW i \in DOMAIN handed, NEW j \in DOMAIN handed,
                      handed[i] = handed[j]
               PROVE  i = j
    BY DEF HandedOnce
  <2>1. i \in Nat /\ j \in Nat /\ handed[i] \in Nat /\ handed[j] \in Nat
    BY DEF QueueInv
  <2>2. ~(i < j) /\ ~(j < i)
    BY <2>1 DEF QueueInv, Grows
  <2> QED
    BY <2>1, <2>2
<1> QED
  BY <1>1, QueueInductive, PTL DEF Spec

-----------------------------------------------------------------------------
(* The pipes, as sets of what is in them.                                    *)

IsSeq(seq) == seq \in Seq(ToSet(seq))

\* A pipe that something is written to.
LEMMA SetOfAppend ==
    ASSUME NEW seq, IsSeq(seq), NEW e
    PROVE  IsSeq(Append(seq, e)) /\ ToSet(Append(seq, e)) = ToSet(seq) \cup {e}
<1> DEFINE S == ToSet(seq) \cup {e}
<1>1. seq \in Seq(S) /\ e \in S
  BY DEF IsSeq
<1> HIDE DEF S
<1>2. /\ Append(seq, e) \in Seq(S) /\ Len(Append(seq, e)) = Len(seq) + 1
      /\ \A i \in 1..Len(seq) : Append(seq, e)[i] = seq[i]
      /\ Append(seq, e)[Len(seq) + 1] = e
  BY <1>1
<1>3. ToSet(Append(seq, e)) = ToSet(seq) \cup {e}
  BY <1>1, <1>2 DEF ToSet
<1> QED
  BY <1>2, <1>3 DEF S, IsSeq

\* The rest of a pipe that is read.
LEMMA SetOfTail ==
    ASSUME NEW seq, IsSeq(seq), seq # <<>>
    PROVE  IsSeq(Tail(seq)) /\ ToSet(seq) = {Head(seq)} \cup ToSet(Tail(seq))
<1> DEFINE S == ToSet(seq)
<1>1. seq \in Seq(S)
  BY DEF IsSeq
<1>2. S = {seq[i] : i \in 1..Len(seq)}
  BY <1>1 DEF ToSet
<1> HIDE DEF S
<1>3. /\ Tail(seq) \in Seq(S) /\ Len(Tail(seq)) = Len(seq) - 1 /\ Head(seq) = seq[1]
      /\ \A i \in 1..Len(Tail(seq)) : Tail(seq)[i] = seq[i + 1]
      /\ Len(seq) \in Nat \ {0}
  <2>1. Len(seq) \in Nat \ {0}
    BY <1>1, EmptySeq
  <2> QED
    BY <1>1, <2>1, HeadTailProperties
<1>4. ToSet(Tail(seq)) = {seq[i + 1] : i \in 1..Len(Tail(seq))}
  <2>1. DOMAIN Tail(seq) = 1..Len(Tail(seq))
    BY <1>3, LenProperties
  <2> QED
    BY <1>3, <2>1 DEF ToSet
<1>5. S = {seq[1]} \cup {seq[i + 1] : i \in 1..Len(Tail(seq))}
  <2> DEFINE R == {seq[i + 1] : i \in 1..Len(Tail(seq))}
  <2>1. ASSUME NEW i \in 1..Len(seq), i # 1
        PROVE  seq[i] \in R
    <3>1. i - 1 \in 1..Len(Tail(seq)) /\ i = (i - 1) + 1
      BY <1>3, <2>1
    <3> QED
      BY <3>1
  <2>2. ASSUME NEW i \in 1..Len(Tail(seq)) PROVE seq[i + 1] \in S
    <3>1. i + 1 \in 1..Len(seq)
      BY <1>3
    <3> QED
      BY <1>2, <3>1
  <2>3. seq[1] \in S
    <3>1. 1 \in 1..Len(seq)
      BY <1>3
    <3> QED
      BY <1>2, <3>1
  <2>4. R \subseteq S
    BY <2>2
  <2>5. \A x \in S : x = seq[1] \/ x \in R
    <3> HIDE DEF R
    <3> QED
      BY <1>2, <2>1
  <2> QED
    BY <2>3, <2>4, <2>5
<1>6. Tail(seq) \in Seq(ToSet(Tail(seq)))
  <2>1. Tail(seq) \in [1..Len(Tail(seq)) -> S] /\ Len(Tail(seq)) \in Nat
    BY <1>3, LenProperties
  <2>2. Tail(seq) \in [1..Len(Tail(seq)) -> ToSet(Tail(seq))]
    BY <2>1 DEF ToSet
  <2> QED
    BY <2>1, <2>2, SeqDef
<1> QED
  BY <1>3, <1>4, <1>5, <1>6 DEF S, IsSeq

\* A pipe that several things are written to.
LEMMA SetOfConcat ==
    ASSUME NEW s, NEW t, IsSeq(s), IsSeq(t)
    PROVE  IsSeq(s \o t) /\ ToSet(s \o t) = ToSet(s) \cup ToSet(t)
<1> DEFINE S == ToSet(s) \cup ToSet(t)
<1>1. s \in Seq(S) /\ t \in Seq(S)
  BY DEF IsSeq
<1> HIDE DEF S
<1>2. /\ s \o t \in Seq(S) /\ Len(s \o t) = Len(s) + Len(t)
      /\ \A i \in 1..Len(s) : (s \o t)[i] = s[i]
      /\ \A i \in 1..Len(t) : (s \o t)[Len(s) + i] = t[i]
  BY <1>1
<1>3. ToSet(s \o t) = ToSet(s) \cup ToSet(t)
  <2> /\ Len(s) \in Nat /\ Len(t) \in Nat
      /\ DOMAIN s = 1..Len(s) /\ DOMAIN t = 1..Len(t) /\ DOMAIN (s \o t) = 1..Len(s \o t)
    BY <1>1, <1>2
  <2>1. ASSUME NEW i \in 1..Len(s \o t)
        PROVE  (s \o t)[i] \in ToSet(s) \cup ToSet(t)
    <3>1. CASE i <= Len(s)
      BY <1>2, <3>1 DEF ToSet
    <3>2. CASE ~(i <= Len(s))
      <4>1. i - Len(s) \in 1..Len(t) /\ i = Len(s) + (i - Len(s))
        BY <1>2, <3>2
      <4> QED
        BY <1>2, <4>1 DEF ToSet
    <3> QED
      BY <3>1, <3>2
  <2>2. ToSet(s \o t) \subseteq ToSet(s) \cup ToSet(t)
    BY <2>1 DEF ToSet
  <2>3. ASSUME NEW i \in 1..Len(s) PROVE s[i] \in ToSet(s \o t)
    <3>1. i \in 1..Len(s \o t)
      BY <1>2
    <3> QED
      BY <1>2, <3>1 DEF ToSet
  <2>4. ASSUME NEW i \in 1..Len(t) PROVE t[i] \in ToSet(s \o t)
    <3>1. Len(s) + i \in 1..Len(s \o t)
      BY <1>2
    <3> QED
      BY <1>2, <3>1 DEF ToSet
  <2>5. ToSet(s) \cup ToSet(t) \subseteq ToSet(s \o t)
    BY <2>3, <2>4 DEF ToSet
  <2> QED
    BY <2>2, <2>5
<1> QED
  BY <1>2, <1>3 DEF S, IsSeq

\* A finite set of numbers in order has all of them.
LEMMA InOrderHasAll ==
    ASSUME NEW S, IsFiniteSet(S), S \subseteq Int, NEW s \in InOrder(S)
    PROVE  /\ Cardinality(S) \in Nat /\ s \in [1..Cardinality(S) -> S]
           /\ \A x \in S : \E i \in 1..Cardinality(S) : s[i] = x
<1> DEFINE n == Cardinality(S)
<1>1. n \in Nat /\ IsFiniteSet(1..n) /\ Cardinality(1..n) = n
  BY FS_CardinalityType, FS_Interval
<1>2. s \in [1..n -> S] /\ \A i, j \in 1..n : i < j => s[i] < s[j]
  BY DEF InOrder
<1> HIDE DEF n
<1>3. ASSUME NEW i \in 1..n, NEW j \in 1..n, s[i] = s[j] PROVE i = j
  <2>1. s[i] \in S /\ s[j] \in S
    BY <1>2
  <2>2. s[i] \in Int
    BY <2>1
  <2>3. i \in Int /\ j \in Int
    BY <1>1
  <2>4. ASSUME i < j PROVE FALSE
    <3>1. s[i] < s[j]
      BY <1>2, <2>4
    <3> QED
      BY <1>3, <2>2, <3>1
  <2>5. ASSUME j < i PROVE FALSE
    <3>1. s[j] < s[i]
      BY <1>2, <2>5
    <3> QED
      BY <1>3, <2>2, <3>1
  <2> QED
    BY <2>3, <2>4, <2>5
<1>4. s \in Injection(1..n, S)
  BY <1>2, <1>3 DEF Injection, IsInjective
<1>5. s \in Surjection(1..n, S)
  BY <1>1, <1>4, FS_Injection DEF n
<1>6. n \in Nat /\ s \in [1..n -> S] /\ \A x \in S : \E i \in 1..n : s[i] = x
  BY <1>1, <1>2, <1>5 DEF Surjection
<1> QED
  BY <1>6 DEF n

\* What is made of each of its numbers, in that order.
LEMMA InOrderMapped ==
    ASSUME NEW S, IsFiniteSet(S), S \subseteq Int, NEW s \in InOrder(S), NEW F
    PROVE  LET a == [i \in DOMAIN s |-> F[s[i]]]
           IN  IsSeq(a) /\ \A x \in S : F[x] \in ToSet(a)
<1> DEFINE a == [i \in DOMAIN s |-> F[s[i]]]
<1> DEFINE n == Cardinality(S)
<1>1. n \in Nat /\ s \in [1..n -> S] /\ \A x \in S : \E i \in 1..n : s[i] = x
  BY InOrderHasAll
<1> HIDE DEF n
<1>2. a = [i \in 1..n |-> F[s[i]]]
  BY <1>1
<1>3. a \in [1..n -> ToSet(a)]
  BY <1>2 DEF ToSet
<1>4. IsSeq(a)
  <2> DEFINE T == ToSet(a)
  <2>1. a \in [1..n -> T]
    BY <1>3
  <2> HIDE DEF a, T
  <2>2. a \in Seq(T)
    BY <1>1, <2>1, SeqDef
  <2> QED
    BY <2>2 DEF T, IsSeq
<1>5. \A x \in S : F[x] \in ToSet(a)
  BY <1>1, <1>2 DEF ToSet
<1> QED
  BY <1>4, <1>5

\* Nothing else is made.
LEMMA InOrderOnly ==
    ASSUME NEW S, NEW s \in InOrder(S), NEW F
    PROVE  \A e \in ToSet([i \in DOMAIN s |-> F[s[i]]]) : \E x \in S : e = F[x]
BY DEF InOrder, ToSet

-----------------------------------------------------------------------------
(* No call of runTask is forgotten.                                          *)

PendingInv ==
    /\ IsSeq(requests) /\ IsSeq(lines)
    /\ DOMAIN step = Runs /\ DOMAIN of = Runs /\ DOMAIN asked = Runs
    /\ spawns > 0 => lines = <<>>
    /\ \A r \in Runs : step[r] = "opening" => ~up
    /\ CallsPending

\* The calls that wait.
Waits(st, r) == st[r] \in {"opening", "sent"}

\* What a step leaves to a call that still waits.
Left(st, ls, r) ==
    Waits(st, r) =>
        /\ st[r] = step[r]
        /\ \A l \in ToSet(lines) :
               l.kind = "answer" /\ l.to.kind = "start" /\ l.to.run = r =>
                   \/ l \in ToSet(ls)
                   \/ l.ok /\ step[r] = "opening"

\* A step that takes no answer and no request of a waiting call away.
LEMMA KeepsWaiting ==
    ASSUME PendingInv, UNCHANGED <<of, asked, up, spawns>>, NEW st, NEW ls,
           step' = st, DOMAIN st = Runs, lines' = ls, IsSeq(ls), spawns > 0 => ls = <<>>,
           IsSeq(requests'),
           \A r \in Runs : Left(st, ls, r),
           \A r \in Runs : step[r] = "sent" /\ StartOf(r) \in ToSet(requests) =>
               StartOf(r) \in ToSet(requests') \/ Answered(r, {TRUE})' \/ Answered(r, {FALSE})'
    PROVE  PendingInv'
<1>1. ASSUME NEW r \in Runs, NEW b \in BOOLEAN, Waits(st, r), Answered(r, {b}),
             b => step[r] # "opening"
      PROVE  Answered(r, {b})'
  BY <1>1 DEF Left, Answered
<1>2. ASSUME NEW r \in Runs, step'[r] = "opening"
      PROVE  ~up' /\ (spawns' > 0 \/ Answered(r, {FALSE})')
  <2>1. Waits(st, r) /\ step[r] = "opening"
    BY <1>2 DEF Waits, Left
  <2>2. ~up /\ (spawns > 0 \/ Answered(r, {FALSE}))
    BY <2>1 DEF PendingInv, CallsPending
  <2> QED
    BY <1>1, <2>1, <2>2
<1>3. ASSUME NEW r \in Runs, step'[r] = "sent"
      PROVE  \/ up' /\ (StartOf(r)' \in ToSet(requests') \/ Answered(r, {TRUE})')
             \/ Answered(r, {FALSE})'
  <2>1. Waits(st, r) /\ step[r] = "sent"
    BY <1>3 DEF Waits, Left
  <2>2. \/ up /\ (StartOf(r) \in ToSet(requests) \/ Answered(r, {TRUE}))
        \/ Answered(r, {FALSE})
    BY <2>1 DEF PendingInv, CallsPending
  <2>3. StartOf(r)' = StartOf(r)
    BY DEF StartOf
  <2>4. Answered(r, {FALSE}) => Answered(r, {FALSE})'
    BY <1>1, <2>1
  <2>5. Answered(r, {TRUE}) => Answered(r, {TRUE})'
    BY <1>1, <2>1
  <2> QED
    BY <2>1, <2>2, <2>3, <2>4, <2>5
<1>4. CallsPending'
  BY <1>2, <1>3 DEF CallsPending
<1> QED
  BY <1>2, <1>4 DEF PendingInv

\* The same, when the pipes only gain.
LEMMA OnlyGains ==
    ASSUME PendingInv, UNCHANGED <<step, of, asked, up, spawns>>,
           IsSeq(lines'), IsSeq(requests'), spawns > 0 => lines' = <<>>,
           ToSet(lines) \subseteq ToSet(lines'), ToSet(requests) \subseteq ToSet(requests')
    PROVE  PendingInv'
<1>1. \A r \in Runs : Left(step', lines', r)
  BY DEF Left
<1> QED
  BY <1>1, KeepsWaiting DEF PendingInv

\* rejectAll answers what was not answered.
LEMMA RejectedAnswers ==
    ASSUME IsSeq(requests), NEW ls, IsSeq(ls), NEW K, Rejected(ls, K)
    PROVE  /\ IsSeq(lines')
           /\ \A l \in ToSet(ls) : l.kind = "answer" /\ l.to.kind \in K =>
                  Answer(l.to, FALSE, NoSession) \in ToSet(lines')
           /\ \A q \in ToSet(requests) : q.kind \in K =>
                  Answer(q, FALSE, NoSession) \in ToSet(lines')
           /\ \A l \in ToSet(lines') : \E q : l = Answer(q, FALSE, NoSession)
<1>1. PICK as \in InOrder(UnreadAt(ls, K)), qs \in InOrder(OpenAt(K)) :
          lines' = [i \in DOMAIN as |-> Answer(ls[as[i]].to, FALSE, NoSession)]
                   \o [i \in DOMAIN qs |-> Answer(requests[qs[i]], FALSE, NoSession)]
  BY DEF Rejected
<1> DEFINE F == [x \in UnreadAt(ls, K) |-> Answer(ls[x].to, FALSE, NoSession)]
           G == [x \in OpenAt(K) |-> Answer(requests[x], FALSE, NoSession)]
           A == [i \in DOMAIN as |-> F[as[i]]]
           Q == [i \in DOMAIN qs |-> G[qs[i]]]
<1>2. ASSUME NEW seq, IsSeq(seq), NEW P \in SUBSET DOMAIN seq
      PROVE  IsFiniteSet(P) /\ P \subseteq Int
  <2>1. Len(seq) \in Nat /\ DOMAIN seq = 1..Len(seq)
    BY <1>2, LenProperties DEF IsSeq
  <2>2. IsFiniteSet(1..Len(seq))
    BY <2>1, FS_Interval
  <2> QED
    BY <2>1, <2>2, FS_Subset
<1>3. /\ IsFiniteSet(UnreadAt(ls, K)) /\ UnreadAt(ls, K) \subseteq Int
      /\ IsFiniteSet(OpenAt(K)) /\ OpenAt(K) \subseteq Int
  BY <1>2 DEF UnreadAt, OpenAt
<1>4. IsSeq(A) /\ \A x \in UnreadAt(ls, K) : F[x] \in ToSet(A)
  <2> HIDE DEF F
  <2> QED
    BY <1>3, InOrderMapped
<1>5. IsSeq(Q) /\ \A x \in OpenAt(K) : G[x] \in ToSet(Q)
  <2> HIDE DEF G
  <2> QED
    BY <1>3, InOrderMapped
<1>6. \A i \in DOMAIN as : as[i] \in UnreadAt(ls, K)
  BY DEF InOrder
<1>7. \A i \in DOMAIN qs : qs[i] \in OpenAt(K)
  BY DEF InOrder
<1>8. A = [i \in DOMAIN as |-> Answer(ls[as[i]].to, FALSE, NoSession)]
  BY <1>6
<1>9. Q = [i \in DOMAIN qs |-> Answer(requests[qs[i]], FALSE, NoSession)]
  BY <1>7
<1>10. \A l \in ToSet(ls) : l.kind = "answer" /\ l.to.kind \in K =>
           Answer(l.to, FALSE, NoSession) \in ToSet(A)
  <2> HIDE DEF A
  <2> QED
    BY <1>4 DEF ToSet, UnreadAt
<1>11. \A q \in ToSet(requests) : q.kind \in K =>
           Answer(q, FALSE, NoSession) \in ToSet(Q)
  <2> HIDE DEF Q
  <2> QED
    BY <1>5 DEF ToSet, OpenAt
<1>12. lines' = A \o Q
  BY <1>1, <1>8, <1>9
<1>13. \A l \in ToSet(A) \cup ToSet(Q) : \E q : l = Answer(q, FALSE, NoSession)
  <2> HIDE DEF A, Q
  <2>1. \A l \in ToSet(A) : \E i \in DOMAIN as : l = Answer(ls[as[i]].to, FALSE, NoSession)
    BY <1>8 DEF ToSet
  <2>2. \A l \in ToSet(Q) : \E i \in DOMAIN qs : l = Answer(requests[qs[i]], FALSE, NoSession)
    BY <1>9 DEF ToSet
  <2> QED
    BY <2>1, <2>2
<1> HIDE DEF A, Q
<1>14. IsSeq(lines') /\ ToSet(lines') = ToSet(A) \cup ToSet(Q)
  BY <1>4, <1>5, <1>12, SetOfConcat
<1> QED
  BY <1>10, <1>11, <1>13, <1>14

\* A run that is taken out.  Of a daemon that is let go no call waits any more.
LEMMA UntrackPending ==
    ASSUME PendingInv, OneInv, UNCHANGED <<of, asked>>, NEW C, NEW ls, NEW st,
           Untrack(C, ls, st), DOMAIN st = Runs, IsSeq(ls), spawns > 0 => ls = <<>>,
           \A r \in Runs : Left(st, ls, r)
    PROVE  PendingInv'
<1>1. CASE up /\ ~keepAlive /\ \A c \in Chats \ C : tracked[c] = NoRun
  <2>1. /\ step' = [r \in Runs |-> IF st[r] = "sent" THEN "orphan" ELSE st[r]]
        /\ Rejected(ls, UiKinds) /\ requests' = <<>> /\ UNCHANGED spawns
    BY <1>1 DEF Untrack
  <2>2. IsSeq(lines')
    BY <2>1, RejectedAnswers DEF PendingInv
  <2>3. IsSeq(requests')
    BY <2>1 DEF IsSeq
  <2>4. ASSUME NEW r \in Runs PROVE step'[r] \notin {"opening", "sent"}
    <3>1. CASE st[r] = "sent"
      BY <2>1, <3>1
    <3>2. CASE st[r] # "sent"
      BY <1>1, <2>1, <3>2 DEF PendingInv, Left, Waits
    <3> QED
      BY <3>1, <3>2
  <2>5. spawns' = 0
    BY <1>1, <2>1 DEF OneInv
  <2> QED
    BY <2>1, <2>2, <2>3, <2>4, <2>5 DEF PendingInv, CallsPending
<1>2. CASE ~(up /\ ~keepAlive /\ \A c \in Chats \ C : tracked[c] = NoRun)
  <2>1. step' = st /\ lines' = ls /\ UNCHANGED <<up, spawns, requests>>
    BY <1>2 DEF Untrack
  <2> QED
    BY <2>1, KeepsWaiting DEF PendingInv
<1> QED
  BY <1>1, <1>2

LEMMA SamePending ==
    ASSUME PendingInv, UNCHANGED <<step, of, asked, up, spawns, requests, lines>>
    PROVE  PendingInv'
BY OnlyGains DEF PendingInv

LEMMA AsksPending == ASSUME PendingInv, NEW q, Asks(q) PROVE PendingInv'
<1>1. UNCHANGED <<step, of, asked, up, spawns, lines>> /\ requests' = Append(requests, q)
  BY DEF Asks, calls, host
<1>2. IsSeq(requests') /\ ToSet(requests) \subseteq ToSet(requests')
  BY <1>1, SetOfAppend DEF PendingInv
<1> QED
  BY <1>1, <1>2, OnlyGains DEF PendingInv

LEMMA RunTaskPending ==
    ASSUME PendingInv, OneInv, Settled, RunTask
    PROVE  PendingInv'
<1>1. PICK r \in Unused, c \in Current :
        /\ of' = [of EXCEPT ![r] = c] /\ asked' = [asked EXCEPT ![r] = session[c]]
        /\ IF up THEN /\ step' = [step EXCEPT ![r] = "sent"]
                      /\ requests' = Append(requests, StartOf(r)')
                      /\ UNCHANGED spawns
                 ELSE /\ step' = [step EXCEPT ![r] = "opening"]
                      /\ Ensure /\ UNCHANGED requests
        /\ UNCHANGED <<up, lines>>
  BY DEF RunTask
<1>2. r \in Runs /\ step[r] = "unused"
  BY DEF Unused
<1>3. DOMAIN step' = Runs /\ DOMAIN of' = Runs /\ DOMAIN asked' = Runs
  BY <1>1 DEF PendingInv
<1>4. ASSUME NEW q \in Runs, q # r PROVE StartOf(q)' = StartOf(q) /\ step'[q] = step[q]
  BY <1>1, <1>4 DEF StartOf, PendingInv
<1>5. \A q, oks : Answered(q, oks)' <=> Answered(q, oks)
  BY <1>1 DEF Answered
<1>6. CASE up
  <2>1. IsSeq(requests') /\ ToSet(requests') = ToSet(requests) \cup {StartOf(r)'}
    <3>1. requests' = Append(requests, StartOf(r)')
      BY <1>1, <1>6
    <3>2. IsSeq(requests)
      BY DEF PendingInv
    <3>3. \A e : IsSeq(Append(requests, e)) /\ ToSet(Append(requests, e)) = ToSet(requests) \cup {e}
      BY <3>2, SetOfAppend
    <3> QED
      BY <3>1, <3>3
  <2>2. step'[r] = "sent"
    BY <1>1, <1>2, <1>6 DEF PendingInv
  <2>3. CallsPending'
    <3>1. ASSUME NEW q \in Runs, step'[q] = "opening"
          PROVE  spawns' > 0 \/ Answered(q, {FALSE})'
      BY <1>1, <1>4, <1>5, <1>6, <2>2, <3>1 DEF PendingInv, CallsPending
    <3>2. ASSUME NEW q \in Runs, step'[q] = "sent"
          PROVE  \/ up' /\ (StartOf(q)' \in ToSet(requests') \/ Answered(q, {TRUE})')
                 \/ Answered(q, {FALSE})'
      <4>1. CASE q = r
        BY <1>1, <1>6, <2>1, <4>1
      <4>2. CASE q # r
        BY <1>1, <1>4, <1>5, <1>6, <2>1, <3>2, <4>2 DEF PendingInv, CallsPending
      <4> QED
        BY <4>1, <4>2
    <3> QED
      BY <3>1, <3>2 DEF CallsPending
  <2>4. \A q \in Runs : step'[q] # "opening"
    <3>1. \A q \in Runs : step[q] # "opening"
      BY <1>6 DEF PendingInv
    <3> QED
      BY <1>4, <2>2, <3>1
  <2>5. IsSeq(lines') /\ (spawns' > 0 => lines' = <<>>)
    BY <1>1, <1>6 DEF PendingInv
  <2> QED
    BY <1>3, <2>1, <2>3, <2>4, <2>5 DEF PendingInv
<1>7. CASE ~up
  <2>1. spawns' > 0 /\ lines = <<>> /\ requests' = requests
    BY <1>1, <1>7 DEF Ensure, OneInv, Settled
  <2>2. step'[r] = "opening"
    BY <1>1, <1>2, <1>7 DEF PendingInv
  <2>3. \A q \in Runs : step'[q] # "sent"
    <3>1. ASSUME NEW q \in Runs PROVE ~Answered(q, {FALSE})
      BY <2>1 DEF Answered, ToSet
    <3>2. \A q \in Runs : step[q] # "sent"
      BY <1>7, <3>1 DEF PendingInv, CallsPending
    <3> QED
      BY <1>4, <2>2, <3>2
  <2>4. CallsPending'
    BY <2>1, <2>3 DEF CallsPending
  <2> QED
    BY <1>1, <1>3, <1>7, <2>1, <2>4 DEF PendingInv
<1> QED
  BY <1>6, <1>7

\* Nothing of a call is taken away.
LEMMA LeftAsItWas ==
    ASSUME PendingInv, NEW st, \A r \in Runs : Waits(st, r) => st[r] = step[r]
    PROVE  \A r \in Runs : Left(st, lines, r)
BY DEF Left

LEMMA UserPending ==
    ASSUME PendingInv, OneInv, UserStep
    PROVE  PendingInv'
<1>1. CASE Select
  BY <1>1, SamePending DEF Select, calls, host, pipes
<1>2. CASE UserRun
  BY <1>2, RunTaskPending DEF UserRun
<1>3. CASE QueueAdd
  BY <1>3, SamePending DEF QueueAdd, calls, host, pipes
<1>4. ASSUME NEW C, Untrack(C, lines, step), UNCHANGED <<of, asked>> PROVE PendingInv'
  BY <1>4, UntrackPending, LeftAsItWas DEF PendingInv
<1>5. CASE Cancel
  BY <1>4, <1>5, AsksPending DEF Cancel
<1>6. CASE Delete
  BY <1>4, <1>6, AsksPending DEF Delete
<1>7. CASE Clear
  BY <1>7, AsksPending DEF Clear
<1> QED
  BY <1>1, <1>2, <1>3, <1>5, <1>6, <1>7 DEF UserStep

\* The head of the pipe is handled.
LEMMA LeftByTail ==
    ASSUME PendingInv, lines # <<>>, NEW st, NEW r \in Runs,
           Waits(st, r) => st[r] = step[r],
           LET l == Head(lines)
           IN  Waits(st, r) /\ l.kind = "answer" /\ l.to.kind = "start" /\ l.to.run = r =>
                   l.ok /\ step[r] = "opening"
    PROVE  Left(st, Tail(lines), r)
BY SetOfTail DEF PendingInv, Left

LEMMA AnswerPending ==
    ASSUME PendingInv, OneInv, lines # <<>>, Head(lines).kind = "answer",
           OnAnswer(Head(lines), Tail(lines))
    PROVE  PendingInv'
<1> DEFINE l == Head(lines)
           rest == Tail(lines)
<1>1. IsSeq(rest) /\ spawns = 0 /\ ToSet(rest) \subseteq ToSet(lines)
  BY SetOfTail DEF PendingInv, OneInv
<1>2. ASSUME l.to.kind # "start" PROVE \A r \in Runs : Left(step, rest, r)
  BY <1>2, LeftByTail
<1>3. ASSUME l.to.kind # "start", NEW C, Untrack(C, rest, step), UNCHANGED <<of, asked>>
      PROVE  PendingInv'
  BY <1>1, <1>2, <1>3, UntrackPending DEF PendingInv
<1>4. ASSUME l.to.kind # "start", lines' = rest, UNCHANGED <<step, of, asked, up, spawns>>,
             IsSeq(requests'), ToSet(requests) \subseteq ToSet(requests')
      PROVE  PendingInv'
  BY <1>1, <1>2, <1>4, KeepsWaiting DEF PendingInv
<1>5. ASSUME NEW r \in Runs, NEW st, \A q \in Runs : Waits(st, q) => st[q] = step[q],
             l.to.run \in Runs => ~Waits(st, l.to.run) \/ (l.ok /\ step[l.to.run] = "opening")
      PROVE  Left(st, rest, r)
  BY <1>5, LeftByTail
<1>6. CASE l.to.kind = "subscribe" /\ OnSubscribed(l, rest)
  BY <1>4, <1>6 DEF OnSubscribed, calls, PendingInv
<1>7. CASE l.to.kind = "start" /\ l.ok /\ OnStarted(l, rest)
  <2>1. /\ lines' = rest /\ UNCHANGED <<of, asked, up, spawns, requests>>
        /\ IF step[l.to.run] = "sent" THEN step' = [step EXCEPT ![l.to.run] = "over"]
                                      ELSE UNCHANGED step
    BY <1>7 DEF OnStarted, host
  <2>2. DOMAIN step' = Runs
    BY <2>1 DEF PendingInv
  <2>3. \A q \in Runs : Waits(step', q) => step'[q] = step[q]
    BY <2>1 DEF PendingInv, Waits
  <2>4. l.to.run \in Runs => ~Waits(step', l.to.run) \/ (l.ok /\ step[l.to.run] = "opening")
    BY <1>7, <2>1 DEF PendingInv, Waits
  <2>5. \A r \in Runs : Left(step', rest, r)
    BY <1>5, <2>3, <2>4
  <2> QED
    BY <1>1, <2>1, <2>2, <2>5, KeepsWaiting DEF PendingInv
<1>8. CASE l.to.kind = "start" /\ ~l.ok /\ OnRefused(l, rest)
  <2>1. CASE step[l.to.run] \in {"sent", "opening"}
    <3> DEFINE st == [step EXCEPT ![l.to.run] = "over"]
    <3>1. /\ Untrack({of[l.to.run]}, rest, st) /\ UNCHANGED <<of, asked>>
      BY <1>8, <2>1 DEF OnRefused, StartFailed
    <3>2. DOMAIN st = Runs /\ \A q \in Runs : Waits(st, q) => st[q] = step[q]
      BY DEF PendingInv, Waits
    <3>3. l.to.run \in Runs => ~Waits(st, l.to.run)
      BY DEF PendingInv, Waits
    <3> HIDE DEF st
    <3>4. \A r \in Runs : Left(st, rest, r)
      BY <1>5, <3>2, <3>3
    <3> QED
      BY <1>1, <3>1, <3>2, <3>4, UntrackPending
  <2>2. CASE step[l.to.run] \notin {"sent", "opening"}
    <3>1. \A r \in Runs : Left(step, rest, r)
      BY <1>5, <2>2 DEF Waits
    <3>2. lines' = rest /\ UNCHANGED <<step, of, asked, up, spawns, requests>>
      BY <1>8, <2>2 DEF OnRefused, calls, host
    <3> QED
      BY <1>1, <3>1, <3>2, KeepsWaiting DEF PendingInv
  <2> QED
    BY <2>1, <2>2
<1>9. CASE l.to.kind = "cancel" /\ OnCancelled(l, rest)
  BY <1>3, <1>4, <1>9 DEF OnCancelled, host, PendingInv
<1>10. CASE l.to.kind = "delete" /\ OnDeleted(l, rest)
  BY <1>3, <1>10 DEF OnDeleted
<1>11. CASE l.to.kind = "clear" /\ OnCleared(l, rest)
  <2>1. lines' = rest /\ UNCHANGED <<step, of, asked, up, spawns>>
    BY <1>11 DEF OnCleared, calls, host
  <2>2. requests' = requests \/ \E q : requests' = Append(requests, q)
    BY <1>11 DEF OnCleared
  <2>3. IsSeq(requests') /\ ToSet(requests) \subseteq ToSet(requests')
    BY <2>2, SetOfAppend DEF PendingInv
  <2> QED
    BY <1>4, <1>11, <2>1, <2>3
<1>12. CASE l.to.kind = "clearing" /\ OnClearing(l, rest)
  BY <1>3, <1>12 DEF OnClearing
<1> QED
  BY <1>6, <1>7, <1>8, <1>9, <1>10, <1>11, <1>12 DEF OnAnswer

\* Where a spawn goes on, no call has an answer, and none has sent its request.
LEMMA SpawnPending ==
    ASSUME PendingInv, OneInv, spawns > 0
    PROVE  /\ ~up /\ spawns = 1 /\ lines = <<>>
           /\ \A r \in Runs : step[r] # "sent"
<1>1. ~up /\ spawns = 1 /\ lines = <<>>
  BY DEF PendingInv, OneInv
<1>2. \A r \in Runs : ~Answered(r, {FALSE})
  BY <1>1 DEF Answered, ToSet
<1> QED
  BY <1>1, <1>2 DEF PendingInv, CallsPending

LEMMA OpeningFinite == ASSUME TRUE PROVE IsFiniteSet(Opening) /\ Opening \subseteq Int
<1>1. MaxRuns \in Nat
  BY EditorBoundsAssumption DEF EditorBoundsAssumption
<1>2. IsFiniteSet(Runs) /\ Runs \subseteq Int
  BY <1>1, FS_Interval DEF Runs
<1>3. Opening \in SUBSET Runs
  BY DEF Opening
<1> QED
  BY <1>2, <1>3, FS_Subset

LEMMA OpenedPending == ASSUME PendingInv, OneInv, Opened PROVE PendingInv'
<1>1. /\ up' = TRUE /\ lines' = <<>> /\ spawns' = spawns - 1 /\ spawns > 0
      /\ step' = [r \in Runs |-> IF r \in Opening THEN "sent" ELSE step[r]]
      /\ UNCHANGED <<of, asked>>
  BY DEF Opened
<1>2. PICK rs \in InOrder(Opening) :
          requests' = <<Request("subscribe", NoSession, NoChat)>>
                      \o [i \in DOMAIN rs |-> StartOf(rs[i])]
  BY DEF Opened
<1> DEFINE F == [r \in Opening |-> StartOf(r)]
           a == [i \in DOMAIN rs |-> F[rs[i]]]
           b == <<Request("subscribe", NoSession, NoChat)>>
<1>3. a = [i \in DOMAIN rs |-> StartOf(rs[i])]
  BY DEF InOrder
<1>4. IsSeq(a) /\ \A r \in Opening : F[r] \in ToSet(a)
  <2> HIDE DEF F
  <2> QED
    BY OpeningFinite, InOrderMapped
<1>5. IsSeq(b)
  BY DEF IsSeq, ToSet
<1>6. \A r \in Opening : StartOf(r) \in ToSet(a)
  <2> HIDE DEF a
  <2> QED
    BY <1>4
<1>7. requests' = b \o a
  BY <1>2, <1>3
<1> HIDE DEF a, b
<1>8. IsSeq(requests') /\ \A r \in Opening : StartOf(r) \in ToSet(requests')
  BY <1>4, <1>5, <1>6, <1>7, SetOfConcat
<1>9. ASSUME NEW r \in Runs
      PROVE  /\ step'[r] # "opening"
             /\ step'[r] = "sent" => r \in Opening /\ StartOf(r)' = StartOf(r)
  <2>1. step[r] # "sent"
    BY <1>1, SpawnPending
  <2>2. step[r] = "opening" <=> r \in Opening
    BY DEF Opening
  <2> QED
    BY <1>1, <2>1, <2>2 DEF StartOf
<1>10. CallsPending'
  BY <1>1, <1>8, <1>9 DEF CallsPending
<1>11. spawns' = 0 /\ IsSeq(lines')
  BY <1>1, SpawnPending DEF IsSeq
<1>12. DOMAIN step' = Runs /\ DOMAIN of' = Runs /\ DOMAIN asked' = Runs
  BY <1>1 DEF PendingInv
<1> QED
  BY <1>8, <1>9, <1>10, <1>11, <1>12 DEF PendingInv

LEMMA OpenFailsPending == ASSUME PendingInv, OneInv, OpenFails PROVE PendingInv'
<1>1. /\ spawns' = spawns - 1 /\ spawns > 0
      /\ UNCHANGED <<step, of, asked, up, requests>>
  BY DEF OpenFails, calls
<1>2. PICK rs \in InOrder(Opening) :
          lines' = [i \in DOMAIN rs |-> Answer(StartOf(rs[i]), FALSE, NoSession)]
  BY DEF OpenFails
<1> DEFINE F == [r \in Opening |-> Answer(StartOf(r), FALSE, NoSession)]
           a == [i \in DOMAIN rs |-> F[rs[i]]]
<1>3. a = [i \in DOMAIN rs |-> Answer(StartOf(rs[i]), FALSE, NoSession)]
  BY DEF InOrder
<1>4. IsSeq(a) /\ \A r \in Opening : F[r] \in ToSet(a)
  <2> HIDE DEF F
  <2> QED
    BY OpeningFinite, InOrderMapped
<1>5. \A r \in Opening : Answer(StartOf(r), FALSE, NoSession) \in ToSet(a)
  <2> HIDE DEF a
  <2> QED
    BY <1>4
<1>6. lines' = a
  BY <1>2, <1>3
<1> HIDE DEF a
<1>7. \A r \in Opening : Answered(r, {FALSE})'
  BY <1>5, <1>6 DEF Answered, Answer, StartOf
<1>8. CallsPending'
  <2>1. \A r \in Runs : step'[r] # "sent"
    BY <1>1, SpawnPending
  <2>2. \A r \in Runs : step'[r] = "opening" => r \in Opening
    BY <1>1 DEF Opening
  <2> QED
    BY <1>7, <2>1, <2>2 DEF CallsPending
<1>9. spawns' = 0
  BY <1>1, SpawnPending
<1> QED
  BY <1>1, <1>4, <1>6, <1>8, <1>9 DEF PendingInv

LEMMA HostPending ==
    ASSUME PendingInv, OneInv, HostStep
    PROVE  PendingInv'
<1>1. CASE Dispatch
  BY <1>1, RunTaskPending, SamePending DEF Dispatch, calls, host, pipes
<1>2. CASE HandleLine
  <2> DEFINE l == Head(lines)
             rest == Tail(lines)
  <2>1. lines # <<>> /\ IsSeq(rest) /\ spawns = 0
    BY <1>2, SetOfTail DEF HandleLine, PendingInv, OneInv
  <2>2. ASSUME l.kind # "answer" PROVE \A r \in Runs : Left(step, rest, r)
    BY <2>1, <2>2, LeftByTail
  <2>3. CASE l.kind = "ended" /\ OnEnded(l, rest)
    BY <2>1, <2>2, <2>3, UntrackPending DEF OnEnded, FinishRunBySession, PendingInv
  <2>4. CASE l.kind = "list" /\ OnList(l, rest)
    BY <2>1, <2>2, <2>4, KeepsWaiting DEF OnList, calls, host, PendingInv
  <2> QED
    BY <1>2, <2>1, <2>3, <2>4, AnswerPending DEF HandleLine
<1>3. ASSUME NEW r \in Runs, StartFailed(r, lines) PROVE PendingInv'
  <2> DEFINE st == [step EXCEPT ![r] = "over"]
  <2>1. Untrack({of[r]}, lines, st) /\ UNCHANGED <<of, asked>>
    BY <1>3 DEF StartFailed
  <2>2. DOMAIN st = Runs /\ \A q \in Runs : Waits(st, q) => st[q] = step[q]
    BY DEF PendingInv, Waits
  <2> HIDE DEF st
  <2> QED
    BY <2>1, <2>2, LeftAsItWas, UntrackPending DEF PendingInv
<1>4. ASSUME NEW r \in Runs, TimeOut(r) PROVE PendingInv'
  BY <1>3, <1>4 DEF TimeOut
<1>5. ASSUME NEW r \in Runs, OrphanAnswer(r) PROVE PendingInv'
  <2>1. CASE StartFailed(r, lines)
    BY <1>3, <2>1
  <2>2. CASE /\ step' = [step EXCEPT ![r] = "over"]
             /\ UNCHANGED <<of, asked, host, pipes>>
    <3>1. DOMAIN step' = Runs /\ \A q \in Runs : Waits(step', q) => step'[q] = step[q]
      BY <2>2 DEF PendingInv, Waits
    <3>2. \A q \in Runs : Left(step', lines, q)
      BY <3>1, LeftAsItWas
    <3> QED
      BY <2>2, <3>1, <3>2, KeepsWaiting DEF PendingInv, host, pipes
  <2> QED
    BY <1>5, <2>1, <2>2 DEF OrphanAnswer
<1> QED
  BY <1>1, <1>2, <1>4, <1>5, OpenedPending, OpenFailsPending DEF HostStep

\* The daemon takes the next request and says what it has to say.
LEMMA ReadsPending ==
    ASSUME PendingInv, OneInv, Reads
    PROVE  PendingInv'
<1> DEFINE q == Head(requests)
<1>1. /\ up /\ requests # <<>> /\ requests' = Tail(requests)
      /\ UNCHANGED <<step, of, asked, up, spawns>>
  BY DEF Reads, calls, host
<1>2. spawns = 0 /\ IsSeq(requests') /\ ToSet(requests) = {q} \cup ToSet(requests')
  BY <1>1, SetOfTail DEF PendingInv, OneInv
<1>3. PICK says : /\ IsSeq(says) /\ lines' = lines \o says
                  /\ q.kind = "start" => \E l \in ToSet(says), ok \in BOOLEAN : \E s : l = Answer(q, ok, s)
  <2>1. ASSUME NEW x PROVE IsSeq(<<x>>) /\ x \in ToSet(<<x>>)
    BY DEF IsSeq, ToSet
  <2>2. ASSUME NEW x, NEW y PROVE IsSeq(<<x, y>>) /\ x \in ToSet(<<x, y>>)
    <3>1. DOMAIN <<x, y>> = 1..2 /\ <<x, y>>[1] = x
      OBVIOUS
    <3>2. <<x, y>> \in Seq({x, y}) /\ ToSet(<<x, y>>) = {x, y}
      BY DEF ToSet
    <3> QED
      BY <3>2 DEF IsSeq
  <2>3. CASE q.kind = "subscribe" /\ Says(<<Answer(q, TRUE, NoSession), Listed(stored, live)>>)
    BY <2>2, <2>3 DEF Says
  <2>4. CASE q.kind = "start" /\ Accepts(q)
    <3>1. CASE Says(<<Answer(q, FALSE, NoSession)>>)
      BY <2>1, <3>1 DEF Says
    <3>2. ASSUME NEW s, Says(<<Answer(q, TRUE, s), Listed(stored', live')>>)
          PROVE  \E says : /\ IsSeq(says) /\ lines' = lines \o says
                           /\ \E l \in ToSet(says), ok \in BOOLEAN : \E t : l = Answer(q, ok, t)
      BY <2>2, <3>2 DEF Says
    <3> QED
      BY <2>4, <3>1, <3>2 DEF Accepts
  <2>5. CASE q.kind \in {"cancel", "delete", "clearing"} /\ Cancels(q)
    <3>1. ASSUME NEW x, NEW y, NEW z PROVE IsSeq(<<x>> \o <<y, z>>) /\ IsSeq(<<>> \o <<y, z>>)
      <4>1. IsSeq(<<>>)
        BY DEF IsSeq
      <4>2. IsSeq(<<x>>) /\ IsSeq(<<y, z>>)
        BY <2>1, <2>2
      <4> QED
        BY <4>1, <4>2, SetOfConcat
    <3>2. q.kind # "start"
      BY <2>5
    <3>3. CASE Says(<<Answer(q, FALSE, NoSession)>>)
      BY <2>1, <3>2, <3>3 DEF Says
    <3>4. ASSUME NEW late \in {<<>>, <<Ended(q.session)>>},
                 Says(late \o <<Answer(q, TRUE, q.session), Listed(stored, live')>>)
          PROVE  \E says : IsSeq(says) /\ lines' = lines \o says
      <4>1. IsSeq(late \o <<Answer(q, TRUE, q.session), Listed(stored, live')>>)
        BY <3>1
      <4> QED
        BY <3>4, <4>1 DEF Says
    <3> QED
      BY <2>5, <3>2, <3>3, <3>4 DEF Cancels
  <2>6. CASE q.kind = "clear" /\ Wipes(q)
    BY <2>1, <2>2, <2>6 DEF Wipes, Says
  <2> QED
    BY <2>3, <2>4, <2>5, <2>6 DEF Reads
<1>4. IsSeq(lines') /\ ToSet(lines') = ToSet(lines) \cup ToSet(says)
  BY <1>3, SetOfConcat DEF PendingInv
<1>5. \A r \in Runs : Left(step, lines', r)
  BY <1>4 DEF Left
<1>6. ASSUME NEW r \in Runs, StartOf(r) \in ToSet(requests)
      PROVE  StartOf(r) \in ToSet(requests') \/ Answered(r, {TRUE})' \/ Answered(r, {FALSE})'
  <2>1. CASE StartOf(r) \in ToSet(requests')
    BY <2>1
  <2>2. CASE StartOf(r) = q
    <3>1. q.kind = "start" /\ q.run = r
      BY <2>2 DEF StartOf
    <3>2. PICK l \in ToSet(lines'), ok \in BOOLEAN : \E s : l = Answer(q, ok, s)
      BY <1>3, <1>4, <3>1
    <3>3. PICK s : l = Answer(q, ok, s)
      BY <3>2
    <3> QED
      BY <3>1, <3>3 DEF Answered, Answer
  <2> QED
    BY <1>2, <1>6, <2>1, <2>2
<1> QED
  BY <1>1, <1>2, <1>4, <1>5, <1>6, KeepsWaiting DEF PendingInv

LEMMA ExitPending == ASSUME PendingInv, OneInv, Exit PROVE PendingInv'
<1>1. /\ up /\ up' = FALSE /\ Rejected(lines, UiKinds \cup {"start"}) /\ requests' = <<>>
      /\ UNCHANGED <<step, of, asked, spawns>>
  BY DEF Exit, calls
<1>2. spawns' = 0 /\ \A r \in Runs : step[r] # "opening"
  BY <1>1 DEF PendingInv, OneInv
<1>3. /\ IsSeq(lines')
      /\ \A l \in ToSet(lines) : l.kind = "answer" /\ l.to.kind \in UiKinds \cup {"start"} =>
             Answer(l.to, FALSE, NoSession) \in ToSet(lines')
      /\ \A q \in ToSet(requests) : q.kind \in UiKinds \cup {"start"} =>
             Answer(q, FALSE, NoSession) \in ToSet(lines')
  BY <1>1, RejectedAnswers DEF PendingInv
<1>4. ASSUME NEW r \in Runs, step[r] = "sent" PROVE Answered(r, {FALSE})'
  <2>1. CASE StartOf(r) \in ToSet(requests)
    <3>1. Answer(StartOf(r), FALSE, NoSession) \in ToSet(lines')
      BY <1>3, <2>1 DEF StartOf
    <3> QED
      BY <3>1 DEF Answered, Answer, StartOf
  <2>2. CASE Answered(r, {TRUE}) \/ Answered(r, {FALSE})
    <3>1. PICK l \in ToSet(lines) : l.kind = "answer" /\ l.to.kind = "start" /\ l.to.run = r
      BY <2>2 DEF Answered
    <3>2. Answer(l.to, FALSE, NoSession) \in ToSet(lines')
      BY <1>3, <3>1
    <3> QED
      BY <3>1, <3>2 DEF Answered, Answer
  <2> QED
    BY <1>4, <2>1, <2>2 DEF PendingInv, CallsPending
<1>5. CallsPending'
  BY <1>1, <1>2, <1>4 DEF CallsPending
<1>6. IsSeq(requests')
  BY <1>1 DEF IsSeq
<1> QED
  BY <1>1, <1>2, <1>3, <1>5, <1>6 DEF PendingInv

LEMMA DaemonPending ==
    ASSUME PendingInv, OneInv, DaemonStep
    PROVE  PendingInv'
<1>1. ASSUME NEW says, IsSeq(says), Says(says), live # {},
             UNCHANGED <<step, of, asked, up, spawns, requests>>
      PROVE  PendingInv'
  <2>1. spawns = 0
    BY <1>1 DEF OneInv
  <2>2. IsSeq(lines') /\ ToSet(lines) \subseteq ToSet(lines')
    BY <1>1, SetOfConcat DEF Says, PendingInv
  <2> QED
    BY <1>1, <2>1, <2>2, OnlyGains DEF PendingInv
<1>2. ASSUME NEW s \in Runs, AgentDone(s) PROVE PendingInv'
  <2>1. IsSeq(<<Ended(s)>>)
    BY DEF IsSeq, ToSet
  <2> QED
    BY <1>1, <1>2, <2>1 DEF AgentDone, calls, host
<1>3. ASSUME NEW s \in Runs, SessionEnds(s) PROVE PendingInv'
  <2>1. ASSUME NEW x, NEW y PROVE IsSeq(<<x, y>>)
    <3>1. <<x, y>> \in Seq({x, y})
      OBVIOUS
    <3>2. DOMAIN <<x, y>> = 1..2 /\ <<x, y>>[1] = x /\ <<x, y>>[2] = y
      OBVIOUS
    <3>3. ToSet(<<x, y>>) = {x, y}
      BY <3>2 DEF ToSet
    <3> QED
      BY <3>1, <3>3 DEF IsSeq
  <2> QED
    BY <1>1, <1>3, <2>1 DEF SessionEnds, calls, host
<1> QED
  BY <1>2, <1>3, ReadsPending, ExitPending DEF DaemonStep

LEMMA PendingInductive == Init /\ [][Next]_vars => []PendingInv
<1>1. Init => PendingInv
  BY DEF Init, PendingInv, CallsPending, IsSeq
<1>2. PendingInv /\ OneInv /\ [Next]_vars => PendingInv'
  <2>1. ASSUME PendingInv, UNCHANGED vars PROVE PendingInv'
    BY <2>1, SamePending DEF vars, calls, host, pipes
  <2> QED
    BY <2>1, UserPending, HostPending, DaemonPending DEF Next
<1> QED
  BY <1>1, <1>2, OneInductive, PTL

\* ensureWorkspaceRun, rejectAll and the handler of the pipe: whenever a daemon
\* cannot be spawned, is let go or dies, a call of runTask that waits for it is
\* answered or has its answer coming.
THEOREM NoCallIsForgotten == Spec => []CallsPending
<1>1. PendingInv => CallsPending
  BY DEF PendingInv
<1> QED
  BY <1>1, PendingInductive, PTL DEF Spec

-----------------------------------------------------------------------------
(* No chat is stuck with a run that is gone.  The argument is about the order *)
(* of the lines: the host hears of the session of a run, from a list or an    *)
(* event, only after the answer that says whose it is.                       *)

\* Chats have sessions while they are in the sidebar.
SideInv ==
    /\ chats \subseteq Chats /\ active \in chats \cup {NoChat}
    /\ DOMAIN session = Chats /\ \A c \in Chats : session[c] # NoSession => c \in chats

\* The session a run asks for, which is the one it gets to know.
SessionOf(r) == IF asked[r] = NoSession THEN r ELSE asked[r]
\* The runs whose session the host has not heard of.
Young == {r \in Runs : step[r] \in {"unused", "opening", "sent"}}

CallInv ==
    /\ DOMAIN known = Runs
    /\ \A r \in Runs : /\ step[r] = "unused" => asked[r] = NoSession
                       /\ r \in Young => known[r] = NoSession
                       /\ known[r] \in {NoSession, SessionOf(r)}

TrackInv ==
    /\ DOMAIN tracked = Chats
    /\ \A c \in Chats : tracked[c] # NoRun =>
           /\ up /\ tracked[c] \in Runs /\ of[tracked[c]] = c
           /\ \/ step[tracked[c]] = "sent"
              \/ step[tracked[c]] = "over" /\ known[tracked[c]] # NoSession

\* What the pipes say of calls is true.
Sent(r)      == r \in Runs /\ step[r] \notin {"unused", "opening"}
Request0(q)  == q.kind = "start" => Sent(q.run) /\ q.session = asked[q.run]
Answer0(l)   == l.kind = "answer" /\ l.to.kind = "start" /\ l.ok =>
                    Sent(l.to.run) /\ l.session = SessionOf(l.to.run)
StartInv ==
    /\ \A q \in ToSet(requests) : Request0(q)
    /\ \A l \in ToSet(lines) : Answer0(l)
    /\ live \subseteq stored

\* The answer that gives session s to a run; the lines that speak of a session.
Grants(l, s) == l.kind = "answer" /\ l.to.kind = "start" /\ l.ok /\ l.session = s
Tells(l, s)  == \/ l.kind = "list" /\ s \in l.all
                \/ l.kind = "ended" /\ l.session = s
InTurn(ls, s) == \A i \in DOMAIN ls : Tells(ls[i], s) => \E j \in DOMAIN ls : j < i /\ Grants(ls[j], s)
Granted(ls, s) == \E l \in ToSet(ls) : Grants(l, s)
EndTold(ls, s) == \E l \in ToSet(ls) : l.kind = "ended" /\ l.session = s
AnswersUi(l) == l.kind = "answer" /\ l.to.kind \in UiKinds

Unheard(s) ==
    /\ \A c \in Chats : session[c] # s
    /\ \A q \in Runs : asked[q] # s
    /\ \A q \in ToSet(requests) : q.kind \in UiKinds => q.session # s
    /\ \A l \in ToSet(lines) : AnswersUi(l) => l.session # s
    /\ s \in stored => step[s] = "sent" /\ (up => Granted(lines, s))
    /\ InTurn(lines, s)
    /\ Granted(lines, s) => s \in live \/ EndTold(lines, s)
YoungInv == \A s \in Young : Unheard(s)

\* A session that is the only one its chat and its run are known by.
Own(s) == /\ step[s] = "over" /\ of[s] \in Chats /\ tracked[of[s]] = s
          /\ known[s] = s /\ session[of[s]] = s /\ ~StartedAgain(s)
FreeKinds == {"cancel", "delete", "clearing"}
Kept(s) ==
    /\ \A c \in Chats : session[c] = s => c = of[s]
    /\ \A q \in ToSet(requests) : q.kind \in FreeKinds /\ q.session = s => q.chat = of[s]
    /\ \A l \in ToSet(lines) : AnswersUi(l) /\ l.to.kind \in FreeKinds /\ l.ok /\ l.session = s =>
           l.to.chat = of[s]
    /\ s \in live \/ s \notin stored \/ \E l \in ToSet(lines) : Releases(l, of[s], s)
OwnInv == \A s \in Runs : Own(s) => Kept(s)

RouteInv == SideInv /\ CallInv /\ TrackInv /\ StartInv /\ YoungInv /\ OwnInv

LEMMA TailAt ==
    ASSUME NEW ls, IsSeq(ls), ls # <<>>
    PROVE  /\ Len(ls) \in Nat \ {0} /\ DOMAIN ls = 1..Len(ls) /\ Head(ls) = ls[1]
           /\ DOMAIN Tail(ls) = 1..(Len(ls) - 1)
           /\ \A i \in 1..(Len(ls) - 1) : Tail(ls)[i] = ls[i + 1]
<1>1. ls \in Seq(ToSet(ls))
  BY DEF IsSeq
<1>2. Len(ls) \in Nat \ {0} /\ DOMAIN ls = 1..Len(ls)
  BY <1>1, EmptySeq, LenProperties
<1>3. /\ Tail(ls) \in Seq(ToSet(ls)) /\ Len(Tail(ls)) = Len(ls) - 1 /\ Head(ls) = ls[1]
      /\ \A i \in 1..Len(Tail(ls)) : Tail(ls)[i] = ls[i + 1]
  BY <1>1, <1>2, HeadTailProperties
<1>4. DOMAIN Tail(ls) = 1..Len(Tail(ls))
  BY <1>3, LenProperties
<1> QED
  BY <1>2, <1>3, <1>4

\* The first line speaks of no session whose answer is behind it; when it is not the
\* answer itself, the others stay in turn.
LEMMA TurnHead ==
    ASSUME NEW ls, IsSeq(ls), ls # <<>>, NEW s, InTurn(ls, s)
    PROVE  /\ ~Tells(Head(ls), s)
           /\ ~Grants(Head(ls), s) => InTurn(Tail(ls), s)
<1> DEFINE n == Len(ls)
<1>1. /\ n \in Nat \ {0} /\ DOMAIN ls = 1..n /\ Head(ls) = ls[1]
      /\ DOMAIN Tail(ls) = 1..(n - 1)
      /\ \A i \in 1..(n - 1) : Tail(ls)[i] = ls[i + 1]
  BY TailAt
<1> HIDE DEF n
<1>2. ~Tells(Head(ls), s)
  <2> SUFFICES ASSUME Tells(ls[1], s) PROVE FALSE
    BY <1>1
  <2>1. 1 \in DOMAIN ls
    BY <1>1
  <2>2. PICK j \in DOMAIN ls : j < 1
    BY <2>1 DEF InTurn
  <2> QED
    BY <1>1, <2>2
<1>3. ASSUME ~Grants(Head(ls), s), NEW i \in DOMAIN Tail(ls), Tells(Tail(ls)[i], s)
      PROVE  \E j \in DOMAIN Tail(ls) : j < i /\ Grants(Tail(ls)[j], s)
  <2>1. i + 1 \in DOMAIN ls /\ Tells(ls[i + 1], s) /\ i \in Nat
    BY <1>1, <1>3
  <2>2. PICK j \in DOMAIN ls : j < i + 1 /\ Grants(ls[j], s)
    BY <2>1 DEF InTurn
  <2>3. j # 1
    BY <1>1, <1>3, <2>2
  <2>4. j - 1 \in 1..(n - 1) /\ (j - 1) + 1 = j /\ j - 1 < i
    BY <1>1, <2>1, <2>2, <2>3
  <2>5. Tail(ls)[j - 1] = ls[j]
    BY <1>1, <2>4
  <2> QED
    BY <1>1, <2>2, <2>4, <2>5
<1> QED
  BY <1>2, <1>3 DEF InTurn

LEMMA TurnConcat ==
    ASSUME NEW a, NEW b, IsSeq(a), IsSeq(b), NEW s, InTurn(a, s), InTurn(b, s) \/ Granted(a, s)
    PROVE  InTurn(a \o b, s)
<1> DEFINE S == ToSet(a) \cup ToSet(b)
           u == a \o b
<1>1. a \in Seq(S) /\ b \in Seq(S)
  BY DEF IsSeq
<1> HIDE DEF S
<1>2. /\ DOMAIN a = 1..Len(a) /\ DOMAIN b = 1..Len(b) /\ Len(a) \in Nat /\ Len(b) \in Nat
      /\ DOMAIN u = 1..(Len(a) + Len(b))
      /\ \A i \in 1..Len(a) : u[i] = a[i]
      /\ \A i \in 1..Len(b) : u[Len(a) + i] = b[i]
  BY <1>1
<1> HIDE DEF u
<1>3. ASSUME NEW i \in DOMAIN u, Tells(u[i], s)
      PROVE  \E j \in DOMAIN u : j < i /\ Grants(u[j], s)
  <2>1. CASE i <= Len(a)
    <3>1. i \in DOMAIN a /\ Tells(a[i], s)
      BY <1>2, <1>3, <2>1
    <3>2. PICK j \in DOMAIN a : j < i /\ Grants(a[j], s)
      BY <3>1 DEF InTurn
    <3>3. j \in DOMAIN u /\ u[j] = a[j]
      BY <1>2, <3>2
    <3> QED
      BY <3>2, <3>3
  <2>2. CASE i > Len(a) /\ Granted(a, s)
    <3>1. PICK j \in DOMAIN a : Grants(a[j], s)
      BY <2>2 DEF Granted, ToSet
    <3>2. j \in DOMAIN u /\ u[j] = a[j] /\ j < i
      BY <1>2, <2>2, <3>1
    <3> QED
      BY <3>1, <3>2
  <2>3. CASE i > Len(a) /\ InTurn(b, s)
    <3>1. i - Len(a) \in 1..Len(b) /\ Len(a) + (i - Len(a)) = i
      BY <1>2, <2>3
    <3>2. Tells(b[i - Len(a)], s)
      BY <1>2, <1>3, <3>1
    <3>3. PICK j \in DOMAIN b : j < i - Len(a) /\ Grants(b[j], s)
      BY <1>2, <2>3, <3>1, <3>2 DEF InTurn
    <3>4. Len(a) + j \in DOMAIN u /\ Len(a) + j < i
      BY <1>2, <3>3
    <3>5. u[Len(a) + j] = b[j]
      BY <1>2, <3>3
    <3> QED
      BY <3>3, <3>4, <3>5
  <2>4. i <= Len(a) \/ i > Len(a)
    BY <1>2
  <2> QED
    BY <2>1, <2>2, <2>3, <2>4
<1> QED
  BY <1>3 DEF InTurn, u

\* Lines that do not speak of the session.
LEMMA TurnSilent ==
    ASSUME NEW ls, NEW s, \A l \in ToSet(ls) : ~Tells(l, s)
    PROVE  InTurn(ls, s)
BY DEF InTurn, ToSet

-----------------------------------------------------------------------------
(* Steps of the host that tell it of no session.                             *)

\* What the host asks on behalf of a chat is about a session it has heard of, and
\* about its own when that session is in no other.
GoodRequest(q) ==
    /\ q.kind \in UiKinds /\ q.session \notin Young
    /\ q.kind \in FreeKinds => \A s \in Runs : Own(s) /\ q.session = s => q.chat = of[s]

LEMMA KnownGood ==
    ASSUME CallInv, TrackInv, YoungInv, NEW c \in Chats, tracked[c] # NoRun,
           known[tracked[c]] # NoSession
    PROVE  /\ known[tracked[c]] \notin Young
           /\ \A s \in Runs : Own(s) /\ known[tracked[c]] = s => c = of[s]
<1> DEFINE r == tracked[c]
           t == known[r]
<1>1. r \in Runs /\ of[r] = c
  BY DEF TrackInv
<1>2. t = SessionOf(r) /\ r \notin Young
  BY <1>1 DEF CallInv
<1>3. t = r \/ t = asked[r]
  BY <1>2 DEF SessionOf
<1>4. t \notin Young
  BY <1>1, <1>2, <1>3 DEF YoungInv, Unheard
<1>5. ASSUME NEW s \in Runs, Own(s), t = s PROVE c = of[s]
  BY <1>1, <1>3, <1>5 DEF Own, StartedAgain
<1> QED
  BY <1>4, <1>5

LEMMA SessionGood ==
    ASSUME YoungInv, OwnInv, NEW c \in Chats
    PROVE  /\ session[c] \notin Young
           /\ \A s \in Runs : Own(s) /\ session[c] = s => c = of[s]
BY DEF YoungInv, Unheard, OwnInv, Kept

\* What becomes of the calls, the chats and the runs that are tracked.
Calmer ==
    /\ UNCHANGED <<of, asked, known>> /\ SideInv'
    /\ \A c \in Chats : session'[c] \in {session[c], NoSession}
    /\ \A r \in Runs : \/ step'[r] = step[r]
                       \/ step'[r] \in {"over", "orphan"} /\ \A c \in Chats : tracked'[c] # r
    /\ DOMAIN tracked' = Chats /\ \A c \in Chats : tracked'[c] \in {tracked[c], NoRun}

LEMMA CalmerCalls ==
    ASSUME CallInv, Calmer
    PROVE  CallInv' /\ Young' \subseteq Young /\ \A r : Sent(r) => Sent(r)'
<1>1. \A r \in Runs : SessionOf(r)' = SessionOf(r)
  BY DEF Calmer, SessionOf
<1>2. \A r \in Runs : /\ step'[r] = "unused" => step[r] = "unused"
                      /\ step[r] \notin {"unused", "opening"} => step'[r] \notin {"unused", "opening"}
  BY DEF Calmer
<1>3. Young' \subseteq Young
  BY DEF Calmer, Young
<1> QED
  BY <1>1, <1>2, <1>3 DEF Calmer, CallInv, Sent

LEMMA CalmerOwn ==
    ASSUME Calmer, NEW s \in Runs, Own(s)'
    PROVE  Own(s)
<1>1. UNCHANGED <<of, asked>> /\ of[s] \in Chats /\ tracked'[of[s]] = s /\ step'[s] = "over"
      /\ session'[of[s]] = s /\ ~StartedAgain(s) /\ known[s] = s
  BY DEF Own, Calmer, StartedAgain
<1>2. s # NoSession /\ s # NoRun
  BY EditorBoundsAssumption DEF Runs, NoSession, NoRun
<1>3. step[s] = "over"
  BY <1>1 DEF Calmer
<1>4. tracked[of[s]] = s /\ session[of[s]] = s
  BY <1>1, <1>2 DEF Calmer
<1> QED
  BY <1>1, <1>3, <1>4 DEF Own

LEMMA CalmerTracks ==
    ASSUME TrackInv, Calmer, up' = up \/ \A c \in Chats : tracked'[c] = NoRun
    PROVE  TrackInv'
<1> SUFFICES ASSUME NEW c \in Chats, tracked'[c] # NoRun
             PROVE  /\ up' /\ tracked'[c] \in Runs /\ of'[tracked'[c]] = c
                    /\ \/ step'[tracked'[c]] = "sent"
                       \/ step'[tracked'[c]] = "over" /\ known'[tracked'[c]] # NoSession
  BY DEF TrackInv, Calmer
<1>1. tracked'[c] = tracked[c] /\ up' = up
  BY DEF Calmer
<1>2. tracked[c] \in Runs /\ step'[tracked[c]] = step[tracked[c]]
  BY <1>1 DEF Calmer, TrackInv
<1> QED
  BY <1>1, <1>2 DEF Calmer, TrackInv

\* The daemon stays: lines are read, requests are made.
LEMMA HostCalm ==
    ASSUME PendingInv, RouteInv, Calmer, UNCHANGED <<up, live, stored>>,
           \/ lines' = lines
           \/ /\ lines # <<>> /\ lines' = Tail(lines)
              /\ \A s \in Young' : ~Grants(Head(lines), s)
              /\ \A s \in Runs : Own(s)' => ~Releases(Head(lines), of[s], s),
           \A q \in ToSet(requests') : q \in ToSet(requests) \/ GoodRequest(q)
    PROVE  RouteInv'
<1>1. CallInv' /\ Young' \subseteq Young /\ \A r : Sent(r) => Sent(r)'
  BY CalmerCalls DEF RouteInv
<1>2. TrackInv' /\ SideInv'
  BY CalmerTracks DEF RouteInv, Calmer
<1>3. \A l \in ToSet(lines') : l \in ToSet(lines)
  BY SetOfTail DEF PendingInv
<1>4. StartInv'
  <2>1. \A q \in ToSet(requests') : Request0(q)'
    <3> SUFFICES ASSUME NEW q \in ToSet(requests'), q.kind = "start"
                 PROVE  Sent(q.run)' /\ q.session = asked'[q.run]
      BY DEF Request0
    <3>1. q \in ToSet(requests)
      BY DEF GoodRequest, UiKinds
    <3> QED
      BY <1>1, <3>1 DEF RouteInv, StartInv, Request0, Calmer
  <2>2. \A l \in ToSet(lines') : Answer0(l)'
    BY <1>1, <1>3 DEF RouteInv, StartInv, Answer0, Calmer, SessionOf
  <2> QED
    BY <2>1, <2>2 DEF RouteInv, StartInv
<1>5. ASSUME NEW s \in Young' PROVE Unheard(s)'
  <2>1. s \in Young /\ s \in Runs /\ step'[s] = step[s]
    BY <1>1, <1>5 DEF Young, Calmer
  <2>2. Unheard(s)
    BY <2>1 DEF RouteInv, YoungInv
  <2>3. s # NoSession
    BY <2>1, EditorBoundsAssumption DEF Runs, NoSession
  <2>4. \A c \in Chats : session'[c] # s
    BY <2>2, <2>3 DEF Unheard, Calmer
  <2>5. \A q \in Runs : asked'[q] # s
    BY <2>2 DEF Unheard, Calmer
  <2>6. \A q \in ToSet(requests') : q.kind \in UiKinds => q.session # s
    BY <2>1, <2>2 DEF Unheard, GoodRequest
  <2>7. \A l \in ToSet(lines') : AnswersUi(l) => l.session # s
    BY <1>3, <2>2 DEF Unheard
  <2>8. InTurn(lines', s) /\ (Granted(lines, s) => Granted(lines', s))
        /\ (EndTold(lines, s) => EndTold(lines', s))
    <3>1. CASE lines' = lines
      BY <2>2, <3>1 DEF Unheard
    <3>2. CASE /\ lines # <<>> /\ lines' = Tail(lines) /\ ~Grants(Head(lines), s)
      <4>1. ~Tells(Head(lines), s) /\ InTurn(lines', s)
        BY <2>2, <3>2, TurnHead DEF Unheard, PendingInv
      <4>2. ToSet(lines) = {Head(lines)} \cup ToSet(lines')
        BY <3>2, SetOfTail DEF PendingInv
      <4> QED
        BY <3>2, <4>1, <4>2 DEF Granted, EndTold, Tells
    <3> QED
      BY <1>5, <3>1, <3>2
  <2>9. Granted(lines', s) => Granted(lines, s)
    BY <1>3 DEF Granted
  <2> QED
    BY <2>1, <2>2, <2>4, <2>5, <2>6, <2>7, <2>8, <2>9 DEF Unheard
<1>6. ASSUME NEW s \in Runs, Own(s)' PROVE Kept(s)'
  <2>1. Own(s) /\ Kept(s) /\ of' = of
    BY <1>6, CalmerOwn DEF RouteInv, OwnInv, Calmer
  <2>2. s # NoSession
    BY EditorBoundsAssumption DEF Runs, NoSession
  <2>3. \A c \in Chats : session'[c] = s => c = of'[s]
    BY <2>1, <2>2 DEF Kept, Calmer
  <2>4. \A q \in ToSet(requests') : q.kind \in FreeKinds /\ q.session = s => q.chat = of'[s]
    BY <2>1 DEF Kept, GoodRequest
  <2>5. \A l \in ToSet(lines') :
            AnswersUi(l) /\ l.to.kind \in FreeKinds /\ l.ok /\ l.session = s => l.to.chat = of'[s]
    BY <1>3, <2>1 DEF Kept
  <2>6. ASSUME NEW l \in ToSet(lines), Releases(l, of[s], s) PROVE l \in ToSet(lines')
    <3>1. \/ lines' = lines
          \/ lines # <<>> /\ lines' = Tail(lines) /\ ~Releases(Head(lines), of[s], s)
      BY <1>6
    <3>2. CASE lines # <<>> /\ lines' = Tail(lines) /\ ~Releases(Head(lines), of[s], s)
      <4>1. ToSet(lines) = {Head(lines)} \cup ToSet(lines')
        BY <3>2, SetOfTail DEF PendingInv
      <4>2. l # Head(lines)
        BY <2>6, <3>2
      <4> QED
        BY <4>1, <4>2
    <3> QED
      BY <3>1, <3>2
  <2>7. \A l : Releases(l, of[s], s)' <=> Releases(l, of[s], s)
    BY <2>1 DEF Releases
  <2>8. s \in live' \/ s \notin stored' \/ \E l \in ToSet(lines') : Releases(l, of'[s], s)
    BY <2>1, <2>6 DEF Kept
  <2> QED
    BY <2>3, <2>4, <2>5, <2>7, <2>8 DEF Kept
<1> QED
  BY <1>1, <1>2, <1>4, <1>5, <1>6 DEF RouteInv, YoungInv, OwnInv

\* The daemon is let go or dies, or there is none: all that is left are refusals.
LEMMA HostAlone ==
    ASSUME RouteInv, Calmer, ~up', \A c \in Chats : tracked'[c] = NoRun, live' \subseteq live,
           stored' = stored, ToSet(requests') \subseteq ToSet(requests),
           \A l \in ToSet(lines') : \E q : l = Answer(q, FALSE, NoSession)
    PROVE  RouteInv'
<1>1. CallInv' /\ Young' \subseteq Young /\ \A r : Sent(r) => Sent(r)'
  BY CalmerCalls DEF RouteInv
<1>2. TrackInv' /\ SideInv'
  BY CalmerTracks DEF RouteInv, Calmer
<1>3. \A l \in ToSet(lines') : l.kind = "answer" /\ ~l.ok /\ l.session = NoSession
  BY DEF Answer
<1>4. StartInv'
  <2>1. \A q \in ToSet(requests') : Request0(q)'
    BY <1>1 DEF RouteInv, StartInv, Request0, Calmer
  <2>2. \A l \in ToSet(lines') : Answer0(l)'
    BY <1>3 DEF Answer0
  <2> QED
    BY <2>1, <2>2 DEF RouteInv, StartInv
<1>5. ASSUME NEW s \in Young' PROVE Unheard(s)'
  <2>1. s \in Young /\ s \in Runs /\ step'[s] = step[s]
    BY <1>1, <1>5 DEF Young, Calmer
  <2>2. Unheard(s)
    BY <2>1 DEF RouteInv, YoungInv
  <2>3. s # NoSession
    BY <2>1, EditorBoundsAssumption DEF Runs, NoSession
  <2>4. \A c \in Chats : session'[c] # s
    BY <2>2, <2>3 DEF Unheard, Calmer
  <2>5. \A l \in ToSet(lines') : ~Tells(l, s) /\ ~Grants(l, s) /\ l.session # s
    BY <1>3, <2>3 DEF Tells, Grants
  <2>6. InTurn(lines', s) /\ ~Granted(lines', s)
    BY <2>5, TurnSilent DEF Granted
  <2> QED
    BY <2>1, <2>2, <2>4, <2>5, <2>6 DEF Unheard, Calmer
<1>6. ASSUME NEW s \in Runs PROVE ~Own(s)'
  <2>1. s # NoRun
    BY EditorBoundsAssumption DEF Runs, NoRun
  <2> QED
    BY <2>1 DEF Own, Calmer
<1> QED
  BY <1>1, <1>2, <1>4, <1>5, <1>6 DEF RouteInv, YoungInv, OwnInv

-----------------------------------------------------------------------------
(* Every step of the user and the host.                                      *)

\* A run that is taken out, with the daemon when nothing else needs it.
LEMMA UntrackRoute ==
    ASSUME PendingInv, RouteInv, NEW C, NEW ls, NEW st, Untrack(C, ls, st), IsSeq(ls),
           UNCHANGED <<of, asked, known>>, SideInv',
           \A c \in Chats : session'[c] \in {session[c], NoSession},
           DOMAIN st = Runs,
           \A r \in Runs : st[r] = step[r] \/ (st[r] = "over" /\ of[r] \in C),
           \/ ls = lines
           \/ /\ lines # <<>> /\ ls = Tail(lines)
              /\ \A s \in Runs : st[s] \in {"unused", "opening", "sent"} => ~Grants(Head(lines), s)
              /\ \A s \in Runs : Own(s) /\ of[s] \notin C => ~Releases(Head(lines), of[s], s)
    PROVE  RouteInv'
<1>1. DOMAIN tracked = Chats /\ \A c \in Chats, r \in Runs : tracked[c] = r => of[r] = c
  BY EditorBoundsAssumption DEF RouteInv, TrackInv, Runs, NoRun
<1>2. CASE up /\ ~keepAlive /\ \A c \in Chats \ C : tracked[c] = NoRun
  <2>1. /\ up' = FALSE /\ tracked' = [c \in Chats |-> NoRun]
        /\ step' = [r \in Runs |-> IF st[r] = "sent" THEN "orphan" ELSE st[r]]
        /\ Rejected(ls, UiKinds) /\ requests' = <<>>
        /\ live' = {} /\ stored' = stored
    BY <1>2 DEF Untrack
  <2>2. \A l \in ToSet(lines') : \E q : l = Answer(q, FALSE, NoSession)
    BY <2>1, RejectedAnswers DEF PendingInv
  <2>3. \A r \in Runs, c \in Chats : tracked'[c] # r
    BY <2>1, EditorBoundsAssumption DEF Runs, NoRun
  <2>4. \A r \in Runs : step'[r] = step[r] \/ step'[r] \in {"over", "orphan"}
    BY <2>1
  <2>5. Calmer
    BY <2>1, <2>3, <2>4 DEF Calmer
  <2>6. ToSet(requests') = {}
    BY <2>1 DEF ToSet
  <2> QED
    BY <2>1, <2>2, <2>5, <2>6, HostAlone
<1>3. CASE ~(up /\ ~keepAlive /\ \A c \in Chats \ C : tracked[c] = NoRun)
  <2>1. /\ tracked' = Put(tracked, C, NoRun) /\ step' = st /\ lines' = ls
        /\ UNCHANGED <<up, requests, live, stored>>
    BY <1>3 DEF Untrack, daemon
  <2>2. DOMAIN tracked' = Chats /\ \A c \in Chats : tracked'[c] = IF c \in C THEN NoRun ELSE tracked[c]
    BY <2>1 DEF Put
  <2>3. ASSUME NEW r \in Runs, of[r] \in C, NEW c \in Chats PROVE tracked'[c] # r
    BY <1>1, <2>2, <2>3, EditorBoundsAssumption DEF Runs, NoRun
  <2>4. Calmer
    BY <2>1, <2>2, <2>3 DEF Calmer
  <2>5. ASSUME NEW s \in Runs, Own(s)' PROVE Own(s) /\ of[s] \notin C
    <3>1. Own(s)
      BY <2>4, <2>5, CalmerOwn
    <3> QED
      BY <2>3, <2>5, <3>1 DEF Own
  <2>6. \A s \in Young' : st[s] \in {"unused", "opening", "sent"} /\ s \in Runs
    BY <2>1 DEF Young
  <2> QED
    BY <2>1, <2>4, <2>5, <2>6, HostCalm
<1> QED
  BY <1>2, <1>3

\* The host leaves its runs and the daemon alone.
LEMMA StillRoute ==
    ASSUME PendingInv, RouteInv, UNCHANGED <<calls, tracked, up, requests, live, stored>>, SideInv',
           \A c \in Chats : session'[c] \in {session[c], NoSession},
           \/ lines' = lines
           \/ /\ lines # <<>> /\ lines' = Tail(lines)
              /\ \A s \in Young : ~Grants(Head(lines), s)
              /\ \A s \in Runs : Own(s) => ~Releases(Head(lines), of[s], s)
    PROVE  RouteInv'
<1>1. Calmer
  BY DEF Calmer, calls, RouteInv, TrackInv
<1>2. Young' = Young
  BY DEF Young, calls
<1>3. \A s \in Runs : Own(s)' => Own(s)
  BY <1>1, CalmerOwn
<1> QED
  BY <1>1, <1>2, <1>3, HostCalm

\* A request is made.
LEMMA AsksRoute ==
    ASSUME PendingInv, RouteInv, NEW q, GoodRequest(q), requests' = Append(requests, q),
           UNCHANGED <<sidebar, calls, host, live, stored>>,
           \/ lines' = lines
           \/ /\ lines # <<>> /\ lines' = Tail(lines)
              /\ \A s : ~Grants(Head(lines), s)
              /\ \A c, s : ~Releases(Head(lines), c, s)
    PROVE  RouteInv'
<1>1. Calmer
  BY DEF Calmer, calls, RouteInv, TrackInv, sidebar, host, SideInv
<1>2. ToSet(requests') = ToSet(requests) \cup {q}
  BY SetOfAppend DEF PendingInv
<1>3. up' = up
  BY DEF host
<1> QED
  BY <1>1, <1>2, <1>3, HostCalm

\* The chat a message for chat c ends up in is in the sidebar, or the draft.
LEMMA TargetShown == ASSUME SideInv, NEW c PROVE Target(c) \in chats \cup {NoChat}
BY DEF SideInv, Target

\* ensureActiveSession's chat.
LEMMA CurrentShown ==
    ASSUME SideInv, NEW c \in Current
    PROVE  /\ c \in Chats
           /\ active \in chats => c = active
           /\ c \in chats \/ \A r \in Runs : of[r] # c
BY DEF SideInv, Current, Fresh

LEMMA ClearedSide ==
    ASSUME SideInv, Cleared
    PROVE  SideInv' /\ \A c \in Chats : session'[c] \in {session[c], NoSession}
<1>1. CASE UNCHANGED sidebar
  BY <1>1 DEF SideInv, sidebar
<1>2. ASSUME NEW c \in Current, chats' = chats \cup {c}, active' = c,
             session' = Put(session, {c}, NoSession)
      PROVE  SideInv' /\ \A d \in Chats : session'[d] \in {session[d], NoSession}
  BY <1>2, CurrentShown DEF SideInv, Put
<1> QED
  BY <1>1, <1>2 DEF Cleared

LEMMA DroppedSide ==
    ASSUME SideInv, NEW c, Dropped(c)
    PROVE  SideInv' /\ \A d \in Chats : session'[d] \in {session[d], NoSession}
<1>1. /\ chats' = chats \ {c} /\ session' = Put(session, {c}, NoSession)
      /\ (active' = active /\ active # c) \/ active' \in chats' \cup {NoChat}
  BY DEF Dropped, Moved
<1> QED
  BY <1>1 DEF SideInv, Put

\* runTask gives the run its chat, and asks for the session of the chat.
LEMMA RunTaskRoute ==
    ASSUME PendingInv, RouteInv, RunTask
    PROVE  RouteInv'
<1>1. PICK r \in Unused, c \in Current :
        /\ tracked[c] = NoRun /\ chats' = chats \cup {c} /\ active' = c
        /\ of' = [of EXCEPT ![r] = c] /\ asked' = [asked EXCEPT ![r] = session[c]]
        /\ IF up THEN /\ step' = [step EXCEPT ![r] = "sent"]
                      /\ tracked' = Put(tracked, {c}, r)
                      /\ requests' = Append(requests, StartOf(r)')
                 ELSE /\ step' = [step EXCEPT ![r] = "opening"]
                      /\ UNCHANGED <<tracked, requests>>
        /\ UNCHANGED <<session, known, up, lines, live, stored>>
  BY DEF RunTask, daemon
<1>2. /\ r \in Runs /\ step[r] = "unused" /\ r \in Young /\ asked[r] = NoSession
      /\ r # NoRun /\ known[r] = NoSession
  BY EditorBoundsAssumption DEF Unused, Young, RouteInv, CallInv, Runs, NoRun
<1>3. c \in Chats /\ (active \in chats => c = active)
  BY CurrentShown DEF RouteInv
<1>4. /\ DOMAIN step = Runs /\ DOMAIN of = Runs /\ DOMAIN asked = Runs
      /\ of'[r] = c /\ asked'[r] = session[c]
      /\ step'[r] \in {"opening", "sent"} /\ (up => step'[r] = "sent")
      /\ \A q \in Runs : q # r => of'[q] = of[q] /\ asked'[q] = asked[q] /\ step'[q] = step[q]
  BY <1>1, <1>2 DEF PendingInv
<1>5. /\ \A d \in Chats : tracked'[d] = tracked[d] \/ (up /\ d = c /\ tracked'[d] = r)
      /\ DOMAIN tracked' = Chats
  BY <1>1, <1>3 DEF Put, RouteInv, TrackInv
<1>6. \A q \in ToSet(requests') : q \in ToSet(requests) \/ (up /\ q = StartOf(r)')
  <2>1. CASE up
    <3>1. \A e : ToSet(Append(requests, e)) = ToSet(requests) \cup {e}
      BY SetOfAppend DEF PendingInv
    <3> QED
      BY <1>1, <2>1, <3>1
  <2>2. CASE ~up
    BY <1>1, <2>2
  <2> QED
    BY <2>1, <2>2
<1>7. StartOf(r)' = [kind |-> "start", run |-> r, session |-> asked'[r], chat |-> of'[r]]
  BY DEF StartOf
<1>8. Young' = Young /\ \A q : Sent(q) => Sent(q)' /\ q # r
  BY <1>2, <1>4 DEF Young, Sent
<1>9. SideInv'
  BY <1>1, <1>3 DEF RouteInv, SideInv
<1>10. CallInv'
  <2>1. \A q \in Runs : q # r => SessionOf(q)' = SessionOf(q)
    BY <1>4 DEF SessionOf
  <2> QED
    BY <1>1, <1>2, <1>4, <1>8, <2>1 DEF RouteInv, CallInv
<1>11. TrackInv'
  <2> SUFFICES ASSUME NEW d \in Chats, tracked'[d] # NoRun
               PROVE  /\ up /\ tracked'[d] \in Runs /\ of'[tracked'[d]] = d
                      /\ \/ step'[tracked'[d]] = "sent"
                         \/ step'[tracked'[d]] = "over" /\ known[tracked'[d]] # NoSession
    BY <1>1, <1>5 DEF TrackInv
  <2>1. CASE tracked'[d] = tracked[d]
    <3>1. tracked[d] \in Runs /\ tracked[d] # r
      BY <1>2, <2>1 DEF RouteInv, TrackInv
    <3> QED
      BY <1>4, <2>1, <3>1 DEF RouteInv, TrackInv
  <2>2. CASE up /\ d = c /\ tracked'[d] = r
    BY <1>2, <1>4, <2>2
  <2> QED
    BY <1>5, <2>1, <2>2
<1>12. StartInv'
  <2>1. \A q \in ToSet(requests') : Request0(q)'
    <3> SUFFICES ASSUME NEW q \in ToSet(requests'), q.kind = "start"
                 PROVE  Sent(q.run)' /\ q.session = asked'[q.run]
      BY DEF Request0
    <3>1. CASE q \in ToSet(requests)
      <4>1. Sent(q.run) /\ q.session = asked[q.run] /\ q.run \in Runs
        BY <3>1 DEF RouteInv, StartInv, Request0, Sent
      <4> QED
        BY <1>4, <1>8, <4>1
    <3>2. CASE up /\ q = StartOf(r)'
      BY <1>2, <1>4, <1>7, <3>2 DEF Sent
    <3> QED
      BY <1>6, <3>1, <3>2
  <2>2. \A l \in ToSet(lines') : Answer0(l)'
    <3> SUFFICES ASSUME NEW l \in ToSet(lines), l.kind = "answer", l.to.kind = "start", l.ok
                 PROVE  Sent(l.to.run)' /\ l.session = SessionOf(l.to.run)'
      BY <1>1 DEF Answer0
    <3>1. Sent(l.to.run) /\ l.session = SessionOf(l.to.run)
      BY DEF RouteInv, StartInv, Answer0
    <3>2. Sent(l.to.run)' /\ l.to.run # r /\ l.to.run \in Runs
      BY <1>8, <3>1 DEF Sent
    <3> QED
      BY <1>4, <3>1, <3>2 DEF SessionOf
  <2> QED
    BY <1>1, <2>1, <2>2 DEF RouteInv, StartInv
<1>13. ASSUME NEW s \in Young' PROVE Unheard(s)'
  <2>1. s \in Young /\ s \in Runs /\ Unheard(s)
    BY <1>8, <1>13 DEF RouteInv, YoungInv, Young
  <2>2. \A q \in Runs : asked'[q] # s
    <3>1. session[c] # s
      BY <1>3, <2>1 DEF Unheard
    <3> QED
      BY <1>4, <2>1, <3>1 DEF Unheard
  <2>3. \A q \in ToSet(requests') : q.kind \in UiKinds => q.session # s
    BY <1>6, <1>7, <2>1 DEF Unheard, UiKinds
  <2>4. s \in stored => s # r
    BY <1>2, <2>1 DEF Unheard
  <2> QED
    BY <1>1, <1>4, <2>1, <2>2, <2>3, <2>4 DEF Unheard
<1>14. ASSUME NEW s \in Runs, Own(s)' PROVE Kept(s)'
  <2>1. s # r /\ of'[s] = of[s] /\ step[s] = "over" /\ session[of[s]] = s /\ of[s] \in Chats
      /\ known[s] = s
    BY <1>1, <1>4, <1>14 DEF Own
  <2>2. tracked[of[s]] = s
    BY <1>5, <1>14, <2>1 DEF Own
  <2>3. ~StartedAgain(s)
    <3> SUFFICES ASSUME NEW q \in Runs, asked[q] = s PROVE FALSE
      BY DEF StartedAgain
    <3>1. q # r
      BY <1>2, EditorBoundsAssumption DEF Runs, NoSession
    <3>2. asked'[q] = s
      BY <1>4, <3>1
    <3> QED
      BY <1>14, <3>2 DEF Own, StartedAgain
  <2>4. Kept(s)
    BY <2>1, <2>2, <2>3 DEF RouteInv, OwnInv, Own
  <2>5. \A q \in ToSet(requests') : q.kind \in FreeKinds /\ q.session = s => q.chat = of'[s]
    BY <1>6, <1>7, <2>1, <2>4 DEF Kept, FreeKinds
  <2>6. \A l : Releases(l, of[s], s)' <=> Releases(l, of[s], s)
    BY <2>1 DEF Releases
  <2> QED
    BY <1>1, <2>1, <2>4, <2>5, <2>6 DEF Kept
<1> QED
  BY <1>9, <1>10, <1>11, <1>12, <1>13, <1>14 DEF RouteInv, YoungInv, OwnInv

\* The latest of some runs is one of them.
LEMMA LatestRun ==
    ASSUME NEW T \in SUBSET Runs, T # {}
    PROVE  Max(T) \in T
<1> DEFINE D == {k..MaxRuns : k \in T}
<1>1. MaxRuns \in Nat /\ IsFiniteSet(Runs) /\ Runs = 1..MaxRuns
  BY EditorBoundsAssumption, FS_Interval DEF Runs
<1>2. IsWellFoundedOn(StrictSubsetOrdering(Runs), FiniteSubsetsOf(Runs))
  BY <1>1, FS_StrictSubsetOrderingWellFounded
<1>3. \A k \in T : k..MaxRuns \subseteq Runs
  BY <1>1
<1>4. D # {} /\ D \subseteq FiniteSubsetsOf(Runs)
  <2>1. PICK k \in T : TRUE
    OBVIOUS
  <2>2. k..MaxRuns \in D
    BY <2>1
  <2>3. \A d \in D : d \subseteq Runs /\ IsFiniteSet(d)
    BY <1>1, <1>3, FS_Subset
  <2> HIDE DEF D
  <2> QED
    BY <2>2, <2>3 DEF FiniteSubsetsOf
<1>5. PICK d \in D : \A y \in D : <<y, d>> \notin StrictSubsetOrdering(Runs)
  <2> HIDE DEF D
  <2> QED
    BY <1>2, <1>4, WFMin
<1>6. PICK x \in T : d = x..MaxRuns
  BY <1>5
<1>7. ASSUME NEW y \in T, y > x  PROVE FALSE
  <2>1. y..MaxRuns \in D /\ y..MaxRuns \subseteq d /\ x \in d /\ x \notin y..MaxRuns
    BY <1>1, <1>6, <1>7
  <2>2. <<y..MaxRuns, d>> \in StrictSubsetOrdering(Runs)
    BY <2>1, <1>3, <1>6 DEF StrictSubsetOrdering
  <2> QED
    BY <2>1, <2>2, <1>5
<1>8. \A y \in T : x >= y
  BY <1>1, <1>7
<1> QED
  BY <1>8 DEF Max

\* The runs that waited for the daemon are sent.
LEMMA OpenedRoute ==
    ASSUME PendingInv, OneInv, RouteInv, Opened
    PROVE  RouteInv'
<1>1. /\ up' = TRUE /\ lines' = <<>>
      /\ step' = [r \in Runs |-> IF r \in Opening THEN "sent" ELSE step[r]]
      /\ tracked' = [c \in Chats |-> LET mine == {r \in Opening : of[r] = c}
                                     IN  IF mine = {} THEN tracked[c] ELSE Max(mine)]
      /\ UNCHANGED <<chats, active, session, of, asked, known, live, stored>>
      /\ ~up /\ \A r \in Runs : step[r] # "sent"
  BY SpawnPending DEF Opened, sidebar, daemon
<1>2. \A c \in Chats : tracked[c] = NoRun
  BY <1>1 DEF RouteInv, TrackInv
<1>3. \A c \in Chats : \/ tracked'[c] = NoRun
                       \/ tracked'[c] \in Opening /\ of[tracked'[c]] = c
  <2> SUFFICES ASSUME NEW c \in Chats, NEW mine, mine = {r \in Opening : of[r] = c}, mine # {}
               PROVE  Max(mine) \in mine
    BY <1>1, <1>2
  <2> QED
    BY LatestRun DEF Opening
<1>4. \A q \in ToSet(requests') : \/ q.kind = "subscribe"
                                  \/ \E r \in Opening : q = StartOf(r)
  <2>1. PICK rs \in InOrder(Opening) :
            requests' = <<Request("subscribe", NoSession, NoChat)>>
                        \o [i \in DOMAIN rs |-> StartOf(rs[i])]
    BY DEF Opened
  <2> DEFINE F == [r \in Opening |-> StartOf(r)]
             a == [i \in DOMAIN rs |-> F[rs[i]]]
             b == <<Request("subscribe", NoSession, NoChat)>>
  <2>2. a = [i \in DOMAIN rs |-> StartOf(rs[i])]
    BY DEF InOrder
  <2>3. IsSeq(a) /\ \A e \in ToSet(a) : \E r \in Opening : e = F[r]
    <3> HIDE DEF F
    <3> QED
      BY OpeningFinite, InOrderMapped, InOrderOnly
  <2>4. IsSeq(b) /\ \A e \in ToSet(b) : e.kind = "subscribe"
    BY DEF IsSeq, ToSet, Request
  <2>5. \A e \in ToSet(a) : \E r \in Opening : e = StartOf(r)
    <3> HIDE DEF a
    <3> QED
      BY <2>3
  <2>6. requests' = b \o a
    BY <2>1, <2>2
  <2> HIDE DEF a, b
  <2> QED
    BY <2>3, <2>4, <2>5, <2>6, SetOfConcat
<1>5. \A r \in Runs : /\ r \in Opening => step'[r] = "sent" /\ step[r] = "opening"
                      /\ r \notin Opening => step'[r] = step[r]
  BY <1>1 DEF Opening
<1>6. Young' = Young
  BY <1>5 DEF Young, Opening
<1>7. SideInv' /\ CallInv'
  <2>1. \A r \in Runs : step'[r] = "unused" => step[r] = "unused"
    BY <1>5
  <2>2. \A r \in Runs : SessionOf(r)' = SessionOf(r)
    BY <1>1 DEF SessionOf
  <2> QED
    BY <1>1, <1>6, <2>1, <2>2 DEF RouteInv, SideInv, CallInv
<1>8. TrackInv'
  BY <1>1, <1>3, <1>5 DEF TrackInv, Opening
<1>9. StartInv'
  <2>1. \A q \in ToSet(requests') : Request0(q)'
    <3> SUFFICES ASSUME NEW q \in ToSet(requests'), q.kind = "start"
                 PROVE  Sent(q.run)' /\ q.session = asked'[q.run]
      BY DEF Request0
    <3>1. PICK r \in Opening : q = StartOf(r)
      BY <1>4
    <3> QED
      BY <1>1, <1>5, <3>1 DEF StartOf, Sent, Opening
  <2>2. ToSet(lines') = {}
    BY <1>1 DEF ToSet
  <2> QED
    BY <1>1, <2>1, <2>2 DEF RouteInv, StartInv
<1>10. ASSUME NEW s \in Young' PROVE Unheard(s)'
  <2>1. s \in Young /\ s \in Runs /\ Unheard(s)
    BY <1>6, <1>10 DEF RouteInv, YoungInv, Young
  <2>2. s \notin stored
    BY <1>1, <2>1 DEF Unheard
  <2>3. \A q \in ToSet(requests') : q.kind \notin UiKinds
    BY <1>4 DEF StartOf, UiKinds
  <2>4. ToSet(lines') = {} /\ InTurn(lines', s)
    BY <1>1, TurnSilent DEF ToSet
  <2>5. ~Granted(lines', s)
    BY <2>4 DEF Granted
  <2> QED
    BY <1>1, <2>1, <2>2, <2>3, <2>4, <2>5 DEF Unheard
<1>11. ASSUME NEW s \in Runs, Own(s)' PROVE FALSE
  <2>1. of[s] \in Chats /\ tracked'[of[s]] = s /\ step'[s] = "over"
    BY <1>1, <1>11 DEF Own
  <2>2. s # NoRun
    BY EditorBoundsAssumption DEF Runs, NoRun
  <2>3. s \in Opening
    BY <1>3, <2>1, <2>2
  <2> QED
    BY <1>5, <2>1, <2>3
<1> QED
  BY <1>7, <1>8, <1>9, <1>10, <1>11 DEF RouteInv, YoungInv, OwnInv

LEMMA UserRoute ==
    ASSUME PendingInv, RouteInv, UserStep
    PROVE  RouteInv'
<1>1. SideInv /\ CallInv /\ TrackInv /\ YoungInv /\ OwnInv /\ IsSeq(lines) /\ DOMAIN step = Runs
  BY DEF RouteInv, PendingInv
<1>2. CASE Select
  <2>1. SideInv'
    BY <1>1, <1>2 DEF Select, SideInv
  <2> QED
    BY <1>2, <2>1, StillRoute DEF Select, host, pipes, daemon
<1>3. CASE UserRun
  BY <1>3, RunTaskRoute DEF UserRun
<1>4. CASE QueueAdd
  <2>1. SideInv'
    BY <1>1, <1>4 DEF QueueAdd, SideInv, sidebar
  <2> QED
    BY <1>4, <2>1, StillRoute DEF QueueAdd, sidebar, host, pipes, daemon
<1>5. ASSUME NEW q, GoodRequest(q), Asks(q) PROVE RouteInv'
  BY <1>5, AsksRoute DEF Asks, daemon
<1>6. ASSUME NEW c \in Chats, Untrack({c}, lines, step), UNCHANGED <<of, asked, known>>, SideInv',
             \A d \in Chats : session'[d] \in {session[d], NoSession}
      PROVE  RouteInv'
  BY <1>1, <1>6, UntrackRoute
<1>7. \A c \in CurrentRun : c \in Chats /\ tracked[c] # NoRun
  BY <1>1 DEF CurrentRun, ChatsOf, SideInv
<1>8. CASE Cancel
  <2>1. PICK c \in CurrentRun :
          IF known[tracked[c]] # NoSession
          THEN Asks(Request("cancel", known[tracked[c]], c))
          ELSE /\ Untrack({c}, lines, step)
               /\ UNCHANGED <<chats, active, session, of, asked, known>>
    BY <1>8 DEF Cancel
  <2>2. c \in Chats /\ tracked[c] # NoRun
    BY <1>7
  <2>3. CASE known[tracked[c]] # NoSession
    <3>1. GoodRequest(Request("cancel", known[tracked[c]], c))
      BY <1>1, <2>2, <2>3, KnownGood DEF GoodRequest, Request, UiKinds
    <3> QED
      BY <1>5, <2>1, <2>3, <3>1
  <2>4. CASE known[tracked[c]] = NoSession
    <3>1. SideInv'
      BY <1>1, <2>1, <2>4 DEF SideInv
    <3> QED
      BY <1>6, <2>1, <2>2, <2>4, <3>1
  <2> QED
    BY <2>3, <2>4
<1>9. CASE Delete
  <2>1. PICK c \in chats :
          LET s == IF tracked[c] # NoRun /\ known[tracked[c]] # NoSession
                   THEN known[tracked[c]] ELSE session[c]
          IN  \/ Asks(Request("delete", s, c))
              \/ /\ Untrack({c}, lines, step) /\ Dropped(c)
                 /\ UNCHANGED <<of, asked, known, tasks>>
    BY <1>9 DEF Delete
  <2>2. c \in Chats
    BY <1>1 DEF SideInv
  <2>3. CASE /\ Untrack({c}, lines, step) /\ Dropped(c) /\ UNCHANGED <<of, asked, known>>
    BY <1>1, <1>6, <2>2, <2>3, DroppedSide
  <2>4. CASE tracked[c] # NoRun /\ known[tracked[c]] # NoSession
             /\ Asks(Request("delete", known[tracked[c]], c))
    <3>1. GoodRequest(Request("delete", known[tracked[c]], c))
      BY <1>1, <2>2, <2>4, KnownGood DEF GoodRequest, Request, UiKinds
    <3> QED
      BY <1>5, <2>4, <3>1
  <2>5. CASE Asks(Request("delete", session[c], c))
    <3>1. GoodRequest(Request("delete", session[c], c))
      BY <1>1, <2>2, SessionGood DEF GoodRequest, Request, UiKinds
    <3> QED
      BY <1>5, <2>5, <3>1
  <2> QED
    BY <2>1, <2>3, <2>4, <2>5
<1>10. CASE Clear
  <2>1. PICK t : /\ \/ t \in {known[tracked[c]] : c \in CurrentRun} \ {NoSession}
                    \/ t = NoSession
                    \/ active \in chats /\ t = session[active]
                 /\ Asks(Request("clear", t, active))
    BY <1>10 DEF Clear
  <2>2. t \notin Young
    <3>1. CASE t \in {known[tracked[c]] : c \in CurrentRun} \ {NoSession}
      BY <1>1, <1>7, <3>1, KnownGood
    <3>2. CASE t = NoSession
      BY <3>2, EditorBoundsAssumption DEF Young, Runs, NoSession
    <3>3. CASE active \in chats /\ t = session[active]
      BY <1>1, <3>3, SessionGood DEF SideInv
    <3> QED
      BY <2>1, <3>1, <3>2, <3>3
  <2>3. GoodRequest(Request("clear", t, active))
    BY <2>2 DEF GoodRequest, Request, UiKinds, FreeKinds
  <2> QED
    BY <1>5, <2>1, <2>3
<1> QED
  BY <1>2, <1>3, <1>4, <1>8, <1>9, <1>10 DEF UserStep

\* The answer to session.start: from now on the run and its chat have a session, and
\* they are the first.
LEMMA StartedRoute ==
    ASSUME PendingInv, RouteInv, lines # <<>>, Head(lines).kind = "answer",
           Head(lines).to.kind = "start", Head(lines).ok, OnStarted(Head(lines), Tail(lines))
    PROVE  RouteInv'
<1> DEFINE l == Head(lines)
           r == l.to.run
           t == l.session
           c == Target(of[r])
<1>1. /\ lines' = Tail(lines) /\ IsSeq(lines) /\ l \in ToSet(lines)
      /\ ToSet(lines) = {l} \cup ToSet(lines')
      /\ l.kind = "answer" /\ l.to.kind = "start" /\ l.ok
      /\ UNCHANGED <<chats, active, of, asked, tracked, up, requests, live, stored>>
  BY SetOfTail DEF OnStarted, PendingInv, host, daemon
<1>2. /\ r \in Runs /\ step[r] \notin {"unused", "opening"} /\ t = SessionOf(r) /\ t # NoSession
      /\ (t = r \/ t = asked[r])
  <2>1. Answer0(l)
    BY <1>1 DEF RouteInv, StartInv
  <2> QED
    BY <1>1, <2>1, EditorBoundsAssumption DEF Answer0, Sent, SessionOf, Runs, NoSession
<1>3. IF step[r] = "sent"
      THEN /\ step' = [step EXCEPT ![r] = "over"]
           /\ known' = [known EXCEPT ![r] = t]
           /\ session' = Put(session, {c}, t)
      ELSE UNCHANGED <<step, known, session>>
  BY DEF OnStarted
<1>4. \A s \in Runs : Grants(l, s) <=> t = s
  BY <1>1 DEF Grants
<1>5. \A b, s : ~Releases(l, b, s) /\ ~AnswersUi(l)
  BY <1>1 DEF Releases, AnswersUi, UiKinds
<1> HIDE DEF l, r, t, c
<1>6. CASE step[r] # "sent"
  <2>1. \A s \in Young : ~Grants(l, s)
    <3> SUFFICES ASSUME NEW s \in Young PROVE t # s
      BY <1>4 DEF Young
    <3>1. Unheard(s) /\ s # r
      BY <1>2, <1>6 DEF RouteInv, YoungInv, Young
    <3> QED
      BY <1>2, <3>1 DEF Unheard
  <2>2. SideInv'
    BY <1>1, <1>3, <1>6 DEF RouteInv, SideInv
  <2>3. UNCHANGED <<calls, tracked, up, requests, live, stored>> /\ session' = session
    BY <1>1, <1>3, <1>6 DEF calls
  <2> QED
    BY <1>1, <1>5, <2>1, <2>2, <2>3, StillRoute DEF l
<1>7. CASE step[r] = "sent"
  <2>1. /\ DOMAIN step = Runs /\ DOMAIN known = Runs
        /\ step'[r] = "over" /\ known'[r] = t
        /\ \A q \in Runs : q # r => step'[q] = step[q] /\ known'[q] = known[q]
        /\ DOMAIN known' = Runs
    BY <1>2, <1>3, <1>7 DEF PendingInv, RouteInv, CallInv
  <2>2. /\ DOMAIN session' = Chats
        /\ \A d \in Chats : session'[d] = IF d = c THEN t ELSE session[d]
    BY <1>3, <1>7 DEF Put
  <2>3. c \in Chats => c \in chats
    BY TargetShown, EditorNamesAssumption DEF c, RouteInv
  <2>4. SideInv'
    BY <1>1, <2>2, <2>3 DEF RouteInv, SideInv
  <2>5. \A q \in Runs : SessionOf(q)' = SessionOf(q)
    BY <1>1 DEF SessionOf
  <2>6. Young' = Young \ {r} /\ r \in Young
    BY <1>2, <1>7, <2>1 DEF Young
  <2>7. CallInv'
    BY <1>1, <1>2, <2>1, <2>5, <2>6 DEF RouteInv, CallInv
  <2>8. TrackInv'
    <3> SUFFICES ASSUME NEW d \in Chats, tracked[d] # NoRun
                 PROVE  /\ up /\ tracked[d] \in Runs /\ of[tracked[d]] = d
                        /\ \/ step'[tracked[d]] = "sent"
                           \/ step'[tracked[d]] = "over" /\ known'[tracked[d]] # NoSession
      BY <1>1 DEF RouteInv, TrackInv
    <3> QED
      BY <1>2, <2>1 DEF RouteInv, TrackInv
  <2>9. \A q : Sent(q) => Sent(q)'
    BY <2>1 DEF Sent
  <2>10. StartInv'
    BY <1>1, <2>5, <2>9 DEF RouteInv, StartInv, Request0, Answer0, Sent
  <2>11. Unheard(r)
    BY <2>6 DEF RouteInv, YoungInv
  <2>12. ASSUME NEW s \in Young' PROVE Unheard(s)'
    <3>1. s \in Young /\ s \in Runs /\ s # r /\ Unheard(s) /\ step'[s] = step[s]
      BY <2>1, <2>6, <2>12 DEF RouteInv, YoungInv, Young
    <3>2. t # s
      BY <1>2, <3>1 DEF Unheard
    <3>3. ~Grants(l, s) /\ ~Tells(l, s) /\ InTurn(lines', s)
      BY <1>1, <1>4, <3>1, <3>2, TurnHead DEF Unheard, l
    <3>4. /\ Granted(lines', s) <=> Granted(lines, s)
          /\ EndTold(lines', s) <=> EndTold(lines, s)
      BY <1>1, <3>3 DEF Granted, EndTold, Tells
    <3>5. \A d \in Chats : session'[d] # s
      BY <2>2, <3>1, <3>2 DEF Unheard
    <3> QED
      BY <1>1, <3>1, <3>3, <3>4, <3>5 DEF Unheard
  <2>13. ASSUME NEW s \in Runs, Own(s)' PROVE Kept(s)'
    <3>1. of[s] \in Chats /\ tracked[of[s]] = s /\ session'[of[s]] = s /\ ~StartedAgain(s)
          /\ step'[s] = "over" /\ known'[s] = s
      BY <1>1, <2>13 DEF Own, StartedAgain
    <3>2. asked[r] # s
      BY <1>2, <3>1 DEF StartedAgain
    <3>3. \A x : Releases(x, of[s], s)' <=> Releases(x, of[s], s)
      BY <1>1 DEF Releases
    <3>4. CASE s # r
      <4>1. t # s
        BY <1>2, <3>2, <3>4
      <4>2. Own(s)
        BY <2>1, <2>2, <3>1, <3>4, <4>1 DEF Own
      <4>3. Kept(s)
        BY <4>2 DEF RouteInv, OwnInv
      <4>4. \A d \in Chats : session'[d] = s => d = of[s]
        BY <2>2, <4>1, <4>3 DEF Kept
      <4>5. \A q \in ToSet(requests') : q.kind \in FreeKinds /\ q.session = s => q.chat = of'[s]
        BY <1>1, <4>3 DEF Kept
      <4>6. \A x \in ToSet(lines') :
                AnswersUi(x) /\ x.to.kind \in FreeKinds /\ x.ok /\ x.session = s => x.to.chat = of'[s]
        BY <1>1, <4>3 DEF Kept
      <4>7. s \in live' \/ s \notin stored' \/ \E x \in ToSet(lines') : Releases(x, of'[s], s)
        <5>1. \A x \in ToSet(lines) : Releases(x, of[s], s) => x \in ToSet(lines')
          BY <1>1, <1>5
        <5> QED
          BY <1>1, <4>3, <5>1 DEF Kept
      <4> QED
        BY <1>1, <4>4, <4>5, <4>6, <4>7 DEF Kept
    <3>5. CASE s = r
      <4>1. t = s
        BY <2>2, <2>11, <3>1, <3>5 DEF Unheard
      <4>2. \A d \in Chats : session'[d] = s => d = c
        BY <2>2, <2>11, <3>5 DEF Unheard
      <4>3. of[s] = c
        BY <3>1, <4>2
      <4>4. /\ \A q \in ToSet(requests) : q.kind \in UiKinds => q.session # s
            /\ \A x \in ToSet(lines) : AnswersUi(x) => x.session # s
            /\ Granted(lines, s) => s \in live \/ EndTold(lines, s)
        BY <2>11, <3>5 DEF Unheard
      <4>5. Granted(lines, s)
        BY <1>1, <1>4, <4>1 DEF Granted
      <4>6. EndTold(lines, s) => \E x \in ToSet(lines') : Releases(x, of[s], s)
        BY <1>1 DEF EndTold, Releases
      <4>7. \A q \in ToSet(requests) : q.kind \in FreeKinds /\ q.session = s => q.chat = of[s]
        BY <4>4 DEF FreeKinds, UiKinds
      <4>8. \A x \in ToSet(lines') : AnswersUi(x) => x.session # s
        BY <1>1, <4>4
      <4> QED
        BY <1>1, <3>3, <4>2, <4>3, <4>4, <4>5, <4>6, <4>7, <4>8 DEF Kept
    <3> QED
      BY <3>4, <3>5
  <2> QED
    BY <2>4, <2>7, <2>8, <2>10, <2>12, <2>13 DEF RouteInv, YoungInv, OwnInv
<1> QED
  BY <1>6, <1>7

\* A chat of the list that is new has a session no chat has, and no run.
LEMMA ReconciledSessions ==
    ASSUME SideInv, NEW all, NEW running, Reconciled(all, running)
    PROVE  /\ SideInv'
           /\ \A c \in Chats : \/ session'[c] \in {session[c], NoSession}
                               \/ /\ c \in Fresh /\ session'[c] \in all
                                  /\ \A d \in chats : session[d] # session'[c]
<1> DEFINE pruned  == {c \in chats : session[c] \notin all \cup {NoSession}}
           unknown == {s \in all : \A c \in chats : session[c] # s}
           Named   == {f \in [unknown -> Fresh] : \A s, t \in unknown : f[s] = f[t] => s = t}
<1>1. PICK f \in IF Named = {} THEN {[s \in {} |-> NoChat]} ELSE Named :
          /\ chats' = (chats \ pruned) \cup {f[s] : s \in DOMAIN f}
          /\ Moved(pruned, chats')
          /\ session' = [c \in Chats |-> IF c \in pruned THEN NoSession
                         ELSE IF \E s \in DOMAIN f : f[s] = c THEN CHOOSE s \in DOMAIN f : f[s] = c
                         ELSE session[c]]
  BY DEF Reconciled
<1>2. \A s \in DOMAIN f : s \in unknown /\ f[s] \in Fresh
  BY <1>1
<1>3. pruned \subseteq chats /\ Fresh \subseteq Chats
  BY DEF Fresh
<1>4. \A s \in unknown : s \in all /\ \A c \in chats : session[c] # s
  OBVIOUS
<1> HIDE DEF pruned, unknown, Named
<1>5. chats' \subseteq Chats
  BY <1>1, <1>2, <1>3 DEF SideInv
<1>6. active' \in chats' \cup {NoChat}
  <2>1. CASE active \in pruned
    BY <1>1, <2>1 DEF Moved
  <2>2. CASE active \notin pruned
    BY <1>1, <2>2 DEF Moved, SideInv
  <2> QED
    BY <2>1, <2>2
<1>7. ASSUME NEW c \in Chats
      PROVE  \/ c \notin pruned /\ session'[c] = session[c]
             \/ session'[c] = NoSession
             \/ session'[c] \in DOMAIN f /\ f[session'[c]] = c
  BY <1>1
<1>8. \A c \in Chats : session'[c] # NoSession => c \in chats'
  <2> SUFFICES ASSUME NEW c \in Chats, session'[c] # NoSession PROVE c \in chats'
    OBVIOUS
  <2>1. CASE c \notin pruned /\ session'[c] = session[c]
    BY <1>1, <2>1 DEF SideInv
  <2>2. CASE session'[c] \in DOMAIN f /\ f[session'[c]] = c
    BY <1>1, <2>2
  <2> QED
    BY <1>7, <2>1, <2>2
<1>9. SideInv'
  BY <1>1, <1>5, <1>6, <1>8 DEF SideInv
<1> QED
  BY <1>2, <1>4, <1>7, <1>9

\* The list of the daemon's sessions: the host hears of sessions it did not know, but
\* of none whose answer is still behind the list.
LEMMA ListRoute ==
    ASSUME PendingInv, RouteInv, lines # <<>>, Head(lines).kind = "list",
           OnList(Head(lines), Tail(lines))
    PROVE  RouteInv'
<1> DEFINE l == Head(lines)
<1>1. /\ lines' = Tail(lines) /\ IsSeq(lines)
      /\ ToSet(lines) = {l} \cup ToSet(lines')
      /\ l.kind = "list"
      /\ UNCHANGED <<step, of, asked, known, tracked, up, requests, live, stored>>
  BY SetOfTail DEF OnList, PendingInv, calls, host, daemon
<1>2. /\ SideInv'
      /\ \A c \in Chats : \/ session'[c] \in {session[c], NoSession}
                          \/ /\ c \in Fresh /\ session'[c] \in l.all
                             /\ \A d \in chats : session[d] # session'[c]
  BY ReconciledSessions DEF OnList, RouteInv
<1>3. \A b, s : ~Releases(l, b, s) /\ ~Grants(l, s) /\ ~AnswersUi(l)
  BY <1>1 DEF Releases, Grants, AnswersUi
<1>4. CallInv' /\ TrackInv' /\ Young' = Young
  BY <1>1 DEF RouteInv, CallInv, TrackInv, Young, SessionOf
<1>5. StartInv'
  BY <1>1 DEF RouteInv, StartInv, Request0, Answer0, Sent, SessionOf
<1>6. ASSUME NEW s \in Young PROVE Unheard(s)'
  <2>1. Unheard(s) /\ s \in Runs /\ s # NoSession
    BY EditorBoundsAssumption DEF RouteInv, YoungInv, Young, Runs, NoSession
  <2>2. ~Tells(l, s) /\ InTurn(lines', s)
    BY <1>1, <1>3, <2>1, TurnHead DEF Unheard
  <2>3. s \notin l.all
    BY <1>1, <2>2 DEF Tells
  <2>4. \A c \in Chats : session'[c] # s
    BY <1>2, <2>1, <2>3 DEF Unheard
  <2>5. /\ Granted(lines', s) <=> Granted(lines, s)
        /\ EndTold(lines', s) <=> EndTold(lines, s)
    BY <1>1, <1>3 DEF Granted, EndTold
  <2> QED
    BY <1>1, <2>1, <2>2, <2>4, <2>5 DEF Unheard
<1>7. ASSUME NEW s \in Runs, Own(s)' PROVE Kept(s)'
  <2>1. /\ of' = of /\ step[s] = "over" /\ of[s] \in Chats /\ tracked[of[s]] = s
        /\ session'[of[s]] = s /\ ~StartedAgain(s) /\ known[s] = s /\ s # NoSession
    BY <1>1, <1>7, EditorBoundsAssumption DEF Own, StartedAgain, Runs, NoSession
  <2>2. session[of[s]] = s
    BY <1>2, <2>1 DEF Fresh
  <2>3. Kept(s) /\ of[s] \in chats
    BY <2>1, <2>2 DEF RouteInv, OwnInv, Own, SideInv
  <2>4. \A c \in Chats : session'[c] = s => c = of'[s]
    BY <1>2, <2>1, <2>2, <2>3 DEF Kept
  <2>5. \A q \in ToSet(requests') : q.kind \in FreeKinds /\ q.session = s => q.chat = of'[s]
    BY <1>1, <2>3 DEF Kept
  <2>6. \A x \in ToSet(lines') :
            AnswersUi(x) /\ x.to.kind \in FreeKinds /\ x.ok /\ x.session = s => x.to.chat = of'[s]
    BY <1>1, <2>3 DEF Kept
  <2>7. s \in live' \/ s \notin stored' \/ \E x \in ToSet(lines') : Releases(x, of'[s], s)
    BY <1>1, <1>3, <2>3 DEF Kept
  <2> QED
    BY <2>4, <2>5, <2>6, <2>7 DEF Kept
<1> QED
  BY <1>2, <1>4, <1>5, <1>6, <1>7 DEF RouteInv, YoungInv, OwnInv

\* The end of a run whose session the host has heard of: whoever has it is taken out.
LEMMA EndedRoute ==
    ASSUME PendingInv, RouteInv, lines # <<>>, Head(lines).kind = "ended",
           OnEnded(Head(lines), Tail(lines))
    PROVE  RouteInv'
<1> DEFINE l == Head(lines)
           C == ChatsOf(l.session)
<1>1. /\ IsSeq(Tail(lines)) /\ l.kind = "ended" /\ Untrack(C, Tail(lines), step)
      /\ UNCHANGED <<chats, active, session, of, asked, known>> /\ DOMAIN step = Runs
  BY SetOfTail DEF OnEnded, FinishRunBySession, PendingInv
<1>2. SideInv'
  BY <1>1 DEF RouteInv, SideInv
<1>3. \A s : ~Grants(l, s)
  BY <1>1 DEF Grants
<1>4. ASSUME NEW s \in Runs, Own(s), of[s] \notin C PROVE ~Releases(l, of[s], s)
  <2>1. tracked[of[s]] = s /\ of[s] \in Chats /\ step[s] = "over" /\ s # NoRun /\ s # NoSession
    BY <1>4, EditorBoundsAssumption DEF Own, Runs, NoRun, NoSession
  <2>2. known[s] = s
    BY <1>4 DEF Own
  <2>3. l.session # s
    BY <1>4, <2>1, <2>2 DEF ChatsOf
  <2> QED
    BY <1>1, <2>3 DEF Releases
<1> QED
  BY <1>1, <1>2, <1>3, <1>4, UntrackRoute

\* session.start failed, timed out, or was answered by nobody.
LEMMA StartFailedRoute ==
    ASSUME PendingInv, RouteInv, NEW r, NEW rest, StartFailed(r, rest), IsSeq(rest),
           \/ rest = lines
           \/ /\ lines # <<>> /\ rest = Tail(lines)
              /\ Head(lines).kind = "answer" /\ ~Head(lines).ok
    PROVE  RouteInv'
<1> DEFINE st == [step EXCEPT ![r] = "over"]
<1>1. /\ Untrack({of[r]}, rest, st)
      /\ UNCHANGED <<chats, active, session, of, asked, known>>
  BY DEF StartFailed
<1>2. DOMAIN st = Runs /\ \A q \in Runs : st[q] = step[q] \/ (st[q] = "over" /\ of[q] \in {of[r]})
  BY DEF PendingInv
<1>3. SideInv'
  BY <1>1 DEF RouteInv, SideInv
<1> HIDE DEF st
<1>4. \/ rest = lines
      \/ /\ lines # <<>> /\ rest = Tail(lines)
         /\ \A s : ~Grants(Head(lines), s)
         /\ \A b, s : ~Releases(Head(lines), b, s)
  BY DEF Grants, Releases
<1> QED
  BY <1>1, <1>2, <1>3, <1>4, UntrackRoute

\* The daemon that was let go had started the run after all: its session is known to
\* the chat, and to no daemon that is there.
LEMMA OrphanRoute ==
    ASSUME PendingInv, RouteInv, NEW r \in Runs, OrphanAnswer(r)
    PROVE  RouteInv'
<1>1. CASE StartFailed(r, lines)
  BY <1>1, StartFailedRoute DEF PendingInv
<1>2. CASE ~StartFailed(r, lines)
  <2>1. /\ step' = [step EXCEPT ![r] = "over"] /\ stored' = stored \cup {r}
        /\ known' = [known EXCEPT ![r] = r] /\ session' = Put(session, {Target(of[r])}, r)
        /\ asked[r] = NoSession /\ step[r] = "orphan"
        /\ UNCHANGED <<chats, active, of, asked, tracked, up, requests, lines, live>>
    BY <1>2 DEF OrphanAnswer, host, pipes
  <2>2. /\ DOMAIN step = Runs /\ DOMAIN known = Runs /\ DOMAIN known' = Runs
        /\ step'[r] = "over" /\ known'[r] = r /\ r # NoSession
        /\ \A q \in Runs : q # r => step'[q] = step[q] /\ known'[q] = known[q]
    BY <2>1, EditorBoundsAssumption DEF PendingInv, RouteInv, CallInv, Runs, NoSession
  <2>3. /\ DOMAIN session' = Chats
        /\ \A d \in Chats : session'[d] = IF d = Target(of[r]) THEN r ELSE session[d]
    BY <2>1 DEF Put
  <2>4. Target(of[r]) \in Chats => Target(of[r]) \in chats
    BY TargetShown, EditorNamesAssumption DEF RouteInv
  <2>5. SideInv'
    BY <2>1, <2>3, <2>4 DEF RouteInv, SideInv
  <2>6. Young' = Young /\ r \notin Young
    BY <2>1, <2>2 DEF Young
  <2>7. \A q \in Runs : SessionOf(q)' = SessionOf(q)
    BY <2>1 DEF SessionOf
  <2>8. CallInv'
    BY <2>1, <2>2, <2>6, <2>7 DEF RouteInv, CallInv, SessionOf
  <2>9. \A c \in Chats : tracked[c] # r
    BY <2>1, EditorBoundsAssumption DEF RouteInv, TrackInv, Runs, NoRun
  <2>10. TrackInv'
    <3> SUFFICES ASSUME NEW d \in Chats, tracked[d] # NoRun
                 PROVE  /\ up /\ tracked[d] \in Runs /\ of[tracked[d]] = d
                        /\ \/ step'[tracked[d]] = "sent"
                           \/ step'[tracked[d]] = "over" /\ known'[tracked[d]] # NoSession
      BY <2>1 DEF RouteInv, TrackInv
    <3> QED
      BY <2>2, <2>9 DEF RouteInv, TrackInv
  <2>11. \A q : Sent(q) => Sent(q)'
    BY <2>2 DEF Sent
  <2>12. StartInv'
    BY <2>1, <2>7, <2>11 DEF RouteInv, StartInv, Request0, Answer0, Sent
  <2>13. ASSUME NEW s \in Young PROVE Unheard(s)'
    <3>1. Unheard(s) /\ s \in Runs /\ s # r
      BY <2>6 DEF RouteInv, YoungInv, Young
    <3>2. \A d \in Chats : session'[d] # s
      BY <2>3, <3>1 DEF Unheard
    <3>3. s \in stored' <=> s \in stored
      BY <2>1, <3>1
    <3> QED
      BY <2>1, <2>2, <3>1, <3>2, <3>3 DEF Unheard
  <2>14. ASSUME NEW s \in Runs, Own(s)' PROVE Kept(s)'
    <3>1. of[s] \in Chats /\ tracked[of[s]] = s /\ session'[of[s]] = s /\ ~StartedAgain(s)
          /\ step'[s] = "over" /\ known'[s] = s
      BY <2>1, <2>14 DEF Own, StartedAgain
    <3>2. s # r
      BY <2>9, <3>1
    <3>3. Own(s)
      BY <2>2, <2>3, <3>1, <3>2 DEF Own
    <3>4. Kept(s)
      BY <3>3 DEF RouteInv, OwnInv
    <3>5. \A d \in Chats : session'[d] = s => d = of'[s]
      BY <2>1, <2>3, <3>2, <3>4 DEF Kept
    <3>6. \A x : Releases(x, of[s], s)' <=> Releases(x, of[s], s)
      BY <2>1 DEF Releases
    <3>7. s \in stored' <=> s \in stored
      BY <2>1, <3>2
    <3> QED
      BY <2>1, <3>4, <3>5, <3>6, <3>7 DEF Kept
  <2> QED
    BY <2>5, <2>6, <2>8, <2>10, <2>12, <2>13, <2>14 DEF RouteInv, YoungInv, OwnInv
<1> QED
  BY <1>1, <1>2

\* The answers to what the user asked, and the refusals.
LEMMA AnswerRoute ==
    ASSUME PendingInv, RouteInv, lines # <<>>, Head(lines).kind = "answer",
           OnAnswer(Head(lines), Tail(lines))
    PROVE  RouteInv'
<1> DEFINE l == Head(lines)
           rest == Tail(lines)
<1>1. IsSeq(rest) /\ l.kind = "answer" /\ DOMAIN step = Runs
  BY SetOfTail DEF PendingInv
<1>2. l.to.kind # "start" => \A s : ~Grants(l, s)
  BY DEF Grants
<1>3. ASSUME UNCHANGED <<calls, tracked, up, requests, live, stored>>, SideInv', lines' = rest,
             \A c \in Chats : session'[c] \in {session[c], NoSession},
             l.to.kind # "start", l.to.kind \in FreeKinds => ~l.ok
      PROVE  RouteInv'
  <2>1. \A b, s : ~Releases(l, b, s)
    BY <1>1, <1>3 DEF Releases, FreeKinds
  <2> QED
    BY <1>2, <1>3, <2>1, StillRoute
<1>4. ASSUME Untrack({l.to.chat}, rest, step), UNCHANGED <<of, asked, known>>, SideInv',
             \A d \in Chats : session'[d] \in {session[d], NoSession}, l.to.kind # "start"
      PROVE  RouteInv'
  <2>1. \A s : Own(s) /\ of[s] \notin {l.to.chat} => ~Releases(l, of[s], s)
    BY <1>1 DEF Releases
  <2> QED
    BY <1>1, <1>2, <1>4, <2>1, UntrackRoute
<1>5. SideInv /\ (UNCHANGED <<chats, active, session>> => SideInv')
  BY DEF RouteInv, SideInv
<1>6. CASE l.to.kind = "subscribe" /\ OnSubscribed(l, rest)
  BY <1>3, <1>5, <1>6 DEF OnSubscribed, sidebar, daemon, FreeKinds
<1>7. CASE l.to.kind = "start" /\ l.ok /\ OnStarted(l, rest)
  BY <1>7, StartedRoute
<1>8. CASE l.to.kind = "start" /\ ~l.ok /\ OnRefused(l, rest)
  <2>1. CASE StartFailed(l.to.run, rest)
    BY <1>1, <1>8, <2>1, StartFailedRoute
  <2>2. CASE lines' = rest /\ UNCHANGED <<sidebar, calls, host, tasks, requests, daemon>>
    <3>1. \A b, s : ~Releases(l, b, s) /\ ~Grants(l, s)
      BY <1>1, <1>8 DEF Releases, Grants
    <3>2. UNCHANGED <<chats, active, session, tracked, up, live, stored>>
      BY <2>2 DEF sidebar, host, daemon
    <3> QED
      BY <1>5, <2>2, <3>1, <3>2, StillRoute
  <2> QED
    BY <1>8, <2>1, <2>2 DEF OnRefused
<1>9. CASE l.to.kind = "cancel" /\ OnCancelled(l, rest)
  <2>1. UNCHANGED <<chats, active, session, of, asked, known>>
    BY <1>9 DEF OnCancelled
  <2>2. CASE l.ok
    BY <1>4, <1>5, <1>9, <2>1, <2>2 DEF OnCancelled
  <2>3. CASE ~l.ok
    <3>1. lines' = rest /\ UNCHANGED <<calls, tracked, up, requests, live, stored>>
      BY <1>9, <2>1, <2>3 DEF OnCancelled, calls, host, daemon
    <3> QED
      BY <1>3, <1>5, <1>9, <2>1, <2>3, <3>1
  <2> QED
    BY <2>2, <2>3
<1>10. CASE l.to.kind = "delete" /\ OnDeleted(l, rest)
  <2>1. SideInv' /\ \A d \in Chats : session'[d] \in {session[d], NoSession}
    BY <1>5, <1>10, DroppedSide DEF OnDeleted
  <2> QED
    BY <1>4, <1>10, <2>1 DEF OnDeleted
<1>11. CASE l.to.kind = "clear" /\ OnCleared(l, rest)
  <2> DEFINE C == {c \in AnyRun : known[tracked[c]] # NoSession}
  <2>1. CASE ~l.ok
    <3>1. lines' = rest /\ UNCHANGED <<chats, active, session, calls, tracked, up, requests, live, stored>>
      BY <1>11, <2>1 DEF OnCleared, host, daemon
    <3> QED
      BY <1>3, <1>5, <1>11, <2>1, <3>1
  <2>2. CASE /\ \E c \in C :
                  requests' = Append(requests, Request("clearing", known[tracked[c]], c))
             /\ lines' = rest /\ UNCHANGED <<sidebar, calls, host, daemon>>
    <3>1. PICK c \in C : requests' = Append(requests, Request("clearing", known[tracked[c]], c))
      BY <2>2
    <3>2. c \in Chats /\ tracked[c] # NoRun /\ known[tracked[c]] # NoSession
      BY <1>5, <3>1 DEF AnyRun, CurrentRun, ChatsOf, SideInv
    <3>3. GoodRequest(Request("clearing", known[tracked[c]], c))
      BY <3>2, KnownGood DEF GoodRequest, Request, UiKinds, RouteInv
    <3>4. \A b, s : ~Releases(l, b, s)
      BY <1>1, <1>11 DEF Releases
    <3> QED
      BY <1>2, <1>11, <2>2, <3>1, <3>3, <3>4, AsksRoute DEF daemon
  <2>3. CASE Cleared /\ lines' = rest /\ UNCHANGED <<calls, host, requests, daemon>>
    <3>1. SideInv' /\ \A d \in Chats : session'[d] \in {session[d], NoSession}
      BY <1>5, <2>3, ClearedSide
    <3> QED
      BY <1>3, <1>11, <2>3, <3>1 DEF host, daemon, FreeKinds
  <2> QED
    BY <1>11, <2>1, <2>2, <2>3 DEF OnCleared
<1>12. CASE l.to.kind = "clearing" /\ OnClearing(l, rest)
  <2>1. SideInv' /\ \A d \in Chats : session'[d] \in {session[d], NoSession}
    BY <1>5, <1>12, ClearedSide DEF OnClearing
  <2> QED
    BY <1>4, <1>12, <2>1 DEF OnClearing
<1> QED
  BY <1>6, <1>7, <1>8, <1>9, <1>10, <1>11, <1>12 DEF OnAnswer

\* There is no process, or it died: the calls are told.
LEMMA OpenFailsRoute == ASSUME PendingInv, OneInv, RouteInv, OpenFails PROVE RouteInv'
<1>1. /\ ~up /\ UNCHANGED <<chats, active, session, step, of, asked, known, tracked, up, requests, live, stored>>
  BY SpawnPending DEF OpenFails, sidebar, calls, daemon
<1>2. PICK rs \in InOrder(Opening) :
          lines' = [i \in DOMAIN rs |-> Answer(StartOf(rs[i]), FALSE, NoSession)]
  BY DEF OpenFails
<1>3. \A l \in ToSet(lines') : \E q : l = Answer(q, FALSE, NoSession)
  BY <1>2 DEF ToSet
<1>4. DOMAIN tracked' = Chats /\ \A c \in Chats : tracked'[c] = NoRun
  BY <1>1 DEF RouteInv, TrackInv
<1>5. Calmer
  BY <1>1, <1>4 DEF Calmer, RouteInv, SideInv, TrackInv
<1> QED
  BY <1>1, <1>3, <1>4, <1>5, HostAlone

LEMMA ExitRoute == ASSUME PendingInv, RouteInv, Exit PROVE RouteInv'
<1>1. /\ up' = FALSE /\ tracked' = [c \in Chats |-> NoRun] /\ live' = {}
      /\ UNCHANGED <<chats, active, session, step, of, asked, known, stored>>
      /\ Rejected(lines, UiKinds \cup {"start"}) /\ requests' = <<>>
  BY DEF Exit, calls
<1>2. \A l \in ToSet(lines') : \E q : l = Answer(q, FALSE, NoSession)
  BY <1>1, RejectedAnswers DEF PendingInv
<1>3. ToSet(requests') = {}
  BY <1>1 DEF ToSet
<1>4. Calmer
  BY <1>1 DEF Calmer, RouteInv, SideInv
<1> QED
  BY <1>1, <1>2, <1>3, <1>4, HostAlone

LEMMA HostRoute ==
    ASSUME PendingInv, OneInv, RouteInv, HostStep
    PROVE  RouteInv'
<1>1. CASE Dispatch
  <2>1. CASE UNCHANGED <<sidebar, calls, host, pipes, daemon>>
    <3>1. SideInv' /\ session' = session
      BY <2>1 DEF RouteInv, SideInv, sidebar
    <3> QED
      BY <2>1, <3>1, StillRoute DEF host, pipes, daemon
  <2> QED
    BY <1>1, <2>1, RunTaskRoute DEF Dispatch
<1>2. CASE HandleLine
  BY <1>2, EndedRoute, ListRoute, AnswerRoute DEF HandleLine
<1>3. ASSUME NEW r \in Runs, TimeOut(r) PROVE RouteInv'
  BY <1>3, StartFailedRoute DEF TimeOut, PendingInv
<1> QED
  BY <1>1, <1>2, <1>3, OpenedRoute, OpenFailsRoute, OrphanRoute DEF HostStep

-----------------------------------------------------------------------------
(* The daemon: the answer that gives a session goes out before any line that *)
(* speaks of it, and a session ends with a line for the chat that has it.    *)

LEMMA OneLine == ASSUME NEW x PROVE IsSeq(<<x>>) /\ ToSet(<<x>>) = {x}
BY DEF IsSeq, ToSet

LEMMA TwoLines == ASSUME NEW x, NEW y PROVE IsSeq(<<x, y>>) /\ ToSet(<<x, y>>) = {x, y}
<1>1. <<x, y>> \in Seq({x, y}) /\ ToSet(<<x, y>>) = {x, y}
  BY DEF ToSet
<1> QED
  BY <1>1 DEF IsSeq

LEMMA GrantFirst ==
    ASSUME NEW x, NEW y, NEW s, Grants(x, s)
    PROVE  InTurn(<<x, y>>, s)
<1>1. ~Tells(x, s)
  BY DEF Grants, Tells
<1>2. DOMAIN <<x, y>> = {1, 2} /\ <<x, y>>[1] = x /\ 1 < 2
  OBVIOUS
<1> QED
  BY <1>1, <1>2 DEF InTurn

\* What the daemon may say.
Speaks(says, s) ==
    /\ \A l \in ToSet(says) : AnswersUi(l) => l.session # s
    /\ s \in stored' => s \in stored \/ (step[s] = "sent" /\ Granted(says, s))
    /\ InTurn(says, s) \/ \A l \in ToSet(says) : Tells(l, s) => s \in stored
    /\ s \in live => s \in live' \/ EndTold(says, s)
    /\ Granted(says, s) => s \in live'
Spares(says, s) ==
    /\ \A l \in ToSet(says) :
           AnswersUi(l) /\ l.to.kind \in FreeKinds /\ l.ok /\ l.session = s => l.to.chat = of[s]
    /\ s \in live => s \in live' \/ s \notin stored' \/ \E l \in ToSet(says) : Releases(l, of[s], s)
    /\ s \notin stored => s \in live' \/ s \notin stored'

LEMMA DaemonTalks ==
    ASSUME PendingInv, RouteInv, up, UNCHANGED <<sidebar, calls, host>>,
           ToSet(requests') \subseteq ToSet(requests), live' \subseteq stored',
           NEW says, IsSeq(says), lines' = lines \o says,
           \A l \in ToSet(says) : Answer0(l),
           \A s \in Young : Speaks(says, s), \A s \in Runs : Own(s) => Spares(says, s)
    PROVE  RouteInv'
<1>1. ToSet(lines') = ToSet(lines) \cup ToSet(says) /\ IsSeq(lines)
  BY SetOfConcat DEF PendingInv
<1>2. UNCHANGED <<chats, active, session, step, of, asked, known, tracked, up>>
  BY DEF sidebar, calls, host
<1>3. SideInv' /\ CallInv' /\ TrackInv' /\ Young' = Young
  BY <1>2 DEF RouteInv, SideInv, CallInv, TrackInv, Young, SessionOf
<1>4. StartInv'
  BY <1>1, <1>2 DEF RouteInv, StartInv, Request0, Answer0, Sent, SessionOf
<1>5. ASSUME NEW s \in Young PROVE Unheard(s)'
  <2>1. Unheard(s) /\ Speaks(says, s)
    BY DEF RouteInv, YoungInv
  <2>2. /\ Granted(lines', s) <=> Granted(lines, s) \/ Granted(says, s)
        /\ EndTold(lines', s) <=> EndTold(lines, s) \/ EndTold(says, s)
    BY <1>1 DEF Granted, EndTold
  <2>3. s \in stored' => step[s] = "sent" /\ Granted(lines', s)
    BY <2>1, <2>2 DEF Unheard, Speaks
  <2>4. InTurn(lines', s)
    <3>1. InTurn(says, s) \/ Granted(lines, s)
      BY <2>1, TurnSilent DEF Unheard, Speaks
    <3> QED
      BY <1>1, <2>1, <3>1, TurnConcat DEF Unheard
  <2>5. Granted(lines', s) => s \in live' \/ EndTold(lines', s)
    BY <2>1, <2>2 DEF Unheard, Speaks
  <2>6. \A l \in ToSet(lines') : AnswersUi(l) => l.session # s
    BY <1>1, <2>1 DEF Unheard, Speaks
  <2>7. \A q \in ToSet(requests') : q.kind \in UiKinds => q.session # s
    BY <2>1 DEF Unheard
  <2> QED
    BY <1>2, <2>1, <2>3, <2>4, <2>5, <2>6, <2>7 DEF Unheard
<1>6. ASSUME NEW s \in Runs, Own(s)' PROVE Kept(s)'
  <2>1. Own(s)
    BY <1>2, <1>6 DEF Own, StartedAgain
  <2>2. Kept(s) /\ Spares(says, s)
    BY <2>1 DEF RouteInv, OwnInv
  <2>3. \A l : Releases(l, of[s], s)' <=> Releases(l, of[s], s)
    BY <1>2 DEF Releases
  <2>4. s \in live' \/ s \notin stored' \/ \E l \in ToSet(lines') : Releases(l, of[s], s)
    BY <1>1, <2>2 DEF Kept, Spares
  <2>5. \A l \in ToSet(lines') :
            AnswersUi(l) /\ l.to.kind \in FreeKinds /\ l.ok /\ l.session = s => l.to.chat = of[s]
    BY <1>1, <2>2 DEF Kept, Spares
  <2>6. \A q \in ToSet(requests') : q.kind \in FreeKinds /\ q.session = s => q.chat = of[s]
    BY <2>2 DEF Kept
  <2> QED
    BY <1>2, <2>2, <2>3, <2>4, <2>5, <2>6 DEF Kept
<1> QED
  BY <1>3, <1>4, <1>5, <1>6 DEF RouteInv, YoungInv, OwnInv

LEMMA ReadsRoute == ASSUME PendingInv, RouteInv, Reads PROVE RouteInv'
<1> DEFINE q == Head(requests)
           x == q.session
<1>1. /\ up /\ q \in ToSet(requests) /\ ToSet(requests') \subseteq ToSet(requests)
      /\ UNCHANGED <<sidebar, calls, host>>
  BY SetOfTail DEF Reads, PendingInv
<1>2. live \subseteq stored /\ Request0(q)
  BY <1>1 DEF RouteInv, StartInv
<1>3. ASSUME NEW s \in Young PROVE Unheard(s) /\ s # NoSession /\ s \in Runs
  BY EditorBoundsAssumption DEF RouteInv, YoungInv, Young, Runs, NoSession
<1>4. ASSUME NEW s \in Runs PROVE s # NoSession
  BY EditorBoundsAssumption DEF Runs, NoSession
<1>5. ASSUME NEW says, IsSeq(says), lines' = lines \o says, live' \subseteq stored',
             \A l \in ToSet(says) : Answer0(l),
             \A s \in Young : Speaks(says, s), \A s \in Runs : Own(s) => Spares(says, s)
      PROVE  RouteInv'
  BY <1>1, <1>5, DaemonTalks
<1>6. ASSUME NEW l, IsSeq(<<l>>), lines' = lines \o <<l>>, UNCHANGED daemon,
             l = Answer(q, FALSE, NoSession) \/ (l = Answer(q, TRUE, NoSession) /\ q.kind = "clear")
      PROVE  RouteInv'
  <2> DEFINE says == <<l>>
  <2>1. ToSet(says) = {l} /\ UNCHANGED <<live, stored>>
    BY <1>6, OneLine DEF daemon
  <2>2. /\ l.kind = "answer" /\ l.session = NoSession
        /\ l.to = q /\ (l.ok => q.kind = "clear")
    BY <1>6 DEF Answer
  <2> HIDE DEF says
  <2>3. \A s \in Young : Speaks(says, s)
    BY <1>3, <2>1, <2>2 DEF Speaks, Tells, Granted, Grants
  <2>4. \A s \in Runs : Spares(says, s)
    BY <1>4, <2>1, <2>2 DEF Spares
  <2> QED
    BY <1>2, <1>5, <1>6, <2>1, <2>2, <2>3, <2>4 DEF Answer0, says
<1>7. CASE q.kind = "subscribe" /\ UNCHANGED daemon
           /\ Says(<<Answer(q, TRUE, NoSession), Listed(stored, live)>>)
  <2> DEFINE a == Answer(q, TRUE, NoSession)
             b == Listed(stored, live)
             says == <<a, b>>
  <2>1. IsSeq(says) /\ ToSet(says) = {a, b} /\ lines' = lines \o says
        /\ UNCHANGED <<live, stored>>
    BY <1>7, TwoLines DEF Says, daemon
  <2>2. /\ a.kind = "answer" /\ a.to = q /\ a.session = NoSession
        /\ b.kind = "list" /\ b.all = stored
    BY DEF Answer, Listed
  <2> HIDE DEF a, b, says
  <2>3. \A s \in Young : Speaks(says, s)
    BY <1>7, <1>3, <2>1, <2>2 DEF Speaks, Tells, Granted, Grants, AnswersUi
  <2>4. \A s \in Runs : Spares(says, s)
    BY <1>7, <1>4, <2>1, <2>2 DEF Spares, AnswersUi
  <2> QED
    BY <1>2, <1>5, <1>7, <2>1, <2>2, <2>3, <2>4 DEF Answer0
<1>8. CASE q.kind = "start" /\ Accepts(q)
  <2> DEFINE s0 == IF x = NoSession THEN q.run ELSE x
  <2>1. CASE Says(<<Answer(q, FALSE, NoSession)>>) /\ UNCHANGED daemon
    BY <1>6, <2>1, OneLine DEF Says
  <2>2. CASE /\ live' = live \cup {s0} /\ stored' = stored \cup {s0}
             /\ Says(<<Answer(q, TRUE, s0), Listed(stored', live')>>)
    <3> DEFINE a == Answer(q, TRUE, s0)
               b == Listed(stored', live')
               says == <<a, b>>
    <3>1. IsSeq(says) /\ ToSet(says) = {a, b} /\ lines' = lines \o says
      BY <2>2, TwoLines DEF Says
    <3>2. /\ a.kind = "answer" /\ a.to = q /\ a.session = s0 /\ a.ok
          /\ b.kind = "list" /\ b.all = stored'
      BY DEF Answer, Listed
    <3>3. Sent(q.run) /\ x = asked[q.run] /\ s0 = SessionOf(q.run)
      BY <1>2, <1>8 DEF Request0, SessionOf
    <3> HIDE DEF a, b
    <3>4. \A s : Grants(a, s) <=> s = s0
      BY <1>8, <3>2 DEF Grants
    <3>5. ASSUME NEW s \in Young PROVE Speaks(says, s)
      <4>1. s = s0 => s = q.run /\ step[s] = "sent"
        <5>1. q.run \in Runs
          BY <3>3 DEF Sent
        <5> QED
          BY <1>3, <3>3, <5>1 DEF SessionOf, Unheard, Sent, Young
      <4>2. \A l \in ToSet(says) : ~AnswersUi(l)
        BY <1>8, <3>1, <3>2 DEF AnswersUi, UiKinds
      <4>3. Granted(says, s) <=> s = s0
        BY <3>1, <3>2, <3>4 DEF Granted, Grants
      <4>4. s = s0 => InTurn(says, s)
        BY <3>4, GrantFirst
      <4>5. s # s0 => \A l \in ToSet(says) : Tells(l, s) => s \in stored
        BY <2>2, <3>1, <3>2 DEF Tells
      <4> HIDE DEF says, s0
      <4> QED
        BY <2>2, <4>1, <4>2, <4>3, <4>4, <4>5 DEF Speaks
    <3>6. ASSUME NEW s \in Runs PROVE Spares(says, s)
      <4>1. \A l \in ToSet(says) : ~AnswersUi(l)
        BY <1>8, <3>1, <3>2 DEF AnswersUi, UiKinds
      <4> HIDE DEF says, s0
      <4> QED
        BY <2>2, <4>1 DEF Spares
    <3>7. \A l \in ToSet(says) : Answer0(l)
      BY <3>1, <3>2, <3>3 DEF Answer0
    <3>8. live' \subseteq stored'
      BY <1>2, <2>2
    <3> HIDE DEF says
    <3> QED
      BY <1>5, <3>1, <3>5, <3>6, <3>7, <3>8
  <2> QED
    BY <1>8, <2>1, <2>2 DEF Accepts
<1>9. CASE q.kind \in FreeKinds /\ Cancels(q)
  <2>1. CASE Says(<<Answer(q, FALSE, NoSession)>>) /\ UNCHANGED daemon
    BY <1>6, <2>1, OneLine DEF Says
  <2>2. ASSUME NEW late \in {<<>>, <<Ended(x)>>}, live' = live \ {x}, stored' = stored,
               Says(late \o <<Answer(q, TRUE, x), Listed(stored, live')>>)
        PROVE  RouteInv'
    <3> DEFINE a == Answer(q, TRUE, x)
               b == Listed(stored, live')
               says == late \o <<a, b>>
    <3>1. IsSeq(late) /\ ToSet(late) \subseteq {Ended(x)}
      <4>1. IsSeq(<<>>) /\ ToSet(<<>>) = {}
        BY DEF IsSeq, ToSet
      <4> QED
        BY <4>1, OneLine
    <3>2. IsSeq(says) /\ ToSet(says) \subseteq {Ended(x), a, b} /\ a \in ToSet(says)
          /\ lines' = lines \o says
      <4> HIDE DEF a, b
      <4>1. IsSeq(<<a, b>>) /\ ToSet(<<a, b>>) = {a, b}
        BY TwoLines
      <4>2. IsSeq(says) /\ ToSet(says) = ToSet(late) \cup {a, b}
        BY <3>1, <4>1, SetOfConcat
      <4>3. lines' = lines \o says
        BY <2>2 DEF Says, a, b
      <4> HIDE DEF says
      <4> QED
        BY <3>1, <4>2, <4>3
    <3>3. /\ a.kind = "answer" /\ a.to = q /\ a.session = x /\ a.ok
          /\ b.kind = "list" /\ b.all = stored
          /\ Ended(x).kind = "ended" /\ Ended(x).session = x
      BY DEF Answer, Listed, Ended
    <3> HIDE DEF a, b, says
    <3>4. ASSUME NEW s \in Young PROVE Speaks(says, s)
      <4>1. x # s
        BY <1>1, <1>3, <1>9 DEF Unheard, FreeKinds, UiKinds
      <4>2. \A l \in ToSet(says) : /\ AnswersUi(l) => l.session # s
                                   /\ Tells(l, s) => s \in stored
                                   /\ ~Grants(l, s)
        BY <1>9, <3>2, <3>3, <4>1 DEF AnswersUi, Tells, Grants, FreeKinds
      <4> QED
        BY <2>2, <4>1, <4>2 DEF Speaks, Granted
    <3>5. ASSUME NEW s \in Runs, Own(s) PROVE Spares(says, s)
      <4>1. x = s => q.chat = of[s]
        BY <1>1, <1>9, <3>5 DEF RouteInv, OwnInv, Kept
      <4>2. x = s => Releases(a, of[s], s)
        BY <1>9, <3>3, <4>1 DEF Releases, FreeKinds
      <4> QED
        BY <2>2, <3>2, <3>3, <4>1, <4>2 DEF Spares, AnswersUi
    <3>6. \A l \in ToSet(says) : Answer0(l)
      BY <1>9, <3>2, <3>3 DEF Answer0, FreeKinds
    <3> QED
      BY <1>2, <1>5, <2>2, <3>2, <3>4, <3>5, <3>6
  <2> QED
    BY <1>9, <2>1, <2>2 DEF Cancels, Stops
<1>10. CASE q.kind = "clear" /\ Wipes(q)
  <2>1. CASE Says(<<Answer(q, TRUE, NoSession)>>) /\ UNCHANGED daemon
    BY <1>6, <1>10, <2>1, OneLine DEF Says
  <2>2. CASE /\ live' = live \ {x} /\ stored' = stored \ {x}
             /\ Says(<<Listed(stored', live'), Answer(q, TRUE, x)>>)
    <3> DEFINE a == Listed(stored', live')
               b == Answer(q, TRUE, x)
               says == <<a, b>>
    <3>1. IsSeq(says) /\ ToSet(says) = {a, b} /\ lines' = lines \o says
      BY <2>2, TwoLines DEF Says
    <3>2. /\ b.kind = "answer" /\ b.to = q /\ b.session = x
          /\ a.kind = "list" /\ a.all = stored'
      BY DEF Answer, Listed
    <3> HIDE DEF a, b, says
    <3>3. ASSUME NEW s \in Young PROVE Speaks(says, s)
      <4>1. x # s
        BY <1>1, <1>3, <1>10 DEF Unheard, UiKinds
      <4>2. \A l \in ToSet(says) : /\ AnswersUi(l) => l.session # s
                                   /\ Tells(l, s) => s \in stored
                                   /\ ~Grants(l, s)
        BY <1>10, <2>2, <3>1, <3>2, <4>1 DEF AnswersUi, Tells, Grants
      <4> QED
        BY <2>2, <4>1, <4>2 DEF Speaks, Granted
    <3>4. ASSUME NEW s \in Runs PROVE Spares(says, s)
      BY <1>10, <2>2, <3>1, <3>2 DEF Spares, AnswersUi, FreeKinds
    <3>5. \A l \in ToSet(says) : Answer0(l)
      BY <1>10, <3>1, <3>2 DEF Answer0
    <3>6. live' \subseteq stored'
      BY <1>2, <2>2
    <3> QED
      BY <1>5, <3>1, <3>3, <3>4, <3>5, <3>6
  <2> QED
    BY <1>10, <2>1, <2>2 DEF Wipes, Stops
<1> QED
  BY <1>7, <1>8, <1>9, <1>10 DEF Reads, FreeKinds

\* A run ends by itself.
LEMMA EndsRoute ==
    ASSUME PendingInv, OneInv, RouteInv, NEW x \in live, AgentDone(x) \/ SessionEnds(x)
    PROVE  RouteInv'
<1>1. up /\ UNCHANGED <<sidebar, calls, host, requests, stored>> /\ live \subseteq stored
  BY DEF OneInv, AgentDone, SessionEnds, RouteInv, StartInv
<1> DEFINE e == Ended(x)
           b == Listed(stored, live \ {x})
<1>2. PICK says : /\ IsSeq(says) /\ lines' = lines \o says /\ e \in ToSet(says)
                  /\ ToSet(says) \subseteq {e, b}
  <2>1. CASE AgentDone(x)
    BY <2>1, OneLine DEF AgentDone, Says
  <2>2. CASE SessionEnds(x)
    <3>1. lines' = lines \o <<e, b>>
      BY <2>2 DEF SessionEnds, Says, Stops
    <3> QED
      BY <3>1, TwoLines
  <2> QED
    BY <2>1, <2>2
<1>3. live' \in {live, live \ {x}}
  BY DEF AgentDone, SessionEnds, Stops
<1>4. e.kind = "ended" /\ e.session = x /\ b.kind = "list" /\ b.all = stored
  BY DEF Ended, Listed
<1> HIDE DEF e, b
<1>5. ASSUME NEW s \in Young PROVE Speaks(says, s)
  <2>1. \A l \in ToSet(says) : ~AnswersUi(l) /\ ~Grants(l, s) /\ (Tells(l, s) => s \in stored)
    BY <1>1, <1>2, <1>4 DEF AnswersUi, Grants, Tells
  <2>2. s \in live => s \in live' \/ EndTold(says, s)
    BY <1>2, <1>3, <1>4 DEF EndTold
  <2> QED
    BY <1>1, <2>1, <2>2 DEF Speaks, Granted
<1>6. ASSUME NEW s \in Runs PROVE Spares(says, s)
  <2>1. \A l \in ToSet(says) : ~AnswersUi(l)
    BY <1>2, <1>4 DEF AnswersUi
  <2>2. s = x => Releases(e, of[s], s)
    BY <1>4 DEF Releases
  <2> QED
    BY <1>1, <1>2, <1>3, <2>1, <2>2 DEF Spares
<1>7. \A l \in ToSet(says) : Answer0(l)
  BY <1>2, <1>4 DEF Answer0
<1> QED
  BY <1>1, <1>2, <1>3, <1>5, <1>6, <1>7, DaemonTalks

LEMMA DaemonRoute == ASSUME PendingInv, OneInv, RouteInv, DaemonStep PROVE RouteInv'
BY ExitRoute, ReadsRoute, EndsRoute DEF DaemonStep, AgentDone, SessionEnds

LEMMA RouteInductive == Init /\ [][Next]_vars => []RouteInv
<1>1. Init => RouteInv
  <2> SUFFICES ASSUME Init PROVE RouteInv
    OBVIOUS
  <2>1. /\ chats = {} /\ active = NoChat /\ session = [c \in Chats |-> NoSession]
        /\ step = [r \in Runs |-> "unused"] /\ asked = [r \in Runs |-> NoSession]
        /\ known = [r \in Runs |-> NoSession] /\ tracked = [c \in Chats |-> NoRun]
        /\ ToSet(requests) = {} /\ ToSet(lines) = {} /\ live = {} /\ stored = {}
    BY DEF Init, ToSet
  <2>2. SideInv /\ CallInv /\ TrackInv /\ StartInv
    BY <2>1 DEF SideInv, CallInv, TrackInv, StartInv
  <2>3. \A s \in Runs : s # NoSession /\ ~Own(s)
    BY <2>1, EditorBoundsAssumption DEF Own, Runs, NoSession
  <2>4. ASSUME NEW s \in Runs PROVE Unheard(s)
    <3>1. InTurn(lines, s) /\ ~Granted(lines, s)
      BY <2>1, TurnSilent DEF Granted
    <3> QED
      BY <2>1, <2>3, <3>1 DEF Unheard
  <2> QED
    BY <2>2, <2>3, <2>4 DEF RouteInv, YoungInv, Young, OwnInv
<1>2. PendingInv /\ OneInv /\ RouteInv /\ [Next]_vars => RouteInv'
  <2>1. ASSUME PendingInv, RouteInv, UNCHANGED vars PROVE RouteInv'
    <3>1. SideInv'
      BY <2>1 DEF RouteInv, SideInv, vars, sidebar
    <3> QED
      BY <2>1, <3>1, StillRoute DEF vars, sidebar, host, pipes, daemon
  <2> QED
    BY <2>1, UserRoute, HostRoute, DaemonRoute DEF Next
<1> QED
  BY <1>1, <1>2, OneInductive, PendingInductive, PTL

\* Runs are routed by a session the host learns late, from one of two pipes: even so
\* every run that is tracked is live, or still waits for its answer, or a line is on
\* its way that takes it out of its chat.
THEOREM NoChatIsStuck == Spec => []NoRunStuck
<1>1. RouteInv => NoRunStuck
  <2> SUFFICES ASSUME RouteInv, NEW c \in chats, tracked[c] # NoRun,
                      step[tracked[c]] # "sent", session[c] = known[tracked[c]],
                      ~StartedAgain(known[tracked[c]])
               PROVE  LET s == known[tracked[c]]
                      IN  \/ s \in live
                          \/ s \notin stored \cup {NoSession}
                          \/ \E l \in ToSet(lines) : Releases(l, c, s)
    BY DEF NoRunStuck
  <2> DEFINE r == tracked[c]
  <2>1. c \in Chats /\ r \in Runs /\ of[r] = c /\ step[r] = "over" /\ known[r] # NoSession
    BY DEF RouteInv, SideInv, TrackInv
  <2>2. known[r] = SessionOf(r) /\ asked[r] # known[r]
    BY <2>1 DEF RouteInv, CallInv, StartedAgain
  <2>3. known[r] = r
    BY <2>2 DEF SessionOf
  <2>4. Kept(r)
    BY <2>1, <2>3 DEF RouteInv, OwnInv, Own
  <2> QED
    BY <2>1, <2>3, <2>4 DEF Kept
<1> QED
  BY <1>1, RouteInductive, PTL DEF Spec

=============================================================================
