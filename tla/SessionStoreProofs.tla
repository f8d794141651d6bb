------------------------- MODULE SessionStoreProofs -------------------------
(***************************************************************************)
(* Theorems about SessionStore for a project that only terminals reconcile, *)
(* one after the other, and every set of sessions.                          *)
(***************************************************************************)
EXTENDS SessionStore, TLAPS

OnlyTerminals == Processes \subseteq {Terminal}

-----------------------------------------------------------------------------
(* The inductive invariant. *)

\* A terminal that is not up has no runs and no handles; the session it shows
\* has a state, and the one it closes has lost its handle.
Quiet ==
    /\ stage # "up" => \A s \in Sessions : run[s] = None /\ handle[s] = None
    /\ closing # None => /\ stage = "up" /\ closing \in Sessions
                         /\ handle[closing] = None
    /\ current # None => view[current] # None

\* A reconciliation belongs to a start, and removes clean worktrees.
JobsSound ==
    \A p \in Processes :
        /\ job[p].step # "off" => stage = "starting"
        /\ job[p].step = "off" => \A s \in Sessions : job[p].todo[s] = None
        /\ job[p].step \in {"remove", "save"} => job[p].at \in Sessions
        /\ job[p].step = "remove" => /\ tree[job[p].at] = "clean"
                                     /\ job[p].todo[job[p].at] # None

\* Nothing will write the record of a session that was closed.
Forgotten ==
    \A s \in Sessions : fate[s] = "closed" =>
        /\ record[s] = None /\ handle[s] = None
        /\ \A p \in Processes : job[p].todo[s] = None

IInv == TypeOK /\ Quiet /\ JobsSound /\ Forgotten

-----------------------------------------------------------------------------

LEMMA InitIInv == Init => IInv
<1> SUFFICES ASSUME Init PROVE IInv
  OBVIOUS
<1>1. TypeOK
  BY StoreBounds DEF Init, TypeOK, Off, Jobs
<1>2. Quiet /\ JobsSound /\ Forgotten
  BY DEF Init, Quiet, JobsSound, Forgotten, Off
<1>. QED BY <1>1, <1>2 DEF IInv

(* Reconciling: what is written is written by a terminal that starts. *)

\* The list holds no record of a closed session.
LEMMA BeginKeeps ==
  ASSUME OnlyTerminals, IInv, NEW p \in Processes, Begin(p) PROVE IInv'
<1> DEFINE started == [step |-> "pick", at |-> None, todo |-> Stale]
<1>1. p = Terminal /\ p # Daemon
  BY DEF OnlyTerminals, Terminal, Daemon
<1>2. /\ stage = "down" /\ stage' = "starting" /\ job[p].step = "off"
      /\ left[p] > 0 /\ left' = [left EXCEPT ![p] = @ - 1]
      /\ UNCHANGED <<disk, memory, tasks, fate>>
  BY <1>1 DEF Begin
<1>3. job' = [job EXCEPT ![p] = started]
  BY DEF Begin
<1>4. /\ Stale \in [Sessions -> Records \cup {None}]
      /\ \A s \in Sessions : record[s] = None => Stale[s] = None
  BY DEF Stale, IInv, TypeOK, Records
<1>5. started \in Jobs
  BY <1>4 DEF Jobs
<1> HIDE DEF started
<1>6. TypeOK'
  <2>1. job' \in [Processes -> Jobs]
    BY <1>3, <1>5 DEF IInv, TypeOK
  <2>2. left' \in [Processes -> 0..MaxRounds]
    BY <1>2, StoreBounds DEF IInv, TypeOK
  <2>. QED BY <1>2, <2>1, <2>2 DEF IInv, TypeOK, disk, memory
<1>7. Quiet'
  BY <1>2 DEF IInv, Quiet, disk, memory
<1>8. \A q \in Processes : job'[q] = started
  BY <1>1, <1>3 DEF OnlyTerminals, IInv, TypeOK
<1>9. JobsSound'
  BY <1>2, <1>8 DEF JobsSound, started
<1>10. Forgotten'
  BY <1>2, <1>4, <1>8 DEF IInv, Forgotten, started, disk, memory
<1>. QED BY <1>6, <1>7, <1>9, <1>10 DEF IInv

\* A worktree goes on to be removed only when it is clean.
LEMMA InspectKeeps ==
  ASSUME IInv, NEW p \in Processes, Inspect(p) PROVE IInv'
<1>1. PICK s \in Sessions, step \in {"save", "remove"} :
        /\ job[p].todo[s] # None
        /\ step = "remove" => tree[s] = "clean"
        /\ job' = [job EXCEPT ![p] =
                     [step |-> step, at |-> s,
                      todo |-> [@.todo EXCEPT ![s] =
                                  IF InTree(job[p].todo[s]) /\ tree[s] = "none"
                                  THEN MovedBack(job[p].todo[s])
                                  ELSE job[p].todo[s]]]]
  BY DEF Inspect, Removable
<1> DEFINE r == IF InTree(job[p].todo[s]) /\ tree[s] = "none"
                THEN MovedBack(job[p].todo[s]) ELSE job[p].todo[s]
<1>2. /\ job[p].step = "pick" /\ stage = "starting"
      /\ UNCHANGED <<disk, stage, memory, left, tasks, fate>>
  BY DEF Inspect, IInv, JobsSound
<1>3. job[p] \in Jobs
  BY DEF IInv, TypeOK
<1>0. r \in Records
  <2>1. job[p].todo[s] \in Records
    BY <1>1, <1>3 DEF Jobs
  <2>2. MovedBack(job[p].todo[s]) \in Records
    BY <2>1 DEF MovedBack, Records, Places
  <2>. QED BY <2>1, <2>2
<1>4. job'[p] = [step |-> step, at |-> s,
                 todo |-> [job[p].todo EXCEPT ![s] = r]]
  BY <1>1, <1>3 DEF IInv, TypeOK, Jobs
<1>a. step = "remove" => r # None
  BY <1>1
<1> HIDE DEF r
<1>5. /\ \A q \in Processes \ {p} : job'[q] = job[q]
      /\ DOMAIN job' = Processes
      /\ job' = [q \in Processes |-> job'[q]]
  BY <1>1 DEF IInv, TypeOK
<1>6. job'[p] \in Jobs
  BY <1>0, <1>3, <1>4 DEF Jobs
<1>7. TypeOK'
  <2>1. job' \in [Processes -> Jobs]
    BY <1>5, <1>6 DEF IInv, TypeOK
  <2>. QED BY <1>2, <2>1 DEF IInv, TypeOK, disk, memory
<1>8. Quiet'
  BY <1>2 DEF IInv, Quiet, disk, memory
<1>9. JobsSound'
  <2>1. step = "remove" => job'[p].todo[s] # None
    BY <1>a, <1>3, <1>4 DEF Jobs
  <2>2. /\ job'[p].step = step /\ job'[p].at = s /\ step \in {"save", "remove"}
        /\ step = "remove" => tree'[s] = "clean"
    BY <1>1, <1>2, <1>4 DEF disk
  <2>3. \A q \in Processes \ {p} : job'[q] = job[q]
    BY <1>5
  <2>. QED BY <1>2, <2>1, <2>2, <2>3 DEF IInv, JobsSound, disk
<1>10. Forgotten'
  <2>1. fate[s] # "closed"
    BY <1>1 DEF IInv, Forgotten
  <2>2. \A x \in Sessions \ {s} : job'[p].todo[x] = job[p].todo[x]
    BY <1>3, <1>4 DEF Jobs
  <2>. QED BY <1>2, <1>5, <2>1, <2>2 DEF IInv, Forgotten, disk, memory
<1>. QED BY <1>7, <1>8, <1>9, <1>10 DEF IInv

\* What is removed is moved back in the list.
LEMMA RemoveKeeps ==
  ASSUME OnlyTerminals, IInv, NEW p \in Processes, Remove(p) PROVE IInv'
<1> DEFINE s == job[p].at
<1>1. /\ s \in Sessions /\ job[p].todo[s] # None /\ job[p].step = "remove"
      /\ stage = "starting"
  BY DEF Remove, IInv, JobsSound
<1>2. UNCHANGED <<record, blob, stage, memory, left, tasks, fate>>
  BY DEF Remove
<1>3. PICK r \in {job[p].todo[s], MovedBack(job[p].todo[s])} :
        job' = [job EXCEPT ![p].step = "save", ![p].todo[s] = r]
  <2>1. [job EXCEPT ![p].step = "save"]
          = [job EXCEPT ![p].step = "save", ![p].todo[s] = job[p].todo[s]]
    BY <1>1 DEF IInv, TypeOK, Jobs
  <2>2. \/ job' = [job EXCEPT ![p].step = "save", ![p].todo[s] = MovedBack(@)]
        \/ job' = [job EXCEPT ![p].step = "save"]
    BY DEF Remove
  <2>3. [job EXCEPT ![p].step = "save", ![p].todo[s] = MovedBack(@)]
          = [job EXCEPT ![p].step = "save",
                        ![p].todo[s] = MovedBack(job[p].todo[s])]
    BY <1>1 DEF IInv, TypeOK, Jobs
  <2>. QED BY <2>1, <2>2, <2>3
<1>4. tree' \in [Sessions -> {"none", "clean", "dirty"}]
  BY DEF Remove, IInv, TypeOK
<1> HIDE DEF s
<1>5. job[p] \in Jobs /\ r \in Records
  <2>1. job[p] \in Jobs /\ job[p].todo[s] \in Records
    BY <1>1 DEF IInv, TypeOK, Jobs
  <2>2. MovedBack(job[p].todo[s]) \in Records
    BY <2>1 DEF MovedBack, Records, Places
  <2>. QED BY <2>1, <2>2
<1>6. job'[p] = [step |-> "save", at |-> s,
                 todo |-> [job[p].todo EXCEPT ![s] = r]]
  BY <1>3, <1>5 DEF IInv, TypeOK, Jobs, s
<1>7. \A q \in Processes : q = p
  BY DEF OnlyTerminals
<1>8. job'[p] \in Jobs
  BY <1>1, <1>5, <1>6 DEF Jobs
<1>9. TypeOK'
  <2>1. job' \in [Processes -> Jobs]
    BY <1>3, <1>7, <1>8 DEF IInv, TypeOK
  <2>. QED BY <1>2, <1>4, <2>1 DEF IInv, TypeOK, memory
<1>10. Quiet'
  BY <1>2 DEF IInv, Quiet, memory
<1>11. JobsSound'
  BY <1>1, <1>2, <1>6, <1>7 DEF JobsSound
<1>12. Forgotten'
  <2>1. fate[s] # "closed"
    BY <1>1 DEF IInv, Forgotten
  <2>2. \A x \in Sessions \ {s} : job'[p].todo[x] = job[p].todo[x]
    BY <1>5, <1>6 DEF Jobs
  <2>. QED BY <1>2, <1>7, <2>1, <2>2 DEF IInv, Forgotten, memory
<1>. QED BY <1>9, <1>10, <1>11, <1>12 DEF IInv

\* A record of the list is not that of a closed session.
LEMMA SaveKeeps ==
  ASSUME IInv, NEW p \in Processes, Save(p) PROVE IInv'
<1> DEFINE s == job[p].at
<1>1. s \in Sessions /\ job[p].step = "save" /\ stage = "starting"
  BY DEF Save, IInv, JobsSound
<1>2. /\ record' = [record EXCEPT ![s] = job[p].todo[s]]
      /\ job' = [job EXCEPT ![p].step = "pick", ![p].at = None,
                            ![p].todo[s] = None]
      /\ UNCHANGED <<blob, tree, stage, memory, left, tasks, fate>>
  BY DEF Save
<1> HIDE DEF s
<1>3. job[p] \in Jobs
  BY DEF IInv, TypeOK
<1>4. job'[p] = [step |-> "pick", at |-> None,
                 todo |-> [job[p].todo EXCEPT ![s] = None]]
  BY <1>1, <1>2, <1>3 DEF IInv, TypeOK, Jobs
<1>5. \A q \in Processes \ {p} : job'[q] = job[q]
  BY <1>2 DEF IInv, TypeOK
<1>6. TypeOK'
  <2>1. job'[p] \in Jobs
    BY <1>1, <1>3, <1>4 DEF Jobs
  <2>2. job' \in [Processes -> Jobs]
    BY <1>2, <1>5, <2>1 DEF IInv, TypeOK
  <2>3. record' \in [Sessions -> Records \cup {None}]
    BY <1>1, <1>2, <1>3 DEF IInv, TypeOK, Jobs
  <2>. QED BY <1>2, <2>2, <2>3 DEF IInv, TypeOK, memory
<1>7. Quiet'
  BY <1>2 DEF IInv, Quiet, memory
<1>8. JobsSound'
  <2> SUFFICES ASSUME NEW q \in Processes
               PROVE  /\ job'[q].step # "off" => stage' = "starting"
                      /\ job'[q].step = "off" =>
                            \A x \in Sessions : job'[q].todo[x] = None
                      /\ job'[q].step \in {"remove", "save"} => job'[q].at \in Sessions
                      /\ job'[q].step = "remove" => /\ tree'[job'[q].at] = "clean"
                                                    /\ job'[q].todo[job'[q].at] # None
    BY DEF JobsSound
  <2>1. CASE q = p
    <3>1. job'[q].step = "pick" /\ stage' = "starting"
      BY <1>1, <1>2, <1>4, <2>1
    <3>. QED BY <3>1
  <2>2. CASE q # p
    <3>1. job'[q] = job[q] /\ tree' = tree /\ stage' = stage
      BY <1>2, <1>5, <2>2
    <3>2. JobsSound
      BY DEF IInv
    <3>. QED BY <3>1, <3>2 DEF JobsSound
  <2>. QED BY <2>1, <2>2
<1>9. Forgotten'
  <2>1. \A x \in Sessions : job'[p].todo[x] \in {job[p].todo[x], None}
    BY <1>1, <1>3, <1>4 DEF Jobs
  <2>2. \A x \in Sessions : record'[x] \in {record[x], job[p].todo[x]}
    BY <1>1, <1>2 DEF IInv, TypeOK
  <2>3. \A x \in Sessions : handle'[x] = handle[x] /\ fate'[x] = fate[x]
    BY <1>2 DEF memory
  <2> SUFFICES ASSUME NEW x \in Sessions, fate'[x] = "closed"
               PROVE  /\ record'[x] = None /\ handle'[x] = None
                      /\ \A q \in Processes : job'[q].todo[x] = None
    BY DEF Forgotten
  <2>4. /\ record[x] = None /\ handle[x] = None
        /\ \A q \in Processes : job[q].todo[x] = None
    BY <2>3 DEF IInv, Forgotten
  <2>. QED BY <1>5, <2>1, <2>2, <2>3, <2>4
<1>. QED BY <1>6, <1>7, <1>8, <1>9 DEF IInv

(* The start: what it registers is recorded. *)

LEMMA RestoreKeeps ==
  ASSUME OnlyTerminals, IInv, NEW p \in Processes, Restore(p) PROVE IInv'
<1> USE DEF Restore, Up, Restorable, Recorded, Registered, Shared, Reconciled, Off, disk, memory
<1>1. TypeOK'
  BY DEF IInv, TypeOK, Quiet, Jobs, Blobs, Records, Handles, Runs, Status, Places
<1>2. Quiet'
  BY StoreNames DEF IInv, TypeOK, Quiet, JobsSound, Blobs, Status
<1>3. JobsSound'
  BY DEF IInv, TypeOK, JobsSound, OnlyTerminals
<1>4. Forgotten'
  BY DEF IInv, TypeOK, Quiet, JobsSound, Forgotten
<1>. QED BY <1>1, <1>2, <1>3, <1>4 DEF IInv

LEMMA FreshKeeps ==
  ASSUME OnlyTerminals, IInv, NEW p \in Processes, Fresh(p) PROVE IInv'
<1> USE DEF Fresh, Up, Recorded, Registered, Shared, Reconciled, Off, Sessions, disk, memory
<1>1. TypeOK'
  BY DEF IInv, TypeOK, Quiet, Jobs, Blobs, Records, Handles, Runs, Status, Places
<1>2. Quiet'
  BY StoreNames DEF IInv, TypeOK, Quiet, JobsSound, Blobs, Status
<1>3. JobsSound'
  BY DEF IInv, TypeOK, JobsSound, OnlyTerminals
<1>4. Forgotten'
  BY DEF IInv, TypeOK, Quiet, JobsSound, Forgotten
<1>. QED BY <1>1, <1>2, <1>3, <1>4 DEF IInv

(* The terminal at work: only sessions with a handle are recorded. *)

LEMMA SpawnKeeps ==
  ASSUME OnlyTerminals, IInv, NEW s \in Spawned, Spawn(s) PROVE IInv'
<1> USE DEF Spawn, Sessions, AtWork, Keeps, disk, memory
<1>1. TypeOK'
  BY DEF IInv, TypeOK, Quiet, Jobs, Blobs, Records, Handles, Runs, Status, Places
<1>2. Quiet'
  BY DEF IInv, TypeOK, Quiet
<1>3. JobsSound'
  BY DEF IInv, TypeOK, Quiet, JobsSound
<1>4. Forgotten'
  BY DEF IInv, TypeOK, Quiet, JobsSound, Forgotten
<1>. QED BY <1>1, <1>2, <1>3, <1>4 DEF IInv

LEMMA SubmitKeeps ==
  ASSUME OnlyTerminals, IInv, Submit PROVE IInv'
<1> USE DEF Submit, AtWork, Keeps, disk, memory
<1>1. TypeOK'
  BY StoreBounds DEF IInv, TypeOK, Quiet, Jobs, Blobs, Records, Handles, Runs, Status, Places
<1>2. Quiet'
  BY DEF IInv, TypeOK, Quiet
<1>3. JobsSound'
  BY DEF IInv, TypeOK, Quiet, JobsSound
<1>4. Forgotten'
  BY DEF IInv, TypeOK, Quiet, JobsSound, Forgotten
<1>. QED BY <1>1, <1>2, <1>3, <1>4 DEF IInv

LEMMA StartedKeeps ==
  ASSUME OnlyTerminals, IInv, NEW s \in Sessions, Started(s) PROVE IInv'
<1> USE DEF Started, Shows, AtWork, Keeps, disk, memory
<1>1. TypeOK'
  BY DEF IInv, TypeOK, Quiet, Jobs, Blobs, Records, Handles, Runs, Status, Places
<1>2. Quiet'
  BY StoreNames DEF IInv, TypeOK, Quiet, Blobs, Status
<1>3. JobsSound'
  BY DEF IInv, TypeOK, Quiet, JobsSound
<1>4. Forgotten'
  BY DEF IInv, TypeOK, Quiet, JobsSound, Forgotten
<1>. QED BY <1>1, <1>2, <1>3, <1>4 DEF IInv

LEMMA WorkKeeps ==
  ASSUME OnlyTerminals, IInv, NEW s \in Spawned, Work(s) PROVE IInv'
<1> USE DEF Work, Sessions, AtWork, Keeps, disk, memory
<1>1. TypeOK'
  BY DEF IInv, TypeOK, Quiet, Jobs, Blobs, Records, Handles, Runs, Status, Places
<1>2. Quiet'
  BY DEF IInv, TypeOK, Quiet
<1>3. JobsSound'
  BY DEF IInv, TypeOK, Quiet, JobsSound
<1>4. Forgotten'
  BY DEF IInv, TypeOK, Quiet, JobsSound, Forgotten
<1>. QED BY <1>1, <1>2, <1>3, <1>4 DEF IInv

LEMMA EndKeeps ==
  ASSUME OnlyTerminals, IInv, NEW s \in Sessions, End(s) PROVE IInv'
<1> USE DEF End, Shows, AtWork, Keeps, disk, memory
<1>1. TypeOK'
  BY DEF IInv, TypeOK, Quiet, Jobs, Blobs, Records, Handles, Runs, Status, Places
<1>2. Quiet'
  BY StoreNames DEF IInv, TypeOK, Quiet, Blobs, Status
<1>3. JobsSound'
  BY DEF IInv, TypeOK, Quiet, JobsSound
<1>4. Forgotten'
  BY DEF IInv, TypeOK, Quiet, JobsSound, Forgotten
<1>. QED BY <1>1, <1>2, <1>3, <1>4 DEF IInv

LEMMA InterruptKeeps ==
  ASSUME OnlyTerminals, IInv, Interrupt PROVE IInv'
<1> USE DEF Interrupt, Cancelled, AtWork, Keeps, disk, memory
<1>1. TypeOK'
  BY DEF IInv, TypeOK, Quiet, Jobs, Blobs, Records, Handles, Runs, Status, Places
<1>2. Quiet'
  BY DEF IInv, TypeOK, Quiet
<1>3. JobsSound'
  BY DEF IInv, TypeOK, Quiet, JobsSound
<1>4. Forgotten'
  BY DEF IInv, TypeOK, Quiet, JobsSound, Forgotten
<1>. QED BY <1>1, <1>2, <1>3, <1>4 DEF IInv

LEMMA SwitchKeeps ==
  ASSUME OnlyTerminals, IInv, NEW s \in Sessions, Switch(s) PROVE IInv'
<1> USE DEF Switch, AtWork, Keeps, disk, memory
<1>1. TypeOK'
  BY DEF IInv, TypeOK, Quiet, Jobs, Blobs, Records, Handles, Runs, Status, Places
<1>2. Quiet'
  BY StoreNames DEF IInv, TypeOK, Quiet, Blobs, Status
<1>3. JobsSound'
  BY DEF IInv, TypeOK, Quiet, JobsSound
<1>4. Forgotten'
  BY DEF IInv, TypeOK, Quiet, JobsSound, Forgotten
<1>. QED BY <1>1, <1>2, <1>3, <1>4 DEF IInv

LEMMA PersistKeeps ==
  ASSUME OnlyTerminals, IInv, Persist PROVE IInv'
<1> USE DEF Persist, Written, Lifecycle, AtWork, Keeps, disk, memory
<1>1. TypeOK'
  BY DEF IInv, TypeOK, Quiet, Jobs, Blobs, Records, Handles, Runs, Status, Places
<1>2. Quiet'
  BY DEF IInv, TypeOK, Quiet
<1>3. JobsSound'
  BY DEF IInv, TypeOK, Quiet, JobsSound
<1>4. Forgotten'
  BY DEF IInv, TypeOK, Quiet, JobsSound, Forgotten
<1>. QED BY <1>1, <1>2, <1>3, <1>4 DEF IInv

LEMMA CloseKeeps ==
  ASSUME OnlyTerminals, IInv, NEW s \in Sessions, Close(s) PROVE IInv'
<1> USE DEF Close, Cancelled, AtWork, Keeps, disk, memory
<1>1. TypeOK'
  <2>1. (/\ record \in [Sessions -> Records \cup {None}]
         /\ blob \in [Sessions -> Blobs \cup {None}]
         /\ tree \in [Sessions -> {"none", "clean", "dirty"}])'
    BY DEF IInv, TypeOK
  <2>2. (/\ stage \in {"down", "starting", "up"}
         /\ handle \in [Sessions -> Handles \cup {None}]
         /\ tabs \in SUBSET Sessions
         /\ {current, closing} \subseteq Sessions \cup {None}
         /\ view \in [Sessions -> Status \cup {None}])'
    BY DEF IInv, TypeOK, Status
  <2>3. (run \in [Sessions -> Runs \cup {None}])'
    BY DEF IInv, TypeOK, Runs
  <2>4. (job \in [Processes -> Jobs])'
    BY DEF IInv, TypeOK, Jobs
  <2>5. (/\ left \in [Processes -> 0..MaxRounds] /\ tasks \in 0..MaxTasks
         /\ fate \in [Sessions -> {"open", "closing", "closed"}])'
    BY DEF IInv, TypeOK
  <2> QED
    BY <2>1, <2>2, <2>3, <2>4, <2>5 DEF TypeOK
<1>2. Quiet'
  BY DEF IInv, TypeOK, Quiet
<1>3. JobsSound'
  BY DEF IInv, TypeOK, Quiet, JobsSound
<1>4. Forgotten'
  BY DEF IInv, TypeOK, Quiet, JobsSound, Forgotten
<1>. QED BY <1>1, <1>2, <1>3, <1>4 DEF IInv

LEMMA DeleteKeeps ==
  ASSUME OnlyTerminals, IInv, Delete PROVE IInv'
<1> USE DEF Delete, disk, memory
<1>1. TypeOK'
  BY DEF IInv, TypeOK, Quiet, Jobs, Blobs, Records, Handles, Runs, Status, Places
<1>2. Quiet'
  BY StoreNames DEF IInv, TypeOK, Quiet, Blobs, Status
<1>3. JobsSound'
  BY DEF IInv, TypeOK, Quiet, JobsSound
<1>4. Forgotten'
  BY DEF IInv, TypeOK, Quiet, JobsSound, Forgotten
<1>. QED BY <1>1, <1>2, <1>3, <1>4 DEF IInv

LEMMA DieKeeps ==
  ASSUME OnlyTerminals, IInv, Die PROVE IInv'
<1> USE DEF Die, Off, Written, AtWork, Keeps, disk, memory
<1>0. Off \in Jobs
  BY DEF Off, Jobs
<1>1. TypeOK'
  <2>1. job' \in [Processes -> Jobs]
    BY <1>0 DEF IInv, TypeOK
  <2>2. blob' \in [Sessions -> Blobs \cup {None}]
    BY DEF IInv, TypeOK, Quiet, Blobs
  <2>. QED BY <2>1, <2>2 DEF IInv, TypeOK
<1>2. Quiet'
  BY DEF IInv, TypeOK, Quiet
<1>3. JobsSound'
  BY DEF IInv, TypeOK, JobsSound, OnlyTerminals
<1>4. Forgotten'
  BY DEF IInv, TypeOK, Quiet, JobsSound, Forgotten
<1>. QED BY <1>1, <1>2, <1>3, <1>4 DEF IInv

-----------------------------------------------------------------------------
(* The theorems. *)

\* A step of Next is one of the actions.
LEMMA StepKeeps ==
  ASSUME OnlyTerminals, IInv, [Next]_vars PROVE IInv'
<1> USE DEF Next, Reconcile, Opening, RunStep, Operator
<1>1. CASE \E p \in Processes : Begin(p)
  BY <1>1, BeginKeeps
<1>2. CASE \E p \in Processes : Inspect(p)
  BY <1>2, InspectKeeps
<1>3. CASE \E p \in Processes : Remove(p)
  BY <1>3, RemoveKeeps
<1>4. CASE \E p \in Processes : Save(p)
  BY <1>4, SaveKeeps
<1>5. CASE \E p \in Processes : Restore(p)
  BY <1>5, RestoreKeeps
<1>6. CASE \E p \in Processes : Fresh(p)
  BY <1>6, FreshKeeps
<1>7. CASE \E s \in Spawned : Spawn(s)
  BY <1>7, SpawnKeeps
<1>8. CASE Submit
  BY <1>8, SubmitKeeps
<1>9. CASE \E s \in Sessions : Started(s)
  BY <1>9, StartedKeeps
<1>10. CASE \E s \in Spawned : Work(s)
  BY <1>10, WorkKeeps
<1>11. CASE \E s \in Sessions : End(s)
  BY <1>11, EndKeeps
<1>12. CASE Interrupt
  BY <1>12, InterruptKeeps
<1>13. CASE \E s \in Sessions : Switch(s)
  BY <1>13, SwitchKeeps
<1>14. CASE Persist
  BY <1>14, PersistKeeps
<1>15. CASE \E s \in Sessions : Close(s)
  BY <1>15, CloseKeeps
<1>16. CASE Delete
  BY <1>16, DeleteKeeps
<1>17. CASE Die
  BY <1>17, DieKeeps
<1>18. CASE UNCHANGED vars
  BY <1>18 DEF IInv, TypeOK, Quiet, JobsSound, Forgotten, vars, disk, memory
<1>. QED BY <1>1, <1>2, <1>3, <1>4, <1>5, <1>6, <1>7, <1>8, <1>9, <1>10, <1>11, <1>12, <1>13, <1>14, <1>15, <1>16, <1>17, <1>18

THEOREM Inductive ==
  ASSUME OnlyTerminals PROVE Spec => []IInv
<1>1. Init => IInv
  BY InitIInv
<1>2. IInv /\ [Next]_vars => IInv'
  BY StepKeeps
<1>. QED BY <1>1, <1>2, PTL DEF Spec

\* The state of the store, the terminal and the reconciliations is what the
\* code can hold.
THEOREM Typed == ASSUME OnlyTerminals PROVE Spec => []TypeOK
<1>1. IInv => TypeOK
  BY DEF IInv
<1>. QED BY <1>1, Inductive, PTL

\* reconcile_stale_worktrees, spawn_worktree_session, /session close: changes
\* that are not committed leave a worktree only by its run or at a close.
THEOREM ChangesAreKept == ASSUME OnlyTerminals PROVE Spec => ChangesKept
<1> DEFINE Kept == \A s \in Spawned :
                     tree[s] = "dirty" /\ tree'[s] = "none" => closing' = s
<1>1. IInv /\ [Next]_vars => Kept
  <2> SUFFICES ASSUME IInv, [Next]_vars, NEW s \in Spawned,
                      tree[s] = "dirty", tree'[s] = "none"
               PROVE  closing' = s
    OBVIOUS
  <2>1. s \in Sessions /\ tree \in [Sessions -> {"none", "clean", "dirty"}]
    BY DEF Sessions, IInv, TypeOK
  <2>2. ASSUME NEW p \in Processes, Remove(p) PROVE FALSE
    <3>1. tree[job[p].at] = "clean" /\ job[p].at \in Sessions
      BY <2>2 DEF Remove, IInv, JobsSound
    <3>. QED BY <2>1, <2>2, <3>1 DEF Remove
  <2>3. ASSUME NEW x \in Sessions, Close(x) PROVE closing' = s
    BY <2>1, <2>3 DEF Close
  <2>4. ASSUME NEW x \in Spawned, Spawn(x) \/ Work(x) PROVE FALSE
    <3>1. x \in Sessions
      BY DEF Sessions
    <3>2. CASE Spawn(x)
      BY <2>1, <3>1, <3>2 DEF Spawn
    <3>3. CASE Work(x)
      BY <2>1, <3>1, <3>3 DEF Work
    <3>. QED BY <2>4, <3>2, <3>3
  <2>5. ASSUME NEW p \in Processes,
               Begin(p) \/ Inspect(p) \/ Save(p) \/ Restore(p) \/ Fresh(p)
        PROVE  tree' = tree
    BY <2>5 DEF Begin, Inspect, Save, Restore, Fresh, Up, disk
  <2>6. ASSUME NEW x \in Sessions, Started(x) \/ End(x) \/ Switch(x)
        PROVE  tree' = tree
    BY <2>6 DEF Started, End, Switch, disk
  <2>7. ASSUME Submit \/ Interrupt \/ Persist \/ Delete \/ Die \/ UNCHANGED vars
        PROVE  tree' = tree
    BY <2>7 DEF Submit, Interrupt, Persist, Delete, Die, vars, disk
  <2>8. tree' # tree
    OBVIOUS
  <2>. QED BY <2>2, <2>3, <2>4, <2>5, <2>6, <2>7, <2>8
           DEF Next, Reconcile, Opening, RunStep, Operator
<1>2. []IInv /\ [][Next]_vars => [][Kept]_vars
  BY <1>1, PTL
<1>3. Kept <=> \A s \in Spawned :
                 tree[s] = "dirty" /\ tree'[s] = "none" => closing' = s
  OBVIOUS
<1>. QED BY <1>2, Inductive, PTL DEF Spec, ChangesKept

\* delete_persisted_session: neither a snapshot, nor a reconciliation, nor a
\* later start records a session that was closed, unless it is resumed by id.
THEOREM ClosedAreForgotten == ASSUME OnlyTerminals PROVE Spec => []ClosedStaysClosed
<1>1. IInv => ClosedStaysClosed
  BY DEF IInv, Forgotten, ClosedStaysClosed
<1>. QED BY <1>1, Inductive, PTL

-----------------------------------------------------------------------------
(* Worktrees and the records that name them.                                *)

\* The list of a start holds every record that says Running, and nothing else
\* has written it since: what is saved says Suspended, and names the worktree
\* when that is still there.
EntrySound(r, t, here, step, there) ==
    /\ t # None => /\ t.status = "Suspended" /\ r # None /\ r.status = "Running"
                   /\ InTree(r) /\ there # "none" => InTree(t)
    /\ step # "off" /\ r # None /\ r.status = "Running" => t # None
    /\ step \in {"remove", "save"} /\ here => t # None
    /\ step = "save" /\ here /\ InTree(t) => there # "none"
ListSound ==
    \A p \in Processes, s \in Sessions :
        EntrySound(record[s], job[p].todo[s], job[p].at = s, job[p].step, tree[s])

\* A handle names the worktree when the record does, and one that is missing
\* only while its session is being closed.
HandlesSound ==
    \A s \in Spawned :
        handle[s] # None =>
            /\ InTree(handle[s]) /\ tree[s] = "none" => fate[s] = "closing"
            /\ record[s] # None /\ InTree(record[s]) => InTree(handle[s])

NamedInv == ListSound /\ HandlesSound /\ GoneIsNoticed

\* Only a start has a list.
LEMMA NoListLater ==
    ASSUME IInv', stage' # "starting"
    PROVE  ListSound'
<1>1. \A p \in Processes : job'[p].step = "off" /\ \A s \in Sessions : job'[p].todo[s] = None
  BY DEF IInv, JobsSound
<1>. QED BY <1>1 DEF ListSound, EntrySound

LEMMA StillNamed ==
    ASSUME IInv', NamedInv, stage' # "starting", UNCHANGED <<record, tree, handle, fate>>
    PROVE  NamedInv'
<1>1. ListSound'
  BY NoListLater
<1>. QED BY <1>1 DEF NamedInv, HandlesSound, GoneIsNoticed

LEMMA BeginNames ==
    ASSUME OnlyTerminals, IInv, NamedInv, NEW p \in Processes, Begin(p)
    PROVE  NamedInv'
<1>1. /\ p = Terminal /\ Terminal # Daemon /\ \A q \in Processes : q = p
      /\ UNCHANGED <<disk, memory, fate>>
  BY DEF OnlyTerminals, Terminal, Daemon, Begin
<1>2. job'[p] = [step |-> "pick", at |-> None, todo |-> Stale]
  BY DEF Begin, IInv, TypeOK
<1>3. job'[p].step = "pick" /\ job'[p].todo = Stale
  BY <1>2
<1>4. ASSUME NEW s \in Sessions
      PROVE  /\ Stale[s] # None => /\ Stale[s].status = "Suspended"
                                   /\ record[s] # None /\ record[s].status = "Running"
                                   /\ InTree(record[s]) => InTree(Stale[s])
             /\ record[s] # None /\ record[s].status = "Running" => Stale[s] # None
  <2>1. CASE record[s] # None /\ record[s].status = "Running"
    <3>1. record[s] \in Records
      BY <2>1 DEF IInv, TypeOK
    <3>2. Stale[s] = [record[s] EXCEPT !.status = "Suspended"]
      BY <2>1 DEF Stale
    <3>3. /\ Stale[s] \in Records /\ Stale[s].status = "Suspended"
          /\ Stale[s].branch = record[s].branch /\ Stale[s].place = record[s].place
      BY <3>1, <3>2 DEF Records
    <3>4. None \notin Records
      BY StoreNames
    <3>. QED BY <2>1, <3>3, <3>4 DEF InTree
  <2>2. CASE ~(record[s] # None /\ record[s].status = "Running")
    BY <2>2 DEF Stale
  <2>. QED BY <2>1, <2>2
<1>5. ListSound'
  BY <1>1, <1>3, <1>4 DEF ListSound, EntrySound, disk
<1>. QED BY <1>1, <1>5 DEF NamedInv, HandlesSound, GoneIsNoticed, disk, memory

LEMMA InspectNames ==
    ASSUME OnlyTerminals, IInv, NamedInv, NEW p \in Processes, Inspect(p)
    PROVE  NamedInv'
<1>1. PICK s \in Sessions, step \in {"save", "remove"} :
        /\ job[p].todo[s] # None
        /\ step = "remove" => tree[s] = "clean"
        /\ job' = [job EXCEPT ![p] =
                     [step |-> step, at |-> s,
                      todo |-> [@.todo EXCEPT ![s] =
                                  IF InTree(job[p].todo[s]) /\ tree[s] = "none"
                                  THEN MovedBack(job[p].todo[s])
                                  ELSE job[p].todo[s]]]]
  BY DEF Inspect, Removable
<1> DEFINE t == job[p].todo[s]
           r == IF InTree(t) /\ tree[s] = "none" THEN MovedBack(t) ELSE t
<1>2. /\ job[p].step = "pick" /\ UNCHANGED <<disk, memory, fate>> /\ \A q \in Processes : q = p
  BY DEF Inspect, OnlyTerminals
<1>3. job[p] \in Jobs /\ t \in Records
  BY <1>1 DEF IInv, TypeOK, Jobs
<1>4. job'[p] = [step |-> step, at |-> s, todo |-> [job[p].todo EXCEPT ![s] = r]]
  BY <1>1, <1>3 DEF IInv, TypeOK, Jobs
<1>5. ListSound
  BY DEF NamedInv
<1> HIDE DEF t
<1>6. /\ r \in Records /\ r.status = t.status
      /\ InTree(r) => tree[s] # "none"
      /\ tree[s] # "none" => r = t
  BY <1>3 DEF MovedBack, Records, Places, InTree
<1>7. r # None
  BY <1>6, StoreNames
<1> HIDE DEF r
<1>8. /\ job'[p].step = step /\ job'[p].at = s /\ job'[p].todo[s] = r
      /\ \A x \in Sessions : x # s => job'[p].todo[x] = job[p].todo[x]
  BY <1>3, <1>4 DEF Jobs
<1>9. /\ t.status = "Suspended" /\ record[s] # None /\ record[s].status = "Running"
      /\ InTree(record[s]) /\ tree[s] # "none" => InTree(t)
  BY <1>1, <1>5 DEF ListSound, EntrySound, t
<1>10. ListSound'
  <2>1. EntrySound(record[s], r, TRUE, step, tree[s])
    BY <1>1, <1>6, <1>7, <1>9 DEF EntrySound
  <2>2. \A x \in Sessions : x # s => EntrySound(record[x], job[p].todo[x], job[p].at = x, "pick", tree[x])
    BY <1>2, <1>5 DEF ListSound
  <2>3. \A x \in Sessions : x # s => EntrySound(record[x], job'[p].todo[x], job'[p].at = x, step, tree[x])
    BY <1>8, <2>2 DEF EntrySound
  <2>. QED BY <1>2, <1>8, <2>1, <2>3 DEF ListSound, disk
<1>. QED BY <1>2, <1>10 DEF NamedInv, HandlesSound, GoneIsNoticed, disk, memory

\* The record still says Running when its worktree goes.
LEMMA RemoveNames ==
    ASSUME OnlyTerminals, IInv, NamedInv, NEW p \in Processes, Remove(p)
    PROVE  NamedInv'
<1> DEFINE s == job[p].at
           t == job[p].todo[s]
<1>1. /\ s \in Sessions /\ t # None /\ job[p].step = "remove"
      /\ stage = "starting" /\ tree[s] = "clean"
  BY DEF Remove, IInv, JobsSound
<1>2. UNCHANGED <<record, memory, fate>> /\ \A q \in Processes : q = p
  BY DEF Remove, OnlyTerminals
<1>3. job[p] \in Jobs /\ t \in Records
  BY <1>1 DEF IInv, TypeOK, Jobs
<1>4. PICK r \in Records :
        /\ job' = [job EXCEPT ![p].step = "save", ![p].todo[s] = r]
        /\ r.status = t.status
        /\ \/ tree' = tree /\ r = t
           \/ tree' = [tree EXCEPT ![s] = "none"] /\ ~InTree(r)
  <2>1. MovedBack(t) \in Records /\ MovedBack(t).status = t.status /\ ~InTree(MovedBack(t))
    BY <1>3 DEF MovedBack, Records, Places, InTree
  <2>2. CASE tree' = [tree EXCEPT ![s] = "none"] /\ job' = [job EXCEPT ![p].step = "save", ![p].todo[s] = MovedBack(@)]
    <3>1. job' = [job EXCEPT ![p].step = "save", ![p].todo[s] = MovedBack(t)]
      BY <1>1, <2>2 DEF IInv, TypeOK, Jobs
    <3>. QED BY <2>1, <2>2, <3>1
  <2>3. CASE tree' = tree /\ job' = [job EXCEPT ![p].step = "save"]
    <3>1. job' = [job EXCEPT ![p].step = "save", ![p].todo[s] = t]
      BY <1>1, <2>3 DEF IInv, TypeOK, Jobs
    <3>. QED BY <1>3, <2>3, <3>1
  <2>. QED BY <2>2, <2>3 DEF Remove
<1> HIDE DEF s, t
<1>5. job'[p] = [step |-> "save", at |-> s, todo |-> [job[p].todo EXCEPT ![s] = r]]
  BY <1>3, <1>4 DEF IInv, TypeOK, Jobs, s
<1>6. /\ job'[p].step = "save" /\ job'[p].at = s /\ job'[p].todo[s] = r
      /\ \A x \in Sessions : x # s => job'[p].todo[x] = job[p].todo[x]
  BY <1>1, <1>3, <1>5 DEF Jobs
<1>7. r # None /\ ListSound /\ GoneIsNoticed
  BY StoreNames DEF NamedInv
<1>8. /\ t.status = "Suspended" /\ record[s] # None /\ record[s].status = "Running"
      /\ InTree(record[s]) => InTree(t)
  BY <1>1, <1>7 DEF ListSound, EntrySound, t, s
<1>9. \A x \in Sessions : x # s => tree'[x] = tree[x]
  BY <1>4 DEF IInv, TypeOK
<1>10. tree'[s] = "none" => ~InTree(r)
  BY <1>1, <1>4
<1>11. tree'[s] # "none" => r = t
  BY <1>1, <1>4 DEF IInv, TypeOK
<1>12. ListSound'
  <2>1. EntrySound(record[s], r, TRUE, "save", tree'[s])
    BY <1>1, <1>4, <1>7, <1>8, <1>10, <1>11 DEF EntrySound
  <2>2. \A x \in Sessions : x # s => EntrySound(record[x], job[p].todo[x], FALSE, "remove", tree[x])
    BY <1>1, <1>7 DEF ListSound, s
  <2>3. \A x \in Sessions : x # s => EntrySound(record[x], job'[p].todo[x], FALSE, "save", tree'[x])
    BY <1>6, <1>9, <2>2 DEF EntrySound
  <2>. QED BY <1>2, <1>6, <2>1, <2>3 DEF ListSound
<1>13. HandlesSound'
  BY <1>1, <1>2 DEF IInv, Quiet, HandlesSound, Sessions, memory
<1>14. GoneIsNoticed'
  BY <1>2, <1>7, <1>8, <1>9 DEF GoneIsNoticed, Sessions
<1>. QED BY <1>12, <1>13, <1>14 DEF NamedInv

\* What is saved names a worktree only when it is there.
LEMMA SaveNames ==
    ASSUME OnlyTerminals, IInv, NamedInv, NEW p \in Processes, Save(p)
    PROVE  NamedInv'
<1> DEFINE s == job[p].at
           t == job[p].todo[s]
<1>1. s \in Sessions /\ job[p].step = "save" /\ stage = "starting"
  BY DEF Save, IInv, JobsSound
<1>2. /\ record' = [record EXCEPT ![s] = t] /\ UNCHANGED <<tree, memory, fate>>
      /\ job' = [job EXCEPT ![p].step = "pick", ![p].at = None, ![p].todo[s] = None]
      /\ \A q \in Processes : q = p
  BY DEF Save, OnlyTerminals
<1>3. job[p] \in Jobs /\ ListSound /\ GoneIsNoticed
  BY DEF IInv, TypeOK, NamedInv
<1> HIDE DEF s, t
<1>4. job'[p] = [step |-> "pick", at |-> None, todo |-> [job[p].todo EXCEPT ![s] = None]]
  BY <1>1, <1>2, <1>3 DEF IInv, TypeOK, Jobs
<1>5. /\ job'[p].step = "pick" /\ job'[p].todo[s] = None
      /\ \A x \in Sessions : x # s => job'[p].todo[x] = job[p].todo[x]
  BY <1>1, <1>3, <1>4 DEF Jobs
<1>6. record'[s] = t /\ \A x \in Sessions : x # s => record'[x] = record[x]
  BY <1>1, <1>2 DEF IInv, TypeOK
<1>7. t # None /\ t.status = "Suspended" /\ (InTree(t) => tree[s] # "none")
  BY <1>1, <1>3 DEF ListSound, EntrySound, s, t
<1>8. ListSound'
  <2>1. \A x \in Sessions : x # s => EntrySound(record[x], job[p].todo[x], FALSE, "save", tree[x])
    BY <1>1, <1>3 DEF ListSound, s
  <2>2. ASSUME NEW x \in Sessions
        PROVE  EntrySound(record'[x], job'[p].todo[x], job'[p].at = x, "pick", tree[x])
    <3>1. CASE x = s
      BY <1>5, <1>6, <1>7, <3>1 DEF EntrySound
    <3>2. CASE x # s
      BY <1>5, <1>6, <2>1, <3>2 DEF EntrySound
    <3>. QED BY <3>1, <3>2
  <2>. QED BY <1>2, <1>5, <2>2 DEF ListSound
<1>9. HandlesSound'
  BY <1>1, <1>2 DEF IInv, Quiet, HandlesSound, Sessions, memory
<1>10. GoneIsNoticed'
  BY <1>2, <1>3, <1>6, <1>7 DEF GoneIsNoticed, Sessions
<1>. QED BY <1>8, <1>9, <1>10 DEF NamedInv

\* After the list is done no record says Running, and a handle is what its
\* record says.
LEMMA ReconciledFacts ==
    ASSUME NamedInv, NEW p \in Processes, Reconciled(p)
    PROVE  \A s \in Sessions : record[s] # None => record[s].status # "Running"
<1>1. ListSound /\ job[p].step = "pick" /\ \A s \in Sessions : job[p].todo[s] = None
  BY DEF NamedInv, Reconciled
<1>. QED BY <1>1 DEF ListSound, EntrySound

LEMMA UpNames ==
    ASSUME IInv', NamedInv, NEW p \in Processes, NEW s, NEW names, NEW status,
           Up(p, s, names, status), s \in Spawned /\ s \notin Recorded => record[s] = None,
           \A x \in Spawned : fate[x] = "closing" => fate'[x] = "closing"
    PROVE  NamedInv'
<1>1. /\ Reconciled(p) /\ stage' = "up" /\ UNCHANGED disk
      /\ handle' = [x \in Sessions |-> IF x = s /\ s \notin Recorded THEN Shared ELSE Registered(x)]
  BY DEF Up
<1>2. ListSound'
  BY <1>1, NoListLater
<1>3. \A x \in Sessions : record[x] # None => record[x].status # "Running"
  BY <1>1, ReconciledFacts
<1>4. \A x \in Spawned : record[x] # None /\ InTree(record[x]) /\ tree[x] = "none" => fate[x] = "closing"
  BY <1>3 DEF NamedInv, GoneIsNoticed, Sessions
<1>5. GoneIsNoticed'
  BY <1>1, <1>4 DEF GoneIsNoticed, disk
<1>6. HandlesSound'
  <2> SUFFICES ASSUME NEW x \in Spawned, handle'[x] # None
               PROVE  /\ InTree(handle'[x]) /\ tree[x] = "none" => fate'[x] = "closing"
                      /\ record[x] # None /\ InTree(record[x]) => InTree(handle'[x])
    BY <1>1 DEF HandlesSound, disk
  <2>1. x \in Sessions
    BY DEF Sessions
  <2>2. CASE x = s /\ s \notin Recorded
    <3>1. handle'[x] = Shared
      BY <1>1, <2>1, <2>2
    <3>. QED BY <2>2, <3>1 DEF Shared, InTree
  <2>3. CASE ~(x = s /\ s \notin Recorded)
    <3>1. handle'[x] = Registered(x)
      BY <1>1, <2>1, <2>3
    <3>2. /\ x \in Recorded /\ record[x] # None
          /\ handle'[x] = [place |-> record[x].place, branch |-> record[x].branch]
      BY <3>1 DEF Registered, Recorded
    <3>3. InTree(handle'[x]) <=> InTree(record[x])
      BY <3>2 DEF InTree
    <3>. QED BY <1>4, <3>2, <3>3
  <2>. QED BY <2>2, <2>3
<1>. QED BY <1>2, <1>5, <1>6 DEF NamedInv

LEMMA RestoreNames ==
    ASSUME IInv, IInv', NamedInv, NEW p \in Processes, Restore(p)
    PROVE  NamedInv'
<1>1. PICK s \in Restorable :
        /\ Up(p, s, blob[s].tabs, blob[s].status)
        /\ fate' = IF fate[s] = "closed" THEN [fate EXCEPT ![s] = "open"] ELSE fate
  BY DEF Restore
<1>2. s \in Sessions /\ (s \notin Recorded => record[s] = None)
  BY DEF Restorable, Recorded
<1>3. \A x \in Spawned : fate[x] = "closing" => fate'[x] = "closing"
  BY <1>1 DEF IInv, TypeOK, Sessions
<1>. QED BY <1>1, <1>2, <1>3, UpNames

LEMMA FreshNames ==
    ASSUME IInv, IInv', NamedInv, NEW p \in Processes, Fresh(p)
    PROVE  NamedInv'
<1>1. Up(p, Main, {Main}, "Idle") /\ fate' = [fate EXCEPT ![Main] = "open"]
  BY DEF Fresh
<1>2. \A x \in Spawned : fate[x] = "closing" => fate'[x] = "closing"
  BY <1>1, StoreNames DEF IInv, TypeOK, Sessions
<1>. QED BY <1>1, <1>2, StoreNames, UpNames

(* The terminal at work. *)

LEMMA SpawnNames ==
    ASSUME IInv, IInv', NamedInv, NEW s \in Spawned, Spawn(s)
    PROVE  NamedInv'
<1>1. /\ stage' = "up" /\ record[s] = None /\ tree' = [tree EXCEPT ![s] = "clean"]
      /\ handle' = [handle EXCEPT ![s] = [place |-> "tree", branch |-> TRUE]]
      /\ UNCHANGED <<record, fate>>
  BY DEF Spawn, AtWork, Keeps
<1>2. ListSound'
  BY <1>1, NoListLater
<1>3. /\ s \in Sessions /\ tree'[s] = "clean"
      /\ \A x \in Spawned : x # s => tree'[x] = tree[x] /\ handle'[x] = handle[x]
  BY <1>1 DEF IInv, TypeOK, Sessions
<1>4. HandlesSound'
  BY <1>1, <1>3 DEF NamedInv, HandlesSound
<1>5. GoneIsNoticed'
  BY <1>1, <1>3 DEF NamedInv, GoneIsNoticed
<1>. QED BY <1>2, <1>4, <1>5 DEF NamedInv

LEMMA WorkNames ==
    ASSUME IInv, IInv', NamedInv, NEW s \in Spawned, Work(s)
    PROVE  NamedInv'
<1>1. /\ s \in Sessions /\ run[s] # None /\ tree[s] # "none"
      /\ UNCHANGED <<record, handle, fate, stage>>
  BY DEF Work, Sessions, Keeps, memory
<1>2. PICK t \in {"clean", "dirty"} : tree' = [tree EXCEPT ![s] = t]
  BY DEF Work
<1>3. ListSound'
  BY <1>1, NoListLater DEF IInv, Quiet
<1>4. tree'[s] # "none" /\ \A x \in Spawned : x # s => tree'[x] = tree[x]
  BY <1>1, <1>2 DEF IInv, TypeOK, Sessions
<1>5. HandlesSound'
  BY <1>1, <1>4 DEF NamedInv, HandlesSound
<1>6. GoneIsNoticed'
  BY <1>1, <1>4 DEF NamedInv, GoneIsNoticed
<1>. QED BY <1>3, <1>5, <1>6 DEF NamedInv

\* A snapshot names what the handle names.
LEMMA PersistNames ==
    ASSUME IInv, IInv', NamedInv, Persist
    PROVE  NamedInv'
<1> DEFINE r == [status |-> Lifecycle(view[current]), place |-> handle[current].place,
                 branch |-> handle[current].branch]
<1>1. /\ stage' = "up" /\ current \in Sessions /\ UNCHANGED <<tree, handle, fate>>
      /\ record' = IF handle[current] = None THEN record ELSE [record EXCEPT ![current] = r]
  BY DEF Persist, AtWork, Keeps, memory, IInv, TypeOK
<1>2. ListSound'
  BY <1>1, NoListLater
<1>3. CASE handle[current] = None
  BY <1>1, <1>2, <1>3 DEF NamedInv, HandlesSound, GoneIsNoticed
<1>4. CASE handle[current] # None
  <2>1. r.place = handle[current].place /\ r.branch = handle[current].branch
    OBVIOUS
  <2> HIDE DEF r
  <2>2. record'[current] = r /\ \A x \in Spawned : x # current => record'[x] = record[x]
    BY <1>1, <1>4 DEF IInv, TypeOK, Sessions
  <2>3. InTree(r) <=> InTree(handle[current])
    BY <2>1 DEF InTree
  <2>4. HandlesSound'
    BY <1>1, <2>2, <2>3 DEF NamedInv, HandlesSound
  <2>5. GoneIsNoticed'
    BY <1>1, <1>4, <2>2, <2>3 DEF NamedInv, HandlesSound, GoneIsNoticed
  <2>. QED BY <1>2, <2>4, <2>5 DEF NamedInv
<1>. QED BY <1>3, <1>4

LEMMA CloseNames ==
    ASSUME IInv, IInv', NamedInv, NEW s \in Sessions, Close(s)
    PROVE  NamedInv'
<1>1. /\ stage' = "up" /\ handle' = [handle EXCEPT ![s] = None] /\ record' = record
      /\ fate' = [fate EXCEPT ![s] = "closing"]
      /\ tree' = tree \/ tree' = [tree EXCEPT ![s] = "none"]
  BY DEF Close, AtWork
<1>2. ListSound'
  BY <1>1, NoListLater
<1>3. /\ handle'[s] = None /\ fate'[s] = "closing"
      /\ \A x \in Spawned : x # s => tree'[x] = tree[x] /\ handle'[x] = handle[x] /\ fate'[x] = fate[x]
  BY <1>1 DEF IInv, TypeOK, Sessions
<1>4. HandlesSound'
  BY <1>1, <1>3 DEF NamedInv, HandlesSound
<1>5. GoneIsNoticed'
  BY <1>1, <1>3 DEF NamedInv, GoneIsNoticed
<1>. QED BY <1>2, <1>4, <1>5 DEF NamedInv

LEMMA DeleteNames ==
    ASSUME IInv, IInv', NamedInv, Delete
    PROVE  NamedInv'
<1>1. /\ closing \in Sessions /\ stage = "up" /\ handle[closing] = None
      /\ record' = [record EXCEPT ![closing] = None] /\ fate' = [fate EXCEPT ![closing] = "closed"]
      /\ UNCHANGED <<tree, handle, stage>>
  BY DEF Delete, IInv, Quiet
<1>2. ListSound'
  BY <1>1, NoListLater
<1>3. /\ record'[closing] = None
      /\ \A x \in Spawned : x # closing => record'[x] = record[x] /\ fate'[x] = fate[x]
  BY <1>1 DEF IInv, TypeOK, Sessions
<1>4. HandlesSound'
  BY <1>1, <1>3 DEF NamedInv, HandlesSound
<1>5. GoneIsNoticed'
  BY <1>1, <1>3 DEF NamedInv, GoneIsNoticed
<1>. QED BY <1>2, <1>4, <1>5 DEF NamedInv

LEMMA DieNames ==
    ASSUME IInv', NamedInv, Die
    PROVE  NamedInv'
<1>1. stage' = "down" /\ UNCHANGED <<record, tree, fate>> /\ handle' = [s \in Sessions |-> None]
  BY DEF Die
<1>2. ListSound'
  BY <1>1, NoListLater
<1>3. HandlesSound' /\ GoneIsNoticed'
  BY <1>1 DEF NamedInv, HandlesSound, GoneIsNoticed, Sessions
<1>. QED BY <1>2, <1>3 DEF NamedInv

LEMMA NamesStep ==
    ASSUME OnlyTerminals, IInv, NamedInv, [Next]_vars
    PROVE  NamedInv'
<1>0. IInv'
  BY StepKeeps
<1>1. ASSUME NEW p \in Processes, Reconcile(p) \/ Opening(p)  PROVE  NamedInv'
  BY <1>0, <1>1, BeginNames, InspectNames, RemoveNames, SaveNames, RestoreNames, FreshNames
     DEF Reconcile, Opening
<1>2. CASE Submit \/ Interrupt
  <2>1. stage' = "up" /\ UNCHANGED <<record, tree, handle, fate>>
    BY <1>2 DEF Submit, Interrupt, AtWork, Keeps, disk
  <2>. QED BY <1>0, <2>1, StillNamed
<1>3. ASSUME NEW s \in Sessions, Started(s) \/ End(s)  PROVE  NamedInv'
  <2>1. run[s] # None /\ UNCHANGED <<stage, record, tree, handle, fate>>
    BY <1>3 DEF Started, End, Keeps, disk
  <2>2. stage' # "starting"
    BY <2>1 DEF IInv, Quiet
  <2>. QED BY <1>0, <2>1, <2>2, StillNamed
<1>4. ASSUME NEW s \in Sessions, Switch(s)  PROVE  NamedInv'
  <2>1. stage' = "up" /\ UNCHANGED <<record, tree, handle, fate>>
    BY <1>4 DEF Switch, AtWork, Keeps, disk
  <2>. QED BY <1>0, <2>1, StillNamed
<1>5. ASSUME NEW s \in Spawned, Spawn(s) \/ Work(s)  PROVE  NamedInv'
  BY <1>0, <1>5, SpawnNames, WorkNames
<1>6. ASSUME NEW s \in Sessions, Close(s)  PROVE  NamedInv'
  BY <1>0, <1>6, CloseNames
<1>7. CASE Persist \/ Delete \/ Die
  BY <1>0, <1>7, PersistNames, DeleteNames, DieNames
<1>8. CASE UNCHANGED vars
  BY <1>8 DEF NamedInv, ListSound, HandlesSound, GoneIsNoticed, vars, disk, memory
<1>. QED BY <1>1, <1>2, <1>3, <1>4, <1>5, <1>6, <1>7, <1>8 DEF Next, RunStep, Operator

LEMMA NamesInit == Init => NamedInv
<1> SUFFICES ASSUME Init  PROVE  NamedInv
  OBVIOUS
<1>1. /\ \A s \in Sessions : record[s] = None /\ handle[s] = None
      /\ \A p \in Processes : job[p].step = "off" /\ \A s \in Sessions : job[p].todo[s] = None
  BY DEF Init, Off
<1>. QED BY <1>1 DEF NamedInv, ListSound, EntrySound, HandlesSound, GoneIsNoticed, Sessions

LEMMA NamesInductive ==
    ASSUME OnlyTerminals
    PROVE  Spec => [](IInv /\ NamedInv)
<1>1. Init => IInv /\ NamedInv
  BY InitIInv, NamesInit
<1>2. IInv /\ NamedInv /\ [Next]_vars => (IInv /\ NamedInv)'
  BY StepKeeps, NamesStep
<1>. QED BY <1>1, <1>2, PTL DEF Spec

\* reconcile_stale_worktrees and /session close: a record whose worktree is gone
\* still says Running, so that a later start looks at it, unless the closing of
\* its session was cut off.
THEOREM GoneAreNoticed == ASSUME OnlyTerminals PROVE Spec => []GoneIsNoticed
<1>1. NamedInv => GoneIsNoticed
  BY DEF NamedInv
<1>. QED BY <1>1, NamesInductive, PTL

\* persist_session_snapshot and reconcile_record_worktree: no snapshot and no
\* reconciliation forgets a worktree that a record names while it is there.
THEOREM TreesStayNamed == ASSUME OnlyTerminals PROVE Spec => TreeStaysNamed
<1> DEFINE Named == \A s \in Spawned :
                      record[s] # None /\ InTree(record[s]) /\ tree'[s] # "none" =>
                          \/ record'[s] # None /\ InTree(record'[s])
                          \/ closing = s
<1>1. IInv /\ NamedInv /\ [Next]_vars => Named
  <2> SUFFICES ASSUME IInv, NamedInv, [Next]_vars, NEW s \in Spawned,
                      record[s] # None, InTree(record[s]), tree'[s] # "none"
               PROVE  (record'[s] # None /\ InTree(record'[s])) \/ closing = s
    OBVIOUS
  <2>1. s \in Sessions /\ record \in [Sessions -> Records \cup {None}]
    BY DEF Sessions, IInv, TypeOK
  <2>2. CASE record' = record
    BY <2>2
  <2>3. ASSUME NEW p \in Processes, Save(p)
        PROVE  record'[s] # None /\ InTree(record'[s])
    <3>1. record' = [record EXCEPT ![job[p].at] = job[p].todo[job[p].at]] /\ tree' = tree /\ job[p].step = "save"
      BY <2>3 DEF Save
    <3>2. CASE job[p].at = s
      <4>1. job[p].todo[s] # None /\ InTree(job[p].todo[s])
        BY <2>1, <3>1, <3>2 DEF NamedInv, ListSound, EntrySound
      <4>. QED BY <2>1, <3>1, <3>2, <4>1
    <3>3. CASE job[p].at # s
      BY <2>1, <3>1, <3>3
    <3>. QED BY <3>2, <3>3
  <2>4. CASE Persist
    <3>1. CASE current = s /\ handle[s] # None
      <4>1. record' = [record EXCEPT ![s] = [status |-> Lifecycle(view[s]), place |-> handle[s].place,
                                             branch |-> handle[s].branch]]
        BY <2>4, <3>1 DEF Persist
      <4>2. InTree(handle[s])
        BY <3>1 DEF NamedInv, HandlesSound
      <4>3. view[s] \in Status /\ handle[s] \in Handles
        BY <2>1, <3>1, <2>4 DEF Persist, IInv, TypeOK, Quiet
      <4>4. /\ record'[s].place = handle[s].place /\ record'[s].branch = handle[s].branch
            /\ record'[s] = [status |-> Lifecycle(view[s]), place |-> handle[s].place, branch |-> handle[s].branch]
        BY <2>1, <4>1
      <4>5. record'[s] \in Records
        BY <4>3, <4>4 DEF Records, Handles, Status, Lifecycle
      <4>. QED BY <4>2, <4>4, <4>5, StoreNames DEF InTree
    <3>2. CASE ~(current = s /\ handle[s] # None)
      BY <2>1, <2>4, <3>2 DEF Persist
    <3>. QED BY <3>1, <3>2
  <2>5. CASE Delete
    <3>1. record' = [record EXCEPT ![closing] = None]
      BY <2>5 DEF Delete
    <3>. QED BY <2>1, <3>1
  <2>6. ASSUME NEW p \in Processes,
               Begin(p) \/ Inspect(p) \/ Remove(p) \/ Restore(p) \/ Fresh(p)
        PROVE  record' = record
    BY <2>6 DEF Begin, Inspect, Remove, Restore, Fresh, Up, disk
  <2>7. ASSUME NEW x \in Sessions, Started(x) \/ End(x) \/ Switch(x) \/ Close(x)
        PROVE  record' = record
    BY <2>7 DEF Started, End, Switch, Close, disk
  <2>8. ASSUME NEW x \in Spawned, Spawn(x) \/ Work(x)
        PROVE  record' = record
    BY <2>8 DEF Spawn, Work
  <2>9. ASSUME Submit \/ Interrupt \/ Die \/ UNCHANGED vars
        PROVE  record' = record
    BY <2>9 DEF Submit, Interrupt, Die, vars, disk
  <2>. QED BY <2>2, <2>3, <2>4, <2>5, <2>6, <2>7, <2>8, <2>9
           DEF Next, Reconcile, Opening, RunStep, Operator
<1>2. [](IInv /\ NamedInv) /\ [][Next]_vars => [][Named]_vars
  BY <1>1, PTL
<1>3. Named <=> \A s \in Spawned :
                  record[s] # None /\ InTree(record[s]) /\ tree'[s] # "none" =>
                      \/ record'[s] # None /\ InTree(record'[s])
                      \/ closing = s
  OBVIOUS
<1>. QED BY <1>2, NamesInductive, PTL DEF Spec, TreeStaysNamed

\* Neither a snapshot nor a reconciliation loses a worktree with changes: it is not
\* removed, and the record that names it goes on doing so.
THEOREM TreesAreKept == ASSUME OnlyTerminals PROVE Spec => TreesKept
BY ChangesAreKept, TreesStayNamed DEF TreesKept

\* reconcile_stale_worktrees at the start of a terminal: it leaves no record
\* that says Running.
THEOREM StartsAreReconciled == ASSUME OnlyTerminals PROVE Spec => StartsReconciled
<1> DEFINE Clean == stage = "starting" /\ stage' = "up" =>
                      \A s \in Sessions : record'[s] # None => record'[s].status # "Running"
<1>1. IInv /\ NamedInv /\ [Next]_vars => Clean
  <2> SUFFICES ASSUME IInv, NamedInv, [Next]_vars, stage = "starting", stage' = "up"
               PROVE  \A s \in Sessions : record'[s] # None => record'[s].status # "Running"
    OBVIOUS
  <2>1. ASSUME NEW p \in Processes, Restore(p) \/ Fresh(p)
        PROVE  Reconciled(p) /\ record' = record
    BY <2>1 DEF Restore, Fresh, Up, disk
  <2>2. ASSUME NEW p \in Processes, Begin(p) \/ Inspect(p) \/ Remove(p) \/ Save(p)
        PROVE  FALSE
    BY <2>2 DEF Begin, Inspect, Remove, Save
  <2>3. ASSUME NEW x \in Sessions, Started(x) \/ End(x) \/ Switch(x) \/ Close(x)
        PROVE  FALSE
    BY <2>3 DEF Started, End, Switch, Close, Keeps
  <2>4. ASSUME NEW x \in Spawned, Spawn(x) \/ Work(x)
        PROVE  FALSE
    BY <2>4 DEF Spawn, Work, Keeps
  <2>5. ASSUME Submit \/ Interrupt \/ Persist \/ Delete \/ Die \/ UNCHANGED vars
        PROVE  FALSE
    BY <2>5 DEF Submit, Interrupt, Persist, Delete, Die, Keeps, vars
  <2>. QED BY <2>1, <2>2, <2>3, <2>4, <2>5, ReconciledFacts
           DEF Next, Reconcile, Opening, RunStep, Operator
<1>2. [](IInv /\ NamedInv) /\ [][Next]_vars => [][Clean]_vars
  BY <1>1, PTL
<1>3. Clean <=> (stage = "starting" /\ stage' = "up" =>
                   \A s \in Sessions : record'[s] # None => record'[s].status # "Running")
  OBVIOUS
<1>. QED BY <1>2, NamesInductive, PTL DEF Spec, StartsReconciled

\* worktree_cleanup.rs: when terminals only reconcile, one after the other, the
\* worktree of a run at work is never removed; the run with a daemon shows that
\* the hypothesis is needed.
THEOREM LiveTreesStay == ASSUME OnlyTerminals PROVE Spec => LiveTreeStays
<1> DEFINE Stays == \A s \in Spawned :
                      /\ run[s] # None /\ run[s].place = "tree" /\ closing' # s
                      /\ tree[s] # "none"
                      => tree'[s] # "none"
<1>1. IInv /\ [Next]_vars => Stays
  <2> SUFFICES ASSUME IInv, [Next]_vars, NEW s \in Spawned, run[s] # None, closing' # s, tree[s] # "none"
               PROVE  tree'[s] # "none"
    OBVIOUS
  <2>1. s \in Sessions /\ tree \in [Sessions -> {"none", "clean", "dirty"}] /\ stage = "up"
    BY DEF Sessions, IInv, TypeOK, Quiet
  <2>2. ASSUME NEW p \in Processes, Remove(p) PROVE FALSE
    BY <2>1, <2>2 DEF Remove, IInv, JobsSound
  <2>3. ASSUME NEW x \in Sessions, Close(x) PROVE tree'[s] # "none"
    BY <2>1, <2>3 DEF Close
  <2>4. ASSUME NEW x \in Spawned, Spawn(x) \/ Work(x) PROVE tree'[s] # "none"
    <3>1. PICK t \in {"clean", "dirty"} : tree' = [tree EXCEPT ![x] = t]
      BY <2>4 DEF Spawn, Work
    <3>. QED BY <2>1, <3>1
  <2>5. ASSUME NEW p \in Processes,
               Begin(p) \/ Inspect(p) \/ Save(p) \/ Restore(p) \/ Fresh(p)
        PROVE  tree' = tree
    BY <2>5 DEF Begin, Inspect, Save, Restore, Fresh, Up, disk
  <2>6. ASSUME NEW x \in Sessions, Started(x) \/ End(x) \/ Switch(x)
        PROVE  tree' = tree
    BY <2>6 DEF Started, End, Switch, disk
  <2>7. ASSUME Submit \/ Interrupt \/ Persist \/ Delete \/ Die \/ UNCHANGED vars
        PROVE  tree' = tree
    BY <2>7 DEF Submit, Interrupt, Persist, Delete, Die, vars, disk
  <2>. QED BY <2>2, <2>3, <2>4, <2>5, <2>6, <2>7
           DEF Next, Reconcile, Opening, RunStep, Operator
<1>2. []IInv /\ [][Next]_vars => [][Stays]_vars
  BY <1>1, PTL
<1>3. Stays <=> \A s \in Spawned :
                  /\ run[s] # None /\ run[s].place = "tree" /\ closing' # s
                  /\ tree[s] # "none"
                  => tree'[s] # "none"
  OBVIOUS
<1>. QED BY <1>2, Inductive, PTL DEF Spec, LiveTreeStays
=============================================================================
