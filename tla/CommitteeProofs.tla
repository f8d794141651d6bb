--------------------------- MODULE CommitteeProofs ---------------------------
(***************************************************************************)
(* The limit on requests for the same diff, the types, and the safety part  *)
(* of ImplementsRunContract, for every number of turns, review passes and   *)
(* diffs, every budget, and with or without somebody to ask.                *)
(***************************************************************************)
EXTENDS Committee, FiniteSetTheorems, TLAPS

AtWork == {"planner", "hook", "turn", "model", "review", "check"}

\* A request is only passed on below both limits, and every one that is passed on
\* has been counted; while the executor works the count of requests in a row is
\* below its limit.
LimitInv ==
    /\ pc \in Points
    /\ requests \in Nat /\ rejected \in [Diffs -> Nat] /\ given \in [Diffs -> Nat]
    /\ diff \in Diffs \cup {None}
    /\ requests <= MaxPasses
    /\ pc \in AtWork => requests < MaxPasses
    /\ \A d \in Diffs : given[d] <= rejected[d] /\ given[d] < MaxPasses

\* A turn in progress is one of MaxTurns; a reply is there from the model's turn to
\* the end of it; the loop has an end exactly once it has told it.
RunInv ==
    /\ turn \in Nat /\ turn <= MaxTurns
    /\ cost \in Nat /\ told \in {0, 1}
    /\ reply \in {None, "work", "done"}
    /\ stop \in Reasons \cup {None}
    /\ result \in {None, "summary", "error"}
    /\ pc \in {"planner", "hook"} => turn = 0
    /\ pc \in {"model", "review", "asking", "check"} => turn < MaxTurns
    /\ pc \in {"planner", "hook", "turn", "model"} => reply = None
    /\ pc \in {"review", "asking"} => reply = "work"
    /\ pc = "check" => reply \in {"work", "done"}
    /\ pc \in AtWork \cup {"asking"} => told = 0
    /\ pc = "closing" => told = 1
    /\ pc = "returned" /\ told = 0 => turn < MaxTurns
    /\ told = 0 => stop = None

LogInv == log \in Seq(Events) /\ cancelled \in BOOLEAN

\* The events of the kinds K from the i-th on, in any history.
Idx(s, K, i) == {j \in i..Len(s) : s[j].kind \in K}

Held   == {"asking", "closing", "returned"}
Resets == {"unreviewed", "approve", "override"}

\* Once a cancel is in the history s the token c is set for good, and the one reply
\* that may still come is that of the turn in progress at p.
StopAt(s, p, c) ==
    \A i \in 1..Len(s) : s[i].kind = "cancel" =>
        /\ c
        /\ Cardinality(Idx(s, {"reply"}, i)) <= 1
        /\ p = "model" => Idx(s, {"reply"}, i) = {}

\* The requests since any moment without a reset between are counted by r, and none
\* of them reached the limit.
RowAt(s, r) ==
    \A i \in 1..(Len(s) + 1) : Idx(s, Resets, i) = {} =>
        /\ Cardinality(Idx(s, {"feedback"}, i)) <= r
        /\ Cardinality(Idx(s, {"feedback"}, i)) < MaxPasses

\* While a block is not overridden the run at p is not on its way to another turn.
HeldAt(s, p) ==
    \A i \in 1..Len(s) : s[i].kind = "block" =>
        /\ Idx(s, {"override"}, i) = {} => p \in Held /\ Idx(s, {"reply"}, i) = {}
        /\ Idx(s, {"reply"}, i) # {} =>
              \E j \in Idx(s, {"override"}, i) : Idx(s, {"reply"}, i) \cap i..j = {}

HistoryInv == StopAt(log, pc, cancelled) /\ RowAt(log, requests) /\ HeldAt(log, pc)

IInv == LimitInv /\ RunInv /\ LogInv /\ HistoryInv

ContractStep == Contract!Progress \/ Contract!Restart
-----------------------------------------------------------------------------
LEMMA Bounds == MaxTurns \in Nat /\ MaxTurns > 0 /\ MaxPasses \in Nat /\ MaxPasses > 0
               /\ Budget \in Nat /\ TurnCosts \subseteq Nat
BY CommitteeBounds

-----------------------------------------------------------------------------
(* The history. *)

LEMMA IndicesAreIdx == ASSUME NEW K, NEW i PROVE Indices(K, i) = Idx(log, K, i)
BY DEF Indices, Idx

\* Two events at once are two, one after the other.
LEMMA TwoEvents ==
    ASSUME NEW s \in Seq(Events), NEW a \in Events, NEW b \in Events
    PROVE  s \o <<a, b>> = Append(Append(s, a), b)
OBVIOUS

\* What an event adds to the indices of its kind, and only to those.
LEMMA AppendIdx ==
    ASSUME NEW s \in Seq(Events), NEW e \in Events, NEW K, NEW i \in 1..(Len(s) + 1)
    PROVE  /\ e.kind \in K => Idx(Append(s, e), K, i) = Idx(s, K, i) \cup {Len(s) + 1}
           /\ e.kind \notin K => Idx(Append(s, e), K, i) = Idx(s, K, i)
<1> DEFINE t == Append(s, e)
<1>1. Len(t) = Len(s) + 1 /\ t[Len(s) + 1] = e /\ \A j \in 1..Len(s) : t[j] = s[j]
  OBVIOUS
<1>2. Len(s) \in Nat
  OBVIOUS
<1> HIDE DEF t
<1>3. \A j \in i..Len(s) : t[j] = s[j]
  BY <1>1, <1>2
<1>4. i..Len(t) = (i..Len(s)) \cup {Len(s) + 1}
  BY <1>1, <1>2
<1>5. e.kind \in K => Idx(t, K, i) = Idx(s, K, i) \cup {Len(s) + 1}
  BY <1>1, <1>3, <1>4 DEF Idx
<1>6. e.kind \notin K => Idx(t, K, i) = Idx(s, K, i)
  BY <1>1, <1>3, <1>4 DEF Idx
<1> QED
  BY <1>5, <1>6 DEF t

\* There are finitely many, none of them beyond the history.
LEMMA IdxFinite ==
    ASSUME NEW s \in Seq(Events), NEW K, NEW i \in 1..(Len(s) + 1)
    PROVE  /\ IsFiniteSet(Idx(s, K, i))
           /\ Cardinality(Idx(s, K, i)) \in Nat
           /\ Len(s) + 1 \notin Idx(s, K, i)
<1>1. Len(s) \in Nat
  OBVIOUS
<1>2. IsFiniteSet(i..Len(s))
  BY <1>1, FS_Interval
<1>3. Idx(s, K, i) \subseteq i..Len(s)
  BY DEF Idx
<1>4. IsFiniteSet(Idx(s, K, i))
  BY <1>2, <1>3, FS_Subset
<1> QED
  BY <1>1, <1>3, <1>4, FS_CardinalityType

\* Beyond the history there is none.
LEMMA IdxBeyond ==
    ASSUME NEW s \in Seq(Events), NEW K
    PROVE  Idx(s, K, Len(s) + 1) = {} /\ Cardinality(Idx(s, K, Len(s) + 1)) = 0
<1>1. Idx(s, K, Len(s) + 1) = {}
  BY DEF Idx
<1> QED
  BY <1>1, FS_EmptySet

\* An event is counted once.
LEMMA AppendCount ==
    ASSUME NEW s \in Seq(Events), NEW e \in Events, NEW K, NEW i \in 1..(Len(s) + 1)
    PROVE  Cardinality(Idx(Append(s, e), K, i))
             = IF e.kind \in K THEN Cardinality(Idx(s, K, i)) + 1
                               ELSE Cardinality(Idx(s, K, i))
BY AppendIdx, IdxFinite, FS_AddElement

\* A step that is not heard of, and any event but a reply, keep StopAt unless they
\* lead a cancelled run to another turn.
LEMMA StopQuiet ==
    ASSUME NEW s, NEW p, NEW c, StopAt(s, p, c), NEW q, NEW d,
           c => d, q = "model" => p = "model" \/ ~c
    PROVE  StopAt(s, q, d)
BY DEF StopAt

LEMMA StopOther ==
    ASSUME NEW s \in Seq(Events), NEW p, NEW c, StopAt(s, p, c), NEW q, NEW d,
           c => d, q = "model" => p = "model" \/ ~c,
           NEW e \in Events, e.kind # "reply", e.kind = "cancel" => d
    PROVE  StopAt(Append(s, e), q, d)
<1> DEFINE t == Append(s, e)
<1>1. Len(t) = Len(s) + 1 /\ t[Len(s) + 1] = e /\ \A j \in 1..Len(s) : t[j] = s[j]
  OBVIOUS
<1> SUFFICES ASSUME NEW i \in 1..Len(t), t[i].kind = "cancel"
             PROVE  /\ d /\ Cardinality(Idx(t, {"reply"}, i)) <= 1
                    /\ q = "model" => Idx(t, {"reply"}, i) = {}
  BY DEF StopAt
<1>2. i \in 1..(Len(s) + 1) /\ Idx(t, {"reply"}, i) = Idx(s, {"reply"}, i)
  <2>1. i \in 1..(Len(s) + 1)
    BY <1>1
  <2> QED
    BY <2>1, AppendIdx
<1> HIDE DEF t
<1>3. CASE i = Len(s) + 1
  BY <1>1, <1>2, <1>3, IdxBeyond
<1>4. CASE i \in 1..Len(s)
  BY <1>1, <1>2, <1>4 DEF StopAt
<1> QED
  BY <1>2, <1>3, <1>4

\* The reply of the turn in progress is the last.
LEMMA StopReply ==
    ASSUME NEW s \in Seq(Events), NEW c, StopAt(s, "model", c), NEW q, q # "model",
           NEW e \in Events, e.kind = "reply"
    PROVE  StopAt(Append(s, e), q, c)
<1> DEFINE t == Append(s, e)
<1>1. Len(t) = Len(s) + 1 /\ t[Len(s) + 1] = e /\ \A j \in 1..Len(s) : t[j] = s[j]
  OBVIOUS
<1> SUFFICES ASSUME NEW i \in 1..Len(t), t[i].kind = "cancel"
             PROVE  c /\ Cardinality(Idx(t, {"reply"}, i)) <= 1
  BY DEF StopAt
<1>2. i \in 1..Len(s) /\ s[i].kind = "cancel"
  BY <1>1
<1>3. c /\ Idx(s, {"reply"}, i) = {}
  BY <1>2 DEF StopAt
<1>4. Cardinality(Idx(t, {"reply"}, i)) = Cardinality(Idx(s, {"reply"}, i)) + 1
  BY <1>2, AppendCount
<1>5. Cardinality(Idx(s, {"reply"}, i)) = 0
  BY <1>3, FS_EmptySet
<1> HIDE DEF t
<1> QED
  BY <1>3, <1>4, <1>5

\* A reset begins the count anew, whatever the counter is set to.
LEMMA RowReset ==
    ASSUME NEW s \in Seq(Events), NEW r \in Nat, NEW e \in Events, e.kind \in Resets
    PROVE  RowAt(Append(s, e), r)
<1> DEFINE t == Append(s, e)
<1>1. t \in Seq(Events) /\ Len(t) = Len(s) + 1 /\ Len(s) \in Nat
  OBVIOUS
<1> SUFFICES ASSUME NEW i \in 1..(Len(t) + 1), Idx(t, Resets, i) = {}
             PROVE  /\ Cardinality(Idx(t, {"feedback"}, i)) <= r
                    /\ Cardinality(Idx(t, {"feedback"}, i)) < MaxPasses
  BY DEF RowAt
<1>2. i \notin 1..(Len(s) + 1)
  BY AppendIdx
<1> HIDE DEF t
<1>3. i = Len(t) + 1
  BY <1>1, <1>2
<1>4. Cardinality(Idx(t, {"feedback"}, Len(t) + 1)) = 0
  BY <1>1, IdxBeyond
<1> QED
  BY <1>3, <1>4, Bounds

\* A request is counted, below the limit.
LEMMA RowFeedback ==
    ASSUME NEW s \in Seq(Events), NEW r \in Nat, RowAt(s, r), r + 1 < MaxPasses,
           NEW e \in Events, e.kind = "feedback"
    PROVE  RowAt(Append(s, e), r + 1)
<1> DEFINE t == Append(s, e)
<1>1. t \in Seq(Events) /\ Len(t) = Len(s) + 1 /\ Len(s) \in Nat
  OBVIOUS
<1> SUFFICES ASSUME NEW i \in 1..(Len(t) + 1), Idx(t, Resets, i) = {}
             PROVE  /\ Cardinality(Idx(t, {"feedback"}, i)) <= r + 1
                    /\ Cardinality(Idx(t, {"feedback"}, i)) < MaxPasses
  BY DEF RowAt
<1>2. CASE i = Len(t) + 1
  <2> HIDE DEF t
  <2>1. Cardinality(Idx(t, {"feedback"}, Len(t) + 1)) = 0
    BY <1>1, IdxBeyond
  <2> QED
    BY <1>2, <2>1, Bounds
<1>3. CASE i \in 1..(Len(s) + 1)
  <2>1. Idx(s, Resets, i) = {}
    BY <1>3, AppendIdx DEF Resets
  <2>2. Cardinality(Idx(s, {"feedback"}, i)) <= r
    BY <1>3, <2>1 DEF RowAt
  <2>3. Cardinality(Idx(t, {"feedback"}, i)) = Cardinality(Idx(s, {"feedback"}, i)) + 1
    BY <1>3, AppendCount
  <2>4. Cardinality(Idx(s, {"feedback"}, i)) \in Nat
    BY <1>3, IdxFinite
  <2> HIDE DEF t
  <2> QED
    BY <2>2, <2>3, <2>4, Bounds
<1> QED
  BY <1>1, <1>2, <1>3

\* Any other event leaves the count, and the counter never goes back without a reset.
LEMMA RowQuiet ==
    ASSUME NEW s \in Seq(Events), NEW r \in Nat, RowAt(s, r), NEW q \in Nat, r <= q
    PROVE  RowAt(s, q)
<1> SUFFICES ASSUME NEW i \in 1..(Len(s) + 1), Idx(s, Resets, i) = {}
             PROVE  /\ Cardinality(Idx(s, {"feedback"}, i)) <= q
                    /\ Cardinality(Idx(s, {"feedback"}, i)) < MaxPasses
  BY DEF RowAt
<1>1. Cardinality(Idx(s, {"feedback"}, i)) \in Nat
  BY IdxFinite
<1> QED
  BY <1>1 DEF RowAt

LEMMA RowOther ==
    ASSUME NEW s \in Seq(Events), NEW r \in Nat, RowAt(s, r), NEW q \in Nat, r <= q,
           NEW e \in Events, e.kind \notin Resets, e.kind # "feedback"
    PROVE  RowAt(Append(s, e), q)
<1> DEFINE t == Append(s, e)
<1>1. t \in Seq(Events) /\ Len(t) = Len(s) + 1 /\ Len(s) \in Nat
  OBVIOUS
<1> SUFFICES ASSUME NEW i \in 1..(Len(t) + 1), Idx(t, Resets, i) = {}
             PROVE  /\ Cardinality(Idx(t, {"feedback"}, i)) <= q
                    /\ Cardinality(Idx(t, {"feedback"}, i)) < MaxPasses
  BY DEF RowAt
<1>2. CASE i = Len(t) + 1
  <2> HIDE DEF t
  <2>1. Cardinality(Idx(t, {"feedback"}, Len(t) + 1)) = 0
    BY <1>1, IdxBeyond
  <2> QED
    BY <1>2, <2>1, Bounds
<1>3. CASE i \in 1..(Len(s) + 1)
  <2>1. /\ Idx(t, Resets, i) = Idx(s, Resets, i)
        /\ Idx(t, {"feedback"}, i) = Idx(s, {"feedback"}, i)
    BY <1>3, AppendIdx
  <2>2. RowAt(s, q)
    BY RowQuiet
  <2> HIDE DEF t
  <2> QED
    BY <1>3, <2>1, <2>2 DEF RowAt
<1> QED
  BY <1>1, <1>2, <1>3

\* A step that is not heard of keeps HeldAt unless it lets a held run go on.
LEMMA HeldQuiet ==
    ASSUME NEW s, NEW p, HeldAt(s, p), NEW q, p \in Held => q \in Held
    PROVE  HeldAt(s, q)
BY DEF HeldAt

\* So does any event but a reply, a block and an override.
LEMMA HeldOther ==
    ASSUME NEW s \in Seq(Events), NEW p, HeldAt(s, p), NEW q, p \in Held => q \in Held,
           NEW e \in Events, e.kind \notin {"reply", "override"},
           e.kind = "block" => q \in Held
    PROVE  HeldAt(Append(s, e), q)
<1> DEFINE t == Append(s, e)
<1>1. Len(t) = Len(s) + 1 /\ t[Len(s) + 1] = e /\ \A j \in 1..Len(s) : t[j] = s[j]
  OBVIOUS
<1> SUFFICES ASSUME NEW i \in 1..Len(t), t[i].kind = "block"
             PROVE  /\ Idx(t, {"override"}, i) = {}
                         => q \in Held /\ Idx(t, {"reply"}, i) = {}
                    /\ Idx(t, {"reply"}, i) # {} =>
                         \E j \in Idx(t, {"override"}, i) : Idx(t, {"reply"}, i) \cap i..j = {}
  BY DEF HeldAt
<1>2. /\ Idx(t, {"override"}, i) = Idx(s, {"override"}, i)
      /\ Idx(t, {"reply"}, i) = Idx(s, {"reply"}, i)
  <2>1. i \in 1..(Len(s) + 1)
    BY <1>1
  <2> QED
    BY <2>1, AppendIdx
<1> HIDE DEF t
<1>3. CASE i = Len(s) + 1
  BY <1>1, <1>2, <1>3, IdxBeyond
<1>4. CASE i \in 1..Len(s)
  BY <1>1, <1>2, <1>4 DEF HeldAt
<1> QED
  BY <1>1, <1>3, <1>4

\* A reply comes when no block is left that has not been overridden, and so after the
\* override of each.
LEMMA HeldReply ==
    ASSUME NEW s \in Seq(Events), NEW p, HeldAt(s, p), p \notin Held, NEW q,
           NEW e \in Events, e.kind = "reply"
    PROVE  HeldAt(Append(s, e), q)
<1> DEFINE t == Append(s, e)
<1>1. /\ Len(t) = Len(s) + 1 /\ t[Len(s) + 1] = e /\ \A j \in 1..Len(s) : t[j] = s[j]
      /\ Len(s) \in Nat
  OBVIOUS
<1> SUFFICES ASSUME NEW i \in 1..Len(t), t[i].kind = "block"
             PROVE  /\ Idx(t, {"override"}, i) # {}
                    /\ \E j \in Idx(t, {"override"}, i) : Idx(t, {"reply"}, i) \cap i..j = {}
  BY DEF HeldAt
<1>2. i \in 1..Len(s) /\ s[i].kind = "block"
  BY <1>1
<1>3. /\ Idx(t, {"override"}, i) = Idx(s, {"override"}, i)
      /\ Idx(t, {"reply"}, i) = Idx(s, {"reply"}, i) \cup {Len(s) + 1}
  BY <1>2, AppendIdx
<1> HIDE DEF t
<1>4. Idx(s, {"override"}, i) # {}
  BY <1>2 DEF HeldAt
<1>5. PICK j \in Idx(s, {"override"}, i) : Idx(s, {"reply"}, i) \cap i..j = {}
  <2>1. CASE Idx(s, {"reply"}, i) = {}
    BY <1>4, <2>1
  <2>2. CASE Idx(s, {"reply"}, i) # {}
    BY <1>2, <2>2 DEF HeldAt
  <2> QED
    BY <2>1, <2>2
<1>6. Len(s) + 1 \notin i..j
  BY <1>1, <1>2, <1>5 DEF Idx
<1> QED
  BY <1>3, <1>4, <1>5, <1>6

\* The operator's override ends the hold of every block before it.
LEMMA HeldOverride ==
    ASSUME NEW s \in Seq(Events), NEW p, HeldAt(s, p), NEW q,
           NEW e \in Events, e.kind = "override"
    PROVE  HeldAt(Append(s, e), q)
<1> DEFINE t == Append(s, e)
<1>1. /\ Len(t) = Len(s) + 1 /\ t[Len(s) + 1] = e /\ \A j \in 1..Len(s) : t[j] = s[j]
      /\ Len(s) \in Nat
  OBVIOUS
<1> SUFFICES ASSUME NEW i \in 1..Len(t), t[i].kind = "block"
             PROVE  /\ Idx(t, {"override"}, i) # {}
                    /\ Idx(t, {"reply"}, i) # {} =>
                         \E j \in Idx(t, {"override"}, i) : Idx(t, {"reply"}, i) \cap i..j = {}
  BY DEF HeldAt
<1>2. i \in 1..Len(s) /\ s[i].kind = "block"
  BY <1>1
<1>3. /\ Idx(t, {"override"}, i) = Idx(s, {"override"}, i) \cup {Len(s) + 1}
      /\ Idx(t, {"reply"}, i) = Idx(s, {"reply"}, i)
  BY <1>2, AppendIdx
<1> HIDE DEF t
<1> QED
  BY <1>2, <1>3 DEF HeldAt
-----------------------------------------------------------------------------
(* The steps. *)

LEMMA InitKeeps == Init => IInv /\ Contract!Init
<1> SUFFICES ASSUME Init PROVE IInv /\ Contract!Init
  OBVIOUS
<1>1. LimitInv
  BY Bounds DEF Init, LimitInv, Points, AtWork
<1>2. RunInv
  BY Bounds DEF Init, RunInv, AtWork
<1>3. LogInv
  <2>1. log \in Seq(Events)
    BY DEF Init
  <2>2. cancelled \in BOOLEAN
    BY DEF Init
  <2> QED
    BY <2>1, <2>2 DEF LogInv
<1>4. Contract!Init
  BY Bounds DEF Init, Contract!Init
<1>5. HistoryInv
  <2>1. log = << >> /\ << >> \in Seq(Events) /\ Len(<< >>) = 0 /\ requests = 0
    BY DEF Init
  <2>2. RowAt(<< >>, 0)
    <3>1. Cardinality(Idx(<< >>, {"feedback"}, 1)) = 0
      <4>1. Idx(<< >>, {"feedback"}, 1) = {}
        BY DEF Idx
      <4> QED
        BY <4>1, FS_EmptySet
    <3> QED
      BY <2>1, <3>1, Bounds DEF RowAt
  <2>3. StopAt(<< >>, pc, cancelled) /\ HeldAt(<< >>, pc)
    BY <2>1 DEF StopAt, HeldAt
  <2> QED
    BY <2>1, <2>2, <2>3 DEF HistoryInv
<1> QED
  BY <1>1, <1>2, <1>3, <1>4, <1>5 DEF IInv

\* The types and the limits of guarded_reviewer_verdict are kept by every step.
LEMMA LimitKeeps == LimitInv /\ [Next]_vars => LimitInv'
<1> SUFFICES ASSUME LimitInv, [Next]_vars PROVE LimitInv'
  OBVIOUS
<1> USE Bounds DEF LimitInv, Points, AtWork, Goto, Finish, Break, review
<1>1. CASE Planner
  BY <1>1 DEF Planner
<1>2. CASE Start
  BY <1>2 DEF Start
<1>3. CASE BeginTurn
  BY <1>3 DEF BeginTurn
<1>4. CASE Edits
  BY <1>4 DEF Edits, Replies
<1>5. CASE Others
  BY <1>5 DEF Others, Replies
<1>6. CASE TurnFails
  BY <1>6 DEF TurnFails
<1>7. CASE NoDiff
  BY <1>7 DEF NoDiff
<1>8. CASE ReviewerFails
  BY <1>8 DEF ReviewerFails
<1>9. CASE Approves
  BY <1>9 DEF Approves
<1>10. CASE RequestsChanges
  <2>1. diff \in Diffs /\ pc = "review" /\ diff' = diff
    BY <1>10, CommitteeNames DEF RequestsChanges
  <2>2. requests' = requests + 1 /\ requests < MaxPasses
    BY <1>10 DEF RequestsChanges
  <2>3. rejected' = [rejected EXCEPT ![diff] = @ + 1]
    BY <1>10 DEF RequestsChanges
  <2>4. rejected' \in [Diffs -> Nat] /\ rejected'[diff] = rejected[diff] + 1
    BY <2>1, <2>3
  <2>5. CASE TooOften(rejected'[diff], requests')
    <3>1. Block /\ given' = given
      BY <1>10, <2>5 DEF RequestsChanges
    <3>2. pc' \in {"asking", "closing"}
      BY <3>1 DEF Block
    <3> QED
      BY <2>1, <2>2, <2>3, <2>4, <3>1, <3>2
  <2>6. CASE ~TooOften(rejected'[diff], requests')
    <3>1. /\ pc' = "check"
          /\ given' = [given EXCEPT ![diff] = @ + 1]
      BY <1>10, <2>6 DEF RequestsChanges
    <3>2. rejected'[diff] < MaxPasses /\ requests' < MaxPasses
      BY <2>1, <2>2, <2>4, <2>6 DEF TooOften
    <3>3. \A d \in Diffs : given'[d] <= rejected'[d] /\ given'[d] < MaxPasses
      BY <2>1, <2>3, <3>1, <3>2
    <3> QED
      BY <2>1, <2>2, <2>4, <3>1, <3>2, <3>3
  <2> QED
    BY <2>5, <2>6
<1>11. CASE Blocks
  BY <1>11 DEF Blocks, Block
<1>12. CASE Answer
  BY <1>12 DEF Answer
<1>13. CASE Check
  BY <1>13 DEF Check
<1>14. CASE Return
  BY <1>14 DEF Return
<1>15. CASE Cancel
  BY <1>15 DEF Cancel
<1>16. CASE UNCHANGED vars
  BY <1>16 DEF vars
<1> QED
  BY <1>1, <1>2, <1>3, <1>4, <1>5, <1>6, <1>7, <1>8, <1>9, <1>10, <1>11, <1>12,
     <1>13, <1>14, <1>15, <1>16
  DEF Next, RunStep, Executor, Reviewer, Over

\* The history only ever grows by events.
LEMMA LogKeeps == LogInv /\ [Next]_vars => LogInv'
<1> SUFFICES ASSUME LogInv, [Next]_vars PROVE LogInv'
  OBVIOUS
<1>1. ASSUME NEW k \in {"reply", "unreviewed", "approve", "feedback", "block",
                        "override", "cancel"}, Logs(k)
      PROVE  log' \in Seq(Events)
  BY <1>1 DEF Logs, LogInv, Events
<1>2. ASSUME UNCHANGED log PROVE log' \in Seq(Events)
  BY <1>2 DEF LogInv
<1>3. CASE Others
  BY <1>3 DEF Others, Replies, LogInv, Events
<1>4. CASE Edits \/ NoDiff \/ Approves \/ RequestsChanges \/ Blocks \/ Answer \/ Cancel
  BY <1>4, <1>1, <1>2 DEF LogInv, Edits, Replies, NoDiff, Approves, RequestsChanges, Blocks, Block,
     Answer, Cancel
<1>5. CASE Planner \/ Start \/ BeginTurn \/ TurnFails \/ ReviewerFails \/ Check
           \/ Return \/ UNCHANGED vars
  BY <1>5, <1>2 DEF LogInv, Planner, Start, BeginTurn, TurnFails, ReviewerFails, Check, Return,
     vars
<1> QED
  BY <1>3, <1>4, <1>5 DEF Next, RunStep, Executor, Reviewer, Over

\* Every step keeps RunInv and maps to a step of the run contract or to a stutter.
LEMMA RunKeeps ==
    LimitInv /\ RunInv /\ [Next]_vars => RunInv' /\ [ContractStep]_(Contract!vars)
<1> SUFFICES ASSUME LimitInv, RunInv, [Next]_vars
             PROVE  RunInv' /\ (ContractStep \/ UNCHANGED Contract!vars)
  OBVIOUS
<1> USE Bounds, CommitteeNames, NoReason
    DEF RunInv, AtWork, Reasons, Goto, Finish, Break, review, ContractStep,
        Contract!Progress, Contract!vars, Contract!Reply, Contract!UseTurn,
        Contract!End, Contract!Truthful, Contract!Break, Contract!Restart,
        Contract!Running
<1>1. CASE Planner
  BY <1>1 DEF Planner
<1>2. CASE Start
  BY <1>2 DEF Start
<1>3. CASE BeginTurn
  BY <1>3 DEF BeginTurn, MayTurn
<1>4. CASE Edits
  BY <1>4 DEF Edits, Replies
<1>5. CASE Others
  BY <1>5 DEF Others, Replies
<1>6. CASE TurnFails
  BY <1>6 DEF TurnFails
<1>7. CASE NoDiff
  BY <1>7 DEF NoDiff
<1>8. CASE ReviewerFails
  BY <1>8 DEF ReviewerFails
<1>9. CASE Approves
  BY <1>9 DEF Approves
<1>10. CASE RequestsChanges
  BY <1>10 DEF RequestsChanges, Block
<1>11. CASE Blocks
  BY <1>11 DEF Blocks, Block
<1>12. CASE Answer
  BY <1>12 DEF Answer
<1>13. CASE Check
  BY <1>13 DEF Check
<1>14. CASE Return
  BY <1>14 DEF Return
<1>15. CASE Cancel
  BY <1>15 DEF Cancel
<1>16. CASE UNCHANGED vars
  BY <1>16 DEF vars
<1> QED
  BY <1>1, <1>2, <1>3, <1>4, <1>5, <1>6, <1>7, <1>8, <1>9, <1>10, <1>11, <1>12,
     <1>13, <1>14, <1>15, <1>16
  DEF Next, RunStep, Executor, Reviewer, Over
-----------------------------------------------------------------------------
\* Every step keeps what the history is invariant in.
LEMMA HistoryKeeps ==
    LimitInv /\ RunInv /\ LogInv /\ HistoryInv /\ LimitInv' /\ [Next]_vars => HistoryInv'
<1> SUFFICES ASSUME LimitInv, RunInv, LogInv, HistoryInv, LimitInv', [Next]_vars
             PROVE  HistoryInv'
  OBVIOUS
<1> DEFINE ev(k) == [kind |-> k]
<1>1. /\ log \in Seq(Events) /\ requests \in Nat /\ requests' \in Nat
      /\ StopAt(log, pc, cancelled) /\ RowAt(log, requests) /\ HeldAt(log, pc)
  BY DEF LimitInv, LogInv, HistoryInv
<1>2. \A k \in {"reply", "unreviewed", "approve", "feedback", "block", "override", "cancel"} :
          ev(k) \in Events /\ ev(k).kind = k
  BY DEF Events
<1>3. SUFFICES /\ StopAt(log', pc', cancelled') /\ RowAt(log', requests')
               /\ HeldAt(log', pc')
  BY DEF HistoryInv
<1> USE DEF Goto, Finish, Break, review
<1>4. ASSUME log' = log, requests' = requests, cancelled => cancelled',
             pc' = "model" => ~cancelled, pc \in Held => pc' \in Held
      PROVE  /\ StopAt(log', pc', cancelled') /\ RowAt(log', requests')
             /\ HeldAt(log', pc')
  BY <1>1, <1>4, StopQuiet, RowQuiet, HeldQuiet
<1>5. CASE Planner \/ Start \/ TurnFails \/ ReviewerFails \/ Check \/ Return
  BY <1>4, <1>5 DEF Planner, Start, TurnFails, ReviewerFails, Check, Return, Held
<1>6. CASE BeginTurn
  BY <1>4, <1>6 DEF BeginTurn, MayTurn, Held
<1>7. CASE UNCHANGED vars
  BY <1>1, <1>7 DEF vars
<1>8. CASE Edits
  <2>1. /\ pc = "model" /\ pc' = "review" /\ cancelled' = cancelled
        /\ requests' = requests /\ log' = Append(log, ev("reply"))
    BY <1>8 DEF Edits, Replies, Logs
  <2>2. StopAt(log', pc', cancelled')
    BY <1>1, <1>2, <2>1, StopReply
  <2>3. RowAt(log', requests')
    BY <1>1, <1>2, <2>1, RowOther DEF Resets
  <2>4. HeldAt(log', pc')
    BY <1>1, <1>2, <2>1, HeldReply DEF Held
  <2> QED
    BY <2>2, <2>3, <2>4
<1>9. CASE Others
  <2> DEFINE once == Append(log, ev("reply"))
  <2>1. /\ pc = "model" /\ pc' = "check" /\ cancelled' = cancelled
        /\ log' = log \o <<ev("reply"), ev("unreviewed")>>
    BY <1>9 DEF Others, Replies
  <2>2. log' = Append(once, ev("unreviewed"))
    BY <1>1, <1>2, <2>1, TwoEvents
  <2>3. once \in Seq(Events)
    BY <1>1, <1>2
  <2>4. StopAt(once, pc', cancelled')
    BY <1>1, <1>2, <2>1, StopReply
  <2>5. HeldAt(once, pc')
    BY <1>1, <1>2, <2>1, HeldReply DEF Held
  <2> HIDE DEF once
  <2>6. StopAt(log', pc', cancelled')
    <3>1. StopAt(Append(once, ev("unreviewed")), pc', cancelled')
      BY <1>2, <2>1, <2>3, <2>4, StopOther
    <3> QED
      BY <2>2, <3>1
  <2>7. RowAt(log', requests')
    BY <1>1, <1>2, <2>2, <2>3, RowReset DEF Resets
  <2>8. HeldAt(log', pc')
    BY <1>2, <2>2, <2>3, <2>5, HeldOther
  <2> QED
    BY <2>6, <2>7, <2>8
<1>10. CASE NoDiff \/ Approves
  <2>1. PICK k \in {"unreviewed", "approve"} : log' = Append(log, ev(k))
    BY <1>10 DEF NoDiff, Approves, Logs
  <2>2. pc = "review" /\ pc' = "check" /\ cancelled' = cancelled
    BY <1>10 DEF NoDiff, Approves
  <2>3. StopAt(log', pc', cancelled')
    <3>1. ev(k) \in Events /\ ev(k).kind = k
      BY <1>2
    <3> HIDE DEF ev
    <3>2. StopAt(Append(log, ev(k)), pc', cancelled')
      BY <1>1, <2>2, <3>1, StopOther
    <3> QED
      BY <2>1, <3>2
  <2>4. RowAt(log', requests')
    BY <1>1, <1>2, <2>1, RowReset DEF Resets
  <2>5. HeldAt(log', pc')
    <3>1. ev(k) \in Events /\ ev(k).kind = k
      BY <1>2
    <3> HIDE DEF ev
    <3>2. HeldAt(Append(log, ev(k)), pc')
      BY <1>1, <2>2, <3>1, HeldOther DEF Held
    <3> QED
      BY <2>1, <3>2
  <2> QED
    BY <2>3, <2>4, <2>5
<1>11. ASSUME Block, pc = "review", requests <= requests' PROVE HistoryInv'
  <2>1. log' = Append(log, ev("block")) /\ pc' \in {"asking", "closing"}
        /\ (cancelled => cancelled')
    BY <1>11 DEF Block, Logs
  <2>2. StopAt(log', pc', cancelled')
    BY <1>1, <1>2, <1>11, <2>1, StopOther
  <2>3. RowAt(log', requests')
    BY <1>1, <1>2, <1>11, <2>1, RowOther DEF Resets
  <2>4. HeldAt(log', pc')
    BY <1>1, <1>2, <2>1, HeldOther DEF Held
  <2> QED
    BY <2>2, <2>3, <2>4 DEF HistoryInv
<1>12. CASE RequestsChanges
  <2>1. pc = "review" /\ requests' = requests + 1
    BY <1>12 DEF RequestsChanges
  <2>2. CASE Block
    BY <1>1, <1>11, <2>1, <2>2 DEF HistoryInv
  <2>3. CASE ~Block
    <3>1. /\ pc' = "check" /\ cancelled' = cancelled
          /\ log' = Append(log, ev("feedback"))
      BY <1>12, <2>3 DEF RequestsChanges, Logs
    <3>2. requests + 1 < MaxPasses
      BY <2>1, <3>1 DEF LimitInv, AtWork
    <3>3. StopAt(log', pc', cancelled')
      BY <1>1, <1>2, <2>1, <3>1, StopOther
    <3>4. RowAt(log', requests')
      BY <1>1, <1>2, <2>1, <3>1, <3>2, RowFeedback
    <3>5. HeldAt(log', pc')
      BY <1>1, <1>2, <2>1, <3>1, HeldOther DEF Held
    <3> QED
      BY <3>3, <3>4, <3>5
  <2> QED
    BY <2>2, <2>3
<1>13. CASE Blocks
  BY <1>1, <1>11, <1>13 DEF Blocks, HistoryInv
<1>14. CASE Answer
  <2>1. CASE log' = log
    BY <1>4, <1>14, <2>1 DEF Answer, Held, Logs
  <2>2. CASE log' # log
    <3>1. /\ pc = "asking" /\ pc' = "check" /\ cancelled' = cancelled
          /\ log' = Append(log, ev("override"))
      BY <1>14, <2>2 DEF Answer, Logs
    <3>2. StopAt(log', pc', cancelled')
      BY <1>1, <1>2, <3>1, StopOther
    <3>3. RowAt(log', requests')
      BY <1>1, <1>2, <3>1, RowReset DEF Resets
    <3>4. HeldAt(log', pc')
      BY <1>1, <1>2, <3>1, HeldOverride
    <3> QED
      BY <3>2, <3>3, <3>4
  <2> QED
    BY <2>1, <2>2
<1>15. CASE Cancel
  <2>1. /\ pc' = pc /\ cancelled' = TRUE /\ requests' = requests
        /\ log' = Append(log, ev("cancel")) /\ ~cancelled
    BY <1>15 DEF Cancel, Logs
  <2>2. StopAt(log', pc', cancelled')
    BY <1>1, <1>2, <2>1, StopOther
  <2>3. RowAt(log', requests')
    BY <1>1, <1>2, <2>1, RowOther DEF Resets
  <2>4. HeldAt(log', pc')
    BY <1>1, <1>2, <2>1, HeldOther
  <2> QED
    BY <2>2, <2>3, <2>4
<1> QED
  BY <1>5, <1>6, <1>7, <1>8, <1>9, <1>10, <1>12, <1>13, <1>14, <1>15
  DEF Next, RunStep, Executor, Reviewer, Over
-----------------------------------------------------------------------------
\* The inductive invariant holds.
THEOREM CommitteeInvariant == Spec => []IInv
<1>1. Init => IInv
  BY InitKeeps
<1>2. IInv /\ [Next]_vars => IInv'
  BY LimitKeeps, LogKeeps, RunKeeps, HistoryKeeps DEF IInv
<1> QED
  BY <1>1, <1>2, PTL DEF Spec

\* Every variable has its type, the requests in a row never exceed
\* committee.max_review_passes, and no turn is taken beyond max_turns
\* (run_committee_loop_with_events).
THEOREM CommitteeTypes == Spec => []TypeOK
<1>1. IInv => TypeOK
  BY Bounds DEF IInv, LimitInv, RunInv, LogInv, TypeOK
<1> QED
  BY <1>1, CommitteeInvariant, PTL

\* guarded_reviewer_verdict: the executor is asked to change one and the same diff
\* fewer than committee.max_review_passes times in a run, whatever lies between.
THEOREM SameDiffIsBlocked == Spec => []SameDiffBlocks
<1>1. IInv => SameDiffBlocks
  BY DEF IInv, LimitInv, SameDiffBlocks
<1> QED
  BY <1>1, CommitteeInvariant, PTL

\* The reviewer cannot send the executor back for ever: fewer than max_review_passes
\* requests for changes are passed on with no approval, override or turn without a
\* review between them, whatever the diffs (review_pass_counter).
THEOREM RequestsAreLimited == Spec => []RequestsEnd
<1>1. IInv => RequestsEnd
  <2> SUFFICES ASSUME IInv, NEW i \in 1..Len(log), Indices(Resets, i) = {}
               PROVE  Cardinality(Indices({"feedback"}, i)) < MaxPasses
    BY DEF RequestsEnd, Resets
  <2>1. i \in 1..(Len(log) + 1)
    BY DEF IInv, LogInv
  <2> QED
    BY <2>1, IndicesAreIdx DEF IInv, HistoryInv, RowAt
<1> QED
  BY <1>1, CommitteeInvariant, PTL

\* Neither over one diff nor over ever new ones do reviewer and executor go round for
\* ever (the two counters of run_committee_loop_with_events).
THEOREM RequestsComeToAnEnd == Spec => []RequestLimits
BY SameDiffIsBlocked, RequestsAreLimited, PTL DEF RequestLimits

\* After a block the executor answers again only once the operator has overridden it
\* (the two places where the loop asks with ask_user_port).
THEOREM BlockIsHeld == Spec => []BlockHolds
<1>1. IInv => BlockHolds
  BY IndicesAreIdx DEF IInv, HistoryInv, HeldAt, BlockHolds
<1> QED
  BY <1>1, CommitteeInvariant, PTL

\* After a cancel the executor is heard from once more at most: the turn in progress
\* may end, and none begins.
THEOREM CancelIsHeard == Spec => []CancelStops
<1>1. IInv => CancelStops
  BY IndicesAreIdx DEF IInv, HistoryInv, StopAt, CancelStops
<1> QED
  BY <1>1, CommitteeInvariant, PTL

\* The committee implements the run contract, its liveness apart: at most MaxTurns
\* turns of the executor, one end with a reason that is true and one Finished event,
\* or an error and none.
THEOREM CommitteeContract == Spec => Contract!Init /\ [][ContractStep]_(Contract!vars)
<1>1. Init => Contract!Init
  BY InitKeeps
<1>2. IInv /\ [Next]_vars => [ContractStep]_(Contract!vars)
  BY RunKeeps DEF IInv
<1> QED
  BY <1>1, <1>2, CommitteeInvariant, PTL DEF Spec
=============================================================================
