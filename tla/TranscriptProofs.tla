-------------------------- MODULE TranscriptProofs --------------------------
(***************************************************************************)
(* The transcript and the call that waits for an approval: what holds for   *)
(* any number of runs, halts, tool call ids and entries.                    *)
(*                                                                          *)
(* That a request is well paired and that what was saved has no open call   *)
(* both rest on the shape of the transcript: the results of a batch are     *)
(* right behind it, but for the one at work (Shaped).  That a task stays    *)
(* rests on its being the last one (Objective): compaction only ever keeps  *)
(* the last.  That a waiting call is not taken twice rests on the file only *)
(* ever holding a call nobody took yet, and that the question and the file  *)
(* agree rests on the file being empty from the first turn of a run on,     *)
(* which only the committee loop is an exception to (HaltInv).              *)
(***************************************************************************)
EXTENDS Transcript, FiniteSetTheorems, SequenceTheorems, WellFoundedInduction, TLAPS

-----------------------------------------------------------------------------
(* Positions.  Strict inclusion is well founded on the subsets of a finite   *)
(* set, which gives every bounded set of numbers its largest and its least.  *)

LEMMA LargestOf ==
    ASSUME NEW n \in Nat, NEW T \in SUBSET (0..n), T # {}
    PROVE  /\ Max(T) \in T
           /\ \A y \in T : y <= Max(T)
<1> DEFINE S == 0..n
           D == {k..n : k \in T}
<1>1. IsFiniteSet(S)
  BY FS_Interval
<1>2. IsWellFoundedOn(StrictSubsetOrdering(S), FiniteSubsetsOf(S))
  BY <1>1, FS_StrictSubsetOrderingWellFounded
<1>3. D \subseteq SUBSET S
  OBVIOUS
<1>4. D # {}
  <2>1. PICK k \in T : TRUE
    OBVIOUS
  <2>2. k..n \in D
    BY <2>1
  <2> QED
    BY <2>2
<1>5. D \subseteq FiniteSubsetsOf(S)
  BY <1>1, <1>3, FS_Subset DEF FiniteSubsetsOf
<1>6. PICK d \in D : \A y \in D : <<y, d>> \notin StrictSubsetOrdering(S)
  <2> HIDE DEF D, S
  <2> QED
    BY <1>2, <1>4, <1>5, WFMin
<1>7. PICK x \in T : d = x..n
  BY <1>6
<1>8. ASSUME NEW y \in T, y > x  PROVE FALSE
  <2>1. y..n \in D /\ y..n \subseteq d /\ x \in d /\ x \notin y..n
    BY <1>7, <1>8
  <2>2. <<y..n, d>> \in StrictSubsetOrdering(S)
    <3> HIDE DEF D, S
    <3> QED
      BY <2>1, <1>3, <1>6 DEF StrictSubsetOrdering
  <2> QED
    BY <2>1, <2>2, <1>6
<1>9. \A y \in T : x >= y
  BY <1>8
<1>10. Max(T) \in T /\ \A y \in T : Max(T) >= y
  BY <1>9 DEF Max
<1> QED
  BY <1>10

LEMMA LeastOf ==
    ASSUME NEW n \in Nat, NEW T \in SUBSET (0..n), T # {}
    PROVE  /\ Min(T) \in T
           /\ \A y \in T : Min(T) <= y
<1> DEFINE M == {n - k : k \in T}
<1>1. M \in SUBSET (0..n)
  OBVIOUS
<1>2. M # {}
  <2>1. PICK k \in T : TRUE
    OBVIOUS
  <2>2. n - k \in M
    BY <2>1
  <2> QED
    BY <2>2
<1>3. Max(M) \in M /\ \A y \in M : y <= Max(M)
  <2> HIDE DEF M
  <2> QED
    BY <1>1, <1>2, LargestOf
<1>4. PICK x \in T : Max(M) = n - x
  BY <1>3
<1>5. ASSUME NEW y \in T  PROVE x <= y
  <2>1. n - y \in M
    OBVIOUS
  <2>2. n - y <= n - x
    BY <2>1, <1>3, <1>4
  <2> QED
    BY <2>2
<1>6. Min(T) \in T /\ \A y \in T : Min(T) <= y
  BY <1>5 DEF Min
<1> QED
  BY <1>6

\* The two ends of a transcript.
LEMMA RestFacts ==
    ASSUME NEW X, NEW s \in Seq(X), NEW k \in 0..Len(s)
    PROVE  /\ Rest(s, k) \in Seq(X)
           /\ Len(Rest(s, k)) = Len(s) - k
           /\ DOMAIN Rest(s, k) = 1..(Len(s) - k)
           /\ \A i \in 1..(Len(s) - k) : Rest(s, k)[i] = s[k + i]
<1>1. Len(s) \in Nat /\ \A i \in 1..Len(s) : s[i] \in X
  BY LenProperties, ElementOfSeq
<1>2. /\ Rest(s, k) \in Seq(X)
      /\ Len(Rest(s, k)) = IF k + 1 <= Len(s) THEN Len(s) - (k + 1) + 1 ELSE 0
      /\ \A i \in 1..(Len(s) - (k + 1) + 1) : Rest(s, k)[i] = s[(k + 1) + i - 1]
  <2>1. \A i \in (k + 1)..Len(s) : s[i] \in X
    BY <1>1
  <2>2. k + 1 \in Int /\ Len(s) \in Int
    BY <1>1
  <2> QED
    BY <2>1, <2>2, SubSeqProperties DEF Rest
<1>3. Len(Rest(s, k)) = Len(s) - k
  BY <1>1, <1>2
<1>4. DOMAIN Rest(s, k) = 1..(Len(s) - k)
  BY <1>2, <1>3, LenProperties
<1>5. ASSUME NEW i \in 1..(Len(s) - k)  PROVE Rest(s, k)[i] = s[k + i]
  <2>1. i \in 1..(Len(s) - (k + 1) + 1) /\ (k + 1) + i - 1 = k + i
    BY <1>1
  <2> QED
    BY <2>1, <1>2
<1> QED
  BY <1>2, <1>3, <1>4, <1>5

LEMMA JoinFacts ==
    ASSUME NEW X, NEW s \in Seq(X), NEW t \in Seq(X)
    PROVE  /\ s \o t \in Seq(X)
           /\ Len(s) \in Nat /\ Len(t) \in Nat
           /\ Len(s \o t) = Len(s) + Len(t)
           /\ DOMAIN s = 1..Len(s) /\ DOMAIN t = 1..Len(t)
           /\ DOMAIN (s \o t) = 1..(Len(s) + Len(t))
           /\ \A i \in 1..Len(s) : (s \o t)[i] = s[i]
           /\ \A i \in 1..Len(t) : (s \o t)[Len(s) + i] = t[i]
           /\ \A i \in (Len(s) + 1)..(Len(s) + Len(t)) : (s \o t)[i] = t[i - Len(s)]
<1>1. Len(s) \in Nat /\ Len(t) \in Nat /\ DOMAIN s = 1..Len(s) /\ DOMAIN t = 1..Len(t)
  BY LenProperties
<1>2. /\ s \o t \in Seq(X)
      /\ Len(s \o t) = Len(s) + Len(t)
      /\ \A i \in 1..Len(s) + Len(t) :
             (s \o t)[i] = IF i <= Len(s) THEN s[i] ELSE t[i - Len(s)]
  BY ConcatProperties
<1>3. DOMAIN (s \o t) = 1..(Len(s) + Len(t))
  BY <1>2, LenProperties
<1>4. \A i \in 1..Len(s) : (s \o t)[i] = s[i]
  BY <1>1, <1>2
<1>5. \A i \in (Len(s) + 1)..(Len(s) + Len(t)) : (s \o t)[i] = t[i - Len(s)]
  BY <1>1, <1>2
<1>6. ASSUME NEW i \in 1..Len(t)  PROVE (s \o t)[Len(s) + i] = t[i]
  <2>1. Len(s) + i \in (Len(s) + 1)..(Len(s) + Len(t)) /\ (Len(s) + i) - Len(s) = i
    BY <1>1
  <2> QED
    BY <2>1, <1>5
<1> QED
  BY <1>1, <1>2, <1>3, <1>4, <1>5, <1>6

-----------------------------------------------------------------------------
(* Entries.                                                                  *)

Plain(e) == e.kind \notin {"calls", "result"}

LEMMA EntryFacts ==
    ASSUME NEW e \in Entries
    PROVE  /\ e.kind \in Inputs \cup {"note", "text", "calls", "result"}
           /\ e.kind = "calls"  => e.ids \in Invoked
           /\ e.kind = "result" => e.ids[1] \in CallIds /\ e = Result(e.ids[1])
           /\ Plain(e) => e.ids = <<>>
           /\ e.kind = "task" => e.run \in 1..MaxRuns
<1>1. CASE e \in {Note, Text}
  BY <1>1 DEF Note, Text, Plain, Inputs
<1>2. CASE e \in {User(i, n) : i \in Inputs, n \in 1..MaxRuns}
  BY <1>2 DEF User, Plain, Inputs
<1>3. CASE e \in {Calls(b) : b \in Invoked}
  BY <1>3 DEF Calls, Plain, Inputs
<1>4. CASE e \in {Result(c) : c \in CallIds}
  BY <1>4 DEF Result, Plain, Inputs
<1>5. \/ e \in {Note, Text}
      \/ e \in {User(i, n) : i \in Inputs, n \in 1..MaxRuns}
      \/ e \in {Calls(b) : b \in Invoked}
      \/ e \in {Result(c) : c \in CallIds}
  BY DEF Entries
<1> QED
  BY <1>1, <1>2, <1>3, <1>4, <1>5

LEMMA BatchFacts ==
    ASSUME NEW b \in Invoked
    PROVE  /\ b \in Seq(CallIds) /\ b # <<>>
           /\ DOMAIN b = 1..Len(b) /\ Len(b) \in Nat /\ Len(b) >= 1
           /\ \A i \in DOMAIN b : b[i] \in CallIds
           /\ \A i, j \in DOMAIN b : b[i] = b[j] => i = j
<1>1. b \in Seq(CallIds) /\ b # <<>>
  <2>1. b \in {<<c>> : c \in CallIds} \/ b \in {<<c, d>> : c, d \in CallIds}
    BY DEF Invoked, Batches
  <2>2. (\E c \in CallIds : b = <<c>>) \/ (\E c \in CallIds : \E d \in CallIds : b = <<c, d>>)
    BY <2>1
  <2>3. CASE \E c \in CallIds : b = <<c>>
    <3>1. PICK c \in CallIds : b = <<c>>
      BY <2>3
    <3> QED
      BY <3>1
  <2>4. CASE \E c \in CallIds : \E d \in CallIds : b = <<c, d>>
    <3>1. PICK c \in CallIds : \E d \in CallIds : b = <<c, d>>
      BY <2>4
    <3>2. PICK d \in CallIds : b = <<c, d>>
      BY <3>1
    <3> QED
      BY <3>2
  <2> QED
    BY <2>2, <2>3, <2>4
<1>2. DOMAIN b = 1..Len(b) /\ Len(b) \in Nat /\ \A i \in 1..Len(b) : b[i] \in CallIds
  BY <1>1, LenProperties, ElementOfSeq
<1>3. Len(b) >= 1
  BY <1>1, <1>2, EmptySeq
<1>4. \A i, j \in DOMAIN b : b[i] = b[j] => i = j
  BY DEF Invoked, IsInjective
<1> QED
  BY <1>1, <1>2, <1>3, <1>4

\* The results of the batch at j are right behind it.
Whole(s, j) == \A k \in DOMAIN s[j].ids :
    j + k \in DOMAIN s /\ s[j + k] = Result(s[j].ids[k])
Complete(s) == \A j \in DOMAIN s : s[j].kind = "calls" => Whole(s, j)
\* And what comes right behind them is no other result.
Chains(s) == \A j, i \in DOMAIN s :
    /\ s[j].kind = "calls" /\ j < i
    /\ \A k \in (j + 1)..i : s[k].kind = "result"
    => s[i].ids[1] \in ToSet(s[j].ids)
\* The last entries are a batch and the results of its first calls.
WorkingAt(s, at) ==
    /\ at \in DOMAIN s
    /\ s[at].kind = "calls" /\ Len(s) - at < Len(s[at].ids)
    /\ \A k \in 1..(Len(s) - at) : s[at + k] = Result(s[at].ids[k])
    /\ \A j \in 1..(at - 1) : s[j].kind = "calls" => Whole(s, j)
Working(s) == \E at \in DOMAIN s : WorkingAt(s, at)

\* Entries that are neither calls nor results may follow a complete transcript.
LEMMA PlainJoins ==
    ASSUME NEW s \in Seq(Entries), NEW t \in Seq(Entries), \A i \in DOMAIN t : Plain(t[i])
    PROVE  /\ Complete(s) => Complete(s \o t)
           /\ Chains(s) => Chains(s \o t)
<1> DEFINE u == s \o t
<1>1. /\ u \in Seq(Entries) /\ Len(s) \in Nat /\ Len(t) \in Nat /\ DOMAIN s = 1..Len(s)
      /\ DOMAIN t = 1..Len(t) /\ DOMAIN u = 1..(Len(s) + Len(t))
      /\ \A i \in 1..Len(s) : u[i] = s[i]
      /\ \A i \in (Len(s) + 1)..(Len(s) + Len(t)) : u[i] = t[i - Len(s)]
  BY JoinFacts
<1> HIDE DEF u
<1>2. ASSUME NEW i \in DOMAIN u, ~Plain(u[i])  PROVE i \in DOMAIN s /\ u[i] = s[i]
  <2>1. CASE i \in 1..Len(s)
    BY <2>1, <1>1
  <2>2. CASE i \notin 1..Len(s)
    <3>1. i \in (Len(s) + 1)..(Len(s) + Len(t)) /\ i - Len(s) \in 1..Len(t)
      BY <2>2, <1>1
    <3> QED
      BY <3>1, <1>1, <1>2
  <2> QED
    BY <2>1, <2>2
<1>3. ASSUME Complete(s)  PROVE Complete(u)
  <2> SUFFICES ASSUME NEW j \in DOMAIN u, u[j].kind = "calls", NEW k \in DOMAIN u[j].ids
               PROVE  j + k \in DOMAIN u /\ u[j + k] = Result(u[j].ids[k])
    BY DEF Complete, Whole
  <2>1. j \in DOMAIN s /\ u[j] = s[j]
    BY <1>2 DEF Plain
  <2>2. j + k \in DOMAIN s /\ s[j + k] = Result(s[j].ids[k])
    BY <1>3, <2>1 DEF Complete, Whole
  <2> QED
    BY <1>1, <2>1, <2>2
<1>4. ASSUME Chains(s)  PROVE Chains(u)
  <2> SUFFICES ASSUME NEW j \in DOMAIN u, NEW i \in DOMAIN u, u[j].kind = "calls", j < i,
                      \A k \in (j + 1)..i : u[k].kind = "result"
               PROVE  u[i].ids[1] \in ToSet(u[j].ids)
    BY DEF Chains
  <2>1. i \in (j + 1)..i
    BY <1>1
  <2>2. j \in DOMAIN s /\ u[j] = s[j] /\ i \in DOMAIN s /\ u[i] = s[i]
    BY <1>2, <2>1 DEF Plain
  <2>3. \A k \in (j + 1)..i : s[k].kind = "result"
    BY <1>1, <2>2
  <2> QED
    BY <1>4, <2>2, <2>3 DEF Chains
<1> QED
  BY <1>3, <1>4 DEF u

\* What is left of a complete transcript behind a cut is complete.
LEMMA RestIsSound ==
    ASSUME NEW s \in Seq(Entries), NEW n \in 0..Len(s)
    PROVE  /\ Complete(s) => Complete(Rest(s, n))
           /\ Chains(s) => Chains(Rest(s, n))
<1> DEFINE u == Rest(s, n)
<1>1. /\ u \in Seq(Entries) /\ Len(s) \in Nat /\ DOMAIN s = 1..Len(s)
      /\ DOMAIN u = 1..(Len(s) - n) /\ \A i \in 1..(Len(s) - n) : u[i] = s[n + i]
  BY RestFacts, LenProperties
<1> HIDE DEF u
<1>2. ASSUME Complete(s)  PROVE Complete(u)
  <2> SUFFICES ASSUME NEW j \in DOMAIN u, u[j].kind = "calls", NEW k \in DOMAIN u[j].ids
               PROVE  j + k \in DOMAIN u /\ u[j + k] = Result(u[j].ids[k])
    BY DEF Complete, Whole
  <2>1. u[j] = s[n + j] /\ n + j \in DOMAIN s /\ j \in 1..(Len(s) - n)
    BY <1>1
  <2>2. (n + j) + k \in DOMAIN s /\ s[(n + j) + k] = Result(s[n + j].ids[k])
    BY <1>2, <2>1 DEF Complete, Whole
  <2>3. u[j].ids \in Invoked
    BY <1>1, EntryFacts, ElementOfSeq, LenProperties
  <2>4. k \in Nat \ {0}
    BY <2>3, BatchFacts
  <2>5. j + k \in 1..(Len(s) - n) /\ (n + j) + k = n + (j + k)
    BY <1>1, <2>1, <2>2, <2>4
  <2> QED
    BY <1>1, <2>1, <2>2, <2>5
<1>3. ASSUME Chains(s)  PROVE Chains(u)
  <2> SUFFICES ASSUME NEW j \in DOMAIN u, NEW i \in DOMAIN u, u[j].kind = "calls", j < i,
                      \A k \in (j + 1)..i : u[k].kind = "result"
               PROVE  u[i].ids[1] \in ToSet(u[j].ids)
    BY DEF Chains
  <2>1. u[j] = s[n + j] /\ u[i] = s[n + i]
    BY <1>1
  <2>2. n + j \in DOMAIN s /\ n + i \in DOMAIN s /\ n + j < n + i
    BY <1>1
  <2>3. ASSUME NEW k \in (n + j + 1)..(n + i)  PROVE s[k].kind = "result"
    <3>1. k - n \in (j + 1)..i /\ k - n \in 1..(Len(s) - n) /\ n + (k - n) = k
      BY <1>1
    <3> QED
      BY <3>1, <1>1
  <2> QED
    BY <1>3, <2>1, <2>2, <2>3 DEF Chains
<1> QED
  BY <1>2, <1>3 DEF u

\* A complete transcript may follow entries that are neither calls nor results.
LEMMA SoundFollows ==
    ASSUME NEW p \in Seq(Entries), NEW s \in Seq(Entries), \A i \in DOMAIN p : Plain(p[i])
    PROVE  /\ Complete(s) => Complete(p \o s)
           /\ Chains(s) => Chains(p \o s)
<1> DEFINE u == p \o s
           n == Len(p)
<1>1. /\ u \in Seq(Entries) /\ n \in Nat /\ Len(s) \in Nat /\ DOMAIN s = 1..Len(s)
      /\ DOMAIN p = 1..n /\ DOMAIN u = 1..(n + Len(s))
      /\ \A i \in 1..n : u[i] = p[i]
      /\ \A i \in 1..Len(s) : u[n + i] = s[i]
  BY JoinFacts
<1> HIDE DEF u, n
<1>2. ASSUME NEW i \in DOMAIN u, ~Plain(u[i])
      PROVE  i - n \in DOMAIN s /\ u[i] = s[i - n] /\ n + (i - n) = i
  <2>1. CASE i \in 1..n
    BY <2>1, <1>1, <1>2
  <2>2. CASE i \notin 1..n
    <3>1. i - n \in 1..Len(s) /\ n + (i - n) = i
      BY <2>2, <1>1
    <3>2. u[n + (i - n)] = s[i - n]
      BY <3>1, <1>1
    <3> QED
      BY <3>1, <3>2, <1>1
  <2> QED
    BY <2>1, <2>2
<1>3. ASSUME Complete(s)  PROVE Complete(u)
  <2> SUFFICES ASSUME NEW j \in DOMAIN u, u[j].kind = "calls", NEW k \in DOMAIN u[j].ids
               PROVE  j + k \in DOMAIN u /\ u[j + k] = Result(u[j].ids[k])
    BY DEF Complete, Whole
  <2>1. j - n \in DOMAIN s /\ u[j] = s[j - n] /\ j \in Int
    BY <1>1, <1>2 DEF Plain
  <2>2. (j - n) + k \in DOMAIN s /\ s[(j - n) + k] = Result(s[j - n].ids[k])
    BY <1>3, <2>1 DEF Complete, Whole
  <2>3. u[j].ids \in Invoked
    BY <1>1, EntryFacts, ElementOfSeq, LenProperties
  <2>4. k \in Nat \ {0}
    BY <2>3, BatchFacts
  <2>5. n + ((j - n) + k) = j + k /\ j + k \in DOMAIN u
    BY <1>1, <2>1, <2>2, <2>4
  <2>6. u[n + ((j - n) + k)] = s[(j - n) + k]
    BY <1>1, <2>2
  <2> QED
    BY <2>1, <2>2, <2>5, <2>6
<1>4. ASSUME Chains(s)  PROVE Chains(u)
  <2> SUFFICES ASSUME NEW j \in DOMAIN u, NEW i \in DOMAIN u, u[j].kind = "calls", j < i,
                      \A k \in (j + 1)..i : u[k].kind = "result"
               PROVE  u[i].ids[1] \in ToSet(u[j].ids)
    BY DEF Chains
  <2>1. i \in (j + 1)..i
    BY <1>1
  <2>2. /\ j - n \in DOMAIN s /\ u[j] = s[j - n] /\ i - n \in DOMAIN s /\ u[i] = s[i - n]
        /\ j - n < i - n
    BY <1>1, <1>2, <2>1 DEF Plain
  <2>3. ASSUME NEW k \in (j - n + 1)..(i - n)  PROVE s[k].kind = "result"
    <3>1. n + k \in (j + 1)..i /\ k \in 1..Len(s)
      BY <1>1, <2>2, SMTT(30)
    <3> QED
      BY <3>1, <1>1
  <2> QED
    BY <1>4, <2>2, <2>3 DEF Chains
<1> QED
  BY <1>3, <1>4 DEF u

-----------------------------------------------------------------------------
(* Calls and results.                                                        *)

LEMMA CalledFacts ==
    ASSUME NEW t, NEW c
    PROVE  c \in CalledIn(t) <=>
             \E i \in DOMAIN t : t[i].kind = "calls" /\ c \in ToSet(t[i].ids)
BY DEF CalledIn, Ids, ToSet

LEMMA AnsweredFacts ==
    ASSUME NEW t, NEW c
    PROVE  c \in AnsweredIn(t) <=>
             \E i \in DOMAIN t : t[i].kind = "result" /\ c \in ToSet(t[i].ids)
BY DEF AnsweredIn, Ids, ToSet

LEMMA ResultFacts ==
    ASSUME NEW c
    PROVE  /\ Result(c).kind = "result" /\ Result(c).ids[1] = c
           /\ ToSet(Result(c).ids) = {c}
           /\ c \in CallIds => Result(c) \in Entries
<1>1. Result(c).kind = "result" /\ Result(c).ids = <<c>>
  BY DEF Result
<1>2. ToSet(<<c>>) = {c}
  BY DEF ToSet
<1> QED
  BY <1>1, <1>2 DEF Entries

LEMMA LastBatch ==
    ASSUME NEW s \in Seq(Entries), NEW at \in DOMAIN s, s[at].kind = "calls",
           \A j \in DOMAIN s : j > at => s[j].kind # "calls"
    PROVE  Max(Calling(s)) = at /\ Batch(s) = s[at].ids
<1>1. Len(s) \in Nat /\ DOMAIN s = 1..Len(s)
  BY LenProperties
<1>2. Calling(s) \in SUBSET (0..Len(s)) /\ at \in Calling(s)
  BY <1>1 DEF Calling
<1>3. Max(Calling(s)) \in Calling(s) /\ \A y \in Calling(s) : y <= Max(Calling(s))
  BY <1>1, <1>2, LargestOf
<1>4. Max(Calling(s)) = at
  <2>1. Max(Calling(s)) \in DOMAIN s /\ s[Max(Calling(s))].kind = "calls"
    BY <1>1, <1>3 DEF Calling
  <2>2. at <= Max(Calling(s)) /\ ~(Max(Calling(s)) > at)
    BY <1>2, <1>3, <2>1
  <2> QED
    BY <1>1, <2>1, <2>2
<1>5. Calling(s) # {}
  BY <1>2
<1> QED
  BY <1>4, <1>5 DEF Batch

\* latest_unanswered_tool_call_id finds nothing in a complete transcript.
LEMMA CompleteIsAnswered ==
    ASSUME NEW s \in Seq(Entries), Complete(s)
    PROVE  Unanswered(s) = {}
<1>1. Len(s) \in Nat /\ DOMAIN s = 1..Len(s)
  BY LenProperties
<1>2. CASE Calling(s) = {}
  <2>1. Batch(s) = <<>>
    BY <1>2 DEF Batch
  <2>2. DOMAIN Batch(s) = {}
    BY <2>1
  <2> QED
    BY <2>2 DEF Unanswered
<1>3. CASE Calling(s) # {}
  <2> DEFINE at == Max(Calling(s))
  <2>1. Calling(s) \in SUBSET (0..Len(s))
    BY <1>1 DEF Calling
  <2>2. at \in Calling(s)
    BY <1>1, <1>3, <2>1, LargestOf
  <2>3. at \in 1..Len(s) /\ s[at].kind = "calls" /\ Batch(s) = s[at].ids
    BY <2>2, <1>3 DEF Calling, Batch
  <2>4. ASSUME NEW k \in DOMAIN Batch(s)  PROVE Batch(s)[k] \in AnsweredIn(Rest(s, at))
    <3>1. at + k \in DOMAIN s /\ s[at + k] = Result(Batch(s)[k])
      BY <1>1, <2>3, <2>4 DEF Complete, Whole
    <3>2. k \in Nat \ {0}
      <4>1. Batch(s) \in Invoked
        BY <1>1, <2>3, EntryFacts, ElementOfSeq
      <4> QED
        BY <4>1, <2>4, BatchFacts
    <3>3. k \in 1..(Len(s) - at)
      BY <1>1, <2>3, <3>1, <3>2
    <3>4. k \in DOMAIN Rest(s, at) /\ Rest(s, at)[k] = s[at + k]
      <4>1. at \in 0..Len(s)
        BY <1>1, <2>3
      <4> HIDE DEF at
      <4>2. /\ DOMAIN Rest(s, at) = 1..(Len(s) - at)
            /\ \A i \in 1..(Len(s) - at) : Rest(s, at)[i] = s[at + i]
        BY <4>1, RestFacts
      <4> QED
        BY <3>3, <4>2
    <3>5. Rest(s, at)[k].kind = "result" /\ Batch(s)[k] \in ToSet(Rest(s, at)[k].ids)
      BY <3>1, <3>4, ResultFacts
    <3> QED
      BY <3>4, <3>5, AnsweredFacts
  <2> QED
    BY <2>4 DEF Unanswered
<1> QED
  BY <1>2, <1>3

\* While a batch is at work, what is missing are its calls from some position on.
LEMMA WorkingFacts ==
    ASSUME NEW s \in Seq(Entries), NEW at, WorkingAt(s, at)
    PROVE  /\ Len(s) \in Nat /\ DOMAIN s = 1..Len(s) /\ at \in 1..Len(s)
           /\ s[at].ids \in Invoked /\ Batch(s) = s[at].ids
           /\ Unanswered(s) # {}
           /\ Min(Unanswered(s)) = Len(s) - at + 1
<1> DEFINE b == s[at].ids
           d == Len(s) - at
<1>1. Len(s) \in Nat /\ DOMAIN s = 1..Len(s) /\ at \in 1..Len(s)
  BY LenProperties DEF WorkingAt
<1>2. b \in Invoked
  BY <1>1, EntryFacts, ElementOfSeq DEF WorkingAt
<1>3. /\ DOMAIN b = 1..Len(b) /\ Len(b) \in Nat /\ d < Len(b)
      /\ \A i, j \in DOMAIN b : b[i] = b[j] => i = j
  BY <1>2, BatchFacts DEF WorkingAt
<1>4. d \in Nat /\ \A k \in 1..d : s[at + k] = Result(b[k])
  BY <1>1 DEF WorkingAt
<1>5. \A j \in DOMAIN s : j > at => s[j] = Result(b[j - at]) /\ j - at \in 1..d
  <2> SUFFICES ASSUME NEW j \in DOMAIN s, j > at
               PROVE  s[j] = Result(b[j - at]) /\ j - at \in 1..d
    OBVIOUS
  <2>1. j - at \in 1..d /\ at + (j - at) = j
    BY <1>1
  <2> QED
    BY <2>1, <1>4
<1>6. \A j \in DOMAIN s : j > at => s[j].kind # "calls"
  BY <1>5, ResultFacts
<1>7. Max(Calling(s)) = at /\ Batch(s) = b
  BY <1>1, <1>6, LastBatch DEF WorkingAt
<1>r. /\ DOMAIN Rest(s, at) = 1..d
      /\ \A i \in 1..d : Rest(s, at)[i] = s[at + i]
  <2>1. at \in 0..Len(s)
    BY <1>1
  <2> QED
    BY <2>1, RestFacts
<1>8. ASSUME NEW k \in 1..d  PROVE b[k] \in AnsweredIn(Rest(s, at))
  <2>1. k \in DOMAIN Rest(s, at) /\ Rest(s, at)[k] = Result(b[k])
    BY <1>4, <1>r
  <2> HIDE DEF b, d
  <2>2. Rest(s, at)[k].kind = "result" /\ b[k] \in ToSet(Rest(s, at)[k].ids)
    BY <2>1, ResultFacts
  <2> QED
    BY <2>1, <2>2, AnsweredFacts
<1>9. b[d + 1] \notin AnsweredIn(Rest(s, at)) /\ d + 1 \in DOMAIN b
  <2>1. d + 1 \in DOMAIN b
    BY <1>3, <1>4
  <2>2. ASSUME NEW i \in DOMAIN Rest(s, at), b[d + 1] \in ToSet(Rest(s, at)[i].ids)
        PROVE  FALSE
    <3>1. i \in 1..d /\ Rest(s, at)[i] = Result(b[i])
      BY <1>4, <1>r
    <3>2. i \in DOMAIN b
      BY <3>1, <1>3, <1>4
    <3>3. b[d + 1] = b[i]
      <4> HIDE DEF b, d
      <4> QED
        BY <3>1, <2>2, ResultFacts
    <3> QED
      BY <3>1, <3>2, <3>3, <2>1, <1>3, <1>4, SMTT(30)
  <2> QED
    BY <2>1, <2>2, AnsweredFacts
<1> HIDE DEF b, d
<1>10. Unanswered(s) \in SUBSET (0..Len(b)) /\ d + 1 \in Unanswered(s)
  BY <1>3, <1>7, <1>9 DEF Unanswered
<1>11. Min(Unanswered(s)) \in Unanswered(s) /\ \A y \in Unanswered(s) : Min(Unanswered(s)) <= y
  BY <1>3, <1>10, LeastOf
<1>12. \A y \in Unanswered(s) : y \notin 1..d /\ y \in 1..Len(b)
  BY <1>3, <1>7, <1>8 DEF Unanswered
<1>13. Min(Unanswered(s)) = d + 1
  BY <1>3, <1>4, <1>10, <1>11, <1>12
<1> QED
  BY <1>1, <1>2, <1>7, <1>10, <1>13 DEF b, d

\* The results of the next n calls of a batch at work.
LEMMA ResultsJoin ==
    ASSUME NEW s \in Seq(Entries), NEW at, WorkingAt(s, at), Chains(s),
           NEW n \in 1..(Len(s[at].ids) - (Len(s) - at)), NEW t, DOMAIN t = 1..n,
           t \in Seq(Entries), \A i \in 1..n : t[i] = Result(s[at].ids[(Len(s) - at) + i])
    PROVE  /\ s \o t \in Seq(Entries) /\ Chains(s \o t)
           /\ IF n = Len(s[at].ids) - (Len(s) - at) THEN Complete(s \o t)
              ELSE WorkingAt(s \o t, at)
<1> DEFINE u == s \o t
           b == s[at].ids
           d == Len(s) - at
<1>1. Len(s) \in Nat /\ DOMAIN s = 1..Len(s) /\ at \in 1..Len(s) /\ b \in Invoked
  BY WorkingFacts
<1>2. /\ DOMAIN b = 1..Len(b) /\ Len(b) \in Nat /\ d < Len(b) /\ d \in Nat
  BY <1>1, BatchFacts DEF WorkingAt
<1>3. Len(t) = n
  BY <1>2, LenProperties
<1>4. /\ u \in Seq(Entries) /\ DOMAIN u = 1..(Len(s) + n) /\ Len(u) = Len(s) + n
      /\ \A i \in 1..Len(s) : u[i] = s[i]
      /\ \A i \in 1..n : u[Len(s) + i] = t[i]
  <2>1. /\ u \in Seq(Entries) /\ DOMAIN u = 1..(Len(s) + Len(t)) /\ Len(u) = Len(s) + Len(t)
        /\ \A i \in 1..Len(s) : u[i] = s[i]
        /\ \A i \in 1..Len(t) : u[Len(s) + i] = t[i]
    BY JoinFacts
  <2> QED
    BY <1>3, <2>1
<1>5. \A k \in 1..d : s[at + k] = Result(b[k])
  BY DEF WorkingAt
<1>6. \A i \in 1..n : t[i] = Result(b[d + i])
  OBVIOUS
<1>7. \A j \in 1..(at - 1) : s[j].kind = "calls" => Whole(s, j)
  BY DEF WorkingAt
<1>8. s[at].kind = "calls" /\ n \in 1..(Len(b) - d) /\ at + d = Len(s)
  BY <1>1 DEF WorkingAt
<1> HIDE DEF u, b, d
<1>9. ASSUME NEW k \in 1..(d + n)  PROVE u[at + k] = Result(b[k]) /\ at + k \in DOMAIN u
  <2>1. CASE k <= d
    <3>1. k \in 1..d
      BY <1>2, <1>9, <2>1
    <3>2. at + k \in 1..Len(s) /\ at + k \in 1..(Len(s) + n)
      BY <1>1, <1>2, <1>8, <3>1
    <3>3. u[at + k] = s[at + k]
      BY <3>2, <1>4
    <3> QED
      BY <3>1, <3>2, <3>3, <1>4, <1>5
  <2>2. CASE k > d
    <3>1. k - d \in 1..n /\ at + k = Len(s) + (k - d) /\ d + (k - d) = k
      BY <1>1, <1>2, <1>8, <1>9, <2>2, SMTT(30)
    <3>2. u[Len(s) + (k - d)] = t[k - d] /\ t[k - d] = Result(b[d + (k - d)])
      BY <3>1, <1>4, <1>6
    <3>3. n \in Nat /\ Len(s) + (k - d) \in 1..(Len(s) + n)
      BY <1>1, <1>2, <1>8, <3>1
    <3>4. at + k \in DOMAIN u
      BY <1>4, <3>1, <3>3
    <3> QED
      BY <3>1, <3>2, <3>4
  <2>3. k <= d \/ k > d
    BY <1>2, <1>8, <1>9
  <2> QED
    BY <2>1, <2>2, <2>3
<1>10. u[at] = s[at] /\ u[at].ids = b /\ u[at].kind = "calls" /\ at \in DOMAIN u
  BY <1>1, <1>4, <1>8 DEF b
<1>11. \A j \in DOMAIN u : j > at =>
           u[j].kind = "result" /\ u[j] = Result(b[j - at]) /\ j - at \in 1..(d + n)
  <2> SUFFICES ASSUME NEW j \in DOMAIN u, j > at
               PROVE  u[j] = Result(b[j - at]) /\ j - at \in 1..(d + n)
    BY ResultFacts
  <2>1. j \in Nat /\ n \in Nat /\ j <= Len(s) + n
    BY <1>1, <1>2, <1>4, <1>8
  <2>2. j - at \in 1..(d + n) /\ at + (j - at) = j
    BY <1>1, <1>2, <1>8, <2>1
  <2> QED
    BY <2>2, <1>9
<1>12. ASSUME NEW j \in 1..(at - 1), u[j].kind = "calls"  PROVE Whole(u, j)
  <2>1. j \in DOMAIN s /\ u[j] = s[j]
    BY <1>1, <1>4
  <2>2. Whole(s, j)
    BY <1>7, <1>12, <2>1
  <2> QED
    BY <1>1, <1>4, <2>1, <2>2 DEF Whole
<1>13. Chains(u)
  <2> SUFFICES ASSUME NEW j \in DOMAIN u, NEW i \in DOMAIN u, u[j].kind = "calls", j < i,
                      \A k \in (j + 1)..i : u[k].kind = "result"
               PROVE  u[i].ids[1] \in ToSet(u[j].ids)
    BY DEF Chains
  <2>1. CASE i \in 1..Len(s)
    <3>1. j \in DOMAIN s /\ i \in DOMAIN s /\ u[j] = s[j] /\ u[i] = s[i]
      BY <2>1, <1>1, <1>4
    <3>2. \A k \in (j + 1)..i : s[k].kind = "result"
      BY <1>1, <1>4, <3>1, SMTT(30)
    <3> QED
      BY <3>1, <3>2 DEF Chains
  <2>2. CASE i \notin 1..Len(s)
    <3>1. i > at /\ at <= i
      BY <2>2, <1>1, <1>4
    <3>2. ~(j < at)
      <4>1. j < at => at \in (j + 1)..i
        BY <1>1, <1>4, <3>1
      <4> QED
        BY <4>1, <1>10
    <3>3. ~(j > at)
      BY <1>11
    <3>4. j = at
      BY <1>1, <1>4, <3>2, <3>3
    <3>5. u[i] = Result(b[i - at]) /\ i - at \in 1..(d + n)
      BY <1>11, <3>1
    <3>6. i - at \in DOMAIN b
      BY <1>2, <1>8, <3>5
    <3> QED
      BY <3>4, <3>5, <3>6, <1>10, ResultFacts DEF ToSet
  <2> QED
    BY <2>1, <2>2
<1>14. CASE n = Len(b) - d
  <2>1. d + n = Len(b)
    BY <1>2, <1>14
  <2>2. Whole(u, at)
    BY <1>2, <1>9, <1>10, <2>1 DEF Whole
  <2>3. ASSUME NEW j \in DOMAIN u, u[j].kind = "calls"  PROVE Whole(u, j)
    <3>1. ~(j > at)
      BY <1>11, <2>3
    <3>2. j = at \/ j \in 1..(at - 1)
      BY <1>1, <1>4, <3>1
    <3> QED
      BY <3>2, <2>2, <2>3, <1>12
  <2> QED
    BY <1>4, <1>13, <1>14, <2>3 DEF Complete, u, b, d
<1>15. CASE n # Len(b) - d
  <2>0. d \in Nat /\ Len(b) \in Nat /\ n \in Nat /\ n <= Len(b) - d
    BY <1>2, <1>8
  <2>1. d + n < Len(b)
    BY <2>0, <1>15
  <2>4. at \in Nat /\ Len(s) \in Nat /\ at + d = Len(s) /\ Len(u) = Len(s) + n
    BY <1>1, <1>4, <1>8
  <2>5. Len(u) = (at + d) + n
    BY <2>4
  <2>6. ((at + d) + n) - at = d + n
    BY <2>0, <2>4
  <2>3. Len(u) - at = d + n
    BY <2>5, <2>6
  <2>2. WorkingAt(u, at)
    BY <1>9, <1>10, <1>12, <2>1, <2>3 DEF WorkingAt
  <2> QED
    BY <1>4, <1>13, <1>15, <2>2 DEF u, b, d
<1> QED
  BY <1>14, <1>15

-----------------------------------------------------------------------------
(* Compaction.                                                               *)

\* protocol_safe_keep_from ends within the transcript, and leaves nothing behind.
LEMMA KeepFromFacts ==
    ASSUME NEW s \in Seq(Entries), Len(s) > KeepTail
    PROVE  KeepFrom(s) \in 0..Len(s) /\ Orphans(s, KeepFrom(s)) = {}
<1> DEFINE n == Len(s) - KeepTail
           T == {k \in 0..n : Orphans(s, k) = {}}
<1>1. Len(s) \in Nat /\ KeepTail \in Nat /\ n \in Nat /\ n <= Len(s)
  BY LenProperties, TranscriptBoundAssumption DEF TranscriptBoundAssumption
<1>2. Orphans(s, 0) = {}
  <2>1. Upto(s, 0) = <<>>
    BY SubSeqEmpty DEF Upto
  <2>2. DOMAIN Upto(s, 0) = {}
    BY <2>1
  <2>3. \A c : c \notin CalledIn(Upto(s, 0))
    BY <2>2, CalledFacts
  <2> QED
    BY <2>3 DEF Orphans
<1>3. T \in SUBSET (0..n) /\ 0 \in T
  BY <1>1, <1>2
<1>4. KeepFrom(s) = Max(T)
  BY DEF KeepFrom
<1>5. Max(T) \in T
  <2> HIDE DEF T, n
  <2> QED
    BY <1>1, <1>3, LargestOf
<1>6. KeepFrom(s) \in 0..n /\ Orphans(s, KeepFrom(s)) = {}
  BY <1>4, <1>5
<1> HIDE DEF n
<1> QED
  BY <1>1, <1>6

\* preserved_current_user_entry_before: the last task before the cut, if there is one.
LEMMA AnchorFacts ==
    ASSUME NEW s \in Seq(Entries), NEW k \in 0..Len(s)
    PROVE  /\ Anchor(s, k) \in Seq(Entries)
           /\ \A i \in DOMAIN Anchor(s, k) : Anchor(s, k)[i].kind \in Inputs
           /\ \A i \in 1..k :
                (s[i].kind = "task" /\ \A j \in (i + 1)..k : s[j].kind # "task")
                  => Anchor(s, k) = <<s[i]>>
<1>1. /\ Len(s) \in Nat /\ k \in Nat /\ \A i \in 1..k : s[i] \in Entries
      /\ TasksBefore(s, k) \in SUBSET (0..k) /\ UsersBefore(s, k) \in SUBSET (0..k)
  BY LenProperties, ElementOfSeq DEF TasksBefore, UsersBefore
<1>2. CASE TasksBefore(s, k) # {}
  <2> DEFINE m == Max(TasksBefore(s, k))
  <2>1. m \in TasksBefore(s, k) /\ \A y \in TasksBefore(s, k) : y <= m
    BY <1>1, <1>2, LargestOf
  <2>2. Anchor(s, k) = <<s[m]>> /\ m \in 1..k /\ s[m].kind = "task"
    BY <1>2, <2>1 DEF Anchor, TasksBefore
  <2> HIDE DEF m
  <2>3. s[m] \in Entries /\ s[m].kind \in Inputs
    BY <1>1, <2>2 DEF Inputs
  <2>4. Anchor(s, k) \in Seq(Entries) /\ DOMAIN Anchor(s, k) = {1} /\ Anchor(s, k)[1] = s[m]
    BY <2>2, <2>3
  <2>5. ASSUME NEW i \in 1..k, s[i].kind = "task", \A j \in (i + 1)..k : s[j].kind # "task"
        PROVE  i = m
    <3>1. i <= m
      BY <2>1, <2>5 DEF TasksBefore
    <3>2. ~(i < m)
      BY <2>2, <2>5
    <3> QED
      BY <2>2, <3>1, <3>2
  <2> QED
    BY <2>2, <2>3, <2>4, <2>5
<1>3. CASE TasksBefore(s, k) = {} /\ UsersBefore(s, k) # {}
  <2> DEFINE m == Max(UsersBefore(s, k))
  <2>1. m \in UsersBefore(s, k)
    BY <1>1, <1>3, LargestOf
  <2>2. Anchor(s, k) = <<s[m]>> /\ m \in 1..k /\ s[m].kind \in Inputs
    BY <1>3, <2>1 DEF Anchor, UsersBefore
  <2> HIDE DEF m
  <2>3. s[m] \in Entries
    BY <1>1, <2>2
  <2>4. Anchor(s, k) \in Seq(Entries) /\ DOMAIN Anchor(s, k) = {1} /\ Anchor(s, k)[1] = s[m]
    BY <2>2, <2>3
  <2>5. \A i \in 1..k : s[i].kind # "task"
    BY <1>3 DEF TasksBefore
  <2> QED
    BY <2>2, <2>4, <2>5
<1>4. CASE TasksBefore(s, k) = {} /\ UsersBefore(s, k) = {}
  <2>1. Anchor(s, k) = <<>>
    BY <1>4 DEF Anchor
  <2>2. Anchor(s, k) \in Seq(Entries) /\ DOMAIN Anchor(s, k) = {}
    BY <2>1
  <2>3. \A i \in 1..k : s[i].kind # "task"
    BY <1>4 DEF TasksBefore
  <2> QED
    BY <2>2, <2>3
<1> QED
  BY <1>2, <1>3, <1>4

\* A compacted transcript is a few plain entries, the last one a note, and the rest.
LEMMA CompactedFacts ==
    ASSUME NEW s \in Seq(Entries), Len(s) > KeepTail
    PROVE  \E p \in Seq(Entries) :
             /\ Compacted(s) = p \o Rest(s, KeepFrom(s))
             /\ Len(p) \in Nat \ {0} /\ DOMAIN p = 1..Len(p) /\ p[Len(p)] = Note
             /\ \A i \in DOMAIN p : Plain(p[i])
             /\ \A i \in 1..KeepFrom(s) :
                  (s[i].kind = "task" /\ \A j \in (i + 1)..KeepFrom(s) : s[j].kind # "task")
                    => p[1] = s[i] /\ \A j \in 2..Len(p) : p[j].kind # "task"
<1> DEFINE k == KeepFrom(s)
           a == Anchor(s, k)
           t == <<Note>>
           p == a \o t
<1>1. k \in 0..Len(s)
  BY KeepFromFacts
<1>2. Compacted(s) = p \o Rest(s, k)
  BY DEF Compacted
<1>3. t \in Seq(Entries) /\ Len(t) = 1 /\ t[1] = Note /\ Note.kind = "note"
  BY DEF Entries, Note
<1> HIDE DEF k, t
<1>4. /\ a \in Seq(Entries) /\ \A i \in DOMAIN a : a[i].kind \in Inputs
      /\ \A i \in 1..k :
           (s[i].kind = "task" /\ \A j \in (i + 1)..k : s[j].kind # "task") => a = <<s[i]>>
  BY <1>1, AnchorFacts
<1> HIDE DEF a
<1>5. /\ p \in Seq(Entries) /\ Len(a) \in Nat /\ Len(p) = Len(a) + 1 /\ DOMAIN a = 1..Len(a)
      /\ DOMAIN p = 1..(Len(a) + 1)
      /\ \A i \in 1..Len(a) : p[i] = a[i]
      /\ p[Len(a) + 1] = Note
  <2>1. /\ p \in Seq(Entries) /\ Len(a) \in Nat /\ Len(p) = Len(a) + Len(t)
        /\ DOMAIN a = 1..Len(a) /\ DOMAIN p = 1..(Len(a) + Len(t))
        /\ \A i \in 1..Len(a) : p[i] = a[i]
        /\ \A i \in 1..Len(t) : p[Len(a) + i] = t[i]
    BY <1>3, <1>4, JoinFacts
  <2> QED
    BY <1>3, <2>1
<1> HIDE DEF p
<1>6. ASSUME NEW i \in DOMAIN p  PROVE Plain(p[i])
  <2>1. i \in 1..Len(a) \/ i = Len(a) + 1
    BY <1>5
  <2> QED
    BY <2>1, <1>3, <1>4, <1>5 DEF Plain, Inputs
<1>7. ASSUME NEW i \in 1..k, s[i].kind = "task", \A j \in (i + 1)..k : s[j].kind # "task"
      PROVE  p[1] = s[i] /\ \A j \in 2..Len(p) : p[j].kind # "task"
  <2>1. a = <<s[i]>>
    BY <1>4, <1>7
  <2>2. Len(a) = 1 /\ a[1] = s[i]
    BY <2>1
  <2>3. p[1] = s[i] /\ p[2] = Note /\ Len(p) = 2
    BY <1>5, <2>2
  <2>4. \A j \in 2..Len(p) : j = 2
    BY <2>3
  <2> QED
    BY <1>3, <2>3, <2>4
<1>8. Len(p) \in Nat \ {0} /\ DOMAIN p = 1..Len(p) /\ p[Len(p)] = Note
  BY <1>5
<1> QED
  BY <1>2, <1>5, <1>6, <1>7, <1>8 DEF k

LEMMA CompactedIsSound ==
    ASSUME NEW s \in Seq(Entries), Len(s) > KeepTail
    PROVE  /\ Compacted(s) \in Seq(Entries)
           /\ Complete(s) => Complete(Compacted(s))
           /\ Chains(s) => Chains(Compacted(s))
<1> DEFINE r == Rest(s, KeepFrom(s))
<1>1. KeepFrom(s) \in 0..Len(s)
  BY KeepFromFacts
<1>2. r \in Seq(Entries) /\ (Complete(s) => Complete(r)) /\ (Chains(s) => Chains(r))
  BY <1>1, RestFacts, RestIsSound
<1>3. PICK p \in Seq(Entries) : Compacted(s) = p \o r /\ \A i \in DOMAIN p : Plain(p[i])
  BY CompactedFacts
<1> HIDE DEF r
<1>4. p \o r \in Seq(Entries)
  BY <1>2, JoinFacts
<1> QED
  BY <1>2, <1>3, <1>4, SoundFollows

\* A run of results behind a batch goes back to that batch.
LEMMA ChainStart ==
    ASSUME NEW s \in Seq(Entries), Attached(s), NEW i \in DOMAIN s, s[i].kind = "result"
    PROVE  \E j \in 1..(i - 1) : /\ s[j].kind = "calls"
                                 /\ \A k \in (j + 1)..i : s[k].kind = "result"
<1> DEFINE T == {j \in 0..i : \A k \in (j + 1)..i : s[k].kind = "result"}
           j == Min(T)
<1>1. Len(s) \in Nat /\ DOMAIN s = 1..Len(s) /\ i \in 1..Len(s)
  BY LenProperties
<1>2. T \in SUBSET (0..i) /\ i - 1 \in T
  <2>1. \A k \in ((i - 1) + 1)..i : k = i
    BY <1>1
  <2>2. i - 1 \in 0..i
    BY <1>1
  <2> QED
    BY <2>1, <2>2
<1>3. j \in T /\ \A y \in T : j <= y
  <2>1. i \in Nat /\ T # {}
    BY <1>1, <1>2
  <2> HIDE DEF T
  <2> QED
    BY <1>2, <2>1, LeastOf
<1>4. j \in 0..(i - 1) /\ \A k \in (j + 1)..i : s[k].kind = "result"
  BY <1>1, <1>2, <1>3
<1>5. j - 1 \notin T
  <2> HIDE DEF T
  <2> QED
    BY <1>1, <1>3, <1>4
<1> HIDE DEF j
<1>6. j + 1 \in DOMAIN s /\ s[j + 1].kind = "result"
  BY <1>1, <1>4
<1>7. j + 1 > 1 /\ s[(j + 1) - 1].kind \in {"calls", "result"}
  BY <1>6 DEF Attached
<1>8. j \in 1..(i - 1) /\ s[j].kind \in {"calls", "result"}
  <2>1. (j + 1) - 1 = j
    BY <1>1, <1>4
  <2> QED
    BY <1>1, <1>4, <1>7, <2>1
<1>9. s[j].kind # "result"
  <2>1. SUFFICES ASSUME s[j].kind = "result"  PROVE j - 1 \in T
    BY <1>5
  <2>2. j - 1 \in 0..i
    BY <1>1, <1>8
  <2>3. ASSUME NEW k \in ((j - 1) + 1)..i  PROVE s[k].kind = "result"
    <3>1. k = j \/ k \in (j + 1)..i
      BY <1>1, <1>8
    <3> QED
      BY <3>1, <2>1, <1>4
  <2> QED
    BY <2>2, <2>3
<1> QED
  BY <1>4, <1>8, <1>9

\* protocol_safe_keep_from, with what it is for: when no id is used twice, the first
\* entry that is kept is not a result whose call is gone.
LEMMA CompactedIsAttached ==
    ASSUME NEW s \in Seq(Entries), Len(s) > KeepTail, Distinct(s), Attached(s), Chains(s)
    PROVE  Attached(Compacted(s))
<1> DEFINE k == KeepFrom(s)
           r == Rest(s, k)
           u == Compacted(s)
<1>1. k \in 0..Len(s) /\ Orphans(s, k) = {}
  BY KeepFromFacts
<1>2. PICK p \in Seq(Entries) : /\ u = p \o r
                                /\ Len(p) \in Nat \ {0} /\ DOMAIN p = 1..Len(p)
                                /\ \A i \in DOMAIN p : Plain(p[i])
  BY CompactedFacts
<1> HIDE DEF k, u
<1>3. /\ Len(s) \in Nat /\ DOMAIN s = 1..Len(s)
      /\ r \in Seq(Entries) /\ Len(r) = Len(s) - k /\ DOMAIN r = 1..(Len(s) - k)
      /\ \A i \in 1..(Len(s) - k) : r[i] = s[k + i]
  BY <1>1, RestFacts, LenProperties
<1> HIDE DEF r
<1>4. /\ DOMAIN u = 1..(Len(p) + Len(r))
      /\ \A i \in 1..Len(p) : u[i] = p[i]
      /\ \A i \in 1..Len(r) : u[Len(p) + i] = r[i]
      /\ \A i \in (Len(p) + 1)..(Len(p) + Len(r)) : u[i] = r[i - Len(p)]
  BY <1>2, <1>3, JoinFacts
<1>5. SUFFICES ASSUME NEW i \in DOMAIN u, u[i].kind = "result"
               PROVE  i > 1 /\ u[i - 1].kind \in {"calls", "result"}
  BY DEF Attached, u
<1>6. i \notin 1..Len(p)
  BY <1>2, <1>4, <1>5 DEF Plain
<1> DEFINE m == i - Len(p)
<1>7. m \in 1..Len(r) /\ i = Len(p) + m /\ u[i] = r[m] /\ r[m] = s[k + m]
      /\ k + m \in DOMAIN s /\ i > 1
  <2>1. i \in (Len(p) + 1)..(Len(p) + Len(r))
    BY <1>2, <1>3, <1>4, <1>6
  <2>2. Len(r) \in Nat /\ Len(r) = Len(s) - k /\ k \in Nat /\ Len(p) \in Nat \ {0}
    BY <1>1, <1>2, <1>3
  <2>3. m \in 1..Len(r) /\ i = Len(p) + m /\ i > 1
    BY <2>1, <2>2
  <2>4. u[i] = r[m]
    BY <2>1, <1>4
  <2> HIDE DEF m
  <2>5. m \in 1..(Len(s) - k) /\ k + m \in 1..Len(s)
    BY <2>2, <2>3, <1>3
  <2> QED
    BY <2>3, <2>4, <2>5, <1>3
<1> HIDE DEF m
<1>8. s[k + m].kind = "result" /\ s[(k + m) - 1].kind \in {"calls", "result"}
  BY <1>5, <1>7 DEF Attached
<1>9. CASE m > 1
  <2>1. m - 1 \in 1..Len(r) /\ i - 1 = Len(p) + (m - 1) /\ k + (m - 1) = (k + m) - 1
        /\ m - 1 \in 1..(Len(s) - k)
    BY <1>1, <1>2, <1>3, <1>7, <1>9
  <2>2. u[i - 1] = s[(k + m) - 1]
    BY <2>1, <1>3, <1>4
  <2> QED
    BY <2>2, <1>7, <1>8
<1>10. CASE m = 1
  <2>1. k + 1 \in DOMAIN s /\ s[k + 1].kind = "result"
    BY <1>7, <1>8, <1>10
  <2>2. PICK j \in 1..((k + 1) - 1) : /\ s[j].kind = "calls"
                                      /\ \A n \in (j + 1)..(k + 1) : s[n].kind = "result"
    BY <2>1, ChainStart
  <2>3. j \in 1..k /\ j \in DOMAIN s /\ j < k + 1
    BY <1>1, <1>3, <2>2
  <2> DEFINE c == s[k + 1].ids[1]
  <2>4. c \in ToSet(s[j].ids)
    BY <2>1, <2>2, <2>3 DEF Chains
  <2>5. c \in CalledIn(Upto(s, k))
    <3>1. \A x \in 1..k : s[x] \in Entries
      BY <1>1, <1>3, ElementOfSeq
    <3>2. /\ Upto(s, k) \in Seq(Entries)
          /\ Len(Upto(s, k)) = IF 1 <= k THEN k - 1 + 1 ELSE 0
          /\ \A x \in 1..(k - 1 + 1) : Upto(s, k)[x] = s[1 + x - 1]
      BY <1>1, <1>3, <3>1, SubSeqProperties DEF Upto
    <3>3. j \in DOMAIN Upto(s, k)
      BY <2>3, <1>1, <3>2, LenProperties
    <3>4. Upto(s, k)[j] = s[j]
      BY <2>3, <1>1, <3>2
    <3> QED
      BY <3>3, <3>4, <2>2, <2>4, CalledFacts
  <2>6. c \notin CalledIn(r)
    <3>1. SUFFICES ASSUME NEW x \in DOMAIN r, r[x].kind = "calls", c \in ToSet(r[x].ids)
                   PROVE  FALSE
      BY CalledFacts
    <3>2. r[x] = s[k + x] /\ k + x > j /\ k + x \in DOMAIN s
      BY <1>1, <1>3, <2>3
    <3>3. j \in 0..Len(s) /\ (k + x) - j \in 1..(Len(s) - j) /\ j + ((k + x) - j) = k + x
      BY <1>1, <1>3, <2>3, <3>1, <3>2
    <3>4. (k + x) - j \in DOMAIN Rest(s, j) /\ Rest(s, j)[(k + x) - j] = s[k + x]
      <4>1. /\ DOMAIN Rest(s, j) = 1..(Len(s) - j)
            /\ \A y \in 1..(Len(s) - j) : Rest(s, j)[y] = s[j + y]
        BY <3>3, RestFacts
      <4> QED
        BY <4>1, <3>3
    <3>5. c \in CalledIn(Rest(s, j))
      BY <3>1, <3>2, <3>4, CalledFacts
    <3>6. ToSet(s[j].ids) \cap CalledIn(Rest(s, j)) = {}
      BY <2>2, <2>3, <3>2 DEF Distinct
    <3> QED
      BY <2>4, <3>5, <3>6
  <2>7. k + 1 \in Orphans(s, k)
    <3>1. k + 1 \in (k + 1)..Len(s)
      BY <1>1, <1>3, <2>1
    <3> QED
      BY <3>1, <2>1, <2>5, <2>6 DEF Orphans, r
  <2> QED
    BY <2>7, <1>1
<1> QED
  BY <1>7, <1>9, <1>10

-----------------------------------------------------------------------------
(* The transcript in memory and the one on disk.                             *)

RunTypes ==
    /\ stage \in Stages /\ first \in BOOLEAN /\ input \in Inputs
    /\ runs \in 0..MaxRuns
    /\ stage # "idle" => runs \in 1..MaxRuns
    /\ stage \in {"asking", "acting", "ended"} => ~first

Sound(s) == s \in Seq(Entries) /\ Complete(s) /\ Chains(s)

\* Only while a batch is at work is the transcript incomplete.
Shaped ==
    /\ Sound(disk)
    /\ log \in Seq(Entries) /\ Chains(log)
    /\ IF stage = "acting" THEN Working(log) ELSE Complete(log)

\* The last task in the transcript is the one of run n.
LastTask(s, n) == \E i \in DOMAIN s :
    /\ s[i].kind = "task" /\ s[i].run = n
    /\ \A j \in DOMAIN s : j > i => s[j].kind # "task"
Objective == stage # "idle" /\ input = "task" /\ ~first => LastTask(log, runs)

LogInv == RunTypes /\ Shaped /\ Objective

LEMMA LastTaskJoins ==
    ASSUME NEW s \in Seq(Entries), NEW t \in Seq(Entries), NEW n,
           LastTask(s, n), \A i \in DOMAIN t : t[i].kind # "task"
    PROVE  LastTask(s \o t, n)
<1> DEFINE u == s \o t
<1>1. /\ Len(s) \in Nat /\ Len(t) \in Nat /\ DOMAIN s = 1..Len(s) /\ DOMAIN t = 1..Len(t)
      /\ DOMAIN u = 1..(Len(s) + Len(t))
      /\ \A i \in 1..Len(s) : u[i] = s[i]
      /\ \A i \in (Len(s) + 1)..(Len(s) + Len(t)) : u[i] = t[i - Len(s)]
  BY JoinFacts
<1> HIDE DEF u
<1>2. PICK i \in DOMAIN s : /\ s[i].kind = "task" /\ s[i].run = n
                            /\ \A j \in DOMAIN s : j > i => s[j].kind # "task"
  BY DEF LastTask
<1>3. i \in DOMAIN u /\ u[i] = s[i]
  BY <1>1, <1>2
<1>4. ASSUME NEW j \in DOMAIN u, j > i  PROVE u[j].kind # "task"
  <2>1. CASE j \in 1..Len(s)
    BY <2>1, <1>1, <1>2, <1>4
  <2>2. CASE j \notin 1..Len(s)
    <3>1. j \in (Len(s) + 1)..(Len(s) + Len(t)) /\ j - Len(s) \in 1..Len(t)
      BY <2>2, <1>1
    <3> QED
      BY <3>1, <1>1
  <2> QED
    BY <2>1, <2>2
<1> QED
  BY <1>2, <1>3, <1>4 DEF LastTask, u

\* preserved_current_user_entry_before keeps that task.
LEMMA LastTaskCompacted ==
    ASSUME NEW s \in Seq(Entries), Len(s) > KeepTail, NEW n, LastTask(s, n)
    PROVE  LastTask(Compacted(s), n)
<1> DEFINE k == KeepFrom(s)
           r == Rest(s, k)
           u == Compacted(s)
<1>1. k \in 0..Len(s)
  BY KeepFromFacts
<1>2. PICK p \in Seq(Entries) :
           /\ u = p \o r
           /\ Len(p) \in Nat \ {0} /\ DOMAIN p = 1..Len(p)
           /\ \A i \in 1..k :
                (s[i].kind = "task" /\ \A j \in (i + 1)..k : s[j].kind # "task")
                  => p[1] = s[i] /\ \A j \in 2..Len(p) : p[j].kind # "task"
  BY CompactedFacts
<1> HIDE DEF k, u
<1>3. /\ Len(s) \in Nat /\ DOMAIN s = 1..Len(s)
      /\ r \in Seq(Entries) /\ Len(r) = Len(s) - k /\ DOMAIN r = 1..(Len(s) - k)
      /\ \A i \in 1..(Len(s) - k) : r[i] = s[k + i]
  BY <1>1, RestFacts, LenProperties
<1> HIDE DEF r
<1>4. /\ DOMAIN u = 1..(Len(p) + Len(r))
      /\ \A i \in 1..Len(p) : u[i] = p[i]
      /\ \A i \in 1..Len(r) : u[Len(p) + i] = r[i]
      /\ \A i \in (Len(p) + 1)..(Len(p) + Len(r)) : u[i] = r[i - Len(p)]
  BY <1>2, <1>3, JoinFacts
<1>5. PICK i \in DOMAIN s : /\ s[i].kind = "task" /\ s[i].run = n
                            /\ \A j \in DOMAIN s : j > i => s[j].kind # "task"
  BY DEF LastTask
<1>6. ASSUME NEW j \in DOMAIN u, j \notin 1..Len(p)
      PROVE  j - Len(p) \in 1..Len(r) /\ u[j] = s[k + (j - Len(p))]
             /\ k + (j - Len(p)) \in DOMAIN s
  <2>1. j \in (Len(p) + 1)..(Len(p) + Len(r)) /\ j - Len(p) \in 1..Len(r)
    BY <1>1, <1>2, <1>3, <1>4, <1>6
  <2>2. k + (j - Len(p)) \in DOMAIN s
    BY <2>1, <1>1, <1>2, <1>3
  <2> QED
    BY <2>1, <2>2, <1>3, <1>4
<1>7. CASE i \in 1..k
  <2>1. \A j \in (i + 1)..k : s[j].kind # "task"
    BY <1>1, <1>3, <1>5, <1>7
  <2>2. p[1] = s[i] /\ \A j \in 2..Len(p) : p[j].kind # "task"
    BY <2>1, <1>2, <1>5, <1>7
  <2>3. 1 \in DOMAIN u /\ u[1] = s[i]
    BY <2>2, <1>2, <1>3, <1>4
  <2>4. ASSUME NEW j \in DOMAIN u, j > 1  PROVE u[j].kind # "task"
    <3>1. CASE j \in 1..Len(p)
      <4>1. j \in 2..Len(p)
        BY <3>1, <2>4, <1>2
      <4> QED
        BY <4>1, <3>1, <2>2, <1>4
    <3>2. CASE j \notin 1..Len(p)
      <4>1. k + (j - Len(p)) > i
        BY <3>2, <1>1, <1>2, <1>3, <1>4, <1>6, <1>7
      <4> QED
        BY <4>1, <3>2, <1>5, <1>6
    <3> QED
      BY <3>1, <3>2
  <2> QED
    BY <2>3, <2>4, <1>5 DEF LastTask, u
<1>8. CASE i \notin 1..k
  <2> DEFINE m == Len(p) + (i - k)
  <2>1. i - k \in 1..Len(r) /\ k + (i - k) = i /\ i - k \in 1..(Len(s) - k)
    BY <1>1, <1>3, <1>8
  <2>2. m \in DOMAIN u /\ u[m] = r[i - k] /\ r[i - k] = s[k + (i - k)] /\ m > Len(p)
    BY <2>1, <1>2, <1>3, <1>4
  <2>3. u[m] = s[i]
    BY <2>1, <2>2
  <2>4. ASSUME NEW j \in DOMAIN u, j > m  PROVE u[j].kind # "task"
    <3>1. j \notin 1..Len(p)
      BY <2>2, <2>4, <1>2, <1>4
    <3>2. k + (j - Len(p)) > i
      BY <2>1, <2>4, <1>1, <1>2, <1>3, <1>4, SMTT(30)
    <3> QED
      BY <3>1, <3>2, <1>5, <1>6
  <2> QED
    BY <2>2, <2>3, <2>4, <1>5 DEF LastTask, u
<1> QED
  BY <1>7, <1>8

\* What a step appends that is neither a call, a result nor a task.
Aside(t) == t \in Seq(Entries) /\ \A i \in DOMAIN t : Plain(t[i]) /\ t[i].kind # "task"

LEMMA AsideFacts ==
    /\ Aside(<<>>) /\ Aside(<<Note>>) /\ Aside(<<Text>>)
    /\ \A t \in Notes : Aside(t)
<1>1. Aside(<<>>)
  BY DEF Aside
<1>2. Note \in Entries /\ Note.kind = "note" /\ Text \in Entries /\ Text.kind = "text"
  BY DEF Entries, Note, Text
<1>3. ASSUME NEW e \in {Note, Text}  PROVE Aside(<<e>>)
  <2>1. e \in Entries /\ Plain(e) /\ e.kind # "task"
    BY <1>2, <1>3 DEF Plain
  <2>2. <<e>> \in Seq(Entries) /\ DOMAIN <<e>> = {1} /\ <<e>>[1] = e
    BY <2>1
  <2> QED
    BY <2>1, <2>2 DEF Aside
<1> QED
  BY <1>1, <1>3 DEF Notes

LEMMA EmptyIsSound == Sound(<<>>)
BY DEF Sound, Complete, Chains

\* A sound transcript stays sound, and keeps its last task.
LEMMA AsideJoins ==
    ASSUME NEW s, Sound(s), NEW t, Aside(t), NEW n
    PROVE  Sound(s \o t) /\ (LastTask(s, n) => LastTask(s \o t, n))
<1>1. /\ s \in Seq(Entries) /\ t \in Seq(Entries)
      /\ \A i \in DOMAIN t : Plain(t[i]) /\ t[i].kind # "task"
  BY DEF Sound, Aside
<1>2. s \o t \in Seq(Entries)
  BY <1>1, JoinFacts
<1> QED
  BY <1>1, <1>2, PlainJoins, LastTaskJoins DEF Sound

\* A step to a sound transcript, between two turns or in one that asks.
LEMMA MovesTo ==
    ASSUME LogInv, NEW s, Sound(s), log' = s, disk' \in {s, disk},
           stage # "idle", stage' \in Stages \ {"idle", "acting"},
           UNCHANGED <<committee, input, runs>>,
           first' \in BOOLEAN, stage' \in {"asking", "ended"} => ~first',
           input = "task" /\ ~first' => LastTask(s, runs)
    PROVE  LogInv'
<1>1. RunTypes'
  BY DEF LogInv, RunTypes, Stages
<1>2. Sound(disk')
  BY DEF LogInv, Shaped
<1>3. Shaped'
  BY <1>2 DEF Shaped, Sound, Complete, Chains, Whole
<1>4. Objective'
  BY DEF Objective, LastTask
<1> QED
  BY <1>1, <1>3, <1>4 DEF LogInv

\* A run is over, and only the files are left.
LEMMA LeavesLog ==
    ASSUME LogInv, NEW d, Sound(d), disk' = d, stage' = "idle", log' = <<>>,
           UNCHANGED <<first, input, runs>>
    PROVE  LogInv'
<1>1. RunTypes'
  BY DEF LogInv, RunTypes, Stages
<1>2. Sound(log')
  BY EmptyIsSound
<1>3. Shaped'
  BY <1>2 DEF Shaped, Sound, Complete, Chains, Whole
<1>4. Objective'
  BY DEF Objective
<1> QED
  BY <1>1, <1>3, <1>4 DEF LogInv

LEMMA FailsLog ==
    ASSUME LogInv, NEW s, Sound(s), input = "task" => LastTask(s, runs),
           stage \in {"asking", "acting"}, Fails(s), UNCHANGED <<disk, run>>
    PROVE  LogInv'
<1>1. CASE Leaves
  BY <1>1, LeavesLog DEF Leaves, LogInv, Shaped, run
<1>2. CASE stage' = "boundary" /\ \E n \in Notes : log' = s \o n
  <2>1. PICK n \in Notes : log' = s \o n
    BY <1>2
  <2>2. Sound(s \o n) /\ (LastTask(s, runs) => LastTask(s \o n, runs))
    BY AsideFacts, AsideJoins
  <2>3. first' \in BOOLEAN /\ stage' \in Stages \ {"idle", "acting"} /\ stage # "idle"
        /\ stage' \notin {"asking", "ended"}
    BY <1>2 DEF LogInv, RunTypes, Stages, run
  <2>4. UNCHANGED <<committee, input, runs>> /\ disk' = disk
    BY DEF run
  <2> QED
    BY <2>1, <2>2, <2>3, <2>4, MovesTo
<1> QED
  BY <1>1, <1>2 DEF Fails

LEMMA SucceedsLog ==
    ASSUME LogInv, NEW s, Sound(s), input = "task" => LastTask(s, runs),
           stage \in {"asking", "acting"}, Succeeds(s), UNCHANGED run
    PROVE  LogInv'
<1>1. log' = s /\ stage' = "ended" /\ disk' \in {s, disk}
  BY DEF Succeeds, Saves
<1>2. first' \in BOOLEAN /\ ~first' /\ UNCHANGED <<committee, input, runs>>
  BY DEF LogInv, RunTypes, run
<1>3. stage' \in Stages \ {"idle", "acting"} /\ stage # "idle"
  BY <1>1 DEF Stages
<1> QED
  BY <1>1, <1>2, <1>3, MovesTo

\* What is known of the transcript outside a batch.
LEMMA LogFacts ==
    ASSUME LogInv
    PROVE  /\ stage # "acting" => Sound(log)
           /\ Sound(disk)
           /\ stage \in {"asking", "acting", "ended"} /\ input = "task" => LastTask(log, runs)
BY DEF LogInv, Shaped, Sound, RunTypes, Objective

LEMMA OperatorLog == LogInv /\ Operator => LogInv'
<1> SUFFICES ASSUME LogInv, Operator  PROVE LogInv'
  OBVIOUS
<1>1. ASSUME NEW i \in Inputs, NEW c \in BOOLEAN, Starts(i, c)  PROVE LogInv'
  <2>1. /\ runs < MaxRuns /\ runs' = runs + 1 /\ log' = disk /\ disk' = disk
        /\ stage' = "boundary" /\ first' = TRUE /\ input' = i
    BY <1>1 DEF Starts, files
  <2>2. RunTypes'
    BY <2>1, TranscriptBoundAssumption
    DEF LogInv, RunTypes, Stages, TranscriptBoundAssumption
  <2>3. Sound(disk)
    BY LogFacts
  <2>4. Shaped'
    BY <2>1, <2>3 DEF Shaped, Sound, Complete, Chains, Whole
  <2>5. Objective'
    BY <2>1 DEF Objective
  <2> QED
    BY <2>2, <2>4, <2>5 DEF LogInv
<1>2. ASSUME NEW c \in BOOLEAN, Approve(c)  PROVE LogInv'
  BY <1>1, <1>2 DEF Approve, LogInv, RunTypes
<1>3. ASSUME NEW c \in BOOLEAN, NEW i \in Inputs, Submit(i, c)  PROVE LogInv'
  BY <1>1, <1>3 DEF Submit
<1>4. CASE Deny
  <2>1. UNCHANGED <<log, disk, stage, first, input, runs>>
    BY <1>4 DEF Deny, files, run
  <2> QED
    BY <2>1 DEF LogInv, RunTypes, Shaped, Objective, Sound, Complete, Chains, Whole,
                Working, WorkingAt, LastTask
<1>5. CASE Clear
  <2>1. UNCHANGED <<log, stage, first, input, runs>> /\ disk' = <<>> /\ stage = "idle"
    BY <1>5 DEF Clear, run
  <2>2. Sound(<<>>) /\ Sound(log)
    BY <2>1, EmptyIsSound, LogFacts
  <2>3. Shaped'
    BY <2>1, <2>2 DEF Shaped, Sound, Complete, Chains, Whole
  <2> QED
    BY <2>1, <2>3 DEF LogInv, RunTypes, Objective
<1> QED
  BY <1>2, <1>3, <1>4, <1>5 DEF Operator

LEMMA BoundaryLog == LogInv /\ Boundary => LogInv'
<1> SUFFICES ASSUME LogInv, Boundary  PROVE LogInv'
  OBVIOUS
<1>1. PICK n \in Notes : log' = log \o n
  BY DEF Boundary, Notes
<1>2. Sound(log) /\ Sound(log \o n) /\ (LastTask(log, runs) => LastTask(log \o n, runs))
  <2>1. Sound(log)
    BY LogFacts DEF Boundary
  <2> QED
    BY <2>1, AsideFacts, AsideJoins
<1>3. /\ stage = "boundary" /\ stage' \in {"replaying", "ready"} /\ disk' = disk
      /\ UNCHANGED <<first, committee, input, runs>>
  BY DEF Boundary, run, Take
<1>4. first' \in BOOLEAN /\ (input = "task" /\ ~first' => LastTask(log, runs))
  BY <1>3 DEF LogInv, RunTypes, Objective
<1>5. stage' \in Stages \ {"idle", "acting"} /\ stage # "idle" /\ stage' \notin {"asking", "ended"}
  BY <1>3 DEF Stages
<1> QED
  BY <1>1, <1>2, <1>3, <1>4, <1>5, MovesTo

\* The call that was taken has its result in a note: the transcript is complete.
LEMMA ReplayedLog == LogInv /\ Replayed => LogInv'
<1> SUFFICES ASSUME LogInv, Replayed  PROVE LogInv'
  OBVIOUS
<1>1. /\ stage = "replaying" /\ stage' = "ready" /\ UNCHANGED <<disk, first, committee, input, runs>>
  BY DEF Replayed, files, run
<1>2. PICK n \in Notes : log' = log \o Observed(log) \o n
  BY DEF Replayed
<1>3. Sound(log)
  BY <1>1, LogFacts
<1>4. Unanswered(log) = {}
  BY <1>3, CompleteIsAnswered DEF Sound
<1>5. Observed(log) = <<Note>>
  BY <1>4 DEF Observed
<1> DEFINE s == log \o <<Note>>
<1>6. Sound(s) /\ (LastTask(log, runs) => LastTask(s, runs))
  BY <1>3, AsideFacts, AsideJoins
<1>7. log' = s \o n
  BY <1>2, <1>5
<1> HIDE DEF s
<1>8. Sound(s \o n) /\ (LastTask(s, runs) => LastTask(s \o n, runs))
  BY <1>6, AsideFacts, AsideJoins
<1>9. first' \in BOOLEAN /\ (input = "task" /\ ~first' => LastTask(log, runs))
  BY <1>1 DEF LogInv, RunTypes, Objective
<1>10. stage' \in Stages \ {"idle", "acting"} /\ stage # "idle" /\ stage' \notin {"asking", "ended"}
  BY <1>1 DEF Stages
<1> QED
  BY <1>1, <1>6, <1>7, <1>8, <1>9, <1>10, MovesTo

\* What the user typed goes in once, and is then the last task.
LEMMA TypedFacts ==
    ASSUME LogInv, stage = "ready", NEW t \in Typed
    PROVE  Sound(log \o t) /\ (input = "task" => LastTask(log \o t, runs))
<1>1. Sound(log) /\ log \in Seq(Entries)
  BY LogFacts DEF Sound
<1>2. CASE ~first
  <2>1. t = <<>>
    BY <1>2 DEF Typed
  <2>2. input = "task" => LastTask(log, runs)
    BY <1>2 DEF LogInv, Objective
  <2> QED
    BY <1>1, <2>1, <2>2, AsideFacts, AsideJoins
<1>3. CASE first
  <2> DEFINE e == User(input, runs)
  <2>1. PICK n \in Notes : t = <<e>> \o n
    BY <1>3 DEF Typed
  <2>2. e \in Entries /\ e.kind = input /\ e.run = runs /\ Plain(e)
    BY DEF LogInv, RunTypes, Entries, User, Plain, Inputs
  <2> HIDE DEF e
  <2>3. <<e>> \in Seq(Entries) /\ DOMAIN <<e>> = {1} /\ <<e>>[1] = e /\ Len(<<e>>) = 1
    BY <2>2
  <2> DEFINE s == log \o <<e>>
  <2>4. /\ s \in Seq(Entries) /\ Len(log) \in Nat /\ DOMAIN s = 1..(Len(log) + 1)
        /\ s[Len(log) + 1] = e
    <3>1. /\ s \in Seq(Entries) /\ Len(log) \in Nat /\ DOMAIN s = 1..(Len(log) + Len(<<e>>))
          /\ \A i \in 1..Len(<<e>>) : s[Len(log) + i] = <<e>>[i]
      BY <1>1, <2>3, JoinFacts
    <3> QED
      BY <2>3, <3>1
  <2>5. Sound(s)
    BY <1>1, <2>2, <2>3, <2>4, PlainJoins DEF Sound
  <2> HIDE DEF s
  <2>6. input = "task" => LastTask(s, runs)
    <3>1. Len(log) + 1 \in DOMAIN s /\ \A j \in DOMAIN s : ~(j > Len(log) + 1)
      BY <2>4
    <3> QED
      BY <2>2, <2>4, <3>1 DEF LastTask
  <2>7. Sound(s \o n) /\ (LastTask(s, runs) => LastTask(s \o n, runs))
    BY <2>5, AsideFacts, AsideJoins
  <2>8. log \o t = s \o n
    <3>1. n \in Seq(Entries)
      BY AsideFacts DEF Aside
    <3> QED
      BY <1>1, <2>1, <2>3, <3>1, ConcatAssociative, SMTT(20) DEF s
  <2> QED
    BY <2>6, <2>7, <2>8
<1> QED
  BY <1>2, <1>3 DEF LogInv, RunTypes

LEMMA RequestLog == LogInv /\ Request => LogInv'
<1> SUFFICES ASSUME LogInv, Request  PROVE LogInv'
  OBVIOUS
<1>1. /\ stage = "ready" /\ stage' = "asking" /\ ~first' /\ first' \in BOOLEAN /\ disk' = disk
      /\ UNCHANGED <<committee, input, runs>>
  BY DEF Request, files
<1>2. PICK t \in Typed :
        \/ log' = log \o t
        \/ Len(log \o t) > KeepTail /\ log' = Compacted(log \o t)
  BY DEF Request
<1> DEFINE s == log \o t
<1>3. Sound(s) /\ (input = "task" => LastTask(s, runs))
  BY <1>1, TypedFacts
<1> HIDE DEF s
<1>4. stage' \in Stages \ {"idle", "acting"} /\ stage # "idle"
  BY <1>1 DEF Stages
<1>5. CASE log' = s
  BY <1>1, <1>3, <1>4, <1>5, MovesTo
<1>6. CASE Len(s) > KeepTail /\ log' = Compacted(s)
  <2>1. Sound(Compacted(s)) /\ (input = "task" => LastTask(Compacted(s), runs))
    BY <1>3, <1>6, CompactedIsSound, LastTaskCompacted DEF Sound
  <2> QED
    BY <1>1, <1>4, <1>6, <2>1, MovesTo
<1> QED
  BY <1>2, <1>5, <1>6 DEF s

LEMMA AskingLog == LogInv /\ (ProviderFails \/ Replies) => LogInv'
<1> SUFFICES ASSUME LogInv, ProviderFails \/ Replies  PROVE LogInv'
  OBVIOUS
<1>1. stage = "asking" /\ UNCHANGED run
  BY DEF ProviderFails, Replies, Same
<1>2. Sound(log) /\ (input = "task" => LastTask(log, runs))
  BY <1>1, LogFacts
<1>3. CASE ProviderFails
  BY <1>1, <1>2, <1>3, FailsLog DEF ProviderFails
<1>4. CASE Replies
  <2>1. PICK t \in {<<>>, <<Text>>} : Succeeds(log \o t) \/ (Fails(log \o t) /\ UNCHANGED disk)
    BY <1>4 DEF Replies
  <2>2. Sound(log \o t) /\ (input = "task" => LastTask(log \o t, runs))
    BY <1>2, AsideFacts, AsideJoins
  <2> QED
    BY <1>1, <2>1, <2>2, FailsLog, SucceedsLog
<1> QED
  BY <1>3, <1>4

LEMMA InvokesLog == LogInv /\ Invokes => LogInv'
<1> SUFFICES ASSUME LogInv, Invokes  PROVE LogInv'
  OBVIOUS
<1>1. stage = "asking" /\ stage' = "acting" /\ UNCHANGED <<disk, first, input, runs>>
  BY DEF Invokes, Same, run
<1>2. PICK b \in Invoked : log' = Append(log, Calls(b))
  BY DEF Invokes
<1>3. Sound(log) /\ (input = "task" => LastTask(log, runs)) /\ log \in Seq(Entries)
  BY <1>1, LogFacts DEF Sound
<1> DEFINE e == Calls(b)
           u == log \o <<e>>
           at == Len(log) + 1
<1>4. e \in Entries /\ e.kind = "calls" /\ e.ids = b
  BY DEF Entries, Calls
<1> HIDE DEF e
<1>5. <<e>> \in Seq(Entries) /\ DOMAIN <<e>> = {1} /\ <<e>>[1] = e /\ Len(<<e>>) = 1
  BY <1>4
<1>6. log' = u
  BY <1>2, <1>3, <1>4, AppendIsConcat DEF e
<1>7. /\ u \in Seq(Entries) /\ Len(log) \in Nat /\ DOMAIN log = 1..Len(log)
      /\ DOMAIN u = 1..(Len(log) + 1) /\ Len(u) = Len(log) + 1
      /\ \A i \in 1..Len(log) : u[i] = log[i]
      /\ u[at] = e
  <2>1. /\ u \in Seq(Entries) /\ Len(log) \in Nat /\ DOMAIN log = 1..Len(log)
        /\ DOMAIN u = 1..(Len(log) + Len(<<e>>)) /\ Len(u) = Len(log) + Len(<<e>>)
        /\ \A i \in 1..Len(log) : u[i] = log[i]
        /\ \A i \in 1..Len(<<e>>) : u[Len(log) + i] = <<e>>[i]
    BY <1>3, <1>5, JoinFacts
  <2> QED
    BY <1>5, <2>1
<1>8. input = "task" => LastTask(u, runs)
  <2>1. \A i \in DOMAIN <<e>> : <<e>>[i].kind # "task"
    BY <1>4, <1>5
  <2> QED
    BY <1>3, <1>5, <2>1, LastTaskJoins
<1> HIDE DEF u
<1>9. WorkingAt(u, at)
  <2>1. at \in DOMAIN u /\ Len(u) - at = 0 /\ u[at].kind = "calls"
    BY <1>4, <1>7
  <2>2. Len(u[at].ids) > 0
    BY <1>4, <1>7, BatchFacts
  <2>3. ASSUME NEW j \in 1..(at - 1), u[j].kind = "calls"  PROVE Whole(u, j)
    <3>1. j \in DOMAIN log /\ u[j] = log[j]
      BY <1>7
    <3>2. Whole(log, j)
      BY <1>3, <2>3, <3>1 DEF Sound, Complete
    <3> QED
      BY <1>7, <3>1, <3>2 DEF Whole
  <2> QED
    BY <2>1, <2>2, <2>3 DEF WorkingAt
<1>10. Chains(u)
  <2> SUFFICES ASSUME NEW j \in DOMAIN u, NEW i \in DOMAIN u, u[j].kind = "calls", j < i,
                      \A k \in (j + 1)..i : u[k].kind = "result"
               PROVE  u[i].ids[1] \in ToSet(u[j].ids)
    BY DEF Chains
  <2>1. u[i].kind = "result"
    BY <1>7
  <2>2. i # at
    BY <1>4, <1>7, <2>1
  <2>3. i \in DOMAIN log /\ j \in DOMAIN log /\ u[i] = log[i] /\ u[j] = log[j]
    BY <1>7, <2>2
  <2>4. \A k \in (j + 1)..i : log[k].kind = "result"
    BY <1>7, <2>3
  <2> QED
    BY <1>3, <2>3, <2>4 DEF Sound, Chains
<1>11. RunTypes'
  BY <1>1 DEF LogInv, RunTypes, Stages
<1>12. Shaped'
  <2>1. Sound(disk)'
    BY <1>1 DEF LogInv, Shaped, Sound, Complete, Chains, Whole
  <2>2. Working(log')
    BY <1>6, <1>7, <1>9 DEF Working
  <2> QED
    BY <1>1, <1>6, <1>7, <1>10, <2>1, <2>2 DEF Shaped
<1>13. Objective'
  BY <1>1, <1>6, <1>8 DEF Objective
<1> QED
  BY <1>11, <1>12, <1>13 DEF LogInv

\* While a batch is at work: the results of its next n calls.
LEMMA ResultsLog ==
    ASSUME LogInv, stage = "acting"
    PROVE  /\ Missing \in Seq(CallIds) /\ Len(Missing) \in Nat \ {0}
           /\ DOMAIN Missing = 1..Len(Missing)
           /\ \A n \in 1..Len(Missing) :
                \A t : t \in Seq(Entries) /\ DOMAIN t = 1..n
                         /\ (\A i \in 1..n : t[i] = Result(Missing[i]))
                  => /\ log \o t \in Seq(Entries) /\ Chains(log \o t)
                     /\ IF n = Len(Missing) THEN Complete(log \o t) ELSE Working(log \o t)
                     /\ input = "task" => LastTask(log \o t, runs)
<1>1. log \in Seq(Entries) /\ Chains(log) /\ Working(log)
  BY DEF LogInv, Shaped
<1>2. input = "task" => LastTask(log, runs)
  BY LogFacts
<1>3. PICK at : WorkingAt(log, at)
  BY <1>1 DEF Working
<1> DEFINE b == log[at].ids
           d == Len(log) - at
<1>4. /\ Len(log) \in Nat /\ at \in 1..Len(log) /\ b \in Invoked /\ Batch(log) = b
      /\ Min(Unanswered(log)) = Len(log) - at + 1 /\ d < Len(b)
  BY <1>1, <1>3, WorkingFacts DEF WorkingAt
<1>5. b \in Seq(CallIds) /\ Len(b) \in Nat /\ d \in 0..Len(b)
  BY <1>4, BatchFacts
<1>6. Missing = Rest(b, d)
  <2>1. Min(Unanswered(log)) - 1 = d
    BY <1>4
  <2> QED
    BY <1>4, <2>1 DEF Missing
<1> HIDE DEF Missing
<1>7. /\ Missing \in Seq(CallIds) /\ Len(Missing) = Len(b) - d
      /\ DOMAIN Missing = 1..(Len(b) - d)
      /\ \A i \in 1..(Len(b) - d) : Missing[i] = b[d + i]
  <2> HIDE DEF b, d
  <2> QED
    BY <1>5, <1>6, RestFacts
<1>8. Len(Missing) \in Nat \ {0}
  <2> HIDE DEF b, d
  <2> QED
    BY <1>4, <1>5, <1>7
<1>9. ASSUME NEW n \in 1..Len(Missing), NEW t, t \in Seq(Entries), DOMAIN t = 1..n,
             \A i \in 1..n : t[i] = Result(Missing[i])
      PROVE  /\ log \o t \in Seq(Entries) /\ Chains(log \o t)
             /\ IF n = Len(Missing) THEN Complete(log \o t) ELSE Working(log \o t)
             /\ input = "task" => LastTask(log \o t, runs)
  <2>1. n \in 1..(Len(b) - d) /\ \A i \in 1..n : t[i] = Result(b[d + i])
    BY <1>7, <1>9
  <2>2. /\ log \o t \in Seq(Entries) /\ Chains(log \o t)
        /\ IF n = Len(b) - d THEN Complete(log \o t) ELSE WorkingAt(log \o t, at)
    BY <1>1, <1>3, <1>9, <2>1, ResultsJoin
  <2>3. IF n = Len(Missing) THEN Complete(log \o t) ELSE Working(log \o t)
    <3>1. ASSUME WorkingAt(log \o t, at)  PROVE Working(log \o t)
      BY <3>1 DEF Working, WorkingAt
    <3> HIDE DEF b, d
    <3> QED
      BY <1>7, <2>2, <3>1
  <2>4. \A i \in DOMAIN t : t[i].kind # "task"
    BY <1>9, ResultFacts
  <2> QED
    BY <1>1, <1>2, <1>9, <2>2, <2>3, <2>4, LastTaskJoins
<1> QED
  BY <1>7, <1>8, <1>9

LEMMA FinishesLog == LogInv /\ Finishes => LogInv'
<1> SUFFICES ASSUME LogInv, Finishes  PROVE LogInv'
  OBVIOUS
<1>1. stage = "acting" /\ UNCHANGED <<run, sidecar>>
  BY DEF Finishes, Same
<1> DEFINE e == Result(Missing[1])
           u == log \o <<e>>
<1>2. log \in Seq(Entries) /\ Missing \in Seq(CallIds) /\ Len(Missing) \in Nat \ {0}
      /\ Missing[1] \in CallIds
  <2>1. log \in Seq(Entries) /\ Missing \in Seq(CallIds) /\ Len(Missing) \in Nat \ {0}
    BY <1>1, ResultsLog DEF LogInv, Shaped
  <2> HIDE DEF Missing
  <2> QED
    BY <2>1, ElementOfSeq
<1>3. e \in Entries
  BY <1>2, ResultFacts
<1>4. Append(log, e) = u
  BY <1>2, <1>3, AppendIsConcat
<1>5. /\ u \in Seq(Entries) /\ Chains(u)
      /\ IF Len(Missing) = 1 THEN Complete(u) ELSE Working(u)
      /\ input = "task" => LastTask(u, runs)
  <2> DEFINE t == <<e>>
  <2>1. t \in Seq(Entries) /\ DOMAIN t = 1..1 /\ t[1] = Result(Missing[1])
    BY <1>3
  <2>2. 1 \in 1..Len(Missing) /\ \A i \in 1..1 : t[i] = Result(Missing[i])
    BY <1>2, <2>1
  <2> HIDE DEF t
  <2>3. /\ log \o t \in Seq(Entries) /\ Chains(log \o t)
        /\ IF 1 = Len(Missing) THEN Complete(log \o t) ELSE Working(log \o t)
        /\ input = "task" => LastTask(log \o t, runs)
    BY <1>1, <2>1, <2>2, ResultsLog
  <2> QED
    BY <2>3 DEF t
<1>6. IF Len(Missing) = 1 THEN Succeeds(u) ELSE log' = u /\ UNCHANGED <<stage, disk>>
  BY <1>4 DEF Finishes
<1> HIDE DEF u
<1>7. CASE Len(Missing) = 1
  <2>1. Sound(u)
    BY <1>5, <1>7 DEF Sound
  <2> QED
    BY <1>1, <1>5, <1>6, <1>7, <2>1, SucceedsLog
<1>8. CASE Len(Missing) # 1
  <2>1. log' = u /\ UNCHANGED <<stage, disk, first, input, runs>>
    BY <1>1, <1>6, <1>8 DEF run
  <2>2. RunTypes'
    BY <2>1 DEF LogInv, RunTypes
  <2>3. Shaped'
    <3>1. Sound(disk)'
      BY <2>1 DEF LogInv, Shaped, Sound, Complete, Chains, Whole
    <3>2. Working(log')
      BY <1>5, <1>8, <2>1
    <3> QED
      BY <1>1, <1>5, <2>1, <3>1, <3>2 DEF Shaped
  <2>4. Objective'
    BY <1>5, <2>1 DEF Objective
  <2> QED
    BY <2>2, <2>3, <2>4 DEF LogInv
<1> QED
  BY <1>7, <1>8

\* A call that fails, and those of its batch behind it, are answered.
LEMMA ToolFailsLog == LogInv /\ ToolFails => LogInv'
<1> SUFFICES ASSUME LogInv, ToolFails  PROVE LogInv'
  OBVIOUS
<1>1. stage = "acting" /\ UNCHANGED <<run, disk>>
  BY DEF ToolFails, Same
<1> DEFINE t == Closing
           m == Len(Missing)
<1>2. Missing \in Seq(CallIds) /\ m \in Nat \ {0} /\ DOMAIN Missing = 1..m
  BY <1>1, ResultsLog
<1>3. t = [i \in 1..m |-> Result(Missing[i])]
  BY DEF Closing, Answers
<1>4. t \in Seq(Entries)
  <2>1. \A i \in 1..m : Missing[i] \in CallIds
    <3> HIDE DEF Missing
    <3> QED
      BY <1>2, ElementOfSeq
  <2>2. \A i \in 1..m : Result(Missing[i]) \in Entries
    BY <2>1, ResultFacts
  <2>3. t \in [1..m -> Entries]
    BY <1>3, <2>2
  <2> HIDE DEF t, m
  <2> QED
    BY <1>2, <2>3, SeqDef
<1>5. DOMAIN t = 1..m /\ \A i \in 1..m : t[i] = Result(Missing[i])
  BY <1>3
<1>6. m \in 1..Len(Missing)
  BY <1>2
<1> HIDE DEF t
<1>7. /\ log \o t \in Seq(Entries) /\ Chains(log \o t) /\ Complete(log \o t)
      /\ input = "task" => LastTask(log \o t, runs)
  BY <1>1, <1>4, <1>5, <1>6, ResultsLog
<1>8. Fails(log \o t)
  BY DEF ToolFails, t
<1> QED
  BY <1>1, <1>7, <1>8, FailsLog DEF Sound

LEMMA EndedLog == LogInv /\ (NeedsApproval \/ Ended \/ Quit) => LogInv'
<1> SUFFICES ASSUME LogInv, NeedsApproval \/ Ended \/ Quit  PROVE LogInv'
  OBVIOUS
<1>1. UNCHANGED <<disk, first, committee, input, runs>>
  BY DEF NeedsApproval, Ended, Quit, Same, run, files
<1>2. CASE Leaves
  BY <1>1, <1>2, LogFacts, LeavesLog DEF Leaves
<1>3. CASE Ended /\ ~Leaves
  <2>1. /\ stage = "ended" /\ stage' = "boundary"
        /\ \E n \in Notes : log' = log \o n
    BY <1>3 DEF Ended
  <2>2. PICK n \in Notes : log' = log \o n
    BY <2>1
  <2>3. Sound(log) /\ (input = "task" => LastTask(log, runs))
    BY <2>1, LogFacts
  <2>4. Sound(log \o n) /\ (LastTask(log, runs) => LastTask(log \o n, runs))
    BY <2>3, AsideFacts, AsideJoins
  <2>5. first' \in BOOLEAN /\ stage' \in Stages \ {"idle", "acting"} /\ stage # "idle"
        /\ stage' \notin {"asking", "ended"}
    BY <1>1, <2>1 DEF LogInv, RunTypes, Stages
  <2> QED
    BY <1>1, <2>2, <2>3, <2>4, <2>5, MovesTo
<1> QED
  BY <1>2, <1>3 DEF NeedsApproval, Quit

LEMMA InitLog == Init => LogInv
<1> SUFFICES ASSUME Init  PROVE LogInv
  OBVIOUS
<1>1. log = <<>> /\ disk = <<>> /\ stage = "idle" /\ first = FALSE /\ input = "task" /\ runs = 0
  BY DEF Init
<1>2. RunTypes
  <2>1. runs \in 0..MaxRuns
    BY <1>1, TranscriptBoundAssumption DEF TranscriptBoundAssumption
  <2>2. stage \in Stages /\ input \in Inputs /\ first \in BOOLEAN
    BY <1>1 DEF Stages, Inputs
  <2> QED
    BY <1>1, <2>1, <2>2 DEF RunTypes
<1>3. Shaped
  BY <1>1, EmptyIsSound DEF Shaped, Sound
<1> QED
  BY <1>1, <1>2, <1>3 DEF LogInv, Objective

LEMMA NextLog == LogInv /\ [Next]_vars => LogInv'
<1> SUFFICES ASSUME LogInv, [Next]_vars  PROVE LogInv'
  OBVIOUS
<1>1. CASE Operator
  BY <1>1, OperatorLog
<1>2. CASE Turn
  BY <1>2, BoundaryLog, ReplayedLog, RequestLog, AskingLog, InvokesLog, FinishesLog,
     ToolFailsLog, EndedLog DEF Turn
<1>3. CASE Quit
  BY <1>3, EndedLog
<1>4. CASE UNCHANGED vars
  <2>1. UNCHANGED <<log, disk, stage, first, input, runs>>
    BY <1>4 DEF vars, files, run
  <2> QED
    BY <2>1 DEF LogInv, RunTypes, Shaped, Objective, Sound, Complete, Chains, Whole,
                Working, WorkingAt, LastTask
<1> QED
  BY <1>1, <1>2, <1>3, <1>4 DEF Next

THEOREM LogStaysSound == Spec => []LogInv
BY InitLog, NextLog, PTL DEF Spec

\* No run, however it is cut off, leaves a call without an answer in context.bin.
THEOREM SavedIsAnswered == Spec => []SavedAnswered
<1>1. LogInv => SavedAnswered
  BY CompleteIsAnswered DEF LogInv, Shaped, Sound, SavedAnswered
<1> QED
  BY <1>1, LogStaysSound, PTL

\* The task of a run is in the transcript at every request of the run, however often
\* it was compacted before.
THEOREM ObjectiveStays == Spec => []ObjectiveKept
<1>1. LogInv => ObjectiveKept
  BY DEF LogInv, RunTypes, Objective, ObjectiveKept, LastTask
<1> QED
  BY <1>1, LogStaysSound, PTL

LEMMA TypedIsPlain ==
    ASSUME LogInv, stage = "ready", NEW t \in Typed
    PROVE  t \in Seq(Entries) /\ \A i \in DOMAIN t : Plain(t[i])
<1>1. CASE ~first
  <2>1. t = <<>>
    BY <1>1 DEF Typed
  <2> QED
    BY <2>1, AsideFacts DEF Aside
<1>2. CASE first
  <2> DEFINE e == User(input, runs)
  <2>1. PICK n \in Notes : t = <<e>> \o n
    BY <1>2 DEF Typed
  <2>2. e \in Entries /\ Plain(e)
    BY DEF LogInv, RunTypes, Entries, User, Plain, Inputs
  <2> HIDE DEF e
  <2>3. <<e>> \in Seq(Entries) /\ DOMAIN <<e>> = {1} /\ <<e>>[1] = e /\ Len(<<e>>) = 1
    BY <2>2
  <2>4. n \in Seq(Entries) /\ \A i \in DOMAIN n : Plain(n[i])
    BY AsideFacts DEF Aside
  <2>5. /\ t \in Seq(Entries) /\ Len(n) \in Nat /\ DOMAIN n = 1..Len(n)
        /\ DOMAIN t = 1..(Len(<<e>>) + Len(n))
        /\ \A i \in 1..Len(<<e>>) : t[i] = <<e>>[i]
        /\ \A i \in (Len(<<e>>) + 1)..(Len(<<e>>) + Len(n)) : t[i] = n[i - Len(<<e>>)]
    BY <2>1, <2>3, <2>4, JoinFacts
  <2>6. DOMAIN t = 1..(1 + Len(n)) /\ t[1] = e /\ \A i \in 2..(1 + Len(n)) : t[i] = n[i - 1]
    BY <2>3, <2>5
  <2>7. ASSUME NEW i \in DOMAIN t  PROVE Plain(t[i])
    <3>1. i = 1 \/ (i \in 2..(1 + Len(n)) /\ i - 1 \in DOMAIN n)
      BY <2>5, <2>6
    <3> QED
      BY <3>1, <2>2, <2>4, <2>6
  <2> QED
    BY <2>5, <2>7
<1> QED
  BY <1>1, <1>2 DEF LogInv, RunTypes

\* Plain entries behind a transcript change neither who calls nor what is attached.
LEMMA PlainKeeps ==
    ASSUME NEW s \in Seq(Entries), NEW t \in Seq(Entries), \A i \in DOMAIN t : Plain(t[i]),
           Distinct(s), Attached(s)
    PROVE  Distinct(s \o t) /\ Attached(s \o t)
<1> DEFINE u == s \o t
<1>1. /\ u \in Seq(Entries) /\ Len(u) = Len(s) + Len(t)
      /\ Len(s) \in Nat /\ Len(t) \in Nat /\ DOMAIN s = 1..Len(s)
      /\ DOMAIN t = 1..Len(t) /\ DOMAIN u = 1..(Len(s) + Len(t))
      /\ \A i \in 1..Len(s) : u[i] = s[i]
      /\ \A i \in (Len(s) + 1)..(Len(s) + Len(t)) : u[i] = t[i - Len(s)]
  BY JoinFacts
<1> HIDE DEF u
<1>2. ASSUME NEW i \in DOMAIN u, ~Plain(u[i])  PROVE i \in DOMAIN s /\ u[i] = s[i]
  <2>1. CASE i \in 1..Len(s)
    BY <2>1, <1>1
  <2>2. CASE i \notin 1..Len(s)
    <3>1. i \in (Len(s) + 1)..(Len(s) + Len(t)) /\ i - Len(s) \in 1..Len(t)
      BY <2>2, <1>1
    <3> QED
      BY <3>1, <1>1, <1>2
  <2> QED
    BY <2>1, <2>2
<1>3. Distinct(u)
  <2> SUFFICES ASSUME NEW i \in DOMAIN u, NEW j \in DOMAIN u, i < j, u[i].kind = "calls",
                      NEW c \in ToSet(u[i].ids), c \in CalledIn(Rest(u, i))
               PROVE  FALSE
    BY DEF Distinct
  <2>1. i \in DOMAIN s /\ u[i] = s[i]
    BY <1>2 DEF Plain
  <2>2. PICK x \in DOMAIN Rest(u, i) : Rest(u, i)[x].kind = "calls" /\ c \in ToSet(Rest(u, i)[x].ids)
    BY CalledFacts
  <2>3. x \in 1..(Len(u) - i) /\ Rest(u, i)[x] = u[i + x]
    <3>1. i \in 0..Len(u)
      BY <1>1
    <3>2. u \in Seq(Entries)
      BY <1>1
    <3>3. /\ DOMAIN Rest(u, i) = 1..(Len(u) - i)
          /\ \A y \in 1..(Len(u) - i) : Rest(u, i)[y] = u[i + y]
      BY <3>1, <3>2, RestFacts
    <3> QED
      BY <2>2, <3>3
  <2>4. i + x \in DOMAIN u
    BY <1>1, <2>1, <2>3
  <2>5. i + x \in DOMAIN s /\ u[i + x] = s[i + x]
    BY <1>2, <2>2, <2>3, <2>4 DEF Plain
  <2>6. x \in DOMAIN Rest(s, i) /\ Rest(s, i)[x] = s[i + x]
    <3>1. i \in 0..Len(s) /\ x \in 1..(Len(s) - i)
      BY <1>1, <2>1, <2>3, <2>5
    <3>2. /\ DOMAIN Rest(s, i) = 1..(Len(s) - i)
          /\ \A y \in 1..(Len(s) - i) : Rest(s, i)[y] = s[i + y]
      BY <3>1, RestFacts
    <3> QED
      BY <3>1, <3>2
  <2>7. c \in CalledIn(Rest(s, i))
    BY <2>2, <2>3, <2>5, <2>6, CalledFacts
  <2>8. i < i + x
    BY <1>1, <2>1, <2>3
  <2>9. ToSet(s[i].ids) \cap CalledIn(Rest(s, i)) = {}
    BY <2>1, <2>5, <2>8 DEF Distinct
  <2> QED
    BY <2>1, <2>7, <2>9
<1>4. Attached(u)
  <2> SUFFICES ASSUME NEW i \in DOMAIN u, u[i].kind = "result"
               PROVE  i > 1 /\ u[i - 1].kind \in {"calls", "result"}
    BY DEF Attached
  <2>1. i \in DOMAIN s /\ u[i] = s[i]
    BY <1>2 DEF Plain
  <2>2. i > 1 /\ s[i - 1].kind \in {"calls", "result"}
    BY <2>1 DEF Attached
  <2>3. i - 1 \in 1..Len(s)
    BY <1>1, <2>1, <2>2
  <2> QED
    BY <1>1, <2>2, <2>3
<1> QED
  BY <1>3, <1>4 DEF u

\* Compaction of a transcript in which no id is used twice cuts no result off its
\* call (protocol_safe_keep_from).
THEOREM FoldingIsSafe == Spec => FoldingKeepsPairs
<1>1. ASSUME LogInv, Request, Distinct(log), Attached(log)  PROVE Attached(log')
  <2>1. stage = "ready" /\ Sound(log)
    BY <1>1, LogFacts DEF Request
  <2>2. PICK t \in Typed :
          \/ log' = log \o t
          \/ Len(log \o t) > KeepTail /\ log' = Compacted(log \o t)
    BY <1>1 DEF Request
  <2> DEFINE s == log \o t
  <2>3. Sound(s)
    BY <1>1, <2>1, TypedFacts
  <2>4. Distinct(s) /\ Attached(s)
    BY <1>1, <2>1, TypedIsPlain, PlainKeeps DEF Sound
  <2> HIDE DEF s
  <2>5. Attached(Compacted(s)) \/ ~(Len(s) > KeepTail)
    BY <2>3, <2>4, CompactedIsAttached DEF Sound
  <2> QED
    BY <2>2, <2>4, <2>5 DEF s
<1>2. LogInv /\ [Next]_vars => [Request /\ Distinct(log) /\ Attached(log) => Attached(log')]_vars
  BY <1>1
<1> QED
  BY <1>2, LogStaysSound, PTL DEF Spec, FoldingKeepsPairs

-----------------------------------------------------------------------------
(* retain.  Keep puts what it keeps at its rank among the positions kept.    *)

Rank(K, i) == Cardinality({k \in K : k <= i})

\* The ranks of a finite set of positions are its numbers up to its size.
LEMMA RankFacts ==
    ASSUME NEW N \in Nat, NEW K \in SUBSET (1..N)
    PROVE  /\ Cardinality(K) \in Nat
           /\ \A i \in K : Rank(K, i) \in 1..Cardinality(K)
           /\ \A i, j \in K : Rank(K, i) = Rank(K, j) => i = j
           /\ \A n \in 1..Cardinality(K) : \E i \in K : Rank(K, i) = n
<1>0. \A k \in K : k \in Int
  OBVIOUS
<1>1. IsFiniteSet(K) /\ Cardinality(K) \in Nat
  <2>1. IsFiniteSet(1..N)
    BY FS_Interval
  <2>2. IsFiniteSet(K)
    BY <2>1, FS_Subset
  <2> QED
    BY <2>2, FS_CardinalityType
<1>2. ASSUME NEW i \in K  PROVE  Rank(K, i) \in 1..Cardinality(K)
  <2> DEFINE U == {k \in K : k <= i}
  <2>1. U \in SUBSET K /\ i \in U
    OBVIOUS
  <2>2. IsFiniteSet(U) /\ Cardinality(U) <= Cardinality(K) /\ Cardinality(U) \in Nat
    BY <2>1, <1>1, FS_Subset, FS_CardinalityType
  <2>3. Cardinality(U) # 0
    BY <2>1, <2>2, FS_EmptySet
  <2> QED
    BY <1>1, <2>2, <2>3 DEF Rank
<1>3. ASSUME NEW i \in K, NEW j \in K, i < j  PROVE  Rank(K, i) # Rank(K, j)
  <2> DEFINE U == {k \in K : k <= i}
             V == {k \in K : k <= j}
  <2>0. i \in Int /\ j \in Int /\ ~(j <= i) /\ j <= j /\ \A k \in K : k <= i => k <= j
    BY <1>0, <1>3
  <2>1. U \in SUBSET V /\ j \in V /\ j \notin U /\ V \in SUBSET K
    BY <2>0
  <2>2. IsFiniteSet(V)
    BY <2>1, <1>1, FS_Subset
  <2>3. Cardinality(V) = Cardinality(U) => V = U
    BY <2>1, <2>2, FS_Subset
  <2> QED
    BY <2>1, <2>3 DEF Rank
<1>4. \A i, j \in K : Rank(K, i) = Rank(K, j) => i = j
  <2> SUFFICES ASSUME NEW i \in K, NEW j \in K, i # j  PROVE  Rank(K, i) # Rank(K, j)
    OBVIOUS
  <2>1. i < j \/ j < i
    OBVIOUS
  <2> QED
    BY <2>1, <1>3
<1>5. \A n \in 1..Cardinality(K) : \E i \in K : Rank(K, i) = n
  <2> DEFINE f == [i \in K |-> Rank(K, i)]
             T == 1..Cardinality(K)
  <2>1. f \in [K -> T]
    BY <1>2
  <2>2. f \in Injection(K, T)
    BY <2>1, <1>4 DEF Injection, IsInjective
  <2>3. IsFiniteSet(T) /\ Cardinality(T) = Cardinality(K)
    BY <1>1, FS_Interval
  <2>4. f \in Surjection(K, T)
    BY <2>2, <2>3, FS_Injection
  <2>5. \A n \in T : \E i \in K : f[i] = n
    BY <2>4 DEF Surjection
  <2> QED
    BY <2>5
<1> QED
  BY <1>1, <1>2, <1>4, <1>5

\* Positions that follow one another keep doing so.
LEMMA RankOfNext ==
    ASSUME NEW N \in Nat, NEW K \in SUBSET (1..N), NEW i \in K, NEW d \in Nat,
           \A x \in 1..d : i + x \in K
    PROVE  Rank(K, i + d) = Rank(K, i) + d
<1> DEFINE U == {k \in K : k <= i}
           V == (i + 1)..(i + d)
           W == {k \in K : k <= i + d}
<1>1. i \in 1..N /\ IsFiniteSet(K)
  <2>1. IsFiniteSet(1..N)
    BY FS_Interval
  <2> QED
    BY <2>1, FS_Subset
<1>2. IsFiniteSet(U)
  BY <1>1, FS_Subset
<1>3. IsFiniteSet(V) /\ Cardinality(V) = d
  <2>1. i + 1 \in Int /\ i + d \in Int
    BY <1>1
  <2>2. IsFiniteSet(V) /\ Cardinality(V) = IF i + 1 > i + d THEN 0 ELSE (i + d) - (i + 1) + 1
    BY <2>1, FS_Interval
  <2> QED
    BY <1>1, <2>2
<1>4. V \subseteq K
  <2> SUFFICES ASSUME NEW v \in V  PROVE v \in K
    OBVIOUS
  <2>1. v - i \in 1..d /\ i + (v - i) = v
    BY <1>1
  <2> QED
    BY <2>1
<1>5. W = U \cup V /\ U \cap V = {}
  <2>1. \A k \in K : k \in Int
    OBVIOUS
  <2>2. \A k \in V : k \in K /\ k <= i + d
    BY <1>4
  <2>3. \A k \in K : k <= i + d => k <= i \/ k \in V
    BY <1>1, <2>1
  <2>4. \A k \in K : k <= i => k <= i + d /\ k \notin V
    BY <1>1, <2>1
  <2> QED
    BY <2>2, <2>3, <2>4
<1> HIDE DEF U, V, W
<1>6. Cardinality(U) \in Nat
  BY <1>2, FS_CardinalityType
<1>7. Cardinality(W) = Cardinality(U) + d
  <2>1. Cardinality(U \cup V) = Cardinality(U) + Cardinality(V) - Cardinality(U \cap V)
    BY <1>2, <1>3, FS_Union
  <2>2. Cardinality(U \cap V) = 0
    BY <1>5, FS_EmptySet
  <2> QED
    BY <1>3, <1>5, <1>6, <2>1, <2>2
<1> QED
  BY <1>7 DEF Rank, U, W

LEMMA KeepFacts ==
    ASSUME NEW X, NEW s \in Seq(X), NEW K \in SUBSET (DOMAIN s)
    PROVE  /\ Keep(s, K) \in Seq(X)
           /\ DOMAIN Keep(s, K) = 1..Len(Keep(s, K)) /\ Len(Keep(s, K)) \in Nat
           /\ \A i \in K : Rank(K, i) \in DOMAIN Keep(s, K) /\ Keep(s, K)[Rank(K, i)] = s[i]
           /\ \A n \in DOMAIN Keep(s, K) : \E i \in K : Rank(K, i) = n
<1> DEFINE At(n) == CHOOSE i \in K : Rank(K, i) = n
           W == Keep(s, K)
<1>1. DOMAIN s = 1..Len(s) /\ Len(s) \in Nat /\ \A i \in DOMAIN s : s[i] \in X
  BY LenProperties, ElementOfSeq
<1>2. /\ Cardinality(K) \in Nat
      /\ \A i \in K : Rank(K, i) \in 1..Cardinality(K)
      /\ \A i, j \in K : Rank(K, i) = Rank(K, j) => i = j
      /\ \A n \in 1..Cardinality(K) : \E i \in K : Rank(K, i) = n
  BY <1>1, RankFacts
<1>3. W = [n \in 1..Cardinality(K) |-> s[At(n)]]
  BY DEF Keep, Rank
<1> HIDE DEF W
<1>4. \A n \in 1..Cardinality(K) : At(n) \in K /\ Rank(K, At(n)) = n
  BY <1>2
<1>5. \A i \in K : At(Rank(K, i)) = i
  BY <1>2, <1>4
<1> HIDE DEF At
<1>6. DOMAIN W = 1..Cardinality(K) /\ \A n \in 1..Cardinality(K) : W[n] = s[At(n)]
  BY <1>3
<1>7. W \in Seq(X)
  <2>1. W \in [1..Cardinality(K) -> X]
    BY <1>1, <1>3, <1>4
  <2> QED
    BY <1>2, <2>1, SeqDef
<1>8. DOMAIN W = 1..Len(W) /\ Len(W) \in Nat
  BY <1>7, LenProperties
<1>9. \A i \in K : Rank(K, i) \in DOMAIN W /\ W[Rank(K, i)] = s[i]
  BY <1>2, <1>5, <1>6
<1>10. \A n \in DOMAIN W : \E i \in K : Rank(K, i) = n
  BY <1>2, <1>6
<1> QED
  BY <1>7, <1>8, <1>9, <1>10 DEF W

LEMMA KeepAll ==
    ASSUME NEW X, NEW s \in Seq(X)
    PROVE  Keep(s, DOMAIN s) = s
<1> DEFINE K == DOMAIN s
           W == Keep(s, K)
<1>1. K = 1..Len(s) /\ Len(s) \in Nat
  BY LenProperties
<1>2. \A i \in K : Rank(K, i) = i
  <2> SUFFICES ASSUME NEW i \in K  PROVE Rank(K, i) = i
    OBVIOUS
  <2>1. {k \in K : k <= i} = 1..i /\ i \in Int /\ i >= 1
    BY <1>1
  <2>2. Cardinality(1..i) = IF 1 > i THEN 0 ELSE i - 1 + 1
    <3>1. 1 \in Int /\ i \in Int
      BY <2>1
    <3> QED
      BY <3>1, FS_Interval
  <2>3. Cardinality(1..i) = i
    BY <2>1, <2>2
  <2> QED
    BY <2>1, <2>3 DEF Rank
<1>3. /\ W \in Seq(X) /\ DOMAIN W = 1..Len(W) /\ Len(W) \in Nat
      /\ \A i \in K : Rank(K, i) \in DOMAIN W /\ W[Rank(K, i)] = s[i]
      /\ \A n \in DOMAIN W : \E i \in K : Rank(K, i) = n
  BY KeepFacts
<1> HIDE DEF W
<1>4. \A n : n \in DOMAIN W <=> n \in K
  BY <1>2, <1>3
<1>5. Len(W) = Len(s)
  <2>1. \A n : n \in 1..Len(W) <=> n \in 1..Len(s)
    BY <1>1, <1>3, <1>4
  <2>2. ~(Len(W) < Len(s))
    <3>1. Len(s) \in 1..Len(s) => Len(s) \in 1..Len(W)
      BY <2>1
    <3> QED
      BY <3>1, <1>1, <1>3
  <2>3. ~(Len(s) < Len(W))
    <3>1. Len(W) \in 1..Len(W) => Len(W) \in 1..Len(s)
      BY <2>1
    <3> QED
      BY <3>1, <1>1, <1>3
  <2>4. Len(s) \in Nat /\ Len(W) \in Nat
    BY <1>1, <1>3
  <2> QED
    BY <2>2, <2>3, <2>4
<1>6. \A i \in 1..Len(W) : W[i] = s[i]
  BY <1>1, <1>2, <1>3, <1>5
<1> QED
  BY <1>3, <1>5, <1>6, SeqEqual DEF W

-----------------------------------------------------------------------------
(* The messages of a request.                                                *)

Answer(c) == [role |-> "tool", ids |-> <<c>>]
Msgs      == {Message(e) : e \in Entries}
Spoken(x) == x.role = "assistant"

LEMMA MsgFacts ==
    ASSUME NEW x \in Msgs
    PROVE  /\ x.role \in {"user", "tool", "assistant"}
           /\ x.role = "user" => x.ids = <<>>
           /\ x.role = "tool" => \E c \in CallIds : x = Answer(c)
           /\ Spoken(x) => x.ids = <<>> \/ x.ids \in Invoked
           /\ x = [role |-> x.role, ids |-> x.ids]
<1>1. PICK e \in Entries : x = Message(e)
  BY DEF Msgs
<1>2. x.role = Role(e) /\ x.ids = e.ids /\ x = [role |-> x.role, ids |-> x.ids]
  BY <1>1 DEF Message
<1>3. /\ e.kind \in Inputs \cup {"note", "text", "calls", "result"}
      /\ e.kind = "calls"  => e.ids \in Invoked
      /\ e.kind = "result" => e.ids[1] \in CallIds /\ e = Result(e.ids[1])
      /\ Plain(e) => e.ids = <<>>
  BY EntryFacts
<1>4. CASE e.kind \in Inputs \cup {"note"}
  BY <1>2, <1>3, <1>4 DEF Role, Plain, Inputs, Spoken
<1>5. CASE e.kind = "result"
  <2>1. x.role = "tool"
    BY <1>2, <1>5 DEF Role, Inputs
  <2>2. e.ids = <<e.ids[1]>>
    BY <1>3, <1>5 DEF Result
  <2>3. x = Answer(e.ids[1])
    BY <2>1, <2>2, <1>2 DEF Answer
  <2> QED
    BY <2>1, <2>3, <1>2, <1>3, <1>5 DEF Spoken
<1>6. CASE e.kind = "calls"
  BY <1>2, <1>3, <1>6 DEF Role, Inputs, Spoken
<1>7. CASE e.kind = "text"
  BY <1>2, <1>3, <1>7 DEF Role, Inputs, Plain, Spoken
<1> QED
  BY <1>3, <1>4, <1>5, <1>6, <1>7

LEMMA AnswerFacts ==
    ASSUME NEW c
    PROVE  /\ Answer(c).role = "tool" /\ Answer(c).ids = <<c>> /\ Answer(c).ids[1] = c
           /\ Answer(c).ids # <<>> /\ ToSet(Answer(c).ids) = {c}
           /\ \A d : Answer(c) = Answer(d) => c = d
<1>1. Answer(c).role = "tool" /\ Answer(c).ids = <<c>>
  BY DEF Answer
<1>2. <<c>>[1] = c /\ <<c>> # <<>> /\ ToSet(<<c>>) = {c}
  BY DEF ToSet
<1>3. ASSUME NEW d, Answer(c) = Answer(d)  PROVE c = d
  <2>1. Answer(d).ids = <<d>>
    BY DEF Answer
  <2>2. <<c>>[1] = <<d>>[1]
    BY <2>1, <1>1, <1>3
  <2> QED
    BY <2>2
<1> QED
  BY <1>1, <1>2, <1>3

\* The calls of every message are answered by the messages right behind it.
Served(m, j) == \A k \in DOMAIN m[j].ids :
    j + k \in DOMAIN m /\ m[j + k] = Answer(m[j].ids[k])
Paired(m) ==
    /\ m \in Seq(Msgs)
    /\ \A j \in DOMAIN m : Spoken(m[j]) => Served(m, j)
\* An answer that is the one of a call in front of it.
Owned(m, i) == \E j \in 1..(i - 1) : Spoken(m[j]) /\ i - j \in DOMAIN m[j].ids

\* The calls of a message are numbered from 1.
LEMMA CallsOf ==
    ASSUME NEW m \in Seq(Msgs), NEW j \in DOMAIN m, Spoken(m[j])
    PROVE  /\ m[j].ids \in Seq(CallIds)
           /\ DOMAIN m[j].ids = 1..Len(m[j].ids) /\ Len(m[j].ids) \in Nat
           /\ \A k \in DOMAIN m[j].ids : k \in Nat \ {0}
           /\ \A k, l \in DOMAIN m[j].ids : m[j].ids[k] = m[j].ids[l] => k = l
<1>1. m[j] \in Msgs
  BY ElementOfSeq, LenProperties
<1>2. m[j].ids = <<>> \/ m[j].ids \in Invoked
  BY <1>1, MsgFacts
<1>3. CASE m[j].ids = <<>>
  BY <1>3
<1>4. CASE m[j].ids \in Invoked
  <2> DEFINE b == m[j].ids
  <2>1. /\ b \in Seq(CallIds) /\ DOMAIN b = 1..Len(b) /\ Len(b) \in Nat
        /\ \A i, l \in DOMAIN b : b[i] = b[l] => i = l
    BY <1>4, BatchFacts
  <2> HIDE DEF b
  <2>2. \A k \in DOMAIN b : k \in Nat \ {0}
    BY <2>1
  <2> QED
    BY <2>1, <2>2 DEF b
<1> QED
  BY <1>2, <1>3, <1>4

\* What is kept stays paired when no call is kept without its answer.
LEMMA KeepPaired ==
    ASSUME NEW m, Paired(m), NEW I \in SUBSET (DOMAIN m),
           \A j \in I : Spoken(m[j]) => \A k \in DOMAIN m[j].ids : j + k \in I
    PROVE  /\ Paired(Keep(m, I))
           /\ (\A i \in I : m[i].role = "tool" =>
                   \E j \in I : j < i /\ Spoken(m[j]) /\ i - j \in DOMAIN m[j].ids)
                => WellPaired(Keep(m, I))
<1> DEFINE w == Keep(m, I)
<1>1. m \in Seq(Msgs) /\ DOMAIN m = 1..Len(m) /\ Len(m) \in Nat
  BY LenProperties DEF Paired
<1>2. /\ w \in Seq(Msgs) /\ DOMAIN w = 1..Len(w) /\ Len(w) \in Nat
      /\ \A i \in I : Rank(I, i) \in DOMAIN w /\ w[Rank(I, i)] = m[i]
      /\ \A n \in DOMAIN w : \E i \in I : Rank(I, i) = n
  BY <1>1, KeepFacts
<1> HIDE DEF w
<1>3. ASSUME NEW j \in I, Spoken(m[j]), NEW k \in DOMAIN m[j].ids
      PROVE  /\ Rank(I, j + k) = Rank(I, j) + k
             /\ Rank(I, j) + k \in DOMAIN w
             /\ w[Rank(I, j) + k] = Answer(m[j].ids[k])
  <2>1. DOMAIN m[j].ids = 1..Len(m[j].ids) /\ Len(m[j].ids) \in Nat
    BY <1>1, <1>3, CallsOf
  <2>2. k \in Nat /\ \A x \in 1..k : x \in DOMAIN m[j].ids
    BY <2>1
  <2>3. \A x \in 1..k : j + x \in I
    BY <1>3, <2>2
  <2>4. Rank(I, j + k) = Rank(I, j) + k
    <3>1. Len(m) \in Nat /\ I \in SUBSET (1..Len(m)) /\ j \in I /\ k \in Nat
      BY <1>1, <2>2
    <3> QED
      BY <3>1, <2>3, RankOfNext
  <2>5. j + k \in I /\ m[j + k] = Answer(m[j].ids[k])
    BY <1>3 DEF Paired, Served
  <2> QED
    BY <2>4, <2>5, <1>2
<1>4. Paired(w)
  <2> SUFFICES ASSUME NEW n \in DOMAIN w, Spoken(w[n]), NEW k \in DOMAIN w[n].ids
               PROVE  n + k \in DOMAIN w /\ w[n + k] = Answer(w[n].ids[k])
    BY <1>2 DEF Paired, Served
  <2>1. PICK j \in I : Rank(I, j) = n
    BY <1>2
  <2>2. w[n] = m[j]
    BY <1>2, <2>1
  <2> QED
    BY <1>3, <2>1, <2>2
<1>5. ASSUME \A i \in I : m[i].role = "tool" =>
                 \E j \in I : j < i /\ Spoken(m[j]) /\ i - j \in DOMAIN m[j].ids
      PROVE  WellPaired(w)
  <2>1. ASSUME NEW n \in DOMAIN w, w[n].role = "assistant", NEW k \in DOMAIN w[n].ids
        PROVE  n + k \in DOMAIN w /\ w[n + k].role = "tool" /\ w[n + k].ids[1] = w[n].ids[k]
    <3>1. n + k \in DOMAIN w /\ w[n + k] = Answer(w[n].ids[k])
      BY <1>4, <2>1 DEF Paired, Served, Spoken
    <3> QED
      BY <3>1, AnswerFacts
  <2>2. ASSUME NEW n \in DOMAIN w, w[n].role = "tool"
        PROVE  \E j \in 1..(n - 1) : w[j].role = "assistant" /\ n - j \in DOMAIN w[j].ids
    <3>1. PICK i \in I : Rank(I, i) = n
      BY <1>2
    <3>2. w[n] = m[i]
      BY <1>2, <3>1
    <3>3. PICK j \in I : j < i /\ Spoken(m[j]) /\ i - j \in DOMAIN m[j].ids
      BY <1>5, <2>2, <3>2
    <3>4. j + (i - j) = i
      BY <1>1
    <3>5. n = Rank(I, j) + (i - j) /\ Rank(I, j) \in DOMAIN w /\ w[Rank(I, j)] = m[j]
      BY <1>2, <1>3, <3>1, <3>3, <3>4
    <3>6. n - Rank(I, j) = i - j /\ Rank(I, j) \in 1..(n - 1)
      BY <1>1, <1>2, <3>3, <3>5, SMTT(30)
    <3> QED
      BY <3>3, <3>5, <3>6 DEF Spoken
  <2> QED
    BY <2>1, <2>2 DEF WellPaired
<1> QED
  BY <1>4, <1>5 DEF w

LEMMA MergedIsPaired ==
    ASSUME NEW m, Paired(m)
    PROVE  Paired(Merged(m))
<1> DEFINE I == {i \in DOMAIN m : i = 1 \/ m[i].ids # <<>> \/ m[i] # m[i - 1]}
<1>1. \A j \in I : Spoken(m[j]) => \A k \in DOMAIN m[j].ids : j + k \in I
  <2> SUFFICES ASSUME NEW j \in DOMAIN m, Spoken(m[j]), NEW k \in DOMAIN m[j].ids
               PROVE  j + k \in I
    OBVIOUS
  <2>1. j + k \in DOMAIN m /\ m[j + k] = Answer(m[j].ids[k])
    BY DEF Paired, Served
  <2>2. m[j + k].ids # <<>>
    BY <2>1, AnswerFacts
  <2> QED
    BY <2>1, <2>2
<1>2. I \in SUBSET (DOMAIN m) /\ Merged(m) = Keep(m, I)
  BY DEF Merged
<1> HIDE DEF I
<1>3. Paired(Keep(m, I))
  BY <1>1, <1>2, KeepPaired
<1> QED
  BY <1>2, <1>3

\* No call is left open, so none is dropped.
LEMMA NoneDropped ==
    ASSUME NEW m, Paired(m)
    PROVE  OnlyAnswered(m) = m
<1> DEFINE answered == UNION {ToSet(x.ids) : x \in {y \in ToSet(m) : y.role = "tool"}}
           Left(x)  == Keep(x.ids, {k \in DOMAIN x.ids : x.ids[k] \in answered})
           left     == [i \in DOMAIN m |-> IF m[i].role # "assistant" THEN m[i]
                                           ELSE [m[i] EXCEPT !.ids = Left(m[i])]]
<1>1. m \in Seq(Msgs) /\ DOMAIN m = 1..Len(m) /\ Len(m) \in Nat
  BY LenProperties DEF Paired
<1>2. OnlyAnswered(m) = Keep(left, {i \in DOMAIN m : m[i].ids # <<>> => left[i].ids # <<>>})
  BY DEF OnlyAnswered
<1>3. ASSUME NEW j \in DOMAIN m, Spoken(m[j]), NEW k \in DOMAIN m[j].ids
      PROVE  m[j].ids[k] \in answered
  <2>1. j + k \in DOMAIN m /\ m[j + k] = Answer(m[j].ids[k])
    BY <1>3 DEF Paired, Served
  <2>2. /\ m[j + k] \in ToSet(m) /\ m[j + k].role = "tool"
        /\ m[j].ids[k] \in ToSet(m[j + k].ids)
    BY <2>1, AnswerFacts DEF ToSet
  <2> QED
    BY <2>2
<1> HIDE DEF answered
<1>4. ASSUME NEW j \in DOMAIN m, Spoken(m[j])
      PROVE  Left(m[j]) = m[j].ids
  <2>1. {k \in DOMAIN m[j].ids : m[j].ids[k] \in answered} = DOMAIN m[j].ids
    BY <1>3, <1>4
  <2>2. m[j].ids \in Seq(CallIds)
    BY <1>1, <1>4, CallsOf
  <2>3. Keep(m[j].ids, DOMAIN m[j].ids) = m[j].ids
    BY <2>2, KeepAll
  <2> QED
    BY <2>1, <2>3
<1> HIDE DEF Left
<1>5. ASSUME NEW j \in DOMAIN m  PROVE left[j] = m[j]
  <2>1. CASE m[j].role # "assistant"
    BY <2>1
  <2>2. CASE m[j].role = "assistant"
    <3>1. left[j] = [m[j] EXCEPT !.ids = Left(m[j])]
      BY <2>2
    <3>2. left[j] = [m[j] EXCEPT !.ids = m[j].ids]
      BY <3>1, <2>2, <1>4 DEF Spoken
    <3>3. m[j] \in Msgs
      BY <1>1, ElementOfSeq
    <3>4. m[j] = [role |-> m[j].role, ids |-> m[j].ids]
      BY <3>3, MsgFacts
    <3> QED
      BY <3>2, <3>4
  <2> QED
    BY <2>1, <2>2
<1>6. left = [j \in DOMAIN m |-> m[j]]
  BY <1>5
<1>7. m = [j \in DOMAIN m |-> m[j]]
  <2>1. m \in [1..Len(m) -> Msgs]
    BY <1>1, LenProperties
  <2> QED
    BY <2>1
<1>8. left = m
  BY <1>6, <1>7
<1> HIDE DEF left
<1>9. {i \in DOMAIN m : m[i].ids # <<>> => left[i].ids # <<>>} = DOMAIN m
  BY <1>8
<1>10. Keep(m, DOMAIN m) = m
  BY <1>1, KeepAll
<1> QED
  BY <1>2, <1>8, <1>9, <1>10

\* An answer is open exactly when it is owned: any other came too late.
LEMMA OpenIsOwned ==
    ASSUME NEW m, Paired(m), NEW i \in DOMAIN m, m[i].role = "tool"
    PROVE  Open(m, i) <=> Owned(m, i)
<1>1. m \in Seq(Msgs) /\ DOMAIN m = 1..Len(m) /\ Len(m) \in Nat /\ m[i] \in Msgs
  BY LenProperties, ElementOfSeq DEF Paired
<1>2. PICK c \in CallIds : m[i] = Answer(c)
  BY <1>1, MsgFacts
<1>3. m[i].ids = <<c>> /\ m[i].ids[1] = c
  BY <1>2, AnswerFacts
<1>4. ASSUME NEW j \in 1..(i - 1), Spoken(m[j]), NEW k \in DOMAIN m[j].ids
      PROVE  /\ k \in Nat \ {0} /\ j + k \in DOMAIN m
             /\ m[j + k] = Answer(m[j].ids[k])
  <2>1. j \in DOMAIN m
    BY <1>1
  <2>2. k \in Nat \ {0}
    BY <2>1, <1>1, <1>4, CallsOf
  <2> QED
    BY <2>1, <2>2, <1>4 DEF Paired, Served
<1>5. ASSUME Open(m, i)  PROVE Owned(m, i)
  <2>1. PICK j \in 1..(i - 1) :
           /\ m[j].role = "assistant" /\ m[i].ids[1] \in ToSet(m[j].ids)
           /\ \A k \in (j + 1)..(i - 1) : m[k].role = "tool" => m[k].ids # m[i].ids
    BY <1>5 DEF Open
  <2>2. PICK k \in DOMAIN m[j].ids : m[j].ids[k] = c
    BY <2>1, <1>3 DEF ToSet
  <2>3. Spoken(m[j])
    BY <2>1 DEF Spoken
  <2>4. k \in Nat \ {0} /\ j + k \in DOMAIN m /\ m[j + k] = Answer(c)
    BY <1>4, <2>2, <2>3
  <2>5. ~(j + k < i)
    <3> SUFFICES ASSUME j + k < i  PROVE FALSE
      OBVIOUS
    <3>1. j + k \in (j + 1)..(i - 1)
      BY <1>1, <2>4
    <3> QED
      BY <3>1, <2>1, <2>4, <1>3, AnswerFacts
  <2>6. i - j \in DOMAIN m[j].ids
    <3>1. j \in DOMAIN m /\ i - j \in 1..k
      BY <1>1, <2>4, <2>5
    <3>2. DOMAIN m[j].ids = 1..Len(m[j].ids) /\ Len(m[j].ids) \in Nat
      BY <3>1, <2>3, <1>1, CallsOf
    <3> QED
      BY <3>1, <3>2, <2>2
  <2> QED
    BY <2>3, <2>6 DEF Owned
<1>6. ASSUME Owned(m, i)  PROVE Open(m, i)
  <2>1. PICK j \in 1..(i - 1) : Spoken(m[j]) /\ i - j \in DOMAIN m[j].ids
    BY <1>6 DEF Owned
  <2>2. j + (i - j) = i /\ j \in DOMAIN m
    BY <1>1
  <2>3. m[i] = Answer(m[j].ids[i - j])
    BY <1>4, <2>1, <2>2
  <2>4. m[j].ids[i - j] = c
    BY <2>3, <1>2, AnswerFacts
  <2>5. m[i].ids[1] \in ToSet(m[j].ids)
    BY <2>1, <2>4, <1>3 DEF ToSet
  <2>6. /\ DOMAIN m[j].ids = 1..Len(m[j].ids) /\ Len(m[j].ids) \in Nat
        /\ \A k, l \in DOMAIN m[j].ids : m[j].ids[k] = m[j].ids[l] => k = l
    BY <2>1, <2>2, <1>1, CallsOf
  <2>7. ASSUME NEW k \in (j + 1)..(i - 1)  PROVE m[k].ids # m[i].ids
    <3>1. k - j \in DOMAIN m[j].ids /\ k - j # i - j /\ j + (k - j) = k
      BY <1>1, <2>1, <2>6
    <3>2. m[k] = Answer(m[j].ids[k - j])
      BY <3>1, <2>1, <1>4
    <3>3. m[j].ids[k - j] # c
      BY <3>1, <2>1, <2>4, <2>6
    <3>4. m[k].ids = <<m[j].ids[k - j]>>
      BY <3>2, AnswerFacts
    <3>5. <<m[j].ids[k - j]>>[1] # <<c>>[1]
      BY <3>3
    <3> QED
      BY <3>4, <3>5, <1>3
  <2> QED
    BY <2>1, <2>5, <2>7 DEF Open, Spoken
<1> QED
  BY <1>5, <1>6

LEMMA RepairedIsPaired ==
    ASSUME NEW m, Paired(m)
    PROVE  Paired(Repaired(m)) /\ WellPaired(Repaired(m))
<1> DEFINE I == {i \in DOMAIN m : m[i].role = "tool" => Open(m, i)}
<1>1. Repaired(m) = Keep(m, I)
  BY NoneDropped DEF Repaired, OnlyCalled
<1>2. m \in Seq(Msgs) /\ DOMAIN m = 1..Len(m) /\ Len(m) \in Nat
  BY LenProperties DEF Paired
<1>3. ASSUME NEW j \in DOMAIN m, Spoken(m[j]), NEW k \in DOMAIN m[j].ids
      PROVE  j + k \in I
  <2>1. j + k \in DOMAIN m /\ m[j + k] = Answer(m[j].ids[k])
    BY <1>3 DEF Paired, Served
  <2>2. m[j + k].role = "tool"
    BY <2>1, AnswerFacts
  <2>3. k \in Nat \ {0}
    BY <1>2, <1>3, CallsOf
  <2>4. j \in 1..((j + k) - 1) /\ (j + k) - j = k
    BY <1>2, <2>3
  <2>5. Owned(m, j + k)
    BY <1>3, <2>4 DEF Owned
  <2> QED
    BY <2>1, <2>2, <2>5, OpenIsOwned
<1>4. ASSUME NEW i \in I, m[i].role = "tool"
      PROVE  \E j \in I : j < i /\ Spoken(m[j]) /\ i - j \in DOMAIN m[j].ids
  <2>1. Owned(m, i)
    BY <1>4, OpenIsOwned
  <2>2. PICK j \in 1..(i - 1) : Spoken(m[j]) /\ i - j \in DOMAIN m[j].ids
    BY <2>1 DEF Owned
  <2>3. j \in DOMAIN m /\ j < i /\ m[j].role # "tool"
    BY <1>2, <2>2 DEF Spoken
  <2> QED
    BY <2>2, <2>3
<1>5. I \in SUBSET (DOMAIN m) /\ \A j \in I : Spoken(m[j]) => \A k \in DOMAIN m[j].ids : j + k \in I
  BY <1>3
<1> HIDE DEF I
<1> QED
  BY <1>1, <1>4, <1>5, KeepPaired

LEMMA TailIsPaired ==
    ASSUME NEW m, Paired(m), Len(m) > 1
    PROVE  Paired(Tail(m))
<1>1. m \in Seq(Msgs) /\ DOMAIN m = 1..Len(m) /\ Len(m) \in Nat
  BY LenProperties DEF Paired
<1>2. m # <<>>
  BY <1>1, EmptySeq
<1>3. /\ Tail(m) \in Seq(Msgs) /\ Len(Tail(m)) = Len(m) - 1
      /\ \A i \in 1..Len(Tail(m)) : Tail(m)[i] = m[i + 1]
  BY <1>1, <1>2, HeadTailProperties
<1>4. DOMAIN Tail(m) = 1..(Len(m) - 1)
  BY <1>3, LenProperties
<1> SUFFICES ASSUME NEW j \in DOMAIN Tail(m), Spoken(Tail(m)[j]), NEW k \in DOMAIN Tail(m)[j].ids
             PROVE  j + k \in DOMAIN Tail(m) /\ Tail(m)[j + k] = Answer(Tail(m)[j].ids[k])
  BY <1>3 DEF Paired, Served
<1>5. Tail(m)[j] = m[j + 1] /\ j + 1 \in DOMAIN m
  BY <1>1, <1>3, <1>4
<1>6. k \in Nat \ {0}
  BY <1>1, <1>5, CallsOf
<1>7. (j + 1) + k \in DOMAIN m /\ m[(j + 1) + k] = Answer(m[j + 1].ids[k])
  BY <1>5 DEF Paired, Served
<1>8. j + k \in 1..(Len(m) - 1) /\ (j + k) + 1 = (j + 1) + k
  BY <1>1, <1>4, <1>6, <1>7
<1> QED
  BY <1>3, <1>4, <1>5, <1>7, <1>8

\* A function that each value of which is made of the one before exists, however
\* long it is: a shortest length without one is that of one too.
LEMMA CutsExist ==
    ASSUME NEW m, NEW most \in Nat
    PROVE  \E g : g = [n \in 0..most |->
               IF n = 0 THEN m
               ELSE IF Len(g[n - 1]) > 1 THEN Repaired(Tail(g[n - 1])) ELSE g[n - 1]]
<1> DEFINE Step(x) == IF Len(x) > 1 THEN Repaired(Tail(x)) ELSE x
           IsCut(g, l) == g = [n \in 0..l |-> IF n = 0 THEN m ELSE Step(g[n - 1])]
           T == {l \in 0..most : \A g : ~IsCut(g, l)}
<1>1. T = {}
  <2> SUFFICES ASSUME T # {}  PROVE FALSE
    OBVIOUS
  <2> DEFINE l == Min(T)
  <2>1. l \in T /\ \A y \in T : l <= y
    <3>1. T \in SUBSET (0..most)
      OBVIOUS
    <3> HIDE DEF T
    <3> QED
      BY <3>1, LeastOf
  <2> HIDE DEF l
  <2>2. l \in 0..most /\ \A g : ~IsCut(g, l)
    BY <2>1
  <2> HIDE DEF Step
  <2>3. CASE l = 0
    <3> DEFINE g == [n \in 0..0 |-> m]
    <3>1. IsCut(g, 0)
      OBVIOUS
    <3> QED
      BY <3>1, <2>2, <2>3
  <2>4. CASE l # 0
    <3>1. l - 1 \in 0..most /\ ~(l <= l - 1)
      BY <2>2, <2>4
    <3>2. PICK f : IsCut(f, l - 1)
      BY <3>1, <2>1
    <3> DEFINE g == [n \in 0..l |-> IF n = l THEN Step(f[l - 1]) ELSE f[n]]
    <3>3. \A n \in 0..(l - 1) : f[n] = IF n = 0 THEN m ELSE Step(f[n - 1])
      BY <3>2
    <3>4. ASSUME NEW n \in 0..l  PROVE g[n] = IF n = 0 THEN m ELSE Step(g[n - 1])
      <4>1. CASE n = l
        <5>1. l - 1 \in 0..l /\ l - 1 # l /\ n # 0
          BY <4>1, <2>2, <2>4
        <5>2. g[l - 1] = f[l - 1] /\ g[n] = Step(f[l - 1])
          BY <5>1, <4>1
        <5> QED
          BY <5>1, <5>2, <4>1
      <4>2. CASE n # l /\ n # 0
        <5>1. n \in 0..(l - 1) /\ n - 1 \in 0..l /\ n - 1 # l
          BY <4>2, <2>2
        <5>2. g[n] = f[n] /\ g[n - 1] = f[n - 1]
          BY <5>1, <4>2
        <5> QED
          BY <5>1, <5>2, <4>2, <3>3
      <4>3. CASE n # l /\ n = 0
        <5>1. n \in 0..(l - 1)
          BY <4>3, <2>2
        <5> QED
          BY <5>1, <4>3, <3>3
      <4> QED
        BY <4>1, <4>2, <4>3
    <3>5. g = [n \in 0..l |-> g[n]]
      OBVIOUS
    <3> HIDE DEF g
    <3>6. IsCut(g, l)
      BY <3>4, <3>5
    <3> QED
      BY <3>6, <2>2
  <2> QED
    BY <2>3, <2>4
<1>2. most \in 0..most
  OBVIOUS
<1>3. PICK g : IsCut(g, most)
  BY <1>1, <1>2
<1>4. IsCut(g, most)
  BY <1>3
<1> QED
  BY <1>4 DEF Step

LEMMA CutsArePaired ==
    ASSUME NEW m, Paired(m), NEW most \in Nat, NEW x \in MayTrim(m, most)
    PROVE  Paired(x)
<1> DEFINE C == CHOOSE g : g = [n \in 0..most |->
               IF n = 0 THEN m
               ELSE IF Len(g[n - 1]) > 1 THEN Repaired(Tail(g[n - 1])) ELSE g[n - 1]]
<1>1. MayTrim(m, most) = {C[n] : n \in 0..most}
  BY DEF MayTrim
<1>2. C = [n \in 0..most |->
               IF n = 0 THEN m
               ELSE IF Len(C[n - 1]) > 1 THEN Repaired(Tail(C[n - 1])) ELSE C[n - 1]]
  BY CutsExist
<1> HIDE DEF C
<1>3. /\ C[0] = m
      /\ \A n \in 1..most :
             C[n] = IF Len(C[n - 1]) > 1 THEN Repaired(Tail(C[n - 1])) ELSE C[n - 1]
  BY <1>2
<1> DEFINE T == {n \in 0..most : ~Paired(C[n])}
<1>4. T = {}
  <2> SUFFICES ASSUME T # {}  PROVE FALSE
    OBVIOUS
  <2> DEFINE l == Min(T)
  <2>1. l \in T /\ \A y \in T : l <= y
    <3>1. T \in SUBSET (0..most)
      OBVIOUS
    <3> HIDE DEF T
    <3> QED
      BY <3>1, LeastOf
  <2> HIDE DEF l
  <2>2. l \in 0..most /\ ~Paired(C[l])
    BY <2>1
  <2>3. l # 0
    BY <2>2, <1>3
  <2>4. l \in 1..most /\ l - 1 \in 0..most /\ ~(l <= l - 1)
    BY <2>2, <2>3
  <2>5. Paired(C[l - 1])
    BY <2>1, <2>4
  <2>6. C[l] = C[l - 1] \/ (Len(C[l - 1]) > 1 /\ C[l] = Repaired(Tail(C[l - 1])))
    BY <2>4, <1>3
  <2> QED
    BY <2>2, <2>5, <2>6, TailIsPaired, RepairedIsPaired
<1> HIDE DEF T
<1>5. PICK n \in 0..most : x = C[n]
  BY <1>1
<1> QED
  BY <1>4, <1>5 DEF T

\* The messages of a complete transcript are paired.
LEMMA CompleteIsPaired ==
    ASSUME NEW s \in Seq(Entries), Complete(s)
    PROVE  Paired([i \in 1..Len(s) |-> Message(s[i])])
<1> DEFINE m == [i \in 1..Len(s) |-> Message(s[i])]
<1>1. DOMAIN s = 1..Len(s) /\ Len(s) \in Nat /\ \A i \in DOMAIN s : s[i] \in Entries
  BY LenProperties, ElementOfSeq
<1>2. m \in Seq(Msgs) /\ DOMAIN m = 1..Len(s)
  <2>1. m \in [1..Len(s) -> Msgs]
    BY <1>1 DEF Msgs
  <2> QED
    BY <2>1, <1>1, SeqDef
<1> SUFFICES ASSUME NEW j \in DOMAIN m, Spoken(m[j]), NEW k \in DOMAIN m[j].ids
             PROVE  j + k \in DOMAIN m /\ m[j + k] = Answer(m[j].ids[k])
  BY <1>2 DEF Paired, Served
<1>3. j \in DOMAIN s /\ m[j] = Message(s[j]) /\ s[j] \in Entries
  BY <1>1, <1>2
<1>4. m[j].role = Role(s[j]) /\ m[j].ids = s[j].ids
  BY <1>3 DEF Message
<1>5. /\ s[j].kind \in Inputs \cup {"note", "text", "calls", "result"}
      /\ Plain(s[j]) => s[j].ids = <<>>
  BY <1>3, EntryFacts
<1>6. s[j].kind \in {"text", "calls"}
  BY <1>4, <1>5 DEF Role, Spoken, Inputs
<1>7. s[j].kind = "calls"
  <2> SUFFICES ASSUME s[j].kind = "text"  PROVE FALSE
    BY <1>6
  <2>1. m[j].ids = <<>>
    BY <1>4, <1>5 DEF Plain
  <2> QED
    BY <2>1
<1>8. j + k \in DOMAIN s /\ s[j + k] = Result(s[j].ids[k])
  BY <1>3, <1>4, <1>7 DEF Complete, Whole
<1>9. m[j + k] = Message(Result(s[j].ids[k]))
  BY <1>1, <1>2, <1>8
<1>10. Message(Result(s[j].ids[k])) = Answer(s[j].ids[k])
  BY DEF Message, Result, Role, Answer, Inputs
<1> QED
  BY <1>1, <1>2, <1>4, <1>8, <1>9, <1>10

\* Whatever was folded, replayed, restored or cut off to fit, every request has the
\* calls of each message answered by the messages right after it, each once, and no
\* other answer: to_messages makes no request a provider would reject for its calls.
THEOREM RequestsArePaired == Spec => []RequestsWellPaired
<1>1. ASSUME LogInv  PROVE RequestsWellPaired
  <2> SUFFICES ASSUME stage = "asking", NEW x \in Requests  PROVE WellPaired(x)
    BY DEF RequestsWellPaired
  <2>1. log \in Seq(Entries) /\ Complete(log)
    BY <1>1 DEF LogInv, Shaped
  <2>2. Paired([i \in 1..Len(log) |-> Message(log[i])])
    BY <2>1, CompleteIsPaired
  <2>3. Paired(Untrimmed)
    BY <2>2, MergedIsPaired DEF Untrimmed
  <2>4. PICK m \in MayTrim(Untrimmed, Len(Untrimmed)) : x = Repaired(m)
    BY DEF Requests
  <2>5. Len(Untrimmed) \in Nat
    BY <2>3, LenProperties DEF Paired
  <2>6. Paired(m)
    BY <2>3, <2>4, <2>5, CutsArePaired
  <2> QED
    BY <2>4, <2>6, RepairedIsPaired
<1> QED
  BY <1>1, LogStaysSound, PTL

-----------------------------------------------------------------------------
(* The call that waits for an approval.                                      *)

\* The halts and the two places that name one.
HaltTypes ==
    /\ halts \in 0..MaxHalts /\ sidecar \in 0..halts /\ waiting \in 0..halts
    /\ taken \in [Halts -> Nat]
    /\ first \in BOOLEAN /\ committee \in BOOLEAN /\ stage \in Stages

\* A call in the file was not taken yet, and no call was taken before its halt.
Untaken == \A n \in Halts :
    /\ taken[n] <= 1
    /\ n > halts \/ n = sidecar => taken[n] = 0

\* After the first turn's boundary a run of the loop has emptied the file.
Emptied ==
    ~committee /\ (stage \in {"replaying", "ready", "asking", "acting", "ended"}
                   \/ (stage = "boundary" /\ ~first)) => sidecar = None

HaltInv ==
    /\ HaltTypes
    /\ Untaken
    /\ Emptied
    /\ waiting # None => stage = "idle"
    /\ AskedIsPending

LEMMA InitHalt == Init => HaltInv
<1> SUFFICES ASSUME Init PROVE HaltInv
  OBVIOUS
<1>1. /\ sidecar = 0 /\ waiting = 0 /\ halts = 0 /\ taken = [n \in Halts |-> 0]
      /\ stage = "idle" /\ first = FALSE /\ committee = FALSE
  BY DEF Init, None
<1>2. MaxHalts \in Nat
  BY TranscriptBoundAssumption DEF TranscriptBoundAssumption
<1>3. /\ halts \in 0..MaxHalts /\ sidecar \in 0..halts /\ waiting \in 0..halts
      /\ taken \in [Halts -> Nat] /\ stage \in Stages
  BY <1>1, <1>2 DEF Stages
<1>4. Untaken
  BY <1>1 DEF Untaken
<1> QED
  BY <1>1, <1>3, <1>4 DEF HaltInv, HaltTypes, Emptied, AskedIsPending, None

\* The files and the halts stay as they are: a step that only moves on.
LEMMA MovesOn ==
    ASSUME HaltInv, UNCHANGED <<sidecar, halts, taken, waiting, committee>>,
           first' \in BOOLEAN, stage' \in Stages,
           waiting # None => stage' = "idle",
           stage' = "idle"
             \/ stage \in {"replaying", "ready", "asking", "acting", "ended"}
             \/ (stage = "boundary" /\ ~first)
    PROVE  HaltInv'
BY DEF HaltInv, HaltTypes, Untaken, Emptied, AskedIsPending, Stages

LEMMA StartsHalt ==
    ASSUME HaltInv, NEW i, NEW c \in BOOLEAN, Starts(i, c)
    PROVE  HaltInv'
BY TranscriptBoundAssumption
   DEF TranscriptBoundAssumption, HaltInv, HaltTypes, Untaken, Emptied, AskedIsPending, Starts, Stages, Halts,
       None, files

LEMMA OperatorHalt == HaltInv /\ Operator => HaltInv'
<1> SUFFICES ASSUME HaltInv, Operator PROVE HaltInv'
  OBVIOUS
<1>1. ASSUME NEW c \in BOOLEAN, Approve(c) PROVE HaltInv'
  BY <1>1, StartsHalt DEF Approve
<1>2. ASSUME NEW c \in BOOLEAN, NEW i \in Inputs, Submit(i, c) PROVE HaltInv'
  BY <1>2, StartsHalt DEF Submit
<1>3. CASE Deny
  BY <1>3 DEF Deny, HaltInv, HaltTypes, Untaken, Emptied, AskedIsPending, Stages,
              Halts, None, files, run
<1>4. CASE Clear
  BY <1>4 DEF Clear, HaltInv, HaltTypes, Untaken, Emptied, AskedIsPending, Stages,
              Halts, None, run
<1> QED
  BY <1>1, <1>2, <1>3, <1>4 DEF Operator

\* The one step that takes the call, and the one that puts it there.
LEMMA BoundaryHalt == HaltInv /\ Boundary => HaltInv'
<1> SUFFICES ASSUME HaltInv, Boundary PROVE HaltInv'
  OBVIOUS
<1>1. CASE first /\ sidecar # None /\ ~committee
  <2>1. sidecar' = None /\ taken' = [taken EXCEPT ![sidecar] = @ + 1]
        /\ stage' = "replaying" /\ UNCHANGED <<halts, waiting, first, committee>>
    BY <1>1 DEF Boundary, Take, run
  <2>2. sidecar \in Halts /\ taken[sidecar] = 0
    <3>1. sidecar # 0
      BY <1>1 DEF None
    <3>2. halts \in 0..MaxHalts /\ sidecar \in 0..halts
      BY DEF HaltInv, HaltTypes
    <3>3. sidecar \in Halts
      BY <3>1, <3>2, TranscriptBoundAssumption DEF Halts, TranscriptBoundAssumption
    <3> QED
      BY <3>3 DEF HaltInv, Untaken
  <2>3. /\ halts' \in 0..MaxHalts /\ sidecar' \in 0..halts' /\ waiting' \in 0..halts'
        /\ taken' \in [Halts -> Nat]
    <3>1. halts \in 0..MaxHalts /\ waiting \in 0..halts /\ taken \in [Halts -> Nat]
      BY DEF HaltInv, HaltTypes
    <3>2. taken' \in [Halts -> Nat]
      BY <2>1, <2>2, <3>1
    <3>3. halts' \in 0..MaxHalts /\ sidecar' \in 0..halts' /\ waiting' \in 0..halts'
      BY <2>1, <3>1, TranscriptBoundAssumption DEF None, TranscriptBoundAssumption
    <3> QED
      BY <3>2, <3>3
  <2>6. stage' \in Stages
    BY <2>1 DEF Stages
  <2>4. Untaken'
    BY <2>1, <2>2 DEF HaltInv, HaltTypes, Untaken, Halts, None
  <2>5. waiting' = None
    BY <2>1 DEF HaltInv, Boundary
  <2> QED
    BY <2>1, <2>3, <2>4, <2>5, <2>6 DEF HaltInv, HaltTypes, Emptied, AskedIsPending
<1>2. CASE ~(first /\ sidecar # None /\ ~committee)
  BY <1>2 DEF Boundary, run, HaltInv, HaltTypes, Untaken, Emptied, AskedIsPending,
              Stages, Halts, None
<1> QED
  BY <1>1, <1>2

LEMMA NeedsApprovalHalt == HaltInv /\ NeedsApproval => HaltInv'
<1> SUFFICES ASSUME HaltInv, NeedsApproval PROVE HaltInv'
  OBVIOUS
<1>1. /\ halts < MaxHalts /\ halts' = halts + 1 /\ waiting' = halts'
      /\ sidecar' = sidecar \/ sidecar' = halts'
      /\ stage = "acting" /\ stage' = "idle"
      /\ UNCHANGED <<taken, first, committee>>
  BY DEF NeedsApproval, Leaves, run
<1>2. halts' \in Halts /\ taken[halts'] = 0 /\ halts \in Nat
  BY <1>1, TranscriptBoundAssumption DEF TranscriptBoundAssumption, HaltInv, HaltTypes, Untaken, Halts
<1>3. ~committee => sidecar = None
  BY <1>1 DEF HaltInv, Emptied
<1> QED
  BY <1>1, <1>2, <1>3, TranscriptBoundAssumption
  DEF TranscriptBoundAssumption, HaltInv, HaltTypes, Untaken, Emptied, AskedIsPending, Stages, Halts, None

LEMMA TurnHalt == HaltInv /\ Turn => HaltInv'
<1> SUFFICES ASSUME HaltInv, Turn PROVE HaltInv'
  OBVIOUS
<1> USE DEF Same, approval, run, files
<1>0. waiting # None => stage = "idle"
  BY DEF HaltInv
<1>1. first \in BOOLEAN
  BY DEF HaltInv, HaltTypes
<1>2. ASSUME NEW s, Fails(s) PROVE stage' \in {"boundary", "idle"}
  BY <1>2 DEF Fails, Leaves
<1>3. CASE Boundary
  BY <1>3, BoundaryHalt
<1>4. CASE NeedsApproval
  BY <1>4, NeedsApprovalHalt
<1>5. CASE Replayed
  BY <1>0, <1>1, <1>5, MovesOn DEF Replayed, Stages
<1>6. CASE Request
  BY <1>0, <1>1, <1>6, MovesOn DEF Request, Stages
<1>7. CASE ProviderFails
  BY <1>0, <1>1, <1>2, <1>7, MovesOn DEF ProviderFails, Stages
<1>8. CASE Replies
  BY <1>0, <1>1, <1>2, <1>8, MovesOn DEF Replies, Succeeds, Stages
<1>9. CASE Invokes
  BY <1>0, <1>1, <1>9, MovesOn DEF Invokes, Stages
<1>10. CASE Finishes
  BY <1>0, <1>1, <1>10, MovesOn DEF Finishes, Succeeds, Stages
<1>11. CASE ToolFails
  BY <1>0, <1>1, <1>2, <1>11, MovesOn DEF ToolFails, Stages
<1>12. CASE Ended
  BY <1>0, <1>1, <1>12, MovesOn DEF Ended, Leaves, Stages
<1> QED
  BY <1>3, <1>4, <1>5, <1>6, <1>7, <1>8, <1>9, <1>10, <1>11, <1>12 DEF Turn

LEMMA NextHalt == HaltInv /\ [Next]_vars => HaltInv'
<1> SUFFICES ASSUME HaltInv, [Next]_vars PROVE HaltInv'
  OBVIOUS
<1>1. CASE Operator
  BY <1>1, OperatorHalt
<1>2. CASE Turn
  BY <1>2, TurnHalt
<1>3. CASE Quit
  <2>1. /\ UNCHANGED <<sidecar, halts, taken, waiting, committee, first>>
        /\ stage' = "idle"
    BY <1>3 DEF Quit, Leaves, files, approval, run
  <2> QED
    BY <2>1, MovesOn DEF HaltInv, HaltTypes, Stages
<1>4. CASE UNCHANGED vars
  BY <1>4 DEF vars, files, approval, run, HaltInv, HaltTypes, Untaken, Emptied,
              AskedIsPending
<1> QED
  BY <1>1, <1>2, <1>3, <1>4 DEF Next

THEOREM HaltsStaySound == Spec => []HaltInv
BY InitHalt, NextHalt, PTL DEF Spec

\* However often the session is run again, and wherever a run is cut off, the
\* call of a halt is taken at most once (take_pending_resume).
THEOREM NoCallIsTakenTwice == Spec => []TakenOnce
<1>1. HaltInv => TakenOnce
  BY DEF HaltInv, Untaken, TakenOnce
<1> QED
  BY <1>1, HaltsStaySound, PTL

\* The operator is never asked about one call while the file holds another, unless
\* a committee loop ran in between.
THEOREM QuestionMatchesFile == Spec => []AskedIsPending
<1>1. HaltInv => AskedIsPending
  BY DEF HaltInv
<1> QED
  BY <1>1, HaltsStaySound, PTL

\* An approval is of the call the operator was shown, and is good for one execution,
\* over any chain of halts, denials and runs (pending_resume.bin).
THEOREM ApprovalIsForOneCall == Spec => []ApprovedOnce
BY NoCallIsTakenTwice, QuestionMatchesFile, PTL DEF ApprovedOnce
=============================================================================
