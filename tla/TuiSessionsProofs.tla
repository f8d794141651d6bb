------------------------- MODULE TuiSessionsProofs -------------------------
(***************************************************************************)
(* The terminal loop, the session router and the runs: what holds for any   *)
(* number of sessions, tasks and prompts.                                   *)
(***************************************************************************)
EXTENDS TuiSessions, FiniteSetTheorems, SequenceTheorems, TLAPS

-----------------------------------------------------------------------------
(* Sequences without repetition.                                            *)

Distinct(q) == \A i, j \in DOMAIN q : q[i] = q[j] => i = j
Rank(K, i)  == Cardinality({k \in K : k <= i})

\* The ranks of a finite set of positions are its numbers up to its size.
LEMMA RankFacts ==
    ASSUME NEW N \in Nat, NEW K \in SUBSET (1..N)
    PROVE  /\ Cardinality(K) \in Nat
           /\ \A i \in K : Rank(K, i) \in 1..Cardinality(K)
           /\ \A i, j \in K : Rank(K, i) = Rank(K, j) => i = j
           /\ \A n \in 1..Cardinality(K) : \E i \in K : Rank(K, i) = n
<1>0. \A k \in K : k \in Int
  OBVIOUS
<1>1. IsFiniteSet(K) /\ Cardinality(K) \in Nat
  <2>1. IsFiniteSet(1..N)
    BY FS_Interval
  <2>2. IsFiniteSet(K)
    BY <2>1, FS_Subset
  <2> QED
    BY <2>2, FS_CardinalityType
<1>2. ASSUME NEW i \in K  PROVE  Rank(K, i) \in 1..Cardinality(K)
  <2> DEFINE U == {k \in K : k <= i}
  <2>1. U \in SUBSET K /\ i \in U
    OBVIOUS
  <2>2. IsFiniteSet(U) /\ Cardinality(U) <= Cardinality(K) /\ Cardinality(U) \in Nat
    BY <2>1, <1>1, FS_Subset, FS_CardinalityType
  <2>3. Cardinality(U) # 0
    BY <2>1, <2>2, FS_EmptySet
  <2> QED
    BY <1>1, <2>2, <2>3 DEF Rank
<1>3. ASSUME NEW i \in K, NEW j \in K, i < j  PROVE  Rank(K, i) # Rank(K, j)
  <2> DEFINE U == {k \in K : k <= i}
             V == {k \in K : k <= j}
  <2>0. i \in Int /\ j \in Int /\ ~(j <= i) /\ j <= j /\ \A k \in K : k <= i => k <= j
    BY <1>0, <1>3
  <2>1. U \in SUBSET V /\ j \in V /\ j \notin U /\ V \in SUBSET K
    BY <2>0
  <2>2. IsFiniteSet(V)
    BY <2>1, <1>1, FS_Subset
  <2>3. Cardinality(V) = Cardinality(U) => V = U
    BY <2>1, <2>2, FS_Subset
  <2> QED
    BY <2>1, <2>3 DEF Rank
<1>4. \A i, j \in K : Rank(K, i) = Rank(K, j) => i = j
  <2> SUFFICES ASSUME NEW i \in K, NEW j \in K, i # j  PROVE  Rank(K, i) # Rank(K, j)
    OBVIOUS
  <2>1. i < j \/ j < i
    OBVIOUS
  <2> QED
    BY <2>1, <1>3
<1>5. \A n \in 1..Cardinality(K) : \E i \in K : Rank(K, i) = n
  <2> DEFINE f == [i \in K |-> Rank(K, i)]
             T == 1..Cardinality(K)
  <2>1. f \in [K -> T]
    BY <1>2
  <2>2. f \in Injection(K, T)
    BY <2>1, <1>4 DEF Injection, IsInjective
  <2>3. IsFiniteSet(T) /\ Cardinality(T) = Cardinality(K)
    BY <1>1, FS_Interval
  <2>4. f \in Surjection(K, T)
    BY <2>2, <2>3, FS_Injection
  <2>5. \A n \in T : \E i \in K : f[i] = n
    BY <2>4 DEF Surjection
  <2> QED
    BY <2>5
<1> QED
  BY <1>1, <1>2, <1>4, <1>5

\* retain: what Without leaves of a sequence.
LEMMA WithoutFacts ==
    ASSUME NEW X, NEW q \in Seq(X), NEW s, Distinct(q)
    PROVE  /\ Without(q, s) \in Seq(X) /\ Distinct(Without(q, s))
           /\ In(Without(q, s)) = In(q) \ {s}
<1> DEFINE K == {i \in DOMAIN q : q[i] # s}
           At(n) == CHOOSE i \in K : Rank(K, i) = n
           W == Without(q, s)
<1>1. DOMAIN q = 1..Len(q) /\ Len(q) \in Nat /\ \A i \in DOMAIN q : q[i] \in X
  BY LenProperties, ElementOfSeq
<1>2. /\ Cardinality(K) \in Nat
      /\ \A i \in K : Rank(K, i) \in 1..Cardinality(K)
      /\ \A i, j \in K : Rank(K, i) = Rank(K, j) => i = j
      /\ \A n \in 1..Cardinality(K) : \E i \in K : Rank(K, i) = n
  <2> HIDE DEF K
  <2>1. K \in SUBSET (1..Len(q))
    BY <1>1 DEF K
  <2> QED
    BY <1>1, <2>1, RankFacts
<1>3. W = [n \in 1..Cardinality(K) |-> q[At(n)]]
  BY DEF Without, Rank
<1> HIDE DEF K, W
<1>4. \A n \in 1..Cardinality(K) : At(n) \in K /\ Rank(K, At(n)) = n
  BY <1>2
<1>5. \A i \in K : At(Rank(K, i)) = i
  BY <1>2, <1>4
<1> HIDE DEF At
<1>6. \A i \in K : i \in DOMAIN q /\ q[i] # s /\ q[i] \in X
  BY <1>1 DEF K
<1>7. DOMAIN W = 1..Cardinality(K) /\ \A n \in 1..Cardinality(K) : W[n] = q[At(n)]
  BY <1>3
<1>8. W \in Seq(X)
  BY <1>2, <1>3, <1>4, <1>6, SeqDef
<1>9. Distinct(W)
  BY <1>4, <1>6, <1>7 DEF Distinct
<1>10. ASSUME NEW y \in In(q) \ {s}  PROVE  y \in In(W)
  <2>1. PICK i \in DOMAIN q : q[i] = y
    BY DEF In
  <2>2. i \in K
    BY <2>1 DEF K
  <2>3. Rank(K, i) \in DOMAIN W /\ W[Rank(K, i)] = y
    BY <1>2, <1>5, <1>7, <2>1, <2>2
  <2> QED
    BY <2>3 DEF In
<1>11. ASSUME NEW y \in In(W)  PROVE  y \in In(q) \ {s}
  <2>1. PICK n \in DOMAIN W : W[n] = y
    BY DEF In
  <2> QED
    BY <1>4, <1>6, <1>7, <2>1 DEF In
<1> QED
  BY <1>8, <1>9, <1>10, <1>11 DEF W

LEMMA AppendFacts ==
    ASSUME NEW X, NEW q \in Seq(X), NEW x \in X
    PROVE  /\ Append(q, x) \in Seq(X)
           /\ In(Append(q, x)) = In(q) \cup {x}
           /\ x \notin In(q) /\ Distinct(q) => Distinct(Append(q, x))
<1> DEFINE A == Append(q, x)
<1>1. /\ A \in Seq(X) /\ DOMAIN q = 1..Len(q) /\ DOMAIN A = 1..Len(q) + 1 /\ Len(q) \in Nat
      /\ \A i \in 1..Len(q) : A[i] = q[i]
      /\ A[Len(q) + 1] = x
  BY LenProperties, AppendProperties
<1> HIDE DEF A
<1>2. \A y : y \in In(A) <=> y \in In(q) \cup {x}
  <2> TAKE y
  <2>1. ASSUME NEW i \in DOMAIN A, A[i] = y  PROVE  y \in In(q) \cup {x}
    <3>1. i = Len(q) + 1 \/ i \in 1..Len(q)
      BY <1>1
    <3> QED
      BY <1>1, <2>1, <3>1 DEF In
  <2>2. ASSUME NEW i \in DOMAIN q, q[i] = y  PROVE  y \in In(A)
    <3>1. i \in DOMAIN A /\ A[i] = y
      BY <1>1, <2>2
    <3> QED
      BY <3>1 DEF In
  <2>3. x \in In(A)
    <3>1. Len(q) + 1 \in DOMAIN A
      BY <1>1
    <3> QED
      BY <1>1, <3>1 DEF In
  <2> QED
    BY <2>1, <2>2, <2>3 DEF In
<1>3. ASSUME x \notin In(q), Distinct(q)  PROVE  Distinct(A)
  <2> SUFFICES ASSUME NEW i \in DOMAIN A, NEW j \in DOMAIN A, A[i] = A[j]  PROVE  i = j
    BY DEF Distinct
  <2>1. \A k \in 1..Len(q) : A[k] # x
    BY <1>1, <1>3 DEF In
  <2>2. (i = Len(q) + 1 \/ i \in 1..Len(q)) /\ (j = Len(q) + 1 \/ j \in 1..Len(q))
    BY <1>1
  <2> QED
    BY <1>1, <1>3, <2>1, <2>2 DEF Distinct
<1> QED
  BY <1>1, <1>2, <1>3 DEF A

\* A sequence without repetition is as long as its set of elements.
LEMMA DistinctLength ==
    ASSUME NEW X, NEW q \in Seq(X), Distinct(q)
    PROVE  Len(q) = Cardinality(In(q))
<1>1. DOMAIN q = 1..Len(q) /\ Len(q) \in Nat /\ q \in [1..Len(q) -> In(q)]
  <2>1. DOMAIN q = 1..Len(q) /\ Len(q) \in Nat /\ q \in [1..Len(q) -> X]
    BY LenProperties
  <2>2. \A i \in 1..Len(q) : q[i] \in In(q)
    BY <2>1 DEF In
  <2> QED
    BY <2>1, <2>2
<1>2. q \in Bijection(1..Len(q), In(q))
  <2>1. IsInjective(q)
    BY DEF IsInjective, Distinct
  <2>2. \A y \in In(q) : \E i \in 1..Len(q) : q[i] = y
    BY <1>1 DEF In
  <2> QED
    BY <1>1, <2>1, <2>2 DEF Bijection, Injection, Surjection
<1>3. ExistsBijection(1..Len(q), In(q))
  BY <1>2 DEF ExistsBijection
<1>4. IsFiniteSet(1..Len(q)) /\ Cardinality(1..Len(q)) = Len(q)
  BY <1>1, FS_Interval
<1> QED
  BY <1>3, <1>4, FS_Bijection

-----------------------------------------------------------------------------
(* The directory: the router, the tabs and the current session.            *)

RouterOK(ro) ==
    /\ ro = [order |-> ro.order, token |-> ro.token, foreground |-> ro.foreground]
    /\ ro.order \in Seq(Nat) /\ Distinct(ro.order) /\ In(ro.order) = DOMAIN ro.token
    /\ IF DOMAIN ro.token = {} THEN ro.foreground = NoSession
                               ELSE ro.foreground \in DOMAIN ro.token

DirInv ==
    /\ made \in Nat /\ RouterOK(router)
    /\ tabs \in Seq(Nat) /\ Distinct(tabs) /\ In(tabs) \subseteq 1..made
    /\ DOMAIN router.token \cup attention \subseteq In(tabs)
    /\ current \in In(tabs) \cup {NoSession}

LEMMA RegisterKeeps ==
    ASSUME NEW ro, NEW s \in Nat, RouterOK(ro)
    PROVE  /\ RouterOK(Register(ro, s))
           /\ DOMAIN Register(ro, s).token = DOMAIN ro.token \cup {s}
<1> DEFINE q == Without(ro.order, s)
           n == Register(ro, s)
<1>1. q \in Seq(Nat) /\ Distinct(q) /\ In(q) = In(ro.order) \ {s}
  BY WithoutFacts DEF RouterOK
<1>2. n = [order |-> Append(q, s), token |-> With(ro.token, s, NoRun),
           foreground |-> IF ro.foreground = NoSession THEN s ELSE ro.foreground]
  BY DEF Register
<1> HIDE DEF q, n
<1>3. Append(q, s) \in Seq(Nat) /\ Distinct(Append(q, s)) /\ In(Append(q, s)) = In(ro.order) \cup {s}
  BY <1>1, AppendFacts
<1>4. DOMAIN n.token = DOMAIN ro.token \cup {s}
  BY <1>2 DEF With
<1>5. n.foreground \in DOMAIN n.token
  BY <1>2, <1>4 DEF RouterOK
<1>6. RouterOK(n)
  BY <1>2, <1>3, <1>4, <1>5 DEF RouterOK
<1> QED
  BY <1>4, <1>6 DEF n

LEMMA CloseKeeps ==
    ASSUME NEW ro, NEW s, RouterOK(ro)
    PROVE  /\ RouterOK(Close(ro, s))
           /\ DOMAIN Close(ro, s).token = DOMAIN ro.token \ {s}
<1> DEFINE q == Without(ro.order, s)
           n == Close(ro, s)
<1>1. CASE s \notin DOMAIN ro.token
  BY <1>1 DEF Close
<1>2. CASE s \in DOMAIN ro.token
  <2>1. q \in Seq(Nat) /\ Distinct(q) /\ In(q) = In(ro.order) \ {s}
    BY WithoutFacts DEF RouterOK
  <2>2. n = [order |-> q, token |-> [x \in DOMAIN ro.token \ {s} |-> ro.token[x]],
             foreground |-> IF ro.foreground # s THEN ro.foreground
                            ELSE IF q = <<>> THEN NoSession ELSE Head(q)]
    BY <1>2 DEF Close
  <2> HIDE DEF q, n
  <2>3. DOMAIN n.token = DOMAIN ro.token \ {s} /\ In(q) = DOMAIN n.token
    BY <2>1, <2>2 DEF RouterOK
  <2>4. IF q = <<>> THEN In(q) = {} ELSE Head(q) \in In(q)
    BY <2>1, EmptySeq, LenProperties, HeadTailProperties DEF In
  <2>5. IF DOMAIN n.token = {} THEN n.foreground = NoSession
                               ELSE n.foreground \in DOMAIN n.token
    BY <1>2, <2>2, <2>3, <2>4 DEF RouterOK
  <2>6. RouterOK(n)
    BY <2>1, <2>2, <2>3, <2>5 DEF RouterOK
  <2> QED
    BY <2>3, <2>6 DEF n
<1> QED
  BY <1>1, <1>2

LEMMA HoldKeeps ==
    ASSUME NEW ro, NEW s, NEW r, RouterOK(ro)
    PROVE  /\ RouterOK(HoldToken(ro, s, r))
           /\ DOMAIN HoldToken(ro, s, r).token = DOMAIN ro.token
<1>1. CASE s \in DOMAIN ro.token
  <2> DEFINE n == HoldToken(ro, s, r)
  <2>1. n = [ro EXCEPT !.token[s] = r]
    BY <1>1 DEF HoldToken
  <2>2. n = [order |-> ro.order, token |-> [ro.token EXCEPT ![s] = r], foreground |-> ro.foreground]
    BY <2>1 DEF RouterOK
  <2> HIDE DEF n
  <2>3. DOMAIN n.token = DOMAIN ro.token
    BY <2>2
  <2>4. RouterOK(n)
    BY <2>2, <2>3 DEF RouterOK
  <2> QED
    BY <2>3, <2>4 DEF n
<1>2. CASE s \notin DOMAIN ro.token
  BY <1>2 DEF HoldToken
<1> QED
  BY <1>1, <1>2

LEMMA SameDirectory ==
    ASSUME DirInv, UNCHANGED <<made, router, tabs, current>>, attention' \subseteq In(tabs)
    PROVE  DirInv'
<1>1. /\ made' = made /\ router' = router /\ tabs' = tabs /\ current' = current
      /\ In(tabs') = In(tabs)
  OBVIOUS
<1>2. made' \in Nat /\ RouterOK(router)'
  BY <1>1 DEF DirInv, RouterOK
<1>3. (tabs \in Seq(Nat) /\ Distinct(tabs) /\ In(tabs) \subseteq 1..made)'
  BY <1>1 DEF DirInv, In, Distinct
<1>4. (DOMAIN router.token \cup attention \subseteq In(tabs))'
  BY <1>1 DEF DirInv, In
<1>5. (current \in In(tabs) \cup {NoSession})'
  BY <1>1 DEF DirInv, In
<1> QED
  BY <1>2, <1>3, <1>4, <1>5 DEF DirInv

\* A run is started: its token replaces the one in the handle.
LEMMA SpawnDirectory ==
    ASSUME DirInv, NEW s, Spawn(s, router), UNCHANGED <<made, tabs, current, attention>>
    PROVE  DirInv'
<1>1. RouterOK(router') /\ DOMAIN router'.token = DOMAIN router.token
  BY HoldKeeps DEF DirInv, Spawn
<1> QED
  BY <1>1 DEF DirInv, In, Distinct

\* What the directory is after a step, from the router and the tabs that it leaves.
LEMMA NewDirectory ==
    ASSUME DirInv, NEW ro, NEW q, router' = ro, RouterOK(ro), tabs' = q, q \in Seq(Nat), Distinct(q),
           made' \in Nat, In(q) \subseteq 1..made',
           DOMAIN ro.token \cup attention' \subseteq In(q), current' \in In(q) \cup {NoSession}
    PROVE  DirInv'
<1>1. RouterOK(router')
  OBVIOUS
<1> QED
  BY <1>1 DEF DirInv, In, Distinct

\* A tab for a new session.
LEMMA NewTabFacts ==
    ASSUME DirInv, NEW q \in Seq(Nat), Distinct(q), In(q) \subseteq 1..made, NewTab(q)
    PROVE  /\ made' = made + 1 /\ made' \in Nat /\ NewId \in Nat \ {0}
           /\ tabs' \in Seq(Nat) /\ Distinct(tabs')
           /\ In(tabs') = In(q) \cup {NewId} /\ In(tabs') \subseteq 1..made'
<1>1. made' = made + 1 /\ made' \in Nat /\ NewId \in Nat \ {0} /\ tabs' = Append(q, NewId)
      /\ NewId = made + 1 /\ made \in Nat
  BY DEF NewTab, NewId, DirInv
<1>2. NewId \notin In(q)
  BY <1>1
<1>3. Append(q, NewId) \in Seq(Nat) /\ Distinct(Append(q, NewId)) /\ In(Append(q, NewId)) = In(q) \cup {NewId}
  BY <1>1, <1>2, AppendFacts
<1>4. In(q) \cup {NewId} \subseteq 1..made'
  BY <1>1
<1>5. tabs' \in Seq(Nat) /\ Distinct(tabs') /\ In(tabs') = In(q) \cup {NewId}
  BY <1>1, <1>3
<1> QED
  BY <1>1, <1>4, <1>5

LEMMA DirTabs ==
    ASSUME DirInv
    PROVE  tabs \in Seq(Nat) /\ Distinct(tabs) /\ In(tabs) \subseteq 1..made /\ made \in Nat
BY DEF DirInv

LEMMA CommandsKeepDirectory ==
    ASSUME DirInv, CommandStep
    PROVE  DirInv'
<1> USE DirTabs
<1>1. CASE NothingQueued
  <2>1. UNCHANGED <<made, router, tabs, current, attention>>
    BY <1>1 DEF NothingQueued
  <2> QED
    BY <2>1, SameDirectory DEF DirInv
<1>2. CASE SessionNew
  <2>1. NewTab(tabs) /\ router' = Register(router, NewId) /\ UNCHANGED <<current, attention>>
    BY <1>2 DEF SessionNew
  <2>2. RouterOK(router') /\ DOMAIN router'.token = DOMAIN router.token \cup {NewId}
    BY <2>1, NewTabFacts, RegisterKeeps DEF DirInv
  <2> QED
    BY <2>1, <2>2, NewTabFacts, NewDirectory DEF DirInv
<1>3. CASE SessionSpawn
  <2>1. /\ NewTab(tabs) /\ router' = HoldToken(Register(router, NewId), NewId, Len(runs) + 1)
        /\ UNCHANGED <<current, attention>>
    BY <1>3 DEF SessionSpawn, Spawn
  <2>2. RouterOK(Register(router, NewId)) /\ DOMAIN Register(router, NewId).token = DOMAIN router.token \cup {NewId}
    BY <2>1, NewTabFacts, RegisterKeeps DEF DirInv
  <2>3. RouterOK(router') /\ DOMAIN router'.token = DOMAIN router.token \cup {NewId}
    BY <2>1, <2>2, HoldKeeps
  <2> QED
    BY <2>1, <2>3, NewTabFacts, NewDirectory DEF DirInv
<1>4. CASE SessionImport
  <2>1. NewTab(tabs) /\ UNCHANGED <<router, current, attention>>
    BY <1>4 DEF SessionImport
  <2> QED
    BY <2>1, NewTabFacts, NewDirectory DEF DirInv
<1>5. CASE SessionSwitch
  <2>1. CASE command.target \in Registered
    <3>1. /\ router' = [router EXCEPT !.foreground = command.target] /\ UNCHANGED <<tabs, made>>
          /\ current' = command.target /\ attention' = attention \ {command.target}
      BY <1>5, <2>1 DEF SessionSwitch
    <3>2. router' = [order |-> router.order, token |-> router.token, foreground |-> command.target]
      BY <3>1 DEF DirInv, RouterOK
    <3>3. RouterOK(router') /\ DOMAIN router'.token = DOMAIN router.token
      BY <2>1, <3>2 DEF DirInv, RouterOK, Registered
    <3> QED
      BY <2>1, <3>1, <3>3, NewDirectory DEF DirInv, Registered
  <2>2. CASE command.target \notin Registered
    <3>1. UNCHANGED <<made, router, tabs, current, attention>>
      BY <1>5, <2>2 DEF SessionSwitch
    <3> QED
      BY <3>1, SameDirectory DEF DirInv
  <2> QED
    BY <2>1, <2>2
<1>6. CASE SessionClose
  <2> DEFINE t == command.target
  <2>1. CASE t \in Registered
    <3>1. /\ router' = Close(router, t) /\ tabs' = Without(tabs, t) /\ attention' = attention \ {t}
          /\ current' = (IF current = t THEN router'.foreground ELSE current) /\ made' = made
      BY <1>6, <2>1 DEF SessionClose
    <3> HIDE DEF t
    <3>2. RouterOK(router') /\ DOMAIN router'.token = DOMAIN router.token \ {t}
      BY <3>1, CloseKeeps DEF DirInv
    <3>3. tabs' \in Seq(Nat) /\ Distinct(tabs') /\ In(tabs') = In(tabs) \ {t}
      <4>1. Without(tabs, t) \in Seq(Nat) /\ Distinct(Without(tabs, t)) /\ In(Without(tabs, t)) = In(tabs) \ {t}
        BY WithoutFacts
      <4> QED
        BY <3>1, <4>1
    <3>4. router'.foreground \in DOMAIN router'.token \cup {NoSession}
      BY <3>2 DEF RouterOK
    <3> QED
      BY <3>1, <3>2, <3>3, <3>4, NewDirectory DEF DirInv
  <2>2. CASE t \notin Registered
    <3>1. UNCHANGED <<made, router, tabs, current, attention>>
      BY <1>6, <2>2 DEF SessionClose
    <3> QED
      BY <3>1, SameDirectory DEF DirInv
  <2> QED
    BY <2>1, <2>2
<1>7. CASE SessionResume
  <2>1. Spawn(current, router) /\ UNCHANGED <<made, tabs, current, attention>>
    BY <1>7 DEF SessionResume
  <2> QED
    BY <2>1, SpawnDirectory
<1>8. CASE ClearAndRestart
  <2> DEFINE q == Without(tabs, current)
  <2>1. /\ NewTab(q) /\ router' = Register(Close(router, current), NewId)
        /\ attention' = attention \ {current} /\ current' = NewId
    BY <1>8 DEF ClearAndRestart
  <2>2. q \in Seq(Nat) /\ Distinct(q) /\ In(q) = In(tabs) \ {current}
    BY WithoutFacts
  <2> HIDE DEF q
  <2>3. /\ made' \in Nat /\ NewId \in Nat \ {0} /\ tabs' \in Seq(Nat) /\ Distinct(tabs')
        /\ In(tabs') = In(q) \cup {NewId} /\ In(tabs') \subseteq 1..made'
    BY <2>1, <2>2, NewTabFacts
  <2>4. RouterOK(Close(router, current)) /\ DOMAIN Close(router, current).token = DOMAIN router.token \ {current}
    BY CloseKeeps DEF DirInv
  <2>5. RouterOK(router') /\ DOMAIN router'.token = (DOMAIN router.token \ {current}) \cup {NewId}
    BY <2>1, <2>3, <2>4, RegisterKeeps
  <2> QED
    BY <2>1, <2>2, <2>3, <2>5, NewDirectory DEF DirInv
<1> QED
  BY <1>1, <1>2, <1>3, <1>4, <1>5, <1>6, <1>7, <1>8 DEF CommandStep

LEMMA NextTabFacts ==
    ASSUME DirInv, tabs # <<>>
    PROVE  NextTab \in In(tabs)
<1> DEFINE here == {i \in DOMAIN tabs : tabs[i] = current}
           p == CHOOSE i \in here : \A j \in here : i <= j
<1>1. DOMAIN tabs = 1..Len(tabs) /\ Len(tabs) \in Nat \ {0}
  BY EmptySeq, LenProperties DEF DirInv
<1>2. 1 \in DOMAIN tabs
  BY <1>1
<1>3. CASE here = {}
  BY <1>2, <1>3 DEF NextTab, In
<1>4. CASE here # {}
  <2>1. PICK h \in here : TRUE
    BY <1>4
  <2>2. \A j \in here : h <= j
    BY <1>1, <2>1 DEF DirInv, Distinct
  <2>3. p \in here
    BY <2>1, <2>2
  <2>4. p \in Nat
    BY <2>3, <1>1
  <2> HIDE DEF p
  <2>5. (p % Len(tabs)) + 1 \in DOMAIN tabs
    BY <1>1, <2>4
  <2>6. NextTab = tabs[(p % Len(tabs)) + 1]
    BY <1>4 DEF NextTab, p
  <2> QED
    BY <2>5, <2>6 DEF In
<1> QED
  BY <1>3, <1>4

LEMMA KeysKeepDirectory ==
    ASSUME DirInv, KeyStep
    PROVE  DirInv'
<1>1. CASE NoKey \/ Interrupt \/ Deny \/ Answer
  BY <1>1, SameDirectory DEF NoKey, Interrupt, Deny, Answer, Key, DirInv
<1>2. CASE Submit
  <2>1. UNCHANGED <<made, tabs, current, attention>> /\ (Spawn(current, router) \/ UNCHANGED router)
    BY <1>2 DEF Submit, Key
  <2> QED
    BY <2>1, SpawnDirectory, SameDirectory DEF DirInv
<1>3. CASE Approve
  <2>1. UNCHANGED <<made, tabs, current, attention>> /\ (Spawn(current, router) \/ UNCHANGED router)
    BY <1>3 DEF Approve, Key
  <2> QED
    BY <2>1, SpawnDirectory, SameDirectory DEF DirInv
<1>4. CASE Cycle
  <2>1. UNCHANGED <<made, router, tabs, attention>> /\ current' = NextTab /\ tabs # <<>>
    BY <1>4 DEF Cycle, Key
  <2> QED
    BY <2>1, NextTabFacts, NewDirectory DEF DirInv
<1>5. ASSUME NEW s \in SessionIds, Pick(s)  PROVE  DirInv'
  <2>1. UNCHANGED <<made, router, tabs>> /\ current' = s /\ attention' = attention \ {s} /\ s \in In(tabs)
    BY <1>5 DEF Pick, Key
  <2> QED
    BY <2>1, NewDirectory DEF DirInv
<1>6. ASSUME NEW kind \in Commands, NEW s \in In(tabs) \cup {NoSession}, Slash(kind, s)  PROVE  DirInv'
  BY <1>6, SameDirectory DEF Slash, Key, DirInv
<1> QED
  BY <1>1, <1>2, <1>3, <1>4, <1>5, <1>6 DEF KeyStep

LEMMA DirectoryStep == DirInv /\ [Next]_vars => DirInv'
<1> SUFFICES ASSUME DirInv, [Next]_vars  PROVE  DirInv'
  OBVIOUS
<1>1. CASE ApplyEvent
  <2>1. UNCHANGED <<made, router, tabs, current>> /\ attention' \subseteq In(tabs)
    BY <1>1 DEF ApplyEvent, DirInv
  <2> QED
    BY <2>1, SameDirectory
<1>2. CASE CommandStep
  BY <1>2, CommandsKeepDirectory
<1>3. CASE Show
  <2>1. UNCHANGED <<made, tabs, current, attention>> /\ (Spawn(current, router) \/ UNCHANGED router)
    BY <1>3 DEF Show
  <2> QED
    BY <2>1, SpawnDirectory, SameDirectory DEF DirInv
<1>4. CASE KeyStep
  BY <1>4, KeysKeepDirectory
<1>5. ASSUME NEW r \in DOMAIN runs, RunStep(r)  PROVE  DirInv'
  <2>1. UNCHANGED <<made, router, tabs, current, attention>>
    BY <1>5 DEF RunStep, Starts, Fails, Asks, NeedsApproval, SeesCancel, Finishes, Advance, loop
  <2> QED
    BY <2>1, SameDirectory DEF DirInv
<1>6. CASE UNCHANGED vars
  BY <1>6, SameDirectory DEF vars, loop, DirInv
<1> QED
  BY <1>1, <1>2, <1>3, <1>4, <1>5, <1>6 DEF Next, LoopStep

LEMMA DirectoryInit == Init => DirInv
<1> SUFFICES ASSUME Init  PROVE  DirInv
  OBVIOUS
<1>1. <<1>> \in Seq(Nat) /\ Distinct(<<1>>) /\ In(<<1>>) = {1}
  BY DEF Distinct, In
<1> QED
  BY <1>1 DEF Init, DirInv, RouterOK, NoSession

LEMMA DirectoryInductive == Spec => []DirInv
<1> QED
  BY DirectoryInit, DirectoryStep, PTL DEF Spec

\* SessionRouter and apply_session_command: whatever keys and commands come, in
\* whatever order, the router's order, handles and foreground, the tabs and the
\* current session agree.
THEOREM DirectoryIsConsistent == Spec => []DirectoryConsistent
<1>1. DirInv => DirectoryConsistent
  <2> SUFFICES ASSUME DirInv  PROVE  DirectoryConsistent
    OBVIOUS
  <2>1. Len(router.order) = Cardinality(In(router.order)) /\ Len(tabs) = Cardinality(In(tabs))
    BY DistinctLength DEF DirInv, RouterOK
  <2> QED
    BY <2>1 DEF DirInv, RouterOK, DirectoryConsistent, Registered
<1> QED
  BY <1>1, DirectoryInductive, PTL

-----------------------------------------------------------------------------
(* Sessions that are changed by slash command, one run at a time.           *)

\* The keys of the slash commands: no session is started or imported in the
\* background, and none is reached through the picker.
SlashKeys == {"submit", "interrupt", "approve", "answer", "new", "switch", "close", "resume", "clear"}
BySlash   == Patient /\ Keys \subseteq SlashKeys

TuiRecs   == [status : Statuses, approval : Nat, question : Nat, queue : Nat, task : BOOLEAN]
RunRecs   == [sess : Nat, phase : Phases, fired : BOOLEAN]
EventRecs == [sess : Nat, kind : EventKinds, run : Nat]
Over      == {"Finished", "Failed"}

(* What follows speaks of the runs rs and the channel ch, to say it of the    *)
(* present ones and of the next ones.                                       *)

Active(r, rs, ch) == rs[r].phase # "ended" \/ \E i \in DOMAIN ch : ch[i].run = r
Rest(s, rs, ch)   == \A r \in DOMAIN rs : rs[r].sess = s => ~Active(r, rs, ch)

\* What an event that waits says of its run, and of the events behind it.
EventInv(i, rs, ch) ==
    LET e == ch[i]
    IN  /\ e.run \in DOMAIN rs /\ e.sess = rs[e.run].sess
        /\ e.kind \in Over => rs[e.run].phase = "ended"
        /\ e.kind = "ApprovalRequested" => rs[e.run].phase \in {"halting", "ended"}
        /\ rs[e.run].phase = "ended" => \E j \in DOMAIN ch : j >= i /\ ch[j].run = e.run /\ ch[j].kind \in Over
OrderInv(i, j, ch) ==
    i < j /\ ch[i].run = ch[j].run =>
        /\ ch[i].kind \notin Over
        /\ ch[i].kind = "ApprovalRequested" => ch[j].kind = "Finished"
ChannelInv(rs, ch) ==
    /\ rs \in Seq(RunRecs) /\ ch \in Seq(EventRecs)
    /\ \A i \in DOMAIN ch : EventInv(i, rs, ch)
    /\ \A i, j \in DOMAIN ch : OrderInv(i, j, ch)

\* The sessions of T have one active run at most.
SoleInv(T, rs, ch) ==
    \A r, q \in DOMAIN rs :
        Active(r, rs, ch) /\ Active(q, rs, ch) /\ rs[r].sess = rs[q].sess /\ rs[r].sess \in T => r = q

\* What the state u of session s says of the runs.
ApprovalInv(u, s, rs, ch) ==
    u.approval # NoRun =>
        /\ u.approval \in DOMAIN rs /\ rs[u.approval].sess = s
        /\ rs[u.approval].phase \in {"halting", "ended"}
        /\ u.status = "WaitingApproval" /\ u.task = TRUE
        /\ \A i \in DOMAIN ch : ch[i].sess = s => ch[i].kind = "Finished"
        /\ \A r \in DOMAIN rs : rs[r].sess = s /\ Active(r, rs, ch) => r = u.approval
QuestionInv(u, s, rs)  == u.question # NoRun => u.question \in DOMAIN rs /\ rs[u.question].sess = s
BusyInv(u, s, rs, ch)  == Busy(u) => u.approval # NoRun \/ ~Rest(s, rs, ch)
DrainInv(u, s, rs, ch) == MayDrain(u) => Rest(s, rs, ch)
\* The task of a run is known before anything can be approved.
TaskInv(u, s, rs, ch) ==
    /\ \A r \in DOMAIN rs :
           rs[r].sess = s /\ rs[r].phase \in {"running", "asking", "halting"} =>
               u.task = TRUE \/ \E j \in DOMAIN ch : ch[j].run = r /\ ch[j].kind = "RunStarted"
    /\ \A i \in DOMAIN ch :
           ch[i].sess = s /\ ch[i].kind = "ApprovalRequested" =>
               u.task = TRUE \/ \E j \in DOMAIN ch : j < i /\ ch[j].sess = s /\ ch[j].kind = "RunStarted"
AskInv(u, s, rs, ch) ==
    \A r \in DOMAIN rs :
        rs[r].sess = s /\ rs[r].phase = "asking" =>
            u.question = r \/ \E i \in DOMAIN ch : ch[i].kind = "AskUserRequested" /\ ch[i].run = r
TabInv(u, s, rs, ch) ==
    /\ u \in TuiRecs
    /\ ApprovalInv(u, s, rs, ch) /\ QuestionInv(u, s, rs) /\ BusyInv(u, s, rs, ch)
    /\ DrainInv(u, s, rs, ch) /\ TaskInv(u, s, rs, ch) /\ AskInv(u, s, rs, ch)

-----------------------------------------------------------------------------
(* A run goes on and says so.                                               *)

LEMMA SeqFacts ==
    ASSUME NEW X, NEW q \in Seq(X)
    PROVE  DOMAIN q = 1..Len(q) /\ Len(q) \in Nat /\ \A i \in DOMAIN q : q[i] \in X
BY LenProperties, ElementOfSeq

LEMMA AddLast ==
    ASSUME NEW X, NEW q \in Seq(X), NEW x \in X
    PROVE  /\ Append(q, x) \in Seq(X)
           /\ DOMAIN Append(q, x) = DOMAIN q \cup {Len(q) + 1}
           /\ Len(q) + 1 \notin DOMAIN q /\ Append(q, x)[Len(q) + 1] = x
           /\ \A i \in DOMAIN q : Append(q, x)[i] = q[i] /\ i < Len(q) + 1
<1>1. /\ Append(q, x) \in Seq(X) /\ DOMAIN q = 1..Len(q) /\ DOMAIN Append(q, x) = 1..Len(q) + 1
      /\ Len(q) \in Nat /\ \A i \in 1..Len(q) : Append(q, x)[i] = q[i]
      /\ Append(q, x)[Len(q) + 1] = x
  BY LenProperties, AppendProperties
<1> QED
  BY <1>1

Reaches(r, p, rs, rs2) == rs2 = [rs EXCEPT ![r].phase = p]

LEMMA SetPhase ==
    ASSUME NEW rs \in Seq(RunRecs), NEW r \in DOMAIN rs, NEW p \in Phases, NEW rs2, Reaches(r, p, rs, rs2)
    PROVE  /\ rs2 \in Seq(RunRecs) /\ DOMAIN rs2 = DOMAIN rs
           /\ \A q \in DOMAIN rs : rs2[q].sess = rs[q].sess /\ rs2[q].fired = rs[q].fired
           /\ \A q \in DOMAIN rs : q # r => rs2[q].phase = rs[q].phase
           /\ rs2[r].phase = p
<1>1. rs \in [1..Len(rs) -> RunRecs] /\ Len(rs) \in Nat /\ DOMAIN rs = 1..Len(rs)
  BY LenProperties
<1>2. rs2 \in [1..Len(rs) -> RunRecs]
  BY <1>1 DEF RunRecs, Reaches
<1>3. rs2 \in Seq(RunRecs)
  BY <1>1, <1>2, SeqDef
<1>4. rs2[r] = [rs[r] EXCEPT !.phase = p] /\ \A q \in DOMAIN rs : q # r => rs2[q] = rs[q]
  BY <1>1 DEF Reaches
<1>5. rs2[r].phase = p /\ rs2[r].sess = rs[r].sess /\ rs2[r].fired = rs[r].fired
  BY <1>1, <1>4 DEF RunRecs
<1> QED
  BY <1>1, <1>2, <1>3, <1>4, <1>5

Moves == {<<"starting", "running", "RunStarted">>, <<"starting", "ended", "Failed">>,
          <<"running", "ended", "Failed">>, <<"running", "asking", "AskUserRequested">>,
          <<"running", "halting", "ApprovalRequested">>, <<"running", "halting", "Interrupted">>,
          <<"running", "ended", "Finished">>, <<"halting", "ended", "Finished">>}

\* Run r goes to phase p and sends an event of kind k.
Sends(r, p, k, rs, ch, rs2, ch2) ==
    /\ <<rs[r].phase, p, k>> \in Moves /\ Reaches(r, p, rs, rs2)
    /\ ch2 = Append(ch, [sess |-> rs[r].sess, kind |-> k, run |-> r])

\* What is then known of the runs and of the channel, n being the new event.
SendEffect(n, r, p, k, rs, ch, rs2, ch2) ==
    /\ rs2 \in Seq(RunRecs) /\ DOMAIN rs2 = DOMAIN rs
    /\ \A q \in DOMAIN rs : rs2[q].sess = rs[q].sess /\ rs2[q].fired = rs[q].fired
    /\ \A q \in DOMAIN rs : q # r => rs2[q].phase = rs[q].phase
    /\ rs2[r].phase = p
    /\ ch2 \in Seq(EventRecs) /\ n \in Int
    /\ DOMAIN ch2 = DOMAIN ch \cup {n} /\ n \notin DOMAIN ch
    /\ \A i \in DOMAIN ch : ch2[i] = ch[i] /\ i < n /\ i \in Int
    /\ ch2[n].sess = rs[r].sess /\ ch2[n].kind = k /\ ch2[n].run = r
    /\ \A q \in DOMAIN rs : Active(q, rs2, ch2) <=> Active(q, rs, ch)

LEMMA AdvanceEffect ==
    ASSUME NEW rs, NEW ch, ChannelInv(rs, ch), NEW r \in DOMAIN rs, NEW p, NEW k,
           NEW rs2, NEW ch2, Sends(r, p, k, rs, ch, rs2, ch2)
    PROVE  SendEffect(Len(ch) + 1, r, p, k, rs, ch, rs2, ch2)
<1>1. rs \in Seq(RunRecs) /\ ch \in Seq(EventRecs)
  BY DEF ChannelInv
<1>2. p \in Phases /\ k \in EventKinds /\ rs[r].phase # "ended"
  BY DEF Sends, Moves, Phases, EventKinds
<1>3. /\ rs2 \in Seq(RunRecs) /\ DOMAIN rs2 = DOMAIN rs
      /\ \A q \in DOMAIN rs : rs2[q].sess = rs[q].sess /\ rs2[q].fired = rs[q].fired
      /\ \A q \in DOMAIN rs : q # r => rs2[q].phase = rs[q].phase
      /\ rs2[r].phase = p
  BY <1>1, <1>2, SetPhase DEF Sends
<1> DEFINE e == [sess |-> rs[r].sess, kind |-> k, run |-> r]
<1>4. rs[r] \in RunRecs /\ r \in Nat /\ Len(ch) \in Nat /\ DOMAIN ch = 1..Len(ch)
  BY <1>1, SeqFacts
<1>5. e \in EventRecs
  BY <1>2, <1>4 DEF EventRecs, RunRecs
<1>6. e.sess = rs[r].sess /\ e.kind = k /\ e.run = r
  OBVIOUS
<1> HIDE DEF e
<1>7. /\ ch2 \in Seq(EventRecs)
      /\ DOMAIN ch2 = DOMAIN ch \cup {Len(ch) + 1} /\ Len(ch) + 1 \notin DOMAIN ch
      /\ \A i \in DOMAIN ch : ch2[i] = ch[i] /\ i < Len(ch) + 1
      /\ ch2[Len(ch) + 1] = e
  <2>1. ch2 = Append(ch, e)
    BY DEF e, Sends
  <2> QED
    BY <1>1, <1>5, <2>1, AddLast
<1>8. \A q \in DOMAIN rs : Active(q, rs2, ch2) <=> Active(q, rs, ch)
  BY <1>2, <1>3, <1>6, <1>7 DEF Active
<1> QED
  BY <1>3, <1>4, <1>6, <1>7, <1>8 DEF SendEffect

LEMMA AdvanceChannel ==
    ASSUME NEW rs, NEW ch, ChannelInv(rs, ch), NEW r \in DOMAIN rs, NEW p, NEW k,
           NEW rs2, NEW ch2, Sends(r, p, k, rs, ch, rs2, ch2)
    PROVE  ChannelInv(rs2, ch2)
<1> DEFINE n == Len(ch) + 1
<1>0. SendEffect(n, r, p, k, rs, ch, rs2, ch2)
  BY AdvanceEffect
<1> HIDE DEF n
<1>1. /\ rs2 \in Seq(RunRecs) /\ DOMAIN rs2 = DOMAIN rs
      /\ \A q \in DOMAIN rs : rs2[q].sess = rs[q].sess
      /\ \A q \in DOMAIN rs : q # r => rs2[q].phase = rs[q].phase
      /\ rs2[r].phase = p
      /\ ch2 \in Seq(EventRecs)
      /\ DOMAIN ch2 = DOMAIN ch \cup {n} /\ n \notin DOMAIN ch
      /\ \A i \in DOMAIN ch : ch2[i] = ch[i] /\ i < n /\ i \in Int
      /\ ch2[n].sess = rs[r].sess /\ ch2[n].kind = k /\ ch2[n].run = r /\ n \in Int
  BY <1>0 DEF SendEffect
<1>2. /\ rs[r].phase # "ended"
      /\ k \in Over <=> p = "ended"
      /\ k = "ApprovalRequested" => p = "halting"
      /\ rs[r].phase = "halting" => k = "Finished"
  BY DEF Sends, Moves, Over
<1>3. \A i \in DOMAIN ch : EventInv(i, rs, ch)
  BY DEF ChannelInv
<1>4. \A i \in DOMAIN ch : ch[i].run = r => ch[i].kind \notin Over /\ (ch[i].kind = "ApprovalRequested" => k = "Finished")
  BY <1>2, <1>3 DEF EventInv
<1>5. ASSUME NEW i \in DOMAIN ch  PROVE  EventInv(i, rs2, ch2)
  <2>1. EventInv(i, rs, ch)
    BY <1>3
  <2>2. CASE ch[i].run = r
    <3>1. ch2[i].run = r /\ ch2[i].kind = ch[i].kind /\ ch2[i].sess = rs2[r].sess
      BY <1>1, <2>1, <2>2 DEF EventInv
    <3>2. ch[i].kind = "ApprovalRequested" => p = "ended"
      BY <1>2, <1>4, <2>2 DEF Over
    <3>3. p = "ended" => n \in DOMAIN ch2 /\ n >= i /\ ch2[n].run = r /\ ch2[n].kind \in Over
      BY <1>1, <1>2
    <3> QED
      BY <1>1, <1>4, <2>2, <3>1, <3>2, <3>3 DEF EventInv
  <2>3. CASE ch[i].run # r
    BY <1>1, <2>1, <2>3 DEF EventInv
  <2> QED
    BY <2>2, <2>3
<1>6. EventInv(n, rs2, ch2)
  <2>1. n >= n
    BY <1>1
  <2> QED
    BY <1>1, <1>2, <2>1 DEF EventInv
<1>7. ASSUME NEW i \in DOMAIN ch2, NEW j \in DOMAIN ch2  PROVE  OrderInv(i, j, ch2)
  <2>1. CASE i \in DOMAIN ch /\ j \in DOMAIN ch
    BY <1>1, <2>1 DEF ChannelInv, OrderInv
  <2>2. CASE i \in DOMAIN ch /\ j = n
    BY <1>1, <1>4, <2>2 DEF OrderInv
  <2>3. CASE i = n
    <3>1. ~(i < j)
      BY <1>1, <2>3
    <3> QED
      BY <3>1 DEF OrderInv
  <2> QED
    BY <1>1, <2>1, <2>2, <2>3
<1> QED
  BY <1>1, <1>5, <1>6, <1>7 DEF ChannelInv

LEMMA AdvanceTab ==
    ASSUME NEW rs, NEW ch, ChannelInv(rs, ch), NEW r \in DOMAIN rs, NEW p, NEW k,
           NEW rs2, NEW ch2, Sends(r, p, k, rs, ch, rs2, ch2),
           NEW u, NEW s, TabInv(u, s, rs, ch)
    PROVE  TabInv(u, s, rs2, ch2)
<1> DEFINE n == Len(ch) + 1
<1>0. SendEffect(n, r, p, k, rs, ch, rs2, ch2)
  BY AdvanceEffect
<1> HIDE DEF n
<1>1. /\ DOMAIN rs2 = DOMAIN rs
      /\ \A q \in DOMAIN rs : rs2[q].sess = rs[q].sess
      /\ \A q \in DOMAIN rs : q # r => rs2[q].phase = rs[q].phase
      /\ rs2[r].phase = p
      /\ DOMAIN ch2 = DOMAIN ch \cup {n} /\ n \notin DOMAIN ch
      /\ \A i \in DOMAIN ch : ch2[i] = ch[i] /\ i < n
      /\ ch2[n].sess = rs[r].sess /\ ch2[n].kind = k /\ ch2[n].run = r
      /\ \A q \in DOMAIN rs : Active(q, rs2, ch2) <=> Active(q, rs, ch)
  BY <1>0 DEF SendEffect
<1>2. Rest(s, rs2, ch2) <=> Rest(s, rs, ch)
  BY <1>1 DEF Rest
<1>3. /\ k = "ApprovalRequested" => rs[r].phase = "running"
      /\ p \in {"running", "asking", "halting"} => k = "RunStarted" \/ rs[r].phase = "running"
      /\ p = "asking" => k = "AskUserRequested"
      /\ rs[r].phase = "halting" => k = "Finished" /\ p = "ended"
      /\ Active(r, rs, ch) /\ rs[r].phase # "ended"
  BY DEF Sends, Moves, Active
<1>4. ApprovalInv(u, s, rs2, ch2)
  <2> SUFFICES ASSUME u.approval # NoRun  PROVE  ApprovalInv(u, s, rs2, ch2)
    BY DEF ApprovalInv
  <2>1. ApprovalInv(u, s, rs, ch)
    BY DEF TabInv
  <2>2. rs[r].sess = s => r = u.approval /\ rs[r].phase = "halting" /\ k = "Finished" /\ p = "ended"
    BY <1>3, <2>1 DEF ApprovalInv
  <2>3. rs2[u.approval].phase \in {"halting", "ended"} /\ rs2[u.approval].sess = s /\ u.approval \in DOMAIN rs2
    BY <1>1, <2>1, <2>2 DEF ApprovalInv
  <2>4. \A i \in DOMAIN ch2 : ch2[i].sess = s => ch2[i].kind = "Finished"
    BY <1>1, <2>1, <2>2 DEF ApprovalInv
  <2>5. \A q \in DOMAIN rs2 : rs2[q].sess = s /\ Active(q, rs2, ch2) => q = u.approval
    BY <1>1, <2>1 DEF ApprovalInv
  <2> QED
    BY <2>1, <2>3, <2>4, <2>5 DEF ApprovalInv
<1>5. TaskInv(u, s, rs2, ch2)
  <2>1. TaskInv(u, s, rs, ch)
    BY DEF TabInv
  <2>2. ASSUME NEW q \in DOMAIN rs2, rs2[q].sess = s, rs2[q].phase \in {"running", "asking", "halting"}, u.task # TRUE
        PROVE  \E j \in DOMAIN ch2 : ch2[j].run = q /\ ch2[j].kind = "RunStarted"
    <3>1. CASE q = r /\ k = "RunStarted"
      BY <1>1, <3>1
    <3>2. CASE ~(q = r /\ k = "RunStarted")
      <4>1. rs[q].sess = s /\ rs[q].phase \in {"running", "asking", "halting"}
        BY <1>1, <1>3, <2>2, <3>2
      <4>2. PICK j \in DOMAIN ch : ch[j].run = q /\ ch[j].kind = "RunStarted"
        BY <1>1, <2>1, <2>2, <4>1 DEF TaskInv
      <4> QED
        BY <1>1, <4>2
    <3> QED
      BY <3>1, <3>2
  <2>3. ASSUME NEW i \in DOMAIN ch2, ch2[i].sess = s, ch2[i].kind = "ApprovalRequested", u.task # TRUE
        PROVE  \E j \in DOMAIN ch2 : j < i /\ ch2[j].sess = s /\ ch2[j].kind = "RunStarted"
    <3>1. CASE i = n
      <4>1. rs[r].sess = s /\ rs[r].phase = "running"
        BY <1>1, <1>3, <2>3, <3>1
      <4>2. PICK j \in DOMAIN ch : ch[j].run = r /\ ch[j].kind = "RunStarted"
        BY <2>1, <2>3, <4>1 DEF TaskInv
      <4>3. ch[j].sess = s
        BY <4>1, <4>2 DEF ChannelInv, EventInv
      <4> QED
        BY <1>1, <3>1, <4>2, <4>3
    <3>2. CASE i \in DOMAIN ch
      <4>1. PICK j \in DOMAIN ch : j < i /\ ch[j].sess = s /\ ch[j].kind = "RunStarted"
        BY <1>1, <2>1, <2>3, <3>2 DEF TaskInv
      <4> QED
        BY <1>1, <4>1
    <3> QED
      BY <1>1, <3>1, <3>2
  <2> QED
    BY <2>2, <2>3 DEF TaskInv
<1>6. AskInv(u, s, rs2, ch2)
  <2> SUFFICES ASSUME NEW q \in DOMAIN rs2, rs2[q].sess = s, rs2[q].phase = "asking", u.question # q
               PROVE  \E i \in DOMAIN ch2 : ch2[i].kind = "AskUserRequested" /\ ch2[i].run = q
    BY DEF AskInv
  <2>1. CASE q = r
    BY <1>1, <1>3, <2>1
  <2>2. CASE q # r
    <3>1. PICK i \in DOMAIN ch : ch[i].kind = "AskUserRequested" /\ ch[i].run = q
      BY <1>1, <2>2 DEF TabInv, AskInv
    <3> QED
      BY <1>1, <3>1
  <2> QED
    BY <2>1, <2>2
<1>7. QuestionInv(u, s, rs2)
  BY <1>1 DEF TabInv, QuestionInv
<1> QED
  BY <1>2, <1>4, <1>5, <1>6, <1>7 DEF TabInv, BusyInv, DrainInv

-----------------------------------------------------------------------------
(* The terminal takes an event out of the channel.                          *)

Takes(e, ch, ch2) == ch # <<>> /\ e = Head(ch) /\ ch2 = Tail(ch)

\* The events move up by one; the run of the event is active until its last one.
TakeEffect(e, rs, ch, ch2) ==
    /\ 1 \in DOMAIN ch /\ ch[1] = e /\ ch2 \in Seq(EventRecs)
    /\ \A i \in DOMAIN ch2 : i \in Int /\ i >= 1 /\ i + 1 \in DOMAIN ch /\ ch2[i] = ch[i + 1]
    /\ \A i \in DOMAIN ch : i \in Int /\ (i = 1 \/ (i > 1 /\ i - 1 \in DOMAIN ch2 /\ ch2[i - 1] = ch[i]))
    /\ e.run \in DOMAIN rs /\ e.sess = rs[e.run].sess /\ e \in EventRecs
    /\ \A q \in DOMAIN rs : Active(q, rs, ch2) => Active(q, rs, ch)
    /\ \A q \in DOMAIN rs : q # e.run /\ Active(q, rs, ch) => Active(q, rs, ch2)
    /\ Active(e.run, rs, ch)
    /\ e.kind \in Over <=> ~Active(e.run, rs, ch2)

LEMMA TakeFacts ==
    ASSUME NEW rs, NEW ch, ChannelInv(rs, ch), NEW e, NEW ch2, Takes(e, ch, ch2)
    PROVE  TakeEffect(e, rs, ch, ch2)
<1>1. ch \in Seq(EventRecs) /\ ch # <<>> /\ e = Head(ch) /\ ch2 = Tail(ch)
  BY DEF ChannelInv, Takes
<1>2. /\ e = ch[1] /\ ch2 \in Seq(EventRecs) /\ Len(ch2) = Len(ch) - 1
      /\ \A i \in 1..Len(ch2) : ch2[i] = ch[i + 1]
  BY <1>1, HeadTailProperties
<1>3. /\ Len(ch) \in Nat /\ Len(ch) # 0 /\ DOMAIN ch = 1..Len(ch)
      /\ Len(ch2) \in Nat /\ DOMAIN ch2 = 1..Len(ch2)
  BY <1>1, <1>2, LenProperties, EmptySeq
<1>4. 1 \in DOMAIN ch /\ e \in EventRecs
  BY <1>1, <1>2, <1>3, SeqFacts
<1>5. \A i \in DOMAIN ch2 : i \in Int /\ i >= 1 /\ i + 1 \in DOMAIN ch /\ ch2[i] = ch[i + 1]
  BY <1>2, <1>3
<1>6. \A i \in DOMAIN ch : i \in Int /\ (i = 1 \/ (i > 1 /\ i - 1 \in DOMAIN ch2 /\ ch2[i - 1] = ch[i]))
  <2> SUFFICES ASSUME NEW i \in DOMAIN ch, i # 1
               PROVE  i \in Int /\ i > 1 /\ i - 1 \in DOMAIN ch2 /\ ch2[i - 1] = ch[i]
    BY <1>3
  <2>1. i \in Int /\ i > 1 /\ i - 1 \in 1..Len(ch2) /\ (i - 1) + 1 = i
    BY <1>2, <1>3
  <2> QED
    BY <1>2, <1>3, <2>1
<1>7. EventInv(1, rs, ch)
  BY <1>4 DEF ChannelInv
<1>8. e.run \in DOMAIN rs /\ e.sess = rs[e.run].sess /\ Active(e.run, rs, ch)
  BY <1>2, <1>4, <1>7 DEF EventInv, Active
<1>9. \A q \in DOMAIN rs : Active(q, rs, ch2) => Active(q, rs, ch)
  BY <1>5 DEF Active
<1>10. \A q \in DOMAIN rs : q # e.run /\ Active(q, rs, ch) => Active(q, rs, ch2)
  BY <1>2, <1>6 DEF Active
<1>11. ASSUME e.kind \in Over  PROVE  ~Active(e.run, rs, ch2)
  <2>1. rs[e.run].phase = "ended"
    BY <1>2, <1>7, <1>11 DEF EventInv
  <2>2. ASSUME NEW i \in DOMAIN ch2, ch2[i].run = e.run  PROVE  FALSE
    <3>1. OrderInv(1, i + 1, ch) /\ 1 < i + 1 /\ ch[1].run = ch[i + 1].run
      BY <1>2, <1>4, <1>5, <2>2 DEF ChannelInv
    <3> QED
      BY <1>2, <1>11, <3>1 DEF OrderInv
  <2> QED
    BY <2>1, <2>2 DEF Active
<1>12. ASSUME e.kind \notin Over  PROVE  Active(e.run, rs, ch2)
  <2>1. CASE rs[e.run].phase # "ended"
    BY <2>1 DEF Active
  <2>2. CASE rs[e.run].phase = "ended"
    <3>1. PICK j \in DOMAIN ch : j >= 1 /\ ch[j].run = e.run /\ ch[j].kind \in Over
      BY <1>2, <1>7, <2>2 DEF EventInv
    <3>2. j - 1 \in DOMAIN ch2 /\ ch2[j - 1] = ch[j]
      BY <1>2, <1>6, <1>12, <3>1
    <3> QED
      BY <3>1, <3>2 DEF Active
  <2> QED
    BY <2>1, <2>2
<1> QED
  BY <1>2, <1>4, <1>5, <1>6, <1>8, <1>9, <1>10, <1>11, <1>12 DEF TakeEffect

LEMMA TakeChannel ==
    ASSUME NEW rs, NEW ch, ChannelInv(rs, ch), NEW e, NEW ch2, Takes(e, ch, ch2)
    PROVE  ChannelInv(rs, ch2)
<1>1. /\ ch2 \in Seq(EventRecs)
      /\ \A i \in DOMAIN ch2 : i \in Int /\ i >= 1 /\ i + 1 \in DOMAIN ch /\ ch2[i] = ch[i + 1]
      /\ \A i \in DOMAIN ch : i \in Int /\ (i = 1 \/ (i > 1 /\ i - 1 \in DOMAIN ch2 /\ ch2[i - 1] = ch[i]))
  BY TakeFacts DEF TakeEffect
<1>2. ASSUME NEW i \in DOMAIN ch2  PROVE  EventInv(i, rs, ch2)
  <2>1. EventInv(i + 1, rs, ch) /\ ch2[i] = ch[i + 1]
    BY <1>1 DEF ChannelInv
  <2>2. ASSUME rs[ch2[i].run].phase = "ended"
        PROVE  \E j \in DOMAIN ch2 : j >= i /\ ch2[j].run = ch2[i].run /\ ch2[j].kind \in Over
    <3>1. PICK j \in DOMAIN ch : j >= i + 1 /\ ch[j].run = ch2[i].run /\ ch[j].kind \in Over
      BY <2>1, <2>2 DEF EventInv
    <3>2. j # 1 /\ j - 1 >= i
      BY <1>1, <3>1
    <3>3. j - 1 \in DOMAIN ch2 /\ ch2[j - 1] = ch[j]
      BY <1>1, <3>2
    <3> QED
      BY <3>1, <3>2, <3>3
  <2> QED
    BY <2>1, <2>2 DEF EventInv
<1>3. ASSUME NEW i \in DOMAIN ch2, NEW j \in DOMAIN ch2  PROVE  OrderInv(i, j, ch2)
  <2>1. OrderInv(i + 1, j + 1, ch) /\ ch2[i] = ch[i + 1] /\ ch2[j] = ch[j + 1]
    BY <1>1 DEF ChannelInv
  <2>2. i < j => i + 1 < j + 1
    BY <1>1
  <2> QED
    BY <2>1, <2>2 DEF OrderInv
<1> QED
  BY <1>1, <1>2, <1>3 DEF ChannelInv

\* The state of another session.
LEMMA TakeOther ==
    ASSUME NEW rs, NEW ch, ChannelInv(rs, ch), NEW e, NEW ch2, Takes(e, ch, ch2),
           NEW u, NEW s, s # e.sess, TabInv(u, s, rs, ch)
    PROVE  TabInv(u, s, rs, ch2)
<1>1. TakeEffect(e, rs, ch, ch2)
  BY TakeFacts
<1>2. \A q \in DOMAIN rs : rs[q].sess = s => q # e.run /\ (Active(q, rs, ch2) <=> Active(q, rs, ch))
  BY <1>1 DEF TakeEffect
<1>3. Rest(s, rs, ch2) <=> Rest(s, rs, ch)
  BY <1>2 DEF Rest
<1>4. \A i \in DOMAIN ch2 : i \in Int /\ i + 1 \in DOMAIN ch /\ ch2[i] = ch[i + 1]
  BY <1>1 DEF TakeEffect
<1>5. \A i \in DOMAIN ch : i \in Int /\ (i = 1 \/ (i - 1 \in DOMAIN ch2 /\ ch2[i - 1] = ch[i])) /\ ch[1] = e
  BY <1>1 DEF TakeEffect
<1>6. ApprovalInv(u, s, rs, ch2)
  BY <1>2, <1>4 DEF TabInv, ApprovalInv
<1>7. TaskInv(u, s, rs, ch2)
  <2>1. ASSUME NEW r \in DOMAIN rs, rs[r].sess = s, rs[r].phase \in {"running", "asking", "halting"}, u.task # TRUE
        PROVE  \E j \in DOMAIN ch2 : ch2[j].run = r /\ ch2[j].kind = "RunStarted"
    <3>1. PICK j \in DOMAIN ch : ch[j].run = r /\ ch[j].kind = "RunStarted"
      BY <2>1 DEF TabInv, TaskInv
    <3>2. j # 1
      BY <1>2, <1>5, <2>1, <3>1
    <3> QED
      BY <1>5, <3>1, <3>2
  <2>2. ASSUME NEW i \in DOMAIN ch2, ch2[i].sess = s, ch2[i].kind = "ApprovalRequested", u.task # TRUE
        PROVE  \E j \in DOMAIN ch2 : j < i /\ ch2[j].sess = s /\ ch2[j].kind = "RunStarted"
    <3>1. PICK j \in DOMAIN ch : j < i + 1 /\ ch[j].sess = s /\ ch[j].kind = "RunStarted"
      BY <1>4, <2>2 DEF TabInv, TaskInv
    <3>2. j # 1
      BY <1>5, <3>1
    <3>3. j - 1 < i
      BY <1>4, <1>5, <3>1
    <3> QED
      BY <1>5, <3>1, <3>2, <3>3
  <2> QED
    BY <2>1, <2>2 DEF TaskInv
<1>8. AskInv(u, s, rs, ch2)
  <2> SUFFICES ASSUME NEW r \in DOMAIN rs, rs[r].sess = s, rs[r].phase = "asking", u.question # r
               PROVE  \E i \in DOMAIN ch2 : ch2[i].kind = "AskUserRequested" /\ ch2[i].run = r
    BY DEF AskInv
  <2>1. PICK i \in DOMAIN ch : ch[i].kind = "AskUserRequested" /\ ch[i].run = r
    BY DEF TabInv, AskInv
  <2>2. i # 1
    BY <1>2, <1>5, <2>1
  <2> QED
    BY <1>5, <2>1, <2>2
<1> QED
  BY <1>3, <1>6, <1>7, <1>8 DEF TabInv, BusyInv, DrainInv

\* What Apply leaves of a state.
Applied(u, e, v) ==
    /\ v \in TuiRecs /\ e.kind \in EventKinds /\ v.queue = u.queue
    /\ v.task = IF e.kind = "RunStarted" THEN TRUE ELSE u.task
    /\ v.approval = IF e.kind = "ApprovalRequested" THEN e.run ELSE u.approval
    /\ v.question = IF e.kind = "AskUserRequested" THEN e.run ELSE u.question
    /\ e.kind = "RunStarted" => v.status = "Running"
    /\ e.kind = "ApprovalRequested" => v.status = "WaitingApproval"
    /\ e.kind = "AskUserRequested" => v.status = u.status
    /\ e.kind = "Interrupted" => v.status = "Interrupted"
    /\ e.kind = "Finished" => v.status = AfterFinished(u)
    /\ e.kind = "Failed" => v.status = "Ended"

LEMMA ApplyFacts ==
    ASSUME NEW u \in TuiRecs, NEW e \in EventRecs
    PROVE  Applied(u, e, Apply(u, e))
<1>1. e.kind \in EventKinds /\ e.run \in Nat
  BY DEF EventRecs
<1>2. AfterFinished(u) \in Statuses
  BY DEF AfterFinished, Statuses
<1>3. /\ e.kind = "RunStarted" => Apply(u, e) = [u EXCEPT !.status = "Running", !.task = TRUE]
      /\ e.kind = "ApprovalRequested" => Apply(u, e) = [u EXCEPT !.status = "WaitingApproval", !.approval = e.run]
      /\ e.kind = "AskUserRequested" => Apply(u, e) = [u EXCEPT !.question = e.run]
      /\ e.kind = "Interrupted" => Apply(u, e) = [u EXCEPT !.status = "Interrupted"]
      /\ e.kind = "Finished" => Apply(u, e) = [u EXCEPT !.status = AfterFinished(u)]
      /\ e.kind = "Failed" => Apply(u, e) = [u EXCEPT !.status = "Ended"]
  BY DEF Apply
<1>4. CASE e.kind = "RunStarted"
  BY <1>1, <1>3, <1>4 DEF Applied, TuiRecs, Statuses
<1>5. CASE e.kind = "ApprovalRequested"
  BY <1>1, <1>3, <1>5 DEF Applied, TuiRecs, Statuses
<1>6. CASE e.kind = "AskUserRequested"
  BY <1>1, <1>3, <1>6 DEF Applied, TuiRecs
<1>7. CASE e.kind = "Interrupted"
  BY <1>1, <1>3, <1>7 DEF Applied, TuiRecs, Statuses
<1>8. CASE e.kind = "Finished"
  BY <1>1, <1>2, <1>3, <1>8 DEF Applied, TuiRecs
<1>9. CASE e.kind = "Failed"
  BY <1>1, <1>3, <1>9 DEF Applied, TuiRecs, Statuses
<1> QED
  BY <1>1, <1>4, <1>5, <1>6, <1>7, <1>8, <1>9 DEF EventKinds

\* The state of the session whose event it is.
LEMMA TakeOwn ==
    ASSUME NEW rs, NEW ch, ChannelInv(rs, ch), NEW e, NEW ch2, Takes(e, ch, ch2),
           NEW T, SoleInv(T, rs, ch), e.sess \in T,
           NEW u, TabInv(u, e.sess, rs, ch)
    PROVE  TabInv(Apply(u, e), e.sess, rs, ch2)
<1> DEFINE s == e.sess
           v == Apply(u, e)
<1>1. TakeEffect(e, rs, ch, ch2)
  BY TakeFacts
<1>2. /\ e.run \in DOMAIN rs /\ rs[e.run].sess = s /\ Active(e.run, rs, ch) /\ e \in EventRecs
      /\ e.kind \in Over <=> ~Active(e.run, rs, ch2)
      /\ 1 \in DOMAIN ch /\ ch[1] = e
  BY <1>1 DEF TakeEffect
<1>3. \A q \in DOMAIN rs : rs[q].sess = s /\ Active(q, rs, ch) => q = e.run
  BY <1>2 DEF SoleInv
<1>4. \A q \in DOMAIN rs : rs[q].sess = s /\ Active(q, rs, ch2) => q = e.run
  BY <1>1, <1>3 DEF TakeEffect
<1>5. Rest(s, rs, ch2) <=> e.kind \in Over
  BY <1>2, <1>4 DEF Rest
<1>6. ~Rest(s, rs, ch)
  BY <1>2 DEF Rest
<1>19. u \in TuiRecs /\ Applied(u, e, v)
  BY <1>2, ApplyFacts DEF TabInv
<1> HIDE DEF v
<1>7. u \in TuiRecs /\ v \in TuiRecs
  BY <1>19 DEF Applied
<1>8. EventInv(1, rs, ch)
  BY <1>2 DEF ChannelInv
<1>9. e.kind # "Finished" => u.approval = NoRun
  BY <1>2 DEF TabInv, ApprovalInv
<1>10. \A i \in DOMAIN ch2 : i \in Int /\ i >= 1 /\ i + 1 \in DOMAIN ch /\ ch2[i] = ch[i + 1]
  BY <1>1 DEF TakeEffect
<1>11. \A i \in DOMAIN ch : i \in Int /\ (i = 1 \/ (i - 1 \in DOMAIN ch2 /\ ch2[i - 1] = ch[i]))
  BY <1>1 DEF TakeEffect
<1>12. 0 \notin DOMAIN rs
  BY LenProperties DEF ChannelInv
<1>13. ApprovalInv(v, s, rs, ch2)
  <2>1. CASE e.kind = "ApprovalRequested"
    <3>1. v.approval = e.run /\ v.status = "WaitingApproval" /\ v.task = u.task
      BY <1>19, <2>1 DEF Applied
    <3>2. rs[e.run].phase \in {"halting", "ended"}
      BY <1>2, <1>8, <2>1 DEF EventInv
    <3>3. u.task = TRUE
      <4>1. \A j \in DOMAIN ch : ~(j < 1)
        BY <1>10, <1>11
      <4> QED
        BY <1>2, <2>1, <4>1 DEF TabInv, TaskInv
    <3>4. ASSUME NEW i \in DOMAIN ch2, ch2[i].sess = s  PROVE  ch2[i].kind = "Finished"
      <4>1. EventInv(i + 1, rs, ch) /\ ch2[i] = ch[i + 1]
        BY <1>10 DEF ChannelInv
      <4>2. ch2[i].run = e.run
        <5>1. ch2[i].run \in DOMAIN rs /\ rs[ch2[i].run].sess = s
          BY <3>4, <4>1 DEF EventInv
        <5>2. Active(ch2[i].run, rs, ch)
          BY <1>10, <4>1 DEF Active
        <5> QED
          BY <1>3, <5>1, <5>2
      <4>3. OrderInv(1, i + 1, ch) /\ 1 < i + 1
        BY <1>2, <1>10 DEF ChannelInv
      <4> QED
        BY <1>2, <2>1, <4>1, <4>2, <4>3 DEF OrderInv
    <3> QED
      BY <1>2, <1>4, <3>1, <3>2, <3>3, <3>4 DEF ApprovalInv
  <2>2. CASE e.kind = "Finished"
    <3>1. v.approval = u.approval /\ v.task = u.task /\ v.status = AfterFinished(u)
      BY <1>19, <2>2 DEF Applied
    <3>2. ApprovalInv(u, s, rs, ch)
      BY DEF TabInv
    <3>3. u.approval # NoRun => v.status = "WaitingApproval"
      BY <3>1 DEF AfterFinished
    <3>4. \A q \in DOMAIN rs : rs[q].sess = s /\ Active(q, rs, ch2) => Active(q, rs, ch)
      BY <1>1 DEF TakeEffect
    <3> QED
      BY <1>10, <3>1, <3>2, <3>3, <3>4 DEF ApprovalInv
  <2>3. CASE e.kind \notin {"ApprovalRequested", "Finished"}
    <3>1. v.approval = u.approval
      BY <1>19, <2>3 DEF Applied
    <3> QED
      BY <1>9, <2>3, <3>1 DEF ApprovalInv
  <2> QED
    BY <2>1, <2>2, <2>3
<1>14. QuestionInv(v, s, rs)
  <2>1. v.question \in {u.question, e.run}
    BY <1>19 DEF Applied
  <2> QED
    BY <1>2, <2>1 DEF TabInv, QuestionInv
<1>15. BusyInv(v, s, rs, ch2)
  <2>1. CASE e.kind \notin Over
    BY <1>5, <2>1 DEF BusyInv
  <2>2. CASE e.kind = "Finished"
    <3>1. v.status = AfterFinished(u) /\ v.approval = u.approval
      BY <1>19, <2>2 DEF Applied
    <3> QED
      BY <3>1 DEF BusyInv, Busy, AfterFinished
  <2>3. CASE e.kind = "Failed"
    <3>1. v.status = "Ended"
      BY <1>19, <2>3 DEF Applied
    <3> QED
      BY <3>1 DEF BusyInv, Busy
  <2> QED
    BY <2>1, <2>2, <2>3 DEF Over
<1>16. DrainInv(v, s, rs, ch2)
  <2>1. CASE e.kind \in Over
    BY <1>5, <2>1 DEF DrainInv
  <2>2. CASE e.kind \in {"RunStarted", "ApprovalRequested", "Interrupted"}
    <3>1. v.status \in {"Running", "WaitingApproval", "Interrupted"}
      BY <1>19, <2>2 DEF Applied
    <3> QED
      BY <3>1 DEF DrainInv, MayDrain, Busy
  <2>3. CASE e.kind = "AskUserRequested"
    <3>1. v.status = u.status /\ v.queue = u.queue
      BY <1>19, <2>3 DEF Applied
    <3> QED
      BY <1>6, <3>1 DEF TabInv, DrainInv, MayDrain, Busy
  <2> QED
    BY <1>19, <2>1, <2>2, <2>3 DEF Applied, Over, EventKinds
<1>17. TaskInv(v, s, rs, ch2)
  <2>1. CASE e.kind = "RunStarted"
    <3>1. v.task = TRUE
      BY <1>19, <2>1 DEF Applied
    <3> QED
      BY <3>1 DEF TaskInv
  <2>2. CASE e.kind # "RunStarted"
    <3>1. v.task = u.task
      BY <1>19, <2>2 DEF Applied
    <3>2. ASSUME NEW r \in DOMAIN rs, rs[r].sess = s, rs[r].phase \in {"running", "asking", "halting"}, u.task # TRUE
          PROVE  \E j \in DOMAIN ch2 : ch2[j].run = r /\ ch2[j].kind = "RunStarted"
      <4>1. PICK j \in DOMAIN ch : ch[j].run = r /\ ch[j].kind = "RunStarted"
        BY <3>2 DEF TabInv, TaskInv
      <4> QED
        BY <1>2, <1>11, <2>2, <4>1
    <3>3. ASSUME NEW i \in DOMAIN ch2, ch2[i].sess = s, ch2[i].kind = "ApprovalRequested", u.task # TRUE
          PROVE  \E j \in DOMAIN ch2 : j < i /\ ch2[j].sess = s /\ ch2[j].kind = "RunStarted"
      <4>1. PICK j \in DOMAIN ch : j < i + 1 /\ ch[j].sess = s /\ ch[j].kind = "RunStarted"
        BY <1>10, <3>3 DEF TabInv, TaskInv
      <4>2. j # 1 /\ j - 1 < i
        BY <1>2, <1>10, <1>11, <2>2, <4>1
      <4> QED
        BY <1>11, <4>1, <4>2
    <3> QED
      BY <3>1, <3>2, <3>3 DEF TaskInv
  <2> QED
    BY <2>1, <2>2
<1>18. AskInv(v, s, rs, ch2)
  <2> SUFFICES ASSUME NEW r \in DOMAIN rs, rs[r].sess = s, rs[r].phase = "asking", v.question # r
               PROVE  \E i \in DOMAIN ch2 : ch2[i].kind = "AskUserRequested" /\ ch2[i].run = r
    BY DEF AskInv
  <2>1. r = e.run
    BY <1>3 DEF Active
  <2>2. e.kind # "AskUserRequested"
    BY <1>19, <2>1 DEF Applied
  <2>3. v.question = u.question
    BY <1>19, <2>2 DEF Applied
  <2>4. PICK i \in DOMAIN ch : ch[i].kind = "AskUserRequested" /\ ch[i].run = r
    BY <2>3 DEF TabInv, AskInv
  <2> QED
    BY <1>2, <1>11, <2>2, <2>4
<1> QED
  BY <1>7, <1>13, <1>14, <1>15, <1>16, <1>17, <1>18 DEF TabInv, v

LEMMA TakeSole ==
    ASSUME NEW rs, NEW ch, ChannelInv(rs, ch), NEW e, NEW ch2, Takes(e, ch, ch2),
           NEW T, SoleInv(T, rs, ch)
    PROVE  SoleInv(T, rs, ch2)
BY TakeFacts DEF TakeEffect, SoleInv

-----------------------------------------------------------------------------
(* A run is started, woken or told to stop; a state changes on its own.     *)

\* The runs do and wait for what they did and waited for.
SameWork(rs, rs2) ==
    /\ rs2 \in Seq(RunRecs) /\ DOMAIN rs2 = DOMAIN rs
    /\ \A q \in DOMAIN rs : rs2[q].sess = rs[q].sess /\ rs2[q].phase = rs[q].phase

LEMMA SameWorkKeeps ==
    ASSUME NEW rs, NEW rs2, NEW ch, ChannelInv(rs, ch), SameWork(rs, rs2)
    PROVE  /\ ChannelInv(rs2, ch)
           /\ \A T : SoleInv(T, rs, ch) => SoleInv(T, rs2, ch)
           /\ \A u, s : TabInv(u, s, rs, ch) => TabInv(u, s, rs2, ch)
           /\ \A s : Rest(s, rs, ch) => Rest(s, rs2, ch)
<1>1. \A q \in DOMAIN rs : Active(q, rs2, ch) <=> Active(q, rs, ch)
  BY DEF SameWork, Active
<1>2. \A s : Rest(s, rs2, ch) <=> Rest(s, rs, ch)
  BY <1>1 DEF SameWork, Rest
<1>3. ChannelInv(rs2, ch)
  <2>1. ASSUME NEW i \in DOMAIN ch  PROVE EventInv(i, rs2, ch)
    <3>1. EventInv(i, rs, ch)
      BY DEF ChannelInv
    <3>2. ch[i].run \in DOMAIN rs
      BY <3>1 DEF EventInv
    <3>3. /\ ch[i].run \in DOMAIN rs2 /\ rs2[ch[i].run].sess = rs[ch[i].run].sess
          /\ rs2[ch[i].run].phase = rs[ch[i].run].phase
      BY <3>2 DEF SameWork
    <3> QED
      BY <3>1, <3>3 DEF EventInv
  <2> QED
    BY <2>1 DEF ChannelInv, SameWork
<1>4. ASSUME NEW T, SoleInv(T, rs, ch)  PROVE  SoleInv(T, rs2, ch)
  BY <1>1, <1>4 DEF SoleInv, SameWork
<1>5. ASSUME NEW u, NEW s, TabInv(u, s, rs, ch)  PROVE  TabInv(u, s, rs2, ch)
  <2>1. ApprovalInv(u, s, rs2, ch)
    BY <1>1, <1>5 DEF TabInv, ApprovalInv, SameWork
  <2>2. QuestionInv(u, s, rs2) /\ BusyInv(u, s, rs2, ch) /\ DrainInv(u, s, rs2, ch)
    BY <1>2, <1>5 DEF TabInv, QuestionInv, BusyInv, DrainInv, SameWork
  <2>3. TaskInv(u, s, rs2, ch)
    BY <1>5 DEF TabInv, TaskInv, SameWork
  <2>4. AskInv(u, s, rs2, ch)
    BY <1>5 DEF TabInv, AskInv, SameWork
  <2> QED
    BY <1>5, <2>1, <2>2, <2>3, <2>4 DEF TabInv
<1> QED
  BY <1>2, <1>3, <1>4, <1>5

\* The token of run r is fired.
Told(r, rs, rs2) == rs2 = [rs EXCEPT ![r].fired = TRUE]

LEMMA ToldFacts ==
    ASSUME NEW rs \in Seq(RunRecs), NEW r \in DOMAIN rs, NEW rs2, Told(r, rs, rs2)
    PROVE  /\ SameWork(rs, rs2) /\ rs2[r].fired = TRUE
           /\ \A q \in DOMAIN rs : q # r => rs2[q] = rs[q]
<1>1. rs \in [1..Len(rs) -> RunRecs] /\ Len(rs) \in Nat /\ DOMAIN rs = 1..Len(rs)
  BY LenProperties
<1>2. rs2 \in [1..Len(rs) -> RunRecs]
  BY <1>1 DEF RunRecs, Told
<1>3. rs2 \in Seq(RunRecs)
  BY <1>1, <1>2, SeqDef
<1>4. rs2[r] = [rs[r] EXCEPT !.fired = TRUE] /\ \A q \in DOMAIN rs : q # r => rs2[q] = rs[q]
  BY <1>1 DEF Told
<1>5. rs2[r].phase = rs[r].phase /\ rs2[r].sess = rs[r].sess /\ rs2[r].fired = TRUE
  BY <1>1, <1>4 DEF RunRecs
<1> QED
  BY <1>1, <1>2, <1>3, <1>4, <1>5 DEF SameWork

\* A run is started in session s.
Begins(s, rs, rs2) == rs2 = Append(rs, Run(s))

BeginEffect(n, s, rs, rs2, ch) ==
    /\ rs2 \in Seq(RunRecs) /\ DOMAIN rs2 = DOMAIN rs \cup {n} /\ n \notin DOMAIN rs
    /\ \A q \in DOMAIN rs : rs2[q] = rs[q]
    /\ rs2[n].sess = s /\ rs2[n].phase = "starting"
    /\ Active(n, rs2, ch)
    /\ \A q \in DOMAIN rs : Active(q, rs2, ch) <=> Active(q, rs, ch)
    /\ \A t : t # s => (Rest(t, rs2, ch) <=> Rest(t, rs, ch))
    /\ ~Rest(s, rs2, ch)

LEMMA BeginFacts ==
    ASSUME NEW rs, NEW ch, ChannelInv(rs, ch), NEW s \in Nat, NEW rs2, Begins(s, rs, rs2)
    PROVE  BeginEffect(Len(rs) + 1, s, rs, rs2, ch)
<1>1. rs \in Seq(RunRecs)
  BY DEF ChannelInv
<1>2. Run(s) \in RunRecs /\ Run(s).sess = s /\ Run(s).phase = "starting"
  BY DEF Run, RunRecs, Phases
<1> DEFINE n == Len(rs) + 1
<1>3. /\ rs2 \in Seq(RunRecs) /\ DOMAIN rs2 = DOMAIN rs \cup {n} /\ n \notin DOMAIN rs
      /\ rs2[n] = Run(s) /\ \A q \in DOMAIN rs : rs2[q] = rs[q]
  BY <1>1, <1>2, AddLast DEF Begins
<1> HIDE DEF n
<1>4. Active(n, rs2, ch) /\ \A q \in DOMAIN rs : Active(q, rs2, ch) <=> Active(q, rs, ch)
  BY <1>2, <1>3 DEF Active
<1>5. \A t : t # s => (Rest(t, rs2, ch) <=> Rest(t, rs, ch))
  BY <1>2, <1>3, <1>4 DEF Rest
<1>6. ~Rest(s, rs2, ch)
  BY <1>2, <1>3, <1>4 DEF Rest
<1> QED
  BY <1>2, <1>3, <1>4, <1>5, <1>6 DEF BeginEffect, n

LEMMA BeginChannel ==
    ASSUME NEW rs, NEW ch, ChannelInv(rs, ch), NEW s \in Nat, NEW rs2, Begins(s, rs, rs2)
    PROVE  ChannelInv(rs2, ch)
<1>0. BeginEffect(Len(rs) + 1, s, rs, rs2, ch)
  BY BeginFacts
<1>1. rs2 \in Seq(RunRecs) /\ DOMAIN rs \subseteq DOMAIN rs2 /\ \A q \in DOMAIN rs : rs2[q] = rs[q]
  BY <1>0 DEF BeginEffect
<1>2. \A i \in DOMAIN ch : EventInv(i, rs2, ch)
  BY <1>1 DEF ChannelInv, EventInv
<1> QED
  BY <1>1, <1>2 DEF ChannelInv

LEMMA BeginSole ==
    ASSUME NEW rs, NEW ch, ChannelInv(rs, ch), NEW s \in Nat, NEW rs2, Begins(s, rs, rs2),
           NEW T, SoleInv(T, rs, ch), s \in T => Rest(s, rs, ch)
    PROVE  SoleInv(T, rs2, ch)
<1>1. BeginEffect(Len(rs) + 1, s, rs, rs2, ch)
  BY BeginFacts
<1> QED
  BY <1>1 DEF BeginEffect, SoleInv, Rest

\* The state of another session.
LEMMA BeginOther ==
    ASSUME NEW rs, NEW ch, ChannelInv(rs, ch), NEW s \in Nat, NEW rs2, Begins(s, rs, rs2),
           NEW u, NEW t, t # s, TabInv(u, t, rs, ch)
    PROVE  TabInv(u, t, rs2, ch)
<1>1. BeginEffect(Len(rs) + 1, s, rs, rs2, ch)
  BY BeginFacts
<1>2. /\ \A q \in DOMAIN rs2 : rs2[q].sess = t => q \in DOMAIN rs
      /\ \A q \in DOMAIN rs : q \in DOMAIN rs2 /\ rs2[q] = rs[q] /\ (Active(q, rs2, ch) <=> Active(q, rs, ch))
      /\ Rest(t, rs2, ch) <=> Rest(t, rs, ch)
  BY <1>1 DEF BeginEffect
<1>3. ApprovalInv(u, t, rs2, ch)
  BY <1>2 DEF TabInv, ApprovalInv
<1>4. QuestionInv(u, t, rs2) /\ BusyInv(u, t, rs2, ch) /\ DrainInv(u, t, rs2, ch)
  BY <1>2 DEF TabInv, QuestionInv, BusyInv, DrainInv
<1>5. TaskInv(u, t, rs2, ch)
  BY <1>2 DEF TabInv, TaskInv
<1>6. AskInv(u, t, rs2, ch)
  BY <1>2 DEF TabInv, AskInv
<1> QED
  BY <1>3, <1>4, <1>5, <1>6 DEF TabInv

\* The state of the session, which was at rest.
LEMMA BeginOwn ==
    ASSUME NEW rs, NEW ch, ChannelInv(rs, ch), NEW s \in Nat, NEW rs2, Begins(s, rs, rs2),
           NEW u, TabInv(u, s, rs, ch), Rest(s, rs, ch),
           NEW v \in TuiRecs, v.question = u.question, v.approval = NoRun, ~MayDrain(v)
    PROVE  TabInv(v, s, rs2, ch)
<1>1. BeginEffect(Len(rs) + 1, s, rs, rs2, ch)
  BY BeginFacts
<1>2. \A q \in DOMAIN rs : q \in DOMAIN rs2 /\ rs2[q] = rs[q]
  BY <1>1 DEF BeginEffect
<1>3. \A q \in DOMAIN rs2 : rs2[q].sess = s => rs2[q].phase \in {"starting", "ended"}
  BY <1>1 DEF BeginEffect, Rest, Active
<1>4. ASSUME NEW i \in DOMAIN ch, ch[i].sess = s  PROVE  FALSE
  <2>1. EventInv(i, rs, ch)
    BY DEF ChannelInv
  <2> QED
    BY <1>4, <2>1 DEF EventInv, Rest, Active
<1>5. ApprovalInv(v, s, rs2, ch) /\ DrainInv(v, s, rs2, ch)
  BY DEF ApprovalInv, DrainInv
<1>6. QuestionInv(v, s, rs2)
  BY <1>2 DEF TabInv, QuestionInv
<1>7. BusyInv(v, s, rs2, ch)
  BY <1>1 DEF BeginEffect, BusyInv
<1>8. TaskInv(v, s, rs2, ch)
  BY <1>3, <1>4 DEF TaskInv
<1>9. AskInv(v, s, rs2, ch)
  BY <1>3 DEF AskInv
<1> QED
  BY <1>5, <1>6, <1>7, <1>8, <1>9 DEF TabInv

\* A run that waits for an answer has it.
LEMMA WakeKeeps ==
    ASSUME NEW rs, NEW ch, ChannelInv(rs, ch), NEW q \in DOMAIN rs, rs[q].phase = "asking",
           NEW rs2, Reaches(q, "running", rs, rs2)
    PROVE  /\ ChannelInv(rs2, ch)
           /\ \A r \in DOMAIN rs : Active(r, rs2, ch) <=> Active(r, rs, ch)
           /\ \A T : SoleInv(T, rs, ch) => SoleInv(T, rs2, ch)
           /\ \A s : Rest(s, rs, ch) => Rest(s, rs2, ch)
           /\ \A u, s : TabInv(u, s, rs, ch) => TabInv(u, s, rs2, ch)
<1>1. /\ rs2 \in Seq(RunRecs) /\ DOMAIN rs2 = DOMAIN rs
      /\ \A r \in DOMAIN rs : rs2[r].sess = rs[r].sess
      /\ \A r \in DOMAIN rs : r # q => rs2[r].phase = rs[r].phase
      /\ rs2[q].phase = "running"
  <2>1. "running" \in Phases /\ rs \in Seq(RunRecs)
    BY DEF Phases, ChannelInv
  <2> QED
    BY <2>1, SetPhase
<1>2. \A r \in DOMAIN rs : Active(r, rs2, ch) <=> Active(r, rs, ch)
  BY <1>1 DEF Active
<1>3. \A s : Rest(s, rs2, ch) <=> Rest(s, rs, ch)
  BY <1>1, <1>2 DEF Rest
<1>4. ChannelInv(rs2, ch)
  <2>1. ASSUME NEW i \in DOMAIN ch  PROVE  EventInv(i, rs2, ch)
    <3>1. EventInv(i, rs, ch)
      BY DEF ChannelInv
    <3> QED
      BY <1>1, <3>1 DEF EventInv
  <2> QED
    BY <1>1, <2>1 DEF ChannelInv
<1>5. ASSUME NEW T, SoleInv(T, rs, ch)  PROVE  SoleInv(T, rs2, ch)
  BY <1>1, <1>2, <1>5 DEF SoleInv
<1>6. ASSUME NEW u, NEW s, TabInv(u, s, rs, ch)  PROVE  TabInv(u, s, rs2, ch)
  <2>1. ApprovalInv(u, s, rs2, ch)
    BY <1>1, <1>2, <1>6 DEF TabInv, ApprovalInv
  <2>2. QuestionInv(u, s, rs2) /\ BusyInv(u, s, rs2, ch) /\ DrainInv(u, s, rs2, ch)
    BY <1>1, <1>3, <1>6 DEF TabInv, QuestionInv, BusyInv, DrainInv
  <2>3. TaskInv(u, s, rs2, ch)
    <3>1. \A r \in DOMAIN rs : rs2[r].phase \in {"running", "asking", "halting"} =>
                                   rs[r].phase \in {"running", "asking", "halting"}
      BY <1>1
    <3> QED
      BY <1>1, <1>6, <3>1 DEF TabInv, TaskInv
  <2>4. AskInv(u, s, rs2, ch)
    <3>1. \A r \in DOMAIN rs : rs2[r].phase = "asking" => rs[r].phase = "asking"
      BY <1>1
    <3> QED
      BY <1>1, <1>6, <3>1 DEF TabInv, AskInv
  <2> QED
    BY <1>6, <2>1, <2>2, <2>3, <2>4 DEF TabInv
<1> QED
  BY <1>2, <1>3, <1>4, <1>5, <1>6

\* A state that changes while the runs go on: what is said of the runs stays true.
LEMMA StateChange ==
    ASSUME NEW rs, NEW ch, NEW u, NEW s, TabInv(u, s, rs, ch), NEW v \in TuiRecs,
           v.approval = u.approval, v.task = u.task,
           v.question = u.question \/ (v.question = NoRun /\ (u.question \in DOMAIN rs => rs[u.question].phase # "asking")),
           Busy(v) => Busy(u), MayDrain(v) => Rest(s, rs, ch), v.approval # NoRun => v.status = u.status
    PROVE  TabInv(v, s, rs, ch)
<1>1. ApprovalInv(v, s, rs, ch)
  BY DEF TabInv, ApprovalInv
<1>2. QuestionInv(v, s, rs) /\ BusyInv(v, s, rs, ch) /\ DrainInv(v, s, rs, ch)
  BY DEF TabInv, QuestionInv, BusyInv, DrainInv
<1>3. TaskInv(v, s, rs, ch)
  BY DEF TabInv, TaskInv
<1>4. AskInv(v, s, rs, ch)
  BY DEF TabInv, AskInv
<1> QED
  BY <1>1, <1>2, <1>3, <1>4 DEF TabInv

\* The state of a session that nothing ran in.
LEMMA FreshTab ==
    ASSUME NEW rs, NEW ch, ChannelInv(rs, ch), NEW s, \A r \in DOMAIN rs : rs[r].sess # s
    PROVE  TabInv(Fresh, s, rs, ch)
<1>1. /\ Fresh \in TuiRecs /\ Fresh.approval = NoRun /\ Fresh.question = NoRun
      /\ ~Busy(Fresh) /\ ~MayDrain(Fresh)
  BY DEF Fresh, TuiRecs, Busy, MayDrain, Statuses, NoRun
<1>2. \A i \in DOMAIN ch : ch[i].sess # s
  BY DEF ChannelInv, EventInv
<1> HIDE DEF Fresh
<1> QED
  BY <1>1, <1>2 DEF TabInv, ApprovalInv, QuestionInv, BusyInv, DrainInv, TaskInv, AskInv

-----------------------------------------------------------------------------
(* The invariant, and the runs' steps.                                      *)

SlashTypes ==
    /\ tick \in {"events", "show", "key"}
    /\ state \in TuiRecs /\ \A s \in DOMAIN other : other[s] \in TuiRecs
    /\ last \in 1..made /\ DOMAIN other \subseteq 1..made

\* Events are applied and keys read while the session shown is the current one, or
\* there is none; then no tab has been shown or has run anything.
PlaceInv ==
    /\ tick # "show" => current \in {last, NoSession}
    /\ current = NoSession =>
           \A s \in In(tabs) : s # last /\ s \notin DOMAIN other /\ \A r \in DOMAIN runs : runs[r].sess # s
    /\ \A r \in DOMAIN runs : runs[r].sess \in {NoSession, last} \cup DOMAIN other
    /\ In(tabs) = Registered

\* The token of a run is in the handle of its session or was fired.
TokenInv ==
    /\ \A s \in Registered : router.token[s] \in {NoRun} \cup DOMAIN runs
    /\ \A r \in DOMAIN runs :
           runs[r].sess # NoSession /\ runs[r].phase # "ended" =>
               runs[r].fired = TRUE \/ (runs[r].sess \in Registered /\ router.token[runs[r].sess] = r)

\* A command waits while the channel is emptied; /session resume was typed in a
\* session at rest.
CommandInv ==
    /\ command.kind \in {"none"} \cup (Commands \cap Keys)
    /\ command.kind # "none" => tick = "events"
    /\ tick = "key" => ~MayDrain(state)
    /\ command.kind = "resume" /\ current \in In(tabs) =>
           Rest(current, runs, channel) /\ ~MayDrain(state) /\ state.approval = NoRun

TabsInv == \A s \in In(tabs) : TabInv(TuiOf(s), s, runs, channel)

SlashInv ==
    /\ DirInv /\ SlashTypes /\ PlaceInv /\ ChannelInv(runs, channel)
    /\ SoleInv(In(tabs), runs, channel) /\ TabsInv /\ TokenInv /\ CommandInv

\* The tabs are sessions that were made.
LEMMA TabNumbers ==
    ASSUME DirInv
    PROVE  /\ \A s \in In(tabs) : s \in 1..made /\ s # NoSession
           /\ made \in Nat /\ NewId = made + 1 /\ NewId \notin In(tabs) /\ NewId \in Nat
           /\ NewId # NoSession /\ NewId \notin 1..made /\ NoSession \notin 1..made
           /\ 1..made \subseteq Nat /\ 1..made \subseteq 1..made + 1 /\ current \in Nat
BY DEF DirInv, NewId, NoSession

LEMMA SameStates ==
    ASSUME UNCHANGED <<state, last, other>>
    PROVE  \A s : TuiOf(s)' = TuiOf(s)
BY DEF TuiOf

LEMMA KeyStates ==
    ASSUME UNCHANGED <<last, other>>
    PROVE  \A s : TuiOf(s)' = IF s = last THEN state' ELSE TuiOf(s)
BY DEF TuiOf

LEMMA RunSends ==
    ASSUME NEW r \in DOMAIN runs, RunStep(r)
    PROVE  /\ UNCHANGED <<loop, router, made>>
           /\ \E p, k : Sends(r, p, k, runs, channel, runs', channel')
<1>1. CASE Starts(r)
  <2>1. Sends(r, "running", "RunStarted", runs, channel, runs', channel') /\ UNCHANGED <<loop, router, made>>
    BY <1>1 DEF Starts, Advance, Sends, Reaches, Moves
  <2> QED
    BY <2>1
<1>2. CASE Fails(r)
  <2>1. Sends(r, "ended", "Failed", runs, channel, runs', channel') /\ UNCHANGED <<loop, router, made>>
    BY <1>2 DEF Fails, Advance, Sends, Reaches, Moves
  <2> QED
    BY <2>1
<1>3. CASE Asks(r)
  <2>1. Sends(r, "asking", "AskUserRequested", runs, channel, runs', channel') /\ UNCHANGED <<loop, router, made>>
    BY <1>3 DEF Asks, Advance, Sends, Reaches, Moves
  <2> QED
    BY <2>1
<1>4. CASE NeedsApproval(r)
  <2>1. Sends(r, "halting", "ApprovalRequested", runs, channel, runs', channel') /\ UNCHANGED <<loop, router, made>>
    BY <1>4 DEF NeedsApproval, Advance, Sends, Reaches, Moves
  <2> QED
    BY <2>1
<1>5. CASE SeesCancel(r)
  <2>1. Sends(r, "halting", "Interrupted", runs, channel, runs', channel') /\ UNCHANGED <<loop, router, made>>
    BY <1>5 DEF SeesCancel, Advance, Sends, Reaches, Moves
  <2> QED
    BY <2>1
<1>6. CASE Finishes(r)
  <2>1. Sends(r, "ended", "Finished", runs, channel, runs', channel') /\ UNCHANGED <<loop, router, made>>
    BY <1>6 DEF Finishes, Advance, Sends, Reaches, Moves
  <2> QED
    BY <2>1
<1> QED
  BY <1>1, <1>2, <1>3, <1>4, <1>5, <1>6 DEF RunStep

LEMMA RunsKeep ==
    ASSUME SlashInv, NEW r \in DOMAIN runs, RunStep(r), DirInv'
    PROVE  SlashInv'
<1>1. PICK p, k : Sends(r, p, k, runs, channel, runs', channel')
  BY RunSends
<1>2. UNCHANGED <<tick, state, last, other, current, tabs, command, router, made>>
  BY RunSends DEF loop
<1>3. ChannelInv(runs, channel) /\ SoleInv(In(tabs), runs, channel) /\ TabsInv
  BY DEF SlashInv
<1>4. SendEffect(Len(channel) + 1, r, p, k, runs, channel, runs', channel')
  BY <1>1, <1>3, AdvanceEffect
<1>5. /\ DOMAIN runs' = DOMAIN runs
      /\ \A q \in DOMAIN runs : runs'[q].sess = runs[q].sess /\ runs'[q].fired = runs[q].fired
      /\ \A q \in DOMAIN runs : Active(q, runs', channel') <=> Active(q, runs, channel)
      /\ \A q \in DOMAIN runs : q # r => runs'[q].phase = runs[q].phase
  BY <1>4 DEF SendEffect
<1>6. SlashTypes'
  BY <1>2 DEF SlashInv, SlashTypes
<1>7. In(tabs)' = In(tabs) /\ Registered' = Registered
  BY <1>2 DEF In, Registered
<1>8. PlaceInv'
  BY <1>2, <1>5, <1>7 DEF SlashInv, PlaceInv
<1>9. ChannelInv(runs', channel')
  BY <1>1, <1>3, AdvanceChannel
<1>10. SoleInv(In(tabs), runs', channel')
  BY <1>3, <1>5 DEF SoleInv
<1>11. \A s \in In(tabs) : TabInv(TuiOf(s), s, runs', channel')
  BY <1>1, <1>3, AdvanceTab DEF TabsInv
<1>12. TabsInv'
  BY <1>2, <1>7, <1>11, SameStates DEF TabsInv
<1>13. TokenInv'
  <2>1. runs[r].phase # "ended"
    BY <1>1 DEF Sends, Moves
  <2> QED
    BY <1>2, <1>5, <1>7, <2>1 DEF SlashInv, TokenInv
<1>14. CommandInv'
  <2>1. Rest(current, runs', channel') <=> Rest(current, runs, channel)
    BY <1>5 DEF Rest
  <2> QED
    BY <1>2, <1>7, <2>1 DEF SlashInv, CommandInv
<1> QED
  BY <1>6, <1>7, <1>8, <1>9, <1>10, <1>12, <1>13, <1>14 DEF SlashInv

LEMMA EventsKeep ==
    ASSUME SlashInv, ApplyEvent, DirInv'
    PROVE  SlashInv'
<1> DEFINE e == Head(channel)
<1>1. Takes(e, channel, channel')
  BY DEF ApplyEvent, Takes
<1>2. /\ tick = "events"
      /\ UNCHANGED <<tick, last, current, tabs, command, router, runs, made>>
  BY DEF ApplyEvent
<1>3. IF current = NoSession \/ e.sess = current
      THEN state' = Apply(state, e) /\ other' = other
      ELSE /\ other' = [s \in DOMAIN other |-> IF s = e.sess THEN Apply(other[s], e) ELSE other[s]]
           /\ state' = state
  BY DEF ApplyEvent
<1> HIDE DEF e
<1>4. ChannelInv(runs, channel) /\ SoleInv(In(tabs), runs, channel) /\ TabsInv
  BY DEF SlashInv
<1>5. TakeEffect(e, runs, channel, channel')
  BY <1>1, <1>4, TakeFacts
<1>6. e.run \in DOMAIN runs /\ e.sess = runs[e.run].sess /\ e \in EventRecs
  BY <1>5 DEF TakeEffect
<1>7. \A u \in TuiRecs : Apply(u, e) \in TuiRecs
  BY <1>6, ApplyFacts DEF Applied
<1>8. DOMAIN other' = DOMAIN other
  BY <1>3
<1>9. SlashTypes'
  <2>1. state' \in TuiRecs
    BY <1>3, <1>7 DEF SlashInv, SlashTypes
  <2>2. \A s \in DOMAIN other' : other'[s] \in TuiRecs
    BY <1>3, <1>7, <1>8 DEF SlashInv, SlashTypes
  <2> QED
    BY <1>2, <1>8, <2>1, <2>2 DEF SlashInv, SlashTypes
<1>10. In(tabs)' = In(tabs) /\ Registered' = Registered
  BY <1>2 DEF In, Registered
<1>11. PlaceInv'
  BY <1>2, <1>8, <1>10 DEF SlashInv, PlaceInv
<1>12. ASSUME NEW s \in In(tabs)
       PROVE  TuiOf(s)' = IF s = e.sess THEN Apply(TuiOf(s), e) ELSE TuiOf(s)
  <2>1. s # NoSession
    BY TabNumbers DEF SlashInv
  <2>2. CASE current = NoSession
    <3>1. s # last /\ s \notin DOMAIN other /\ s # e.sess
      BY <1>6, <2>2 DEF SlashInv, PlaceInv
    <3> QED
      BY <1>2, <1>8, <3>1 DEF TuiOf
  <2>3. CASE current # NoSession /\ e.sess = current
    <3>1. last = e.sess
      BY <1>2, <2>3 DEF SlashInv, PlaceInv
    <3>2. state' = Apply(state, e) /\ other' = other /\ last' = last
      BY <1>2, <1>3, <2>3
    <3> QED
      BY <3>1, <3>2 DEF TuiOf
  <2>4. CASE current # NoSession /\ e.sess # current
    <3>1. last = current /\ e.sess \in {NoSession, last} \cup DOMAIN other
      BY <1>2, <1>6, <2>4 DEF SlashInv, PlaceInv
    <3>2. /\ other' = [t \in DOMAIN other |-> IF t = e.sess THEN Apply(other[t], e) ELSE other[t]]
          /\ state' = state /\ last' = last
      BY <1>2, <1>3, <2>4
    <3>3. s = e.sess => s # last /\ s \in DOMAIN other
      BY <2>1, <2>4, <3>1
    <3> QED
      BY <3>2, <3>3 DEF TuiOf
  <2> QED
    BY <2>2, <2>3, <2>4
<1>13. ChannelInv(runs, channel') /\ SoleInv(In(tabs), runs, channel')
  BY <1>1, <1>4, TakeChannel, TakeSole
<1>14. ASSUME NEW s \in In(tabs)  PROVE  TabInv(TuiOf(s)', s, runs, channel')
  <2>1. TabInv(TuiOf(s), s, runs, channel)
    BY <1>4 DEF TabsInv
  <2>2. CASE s = e.sess
    <3>1. TabInv(Apply(TuiOf(s), e), s, runs, channel')
      BY <1>1, <1>4, <2>1, <2>2, TakeOwn
    <3> QED
      BY <1>12, <2>2, <3>1
  <2>3. CASE s # e.sess
    <3>1. TabInv(TuiOf(s), s, runs, channel')
      BY <1>1, <1>4, <2>1, <2>3, TakeOther
    <3> QED
      BY <1>12, <2>3, <3>1
  <2> QED
    BY <2>2, <2>3
<1>15. TabsInv'
  BY <1>2, <1>10, <1>14 DEF TabsInv
<1>16. TokenInv'
  BY <1>2, <1>10 DEF SlashInv, TokenInv
<1>17. CommandInv'
  <2>1. command' = command /\ tick' = "events"
    BY <1>2
  <2>2. ASSUME command.kind = "resume", current \in In(tabs)
        PROVE  Rest(current, runs, channel') /\ ~MayDrain(state') /\ state'.approval = NoRun
    <3>1. Rest(current, runs, channel) /\ ~MayDrain(state) /\ state.approval = NoRun
      BY <2>2 DEF SlashInv, CommandInv
    <3>2. Active(e.run, runs, channel)
      BY <1>5 DEF TakeEffect
    <3>3. e.sess # current /\ current # NoSession
      BY <1>6, <2>2, <3>1, <3>2, TabNumbers DEF SlashInv, Rest
    <3>4. state' = state
      BY <1>3, <3>3
    <3>5. Rest(current, runs, channel')
      BY <1>5, <3>1 DEF TakeEffect, Rest
    <3> QED
      BY <3>1, <3>4, <3>5
  <2> QED
    BY <1>2, <1>10, <2>1, <2>2 DEF SlashInv, CommandInv
<1> QED
  BY <1>2, <1>9, <1>10, <1>11, <1>13, <1>15, <1>16, <1>17 DEF SlashInv

-----------------------------------------------------------------------------
(* The tokens.                                                              *)

LEMMA HoldTokens ==
    ASSUME NEW ro, NEW s, NEW r, RouterOK(ro)
    PROVE  /\ s \in DOMAIN ro.token => HoldToken(ro, s, r).token[s] = r
           /\ \A x \in DOMAIN ro.token : x # s => HoldToken(ro, s, r).token[x] = ro.token[x]
<1>1. CASE s \in DOMAIN ro.token
  <2>1. HoldToken(ro, s, r) = [ro EXCEPT !.token[s] = r]
    BY <1>1 DEF HoldToken
  <2>2. HoldToken(ro, s, r).token = [ro.token EXCEPT ![s] = r]
    BY <2>1 DEF RouterOK
  <2> HIDE DEF HoldToken
  <2> QED
    BY <1>1, <2>2
<1>2. CASE s \notin DOMAIN ro.token
  BY <1>2 DEF HoldToken
<1> QED
  BY <1>1, <1>2

LEMMA OtherTokens ==
    ASSUME NEW ro, NEW s
    PROVE  /\ \A x \in DOMAIN ro.token : x # s => Close(ro, s).token[x] = ro.token[x]
           /\ \A x \in DOMAIN ro.token : x # s => Register(ro, s).token[x] = ro.token[x]
           /\ Register(ro, s).token[s] = NoRun
BY DEF Close, Register, With

\* A fired token: its run is told, and nothing else happens to the runs.
FireEffect(s, rs2) ==
    /\ SameWork(runs, rs2)
    /\ \A q \in DOMAIN runs : runs[q].fired = TRUE => rs2[q].fired = TRUE
    /\ \A q \in DOMAIN runs : s \in Registered /\ router.token[s] = q => rs2[q].fired = TRUE

LEMMA FireFacts ==
    ASSUME SlashInv, NEW s
    PROVE  FireEffect(s, Fire(s))
<1>1. runs \in Seq(RunRecs) /\ 0 \notin DOMAIN runs
  BY LenProperties DEF SlashInv, ChannelInv
<1>2. CASE s \in Registered /\ router.token[s] # NoRun
  <2> DEFINE r == router.token[s]
  <2>1. r \in DOMAIN runs
    BY <1>2 DEF SlashInv, TokenInv
  <2>2. Told(r, runs, Fire(s))
    BY <1>2 DEF Fire, Told
  <2> HIDE DEF r
  <2>3. SameWork(runs, Fire(s)) /\ Fire(s)[r].fired = TRUE /\ \A q \in DOMAIN runs : q # r => Fire(s)[q] = runs[q]
    BY <1>1, <2>1, <2>2, ToldFacts
  <2> QED
    BY <2>3 DEF FireEffect, r
<1>3. CASE ~(s \in Registered /\ router.token[s] # NoRun)
  <2>1. Fire(s) = runs
    BY <1>3 DEF Fire
  <2> QED
    BY <1>1, <1>3, <2>1 DEF FireEffect, SameWork, NoRun
<1> QED
  BY <1>2, <1>3

LEMMA QuietRests ==
    ASSUME ChannelInv(runs, channel), NEW s, Quiet(s)
    PROVE  Rest(s, runs, channel)
BY DEF Quiet, Unfinished, Waiting, Rest, Active, ChannelInv, EventInv

\* A run is started in the current session, which is at rest if it has a tab.
BeginsHere ==
    /\ ChannelInv(runs', channel) /\ SoleInv(In(tabs), runs', channel)
    /\ TokenInv' /\ Registered' = Registered /\ In(tabs)' = In(tabs)
    /\ \A r \in DOMAIN runs' : runs'[r].sess = current \/ (r \in DOMAIN runs /\ runs'[r].sess = runs[r].sess)
    /\ \A u, s : s # current /\ TabInv(u, s, runs, channel) => TabInv(u, s, runs', channel)
    /\ \A u, v :
           /\ TabInv(u, current, runs, channel) /\ Rest(current, runs, channel) /\ v \in TuiRecs
           /\ v.question = u.question /\ v.approval = NoRun /\ ~MayDrain(v)
           => TabInv(v, current, runs', channel)

LEMMA SpawnFacts ==
    ASSUME SlashInv, Spawn(current, router), UNCHANGED tabs,
           current \in In(tabs) => Rest(current, runs, channel)
    PROVE  BeginsHere
<1>1. ChannelInv(runs, channel) /\ SoleInv(In(tabs), runs, channel) /\ current \in Nat /\ RouterOK(router)
  BY TabNumbers DEF SlashInv, DirInv
<1> DEFINE n == Len(runs) + 1
<1>2. Begins(current, runs, runs') /\ router' = HoldToken(router, current, n)
  BY DEF Spawn, Begins
<1>3. BeginEffect(n, current, runs, runs', channel)
  BY <1>1, <1>2, BeginFacts
<1> HIDE DEF n
<1>4. ChannelInv(runs', channel) /\ SoleInv(In(tabs), runs', channel)
  BY <1>1, <1>2, BeginChannel, BeginSole
<1>5. In(tabs)' = In(tabs) /\ Registered' = Registered
  BY <1>1, <1>2, HoldKeeps DEF In, Registered
<1>6. /\ DOMAIN runs' = DOMAIN runs \cup {n} /\ n \notin DOMAIN runs /\ runs'[n].sess = current
      /\ \A q \in DOMAIN runs : runs'[q] = runs[q]
  BY <1>3 DEF BeginEffect
<1>7. \A u, s : s # current /\ TabInv(u, s, runs, channel) => TabInv(u, s, runs', channel)
  BY <1>1, <1>2, BeginOther
<1>8. ASSUME NEW u, NEW v, TabInv(u, current, runs, channel), Rest(current, runs, channel), v \in TuiRecs,
             v.question = u.question, v.approval = NoRun, ~MayDrain(v)
      PROVE  TabInv(v, current, runs', channel)
  BY <1>1, <1>2, <1>8, BeginOwn
<1>9. TokenInv'
  <2>1. /\ current \in Registered => router'.token[current] = n
        /\ \A s \in Registered : s # current => router'.token[s] = router.token[s]
    BY <1>1, <1>2, HoldTokens DEF Registered
  <2>2. \A s \in Registered : router'.token[s] \in {NoRun} \cup DOMAIN runs'
    BY <1>6, <2>1 DEF SlashInv, TokenInv
  <2>3. Registered = In(tabs) /\ current \in In(tabs) \cup {NoSession}
    BY DEF SlashInv, PlaceInv, DirInv
  <2>4. ASSUME NEW r \in DOMAIN runs, runs[r].sess # NoSession, runs[r].phase # "ended"
        PROVE  runs'[r].fired = TRUE \/ (runs'[r].sess \in Registered /\ router'.token[runs'[r].sess] = r)
    <3>1. runs[r].sess # current
      BY <2>3, <2>4 DEF Rest, Active
    <3> QED
      BY <1>6, <2>1, <2>4, <3>1 DEF SlashInv, TokenInv
  <2>5. current # NoSession => current \in Registered /\ router'.token[current] = n
    BY <2>1, <2>3
  <2> QED
    BY <1>5, <1>6, <2>2, <2>4, <2>5 DEF TokenInv
<1> QED
  BY <1>4, <1>5, <1>6, <1>7, <1>8, <1>9 DEF BeginsHere

-----------------------------------------------------------------------------
(* The session that is current is shown.                                    *)

LEMMA ShownFacts ==
    ASSUME SlashInv, Show
    PROVE  /\ UNCHANGED <<current, tabs, attention, command, channel, made>> /\ tick' = "key"
           /\ current \in In(tabs) => last' = current /\ TabInv(Shown, current, runs, channel)
           /\ Shown \in TuiRecs /\ current \in {last', NoSession}
           /\ last' \in 1..made /\ DOMAIN other' \subseteq 1..made
           /\ \A s \in DOMAIN other' : other'[s] \in TuiRecs
           /\ {last} \cup DOMAIN other \subseteq {last'} \cup DOMAIN other'
           /\ current = NoSession => last' = last /\ other' = other
           /\ \A s \in In(tabs) : s # current => TuiOf(s)' = TuiOf(s)
<1>1. UNCHANGED <<current, tabs, attention, command, channel, made>> /\ tick' = "key"
  BY DEF Show
<1>2. SlashTypes /\ TabsInv /\ made \in Nat /\ current \in In(tabs) \cup {NoSession} /\ In(tabs) \subseteq 1..made
  BY DEF SlashInv, DirInv
<1>3. \A s : TuiOf(s) \in TuiRecs
  BY <1>2 DEF SlashTypes, TuiOf, Fresh, TuiRecs, Statuses, NoRun
<1>4. CASE SwapDue
  <2>1. /\ last' = current /\ other' = With([s \in DOMAIN other \ {current} |-> other[s]], last, state)
        /\ Shown = TuiOf(current) /\ current # last /\ current # NoSession
    BY <1>4 DEF Show, SwapDue, Shown
  <2>2. DOMAIN other' = (DOMAIN other \ {current}) \cup {last}
    BY <2>1 DEF With
  <2>3. \A s \in DOMAIN other' : other'[s] = IF s = last THEN state ELSE other[s]
    BY <2>1 DEF With
  <2>4. \A s \in DOMAIN other' : other'[s] \in TuiRecs
    BY <1>2, <2>2, <2>3 DEF SlashTypes
  <2>5. \A s : s # current => TuiOf(s)' = TuiOf(s)
    BY <2>1, <2>2, <2>3 DEF TuiOf
  <2>6. TabInv(Shown, current, runs, channel)
    BY <1>2, <2>1 DEF TabsInv
  <2> QED
    BY <1>1, <1>2, <1>3, <2>1, <2>2, <2>4, <2>5, <2>6 DEF SlashTypes
<1>5. CASE ~SwapDue
  <2>1. last' = last /\ other' = other /\ Shown = state /\ (current = last \/ current = NoSession)
    BY <1>5 DEF Show, SwapDue, Shown
  <2>2. \A s \in In(tabs) : s # current => TuiOf(s)' = TuiOf(s)
    <3> SUFFICES ASSUME NEW s \in In(tabs), s # current  PROVE  TuiOf(s)' = TuiOf(s)
      OBVIOUS
    <3>1. s # last
      BY <2>1 DEF SlashInv, PlaceInv
    <3> QED
      BY <2>1, <3>1 DEF TuiOf
  <2>3. current \in In(tabs) => current = last /\ TuiOf(current) = state
    <3>1. current \in In(tabs) => current # NoSession
      BY TabNumbers DEF SlashInv
    <3> QED
      BY <2>1, <3>1 DEF TuiOf
  <2>4. current \in In(tabs) => TabInv(Shown, current, runs, channel)
    BY <1>2, <2>1, <2>3 DEF TabsInv
  <2> QED
    BY <1>1, <1>2, <2>1, <2>2, <2>3, <2>4 DEF SlashTypes
<1> QED
  BY <1>4, <1>5

LEMMA ShowKeeps ==
    ASSUME SlashInv, Show, DirInv'
    PROVE  SlashInv'
<1>1. /\ UNCHANGED <<current, tabs, attention, command, channel, made>> /\ tick' = "key"
      /\ current \in In(tabs) => last' = current /\ TabInv(Shown, current, runs, channel)
      /\ Shown \in TuiRecs /\ current \in {last', NoSession}
      /\ last' \in 1..made /\ DOMAIN other' \subseteq 1..made
      /\ \A s \in DOMAIN other' : other'[s] \in TuiRecs
      /\ {last} \cup DOMAIN other \subseteq {last'} \cup DOMAIN other'
      /\ current = NoSession => last' = last /\ other' = other
      /\ \A s \in In(tabs) : s # current => TuiOf(s)' = TuiOf(s)
  BY ShownFacts
<1> DEFINE w == Shown
           v == [w EXCEPT !.queue = @ - 1, !.status = "Running"]
<1>2. /\ MayDrain(w) => state' = v /\ Spawn(current, router)
      /\ ~MayDrain(w) => state' = w /\ UNCHANGED <<runs, router>>
  BY DEF Show
<1>3. MayDrain(w) => v \in TuiRecs /\ v.question = w.question /\ v.approval = w.approval /\ ~MayDrain(v)
  <2> HIDE DEF w
  <2>1. w \in TuiRecs
    BY <1>1 DEF w
  <2>2. MayDrain(w) => w.queue - 1 \in Nat
    BY <2>1 DEF TuiRecs, MayDrain
  <2>3. MayDrain(w) => v \in TuiRecs /\ v.question = w.question /\ v.approval = w.approval /\ v.status = "Running"
    BY <2>1, <2>2 DEF TuiRecs, Statuses
  <2> QED
    BY <2>3 DEF MayDrain, Busy
<1> HIDE DEF v, w
<1>4. current \in In(tabs) => TabInv(w, current, runs, channel) /\ w \in TuiRecs
  BY <1>1 DEF w
<1>5. current \in In(tabs) /\ MayDrain(w) => Rest(current, runs, channel) /\ w.approval = NoRun
  BY <1>4 DEF TabInv, DrainInv, ApprovalInv, MayDrain, Busy
<1>6. MayDrain(w) => BeginsHere
  BY <1>1, <1>2, <1>5, SpawnFacts
<1>7. state' \in TuiRecs /\ ~MayDrain(state')
  BY <1>1, <1>2, <1>3 DEF w
<1>8. SlashTypes'
  BY <1>1, <1>7 DEF SlashTypes
<1>9. In(tabs)' = In(tabs) /\ Registered' = Registered
  BY <1>1, <1>2, <1>6 DEF In, Registered, BeginsHere
<1>10. /\ ChannelInv(runs', channel) /\ SoleInv(In(tabs), runs', channel) /\ TokenInv'
       /\ \A r \in DOMAIN runs' : runs'[r].sess = current \/ (r \in DOMAIN runs /\ runs'[r].sess = runs[r].sess)
       /\ \A s \in In(tabs) : s # current => TabInv(TuiOf(s), s, runs', channel)
  <2>1. CASE MayDrain(w)
    BY <1>6, <2>1 DEF BeginsHere, SlashInv, TabsInv
  <2>2. CASE ~MayDrain(w)
    BY <1>2, <1>9, <2>2 DEF SlashInv, TabsInv, TokenInv
  <2> QED
    BY <2>1, <2>2
<1>11. current \in In(tabs) => TabInv(state', current, runs', channel)
  <2>1. CASE MayDrain(w)
    BY <1>2, <1>3, <1>4, <1>5, <1>6, <2>1 DEF BeginsHere
  <2>2. CASE ~MayDrain(w)
    BY <1>2, <1>4, <2>2
  <2> QED
    BY <2>1, <2>2
<1>12. TabsInv'
  <2>1. \A s \in In(tabs) : TabInv(TuiOf(s)', s, runs', channel)
    <3> SUFFICES ASSUME NEW s \in In(tabs)  PROVE  TabInv(TuiOf(s)', s, runs', channel)
      OBVIOUS
    <3>1. CASE s # current
      BY <1>1, <1>10, <3>1
    <3>2. CASE s = current
      <4>1. TuiOf(s)' = state'
        BY <1>1, <3>2 DEF TuiOf
      <4> QED
        BY <1>11, <3>2, <4>1
    <3> QED
      BY <3>1, <3>2
  <2> QED
    BY <1>1, <1>9, <2>1 DEF TabsInv
<1>13. PlaceInv'
  <2>1. current = NoSession =>
            \A s \in In(tabs) : s # last' /\ s \notin DOMAIN other' /\ \A r \in DOMAIN runs' : runs'[r].sess # s
    BY <1>1, <1>10, TabNumbers DEF SlashInv, PlaceInv
  <2>2. \A r \in DOMAIN runs' : runs'[r].sess \in {NoSession, last'} \cup DOMAIN other'
    BY <1>1, <1>10 DEF SlashInv, PlaceInv
  <2> QED
    BY <1>1, <1>9, <2>1, <2>2 DEF SlashInv, PlaceInv
<1>14. CommandInv'
  <2>1. command.kind = "none"
    BY DEF SlashInv, CommandInv, Show
  <2> QED
    BY <1>1, <1>7, <2>1 DEF CommandInv
<1> QED
  BY <1>1, <1>8, <1>9, <1>10, <1>12, <1>13, <1>14 DEF SlashInv

-----------------------------------------------------------------------------
(* The operator's keys.                                                     *)

\* While keys are read, the current tab is the one shown.
LEMMA CurrentTab ==
    ASSUME SlashInv, tick # "show", current \in In(tabs)
    PROVE  current = last /\ TabInv(state, current, runs, channel)
<1>1. current # NoSession /\ current \in {last, NoSession}
  BY TabNumbers DEF SlashInv, PlaceInv
<1>2. TuiOf(current) = state
  BY <1>1 DEF TuiOf
<1> QED
  BY <1>1, <1>2 DEF SlashInv, TabsInv

\* What a key has to keep: the state shown, and the runs.
LEMMA KeyKeeps ==
    ASSUME SlashInv, DirInv', tick = "key", tick' = "events",
           UNCHANGED <<last, other, current, tabs, made, channel>>, state' \in TuiRecs,
           ChannelInv(runs', channel), SoleInv(In(tabs), runs', channel),
           \A s \in In(tabs) : s # current => TabInv(TuiOf(s), s, runs', channel),
           current \in In(tabs) => TabInv(state', current, runs', channel),
           \A r \in DOMAIN runs' : runs'[r].sess = current \/ (r \in DOMAIN runs /\ runs'[r].sess = runs[r].sess),
           Registered' = Registered, TokenInv', CommandInv'
    PROVE  SlashInv'
<1>1. SlashTypes'
  BY DEF SlashInv, SlashTypes
<1>2. In(tabs)' = In(tabs)
  BY DEF In
<1>3. PlaceInv'
  <2>1. current \in {last, NoSession} /\ PlaceInv
    BY DEF SlashInv, PlaceInv
  <2>2. current = NoSession => \A s \in In(tabs) : \A r \in DOMAIN runs' : runs'[r].sess # s
    BY <2>1, TabNumbers DEF SlashInv, PlaceInv
  <2> QED
    BY <1>2, <2>1, <2>2 DEF PlaceInv
<1>4. ASSUME NEW s \in In(tabs)  PROVE  TabInv(TuiOf(s)', s, runs', channel)
  <2>1. CASE s = current
    <3>1. s = last
      BY <2>1, CurrentTab
    <3> QED
      BY <2>1, <3>1, KeyStates
  <2>2. CASE s # current
    <3>1. s # last
      BY <2>2, TabNumbers DEF SlashInv, PlaceInv
    <3> QED
      BY <2>2, <3>1, KeyStates
  <2> QED
    BY <2>1, <2>2
<1>5. TabsInv'
  BY <1>2, <1>4 DEF TabsInv
<1> QED
  BY <1>1, <1>2, <1>3, <1>5 DEF SlashInv

\* No command is queued while a key is read.
LEMMA NoCommandYet ==
    ASSUME SlashInv, tick = "key"
    PROVE  /\ command.kind = "none" /\ ~MayDrain(state)
           /\ command' = command /\ tick' = "events" => CommandInv'
<1>1. command.kind = "none" /\ ~MayDrain(state)
  BY DEF SlashInv, CommandInv
<1> QED
  BY <1>1 DEF CommandInv

\* A key that starts a run in the current session, leaving the state v.
LEMMA KeyBegins ==
    ASSUME SlashInv, DirInv', tick = "key", tick' = "events", BySlash, MayStart, Spawn(current, router),
           UNCHANGED <<last, other, current, tabs, made, channel, command>>,
           state' \in TuiRecs, state'.question = state.question,
           current \in In(tabs) => state'.approval = NoRun /\ ~MayDrain(state')
    PROVE  SlashInv'
<1>1. Rest(current, runs, channel)
  BY QuietRests DEF MayStart, BySlash, SlashInv
<1>2. BeginsHere
  BY <1>1, SpawnFacts
<1>3. CommandInv'
  BY NoCommandYet
<1>4. \A s \in In(tabs) : s # current => TabInv(TuiOf(s), s, runs', channel)
  BY <1>2 DEF BeginsHere, SlashInv, TabsInv
<1>5. current \in In(tabs) => TabInv(state', current, runs', channel)
  BY <1>1, <1>2, CurrentTab DEF BeginsHere
<1> QED
  BY <1>2, <1>3, <1>4, <1>5, KeyKeeps DEF BeginsHere

\* A key after which the runs do what they did, the state being v.
LEMMA KeyWorks ==
    ASSUME SlashInv, DirInv', tick = "key", tick' = "events", SameWork(runs, runs'),
           \A q \in DOMAIN runs : runs[q].fired = TRUE => runs'[q].fired = TRUE,
           UNCHANGED <<last, other, current, tabs, made, channel, router>>, CommandInv',
           state' \in TuiRecs,
           current \in In(tabs) =>
               /\ state'.approval = state.approval /\ state'.task = state.task
               /\ state'.question = state.question
               /\ Busy(state') => Busy(state)
               /\ MayDrain(state') => Rest(current, runs, channel)
               /\ state'.approval # NoRun => state'.status = state.status
    PROVE  SlashInv'
<1>1. /\ ChannelInv(runs', channel) /\ SoleInv(In(tabs), runs', channel)
      /\ \A u, s : TabInv(u, s, runs, channel) => TabInv(u, s, runs', channel)
  BY SameWorkKeeps DEF SlashInv
<1>2. current \in In(tabs) => TabInv(state', current, runs', channel)
  BY <1>1, CurrentTab, StateChange
<1>3. TokenInv'
  BY DEF SlashInv, TokenInv, SameWork, Registered
<1>4. \A s \in In(tabs) : TabInv(TuiOf(s), s, runs', channel)
  BY <1>1 DEF SlashInv, TabsInv
<1>5. Registered' = Registered /\ \A r \in DOMAIN runs' : r \in DOMAIN runs /\ runs'[r].sess = runs[r].sess
  BY DEF Registered, SameWork
<1> QED
  BY <1>1, <1>2, <1>3, <1>4, <1>5, KeyKeeps

LEMMA Same ==
    ASSUME SlashInv, runs' = runs
    PROVE  SameWork(runs, runs') /\ \A q \in DOMAIN runs : runs[q].fired = TRUE => runs'[q].fired = TRUE
BY DEF SameWork, SlashInv, ChannelInv

LEMMA SubmitKeeps ==
    ASSUME SlashInv, BySlash, Submit, DirInv'
    PROVE  SlashInv'
<1>1. /\ tick = "key" /\ tick' = "events" /\ NoPanel
      /\ UNCHANGED <<last, other, tabs, channel, made, current, command>>
  BY DEF Submit, Key
<1>2. state \in TuiRecs
  BY DEF SlashInv, SlashTypes
<1>3. CASE Busy(state)
  <2>1. state' = [state EXCEPT !.queue = @ + 1] /\ UNCHANGED <<runs, router>>
    BY <1>3 DEF Submit
  <2>2. /\ state' \in TuiRecs /\ state'.approval = state.approval /\ state'.task = state.task
        /\ state'.question = state.question /\ state'.status = state.status
    BY <1>2, <2>1 DEF TuiRecs
  <2>3. ~MayDrain(state')
    BY <1>3, <2>2 DEF MayDrain, Busy
  <2> QED
    BY <1>1, <1>3, <2>1, <2>2, <2>3, Same, NoCommandYet, KeyWorks
<1>4. CASE ~Busy(state)
  <2>1. MayStart /\ Spawn(current, router) /\ state' = state
    BY <1>4 DEF Submit
  <2>2. ~MayDrain(state) /\ state.approval = NoRun
    BY <1>1, NoCommandYet DEF NoPanel
  <2> QED
    BY <1>1, <1>2, <2>1, <2>2, KeyBegins
<1> QED
  BY <1>3, <1>4

LEMMA InterruptKeeps ==
    ASSUME SlashInv, Interrupt, DirInv'
    PROVE  SlashInv'
<1>1. /\ tick = "key" /\ tick' = "events" /\ Busy(state) /\ runs' = Fire(current)
      /\ state' = IF current \in Registered THEN [state EXCEPT !.queue = 0] ELSE state
      /\ UNCHANGED <<last, other, tabs, channel, made, current, command, router>>
  BY DEF Interrupt, Key
<1>2. SameWork(runs, runs') /\ \A q \in DOMAIN runs : runs[q].fired = TRUE => runs'[q].fired = TRUE
  BY <1>1, FireFacts DEF FireEffect
<1>3. /\ state' \in TuiRecs /\ state'.approval = state.approval /\ state'.task = state.task
      /\ state'.question = state.question /\ state'.status = state.status
  BY <1>1 DEF SlashInv, SlashTypes, TuiRecs
<1>4. ~MayDrain(state')
  BY <1>1, <1>3 DEF MayDrain, Busy
<1> QED
  BY <1>1, <1>2, <1>3, <1>4, NoCommandYet, KeyWorks

LEMMA ApproveKeeps ==
    ASSUME SlashInv, BySlash, Approve, DirInv'
    PROVE  SlashInv'
<1>1. /\ tick = "key" /\ tick' = "events" /\ state.approval # NoRun /\ state' = Decided(state)
      /\ UNCHANGED <<last, other, tabs, channel, made, current, command>>
  BY DEF Approve, Key
<1>2. /\ state' \in TuiRecs /\ state'.approval = NoRun /\ state'.question = state.question
      /\ state.status = "WaitingApproval" => state'.status = "Running"
  BY <1>1 DEF SlashInv, SlashTypes, TuiRecs, Decided, NoRun, Statuses
<1>3. current \in In(tabs) => state.status = "WaitingApproval" /\ state.task = TRUE
  BY <1>1, CurrentTab DEF TabInv, ApprovalInv
<1>4. current \in In(tabs) => ~MayDrain(state')
  BY <1>2, <1>3 DEF MayDrain, Busy
<1>5. CASE state.task
  <2>1. MayStart /\ Spawn(current, router)
    BY <1>5 DEF Approve
  <2> QED
    BY <1>1, <1>2, <1>4, <2>1, KeyBegins
<1>6. CASE ~state.task
  <2>1. UNCHANGED <<runs, router>> /\ current \notin In(tabs)
    BY <1>3, <1>6 DEF Approve
  <2> QED
    BY <1>1, <1>2, <2>1, Same, NoCommandYet, KeyWorks
<1> QED
  BY <1>5, <1>6

LEMMA AnswerKeeps ==
    ASSUME SlashInv, Answer, DirInv'
    PROVE  SlashInv'
<1> DEFINE q == state.question
<1>1. /\ tick = "key" /\ tick' = "events" /\ state' = [state EXCEPT !.question = NoRun]
      /\ UNCHANGED <<last, other, tabs, channel, made, current, command, router>>
      /\ runs' = IF runs[q].phase = "asking" THEN [runs EXCEPT ![q].phase = "running"] ELSE runs
  BY DEF Answer, Key
<1>2. /\ state' \in TuiRecs /\ state'.approval = state.approval /\ state'.task = state.task
      /\ state'.question = NoRun /\ state'.status = state.status /\ state'.queue = state.queue
  BY <1>1 DEF SlashInv, SlashTypes, TuiRecs, NoRun
<1> HIDE DEF q
<1>3. ~MayDrain(state') /\ (Busy(state') <=> Busy(state))
  BY <1>1, <1>2, NoCommandYet DEF MayDrain, Busy
<1>4. ChannelInv(runs, channel) /\ SoleInv(In(tabs), runs, channel) /\ TabsInv /\ TokenInv
  BY DEF SlashInv
<1>5. /\ ChannelInv(runs', channel) /\ SoleInv(In(tabs), runs', channel)
      /\ \A u, s : TabInv(u, s, runs, channel) => TabInv(u, s, runs', channel)
      /\ DOMAIN runs' = DOMAIN runs /\ \A r \in DOMAIN runs : runs'[r].sess = runs[r].sess
      /\ TokenInv' /\ (q \in DOMAIN runs => runs'[q].phase # "asking")
  <2>1. CASE q \in DOMAIN runs /\ runs[q].phase = "asking"
    <3>1. Reaches(q, "running", runs, runs')
      BY <1>1, <2>1 DEF Reaches
    <3>2. /\ ChannelInv(runs', channel) /\ SoleInv(In(tabs), runs', channel)
          /\ \A u, s : TabInv(u, s, runs, channel) => TabInv(u, s, runs', channel)
      BY <1>4, <2>1, <3>1, WakeKeeps
    <3>3. /\ DOMAIN runs' = DOMAIN runs
          /\ \A r \in DOMAIN runs : runs'[r].sess = runs[r].sess /\ runs'[r].fired = runs[r].fired
          /\ \A r \in DOMAIN runs : r # q => runs'[r].phase = runs[r].phase
          /\ runs'[q].phase = "running"
      BY <1>4, <2>1, <3>1, SetPhase DEF ChannelInv, Phases
    <3>4. TokenInv'
      BY <1>1, <1>4, <2>1, <3>3 DEF TokenInv, Registered
    <3> QED
      BY <3>2, <3>3, <3>4
  <2>2. CASE ~(q \in DOMAIN runs /\ runs[q].phase = "asking")
    <3>1. runs' = runs
      <4>1. runs = [i \in DOMAIN runs |-> runs[i]]
        BY <1>4, LenProperties DEF ChannelInv
      <4> QED
        BY <1>1, <2>2, <4>1
    <3>2. TokenInv'
      BY <1>1, <1>4, <3>1 DEF TokenInv, Registered
    <3> QED
      BY <1>4, <2>2, <3>1, <3>2
  <2> QED
    BY <2>1, <2>2
<1>6. current \in In(tabs) => TabInv(state', current, runs', channel)
  <2> SUFFICES ASSUME current \in In(tabs)  PROVE  TabInv(state', current, runs', channel)
    OBVIOUS
  <2>1. TabInv(state, current, runs', channel)
    BY <1>1, <1>5, CurrentTab
  <2> QED
    BY <1>2, <1>3, <1>5, <2>1, StateChange DEF q
<1>7. \A s \in In(tabs) : TabInv(TuiOf(s), s, runs', channel)
  BY <1>4, <1>5 DEF TabsInv
<1>8. Registered' = Registered /\ CommandInv'
  BY <1>1, NoCommandYet DEF Registered
<1> QED
  BY <1>1, <1>2, <1>5, <1>6, <1>7, <1>8, KeyKeeps

LEMMA SlashKeeps ==
    ASSUME SlashInv, BySlash, NEW kind \in Commands, NEW target, Slash(kind, target), DirInv'
    PROVE  SlashInv'
<1>1. /\ tick = "key" /\ tick' = "events" /\ NoPanel /\ kind \in Keys
      /\ kind = "resume" => MayStart
      /\ command'.kind = kind
      /\ state' = IF kind = "clear" THEN Cleared(state) ELSE state
      /\ UNCHANGED <<last, other, tabs, channel, made, current, runs, router>>
  BY DEF Slash, Key
<1>2. /\ state' \in TuiRecs /\ state'.approval = state.approval /\ state'.task = state.task
      /\ state'.question = state.question
      /\ ~MayDrain(state') /\ (Busy(state') => Busy(state)) /\ state'.approval = NoRun
  <2>1. CASE kind = "clear"
    <3>1. state' = [Fresh EXCEPT !.task = state.task]
      BY <1>1, <2>1 DEF Cleared
    <3> QED
      BY <1>1, <3>1 DEF SlashInv, SlashTypes, TuiRecs, NoPanel, Fresh, MayDrain, Busy, Statuses, NoRun
  <2>2. CASE kind # "clear"
    BY <1>1, <2>2, NoCommandYet DEF SlashInv, SlashTypes, NoPanel
  <2> QED
    BY <2>1, <2>2
<1>3. kind = "resume" => Rest(current, runs, channel)
  BY <1>1, QuietRests DEF MayStart, BySlash, SlashInv
<1>4. CommandInv'
  BY <1>1, <1>2, <1>3 DEF CommandInv
<1> QED
  BY <1>1, <1>2, <1>4, Same, KeyWorks

LEMMA KeysKeep ==
    ASSUME SlashInv, BySlash, KeyStep, DirInv'
    PROVE  SlashInv'
<1>1. CASE NoKey
  <2>1. /\ tick = "key" /\ tick' = "events"
        /\ UNCHANGED <<state, last, other, current, tabs, made, channel, command, router, runs>>
    BY <1>1 DEF NoKey
  <2>2. state \in TuiRecs /\ ~MayDrain(state)
    BY <2>1, NoCommandYet DEF SlashInv, SlashTypes
  <2> QED
    BY <2>1, <2>2, Same, NoCommandYet, KeyWorks
<1>2. CASE Deny \/ Cycle \/ \E s \in SessionIds : Pick(s)
  BY <1>2 DEF Deny, Cycle, Pick, Key, BySlash, SlashKeys
<1> QED
  BY <1>1, <1>2, SubmitKeeps, InterruptKeeps, ApproveKeeps, AnswerKeeps, SlashKeeps DEF KeyStep

-----------------------------------------------------------------------------
(* The session commands.                                                    *)

\* What a command has to keep that starts no run.
LEMMA CarryKeeps ==
    ASSUME SlashInv, DirInv', NEW kind, Carry(kind), SameWork(runs, runs'), made' \in {made, made + 1},
           In(tabs)' \subseteq In(tabs) \cup {NewId}, In(tabs)' = Registered',
           current' = NoSession => current = NoSession \/ In(tabs)' = {}, TokenInv'
    PROVE  SlashInv'
<1>1. /\ tick = "events" /\ tick' = "show" /\ command' = NoCommand
      /\ UNCHANGED <<state, last, other, channel>>
  BY DEF Carry
<1>2. /\ made \in Nat /\ NewId = made + 1 /\ NewId \notin 1..made /\ 1..made \subseteq 1..made'
      /\ NoSession \notin 1..made /\ NewId # NoSession
  BY TabNumbers DEF SlashInv
<1>3. last \in 1..made /\ DOMAIN other \subseteq 1..made
  BY DEF SlashInv, SlashTypes
<1>4. SlashTypes'
  BY <1>1, <1>2, <1>3 DEF SlashInv, SlashTypes
<1>5. /\ \A r \in DOMAIN runs : runs[r].sess # NewId
      /\ NewId # last /\ NewId \notin DOMAIN other
  BY <1>2, <1>3 DEF SlashInv, PlaceInv
<1>6. DOMAIN runs' = DOMAIN runs /\ \A r \in DOMAIN runs : runs'[r].sess = runs[r].sess
  BY DEF SameWork
<1>7. PlaceInv'
  <2>1. \A r \in DOMAIN runs' : runs'[r].sess \in {NoSession, last'} \cup DOMAIN other'
    BY <1>1, <1>6 DEF SlashInv, PlaceInv
  <2>2. current' = NoSession =>
            \A s \in In(tabs)' : s # last' /\ s \notin DOMAIN other' /\ \A r \in DOMAIN runs' : runs'[r].sess # s
    BY <1>1, <1>5, <1>6 DEF SlashInv, PlaceInv
  <2> QED
    BY <1>1, <2>1, <2>2 DEF PlaceInv
<1>8. /\ ChannelInv(runs', channel) /\ SoleInv(In(tabs), runs', channel)
      /\ \A u, s : TabInv(u, s, runs, channel) => TabInv(u, s, runs', channel)
  BY SameWorkKeeps DEF SlashInv
<1>9. SoleInv(In(tabs)', runs', channel)
  BY <1>5, <1>6, <1>8 DEF SoleInv
<1>10. ASSUME NEW s \in In(tabs)'  PROVE  TabInv(TuiOf(s)', s, runs', channel)
  <2>1. TuiOf(s)' = TuiOf(s)
    BY <1>1, SameStates
  <2>2. CASE s \in In(tabs)
    BY <1>8, <2>1, <2>2 DEF SlashInv, TabsInv
  <2>3. CASE s = NewId
    <3>1. TuiOf(s) = Fresh
      BY <1>5, <2>3 DEF TuiOf
    <3>2. TabInv(Fresh, s, runs', channel)
      BY <1>5, <1>6, <1>8, <2>3, FreshTab
    <3> QED
      BY <2>1, <3>1, <3>2
  <2> QED
    BY <2>2, <2>3
<1>11. TabsInv'
  BY <1>1, <1>10 DEF TabsInv
<1>12. CommandInv'
  BY <1>1 DEF CommandInv, NoCommand
<1> QED
  BY <1>1, <1>4, <1>7, <1>8, <1>9, <1>11, <1>12 DEF SlashInv

\* The tokens after a handle was dropped, its run told, and another one added.
LEMMA CommandTokens ==
    ASSUME SlashInv, SameWork(runs, runs'), \A q \in DOMAIN runs : runs[q].fired = TRUE => runs'[q].fired = TRUE,
           \A s \in Registered' : (s \in Registered /\ router'.token[s] = router.token[s]) \/ router'.token[s] = NoRun,
           \A s \in Registered :
               \/ s \in Registered' /\ router'.token[s] = router.token[s]
               \/ \A q \in DOMAIN runs : router.token[s] = q => runs'[q].fired = TRUE
    PROVE  TokenInv'
<1>1. /\ DOMAIN runs' = DOMAIN runs
      /\ \A q \in DOMAIN runs : runs'[q].sess = runs[q].sess /\ runs'[q].phase = runs[q].phase
  BY DEF SameWork
<1>2. TokenInv
  BY DEF SlashInv
<1>3. \A s \in Registered' : router'.token[s] \in {NoRun} \cup DOMAIN runs'
  BY <1>1, <1>2 DEF TokenInv
<1>4. ASSUME NEW r \in DOMAIN runs', runs'[r].sess # NoSession, runs'[r].phase # "ended"
      PROVE  runs'[r].fired = TRUE \/ (runs'[r].sess \in Registered' /\ router'.token[runs'[r].sess] = r)
  <2>1. runs[r].fired = TRUE \/ (runs[r].sess \in Registered /\ router.token[runs[r].sess] = r)
    BY <1>1, <1>2, <1>4 DEF TokenInv
  <2> QED
    BY <1>1, <2>1
<1> QED
  BY <1>3, <1>4 DEF TokenInv

LEMMA CloseCommandKeeps ==
    ASSUME SlashInv, SessionClose, DirInv'
    PROVE  SlashInv'
<1> DEFINE t == command.target
<1>1. Carry("close") /\ made' = made
  BY DEF SessionClose
<1>2. CASE t \in Registered
  <2>1. /\ runs' = Fire(t) /\ router' = Close(router, t) /\ tabs' = Without(tabs, t)
        /\ current' = IF current = t THEN router'.foreground ELSE current
    BY <1>2 DEF SessionClose
  <2> HIDE DEF t
  <2>2. RouterOK(router') /\ Registered' = Registered \ {t}
    BY <2>1, CloseKeeps DEF SlashInv, DirInv, Registered
  <2>3. In(tabs)' = In(tabs) \ {t}
    <3>1. In(Without(tabs, t)) = In(tabs) \ {t}
      BY WithoutFacts DEF SlashInv, DirInv
    <3> QED
      BY <2>1, <3>1 DEF In
  <2>4. In(tabs)' = Registered'
    BY <2>2, <2>3 DEF SlashInv, PlaceInv
  <2>5. FireEffect(t, runs')
    BY <2>1, FireFacts
  <2>6. \A s \in Registered : s # t => router'.token[s] = router.token[s]
    BY <2>1, OtherTokens DEF Registered
  <2>7. TokenInv'
    BY <2>2, <2>5, <2>6, CommandTokens DEF FireEffect
  <2>8. current' = NoSession => current = NoSession \/ In(tabs)' = {}
    <3>1. NoSession \notin Registered'
      BY <2>3, <2>4, TabNumbers DEF SlashInv
    <3> QED
      BY <2>1, <2>2, <2>4, <3>1 DEF RouterOK, Registered
  <2>9. SameWork(runs, runs') /\ In(tabs)' \subseteq In(tabs) \cup {NewId} /\ made' \in {made, made + 1}
    BY <1>1, <2>3, <2>5 DEF FireEffect
  <2> QED
    BY <1>1, <2>4, <2>7, <2>8, <2>9, CarryKeeps
<1>3. CASE t \notin Registered
  <2>1. UNCHANGED <<runs, router, tabs, current>>
    BY <1>3 DEF SessionClose
  <2>2. In(tabs)' = In(tabs) /\ Registered' = Registered
    BY <2>1 DEF In, Registered
  <2>3. TokenInv'
    BY <2>1, <2>2 DEF SlashInv, TokenInv
  <2>4. In(tabs)' = Registered'
    BY <2>2 DEF SlashInv, PlaceInv
  <2> QED
    BY <1>1, <2>1, <2>2, <2>3, <2>4, Same, CarryKeeps
<1> QED
  BY <1>2, <1>3

LEMMA ClearCommandKeeps ==
    ASSUME SlashInv, ClearAndRestart, DirInv'
    PROVE  SlashInv'
<1> DEFINE q == Without(tabs, current)
           ro == Close(router, current)
<1>1. /\ Carry("clear") /\ NewTab(q) /\ runs' = Fire(current) /\ router' = Register(ro, NewId)
      /\ current' = NewId
  BY DEF ClearAndRestart
<1>2. q \in Seq(Nat) /\ Distinct(q) /\ In(q) = In(tabs) \ {current} /\ In(q) \subseteq 1..made
  BY WithoutFacts DEF SlashInv, DirInv
<1>3. RouterOK(ro) /\ DOMAIN ro.token = Registered \ {current}
  BY CloseKeeps DEF SlashInv, DirInv, Registered
<1>4. \A s \in Registered : s # current => ro.token[s] = router.token[s]
  BY OtherTokens DEF Registered
<1> HIDE DEF q, ro
<1>5. NewId \in Nat /\ NewId # NoSession /\ NewId \notin Registered
  BY TabNumbers DEF SlashInv, PlaceInv
<1>6. In(tabs') = In(q) \cup {NewId} /\ made' = made + 1
  BY <1>1, <1>2, NewTabFacts DEF SlashInv
<1>7. Registered' = (Registered \ {current}) \cup {NewId}
  BY <1>1, <1>3, <1>5, RegisterKeeps DEF Registered
<1>8. In(tabs)' = (In(tabs) \ {current}) \cup {NewId}
  BY <1>2, <1>6 DEF In
<1>9. In(tabs)' = Registered'
  BY <1>7, <1>8 DEF SlashInv, PlaceInv
<1>10. FireEffect(current, runs')
  BY <1>1, FireFacts
<1>11. /\ \A s \in DOMAIN ro.token : s # NewId => router'.token[s] = ro.token[s]
       /\ router'.token[NewId] = NoRun
  BY <1>1, OtherTokens
<1>12. TokenInv'
  <2>1. \A s \in Registered' : (s \in Registered /\ router'.token[s] = router.token[s]) \/ router'.token[s] = NoRun
    BY <1>3, <1>4, <1>5, <1>7, <1>11
  <2>2. \A s \in Registered : s # current => s \in Registered' /\ router'.token[s] = router.token[s]
    BY <1>3, <1>4, <1>5, <1>7, <1>11
  <2>3. current \in Registered => \A r \in DOMAIN runs : router.token[current] = r => runs'[r].fired = TRUE
    BY <1>10 DEF FireEffect
  <2>4. SameWork(runs, runs') /\ \A r \in DOMAIN runs : runs[r].fired = TRUE => runs'[r].fired = TRUE
    BY <1>10 DEF FireEffect
  <2> QED
    BY <2>1, <2>2, <2>3, <2>4, CommandTokens
<1> QED
  BY <1>1, <1>5, <1>6, <1>8, <1>9, <1>10, <1>12, CarryKeeps DEF FireEffect

LEMMA ResumeCommandKeeps ==
    ASSUME SlashInv, SessionResume, DirInv'
    PROVE  SlashInv'
<1>1. /\ tick = "events" /\ command.kind = "resume" /\ tick' = "show" /\ command' = NoCommand
      /\ Spawn(current, router) /\ UNCHANGED <<state, last, other, channel, current, tabs, made>>
  BY DEF SessionResume, Carry
<1>2. current \in In(tabs) => Rest(current, runs, channel) /\ ~MayDrain(state) /\ state.approval = NoRun
  BY <1>1 DEF SlashInv, CommandInv
<1>3. BeginsHere
  BY <1>1, <1>2, SpawnFacts
<1>4. SlashTypes /\ SlashTypes' /\ state \in TuiRecs
  BY <1>1 DEF SlashInv, SlashTypes
<1>5. In(tabs)' = In(tabs) /\ Registered' = Registered
  BY <1>3 DEF BeginsHere
<1>6. ASSUME NEW s \in In(tabs)  PROVE  TabInv(TuiOf(s)', s, runs', channel)
  <2>1. TuiOf(s)' = TuiOf(s)
    BY <1>1, SameStates
  <2>2. CASE s = current
    <3>1. current = last /\ TabInv(state, current, runs, channel)
      BY <1>1, <2>2, CurrentTab
    <3>2. TabInv(state, current, runs', channel)
      BY <1>2, <1>3, <1>4, <2>2, <3>1 DEF BeginsHere
    <3>3. TuiOf(s) = state
      BY <2>2, <3>1 DEF TuiOf
    <3> QED
      BY <2>1, <2>2, <3>2, <3>3
  <2>3. CASE s # current
    BY <1>3, <2>1, <2>3 DEF BeginsHere, SlashInv, TabsInv
  <2> QED
    BY <2>2, <2>3
<1>7. TabsInv'
  BY <1>1, <1>5, <1>6 DEF TabsInv
<1>8. PlaceInv'
  <2>1. current \in {last, NoSession}
    BY <1>1 DEF SlashInv, PlaceInv
  <2>2. /\ \A r \in DOMAIN runs' : runs'[r].sess = current \/ (r \in DOMAIN runs /\ runs'[r].sess = runs[r].sess)
    BY <1>3 DEF BeginsHere
  <2>3. current = NoSession => \A s \in In(tabs) : \A r \in DOMAIN runs' : runs'[r].sess # s
    BY <2>2, TabNumbers DEF SlashInv, PlaceInv
  <2> QED
    BY <1>1, <1>5, <2>1, <2>2, <2>3 DEF SlashInv, PlaceInv
<1>9. CommandInv'
  BY <1>1 DEF CommandInv, NoCommand
<1> QED
  BY <1>1, <1>3, <1>4, <1>5, <1>7, <1>8, <1>9 DEF SlashInv, BeginsHere

LEMMA CommandsKeep ==
    ASSUME SlashInv, BySlash, CommandStep, DirInv'
    PROVE  SlashInv'
<1>1. CASE NothingQueued
  <2>1. Carry("none") /\ UNCHANGED <<current, tabs, router, runs, made>>
    BY <1>1 DEF NothingQueued
  <2>2. In(tabs)' = In(tabs) /\ Registered' = Registered
    BY <2>1 DEF In, Registered
  <2>3. TokenInv' /\ In(tabs)' = Registered'
    BY <2>1, <2>2 DEF SlashInv, TokenInv, PlaceInv
  <2> QED
    BY <2>1, <2>2, <2>3, Same, CarryKeeps
<1>2. CASE SessionNew
  <2>1. Carry("new") /\ NewTab(tabs) /\ router' = Register(router, NewId) /\ UNCHANGED <<current, runs>>
    BY <1>2 DEF SessionNew
  <2>2. NewId \in Nat /\ NewId \notin Registered
    BY TabNumbers DEF SlashInv, PlaceInv
  <2>3. made' = made + 1 /\ In(tabs') = In(tabs) \cup {NewId}
    BY <2>1, DirTabs, NewTabFacts DEF SlashInv
  <2>4. Registered' = Registered \cup {NewId}
    BY <2>1, <2>2, RegisterKeeps DEF SlashInv, DirInv, Registered
  <2>5. In(tabs)' = In(tabs) \cup {NewId}
    BY <2>3 DEF In
  <2>6. In(tabs)' = Registered'
    BY <2>4, <2>5 DEF SlashInv, PlaceInv
  <2>7. /\ \A s \in Registered : s # NewId => router'.token[s] = router.token[s]
        /\ router'.token[NewId] = NoRun
    BY <2>1, OtherTokens DEF Registered
  <2>8. TokenInv'
    BY <2>1, <2>2, <2>4, <2>7, Same, CommandTokens
  <2> QED
    BY <2>1, <2>3, <2>5, <2>6, <2>8, Same, CarryKeeps
<1>3. CASE SessionSpawn \/ SessionImport
  BY <1>3 DEF SessionSpawn, SessionImport, Carry, SlashInv, CommandInv, BySlash, SlashKeys
<1>4. CASE SessionSwitch
  <2>1. Carry("switch") /\ UNCHANGED <<tabs, runs, made>>
    BY <1>4 DEF SessionSwitch
  <2>2. /\ Registered' = Registered /\ router'.token = router.token
        /\ current' = NoSession => current = NoSession
    <3>1. CASE command.target \in Registered
      <4>1. router' = [router EXCEPT !.foreground = command.target] /\ current' = command.target
        BY <1>4, <3>1 DEF SessionSwitch
      <4>2. router'.token = router.token
        BY <4>1 DEF SlashInv, DirInv, RouterOK
      <4>3. command.target # NoSession
        BY <3>1, TabNumbers DEF SlashInv, PlaceInv
      <4> QED
        BY <4>1, <4>2, <4>3 DEF Registered
    <3>2. CASE command.target \notin Registered
      BY <1>4, <3>2 DEF SessionSwitch, Registered
    <3> QED
      BY <3>1, <3>2
  <2>3. In(tabs)' = In(tabs)
    BY <2>1 DEF In
  <2>4. TokenInv' /\ In(tabs)' = Registered'
    BY <2>1, <2>2, <2>3 DEF SlashInv, TokenInv, PlaceInv
  <2> QED
    BY <2>1, <2>2, <2>3, <2>4, Same, CarryKeeps
<1> QED
  BY <1>1, <1>2, <1>3, <1>4, CloseCommandKeeps, ResumeCommandKeeps, ClearCommandKeeps DEF CommandStep

-----------------------------------------------------------------------------
(* The theorems about slash commands.                                       *)

LEMMA SlashInit == Init => SlashInv
<1> SUFFICES ASSUME Init  PROVE  SlashInv
  OBVIOUS
<1>1. /\ tick = "events" /\ state = Fresh /\ last = 1 /\ other = <<>> /\ current = 1 /\ tabs = <<1>>
      /\ command = NoCommand /\ runs = <<>> /\ channel = <<>> /\ made = 1
      /\ router.token = [s \in {1} |-> NoRun]
  BY DEF Init
<1>2. DOMAIN runs = {} /\ DOMAIN channel = {} /\ DOMAIN other = {} /\ In(tabs) = {1} /\ Registered = {1}
  BY <1>1 DEF In, Registered
<1>3. ChannelInv(runs, channel) /\ SoleInv(In(tabs), runs, channel)
  BY <1>1, <1>2 DEF ChannelInv, SoleInv
<1>4. state \in TuiRecs
  BY <1>1 DEF Fresh, TuiRecs, Statuses, NoRun
<1>5. SlashTypes /\ PlaceInv /\ TokenInv /\ CommandInv
  BY <1>1, <1>2, <1>4 DEF SlashTypes, PlaceInv, TokenInv, CommandInv, NoCommand, NoSession
<1>6. TabInv(Fresh, 1, runs, channel)
  BY <1>2, <1>3, FreshTab
<1>7. TabsInv
  BY <1>1, <1>2, <1>6 DEF TabsInv, TuiOf
<1> QED
  BY <1>3, <1>5, <1>7, DirectoryInit DEF SlashInv

LEMMA SlashStep ==
    ASSUME BySlash
    PROVE  SlashInv /\ [Next]_vars => SlashInv'
<1> SUFFICES ASSUME SlashInv, [Next]_vars  PROVE  SlashInv'
  OBVIOUS
<1>0. DirInv'
  BY DirectoryStep DEF SlashInv
<1>1. CASE ApplyEvent
  BY <1>0, <1>1, EventsKeep
<1>2. CASE CommandStep
  BY <1>0, <1>2, CommandsKeep
<1>3. CASE Show
  BY <1>0, <1>3, ShowKeeps
<1>4. CASE KeyStep
  BY <1>0, <1>4, KeysKeep
<1>5. ASSUME NEW r \in DOMAIN runs, RunStep(r)  PROVE  SlashInv'
  BY <1>0, <1>5, RunsKeep
<1>6. CASE UNCHANGED vars
  <2>1. UNCHANGED <<tick, state, last, other, current, tabs, command, router, runs, channel, made>>
    BY <1>6 DEF vars, loop
  <2>2. In(tabs)' = In(tabs) /\ Registered' = Registered /\ \A s : TuiOf(s)' = TuiOf(s)
    BY <2>1, SameStates DEF In, Registered
  <2>3. SlashTypes' /\ PlaceInv' /\ TokenInv' /\ CommandInv'
    BY <2>1, <2>2 DEF SlashInv, SlashTypes, PlaceInv, TokenInv, CommandInv
  <2>4. TabsInv' /\ ChannelInv(runs', channel') /\ SoleInv(In(tabs)', runs', channel')
    BY <2>1, <2>2 DEF SlashInv, TabsInv
  <2> QED
    BY <1>0, <2>3, <2>4 DEF SlashInv
<1> QED
  BY <1>1, <1>2, <1>3, <1>4, <1>5, <1>6 DEF Next, LoopStep

LEMMA SlashInductive ==
    ASSUME BySlash
    PROVE  Spec => []SlashInv
<1>1. SlashInv /\ [Next]_vars => SlashInv'
  BY SlashStep
<1> QED
  BY <1>1, SlashInit, PTL DEF Spec

\* apply_runtime_event and swap_foreground_state: with slash commands, an
\* approval or a question on the panel of a session was asked for by a run of
\* that session.
THEOREM PanelsStayHome ==
    ASSUME BySlash
    PROVE  Spec => []PanelsBelong
<1>1. SlashInv => PanelsBelong
  <2> SUFFICES ASSUME SlashInv, NEW s \in In(tabs), NEW r \in {TuiOf(s).approval, TuiOf(s).question} \ {NoRun}
               PROVE  runs[r].sess = s
    BY DEF PanelsBelong
  <2>1. TabInv(TuiOf(s), s, runs, channel)
    BY DEF SlashInv, TabsInv
  <2> QED
    BY <2>1 DEF TabInv, ApprovalInv, QuestionInv
<1> QED
  BY <1>1, SlashInductive, PTL

\* is_agent_busy and drain_input_queue: with slash commands, a session that
\* queues its input has something on its way that will end the wait.
THEOREM BusyIsWorking ==
    ASSUME BySlash
    PROVE  Spec => []BusyMeansWorking
<1>1. SlashInv => BusyMeansWorking
  <2> SUFFICES ASSUME SlashInv, NEW s \in In(tabs), Busy(TuiOf(s)), TuiOf(s).approval = NoRun
               PROVE  ~Quiet(s)
    BY DEF BusyMeansWorking
  <2>1. ~Rest(s, runs, channel)
    BY DEF SlashInv, TabsInv, TabInv, BusyInv
  <2> QED
    BY <2>1, QuietRests DEF SlashInv
<1> QED
  BY <1>1, SlashInductive, PTL

\* TuiAskUserPort::ask: with slash commands, a run that waits for an answer has
\* its question on the panel of its session, or on the way to it.
THEOREM QuestionsAreReachable ==
    ASSUME BySlash
    PROVE  Spec => []QuestionReachable
<1>1. SlashInv => QuestionReachable
  <2> SUFFICES ASSUME SlashInv, NEW r \in DOMAIN runs, runs[r].phase = "asking", runs[r].sess \in In(tabs)
               PROVE  \/ TuiOf(runs[r].sess).question = r
                      \/ \E i \in DOMAIN channel : channel[i].kind = "AskUserRequested" /\ channel[i].run = r
    BY DEF QuestionReachable
  <2> QED
    BY DEF SlashInv, TabsInv, TabInv, AskInv
<1> QED
  BY <1>1, SlashInductive, PTL

\* spawn_tui_agent_run and on_interrupt: with slash commands, a session has one
\* run at most, and the handle of the session holds its token unless the token
\* was fired.
THEOREM RunsAreStoppable ==
    ASSUME BySlash
    PROVE  Spec => []OneStoppableRun
<1>1. SlashInv => OneRunAtATime
  <2> SUFFICES ASSUME SlashInv, NEW s \in In(tabs)  PROVE  Cardinality(Unfinished(s)) <= 1
    BY DEF OneRunAtATime
  <2>1. \A r, q \in Unfinished(s) : r = q
    BY DEF SlashInv, SoleInv, Active, Unfinished
  <2>2. CASE Unfinished(s) = {}
    BY <2>2, FS_EmptySet
  <2>3. CASE Unfinished(s) # {}
    <3>1. PICK r : Unfinished(s) = {r}
      BY <2>1, <2>3
    <3> QED
      BY <3>1, FS_Singleton
  <2> QED
    BY <2>2, <2>3
<1>2. SlashInv => EveryRunCancellable
  <2> SUFFICES ASSUME SlashInv, NEW r \in DOMAIN runs, runs[r].sess # NoSession, runs[r].phase # "ended"
               PROVE  runs[r].fired \/ (runs[r].sess \in Registered /\ router.token[runs[r].sess] = r)
    BY DEF EveryRunCancellable
  <2>1. runs[r].fired = TRUE \/ (runs[r].sess \in Registered /\ router.token[runs[r].sess] = r)
    BY DEF SlashInv, TokenInv
  <2> QED
    BY <2>1
<1>3. SlashInv => OneStoppableRun
  BY <1>1, <1>2 DEF OneStoppableRun
<1> QED
  BY <1>3, SlashInductive, PTL

=============================================================================
