------------------------- MODULE PeerInboxesProofs -------------------------
(***************************************************************************)
(* Peer messages are read once, in order, by kin, and lost only with the    *)
(* inbox they were put in: for every number of sessions, handles, runs and  *)
(* messages.                                                                *)
(***************************************************************************)
EXTENDS PeerInboxes, SequenceTheorems, TLAPS

Turns  == {"unused", "starts", "drains", "acts", "over"}
Stages == {"unsent", "addressed", "found", "delivered", "refused"}
Names  == Sessions \cup {NoSession}

TypeOK ==
    /\ made \in 0..MaxHandles /\ handle \in [Sessions -> 0..MaxHandles]
    /\ id \in [Handles -> Names] /\ parent \in [Handles -> Names]
    /\ inbox \in [Handles -> Seq(Messages)]
    /\ turn \in [Runs -> Turns] /\ of \in [Runs -> Names]
    /\ hand \in [Runs -> 0..MaxHandles]
    /\ context \in [Runs -> Seq(Messages)]
    /\ sent \in 0..MaxMessages /\ at \in [Messages -> Stages]
    /\ by \in [Messages -> 0..MaxRuns] /\ to \in [Messages -> Names]
    /\ via \in [Messages -> 0..MaxHandles]

\* The handle of a session is the last that was made for it, so the one a run looked
\* up is not older than the ones it looked up before.
RouterInv ==
    /\ \A s \in Sessions : handle[s] # NoHandle => handle[s] <= made /\ id[handle[s]] = s
    /\ \A s \in Sessions, h \in 1..made :
           handle[s] # NoHandle /\ id[h] = s => h <= handle[s]
    /\ \A r \in Runs : turn[r] = "drains" => hand[r] \in 1..made /\ id[hand[r]] = of[r]
    /\ \A r \in Runs : turn[r] # "unused" => of[r] \in Sessions

\* How far a message is.  One run sends one message at a time, and finds no older
\* inbox for it than for the ones before.
Underway(m) == at[m] \in {"addressed", "found"}
Found(m)    == at[m] \in {"found", "delivered"}
MailInv ==
    /\ \A m \in Messages : (at[m] = "unsent") <=> m > sent
    /\ \A m \in Messages : at[m] # "unsent" => by[m] \in Runs /\ turn[by[m]] # "unused"
    /\ \A m \in Messages : Underway(m) \/ Found(m) =>
           to[m] \in Sessions /\ (Kin(of[by[m]], to[m]) \/ Kin(to[m], of[by[m]]))
    /\ \A m \in Messages : Found(m) => via[m] \in 1..made /\ id[via[m]] = to[m]
    /\ \A m, n \in Messages : Underway(m) /\ at[n] # "unsent" /\ by[n] = by[m] => n <= m
    /\ \A m, n \in Messages :
           Found(m) /\ Found(n) /\ by[m] = by[n] /\ to[m] = to[n] /\ m < n => via[m] <= via[n]

\* Where messages are, and that each of them is in one place.
PlaceInv ==
    /\ \A h \in Handles : \A i \in DOMAIN inbox[h] :
           at[inbox[h][i]] = "delivered" /\ via[inbox[h][i]] = h
    /\ \A r \in Runs : \A i \in DOMAIN context[r] :
           at[context[r][i]] = "delivered" /\ to[context[r][i]] = of[r]
    /\ \A r \in Runs : turn[r] = "unused" => context[r] = <<>>
    /\ \A h \in Handles : \A i, j \in DOMAIN inbox[h] : inbox[h][i] = inbox[h][j] => i = j

\* The order of what one run sent: in an inbox, in a context, and between a context
\* and the inbox it was read from.
OrderInv ==
    /\ \A h \in Handles : \A i, j \in DOMAIN inbox[h] :
           i < j /\ by[inbox[h][i]] = by[inbox[h][j]] => inbox[h][i] < inbox[h][j]
    /\ \A r \in Runs, h \in Handles : \A i \in DOMAIN context[r], j \in DOMAIN inbox[h] :
           via[context[r][i]] = h /\ by[context[r][i]] = by[inbox[h][j]]
               => context[r][i] < inbox[h][j]
    /\ \A r \in Runs : turn[r] = "drains" =>
           \A i \in DOMAIN context[r] : via[context[r][i]] <= hand[r]

IInv == TypeOK /\ RouterInv /\ MailInv /\ PlaceInv /\ OrderInv /\ ReadOnce /\ NotLost /\ InOrder

-----------------------------------------------------------------------------
(* Steps. *)

\* The first state satisfies the invariant.
LEMMA InitInv == Init => IInv
<1> SUFFICES ASSUME Init PROVE IInv
  OBVIOUS
<1> USE PeerBoundsAssumption DEF Init, Handles, Runs, Messages, NoHandle
<1>1. TypeOK
  BY DEF TypeOK, Turns, Stages, Names
<1>2. RouterInv
  BY DEF RouterInv
<1>3. MailInv
  BY DEF MailInv, Underway, Found
<1>4. PlaceInv
  BY DEF PlaceInv
<1>5. OrderInv
  BY DEF OrderInv
<1>6. ReadOnce /\ NotLost /\ InOrder
  BY DEF ReadOnce, NotLost, InOrder
<1> QED
  BY <1>1, <1>2, <1>3, <1>4, <1>5, <1>6 DEF IInv

\* Whom a message may be for, by the handles of the router.
LEMMA SendCases ==
    ASSUME TypeOK, RouterInv, NEW r \in Runs, SendToParent(r) \/ SendToChild(r)
    PROVE  \E s \in Names, may \in BOOLEAN :
              /\ Sends(r, s, may)
              /\ may => s \in Sessions /\ (Kin(of[r], s) \/ Kin(s, of[r]))
<1> USE PeerBoundsAssumption DEF NoHandle, Handles
<1>1. of[r] \in Sessions
  BY DEF SendToParent, SendToChild, Sends, RouterInv
<1>2. CASE SendToParent(r)
  <2> DEFINE p == ParentOf(of[r])
  <2>1. Sends(r, p, p # NoSession)
    BY <1>2 DEF SendToParent
  <2>2. CASE handle[of[r]] = NoHandle
    BY <2>1, <2>2, PeerNamesAssumption DEF ParentOf, Names
  <2>3. CASE handle[of[r]] # NoHandle
    <3>1. handle[of[r]] \in 1..made /\ handle[of[r]] \in Handles /\ id[handle[of[r]]] = of[r]
      BY <1>1, <2>3 DEF RouterInv, TypeOK
    <3>2. p = parent[handle[of[r]]] /\ p \in Names
      BY <2>3, <3>1 DEF ParentOf, TypeOK
    <3>3. p # NoSession => p \in Sessions /\ Kin(of[r], p)
      BY <3>1, <3>2 DEF Kin, Names
    <3> QED
      BY <2>1, <3>2, <3>3
  <2> QED
    BY <2>2, <2>3
<1>3. CASE SendToChild(r)
  <2>1. PICK c \in Sessions : Sends(r, c, IsChildOf(of[r], c))
    BY <1>3 DEF SendToChild
  <2>2. IsChildOf(of[r], c) => Kin(c, of[r])
    BY DEF IsChildOf, Kin, RouterInv, TypeOK
  <2> QED
    BY <2>1, <2>2 DEF IsChildOf, Names
<1> QED
  BY <1>2, <1>3

\* The kinds of steps.
LEMMA StepCases ==
    ASSUME TypeOK, RouterInv, [Next]_vars
    PROVE  \/ \E s \in Sessions, p \in Names : Register(s, p)
           \/ \E s \in Sessions : Close(s)
           \/ \E r \in Runs, s \in Sessions : Begin(r, s)
           \/ \E r \in Runs : LookUp(r)
           \/ \E r \in Runs : Drain(r)
           \/ \E r \in Runs : TurnEnds(r)
           \/ \E r \in Runs, s \in Names, may \in BOOLEAN :
                 /\ Sends(r, s, may)
                 /\ may => s \in Sessions /\ (Kin(of[r], s) \/ Kin(s, of[r]))
           \/ \E m \in Messages : Find(m)
           \/ \E m \in Messages : Push(m)
           \/ UNCHANGED vars
<1>1. CASE HostStep
  BY <1>1 DEF HostStep, Names
<1>2. CASE RunStep
  BY <1>2, SendCases DEF RunStep
<1> QED
  BY <1>1, <1>2 DEF Next

\* Every step keeps every variable in its type.
LEMMA TypeStep == TypeOK /\ RouterInv /\ MailInv /\ [Next]_vars => TypeOK'
<1> SUFFICES ASSUME TypeOK, RouterInv, MailInv, [Next]_vars PROVE TypeOK'
  OBVIOUS
<1> USE PeerBoundsAssumption DEF TypeOK, Turns, Stages, Names, Handles, Runs, Messages,
        NoHandle, router, loop, mail
<1>1. ASSUME NEW s \in Sessions, NEW p \in Names, Register(s, p) PROVE TypeOK'
  BY <1>1 DEF Register
<1>2. ASSUME NEW s \in Sessions, Close(s) PROVE TypeOK'
  BY <1>2 DEF Close
<1>3. ASSUME NEW r \in Runs, NEW s \in Sessions, Begin(r, s) PROVE TypeOK'
  BY <1>3 DEF Begin
<1>4. ASSUME NEW r \in Runs, LookUp(r) PROVE TypeOK'
  <2>1. of[r] \in Sessions
    BY <1>4 DEF LookUp, RouterInv
  <2>2. handle[of[r]] \in 0..MaxHandles
    BY <2>1
  <2>3. hand' \in [Runs -> 0..MaxHandles] /\ turn' \in [Runs -> Turns]
    BY <1>4, <2>2 DEF LookUp
  <2> QED
    BY <1>4, <2>3 DEF LookUp
<1>5. ASSUME NEW r \in Runs, Drain(r) PROVE TypeOK'
  <2>1. hand[r] \in Handles
    BY <1>5 DEF Drain, RouterInv
  <2>2. context[r] \in Seq(Messages) /\ inbox[hand[r]] \in Seq(Messages)
    BY <2>1
  <2>3. context[r] \o inbox[hand[r]] \in Seq(Messages)
    BY <2>2, ConcatProperties
  <2>4. <<>> \in Seq(Messages)
    OBVIOUS
  <2>5. context' \in [Runs -> Seq(Messages)]
    BY <1>5, <2>3 DEF Drain, Reads
  <2>6. inbox' \in [Handles -> Seq(Messages)]
    BY <1>5, <2>4 DEF Drain, Empties
  <2>7. turn' \in [Runs -> Turns] /\ hand' \in [Runs -> 0..MaxHandles]
    BY <1>5 DEF Drain
  <2> QED
    BY <1>5, <2>5, <2>6, <2>7 DEF Drain
<1>6. ASSUME NEW r \in Runs, TurnEnds(r) PROVE TypeOK'
  BY <1>6 DEF TurnEnds
<1>7. ASSUME NEW r \in Runs, NEW s \in Names, NEW may \in BOOLEAN, Sends(r, s, may) PROVE TypeOK'
  BY <1>7 DEF Sends
<1>8. ASSUME NEW m \in Messages, Find(m) PROVE TypeOK'
  <2>1. to[m] \in Sessions
    BY <1>8 DEF Find, MailInv, Underway
  <2>2. handle[to[m]] \in 0..MaxHandles
    BY <2>1
  <2>3. at' \in [Messages -> Stages] /\ via' \in [Messages -> 0..MaxHandles]
    BY <1>8, <2>2 DEF Find
  <2> QED
    BY <1>8, <2>3 DEF Find
<1>9. ASSUME NEW m \in Messages, Push(m) PROVE TypeOK'
  <2>1. \A h \in Handles : Append(inbox[h], m) \in Seq(Messages)
    BY AppendProperties
  <2> QED
    BY <1>9, <2>1 DEF Push, Deliver
<1>10. CASE UNCHANGED vars
  BY <1>10 DEF vars
<1> QED
  BY <1>1, <1>2, <1>3, <1>4, <1>5, <1>6, <1>7, <1>8, <1>9, <1>10, StepCases

\* The router's part: a handle that is made is the greatest there is.
LEMMA RouterStep == TypeOK /\ RouterInv /\ [Next]_vars => RouterInv'
<1> SUFFICES ASSUME TypeOK, RouterInv, [Next]_vars PROVE RouterInv'
  OBVIOUS
<1> USE PeerBoundsAssumption DEF TypeOK, RouterInv, Turns, Stages, Names, Handles, Runs,
        NoHandle, router, loop, mail
<1>1. ASSUME NEW s \in Sessions, NEW p \in Names, Register(s, p) PROVE RouterInv'
  <2> USE <1>1 DEF Register
  <2>1. made' = made + 1 /\ made' \in 1..MaxHandles
    OBVIOUS
  <2>2. id' = [id EXCEPT ![made'] = s] /\ handle' = [handle EXCEPT ![s] = made']
    OBVIOUS
  <2>3. id'[made'] = s /\ handle'[s] = made' /\ \A h \in 1..made : id'[h] = id[h]
    BY <2>1, <2>2
  <2>4. \A t \in Sessions : handle'[t] # NoHandle => handle'[t] <= made' /\ id'[handle'[t]] = t
    <3> SUFFICES ASSUME NEW t \in Sessions, handle'[t] # NoHandle
                 PROVE  handle'[t] <= made' /\ id'[handle'[t]] = t
      OBVIOUS
    <3>1. CASE t = s
      BY <2>1, <2>3, <3>1
    <3>2. CASE t # s
      <4>1. handle'[t] = handle[t] /\ handle[t] \in 1..made /\ id[handle[t]] = t
        BY <2>2, <3>2
      <4> QED
        BY <2>1, <2>3, <4>1
    <3> QED
      BY <3>1, <3>2
  <2>5. \A t \in Sessions, h \in 1..made' : handle'[t] # NoHandle /\ id'[h] = t => h <= handle'[t]
    <3> SUFFICES ASSUME NEW t \in Sessions, NEW h \in 1..made', handle'[t] # NoHandle, id'[h] = t
                 PROVE  h <= handle'[t]
      OBVIOUS
    <3>1. CASE t = s
      BY <2>1, <2>3, <3>1
    <3>2. CASE t # s
      BY <2>1, <2>2, <2>3, <3>2
    <3> QED
      BY <3>1, <3>2
  <2> QED
    BY <2>1, <2>3, <2>4, <2>5
<1>2. ASSUME NEW s \in Sessions, Close(s) PROVE RouterInv'
  BY <1>2 DEF Close
<1>3. ASSUME NEW r \in Runs, NEW s \in Sessions, Begin(r, s) PROVE RouterInv'
  BY <1>3 DEF Begin
<1>4. ASSUME NEW r \in Runs, LookUp(r) PROVE RouterInv'
  <2>1. of[r] \in Sessions
    BY <1>4 DEF LookUp
  <2>2. CASE handle[of[r]] = NoHandle
    BY <1>4, <2>2 DEF LookUp
  <2>3. CASE handle[of[r]] # NoHandle
    <3>1. handle[of[r]] \in 1..made /\ id[handle[of[r]]] = of[r]
      BY <2>1, <2>3
    <3>2. /\ turn' = [turn EXCEPT ![r] = "drains"] /\ hand' = [hand EXCEPT ![r] = handle[of[r]]]
          /\ UNCHANGED <<router, of>>
      BY <1>4, <2>3 DEF LookUp
    <3> QED
      BY <2>1, <3>1, <3>2
  <2> QED
    BY <2>2, <2>3
<1>5. ASSUME NEW r \in Runs, Drain(r) PROVE RouterInv'
  BY <1>5 DEF Drain
<1>6. ASSUME NEW r \in Runs, TurnEnds(r) PROVE RouterInv'
  BY <1>6 DEF TurnEnds
<1>7. ASSUME NEW r \in Runs, NEW s \in Names, NEW may \in BOOLEAN, Sends(r, s, may) PROVE RouterInv'
  BY <1>7 DEF Sends
<1>8. ASSUME NEW m \in Messages, Find(m) PROVE RouterInv'
  BY <1>8 DEF Find
<1>9. ASSUME NEW m \in Messages, Push(m) PROVE RouterInv'
  BY <1>9 DEF Push
<1>10. CASE UNCHANGED vars
  BY <1>10 DEF vars
<1> HIDE DEF TypeOK, RouterInv
<1> QED
  BY <1>1, <1>2, <1>3, <1>4, <1>5, <1>6, <1>7, <1>8, <1>9, <1>10, StepCases

\* The handles that were made stay as they are, and so does the session of a run.
LEMMA Lasting ==
    ASSUME TypeOK, RouterInv, [Next]_vars
    PROVE  /\ made <= made' /\ \A h \in 1..made : id'[h] = id[h] /\ parent'[h] = parent[h]
           /\ \A r \in Runs : turn[r] # "unused" => turn'[r] # "unused" /\ of'[r] = of[r]
           /\ \A s, t : Kin(s, t) => Kin(s, t)'
<1> USE PeerBoundsAssumption DEF TypeOK, Turns, Stages, Names, Handles, Runs, NoHandle,
        router, loop, mail
<1> DEFINE Router == made \in Nat /\ made' \in Nat /\ made <= made'
                     /\ \A h \in 1..made : id'[h] = id[h] /\ parent'[h] = parent[h]
           Loop   == \A r \in Runs : turn[r] # "unused" => turn'[r] # "unused" /\ of'[r] = of[r]
<1>1. ASSUME NEW s \in Sessions, NEW p \in Names, Register(s, p) PROVE Router /\ Loop
  BY <1>1 DEF Register
<1>2. ASSUME NEW s \in Sessions, Close(s) PROVE Router /\ Loop
  BY <1>2 DEF Close
<1>3. ASSUME NEW r \in Runs, NEW s \in Sessions, Begin(r, s) PROVE Router /\ Loop
  BY <1>3 DEF Begin
<1>4. ASSUME NEW r \in Runs, LookUp(r) PROVE Router /\ Loop
  BY <1>4 DEF LookUp
<1>5. ASSUME NEW r \in Runs, Drain(r) PROVE Router /\ Loop
  BY <1>5 DEF Drain
<1>6. ASSUME NEW r \in Runs, TurnEnds(r) PROVE Router /\ Loop
  BY <1>6 DEF TurnEnds
<1>7. ASSUME NEW r \in Runs, NEW s \in Names, NEW may \in BOOLEAN, Sends(r, s, may)
      PROVE  Router /\ Loop
  BY <1>7 DEF Sends
<1>8. ASSUME NEW m \in Messages, Find(m) PROVE Router /\ Loop
  BY <1>8 DEF Find
<1>9. ASSUME NEW m \in Messages, Push(m) PROVE Router /\ Loop
  BY <1>9 DEF Push
<1>10. ASSUME UNCHANGED vars PROVE Router /\ Loop
  BY <1>10 DEF vars
<1> HIDE DEF TypeOK, Router, Loop
<1>11. Router /\ Loop
  BY <1>1, <1>2, <1>3, <1>4, <1>5, <1>6, <1>7, <1>8, <1>9, <1>10, StepCases
<1>12. ASSUME NEW s, NEW t, Kin(s, t) PROVE Kin(s, t)'
  <2>1. PICK h \in 1..made : id[h] = s /\ parent[h] = t
    BY <1>12 DEF Kin
  <2>2. h \in 1..made' /\ id'[h] = s /\ parent'[h] = t
    BY <1>11, <2>1 DEF Router
  <2> QED
    BY <2>2 DEF Kin
<1> QED
  BY <1>11, <1>12 DEF Router, Loop

\* The messages' part.  A message that is sent is the last of its run; the inbox that
\* is found for it is the newest of its session.
LEMMA MailStep == TypeOK /\ RouterInv /\ MailInv /\ [Next]_vars => MailInv'
<1> SUFFICES ASSUME TypeOK, RouterInv, MailInv, [Next]_vars PROVE MailInv'
  OBVIOUS
<1> USE PeerBoundsAssumption DEF Messages
<1>0. /\ made \in Nat /\ made <= made' /\ made' \in Nat
      /\ \A h \in 1..made : h \in 1..made' /\ id'[h] = id[h]
      /\ \A r \in Runs : turn[r] # "unused" => turn'[r] # "unused" /\ of'[r] = of[r]
      /\ \A s, t : Kin(s, t) => Kin(s, t)'
  BY Lasting, TypeStep DEF TypeOK
<1>1. ASSUME UNCHANGED mail PROVE MailInv'
  BY <1>0, <1>1 DEF MailInv, Underway, Found, mail
<1>2. ASSUME NEW r \in Runs, NEW s \in Names, NEW may \in BOOLEAN, Sends(r, s, may),
             may => s \in Sessions /\ (Kin(of[r], s) \/ Kin(s, of[r]))
      PROVE  MailInv'
  <2>0. sent \in 0..MaxMessages /\ sent < MaxMessages /\ sent + 1 \in Messages
    BY <1>2 DEF Sends, TypeOK
  <2>1. PICK k \in Messages :
        /\ k = sent + 1 /\ sent' = k /\ via' = via /\ made' = made /\ id' = id
        /\ turn' = turn /\ of' = of /\ parent' = parent
        /\ at' = [at EXCEPT ![k] = IF may THEN "addressed" ELSE "refused"]
        /\ by' = [by EXCEPT ![k] = r] /\ to' = [to EXCEPT ![k] = s]
        /\ turn[r] = "acts" /\ ~Sending(r)
    BY <1>2, <2>0 DEF Sends, router, loop
  <2>2. /\ by'[k] = r /\ to'[k] = s /\ at'[k] \in {"addressed", "refused"}
        /\ at'[k] = "addressed" => may
        /\ \A m \in Messages \ {k} : by'[m] = by[m] /\ to'[m] = to[m] /\ at'[m] = at[m]
    BY <2>1 DEF TypeOK
  <2>3. at[k] = "unsent" /\ ~Found(k)' /\ \A m \in Messages : at[m] # "unsent" => m < k
    BY <2>1, <2>2 DEF MailInv, Found, TypeOK
  <2>4. \A m \in Messages : by[m] = r => ~Underway(m)
    BY <2>1 DEF Sending, Underway, MailInv, TypeOK
  <2>5. \A m \in Messages \ {k} : (Underway(m)' <=> Underway(m)) /\ (Found(m)' <=> Found(m))
    BY <2>2 DEF Underway, Found
  <2>6. \A m \in Messages : (at'[m] = "unsent") <=> m > sent'
    BY <2>1, <2>2 DEF MailInv, TypeOK
  <2>7. \A m \in Messages : at'[m] # "unsent" => by'[m] \in Runs /\ turn'[by'[m]] # "unused"
    BY <2>1, <2>2 DEF MailInv
  <2>8. \A m \in Messages : (Underway(m) \/ Found(m))' =>
            to'[m] \in Sessions /\ (Kin(of[by[m]], to[m]) \/ Kin(to[m], of[by[m]]))'
    <3>1. ASSUME NEW m \in Messages \ {k}, (Underway(m) \/ Found(m))'
          PROVE  to'[m] \in Sessions /\ (Kin(of[by[m]], to[m]) \/ Kin(to[m], of[by[m]]))'
      <4>1. to[m] \in Sessions /\ (Kin(of[by[m]], to[m]) \/ Kin(to[m], of[by[m]]))
        BY <2>5, <3>1 DEF MailInv
      <4> QED
        BY <2>1, <2>2, <4>1 DEF Kin
    <3>2. (Underway(k) \/ Found(k))' => s \in Sessions /\ (Kin(of[r], s) \/ Kin(s, of[r]))
      BY <1>2, <2>2, <2>3 DEF Underway
    <3> QED
      BY <2>1, <2>2, <3>1, <3>2 DEF Kin
  <2>9. \A m \in Messages : Found(m)' => via'[m] \in 1..made' /\ id'[via'[m]] = to'[m]
    BY <2>1, <2>2, <2>3, <2>5 DEF MailInv
  <2>10. \A m, n \in Messages : Underway(m)' /\ at'[n] # "unsent" /\ by'[n] = by'[m] => n <= m
    BY <2>1, <2>2, <2>3, <2>4, <2>5 DEF MailInv
  <2>11. \A m, n \in Messages :
            Found(m)' /\ Found(n)' /\ by'[m] = by'[n] /\ to'[m] = to'[n] /\ m < n => via'[m] <= via'[n]
    BY <2>1, <2>2, <2>3, <2>5 DEF MailInv
  <2> QED
    BY <2>6, <2>7, <2>8, <2>9, <2>10, <2>11 DEF MailInv
<1>3. ASSUME NEW k \in Messages, Find(k) PROVE MailInv'
  <2>1. /\ sent' = sent /\ by' = by /\ to' = to /\ made' = made /\ id' = id
        /\ turn' = turn /\ of' = of /\ parent' = parent /\ Underway(k)
    BY <1>3 DEF Find, router, loop, Underway
  <2>2. to[k] \in Sessions /\ by[k] \in Runs /\ handle[to[k]] \in 0..MaxHandles
    BY <2>1 DEF MailInv, TypeOK, Underway
  <2>3. /\ \A m \in Messages \ {k} : at'[m] = at[m] /\ via'[m] = via[m]
        /\ at'[k] \in {"refused", "found"}
        /\ at'[k] = "found" => handle[to[k]] # NoHandle /\ via'[k] = handle[to[k]]
    BY <1>3 DEF Find, TypeOK
  <2>4. at'[k] = "found" => /\ via'[k] \in 1..made /\ id[via'[k]] = to[k]
                            /\ \A h \in 1..made : id[h] = to[k] => h <= via'[k]
    BY <2>2, <2>3 DEF RouterInv, NoHandle
  <2>5. /\ \A m \in Messages \ {k} : (Underway(m)' <=> Underway(m)) /\ (Found(m)' <=> Found(m))
        /\ Underway(k)' => FALSE \/ at'[k] = "found"
        /\ Found(k)' <=> at'[k] = "found"
    BY <2>3 DEF Underway, Found
  <2>6. at[k] # "unsent" /\ at'[k] # "unsent"
    BY <2>1, <2>3 DEF Underway
  <2>7. \A m \in Messages : (at'[m] = "unsent") <=> m > sent'
    BY <2>1, <2>3, <2>6 DEF MailInv
  <2>8. \A m \in Messages : at'[m] # "unsent" => by'[m] \in Runs /\ turn'[by'[m]] # "unused"
    BY <2>1, <2>3, <2>6 DEF MailInv
  <2>9. \A m \in Messages : (Underway(m) \/ Found(m))' =>
            to'[m] \in Sessions /\ (Kin(of[by[m]], to[m]) \/ Kin(to[m], of[by[m]]))'
    BY <2>1, <2>5 DEF MailInv, Kin
  <2>10. \A m \in Messages : Found(m)' => via'[m] \in 1..made' /\ id'[via'[m]] = to'[m]
    BY <2>1, <2>3, <2>4, <2>5 DEF MailInv
  <2>11. \A m, n \in Messages : Underway(m)' /\ at'[n] # "unsent" /\ by'[n] = by'[m] => n <= m
    BY <2>1, <2>3, <2>5, <2>6 DEF MailInv
  <2>12. \A m, n \in Messages :
            Found(m)' /\ Found(n)' /\ by'[m] = by'[n] /\ to'[m] = to'[n] /\ m < n => via'[m] <= via'[n]
    <3> SUFFICES ASSUME NEW m \in Messages, NEW n \in Messages, Found(m)', Found(n)',
                        by[m] = by[n], to[m] = to[n], m < n
                 PROVE  via'[m] <= via'[n]
      BY <2>1
    <3>1. m # k
      <4> SUFFICES ASSUME m = k PROVE FALSE
        OBVIOUS
      <4>1. n # k /\ Found(n) /\ at[n] # "unsent"
        BY <2>5 DEF Found
      <4>2. n <= k
        BY <2>1, <4>1 DEF MailInv
      <4> QED
        BY <4>2
    <3>2. Found(m) /\ via'[m] = via[m]
      BY <2>3, <2>5, <3>1
    <3>3. CASE n = k
      BY <2>4, <2>5, <3>2, <3>3 DEF MailInv
    <3>4. CASE n # k
      BY <2>3, <2>5, <3>2, <3>4 DEF MailInv
    <3> QED
      BY <3>3, <3>4
  <2> QED
    BY <2>7, <2>8, <2>9, <2>10, <2>11, <2>12 DEF MailInv
<1>4. ASSUME NEW k \in Messages, Push(k) PROVE MailInv'
  <2>1. /\ sent' = sent /\ by' = by /\ to' = to /\ via' = via /\ made' = made /\ id' = id
        /\ turn' = turn /\ of' = of /\ parent' = parent
        /\ \A m \in Messages : /\ at'[m] = "unsent" <=> at[m] = "unsent"
                               /\ Found(m)' <=> Found(m)
                               /\ Underway(m)' => Underway(m)
    BY <1>4 DEF Push, router, loop, Underway, Found, TypeOK
  <2> QED
    BY <2>1 DEF MailInv, Kin
<1> QED
  BY <1>1, <1>2, <1>3, <1>4, StepCases
     DEF Register, Close, Begin, LookUp, Drain, TurnEnds, mail, vars

-----------------------------------------------------------------------------
(* Steps that move no message leave what was delivered as it is. *)

Quiet ==
    /\ inbox' = inbox /\ context' = context
    /\ \A m \in Messages : at'[m] = "delivered" <=> at[m] = "delivered"
    /\ \A m \in Messages :
           at[m] = "delivered" => by'[m] = by[m] /\ to'[m] = to[m] /\ via'[m] = via[m]

LEMMA QuietOrNot ==
    ASSUME TypeOK, RouterInv, MailInv, [Next]_vars
    PROVE  Quiet \/ (\E m \in Messages : Push(m)) \/ (\E r \in Runs : Drain(r))
<1> USE DEF Quiet, router, loop, mail
<1>1. ASSUME UNCHANGED <<inbox, context, mail>> PROVE Quiet
  BY <1>1
<1>2. ASSUME NEW r \in Runs, NEW s \in Names, NEW may \in BOOLEAN, Sends(r, s, may) PROVE Quiet
  <2>0. sent \in 0..MaxMessages /\ sent < MaxMessages /\ sent + 1 \in Messages /\ sent + 1 > sent
    BY <1>2, PeerBoundsAssumption DEF Sends, TypeOK, Messages
  <2>1. at[sent + 1] = "unsent"
    BY <2>0 DEF MailInv
  <2> QED
    BY <1>2, <2>0, <2>1 DEF Sends, TypeOK
<1>3. ASSUME NEW m \in Messages, Find(m) PROVE Quiet
  BY <1>3 DEF Find, TypeOK
<1> HIDE DEF Quiet
<1> QED
  BY <1>1, <1>2, <1>3, StepCases
     DEF Register, Close, Begin, LookUp, TurnEnds, vars

\* What a quiet step preserves.
LEMMA QuietStep ==
    ASSUME TypeOK, RouterInv, MailInv, PlaceInv, ReadOnce, NotLost, InOrder, [Next]_vars, Quiet
    PROVE  PlaceInv' /\ ReadOnce' /\ NotLost' /\ InOrder'
<1>1. /\ \A h \in Handles : \A i \in DOMAIN inbox[h] : inbox[h][i] \in Messages
      /\ \A r \in Runs : \A i \in DOMAIN context[r] : context[r][i] \in Messages
  BY DEF TypeOK
<1>2. \A r \in Runs : /\ turn'[r] = "unused" => turn[r] = "unused"
                      /\ context[r] # <<>> => of'[r] = of[r]
  BY Lasting DEF PlaceInv
<1>3. \A r \in Runs : \A i \in DOMAIN context[r] : context[r] # <<>>
  OBVIOUS
<1>4. PlaceInv'
  BY <1>1, <1>2, <1>3 DEF PlaceInv, Quiet
<1>5. ReadOnce'
  BY DEF ReadOnce, Quiet
<1>6. NotLost'
  BY <1>2, <1>3 DEF NotLost, Quiet, In
<1>7. InOrder'
  BY <1>1 DEF InOrder, Quiet, PlaceInv
<1> QED
  BY <1>4, <1>5, <1>6, <1>7

-----------------------------------------------------------------------------
(* Push and Drain. *)

\* The elements of a queue are messages; a queue is numbered from one.
LEMMA Queues ==
    ASSUME TypeOK
    PROVE  /\ \A h \in Handles : /\ inbox[h] \in Seq(Messages) /\ Len(inbox[h]) \in Nat
                                 /\ DOMAIN inbox[h] = 1..Len(inbox[h])
                                 /\ \A i \in DOMAIN inbox[h] : inbox[h][i] \in Messages
           /\ \A r \in Runs : /\ context[r] \in Seq(Messages) /\ Len(context[r]) \in Nat
                              /\ DOMAIN context[r] = 1..Len(context[r])
                              /\ \A i \in DOMAIN context[r] : context[r][i] \in Messages
BY LenProperties, ElementOfSeq DEF TypeOK

\* What a push changes: the message was nowhere, and is now the last of its inbox.
LEMMA PushFacts ==
    ASSUME TypeOK, RouterInv, MailInv, PlaceInv, NEW m \in Messages, Push(m)
    PROVE  /\ via[m] \in Handles /\ at[m] = "found"
           /\ context' = context /\ by' = by /\ to' = to /\ via' = via /\ of' = of /\ turn' = turn
           /\ hand' = hand
           /\ at'[m] = "delivered" /\ \A n \in Messages \ {m} : at'[n] = at[n]
           /\ \A h \in Handles \ {via[m]} : inbox'[h] = inbox[h]
           /\ LET q == inbox[via[m]]
              IN  /\ DOMAIN q = 1..Len(q) /\ Len(q) \in Nat
                  /\ DOMAIN inbox'[via[m]] = 1..Len(q) + 1
                  /\ \A i \in 1..Len(q) : inbox'[via[m]][i] = q[i]
                  /\ inbox'[via[m]][Len(q) + 1] = m
           /\ \A h \in Handles : \A i \in DOMAIN inbox[h] : inbox[h][i] # m
           /\ \A r \in Runs : \A i \in DOMAIN context[r] : context[r][i] # m
<1>1. at[m] = "found" /\ via[m] \in Handles
  BY PeerBoundsAssumption DEF Push, MailInv, Found, TypeOK, Handles
<1>2. /\ context' = context /\ by' = by /\ to' = to /\ via' = via /\ of' = of /\ turn' = turn
      /\ hand' = hand /\ at' = [at EXCEPT ![m] = "delivered"]
      /\ inbox' = [inbox EXCEPT ![via[m]] = Append(inbox[via[m]], m)]
  BY DEF Push, Deliver, loop
<1>3. at'[m] = "delivered" /\ \A n \in Messages \ {m} : at'[n] = at[n]
  BY <1>2 DEF TypeOK
<1>4. \A h \in Handles \ {via[m]} : inbox'[h] = inbox[h]
  BY <1>2 DEF TypeOK
<1>5. inbox'[via[m]] = Append(inbox[via[m]], m)
  BY <1>1, <1>2 DEF TypeOK
<1> DEFINE q == inbox[via[m]]
<1>6. q \in Seq(Messages) /\ DOMAIN q = 1..Len(q) /\ Len(q) \in Nat
  BY <1>1, Queues
<1>7. /\ Append(q, m) \in Seq(Messages) /\ Len(Append(q, m)) = Len(q) + 1
      /\ \A i \in 1..Len(q) : Append(q, m)[i] = q[i]
      /\ Append(q, m)[Len(q) + 1] = m
  BY <1>6, AppendProperties
<1>8. DOMAIN Append(q, m) = 1..Len(q) + 1
  BY <1>7, LenProperties
<1>9. \A h \in Handles : \A i \in DOMAIN inbox[h] : inbox[h][i] # m
  BY <1>1 DEF PlaceInv
<1>10. \A r \in Runs : \A i \in DOMAIN context[r] : context[r][i] # m
  BY <1>1 DEF PlaceInv
<1> QED
  BY <1>1, <1>2, <1>3, <1>4, <1>5, <1>6, <1>7, <1>8, <1>9, <1>10

LEMMA PushStep ==
    ASSUME TypeOK, RouterInv, MailInv, PlaceInv, OrderInv, ReadOnce, NotLost, InOrder,
           NEW m \in Messages, Push(m)
    PROVE  PlaceInv' /\ OrderInv' /\ ReadOnce' /\ NotLost' /\ InOrder'
<1> DEFINE v == via[m]
           q == inbox[v]
<1>1. /\ v \in Handles /\ at[m] = "found"
      /\ context' = context /\ by' = by /\ to' = to /\ via' = via /\ of' = of /\ turn' = turn
      /\ hand' = hand
      /\ at'[m] = "delivered" /\ \A n \in Messages \ {m} : at'[n] = at[n]
      /\ \A h \in Handles \ {v} : inbox'[h] = inbox[h]
  BY PushFacts
<1>2. /\ DOMAIN q = 1..Len(q) /\ Len(q) \in Nat
      /\ DOMAIN inbox'[v] = 1..Len(q) + 1
      /\ \A i \in 1..Len(q) : inbox'[v][i] = q[i]
      /\ inbox'[v][Len(q) + 1] = m
  BY PushFacts
<1>3. /\ \A h \in Handles : \A i \in DOMAIN inbox[h] : inbox[h][i] # m /\ inbox[h][i] \in Messages
      /\ \A r \in Runs : \A i \in DOMAIN context[r] : context[r][i] # m /\ context[r][i] \in Messages
  BY PushFacts, Queues
<1> HIDE DEF v, q
\* Places of an inbox: those of before, and the new last one.
<1>4. ASSUME NEW h \in Handles, NEW i \in DOMAIN inbox'[h]
      PROVE  \/ i \in DOMAIN inbox[h] /\ inbox'[h][i] = inbox[h][i]
             \/ h = v /\ i = Len(q) + 1 /\ inbox'[h][i] = m
  BY <1>1, <1>2 DEF q
<1>5. PlaceInv'
  <2>1. \A h \in Handles : \A i \in DOMAIN inbox'[h] :
            at'[inbox'[h][i]] = "delivered" /\ via'[inbox'[h][i]] = h
    BY <1>1, <1>3, <1>4 DEF PlaceInv, v
  <2>2. \A r \in Runs : \A i \in DOMAIN context'[r] :
            at'[context'[r][i]] = "delivered" /\ to'[context'[r][i]] = of'[r]
    BY <1>1, <1>3 DEF PlaceInv
  <2>3. \A h \in Handles : \A i, j \in DOMAIN inbox'[h] : inbox'[h][i] = inbox'[h][j] => i = j
    BY <1>3, <1>4 DEF PlaceInv
  <2> QED
    BY <1>1, <2>1, <2>2, <2>3 DEF PlaceInv
\* What the run sent before is smaller.
<1>6. \A n \in Messages : at[n] = "delivered" /\ by[n] = by[m] => n < m
  BY <1>1, PeerBoundsAssumption DEF MailInv, Underway, Messages
<1>7. OrderInv'
  <2>1. ASSUME NEW h \in Handles, NEW i \in DOMAIN inbox'[h], NEW j \in DOMAIN inbox'[h],
               i < j, by'[inbox'[h][i]] = by'[inbox'[h][j]]
        PROVE  inbox'[h][i] < inbox'[h][j]
    <3>1. CASE i \in DOMAIN inbox[h] /\ j \in DOMAIN inbox[h]
      <4>1. inbox'[h][i] = inbox[h][i] /\ inbox'[h][j] = inbox[h][j]
        BY <1>2, <1>4, <3>1 DEF q
      <4> QED
        BY <1>1, <1>3, <2>1, <3>1, <4>1 DEF OrderInv
    <3>2. CASE i \in DOMAIN inbox[h] /\ inbox'[h][i] = inbox[h][i] /\ inbox'[h][j] = m
      BY <1>1, <1>3, <1>6, <2>1, <3>2 DEF PlaceInv
    <3>3. ~(h = v /\ i = Len(q) + 1 /\ (j \in DOMAIN inbox[h] \/ j = Len(q) + 1))
      BY <1>2, <2>1 DEF q
    <3> QED
      BY <1>3, <1>4, <2>1, <3>1, <3>2, <3>3
  <2>2. ASSUME NEW r \in Runs, NEW h \in Handles, NEW i \in DOMAIN context'[r],
               NEW j \in DOMAIN inbox'[h], via'[context'[r][i]] = h,
               by'[context'[r][i]] = by'[inbox'[h][j]]
        PROVE  context'[r][i] < inbox'[h][j]
    BY <1>1, <1>3, <1>4, <1>6, <2>2 DEF OrderInv, PlaceInv
  <2> QED
    BY <1>1, <2>1, <2>2 DEF OrderInv
<1>8. ReadOnce'
  BY <1>1, <1>3, <1>4 DEF ReadOnce
<1>9. NotLost'
  <2> SUFFICES ASSUME NEW n \in Messages, at'[n] = "delivered"
               PROVE  \/ In(inbox'[via'[n]], n) # {}
                      \/ \E r \in Runs : of'[r] = to'[n] /\ In(context'[r], n) # {}
    BY DEF NotLost
  <2>1. CASE n = m
    <3>1. Len(q) + 1 \in In(inbox'[v], m)
      BY <1>2 DEF In
    <3> QED
      BY <1>1, <2>1, <3>1 DEF v
  <2>2. CASE n # m
    <3>1. \/ In(inbox[via[n]], n) # {}
          \/ \E r \in Runs : of[r] = to[n] /\ In(context[r], n) # {}
      BY <1>1, <2>2 DEF NotLost
    <3>2. ASSUME In(inbox[via[n]], n) # {} PROVE In(inbox'[via[n]], n) # {}
      <4>1. PICK i \in DOMAIN inbox[via[n]] : inbox[via[n]][i] = n
        BY <3>2 DEF In
      <4>2. via[n] \in Handles
        BY <1>1, <2>2, PeerBoundsAssumption DEF MailInv, Found, TypeOK, Handles
      <4>3. i \in DOMAIN inbox'[via[n]] /\ inbox'[via[n]][i] = n
        BY <1>1, <1>2, <4>1, <4>2 DEF q
      <4> QED
        BY <4>3 DEF In
    <3> QED
      BY <1>1, <3>1, <3>2
  <2> QED
    BY <2>1, <2>2
<1>10. InOrder'
  BY <1>1 DEF InOrder
<1> QED
  BY <1>5, <1>7, <1>8, <1>9, <1>10

\* What a drain changes: the inbox is empty, and its messages follow those the run
\* has read, each at a place of its own.
LEMMA DrainFacts ==
    ASSUME TypeOK, RouterInv, NEW r \in Runs, Drain(r)
    PROVE  /\ turn[r] = "drains" /\ turn'[r] = "acts" /\ hand[r] \in Handles
           /\ sent' = sent /\ at' = at /\ by' = by /\ to' = to /\ via' = via /\ of' = of
           /\ \A q \in Runs \ {r} : /\ context'[q] = context[q] /\ turn'[q] = turn[q]
                                    /\ hand'[q] = hand[q]
           /\ \A h \in Handles \ {hand[r]} : inbox'[h] = inbox[h]
           /\ DOMAIN inbox'[hand[r]] = {}
           /\ LET a == Len(context[r])
                  b == Len(inbox[hand[r]])
              IN  /\ a \in Nat /\ b \in Nat
                  /\ DOMAIN context[r] = 1..a /\ DOMAIN inbox[hand[r]] = 1..b
                  /\ DOMAIN context'[r] = 1..a + b
                  /\ \A i \in 1..a : context'[r][i] = context[r][i]
                  /\ \A i \in 1..b : context'[r][a + i] = inbox[hand[r]][i]
<1> DEFINE h == hand[r]
           a == Len(context[r])
           b == Len(inbox[h])
<1>1. turn[r] = "drains" /\ h \in Handles
  BY PeerBoundsAssumption DEF Drain, RouterInv, TypeOK, Handles
<1>2. /\ turn' = [turn EXCEPT ![r] = "acts"] /\ hand' = [hand EXCEPT ![r] = NoHandle]
      /\ context' = [context EXCEPT ![r] = context[r] \o inbox[h]]
      /\ inbox' = [inbox EXCEPT ![h] = <<>>]
      /\ sent' = sent /\ at' = at /\ by' = by /\ to' = to /\ via' = via /\ of' = of
  BY DEF Drain, Reads, Empties, mail
<1>3. turn'[r] = "acts" /\ \A q \in Runs \ {r} : /\ context'[q] = context[q] /\ turn'[q] = turn[q]
                                                /\ hand'[q] = hand[q]
  BY <1>2 DEF TypeOK
<1>4. inbox'[h] = <<>> /\ context'[r] = context[r] \o inbox[h]
      /\ \A g \in Handles \ {h} : inbox'[g] = inbox[g]
  BY <1>1, <1>2 DEF TypeOK
<1>5. /\ context[r] \in Seq(Messages) /\ a \in Nat /\ DOMAIN context[r] = 1..a
      /\ inbox[h] \in Seq(Messages) /\ b \in Nat /\ DOMAIN inbox[h] = 1..b
  BY <1>1, Queues
<1>6. /\ context[r] \o inbox[h] \in Seq(Messages) /\ Len(context[r] \o inbox[h]) = a + b
      /\ \A i \in 1..a + b : (context[r] \o inbox[h])[i]
                                = IF i <= a THEN context[r][i] ELSE inbox[h][i - a]
  BY <1>5, ConcatProperties
<1>7. DOMAIN context'[r] = 1..a + b
  BY <1>4, <1>6, LenProperties
<1>8. DOMAIN inbox'[h] = {}
  BY <1>4
<1> HIDE DEF a, b, h
<1>9. \A i \in 1..a : context'[r][i] = context[r][i]
  <2> SUFFICES ASSUME NEW i \in 1..a PROVE context'[r][i] = context[r][i]
    OBVIOUS
  <2>1. i \in 1..a + b /\ i <= a
    BY <1>5
  <2> QED
    BY <1>4, <1>6, <2>1
<1>10. \A i \in 1..b : context'[r][a + i] = inbox[h][i]
  <2> SUFFICES ASSUME NEW i \in 1..b PROVE context'[r][a + i] = inbox[h][i]
    OBVIOUS
  <2>1. a + i \in 1..a + b /\ ~(a + i <= a) /\ (a + i) - a = i
    BY <1>5
  <2> QED
    BY <1>4, <1>6, <2>1
<1> QED
  BY <1>1, <1>2, <1>3, <1>4, <1>5, <1>7, <1>8, <1>9, <1>10 DEF a, b, h

LEMMA DrainStep ==
    ASSUME TypeOK, RouterInv, MailInv, PlaceInv, OrderInv, ReadOnce, NotLost, InOrder,
           NEW r \in Runs, Drain(r)
    PROVE  PlaceInv' /\ OrderInv' /\ ReadOnce' /\ NotLost' /\ InOrder'
<1> DEFINE h == hand[r]
           a == Len(context[r])
           b == Len(inbox[h])
<1>1. /\ turn[r] = "drains" /\ turn'[r] = "acts" /\ h \in Handles
      /\ at' = at /\ by' = by /\ to' = to /\ via' = via /\ of' = of
      /\ \A q \in Runs \ {r} : context'[q] = context[q] /\ turn'[q] = turn[q] /\ hand'[q] = hand[q]
      /\ \A g \in Handles \ {h} : inbox'[g] = inbox[g]
      /\ DOMAIN inbox'[h] = {}
  BY DrainFacts
<1>2. /\ a \in Nat /\ b \in Nat /\ DOMAIN context[r] = 1..a /\ DOMAIN inbox[h] = 1..b
      /\ DOMAIN context'[r] = 1..a + b
      /\ \A i \in 1..a : context'[r][i] = context[r][i]
      /\ \A i \in 1..b : context'[r][a + i] = inbox[h][i]
  BY DrainFacts
<1>3. /\ \A g \in Handles : \A i \in DOMAIN inbox[g] : inbox[g][i] \in Messages
      /\ \A q \in Runs : \A i \in DOMAIN context[q] : context[q][i] \in Messages
  BY Queues
<1>4. id[h] = of[r] /\ \A i \in DOMAIN context[r] : via[context[r][i]] <= h
  BY <1>1 DEF RouterInv, OrderInv
<1> HIDE DEF a, b, h
\* Places of a context: those of before, and in that of r those of the inbox.
<1>5. ASSUME NEW q \in Runs, NEW i \in DOMAIN context'[q]
      PROVE  \/ i \in DOMAIN context[q] /\ context'[q][i] = context[q][i] /\ (q = r => i <= a)
             \/ q = r /\ i - a \in DOMAIN inbox[h] /\ context'[q][i] = inbox[h][i - a] /\ a < i
  <2>1. CASE q # r
    BY <1>1, <2>1
  <2>2. CASE q = r /\ i <= a
    BY <1>2, <2>2
  <2>3. CASE q = r /\ ~(i <= a)
    <3>1. i - a \in 1..b /\ i = a + (i - a) /\ a < i
      BY <1>2, <2>3
    <3> QED
      BY <1>2, <2>3, <3>1
  <2> QED
    BY <2>1, <2>2, <2>3
<1>6. ASSUME NEW g \in Handles, NEW i \in DOMAIN inbox'[g]
      PROVE  g # h /\ i \in DOMAIN inbox[g] /\ inbox'[g][i] = inbox[g][i]
  BY <1>1
<1>7. \A i \in DOMAIN inbox[h] : /\ at[inbox[h][i]] = "delivered" /\ via[inbox[h][i]] = h
                                 /\ to[inbox[h][i]] = of[r]
  BY <1>1, <1>3, <1>4 DEF PlaceInv, MailInv, Found
<1>8. PlaceInv'
  <2>1. \A q \in Runs : \A i \in DOMAIN context'[q] :
            at'[context'[q][i]] = "delivered" /\ to'[context'[q][i]] = of'[q]
    BY <1>1, <1>5, <1>7 DEF PlaceInv
  <2>2. \A q \in Runs : turn'[q] = "unused" => context'[q] = <<>>
    BY <1>1 DEF PlaceInv
  <2>3. \A g \in Handles : \A i \in DOMAIN inbox'[g] :
            at'[inbox'[g][i]] = "delivered" /\ via'[inbox'[g][i]] = g
    BY <1>1, <1>6 DEF PlaceInv
  <2>4. \A g \in Handles : \A i, j \in DOMAIN inbox'[g] : inbox'[g][i] = inbox'[g][j] => i = j
    BY <1>6 DEF PlaceInv
  <2> QED
    BY <2>1, <2>2, <2>3, <2>4 DEF PlaceInv
<1>9. OrderInv'
  <2>1. ASSUME NEW g \in Handles, NEW i \in DOMAIN inbox'[g], NEW j \in DOMAIN inbox'[g],
               i < j, by'[inbox'[g][i]] = by'[inbox'[g][j]]
        PROVE  inbox'[g][i] < inbox'[g][j]
    BY <1>1, <1>6, <2>1 DEF OrderInv
  <2>2. ASSUME NEW q \in Runs, NEW g \in Handles, NEW i \in DOMAIN context'[q],
               NEW j \in DOMAIN inbox'[g], via'[context'[q][i]] = g,
               by'[context'[q][i]] = by'[inbox'[g][j]]
        PROVE  context'[q][i] < inbox'[g][j]
    BY <1>1, <1>5, <1>6, <1>7, <2>2 DEF OrderInv
  <2>3. ASSUME NEW q \in Runs, turn'[q] = "drains", NEW i \in DOMAIN context'[q]
        PROVE  via'[context'[q][i]] <= hand'[q]
    BY <1>1, <2>3 DEF OrderInv
  <2> QED
    BY <2>1, <2>2, <2>3 DEF OrderInv
<1>10. ReadOnce'
  <2>1. ASSUME NEW p \in Runs, NEW q \in Runs, NEW i \in DOMAIN context'[p],
               NEW j \in DOMAIN context'[q], context'[p][i] = context'[q][j]
        PROVE  p = q /\ i = j
    <3>1. CASE /\ i \in DOMAIN context[p] /\ context'[p][i] = context[p][i]
               /\ j \in DOMAIN context[q] /\ context'[q][j] = context[q][j]
      <4>1. context[p][i] = context[q][j]
        BY <2>1, <3>1
      <4> QED
        BY <3>1, <4>1 DEF ReadOnce
    <3>2. CASE /\ p = r /\ i - a \in DOMAIN inbox[h] /\ context'[p][i] = inbox[h][i - a]
               /\ q = r /\ j - a \in DOMAIN inbox[h] /\ context'[q][j] = inbox[h][j - a]
      <4>1. i - a = j - a
        BY <1>1, <2>1, <3>2 DEF PlaceInv
      <4>2. i \in Int /\ j \in Int
        BY <1>2, <3>2
      <4> QED
        BY <1>2, <3>2, <4>1, <4>2
    <3>3. ~(/\ i \in DOMAIN context[p] /\ context'[p][i] = context[p][i]
            /\ j - a \in DOMAIN inbox[h] /\ context'[q][j] = inbox[h][j - a])
      BY <1>1, <2>1 DEF ReadOnce
    <3>4. ~(/\ j \in DOMAIN context[q] /\ context'[q][j] = context[q][j]
            /\ i - a \in DOMAIN inbox[h] /\ context'[p][i] = inbox[h][i - a])
      BY <1>1, <2>1 DEF ReadOnce
    <3> QED
      BY <1>5, <3>1, <3>2, <3>3, <3>4
  <2>2. ASSUME NEW q \in Runs, NEW g \in Handles, NEW i \in DOMAIN context'[q],
               NEW j \in DOMAIN inbox'[g], context'[q][i] = inbox'[g][j]
        PROVE  FALSE
    <3>1. g # h /\ j \in DOMAIN inbox[g] /\ inbox'[g][j] = inbox[g][j] /\ via[inbox[g][j]] = g
      BY <1>6 DEF PlaceInv
    <3> QED
      BY <1>5, <1>7, <2>2, <3>1 DEF ReadOnce
  <2> QED
    BY <2>1, <2>2 DEF ReadOnce
<1>11. NotLost'
  <2> SUFFICES ASSUME NEW n \in Messages, at[n] = "delivered"
               PROVE  \/ In(inbox'[via[n]], n) # {}
                      \/ \E q \in Runs : of[q] = to[n] /\ In(context'[q], n) # {}
    BY <1>1 DEF NotLost
  <2>1. via[n] \in Handles
    BY PeerBoundsAssumption DEF MailInv, Found, TypeOK, Handles
  <2>2. CASE In(inbox[via[n]], n) # {}
    <3>1. PICK i \in DOMAIN inbox[via[n]] : inbox[via[n]][i] = n
      BY <2>2 DEF In
    <3>2. CASE via[n] = h
      <4>1. i \in 1..b /\ a + i \in 1..a + b /\ context'[r][a + i] = n
        BY <1>2, <3>1, <3>2
      <4>2. a + i \in In(context'[r], n)
        BY <1>2, <4>1 DEF In
      <4>3. of[r] = to[n]
        BY <1>7, <3>1, <3>2
      <4> QED
        BY <4>2, <4>3
    <3>3. CASE via[n] # h
      BY <1>1, <2>1, <2>2, <3>3
    <3> QED
      BY <3>2, <3>3
  <2>3. ASSUME NEW q \in Runs, of[q] = to[n], In(context[q], n) # {}
        PROVE  In(context'[q], n) # {}
    <3>1. PICK i \in DOMAIN context[q] : context[q][i] = n
      BY <2>3 DEF In
    <3>2. i \in DOMAIN context'[q] /\ context'[q][i] = n
      BY <1>1, <1>2, <3>1
    <3> QED
      BY <3>2 DEF In
  <2> QED
    BY <2>2, <2>3 DEF NotLost
<1>12. InOrder'
  <2> SUFFICES ASSUME NEW q \in Runs, NEW i \in DOMAIN context'[q], NEW j \in DOMAIN context'[q],
                      i < j, by[context'[q][i]] = by[context'[q][j]]
               PROVE  context'[q][i] < context'[q][j]
    BY <1>1 DEF InOrder
  <2>1. CASE /\ i \in DOMAIN context[q] /\ context'[q][i] = context[q][i]
             /\ j \in DOMAIN context[q] /\ context'[q][j] = context[q][j]
    BY <2>1 DEF InOrder
  <2>2. CASE /\ q = r /\ i - a \in DOMAIN inbox[h] /\ context'[q][i] = inbox[h][i - a]
             /\ j - a \in DOMAIN inbox[h] /\ context'[q][j] = inbox[h][j - a]
    <3>1. i - a < j - a
      BY <1>2, <2>2
    <3> QED
      BY <1>1, <2>2, <3>1 DEF OrderInv
  <2>3. CASE /\ q = r /\ i \in DOMAIN context[q] /\ context'[q][i] = context[q][i]
             /\ j - a \in DOMAIN inbox[h] /\ context'[q][j] = inbox[h][j - a]
    <3> DEFINE m == context[q][i]
               n == inbox[h][j - a]
    <3>1. m \in Messages /\ n \in Messages /\ by[m] = by[n] /\ m # n
      BY <1>1, <1>3, <2>3 DEF ReadOnce
    <3>2. via[n] = h /\ to[n] = of[r] /\ Found(n)
      BY <1>7, <2>3 DEF Found
    <3>3. via[m] <= h /\ to[m] = of[r] /\ Found(m)
      BY <1>4, <2>3 DEF PlaceInv, Found
    <3>4. CASE via[m] = h
      BY <1>1, <2>3, <3>1, <3>4 DEF OrderInv
    <3>5. CASE via[m] # h
      <4>1. n < m => via[n] <= via[m]
        BY <3>1, <3>2, <3>3 DEF MailInv
      <4>2. via[m] \in Int /\ h \in Int /\ ~(h <= via[m])
        BY <1>1, <3>1, <3>3, <3>5, PeerBoundsAssumption DEF TypeOK, Handles
      <4> QED
        BY <2>3, <3>1, <3>2, <4>1, <4>2, PeerBoundsAssumption DEF Messages
    <3> QED
      BY <3>4, <3>5
  <2>4. ~(q = r /\ i - a \in DOMAIN inbox[h] /\ a < i /\ j \in DOMAIN context[q] /\ j <= a)
    BY <1>2
  <2> QED
    BY <1>5, <2>1, <2>2, <2>3, <2>4
<1> QED
  BY <1>8, <1>9, <1>10, <1>11, <1>12

-----------------------------------------------------------------------------
(* The invariant. *)

\* A run that is about to empty an inbox was so before, or has just looked up the
\* handle of its session.
LEMMA HandCases ==
    ASSUME TypeOK, RouterInv, [Next]_vars, NEW r \in Runs, turn'[r] = "drains"
    PROVE  \/ turn[r] = "drains" /\ hand'[r] = hand[r]
           \/ of[r] \in Sessions /\ handle[of[r]] # NoHandle /\ hand'[r] = handle[of[r]]
<1> DEFINE Hand == \/ turn[r] = "drains" /\ hand'[r] = hand[r]
                   \/ of[r] \in Sessions /\ handle[of[r]] # NoHandle /\ hand'[r] = handle[of[r]]
<1> USE DEF TypeOK
<1>1. ASSUME NEW q \in Runs, NEW s \in Sessions, Begin(q, s) PROVE Hand
  BY <1>1 DEF Begin
<1>2. ASSUME NEW q \in Runs, LookUp(q) PROVE Hand
  <2>1. CASE q = r
    BY <1>2, <2>1 DEF LookUp, RouterInv
  <2>2. CASE q # r
    BY <1>2, <2>2 DEF LookUp
  <2> QED
    BY <2>1, <2>2
<1>3. ASSUME NEW q \in Runs, Drain(q) PROVE Hand
  BY <1>3 DEF Drain
<1>4. ASSUME NEW q \in Runs, TurnEnds(q) PROVE Hand
  BY <1>4 DEF TurnEnds
<1>5. ASSUME UNCHANGED loop PROVE Hand
  BY <1>5 DEF loop
<1>6. \/ \E q \in Runs, s \in Sessions : Begin(q, s)
      \/ \E q \in Runs : LookUp(q) \/ Drain(q) \/ TurnEnds(q)
      \/ UNCHANGED loop
  BY StepCases DEF Register, Close, Sends, Find, Push, vars
<1> HIDE DEF TypeOK, Hand
<1>7. Hand
  BY <1>1, <1>2, <1>3, <1>4, <1>5, <1>6
<1> QED
  BY <1>7 DEF Hand

\* A quiet step keeps the order: the inbox a run looks up is none that was made
\* before one it has read from.
LEMMA QuietOrder ==
    ASSUME TypeOK, RouterInv, MailInv, PlaceInv, OrderInv, [Next]_vars, Quiet
    PROVE  OrderInv'
<1>1. /\ \A h \in Handles : \A i \in DOMAIN inbox[h] :
             inbox[h][i] \in Messages /\ at[inbox[h][i]] = "delivered"
      /\ \A r \in Runs : \A i \in DOMAIN context[r] :
             /\ context[r][i] \in Messages /\ at[context[r][i]] = "delivered"
             /\ turn[r] # "unused" /\ of'[r] = of[r]
  BY Queues, Lasting DEF PlaceInv
<1>2. ASSUME NEW h \in Handles, NEW i \in DOMAIN inbox'[h], NEW j \in DOMAIN inbox'[h],
             i < j, by'[inbox'[h][i]] = by'[inbox'[h][j]]
      PROVE  inbox'[h][i] < inbox'[h][j]
  BY <1>1, <1>2 DEF Quiet, OrderInv
<1>3. ASSUME NEW r \in Runs, NEW h \in Handles, NEW i \in DOMAIN context'[r],
             NEW j \in DOMAIN inbox'[h], via'[context'[r][i]] = h,
             by'[context'[r][i]] = by'[inbox'[h][j]]
      PROVE  context'[r][i] < inbox'[h][j]
  BY <1>1, <1>3 DEF Quiet, OrderInv
<1>4. ASSUME NEW r \in Runs, turn'[r] = "drains", NEW i \in DOMAIN context'[r]
      PROVE  via'[context'[r][i]] <= hand'[r]
  <2> DEFINE m == context[r][i]
  <2>1. context'[r][i] = m /\ i \in DOMAIN context[r] /\ m \in Messages /\ at[m] = "delivered"
        /\ via'[m] = via[m]
    BY <1>1, <1>4 DEF Quiet
  <2>2. CASE turn[r] = "drains" /\ hand'[r] = hand[r]
    BY <2>1, <2>2 DEF OrderInv
  <2>3. CASE of[r] \in Sessions /\ handle[of[r]] # NoHandle /\ hand'[r] = handle[of[r]]
    <3>1. via[m] \in 1..made /\ id[via[m]] = of[r]
      BY <2>1 DEF MailInv, PlaceInv, Found
    <3>2. via[m] <= handle[of[r]]
      BY <2>3, <3>1 DEF RouterInv
    <3> QED
      BY <2>1, <2>3, <3>2
  <2> QED
    BY <1>4, <2>2, <2>3, HandCases
<1> QED
  BY <1>2, <1>3, <1>4 DEF OrderInv

\* Every step preserves the invariant.
LEMMA IInvStep == IInv /\ [Next]_vars => IInv'
<1> SUFFICES ASSUME IInv, [Next]_vars PROVE IInv'
  OBVIOUS
<1>1. TypeOK' /\ RouterInv' /\ MailInv'
  BY TypeStep, RouterStep, MailStep DEF IInv
<1>2. PlaceInv' /\ OrderInv' /\ ReadOnce' /\ NotLost' /\ InOrder'
  <2>1. CASE Quiet
    BY <2>1, QuietStep, QuietOrder DEF IInv
  <2>2. ASSUME NEW m \in Messages, Push(m) PROVE PlaceInv' /\ OrderInv' /\ ReadOnce' /\ NotLost' /\ InOrder'
    BY <2>2, PushStep DEF IInv
  <2> QED
    BY <2>1, <2>2, QuietOrNot, PushStep, DrainStep DEF IInv
<1> QED
  BY <1>1, <1>2 DEF IInv

LEMMA Invariance == Spec => []IInv
BY InitInv, IInvStep, PTL DEF Spec

\* Only kin is read: what is in a context was addressed to the session of its run, and
\* was let through because one of the two sessions was made with the other as parent.
LEMMA KinInv == IInv => KinOnly
<1> SUFFICES ASSUME IInv, NEW r \in Runs, NEW m \in Messages, In(context[r], m) # {}
             PROVE  Kin(of[by[m]], of[r]) \/ Kin(of[r], of[by[m]])
  BY DEF KinOnly
<1>1. at[m] = "delivered" /\ to[m] = of[r]
  BY DEF In, IInv, PlaceInv
<1> QED
  BY <1>1 DEF IInv, MailInv, Found

\* Every variable has its type: the handles and runs that are named were made, and
\* every queue holds messages.
THEOREM PeerTypes == Spec => []TypeOK
BY Invariance, PTL DEF IInv

\* However many runs of one session empty its inbox, and whenever the session is
\* closed or replaced meanwhile, no message is read twice (drain_inbox), and one that
\* push_to has reported as delivered is in the inbox that was found for it, or a run
\* of its session has read it.
THEOREM MessagesAreDeliveredOnce == Spec => []DeliveredOnce
<1>1. IInv => DeliveredOnce
  BY DEF IInv, DeliveredOnce
<1> QED
  BY <1>1, Invariance, PTL

\* What one run sends is read in the order in which it was sent, even when the inbox
\* was replaced between two of its messages.
THEOREM OrderIsKept == Spec => []InOrder
BY Invariance, PTL DEF IInv

\* A run reads what a parent or a child of its session has sent, and nothing else.
THEOREM OnlyKinIsRead == Spec => []KinOnly
BY Invariance, KinInv, PTL
=============================================================================
