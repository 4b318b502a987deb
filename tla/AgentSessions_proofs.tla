------------------------- MODULE AgentSessions_proofs -------------------------
(***************************************************************************)
(* Proofs about agent sessions and their tokens, for every number of       *)
(* users, agents, delegations, sessions, tokens and overlapping requests,  *)
(* and for every choice of the lifetimes.                                  *)
(*                                                                         *)
(* A token and the session it is tied to may belong to two delegations (an *)
(* exchange reuses the newest active session of the agent), so the         *)
(* invariant bounds the session's lifetime by the revocation of the        *)
(* delegation the TOKEN names, not of the session's own.  Both belong to   *)
(* the token's agent, so that deleting the agent deletes both: a token     *)
(* whose session is gone, which agent_refresh renews without a check, is   *)
(* one whose delegation is gone.                                           *)
(***************************************************************************)
EXTENDS AgentSessions, Delegations_proofs, WellFoundedInduction

\* The rows of agent_sessions there are, and those there were.
Opened == 1 .. opened

\* The last moment at which a delegation was, or is, not revoked.
LastUnrevoked(d) == IF IsRevoked(d) THEN delegations[d].revokedAt ELSE now

\* What a request that will open a session knows of its delegation.
SoundOpening(t) ==
  t.kind \in {"verify", "bootstrap"} =>
    /\ delegations[t.id].agent = t.agent
    /\ t.perms \subseteq granted[t.id]
    /\ t.expires = now + SessionTTL
    /\ t.exp <= now + SessionTTL + RefreshTTL
    /\ IsRevoked(t.id) => delegations[t.id].revokedAt = now

SoundToken(t) ==
  /\ (t.session # Mvp /\ t.delegation = None) => t.perms = {} /\ t.session = None
  /\ (t.session # Mvp /\ t.delegation # None) =>
       /\ t.delegation \in Known
       /\ delegations[t.delegation].agent = t.agent
       /\ t.perms \subseteq granted[t.delegation]
       /\ t.delegation \in Rows =>
            t.exp <= LastUnrevoked(t.delegation) + SessionTTL + RefreshTTL
       /\ t.session # None =>
            /\ t.session \in Opened
            /\ sessions[t.session].agent = t.agent
            /\ t.delegation \in Rows => t.session \in SessionRows
            /\ sessions[t.session].expires <= LastUnrevoked(t.delegation) + SessionTTL
  /\ t.session = Mvp =>
       \/ t.perms = {}
       \/ \E d \in Known : delegations[d].agent = t.agent /\ t.perms \subseteq granted[d]

SessionTablesOK ==
  /\ sessions \in [SessionId -> Session]
  /\ opened \in 0 .. MaxSessions
  /\ tokens \subseteq Token
  /\ marker \in [SessionId -> Nat]
  /\ redisUp \in BOOLEAN

OpeningsSound == \A w \in Workers : SoundOpening(txn[w])

SessionsEndInTime == \A s \in Opened : sessions[s].expires <= now + SessionTTL

SessionsOwned ==
  \A s \in Opened :
    /\ sessions[s].delegation \in Known
    /\ delegations[sessions[s].delegation].agent = sessions[s].agent

MarkersOutliveSessions ==
  \A s \in SessionId :
    marker[s] # None => s \in Opened /\ marker[s] + 1 >= sessions[s].expires

TokensSound == \A t \in tokens : SoundToken(t)

SessionInv ==
  /\ DelegationInv
  /\ SessionTablesOK
  /\ OpeningsSound
  /\ SessionsEndInTime
  /\ SessionsOwned
  /\ MarkersOutliveSessions
  /\ TokensSound

\* The clock moves only when no request is in progress, and a request that starts
\* knows its delegation.
Disciplined ==
  /\ now' = now \/ (now' = now + 1 /\ \A w \in Workers : Free(w) /\ txn'[w] = txn[w])
  /\ \A w \in Workers : txn'[w] = txn[w] \/ SoundOpening(txn[w])'

\* What a step may do to the rows of agent_sessions, the tokens and the markers.
SessionsPersist ==
  /\ opened <= opened'
  /\ \A s \in Opened :
       /\ sessions'[s].expires = sessions[s].expires
       /\ sessions'[s].agent = sessions[s].agent
       /\ sessions'[s].delegation = sessions[s].delegation
  /\ \A s \in Opened' \ Opened :
       /\ sessions'[s].expires <= now + SessionTTL
       /\ sessions'[s].delegation \in Known
       /\ delegations[sessions'[s].delegation].agent = sessions'[s].agent
  /\ \A s \in SessionId :
       marker'[s] = marker[s] \/ (s \in Opened /\ marker'[s] + 1 >= sessions[s].expires)

----------------------------------------------------------------------------
(* Lemmas about the definitions *)

\* A set of numbers that is not empty has a least one.
LEMMA LeastNatural ==
  ASSUME NEW T, T \subseteq Nat, T # {}
  PROVE  \E x \in T : \A y \in T : x <= y
<1> DEFINE R == OpToRel(<, Nat)
<1>1. IsWellFoundedOn(R, Nat)
  BY NatLessThanWellFounded
<1>2. \A x, y \in Nat : x < y => <<x, y>> \in R
  BY DEF OpToRel
<1> HIDE DEF R
<1>3. PICK x \in T : \A y \in T : ~ (<<y, x>> \in R)
  BY <1>1, WFMin
<1>4. ASSUME NEW y \in T
      PROVE  x <= y
  <2>1. ~ (y < x)
    BY <1>2, <1>3
  <2> QED
    BY <2>1
<1> QED
  BY <1>4

\* Among ids there is a newest one: the least upper bound is one of them.
LEMMA LatestIsMember ==
  ASSUME NEW n \in Nat, NEW T, T \subseteq 1 .. n, T # {}
  PROVE  LatestOf(T) \in T
<1> DEFINE D == {k \in Nat : \A y \in T : y <= k}
<1>1. D \subseteq Nat /\ n \in D
  OBVIOUS
<1>2. PICK k \in D : \A j \in D : k <= j
  <2> HIDE DEF D
  <2> QED
    BY <1>1, LeastNatural
<1>3. k \in T
  <2>1. SUFFICES ASSUME k \notin T PROVE FALSE
    OBVIOUS
  <2>2. k \in Nat /\ k # 0
    <3>1. PICK y \in T : TRUE
      OBVIOUS
    <3> QED
      BY <3>1
  <2>3. \A y \in T : y <= k - 1
    BY <2>1, <2>2
  <2>4. k - 1 \in D
    BY <2>2, <2>3
  <2> QED
    BY <1>2, <2>2, <2>4
<1>4. \E x \in T : \A y \in T : y <= x
  BY <1>2, <1>3
<1> QED
  BY <1>4 DEF LatestOf

\* The newest row of a set of rows is one of them, if there is any.
LEMMA NewestIsMember ==
  ASSUME NEW n \in Nat, NEW T, T \subseteq 1 .. n
  PROVE  Newest(T) \in T \cup {None}
  BY LatestIsMember DEF Newest

\* A step moves the last unrevoked moment of a row forward only.
LEMMA LastUnrevokedGrows ==
  ASSUME DelegationInv, DelegationInv', RowsPersist, now <= now', NEW d \in Known
  PROVE  /\ LastUnrevoked(d) \in Nat /\ LastUnrevoked(d)' \in Nat
         /\ LastUnrevoked(d) <= LastUnrevoked(d)'
<1>1. /\ d \in DelegationId
      /\ delegations[d].revokedAt \in Nat /\ delegations'[d].revokedAt \in Nat
      /\ now \in Nat \ {0} /\ now' \in Nat
      /\ delegations[d].revokedAt <= now
      /\ delegations'[d].revokedAt \in {delegations[d].revokedAt, now}
  BY DEF DelegationInv, DelegationTypeOK, RevokedInThePast, RowsPersist, Known, Delegation
<1> QED
  BY <1>1 DEF LastUnrevoked, IsRevoked, None

\* A token that is sound stays so while rows persist and time moves forward.
LEMMA TokenStaysSound ==
  ASSUME SessionInv, DelegationInv', RowsPersist, SessionsPersist, SessionTablesOK',
         now <= now', NEW t \in Token, SoundToken(t)
  PROVE  SoundToken(t)'
<1>1. /\ SessionTTL \in Nat /\ RefreshTTL \in Nat /\ t.exp \in Nat
      /\ opened \in Nat /\ opened' \in Nat /\ opened' >= opened
      /\ \A s \in Opened : sessions[s].expires \in Nat
  BY SessionTimes, SessionBounds
     DEF Token, SessionInv, SessionTablesOK, SessionsPersist, Session, Opened, SessionId
<1>2. CASE t.session # Mvp /\ t.delegation = None
  BY <1>2 DEF SoundToken
<1>3. CASE t.session # Mvp /\ t.delegation # None
  <2> DEFINE d == t.delegation
  <2>1. /\ d \in Known
        /\ delegations[d].agent = t.agent
        /\ t.perms \subseteq granted[d]
        /\ d \in Rows => t.exp <= LastUnrevoked(d) + SessionTTL + RefreshTTL
        /\ t.session # None =>
             /\ t.session \in Opened
             /\ sessions[t.session].agent = t.agent
             /\ d \in Rows => t.session \in SessionRows
             /\ sessions[t.session].expires <= LastUnrevoked(d) + SessionTTL
    BY <1>3 DEF SoundToken
  <2>2. /\ LastUnrevoked(d) \in Nat /\ LastUnrevoked(d)' \in Nat
        /\ LastUnrevoked(d) <= LastUnrevoked(d)'
    BY <2>1, LastUnrevokedGrows DEF SessionInv
  <2>3. /\ d \in Known'
        /\ delegations'[d].agent = t.agent
        /\ t.perms \subseteq granted'[d]
        /\ d \in Rows' => d \in Rows
    BY <2>1 DEF RowsPersist, Known, Rows
  <2>4. d \in Rows' => t.exp <= LastUnrevoked(d)' + SessionTTL + RefreshTTL
    BY <1>1, <2>1, <2>2, <2>3
  <2>5. ASSUME t.session # None
        PROVE  /\ t.session \in Opened'
               /\ sessions'[t.session].agent = t.agent
               /\ d \in Rows' => t.session \in SessionRows'
               /\ sessions'[t.session].expires <= LastUnrevoked(d)' + SessionTTL
    <3>1. t.session \in Opened /\ t.session \in Opened'
      BY <1>1, <2>1, <2>5 DEF Opened
    <3>2. /\ sessions'[t.session].expires = sessions[t.session].expires
          /\ sessions'[t.session].agent = t.agent
          /\ sessions'[t.session].delegation = sessions[t.session].delegation
      BY <2>1, <2>5, <3>1 DEF SessionsPersist
    <3>3. sessions[t.session].expires <= LastUnrevoked(d) + SessionTTL
      BY <2>1, <2>5
    <3>4. ASSUME d \in Rows'
          PROVE  t.session \in SessionRows'
      <4> DEFINE e == sessions[t.session].delegation
      <4>1. d \in Rows /\ e \in Rows
        BY <2>1, <2>3, <2>5, <3>4 DEF SessionRows
      <4>2. delegations[e].agent = delegations[d].agent
        BY <2>1, <2>5, <3>1 DEF SessionInv, SessionsOwned
      <4>3. e \in Rows'
        BY <3>4, <4>1, <4>2 DEF RowsPersist, GoneTogether
      <4> QED
        BY <3>1, <3>2, <4>3 DEF SessionRows, Opened
    <3> QED
      BY <1>1, <2>2, <3>1, <3>2, <3>3, <3>4
  <2> QED
    BY <1>3, <2>3, <2>4, <2>5 DEF SoundToken
<1>4. CASE t.session = Mvp
  <2>1. CASE t.perms = {}
    BY <1>4, <2>1 DEF SoundToken, Mvp, None
  <2>2. ASSUME NEW d \in Known, delegations[d].agent = t.agent, t.perms \subseteq granted[d]
        PROVE  SoundToken(t)'
    <3>1. /\ d \in Known' /\ delegations'[d].agent = t.agent
          /\ t.perms \subseteq granted'[d]
      BY <2>2 DEF RowsPersist
    <3> QED
      BY <1>4, <3>1 DEF SoundToken
  <2> QED
    BY <1>4, <2>1, <2>2 DEF SoundToken
<1> QED
  BY <1>2, <1>3, <1>4

\* A request that is opening a session keeps what it read: the clock waits for it.
LEMMA OpeningsStaySound ==
  ASSUME SessionInv, DelegationInv', RowsPersist, Disciplined
  PROVE  OpeningsSound'
<1> SUFFICES ASSUME NEW w \in Workers
             PROVE  SoundOpening(txn[w])'
  BY DEF OpeningsSound
<1>1. CASE now' = now /\ txn'[w] = txn[w]
  <2>1. SoundOpening(txn[w]) /\ SoundRequest(txn[w])
    BY DEF SessionInv, OpeningsSound, DelegationInv, SoundRequests
  <2>2. CASE txn[w].kind \in {"verify", "bootstrap"}
    <3>1. txn[w].id \in Known
      BY <2>1, <2>2 DEF SoundRequest
    <3> QED
      BY <1>1, <2>1, <2>2, <3>1 DEF SoundOpening, RowsPersist, IsRevoked
  <2>3. CASE txn[w].kind \notin {"verify", "bootstrap"}
    BY <1>1, <2>3 DEF SoundOpening
  <2> QED
    BY <2>2, <2>3
<1>2. CASE Free(w) /\ txn'[w] = txn[w]
  BY <1>2 DEF SoundOpening, Free, Idle
<1> QED
  BY <1>1, <1>2 DEF Disciplined

\* The shape of every step: what it does to the rows, the requests, the sessions and
\* the markers is one of the changes above, and the tokens it issues are sound.
LEMMA StepPreserves ==
  ASSUME SessionInv, DelegationInv', RowsPersist, Disciplined, SessionsPersist,
         SessionTablesOK',
         \A t \in tokens' \ tokens : SoundToken(t)'
  PROVE  SessionInv'
<1>1. now \in Nat /\ now' \in Nat /\ now <= now' /\ SessionTTL \in Nat
  BY SessionTimes DEF SessionInv, DelegationInv, DelegationTypeOK, Disciplined
<1>2. /\ opened \in Nat /\ opened' \in Nat /\ opened <= opened'
      /\ Opened' \subseteq SessionId /\ Opened \subseteq Opened'
  BY SessionBounds DEF SessionInv, SessionTablesOK, SessionsPersist, Opened, SessionId
<1>3. \A s \in SessionId : sessions[s].expires \in Nat /\ sessions'[s].expires \in Nat
  BY DEF SessionInv, SessionTablesOK, Session
<1>4. OpeningsSound'
  BY OpeningsStaySound
<1>5. TokensSound'
  BY <1>1, TokenStaysSound DEF TokensSound, SessionInv, SessionTablesOK
<1>6. SessionsEndInTime'
  <2>1. ASSUME NEW s \in Opened'
        PROVE  sessions'[s].expires <= now' + SessionTTL
    <3>1. sessions'[s].expires <= now + SessionTTL
      BY <2>1 DEF SessionsPersist, SessionInv, SessionsEndInTime
    <3> QED
      BY <1>1, <1>2, <1>3, <3>1
  <2> QED
    BY <2>1 DEF SessionsEndInTime
<1>7. MarkersOutliveSessions'
  BY <1>2 DEF SessionsPersist, SessionInv, MarkersOutliveSessions
<1>8. SessionsOwned'
  BY <1>2 DEF SessionsPersist, RowsPersist, SessionInv, SessionsOwned
<1> QED
  BY <1>4, <1>5, <1>6, <1>7, <1>8 DEF SessionInv

----------------------------------------------------------------------------
(* Every step preserves the invariant *)

\* A step that starts and ends no request leaves the clock to the others.
LEMMA NothingMoves ==
  ASSUME now' = now, txn' = txn
  PROVE  Disciplined
  BY DEF Disciplined

\* No step of the delegation table alone starts to open a session.
LEMMA OwnStepDisciplined ==
  ASSUME DelegationInv, NEW before \in Nat, OwnStep(before)
  PROVE  Disciplined
<1>1. txn \in [Workers -> Txn]
  BY DEF DelegationInv, DelegationTypeOK
<1>2. ASSUME Tick
      PROVE  Disciplined
  BY <1>2 DEF Tick, Disciplined
<1>3. ASSUME NEW w \in Workers, NEW t, t.kind \notin {"verify", "bootstrap"},
             now' = now, txn' = [txn EXCEPT ![w] = t]
      PROVE  Disciplined
  BY <1>1, <1>3 DEF Disciplined, SoundOpening
<1>4. ASSUME NEW w \in Workers, NEW a \in Agents, BeginCreate(w, a)
      PROVE  Disciplined
  <2>1. now' = now /\ \E rows, old : txn' = [txn EXCEPT ![w] = Insert(rows, old)]
    BY <1>4 DEF BeginCreate, BeginUserDelegation, BeginAdminDelegation,
                BeginServiceDelegation, BeginInvite, BeginProvision, Begin
  <2> QED
    BY <1>3, <2>1 DEF Insert
<1>5. ASSUME NEW w \in Workers, NEW d \in DelegationId, BeginAccept(w, d)
      PROVE  Disciplined
  <2> DEFINE t == [kind |-> "accept", id |-> d,
                   perms |-> TemplateEffective(delegations[d].agent)]
  <2>1. now' = now /\ txn' = [txn EXCEPT ![w] = t]
    BY <1>5 DEF BeginAccept, Begin
  <2>2. t.kind \notin {"verify", "bootstrap"}
    OBVIOUS
  <2> HIDE DEF t
  <2> QED
    BY <1>3, <2>1, <2>2
<1>6. ASSUME NEW w \in Workers, NEW d \in DelegationId, NEW newPerms \in BOOLEAN,
             NEW newExpiry \in BOOLEAN, NEW ttl \in Lifetimes, NEW P \in SUBSET Permissions,
             BeginPatch(w, d, newPerms, P, newExpiry, now + ttl, before)
      PROVE  Disciplined
  <2> DEFINE narrows == newPerms /\ P # delegations[d].perms
             t == [kind |-> "patch", id |-> d, narrows |-> narrows,
                   perms |-> IF narrows THEN P ELSE {},
                   expires |-> IF newExpiry THEN now + ttl ELSE None,
                   read |-> delegations[d].perms, before |-> before]
  <2>1. now' = now /\ txn' = [txn EXCEPT ![w] = t]
    BY <1>6 DEF BeginPatch, Begin
  <2> HIDE DEF narrows
  <2>2. t.kind \notin {"verify", "bootstrap"}
    OBVIOUS
  <2> HIDE DEF t
  <2> QED
    BY <1>3, <2>1, <2>2
<1>7. ASSUME NEW w \in Workers, CommitInsert(w) \/ RejectCommit(w) \/ CommitAccept(w)
      PROVE  Disciplined
  <2>1. now' = now /\ txn' = [txn EXCEPT ![w] = Idle]
    BY <1>7 DEF CommitInsert, RejectCommit, CommitAccept, Finish
  <2>2. Idle.kind \notin {"verify", "bootstrap"}
    BY DEF Idle
  <2> QED
    BY <1>3, <2>1, <2>2
<1>8. ASSUME \/ \E u \in Users, S \in ScopeSets : ChangeScopes(u, S)
             \/ \E a \in Agents, shape \in TemplateShapes : PutTemplate(a, shape)
             \/ \E a \in Agents : DeleteTemplate(a)
             \/ \E d \in DelegationId : RevokeByUser(d) \/ RevokeByAdmin(d)
             \/ \E u \in Users : RevokeAllValid(OfUser(u))
             \/ \E a \in Agents : RevokeAllValid(OfAgent(a)) \/ DeleteAgent(a)
             \/ DisableDelegations
      PROVE  Disciplined
  <2>1. now' = now /\ txn' = txn
    BY <1>8 DEF ChangeScopes, PutTemplate, DeleteTemplate, RevokeByUser, RevokeByAdmin,
                RevokeAllValid, DeleteAgent, DisableDelegations, BulkRevoke
  <2> QED
    BY <2>1, NothingMoves
<1> QED
  BY <1>2, <1>4, <1>5, <1>6, <1>7, <1>8 DEF OwnStep

\* A step that writes neither sessions nor markers.
LEMMA SessionsUntouched ==
  ASSUME SessionInv, UNCHANGED <<sessions, opened, marker>>
  PROVE  SessionsPersist
  BY DEF SessionsPersist, Opened, SessionInv, SessionTablesOK

\* Rows that are only marked keep what they say, and a marker outlives its session.
LEMMA SessionsMarked ==
  ASSUME SessionInv, opened' = opened,
         \A s \in SessionId :
           /\ sessions'[s].expires = sessions[s].expires
           /\ sessions'[s].agent = sessions[s].agent
           /\ sessions'[s].delegation = sessions[s].delegation,
         \A s \in SessionId :
           marker'[s] = marker[s] \/ (s \in Opened /\ marker'[s] + 1 >= sessions[s].expires)
  PROVE  SessionsPersist
<1>1. Opened' = Opened /\ Opened \subseteq SessionId /\ opened \in Nat
  BY SessionBounds DEF Opened, SessionId, SessionInv, SessionTablesOK
<1> QED
  BY <1>1 DEF SessionsPersist

\* The steps of the delegation table keep the invariant of the sessions.
LEMMA OwnSessionStep ==
  ASSUME SessionInv, OwnStep(opened), UNCHANGED sessionVars
  PROVE  SessionInv'
<1>0. opened \in Nat
  BY SessionBounds DEF SessionInv, SessionTablesOK
<1>1. DelegationInv' /\ RowsPersist /\ Disciplined
  BY <1>0, OwnStepPreserves, OwnStepDisciplined DEF SessionInv
<1>2. UNCHANGED <<sessions, opened, tokens, marker, redisUp>>
  BY DEF sessionVars
<1>3. SessionsPersist /\ SessionTablesOK'
  BY <1>2, SessionsUntouched DEF SessionInv, SessionTablesOK
<1> QED
  BY <1>1, <1>2, <1>3, StepPreserves

\* A step that changes nothing.
LEMMA StutterStep ==
  ASSUME SessionInv, UNCHANGED vars
  PROVE  SessionInv'
<1>1. UNCHANGED delegationVars /\ UNCHANGED <<sessions, opened, tokens, marker, redisUp>>
  BY DEF vars, sessionVars
<1>2. DelegationInv' /\ RowsPersist /\ Disciplined
  BY <1>1, DelegationStutter, NothingMoves DEF SessionInv, delegationVars
<1>3. SessionsPersist /\ SessionTablesOK'
  BY <1>1, SessionsUntouched DEF SessionInv, SessionTablesOK
<1> QED
  BY <1>1, <1>2, <1>3, StepPreserves

\* The start of a verification or a bootstrap that found a valid delegation.
LEMMA OpeningStep ==
  ASSUME SessionInv, NEW w \in Workers, NEW a \in Agents,
         NEW kind \in {"verify", "bootstrap"}, NEW d \in OfAgent(a), IsValid(d),
         NEW ttl \in Nat, ttl <= SessionTTL + RefreshTTL,
         txn' = [txn EXCEPT ![w] = [kind |-> kind, id |-> d, agent |-> a,
                                    perms |-> delegations[d].perms,
                                    expires |-> now + SessionTTL, exp |-> now + ttl]],
         UNCHANGED <<now, scopes, templates, delegations, created, granted,
                     sessions, opened, tokens, marker, redisUp>>
  PROVE  SessionInv'
<1> DEFINE t == [kind |-> kind, id |-> d, agent |-> a, perms |-> delegations[d].perms,
                 expires |-> now + SessionTTL, exp |-> now + ttl]
<1>1. /\ d \in Rows /\ d \in DelegationId /\ delegations[d].agent = a
      /\ delegations[d].perms \in SUBSET Permissions
      /\ delegations[d].perms \subseteq granted[d]
      /\ now \in Nat /\ SessionTTL \in Nat /\ RefreshTTL \in Nat
      /\ txn \in [Workers -> Txn]
  BY SessionTimes DEF OfAgent, Rows, SessionInv, DelegationInv, DelegationTypeOK,
                      HoldsOnlyGranted, Delegation
<1>2. t \in Txn
  BY <1>1 DEF Txn, SessionTxn
<1>3. SoundRequest(t)
  BY <1>1 DEF SoundRequest, Rows, Known
<1>4. SoundOpening(t)
  BY <1>1 DEF SoundOpening, IsValid
<1>5. txn' = [txn EXCEPT ![w] = t]
  OBVIOUS
<1> HIDE DEF t
<1>6. DelegationInv' /\ RowsPersist
  BY <1>2, <1>3, <1>5, OnlyTxnChanges DEF SessionInv
<1>7. Disciplined
  <2>1. ASSUME NEW v \in Workers
        PROVE  txn'[v] = txn[v] \/ SoundOpening(txn[v])'
    <3>1. CASE v = w
      BY <1>1, <1>4, <1>5, <3>1 DEF SoundOpening, IsRevoked
    <3>2. CASE v # w
      BY <1>1, <1>5, <3>2
    <3> QED
      BY <3>1, <3>2
  <2> QED
    BY <2>1 DEF Disciplined
<1>8. SessionsPersist /\ SessionTablesOK'
  BY SessionsUntouched DEF SessionInv, SessionTablesOK
<1> QED
  BY <1>6, <1>7, <1>8, StepPreserves

\* The newest delegation that a verification finds.
LEMMA NewestUnrevokedIsRow ==
  ASSUME SessionInv, NEW a \in Agents, NewestUnrevoked(a) # None
  PROVE  NewestUnrevoked(a) \in OfAgent(a)
<1> DEFINE T == {d \in OfAgent(a) : ~IsRevoked(d)}
<1>1. T \subseteq 1 .. MaxDelegations
  BY DEF OfAgent, Rows, DelegationId
<1>2. Newest(T) \in T \cup {None}
  BY <1>1, BoundsAreNumbers, NewestIsMember
<1> QED
  BY <1>2 DEF NewestUnrevoked

\* A verification decides to open a session, or an in-memory one.
LEMMA VerifyStep ==
  ASSUME SessionInv, NEW w \in Workers, NEW a \in Agents,
         NEW requested \in DelegationId \cup {None}, BeginVerify(w, a, requested)
  PROVE  SessionInv'
<1> DEFINE d == NewestUnrevoked(a)
           t == [kind |-> "mvp", agent |-> a, requested |-> requested]
<1>1. UNCHANGED <<now, scopes, templates, delegations, created, granted,
                  sessions, opened, tokens, marker, redisUp>>
  BY DEF BeginVerify
<1>2. CASE d # None /\ IsValid(d)
  <2>1. d \in OfAgent(a)
    BY <1>2, NewestUnrevokedIsRow
  <2>2. SessionTTL \in Nat /\ SessionTTL <= SessionTTL + RefreshTTL
    BY SessionTimes
  <2>3. txn' = [txn EXCEPT ![w] = [kind |-> "verify", id |-> d, agent |-> a,
                                   perms |-> delegations[d].perms,
                                   expires |-> now + SessionTTL, exp |-> now + SessionTTL]]
    BY <1>2 DEF BeginVerify, Begin
  <2> HIDE DEF d
  <2> QED
    BY <1>1, <1>2, <2>1, <2>2, <2>3, OpeningStep
<1>3. CASE ~(d # None /\ IsValid(d))
  <2>1. txn' = [txn EXCEPT ![w] = t]
    BY <1>3 DEF BeginVerify, Begin
  <2>2. t \in Txn /\ t.kind = "mvp"
    BY DEF Txn, MvpTxn
  <2> HIDE DEF t
  <2>3. SoundRequest(t) /\ SoundOpening(t)'
    BY <2>2 DEF SoundRequest, SoundOpening
  <2>4. DelegationInv' /\ RowsPersist
    BY <1>1, <2>1, <2>2, <2>3, OnlyTxnChanges DEF SessionInv
  <2>5. Disciplined
    BY <1>1, <2>1, <2>3 DEF Disciplined, SessionInv, DelegationInv, DelegationTypeOK
  <2>6. SessionsPersist /\ SessionTablesOK'
    BY <1>1, SessionsUntouched DEF SessionInv, SessionTablesOK
  <2> QED
    BY <1>1, <2>4, <2>5, <2>6, StepPreserves
<1> QED
  BY <1>2, <1>3

\* A bootstrap decides to open a session.
LEMMA BootstrapStep ==
  ASSUME SessionInv, NEW w \in Workers, NEW a \in Agents, BeginBootstrap(w, a)
  PROVE  SessionInv'
<1> DEFINE T == {x \in OfAgent(a) : IsValid(x)}
           d == LatestOf(T)
<1>1. T \subseteq 1 .. MaxDelegations /\ T # {}
  BY DEF OfAgent, Rows, DelegationId, BeginBootstrap
<1>2. d \in T
  BY <1>1, BoundsAreNumbers, LatestIsMember
<1>3. txn' = [txn EXCEPT ![w] = [kind |-> "bootstrap", id |-> d, agent |-> a,
                                 perms |-> delegations[d].perms,
                                 expires |-> now + SessionTTL, exp |-> now + TokenTTL]]
  BY DEF BeginBootstrap, Begin
<1>4. UNCHANGED <<now, scopes, templates, delegations, created, granted,
                  sessions, opened, tokens, marker, redisUp>>
  BY DEF BeginBootstrap
<1>5. d \in OfAgent(a) /\ IsValid(d)
  BY <1>2
<1> HIDE DEF d
<1>6. TokenTTL \in Nat /\ TokenTTL <= SessionTTL + RefreshTTL
  BY SessionTimes, ShortTokens
<1>7. "bootstrap" \in {"verify", "bootstrap"}
  OBVIOUS
<1> QED
  BY <1>3, <1>4, <1>5, <1>6, <1>7, OpeningStep

\* The end of a request that opens a session, or none.
LEMMA FinishStep ==
  ASSUME SessionInv, NEW w \in Workers, Finish(w),
         UNCHANGED <<now, scopes, templates, delegations, created, granted>>
  PROVE  DelegationInv' /\ RowsPersist /\ Disciplined
<1>1. DelegationInv' /\ RowsPersist
  BY IdleIsSound, OnlyTxnChanges DEF Finish, SessionInv
<1>2. Disciplined
  BY DEF Finish, Idle, SoundOpening, Disciplined, SessionInv, DelegationInv, DelegationTypeOK
<1> QED
  BY <1>1, <1>2

\* The new session and its token carry what the request read.
LEMMA CommitSessionStep ==
  ASSUME SessionInv, NEW w \in Workers, CommitSession(w)
  PROVE  SessionInv'
<1>1. PICK r \in SessionTxn :
          /\ r = txn[w] /\ r.kind \in {"verify", "bootstrap"}
          /\ SoundRequest(r) /\ SoundOpening(r)
  BY KindOfTxn DEF CommitSession, SessionInv, DelegationInv, DelegationTypeOK, SoundRequests,
                   OpeningsSound
<1>2. PICK n \in SessionId :
        /\ n = opened + 1
        /\ n \in 0 .. MaxSessions /\ opened' = n /\ opened <= n
        /\ n \notin Opened /\ n # Mvp /\ n # None
        /\ Opened' = Opened \cup {n} /\ Opened \subseteq SessionId
  BY SessionBounds
     DEF CommitSession, SessionInv, SessionTablesOK, SessionId, Opened, Mvp, None
<1> DEFINE row == [agent |-> r.agent, delegation |-> r.id, perms |-> r.perms,
                   active |-> TRUE, expires |-> r.expires, revokedAt |-> None]
           t == [agent |-> r.agent, delegation |-> r.id, perms |-> r.perms,
                 session |-> n, exp |-> r.exp]
<1>3. DelegationInv' /\ RowsPersist /\ Disciplined
  BY FinishStep DEF CommitSession
<1>4. /\ r.id \in Rows /\ r.id \in DelegationId /\ r.id # None
      /\ r.agent \in Agents /\ r.perms \in SUBSET Permissions
      /\ r.expires \in Nat /\ r.exp \in Nat
      /\ delegations[r.id].agent = r.agent
      /\ r.perms \subseteq granted[r.id]
      /\ r.expires = now + SessionTTL /\ r.exp <= now + SessionTTL + RefreshTTL
      /\ IsRevoked(r.id) => delegations[r.id].revokedAt = now
  BY <1>1 DEF SessionTxn, CommitSession, Refused, SoundOpening, DelegationId, None
<1>5. /\ sessions' = [sessions EXCEPT ![n] = row]
      /\ tokens' = tokens \cup {t}
      /\ UNCHANGED <<now, delegations, granted, marker, redisUp>>
  BY <1>1, <1>2 DEF CommitSession, Issue
<1>6. row \in Session /\ t \in Token
  BY <1>4, <1>2 DEF Session, Token, None
<1>7. SessionTablesOK'
  <2> HIDE DEF row, t
  <2> QED
    BY <1>2, <1>5, <1>6 DEF SessionTablesOK, SessionInv
<1>8. row.expires = now + SessionTTL /\ now + SessionTTL \in Nat
  BY <1>4
<1>9. row.delegation = r.id /\ row.agent = r.agent /\ r.id \in Known
  BY <1>4 DEF Rows, Known
<1>10. SessionsPersist
  <2> HIDE DEF row
  <2> QED
    BY <1>2, <1>4, <1>5, <1>8, <1>9 DEF SessionsPersist, SessionTablesOK, SessionInv
<1>11. SoundToken(t)'
  <2>1. LastUnrevoked(r.id) = now /\ LastUnrevoked(r.id)' = now
    BY <1>4, <1>5 DEF LastUnrevoked, IsRevoked
  <2>2. /\ sessions'[n].expires = now + SessionTTL
        /\ sessions'[n].agent = r.agent /\ sessions'[n].delegation = r.id
    BY <1>2, <1>5, <1>8 DEF SessionInv, SessionTablesOK
  <2>3. r.id \in Rows' /\ r.id \in Known'
    BY <1>4, <1>5 DEF Rows, Known
  <2>4. delegations'[r.id].agent = r.agent /\ r.perms \subseteq granted'[r.id]
    BY <1>4, <1>5
  <2>5. now + SessionTTL <= now + SessionTTL
    BY <1>8
  <2>6. n \in Opened' /\ n \in SessionRows'
    BY <1>2, <2>2, <2>3 DEF SessionRows, Opened
  <2> QED
    BY <1>4, <1>2, <2>1, <2>2, <2>3, <2>4, <2>5, <2>6 DEF SoundToken
<1> HIDE DEF row, t
<1> QED
  BY <1>3, <1>5, <1>7, <1>10, <1>11, StepPreserves

\* The token of an in-memory session carries what its second read finds.
LEMMA CommitMvpStep ==
  ASSUME SessionInv, NEW w \in Workers, CommitMvp(w)
  PROVE  SessionInv'
<1> DEFINE a == txn[w].agent
           d == NewestUnrevoked(a)
           found == d # None /\ IsValid(d)
           t == [agent |-> a,
                 delegation |-> IF txn[w].requested = None /\ found THEN d
                                                                    ELSE txn[w].requested,
                 perms |-> IF found THEN delegations[d].perms ELSE {},
                 session |-> Mvp, exp |-> now + SessionTTL]
<1>1. a \in Agents /\ txn[w].requested \in DelegationId \cup {None}
  <2>1. txn[w] \in MvpTxn
    BY KindOfTxn DEF CommitMvp, SessionInv, DelegationInv, DelegationTypeOK
  <2> QED
    BY <2>1 DEF MvpTxn
<1>2. DelegationInv' /\ RowsPersist /\ Disciplined
  BY FinishStep DEF CommitMvp
<1>3. found => /\ d \in OfAgent(a) /\ d \in DelegationId
               /\ delegations[d].perms \in SUBSET Permissions
               /\ delegations[d].perms \subseteq granted[d]
  <2>1. ASSUME found
        PROVE  d \in OfAgent(a) /\ d \in DelegationId
    BY <1>1, <2>1, NewestUnrevokedIsRow DEF OfAgent, Rows
  <2> HIDE DEF d, found
  <2> QED
    BY <2>1 DEF SessionInv, DelegationInv, DelegationTypeOK, HoldsOnlyGranted, Delegation
<1>4. now + SessionTTL \in Nat
  BY SessionTimes DEF SessionInv, DelegationInv, DelegationTypeOK
<1>5. PICK token \in Token : token = t
  <2> HIDE DEF a, d, found
  <2>1. /\ (IF txn[w].requested = None /\ found THEN d ELSE txn[w].requested)
              \in DelegationId \cup {None}
        /\ (IF found THEN delegations[d].perms ELSE {}) \in SUBSET Permissions
    BY <1>1, <1>3
  <2>2. t \in Token
    BY <1>1, <1>4, <2>1 DEF Token
  <2> QED
    BY <2>2
<1>6. SoundToken(token)'
  <2>1. PICK agent, newest : agent = a /\ newest = d
    OBVIOUS
  <2>2. token.session = Mvp /\ token.agent = agent
    BY <1>5, <2>1
  <2>3. \/ token.perms = {}
        \/ /\ newest \in Known /\ delegations[newest].agent = agent
           /\ token.perms \subseteq granted[newest]
    BY <1>3, <1>5, <2>1 DEF OfAgent, Rows, Known
  <2>4. \/ token.perms = {}
        \/ /\ newest \in Known' /\ delegations'[newest].agent = agent
           /\ token.perms \subseteq granted'[newest]
    BY <1>2, <2>3 DEF RowsPersist
  <2> QED
    BY <2>2, <2>4 DEF SoundToken, None
<1>7. /\ tokens' = tokens \cup {token}
      /\ UNCHANGED <<now, sessions, opened, marker, redisUp>>
  BY <1>5 DEF CommitMvp, Issue
<1> HIDE DEF t
<1>8. SessionsPersist /\ SessionTablesOK'
  BY <1>5, <1>7, SessionsUntouched DEF SessionInv, SessionTablesOK
<1> QED
  BY <1>2, <1>6, <1>7, <1>8, StepPreserves

\* A step that only issues one sound token.
LEMMA IssueStep ==
  ASSUME SessionInv, NEW t \in Token, SoundToken(t), Issue(t),
         UNCHANGED <<delegationVars, sessions, opened, marker, redisUp>>
  PROVE  SessionInv'
<1>1. DelegationInv' /\ RowsPersist /\ Disciplined
  BY DelegationStutter, NothingMoves DEF SessionInv, delegationVars
<1>2. SessionsPersist /\ SessionTablesOK'
  BY SessionsUntouched DEF SessionInv, SessionTablesOK, Issue
<1>3. SoundToken(t)'
  BY <1>1, <1>2, TokenStaysSound DEF delegationVars, SessionInv, DelegationInv, DelegationTypeOK
<1> QED
  BY <1>1, <1>2, <1>3, StepPreserves DEF Issue

\* A discovery token carries nothing.
LEMMA DiscoveryStep ==
  ASSUME SessionInv, NEW a \in Agents, BootstrapDiscovery(a)
  PROVE  SessionInv'
<1> DEFINE t == [agent |-> a, delegation |-> None, perms |-> {}, session |-> None,
                 exp |-> now + TokenTTL]
<1>1. now + TokenTTL \in Nat
  BY SessionTimes DEF SessionInv, DelegationInv, DelegationTypeOK
<1>2. t \in Token
  BY <1>1 DEF Token
<1>3. SoundToken(t)
  BY SessionBounds DEF SoundToken, Mvp, None
<1>4. Issue(t) /\ UNCHANGED <<delegationVars, sessions, opened, marker, redisUp>>
  BY DEF BootstrapDiscovery
<1> HIDE DEF t
<1> QED
  BY <1>2, <1>3, <1>4, IssueStep

\* The exchanged token names a delegation that is valid now; the session it is tied
\* to, whosever it is, ends within SessionTTL from now.
LEMMA DelegationTokenStep ==
  ASSUME SessionInv, NEW old \in tokens, NEW d \in DelegationId, DelegationToken(old, d)
  PROVE  SessionInv'
<1> DEFINE a == old.agent
           s == SessionToReuse(a)
           t == [agent |-> a, delegation |-> d, perms |-> delegations[d].perms,
                 session |-> s, exp |-> now + TokenTTL]
<1>1. /\ d \in Rows /\ d \in Known /\ d # None
      /\ delegations[d].agent = a /\ a \in Agents
      /\ delegations[d].perms \in SUBSET Permissions
      /\ delegations[d].perms \subseteq granted[d]
      /\ LastUnrevoked(d) = now
  <2>1. d \in Rows /\ delegations[d].agent = a /\ ~IsRevoked(d)
    BY DEF DelegationToken, OfAgent, IsValid
  <2>2. old \in Token /\ d # None
    BY DEF SessionInv, SessionTablesOK, DelegationId, None
  <2>3. delegations[d] \in Delegation /\ delegations[d].perms \subseteq granted[d]
    BY DEF SessionInv, DelegationInv, DelegationTypeOK, HoldsOnlyGranted
  <2> QED
    BY <2>1, <2>2, <2>3 DEF LastUnrevoked, Delegation, Token, Rows, Known
<1>2. s # None => s \in SessionRows /\ s \in Opened /\ sessions[s].agent = a
  <2> DEFINE T == {x \in SessionRows : sessions[x].agent = a /\ sessions[x].active}
  <2>1. T \subseteq 1 .. opened /\ opened \in Nat
    BY SessionBounds DEF SessionRows, SessionInv, SessionTablesOK
  <2>2. Newest(T) \in T \cup {None}
    BY <2>1, NewestIsMember
  <2> QED
    BY <2>2 DEF SessionToReuse, SessionRows, Opened
<1>3. Opened \subseteq SessionId /\ Mvp \notin Opened /\ Mvp # None
  BY SessionBounds DEF Opened, SessionId, SessionInv, SessionTablesOK, Mvp, None
<1>4. s # None => sessions[s].expires <= now + SessionTTL
  BY <1>2 DEF SessionInv, SessionsEndInTime
<1>5. now + TokenTTL \in Nat /\ now + TokenTTL <= now + SessionTTL + RefreshTTL
  BY SessionTimes, ShortTokens DEF SessionInv, DelegationInv, DelegationTypeOK
<1>6. Issue(t) /\ UNCHANGED <<delegationVars, sessions, opened, marker, redisUp>>
  BY DEF DelegationToken
<1> HIDE DEF a, s
<1>7. t \in Token
  BY <1>1, <1>2, <1>3, <1>5 DEF Token
<1>8. SoundToken(t)
  BY <1>1, <1>2, <1>3, <1>4, <1>5 DEF SoundToken
<1> HIDE DEF t
<1> QED
  BY <1>6, <1>7, <1>8, IssueStep

\* A refresh happens before its session ends, so its token ends at most RefreshTTL
\* after the session: this is where the bound on residual authority comes from.
LEMMA RefreshStep ==
  ASSUME SessionInv, NEW old \in tokens, AgentRefresh(old)
  PROVE  SessionInv'
<1> DEFINE t == [old EXCEPT !.exp = now + RefreshTTL]
<1>1. /\ old \in Token /\ SoundToken(old)
      /\ now \in Nat /\ RefreshTTL \in Nat /\ SessionTTL \in Nat
  BY SessionTimes DEF SessionInv, DelegationInv, DelegationTypeOK, SessionTablesOK, TokensSound
<1>2. /\ t \in Token /\ t.exp = now + RefreshTTL
      /\ t.agent = old.agent /\ t.delegation = old.delegation /\ t.perms = old.perms
      /\ t.session = old.session
  BY <1>1 DEF Token
<1>3. Issue(t) /\ UNCHANGED <<delegationVars, sessions, opened, marker, redisUp>>
  BY DEF AgentRefresh
<1> HIDE DEF t
<1>4. ASSUME old.session # Mvp, old.delegation \in Rows
      PROVE  t.exp <= LastUnrevoked(old.delegation) + SessionTTL + RefreshTTL
  <2> DEFINE s == old.session
             u == LastUnrevoked(old.delegation)
  <2>1. s # None /\ old.delegation # None /\ old.delegation \in DelegationId
    BY <1>4 DEF AgentRefresh, Rows, DelegationId, None
  <2>2. /\ s \in Opened /\ s \in SessionRows
        /\ sessions[s].expires <= u + SessionTTL
    BY <1>1, <1>4, <2>1 DEF SoundToken
  <2>3. ~(now >= sessions[s].expires)
    BY <2>2 DEF AgentRefresh, SessionValid, SessionExpired
  <2>4. u \in Nat
    BY <1>1, <2>1 DEF LastUnrevoked, SessionInv, DelegationInv, DelegationTypeOK, Delegation
  <2>5. sessions[s].expires \in Nat
    <3>1. s \in SessionId
      BY <2>2, SessionBounds DEF SessionInv, SessionTablesOK, Opened, SessionId
    <3> QED
      BY <3>1 DEF SessionInv, SessionTablesOK, Session
  <2> HIDE DEF u, s
  <2>6. now + RefreshTTL <= u + SessionTTL + RefreshTTL
    BY <1>1, <2>2, <2>3, <2>4, <2>5
  <2> QED
    BY <1>2, <2>6 DEF u
<1>5. SoundToken(t)
  BY <1>1, <1>2, <1>4 DEF SoundToken
<1> QED
  BY <1>2, <1>3, <1>5, IssueStep

\* Revoking a session keeps its type, its expiry and whose it is.
LEMMA RevokedSessionType ==
  ASSUME now \in Nat, NEW row \in Session
  PROVE  \A new \in {RevokedSession(row), [row EXCEPT !.revokedAt = now]} :
           /\ new \in Session /\ new.expires = row.expires
           /\ new.agent = row.agent /\ new.delegation = row.delegation
  BY DEF RevokedSession, Session

\* What the three ways of revoking sessions have in common.
LEMMA SessionRevocations ==
  ASSUME SessionInv,
         UNCHANGED <<opened, tokens, redisUp>>,
         sessions' = [s \in SessionId |-> sessions'[s]],
         \A s \in SessionId :
           sessions'[s] \in {sessions[s], RevokedSession(sessions[s]),
                             [sessions[s] EXCEPT !.revokedAt = now]},
         marker' = marker
           \/ \E s \in Opened : \E end \in MarkerLapse(s) : marker' = [marker EXCEPT ![s] = end]
  PROVE  SessionsPersist /\ SessionTablesOK'
<1>1. /\ now \in Nat /\ MinMarkerTTL \in Nat
      /\ sessions \in [SessionId -> Session] /\ marker \in [SessionId -> Nat]
      /\ Opened \subseteq SessionId
  BY SessionTimes, SessionBounds
     DEF SessionInv, DelegationInv, DelegationTypeOK, SessionTablesOK, Opened, SessionId
<1>2. ASSUME NEW s \in SessionId
      PROVE  /\ sessions'[s] \in Session
             /\ sessions'[s].expires = sessions[s].expires
             /\ sessions'[s].agent = sessions[s].agent
             /\ sessions'[s].delegation = sessions[s].delegation
  <2> DEFINE row == sessions[s]
  <2>1. row \in Session
    BY <1>1
  <2>2. \/ sessions'[s] = row
        \/ sessions'[s] \in {RevokedSession(row), [row EXCEPT !.revokedAt = now]}
    OBVIOUS
  <2> QED
    BY <1>1, <2>1, <2>2, RevokedSessionType, Zenon
<1>3. ASSUME NEW s \in SessionId, NEW end \in MarkerLapse(s)
      PROVE  end \in Nat /\ end + 1 >= sessions[s].expires
  <2>1. sessions[s].expires \in Nat
    BY <1>1 DEF Session
  <2> QED
    BY <1>1, <2>1 DEF MarkerLapse, AtLeast
<1>4. \A s \in SessionId :
        marker'[s] = marker[s] \/ (s \in Opened /\ marker'[s] + 1 >= sessions[s].expires)
  BY <1>1, <1>3
<1>5. marker' \in [SessionId -> Nat]
  BY <1>1, <1>3
<1>6. sessions' \in [SessionId -> Session]
  BY <1>2
<1> QED
  BY <1>2, <1>4, <1>5, <1>6, SessionsMarked DEF SessionInv, SessionTablesOK

\* agent_revoke keeps the invariant.
LEMMA RevokeStep ==
  ASSUME SessionInv, NEW t \in tokens, NEW s \in SessionId, AgentRevoke(t, s)
  PROVE  SessionInv'
<1>1. DelegationInv' /\ RowsPersist /\ Disciplined
  BY DelegationStutter, NothingMoves DEF SessionInv, delegationVars, AgentRevoke
<1>2. sessions \in [SessionId -> Session] /\ tokens' = tokens
  BY DEF SessionInv, SessionTablesOK, AgentRevoke
<1>3. SessionsPersist /\ SessionTablesOK'
  BY <1>2, SessionRevocations DEF AgentRevoke, SessionRows, Opened
<1> QED
  BY <1>1, <1>2, <1>3, StepPreserves

\* The patch of a delegation and its cascade keep the invariant.
LEMMA CascadeStep ==
  ASSUME SessionInv, NEW w \in Workers, NEW last, CommitPatchAndCascade(w, last)
  PROVE  SessionInv'
<1>1. DelegationInv' /\ RowsPersist
  BY CascadingStepPreserves DEF CommitPatchAndCascade, CascadingStep, SessionInv
<1>2. Disciplined
  BY DEF CommitPatchAndCascade, CommitPatch, Finish, Idle, SoundOpening, Disciplined,
         SessionInv, DelegationInv, DelegationTypeOK
<1>3. SessionsPersist /\ SessionTablesOK'
  BY SessionRevocations DEF CommitPatchAndCascade
<1> QED
  BY <1>1, <1>2, <1>3, StepPreserves DEF CommitPatchAndCascade

\* The bulk updates keep the invariant.
LEMMA StampStep ==
  ASSUME SessionInv, NEW S, StampSessions(S),
         UNCHANGED delegationVars \/ \E D \in SUBSET Rows : BulkRevoke(D)
  PROVE  SessionInv'
<1>1. DelegationInv' /\ RowsPersist
  BY MarkStep, DelegationStutter DEF SessionInv
<1>2. Disciplined
  BY NothingMoves DEF BulkRevoke, delegationVars
<1>3. SessionsPersist /\ SessionTablesOK'
  BY SessionRevocations DEF StampSessions
<1> QED
  BY <1>1, <1>2, <1>3, StepPreserves DEF StampSessions

\* Losing and regaining Redis keeps the invariant.
LEMMA RedisStep ==
  ASSUME SessionInv, RedisFails \/ RedisRecovers
  PROVE  SessionInv'
<1>1. UNCHANGED delegationVars /\ UNCHANGED <<sessions, opened, tokens, marker>>
      /\ redisUp' \in BOOLEAN
  BY DEF RedisFails, RedisRecovers
<1>2. DelegationInv' /\ RowsPersist /\ Disciplined
  BY <1>1, DelegationStutter, NothingMoves DEF SessionInv, delegationVars
<1>3. SessionsPersist /\ SessionTablesOK'
  BY <1>1, SessionsUntouched DEF SessionInv, SessionTablesOK
<1> QED
  BY <1>1, <1>2, <1>3, StepPreserves

\* Every step that touches the sessions keeps the invariant.
LEMMA SessionStepPreserves ==
  ASSUME SessionInv, SessionStep
  PROVE  SessionInv'
<1>1. \A a \in Agents : OfAgent(a) \in SUBSET Rows
  BY DEF OfAgent
<1>2. ASSUME NEW a \in Agents, SuspendAgent(a)
      PROVE  SessionInv'
  BY <1>1, <1>2, StampStep DEF SuspendAgent
<1>3. ASSUME EmergencySuspendAll \/ EmergencyLockdown
      PROVE  SessionInv'
  BY <1>3, StampStep DEF EmergencySuspendAll, EmergencyLockdown
<1>4. ASSUME NEW w \in Workers, NEW a \in Agents,
             \/ \E requested \in DelegationId \cup {None} : BeginVerify(w, a, requested)
             \/ BeginBootstrap(w, a)
      PROVE  SessionInv'
  BY <1>4, VerifyStep, BootstrapStep
<1>5. ASSUME NEW w \in Workers,
             \/ CommitSession(w) \/ CommitMvp(w)
             \/ \E last : CommitPatchAndCascade(w, last)
      PROVE  SessionInv'
  BY <1>5, CommitSessionStep, CommitMvpStep, CascadeStep
<1>6. ASSUME NEW t \in tokens,
             \/ AgentRefresh(t)
             \/ \E d \in DelegationId : DelegationToken(t, d)
             \/ \E s \in SessionId : AgentRevoke(t, s)
      PROVE  SessionInv'
  BY <1>6, RefreshStep, DelegationTokenStep, RevokeStep
<1> QED
  BY <1>2, <1>3, <1>4, <1>5, <1>6, DiscoveryStep, RedisStep DEF SessionStep

\* The invariant holds before anybody has a session.
LEMMA SessionsInitially ==
  ASSUME Init
  PROVE  SessionInv
<1>1. DelegationInv
  BY DelegationInitially DEF Init
<1>2. SessionTablesOK
  <2>1. NoSession \in Session
    BY SomebodyExists DEF NoSession, Session, None
  <2> QED
    BY <2>1, SessionBounds DEF Init, SessionTablesOK, None
<1>3. OpeningsSound
  BY DEF Init, DelegationInit, OpeningsSound, SoundOpening, Idle
<1>4. Opened = {}
  BY DEF Init, Opened
<1> QED
  BY <1>1, <1>2, <1>3, <1>4
     DEF Init, SessionInv, SessionsEndInTime, SessionsOwned, MarkersOutliveSessions, TokensSound

----------------------------------------------------------------------------
(* A session comes to hold more than its delegation only where requests overlap *)

\* The step ends a request that could not know of what made session s exceed.
Unknowing(s) ==
  \E w \in Workers :
    Ending(w) /\ CouldNotKnow(w, s) /\ txn[w].id = sessions'[s].delegation

OvertakenExceed == \A s \in SessionId : (Exceeds(s)' /\ ~Exceeds(s)) => Unknowing(s)

\* A session that keeps its permissions stays within a row from which nothing is taken.
LEMMA StaysWithin ==
  ASSUME SessionInv, RowsPersist, NEW s \in Opened, Exceeds(s)',
         sessions'[s].perms = sessions[s].perms,
         sessions'[s].delegation = sessions[s].delegation,
         sessions[s].active,
         delegations[sessions[s].delegation].perms
           \subseteq delegations'[sessions[s].delegation].perms
  PROVE  Exceeds(s)
<1>1. /\ s \in SessionRows'
      /\ ~(sessions[s].perms \subseteq delegations'[sessions[s].delegation].perms)
  BY DEF Exceeds
<1>2. sessions[s].delegation \in Known /\ sessions[s].delegation \in Rows'
  BY <1>1 DEF SessionInv, SessionsOwned, SessionRows
<1>3. s \in SessionRows
  BY <1>2 DEF SessionRows, Opened, RowsPersist, Rows, Known
<1> QED
  BY <1>1, <1>3 DEF Exceeds

\* A step that leaves the delegations' permissions alone, and of the sessions changes the
\* marks of revocation only.
LEMMA MarksExceedNothing ==
  ASSUME SessionInv, RowsPersist, opened' = opened,
         \A d \in Known : delegations'[d].perms = delegations[d].perms,
         \A s \in SessionId :
           sessions'[s] \in {sessions[s], RevokedSession(sessions[s]),
                             [sessions[s] EXCEPT !.revokedAt = now]}
  PROVE  OvertakenExceed
<1> SUFFICES ASSUME NEW s \in SessionId, Exceeds(s)'
             PROVE  Exceeds(s)
  BY DEF OvertakenExceed
<1>1. s \in Opened /\ sessions'[s].active
  BY DEF Exceeds, SessionRows, Opened
<1>2. sessions[s] \in Session
  BY DEF SessionInv, SessionTablesOK
<1>3. /\ sessions'[s].perms = sessions[s].perms
      /\ sessions'[s].delegation = sessions[s].delegation
      /\ sessions[s].active
  BY <1>1, <1>2 DEF RevokedSession, Session
<1>4. delegations'[sessions[s].delegation].perms = delegations[sessions[s].delegation].perms
  BY <1>1 DEF SessionInv, SessionsOwned
<1> QED
  BY <1>1, <1>3, <1>4, StaysWithin

\* A new session is opened with what its delegation held when it was read.
LEMMA CommitSessionExceeds ==
  ASSUME SessionInv, NEW w \in Workers, CommitSession(w)
  PROVE  OvertakenExceed
<1>1. /\ sessions \in [SessionId -> Session] /\ opened \in Nat
      /\ opened + 1 \in SessionId
  BY SessionBounds DEF SessionInv, SessionTablesOK, CommitSession, SessionId
<1>2. /\ UNCHANGED delegations /\ opened' = opened + 1
      /\ txn[w].kind \in {"verify", "bootstrap"} /\ Finish(w)
      /\ sessions' =
           [sessions EXCEPT ![opened + 1] =
              [agent |-> txn[w].agent, delegation |-> txn[w].id, perms |-> txn[w].perms,
               active |-> TRUE, expires |-> txn[w].expires, revokedAt |-> None]]
  BY DEF CommitSession
<1> SUFFICES ASSUME NEW s \in SessionId, Exceeds(s)', ~Exceeds(s)
             PROVE  Unknowing(s)
  BY DEF OvertakenExceed
<1>3. CASE s = opened + 1
  <2>1. /\ sessions'[s].perms = txn[w].perms
        /\ sessions'[s].delegation = txn[w].id
    BY <1>1, <1>2, <1>3
  <2>2. delegations[txn[w].id].perms # txn[w].perms
    BY <1>2, <2>1 DEF Exceeds
  <2>3. Ending(w)
    BY <1>2, CommitsEnd DEF SessionInv
  <2> QED
    BY <1>2, <2>1, <2>2, <2>3 DEF Unknowing, CouldNotKnow
<1>4. CASE s # opened + 1
  <2>1. sessions'[s] = sessions[s] /\ s \in 1 .. opened
    BY <1>1, <1>2, <1>4 DEF Exceeds, SessionRows
  <2>2. Exceeds(s)
    BY <1>2, <2>1 DEF Exceeds, SessionRows, Rows
  <2> QED
    BY <2>2
<1> QED
  BY <1>3, <1>4

\* A patch ends the active sessions of the row it takes permissions from, but those that
\* it did not select.
LEMMA CascadeExceeds ==
  ASSUME SessionInv, NEW w \in Workers, NEW last \in txn[w].before .. opened,
         CommitPatchAndCascade(w, last)
  PROVE  OvertakenExceed
<1>1. RowsPersist /\ opened' = opened
  BY CascadingStepPreserves DEF CommitPatchAndCascade, CascadingStep, SessionInv
<1>2. txn[w] \in PatchTxn /\ txn[w].kind = "patch" /\ Finish(w)
  BY KindOfTxn DEF CommitPatchAndCascade, CommitPatch, SessionInv, DelegationInv,
                   DelegationTypeOK
<1>3. txn[w].before \in Nat /\ opened \in Nat /\ last \in Nat /\ txn[w].before <= last
  BY <1>2, SessionBounds DEF PatchTxn, SessionInv, SessionTablesOK
<1> SUFFICES ASSUME NEW s \in SessionId, Exceeds(s)', ~Exceeds(s)
             PROVE  Unknowing(s)
  BY DEF OvertakenExceed
<1>4. s \in Opened /\ sessions'[s].active
  BY <1>1 DEF Exceeds, SessionRows, Opened
<1>5. sessions[s] \in Session /\ s \in Nat
  BY DEF SessionInv, SessionTablesOK, SessionId
<1>6. /\ sessions'[s].perms = sessions[s].perms
      /\ sessions'[s].delegation = sessions[s].delegation
      /\ sessions[s].active
      /\ s <= last => sessions[s].delegation # txn[w].id
  BY <1>4, <1>5 DEF CommitPatchAndCascade, RevokedSession, Session
<1>7. CASE sessions[s].delegation # txn[w].id
  <2>1. sessions[s].delegation \in DelegationId
    BY <1>4 DEF SessionInv, SessionsOwned, Known
  <2>2. delegations'[sessions[s].delegation].perms = delegations[sessions[s].delegation].perms
    BY <1>7, <2>1, PatchedPerms DEF CommitPatchAndCascade, SessionInv
  <2> QED
    BY <1>1, <1>4, <1>6, <2>2, StaysWithin
<1>8. CASE sessions[s].delegation = txn[w].id
  <2>1. txn[w].before < s
    BY <1>3, <1>5, <1>6, <1>8
  <2>2. Ending(w)
    BY <1>2, CommitsEnd DEF SessionInv
  <2> QED
    BY <1>2, <1>6, <1>8, <2>1, <2>2 DEF Unknowing, CouldNotKnow
<1> QED
  BY <1>7, <1>8

\* The steps of the delegation table take nothing from a session, but a late acceptance.
LEMMA OwnStepExceeds ==
  ASSUME SessionInv, OwnStep(opened), UNCHANGED sessionVars
  PROVE  OvertakenExceed
<1> SUFFICES ASSUME NEW s \in SessionId, Exceeds(s)', ~Exceeds(s)
             PROVE  Unknowing(s)
  BY DEF OvertakenExceed
<1>1. opened \in Nat /\ UNCHANGED <<sessions, opened>>
  BY SessionBounds DEF SessionInv, SessionTablesOK, sessionVars
<1>2. s \in Opened /\ sessions[s].active
  BY <1>1 DEF Exceeds, SessionRows, Opened
<1>3. sessions[s].delegation \in Known
  BY <1>2 DEF SessionInv, SessionsOwned
<1>4. RowsPersist
  BY <1>1, OwnStepPreserves DEF SessionInv
<1>5. ~(delegations[sessions[s].delegation].perms
          \subseteq delegations'[sessions[s].delegation].perms)
  BY <1>1, <1>2, <1>4, StaysWithin
<1>6. PICK w \in Workers :
        Ending(w) /\ txn[w].kind = "accept" /\ Overtaken(txn[w])
          /\ txn[w].id = sessions[s].delegation
  BY <1>1, <1>3, <1>5, OwnStepTakesNothing DEF SessionInv
<1> QED
  BY <1>1, <1>6 DEF Unknowing, CouldNotKnow

\* Every step of the sessions lets one exceed its delegation only unknowingly.
LEMMA SessionStepExceeds ==
  ASSUME SessionInv, SessionStep
  PROVE  OvertakenExceed
<1>1. ASSUME NEW S, StampSessions(S),
             UNCHANGED delegationVars \/ \E D \in SUBSET Rows : BulkRevoke(D)
      PROVE  OvertakenExceed
  <2>1. RowsPersist
    BY <1>1, MarkStep, DelegationStutter DEF SessionInv
  <2>2. \A d \in Known : delegations'[d].perms = delegations[d].perms
    BY <1>1, RevocationsAreQuiet DEF Quiet, delegationVars, SessionInv
  <2>3. opened' = opened /\ \A s \in SessionId :
          sessions'[s] \in {sessions[s], [sessions[s] EXCEPT !.revokedAt = now]}
    BY <1>1 DEF StampSessions
  <2> QED
    BY <2>1, <2>2, <2>3, MarksExceedNothing
<1>2. ASSUME NEW t \in tokens, NEW s \in SessionId, AgentRevoke(t, s)
      PROVE  OvertakenExceed
  <2>1. RowsPersist /\ UNCHANGED <<delegations, opened>>
    BY <1>2, DelegationStutter DEF AgentRevoke, delegationVars, SessionInv
  <2>2. \A x \in SessionId : sessions'[x] \in {sessions[x], RevokedSession(sessions[x])}
    BY <1>2 DEF AgentRevoke, SessionInv, SessionTablesOK
  <2> QED
    BY <2>1, <2>2, MarksExceedNothing
<1>3. ASSUME UNCHANGED <<delegations, sessions, opened>>
      PROVE  OvertakenExceed
  BY <1>3 DEF OvertakenExceed, Exceeds, SessionRows, Rows
<1>4. ASSUME NEW a \in Agents,
             \/ BootstrapDiscovery(a)
             \/ \E w \in Workers :
                  \/ \E requested \in DelegationId \cup {None} : BeginVerify(w, a, requested)
                  \/ BeginBootstrap(w, a)
      PROVE  UNCHANGED <<delegations, sessions, opened>>
  BY <1>4 DEF BootstrapDiscovery, BeginVerify, BeginBootstrap, delegationVars
<1>5. ASSUME NEW t \in tokens,
             AgentRefresh(t) \/ \E d \in DelegationId : DelegationToken(t, d)
      PROVE  UNCHANGED <<delegations, sessions, opened>>
  BY <1>5 DEF AgentRefresh, DelegationToken, delegationVars
<1>6. ASSUME \/ RedisFails \/ RedisRecovers \/ \E w \in Workers : CommitMvp(w)
      PROVE  UNCHANGED <<delegations, sessions, opened>>
  BY <1>6 DEF RedisFails, RedisRecovers, CommitMvp, delegationVars
<1>7. ASSUME NEW a \in Agents, SuspendAgent(a)
      PROVE  OvertakenExceed
  <2>1. OfAgent(a) \in SUBSET Rows
    BY DEF OfAgent
  <2> QED
    BY <1>1, <1>7, <2>1 DEF SuspendAgent
<1>8. CASE EmergencySuspendAll \/ EmergencyLockdown
  BY <1>1, <1>8 DEF EmergencySuspendAll, EmergencyLockdown
<1> QED
  BY <1>2, <1>3, <1>4, <1>5, <1>6, <1>7, <1>8, CommitSessionExceeds, CascadeExceeds
     DEF SessionStep

----------------------------------------------------------------------------
(* Theorems *)

\* The inductive invariant of the sessions holds in every reachable state.
THEOREM SessionInvariance == Spec => []SessionInv
<1>1. Init => SessionInv
  BY SessionsInitially
<1>2. SessionInv /\ [Next]_vars => SessionInv'
  BY OwnSessionStep, SessionStepPreserves, StutterStep DEF Next
<1> QED
  BY <1>1, <1>2, PTL DEF Spec

\* Rows, tokens and markers keep their types.
THEOREM SessionTypes == Spec => []SessionTypeOK
<1>1. SessionInv => SessionTypeOK
  BY DEF SessionInv, DelegationInv, SessionTablesOK, SessionTypeOK
<1> QED
  BY <1>1, SessionInvariance, PTL

\* However tokens are issued, exchanged and refreshed, and however requests overlap,
\* a token conveys only what a delegation granted to the token's own agent.
THEOREM TokensAttenuate == Spec => []TokenAttenuation
<1>1. SessionInv => TokenAttenuation
  BY DEF SessionInv, TokensSound, SoundToken, TokenAttenuation, Known
<1> QED
  BY <1>1, SessionInvariance, PTL

\* What bootstrap and exchange hand out for an invitation that waits conveys nothing:
\* it has been granted nothing, and a token holds what its delegation was granted.
THEOREM InvitationsConveyNothing == Spec => []InvitationConveysNothing
<1>1. SessionInv => InvitationConveysNothing
  <2> SUFFICES ASSUME SessionInv, NEW t \in tokens, t.delegation # None, t.session # Mvp,
                      delegations[t.delegation].status = "pending"
               PROVE  t.perms = {}
    BY DEF InvitationConveysNothing
  <2>1. t.delegation \in DelegationId /\ t.perms \subseteq granted[t.delegation]
    BY DEF SessionInv, TokensSound, SoundToken, Known
  <2> QED
    BY <2>1 DEF SessionInv, DelegationInv, InvitationsGrantNothing
<1> QED
  BY <1>1, SessionInvariance, PTL

\* What a revoked delegation leaves behind ends within SessionTTL + RefreshTTL of
\* the revocation, for all values of the lifetimes.
THEOREM ResidualAuthority == Spec => []ResidualAuthorityBounded
<1>1. SessionInv => ResidualAuthorityBounded
  BY DEF SessionInv, TokensSound, SoundToken, LastUnrevoked, ResidualAuthorityBounded,
         Rows, DelegationId, None
<1> QED
  BY <1>1, SessionInvariance, PTL

\* The marker of a revoked session lasts until the session's last tick, part of which
\* the rounding of its lifetime may cost: until then the gateway rejects the session's
\* tokens.
THEOREM RevokedSessionsRejected == Spec => []RevokedSessionTokensRejected
<1>1. SessionInv => RevokedSessionTokensRejected
  <2> SUFFICES ASSUME SessionInv, NEW t \in tokens, t.session \in SessionId,
                      marker[t.session] # None,
                      now + 1 < sessions[t.session].expires
               PROVE  ~Admitted(t)
    BY DEF RevokedSessionTokensRejected
  <2>1. /\ marker[t.session] \in Nat /\ now \in Nat /\ sessions[t.session].expires \in Nat
        /\ marker[t.session] + 1 >= sessions[t.session].expires
    BY DEF SessionInv, DelegationInv, DelegationTypeOK, SessionTablesOK, Session,
           MarkersOutliveSessions
  <2>2. MarkerLive(t.session) /\ t.session # None
    BY <2>1 DEF MarkerLive, SessionId, None
  <2> QED
    BY <2>2 DEF Admitted
<1> QED
  BY <1>1, SessionInvariance, PTL

\* However requests overlap, a patch leaves no active session behind that holds more than
\* its delegation, and nothing opens one, but in a step that ends a request which could
\* not know of the other.
THEOREM ExceedUnknowingly == Spec => OnlyOvertakenExceed
<1>1. SessionInv /\ [Next]_vars => [OvertakenExceed]_vars
  BY SessionStepExceeds, OwnStepExceeds DEF Next
<1>2. [OvertakenExceed]_vars =>
        [\A s \in SessionId :
           (Exceeds(s)' /\ ~Exceeds(s)) =>
             \E w \in Workers :
               /\ Ending(w) /\ CouldNotKnow(w, s)
               /\ txn[w].id = sessions'[s].delegation]_vars
  BY DEF OvertakenExceed, Unknowing
<1> QED
  BY <1>1, <1>2, SessionInvariance, PTL DEF Spec, OnlyOvertakenExceed

\* No agent that had delegations was deleted.
NoRowsDeleted == \A d \in DelegationId : delegations[d].status # "deleted"

\* Every token of a session of the table has its row.
TokensHaveRows == \A t \in tokens : t.session \in SessionId => t.session \in SessionRows

\* As long as no agent is deleted, a token of the table's sessions is issued, and renewed,
\* only while its session's row exists.  The run sessions_deleted shows that the deletion
\* is what lets agent_refresh renew a token without a row to check.
THEOREM TokensHaveSession == Spec /\ []NoRowsDeleted => IssuedTokensHaveSession
<1>1. SessionInv /\ NoRowsDeleted => TokensHaveRows
  <2> SUFFICES ASSUME SessionInv, NoRowsDeleted, NEW t \in tokens, t.session \in SessionId
               PROVE  t.session \in SessionRows
    BY DEF TokensHaveRows
  <2>1. t.session # None /\ t.session # Mvp
    BY SessionBounds DEF SessionId, None, Mvp
  <2>2. t.delegation \in Known /\ (t.delegation \in Rows => t.session \in SessionRows)
    BY <2>1 DEF SessionInv, TokensSound, SoundToken
  <2>3. Known \subseteq Rows
    BY DEF SessionInv, DelegationInv, RowsAreNumbered, NoRowsDeleted, Known, Rows
  <2> QED
    BY <2>2, <2>3
<1>2. TokensHaveRows' =>
        [\A t \in tokens' \ tokens : t.session \in SessionId => t.session \in SessionRows']_vars
  BY DEF TokensHaveRows
<1> QED
  BY <1>1, <1>2, SessionInvariance, PTL DEF IssuedTokensHaveSession
=============================================================================
