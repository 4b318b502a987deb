-------------------------- MODULE Delegations_proofs --------------------------
(***************************************************************************)
(* Proofs about the delegation table, for every number of users, agents,   *)
(* permissions, rows and overlapping requests.                             *)
(*                                                                         *)
(* The inductive invariant adds to HoldsOnlyGranted what a request in      *)
(* progress knows of the rows it will write: they were inserted, though    *)
(* they may be deleted by now, and a patch that is about to write          *)
(* permissions writes granted ones only.  An invitation that waits holds   *)
(* nothing, in the table and in the requests that will insert one.         *)
(*                                                                         *)
(* What a request read may be outdated when it commits.  So the two last   *)
(* theorems do not say that it is not: one says that only an outdated      *)
(* request widens a delegation, the other counts the invitations that      *)
(* several requests at once can send, each having seen none.               *)
(***************************************************************************)
EXTENDS Delegations, FiniteSetTheorems, TLAPS

\* The rows there are, and the rows there were.
Known == {d \in DelegationId : delegations[d].status # "absent"}

RowsAreNumbered == \A d \in Known : d <= created

\* An invitation that waits has been granted nothing yet.
InvitationsGrantNothing ==
  \A d \in DelegationId : delegations[d].status = "pending" => granted[d] = {}

RevokedInThePast == \A d \in Known : delegations[d].revokedAt <= now

SoundRequest(t) ==
  /\ t.kind = "insert" =>
       /\ t.replaces \in Known \cup {None}
       /\ \A i \in DOMAIN t.rows :
            /\ t.rows[i].revokedAt = None
            /\ t.rows[i].status = "pending" => t.rows[i].perms = {}
  /\ t.kind \in {"patch", "accept", "verify", "bootstrap"} => t.id \in Known
  /\ (t.kind = "patch" /\ t.narrows) => t.perms \subseteq granted[t.id]

SoundRequests == \A w \in Workers : SoundRequest(txn[w])

DelegationInv ==
  /\ DelegationTypeOK
  /\ RowsAreNumbered
  /\ RevokedInThePast
  /\ InvitationsGrantNothing
  /\ SoundRequests
  /\ HoldsOnlyGranted

\* The rows of one agent are deleted together.
GoneTogether ==
  \A d, e \in Rows :
    (delegations[d].agent = delegations[e].agent /\ d \in Rows') => e \in Rows'

\* What every step leaves of the rows that were inserted.
RowsPersist ==
  /\ Known \subseteq Known'
  /\ \A d \in Known :
       /\ delegations'[d].agent = delegations[d].agent
       /\ granted[d] \subseteq granted'[d]
       /\ delegations'[d].revokedAt \in {delegations[d].revokedAt, now}
       /\ delegations[d].status = "deleted" => delegations'[d].status = "deleted"
  /\ GoneTogether

----------------------------------------------------------------------------
(* Lemmas about the definitions *)

\* A request's kind tells which fields it has.
LEMMA KindOfTxn ==
  ASSUME NEW t \in Txn
  PROVE  /\ t.kind = "insert" => t \in InsertTxn
         /\ t.kind = "patch" => t \in PatchTxn
         /\ t.kind = "accept" => t \in AcceptTxn
         /\ t.kind \in {"verify", "bootstrap"} => t \in SessionTxn
         /\ t.kind = "mvp" => t \in MvpTxn
  BY DEF Txn, Idle, InsertTxn, PatchTxn, AcceptTxn, SessionTxn, MvpTxn

\* A row that a request builds has the type of the table, and is not revoked.
LEMMA NewRowType ==
  ASSUME DelegationTypeOK, NEW u \in Users, NEW a \in Agents, NEW P \in SUBSET Permissions,
         NEW ttl \in Nat, NEW status \in Status, NEW fromTemplate \in BOOLEAN
  PROVE  /\ NewRow(u, a, P, ttl, status, fromTemplate) \in Delegation
         /\ NewRow(u, a, P, ttl, status, fromTemplate).revokedAt = None
  BY DEF DelegationTypeOK, NewRow, Delegation, None

\* What a template allows is a set of permissions.
LEMMA EffectiveType ==
  ASSUME DelegationTypeOK, NEW a \in Agents
  PROVE  TemplateEffective(a) \in SUBSET Permissions
  BY DEF DelegationTypeOK, Template, TemplateEffective

\* Revoking a row changes its marks and nothing else.
LEMMA RevokedRowMarks ==
  ASSUME now \in Nat, NEW row \in Delegation, row.status # "absent"
  PROVE  /\ RevokedRow(row) \in Delegation
         /\ RevokedRow(row).agent = row.agent
         /\ RevokedRow(row).perms = row.perms
         /\ RevokedRow(row).status = "revoked"
         /\ RevokedRow(row).revokedAt = now
  BY DEF RevokedRow, Delegation, Status

\* Starting, or ending, a request that knows its rows.
LEMMA OnlyTxnChanges ==
  ASSUME DelegationInv, NEW w \in Workers, NEW t \in Txn, SoundRequest(t),
         txn' = [txn EXCEPT ![w] = t],
         UNCHANGED <<now, scopes, templates, delegations, created, granted>>
  PROVE  DelegationInv' /\ RowsPersist
<1>1. DelegationTypeOK'
  BY DEF DelegationInv, DelegationTypeOK
<1>2. SoundRequests'
  <2>1. ASSUME NEW v \in Workers
        PROVE  SoundRequest(txn[v])' 
    <3>1. txn'[v] = IF v = w THEN t ELSE txn[v]
      BY DEF DelegationInv, DelegationTypeOK
    <3> QED
      BY <3>1 DEF DelegationInv, SoundRequests, SoundRequest, Known
  <2> QED
    BY <2>1 DEF SoundRequests
<1>3. /\ RowsAreNumbered' /\ RevokedInThePast' /\ InvitationsGrantNothing'
      /\ HoldsOnlyGranted' /\ RowsPersist
  BY DEF DelegationInv, RowsAreNumbered, RevokedInThePast, InvitationsGrantNothing,
         HoldsOnlyGranted, RowsPersist, GoneTogether, Known, Rows
<1> QED
  BY <1>1, <1>2, <1>3 DEF DelegationInv

\* A request that has ended is sound.
LEMMA IdleIsSound == Idle \in Txn /\ SoundRequest(Idle)
  BY DEF Idle, Txn, SoundRequest

\* A step that keeps the rows keeps what the requests know, one of which may end.
LEMMA RequestsStaySound ==
  ASSUME DelegationTypeOK, SoundRequests, RowsPersist,
         txn' = txn \/ \E w \in Workers : Finish(w)
  PROVE  SoundRequests' /\ txn' \in [Workers -> Txn]
<1>1. txn' \in [Workers -> Txn] /\ \A v \in Workers : txn'[v] \in {txn[v], Idle}
  BY IdleIsSound DEF DelegationTypeOK, Finish
<1>2. ASSUME NEW v \in Workers
      PROVE  SoundRequest(txn[v])'
  <2>1. CASE txn'[v] = Idle
    BY <2>1 DEF SoundRequest, Idle
  <2>2. CASE txn'[v] = txn[v]
    BY <2>2 DEF SoundRequests, SoundRequest, RowsPersist
  <2> QED
    BY <1>1, <2>1, <2>2
<1> QED
  BY <1>1, <1>2 DEF SoundRequests

\* Steps that change, of each row, at most the template link, a status that stays
\* other than "absent" or stays "deleted" and does not become "pending", and the time of
\* revocation.
LEMMA OnlyMarksChange ==
  ASSUME DelegationInv,
         delegations' \in [DelegationId -> Delegation],
         templates' \in [Agents -> Template],
         UNCHANGED <<now, scopes, created, granted, txn>>,
         \A d \in DelegationId :
           /\ delegations'[d].agent = delegations[d].agent
           /\ delegations'[d].perms = delegations[d].perms
           /\ delegations'[d].status = "absent" <=> delegations[d].status = "absent"
           /\ delegations[d].status = "deleted" => delegations'[d].status = "deleted"
           /\ delegations'[d].status = "pending" => delegations[d].status = "pending"
           /\ delegations'[d].revokedAt \in {delegations[d].revokedAt, now},
         GoneTogether
  PROVE  DelegationInv' /\ RowsPersist
<1>1. Known' = Known
  BY DEF Known
<1>2. RowsPersist
  BY <1>1 DEF RowsPersist, Known
<1>3. SoundRequests'
  BY <1>2, RequestsStaySound DEF DelegationInv
<1>4. DelegationTypeOK'
  BY DEF DelegationInv, DelegationTypeOK
<1>5. RowsAreNumbered' /\ HoldsOnlyGranted' /\ InvitationsGrantNothing'
  BY <1>1 DEF DelegationInv, RowsAreNumbered, HoldsOnlyGranted, InvitationsGrantNothing
<1>6. RevokedInThePast'
  BY <1>1 DEF DelegationInv, RevokedInThePast, Known, DelegationTypeOK
<1> QED
  BY <1>3, <1>4, <1>5, <1>6, <1>2 DEF DelegationInv

----------------------------------------------------------------------------
(* Every step of the table preserves the invariant *)

\* A request for new rows knows no row it could be wrong about, except the one it
\* replaces.
LEMMA InsertRequest ==
  ASSUME DelegationInv, NEW w \in Workers,
         NEW rows \in Seq(Delegation),
         \A i \in DOMAIN rows :
           rows[i].revokedAt = None /\ (rows[i].status = "pending" => rows[i].perms = {}),
         NEW old \in Known \cup {None},
         Begin(w, Insert(rows, old)),
         UNCHANGED <<now, scopes, templates, delegations, created, granted>>
  PROVE  DelegationInv' /\ RowsPersist
<1> DEFINE t == Insert(rows, old)
<1>1. t \in Txn
  BY DEF Insert, Txn, InsertTxn, Known
<1>2. SoundRequest(t)
  BY DEF SoundRequest, Insert
<1>3. txn' = [txn EXCEPT ![w] = t]
  BY DEF Begin
<1> QED
  BY <1>1, <1>2, <1>3, OnlyTxnChanges

\* A request that decides to insert one row.
LEMMA InsertOneRequest ==
  ASSUME DelegationInv, NEW w \in Workers,
         NEW u \in Users, NEW a \in Agents, NEW P \in SUBSET Permissions, NEW ttl \in Nat,
         NEW fromTemplate \in BOOLEAN, NEW old \in Known \cup {None},
         Begin(w, Insert(<<NewRow(u, a, P, ttl, "active", fromTemplate)>>, old)),
         UNCHANGED <<now, scopes, templates, delegations, created, granted>>
  PROVE  DelegationInv' /\ RowsPersist
<1> DEFINE row == NewRow(u, a, P, ttl, "active", fromTemplate)
<1>1. row \in Delegation /\ row.revokedAt = None /\ row.status = "active"
  <2>1. "active" \in Status
    BY DEF Status
  <2>2. row.status = "active"
    BY DEF NewRow
  <2> QED
    BY <2>1, <2>2, NewRowType DEF DelegationInv
<1> HIDE DEF row
<1>2. /\ <<row>> \in Seq(Delegation)
      /\ \A i \in DOMAIN <<row>> :
           <<row>>[i].revokedAt = None /\ (<<row>>[i].status = "pending" => <<row>>[i].perms = {})
  BY <1>1
<1> QED
  BY <1>2, InsertRequest DEF row

\* Every way of asking for a new delegation keeps the invariant.
LEMMA CreateStep ==
  ASSUME DelegationInv, NEW w \in Workers, NEW a \in Agents, BeginCreate(w, a)
  PROVE  DelegationInv' /\ RowsPersist
<1>1. ASSUME NEW u \in Users, NEW P \in SUBSET Permissions, NEW ttl \in Lifetimes,
             BeginUserDelegation(w, u, a, P, ttl) \/ BeginAdminDelegation(w, u, a, P, ttl)
      PROVE  DelegationInv' /\ RowsPersist
  <2>1. /\ Begin(w, Insert(<<NewRow(u, a, P, ttl, "active", FALSE)>>, None))
        /\ UNCHANGED <<now, scopes, templates, delegations, created, granted>>
    BY <1>1 DEF BeginUserDelegation, BeginAdminDelegation
  <2>2. ttl \in Nat
    BY LifetimesAreTimes
  <2> QED
    BY <2>1, <2>2, InsertOneRequest
<1>2. ASSUME NEW u \in Users, NEW P \in SUBSET Permissions, NEW ttl \in Lifetimes,
             BeginServiceDelegation(w, u, a, P, ttl)
      PROVE  DelegationInv' /\ RowsPersist
  <2>1. PICK old \in IF Active(u, a) = {} THEN {None} ELSE Active(u, a) :
               Begin(w, Insert(<<NewRow(u, a, P, ttl, "active", FALSE)>>, old))
    BY <1>2 DEF BeginServiceDelegation
  <2>2. old \in Known \cup {None}
    BY DEF Active, Between, Rows, Known
  <2>3. ttl \in Nat
    BY LifetimesAreTimes
  <2>4. UNCHANGED <<now, scopes, templates, delegations, created, granted>>
    BY <1>2 DEF BeginServiceDelegation
  <2> QED
    BY <2>1, <2>2, <2>3, <2>4, InsertOneRequest
<1>3. ASSUME NEW invited \in Invitees, BeginInvite(w, invited, a)
      PROVE  DelegationInv' /\ RowsPersist
  <2> DEFINE row(u) == NewRow(u, a, {}, TemplateLifetime, "pending", TRUE)
             rows == [i \in DOMAIN invited |-> row(invited[i])]
  <2>1. /\ Begin(w, Insert(rows, None))
        /\ UNCHANGED <<now, scopes, templates, delegations, created, granted>>
    BY <1>3 DEF BeginInvite
  <2>2. \A u \in Users :
          row(u) \in Delegation /\ row(u).revokedAt = None /\ row(u).perms = {}
    <3>1. "pending" \in Status /\ TemplateLifetime \in Nat /\ {} \in SUBSET Permissions
      BY LifetimesAreTimes DEF Status
    <3>2. \A u \in Users : row(u).perms = {}
      BY DEF NewRow
    <3>3. \A u \in Users : row(u) \in Delegation /\ row(u).revokedAt = None
      BY <3>1, NewRowType DEF DelegationInv
    <3> QED
      BY <3>2, <3>3
  <2>3. PICK n \in 1 .. MaxInvited : invited \in [1 .. n -> Users]
    BY DEF Invitees
  <2> HIDE DEF row
  <2>4. rows \in [1 .. n -> Delegation] /\ n \in Nat
    BY <2>2, <2>3
  <2>5. \A i \in DOMAIN rows : rows[i].revokedAt = None /\ rows[i].perms = {}
    BY <2>2, <2>3
  <2> HIDE DEF rows
  <2>6. rows \in Seq(Delegation)
    BY <2>4
  <2> QED
    BY <2>1, <2>5, <2>6, InsertRequest
<1>4. ASSUME NEW u \in Users, BeginProvision(w, u, a)
      PROVE  DelegationInv' /\ RowsPersist
  <2> DEFINE P == TemplateEffective(a)
  <2>1. /\ Begin(w, Insert(<<NewRow(u, a, P, TemplateLifetime, "active", TRUE)>>, None))
        /\ UNCHANGED <<now, scopes, templates, delegations, created, granted>>
    BY <1>4 DEF BeginProvision
  <2>2. TemplateLifetime \in Nat
    BY LifetimesAreTimes
  <2>3. P \in SUBSET Permissions
    BY EffectiveType DEF DelegationInv
  <2> HIDE DEF P
  <2> QED
    BY <2>1, <2>2, <2>3, InsertOneRequest
<1> QED
  BY <1>1, <1>2, <1>3, <1>4 DEF BeginCreate

\* A request that decides to patch a row of the table.
LEMMA PatchRequest ==
  ASSUME DelegationInv, NEW w \in Workers, NEW d \in DelegationId,
         NEW newPerms \in BOOLEAN, NEW P \in SUBSET Permissions,
         NEW newExpiry \in BOOLEAN, NEW e \in Nat, NEW before \in Nat,
         BeginPatch(w, d, newPerms, P, newExpiry, e, before)
  PROVE  DelegationInv' /\ RowsPersist
<1> DEFINE narrows == newPerms /\ P # delegations[d].perms
           t == [kind |-> "patch", id |-> d, narrows |-> narrows,
                 perms |-> IF narrows THEN P ELSE {},
                 expires |-> IF newExpiry THEN e ELSE None,
                 read |-> delegations[d].perms, before |-> before]
<1>1. /\ d \in Known
      /\ newPerms => P \subseteq delegations[d].perms
      /\ txn' = [txn EXCEPT ![w] = t]
      /\ UNCHANGED <<now, scopes, templates, delegations, created, granted>>
  BY DEF BeginPatch, Begin, Rows, Known
<1>2. narrows \in BOOLEAN
  OBVIOUS
<1>3. narrows => P \subseteq granted[d]
  BY <1>1 DEF DelegationInv, HoldsOnlyGranted
<1> HIDE DEF narrows
<1>4. t \in PatchTxn
  <2>1. delegations[d].perms \in SUBSET Permissions
    BY DEF DelegationInv, DelegationTypeOK, Delegation
  <2> QED
    BY <1>2, <2>1 DEF PatchTxn, None
<1>5. SoundRequest(t)
  BY <1>1, <1>3 DEF SoundRequest
<1>6. t \in Txn
  BY <1>4 DEF Txn
<1> HIDE DEF t
<1> QED
  BY <1>1, <1>5, <1>6, OnlyTxnChanges

\* A request that decides to accept an invitation.
LEMMA AcceptRequest ==
  ASSUME DelegationInv, NEW w \in Workers, NEW d \in DelegationId, BeginAccept(w, d)
  PROVE  DelegationInv' /\ RowsPersist
<1> DEFINE t == [kind |-> "accept", id |-> d,
                 perms |-> TemplateEffective(delegations[d].agent)]
<1>1. /\ d \in Known
      /\ txn' = [txn EXCEPT ![w] = t]
      /\ UNCHANGED <<now, scopes, templates, delegations, created, granted>>
  BY DEF BeginAccept, Begin, Known
<1>2. t \in Txn
  BY EffectiveType DEF Txn, AcceptTxn, DelegationInv, DelegationTypeOK, Delegation
<1>3. SoundRequest(t)
  BY <1>1 DEF SoundRequest
<1> HIDE DEF t
<1> QED
  BY <1>1, <1>2, <1>3, OnlyTxnChanges

\* The clock, the scopes and the templates do not touch the permissions of a row.
LEMMA EnvironmentStep ==
  ASSUME DelegationInv,
         \/ Tick
         \/ \E u \in Users, S \in ScopeSets : ChangeScopes(u, S)
         \/ \E a \in Agents, shape \in TemplateShapes : PutTemplate(a, shape)
  PROVE  DelegationInv' /\ RowsPersist
<1>1. UNCHANGED <<delegations, created, granted, txn>>
  BY DEF Tick, ChangeScopes, PutTemplate
<1>2. Known' = Known
  BY <1>1 DEF Known
<1> DEFINE Typed == /\ now' \in Nat \ {0} /\ now <= now'
                    /\ scopes' \in [Users -> SUBSET Permissions]
                    /\ templates' \in [Agents -> Template]
<1>3. Typed
  <2>1. CASE Tick
    BY <2>1 DEF Tick, DelegationInv, DelegationTypeOK
  <2>2. ASSUME NEW u \in Users, NEW S \in ScopeSets, ChangeScopes(u, S)
        PROVE  Typed
    BY <2>2, ScopesArePermissions DEF ChangeScopes, DelegationInv, DelegationTypeOK
  <2>3. ASSUME NEW a \in Agents, NEW shape \in TemplateShapes, PutTemplate(a, shape)
        PROVE  Typed
    <3>1. [exists |-> TRUE, max |-> shape.max, blocked |-> shape.blocked] \in Template
      BY ShapesAreCeilings DEF Template
    <3> QED
      BY <2>3, <3>1 DEF PutTemplate, DelegationInv, DelegationTypeOK
  <2> QED
    BY <2>1, <2>2, <2>3
<1>4. RowsPersist
  BY <1>1, <1>2 DEF RowsPersist, GoneTogether, Rows
<1>5. SoundRequests'
  BY <1>1, <1>4, RequestsStaySound DEF DelegationInv
<1>6. /\ DelegationTypeOK' /\ RowsAreNumbered' /\ HoldsOnlyGranted'
      /\ InvitationsGrantNothing'
  BY <1>1, <1>2, <1>3
     DEF DelegationInv, DelegationTypeOK, RowsAreNumbered, HoldsOnlyGranted,
         InvitationsGrantNothing
<1>7. RevokedInThePast'
  BY <1>1, <1>2, <1>3 DEF DelegationInv, DelegationTypeOK, RevokedInThePast, Known, Delegation
<1> QED
  BY <1>4, <1>5, <1>6, <1>7 DEF DelegationInv

\* Revocations and the removal of a template mark rows and change nothing else.
LEMMA MarkStep ==
  ASSUME DelegationInv,
         \/ \E a \in Agents : DeleteTemplate(a)
         \/ \E d \in DelegationId : RevokeByUser(d) \/ RevokeByAdmin(d)
         \/ \E D \in SUBSET Rows : RevokeAllValid(D) \/ BulkRevoke(D)
  PROVE  DelegationInv' /\ RowsPersist
<1>1. /\ delegations \in [DelegationId -> Delegation]
      /\ templates \in [Agents -> Template]
      /\ now \in Nat
  BY DEF DelegationInv, DelegationTypeOK
<1>2. ASSUME NEW a \in Agents, DeleteTemplate(a)
      PROVE  DelegationInv' /\ RowsPersist
  <2>1. templates' \in [Agents -> Template]
    BY <1>1, <1>2 DEF DeleteTemplate, NoTemplate, Template
  <2>2. ASSUME NEW d \in DelegationId
        PROVE  /\ [delegations[d] EXCEPT !.template = FALSE] \in Delegation
               /\ delegations'[d] \in {delegations[d], [delegations[d] EXCEPT !.template = FALSE]}
    BY <1>1, <1>2 DEF DeleteTemplate, Delegation
  <2>3. delegations' \in [DelegationId -> Delegation]
    BY <1>1, <1>2, <2>2 DEF DeleteTemplate
  <2>4. \A d \in DelegationId :
          /\ delegations'[d].agent = delegations[d].agent
          /\ delegations'[d].perms = delegations[d].perms
          /\ delegations'[d].status = delegations[d].status
          /\ delegations'[d].revokedAt = delegations[d].revokedAt
    BY <1>1, <2>2 DEF Delegation
  <2>5. UNCHANGED <<now, scopes, created, granted, txn>>
    BY <1>2 DEF DeleteTemplate
  <2>6. GoneTogether
    BY <2>4 DEF GoneTogether, Rows
  <2> QED
    BY <2>1, <2>3, <2>4, <2>5, <2>6, OnlyMarksChange
<1>3. ASSUME NEW d \in DelegationId, RevokeByUser(d) \/ RevokeByAdmin(d)
      PROVE  DelegationInv' /\ RowsPersist
  <2>1. d \in Rows /\ delegations[d] \in Delegation /\ delegations[d].status \notin {"absent", "deleted"}
    BY <1>1, <1>3 DEF RevokeByUser, RevokeByAdmin, Rows
  <2>2. delegations' = [delegations EXCEPT ![d] = RevokedRow(delegations[d])]
        \/ delegations' = [delegations EXCEPT ![d] = [delegations[d] EXCEPT !.revokedAt = now]]
    BY <1>3, <1>1 DEF RevokeByUser, RevokeByAdmin
  <2>3. /\ delegations' \in [DelegationId -> Delegation]
        /\ \A e \in DelegationId :
             /\ delegations'[e].agent = delegations[e].agent
             /\ delegations'[e].perms = delegations[e].perms
             /\ delegations'[e].status = "absent" <=> delegations[e].status = "absent"
             /\ delegations[e].status = "deleted" <=> delegations'[e].status = "deleted"
             /\ delegations'[e].status = "pending" => delegations[e].status = "pending"
             /\ delegations'[e].revokedAt \in {delegations[e].revokedAt, now}
    <3>1. CASE delegations' = [delegations EXCEPT ![d] = RevokedRow(delegations[d])]
      BY <1>1, <2>1, <3>1, RevokedRowMarks
    <3>2. CASE delegations' =
                 [delegations EXCEPT ![d] = [delegations[d] EXCEPT !.revokedAt = now]]
      BY <1>1, <2>1, <3>2 DEF Delegation
    <3> QED
      BY <2>2, <3>1, <3>2
  <2>4. UNCHANGED <<now, scopes, templates, created, granted, txn>>
    BY <1>3 DEF RevokeByUser, RevokeByAdmin
  <2>5. GoneTogether
    BY <2>3 DEF GoneTogether, Rows
  <2> QED
    BY <1>1, <2>3, <2>4, <2>5, OnlyMarksChange
<1>4. ASSUME NEW D \in SUBSET Rows, RevokeAllValid(D) \/ BulkRevoke(D)
      PROVE  DelegationInv' /\ RowsPersist
  <2>1. ASSUME NEW d \in DelegationId
        PROVE  \/ delegations'[d] = delegations[d]
               \/ /\ d \in Rows
                  /\ delegations'[d] \in {[delegations[d] EXCEPT !.revokedAt = now],
                                          RevokedRow(delegations[d])}
    BY <1>4 DEF RevokeAllValid, BulkRevoke
  <2>2. ASSUME NEW d \in DelegationId
        PROVE  /\ delegations'[d] \in Delegation
               /\ delegations'[d].agent = delegations[d].agent
               /\ delegations'[d].perms = delegations[d].perms
               /\ delegations'[d].status = "absent" <=> delegations[d].status = "absent"
               /\ delegations[d].status = "deleted" <=> delegations'[d].status = "deleted"
               /\ delegations'[d].status = "pending" => delegations[d].status = "pending"
               /\ delegations'[d].revokedAt \in {delegations[d].revokedAt, now}
    <3>1. CASE delegations'[d] = delegations[d]
      BY <1>1, <3>1
    <3>2. CASE /\ d \in Rows
               /\ delegations'[d] = [delegations[d] EXCEPT !.revokedAt = now]
      BY <1>1, <3>2 DEF Delegation, Rows
    <3>3. CASE d \in Rows /\ delegations'[d] = RevokedRow(delegations[d])
      <4>1. delegations[d] \in Delegation /\ delegations[d].status \notin {"absent", "deleted"}
        BY <1>1, <3>3 DEF Rows
      <4> QED
        BY <1>1, <3>3, <4>1, RevokedRowMarks
    <3> QED
      BY <2>1, <3>1, <3>2, <3>3
  <2>3. delegations' \in [DelegationId -> Delegation]
    BY <1>4, <2>2 DEF RevokeAllValid, BulkRevoke
  <2>4. UNCHANGED <<now, scopes, templates, created, granted, txn>>
    BY <1>4 DEF RevokeAllValid, BulkRevoke
  <2>5. GoneTogether
    BY <2>2 DEF GoneTogether, Rows
  <2> QED
    BY <1>1, <2>2, <2>3, <2>4, <2>5, OnlyMarksChange
<1> QED
  BY <1>2, <1>3, <1>4

\* Deleting an agent marks its rows as deleted.
LEMMA DeleteAgentStep ==
  ASSUME DelegationInv, NEW a \in Agents, DeleteAgent(a)
  PROVE  DelegationInv' /\ RowsPersist
<1>1. delegations \in [DelegationId -> Delegation] /\ templates \in [Agents -> Template]
  BY DEF DelegationInv, DelegationTypeOK
<1>2. ASSUME NEW d \in DelegationId
      PROVE  \/ delegations'[d] = delegations[d]
             \/ /\ d \in Rows
                /\ delegations'[d] = [delegations[d] EXCEPT !.status = "deleted"]
  BY DEF DeleteAgent, OfAgent
<1>3. ASSUME NEW d \in DelegationId
      PROVE  /\ delegations'[d] \in Delegation
             /\ delegations'[d].agent = delegations[d].agent
             /\ delegations'[d].perms = delegations[d].perms
             /\ delegations'[d].status = "absent" <=> delegations[d].status = "absent"
             /\ delegations[d].status = "deleted" => delegations'[d].status = "deleted"
             /\ delegations'[d].status = "pending" => delegations[d].status = "pending"
             /\ delegations'[d].revokedAt = delegations[d].revokedAt
  BY <1>1, <1>2 DEF Delegation, Status, Rows
<1>4. delegations' \in [DelegationId -> Delegation]
  BY <1>3 DEF DeleteAgent
<1>5. UNCHANGED <<now, scopes, templates, created, granted, txn>>
  BY DEF DeleteAgent
<1>6. GoneTogether
  <2> SUFFICES ASSUME NEW d \in Rows, NEW e \in Rows, d \in Rows',
                      delegations[d].agent = delegations[e].agent
               PROVE  e \in Rows'
    BY DEF GoneTogether
  <2>1. d \in DelegationId /\ e \in DelegationId /\ delegations'[d].status # "deleted"
    BY DEF Rows
  <2>2. d \notin OfAgent(a)
    BY <1>1, <2>1 DEF DeleteAgent, Delegation
  <2>3. delegations'[e] = delegations[e]
    BY <2>1, <2>2 DEF DeleteAgent, OfAgent
  <2> QED
    BY <2>1, <2>3 DEF Rows
<1> QED
  BY <1>1, <1>3, <1>4, <1>5, <1>6, OnlyMarksChange

\* The new rows hold what they were granted, and the row they replace is only marked.
LEMMA CommitInsertStep ==
  ASSUME DelegationInv, NEW w \in Workers, CommitInsert(w)
  PROVE  DelegationInv' /\ RowsPersist
<1> DEFINE rows == txn[w].rows
           new == NewIds(rows)
<1>1. /\ txn[w] \in InsertTxn
      /\ SoundRequest(txn[w])
      /\ delegations \in [DelegationId -> Delegation]
      /\ granted \in [DelegationId -> SUBSET Permissions]
      /\ now \in Nat \ {0} /\ created \in Nat
  BY BoundsAreNumbers, KindOfTxn
     DEF CommitInsert, DelegationInv, DelegationTypeOK, SoundRequests
<1>2. /\ rows \in Seq(Delegation)
      /\ \A i \in DOMAIN rows :
           rows[i].revokedAt = None /\ (rows[i].status = "pending" => rows[i].perms = {})
      /\ txn[w].replaces \in Rows \cup {None}
  BY <1>1 DEF InsertTxn, SoundRequest, CommitInsert, Refused
<1>3. \A d \in new :
        /\ rows[d - created] \in Delegation /\ rows[d - created].revokedAt = None
        /\ rows[d - created].status = "pending" => rows[d - created].perms = {}
  <2>1. \A d \in new : d - created \in 1 .. Len(rows)
    BY <1>1, <1>2 DEF NewIds
  <2> HIDE DEF rows, new
  <2> QED
    BY <1>2, <2>1
<1>4. /\ new \subseteq DelegationId /\ None \notin new /\ new \cap Known = {}
      /\ created' = created + Len(rows) /\ created' \in 0 .. MaxDelegations
      /\ new \cup Known \subseteq 1 .. created'
  <2>1. Len(rows) \in Nat /\ created' = created + Len(rows)
        /\ created + Len(rows) <= MaxDelegations
    BY <1>2 DEF CommitInsert
  <2>2. Known \subseteq 1 .. created
    BY <1>1 DEF DelegationInv, RowsAreNumbered, Known, DelegationId
  <2>3. new = created + 1 .. created + Len(rows)
    BY DEF NewIds
  <2>4. MaxDelegations \in Nat
    BY BoundsAreNumbers
  <2> HIDE DEF rows, new
  <2>5. \A d \in new : d \in Nat /\ d > created /\ d <= created + Len(rows)
    BY <1>1, <2>1, <2>3
  <2>6. new \subseteq DelegationId /\ None \notin new
    BY <1>1, <2>1, <2>4, <2>5 DEF DelegationId, None
  <2>7. new \cap Known = {}
    BY <1>1, <2>2, <2>5
  <2>8. new \cup Known \subseteq 1 .. created'
    <3>1. ASSUME NEW d \in Known
          PROVE  d \in 1 .. created'
      <4>1. d \in 1 .. created
        BY <2>2
      <4> QED
        BY <1>1, <2>1, <4>1
    <3>2. ASSUME NEW d \in new
          PROVE  d \in 1 .. created'
      BY <1>1, <2>1, <2>5
    <3> QED
      BY <3>1, <3>2
  <2> QED
    BY <1>1, <2>1, <2>4, <2>6, <2>7, <2>8
<1>5. ASSUME NEW d \in DelegationId
      PROVE  /\ delegations'[d] = CASE d \in new             -> rows[d - created]
                                    [] d = txn[w].replaces   -> RevokedRow(delegations[d])
                                    [] OTHER                 -> delegations[d]
             /\ granted'[d] = IF d \in new THEN rows[d - created].perms ELSE granted[d]
  BY DEF CommitInsert
<1> HIDE DEF rows, new
<1>6. ASSUME NEW d \in DelegationId, d \notin new
      PROVE  /\ delegations'[d] \in Delegation
             /\ delegations'[d].agent = delegations[d].agent
             /\ delegations'[d].perms = delegations[d].perms
             /\ granted'[d] = granted[d]
             /\ d \in Known <=> d \in Known'
             /\ delegations'[d].revokedAt \in {delegations[d].revokedAt, now}
             /\ delegations[d].status = "deleted" <=> delegations'[d].status = "deleted"
             /\ delegations'[d].status = "pending" => delegations[d].status = "pending"
  <2>1. CASE d = txn[w].replaces
    <3>1. delegations'[d] = RevokedRow(delegations[d])
      BY <1>5, <1>6, <2>1
    <3>2. d \in Rows
      BY <1>2, <2>1 DEF DelegationId, None
    <3>3. delegations[d] \in Delegation /\ delegations[d].status \notin {"absent", "deleted"}
      BY <1>1, <3>2 DEF Rows
    <3> QED
      BY <1>5, <1>6, <3>1, <3>2, <3>3, RevokedRowMarks
         DEF Known, DelegationInv, DelegationTypeOK
  <2>2. CASE d # txn[w].replaces
    BY <1>1, <1>5, <1>6, <2>2 DEF Known
  <2> QED
    BY <2>1, <2>2
<1>7. ASSUME NEW d \in new
      PROVE  /\ delegations'[d] \in Delegation
             /\ delegations'[d].revokedAt = None
             /\ granted'[d] = delegations'[d].perms
             /\ delegations'[d].status = "pending" => delegations'[d].perms = {}
  <2>1. d \in DelegationId /\ d # txn[w].replaces
    BY <1>2, <1>4 DEF Rows, Known
  <2> QED
    BY <1>3, <1>5, <2>1
<1>8. delegations' \in [DelegationId -> Delegation]
  <2>1. \A d \in DelegationId : delegations'[d] \in Delegation
    BY <1>6, <1>7
  <2> QED
    BY <2>1 DEF CommitInsert
<1>9. granted' \in [DelegationId -> SUBSET Permissions]
  <2>1. \A d \in DelegationId : granted'[d] \in SUBSET Permissions
    BY <1>1, <1>6, <1>7 DEF Delegation
  <2> QED
    BY <2>1 DEF CommitInsert
<1>10. RowsPersist
  BY <1>4, <1>6 DEF RowsPersist, GoneTogether, Known, Rows
<1>11. SoundRequests' /\ txn' \in [Workers -> Txn]
  BY <1>10, RequestsStaySound DEF DelegationInv, CommitInsert
<1>12. DelegationTypeOK'
  BY <1>4, <1>8, <1>9, <1>11 DEF DelegationTypeOK, DelegationInv, CommitInsert
<1>13. Known' \subseteq Known \cup new
  BY <1>6 DEF Known
<1>14. RowsAreNumbered'
  BY <1>4, <1>13 DEF RowsAreNumbered
<1>15. RevokedInThePast'
  <2>1. now' = now
    BY DEF CommitInsert
  <2>2. ASSUME NEW d \in new
        PROVE  delegations'[d].revokedAt <= now
    BY <1>1, <1>7 DEF None
  <2>3. ASSUME NEW d \in Known, d \notin new
        PROVE  delegations'[d].revokedAt <= now
    <3>1. delegations[d].revokedAt <= now
      BY DEF DelegationInv, RevokedInThePast
    <3>2. d \in DelegationId
      BY DEF Known
    <3> QED
      BY <1>1, <1>6, <2>3, <3>1, <3>2
  <2> QED
    BY <1>13, <2>1, <2>2, <2>3 DEF RevokedInThePast
<1>16. HoldsOnlyGranted'
  BY <1>6, <1>7 DEF HoldsOnlyGranted, DelegationInv
<1>17. InvitationsGrantNothing'
  BY <1>6, <1>7 DEF InvitationsGrantNothing, DelegationInv
<1> QED
  BY <1>10, <1>11, <1>12, <1>14, <1>15, <1>16, <1>17 DEF DelegationInv

\* A request refused at its commit ends and leaves the rows alone.
LEMMA RejectCommitStep ==
  ASSUME DelegationInv, NEW w \in Workers, RejectCommit(w)
  PROVE  DelegationInv' /\ RowsPersist
  BY IdleIsSound, OnlyTxnChanges DEF RejectCommit, Finish

\* The two commits that write permissions write granted ones: the acceptance grants
\* them, the patch was checked against the ones the delegation had.
LEMMA RowWriteStep ==
  ASSUME DelegationInv, NEW w \in Workers, CommitAccept(w) \/ CommitPatch(w)
  PROVE  DelegationInv' /\ RowsPersist
<1> DEFINE d == txn[w].id
<1>1. /\ delegations \in [DelegationId -> Delegation]
      /\ granted \in [DelegationId -> SUBSET Permissions]
      /\ txn[w] \in AcceptTxn \cup PatchTxn
      /\ SoundRequest(txn[w])
      /\ d \in Rows /\ d \in DelegationId
  <2>1. txn[w] \in Txn /\ SoundRequest(txn[w])
    BY DEF DelegationInv, DelegationTypeOK, SoundRequests
  <2>2. txn[w] \in AcceptTxn \cup PatchTxn /\ d \in Rows
    BY <2>1, KindOfTxn DEF CommitAccept, CommitPatch, Refused
  <2> QED
    BY <2>1, <2>2 DEF Rows, DelegationInv, DelegationTypeOK
<1>2. /\ delegations'[d] \in Delegation
      /\ delegations'[d].agent = delegations[d].agent
      /\ delegations'[d].status \notin {"absent", "deleted"}
      /\ delegations'[d].revokedAt = delegations[d].revokedAt
      /\ delegations'[d].perms \subseteq granted'[d]
      /\ delegations'[d].status = "pending" =>
           delegations[d].status = "pending" /\ granted'[d] = granted[d]
      /\ \A e \in DelegationId \ {d} :
           delegations'[e] = delegations[e] /\ granted'[e] = granted[e]
      /\ granted[d] \subseteq granted'[d]
      /\ delegations' \in [DelegationId -> Delegation]
      /\ granted' \in [DelegationId -> SUBSET Permissions]
  <2>1. CASE CommitAccept(w)
    <3>1. /\ delegations' = [delegations EXCEPT
               ![d] = [delegations[d] EXCEPT !.perms = txn[w].perms, !.status = "active"]]
          /\ granted' = [granted EXCEPT ![d] = granted[d] \cup txn[w].perms]
          /\ txn[w].perms \in SUBSET Permissions
      BY <1>1, <2>1, KindOfTxn DEF CommitAccept, AcceptTxn, Delegation, PatchTxn
    <3>2. [delegations[d] EXCEPT !.perms = txn[w].perms, !.status = "active"] \in Delegation
      BY <1>1, <3>1 DEF Delegation, Status
    <3> HIDE DEF d
    <3> QED
      BY <1>1, <3>1, <3>2 DEF Delegation
  <2>2. CASE CommitPatch(w)
    <3> DEFINE P == IF txn[w].narrows THEN txn[w].perms ELSE delegations[d].perms
               e == IF txn[w].expires # None THEN txn[w].expires ELSE delegations[d].expires
    <3>1. txn[w] \in PatchTxn
      BY <1>1, <2>2 DEF CommitPatch, AcceptTxn
    <3>2. delegations[d].perms \subseteq granted[d]
      BY <1>1 DEF DelegationInv, HoldsOnlyGranted
    <3>3. P \in SUBSET Permissions /\ P \subseteq granted[d] /\ e \in Nat
      BY <1>1, <2>2, <3>1, <3>2 DEF PatchTxn, SoundRequest, CommitPatch, Delegation
    <3>4. /\ delegations' = [delegations EXCEPT
               ![d] = [delegations[d] EXCEPT !.perms = P, !.expires = e]]
          /\ granted' = granted
      BY <1>1, <2>2 DEF CommitPatch, Delegation
    <3> HIDE DEF d, P, e
    <3>5. [delegations[d] EXCEPT !.perms = P, !.expires = e] \in Delegation
      BY <1>1, <3>3 DEF Delegation
    <3>6. delegations[d].status \notin {"absent", "deleted"}
      BY <1>1 DEF Rows
    <3> QED
      BY <1>1, <3>3, <3>4, <3>5, <3>6 DEF Delegation
  <2> QED
    BY <2>1, <2>2
<1>3. UNCHANGED <<now, scopes, templates, created>>
  BY DEF CommitAccept, CommitPatch
<1> HIDE DEF d
<1>4. Known' = Known
  BY <1>1, <1>2 DEF Known, Rows
<1>5. RowsPersist
  BY <1>1, <1>2, <1>4 DEF RowsPersist, GoneTogether, Known, Rows
<1>6. SoundRequests' /\ txn' \in [Workers -> Txn]
  BY <1>5, RequestsStaySound DEF DelegationInv, CommitAccept, CommitPatch
<1>7. DelegationTypeOK'
  BY <1>2, <1>3, <1>6 DEF DelegationInv, DelegationTypeOK
<1>8. RowsAreNumbered'
  BY <1>3, <1>4 DEF DelegationInv, RowsAreNumbered
<1>9. RevokedInThePast'
  BY <1>2, <1>3, <1>4 DEF DelegationInv, RevokedInThePast, Known
<1>10. HoldsOnlyGranted'
  BY <1>1, <1>2 DEF DelegationInv, HoldsOnlyGranted
<1>11. InvitationsGrantNothing'
  BY <1>1, <1>2 DEF DelegationInv, InvitationsGrantNothing
<1> QED
  BY <1>5, <1>6, <1>7, <1>8, <1>9, <1>10, <1>11 DEF DelegationInv

\* Every step of the table but the cascading ones keeps the invariant.
LEMMA OwnStepPreserves ==
  ASSUME DelegationInv, NEW before \in Nat, OwnStep(before)
  PROVE  DelegationInv' /\ RowsPersist
<1> DEFINE Preserved == DelegationInv' /\ RowsPersist
<1>1. ASSUME Tick \/ (\E u \in Users, S \in ScopeSets : ChangeScopes(u, S))
                  \/ (\E a \in Agents, shape \in TemplateShapes : PutTemplate(a, shape))
      PROVE  Preserved
  BY <1>1, EnvironmentStep
<1>2. ASSUME \/ \E a \in Agents : DeleteTemplate(a)
             \/ \E d \in DelegationId : RevokeByUser(d) \/ RevokeByAdmin(d)
      PROVE  Preserved
  BY <1>2, MarkStep
<1>3. ASSUME NEW w \in Workers, NEW a \in Agents, BeginCreate(w, a)
      PROVE  Preserved
  BY <1>3, CreateStep
<1>4. ASSUME NEW w \in Workers, NEW d \in DelegationId, BeginAccept(w, d)
      PROVE  Preserved
  BY <1>4, AcceptRequest
<1>5. ASSUME NEW w \in Workers, NEW d \in DelegationId, NEW newPerms \in BOOLEAN,
             NEW newExpiry \in BOOLEAN, NEW ttl \in Lifetimes, NEW P \in SUBSET Permissions,
             BeginPatch(w, d, newPerms, P, newExpiry, now + ttl, before)
      PROVE  Preserved
  <2>1. now + ttl \in Nat
    BY LifetimesAreTimes DEF DelegationInv, DelegationTypeOK
  <2> QED
    BY <1>5, <2>1, PatchRequest
<1>6. ASSUME NEW w \in Workers, CommitInsert(w) \/ RejectCommit(w) \/ CommitAccept(w)
      PROVE  Preserved
  BY <1>6, CommitInsertStep, RejectCommitStep, RowWriteStep
<1>7. ASSUME NEW D \in SUBSET Rows, RevokeAllValid(D) \/ BulkRevoke(D)
      PROVE  Preserved
  BY <1>7, MarkStep
<1>8. /\ Rows \in SUBSET Rows
      /\ \A u \in Users : OfUser(u) \in SUBSET Rows
      /\ \A a \in Agents : OfAgent(a) \in SUBSET Rows
  BY DEF OfUser, OfAgent
<1>9. ASSUME \/ \E u \in Users : RevokeAllValid(OfUser(u))
             \/ \E a \in Agents : RevokeAllValid(OfAgent(a)) \/ DeleteAgent(a)
             \/ DisableDelegations
      PROVE  Preserved
  BY <1>7, <1>8, <1>9, DeleteAgentStep DEF DisableDelegations
<1> QED
  BY <1>1, <1>2, <1>3, <1>4, <1>5, <1>6, <1>9 DEF OwnStep

\* The steps that also revoke sessions keep the invariant of the rows.
LEMMA CascadingStepPreserves ==
  ASSUME DelegationInv, CascadingStep
  PROVE  DelegationInv' /\ RowsPersist
<1>1. \A a \in Agents : OfAgent(a) \in SUBSET Rows
  BY DEF OfAgent
<1> QED
  BY <1>1, RowWriteStep, MarkStep DEF CascadingStep

\* The invariant holds of the empty table.
LEMMA DelegationInitially ==
  ASSUME DelegationInit
  PROVE  DelegationInv
<1>1. AbsentRow \in Delegation
  BY SomebodyExists DEF AbsentRow, Delegation, Status, None
<1>2. DelegationTypeOK
  BY <1>1, BoundsAreNumbers DEF DelegationInit, DelegationTypeOK, NoTemplate, Template, Txn
<1>3. Known = {}
  BY DEF Known, DelegationInit, AbsentRow
<1>4. SoundRequests
  BY IdleIsSound DEF DelegationInit, SoundRequests
<1>5. HoldsOnlyGranted
  BY DEF DelegationInit, HoldsOnlyGranted, AbsentRow
<1>6. InvitationsGrantNothing
  BY DEF DelegationInit, InvitationsGrantNothing
<1> QED
  BY <1>2, <1>3, <1>4, <1>5, <1>6
     DEF DelegationInv, RowsAreNumbered, RevokedInThePast

\* A step that leaves the table alone.
LEMMA DelegationStutter ==
  ASSUME DelegationInv, UNCHANGED delegationVars
  PROVE  DelegationInv' /\ RowsPersist
<1>1. UNCHANGED <<now, scopes, templates, delegations, created, granted, txn>>
  BY DEF delegationVars
<1>2. Known' = Known /\ RowsPersist
  BY <1>1 DEF Known, RowsPersist, GoneTogether, Rows
<1>3. SoundRequests'
  BY <1>1, <1>2, RequestsStaySound DEF DelegationInv
<1> QED
  BY <1>1, <1>2, <1>3
     DEF DelegationInv, DelegationTypeOK, RowsAreNumbered, RevokedInThePast, HoldsOnlyGranted,
         InvitationsGrantNothing

----------------------------------------------------------------------------
(* What requests in progress have decided on, however they overlap *)

\* The invitations of a user that wait.
Waiting(u, a) == {d \in Between(u, a) : IsValid(d) /\ delegations[d].status = "pending"}

Invites(t, u, a) ==
  /\ t.kind = "insert"
  /\ \E i \in DOMAIN t.rows :
       t.rows[i].status = "pending" /\ t.rows[i].delegator = u /\ t.rows[i].agent = a

\* The requests that have no invitation of the user to send: those that could still
\* find that none waits.
NotInviting(u, a) == {w \in Workers : ~Invites(txn[w], u, a)}

\* A user has at most MaxInvited waiting invitations of each request that is not about to
\* add some.
FewInvited ==
  \A u \in Users, a \in Agents :
    Cardinality(Waiting(u, a)) <= MaxInvited * Cardinality(NotInviting(u, a))

\* What a request has decided to write agrees with what it read.
Decided(t) ==
  /\ t.kind = "insert" => Len(t.rows) <= MaxInvited
  /\ t.kind = "patch" => delegations[t.id].status # "pending"
  /\ (t.kind = "patch" /\ t.narrows) => t.perms \subseteq t.read

RequestsDecided == \A w \in Workers : Decided(txn[w])

\* No invitation begins to wait.
NoneComesToWait == \A u \in Users, a \in Agents : Waiting(u, a)' \subseteq Waiting(u, a)

\* A step that writes no permission, starts no request, activates no row and has no
\* invitation wait.
Quiet ==
  /\ txn' = txn
  /\ \A d \in Known :
       /\ delegations'[d].perms = delegations[d].perms
       /\ \A status \in {"active", "pending"} :
            delegations'[d].status = status => delegations[d].status = status
  /\ NoneComesToWait

\* A step that starts a request, which invites only those who have no invitation waiting.
Starts ==
  /\ UNCHANGED <<now, delegations>>
  /\ \E w \in Workers, t \in Txn :
       /\ txn' = [txn EXCEPT ![w] = t]
       /\ Decided(t)
       /\ \A u \in Users, a \in Agents : Invites(t, u, a) => Waiting(u, a) = {}

\* A new row takes nothing from the rows that exist.
LEMMA CommitInsertKeeps ==
  ASSUME DelegationInv, NEW w \in Workers, CommitInsert(w), NEW d \in Known
  PROVE  delegations'[d].perms = delegations[d].perms
<1>1. /\ txn[w].rows \in Seq(Delegation) /\ created \in Nat
      /\ d \in DelegationId /\ delegations[d] \in Delegation /\ d <= created
  BY BoundsAreNumbers, KindOfTxn
     DEF CommitInsert, DelegationInv, DelegationTypeOK, InsertTxn, Known, RowsAreNumbered
<1>2. d \notin NewIds(txn[w].rows)
  BY <1>1 DEF NewIds, DelegationId
<1>3. delegations'[d] \in {delegations[d], RevokedRow(delegations[d])}
  BY <1>1, <1>2 DEF CommitInsert
<1> QED
  BY <1>1, <1>3 DEF RevokedRow, Delegation

\* A step of the table alone that ends a request.
Ends(w) == CommitInsert(w) \/ RejectCommit(w) \/ CommitAccept(w)

\* Rows that keep their parties and their end, and of which none begins to wait.
LEMMA WaitingRemains ==
  ASSUME DelegationInv, now' \in Nat, now <= now',
         \A d \in Rows' :
           delegations'[d].status = "pending" =>
             /\ d \in Rows
             /\ delegations[d].status = "pending"
             /\ delegations'[d].agent = delegations[d].agent
             /\ delegations'[d].delegator = delegations[d].delegator
             /\ delegations'[d].expires = delegations[d].expires
             /\ delegations'[d].revokedAt \in {delegations[d].revokedAt, now}
  PROVE  NoneComesToWait
<1> SUFFICES ASSUME NEW u \in Users, NEW a \in Agents, NEW d \in Waiting(u, a)'
             PROVE  d \in Waiting(u, a)
  BY DEF NoneComesToWait
<1>1. /\ d \in Rows' /\ delegations'[d].status = "pending"
      /\ delegations'[d].agent = a /\ delegations'[d].delegator = u
      /\ ~(now' >= delegations'[d].expires) /\ delegations'[d].revokedAt = None
  BY DEF Waiting, Between, IsValid, IsExpired, IsRevoked
<1>2. d \in Rows /\ now \in Nat \ {0} /\ delegations[d].expires \in Nat
  BY <1>1 DEF DelegationInv, DelegationTypeOK, Delegation, Rows
<1>3. ~(now >= delegations[d].expires) /\ delegations[d].revokedAt = None
  BY <1>1, <1>2 DEF None
<1> QED
  BY <1>1, <1>2, <1>3 DEF Waiting, Between, IsValid, IsExpired, IsRevoked

\* Revoking delegations is quiet.
LEMMA RevocationsAreQuiet ==
  ASSUME DelegationInv,
         \/ \E d \in DelegationId : RevokeByUser(d) \/ RevokeByAdmin(d)
         \/ \E D \in SUBSET Rows : RevokeAllValid(D) \/ BulkRevoke(D)
  PROVE  Quiet
<1>1. delegations \in [DelegationId -> Delegation]
  BY DEF DelegationInv, DelegationTypeOK
<1>2. \A d \in DelegationId :
        delegations'[d] \in {delegations[d], RevokedRow(delegations[d]),
                             [delegations[d] EXCEPT !.revokedAt = now]}
  BY <1>1 DEF RevokeByUser, RevokeByAdmin, RevokeAllValid, BulkRevoke
<1>3. txn' = txn /\ now' = now /\ now \in Nat
  BY DEF RevokeByUser, RevokeByAdmin, RevokeAllValid, BulkRevoke, DelegationInv,
         DelegationTypeOK
<1>4. ASSUME NEW d \in DelegationId
      PROVE  /\ delegations'[d].perms = delegations[d].perms
             /\ delegations'[d].status \in {delegations[d].status, "revoked"}
             /\ delegations'[d].agent = delegations[d].agent
             /\ delegations'[d].delegator = delegations[d].delegator
             /\ delegations'[d].expires = delegations[d].expires
             /\ delegations'[d].revokedAt \in {delegations[d].revokedAt, now}
  <2>1. delegations[d] \in Delegation
    BY <1>1
  <2>2. CASE delegations'[d] = delegations[d]
    BY <2>2
  <2>3. CASE delegations'[d] = RevokedRow(delegations[d])
    BY <2>1, <2>3 DEF RevokedRow, Delegation
  <2>4. CASE delegations'[d] = [delegations[d] EXCEPT !.revokedAt = now]
    BY <2>1, <2>4 DEF Delegation
  <2> QED
    BY <1>2, <2>1, <2>2, <2>3, <2>4
<1>5. NoneComesToWait
  BY <1>3, <1>4, WaitingRemains DEF Rows
<1> QED
  BY <1>3, <1>4, <1>5 DEF Quiet, Known

\* Every step of the table is quiet, starts a request, or ends one.
LEMMA KindsOfStep ==
  ASSUME DelegationInv, NEW before \in Nat, OwnStep(before)
  PROVE  Quiet \/ Starts \/ \E w \in Workers : Ends(w)
<1>1. delegations \in [DelegationId -> Delegation] /\ txn \in [Workers -> Txn]
  BY DEF DelegationInv, DelegationTypeOK
<1>2. ASSUME \/ Tick
             \/ \E u \in Users, S \in ScopeSets : ChangeScopes(u, S)
             \/ \E a \in Agents, shape \in TemplateShapes : PutTemplate(a, shape)
      PROVE  Quiet
  <2>1. /\ txn' = txn /\ delegations' = delegations
        /\ now \in Nat /\ now' \in {now, now + 1}
    BY <1>2 DEF Tick, ChangeScopes, PutTemplate, DelegationInv, DelegationTypeOK
  <2>2. NoneComesToWait
    BY <2>1, WaitingRemains DEF Rows
  <2> QED
    BY <2>1, <2>2 DEF Quiet
<1>3. ASSUME NEW a \in Agents, DeleteTemplate(a) \/ DeleteAgent(a)
      PROVE  Quiet
  <2>1. \A d \in DelegationId :
          delegations'[d] \in {delegations[d], [delegations[d] EXCEPT !.template = FALSE],
                               [delegations[d] EXCEPT !.status = "deleted"]}
    BY <1>3 DEF DeleteTemplate, DeleteAgent
  <2>2. now \in Nat /\ now' = now /\ txn' = txn
    BY <1>3 DEF DeleteTemplate, DeleteAgent, DelegationInv, DelegationTypeOK
  <2>3. \A d \in DelegationId :
          /\ delegations'[d].perms = delegations[d].perms
          /\ delegations'[d].status \in {delegations[d].status, "deleted"}
          /\ delegations'[d].agent = delegations[d].agent
          /\ delegations'[d].delegator = delegations[d].delegator
          /\ delegations'[d].expires = delegations[d].expires
          /\ delegations'[d].revokedAt = delegations[d].revokedAt
    BY <1>1, <2>1 DEF Delegation
  <2>4. NoneComesToWait
    BY <2>2, <2>3, WaitingRemains DEF Rows
  <2> QED
    BY <2>2, <2>3, <2>4 DEF Quiet, Known
<1>4. ASSUME NEW w \in Workers, NEW a \in Agents, BeginCreate(w, a)
      PROVE  Starts
  <2>1. ASSUME NEW rows, NEW old, txn' = [txn EXCEPT ![w] = Insert(rows, old)],
               UNCHANGED <<now, delegations>>, Decided(Insert(rows, old)),
               \A u \in Users, b \in Agents :
                 Invites(Insert(rows, old), u, b) => Waiting(u, b) = {}
        PROVE  Starts
    <3>1. Insert(rows, old) \in Txn
      BY <1>1, <1>4, <2>1, CreateStep DEF DelegationInv, DelegationTypeOK
    <3> QED
      BY <2>1, <3>1 DEF Starts
  <2>2. ASSUME NEW row, NEW old, row.status = "active"
        PROVE  /\ Decided(Insert(<<row>>, old))
               /\ \A u, b : ~Invites(Insert(<<row>>, old), u, b)
    <3>1. Len(<<row>>) <= MaxInvited
      BY BoundsAreNumbers
    <3> QED
      BY <2>2, <3>1 DEF Decided, Insert, Invites
  <2>3. \A u, P, ttl, fromTemplate : NewRow(u, a, P, ttl, "active", fromTemplate).status = "active"
    BY DEF NewRow
  <2>4. CASE \E invited \in Invitees : BeginInvite(w, invited, a)
    <3>0. PICK invited \in Invitees : BeginInvite(w, invited, a)
      BY <2>4
    <3>1. PICK n \in 1 .. MaxInvited : invited \in [1 .. n -> Users]
      BY DEF Invitees
    <3> DEFINE row(u) == NewRow(u, a, {}, TemplateLifetime, "pending", TRUE)
               rows == [i \in DOMAIN invited |-> row(invited[i])]
    <3>2. /\ txn' = [txn EXCEPT ![w] = Insert(rows, None)]
          /\ UNCHANGED <<now, delegations>>
          /\ \A i \in DOMAIN invited : Blocking(invited[i], a) = {}
      BY <3>0 DEF BeginInvite, Begin
    <3>3. \A u : row(u).delegator = u /\ row(u).agent = a
      BY DEF NewRow
    <3> HIDE DEF row
    <3>4. DOMAIN rows = 1 .. n /\ DOMAIN invited = 1 .. n /\ n \in Nat /\ n <= MaxInvited
      BY <3>1, BoundsAreNumbers
    <3>5. \A i \in DOMAIN rows : rows[i].delegator = invited[i] /\ rows[i].agent = a
      BY <3>3
    <3>6. \A u : Waiting(u, a) \subseteq Blocking(u, a)
      BY DEF Waiting, Blocking
    <3>7. Len(rows) <= MaxInvited
      BY <3>4
    <3>8. \A i \in DOMAIN rows : Waiting(rows[i].delegator, rows[i].agent) = {}
      BY <3>2, <3>4, <3>5, <3>6
    <3> HIDE DEF rows
    <3>9. Decided(Insert(rows, None))
      BY <3>7 DEF Decided, Insert
    <3>10. \A u, b : Invites(Insert(rows, None), u, b) => Waiting(u, b) = {}
      BY <3>8 DEF Invites, Insert
    <3> QED
      BY <2>1, <3>2, <3>9, <3>10
  <2>5. ASSUME NEW u \in Users, NEW P \in SUBSET Permissions, NEW ttl \in Lifetimes,
               \/ BeginUserDelegation(w, u, a, P, ttl)
               \/ BeginAdminDelegation(w, u, a, P, ttl)
               \/ BeginServiceDelegation(w, u, a, P, ttl)
        PROVE  Starts
    <3> DEFINE row == NewRow(u, a, P, ttl, "active", FALSE)
    <3>1. /\ UNCHANGED <<now, delegations>>
          /\ \E old : txn' = [txn EXCEPT ![w] = Insert(<<row>>, old)]
      BY <2>5 DEF BeginUserDelegation, BeginAdminDelegation, BeginServiceDelegation, Begin
    <3>2. row.status = "active"
      BY <2>3
    <3> HIDE DEF row
    <3> QED
      BY <2>1, <2>2, <3>1, <3>2
  <2>6. ASSUME NEW u \in Users, BeginProvision(w, u, a)
        PROVE  Starts
    <3> DEFINE row == NewRow(u, a, TemplateEffective(a), TemplateLifetime, "active", TRUE)
    <3>1. /\ UNCHANGED <<now, delegations>>
          /\ txn' = [txn EXCEPT ![w] = Insert(<<row>>, None)]
      BY <2>6 DEF BeginProvision, Begin
    <3>2. row.status = "active"
      BY <2>3
    <3> HIDE DEF row
    <3> QED
      BY <2>1, <2>2, <3>1, <3>2
  <2> QED
    BY <1>4, <2>4, <2>5, <2>6 DEF BeginCreate
<1>5. ASSUME NEW w \in Workers, NEW d \in DelegationId, BeginAccept(w, d)
      PROVE  Starts
  <2> DEFINE t == [kind |-> "accept", id |-> d,
                   perms |-> TemplateEffective(delegations[d].agent)]
  <2>1. /\ UNCHANGED <<now, delegations>>
        /\ txn' = [txn EXCEPT ![w] = t]
        /\ delegations[d].status = "pending"
    BY <1>5 DEF BeginAccept, Begin
  <2>2. t \in Txn
    BY EffectiveType, <1>1 DEF Txn, AcceptTxn, DelegationInv, Delegation
  <2>4. Decided(t) /\ \A u, b : ~Invites(t, u, b)
    BY DEF Decided, Invites
  <2> HIDE DEF t
  <2> QED
    BY <2>1, <2>2, <2>4 DEF Starts
<1>6. ASSUME NEW w \in Workers, NEW d \in DelegationId, NEW newPerms \in BOOLEAN,
             NEW newExpiry \in BOOLEAN, NEW ttl \in Lifetimes, NEW P \in SUBSET Permissions,
             BeginPatch(w, d, newPerms, P, newExpiry, now + ttl, before)
      PROVE  Starts
  <2> DEFINE narrows == newPerms /\ P # delegations[d].perms
             t == [kind |-> "patch", id |-> d, narrows |-> narrows,
                   perms |-> IF narrows THEN P ELSE {},
                   expires |-> IF newExpiry THEN now + ttl ELSE None,
                   read |-> delegations[d].perms, before |-> before]
  <2>1. /\ UNCHANGED <<now, delegations>>
        /\ txn' = [txn EXCEPT ![w] = t]
        /\ delegations[d].status # "pending"
        /\ newPerms => P \subseteq delegations[d].perms
    BY <1>6 DEF BeginPatch, Begin
  <2>2. narrows => P \subseteq delegations[d].perms
    BY <2>1
  <2>3. /\ narrows \in BOOLEAN /\ now + ttl \in Nat
        /\ delegations[d].perms \in SUBSET Permissions
    BY LifetimesAreTimes DEF DelegationInv, DelegationTypeOK, Delegation
  <2> HIDE DEF narrows
  <2>4. t \in Txn
    BY <2>3 DEF Txn, PatchTxn, None
  <2>5. Decided(t) /\ \A u, b : ~Invites(t, u, b)
    BY <2>1, <2>2 DEF Decided, Invites
  <2> HIDE DEF t
  <2> QED
    BY <2>1, <2>4, <2>5 DEF Starts
<1>7. /\ Rows \in SUBSET Rows
      /\ \A u \in Users : OfUser(u) \in SUBSET Rows
      /\ \A a \in Agents : OfAgent(a) \in SUBSET Rows
  BY DEF OfUser, OfAgent
<1> QED
  BY <1>2, <1>3, <1>4, <1>5, <1>6, <1>7, RevocationsAreQuiet
     DEF OwnStep, DisableDelegations, Ends

\* Who waits depends on the clock and on the rows.
LEMMA WaitingStays ==
  ASSUME UNCHANGED <<now, delegations>>
  PROVE  /\ \A u, a : Waiting(u, a)' = Waiting(u, a)
         /\ \A t : Decided(t) => Decided(t)'
<1>1. \A u, a : Waiting(u, a)' = Waiting(u, a)
  BY DEF Waiting, Between, Rows, IsValid, IsExpired, IsRevoked
<1> QED
  BY <1>1 DEF Decided

\* A decision stands while its row does not begin to wait.
LEMMA DecisionsStand ==
  ASSUME DelegationInv, RequestsDecided,
         \A d \in Known : delegations'[d].status = "pending" => delegations[d].status = "pending",
         NEW w \in Workers, txn'[w] = txn[w]
  PROVE  Decided(txn[w])'
<1>1. SoundRequest(txn[w]) /\ Decided(txn[w])
  BY DEF DelegationInv, SoundRequests, RequestsDecided
<1> QED
  BY <1>1 DEF SoundRequest, Decided

\* A step that ends a request, by a commit or a refusal, has no row begin to wait, but the
\* ones it inserts.
LEMMA EndKeepsDecisions ==
  ASSUME DelegationInv, RequestsDecided, NEW w \in Workers, Finish(w),
         \A d \in Known : delegations'[d].status = "pending" => delegations[d].status = "pending"
  PROVE  RequestsDecided'
<1>1. txn \in [Workers -> Txn] /\ txn' = [txn EXCEPT ![w] = Idle]
  BY DEF DelegationInv, DelegationTypeOK, Finish
<1> SUFFICES ASSUME NEW v \in Workers
             PROVE  Decided(txn[v])'
  BY DEF RequestsDecided
<1>2. CASE v = w
  BY <1>1, <1>2 DEF Decided, Idle
<1>3. CASE v # w
  BY <1>1, <1>3, DecisionsStand
<1> QED
  BY <1>2, <1>3

\* Requests stay decided while others come, go and revoke.
LEMMA StayDecided ==
  ASSUME DelegationInv, RequestsDecided, Quiet \/ Starts
  PROVE  RequestsDecided'
<1>1. txn \in [Workers -> Txn]
  BY DEF DelegationInv, DelegationTypeOK
<1>2. CASE Quiet
  BY <1>2, DecisionsStand DEF Quiet, RequestsDecided
<1>3. CASE Starts
  <2>1. PICK w \in Workers, t \in Txn : txn' = [txn EXCEPT ![w] = t] /\ Decided(t)
    BY <1>3 DEF Starts
  <2>2. UNCHANGED <<now, delegations>>
    BY <1>3 DEF Starts
  <2>3. \A v \in Workers : txn'[v] \in {t, txn[v]}
    BY <1>1, <2>1
  <2> SUFFICES ASSUME NEW v \in Workers
               PROVE  Decided(txn[v])'
    BY DEF RequestsDecided
  <2>4. CASE txn'[v] = txn[v]
    BY <2>2, <2>4, DecisionsStand
  <2>5. CASE txn'[v] = t
    BY <2>1, <2>2, <2>5 DEF Decided
  <2> QED
    BY <2>3, <2>4, <2>5
<1> QED
  BY <1>2, <1>3

\* What the commits of the table do to a row that exists.
LEMMA CommitsChangeNoStatus ==
  ASSUME DelegationInv, NEW w \in Workers, Ends(w) \/ CommitPatch(w)
  PROVE  \A d \in Known :
           delegations'[d].status = "pending" => delegations[d].status = "pending"
<1> SUFFICES ASSUME NEW d \in Known, delegations'[d].status = "pending"
             PROVE  delegations[d].status = "pending"
  OBVIOUS
<1>1. delegations \in [DelegationId -> Delegation] /\ d \in DelegationId
  BY DEF DelegationInv, DelegationTypeOK, Known
<1>2. CASE CommitInsert(w)
  <2>1. /\ txn[w].rows \in Seq(Delegation) /\ created \in Nat /\ d <= created
    BY <1>2, BoundsAreNumbers, KindOfTxn
       DEF CommitInsert, DelegationInv, DelegationTypeOK, InsertTxn, RowsAreNumbered
  <2>2. d \notin NewIds(txn[w].rows)
    BY <1>1, <2>1 DEF NewIds, DelegationId
  <2>3. delegations'[d] \in {delegations[d], RevokedRow(delegations[d])}
    BY <1>1, <1>2, <2>2 DEF CommitInsert
  <2> QED
    BY <1>1, <2>3 DEF RevokedRow, Delegation
<1>3. CASE RejectCommit(w)
  BY <1>3 DEF RejectCommit
<1>4. CASE CommitAccept(w)
  <2>1. delegations'[d] = delegations[d] \/ delegations'[d].status = "active"
    BY <1>1, <1>4 DEF CommitAccept, Delegation
  <2> QED
    BY <2>1
<1>5. CASE CommitPatch(w)
  BY <1>1, <1>5 DEF CommitPatch, Delegation
<1> QED
  BY <1>2, <1>3, <1>4, <1>5 DEF Ends

\* What a patch leaves of the permissions of a row.
LEMMA PatchedPerms ==
  ASSUME DelegationInv, NEW w \in Workers, CommitPatch(w), NEW d \in DelegationId
  PROVE  delegations'[d].perms = IF txn[w].narrows /\ txn[w].id = d THEN txn[w].perms
                                                                   ELSE delegations[d].perms
<1>1. txn[w] \in PatchTxn /\ delegations \in [DelegationId -> Delegation]
  BY KindOfTxn DEF CommitPatch, DelegationInv, DelegationTypeOK
<1> QED
  BY <1>1 DEF CommitPatch, Delegation, PatchTxn

\* A request that commits ends.
LEMMA CommitsEnd ==
  ASSUME DelegationInv, NEW w \in Workers, Finish(w), txn[w].kind # "idle"
  PROVE  Ending(w)
<1>1. txn \in [Workers -> Txn]
  BY DEF DelegationInv, DelegationTypeOK
<1> QED
  BY <1>1 DEF Finish, Ending, Free, Idle

\* A step keeps or narrows an active row, unless it ends a request that another one
\* overtook.
LEMMA StepNarrows ==
  ASSUME DelegationInv, RequestsDecided, OwnStep(0) \/ CascadingStep,
         NEW d \in Rows, delegations[d].status = "active"
  PROVE  \/ delegations'[d].perms \subseteq delegations[d].perms
         \/ \E w \in Workers : Ending(w) /\ Overtaken(txn[w]) /\ txn[w].id = d
<1> DEFINE Narrowed  == delegations'[d].perms \subseteq delegations[d].perms
           Overtook == \E w \in Workers : Ending(w) /\ Overtaken(txn[w]) /\ txn[w].id = d
<1>1. d \in Known /\ d \in DelegationId /\ delegations \in [DelegationId -> Delegation]
  BY DEF Rows, Known, DelegationInv, DelegationTypeOK
<1>2. ASSUME NEW w \in Workers, CommitAccept(w)
      PROVE  Narrowed \/ Overtook
  <2>1. CASE txn[w].id = d
    <3>1. Ending(w)
      BY <1>2, CommitsEnd DEF CommitAccept
    <3>2. Overtaken(txn[w])
      BY <1>2, <2>1 DEF Overtaken, CommitAccept
    <3> QED
      BY <2>1, <3>1, <3>2
  <2>2. CASE txn[w].id # d
    BY <1>1, <1>2, <2>2 DEF CommitAccept
  <2> QED
    BY <2>1, <2>2
<1>3. ASSUME NEW w \in Workers, CommitPatch(w)
      PROVE  Narrowed \/ Overtook
  <2>1. CASE txn[w].narrows /\ txn[w].id = d
    <3>1. Ending(w) /\ txn[w].kind = "patch"
      BY <1>3, CommitsEnd DEF CommitPatch
    <3>2. txn[w].perms \subseteq txn[w].read
      BY <2>1, <3>1 DEF RequestsDecided, Decided
    <3>3. txn[w].read # delegations[d].perms => Overtaken(txn[w])
      BY <2>1, <3>1 DEF Overtaken
    <3>4. delegations'[d].perms = txn[w].perms
      BY <1>1, <1>3, <2>1, PatchedPerms
    <3> QED
      BY <2>1, <3>1, <3>2, <3>3, <3>4
  <2>2. CASE ~(txn[w].narrows /\ txn[w].id = d)
    BY <1>1, <1>3, <2>2, PatchedPerms
  <2> QED
    BY <2>1, <2>2
<1>4. ASSUME Quiet \/ Starts
      PROVE  Narrowed
  BY <1>1, <1>4 DEF Quiet, Starts
<1>5. ASSUME NEW w \in Workers, CommitInsert(w) \/ RejectCommit(w)
      PROVE  Narrowed
  BY <1>1, <1>5, CommitInsertKeeps DEF RejectCommit
<1> HIDE DEF Narrowed, Overtook
<1>6. ASSUME CascadingStep
      PROVE  Narrowed \/ Overtook
  <2>1. \A a \in Agents : OfAgent(a) \in SUBSET Rows
    BY DEF OfAgent
  <2> QED
    BY <1>3, <1>4, <1>6, <2>1, RevocationsAreQuiet DEF CascadingStep
<1>7. ASSUME OwnStep(0)
      PROVE  Narrowed \/ Overtook
  BY <1>2, <1>4, <1>5, <1>7, KindsOfStep DEF Ends
<1> QED
  BY <1>6, <1>7 DEF Narrowed, Overtook

\* A step of the table alone takes no permission from a row, but where an acceptance
\* overtook another: only patches do.
LEMMA OwnStepTakesNothing ==
  ASSUME DelegationInv, NEW before \in Nat, OwnStep(before), NEW d \in Known
  PROVE  \/ delegations[d].perms \subseteq delegations'[d].perms
         \/ \E w \in Workers :
              Ending(w) /\ txn[w].kind = "accept" /\ Overtaken(txn[w]) /\ txn[w].id = d
<1>1. d \in DelegationId /\ delegations \in [DelegationId -> Delegation]
  BY DEF Known, DelegationInv, DelegationTypeOK
<1>2. ASSUME NEW w \in Workers, CommitAccept(w), txn[w].id = d
      PROVE  delegations[d].perms = {} \/ (Ending(w) /\ txn[w].kind = "accept"
                                              /\ Overtaken(txn[w]))
  <2>1. Ending(w) /\ txn[w].kind = "accept"
    BY <1>2, CommitsEnd DEF CommitAccept
  <2>2. delegations[d].status = "pending" => delegations[d].perms = {}
    BY <1>1 DEF DelegationInv, InvitationsGrantNothing, HoldsOnlyGranted
  <2> QED
    BY <1>2, <2>1, <2>2 DEF Overtaken
<1>3. ASSUME NEW w \in Workers, CommitAccept(w), txn[w].id # d
      PROVE  delegations'[d].perms = delegations[d].perms
  BY <1>1, <1>3 DEF CommitAccept
<1>4. CASE Quiet \/ Starts
  BY <1>4 DEF Quiet, Starts
<1>5. CASE \E w \in Workers : CommitInsert(w) \/ RejectCommit(w)
  BY <1>5, CommitInsertKeeps DEF RejectCommit
<1> QED
  BY <1>2, <1>3, <1>4, <1>5, KindsOfStep DEF Ends

\* Those who wait, and the requests that invite nobody, are finitely many.
LEMMA WaitingIsFinite ==
  ASSUME NEW u, NEW a
  PROVE  IsFiniteSet(Waiting(u, a))
<1>1. Waiting(u, a) \in SUBSET (1 .. MaxDelegations)
  BY DEF Waiting, Between, Rows, DelegationId
<1>2. IsFiniteSet(1 .. MaxDelegations)
  BY BoundsAreNumbers, FS_Interval
<1> QED
  BY <1>1, <1>2, FS_Subset

\* Fewer things of one kind, more of another.
LEMMA FewerPerMore ==
  ASSUME NEW S, NEW T, NEW V, NEW W, NEW m \in Nat,
         IsFiniteSet(S), T \subseteq S, IsFiniteSet(W), V \subseteq W,
         Cardinality(S) <= m * Cardinality(V)
  PROVE  Cardinality(T) <= m * Cardinality(W)
<1> DEFINE c == Cardinality(S)
           d == Cardinality(T)
           v == Cardinality(V)
           w == Cardinality(W)
<1>1. d \in Nat /\ c \in Nat /\ d <= c
  BY FS_Subset, FS_CardinalityType
<1>2. v \in Nat /\ w \in Nat /\ v <= w
  BY FS_Subset, FS_CardinalityType
<1>3. c <= m * v
  OBVIOUS
<1> HIDE DEF c, d, v, w
<1>4. PICK k \in Nat : w = v + k
  <2>1. w - v \in Nat /\ w = v + (w - v)
    BY <1>2
  <2> QED
    BY <2>1
<1>5. m * w = m * v + m * k /\ m * v \in Nat /\ m * k \in Nat
  BY <1>2, <1>4
<1>6. d <= m * w
  BY <1>1, <1>3, <1>5
<1> QED
  BY <1>6 DEF d, w

\* When nobody comes to wait, and no request comes to invite, no more wait than before.
LEMMA NoMoreWait ==
  ASSUME IsFiniteSet(Workers), NEW u \in Users, NEW a \in Agents, FewInvited,
         Waiting(u, a)' \subseteq Waiting(u, a), NotInviting(u, a) \subseteq NotInviting(u, a)'
  PROVE  Cardinality(Waiting(u, a)') <= MaxInvited * Cardinality(NotInviting(u, a)')
<1> DEFINE S == Waiting(u, a)
           T == Waiting(u, a)'
           V == NotInviting(u, a)
           W == NotInviting(u, a)'
<1>1. IsFiniteSet(S) /\ T \subseteq S /\ V \subseteq W /\ Cardinality(S) <= MaxInvited * Cardinality(V)
  BY WaitingIsFinite DEF FewInvited
<1>2. IsFiniteSet(W) /\ MaxInvited \in Nat
  <2>1. W \in SUBSET Workers
    BY DEF NotInviting
  <2> QED
    BY <2>1, FS_Subset, BoundsAreNumbers
<1> HIDE DEF S, T, V, W
<1>3. Cardinality(T) <= MaxInvited * Cardinality(W)
  BY <1>1, <1>2, FewerPerMore
<1> QED
  BY <1>3 DEF T, W

\* A request that starts to invite a user found none waiting.
LEMMA StartsFew ==
  ASSUME IsFiniteSet(Workers), DelegationInv, FewInvited, Starts
  PROVE  FewInvited'
<1>1. txn \in [Workers -> Txn]
  BY DEF DelegationInv, DelegationTypeOK
<1>2. PICK w \in Workers, t \in Txn :
        /\ txn' = [txn EXCEPT ![w] = t]
        /\ \A u \in Users, a \in Agents : Invites(t, u, a) => Waiting(u, a) = {}
  BY DEF Starts
<1>3. \A u, a : Waiting(u, a)' = Waiting(u, a)
  BY WaitingStays DEF Starts
<1>4. ASSUME NEW u \in Users, NEW a \in Agents
      PROVE  Cardinality(Waiting(u, a)') <= MaxInvited * Cardinality(NotInviting(u, a)')
  <2>1. CASE Invites(t, u, a)
    <3> DEFINE n == Cardinality(NotInviting(u, a)')
    <3>1. Waiting(u, a)' = {}
      BY <1>2, <1>3, <2>1
    <3>2. NotInviting(u, a)' \in SUBSET Workers
      BY DEF NotInviting
    <3>3. n \in Nat
      BY <3>2, FS_Subset, FS_CardinalityType
    <3> HIDE DEF n
    <3>4. 0 <= MaxInvited * n
      BY <3>3, BoundsAreNumbers
    <3> QED
      BY <3>1, <3>4, FS_EmptySet DEF n
  <2>2. CASE ~Invites(t, u, a)
    <3>1. \A v \in Workers : txn'[v] = txn[v] \/ txn'[v] = t
      BY <1>1, <1>2
    <3>2. NotInviting(u, a) \subseteq NotInviting(u, a)'
      BY <2>2, <3>1 DEF NotInviting, Invites
    <3> QED
      BY <1>3, <3>2, NoMoreWait
  <2> QED
    BY <2>1, <2>2
<1> QED
  BY <1>4 DEF FewInvited

\* A request that ends invites nobody any more.
LEMMA FinishedInvitesNobody ==
  ASSUME DelegationInv, NEW w \in Workers, Finish(w), NEW u, NEW a
  PROVE  NotInviting(u, a)' = NotInviting(u, a) \cup {w}
<1>1. txn \in [Workers -> Txn] /\ txn' = [txn EXCEPT ![w] = Idle]
  BY DEF DelegationInv, DelegationTypeOK, Finish
<1>2. \A v \in Workers : txn'[v] = IF v = w THEN Idle ELSE txn[v]
  BY <1>1
<1>3. ~Invites(Idle, u, a)
  BY DEF Invites, Idle
<1> QED
  BY <1>2, <1>3 DEF NotInviting, Invites

\* The rows of one request: whom it invites has no more of them waiting than it adds.
LEMMA CommitInsertInvites ==
  ASSUME IsFiniteSet(Workers), DelegationInv, RequestsDecided, FewInvited,
         NEW w \in Workers, CommitInsert(w)
  PROVE  FewInvited'
<1> DEFINE rows == txn[w].rows
<1>1. /\ rows \in Seq(Delegation) /\ created \in Nat /\ now \in Nat
      /\ delegations \in [DelegationId -> Delegation]
  BY BoundsAreNumbers, KindOfTxn
     DEF CommitInsert, DelegationInv, DelegationTypeOK, InsertTxn
<1>2. Len(rows) <= MaxInvited /\ Finish(w) /\ txn[w].kind = "insert"
  BY DEF CommitInsert, RequestsDecided, Decided
<1>3. /\ now' = now
      /\ delegations' =
           [d \in DelegationId |->
              CASE d \in NewIds(rows)    -> rows[d - created]
                [] d = txn[w].replaces -> RevokedRow(delegations[d])
                [] OTHER               -> delegations[d]]
  BY DEF CommitInsert
<1>4. ASSUME NEW u \in Users, NEW a \in Agents, NEW d \in Waiting(u, a)'
      PROVE  \/ d \in Waiting(u, a)
             \/ d \in NewIds(rows) /\ Invites(txn[w], u, a)
  <2>1. /\ d \in DelegationId /\ delegations'[d].status = "pending"
        /\ delegations'[d].agent = a /\ delegations'[d].delegator = u
        /\ ~(now' >= delegations'[d].expires) /\ delegations'[d].revokedAt = None
    BY DEF Waiting, Between, Rows, IsValid, IsExpired, IsRevoked
  <2>2. CASE d \in NewIds(rows)
    <3>1. delegations'[d] = rows[d - created]
      <4>1. txn[w].replaces \in Rows \cup {None} /\ \A x \in Rows : x \in Nat /\ x <= created
        BY DEF CommitInsert, Refused, Rows, Known, DelegationId, DelegationInv, RowsAreNumbered
      <4> HIDE DEF rows
      <4>2. d # txn[w].replaces
        BY <1>1, <2>2, <4>1 DEF NewIds, None
      <4> QED
        BY <1>3, <2>1, <2>2, <4>2
    <3>2. d - created \in DOMAIN rows
      <4> HIDE DEF rows
      <4> QED
        BY <1>1, <2>2 DEF NewIds
    <3> QED
      BY <1>2, <2>1, <2>2, <3>1, <3>2 DEF Invites
  <2>3. CASE d \notin NewIds(rows)
    <3> HIDE DEF rows
    <3>1. delegations'[d] \in {delegations[d], RevokedRow(delegations[d])}
      BY <1>3, <2>1, <2>3
    <3>2. delegations'[d] = delegations[d]
      BY <1>1, <2>1, <3>1 DEF RevokedRow, Delegation
    <3> QED
      BY <1>3, <2>1, <3>2 DEF Waiting, Between, Rows, IsValid, IsExpired, IsRevoked
  <2> QED
    BY <2>2, <2>3
<1> HIDE DEF rows
<1>5. IsFiniteSet(NewIds(rows)) /\ Cardinality(NewIds(rows)) = Len(rows) /\ Len(rows) \in Nat
  <2> DEFINE lo == created + 1
             hi == created + Len(rows)
  <2>1. Len(rows) \in Nat
    BY <1>1
  <2>2. lo \in Int /\ hi \in Int /\ hi - lo + 1 = Len(rows) /\ (lo > hi => Len(rows) = 0)
    BY <1>1, <2>1
  <2> HIDE DEF lo, hi
  <2>3. IsFiniteSet(lo .. hi) /\ Cardinality(lo .. hi) = Len(rows)
    BY <2>1, <2>2, FS_Interval
  <2> QED
    BY <2>1, <2>3 DEF lo, hi, NewIds
<1>6. ASSUME NEW u \in Users, NEW a \in Agents
      PROVE  Cardinality(Waiting(u, a)') <= MaxInvited * Cardinality(NotInviting(u, a)')
  <2>1. NotInviting(u, a)' = NotInviting(u, a) \cup {w}
    BY <1>2, FinishedInvitesNobody
  <2>2. CASE ~Invites(txn[w], u, a)
    BY <1>4, <2>1, <2>2, NoMoreWait
  <2>3. CASE Invites(txn[w], u, a)
    <3> DEFINE S == Waiting(u, a)
               T == Waiting(u, a)'
               N == NewIds(rows)
               V == NotInviting(u, a)
               v == Cardinality(V)
    <3>1. T \subseteq S \cup N /\ IsFiniteSet(S) /\ IsFiniteSet(N)
      BY <1>4, <1>5, WaitingIsFinite
    <3>2. Cardinality(S) <= MaxInvited * v
      BY DEF FewInvited
    <3>3. w \notin V /\ V \in SUBSET Workers
      BY <2>3 DEF NotInviting
    <3>4. NotInviting(u, a)' = V \cup {w}
      BY <2>1
    <3>5. Cardinality(N) = Len(rows) /\ Len(rows) \in Nat
      BY <1>5
    <3> HIDE DEF S, T, N, V
    <3>6. IsFiniteSet(V) /\ v \in Nat /\ Cardinality(V \cup {w}) = v + 1
      BY <3>3, FS_Subset, FS_CardinalityType, FS_AddElement
    <3>7. Cardinality(S \cup N) <= Cardinality(S) + Cardinality(N) /\ IsFiniteSet(S \cup N)
      <4>1. /\ IsFiniteSet(S \cup N) /\ IsFiniteSet(S \cap N)
            /\ Cardinality(S \cup N) = Cardinality(S) + Cardinality(N) - Cardinality(S \cap N)
        BY <3>1, FS_Union, FS_Intersection
      <4>2. /\ Cardinality(S) \in Nat /\ Cardinality(N) \in Nat /\ Cardinality(S \cap N) \in Nat
        BY <3>1, <4>1, FS_CardinalityType
      <4> QED
        BY <4>1, <4>2
    <3>8. Cardinality(T) <= Cardinality(S \cup N) /\ IsFiniteSet(T)
      BY <3>1, <3>7, FS_Subset
    <3>9. /\ Cardinality(T) \in Nat /\ Cardinality(S) \in Nat /\ Cardinality(S \cup N) \in Nat
      BY <3>1, <3>7, <3>8, FS_CardinalityType
    <3> HIDE DEF v
    <3>10. MaxInvited * (v + 1) = MaxInvited * v + MaxInvited /\ MaxInvited * v \in Nat
      BY <3>6, BoundsAreNumbers
    <3>11. Cardinality(T) <= MaxInvited * (v + 1)
      BY <1>2, <3>2, <3>5, <3>7, <3>8, <3>9, <3>10, BoundsAreNumbers
    <3> QED
      BY <3>4, <3>6, <3>11 DEF T
  <2> QED
    BY <2>2, <2>3
<1> QED
  BY <1>6 DEF FewInvited

\* Every step keeps the number of invitations that wait.
LEMMA InvitationsStayFew ==
  ASSUME IsFiniteSet(Workers), DelegationInv, RequestsDecided, FewInvited,
         OwnStep(0) \/ CascadingStep
  PROVE  FewInvited'
<1>1. delegations \in [DelegationId -> Delegation] /\ now \in Nat
  BY DEF DelegationInv, DelegationTypeOK
<1>2. CASE Quiet
  <2>1. \A u, a : NotInviting(u, a)' = NotInviting(u, a)
    BY <1>2 DEF Quiet, NotInviting, Invites
  <2> QED
    BY <1>2, <2>1, NoMoreWait DEF Quiet, NoneComesToWait, FewInvited
<1>3. ASSUME NEW w \in Workers, Finish(w), NoneComesToWait
      PROVE  FewInvited'
  <2>1. \A u, a : NotInviting(u, a) \subseteq NotInviting(u, a)'
    BY <1>3, FinishedInvitesNobody
  <2> QED
    BY <1>3, <2>1, NoMoreWait DEF NoneComesToWait, FewInvited
<1>4. ASSUME NEW w \in Workers, CommitAccept(w)
      PROVE  FewInvited'
  <2>1. now' = now /\ \A d \in DelegationId :
          delegations'[d] = delegations[d] \/ delegations'[d].status = "active"
    BY <1>1, <1>4 DEF CommitAccept, Delegation
  <2>2. NoneComesToWait
    BY <1>1, <2>1, WaitingRemains DEF Rows
  <2> QED
    BY <1>3, <1>4, <2>2 DEF CommitAccept
<1>5. ASSUME NEW w \in Workers, CommitPatch(w)
      PROVE  FewInvited'
  <2>1. /\ now' = now
        /\ delegations[txn[w].id].status # "pending"
        /\ \A d \in DelegationId :
             /\ delegations'[d].status = delegations[d].status
             /\ delegations'[d] = delegations[d] \/ d = txn[w].id
    BY <1>1, <1>5 DEF CommitPatch, Delegation, RequestsDecided, Decided
  <2>2. NoneComesToWait
    BY <1>1, <2>1, WaitingRemains DEF Rows
  <2> QED
    BY <1>3, <1>5, <2>2 DEF CommitPatch
<1>6. ASSUME NEW w \in Workers, RejectCommit(w)
      PROVE  FewInvited'
  <2>1. NoneComesToWait
    BY <1>6, WaitingStays DEF RejectCommit, NoneComesToWait
  <2> QED
    BY <1>3, <1>6, <2>1 DEF RejectCommit
<1>7. CASE OwnStep(0)
  BY <1>2, <1>4, <1>6, <1>7, StartsFew, CommitInsertInvites, KindsOfStep DEF Ends
<1>8. CASE CascadingStep
  <2>1. \A a \in Agents : OfAgent(a) \in SUBSET Rows
    BY DEF OfAgent
  <2> QED
    BY <1>2, <1>5, <1>8, <2>1, RevocationsAreQuiet DEF CascadingStep
<1> QED
  BY <1>7, <1>8

----------------------------------------------------------------------------
(* Theorems *)

\* The inductive invariant holds in every reachable state of the table.
THEOREM DelegationInvariance == DelegationSpec => []DelegationInv
<1>1. DelegationInit => DelegationInv
  BY DelegationInitially
<1>2. DelegationInv /\ [DelegationNext]_delegationVars => DelegationInv'
  BY OwnStepPreserves, CascadingStepPreserves, DelegationStutter DEF DelegationNext
<1> QED
  BY <1>1, <1>2, PTL DEF DelegationSpec

\* Columns and requests keep their types, for any number of overlapping requests.
THEOREM DelegationTypes == DelegationSpec => []DelegationTypeOK
<1>1. DelegationInv => DelegationTypeOK
  BY DEF DelegationInv
<1> QED
  BY <1>1, DelegationInvariance, PTL

\* No overlap of requests makes a delegation hold a permission that its creation
\* or an acceptance did not grant it: a patch that decided on stale permissions
\* still writes a subset of what was granted.
THEOREM NothingUngranted == DelegationSpec => []HoldsOnlyGranted
<1>1. DelegationInv => HoldsOnlyGranted
  BY DEF DelegationInv
<1> QED
  BY <1>1, DelegationInvariance, PTL

\* A step keeps a revoked row revoked: handlers write revoked_at with the clock,
\* which is never NULL, and no request in progress writes it back.
LEMMA RevokedStaysRevoked ==
  ASSUME DelegationInv, RowsPersist
  PROVE  /\ \A d \in Rows : IsRevoked(d) => IsRevoked(d)'
         /\ \A d \in DelegationId : delegations[d].status = "deleted" => d \notin Rows'
  BY DEF DelegationInv, DelegationTypeOK, RowsPersist, IsRevoked, None, Rows, Known

\* Revocation is permanent, whatever was in progress when it happened.
THEOREM RevocationPermanent == DelegationSpec => RevocationIsPermanent
<1>1. DelegationInv /\ [DelegationNext]_delegationVars
        => [/\ \A d \in Rows : IsRevoked(d) => IsRevoked(d)'
            /\ \A d \in DelegationId :
                 delegations[d].status = "deleted" => d \notin Rows']_delegationVars
  BY OwnStepPreserves, CascadingStepPreserves, DelegationStutter, RevokedStaysRevoked
     DEF DelegationNext
<1> QED
  BY <1>1, DelegationInvariance, PTL DEF DelegationSpec, RevocationIsPermanent

\* However requests overlap, what each has decided agrees with what it read.
LEMMA DecidedInvariance == DelegationSpec => [](DelegationInv /\ RequestsDecided)
<1>1. DelegationInit => DelegationInv /\ RequestsDecided
  BY DelegationInitially DEF DelegationInit, RequestsDecided, Decided, Idle
<1>2. DelegationInv /\ RequestsDecided /\ [DelegationNext]_delegationVars
        => (DelegationInv /\ RequestsDecided)'
  <2> SUFFICES ASSUME DelegationInv, RequestsDecided, [DelegationNext]_delegationVars
               PROVE  DelegationInv' /\ RequestsDecided'
    OBVIOUS
  <2>1. DelegationInv'
    BY OwnStepPreserves, CascadingStepPreserves, DelegationStutter DEF DelegationNext
  <2>2. ASSUME NEW w \in Workers, Ends(w) \/ CommitPatch(w)
        PROVE  RequestsDecided'
    <3>1. Finish(w)
      BY <2>2 DEF Ends, CommitInsert, RejectCommit, CommitAccept, CommitPatch
    <3> QED
      BY <2>2, <3>1, CommitsChangeNoStatus, EndKeepsDecisions
  <2>3. CASE OwnStep(0)
    BY <2>1, <2>2, <2>3, KindsOfStep, StayDecided
  <2>4. CASE CascadingStep
    <3>1. \A a \in Agents : OfAgent(a) \in SUBSET Rows
      BY DEF OfAgent
    <3> QED
      BY <2>1, <2>2, <2>4, <3>1, RevocationsAreQuiet, StayDecided DEF CascadingStep
  <2>5. CASE UNCHANGED delegationVars
    <3>1. UNCHANGED <<now, delegations>> /\ txn' = txn
      BY <2>5 DEF delegationVars
    <3> QED
      BY <2>1, <3>1 DEF RequestsDecided, Decided
  <2> QED
    BY <2>1, <2>3, <2>4, <2>5 DEF DelegationNext
<1> QED
  BY <1>1, <1>2, PTL DEF DelegationSpec

\* patch_delegation_permissions refuses to widen, and nothing else does it: however
\* requests overlap, an active delegation gains a permission only by a request that
\* another one overtook between its checks and its commit.
THEOREM OvertakenWiden == DelegationSpec => OnlyOvertakenWiden
<1>1. DelegationInv /\ RequestsDecided /\ [DelegationNext]_delegationVars
        => [\A d \in Rows :
              delegations[d].status = "active" =>
                \/ delegations'[d].perms \subseteq delegations[d].perms
                \/ \E w \in Workers :
                     Ending(w) /\ Overtaken(txn[w]) /\ txn[w].id = d]_delegationVars
  BY StepNarrows DEF DelegationNext
<1> QED
  BY <1>1, DecidedInvariance, PTL DEF DelegationSpec, OnlyOvertakenWiden

\* A user is invited again only when a request finds no invitation of theirs waiting:
\* however many requests run at once, those that wait are at most the ones these can send.
THEOREM InvitationsBounded ==
  ASSUME IsFiniteSet(Workers)
  PROVE  DelegationSpec => []InvitationsDoNotPileUp
<1>1. DelegationInit => FewInvited
  <2> SUFFICES ASSUME DelegationInit, NEW u \in Users, NEW a \in Agents
               PROVE  Cardinality(Waiting(u, a)) <= MaxInvited * Cardinality(NotInviting(u, a))
    BY DEF FewInvited
  <2> DEFINE n == Cardinality(NotInviting(u, a))
  <2>1. Waiting(u, a) = {}
    BY DEF DelegationInit, AbsentRow, Waiting, Between, Rows
  <2>2. NotInviting(u, a) \in SUBSET Workers
    BY DEF NotInviting
  <2>3. n \in Nat
    BY <2>2, FS_Subset, FS_CardinalityType
  <2> HIDE DEF n
  <2>4. 0 <= MaxInvited * n
    BY <2>3, BoundsAreNumbers
  <2> QED
    BY <2>1, <2>4, FS_EmptySet DEF n
<1>2. DelegationInv /\ RequestsDecided /\ FewInvited /\ [DelegationNext]_delegationVars
        => FewInvited'
  <2> SUFFICES ASSUME DelegationInv, RequestsDecided, FewInvited,
                      [DelegationNext]_delegationVars
               PROVE  FewInvited'
    OBVIOUS
  <2>1. CASE UNCHANGED delegationVars
    <3>1. UNCHANGED <<now, delegations>> /\ txn' = txn
      BY <2>1 DEF delegationVars
    <3>2. \A u, a : NotInviting(u, a)' = NotInviting(u, a)
      BY <3>1 DEF NotInviting, Invites
    <3> QED
      BY <3>1, <3>2, WaitingStays DEF FewInvited
  <2> QED
    BY <2>1, InvitationsStayFew DEF DelegationNext
<1>3. FewInvited => InvitationsDoNotPileUp
  <2> SUFFICES ASSUME FewInvited, NEW u \in Users, NEW a \in Agents
               PROVE  Cardinality(Waiting(u, a)) <= MaxInvited * Cardinality(Workers)
    BY DEF InvitationsDoNotPileUp, Waiting
  <2> DEFINE S == Waiting(u, a)
             V == NotInviting(u, a)
  <2>1. IsFiniteSet(S) /\ Cardinality(S) <= MaxInvited * Cardinality(V)
    BY WaitingIsFinite DEF FewInvited
  <2>2. V \subseteq Workers /\ MaxInvited \in Nat
    BY BoundsAreNumbers DEF NotInviting
  <2> HIDE DEF S, V
  <2>3. Cardinality(S) <= MaxInvited * Cardinality(Workers)
    BY <2>1, <2>2, FewerPerMore
  <2> QED
    BY <2>3 DEF S
<1> QED
  BY <1>1, <1>2, <1>3, DecidedInvariance, PTL DEF DelegationSpec
=============================================================================
