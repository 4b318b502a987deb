----------------------------- MODULE Delegations -----------------------------
(***************************************************************************)
(* The delegation_tokens table of the control plane (Layer 2 of the token  *)
(* chain): a user lends an agent a set of permissions for a bounded time.  *)
(*                                                                         *)
(* The handlers are synchronous functions that a web server runs on a pool *)
(* of threads, each with its own database session.  A handler that reads   *)
(* rows, decides and then writes is therefore two steps here: a Begin step *)
(* that evaluates every check of the code against the committed rows, and  *)
(* a Commit step that applies the write.  Workers is the set of requests   *)
(* that may be in progress at once; with one worker the handlers run one   *)
(* after another.  A handler that is a single UPDATE is a single step.     *)
(***************************************************************************)
EXTENDS Naturals, FiniteSets, Sequences

CONSTANTS
  Users,            \* delegators
  Agents,
  Permissions,      \* "service:resource:action" strings
  Workers,          \* requests in progress at once
  Lifetimes,        \* delegation lifetimes a request may ask for
  TemplateLifetime, \* DelegationTemplate.default_ttl_days
  ScopeSets,        \* what a user's connected services may allow (bound)
  TemplateShapes,   \* ceilings an administrator may write (bound)
  MaxInvited,       \* invitations one request may send (bound)
  MaxDelegations,   \* rows of delegation_tokens (bound)
  MaxTime           \* last tick of the clock (bound)

ASSUME LifetimesAreTimes == Lifetimes \subseteq Nat /\ TemplateLifetime \in Nat
ASSUME ScopesArePermissions == ScopeSets \subseteq SUBSET Permissions
ASSUME ShapesAreCeilings ==
  TemplateShapes \subseteq [max : SUBSET Permissions, blocked : SUBSET Permissions]
ASSUME SomebodyExists == Users # {} /\ Agents # {}
ASSUME BoundsAreNumbers ==
  MaxInvited \in Nat \ {0} /\ MaxDelegations \in Nat /\ MaxTime \in Nat

VARIABLES
  now,          \* the clock both servers read; ticks stand for hours
  scopes,       \* what each user's connected services allow; {} = none connected
  templates,    \* delegation_templates: the ceiling of each agent
  delegations,  \* delegation_tokens, by order of created_at
  created,      \* how many rows exist
  granted,      \* history: every permission a delegation was ever granted
  txn           \* what each request in progress has decided to write

delegationVars == <<now, scopes, templates, delegations, created, granted, txn>>

----------------------------------------------------------------------------
(* Rows *)

DelegationId == 1 .. MaxDelegations
None         == 0     \* SQL NULL, of ids and of times: the clock starts at 1

\* A row that was deleted keeps its last content, as history that no handler reads.
Status == {"absent", "pending", "active", "revoked", "expired", "deleted"}

Delegation ==
  [agent : Agents, delegator : Users, perms : SUBSET Permissions, template : BOOLEAN,
   status : Status, expires : Nat, revokedAt : Nat]

Template == [exists : BOOLEAN, max : SUBSET Permissions, blocked : SUBSET Permissions]

NoTemplate == [exists |-> FALSE, max |-> {}, blocked |-> {}]

AbsentRow ==
  [agent |-> CHOOSE a \in Agents : TRUE, delegator |-> CHOOSE u \in Users : TRUE,
   perms |-> {}, template |-> FALSE, status |-> "absent", expires |-> 0, revokedAt |-> None]

Rows == {d \in DelegationId : delegations[d].status \notin {"absent", "deleted"}}

IsExpired(d) == now >= delegations[d].expires
IsRevoked(d) == delegations[d].revokedAt # None
IsValid(d)   == ~IsExpired(d) /\ ~IsRevoked(d)

\* What an in-progress request holds between its reads and its commit.  A patch also
\* remembers, for the properties, the permissions it compared with; "before" counts the
\* sessions that existed when it began (AgentSessions).
Idle == [kind |-> "idle"]
InsertTxn ==
  [kind : {"insert"}, rows : Seq(Delegation), replaces : DelegationId \cup {None}]
PatchTxn ==
  [kind : {"patch"}, id : DelegationId, perms : SUBSET Permissions, narrows : BOOLEAN,
   expires : Nat, read : SUBSET Permissions, before : Nat]
AcceptTxn == [kind : {"accept"}, id : DelegationId, perms : SUBSET Permissions]
\* Handlers of AgentSessions: one that has read a delegation and will insert a
\* session for it, and a verification that found none.
SessionTxn ==
  [kind : {"verify", "bootstrap"}, id : DelegationId, agent : Agents,
   perms : SUBSET Permissions, expires : Nat, exp : Nat]
MvpTxn == [kind : {"mvp"}, agent : Agents, requested : DelegationId \cup {None}]
Txn == {Idle} \cup InsertTxn \cup PatchTxn \cup AcceptTxn \cup SessionTxn \cup MvpTxn

Free(w)        == txn[w] = Idle
Open(kind)     == {w \in Workers : txn[w].kind = kind}
Begin(w, t)    == Free(w) /\ txn' = [txn EXCEPT ![w] = t]
Finish(w)      == txn' = [txn EXCEPT ![w] = Idle]

\* Room for n more rows once every request in progress has committed.
RoomFor(n) == created + MaxInvited * Cardinality(Open("insert")) + n <= MaxDelegations

----------------------------------------------------------------------------
(* The checks the handlers make *)

\* _validate_permissions_subset: connected services exist and allow every permission.
WithinScopes(u, P) == scopes[u] # {} /\ P \subseteq scopes[u]

\* _validate_template_ceiling: an empty ceiling list means "no ceiling", not "nothing".
WithinCeiling(a, P) ==
  templates[a].exists =>
    /\ P \cap templates[a].blocked = {}
    /\ templates[a].max # {} => P \subseteq templates[a].max

TemplateEffective(a) == templates[a].max \ templates[a].blocked

Between(u, a) == {d \in Rows : delegations[d].delegator = u /\ delegations[d].agent = a}

Active(u, a) == {d \in Between(u, a) : IsValid(d) /\ delegations[d].status = "active"}

\* A mistaken form: an invitation that is still waiting does not block another one.
BlockingActiveOnly(u, a) == Active(u, a)

Blocking(u, a) ==
  {d \in Between(u, a) : IsValid(d) /\ delegations[d].status \in {"active", "pending"}}

NewRow(u, a, P, ttl, status, fromTemplate) ==
  [agent |-> a, delegator |-> u, perms |-> P, template |-> fromTemplate,
   status |-> status, expires |-> now + ttl, revokedAt |-> None]

Insert(rows, replaces) == [kind |-> "insert", rows |-> rows, replaces |-> replaces]

----------------------------------------------------------------------------
(* Environment of the table: the clock, connected services, templates *)

\* A handler takes milliseconds and a tick is an hour: the clock does not move
\* while a request is in progress.
Tick ==
  /\ now < MaxTime
  /\ \A w \in Workers : Free(w)
  /\ now' = now + 1
  /\ UNCHANGED <<scopes, templates, delegations, created, granted, txn>>

\* The user connects, re-connects or disconnects backend services.
ChangeScopes(u, S) ==
  /\ scopes' = [scopes EXCEPT ![u] = S]
  /\ UNCHANGED <<now, templates, delegations, created, granted, txn>>

\* create_template and update_template; existing delegations are not revisited.
PutTemplate(a, shape) ==
  /\ templates' =
       [templates EXCEPT ![a] = [exists |-> TRUE, max |-> shape.max, blocked |-> shape.blocked]]
  /\ UNCHANGED <<now, scopes, delegations, created, granted, txn>>

\* delete_template: the foreign key of the delegations is ON DELETE SET NULL.
DeleteTemplate(a) ==
  /\ templates[a].exists
  /\ templates' = [templates EXCEPT ![a] = NoTemplate]
  /\ delegations' =
       [d \in DelegationId |->
          IF delegations[d].agent = a THEN [delegations[d] EXCEPT !.template = FALSE]
                                      ELSE delegations[d]]
  /\ UNCHANGED <<now, scopes, created, granted, txn>>

----------------------------------------------------------------------------
(* Creating delegations *)

\* POST /auth/delegate inserts the row itself: of the checks of DelegationService
\* it makes only the one on connected scopes.
BeginUserDelegation(w, u, a, P, ttl) ==
  /\ RoomFor(1)
  /\ WithinScopes(u, P)
  /\ Begin(w, Insert(<<NewRow(u, a, P, ttl, "active", FALSE)>>, None))
  /\ UNCHANGED <<now, scopes, templates, delegations, created, granted>>

\* POST /admin/delegations.
BeginAdminDelegation(w, u, a, P, ttl) ==
  /\ RoomFor(1)
  /\ Begin(w, Insert(<<NewRow(u, a, P, ttl, "active", FALSE)>>, None))
  /\ UNCHANGED <<now, scopes, templates, delegations, created, granted>>

\* DelegationService.create_delegation revokes the pair's active delegation first.
\* No endpoint of the control plane calls it: it is the service's own contract.
BeginServiceDelegation(w, u, a, P, ttl) ==
  /\ RoomFor(1)
  /\ WithinScopes(u, P)
  /\ WithinCeiling(a, P)
  /\ \E old \in IF Active(u, a) = {} THEN {None} ELSE Active(u, a) :
       Begin(w, Insert(<<NewRow(u, a, P, ttl, "active", FALSE)>>, old))
  /\ UNCHANGED <<now, scopes, templates, delegations, created, granted>>

\* A mistaken form: the invitations carry the template's permissions already.
BeginInviteWithPermissions(w, invited, a) ==
  /\ RoomFor(Len(invited))
  /\ templates[a].exists
  /\ \A i \in DOMAIN invited : Blocking(invited[i], a) = {}
  /\ Begin(w, Insert([i \in DOMAIN invited |->
                      NewRow(invited[i], a, TemplateEffective(a), TemplateLifetime, "pending",
                             TRUE)],
                     None))
  /\ UNCHANGED <<now, scopes, templates, delegations, created, granted>>

\* invite_users_to_template.  "invited" is the list of e-mail addresses without the
\* users it skips; the rows it adds are not flushed while it looks for others, so a
\* user who is named twice is invited twice.
BeginInvite(w, invited, a) ==
  /\ RoomFor(Len(invited))
  /\ templates[a].exists
  /\ \A i \in DOMAIN invited : Blocking(invited[i], a) = {}
  /\ Begin(w, Insert([i \in DOMAIN invited |->
                      NewRow(invited[i], a, {}, TemplateLifetime, "pending", TRUE)],
                     None))
  /\ UNCHANGED <<now, scopes, templates, delegations, created, granted>>

\* provision_for_user at SSO login, for a template that is visible to the user and
\* provisioned on login.
BeginProvision(w, u, a) ==
  /\ RoomFor(1)
  /\ templates[a].exists
  /\ Active(u, a) = {}
  /\ TemplateEffective(a) # {}
  /\ WithinScopes(u, TemplateEffective(a))
  /\ Begin(w, Insert(<<NewRow(u, a, TemplateEffective(a), TemplateLifetime, "active", TRUE)>>,
                     None))
  /\ UNCHANGED <<now, scopes, templates, delegations, created, granted>>

RevokedRow(row) == [row EXCEPT !.revokedAt = now, !.status = "revoked"]

TemplateGone(rows) ==
  \E i \in DOMAIN rows : rows[i].template /\ ~templates[rows[i].agent].exists

\* What the database refuses to commit: a row whose template is gone (foreign key), an
\* UPDATE of a row that was deleted since it was read (the session finds no row to
\* update), a session of such a row (foreign key).
Refused(t) ==
  \/ t.kind = "insert" /\ (TemplateGone(t.rows) \/ t.replaces \notin Rows \cup {None})
  \/ t.kind \in {"patch", "accept", "verify", "bootstrap"} /\ t.id \notin Rows

NewIds(rows) == created + 1 .. created + Len(rows)

CommitInsert(w) ==
  /\ txn[w].kind = "insert"
  /\ ~Refused(txn[w])
  /\ LET rows == txn[w].rows IN
       /\ created + Len(rows) <= MaxDelegations
       /\ created' = created + Len(rows)
       /\ delegations' =
            [d \in DelegationId |->
               CASE d \in NewIds(rows)  -> rows[d - created]
                 [] d = txn[w].replaces -> RevokedRow(delegations[d])
                 [] OTHER               -> delegations[d]]
       /\ granted' =
            [d \in DelegationId |->
               IF d \in NewIds(rows) THEN rows[d - created].perms ELSE granted[d]]
  /\ Finish(w)
  /\ UNCHANGED <<now, scopes, templates>>

\* The transaction is rolled back as a whole, and the request fails.
RejectCommit(w) ==
  /\ Refused(txn[w])
  /\ Finish(w)
  /\ UNCHANGED <<now, scopes, templates, delegations, created, granted>>

----------------------------------------------------------------------------
(* Changing delegations *)

\* A mistaken form: the new permissions are not compared with the current ones.
BeginPatchUnchecked(w, d, newPerms, P, newExpiry, e, before) ==
  /\ d \in Rows
  /\ IsValid(d)
  /\ delegations[d].status # "pending"
  /\ newExpiry => e > now
  /\ Begin(w, [kind |-> "patch", id |-> d, narrows |-> newPerms,
               perms |-> IF newPerms THEN P ELSE {},
               expires |-> IF newExpiry THEN e ELSE None,
               read |-> delegations[d].perms, before |-> before])
  /\ UNCHANGED <<now, scopes, templates, delegations, created, granted>>

\* patch_delegation_permissions up to its commit, by the delegator or an
\* administrator.  "newPerms" and "newExpiry" say which fields the body holds;
\* with neither, only the constraints are patched.  An equal value is not written.
\* sync_status finds the row valid and active, and leaves it alone.
BeginPatch(w, d, newPerms, P, newExpiry, e, before) ==
  /\ d \in Rows
  /\ IsValid(d)
  /\ delegations[d].status # "pending"
  /\ newPerms =>
       /\ P \subseteq delegations[d].perms
       /\ WithinScopes(delegations[d].delegator, P)
       /\ WithinCeiling(delegations[d].agent, P)
  /\ newExpiry => e > now
  /\ LET narrows == newPerms /\ P # delegations[d].perms IN
       Begin(w, [kind |-> "patch", id |-> d, narrows |-> narrows,
                 perms |-> IF narrows THEN P ELSE {},
                 expires |-> IF newExpiry THEN e ELSE None,
                 read |-> delegations[d].perms, before |-> before])
  /\ UNCHANGED <<now, scopes, templates, delegations, created, granted>>

\* The row's part of the patch; AgentSessions!CommitPatchAndCascade adds the sessions'.
CommitPatch(w) ==
  /\ txn[w].kind = "patch"
  /\ ~Refused(txn[w])
  /\ LET d == txn[w].id IN
       delegations' =
         [delegations EXCEPT
            ![d].perms   = IF txn[w].narrows THEN txn[w].perms ELSE @,
            ![d].expires = IF txn[w].expires # None THEN txn[w].expires ELSE @]
  /\ Finish(w)
  /\ UNCHANGED <<now, scopes, templates, created, granted>>

\* accept_delegation: the invited user turns the pending row into an active one
\* with the template's permissions of that moment.
BeginAccept(w, d) ==
  LET row == delegations[d] IN
  /\ row.status = "pending"
  /\ IsValid(d)
  /\ row.template
  /\ WithinScopes(row.delegator, TemplateEffective(row.agent))
  /\ Begin(w, [kind |-> "accept", id |-> d, perms |-> TemplateEffective(row.agent)])
  /\ UNCHANGED <<now, scopes, templates, delegations, created, granted>>

\* A mistaken form: the acceptance writes the whole row back as it was read.
CommitAcceptWholeRow(w) ==
  /\ txn[w].kind = "accept"
  /\ ~Refused(txn[w])
  /\ LET d == txn[w].id IN
       /\ delegations' =
            [delegations EXCEPT ![d].perms = txn[w].perms, ![d].status = "active",
                                ![d].revokedAt = None]
       /\ granted' = [granted EXCEPT ![d] = @ \cup txn[w].perms]
  /\ Finish(w)
  /\ UNCHANGED <<now, scopes, templates, created>>

CommitAccept(w) ==
  /\ txn[w].kind = "accept"
  /\ ~Refused(txn[w])
  /\ LET d == txn[w].id IN
       /\ delegations' =
            [delegations EXCEPT ![d].perms = txn[w].perms, ![d].status = "active"]
       /\ granted' = [granted EXCEPT ![d] = @ \cup txn[w].perms]
  /\ Finish(w)
  /\ UNCHANGED <<now, scopes, templates, created>>

----------------------------------------------------------------------------
(* Revoking delegations: no handler here looks at agent sessions *)

\* DELETE /auth/delegations/{id} by the delegator; a second call changes nothing.
RevokeByUser(d) ==
  /\ d \in Rows
  /\ ~IsRevoked(d)
  /\ delegations' = [delegations EXCEPT ![d] = RevokedRow(@)]
  /\ UNCHANGED <<now, scopes, templates, created, granted, txn>>

\* DELETE /admin/delegations/{id} stamps revoked_at again and leaves the status.
RevokeByAdmin(d) ==
  /\ d \in Rows
  /\ delegations' = [delegations EXCEPT ![d].revokedAt = now]
  /\ UNCHANGED <<now, scopes, templates, created, granted, txn>>

\* revoke_all_for_user and revoke_all_for_agent: the rows still valid.
RevokeAllValid(D) ==
  /\ delegations' =
       [d \in DelegationId |->
          IF d \in D /\ IsValid(d) THEN RevokedRow(delegations[d]) ELSE delegations[d]]
  /\ UNCHANGED <<now, scopes, templates, created, granted, txn>>

\* The bulk UPDATE of the fleet and emergency endpoints over rows D: revoked_at
\* only, of rows not revoked yet.
BulkRevoke(D) ==
  /\ delegations' =
       [d \in DelegationId |->
          IF d \in D /\ ~IsRevoked(d) THEN [delegations[d] EXCEPT !.revokedAt = now]
                                      ELSE delegations[d]]
  /\ UNCHANGED <<now, scopes, templates, created, granted, txn>>

OfAgent(a) == {d \in Rows : delegations[d].agent = a}
OfUser(u)  == {d \in Rows : delegations[d].delegator = u}

DisableDelegations == BulkRevoke(Rows)

\* delete_agent removes the agent's delegations, and by foreign key their sessions
\* (AgentSessions!SessionRows); no request in progress is waited for, and an agent of
\* the same id may be registered again.
DeleteAgent(a) ==
  /\ delegations' =
       [d \in DelegationId |->
          IF d \in OfAgent(a) THEN [delegations[d] EXCEPT !.status = "deleted"]
                              ELSE delegations[d]]
  /\ UNCHANGED <<now, scopes, templates, created, granted, txn>>

----------------------------------------------------------------------------
(* The table on its own *)

DelegationInit ==
  /\ now = 1
  /\ scopes = [u \in Users |-> {}]
  /\ templates = [a \in Agents |-> NoTemplate]
  /\ delegations = [d \in DelegationId |-> AbsentRow]
  /\ created = 0
  /\ granted = [d \in DelegationId |-> {}]
  /\ txn = [w \in Workers |-> Idle]

Invitees == UNION {[1 .. n -> Users] : n \in 1 .. MaxInvited}

BeginCreate(w, a) ==
  \/ \E u \in Users, P \in SUBSET Permissions, ttl \in Lifetimes :
       \/ BeginUserDelegation(w, u, a, P, ttl)
       \/ BeginAdminDelegation(w, u, a, P, ttl)
       \/ BeginServiceDelegation(w, u, a, P, ttl)
  \/ \E invited \in Invitees : BeginInvite(w, invited, a)
  \/ \E u \in Users : BeginProvision(w, u, a)

\* The steps that write no other table, of which "before" rows of sessions exist.
OwnStep(before) ==
  \/ Tick
  \/ \E u \in Users, S \in ScopeSets : ChangeScopes(u, S)
  \/ \E a \in Agents, shape \in TemplateShapes : PutTemplate(a, shape)
  \/ \E a \in Agents : DeleteTemplate(a)
  \/ \E w \in Workers, a \in Agents : BeginCreate(w, a)
  \/ \E w \in Workers, d \in DelegationId :
       \/ BeginAccept(w, d)
       \/ \E newPerms, newExpiry \in BOOLEAN, ttl \in Lifetimes :
            \E P \in SUBSET Permissions :
              BeginPatch(w, d, newPerms, P, newExpiry, now + ttl, before)
  \/ \E w \in Workers : CommitInsert(w) \/ RejectCommit(w) \/ CommitAccept(w)
  \/ \E d \in DelegationId : RevokeByUser(d) \/ RevokeByAdmin(d)
  \/ \E u \in Users : RevokeAllValid(OfUser(u))
  \/ \E a \in Agents : RevokeAllValid(OfAgent(a)) \/ DeleteAgent(a)
  \/ DisableDelegations

\* The steps whose handler also revokes agent sessions (see AgentSessions).
CascadingStep ==
  \/ \E w \in Workers : CommitPatch(w)
  \/ \E a \in Agents : BulkRevoke(OfAgent(a))

DelegationNext == OwnStep(0) \/ CascadingStep

DelegationSpec == DelegationInit /\ [][DelegationNext]_delegationVars

----------------------------------------------------------------------------
(* Properties *)

\* Types of the table's columns and of the in-progress requests.
DelegationTypeOK ==
  /\ now \in Nat \ {0}
  /\ scopes \in [Users -> SUBSET Permissions]
  /\ templates \in [Agents -> Template]
  /\ delegations \in [DelegationId -> Delegation]
  /\ created \in 0 .. MaxDelegations
  /\ granted \in [DelegationId -> SUBSET Permissions]
  /\ txn \in [Workers -> Txn]

\* However requests overlap, a delegation never holds a permission that neither
\* its creation nor an acceptance by its delegator granted.
HoldsOnlyGranted ==
  \A d \in DelegationId : delegations[d].perms \subseteq granted[d]

\* However often an agent's users are invited, and however the requests overlap, no more
\* invitations of one user wait than the requests that run at once can send
\* (_get_blocking_delegation): a request that invites found none that waits.
InvitationsDoNotPileUp ==
  \A u \in Users, a \in Agents :
    Cardinality({d \in Between(u, a) : IsValid(d) /\ delegations[d].status = "pending"})
      <= MaxInvited * Cardinality(Workers)

\* "PermissionWideningError": an active delegation's permissions only shrink.  Requests
\* that overlap break this.
PermissionsNeverWiden ==
  [][\A d \in Rows :
       delegations[d].status = "active" =>
         delegations'[d].perms \subseteq delegations[d].perms]_delegationVars

\* Another request has changed what this one read of its row and decided on.
Overtaken(t) ==
  \/ t.kind = "patch" /\ delegations[t.id].perms # t.read
  \/ t.kind = "accept" /\ delegations[t.id].status # "pending"

Ending(w) == ~Free(w) /\ txn'[w] = Idle

\* patch_delegation_permissions refuses to widen: the permissions of an active
\* delegation only shrink, except by a request that another one overtook between its
\* checks and its commit.
OnlyOvertakenWiden ==
  [][\A d \in Rows :
       delegations[d].status = "active" =>
         \/ delegations'[d].perms \subseteq delegations[d].perms
         \/ \E w \in Workers : Ending(w) /\ Overtaken(txn[w]) /\ txn[w].id = d]_delegationVars

\* "There is no unrevoke": no later handler, and no request already in progress
\* when the delegation is revoked, makes it valid again.  Nor does a row come back that
\* was deleted with its agent.
RevocationIsPermanent ==
  [][/\ \A d \in Rows : IsRevoked(d) => IsRevoked(d)'
     /\ \A d \in DelegationId :
          delegations[d].status = "deleted" => d \notin Rows']_delegationVars
=============================================================================
