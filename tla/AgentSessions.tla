---------------------------- MODULE AgentSessions ----------------------------
(***************************************************************************)
(* Agent sessions (Layer 3 of the token chain) on top of Delegations: how  *)
(* an agent proves its identity, which bearer tokens it holds, how they    *)
(* are refreshed and revoked, and which of them the gateway admits.        *)
(*                                                                         *)
(* The control plane keeps sessions in the database.  The gateway never    *)
(* reads that table: it accepts a token by its claims alone, unless Redis  *)
(* holds a revocation marker for the token's session.                      *)
(***************************************************************************)
EXTENDS Delegations

CONSTANTS
  SessionTTL,    \* AgentSessionService.SESSION_TTL_HOURS
  RefreshTTL,    \* lifetime of a refreshed token
  TokenTTL,      \* lifetime of a bootstrap or delegation-scoped token
  Grace,         \* REFRESH_GRACE_SECONDS
  MinMarkerTTL,  \* least lifetime of a revocation marker
  RedisFailures, \* whether Redis may become unreachable (bound)
  MaxSessions,   \* rows of agent_sessions (bound)
  MaxTokens      \* bearer tokens handed out (bound)

ASSUME SessionTimes ==
  /\ SessionTTL \in Nat /\ RefreshTTL \in Nat /\ TokenTTL \in Nat /\ Grace \in Nat
  /\ MinMarkerTTL \in Nat
ASSUME SessionBounds == MaxSessions \in Nat /\ MaxTokens \in Nat
ASSUME ShortTokens == TokenTTL <= SessionTTL + RefreshTTL

VARIABLES
  sessions,   \* agent_sessions, by order of created_at
  opened,     \* how many rows exist
  tokens,     \* every signed bearer token an agent holds
  marker,     \* Redis: when the revocation marker of a session lapses, or None
  redisUp     \* whether the servers reach Redis

sessionVars == <<sessions, opened, tokens, marker, redisUp>>
vars == <<delegationVars, sessionVars>>

----------------------------------------------------------------------------

SessionId == 1 .. MaxSessions
Mvp       == MaxSessions + 1   \* the id of a session that is in no table
\* None as a session id is the claim "" of a token issued without a session.

Session ==
  [agent : Agents, delegation : DelegationId \cup {None}, perms : SUBSET Permissions,
   active : BOOLEAN, expires : Nat, revokedAt : Nat]

Token ==
  [agent : Agents, delegation : DelegationId \cup {None}, perms : SUBSET Permissions,
   session : SessionId \cup {None, Mvp}, exp : Nat]

NoSession ==
  [agent |-> CHOOSE a \in Agents : TRUE, delegation |-> None, perms |-> {},
   active |-> FALSE, expires |-> 0, revokedAt |-> None]

\* The rows that exist: the foreign key of a session to its delegation is ON DELETE
\* CASCADE, so a session goes with its delegation.
SessionRows == {s \in 1 .. opened : sessions[s].delegation \in Rows}

SessionRevoked(s) == sessions[s].revokedAt # None
SessionExpired(s) == now >= sessions[s].expires
SessionValid(s)   == sessions[s].active /\ ~SessionExpired(s) /\ ~SessionRevoked(s)

LatestOf(S) == CHOOSE x \in S : \A y \in S : y <= x

\* The newest row of a set of ids, or None.
Newest(S) == IF S = {} THEN None ELSE LatestOf(S)

\* The newest delegation of an agent that is not revoked: what verification looks
\* up.  It may be expired, and an older one may still be valid.
NewestUnrevoked(a) == Newest({d \in OfAgent(a) : ~IsRevoked(d)})

\* The session a delegation-scoped token is tied to: the newest active one of the
\* agent, whichever delegation it was opened for.
SessionToReuse(a) == Newest({s \in SessionRows : sessions[s].agent = a /\ sessions[s].active})

\* Room for one more row, and token, once every request in progress has committed.
RoomForSession == opened + Cardinality(Open("verify") \cup Open("bootstrap")) < MaxSessions
RoomForToken ==
  Cardinality(tokens) + Cardinality(Open("verify") \cup Open("bootstrap") \cup Open("mvp"))
    < MaxTokens

Issue(t) == tokens' = tokens \cup {t}

----------------------------------------------------------------------------
(* Opening sessions *)

\* verify_and_create_session up to its commit: it reads the newest
\* delegation; "requested" is the delegation the body names, which only the
\* in-memory session uses.  The agent has answered its challenge.  Verifications
\* run on the event loop, one at a time.
BeginVerify(w, a, requested) ==
  /\ Open("verify") \cup Open("mvp") = {}
  /\ RoomForSession /\ RoomForToken
  /\ LET d == NewestUnrevoked(a) IN
       IF d # None /\ IsValid(d)
       THEN Begin(w, [kind |-> "verify", id |-> d, agent |-> a,
                      perms |-> delegations[d].perms,
                      expires |-> now + SessionTTL, exp |-> now + SessionTTL])
       ELSE Begin(w, [kind |-> "mvp", agent |-> a, requested |-> requested])
  /\ UNCHANGED <<now, scopes, templates, delegations, created, granted,
                 sessions, opened, tokens, marker, redisUp>>

\* bootstrap_gcp_agent up to its commit, for an agent that has a delegation.
BeginBootstrap(w, a) ==
  /\ RoomForSession /\ RoomForToken
  /\ LET D == {d \in OfAgent(a) : IsValid(d)} IN
       /\ D # {}
       /\ Begin(w, [kind |-> "bootstrap", id |-> LatestOf(D), agent |-> a,
                    perms |-> delegations[LatestOf(D)].perms,
                    expires |-> now + SessionTTL, exp |-> now + TokenTTL])
  /\ UNCHANGED <<now, scopes, templates, delegations, created, granted,
                 sessions, opened, tokens, marker, redisUp>>

\* The new row of agent_sessions and the token that carries its id.
CommitSession(w) ==
  /\ txn[w].kind \in {"verify", "bootstrap"}
  /\ ~Refused(txn[w])
  /\ opened < MaxSessions
  /\ opened' = opened + 1
  /\ sessions' =
       [sessions EXCEPT ![opened + 1] =
          [agent |-> txn[w].agent, delegation |-> txn[w].id, perms |-> txn[w].perms,
           active |-> TRUE, expires |-> txn[w].expires, revokedAt |-> None]]
  /\ Issue([agent |-> txn[w].agent, delegation |-> txn[w].id, perms |-> txn[w].perms,
            session |-> opened + 1, exp |-> txn[w].exp])
  /\ Finish(w)
  /\ UNCHANGED <<now, scopes, templates, delegations, created, granted,
                 marker, redisUp>>

\* _create_mvp_session reads the newest delegation a second time.
CommitMvp(w) ==
  /\ txn[w].kind = "mvp"
  /\ LET a     == txn[w].agent
         d     == NewestUnrevoked(a)
         found == d # None /\ IsValid(d)
     IN Issue([agent      |-> a,
               delegation |-> IF txn[w].requested = None /\ found THEN d
                                                                  ELSE txn[w].requested,
               perms      |-> IF found THEN delegations[d].perms ELSE {},
               session    |-> Mvp,
               exp        |-> now + SessionTTL])
  /\ Finish(w)
  /\ UNCHANGED <<now, scopes, templates, delegations, created, granted,
                 sessions, opened, marker, redisUp>>

\* bootstrap_gcp_agent for an agent without delegation: a token to discover some.
BootstrapDiscovery(a) ==
  /\ RoomForToken
  /\ \A d \in OfAgent(a) : ~IsValid(d)
  /\ Issue([agent |-> a, delegation |-> None, perms |-> {}, session |-> None,
            exp |-> now + TokenTTL])
  /\ UNCHANGED <<delegationVars, sessions, opened, marker, redisUp>>

----------------------------------------------------------------------------
(* Tokens for tokens *)

Live(t) == now <= t.exp

\* A mistaken form: the delegation may be another agent's.
DelegationTokenOfAny(t, d) ==
  /\ RoomForToken
  /\ Live(t)
  /\ d \in Rows
  /\ IsValid(d)
  /\ Issue([agent |-> t.agent, delegation |-> d, perms |-> delegations[d].perms,
            session |-> SessionToReuse(t.agent), exp |-> now + TokenTTL])
  /\ UNCHANGED <<delegationVars, sessions, opened, marker, redisUp>>

\* issue_delegation_token: any live token of the agent buys one for a delegation.
DelegationToken(t, d) ==
  /\ RoomForToken
  /\ Live(t)
  /\ d \in OfAgent(t.agent)
  /\ IsValid(d)
  /\ Issue([agent |-> t.agent, delegation |-> d, perms |-> delegations[d].perms,
            session |-> SessionToReuse(t.agent), exp |-> now + TokenTTL])
  /\ UNCHANGED <<delegationVars, sessions, opened, marker, redisUp>>

\* A mistaken form: the session is not looked at.
AgentRefreshUnchecked(t) ==
  /\ RoomForToken
  /\ now <= t.exp + Grace
  /\ t.session # None
  /\ Issue([t EXCEPT !.exp = now + RefreshTTL])
  /\ UNCHANGED <<delegationVars, sessions, opened, marker, redisUp>>

\* agent_refresh looks at the row of the token's session, when there is one, and never
\* at its delegation.
AgentRefresh(t) ==
  /\ RoomForToken
  /\ now <= t.exp + Grace
  /\ t.session # None
  /\ t.session \in SessionRows => SessionValid(t.session)
  /\ Issue([t EXCEPT !.exp = now + RefreshTTL])
  /\ UNCHANGED <<delegationVars, sessions, opened, marker, redisUp>>

----------------------------------------------------------------------------
(* Revoking sessions *)

\* A mistaken form: the row is stamped and stays active.
StampedSession(row) == [row EXCEPT !.revokedAt = now]

RevokedSession(row) == [row EXCEPT !.active = FALSE, !.revokedAt = now]

AtLeast(x, y) == IF x >= y THEN x ELSE y

\* A mistaken form: every marker gets the shortest lifetime.
MarkerLapseShort(s) == {now + MinMarkerTTL}

\* When the marker written now for session s may lapse (ttl_seconds_until, setex): the
\* lifetime is cut to whole seconds, so that the marker may end within the last second
\* before the session does.  A tick is at least that second.
MarkerLapse(s) ==
  {AtLeast(end, now + MinMarkerTTL) : end \in {sessions[s].expires - 1, sessions[s].expires}}

\* agent_revoke, by the holder of any live token; without Redis only the row changes.
AgentRevoke(t, s) ==
  /\ now < t.exp
  /\ s \in SessionRows
  /\ sessions' = [sessions EXCEPT ![s] = RevokedSession(@)]
  /\ IF redisUp THEN \E end \in MarkerLapse(s) : marker' = [marker EXCEPT ![s] = end]
                ELSE UNCHANGED marker
  /\ UNCHANGED <<delegationVars, opened, tokens, redisUp>>

\* CommitPatch of a delegation also revokes its active sessions, in the table only: those
\* it selected, at some moment between its checks and its commit, when "last" was the
\* newest session.
CommitPatchAndCascade(w, last) ==
  /\ CommitPatch(w)
  /\ sessions' =
       [s \in SessionId |->
          IF s <= last /\ sessions[s].active /\ sessions[s].delegation = txn[w].id
          THEN RevokedSession(sessions[s]) ELSE sessions[s]]
  /\ UNCHANGED <<opened, tokens, marker, redisUp>>

\* The bulk UPDATE of the fleet and emergency endpoints: revoked_at only, so
\* is_active stays true, and in the table only.
StampSessions(S) ==
  /\ sessions' =
       [s \in SessionId |->
          IF s \in S /\ ~SessionRevoked(s) THEN [sessions[s] EXCEPT !.revokedAt = now]
                                           ELSE sessions[s]]
  /\ UNCHANGED <<opened, tokens, marker, redisUp>>

SuspendAgent(a) ==
  BulkRevoke(OfAgent(a)) /\ StampSessions({s \in SessionRows : sessions[s].agent = a})

EmergencySuspendAll == StampSessions(SessionRows) /\ UNCHANGED delegationVars

EmergencyLockdown == BulkRevoke(Rows) /\ StampSessions(SessionRows)

RedisFails ==
  /\ RedisFailures
  /\ redisUp
  /\ redisUp' = FALSE
  /\ UNCHANGED <<delegationVars, sessions, opened, tokens, marker>>

\* Redis keeps its append-only file: the markers are still there.
RedisRecovers ==
  /\ ~redisUp
  /\ redisUp' = TRUE
  /\ UNCHANGED <<delegationVars, sessions, opened, tokens, marker>>

----------------------------------------------------------------------------
(* The gateway *)

MarkerLive(s) == s \in SessionId /\ marker[s] # None /\ now < marker[s]

\* JWTValidationMiddleware: claims, expiry, then the marker; failing closed when
\* Redis is away, except for the empty session id, which is never looked up.
Admitted(t) ==
  /\ Live(t)
  /\ t.delegation # None
  /\ t.session # None => redisUp /\ ~MarkerLive(t.session)

----------------------------------------------------------------------------

Init ==
  /\ DelegationInit
  /\ sessions = [s \in SessionId |-> NoSession]
  /\ opened = 0
  /\ tokens = {}
  /\ marker = [s \in SessionId |-> None]
  /\ redisUp = TRUE

SessionStep ==
  \/ \E a \in Agents :
       \/ BootstrapDiscovery(a)
       \/ SuspendAgent(a)
  \/ \E w \in Workers, a \in Agents :
       \/ \E requested \in DelegationId \cup {None} : BeginVerify(w, a, requested)
       \/ BeginBootstrap(w, a)
  \/ \E w \in Workers :
       \/ CommitSession(w)
       \/ CommitMvp(w)
       \/ /\ txn[w].kind = "patch"
          /\ \E last \in txn[w].before .. opened : CommitPatchAndCascade(w, last)
  \/ \E t \in tokens :
       \/ AgentRefresh(t)
       \/ \E d \in DelegationId : DelegationToken(t, d)
       \/ \E s \in SessionId : AgentRevoke(t, s)
  \/ EmergencySuspendAll
  \/ EmergencyLockdown
  \/ RedisFails
  \/ RedisRecovers

Next == (OwnStep(opened) /\ UNCHANGED sessionVars) \/ SessionStep

Spec == Init /\ [][Next]_vars

----------------------------------------------------------------------------
(* Properties *)

\* Types of the session table, the tokens and the Redis markers.
SessionTypeOK ==
  /\ DelegationTypeOK
  /\ sessions \in [SessionId -> Session]
  /\ opened \in 0 .. MaxSessions
  /\ tokens \subseteq Token
  /\ marker \in [SessionId -> Nat]
  /\ redisUp \in BOOLEAN

\* Attenuation along the chain: whatever path a token took (verification, bootstrap,
\* exchange, any number of refreshes, races with patches and acceptances), it carries
\* only permissions its own agent was granted, by the delegation it names when it
\* belongs to a session of the table and by some delegation otherwise.
TokenAttenuation ==
  \A t \in tokens :
    /\ t.session # Mvp =>
         IF t.delegation = None THEN t.perms = {}
         ELSE /\ delegations[t.delegation].agent = t.agent
              /\ t.perms \subseteq granted[t.delegation]
    /\ t.session = Mvp =>
         \/ t.perms = {}
         \/ \E d \in DelegationId :
              delegations[d].agent = t.agent /\ t.perms \subseteq granted[d]

\* Revoking a delegation bounds how long its tokens live: however they were
\* exchanged and refreshed, none outlives the longest session that could have been
\* open at that moment plus one refresh.  (Tokens of in-memory sessions, and of sessions
\* deleted with their agent, are exempt: nothing bounds their refreshes.)
ResidualAuthorityBounded ==
  \A t \in tokens :
    (t.delegation \in Rows /\ t.session # Mvp /\ IsRevoked(t.delegation)) =>
      t.exp <= delegations[t.delegation].revokedAt + SessionTTL + RefreshTTL

\* Until the session's last tick, whose end the marker's whole seconds may cut off, the
\* marker written by its revocation keeps every token of the session out of the gateway.
RevokedSessionTokensRejected ==
  \A t \in tokens :
    (t.session \in SessionId /\ marker[t.session] # None
       /\ now + 1 < sessions[t.session].expires) => ~Admitted(t)

\* An active session that holds more than the delegation it was opened for.
Exceeds(s) ==
  /\ s \in SessionRows
  /\ sessions[s].active
  /\ ~(sessions[s].perms \subseteq delegations[sessions[s].delegation].perms)

\* The request that ends with this step could not know of what made session s exceed its
\* delegation: it read the delegation before it was narrowed, or is a patch that began
\* before the session existed, or accepts what was accepted already.
CouldNotKnow(w, s) ==
  \/ txn[w].kind \in {"verify", "bootstrap"} /\ delegations[txn[w].id].perms # txn[w].perms
  \/ txn[w].kind = "patch" /\ txn[w].before < s
  \/ txn[w].kind = "accept" /\ Overtaken(txn[w])

\* A patch leaves no active session that holds more than the delegation now does, and
\* none is opened, except where the opening and the patch, or two acceptances, overlap.
OnlyOvertakenExceed ==
  [][\A s \in SessionId :
       (Exceeds(s)' /\ ~Exceeds(s)) =>
         \E w \in Workers :
           /\ Ending(w) /\ CouldNotKnow(w, s)
           /\ txn[w].id = sessions'[s].delegation]_vars

\* Bootstrap and exchange do not look at a delegation's status, and still no token of a
\* delegation that its user has not accepted yet carries a permission.
InvitationConveysNothing ==
  \A t \in tokens :
    (t.delegation # None /\ t.session # Mvp) =>
      (delegations[t.delegation].status = "pending" => t.perms = {})

\* agent_revoke: "Revoke an agent session, immediately invalidating its JWT."
RevokedTokensRejected ==
  \A t \in tokens : (t.session \in SessionId /\ marker[t.session] # None) => ~Admitted(t)

\* The dialog of the fleet page says of suspend_agent: "The agent will not be able to
\* authenticate or execute actions until reactivated."  Only the bulk updates leave a
\* session active with revoked_at set; its tokens are not admitted.
SuspendedTokensRejected ==
  \A t \in tokens :
    (t.session \in SessionId /\ SessionRevoked(t.session) /\ sessions[t.session].active)
      => ~Admitted(t)

\* agent_refresh: "The session must still be active (not revoked)."  Every new token of a
\* session of the table is issued while the session's row exists.
IssuedTokensHaveSession ==
  [][\A t \in tokens' \ tokens : t.session \in SessionId => t.session \in SessionRows']_vars

\* revoke_delegation: "Revocation is immediate and permanent."  Leaving aside requests
\* already in progress, no token of a revoked delegation is issued any more.
NoTokenAfterRevocation ==
  [][(\A w \in Workers : Free(w)) =>
       \A t \in tokens' \ tokens : t.delegation # None => ~IsRevoked(t.delegation)]_vars
=============================================================================
