# Verification of DeepTrail / DeepSecure

TLA+ modules, TLC runs and TLAPS proofs for the trust chain of this repository:
how a human's OAuth access becomes a delegation, a delegation an agent session, a
session a bearer token, a token an admitted request, and an admitted request a
call with the user's credential; how agents and users come to have an identity in
the first place; and what happens to every link when an earlier one is revoked,
narrowed, expires, fails, or is being changed by somebody else at the same moment.

- [The system](#the-system): inventory of the components
- [Modules](#modules): what models what
- [Runs](#runs): what TLC checks, and what the properties say
- [Bounds](#bounds-and-why-they-are-enough)
- [Fairness](#fairness)
- [Proofs](#proofs)
- [Disagreements between the code and what is said of it](#disagreements)
- [Observations without a run](#observations)
- [Simplifications](#simplifications)
- [What is not modelled](#what-is-not-modelled)
- [Plan](#plan)

## The system

Two servers and several clients. The **control plane** (`deeptrail-control`, FastAPI
over PostgreSQL) owns the rows: users, agents, delegations, sessions, tasks, the
vault, the catalogue of services, the audit log. The **gateway**
(`deeptrail-gateway`, FastAPI, no database of its own) receives the agents' MCP
requests and owns only process memory. They share Redis (revocation markers, the
`cache:invalidate` channel) and HTTP: the gateway asks the control plane for health,
for credentials and for the catalogue, and posts health reports and audit events
to it; the control plane stores one half of each split secret at the gateway. The
**SDK** (`deepsecure`) and the **local proxy** (`deepsecure-proxy`) are clients of
both. Each server is an asyncio process, so every `await` is a point where another
request may run; control-plane handlers that are declared with `def` run in a thread
pool, so between the read of a row and its commit another handler can commit anything
(READ COMMITTED, no `SELECT ... FOR UPDATE` on the tables modelled here).

| component | state | operations | talks to | hard part | correct when |
|---|---|---|---|---|---|
| Delegations | `delegation_tokens`, `delegation_templates`, what a user's services allow | create (user, admin, service key), template, invite, accept, provision at login, patch, revoke (five ways) | sessions: a patch and the bulk endpoints cascade | check and commit are apart; invitations wait for days | permissions only shrink, nothing held was never granted, revocation is final |
| Agent sessions and bearer tokens | `agent_sessions`, Redis markers, JWTs at large | verify, bootstrap, exchange, refresh, revoke, suspend, lockdown | reads delegations, writes markers for the gateway | a JWT is a copy that outlives what it was copied from | tokens carry only what was granted, and authority ends a bounded time after revocation |
| Agent challenge | process dictionary, `nonces` | issue, answer | verification | expiry, replacement, restart | an answer counts once |
| Agents and attestation | `agents`, `attestation_policies`, replay memory, rate limiter, circuit breaker | register, delete, edit policy, bootstrap by platform | cloud validators | two transactions per registration; threads share the breaker | a registered agent can bootstrap; the breaker trips |
| User sign-on | `pending_oauth_states`, `idp_sessions`, `user_sessions` | authorize, callback, renew, logout | identity providers | rotating refresh tokens, overlapping renewals | one use of a state, one row per user, the stored token is current |
| Directory | `org_directory` | sync in pages, commit | identity provider | a page that fails; syncs that overlap | the copy agrees with what was listed |
| Tasks | `tasks`, `scoped_permissions`, task JWTs | create, activate, complete, revoke, time-out sweep, token | agent tokens | four handlers decide on one status | nothing is left of an ended task |
| OAuth flows and connected services | `_pending_states`, `user_connected_services` | authorize, callback, connect, disconnect | vault, events | delete-then-store across commits | a state is redeemed once, a connection has its token |
| Vault and refresh scheduler | OAuth tokens, timers or Cloud Tasks | store, replace, delete, refresh on request, by timer, by sweep | providers | rotation with several refreshers; a restart loses timers | the token kept is the one the provider takes, and is refreshed in time |
| Split-key shares | `secrets` (share 1), gateway store (share 2) | store, delete, read | both servers | two stores, no transaction | the shares belong together |
| Admission (gateway) | none; reads Redis | decide on each bearer token | Redis | sees claims and markers only | rejects the tokens of revoked sessions |
| Fail-closed check (gateway) | breaker counter, open-until, cached verdict | check, probe, answer, time out | control plane's `/health` | many probes in flight share the counters | admits only on recent evidence, and recovers |
| Credential cache (gateway) | per-session entry, index by user | hit, fetch, refill, invalidate | vault (HTTP), `cache:invalidate` (Redis) | refill across an `await`; lost events | stale credentials are short-lived |
| Service registry, backends, router | `service_registry`, loader, connection manager, clients | edit the catalogue, fetch, register, drop, call, mark | MCP servers | the loader replaces what calls are using | tables agree, the loader keeps up |
| MCP endpoint and sessions (gateway) | `_sessions`, tool cache, permission map | initialize, list, call | backends | tokens of one agent share a session | what is shown can be called |
| Health reports | health columns, error counts in three places | poll, probe, count, post | both servers | drain, probe, post, drop | every live service is checked, no error counts twice |
| Audit log | gateway tasks, `audit_events`, stream cursor | record, post, commit, stream | both servers | fire and forget; commit order is not stamp order | an audited call shows up |
| Token exchange (gateway) | cache of backend tokens | get, exchange | identity provider | overlapping exchanges | what the cache gives still lives |
| SDK client, macaroons | one access token per client; chains of caveats | authenticate, request, step up; delegate, verify | control plane, gateway | one token for several agents; chains | every call ends; delegation attenuates |
| Local proxy | two tokens, the loop over stdin | forward, bootstrap, exchange, retry | both servers | token ages across calls | sent tokens are live |

`PROJECT.json` names the sources of each of these and of the parts that have
nothing for a model checker (front end, role mapping, cryptography, filters,
infrastructure). Its "hazards" list what in this code is hard to test, each with the line
where it bites and the property that would catch it.

## Modules

| module | is about | source |
|---|---|---|
| `Delegations` | templates, invitations, acceptance, patches, revocation | `delegation_service.py`, `delegation.py`, `admin_fleet.py`, `auto_provision_service.py` |
| `AgentSessions` (extends `Delegations`) | sessions, tokens, markers, cascades, admission | `agent_session_service.py`, `agent_auth.py`, `bootstrap_service.py`, `token_revocation.py`, `jwt_validation.py`, `session_revocation.py` |
| `AgentLogin` | the challenge and the nonce an agent answers | `agent_auth.py`, `auth.py`, `agent_session_service.py`, `crud_nonce.py` |
| `Enrolment` | registration, policies, bootstrap and its screens | `agents.py`, `bootstrap_service.py`, `security_validators.py`, `retry_utils.py` |
| `SignOn` | logins, sessions and renewals of users | `sso.py`, `idp_session_service.py` |
| `Directory` | copying the provider's users and groups | `directory_sync_service.py` |
| `Tasks` | tasks, their permission records and tokens | `task_service.py`, `tasks.py` |
| `OAuthVault` | connecting, disconnecting, refreshing, scheduling | `oauth.py`, `oauth_service.py`, `vault.py`, `vault_client.py`, `token_refresh_scheduler.py` |
| `Credentials` | what the gateway is served and what it caches | `credential_injection.py`, `cache_subscriber.py`, `cache_events.py`, `oauth.py` |
| `SplitKey` | the two shares of a secret | `crud_secret.py`, `vault.py`, gateway `main.py`, `share_storage.py`, `secret_injection.py` |
| `FailClosed` | the gateway's health check and circuit breaker | `fail_closed.py` |
| `Backends` | catalogue, loader, connections, a call on its way | `service_registry_service.py`, `admin_services.py`, `dynamic_registry.py`, `connection_manager.py`, `tools_call.py`, `adapter.py`, `base_mcp_client.py` |
| `McpSessions` (extends `Backends`) | sessions, listings and permitted calls in front of them | `initialize.py`, `session_manager.py`, `tools_list.py`, `tools_call.py`, `delegation_validator.py` |
| `HealthReports` | poller, reporter, error counts | `health_poller.py`, `dynamic_registry.py`, `tools_call.py` |
| `AuditTrail` | an event from the gateway to a reader of the stream | gateway `audit.py`, control plane `audit.py` |
| `TokenExchange` | cache and exchange of backend tokens | `token_exchange.py` |
| `SdkClient` | the client's token, renewal, step-up | `base_client.py` and its callers |
| `Macaroons` | delegation chains of caveats | `_core/delegation.py` |
| `LocalProxy` | the forwarding loop and its tokens | `deepsecure_proxy/` |
| `OneShot` | abstract: what a single-use secret promises | refined by `OAuthVault`, `AgentLogin`, `SignOn` |
| `Delegations_proofs`, `AgentSessions_proofs`, `Credentials_proofs`, `SplitKey_proofs`, `OAuthVault_proofs` | theorems about the module they are named after | |
| `Identity_proofs` | theorems about `SignOn`, `AgentLogin`, `Enrolment` and `Directory` | |
| `Gateway_proofs` | theorems about `Backends`, `McpSessions`, `FailClosed` and `HealthReports` | |
| `Tokens_proofs` | theorems about `Tasks`, `TokenExchange`, `LocalProxy` and `Macaroons` | |
| `MC*` | sets, symmetry and the joint exploration of parts for TLC | |

`PROJECT.json` "map" gives for every definition the lines it stands for.

### Composition

`AgentSessions` composes two components over shared rows: it extends `Delegations`, runs
`OwnStep` of that module unchanged beside its own steps, and replaces the endpoints
that write both tables (`CommitPatch`, the bulk revocations) by actions that do all the
handler does. `McpSessions` likewise adds the endpoint's session table and listings to
`Backends`, whose steps leave them alone. `OAuthVault` holds the connections, the vault and the
scheduler together, since every handler writes two of the three.

Components that share no state are explored **side by side**: a run of `MCHandedOut`,
`MCTokens`, `MCGateway` or `MCOAuthVault` has a variable `part` that its initial state
chooses and no step changes, and a behaviour takes only the steps of its part. This
is the disjoint union of several state spaces, not their product: it shows of each component
what a run of its own would show. What a part cannot meet is named in
`InPart` of the MC module (for instance the part `calls` of `MCGateway` has no restart of
the gateway, which `sessions` explores).

### Handlers as transactions

A handler that reads, decides and commits is two actions. `Begin...` takes the
guard from the checks and records exactly what the handler carries over
in local variables; the second action writes that record, whatever happened in
between, repeating only the checks the code repeats (a unique index,
a foreign key, a `SELECT` issued later). In `Delegations`, `AgentSessions` and `Tasks` the record
is `txn[w]`, and `Workers` is how many handlers can be between the two. A handler without a
decision that can go stale (a bulk `UPDATE`, a single row stamped) is one action. On an event loop
the atomic unit is the code between two `await`s; in a thread it is a statement of the
database, a lock or a call.

*Delegations.* `delegations[d]` is a row (`perms`, `status`, `expires`,
`revokedAt`; 0, `None`, for NULL). `granted` is a history variable: all that the
creation and the acceptances of a row granted. A deleted row keeps its number, with
status `deleted`, so that properties can speak of what became of it; `Rows` are the others, and no action looks at
any but these. `DeleteAgent` is the one way a row goes; a
handler that began before finds its rows gone when it commits, as one that began before a template was deleted does its template (`Refused`, `RejectCommit`). `ChangeScopes` is the environment: users
connect and disconnect services. `BeginCreate` collects the six ways rows come to
be. The forms of revocation differ in the code and in the model: by the user (once, with
status `revoked`), by an administrator (stamps `revoked_at` again, leaves the status), of all
valid rows of a user or an agent, and in bulk (stamps `revoked_at` of the rows that have none).

*AgentSessions.* Verification (`BeginVerify`, `CommitSession`) and GCP bootstrap
open a row; without a delegation, verification hands out an in-memory session whose token
names a session in no table (`Mvp`, `CommitMvp`). `DelegationToken` is the exchange for
a delegation; `AgentRefresh` is the refresh within its grace; `AgentRevoke`
writes the row and the marker, or only the row when Redis is away. Sessions go with their
delegation (the foreign key cascades, `SessionRows`), without a marker and without a word to their tokens. `Admitted(t)` is the
gateway's decision.

The marker of a revoked session lasts for the whole seconds left of the session, rounded down
(`ttl_seconds_until`), and at least a minute: `MarkerLapse` lets it end with the session or a tick before.

*AgentLogin.* `challenge[a]` is the one entry of the process's dictionary for an agent, which a
second challenge replaces and a restart forgets; `nonces` are rows, any number per agent, looked up,
checked and deleted in separate statements of a thread. `heldTwice` is a history variable: nonces that a request
found while another one held them.

*Enrolment.* `confirmed` records registrations that succeeded, `edited` policies an
administrator changed. A bootstrap passes the rate limiter, the detector, the validator (its
verdict is external) and the breaker one step at a time, finds its policy, and opens or reuses an agent.

*SignOn.* A session's provider token is a number, `current[x]` the one the provider of login `x`
accepts. A handler is one action up to its call of the provider and one after the answer. After the answer several
commits follow, and each may be the last: storing the provider's token fails (logged), revoking the session that was
renewed fails (logged) or is never reached, or the process dies before the user has the token (`kept`, `revoked` and
`answered` of `FinishLogin` and `FinishRefresh`).

*Directory.* An entry's row is the number of the commit that inserted it, so that a sync knows a row it looked up
from one inserted anew. A sync collects reads (`found`) and deletions (`stale`) and writes them in one commit, which
fails as a whole if a row it updates is gone or an address it inserts is taken.

*Tasks.* `EndedTask` is what the three ends of a task have in common. The deadline
sweep (`BeginTimeouts`, `CommitTimeouts`) reads the overdue tasks, then writes all of
them.

*OAuthVault.* Tokens are numbered as they are stored; `vault[r]` is the row (refresh-token
generation and age), `current[r]` the generation the provider accepts. `writer[w]` is a
callback or a connection by hand, cut where it commits; `call[q]` a refresh, cut where it
awaits. Timers, their retry and the sweep are actions of their own; `Restart` empties the process.
Tokens of services that have no provider in `SERVICE_TO_PROVIDER` (`Supported`) are passed over by all three ways of
refreshing. An answer without `expires_in` leaves the row's expiry as it is and starts no timer (`undated`).

*Credentials.* `served[u]` is the credential a fetch for user `u` is answered with,
`retired` a history variable: when a credential stopped being served. A call that
misses the cache asks (`BeginFetch`), is answered by the vault (`Answer`), and
continues after its `await` (`ReceiveToken`); events are delivered, lost while
the gateway is not subscribed, or gone with a restart in between.

*SplitKey.* A split is a number; the shares of a name make a secret when they are of one split.
A call to the gateway may arrive and go unanswered, not arrive, or arrive after the caller gave up
(`delayed`).

*FailClosed.* Ages and remaining times count down instead of time stamps, which keeps the
state space finite without a bound on time. `okAge` is a history variable: how long
ago the control plane last answered 200 itself.

*Backends, McpSessions.* A row of the catalogue has a status, an address, which may be the empty string, and a
tool with the permission it needs, which may be one that cannot be read (its description is null). `known`, `manager`,
`client`, `tools` and `mapped` are the gateway's five tables that have to agree; `gen`
numbers registrations, so that a call knows which one it was sent to. A registration may raise, before the service is
connected (`BackendConfig` refuses the address) or after (`CachedTool` refuses the tool); then the round of the loader is
over, with some of the other services registered and none removed (`RegistersSome`), and a service that got as far as its
connection is in `halfway`: routed, and unknown to the loader. At the start of the gateway the same keeps it from
starting (`StartGateway`). `session` and `listing` are what an agent session was opened with and what each token was shown
last, with the permission each tool needed then.

*HealthReports.* The three places that count errors (`tool_errors`, the loader's, the row's)
and the round of a report between them; `happened` is the history they are compared with.

*AuditTrail.* An event is pending in a task, stamped by the thread that stores it, committed, and
streamed when its stamp is behind the reader's cursor no longer. `overtaken` records what
the stream can no longer deliver.

*TokenExchange, LocalProxy, SdkClient.* What these cache are tokens with two times:
when the issuer lets them die, and when the holder believes so, reckoned from when the answer
arrived. *Macaroons* are caveats with the chain they descend from. A call adds at most one caveat of a type, so a set of
caveats, each with the number of delegations before it, stands for the list: `Level` is all of the list's order that
`_get_delegation_depth`, which takes the first caveat of a type, depends on.

## Runs

All numbers are distinct states on two workers of TLC.

| run | question | result |
|---|---|---|
| `delegations` | invitations do not pile up | holds, 657 K, about 1 min |
| `sessions_overlap` | two handlers at a time, two agents: attenuation along the chain, nothing ungranted, pending invitations convey nothing, revocation is permanent, only overtaken requests widen a delegation or leave a session with more | holds, 238 K up to symmetry, about 1 min |
| `sessions_time` | lifetimes: residual authority after revocation, markers | holds, 678 K, about 1 min |
| `tokens` | tasks with two handlers at a time, the exchange's cache, the proxy's tokens, macaroons | holds, 3.0 M up to symmetry, about 2 min |
| `vault` | connections, OAuth states, refreshes on request, by timer and by sweep, with a rotating provider, a service without one, a fault and a restart | holds, 264 K, about 2 min (most of it liveness) |
| `handed_out` | cached credentials, split secrets, registrations, bootstraps, challenges, sign-on, the directory | holds, 374 K up to symmetry, about 2 min |
| `gateway` | fail-closed check, loader and calls, sessions and listings, health reports, audit trail, SDK calls | holds, 72 K, about 1 min 40 (most of it liveness) |
| `tasks_race` | a task that ended stays ended | violated |
| `credentials_owner` | a call gets the credential of its own user | violated |
| `bootstrap_replay` | a platform token is refused as replayed only after another use | violated |
| `split_restore` | storing a secret leaves shares that make a secret | violated |
| `sessions_deleted` | a token is issued only while its session is there | violated |

Every property of a passing run has a mutant in `PROJECT.json`: a definition of
the model changed as a plausible bug would change the code (a dropped check, a late
time stamp, a forgotten marker), under which TLC finds the property violated with the
same configuration.

Ten further configurations are kept for running by hand, with
`tlc -workers 2 -config X.cfg M`; each ends in a counterexample that [Disagreements](#disagreements)
explains: `MCDelegationsWiden` (module `MCDelegations`), `MCSessionsMarker`, `MCSessionsSuspend`,
`MCSessionsAfterRevoke` (`MCAgentSessions`), `MCAuditStream`, `MCErrorsShown`, `MCSdkOwner`
(`MCGateway`), `MCDirectoryFailed` (`MCHandedOut`), and `MCProxyStops` and `MCChainDepth` (`MCTokens`).

### What the properties say

*Delegations and sessions*

- `InvitationsDoNotPileUp` – however invitations, expiries, revocations and
  acceptances follow one another, the invitations of one user that wait at once are no more than the
  requests under way at once can send, for each of them found none that waits. (One request may name a user twice:
  `autoflush=False`, `db/session.py:19`, so it does not see its own first row; `MaxInvited = 2` has it.)
- `OnlyOvertakenWiden` – a patch only narrows, unless it was overtaken: a delegation in use gains a permission only by the
  commit of a patch or an acceptance whose row another request changed after it was read. That this one case does
  occur is `MCDelegationsWiden`, where the plain `PermissionsNeverWiden` is violated.
- `HoldsOnlyGranted` – what survives of this under overlap: the permissions restored by a
  lost update were at least granted once.
- `RevocationIsPermanent` – no handler in progress undoes a revocation. It is not obvious:
  `CommitAccept` writes status and permissions of a row that was revoked since it was
  read, and the row stays revoked only because `revoked_at` is not among the columns it writes. Nor does a
  row that went with its agent come back.
- `TokenAttenuation` – through verification, bootstrap, exchange and any number
  of refreshes, a token holds only what the delegation it names granted to this
  agent. For the token of an in-memory session only the weaker form holds: it looks for a
  delegation again, and claims the delegation its request names.
- `ResidualAuthorityBounded` – revoking a delegation does not revoke its
  tokens; they are refreshed and exchanged for a while. This bounds the while: one session
  lifetime plus one refresh.
- `RevokedSessionTokensRejected` – the marker holds while the session itself could
  be alive, but for its last tick, which stands for the second that the marker's whole seconds cut off. The stronger
  `RevokedTokensRejected` fails.
- `OnlyOvertakenExceed` – the cascade of a patch finds every session it has to end, and none is opened with more than its
  delegation holds, unless the opening and the patch, or two acceptances, overlap: then, and only then, is a
  session left that holds more.
- `InvitationConveysNothing` – bootstrap and exchange accept a delegation that is
  still pending, and that is harmless only because a pending row has no permissions.

*Identity*

- `ChallengesAreSingleUse`, `SsoStatesAreSingleUse`, `OAuthStatesAreSingleUse` – the three
  kinds of one-time secrets implement `OneShot`: issued once, accepted at most once, never after they
  lapsed. Each keeps them differently (one entry per agent in a dictionary; a row that is deleted before
  the provider is asked; a dictionary that a restart empties), and the refinement mapping reads
  the abstract life of a secret off that. Requests that present nonces overlap freely; what is said of a nonce
  ends where two of them hold it at once (`heldTwice`), since then both may be accepted (see the observations).
- `RegisteredAgentsCanBootstrap` – agent and policy are committed in two transactions, and still an
  agent whose registration answered "created" has the policy it bootstraps by.
- `BreakerTripsAtThreshold` – `record_failure` counts and then sets the state, in threads; a
  success in between resets both. The breaker is never left closed with its count full.
- `StoredTokenIsCurrent` – whatever renewals, logouts and sign-ons overlap, a session that looks
  alive can be renewed, unless an answer of the provider was lost, or the session was renewed and a failure or a crash
  kept it from being revoked (`left`): that one is live and has a token the provider has rotated.

- `WholeSyncsAgree` – however syncs overlap, one that read every page leaves a row of each entry that was listed
  throughout it, and none of an entry that was listed at no time of it. A sync whose rows another one changed
  writes nothing.

*Vault and secrets*

- `RefreshTokenInSync` – several refreshers of one token, against a provider that rotates: the token kept is
  the one the provider accepts. A vault that fell behind could never refresh again.
- `ActiveConnectionHasToken` – the callback deletes the old token, stores the new one and
  links it in three commits; overlapping connections still leave a token, but for a restart in between.
- `DeletedTokensStayDeleted` – a refresh that began before a disconnect does not bring the token back.
- `DueTokensAreRefreshed` – liveness: lost timers, failed attempts and a restart are all made
  good by the sweep, for tokens of services that have a provider, as long as its answers say when they expire: without
  `expires_in` the row stays due, however often it is refreshed.
- `StaleOnlyBriefly` – whatever is lost or overtaken, a credential is handed out less
  than the cache's time, or no more than a fetch's time, after it was retired.
- `DisconnectClears` – a handled disconnect leaves no entry with that user's
  credential, in any session. It relies on agents naming no other user per call.
- `SharesMatch`, `NoShareWithoutRow`, `ReadsAreWhole` – the two shares of a secret, kept in
  two processes without a transaction: of one split, none left behind, and read as one. Each names
  the overlaps (`clashed`) and the failed calls (`leaked`) for which the code promises nothing.

*Tokens outside sessions*

- `EndedTasksHoldNothing` – the permission records of an ended task stay revoked,
  even where its status is overwritten. `TaskTokensRunOut` – its tokens
  outlive it by at most one token lifetime, and never its deadline.
- `CachedTokensLast` – a backend token from the exchange's cache lives for its buffer, less
  the time its exchange took, however overlapping exchanges overwrote each other.
- `SentTokensAreLive` – the proxy's margins suffice for a bootstrap, an exchange and the call after it.
- `DelegationAttenuates` – every restriction of every ancestor of a macaroon binds it,
  although a chain copies some caveats, replaces others, and may repeat a kind.

*Gateway*

- `AdmittedOnEvidence`, `RecoversWithControlPlane` – the
  breaker under probes that answer late, time out, or succeed after another failed.
- `LoaderAgreesWithRouting` – what the loader knows, what can be called and what is listed agree, but for connections
  that a registration left which raised (`halfway`).
  `LoaderKeepsUp` – liveness: it comes to agree with a catalogue that stays as it is, after failed
  fetches, answers that are outdated when they are acted on, and a restart. It says nothing while the catalogue offers a
  service, new to the loader, whose registration raises (`Blocked`): each round then ends there, so that services behind it may
  never be added and none is removed.
- `EarlierCallsDoNotMark` – a call that was sent to an earlier registration of a service
  cannot take the present one out of use.
- `ShownToolsAreCallable` – tokens of one agent share a session, and the listing of one is
  not that of another. Within a life of the gateway only a service that was registered anew, with another permission for its
  tool, makes a tool that was shown uncallable.
- `ErrorsCountedOnce` – errors are counted while a round drains, probes, posts and drops.
- `LiveServicesAreChecked` – liveness: a row deleted in the middle of a round aborts the round, and the
  services behind it are still checked.
- `AuditedCallsShowUp` – liveness: an event whose task nobody awaits is streamed, logged, dropped with
  the process, or known to be overtaken; nothing else becomes of it.
- `StepUpEnds` – liveness: the step-up loop ends every call, although its budget is shared.

## Bounds, and why they are enough

Clocks: hours in the control plane, seconds in the gateway. Only the order of the
lifetimes matters, so they are scaled down: a session's 8 h and a refreshed token's 8 h are two ticks
each, a bearer token's hour, the hour of grace and the marker's minute one. Bounds are named
`Max...` (and declared as such next to the constants); actions that would pass one are disabled.

- What services allow: in the passing runs of `Delegations` and `AgentSessions` a user starts with nothing
  connected and connects everything at some point. Disconnecting adds no behaviour: it only disables
  requests that need not be made anyway, since every check of the scopes is a guard. The violated runs have it.
- `delegations`: one pair (pairs are independent but for the template), three rows for
  it, so a row can be replaced twice, and a ceiling that allows everything (one that blocks something only disables
  invitations); `MaxInvited = 2` for a user named twice; a delegation expires within the clock. One
  permission: the subsets are then "some" and "none".
- `sessions_overlap`: two agents, because a token could come to hold another agent's
  permissions; only one of them has a template at some time (`OneTemplate`), so invitations and direct
  grants to it meet, and the other is granted directly; requests in progress are interchangeable, so `SYMMETRY` is used (these are safety
  properties); all within one tick (every lifetime is 1), because no handler takes an hour. Redis does not fail here (`RedisFailures =
  FALSE`; in `sessions_time` it does): of its markers this run asks nothing. Both properties of overtaken requests are
  checked here, since they are empty where nothing overlaps.
- `sessions_time`: two sessions of one agent, since exchanged tokens move to the newest
  one; two tokens, a token and its successor; the clock runs to tick four, which is after the end
  of a session opened at its start, and within the life of a token refreshed shortly before that end. A delegation is granted for
  a tick, which patches extend; granted for two (1.8 M states) or for longer than the clock runs (2.9 M) the two invariants held too.
- `tokens`: two tasks with at most one deadline value, two handlers, three ticks: after the
  deadline, and after the token. Two exchanges of one key, tokens that live for less than the
  buffer, for little more, and for much more; `XBuffer = 2` exceeds `XReplyTime = 1` as the buffer of 60 s does
  the timeout of 10 s. `ProxyTTL = 4`, `RefreshMargin = 2`, `ProxyLatency = 1` stand for an hour, five minutes and
  the calls' timeouts (30 to 60 s; what a bootstrap fetches besides counts as its latency), over two
  token lifetimes and one revocation. A broad limit and a narrow one that overlaps it, chains of four macaroons.
- `vault`: two services, one with a provider and one without (`Supported`); services share nothing but the sweep's loop, so only
  one of them is used at a time; two writers and a
  request beside the sweep; three tokens where writers meet each other, two where refreshes join; two
  rotations, so a refresh can be one behind; one lost answer, one restart, one OAuth state (states meet only through the rows they lead to). `MCOAuthVault`
  splits this in four parts: three each let a pair of the concerns meet, the fourth (`unsupported`) has the token that no provider
  refreshes. An answer without `expires_in` (one at most) meets no lost answer and no restart (`OneTrouble`).
- `handed_out`: two users on one session (the sharing that matters), two credentials,
  one event under way, `CacheTTL = 2 > FetchTime = 1` (60 s, 5 s), up to two ticks; one secret name, two stores, a
  deletion and a reader, three splits, two lost calls; two selectors over a limit of one policy, two enrolments at a
  time, a threshold of two (code: 5) and three attempts (10), so that both screens of two requests can meet the limit;
  three challenges over two agents, a restart and two logins that may hold one nonce; two sign-ons of one user, the first at a rotating provider, three sessions,
  and one fault (a lost answer, or a renewed session that was not revoked); users, states and sessions are cut where tokens minted and
  sign-ons begun exceed four together; a directory with any rows from before and at least two
  of the three entries listed, one page
  of groups and two of users, so that a page can fail before and behind others of its kind, two syncs that overlap and an entry
  that joins or leaves.
  The parts share the names of requests (`r1`, `r2`) and of users and agents (`u1`, `u2`), so that one small symmetry
  group serves them all; a behaviour is of one part, so nothing meets by that.
  The credentials alone were also run once with three credentials and `CacheTTL = 3`: 2.8 M states, no violation.
- `gateway`: two requests and `Threshold = 2`, so that one probe can fail while another succeeds, with
  `ResetTime` longer than `CacheTime` and `ProbeTimeout`, as the defaults are (30, 1 and 5 s); a service with a client
  of its own and one that speaks MCP; three changes of the catalogue (add, drop, add again), a call, one stop and start of the
  gateway. Rows whose registration raises (an empty address, a tool that cannot be read) are offered beneath calls, and tools
  change their permission beneath sessions, not both at once; the row of a built-in service keeps its address. Further three tokens of one session, with one permission, with all, and with a wildcard; three watched services,
  so that the deleted row can be in front of another, with one service's error counts (counts of two services do
  not meet); two events and a batch of one; two agents of one client.

`CHECK_DEADLOCK FALSE` stands in the configurations of `tokens`, `tasks_race`, `vault`, `handed_out` and
`gateway` (and those derived from them): there every task may have ended, the proxy may have
stopped, or the bounds be reached, and nothing is left to do. In `Delegations` and `AgentSessions` users' scopes keep changing, so
deadlock is checked.

## Fairness

- `FailClosed`: weak fairness of `Tick` (time passes), `Check` and `Leave` (the event loop runs every request
  that is ready, and clients call again), and `TimesOut` (httpx's timer fires); strong fairness of `Answer`
  and `Receive`, per request: a control plane that stays up may be slow now and then, but not
  for ever at every probe of a caller, and the answer is not overtaken by the timeout for
  ever. Without the last two the code promises nothing: `RecoversWithControlPlane`
  would fail for a control plane that is up and always too slow, rightly so. Nothing
  assumes that the control plane stays up; that is the hypothesis `<>[]up`.
- `OAuthVault` (`VaultFairness`): the sweep begins again and again (a cron job calls it every 30 minutes,
  `docs/workstreams/p5.4-sdk-integration-guides/POST_COMPLETION_FIXES.md:176`), it goes on, requests that were begun end, and
  a provider that is asked answers or refuses. Timers are *not* fair, and need not be: the property holds without them.
- `Backends`: `run_refresh_loop` asks every minute and survives an error; the catalogue's answers arrive. Nothing starts a gateway
  that stopped: `LoaderKeepsUp` is about one that runs.
- `HealthReports`: the poller's loop runs every 120 s and carries on after any exception (a check is stale after 300 s); the
  gateway's reports are owed nothing.
- `AuditTrail`: a task ends, by its timeout if by nothing else; a thread that stamped an event commits or dies; the stream
  polls every 2 s while its reader is there.
- `SdkClient`: a call is answered or times out after 30 s.

`MCGateway` states these conditions together, each restricted to its part; a behaviour of
another part satisfies it by never enabling the action. The other modules have no scheduler to
be fair about. In particular nothing in the repository calls the deadline sweep of tasks.

## Proofs

TLAPS proves the following for every value of the constants that meets the
assumptions; no bound of a run is assumed, nor is a fairness condition. Every invariant that a passing run checks is
among it, and every action property and refinement. There are 334 theorems and lemmas in eight
modules, of about 8000 obligations.

| theorem | says |
|---|---|
| `DelegationInvariance`, `DelegationTypes`, `NothingUngranted` | `DelegationSpec => []` the inductive invariant, the types, `HoldsOnlyGranted` |
| `RevocationPermanent` | `DelegationSpec => RevocationIsPermanent` |
| `OvertakenWiden`, `InvitationsBounded` | `DelegationSpec => OnlyOvertakenWiden`, `=> []InvitationsDoNotPileUp`, for any number of overlapping requests |
| `SessionInvariance`, `SessionTypes` | `Spec => []` the inductive invariant of the composition, the types |
| `TokensAttenuate` | `Spec => []TokenAttenuation` |
| `InvitationsConveyNothing` | `Spec => []InvitationConveysNothing` |
| `ExceedUnknowingly` | `Spec => OnlyOvertakenExceed`, for any number of overlapping requests |
| `TokensHaveSession` | `Spec => IssuedTokensHaveSession`, assuming that no agent is deleted |
| `ResidualAuthority` | `Spec => []ResidualAuthorityBounded` |
| `RevokedSessionsRejected` | `Spec => []RevokedSessionTokensRejected` |
| `Invariance`, `TypeCorrect`, `CircuitOpensAtThreshold` | the breaker's invariant and its parts |
| `FailsClosed` | `Spec => AdmittedOnEvidence` |
| `TaskInvariance`, `TaskTypes`, `EndedTasks`, `TokensRunOut` | the task properties, for any number of overlapping handlers |
| `EndsOverwrittenByClaims` | the status of a task that ended is only overwritten by requests that had read it before, and no more of them come |
| `CredentialInvariance`, `CredentialTypes`, `StalenessBounded` | `Spec => StaleOnlyBriefly` for any number of calls, sessions and lost events |
| `OwnersCredentials` | `Spec => []CredentialOfTheOwner`, assuming that a session is used with one user's tokens |
| `DisconnectReachesCache` | `Spec => DisconnectClears`, assuming `PerCall = FALSE` |
| `SplitKeyInvariance`, `SharesOfOneSplit`, `NoShareLeftBehind`, `ReadersGetOneSecret` | the three properties of shares, for any number of names, requests, losses and delays |
| `SignOnInvariance`, `OneRow`, `TokenIsCurrent` | `SignOnSpec => []OneRowPerUser`, `=> []StoredTokenIsCurrent` |
| `SingleUse` | `SignOnSpec => SsoStatesAreSingleUse`: `SignOn` implements `OneShot` under its refinement mapping |
| `GatewayInvariance`, `TablesAgree` | `McpSpec => []LoaderAgreesWithRouting` |
| `OnlyOwnCallsMark`, `ShownCallable` | `McpSpec => EarlierCallsDoNotMark`, `=> []ShownToolsAreCallable` |
| `VaultInvariance`, `VaultTypesHold` | `VaultSpec => []` the inductive invariant, the types |
| `RefreshTokens`, `ConnectionTokens` | `VaultSpec => []RefreshTokenInSync`, `=> []ActiveConnectionHasToken` |
| `DeletedTokens` | `VaultSpec => DeletedTokensStayDeleted` |
| `OAuthStates` | `VaultSpec => OAuthStatesAreSingleUse`: `OAuthVault` implements `OneShot` |
| `Challenge` | `LoginSpec => ChallengesAreSingleUse`: `AgentLogin` implements `OneShot` |
| `EnrolInvariance`, `RegisteredAgents`, `Breaker` | `EnrolSpec => []RegisteredAgentsCanBootstrap`, `=> []BreakerTripsAtThreshold` |
| `WholeSyncs` | `DirectorySpec => WholeSyncsAgree`, for any number of syncs, pages and entries |
| `ErrorCounts` | `HealthSpec => []ErrorsCountedOnce` |
| `CachedTokens` | `XSpec => []CachedTokensLast` |
| `SentTokens` | `ProxySpec => []SentTokensAreLive` |
| `Attenuation` | `MacSpec => []DelegationAttenuates`, for chains of any length |

Assumptions, each declared next to the constants it is about: lifetimes, bounds and timeouts
are numbers (`LifetimesAreTimes`, `BoundsAreNumbers`, `SessionTimes`, `SessionBounds`,
`TimesAreNumbers`, `TaskTimes`, `TaskBounds`, `CredentialTimes`, `CredentialBounds`,
`SignOnAssumption`), scope sets and
ceilings are made of permissions (`ScopesArePermissions`, `ShapesAreCeilings`), there
is a user and an agent (`SomebodyExists`), the threshold is at least 1
(`ThresholdIsPositive`), a bearer token lives no longer than a session plus a refresh
(`ShortTokens`, which the defaults of the code satisfy: 1 h against 16 h),
`NoSession` is not a session (`NoSessionIsNone`), `PerCall` is a Boolean (`PerCallIsBoolean`), the
built-in services are services (`BackendsAssumption`), and tokens name sessions and permissions
(`McpAssumption`). No theorem limits how many requests overlap; `InvitationsBounded`, which counts them, assumes that there
are finitely many (`IsFiniteSet(Workers)`).

Two theorems are about properties that a run finds violated. Each adds the one condition whose absence the run's
behaviour shows, so that run and theorem together name the cause: `CredentialOfTheOwner` takes a session used with two users'
tokens (`OwnersCredentials`: `[][UsedByOwner(owner)]_vars` for some `owner`; `credentials_owner`), and `IssuedTokensHaveSession`
the deletion of an agent (`TokensHaveSession`: `[]NoRowsDeleted`; `sessions_deleted`). For `TerminalIsFinal`, which `tasks_race` finds
violated, `EndsOverwrittenByClaims` says without a condition which requests can do it.

Numbers of tokens, states, agents and challenges are numbers (`VaultBounds`, `LoginAssumption`, `EnrolmentAssumption`, which
also says that `"none"` is no selector and that every platform token has one); the sweep is a request
(`SweeperAssumption`); what providers grant is made of a refresh token or none and of an age (`GrantsAssumption`); a listing is a sequence of pages that have no entry in common, groups first
(`DirectoryAssumption`); an exchange takes no longer than the buffer and validities are numbers
(`TokenExchangeAssumption`: 10 s of timeout against 60 s); two calls fit in the margin at which the proxy renews
(`LocalProxyAssumption`). TLC evaluates all of them.

The arguments:

- **`DelegationInv`** adds to types and `HoldsOnlyGranted`: rows are numbered
  1 .. `created` (`RowsAreNumbered`), a revocation lies in the past
  (`RevokedInThePast`), and what a handler in progress remembers is still sound
  (`SoundRequests`): a patch holds permissions that are within what *was granted*, not
  within what the row holds now. This is why `HoldsOnlyGranted` survives the race and
  `PermissionsNeverWiden` does not.
- **`SessionInv`** is about copies. Each token and each opening in progress
  carries permissions within `granted` of the delegation it names (`TokensSound`,
  `OpeningsSound`), which only grows. For residual authority: a session ends at most `SessionTTL` from now
  (`SessionsEndInTime`); so, for a token whose delegation was revoked, its session ends at most
  `SessionTTL` after that revocation, and a refresh needs a valid session. It is the delegation the
  *token* names that counts, which need not be the one its session was opened for. `MarkersOutliveSessions` gives
  `RevokedSessionTokensRejected`: a marker lasts to the last tick of its session, which whole seconds may cut off. The facts about what a step may do to the rows of `Delegations`
  (`RowsPersist`) are proved once and used by every session step.
- Rows that are deleted stay in the argument: both invariants speak of the rows there were (`Known`, `Opened`), every
  step leaves those their owner and what they were granted (`RowsPersist`), and the rows of an agent go together
  (`GoneTogether`), so a token's delegation and its session's, which are of one agent (`SessionsOwned`), go in
  one step. For `InvitationConveysNothing`: a row that waits was granted nothing (`InvitationsGrantNothing`), and
  `HoldsOnlyGranted` leaves it nothing to hold.
- **What a request decided on** (`RequestsDecided`): a patch will write no more than it read of its row; whether another request has
  changed the row since is `Overtaken`. A request that was not overtaken therefore narrows
  what is there (`OvertakenWiden`). For `InvitationsBounded`, `FewInvited` counts invitations that wait against
  the requests that are not about to send one: whoever is about to send found none that waits, and each sends at most
  `MaxInvited`. Most steps change neither side (`Quiet`, `RevocationsAreQuiet`); beginning to invite is `Starts`.
- **`OvertakenExceed`**: a step after which a session holds more than its delegation is the commit of a request that could
  not know of it (`CouldNotKnow`): an opening whose delegation was patched, a patch that had selected its sessions before this one was opened,
  or an acceptance that was overtaken. Every other step leaves the comparison as it was (`SessionStepExceeds`, `OwnStepExceeds`).
- **`IInv`** of `FailClosed`: an open circuit means a full counter, and a cached
  verdict and a pending 200 are evidence of an age the timers bound (`EvidenceIsFresh`).
- **`TaskInv`**: tokens name existing tasks and end before the deadline and within one token
  lifetime from now (`TokensAreShort`); a request in progress names an existing
  task. The status may be overwritten, the permission records and `completedAt` may not move
  back. The requests that read a task before it ended are its `Claims`: a task that has ended gains no new one
  (`ClaimsUnfinished`), and only the commit of one changes its status (`CommitsItsClaims`).
- **`CredentialInv`**: the time of an entry, or of a call under way, is one at or
  before which its credential was served (`Ages`). That is why the time stamp from
  before the fetch is the right one; the mutant that stamps later is caught. `IndexNamesOwner` for
  invalidation: with no user named per call, the index holds each entry under
  the user whose credential it is. `CacheOfTheOwner`, for the credential that is handed out: a session's
  entry, and every call that will write it, are of the session's owner.
- **`SplitKeyInv`** is about what a request in progress excludes. Under a name that never clashed a store is
  alone, over no row, with no deletion and nothing on its way (`StoresAlone`); a share that may still
  arrive finds no row (`LateSharesFindNoRow`); a row's split is the gateway's or the gateway has none (`RowsMatch`). Where
  no call failed either, a share without a row belongs to a request about to insert it
  (`SharesAccountedFor`). `SplitsAreNew` (no split is stored twice) carries `ReadsAreWhole`: a reader who finds two
  splits must have been overtaken.
- **`SignOnInv`**: a code is sent for exchange only of a state that is gone (`UsedStatesAreGone`, from which
  single use follows); a session that was renewed and could not be revoked is set apart (`left`); until a login's exchange is over it has no session and one request (`ExchangeFirst`);
  a renewal is of its session's login and token (`VisitsMatchSessions`); at a rotating provider the tokens of a login's
  sessions are all different and none is newer than the current one, except that of a renewal under way, which is alone
  (`RotationInOrder`); at a provider that does not rotate there is one token (`OneToken`). Then a
  session that looks alive and lags would be one whose token another renewal has used, and
  that renewal revoked or replaced it in the same transaction.
- **`BackendInv`**: the five tables agree (`LoaderAgreesWithRouting` is inductive with them), a connection
  has the number of a registration (`StatesAreRegistrations`), a call in
  progress through the manager went to an MCP service (`SentToRegistered`), a built-in service has no
  connection (`BuiltInHasNone`), and a service left by a registration that raised is not known (`HalfwayUnknown`). For `ShownCallable`: until a restart the permission map only grows, or is overwritten when a service is
  registered anew (`MappedGrows`); a listing carries the permission it was made with, so what it shows stays callable but for
  tools whose permission was overwritten (`ShownIsPermitted`).

- **`VaultInv`**: where a provider rotates, no row and no request has a newer refresh token than the one
  it accepts, and while an answer with that one is on its way nobody else has it or asked with it
  (`RotatedInOrder`). So the row of a token that was not lost lags only while an answer is under way, and the next
  answer cannot be overtaken: whoever asked with an older token is refused. Where a provider does not rotate there is one token (`OneToken`). For
  connections: a token that a request is about to link is stored, in no connection and in no other
  request's hands (`NewTokensApart`), and what a request will delete is of its own service (`RefsOfServices`). Then the row under an
  active connection is deleted only by a request that read the connection, and that request goes on to link another.
- **`StateLife`, `ChallengeLife`**: for each refinement of `OneShot`, a lemma per step says what becomes of the life of each secret. In
  `OAuthVault`, whoever redeems a state has spent it in the step before (`StatesInOrder`). In `AgentLogin`, an agent has one
  challenge, no two agents have the same (`ChallengesApart`), and a nonce in the hands of a single request has not been accepted
  (`NoncesUnused`; one that two requests held at once is in `heldTwice`, of which nothing is said).
- **`EnrolInv`**: a registration between its two transactions names a row that is there with its selector
  (`RowsOfRegistrations`), and rows only ever change from live to deleted. A registration succeeds by writing the policy of a selector
  that had none, so the policy is its own agent's, and no other registration writes it again. The breaker's failures pass the threshold only in a step that leaves its request about to open it.
- **`DirectoryInv`**: a sync that missed no page holds, of the pages behind it, exactly what is listed, but for what joined or left
  since it began (`PagesRead`). The rows it will delete are, until another sync commits, all rows
  it did not read (`RowsToDelete`). At its commit every page is behind it, so what is not listed has no row or is
  deleted, and `RowsFit` says that the rows it found are still there.
- **`HealthInv`**: only a round that is about to post holds a count, and it drained the counters when it took it.
- **`ExchangeInv`**: an exchange under way is no older than the gateway waits (`ExchangesArePrompt`), so the entry it leaves says of
  its token at most that time too much (`CacheKeepsTheBuffer`).
- **`ProxyInv`**: likewise a grant dies at the earliest one lifetime after it was asked for (`GrantsAreRecent`), the
  expiry the proxy reckons is late by no more than a call takes (`ReckonedInTime`), and with a margin of two calls the
  token outlives the call that carries it (`PresentedTokensOutliveCalls`).
- **`MacInv`**: each macaroon has all the caveats, but whom it is for, of every one it descends from (`KeptBy`); its child
  inherits them, so the length of the chain does not matter. It is an induction over calls, not over chains.

Only model-checked: the liveness properties (`RecoversWithControlPlane`, `DueTokensAreRefreshed`, `LoaderKeepsUp`,
`LiveServicesAreChecked`, `AuditedCallsShowUp`, `StepUpEnds`), since liveness under fairness is beyond this prover, as are
`ENABLED`, induction over data and `RECURSIVE` operators (the modules have none). `AuditTrail` and `SdkClient` have no other
properties, so no theorems.

## Disagreements

Each is a configuration whose counterexample is a behaviour of the code, and a line that
says otherwise. The first five are runs of `PROJECT.json`, the others are run by hand.

1. `tasks_race`: an activation that overlaps a revocation writes `active` over `revoked`, a
   status `TaskStatus` calls terminal (`task_token.py:50`).
2. `credentials_owner`: the cache key names the agent session alone, and all delegations of an
   agent share its newest session, so one user's call can be given another's cached
   credential for up to a minute. "WS-C7 must prevent cross-user token leakage"
   (`docs/workstreams/it-admin-service-catalog-mcp-mgmt/BREAKDOWN.md:120`).
3. `bootstrap_replay`: `validate_kubernetes_sat` screens a token before its signature is checked and again on
   its claims; the detector remembered it the first time, so a token's first request is refused. "Check if a
   token hash has been used before (replay attack)." (`security_validators.py:45`).
4. `split_restore`: `create_secret` replaces the gateway's share before it inserts a row whose name is
   unique; storing a name again fails on the row and leaves shares of two splits. "Store or update a secret
   in the vault." (`vault.py:764`).
5. `sessions_deleted`: a refresh is refused when the session is found and not valid, and let through when there is
   none (`agent_auth.py:565`). Deleting an agent deletes its sessions, so its tokens are refreshed for ever. "The session
   must still be active (not revoked)." (docstring of `agent_refresh`).
6. `MCProxyStops`: the gateway answers a notification with 202 and no body, `_forward` reads every answer as JSON, and
   nothing in `run` catches the exception. An MCP client sends a notification right after initialize. "Long-running
   Claude Code sessions work without manual JWT management" (`docs/spec/p5.4-sdk-integration-guides-spec.md:782`).
7. `MCDirectoryFailed`: a page of the directory that cannot be fetched ends the reading as the last page does, and what
   was not read is deleted: one failed page of users deletes users who are there throughout. "entries not present in the API
   response are deleted so stale data doesn't accumulate" (`directory_sync_service.py:30`).
8. `MCDelegationsWiden`: `patch_delegation_permissions` compares with the row it read and
   commits without a lock. Of two overlapping patches the later commit restores what the
   earlier removed. Docstring: "Narrow delegation permissions in place (monotonic
   attenuation)" (`delegation_service.py:750`).
9. `MCSessionsMarker`: a token refreshed shortly before its session's end outlives the
   session, and so the marker. "Revoke an agent session, immediately invalidating its JWT"
   (`agent_auth.py:625`).
10. `MCSessionsSuspend`: suspending writes `revoked_at` and no marker; the gateway reads only
   markers. "The agent will not be able to authenticate or execute actions until
   reactivated." (`dashboard/admin/agents/page.tsx:414-415`).
11. `MCSessionsAfterRevoke`: refresh checks the session and never the delegation. "Revocation
   is immediate and permanent" (`delegation_service.py:455`).
12. `MCAuditStream`: an event is stamped before it is committed, so one that commits after a later stamp was
    streamed, or that ties with the last of a full batch, is never streamed
    (`endpoints/audit.py:183`; `docs/spec/mvp-foundation-spec.md:467`).
13. `MCErrorsShown`: a probe that succeeds drops the errors just drained, and a report replaces the number
    shown, which the catalogue describes as a rolling 24 h count.
14. `MCSdkOwner`: `BaseClient` keeps one access token, whoever the request is for, so a client used for two
    agents sends the first one's token for the second.
15. `MCChainDepth`: the depth caveat of a delegated macaroon is taken from the first there is, so the depth of longer chains
    stays at two.

## Observations

Met while modelling and kept as they are in the modules, without a run of their own.

*Delegations, sessions, tasks*

- A pair may have several active delegations: `create_user_delegation` and the
  administrator's form leave earlier rows alone (`delegation.py:212`), and the only code that replaces them
  (`DelegationService.create_delegation`) is called by no endpoint.
- The user's and the administrator's creation do not look at the template's ceiling; the service's own
  creation, patches, acceptance and provisioning do. The administrator's does not look at the user's
  connected services either.
- A session opened while its delegation is being patched escapes the cascade; and after a
  patch the agent still obtains tokens through its newest session.
- The in-memory session claims the `delegation_id` of the request body.
- Revoking a session while Redis is away leaves the row revoked without a marker (`agent_auth.py:655`).
- Completing or revoking a task does not reach the gateway; task and user tokens set no
  limit on the permissions of the tasks they create; nothing schedules the deadline sweep (`task_service.py:292`).
- The two definitions of an agent's lifecycle state disagree (`lifecycle_service.py:42-140`: `compute_state`,
  `compute_state_bulk`).

*Identity*

- A nonce can be accepted by two requests that both find it: `get_and_delete` does not ask whether a row was deleted.
- A registration refused with 409 leaves its agent behind.
  A lookup reads 100 policies. The rate limiter counts each Kubernetes attempt twice.
- A logout leaves the session's JWT valid, and a renewal under way carries the logged-out session on. Roles survive a
  demotion through the chain of refreshes.
  A renewal whose second step fails, which is only logged (`sso.py:732-739`), leaves the old session live with a token that the
  provider has rotated. `auth_refresh` drops the `idp` and `roles` claims, so a later renewal asks the wrong provider.
- A failed page of a group's members leaves the group with those read so far (`directory_sync_service.py:211`); the sync at an
  administrator's login runs on the event loop and waits there for every page (`sso.py:510`).
- `UserSessionService` and parts of `IdPSessionService` are called by nobody; `user_sessions` rows are never revoked.

*OAuth and vault*

- `LocalScheduler` never refreshes: it asks without force and judges expiry without the database. Its
  retry, documented as "once", repeats for ever. The sweep makes up for both. The `oauth_refresh` endpoint
  looks the token up without the database, so it finds none that is kept there.
- A provider's answer without `expires_in` leaves the row's old expiry in place, so the token stays due, is refreshed by every
  sweep, and gets no timer (`vault_client.py:607-637`).
- Disconnected services are still refreshed by the sweep, racing connections can leave vault rows nothing links
  to, and a token connected by hand never expires in the vault.
- The `token_*` events never match a cache key (`vault://notion-oauth-<session>`), so only
  disconnects and restarts of the control plane invalidate; a fetch under way refills the cache after a handled
  disconnect; resubscribing does not empty it. `StaleOnlyBriefly` bounds all three.
- A `_meta.user_id` changes the index's user but not whose credential is fetched, so with `PerCall =
  TRUE` the invalidation misses (`DisconnectClears` is stated for `FALSE`).
- The gateway's own refresh is never
  reached, because the vault's answer holds no refresh token. `issue_credential` reads `secret_obj.value`, which the row
  has not. `JITReassemblyEngine` is used by nothing.

*Gateway*

- After the reset time every waiting request probes, where the comment of the breaker says "allow one check".
- The connection manager's health checks are never started (`connection_manager.py:9-10` says they are), so a backend marked unhealthy
  is refused until it is registered anew. Updates of a service's configuration are ignored (`dynamic_registry.py:95`). A service
  disabled before the gateway starts keeps its built-in client. An MCP service registered anew is never initialized anew.
- One service that cannot be registered (an empty address, which `admin_services.py:65` accepts; a tool whose description is
  null) ends every round of the loader: services behind it are never added, and none is removed
  (`dynamic_registry.py:95`), until its row changes. A tool that cannot be read leaves its service routed, but neither known nor listed, until a
  restart, and a gateway started while such a row is offered does not come up.
- Permission mappings are never removed; `discover_tools` overwrites edits of them; sessions list six built-in services;
  `DELETE /mcp` closes nothing. Wildcard tokens can call tools but are shown none.
- Errors of adapters are audited as successes and not counted; counts of unknown services accumulate. The
  poller writes "up" where the gateway writes "healthy".
- The endpoint gives the constraint checker an empty set (`main.py:722`), so no constraint applies.
- The exchange's cache key ignores scopes; entries are never evicted, and a disconnect does not reach them.
- The audit queue's flush at shutdown is never called. A reader who reconnects starts over.

*Clients*

- The step-up budget of two is never reset over a client's life. A request with a `delegation_token` raises, since no
  header is set on that path. `VaultClient` uses attributes its base class lacks, so only its local revocation and rotation
  work; `rotate_credential` writes the local key before the backend knows it.
- The SDK's revocation list is loaded at start and written back whole, so a revocation by an overlapping process is lost
  (`vault_client.py:67-110`).
- The JWT made of a macaroon takes the first, loosest, time limit (`delegation.py:421-424`);
  `create_delegation_chain` ignores `from_agent_id` after the first level. (Verification applies every caveat:
  `DelegationAttenuates`.)
- The local proxy never rotates among delegations, reads their list once, ends on an HTTP error, and renews at a fixed
  margin where the design says 80 % of the lifetime (`docs/spec/p5.4-sdk-integration-guides-spec.md:542`).
- The demonstration's agent bootstraps once and outlives its hour's tokens (`agents/gemini/entrypoint_sdk.py`).

## Simplifications

Data: permissions are model values; constraint dictionaries (hours, counts) take part in no
modelled decision; templates have a fixed lifetime and there is one per agent; a connected service
grants at least one permission, so "nothing connected" and "no scopes" coincide; usage
counters are left out (nothing increments them); a task's permission records share one
"revoked". Each service of `McpSessions` stands for one tool and the permission it needs. What a registration can stumble over is all of a service's row: its
status, whether its address is empty, and its tool. Splits, tokens
and registrations are numbers that only equality, and for tokens of a provider order, is asked of. Who
may call a handler (roles, service keys) is left out: any caller may.

Time: the control plane's clock does not move while one of the handlers of `Delegations` and `AgentSessions` is in
progress (they take less than a tick). Rows committed in the same tick are ordered by commit, where `created_at` would
order them. Where only an order of ages matters (`OAuthVault`, `SignOn`, `AgentLogin`, `HealthReports`,
`Enrolment`) time is an action that makes something older. No day passes in `HealthReports`.

Atomicity: revoking a session writes row and marker in one step (Redis away is modelled, a crash
between the two is not); a patch applies its cascade when it commits; the exchange is
linearized where it reads the session; commit and publication of a disconnect are one step, and
the publication may be lost. A control-plane fetch is bounded as a whole by `FetchTime`, where httpx
bounds each phase. `CommitMvp` and verification run on the event loop, one at a time.

Configuration: HS256 signatures, Redis configured, cache key = agent session; in `Credentials` one
backend service; the development ("MVP") mode of the vault and the refusal of expired
credentials are left out. The failure counters saturate at the threshold, where the code goes on
counting: no decision tells the difference.

## What is not modelled

The modules stand for about a seventh of the repository's implementation lines: nearly all the code in which two steps can
meet. The rest was read, and left out for one of these reasons.

- **No state.** The mapping of identity-provider groups to roles, the lifecycle summary (a query; its two
  definitions are an observation), the catalogue's views, the aggregator and `discover`, audit queries and exports, dashboards'
  statistics (most of `admin_fleet.py` beyond its revocations), tool definitions, protocol
  messages, the security filters and prompt-injection patterns.
- **Payload.** The backends' own clients (`slack_client.py`, `notion_client.py`, `gmail_client.py`, `gdrive_client.py` and
  the others) translate one call each into one request; their connection, retries and marks are in `Backends`. The
  providers' token formats likewise, behind `OAuthVault`.
- **Switched off or unreachable.** Constraints, the validator's status check, JIT reassembly,
  `UserSessionService`, the vault's mocks, the connection manager's monitor.
- **Cryptography.** Keys, KMS, attestation documents, signatures and macaroon MACs are taken as
  unforgeable.
- **Rows without a protocol.** Policies, CIMD documents, the members of the directory's groups.
- **User interface and scripts.** The web front end, the command line, demos, examples, experiments, deployment.

## Plan

Done, in this order: `Delegations`, `AgentSessions`, `FailClosed`, `Tasks`, `Credentials` with their proofs;
then `OneShot` and the components that refine it (`OAuthVault`, `AgentLogin`, `SignOn`), `SplitKey`, `Enrolment`, the gateway's
`Backends`, `McpSessions`, `HealthReports`, `AuditTrail`, and the clients `TokenExchange`, `LocalProxy`, `SdkClient`, `Macaroons`,
with proofs of `SplitKey`, `SignOn` and `McpSessions`; then the deletion of agents, with its proofs, `Directory`, and the theorems
about what overlapping requests can do to one another; then the proofs of every component that had none.

| next | module | bounds | worth stating and proving |
|---|---|---|---|
| 1 | `Authority`: abstract chain (grant, revoke, use) refined by `AgentSessions` | as `sessions_time` | every admission is backed by a grant that was alive at most the residual time ago |
| 2 | composition of `McpSessions` with `Credentials` and `TokenExchange` | two tokens of one session | a call runs with the credential of its token's owner, or within a cache's time of a change |
| 3 | `Constraints`, once the endpoint passes them on | two calls, a limit of one | daily limits under concurrency |

Every safety property of the passing runs is proved.
