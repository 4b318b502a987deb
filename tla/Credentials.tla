----------------------------- MODULE Credentials -----------------------------
(***************************************************************************)
(* The credentials the gateway attaches to tool calls of one backend: the  *)
(* control plane serves the OAuth token of the user a delegation token     *)
(* names, the gateway's CredentialInjector keeps it for a while, and a     *)
(* Redis channel carries the events that should empty that cache.          *)
(*                                                                         *)
(* The gateway is one event loop; a tool call lets others run only while   *)
(* it awaits the vault.  The cache's key is the reference that initialize  *)
(* made up from the agent's session, so it stands for the session here.    *)
(* That is never a reference of the vault, so the events that carry one    *)
(* (token_stored, token_updated, token_deleted) change nothing and are     *)
(* left out.  An entry of _ref_to_user_service is written and removed with *)
(* its cache entry and is part of it.                                      *)
(***************************************************************************)
EXTENDS Naturals, Sequences

CONSTANTS
  Users,
  Sessions,      \* agent sessions that sent initialize
  NoSession,     \* of a tool call without one
  Requests,      \* tool calls in progress at once
  PerCall,       \* whether agents send _meta.user_id
  CacheTTL,      \* cache_ttl_seconds
  FetchTime,     \* how long a vault fetch may take before httpx gives up
  MaxTokens,     \* access tokens that users obtain (bound)
  MaxEvents,     \* events under way in the channel (bound)
  MaxTime        \* last tick of the clock (bound)

ASSUME NoSessionIsNone == NoSession \notin Sessions
ASSUME PerCallIsBoolean == PerCall \in BOOLEAN
ASSUME CredentialTimes == CacheTTL \in Nat /\ FetchTime \in Nat
ASSUME CredentialBounds == MaxTokens \in Nat /\ MaxEvents \in Nat /\ MaxTime \in Nat

VARIABLES
  now,
  served,      \* the token in the vault of each user's connected service, or None
  issued,      \* how many access tokens were ever obtained
  retired,     \* history: when each of them ceased to be served
  channel,     \* events published and not yet handled
  subscribed,  \* whether the gateway listens to the channel
  cache,       \* _token_cache and _ref_to_user_service
  req          \* what each tool call is doing

vars == <<now, served, issued, retired, channel, subscribed, cache, req>>

plane   == <<served, issued, retired>>
gateway == <<subscribed, cache, req>>

----------------------------------------------------------------------------

Time    == 0 .. MaxTime
Version == 1 .. MaxTokens
None    == 0

\* An access token; nr counts the tokens in the order they were obtained.
Credential == [of : Users, nr : Version]

Event == [kind : {"service_disconnected"}, user : Users] \cup [kind : {"control_plane_restart"}]

\* "for" is the user that _ref_to_user_service names for the entry.
Entry == [token : Credential, at : Time, for : Users]

\* A call bears a token of "user" and is made for "for"; "at" is its time.time().
Call == [user : Users, for : Users, session : Sessions \cup {NoSession}, at : Time]

Idle == [phase |-> "idle"]

Request ==
  {Idle}
  \cup [phase : {"asking"}, call : Call]
  \cup [phase : {"answered"}, call : Call, answer : SUBSET Credential]
  \cup [phase : {"given"}, user : Users, token : Credential]

Given(u, c) == [phase |-> "given", user |-> u, token |-> c]

InFlight == {r \in Requests : req[r].phase \in {"asking", "answered"}}

\* What the control plane would answer for user u: at most one credential.
Served(u) == IF served[u] = None THEN {} ELSE {[of |-> u, nr |-> served[u]]}

Retire(u) == IF served[u] = None THEN retired ELSE [retired EXCEPT ![served[u]] = now]

\* tools/call: the user a call is made for is the token's, unless _meta names another.
MadeFor(u) == IF PerCall THEN Users ELSE {u}

----------------------------------------------------------------------------
(* The control plane *)

\* _publish_event: best effort, and nobody keeps events for an absent subscriber.
Publish(e) ==
  channel' \in {channel} \cup IF subscribed /\ Len(channel) < MaxEvents
                              THEN {Append(channel, e)} ELSE {}

\* A user connects or reconnects the service, or its token is refreshed.
NewToken(u) ==
  /\ issued < MaxTokens
  /\ issued' = issued + 1
  /\ served' = [served EXCEPT ![u] = issued + 1]
  /\ retired' = Retire(u)
  /\ UNCHANGED <<now, channel, gateway>>

\* The OAuth callback deletes the old vault row before it stores the new one.
TokenGone(u) ==
  /\ served[u] # None
  /\ served' = [served EXCEPT ![u] = None]
  /\ retired' = Retire(u)
  /\ UNCHANGED <<now, issued, channel, gateway>>

Disconnect(u) ==
  /\ served[u] # None
  /\ served' = [served EXCEPT ![u] = None]
  /\ retired' = Retire(u)
  /\ Publish([kind |-> "service_disconnected", user |-> u])
  /\ UNCHANGED <<now, issued, gateway>>

PlaneRestarts ==
  /\ Publish([kind |-> "control_plane_restart"])
  /\ UNCHANGED <<now, plane, gateway>>

\* get_token_for_service looks up the user the bearer token names.
Answer(r) ==
  /\ req[r].phase = "asking"
  /\ req' = [req EXCEPT ![r] = [phase |-> "answered", call |-> @.call,
                                answer |-> Served(@.call.user)]]
  /\ UNCHANGED <<now, plane, channel, subscribed, cache>>

----------------------------------------------------------------------------
(* A tool call at the gateway *)

Hits(s) == IF s = NoSession THEN {} ELSE {e \in cache[s] : now < e.at + CacheTTL}

CacheHit(r, u, s) ==
  /\ req[r] = Idle
  /\ \E e \in Hits(s) : req' = [req EXCEPT ![r] = Given(u, e.token)]
  /\ UNCHANGED <<now, plane, channel, subscribed, cache>>

BeginFetch(r, u, v, s) ==
  /\ req[r] = Idle
  /\ Hits(s) = {}
  /\ req' = [req EXCEPT ![r] = [phase |-> "asking",
                                call |-> [user |-> u, for |-> v, session |-> s, at |-> now]]]
  /\ UNCHANGED <<now, plane, channel, subscribed, cache>>

Store(s, e) == IF s = NoSession THEN cache ELSE [cache EXCEPT ![s] = {e}]

\* A mistaken form: the entry's age counts from the answer's arrival.
ReceiveTokenStampedLate(r) ==
  /\ req[r].phase = "answered"
  /\ \E c \in req[r].answer :
       /\ req' = [req EXCEPT ![r] = Given(req[r].call.user, c)]
       /\ cache' = Store(req[r].call.session, [token |-> c, at |-> now, for |-> req[r].call.for])
  /\ UNCHANGED <<now, plane, channel, subscribed>>

\* A mistaken form: an entry that is replaced keeps the user it was indexed under.
ReceiveTokenKeepsIndex(r) ==
  /\ req[r].phase = "answered"
  /\ \E c \in req[r].answer :
       /\ req' = [req EXCEPT ![r] = Given(req[r].call.user, c)]
       /\ LET s == req[r].call.session
              f == IF s = NoSession \/ cache[s] = {} THEN req[r].call.for
                   ELSE (CHOOSE e \in cache[s] : TRUE).for
          IN  cache' = Store(s, [token |-> c, at |-> req[r].call.at, for |-> f])
  /\ UNCHANGED <<now, plane, channel, subscribed>>

\* _get_token after its await: the entry keeps the time at which the call began.
ReceiveToken(r) ==
  /\ req[r].phase = "answered"
  /\ \E c \in req[r].answer :
       /\ req' = [req EXCEPT ![r] = Given(req[r].call.user, c)]
       /\ cache' = Store(req[r].call.session,
                         [token |-> c, at |-> req[r].call.at, for |-> req[r].call.for])
  /\ UNCHANGED <<now, plane, channel, subscribed>>

\* A mistaken form: an empty answer is passed on.
ReceiveNothingAsToken(r) ==
  /\ req[r].phase = "answered"
  /\ req[r].answer = {}
  /\ req' = [req EXCEPT ![r] = Given(req[r].call.user, [of |-> req[r].call.user, nr |-> None])]
  /\ UNCHANGED <<now, plane, channel, subscribed, cache>>

ReceiveNothing(r) ==
  /\ req[r].phase = "answered"
  /\ req[r].answer = {}
  /\ req' = [req EXCEPT ![r] = Idle]
  /\ UNCHANGED <<now, plane, channel, subscribed, cache>>

\* A timeout, an error status, or no connection: the call is refused, as above.
FetchFails(r) ==
  /\ r \in InFlight
  /\ req' = [req EXCEPT ![r] = Idle]
  /\ UNCHANGED <<now, plane, channel, subscribed, cache>>

Leave(r) ==
  /\ req[r].phase = "given"
  /\ req' = [req EXCEPT ![r] = Idle]
  /\ UNCHANGED <<now, plane, channel, subscribed, cache>>

----------------------------------------------------------------------------
(* The cache subscriber *)

\* invalidate_user_service or clear_cache
Drop(e) ==
  cache' = [s \in Sessions |->
              IF e.kind = "control_plane_restart" THEN {}
              ELSE {x \in cache[s] : x.for # e.user}]

Deliver ==
  /\ channel # <<>>
  /\ channel' = Tail(channel)
  /\ Drop(Head(channel))
  /\ UNCHANGED <<now, plane, subscribed, req>>

\* The connection breaks: what was under way is lost, and the cache stays as it is.
LoseSubscription ==
  /\ subscribed
  /\ subscribed' = FALSE
  /\ channel' = <<>>
  /\ UNCHANGED <<now, plane, cache, req>>

Subscribe ==
  /\ ~subscribed
  /\ subscribed' = TRUE
  /\ UNCHANGED <<now, plane, channel, cache, req>>

GatewayRestarts ==
  /\ subscribed' = FALSE
  /\ channel' = <<>>
  /\ cache' = [s \in Sessions |-> {}]
  /\ req' = [r \in Requests |-> Idle]
  /\ UNCHANGED <<now, plane>>

----------------------------------------------------------------------------

\* A fetch ends, by an answer or an error, within FetchTime.
Tick ==
  /\ now < MaxTime
  /\ \A r \in InFlight : now < req[r].call.at + FetchTime
  /\ now' = now + 1
  /\ UNCHANGED <<plane, channel, gateway>>

Init ==
  /\ now = 0
  /\ served = [u \in Users |-> None]
  /\ issued = 0
  /\ retired = [n \in Version |-> 0]
  /\ channel = <<>>
  /\ subscribed = FALSE
  /\ cache = [s \in Sessions |-> {}]
  /\ req = [r \in Requests |-> Idle]

CallStep(r) ==
  \/ \E u \in Users, s \in Sessions \cup {NoSession} :
       \/ CacheHit(r, u, s)
       \/ \E v \in MadeFor(u) : BeginFetch(r, u, v, s)
  \/ Answer(r) \/ ReceiveToken(r) \/ ReceiveNothing(r) \/ FetchFails(r) \/ Leave(r)

Next ==
  \/ \E u \in Users : NewToken(u) \/ TokenGone(u) \/ Disconnect(u)
  \/ \E r \in Requests : CallStep(r)
  \/ PlaneRestarts \/ Deliver \/ LoseSubscription \/ Subscribe \/ GatewayRestarts
  \/ Tick

Spec == Init /\ [][Next]_vars

----------------------------------------------------------------------------

\* Types of the vault's state, the channel, the cache and the calls.
TypeOK ==
  /\ now \in Time
  /\ served \in [Users -> 0 .. issued]
  /\ issued \in 0 .. MaxTokens
  /\ retired \in [Version -> Time]
  /\ channel \in Seq(Event) /\ Len(channel) <= MaxEvents
  /\ subscribed \in BOOLEAN
  /\ cache \in [Sessions -> SUBSET Entry]
  /\ req \in [Requests -> Request]

GivenNow(r, c) == req[r].phase # "given" /\ req'[r].phase = "given" /\ req'[r].token = c

\* A credential that is attached to a call is the one the vault serves, or it was until
\* less than the cache's time ago, or no longer ago than a fetch takes: whatever events
\* are lost, and whichever fetches overlap a disconnect, the cache's age limit bounds how
\* long _get_token hands out a token that was disconnected or replaced.
StaleOnlyBriefly ==
  [][\A r \in Requests, c \in Credential :
       GivenNow(r, c) =>
         \/ c \in Served(c.of)
         \/ now < retired[c.nr] + CacheTTL
         \/ now <= retired[c.nr] + FetchTime]_vars

\* When the gateway has handled the event of a user's disconnect, no session's cache
\* entry holds that user's credential any more.
DisconnectClears ==
  [][\A u \in Users :
       (Deliver /\ Head(channel) = [kind |-> "service_disconnected", user |-> u]) =>
         \A s \in Sessions : \A e \in cache'[s] : e.token.of # u]_vars

\* A call is given the credential of the user its bearer token names, as a bearer token
\* with one owner is said to make the lookup unambiguous.
CredentialOfTheOwner ==
  \A r \in Requests : req[r].phase = "given" => req[r].token.of = req[r].user
=============================================================================
