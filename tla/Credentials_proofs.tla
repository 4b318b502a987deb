-------------------------- MODULE Credentials_proofs --------------------------
(* Safety of the gateway's credential cache, for any users, sessions and calls. *)
EXTENDS Credentials, SequenceTheorems, TLAPS

\* Credential c is what the vault serves, or it was until time t or later.
GoodAt(c, t) ==
  /\ c.nr <= issued
  /\ served[c.of] = c.nr \/ t <= retired[c.nr]

\* What makes StaleOnlyBriefly inductive: the time an entry or a call under way carries
\* is one at which its credential was served, or an earlier one.
Ages ==
  /\ \A s \in Sessions : \A e \in cache[s] : e.at <= now /\ GoodAt(e.token, e.at)
  /\ \A r \in InFlight : req[r].call.at <= now /\ now <= req[r].call.at + FetchTime
  /\ \A r \in Requests :
       req[r].phase = "answered" => \A c \in req[r].answer : GoodAt(c, req[r].call.at)

CredentialInv == TypeOK /\ Ages

----------------------------------------------------------------------------

\* The vault answers with at most one credential, of the user it was asked for.
LEMMA ServedFacts ==
  ASSUME TypeOK, NEW u \in Users
  PROVE  /\ Served(u) \subseteq Credential
         /\ \A c \in Served(u) : c.of = u /\ c.nr = served[u] /\ c.nr <= issued
  BY CredentialBounds DEF TypeOK, Served, Credential, Version, None

\* A call is made for some user.
LEMMA MadeForUsers == \A u \in Users : MadeFor(u) \subseteq Users
  BY DEF MadeFor

\* A token that ceases to be served was served until now.
LEMMA RetireFacts ==
  ASSUME TypeOK, NEW u \in Users
  PROVE  /\ Retire(u) \in [Version -> Time]
         /\ \A n \in Version : Retire(u)[n] = retired[n] \/ (n = served[u] /\ Retire(u)[n] = now)
         /\ served[u] # None => Retire(u)[served[u]] = now
  BY CredentialBounds DEF TypeOK, Retire, Version, None, Time

\* Publishing an event keeps the channel a bounded sequence of events.
LEMMA PublishType ==
  ASSUME TypeOK, NEW e \in Event, Publish(e)
  PROVE  channel' \in Seq(Event) /\ Len(channel') <= MaxEvents
<1>1. CASE channel' = channel
  BY <1>1 DEF TypeOK
<1>2. CASE channel' = Append(channel, e) /\ Len(channel) < MaxEvents
  <2>1. channel' \in Seq(Event) /\ Len(channel') = Len(channel) + 1
    BY <1>2, AppendProperties DEF TypeOK
  <2>2. Len(channel) \in Nat
    BY LenProperties DEF TypeOK
  <2> QED
    BY <1>2, <2>1, <2>2, CredentialBounds
<1> QED
  BY <1>1, <1>2 DEF Publish

\* A call under way, and what it may have been answered.
LEMMA InFlightFacts ==
  ASSUME TypeOK, NEW r \in InFlight
  PROVE  /\ r \in Requests /\ req[r].call \in Call
         /\ req[r].phase = "answered" => req[r].answer \subseteq Credential
  BY DEF TypeOK, InFlight, Request, Idle

\* The control plane changes what it serves, at the present time, for one user.
LEMMA PlaneKeepsGood ==
  ASSUME TypeOK, NEW u \in Users, NEW n \in {None, issued + 1},
         served' = [served EXCEPT ![u] = n], issued <= issued', retired' = Retire(u),
         NEW c \in Credential, NEW t \in Time, t <= now, GoodAt(c, t), issued' \in Nat
  PROVE  GoodAt(c, t)'
<1>1. c.nr \in Version /\ c.of \in Users /\ c.nr \in Nat
  BY CredentialBounds DEF Credential, Version
<1>2. issued \in Nat /\ now \in Nat
  BY CredentialBounds DEF TypeOK, Time
<1>3. CASE served[c.of] = c.nr
  <2>1. CASE c.of = u
    BY <1>1, <1>2, <1>3, <2>1, RetireFacts DEF GoodAt, None, Version
  <2>2. CASE c.of # u
    BY <1>1, <1>2, <1>3, <2>2 DEF GoodAt, TypeOK
  <2> QED
    BY <2>1, <2>2
<1>4. CASE t <= retired[c.nr]
  <2>1. retired'[c.nr] = retired[c.nr] \/ retired'[c.nr] = now
    BY <1>1, RetireFacts
  <2> QED
    BY <1>1, <1>2, <1>4, <2>1 DEF GoodAt
<1> QED
  BY <1>3, <1>4 DEF GoodAt

----------------------------------------------------------------------------
(* The invariant *)

\* It holds of a gateway and a vault that have just been created.
LEMMA InitCredentialInv == Init => CredentialInv
<1> SUFFICES ASSUME Init PROVE CredentialInv
  OBVIOUS
<1>1. TypeOK
  <2>1. now \in Time /\ served \in [Users -> 0 .. issued] /\ issued \in 0 .. MaxTokens
    BY CredentialBounds DEF Init, Time, None
  <2>2. retired \in [Version -> Time]
    BY CredentialBounds DEF Init, Time
  <2>3. channel \in Seq(Event) /\ Len(channel) <= MaxEvents
    BY CredentialBounds, EmptySeq DEF Init
  <2>4. subscribed \in BOOLEAN /\ cache \in [Sessions -> SUBSET Entry]
    BY DEF Init
  <2>5. req \in [Requests -> Request]
    BY DEF Init, Request
  <2> QED
    BY <2>1, <2>2, <2>3, <2>4, <2>5 DEF TypeOK
<1>2. Ages
  BY DEF Init, Ages, InFlight, Idle
<1> QED
  BY <1>1, <1>2 DEF CredentialInv

\* It survives whatever changes only what the vault serves and the channel.
LEMMA PlaneKeepsInv ==
  ASSUME CredentialInv, UNCHANGED <<now, gateway>>,
         NEW u \in Users, NEW n \in {None, issued + 1},
         served' = [served EXCEPT ![u] = n], retired' = Retire(u),
         issued' \in 0 .. MaxTokens, issued <= issued', n <= issued',
         channel' \in Seq(Event), Len(channel') <= MaxEvents
  PROVE  CredentialInv'
<1> USE DEF CredentialInv
<1>0. issued \in Nat /\ issued' \in Nat /\ n \in Nat
  BY CredentialBounds DEF TypeOK, None
<1>1. TypeOK'
  <2>1. served' \in [Users -> 0 .. issued']
    BY <1>0, CredentialBounds DEF TypeOK
  <2> QED
    BY <2>1, RetireFacts DEF TypeOK, gateway
<1>2. ASSUME NEW s \in Sessions, NEW e \in cache'[s]
      PROVE  e.at <= now' /\ GoodAt(e.token, e.at)'
  <2>1. /\ e \in cache[s] /\ e \in Entry /\ e.token \in Credential /\ e.at \in Time
        /\ e.at <= now /\ GoodAt(e.token, e.at)
    BY <1>2 DEF gateway, Ages, TypeOK, Entry
  <2>2. GoodAt(e.token, e.at)'
    BY <1>0, <2>1, PlaneKeepsGood
  <2> QED
    BY <2>1, <2>2
<1>3. ASSUME NEW r \in Requests, req'[r].phase = "answered", NEW c \in req'[r].answer
      PROVE  GoodAt(c, req[r].call.at)'
  <2>1. r \in InFlight /\ req'[r] = req[r]
    BY <1>3 DEF gateway, InFlight
  <2>2. PICK t \in Time : t = req[r].call.at
    BY <2>1, InFlightFacts DEF Call
  <2>3. c \in Credential /\ t <= now /\ GoodAt(c, t)
    BY <1>3, <2>1, <2>2, InFlightFacts DEF Ages
  <2>4. GoodAt(c, t)'
    BY <1>0, <2>3, PlaneKeepsGood
  <2> QED
    BY <2>1, <2>2, <2>4 DEF GoodAt
<1>4. Ages'
  <2>1. InFlight' = InFlight
    BY DEF gateway, InFlight
  <2> QED
    BY <1>2, <1>3, <2>1 DEF Ages, gateway
<1> QED
  BY <1>1, <1>4

\* A step of one call keeps the invariant of the others, and of the cache if it leaves
\* that alone.
LEMMA CallKeepsAges ==
  ASSUME CredentialInv, UNCHANGED <<now, plane>>, NEW r \in Requests, NEW q \in Request,
         req' = [req EXCEPT ![r] = q],
         q.phase \in {"asking", "answered"} => q.call.at <= now /\ now <= q.call.at + FetchTime,
         q.phase = "answered" => \A c \in q.answer : GoodAt(c, q.call.at),
         \A s \in Sessions : \A e \in cache'[s] : e.at <= now /\ GoodAt(e.token, e.at)
  PROVE  Ages' /\ req' \in [Requests -> Request]
<1> USE DEF CredentialInv
<1>1. req' \in [Requests -> Request]
  BY DEF TypeOK
<1>2. \A c, t : GoodAt(c, t)' <=> GoodAt(c, t)
  BY DEF GoodAt, plane
<1>3. ASSUME NEW p \in Requests
      PROVE  /\ p \in InFlight' => req'[p].call.at <= now /\ now <= req'[p].call.at + FetchTime
             /\ req'[p].phase = "answered" => \A c \in req'[p].answer : GoodAt(c, req'[p].call.at)
  <2>1. CASE p = r
    <3>1. req'[p] = q
      BY <2>1 DEF TypeOK
    <3> QED
      BY <3>1 DEF InFlight, GoodAt, plane
  <2>2. CASE p # r
    <3>1. req'[p] = req[p]
      BY <2>2 DEF TypeOK
    <3> QED
      BY <3>1 DEF InFlight, Ages, GoodAt, plane
  <2> QED
    BY <2>1, <2>2
<1>4. InFlight' \subseteq Requests
  BY DEF InFlight
<1>5. now' = now
  OBVIOUS
<1>6. \A s \in Sessions : \A e \in cache'[s] : e.at <= now' /\ GoodAt(e.token, e.at)'
  BY <1>2, <1>5
<1>7. \A p \in InFlight' : req'[p].call.at <= now' /\ now' <= req'[p].call.at + FetchTime
  BY <1>3, <1>4, <1>5
<1> QED
  BY <1>1, <1>2, <1>3, <1>6, <1>7 DEF Ages

\* A step of a tool call keeps the invariant.
LEMMA CallStepInv ==
  ASSUME CredentialInv, NEW r \in Requests, CallStep(r)
  PROVE  CredentialInv'
<1> USE DEF CredentialInv
<1>1. /\ UNCHANGED <<now, plane, channel, subscribed>>
      /\ \A s \in Sessions : \A e \in cache[s] : e.at <= now /\ GoodAt(e.token, e.at)
  BY DEF CallStep, CacheHit, BeginFetch, Answer, ReceiveToken, ReceiveNothing, FetchFails,
         Leave, Ages
<1>2. ASSUME NEW q \in Request, req' = [req EXCEPT ![r] = q], cache' = cache,
             q.phase \in {"asking", "answered"} =>
               q.call.at <= now /\ now <= q.call.at + FetchTime,
             q.phase = "answered" => \A c \in q.answer : GoodAt(c, q.call.at)
      PROVE  CredentialInv'
  <2>1. Ages' /\ req' \in [Requests -> Request]
    BY <1>1, <1>2, CallKeepsAges
  <2> QED
    BY <1>1, <1>2, <2>1 DEF TypeOK, plane
<1>3. ASSUME NEW u \in Users, NEW s \in Sessions \cup {NoSession}, CacheHit(r, u, s)
      PROVE  CredentialInv'
  <2>1. PICK e \in Hits(s) : req' = [req EXCEPT ![r] = Given(u, e.token)]
    BY <1>3 DEF CacheHit
  <2>2. e \in Entry
    BY <2>1 DEF Hits, TypeOK
  <2>3. Given(u, e.token) \in Request /\ Given(u, e.token).phase = "given"
    BY <2>2 DEF Given, Request, Entry
  <2> QED
    BY <1>2, <1>3, <2>1, <2>3 DEF CacheHit
<1>4. ASSUME NEW u \in Users, NEW v \in Users, NEW s \in Sessions \cup {NoSession},
             BeginFetch(r, u, v, s)
      PROVE  CredentialInv'
  <2> DEFINE q == [phase |-> "asking", call |-> [user |-> u, for |-> v, session |-> s, at |-> now]]
  <2>1. q \in Request
    BY DEF TypeOK, Request, Call
  <2>2. q.call.at <= now /\ now <= q.call.at + FetchTime /\ q.phase # "answered"
    BY CredentialTimes, CredentialBounds DEF TypeOK, Time
  <2> QED
    BY <1>2, <1>4, <2>1, <2>2 DEF BeginFetch
<1>5. CASE Answer(r)
  <2> DEFINE q == [phase |-> "answered", call |-> req[r].call,
                   answer |-> Served(req[r].call.user)]
  <2>1. r \in InFlight /\ req[r].call \in Call
    BY <1>5, InFlightFacts DEF Answer, InFlight
  <2>2. req[r].call.user \in Users
    BY <2>1 DEF Call
  <2>3. q \in Request
    BY <2>1, <2>2, ServedFacts DEF Request
  <2>4. \A c \in q.answer : GoodAt(c, q.call.at)
    BY <2>2, ServedFacts DEF GoodAt
  <2>5. req' = [req EXCEPT ![r] = q]
    BY <1>5 DEF Answer, TypeOK
  <2>6. q.call.at <= now /\ now <= q.call.at + FetchTime
    BY <2>1 DEF Ages
  <2> QED
    BY <1>2, <1>5, <2>3, <2>4, <2>5, <2>6 DEF Answer
<1>6. CASE ReceiveToken(r)
  <2>1. PICK c \in req[r].answer :
          /\ req' = [req EXCEPT ![r] = Given(req[r].call.user, c)]
          /\ cache' = Store(req[r].call.session,
                            [token |-> c, at |-> req[r].call.at, for |-> req[r].call.for])
    BY <1>6 DEF ReceiveToken
  <2>2. r \in InFlight /\ req[r].phase = "answered" /\ req[r].call \in Call /\ c \in Credential
    BY <1>6, <2>1, InFlightFacts DEF ReceiveToken, InFlight
  <2> DEFINE q == Given(req[r].call.user, c)
             e == [token |-> c, at |-> req[r].call.at, for |-> req[r].call.for]
  <2>3. e \in Entry /\ e.at <= now /\ GoodAt(e.token, e.at)
    BY <2>1, <2>2 DEF Entry, Call, Ages
  <2>4. q \in Request /\ q.phase = "given"
    BY <2>2 DEF Request, Given, Call
  <2>5. /\ cache' \in [Sessions -> SUBSET Entry]
        /\ \A s \in Sessions : cache'[s] = cache[s] \/ cache'[s] = {e}
    BY <2>1, <2>3 DEF Store, TypeOK
  <2>6. \A s \in Sessions : \A x \in cache'[s] : x.at <= now /\ GoodAt(x.token, x.at)
    BY <1>1, <2>3, <2>5
  <2>7. Ages' /\ req' \in [Requests -> Request]
    BY <1>1, <2>1, <2>4, <2>6, CallKeepsAges
  <2> QED
    BY <1>1, <2>5, <2>7 DEF TypeOK, plane
<1>7. CASE ReceiveNothing(r) \/ FetchFails(r) \/ Leave(r)
  <2>1. req' = [req EXCEPT ![r] = Idle] /\ cache' = cache
    BY <1>7 DEF ReceiveNothing, FetchFails, Leave
  <2>2. Idle \in Request /\ Idle.phase = "idle"
    BY DEF Idle, Request
  <2> QED
    BY <1>2, <2>1, <2>2
<1> QED
  BY <1>3, <1>4, <1>5, <1>6, <1>7, MadeForUsers DEF CallStep

\* The subscriber only removes entries, and time passes only while every fetch may last.
LEMMA NextCredentialInv == CredentialInv /\ [Next]_vars => CredentialInv'
<1> SUFFICES ASSUME CredentialInv, [Next]_vars
             PROVE  CredentialInv'
  OBVIOUS
<1> USE DEF CredentialInv
<1>1. CASE UNCHANGED vars
  BY <1>1 DEF vars, TypeOK, Ages, InFlight, GoodAt
<1>2. ASSUME NEW u \in Users, NewToken(u)
      PROVE  CredentialInv'
  <2>1. /\ issued + 1 <= issued' /\ issued <= issued' /\ issued' \in 0 .. MaxTokens
        /\ channel' \in Seq(Event) /\ Len(channel') <= MaxEvents
    BY <1>2, CredentialBounds DEF NewToken, TypeOK
  <2> QED
    BY <1>2, <2>1, PlaneKeepsInv DEF NewToken
<1>3. ASSUME NEW u \in Users, TokenGone(u) \/ Disconnect(u)
      PROVE  CredentialInv'
  <2>1. channel' \in Seq(Event) /\ Len(channel') <= MaxEvents
    <3>1. [kind |-> "service_disconnected", user |-> u] \in Event
      BY DEF Event
    <3> QED
      BY <1>3, <3>1, PublishType DEF TokenGone, Disconnect, TypeOK
  <2>2. /\ UNCHANGED <<now, gateway>> /\ served' = [served EXCEPT ![u] = None]
        /\ retired' = Retire(u) /\ issued' = issued
    BY <1>3 DEF TokenGone, Disconnect
  <2>3. issued' \in 0 .. MaxTokens /\ issued <= issued' /\ None <= issued'
    BY <2>2, CredentialBounds DEF TypeOK, None
  <2> QED
    BY <2>1, <2>2, <2>3, PlaneKeepsInv
<1>4. CASE PlaneRestarts
  <2>1. [kind |-> "control_plane_restart"] \in Event
    BY DEF Event
  <2>2. channel' \in Seq(Event) /\ Len(channel') <= MaxEvents
    BY <1>4, <2>1, PublishType DEF PlaneRestarts
  <2> QED
    BY <1>4, <2>2 DEF PlaneRestarts, plane, gateway, TypeOK, Ages, InFlight, GoodAt
<1>5. CASE Deliver
  <2>1. /\ cache' \in [Sessions -> SUBSET Entry]
        /\ \A s \in Sessions : cache'[s] \subseteq cache[s]
    BY <1>5 DEF Deliver, Drop, TypeOK
  <2>2. channel' \in Seq(Event) /\ Len(channel') <= MaxEvents
    BY <1>5, HeadTailProperties, LenProperties, CredentialBounds DEF Deliver, TypeOK
  <2> QED
    BY <1>5, <2>1, <2>2 DEF Deliver, plane, TypeOK, Ages, InFlight, GoodAt
<1>6. CASE LoseSubscription \/ Subscribe
  <2>1. channel' = <<>> \/ channel' = channel
    BY <1>6 DEF LoseSubscription, Subscribe
  <2>2. channel' \in Seq(Event) /\ Len(channel') <= MaxEvents
    <3>1. CASE channel' = <<>>
      BY <3>1, EmptySeq, CredentialBounds
    <3>2. CASE channel' = channel
      BY <3>2 DEF TypeOK
    <3> QED
      BY <2>1, <3>1, <3>2
  <2>3. subscribed' \in BOOLEAN /\ UNCHANGED <<now, plane, cache, req>>
    BY <1>6 DEF LoseSubscription, Subscribe
  <2> QED
    BY <2>2, <2>3 DEF plane, TypeOK, Ages, InFlight, GoodAt
<1>7. CASE GatewayRestarts
  <2>1. channel' \in Seq(Event) /\ Len(channel') <= MaxEvents
    BY <1>7, EmptySeq, CredentialBounds DEF GatewayRestarts
  <2>2. req' \in [Requests -> Request] /\ InFlight' = {}
    BY <1>7 DEF GatewayRestarts, Request, InFlight, Idle
  <2>3. Ages'
    BY <1>7, <2>2 DEF GatewayRestarts, Ages, Idle
  <2> QED
    BY <1>7, <2>1, <2>2, <2>3 DEF GatewayRestarts, plane, TypeOK
<1>8. CASE Tick
  <2>1. now \in Nat /\ now' = now + 1 /\ now' \in Time
    BY <1>8, CredentialBounds DEF Tick, TypeOK, Time
  <2>2. TypeOK'
    BY <1>8, <2>1 DEF Tick, plane, gateway, TypeOK
  <2>3. \A s \in Sessions : \A e \in cache[s] : e \in Entry /\ e.at \in Nat
    BY CredentialBounds DEF TypeOK, Entry, Time
  <2>4. \A r \in InFlight : req[r].call.at \in Nat
    BY InFlightFacts, CredentialBounds DEF Call, Time
  <2>5. Ages'
    BY <1>8, <2>1, <2>3, <2>4, CredentialTimes
       DEF Tick, plane, gateway, Ages, InFlight, GoodAt
  <2> QED
    BY <2>2, <2>5
<1> QED
  BY <1>1, <1>2, <1>3, <1>4, <1>5, <1>6, <1>7, <1>8, CallStepInv DEF Next

\* The vault, the channel, the cache and the calls keep their types, and the cache's
\* ages keep their meaning, whatever the interleaving.
THEOREM CredentialInvariance == Spec => []CredentialInv
  BY InitCredentialInv, NextCredentialInv, PTL DEF Spec

\* Types of everything the credential cache keeps and exchanges.
THEOREM CredentialTypes == Spec => []TypeOK
  BY CredentialInvariance, PTL DEF CredentialInv

----------------------------------------------------------------------------
(* Staleness *)

\* Only a hit of the cache or the arrival of an answer gives a call its credential.
LEMMA GivenByHitOrAnswer ==
  ASSUME TypeOK, [Next]_vars, NEW r \in Requests, NEW c, GivenNow(r, c)
  PROVE  /\ UNCHANGED now
         /\ \/ ReceiveToken(r)
            \/ \E u \in Users, s \in Sessions \cup {NoSession} : CacheHit(r, u, s)
<1>1. req'[r] # req[r]
  BY DEF GivenNow
<1>2. PICK p \in Requests : CallStep(p)
  <2>1. UNCHANGED req \/ GatewayRestarts \/ \E p \in Requests : CallStep(p)
    BY DEF Next, vars, NewToken, TokenGone, Disconnect, PlaneRestarts, Deliver,
           LoseSubscription, Subscribe, Tick, gateway
  <2>2. ~GatewayRestarts
    BY DEF GivenNow, GatewayRestarts, Idle
  <2> QED
    BY <1>1, <2>1, <2>2
<1>3. p = r
  <2>1. \E q : req' = [req EXCEPT ![p] = q]
    BY <1>2 DEF CallStep, CacheHit, BeginFetch, Answer, ReceiveToken, ReceiveNothing,
                FetchFails, Leave
  <2> QED
    BY <1>1, <2>1 DEF TypeOK
<1>4. \/ ReceiveToken(r)
      \/ \E u \in Users, s \in Sessions \cup {NoSession} : CacheHit(r, u, s)
  BY <1>2, <1>3 DEF CallStep, BeginFetch, Answer, ReceiveNothing, FetchFails, Leave,
                    GivenNow, TypeOK, Idle
<1>5. UNCHANGED now
  BY <1>4 DEF ReceiveToken, CacheHit
<1> QED
  BY <1>4, <1>5

\* A credential handed out now is served, or ceased to be within the age it may have.
LEMMA GivenIsFresh ==
  ASSUME CredentialInv, [Next]_vars, NEW r \in Requests, NEW c \in Credential, GivenNow(r, c)
  PROVE  \/ c \in Served(c.of)
         \/ now < retired[c.nr] + CacheTTL
         \/ now <= retired[c.nr] + FetchTime
<1> USE CredentialBounds, CredentialTimes DEF CredentialInv
<1>1. /\ c.of \in Users /\ c.nr \in Version /\ c = [of |-> c.of, nr |-> c.nr]
      /\ now \in Nat /\ retired[c.nr] \in Nat
  BY DEF Credential, TypeOK, Time
<1>2. served[c.of] = c.nr => c \in Served(c.of)
  BY <1>1 DEF Served, Version, None
<1>3. CASE ReceiveToken(r)
  <2>1. r \in InFlight /\ req[r].phase = "answered" /\ c \in req[r].answer
    BY <1>3 DEF ReceiveToken, InFlight, GivenNow, Given, TypeOK
  <2>2. PICK t \in Nat : t = req[r].call.at
    BY <2>1, InFlightFacts DEF Call, Time
  <2>3. now <= t + FetchTime /\ GoodAt(c, t)
    BY <2>1, <2>2 DEF Ages
  <2> QED
    BY <1>1, <1>2, <2>3 DEF GoodAt
<1>4. ASSUME NEW u \in Users, NEW s \in Sessions \cup {NoSession}, CacheHit(r, u, s)
      PROVE  c \in Served(c.of) \/ now < retired[c.nr] + CacheTTL
  <2>1. PICK e \in Hits(s) : req' = [req EXCEPT ![r] = Given(u, e.token)]
    BY <1>4 DEF CacheHit
  <2>2. c = e.token
    BY <2>1 DEF GivenNow, Given, TypeOK
  <2>3. e.at \in Nat /\ now < e.at + CacheTTL /\ GoodAt(c, e.at)
    BY <2>1, <2>2 DEF Hits, Ages, TypeOK, Entry, Time
  <2> QED
    BY <1>1, <1>2, <2>3 DEF GoodAt
<1> QED
  BY <1>3, <1>4, GivenByHitOrAnswer

\* However events are lost or delayed, and whatever overlaps a disconnect, the cache
\* never hands out a credential beyond its bounded age.
THEOREM StalenessBounded == Spec => StaleOnlyBriefly
<1>1. CredentialInv /\ [Next]_vars =>
        [\A r \in Requests, c \in Credential :
           GivenNow(r, c) =>
             \/ c \in Served(c.of)
             \/ now < retired[c.nr] + CacheTTL
             \/ now <= retired[c.nr] + FetchTime]_vars
  BY GivenIsFresh
<1> QED
  BY <1>1, CredentialInvariance, PTL DEF Spec, StaleOnlyBriefly

----------------------------------------------------------------------------
(* Disconnects *)

\* When no call names a user of its own, the index names each entry's owner.
IndexNamesOwner ==
  /\ \A s \in Sessions : \A e \in cache[s] : e.for = e.token.of
  /\ \A r \in InFlight : req[r].call.for = req[r].call.user
  /\ \A r \in Requests :
       req[r].phase = "answered" => \A c \in req[r].answer : c.of = req[r].call.user

\* A call that comes to "q", with the cache as "cache'", keeps the index right.
LEMMA CallKeepsIndex ==
  ASSUME TypeOK, IndexNamesOwner, NEW r \in Requests, NEW q,
         req' = [req EXCEPT ![r] = q],
         q.phase \in {"asking", "answered"} => q.call.for = q.call.user,
         q.phase = "answered" => \A c \in q.answer : c.of = q.call.user,
         \A s \in Sessions : \A e \in cache'[s] : e.for = e.token.of
  PROVE  IndexNamesOwner'
<1>1. ASSUME NEW p \in Requests
      PROVE  /\ p \in InFlight' => req'[p].call.for = req'[p].call.user
             /\ req'[p].phase = "answered" => \A c \in req'[p].answer : c.of = req'[p].call.user
  <2>1. CASE p = r
    <3>1. req'[p] = q
      BY <2>1 DEF TypeOK
    <3> QED
      BY <3>1 DEF InFlight
  <2>2. CASE p # r
    <3>1. req'[p] = req[p]
      BY <2>2 DEF TypeOK
    <3> QED
      BY <3>1 DEF InFlight, IndexNamesOwner
  <2> QED
    BY <2>1, <2>2
<1>2. InFlight' \subseteq Requests
  BY DEF InFlight
<1> QED
  BY <1>1, <1>2 DEF IndexNamesOwner

\* No step of a call, of the vault or of the subscriber breaks it.
LEMMA NextIndexNamesOwner ==
  ASSUME PerCall = FALSE, TypeOK, IndexNamesOwner, [Next]_vars
  PROVE  IndexNamesOwner'
<1>1. CASE UNCHANGED <<cache, req>>
  BY <1>1 DEF IndexNamesOwner, InFlight
<1>2. CASE GatewayRestarts
  BY <1>2 DEF GatewayRestarts, IndexNamesOwner, InFlight, Idle
<1>3. CASE Deliver
  <2>1. \A s \in Sessions : cache'[s] \subseteq cache[s]
    BY <1>3 DEF Deliver, Drop, TypeOK
  <2> QED
    BY <1>3, <2>1 DEF Deliver, IndexNamesOwner, InFlight
<1>4. ASSUME NEW r \in Requests, CallStep(r)
      PROVE  IndexNamesOwner'
  <2>0. \A s \in Sessions : \A e \in cache[s] : e.for = e.token.of
    BY DEF IndexNamesOwner
  <2>1. ASSUME NEW u \in Users, NEW s \in Sessions \cup {NoSession}, CacheHit(r, u, s)
        PROVE  IndexNamesOwner'
    <3>1. PICK e : req' = [req EXCEPT ![r] = Given(u, e.token)]
      BY <2>1 DEF CacheHit
    <3>2. Given(u, e.token).phase = "given" /\ cache' = cache
      BY <2>1 DEF Given, CacheHit
    <3> QED
      BY <2>0, <3>1, <3>2, CallKeepsIndex
  <2>2. ASSUME NEW u \in Users, NEW s \in Sessions \cup {NoSession}, NEW v \in MadeFor(u),
               BeginFetch(r, u, v, s)
        PROVE  IndexNamesOwner'
    <3> DEFINE q == [phase |-> "asking",
                     call |-> [user |-> u, for |-> v, session |-> s, at |-> now]]
    <3>1. q.call.for = q.call.user /\ q.phase # "answered"
      BY <2>2 DEF MadeFor
    <3>2. req' = [req EXCEPT ![r] = q] /\ cache' = cache
      BY <2>2 DEF BeginFetch
    <3> QED
      BY <2>0, <3>1, <3>2, CallKeepsIndex
  <2>3. CASE Answer(r)
    <3> DEFINE q == [phase |-> "answered", call |-> req[r].call,
                     answer |-> Served(req[r].call.user)]
    <3>1. r \in InFlight /\ req[r].call.user \in Users
      BY <2>3, InFlightFacts DEF Answer, InFlight, Call
    <3>2. q.call.for = q.call.user /\ \A c \in q.answer : c.of = q.call.user
      BY <3>1, ServedFacts DEF IndexNamesOwner
    <3>3. req' = [req EXCEPT ![r] = q] /\ cache' = cache
      BY <2>3 DEF Answer, TypeOK
    <3> QED
      BY <2>0, <3>2, <3>3, CallKeepsIndex
  <2>4. CASE ReceiveToken(r)
    <3>1. PICK c \in req[r].answer :
            /\ req' = [req EXCEPT ![r] = Given(req[r].call.user, c)]
            /\ cache' = Store(req[r].call.session,
                              [token |-> c, at |-> req[r].call.at, for |-> req[r].call.for])
      BY <2>4 DEF ReceiveToken
    <3>2. r \in InFlight /\ req[r].call.for = c.of
      BY <2>4, <3>1 DEF ReceiveToken, InFlight, IndexNamesOwner
    <3>3. \A s \in Sessions : \A e \in cache'[s] : e.for = e.token.of
      BY <2>0, <3>1, <3>2 DEF Store, TypeOK
    <3>4. Given(req[r].call.user, c).phase = "given"
      BY DEF Given
    <3> QED
      BY <3>1, <3>3, <3>4, CallKeepsIndex
  <2>5. CASE ReceiveNothing(r) \/ FetchFails(r) \/ Leave(r)
    <3>1. req' = [req EXCEPT ![r] = Idle] /\ cache' = cache /\ Idle.phase = "idle"
      BY <2>5 DEF ReceiveNothing, FetchFails, Leave, Idle
    <3> QED
      BY <2>0, <3>1, CallKeepsIndex
  <2> QED
    BY <1>4, <2>1, <2>2, <2>3, <2>4, <2>5 DEF CallStep
<1> QED
  BY <1>1, <1>2, <1>3, <1>4
     DEF Next, vars, gateway, NewToken, TokenGone, Disconnect, PlaneRestarts,
         LoseSubscription, Subscribe, Tick

\* As long as agents send no _meta.user_id, handling a user's disconnect empties the
\* cache of that user's credentials.
THEOREM DisconnectReachesCache ==
  ASSUME PerCall = FALSE
  PROVE  Spec => DisconnectClears
<1>1. Init => IndexNamesOwner
  BY DEF Init, IndexNamesOwner, InFlight, Idle
<1>2. TypeOK /\ IndexNamesOwner /\ [Next]_vars => IndexNamesOwner'
  BY NextIndexNamesOwner
<1>3. TypeOK /\ IndexNamesOwner =>
        [\A u \in Users :
           (Deliver /\ Head(channel) = [kind |-> "service_disconnected", user |-> u]) =>
             \A s \in Sessions : \A e \in cache'[s] : e.token.of # u]_vars
  BY DEF Deliver, Drop, IndexNamesOwner
<1> QED
  BY <1>1, <1>2, <1>3, CredentialTypes, PTL DEF Spec, DisconnectClears

----------------------------------------------------------------------------
(* Whose credential a call is given *)

\* Only one user's calls name a session: the agent sent initialize with that user's token
\* and goes on with it.
UsedByOwner(owner) ==
  \A r \in Requests, u \in Users, s \in Sessions :
    (CacheHit(r, u, s) \/ \E v \in MadeFor(u) : BeginFetch(r, u, v, s)) => u = owner[s]

\* The cache holds the owner's credential, and so does whatever is on its way to it.
CacheOfTheOwner(owner) ==
  /\ \A s \in Sessions : \A e \in cache[s] : e.token.of = owner[s]
  /\ \A r \in InFlight : req[r].call.session \in Sessions =>
                           req[r].call.user = owner[req[r].call.session]
  /\ \A r \in Requests :
       req[r].phase = "answered" => \A c \in req[r].answer : c.of = req[r].call.user
  /\ CredentialOfTheOwner

\* A call that comes to "q", with the cache as "cache'", keeps to the owners.
LEMMA CallKeepsOwner ==
  ASSUME TypeOK, NEW owner, CacheOfTheOwner(owner), NEW r \in Requests, NEW q,
         req' = [req EXCEPT ![r] = q],
         q.phase \in {"asking", "answered"} =>
           (q.call.session \in Sessions => q.call.user = owner[q.call.session]),
         q.phase = "answered" => \A c \in q.answer : c.of = q.call.user,
         q.phase = "given" => q.token.of = q.user,
         \A s \in Sessions : \A e \in cache'[s] : e.token.of = owner[s]
  PROVE  CacheOfTheOwner(owner)'
<1>1. ASSUME NEW p \in Requests
      PROVE  /\ p \in InFlight' =>
                  (req'[p].call.session \in Sessions =>
                     req'[p].call.user = owner[req'[p].call.session])
             /\ req'[p].phase = "answered" => \A c \in req'[p].answer : c.of = req'[p].call.user
             /\ req'[p].phase = "given" => req'[p].token.of = req'[p].user
  <2>1. CASE p = r
    <3>1. req'[p] = q
      BY <2>1 DEF TypeOK
    <3> QED
      BY <3>1 DEF InFlight
  <2>2. CASE p # r
    <3>1. req'[p] = req[p]
      BY <2>2 DEF TypeOK
    <3> QED
      BY <3>1 DEF InFlight, CacheOfTheOwner, CredentialOfTheOwner
  <2> QED
    BY <2>1, <2>2
<1>2. InFlight' \subseteq Requests
  BY DEF InFlight
<1> QED
  BY <1>1, <1>2 DEF CacheOfTheOwner, CredentialOfTheOwner

\* No step breaks it, as long as every session is used with its owner's tokens.
LEMMA NextKeepsOwner ==
  ASSUME TypeOK, NEW owner, CacheOfTheOwner(owner), [UsedByOwner(owner)]_vars, [Next]_vars
  PROVE  CacheOfTheOwner(owner)'
<1>1. CASE UNCHANGED <<cache, req>>
  BY <1>1 DEF CacheOfTheOwner, CredentialOfTheOwner, InFlight
<1>2. CASE GatewayRestarts
  BY <1>2 DEF GatewayRestarts, CacheOfTheOwner, CredentialOfTheOwner, InFlight, Idle
<1>3. CASE Deliver
  <2>1. \A s \in Sessions : cache'[s] \subseteq cache[s]
    BY <1>3 DEF Deliver, Drop, TypeOK
  <2> QED
    BY <1>3, <2>1 DEF Deliver, CacheOfTheOwner, CredentialOfTheOwner, InFlight
<1>4. ASSUME NEW r \in Requests, CallStep(r), ~ UNCHANGED <<cache, req>>
      PROVE  CacheOfTheOwner(owner)'
  <2>0. \A s \in Sessions : \A e \in cache[s] : e.token.of = owner[s]
    BY DEF CacheOfTheOwner
  <2>u. UsedByOwner(owner)
    BY <1>4 DEF vars, gateway
  <2>1. ASSUME NEW u \in Users, NEW s \in Sessions \cup {NoSession}, CacheHit(r, u, s)
        PROVE  CacheOfTheOwner(owner)'
    <3>1. PICK e \in Hits(s) : req' = [req EXCEPT ![r] = Given(u, e.token)]
      BY <2>1 DEF CacheHit
    <3>2. s \in Sessions /\ e \in cache[s]
      BY NoSessionIsNone DEF Hits
    <3>3. e.token.of = u
      BY <2>0, <2>1, <2>u, <3>2 DEF UsedByOwner
    <3> DEFINE q == Given(u, e.token)
    <3>4. q.phase = "given" /\ q.token.of = q.user /\ cache' = cache
      BY <2>1, <3>3 DEF Given, CacheHit
    <3> HIDE DEF q
    <3> QED
      BY <2>0, <3>1, <3>4, CallKeepsOwner DEF q
  <2>2. ASSUME NEW u \in Users, NEW s \in Sessions \cup {NoSession}, NEW v \in MadeFor(u),
               BeginFetch(r, u, v, s)
        PROVE  CacheOfTheOwner(owner)'
    <3> DEFINE q == [phase |-> "asking",
                     call |-> [user |-> u, for |-> v, session |-> s, at |-> now]]
    <3>1. q.phase = "asking" /\ (q.call.session \in Sessions => q.call.user = owner[q.call.session])
      BY <2>2, <2>u DEF UsedByOwner
    <3>2. req' = [req EXCEPT ![r] = q] /\ cache' = cache
      BY <2>2 DEF BeginFetch
    <3> QED
      BY <2>0, <3>1, <3>2, CallKeepsOwner
  <2>3. CASE Answer(r)
    <3> DEFINE q == [phase |-> "answered", call |-> req[r].call,
                     answer |-> Served(req[r].call.user)]
    <3>1. r \in InFlight /\ req[r].call.user \in Users
      BY <2>3, InFlightFacts DEF Answer, InFlight, Call
    <3>2. /\ q.phase = "answered" /\ \A c \in q.answer : c.of = q.call.user
          /\ q.call.session \in Sessions => q.call.user = owner[q.call.session]
      BY <3>1, ServedFacts DEF CacheOfTheOwner
    <3>3. req' = [req EXCEPT ![r] = q] /\ cache' = cache
      BY <2>3 DEF Answer, TypeOK
    <3> QED
      BY <2>0, <3>2, <3>3, CallKeepsOwner
  <2>4. CASE ReceiveToken(r)
    <3>1. PICK c \in req[r].answer :
            /\ req' = [req EXCEPT ![r] = Given(req[r].call.user, c)]
            /\ cache' = Store(req[r].call.session,
                              [token |-> c, at |-> req[r].call.at, for |-> req[r].call.for])
      BY <2>4 DEF ReceiveToken
    <3>2. /\ c.of = req[r].call.user
          /\ req[r].call.session \in Sessions => c.of = owner[req[r].call.session]
      BY <2>4, <3>1 DEF ReceiveToken, InFlight, CacheOfTheOwner
    <3>3. \A s \in Sessions : \A e \in cache'[s] : e.token.of = owner[s]
      BY <2>0, <3>1, <3>2 DEF Store, TypeOK
    <3>4. /\ Given(req[r].call.user, c).phase = "given"
          /\ Given(req[r].call.user, c).token.of = Given(req[r].call.user, c).user
      BY <3>2 DEF Given
    <3> QED
      BY <3>1, <3>3, <3>4, CallKeepsOwner
  <2>5. CASE ReceiveNothing(r) \/ FetchFails(r) \/ Leave(r)
    <3>1. req' = [req EXCEPT ![r] = Idle] /\ cache' = cache /\ Idle.phase = "idle"
      BY <2>5 DEF ReceiveNothing, FetchFails, Leave, Idle
    <3> QED
      BY <2>0, <3>1, CallKeepsOwner
  <2> QED
    BY <1>4, <2>1, <2>2, <2>3, <2>4, <2>5 DEF CallStep
<1> QED
  BY <1>1, <1>2, <1>3, <1>4
     DEF Next, vars, gateway, NewToken, TokenGone, Disconnect, PlaneRestarts,
         LoseSubscription, Subscribe, Tick

\* As long as every session is used with the bearer tokens of one user, a call is given
\* that user's credential, whatever events are lost and whatever expires.  The run
\* credentials_owner shows that a second user of a session is given the first one's.
THEOREM OwnersCredentials ==
  ASSUME NEW owner \in [Sessions -> Users]
  PROVE  Spec /\ [][UsedByOwner(owner)]_vars => []CredentialOfTheOwner
<1>1. Init => CacheOfTheOwner(owner)
  BY DEF Init, CacheOfTheOwner, CredentialOfTheOwner, InFlight, Idle
<1>2. TypeOK /\ CacheOfTheOwner(owner) /\ [UsedByOwner(owner)]_vars /\ [Next]_vars
        => CacheOfTheOwner(owner)'
  BY NextKeepsOwner
<1>3. CacheOfTheOwner(owner) => CredentialOfTheOwner
  BY DEF CacheOfTheOwner
<1> QED
  BY <1>1, <1>2, <1>3, CredentialTypes, PTL DEF Spec
=============================================================================
