----------------------------- MODULE OAuthVault -----------------------------
(* The OAuth tokens of one user: connecting a service by the OAuth flow or   *)
(* by hand, disconnecting it, and the four ways a stored token is refreshed: *)
(* the gateway's request, the in-process timers, Cloud Tasks, and the        *)
(* periodic sweep.  Handlers written with async run on one event loop and    *)
(* interleave only where they await the provider; handlers written without   *)
(* run in threads and interleave at every statement of the database.         *)
EXTENDS Naturals, FiniteSets

CONSTANTS
  Services,     \* the services a user may connect, each at its own provider
  Supported,    \* SERVICE_TO_PROVIDER: those of them whose tokens can be refreshed
  Writers,      \* requests that are storing a token
  Requests,     \* requests that are refreshing a token
  Sweeper,      \* the one of them that is the periodic sweep
  Grants,       \* what providers grant: a refresh token or none, an expiry or none
  MaxRefs,      \* bounds of the instance: tokens ever stored,
  MaxStates,    \* OAuth flows ever started,
  MaxGens,      \* refresh tokens a provider issues for one grant,
  MaxFaults,    \* failed or lost answers of a provider,
  MaxRestarts   \* restarts of the control plane

ASSUME SupportedAssumption == Supported \subseteq Services
ASSUME SweeperAssumption == Sweeper \in Requests
ASSUME GrantsAssumption == Grants \subseteq [rt : {0, 1}, age : {"fresh", "never"}]
ASSUME VaultBounds == MaxRefs \in Nat /\ MaxStates \in Nat

VARIABLES
  backend,    \* which scheduler get_scheduler chose
  rotates,    \* whether a service's provider replaces refresh tokens
  pending,    \* _pending_states: the service and the life of each OAuth state
  redeemed,   \* how often the provider was asked to exchange under a state
  writer,     \* the requests storing a token
  conn,       \* connected_services
  vault,      \* vault_tokens
  issued,     \* the last token reference given out
  owner,      \* the service a reference was made for
  current,    \* the refresh token the provider accepts for a grant
  lost,       \* grants whose new refresh token was issued and never arrived
  call,       \* the requests refreshing a token
  scheduled,  \* references with a pending timer or Cloud Task
  posts,      \* timers that fired and wait for the answer of the endpoint
  torn,       \* services whose replacement was cut short by a restart
  undated,    \* references of which a refresh was answered without expires_in
  faults, restarts

flow  == <<pending, redeemed, writer>>
store == <<conn, vault, issued, owner>>
prov  == <<backend, rotates, current, lost, faults>>
sched == <<scheduled, posts>>
marks == <<torn, undated>>
vvars == <<flow, store, prov, call, sched, marks, restarts>>

Refs   == 1..MaxRefs
States == 1..MaxStates

(* A stored token: the service it is for, its refresh token (a generation of *)
(* its grant, 0 for none), and how close its access token is to expiring:    *)
(* within two hours, past it, or past it for more than the 48 hours during   *)
(* which the sweep still tries.                                              *)
Ages  == {"never", "fresh", "due", "expired", "dead"}
Row   == [rt : Nat, age : Ages]
NoRow == [rt |-> 0, age |-> "none"]

Conn   == [ref : Refs, active : BOOLEAN]
NoConn == [ref |-> 0, active |-> FALSE]

NoState  == [svc |-> "none", life |-> "none"]
NoWriter == [kind |-> "idle", svc |-> "none", st |-> 0, pc |-> "idle",
             had |-> FALSE, old |-> 0, new |-> 0]
NoCall   == [kind |-> "idle", ref |-> 0, rt |-> 0, phase |-> "idle",
             new |-> 0, todo |-> {}]

Stored(r)    == vault[r] # NoRow
Connected(s) == conn[s].active

(* An async handler runs from one await to the next without another async    *)
(* handler; after the exchange a callback makes three commits that way.      *)
LoopFree ==
  \A w \in Writers : writer[w].kind = "callback"
                       => writer[w].pc \in {"idle", "exchanging"}

(* get_tokens_needing_refresh: it asks for rows near or past their expiry,   *)
(* with a refresh token, and not for what the row's connection has become.   *)
NeedsRefreshNoExpired == {r \in Refs : vault[r].age = "due" /\ vault[r].rt # 0}
NeedsRefresh == {r \in Refs : vault[r].age \in {"due", "expired"} /\ vault[r].rt # 0}

(* schedule_refresh replaces what is scheduled for the reference.  A timer   *)
(* needs the event loop, which handlers in threads do not have; creating a   *)
(* Cloud Task may fail, which is only logged.                                *)
Schedule(r) ==
  \/ /\ scheduled' = scheduled \cup {r}
  \/ /\ backend = "cloud"
     /\ scheduled' = scheduled \ {r}

(* delete_token: the row and what is scheduled for it. *)
DeleteRow(r) ==
  IF r # 0 /\ Stored(r)
    THEN /\ vault' = [vault EXCEPT ![r] = NoRow]
         /\ scheduled' = scheduled \ {r}
    ELSE UNCHANGED <<vault, scheduled>>

VaultInit ==
  /\ backend \in {"local", "cloud"}
  /\ rotates \in [Services -> BOOLEAN]
  /\ pending = [x \in States |-> NoState]
  /\ redeemed = [x \in States |-> 0]
  /\ writer = [w \in Writers |-> NoWriter]
  /\ conn = [s \in Services |-> NoConn]
  /\ vault = [r \in Refs |-> NoRow]
  /\ issued = 0
  /\ owner = [r \in Refs |-> "none"]
  /\ current = [r \in Refs |-> 0]
  /\ lost = {}
  /\ call = [q \in Requests |-> NoCall]
  /\ scheduled = {} /\ posts = {}
  /\ torn = {} /\ undated = {}
  /\ faults = 0 /\ restarts = 0

-----------------------------------------------------------------------------
(* Connecting a service. *)

(* oauth_authorize: a state is made and kept in the process. *)
Authorize(x, s) ==
  /\ LoopFree
  /\ pending[x] = NoState
  /\ \A y \in 1..x-1 : pending[y] # NoState
  /\ pending' = [pending EXCEPT ![x] = [svc |-> s, life |-> "live"]]
  /\ UNCHANGED <<redeemed, writer, store, prov, call, sched, marks, restarts>>

StateLapses(x) ==
  /\ pending[x].life = "live"
  /\ pending' = [pending EXCEPT ![x].life = "stale"]
  /\ UNCHANGED <<redeemed, writer, store, prov, call, sched, marks, restarts>>

(* _validate_and_consume_state: looked up and removed in one step, and then  *)
(* judged; a stale state is removed all the same.                            *)
ConsumedNever(x) == pending
Consumed(x) == [pending EXCEPT ![x].life = "spent"]

(* oauth_callback up to the await of the exchange.  The provider of the path *)
(* must be the one the state was made for.                                   *)
CallbackBegins(w, x, s) ==
  /\ LoopFree
  /\ writer[w] = NoWriter
  /\ pending[x].life \in {"live", "stale"}
  /\ LET ok == pending[x].life = "live" /\ pending[x].svc = s IN
       /\ pending' = Consumed(x)
       /\ IF ok THEN /\ writer' = [writer EXCEPT ![w] =
                             [NoWriter EXCEPT !.kind = "callback", !.svc = s,
                                              !.st = x, !.pc = "exchanging"]]
                     /\ redeemed' = [redeemed EXCEPT ![x] = @ + 1]
                ELSE UNCHANGED <<writer, redeemed>>
  /\ UNCHANGED <<store, prov, call, sched, marks, restarts>>

ExchangeFails(w) ==
  /\ LoopFree
  /\ writer[w].pc = "exchanging"
  /\ writer' = [writer EXCEPT ![w] = NoWriter]
  /\ UNCHANGED <<pending, redeemed, store, prov, call, sched, marks, restarts>>

ReadsConnection(w, pc) ==
  LET s == writer[w].svc IN
  writer' = [writer EXCEPT ![w].had = conn[s] # NoConn,
                           ![w].old = conn[s].ref,
                           ![w].pc = pc]

(* The exchange answered; the callback reads the connection it will replace. *)
CallbackReads(w) ==
  /\ LoopFree
  /\ writer[w].pc = "exchanging"
  /\ ReadsConnection(w, "delete")
  /\ UNCHANGED <<pending, redeemed, store, prov, call, sched, marks, restarts>>

(* connect_service begins by storing, and then reads the connection. *)
ConnectReads(w) ==
  /\ writer[w].pc = "read"
  /\ ReadsConnection(w, "delete")
  /\ UNCHANGED <<pending, redeemed, store, prov, call, sched, marks, restarts>>

(* Both delete the row of the token they replace, each in a commit of its    *)
(* own.                                                                      *)
DeletesCurrent(w) ==
  /\ writer[w].pc = "delete"
  /\ DeleteRow(conn[writer[w].svc].ref)
  /\ writer' = [writer EXCEPT ![w].pc =
                  IF writer[w].kind = "callback" THEN "store" ELSE "link"]
  /\ UNCHANGED <<pending, redeemed, conn, issued, owner, prov, call, posts,
                 marks, restarts>>
DeletesOld(w) ==
  /\ writer[w].pc = "delete"
  /\ DeleteRow(writer[w].old)
  /\ writer' = [writer EXCEPT ![w].pc =
                  IF writer[w].kind = "callback" THEN "store" ELSE "link"]
  /\ UNCHANGED <<pending, redeemed, conn, issued, owner, prov, call, posts,
                 marks, restarts>>

(* store_token: a row under a reference never used before. *)
StoresRow(s, row) ==
  /\ issued < MaxRefs
  /\ issued' = issued + 1
  /\ vault' = [vault EXCEPT ![issued + 1] = row]
  /\ owner' = [owner EXCEPT ![issued + 1] = s]
  /\ current' = [current EXCEPT ![issued + 1] = row.rt]
  /\ UNCHANGED conn

(* A token stored by the callback has the expiry the provider gave. *)
CallbackStores(w, grant) ==
  /\ writer[w].pc = "store"
  /\ StoresRow(writer[w].svc, grant)
  /\ IF grant.age = "fresh" /\ grant.rt # 0 THEN Schedule(issued + 1) ELSE UNCHANGED scheduled
  /\ writer' = [writer EXCEPT ![w].new = issued + 1, ![w].pc = "link"]
  /\ UNCHANGED <<pending, redeemed, backend, rotates, lost, faults, call, posts, marks,
                 restarts>>

(* connect_service keeps the expiry inside the token's data only: its row    *)
(* has none, and nothing is scheduled.                                       *)
ConnectBegins(w, s, grant) ==
  /\ writer[w] = NoWriter
  /\ StoresRow(s, [grant EXCEPT !.age = "never"])
  /\ writer' = [writer EXCEPT ![w] =
                  [NoWriter EXCEPT !.kind = "connect", !.svc = s, !.pc = "read",
                                   !.new = issued + 1]]
  /\ UNCHANGED <<pending, redeemed, backend, rotates, lost, faults, call, sched, marks,
                 restarts>>

(* The connection is updated where one was read and inserted where none was; *)
(* a connection inserted meanwhile makes the insertion fail, which leaves    *)
(* the new row behind.                                                       *)
Links(w) ==
  LET s == writer[w].svc
      inserted == writer[w].had \/ conn[s] = NoConn IN
  /\ writer[w].pc = "link"
  /\ IF inserted THEN /\ conn' = [conn EXCEPT ![s] = [ref |-> writer[w].new, active |-> TRUE]]
                      /\ torn' = torn \ {s}
                 ELSE UNCHANGED <<conn, torn>>
  /\ writer' = [writer EXCEPT ![w] = NoWriter]
  /\ UNCHANGED <<pending, redeemed, vault, issued, owner, prov, call, sched, undated,
                 restarts>>

(* disconnect_service: the row of the token stays in the vault. *)
Disconnect(s) ==
  /\ Connected(s)
  /\ conn' = [conn EXCEPT ![s].active = FALSE]
  /\ UNCHANGED <<flow, vault, issued, owner, prov, call, sched, marks, restarts>>

-----------------------------------------------------------------------------
(* Refreshing. *)

Ask(q, kind, r, todo) ==
  call' = [call EXCEPT ![q] = [kind |-> kind, ref |-> r, rt |-> vault[r].rt,
                               phase |-> "asked", new |-> 0, todo |-> todo]]

Refreshable(s) ==
  Connected(s) /\ Stored(conn[s].ref) /\ vault[conn[s].ref].rt # 0

(* refresh_token with force.  Without it the handler asks is_token_expired   *)
(* without a database session, is told that the token is valid, and changes  *)
(* nothing; nor does it, with force, for a service without a provider.       *)
RefreshForced(q, s) ==
  /\ LoopFree
  /\ q # Sweeper /\ call[q] = NoCall
  /\ Refreshable(s) /\ s \in Supported
  /\ current[conn[s].ref] < MaxGens
  /\ Ask(q, "forced", conn[s].ref, {})
  /\ UNCHANGED <<flow, store, prov, sched, marks, restarts>>

(* A Cloud Task is delivered, perhaps not for the last time, to              *)
(* scheduled_refresh, which refuses a reference the connection no longer has *)
(* and a service without a provider.                                         *)
TaskFires(q, r) ==
  /\ LoopFree
  /\ backend = "cloud" /\ r \in scheduled
  /\ q # Sweeper /\ call[q] = NoCall
  /\ scheduled' \in {scheduled, scheduled \ {r}}
  /\ IF /\ Refreshable(owner[r]) /\ conn[owner[r]].ref = r
        /\ owner[r] \in Supported /\ current[r] < MaxGens
       THEN Ask(q, "due", r, {})
       ELSE UNCHANGED call
  /\ UNCHANGED <<flow, store, prov, posts, marks, restarts>>

(* refresh_sweep: the list is made once, before the first await, of tokens   *)
(* of every service; one whose service has no provider is skipped.           *)
SweepBegins ==
  /\ LoopFree
  /\ call[Sweeper] = NoCall
  /\ NeedsRefresh # {}
  /\ call' = [call EXCEPT ![Sweeper] = [NoCall EXCEPT !.kind = "sweep", !.todo = NeedsRefresh]]
  /\ UNCHANGED <<flow, store, prov, sched, marks, restarts>>

SweepTakes(r) ==
  /\ LoopFree
  /\ call[Sweeper].kind = "sweep" /\ call[Sweeper].phase = "idle"
  /\ r \in call[Sweeper].todo
  /\ LET rest == call[Sweeper].todo \ {r} IN
     IF Stored(r) /\ vault[r].rt # 0 /\ owner[r] \in Supported
       THEN Ask(Sweeper, "sweep", r, rest)
       ELSE call' = [call EXCEPT ![Sweeper].todo = rest]
  /\ UNCHANGED <<flow, store, prov, sched, marks, restarts>>

SweepEnds ==
  /\ call[Sweeper].kind = "sweep" /\ call[Sweeper].phase = "idle"
  /\ call[Sweeper].todo = {}
  /\ call' = [call EXCEPT ![Sweeper] = NoCall]
  /\ UNCHANGED <<flow, store, prov, sched, marks, restarts>>

(* A request whose refresh is over: the sweep goes on with its list, even    *)
(* after a failure.                                                          *)
AfterCall(q) ==
  IF call[q].kind = "sweep"
    THEN [NoCall EXCEPT !.kind = "sweep", !.todo = call[q].todo]
    ELSE NoCall

(* The provider accepts the refresh token it issued last, and replaces it if *)
(* it rotates.                                                               *)
Accepts(q) == call[q].phase = "asked" /\ call[q].rt = current[call[q].ref]

Rotated(r) == IF rotates[owner[r]] THEN [current EXCEPT ![r] = @ + 1] ELSE current

ProviderAnswers(q) ==
  LET r == call[q].ref IN
  /\ Accepts(q)
  /\ current' = Rotated(r)
  /\ call' = [call EXCEPT ![q].phase = "answered",
                          ![q].new = IF rotates[owner[r]] THEN current'[r] ELSE 0]
  /\ UNCHANGED <<flow, store, backend, rotates, lost, faults, sched, marks, restarts>>

(* A refresh token that was replaced meanwhile is refused. *)
ProviderRefuses(q) ==
  /\ LoopFree
  /\ call[q].phase = "asked" /\ ~Accepts(q)
  /\ call' = [call EXCEPT ![q] = AfterCall(q)]
  /\ UNCHANGED <<flow, store, prov, sched, marks, restarts>>

(* The provider does not answer, or its answer is lost after it acted. *)
ProviderFails(q) ==
  LET r == call[q].ref IN
  /\ LoopFree
  /\ Accepts(q) /\ faults < MaxFaults
  /\ faults' = faults + 1
  /\ \/ UNCHANGED <<current, lost>>
     \/ /\ current' = Rotated(r)
        /\ lost' = IF rotates[owner[r]] THEN lost \cup {r} ELSE lost
  /\ call' = [call EXCEPT ![q] = AfterCall(q)]
  /\ UNCHANGED <<flow, store, backend, rotates, sched, marks, restarts>>

(* VaultClient.refresh_token: the row is read again, and left alone if it is *)
(* gone.  A new refresh token replaces the stored one, none keeps it; an     *)
(* expires_in dates the row anew and has the next refresh scheduled, none    *)
(* leaves the row as old as it was and schedules nothing.                    *)
RefreshedRow(row, new, dated) ==
  [rt  |-> IF new # 0 THEN new ELSE row.rt,
   age |-> IF dated THEN "fresh" ELSE row.age]

WritesRefresh(r, new, dated) ==
  /\ vault' = [vault EXCEPT ![r] = RefreshedRow(@, new, dated)]
  /\ IF dated THEN Schedule(r) /\ UNCHANGED undated
              ELSE undated' = undated \cup {r} /\ UNCHANGED scheduled

StoreRefreshRegardless(q, dated) ==
  LET r == call[q].ref IN
  /\ LoopFree
  /\ call[q].phase = "answered"
  /\ ~dated => r \notin undated
  /\ WritesRefresh(r, call[q].new, dated)
  /\ call' = [call EXCEPT ![q] = AfterCall(q)]
  /\ UNCHANGED <<flow, conn, issued, owner, prov, posts, torn, restarts>>
StoreRefreshInConnection(q, dated) ==
  LET r == IF Connected(owner[call[q].ref]) THEN conn[owner[call[q].ref]].ref ELSE call[q].ref IN
  /\ LoopFree
  /\ call[q].phase = "answered"
  /\ ~dated => r \notin undated
  /\ IF Stored(r) THEN WritesRefresh(r, call[q].new, dated)
                  ELSE UNCHANGED <<vault, scheduled, undated>>
  /\ call' = [call EXCEPT ![q] = AfterCall(q)]
  /\ UNCHANGED <<flow, conn, issued, owner, prov, posts, torn, restarts>>
StoreRefresh(q, dated) ==
  LET r == call[q].ref IN
  /\ LoopFree
  /\ call[q].phase = "answered"
  /\ ~dated => r \notin undated
  /\ IF Stored(r) THEN WritesRefresh(r, call[q].new, dated)
                  ELSE UNCHANGED <<vault, scheduled, undated>>
  /\ call' = [call EXCEPT ![q] = AfterCall(q)]
  /\ UNCHANGED <<flow, conn, issued, owner, prov, posts, torn, restarts>>

-----------------------------------------------------------------------------
(* The in-process timers. *)

TimerFires(r) ==
  /\ LoopFree
  /\ backend = "local" /\ r \in scheduled
  /\ scheduled' = scheduled \ {r}
  /\ posts' = posts \cup {r}
  /\ UNCHANGED <<flow, store, prov, call, marks, restarts>>

(* The timer's request is not forced: the endpoint answers 200 without       *)
(* refreshing, or an error, and every error schedules another attempt unless *)
(* one is scheduled already.                                                 *)
TimerAnswered(r) ==
  /\ LoopFree
  /\ r \in posts
  /\ posts' = posts \ {r}
  /\ IF Refreshable(owner[r]) \/ r \in scheduled
       THEN UNCHANGED scheduled
       ELSE scheduled' = scheduled \cup {r}
  /\ UNCHANGED <<flow, store, prov, call, marks, restarts>>

-----------------------------------------------------------------------------
Older(age) == CASE age = "fresh" -> "due" [] age = "due" -> "expired"
                [] OTHER -> "dead"

AgeToken(r) ==
  /\ vault[r].age \in {"fresh", "due", "expired"}
  /\ vault[r].age = "fresh" => current[r] < MaxGens
  /\ vault' = [vault EXCEPT ![r].age = Older(@)]
  /\ UNCHANGED <<flow, conn, issued, owner, prov, call, sched, marks, restarts>>

(* The process is replaced: the states, the requests and the timers are      *)
(* gone, and lifespan schedules the tokens that need it.                     *)
RestartSchedules == (IF backend = "cloud" THEN scheduled ELSE {}) \cup NeedsRefresh

Restart ==
  /\ restarts < MaxRestarts
  /\ restarts' = restarts + 1
  /\ pending' = [x \in States |-> IF pending[x] = NoState THEN NoState
                                  ELSE [pending[x] EXCEPT !.life = "spent"]]
  /\ writer' = [w \in Writers |-> NoWriter]
  /\ lost' = lost \cup {call[q].ref : q \in {p \in Requests : call[p].phase = "answered"
                                                            /\ call[p].new # 0}}
  /\ call' = [q \in Requests |-> NoCall]
  /\ scheduled' = RestartSchedules
  /\ posts' = {}
  /\ torn' = torn \cup {s \in Services : Connected(s) /\ ~Stored(conn[s].ref)}
  /\ UNCHANGED <<redeemed, store, backend, rotates, current, faults, undated>>

VaultWriterNext ==
  \/ \E x \in States, s \in Services : Authorize(x, s)
  \/ \E x \in States : StateLapses(x)
  \/ \E w \in Writers, x \in States, s \in Services : CallbackBegins(w, x, s)
  \/ \E w \in Writers : ExchangeFails(w) \/ CallbackReads(w) \/ ConnectReads(w)
                        \/ DeletesOld(w) \/ Links(w)
  \/ \E w \in Writers, g \in Grants : CallbackStores(w, g)
  \/ \E w \in Writers, s \in Services, g \in Grants : ConnectBegins(w, s, g)
  \/ \E s \in Services : Disconnect(s)

VaultNext ==
  \/ VaultWriterNext
  \/ \E q \in Requests, s \in Services : RefreshForced(q, s)
  \/ \E q \in Requests, r \in Refs : TaskFires(q, r)
  \/ SweepBegins \/ SweepEnds
  \/ \E r \in Refs : SweepTakes(r) \/ TimerFires(r) \/ TimerAnswered(r) \/ AgeToken(r)
  \/ \E q \in Requests : ProviderAnswers(q) \/ ProviderRefuses(q) \/ ProviderFails(q)
  \/ \E q \in Requests, dated \in BOOLEAN : StoreRefresh(q, dated)
  \/ Restart

(* The sweep is called by a cron job every half hour, requests end, and a    *)
(* provider that is asked often enough answers.  Users, time, timers and     *)
(* restarts owe nothing.                                                     *)
VaultFairness ==
  /\ WF_vvars(SweepBegins) /\ WF_vvars(SweepEnds)
  /\ \A r \in Refs : WF_vvars(SweepTakes(r))
  /\ \A q \in Requests : WF_vvars(ProviderAnswers(q) \/ ProviderRefuses(q)
                                  \/ \E dated \in BOOLEAN : StoreRefresh(q, dated))
  /\ \A w \in Writers : WF_vvars(DeletesOld(w) \/ Links(w)
                                 \/ \E g \in Grants : CallbackStores(w, g))

VaultSpec == VaultInit /\ [][VaultNext]_vvars /\ VaultFairness

-----------------------------------------------------------------------------
(* Properties. *)

(* The type of the state. *)
VaultTypeOK ==
  /\ conn \in [Services -> Conn \cup {NoConn}]
  /\ vault \in [Refs -> Row \cup {NoRow}]
  /\ issued \in 0..MaxRefs
  /\ current \in [Refs -> Nat]
  /\ scheduled \subseteq 1..issued /\ posts \subseteq 1..issued
  /\ lost \subseteq 1..issued
  /\ \A q \in Requests : call[q].todo \subseteq Refs /\ call[q].ref \in 0..MaxRefs
  /\ \A w \in Writers : {writer[w].old, writer[w].new} \subseteq 0..MaxRefs

(* However refreshes of one token overlap, and however a reconnection cuts   *)
(* in, what the vault keeps is the refresh token the provider accepts, unless *)
(* the answer that carried it is on its way or was lost.  A vault that fell  *)
(* behind could never refresh again.                                         *)
RefreshTokenInSync ==
  \A r \in Refs :
    Stored(r) /\ vault[r].rt # 0 =>
      \/ vault[r].rt = current[r]
      \/ r \in lost
      \/ \E q \in Requests : call[q].ref = r /\ call[q].phase = "answered"
                             /\ call[q].new = current[r]

(* Requests that replace one connection at the same time leave it with a     *)
(* token: the token of an active connection is missing only while a request  *)
(* that read it is still to link another, or after a restart in between.     *)
ActiveConnectionHasToken ==
  \A s \in Services :
    Connected(s) /\ ~Stored(conn[s].ref) =>
      \/ s \in torn
      \/ \E w \in Writers : /\ writer[w].svc = s /\ writer[w].old = conn[s].ref
                            /\ writer[w].pc \in {"store", "link"}

(* A token that was deleted is not brought back by a refresh that had begun  *)
(* before.                                                                   *)
DeletedTokensStayDeleted ==
  [][\A r \in 1..issued : ~Stored(r) => vault'[r] = NoRow]_vvars

(* An OAuth state is single use: what a state becomes is what OneShot says.  *)
StateLife(x) ==
  CASE redeemed[x] > 1 -> "twice"
    [] redeemed[x] = 1 -> "used"
    [] pending[x].life = "live" -> "open"
    [] pending[x].life = "none" -> "unissued"
    [] OTHER -> "gone"
StateOnce == INSTANCE OneShot WITH Secrets <- States, life <- [x \in States |-> StateLife(x)]
OAuthStatesAreSingleUse == StateOnce!Spec

(* A token of a service with a provider that is about to expire or has       *)
(* expired is refreshed, whatever happened to the timers, unless the         *)
(* provider's answer was lost or came without an expiry, the token is        *)
(* deleted, or it stays expired for two days.                                *)
DueTokensAreRefreshed ==
  \A r \in Refs :
    vault[r].age \in {"due", "expired"} /\ vault[r].rt # 0 /\ owner[r] \in Supported
      ~> \/ ~Stored(r) \/ vault[r].age \in {"fresh", "dead"}
         \/ r \in lost \cup undated
=============================================================================
