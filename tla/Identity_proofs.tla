--------------------------- MODULE Identity_proofs ---------------------------
(***************************************************************************)
(* Proofs about who there is: SignOn (a user has one row, a login's state  *)
(* implements OneShot, a stored session holds the refresh token its        *)
(* provider takes), AgentLogin (a challenge logs its agent on once),       *)
(* Enrolment (who is registered can bootstrap, and the circuit breaker     *)
(* opens at its threshold) and Directory (a sync that read every page      *)
(* leaves what the provider lists).                                        *)
(***************************************************************************)
EXTENDS SignOn, AgentLogin, Enrolment, Directory, TLAPS

-----------------------------------------------------------------------------
(* Users who sign on, and their sessions. *)

Lives == {"unissued", "open", "stale", "gone", "withdrawn"}

LoginVisits ==
  [pc : {"exchange"}, state : SsoStates, session : {0}, user : {"none"}, token : {0}]
RefreshVisits ==
  [pc : {"refresh", "renew"}, state : SsoStates, session : IdpSessions, user : IdpUsers,
   token : Nat]
MintedSessions ==
  [user : IdpUsers, age : {"valid", "grace", "over"}, login : SsoStates, token : Nat,
   stored : {"none", "live", "revoked"}, left : BOOLEAN]

SignOnTypes ==
  /\ pending \in [SsoStates -> Lives]
  /\ admitted \in [SsoStates -> {0, 1}]
  /\ visit \in [Visits -> {IdleVisit} \cup LoginVisits \cup RefreshVisits]
  /\ session \in [IdpSessions -> {NoIdpSession} \cup MintedSessions]
  /\ minted \in Nat
  /\ \A s \in IdpSessions : s > minted => session[s] = NoIdpSession
  /\ userRows \in [IdpUsers -> {<<>>} \cup {<<s>> : s \in IdpSessions}]
  /\ current \in [SsoStates -> Nat]

\* A code was sent for exchange only of a state that is gone.
UsedStatesAreGone == \A x \in SsoStates : admitted[x] = 1 => pending[x] = "gone"

\* Until the exchange of a login is over it has no session, one request, and
\* the first refresh token of its provider session.
ExchangeFirst ==
  \A x \in SsoStates :
    /\ admitted[x] = 0 =>
         /\ current[x] = 1
         /\ \A s \in IdpSessions : session[s].login # x
         /\ \A v \in Visits : visit[v].state # x
    /\ \A v \in Visits : visit[v].pc = "exchange" /\ visit[v].state = x =>
         /\ current[x] = 1
         /\ \A s \in IdpSessions : session[s].login # x
         /\ \A w \in Visits : visit[w].state = x => w = v

\* A renewal is of the login of its session, and is asked for with its token.
VisitsMatchSessions ==
  \A v \in Visits : visit[v].pc \in {"refresh", "renew"} =>
    /\ session[visit[v].session].login = visit[v].state
    /\ visit[v].pc = "refresh" => visit[v].token = session[visit[v].session].token

Renews(v, x) == visit[v].pc = "renew" /\ visit[v].state = x

\* A session that is kept for renewal, and was not left behind by one.
Holds(s) == session[s].stored = "live" /\ ~session[s].left

\* Where the provider rotates, no two sessions of a login hold one token; a
\* renewal under way is alone, and its token is newer than any that is held.
TokensInOrder(x) ==
  /\ \A s \in IdpSessions : session[s].login = x => session[s].token <= current[x]
  /\ \A s, t \in IdpSessions :
       session[s].login = x /\ session[t].login = x /\ session[s].token = session[t].token
         => s = t
  /\ \A v \in Visits : Renews(v, x) =>
       /\ visit[v].token = current[x]
       /\ \A s \in IdpSessions : session[s].login = x => session[s].token < current[x]
       /\ \A w \in Visits : Renews(w, x) => w = v
  /\ \A s \in IdpSessions : session[s].login = x /\ Holds(s) =>
       session[s].token = current[x] \/ \E v \in Visits : Renews(v, x) /\ visit[v].session = s

RotationInOrder == \A x \in (SsoStates \cap Rotating) \ lostAnswers : TokensInOrder(x)

\* Where it does not rotate, there is one token.
OneToken ==
  \A x \in SsoStates \ Rotating :
    /\ current[x] = 1
    /\ \A s \in IdpSessions : session[s].login = x => session[s].token = 1
    /\ \A v \in Visits : Renews(v, x) => visit[v].token = 1

SignOnInv ==
  /\ SignOnTypes
  /\ UsedStatesAreGone
  /\ ExchangeFirst
  /\ VisitsMatchSessions
  /\ RotationInOrder
  /\ OneToken

USE DEF SsoStates, IdpSessions

LEMMA SignOnInitHolds == SignOnInit => SignOnInv
BY DEF SignOnInit, SignOnInv, SignOnTypes, Lives, UsedStatesAreGone, ExchangeFirst,
       VisitsMatchSessions, RotationInOrder, TokensInOrder, OneToken, Renews, Holds, IdleVisit,
       NoIdpSession

\* What a visit or a session that is not the empty one consists of.
LEMMA VisitFacts ==
  ASSUME SignOnTypes, NEW v \in Visits
  PROVE  /\ visit[v].pc = "idle" => visit[v] = IdleVisit
         /\ visit[v].pc = "exchange" => visit[v] \in LoginVisits
         /\ visit[v].pc \in {"refresh", "renew"} => visit[v] \in RefreshVisits
         /\ visit[v].pc \in {"idle", "exchange", "refresh", "renew"}
         /\ visit[v].state \in Nat
BY DEF SignOnTypes, LoginVisits, RefreshVisits, IdleVisit

LEMMA SessionFacts ==
  ASSUME SignOnTypes, NEW s \in IdpSessions
  PROVE  /\ session[s].login \in Nat /\ session[s].token \in Nat
         /\ session[s].login # 0 <=> session[s] \in MintedSessions
         /\ session[s].stored = "live" => session[s] \in MintedSessions
         /\ session[s].age \in {"valid", "grace"} => session[s] \in MintedSessions
         /\ session[s] \in MintedSessions => session[s].login \in SsoStates /\ s <= minted
BY DEF SignOnTypes, MintedSessions, NoIdpSession

\* Steps that change no visit, no token of a provider and, of the sessions, at
\* most the age or a mark of revocation.
LEMMA TokensUntouched ==
  ASSUME SignOnInv, SignOnTypes', UsedStatesAreGone',
         UNCHANGED <<admitted, visit, minted, current, lostAnswers>>,
         \A s \in IdpSessions :
           /\ session'[s].login = session[s].login /\ session'[s].token = session[s].token
           /\ session'[s].stored = "live" => session[s].stored = "live"
           /\ session'[s].left = session[s].left
  PROVE  SignOnInv'
<1> USE DEF SignOnInv
<1>1. ExchangeFirst'
  BY DEF ExchangeFirst
<1>2. VisitsMatchSessions'
  <2>1. \A v \in Visits : visit[v].pc \in {"refresh", "renew"} => visit[v].session \in IdpSessions
    BY VisitFacts DEF RefreshVisits
  <2> QED
    BY <2>1 DEF VisitsMatchSessions
<1>3. RotationInOrder'
  BY DEF RotationInOrder, TokensInOrder, Renews, Holds
<1>4. OneToken'
  BY DEF OneToken, Renews
<1> QED
  BY <1>1, <1>2, <1>3, <1>4

LEMMA AuthorizeStep ==
  ASSUME SignOnInv, NEW x \in SsoStates, NEW reached \in BOOLEAN, Authorize(x, reached)
  PROVE  SignOnInv'
<1>1. /\ pending[x] = "unissued"
      /\ \A y \in SsoStates : pending'[y] =
           IF y = x THEN IF reached THEN "open" ELSE "withdrawn"
           ELSE IF pending[y] = "stale" THEN "gone" ELSE pending[y]
      /\ UNCHANGED <<admitted, visit, session, minted, userRows, current, lostAnswers>>
  BY DEF Authorize
<1>2. SignOnTypes'
  BY DEF Authorize, SignOnInv, SignOnTypes, Lives
<1>3. UsedStatesAreGone'
  BY <1>1 DEF UsedStatesAreGone, SignOnInv
<1> QED
  BY <1>1, <1>2, <1>3, TokensUntouched

\* A session whose age or mark changes keeps its login and its token.
LEMMA SessionUpdate ==
  ASSUME SignOnInv, NEW s \in IdpSessions, session[s] \in MintedSessions,
         NEW r \in MintedSessions, session' = [session EXCEPT ![s] = r],
         r.login = session[s].login, r.token = session[s].token,
         r.stored = "live" => session[s].stored = "live", r.left = session[s].left,
         UNCHANGED <<pending, admitted, visit, minted, userRows, current, lostAnswers>>
  PROVE  SignOnInv'
<1>1. \A t \in IdpSessions : session'[t] = IF t = s THEN r ELSE session[t]
  BY DEF SignOnInv, SignOnTypes
<1>2. SignOnTypes'
  BY SessionFacts DEF SignOnInv, SignOnTypes
<1>3. UsedStatesAreGone'
  BY DEF UsedStatesAreGone, SignOnInv
<1> QED
  BY <1>1, <1>2, <1>3, TokensUntouched

LEMMA LogoutStep ==
  ASSUME SignOnInv, NEW s \in IdpSessions, Logout(s)
  PROVE  SignOnInv'
<1>1. session[s] \in MintedSessions
  BY SessionFacts DEF Logout, SignOnInv
<1> DEFINE r == [session[s] EXCEPT !.stored = "revoked"]
<1>2. r \in MintedSessions /\ r.login = session[s].login /\ r.token = session[s].token
      /\ r.left = session[s].left
      /\ r.stored = "revoked"
  BY <1>1 DEF MintedSessions
<1>3. session' = [session EXCEPT ![s] = r]
  BY DEF Logout, SignOnInv, SignOnTypes
<1> QED
  BY <1>1, <1>2, <1>3, SessionUpdate DEF Logout

LEMMA AgeStep ==
  ASSUME SignOnInv, NEW s \in IdpSessions, session[s].age \in {"valid", "grace"},
         NEW a \in {"valid", "grace", "over"},
         session' = [session EXCEPT ![s].age = a],
         UNCHANGED <<pending, admitted, visit, minted, userRows, current, lostAnswers>>
  PROVE  SignOnInv'
<1>1. session[s] \in MintedSessions
  BY SessionFacts DEF SignOnInv
<1> DEFINE r == [session[s] EXCEPT !.age = a]
<1>2. r \in MintedSessions /\ r.login = session[s].login /\ r.token = session[s].token
      /\ r.left = session[s].left
      /\ r.stored = session[s].stored
  BY <1>1 DEF MintedSessions
<1>3. session' = [session EXCEPT ![s] = r]
  BY DEF SignOnInv, SignOnTypes
<1> QED
  BY <1>1, <1>2, <1>3, SessionUpdate

LEMMA TimeStep ==
  ASSUME SignOnInv, SsoTimePasses,
         UNCHANGED <<admitted, visit, minted, userRows, current, ssoFaults, lostAnswers>>
  PROVE  SignOnInv'
<1>1. CASE \E x \in SsoStates :
             /\ pending[x] = "open"
             /\ pending' = [pending EXCEPT ![x] = "stale"]
             /\ UNCHANGED session
  <2>1. SignOnTypes'
    BY <1>1 DEF SignOnInv, SignOnTypes, Lives
  <2>2. UsedStatesAreGone'
    BY <1>1 DEF SignOnInv, SignOnTypes, UsedStatesAreGone
  <2> QED
    BY <1>1, <2>1, <2>2, TokensUntouched
<1>2. CASE \E s \in IdpSessions :
             /\ session[s].age \in {"valid", "grace"}
             /\ session' = [session EXCEPT ![s].age = IF @ = "valid" THEN "grace" ELSE "over"]
             /\ UNCHANGED pending
  <2>1. PICK s \in IdpSessions :
          /\ session[s].age \in {"valid", "grace"}
          /\ session' = [session EXCEPT ![s].age = IF @ = "valid" THEN "grace" ELSE "over"]
          /\ UNCHANGED pending
    BY <1>2
  <2>2. PICK a \in {"valid", "grace", "over"} : session' = [session EXCEPT ![s].age = a]
    BY <2>1
  <2> QED
    BY <2>1, <2>2, AgeStep
<1> QED
  BY <1>1, <1>2 DEF SsoTimePasses

\* A state is consumed; a fresh one of the right provider goes to the exchange.
LEMMA CallbackStep ==
  ASSUME SignOnInv, NEW v \in Visits, NEW x \in SsoStates, NEW sameIdp \in BOOLEAN,
         Callback(v, x, sameIdp)
  PROVE  SignOnInv'
<1> USE DEF SignOnInv
<1>1. /\ visit[v] = IdleVisit /\ pending[x] \in {"open", "stale"}
      /\ pending' = [pending EXCEPT ![x] = "gone"]
      /\ UNCHANGED <<session, minted, userRows, current, ssoFaults, lostAnswers>>
  BY DEF Callback, LeftOf
<1>2. admitted[x] = 0
  BY <1>1 DEF UsedStatesAreGone, SignOnTypes
<1>3. CASE UNCHANGED <<visit, admitted>>
  <2>1. SignOnTypes'
    BY <1>1, <1>3 DEF SignOnTypes, Lives
  <2>2. UsedStatesAreGone'
    BY <1>1, <1>3 DEF UsedStatesAreGone, SignOnTypes
  <2> QED
    BY <1>1, <1>3, <2>1, <2>2, TokensUntouched
<1>4. CASE /\ visit' = [visit EXCEPT ![v] = [IdleVisit EXCEPT !.pc = "exchange", !.state = x]]
           /\ admitted' = [admitted EXCEPT ![x] = @ + 1]
  <2> DEFINE r == [IdleVisit EXCEPT !.pc = "exchange", !.state = x]
  <2>1. r \in LoginVisits /\ r.pc = "exchange" /\ r.state = x
    BY DEF LoginVisits, IdleVisit
  <2>2. admitted' = [admitted EXCEPT ![x] = 1] /\ visit' = [visit EXCEPT ![v] = r]
    BY <1>2, <1>4 DEF SignOnTypes
  <2> HIDE DEF r
  <2>3. /\ \A w \in Visits : visit'[w] = IF w = v THEN r ELSE visit[w]
        /\ \A y \in SsoStates : admitted'[y] = IF y = x THEN 1 ELSE admitted[y]
    BY <2>2 DEF SignOnTypes
  <2>4. SignOnTypes'
    BY <1>1, <2>1, <2>2 DEF SignOnTypes, Lives
  <2>5. UsedStatesAreGone'
    BY <1>1, <2>3 DEF UsedStatesAreGone, SignOnTypes
  <2>6. ExchangeFirst'
    BY <1>1, <1>2, <2>1, <2>3 DEF ExchangeFirst
  <2>7. VisitsMatchSessions'
    BY <1>1, <2>1, <2>3 DEF VisitsMatchSessions
  <2>8. RotationInOrder' /\ OneToken'
    BY <1>1, <2>1, <2>3 DEF RotationInOrder, TokensInOrder, OneToken, Renews, Holds, IdleVisit
  <2> QED
    BY <2>4, <2>5, <2>6, <2>7, <2>8
<1> QED
  BY <1>3, <1>4 DEF Callback

\* The facts of a new session: it takes the place of none.
LEMMA MintFacts ==
  ASSUME SignOnTypes, minted < MaxSessions
  PROVE  /\ minted + 1 \in IdpSessions /\ minted + 1 > minted
         /\ session[minted + 1] = NoIdpSession
         /\ \A s \in IdpSessions : session[s] \in MintedSessions => s # minted + 1
<1>1. minted + 1 \in IdpSessions /\ minted + 1 > minted
  BY SignOnAssumption DEF SignOnTypes
<1> QED
  BY <1>1, SessionFacts DEF SignOnTypes

LEMMA FinishLoginStep ==
  ASSUME SignOnInv, NEW v \in Visits, NEW u \in IdpUsers,
         NEW offline \in BOOLEAN, NEW kept \in BOOLEAN, NEW answered \in BOOLEAN,
         FinishLogin(v, u, offline, kept, answered)
  PROVE  SignOnInv'
<1> USE DEF SignOnInv
<1> DEFINE x == visit[v].state
           n == minted + 1
           r == NewSession(u, x, 1, kept, answered)
<1>1. /\ visit[v].pc = "exchange" /\ minted < MaxSessions /\ minted' = n
      /\ session' = [session EXCEPT ![n] = r]
      /\ userRows' = [userRows EXCEPT ![u] = RowUpdated(u, n)]
      /\ visit' = [visit EXCEPT ![v] = IdleVisit]
      /\ UNCHANGED <<pending, admitted, current, lostAnswers>>
  BY DEF FinishLogin
<1>2. x \in SsoStates /\ n \in IdpSessions
      /\ r \in MintedSessions /\ r.login = x /\ r.token = 1
  BY <1>1, VisitFacts, MintFacts DEF LoginVisits, MintedSessions, NoIdpSession, NewSession
<1> HIDE DEF r
<1>3. /\ \A s \in IdpSessions : session'[s] = IF s = n THEN r ELSE session[s]
      /\ \A w \in Visits : visit'[w] = IF w = v THEN IdleVisit ELSE visit[w]
      /\ \A s \in IdpSessions : session[s].login \in SsoStates => s # n
  BY <1>1, <1>2, MintFacts, SessionFacts DEF SignOnTypes, NoIdpSession
<1>4. /\ admitted[x] # 0 /\ current[x] = 1
      /\ \A s \in IdpSessions : session[s].login # x
      /\ \A w \in Visits : visit[w].state = x => w = v
  BY <1>1, <1>2 DEF ExchangeFirst
<1>5. SignOnTypes'
  <2>1. RowUpdated(u, n) \in {<<>>} \cup {<<s>> : s \in IdpSessions}
    BY <1>2 DEF RowUpdated, SignOnTypes
  <2> QED
    BY <1>1, <1>2, <2>1 DEF SignOnTypes
<1>6. ExchangeFirst'
  BY <1>1, <1>2, <1>3, <1>4 DEF ExchangeFirst, IdleVisit
<1>7. VisitsMatchSessions'
  BY <1>1, <1>3, VisitFacts DEF VisitsMatchSessions, IdleVisit, RefreshVisits
<1>8. RotationInOrder'
  BY <1>1, <1>2, <1>3, <1>4, SessionFacts DEF RotationInOrder, TokensInOrder, Renews, Holds, IdleVisit
<1>9. OneToken'
  BY <1>1, <1>2, <1>3, <1>4 DEF OneToken, Renews, IdleVisit
<1> QED
  BY <1>1, <1>5, <1>6, <1>7, <1>8, <1>9 DEF UsedStatesAreGone

\* A renewal that fails may have used up the token: its login is then marked.
LEMMA FailVisitStep ==
  ASSUME SignOnInv, NEW v \in Visits, FailVisit(v)
  PROVE  SignOnInv'
<1> USE DEF SignOnInv
<1>1. /\ visit' = [visit EXCEPT ![v] = IdleVisit]
      /\ lostAnswers \subseteq lostAnswers'
      /\ visit[v].pc = "renew" => visit[v].state \in lostAnswers'
      /\ UNCHANGED <<pending, admitted, session, minted, userRows, current>>
  BY DEF FailVisit
<1>2. \A w \in Visits : visit'[w] = IF w = v THEN IdleVisit ELSE visit[w]
  BY <1>1 DEF SignOnTypes
<1>3. SignOnTypes'
  BY <1>1 DEF SignOnTypes
<1>4. ExchangeFirst'
  BY <1>1, <1>2 DEF ExchangeFirst, IdleVisit
<1>5. VisitsMatchSessions'
  BY <1>1, <1>2 DEF VisitsMatchSessions, IdleVisit
<1>6. RotationInOrder'
  BY <1>1, <1>2 DEF RotationInOrder, TokensInOrder, Renews, Holds, IdleVisit
<1>7. OneToken'
  BY <1>1, <1>2 DEF OneToken, Renews, IdleVisit
<1> QED
  BY <1>1, <1>3, <1>4, <1>5, <1>6, <1>7 DEF UsedStatesAreGone

LEMMA BeginRefreshStep ==
  ASSUME SignOnInv, NEW v \in Visits, NEW s \in IdpSessions, BeginRefresh(v, s)
  PROVE  SignOnInv'
<1> USE DEF SignOnInv
<1> DEFINE r == [pc |-> "refresh", state |-> session[s].login, session |-> s,
                 user |-> session[s].user, token |-> session[s].token]
<1>1. /\ visit[v] = IdleVisit /\ session[s] \in MintedSessions
      /\ visit' = [visit EXCEPT ![v] = r]
      /\ UNCHANGED <<pending, admitted, session, minted, userRows, current, lostAnswers>>
  BY SessionFacts DEF BeginRefresh
<1>2. r \in RefreshVisits /\ r.pc = "refresh" /\ r.state = session[s].login /\ r.session = s
      /\ r.token = session[s].token
  BY <1>1 DEF RefreshVisits, MintedSessions
<1> HIDE DEF r
<1>3. \A w \in Visits : visit'[w] = IF w = v THEN r ELSE visit[w]
  BY <1>1 DEF SignOnTypes
<1>4. SignOnTypes'
  BY <1>1, <1>2 DEF SignOnTypes
<1>5. ExchangeFirst'
  BY <1>1, <1>2, <1>3 DEF ExchangeFirst
<1>6. VisitsMatchSessions'
  BY <1>1, <1>2, <1>3 DEF VisitsMatchSessions
<1>7. RotationInOrder'
  BY <1>1, <1>2, <1>3 DEF RotationInOrder, TokensInOrder, Renews, Holds, IdleVisit
<1>8. OneToken'
  BY <1>1, <1>2, <1>3 DEF OneToken, Renews, IdleVisit
<1> QED
  BY <1>1, <1>4, <1>5, <1>6, <1>7, <1>8 DEF UsedStatesAreGone

\* The provider takes its newest token only, so no other session holds it.
LEMMA ProviderRefreshStep ==
  ASSUME SignOnInv, NEW v \in Visits, ProviderRefresh(v)
  PROVE  SignOnInv'
<1> USE DEF SignOnInv
<1> DEFINE x == visit[v].state
           i == visit[v].session
           next == IF x \in Rotating THEN current[x] + 1 ELSE current[x]
           r == [visit[v] EXCEPT !.pc = "renew", !.token = next]
<1>1. /\ visit[v].pc = "refresh" /\ visit[v].token = current[x]
      /\ current' = [current EXCEPT ![x] = next]
      /\ visit' = [visit EXCEPT ![v].pc = "renew", ![v].token = next]
  BY DEF ProviderRefresh
<1>2. UNCHANGED <<pending, admitted, session, minted, userRows, lostAnswers>>
  BY DEF ProviderRefresh
<1>3. /\ visit[v] \in RefreshVisits /\ x \in SsoStates /\ i \in IdpSessions
      /\ session[i].login = x /\ session[i].token = current[x]
      /\ current[x] \in Nat /\ next \in Nat
  BY <1>1, VisitFacts DEF RefreshVisits, VisitsMatchSessions, SignOnTypes
<1>4. /\ r \in RefreshVisits /\ r.pc = "renew" /\ r.state = x /\ r.session = i
      /\ r.token = next
  BY <1>3 DEF RefreshVisits
<1>5. visit' = [visit EXCEPT ![v] = r]
  BY <1>1 DEF SignOnTypes
<1> HIDE DEF r
<1>6. /\ \A w \in Visits : visit'[w] = IF w = v THEN r ELSE visit[w]
      /\ \A y \in SsoStates : current'[y] = IF y = x THEN next ELSE current[y]
  BY <1>1, <1>5 DEF SignOnTypes
<1>7. SignOnTypes'
  BY <1>2, <1>1, <1>3, <1>4, <1>5 DEF SignOnTypes
<1>8. ExchangeFirst'
  BY <1>2, <1>3, <1>4, <1>6, VisitFacts DEF ExchangeFirst, SignOnTypes
<1>9. VisitsMatchSessions'
  BY <1>2, <1>3, <1>4, <1>6 DEF VisitsMatchSessions
<1>10. RotationInOrder'
  <2> SUFFICES ASSUME NEW y \in (SsoStates \cap Rotating) \ lostAnswers
               PROVE  TokensInOrder(y)'
    BY <1>2 DEF RotationInOrder
  <2>1. TokensInOrder(y)
    BY DEF RotationInOrder
  <2>2. CASE y # x
    <3>1. /\ current'[y] = current[y]
          /\ \A w \in Visits : Renews(w, y)' <=> Renews(w, y)
          /\ \A w \in Visits : Renews(w, y) => visit'[w] = visit[w]
      BY <1>1, <1>3, <1>4, <1>6, <2>2 DEF Renews
    <3> QED
      BY <1>2, <2>1, <3>1 DEF TokensInOrder, Holds
  <2>3. CASE y = x
    <3>1. \A w \in Visits : ~Renews(w, y)
      BY <1>3, <2>1, <2>3 DEF TokensInOrder
    <3>2. /\ current'[y] = current[y] + 1
          /\ \A w \in Visits : Renews(w, y)' <=> w = v
          /\ visit'[v].token = current'[y] /\ visit'[v].session = i
      BY <1>3, <1>4, <1>6, <2>3, <3>1 DEF Renews
    <3>3. \A s \in IdpSessions : session[s].login = y =>
            session[s].token < current'[y] /\ session[s].token <= current'[y]
      BY <1>3, <2>1, <2>3, <3>2, SessionFacts DEF TokensInOrder
    <3>4. \A s \in IdpSessions : session[s].login = y /\ Holds(s) => s = i
      BY <1>3, <2>1, <2>3, <3>1 DEF TokensInOrder
    <3>5. \A s, t \in IdpSessions :
            session[s].login = y /\ session[t].login = y /\ session[s].token = session[t].token
              => s = t
      BY <2>1 DEF TokensInOrder
    <3> QED
      BY <1>2, <3>2, <3>3, <3>4, <3>5 DEF TokensInOrder, Holds
  <2> QED
    BY <2>2, <2>3
<1>11. OneToken'
  BY <1>2, <1>3, <1>4, <1>6 DEF OneToken, Renews
<1> QED
  BY <1>2, <1>7, <1>8, <1>9, <1>10, <1>11 DEF UsedStatesAreGone

\* The old session is revoked or left behind, and the new one gets the newest token.
LEMMA FinishRefreshStep ==
  ASSUME SignOnInv, NEW v \in Visits, NEW kept \in BOOLEAN, NEW revoked \in BOOLEAN,
         NEW answered \in BOOLEAN, FinishRefresh(v, kept, revoked, answered)
  PROVE  SignOnInv'
<1> USE DEF SignOnInv
<1> DEFINE x == visit[v].state
           i == visit[v].session
           u == visit[v].user
           n == minted + 1
           q == IF revoked THEN [session[i] EXCEPT !.stored = "revoked"]
                           ELSE [session[i] EXCEPT !.left = TRUE]
           r == NewSession(u, x, visit[v].token, kept, answered)
<1>1. /\ visit[v].pc = "renew" /\ minted < MaxSessions /\ minted' = n
      /\ session' = [session EXCEPT ![n] = r, ![i] = q]
      /\ userRows' = [userRows EXCEPT ![u] = IF @ = <<>> THEN @ ELSE [@ EXCEPT ![1] = n]]
      /\ visit' = [visit EXCEPT ![v] = IdleVisit]
  BY DEF FinishRefresh, OldSession
<1>2. UNCHANGED <<pending, admitted, current, lostAnswers>>
  BY DEF FinishRefresh
<1>3. /\ visit[v] \in RefreshVisits /\ x \in SsoStates /\ i \in IdpSessions /\ u \in IdpUsers
      /\ n \in IdpSessions /\ visit[v].token \in Nat
      /\ session[i].login = x /\ session[i] \in MintedSessions /\ i # n
  BY <1>1, VisitFacts, SessionFacts, MintFacts DEF RefreshVisits, VisitsMatchSessions
<1>4. /\ r \in MintedSessions /\ r.login = x /\ r.token = visit[v].token
      /\ q \in MintedSessions /\ q.login = x /\ q.token = session[i].token
      /\ ~(q.stored = "live" /\ ~q.left)
  <2>1. r \in MintedSessions /\ r.login = x /\ r.token = visit[v].token
    BY <1>3 DEF MintedSessions, NoIdpSession, NewSession
  <2>2. /\ q \in MintedSessions /\ q.login = x /\ q.token = session[i].token
        /\ ~(q.stored = "live" /\ ~q.left)
    BY <1>3 DEF MintedSessions
  <2> QED
    BY <2>1, <2>2
<1> HIDE DEF q, r
<1>a. session \in [IdpSessions -> {NoIdpSession} \cup MintedSessions]
      /\ session[n] = NoIdpSession
  BY <1>1, <1>3, MintFacts DEF SignOnTypes
<1>b. \A s \in IdpSessions : session'[s] = IF s = i THEN q ELSE IF s = n THEN r ELSE session[s]
  BY <1>1, <1>3, <1>a
<1>c. \A w \in Visits : visit'[w] = IF w = v THEN IdleVisit ELSE visit[w]
  BY <1>1 DEF SignOnTypes
<1>5. /\ \A s \in IdpSessions : session'[s] = IF s = i THEN q ELSE IF s = n THEN r ELSE session[s]
      /\ \A w \in Visits : visit'[w] = IF w = v THEN IdleVisit ELSE visit[w]
      /\ session[n].login = 0
  BY <1>a, <1>b, <1>c DEF NoIdpSession
<1>6. SignOnTypes'
  <2>1. session' \in [IdpSessions -> {NoIdpSession} \cup MintedSessions]
    BY <1>1, <1>3, <1>4 DEF SignOnTypes
  <2>2. \A s \in IdpSessions : s > minted' => session'[s] = NoIdpSession
    BY <1>1, <1>3, <1>5, SessionFacts DEF SignOnTypes
  <2>3. userRows' \in [IdpUsers -> {<<>>} \cup {<<s>> : s \in IdpSessions}]
    BY <1>1, <1>3 DEF SignOnTypes
  <2>4. visit' \in [Visits -> {IdleVisit} \cup LoginVisits \cup RefreshVisits]
    BY <1>1 DEF SignOnTypes
  <2> QED
    BY <1>2, <1>1, <2>1, <2>2, <2>3, <2>4 DEF SignOnTypes
<1>7. ExchangeFirst'
  <2>1. admitted[x] # 0 /\ \A w \in Visits : visit[w].pc = "exchange" => visit[w].state # x
    BY <1>1, <1>3 DEF ExchangeFirst
  <2> QED
    BY <1>2, <1>3, <1>4, <1>5, <2>1 DEF ExchangeFirst, IdleVisit
<1>8. VisitsMatchSessions'
  BY <1>3, <1>4, <1>5, VisitFacts DEF VisitsMatchSessions, IdleVisit, RefreshVisits
<1>9. RotationInOrder'
  <2> SUFFICES ASSUME NEW y \in (SsoStates \cap Rotating) \ lostAnswers
               PROVE  TokensInOrder(y)'
    BY <1>2 DEF RotationInOrder
  <2>1. TokensInOrder(y)
    BY DEF RotationInOrder
  <2>2. Renews(v, x)
    BY <1>1 DEF Renews
  <2>3. \A w \in Visits : Renews(w, y)' <=> w # v /\ Renews(w, y)
    BY <1>5 DEF Renews, IdleVisit
  <2>4. CASE y # x
    <3>1. \A s \in IdpSessions :
            /\ session'[s].login = y <=> session[s].login = y
            /\ session[s].login = y => session'[s] = session[s]
      BY <1>3, <1>4, <1>5, <2>4
    <3> QED
      BY <1>2, <1>5, <2>1, <2>2, <2>3, <2>4, <3>1 DEF TokensInOrder, Renews, Holds
  <2>5. CASE y = x
    <3>1. /\ visit[v].token = current[y] /\ current[y] \in Nat /\ current'[y] = current[y]
          /\ \A s \in IdpSessions : session[s].login = y => session[s].token < current[y]
          /\ \A w \in Visits : ~Renews(w, y)'
          /\ \A s \in IdpSessions : session[s].login = y /\ Holds(s) => s = i
      <4>1. \A s \in IdpSessions : session[s].login = y => session[s].token < current[y]
        BY <2>1, <2>2, <2>5 DEF TokensInOrder
      <4>2. \A w \in Visits : Renews(w, y) => w = v
        BY <2>1, <2>2, <2>5 DEF TokensInOrder
      <4>3. \A s \in IdpSessions : session[s].login = y => session[s].token # current[y]
        BY <4>1, SessionFacts
      <4> QED
        BY <1>2, <2>1, <2>2, <2>3, <2>5, <4>1, <4>2, <4>3 DEF TokensInOrder, SignOnTypes
    <3>2. /\ \A s \in IdpSessions : session'[s].login = y /\ s # n => session[s].login = y
          /\ \A s \in IdpSessions : s # n => session'[s].token = session[s].token
          /\ \A s \in IdpSessions :
               Holds(s)' /\ session'[s].login = y => s = n
          /\ session'[n].token = current[y]
      BY <1>3, <1>4, <1>5, <2>5, <3>1 DEF Holds
    <3>3. \A s, t \in IdpSessions :
            session'[s].login = y /\ session'[t].login = y /\ session'[s].token = session'[t].token
              => s = t
      <4>1. \A s \in IdpSessions : session'[s].login = y /\ s # n => session'[s].token # current[y]
        BY <3>1, <3>2, SessionFacts
      <4> QED
        BY <2>1, <3>2, <4>1 DEF TokensInOrder
    <3>4. ASSUME NEW s \in IdpSessions, session'[s].login = y
          PROVE  session'[s].token <= current'[y]
      <4>1. CASE s = n
        BY <3>1, <3>2, <4>1
      <4>2. CASE s # n
        BY <3>1, <3>2, <3>4, <4>2, SessionFacts
      <4> QED
        BY <4>1, <4>2
    <3>5. \A s \in IdpSessions : session'[s].login = y /\ Holds(s)'
            => session'[s].token = current'[y]
      BY <3>1, <3>2
    <3> QED
      BY <3>1, <3>3, <3>4, <3>5 DEF TokensInOrder
  <2> QED
    BY <2>4, <2>5
<1>10. OneToken'
  <2>1. x \notin Rotating => visit[v].token = 1
    BY <1>1, <1>3 DEF OneToken, Renews
  <2> QED
    BY <1>2, <1>3, <1>4, <1>5, <2>1 DEF OneToken, Renews, IdleVisit
<1> QED
  BY <1>2, <1>6, <1>7, <1>8, <1>9, <1>10 DEF UsedStatesAreGone

LEMMA SignOnStep == SignOnInv /\ [SignOnNext]_svars => SignOnInv'
<1> SUFFICES ASSUME SignOnInv, [SignOnNext]_svars PROVE SignOnInv'
  OBVIOUS
<1>1. CASE \E x \in SsoStates, reached \in BOOLEAN : Authorize(x, reached)
  BY <1>1, AuthorizeStep
<1>2. CASE \E v \in Visits, x \in SsoStates, sameIdp \in BOOLEAN : Callback(v, x, sameIdp)
  BY <1>2, CallbackStep
<1>3. CASE \E v \in Visits, u \in IdpUsers, offline, kept, answered \in BOOLEAN :
             FinishLogin(v, u, offline, kept, answered)
  BY <1>3, FinishLoginStep
<1>4. CASE \E v \in Visits : FailVisit(v) \/ ProviderRefresh(v)
  BY <1>4, FailVisitStep, ProviderRefreshStep
<1>5. CASE \E v \in Visits, s \in IdpSessions : BeginRefresh(v, s)
  BY <1>5, BeginRefreshStep
<1>6. CASE \E v \in Visits, kept, revoked, answered \in BOOLEAN :
                FinishRefresh(v, kept, revoked, answered)
  BY <1>6, FinishRefreshStep
<1>7. CASE \E s \in IdpSessions : Logout(s)
  BY <1>7, LogoutStep
<1>8. CASE \E s \in IdpSessions : AuthRefresh(s)
  BY <1>8, AgeStep DEF AuthRefresh
<1>9. CASE SsoTimePasses
           /\ UNCHANGED <<admitted, visit, minted, userRows, current, ssoFaults, lostAnswers>>
  BY <1>9, TimeStep
<1>10. CASE UNCHANGED svars
  BY <1>10 DEF svars, SignOnInv, SignOnTypes, UsedStatesAreGone, ExchangeFirst,
     VisitsMatchSessions, RotationInOrder, TokensInOrder, OneToken, Renews, Holds
<1> QED
  BY <1>1, <1>2, <1>3, <1>4, <1>5, <1>6, <1>7, <1>8, <1>9, <1>10 DEF SignOnNext

(* What holds of sign-on in every reachable state: the order of the steps of *)
(* a login, and of the tokens its renewals leave.                            *)
THEOREM SignOnInvariance == SignOnSpec => []SignOnInv
  BY SignOnInitHolds, SignOnStep, PTL DEF SignOnSpec

(* A user has one row however logins and renewals overlap: the role an       *)
(* administrator writes is the role that is read.                            *)
THEOREM OneRow == SignOnSpec => []OneRowPerUser
<1>1. SignOnInv => OneRowPerUser
  <2> SUFFICES ASSUME SignOnInv, NEW u \in IdpUsers PROVE Len(userRows[u]) <= 1
    BY DEF OneRowPerUser
  <2>1. userRows[u] = <<>> \/ \E s \in IdpSessions : userRows[u] = <<s>>
    BY DEF SignOnInv, SignOnTypes
  <2>2. CASE userRows[u] = <<>>
    BY <2>2
  <2>3. CASE \E s \in IdpSessions : userRows[u] = <<s>>
    BY <2>3
  <2> QED
    BY <2>1, <2>2, <2>3
<1> QED
  BY <1>1, SignOnInvariance, PTL

(* Wherever no answer of a provider was lost, a session that looks alive can *)
(* be renewed, or is being renewed, or a renewal could not revoke it.        *)
THEOREM TokenIsCurrent == SignOnSpec => []StoredTokenIsCurrent
<1>1. SignOnInv => StoredTokenIsCurrent
  <2> SUFFICES ASSUME SignOnInv, NEW s \in IdpSessions, Holds(s),
                      session[s].login \notin lostAnswers
               PROVE  \/ session[s].token = current[session[s].login]
                      \/ \E v \in Visits : visit[v].pc = "renew" /\ visit[v].session = s
    BY DEF StoredTokenIsCurrent, Holds
  <2>1. session[s].login \in SsoStates
    BY SessionFacts DEF SignOnInv, Holds
  <2>2. CASE session[s].login \in Rotating
    BY <2>1, <2>2 DEF SignOnInv, RotationInOrder, TokensInOrder, Renews
  <2>3. CASE session[s].login \notin Rotating
    BY <2>1, <2>3 DEF SignOnInv, OneToken
  <2> QED
    BY <2>2, <2>3
<1> QED
  BY <1>1, SignOnInvariance, PTL

-----------------------------------------------------------------------------
\* The life of a login's state, as OneShot sees it.
Life == [x \in SsoStates |-> StateLife(x)]

LEMMA LifeStep == SignOnInv /\ [SignOnNext]_svars => [SsoOnce!Next]_Life
<1> SUFFICES ASSUME SignOnInv, [SignOnNext]_svars PROVE [SsoOnce!Next]_Life
  OBVIOUS
<1> USE DEF SignOnInv
<1>1. \A x \in SsoStates :
        /\ admitted[x] \in {0, 1} /\ pending[x] \in Lives
        /\ admitted[x] = 1 => pending[x] = "gone"
  BY DEF SignOnTypes, UsedStatesAreGone
<1>2. ASSUME UNCHANGED <<pending, admitted>> PROVE UNCHANGED Life
  <2>1. \A x \in SsoStates : StateLife(x)' = StateLife(x)
    BY <1>2 DEF StateLife
  <2> QED
    BY <2>1 DEF Life
<1>3. CASE \E x \in SsoStates, reached \in BOOLEAN : Authorize(x, reached)
  <2>1. PICK x \in SsoStates, reached \in BOOLEAN : Authorize(x, reached)
    BY <1>3
  <2>2. /\ pending[x] = "unissued" /\ admitted' = admitted
        /\ pending' = [y \in SsoStates |->
             IF y = x THEN IF reached THEN "open" ELSE "withdrawn"
             ELSE IF pending[y] = "stale" THEN "gone" ELSE pending[y]]
    BY <2>1 DEF Authorize
  <2>3. \A y \in SsoStates \ {x} : StateLife(y)' = StateLife(y)
    BY <1>1, <2>2 DEF StateLife, Lives
  <2>4. StateLife(x) = "unissued" /\ StateLife(x)' = IF reached THEN "open" ELSE "unissued"
    BY <1>1, <2>2 DEF StateLife
  <2>5. CASE reached
    <3>1. SsoOnce!Issue(x, {})
      BY <2>3, <2>4, <2>5 DEF SsoOnce!Issue, Life
    <3> QED
      BY <3>1 DEF SsoOnce!Next, Life
  <2>6. CASE ~reached
    BY <2>3, <2>4, <2>6 DEF Life
  <2> QED
    BY <2>5, <2>6
<1>4. CASE \E v \in Visits, x \in SsoStates, sameIdp \in BOOLEAN : Callback(v, x, sameIdp)
  <2>1. PICK v \in Visits, x \in SsoStates, sameIdp \in BOOLEAN : Callback(v, x, sameIdp)
    BY <1>4
  <2>2. /\ pending[x] \in {"open", "stale"} /\ admitted[x] = 0
        /\ \A y \in SsoStates : pending'[y] = IF y = x THEN "gone" ELSE pending[y]
    BY <1>1, <2>1 DEF Callback, LeftOf, SignOnTypes
  <2>3. CASE pending[x] = "open" /\ sameIdp
    <3>1. admitted' = [admitted EXCEPT ![x] = @ + 1]
      BY <2>1, <2>3 DEF Callback
    <3>2. \A y \in SsoStates : admitted'[y] = IF y = x THEN 1 ELSE admitted[y]
      BY <2>2, <3>1 DEF SignOnTypes
    <3>3. \A y \in SsoStates \ {x} : pending'[y] = pending[y] /\ admitted'[y] = admitted[y]
      BY <2>2, <3>2
    <3>4. \A y \in SsoStates \ {x} : StateLife(y)' = StateLife(y)
      BY <3>3 DEF StateLife
    <3>5. StateLife(x) = "open" /\ StateLife(x)' = "used"
      BY <2>2, <2>3, <3>2 DEF StateLife
    <3>6. SsoOnce!Accept(x)
      BY <3>4, <3>5 DEF SsoOnce!Accept, Life
    <3> QED
      BY <3>5, <3>6 DEF SsoOnce!Next, Life
  <2>4. CASE ~(pending[x] = "open" /\ sameIdp)
    <3>1. admitted' = admitted
      BY <2>1, <2>4 DEF Callback
    <3>2. \A y \in SsoStates \ {x} : StateLife(y)' = StateLife(y)
      BY <2>2, <3>1 DEF StateLife
    <3>3. StateLife(x) \in {"open", "gone"} /\ StateLife(x)' = "gone"
      BY <2>2, <3>1 DEF StateLife
    <3>4. CASE StateLife(x) = "gone"
      BY <3>2, <3>3, <3>4 DEF Life
    <3>5. CASE StateLife(x) = "open"
      <4>1. SsoOnce!Lapse({x})
        BY <3>2, <3>3, <3>5 DEF SsoOnce!Lapse, Life
      <4> QED
        BY <3>5, <4>1 DEF SsoOnce!Next, Life
    <3> QED
      BY <3>3, <3>4, <3>5
  <2> QED
    BY <2>3, <2>4
<1>5. CASE SsoTimePasses
           /\ UNCHANGED <<admitted, visit, minted, userRows, current, ssoFaults, lostAnswers>>
  <2>1. CASE UNCHANGED pending
    BY <1>2, <1>5, <2>1
  <2>2. CASE \E x \in SsoStates : pending[x] = "open" /\ pending' = [pending EXCEPT ![x] = "stale"]
    <3>1. PICK x \in SsoStates : pending[x] = "open" /\ pending' = [pending EXCEPT ![x] = "stale"]
      BY <2>2
    <3>2. \A y \in SsoStates : pending'[y] = IF y = x THEN "stale" ELSE pending[y]
      BY <3>1 DEF SignOnTypes
    <3>3. \A y \in SsoStates \ {x} : StateLife(y)' = StateLife(y)
      BY <1>5, <3>2 DEF StateLife
    <3>4. StateLife(x) = "open" /\ StateLife(x)' = "gone"
      BY <1>1, <1>5, <3>1, <3>2 DEF StateLife
    <3>5. SsoOnce!Lapse({x})
      BY <3>3, <3>4 DEF SsoOnce!Lapse, Life
    <3>6. {x} \in SUBSET {y \in SsoStates : Life[y] = "open"}
      BY <3>4 DEF Life
    <3> QED
      BY <3>5, <3>6 DEF SsoOnce!Next, Life
  <2> QED
    BY <1>5, <2>1, <2>2 DEF SsoTimePasses
<1>6. CASE \/ \E v \in Visits, u \in IdpUsers, offline, kept, answered \in BOOLEAN :
                FinishLogin(v, u, offline, kept, answered)
           \/ \E v \in Visits : FailVisit(v) \/ ProviderRefresh(v)
           \/ \E v \in Visits, s \in IdpSessions : BeginRefresh(v, s)
           \/ \E v \in Visits, kept, revoked, answered \in BOOLEAN :
                FinishRefresh(v, kept, revoked, answered)
           \/ \E s \in IdpSessions : Logout(s) \/ AuthRefresh(s)
           \/ UNCHANGED svars
  BY <1>2, <1>6 DEF FinishLogin, FailVisit, ProviderRefresh, BeginRefresh, FinishRefresh,
     Logout, AuthRefresh, svars
<1> QED
  BY <1>3, <1>4, <1>5, <1>6 DEF SignOnNext

(* The state of a login keeps the promise of a single-use secret: every step *)
(* of sign-on is a step of OneShot, or none.                                 *)
THEOREM SingleUse == SignOnSpec => SsoStatesAreSingleUse
<1>1. SignOnInit => SsoOnce!Init
  BY DEF SignOnInit, SsoOnce!Init, StateLife
<1>2. SignOnInv /\ [SignOnNext]_svars => [SsoOnce!Next]_Life
  BY LifeStep
<1> QED
  BY <1>1, <1>2, SignOnInvariance, PTL DEF SignOnSpec, SsoStatesAreSingleUse, SsoOnce!Spec, Life

-----------------------------------------------------------------------------
(* The challenges of agents. *)

PendingChallenges == {NoChallenge} \cup [id : Challenges, life : {"fresh", "late"}]
NonceRows == {NoNonce} \cup [agent : Agents, life : {"fresh", "late", "spent"}]
LoginStates == {NoLogin} \cup [agent : Agents, id : Challenges, pc : {"delete", "check"}]

LoginTypes ==
  /\ challenge \in [Agents -> PendingChallenges]
  /\ nonces \in [Challenges -> NonceRows]
  /\ login \in [Logins -> LoginStates]
  /\ made \in 0..MaxChallenges
  /\ proved \in [Challenges -> Nat]
  /\ heldTwice \subseteq Challenges
  /\ \A x \in Challenges \ heldTwice : proved[x] \in {0, 1}

\* What was made is a challenge of one agent or a nonce.
ChallengesApart ==
  /\ \A x \in Challenges : x > made => proved[x] = 0 /\ nonces[x] = NoNonce
  /\ \A a \in Agents : challenge[a].id # 0 =>
       /\ challenge[a].id <= made /\ proved[challenge[a].id] = 0
       /\ nonces[challenge[a].id] = NoNonce
       /\ \A b \in Agents : challenge[b].id = challenge[a].id => b = a
  /\ \A x \in heldTwice : nonces[x] # NoNonce

\* A nonce that is fresh was not accepted yet, nor one that one request presents.
NoncesUnused ==
  /\ \A x \in Challenges : nonces[x].life = "fresh" => proved[x] = 0
  /\ \A l \in Logins : login[l].id # 0 =>
       /\ login[l].id <= made /\ nonces[login[l].id] # NoNonce
       /\ login[l].id \in heldTwice \/ proved[login[l].id] = 0
       /\ login[l].pc = "check" => nonces[login[l].id].life = "spent"

\* The requests that hold one nonce are told apart, or it is marked.
NoncesApart ==
  \A l, m \in Logins :
    login[l].id = login[m].id /\ login[l].id # 0 => l = m \/ login[l].id \in heldTwice

LoginInv == LoginTypes /\ ChallengesApart /\ NoncesUnused /\ NoncesApart

ChallengeLives == [x \in Challenges |-> ChallengeLife(x)]

USE LoginAssumption DEF Challenges

LEMMA LoginFacts ==
  ASSUME LoginTypes
  PROVE  /\ made \in Nat
         /\ \A a \in Agents : /\ challenge[a].id \in {0} \cup Challenges
                              /\ challenge[a].id = 0 <=> challenge[a] = NoChallenge
                              /\ challenge[a].life = "fresh" => challenge[a].id \in Challenges
                              /\ \A x \in Challenges : challenge[a] = [id |-> x, life |-> "fresh"]
                                   <=> challenge[a].id = x /\ challenge[a].life = "fresh"
         /\ \A l \in Logins : /\ login[l].id \in {0} \cup Challenges
                              /\ login[l].pc \in {"delete", "check"} => login[l].id \in Challenges
                              /\ login[l] = NoLogin => login[l].id = 0
         /\ \A x \in Challenges : nonces[x].life # "none" <=> nonces[x] # NoNonce
<1>1. made \in Nat
  BY DEF LoginTypes
<1>2. \A a \in Agents : /\ challenge[a].id \in {0} \cup Challenges
                        /\ challenge[a].id = 0 <=> challenge[a] = NoChallenge
                        /\ challenge[a].life = "fresh" => challenge[a].id \in Challenges
                        /\ \A x \in Challenges : challenge[a] = [id |-> x, life |-> "fresh"]
                             <=> challenge[a].id = x /\ challenge[a].life = "fresh"
  BY DEF LoginTypes, PendingChallenges, NoChallenge
<1>3. \A l \in Logins : /\ login[l].id \in {0} \cup Challenges
                        /\ login[l].pc \in {"delete", "check"} => login[l].id \in Challenges
                        /\ login[l] = NoLogin => login[l].id = 0
  BY DEF LoginTypes, LoginStates, NoLogin
<1>4. \A x \in Challenges : nonces[x].life # "none" <=> nonces[x] # NoNonce
  BY DEF LoginTypes, NonceRows, NoNonce
<1> QED
  BY <1>1, <1>2, <1>3, <1>4

\* Whether a challenge or nonce may still be answered.
Held(x) ==
  /\ x \notin heldTwice
  /\ \/ \E a \in Agents : challenge[a].id = x /\ challenge[a].life = "fresh"
     \/ nonces[x].life = "fresh"
     \/ \E l \in Logins : login[l].id = x

\* What the life of a challenge says of it.
LivesAsHeld ==
  \A x \in Challenges :
    /\ ChallengeLife(x) \in {"unissued", "open", "used", "gone"}
    /\ ChallengeLife(x) = "used" <=> proved[x] = 1 /\ x \notin heldTwice
    /\ ChallengeLife(x) = "unissued" <=> x > made
    /\ ChallengeLife(x) = "open" <=> x <= made /\ Held(x)

LEMMA LivesOfChallenges == LoginInv => LivesAsHeld
<1> SUFFICES ASSUME LoginInv, NEW x \in Challenges
             PROVE  /\ ChallengeLife(x) \in {"unissued", "open", "used", "gone"}
                    /\ ChallengeLife(x) = "used" <=> proved[x] = 1 /\ x \notin heldTwice
                    /\ ChallengeLife(x) = "unissued" <=> x > made
                    /\ ChallengeLife(x) = "open" <=> x <= made /\ Held(x)
  BY DEF LivesAsHeld
<1>1. /\ x \notin heldTwice => proved[x] \in {0, 1}
      /\ made \in Nat /\ (x > made => proved[x] = 0 /\ x \notin heldTwice)
  BY DEF LoginInv, LoginTypes, ChallengesApart
<1>2. Held(x) => proved[x] = 0 /\ x <= made
  <2>1. nonces[x].life = "fresh" => nonces[x] # NoNonce
    BY DEF NoNonce
  <2> QED
    BY <1>1, <2>1, LoginFacts DEF Held, LoginInv, ChallengesApart, NoncesUnused
<1>3. (\E a \in Agents : challenge[a] = [id |-> x, life |-> "fresh"])
        <=> \E a \in Agents : challenge[a].id = x /\ challenge[a].life = "fresh"
  BY LoginFacts DEF LoginInv
<1> QED
  BY <1>1, <1>2, <1>3 DEF ChallengeLife, Held

LEMMA LivesOfChallengesNext == LoginInv' => LivesAsHeld'
BY LivesOfChallenges, PTL

\* Nothing is made or accepted, but a nonce that is marked, and what is held
\* may be let go or marked.
LEMMA ChallengesLapse ==
  ASSUME LoginInv, LoginInv', made' = made, heldTwice \subseteq heldTwice',
         \A x \in Challenges \ heldTwice' : proved'[x] = proved[x],
         \A x \in Challenges \cap (heldTwice' \ heldTwice) : Held(x),
         \A x \in Challenges : Held(x)' => Held(x)
  PROVE  [LoginOnce!Next]_ChallengeLives
<1> DEFINE S == {x \in Challenges : Held(x) /\ ~Held(x)' /\ x <= made}
<1>1. LivesAsHeld /\ LivesAsHeld'
  BY LivesOfChallenges, LivesOfChallengesNext
<1>2. \A x \in Challenges : ChallengeLife(x)' = IF x \in S THEN "gone" ELSE ChallengeLife(x)
  <2> SUFFICES ASSUME NEW x \in Challenges
               PROVE  ChallengeLife(x)' = IF x \in S THEN "gone" ELSE ChallengeLife(x)
    OBVIOUS
  <2>1. CASE x \in heldTwice
    BY <1>1, <2>1 DEF ChallengeLife, Held
  <2>2. CASE x \in heldTwice' \ heldTwice
    <3>1. Held(x) /\ ~Held(x)' /\ ChallengeLife(x)' = "gone"
      BY <2>2 DEF Held, ChallengeLife
    <3>2. x <= made
      BY <1>1, <3>1, LoginFacts DEF LivesAsHeld, LoginInv
    <3> QED
      BY <3>1, <3>2
  <2>3. CASE x \notin heldTwice'
    BY <1>1, <2>3 DEF LivesAsHeld
  <2> QED
    BY <2>1, <2>2, <2>3
<1>3. S \in SUBSET {x \in Challenges : ChallengeLives[x] = "open"}
  BY <1>1 DEF LivesAsHeld, ChallengeLives
<1>4. LoginOnce!Lapse(S)
  BY <1>2 DEF LoginOnce!Lapse, ChallengeLives
<1> QED
  BY <1>3, <1>4 DEF LoginOnce!Next, ChallengeLives

\* A challenge or nonce is made, and S, held before, is let go.
LEMMA ChallengeIssued ==
  ASSUME LoginInv, LoginInv', NEW n \in Challenges, n = made + 1, made' = n,
         UNCHANGED <<proved, heldTwice>>,
         NEW S \in SUBSET {x \in Challenges : x <= made /\ Held(x)}, Held(n)',
         \A x \in 1..made : Held(x)' <=> Held(x) /\ x \notin S
  PROVE  [LoginOnce!Next]_ChallengeLives
<1>1. LivesAsHeld /\ LivesAsHeld' /\ made \in Nat
  BY LivesOfChallenges, LivesOfChallengesNext DEF LoginInv, LoginTypes
<1>2. ChallengeLife(n) = "unissued"
  BY <1>1 DEF LivesAsHeld
<1>3. \A x \in Challenges : ChallengeLife(x)' = IF x = n THEN "open"
                                                ELSE IF x \in S THEN "gone" ELSE ChallengeLife(x)
  BY <1>1 DEF LivesAsHeld
<1>4. S \in SUBSET {x \in Challenges : ChallengeLives[x] = "open"}
  BY <1>1 DEF LivesAsHeld, ChallengeLives
<1>5. LoginOnce!Issue(n, S)
  BY <1>2, <1>3 DEF LoginOnce!Issue, ChallengeLives
<1> QED
  BY <1>4, <1>5 DEF LoginOnce!Next, ChallengeLives

\* One that was held is accepted.
LEMMA ChallengeAccepted ==
  ASSUME LoginInv, LoginInv', UNCHANGED <<made, heldTwice>>, NEW x \in Challenges, x <= made,
         Held(x), Accepted(x),
         \A y \in Challenges \ {x} : Held(y)' <=> Held(y)
  PROVE  [LoginOnce!Next]_ChallengeLives
<1>1. LivesAsHeld /\ LivesAsHeld' /\ made \in Nat
  BY LivesOfChallenges, LivesOfChallengesNext DEF LoginInv, LoginTypes
<1>2. /\ ChallengeLife(x) = "open" /\ proved[x] = 0
      /\ \A y \in Challenges : proved'[y] = IF y = x THEN 1 ELSE proved[y]
  <2>1. ChallengeLife(x) = "open"
    BY <1>1 DEF LivesAsHeld
  <2>2. proved[x] = 0 /\ x \notin heldTwice
    BY <1>1, <2>1 DEF LivesAsHeld, LoginInv, LoginTypes, Held
  <2> QED
    BY <2>1, <2>2 DEF Accepted, LoginInv, LoginTypes
<1>3. \A y \in Challenges : ChallengeLife(y)' = IF y = x THEN "used" ELSE ChallengeLife(y)
  BY <1>1, <1>2 DEF LivesAsHeld, Held
<1>4. {x} \in SUBSET {y \in Challenges : ChallengeLives[y] = "open"}
  BY <1>2 DEF ChallengeLives
<1>5. LoginOnce!Accept(x)
  BY <1>2, <1>3 DEF LoginOnce!Accept, ChallengeLives
<1> QED
  BY <1>4, <1>5 DEF LoginOnce!Next, ChallengeLives

-----------------------------------------------------------------------------
(* What the steps of login are, variable by variable. *)

LEMMA CreateChallengeShape ==
  ASSUME LoginTypes, NEW a \in Agents, CreateChallenge(a)
  PROVE  /\ made' = made + 1 /\ made + 1 \in Challenges
         /\ UNCHANGED <<nonces, login, proved, heldTwice>>
         /\ challenge' \in [Agents -> PendingChallenges]
         /\ challenge'[a].id = made + 1 /\ challenge'[a].life = "fresh"
         /\ \A b \in Agents \ {a} : challenge'[b] = challenge[b]
<1> DEFINE c == [id |-> made + 1, life |-> "fresh"]
<1>1. made + 1 \in Challenges /\ challenge' = [challenge EXCEPT ![a] = c]
  BY DEF CreateChallenge, LoginTypes
<1>2. c \in PendingChallenges /\ c.id = made + 1 /\ c.life = "fresh"
  BY <1>1 DEF PendingChallenges
<1> HIDE DEF c
<1> QED
  BY <1>1, <1>2 DEF LoginTypes, CreateChallenge

LEMMA RequestNonceShape ==
  ASSUME LoginTypes, NEW a \in Agents, RequestNonce(a)
  PROVE  /\ made' = made + 1 /\ made + 1 \in Challenges
         /\ UNCHANGED <<challenge, login, proved, heldTwice>>
         /\ nonces' \in [Challenges -> NonceRows]
         /\ nonces'[made + 1].life = "fresh" /\ nonces'[made + 1] # NoNonce
         /\ \A x \in Challenges \ {made + 1} : nonces'[x] = nonces[x]
<1> DEFINE c == [agent |-> a, life |-> "fresh"]
<1>1. made + 1 \in Challenges /\ nonces' = [nonces EXCEPT ![made + 1] = c]
  BY DEF RequestNonce, LoginTypes
<1>2. c \in NonceRows /\ c.life = "fresh" /\ c # NoNonce
  BY <1>1 DEF NonceRows, NoNonce
<1> HIDE DEF c
<1> QED
  BY <1>1, <1>2 DEF LoginTypes, RequestNonce

\* A nonce becomes late or spent.
LEMMA NonceMoves ==
  ASSUME LoginTypes, NEW x \in Challenges, nonces[x] # NoNonce, NEW life \in {"late", "spent"},
         nonces' = [nonces EXCEPT ![x].life = life]
  PROVE  /\ nonces' \in [Challenges -> NonceRows]
         /\ nonces'[x].life = life /\ nonces'[x] # NoNonce
         /\ \A y \in Challenges \ {x} : nonces'[y] = nonces[y]
<1> DEFINE c == [nonces[x] EXCEPT !.life = life]
<1>1. nonces' = [nonces EXCEPT ![x] = c]
  OBVIOUS
<1>2. c \in NonceRows /\ c.life = life /\ c # NoNonce
  BY DEF NonceRows, NoNonce, LoginTypes
<1> HIDE DEF c
<1> QED
  BY <1>1, <1>2 DEF LoginTypes

LEMMA DeleteNonceShape ==
  ASSUME LoginInv, NEW l \in Logins, DeleteNonce(l)
  PROVE  /\ UNCHANGED <<challenge, made, proved, heldTwice>>
         /\ login[l].id \in Challenges /\ login[l].id # 0
         /\ nonces' \in [Challenges -> NonceRows]
         /\ nonces'[login[l].id].life = "spent" /\ nonces'[login[l].id] # NoNonce
         /\ \A y \in Challenges \ {login[l].id} : nonces'[y] = nonces[y]
         /\ login' \in [Logins -> LoginStates]
         /\ login'[l].id = login[l].id /\ login'[l].pc = "check"
         /\ \A m \in Logins \ {l} : login'[m] = login[m]
<1> DEFINE e == [login[l] EXCEPT !.pc = "check"]
<1>1. login[l].pc = "delete" /\ login[l] # NoLogin
  BY DEF DeleteNonce, NoLogin
<1>2. login[l].id \in Challenges /\ login[l].id # 0 /\ nonces[login[l].id] # NoNonce
  BY <1>1, LoginFacts DEF LoginInv, NoncesUnused
<1>3. /\ nonces' \in [Challenges -> NonceRows]
      /\ nonces'[login[l].id].life = "spent" /\ nonces'[login[l].id] # NoNonce
      /\ \A y \in Challenges \ {login[l].id} : nonces'[y] = nonces[y]
  BY <1>2, NonceMoves DEF DeleteNonce, LoginInv
<1>4. login' = [login EXCEPT ![l] = e]
  BY DEF DeleteNonce
<1>5. e \in LoginStates /\ e.id = login[l].id /\ e.pc = "check"
  BY <1>1 DEF LoginInv, LoginTypes, LoginStates
<1> HIDE DEF e
<1> QED
  BY <1>2, <1>3, <1>4, <1>5 DEF DeleteNonce, LoginInv, LoginTypes

-----------------------------------------------------------------------------
\* A step that accepts at most a nonce that is marked, and marks at most one
\* that is fresh.
MarksKept ==
  /\ NoncesApart'
  /\ proved' \in [Challenges -> Nat]
  /\ \A x \in Challenges :
       \/ proved'[x] = proved[x]
       \/ x \in heldTwice /\ nonces[x].life = "spent"
  /\ heldTwice' \subseteq Challenges /\ heldTwice \subseteq heldTwice'
  /\ \A x \in heldTwice' \ heldTwice : nonces[x].life = "fresh"

LEMMA MarksUnchanged ==
  ASSUME LoginInv, UNCHANGED <<proved, heldTwice>>,
         \A l \in Logins : login'[l].id # 0 => login'[l].id = login[l].id
  PROVE  MarksKept
<1>1. NoncesApart'
  BY DEF LoginInv, NoncesApart
<1>2. proved' \in [Challenges -> Nat] /\ heldTwice' \subseteq Challenges
  BY DEF LoginInv, LoginTypes
<1>3. \A x \in Challenges : proved'[x] = proved[x]
  OBVIOUS
<1>4. heldTwice \subseteq heldTwice' /\ heldTwice' \ heldTwice = {}
  OBVIOUS
<1> QED
  BY <1>1, <1>2, <1>3, <1>4 DEF MarksKept

\* Such a step that makes nothing, and at most lets go.
LEMMA LoginKept ==
  ASSUME LoginInv, made' = made, MarksKept,
         challenge' \in [Agents -> PendingChallenges], nonces' \in [Challenges -> NonceRows],
         login' \in [Logins -> LoginStates],
         \A a \in Agents : \/ challenge'[a].id = 0 /\ challenge'[a].life # "fresh"
                           \/ /\ challenge'[a].id = challenge[a].id
                              /\ challenge'[a].life = "fresh" => challenge[a].life = "fresh",
         \A x \in Challenges : /\ nonces'[x].life = "fresh" => nonces[x].life = "fresh"
                               /\ nonces'[x] = NoNonce <=> nonces[x] = NoNonce
                               /\ nonces[x].life = "spent" => nonces'[x].life = "spent",
         \A l \in Logins : login'[l].id # 0 =>
           \/ login'[l].id = login[l].id /\ (login'[l].pc = "check" => login[l].pc = "check")
           \/ login'[l].id = login[l].id /\ nonces'[login[l].id].life = "spent"
           \/ login'[l].pc = "delete" /\ nonces[login'[l].id].life = "fresh"
  PROVE  LoginInv' /\ [LoginOnce!Next]_ChallengeLives
<1> USE DEF LoginInv, MarksKept
<1>1. LoginTypes'
  <2>1. \A x \in Challenges \ heldTwice' : proved'[x] = proved[x] /\ x \notin heldTwice
    OBVIOUS
  <2> QED
    BY <2>1 DEF LoginTypes
<1>2. ChallengesApart'
  <2>1. /\ \A a \in Agents : challenge[a].id \in {0} \cup Challenges
        /\ \A x \in Challenges : nonces[x] = NoNonce => nonces[x].life = "none"
        /\ \A x \in Challenges : nonces[x].life = "fresh" => nonces[x] # NoNonce
    BY LoginFacts DEF NoNonce
  <2>2. \A x \in Challenges : nonces[x] = NoNonce => proved'[x] = proved[x]
    BY <2>1
  <2>3. \A x \in Challenges : x > made' => proved'[x] = 0 /\ nonces'[x] = NoNonce
    BY <2>2 DEF ChallengesApart
  <2>4. \A x \in heldTwice' : nonces'[x] # NoNonce
    BY <2>1 DEF ChallengesApart, LoginTypes
  <2>5. ASSUME NEW a \in Agents, challenge'[a].id # 0
        PROVE  /\ challenge'[a].id <= made' /\ proved'[challenge'[a].id] = 0
               /\ nonces'[challenge'[a].id] = NoNonce
               /\ \A b \in Agents : challenge'[b].id = challenge'[a].id => b = a
    BY <2>1, <2>2, <2>5 DEF ChallengesApart
  <2> QED
    BY <2>3, <2>4, <2>5 DEF ChallengesApart
<1>3. NoncesUnused'
  <2>1. \A x \in Challenges : nonces'[x].life = "fresh" => proved'[x] = 0
    BY DEF NoncesUnused
  <2>2. ASSUME NEW l \in Logins, login'[l].id # 0
        PROVE  /\ login'[l].id <= made /\ nonces'[login'[l].id] # NoNonce
               /\ login'[l].id \in heldTwice' \/ proved'[login'[l].id] = 0
               /\ login'[l].pc = "check" => nonces'[login'[l].id].life = "spent"
    <3>1. login'[l].id \in Challenges
      BY <2>2 DEF LoginStates, NoLogin
    <3>2. CASE login'[l].id = login[l].id
      BY <2>2, <3>1, <3>2 DEF NoncesUnused
    <3>3. CASE login'[l].pc = "delete" /\ nonces[login'[l].id].life = "fresh"
      <4>1. nonces[login'[l].id] # NoNonce /\ made \in Nat
        BY <3>3, LoginFacts DEF NoNonce
      <4>2. /\ login'[l].id <= made /\ nonces'[login'[l].id] # NoNonce
            /\ login'[l].pc # "check"
        BY <3>1, <3>3, <4>1 DEF ChallengesApart, LoginTypes
      <4>3. proved[login'[l].id] = 0 /\ nonces[login'[l].id].life # "spent"
        BY <3>1, <3>3 DEF NoncesUnused
      <4> QED
        BY <3>1, <4>2, <4>3
    <3> QED
      BY <2>2, <3>2, <3>3
  <2> QED
    BY <2>1, <2>2 DEF NoncesUnused
<1>4. \A x \in Challenges : Held(x)' => Held(x)
  <2>1. \A a \in Agents, x \in Challenges :
          challenge'[a].id = x /\ challenge'[a].life = "fresh"
            => challenge[a].id = x /\ challenge[a].life = "fresh"
    OBVIOUS
  <2>2. \A l \in Logins, x \in Challenges :
          login'[l].id = x => login[l].id = x \/ nonces[x].life = "fresh"
    OBVIOUS
  <2> SUFFICES ASSUME NEW x \in Challenges, Held(x)' PROVE Held(x)
    OBVIOUS
  <2>3. x \notin heldTwice
    BY DEF Held
  <2>4. CASE \E a \in Agents : challenge'[a].id = x /\ challenge'[a].life = "fresh"
    BY <2>1, <2>3, <2>4 DEF Held
  <2>5. CASE nonces'[x].life = "fresh"
    BY <2>3, <2>5 DEF Held
  <2>6. CASE \E l \in Logins : login'[l].id = x
    BY <2>2, <2>3, <2>6 DEF Held
  <2> QED
    BY <2>4, <2>5, <2>6 DEF Held
<1>5. \A x \in Challenges \cap (heldTwice' \ heldTwice) : Held(x)
  BY DEF Held
<1>6. LoginInv'
  BY <1>1, <1>2, <1>3
<1> QED
  BY <1>4, <1>5, <1>6, ChallengesLapse

LEMMA LoginStep ==
  ASSUME LoginInv, [LoginNext]_lvars
  PROVE  LoginInv' /\ [LoginOnce!Next]_ChallengeLives
<1> USE DEF LoginInv
<1>0. made \in Nat
  BY LoginFacts
<1>1. ASSUME NEW a \in Agents, CreateChallenge(a)
      PROVE  LoginInv' /\ [LoginOnce!Next]_ChallengeLives
  <2> PICK n \in Challenges : n = made + 1
    BY <1>1, CreateChallengeShape
  <2> DEFINE old == challenge[a].id
             S == IF challenge[a].life = "fresh" THEN {old} ELSE {}
  <2>1. /\ made' = n /\ n \in Challenges /\ n = made + 1
        /\ UNCHANGED <<nonces, login, proved, heldTwice>>
        /\ challenge' \in [Agents -> PendingChallenges]
        /\ challenge'[a].id = n /\ challenge'[a].life = "fresh"
        /\ \A b \in Agents \ {a} : challenge'[b] = challenge[b]
    BY <1>1, CreateChallengeShape
  <2>2. LoginTypes'
    BY <1>0, <2>1 DEF LoginTypes
  <2>3. proved[n] = 0 /\ nonces[n] = NoNonce /\ n \notin heldTwice
    BY <1>0, <2>1 DEF ChallengesApart
  <2>4. ChallengesApart'
    <3>1. \A b \in Agents \ {a} : challenge'[b].id # n
      BY <1>0, <2>1, LoginFacts DEF ChallengesApart
    <3>2. \A x \in Challenges : x > made' => proved'[x] = 0 /\ nonces'[x] = NoNonce
      BY <1>0, <2>1 DEF ChallengesApart
    <3>3. ASSUME NEW b \in Agents, challenge'[b].id # 0
          PROVE  /\ challenge'[b].id <= made' /\ proved[challenge'[b].id] = 0
                 /\ nonces[challenge'[b].id] = NoNonce
                 /\ \A c \in Agents : challenge'[c].id = challenge'[b].id => c = b
      <4>1. CASE b = a
        BY <1>0, <2>1, <2>3, <3>1, <4>1
      <4>2. CASE b # a
        BY <1>0, <2>1, <3>1, <3>3, <4>2, LoginFacts DEF ChallengesApart
      <4> QED
        BY <4>1, <4>2
    <3>4. \A x \in heldTwice' : nonces'[x] # NoNonce
      BY <2>1 DEF ChallengesApart
    <3> QED
      BY <2>1, <3>2, <3>3, <3>4 DEF ChallengesApart
  <2>5. NoncesUnused' /\ NoncesApart'
    BY <1>0, <2>1, LoginFacts DEF NoncesUnused, NoncesApart
  <2>6. Held(n)'
    BY <2>1, <2>3 DEF Held
  <2>7. S \in SUBSET {x \in Challenges : x <= made /\ Held(x)}
    <3>1. challenge[a].life = "fresh" => old \in Challenges /\ old <= made /\ old \notin heldTwice
      BY LoginFacts DEF ChallengesApart
    <3> QED
      BY <3>1 DEF Held
  <2>8. ASSUME NEW x \in 1..made PROVE Held(x)' <=> Held(x) /\ x \notin S
    <3>1. x \in Challenges /\ x # n
      BY <1>0, <2>1
    <3>2. CASE x \in S
      <4>1. x = old /\ challenge[a].life = "fresh" /\ old # 0
        BY <3>2
      <4>2. nonces[x] = NoNonce /\ \A b \in Agents \ {a} : challenge[b].id # x
        BY <4>1 DEF ChallengesApart
      <4>3. \A l \in Logins : login[l].id # x
        BY <4>1, <4>2 DEF NoncesUnused
      <4>4. nonces[x].life # "fresh"
        BY <4>2 DEF NoNonce
      <4> QED
        BY <2>1, <3>1, <3>2, <4>2, <4>3, <4>4 DEF Held
    <3>3. CASE x \notin S
      BY <2>1, <3>1, <3>3 DEF Held
    <3> QED
      BY <3>2, <3>3
  <2> QED
    BY <2>1, <2>2, <2>4, <2>5, <2>6, <2>7, <2>8, ChallengeIssued
<1>2. ASSUME NEW a \in Agents, RequestNonce(a)
      PROVE  LoginInv' /\ [LoginOnce!Next]_ChallengeLives
  <2> PICK n \in Challenges : n = made + 1
    BY <1>2, RequestNonceShape
  <2>1. /\ made' = n /\ n \in Challenges /\ n = made + 1
        /\ UNCHANGED <<challenge, login, proved, heldTwice>>
        /\ nonces' \in [Challenges -> NonceRows]
        /\ nonces'[n].life = "fresh" /\ nonces'[n] # NoNonce
        /\ \A x \in Challenges \ {n} : nonces'[x] = nonces[x]
    BY <1>2, RequestNonceShape
  <2>2. LoginTypes'
    BY <1>0, <2>1 DEF LoginTypes
  <2>3. proved[n] = 0 /\ n \notin heldTwice
    BY <1>0, <2>1 DEF ChallengesApart
  <2>4. ChallengesApart'
    <3>1. \A x \in Challenges : x > made' => proved'[x] = 0 /\ nonces'[x] = NoNonce
      BY <1>0, <2>1 DEF ChallengesApart
    <3>2. \A x \in heldTwice' : nonces'[x] # NoNonce
      BY <2>1, <2>3 DEF ChallengesApart, LoginTypes
    <3>3. \A b \in Agents : challenge[b].id # n /\ challenge[b].id \in {0} \cup Challenges
      BY <1>0, <2>1, LoginFacts DEF ChallengesApart
    <3>4. ASSUME NEW b \in Agents, challenge'[b].id # 0
          PROVE  /\ challenge'[b].id <= made' /\ proved'[challenge'[b].id] = 0
                 /\ nonces'[challenge'[b].id] = NoNonce
                 /\ \A c \in Agents : challenge'[c].id = challenge'[b].id => c = b
      BY <1>0, <2>1, <3>3, <3>4 DEF ChallengesApart
    <3> QED
      BY <3>1, <3>2, <3>4 DEF ChallengesApart
  <2>5. NoncesUnused' /\ NoncesApart'
    BY <1>0, <2>1, <2>3, LoginFacts DEF NoncesUnused, NoncesApart
  <2>6. Held(n)'
    BY <2>1, <2>3 DEF Held
  <2>7. \A x \in 1..made : Held(x)' <=> Held(x)
    BY <1>0, <2>1 DEF Held
  <2>8. \A x \in 1..made : Held(x)' <=> Held(x) /\ x \notin {}
    BY <2>7
  <2>9. {} \in SUBSET {x \in Challenges : x <= made /\ Held(x)}
    OBVIOUS
  <2>10. LoginInv' /\ proved' = proved
    BY <2>1, <2>2, <2>4, <2>5
  <2> QED
    BY <2>1, <2>6, <2>8, <2>9, <2>10, ChallengeIssued
<1>3. ASSUME NEW a \in Agents, NEW x \in Challenges, NEW good \in BOOLEAN, Verify(a, x, good)
      PROVE  LoginInv' /\ [LoginOnce!Next]_ChallengeLives
  <2>1. /\ UNCHANGED <<nonces, login, made, heldTwice>> /\ x <= made /\ challenge[a] # NoChallenge
        /\ challenge' = [challenge EXCEPT ![a] = NoChallenge]
    BY <1>3 DEF Verify
  <2>2. NoChallenge \in PendingChallenges /\ NoChallenge.id = 0 /\ NoChallenge.life = "none"
    BY DEF NoChallenge, PendingChallenges
  <2>3. /\ challenge' \in [Agents -> PendingChallenges] /\ challenge'[a].id = 0
        /\ challenge'[a].life = "none"
        /\ \A b \in Agents \ {a} : challenge'[b] = challenge[b]
    BY <2>1, <2>2 DEF LoginTypes
  <2>a. NoncesApart'
    BY <2>1 DEF NoncesApart
  <2>4. CASE proved' = proved
    BY <2>1, <2>3, <2>4, MarksUnchanged, LoginKept DEF LoginTypes
  <2>5. CASE challenge[a].life = "fresh" /\ challenge[a].id = x /\ Accepted(x)
    <3>1. /\ proved[x] = 0 /\ nonces[x] = NoNonce /\ x \notin heldTwice
          /\ \A b \in Agents \ {a} : challenge[b].id # x
      BY <2>5 DEF ChallengesApart
    <3>2. /\ proved' \in [Challenges -> Nat] /\ proved'[x] = 1
          /\ \A y \in Challenges \ {x} : proved'[y] = proved[y]
      BY <2>5, <3>1 DEF Accepted, LoginTypes
    <3>3. \A l \in Logins : login[l].id # x
      BY <3>1 DEF NoncesUnused
    <3>4. LoginTypes'
      BY <2>1, <2>3, <3>2 DEF LoginTypes
    <3>5. ChallengesApart'
      BY <1>0, <2>1, <2>3, <3>1, <3>2, LoginFacts DEF ChallengesApart
    <3>6. nonces[x].life # "fresh"
      BY <3>1 DEF NoNonce
    <3>7. NoncesUnused'
      <4>1. \A y \in Challenges : nonces'[y].life = "fresh" => proved'[y] = 0
        BY <2>1, <3>2, <3>6 DEF NoncesUnused
      <4>2. ASSUME NEW l \in Logins, login'[l].id # 0
            PROVE  /\ login'[l].id <= made' /\ nonces'[login'[l].id] # NoNonce
                   /\ login'[l].id \in heldTwice' \/ proved'[login'[l].id] = 0
                   /\ login'[l].pc = "check" => nonces'[login'[l].id].life = "spent"
        <5>1. login[l].id \in Challenges \ {x}
          BY <2>1, <3>3, <4>2, LoginFacts
        <5> QED
          BY <2>1, <3>2, <4>2, <5>1 DEF NoncesUnused
      <4> QED
        BY <4>1, <4>2 DEF NoncesUnused
    <3>8. Held(x) /\ \A y \in Challenges \ {x} : Held(y)' <=> Held(y)
      BY <2>1, <2>3, <2>5, <3>1 DEF Held
    <3> QED
      BY <2>1, <2>5, <2>a, <3>4, <3>5, <3>7, <3>8, ChallengeAccepted
  <2> QED
    BY <1>3, <2>4, <2>5 DEF Verify
<1>4. ASSUME NEW l \in Logins, NEW a \in Agents, NEW x \in Challenges, FindNonce(l, a, x)
      PROVE  LoginInv' /\ [LoginOnce!Next]_ChallengeLives
  <2> DEFINE e == [agent |-> a, id |-> x, pc |-> "delete"]
  <2>1. /\ UNCHANGED <<challenge, nonces, made, proved>> /\ login' = [login EXCEPT ![l] = e]
        /\ nonces[x].life = "fresh" /\ login[l] = NoLogin
        /\ heldTwice' = IF \E m \in Logins : login[m].id = x THEN heldTwice \cup {x}
                        ELSE heldTwice
    BY <1>4 DEF FindNonce
  <2>2. e \in LoginStates /\ e.id = x /\ e.pc = "delete"
    BY DEF LoginStates
  <2> HIDE DEF e
  <2>3. /\ login' \in [Logins -> LoginStates] /\ login'[l].id = x /\ login'[l].pc = "delete"
        /\ \A m \in Logins \ {l} : login'[m] = login[m]
    BY <2>1, <2>2 DEF LoginTypes
  <2>4. \A b \in Agents : challenge[b].life = "fresh" => challenge[b].id # 0
    BY LoginFacts
  <2>5. NoncesApart'
    <3> SUFFICES ASSUME NEW m \in Logins, NEW k \in Logins, login'[m].id = login'[k].id,
                        login'[m].id # 0, m # k
                 PROVE  login'[m].id \in heldTwice'
      BY DEF NoncesApart
    <3>1. CASE m = l
      BY <2>1, <2>3, <3>1
    <3>2. CASE k = l
      BY <2>1, <2>3, <3>2
    <3>3. CASE m # l /\ k # l
      BY <2>1, <2>3, <3>3 DEF NoncesApart
    <3> QED
      BY <3>1, <3>2, <3>3
  <2>6. heldTwice' \subseteq Challenges /\ heldTwice \subseteq heldTwice'
        /\ \A y \in heldTwice' \ heldTwice : nonces[y].life = "fresh"
    BY <2>1 DEF LoginTypes
  <2>7. MarksKept
    <3>1. proved' \in [Challenges -> Nat] /\ \A y \in Challenges : proved'[y] = proved[y]
      BY <2>1 DEF LoginTypes
    <3> QED
      BY <2>5, <2>6, <3>1 DEF MarksKept
  <2> QED
    BY <2>1, <2>3, <2>4, <2>7, LoginKept DEF LoginTypes
<1>5. ASSUME NEW l \in Logins, DeleteNonce(l)
      PROVE  LoginInv' /\ [LoginOnce!Next]_ChallengeLives
  <2>1. \A b \in Agents : challenge[b].life = "fresh" => challenge[b].id # 0
    BY LoginFacts
  <2>2. nonces[login[l].id] # NoNonce
    BY <1>5, DeleteNonceShape DEF NoncesUnused
  <2>3. MarksKept
    BY <1>5, DeleteNonceShape, MarksUnchanged
  <2> QED
    BY <1>5, <2>1, <2>2, <2>3, DeleteNonceShape, LoginKept DEF LoginTypes
<1>6. ASSUME NEW l \in Logins, NEW good \in BOOLEAN, CheckSignature(l, good)
      PROVE  LoginInv' /\ [LoginOnce!Next]_ChallengeLives
  <2> DEFINE x == login[l].id
  <2>1. /\ UNCHANGED <<challenge, nonces, made, heldTwice>> /\ login[l].pc = "check"
        /\ login' = [login EXCEPT ![l] = NoLogin]
    BY <1>6 DEF CheckSignature
  <2>2. NoLogin \in LoginStates /\ NoLogin.id = 0
    BY DEF NoLogin, LoginStates
  <2>3. /\ login' \in [Logins -> LoginStates] /\ login'[l].id = 0
        /\ \A m \in Logins \ {l} : login'[m] = login[m]
    BY <2>1, <2>2 DEF LoginTypes
  <2>a. NoncesApart' /\ x \in Challenges /\ nonces[x].life = "spent"
    BY <2>1, <2>3, LoginFacts DEF NoncesApart, NoncesUnused
  <2>4. CASE proved' = proved
    <3>1. MarksKept
      BY <2>1, <2>3, <2>4, MarksUnchanged
    <3> QED
      BY <2>1, <2>3, <2>4, <3>1, LoginKept DEF LoginTypes
  <2>5. CASE Accepted(x) /\ x \in heldTwice
    <3>1. /\ proved' \in [Challenges -> Nat]
          /\ \A y \in Challenges \ {x} : proved'[y] = proved[y]
      BY <2>5, <2>a DEF Accepted, LoginTypes
    <3>2. MarksKept
      <4>1. \A y \in Challenges :
              \/ proved'[y] = proved[y]
              \/ y \in heldTwice /\ nonces[y].life = "spent"
        BY <2>5, <2>a, <3>1
      <4>2. /\ heldTwice' \subseteq Challenges /\ heldTwice \subseteq heldTwice'
            /\ heldTwice' \ heldTwice = {}
        BY <2>1 DEF LoginTypes
      <4> QED
        BY <2>a, <3>1, <4>1, <4>2 DEF MarksKept
    <3> QED
      BY <2>1, <2>3, <3>2, LoginKept DEF LoginTypes
  <2>6. CASE Accepted(x) /\ x \notin heldTwice
    <3>1. /\ x # 0 /\ x <= made /\ proved[x] = 0 /\ nonces[x] # NoNonce
          /\ \A m \in Logins \ {l} : login[m].id # x
      BY <2>1, <2>6, LoginFacts DEF NoncesUnused, NoncesApart
    <3>2. /\ proved' \in [Challenges -> Nat] /\ proved'[x] = 1
          /\ \A y \in Challenges \ {x} : proved'[y] = proved[y]
      BY <2>6, <2>a, <3>1 DEF Accepted, LoginTypes
    <3>3. \A b \in Agents : challenge[b].id # x
      BY <3>1 DEF ChallengesApart
    <3>4. LoginTypes'
      BY <2>1, <2>3, <3>2 DEF LoginTypes
    <3>5. ChallengesApart'
      BY <1>0, <2>1, <2>a, <3>1, <3>2, <3>3, LoginFacts DEF ChallengesApart
    <3>6. NoncesUnused'
      BY <2>1, <2>3, <2>a, <3>1, <3>2, LoginFacts DEF NoncesUnused
    <3>7. Held(x) /\ \A y \in Challenges \ {x} : Held(y)' <=> Held(y)
      BY <2>1, <2>3, <2>6 DEF Held
    <3> QED
      BY <2>1, <2>6, <2>a, <3>1, <3>4, <3>5, <3>6, <3>7, ChallengeAccepted
  <2> QED
    BY <1>6, <2>4, <2>5, <2>6 DEF CheckSignature
<1>7. CASE LoginTimeout /\ UNCHANGED <<login, made, proved, heldTwice, loginRestarts>>
  <2>a. MarksKept
    BY <1>7, MarksUnchanged
  <2>1. ASSUME NEW a \in Agents, challenge[a].life = "fresh", nonces' = nonces,
               challenge' = [challenge EXCEPT ![a].life = "late"]
        PROVE  LoginInv' /\ [LoginOnce!Next]_ChallengeLives
    <3> DEFINE c == [challenge[a] EXCEPT !.life = "late"]
    <3>1. challenge' = [challenge EXCEPT ![a] = c]
      BY <2>1
    <3>3. challenge[a] \in [id : Challenges, life : {"fresh", "late"}]
      BY <2>1 DEF LoginTypes, PendingChallenges, NoChallenge
    <3>2. c \in PendingChallenges /\ c.id = challenge[a].id /\ c.life = "late"
      BY <3>3 DEF PendingChallenges
    <3> HIDE DEF c
    <3> QED
      BY <1>7, <2>1, <2>a, <3>1, <3>2, LoginKept DEF LoginTypes
  <2>2. ASSUME NEW x \in Challenges, nonces[x].life = "fresh", challenge' = challenge,
               nonces' = [nonces EXCEPT ![x].life = "late"]
        PROVE  LoginInv' /\ [LoginOnce!Next]_ChallengeLives
    <3>1. nonces[x] # NoNonce
      BY <2>2 DEF NoNonce
    <3>2. /\ nonces' \in [Challenges -> NonceRows]
          /\ nonces'[x].life = "late" /\ nonces'[x] # NoNonce
          /\ \A y \in Challenges \ {x} : nonces'[y] = nonces[y]
      BY <2>2, <3>1, NonceMoves
    <3> QED
      BY <1>7, <2>2, <2>a, <3>1, <3>2, LoginKept DEF LoginTypes
  <2> QED
    BY <1>7, <2>1, <2>2 DEF LoginTimeout
<1>8. CASE LoginRestart
  <2>1. /\ UNCHANGED <<nonces, made, proved, heldTwice>>
        /\ challenge' = [a \in Agents |-> NoChallenge]
        /\ login' = [l \in Logins |-> NoLogin]
    BY <1>8 DEF LoginRestart
  <2>2. /\ NoChallenge \in PendingChallenges /\ NoChallenge.id = 0 /\ NoChallenge.life = "none"
        /\ NoLogin \in LoginStates /\ NoLogin.id = 0
    BY DEF NoChallenge, PendingChallenges, NoLogin, LoginStates
  <2>3. MarksKept
    <3>1. heldTwice' = heldTwice
      BY <1>8 DEF LoginRestart
    <3> QED
      BY <2>1, <2>2, <3>1, MarksUnchanged
  <2> QED
    BY <2>1, <2>2, <2>3, LoginKept DEF LoginTypes
<1>9. CASE UNCHANGED lvars
  <2>1. MarksKept
    BY <1>9, MarksUnchanged DEF lvars
  <2> QED
    BY <1>9, <2>1, LoginKept DEF lvars, LoginTypes
<1> QED
  BY <1>1, <1>2, <1>3, <1>4, <1>5, <1>6, <1>7, <1>8, <1>9 DEF LoginNext

(* However many requests present challenges and nonces, a challenge of any   *)
(* agent is accepted at most once, and never after it lapsed or was replaced; *)
(* so is a nonce, but for one that a second request found before the first   *)
(* had deleted it, which auth's get_and_delete does not keep apart.          *)
THEOREM Challenge == LoginSpec => ChallengesAreSingleUse
<1>1. LoginInit => LoginInv
  BY DEF LoginInit, LoginInv, LoginTypes, ChallengesApart, NoncesUnused, NoncesApart, NoChallenge,
     NoNonce, NoLogin, PendingChallenges, NonceRows, LoginStates
<1>2. LoginInit => LoginOnce!Init
  <2> SUFFICES ASSUME LoginInit, NEW x \in Challenges PROVE ChallengeLife(x) = "unissued"
    BY DEF LoginOnce!Init
  <2>1. proved[x] = 0 /\ x > made /\ x \notin heldTwice
    BY DEF LoginInit
  <2>2. /\ nonces[x].life # "fresh" /\ \A l \in Logins : login[l].id # x
        /\ \A a \in Agents : challenge[a] # [id |-> x, life |-> "fresh"]
    BY DEF LoginInit, NoNonce, NoLogin, NoChallenge
  <2> QED
    BY <2>1, <2>2 DEF ChallengeLife
<1>3. LoginInv /\ [LoginNext]_lvars
        => LoginInv' /\ [LoginOnce!Next]_ChallengeLives
  BY LoginStep
<1> QED
  BY <1>1, <1>2, <1>3, PTL
     DEF LoginSpec, ChallengesAreSingleUse, LoginOnce!Spec, ChallengeLives

-----------------------------------------------------------------------------
(* The enrolment of agents. *)

EnrolStates ==
  [pc : {"idle", "policy", "find", "create", "screen", "verify", "claims", "passed", "failed", "trip"},
   selector : Selectors \cup {"none"}, agent : {0} \cup AgentNos, token : Tokens \cup {"none"}]
Breakers == [state : {"closed", "open", "half-open"}, failures : Nat, recent : BOOLEAN]
AgentRows == [selector : Selectors \cup {"none"}, life : {"none", "live", "deleted"}]

EnrolTypes ==
  /\ agentRow \in [AgentNos -> AgentRows]
  /\ created \in 0..MaxAgents
  /\ policyOf \in [Selectors -> 0..created]
  /\ enrol \in [Enrols -> EnrolStates]
  /\ confirmed \subseteq 1..created
  /\ breaker \in Breakers

\* A registration between its two transactions is of an agent with that selector.
RowsOfRegistrations ==
  \A q \in Enrols : enrol[q].pc = "policy" =>
    /\ enrol[q].agent \in 1..created /\ enrol[q].selector \in Selectors
    /\ agentRow[enrol[q].agent].selector = enrol[q].selector

EnrolInv ==
  EnrolTypes /\ RowsOfRegistrations /\ RegisteredAgentsCanBootstrap /\ BreakerTripsAtThreshold

USE EnrolmentAssumption DEF AgentNos

LEMMA EnrolMoves ==
  ASSUME EnrolTypes, NEW q \in Enrols, NEW e \in EnrolStates, enrol' = [enrol EXCEPT ![q] = e]
  PROVE  /\ enrol' \in [Enrols -> EnrolStates] /\ enrol'[q] = e
         /\ \A p \in Enrols \ {q} : enrol'[p] = enrol[p]
BY DEF EnrolTypes

LEMMA BecomesShape ==
  ASSUME EnrolTypes, NEW q \in Enrols,
         NEW pc \in {"find", "create", "verify", "claims", "passed", "failed", "trip"},
         Becomes(q, pc)
  PROVE  /\ enrol' \in [Enrols -> EnrolStates] /\ enrol'[q].pc = pc
         /\ \A p \in Enrols \ {q} : enrol'[p] = enrol[p]
<1> DEFINE e == [enrol[q] EXCEPT !.pc = pc]
<1>1. e \in EnrolStates /\ e.pc = pc
  BY DEF EnrolTypes, EnrolStates
<1>2. enrol' = [enrol EXCEPT ![q] = e]
  BY DEF Becomes
<1> HIDE DEF e
<1> QED
  BY <1>1, <1>2, EnrolMoves

LEMMA EndsShape ==
  ASSUME EnrolTypes, NEW q \in Enrols, Ends(q)
  PROVE  /\ enrol' \in [Enrols -> EnrolStates] /\ enrol'[q].pc = "idle"
         /\ \A p \in Enrols \ {q} : enrol'[p] = enrol[p]
<1>1. NoEnrol \in EnrolStates /\ NoEnrol.pc = "idle"
  BY DEF NoEnrol, EnrolStates
<1> QED
  BY <1>1, EnrolMoves DEF Ends

\* A new agent changes no other.
LEMMA AddAgentShape ==
  ASSUME EnrolTypes, NEW s \in Selectors \cup {"none"}, AddAgent(s)
  PROVE  /\ created' = created + 1 /\ created' \in 0..MaxAgents /\ created + 1 \in AgentNos
         /\ agentRow' \in [AgentNos -> AgentRows]
         /\ \A i \in 1..created : agentRow'[i] = agentRow[i]
         /\ agentRow'[created + 1].selector = s
<1> DEFINE row == [selector |-> s, life |-> "live"]
<1>1. created \in Nat /\ created < MaxAgents /\ created' = created + 1
  BY DEF EnrolTypes, AddAgent
<1>2. row \in AgentRows /\ row.selector = s /\ agentRow' = [agentRow EXCEPT ![created + 1] = row]
  BY DEF AgentRows, AddAgent
<1> HIDE DEF row
<1> QED
  BY <1>1, <1>2 DEF EnrolTypes

\* A step that adds no policy by hand and confirms nobody, and in which a
\* request, if any, moves on.
LEMMA BootstrapKept ==
  ASSUME EnrolTypes, RowsOfRegistrations, RegisteredAgentsCanBootstrap,
         UNCHANGED <<policyOf, edited>>, created' \in created..MaxAgents,
         \A i \in 1..created : agentRow'[i].selector = agentRow[i].selector
                               /\ (agentRow'[i].life = "live" => agentRow[i].life = "live"),
         \A i \in confirmed' \ confirmed : i \in 1..created' /\ agentRow'[i].selector = "none",
         \A q \in Enrols : enrol'[q].pc = "policy" =>
           \/ enrol'[q] = enrol[q]
           \/ /\ enrol'[q].agent \in 1..created' /\ enrol'[q].selector \in Selectors
              /\ agentRow'[enrol'[q].agent].selector = enrol'[q].selector
  PROVE  RowsOfRegistrations' /\ RegisteredAgentsCanBootstrap'
<1>1. created \in Nat /\ created' \in Nat /\ created <= created'
  BY DEF EnrolTypes
<1>2. RowsOfRegistrations'
  BY <1>1 DEF RowsOfRegistrations
<1>3. RegisteredAgentsCanBootstrap'
  BY DEF RegisteredAgentsCanBootstrap, EnrolTypes
<1> QED
  BY <1>2, <1>3

\* A step of a request that touches no row, policy or breaker.
LEMMA RequestMoves ==
  ASSUME EnrolInv, UNCHANGED <<rows, breaker>>, NEW q \in Enrols, enrol[q].pc # "trip",
         enrol' \in [Enrols -> EnrolStates], enrol'[q].pc # "policy",
         \A p \in Enrols \ {q} : enrol'[p] = enrol[p]
  PROVE  EnrolInv'
<1>1. EnrolTypes'
  BY DEF EnrolInv, EnrolTypes, rows
<1>2. RowsOfRegistrations' /\ RegisteredAgentsCanBootstrap'
  BY BootstrapKept DEF EnrolInv, EnrolTypes, rows
<1>3. BreakerTripsAtThreshold'
  BY DEF EnrolInv, BreakerTripsAtThreshold
<1> QED
  BY <1>1, <1>2, <1>3 DEF EnrolInv

\* A step that makes an agent, and of a request what goes with it.
LEMMA AgentAdded ==
  ASSUME EnrolInv, NEW s \in Selectors \cup {"none"}, AddAgent(s),
         UNCHANGED <<policyOf, edited, breaker>>,
         \A i \in confirmed' \ confirmed : i = created + 1 /\ s = "none",
         enrol' \in [Enrols -> EnrolStates],
         \A q \in Enrols : /\ enrol[q].pc = "trip" => enrol'[q] = enrol[q]
                           /\ \/ enrol'[q] = enrol[q]
                              \/ enrol'[q].pc # "policy"
                              \/ /\ enrol'[q].agent = created + 1 /\ s \in Selectors
                                 /\ enrol'[q].selector = s
  PROVE  EnrolInv'
<1>1. /\ created' = created + 1 /\ created' \in 0..MaxAgents /\ created + 1 \in AgentNos
      /\ agentRow' \in [AgentNos -> AgentRows] /\ created \in Nat
      /\ \A i \in 1..created : agentRow'[i] = agentRow[i]
      /\ agentRow'[created + 1].selector = s
  BY AddAgentShape DEF EnrolInv, EnrolTypes
<1>2. confirmed' \subseteq 1..created'
  <2> SUFFICES ASSUME NEW i \in confirmed' PROVE i \in 1..created + 1
    BY <1>1
  <2>1. i \in confirmed => i \in 1..created
    BY DEF EnrolInv, EnrolTypes
  <2> QED
    BY <1>1, <2>1
<1>3. EnrolTypes'
  BY <1>1, <1>2 DEF EnrolInv, EnrolTypes
<1>4. RowsOfRegistrations' /\ RegisteredAgentsCanBootstrap'
  BY <1>1, <1>2, BootstrapKept DEF EnrolInv
<1>5. BreakerTripsAtThreshold'
  BY DEF EnrolInv, BreakerTripsAtThreshold
<1> QED
  BY <1>3, <1>4, <1>5 DEF EnrolInv

\* A step of a request and of the breaker.
LEMMA BreakerMoves ==
  ASSUME EnrolInv, UNCHANGED rows, NEW q \in Enrols, NEW b \in Breakers, breaker' = b,
         enrol' \in [Enrols -> EnrolStates], enrol'[q].pc # "policy",
         \A p \in Enrols \ {q} : enrol'[p] = enrol[p],
         \/ enrol'[q].pc = "trip"
         \/ b.failures < Threshold \/ b.state # "closed"
         \/ b.failures = breaker.failures /\ b.state = breaker.state /\ enrol[q].pc # "trip"
  PROVE  EnrolInv'
<1>1. EnrolTypes'
  BY DEF EnrolInv, EnrolTypes, rows
<1>2. RowsOfRegistrations' /\ RegisteredAgentsCanBootstrap'
  BY BootstrapKept DEF EnrolInv, EnrolTypes, rows
<1>3. BreakerTripsAtThreshold'
  BY DEF EnrolInv, BreakerTripsAtThreshold, Breakers
<1> QED
  BY <1>1, <1>2, <1>3 DEF EnrolInv

LEMMA EnrolStep ==
  ASSUME EnrolInv, [EnrolNext]_evars
  PROVE  EnrolInv'
<1>0. EnrolTypes
  BY DEF EnrolInv
<1>1. CASE RegisterKey
  <2>1. /\ AddAgent("none") /\ confirmed' = confirmed \cup {created + 1}
        /\ UNCHANGED <<policyOf, edited, enrol, breaker>>
    BY <1>1 DEF RegisterKey, counters
  <2> QED
    BY <1>0, <2>1, AgentAdded DEF EnrolTypes
<1>2. ASSUME NEW q \in Enrols, NEW s \in Selectors, RegisterPlatform(q, s) PROVE EnrolInv'
  <2> DEFINE e == [NoEnrol EXCEPT !.pc = "policy", !.selector = s, !.agent = created + 1]
  <2>1. /\ AddAgent(s) /\ enrol[q] = NoEnrol /\ enrol' = [enrol EXCEPT ![q] = e]
        /\ UNCHANGED <<policyOf, edited, confirmed, breaker>>
    BY <1>2 DEF RegisterPlatform, counters
  <2>2. created + 1 \in AgentNos
    BY <1>0, <2>1, AddAgentShape
  <2>3. e \in EnrolStates /\ e.agent = created + 1 /\ e.selector = s
    BY <2>2 DEF NoEnrol, EnrolStates
  <2> HIDE DEF e
  <2>4. /\ enrol' \in [Enrols -> EnrolStates] /\ enrol'[q] = e
        /\ \A p \in Enrols \ {q} : enrol'[p] = enrol[p]
    BY <1>0, <2>1, <2>3, EnrolMoves
  <2>5. enrol[q].pc # "trip"
    BY <2>1 DEF NoEnrol
  <2> QED
    BY <2>1, <2>3, <2>4, <2>5, AgentAdded
<1>3. ASSUME NEW q \in Enrols, RegisterPolicy(q) PROVE EnrolInv'
  <2> DEFINE s == enrol[q].selector
             i == enrol[q].agent
  <2>1. /\ enrol[q].pc = "policy" /\ Ends(q) /\ UNCHANGED <<agentRow, created, edited, breaker>>
        /\ policyOf' = [policyOf EXCEPT ![s] = PolicyFor(s, i)]
        /\ confirmed' = IF policyOf[s] = 0 THEN confirmed \cup {i} ELSE confirmed
    BY <1>3 DEF RegisterPolicy, counters
  <2>2. i \in 1..created /\ s \in Selectors /\ agentRow[i].selector = s
    BY <2>1 DEF EnrolInv, RowsOfRegistrations
  <2>3. /\ policyOf' \in [Selectors -> 0..created]
        /\ \A t \in Selectors : policyOf'[t] = IF t = s /\ policyOf[s] = 0 THEN i ELSE policyOf[t]
    BY <1>0, <2>1, <2>2 DEF EnrolTypes, PolicyFor
  <2>4. /\ enrol' \in [Enrols -> EnrolStates] /\ enrol'[q].pc = "idle"
        /\ \A p \in Enrols \ {q} : enrol'[p] = enrol[p]
    BY <1>0, <2>1, EndsShape
  <2>5. EnrolTypes'
    BY <1>0, <2>1, <2>2, <2>3, <2>4 DEF EnrolTypes
  <2>6. RowsOfRegistrations'
    BY <2>1, <2>4 DEF EnrolInv, RowsOfRegistrations
  <2>7. RegisteredAgentsCanBootstrap'
    BY <1>0, <2>1, <2>2, <2>3 DEF EnrolInv, RegisteredAgentsCanBootstrap, EnrolTypes
  <2>8. BreakerTripsAtThreshold'
    BY <2>1, <2>4 DEF EnrolInv, BreakerTripsAtThreshold
  <2> QED
    BY <2>5, <2>6, <2>7, <2>8 DEF EnrolInv
<1>4. ASSUME NEW q \in Enrols, RegisterFails(q) PROVE EnrolInv'
  BY <1>0, <1>4, EndsShape, RequestMoves DEF RegisterFails, counters
<1>5. ASSUME NEW i \in AgentNos, DeleteAgentRow(i) PROVE EnrolInv'
  <2> DEFINE row == [agentRow[i] EXCEPT !.life = "deleted"]
  <2>1. /\ agentRow' = [agentRow EXCEPT ![i] = row]
        /\ UNCHANGED <<created, policyOf, edited, enrol, confirmed, breaker>>
    BY <1>5 DEF DeleteAgentRow, counters
  <2>2. row \in AgentRows /\ row.selector = agentRow[i].selector /\ row.life = "deleted"
    BY <1>0 DEF EnrolTypes, AgentRows
  <2> HIDE DEF row
  <2>3. /\ agentRow' \in [AgentNos -> AgentRows]
        /\ \A j \in AgentNos : /\ agentRow'[j].selector = agentRow[j].selector
                               /\ agentRow'[j].life = "live" => agentRow[j].life = "live"
    BY <1>0, <2>1, <2>2 DEF EnrolTypes
  <2>4. EnrolTypes' /\ 1..created \subseteq AgentNos
    BY <1>0, <2>1, <2>3 DEF EnrolTypes
  <2>5. RowsOfRegistrations' /\ RegisteredAgentsCanBootstrap'
    BY <1>0, <2>1, <2>3, <2>4, BootstrapKept DEF EnrolInv, EnrolTypes
  <2>6. BreakerTripsAtThreshold'
    BY <2>1 DEF EnrolInv, BreakerTripsAtThreshold
  <2> QED
    BY <2>4, <2>5, <2>6 DEF EnrolInv
<1>6. ASSUME NEW s \in Selectors, NEW t \in Selectors, NEW i \in 0..created, EditPolicy(s, t, i)
      PROVE  EnrolInv'
  <2>1. UNCHANGED <<agentRow, created, enrol, confirmed, breaker>> /\ edited' = edited \cup {s, t}
    BY <1>6 DEF EditPolicy, counters
  <2>2. /\ policyOf' \in [Selectors -> 0..created]
        /\ \A u \in Selectors \ {s, t} : policyOf'[u] = policyOf[u]
    BY <1>0, <1>6 DEF EditPolicy, EnrolTypes
  <2>3. EnrolTypes'
    BY <1>0, <2>1, <2>2 DEF EnrolTypes
  <2>4. RowsOfRegistrations' /\ RegisteredAgentsCanBootstrap' /\ BreakerTripsAtThreshold'
    BY <2>1, <2>2
       DEF EnrolInv, RowsOfRegistrations, RegisteredAgentsCanBootstrap, BreakerTripsAtThreshold
  <2> QED
    BY <2>3, <2>4 DEF EnrolInv
<1>7. ASSUME NEW q \in Enrols, NEW s \in Selectors, BeginBootstrap(q, s) PROVE EnrolInv'
  <2> DEFINE e == [NoEnrol EXCEPT !.pc = "find", !.selector = s]
  <2>1. enrol[q] = NoEnrol /\ enrol' = [enrol EXCEPT ![q] = e] /\ UNCHANGED <<rows, breaker>>
    BY <1>7 DEF BeginBootstrap, counters
  <2>2. e \in EnrolStates /\ e.pc = "find"
    BY DEF NoEnrol, EnrolStates
  <2>3. enrol[q].pc # "trip"
    BY <2>1 DEF NoEnrol
  <2> HIDE DEF e
  <2> QED
    BY <1>0, <2>1, <2>2, <2>3, EnrolMoves, RequestMoves
<1>8. ASSUME NEW q \in Enrols, FindPolicy(q) \/ VerifyToken(q) \/ Screen(q) PROVE EnrolInv'
  <2>1. UNCHANGED <<rows, breaker>> /\ enrol[q].pc # "trip"
    BY <1>8 DEF FindPolicy, VerifyToken, Screen, ScreenNext, counters
  <2>2. Ends(q) \/ \E pc \in {"create", "claims", "failed", "verify", "passed"} : Becomes(q, pc)
    <3>1. CASE FindPolicy(q) \/ VerifyToken(q)
      BY <3>1 DEF FindPolicy, VerifyToken
    <3>2. CASE Screen(q)
      <4>1. enrol[q].pc \in {"screen", "claims"}
        BY <3>2 DEF Screen, ScreenNext
      <4>2. ScreenNext[enrol[q].pc] \in {"verify", "passed"}
        BY <4>1 DEF ScreenNext
      <4>3. Becomes(q, "failed") \/ Becomes(q, ScreenNext[enrol[q].pc])
        BY <3>2 DEF Screen
      <4> QED
        BY <4>2, <4>3
    <3> QED
      BY <1>8, <3>1, <3>2
  <2>3. /\ enrol' \in [Enrols -> EnrolStates] /\ enrol'[q].pc # "policy"
        /\ \A p \in Enrols \ {q} : enrol'[p] = enrol[p]
    BY <1>0, <2>2, EndsShape, BecomesShape
  <2> QED
    BY <2>1, <2>3, RequestMoves
<1>9. ASSUME NEW q \in Enrols, CreateBootstrapped(q) PROVE EnrolInv'
  <2>1. /\ AddAgent("none") /\ Ends(q) /\ enrol[q].pc = "create"
        /\ UNCHANGED <<policyOf, edited, confirmed, breaker>>
    BY <1>9 DEF CreateBootstrapped, counters
  <2>2. /\ enrol' \in [Enrols -> EnrolStates] /\ enrol'[q].pc = "idle"
        /\ \A p \in Enrols \ {q} : enrol'[p] = enrol[p]
    BY <1>0, <2>1, EndsShape
  <2> QED
    BY <2>1, <2>2, AgentAdded
<1>10. ASSUME NEW q \in Enrols, NEW t \in Tokens, BeginKubernetes(q, t) PROVE EnrolInv'
  <2> DEFINE e == [NoEnrol EXCEPT !.pc = "screen", !.token = t, !.selector = SelectorOf[t]]
             state == IF breaker.state = "open" THEN "half-open" ELSE breaker.state
             b == [breaker EXCEPT !.state = state]
  <2>1. enrol[q] = NoEnrol /\ enrol' = [enrol EXCEPT ![q] = e] /\ breaker' = b /\ UNCHANGED rows
    BY <1>10 DEF BeginKubernetes
  <2>2. e \in EnrolStates /\ e.pc = "screen"
    BY DEF NoEnrol, EnrolStates
  <2>6. enrol[q].pc # "trip"
    BY <2>1 DEF NoEnrol
  <2>3. state \in {"closed", "open", "half-open"} /\ (state = "closed" => state = breaker.state)
    BY <1>0 DEF EnrolTypes, Breakers
  <2> HIDE DEF e, state
  <2>4. b \in Breakers /\ b.state = state /\ b.failures = breaker.failures
    BY <1>0, <2>3 DEF EnrolTypes, Breakers
  <2> HIDE DEF b
  <2>5. /\ enrol' \in [Enrols -> EnrolStates] /\ enrol'[q] = e
        /\ \A p \in Enrols \ {q} : enrol'[p] = enrol[p]
    BY <1>0, <2>1, <2>2, EnrolMoves
  <2> QED
    BY <2>1, <2>2, <2>3, <2>4, <2>5, <2>6, BreakerMoves
<1>11. ASSUME NEW q \in Enrols, BreakerReset(q) PROVE EnrolInv'
  <2> DEFINE b == [state |-> "closed", failures |-> 0, recent |-> FALSE]
  <2>1. breaker' = b /\ Becomes(q, "find") /\ UNCHANGED rows
    BY <1>11 DEF BreakerReset
  <2>2. b \in Breakers /\ b.failures < Threshold
    BY DEF Breakers
  <2> HIDE DEF b
  <2> QED
    BY <1>0, <2>1, <2>2, BecomesShape, BreakerMoves
<1>12. ASSUME NEW q \in Enrols, BreakerCounts(q) PROVE EnrolInv'
  <2> DEFINE n == IF breaker.failures < Threshold THEN breaker.failures + 1 ELSE breaker.failures
             b == [breaker EXCEPT !.failures = n, !.recent = TRUE]
  <2>1. breaker' = b /\ Becomes(q, "trip") /\ UNCHANGED rows
    BY <1>12 DEF BreakerCounts
  <2>2. n \in Nat
    BY <1>0 DEF EnrolTypes, Breakers
  <2> HIDE DEF n
  <2>3. b \in Breakers
    BY <1>0, <2>2 DEF EnrolTypes, Breakers
  <2> HIDE DEF b
  <2> QED
    BY <1>0, <2>1, <2>3, BecomesShape, BreakerMoves
<1>13. ASSUME NEW q \in Enrols, BreakerTrips(q) PROVE EnrolInv'
  <2> DEFINE state == IF breaker.failures >= Threshold THEN "open" ELSE breaker.state
             b == [breaker EXCEPT !.state = state]
  <2>1. breaker' = b /\ Ends(q) /\ UNCHANGED rows
    BY <1>13 DEF BreakerTrips, Trips
  <2>2. /\ state \in {"closed", "open", "half-open"}
        /\ breaker.failures < Threshold \/ state # "closed"
    BY <1>0 DEF EnrolTypes, Breakers
  <2> HIDE DEF state
  <2>3. b \in Breakers /\ b.failures = breaker.failures /\ b.state = state
    BY <1>0, <2>2 DEF EnrolTypes, Breakers
  <2> HIDE DEF b
  <2> QED
    BY <1>0, <2>1, <2>2, <2>3, EndsShape, BreakerMoves
<1>14. CASE EnrolTimePasses /\ UNCHANGED <<rows, enrol, shown, unseen>>
  <2>1. UNCHANGED <<rows, enrol>> /\ (breaker' = breaker \/ breaker' = [breaker EXCEPT !.recent = FALSE])
    BY <1>14 DEF EnrolTimePasses
  <2>2. breaker' \in Breakers /\ breaker'.state = breaker.state /\ breaker'.failures = breaker.failures
    BY <1>0, <2>1 DEF EnrolTypes, Breakers
  <2> QED
    BY <2>1, <2>2 DEF EnrolInv, EnrolTypes, RowsOfRegistrations, RegisteredAgentsCanBootstrap,
       BreakerTripsAtThreshold, rows
<1>15. CASE UNCHANGED evars
  BY <1>15 DEF EnrolInv, EnrolTypes, RowsOfRegistrations, RegisteredAgentsCanBootstrap,
     BreakerTripsAtThreshold, evars, rows, counters
<1> QED
  BY <1>1, <1>2, <1>3, <1>4, <1>5, <1>6, <1>7, <1>8, <1>9, <1>10, <1>11, <1>12, <1>13, <1>14, <1>15
     DEF EnrolNext

LEMMA EnrolInvariance == EnrolSpec => []EnrolInv
<1>1. EnrolInit => EnrolInv
  BY DEF EnrolInit, EnrolInv, EnrolTypes, EnrolStates, AgentRows, Breakers, NoEnrol, NoRow,
     RowsOfRegistrations, RegisteredAgentsCanBootstrap, BreakerTripsAtThreshold
<1>2. EnrolInv /\ [EnrolNext]_evars => EnrolInv'
  BY EnrolStep
<1> QED
  BY <1>1, <1>2, PTL DEF EnrolSpec

(* Whatever comes between the two transactions of a registration, an agent   *)
(* whose registration succeeded has the policy it bootstraps by.             *)
THEOREM RegisteredAgents == EnrolSpec => []RegisteredAgentsCanBootstrap
<1>1. EnrolInv => RegisteredAgentsCanBootstrap
  BY DEF EnrolInv
<1> QED
  BY <1>1, EnrolInvariance, PTL

(* A breaker that counted its threshold of failures is not closed, unless    *)
(* the request that counted the last is about to open it.                    *)
THEOREM Breaker == EnrolSpec => []BreakerTripsAtThreshold
<1>1. EnrolInv => BreakerTripsAtThreshold
  BY DEF EnrolInv
<1> QED
  BY <1>1, EnrolInvariance, PTL

-----------------------------------------------------------------------------
(* The directory. *)

\* Some entries with the row each has, or had.
RowsOfSome == UNION {[E -> Nat] : E \in SUBSET Entries}

SyncStates ==
  [pc : {"idle", "read", "commit"}, page : 1..Len(Pages) + 1, found : RowsOfSome,
   stale : RowsOfSome, failed : BOOLEAN, changed : SUBSET Entries, since : Nat]

DirectoryTypes ==
  /\ listed \subseteq Entries
  /\ directory \in [Entries -> Nat]
  /\ sync \in [Syncs -> SyncStates]
  /\ commits \in Nat

\* A sync v that read every page so far has what is listed on them, but for
\* what joined or left since it began.
PagesRead(v) ==
  v.pc # "idle" /\ ~v.failed =>
    \A i \in DOMAIN Pages : \A e \in Pages[i] \ v.changed :
      e \in DOMAIN v.found <=> i < v.page /\ e \in listed

\* What a sync v is to delete: rows of entries it did not read, and all of them
\* as long as no other sync committed.
RowsToDelete(v) ==
  v.pc = "commit" =>
    /\ v.page = Len(Pages) + 1 /\ v.since <= commits
    /\ DOMAIN v.stale \cap DOMAIN v.found = {}
    /\ v.since = commits /\ DOMAIN v.found # {} =>
         \A e \in Entries \ DOMAIN v.found :
           directory[e] # 0 => e \in DOMAIN v.stale /\ v.stale[e] = directory[e]

DirectoryInv ==
  DirectoryTypes /\ \A s \in Syncs : PagesRead(sync[s]) /\ RowsToDelete(sync[s])

USE DirectoryAssumption

LEMMA PageFacts ==
  /\ Len(Pages) \in Nat /\ DOMAIN Pages = 1..Len(Pages)
  /\ \A i \in DOMAIN Pages : Pages[i] \subseteq Entries
  /\ \A e \in Entries : \E i \in DOMAIN Pages : e \in Pages[i]
  /\ GroupPages \in Nat /\ GroupPages <= Len(Pages)
BY DEF Entries

LEMMA PartialRows ==
  ASSUME NEW E \in SUBSET Entries, NEW f \in [E -> Nat]
  PROVE  f \in RowsOfSome
BY DEF RowsOfSome

LEMMA PartialRowsFacts ==
  ASSUME NEW f \in RowsOfSome
  PROVE  DOMAIN f \in SUBSET Entries /\ f \in [DOMAIN f -> Nat]
BY DEF RowsOfSome

LEMMA NoRows == <<>> \in RowsOfSome /\ DOMAIN <<>> = {}
<1>1. <<>> \in [{} -> Nat] /\ DOMAIN <<>> = {}
  OBVIOUS
<1> QED
  BY <1>1, PartialRows

LEMMA NoSyncFacts ==
  /\ NoSync \in SyncStates /\ NoSync.pc = "idle" /\ NoSync.page = 1 /\ NoSync.changed = {}
  /\ NoSync.found = <<>> /\ NoSync.failed = FALSE
BY NoRows, PageFacts DEF NoSync, SyncStates

\* Rows read of more entries.
LEMMA RowsRead ==
  ASSUME DirectoryInv, NEW s \in Syncs, NEW E \in SUBSET Entries
  PROVE  RowsFound(s, E) \in RowsOfSome /\ DOMAIN RowsFound(s, E) = DOMAIN sync[s].found \cup E
<1>1. /\ sync[s].found \in RowsOfSome /\ directory \in [Entries -> Nat]
      /\ DOMAIN sync[s].found \in SUBSET Entries /\ sync[s].found \in [DOMAIN sync[s].found -> Nat]
  BY PartialRowsFacts DEF DirectoryInv, DirectoryTypes, SyncStates
<1>2. RowsFound(s, E) \in [DOMAIN sync[s].found \cup E -> Nat]
  BY <1>1 DEF RowsFound, Read
<1> QED
  BY <1>1, <1>2, PartialRows

\* A sync that moves on, and leaves the others and the directory alone.
LEMMA SyncMoves ==
  ASSUME DirectoryInv, NEW s \in Syncs, NEW v \in SyncStates, sync' = [sync EXCEPT ![s] = v],
         UNCHANGED <<listed, directory, commits>>, PagesRead(v), RowsToDelete(v)
  PROVE  DirectoryInv'
<1>1. \A t \in Syncs : sync'[t] = IF t = s THEN v ELSE sync[t]
  BY DEF DirectoryInv, DirectoryTypes
<1>2. DirectoryTypes'
  BY DEF DirectoryInv, DirectoryTypes
<1>3. ASSUME NEW t \in Syncs PROVE PagesRead(sync'[t]) /\ RowsToDelete(sync'[t])
  BY <1>1 DEF DirectoryInv
<1>4. \A t \in Syncs : PagesRead(sync[t])' /\ RowsToDelete(sync[t])'
  BY <1>3 DEF PagesRead, RowsToDelete
<1> QED
  BY <1>2, <1>4 DEF DirectoryInv

LEMMA BeginSyncShape ==
  ASSUME DirectoryInv, NEW s \in Syncs, BeginSync(s)
  PROVE  \E v \in SyncStates : /\ sync' = [sync EXCEPT ![s] = v] /\ v.pc = "read" /\ v.page = 1
                               /\ DOMAIN v.found = {}
<1> DEFINE v == [NoSync EXCEPT !.pc = "read"]
<1>1. sync' = [sync EXCEPT ![s] = v]
  BY DEF BeginSync
<1>2. v \in SyncStates /\ v.pc = "read" /\ v.page = 1 /\ v.found = NoSync.found
  BY NoSyncFacts DEF SyncStates
<1> HIDE DEF v
<1> QED
  BY <1>1, <1>2, NoSyncFacts, NoRows

LEMMA ReadPageShape ==
  ASSUME DirectoryInv, NEW s \in Syncs, ReadPage(s)
  PROVE  \E v \in SyncStates :
           /\ sync' = [sync EXCEPT ![s] = v] /\ v.pc = "read" /\ sync[s].pc = "read"
           /\ sync[s].page \in DOMAIN Pages
           /\ v.page = sync[s].page + 1 /\ v.changed = sync[s].changed
           /\ v.failed = sync[s].failed
           /\ DOMAIN v.found = DOMAIN sync[s].found \cup (Pages[sync[s].page] \cap listed)
<1> DEFINE here == Pages[sync[s].page] \cap listed
           found == RowsFound(s, here)
           page == sync[s].page + 1
           v == [sync[s] EXCEPT !.page = page, !.found = found]
<1>0. sync[s] \in SyncStates /\ sync \in [Syncs -> SyncStates]
  BY DEF DirectoryInv, DirectoryTypes
<1>1a. sync[s].pc = "read" /\ sync[s].page \in DOMAIN Pages
  BY <1>0, PageFacts DEF ReadPage, SyncStates
<1>1b. sync' = [sync EXCEPT ![s] = v]
  BY <1>0 DEF ReadPage
<1>1. /\ sync[s].pc = "read" /\ sync[s] \in SyncStates /\ sync[s].page \in DOMAIN Pages
      /\ sync' = [sync EXCEPT ![s] = v]
  BY <1>0, <1>1a, <1>1b
<1>2. here \in SUBSET Entries /\ page \in 1..Len(Pages) + 1
  BY <1>1, PageFacts DEF SyncStates
<1> HIDE DEF here
<1>4. found \in RowsOfSome /\ DOMAIN found = DOMAIN sync[s].found \cup here
  BY <1>2, RowsRead
<1> HIDE DEF found, page
<1>5. /\ v \in SyncStates /\ v.pc = "read" /\ v.page = page /\ v.changed = sync[s].changed
      /\ v.failed = sync[s].failed /\ v.found = found
  BY <1>1, <1>2, <1>4 DEF SyncStates
<1> HIDE DEF v
<1> QED
  BY <1>1, <1>4, <1>5 DEF here, page

LEMMA PageFailsShape ==
  ASSUME DirectoryInv, NEW s \in Syncs, PageFails(s)
  PROVE  \E v \in SyncStates :
           sync' = [sync EXCEPT ![s] = v] /\ v.pc = "read" /\ v.failed
<1> DEFINE page == IF sync[s].page <= GroupPages THEN GroupPages + 1 ELSE Len(Pages) + 1
           v == [sync[s] EXCEPT !.page = page, !.failed = TRUE]
<1>1. sync[s].pc = "read" /\ sync[s] \in SyncStates /\ sync' = [sync EXCEPT ![s] = v]
  BY DEF PageFails, DirectoryInv, DirectoryTypes
<1>2. page \in 1..Len(Pages) + 1
  BY PageFacts
<1> HIDE DEF page
<1>3. v \in SyncStates /\ v.pc = "read" /\ v.failed
  BY <1>1, <1>2 DEF SyncStates
<1> HIDE DEF v
<1> QED
  BY <1>1, <1>3

LEMMA SelectStaleShape ==
  ASSUME DirectoryInv, NEW s \in Syncs, SelectStale(s)
  PROVE  \E v \in SyncStates :
           /\ sync' = [sync EXCEPT ![s] = v] /\ v.pc = "commit" /\ sync[s].pc = "read"
           /\ v.page = sync[s].page /\ v.page = Len(Pages) + 1 /\ v.changed = sync[s].changed
           /\ v.failed = sync[s].failed /\ v.found = sync[s].found /\ v.since = commits
           /\ DOMAIN v.stale \cap DOMAIN v.found = {}
           /\ DOMAIN v.found # {} =>
                \A e \in Entries \ DOMAIN v.found :
                  directory[e] # 0 => e \in DOMAIN v.stale /\ v.stale[e] = directory[e]
<1> DEFINE stale == StaleRows(s)
           v == [sync[s] EXCEPT !.pc = "commit", !.stale = stale, !.since = commits]
<1>1. /\ sync[s].pc = "read" /\ sync[s].page = Len(Pages) + 1 /\ sync[s] \in SyncStates
      /\ sync' = [sync EXCEPT ![s] = v] /\ commits \in Nat
  BY DEF SelectStale, DirectoryInv, DirectoryTypes
<1>2. /\ stale \in RowsOfSome /\ DOMAIN stale \cap DOMAIN sync[s].found = {}
      /\ DOMAIN sync[s].found # {} =>
           \A e \in Entries \ DOMAIN sync[s].found :
             directory[e] # 0 => e \in DOMAIN stale /\ stale[e] = directory[e]
  <2>1. CASE Read(s) = {}
    BY <2>1, NoRows DEF StaleRows, Read
  <2>2. CASE Read(s) # {}
    <3> DEFINE E == {x \in Entries \ Read(s) : directory[x] # 0}
    <3>1. stale = [e \in E |-> directory[e]] /\ E \in SUBSET Entries
      BY <2>2 DEF StaleRows
    <3>2. stale \in [E -> Nat]
      BY <3>1 DEF DirectoryInv, DirectoryTypes
    <3>3. stale \in RowsOfSome
      BY <3>1, <3>2, PartialRows
    <3> HIDE DEF stale
    <3> QED
      BY <3>1, <3>3 DEF Read
  <2> QED
    BY <2>1, <2>2
<1> HIDE DEF stale
<1>3. /\ v \in SyncStates /\ v.pc = "commit" /\ v.page = sync[s].page
      /\ v.changed = sync[s].changed /\ v.failed = sync[s].failed /\ v.found = sync[s].found
      /\ v.since = commits /\ v.stale = stale
  BY <1>1, <1>2 DEF SyncStates
<1> HIDE DEF v
<1> QED
  BY <1>1, <1>2, <1>3

\* What a commit makes of the rows.
LEMMA CommitSyncShape ==
  ASSUME DirectoryInv, NEW s \in Syncs, CommitSync(s)
  PROVE  /\ sync[s].pc = "commit" /\ commits' = commits + 1 /\ listed' = listed
         /\ sync' = [sync EXCEPT ![s] = NoSync]
         /\ directory' \in [Entries -> Nat]
         /\ \A e \in Entries : directory'[e] =
              IF e \in Read(s) /\ directory[e] = 0 THEN commits + 1
              ELSE IF e \in DOMAIN sync[s].stale /\ sync[s].stale[e] = directory[e] THEN 0
              ELSE directory[e]
<1>1. /\ sync[s].pc = "commit" /\ commits' = commits + 1 /\ listed' = listed
      /\ sync' = [sync EXCEPT ![s] = NoSync] /\ commits + 1 \in Nat
  BY DEF CommitSync, DirectoryInv, DirectoryTypes
<1>2. \A e \in Read(s) : sync[s].found[e] = directory[e]
  BY DEF CommitSync, RowsFit
<1>3. directory' = [e \in Entries |->
         IF e \in Read(s) /\ sync[s].found[e] = 0 THEN commits + 1
         ELSE IF e \in DOMAIN sync[s].stale /\ sync[s].stale[e] = directory[e] THEN 0
         ELSE directory[e]]
  BY <1>1 DEF CommitSync
<1>4. directory' \in [Entries -> Nat]
  BY <1>1, <1>3 DEF DirectoryInv, DirectoryTypes
<1>5. \A e \in Entries : directory'[e] =
         IF e \in Read(s) /\ directory[e] = 0 THEN commits + 1
         ELSE IF e \in DOMAIN sync[s].stale /\ sync[s].stale[e] = directory[e] THEN 0
         ELSE directory[e]
  BY <1>2, <1>3
<1> QED
  BY <1>1, <1>4, <1>5

LEMMA DirectoryStep ==
  ASSUME DirectoryInv, [DirectoryNext]_dvars
  PROVE  DirectoryInv'
<1>0. \A s \in Syncs : /\ sync[s] \in SyncStates /\ sync[s].page \in 1..Len(Pages) + 1
                       /\ DOMAIN sync[s].found \subseteq Entries
                       /\ PagesRead(sync[s]) /\ RowsToDelete(sync[s])
  <2> SUFFICES ASSUME NEW s \in Syncs
               PROVE  /\ sync[s] \in SyncStates /\ sync[s].page \in 1..Len(Pages) + 1
                      /\ DOMAIN sync[s].found \subseteq Entries
    BY DEF DirectoryInv
  <2>1. sync[s] \in SyncStates
    BY DEF DirectoryInv, DirectoryTypes
  <2>2. sync[s].found \in RowsOfSome /\ sync[s].page \in 1..Len(Pages) + 1
    BY <2>1 DEF SyncStates
  <2> QED
    BY <2>1, <2>2, PartialRowsFacts
<1>1. ASSUME NEW x \in Entries, Change(x) PROVE DirectoryInv'
  <2>1. /\ UNCHANGED <<directory, commits>>
        /\ listed' \subseteq Entries /\ \A e \in Entries \ {x} : e \in listed' <=> e \in listed
    BY <1>1 DEF Change, DirectoryInv, DirectoryTypes
  <2>2. ASSUME NEW s \in Syncs
        PROVE  /\ sync'[s] \in SyncStates /\ sync'[s].pc = sync[s].pc
               /\ sync'[s].page = sync[s].page /\ sync'[s].found = sync[s].found
               /\ sync'[s].stale = sync[s].stale /\ sync'[s].failed = sync[s].failed
               /\ sync'[s].since = sync[s].since
               /\ sync[s].pc # "idle" => sync'[s].changed = sync[s].changed \cup {x}
    <3>1. CASE sync[s] = NoSync
      BY <1>1, <3>1, NoSyncFacts DEF Change
    <3>2. CASE sync[s] # NoSync
      <4> DEFINE changed == sync[s].changed \cup {x}
                 v == [sync[s] EXCEPT !.changed = changed]
      <4>1. sync'[s] = v
        BY <1>1, <3>2 DEF Change
      <4>2. changed \in SUBSET Entries
        BY <1>0 DEF SyncStates
      <4> HIDE DEF changed
      <4>3. /\ v \in SyncStates /\ v.pc = sync[s].pc /\ v.page = sync[s].page
            /\ v.found = sync[s].found /\ v.stale = sync[s].stale /\ v.failed = sync[s].failed
            /\ v.since = sync[s].since /\ v.changed = changed
        BY <1>0, <4>2 DEF SyncStates
      <4> HIDE DEF v
      <4> QED
        BY <4>1, <4>3 DEF changed
    <3> QED
      BY <3>1, <3>2
  <2>3. sync' \in [Syncs -> SyncStates]
    <3>1. sync' = [s \in Syncs |-> sync'[s]]
      BY <1>1 DEF Change
    <3> DEFINE P == sync'
    <3>2. P = [s \in Syncs |-> P[s]] /\ \A s \in Syncs : P[s] \in SyncStates
      BY <2>2, <3>1
    <3> HIDE DEF P
    <3>3. P \in [Syncs -> SyncStates]
      BY <3>2
    <3> QED
      BY <3>3 DEF P
  <2>4. DirectoryTypes'
    BY <2>1, <2>3 DEF DirectoryInv, DirectoryTypes
  <2>5. ASSUME NEW s \in Syncs PROVE PagesRead(sync[s])'
    BY <1>0, <2>1, <2>2, PageFacts DEF PagesRead
  <2>6. ASSUME NEW s \in Syncs PROVE RowsToDelete(sync[s])'
    BY <1>0, <2>1, <2>2 DEF RowsToDelete
  <2> QED
    BY <2>4, <2>5, <2>6 DEF DirectoryInv
<1>2. ASSUME NEW s \in Syncs, BeginSync(s) PROVE DirectoryInv'
  <2>1. PICK v \in SyncStates : /\ sync' = [sync EXCEPT ![s] = v] /\ v.pc = "read" /\ v.page = 1
                                /\ DOMAIN v.found = {}
    BY <1>2, BeginSyncShape
  <2>2. PagesRead(v) /\ RowsToDelete(v)
    BY <2>1, PageFacts DEF PagesRead, RowsToDelete
  <2> QED
    BY <1>2, <2>1, <2>2, SyncMoves DEF BeginSync
<1>3. ASSUME NEW s \in Syncs, ReadPage(s) PROVE DirectoryInv'
  <2>1. PICK v \in SyncStates :
           /\ sync' = [sync EXCEPT ![s] = v] /\ v.pc = "read" /\ sync[s].pc = "read"
           /\ sync[s].page \in DOMAIN Pages
           /\ v.page = sync[s].page + 1 /\ v.changed = sync[s].changed
           /\ v.failed = sync[s].failed
           /\ DOMAIN v.found = DOMAIN sync[s].found \cup (Pages[sync[s].page] \cap listed)
    BY <1>3, ReadPageShape
  <2>2. PagesRead(v)
    <3> SUFFICES ASSUME ~v.failed, NEW i \in DOMAIN Pages, NEW e \in Pages[i] \ v.changed
                 PROVE  e \in DOMAIN v.found <=> i < v.page /\ e \in listed
      BY <2>1 DEF PagesRead
    <3>1. e \in DOMAIN sync[s].found <=> i < sync[s].page /\ e \in listed
      BY <1>0, <2>1 DEF PagesRead
    <3>2. e \in Pages[sync[s].page] <=> i = sync[s].page
      BY <2>1
    <3> QED
      BY <1>0, <2>1, <3>1, <3>2, PageFacts
  <2>3. RowsToDelete(v)
    BY <2>1 DEF RowsToDelete
  <2> QED
    BY <1>3, <2>1, <2>2, <2>3, SyncMoves DEF ReadPage
<1>4. ASSUME NEW s \in Syncs, PageFails(s) PROVE DirectoryInv'
  <2>1. PICK v \in SyncStates : sync' = [sync EXCEPT ![s] = v] /\ v.pc = "read" /\ v.failed
    BY <1>4, PageFailsShape
  <2>2. PagesRead(v) /\ RowsToDelete(v)
    BY <2>1 DEF PagesRead, RowsToDelete
  <2> QED
    BY <1>4, <2>1, <2>2, SyncMoves DEF PageFails
<1>5. ASSUME NEW s \in Syncs, SelectStale(s) PROVE DirectoryInv'
  <2>1. PICK v \in SyncStates :
           /\ sync' = [sync EXCEPT ![s] = v] /\ v.pc = "commit" /\ sync[s].pc = "read"
           /\ v.page = sync[s].page /\ v.page = Len(Pages) + 1 /\ v.changed = sync[s].changed
           /\ v.failed = sync[s].failed /\ v.found = sync[s].found /\ v.since = commits
           /\ DOMAIN v.stale \cap DOMAIN v.found = {}
           /\ DOMAIN v.found # {} =>
                \A e \in Entries \ DOMAIN v.found :
                  directory[e] # 0 => e \in DOMAIN v.stale /\ v.stale[e] = directory[e]
    BY <1>5, SelectStaleShape
  <2>2. PagesRead(v)
    BY <1>0, <2>1 DEF PagesRead
  <2>3. RowsToDelete(v)
    BY <2>1 DEF RowsToDelete, DirectoryInv, DirectoryTypes
  <2> QED
    BY <1>5, <2>1, <2>2, <2>3, SyncMoves DEF SelectStale
<1>6. ASSUME NEW s \in Syncs, CommitSync(s) PROVE DirectoryInv'
  <2>1. /\ commits' = commits + 1 /\ listed' = listed /\ commits \in Nat
        /\ sync' = [sync EXCEPT ![s] = NoSync] /\ directory' \in [Entries -> Nat]
    BY <1>6, CommitSyncShape DEF DirectoryInv, DirectoryTypes
  <2>2. \A t \in Syncs : sync'[t] = IF t = s THEN NoSync ELSE sync[t]
    BY <2>1 DEF DirectoryInv, DirectoryTypes
  <2>3. DirectoryTypes'
    BY <2>1, NoSyncFacts DEF DirectoryInv, DirectoryTypes
  <2>4. ASSUME NEW t \in Syncs PROVE PagesRead(sync[t])' /\ RowsToDelete(sync[t])'
    <3>1. CASE t = s
      BY <2>2, <3>1, NoSyncFacts DEF PagesRead, RowsToDelete
    <3>2. CASE t # s
      <4>1. sync'[t] = sync[t] /\ sync[t].since \in Nat
        BY <1>0, <2>2, <3>2 DEF SyncStates
      <4>2. PagesRead(sync[t])'
        BY <1>0, <2>1, <4>1 DEF PagesRead
      <4>3. RowsToDelete(sync[t])'
        BY <1>0, <2>1, <4>1 DEF RowsToDelete
      <4> QED
        BY <4>2, <4>3
    <3> QED
      BY <3>1, <3>2
  <2> QED
    BY <2>3, <2>4 DEF DirectoryInv
<1>7. ASSUME NEW s \in Syncs, CommitSyncFails(s) PROVE DirectoryInv'
  <2>1. PagesRead(NoSync) /\ RowsToDelete(NoSync)
    BY NoSyncFacts DEF PagesRead, RowsToDelete
  <2> QED
    BY <1>7, <2>1, NoSyncFacts, SyncMoves DEF CommitSyncFails
<1>8. CASE UNCHANGED dvars
  BY <1>8 DEF DirectoryInv, DirectoryTypes, PagesRead, RowsToDelete, dvars
<1> QED
  BY <1>1, <1>2, <1>3, <1>4, <1>5, <1>6, <1>7, <1>8 DEF DirectoryNext

LEMMA DirectoryInvariance == DirectorySpec => []DirectoryInv
<1>1. DirectoryInit => DirectoryInv
  <2> SUFFICES ASSUME DirectoryInit PROVE DirectoryInv
    OBVIOUS
  <2>1. DirectoryTypes /\ \A s \in Syncs : sync[s] = NoSync
    BY NoSyncFacts DEF DirectoryInit, DirectoryTypes
  <2> QED
    BY <2>1, NoSyncFacts DEF DirectoryInv, PagesRead, RowsToDelete
<1>2. DirectoryInv /\ [DirectoryNext]_dvars => DirectoryInv'
  BY DirectoryStep
<1> QED
  BY <1>1, <1>2, PTL DEF DirectorySpec

(* However syncs overlap and entries come and go, a sync that read every     *)
(* page leaves a row of each entry listed throughout it, and no row of one   *)
(* listed at no time of it, unless another committed since it chose.         *)
THEOREM WholeSyncs == DirectorySpec => WholeSyncsAgree
<1>1. DirectoryInv /\ [DirectoryNext]_dvars =>
        [\A s \in Syncs : Committed(s) /\ ~sync[s].failed /\ Read(s) # {} =>
           \A e \in Entries \ sync[s].changed :
             IF e \in listed THEN directory'[e] # 0
             ELSE sync[s].since = commits => directory'[e] = 0]_dvars
  <2> SUFFICES ASSUME DirectoryInv, DirectoryNext, NEW s \in Syncs, Committed(s),
                      ~sync[s].failed, Read(s) # {}, NEW e \in Entries \ sync[s].changed
               PROVE  IF e \in listed THEN directory'[e] # 0
                      ELSE sync[s].since = commits => directory'[e] = 0
    OBVIOUS
  <2>1. /\ sync[s].pc = "commit" /\ sync'[s] = NoSync /\ commits' = commits + 1 /\ commits \in Nat
        /\ sync[s] # NoSync
    BY NoSyncFacts DEF Committed, DirectoryInv, DirectoryTypes
  <2>a. commits' # commits
    BY <2>1
  <2>2. PICK t \in Syncs : CommitSync(t)
    <3>1. ASSUME NEW x \in Entries, Change(x) PROVE FALSE
      BY <3>1, <2>a DEF Change
    <3>2. ASSUME NEW t \in Syncs,
                 BeginSync(t) \/ ReadPage(t) \/ PageFails(t) \/ SelectStale(t) \/ CommitSyncFails(t)
          PROVE  FALSE
      BY <3>2, <2>a DEF BeginSync, ReadPage, PageFails, SelectStale, CommitSyncFails
    <3> QED
      BY <3>1, <3>2 DEF DirectoryNext
  <2>3. t = s
    BY <2>1, <2>2, CommitSyncShape DEF DirectoryInv, DirectoryTypes
  <2>4. directory'[e] =
          IF e \in Read(s) /\ directory[e] = 0 THEN commits + 1
          ELSE IF e \in DOMAIN sync[s].stale /\ sync[s].stale[e] = directory[e] THEN 0
          ELSE directory[e]
    BY <2>2, <2>3, CommitSyncShape
  <2>5. PagesRead(sync[s]) /\ RowsToDelete(sync[s])
    BY DEF DirectoryInv
  <2>6. e \in Read(s) <=> e \in listed
    <3>1. PICK i \in DOMAIN Pages : e \in Pages[i]
      BY PageFacts
    <3>2. i < sync[s].page
      BY <2>1, <2>5, PageFacts DEF RowsToDelete
    <3> QED
      BY <2>1, <2>5, <3>1, <3>2 DEF PagesRead, Read
  <2>7. CASE e \in listed
    <3>1. e \notin DOMAIN sync[s].stale
      BY <2>1, <2>5, <2>6, <2>7 DEF RowsToDelete, Read
    <3> QED
      BY <2>1, <2>4, <2>6, <2>7, <3>1
  <2>8. CASE e \notin listed /\ sync[s].since = commits
    <3>1. directory[e] # 0 => e \in DOMAIN sync[s].stale /\ sync[s].stale[e] = directory[e]
      BY <2>1, <2>5, <2>6, <2>8 DEF RowsToDelete, Read
    <3> QED
      BY <2>4, <2>6, <2>8, <3>1
  <2> QED
    BY <2>7, <2>8
<1> QED
  BY <1>1, DirectoryInvariance, PTL DEF DirectorySpec, WholeSyncsAgree
=============================================================================
