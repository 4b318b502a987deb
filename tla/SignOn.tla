------------------------------- MODULE SignOn -------------------------------
(* Signing on through an identity provider (sso.py): the pending states in   *)
(* the database, the sessions whose provider tokens are kept for renewal     *)
(* (idp_session_service.py), and the row of user_sessions a user's role is   *)
(* read from.  A handler is atomic between its awaits: it gives way only     *)
(* while the provider answers, so each is one action up to its call and one  *)
(* after the answer.  A token of a session is named by the session.          *)
EXTENDS Naturals, Sequences

CONSTANTS
  IdpUsers,
  Visits,       \* requests that may be waiting for the provider at a time
  MaxSso,       \* bounds of the instance: logins begun,
  MaxSessions,  \* session tokens issued,
  MaxSsoFaults, \* logins and renewals that meet a failure or a crash,
  Rotating      \* the logins at a provider that rotates refresh tokens

ASSUME SignOnAssumption == MaxSso \in Nat /\ MaxSessions \in Nat

VARIABLES
  pending,      \* pending_oauth_states, by number
  admitted,     \* how often the code of each login was sent for exchange
  visit,        \* what each request waits for
  session,      \* the session tokens issued, with the idp_sessions row of each
  minted,       \* the last session issued
  userRows,     \* the unrevoked rows of user_sessions of each user
  current,      \* the refresh token each provider session (by login) accepts
  ssoFaults,
  lostAnswers   \* logins whose new refresh token never arrived

svars == <<pending, admitted, visit, session, minted, userRows, current,
           ssoFaults, lostAnswers>>

SsoStates == 1..MaxSso
IdpSessions  == 1..MaxSessions
IdleVisit == [pc |-> "idle", state |-> 0, session |-> 0, user |-> "none", token |-> 0]
(* left: the session was renewed, and could not be revoked afterwards. *)
NoIdpSession == [user |-> "none", age |-> "none", login |-> 0, token |-> 0,
              stored |-> "none", left |-> FALSE]

SignOnInit ==
  /\ pending = [x \in SsoStates |-> "unissued"]
  /\ admitted = [x \in SsoStates |-> 0]
  /\ visit = [v \in Visits |-> IdleVisit]
  /\ session = [s \in IdpSessions |-> NoIdpSession]
  /\ minted = 0
  /\ userRows = [u \in IdpUsers |-> <<>>]
  /\ current = [x \in SsoStates |-> 1]
  /\ ssoFaults = 0
  /\ lostAnswers = {}

-----------------------------------------------------------------------------
(* sso_authorize: the state is stored, whatever expired is swept out, and    *)
(* the state is taken back when the provider cannot be reached.              *)
Authorize(x, reached) ==
  /\ pending[x] = "unissued"
  /\ pending' = [y \in SsoStates |->
                  IF y = x THEN IF reached THEN "open" ELSE "withdrawn"
                  ELSE IF pending[y] = "stale" THEN "gone" ELSE pending[y]]
  /\ UNCHANGED <<admitted, visit, session, minted, userRows, current, ssoFaults, lostAnswers>>

(* What sso_callback does with the row of its state: gone at once, whether   *)
(* it is late or about to be used.                                           *)
LeftOfKept(x) == IF pending[x] = "stale" THEN "gone" ELSE pending[x]
LeftOf(x) == "gone"

(* sso_callback up to the exchange: only a fresh state of the same provider  *)
(* goes on.                                                                  *)
Callback(v, x, sameIdp) ==
  /\ visit[v] = IdleVisit
  /\ pending[x] \in {"open", "stale"}
  /\ pending' = [pending EXCEPT ![x] = LeftOf(x)]
  /\ IF pending[x] = "open" /\ sameIdp
     THEN /\ visit' = [visit EXCEPT ![v] = [IdleVisit EXCEPT !.pc = "exchange", !.state = x]]
          /\ admitted' = [admitted EXCEPT ![x] = @ + 1]
     ELSE UNCHANGED <<visit, admitted>>
  /\ UNCHANGED <<session, minted, userRows, current, ssoFaults, lostAnswers>>

(* The user's row: the first unrevoked one is taken over, or a row is added. *)
RowUpdated(u, s) ==
  IF userRows[u] = <<>> THEN <<s>> ELSE [userRows[u] EXCEPT ![1] = s]

(* What may go wrong once the provider has answered, each after the commit   *)
(* of the user's row: IdPSessionService.store fails, which is only logged; a  *)
(* revocation fails, which is only logged; the process dies, and the token    *)
(* reaches nobody.                                                           *)
Meets(failure) ==
  IF failure THEN ssoFaults < MaxSsoFaults /\ ssoFaults' = ssoFaults + 1
             ELSE UNCHANGED ssoFaults

NewSession(u, login, token, kept, answered) ==
  [NoIdpSession EXCEPT !.user = u, !.login = login, !.token = token,
                       !.age = IF answered THEN "valid" ELSE "over",
                       !.stored = IF kept THEN "live" ELSE "none"]

(* sso_callback once the provider answered: a token, the user's row, and the *)
(* provider's refresh token if it gave one and storing it works.             *)
FinishLogin(v, u, offline, kept, answered) ==
  /\ visit[v].pc = "exchange"
  /\ kept => offline
  /\ Meets((offline /\ ~kept) \/ ~answered)
  /\ minted < MaxSessions
  /\ minted' = minted + 1
  /\ session' = [session EXCEPT ![minted + 1] =
                   NewSession(u, visit[v].state, 1, kept, answered)]
  /\ userRows' = [userRows EXCEPT ![u] = RowUpdated(u, minted + 1)]
  /\ visit' = [visit EXCEPT ![v] = IdleVisit]
  /\ UNCHANGED <<pending, admitted, current, lostAnswers>>

(* The exchange, the renewal or the check of the answer fails, or the process *)
(* dies before it commits anything; a renewal the provider made already is   *)
(* then lost.                                                                *)
FailVisit(v) ==
  /\ visit[v].pc # "idle"
  /\ IF visit[v].pc = "renew"
     THEN /\ ssoFaults < MaxSsoFaults /\ ssoFaults' = ssoFaults + 1
          /\ lostAnswers' = lostAnswers \union {visit[v].state}
     ELSE UNCHANGED <<ssoFaults, lostAnswers>>
  /\ visit' = [visit EXCEPT ![v] = IdleVisit]
  /\ UNCHANGED <<pending, admitted, session, minted, userRows, current>>

-----------------------------------------------------------------------------
(* sso_refresh up to the provider: a token valid or within its grace, and a  *)
(* stored session that is not revoked.                                       *)
BeginRefresh(v, s) ==
  /\ visit[v] = IdleVisit
  /\ session[s].age \in {"valid", "grace"}
  /\ session[s].stored = "live"
  /\ visit' = [visit EXCEPT ![v] =
       [pc |-> "refresh", state |-> session[s].login, session |-> s,
        user |-> session[s].user, token |-> session[s].token]]
  /\ UNCHANGED <<pending, admitted, session, minted, userRows, current, ssoFaults, lostAnswers>>

(* The provider takes only its current refresh token.  One that does not     *)
(* rotate returns none, and the providers of this code then keep the old one. *)
ProviderRefresh(v) ==
  LET x == visit[v].state
      next == IF x \in Rotating THEN current[x] + 1 ELSE current[x] IN
  /\ visit[v].pc = "refresh"
  /\ visit[v].token = current[x]
  /\ current' = [current EXCEPT ![x] = next]
  /\ visit' = [visit EXCEPT ![v].pc = "renew", ![v].token = next]
  /\ UNCHANGED <<pending, admitted, session, minted, userRows, ssoFaults, lostAnswers>>

(* The idp_sessions row of the session that was renewed. *)
OldSessionKept(s) == session[s]
OldSession(s)     == [session[s] EXCEPT !.stored = "revoked"]

(* sso_refresh after the answer: the user's row, a new session with the new  *)
(* tokens, then the old session is revoked; both may fail, and the process   *)
(* may die before, between or after them.                                    *)
FinishRefresh(v, kept, revoked, answered) ==
  LET s == visit[v].session
      u == visit[v].user IN
  /\ visit[v].pc = "renew"
  /\ Meets(~(kept /\ revoked /\ answered))
  /\ minted < MaxSessions
  /\ minted' = minted + 1
  /\ session' = [session EXCEPT
       ![minted + 1] = NewSession(u, visit[v].state, visit[v].token, kept, answered),
       ![s] = IF revoked THEN OldSession(s) ELSE [@ EXCEPT !.left = TRUE]]
  /\ userRows' = [userRows EXCEPT
       ![u] = IF @ = <<>> THEN @ ELSE [@ EXCEPT ![1] = minted + 1]]
  /\ visit' = [visit EXCEPT ![v] = IdleVisit]
  /\ UNCHANGED <<pending, admitted, current, lostAnswers>>

(* sso_logout: the stored provider session is revoked.  The token and the    *)
(* user's row stay.                                                          *)
Logout(s) ==
  /\ session[s].age = "valid"
  /\ session[s].stored = "live"
  /\ session' = [session EXCEPT ![s].stored = "revoked"]
  /\ UNCHANGED <<pending, admitted, visit, minted, userRows, current, ssoFaults, lostAnswers>>

(* auth_refresh: a token valid or within its grace is issued anew with the   *)
(* same session, without the provider.                                       *)
AuthRefresh(s) ==
  /\ session[s].age = "grace"
  /\ session' = [session EXCEPT ![s].age = "valid"]
  /\ UNCHANGED <<pending, admitted, visit, minted, userRows, current, ssoFaults, lostAnswers>>

(* Five minutes pass for a state; a day for a token, then its hour of grace. *)
SsoTimePasses ==
  \/ \E x \in SsoStates :
       /\ pending[x] = "open"
       /\ pending' = [pending EXCEPT ![x] = "stale"]
       /\ UNCHANGED session
  \/ \E s \in IdpSessions :
       /\ session[s].age \in {"valid", "grace"}
       /\ session' = [session EXCEPT ![s].age = IF @ = "valid" THEN "grace" ELSE "over"]
       /\ UNCHANGED pending

SignOnNext ==
  \/ \E x \in SsoStates, reached \in BOOLEAN : Authorize(x, reached)
  \/ \E v \in Visits, x \in SsoStates, sameIdp \in BOOLEAN : Callback(v, x, sameIdp)
  \/ \E v \in Visits, u \in IdpUsers, offline, kept, answered \in BOOLEAN :
       FinishLogin(v, u, offline, kept, answered)
  \/ \E v \in Visits : FailVisit(v) \/ ProviderRefresh(v)
  \/ \E v \in Visits, s \in IdpSessions : BeginRefresh(v, s)
  \/ \E v \in Visits, kept, revoked, answered \in BOOLEAN :
       FinishRefresh(v, kept, revoked, answered)
  \/ \E s \in IdpSessions : Logout(s) \/ AuthRefresh(s)
  \/ SsoTimePasses /\ UNCHANGED <<admitted, visit, minted, userRows, current, ssoFaults, lostAnswers>>

SignOnSpec == SignOnInit /\ [][SignOnNext]_svars

-----------------------------------------------------------------------------
StateLife(x) ==
  CASE admitted[x] > 1 -> "twice"
    [] admitted[x] = 1 -> "used"
    [] pending[x] \in {"unissued", "withdrawn"} -> "unissued"
    [] pending[x] = "open" -> "open"
    [] OTHER -> "gone"

SsoOnce ==
  INSTANCE OneShot WITH Secrets <- SsoStates, life <- [x \in SsoStates |-> StateLife(x)]

(* "Validate & consume state (one-time use)": however callbacks, expiry and  *)
(* the sweep interleave, a login's state lets one exchange through, and only *)
(* while it is fresh.                                                        *)
SsoStatesAreSingleUse == SsoOnce!Spec

(* A stored session that can still be used holds the refresh token its       *)
(* provider takes, or its own renewal is under way: but for a lost answer,   *)
(* and for a session that a failure or a crash kept from being revoked after *)
(* its renewal, no rotation leaves one behind that looks alive and cannot be *)
(* renewed, however renewals, logouts and failed writes interleave.          *)
StoredTokenIsCurrent ==
  \A s \in IdpSessions :
    session[s].stored = "live" /\ ~session[s].left =>
      \/ session[s].token = current[session[s].login]
      \/ session[s].login \in lostAnswers
      \/ \E v \in Visits : visit[v].pc = "renew" /\ visit[v].session = s

(* However logins and renewals of a user overlap, one row of user_sessions   *)
(* speaks for the user: the row a change of role writes is the row           *)
(* require_admin reads.                                                      *)
OneRowPerUser == \A u \in IdpUsers : Len(userRows[u]) <= 1
=============================================================================
