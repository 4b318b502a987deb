----------------------------- MODULE SdkClient -----------------------------
(* One client object of the SDK, which programs use for several agents: it   *)
(* keeps one access token and its expiry, asks for another by challenge and  *)
(* response, and answers "insufficient_scope" by asking again.               *)
EXTENDS Naturals

CONSTANTS
  SdkAgents,
  SdkTTL,      \* of the control plane's tokens, no less than SdkMargin
  SdkMargin,   \* a token is renewed this long before it expires
  MaxStepUps,  \* _max_step_up_retries
  MaxSdkTime   \* bound of the instance

VARIABLES
  sdkToken,     \* _access_token, whose it is, and _token_expires_at
  stepUps,      \* _step_up_retry_count
  sdkCall,      \* the call in progress: for whom, of what kind, as whom
  deactivated,  \* agents the control plane refuses
  sdkTime

sdkvars == <<sdkToken, stepUps, sdkCall, deactivated, sdkTime>>

NoAccess  == [agent |-> "none", dies |-> 0]
NoSdkCall == [pc |-> "idle", kind |-> "none", agent |-> "none", as |-> "none"]

SdkInit ==
  /\ sdkToken = NoAccess /\ stepUps = 0 /\ sdkCall = NoSdkCall
  /\ deactivated = {} /\ sdkTime = 0

CallAt(pc) == sdkCall.pc = pc

(* A request, a request with step-up, authenticate, and delete_agent: the    *)
(* last two ask for a token whatever is there.                               *)
SdkCalls(kind, a) ==
  /\ CallAt("idle")
  /\ sdkCall' = [NoSdkCall EXCEPT !.kind = kind, !.agent = a,
                   !.pc = IF kind \in {"login", "delete"} THEN "auth" ELSE "token"]
  /\ UNCHANGED <<sdkToken, stepUps, deactivated, sdkTime>>

\* _authenticated_request: the token there is, or the call for another.
SdkUsesToken ==
  /\ CallAt("token")
  /\ IF sdkToken # NoAccess /\ sdkToken.dies > sdkTime + SdkMargin
     THEN sdkCall' = [sdkCall EXCEPT !.pc = "sent", !.as = sdkToken.agent]
     ELSE sdkCall' = [sdkCall EXCEPT !.pc = "auth"]
  /\ UNCHANGED <<sdkToken, stepUps, deactivated, sdkTime>>

(* get_access_token: challenge, signature and token in turn.  What waits for *)
(* a token sends it; a step-up goes round again.                             *)
NewToken == [agent |-> sdkCall.agent, dies |-> sdkTime + SdkTTL]
Authenticated ==
  /\ CallAt("auth") /\ sdkCall.agent \notin deactivated
  /\ sdkToken' = NewToken
  /\ sdkCall' = CASE sdkCall.kind = "login"   -> NoSdkCall
                  [] sdkCall.kind = "again"   -> [sdkCall EXCEPT !.pc = "token", !.kind = "stepup"]
                  [] OTHER -> [sdkCall EXCEPT !.pc = "sent", !.as = sdkCall.agent]
  /\ UNCHANGED <<stepUps, deactivated, sdkTime>>

(* No such agent, no key of it, or no answer: the call raises, and what the  *)
(* client kept stays.                                                        *)
SdkRaises ==
  /\ CallAt("auth") \/ CallAt("sent")
  /\ sdkCall' = NoSdkCall
  /\ UNCHANGED <<sdkToken, stepUps, deactivated, sdkTime>>

SdkAnswers ==
  /\ CallAt("sent")
  /\ sdkCall' = NoSdkCall
  /\ deactivated' = IF sdkCall.kind = "delete" THEN deactivated \cup {sdkCall.agent}
                    ELSE deactivated
  /\ UNCHANGED <<sdkToken, stepUps, sdkTime>>

(* gateway_request_with_step_up, at a 403 that asks for more scopes, and     *)
(* _handle_insufficient_scope: another round while the budget lasts.         *)
CountedNever == stepUps
Counted      == stepUps + 1
InsufficientScope ==
  /\ CallAt("sent") /\ sdkCall.kind = "stepup"
  /\ IF stepUps >= MaxStepUps
     THEN sdkCall' = NoSdkCall /\ UNCHANGED <<sdkToken, stepUps>>
     ELSE /\ stepUps' = Counted
          /\ sdkToken' = NoAccess
          /\ sdkCall' = [sdkCall EXCEPT !.pc = "auth", !.kind = "again", !.as = "none"]
  /\ UNCHANGED <<deactivated, sdkTime>>

SdkTick ==
  /\ sdkTime < MaxSdkTime
  /\ sdkTime' = sdkTime + 1
  /\ UNCHANGED <<sdkToken, stepUps, sdkCall, deactivated>>

SdkGoes == SdkUsesToken \/ Authenticated \/ SdkRaises \/ SdkAnswers \/ InsufficientScope

SdkNext ==
  \/ \E kind \in {"request", "stepup", "login", "delete"}, a \in SdkAgents : SdkCalls(kind, a)
  \/ SdkGoes
  \/ SdkTick

(* A call that is answered goes on, and one that is not times out.           *)
SdkFair == WF_sdkvars(SdkGoes)

SdkSpec == SdkInit /\ [][SdkNext]_sdkvars /\ SdkFair

(* However often the gateway asks for more scopes, every call ends.          *)
StepUpEnds == ~CallAt("idle") ~> CallAt("idle")

(* A request carries the token of the agent it was made for: _authenticated_ *)
(* request "ensures the client is authenticated", and callers name the agent *)
(* "making the request".                                                     *)
RequestsCarryOwnToken == CallAt("sent") => sdkCall.as = sdkCall.agent
=============================================================================
