----------------------------- MODULE LocalProxy -----------------------------
(* The proxy between a program's standard input and output and the gateway:  *)
(* one message at a time, under a token it keeps and renews.  It runs for    *)
(* one delegation or none: the rotator's rotate is called by nobody.         *)
EXTENDS Naturals

CONSTANTS
  ProxyTTL,   \* of a discovery or delegation token
  RefreshMargin,     \* refresh_margin
  ProxyLatency,    \* no call takes longer, a bootstrap with the delegations it fetches
  MaxProxyTime, MaxRevocations   \* bounds of the instance

ASSUME LocalProxyAssumption ==
  /\ ProxyTTL \in Nat /\ RefreshMargin \in Nat /\ ProxyLatency \in Nat
  /\ 2 * ProxyLatency <= RefreshMargin /\ 2 * ProxyLatency < ProxyTTL

VARIABLES
  target,      \* whether calls are made for a delegation
  discovery,   \* _discovery_jwt and _discovery_expires_at
  scoped,      \* _delegation_jwt and _delegation_expires_at
  line,        \* the message being forwarded
  running,     \* run has not ended
  excused,     \* it had a reason to: no more input, or a refusal
  valid,       \* the number of the session whose tokens the gateway takes
  proxyTime

pvars == <<target, discovery, scoped, line, running, excused, valid, proxyTime>>

NoJwt  == [of |-> 0, dies |-> 0, expiresAt |-> 0]
NoLine == [kind |-> "none", pc |-> "idle", again |-> FALSE, since |-> 0, jwt |-> NoJwt]

ProxyInit ==
  /\ target \in BOOLEAN
  /\ discovery = NoJwt /\ scoped = NoJwt
  /\ line = [NoLine EXCEPT !.kind = "start", !.pc = "token"]
  /\ running = TRUE /\ excused = FALSE
  /\ valid = 1 /\ proxyTime = 0

\* _discovery_valid, _delegation_valid
UsableJwtToTheEnd(jwt) == jwt # NoJwt /\ proxyTime < jwt.expiresAt
UsableJwt(jwt)         == jwt # NoJwt /\ proxyTime + RefreshMargin < jwt.expiresAt

LineAt(pc) == running /\ line.pc = pc
LineGoes(pc) == line' = [line EXCEPT !.pc = pc, !.since = proxyTime]
ProxyStops == running' = FALSE /\ excused' = TRUE /\ line' = NoLine

\* run: a line of input, or its end.
ReadLine(kind) ==
  /\ LineAt("idle")
  /\ line' = [NoLine EXCEPT !.kind = kind, !.pc = "token"]
  /\ UNCHANGED <<target, discovery, scoped, running, excused, valid, proxyTime>>
EndOfInput ==
  /\ LineAt("idle") /\ ProxyStops
  /\ UNCHANGED <<target, discovery, scoped, valid, proxyTime>>

(* _get_current_jwt: the delegation's token, or the discovery token, or the  *)
(* call that has to be made for it first.                                    *)
ForDelegation == target /\ line.kind # "start"
LineSent(jwt) == line' = [line EXCEPT !.pc = "sent", !.since = proxyTime, !.jwt = jwt]
GetCurrentJwt ==
  /\ LineAt("token")
  /\ IF ForDelegation /\ UsableJwt(scoped) THEN LineSent(scoped)
     ELSE IF ~UsableJwt(discovery) THEN LineGoes("boot")
     ELSE IF ForDelegation THEN LineGoes("exchange")
     ELSE LineSent(discovery)
  /\ UNCHANGED <<target, discovery, scoped, running, excused, valid, proxyTime>>

(* The control plane answers a bootstrap, or an exchange under a discovery   *)
(* token that is alive, with a token that lives from now on; or refuses, and *)
(* the exception ends run.                                                   *)
JwtGranted ==
  /\ \/ LineAt("boot")
     \/ LineAt("exchange") /\ proxyTime < discovery.dies
  /\ line' = [line EXCEPT !.pc = IF line.pc = "boot" THEN "booted" ELSE "exchanged",
                          !.jwt = [of |-> valid, dies |-> proxyTime + ProxyTTL, expiresAt |-> 0]]
  /\ UNCHANGED <<target, discovery, scoped, running, excused, valid, proxyTime>>
ProxyFails ==
  /\ LineAt("boot") \/ LineAt("exchange") \/ LineAt("sent")
  /\ ProxyStops
  /\ UNCHANGED <<target, discovery, scoped, valid, proxyTime>>

\* ensure_discovery_jwt and get_delegation_jwt, with the answer.
ExpiryReckoned == [line.jwt EXCEPT !.expiresAt = proxyTime + ProxyTTL]
DiscoveryJwtArrives ==
  /\ LineAt("booted")
  /\ discovery' = ExpiryReckoned
  /\ IF line.kind = "start" THEN line' = NoLine
     ELSE IF target THEN LineGoes("exchange")
     ELSE LineSent(ExpiryReckoned)
  /\ UNCHANGED <<target, scoped, running, excused, valid, proxyTime>>
DelegationJwtArrives ==
  /\ LineAt("exchanged")
  /\ scoped' = ExpiryReckoned
  /\ LineSent(ExpiryReckoned)
  /\ UNCHANGED <<target, discovery, running, excused, valid, proxyTime>>

(* The gateway takes a token of the session in force until it dies, answers  *)
(* a request with JSON and a notification with 202 and nothing; any other    *)
(* token it answers with 401.                                                *)
GatewayAnswers ==
  /\ LineAt("sent")
  /\ LineGoes(IF line.jwt.of # valid \/ proxyTime >= line.jwt.dies THEN "401"
          ELSE IF line.kind = "request" THEN "200" ELSE "202")
  /\ UNCHANGED <<target, discovery, scoped, running, excused, valid, proxyTime>>

\* _forward: one retry under new tokens, then the answer is read as JSON.
RetryOnce ==
  /\ LineAt("401") /\ ~line.again
  /\ discovery' = NoJwt /\ scoped' = NoJwt
  /\ line' = [NoLine EXCEPT !.kind = line.kind, !.pc = "token", !.again = TRUE]
  /\ UNCHANGED <<target, running, excused, valid, proxyTime>>
WriteAnswer ==
  /\ LineAt("200") \/ (LineAt("401") /\ line.again)
  /\ line' = NoLine
  /\ UNCHANGED <<target, discovery, scoped, running, excused, valid, proxyTime>>
NoJson ==
  /\ LineAt("202")
  /\ running' = FALSE /\ line' = NoLine
  /\ UNCHANGED <<target, discovery, scoped, excused, valid, proxyTime>>

(* An administrator revokes the session; bootstrapping opens another. *)
RevokeSession ==
  /\ running /\ valid <= MaxRevocations
  /\ valid' = valid + 1
  /\ UNCHANGED <<target, discovery, scoped, line, running, excused, proxyTime>>

ProxyTick ==
  /\ running /\ proxyTime < MaxProxyTime
  /\ line.pc \in {"boot", "booted", "exchange", "exchanged", "sent"} =>
       proxyTime < line.since + ProxyLatency
  /\ line.pc \in {"idle", "boot", "booted", "exchange", "exchanged", "sent"}
  /\ proxyTime' = proxyTime + 1
  /\ UNCHANGED <<target, discovery, scoped, line, running, excused, valid>>

ProxyNext ==
  \/ \E kind \in {"request", "notification"} : ReadLine(kind)
  \/ EndOfInput
  \/ GetCurrentJwt
  \/ JwtGranted
  \/ ProxyFails
  \/ DiscoveryJwtArrives
  \/ DelegationJwtArrives
  \/ GatewayAnswers
  \/ RetryOnce
  \/ WriteAnswer
  \/ NoJson
  \/ RevokeSession
  \/ ProxyTick

ProxySpec == ProxyInit /\ [][ProxyNext]_pvars

(* "A tool call never hits the gateway with a stale token", nor an exchange  *)
(* the control plane: whenever a call is under way, the token it carries has *)
(* not expired, though its expiry was reckoned from when it arrived and the  *)
(* call takes time as well.                                                  *)
SentTokensAreLive ==
  /\ LineAt("sent") => proxyTime < line.jwt.dies
  /\ LineAt("exchange") => proxyTime < discovery.dies

(* The proxy serves "long-running sessions": it ends with its input, or when *)
(* it is refused a token, and not because of a message the gateway accepted. *)
RunsWithItsInput == ~running => excused
=============================================================================
