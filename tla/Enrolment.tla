----------------------------- MODULE Enrolment ------------------------------
(* How agents come to exist: registration in two transactions (agents.py),   *)
(* attestation policies, and the bootstrap of an agent by the identity its   *)
(* platform vouches for (bootstrap_service.py), behind a rate limit, a       *)
(* replay detector (security_validators.py) and a circuit breaker            *)
(* (retry_utils.py).  Every request runs in a thread of its own, one         *)
(* transaction, lock or call at a time.                                      *)
EXTENDS Naturals, FiniteSets

CONSTANTS
  Selectors,    \* platform identities
  Tokens,       \* service account tokens of Kubernetes
  SelectorOf,   \* the identity each of them proves
  Enrols,       \* requests under way at a time
  MaxAttempts,  \* RateLimiter.max_attempts
  Threshold,    \* CircuitBreaker.failure_threshold
  PolicyLimit,  \* policies that one lookup reads
  MaxAgents     \* bound of the instance: agents ever created

ASSUME EnrolmentAssumption ==
  /\ SelectorOf \in [Tokens -> Selectors] /\ "none" \notin Selectors
  /\ Threshold \in Nat \ {0} /\ MaxAgents \in Nat

VARIABLES
  agentRow,    \* agents, by number
  created,     \* the last agent made
  policyOf,    \* attestation_policies: the agent each selector's policy names
  edited,      \* selectors whose policy was changed by hand
  enrol,       \* the requests
  confirmed,   \* agents whose registration succeeded
  seen,        \* used_tokens: the tokens of the last five minutes
  shown,       \* how many requests presented each token, 2 for any more
  unseen,      \* tokens refused as replayed that no other request presented
  attempts,    \* attempts of the last five minutes, of one client
  breaker      \* the circuit breaker around Kubernetes' validation

rows     == <<agentRow, created, policyOf, edited, confirmed>>
counters == <<seen, shown, unseen, attempts, breaker>>
evars    == <<rows, enrol, counters>>

AgentNos == 1..MaxAgents
NoRow    == [selector |-> "none", life |-> "none"]
NoEnrol  == [pc |-> "idle", selector |-> "none", agent |-> 0, token |-> "none"]

EnrolInit ==
  /\ agentRow = [i \in AgentNos |-> NoRow]
  /\ created = 0
  /\ policyOf = [s \in Selectors |-> 0]
  /\ edited = {}
  /\ enrol = [q \in Enrols |-> NoEnrol]
  /\ confirmed = {}
  /\ seen = {}
  /\ shown = [t \in Tokens |-> 0]
  /\ unseen = {}
  /\ attempts = 0
  /\ breaker = [state |-> "closed", failures |-> 0, recent |-> FALSE]

Rows(s) == {i \in AgentNos : agentRow[i] = [selector |-> s, life |-> "live"]}

(* A row of agents; a selector is unique among them. *)
AddAgent(s) ==
  /\ created < MaxAgents
  /\ s # "none" => Rows(s) = {}
  /\ created' = created + 1
  /\ agentRow' = [agentRow EXCEPT ![created + 1] = [selector |-> s, life |-> "live"]]

Becomes(q, pc) == enrol' = [enrol EXCEPT ![q].pc = pc]
Ends(q)        == enrol' = [enrol EXCEPT ![q] = NoEnrol]

-----------------------------------------------------------------------------
(* register_agent with a key: one transaction. *)
RegisterKey ==
  /\ AddAgent("none")
  /\ confirmed' = confirmed \union {created + 1}
  /\ UNCHANGED <<policyOf, edited, enrol, counters>>

(* register_agent of a platform identity: the agent is committed, *)
RegisterPlatform(q, s) ==
  /\ enrol[q] = NoEnrol
  /\ AddAgent(s)
  /\ enrol' = [enrol EXCEPT ![q] = [NoEnrol EXCEPT !.pc = "policy", !.selector = s, !.agent = created + 1]]
  /\ UNCHANGED <<policyOf, edited, confirmed, counters>>

(* then its policy, unless the selector has one: 409, and the agent stays. *)
PolicySkipped(s, i) == policyOf[s]
PolicyFor(s, i)     == IF policyOf[s] = 0 THEN i ELSE policyOf[s]
RegisterPolicy(q) ==
  LET s == enrol[q].selector
      i == enrol[q].agent IN
  /\ enrol[q].pc = "policy"
  /\ policyOf' = [policyOf EXCEPT ![s] = PolicyFor(s, i)]
  /\ IF policyOf[s] = 0
     THEN confirmed' = confirmed \union {i} ELSE UNCHANGED confirmed
  /\ Ends(q)
  /\ UNCHANGED <<agentRow, created, edited, counters>>

(* Writing the policy fails otherwise, or the process dies. *)
RegisterFails(q) ==
  /\ enrol[q].pc = "policy"
  /\ Ends(q)
  /\ UNCHANGED <<rows, counters>>

(* delete_agent: the row goes, the attestation policy stays. *)
DeleteAgentRow(i) ==
  /\ agentRow[i].life = "live"
  /\ agentRow' = [agentRow EXCEPT ![i].life = "deleted"]
  /\ UNCHANGED <<created, policyOf, edited, enrol, confirmed, counters>>

(* attestation_policies.py: a policy is made, moved to another agent or      *)
(* selector, or removed, by hand.                                            *)
EditPolicy(s, t, i) ==
  /\ \/ s = t /\ policyOf' = [policyOf EXCEPT ![s] = i]
     \/ /\ s # t /\ policyOf[s] # 0 /\ policyOf[t] = 0 /\ i # 0
        /\ policyOf' = [policyOf EXCEPT ![s] = 0, ![t] = i]
  /\ edited' = edited \union {s, t}
  /\ UNCHANGED <<agentRow, created, enrol, confirmed, counters>>

-----------------------------------------------------------------------------
(* find_matching_policy reads the first PolicyLimit policies, in no order.   *)
MayFind(s)  == policyOf[s] # 0
MustFind(s) == MayFind(s) /\ Cardinality({t \in Selectors : policyOf[t] # 0}) <= PolicyLimit

(* bootstrap_aws_agent, bootstrap_azure_agent, bootstrap_docker_agent: a good *)
(* token, then the policy, then keys and a new agent.  (bootstrap_gcp_agent   *)
(* opens a session of an agent there is, and changes nothing here.)          *)
BeginBootstrap(q, s) ==
  /\ enrol[q] = NoEnrol
  /\ enrol' = [enrol EXCEPT ![q] = [NoEnrol EXCEPT !.pc = "find", !.selector = s]]
  /\ UNCHANGED <<rows, counters>>

FindPolicy(q) ==
  /\ enrol[q].pc = "find"
  /\ \/ MayFind(enrol[q].selector) /\ Becomes(q, "create")
     \/ ~MustFind(enrol[q].selector) /\ Ends(q)
  /\ UNCHANGED <<rows, counters>>

CreateBootstrapped(q) ==
  /\ enrol[q].pc = "create"
  /\ AddAgent("none")
  /\ Ends(q)
  /\ UNCHANGED <<policyOf, edited, confirmed, counters>>

-----------------------------------------------------------------------------
(* bootstrap_kubernetes_agent: validate_kubernetes_sat behind its breaker.   *)
(* An open one refuses for a minute, then lets everyone through.             *)
BeginKubernetes(q, t) ==
  /\ enrol[q] = NoEnrol
  /\ breaker.state # "open" \/ ~breaker.recent
  /\ breaker' = [breaker EXCEPT !.state = IF @ = "open" THEN "half-open" ELSE @]
  /\ enrol' = [enrol EXCEPT ![q] = [NoEnrol EXCEPT !.pc = "screen", !.token = t, !.selector = SelectorOf[t]]]
  /\ shown' = [shown EXCEPT ![t] = IF @ = 2 THEN 2 ELSE @ + 1]
  /\ UNCHANGED <<rows, seen, unseen, attempts>>

(* validate_token_security: the limit counts the attempt, the detector       *)
(* remembers the token.  It runs before the signature is checked, and again  *)
(* on the claims.                                                            *)
ScreenNext == [screen |-> "verify", claims |-> "passed"]
Screen(q) ==
  LET t == enrol[q].token IN
  /\ enrol[q].pc \in DOMAIN ScreenNext
  /\ IF attempts >= MaxAttempts
     THEN Becomes(q, "failed") /\ UNCHANGED <<attempts, seen, unseen>>
     ELSE /\ attempts' = attempts + 1
          /\ IF t \in seen
             THEN /\ unseen' = IF shown[t] = 1 THEN unseen \union {t} ELSE unseen
                  /\ Becomes(q, "failed")
                  /\ UNCHANGED seen
             ELSE seen' = seen \union {t} /\ Becomes(q, ScreenNext[enrol[q].pc]) /\ UNCHANGED unseen
  /\ UNCHANGED <<rows, shown, breaker>>

(* Google's verification of the token. *)
VerifyToken(q) ==
  /\ enrol[q].pc = "verify"
  /\ Becomes(q, "claims") \/ Becomes(q, "failed")
  /\ UNCHANGED <<rows, counters>>

(* CircuitBreaker.reset on success, *)
BreakerReset(q) ==
  /\ enrol[q].pc = "passed"
  /\ breaker' = [state |-> "closed", failures |-> 0, recent |-> FALSE]
  /\ Becomes(q, "find")
  /\ UNCHANGED <<rows, seen, shown, unseen, attempts>>

(* record_failure on whatever was raised: the count (kept to the threshold   *)
(* here) and the time first,                                                 *)
BreakerCounts(q) ==
  /\ enrol[q].pc = "failed"
  /\ breaker' = [breaker EXCEPT !.failures = IF @ < Threshold THEN @ + 1 ELSE @, !.recent = TRUE]
  /\ Becomes(q, "trip")
  /\ UNCHANGED <<rows, seen, shown, unseen, attempts>>

(* then the state, from the count as it is by then. *)
TripsOver == breaker.failures > Threshold
Trips     == breaker.failures >= Threshold
BreakerTrips(q) ==
  /\ enrol[q].pc = "trip"
  /\ breaker' = [breaker EXCEPT !.state = IF Trips THEN "open" ELSE @]
  /\ Ends(q)
  /\ UNCHANGED <<rows, seen, shown, unseen, attempts>>

(* A token is five minutes old, or the oldest of more than max_entries; five *)
(* minutes pass for the attempts, a minute for the breaker.                  *)
EnrolTimePasses ==
  \/ \E t \in seen :
       /\ seen' = seen \ {t}
       /\ UNCHANGED <<attempts, breaker>>
  \/ attempts # 0 /\ attempts' = 0 /\ UNCHANGED <<seen, breaker>>
  \/ /\ breaker.recent
     /\ breaker' = [breaker EXCEPT !.recent = FALSE]
     /\ UNCHANGED <<seen, attempts>>

EnrolNext ==
  \/ RegisterKey
  \/ \E q \in Enrols, s \in Selectors :
       RegisterPlatform(q, s) \/ BeginBootstrap(q, s)
  \/ \E q \in Enrols :
       \/ RegisterPolicy(q) \/ RegisterFails(q) \/ FindPolicy(q) \/ CreateBootstrapped(q)
       \/ Screen(q) \/ VerifyToken(q) \/ BreakerReset(q) \/ BreakerCounts(q) \/ BreakerTrips(q)
  \/ \E q \in Enrols, t \in Tokens : BeginKubernetes(q, t)
  \/ \E i \in AgentNos : DeleteAgentRow(i)
  \/ \E s, t \in Selectors, i \in 0..created : EditPolicy(s, t, i)
  \/ EnrolTimePasses /\ UNCHANGED <<rows, enrol, shown, unseen>>

EnrolSpec == EnrolInit /\ [][EnrolNext]_evars

-----------------------------------------------------------------------------
(* Although the agent and its policy are written in two transactions, and    *)
(* other registrations, deletions and bootstraps come between: an agent whose *)
(* registration succeeded has the policy it bootstraps by, for as long as    *)
(* nobody changes policies by hand.                                          *)
RegisteredAgentsCanBootstrap ==
  \A i \in confirmed :
    LET s == agentRow[i].selector IN
    agentRow[i].life = "live" /\ s \in Selectors \ edited => policyOf[s] = i

(* However failures and successes of overlapping validations interleave, a   *)
(* breaker that counted its threshold of failures is not closed, unless the  *)
(* request that counted the last is about to open it.                        *)
BreakerTripsAtThreshold ==
  breaker.state = "closed" /\ breaker.failures >= Threshold =>
    \E q \in Enrols : enrol[q].pc = "trip"

(* "Check if a token hash has been used before (replay attack)": a token is  *)
(* refused as replayed only when another request presented it.               *)
FreshTokensAreNotReplays == unseen = {}
=============================================================================
