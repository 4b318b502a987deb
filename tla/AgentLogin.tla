----------------------------- MODULE AgentLogin -----------------------------
(* How an agent shows that it holds its key: the challenge of agent_auth,    *)
(* kept in a dictionary of the process with one entry per agent, and the     *)
(* nonce of auth, kept in the database, any number of them per agent.  The   *)
(* handlers of the first run on the event loop, those of the second in       *)
(* threads, one database statement at a time.                                *)
EXTENDS Naturals

CONSTANTS
  Agents,
  Logins,         \* requests presenting a nonce
  MaxChallenges,  \* bounds of the instance: challenges and nonces ever made,
  MaxLoginRestarts

ASSUME LoginAssumption == MaxChallenges \in Nat

VARIABLES
  challenge,   \* _pending_challenges: the entry of each agent
  nonces,      \* the rows of nonces
  login,       \* the requests presenting a nonce
  made,        \* the last challenge or nonce made
  proved,      \* how often each was accepted with a good signature
  heldTwice,   \* nonces that a request found while another one held them
  loginRestarts

lvars == <<challenge, nonces, login, made, proved, heldTwice, loginRestarts>>

Challenges  == 1..MaxChallenges
NoChallenge == [id |-> 0, life |-> "none"]
NoNonce     == [agent |-> "none", life |-> "none"]
NoLogin     == [agent |-> "none", id |-> 0, pc |-> "idle"]

LoginInit ==
  /\ challenge = [a \in Agents |-> NoChallenge]
  /\ nonces = [x \in Challenges |-> NoNonce]
  /\ login = [l \in Logins |-> NoLogin]
  /\ made = 0
  /\ proved = [x \in Challenges |-> 0]
  /\ heldTwice = {}
  /\ loginRestarts = 0

Accepted(x) == proved' = [proved EXCEPT ![x] = @ + 1]

(* create_challenge: the agent's entry is overwritten. *)
CreateChallenge(a) ==
  /\ made < MaxChallenges
  /\ made' = made + 1
  /\ challenge' = [challenge EXCEPT ![a] = [id |-> made + 1, life |-> "fresh"]]
  /\ UNCHANGED <<nonces, login, proved, heldTwice, loginRestarts>>

(* verify_and_create_session.  An answer that is late removes the entry; one *)
(* to another challenge, or with a bad signature, leaves it for another try. *)
VerifyKept(a, x, good) ==
  /\ x <= made
  /\ challenge[a].life = "fresh" /\ challenge[a].id = x /\ good
  /\ Accepted(x)
  /\ UNCHANGED <<challenge, nonces, login, made, heldTwice, loginRestarts>>
Verify(a, x, good) ==
  /\ challenge[a] # NoChallenge
  /\ x <= made
  /\ \/ /\ challenge[a].life = "late"
        /\ challenge' = [challenge EXCEPT ![a] = NoChallenge]
        /\ UNCHANGED proved
     \/ /\ challenge[a].life = "fresh" /\ challenge[a].id = x /\ good
        /\ challenge' = [challenge EXCEPT ![a] = NoChallenge]
        /\ Accepted(x)
  /\ UNCHANGED <<nonces, login, made, heldTwice, loginRestarts>>

(* create_for_agent: a row of its own for each nonce. *)
RequestNonce(a) ==
  /\ made < MaxChallenges
  /\ made' = made + 1
  /\ nonces' = [nonces EXCEPT ![made + 1] = [agent |-> a, life |-> "fresh"]]
  /\ UNCHANGED <<challenge, login, proved, heldTwice, loginRestarts>>

(* get_and_delete, its query: an unexpired row of that agent. *)
FindNonce(l, a, x) ==
  /\ login[l] = NoLogin
  /\ nonces[x] = [agent |-> a, life |-> "fresh"]
  /\ login' = [login EXCEPT ![l] = [agent |-> a, id |-> x, pc |-> "delete"]]
  /\ heldTwice' = IF \E m \in Logins : login[m].id = x THEN heldTwice \cup {x} ELSE heldTwice
  /\ UNCHANGED <<challenge, nonces, made, proved, loginRestarts>>

(* get_and_delete, its deletion: whether a row was still there is not asked. *)
DeleteNonce(l) ==
  /\ login[l].pc = "delete"
  /\ nonces' = [nonces EXCEPT ![login[l].id].life = "spent"]
  /\ login' = [login EXCEPT ![l].pc = "check"]
  /\ UNCHANGED <<challenge, made, proved, heldTwice, loginRestarts>>

(* login_for_access_token, after the nonce: the signature. *)
CheckSignature(l, good) ==
  /\ login[l].pc = "check"
  /\ IF good THEN Accepted(login[l].id) ELSE UNCHANGED proved
  /\ login' = [login EXCEPT ![l] = NoLogin]
  /\ UNCHANGED <<challenge, nonces, made, heldTwice, loginRestarts>>

(* Five minutes pass. *)
LoginTimeout ==
  \/ \E a \in Agents :
       /\ challenge[a].life = "fresh"
       /\ challenge' = [challenge EXCEPT ![a].life = "late"]
       /\ UNCHANGED nonces
  \/ \E x \in Challenges :
       /\ nonces[x].life = "fresh"
       /\ nonces' = [nonces EXCEPT ![x].life = "late"]
       /\ UNCHANGED challenge

(* The dictionary dies with the process, the rows stay. *)
LoginRestart ==
  /\ loginRestarts < MaxLoginRestarts
  /\ loginRestarts' = loginRestarts + 1
  /\ challenge' = [a \in Agents |-> NoChallenge]
  /\ login' = [l \in Logins |-> NoLogin]
  /\ UNCHANGED <<nonces, made, proved, heldTwice>>

LoginNext ==
  \/ \E a \in Agents : CreateChallenge(a) \/ RequestNonce(a)
  \/ \E a \in Agents, x \in Challenges, good \in BOOLEAN : Verify(a, x, good)
  \/ \E l \in Logins, a \in Agents, x \in Challenges : FindNonce(l, a, x)
  \/ \E l \in Logins : DeleteNonce(l)
  \/ \E l \in Logins, good \in BOOLEAN : CheckSignature(l, good)
  \/ LoginTimeout /\ UNCHANGED <<login, made, proved, heldTwice, loginRestarts>>
  \/ LoginRestart

LoginSpec == LoginInit /\ [][LoginNext]_lvars

-----------------------------------------------------------------------------
(* A challenge is open while its entry is fresh; a nonce is open until a     *)
(* request that found it fresh is over, and is not judged once two held it.  *)
ChallengeLife(x) ==
  IF x \in heldTwice THEN "gone"
  ELSE CASE proved[x] > 1 -> "twice"
         [] proved[x] = 1 -> "used"
         [] x > made -> "unissued"
         [] \E a \in Agents : challenge[a] = [id |-> x, life |-> "fresh"] -> "open"
         [] nonces[x].life = "fresh" -> "open"
         [] \E l \in Logins : login[l].id = x -> "open"
         [] OTHER -> "gone"

LoginOnce ==
  INSTANCE OneShot WITH Secrets <- Challenges, life <- [x \in Challenges |-> ChallengeLife(x)]

(* A challenge is accepted at most once, never after it lapsed or was        *)
(* replaced: what OneShot says.  So is a nonce, however requests presenting  *)
(* others interleave with it, unless a second request found it before the    *)
(* first had deleted it: that is the one way in which the code accepts a     *)
(* nonce twice.                                                              *)
ChallengesAreSingleUse == LoginOnce!Spec
=============================================================================
