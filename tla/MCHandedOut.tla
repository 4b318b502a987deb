----------------------------- MODULE MCHandedOut -----------------------------
(* Instances for TLC of what is handed out: tokens to agents that answer a   *)
(* challenge and to users who sign on, keys to agents that enrol, and to     *)
(* requests OAuth credentials and secrets of two shares; and the directory   *)
(* of users.  These share no state in the code, and each is explored by      *)
(* itself: a behaviour is one of the part its initial state names.           *)
EXTENDS Credentials, SplitKey, Enrolment, AgentLogin, SignOn, Directory, TLC

VARIABLE part

ovars == <<vars, kvars, evars, lvars, svars, dvars, part>>

(* Every part counts its requests with the same two values, and its users or *)
(* agents with another two, so that one small group of symmetries serves all. *)
Symmetry == Permutations(Users) \cup Permutations(Sessions) \cup Permutations(Requests)

MCPages == <<{"group"}, {"user1"}, {"user2"}>>

MCSelectorOf == [t \in Tokens |-> "s1"]

(* Enrolment has two parts of its own: the bootstraps and what they count    *)
(* against, and the registrations and policies.  Users begin two logins and  *)
(* open two sessions, or one and three.                                      *)
Begun == {x \in SsoStates : pending[x] # "unissued"}
InPart ==
  /\ part = "users" => minted + Cardinality(Begun) <= 4
  /\ part = "registration" => \A t \in Tokens : shown[t] = 0
  /\ part = "bootstrap" => created = 0 /\ edited = {}

HandedOutInit ==
  /\ Init /\ SplitKeyInit /\ EnrolInit /\ LoginInit /\ SignOnInit /\ DirectoryInit
  /\ part \in {"credentials", "shares", "registration", "bootstrap", "agents", "users", "directory"}
  /\ IF part = "directory" THEN {"group", "user1"} \subseteq listed
     ELSE listed = {} /\ \A e \in Entries : directory[e] = 0

HandedOutNext ==
  /\ UNCHANGED part
  /\ \/ part = "credentials" /\ Next /\ UNCHANGED <<kvars, evars, lvars, svars, dvars>>
     \/ part = "shares" /\ SplitKeyNext /\ UNCHANGED <<vars, evars, lvars, svars, dvars>>
     \/ part \in {"registration", "bootstrap"} /\ EnrolNext
        /\ UNCHANGED <<vars, kvars, lvars, svars, dvars>>
     \/ part = "agents" /\ LoginNext /\ UNCHANGED <<vars, kvars, evars, svars, dvars>>
     \/ part = "users" /\ SignOnNext /\ UNCHANGED <<vars, kvars, evars, lvars, dvars>>
     \/ part = "directory" /\ DirectoryNext /\ UNCHANGED <<vars, kvars, evars, lvars, svars>>
  /\ InPart'

HandedOutSpec == HandedOutInit /\ [][HandedOutNext]_ovars
=============================================================================
