---------------------------- MODULE MCOAuthVault ----------------------------
(* Instances of OAuthVault for TLC.  Four parts, chosen in the initial       *)
(* state, share one run: what requests that store tokens do to one another;  *)
(* what refreshes do to one another and to one such request; the in-process  *)
(* timers of one token with everything that refreshes it; and the one token  *)
(* of a service that no provider refreshes.                                  *)
EXTENDS OAuthVault

CONSTANT First   \* the writer that every part has

VARIABLE part

MCGrants == {[rt |-> 1, age |-> "fresh"], [rt |-> 0, age |-> "fresh"]}

OneWriter == \A w \in Writers \ {First} : writer[w] = NoWriter
NoRefresh == /\ \A q \in Requests : call[q] = NoCall
             /\ \A r \in Refs : vault[r].age \notin {"due", "expired", "dead"}

Only(served) ==
  \A s \in Services \ served :
    /\ ~rotates[s] /\ conn[s] = NoConn
    /\ \A x \in States : pending[x].svc # s
    /\ \A w \in Writers : writer[w].svc # s

AllRefreshable == \A r \in Refs : Stored(r) => vault[r].rt # 0

\* An answer without an expiry meets no lost answer and no restart here.
OneTrouble == undated = {} \/ faults + restarts = 0

InPart ==
  /\ Only(IF part = "unsupported" THEN Services \ Supported ELSE Supported)
  /\ \/ part = "storing" /\ backend = "cloud" /\ NoRefresh
     \/ /\ part = "refreshing" /\ backend = "cloud" /\ issued <= 2
        /\ OneWriter /\ AllRefreshable /\ OneTrouble
     \/ part = "timers" /\ backend = "local" /\ issued <= 1 /\ OneWriter /\ AllRefreshable
     \/ part = "unsupported" /\ issued <= 1 /\ OneWriter

mcvars == <<vvars, part>>

MCVaultInit == VaultInit /\ part \in {"storing", "refreshing", "timers", "unsupported"} /\ InPart
MCVaultNext == VaultNext /\ UNCHANGED part /\ InPart'
MCVaultSpec == MCVaultInit /\ [][MCVaultNext]_mcvars /\ VaultFairness
=============================================================================
