------------------------------- MODULE OneShot -------------------------------
(* What a single-use secret promises, whatever keeps it: an OAuth state, a  *)
(* login in progress, a challenge, a bootstrap token.  It is handed out once,*)
(* is accepted at most once, and never after it lapsed.  The components that *)
(* keep such secrets are shown to implement this module.                     *)
CONSTANT Secrets

VARIABLE life

Lives == {"unissued", "open", "used", "gone"}

TypeOK == life \in [Secrets -> Lives]

Init == life = [x \in Secrets |-> "unissued"]

(* Issuing a secret may make earlier ones of the same owner lapse. *)
Issue(x, S) ==
  /\ life[x] = "unissued"
  /\ life' = [y \in Secrets |-> IF y = x THEN "open"
                                ELSE IF y \in S THEN "gone" ELSE life[y]]

Accept(x) ==
  /\ life[x] = "open"
  /\ life' = [life EXCEPT ![x] = "used"]

(* Expired, revoked or forgotten: a restart empties a whole dictionary. *)
Lapse(S) == life' = [x \in Secrets |-> IF x \in S THEN "gone" ELSE life[x]]

Next ==
  \E S \in SUBSET {x \in Secrets : life[x] = "open"} :
    \/ \E x \in Secrets : Issue(x, S)
    \/ Lapse(S)
    \/ \E x \in S : Accept(x)

Spec == Init /\ [][Next]_life
=============================================================================
