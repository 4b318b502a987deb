---------------------------- MODULE MCDelegations ----------------------------
(* Instances of Delegations for TLC. *)
EXTENDS Delegations, TLC

\* A user without services, and one whose services allow everything (bound).
MCScopeSets == {{}, Permissions}

\* Services that allow everything, once they are connected (bound).
MCEverything == {Permissions}

\* One ceiling, which makes invitations possible (bound).
MCOneShape == {[max |-> Permissions, blocked |-> {}]}

\* A ceiling that allows everything, and one that blocks everything and whose
\* empty "max" would allow it (bound).
MCTemplateShapes ==
  {[max |-> Permissions, blocked |-> {}], [max |-> {}, blocked |-> Permissions]}
=============================================================================
