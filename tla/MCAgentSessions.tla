---------------------------- MODULE MCAgentSessions ----------------------------
(* Instances of AgentSessions for TLC. *)
EXTENDS AgentSessions, TLC

\* A user without services, and one whose services allow everything (bound).
AllOrNothing == {{}, Permissions}

\* Services that allow everything, once they are connected (bound).
Everything == {Permissions}

\* No administrator writes a template, so nobody is invited (bound).
NoShapes == {}

\* One ceiling, which makes invitations possible (bound).
OneShape == {[max |-> Permissions, blocked |-> {}]}

\* Requests are alike until they begin.
WorkerSymmetry == Permutations(Workers)

\* One agent has a template, so only its users are invited (bound).
OneTemplate == \A a \in Agents : templates[a].exists => a = CHOOSE b \in Agents : TRUE

OverlapSpec == Init /\ [][Next /\ OneTemplate']_vars
=============================================================================
