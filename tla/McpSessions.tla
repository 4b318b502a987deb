----------------------------- MODULE McpSessions -----------------------------
(* The MCP endpoint in front of the backends: the session an agent opens     *)
(* (initialize.py, session_manager.py), the tools it is shown (tools_list.py) *)
(* and the ones it may call (tools_call.py, delegation_validator.py).        *)
EXTENDS Backends

CONSTANTS
  Tokens,       \* bearer tokens the endpoint has admitted
  SessionIds,     \* the agent sessions they name
  SessionOf,
  PermsOf,      \* the permissions delegated to each, one by one
  Wild          \* tokens that hold "*:*" besides

ASSUME McpAssumption ==
  /\ SessionOf \in [Tokens -> SessionIds]
  /\ PermsOf \in [Tokens -> SUBSET Permissions]
  /\ Wild \subseteq Tokens

VARIABLES
  session,   \* _sessions: the services an agent session was opened with
  listing    \* the tools last shown to each token, with the permission each needed

mcpvars == <<bvars, session, listing>>

Unopened == {"unopened"}

McpInit ==
  /\ BackendsInit
  /\ session = [i \in SessionIds |-> Unopened]
  /\ listing = [t \in Tokens |-> {}]

Known == {s \in Services : mapped[s] # NoTool}

(* is_tool_permitted, for a listing: the permission the tool needs now must  *)
(* be in the token as it stands.                                             *)
ToolsPermitted(t) == {s \in Known : mapped[s] \in PermsOf[t]}

(* validate_tool_call, for a call: wildcards count. *)
ToolsCallable(t) == IF t \in Wild THEN Known ELSE ToolsPermitted(t)

(* handle_initialize: the session gets the services the permissions name, of *)
(* the six it knows, and replaces one of the same name, other tokens' too.   *)
ServicesConnected(t) == ToolsPermitted(t) \intersect BuiltIn
Initialize(t) ==
  /\ running
  /\ session' = [session EXCEPT ![SessionOf[t]] = ServicesConnected(t)]
  /\ UNCHANGED <<bvars, listing>>

(* handle_tools_list: what the session allows, or without one what the       *)
(* permissions do; and of that only what the token asking is permitted.      *)
ToolsAllowed(t) ==
  IF PermsOf[t] = {} /\ t \notin Wild THEN {}
  ELSE IF session[SessionOf[t]] = Unopened THEN ToolsPermitted(t)
  ELSE session[SessionOf[t]]
ToolsShownUnfiltered(t) == ToolsAllowed(t)
ToolsShown(t) == ToolsAllowed(t) \intersect ToolsPermitted(t)
ToolsList(t) ==
  /\ running
  /\ listing' = [listing EXCEPT ![t] = {<<s, mapped[s]>> : s \in ToolsShown(t)}]
  /\ UNCHANGED <<bvars, session>>

(* handle_tools_call: permission first, the credential and the backend next; *)
(* a session is not asked for.                                               *)
ToolsCall(k, t, s) ==
  /\ s \in ToolsCallable(t)
  /\ BeginCall(k, s)
  /\ UNCHANGED <<session, listing>>

(* A restart of the gateway forgets the sessions; nothing else closes one. *)
BehindTheEndpoint ==
  /\ BackendsMove
  /\ session' = IF ~running' THEN [i \in SessionIds |-> Unopened] ELSE session
  /\ UNCHANGED listing

McpNext ==
  \/ \E t \in Tokens : Initialize(t) \/ ToolsList(t)
  \/ \E k \in Calls, t \in Tokens, s \in Services : ToolsCall(k, t, s)
  \/ BehindTheEndpoint

McpSpec == McpInit /\ [][McpNext]_mcpvars
FairMcpSpec == McpSpec /\ BackendsFair

-----------------------------------------------------------------------------
(* A token is shown only tools it may call itself: a session opened by       *)
(* another token of the agent, with other permissions, adds none, and while  *)
(* the gateway runs on, the catalogue takes none away, unless it has the     *)
(* service registered anew with another permission for the tool.             *)
ShownToolsAreCallable ==
  restarts = 0 => \A t \in Tokens : \A e \in listing[t] :
    LET s == e[1]
    IN \/ s \in ToolsCallable(t)
       \/ s \in Dynamic /\ mapped[s] \in Permissions \ {e[2]}
=============================================================================
