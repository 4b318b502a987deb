------------------------------ MODULE Backends ------------------------------
(* The catalogue of services in the control plane                            *)
(* (service_registry_service.py, admin_services.py), the gateway's loader    *)
(* that follows it (dynamic_registry.py), the connections it keeps           *)
(* (connection_manager.py), and a tool call on its way to a backend          *)
(* (tools_call.py, adapter.py, base_mcp_client.py).  Each service stands for *)
(* one tool, known by the permission that it needs.                          *)
EXTENDS Naturals, FiniteSets

CONSTANTS
  Services,
  BuiltIn,      \* those with a client of their own in the gateway; the rest speak MCP
  Permissions,  \* a tool built in needs the one named like its service
  Calls,
  MaxEdits,     \* bounds of the instance: changes of the catalogue,
  MaxRestarts   \* and stops of the gateway

NoTool     == "no tool"
Unreadable == "unreadable"    \* a tool that CachedTool refuses: its description is null

ASSUME BackendsAssumption ==
  /\ BuiltIn \subseteq Services \cap Permissions
  /\ NoTool \notin Permissions /\ Unreadable \notin Permissions

VARIABLES
  row,        \* service_registry
  fetched,    \* an answer of the catalogue the loader has not yet acted on
  known,      \* _known_services
  halfway,    \* services that were connected before their registration raised
  manager,    \* _backends of the connection manager
  client,     \* _clients of the adapter
  tools,      \* tool_cache: the services with tools in it
  mapped,     \* TOOL_TO_PERMISSION: the permission the tool of a service needs
  answering,  \* the backends that answer
  call,
  edits,      \* changes made to the catalogue
  running,    \* whether the gateway serves
  restarts

catalogue == <<row, edits>>
backends  == <<known, halfway, manager, client, tools, mapped>>
process   == <<running, restarts>>
bvars     == <<catalogue, backends, fetched, answering, call, process>>

Dynamic == Services \ BuiltIn

NoRow   == [status |-> "absent", address |-> "none", tool |-> NoTool]
Rows    == {NoRow} \cup [status : {"live", "off"}, address : {"given", "empty"},
                        tool : Permissions \cup {NoTool, Unreadable}]
NoState == [gen |-> 0, health |-> "none"]
NoCall  == [svc |-> "none", pc |-> "idle", gen |-> 0]

(* A gateway starts with the clients built in, their tools and the           *)
(* permissions these need (create_backend_adapter, populate_tool_cache).     *)
ClientsAtStart == [s \in Services |-> IF s \in BuiltIn THEN "direct" ELSE "none"]
MappedAtStart  == [s \in Services |-> IF s \in BuiltIn THEN s ELSE NoTool]

(* The catalogue outlives the gateway; this one started while it gave no     *)
(* answer.                                                                   *)
BackendsInit ==
  /\ row \in [Services -> Rows] /\ edits = 0
  /\ fetched = <<>>
  /\ known = {} /\ halfway = {}
  /\ manager = [s \in Services |-> NoState]
  /\ client = ClientsAtStart
  /\ tools = BuiltIn
  /\ mapped = MappedAtStart
  /\ answering = Services
  /\ call = [k \in Calls |-> NoCall]
  /\ running = TRUE /\ restarts = 0

-----------------------------------------------------------------------------
(* The administrators' requests: each writes the row of one service. *)
WriteRow(s, r) ==
  /\ edits < MaxEdits /\ edits' = edits + 1
  /\ row' = [row EXCEPT ![s] = r]
  /\ UNCHANGED <<backends, fetched, answering, call, process>>

(* The empty string passes for an address: only a missing one is refused. *)
CreateService(s) ==
  /\ row[s] = NoRow
  /\ \E st \in {"live", "off"}, at \in {"given", "empty"} :
       WriteRow(s, [status |-> st, address |-> at, tool |-> NoTool])

UpdateService(s) ==
  /\ row[s] # NoRow
  /\ \E st \in {"live", "off"}, at \in {"given", "empty"} :
       WriteRow(s, [status |-> st, address |-> at, tool |-> row[s].tool])

DeleteService(s) == row[s] # NoRow /\ WriteRow(s, NoRow)

(* The tools an MCP service answers with replace those in its row, with the  *)
(* permissions the administrator wants for them.                             *)
DiscoverTools(s) ==
  /\ s \in Dynamic
  /\ row[s] # NoRow /\ row[s].address = "given"
  /\ \E tool \in Permissions \cup {NoTool, Unreadable} :
       WriteRow(s, [status |-> row[s].status, address |-> row[s].address, tool |-> tool])

-----------------------------------------------------------------------------
(* get_registry_for_gateway: services in use, a sandbox among them. *)
Offered == [s \in Services |-> IF row[s].status = "live" THEN row[s] ELSE NoRow]

FetchRegistry ==
  /\ running
  /\ fetched = <<>>
  /\ fetched' = <<Offered>>
  /\ UNCHANGED <<catalogue, backends, answering, call, process>>

(* What an answer brings to the loader, and takes from it. *)
Added(answer)   == {s \in Services : answer[s] # NoRow /\ s \notin known}
RemovedNever(answer) == {}
Removed(answer) == {s \in known : answer[s] = NoRow}

(* _register_service raises: BackendConfig refuses an empty address before   *)
(* the service is connected, CachedTool a tool after that.                   *)
Raises(r) == r.address = "empty" \/ r.tool = Unreadable
Raising(answer) == {s \in Added(answer) \cap Dynamic : Raises(answer[s])}

(* A BackendState is made new: unlike those registered and those that calls  *)
(* still hold.                                                               *)
InUse == {manager[s].gen : s \in Services} \cup {call[k].gen : k \in Calls}
Numbers == 1 .. (Cardinality(Services) + Cardinality(Calls) + 1)
NewState(n) ==
  /\ n \in Numbers \ InUse
  /\ \A m \in Numbers \ InUse : n <= m

(* _unregister_service: the adapter forgets a client built in; an MCP client *)
(* stays with it, for the next registration to find.                         *)
ClientAfter(s) == IF s \in BuiltIn THEN "none" ELSE client[s]
ToolsAfterKept(gone) == tools
ToolsAfter(gone) == tools \ gone

(* The services of new are registered, those of gone unregistered, and those *)
(* of met connected: a connection of that name is replaced.                  *)
Registers(answer, new, met, gone) ==
  LET told == {s \in new \cap Dynamic : answer[s].tool # NoTool}
  IN /\ known' = (known \cup new) \ gone
     /\ halfway' = (halfway \cup met) \ new
     /\ \E n \in Numbers :
          /\ NewState(n)
          /\ manager' = [s \in Services |->
                           IF s \in met THEN [gen |-> n, health |-> "unknown"]
                           ELSE IF s \in gone THEN NoState ELSE manager[s]]
     /\ client' = [s \in Services |-> IF s \in new \cap BuiltIn THEN "direct"
                                      ELSE IF s \in gone THEN ClientAfter(s) ELSE client[s]]
     /\ tools' = ToolsAfter(gone) \cup told
     /\ mapped' = [s \in Services |-> IF s \in told THEN answer[s].tool ELSE mapped[s]]

RegistersAll(answer) ==
  /\ Raising(answer) = {}
  /\ Registers(answer, Added(answer), Added(answer) \cap Dynamic, Removed(answer))

(* One registration that raises ends the round: services that came before it *)
(* in the answer, which has no order, are registered, and none is removed.   *)
RegistersSome(answer) ==
  \E s \in Raising(answer), before \in SUBSET (Added(answer) \ Raising(answer)) :
    LET connected == IF answer[s].address = "empty" THEN {} ELSE {s}
    IN Registers(answer, before, (before \cap Dynamic) \cup connected, {})

(* periodic_refresh: a service that stays known keeps what it was registered *)
(* with.                                                                     *)
Refresh ==
  /\ fetched # <<>>
  /\ fetched' = <<>>
  /\ RegistersAll(fetched[1]) \/ RegistersSome(fetched[1])
  /\ UNCHANGED <<catalogue, answering, call, process>>

-----------------------------------------------------------------------------
(* A tool call whose permission is known, by the time it has its credential. *)
BeginCall(k, s) ==
  /\ call[k] = NoCall
  /\ running /\ mapped[s] # NoTool
  /\ call' = [call EXCEPT ![k] = [svc |-> s, pc |-> "credential", gen |-> 0]]
  /\ UNCHANGED <<catalogue, backends, fetched, answering, process>>

Ends(k) == call' = [call EXCEPT ![k] = NoCall]

(* send_request, up to the post: the backend must be registered and not      *)
(* marked; the call keeps the state object it found.                         *)
Routable(s) == manager[s] # NoState /\ manager[s].health # "unhealthy"
Send(k, s, pc) ==
  IF Routable(s)
  THEN call' = [call EXCEPT ![k] = [svc |-> s, pc |-> pc, gen |-> manager[s].gen]]
  ELSE Ends(k)

(* Without a credential a call ends, unless the backend is a registered MCP  *)
(* server.                                                                   *)
CredentialRefused(k) ==
  LET s == call[k].svc IN
  /\ call[k].pc = "credential"
  /\ manager[s] = NoState
  /\ Ends(k)
  /\ UNCHANGED <<catalogue, backends, fetched, answering, process>>

(* call_tool of the adapter: the client built in, or the MCP client, which   *)
(* is made when there is none and opens its session with its first call.     *)
Dispatch(k) ==
  LET s == call[k].svc
      made == client[s] = "none" /\ manager[s] # NoState
      c == IF made THEN "new" ELSE client[s]
  IN /\ call[k].pc = "credential"
     /\ client' = [client EXCEPT ![s] = c]
     /\ \/ /\ c = "none" /\ Ends(k)
        \/ /\ c = "direct"
           /\ call' = [call EXCEPT ![k].pc = "direct"]
        \/ /\ c = "new" /\ Send(k, s, "initialize")
        \/ /\ c = "ready" /\ Send(k, s, "tools/call")
     /\ UNCHANGED <<catalogue, known, halfway, manager, tools, mapped, fetched, answering, process>>

(* The client built in posts to its own service. *)
DirectEnds(k) ==
  /\ call[k].pc = "direct"
  /\ Ends(k)
  /\ UNCHANGED <<catalogue, backends, fetched, answering, process>>

(* The object a call marks is the one it found, which may no longer be the   *)
(* one registered.                                                           *)
MarkedByName(s, gen, h) == IF manager[s] = NoState THEN NoState ELSE [manager[s] EXCEPT !.health = h]
Marked(s, gen, h) ==
  IF manager[s].gen = gen THEN [manager[s] EXCEPT !.health = h] ELSE manager[s]

(* 200: the backend is healthy, and an opened session goes on to the call. *)
Answered(k) ==
  LET s == call[k].svc IN
  /\ call[k].pc \in {"initialize", "tools/call"}
  /\ s \in answering
  /\ manager' = [manager EXCEPT ![s] = Marked(s, call[k].gen, "healthy")]
  /\ \/ /\ call[k].pc = "initialize"
        /\ client' = [client EXCEPT ![s] = "ready"]
        /\ call' = [call EXCEPT ![k].pc = "opened"]
     \/ /\ call[k].pc = "tools/call"
        /\ Ends(k)
        /\ UNCHANGED client
  /\ UNCHANGED <<catalogue, known, halfway, tools, mapped, fetched, answering, process>>

Opened(k) ==
  /\ call[k].pc = "opened"
  /\ Send(k, call[k].svc, "tools/call")
  /\ UNCHANGED <<catalogue, backends, fetched, answering, process>>

(* Another status, or an answer that cannot be read: an error, and no mark. *)
ErrorAnswered(k) ==
  /\ call[k].pc \in {"initialize", "tools/call"}
  /\ Ends(k)
  /\ UNCHANGED <<catalogue, backends, fetched, answering, process>>

(* No answer to the last of the attempts. *)
Unreached(k) ==
  LET s == call[k].svc IN
  /\ call[k].pc \in {"initialize", "tools/call"}
  /\ s \notin answering
  /\ manager' = [manager EXCEPT ![s] = Marked(s, call[k].gen, "unhealthy")]
  /\ Ends(k)
  /\ UNCHANGED <<catalogue, known, halfway, client, tools, mapped, fetched, answering, process>>

-----------------------------------------------------------------------------
BackendTurns(s) ==
  /\ answering' = IF s \in answering THEN answering \ {s} ELSE answering \union {s}
  /\ UNCHANGED <<catalogue, backends, fetched, call, process>>

(* The gateway stops: nothing of what it holds is kept. *)
StopGateway ==
  /\ running /\ running' = FALSE
  /\ restarts < MaxRestarts /\ restarts' = restarts + 1
  /\ fetched' = <<>>
  /\ known' = {} /\ halfway' = {}
  /\ manager' = [s \in Services |-> NoState]
  /\ client' = ClientsAtStart
  /\ tools' = BuiltIn
  /\ mapped' = MappedAtStart
  /\ call' = [k \in Calls |-> NoCall]
  /\ UNCHANGED <<catalogue, answering>>

(* initial_load, before anything is served: it starts with what the          *)
(* catalogue offers, or with what is built in when this gives no answer.  A  *)
(* registration that raises keeps it from starting.                          *)
StartGateway ==
  /\ ~running /\ running' = TRUE
  /\ RegistersAll(Offered) \/ UNCHANGED backends
  /\ UNCHANGED <<catalogue, fetched, answering, call, restarts>>

EndsSomehow(k) ==
  \/ CredentialRefused(k) \/ Dispatch(k) \/ DirectEnds(k)
  \/ Answered(k) \/ Opened(k) \/ ErrorAnswered(k) \/ Unreached(k)

(* All but the calls that come in, which the MCP endpoint lets in. *)
BackendsMove ==
  \/ \E s \in Services :
       \/ CreateService(s) \/ UpdateService(s) \/ DeleteService(s) \/ DiscoverTools(s)
       \/ BackendTurns(s)
  \/ FetchRegistry \/ Refresh
  \/ \E k \in Calls : EndsSomehow(k)
  \/ StopGateway \/ StartGateway

BackendsNext == BackendsMove \/ \E k \in Calls, s \in Services : BeginCall(k, s)

BackendsSpec == BackendsInit /\ [][BackendsNext]_bvars

(* run_refresh_loop asks every minute and carries on after an error, and the *)
(* catalogue answers it again and again.                                     *)
BackendsFair == WF_bvars(FetchRegistry) /\ WF_bvars(Refresh)

-----------------------------------------------------------------------------
(* The parts of the gateway agree: a service the loader knows can be called, *)
(* and one that it does not know has neither a connection nor tools that     *)
(* could be listed, but for a connection left by a registration that raised. *)
LoaderAgreesWithRouting ==
  /\ \A s \in BuiltIn : s \in known => client[s] = "direct"
  /\ \A s \in Dynamic :
       /\ manager[s] # NoState <=> s \in known \cup halfway
       /\ s \in tools => s \in known

(* A backend registered anew starts with a clean record: a call that was on  *)
(* its way to an earlier registration cannot take it out of use.             *)
EarlierCallsDoNotMark ==
  [][\A s \in Services :
       /\ manager'[s].health = "unhealthy" /\ manager[s].health # "unhealthy"
       => \E k \in Calls : call[k].svc = s /\ call[k].gen = manager[s].gen]_bvars

(* What the catalogue withdraws for good the gateway stops routing to, and   *)
(* what it offers for good the gateway comes to route to: while it runs its  *)
(* loader never stays behind, whatever is in flight, but for a connection    *)
(* left by a registration that raised, and as long as the catalogue offers a *)
(* service, new to the loader, whose registration raises.                    *)
Blocked == Raising(Offered) # {}
LoaderKeepsUp ==
  \A s \in Dynamic :
    []<>(running => \/ Blocked \/ s \in halfway
                    \/ row[s].status = "live" <=> manager[s] # NoState)
=============================================================================
