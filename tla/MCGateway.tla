------------------------------ MODULE MCGateway ------------------------------
(* Instances for TLC of what goes on in the gateway: the fail-closed check,  *)
(* what becomes of tool calls while the catalogue changes, what sessions and *)
(* listings make of the same changes, how the health of services comes to be *)
(* known, what becomes of audit events, and the SDK's client, whose calls it *)
(* answers.  A behaviour is one of the part its initial state names: parts   *)
(* share no state, but for calls and sessions, polls and reports, of which   *)
(* each leaves the other alone.                                              *)
EXTENDS FailClosed, McpSessions, HealthReports, AuditTrail, SdkClient

VARIABLE part

MCSessionOf == [t \in Tokens |-> "s"]
MCPermsOf == [t \in Tokens |-> CASE t = "wide" -> Permissions
                                 [] t = "narrow" -> Permissions \ BuiltIn
                                 [] OTHER -> {}]

(* Counts of different services do not meet: those of one are explored. *)
Reported == {CHOOSE s \in Watched : TRUE}

InPart ==
  /\ part = "calls" => /\ restarts = 0
                       /\ \A i \in SessionIds : session[i] = Unopened
                       /\ \A t \in Tokens : listing[t] = {}
  /\ part = "sessions" => answering = Services /\ \A k \in Calls : call[k] = NoCall
  /\ part = "polls" => probed = {} /\ round = NoRound /\ happened = NoErrors /\ unsent = {}
  /\ part = "reports" =>
       /\ poll = NoPoll /\ \A s \in Watched : entry[s] # "active"
       /\ \A s \in Watched \ Reported : entry[s] = "absent" /\ s \notin probed /\ happened[s] = 0

(* The catalogue starts with services in use, or without.  Registrations    *)
(* raise beneath calls, and permissions change beneath sessions; what        *)
(* matters of a service built in is whether it is offered, and beneath       *)
(* sessions not even that.                                                   *)
InUseWith(tool) == [status |-> "live", address |-> "given", tool |-> tool]
RowsAtFirst ==
  \A s \in Services :
    row[s] \in {NoRow} \cup (CASE part = "calls" /\ s \in BuiltIn -> {InUseWith(NoTool)}
                              [] part = "calls" -> {InUseWith("jira"), InUseWith(Unreadable)}
                              [] part = "sessions" /\ s \in Dynamic -> {InUseWith("jira")}
                              [] OTHER -> {})
CatalogueInPart ==
  /\ \A s \in BuiltIn : s \in answering /\ row[s].address # "empty"
  /\ part = "calls" => edits < MaxEdits /\ \A s \in Services : row[s].tool # "slack"
  /\ part = "sessions" =>
       /\ \A s \in Services : row[s].address # "empty" /\ row[s].tool # Unreadable
       /\ \A s \in BuiltIn : row[s] = NoRow

GatewayInit ==
  /\ Init /\ McpInit /\ HealthInit /\ TrailInit /\ SdkInit
  /\ part \in {"health", "calls", "sessions", "polls", "reports", "audit", "sdk"}
  /\ part # "health" => ~up
  /\ RowsAtFirst

InHealth(A)    == part = "health" /\ A /\ UNCHANGED <<mcpvars, hvars, trailvars, sdkvars, part>>
InCatalogue(A) == part \in {"calls", "sessions"} /\ A /\ UNCHANGED <<vars, hvars, trailvars, sdkvars, part>>
InReports(A)   == part \in {"polls", "reports"} /\ A /\ UNCHANGED <<vars, mcpvars, trailvars, sdkvars, part>>
InAudit(A)     == part = "audit" /\ A /\ UNCHANGED <<vars, mcpvars, hvars, sdkvars, part>>
InSdk(A)       == part = "sdk" /\ A /\ UNCHANGED <<vars, mcpvars, hvars, trailvars, part>>

GatewayNext ==
  /\ \/ InHealth(Next) \/ InCatalogue(McpNext) \/ InReports(HealthNext) \/ InAudit(TrailNext)
     \/ InSdk(SdkNext)
  /\ InPart' /\ CatalogueInPart'

allvars == <<vars, mcpvars, hvars, trailvars, sdkvars, part>>

(* Fairness, BackendsFair, PollFair, TrailFair and SdkFair, each in its own  *)
(* part.  As no behaviour changes its part, a condition of one and           *)
(* conditions of the others are stated together.                             *)
PollsOn == PollBegins \/ PollWrites \/ PollEnds \/ \E s \in Watched : PollTakes(s)
PartFairness ==
  /\ WF_allvars(\/ InHealth(Tick)
                \/ InCatalogue(FetchRegistry /\ UNCHANGED <<session, listing>>)
                \/ part = "polls" /\ InReports(PollsOn)
                \/ InAudit(StreamPolls)
                \/ InSdk(SdkGoes))
  /\ WF_bvars(part \in {"calls", "sessions"} /\ Refresh)
  /\ \A r \in Requests :
       /\ WF_vars(part = "health" /\ Check(r))
       /\ WF_vars(part = "health" /\ Leave(r))
       /\ WF_vars(part = "health" /\ TimesOut(r))
       /\ SF_vars(part = "health" /\ Answer(r))
       /\ SF_vars(part = "health" /\ Receive(r))
  /\ \A e \in Events :
       /\ WF_trailvars(part = "audit" /\ (StampEvent(e) \/ EventAccepted(e) \/ EventRefused(e)))
       /\ WF_trailvars(part = "audit" /\ CommitEvent(e))

GatewaySpec == GatewayInit /\ [][GatewayNext]_allvars /\ PartFairness
=============================================================================
