--------------------------- MODULE Gateway_proofs ----------------------------
(***************************************************************************)
(* Proofs about the gateway: Backends and McpSessions (its tables agree    *)
(* whatever the loader replaces under calls in progress, earlier calls do  *)
(* not mark later registrations, and a token is shown what it may call),   *)
(* FailClosed (a request is admitted on recent evidence only) and          *)
(* HealthReports (a failure is counted once).                              *)
(***************************************************************************)
EXTENDS McpSessions, FailClosed, HealthReports, TLAPS

-----------------------------------------------------------------------------
(* Backends and MCP sessions. *)

\* Calls the connection manager has let through: only registered backends
\* have a connection, and a registration is numbered from 1.
Underway == {"initialize", "tools/call"}

State == [gen : Nat, health : {"none", "unknown", "healthy", "unhealthy"}]

InProgress ==
  [svc : Services, gen : Nat,
   pc : {"credential", "direct", "initialize", "opened", "tools/call"}]

CallRecord == {NoCall} \cup InProgress

BackendTypes ==
  /\ known \in SUBSET Services /\ halfway \in SUBSET Dynamic
  /\ manager \in [Services -> State]
  /\ client \in [Services -> {"none", "direct", "new", "ready"}]
  /\ tools \in SUBSET Services
  /\ mapped \in [Services -> Permissions \cup {NoTool}]
  /\ row \in [Services -> Rows]
  /\ restarts \in Nat
  /\ fetched \in {<<>>} \cup {<<f>> : f \in [Services -> Rows]}
  /\ call \in [Calls -> CallRecord]

\* A registration is a state with a number, and no registration has none.
StatesAreRegistrations ==
  \A s \in Services : manager[s] # NoState => manager[s].gen # 0 /\ manager[s].health # "none"

\* What a call sends through the manager went to an MCP service that was registered.
SentToRegistered ==
  \A k \in Calls : call[k].pc \in Underway \cup {"opened"} =>
    call[k].svc \in Dynamic /\ call[k].gen # 0

\* A client built in has no connection.
BuiltInHasNone == \A s \in BuiltIn : manager[s] = NoState

\* A service that the loader knows is registered whole.
HalfwayUnknown == known \cap halfway = {}

BackendInv ==
  /\ BackendTypes
  /\ StatesAreRegistrations
  /\ SentToRegistered
  /\ BuiltInHasNone
  /\ HalfwayUnknown
  /\ LoaderAgreesWithRouting

LEMMA BackendInitHolds == BackendsInit => BackendInv
BY BackendsAssumption DEF BackendsInit, BackendInv, BackendTypes, StatesAreRegistrations,
   SentToRegistered, BuiltInHasNone, HalfwayUnknown, LoaderAgreesWithRouting, NoState, NoCall,
   ClientsAtStart, MappedAtStart, Dynamic, Underway, State, CallRecord, InProgress

\* An administrator writes a row: nothing the gateway holds changes.
LEMMA WriteRowStep ==
  ASSUME BackendInv, NEW s \in Services, NEW r \in Rows, WriteRow(s, r)
  PROVE  BackendInv'
BY DEF BackendInv, BackendTypes, StatesAreRegistrations, SentToRegistered, BuiltInHasNone,
       HalfwayUnknown, LoaderAgreesWithRouting, WriteRow, backends, process, Underway

\* Registrations, whole or halfway, of services the loader did not know, and
\* the removal of services it did.
LEMMA RegistersStep ==
  ASSUME BackendInv, NEW answer \in [Services -> Rows], NEW new, NEW met, NEW gone,
         new \subseteq Added(answer) \ Raising(answer), gone \subseteq known,
         met \subseteq Added(answer) \cap Dynamic, new \cap Dynamic \subseteq met,
         Registers(answer, new, met, gone), UNCHANGED <<row, call, restarts>>,
         fetched' \in {<<>>} \cup {<<f>> : f \in [Services -> Rows]}
  PROVE  BackendInv'
<1> DEFINE told == {s \in new \cap Dynamic : answer[s].tool # NoTool}
<1>1. Added(answer) \subseteq Services /\ Added(answer) \cap known = {}
  BY DEF Added
<1>2. PICK n \in Nat \ {0} :
         manager' = [s \in Services |-> IF s \in met THEN [gen |-> n, health |-> "unknown"]
                                        ELSE IF s \in gone THEN NoState ELSE manager[s]]
  BY DEF Registers, NewState, Numbers
<1>3. /\ known' = (known \cup new) \ gone
      /\ halfway' = (halfway \cup met) \ new
      /\ client' = [s \in Services |-> IF s \in new \cap BuiltIn THEN "direct"
                                       ELSE IF s \in gone THEN ClientAfter(s) ELSE client[s]]
      /\ tools' = (tools \ gone) \cup told
      /\ mapped' = [s \in Services |-> IF s \in told THEN answer[s].tool ELSE mapped[s]]
  BY DEF Registers, ToolsAfter
<1>4. \A s \in told : answer[s].tool \in Permissions
  <2> SUFFICES ASSUME NEW s \in told PROVE answer[s].tool \in Permissions
    OBVIOUS
  <2>1. s \in Services /\ answer[s] # NoRow /\ answer[s].tool # NoTool
    BY DEF Added
  <2>2. answer[s].tool # Unreadable
    BY DEF Raising, Raises
  <2>3. answer[s] \in [status : {"live", "off"}, address : {"given", "empty"},
                       tool : Permissions \cup {NoTool, Unreadable}]
    BY <2>1 DEF Rows
  <2> QED
    BY <2>1, <2>2, <2>3
<1>5. ASSUME NEW s \in Services
      PROVE  /\ manager'[s] \in State
             /\ manager'[s] # NoState => manager'[s].gen # 0 /\ manager'[s].health # "none"
             /\ s \in BuiltIn => manager'[s] = NoState
             /\ s \in Dynamic => (manager'[s] # NoState <=> s \in known' \cup halfway')
  <2>1. CASE s \in met
    <3>1. manager'[s] = [gen |-> n, health |-> "unknown"] /\ s \in Dynamic
      BY <1>2, <2>1
    <3>2. s \in known' \cup halfway'
      BY <1>1, <1>3, <2>1
    <3> QED
      BY <3>1, <3>2 DEF State, NoState, Dynamic
  <2>2. CASE s \notin met /\ s \in gone
    <3>1. manager'[s] = NoState
      BY <1>2, <2>2
    <3>2. s \notin known' /\ s \notin halfway'
      BY <1>3, <2>2 DEF BackendInv, HalfwayUnknown
    <3> QED
      BY <3>1, <3>2 DEF State, NoState
  <2>3. CASE s \notin met /\ s \notin gone
    <3>1. manager'[s] = manager[s]
      BY <1>2, <2>3
    <3>2. s \in Dynamic => (s \in known' \cup halfway' <=> s \in known \cup halfway)
      BY <1>3, <2>3
    <3>3. manager[s] \in State
      BY DEF BackendInv, BackendTypes
    <3>4. /\ manager[s] # NoState => manager[s].gen # 0 /\ manager[s].health # "none"
          /\ s \in BuiltIn => manager[s] = NoState
      BY DEF BackendInv, StatesAreRegistrations, BuiltInHasNone
    <3>5. s \in Dynamic => (manager[s] # NoState <=> s \in known \cup halfway)
      BY DEF BackendInv, LoaderAgreesWithRouting
    <3> HIDE DEF NoState
    <3> QED
      BY <3>1, <3>2, <3>3, <3>4, <3>5
  <2> QED
    BY <2>1, <2>2, <2>3
<1>6. /\ known' \in SUBSET Services /\ halfway' \in SUBSET Dynamic /\ tools' \in SUBSET Services
      /\ HalfwayUnknown'
  BY <1>1, <1>3 DEF BackendInv, BackendTypes, HalfwayUnknown
<1>7. /\ mapped' \in [Services -> Permissions \cup {NoTool}]
      /\ client' \in [Services -> {"none", "direct", "new", "ready"}]
  BY <1>3, <1>4 DEF BackendInv, BackendTypes, ClientAfter
<1>8. manager' \in [Services -> State]
  BY <1>2, <1>5
<1>9. BackendTypes'
  BY <1>6, <1>7, <1>8 DEF BackendInv, BackendTypes
<1>10. \A s \in Dynamic : s \in tools' => s \in known'
  <2> SUFFICES ASSUME NEW s \in Dynamic, s \in tools' PROVE s \in known'
    OBVIOUS
  <2>1. CASE s \in told
    <3>1. s \in new /\ s \notin gone
      BY <1>1, <2>1
    <3> QED
      BY <1>3, <3>1
  <2>2. CASE s \in tools \ gone
    <3>1. s \in known
      BY <2>2 DEF BackendInv, LoaderAgreesWithRouting
    <3> QED
      BY <1>3, <2>2, <3>1
  <2> QED
    BY <1>3, <2>1, <2>2
<1>11. \A s \in BuiltIn : s \in known' => client'[s] = "direct"
  BY <1>3, BackendsAssumption DEF BackendInv, LoaderAgreesWithRouting
<1>12. LoaderAgreesWithRouting'
  BY <1>5, <1>10, <1>11 DEF LoaderAgreesWithRouting, Dynamic
<1>13. StatesAreRegistrations' /\ BuiltInHasNone'
  BY <1>5, BackendsAssumption DEF StatesAreRegistrations, BuiltInHasNone
<1>14. SentToRegistered'
  BY DEF BackendInv, SentToRegistered
<1> QED
  BY <1>6, <1>9, <1>12, <1>13, <1>14 DEF BackendInv

\* All the registrations an answer asks for.
LEMMA RegistersAllStep ==
  ASSUME BackendInv, NEW answer \in [Services -> Rows], RegistersAll(answer),
         UNCHANGED <<row, call, restarts>>,
         fetched' \in {<<>>} \cup {<<f>> : f \in [Services -> Rows]}
  PROVE  BackendInv'
<1>1. /\ Added(answer) \subseteq Added(answer) \ Raising(answer)
      /\ Removed(answer) \subseteq known
      /\ Registers(answer, Added(answer), Added(answer) \cap Dynamic, Removed(answer))
  BY DEF RegistersAll, Removed
<1> QED
  BY <1>1, RegistersStep

\* One round of the loader, whatever the calls are doing, and whichever
\* registration ends it.
LEMMA RefreshStep == ASSUME BackendInv, Refresh PROVE BackendInv'
<1>1. fetched[1] \in [Services -> Rows]
  BY DEF BackendInv, BackendTypes, Refresh
<1>2. UNCHANGED <<row, call, restarts>> /\ fetched' = <<>>
  BY DEF Refresh, catalogue, process
<1>3. CASE RegistersAll(fetched[1])
  BY <1>1, <1>2, <1>3, RegistersAllStep
<1>4. CASE RegistersSome(fetched[1])
  <2> DEFINE answer == fetched[1]
  <2>1. PICK s \in Raising(answer), before \in SUBSET (Added(answer) \ Raising(answer)) :
          LET connected == IF answer[s].address = "empty" THEN {} ELSE {s}
          IN Registers(answer, before, (before \cap Dynamic) \cup connected, {})
    BY <1>4 DEF RegistersSome
  <2> DEFINE connected == IF answer[s].address = "empty" THEN {} ELSE {s}
             met == (before \cap Dynamic) \cup connected
  <2>2. met \subseteq Added(answer) \cap Dynamic /\ before \cap Dynamic \subseteq met
    BY DEF Raising
  <2>3. Registers(answer, before, met, {})
    BY <2>1
  <2> HIDE DEF met
  <2> QED
    BY <1>1, <1>2, <2>2, <2>3, RegistersStep
<1> QED
  BY <1>3, <1>4 DEF Refresh

\* A call in progress is a record whose next step can be written into it.
LEMMA ProgressFacts ==
  ASSUME BackendTypes, NEW k \in Calls, call[k].pc # "idle",
         NEW pc \in {"credential", "direct", "initialize", "opened", "tools/call"}
  PROVE  /\ call[k] \in InProgress
         /\ [call[k] EXCEPT !.pc = pc] \in InProgress
         /\ [call[k] EXCEPT !.pc = pc].pc = pc
         /\ [call[k] EXCEPT !.pc = pc].svc = call[k].svc
         /\ [call[k] EXCEPT !.pc = pc].gen = call[k].gen
<1>1. call[k] \in InProgress
  BY DEF BackendTypes, CallRecord, NoCall
<1> QED
  BY <1>1 DEF InProgress

\* A call that ends is forgotten.
LEMMA EndsFacts ==
  ASSUME BackendInv, NEW k \in Calls, Ends(k)
  PROVE  call' \in [Calls -> CallRecord] /\ SentToRegistered'
BY DEF BackendInv, BackendTypes, Ends, NoCall, SentToRegistered, CallRecord, InProgress, Underway

\* What send_request makes of a call.
LEMMA SendFacts ==
  ASSUME BackendInv, NEW k \in Calls, NEW s \in Services, NEW pc \in Underway,
         Send(k, s, pc)
  PROVE  call' \in [Calls -> CallRecord] /\ SentToRegistered'
<1>1. CASE Routable(s)
  <2> DEFINE r == [svc |-> s, pc |-> pc, gen |-> manager[s].gen]
  <2>1. call' = [call EXCEPT ![k] = r]
    BY <1>1 DEF Send
  <2>2. manager[s] # NoState /\ manager[s].gen \in Nat
    BY <1>1 DEF Routable, BackendInv, BackendTypes, State
  <2>3. r.svc \in Dynamic /\ r.gen # 0
    BY <2>2 DEF BackendInv, BuiltInHasNone, StatesAreRegistrations, Dynamic
  <2>4. r \in CallRecord
    BY <2>2 DEF CallRecord, InProgress, Underway
  <2> HIDE DEF r
  <2> QED
    BY <2>1, <2>3, <2>4 DEF BackendInv, BackendTypes, SentToRegistered
<1>2. CASE ~Routable(s)
  BY <1>2, EndsFacts DEF Send
<1> QED
  BY <1>1, <1>2

\* The mark of a call: it neither makes nor unmakes a registration.
LEMMA MarkedFacts ==
  ASSUME BackendInv, NEW s \in Services, NEW g \in Nat \ {0}, NEW h \in {"healthy", "unhealthy"}
  PROVE  /\ Marked(s, g, h) \in State
         /\ (Marked(s, g, h) = NoState) = (manager[s] = NoState)
         /\ Marked(s, g, h) # NoState => Marked(s, g, h).gen # 0 /\ Marked(s, g, h).health # "none"
<1>1. manager[s] \in State
  BY DEF BackendInv, BackendTypes
<1>2. manager[s] # NoState => manager[s].gen # 0 /\ manager[s].health # "none"
  BY DEF BackendInv, StatesAreRegistrations
<1>3. NoState.gen = 0 /\ NoState.health = "none"
  BY DEF NoState
<1>4. CASE manager[s].gen = g
  <2>1. Marked(s, g, h) = [manager[s] EXCEPT !.health = h]
    BY <1>4 DEF Marked
  <2> QED
    BY <1>1, <1>2, <1>3, <1>4, <2>1 DEF State
<1>5. CASE manager[s].gen # g
  BY <1>1, <1>2, <1>5 DEF Marked
<1> QED
  BY <1>4, <1>5

\* A mark written over the manager's table, the loader's tables being left alone.
LEMMA MarkStep ==
  ASSUME BackendInv, NEW s \in Services, NEW g \in Nat \ {0}, NEW h \in {"healthy", "unhealthy"},
         s \in Dynamic, manager' = [manager EXCEPT ![s] = Marked(s, g, h)],
         UNCHANGED <<known, halfway, tools>>, \A t \in BuiltIn : client'[t] = client[t]
  PROVE  /\ manager' \in [Services -> State]
         /\ StatesAreRegistrations'
         /\ BuiltInHasNone'
         /\ LoaderAgreesWithRouting'
<1>1. \A t \in Services : manager'[t] = IF t = s THEN Marked(s, g, h) ELSE manager[t]
  BY DEF BackendInv, BackendTypes
<1>2. manager' \in [Services -> State]
  BY MarkedFacts DEF BackendInv, BackendTypes
<1>3. \A t \in Services : (manager'[t] = NoState) = (manager[t] = NoState)
  BY <1>1, MarkedFacts
<1>4. StatesAreRegistrations'
  BY <1>1, MarkedFacts DEF BackendInv, StatesAreRegistrations
<1>5. BuiltInHasNone'
  BY <1>3, BackendsAssumption DEF BackendInv, BuiltInHasNone
<1>6. LoaderAgreesWithRouting'
  BY <1>3, BackendsAssumption DEF BackendInv, LoaderAgreesWithRouting, Dynamic
<1> QED
  BY <1>2, <1>4, <1>5, <1>6
\* A call that takes its credential to the adapter.
LEMMA DispatchStep == ASSUME BackendInv, NEW k \in Calls, Dispatch(k) PROVE BackendInv'
<1> DEFINE s == call[k].svc
           made == client[s] = "none" /\ manager[s] # NoState
           c == IF made THEN "new" ELSE client[s]
<1>1. client' = [client EXCEPT ![s] = c]
  BY DEF Dispatch
<1>2. \/ Ends(k)
      \/ call' = [call EXCEPT ![k].pc = "direct"]
      \/ Send(k, s, "initialize")
      \/ Send(k, s, "tools/call")
  BY DEF Dispatch
<1>3. UNCHANGED <<row, known, halfway, manager, tools, mapped, fetched, restarts>>
  BY DEF Dispatch, catalogue, process
<1>4. s \in Services /\ c \in {"none", "direct", "new", "ready"}
  BY DEF BackendInv, BackendTypes, Dispatch, CallRecord, InProgress, NoCall
<1>5. client' \in [Services -> {"none", "direct", "new", "ready"}]
  BY <1>1, <1>4 DEF BackendInv, BackendTypes
<1>6. \A t \in BuiltIn : client'[t] = client[t]
  BY <1>1, BackendsAssumption DEF BackendInv, BackendTypes, BuiltInHasNone
<1>7. call' \in [Calls -> CallRecord] /\ SentToRegistered'
  <2>1. CASE Ends(k)
    BY <2>1, EndsFacts
  <2>2. CASE call' = [call EXCEPT ![k].pc = "direct"]
    <3>1. /\ [call[k] EXCEPT !.pc = "direct"] \in CallRecord
          /\ [call[k] EXCEPT !.pc = "direct"].pc = "direct"
      BY ProgressFacts DEF BackendInv, Dispatch, CallRecord
    <3> QED
      BY <2>2, <3>1 DEF BackendInv, BackendTypes, SentToRegistered, Underway
  <2>3. CASE Send(k, s, "initialize") \/ Send(k, s, "tools/call")
    BY <1>4, <2>3, SendFacts DEF Underway
  <2> QED
    BY <1>2, <2>1, <2>2, <2>3
<1>8. LoaderAgreesWithRouting'
  BY <1>3, <1>6 DEF BackendInv, LoaderAgreesWithRouting
<1> QED
  BY <1>3, <1>5, <1>7, <1>8
     DEF BackendInv, BackendTypes, StatesAreRegistrations, BuiltInHasNone, HalfwayUnknown

\* A backend's answer marks the registration the call found.
LEMMA AnsweredStep == ASSUME BackendInv, NEW k \in Calls, Answered(k) PROVE BackendInv'
<1> DEFINE s == call[k].svc
           g == call[k].gen
<1>1. call[k].pc \in Underway /\ s \in Dynamic /\ g \in Nat \ {0}
  BY DEF BackendInv, BackendTypes, SentToRegistered, Answered, CallRecord, InProgress, NoCall,
         Underway
<1>2. manager' = [manager EXCEPT ![s] = Marked(s, g, "healthy")]
  BY DEF Answered
<1>3. UNCHANGED <<row, known, halfway, tools, mapped, fetched, restarts>>
  BY DEF Answered, catalogue, process
<1>4. \/ client' = [client EXCEPT ![s] = "ready"] /\ call' = [call EXCEPT ![k].pc = "opened"]
      \/ client' = client /\ Ends(k)
  BY DEF Answered
<1>5. /\ client' \in [Services -> {"none", "direct", "new", "ready"}]
      /\ \A t \in BuiltIn : client'[t] = client[t]
  BY <1>1, <1>4, BackendsAssumption DEF BackendInv, BackendTypes, Dynamic
<1>6. call' \in [Calls -> CallRecord] /\ SentToRegistered'
  <2>1. CASE Ends(k)
    BY <2>1, EndsFacts
  <2>2. CASE call' = [call EXCEPT ![k].pc = "opened"]
    <3> DEFINE r == [call[k] EXCEPT !.pc = "opened"]
    <3>1. r \in CallRecord /\ r.svc = s /\ r.gen = g
      BY <1>1, ProgressFacts DEF BackendInv, CallRecord, Underway
    <3>2. call' = [call EXCEPT ![k] = r]
      BY <2>2
    <3> HIDE DEF r
    <3> QED
      BY <1>1, <3>1, <3>2 DEF BackendInv, BackendTypes, SentToRegistered
  <2> QED
    BY <1>4, <2>1, <2>2
<1>7. /\ manager' \in [Services -> State]
      /\ StatesAreRegistrations' /\ BuiltInHasNone' /\ LoaderAgreesWithRouting'
  BY <1>1, <1>2, <1>3, <1>5, MarkStep DEF Dynamic
<1> QED
  BY <1>3, <1>5, <1>6, <1>7 DEF BackendInv, BackendTypes, HalfwayUnknown

LEMMA UnreachedStep == ASSUME BackendInv, NEW k \in Calls, Unreached(k) PROVE BackendInv'
<1> DEFINE s == call[k].svc
           g == call[k].gen
<1>1. s \in Dynamic /\ g \in Nat \ {0}
  BY DEF BackendInv, BackendTypes, SentToRegistered, Unreached, CallRecord, InProgress, NoCall,
         Underway
<1>2. /\ manager' = [manager EXCEPT ![s] = Marked(s, g, "unhealthy")]
      /\ Ends(k)
      /\ UNCHANGED <<row, known, halfway, client, tools, mapped, fetched, restarts>>
  BY DEF Unreached, catalogue, process
<1>3. /\ manager' \in [Services -> State]
      /\ StatesAreRegistrations' /\ BuiltInHasNone' /\ LoaderAgreesWithRouting'
  BY <1>1, <1>2, MarkStep DEF Dynamic
<1>4. call' \in [Calls -> CallRecord] /\ SentToRegistered'
  BY <1>2, EndsFacts
<1> QED
  BY <1>2, <1>3, <1>4 DEF BackendInv, BackendTypes, HalfwayUnknown

\* Steps that change calls, the answer fetched or the backends, and no table.
LEMMA TablesKept ==
  ASSUME BackendInv, UNCHANGED <<row, known, halfway, manager, client, tools, mapped>>,
         fetched' \in {<<>>} \cup {<<f>> : f \in [Services -> Rows]}, restarts' \in Nat,
         call' \in [Calls -> CallRecord], SentToRegistered'
  PROVE  BackendInv'
BY DEF BackendInv, BackendTypes, StatesAreRegistrations, BuiltInHasNone, HalfwayUnknown, LoaderAgreesWithRouting

LEMMA QuietEnds ==
  ASSUME BackendInv, NEW k \in Calls,
         CredentialRefused(k) \/ DirectEnds(k) \/ ErrorAnswered(k)
  PROVE  BackendInv'
<1>1. /\ Ends(k)
      /\ UNCHANGED <<row, known, halfway, manager, client, tools, mapped, fetched, restarts>>
  BY DEF CredentialRefused, DirectEnds, ErrorAnswered, catalogue, backends, process
<1>2. call' \in [Calls -> CallRecord] /\ SentToRegistered'
  BY <1>1, EndsFacts
<1> QED
  BY <1>1, <1>2, TablesKept DEF BackendInv, BackendTypes

LEMMA OpenedStep == ASSUME BackendInv, NEW k \in Calls, Opened(k) PROVE BackendInv'
<1>1. call[k].svc \in Services
  BY DEF BackendInv, BackendTypes, Opened, CallRecord, InProgress, NoCall
<1>2. call' \in [Calls -> CallRecord] /\ SentToRegistered'
  BY <1>1, SendFacts DEF Opened, Underway
<1>3. UNCHANGED <<row, known, halfway, manager, client, tools, mapped, fetched, restarts>>
  BY DEF Opened, catalogue, backends, process
<1> QED
  BY <1>2, <1>3, TablesKept DEF BackendInv, BackendTypes

LEMMA BeginCallStep ==
  ASSUME BackendInv, NEW k \in Calls, NEW s \in Services, BeginCall(k, s)
  PROVE  BackendInv'
<1> DEFINE r == [svc |-> s, pc |-> "credential", gen |-> 0]
<1>1. call' = [call EXCEPT ![k] = r]
      /\ UNCHANGED <<row, known, halfway, manager, client, tools, mapped, fetched, restarts>>
  BY DEF BeginCall, catalogue, backends, process
<1>2. r \in CallRecord /\ r.pc = "credential"
  BY DEF CallRecord, InProgress
<1> HIDE DEF r
<1>3. call' \in [Calls -> CallRecord] /\ SentToRegistered'
  BY <1>1, <1>2 DEF BackendInv, BackendTypes, SentToRegistered, Underway
<1> QED
  BY <1>1, <1>3, TablesKept DEF BackendInv, BackendTypes

LEMMA OfferedRows == BackendTypes => Offered \in [Services -> Rows]
BY DEF BackendTypes, Offered, Rows

LEMMA FetchStep == ASSUME BackendInv, FetchRegistry PROVE BackendInv'
<1>1. Offered \in [Services -> Rows]
  BY OfferedRows DEF BackendInv
<1>2. fetched' \in {<<f>> : f \in [Services -> Rows]}
  BY <1>1 DEF FetchRegistry
<1>3. UNCHANGED <<row, known, halfway, manager, client, tools, mapped, call, restarts>>
  BY DEF FetchRegistry, catalogue, backends, process
<1> QED
  BY <1>2, <1>3, TablesKept DEF BackendInv, BackendTypes, SentToRegistered

\* A stop leaves the tables of BackendsInit.
LEMMA StopStep == ASSUME BackendInv, StopGateway PROVE BackendInv'
BY BackendsAssumption
   DEF BackendInv, BackendTypes, StatesAreRegistrations, SentToRegistered, BuiltInHasNone,
       HalfwayUnknown, LoaderAgreesWithRouting, StopGateway, catalogue, State, CallRecord,
       InProgress, NoState, NoCall, ClientsAtStart, MappedAtStart, Dynamic, Underway

\* A start registers what is offered, or nothing.
LEMMA StartStep == ASSUME BackendInv, StartGateway PROVE BackendInv'
<1>1. UNCHANGED <<row, fetched, call, restarts>>
  BY DEF StartGateway, catalogue
<1>2. CASE RegistersAll(Offered)
  BY <1>1, <1>2, OfferedRows, RegistersAllStep DEF BackendInv, BackendTypes
<1>3. CASE UNCHANGED backends
  BY <1>1, <1>3, TablesKept DEF BackendInv, BackendTypes, SentToRegistered, backends
<1> QED
  BY <1>2, <1>3 DEF StartGateway

\* The administrators' requests are writes of one row.
LEMMA AdministratorStep ==
  ASSUME BackendInv, NEW s \in Services,
         CreateService(s) \/ UpdateService(s) \/ DeleteService(s) \/ DiscoverTools(s)
  PROVE  BackendInv'
<1>1. row[s] \in Rows
  BY DEF BackendInv, BackendTypes
<1>2. CASE CreateService(s)
  <2>1. PICK st \in {"live", "off"}, at \in {"given", "empty"} :
          WriteRow(s, [status |-> st, address |-> at, tool |-> NoTool])
    BY <1>2 DEF CreateService
  <2>2. [status |-> st, address |-> at, tool |-> NoTool] \in Rows
    BY DEF Rows
  <2> QED
    BY <2>1, <2>2, WriteRowStep
<1>3. CASE UpdateService(s)
  <2>1. PICK st \in {"live", "off"}, at \in {"given", "empty"} :
          WriteRow(s, [status |-> st, address |-> at, tool |-> row[s].tool])
    BY <1>3 DEF UpdateService
  <2>2. [status |-> st, address |-> at, tool |-> row[s].tool] \in Rows
    BY <1>1, <1>3 DEF Rows, UpdateService
  <2> QED
    BY <2>1, <2>2, WriteRowStep
<1>4. CASE DeleteService(s)
  BY <1>4, WriteRowStep DEF DeleteService, Rows
<1>5. CASE DiscoverTools(s)
  <2>1. PICK tool \in Permissions \cup {NoTool, Unreadable} :
          WriteRow(s, [status |-> row[s].status, address |-> row[s].address, tool |-> tool])
    BY <1>5 DEF DiscoverTools
  <2>2. [status |-> row[s].status, address |-> row[s].address, tool |-> tool] \in Rows
    BY <1>1, <1>5 DEF Rows, DiscoverTools
  <2> QED
    BY <2>1, <2>2, WriteRowStep
<1> QED
  BY <1>2, <1>3, <1>4, <1>5

LEMMA BackendsMoveStep == ASSUME BackendInv, BackendsMove PROVE BackendInv'
<1>1. CASE \E s \in Services :
             CreateService(s) \/ UpdateService(s) \/ DeleteService(s) \/ DiscoverTools(s)
  BY <1>1, AdministratorStep
<1>2. CASE \E s \in Services : BackendTurns(s)
  BY <1>2 DEF BackendTurns, BackendInv, BackendTypes, StatesAreRegistrations, SentToRegistered,
              BuiltInHasNone, HalfwayUnknown, LoaderAgreesWithRouting, catalogue, backends, process
<1>3. CASE FetchRegistry \/ Refresh \/ StopGateway \/ StartGateway
  BY <1>3, FetchStep, RefreshStep, StopStep, StartStep
<1>4. ASSUME NEW k \in Calls, EndsSomehow(k) PROVE BackendInv'
  BY <1>4, QuietEnds, DispatchStep, AnsweredStep, OpenedStep, UnreachedStep DEF EndsSomehow
<1> QED
  BY <1>1, <1>2, <1>3, <1>4 DEF BackendsMove

-----------------------------------------------------------------------------
\* A step of the endpoint is one of the backends, a listing, or neither.
LEMMA EndpointCases ==
  ASSUME [McpNext]_mcpvars
  PROVE  \/ UNCHANGED <<bvars, listing>>
         \/ UNCHANGED bvars /\ \E t \in Tokens : ToolsList(t)
         \/ UNCHANGED listing /\ BackendsMove
         \/ UNCHANGED listing /\ \E k \in Calls, s \in Services : BeginCall(k, s)
BY DEF McpNext, mcpvars, Initialize, ToolsList, ToolsCall, BehindTheEndpoint

\* Sessions and listings do not touch what the backends are about.
LEMMA McpStep == ASSUME BackendInv, [McpNext]_mcpvars PROVE BackendInv'
<1>1. CASE UNCHANGED bvars
  BY <1>1 DEF bvars, catalogue, backends, process, BackendInv, BackendTypes, StatesAreRegistrations,
              SentToRegistered, BuiltInHasNone, HalfwayUnknown, LoaderAgreesWithRouting
<1>2. CASE BackendsMove
  BY <1>2, BackendsMoveStep
<1>3. CASE \E k \in Calls, s \in Services : BeginCall(k, s)
  BY <1>3, BeginCallStep
<1> QED
  BY <1>1, <1>2, <1>3, EndpointCases

\* The tables of the gateway are consistent in every behaviour.
THEOREM GatewayInvariance == McpSpec => []BackendInv
<1>1. McpInit => BackendInv
  BY BackendInitHolds DEF McpInit
<1>2. BackendInv /\ [McpNext]_mcpvars => BackendInv'
  BY McpStep
<1> QED
  BY <1>1, <1>2, PTL DEF McpSpec

\* However many calls are on their way while the loader registers and drops
\* services, what it knows, what is routed and what is listed agree.
THEOREM TablesAgree == McpSpec => []LoaderAgreesWithRouting
<1>1. BackendInv => LoaderAgreesWithRouting
  BY DEF BackendInv
<1> QED
  BY <1>1, GatewayInvariance, PTL

\* However many calls are on their way, only one sent to the registration
\* that is in place takes it out of use.
THEOREM OnlyOwnCallsMark == McpSpec => EarlierCallsDoNotMark
<1> DEFINE A == \A s \in Services :
                  /\ manager'[s].health = "unhealthy" /\ manager[s].health # "unhealthy"
                  => \E k \in Calls : call[k].svc = s /\ call[k].gen = manager[s].gen
<1>1. ASSUME BackendInv, [McpNext]_mcpvars PROVE A
  <2>1. CASE UNCHANGED manager
    BY <2>1
  <2>2. CASE Refresh \/ StartGateway
    <3> SUFFICES ASSUME NEW s \in Services, manager'[s].health = "unhealthy",
                        manager[s].health # "unhealthy"
                 PROVE  FALSE
      OBVIOUS
    <3>1. CASE \E answer, new, met, gone : Registers(answer, new, met, gone)
      <4>1. PICK n \in Numbers :
              manager'[s] \in {NoState, [gen |-> n, health |-> "unknown"], manager[s]}
        BY <3>1 DEF Registers
      <4> QED
        BY <4>1 DEF NoState
    <3>2. CASE UNCHANGED backends
      BY <3>2 DEF backends
    <3> QED
      BY <2>2, <3>1, <3>2 DEF Refresh, StartGateway, RegistersAll, RegistersSome
  <2>3. CASE StopGateway
    BY <2>3 DEF StopGateway, NoState
  <2>4. ASSUME NEW k \in Calls, NEW h \in {"healthy", "unhealthy"},
               manager' = [manager EXCEPT ![call[k].svc] = Marked(call[k].svc, call[k].gen, h)]
        PROVE  A
    <3> SUFFICES ASSUME NEW s \in Services, manager'[s].health = "unhealthy",
                        manager[s].health # "unhealthy"
                 PROVE  call[k].svc = s /\ call[k].gen = manager[s].gen
      OBVIOUS
    <3> QED
      BY <2>4 DEF BackendInv, BackendTypes, Marked
  <2>5. \/ UNCHANGED manager \/ Refresh \/ StartGateway \/ StopGateway
        \/ \E k \in Calls, h \in {"healthy", "unhealthy"} :
             manager' = [manager EXCEPT ![call[k].svc] = Marked(call[k].svc, call[k].gen, h)]
    <3>1. CASE UNCHANGED bvars
      BY <3>1 DEF bvars, backends
    <3>2. CASE \E k \in Calls, s \in Services : BeginCall(k, s)
      BY <3>2 DEF BeginCall, backends
    <3>3. CASE BackendsMove
      <4>1. ASSUME NEW s \in Services,
                   CreateService(s) \/ UpdateService(s) \/ DeleteService(s) \/ DiscoverTools(s)
                   \/ BackendTurns(s)
            PROVE  UNCHANGED manager
        BY <4>1 DEF CreateService, UpdateService, DeleteService, DiscoverTools, WriteRow,
                    BackendTurns, backends
      <4>2. CASE FetchRegistry
        BY <4>2 DEF FetchRegistry, backends
      <4>3. ASSUME NEW k \in Calls, EndsSomehow(k)
            PROVE  \/ UNCHANGED manager
                   \/ \E h \in {"healthy", "unhealthy"} :
                        manager' = [manager EXCEPT ![call[k].svc] = Marked(call[k].svc, call[k].gen, h)]
        BY <4>3 DEF EndsSomehow, CredentialRefused, Dispatch, DirectEnds, Answered, Opened,
                    ErrorAnswered, Unreached, backends
      <4> QED
        BY <3>3, <4>1, <4>2, <4>3 DEF BackendsMove
    <3>4. UNCHANGED bvars \/ BackendsMove \/ \E k \in Calls, s \in Services : BeginCall(k, s)
      BY <1>1, EndpointCases
    <3> QED
      BY <3>1, <3>2, <3>3, <3>4
  <2> QED
    BY <2>1, <2>2, <2>3, <2>4, <2>5
<1>2. BackendInv /\ [McpNext]_mcpvars => [A]_bvars
  BY <1>1
<1> QED
  BY <1>2, GatewayInvariance, PTL DEF McpSpec, EarlierCallsDoNotMark

-----------------------------------------------------------------------------
\* Until the gateway stops, what was shown was permitted and is still known.
Shown(t, e) ==
  /\ e[1] \in Services /\ e[2] \in Permissions \cap PermsOf[t]
  /\ mapped[e[1]] \in Permissions
  /\ e[1] \in BuiltIn => mapped[e[1]] = e[2]

ShownIsPermitted == restarts = 0 => \A t \in Tokens : \A e \in listing[t] : Shown(t, e)

\* A permission once mapped stays mapped until a stop, one built in the same.
LEMMA MappedGrows ==
  ASSUME BackendInv, BackendInv', BackendsMove \/ \E k \in Calls, s \in Services : BeginCall(k, s)
  PROVE  restarts' = 0 =>
           /\ restarts = 0
           /\ \A s \in Services : /\ mapped[s] \in Permissions => mapped'[s] \in Permissions
                                  /\ s \in BuiltIn => mapped'[s] = mapped[s]
<1> DEFINE Grows == \A s \in Services : /\ mapped[s] \in Permissions => mapped'[s] \in Permissions
                                        /\ s \in BuiltIn => mapped'[s] = mapped[s]
<1>1. ASSUME NEW answer \in [Services -> Rows], NEW new, NEW met, NEW gone,
             Registers(answer, new, met, gone)
      PROVE  Grows
  <2> DEFINE told == {s \in new \cap Dynamic : answer[s].tool # NoTool}
  <2> SUFFICES ASSUME NEW s \in Services
               PROVE  /\ mapped[s] \in Permissions => mapped'[s] \in Permissions
                      /\ s \in BuiltIn => mapped'[s] = mapped[s]
    OBVIOUS
  <2>1. mapped'[s] = IF s \in told THEN answer[s].tool ELSE mapped[s]
    BY <1>1 DEF Registers
  <2>2. mapped'[s] \in Permissions \cup {NoTool}
    BY DEF BackendInv, BackendTypes
  <2> QED
    BY <2>1, <2>2 DEF Dynamic
<1>2. CASE Refresh \/ StartGateway
  <2>1. restarts' = restarts
    BY <1>2 DEF Refresh, StartGateway, process
  <2>2. CASE UNCHANGED backends
    BY <2>1, <2>2 DEF backends
  <2>3. CASE RegistersAll(Offered)
    BY <1>1, <2>1, <2>3, OfferedRows DEF RegistersAll, BackendInv
  <2>4. CASE fetched # <<>> /\ (RegistersAll(fetched[1]) \/ RegistersSome(fetched[1]))
    <3>1. fetched[1] \in [Services -> Rows]
      BY <2>4 DEF BackendInv, BackendTypes
    <3>2. \E new, met, gone : Registers(fetched[1], new, met, gone)
      BY <2>4 DEF RegistersAll, RegistersSome
    <3> QED
      BY <1>1, <2>1, <3>1, <3>2
  <2> QED
    BY <1>2, <2>2, <2>3, <2>4 DEF Refresh, StartGateway
<1>3. CASE StopGateway
  BY <1>3 DEF StopGateway, BackendInv, BackendTypes
<1>4. ASSUME NEW s \in Services,
             CreateService(s) \/ UpdateService(s) \/ DeleteService(s) \/ DiscoverTools(s)
             \/ BackendTurns(s)
      PROVE  UNCHANGED <<mapped, restarts>>
  BY <1>4 DEF CreateService, UpdateService, DeleteService, DiscoverTools, WriteRow,
              BackendTurns, backends, process
<1>5. ASSUME NEW k \in Calls, EndsSomehow(k) PROVE UNCHANGED <<mapped, restarts>>
  BY <1>5 DEF EndsSomehow, CredentialRefused, Dispatch, DirectEnds, Answered, Opened,
              ErrorAnswered, Unreached, backends, process
<1>6. ASSUME FetchRegistry \/ \E k \in Calls, s \in Services : BeginCall(k, s)
      PROVE  UNCHANGED <<mapped, restarts>>
  BY <1>6 DEF FetchRegistry, BeginCall, backends, process
<1>7. UNCHANGED <<mapped, restarts>> => restarts = restarts' /\ Grows
  OBVIOUS
<1> QED
  BY <1>2, <1>3, <1>4, <1>5, <1>6, <1>7 DEF BackendsMove

LEMMA ShownStep ==
  ASSUME BackendInv, BackendInv', listing \in [Tokens -> SUBSET (Services \X Permissions)],
         ShownIsPermitted, [McpNext]_mcpvars
  PROVE  ShownIsPermitted' /\ listing' \in [Tokens -> SUBSET (Services \X Permissions)]
<1>1. CASE UNCHANGED <<bvars, listing>>
  BY <1>1 DEF bvars, backends, process, ShownIsPermitted, Shown
<1>2. ASSUME NEW t \in Tokens, ToolsList(t)
      PROVE  ShownIsPermitted' /\ listing' \in [Tokens -> SUBSET (Services \X Permissions)]
  <2> DEFINE L == {<<s, mapped[s]>> : s \in ToolsShown(t)}
  <2>1. UNCHANGED <<mapped, restarts>> /\ listing' = [listing EXCEPT ![t] = L]
    BY <1>2 DEF ToolsList, bvars, backends, process
  <2>2. ASSUME NEW s \in ToolsShown(t)
        PROVE  s \in Services /\ mapped[s] \in Permissions \cap PermsOf[t]
    <3>1. s \in Services /\ mapped[s] # NoTool /\ mapped[s] \in PermsOf[t]
      BY DEF ToolsShown, ToolsPermitted, Known
    <3> QED
      BY <3>1 DEF BackendInv, BackendTypes
  <2>3. L \in SUBSET (Services \X Permissions) /\ \A e \in L : Shown(t, e)
    BY <2>2 DEF Shown
  <2> HIDE DEF L
  <2>4. listing' \in [Tokens -> SUBSET (Services \X Permissions)]
    BY <2>1, <2>3
  <2>5. \A u \in Tokens : listing'[u] = IF u = t THEN L ELSE listing[u]
    BY <2>1
  <2> QED
    BY <2>1, <2>3, <2>4, <2>5 DEF ShownIsPermitted, Shown
<1>3. CASE UNCHANGED listing /\ (BackendsMove \/ \E k \in Calls, s \in Services : BeginCall(k, s))
  <2>1. restarts' = 0 =>
           /\ restarts = 0
           /\ \A s \in Services : /\ mapped[s] \in Permissions => mapped'[s] \in Permissions
                                  /\ s \in BuiltIn => mapped'[s] = mapped[s]
    BY <1>3, MappedGrows
  <2> QED
    BY <1>3, <2>1 DEF ShownIsPermitted, Shown
<1> QED
  BY <1>1, <1>2, <1>3, EndpointCases

\* Until the gateway stops, a token is shown only tools it may call itself,
\* whichever tokens share its session and whatever the catalogue drops, but
\* for a service that was registered anew with another permission.
THEOREM ShownCallable == McpSpec => []ShownToolsAreCallable
<1> DEFINE Inv == listing \in [Tokens -> SUBSET (Services \X Permissions)] /\ ShownIsPermitted
<1>1. McpInit => Inv
  BY DEF McpInit, ShownIsPermitted
<1>2. BackendInv /\ BackendInv' /\ Inv /\ [McpNext]_mcpvars => Inv'
  BY ShownStep
<1>3. Inv => ShownToolsAreCallable
  <2> SUFFICES ASSUME Inv, restarts = 0, NEW t \in Tokens, NEW e \in listing[t]
               PROVE  \/ e[1] \in ToolsCallable(t)
                      \/ /\ e[1] \in Dynamic
                         /\ mapped[e[1]] \in Permissions \ {e[2]}
    BY DEF ShownToolsAreCallable
  <2>1. e \in Services \X Permissions /\ Shown(t, e)
    BY DEF ShownIsPermitted
  <2>2. CASE mapped[e[1]] = e[2]
    <3>1. e[1] \in Services /\ mapped[e[1]] \in PermsOf[t] /\ mapped[e[1]] # NoTool
      BY <2>1, <2>2, BackendsAssumption DEF Shown
    <3> QED
      BY <3>1 DEF ToolsCallable, ToolsPermitted, Known
  <2>3. CASE mapped[e[1]] # e[2]
    BY <2>1, <2>3 DEF Shown, Dynamic
  <2> QED
    BY <2>2, <2>3
<1> HIDE DEF Inv
<1> QED
  BY <1>1, <1>2, <1>3, GatewayInvariance, PTL DEF McpSpec

-----------------------------------------------------------------------------
(* The fail-closed check, for any number of concurrent requests. *)

\* What makes AdmittedOnEvidence inductive: the age of the last 200 answer, and the
\* time its receiver or the cache may still use it, add up to a bounded time.
EvidenceIsFresh ==
  /\ cacheLeft > 0 => okAge + cacheLeft <= ProbeTimeout + CacheTime
  /\ \A r \in Requests :
       (req[r].phase = "answered" /\ req[r].ok) => okAge + req[r].left <= ProbeTimeout

IInv == TypeOK /\ OpenOnlyAfterThreshold /\ EvidenceIsFresh

\* The invariant holds of a checker that has just been created.
LEMMA InitIInv == Init => IInv
  BY ThresholdIsPositive, TimesAreNumbers
     DEF Init, IInv, TypeOK, OpenOnlyAfterThreshold, EvidenceIsFresh, Idle, AtRest, Stale

\* Counting one more failure keeps the counters in range, and opens the circuit only
\* at the threshold.
LEMMA RecordFailureKeeps ==
  ASSUME TypeOK, OpenOnlyAfterThreshold, RecordFailure
  PROVE  /\ failures' \in 0 .. Threshold
         /\ openLeft' \in 0 .. ResetTime
         /\ openLeft' > 0 => failures' = Threshold
  BY ThresholdIsPositive, TimesAreNumbers
     DEF TypeOK, OpenOnlyAfterThreshold, RecordFailure, OneMoreFailure

\* A request that comes to rest disturbs no other request's evidence.
LEMMA RestKeepsEvidence ==
  ASSUME IInv, NEW r \in Requests, NEW rest \in AtRest,
         req' = [req EXCEPT ![r] = rest], UNCHANGED <<okAge, cacheLeft>>
  PROVE  EvidenceIsFresh' /\ req' \in [Requests -> Probe \cup AtRest]
<1>1. req' \in [Requests -> Probe \cup AtRest]
  BY DEF IInv, TypeOK
<1>2. ASSUME NEW s \in Requests, req'[s].phase = "answered", req'[s].ok
      PROVE  okAge' + req'[s].left <= ProbeTimeout
  <2>1. s # r
    BY <1>2 DEF IInv, TypeOK, AtRest
  <2> QED
    BY <1>2, <2>1 DEF IInv, TypeOK, EvidenceIsFresh
<1> QED
  BY <1>1, <1>2 DEF IInv, EvidenceIsFresh

\* Every step of a request, of the clock and of the control plane keeps it.
LEMMA NextIInv == IInv /\ [Next]_vars => IInv'
<1> SUFFICES ASSUME IInv, [Next]_vars
             PROVE  IInv'
  OBVIOUS
<1> USE ThresholdIsPositive, TimesAreNumbers
<1> USE DEF IInv
<1>1. CASE UNCHANGED vars
  BY <1>1 DEF vars, TypeOK, OpenOnlyAfterThreshold, EvidenceIsFresh
<1>2. CASE Tick
  <2>1. TypeOK'
    <3>1. req' \in [Requests -> Probe \cup AtRest]
      BY <1>2 DEF Tick, TypeOK, InFlight, Probe, AtRest
    <3> QED
      BY <1>2, <3>1 DEF Tick, TypeOK, Less, Stale
  <2>2. OpenOnlyAfterThreshold'
    BY <1>2 DEF Tick, TypeOK, Less, OpenOnlyAfterThreshold
  <2>3. EvidenceIsFresh'
    <3>1. cacheLeft' > 0 => okAge' + cacheLeft' <= ProbeTimeout + CacheTime
      BY <1>2 DEF Tick, TypeOK, Less, Stale, EvidenceIsFresh
    <3>2. ASSUME NEW s \in Requests, req'[s].phase = "answered", req'[s].ok
          PROVE  okAge' + req'[s].left <= ProbeTimeout
      <4>1. /\ s \in InFlight
            /\ req[s].phase = "answered" /\ req[s].ok
            /\ req'[s].left = req[s].left - 1
        BY <1>2, <3>2 DEF Tick, TypeOK, InFlight, Probe, AtRest
      <4>2. req[s].left \in 0 .. ProbeTimeout
        BY <4>1 DEF TypeOK, Probe, AtRest
      <4> QED
        BY <1>2, <4>1, <4>2 DEF Tick, TypeOK, EvidenceIsFresh
    <3> QED
      BY <3>1, <3>2 DEF EvidenceIsFresh
  <2> QED
    BY <2>1, <2>2, <2>3
<1>3. CASE PlaneChanges
  BY <1>3 DEF PlaneChanges, TypeOK, OpenOnlyAfterThreshold, EvidenceIsFresh
<1>4. ASSUME NEW r \in Requests, RequestStep(r)
      PROVE  IInv'
  <2>1. CASE DenyWhileOpen(r) \/ AdmitFromCache(r) \/ Leave(r)
    <3>1. \E rest \in AtRest : req' = [req EXCEPT ![r] = rest]
      BY <2>1 DEF DenyWhileOpen, AdmitFromCache, Leave, Idle, Admitted, Denied, AtRest
    <3>2. UNCHANGED <<up, okAge, failures, openLeft, cacheLeft>>
      BY <2>1 DEF DenyWhileOpen, AdmitFromCache, Leave
    <3> QED
      BY <3>1, <3>2, RestKeepsEvidence DEF TypeOK, OpenOnlyAfterThreshold
  <2>2. CASE BeginProbe(r)
    <3>1. req' \in [Requests -> Probe \cup AtRest]
      BY <2>2 DEF BeginProbe, TypeOK, Probe
    <3>2. ASSUME NEW s \in Requests, req'[s].phase = "answered", req'[s].ok
          PROVE  okAge' + req'[s].left <= ProbeTimeout
      <4>1. s # r
        BY <2>2, <3>2 DEF BeginProbe, TypeOK
      <4> QED
        BY <2>2, <3>2, <4>1 DEF BeginProbe, TypeOK, EvidenceIsFresh
    <3> QED
      BY <2>2, <3>1, <3>2 DEF BeginProbe, TypeOK, OpenOnlyAfterThreshold, EvidenceIsFresh
  <2>3. CASE Answer(r)
    <3>1. req[r].left \in 0 .. ProbeTimeout
      BY <2>3 DEF Answer, TypeOK, Probe, AtRest
    <3>2. req' \in [Requests -> Probe \cup AtRest]
      BY <2>3, <3>1 DEF Answer, TypeOK, Probe
    <3>3. okAge' \in 0 .. Stale /\ okAge' <= okAge
      BY <2>3 DEF Answer, TypeOK, Stale
    <3>4. ASSUME NEW s \in Requests, req'[s].phase = "answered", req'[s].ok
          PROVE  okAge' + req'[s].left <= ProbeTimeout
      <4>1. CASE s = r
        BY <2>3, <3>1, <3>4, <4>1 DEF Answer, TypeOK
      <4>2. CASE s # r
        <5>1. req'[s] = req[s]
          BY <2>3, <4>2 DEF Answer, TypeOK
        <5>2. req[s].left \in 0 .. ProbeTimeout
          BY <3>4, <5>1 DEF TypeOK, Probe, AtRest
        <5> QED
          BY <3>3, <3>4, <5>1, <5>2 DEF TypeOK, EvidenceIsFresh
      <4> QED
        BY <4>1, <4>2
    <3>5. cacheLeft' > 0 => okAge' + cacheLeft' <= ProbeTimeout + CacheTime
      BY <2>3, <3>3 DEF Answer, TypeOK, EvidenceIsFresh
    <3> QED
      BY <2>3, <3>2, <3>3, <3>4, <3>5
         DEF Answer, TypeOK, OpenOnlyAfterThreshold, EvidenceIsFresh
  <2>4. CASE ReceiveHealthy(r)
    <3>1. req[r].left \in 0 .. ProbeTimeout
      BY <2>4 DEF ReceiveHealthy, TypeOK, Probe, AtRest
    <3>2. okAge <= ProbeTimeout
      BY <2>4, <3>1 DEF ReceiveHealthy, TypeOK, EvidenceIsFresh
    <3>3. ASSUME NEW s \in Requests, req'[s].phase = "answered", req'[s].ok
          PROVE  okAge' + req'[s].left <= ProbeTimeout
      <4>1. s # r
        BY <2>4, <3>3 DEF ReceiveHealthy, TypeOK, Admitted
      <4> QED
        BY <2>4, <3>3, <4>1 DEF ReceiveHealthy, TypeOK, EvidenceIsFresh
    <3>4. req' \in [Requests -> Probe \cup AtRest]
      BY <2>4 DEF ReceiveHealthy, TypeOK, Admitted, AtRest
    <3> QED
      BY <2>4, <3>2, <3>3, <3>4
         DEF ReceiveHealthy, ResetCircuit, TypeOK, OpenOnlyAfterThreshold, EvidenceIsFresh
  <2>5. CASE ReceiveUnhealthy(r) \/ ConnectFails(r) \/ TimesOut(r)
    <3>1. /\ RecordFailure
          /\ req' = [req EXCEPT ![r] = Denied]
          /\ UNCHANGED <<up, okAge, cacheLeft>>
      BY <2>5 DEF ReceiveUnhealthy, ConnectFails, TimesOut
    <3>2. EvidenceIsFresh' /\ req' \in [Requests -> Probe \cup AtRest]
      <4>1. Denied \in AtRest
        BY DEF Denied, AtRest
      <4> QED
        BY <3>1, <4>1, RestKeepsEvidence
    <3> QED
      BY <3>1, <3>2, RecordFailureKeeps DEF TypeOK, OpenOnlyAfterThreshold
  <2> QED
    BY <1>4, <2>1, <2>2, <2>3, <2>4, <2>5 DEF RequestStep, Check, Receive
<1> QED
  BY <1>1, <1>2, <1>3, <1>4 DEF Next

\* The breaker's counters stay in range and the invariant above holds throughout.
THEOREM Invariance == Spec => []IInv
  BY InitIInv, NextIInv, PTL DEF Spec

\* check_health never leaves its value ranges, whatever the answers' order.
THEOREM TypeCorrect == Spec => []TypeOK
  BY Invariance, PTL DEF IInv

\* The circuit opens only at the threshold.
THEOREM CircuitOpensAtThreshold == Spec => []OpenOnlyAfterThreshold
  BY Invariance, PTL DEF IInv

\* A request is only ever let through on a recent 200 answer.
LEMMA AdmissionNeedsEvidence ==
  ASSUME IInv, [Next]_vars, NEW r \in Requests,
         req[r].phase # "admitted", req'[r].phase = "admitted"
  PROVE  okAge < Stale
<1> USE ThresholdIsPositive, TimesAreNumbers
<1>1. RequestStep(r)
  <2>1. ~Tick /\ ~PlaneChanges /\ ~UNCHANGED vars
    BY DEF Tick, PlaneChanges, vars, InFlight, IInv, TypeOK, AtRest, Probe
  <2>2. PICK s \in Requests : RequestStep(s)
    BY <2>1 DEF Next
  <2>3. \E status : req' = [req EXCEPT ![s] = status]
    BY <2>2 DEF RequestStep, Check, Receive, DenyWhileOpen, AdmitFromCache, BeginProbe,
                Answer, ReceiveHealthy, ReceiveUnhealthy, ConnectFails, TimesOut, Leave
  <2>4. s = r
    BY <2>3 DEF IInv, TypeOK
  <2> QED
    BY <2>2, <2>4
<1>2. AdmitFromCache(r) \/ ReceiveHealthy(r)
  BY <1>1 DEF IInv, TypeOK, RequestStep, Check, Receive, DenyWhileOpen, BeginProbe, Answer,
              ReceiveUnhealthy, ConnectFails, TimesOut, Leave, Idle, Denied
<1>3. CASE AdmitFromCache(r)
  BY <1>3 DEF AdmitFromCache, IInv, TypeOK, EvidenceIsFresh, Stale
<1>4. CASE ReceiveHealthy(r)
  <2>1. req[r].left \in 0 .. ProbeTimeout
    BY <1>4 DEF ReceiveHealthy, IInv, TypeOK, Probe, AtRest
  <2> QED
    BY <1>4, <2>1 DEF ReceiveHealthy, IInv, TypeOK, EvidenceIsFresh, Stale
<1> QED
  BY <1>2, <1>3, <1>4

\* Fail closed: every admission rests on an answer of the control plane that is at
\* most a timeout plus the cache time old.
THEOREM FailsClosed == Spec => AdmittedOnEvidence
<1>1. IInv /\ [Next]_vars =>
        [\A r \in Requests :
           (req[r].phase # "admitted" /\ req'[r].phase = "admitted") => okAge < Stale]_vars
  BY AdmissionNeedsEvidence
<1> QED
  BY <1>1, Invariance, PTL DEF Spec, AdmittedOnEvidence

-----------------------------------------------------------------------------
(* The counts of failures. *)

Rounds == [pc : {"idle", "next", "probing", "posting"}, todo : SUBSET Watched,
           svc : Watched \cup {"none"}, count : Nat]

HealthTypes ==
  /\ {toolErrors, loaderErrors, happened, shown} \subseteq [Watched -> Nat]
  /\ probed \subseteq Watched
  /\ round \in Rounds
  /\ round.pc \in {"probing", "posting"} => round.svc \in Watched
  /\ round.pc # "posting" => round.count = 0

HealthInv == HealthTypes /\ ErrorsCountedOnce

LEMMA CountFacts ==
  ASSUME HealthTypes, NEW s \in Watched
  PROVE  /\ toolErrors[s] \in Nat /\ loaderErrors[s] \in Nat /\ happened[s] \in Nat
         /\ shown[s] \in Nat /\ round.count \in Nat
BY DEF HealthTypes, Rounds

\* A round that goes on with a service, as pc says, and has counted n of it.
LEMMA RoundMoves ==
  ASSUME HealthTypes, NEW pc \in {"idle", "next", "probing", "posting"},
         NEW todo \in SUBSET Watched, NEW s \in Watched \cup {"none"}, NEW n \in Nat,
         round' = [pc |-> pc, todo |-> todo, svc |-> s, count |-> n]
  PROVE  round' \in Rounds /\ round'.pc = pc /\ round'.svc = s /\ round'.count = n
BY DEF Rounds

LEMMA HealthStep ==
  ASSUME HealthInv, [HealthNext]_hvars
  PROVE  HealthInv'
<1> USE DEF HealthInv
<1>1. CASE UNCHANGED <<shown, reportvars>>
  BY <1>1 DEF HealthTypes, ErrorsCountedOnce, reportvars, errorvars
<1>2. ASSUME NEW s \in Watched, NEW st \in {"absent", "active", "other"}, ChangeEntry(s, st)
      PROVE  HealthInv'
  <2>1. UNCHANGED reportvars
    BY <1>2 DEF ChangeEntry
  <2>2. /\ shown' \in [Watched -> Nat]
        /\ \A t \in Watched : shown'[t] = shown[t] \/ shown'[t] = 0
    BY <1>2 DEF ChangeEntry, HealthTypes
  <2> QED
    BY <2>1, <2>2, CountFacts DEF HealthTypes, ErrorsCountedOnce, reportvars, errorvars
<1>3. ASSUME NEW s \in Watched, LoaderTurns(s) PROVE HealthInv'
  <2>1. UNCHANGED <<shown, round, toolErrors, happened>> /\ probed' \subseteq Watched
    BY <1>3 DEF LoaderTurns, rowvars, HealthTypes
  <2>2. /\ loaderErrors' \in [Watched -> Nat]
        /\ \A t \in Watched : loaderErrors'[t] = loaderErrors[t] \/ loaderErrors'[t] = 0
    BY <1>3 DEF LoaderTurns, HealthTypes
  <2> QED
    BY <2>1, <2>2, CountFacts DEF HealthTypes, ErrorsCountedOnce
<1>4. ASSUME NEW s \in Watched, ToolCallFails(s) PROVE HealthInv'
  <2>1. /\ UNCHANGED <<shown, round, loaderErrors, probed>>
        /\ toolErrors' = OneMore(toolErrors, s) /\ happened' = OneMore(happened, s)
    BY <1>4 DEF ToolCallFails, rowvars
  <2>2. /\ {toolErrors', happened'} \subseteq [Watched -> Nat]
        /\ \A t \in Watched : /\ toolErrors'[t] = IF t = s THEN toolErrors[t] + 1 ELSE toolErrors[t]
                              /\ happened'[t] = IF t = s THEN happened[t] + 1 ELSE happened[t]
    BY <2>1 DEF OneMore, HealthTypes
  <2> QED
    BY <2>1, <2>2, CountFacts DEF HealthTypes, ErrorsCountedOnce
<1>5. CASE ReportBegins
  <2>1. /\ UNCHANGED <<shown, happened, probed>> /\ round.pc = "idle"
        /\ toolErrors' = NoErrors
        /\ loaderErrors' = [s \in Watched |-> loaderErrors[s] + toolErrors[s]]
        /\ round' = [pc |-> "next", todo |-> probed, svc |-> "none", count |-> 0]
    BY <1>5 DEF ReportBegins, rowvars, Drained, NoRound
  <2>2. round' \in Rounds /\ round'.pc = "next" /\ round'.svc = "none" /\ round'.count = 0
    BY <2>1, RoundMoves DEF HealthTypes
  <2>3. /\ {toolErrors', loaderErrors'} \subseteq [Watched -> Nat]
        /\ \A t \in Watched : /\ toolErrors'[t] = 0
                              /\ loaderErrors'[t] = loaderErrors[t] + toolErrors[t]
    BY <2>1, CountFacts DEF NoErrors
  <2> QED
    BY <2>1, <2>2, <2>3, CountFacts DEF HealthTypes, ErrorsCountedOnce
<1>6. ASSUME NEW s \in Watched, ReportTakes(s) PROVE HealthInv'
  <2>1. /\ UNCHANGED <<shown, errorvars, probed>> /\ round.pc = "next"
        /\ round' = [round EXCEPT !.pc = "probing", !.svc = s, !.todo = @ \ {s}]
    BY <1>6 DEF ReportTakes, rowvars
  <2>2. round' \in Rounds /\ round'.pc = "probing" /\ round'.svc = s /\ round'.count = 0
    BY <2>1 DEF HealthTypes, Rounds
  <2> QED
    BY <2>1, <2>2, CountFacts DEF HealthTypes, ErrorsCountedOnce, errorvars
<1>7. CASE ProbeSucceeds
  <2> DEFINE s == round.svc
  <2>1. /\ UNCHANGED <<shown, toolErrors, happened, probed>> /\ round.pc = "probing"
        /\ loaderErrors' = [loaderErrors EXCEPT ![s] = 0]
        /\ round' = [round EXCEPT !.pc = "posting", !.count = 0]
    BY <1>7 DEF ProbeSucceeds, rowvars
  <2>2. round' \in Rounds /\ round'.pc = "posting" /\ round'.svc = s /\ round'.count = 0
    BY <2>1 DEF HealthTypes, Rounds
  <2>3. /\ s \in Watched /\ loaderErrors' \in [Watched -> Nat]
        /\ \A t \in Watched : loaderErrors'[t] = IF t = s THEN 0 ELSE loaderErrors[t]
    BY <2>1 DEF HealthTypes
  <2> QED
    BY <2>1, <2>2, <2>3, CountFacts DEF HealthTypes, ErrorsCountedOnce
<1>8. CASE ProbeFails
  <2> DEFINE s == round.svc
             n == loaderErrors[s] + 1
  <2>1. /\ UNCHANGED <<shown, toolErrors, probed>> /\ round.pc = "probing"
        /\ loaderErrors' = [loaderErrors EXCEPT ![s] = 0]
        /\ happened' = OneMore(happened, s)
        /\ round' = [round EXCEPT !.pc = "posting", !.count = n]
    BY <1>8 DEF ProbeFails, rowvars
  <2>2. s \in Watched /\ n \in Nat /\ round.count = 0
    BY <2>1, CountFacts DEF HealthTypes
  <2>3. n = loaderErrors[s] + 1
    OBVIOUS
  <2> HIDE DEF n
  <2>4. round' \in Rounds /\ round'.pc = "posting" /\ round'.svc = s /\ round'.count = n
    BY <2>1, <2>2 DEF HealthTypes, Rounds
  <2>5. /\ {loaderErrors', happened'} \subseteq [Watched -> Nat]
        /\ \A t \in Watched : /\ loaderErrors'[t] = IF t = s THEN 0 ELSE loaderErrors[t]
                              /\ happened'[t] = IF t = s THEN happened[t] + 1 ELSE happened[t]
    BY <2>1, <2>2 DEF HealthTypes, OneMore
  <2> QED
    BY <2>1, <2>2, <2>3, <2>4, <2>5, CountFacts DEF HealthTypes, ErrorsCountedOnce
<1>9. CASE PostArrives
  <2> DEFINE s == round.svc
  <2>1. /\ UNCHANGED <<toolErrors, loaderErrors, happened, probed>> /\ round.pc = "posting"
        /\ round' = [round EXCEPT !.pc = "next", !.svc = "none", !.count = 0]
        /\ shown' = [shown EXCEPT ![s] = IF entry[s] = "absent" THEN @ ELSE round.count]
    BY <1>9 DEF PostArrives
  <2>2. round' \in Rounds /\ round'.pc = "next" /\ round'.svc = "none" /\ round'.count = 0
    BY <2>1 DEF HealthTypes, Rounds
  <2>3. s \in Watched /\ round.count \in Nat
    BY <2>1, CountFacts DEF HealthTypes
  <2>4. /\ shown' \in [Watched -> Nat]
        /\ \A t \in Watched : shown'[t] = shown[t] \/ (t = s /\ shown'[t] = round.count)
    BY <2>1, <2>3 DEF HealthTypes
  <2> QED
    BY <2>1, <2>2, <2>3, <2>4, CountFacts DEF HealthTypes, ErrorsCountedOnce
<1>10. CASE PostFails
  <2>1. /\ UNCHANGED <<shown, toolErrors, loaderErrors, happened, probed>>
        /\ round' = [round EXCEPT !.pc = "next", !.svc = "none", !.count = 0]
    BY <1>10 DEF PostFails, rowvars
  <2>2. round' \in Rounds /\ round'.pc = "next" /\ round'.svc = "none" /\ round'.count = 0
    BY <2>1 DEF HealthTypes, Rounds
  <2> QED
    BY <2>1, <2>2, CountFacts DEF HealthTypes, ErrorsCountedOnce
<1>11. CASE ReportEnds \/ ReporterRestarts
  <2>1. /\ UNCHANGED <<shown, happened>> /\ probed' \subseteq Watched
        /\ round' = [pc |-> "idle", todo |-> {}, svc |-> "none", count |-> 0]
    BY <1>11 DEF ReportEnds, ReporterRestarts, rowvars, errorvars, NoRound, HealthTypes
  <2>2. round' \in Rounds /\ round'.pc = "idle" /\ round'.svc = "none" /\ round'.count = 0
    BY <2>1, RoundMoves
  <2>3. /\ {toolErrors', loaderErrors'} \subseteq [Watched -> Nat]
        /\ \A t \in Watched : /\ toolErrors'[t] = toolErrors[t] \/ toolErrors'[t] = 0
                              /\ loaderErrors'[t] = loaderErrors[t] \/ loaderErrors'[t] = 0
    BY <1>11 DEF ReportEnds, ReporterRestarts, errorvars, NoErrors, HealthTypes
  <2> QED
    BY <2>1, <2>2, <2>3, CountFacts DEF HealthTypes, ErrorsCountedOnce
<1>12. CASE \/ \E s \in Watched : HealthGetsStale(s) \/ PollTakes(s)
            \/ PollBegins \/ PollWrites \/ PollEnds \/ PollRestarts
            \/ UNCHANGED hvars
  BY <1>1, <1>12 DEF HealthGetsStale, PollTakes, PollBegins, PollWrites, PollEnds, PollRestarts,
     hvars, rowvars
<1> QED
  BY <1>2, <1>3, <1>4, <1>5, <1>6, <1>7, <1>8, <1>9, <1>10, <1>11, <1>12 DEF HealthNext

(* However calls fail while their counts are drained, probed, posted, lost   *)
(* and dropped, no failure of any service is counted twice.                  *)
THEOREM ErrorCounts == HealthSpec => []ErrorsCountedOnce
<1>1. HealthInit => HealthInv
  BY DEF HealthInit, HealthInv, HealthTypes, ErrorsCountedOnce, Rounds, NoRound, NoErrors
<1>2. HealthInv /\ [HealthNext]_hvars => HealthInv'
  BY HealthStep
<1> QED
  BY <1>1, <1>2, PTL DEF HealthSpec, HealthInv
=============================================================================
