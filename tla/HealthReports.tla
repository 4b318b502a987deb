---------------------------- MODULE HealthReports ----------------------------
(* How the health of a service comes to be known: the control plane's poller *)
(* (health_poller.py) and the gateway's reports (dynamic_registry.py), which *)
(* carry the failures that tool calls counted (tools_call.py).  Both write   *)
(* the health columns of the service's row; each probes one service at a     *)
(* time and awaits its answer.                                               *)
EXTENDS Naturals

CONSTANTS
  Watched,      \* services
  MaxErrors,    \* bounds of the instance: failures of a service,
  MaxChanges    \* changes of the catalogue and restarts of the poller

VARIABLES
  entry,        \* the status of the service's row, "absent" for none
  checked,      \* how long ago its health was written: fresh, or stale
  shown,        \* health_error_count_24h
  poll,         \* the poller's round
  probed,       \* _known_services of the gateway's loader
  toolErrors,   \* _error_counts of tools_call
  loaderErrors, \* _error_counts of the loader
  round,        \* the loader's round of reports
  happened,     \* failures of calls and of the gateway's probes, ever
  unsent,       \* services with failures the gateway forgot or could not post
  changes

rowvars    == <<entry, checked, shown>>
errorvars  == <<toolErrors, loaderErrors, happened, unsent>>
reportvars == <<probed, round, errorvars>>
hvars      == <<rowvars, poll, reportvars, changes>>

NoPoll  == [pc |-> "idle", todo |-> {}, svc |-> "none", expired |-> FALSE, gone |-> {}]
NoRound == [pc |-> "idle", todo |-> {}, svc |-> "none", count |-> 0]
NoErrors == [s \in Watched |-> 0]

HealthInit ==
  /\ entry = [s \in Watched |-> "absent"]
  /\ checked = [s \in Watched |-> "never"]
  /\ shown = NoErrors
  /\ poll = NoPoll /\ round = NoRound
  /\ probed = {}
  /\ toolErrors = NoErrors /\ loaderErrors = NoErrors /\ happened = NoErrors
  /\ unsent = {}
  /\ changes = 0

-----------------------------------------------------------------------------
(* The administrators' changes.  The poller's round keeps the row it listed: *)
(* a deleted row stays gone for it, even when the service is made anew.      *)
ChangeEntry(s, st) ==
  /\ st # entry[s]
  /\ changes < MaxChanges /\ changes' = changes + 1
  /\ entry' = [entry EXCEPT ![s] = st]
  /\ IF st = "absent" \/ entry[s] = "absent"
     THEN /\ checked' = [checked EXCEPT ![s] = "never"]
          /\ shown' = [shown EXCEPT ![s] = 0]
     ELSE UNCHANGED <<checked, shown>>
  /\ poll' = IF st = "absent" /\ s \in poll.todo
             THEN [poll EXCEPT !.gone = @ \union {s}] ELSE poll
  /\ UNCHANGED reportvars

(* Five minutes without a check. *)
HealthGetsStale(s) ==
  /\ checked[s] = "fresh"
  /\ checked' = [checked EXCEPT ![s] = "stale"]
  /\ UNCHANGED <<entry, shown, poll, reportvars, changes>>

(* update_health, where the row is there. *)
Writes(s) == checked' = [checked EXCEPT ![s] = IF entry[s] = "absent" THEN @ ELSE "fresh"]

-----------------------------------------------------------------------------
(* run_once: the active services are listed, *)
PollBegins ==
  /\ poll.pc = "idle"
  /\ poll' = [NoPoll EXCEPT !.pc = "next", !.todo = {s \in Watched : entry[s] = "active"}]
  /\ UNCHANGED <<rowvars, reportvars, changes>>

(* and probed one by one.  A commit of the round expires what was listed, so *)
(* that the rows are read again as they are reached: one that was deleted    *)
(* raises an exception, which ends the round and not the loop.               *)
AbortedForGood == [NoPoll EXCEPT !.pc = "dead"]
Aborted == NoPoll
PollTakes(s) ==
  /\ poll.pc = "next" /\ s \in poll.todo
  /\ poll' = IF poll.expired /\ s \in poll.gone THEN Aborted
             ELSE [poll EXCEPT !.pc = "probing", !.svc = s, !.todo = @ \ {s}]
  /\ UNCHANGED <<rowvars, reportvars, changes>>

(* The answer, or its absence, is written to the service's row of then. *)
PollWrites ==
  LET s == poll.svc IN
  /\ poll.pc = "probing"
  /\ Writes(s)
  /\ poll' = [poll EXCEPT !.pc = "next", !.expired = @ \/ entry[s] # "absent"]
  /\ UNCHANGED <<entry, shown, reportvars, changes>>

PollEnds ==
  /\ poll.pc = "next" /\ poll.todo = {}
  /\ poll' = NoPoll
  /\ UNCHANGED <<rowvars, reportvars, changes>>

(* The control plane restarts: the task is made anew. *)
PollRestarts ==
  /\ poll # NoPoll
  /\ changes < MaxChanges /\ changes' = changes + 1
  /\ poll' = NoPoll
  /\ UNCHANGED <<rowvars, reportvars>>

-----------------------------------------------------------------------------
(* The loader takes services up and drops them, as Backends has it; what it  *)
(* counted for a service it drops is forgotten.                              *)
LoaderTurns(s) ==
  /\ IF s \in probed
     THEN /\ probed' = probed \ {s}
          /\ loaderErrors' = [loaderErrors EXCEPT ![s] = 0]
          /\ unsent' = unsent \union {s}
     ELSE /\ probed' = probed \union {s}
          /\ UNCHANGED <<loaderErrors, unsent>>
  /\ UNCHANGED <<rowvars, poll, round, toolErrors, happened, changes>>

OneMore(f, s) == [f EXCEPT ![s] = @ + 1]

(* increment_error_count: a call ends with an exception, of any service, at  *)
(* any time.                                                                 *)
ToolCallFails(s) ==
  /\ happened[s] < MaxErrors
  /\ happened' = OneMore(happened, s)
  /\ toolErrors' = OneMore(toolErrors, s)
  /\ UNCHANGED <<rowvars, poll, probed, loaderErrors, round, unsent, changes>>

(* report_health: the counts of the calls are drained into the loader's, and *)
(* the services known by then are listed.                                    *)
DrainedKept == toolErrors
Drained == NoErrors
ReportBegins ==
  /\ round.pc = "idle"
  /\ toolErrors' = Drained
  /\ loaderErrors' = [s \in Watched |-> loaderErrors[s] + toolErrors[s]]
  /\ round' = [NoRound EXCEPT !.pc = "next", !.todo = probed]
  /\ UNCHANGED <<rowvars, poll, probed, happened, unsent, changes>>

ReportTakes(s) ==
  /\ round.pc = "next" /\ s \in round.todo
  /\ round' = [round EXCEPT !.pc = "probing", !.svc = s, !.todo = @ \ {s}]
  /\ UNCHANGED <<rowvars, poll, probed, errorvars, changes>>

(* _probe_backend_health: a probe that succeeds discards the service's count, *)
(* one that fails adds to it; the count is taken out and posted.             *)
ProbeSucceeds ==
  LET s == round.svc IN
  /\ round.pc = "probing"
  /\ loaderErrors' = [loaderErrors EXCEPT ![s] = 0]
  /\ round' = [round EXCEPT !.pc = "posting", !.count = 0]
  /\ UNCHANGED <<rowvars, poll, probed, toolErrors, happened, unsent, changes>>

ProbeFails ==
  LET s == round.svc IN
  /\ round.pc = "probing"
  /\ happened[s] < MaxErrors
  /\ happened' = OneMore(happened, s)
  /\ loaderErrors' = [loaderErrors EXCEPT ![s] = 0]
  /\ round' = [round EXCEPT !.pc = "posting", !.count = loaderErrors[s] + 1]
  /\ UNCHANGED <<rowvars, poll, probed, toolErrors, unsent, changes>>

(* _post_health and report_service_health: the count replaces the one shown. *)
PostArrives ==
  LET s == round.svc IN
  /\ round.pc = "posting"
  /\ Writes(s)
  /\ shown' = [shown EXCEPT ![s] = IF entry[s] = "absent" THEN @ ELSE round.count]
  /\ round' = [round EXCEPT !.pc = "next", !.svc = "none", !.count = 0]
  /\ unsent' = IF entry[s] = "absent" THEN unsent \union {s} ELSE unsent
  /\ UNCHANGED <<entry, poll, probed, toolErrors, loaderErrors, happened, changes>>

(* A post that fails is only logged, and its count is gone. *)
PostFails ==
  /\ round.pc = "posting"
  /\ round' = [round EXCEPT !.pc = "next", !.svc = "none", !.count = 0]
  /\ unsent' = unsent \union {round.svc}
  /\ UNCHANGED <<rowvars, poll, probed, toolErrors, loaderErrors, happened, changes>>

ReportEnds ==
  /\ round.pc = "next" /\ round.todo = {}
  /\ round' = NoRound
  /\ UNCHANGED <<rowvars, poll, probed, errorvars, changes>>

(* The gateway restarts. *)
ReporterRestarts ==
  /\ probed' = {} /\ round' = NoRound
  /\ toolErrors' = NoErrors /\ loaderErrors' = NoErrors
  /\ unsent' = Watched
  /\ UNCHANGED <<rowvars, poll, happened, changes>>

HealthNext ==
  \/ \E s \in Watched, st \in {"absent", "active", "other"} : ChangeEntry(s, st)
  \/ \E s \in Watched :
       \/ HealthGetsStale(s) \/ PollTakes(s) \/ LoaderTurns(s)
       \/ ToolCallFails(s) \/ ReportTakes(s)
  \/ PollBegins \/ PollWrites \/ PollEnds \/ PollRestarts
  \/ ReportBegins \/ ProbeSucceeds \/ ProbeFails \/ PostArrives \/ PostFails \/ ReportEnds
  \/ ReporterRestarts

(* run_loop carries on after every round, however it ended; a probe answers  *)
(* or times out in five seconds.  The gateway may be down for good.          *)
PollFair ==
  WF_hvars(PollBegins \/ PollWrites \/ PollEnds \/ \E s \in Watched : PollTakes(s))

HealthSpec == HealthInit /\ [][HealthNext]_hvars /\ PollFair

-----------------------------------------------------------------------------
(* However calls fail while counts are drained, probed, posted and dropped,  *)
(* no failure is counted twice: neither what is shown of a service nor what  *)
(* the gateway still holds of it exceeds what happened.                      *)
ErrorsCountedOnce ==
  \A s \in Watched :
    /\ toolErrors[s] + loaderErrors[s] + (IF round.svc = s THEN round.count ELSE 0)
         <= happened[s]
    /\ shown[s] <= happened[s]

(* The health of a service that stays active is checked again and again, with *)
(* no gateway at all, and although a row deleted in the middle of a round    *)
(* takes the rest of the round with it.                                      *)
LiveServicesAreChecked ==
  \A s \in Watched : <>[](entry[s] = "active") => []<>(checked[s] = "fresh")

(* "Rolling 24h error count": when nothing waits to be reported and no post  *)
(* was lost, the number shown is the number of failures so far.  (No day     *)
(* passes in the model.)                                                     *)
ErrorCountIsRolling ==
  \A s \in Watched :
    /\ entry[s] # "absent" /\ checked[s] # "never" /\ s \in probed /\ s \notin unsent
    /\ toolErrors[s] = 0 /\ loaderErrors[s] = 0 /\ round.svc # s
    => shown[s] = happened[s]
=============================================================================
