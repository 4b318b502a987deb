------------------------------ MODULE AuditTrail ------------------------------
(* The way of an audited tool call from the gateway (middleware/audit.py) to *)
(* a reader of the control plane's event stream (endpoints/audit.py).  The   *)
(* gateway posts each event from a task of its own and does not wait for it; *)
(* the control plane stamps and stores each in a thread of its own; the      *)
(* reader is sent, every two seconds, what is stamped later than the last    *)
(* event it was sent.                                                        *)
EXTENDS Naturals, FiniteSets

CONSTANTS
  Events,
  Batch,         \* events sent at a time
  MaxStamp,      \* bounds of the instance: readings of the clock,
  MaxAuditFaults \* stops of a process and new connections of the reader

VARIABLES
  task,       \* the gateway's task of each event
  stored,     \* its row: none, stamped by a request under way, or committed
  stamp,      \* the row's timestamp
  clock,
  logged,     \* events in the gateway's own log
  cursor,     \* the stamp of the last event sent, 0 for none
  streamed,   \* events the reader has been sent
  overtaken,  \* events committed behind the cursor, or tied with it at the limit
  auditFaults

trailvars == <<task, stored, stamp, clock, logged, cursor, streamed, overtaken, auditFaults>>

TrailInit ==
  /\ task = [e \in Events |-> "none"]
  /\ stored = [e \in Events |-> "none"]
  /\ stamp = [e \in Events |-> 0]
  /\ clock = 1
  /\ logged = {} /\ cursor = 0 /\ streamed = {} /\ overtaken = {}
  /\ auditFaults = 0

-----------------------------------------------------------------------------
(* _send_event_async: the call goes on, its event is left to a task. *)
AuditCall(e) ==
  /\ task[e] = "none"
  /\ task' = [task EXCEPT ![e] = "pending"]
  /\ UNCHANGED <<stored, stamp, clock, logged, cursor, streamed, overtaken, auditFaults>>

(* log_event up to its commit: the time is taken first. *)
StampEvent(e) ==
  /\ task[e] = "pending" /\ stored[e] = "none"
  /\ stored' = [stored EXCEPT ![e] = "stamped"]
  /\ stamp' = [stamp EXCEPT ![e] = clock]
  /\ UNCHANGED <<task, clock, logged, cursor, streamed, overtaken, auditFaults>>

CommitEvent(e) ==
  /\ stored[e] = "stamped"
  /\ stored' = [stored EXCEPT ![e] = "committed"]
  /\ overtaken' = IF stamp[e] <= cursor THEN overtaken \union {e} ELSE overtaken
  /\ UNCHANGED <<task, stamp, clock, logged, cursor, streamed, auditFaults>>

(* _send_event: the answer arrived, *)
EventAccepted(e) ==
  /\ task[e] = "pending" /\ stored[e] = "committed"
  /\ task' = [task EXCEPT ![e] = "done"]
  /\ UNCHANGED <<stored, stamp, clock, logged, cursor, streamed, overtaken, auditFaults>>

(* or it did not, in five seconds or because of an error: the event is       *)
(* logged at the gateway, and what the control plane began goes on.          *)
LoggedNot(e) == logged
LoggedToo(e) == logged \union {e}
EventRefused(e) ==
  /\ task[e] = "pending"
  /\ task' = [task EXCEPT ![e] = "done"]
  /\ logged' = LoggedToo(e)
  /\ UNCHANGED <<stored, stamp, clock, cursor, streamed, overtaken, auditFaults>>

-----------------------------------------------------------------------------
Pending == {e \in Events : stored[e] = "committed" /\ stamp[e] > cursor}

(* The first of what is later than the cursor, ties in any order. *)
NewestFirst(S) ==
  /\ Cardinality(S) <= Batch
  /\ \A e \in S, x \in Pending \ S : stamp[x] <= stamp[e] /\ Cardinality(S) = Batch
OldestFirst(S) ==
  /\ Cardinality(S) <= Batch
  /\ \A e \in S, x \in Pending \ S : stamp[e] <= stamp[x] /\ Cardinality(S) = Batch

(* stream_audit_events: a batch, of which the last becomes the cursor. *)
StreamBatch(S) ==
  /\ S # {} /\ OldestFirst(S)
  /\ streamed' = streamed \union S
  /\ \E last \in S :
       /\ \A e \in S : stamp[e] <= stamp[last]
       /\ cursor' = stamp[last]
       /\ overtaken' = overtaken \union {x \in Pending \ S : stamp[x] = stamp[last]}
  /\ UNCHANGED <<task, stored, stamp, clock, logged, auditFaults>>

StreamPolls == \E S \in SUBSET Pending : StreamBatch(S)

-----------------------------------------------------------------------------
AuditFault == auditFaults < MaxAuditFaults /\ auditFaults' = auditFaults + 1

(* A reader that connects again is sent everything from the first event on. *)
ReaderReconnects ==
  /\ cursor # 0
  /\ AuditFault
  /\ cursor' = 0 /\ overtaken' = {}
  /\ UNCHANGED <<task, stored, stamp, clock, logged, streamed>>

(* The gateway stops without waiting for its tasks (nothing calls flush). *)
TasksDropped ==
  /\ AuditFault
  /\ task' = [e \in Events |-> IF task[e] = "pending" THEN "dropped" ELSE task[e]]
  /\ UNCHANGED <<stored, stamp, clock, logged, cursor, streamed, overtaken>>

(* The control plane stops: what was not committed is gone, and the reader   *)
(* has to connect again.                                                     *)
StorersDie ==
  /\ AuditFault
  /\ stored' = [e \in Events |-> IF stored[e] = "stamped" THEN "gone" ELSE stored[e]]
  /\ cursor' = 0 /\ overtaken' = {}
  /\ UNCHANGED <<task, stamp, clock, logged, streamed>>

ClockTicks ==
  /\ clock < MaxStamp
  /\ clock' = clock + 1
  /\ UNCHANGED <<task, stored, stamp, logged, cursor, streamed, overtaken, auditFaults>>

TrailNext ==
  \/ \E e \in Events :
       AuditCall(e) \/ StampEvent(e) \/ CommitEvent(e) \/ EventAccepted(e) \/ EventRefused(e)
  \/ StreamPolls \/ ReaderReconnects \/ TasksDropped \/ StorersDie \/ ClockTicks

(* Tasks end, by their timeout if by nothing else; threads end; the stream   *)
(* is polled as long as its reader stays.                                    *)
TrailFair ==
  /\ \A e \in Events : WF_trailvars(StampEvent(e) \/ EventAccepted(e) \/ EventRefused(e))
  /\ \A e \in Events : WF_trailvars(CommitEvent(e))
  /\ WF_trailvars(StreamPolls)

TrailSpec == TrailInit /\ [][TrailNext]_trailvars /\ TrailFair

-----------------------------------------------------------------------------
(* An audited call leaves a trace, although nobody waits for its event: it   *)
(* is streamed to the reader, or is in the gateway's log, or was dropped     *)
(* with the gateway, or the reader was past its stamp by the time it was     *)
(* committed.                                                                *)
AuditedCallsShowUp ==
  \A e \in Events :
    task[e] = "pending" ~> \/ e \in streamed \/ e \in logged \/ e \in overtaken
                           \/ task[e] = "dropped"

(* "Stream all events": what is committed reaches the reader. *)
CommittedEventsAreStreamed ==
  \A e \in Events : stored[e] = "committed" ~> e \in streamed
=============================================================================
