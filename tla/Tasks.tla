-------------------------------- MODULE Tasks --------------------------------
(***************************************************************************)
(* Tasks (Layer 4 of the token chain): a unit of work with permissions of  *)
(* its own, and the bearer tokens issued for it while it is active.        *)
(*                                                                         *)
(* As in Delegations the handlers run on a pool of threads, each with its  *)
(* own database session: one that reads a task's status, decides and then  *)
(* writes is a Begin step and a Commit step.  No row is locked.            *)
(***************************************************************************)
EXTENDS Naturals

CONSTANTS
  Permissions,
  Workers,     \* requests in progress at once
  Deadlines,   \* deadlines a request may ask for
  TokenTTL,    \* TaskService.DEFAULT_TOKEN_TTL_HOURS
  MaxTasks,    \* rows of tasks (bound)
  MaxTime      \* last tick of the clock (bound)

ASSUME TaskTimes == Deadlines \subseteq Nat \ {0} /\ TokenTTL \in Nat
ASSUME TaskBounds == MaxTasks \in Nat /\ MaxTime \in Nat

VARIABLES
  now,       \* ticks stand for hours
  tasks,     \* tasks and their scoped_permissions records
  created,   \* how many rows exist
  tokens,    \* every task token that was signed
  txn        \* what each request in progress has decided to write

vars == <<now, tasks, created, tokens, txn>>

----------------------------------------------------------------------------

TaskId == 1 .. MaxTasks
None   == 0      \* SQL NULL, of times: the clock starts at 1

Terminal == {"completed", "revoked", "timed_out"}

\* "revoked" is the flag of the task's permission records, which all have the same.
Task ==
  [status : {"absent", "pending", "active"} \cup Terminal, perms : SUBSET Permissions,
   auto : BOOLEAN, deadline : Nat, completedAt : Nat, revoked : BOOLEAN]

TaskToken == [task : TaskId, perms : SUBSET Permissions, exp : Nat]

AbsentTask ==
  [status |-> "absent", perms |-> {}, auto |-> FALSE, deadline |-> None,
   completedAt |-> None, revoked |-> FALSE]

Idle == [kind |-> "idle"]
Txn ==
  {Idle} \cup [kind : {"activate", "completed", "revoked"}, id : TaskId]
         \cup [kind : {"timed_out"}, ids : SUBSET TaskId]

Begin(w, t) == txn[w] = Idle /\ txn' = [txn EXCEPT ![w] = t]
Finish(w)   == txn' = [txn EXCEPT ![w] = Idle]

Unfinished(k) == tasks[k].status \in {"pending", "active"}
PastDeadline(k) == tasks[k].deadline # None /\ tasks[k].deadline < now

Earlier(x, y) == IF x <= y THEN x ELSE y

\* A mistaken form: a status the column does not know.
EndedTaskOtherStatus(task, status) ==
  [task EXCEPT !.status = "cancelled", !.completedAt = now, !.revoked = TRUE]

\* A mistaken form: revoking leaves the permissions of a task without auto-revocation.
EndedTaskIfAuto(task, status) ==
  [task EXCEPT !.status = status, !.completedAt = now, !.revoked = @ \/ task.auto]

\* Task.complete, Task.revoke and Task.timeout.
EndedTask(task, status) ==
  [task EXCEPT !.status = status, !.completedAt = now,
               !.revoked = @ \/ status # "completed" \/ task.auto]

----------------------------------------------------------------------------

\* A request takes milliseconds and a tick is an hour.
Tick ==
  /\ now < MaxTime
  /\ \A w \in Workers : txn[w] = Idle
  /\ now' = now + 1
  /\ UNCHANGED <<tasks, created, tokens, txn>>

\* create_task compares the permissions with the delegated_permissions of the bearer's
\* token.  An agent's token has that claim; the token of a user, or of another task,
\* does not and sets no limit: then the limit is Permissions.
CreateTask(P, auto, minutes, limit) ==
  /\ created < MaxTasks
  /\ P \subseteq limit
  /\ created' = created + 1
  /\ tasks' =
       [tasks EXCEPT ![created + 1] =
          [status |-> "pending", perms |-> P, auto |-> auto,
           deadline |-> IF minutes = None THEN None ELSE now + minutes,
           completedAt |-> None, revoked |-> FALSE]]
  /\ UNCHANGED <<now, tokens, txn>>

BeginActivate(w, k) ==
  /\ tasks[k].status = "pending"
  /\ Begin(w, [kind |-> "activate", id |-> k])
  /\ UNCHANGED <<now, tasks, created, tokens>>

CommitActivate(w) ==
  /\ txn[w].kind = "activate"
  /\ tasks' = [tasks EXCEPT ![txn[w].id].status = "active"]
  /\ Finish(w)
  /\ UNCHANGED <<now, created, tokens>>

BeginComplete(w, k) ==
  /\ tasks[k].status = "active"
  /\ Begin(w, [kind |-> "completed", id |-> k])
  /\ UNCHANGED <<now, tasks, created, tokens>>

BeginRevoke(w, k) ==
  /\ Unfinished(k)
  /\ Begin(w, [kind |-> "revoked", id |-> k])
  /\ UNCHANGED <<now, tasks, created, tokens>>

CommitEnd(w) ==
  /\ txn[w].kind \in {"completed", "revoked"}
  /\ tasks' = [tasks EXCEPT ![txn[w].id] = EndedTask(@, txn[w].kind)]
  /\ Finish(w)
  /\ UNCHANGED <<now, created, tokens>>

\* check_deadline_timeouts, which nothing in the control plane schedules: it is the
\* service's own contract.
BeginTimeouts(w) ==
  /\ \E k \in TaskId : Unfinished(k) /\ PastDeadline(k)
  /\ Begin(w, [kind |-> "timed_out", ids |-> {k \in TaskId : Unfinished(k) /\ PastDeadline(k)}])
  /\ UNCHANGED <<now, tasks, created, tokens>>

CommitTimeouts(w) ==
  /\ txn[w].kind = "timed_out"
  /\ tasks' =
       [k \in TaskId |->
          IF k \in txn[w].ids THEN EndedTask(tasks[k], "timed_out") ELSE tasks[k]]
  /\ Finish(w)
  /\ UNCHANGED <<now, created, tokens>>

\* A mistaken form: the deadline of the task is forgotten.
TokenExpiryNoDeadline(k) == now + TokenTTL

TokenExpiry(k) ==
  IF tasks[k].deadline = None THEN now + TokenTTL
                              ELSE Earlier(tasks[k].deadline, now + TokenTTL)

\* issue_task_token signs the permissions of the task itself and not those of its
\* records; it writes nothing, so it takes effect when it reads the row.
IssueTaskToken(k) ==
  /\ tasks[k].status = "active"
  /\ tokens' = tokens \cup {[task |-> k, perms |-> tasks[k].perms, exp |-> TokenExpiry(k)]}
  /\ UNCHANGED <<now, tasks, created, txn>>

----------------------------------------------------------------------------

Init ==
  /\ now = 1
  /\ tasks = [k \in TaskId |-> AbsentTask]
  /\ created = 0
  /\ tokens = {}
  /\ txn = [w \in Workers |-> Idle]

Create ==
  \E P, limit \in SUBSET Permissions, auto \in BOOLEAN, minutes \in Deadlines \cup {None} :
    CreateTask(P, auto, minutes, limit)

Next ==
  \/ Tick
  \/ Create
  \/ \E w \in Workers :
       \/ \E k \in TaskId : BeginActivate(w, k) \/ BeginComplete(w, k) \/ BeginRevoke(w, k)
       \/ BeginTimeouts(w)
       \/ CommitActivate(w)
       \/ CommitEnd(w)
       \/ CommitTimeouts(w)
  \/ \E k \in TaskId : IssueTaskToken(k)

Spec == Init /\ [][Next]_vars

----------------------------------------------------------------------------
(* Properties *)

\* Types of the task table, of its tokens and of the requests in progress.
TypeOK ==
  /\ now \in Nat \ {0}
  /\ tasks \in [TaskId -> Task]
  /\ created \in 0 .. MaxTasks
  /\ tokens \subseteq TaskToken
  /\ txn \in [Workers -> Txn]

\* However activations, completions, revocations and timeouts of a task overlap, one
\* that ended by revocation or timeout, or by completion with automatic revocation,
\* has none of its permission records left.
EndedTasksHoldNothing ==
  \A k \in TaskId :
    (tasks[k].status \in {"revoked", "timed_out"} \/ (tasks[k].status = "completed" /\ tasks[k].auto))
      => tasks[k].revoked

\* issue_task_token: "Never exceeds task deadline".  And whatever requests overlapped
\* with the end of a task, its tokens are gone one token lifetime later.
TaskTokensRunOut ==
  \A t \in tokens :
    /\ tasks[t.task].deadline # None => t.exp <= tasks[t.task].deadline
    /\ tasks[t.task].status \in Terminal => t.exp <= tasks[t.task].completedAt + TokenTTL

\* TaskStatus.TERMINAL: a task that has ended stays as it is.  Requests must not
\* overlap for this.
TerminalIsFinal ==
  [][\A k \in TaskId :
       tasks[k].status \in Terminal => tasks'[k].status = tasks[k].status]_vars
=============================================================================
