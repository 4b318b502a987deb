---------------------------- MODULE Tokens_proofs ----------------------------
(***************************************************************************)
(* Proofs about tokens outside of agent sessions: of tasks, of the         *)
(* gateway's exchange, of the local proxy, and the SDK's macaroons.  That  *)
(* task tokens run out is not inductive: one signed while its task is      *)
(* active is bounded by the clock, which is what becomes completed_at when *)
(* the task ends.                                                          *)
(***************************************************************************)
EXTENDS Tasks, TokenExchange, LocalProxy, Macaroons, TLAPS

-----------------------------------------------------------------------------
(* Tasks. *)

\* Every token was signed in the past, for at most TokenTTL.
TokensAreShort == \A t \in tokens : t.exp <= now + TokenTTL

\* Tokens are signed for rows that exist already.
TokensNameTasks == \A t \in tokens : t.task <= created

\* The rows that exist are the first ones, and requests in progress work on them.
RowsAreNumbered == \A k \in TaskId : k > created => tasks[k].status = "absent"

\* The tasks a request in progress will write.
Targets(t) ==
  CASE t.kind = "idle"      -> {}
    [] t.kind = "timed_out" -> t.ids
    [] OTHER                -> {t.id}

RequestsNameTasks == \A w \in Workers : \A k \in Targets(txn[w]) : k <= created

TaskInv ==
  /\ TypeOK
  /\ EndedTasksHoldNothing
  /\ TaskTokensRunOut
  /\ TokensAreShort
  /\ TokensNameTasks
  /\ RowsAreNumbered
  /\ RequestsNameTasks

\* What ending a task leaves, and what it changes.
LEMMA EndedTaskFacts ==
  ASSUME now \in Nat, NEW task \in Task, NEW s \in Terminal
  PROVE  /\ EndedTask(task, s) \in Task
         /\ EndedTask(task, s).status = s
         /\ EndedTask(task, s).completedAt = now
         /\ EndedTask(task, s).deadline = task.deadline
         /\ EndedTask(task, s).auto = task.auto
         /\ (s # "completed" \/ task.auto) => EndedTask(task, s).revoked
  BY DEF EndedTask, Task, Terminal

\* The invariant holds of the empty table.
LEMMA InitHolds == Init => TaskInv
<1> SUFFICES ASSUME Init PROVE TaskInv
  OBVIOUS
<1>1. TypeOK
  BY TaskBounds DEF Init, TypeOK, AbsentTask, Task, Txn, Idle, None
<1>2. EndedTasksHoldNothing
  BY DEF Init, EndedTasksHoldNothing, AbsentTask
<1>3. RowsAreNumbered
  BY DEF Init, RowsAreNumbered, AbsentTask
<1>4. RequestsNameTasks
  BY DEF Init, RequestsNameTasks, Targets, Idle
<1> QED
  BY <1>1, <1>2, <1>3, <1>4
     DEF Init, TaskInv, TaskTokensRunOut, TokensAreShort, TokensNameTasks

\* A step that ends the tasks of a set K, or only reads.
LEMMA Ending ==
  ASSUME TaskInv, NEW K \in SUBSET TaskId, NEW s \in Terminal,
         \A k \in K : k <= created,
         tasks' = [k \in TaskId |-> IF k \in K THEN EndedTask(tasks[k], s) ELSE tasks[k]],
         UNCHANGED <<now, created, tokens>>,
         txn' \in [Workers -> Txn], RequestsNameTasks'
  PROVE  TaskInv'
<1>1. /\ tasks \in [TaskId -> Task] /\ now \in Nat /\ created \in Nat
      /\ tokens \subseteq TaskToken /\ TokenTTL \in Nat
  BY TaskTimes, TaskBounds DEF TaskInv, TypeOK
<1>2. ASSUME NEW k \in TaskId
      PROVE  /\ tasks'[k] \in Task
             /\ tasks'[k].deadline = tasks[k].deadline
             /\ tasks'[k].auto = tasks[k].auto
             /\ k \notin K => tasks'[k] = tasks[k]
             /\ k \in K => /\ tasks'[k].status = s /\ tasks'[k].completedAt = now
                           /\ (s # "completed" \/ tasks[k].auto) => tasks'[k].revoked
  BY <1>1, EndedTaskFacts
<1>3. TypeOK'
  BY <1>1, <1>2 DEF TaskInv, TypeOK
<1>4. EndedTasksHoldNothing'
  <2> SUFFICES ASSUME NEW k \in TaskId PROVE EndedTasksHoldNothing!(k)'
    BY DEF EndedTasksHoldNothing
  <2>1. CASE k \in K
    BY <1>2, <2>1 DEF Terminal
  <2>2. CASE k \notin K
    BY <1>2, <2>2 DEF TaskInv, EndedTasksHoldNothing
  <2> QED
    BY <2>1, <2>2
<1>5. TaskTokensRunOut'
  <2> SUFFICES ASSUME NEW t \in tokens PROVE TaskTokensRunOut!(t)'
    BY DEF TaskTokensRunOut
  <2>1. t.task \in TaskId /\ t.exp \in Nat /\ t.exp <= now + TokenTTL
    BY <1>1 DEF TaskInv, TokensAreShort, TaskToken
  <2>2. TaskTokensRunOut!(t)
    BY DEF TaskInv, TaskTokensRunOut
  <2>3. CASE t.task \in K
    BY <1>2, <2>1, <2>2, <2>3
  <2>4. CASE t.task \notin K
    BY <1>2, <2>1, <2>2, <2>4
  <2> QED
    BY <2>3, <2>4
<1>6. RowsAreNumbered'
  BY <1>1, <1>2 DEF TaskInv, RowsAreNumbered, TaskId
<1> QED
  BY <1>3, <1>4, <1>5, <1>6 DEF TaskInv, TokensAreShort, TokensNameTasks

\* A handler reads its task and decides.
LEMMA Deciding ==
  ASSUME TaskInv, NEW w \in Workers, NEW t \in Txn, Begin(w, t),
         \A k \in Targets(t) : k <= created,
         UNCHANGED <<now, tasks, created, tokens>>
  PROVE  TaskInv'
<1>1. txn' \in [Workers -> Txn]
  BY DEF TaskInv, TypeOK, Begin
<1>2. RequestsNameTasks'
  BY DEF TaskInv, TypeOK, RequestsNameTasks, Begin
<1> QED
  BY <1>1, <1>2 DEF TaskInv, TypeOK, EndedTasksHoldNothing, TaskTokensRunOut, TokensAreShort,
                    TokensNameTasks, RowsAreNumbered

\* A request that ends no longer names a task.
LEMMA Finishing ==
  ASSUME TaskInv, NEW w \in Workers, Finish(w), UNCHANGED created
  PROVE  txn' \in [Workers -> Txn] /\ RequestsNameTasks'
<1>1. txn' \in [Workers -> Txn]
  BY DEF TaskInv, TypeOK, Finish, Txn
<1>2. Targets(Idle) = {}
  BY DEF Targets, Idle
<1>3. RequestsNameTasks'
  BY <1>2 DEF TaskInv, TypeOK, RequestsNameTasks, Finish
<1> QED
  BY <1>1, <1>3

\* A new task is pending and has no token.
LEMMA CreateStep == ASSUME TaskInv, Create PROVE TaskInv'
<1>1. PICK P \in SUBSET Permissions, auto \in BOOLEAN, minutes \in Deadlines \cup {None},
           limit \in SUBSET Permissions : CreateTask(P, auto, minutes, limit)
  BY DEF Create
<1> DEFINE k == created + 1
           row == [status |-> "pending", perms |-> P, auto |-> auto,
                   deadline |-> IF minutes = None THEN None ELSE now + minutes,
                   completedAt |-> None, revoked |-> FALSE]
<1>2. /\ tasks \in [TaskId -> Task] /\ now \in Nat \ {0} /\ created \in 0 .. MaxTasks
      /\ tokens \subseteq TaskToken
      /\ txn \in [Workers -> Txn] /\ MaxTasks \in Nat
  BY TaskBounds DEF TaskInv, TypeOK
<1>3. k \in TaskId /\ k \notin 1 .. created /\ created' = k /\ k \in 0 .. MaxTasks
  BY <1>1, <1>2 DEF CreateTask, TaskId
<1>4. row \in Task /\ row.status = "pending"
  BY <1>2, TaskTimes DEF Task, None
<1>5. /\ tasks' = [tasks EXCEPT ![k] = row]
      /\ UNCHANGED <<now, tokens, txn>>
  BY <1>1 DEF CreateTask
<1>6. \A t \in tokens : t.task \in TaskId /\ t.task # k
  BY <1>2 DEF TaskInv, TokensNameTasks, TaskToken, TaskId
<1> HIDE DEF k, row
<1>7. TypeOK'
  BY <1>2, <1>3, <1>4, <1>5 DEF TypeOK
<1>8. EndedTasksHoldNothing'
  BY <1>2, <1>4, <1>5 DEF TaskInv, EndedTasksHoldNothing
<1>9. TaskTokensRunOut'
  BY <1>2, <1>5, <1>6 DEF TaskInv, TaskTokensRunOut
<1>10. TokensNameTasks' /\ RequestsNameTasks'
  <2>1. ASSUME NEW n, n \in Nat, n <= created
        PROVE  n <= created'
    BY <1>2, <1>3, <2>1 DEF k
  <2>2. TokensNameTasks'
    BY <1>2, <1>5, <1>6, <2>1 DEF TaskInv, TokensNameTasks, TaskId
  <2>3. \A w \in Workers : Targets(txn[w]) \subseteq Nat
    BY <1>2 DEF Targets, Txn, TaskId, Idle
  <2>4. RequestsNameTasks'
    BY <1>5, <2>1, <2>3 DEF TaskInv, RequestsNameTasks
  <2> QED
    BY <2>2, <2>4
<1>11. RowsAreNumbered'
  <2> SUFFICES ASSUME NEW j \in TaskId, j > created'
               PROVE  tasks'[j].status = "absent"
    BY DEF RowsAreNumbered
  <2>1. j # k /\ j > created
    BY <1>2, <1>3 DEF k, TaskId
  <2> QED
    BY <1>2, <1>5, <2>1 DEF TaskInv, RowsAreNumbered
<1> QED
  BY <1>5, <1>7, <1>8, <1>9, <1>10, <1>11 DEF TaskInv, TokensAreShort

\* An activation, even of a task that has ended meanwhile, keeps the invariant.
LEMMA CommitActivateStep ==
  ASSUME TaskInv, NEW w \in Workers, CommitActivate(w)
  PROVE  TaskInv'
<1>1. PICK k \in TaskId : /\ k = txn[w].id /\ k <= created
                          /\ tasks' = [tasks EXCEPT ![k].status = "active"]
  <2>1. txn[w] \in Txn /\ txn[w].kind = "activate"
    BY DEF TaskInv, TypeOK, CommitActivate
  <2>2. txn[w].id \in TaskId /\ txn[w].id \in Targets(txn[w])
    BY <2>1 DEF Txn, Idle, Targets
  <2> QED
    BY <2>2 DEF TaskInv, RequestsNameTasks, CommitActivate
<1>2. UNCHANGED <<now, created, tokens>>
  BY DEF CommitActivate
<1>3. txn' \in [Workers -> Txn] /\ RequestsNameTasks'
  BY <1>2, Finishing DEF CommitActivate
<1>4. /\ tasks \in [TaskId -> Task] /\ created \in Nat /\ tokens \subseteq TaskToken
  BY TaskBounds DEF TaskInv, TypeOK
<1>5. ASSUME NEW j \in TaskId
      PROVE  /\ tasks'[j] \in Task
             /\ tasks'[j].deadline = tasks[j].deadline
             /\ tasks'[j].auto = tasks[j].auto
             /\ tasks'[j] = tasks[j] \/ (j = k /\ tasks'[j].status = "active")
  <2>1. CASE j = k
    BY <1>1, <1>4, <2>1 DEF Task
  <2>2. CASE j # k
    BY <1>1, <1>4, <2>2
  <2> QED
    BY <2>1, <2>2
<1>6. TypeOK'
  BY <1>1, <1>2, <1>3, <1>4, <1>5 DEF TaskInv, TypeOK
<1>7. EndedTasksHoldNothing'
  BY <1>5 DEF TaskInv, EndedTasksHoldNothing
<1>8. TaskTokensRunOut'
  <2> SUFFICES ASSUME NEW t \in tokens PROVE TaskTokensRunOut!(t)'
    BY <1>2 DEF TaskTokensRunOut
  <2>1. t.task \in TaskId
    BY <1>4 DEF TaskToken
  <2> QED
    BY <1>2, <1>5, <2>1 DEF TaskInv, TaskTokensRunOut, Terminal
<1>9. RowsAreNumbered'
  BY <1>1, <1>2, <1>4, <1>5 DEF TaskInv, RowsAreNumbered, TaskId
<1> QED
  BY <1>2, <1>3, <1>6, <1>7, <1>8, <1>9 DEF TaskInv, TokensAreShort, TokensNameTasks

\* Completing, revoking and timing out end tasks in the sense of Ending.
LEMMA CommitEndStep ==
  ASSUME TaskInv, NEW w \in Workers, CommitEnd(w) \/ CommitTimeouts(w)
  PROVE  TaskInv'
<1>1. tasks \in [TaskId -> Task] /\ txn[w] \in Txn
  BY DEF TaskInv, TypeOK
<1>2. CASE CommitEnd(w)
  <2>1. /\ txn[w].id \in TaskId /\ txn[w].kind \in Terminal
        /\ Targets(txn[w]) = {txn[w].id}
    BY <1>1, <1>2 DEF CommitEnd, Txn, Idle, Targets, Terminal
  <2>2. tasks' = [k \in TaskId |-> IF k \in {txn[w].id} THEN EndedTask(tasks[k], txn[w].kind)
                                                         ELSE tasks[k]]
    BY <1>1, <1>2, <2>1 DEF CommitEnd
  <2>3. UNCHANGED <<now, created, tokens>> /\ Finish(w)
    BY <1>2 DEF CommitEnd
  <2>4. \A k \in {txn[w].id} : k <= created
    BY <2>1 DEF TaskInv, RequestsNameTasks
  <2> QED
    BY <2>1, <2>2, <2>3, <2>4, Ending, Finishing
<1>3. CASE CommitTimeouts(w)
  <2>1. txn[w].ids \in SUBSET TaskId /\ Targets(txn[w]) = txn[w].ids
    BY <1>1, <1>3 DEF CommitTimeouts, Txn, Idle, Targets
  <2>2. UNCHANGED <<now, created, tokens>> /\ Finish(w)
    BY <1>3 DEF CommitTimeouts
  <2>3. \A k \in txn[w].ids : k <= created
    BY <2>1 DEF TaskInv, RequestsNameTasks
  <2>4. tasks' = [k \in TaskId |-> IF k \in txn[w].ids THEN EndedTask(tasks[k], "timed_out")
                                                        ELSE tasks[k]]
    BY <1>3 DEF CommitTimeouts
  <2> QED
    BY <2>1, <2>2, <2>3, <2>4, Ending, Finishing DEF Terminal
<1> QED
  BY <1>2, <1>3

\* A new token respects the deadline, and its task has not ended.
LEMMA IssueStep == ASSUME TaskInv, NEW k \in TaskId, IssueTaskToken(k) PROVE TaskInv'
<1> DEFINE new == [task |-> k, perms |-> tasks[k].perms, exp |-> TokenExpiry(k)]
<1>1. tasks[k] \in Task /\ now \in Nat /\ created \in Nat /\ TokenTTL \in Nat
  BY TaskTimes, TaskBounds DEF TaskInv, TypeOK
<1>2. tasks[k].status = "active" /\ tokens' = tokens \cup {new}
      /\ UNCHANGED <<now, tasks, created, txn>>
  BY DEF IssueTaskToken
<1>3. /\ TokenExpiry(k) \in Nat /\ TokenExpiry(k) <= now + TokenTTL
      /\ tasks[k].deadline # None => TokenExpiry(k) <= tasks[k].deadline
  BY <1>1 DEF TokenExpiry, Earlier, Task, None
<1>4. k <= created
  BY <1>1, <1>2 DEF TaskInv, RowsAreNumbered, TaskId
<1>5. new \in TaskToken
  BY <1>1, <1>3 DEF TaskToken, Task
<1>6. TypeOK'
  BY <1>2, <1>5 DEF TaskInv, TypeOK
<1>7. TaskTokensRunOut'
  <2> SUFFICES ASSUME NEW t \in tokens' PROVE TaskTokensRunOut!(t)'
    BY DEF TaskTokensRunOut
  <2>1. CASE t \in tokens
    BY <1>2, <2>1 DEF TaskInv, TaskTokensRunOut
  <2>2. CASE t = new
    BY <1>2, <1>3, <2>2 DEF Terminal
  <2> QED
    BY <1>2, <2>1, <2>2
<1>8. TokensAreShort' /\ TokensNameTasks'
  BY <1>2, <1>3, <1>4 DEF TaskInv, TokensAreShort, TokensNameTasks
<1> QED
  BY <1>2, <1>6, <1>7, <1>8 DEF TaskInv, EndedTasksHoldNothing, RowsAreNumbered, RequestsNameTasks

\* The clock only moves away from the tokens.
LEMMA TickStep == ASSUME TaskInv, Tick PROVE TaskInv'
<1>1. now \in Nat \ {0} /\ now' = now + 1 /\ UNCHANGED <<tasks, created, tokens, txn>>
  BY DEF TaskInv, TypeOK, Tick
<1>2. TokensAreShort'
  BY <1>1, TaskTimes DEF TaskInv, TypeOK, TokensAreShort, TaskToken
<1>3. TypeOK'
  BY <1>1 DEF TaskInv, TypeOK
<1> QED
  BY <1>1, <1>2, <1>3 DEF TaskInv, EndedTasksHoldNothing, TaskTokensRunOut, TokensNameTasks,
                           RowsAreNumbered, RequestsNameTasks

\* What the handlers decide concerns tasks that exist.
LEMMA BeginStep ==
  ASSUME TaskInv, NEW w \in Workers,
         \/ \E k \in TaskId : BeginActivate(w, k) \/ BeginComplete(w, k) \/ BeginRevoke(w, k)
         \/ BeginTimeouts(w)
  PROVE  TaskInv'
<1>1. \A k \in TaskId : tasks[k].status # "absent" => k <= created
  BY TaskBounds DEF TaskInv, TypeOK, RowsAreNumbered, TaskId
<1>2. ASSUME NEW k \in TaskId, NEW kind \in {"activate", "completed", "revoked"},
             tasks[k].status # "absent",
             Begin(w, [kind |-> kind, id |-> k]),
             UNCHANGED <<now, tasks, created, tokens>>
      PROVE  TaskInv'
  <2>1. [kind |-> kind, id |-> k] \in Txn
    BY DEF Txn
  <2>2. \A j \in Targets([kind |-> kind, id |-> k]) : j <= created
    BY <1>1, <1>2 DEF Targets
  <2> QED
    BY <1>2, <2>1, <2>2, Deciding
<1>3. CASE \E k \in TaskId : BeginActivate(w, k) \/ BeginComplete(w, k) \/ BeginRevoke(w, k)
  BY <1>2, <1>3 DEF BeginActivate, BeginComplete, BeginRevoke, Unfinished
<1>4. CASE BeginTimeouts(w)
  <2> DEFINE K == {k \in TaskId : Unfinished(k) /\ PastDeadline(k)}
  <2>1. [kind |-> "timed_out", ids |-> K] \in Txn
    BY DEF Txn
  <2>2. \A j \in Targets([kind |-> "timed_out", ids |-> K]) : j <= created
    BY <1>1 DEF Targets, Unfinished
  <2> QED
    BY <1>4, <2>1, <2>2, Deciding DEF BeginTimeouts
<1> QED
  BY <1>3, <1>4

\* Every step keeps the invariant.
LEMMA NextHolds == TaskInv /\ [Next]_vars => TaskInv'
<1> SUFFICES ASSUME TaskInv, [Next]_vars PROVE TaskInv'
  OBVIOUS
<1>1. CASE Tick
  BY <1>1, TickStep
<1>2. CASE Create
  BY <1>2, CreateStep
<1>3. ASSUME NEW w \in Workers,
             \/ \E k \in TaskId : BeginActivate(w, k) \/ BeginComplete(w, k) \/ BeginRevoke(w, k)
             \/ BeginTimeouts(w)
      PROVE  TaskInv'
  BY <1>3, BeginStep
<1>4. ASSUME NEW w \in Workers, CommitActivate(w) \/ CommitEnd(w) \/ CommitTimeouts(w)
      PROVE  TaskInv'
  BY <1>4, CommitActivateStep, CommitEndStep
<1>5. ASSUME NEW k \in TaskId, IssueTaskToken(k)
      PROVE  TaskInv'
  BY <1>5, IssueStep
<1>6. CASE UNCHANGED vars
  BY <1>6 DEF vars, TaskInv, TypeOK, EndedTasksHoldNothing, TaskTokensRunOut, TokensAreShort,
              TokensNameTasks, RowsAreNumbered, RequestsNameTasks
<1> QED
  BY <1>1, <1>2, <1>3, <1>4, <1>5, <1>6 DEF Next

\* The inductive invariant holds in every reachable state.
THEOREM TaskInvariance == Spec => []TaskInv
  BY InitHolds, NextHolds, PTL DEF Spec

\* The columns of tasks, the tokens and the requests in progress keep their types.
THEOREM TaskTypes == Spec => []TypeOK
<1>1. TaskInv => TypeOK
  BY DEF TaskInv
<1> QED
  BY <1>1, TaskInvariance, PTL

\* Task.revoke, Task.timeout and Task.complete leave no permission record behind,
\* for any number of overlapping requests.
THEOREM EndedTasks == Spec => []EndedTasksHoldNothing
<1>1. TaskInv => EndedTasksHoldNothing
  BY DEF TaskInv
<1> QED
  BY <1>1, TaskInvariance, PTL

\* issue_task_token never signs past the deadline, and no token outlives the end of its
\* task by more than one lifetime, for any number of overlapping requests.
THEOREM TokensRunOut == Spec => []TaskTokensRunOut
<1>1. TaskInv => TaskTokensRunOut
  BY DEF TaskInv
<1> QED
  BY <1>1, TaskInvariance, PTL

(* What may still change a task that has ended. *)

\* The requests in progress that read the row of a task and are about to write it.
Claims(k) == {w \in Workers : k \in Targets(txn[w])}

\* A task that has ended is read for writing no more, and its status is only overwritten
\* by the commit of a request that had read it before.
OnlyClaimsOverwrite ==
  \A k \in TaskId : tasks[k].status \in Terminal =>
    /\ Claims(k)' \subseteq Claims(k)
    /\ tasks'[k].status # tasks[k].status => \E w \in Claims(k) : txn'[w] = Idle

\* Steps that leave the requests alone and the tasks that are there.
LEMMA RowsStay ==
  ASSUME TaskInv, UNCHANGED txn,
         \A k \in TaskId : k <= created => tasks'[k].status = tasks[k].status
  PROVE  OnlyClaimsOverwrite
<1>1. created \in Nat
  BY TaskBounds DEF TaskInv, TypeOK
<1>2. \A k \in TaskId : tasks[k].status \in Terminal => k <= created
  BY <1>1 DEF TaskInv, RowsAreNumbered, TaskId, Terminal
<1> QED
  BY <1>2 DEF OnlyClaimsOverwrite, Claims

\* A request that reads rows of tasks that have not ended.
LEMMA ClaimsUnfinished ==
  ASSUME TaskInv, NEW w \in Workers, NEW t, Begin(w, t),
         \A k \in Targets(t) : Unfinished(k), UNCHANGED tasks
  PROVE  OnlyClaimsOverwrite
<1>1. \A v \in Workers : txn'[v] = IF v = w THEN t ELSE txn[v]
  BY DEF TaskInv, TypeOK, Begin
<1>2. \A k \in TaskId : tasks[k].status \in Terminal => k \notin Targets(t)
  BY DEF Unfinished, Terminal
<1> QED
  BY <1>1, <1>2 DEF OnlyClaimsOverwrite, Claims

\* A request that writes the rows it read, whatever has become of them.
LEMMA CommitsItsClaims ==
  ASSUME TaskInv, NEW w \in Workers, Finish(w),
         \A k \in TaskId \ Targets(txn[w]) : tasks'[k] = tasks[k]
  PROVE  OnlyClaimsOverwrite
<1>1. \A v \in Workers : txn'[v] = IF v = w THEN Idle ELSE txn[v]
  BY DEF TaskInv, TypeOK, Finish
<1>2. Targets(Idle) = {}
  BY DEF Targets, Idle
<1>3. ASSUME NEW k \in TaskId PROVE Claims(k)' \subseteq Claims(k)
  BY <1>1, <1>2 DEF Claims
<1>4. ASSUME NEW k \in TaskId, tasks'[k].status # tasks[k].status
      PROVE  w \in Claims(k) /\ txn'[w] = Idle
  BY <1>1, <1>4 DEF Claims
<1> QED
  BY <1>3, <1>4 DEF OnlyClaimsOverwrite

LEMMA OverwritesStep == TaskInv /\ [Next]_vars => OnlyClaimsOverwrite
<1> SUFFICES ASSUME TaskInv, [Next]_vars PROVE OnlyClaimsOverwrite
  OBVIOUS
<1>0. tasks \in [TaskId -> Task] /\ created \in Nat /\ txn \in [Workers -> Txn]
  BY TaskBounds DEF TaskInv, TypeOK
<1>1. CASE Tick \/ (\E k \in TaskId : IssueTaskToken(k)) \/ UNCHANGED vars
  BY <1>1, RowsStay DEF Tick, IssueTaskToken, vars
<1>2. CASE Create
  <2>1. PICK row : tasks' = [tasks EXCEPT ![created + 1] = row] /\ UNCHANGED txn
    BY <1>2 DEF Create, CreateTask
  <2>2. \A k \in TaskId : k <= created => tasks'[k] = tasks[k]
    BY <1>0, <2>1 DEF TaskId
  <2> QED
    BY <2>1, <2>2, RowsStay
<1>3. ASSUME NEW w \in Workers, NEW k \in TaskId,
             BeginActivate(w, k) \/ BeginComplete(w, k) \/ BeginRevoke(w, k)
      PROVE  OnlyClaimsOverwrite
  <2>1. Unfinished(k) /\ UNCHANGED tasks
    BY <1>3 DEF BeginActivate, BeginComplete, BeginRevoke, Unfinished
  <2>2. PICK kind \in {"activate", "completed", "revoked"} : Begin(w, [kind |-> kind, id |-> k])
    BY <1>3 DEF BeginActivate, BeginComplete, BeginRevoke
  <2>3. Targets([kind |-> kind, id |-> k]) = {k}
    BY DEF Targets
  <2> QED
    BY <2>1, <2>2, <2>3, ClaimsUnfinished
<1>4. ASSUME NEW w \in Workers, BeginTimeouts(w) PROVE OnlyClaimsOverwrite
  <2> DEFINE K == {k \in TaskId : Unfinished(k) /\ PastDeadline(k)}
  <2>1. Begin(w, [kind |-> "timed_out", ids |-> K]) /\ UNCHANGED tasks
    BY <1>4 DEF BeginTimeouts
  <2>2. Targets([kind |-> "timed_out", ids |-> K]) = K
    BY DEF Targets
  <2> QED
    BY <2>1, <2>2, ClaimsUnfinished
<1>5. ASSUME NEW w \in Workers, CommitActivate(w) \/ CommitEnd(w) PROVE OnlyClaimsOverwrite
  <2>1. txn[w] \in Txn /\ txn[w].kind \in {"activate", "completed", "revoked"}
    BY <1>0, <1>5 DEF CommitActivate, CommitEnd
  <2>2. txn[w].id \in TaskId /\ Targets(txn[w]) = {txn[w].id}
    BY <2>1 DEF Txn, Idle, Targets
  <2>3. Finish(w) /\ \A k \in TaskId \ {txn[w].id} : tasks'[k] = tasks[k]
    BY <1>0, <1>5 DEF CommitActivate, CommitEnd
  <2> QED
    BY <2>2, <2>3, CommitsItsClaims
<1>6. ASSUME NEW w \in Workers, CommitTimeouts(w) PROVE OnlyClaimsOverwrite
  <2>1. txn[w] \in Txn /\ txn[w].kind = "timed_out"
    BY <1>0, <1>6 DEF CommitTimeouts
  <2>2. Targets(txn[w]) = txn[w].ids
    BY <2>1 DEF Txn, Idle, Targets
  <2>3. Finish(w) /\ \A k \in TaskId \ txn[w].ids : tasks'[k] = tasks[k]
    BY <1>6 DEF CommitTimeouts
  <2> QED
    BY <2>2, <2>3, CommitsItsClaims
<1> QED
  BY <1>1, <1>2, <1>3, <1>4, <1>5, <1>6 DEF Next

\* Task.TERMINAL is checked when a request reads the row and not when it commits: however
\* many requests overlap, once a task has ended no further request takes it up, and one that
\* ended while none was under way for it keeps its status for good.  Those that were can
\* overwrite it, each once, which is what the run tasks_race shows.
THEOREM EndsOverwrittenByClaims == Spec => [][OnlyClaimsOverwrite]_vars
<1>1. TaskInv /\ [Next]_vars => [OnlyClaimsOverwrite]_vars
  BY OverwritesStep
<1> QED
  BY <1>1, TaskInvariance, PTL DEF Spec

-----------------------------------------------------------------------------
(* The gateway's exchange. *)

BackendToken == [good : Nat, issued : Nat, expiresIn : Nat]
ExchangeCall ==
  [pc : {"idle", "hit", "asked", "issued"}, key : XKeys \cup {"none"}, since : Nat,
   token : BackendToken]

ExchangeTypes ==
  /\ xcache \in [XKeys -> BackendToken]
  /\ xcall \in [Exchanges -> ExchangeCall]
  /\ \A c \in Exchanges : xcall[c].pc \in {"asked", "issued"} => xcall[c].key \in XKeys
  /\ xTime \in Nat

\* An exchange is not under way for longer than the gateway waits for it.
ExchangesArePrompt ==
  \A c \in Exchanges : xcall[c].pc \in {"asked", "issued"} =>
    /\ xcall[c].since <= xTime
    /\ xTime <= xcall[c].since + XReplyTime

\* A token that was issued is good for its validity, counted from the request.
IssuedTokensLast ==
  \A c \in Exchanges : xcall[c].pc = "issued" =>
    xcall[c].token.good >= xcall[c].since + xcall[c].token.expiresIn

\* A token in the cache outlives what its entry says by the buffer, but for
\* the time its exchange took.
CacheKeepsTheBuffer ==
  \A k \in XKeys : xcache[k].expiresIn # 0 =>
    xcache[k].good + XReplyTime >= xcache[k].issued + xcache[k].expiresIn + XBuffer

ExchangeInv ==
  /\ ExchangeTypes
  /\ ExchangesArePrompt
  /\ IssuedTokensLast
  /\ CacheKeepsTheBuffer
  /\ CachedTokensLast

LEMMA ExchangeInitHolds == XInit => ExchangeInv
BY TokenExchangeAssumption
   DEF XInit, ExchangeInv, ExchangeTypes, ExchangesArePrompt, IssuedTokensLast,
       CacheKeepsTheBuffer, CachedTokensLast, BackendToken, ExchangeCall, NoExchange, NoBackendToken

\* What has to hold of a call.
CallInOrder(r) ==
  /\ r \in ExchangeCall
  /\ r.pc \in {"asked", "issued"} =>
       /\ r.key \in XKeys
       /\ r.since <= xTime
       /\ xTime <= r.since + XReplyTime
  /\ r.pc = "issued" => r.token.good >= r.since + r.token.expiresIn
  /\ r.pc = "hit" => r.token.good + XReplyTime >= r.since + XBuffer

\* A step that makes one call r, and leaves the clock.
LEMMA OneCall ==
  ASSUME ExchangeInv, NEW c \in Exchanges, NEW r, CallInOrder(r),
         xcall' = [xcall EXCEPT ![c] = r], UNCHANGED xTime,
         xcache' \in [XKeys -> BackendToken], CacheKeepsTheBuffer'
  PROVE  ExchangeInv'
<1>1. /\ xcall' \in [Exchanges -> ExchangeCall]
      /\ \A d \in Exchanges : xcall'[d] = IF d = c THEN r ELSE xcall[d]
  BY DEF ExchangeInv, ExchangeTypes, CallInOrder
<1> QED
  BY <1>1 DEF ExchangeInv, ExchangeTypes, ExchangesArePrompt, IssuedTokensLast, CachedTokensLast,
     CallInOrder

\* What the cache makes of a token.
LEMMA CachedForFacts ==
  ASSUME xTime \in Nat, NEW t \in BackendToken
  PROVE  /\ CachedFor(t) \in BackendToken
         /\ CachedFor(t).good = t.good
         /\ CachedFor(t).issued = xTime
         /\ CachedFor(t).expiresIn = IF t.expiresIn > XBuffer THEN t.expiresIn - XBuffer ELSE 0
<1> DEFINE e == IF t.expiresIn > XBuffer THEN t.expiresIn - XBuffer ELSE 0
<1>1. e \in Nat
  BY TokenExchangeAssumption DEF BackendToken
<1>2. CachedFor(t) = [t EXCEPT !.issued = xTime, !.expiresIn = e]
  BY DEF CachedFor
<1> HIDE DEF e
<1>3. /\ CachedFor(t) \in BackendToken /\ CachedFor(t).good = t.good
      /\ CachedFor(t).issued = xTime /\ CachedFor(t).expiresIn = e
  BY <1>1, <1>2 DEF BackendToken
<1> QED
  BY <1>3 DEF e

LEMMA ExchangeStep == ExchangeInv /\ [XNext]_xvars => ExchangeInv'
<1> SUFFICES ASSUME ExchangeInv, [XNext]_xvars PROVE ExchangeInv'
  OBVIOUS
<1>1. /\ XReplyTime \in Nat /\ XBuffer \in Nat /\ xTime \in Nat
      /\ xcache \in [XKeys -> BackendToken]
      /\ xcall \in [Exchanges -> ExchangeCall]
      /\ NoExchange \in ExchangeCall /\ NoBackendToken \in BackendToken
  BY TokenExchangeAssumption
     DEF ExchangeInv, ExchangeTypes, ExchangeCall, NoExchange, NoBackendToken, BackendToken
<1>2. CallInOrder(NoExchange)
  BY <1>1 DEF CallInOrder, NoExchange
<1>3. ASSUME NEW c \in Exchanges, NEW k \in XKeys, CacheHit(c, k) PROVE ExchangeInv'
  <2> DEFINE r == [pc |-> "hit", key |-> k, since |-> xTime, token |-> xcache[k]]
  <2>1. xcache[k] \in BackendToken /\ r \in ExchangeCall
    BY <1>1 DEF ExchangeCall
  <2>2. xcache[k].expiresIn # 0 /\ xTime <= xcache[k].issued + xcache[k].expiresIn
    BY <1>1, <1>3, <2>1 DEF CacheHit, XExpired, BackendToken
  <2>3. xcache[k].good + XReplyTime >= xTime + XBuffer
    BY <1>1, <2>1, <2>2 DEF ExchangeInv, CacheKeepsTheBuffer, BackendToken
  <2>4. CallInOrder(r)
    BY <2>1, <2>3 DEF CallInOrder
  <2> QED
    BY <1>1, <1>3, <2>4, OneCall DEF CacheHit, ExchangeInv, CacheKeepsTheBuffer
<1>4. ASSUME NEW c \in Exchanges, NEW k \in XKeys, CacheMiss(c, k) PROVE ExchangeInv'
  <2> DEFINE r == [NoExchange EXCEPT !.pc = "asked", !.key = k, !.since = xTime]
  <2>1. r \in ExchangeCall /\ r.pc = "asked" /\ r.key = k /\ r.since = xTime
    BY <1>1 DEF NoExchange, ExchangeCall
  <2>2. CallInOrder(r)
    BY <1>1, <2>1 DEF CallInOrder
  <2>3. xcache' \in [XKeys -> BackendToken] /\ CacheKeepsTheBuffer'
    BY <1>1, <1>4 DEF CacheMiss, ExchangeInv, CacheKeepsTheBuffer, NoBackendToken
  <2> HIDE DEF r
  <2>4. xcall' = [xcall EXCEPT ![c] = r] /\ UNCHANGED xTime
    BY <1>4 DEF CacheMiss, r
  <2> QED
    BY <2>2, <2>3, <2>4, OneCall
<1>5. ASSUME NEW c \in Exchanges, NEW v \in Validities, ProviderIssues(c, v) PROVE ExchangeInv'
  <2> DEFINE t == [good |-> xTime + v, issued |-> 0, expiresIn |-> v]
             r == [xcall[c] EXCEPT !.pc = "issued", !.token = t]
  <2>1. xcall[c] \in ExchangeCall /\ v \in Nat
    BY <1>1, TokenExchangeAssumption
  <2>2. /\ xcall[c].key \in XKeys /\ xcall[c].since \in Nat
        /\ xcall[c].since <= xTime /\ xTime <= xcall[c].since + XReplyTime
    BY <1>5, <2>1 DEF ProviderIssues, ExchangeInv, ExchangeTypes, ExchangesArePrompt, ExchangeCall
  <2>3. CallInOrder(r)
    <3>1. t \in BackendToken /\ t.good = xTime + v /\ t.expiresIn = v
      BY <1>1, <2>1 DEF BackendToken
    <3> HIDE DEF t
    <3>2. /\ r \in ExchangeCall /\ r.pc = "issued" /\ r.key = xcall[c].key
          /\ r.since = xcall[c].since /\ r.token = t
      BY <2>1, <3>1 DEF ExchangeCall
    <3> QED
      BY <1>1, <2>1, <2>2, <3>1, <3>2 DEF CallInOrder
  <2>4. xcall' = [xcall EXCEPT ![c] = r]
    BY <1>1, <1>5 DEF ProviderIssues
  <2> QED
    BY <1>1, <1>5, <2>3, <2>4, OneCall DEF ProviderIssues, ExchangeInv, CacheKeepsTheBuffer
<1>6. ASSUME NEW c \in Exchanges, TokenExchanged(c) PROVE ExchangeInv'
  <2> DEFINE t == xcall[c].token
             cached == CachedFor(t)
  <2>1. xcall[c] \in ExchangeCall /\ t \in BackendToken
    BY <1>1 DEF ExchangeCall
  <2>2. /\ xcall[c].key \in XKeys /\ xcall[c].since \in Nat
        /\ xTime <= xcall[c].since + XReplyTime
        /\ t.good >= xcall[c].since + t.expiresIn
    BY <1>6, <2>1 DEF TokenExchanged, ExchangeInv, ExchangeTypes, ExchangesArePrompt,
       IssuedTokensLast, ExchangeCall
  <2>3. /\ cached \in BackendToken /\ cached.good = t.good /\ cached.issued = xTime
        /\ cached.expiresIn = IF t.expiresIn > XBuffer THEN t.expiresIn - XBuffer ELSE 0
    BY <1>1, <2>1, CachedForFacts
  <2>4. cached.expiresIn # 0 =>
          cached.good + XReplyTime >= cached.issued + cached.expiresIn + XBuffer
    BY <1>1, <2>1, <2>2, <2>3 DEF BackendToken
  <2> HIDE DEF t, cached
  <2>5. xcache' = [xcache EXCEPT ![xcall[c].key] = cached]
    BY <1>6 DEF TokenExchanged, cached, t
  <2>6. xcache' \in [XKeys -> BackendToken] /\ CacheKeepsTheBuffer'
    BY <1>1, <2>2, <2>3, <2>4, <2>5 DEF ExchangeInv, CacheKeepsTheBuffer
  <2> QED
    BY <1>2, <1>6, <2>6, OneCall DEF TokenExchanged
<1>7. ASSUME NEW c \in Exchanges, ExchangeOver(c) PROVE ExchangeInv'
  BY <1>1, <1>2, <1>7, OneCall DEF ExchangeOver, ExchangeInv, CacheKeepsTheBuffer
<1>8. CASE XTick
  BY <1>1, <1>8 DEF XTick, ExchangeInv, ExchangeTypes, ExchangesArePrompt, IssuedTokensLast,
     CacheKeepsTheBuffer, CachedTokensLast, ExchangeCall
<1>9. CASE UNCHANGED xvars
  BY <1>9 DEF xvars, ExchangeInv, ExchangeTypes, ExchangesArePrompt, IssuedTokensLast,
     CacheKeepsTheBuffer, CachedTokensLast
<1> QED
  BY <1>3, <1>4, <1>5, <1>6, <1>7, <1>8, <1>9 DEF XNext

(* However calls for one key overlap, a token from the cache has the rest of *)
(* its buffer to live.                                                       *)
THEOREM CachedTokens == XSpec => []CachedTokensLast
<1>1. ExchangeInv => CachedTokensLast
  BY DEF ExchangeInv
<1> QED
  BY <1>1, ExchangeInitHolds, ExchangeStep, PTL DEF XSpec

-----------------------------------------------------------------------------
(* The local proxy. *)

Jwt  == [of : Nat, dies : Nat, expiresAt : Nat]
Line ==
  [kind : {"none", "start", "request", "notification"},
   pc : {"idle", "token", "boot", "booted", "exchange", "exchanged", "sent", "401", "200", "202"},
   again : BOOLEAN, since : Nat, jwt : Jwt]

ProxyTypes ==
  /\ target \in BOOLEAN
  /\ discovery \in Jwt /\ scoped \in Jwt
  /\ line \in Line
  /\ valid \in Nat /\ proxyTime \in Nat

\* A call is not under way for longer than calls take.
CallsArePrompt ==
  line.pc \in {"boot", "booted", "exchange", "exchanged", "sent"} =>
    line.since <= proxyTime /\ proxyTime <= line.since + ProxyLatency

\* A token on its way was granted after it was asked for.
GrantsAreRecent ==
  line.pc \in {"booted", "exchanged"} => line.jwt.dies >= line.since + ProxyTTL

\* The expiry the proxy reckons is late by no more than a call takes.
ReckonedInTime ==
  /\ discovery.expiresAt <= discovery.dies + ProxyLatency
  /\ scoped.expiresAt <= scoped.dies + ProxyLatency

\* A token that is presented outlives the call that presents it.
PresentedTokensOutliveCalls ==
  /\ line.pc = "sent" => line.since + ProxyLatency < line.jwt.dies
  /\ line.pc = "exchange" => line.since + ProxyLatency < discovery.dies

ProxyInv ==
  /\ ProxyTypes
  /\ CallsArePrompt
  /\ GrantsAreRecent
  /\ ReckonedInTime
  /\ PresentedTokensOutliveCalls

\* What the parts of the proxy's state are made of.
LEMMA ProxyFacts ==
  ASSUME ProxyTypes
  PROVE  /\ ProxyTTL \in Nat /\ RefreshMargin \in Nat /\ ProxyLatency \in Nat
         /\ 2 * ProxyLatency <= RefreshMargin /\ 2 * ProxyLatency < ProxyTTL
         /\ proxyTime \in Nat /\ valid \in Nat
         /\ line.since \in Nat /\ line.jwt \in Jwt /\ line.jwt.dies \in Nat
         /\ \A jwt \in Jwt : jwt.dies \in Nat /\ jwt.expiresAt \in Nat
         /\ NoJwt \in Jwt /\ NoJwt.dies = 0 /\ NoJwt.expiresAt = 0
         /\ NoLine \in Line /\ NoLine.pc = "idle"
  BY LocalProxyAssumption DEF ProxyTypes, Line, Jwt, NoLine, NoJwt

LEMMA ProxyInitHolds == ProxyInit => ProxyInv
<1> SUFFICES ASSUME ProxyInit PROVE ProxyInv
  OBVIOUS
<1> DEFINE l == [NoLine EXCEPT !.kind = "start", !.pc = "token"]
<1>1. NoJwt \in Jwt /\ NoJwt.expiresAt = 0 /\ NoJwt.dies = 0
  BY DEF NoJwt, Jwt
<1>2. l \in Line /\ l.pc = "token"
  BY <1>1 DEF NoLine, Line
<1> HIDE DEF l
<1>3. line = l /\ discovery = NoJwt /\ scoped = NoJwt
  BY DEF ProxyInit, l
<1> QED
  BY <1>1, <1>2, <1>3, LocalProxyAssumption
     DEF ProxyInit, ProxyInv, ProxyTypes, CallsArePrompt, GrantsAreRecent, ReckonedInTime,
         PresentedTokensOutliveCalls

\* The message goes on to a call that needs no token, or out of any call.
LEMMA LineMoves ==
  ASSUME ProxyInv, line' \in Line,
         line'.pc \in {"boot"} => line'.since = proxyTime,
         line'.pc \in {"idle", "token", "boot", "401", "200", "202"},
         target' \in BOOLEAN, proxyTime' = proxyTime, valid' \in Nat,
         discovery' \in {discovery, NoJwt}, scoped' \in {scoped, NoJwt}
  PROVE  ProxyInv'
BY ProxyFacts DEF ProxyInv, ProxyTypes, CallsArePrompt, GrantsAreRecent, ReckonedInTime,
   PresentedTokensOutliveCalls

\* The message goes on to present a token that will last.
LEMMA LinePresents ==
  ASSUME ProxyInv, line' \in Line, line'.since = proxyTime,
         \/ line'.pc = "sent" /\ proxyTime + ProxyLatency < line'.jwt.dies
         \/ line'.pc = "exchange" /\ proxyTime + ProxyLatency < discovery'.dies,
         UNCHANGED <<target, proxyTime, valid>>,
         discovery' \in Jwt, discovery'.expiresAt <= discovery'.dies + ProxyLatency,
         scoped' \in Jwt, scoped'.expiresAt <= scoped'.dies + ProxyLatency
  PROVE  ProxyInv'
BY ProxyFacts DEF ProxyInv, ProxyTypes, CallsArePrompt, GrantsAreRecent, ReckonedInTime,
   PresentedTokensOutliveCalls

\* What LineGoes and LineSent make of the message.
LEMMA LineFacts ==
  ASSUME ProxyTypes
  PROVE  /\ \A pc \in {"boot", "exchange", "401", "200", "202"} : LineGoes(pc) =>
              line' \in Line /\ line'.pc = pc /\ line'.since = proxyTime
         /\ \A jwt \in Jwt : LineSent(jwt) =>
              line' \in Line /\ line'.pc = "sent" /\ line'.since = proxyTime /\ line'.jwt = jwt
  BY DEF ProxyTypes, LineGoes, LineSent, Line

\* A token that arrives outlives the next call, and is reckoned to.
LEMMA ReckonedFacts ==
  ASSUME ProxyInv, line.pc \in {"booted", "exchanged"}
  PROVE  /\ ExpiryReckoned \in Jwt
         /\ ExpiryReckoned.expiresAt <= ExpiryReckoned.dies + ProxyLatency
         /\ proxyTime + ProxyLatency < ExpiryReckoned.dies
<1> DEFINE e == proxyTime + ProxyTTL
<1>1. /\ ProxyTypes /\ e \in Nat
      /\ line.since <= proxyTime /\ proxyTime <= line.since + ProxyLatency
      /\ line.jwt.dies >= line.since + ProxyTTL
  BY ProxyFacts DEF ProxyInv, CallsArePrompt, GrantsAreRecent
<1>2. /\ ExpiryReckoned \in Jwt /\ ExpiryReckoned.dies = line.jwt.dies
      /\ ExpiryReckoned.expiresAt = e
  BY <1>1, ProxyFacts DEF ExpiryReckoned, Jwt
<1> QED
  BY <1>1, <1>2, ProxyFacts

LEMMA ProxyStep == ProxyInv /\ [ProxyNext]_pvars => ProxyInv'
<1> SUFFICES ASSUME ProxyInv, [ProxyNext]_pvars PROVE ProxyInv'
  OBVIOUS
<1>1. ProxyTypes /\ ReckonedInTime
  BY DEF ProxyInv
<1>2. /\ target \in BOOLEAN /\ discovery \in Jwt /\ scoped \in Jwt /\ line \in Line
  BY <1>1 DEF ProxyTypes
<1>3. ASSUME NEW kind \in {"request", "notification"}, ReadLine(kind) PROVE ProxyInv'
  <2> DEFINE l == [NoLine EXCEPT !.kind = kind, !.pc = "token"]
  <2>1. l \in Line /\ l.pc = "token"
    BY DEF NoLine, Line, NoJwt, Jwt
  <2> HIDE DEF l
  <2>2. line' = l
    BY <1>3 DEF ReadLine, l
  <2> QED
    BY <1>1, <1>2, <1>3, <2>1, <2>2, ProxyFacts, LineMoves DEF ReadLine
<1>4. CASE EndOfInput \/ ProxyFails
  BY <1>1, <1>2, <1>4, ProxyFacts, LineMoves DEF EndOfInput, ProxyFails, ProxyStops
<1>5. CASE GetCurrentJwt
  <2> USE DEF GetCurrentJwt
  <2>1. ASSUME NEW jwt \in {discovery, scoped}, UsableJwt(jwt)
        PROVE  proxyTime + ProxyLatency < jwt.dies
    BY <1>1, <1>2, <2>1, ProxyFacts DEF UsableJwt, ReckonedInTime
  <2>2. CASE ForDelegation /\ UsableJwt(scoped)
    <3>1. LineSent(scoped)
      BY <1>5, <2>2
    <3> QED
      BY <1>1, <1>2, <1>5, <2>1, <2>2, <3>1, LineFacts, LinePresents DEF ReckonedInTime
  <2>3. CASE ~(ForDelegation /\ UsableJwt(scoped)) /\ ~UsableJwt(discovery)
    <3>1. LineGoes("boot")
      BY <1>5, <2>3
    <3> QED
      BY <1>1, <1>2, <1>5, <3>1, LineFacts, ProxyFacts, LineMoves
  <2>4. CASE ~(ForDelegation /\ UsableJwt(scoped)) /\ UsableJwt(discovery) /\ ForDelegation
    <3>1. LineGoes("exchange")
      BY <1>5, <2>4
    <3> QED
      BY <1>1, <1>2, <1>5, <2>1, <2>4, <3>1, LineFacts, LinePresents DEF ReckonedInTime
  <2>5. CASE UsableJwt(discovery) /\ ~ForDelegation
    <3>1. LineSent(discovery)
      BY <1>5, <2>5
    <3> QED
      BY <1>1, <1>2, <1>5, <2>1, <2>5, <3>1, LineFacts, LinePresents DEF ReckonedInTime
  <2> QED
    BY <2>2, <2>3, <2>4, <2>5
<1>6. CASE JwtGranted
  <2> DEFINE jwt == [of |-> valid, dies |-> proxyTime + ProxyTTL, expiresAt |-> 0]
             pc == IF line.pc = "boot" THEN "booted" ELSE "exchanged"
  <2>1. jwt \in Jwt /\ jwt.dies = proxyTime + ProxyTTL
    BY <1>1, ProxyFacts DEF Jwt
  <2>2. pc \in {"booted", "exchanged"}
    OBVIOUS
  <2>3. line' = [line EXCEPT !.pc = pc, !.jwt = jwt]
    BY <1>6 DEF JwtGranted
  <2> HIDE DEF jwt, pc
  <2>4. line' \in Line /\ line'.pc = pc /\ line'.jwt = jwt /\ line'.since = line.since
    BY <1>2, <2>1, <2>2, <2>3 DEF Line
  <2>5. /\ line.since <= proxyTime /\ proxyTime <= line.since + ProxyLatency
        /\ UNCHANGED <<target, discovery, scoped, valid, proxyTime>>
    BY <1>6 DEF JwtGranted, LineAt, ProxyInv, CallsArePrompt
  <2> QED
    BY <1>1, <2>1, <2>2, <2>4, <2>5, ProxyFacts
       DEF ProxyInv, ProxyTypes, CallsArePrompt, GrantsAreRecent, ReckonedInTime,
           PresentedTokensOutliveCalls
<1>7. CASE DiscoveryJwtArrives
  <2> USE DEF DiscoveryJwtArrives
  <2>1. /\ line.pc \in {"booted", "exchanged"} /\ discovery' = ExpiryReckoned
        /\ UNCHANGED <<target, scoped, valid, proxyTime>>
    BY <1>7 DEF LineAt
  <2>2. CASE line' = NoLine
    BY <1>1, <1>2, <2>1, <2>2, ProxyFacts, ReckonedFacts
       DEF ProxyInv, ProxyTypes, CallsArePrompt, GrantsAreRecent, ReckonedInTime,
           PresentedTokensOutliveCalls
  <2>3. CASE LineGoes("exchange") \/ LineSent(ExpiryReckoned)
    BY <1>1, <1>2, <2>1, <2>3, LineFacts, ReckonedFacts, LinePresents DEF ReckonedInTime
  <2> QED
    BY <1>7, <2>2, <2>3
<1>8. CASE DelegationJwtArrives
  <2>1. /\ line.pc \in {"booted", "exchanged"} /\ scoped' = ExpiryReckoned
        /\ LineSent(ExpiryReckoned)
        /\ UNCHANGED <<target, discovery, valid, proxyTime>>
    BY <1>8 DEF LineAt, DelegationJwtArrives
  <2> QED
    BY <1>1, <1>2, <2>1, LineFacts, ReckonedFacts, LinePresents DEF ReckonedInTime
<1>9. CASE GatewayAnswers
  <2>1. \E pc \in {"401", "200", "202"} : LineGoes(pc)
    BY <1>9 DEF GatewayAnswers
  <2> QED
    BY <1>1, <1>2, <1>9, <2>1, LineFacts, ProxyFacts, LineMoves DEF GatewayAnswers
<1>10. CASE RetryOnce
  <2> DEFINE l == [NoLine EXCEPT !.kind = line.kind, !.pc = "token", !.again = TRUE]
  <2>1. l \in Line /\ l.pc = "token"
    BY <1>2 DEF NoLine, Line, NoJwt, Jwt
  <2> HIDE DEF l
  <2>2. line' = l
    BY <1>10 DEF RetryOnce, l
  <2> QED
    BY <1>1, <1>2, <1>10, <2>1, <2>2, ProxyFacts, LineMoves DEF RetryOnce
<1>11. CASE WriteAnswer \/ NoJson
  BY <1>1, <1>2, <1>11, ProxyFacts, LineMoves DEF WriteAnswer, NoJson
<1>12. CASE RevokeSession \/ ProxyTick
  <2> USE DEF ProxyInv, ProxyTypes, CallsArePrompt, GrantsAreRecent, ReckonedInTime,
              PresentedTokensOutliveCalls
  <2>1. CASE RevokeSession
    BY <1>1, <2>1, ProxyFacts DEF RevokeSession
  <2>2. CASE ProxyTick
    BY <1>1, <2>2, ProxyFacts DEF ProxyTick
  <2> QED
    BY <1>12, <2>1, <2>2
<1>13. CASE UNCHANGED pvars
  BY <1>13 DEF pvars, ProxyInv, ProxyTypes, CallsArePrompt, GrantsAreRecent, ReckonedInTime,
     PresentedTokensOutliveCalls
<1> QED
  BY <1>3, <1>4, <1>5, <1>6, <1>7, <1>8, <1>9, <1>10, <1>11, <1>12, <1>13 DEF ProxyNext

(* Whenever the local proxy has a call under way, the token it carries has   *)
(* not expired.                                                              *)
THEOREM SentTokens == ProxySpec => []SentTokensAreLive
<1>1. ASSUME ProxyInv PROVE SentTokensAreLive
  <2>1. ProxyTypes /\ discovery \in Jwt
    BY <1>1 DEF ProxyInv, ProxyTypes
  <2> QED
    BY <1>1, <2>1, ProxyFacts
       DEF ProxyInv, CallsArePrompt, PresentedTokensOutliveCalls, SentTokensAreLive, LineAt
<1> QED
  BY <1>1, ProxyInitHolds, ProxyStep, PTL DEF ProxySpec

-----------------------------------------------------------------------------
(* The SDK's macaroons. *)

\* A macaroon that kept what it descends from: every macaroon of its chain is
\* one of ms, and all of its caveats but whom it is for are caveats of m too.
KeptBy(m, ms) ==
  \A j \in DOMAIN m.chain :
    m.chain[j] \in DOMAIN ms /\ Inherited(ms[m.chain[j]].caveats) \subseteq m.caveats

\* A table of macaroons, each with the chain it descends from.
Table(ms) ==
  /\ \E S : ms \in Seq(S)
  /\ \A i \in DOMAIN ms : /\ ms[i].chain \in Seq(Nat)
                          /\ KeptBy(ms[i], ms)

MacInv == Table(macaroons)

\* A macaroon joins the table.
LEMMA OneMore ==
  ASSUME NEW ms, Table(ms), NEW m, m.chain \in Seq(Nat), KeptBy(m, Append(ms, m))
  PROVE  Table(Append(ms, m))
<1>1. PICK S : ms \in Seq(S)
  BY DEF Table
<1>2. ms \in Seq(S \cup {m})
  BY <1>1
<1>3. /\ Append(ms, m) \in Seq(S \cup {m}) /\ DOMAIN ms = 1..Len(ms) /\ Len(ms) \in Nat
      /\ DOMAIN Append(ms, m) = 1..Len(ms) + 1 /\ Append(ms, m)[Len(ms) + 1] = m
      /\ \A i \in DOMAIN ms : Append(ms, m)[i] = ms[i]
  BY <1>2
<1>4. ASSUME NEW i \in DOMAIN Append(ms, m)
      PROVE  /\ Append(ms, m)[i].chain \in Seq(Nat)
             /\ KeptBy(Append(ms, m)[i], Append(ms, m))
  <2>1. CASE i = Len(ms) + 1
    BY <1>3, <2>1
  <2>2. CASE i \in DOMAIN ms
    <3>1. Append(ms, m)[i] = ms[i] /\ ms[i].chain \in Seq(Nat) /\ KeptBy(ms[i], ms)
      BY <1>3, <2>2 DEF Table
    <3>2. ASSUME NEW j \in DOMAIN ms[i].chain
          PROVE  /\ ms[i].chain[j] \in DOMAIN Append(ms, m)
                 /\ Inherited(Append(ms, m)[ms[i].chain[j]].caveats) \subseteq ms[i].caveats
      <4>1. ms[i].chain[j] \in DOMAIN ms /\ Inherited(ms[ms[i].chain[j]].caveats) \subseteq ms[i].caveats
        BY <3>1 DEF KeptBy
      <4> QED
        BY <4>1, <1>3
    <3> QED
      BY <3>1, <3>2 DEF KeptBy
  <2> QED
    BY <1>3, <2>1, <2>2
<1> QED
  BY <1>3, <1>4 DEF Table

\* A root keeps what it descends from, which is itself.
LEMMA RootJoins ==
  ASSUME NEW ms, Table(ms), NEW a, NEW id, id = Len(ms) + 1
  PROVE  Table(Append(ms, RootMacaroon(a, id)))
<1> DEFINE m == RootMacaroon(a, id)
<1>1. PICK S : ms \in Seq(S)
  BY DEF Table
<1>2. ms \in Seq(S \cup {m}) /\ Len(ms) \in Nat
  BY <1>1
<1>3. id \in DOMAIN Append(ms, m) /\ Append(ms, m)[id] = m
  BY <1>2
<1>4. m.chain = <<id>> /\ m.chain \in Seq(Nat) /\ DOMAIN m.chain = {1} /\ m.chain[1] = id
  BY <1>2 DEF RootMacaroon
<1>5. Inherited(m.caveats) \subseteq m.caveats
  BY DEF Inherited
<1> HIDE DEF m
<1>6. KeptBy(m, Append(ms, m))
  BY <1>3, <1>4, <1>5 DEF KeptBy
<1> QED
  BY <1>4, <1>6, OneMore DEF m

\* Attenuation: a child has what its parent kept, and what the parent has.
LEMMA ChildJoins ==
  ASSUME NEW ms, Table(ms), NEW p \in DOMAIN ms, NEW a, NEW l, NEW id, id = Len(ms) + 1
  PROVE  Table(Append(ms, ChildMacaroon(ms[p], a, l, id)))
<1> DEFINE m == ChildMacaroon(ms[p], a, l, id)
<1>1. PICK S : ms \in Seq(S)
  BY DEF Table
<1>2. ms \in Seq(S \cup {m}) /\ Len(ms) \in Nat /\ id \in Nat
  BY <1>1
<1>3. /\ DOMAIN ms = 1..Len(ms) /\ DOMAIN Append(ms, m) = 1..id /\ Append(ms, m)[id] = m
      /\ \A i \in DOMAIN ms : Append(ms, m)[i] = ms[i]
  BY <1>2
<1>4. ms[p].chain \in Seq(Nat) /\ KeptBy(ms[p], ms)
  BY DEF Table
<1>5. m.chain = Append(ms[p].chain, id) /\ Inherited(ms[p].caveats) \subseteq m.caveats
  BY DEF ChildMacaroon
<1>6. Inherited(m.caveats) \subseteq m.caveats
  BY DEF Inherited
<1> HIDE DEF m
<1>7. /\ m.chain \in Seq(Nat) /\ DOMAIN m.chain = 1..Len(ms[p].chain) + 1
      /\ m.chain[Len(ms[p].chain) + 1] = id
      /\ DOMAIN ms[p].chain = 1..Len(ms[p].chain) /\ Len(ms[p].chain) \in Nat
      /\ \A j \in DOMAIN ms[p].chain : m.chain[j] = ms[p].chain[j]
  BY <1>2, <1>4, <1>5
<1>8. ASSUME NEW j \in DOMAIN m.chain
      PROVE  /\ m.chain[j] \in DOMAIN Append(ms, m)
             /\ Inherited(Append(ms, m)[m.chain[j]].caveats) \subseteq m.caveats
  <2>1. CASE j = Len(ms[p].chain) + 1
    <3>1. m.chain[j] = id /\ id \in DOMAIN Append(ms, m)
      BY <1>2, <1>3, <1>7, <2>1
    <3> QED
      BY <1>3, <1>6, <3>1
  <2>2. CASE j \in DOMAIN ms[p].chain
    <3>1. /\ m.chain[j] = ms[p].chain[j] /\ m.chain[j] \in DOMAIN ms
          /\ Inherited(ms[m.chain[j]].caveats) \subseteq ms[p].caveats
      BY <1>4, <1>7, <2>2 DEF KeptBy
    <3>2. Append(ms, m)[m.chain[j]] = ms[m.chain[j]] /\ m.chain[j] \in DOMAIN Append(ms, m)
      BY <1>2, <1>3, <3>1
    <3>3. Inherited(ms[m.chain[j]].caveats) \subseteq Inherited(ms[p].caveats)
      BY <3>1 DEF Inherited
    <3> QED
      BY <1>5, <3>2, <3>3
  <2>3. j = Len(ms[p].chain) + 1 \/ j \in DOMAIN ms[p].chain
    BY <1>7
  <2> QED
    BY <2>1, <2>2, <2>3
<1>9. KeptBy(m, Append(ms, m))
  BY <1>8 DEF KeptBy
<1> QED
  BY <1>7, <1>9, OneMore DEF m

LEMMA JoinedIsLast ==
  ASSUME NEW ms, Table(ms), NEW m
  PROVE  /\ Len(ms) + 1 \in DOMAIN Append(ms, m) /\ Append(ms, m)[Len(ms) + 1] = m
         /\ Len(Append(ms, m)) = Len(ms) + 1 /\ Len(ms) \in Nat
<1>1. PICK S : ms \in Seq(S)
  BY DEF Table
<1>2. ms \in Seq(S \cup {m})
  BY <1>1
<1> QED
  BY <1>2

\* Several that are stored in one call join one after another.
LEMMA JoinedInTurn ==
  ASSUME NEW ms, Table(ms), NEW m, NEW n, NEW o
  PROVE  /\ ms \o <<m>> = Append(ms, m)
         /\ ms \o <<m, n>> = Append(Append(ms, m), n)
         /\ ms \o <<m, n, o>> = Append(Append(Append(ms, m), n), o)
<1>1. PICK S : ms \in Seq(S)
  BY DEF Table
<1> DEFINE T == S \cup {m, n, o}
<1>2. ms \in Seq(T) /\ m \in T /\ n \in T /\ o \in T
  BY <1>1
<1> HIDE DEF T
<1>3. ms \o <<m>> = Append(ms, m)
  BY <1>2
<1>4. ms \o <<m, n>> = Append(Append(ms, m), n)
  BY <1>2
<1>5. ms \o <<m, n, o>> = Append(Append(Append(ms, m), n), o)
  BY <1>2
<1> QED
  BY <1>3, <1>4, <1>5

LEMMA MacStep == MacInv /\ [MacNext]_mvars => MacInv'
<1> SUFFICES ASSUME MacInv, [MacNext]_mvars PROVE MacInv'
  OBVIOUS
<1>0. Table(macaroons)
  BY DEF MacInv
<1>1. ASSUME NEW p \in DOMAIN macaroons, NEW a \in Holders, NEW l \in Limits,
             DelegateMacaroon(p, a, l)
      PROVE  MacInv'
  <2> DEFINE m == ChildMacaroon(macaroons[p], a, l, Len(macaroons) + 1)
  <2>1. macaroons' = macaroons \o <<m>>
    BY <1>1 DEF DelegateMacaroon, Stored
  <2>2. Table(Append(macaroons, m))
    BY <1>0, ChildJoins
  <2> HIDE DEF m
  <2>3. macaroons' = Append(macaroons, m)
    BY <1>0, <2>1, JoinedInTurn
  <2> QED
    BY <2>2, <2>3 DEF MacInv
<1>2. ASSUME NEW a \in Holders, NEW b \in Holders, NEW l \in Limits, DelegateAccess(a, b, l)
      PROVE  MacInv'
  <2> DEFINE id == Len(macaroons) + 1
             root == RootMacaroon(a, id)
             ms == Append(macaroons, root)
             m == ChildMacaroon(root, b, l, id + 1)
  <2>1. macaroons' = macaroons \o <<root, m>>
    BY <1>2 DEF DelegateAccess, Stored
  <2>2. Table(ms) /\ id \in DOMAIN ms /\ ms[id] = root /\ Len(ms) = id
    BY <1>0, RootJoins, JoinedIsLast
  <2>3. m = ChildMacaroon(ms[id], b, l, Len(ms) + 1)
    BY <2>2
  <2> HIDE DEF id, ms
  <2>4. Table(Append(ms, m))
    BY <2>2, <2>3, ChildJoins
  <2> HIDE DEF root, m
  <2>5. macaroons' = Append(ms, m)
    BY <1>0, <2>1, JoinedInTurn DEF ms
  <2> QED
    BY <2>4, <2>5 DEF MacInv
<1>3. ASSUME NEW a \in Holders, NEW b \in Holders, NEW c \in Holders,
             NEW l \in Limits, NEW k \in Limits, CreateChain(a, b, l, c, k)
      PROVE  MacInv'
  <2> DEFINE id == Len(macaroons) + 1
             root == RootMacaroon(a, id)
             ms == Append(macaroons, root)
             m == ChildMacaroon(root, b, l, id + 1)
             ns == Append(ms, m)
             n == ChildMacaroon(m, c, k, id + 2)
  <2>1. macaroons' = macaroons \o <<root, m, n>>
    BY <1>3 DEF CreateChain, Stored
  <2>2. Table(ms) /\ id \in DOMAIN ms /\ ms[id] = root /\ Len(ms) = id /\ id \in Nat
    BY <1>0, RootJoins, JoinedIsLast
  <2>3. m = ChildMacaroon(ms[id], b, l, Len(ms) + 1)
    BY <2>2
  <2> HIDE DEF ms
  <2>4. Table(ns) /\ id + 1 \in DOMAIN ns /\ ns[id + 1] = m /\ Len(ns) = id + 1
    BY <2>2, <2>3, ChildJoins, JoinedIsLast
  <2>5. n = ChildMacaroon(ns[id + 1], c, k, Len(ns) + 1)
    <3>1. Len(ns) + 1 = id + 2
      BY <2>2, <2>4
    <3> QED
      BY <2>4, <3>1
  <2> HIDE DEF ns, id
  <2>6. Table(Append(ns, n))
    BY <2>4, <2>5, ChildJoins
  <2> HIDE DEF root, m, n
  <2>7. macaroons' = Append(ns, n)
    BY <1>0, <2>1, JoinedInTurn DEF ms, ns
  <2> QED
    BY <2>6, <2>7 DEF MacInv
<1>4. CASE MacTick
  BY <1>0, <1>4 DEF MacTick, MacInv
<1>5. CASE UNCHANGED mvars
  BY <1>0, <1>5 DEF mvars, MacInv
<1> QED
  BY <1>1, <1>2, <1>3, <1>4, <1>5 DEF MacNext

LEMMA MacInvariance == MacSpec => []MacInv
<1>1. MacInit => MacInv
  <2> SUFFICES ASSUME MacInit PROVE MacInv
    OBVIOUS
  <2>1. macaroons \in Seq({}) /\ DOMAIN macaroons = {}
    BY DEF MacInit
  <2> QED
    BY <2>1 DEF MacInv, Table
<1> QED
  BY <1>1, MacStep, PTL DEF MacSpec

(* However many macaroons a chain is of, whoever made them and whenever, a    *)
(* request the last of it permits meets every restriction of each before.     *)
THEOREM Attenuation == MacSpec => []DelegationAttenuates
<1>1. MacInv => DelegationAttenuates
  <2> SUFFICES ASSUME MacInv, NEW i \in DOMAIN macaroons, NEW r \in MacRequests,
                      Verifies(macaroons[i], r), NEW j \in DOMAIN macaroons[i].chain,
                      NEW c \in macaroons[macaroons[i].chain[j]].caveats, Type(c) # "agent_id"
               PROVE  CaveatHolds(c, r)
    BY DEF DelegationAttenuates
  <2>1. Inherited(macaroons[macaroons[i].chain[j]].caveats) \subseteq macaroons[i].caveats
    BY DEF MacInv, Table, KeptBy
  <2>2. c \in macaroons[i].caveats
    BY <2>1 DEF Inherited
  <2> QED
    BY <2>2 DEF Verifies
<1> QED
  BY <1>1, MacInvariance, PTL
=============================================================================
