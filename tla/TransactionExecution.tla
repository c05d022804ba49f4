----------------------- MODULE TransactionExecution -----------------------
(***************************************************************************)
(* Plans, approvals, executions and proofs (planner, approvals, execution,  *)
(* proof; routes plans, approvals, executions; storage/db.py).              *)
(*                                                                         *)
(* A request is a thread with a database session of its own.  SQLite runs   *)
(* its reads one by one until its first flush, which takes the write lock;  *)
(* from there to the commit nobody else writes.  So a request reads in      *)
(* steps of its own, and what it read may be old when it writes: no row     *)
(* carries a version.  A request that writes rows only is one step; an      *)
(* execution also writes a file, in the middle of its transaction.          *)
(* A request that is refused is rolled back and changes nothing.            *)
(***************************************************************************)
EXTENDS Naturals, FiniteSets

CONSTANTS
  Requests,      \* threads that serve requests
  Plans, Approvals, Keys,
  MaxRequests,   \* bound: requests served
  MaxTokens,     \* bound: approvals given
  MaxExecutions, \* bound: executions begun
  None

Executions == 1..MaxExecutions
Tokens == 0..MaxTokens          \* 0 is no token the Runtime gave out

ExecutionRows == [plan : Plans, approval : Approvals, token : Tokens, key : Keys \cup {None},
                  status : {"verified", "failed"}]

ASSUME BoundAssumption ==
  MaxRequests \in Nat /\ MaxTokens \in Nat /\ MaxExecutions \in Nat
ASSUME NoneAssumption ==
  None \notin Requests \cup Plans \cup Approvals \cup ExecutionRows

VARIABLES
  plan,       \* status of the row of each plan
  blocked,    \* plans whose input blocks a path that they change
  approval,   \* rows of the approvals
  expired,    \* approvals whose half hour is over
  minted,     \* tokens generated
  issued,     \* <<approval, token>> answered to a human's approval
  execution,  \* rows of the executions
  proofs,     \* executions with a proof row
  files,      \* executions with a proof file
  begun,      \* execution identifiers used
  writer,     \* the request that holds the write lock of the database
  pc, job,    \* where a request is, and what it asks for and has read
  served      \* requests so far

rows == <<plan, blocked, approval, execution, proofs>>
vars == <<rows, expired, minted, issued, files, begun, writer, pc, job, served>>

PlanStatuses == {"none", "pending_preview", "plan_only", "pending_approval", "approved", "rejected", "verified"}
NoApproval == [plan |-> None, status |-> "none", token |-> 0]
Idle == [plan |-> None, approval |-> None, token |-> 0, key |-> None,
         seen |-> "none", id |-> 0, done |-> 0, status |-> "none", before |-> {}]

Labels == {"idle", "preview", "approve", "reject", "plan", "approval", "begin", "steps",
           "verify", "proof", "commit"}
ApprovalRows == [plan : Plans \cup {None}, token : Tokens,
                 status : {"none", "pending", "approved", "rejected"}]
Jobs == [plan : Plans \cup {None}, approval : Approvals \cup {None}, token : Tokens,
         key : Keys \cup {None}, seen : PlanStatuses, id : 0..MaxExecutions, done : 0..3,
         status : {"none", "verifying", "verified", "failed"}, before : SUBSET Executions]

(* Rows, answers, locks and what each request has read have their types.    *)
TypeOK ==
  /\ plan \in [Plans -> PlanStatuses]
  /\ blocked \subseteq Plans
  /\ approval \in [Approvals -> ApprovalRows]
  /\ execution \in [Executions -> ExecutionRows \cup {None}]
  /\ expired \subseteq Approvals /\ minted \in Tokens /\ issued \subseteq Approvals \X Tokens
  /\ proofs \subseteq Executions /\ files \subseteq Executions /\ begun \in 0..MaxExecutions
  /\ writer \in Requests \cup {None}
  /\ pc \in [Requests -> Labels] /\ job \in [Requests -> Jobs]
  /\ served \in 0..MaxRequests

Init ==
  /\ plan = [p \in Plans |-> "none"] /\ blocked = {}
  /\ approval = [a \in Approvals |-> NoApproval]
  /\ expired = {} /\ minted = 0 /\ issued = {}
  /\ execution = [e \in Executions |-> None] /\ proofs = {} /\ files = {} /\ begun = 0
  /\ writer = None /\ pc = [r \in Requests |-> "idle"] /\ job = [r \in Requests |-> Idle] /\ served = 0

Committed == {e \in Executions : execution[e] # None}
WithKey(k) == {e \in Committed : execution[e].key = k}

-----------------------------------------------------------------------------
(* Requests come, go on and end.                                            *)
Enter(r, label, asked) ==
  /\ pc[r] = "idle" /\ served < MaxRequests
  /\ served' = served + 1
  /\ pc' = [pc EXCEPT ![r] = label]
  /\ job' = [job EXCEPT ![r] = asked]

Goto(r, label) == pc' = [pc EXCEPT ![r] = label]
Return(r) == Goto(r, "idle") /\ job' = [job EXCEPT ![r] = Idle]

-----------------------------------------------------------------------------
(* create_plan: one transaction that reads nothing.  A transaction of a     *)
(* provider that cannot be executed makes a plan that is only shown.        *)
CreatePlan(r, p) ==
  /\ plan[p] = "none" /\ writer = None /\ Enter(r, "idle", Idle)
  /\ \E first \in {"pending_preview", "plan_only"} : plan' = [plan EXCEPT ![p] = first]
  /\ blocked' \in {blocked, blocked \cup {p}}
  /\ UNCHANGED <<approval, execution, proofs, expired, minted, issued, files, begun, writer>>

(* preview_plan: a plan the policy blocks is refused, and the rollback      *)
(* takes back the status failed it was given.                               *)
Allowed(p) == p \notin blocked

ReadForPreview(r, p) ==
  /\ plan[p] \in {"pending_preview", "plan_only"} /\ Allowed(p)
  /\ Enter(r, "preview", [Idle EXCEPT !.plan = p, !.seen = plan[p]])
  /\ UNCHANGED <<rows, expired, minted, issued, files, begun, writer>>

WritePreview(r) ==
  LET p == job[r].plan IN
  /\ pc[r] = "preview" /\ writer = None
  /\ IF job[r].seen = "plan_only"
       THEN UNCHANGED <<plan, approval>>
       ELSE /\ \E a \in Approvals :
                 /\ approval[a].status = "none"
                 /\ approval' = [approval EXCEPT ![a] = [plan |-> p, status |-> "pending", token |-> 0]]
            /\ plan' = [plan EXCEPT ![p] = "pending_approval"]
  /\ Return(r)
  /\ UNCHANGED <<blocked, execution, proofs, expired, minted, issued, files, begun, writer, served>>

-----------------------------------------------------------------------------
(* approve and reject read a pending approval; an approval found expired is *)
(* refused.                                                                 *)
ReadForDecision(r, a, decision) ==
  /\ approval[a].status = "pending"
  /\ decision = "approve" => a \notin expired
  /\ Enter(r, decision, [Idle EXCEPT !.approval = a])
  /\ UNCHANGED <<rows, expired, minted, issued, files, begun, writer>>

Approve(r) ==
  LET a == job[r].approval
      token == minted + 1 IN
  /\ pc[r] = "approve" /\ writer = None /\ minted < MaxTokens
  /\ minted' = token
  /\ approval' = [approval EXCEPT ![a].status = "approved", ![a].token = token]
  /\ plan' = [plan EXCEPT ![approval[a].plan] = "approved"]
  /\ issued' = issued \cup {<<a, token>>}
  /\ Return(r)
  /\ UNCHANGED <<blocked, execution, proofs, expired, files, begun, writer, served>>

Reject(r) ==
  LET a == job[r].approval IN
  /\ pc[r] = "reject" /\ writer = None
  /\ approval' = [approval EXCEPT ![a].status = "rejected"]
  /\ plan' = [plan EXCEPT ![approval[a].plan] = "rejected"]
  /\ Return(r)
  /\ UNCHANGED <<blocked, execution, proofs, expired, minted, issued, files, begun, writer, served>>

-----------------------------------------------------------------------------
(* execute reads, in this order, the execution of the same key, the plan    *)
(* and an approval of the plan.                                             *)
MUT_KeyIsNew(k) == k = None \/ \A e \in WithKey(k) : execution[e].status = "failed"

KeyIsNew(k) == k = None \/ WithKey(k) = {}

LookUpKey(r, p, token, k) ==
  /\ KeyIsNew(k)
  /\ Enter(r, "plan", [Idle EXCEPT !.plan = p, !.token = token, !.key = k, !.before = Committed])
  /\ UNCHANGED <<rows, expired, minted, issued, files, begun, writer>>

\* A key that was used answers with its execution.
AnswerKnownKey(r, k) ==
  /\ ~KeyIsNew(k)
  /\ Enter(r, "idle", Idle)
  /\ UNCHANGED <<rows, expired, minted, issued, files, begun, writer>>

ReadPlan(r) ==
  LET p == job[r].plan IN
  /\ pc[r] = "plan"
  /\ IF plan[p] \in {"none", "plan_only"}
       THEN Return(r)
       ELSE Goto(r, "approval") /\ UNCHANGED job
  /\ UNCHANGED <<rows, expired, minted, issued, files, begun, writer, served>>

\* validate_for_execution, for the approval the query happens to return.  Its
\* hash test never fails: no request writes a field the plan hash covers (the
\* preview puts the diff hash into the object's target in place, a change the
\* session does not track).
MUT_Usable(r, a) == a \notin expired

Usable(r, a) == approval[a].token = job[r].token /\ a \notin expired

ReadApproval(r) ==
  LET approved == {a \in Approvals : approval[a].plan = job[r].plan /\ approval[a].status = "approved"} IN
  /\ pc[r] = "approval"
  /\ \/ \E a \in approved : /\ Usable(r, a)
                            /\ job' = [job EXCEPT ![r].approval = a]
                            /\ Goto(r, "begin")
     \/ (\E a \in approved : ~Usable(r, a)) /\ Return(r)
     \/ approved = {} /\ Return(r)
  /\ UNCHANGED <<rows, expired, minted, issued, files, begun, writer, served>>

\* The flush of the new row takes the write lock.
Begin(r) ==
  /\ pc[r] = "begin" /\ writer = None /\ begun < MaxExecutions
  /\ writer' = r /\ begun' = begun + 1
  /\ job' = [job EXCEPT ![r].id = begun + 1]
  /\ Goto(r, "steps")
  /\ UNCHANGED <<rows, expired, minted, issued, files, served>>

\* The three steps run on the provider, up to the first that fails.
Steps == 3

RunSteps(r) ==
  /\ pc[r] = "steps"
  /\ \E done \in 0..Steps :
       /\ job' = [job EXCEPT ![r].done = done, ![r].status = IF done = Steps THEN "verifying" ELSE "failed"]
       /\ Goto(r, IF done = Steps THEN "verify" ELSE "commit")
  /\ UNCHANGED <<rows, expired, minted, issued, files, begun, writer, served>>

\* The result is verified if every step left its mark in it.
Verify(r) ==
  /\ pc[r] = "verify"
  /\ IF job[r].done = Steps
       THEN Goto(r, "proof") /\ UNCHANGED job
       ELSE Goto(r, "commit") /\ job' = [job EXCEPT ![r].status = "failed"]
  /\ UNCHANGED <<rows, expired, minted, issued, files, begun, writer, served>>

MUT_WrittenBy(r) == {}

\* The proof is a row of this transaction and a file, written before the commit.
WrittenBy(r) == {job[r].id}

CreateProof(r) ==
  /\ pc[r] = "proof"
  /\ files' = files \cup WrittenBy(r)
  /\ job' = [job EXCEPT ![r].status = "verified"]
  /\ Goto(r, "commit")
  /\ UNCHANGED <<rows, expired, minted, issued, begun, writer, served>>

Commit(r) ==
  LET j == job[r]
      done == j.status = "verified" IN
  /\ pc[r] = "commit"
  /\ execution' = [execution EXCEPT ![j.id] =
       [plan |-> j.plan, approval |-> j.approval, token |-> j.token, key |-> j.key, status |-> j.status]]
  /\ proofs' = IF done THEN proofs \cup {j.id} ELSE proofs
  /\ plan' = IF done THEN [plan EXCEPT ![j.plan] = "verified"] ELSE plan
  /\ writer' = None /\ Return(r)
  /\ UNCHANGED <<blocked, approval, expired, minted, issued, files, begun, served>>

-----------------------------------------------------------------------------
(* session_scope rolls back when the write lock is not obtained in time or  *)
(* a write fails.                                                           *)
RollBack(r) ==
  /\ \/ pc[r] \in {"preview", "approve", "reject", "begin"} /\ writer # None
     \/ pc[r] \in {"steps", "verify", "proof", "commit"}
  /\ writer' = IF writer = r THEN None ELSE writer
  /\ Return(r)
  /\ UNCHANGED <<rows, expired, minted, issued, files, begun, served>>

Crash ==
  /\ \E r \in Requests : pc[r] # "idle"
  /\ writer' = None
  /\ pc' = [r \in Requests |-> "idle"] /\ job' = [r \in Requests |-> Idle]
  /\ UNCHANGED <<rows, expired, minted, issued, files, begun, served>>

Expire(a) ==
  /\ approval[a].status # "none" /\ a \notin expired
  /\ expired' = expired \cup {a}
  /\ UNCHANGED <<rows, minted, issued, files, begun, writer, pc, job, served>>

Next ==
  \/ \E r \in Requests :
       \/ \E p \in Plans : CreatePlan(r, p) \/ ReadForPreview(r, p)
       \/ \E a \in Approvals, d \in {"approve", "reject"} : ReadForDecision(r, a, d)
       \/ \E p \in Plans, token \in 0..minted, k \in Keys \cup {None} : LookUpKey(r, p, token, k)
       \/ \E k \in Keys : AnswerKnownKey(r, k)
       \/ WritePreview(r) \/ Approve(r) \/ Reject(r)
       \/ ReadPlan(r) \/ ReadApproval(r) \/ Begin(r) \/ RunSteps(r) \/ Verify(r) \/ CreateProof(r) \/ Commit(r) \/ RollBack(r)
  \/ \E a \in Approvals : Expire(a)
  \/ Crash

Spec == Init /\ [][Next]_vars

-----------------------------------------------------------------------------
(* Every execution that was committed presented the token a human's         *)
(* approval of this very plan was answered with, whatever other previews,   *)
(* decisions and executions of the plan ran in between; the policy allowed  *)
(* the plan and its provider can be executed.                               *)
ExecutedAsApproved ==
  \A e \in Committed :
    /\ <<execution[e].approval, execution[e].token>> \in issued
    /\ approval[execution[e].approval].plan = execution[e].plan
    /\ Allowed(execution[e].plan) /\ plan[execution[e].plan] # "plan_only"

(* An execution is verified exactly if it has a proof row, and no proof row *)
(* is without its file, wherever a rollback or a crash falls.               *)
ProofsAreComplete ==
  /\ proofs = {e \in Committed : execution[e].status = "verified"}
  /\ proofs \subseteq files

(* A retry with the key of an execution that was committed before it came,  *)
(* failed or verified, runs nothing.                                        *)
RetryRunsNothing ==
  [][\A r \in Requests :
       execution' # execution /\ pc[r] = "commit" /\ pc'[r] = "idle" /\ job[r].key # None
         => \A e \in job[r].before : execution[e].key # job[r].key]_vars

(* A decision of a human is final.                                          *)
DecisionIsFinal ==
  [][\A a \in Approvals : approval[a].status \in {"approved", "rejected"}
       => approval'[a].status = approval[a].status]_vars

(* Requests with the same key make one execution.                           *)
SameKeyRunsOnce == \A k \in Keys : Cardinality(WithKey(k)) <= 1
=============================================================================
