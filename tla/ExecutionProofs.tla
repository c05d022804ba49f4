-------------------------- MODULE ExecutionProofs --------------------------
(***************************************************************************)
(* Proofs about TransactionExecution, for any number of requests, plans,    *)
(* approvals, keys and executions: its type invariant, that what was        *)
(* executed was approved, and that proofs are complete.                     *)
(***************************************************************************)
EXTENDS TransactionExecution, TLAPS

Executing == {"begin", "steps", "verify", "proof", "commit"}
Writing == {"steps", "verify", "proof", "commit"}

(* What a request has read names rows, once it has read them.               *)
Located(l, j) ==
  /\ l \in {"preview", "plan", "approval"} \cup Executing => j.plan \in Plans
  /\ l \in {"approve", "reject"} \cup Executing => j.approval \in Approvals
  /\ l \in Writing => j.id \in Executions
  /\ l = "commit" => j.status \in {"verified", "failed"}

LocalsOK == \A r \in Requests : Located(pc[r], job[r])
Typed == TypeOK /\ LocalsOK

LEMMA IdleIsJob == Idle \in Jobs /\ Located("idle", Idle)
  BY BoundAssumption
  DEF Idle, Jobs, Located, Tokens, Executions, PlanStatuses, Executing, Writing

(* The step of one request keeps the locals of all of them.                 *)
LEMMA Move ==
  ASSUME Typed, NEW r \in Requests, NEW l \in Labels, NEW j \in Jobs, Located(l, j),
         pc' = [pc EXCEPT ![r] = l], job' = [job EXCEPT ![r] = j]
  PROVE  pc' \in [Requests -> Labels] /\ job' \in [Requests -> Jobs] /\ LocalsOK'
  BY DEF Typed, TypeOK, LocalsOK

LEMMA InitTyped == Init => Typed
  BY BoundAssumption, IdleIsJob
  DEF Init, Typed, TypeOK, LocalsOK, NoApproval, PlanStatuses, ApprovalRows, Labels, Tokens

LEMMA NextTyped == Typed /\ [Next]_vars => Typed'
<1> SUFFICES ASSUME Typed, [Next]_vars PROVE Typed'  OBVIOUS
<1> USE DEF rows
<1>1. ASSUME NEW r \in Requests, NEW p \in Plans, CreatePlan(r, p) PROVE Typed'
  <2>1. pc' = [pc EXCEPT ![r] = "idle"] /\ job' = [job EXCEPT ![r] = Idle]
    BY <1>1 DEF CreatePlan, Enter
  <2>2. LocalsOK' /\ pc' \in [Requests -> Labels] /\ job' \in [Requests -> Jobs]
    BY <2>1, Move, IdleIsJob DEF Labels
  <2>3. QED  BY <1>1, <2>2, BoundAssumption DEF CreatePlan, Enter, Typed, TypeOK, PlanStatuses
<1>2. ASSUME NEW r \in Requests, NEW p \in Plans, ReadForPreview(r, p) PROVE Typed'
  <2> DEFINE j == [Idle EXCEPT !.plan = p, !.seen = plan[p]]
  <2>1. pc' = [pc EXCEPT ![r] = "preview"] /\ job' = [job EXCEPT ![r] = j]
    BY <1>2 DEF ReadForPreview, Enter
  <2>2. plan[p] \in PlanStatuses  BY DEF Typed, TypeOK
  <2>3. j \in Jobs /\ j.plan = p  BY <2>2, IdleIsJob DEF Jobs
  <2>4. Located("preview", j)  BY <2>3 DEF Located, Executing, Writing
  <2> HIDE DEF j
  <2>5. LocalsOK' /\ pc' \in [Requests -> Labels] /\ job' \in [Requests -> Jobs]
    BY <2>1, <2>3, <2>4, Move DEF Labels
  <2>6. QED  BY <1>2, <2>5, BoundAssumption DEF ReadForPreview, Enter, Typed, TypeOK
<1>3. ASSUME NEW r \in Requests, NEW a \in Approvals, NEW d \in {"approve", "reject"},
             ReadForDecision(r, a, d) PROVE Typed'
  <2> DEFINE j == [Idle EXCEPT !.approval = a]
  <2>1. pc' = [pc EXCEPT ![r] = d] /\ job' = [job EXCEPT ![r] = j]
    BY <1>3 DEF ReadForDecision, Enter
  <2>2. j \in Jobs /\ j.approval = a  BY IdleIsJob DEF Jobs
  <2>3. Located(d, j)  BY <2>2 DEF Located, Executing, Writing
  <2> HIDE DEF j
  <2>4. LocalsOK' /\ pc' \in [Requests -> Labels] /\ job' \in [Requests -> Jobs]
    BY <2>1, <2>2, <2>3, Move DEF Labels
  <2>5. QED  BY <1>3, <2>4, BoundAssumption DEF ReadForDecision, Enter, Typed, TypeOK
<1>4. ASSUME NEW r \in Requests, NEW p \in Plans, NEW token \in 0..minted,
             NEW k \in Keys \cup {None}, LookUpKey(r, p, token, k) PROVE Typed'
  <2> DEFINE j == [Idle EXCEPT !.plan = p, !.token = token, !.key = k, !.before = Committed]
  <2>1. pc' = [pc EXCEPT ![r] = "plan"] /\ job' = [job EXCEPT ![r] = j]
    BY <1>4 DEF LookUpKey, Enter
  <2>2. token \in Tokens /\ Committed \in SUBSET Executions
    BY BoundAssumption DEF Typed, TypeOK, Tokens, Committed
  <2>3. j \in Jobs /\ j.plan = p  BY <2>2, IdleIsJob DEF Jobs
  <2>4. Located("plan", j)  BY <2>3 DEF Located, Executing, Writing
  <2> HIDE DEF j
  <2>5. LocalsOK' /\ pc' \in [Requests -> Labels] /\ job' \in [Requests -> Jobs]
    BY <2>1, <2>3, <2>4, Move DEF Labels
  <2>6. QED  BY <1>4, <2>5, BoundAssumption DEF LookUpKey, Enter, Typed, TypeOK
<1>5. ASSUME NEW r \in Requests, NEW k \in Keys, AnswerKnownKey(r, k) PROVE Typed'
  <2>1. pc' = [pc EXCEPT ![r] = "idle"] /\ job' = [job EXCEPT ![r] = Idle]
    BY <1>5 DEF AnswerKnownKey, Enter
  <2>2. LocalsOK' /\ pc' \in [Requests -> Labels] /\ job' \in [Requests -> Jobs]
    BY <2>1, Move, IdleIsJob DEF Labels
  <2>3. QED  BY <1>5, <2>2, BoundAssumption DEF AnswerKnownKey, Enter, Typed, TypeOK
<1>6. ASSUME NEW r \in Requests, Return(r)
      PROVE  LocalsOK' /\ pc' \in [Requests -> Labels] /\ job' \in [Requests -> Jobs]
  BY <1>6, Move, IdleIsJob DEF Return, Goto, Labels
<1>7. ASSUME NEW r \in Requests, WritePreview(r) PROVE Typed'
  <2>1. plan' \in [Plans -> PlanStatuses]  BY <1>7 DEF WritePreview, Typed, TypeOK, PlanStatuses
  <2>2. approval' \in [Approvals -> ApprovalRows]
    <3>1. job[r].plan \in Plans
      BY <1>7 DEF WritePreview, Typed, TypeOK, LocalsOK, Located
    <3>2. [plan |-> job[r].plan, status |-> "pending", token |-> 0] \in ApprovalRows
      BY <3>1, BoundAssumption DEF ApprovalRows, Tokens
    <3>3. QED  BY <1>7, <3>2 DEF WritePreview, Typed, TypeOK
  <2>3. QED  BY <1>7, <1>6, <2>1, <2>2 DEF WritePreview, Typed, TypeOK
<1>8. ASSUME NEW r \in Requests, Approve(r) PROVE Typed'
  <2>1. job[r].approval \in Approvals  BY <1>8 DEF Approve, Typed, TypeOK, LocalsOK, Located
  <2>2. minted + 1 \in Tokens  BY <1>8, BoundAssumption DEF Approve, Typed, TypeOK, Tokens
  <2>3. plan' \in [Plans -> PlanStatuses]  BY <1>8 DEF Approve, Typed, TypeOK, PlanStatuses
  <2>4. approval' \in [Approvals -> ApprovalRows]
    BY <1>8, <2>1, <2>2 DEF Approve, Typed, TypeOK, ApprovalRows
  <2>5. QED  BY <1>8, <1>6, <2>1, <2>2, <2>3, <2>4 DEF Approve, Typed, TypeOK
<1>9. ASSUME NEW r \in Requests, Reject(r) PROVE Typed'
  <2>1. job[r].approval \in Approvals  BY <1>9 DEF Reject, Typed, TypeOK, LocalsOK, Located
  <2>2. plan' \in [Plans -> PlanStatuses]  BY <1>9 DEF Reject, Typed, TypeOK, PlanStatuses
  <2>3. approval' \in [Approvals -> ApprovalRows]
    BY <1>9, <2>1 DEF Reject, Typed, TypeOK, ApprovalRows
  <2>4. QED  BY <1>9, <1>6, <2>2, <2>3 DEF Reject, Typed, TypeOK
<1>10. ASSUME NEW r \in Requests, ReadPlan(r) PROVE Typed'
  <2>1. CASE Return(r)  BY <1>10, <2>1, <1>6 DEF ReadPlan, Typed, TypeOK
  <2>2. CASE Goto(r, "approval") /\ UNCHANGED job
    <3>1. job' = [job EXCEPT ![r] = job[r]] /\ job[r] \in Jobs /\ Located("approval", job[r])
      BY <1>10, <2>2 DEF ReadPlan, Typed, TypeOK, LocalsOK, Located, Executing, Writing
    <3>2. QED  BY <1>10, <2>2, <3>1, Move DEF ReadPlan, Goto, Typed, TypeOK, Labels
  <2>3. QED  BY <1>10, <2>1, <2>2 DEF ReadPlan
<1>11. ASSUME NEW r \in Requests, ReadApproval(r) PROVE Typed'
  <2>1. CASE Return(r)  BY <1>11, <2>1, <1>6 DEF ReadApproval, Typed, TypeOK
  <2>2. ASSUME NEW a \in Approvals, job' = [job EXCEPT ![r].approval = a], Goto(r, "begin")
        PROVE  Typed'
    <3> DEFINE j == [job[r] EXCEPT !.approval = a]
    <3>1. job' = [job EXCEPT ![r] = j]  BY <2>2
    <3>2. job[r] \in Jobs /\ job[r].plan \in Plans
      BY <1>11 DEF ReadApproval, Typed, TypeOK, LocalsOK, Located
    <3>3. j \in Jobs /\ j.plan = job[r].plan /\ j.approval = a  BY <3>2 DEF Jobs
    <3>4. Located("begin", j)  BY <3>2, <3>3 DEF Located, Executing, Writing
    <3> HIDE DEF j
    <3>5. LocalsOK' /\ pc' \in [Requests -> Labels] /\ job' \in [Requests -> Jobs]
      BY <2>2, <3>1, <3>3, <3>4, Move DEF Goto, Labels
    <3>6. QED  BY <1>11, <3>5 DEF ReadApproval, Typed, TypeOK
  <2>3. QED  BY <1>11, <2>1, <2>2 DEF ReadApproval
<1>12. ASSUME NEW r \in Requests, Begin(r) PROVE Typed'
  <2> DEFINE j == [job[r] EXCEPT !.id = begun + 1]
  <2>1. pc' = [pc EXCEPT ![r] = "steps"] /\ job' = [job EXCEPT ![r] = j]  BY <1>12 DEF Begin, Goto
  <2>2. job[r] \in Jobs /\ job[r].plan \in Plans /\ job[r].approval \in Approvals
    BY <1>12 DEF Begin, Typed, TypeOK, LocalsOK, Located, Executing
  <2>3. begun + 1 \in Executions /\ begun + 1 \in 0..MaxExecutions
    BY <1>12, BoundAssumption DEF Begin, Typed, TypeOK, Executions
  <2>4. j \in Jobs /\ j.plan = job[r].plan /\ j.approval = job[r].approval /\ j.id = begun + 1
    BY <2>2, <2>3 DEF Jobs
  <2>5. Located("steps", j)  BY <2>2, <2>3, <2>4 DEF Located
  <2> HIDE DEF j
  <2>6. LocalsOK' /\ pc' \in [Requests -> Labels] /\ job' \in [Requests -> Jobs]
    BY <2>1, <2>4, <2>5, Move DEF Labels
  <2>7. QED  BY <1>12, <2>3, <2>6 DEF Begin, Typed, TypeOK
<1>13. ASSUME NEW r \in Requests, NEW l \in Labels, NEW j \in Jobs, pc[r] \in Writing,
              pc' = [pc EXCEPT ![r] = l], job' = [job EXCEPT ![r] = j],
              j.plan = job[r].plan, j.approval = job[r].approval, j.id = job[r].id,
              l = "commit" => j.status \in {"verified", "failed"}
       PROVE  LocalsOK' /\ pc' \in [Requests -> Labels] /\ job' \in [Requests -> Jobs]
  <2>1. Located(l, j)
    BY <1>13 DEF Typed, LocalsOK, Located, Executing, Writing
  <2>2. QED  BY <1>13, <2>1, Move
<1>14. ASSUME NEW r \in Requests, RunSteps(r) PROVE Typed'
  <2>1. PICK done \in 0..Steps :
          /\ job' = [job EXCEPT ![r].done = done, ![r].status = IF done = Steps THEN "verifying" ELSE "failed"]
          /\ Goto(r, IF done = Steps THEN "verify" ELSE "commit")
    BY <1>14 DEF RunSteps
  <2> DEFINE l == IF done = Steps THEN "verify" ELSE "commit"
             j == [job[r] EXCEPT !.done = done, !.status = IF done = Steps THEN "verifying" ELSE "failed"]
  <2>2. pc' = [pc EXCEPT ![r] = l] /\ job' = [job EXCEPT ![r] = j] /\ pc[r] \in Writing
    BY <1>14, <2>1 DEF RunSteps, Goto, Writing, Typed, TypeOK
  <2>3. job[r] \in Jobs  BY DEF Typed, TypeOK
  <2>4. j \in Jobs /\ j.plan = job[r].plan /\ j.approval = job[r].approval /\ j.id = job[r].id
    BY <2>3 DEF Jobs, Steps
  <2>5. l \in Labels /\ (l = "commit" => j.status \in {"verified", "failed"})
    BY <2>3 DEF Labels, Jobs
  <2> HIDE DEF l, j
  <2>6. LocalsOK' /\ pc' \in [Requests -> Labels] /\ job' \in [Requests -> Jobs]
    BY <2>2, <2>4, <2>5, <1>13
  <2>7. QED  BY <1>14, <2>6 DEF RunSteps, Typed, TypeOK
<1>15. ASSUME NEW r \in Requests, NEW l \in {"proof", "commit"}, Goto(r, l), pc[r] \in Writing,
              NEW s \in {"verified", "failed"}, job' = [job EXCEPT ![r].status = s]
       PROVE  LocalsOK' /\ pc' \in [Requests -> Labels] /\ job' \in [Requests -> Jobs]
  <2> DEFINE j == [job[r] EXCEPT !.status = s]
  <2>1. job' = [job EXCEPT ![r] = j]  BY <1>15
  <2>2. job[r] \in Jobs  BY DEF Typed, TypeOK
  <2>3. /\ j \in Jobs /\ j.plan = job[r].plan /\ j.approval = job[r].approval /\ j.id = job[r].id
        /\ j.status = s
    BY <2>2 DEF Jobs
  <2> HIDE DEF j
  <2>4. QED  BY <1>13, <1>15, <2>1, <2>3 DEF Goto, Labels
<1>16. ASSUME NEW r \in Requests, Verify(r) PROVE Typed'
  <2>1. pc[r] \in Writing  BY <1>16 DEF Verify, Writing
  <2>2. CASE Goto(r, "proof") /\ UNCHANGED job
    <3>1. job' = [job EXCEPT ![r] = job[r]] /\ job[r] \in Jobs  BY <2>2 DEF Typed, TypeOK
    <3>2. LocalsOK' /\ pc' \in [Requests -> Labels] /\ job' \in [Requests -> Jobs]
      BY <2>1, <2>2, <3>1, <1>13 DEF Goto, Labels
    <3>3. QED  BY <1>16, <3>2 DEF Verify, Typed, TypeOK
  <2>3. CASE Goto(r, "commit") /\ job' = [job EXCEPT ![r].status = "failed"]
    BY <1>15, <1>16, <2>1, <2>3 DEF Verify, Typed, TypeOK
  <2>4. QED  BY <1>16, <2>2, <2>3 DEF Verify
<1>17. ASSUME NEW r \in Requests, CreateProof(r) PROVE Typed'
  <2>1. pc[r] \in Writing /\ job[r].id \in Executions
    BY <1>17 DEF CreateProof, Writing, Typed, LocalsOK, Located
  <2>2. LocalsOK' /\ pc' \in [Requests -> Labels] /\ job' \in [Requests -> Jobs]
    BY <1>15, <1>17, <2>1 DEF CreateProof
  <2>3. QED  BY <1>17, <2>1, <2>2 DEF CreateProof, WrittenBy, Typed, TypeOK
<1>18. ASSUME NEW r \in Requests, Commit(r) PROVE Typed'
  <2> DEFINE j == job[r]
  <2>1. /\ j \in Jobs /\ j.plan \in Plans /\ j.approval \in Approvals /\ j.id \in Executions
        /\ j.status \in {"verified", "failed"}
    BY <1>18 DEF Commit, Typed, TypeOK, LocalsOK, Located, Executing, Writing
  <2>2. [plan |-> j.plan, approval |-> j.approval, token |-> j.token, key |-> j.key,
         status |-> j.status] \in ExecutionRows
    BY <2>1 DEF ExecutionRows, Jobs
  <2>3. execution' \in [Executions -> ExecutionRows \cup {None}]
    BY <1>18, <2>2 DEF Commit, Typed, TypeOK
  <2>4. plan' \in [Plans -> PlanStatuses]  BY <1>18 DEF Commit, Typed, TypeOK, PlanStatuses
  <2>5. proofs' \subseteq Executions  BY <1>18, <2>1 DEF Commit, Typed, TypeOK
  <2>6. QED  BY <1>18, <1>6, <2>3, <2>4, <2>5 DEF Commit, Typed, TypeOK
<1>19. ASSUME NEW r \in Requests, RollBack(r) PROVE Typed'
  BY <1>19, <1>6 DEF RollBack, Typed, TypeOK
<1>20. CASE Crash
  BY <1>20, IdleIsJob DEF Crash, Typed, TypeOK, LocalsOK, Labels
<1>21. ASSUME NEW a \in Approvals, Expire(a) PROVE Typed'
  BY <1>21 DEF Expire, Typed, TypeOK, LocalsOK
<1>22. CASE UNCHANGED vars
  BY <1>22 DEF vars, Typed, TypeOK, LocalsOK
<1>23. QED
  BY <1>1, <1>2, <1>3, <1>4, <1>5, <1>7, <1>8, <1>9, <1>10, <1>11, <1>12, <1>14, <1>16, <1>17,
     <1>18, <1>19, <1>20, <1>21, <1>22 DEF Next

(* The rows of plans, approvals and executions, the answers given and the   *)
(* locals of all requests keep their types, with rollbacks and crashes.     *)
THEOREM TypeCorrect == Spec => []TypeOK
<1>1. Typed => TypeOK  BY DEF Typed
<1>2. QED  BY <1>1, InitTyped, NextTyped, PTL DEF Spec

-----------------------------------------------------------------------------
(* ExecutedAsApproved.  The invariant follows the approval from the preview *)
(* that creates its row to the execution that presents its token: no write  *)
(* in between, by whatever request, makes the row or its plan unfit.        *)

Shown(p) == p \in Plans /\ Allowed(p) /\ plan[p] # "none"
Executable(p) == Shown(p) /\ plan[p] # "plan_only"
Backed(a, t, p) == <<a, t>> \in issued /\ approval[a].plan = p

ApprovalsOK ==
  \A a \in Approvals : approval[a].status # "none" =>
    /\ Executable(approval[a].plan)
    /\ approval[a].status = "approved" => <<a, approval[a].token>> \in issued

IssuedOK == \A a \in Approvals, t \in Tokens : <<a, t>> \in issued => approval[a].status # "none"

RequestOK(l, j) ==
  /\ l = "preview" => Shown(j.plan) /\ (j.seen # "plan_only" => Executable(j.plan))
  /\ l \in {"approve", "reject"} => approval[j.approval].status # "none"
  /\ l \in Executing => Backed(j.approval, j.token, j.plan)

RequestsOK == \A r \in Requests : RequestOK(pc[r], job[r])

ExecutionsOK ==
  \A e \in Executions : execution[e] # None =>
    Backed(execution[e].approval, execution[e].token, execution[e].plan)

Trail == ApprovalsOK /\ IssuedOK /\ RequestsOK /\ ExecutionsOK

LEMMA InitTrail == Init => Trail
  BY DEF Init, Trail, ApprovalsOK, IssuedOK, RequestsOK, RequestOK, ExecutionsOK, NoApproval, Executing

LEMMA TrailIsApproved == Typed /\ Trail => ExecutedAsApproved
<1> SUFFICES ASSUME Typed, Trail, NEW e \in Committed
             PROVE  /\ <<execution[e].approval, execution[e].token>> \in issued
                    /\ approval[execution[e].approval].plan = execution[e].plan
                    /\ Allowed(execution[e].plan) /\ plan[execution[e].plan] # "plan_only"
  BY DEF ExecutedAsApproved
<1>1. e \in Executions /\ execution[e] # None /\ execution[e] \in ExecutionRows
  BY DEF Committed, Typed, TypeOK
<1>2. Backed(execution[e].approval, execution[e].token, execution[e].plan)
  BY <1>1 DEF Trail, ExecutionsOK
<1>3. execution[e].approval \in Approvals /\ execution[e].token \in Tokens
  BY <1>1 DEF ExecutionRows
<1>4. approval[execution[e].approval].status # "none"
  BY <1>2, <1>3 DEF Backed, Trail, IssuedOK
<1>5. Executable(execution[e].plan)
  BY <1>2, <1>3, <1>4 DEF Backed, Trail, ApprovalsOK
<1>6. QED  BY <1>2, <1>5 DEF Backed, Executable, Shown

(* What every step keeps of the rows that requests have read.               *)
Kept ==
  /\ issued \subseteq issued'
  /\ \A a \in Approvals : approval[a].status # "none" =>
       approval'[a].status # "none" /\ approval'[a].plan = approval[a].plan
  /\ \A p \in Plans : /\ Shown(p) => Shown(p)'
                      /\ Executable(p) => Executable(p)'

LEMMA NextKeeps == Typed /\ Trail /\ [Next]_vars => Kept
<1> SUFFICES ASSUME Typed, Trail, [Next]_vars PROVE Kept  OBVIOUS
<1> USE DEF rows
<1>1. ASSUME UNCHANGED <<plan, blocked, approval, issued>> PROVE Kept
  BY <1>1 DEF Kept, Shown, Executable, Allowed
<1>2. ASSUME NEW r \in Requests, NEW p \in Plans, CreatePlan(r, p) PROVE Kept
  BY <1>2 DEF CreatePlan, Kept, Shown, Executable, Allowed, Typed, TypeOK
<1>3. ASSUME NEW r \in Requests, WritePreview(r) PROVE Kept
  <2>1. \A a \in Approvals : approval[a].status # "none" => approval'[a] = approval[a]
    BY <1>3 DEF WritePreview, Typed, TypeOK
  <2>2. QED  BY <1>3, <2>1 DEF WritePreview, Kept, Shown, Executable, Allowed, Typed, TypeOK
<1>4. ASSUME NEW r \in Requests, Approve(r) PROVE Kept
  <2>1. job[r].approval \in Approvals
    BY <1>4 DEF Approve, Typed, LocalsOK, Located
  <2>2. \A a \in Approvals : approval[a].status # "none" =>
          approval'[a].status # "none" /\ approval'[a].plan = approval[a].plan
    BY <1>4, <2>1 DEF Approve, Typed, TypeOK, ApprovalRows
  <2>3. \A p \in Plans : plan'[p] \in {plan[p], "approved"}
    BY <1>4 DEF Approve, Typed, TypeOK
  <2>4. QED  BY <1>4, <2>2, <2>3 DEF Approve, Kept, Shown, Executable, Allowed
<1>5. ASSUME NEW r \in Requests, Reject(r) PROVE Kept
  <2>1. job[r].approval \in Approvals
    BY <1>5 DEF Reject, Typed, LocalsOK, Located
  <2>2. \A a \in Approvals : approval[a].status # "none" =>
          approval'[a].status # "none" /\ approval'[a].plan = approval[a].plan
    BY <1>5, <2>1 DEF Reject, Typed, TypeOK, ApprovalRows
  <2>3. \A p \in Plans : plan'[p] \in {plan[p], "rejected"}
    BY <1>5 DEF Reject, Typed, TypeOK
  <2>4. QED  BY <1>5, <2>2, <2>3 DEF Reject, Kept, Shown, Executable, Allowed
<1>6. ASSUME NEW r \in Requests, Commit(r) PROVE Kept
  <2>1. \A p \in Plans : plan'[p] \in {plan[p], "verified"}
    BY <1>6 DEF Commit, Typed, TypeOK
  <2>2. QED  BY <1>6, <2>1 DEF Commit, Kept, Shown, Executable, Allowed
<1>7. QED
  BY <1>1, <1>2, <1>3, <1>4, <1>5, <1>6
  DEF Next, ReadForPreview, ReadForDecision, LookUpKey, AnswerKnownKey, ReadPlan, ReadApproval,
      Begin, RunSteps, Verify, CreateProof, RollBack, Expire, Crash, vars

(* A step that keeps the rows keeps what the other requests rely on.        *)
LEMMA KeptRequest ==
  ASSUME Kept, NEW l \in Labels, NEW j \in Jobs, Located(l, j), RequestOK(l, j),
         IssuedOK
  PROVE  RequestOK(l, j)'
<1>1. l = "preview" => j.plan \in Plans  BY DEF Located
<1>2. l \in {"approve", "reject"} \cup Executing => j.approval \in Approvals  BY DEF Located
<1>3. j.token \in Tokens  BY DEF Jobs
<1>4. l \in Executing => approval[j.approval].status # "none"
  BY <1>2, <1>3 DEF RequestOK, Backed, IssuedOK
<1>5. QED  BY <1>1, <1>2, <1>4 DEF RequestOK, Kept, Backed

LEMMA MoveTrail ==
  ASSUME Typed, Trail, Kept, NEW r \in Requests, NEW l \in Labels, NEW j \in Jobs,
         pc' = [pc EXCEPT ![r] = l], job' = [job EXCEPT ![r] = j], RequestOK(l, j)'
  PROVE  RequestsOK'
<1> SUFFICES ASSUME NEW q \in Requests PROVE RequestOK(pc[q], job[q])'
  BY DEF RequestsOK
<1>1. CASE q = r
  <2>1. pc'[q] = l /\ job'[q] = j  BY <1>1 DEF Typed, TypeOK
  <2>2. QED  BY <2>1
<1>2. CASE q # r
  <2>1. PICK k \in Labels, i \in Jobs : k = pc[q] /\ i = job[q]  BY DEF Typed, TypeOK
  <2>2. pc'[q] = k /\ job'[q] = i  BY <1>2, <2>1 DEF Typed, TypeOK
  <2>3. Located(k, i) /\ RequestOK(k, i)  BY <2>1 DEF Typed, LocalsOK, Trail, RequestsOK
  <2>4. RequestOK(k, i)'  BY <2>3, KeptRequest DEF Trail
  <2>5. QED  BY <2>2, <2>4
<1>3. QED  BY <1>1, <1>2

LEMMA ReturnTrail ==
  ASSUME Typed, Trail, Kept, NEW r \in Requests,
         pc' = [pc EXCEPT ![r] = "idle"], job' = [job EXCEPT ![r] = Idle]
  PROVE  RequestsOK'
<1>1. RequestOK("idle", Idle)'  BY DEF RequestOK, Executing
<1>2. QED  BY <1>1, IdleIsJob, MoveTrail DEF Labels

(* The rows of the executions are backed by rows that are kept.             *)
LEMMA KeptExecutions ==
  ASSUME Typed, Trail, Kept, UNCHANGED execution PROVE ExecutionsOK'
<1> SUFFICES ASSUME NEW e \in Executions, execution[e] # None
             PROVE  /\ <<execution[e].approval, execution[e].token>> \in issued'
                    /\ approval'[execution[e].approval].plan = execution[e].plan
  BY DEF ExecutionsOK, Backed
<1>1. execution[e].approval \in Approvals /\ execution[e].token \in Tokens
  BY DEF Typed, TypeOK, ExecutionRows
<1>2. Backed(execution[e].approval, execution[e].token, execution[e].plan)
  BY DEF Trail, ExecutionsOK
<1>3. QED  BY <1>1, <1>2 DEF Trail, IssuedOK, Backed, Kept

LEMMA KeptApprovals ==
  ASSUME Typed, Trail, Kept, UNCHANGED <<approval, issued>> PROVE ApprovalsOK' /\ IssuedOK'
<1>1. IssuedOK'  BY DEF Trail, IssuedOK
<1>2. ASSUME NEW a \in Approvals, approval[a].status # "none"
      PROVE  Executable(approval[a].plan)'
  <2>1. PICK p \in Plans : p = approval[a].plan /\ Executable(p)
    BY <1>2 DEF Trail, ApprovalsOK, Executable, Shown
  <2>2. Executable(p)'  BY <2>1 DEF Kept
  <2>3. QED  BY <2>1, <2>2
<1>3. QED  BY <1>1, <1>2 DEF Trail, ApprovalsOK

LEMMA NextTrail == Typed /\ Trail /\ [Next]_vars => Trail'
<1> SUFFICES ASSUME Typed, Trail, [Next]_vars PROVE Trail'  OBVIOUS
<1>0. Kept /\ Typed'  BY NextKeeps, NextTyped
<1> USE DEF rows
<1>1. ASSUME UNCHANGED <<approval, issued, execution>>, RequestsOK' PROVE Trail'
  BY <1>0, <1>1, KeptApprovals, KeptExecutions DEF Trail
<1>2. ASSUME NEW r \in Requests, NEW p \in Plans, CreatePlan(r, p) PROVE Trail'
  BY <1>0, <1>1, <1>2, ReturnTrail DEF CreatePlan, Enter
<1>3. ASSUME NEW r \in Requests, NEW p \in Plans, ReadForPreview(r, p) PROVE Trail'
  <2>1. plan[p] \in PlanStatuses  BY DEF Typed, TypeOK
  <2>2. PICK s \in PlanStatuses : s = plan[p]  BY <2>1
  <2> DEFINE j == [Idle EXCEPT !.plan = p, !.seen = s]
  <2>3. j \in Jobs /\ j.plan = p /\ j.seen = s  BY IdleIsJob DEF Jobs
  <2>4. Shown(p) /\ (s # "plan_only" => Executable(p))
    BY <1>3, <2>2 DEF ReadForPreview, Shown, Executable
  <2>5. Shown(p)' /\ (s # "plan_only" => Executable(p)')  BY <1>0, <2>4 DEF Kept
  <2>6. pc' = [pc EXCEPT ![r] = "preview"] /\ job' = [job EXCEPT ![r] = j]
    BY <1>3, <2>2 DEF ReadForPreview, Enter
  <2> HIDE DEF j
  <2>7. RequestOK("preview", j)'  BY <2>3, <2>5 DEF RequestOK, Executing
  <2>8. RequestsOK'  BY <1>0, <2>3, <2>6, <2>7, MoveTrail DEF Labels
  <2>9. QED  BY <1>1, <1>3, <2>8 DEF ReadForPreview
<1>4. ASSUME NEW r \in Requests, NEW a \in Approvals, NEW d \in {"approve", "reject"},
             ReadForDecision(r, a, d) PROVE Trail'
  <2> DEFINE j == [Idle EXCEPT !.approval = a]
  <2>1. j \in Jobs /\ j.approval = a  BY IdleIsJob DEF Jobs
  <2>2. pc' = [pc EXCEPT ![r] = d] /\ job' = [job EXCEPT ![r] = j]
    BY <1>4 DEF ReadForDecision, Enter
  <2> HIDE DEF j
  <2>3. approval'[a].status # "none"  BY <1>4 DEF ReadForDecision
  <2>4. RequestOK(d, j)'  BY <2>1, <2>3 DEF RequestOK, Executing
  <2>5. RequestsOK'  BY <1>0, <2>1, <2>2, <2>4, MoveTrail DEF Labels
  <2>6. QED  BY <1>1, <1>4, <2>5 DEF ReadForDecision
<1>5. ASSUME NEW r \in Requests, NEW p \in Plans, NEW token \in 0..minted,
             NEW k \in Keys \cup {None}, LookUpKey(r, p, token, k) PROVE Trail'
  <2>1. PICK b \in SUBSET Executions : b = Committed  BY DEF Committed
  <2> DEFINE j == [Idle EXCEPT !.plan = p, !.token = token, !.key = k, !.before = b]
  <2>2. token \in Tokens  BY BoundAssumption DEF Typed, TypeOK, Tokens
  <2>3. j \in Jobs  BY <2>2, IdleIsJob DEF Jobs
  <2>4. pc' = [pc EXCEPT ![r] = "plan"] /\ job' = [job EXCEPT ![r] = j]
    BY <1>5, <2>1 DEF LookUpKey, Enter
  <2> HIDE DEF j
  <2>5. RequestOK("plan", j)'  BY DEF RequestOK, Executing
  <2>6. RequestsOK'  BY <1>0, <2>3, <2>4, <2>5, MoveTrail DEF Labels
  <2>7. QED  BY <1>1, <1>5, <2>6 DEF LookUpKey
<1>6. ASSUME NEW r \in Requests, NEW k \in Keys, AnswerKnownKey(r, k) PROVE Trail'
  BY <1>0, <1>1, <1>6, ReturnTrail DEF AnswerKnownKey, Enter
<1>7. ASSUME NEW r \in Requests, WritePreview(r) PROVE Trail'
  <2>1. PICK j \in Jobs : j = job[r]  BY DEF Typed, TypeOK
  <2>2. RequestsOK'  BY <1>0, <1>7, ReturnTrail DEF WritePreview, Return, Goto
  <2>3. ExecutionsOK'  BY <1>0, <1>7, KeptExecutions DEF WritePreview
  <2>4. CASE j.seen = "plan_only"  BY <1>1, <1>7, <2>1, <2>2, <2>4 DEF WritePreview
  <2>5. CASE j.seen # "plan_only"
    <3>1. PICK a \in Approvals :
            /\ approval[a].status = "none"
            /\ approval' = [approval EXCEPT ![a] = [plan |-> j.plan, status |-> "pending", token |-> 0]]
      BY <1>7, <2>1, <2>5 DEF WritePreview
    <3>2. Executable(j.plan)
      BY <1>7, <2>1, <2>5 DEF WritePreview, Trail, RequestsOK, RequestOK
    <3>3. j.plan \in Plans /\ Executable(j.plan)'  BY <1>0, <3>2 DEF Executable, Shown, Kept
    <3>4. approval'[a].status = "pending" /\ approval'[a].plan = j.plan
      BY <3>1 DEF Typed, TypeOK
    <3>5. \A b \in Approvals : b # a => approval'[b] = approval[b]
      BY <3>1 DEF Typed, TypeOK
    <3>6. UNCHANGED issued  BY <1>7 DEF WritePreview
    <3>7. IssuedOK'  BY <3>4, <3>5, <3>6 DEF Trail, IssuedOK
    <3>8. ASSUME NEW b \in Approvals, approval'[b].status # "none", b # a
          PROVE  Executable(approval[b].plan)'
      <4>1. PICK p \in Plans : p = approval[b].plan /\ Executable(p)
        BY <3>5, <3>8 DEF Trail, ApprovalsOK, Executable, Shown
      <4>2. Executable(p)'  BY <1>0, <4>1 DEF Kept
      <4>3. QED  BY <3>5, <3>8, <4>1, <4>2
    <3>9. Executable(approval[a].plan)'  BY <3>3, <3>4
    <3>10. ApprovalsOK'
      BY <3>4, <3>5, <3>6, <3>8, <3>9 DEF Trail, ApprovalsOK
    <3>11. QED  BY <2>2, <2>3, <3>7, <3>10 DEF Trail
  <2>6. QED  BY <2>4, <2>5
<1>8. ASSUME NEW r \in Requests, NEW a \in Approvals, a = job[r].approval, Return(r),
             pc[r] \in {"approve", "reject"}, UNCHANGED execution,
             \A b \in Approvals : b # a => approval'[b] = approval[b],
             approval'[a].plan = approval[a].plan, approval'[a].status # "none",
             \/ UNCHANGED issued /\ approval'[a].status # "approved"
             \/ issued' = issued \cup {<<a, approval'[a].token>>}
       PROVE  Trail'
  <2>1. RequestsOK'  BY <1>0, <1>8, ReturnTrail DEF Return, Goto
  <2>2. ExecutionsOK'  BY <1>0, <1>8, KeptExecutions
  <2>3. approval[a].status # "none"  BY <1>8 DEF Trail, RequestsOK, RequestOK
  <2>4. ASSUME NEW b \in Approvals, approval'[b].status # "none"
        PROVE  Executable(approval[b].plan)'
    <3>1. approval'[b].plan = approval[b].plan /\ approval[b].status # "none"
      BY <1>8, <2>3, <2>4
    <3>2. PICK p \in Plans : p = approval[b].plan /\ Executable(p)
      BY <3>1 DEF Trail, ApprovalsOK, Executable, Shown
    <3>3. Executable(p)'  BY <1>0, <3>2 DEF Kept
    <3>4. QED  BY <3>1, <3>2, <3>3
  <2>5. ApprovalsOK'  BY <1>8, <2>4 DEF Trail, ApprovalsOK
  <2>6. IssuedOK'  BY <1>8 DEF Trail, IssuedOK
  <2>7. QED  BY <2>1, <2>2, <2>5, <2>6 DEF Trail
<1>9. ASSUME NEW r \in Requests, Approve(r) PROVE Trail'
  <2>1. PICK a \in Approvals : a = job[r].approval
    BY <1>9 DEF Approve, Typed, LocalsOK, Located
  <2>2. /\ approval'[a].plan = approval[a].plan /\ approval'[a].status = "approved"
        /\ approval'[a].token = minted + 1
        /\ \A b \in Approvals : b # a => approval'[b] = approval[b]
    BY <1>9, <2>1 DEF Approve, Typed, TypeOK, ApprovalRows
  <2>3. QED  BY <1>8, <1>9, <2>1, <2>2 DEF Approve
<1>10. ASSUME NEW r \in Requests, Reject(r) PROVE Trail'
  <2>1. PICK a \in Approvals : a = job[r].approval
    BY <1>10 DEF Reject, Typed, LocalsOK, Located
  <2>2. /\ approval'[a].plan = approval[a].plan /\ approval'[a].status = "rejected"
        /\ \A b \in Approvals : b # a => approval'[b] = approval[b]
    BY <1>10, <2>1 DEF Reject, Typed, TypeOK, ApprovalRows
  <2>3. QED  BY <1>8, <1>10, <2>1, <2>2 DEF Reject
<1>11. ASSUME NEW r \in Requests, ReadPlan(r) PROVE Trail'
  <2>1. CASE Return(r)  BY <1>0, <1>1, <1>11, <2>1, ReturnTrail DEF ReadPlan, Return, Goto
  <2>2. CASE Goto(r, "approval") /\ UNCHANGED job
    <3>1. PICK j \in Jobs : j = job[r]  BY DEF Typed, TypeOK
    <3>2. RequestOK("approval", j)'  BY DEF RequestOK, Executing
    <3>3. job' = [job EXCEPT ![r] = j] /\ pc' = [pc EXCEPT ![r] = "approval"]
      BY <2>2, <3>1 DEF Goto, Typed, TypeOK
    <3>4. RequestsOK'  BY <1>0, <3>2, <3>3, MoveTrail DEF Labels
    <3>5. QED  BY <1>1, <1>11, <3>4 DEF ReadPlan
  <2>3. QED  BY <1>11, <2>1, <2>2 DEF ReadPlan
<1>12. ASSUME NEW r \in Requests, ReadApproval(r) PROVE Trail'
  <2>1. CASE Return(r)  BY <1>0, <1>1, <1>12, <2>1, ReturnTrail DEF ReadApproval, Return, Goto
  <2>2. ASSUME NEW a \in Approvals, approval[a].plan = job[r].plan, approval[a].status = "approved",
               Usable(r, a), job' = [job EXCEPT ![r].approval = a], Goto(r, "begin")
        PROVE  Trail'
    <3>1. PICK i \in Jobs : i = job[r]  BY DEF Typed, TypeOK
    <3> DEFINE j == [i EXCEPT !.approval = a]
    <3>2. j \in Jobs /\ j.approval = a /\ j.plan = i.plan /\ j.token = i.token
      BY DEF Jobs
    <3>3. pc' = [pc EXCEPT ![r] = "begin"] /\ job' = [job EXCEPT ![r] = j]
      BY <2>2, <3>1 DEF Goto
    <3> HIDE DEF j
    <3>4. <<a, i.token>> \in issued /\ approval[a].plan = i.plan
      BY <2>2, <3>1 DEF Usable, Trail, ApprovalsOK
    <3>5. UNCHANGED <<approval, issued, execution>>  BY <1>12 DEF ReadApproval
    <3>6. RequestOK("begin", j)'  BY <3>2, <3>4, <3>5 DEF RequestOK, Backed
    <3>7. RequestsOK'  BY <1>0, <3>2, <3>3, <3>6, MoveTrail DEF Labels
    <3>8. QED  BY <1>1, <3>5, <3>7
  <2>3. QED  BY <1>12, <2>1, <2>2 DEF ReadApproval
<1>13. ASSUME NEW r \in Requests, NEW l \in Executing, NEW j \in Jobs, pc[r] \in Executing,
              pc' = [pc EXCEPT ![r] = l], job' = [job EXCEPT ![r] = j],
              j.plan = job[r].plan, j.approval = job[r].approval, j.token = job[r].token,
              UNCHANGED <<approval, issued, execution>>
       PROVE  Trail'
  <2>1. Backed(j.approval, j.token, j.plan)
    BY <1>13 DEF Trail, RequestsOK, RequestOK
  <2>2. RequestOK(l, j)'  BY <1>13, <2>1 DEF RequestOK, Backed, Executing
  <2>3. RequestsOK'  BY <1>0, <1>13, <2>2, MoveTrail DEF Labels, Executing
  <2>4. QED  BY <1>1, <1>13, <2>3
<1>14. ASSUME NEW r \in Requests, Begin(r) PROVE Trail'
  <2>1. PICK i \in Jobs, n \in 0..MaxExecutions : i = job[r] /\ n = begun + 1
    BY <1>14, BoundAssumption DEF Begin, Typed, TypeOK
  <2> DEFINE j == [i EXCEPT !.id = n]
  <2>2. j \in Jobs /\ j.plan = i.plan /\ j.approval = i.approval /\ j.token = i.token
    BY DEF Jobs
  <2>3. pc' = [pc EXCEPT ![r] = "steps"] /\ job' = [job EXCEPT ![r] = j]
    BY <1>14, <2>1 DEF Begin, Goto
  <2> HIDE DEF j
  <2>4. UNCHANGED <<approval, issued, execution>> /\ pc[r] \in Executing
    BY <1>14 DEF Begin, Executing
  <2>5. QED  BY <1>13, <2>1, <2>2, <2>3, <2>4 DEF Executing
<1>15. ASSUME NEW r \in Requests, RunSteps(r) PROVE Trail'
  <2>1. PICK i \in Jobs, done \in 0..Steps :
          /\ i = job[r]
          /\ job' = [job EXCEPT ![r].done = done, ![r].status = IF done = Steps THEN "verifying" ELSE "failed"]
          /\ Goto(r, IF done = Steps THEN "verify" ELSE "commit")
    BY <1>15 DEF RunSteps, Typed, TypeOK
  <2> DEFINE l == IF done = Steps THEN "verify" ELSE "commit"
             j == [i EXCEPT !.done = done, !.status = IF done = Steps THEN "verifying" ELSE "failed"]
  <2>2. j \in Jobs /\ j.plan = i.plan /\ j.approval = i.approval /\ j.token = i.token
    BY DEF Jobs, Steps
  <2>3. pc' = [pc EXCEPT ![r] = l] /\ job' = [job EXCEPT ![r] = j] /\ l \in Executing
    BY <2>1 DEF Goto, Executing
  <2> HIDE DEF l, j
  <2>4. UNCHANGED <<approval, issued, execution>> /\ pc[r] \in Executing
    BY <1>15 DEF RunSteps, Executing
  <2>5. QED  BY <1>13, <2>1, <2>2, <2>3, <2>4
<1>16. ASSUME NEW r \in Requests, NEW l \in {"proof", "commit"}, Goto(r, l), pc[r] \in Executing,
              NEW s \in {"verified", "failed"},
              job' = [job EXCEPT ![r].status = s] \/ UNCHANGED job,
              UNCHANGED <<approval, issued, execution>>
       PROVE  Trail'
  <2>1. PICK i \in Jobs : i = job[r]  BY DEF Typed, TypeOK
  <2> DEFINE j == [i EXCEPT !.status = s]
  <2>2. j \in Jobs /\ j.plan = i.plan /\ j.approval = i.approval /\ j.token = i.token
    BY DEF Jobs
  <2>3. job' = [job EXCEPT ![r] = j] \/ job' = [job EXCEPT ![r] = i]
    BY <1>16, <2>1 DEF Typed, TypeOK
  <2> HIDE DEF j
  <2>4. l \in Executing /\ pc' = [pc EXCEPT ![r] = l]  BY <1>16 DEF Executing, Goto
  <2>5. QED  BY <1>13, <1>16, <2>1, <2>2, <2>3, <2>4
<1>17. ASSUME NEW r \in Requests, Verify(r) PROVE Trail'
  BY <1>16, <1>17 DEF Verify, Executing
<1>18. ASSUME NEW r \in Requests, CreateProof(r) PROVE Trail'
  BY <1>16, <1>18 DEF CreateProof, Executing
<1>19. ASSUME NEW r \in Requests, Commit(r) PROVE Trail'
  <2>1. PICK j \in Jobs : j = job[r]  BY DEF Typed, TypeOK
  <2>2. j.id \in Executions /\ Backed(j.approval, j.token, j.plan)
    BY <1>19, <2>1 DEF Commit, Typed, LocalsOK, Located, Writing, Trail, RequestsOK, RequestOK, Executing
  <2>3. UNCHANGED <<approval, issued>>  BY <1>19 DEF Commit
  <2>4. execution' = [execution EXCEPT ![j.id] =
          [plan |-> j.plan, approval |-> j.approval, token |-> j.token, key |-> j.key, status |-> j.status]]
    BY <1>19, <2>1 DEF Commit
  <2>5. ExecutionsOK'
    <3> SUFFICES ASSUME NEW e \in Executions, execution'[e] # None
                 PROVE  /\ <<execution'[e].approval, execution'[e].token>> \in issued
                        /\ approval[execution'[e].approval].plan = execution'[e].plan
      BY <2>3 DEF ExecutionsOK, Backed
    <3>1. CASE e = j.id
      <4> DEFINE row == [plan |-> j.plan, approval |-> j.approval, token |-> j.token,
                         key |-> j.key, status |-> j.status]
      <4>0. execution' = [execution EXCEPT ![j.id] = row]  BY <2>4
      <4>1. row.approval = j.approval /\ row.token = j.token /\ row.plan = j.plan  OBVIOUS
      <4> HIDE DEF row
      <4>3. execution'[e] = row  BY <2>2, <3>1, <4>0 DEF Typed, TypeOK
      <4>4. QED  BY <2>2, <4>1, <4>3 DEF Backed
    <3>2. CASE e # j.id
      <4>1. execution'[e] = execution[e]  BY <2>4, <3>2 DEF Typed, TypeOK
      <4>2. QED  BY <4>1 DEF Trail, ExecutionsOK, Backed
    <3>3. QED  BY <3>1, <3>2
  <2>6. RequestsOK'  BY <1>0, <1>19, ReturnTrail DEF Commit, Return, Goto
  <2>7. QED  BY <1>0, <2>3, <2>5, <2>6, KeptApprovals DEF Trail
<1>20. ASSUME NEW r \in Requests, RollBack(r) PROVE Trail'
  BY <1>0, <1>1, <1>20, ReturnTrail DEF RollBack, Return, Goto
<1>21. CASE Crash
  <2>1. \A r \in Requests : pc'[r] = "idle"  BY <1>21 DEF Crash
  <2>2. RequestsOK'  BY <2>1 DEF RequestsOK, RequestOK, Executing
  <2>3. QED  BY <1>1, <1>21, <2>2 DEF Crash
<1>22. ASSUME UNCHANGED <<plan, blocked, approval, issued, execution, pc, job>> PROVE Trail'
  BY <1>22 DEF Trail, ApprovalsOK, IssuedOK, RequestsOK, RequestOK, ExecutionsOK, Backed,
               Executable, Shown, Allowed
<1>23. ASSUME NEW a \in Approvals, Expire(a) PROVE Trail'
  BY <1>22, <1>23 DEF Expire
<1>24. CASE UNCHANGED vars  BY <1>22, <1>24 DEF vars
<1>25. QED
  BY <1>2, <1>3, <1>4, <1>5, <1>6, <1>7, <1>9, <1>10, <1>11, <1>12, <1>14, <1>15, <1>17, <1>18,
     <1>19, <1>20, <1>21, <1>23, <1>24 DEF Next

(* Whatever previews, decisions and executions of a plan overlap, what was  *)
(* executed presented the token a human's approval of that plan was         *)
(* answered with, and the policy allowed the plan.                          *)
THEOREM Approved == Spec => []ExecutedAsApproved
<1>1. Init => Typed /\ Trail  BY InitTyped, InitTrail
<1>2. Typed /\ Trail /\ [Next]_vars => (Typed /\ Trail)'  BY NextTyped, NextTrail
<1>3. QED  BY <1>1, <1>2, TrailIsApproved, PTL DEF Spec

-----------------------------------------------------------------------------
(* ProofsAreComplete.  Only the owner of the write lock has an execution    *)
(* under way, whose identifier is the last one and has no row yet; once the *)
(* execution counts as verified its file is there.                          *)

OneWriter ==
  \A r \in Requests : pc[r] \in Writing =>
    writer = r /\ job[r].id = begun /\ execution[begun] = None

FilesFirst ==
  \A r \in Requests : pc[r] = "commit" /\ job[r].status = "verified" => job[r].id \in files

NoneBeyond == \A e \in Executions : begun < e => execution[e] = None

Ledger == OneWriter /\ FilesFirst /\ NoneBeyond /\ ProofsAreComplete

LEMMA InitLedger == Init => Ledger
  BY DEF Init, Ledger, OneWriter, FilesFirst, NoneBeyond, ProofsAreComplete, Committed, Writing

LEMMA NextLedger == Typed /\ Ledger /\ [Next]_vars => Ledger'
<1> SUFFICES ASSUME Typed, Ledger, [Next]_vars PROVE Ledger'  OBVIOUS
<1> USE DEF rows
<1>0. Typed'  BY NextTyped
<1>1. ASSUME UNCHANGED <<execution, proofs, begun, files>>, OneWriter', FilesFirst' PROVE Ledger'
  BY <1>1 DEF Ledger, NoneBeyond, ProofsAreComplete, Committed
<1>2. ASSUME NEW r \in Requests, NEW l \in Labels \ Writing, NEW j \in Jobs,
             UNCHANGED <<execution, proofs, begun, files>>,
             pc' = [pc EXCEPT ![r] = l], job' = [job EXCEPT ![r] = j],
             writer' = writer \/ (writer = r /\ writer' = None)
      PROVE  Ledger'
  <2>1. \A q \in Requests : pc'[q] \in Writing => q # r /\ pc[q] = pc'[q] /\ job[q] = job'[q]
    BY <1>2 DEF Typed, TypeOK
  <2>2. OneWriter'
    BY <1>2, <2>1 DEF Ledger, OneWriter
  <2>3. FilesFirst'  BY <1>2, <2>1 DEF Ledger, FilesFirst, Writing
  <2>4. QED  BY <1>1, <1>2, <2>2, <2>3
<1>3. ASSUME NEW r \in Requests, NEW p \in Plans, CreatePlan(r, p) PROVE Ledger'
  BY <1>2, <1>3, IdleIsJob DEF CreatePlan, Enter, Labels, Writing
<1>4. ASSUME NEW r \in Requests, NEW p \in Plans, ReadForPreview(r, p) PROVE Ledger'
  <2>1. plan[p] \in PlanStatuses  BY DEF Typed, TypeOK
  <2>2. [Idle EXCEPT !.plan = p, !.seen = plan[p]] \in Jobs  BY <2>1, IdleIsJob DEF Jobs
  <2>3. QED  BY <1>2, <1>4, <2>2 DEF ReadForPreview, Enter, Labels, Writing
<1>5. ASSUME NEW r \in Requests, NEW a \in Approvals, NEW d \in {"approve", "reject"},
             ReadForDecision(r, a, d) PROVE Ledger'
  <2>1. [Idle EXCEPT !.approval = a] \in Jobs  BY IdleIsJob DEF Jobs
  <2>2. QED  BY <1>2, <1>5, <2>1 DEF ReadForDecision, Enter, Labels, Writing
<1>6. ASSUME NEW r \in Requests, NEW p \in Plans, NEW token \in 0..minted,
             NEW k \in Keys \cup {None}, LookUpKey(r, p, token, k) PROVE Ledger'
  <2>1. token \in Tokens /\ Committed \in SUBSET Executions
    BY BoundAssumption DEF Typed, TypeOK, Tokens, Committed
  <2>2. [Idle EXCEPT !.plan = p, !.token = token, !.key = k, !.before = Committed] \in Jobs
    BY <2>1, IdleIsJob DEF Jobs
  <2>3. QED  BY <1>2, <1>6, <2>2 DEF LookUpKey, Enter, Labels, Writing
<1>7. ASSUME NEW r \in Requests, NEW k \in Keys, AnswerKnownKey(r, k) PROVE Ledger'
  BY <1>2, <1>7, IdleIsJob DEF AnswerKnownKey, Enter, Labels, Writing
<1>8. ASSUME NEW r \in Requests, Return(r), UNCHANGED <<execution, proofs, begun, files>>,
             writer' = writer \/ (writer = r /\ writer' = None) PROVE Ledger'
  BY <1>2, <1>8, IdleIsJob DEF Return, Goto, Labels, Writing
<1>9. ASSUME NEW r \in Requests, WritePreview(r) \/ Approve(r) \/ Reject(r) PROVE Ledger'
  BY <1>8, <1>9 DEF WritePreview, Approve, Reject
<1>10. ASSUME NEW r \in Requests, ReadPlan(r) PROVE Ledger'
  <2>1. CASE Return(r)  BY <1>8, <1>10, <2>1 DEF ReadPlan
  <2>2. CASE Goto(r, "approval") /\ UNCHANGED job
    <3>1. job' = [job EXCEPT ![r] = job[r]] /\ job[r] \in Jobs  BY <2>2 DEF Typed, TypeOK
    <3>2. QED  BY <1>2, <1>10, <2>2, <3>1 DEF ReadPlan, Goto, Labels, Writing
  <2>3. QED  BY <1>10, <2>1, <2>2 DEF ReadPlan
<1>11. ASSUME NEW r \in Requests, ReadApproval(r) PROVE Ledger'
  <2>1. CASE Return(r)  BY <1>8, <1>11, <2>1 DEF ReadApproval
  <2>2. ASSUME NEW a \in Approvals, job' = [job EXCEPT ![r].approval = a], Goto(r, "begin")
        PROVE  Ledger'
    <3>1. job[r] \in Jobs  BY DEF Typed, TypeOK
    <3>2. [job[r] EXCEPT !.approval = a] \in Jobs  BY <3>1 DEF Jobs
    <3>3. QED  BY <1>2, <1>11, <2>2, <3>2 DEF ReadApproval, Goto, Labels, Writing
  <2>3. QED  BY <1>11, <2>1, <2>2 DEF ReadApproval
<1>12. ASSUME NEW r \in Requests, Begin(r) PROVE Ledger'
  <2>1. job[r] \in Jobs /\ begun + 1 \in Executions
    BY <1>12, BoundAssumption DEF Begin, Typed, TypeOK, Executions
  <2>2. pc'[r] = "steps" /\ job'[r].id = begun'
    BY <1>12, <2>1 DEF Begin, Goto, Jobs, Typed, TypeOK
  <2>3. execution'[begun'] = None
    BY <1>12, <2>1, BoundAssumption DEF Begin, Ledger, NoneBeyond, Typed, TypeOK
  <2>4. \A q \in Requests : q # r => pc'[q] \notin Writing
    BY <1>12, NoneAssumption DEF Begin, Goto, Ledger, OneWriter, Typed, TypeOK
  <2>5. OneWriter'  BY <1>12, <2>2, <2>3, <2>4 DEF Begin, OneWriter
  <2>6. FilesFirst'  BY <2>2, <2>4 DEF FilesFirst, Writing
  <2>7. NoneBeyond'
    BY <1>12, BoundAssumption DEF Begin, Ledger, NoneBeyond, Typed, TypeOK, Executions
  <2>8. ProofsAreComplete'
    BY <1>12 DEF Begin, Ledger, ProofsAreComplete, Committed
  <2>9. QED  BY <2>5, <2>6, <2>7, <2>8 DEF Ledger
<1>13. ASSUME NEW r \in Requests, NEW l \in Writing, NEW j \in Jobs, pc[r] \in Writing,
              pc' = [pc EXCEPT ![r] = l], job' = [job EXCEPT ![r] = j], j.id = job[r].id,
              UNCHANGED <<execution, proofs, begun, writer>>, files \subseteq files',
              l = "commit" /\ j.status = "verified" => j.id \in files'
       PROVE  Ledger'
  <2>1. pc'[r] = l /\ job'[r] = j  BY <1>13 DEF Typed, TypeOK
  <2>2. \A q \in Requests : q # r => pc'[q] = pc[q] /\ job'[q] = job[q]
    BY <1>13 DEF Typed, TypeOK
  <2>3. OneWriter'  BY <1>13, <2>1, <2>2 DEF Ledger, OneWriter
  <2>4. FilesFirst'  BY <1>13, <2>1, <2>2 DEF Ledger, FilesFirst
  <2>5. NoneBeyond'  BY <1>13 DEF Ledger, NoneBeyond
  <2>6. ProofsAreComplete'  BY <1>13 DEF Ledger, ProofsAreComplete, Committed
  <2>7. QED  BY <2>3, <2>4, <2>5, <2>6 DEF Ledger
<1>14. ASSUME NEW r \in Requests, RunSteps(r) PROVE Ledger'
  <2>1. PICK done \in 0..Steps :
          /\ job' = [job EXCEPT ![r].done = done, ![r].status = IF done = Steps THEN "verifying" ELSE "failed"]
          /\ Goto(r, IF done = Steps THEN "verify" ELSE "commit")
    BY <1>14 DEF RunSteps
  <2> DEFINE l == IF done = Steps THEN "verify" ELSE "commit"
             j == [job[r] EXCEPT !.done = done, !.status = IF done = Steps THEN "verifying" ELSE "failed"]
  <2>2. pc' = [pc EXCEPT ![r] = l] /\ job' = [job EXCEPT ![r] = j] /\ l \in Writing
    BY <2>1 DEF Goto, Writing
  <2>3. job[r] \in Jobs  BY DEF Typed, TypeOK
  <2>4. j \in Jobs /\ j.id = job[r].id /\ j.status # "verified"  BY <2>3 DEF Jobs, Steps
  <2> HIDE DEF l, j
  <2>5. pc[r] \in Writing /\ UNCHANGED <<execution, proofs, begun, writer, files>>
    BY <1>14 DEF RunSteps, Writing
  <2>6. QED  BY <1>13, <2>2, <2>4, <2>5
<1>15. ASSUME NEW r \in Requests, Verify(r) PROVE Ledger'
  <2>1. pc[r] \in Writing /\ UNCHANGED <<execution, proofs, begun, writer, files>>
    BY <1>15 DEF Verify, Writing
  <2>2. job[r] \in Jobs  BY DEF Typed, TypeOK
  <2>3. CASE Goto(r, "proof") /\ UNCHANGED job
    <3>1. job' = [job EXCEPT ![r] = job[r]]  BY <2>3 DEF Typed, TypeOK
    <3>2. QED  BY <1>13, <2>1, <2>2, <2>3, <3>1 DEF Goto, Writing
  <2>4. CASE Goto(r, "commit") /\ job' = [job EXCEPT ![r].status = "failed"]
    <3> DEFINE j == [job[r] EXCEPT !.status = "failed"]
    <3>1. j \in Jobs /\ j.id = job[r].id /\ j.status # "verified"  BY <2>2 DEF Jobs
    <3>2. job' = [job EXCEPT ![r] = j]  BY <2>4
    <3> HIDE DEF j
    <3>3. QED  BY <1>13, <2>1, <2>4, <3>1, <3>2 DEF Goto, Writing
  <2>5. QED  BY <1>15, <2>3, <2>4 DEF Verify
<1>16. ASSUME NEW r \in Requests, CreateProof(r) PROVE Ledger'
  <2> DEFINE j == [job[r] EXCEPT !.status = "verified"]
  <2>1. job[r] \in Jobs  BY DEF Typed, TypeOK
  <2>2. j \in Jobs /\ j.id = job[r].id  BY <2>1 DEF Jobs
  <2>3. job' = [job EXCEPT ![r] = j] /\ pc' = [pc EXCEPT ![r] = "commit"]
    BY <1>16 DEF CreateProof, Goto
  <2> HIDE DEF j
  <2>4. /\ pc[r] \in Writing /\ UNCHANGED <<execution, proofs, begun, writer>>
        /\ files \subseteq files' /\ job[r].id \in files'
    BY <1>16 DEF CreateProof, WrittenBy, Writing
  <2>5. QED  BY <1>13, <2>2, <2>3, <2>4 DEF Writing
<1>17. ASSUME NEW r \in Requests, Commit(r) PROVE Ledger'
  <2> DEFINE j == job[r]
             row == [plan |-> j.plan, approval |-> j.approval, token |-> j.token, key |-> j.key,
                     status |-> j.status]
  <2>1. /\ j \in Jobs /\ j.id = begun /\ j.id \in Executions /\ execution[begun] = None /\ writer = r
        /\ j.plan \in Plans /\ j.approval \in Approvals /\ j.status \in {"verified", "failed"}
        /\ j.status = "verified" => j.id \in files
    BY <1>17 DEF Commit, Ledger, OneWriter, FilesFirst, Typed, TypeOK, LocalsOK, Located, Writing,
                 Executing
  <2>2. row \in ExecutionRows /\ row.status = j.status  BY <2>1 DEF ExecutionRows, Jobs
  <2>3. /\ execution' = [execution EXCEPT ![j.id] = row]
        /\ proofs' = IF j.status = "verified" THEN proofs \cup {j.id} ELSE proofs
        /\ UNCHANGED <<files, begun>>
    BY <1>17 DEF Commit
  <2>4. /\ pc' = [pc EXCEPT ![r] = "idle"] /\ job' = [job EXCEPT ![r] = Idle]
    BY <1>17 DEF Commit, Return, Goto
  <2>5. \A q \in Requests : pc'[q] \notin Writing
    BY <2>1, <2>4 DEF Ledger, OneWriter, Typed, TypeOK, Writing
  <2> HIDE DEF row
  <2>6. /\ execution'[j.id] = row /\ row # None
        /\ \A e \in Executions : e # j.id => execution'[e] = execution[e]
    BY <2>1, <2>2, <2>3, NoneAssumption DEF Typed, TypeOK
  <2>7. NoneBeyond'
    BY <2>1, <2>3, <2>6 DEF Ledger, NoneBeyond, Typed, TypeOK, Executions
  <2>8. ProofsAreComplete'
    <3>1. j.id \notin proofs  BY <2>1 DEF Ledger, ProofsAreComplete, Committed
    <3>2. \A e \in Executions : e \in proofs' <=> execution'[e] # None /\ execution'[e].status = "verified"
      BY <2>1, <2>2, <2>3, <2>6, <3>1 DEF Ledger, ProofsAreComplete, Committed
    <3>3. proofs' \subseteq Executions /\ proofs' \subseteq files'
      BY <2>1, <2>3 DEF Ledger, ProofsAreComplete, Typed, TypeOK
    <3>4. QED  BY <3>2, <3>3 DEF ProofsAreComplete, Committed
  <2>9. OneWriter' /\ FilesFirst'  BY <2>5 DEF OneWriter, FilesFirst, Writing
  <2>10. QED  BY <2>7, <2>8, <2>9 DEF Ledger
<1>18. ASSUME NEW r \in Requests, RollBack(r) PROVE Ledger'
  BY <1>8, <1>18 DEF RollBack
<1>19. CASE Crash
  <2>1. \A r \in Requests : pc'[r] = "idle"  BY <1>19 DEF Crash
  <2>2. OneWriter' /\ FilesFirst'  BY <2>1 DEF OneWriter, FilesFirst, Writing
  <2>3. QED  BY <1>1, <1>19, <2>2 DEF Crash
<1>20. ASSUME UNCHANGED <<execution, proofs, files, begun, writer, pc, job>> PROVE Ledger'
  BY <1>1, <1>20 DEF Ledger, OneWriter, FilesFirst
<1>21. ASSUME NEW a \in Approvals, Expire(a) PROVE Ledger'  BY <1>20, <1>21 DEF Expire
<1>22. CASE UNCHANGED vars  BY <1>20, <1>22 DEF vars
<1>23. QED
  BY <1>3, <1>4, <1>5, <1>6, <1>7, <1>9, <1>10, <1>11, <1>12, <1>14, <1>15, <1>16, <1>17, <1>18,
     <1>19, <1>21, <1>22 DEF Next

(* An execution is verified exactly if it has a proof row, and no proof row *)
(* is without its file, wherever a rollback or a crash of the process falls *)
(* between the file and the commit.                                         *)
THEOREM Complete == Spec => []ProofsAreComplete
<1>1. Init => Typed /\ Ledger  BY InitTyped, InitLedger
<1>2. Typed /\ Ledger /\ [Next]_vars => (Typed /\ Ledger)'  BY NextTyped, NextLedger
<1>3. Ledger => ProofsAreComplete  BY DEF Ledger
<1>4. QED  BY <1>1, <1>2, <1>3, PTL DEF Spec

-----------------------------------------------------------------------------
(* RetryRunsNothing.  The rows a request found when it looked its key up    *)
(* never change, so they still have other keys when it commits.             *)

Serving == {"plan", "approval"} \cup Executing

KeyIsOther(j) ==
  \A e \in j.before : execution[e] # None /\ (j.key # None => execution[e].key # j.key)

KeysDiffer == \A r \in Requests : pc[r] \in Serving => KeyIsOther(job[r])

RowsStay == \A e \in Executions : execution[e] # None => execution'[e] = execution[e]

LEMMA NextRowsStay == Typed /\ Ledger /\ [Next]_vars => RowsStay
<1> SUFFICES ASSUME Typed, Ledger, [Next]_vars PROVE RowsStay  OBVIOUS
<1>1. CASE UNCHANGED execution  BY <1>1 DEF RowsStay
<1>2. ASSUME NEW r \in Requests, Commit(r) PROVE RowsStay
  <2>1. job[r].id \in Executions /\ execution[job[r].id] = None
    BY <1>2 DEF Commit, Ledger, OneWriter, Typed, LocalsOK, Located, Writing
  <2>2. \A e \in Executions : e # job[r].id => execution'[e] = execution[e]
    BY <1>2 DEF Commit, Typed, TypeOK
  <2>3. QED  BY <2>1, <2>2 DEF RowsStay
<1>3. QED
  BY <1>1, <1>2
  DEF Next, rows, vars, CreatePlan, ReadForPreview, ReadForDecision, LookUpKey, AnswerKnownKey,
      WritePreview, Approve, Reject, ReadPlan, ReadApproval, Begin, RunSteps, Verify, CreateProof,
      RollBack, Expire, Crash

(* One request moves on with the key and the rows it looked up.             *)
LEMMA MoveKeys ==
  ASSUME Typed, RowsStay, KeysDiffer, NEW r \in Requests, NEW l \in Labels, NEW j \in Jobs,
         pc' = [pc EXCEPT ![r] = l], job' = [job EXCEPT ![r] = j],
         \/ l \notin Serving
         \/ pc[r] \in Serving /\ j.before = job[r].before /\ j.key = job[r].key
  PROVE  KeysDiffer'
<1> SUFFICES ASSUME NEW q \in Requests, pc'[q] \in Serving, NEW e \in job'[q].before
             PROVE  /\ execution'[e] # None
                    /\ job'[q].key # None => execution'[e].key # job'[q].key
  BY DEF KeysDiffer, KeyIsOther
<1>1. /\ job'[q].before = job[q].before /\ job'[q].key = job[q].key /\ pc[q] \in Serving
      /\ e \in Executions
  <2>1. CASE q = r  BY <2>1 DEF Typed, TypeOK, Jobs
  <2>2. CASE q # r  BY <2>2 DEF Typed, TypeOK, Jobs
  <2>3. QED  BY <2>1, <2>2
<1>2. execution[e] # None /\ (job[q].key # None => execution[e].key # job[q].key)
  BY <1>1 DEF KeysDiffer, KeyIsOther
<1>3. QED  BY <1>1, <1>2 DEF RowsStay

LEMMA NextKeys == Typed /\ Ledger /\ KeysDiffer /\ [Next]_vars => KeysDiffer'
<1> SUFFICES ASSUME Typed, Ledger, KeysDiffer, [Next]_vars PROVE KeysDiffer'  OBVIOUS
<1>0. RowsStay  BY NextRowsStay
<1> USE DEF rows
<1>1. ASSUME NEW r \in Requests, pc' = [pc EXCEPT ![r] = "idle"], job' = [job EXCEPT ![r] = Idle]
      PROVE  KeysDiffer'
  BY <1>0, <1>1, IdleIsJob, MoveKeys DEF Labels, Serving, Executing
<1>2. ASSUME NEW r \in Requests, NEW p \in Plans, ReadForPreview(r, p) PROVE KeysDiffer'
  <2>1. plan[p] \in PlanStatuses  BY DEF Typed, TypeOK
  <2>2. [Idle EXCEPT !.plan = p, !.seen = plan[p]] \in Jobs  BY <2>1, IdleIsJob DEF Jobs
  <2>3. QED  BY <1>0, <1>2, <2>2, MoveKeys DEF ReadForPreview, Enter, Labels, Serving, Executing
<1>3. ASSUME NEW r \in Requests, NEW a \in Approvals, NEW d \in {"approve", "reject"},
             ReadForDecision(r, a, d) PROVE KeysDiffer'
  <2>1. [Idle EXCEPT !.approval = a] \in Jobs  BY IdleIsJob DEF Jobs
  <2>2. QED  BY <1>0, <1>3, <2>1, MoveKeys DEF ReadForDecision, Enter, Labels, Serving, Executing
<1>4. ASSUME NEW r \in Requests, NEW p \in Plans, NEW token \in 0..minted,
             NEW k \in Keys \cup {None}, LookUpKey(r, p, token, k) PROVE KeysDiffer'
  <2> DEFINE j == [Idle EXCEPT !.plan = p, !.token = token, !.key = k, !.before = Committed]
  <2>1. token \in Tokens /\ Committed \in SUBSET Executions
    BY BoundAssumption DEF Typed, TypeOK, Tokens, Committed
  <2>2. j \in Jobs /\ j.key = k /\ j.before = Committed  BY <2>1, IdleIsJob DEF Jobs
  <2>3. pc' = [pc EXCEPT ![r] = "plan"] /\ job' = [job EXCEPT ![r] = j] /\ UNCHANGED execution
    BY <1>4 DEF LookUpKey, Enter
  <2> HIDE DEF j
  <2>4. \A e \in Committed : execution[e] # None /\ (k # None => execution[e].key # k)
    BY <1>4 DEF LookUpKey, KeyIsNew, WithKey, Committed
  <2>5. pc'[r] = "plan" /\ job'[r].key = k /\ job'[r].before = Committed
    BY <2>2, <2>3 DEF Typed, TypeOK
  <2>6. \A q \in Requests : q # r => pc'[q] = pc[q] /\ job'[q] = job[q]
    BY <2>3 DEF Typed, TypeOK
  <2>7. QED  BY <2>3, <2>4, <2>5, <2>6 DEF KeysDiffer, KeyIsOther
<1>5. ASSUME NEW r \in Requests, NEW l \in Labels, NEW j \in Jobs, pc[r] \in Serving,
             pc' = [pc EXCEPT ![r] = l], job' = [job EXCEPT ![r] = j],
             j.before = job[r].before, j.key = job[r].key
      PROVE  KeysDiffer'
  BY <1>0, <1>5, MoveKeys
<1>6. ASSUME NEW r \in Requests, NEW l \in Labels, pc[r] \in Serving, Goto(r, l), UNCHANGED job
      PROVE  KeysDiffer'
  <2>1. job' = [job EXCEPT ![r] = job[r]] /\ job[r] \in Jobs  BY <1>6 DEF Typed, TypeOK
  <2>2. QED  BY <1>5, <1>6, <2>1 DEF Goto
<1>7. ASSUME NEW r \in Requests, ReadPlan(r) PROVE KeysDiffer'
  BY <1>1, <1>6, <1>7 DEF ReadPlan, Return, Goto, Labels, Serving
<1>8. ASSUME NEW r \in Requests, ReadApproval(r) PROVE KeysDiffer'
  <2>1. CASE Return(r)  BY <1>1, <2>1 DEF Return, Goto
  <2>2. ASSUME NEW a \in Approvals, job' = [job EXCEPT ![r].approval = a], Goto(r, "begin")
        PROVE  KeysDiffer'
    <3> DEFINE j == [job[r] EXCEPT !.approval = a]
    <3>1. job[r] \in Jobs  BY DEF Typed, TypeOK
    <3>2. j \in Jobs /\ j.before = job[r].before /\ j.key = job[r].key  BY <3>1 DEF Jobs
    <3>3. job' = [job EXCEPT ![r] = j]  BY <2>2
    <3> HIDE DEF j
    <3>4. QED  BY <1>5, <1>8, <2>2, <3>2, <3>3 DEF ReadApproval, Goto, Labels, Serving
  <2>3. QED  BY <1>8, <2>1, <2>2 DEF ReadApproval
<1>9. ASSUME NEW r \in Requests, Begin(r) PROVE KeysDiffer'
  <2> DEFINE j == [job[r] EXCEPT !.id = begun + 1]
  <2>1. job[r] \in Jobs /\ begun + 1 \in 0..MaxExecutions
    BY <1>9, BoundAssumption DEF Begin, Typed, TypeOK
  <2>2. j \in Jobs /\ j.before = job[r].before /\ j.key = job[r].key  BY <2>1 DEF Jobs
  <2>3. pc' = [pc EXCEPT ![r] = "steps"] /\ job' = [job EXCEPT ![r] = j]
    BY <1>9 DEF Begin, Goto
  <2> HIDE DEF j
  <2>4. QED  BY <1>5, <1>9, <2>2, <2>3 DEF Begin, Labels, Serving, Executing
<1>10. ASSUME NEW r \in Requests, RunSteps(r) PROVE KeysDiffer'
  <2>1. PICK done \in 0..Steps :
          /\ job' = [job EXCEPT ![r].done = done, ![r].status = IF done = Steps THEN "verifying" ELSE "failed"]
          /\ Goto(r, IF done = Steps THEN "verify" ELSE "commit")
    BY <1>10 DEF RunSteps
  <2> DEFINE l == IF done = Steps THEN "verify" ELSE "commit"
             j == [job[r] EXCEPT !.done = done, !.status = IF done = Steps THEN "verifying" ELSE "failed"]
  <2>2. pc' = [pc EXCEPT ![r] = l] /\ job' = [job EXCEPT ![r] = j] /\ l \in Labels
    BY <2>1 DEF Goto, Labels
  <2>3. job[r] \in Jobs  BY DEF Typed, TypeOK
  <2>4. j \in Jobs /\ j.before = job[r].before /\ j.key = job[r].key  BY <2>3 DEF Jobs, Steps
  <2> HIDE DEF l, j
  <2>5. QED  BY <1>5, <1>10, <2>2, <2>4 DEF RunSteps, Serving, Executing
<1>11. ASSUME NEW r \in Requests, NEW l \in Labels, pc[r] \in Serving, Goto(r, l),
              NEW s \in {"verified", "failed"}, job' = [job EXCEPT ![r].status = s]
       PROVE  KeysDiffer'
  <2> DEFINE j == [job[r] EXCEPT !.status = s]
  <2>1. job[r] \in Jobs  BY DEF Typed, TypeOK
  <2>2. j \in Jobs /\ j.before = job[r].before /\ j.key = job[r].key  BY <2>1 DEF Jobs
  <2>3. job' = [job EXCEPT ![r] = j]  BY <1>11
  <2> HIDE DEF j
  <2>4. QED  BY <1>5, <1>11, <2>2, <2>3 DEF Goto
<1>12. ASSUME NEW r \in Requests, Verify(r) \/ CreateProof(r) PROVE KeysDiffer'
  BY <1>6, <1>11, <1>12 DEF Verify, CreateProof, Labels, Serving, Executing
<1>13. ASSUME NEW r \in Requests,
              \/ WritePreview(r) \/ Approve(r) \/ Reject(r) \/ Commit(r) \/ RollBack(r)
              \/ (\E p \in Plans : CreatePlan(r, p)) \/ (\E k \in Keys : AnswerKnownKey(r, k))
       PROVE  KeysDiffer'
  BY <1>1, <1>13 DEF WritePreview, Approve, Reject, Commit, RollBack, Return, Goto, CreatePlan,
                     AnswerKnownKey, Enter
<1>14. CASE Crash
  BY <1>14 DEF Crash, KeysDiffer, Serving, Executing
<1>15. ASSUME UNCHANGED <<execution, pc, job>> PROVE KeysDiffer'
  BY <1>15 DEF KeysDiffer, KeyIsOther
<1>16. ASSUME NEW a \in Approvals, Expire(a) PROVE KeysDiffer'  BY <1>15, <1>16 DEF Expire
<1>17. CASE UNCHANGED vars  BY <1>15, <1>17 DEF vars
<1>18. QED
  BY <1>2, <1>3, <1>4, <1>7, <1>8, <1>9, <1>10, <1>12, <1>13, <1>14, <1>16, <1>17 DEF Next

(* A request that came after an execution of its key was committed runs     *)
(* nothing, whether that execution failed or was verified.                  *)
THEOREM Retried == Spec => RetryRunsNothing
<1>1. Init => Typed /\ Ledger /\ KeysDiffer
  BY InitTyped, InitLedger DEF Init, KeysDiffer, Serving, Executing
<1>2. Typed /\ Ledger /\ KeysDiffer /\ [Next]_vars => (Typed /\ Ledger /\ KeysDiffer)'
  BY NextTyped, NextLedger, NextKeys
<1>3. KeysDiffer => \A r \in Requests :
        execution' # execution /\ pc[r] = "commit" /\ pc'[r] = "idle" /\ job[r].key # None
          => \A e \in job[r].before : execution[e].key # job[r].key
  BY DEF KeysDiffer, KeyIsOther, Serving, Executing
<1>4. QED  BY <1>1, <1>2, <1>3, PTL DEF Spec, RetryRunsNothing
=============================================================================
