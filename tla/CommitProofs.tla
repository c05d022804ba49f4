---------------------------- MODULE CommitProofs ----------------------------
(* Proofs about CommitAuthorization, for any number of connections, origins, *)
(* policies, step-up requests, contexts and operations.                      *)
EXTENDS CommitAuthorization, SequenceTheorems, FiniteSetTheorems, TLAPS

(* The steps before the browser acts, and those after it.                    *)
Before == {"profile", "scope", "check", "payment", "resource"}
After == {"grant", "evaluate", "stepup", "record", "context", "answer"}

(* The locals are set where a step reads them.                               *)
LocalsSet ==
  /\ op.granted \in 0..Len(stepUps) /\ op.req.stepUp \in 0..Len(stepUps)
  /\ op.req.ctx \in 0..Len(contexts)
  /\ step # "idle" => op.conn \in Conns

(* An upload that reached the browser was allowed by the grant; an operation *)
(* that has a step-up to spend was granted one.                              *)
GrantSet ==
  /\ step = "grant" \/ (step = "execute" /\ op.req.kind = "upload") => grant \in GrantRows
  /\ step = "stepup" => op.granted # 0
  /\ step = "record" => op.verdict # "none"

Typed == TypeOK /\ LocalsSet /\ GrantSet

Answered == {i \in DOMAIN effects : effects[i].answered}

(* Effects name requests that were made, and an answered one has spent its   *)
(* step-up, which no other answered one names.                               *)
SpentOnce ==
  /\ \A i \in DOMAIN effects : effects[i].stepUp \in 0..Len(stepUps)
  /\ \A i \in Answered : effects[i].stepUp # 0 => stepUps[effects[i].stepUp].status = "consumed"
  /\ \A i, j \in Answered : effects[i].stepUp # 0 /\ effects[i].stepUp = effects[j].stepUp => i = j

(* After the browser has acted, the last effect is the operation's own; its  *)
(* step-up is spent before the remaining steps, and by no answered effect.   *)
OwnEffect ==
  step \in After =>
    /\ Len(effects) > 0 /\ effects[Len(effects)].stepUp = op.granted
    /\ ~effects[Len(effects)].answered
    /\ step \in {"record", "context", "answer"} /\ op.granted # 0 =>
         /\ stepUps[op.granted].status = "consumed"
         /\ \A i \in Answered : effects[i].stepUp # op.granted

Used == SpentOnce /\ OwnEffect

(* A request that was approved for this connection, page and kind.           *)
ApprovedFor(s, conn, pg, kind) ==
  /\ s \in DOMAIN stepUps /\ stepUps[s].status \in {"approved", "consumed"}
  /\ stepUps[s].binding.conn = conn /\ stepUps[s].binding.page = pg
  /\ stepUps[s].binding.kind = kind

(* A request made for this reason and amount.                                *)
AskedFor(s, reason, amount) ==
  stepUps[s].binding.reason = reason /\ stepUps[s].binding.scope.amount = amount

(* An amount that every policy escalates.                                    *)
Dear(amount) == \A p \in Policies : amount > p.autonomy

(* A step-up the operation was granted was approved for it; a change has one *)
(* from the first step on, and a payment that was escalated one for its      *)
(* amount; a payment that was not is within an autonomy limit.               *)
GrantedFits ==
  /\ op.granted # 0 => ApprovedFor(op.granted, op.conn, op.page, op.req.kind)
  /\ step \notin {"idle", "profile"} /\ op.req.kind = "change" => op.granted # 0
  /\ op.verdict \in Escalations => op.granted # 0 /\ AskedFor(op.granted, op.verdict, op.req.amount)
  /\ op.verdict = "allow" /\ Commits(op.req.kind) => ~Dear(op.req.amount)

(* What the browser did beyond the policies was approved for it.             *)
EffectFits(e) ==
  /\ e.kind = "change" \/ e.verdict \in Escalations => ApprovedFor(e.stepUp, e.conn, e.page, e.kind)
  /\ e.verdict \in Escalations => AskedFor(e.stepUp, e.verdict, e.amount)
  /\ e.verdict = "allow" /\ Commits(e.kind) => ~Dear(e.amount)

Escalated == GrantedFits /\ \A i \in DOMAIN effects : EffectFits(effects[i])

(* The last effect was had under the verdict the operation still has.        *)
OwnVerdict ==
  step \in After => /\ Len(effects) \in DOMAIN effects
                    /\ effects[Len(effects)].verdict = op.verdict
                    /\ effects[Len(effects)].day <= Day(now)

(* A sum that is within a limit, or on a day the limits were passed by.      *)
Within(d, sum) == Unlimited(d) = {} => \E p \in Policies : sum <= p.daily

(* Nothing is booked on a day to come; what a read of the usage will write   *)
(* back is within the limit and, from today on, no more than what is booked; *)
(* an amount the limits were looked at for fits today and on every later day.*)
LimitVerdicts == {"allow", "limit"}
Booked ==
  /\ \A d \in Days : d > Day(now) => usage[d] = 0
  /\ reader # None =>
       \A d \in Days : /\ Within(d, reader[d])
                       /\ d >= Day(now) => reader[d] <= usage[d]
  /\ step \notin {"context", "answer"} /\ op.verdict \in LimitVerdicts /\ Commits(op.req.kind)
       => \A d \in Days : d >= Day(now) =>
            \E p \in Policies : usage[d] + op.req.amount <= p.daily
  /\ RecordedWithinLimit

IInv == Typed /\ Used /\ Escalated /\ OwnVerdict /\ Booked

-----------------------------------------------------------------------------
(* Facts about sequences, days and the order of the steps.                   *)

(* Replacing an element, or adding one, keeps the type of a sequence.        *)
LEMMA PutSeq ==
  ASSUME NEW S, NEW q \in Seq(S), NEW k, NEW v, k \in DOMAIN q => v \in S
  PROVE  /\ [q EXCEPT ![k] = v] \in Seq(S)
         /\ Len([q EXCEPT ![k] = v]) = Len(q)
         /\ DOMAIN [q EXCEPT ![k] = v] = DOMAIN q
<1>1. CASE k \in DOMAIN q
  BY <1>1
<1>2. CASE k \notin DOMAIN q
  <2>1. [q EXCEPT ![k] = v] = q
    BY <1>2
  <2> QED BY <2>1
<1> QED BY <1>1, <1>2

LEMMA AddSeq ==
  ASSUME NEW S, NEW q \in Seq(S), NEW v \in S
  PROVE  /\ Append(q, v) \in Seq(S)
         /\ Len(Append(q, v)) = Len(q) + 1 /\ Len(q) \in Nat
         /\ DOMAIN q = 1..Len(q) /\ DOMAIN Append(q, v) = 1..(Len(q) + 1)
         /\ \A i \in 1..Len(q) : Append(q, v)[i] = q[i]
         /\ Append(q, v)[Len(q) + 1] = v
  OBVIOUS

(* Days follow the clock.                                                    *)
LEMMA DaysGrow ==
  ASSUME NEW t \in 0..MaxTime
  PROVE  /\ Day(t) \in Days /\ Day(t) \in Nat
         /\ \A u \in 0..MaxTime : u >= t => Day(u) >= Day(t)
<1> USE CommitAssumption
<1>1. ASSUME NEW x \in Nat
      PROVE  /\ Day(x) \in Nat /\ DayLength * Day(x) <= x
             /\ x < DayLength * (Day(x) + 1)
  BY DEF Day
<1>2. ASSUME NEW x \in Nat, NEW y \in Nat, x <= y
      PROVE  Day(x) <= Day(y)
  <2>1. SUFFICES ASSUME Day(y) + 1 <= Day(x)
                 PROVE  FALSE
    BY <1>1
  <2>2. DayLength * (Day(y) + 1) <= DayLength * Day(x)
    <3> DEFINE a == Day(y) + 1  b == Day(x)
    <3>1. a \in Nat /\ b \in Nat /\ DayLength \in Nat /\ a <= b
      BY <1>1, <2>1
    <3>2. \A m, n, k \in Nat : m <= n => k * m <= k * n
      OBVIOUS
    <3> HIDE DEF a, b
    <3>3. DayLength * a <= DayLength * b
      BY <3>1, <3>2
    <3> QED BY <3>3 DEF a, b
  <2> QED BY <1>1, <1>2, <2>2
<1> QED BY <1>1, <1>2 DEF Days

(* What is dropped counts as nothing; today is never dropped.                *)
LEMMA RetainedSums ==
  ASSUME NEW u \in [Days -> Nat], NEW t \in 0..MaxTime
  PROVE  /\ Retained(u, t) \in [Days -> Nat]
         /\ \A d \in Days : Retained(u, t)[d] \in {0, u[d]}
         /\ Retained(u, t)[Day(t)] = u[Day(t)]
  BY DaysGrow DEF Retained, DaysOfMonth

(* The next step of an operation.                                            *)
LEMMA NextStep ==
  ASSUME Advance, step \in Steps, op.req.kind \in AllKinds
  PROVE  /\ step' \in Steps
         /\ step \in Before => step' \in (Before \cup {"execute"}) \ {"profile"}
         /\ step \in {"profile", "scope", "check"} /\ Pays(op.req.kind)
              => step' \in {"scope", "check", "payment"}
         /\ step \in {"payment", "resource"} => step' \in {"resource", "execute"}
         /\ step \in Before \ {"resource"} /\ op.req.kind = "upload" => step' \in Before
         /\ step' = "grant" => op.req.kind = "upload" /\ step \notin After
         /\ step' = "stepup" => op.granted # 0
         /\ step' = "record" => op.verdict # "none"
         /\ step \in {"execute"} \cup After => step' \in After
         /\ step \in {"execute", "grant", "evaluate"} /\ op.granted # 0
              => step' \in {"grant", "evaluate", "stepup"}
         /\ step \in {"record", "context", "answer"} => step' \in {"context", "answer"}
<1>1. PICK t \in Steps : /\ Later(step, t) /\ step' = t
                         /\ \A u \in Steps : Later(step, u) => Position[t] <= Position[u]
  BY DEF Advance
<1>2. Steps = Before \cup {"execute"} \cup After
  BY DEF Steps, Position, Before, After
<1>3. /\ Position["profile"] = 1 /\ Position["scope"] = 2 /\ Position["check"] = 3
      /\ Position["payment"] = 4 /\ Position["resource"] = 5 /\ Position["execute"] = 6
      /\ Position["grant"] = 7 /\ Position["evaluate"] = 8 /\ Position["stepup"] = 9
      /\ Position["record"] = 10 /\ Position["context"] = 11 /\ Position["answer"] = 12
  BY DEF Position
<1>4. /\ Has("execute") /\ Has("answer")
      /\ Pays(op.req.kind) => Has("payment")
      /\ op.granted # 0 => Has("stepup")
      /\ op.req.kind = "upload" <=> Has("resource")
      /\ op.req.kind = "upload" <=> Has("grant")
  BY DEF Has
<1> HIDE DEF Position
<1>5. \A u \in Steps : Position[step] < Position[u] /\ Has(u) => Position[t] <= Position[u]
  BY <1>1 DEF Later
<1>6. Position[step] < Position[t]
  BY <1>1 DEF Later
<1>7. step \in Before => t \in (Before \cup {"execute"}) \ {"profile"}
  BY <1>2, <1>3, <1>4, <1>5, <1>6 DEF Before, After
<1>8. step \in {"profile", "scope", "check"} /\ Pays(op.req.kind)
        => t \in {"scope", "check", "payment"}
  BY <1>2, <1>3, <1>4, <1>5, <1>6 DEF Before, After
<1>9. step \in {"payment", "resource"} => t \in {"resource", "execute"}
  BY <1>2, <1>3, <1>4, <1>5, <1>6 DEF Before, After
<1>10. step \in {"execute"} \cup After => t \in After
  BY <1>2, <1>3, <1>4, <1>5, <1>6 DEF Before, After
<1>11. step \in {"execute", "grant", "evaluate"} /\ op.granted # 0
         => t \in {"grant", "evaluate", "stepup"}
  BY <1>2, <1>3, <1>4, <1>5, <1>6 DEF Before, After
<1>12. step \in {"record", "context", "answer"} => t \in {"context", "answer"}
  BY <1>2, <1>3, <1>4, <1>5, <1>6 DEF Before, After
<1>13. step \in Before \ {"resource"} /\ op.req.kind = "upload" => t \in Before
  BY <1>2, <1>3, <1>4, <1>5, <1>6 DEF Before, After
<1>14. t = "grant" => op.req.kind = "upload" /\ step \notin After
  <2>1. t = "grant" => step \notin After
    BY <1>2, <1>3, <1>6 DEF After
  <2> QED BY <1>1, <1>4, <2>1 DEF Later
<1>15. (t = "stepup" => op.granted # 0) /\ (t = "record" => op.verdict # "none")
  BY <1>1 DEF Later, Has
<1> QED BY <1>1, <1>2, <1>7, <1>8, <1>9, <1>10, <1>11, <1>12, <1>13, <1>14, <1>15

-----------------------------------------------------------------------------
(* What the brokers do to their tables.                                      *)

LEMMA ContextTypes ==
  ASSUME NEW x \in ContextRows, NEW o \in Origins
  PROVE  /\ Refreshed(x) \in ContextRows /\ Bound(x, o) \in ContextRows
         /\ WithEvidence(x, o) \in ContextRows /\ Extended(x, o) \in ContextRows
         /\ \A r : Evaluated(x, r, o) \in ContextRows
<1>1. ASSUME NEW y \in ContextRows PROVE Refreshed(y) \in ContextRows
  BY DEF Refreshed, ContextRows, ContextStatuses
<1>2. ASSUME NEW y \in ContextRows PROVE Bound(y, o) \in ContextRows
  BY DEF Bound, ContextRows, ContextStatuses
<1>3. ASSUME NEW y \in ContextRows PROVE Settled(y) \in ContextRows
  BY DEF Settled, ContextRows, ContextStatuses
<1>4. WithEvidence(x, o) \in ContextRows
  BY <1>1, <1>2, <1>3 DEF WithEvidence
<1>5. Extended(x, o) \in ContextRows
  <2>1. [Refreshed(x) EXCEPT !.origins = @ \cup {o}] \in ContextRows
    BY <1>1 DEF ContextRows
  <2> QED BY <1>1, <1>3, <2>1 DEF Extended
<1>6. ASSUME NEW r PROVE Evaluated(x, r, o) \in ContextRows
  <2>1. ASSUME NEW y \in ContextRows PROVE [y EXCEPT !.asserted = TRUE] \in ContextRows
    BY DEF ContextRows
  <2> QED BY <1>1, <1>2, <1>3, <2>1 DEF Evaluated
<1> QED BY <1>1, <1>2, <1>4, <1>5, <1>6

LEMMA ConsumedType ==
  ASSUME Typed, NEW x \in ContextRows
  PROVE  Consumed(x) \in ContextRows
<1>1. page.origin \in Origins
  BY DEF Typed, TypeOK, Pages
<1>2. Bound(Refreshed(x), page.origin) \in ContextRows
  <2>1. Refreshed(x) \in ContextRows
    BY <1>1, ContextTypes
  <2> QED BY <1>1, <2>1, ContextTypes
<1>3. ASSUME NEW y \in ContextRows, y.uses # 0
      PROVE  [y EXCEPT !.uses = @ - 1, !.status = IF y.uses = 1 THEN "consumed" ELSE @]
               \in ContextRows
  <2> DEFINE n == y.uses - 1  t == IF y.uses = 1 THEN "consumed" ELSE y.status
  <2>1. n \in 0..MaxUses /\ t \in ContextStatuses
    BY <1>3, CommitAssumption DEF ContextRows, ContextStatuses
  <2> HIDE DEF n, t
  <2>2. [y EXCEPT !.uses = n, !.status = t] \in ContextRows
    BY <1>3, <2>1 DEF ContextRows
  <2> QED BY <2>2 DEF n, t
<1>4. Bound(Refreshed(x), page.origin).status = "ready"
        => Bound(Refreshed(x), page.origin).uses # 0
  BY DEF Bound, Refreshed, ContextRows
<1> QED BY <1>2, <1>3, <1>4 DEF Consumed

LEMMA DeclareType ==
  ASSUME Typed, step # "idle"
  PROVE  Declare(op.conn, op.req) \in ContextRows
<1>1. op.conn \in Conns /\ op.req.origin \in Origins /\ op.req.claim \in BOOLEAN /\ now \in Nat
  BY DEF Typed, TypeOK, LocalsSet, Operations
<1> QED BY <1>1, CommitAssumption DEF Declare, ContextRows, ContextStatuses

(* The table with the declared context holds the context asked for.          *)
LEMMA ToldTypes ==
  ASSUME Typed, step # "idle"
  PROVE  /\ Told(op.req) \in Seq(ContextRows)
         /\ Len(contexts) \in Nat /\ Len(Told(op.req)) >= Len(contexts)
         /\ Asked(op.req) \in DOMAIN Told(op.req) /\ Asked(op.req) \in Nat
         /\ Told(op.req)[Asked(op.req)] \in ContextRows
<1>1. contexts \in Seq(ContextRows) /\ op.req.ctx \in 0..Len(contexts)
  BY DEF Typed, TypeOK, LocalsSet
<1>2. Declare(op.conn, op.req) \in ContextRows
  BY DeclareType
<1> QED BY <1>1, <1>2 DEF Told, Asked

LEMMA BindingType ==
  ASSUME Typed, step # "idle", NEW reason \in Reasons,
         NEW ctx \in Nat, NEW scope \in Scopes
  PROVE  /\ Binding(reason, ctx, scope) \in Bindings
         /\ Binding(reason, ctx, scope).conn = op.conn
         /\ Binding(reason, ctx, scope).page = op.page
         /\ Binding(reason, ctx, scope).kind = op.req.kind
         /\ Binding(reason, ctx, scope).scope = scope
         /\ Binding(reason, ctx, scope).reason = reason
<1>1. op.conn \in Conns /\ op.page \in Pages /\ op.req.kind \in AllKinds
  BY DEF Typed, TypeOK, LocalsSet, Operations
<1> QED BY <1>1 DEF Binding, Bindings

(* No request disappears, changes its binding or gets back what it was used for. *)
Kept ==
  /\ stepUps' \in Seq(StepUpRows) /\ Len(stepUps') >= Len(stepUps)
  /\ \A s \in DOMAIN stepUps :
       /\ s \in DOMAIN stepUps' /\ stepUps'[s].binding = stepUps[s].binding
       /\ stepUps[s].status = "consumed" => stepUps'[s].status = "consumed"
       /\ stepUps[s].status = "approved" => stepUps'[s].status \in {"approved", "consumed"}

LEMMA SameKept == ASSUME Typed, UNCHANGED stepUps PROVE Kept
  BY DEF Typed, TypeOK, Kept

LEMMA StatusKept ==
  ASSUME Typed, NEW s \in DOMAIN stepUps, NEW v \in StepUpStatuses,
         stepUps' = [stepUps EXCEPT ![s].status = v],
         stepUps[s].status = "pending" \/ (stepUps[s].status = "approved" /\ v = "consumed")
  PROVE  Kept /\ stepUps'[s].status = v /\ Len(stepUps') = Len(stepUps)
<1>1. stepUps \in Seq(StepUpRows) /\ stepUps[s] \in StepUpRows
  BY DEF Typed, TypeOK
<1>2. [stepUps[s] EXCEPT !.status = v] \in StepUpRows
  BY <1>1 DEF StepUpRows
<1>3. stepUps' \in Seq(StepUpRows) /\ Len(stepUps') = Len(stepUps) /\ DOMAIN stepUps' = DOMAIN stepUps
  BY <1>1, <1>2, PutSeq
<1>4. \A r \in DOMAIN stepUps : /\ stepUps'[r].binding = stepUps[r].binding
                               /\ stepUps'[r].status = IF r = s THEN v ELSE stepUps[r].status
  BY <1>1 DEF StepUpRows
<1>5. /\ \A r \in DOMAIN stepUps : stepUps[r].status = "consumed" => stepUps'[r].status = "consumed"
      /\ \A r \in DOMAIN stepUps : stepUps[r].status = "approved"
                                    => stepUps'[r].status \in {"approved", "consumed"}
  BY <1>4
<1>6. stepUps'[s].status = v
  BY <1>4
<1>7. Len(stepUps') >= Len(stepUps)
  BY <1>1, <1>3
<1> QED BY <1>3, <1>4, <1>5, <1>6, <1>7 DEF Kept

(* Refused for want of a step-up: one may have been asked for.               *)
LEMMA EscalateKept ==
  ASSUME Typed, NEW b \in Bindings, Escalate(b)
  PROVE  Kept /\ Return
<1>1. CASE UNCHANGED stepUps
  BY <1>1, SameKept DEF Escalate
<1>2. CASE stepUps' = Append(stepUps, [binding |-> b, status |-> "pending",
                                       expires |-> now + StepUpTTL])
  <2> DEFINE row == [binding |-> b, status |-> "pending", expires |-> now + StepUpTTL]
  <2>1. row \in StepUpRows
    BY CommitAssumption DEF Typed, TypeOK, StepUpRows, StepUpStatuses
  <2>2. stepUps \in Seq(StepUpRows) /\ stepUps' = Append(stepUps, row)
    BY <1>2 DEF Typed, TypeOK
  <2> HIDE DEF row
  <2>3. Kept
    BY <2>1, <2>2, AddSeq DEF Kept
  <2> QED BY <2>3 DEF Escalate
<1> QED BY <1>1, <1>2 DEF Escalate, RequestStepUp

(* A step-up that covers the operation was approved for it.                  *)
LEMMA GrantedApproved ==
  ASSUME Typed, step # "idle", NEW reason \in Reasons,
         NEW ctx \in Nat, NEW scope \in Scopes, Granted(Binding(reason, ctx, scope))
  PROVE  /\ op.granted = 0 /\ op.req.stepUp # 0
         /\ ApprovedFor(op.req.stepUp, op.conn, op.page, op.req.kind)
         /\ AskedFor(op.req.stepUp, reason, scope.amount)
<1>1. op.req.stepUp \in DOMAIN stepUps
  BY DEF Typed, TypeOK, LocalsSet, Granted, MayUse
<1>2. stepUps[op.req.stepUp].status = "approved"
  BY DEF Granted, Covers, Status, Expired
<1>3. stepUps[op.req.stepUp].binding = Binding(reason, ctx, scope)
  BY DEF Granted, Covers
<1> QED BY <1>1, <1>2, <1>3, BindingType DEF ApprovedFor, AskedFor, Granted, MayUse

-----------------------------------------------------------------------------
(* The checks: each step refuses the operation, or passes it on.             *)

(* A verdict, with the step-up that made it pass.                            *)
Judged(g, v) ==
  /\ step = "payment"
  /\ v \in Escalations => g # 0 /\ AskedFor(g, v, op.req.amount)
  /\ v = "allow" /\ Commits(op.req.kind) => ~Dear(op.req.amount)
  /\ v \in LimitVerdicts /\ Commits(op.req.kind)
       => usage[Day(now)] + op.req.amount <= policy.daily

Passes(c, g, v) ==
  /\ Advance /\ op' = [op EXCEPT !.ctx = c, !.granted = g, !.verdict = v]
  /\ g # op.granted => op.granted = 0 /\ ApprovedFor(g, op.conn, op.page, op.req.kind)
  /\ step = "profile" /\ op.req.kind = "change" => g # 0
  /\ v # op.verdict => Judged(g, v)

Decided == Return \/ \E c \in Nat, g \in {op.granted, op.req.stepUp}, v \in Verdicts : Passes(c, g, v)

Checked ==
  /\ step \in Before /\ Kept /\ Decided
  /\ contexts' \in Seq(ContextRows) /\ Len(contexts') >= Len(contexts)

LEMMA SumsAreNaturals == \A a \in Sums : a \in Nat
<1> SUFFICES ASSUME NEW a \in Sums PROVE a \in Nat
  OBVIOUS
<1>1. CASE a \in Amounts
  BY <1>1, CommitAssumption
<1>2. CASE a = 0
  BY <1>2
<1> QED BY <1>1, <1>2 DEF Sums

(* What the steps below read of the locals.                                  *)
LEMMA Locals ==
  ASSUME Typed
  PROVE  /\ op \in Operations /\ op.ctx \in Nat /\ op.granted \in Nat /\ op.req.stepUp \in Nat
         /\ op.req.ctx \in Nat /\ op.req.amount \in Sums /\ op.req.kind \in AllKinds
         /\ op.verdict \in Verdicts /\ NoScope \in Scopes /\ 0 \in Sums /\ page.origin \in Origins /\ op.page.origin \in Origins
         /\ contexts \in Seq(ContextRows) /\ Len(contexts) \in Nat
         /\ step \in Steps \cup {"idle"}
  BY DEF Typed, TypeOK, Operations, Sums, Pages, NoScope, Scopes, Levels

(* Passing on without a step-up, or with the one supplied.                   *)
LEMMA PassOn ==
  ASSUME Typed, Advance, op' = op, step = "profile" => op.req.kind # "change"
  PROVE  Decided
<1>1. op' = [op EXCEPT !.ctx = op.ctx, !.granted = op.granted, !.verdict = op.verdict]
  BY Locals DEF Operations
<1>2. Passes(op.ctx, op.granted, op.verdict)
  BY <1>1 DEF Passes
<1> QED BY <1>2, Locals DEF Decided

LEMMA PassWith ==
  ASSUME Typed, step # "idle", NEW reason \in Reasons,
         NEW ctx \in Nat, NEW scope \in Scopes, Granted(Binding(reason, ctx, scope)),
         NEW c \in Nat, Advance, op' = [op EXCEPT !.ctx = c, !.granted = op.req.stepUp]
  PROVE  Decided
<1>1. op' = [op EXCEPT !.ctx = c, !.granted = op.req.stepUp, !.verdict = op.verdict]
  BY Locals DEF Operations
<1>2. Passes(c, op.req.stepUp, op.verdict)
  BY <1>1, GrantedApproved DEF Passes
<1> QED BY <1>2, Locals DEF Decided

LEMMA GoesOnWith ==
  ASSUME Typed, NEW s \in Nat, GoOnWith(s)
  PROVE  /\ Advance
         /\ op' = [op EXCEPT !.ctx = op.ctx, !.granted = IF s = 0 THEN op.granted ELSE s]
  BY Locals DEF GoOnWith, Operations

LEMMA ProfileChecked == ASSUME Typed, ProfileStep PROVE Checked
<1> DEFINE b == Binding("profile", op.req.ctx, NoScope)
<1>1. /\ step = "profile" /\ step # "idle" /\ step \in Before /\ UNCHANGED contexts
      /\ contexts' \in Seq(ContextRows) /\ Len(contexts') >= Len(contexts)
  BY Locals DEF ProfileStep, Before, ProfileScope
<1>2. b \in Bindings
  BY <1>1, Locals, BindingType DEF Reasons
<1>3. CASE op.req.kind # "change" /\ Proceed /\ UNCHANGED stepUps
  BY <1>1, <1>3, PassOn, SameKept DEF Checked, Proceed
<1>4. CASE op.req.kind = "change" /\ Granted(b) /\ GoOnWith(op.req.stepUp) /\ UNCHANGED stepUps
  <2>1. op.req.stepUp # 0
    BY <1>4 DEF Granted, MayUse
  <2>2. Advance /\ op' = [op EXCEPT !.ctx = op.ctx, !.granted = op.req.stepUp]
    BY <1>4, <2>1, Locals, GoesOnWith
  <2>3. Decided
    BY <1>1, <1>4, <2>2, Locals, PassWith DEF Reasons
  <2> QED BY <1>1, <1>4, <2>3, SameKept DEF Checked
<1>5. CASE Escalate(b)
  BY <1>1, <1>2, <1>5, EscalateKept DEF Checked, Decided
<1>6. CASE Return /\ UNCHANGED stepUps
  BY <1>1, <1>6, SameKept DEF Checked, Decided
<1> QED BY <1>3, <1>4, <1>5, <1>6 DEF ProfileStep, ProfileScope

LEMMA ScopeChecked == ASSUME Typed, ScopeStep PROVE Checked
<1> DEFINE b == Binding("origin", op.req.ctx, NoScope)
           wide == Extended(contexts[op.req.ctx], op.page.origin)
<1>1. step = "scope" /\ step # "idle" /\ step # "payment" /\ step # "profile" /\ step \in Before
  BY DEF ScopeStep, Before
<1>2. b \in Bindings
  BY <1>1, Locals, BindingType DEF Reasons
<1>3. CASE Proceed /\ UNCHANGED <<stepUps, contexts>>
  BY <1>1, <1>3, PassOn, SameKept, Locals DEF Checked, Proceed
<1>4. CASE Granted(b) /\ GoOnWith(op.req.stepUp) /\ UNCHANGED <<stepUps, contexts>>
  <2>1. op.req.stepUp # 0
    BY <1>4 DEF Granted, MayUse
  <2>2. Advance /\ op' = [op EXCEPT !.ctx = op.ctx, !.granted = op.req.stepUp]
    BY <1>4, <2>1, Locals, GoesOnWith
  <2>3. Decided
    BY <1>1, <1>4, <2>2, Locals, PassWith DEF Reasons
  <2> QED BY <1>1, <1>4, <2>3, SameKept, Locals DEF Checked
<1>5. CASE /\ Granted(b) /\ UNCHANGED stepUps
           /\ contexts' = [contexts EXCEPT ![op.req.ctx] = wide]
           /\ GoOnWith(op.req.stepUp) \/ Return
  <2>1. op.req.stepUp # 0
    BY <1>5 DEF Granted, MayUse
  <2>2. Decided
    <3>1. CASE GoOnWith(op.req.stepUp)
      <4>1. Advance /\ op' = [op EXCEPT !.ctx = op.ctx, !.granted = op.req.stepUp]
        BY <2>1, <3>1, Locals, GoesOnWith
      <4> QED BY <1>1, <1>5, <4>1, Locals, PassWith DEF Reasons
    <3>2. CASE Return
      BY <3>2 DEF Decided
    <3> QED BY <1>5, <3>1, <3>2
  <2>3. ASSUME op.req.ctx \in DOMAIN contexts PROVE wide \in ContextRows
    <3>1. contexts[op.req.ctx] \in ContextRows /\ op.page.origin \in Origins
      BY <2>3, Locals
    <3> QED BY <3>1, ContextTypes
  <2> HIDE DEF wide
  <2>4. contexts' \in Seq(ContextRows) /\ Len(contexts') = Len(contexts)
    BY <1>5, <2>3, Locals, PutSeq
  <2> QED BY <1>1, <1>5, <2>2, <2>4, SameKept, Locals DEF Checked
<1>6. CASE Escalate(b) /\ UNCHANGED contexts
  BY <1>1, <1>2, <1>6, EscalateKept, Locals DEF Checked, Decided
<1> QED BY <1>3, <1>4, <1>5, <1>6 DEF ScopeStep

LEMMA CheckChecked == ASSUME Typed, CheckStep PROVE Checked
<1> DEFINE r == op.req  o == op.page.origin  all == Told(op.req)  id == Asked(op.req)
           x == Evaluated(all[id], r, o)
           b == Binding("origin", id, NoScope)
           beyond == x.status = "step_up_required" /\ o \notin Declared
           granted == op.granted # 0 \/ Granted(b)
           y == WithEvidence(IF beyond /\ granted THEN Extended(x, o) ELSE x, o)
           useful == IF beyond THEN granted /\ Usable(Extended(x, o)) ELSE Usable(x)
           z == IF useful THEN y ELSE IF beyond THEN Extended(x, o) ELSE x
<1>1. step = "check" /\ step # "idle" /\ step # "payment" /\ step # "profile" /\ step \in Before
  BY DEF CheckStep, Before
<1>2. /\ all \in Seq(ContextRows) /\ Len(all) >= Len(contexts) /\ id \in Nat
      /\ id \in DOMAIN all /\ all[id] \in ContextRows /\ o \in Origins
  BY <1>1, ToldTypes, Locals
<1>3. b \in Bindings
  BY <1>1, <1>2, Locals, BindingType DEF Reasons
<1>4. x \in ContextRows
  <2> HIDE DEF all, id, r, o
  <2> QED BY <1>2, ContextTypes
<1>5. Extended(x, o) \in ContextRows
  <2> HIDE DEF x, o
  <2> QED BY <1>2, <1>4, ContextTypes
<1>6. y \in ContextRows
  <2> DEFINE w == IF beyond /\ granted THEN Extended(x, o) ELSE x
  <2>1. w \in ContextRows
    <3> HIDE DEF x, o, granted, beyond
    <3> QED BY <1>4, <1>5
  <2>2. y = WithEvidence(w, o)
    OBVIOUS
  <2> HIDE DEF w, o, y
  <2> QED BY <1>2, <2>1, <2>2, ContextTypes
<1>7. z \in ContextRows
  <2> HIDE DEF x, y, o, beyond, useful
  <2> QED BY <1>4, <1>5, <1>6
<1>8. \/ Return /\ UNCHANGED <<stepUps, contexts>>
      \/ contexts' = [all EXCEPT ![id] = x] /\ Escalate(b)
      \/ /\ contexts' = [all EXCEPT ![id] = z] /\ UNCHANGED stepUps
         /\ beyond => granted
         /\ \/ Return
            \/ /\ Advance
               /\ op' = [op EXCEPT !.ctx = id,
                           !.granted = IF beyond /\ @ = 0 THEN r.stepUp ELSE @]
  BY DEF CheckStep
<1> HIDE DEF r, o, all, x, beyond, y, useful, z
<1>9. CASE Return /\ UNCHANGED <<stepUps, contexts>>
  BY <1>1, <1>9, SameKept, Locals DEF Checked, Decided
<1>10. CASE contexts' = [all EXCEPT ![id] = x] /\ Escalate(b)
  <2>1. contexts' \in Seq(ContextRows) /\ Len(contexts') = Len(all)
    <3> HIDE DEF id, b
    <3> QED BY <1>2, <1>4, <1>10, PutSeq
  <2> QED BY <1>1, <1>2, <1>3, <1>10, <2>1, EscalateKept, Locals DEF Checked, Decided
<1>11. CASE /\ contexts' = [all EXCEPT ![id] = z] /\ UNCHANGED stepUps
            /\ beyond => granted
            /\ \/ Return
               \/ /\ Advance
                  /\ op' = [op EXCEPT !.ctx = id,
                              !.granted = IF beyond /\ @ = 0 THEN r.stepUp ELSE @]
  <2>1. contexts' \in Seq(ContextRows) /\ Len(contexts') = Len(all)
    <3> HIDE DEF id, granted, b
    <3> QED BY <1>2, <1>7, <1>11, PutSeq
  <2>2. CASE Return
    BY <1>1, <1>2, <1>11, <2>1, <2>2, SameKept, Locals DEF Checked, Decided
  <2>3. CASE Advance /\ ~(beyond /\ op.granted = 0)
             /\ op' = [op EXCEPT !.ctx = id, !.granted = op.granted]
    <3>1. Passes(id, op.granted, op.verdict)
      <4>1. op' = [op EXCEPT !.ctx = id, !.granted = op.granted, !.verdict = op.verdict]
        BY <2>3, Locals DEF Operations
      <4> QED BY <1>1, <2>3, <4>1 DEF Passes
    <3> QED BY <1>1, <1>2, <1>11, <2>1, <3>1, SameKept, Locals DEF Checked, Decided
  <2>4. CASE Advance /\ beyond /\ op.granted = 0
             /\ op' = [op EXCEPT !.ctx = id, !.granted = op.req.stepUp]
    <3>1. Granted(b)
      BY <1>11, <2>4
    <3>2. Decided
      BY <1>1, <1>2, <2>4, <3>1, Locals, PassWith DEF Reasons
    <3> QED BY <1>1, <1>2, <1>11, <2>1, <3>2, SameKept, Locals DEF Checked
  <2> QED BY <1>11, <2>2, <2>3, <2>4 DEF r
<1> QED BY <1>8, <1>9, <1>10, <1>11

(* A decision of the financial policy lets the operation pass with a step-up *)
(* for that reason and amount, or within the limits.                         *)
FinancialScopes == [amount : {op.req.amount}, assurance : Levels, named : BOOLEAN]

LEMMA JudgedOn ==
  ASSUME Typed, step = "payment", NEW decision, NEW level \in Levels, NEW scope \in FinancialScopes,
         GoOnAs(decision) \/ Return,
         Commits(op.req.kind) => decision \in {PolicyDecision(op.req.amount, level), "deny"},
         \/ decision \in Escalations /\ Granted(Binding(decision, op.ctx, scope))
         \/ decision = "allow"
  PROVE  Decided
<1> DEFINE b == Binding(decision, op.ctx, scope)
<1>1. CASE Return
  BY <1>1 DEF Decided
<1>2. Commits(op.req.kind) /\ decision \in LimitVerdicts
        => /\ usage[Day(now)] + op.req.amount <= policy.daily
           /\ decision = "allow" => ~Dear(op.req.amount)
  <2>1. policy \in Policies /\ policy.autonomy \in Nat /\ policy.daily \in Nat
    BY CommitAssumption DEF Typed, TypeOK
  <2>2. op.req.amount \in Nat /\ Day(now) \in Days /\ usage \in [Days -> Nat]
    BY Locals, SumsAreNaturals, DaysGrow DEF Typed, TypeOK
  <2> SUFFICES ASSUME Commits(op.req.kind), decision \in LimitVerdicts
               PROVE  /\ usage[Day(now)] + op.req.amount <= policy.daily
                      /\ decision = "allow" => ~Dear(op.req.amount)
    OBVIOUS
  <2>3. decision = PolicyDecision(op.req.amount, level)
    BY DEF LimitVerdicts
  <2>4. /\ ~(usage[Day(now)] + op.req.amount > policy.daily)
        /\ decision = "allow" => ~(op.req.amount > policy.autonomy)
    BY <2>3 DEF PolicyDecision, LimitVerdicts
  <2>5. usage[Day(now)] \in Nat
    BY <2>2
  <2> QED BY <2>1, <2>2, <2>4, <2>5 DEF Dear
<1>3. CASE GoOnAs(decision) /\ decision \in Escalations /\ Granted(b)
  <2>1. Advance /\ op' = [op EXCEPT !.ctx = op.ctx, !.granted = op.req.stepUp, !.verdict = decision]
    BY <1>3, Locals DEF GoOnAs, Operations, Escalations
  <2>2. scope \in Scopes /\ scope.amount = op.req.amount /\ decision \in Reasons
    BY <1>3, Locals DEF FinancialScopes, Scopes, Reasons
  <2>3. /\ op.granted = 0 /\ op.req.stepUp # 0
        /\ ApprovedFor(op.req.stepUp, op.conn, op.page, op.req.kind)
        /\ AskedFor(op.req.stepUp, decision, op.req.amount)
    BY <1>3, <2>2, Locals, GrantedApproved
  <2>4. Passes(op.ctx, op.req.stepUp, decision)
    BY <1>2, <1>3, <2>1, <2>3 DEF Passes, Judged, Escalations
  <2> QED BY <1>3, <2>4, Locals DEF Decided, Verdicts
<1>4. CASE GoOnAs(decision) /\ decision = "allow"
  <2>1. Advance /\ op' = [op EXCEPT !.ctx = op.ctx, !.granted = op.granted, !.verdict = decision]
    BY <1>4, Locals DEF GoOnAs, Operations
  <2>2. Passes(op.ctx, op.granted, decision)
    BY <1>2, <1>4, <2>1 DEF Passes, Judged, Escalations, LimitVerdicts
  <2> QED BY <1>4, <2>2, Locals DEF Decided, Verdicts
<1> QED BY <1>1, <1>3, <1>4

LEMMA AuthorizeDecides ==
  \A amount, level : Authorize(amount, level, TRUE) \in {PolicyDecision(amount, level), "deny"}
  BY DEF Authorize

(* What a payment's step-up is asked for.                                    *)
LEMMA FinancialBinding ==
  ASSUME Typed, step # "idle", NEW reason \in Escalations, NEW level \in Levels, NEW named \in BOOLEAN
  PROVE  FinancialScope(reason, level, named) \in Bindings
<1>1. [amount |-> op.req.amount, assurance |-> level, named |-> named] \in Scopes
  BY Locals DEF Scopes
<1> QED BY <1>1, Locals, BindingType DEF FinancialScope, Reasons

LEMMA PaymentChecked == ASSUME Typed, PaymentStep PROVE Checked
<1>1. step = "payment" /\ step # "idle" /\ step \in Before /\ op.req.kind # "commit"
  BY DEF PaymentStep, Before
<1>2. PICK level \in Levels :
        LET D == Authorize(op.req.amount, level, op.req.kind = "pay")
            x == WithEvidence(contexts[op.ctx], op.page.origin) IN
        Judge(D, FinancialScope(D, level, TRUE),
              /\ contexts' = [contexts EXCEPT ![op.ctx] = x]
              /\ IF x.status = "ready" THEN GoOnAs(D) ELSE Return)
  BY DEF PaymentStep
<1> DEFINE decision == Authorize(op.req.amount, level, op.req.kind = "pay")
           x == WithEvidence(contexts[op.ctx], op.page.origin)
           scope == [amount |-> op.req.amount, assurance |-> level, named |-> TRUE]
           b == Binding(decision, op.ctx, scope)
<1>3. \/ Return /\ UNCHANGED <<stepUps, contexts>>
      \/ decision \in Escalations /\ Escalate(b) /\ UNCHANGED contexts
      \/ /\ UNCHANGED stepUps /\ contexts' = [contexts EXCEPT ![op.ctx] = x]
         /\ GoOnAs(decision) \/ Return
         /\ \/ decision \in Escalations /\ Granted(b)
            \/ decision = "allow"
  <2> DEFINE put == [contexts EXCEPT ![op.ctx] = x]
             apply == contexts' = put /\ IF x.status = "ready" THEN GoOnAs(decision) ELSE Return
  <2>1. Judge(decision, b, apply)
    BY <1>2, Zenon DEF FinancialScope
  <2> HIDE DEF decision, x, b, put
  <2>2. Judge(decision, b, apply)
          => \/ Return /\ UNCHANGED <<stepUps, contexts>>
             \/ decision \in Escalations /\ Escalate(b) /\ UNCHANGED contexts
             \/ /\ UNCHANGED stepUps /\ contexts' = put
                /\ GoOnAs(decision) \/ Return
                /\ \/ decision \in Escalations /\ Granted(b)
                   \/ decision = "allow"
    BY DEF Judge
  <2> QED BY <2>1, <2>2 DEF put
<1>4. op.ctx \in DOMAIN contexts => x \in ContextRows
  <2>1. ASSUME op.ctx \in DOMAIN contexts PROVE x \in ContextRows
    <3>1. contexts[op.ctx] \in ContextRows /\ op.page.origin \in Origins
      BY <2>1, Locals
    <3> QED BY <3>1, ContextTypes
  <2> QED BY <2>1
<1>5. Commits(op.req.kind) => decision \in {PolicyDecision(op.req.amount, level), "deny"}
  BY <1>1, AuthorizeDecides DEF Commits
<1>6. scope \in FinancialScopes /\ (decision \in Escalations => b \in Bindings)
  BY <1>1, FinancialBinding DEF FinancialScopes, FinancialScope
<1> HIDE DEF decision, x, scope
<1>7. CASE Return /\ UNCHANGED <<stepUps, contexts>>
  BY <1>1, <1>7, SameKept, Locals DEF Checked, Decided
<1>8. CASE decision \in Escalations /\ Escalate(b) /\ UNCHANGED contexts
  BY <1>1, <1>6, <1>8, EscalateKept, Locals DEF Checked, Decided
<1>9. CASE /\ UNCHANGED stepUps /\ contexts' = [contexts EXCEPT ![op.ctx] = x]
           /\ GoOnAs(decision) \/ Return
           /\ \/ decision \in Escalations /\ Granted(b)
              \/ decision = "allow"
  <2>1. Decided
    BY <1>1, <1>5, <1>6, <1>9, JudgedOn
  <2>2. contexts' \in Seq(ContextRows) /\ Len(contexts') = Len(contexts)
    BY <1>4, <1>9, Locals, PutSeq
  <2> QED BY <1>1, <1>9, <2>1, <2>2, SameKept, Locals DEF Checked
<1> QED BY <1>3, <1>7, <1>8, <1>9

LEMMA CommitChecked == ASSUME Typed, FinancialCommitStep PROVE Checked
<1>1. step = "payment" /\ step # "idle" /\ step # "profile" /\ step \in Before
  BY DEF FinancialCommitStep, Before
<1>2. PICK named \in BOOLEAN, level \in Levels :
        LET D == CommitDecision(op.req.amount, level, named) IN
        \/ Judge(D, FinancialScope(D, level, named), UNCHANGED contexts /\ GoOnAs(D))
        \/ Proceed /\ UNCHANGED <<stepUps, contexts>>
  BY DEF FinancialCommitStep
<1> DEFINE decision == CommitDecision(op.req.amount, level, named)
           scope == [amount |-> op.req.amount, assurance |-> level, named |-> named]
           b == Binding(decision, op.ctx, scope)
<1>3. /\ UNCHANGED contexts
      /\ \/ Return /\ UNCHANGED stepUps
         \/ Proceed /\ UNCHANGED stepUps
         \/ decision \in Escalations /\ Escalate(b)
         \/ /\ UNCHANGED stepUps /\ GoOnAs(decision)
            /\ \/ decision \in Escalations /\ Granted(b)
               \/ decision = "allow"
  BY <1>2 DEF Judge, FinancialScope
<1>4. decision \in {PolicyDecision(op.req.amount, level), "deny"}
  BY AuthorizeDecides DEF CommitDecision
<1>5. scope \in FinancialScopes /\ (decision \in Escalations => b \in Bindings)
  BY <1>1, FinancialBinding DEF FinancialScopes, FinancialScope
<1> HIDE DEF decision, scope
<1>6. CASE Return /\ UNCHANGED stepUps
  BY <1>1, <1>3, <1>6, SameKept, Locals DEF Checked, Decided
<1>7. CASE Proceed /\ UNCHANGED stepUps
  BY <1>1, <1>3, <1>7, PassOn, SameKept, Locals DEF Checked, Proceed
<1>8. CASE decision \in Escalations /\ Escalate(b)
  BY <1>1, <1>3, <1>5, <1>8, EscalateKept, Locals DEF Checked, Decided
<1>9. CASE /\ UNCHANGED stepUps /\ GoOnAs(decision)
           /\ \/ decision \in Escalations /\ Granted(b)
              \/ decision = "allow"
  <2>1. Decided
    BY <1>1, <1>4, <1>5, <1>9, JudgedOn
  <2> QED BY <1>1, <1>3, <1>9, <2>1, SameKept, Locals DEF Checked
<1> QED BY <1>3, <1>6, <1>7, <1>8, <1>9

LEMMA ResourceChecked == ASSUME Typed, ResourceStep PROVE Checked
<1> DEFINE x == WithEvidence(contexts[op.ctx], op.page.origin)
<1>1. step = "resource" /\ step # "payment" /\ step # "profile" /\ step \in Before
      /\ UNCHANGED stepUps
  BY DEF ResourceStep, Before
<1>2. CASE Proceed /\ contexts' = [contexts EXCEPT ![op.ctx] = x]
  <2>1. ASSUME op.ctx \in DOMAIN contexts PROVE x \in ContextRows
    <3>1. contexts[op.ctx] \in ContextRows /\ op.page.origin \in Origins
      BY <2>1, Locals
    <3> QED BY <3>1, ContextTypes
  <2> HIDE DEF x
  <2>2. contexts' \in Seq(ContextRows) /\ Len(contexts') = Len(contexts)
    BY <1>2, <2>1, Locals, PutSeq
  <2>3. Decided
    BY <1>1, <1>2, PassOn DEF Proceed
  <2> QED BY <1>1, <2>2, <2>3, SameKept, Locals DEF Checked
<1>3. CASE Return /\ UNCHANGED contexts
  BY <1>1, <1>3, SameKept, Locals DEF Checked, Decided
<1> QED BY <1>2, <1>3 DEF ResourceStep

-----------------------------------------------------------------------------
(* Type correctness.                                                         *)

LEMMA NoOpType ==
  ASSUME Origins # {}
  PROVE  NoOp \in Operations /\ NoOp.granted = 0 /\ NoOp.req.stepUp = 0 /\ NoOp.req.ctx = 0
<1> DEFINE o == CHOOSE x \in Origins : TRUE
<1>1. o \in Origins
  OBVIOUS
<1> HIDE DEF o
<1>2. /\ NoReq = [kind |-> "change", amount |-> 0, stepUp |-> 0, ctx |-> 0,
                  asserts |-> FALSE, claim |-> FALSE, origin |-> o]
      /\ NoOp = [conn |-> None, req |-> NoReq, ctx |-> 0, granted |-> 0,
                 verdict |-> "none", page |-> [doc |-> 0, origin |-> o]]
  BY DEF NoReq, NoOp, o
<1>3. NoReq \in [kind : AllKinds, amount : Sums, stepUp : Nat, ctx : Nat,
                asserts : BOOLEAN, claim : BOOLEAN, origin : Origins]
      /\ NoReq.stepUp = 0 /\ NoReq.ctx = 0
  BY <1>1, <1>2 DEF AllKinds, Sums
<1>4. [doc |-> 0, origin |-> o] \in Pages
  BY <1>1 DEF Pages
<1> QED BY <1>2, <1>3, <1>4 DEF Operations, Verdicts

LEMMA InitTyped == Init => Typed
<1> SUFFICES ASSUME Init PROVE Typed
  OBVIOUS
<1>1. Origins # {} /\ page \in Pages
  BY DEF Init, Pages
<1>2. op \in Operations /\ LocalsSet
  BY <1>1, NoOpType DEF Init, LocalsSet
<1>3. usage \in [Days -> Nat] /\ now \in 0..MaxTime
  BY CommitAssumption DEF Init
<1>4. TypeOK
  BY <1>1, <1>2, <1>3 DEF Init, TypeOK
<1> QED BY <1>2, <1>4 DEF Init, GrantSet, Typed

(* The operation ends or goes on.                                            *)
Goes ==
  \/ Return
  \/ Advance /\ UNCHANGED op
  \/ \E c \in Nat, g \in {op.granted, op.req.stepUp}, v \in Verdicts :
       Advance /\ op' = [op EXCEPT !.ctx = c, !.granted = g, !.verdict = v]

LEMMA OpTyped ==
  ASSUME Typed, step # "idle", Kept,
         contexts' \in Seq(ContextRows), Len(contexts') >= Len(contexts), Goes
  PROVE  step' \in Steps \cup {"idle"} /\ op' \in Operations /\ LocalsSet'
<1>1. stepUps' \in Seq(StepUpRows) /\ Len(stepUps') >= Len(stepUps)
      /\ Len(stepUps) \in Nat /\ Len(stepUps') \in Nat /\ Len(contexts) \in Nat /\ Len(contexts') \in Nat
  <2>1. /\ stepUps \in Seq(StepUpRows) /\ stepUps' \in Seq(StepUpRows)
        /\ Len(stepUps') >= Len(stepUps)
    BY DEF Kept, Typed, TypeOK
  <2>2. Len(stepUps) \in Nat /\ Len(stepUps') \in Nat
    BY <2>1
  <2>3. Len(contexts') \in Nat
    OBVIOUS
  <2> QED BY <2>1, <2>2, <2>3, Locals
<1>2. CASE Return
  <2>1. Origins # {}
    BY Locals
  <2> QED BY <1>1, <1>2, <2>1, NoOpType DEF Return, LocalsSet
<1>3. ASSUME Advance PROVE step' \in Steps /\ step' # "idle"
  BY <1>3, Locals, NextStep DEF Steps, Position
<1>4. CASE Advance /\ UNCHANGED op
  BY <1>1, <1>3, <1>4, Locals DEF LocalsSet, Typed
<1>5. ASSUME NEW c \in Nat, NEW g \in {op.granted, op.req.stepUp}, NEW v \in Verdicts, Advance,
             op' = [op EXCEPT !.ctx = c, !.granted = g, !.verdict = v]
      PROVE  step' \in Steps /\ op' \in Operations /\ LocalsSet'
  <2>1. g \in Nat /\ g \in 0..Len(stepUps)
    BY Locals DEF Typed, LocalsSet
  <2>2. op' \in Operations /\ op'.granted = g /\ op'.req = op.req /\ op'.conn = op.conn
    BY <1>5, <2>1, Locals DEF Operations
  <2>3. /\ op.req.stepUp \in 0..Len(stepUps) /\ op.req.ctx \in 0..Len(contexts)
        /\ op.conn \in Conns
    BY DEF Typed, LocalsSet
  <2>4. /\ op'.granted \in 0..Len(stepUps') /\ op'.req.stepUp \in 0..Len(stepUps')
        /\ op'.req.ctx \in 0..Len(contexts')
    BY <1>1, <2>1, <2>2, <2>3
  <2> QED BY <1>3, <1>5, <2>2, <2>3, <2>4 DEF LocalsSet
<1> QED BY <1>2, <1>3, <1>4, <1>5 DEF Goes

LEMMA CheckedTyped ==
  ASSUME Typed, Checked, Unmoved, UNCHANGED <<policy, instrument, usage, selected>>,
         grant' \in {None} \cup GrantRows, GrantSet'
  PROVE  Typed'
<1>1. step # "idle"
  BY DEF Checked, Before
<1>2. step' \in Steps \cup {"idle"} /\ op' \in Operations /\ LocalsSet'
  BY <1>1, OpTyped DEF Checked, Decided, Passes, Goes
<1> QED BY <1>2 DEF Checked, Kept, Unmoved, Typed, TypeOK

(* The tables and the locals where only the environment moves.               *)
LEMMA IdleTyped ==
  ASSUME Typed, Kept, UNCHANGED <<step, op>>,
         contexts' \in Seq(ContextRows), Len(contexts') = Len(contexts)
  PROVE  step' \in Steps \cup {"idle"} /\ op' \in Operations /\ LocalsSet'
<1>1. stepUps' \in Seq(StepUpRows) /\ Len(stepUps') >= Len(stepUps)
      /\ Len(stepUps) \in Nat /\ Len(stepUps') \in Nat
  BY DEF Kept, Typed, TypeOK
<1> QED BY <1>1, Locals DEF Typed, LocalsSet

LEMMA EffectType ==
  ASSUME Typed, step # "idle"
  PROVE  Effect \in EffectRows
<1>1. /\ op.conn \in Conns /\ op.req.kind \in AllKinds /\ op.req.amount \in Sums
      /\ op.granted \in Nat /\ op.ctx \in Nat /\ op.page \in Pages /\ op.verdict \in Verdicts
  BY Locals DEF Typed, LocalsSet, Operations
<1>2. Day(now) \in Days
  BY DaysGrow DEF Typed, TypeOK
<1> QED BY <1>1, <1>2 DEF Effect, EffectRows

LEMMA MarkRecorded ==
  ASSUME Typed, Mark("recorded")
  PROVE  /\ effects' \in Seq(EffectRows) /\ DOMAIN effects' = DOMAIN effects
         /\ Len(effects') = Len(effects)
         /\ \A i \in DOMAIN effects : effects'[i] = [effects[i] EXCEPT !.recorded = effects'[i].recorded]
<1> DEFINE n == Len(effects)  row == [effects[n] EXCEPT !.recorded = TRUE]
<1>1. effects \in Seq(EffectRows) /\ effects' = [effects EXCEPT ![n] = row]
  BY DEF Typed, TypeOK, Mark
<1>2. ASSUME n \in DOMAIN effects PROVE row \in EffectRows
  <2>1. effects[n] \in EffectRows
    BY <1>1, <1>2
  <2> QED BY <2>1 DEF EffectRows
<1>3. effects' \in Seq(EffectRows) /\ DOMAIN effects' = DOMAIN effects /\ Len(effects') = n
  <2> HIDE DEF row, n
  <2> QED BY <1>1, <1>2, PutSeq DEF n
<1>4. ASSUME NEW i \in DOMAIN effects
      PROVE  effects'[i] = [effects[i] EXCEPT !.recorded = effects'[i].recorded]
  <2>1. effects[i] \in EffectRows
    BY <1>1
  <2>2. CASE i = n
    <3>1. effects'[i] = row
      BY <1>1, <2>2
    <3>2. row.recorded = TRUE
      BY <2>1, <2>2 DEF EffectRows
    <3> QED BY <2>2, <3>1, <3>2
  <2>3. CASE i # n
    <3>1. effects'[i] = effects[i]
      BY <1>1, <2>3
    <3> QED BY <2>1, <3>1 DEF EffectRows
  <2> QED BY <2>2, <2>3
<1> QED BY <1>3, <1>4

LEMMA MarkAnswered ==
  ASSUME Typed, Mark("answered")
  PROVE  /\ effects' \in Seq(EffectRows) /\ DOMAIN effects' = DOMAIN effects
         /\ Len(effects') = Len(effects)
         /\ \A i \in DOMAIN effects :
              effects'[i] = [effects[i] EXCEPT !.answered = (i = Len(effects) \/ @)]
<1> DEFINE n == Len(effects)  row == [effects[n] EXCEPT !.answered = TRUE]
<1>1. effects \in Seq(EffectRows) /\ effects' = [effects EXCEPT ![n] = row]
  BY DEF Typed, TypeOK, Mark
<1>2. ASSUME n \in DOMAIN effects PROVE row \in EffectRows
  <2>1. effects[n] \in EffectRows
    BY <1>1, <1>2
  <2> QED BY <2>1 DEF EffectRows
<1>3. effects' \in Seq(EffectRows) /\ DOMAIN effects' = DOMAIN effects /\ Len(effects') = n
  <2> HIDE DEF row, n
  <2> QED BY <1>1, <1>2, PutSeq DEF n
<1>4. ASSUME NEW i \in DOMAIN effects
      PROVE  effects'[i] = [effects[i] EXCEPT !.answered = (i = n \/ @)]
  <2>1. effects[i] \in EffectRows
    BY <1>1
  <2>2. CASE i = n
    <3>1. effects'[i] = row
      BY <1>1, <2>2
    <3>2. (i = n \/ effects[i].answered) = TRUE
      BY <2>2
    <3> QED BY <2>2, <3>1, <3>2
  <2>3. CASE i # n
    <3>1. effects'[i] = effects[i]
      BY <1>1, <2>3
    <3>2. (i = n \/ effects[i].answered) = effects[i].answered
      BY <2>1, <2>3 DEF EffectRows
    <3>3. effects[i] = [effects[i] EXCEPT !.answered = effects[i].answered]
      BY <2>1 DEF EffectRows
    <3> QED BY <3>1, <3>2, <3>3
  <2> QED BY <2>2, <2>3
<1> QED BY <1>3, <1>4

(* The parts of the type, one by one.                                        *)
LEMMA Parts ==
  ASSUME Typed
  PROVE  /\ now \in 0..MaxTime /\ page \in Pages /\ stepUps \in Seq(StepUpRows)
         /\ contexts \in Seq(ContextRows) /\ Len(contexts) \in Nat
         /\ usage \in [Days -> Nat] /\ reader \in {None} \cup [Days -> Nat]
         /\ grant \in {None} \cup GrantRows /\ effects \in Seq(EffectRows)
         /\ selected \in {None} \cup [conn : Conns, page : Pages, amount : Sums]
         /\ policy \in Policies
  BY DEF Typed, TypeOK

LEMMA BeginTyped ==
  ASSUME Typed, NEW c \in Conns, NEW r \in Requests, Begin(c, r)
  PROVE  /\ Typed' /\ op'.granted = 0 /\ step' = "profile" /\ op'.req.kind \in AllKinds
<1>1. op' = [NoOp EXCEPT !.conn = c, !.req = r, !.ctx = r.ctx,
               !.page = IF r.kind = "open" THEN [doc |-> 0, origin |-> r.origin] ELSE page]
  BY DEF Begin
<1>2. /\ UNCHANGED <<now, page, stepUps, contexts, policy, instrument, usage, grant, reader,
                    selected, effects, kinds>>
      /\ step' = "profile" /\ attempts' = attempts + 1
      /\ r.stepUp \in 0..Len(stepUps) /\ r.ctx \in 0..Len(contexts)
  BY DEF Begin, brokers
<1>3. /\ kinds \subseteq AllKinds /\ stepUps \in Seq(StepUpRows) /\ contexts \in Seq(ContextRows)
      /\ Len(stepUps) \in Nat /\ Len(contexts) \in Nat
  <2>1. kinds \subseteq AllKinds
    BY CommitAssumption DEF Typed, TypeOK
  <2>2. stepUps \in Seq(StepUpRows) /\ contexts \in Seq(ContextRows)
    BY DEF Typed, TypeOK
  <2> QED BY <2>1, <2>2
<1>4. /\ r \in [kind : AllKinds, amount : Sums, stepUp : Nat, ctx : Nat,
                asserts : BOOLEAN, claim : BOOLEAN, origin : Origins]
      /\ r.ctx \in Nat /\ r.origin \in Origins
  BY <1>2, <1>3 DEF Requests, Sums
<1> DEFINE pg == IF r.kind = "open" THEN [doc |-> 0, origin |-> r.origin] ELSE page
<1>5. pg \in Pages
  BY <1>4 DEF Typed, TypeOK, Pages
<1> HIDE DEF pg
<1>6. NoOp \in Operations /\ NoOp.granted = 0
  BY Locals, NoOpType
<1>7. op' = [NoOp EXCEPT !.conn = c, !.req = r, !.ctx = r.ctx, !.page = pg]
  BY <1>1 DEF pg
<1>8. op' \in Operations /\ op'.granted = 0 /\ op'.req = r /\ op'.conn = c
  BY <1>4, <1>5, <1>6, <1>7 DEF Operations
<1>9. LocalsSet'
  BY <1>2, <1>3, <1>8 DEF LocalsSet
<1>10. TypeOK'
  BY <1>2, <1>8 DEF Typed, TypeOK, Steps, Position
<1> QED BY <1>2, <1>4, <1>8, <1>9, <1>10 DEF Typed, GrantSet

LEMMA ChecksTyped ==
  ASSUME Typed, ProfileStep \/ ScopeStep \/ CheckStep \/ PaymentStep
                \/ FinancialCommitStep \/ ResourceStep
  PROVE  Checked /\ Typed' /\ Unmoved /\ UNCHANGED <<usage, policy>>
<1>1. Checked
  BY ProfileChecked, ScopeChecked, CheckChecked, PaymentChecked, CommitChecked, ResourceChecked
<1>2. Unmoved /\ UNCHANGED <<policy, instrument, usage, selected>>
  BY DEF ProfileStep, ScopeStep, CheckStep, PaymentStep, FinancialCommitStep, ResourceStep, ProfileScope, FinancialScope
<1>3. grant' \in {None} \cup GrantRows
  <2>1. grant \in {None} \cup GrantRows
    BY DEF Typed, TypeOK
  <2>2. CASE ResourceStep
    <3>1. CASE GrantFits /\ grant' = [grant EXCEPT !.conn = op.conn]
      <4>1. grant \in GrantRows
        BY <2>1, <3>1 DEF GrantFits
      <4>2. op.conn \in Conns
        BY <2>2 DEF ResourceStep, Typed, LocalsSet
      <4> QED BY <3>1, <4>1, <4>2 DEF GrantRows
    <3> QED BY <2>1, <2>2, <3>1 DEF ResourceStep
  <2>3. CASE UNCHANGED grant
    BY <2>1, <2>3
  <2> QED BY <2>2, <2>3 DEF ProfileStep, ScopeStep, CheckStep, PaymentStep, FinancialCommitStep, ProfileScope, FinancialScope
<1>4. GrantSet'
  <2>1. CASE Return
    BY <2>1 DEF Return, GrantSet
  <2>2. ASSUME Advance, op'.req = op.req PROVE GrantSet'
    <3>1. /\ step' \in (Before \cup {"execute"}) \ {"profile"}
          /\ step # "resource" /\ op.req.kind = "upload" => step' \in Before
      BY <1>1, <2>2, Locals, NextStep DEF Checked, Before, Steps, Position
    <3>2. CASE step = "resource"
      <4>1. ResourceStep
        BY <3>2 DEF ProfileStep, ScopeStep, CheckStep, PaymentStep, FinancialCommitStep, ProfileScope, FinancialScope
      <4>2. step' # "idle"
        BY <3>1 DEF Before
      <4>3. grant \in GrantRows /\ op.conn \in Conns /\ grant' = [grant EXCEPT !.conn = op.conn]
        BY <3>2, <4>1, <4>2, Parts DEF ResourceStep, Return, GrantFits, Typed, LocalsSet
      <4>4. grant' \in GrantRows
        BY <4>3 DEF GrantRows
      <4> QED BY <3>1, <4>4 DEF GrantSet, Before
    <3> QED BY <2>2, <3>1, <3>2 DEF GrantSet, Before
  <2>3. ASSUME NEW c \in Nat, NEW g \in {op.granted, op.req.stepUp}, NEW v \in Verdicts, Passes(c, g, v)
        PROVE  Advance /\ op'.req = op.req
    BY <2>3, Locals DEF Passes, Operations
  <2> QED BY <1>1, <2>1, <2>2, <2>3 DEF Checked, Decided
<1> QED BY <1>1, <1>2, <1>3, <1>4, CheckedTyped

(* After the browser acted, the operation books one thing, or fails to.      *)
LEMMA EndTyped ==
  ASSUME Typed, step # "idle", Goes, Kept,
         contexts' \in Seq(ContextRows), Len(contexts') >= Len(contexts),
         effects' \in Seq(EffectRows), page' \in Pages,
         usage' \in [Days -> Nat], grant' \in {None} \cup GrantRows,
         selected' \in {None} \cup [conn : Conns, page : Pages, amount : Sums],
         UNCHANGED <<now, policy, instrument, reader, attempts, kinds>>, GrantSet'
  PROVE  Typed'
<1>1. step' \in Steps \cup {"idle"} /\ op' \in Operations /\ LocalsSet'
  BY OpTyped
<1> QED BY <1>1 DEF Kept, Typed, TypeOK

LEMMA ExecuteTyped ==
  ASSUME Typed, Execute
  PROVE  /\ Typed' /\ step = "execute"
         /\ UNCHANGED <<now, stepUps, usage, reader, kinds>>
         /\ \/ Return /\ UNCHANGED effects
            \/ effects' = Append(effects, Effect) /\ (Proceed \/ Return)
<1>1. /\ step = "execute" /\ step # "idle"
      /\ UNCHANGED <<now, stepUps, contexts, policy, instrument, usage, grant, reader,
                    attempts, kinds>>
      /\ \/ Return /\ UNCHANGED <<page, effects>>
         \/ Moved /\ effects' = Append(effects, Effect) /\ (Proceed \/ Return)
      /\ selected' \in {None, selected}
  BY DEF Execute, brokers
<1>2. Goes
  BY <1>1 DEF Goes, Proceed
<1>3. page' \in Pages
  <2>1. page \in Pages /\ page.doc + 1 \in Nat
    BY Parts DEF Pages
  <2>2. CASE Moved
    <3>1. ASSUME NEW o \in Origins PROVE [doc |-> page.doc + 1, origin |-> o] \in Pages
      BY <2>1 DEF Pages
    <3> QED BY <2>1, <2>2, <3>1 DEF Moved
  <2> QED BY <1>1, <2>2, Parts
<1>4. effects' \in Seq(EffectRows)
  <2>1. Effect \in EffectRows /\ effects \in Seq(EffectRows)
    BY <1>1, EffectType, Parts
  <2>2. Append(effects, Effect) \in Seq(EffectRows)
    BY <2>1, AddSeq
  <2> QED BY <1>1, <2>1, <2>2
<1>5. Kept /\ contexts' \in Seq(ContextRows) /\ Len(contexts') >= Len(contexts)
  BY <1>1, SameKept, Parts
<1>6. /\ usage' \in [Days -> Nat] /\ grant' \in {None} \cup GrantRows
      /\ selected' \in {None} \cup [conn : Conns, page : Pages, amount : Sums]
  BY <1>1, Parts
<1>7. GrantSet'
  <2>1. CASE Return
    BY <2>1 DEF Return, GrantSet
  <2>2. CASE Proceed
    <3>1. /\ step' \in After /\ (step' = "grant" => op.req.kind = "upload") /\ op' = op
          /\ step' = "stepup" => op.granted # 0
          /\ step' = "record" => op.verdict # "none"
      BY <1>1, <2>2, Locals, NextStep DEF Proceed, Steps, Position
    <3> QED BY <1>1, <3>1 DEF Typed, GrantSet, After
  <2> QED BY <1>1, <2>1, <2>2
<1>8. Typed'
  BY <1>1, <1>2, <1>3, <1>4, <1>5, <1>6, <1>7, EndTyped
<1> QED BY <1>1, <1>8

(* What a step after the browser's does to what the invariants speak of: it  *)
(* books its part and goes on, or a spent step-up ends the operation.        *)
Books(s) ==
  /\ step = s /\ UNCHANGED <<now, page, policy, instrument, reader, attempts, kinds>>
  /\ contexts' \in Seq(ContextRows) /\ Len(contexts') >= Len(contexts)
  /\ grant' \in {None} \cup GrantRows
  /\ selected' \in {None} \cup [conn : Conns, page : Pages, amount : Sums]

LEMMA ConsumeGrantBooks ==
  ASSUME Typed, ConsumeGrant
  PROVE  Books("grant") /\ Proceed /\ UNCHANGED <<stepUps, effects, usage>>
<1>1. /\ step = "grant" /\ Proceed
      /\ UNCHANGED <<stepUps, contexts, policy, instrument, usage, selected, now, page, reader,
                    effects, attempts, kinds>>
      /\ grant' = IF Active THEN [grant EXCEPT !.uses = @ - 1] ELSE grant
  BY DEF ConsumeGrant, Unmoved
<1>2. grant \in GrantRows
  BY <1>1 DEF Typed, GrantSet
<1>3. CASE Active
  <2>1. grant.uses - 1 \in 0..GrantUses
    BY <1>2, <1>3, CommitAssumption DEF GrantRows, Active
  <2>2. grant' \in GrantRows
    BY <1>1, <1>2, <1>3, <2>1 DEF GrantRows
  <2> QED BY <1>1, <2>2, Parts DEF Books
<1>4. CASE ~Active
  BY <1>1, <1>2, <1>4, Parts DEF Books
<1> QED BY <1>1, <1>3, <1>4

LEMMA EvaluateBooks ==
  ASSUME Typed, EvaluateAfterOpen
  PROVE  Books("evaluate") /\ Proceed /\ UNCHANGED <<stepUps, effects, usage>>
<1> DEFINE all == Told(op.req)  id == Asked(op.req)  x == Evaluated(all[id], op.req, page.origin)
<1>1. /\ step = "evaluate" /\ step # "idle" /\ Proceed
      /\ UNCHANGED <<stepUps, policy, instrument, usage, grant, selected, now, page, reader,
                    effects, attempts, kinds>>
      /\ contexts' \in {[all EXCEPT ![id] = x], contexts}
  BY DEF EvaluateAfterOpen, Unmoved
<1>2. /\ all \in Seq(ContextRows) /\ Len(all) >= Len(contexts)
      /\ all[id] \in ContextRows /\ page.origin \in Origins
  BY <1>1, ToldTypes, Locals
<1>3. x \in ContextRows
  <2> HIDE DEF all, id
  <2> QED BY <1>2, ContextTypes
<1> HIDE DEF all, id, x
<1>4. [all EXCEPT ![id] = x] \in Seq(ContextRows) /\ Len([all EXCEPT ![id] = x]) = Len(all)
  BY <1>2, <1>3, PutSeq
<1>5. contexts' \in Seq(ContextRows) /\ Len(contexts') >= Len(contexts)
  <2> DEFINE put == [all EXCEPT ![id] = x]
  <2>1. put \in Seq(ContextRows) /\ Len(put) >= Len(contexts) /\ contexts' \in {put, contexts}
    BY <1>1, <1>2, <1>4
  <2> HIDE DEF put
  <2> QED BY <2>1, Parts
<1> QED BY <1>1, <1>5, Parts DEF Books

LEMMA ConsumeStepUpBooks ==
  ASSUME Typed, ConsumeStepUp
  PROVE  /\ Books("stepup") /\ Kept /\ UNCHANGED <<effects, usage>>
         /\ \/ /\ Proceed /\ Len(stepUps') = Len(stepUps) /\ op.granted \in DOMAIN stepUps
               /\ stepUps[op.granted].status = "approved"
               /\ stepUps'[op.granted].status = "consumed"
            \/ Return /\ UNCHANGED stepUps
<1>1. /\ step = "stepup"
      /\ UNCHANGED <<contexts, policy, instrument, usage, grant, selected, now, page, reader,
                    effects, attempts, kinds>>
      /\ \/ /\ Status(op.granted) = "approved" /\ Proceed
            /\ stepUps' = [stepUps EXCEPT ![op.granted].status = "consumed"]
         \/ Return /\ UNCHANGED stepUps
  BY DEF ConsumeStepUp, Unmoved
<1>2. Books("stepup")
  BY <1>1, Parts DEF Books
<1>3. CASE Return /\ UNCHANGED stepUps
  BY <1>1, <1>2, <1>3, SameKept
<1>4. CASE /\ Status(op.granted) = "approved" /\ Proceed
           /\ stepUps' = [stepUps EXCEPT ![op.granted].status = "consumed"]
  <2>1. op.granted \in 0..Len(stepUps) /\ stepUps \in Seq(StepUpRows)
    BY Parts DEF Typed, LocalsSet
  <2>2. stepUps[op.granted].status = "approved"
    BY <1>4 DEF Status, Expired
  <2>3. op.granted # 0
    BY <1>1 DEF Typed, GrantSet
  <2>4. op.granted \in DOMAIN stepUps
    BY <2>1, <2>3
  <2>5. "consumed" \in StepUpStatuses
    BY DEF StepUpStatuses
  <2>6. /\ Kept /\ stepUps'[op.granted].status = "consumed" /\ Len(stepUps') = Len(stepUps)
    BY <1>4, <2>2, <2>4, <2>5, StatusKept
  <2> QED BY <1>1, <1>2, <1>4, <2>2, <2>4, <2>6
<1> QED BY <1>1, <1>3, <1>4

LEMMA RecordBooks ==
  ASSUME Typed, RecordUse
  PROVE  /\ Books("record") /\ Proceed /\ Mark("recorded") /\ UNCHANGED stepUps
         /\ Commits(op.req.kind) /\ usage' \in [Days -> Nat]
         /\ usage' = Retained([usage EXCEPT ![Day(now)] = @ + op.req.amount], now)
<1>1. /\ step = "record" /\ Proceed /\ Mark("recorded") /\ Commits(op.req.kind)
      /\ UNCHANGED <<now, page, stepUps, contexts, policy, instrument, grant, reader, attempts, kinds>>
      /\ usage' = Retained([usage EXCEPT ![Day(now)] = @ + op.req.amount], now)
      /\ selected' = None
  BY DEF RecordUse
<1>2. usage' \in [Days -> Nat]
  <2>1. op.req.amount \in Nat /\ Day(now) \in Days /\ usage \in [Days -> Nat]
    BY Locals, SumsAreNaturals, Parts, DaysGrow
  <2>2. [usage EXCEPT ![Day(now)] = @ + op.req.amount] \in [Days -> Nat]
    BY <2>1
  <2> DEFINE u == [usage EXCEPT ![Day(now)] = @ + op.req.amount]
  <2>3. u \in [Days -> Nat] /\ usage' = Retained(u, now)
    BY <1>1, <2>2
  <2> HIDE DEF u
  <2> QED BY <2>3, Parts, RetainedSums
<1>3. Books("record")
  <2>1. /\ contexts' \in Seq(ContextRows) /\ Len(contexts') >= Len(contexts)
        /\ grant' \in {None} \cup GrantRows /\ selected' = None
    BY <1>1, Parts
  <2> QED BY <1>1, <2>1 DEF Books
<1> QED BY <1>1, <1>2, <1>3

LEMMA SelectBooks ==
  ASSUME Typed, SelectInstrument
  PROVE  Books("record") /\ Proceed /\ UNCHANGED <<stepUps, effects, usage>>
         /\ op.req.kind = "provide"
<1>1. /\ step = "record" /\ Proceed /\ op.req.kind = "provide"
      /\ UNCHANGED <<now, page, stepUps, contexts, policy, instrument, usage, grant, reader,
                    effects, attempts, kinds>>
      /\ selected' = [conn |-> op.conn, page |-> op.page, amount |-> op.req.amount]
  BY DEF SelectInstrument, Unmoved, brokers
<1>2. op.conn \in Conns /\ op.page \in Pages /\ op.req.amount \in Sums
  BY <1>1, Locals DEF Typed, LocalsSet, Operations
<1> QED BY <1>1, <1>2, Parts DEF Books

LEMMA ContextBooks ==
  ASSUME Typed, ConsumeContext
  PROVE  Books("context") /\ Proceed /\ UNCHANGED <<stepUps, effects, usage>>
<1> DEFINE x == Consumed(contexts[op.ctx])
<1>1. /\ step = "context" /\ Proceed
      /\ UNCHANGED <<now, page, stepUps, policy, instrument, usage, grant, selected, reader,
                    effects, attempts, kinds>>
      /\ contexts' = [contexts EXCEPT ![op.ctx] = x]
  BY DEF ConsumeContext, Unmoved
<1>2. ASSUME op.ctx \in DOMAIN contexts PROVE x \in ContextRows
  <2>1. contexts[op.ctx] \in ContextRows
    BY <1>2, Parts
  <2> QED BY <2>1, ConsumedType
<1> HIDE DEF x
<1>3. contexts' \in Seq(ContextRows) /\ Len(contexts') = Len(contexts)
  <2>1. /\ [contexts EXCEPT ![op.ctx] = x] \in Seq(ContextRows)
        /\ Len([contexts EXCEPT ![op.ctx] = x]) = Len(contexts)
    BY <1>2, Locals, PutSeq
  <2> QED BY <1>1, <2>1
<1> QED BY <1>1, <1>3, Parts DEF Books

LEMMA AnswerBooks ==
  ASSUME Typed, Answer
  PROVE  Books("answer") /\ Return /\ Mark("answered") /\ UNCHANGED <<stepUps, usage>>
  BY Parts DEF Answer, Books, brokers

Ending == \/ ConsumeGrant \/ EvaluateAfterOpen \/ ConsumeStepUp \/ RecordUse
          \/ SelectInstrument \/ ConsumeContext \/ Answer

LEMMA EndingTyped ==
  ASSUME Typed, Ending
  PROVE  Typed' /\ step \in After
<1>1. \E s \in After : Books(s)
  BY ConsumeGrantBooks, EvaluateBooks, ConsumeStepUpBooks, RecordBooks, SelectBooks,
     ContextBooks, AnswerBooks DEF Ending, After
<1>2. step \in After /\ step # "idle"
  BY <1>1 DEF Books, After
<1>3. (Proceed \/ Return) /\ Kept
  BY ConsumeGrantBooks, EvaluateBooks, ConsumeStepUpBooks, RecordBooks, SelectBooks,
     ContextBooks, AnswerBooks, SameKept DEF Ending
<1>4. usage' \in [Days -> Nat] /\ effects' \in Seq(EffectRows)
  BY ConsumeGrantBooks, EvaluateBooks, ConsumeStepUpBooks, RecordBooks, SelectBooks,
     ContextBooks, AnswerBooks, Parts, MarkRecorded, MarkAnswered DEF Ending
<1>5. GrantSet'
  <2>1. CASE Return
    BY <2>1 DEF Return, GrantSet
  <2>2. CASE Proceed
    <3>1. /\ step' # "grant" /\ step' \in After /\ op' = op /\ (step' = "stepup" => op.granted # 0)
          /\ step' = "record" => op.verdict # "none"
      BY <1>2, <2>2, Locals, NextStep DEF Proceed
    <3> QED BY <3>1 DEF GrantSet, After
  <2> QED BY <1>3, <2>1, <2>2
<1>6. Goes
  BY <1>3 DEF Goes, Proceed
<1>7. Typed'
  BY <1>1, <1>2, <1>3, <1>4, <1>5, <1>6, EndTyped, Parts DEF Books
<1> QED BY <1>2, <1>7

(* The user, the clock, observations and reads of the usage.                 *)
Environment ==
  \/ \E s \in 1..MaxStepUps : Approve(s) \/ Reject(s)
  \/ \E c \in Conns : Observe(c)
  \/ \E p \in Policies : RegisterPolicy(p)
  \/ RevokeInstrument \/ ReadUsage \/ KeepUsage \/ RegisterGrant \/ RevokeGrant \/ Tick

LEMMA DecisionKept ==
  ASSUME Typed, NEW s \in 1..MaxStepUps, Approve(s) \/ Reject(s)
  PROVE  Kept
<1>1. s \in DOMAIN stepUps /\ stepUps[s].status = "pending"
  BY DEF Approve, Reject, Status, Expired
<1>2. PICK v \in {"approved", "rejected"} : stepUps' = [stepUps EXCEPT ![s].status = v]
  BY DEF Approve, Reject
<1> QED BY <1>1, <1>2, StatusKept DEF StepUpStatuses

LEMMA EnvironmentTyped ==
  ASSUME Typed, Environment
  PROVE  Typed' /\ Kept /\ UNCHANGED <<step, op, effects>>
<1>1. ASSUME Kept, UNCHANGED <<step, op, effects, attempts, kinds, page>>,
             contexts' \in Seq(ContextRows), Len(contexts') = Len(contexts),
             now' \in 0..MaxTime, policy' \in Policies, instrument' \in {"active", "revoked"},
             usage' \in [Days -> Nat], reader' \in {None} \cup [Days -> Nat],
             grant' \in {None} \cup GrantRows, grant \in GrantRows => grant' \in GrantRows,
             UNCHANGED selected
      PROVE  Typed' /\ Kept /\ UNCHANGED <<step, op, effects>>
  <2>1. op' \in Operations /\ LocalsSet'
    BY <1>1, IdleTyped
  <2>2. GrantSet'
    BY <1>1 DEF Typed, GrantSet
  <2>3. TypeOK'
    BY <1>1, <2>1 DEF Kept, Typed, TypeOK
  <2> QED BY <1>1, <2>1, <2>2, <2>3 DEF Typed
<1>2. instrument \in {"active", "revoked"}
  BY DEF Typed, TypeOK
<1>3. ASSUME NEW s \in 1..MaxStepUps, Approve(s) \/ Reject(s)
      PROVE  Typed' /\ Kept /\ UNCHANGED <<step, op, effects>>
  <2>1. Kept
    BY <1>3, DecisionKept
  <2>2. UNCHANGED <<now, page, contexts, policy, instrument, usage, grant, reader, selected,
                    step, op, effects, attempts, kinds>>
    BY <1>3 DEF Approve, Reject
  <2> QED BY <1>1, <1>2, <2>1, <2>2, Parts
<1>4. ASSUME NEW c \in Conns, Observe(c)
      PROVE  Typed' /\ Kept /\ UNCHANGED <<step, op, effects>>
  <2> DEFINE k == Max(Latest(c))  x == Bound(Refreshed(contexts[k]), page.origin)
  <2>1. ASSUME k \in DOMAIN contexts PROVE x \in ContextRows
    <3> HIDE DEF k
    <3>1. contexts[k] \in ContextRows /\ page.origin \in Origins
      BY <2>1, Locals
    <3>2. Refreshed(contexts[k]) \in ContextRows
      BY <3>1, ContextTypes
    <3> QED BY <3>1, <3>2, ContextTypes
  <2>2. /\ contexts' = [contexts EXCEPT ![k] = x]
        /\ UNCHANGED <<now, page, stepUps, policy, instrument, usage, grant, reader, selected,
                      step, op, effects, attempts, kinds>>
    BY <1>4 DEF Observe
  <2> HIDE DEF k, x
  <2>3. contexts' \in Seq(ContextRows) /\ Len(contexts') = Len(contexts)
    <3>1. /\ [contexts EXCEPT ![k] = x] \in Seq(ContextRows)
          /\ Len([contexts EXCEPT ![k] = x]) = Len(contexts)
      BY <2>1, Locals, PutSeq
    <3> QED BY <2>2, <3>1
  <2> QED BY <1>1, <1>2, <2>2, <2>3, Parts, SameKept
<1>5. ASSUME NEW p \in Policies, RegisterPolicy(p)
      PROVE  Typed' /\ Kept /\ UNCHANGED <<step, op, effects>>
  BY <1>1, <1>2, <1>5, Parts, SameKept DEF RegisterPolicy
<1>6. CASE RevokeInstrument
  BY <1>1, <1>6, Parts, SameKept DEF RevokeInstrument
<1>7. CASE ReadUsage
  <2>1. Retained(usage, now) \in [Days -> Nat]
    BY Parts, RetainedSums
  <2>2. /\ reader' = Retained(usage, now)
        /\ UNCHANGED <<now, page, brokers, selected, step, op, effects, attempts, kinds>>
    BY <1>7 DEF ReadUsage
  <2> QED BY <1>1, <1>2, <2>1, <2>2, Parts, SameKept DEF brokers
<1>8. CASE KeepUsage
  BY <1>1, <1>2, <1>8, Parts, SameKept DEF KeepUsage
<1>9. CASE RegisterGrant
  <2>1. grant' \in GrantRows
    BY <1>9, CommitAssumption, Parts DEF RegisterGrant, GrantRows
  <2> QED BY <1>1, <1>2, <1>9, <2>1, Parts, SameKept DEF RegisterGrant
<1>10. CASE RevokeGrant
  <2>1. grant \in GrantRows /\ grant' = [grant EXCEPT !.revoked = TRUE]
    BY <1>10, Parts DEF RevokeGrant
  <2>2. grant' \in GrantRows
    BY <2>1 DEF GrantRows
  <2> QED BY <1>1, <1>2, <1>10, <2>2, Parts, SameKept DEF RevokeGrant
<1>11. CASE Tick
  <2>1. now' \in 0..MaxTime
    BY <1>11, CommitAssumption, Parts DEF Tick
  <2>2. UNCHANGED <<page, brokers, reader, selected, step, op, effects, attempts, kinds>>
    BY <1>11 DEF Tick
  <2> QED BY <1>1, <1>2, <2>1, <2>2, Parts, SameKept DEF brokers
<1> QED BY <1>3, <1>4, <1>5, <1>6, <1>7, <1>8, <1>9, <1>10, <1>11 DEF Environment

Checks == \/ ProfileStep \/ ScopeStep \/ CheckStep \/ PaymentStep
          \/ FinancialCommitStep \/ ResourceStep

Starts == \E c \in Conns, r \in Requests : Begin(c, r)

LEMMA NextCases == Next => Starts \/ Checks \/ Execute \/ Ending \/ Environment
  BY DEF Next, Starts, Checks, Ending, Environment

LEMMA NextTyped == Typed /\ [Next]_vars => Typed'
<1>1. CASE Typed /\ Starts
  BY <1>1, BeginTyped DEF Starts
<1>2. CASE Typed /\ Checks
  BY <1>2, ChecksTyped DEF Checks
<1>3. CASE Typed /\ Execute
  BY <1>3, ExecuteTyped
<1>4. CASE Typed /\ Ending
  BY <1>4, EndingTyped
<1>5. CASE Typed /\ Environment
  BY <1>5, EnvironmentTyped
<1>6. CASE Typed /\ UNCHANGED vars
  BY <1>6 DEF vars, brokers, Typed, TypeOK, LocalsSet, GrantSet
<1> QED BY <1>1, <1>2, <1>3, <1>4, <1>5, <1>6, NextCases

-----------------------------------------------------------------------------
(* Step-ups are used once.                                                   *)

(* The effects keep what the invariants speak of.                            *)
SameEffects ==
  /\ Len(effects') = Len(effects) /\ DOMAIN effects' = DOMAIN effects
  /\ \A i \in DOMAIN effects :
       /\ effects'[i].stepUp = effects[i].stepUp /\ effects'[i].answered = effects[i].answered
       /\ effects'[i].conn = effects[i].conn /\ effects'[i].page = effects[i].page
       /\ effects'[i].kind = effects[i].kind /\ effects'[i].amount = effects[i].amount
       /\ effects'[i].verdict = effects[i].verdict /\ effects'[i].day = effects[i].day

LEMMA RecordedSame == ASSUME Typed, UNCHANGED effects \/ Mark("recorded") PROVE SameEffects
<1>1. CASE UNCHANGED effects
  BY <1>1 DEF SameEffects
<1>2. CASE Mark("recorded")
  <2>1. /\ effects \in Seq(EffectRows) /\ DOMAIN effects' = DOMAIN effects
        /\ Len(effects') = Len(effects)
        /\ \A i \in DOMAIN effects :
             effects'[i] = [effects[i] EXCEPT !.recorded = effects'[i].recorded]
    BY <1>2, Parts, MarkRecorded
  <2>2. ASSUME NEW i \in DOMAIN effects
        PROVE  /\ effects'[i].stepUp = effects[i].stepUp /\ effects'[i].answered = effects[i].answered
               /\ effects'[i].conn = effects[i].conn /\ effects'[i].page = effects[i].page
               /\ effects'[i].kind = effects[i].kind /\ effects'[i].amount = effects[i].amount
               /\ effects'[i].verdict = effects[i].verdict /\ effects'[i].day = effects[i].day
    <3>1. effects[i] \in EffectRows
      BY <2>1
    <3> DEFINE v == effects'[i].recorded
    <3>2. effects'[i] = [effects[i] EXCEPT !.recorded = v]
      BY <2>1
    <3> HIDE DEF v
    <3> QED BY <3>1, <3>2 DEF EffectRows
  <2> QED BY <2>1, <2>2 DEF SameEffects
<1> QED BY <1>1, <1>2

(* Nothing that was used before is used less by a table that only grows.     *)
LEMMA SpentKept ==
  ASSUME Typed, Used, Kept, SameEffects
  PROVE  SpentOnce'
<1>1. /\ \A i \in DOMAIN effects : effects[i].stepUp \in 0..Len(stepUps)
      /\ \A i \in Answered : effects[i].stepUp # 0 => stepUps[effects[i].stepUp].status = "consumed"
      /\ \A i, j \in Answered : effects[i].stepUp # 0 /\ effects[i].stepUp = effects[j].stepUp => i = j
  BY DEF Used, SpentOnce
<1>2. Answered' = Answered /\ DOMAIN effects' = DOMAIN effects
  BY DEF SameEffects, Answered
<1>3. /\ Len(stepUps) \in Nat /\ Len(stepUps') \in Nat /\ Len(stepUps') >= Len(stepUps)
      /\ DOMAIN stepUps = 1..Len(stepUps)
  BY Parts DEF Kept
<1>4. \A i \in DOMAIN effects' : effects'[i].stepUp \in 0..Len(stepUps')
  BY <1>1, <1>2, <1>3 DEF SameEffects
<1>5. ASSUME NEW i \in Answered', effects'[i].stepUp # 0
      PROVE  stepUps'[effects'[i].stepUp].status = "consumed"
  <2>1. i \in DOMAIN effects /\ i \in Answered /\ effects'[i].stepUp = effects[i].stepUp
    BY <1>2, <1>5 DEF SameEffects, Answered
  <2>2. effects[i].stepUp \in DOMAIN stepUps /\ stepUps[effects[i].stepUp].status = "consumed"
    BY <1>1, <1>3, <1>5, <2>1
  <2> QED BY <2>1, <2>2 DEF Kept
<1>6. \A i, j \in Answered' :
        effects'[i].stepUp # 0 /\ effects'[i].stepUp = effects'[j].stepUp => i = j
  BY <1>1, <1>2 DEF SameEffects, Answered
<1> QED BY <1>4, <1>5, <1>6 DEF SpentOnce

LEMMA ExecuteUsed == ASSUME Typed, Used, Execute PROVE Used'
<1>1. /\ step = "execute" /\ UNCHANGED stepUps /\ effects \in Seq(EffectRows)
      /\ \/ Return /\ UNCHANGED effects
         \/ effects' = Append(effects, Effect) /\ (Proceed \/ Return)
  BY ExecuteTyped, Parts
<1>2. CASE Return /\ UNCHANGED effects
  <2>1. SpentOnce'
    BY <1>1, <1>2, SameKept, RecordedSame, SpentKept
  <2> QED BY <1>2, <2>1 DEF Return, Used, OwnEffect, After
<1>3. CASE effects' = Append(effects, Effect) /\ (Proceed \/ Return)
  <2> DEFINE n == Len(effects) + 1
  <2>1. /\ Effect \in EffectRows /\ Effect.stepUp = op.granted /\ Effect.answered = FALSE
    BY <1>1, EffectType DEF Effect
  <2>2. /\ Len(effects) \in Nat /\ DOMAIN effects = 1..Len(effects) /\ DOMAIN effects' = 1..n
        /\ Len(effects') = n /\ effects'[n] = Effect
        /\ \A i \in 1..Len(effects) : effects'[i] = effects[i]
    BY <1>1, <1>3, <2>1, AddSeq
  <2>3. Answered' = Answered /\ \A i \in Answered : i \in 1..Len(effects)
    BY <2>1, <2>2 DEF Answered
  <2>4. SpentOnce'
    <3>1. \A i \in DOMAIN effects' : effects'[i].stepUp \in 0..Len(stepUps')
      <4>1. op.granted \in 0..Len(stepUps)
        BY DEF Typed, LocalsSet
      <4> QED BY <1>1, <2>1, <2>2, <4>1 DEF Used, SpentOnce
    <3> QED BY <1>1, <2>2, <2>3, <3>1 DEF Used, SpentOnce
  <2>5. OwnEffect'
    <3>1. CASE Return
      BY <3>1 DEF Return, OwnEffect, After
    <3>2. CASE Proceed
      <4>1. /\ op' = op /\ (op.granted # 0 => step' \in {"grant", "evaluate", "stepup"})
        BY <1>1, <3>2, Locals, NextStep DEF Proceed, Steps, Position
      <4> QED BY <2>1, <2>2, <4>1 DEF OwnEffect
    <3> QED BY <1>3, <3>1, <3>2
  <2> QED BY <2>4, <2>5 DEF Used
<1> QED BY <1>1, <1>2, <1>3

(* A step after the browser's that spends no step-up.                        *)
LEMMA BooksUsed ==
  ASSUME Typed, Used, step \in After \ {"stepup", "answer"}, Proceed, UNCHANGED stepUps,
         UNCHANGED effects \/ Mark("recorded")
  PROVE  Used'
<1>1. SameEffects /\ SpentOnce'
  BY SameKept, RecordedSame, SpentKept
<1>2. Answered' = Answered /\ Len(effects) \in Nat /\ DOMAIN effects = 1..Len(effects)
  BY <1>1, Parts DEF SameEffects, Answered
<1>3. /\ op' = op
      /\ step \in {"grant", "evaluate"} /\ op.granted # 0 => step' \in {"grant", "evaluate", "stepup"}
      /\ step \in {"record", "context"} => step' \in {"context", "answer"}
  BY Locals, NextStep DEF Proceed, Steps, Position, After
<1>4. OwnEffect'
  BY <1>1, <1>2, <1>3 DEF Used, OwnEffect, SameEffects, Answered, After
<1> QED BY <1>1, <1>4 DEF Used

LEMMA StepUpUsed == ASSUME Typed, Used, ConsumeStepUp PROVE Used'
<1>1. /\ step = "stepup" /\ Kept /\ UNCHANGED effects
      /\ \/ /\ Proceed /\ op.granted \in DOMAIN stepUps
            /\ stepUps[op.granted].status = "approved" /\ stepUps'[op.granted].status = "consumed"
         \/ Return
  BY ConsumeStepUpBooks DEF Books
<1>2. SpentOnce' /\ Answered' = Answered
  BY <1>1, RecordedSame, SpentKept DEF Answered
<1>3. CASE Return
  BY <1>2, <1>3 DEF Return, Used, OwnEffect, After
<1>4. CASE /\ Proceed /\ op.granted \in DOMAIN stepUps
           /\ stepUps[op.granted].status = "approved" /\ stepUps'[op.granted].status = "consumed"
  <2>1. \A i \in Answered : effects[i].stepUp # op.granted
    <3>1. op.granted # 0
      BY <1>4, Parts
    <3> QED BY <1>4, <3>1 DEF Used, SpentOnce
  <2>2. OwnEffect'
    BY <1>1, <1>2, <1>4, <2>1 DEF Proceed, Used, OwnEffect, After
  <2> QED BY <1>2, <2>2 DEF Used
<1> QED BY <1>1, <1>3, <1>4

LEMMA AnswerUsed == ASSUME Typed, Used, Answer PROVE Used'
<1>1. step = "answer" /\ Return /\ Mark("answered") /\ UNCHANGED stepUps
  BY AnswerBooks DEF Books
<1> DEFINE n == Len(effects)
<1>2. /\ n \in DOMAIN effects /\ effects[n].stepUp = op.granted
      /\ op.granted # 0 => /\ stepUps[op.granted].status = "consumed"
                           /\ \A i \in Answered : effects[i].stepUp # op.granted
  BY <1>1, Parts DEF Used, OwnEffect, After
<1>3. DOMAIN effects' = DOMAIN effects /\ effects \in Seq(EffectRows)
  BY <1>1, MarkAnswered, Parts
<1>4. ASSUME NEW i \in DOMAIN effects
      PROVE  /\ effects'[i].stepUp = effects[i].stepUp
             /\ effects'[i].answered = (i = n \/ effects[i].answered)
  <2>1. effects[i] \in EffectRows
    BY <1>3
  <2> DEFINE v == (i = n \/ effects[i].answered)
  <2>2. effects'[i] = [effects[i] EXCEPT !.answered = v]
    BY <1>1, MarkAnswered
  <2> HIDE DEF v
  <2>3. effects'[i].stepUp = effects[i].stepUp /\ effects'[i].answered = v
    BY <2>1, <2>2 DEF EffectRows
  <2> QED BY <2>3 DEF v
<1>5. Answered' = Answered \cup {n}
  BY <1>2, <1>3, <1>4 DEF Answered
<1>6. SpentOnce'
  BY <1>1, <1>2, <1>3, <1>4, <1>5 DEF Used, SpentOnce, Answered
<1> QED BY <1>1, <1>6 DEF Return, Used, OwnEffect, After

LEMMA NextUsed == Typed /\ Used /\ [Next]_vars => Used'
<1> SUFFICES ASSUME Typed, Used, [Next]_vars PROVE Used'
  OBVIOUS
<1>1. ASSUME Kept, UNCHANGED effects, step' \notin After PROVE Used'
  BY <1>1, RecordedSame, SpentKept DEF Used, OwnEffect
<1>2. CASE Starts
  <2>1. UNCHANGED <<stepUps, effects>> /\ step' = "profile"
    BY <1>2 DEF Starts, Begin, brokers
  <2> QED BY <1>1, <2>1, SameKept DEF After
<1>3. CASE Checks
  <2>1. Checked /\ UNCHANGED effects
    BY <1>3, ChecksTyped DEF Checks, Unmoved
  <2>2. step' \notin After
    BY <2>1, Locals, NextStep DEF Checked, Decided, Return, Passes, Before, After, Steps, Position
  <2> QED BY <1>1, <2>1, <2>2 DEF Checked
<1>4. CASE Ending
  BY <1>4, ConsumeGrantBooks, EvaluateBooks, RecordBooks, SelectBooks, ContextBooks,
     BooksUsed, StepUpUsed, AnswerUsed DEF Ending, Books, After
<1>5. ASSUME Kept, UNCHANGED <<step, op, effects>> PROVE Used'
  <2>1. SpentOnce' /\ Answered' = Answered
    BY <1>5, RecordedSame, SpentKept DEF Answered
  <2>2. stepUps[op.granted].status = "consumed" /\ op.granted # 0
          => stepUps'[op.granted].status = "consumed"
    BY <1>5, Parts DEF Kept, Typed, LocalsSet
  <2> QED BY <1>5, <2>1, <2>2 DEF Used, OwnEffect
<1>6. CASE Environment
  BY <1>5, <1>6, EnvironmentTyped
<1>7. CASE UNCHANGED vars
  BY <1>5, <1>7, SameKept DEF vars, brokers
<1> QED BY <1>2, <1>3, <1>4, <1>6, <1>7, ExecuteUsed, NextCases

-----------------------------------------------------------------------------
(* What is escalated was approved.                                           *)

LEMMA ApprovedKept ==
  ASSUME Kept, NEW s \in DOMAIN stepUps
  PROVE  /\ s \in DOMAIN stepUps' /\ stepUps'[s].binding = stepUps[s].binding
         /\ stepUps[s].status \in {"approved", "consumed"}
              => stepUps'[s].status \in {"approved", "consumed"}
  BY DEF Kept

(* The operation keeps its request, and the step-up it has or is granted.    *)
LEMMA PassesFits ==
  ASSUME Typed, GrantedFits, Checked, NEW c \in Nat, NEW g \in {op.granted, op.req.stepUp},
         NEW v \in Verdicts, Passes(c, g, v)
  PROVE  GrantedFits'
<1>1. /\ op'.granted = g /\ op'.conn = op.conn /\ op'.page = op.page /\ op'.req = op.req
      /\ op'.verdict = v
  BY Locals DEF Passes, Operations
<1>2. /\ step \in Before /\ Kept /\ step' \in (Before \cup {"execute"}) \ {"profile"}
  BY Locals, NextStep DEF Checked, Passes, Before, Steps, Position
<1>3. g # 0 => ApprovedFor(g, op.conn, op.page, op.req.kind)
  BY DEF GrantedFits, Passes
<1>4. op.req.kind = "change" => g # 0
  BY <1>2 DEF GrantedFits, Passes, Before
<1>5. v \in Escalations => g # 0 /\ AskedFor(g, v, op.req.amount)
  BY DEF GrantedFits, Passes, Judged
<1>6. v = "allow" /\ Commits(op.req.kind) => ~Dear(op.req.amount)
  BY DEF GrantedFits, Passes, Judged
<1>7. g # 0 => /\ g \in DOMAIN stepUps' /\ stepUps'[g].status \in {"approved", "consumed"}
               /\ stepUps'[g].binding = stepUps[g].binding
  BY <1>2, <1>3, ApprovedKept DEF ApprovedFor
<1>8. g # 0 => ApprovedFor(op.granted, op.conn, op.page, op.req.kind)'
  BY <1>1, <1>3, <1>7 DEF ApprovedFor
<1>9. v \in Escalations => AskedFor(op.granted, op.verdict, op.req.amount)'
  BY <1>1, <1>5, <1>7 DEF AskedFor
<1> QED BY <1>1, <1>4, <1>5, <1>6, <1>8, <1>9 DEF GrantedFits, Dear

LEMMA ReturnFits == ASSUME Return PROVE GrantedFits'
  BY DEF Return, GrantedFits, NoOp, NoReq, Escalations

(* The operation keeps its locals, and is past the checks if it was before.  *)
LEMMA SameFits ==
  ASSUME Typed, GrantedFits, Kept, UNCHANGED op,
         step' = step \/ (step \in {"execute"} \cup After /\ step' \in After)
  PROVE  GrantedFits'
<1>1. op.granted # 0 =>
        /\ op.granted \in DOMAIN stepUps /\ op.granted \in DOMAIN stepUps'
        /\ stepUps'[op.granted].status \in {"approved", "consumed"}
        /\ stepUps'[op.granted].binding = stepUps[op.granted].binding
  BY ApprovedKept DEF GrantedFits, ApprovedFor
<1>2. step' \notin {"idle", "profile"} => step \notin {"idle", "profile"}
  BY DEF After
<1> QED BY <1>1, <1>2 DEF GrantedFits, ApprovedFor, AskedFor, Dear

LEMMA EffectsFit ==
  ASSUME Typed, Escalated, Kept, SameEffects
  PROVE  \A i \in DOMAIN effects' : EffectFits(effects[i])'
<1> SUFFICES ASSUME NEW i \in DOMAIN effects' PROVE EffectFits(effects[i])'
  OBVIOUS
<1>1. i \in DOMAIN effects /\ EffectFits(effects[i])
  BY DEF SameEffects, Escalated
<1>2. /\ effects'[i].stepUp = effects[i].stepUp
      /\ effects'[i].conn = effects[i].conn /\ effects'[i].page = effects[i].page
      /\ effects'[i].kind = effects[i].kind /\ effects'[i].amount = effects[i].amount
      /\ effects'[i].verdict = effects[i].verdict
  BY <1>1 DEF SameEffects
<1>3. effects[i].stepUp \in DOMAIN stepUps =>
        /\ effects[i].stepUp \in DOMAIN stepUps'
        /\ stepUps'[effects[i].stepUp].binding = stepUps[effects[i].stepUp].binding
        /\ stepUps[effects[i].stepUp].status \in {"approved", "consumed"}
             => stepUps'[effects[i].stepUp].status \in {"approved", "consumed"}
  BY ApprovedKept
<1> QED BY <1>1, <1>2, <1>3 DEF EffectFits, ApprovedFor, AskedFor, Dear

LEMMA ExecuteEscalated == ASSUME Typed, Escalated, Execute PROVE Escalated'
<1>1. /\ step = "execute" /\ UNCHANGED stepUps /\ effects \in Seq(EffectRows) /\ Kept
      /\ \/ Return /\ UNCHANGED effects
         \/ effects' = Append(effects, Effect) /\ (Proceed \/ Return)
  BY ExecuteTyped, SameKept, Parts
<1>2. GrantedFits'
  <2>1. CASE Return
    BY <2>1, ReturnFits
  <2>2. CASE Proceed
    <3>1. op' = op /\ step' \in After
      BY <1>1, <2>2, Locals, NextStep DEF Proceed, Steps, Position
    <3> QED BY <1>1, <3>1, SameFits DEF Escalated
  <2> QED BY <1>1, <2>1, <2>2
<1>3. CASE UNCHANGED effects
  BY <1>1, <1>2, <1>3, EffectsFit DEF SameEffects, Escalated
<1>4. CASE effects' = Append(effects, Effect)
  <2> DEFINE n == Len(effects) + 1
  <2>1. /\ Effect \in EffectRows /\ Effect.stepUp = op.granted /\ Effect.conn = op.conn
        /\ Effect.kind = op.req.kind /\ Effect.page = op.page /\ Effect.amount = op.req.amount
        /\ Effect.verdict = op.verdict
    BY <1>1, EffectType DEF Effect
  <2>2. /\ Len(effects) \in Nat /\ DOMAIN effects = 1..Len(effects) /\ DOMAIN effects' = 1..n
        /\ effects'[n] = Effect /\ \A i \in 1..Len(effects) : effects'[i] = effects[i]
    BY <1>1, <1>4, <2>1, AddSeq
  <2>3. EffectFits(Effect)
    <3>1. GrantedFits /\ step \notin {"idle", "profile"}
      BY <1>1 DEF Escalated
    <3> QED BY <2>1, <3>1 DEF EffectFits, GrantedFits
  <2>4. ASSUME NEW i \in DOMAIN effects' PROVE EffectFits(effects[i])'
    <3>1. CASE i = n
      <4>1. effects'[i] = Effect
        BY <2>2, <3>1
      <4> QED BY <1>1, <2>3, <4>1, Zenon DEF EffectFits, ApprovedFor, AskedFor, Dear
    <3>2. CASE i \in 1..Len(effects)
      <4>1. EffectFits(effects[i]) /\ effects'[i] = effects[i]
        BY <2>2, <3>2 DEF Escalated
      <4> QED BY <1>1, <4>1, Zenon DEF EffectFits, ApprovedFor, AskedFor, Dear
    <3> QED BY <2>2, <2>4, <3>1, <3>2
  <2> QED BY <1>2, <2>4 DEF Escalated
<1> QED BY <1>1, <1>3, <1>4

(* An answer changes no field the approval is about.                         *)
LEMMA AnsweredFit ==
  ASSUME Typed, Escalated, Kept, Mark("answered")
  PROVE  \A i \in DOMAIN effects' : EffectFits(effects[i])'
<1> SUFFICES ASSUME NEW i \in DOMAIN effects' PROVE EffectFits(effects[i])'
  OBVIOUS
<1>1. i \in DOMAIN effects /\ EffectFits(effects[i]) /\ effects[i] \in EffectRows
  BY MarkAnswered, Parts DEF Escalated
<1> DEFINE v == (i = Len(effects) \/ effects[i].answered)
<1>2. effects'[i] = [effects[i] EXCEPT !.answered = v]
  BY <1>1, MarkAnswered
<1> HIDE DEF v
<1>3. /\ effects'[i].stepUp = effects[i].stepUp
      /\ effects'[i].conn = effects[i].conn /\ effects'[i].page = effects[i].page
      /\ effects'[i].kind = effects[i].kind /\ effects'[i].amount = effects[i].amount
      /\ effects'[i].verdict = effects[i].verdict
  BY <1>1, <1>2 DEF EffectRows
<1>4. effects[i].stepUp \in DOMAIN stepUps =>
        /\ effects[i].stepUp \in DOMAIN stepUps'
        /\ stepUps'[effects[i].stepUp].binding = stepUps[effects[i].stepUp].binding
        /\ stepUps[effects[i].stepUp].status \in {"approved", "consumed"}
             => stepUps'[effects[i].stepUp].status \in {"approved", "consumed"}
  BY ApprovedKept
<1> QED BY <1>1, <1>3, <1>4 DEF EffectFits, ApprovedFor, AskedFor, Dear

LEMMA NextEscalated == Typed /\ Escalated /\ [Next]_vars => Escalated'
<1> SUFFICES ASSUME Typed, Escalated, [Next]_vars PROVE Escalated'
  OBVIOUS
<1>1. ASSUME Kept, GrantedFits', UNCHANGED effects \/ Mark("recorded") \/ Mark("answered")
      PROVE  Escalated'
  BY <1>1, RecordedSame, EffectsFit, AnsweredFit DEF Escalated
<1>2. CASE Starts
  <2>1. PICK c \in Conns, r \in Requests : Begin(c, r)
    BY <1>2 DEF Starts
  <2>2. /\ op'.granted = 0 /\ op'.verdict = "none" /\ step' = "profile"
        /\ UNCHANGED <<stepUps, effects>>
    BY <2>1, BeginTyped DEF Begin, brokers, NoOp
  <2>3. GrantedFits'
    BY <2>2 DEF GrantedFits, Escalations
  <2> QED BY <1>1, <2>2, <2>3, SameKept
<1>3. CASE Checks
  <2>1. Checked /\ UNCHANGED effects
    BY <1>3, ChecksTyped DEF Checks, Unmoved
  <2>2. GrantedFits'
    BY <2>1, PassesFits, ReturnFits DEF Checked, Decided, Escalated
  <2> QED BY <1>1, <2>1, <2>2 DEF Checked
<1>4. CASE Ending
  <2>1. /\ Kept /\ step \in After /\ (Proceed \/ Return)
        /\ UNCHANGED effects \/ Mark("recorded") \/ Mark("answered")
    BY <1>4, EndingTyped, ConsumeGrantBooks, EvaluateBooks, ConsumeStepUpBooks, RecordBooks,
       SelectBooks, ContextBooks, AnswerBooks, SameKept DEF Ending
  <2>2. CASE Proceed
    <3>1. op' = op /\ step' \in After
      BY <2>1, <2>2, Locals, NextStep DEF Proceed, After, Steps, Position
    <3>2. GrantedFits'
      BY <2>1, <3>1, SameFits DEF Escalated
    <3> QED BY <1>1, <2>1, <3>2
  <2> QED BY <1>1, <2>1, <2>2, ReturnFits
<1>5. CASE Environment
  BY <1>1, <1>5, EnvironmentTyped, SameFits DEF Escalated
<1>6. CASE UNCHANGED vars
  BY <1>1, <1>6, SameKept, SameFits DEF Escalated, vars, brokers
<1> QED BY <1>2, <1>3, <1>4, <1>5, <1>6, ExecuteEscalated, NextCases

-----------------------------------------------------------------------------
(* What was done keeps the verdict of the operation that did it.             *)

LEMMA DaysPass == ASSUME Typed, Typed', now' = now \/ now' = now + 1
                  PROVE Day(now) \in Int /\ Day(now') \in Int /\ Day(now) <= Day(now')
<1>1. now \in 0..MaxTime /\ now' \in 0..MaxTime /\ now' >= now
  BY DEF Typed, TypeOK
<1> QED BY <1>1, DaysGrow

LEMMA NextOwnVerdict == Typed /\ Used /\ OwnVerdict /\ [Next]_vars => OwnVerdict'
<1> SUFFICES ASSUME Typed, Used, OwnVerdict, [Next]_vars, step' \in After PROVE OwnVerdict'
  BY DEF OwnVerdict
<1>1. Typed'
  BY NextTyped
<1>2. CASE SameEffects /\ UNCHANGED op /\ step \in After /\ (now' = now \/ now' = now + 1)
  <2> DEFINE n == Len(effects)
  <2>1. n \in DOMAIN effects /\ effects[n].verdict = op.verdict /\ effects[n].day <= Day(now)
    BY <1>2 DEF OwnVerdict
  <2>2. /\ Len(effects') = n /\ n \in DOMAIN effects'
        /\ effects'[n].verdict = effects[n].verdict /\ effects'[n].day = effects[n].day
    BY <1>2, <2>1 DEF SameEffects
  <2>3. effects[n].day \in Days
    <3>1. effects[n] \in EffectRows
      BY <2>1, Parts
    <3> QED BY <3>1 DEF EffectRows
  <2>4. effects[n].day \in Int
    BY <2>3 DEF Days
  <2>5. Day(now) \in Int /\ Day(now') \in Int /\ Day(now) <= Day(now')
    BY <1>1, <1>2, DaysPass
  <2> HIDE DEF n
  <2> QED BY <1>2, <2>1, <2>2, <2>4, <2>5 DEF OwnVerdict, n
<1>3. CASE Execute
  <2>1. /\ step = "execute" /\ UNCHANGED now /\ (Return \/ UNCHANGED op)
        /\ (Return /\ UNCHANGED effects) \/ effects' = Append(effects, Effect)
    BY <1>3, ExecuteTyped DEF Proceed
  <2>2. ~Return
    BY DEF Return, After
  <2>3. Effect \in EffectRows /\ Effect.verdict = op.verdict /\ Effect.day = Day(now)
    BY <2>1, EffectType DEF Effect
  <2>4. effects \in Seq(EffectRows) /\ effects' = Append(effects, Effect)
    BY <2>1, <2>2, Parts
  <2>5. Len(effects') \in DOMAIN effects' /\ effects'[Len(effects')] = Effect
    BY <2>3, <2>4, AddSeq
  <2>6. Day(now) \in Int
    BY <1>1, <2>1, DaysPass
  <2> QED BY <2>1, <2>2, <2>3, <2>5, <2>6 DEF OwnVerdict
<1>4. CASE Ending
  <2>1. /\ step \in After /\ UNCHANGED now /\ (Return \/ UNCHANGED op)
        /\ UNCHANGED effects \/ Mark("recorded") \/ Return
    BY <1>4, EndingTyped, ConsumeGrantBooks, EvaluateBooks, ConsumeStepUpBooks, RecordBooks,
       SelectBooks, ContextBooks, AnswerBooks DEF Ending, Proceed, Books
  <2>2. ~Return
    BY DEF Return, After
  <2> QED BY <1>2, <2>1, <2>2, RecordedSame
<1>5. CASE Checks
  <2>1. Checked
    BY <1>5, ChecksTyped DEF Checks
  <2>2. step' \notin After
    BY <2>1, Locals, NextStep DEF Checked, Decided, Passes, Return, Before, After, Steps, Position
  <2> QED BY <2>2
<1>6. CASE Starts
  <2>1. step' = "profile"
    BY <1>6 DEF Starts, Begin
  <2> QED BY <2>1 DEF After
<1>7. CASE Environment
  <2>1. UNCHANGED <<effects, step, op>> /\ (now' = now \/ now' = now + 1)
    BY <1>7, EnvironmentTyped DEF Environment, Approve, Reject, Observe, RegisterPolicy,
       RevokeInstrument, ReadUsage, KeepUsage, RegisterGrant, RevokeGrant, Tick
  <2> QED BY <1>2, <2>1, RecordedSame
<1>8. CASE UNCHANGED vars
  BY <1>2, <1>8, RecordedSame DEF vars
<1> QED BY <1>3, <1>4, <1>5, <1>6, <1>7, <1>8, NextCases

-----------------------------------------------------------------------------
(* What is booked stays within a limit.                                      *)

(* What was booked beyond the limits is not forgotten.                       *)
Excuses == \A d \in Days : Unlimited(d)' = {} => Unlimited(d) = {}

LEMMA NextExcuses == ASSUME Typed, Used, [Next]_vars PROVE Excuses
<1>1. CASE UNCHANGED effects
  BY <1>1 DEF Excuses, Unlimited
<1>2. CASE Mark("recorded")
  <2> DEFINE n == Len(effects)  row == [effects[n] EXCEPT !.recorded = TRUE]
  <2>1. effects \in Seq(EffectRows) /\ effects' = [effects EXCEPT ![n] = row]
    BY <1>2, Parts DEF Mark
  <2>2. \A i \in DOMAIN effects : i # n => effects'[i] = effects[i]
    BY <2>1
  <2>3. ASSUME n \in DOMAIN effects
        PROVE  /\ effects'[n].recorded /\ effects'[n].verdict = effects[n].verdict
               /\ effects'[n].day = effects[n].day
    <3>1. effects[n] \in EffectRows /\ effects'[n] = row
      BY <2>1, <2>3
    <3> HIDE DEF n
    <3>2. row.recorded /\ row.verdict = effects[n].verdict /\ row.day = effects[n].day
      BY <3>1 DEF EffectRows
    <3> QED BY <3>1, <3>2
  <2>4. DOMAIN effects' = DOMAIN effects
    BY <2>1
  <2> HIDE DEF n, row
  <2>5. \A d \in Days, i \in DOMAIN effects : i \in Unlimited(d) => i \in Unlimited(d)'
    BY <2>2, <2>3, <2>4 DEF Unlimited
  <2>6. \A d \in Days : Unlimited(d) \subseteq DOMAIN effects
    BY DEF Unlimited
  <2> QED BY <2>5, <2>6 DEF Excuses
<1>3. CASE Mark("answered")
  <2>1. DOMAIN effects' = DOMAIN effects
    BY <1>3, MarkAnswered
  <2>2. ASSUME NEW i \in DOMAIN effects
        PROVE  /\ effects'[i].recorded = effects[i].recorded
               /\ effects'[i].verdict = effects[i].verdict /\ effects'[i].day = effects[i].day
    <3>1. effects[i] \in EffectRows
      BY Parts
    <3> DEFINE v == (i = Len(effects) \/ effects[i].answered)
    <3>2. effects'[i] = [effects[i] EXCEPT !.answered = v]
      BY <1>3, MarkAnswered
    <3> HIDE DEF v
    <3> QED BY <3>1, <3>2 DEF EffectRows
  <2> QED BY <2>1, <2>2 DEF Excuses, Unlimited
<1>4. CASE Execute /\ effects' = Append(effects, Effect)
  <2>1. step # "idle" /\ effects \in Seq(EffectRows)
    BY <1>4, Parts DEF Execute
  <2>2. Effect \in EffectRows
    BY <2>1, EffectType
  <2>3. \A i \in DOMAIN effects : i \in DOMAIN effects' /\ effects'[i] = effects[i]
    BY <1>4, <2>1, <2>2, AddSeq
  <2> QED BY <2>3 DEF Excuses, Unlimited
<1>5. UNCHANGED effects \/ Mark("recorded") \/ Mark("answered")
        \/ (Execute /\ effects' = Append(effects, Effect))
  <2>1. Starts \/ Environment \/ UNCHANGED vars => UNCHANGED effects
    BY EnvironmentTyped DEF Starts, Begin, vars
  <2>2. Checks => UNCHANGED effects
    BY ChecksTyped DEF Checks, Unmoved
  <2>3. Execute => UNCHANGED effects \/ effects' = Append(effects, Effect)
    BY ExecuteTyped
  <2>4. Ending => UNCHANGED effects \/ Mark("recorded") \/ Mark("answered")
    BY EndingTyped, ConsumeGrantBooks, EvaluateBooks, ConsumeStepUpBooks, RecordBooks,
       SelectBooks, ContextBooks, AnswerBooks DEF Ending
  <2> QED BY <2>1, <2>2, <2>3, <2>4, NextCases
<1> QED BY <1>1, <1>2, <1>3, <1>4, <1>5

(* The parts of Booked, one by one.                                          *)
LEMMA BookedParts ==
  ASSUME Typed, Booked, NEW d \in Days
  PROVE  /\ usage[d] \in Nat /\ Within(d, usage[d])
         /\ d > Day(now) => usage[d] = 0
         /\ reader # None => /\ reader[d] \in Nat /\ Within(d, reader[d])
                             /\ d >= Day(now) => reader[d] <= usage[d]
<1>1. usage \in [Days -> Nat] /\ (reader # None => reader \in [Days -> Nat])
  BY Parts
<1> QED BY <1>1 DEF Booked, RecordedWithinLimit, Within

(* A smaller sum is within the limit too, and stays there.                   *)
LEMMA WithinKept ==
  ASSUME Excuses, NEW d \in Days, NEW m \in Nat, NEW n \in Nat, m <= n, Within(d, n)
  PROVE  Within(d, m)'
<1>1. \A p \in Policies : p.daily \in Nat
  BY CommitAssumption
<1> QED BY <1>1 DEF Within, Excuses

(* Where the operation's amount still fits.                                  *)
StillFits ==
  \/ UNCHANGED <<step, op>>
  \/ op'.verdict \notin LimitVerdicts \/ step' \in {"context", "answer"}
  \/ step \notin {"context", "answer"} /\ op'.req = op.req /\ op'.verdict = op.verdict

(* The next state, where no day of now or later has more than before.        *)
LEMMA LessBooked ==
  ASSUME Typed, Typed', Booked, Excuses, now' = now \/ now' = now + 1, reader' \in {reader, None},
         \A d \in Days : /\ Within(d, usage[d])'
                         /\ d >= Day(now) => usage'[d] <= usage[d],
         reader' # None => usage' = usage, StillFits
  PROVE  Booked'
<1>1. /\ usage \in [Days -> Nat] /\ usage' \in [Days -> Nat]
      /\ now \in 0..MaxTime /\ now' \in 0..MaxTime /\ now' >= now
  <2>1. now' \in 0..MaxTime /\ usage' \in [Days -> Nat]
    BY DEF Typed, TypeOK
  <2> QED BY <2>1, Parts
<1>2. Day(now) \in Nat /\ Day(now') \in Nat /\ Day(now') >= Day(now)
  BY <1>1, DaysGrow
<1>3. \A d \in Days : d \in Int
  BY DEF Days
<1>4. \A d \in Days : d > Day(now') => usage'[d] = 0
  <2> SUFFICES ASSUME NEW d \in Days, d > Day(now') PROVE usage'[d] = 0
    OBVIOUS
  <2>1. usage[d] = 0 /\ usage'[d] <= usage[d]
    BY <1>2, <1>3, BookedParts
  <2> QED BY <1>1, <2>1
<1>5. ASSUME reader' # None, NEW d \in Days
      PROVE  /\ Within(d, reader[d])'
             /\ d >= Day(now') => reader'[d] <= usage'[d]
  <2>1. reader' = reader /\ reader # None /\ usage' = usage
    BY <1>5
  <2>2. reader[d] \in Nat /\ Within(d, reader[d]) /\ (d >= Day(now) => reader[d] <= usage[d])
    BY <2>1, BookedParts
  <2>3. Within(d, reader[d])'
    BY <2>1, <2>2, WithinKept
  <2> QED BY <1>2, <1>3, <2>1, <2>2, <2>3
<1>6. ASSUME step' \notin {"context", "answer"}, op'.verdict \in LimitVerdicts,
             Commits(op'.req.kind), NEW d \in Days, d >= Day(now')
      PROVE  \E p \in Policies : usage'[d] + op'.req.amount <= p.daily
  <2>1. op'.req = op.req /\ op'.verdict = op.verdict /\ step \notin {"context", "answer"}
    BY <1>6 DEF StillFits
  <2>2. d >= Day(now)
    BY <1>2, <1>3, <1>6
  <2>3. PICK p \in Policies : usage[d] + op.req.amount <= p.daily
    BY <1>6, <2>1, <2>2 DEF Booked
  <2>4. /\ usage'[d] <= usage[d] /\ usage'[d] \in Nat /\ usage[d] \in Nat
        /\ op.req.amount \in Nat /\ p.daily \in Nat
    BY <1>1, <2>2, Locals, SumsAreNaturals, CommitAssumption
  <2> QED BY <2>1, <2>3, <2>4
<1>7. RecordedWithinLimit'
  BY DEF RecordedWithinLimit, Within
<1> QED BY <1>4, <1>5, <1>6, <1>7 DEF Booked

LEMMA SameBooked ==
  ASSUME Typed, Typed', Booked, Excuses, UNCHANGED <<now, usage, reader>>, StillFits
  PROVE  Booked'
<1>1. ASSUME NEW d \in Days
      PROVE  Within(d, usage[d])' /\ (d >= Day(now) => usage'[d] <= usage[d])
  <2>1. usage[d] \in Nat /\ Within(d, usage[d])
    BY BookedParts
  <2>2. Within(d, usage[d])'
    BY <2>1, WithinKept
  <2> QED BY <2>1, <2>2
<1> QED BY <1>1, LessBooked

(* The authorized amount fits today, and on the days nothing is booked on.   *)
LEMMA PaymentBooked ==
  ASSUME Typed, Typed', Booked, Excuses, UNCHANGED <<now, usage, reader>>, op'.req = op.req,
         Commits(op.req.kind) => usage[Day(now)] + op.req.amount <= policy.daily
  PROVE  Booked'
<1>1. /\ usage \in [Days -> Nat] /\ op.req.amount \in Nat /\ Day(now) \in Days
      /\ policy \in Policies /\ policy.daily \in Nat
  BY Parts, Locals, SumsAreNaturals, DaysGrow, CommitAssumption
<1>2. ASSUME Commits(op.req.kind), NEW d \in Days, d >= Day(now)
      PROVE  usage[d] + op.req.amount <= policy.daily
  <2>1. CASE d = Day(now)
    BY <1>2, <2>1
  <2>2. CASE d # Day(now)
    <3>1. d \in Int /\ Day(now) \in Int
      BY <1>1 DEF Days
    <3>2. usage[d] = 0
      BY <1>2, <2>2, <3>1, BookedParts
    <3>3. usage[Day(now)] \in Nat
      BY <1>1
    <3> QED BY <1>1, <1>2, <3>2, <3>3
  <2> QED BY <2>1, <2>2
<1>3. \A d \in Days : d >= Day(now') =>
        (Commits(op'.req.kind) => \E p \in Policies : usage'[d] + op'.req.amount <= p.daily)
  BY <1>1, <1>2
<1>4. ASSUME NEW d \in Days
      PROVE  /\ Within(d, usage[d])'
             /\ reader' # None => Within(d, reader[d])'
  BY BookedParts, WithinKept
<1>5. RecordedWithinLimit'
  BY <1>4 DEF RecordedWithinLimit, Within
<1> QED BY <1>3, <1>4, <1>5 DEF Booked

LEMMA ChecksBooked ==
  ASSUME Typed, Typed', Booked, Excuses, Checked, Unmoved, UNCHANGED usage
  PROVE  Booked'
<1>1. UNCHANGED <<now, usage, reader>>
  BY DEF Unmoved
<1>2. CASE Return
  <2>1. StillFits
    BY <1>2 DEF Return, StillFits, NoOp, LimitVerdicts
  <2> QED BY <1>1, <2>1, SameBooked
<1>3. ASSUME NEW c \in Nat, NEW g \in {op.granted, op.req.stepUp}, NEW v \in Verdicts, Passes(c, g, v)
      PROVE  Booked'
  <2>1. /\ op'.req = op.req /\ op'.verdict = v /\ step \in Before
    BY <1>3, Locals DEF Passes, Operations, Checked
  <2>2. CASE v = op.verdict \/ v \notin LimitVerdicts \/ ~Commits(op.req.kind)
    <3>1. CASE Commits(op.req.kind)
      <4>1. StillFits
        BY <2>1, <2>2, <3>1 DEF StillFits, Before
      <4> QED BY <1>1, <4>1, SameBooked
    <3>2. CASE ~Commits(op.req.kind)
      BY <1>1, <2>1, <3>2, PaymentBooked
    <3> QED BY <3>1, <3>2
  <2>3. CASE v # op.verdict /\ v \in LimitVerdicts /\ Commits(op.req.kind)
    <3>1. usage[Day(now)] + op.req.amount <= policy.daily
      BY <1>3, <2>3 DEF Passes, Judged
    <3> QED BY <1>1, <2>1, <3>1, PaymentBooked
  <2> QED BY <2>2, <2>3
<1> QED BY <1>2, <1>3 DEF Checked, Decided

(* Booked is what fits the limits, or what excuses the day from now on.      *)
LEMMA RecordBooked ==
  ASSUME Typed, Typed', Used, OwnVerdict, Booked, Excuses, RecordUse
  PROVE  Booked'
<1> DEFINE u == [usage EXCEPT ![Day(now)] = @ + op.req.amount]  today == Day(now)
<1>1. /\ step = "record" /\ Proceed /\ Commits(op.req.kind) /\ Mark("recorded")
      /\ UNCHANGED <<now, policy, reader>> /\ usage' = Retained(u, now)
  BY RecordBooks DEF Books
<1>2. /\ usage \in [Days -> Nat] /\ op.req.amount \in Nat /\ today \in Days /\ today \in Nat
      /\ now \in 0..MaxTime /\ policy \in Policies /\ policy.daily \in Nat
  BY Parts, Locals, SumsAreNaturals, DaysGrow, CommitAssumption
<1>3. /\ u \in [Days -> Nat] /\ u[today] = usage[today] + op.req.amount
      /\ \A d \in Days : d # today => u[d] = usage[d]
  BY <1>2
<1> HIDE DEF u
<1>4. /\ usage' \in [Days -> Nat] /\ usage'[today] = usage[today] + op.req.amount
      /\ \A d \in Days : d # today => usage'[d] \in {0, usage[d]}
  <2>1. /\ Retained(u, now) \in [Days -> Nat]
        /\ \A d \in Days : Retained(u, now)[d] \in {0, u[d]}
        /\ Retained(u, now)[today] = u[today]
    BY <1>2, <1>3, RetainedSums
  <2> QED BY <1>1, <1>3, <2>1
<1>5. step' \in {"context", "answer"}
  BY <1>1, Locals, NextStep DEF Proceed, Steps, Position
<1>6. ASSUME NEW d \in Days, d = today PROVE Within(d, usage[d])'
  <2>1. op.verdict # "none" /\ op.verdict \in Verdicts
    BY <1>1, Locals DEF Typed, GrantSet
  <2>2. CASE op.verdict \in LimitVerdicts
    <3>1. \E p \in Policies : usage[today] + op.req.amount <= p.daily
      BY <1>1, <1>2, <2>2 DEF Booked
    <3> QED BY <1>4, <1>6, <3>1 DEF Within
  <2>3. CASE op.verdict = "assurance"
    <3> DEFINE n == Len(effects)
    <3>1. n \in DOMAIN effects /\ effects[n].verdict = "assurance" /\ effects[n].day <= today
      BY <1>1, <2>3 DEF OwnVerdict, After
    <3>2. effects' = [effects EXCEPT ![n] = [effects[n] EXCEPT !.recorded = TRUE]]
      BY <1>1 DEF Mark
    <3>3. effects[n] \in EffectRows
      BY <3>1, Parts
    <3>4. effects'[n] = [effects[n] EXCEPT !.recorded = TRUE] /\ n \in DOMAIN effects'
      BY <3>1, <3>2
    <3> HIDE DEF n, today
    <3>5. effects'[n].verdict = "assurance" /\ effects'[n].day <= d /\ effects'[n].recorded
      BY <1>6, <3>1, <3>3, <3>4 DEF EffectRows
    <3>6. n \in Unlimited(d)'
      BY <3>4, <3>5 DEF Unlimited
    <3> QED BY <3>6 DEF Within
  <2> QED BY <2>1, <2>2, <2>3 DEF Verdicts, Escalations, LimitVerdicts
<1> HIDE DEF today
<1>7. ASSUME NEW d \in Days
      PROVE  /\ Within(d, usage[d])'
             /\ d > today => usage'[d] = 0
             /\ d >= today => usage[d] <= usage'[d]
  <2>1. d \in Int
    BY DEF Days
  <2>2. CASE d = today
    BY <1>2, <1>4, <1>6, <2>1, <2>2
  <2>3. CASE d # today
    <3>1. usage[d] \in Nat /\ Within(d, usage[d]) /\ (d > today => usage[d] = 0)
      BY BookedParts DEF today
    <3>2. usage'[d] \in Nat /\ usage'[d] <= usage[d]
      BY <1>4, <2>3, <3>1
    <3>3. Within(d, usage[d])'
      BY <3>1, <3>2, WithinKept
    <3> QED BY <1>2, <1>4, <2>1, <2>3, <3>1, <3>3
  <2> QED BY <2>2, <2>3
<1>8. ASSUME reader' # None, NEW d \in Days
      PROVE  /\ Within(d, reader[d])'
             /\ d >= today => reader'[d] <= usage'[d]
  <2>1. /\ reader[d] \in Nat /\ Within(d, reader[d]) /\ (d >= today => reader[d] <= usage[d])
    BY <1>1, <1>8, BookedParts DEF today
  <2>2. usage[d] \in Nat /\ usage'[d] \in Nat
    BY <1>2, <1>4
  <2>3. Within(d, reader[d])'
    BY <1>1, <2>1, WithinKept
  <2> QED BY <1>1, <1>7, <2>1, <2>2, <2>3
<1>9. RecordedWithinLimit'
  BY <1>7 DEF RecordedWithinLimit, Within
<1> QED BY <1>1, <1>5, <1>7, <1>8, <1>9 DEF Booked, today

LEMMA ReadBooked == ASSUME Typed, Typed', Booked, Excuses, ReadUsage PROVE Booked'
<1>1. /\ reader' = Retained(usage, now)
      /\ UNCHANGED <<now, usage, step, op>>
  BY DEF ReadUsage, brokers
<1>2. \A d \in Days : reader'[d] \in {0, usage[d]}
  BY <1>1, Parts, RetainedSums
<1>3. ASSUME NEW d \in Days
      PROVE  /\ Within(d, reader[d])' /\ reader'[d] <= usage[d]
             /\ Within(d, usage[d])'
  <2>1. usage[d] \in Nat /\ Within(d, usage[d])
    BY BookedParts
  <2>2. reader'[d] \in Nat /\ reader'[d] <= usage[d]
    BY <1>2, <2>1
  <2> QED BY <1>1, <2>1, <2>2, WithinKept
<1>4. RecordedWithinLimit'
  BY <1>3 DEF RecordedWithinLimit, Within
<1> QED BY <1>1, <1>3, <1>4 DEF Booked

LEMMA EnvironmentBooked ==
  ASSUME Typed, Typed', Booked, Excuses, Environment
  PROVE  Booked'
<1>1. CASE UNCHANGED <<now, usage, reader, step, op>>
  BY <1>1, SameBooked DEF StillFits
<1>2. CASE ReadUsage
  BY <1>2, ReadBooked
<1>3. CASE KeepUsage
  <2>1. reader # None /\ usage' = reader /\ reader' = None /\ UNCHANGED <<now, step, op>>
    BY <1>3 DEF KeepUsage
  <2>2. ASSUME NEW d \in Days
        PROVE  Within(d, usage[d])' /\ (d >= Day(now) => usage'[d] <= usage[d])
    BY <2>1, BookedParts, WithinKept
  <2>3. StillFits
    BY <2>1 DEF StillFits
  <2> QED BY <2>1, <2>2, <2>3, LessBooked
<1>4. CASE Tick
  <2>1. now' = now + 1 /\ UNCHANGED <<usage, reader, step, op>>
    BY <1>4 DEF Tick, brokers
  <2>2. ASSUME NEW d \in Days
        PROVE  Within(d, usage[d])' /\ (d >= Day(now) => usage'[d] <= usage[d])
    BY <2>1, BookedParts, WithinKept
  <2>3. StillFits
    BY <2>1 DEF StillFits
  <2> QED BY <2>1, <2>2, <2>3, LessBooked
<1>5. ReadUsage \/ KeepUsage \/ Tick \/ UNCHANGED <<now, usage, reader, step, op>>
  BY DEF Environment, Approve, Reject, Observe, RegisterPolicy, RevokeInstrument,
         RegisterGrant, RevokeGrant
<1> QED BY <1>1, <1>2, <1>3, <1>4, <1>5

LEMMA NextBooked == Typed /\ Used /\ OwnVerdict /\ Booked /\ [Next]_vars => Booked'
<1> SUFFICES ASSUME Typed, Used, OwnVerdict, Booked, [Next]_vars PROVE Booked'
  OBVIOUS
<1>1. Typed' /\ Excuses
  BY NextTyped, NextExcuses
<1>2. CASE Starts
  <2>1. UNCHANGED <<now, usage, reader>> /\ op'.verdict = "none"
    BY <1>2 DEF Starts, Begin, brokers, NoOp
  <2>2. StillFits
    BY <2>1 DEF StillFits, LimitVerdicts
  <2> QED BY <1>1, <2>1, <2>2, SameBooked
<1>3. CASE Checks
  BY <1>1, <1>3, ChecksTyped, ChecksBooked DEF Checks
<1>4. ASSUME Return \/ (UNCHANGED op /\ (step \in {"context", "answer"} => step' \in {"context", "answer"}))
      PROVE  StillFits
  <2>1. NoOp.verdict = "none"
    BY DEF NoOp
  <2> QED BY <1>4, <2>1 DEF StillFits, Return, LimitVerdicts
<1>5. CASE Execute
  <2>1. /\ step = "execute" /\ UNCHANGED <<now, usage, reader>> /\ (Return \/ Proceed)
    BY <1>5, ExecuteTyped
  <2>2. StillFits
    BY <1>4, <2>1 DEF Proceed
  <2> QED BY <1>1, <2>1, <2>2, SameBooked
<1>6. CASE RecordUse
  BY <1>1, <1>6, RecordBooked
<1>7. CASE Ending /\ ~RecordUse
  <2>1. UNCHANGED <<now, usage, reader>> /\ (Return \/ Proceed) /\ step \in After
    BY <1>7, EndingTyped, ConsumeGrantBooks, EvaluateBooks, ConsumeStepUpBooks,
       SelectBooks, ContextBooks, AnswerBooks DEF Ending, Books
  <2>2. Proceed => (step \in {"context", "answer"} => step' \in {"context", "answer"})
    BY <2>1, Locals, NextStep DEF Proceed, Steps, Position
  <2>3. StillFits
    BY <1>4, <2>1, <2>2 DEF Proceed
  <2> QED BY <1>1, <2>1, <2>3, SameBooked
<1>8. CASE Environment
  BY <1>1, <1>8, EnvironmentBooked
<1>9. CASE UNCHANGED vars
  BY <1>1, <1>9, SameBooked DEF vars, brokers, StillFits
<1> QED BY <1>2, <1>3, <1>5, <1>6, <1>7, <1>8, <1>9, NextCases

-----------------------------------------------------------------------------
(* The theorems.                                                             *)

LEMMA InitIInv == Init => IInv
<1> SUFFICES ASSUME Init PROVE IInv
  OBVIOUS
<1>1. Typed
  BY InitTyped
<1>2. /\ effects = <<>> /\ step = "idle" /\ op = NoOp /\ now = 0 /\ reader = None
      /\ usage = [d \in Days |-> 0]
  BY DEF Init
<1>3. Used
  BY <1>2 DEF Used, SpentOnce, OwnEffect, Answered, After
<1>4. Escalated
  BY <1>2 DEF Escalated, GrantedFits, NoOp, NoReq, Escalations
<1>5. OwnVerdict
  BY <1>2 DEF OwnVerdict, After
<1>6. Booked
  <2>1. policy \in Policies /\ policy.daily >= 0
    BY <1>1, Parts, CommitAssumption
  <2>2. op.verdict = "none"
    BY <1>2 DEF NoOp
  <2> QED BY <1>2, <2>1, <2>2 DEF Booked, RecordedWithinLimit, LimitVerdicts
<1> QED BY <1>1, <1>3, <1>4, <1>5, <1>6 DEF IInv

LEMMA NextIInv == IInv /\ [Next]_vars => IInv'
  BY NextTyped, NextUsed, NextEscalated, NextOwnVerdict, NextBooked DEF IInv

LEMMA Invariant == Spec => []IInv
  BY InitIInv, NextIInv, PTL DEF Spec

(* Every table, the locals of the operation in act_web or open_web, and the  *)
(* history of effects always have their shape.                               *)
THEOREM TypeCorrect == Spec => []TypeOK
<1>1. IInv => TypeOK
  BY DEF IInv, Typed
<1> QED BY <1>1, Invariant, PTL

(* StepUpManager.consume spends a grant once: no two answered operations     *)
(* name the same one, however many connections, requests and expirations.    *)
THEOREM StepUpSingleUse == Spec => []StepUpUsedOnce
<1>1. IInv => StepUpUsedOnce
  <2> SUFFICES ASSUME IInv, NEW s \in DOMAIN stepUps
               PROVE  Cardinality(DoneUnder("stepUp", s)) <= 1
    BY DEF StepUpUsedOnce
  <2> DEFINE D == DoneUnder("stepUp", s)
  <2>1. s # 0
    BY Parts DEF IInv
  <2>2. \A i, j \in D : i = j
    BY <2>1 DEF IInv, Used, SpentOnce, Answered, DoneUnder
  <2> HIDE DEF D
  <2>3. CASE D = {}
    BY <2>3, FS_EmptySet DEF D
  <2>4. CASE D # {}
    <3>1. PICK i \in D : D = {i}
      BY <2>2, <2>4
    <3>2. Cardinality(D) = 1
      BY <3>1, FS_Singleton
    <3> QED BY <3>2 DEF D
  <2> QED BY <2>3, <2>4
<1> QED BY <1>1, Invariant, PTL

(* Whatever the Profile policy escalates, and whatever a financial policy     *)
(* escalates for its amount or for its low assurance, is done only under a   *)
(* step-up that the user approved for that connection, document, reason and  *)
(* amount; a payment passed without asking is within an autonomy limit.      *)
THEOREM EscalationApproved == Spec => []EscalationIsApproved
<1>1. IInv => EscalationIsApproved
  <2> SUFFICES ASSUME IInv, NEW i \in DOMAIN effects
               PROVE  LET e == effects[i]  s == e.stepUp  b == stepUps[s].binding IN
                      /\ e.kind = "change" \/ e.verdict \in Escalations =>
                           /\ s # 0 /\ stepUps[s].status \in {"approved", "consumed"}
                           /\ b.conn = e.conn /\ b.page = e.page /\ b.kind = e.kind
                           /\ e.verdict \in Escalations => b.reason = e.verdict /\ b.scope.amount = e.amount
                      /\ e.verdict = "allow" /\ Commits(e.kind) => \E p \in Policies : e.amount <= p.autonomy
    BY DEF EscalationIsApproved
  <2>1. EffectFits(effects[i]) /\ effects[i] \in EffectRows
    BY Parts DEF IInv, Escalated
  <2>2. \A s \in DOMAIN stepUps : s # 0
    BY Parts DEF IInv
  <2>3. effects[i].amount \in Nat /\ \A p \in Policies : p.autonomy \in Nat
    BY <2>1, SumsAreNaturals, CommitAssumption DEF EffectRows
  <2>4. ~Dear(effects[i].amount) => \E p \in Policies : effects[i].amount <= p.autonomy
    BY <2>3 DEF Dear
  <2> QED BY <2>1, <2>2, <2>4 DEF EffectFits, ApprovedFor, AskedFor
<1> QED BY <1>1, Invariant, PTL

(* record_use books no day beyond the largest daily limit, whichever policies *)
(* are registered meanwhile, whatever usage() writes back without the lock,  *)
(* unless a payment was booked that was approved for its low assurance.      *)
THEOREM RecordedLimit == Spec => []RecordedWithinLimit
<1>1. IInv => RecordedWithinLimit
  BY DEF IInv, Booked
<1> QED BY <1>1, Invariant, PTL

-----------------------------------------------------------------------------
(* What an operation leaves in the history.                                  *)

(* The last effect is the operation's own, after the browser has acted.      *)
Own ==
  step \in After =>
    LET e == effects[Len(effects)] IN
    e.kind = op.req.kind /\ e.conn = op.conn /\ e.ctx = op.ctx

(* An operation on the page shown: any but a navigation.                     *)
Acting == op.req.kind # "open"

(* The steps of such an operation.                                           *)
LEMMA ActSteps ==
  ASSUME Advance, step \in Steps, op.req.kind \in AllKinds, Acting
  PROVE  /\ step = "profile" => step' = "check"
         /\ step = "check" => step' \in {"payment", "resource", "execute"}
         /\ step \in {"payment", "resource"} => step' \in {"resource", "execute"}
         /\ step = "execute" => step' \in {"grant", "stepup", "record", "context"}
         /\ step \in {"grant", "stepup", "record"} => step' \in {"stepup", "record", "context"}
         /\ step \in {"context", "answer"} => step' = "answer"
         /\ step = "execute" /\ op.req.kind = "upload" => step' = "grant"
<1>1. PICK t \in Steps : /\ Later(step, t) /\ step' = t
                         /\ \A u \in Steps : Later(step, u) => Position[t] <= Position[u]
  BY DEF Advance
<1>2. Steps = Before \cup {"execute"} \cup After
  BY DEF Steps, Position, Before, After
<1>3. /\ Position["profile"] = 1 /\ Position["scope"] = 2 /\ Position["check"] = 3
      /\ Position["payment"] = 4 /\ Position["resource"] = 5 /\ Position["execute"] = 6
      /\ Position["grant"] = 7 /\ Position["evaluate"] = 8 /\ Position["stepup"] = 9
      /\ Position["record"] = 10 /\ Position["context"] = 11 /\ Position["answer"] = 12
  BY DEF Position
<1>4. /\ Has("execute") /\ Has("answer") /\ Has("check") /\ Has("context")
      /\ ~Has("scope") /\ ~Has("evaluate")
      /\ op.req.kind = "upload" => Has("grant")
  BY DEF Has, Acting
<1> HIDE DEF Position
<1>5. \A u \in Steps : Position[step] < Position[u] /\ Has(u) => Position[t] <= Position[u]
  BY <1>1 DEF Later
<1>6. Position[step] < Position[t] /\ Has(t)
  BY <1>1 DEF Later
<1>7. t \notin {"scope", "evaluate"}
  BY <1>4, <1>6
<1>8. step = "profile" => t = "check"
  BY <1>2, <1>3, <1>4, <1>5, <1>6, <1>7 DEF Before, After
<1>9. step = "check" => t \in {"payment", "resource", "execute"}
  BY <1>2, <1>3, <1>4, <1>5, <1>6, <1>7 DEF Before, After
<1>10. step \in {"payment", "resource"} => t \in {"resource", "execute"}
  BY <1>2, <1>3, <1>4, <1>5, <1>6, <1>7 DEF Before, After
<1>11. step = "execute" => t \in {"grant", "stepup", "record", "context"}
  BY <1>2, <1>3, <1>4, <1>5, <1>6, <1>7 DEF Before, After
<1>12. step \in {"grant", "stepup", "record"} => t \in {"stepup", "record", "context"}
  BY <1>2, <1>3, <1>4, <1>5, <1>6, <1>7 DEF Before, After
<1>13. step \in {"context", "answer"} => t = "answer"
  BY <1>2, <1>3, <1>4, <1>5, <1>6, <1>7 DEF Before, After
<1>14. step = "execute" /\ op.req.kind = "upload" => t = "grant"
  BY <1>2, <1>3, <1>4, <1>5, <1>6, <1>7 DEF Before, After
<1> QED BY <1>1, <1>8, <1>9, <1>10, <1>11, <1>12, <1>13, <1>14

(* A step ends the operation, begins one, or goes on with it.                *)
LEMMA NextOp ==
  ASSUME Typed, [Next]_vars
  PROVE  \/ step' = "idle" /\ op' = NoOp
         \/ Starts /\ step' = "profile"
         \/ /\ Checks /\ step \in Before /\ Advance
            /\ op'.req = op.req /\ op'.conn = op.conn /\ op'.page = op.page
            /\ op'.verdict = op.verdict \/ step = "payment"
         \/ (Execute \/ Ending) /\ step \in {"execute"} \cup After /\ Advance /\ op' = op
         \/ Environment /\ UNCHANGED <<step, op>>
         \/ UNCHANGED vars
<1>1. CASE Starts
  BY <1>1 DEF Starts, Begin
<1>2. CASE Checks
  <2>1. Checked
    BY <1>2, ChecksTyped DEF Checks
  <2>2. CASE Return
    BY <2>2 DEF Return
  <2>3. ASSUME NEW c \in Nat, NEW g \in {op.granted, op.req.stepUp}, NEW v \in Verdicts, Passes(c, g, v)
        PROVE  /\ Advance /\ op'.req = op.req /\ op'.conn = op.conn /\ op'.page = op.page
               /\ op'.verdict = op.verdict \/ step = "payment"
    BY <2>3, Locals DEF Passes, Judged, Operations
  <2> QED BY <1>2, <2>1, <2>2, <2>3 DEF Checked, Decided
<1>3. CASE Execute
  BY <1>3 DEF Execute, Return, Proceed
<1>4. CASE Ending
  <2>1. step \in After /\ (Proceed \/ Return)
    BY <1>4, EndingTyped, ConsumeGrantBooks, EvaluateBooks, ConsumeStepUpBooks, RecordBooks,
       SelectBooks, ContextBooks, AnswerBooks DEF Ending
  <2> QED BY <1>4, <2>1 DEF Return, Proceed
<1>5. CASE Environment
  BY <1>5, EnvironmentTyped
<1> QED BY <1>1, <1>2, <1>3, <1>4, <1>5, NextCases

(* The history grows by the effect of the operation, which is answered last. *)
Grows ==
  /\ \A k \in DOMAIN effects :
       /\ k \in DOMAIN effects' /\ effects'[k].kind = effects[k].kind
       /\ effects'[k].conn = effects[k].conn /\ effects'[k].ctx = effects[k].ctx
  /\ \/ Len(effects') = Len(effects) /\ DOMAIN effects' = DOMAIN effects
     \/ /\ step = "execute" /\ Len(effects') = Len(effects) + 1
        /\ DOMAIN effects' = DOMAIN effects \cup {Len(effects')}
        /\ effects'[Len(effects')].kind = op.req.kind /\ effects'[Len(effects')].conn = op.conn
        /\ effects'[Len(effects')].ctx = op.ctx
  /\ \/ Answered' = Answered
     \/ /\ Answer /\ Len(effects) \in DOMAIN effects /\ Len(effects) \notin Answered
        /\ Answered' = Answered \cup {Len(effects)}

LEMMA SameGrows ==
  ASSUME Typed, UNCHANGED effects \/ Mark("recorded")
  PROVE  Grows
<1>1. CASE UNCHANGED effects
  BY <1>1 DEF Grows, Answered
<1>2. CASE Mark("recorded")
  <2>1. /\ effects \in Seq(EffectRows) /\ DOMAIN effects' = DOMAIN effects
        /\ Len(effects') = Len(effects)
        /\ \A i \in DOMAIN effects :
             effects'[i] = [effects[i] EXCEPT !.recorded = effects'[i].recorded]
    BY <1>2, Parts, MarkRecorded
  <2>2. ASSUME NEW i \in DOMAIN effects
        PROVE  /\ effects'[i].answered = effects[i].answered /\ effects'[i].conn = effects[i].conn
               /\ effects'[i].kind = effects[i].kind /\ effects'[i].ctx = effects[i].ctx
    <3>1. effects[i] \in EffectRows
      BY <2>1
    <3> DEFINE v == effects'[i].recorded
    <3>2. effects'[i] = [effects[i] EXCEPT !.recorded = v]
      BY <2>1
    <3> HIDE DEF v
    <3> QED BY <3>1, <3>2 DEF EffectRows
  <2> QED BY <2>1, <2>2 DEF Grows, Answered
<1> QED BY <1>1, <1>2

LEMMA ExecuteGrows == ASSUME Typed, Execute PROVE Grows
<1>1. /\ step = "execute" /\ effects \in Seq(EffectRows)
      /\ UNCHANGED effects \/ effects' = Append(effects, Effect)
  BY ExecuteTyped, Parts
<1>2. CASE effects' = Append(effects, Effect)
  <2> DEFINE n == Len(effects) + 1
  <2>1. /\ Effect \in EffectRows /\ Effect.answered = FALSE
        /\ Effect.kind = op.req.kind /\ Effect.conn = op.conn /\ Effect.ctx = op.ctx
    BY <1>1, EffectType DEF Effect
  <2>2. /\ Len(effects) \in Nat /\ DOMAIN effects = 1..Len(effects) /\ DOMAIN effects' = 1..n
        /\ Len(effects') = n /\ effects'[n] = Effect
        /\ \A i \in 1..Len(effects) : effects'[i] = effects[i]
    BY <1>1, <1>2, <2>1, AddSeq
  <2>3. DOMAIN effects' = DOMAIN effects \cup {Len(effects')}
    BY <2>2
  <2>4. Answered' = Answered
    BY <2>1, <2>2 DEF Answered
  <2> QED BY <1>1, <2>1, <2>2, <2>3, <2>4 DEF Grows
<1> QED BY <1>1, <1>2, SameGrows

LEMMA AnswerGrows == ASSUME Typed, Used, Answer PROVE Grows
<1>1. step = "answer" /\ Mark("answered")
  BY AnswerBooks DEF Books
<1> DEFINE n == Len(effects)
<1>2. n \in DOMAIN effects /\ n \notin Answered
  BY <1>1, Parts DEF Used, OwnEffect, After, Answered
<1>3. DOMAIN effects' = DOMAIN effects /\ effects \in Seq(EffectRows) /\ Len(effects') = n
  BY <1>1, MarkAnswered, Parts
<1>4. ASSUME NEW i \in DOMAIN effects
      PROVE  /\ effects'[i].kind = effects[i].kind /\ effects'[i].conn = effects[i].conn
             /\ effects'[i].ctx = effects[i].ctx
             /\ effects'[i].answered = (i = n \/ effects[i].answered)
  <2>1. effects[i] \in EffectRows
    BY <1>3
  <2> DEFINE v == (i = n \/ effects[i].answered)
  <2>2. effects'[i] = [effects[i] EXCEPT !.answered = v]
    BY <1>1, MarkAnswered
  <2> HIDE DEF v
  <2>3. /\ effects'[i].kind = effects[i].kind /\ effects'[i].conn = effects[i].conn
        /\ effects'[i].ctx = effects[i].ctx /\ effects'[i].answered = v
    BY <2>1, <2>2 DEF EffectRows
  <2> QED BY <2>3 DEF v
<1>5. Answered' = Answered \cup {n}
  BY <1>2, <1>3, <1>4 DEF Answered
<1> QED BY <1>2, <1>3, <1>4, <1>5 DEF Grows

LEMMA NextGrows == ASSUME Typed, Used, [Next]_vars PROVE Grows
<1>1. CASE Starts
  BY <1>1, SameGrows DEF Starts, Begin
<1>2. CASE Checks
  BY <1>2, ChecksTyped, SameGrows DEF Checks, Unmoved
<1>3. CASE Ending
  BY <1>3, ConsumeGrantBooks, EvaluateBooks, ConsumeStepUpBooks, RecordBooks, SelectBooks,
     ContextBooks, SameGrows, AnswerGrows DEF Ending
<1>4. CASE Environment
  BY <1>4, EnvironmentTyped, SameGrows
<1>5. CASE UNCHANGED vars
  BY <1>5, SameGrows DEF vars
<1> QED BY <1>1, <1>2, <1>3, <1>4, <1>5, ExecuteGrows, NextCases

LEMMA NextOwn == ASSUME Typed, Used, Own, [Next]_vars PROVE Own'
<1> SUFFICES ASSUME step' \in After PROVE Own'
  BY DEF Own
<1>1. Grows
  BY NextGrows
<1>2. CASE Ending /\ step \in After /\ op' = op
  <2>1. Len(effects') = Len(effects)
    BY <1>1, <1>2 DEF Grows, After
  <2>2. Len(effects) \in DOMAIN effects
    BY <1>2, Parts DEF Used, OwnEffect
  <2> QED BY <1>1, <1>2, <2>1, <2>2 DEF Own, Grows
<1>3. CASE Execute /\ op' = op /\ Advance
  <2>1. step = "execute" /\ effects' = Append(effects, Effect)
    <3>1. step' # "idle"
      BY DEF After
    <3> QED BY <1>3, <3>1, ExecuteTyped DEF Return
  <2>2. effects \in Seq(EffectRows) /\ Effect \in EffectRows
    BY <2>1, Parts, EffectType
  <2>3. effects'[Len(effects')] = Effect
    BY <2>1, <2>2, AddSeq
  <2> QED BY <1>3, <2>3 DEF Own, Effect
<1>4. CASE UNCHANGED <<step, op>> /\ (Environment \/ UNCHANGED vars)
  BY <1>4, EnvironmentTyped DEF Own, vars
<1>5. ASSUME Checks, step \in Before, Advance PROVE FALSE
  BY <1>5, Locals, NextStep DEF Before, After, Steps, Position
<1>6. step' \notin {"idle", "profile"}
  BY DEF After
<1>7. Ending => step \in After
  BY EndingTyped
<1>8. UNCHANGED vars => UNCHANGED <<step, op>>
  BY DEF vars
<1> QED BY <1>2, <1>3, <1>4, <1>5, <1>6, <1>7, <1>8, NextOp

-----------------------------------------------------------------------------
(* The grant of a local resource.                                            *)

Uploads == DoneUnder("kind", "upload")
Uploading(S) == step \in S /\ op.req.kind = "upload"

(* Uploads that were answered, and the one whose use is counted already.     *)
Counted == Cardinality(Uploads) + (IF Uploading(After \ {"grant"}) THEN 1 ELSE 0)

(* Where a grant that was consumed may be one over: it ended, with uses left, *)
(* while the browser acted, and authorizes nothing more.                      *)
Overrun ==
  /\ Counted + grant.uses <= GrantUses + 1 /\ grant.uses > 0
  /\ ~Uploading({"execute", "grant"}) /\ (grant.revoked \/ grant.expires <= now)

Grants ==
  /\ Uploading({"execute"} \cup After) => grant # None /\ grant.conn = op.conn
  /\ \A i \in Uploads : grant # None /\ effects[i].conn = grant.conn
  /\ Uploading({"execute", "grant"}) => grant.uses > 0
  /\ grant # None => Counted + grant.uses <= GrantUses \/ Overrun

LEMMA UploadsFinite ==
  Typed => IsFiniteSet(Uploads) /\ Cardinality(Uploads) \in Nat /\ Counted \in Nat
<1> SUFFICES ASSUME Typed
             PROVE  IsFiniteSet(Uploads) /\ Cardinality(Uploads) \in Nat /\ Counted \in Nat
  OBVIOUS
<1>1. Uploads \in SUBSET (1..Len(effects)) /\ Len(effects) \in Nat
  BY Parts DEF Uploads, DoneUnder
<1>2. IsFiniteSet(1..Len(effects))
  BY <1>1, FS_Interval
<1>3. IsFiniteSet(Uploads)
  BY <1>1, <1>2, FS_Subset
<1>4. Cardinality(Uploads) \in Nat
  BY <1>3, FS_CardinalityType
<1> QED BY <1>3, <1>4 DEF Counted

(* An answered upload was the operation's, or answered before.               *)
LEMMA UploadsGrow ==
  ASSUME Typed, Used, Own, [Next]_vars
  PROVE  /\ \A i \in Uploads' : \/ i \in Uploads /\ effects'[i].conn = effects[i].conn
                                \/ Answer /\ Uploading({"answer"}) /\ effects'[i].conn = op.conn
         /\ \/ Uploads' = Uploads
            \/ /\ Answer /\ Uploading({"answer"}) /\ Len(effects) \notin Uploads
               /\ Uploads' = Uploads \cup {Len(effects)}
<1> DEFINE n == Len(effects)
<1>1. Grows
  BY NextGrows
<1>2. Uploads = {i \in Answered : effects[i].kind = "upload"}
  BY DEF Uploads, DoneUnder, Answered
<1>3. Uploads' = {i \in Answered' : effects'[i].kind = "upload"}
  BY DEF Uploads, DoneUnder, Answered
<1>4. \A i \in Answered : effects'[i].kind = effects[i].kind /\ effects'[i].conn = effects[i].conn
  BY <1>1 DEF Grows, Answered
<1>5. CASE Answered' = Answered
  BY <1>2, <1>3, <1>4, <1>5
<1>6. CASE /\ Answer /\ n \in DOMAIN effects /\ n \notin Answered
           /\ Answered' = Answered \cup {n}
  <2>1. step = "answer"
    BY <1>6, AnswerBooks DEF Books
  <2>2. effects'[n].kind = op.req.kind /\ effects'[n].conn = op.conn
    BY <1>1, <1>6, <2>1 DEF Own, After, Grows
  <2> QED BY <1>2, <1>3, <1>4, <1>6, <2>1, <2>2 DEF Uploading
<1> QED BY <1>1, <1>5, <1>6 DEF Grows

(* Only consuming the grant counts an upload.                                *)
LEMMA CountedGrows ==
  ASSUME Typed, Used, Own, [Next]_vars
  PROVE  \/ Counted' <= Counted
         \/ step = "grant" /\ Uploading({"grant"}) /\ ConsumeGrant /\ Counted' = Counted + 1
<1> DEFINE P == IF Uploading(After \ {"grant"}) THEN 1 ELSE 0
<1>1. Typed'
  BY NextTyped
<1>2. /\ Cardinality(Uploads) \in Nat /\ Cardinality(Uploads)' \in Nat /\ IsFiniteSet(Uploads)
  <2>1. (IsFiniteSet(Uploads) /\ Cardinality(Uploads) \in Nat /\ Counted \in Nat)'
    BY <1>1, UploadsFinite, PTL
  <2> QED BY <2>1, UploadsFinite
<1>3. Counted = Cardinality(Uploads) + P /\ Counted' = Cardinality(Uploads)' + P'
      /\ P \in {0, 1} /\ P' \in {0, 1}
  BY DEF Counted
<1>4. (P = 1 <=> Uploading(After \ {"grant"})) /\ (P' = 1 <=> Uploading(After \ {"grant"})')
  OBVIOUS
<1> HIDE DEF P
<1>5. CASE Uploads' = Uploads
  <2>1. CASE UNCHANGED <<step, op>>
    <3>1. P' = P
      BY <1>3, <1>4, <2>1 DEF Uploading
    <3> QED BY <1>2, <1>3, <1>5, <3>1
  <2>2. CASE step' = "idle" \/ step' = "profile"
    <3>1. P' = 0
      BY <1>3, <1>4, <2>2 DEF Uploading, After
    <3> QED BY <1>2, <1>3, <1>5, <3>1
  <2>3. CASE Checks /\ step \in Before /\ Advance
    <3>1. step' \notin After
      BY <2>3, Locals, NextStep DEF Before, After, Steps, Position
    <3>2. P' = 0
      BY <1>3, <1>4, <3>1 DEF Uploading
    <3> QED BY <1>2, <1>3, <1>5, <3>2
  <2>4. CASE (Execute \/ Ending) /\ step \in {"execute"} \cup After /\ Advance /\ op' = op
    <3>1. step \in Steps
      BY <2>4 DEF Steps, Position, After
    <3>2. CASE op.req.kind # "upload"
      <4>1. P = 0 /\ P' = 0
        BY <1>3, <1>4, <2>4, <3>2 DEF Uploading
      <4> QED BY <1>2, <1>3, <1>5, <4>1
    <3>3. CASE op.req.kind = "upload" /\ step = "execute"
      <4>1. step' = "grant"
        BY <2>4, <3>1, <3>3, ActSteps, Locals DEF Acting
      <4>2. P = 0 /\ P' = 0
        BY <1>3, <1>4, <3>3, <4>1 DEF Uploading, After
      <4> QED BY <1>2, <1>3, <1>5, <4>2
    <3>4. CASE op.req.kind = "upload" /\ step = "grant"
      <4>1. ConsumeGrant
        BY <2>4, <3>4, ExecuteTyped, EvaluateBooks, ConsumeStepUpBooks, RecordBooks, SelectBooks,
           ContextBooks, AnswerBooks DEF Ending, Books
      <4>2. P = 0 /\ P' \in {0, 1}
        BY <1>3, <1>4, <3>4 DEF Uploading
      <4> QED BY <1>2, <1>3, <1>5, <3>4, <4>1, <4>2 DEF Uploading
    <3>5. CASE op.req.kind = "upload" /\ step \in After \ {"grant"}
      <4>1. P = 1
        BY <1>4, <3>5 DEF Uploading
      <4> QED BY <1>2, <1>3, <1>5, <4>1
    <3> QED BY <2>4, <3>2, <3>3, <3>4, <3>5
  <2>5. UNCHANGED vars => UNCHANGED <<step, op>>
    BY DEF vars
  <2> QED BY <2>1, <2>2, <2>3, <2>4, <2>5, NextOp
<1>6. CASE /\ Answer /\ Uploading({"answer"}) /\ Len(effects) \notin Uploads
           /\ Uploads' = Uploads \cup {Len(effects)}
  <2>1. Cardinality(Uploads \cup {Len(effects)}) = Cardinality(Uploads) + 1
    BY <1>2, <1>6, FS_AddElement
  <2>2. Cardinality(Uploads)' = Cardinality(Uploads) + 1
    BY <1>6, <2>1
  <2>3. step' = "idle"
    BY <1>6 DEF Answer, Return
  <2>4. P = 1 /\ P' = 0
    BY <1>3, <1>4, <1>6, <2>3 DEF Uploading, After
  <2> QED BY <1>2, <1>3, <2>2, <2>4
<1> QED BY <1>5, <1>6, UploadsGrow

(* The clock does not go back.                                               *)
LEMMA ClockGrows ==
  ASSUME Typed, [Next]_vars
  PROVE  /\ now \in Nat /\ now' \in Nat /\ now' >= now
         /\ now' # now => UNCHANGED <<step, op, stepUps, contexts, grant, effects>>
<1>1. now \in Nat
  BY Parts
<1>2. CASE UNCHANGED now
  BY <1>1, <1>2
<1>3. CASE Tick
  BY <1>1, <1>3 DEF Tick, brokers
<1>4. Starts \/ UNCHANGED vars => UNCHANGED now
  BY DEF Starts, Begin, vars
<1>5. Checks \/ Execute \/ Ending => UNCHANGED now
  BY ChecksTyped, ExecuteTyped
     DEF Checks, Unmoved, Ending, ConsumeGrant, EvaluateAfterOpen, ConsumeStepUp, RecordUse,
         SelectInstrument, ConsumeContext, Answer
<1>6. Environment => UNCHANGED now \/ Tick
  BY DEF Environment, Approve, Reject, Observe, RegisterPolicy, RevokeInstrument, ReadUsage,
         KeepUsage, RegisterGrant, RevokeGrant
<1> QED BY <1>2, <1>3, <1>4, <1>5, <1>6, NextCases

(* What a step does to the grant.                                            *)
Authorizes ==
  /\ step = "resource" /\ grant \in GrantRows /\ Active /\ grant.conn \in {None, op.conn}
  /\ grant' = [grant EXCEPT !.conn = op.conn] /\ Advance /\ op' = op /\ UNCHANGED now
Consumes ==
  /\ step = "grant" /\ Proceed /\ UNCHANGED now
  /\ grant' = IF Active THEN [grant EXCEPT !.uses = @ - 1] ELSE grant
Registers ==
  /\ grant = None /\ UNCHANGED <<step, op>>
  /\ grant' = [uses |-> GrantUses, expires |-> now + ContextTTL, revoked |-> FALSE, conn |-> None]
Revokes ==
  grant \in GrantRows /\ grant' = [grant EXCEPT !.revoked = TRUE] /\ UNCHANGED <<step, op, now>>
GoesOn ==
  \/ step' = "idle" /\ op' = NoOp
  \/ step' = "profile"
  \/ step \in Before \ {"resource"} /\ Advance /\ op'.req = op.req
  \/ step \in {"execute"} \cup (After \ {"grant"}) /\ Advance /\ op' = op
  \/ UNCHANGED <<step, op>>

LEMMA GrantMoves ==
  ASSUME Typed, [Next]_vars
  PROVE  Authorizes \/ Consumes \/ Registers \/ Revokes \/ (UNCHANGED grant /\ GoesOn)
<1>1. ConsumeGrant => Consumes
  BY DEF ConsumeGrant, Consumes, Unmoved
<1>2. RegisterGrant => Registers
  BY DEF RegisterGrant, Registers
<1>3. RevokeGrant => Revokes
  BY Parts DEF RevokeGrant, Revokes
<1>4. CASE ResourceStep
  <2>1. CASE GrantFits
    <3>1. grant \in GrantRows
      BY <2>1, Parts DEF GrantFits
    <3> QED BY <1>4, <2>1, <3>1 DEF ResourceStep, GrantFits, Authorizes, Proceed, Unmoved
  <2>2. CASE ~GrantFits
    BY <1>4, <2>2 DEF ResourceStep, Return, GoesOn
  <2> QED BY <2>1, <2>2
<1>5. CASE UNCHANGED grant /\ ~ResourceStep /\ ~ConsumeGrant
  <2>1. CASE Checks
    <3>1. step \in Before \ {"resource"}
      BY <1>5, <2>1 DEF Checks, ProfileStep, ScopeStep, CheckStep, PaymentStep,
                        FinancialCommitStep, Before, ProfileScope, FinancialScope
    <3>2. step \notin {"execute"} \cup After \cup {"idle"}
      BY <3>1 DEF Before, After
    <3> QED BY <1>5, <2>1, <3>1, <3>2, NextOp, EnvironmentTyped DEF GoesOn, vars
  <2>2. CASE Execute \/ Ending
    <3>1. step \in {"execute"} \cup (After \ {"grant"})
      BY <1>5, <2>2, ExecuteTyped, EvaluateBooks, ConsumeStepUpBooks, RecordBooks, SelectBooks,
         ContextBooks, AnswerBooks DEF Ending, Books, After
    <3>2. step \notin Before \cup {"idle"}
      BY <3>1 DEF Before, After
    <3> QED BY <1>5, <2>2, <3>1, <3>2, NextOp, EnvironmentTyped DEF GoesOn, vars
  <2>3. Starts \/ Environment \/ UNCHANGED vars => GoesOn
    BY EnvironmentTyped DEF Starts, Begin, GoesOn, vars
  <2> QED BY <1>5, <2>1, <2>2, <2>3, NextCases
<1>6. Starts \/ Execute \/ UNCHANGED vars => UNCHANGED grant
  BY DEF Starts, Begin, Execute, vars, brokers
<1>7. Checks => UNCHANGED grant \/ ResourceStep
  BY DEF Checks, ProfileStep, ScopeStep, CheckStep, PaymentStep, FinancialCommitStep, ProfileScope, FinancialScope
<1>8. Ending => UNCHANGED grant \/ ConsumeGrant
  BY DEF Ending, EvaluateAfterOpen, ConsumeStepUp, RecordUse, SelectInstrument, ConsumeContext,
         Answer, brokers
<1>9. Environment => UNCHANGED grant \/ RegisterGrant \/ RevokeGrant
  BY DEF Environment, Approve, Reject, Observe, RegisterPolicy, RevokeInstrument, ReadUsage,
         KeepUsage, Tick, brokers
<1> QED BY <1>1, <1>2, <1>3, <1>4, <1>5, <1>6, <1>7, <1>8, <1>9, NextCases

(* Where an upload stands after a step that leaves the grant alone.          *)
LEMMA UploadSteps ==
  ASSUME Typed, GoesOn
  PROVE  /\ Uploading({"execute"} \cup After)'
              => Uploading({"execute"} \cup After) /\ op' = op
         /\ Uploading({"execute", "grant"})' => Uploading({"execute", "grant"})
<1>1. CASE step' = "idle" /\ op' = NoOp
  BY <1>1 DEF Uploading, NoOp, NoReq
<1>2. CASE step' = "profile"
  BY <1>2 DEF Uploading, After
<1>3. CASE step \in Before \ {"resource"} /\ Advance /\ op'.req = op.req
  <2>1. step \in Steps
    BY <1>3 DEF Before, Steps, Position
  <2>2. op.req.kind = "upload" => step' \in Before
    BY <1>3, <2>1, NextStep, Locals
  <2> QED BY <1>3, <2>2 DEF Uploading, Before, After
<1>4. CASE step \in {"execute"} \cup (After \ {"grant"}) /\ Advance /\ op' = op
  <2>1. step \in Steps
    BY <1>4 DEF After, Steps, Position
  <2>2. step' \in After /\ (step' = "grant" => step \notin After)
    BY <1>4, <2>1, NextStep, Locals
  <2> QED BY <1>4, <2>2 DEF Uploading, After
<1>5. CASE UNCHANGED <<step, op>>
  BY <1>5 DEF Uploading
<1> QED BY <1>1, <1>2, <1>3, <1>4, <1>5 DEF GoesOn

LEMMA NextGrants ==
  ASSUME Typed, Used, Own, Grants, [Next]_vars
  PROVE  Grants'
<1>1. /\ Counted \in Nat /\ Counted' \in Nat
      /\ \/ Counted' <= Counted
         \/ step = "grant" /\ Uploading({"grant"}) /\ ConsumeGrant /\ Counted' = Counted + 1
  <2>1. Typed'
    BY NextTyped
  <2>2. (IsFiniteSet(Uploads) /\ Cardinality(Uploads) \in Nat /\ Counted \in Nat)'
    BY <2>1, UploadsFinite, PTL
  <2> QED BY <2>2, UploadsFinite, CountedGrows
<1>2. /\ now \in Nat /\ now' \in Nat /\ now' >= now /\ GrantUses \in Nat
      /\ grant \in {None} \cup GrantRows
  BY ClockGrows, CommitAssumption, Parts
<1>3. \A i \in Uploads' : \/ i \in Uploads /\ effects'[i].conn = effects[i].conn
                          \/ Answer /\ Uploading({"answer"}) /\ effects'[i].conn = op.conn
  BY UploadsGrow
<1>4. \A g \in GrantRows : /\ g.uses \in 0..GrantUses /\ g.uses \in Nat /\ g.expires \in Nat
                           /\ g.revoked \in BOOLEAN
  BY <1>2 DEF GrantRows
<1>5. None \notin GrantRows
  BY <1>2, CommitAssumption DEF GrantRows
<1>6. CASE Authorizes
  <2>1. /\ grant \in GrantRows /\ grant' \in GrantRows /\ grant'.conn = op.conn
        /\ grant'.uses = grant.uses /\ grant.uses > 0 /\ ~(grant.revoked \/ grant.expires <= now)
        /\ op' = op /\ step = "resource" /\ step' \in {"resource", "execute"}
    <3>1. op.conn \in Conns
      BY <1>6, Locals DEF Authorizes, Typed, LocalsSet
    <3>2. step = "resource" /\ step \in Steps /\ Advance /\ op.req.kind \in AllKinds
      BY <1>6, Locals DEF Authorizes, Steps, Position
    <3>3. step' \in {"resource", "execute"}
      BY <3>2, NextStep
    <3> QED BY <1>2, <1>4, <1>6, <3>1, <3>2, <3>3 DEF Authorizes, Active, GrantRows
  <2>2. Counted' <= Counted /\ \A i \in Uploads' : i \in Uploads /\ effects'[i].conn = effects[i].conn
    BY <1>1, <1>3, <2>1 DEF Uploading
  <2>3. Counted + grant.uses <= GrantUses
    BY <1>5, <2>1 DEF Grants, Overrun
  <2>4. \A i \in Uploads : grant.conn = op.conn
    <3>1. ASSUME NEW i \in Uploads PROVE grant.conn \in Conns
      <4>1. i \in DOMAIN effects /\ effects[i] \in EffectRows
        BY Parts DEF Uploads, DoneUnder
      <4> QED BY <3>1, <4>1 DEF Grants, EffectRows
    <3> QED BY <1>6, <3>1, CommitAssumption DEF Authorizes
  <2>5. \A i \in Uploads' : grant' # None /\ effects'[i].conn = grant'.conn
    BY <1>5, <2>1, <2>2, <2>4 DEF Grants
  <2>6. Counted' + grant'.uses <= GrantUses
    BY <1>1, <1>2, <1>4, <2>1, <2>2, <2>3
  <2>7. grant' # None
    BY <1>5, <2>1
  <2> HIDE DEF Uploads, Counted
  <2> QED BY <2>1, <2>5, <2>6, <2>7 DEF Grants, Uploading
<1>7. CASE Consumes
  <2>1. /\ grant \in GrantRows /\ grant' \in GrantRows /\ grant'.conn = grant.conn
        /\ grant'.revoked = grant.revoked /\ grant'.expires = grant.expires
        /\ grant'.uses = IF Active THEN grant.uses - 1 ELSE grant.uses
    <3>1. grant \in GrantRows
      BY <1>7 DEF Consumes, Typed, GrantSet
    <3>2. CASE Active
      BY <1>2, <1>7, <3>1, <3>2 DEF Consumes, GrantRows, Active
    <3> QED BY <1>7, <3>1, <3>2 DEF Consumes, GrantRows
  <2>2. op' = op /\ step = "grant" /\ step' \in After \ {"grant"}
    <3>1. step = "grant" /\ step \in Steps /\ Advance /\ op' = op
      BY <1>7 DEF Consumes, Proceed, Steps, Position
    <3> QED BY <3>1, NextStep, Locals DEF After
  <2>3. \A i \in Uploads' : i \in Uploads /\ effects'[i].conn = effects[i].conn
    BY <1>3, <2>2 DEF Uploading
  <2>4. \A i \in Uploads' : grant' # None /\ effects'[i].conn = grant'.conn
    BY <1>5, <2>1, <2>3 DEF Grants
  <2>5. Uploading({"execute"} \cup After)' => grant' # None /\ grant'.conn = op'.conn
    BY <1>5, <2>1, <2>2 DEF Grants, Uploading, After
  <2>6. ~Uploading({"execute", "grant"})'
    BY <2>2 DEF Uploading, After
  <2>7. Counted' + grant'.uses <= GrantUses \/ Overrun'
    <3>1. CASE Uploading({"grant"})
      <4>1. Counted + grant.uses <= GrantUses /\ grant.uses > 0
        BY <1>5, <2>1, <3>1 DEF Grants, Overrun, Uploading
      <4>2. CASE Active
        BY <1>1, <1>2, <1>4, <2>1, <4>1, <4>2
      <4>3. CASE ~Active
        <5>1. grant'.revoked \/ grant'.expires <= now'
          BY <1>2, <1>4, <2>1, <4>1, <4>3 DEF Active
        <5>2. Counted' + grant'.uses <= GrantUses + 1 /\ grant'.uses > 0
          BY <1>1, <1>2, <1>4, <2>1, <4>1, <4>3
        <5> QED BY <2>6, <5>1, <5>2 DEF Overrun
      <4> QED BY <4>2, <4>3
    <3>2. CASE ~Uploading({"grant"})
      <4>1. Counted' <= Counted
        BY <1>1, <3>2
      <4>2. CASE Counted + grant.uses <= GrantUses
        BY <1>1, <1>2, <1>4, <2>1, <4>1, <4>2
      <4>3. CASE Overrun
        <5>1. ~Active
          BY <1>2, <1>4, <2>1, <4>3 DEF Overrun, Active
        <5>2. grant'.revoked \/ grant'.expires <= now'
          BY <1>2, <1>4, <2>1, <4>3 DEF Overrun
        <5>3. Counted' + grant'.uses <= GrantUses + 1 /\ grant'.uses > 0
          BY <1>1, <1>2, <1>4, <2>1, <4>1, <4>3, <5>1 DEF Overrun
        <5> QED BY <2>6, <5>2, <5>3 DEF Overrun
      <4> QED BY <1>5, <2>1, <4>2, <4>3 DEF Grants
    <3> QED BY <3>1, <3>2
  <2> HIDE DEF Uploads, Counted
  <2> QED BY <2>4, <2>5, <2>6, <2>7 DEF Grants
<1>8. CASE Registers
  <2>1. ~Uploading({"execute"} \cup After) /\ Uploads = {}
    BY <1>8 DEF Registers, Grants
  <2>2. grant' \in GrantRows /\ grant'.uses = GrantUses
    BY <1>2, <1>8, CommitAssumption DEF Registers, GrantRows
  <2>3. ~Uploading({"execute"} \cup After)' /\ Uploads' = {}
    BY <1>3, <1>8, <2>1 DEF Registers, Uploading, After
  <2>4. Counted = 0
    BY <2>1, FS_EmptySet DEF Counted, Uploading
  <2>5. Counted' <= Counted
    BY <1>1, <2>1 DEF Uploading, After
  <2>6. Counted' + grant'.uses <= GrantUses
    <3>1. Counted' = 0
      BY <1>1, <2>4, <2>5
    <3> QED BY <1>2, <2>2, <3>1
  <2> HIDE DEF Uploads, Counted
  <2> QED BY <2>3, <2>6 DEF Grants, Uploading, After
<1>9. CASE Revokes \/ (UNCHANGED grant /\ GoesOn)
  <2>1. GoesOn
    BY <1>9 DEF Revokes, GoesOn
  <2>2. \/ grant' = grant
        \/ /\ grant \in GrantRows /\ grant' \in GrantRows /\ grant'.conn = grant.conn
           /\ grant'.uses = grant.uses /\ grant'.expires = grant.expires /\ grant'.revoked
    BY <1>9 DEF Revokes, GrantRows
  <2>3. /\ grant # None => grant \in GrantRows /\ grant' \in GrantRows
        /\ (grant # None <=> grant' # None) /\ grant'.conn = grant.conn
        /\ grant'.uses = grant.uses /\ grant'.expires = grant.expires
        /\ grant.revoked => grant'.revoked
    BY <1>2, <1>5, <2>2
  <2>4. /\ Uploading({"execute"} \cup After)' => Uploading({"execute"} \cup After) /\ op' = op
        /\ Uploading({"execute", "grant"})' => Uploading({"execute", "grant"})
    BY <2>1, UploadSteps
  <2>5. Counted' <= Counted \/ Consumes
    BY <1>1 DEF ConsumeGrant, Consumes, Unmoved
  <2>6. CASE Counted' <= Counted
    <3>1. \A i \in Uploads' : grant' # None /\ effects'[i].conn = grant'.conn
      BY <1>3, <2>3 DEF Grants, Uploading, After
    <3>2. grant' # None => Counted' + grant'.uses <= GrantUses \/ Overrun'
      <4> SUFFICES ASSUME grant' # None PROVE Counted' + grant'.uses <= GrantUses \/ Overrun'
        OBVIOUS
      <4>1. grant \in GrantRows /\ grant # None
        BY <2>3
      <4>2. CASE Counted + grant.uses <= GrantUses
        BY <1>1, <1>2, <1>4, <2>3, <2>6, <4>1, <4>2
      <4>3. CASE Overrun
        <5>1. Counted' + grant'.uses <= GrantUses + 1 /\ grant'.uses > 0
          BY <1>1, <1>2, <1>4, <2>3, <2>6, <4>1, <4>3 DEF Overrun
        <5>2. grant'.revoked \/ grant'.expires <= now'
          BY <1>2, <1>4, <2>3, <4>1, <4>3 DEF Overrun
        <5>3. ~Uploading({"execute", "grant"})'
          BY <2>4, <4>3 DEF Overrun
        <5> QED BY <5>1, <5>2, <5>3 DEF Overrun
      <4> QED BY <4>1, <4>2, <4>3 DEF Grants
    <3>3. Uploading({"execute"} \cup After)' => grant' # None /\ grant'.conn = op'.conn
      BY <2>3, <2>4 DEF Grants
    <3>4. Uploading({"execute", "grant"})' => grant'.uses > 0
      BY <2>3, <2>4 DEF Grants
    <3> HIDE DEF Uploads, Counted
    <3> QED BY <3>1, <3>2, <3>3, <3>4 DEF Grants
  <2> QED BY <1>7, <2>5, <2>6
<1> QED BY <1>6, <1>7, <1>8, <1>9, GrantMoves

-----------------------------------------------------------------------------
(* The safety contexts.                                                      *)

(* Approved on a document up to d; of a navigation.                          *)
Earlier(i, d) == {s \in Widenings(i) : stepUps[s].binding.page.doc <= d}
Reopened(i) == \E s \in Widenings(i) : stepUps[s].binding.kind = "open"

(* The operations a context served, with the one that is about to answer and *)
(* whose use was its last step; and with the uses it has left.               *)
Taken(i) == Cardinality(Served(i)) + (IF Acting /\ step = "answer" /\ op.ctx = i THEN 1 ELSE 0)
Spends(i) == Taken(i) + contexts[i].uses

(* An operation on the page shown, from the check of its context to its use. *)
Midway ==
  Acting /\ step \in {"payment", "resource", "execute", "grant", "stepup", "record", "context"}

(* The steps that only navigations have, and those they do not have.         *)
Shape ==
  /\ step \in {"scope", "evaluate"} => ~Acting
  /\ step \in {"check", "payment", "resource", "grant", "context"} => Acting
  /\ op.verdict # "none" => Acting
  /\ step = "profile" => op.granted = 0

(* Documents and contexts that are named are no later than those there are;  *)
(* what was granted before the context is checked, was granted for it.       *)
Named ==
  /\ \A k \in DOMAIN effects : effects[k].kind # "open" => effects[k].ctx \in DOMAIN contexts
  /\ \A s \in DOMAIN stepUps :
       stepUps[s].binding.kind # "open" => stepUps[s].binding.page.doc <= page.doc
  /\ \A i \in DOMAIN contexts : contexts[i].status = "expired" => contexts[i].expires <= now
  /\ step = "check" /\ op.granted # 0 =>
       op.granted \in Widenings(op.req.ctx) /\ stepUps[op.granted].binding.page.doc = page.doc
  /\ Acting /\ step \in Before \cup {"execute"} => op.page = page
  /\ Acting /\ step \in After => op.page = page \/ op.page.doc < page.doc

(* The context of an operation was found usable on its page, and stays in    *)
(* use unless it expires or the page leaves its scope.                       *)
Live == {"ready", "step_up_required", "expired"}
Serves(i) ==
  LET x == contexts[i] IN
  /\ x.uses > 0 /\ x.asserted /\ op.page.origin \in x.origins /\ x.status \in Live
  /\ x.status = "step_up_required" => op.page.doc < page.doc
  /\ Reopened(i) \/ Spends(i) <= MaxUses + Cardinality(Earlier(i, op.page.doc))
OnContext ==
  /\ Midway \/ (Acting /\ step = "answer") => op.ctx \in DOMAIN contexts
  /\ Midway => Serves(op.ctx)

(* A use that was not counted leaves the context expired, or in need of a    *)
(* step-up on this document or a later one.                                  *)
Bounded(i) ==
  LET x == contexts[i] IN
  \/ Reopened(i)
  \/ Spends(i) <= MaxUses + Cardinality(Widenings(i))
  \/ /\ x.uses > 0 /\ x.expires <= now
     /\ Spends(i) <= MaxUses + Cardinality(Widenings(i)) + 1
  \/ /\ x.uses > 0 /\ x.status = "step_up_required"
     /\ Spends(i) <= MaxUses + Cardinality(Earlier(i, page.doc - 1)) + 1

Contexts == Shape /\ Named /\ OnContext /\ \A i \in DOMAIN contexts : Bounded(i)

(* Requests stay, whatever the step.                                         *)
LEMMA NextKept == ASSUME Typed, [Next]_vars PROVE Kept
<1>1. Starts \/ UNCHANGED vars => UNCHANGED stepUps
  BY DEF Starts, Begin, vars, brokers
<1>2. Checks => Kept
  BY ChecksTyped DEF Checks, Checked
<1>3. Ending => Kept
  BY ConsumeGrantBooks, EvaluateBooks, ConsumeStepUpBooks, RecordBooks, SelectBooks,
     ContextBooks, AnswerBooks, SameKept DEF Ending
<1> QED BY <1>1, <1>2, <1>3, SameKept, ExecuteTyped, EnvironmentTyped, NextCases

(* What was approved for a context stays approved.                           *)
LEMMA WideningsGrow ==
  ASSUME Typed, Kept, NEW i, NEW d \in Int, NEW e \in Int, d <= e
  PROVE  /\ Cardinality(Widenings(i)) \in Nat /\ Cardinality(Widenings(i))' \in Nat
         /\ Cardinality(Earlier(i, d)) \in Nat /\ Cardinality(Earlier(i, e))' \in Nat
         /\ Cardinality(Widenings(i)) <= Cardinality(Widenings(i))'
         /\ Cardinality(Earlier(i, d)) <= Cardinality(Earlier(i, e))'
         /\ Cardinality(Earlier(i, d)) <= Cardinality(Widenings(i))
         /\ Reopened(i) => Reopened(i)'
         /\ Widenings(i) \subseteq Widenings(i)'
         /\ IsFiniteSet(Widenings(i)) /\ IsFiniteSet(Widenings(i))'
<1>1. /\ stepUps \in Seq(StepUpRows) /\ Len(stepUps) \in Nat /\ DOMAIN stepUps = 1..Len(stepUps)
      /\ stepUps' \in Seq(StepUpRows) /\ Len(stepUps') \in Nat /\ DOMAIN stepUps' = 1..Len(stepUps')
  BY Parts DEF Kept
<1>2. \A s \in DOMAIN stepUps :
        /\ stepUps[s].binding.page.doc \in Nat
        /\ s \in DOMAIN stepUps' /\ stepUps'[s].binding = stepUps[s].binding
        /\ stepUps[s].status \in {"approved", "consumed"}
             => stepUps'[s].status \in {"approved", "consumed"}
  <2> TAKE s \in DOMAIN stepUps
  <2>1. stepUps[s] \in StepUpRows
    BY <1>1
  <2>2. stepUps[s].binding.page.doc \in Nat
    BY <2>1 DEF StepUpRows, Bindings, Pages
  <2> QED BY <2>2, ApprovedKept
<1>3. /\ Widenings(i) \in SUBSET (1..Len(stepUps)) /\ Widenings(i)' \in SUBSET (1..Len(stepUps'))
      /\ Earlier(i, d) \in SUBSET Widenings(i) /\ Earlier(i, e)' \in SUBSET Widenings(i)'
      /\ Widenings(i) \in SUBSET Widenings(i)' /\ Earlier(i, d) \in SUBSET Earlier(i, e)'
      /\ Reopened(i) => Reopened(i)'
  <2>1. /\ Widenings(i) \in SUBSET (1..Len(stepUps)) /\ Widenings(i)' \in SUBSET (1..Len(stepUps'))
        /\ Earlier(i, d) \in SUBSET Widenings(i) /\ Earlier(i, e)' \in SUBSET Widenings(i)'
    BY <1>1 DEF Widenings, Earlier
  <2>2. Widenings(i) \in SUBSET Widenings(i)'
    BY <1>2 DEF Widenings
  <2>3. \A s \in Widenings(i) : s \in DOMAIN stepUps
    BY DEF Widenings
  <2>4. Earlier(i, d) \in SUBSET Earlier(i, e)'
    BY <1>2, <2>2, <2>3 DEF Earlier
  <2>5. Reopened(i) => Reopened(i)'
    BY <1>2, <2>2, <2>3 DEF Reopened
  <2> QED BY <2>1, <2>2, <2>4, <2>5
<1>4. IsFiniteSet(1..Len(stepUps)) /\ IsFiniteSet(1..Len(stepUps'))
  BY <1>1, FS_Interval
<1>5. IsFiniteSet(Widenings(i)) /\ IsFiniteSet(Widenings(i)')
  BY <1>3, <1>4, FS_Subset
<1>6. IsFiniteSet(Earlier(i, d)) /\ IsFiniteSet(Earlier(i, e)')
  BY <1>3, <1>5, FS_Subset
<1>7. /\ Cardinality(Widenings(i)) <= Cardinality(Widenings(i)')
      /\ Cardinality(Earlier(i, d)) <= Cardinality(Earlier(i, e)')
      /\ Cardinality(Earlier(i, d)) <= Cardinality(Widenings(i))
  BY <1>3, <1>5, <1>6, FS_Subset
<1> HIDE DEF Widenings, Earlier
<1> QED BY <1>3, <1>5, <1>6, <1>7, FS_CardinalityType

(* Only the browser changes the page, to a later document.                   *)
LEMMA PageMoves ==
  ASSUME Typed, [Next]_vars
  PROVE  /\ page.doc \in Nat /\ page'.doc \in Nat /\ page.doc <= page'.doc
         /\ page' = page \/ (Execute /\ step = "execute" /\ page'.doc = page.doc + 1)
<1>1. page \in Pages /\ page.doc \in Nat
  BY Parts DEF Pages
<1>2. Execute => page' = page \/ page'.doc = page.doc + 1
  BY DEF Execute, Moved
<1>3. Starts \/ Checks \/ Ending \/ Environment \/ UNCHANGED vars => page' = page
  <2>1. Starts \/ UNCHANGED vars => page' = page
    BY DEF Starts, Begin, vars
  <2>2. Checks => page' = page
    BY ChecksTyped DEF Checks, Unmoved
  <2>3. Ending => page' = page
    BY DEF Ending, Unmoved, ConsumeGrant, EvaluateAfterOpen, ConsumeStepUp, RecordUse,
           SelectInstrument, ConsumeContext, Answer
  <2>4. Environment => page' = page
    BY DEF Environment, Approve, Reject, Observe, RegisterPolicy, RevokeInstrument, ReadUsage,
           KeepUsage, RegisterGrant, RevokeGrant, Tick
  <2> QED BY <2>1, <2>2, <2>3, <2>4
<1>4. page' = page \/ (Execute /\ step = "execute" /\ page'.doc = page.doc + 1)
  BY <1>2, <1>3, ExecuteTyped, NextCases
<1> QED BY <1>1, <1>4

(* An operation that a context served was the current one, or before it.     *)
LEMMA ServedGrows ==
  ASSUME Typed, Used, Own, [Next]_vars, NEW i
  PROVE  \/ Served(i)' = Served(i)
         \/ /\ Answer /\ step = "answer" /\ Acting /\ op.ctx = i /\ Len(effects) \notin Served(i)
            /\ Served(i)' = Served(i) \cup {Len(effects)}
<1> DEFINE n == Len(effects)
<1>1. Grows
  BY NextGrows
<1>2. Served(i) = {k \in Answered : effects[k].ctx = i /\ effects[k].kind # "open"}
  BY DEF Served, DoneUnder, Answered
<1>3. Served(i)' = {k \in Answered' : effects'[k].ctx = i /\ effects'[k].kind # "open"}
  BY DEF Served, DoneUnder, Answered
<1>4. \A k \in Answered : effects'[k].kind = effects[k].kind /\ effects'[k].ctx = effects[k].ctx
  BY <1>1 DEF Grows, Answered
<1>5. CASE Answered' = Answered
  BY <1>2, <1>3, <1>4, <1>5
<1>6. CASE /\ Answer /\ n \in DOMAIN effects /\ n \notin Answered
           /\ Answered' = Answered \cup {n}
  <2>1. step = "answer"
    BY <1>6, AnswerBooks DEF Books
  <2>2. effects'[n].kind = op.req.kind /\ effects'[n].ctx = op.ctx
    BY <1>1, <1>6, <2>1 DEF Own, After, Grows
  <2>3. CASE Acting /\ op.ctx = i
    BY <1>2, <1>3, <1>4, <1>6, <2>1, <2>2, <2>3 DEF Acting
  <2>4. CASE ~(Acting /\ op.ctx = i)
    BY <1>2, <1>3, <1>4, <1>6, <2>2, <2>4 DEF Acting
  <2> QED BY <2>3, <2>4
<1> QED BY <1>1, <1>5, <1>6 DEF Grows

FinitelyServed(i) ==
  IsFiniteSet(Served(i)) /\ Cardinality(Served(i)) \in Nat /\ Taken(i) \in Nat

LEMMA ServedFinite == ASSUME NEW i PROVE Typed => FinitelyServed(i)
<1> SUFFICES ASSUME Typed PROVE FinitelyServed(i)
  OBVIOUS
<1>1. Served(i) \in SUBSET (1..Len(effects)) /\ Len(effects) \in Nat
  BY Parts DEF Served, DoneUnder
<1>2. IsFiniteSet(1..Len(effects))
  BY <1>1, FS_Interval
<1>3. IsFiniteSet(Served(i))
  BY <1>1, <1>2, FS_Subset
<1>4. Cardinality(Served(i)) \in Nat
  BY <1>3, FS_CardinalityType
<1> QED BY <1>3, <1>4 DEF Taken, FinitelyServed

(* Only the last step of an operation takes from its context.                *)
LEMMA TakenGrows ==
  ASSUME Typed, Used, Own, Shape, [Next]_vars, NEW i
  PROVE  /\ Taken(i) \in Nat /\ Taken(i)' \in Nat
         /\ \/ Taken(i)' <= Taken(i)
            \/ /\ step = "context" /\ ConsumeContext /\ op.ctx = i
               /\ Taken(i)' = Taken(i) + 1
<1> DEFINE P == IF Acting /\ step = "answer" /\ op.ctx = i THEN 1 ELSE 0
           C == Cardinality(Served(i))
<1>1. Typed'
  BY NextTyped
<1>2. C \in Nat /\ C' \in Nat /\ IsFiniteSet(Served(i)) /\ Taken(i) \in Nat /\ Taken(i)' \in Nat
  <2>1. Typed => FinitelyServed(i)
    BY ServedFinite
  <2>2. Typed' => FinitelyServed(i)'
    BY ServedFinite, PTL
  <2> QED BY <1>1, <2>1, <2>2 DEF FinitelyServed
<1>3. /\ Taken(i) = C + P /\ Taken(i)' = C' + P' /\ P \in {0, 1} /\ P' \in {0, 1}
  BY DEF Taken
<1>4. /\ P = 1 <=> Acting /\ step = "answer" /\ op.ctx = i
      /\ P' = 1 <=> Acting' /\ step' = "answer" /\ op'.ctx = i
  OBVIOUS
<1> HIDE DEF P
<1>5. CASE Served(i)' = Served(i)
  <2>1. C' = C
    BY <1>5
  <2> HIDE DEF C
  <2>2. CASE UNCHANGED <<step, op>>
    <3>1. P' = P
      BY <1>3, <1>4, <2>2 DEF Acting
    <3> QED BY <1>2, <1>3, <2>1, <3>1
  <2>3. CASE step' # "answer"
    <3>1. P' = 0
      BY <1>3, <1>4, <2>3
    <3> QED BY <1>2, <1>3, <2>1, <3>1
  <2>4. CASE Checks /\ step \in Before /\ Advance
    <3>1. step' # "answer"
      BY <2>4, Locals, NextStep DEF Before, Steps, Position
    <3> QED BY <2>3, <3>1
  <2>5. CASE (Execute \/ Ending) /\ step \in {"execute"} \cup After /\ Advance /\ op' = op
    <3>1. step \in Steps
      BY <2>5 DEF Steps, Position, After
    <3>2. CASE ~Acting
      <4>1. P' = 0
        BY <1>3, <1>4, <2>5, <3>2 DEF Acting
      <4> QED BY <1>2, <1>3, <2>1, <4>1
    <3>3. CASE Acting /\ step \in {"execute", "grant", "stepup", "record"}
      <4>1. step' # "answer"
        BY <2>5, <3>1, <3>3, ActSteps, Locals
      <4> QED BY <2>3, <4>1
    <3>4. CASE step = "context"
      <4>1. P = 0
        BY <1>3, <1>4, <3>4
      <4>2. P' = 1 => op.ctx = i
        BY <1>4, <2>5
      <4>5. ConsumeContext
        BY <2>5, <3>4, ExecuteTyped, ConsumeGrantBooks, EvaluateBooks, ConsumeStepUpBooks,
           RecordBooks, SelectBooks, AnswerBooks DEF Ending, Books
      <4>3. CASE P' = 1
        BY <1>2, <1>3, <2>1, <3>4, <4>1, <4>2, <4>3, <4>5
      <4>4. CASE P' = 0
        BY <1>2, <1>3, <2>1, <4>1, <4>4
      <4> QED BY <1>3, <4>3, <4>4
    <3>5. CASE step = "answer" /\ Acting
      <4>1. P' = 1 => P = 1
        BY <1>4, <2>5, <3>5
      <4>2. CASE P' = 0
        BY <1>2, <1>3, <2>1, <4>2
      <4>3. CASE P' = 1 /\ P = 1
        BY <1>2, <1>3, <2>1, <4>3
      <4> QED BY <1>3, <4>1, <4>2, <4>3
    <3>6. step = "evaluate" => ~Acting
      BY DEF Shape
    <3> QED BY <2>5, <3>2, <3>3, <3>4, <3>5, <3>6 DEF After
  <2>6. UNCHANGED vars => UNCHANGED <<step, op>>
    BY DEF vars
  <2> QED BY <2>2, <2>3, <2>4, <2>5, <2>6, NextOp
<1>6. CASE /\ Answer /\ step = "answer" /\ Acting /\ op.ctx = i /\ Len(effects) \notin Served(i)
           /\ Served(i)' = Served(i) \cup {Len(effects)}
  <2>1. C' = C + 1
    <3>1. Cardinality(Served(i) \cup {Len(effects)}) = Cardinality(Served(i)) + 1
      BY <1>2, <1>6, FS_AddElement
    <3> QED BY <1>6, <3>1
  <2> HIDE DEF C
  <2>2. step' = "idle"
    BY <1>6 DEF Answer, Return
  <2>3. P = 1 /\ P' = 0
    BY <1>3, <1>4, <1>6, <2>2
  <2> QED BY <1>2, <1>3, <2>1, <2>3
<1> QED BY <1>2, <1>5, <1>6, ServedGrows

(* What an evaluation on a page of origin o makes of a context x; what it    *)
(* makes of it without a grant: one in need of a step-up stays in need.      *)
Follows(x, y, o) ==
  /\ y.uses = x.uses /\ y.expires = x.expires /\ (x.asserted => y.asserted)
  /\ x.origins \subseteq y.origins
  /\ y.status = "expired" => x.status = "expired" \/ x.expires <= now
  /\ x.uses > 0 /\ x.asserted /\ x.status \in Live => y.status \in Live
  /\ y.status = "step_up_required" => x.status = "step_up_required" \/ o \notin x.origins
Stays(x, y, o) ==
  /\ Follows(x, y, o)
  /\ x.uses > 0 /\ x.status = "step_up_required"
       => y.status = "step_up_required" \/ x.expires <= now

LEMMA FollowsOn ==
  ASSUME NEW x, NEW y, NEW z, NEW o, Follows(x, y, o), Follows(y, z, o)
  PROVE  Follows(x, z, o) /\ (Stays(x, y, o) /\ Stays(y, z, o) => Stays(x, z, o))
<1>1. Follows(x, z, o)
  BY DEF Follows
<1> QED BY <1>1 DEF Follows, Stays

LEMMA StaysAsItIs == ASSUME NEW x, NEW o PROVE Stays(x, x, o)
  BY DEF Stays, Follows

LEMMA Operators ==
  ASSUME Typed, NEW x \in ContextRows, NEW o \in Origins
  PROVE  /\ Stays(x, Refreshed(x), o) /\ Stays(x, Bound(Refreshed(x), o), o)
         /\ Stays(x, WithEvidence(x, o), o) /\ \A p : Follows(x, Extended(x, o), p)
         /\ \A r : Stays(x, Evaluated(x, r, o), o)
         /\ WithEvidence(x, o).status = "ready" =>
              /\ x.uses > 0 /\ WithEvidence(x, o).asserted /\ o \in WithEvidence(x, o).origins
              /\ ~(x.expires <= now)
<1> DEFINE y == Refreshed(x)  z == Bound(y, o)
<1>1. now \in Nat /\ x.uses \in Nat /\ x.expires \in Nat
  BY Parts, CommitAssumption DEF ContextRows
<1>2. y \in ContextRows /\ z \in ContextRows
  BY ContextTypes
<1>3. Stays(x, y, o) /\ (Usable(y) => x.uses > 0 /\ ~(x.expires <= now))
  <2>1. CASE y = x /\ x.status \in {"consumed", "expired"}
    BY <2>1, StaysAsItIs DEF Usable
  <2>2. CASE y = x /\ ~(now >= x.expires) /\ x.uses # 0
    BY <1>1, <2>2, StaysAsItIs
  <2>3. CASE y = [x EXCEPT !.status = "expired"] /\ now >= x.expires
    BY <1>1, <2>3 DEF Stays, Follows, ContextRows, Usable, Live
  <2>4. CASE y = [x EXCEPT !.status = "consumed"] /\ x.uses = 0
    BY <1>1, <2>4 DEF Stays, Follows, ContextRows, Usable, Live
  <2> QED BY <2>1, <2>2, <2>3, <2>4 DEF Refreshed
<1> HIDE DEF y
<1>4. Stays(y, z, o) /\ (Usable(z) => z = y /\ o \in z.origins)
  BY <1>2, StaysAsItIs DEF Bound, Stays, Follows, ContextRows, Usable, Live
<1>5. Stays(x, z, o)
  BY <1>3, <1>4, FollowsOn DEF Stays
<1> HIDE DEF z
<1>6. ASSUME NEW w \in ContextRows, w.status \in {"ready", "assertion_required", "step_up_required"}
      PROVE  Follows(w, Settled(w), o) /\ (w.status # "step_up_required" => Stays(w, Settled(w), o))
  BY <1>6 DEF Settled, Stays, Follows, ContextRows, Live
<1>7. Stays(x, WithEvidence(x, o), o)
  <2>1. CASE Usable(z)
    BY <1>2, <1>5, <1>6, <2>1, FollowsOn DEF WithEvidence, Usable, Stays, y, z
  <2>2. CASE ~Usable(z)
    BY <1>5, <2>2 DEF WithEvidence, y, z
  <2> QED BY <2>1, <2>2
<1>8. ASSUME WithEvidence(x, o).status = "ready"
      PROVE  /\ x.uses > 0 /\ WithEvidence(x, o).asserted /\ o \in WithEvidence(x, o).origins
             /\ ~(x.expires <= now)
  <2>1. Usable(z) /\ WithEvidence(x, o) = Settled(z)
    BY <1>8 DEF WithEvidence, Usable, y, z
  <2>2. Usable(y) /\ o \in z.origins
    BY <1>4, <2>1
  <2>3. Settled(z).status = "ready" => Settled(z).asserted /\ Settled(z).origins = z.origins
    BY <1>2 DEF Settled, ContextRows
  <2> QED BY <1>3, <1>8, <2>1, <2>2, <2>3
<1>9. Follows(x, Extended(x, o), o) /\ Extended(x, o).status # "step_up_required"
  <2>1. CASE y.status \in {"expired", "consumed", "blocked"}
    BY <1>3, <2>1 DEF Extended, Stays, y
  <2>2. CASE y.status \notin {"expired", "consumed", "blocked"}
    <3> DEFINE w == [y EXCEPT !.origins = @ \cup {o}]
    <3>1. w \in ContextRows /\ w.status = y.status
      BY <1>2 DEF ContextRows
    <3>2. Follows(y, w, o)
      BY <1>2 DEF ContextRows, Follows
    <3>3. Extended(x, o) = Settled(w)
      BY <2>2 DEF Extended, y
    <3> HIDE DEF w
    <3>4. Follows(w, Settled(w), o)
      BY <1>2, <1>6, <2>2, <3>1 DEF ContextRows, ContextStatuses
    <3>5. Settled(w).status # "step_up_required"
      BY <3>1 DEF Settled, ContextRows
    <3> QED BY <1>3, <3>2, <3>3, <3>4, <3>5, FollowsOn DEF Stays
  <2> QED BY <2>1, <2>2
<1>11. \A p : Follows(x, Extended(x, o), p)
  BY <1>9 DEF Follows
<1>10. ASSUME NEW r PROVE Stays(x, Evaluated(x, r, o), o)
  <2> DEFINE u == IF r.ctx = 0 /\ ~r.asserts THEN Refreshed(x) ELSE Bound(Refreshed(x), o)
  <2>1. u \in ContextRows /\ Stays(x, u, o)
    BY <1>2, <1>3, <1>5 DEF y, z
  <2>2. Evaluated(x, r, o) \in {u, Settled([u EXCEPT !.asserted = TRUE])}
        /\ (Evaluated(x, r, o) # u => Usable(u))
    BY DEF Evaluated
  <2> HIDE DEF u
  <2>3. CASE Usable(u) /\ Evaluated(x, r, o) = Settled([u EXCEPT !.asserted = TRUE])
    <3> DEFINE w == [u EXCEPT !.asserted = TRUE]
    <3>1. w \in ContextRows /\ w.status = u.status /\ Stays(u, w, o)
      BY <2>1 DEF ContextRows, Stays, Follows
    <3> HIDE DEF w
    <3>2. Stays(w, Settled(w), o)
      BY <1>6, <2>3, <3>1 DEF Usable
    <3>3. Stays(x, w, o)
      BY <2>1, <3>1, FollowsOn DEF Stays
    <3>4. Evaluated(x, r, o) = Settled(w)
      BY <2>3 DEF w
    <3> QED BY <3>2, <3>3, <3>4, FollowsOn DEF Stays
  <2> QED BY <2>1, <2>2, <2>3
<1> QED BY <1>3, <1>5, <1>7, <1>8, <1>10, <1>11 DEF y, z

(* What a step does to the contexts.                                         *)
Revived(i) == Reopened(i) \/ \E s \in Widenings(i) : stepUps[s].binding.page.doc = page.doc
Turns(x, y, i) == Stays(x, y, page.origin) \/ (Follows(x, y, page.origin) /\ Revived(i))
Uses(i) ==
  ConsumeContext /\ step = "context" /\ i = op.ctx /\ contexts'[i] = Consumed(contexts[i])
Moves ==
  /\ \A i \in DOMAIN contexts : i \in DOMAIN contexts' /\ (Turns(contexts[i], contexts'[i], i) \/ Uses(i))
  /\ \A i \in DOMAIN contexts' \ DOMAIN contexts :
       /\ contexts'[i].uses = MaxUses
       /\ contexts'[i].status = "expired" => contexts'[i].expires <= now

LEMMA SameMoves == ASSUME UNCHANGED contexts PROVE Moves
  BY StaysAsItIs DEF Moves, Turns

LEMMA OneMoves ==
  ASSUME Typed, NEW k, NEW v, contexts' = [contexts EXCEPT ![k] = v],
         k \in DOMAIN contexts => Turns(contexts[k], v, k)
  PROVE  Moves
<1>1. DOMAIN contexts' = DOMAIN contexts
  OBVIOUS
<1>2. ASSUME NEW i \in DOMAIN contexts PROVE Turns(contexts[i], contexts'[i], i)
  <2>1. CASE i = k
    BY <2>1
  <2>2. CASE i # k
    BY <2>2, StaysAsItIs DEF Turns
  <2> QED BY <2>1, <2>2
<1> QED BY <1>1, <1>2 DEF Moves

LEMMA ToldMoves ==
  ASSUME Typed, step # "idle", NEW k, k = Asked(op.req), NEW v,
         contexts' = [Told(op.req) EXCEPT ![k] = v],
         Follows(Told(op.req)[k], v, page.origin),
         k \in DOMAIN contexts => Turns(contexts[k], v, k)
  PROVE  Moves
<1>1. CASE op.req.ctx # 0
  BY <1>1, OneMoves DEF Told
<1>2. CASE op.req.ctx = 0
  <2> DEFINE d == Declare(op.conn, op.req)
  <2>1. d \in ContextRows /\ d.uses = MaxUses /\ d.status # "expired"
    BY DeclareType DEF Declare
  <2>2. contexts \in Seq(ContextRows) /\ Told(op.req) = Append(contexts, d) /\ k = Len(contexts) + 1
    BY <1>2, Parts DEF Told, Asked
  <2> HIDE DEF d
  <2>3. /\ Len(contexts) \in Nat /\ DOMAIN contexts = 1..Len(contexts)
        /\ DOMAIN Told(op.req) = 1..(Len(contexts) + 1) /\ Told(op.req)[k] = d
        /\ \A i \in 1..Len(contexts) : Told(op.req)[i] = contexts[i]
    BY <2>1, <2>2, AddSeq
  <2>4. DOMAIN contexts' = 1..(Len(contexts) + 1) /\ contexts'[k] = v
        /\ \A i \in 1..Len(contexts) : contexts'[i] = contexts[i]
    <3>1. PICK q : q = Told(op.req)
      OBVIOUS
    <3>2. PICK n \in Nat : n = Len(contexts)
      BY <2>3
    <3>3. contexts' = [q EXCEPT ![n + 1] = v] /\ DOMAIN q = 1..(n + 1)
      BY <2>2, <2>3, <3>1, <3>2
    <3>4. /\ DOMAIN contexts' = 1..(n + 1) /\ contexts'[n + 1] = v
          /\ \A i \in 1..n : contexts'[i] = q[i]
      BY <3>3
    <3> QED BY <2>2, <2>3, <3>1, <3>2, <3>4
  <2>5. v.uses = MaxUses /\ (v.status = "expired" => v.expires <= now)
    BY <2>1, <2>3 DEF Follows
  <2> QED BY <2>2, <2>3, <2>4, <2>5, StaysAsItIs DEF Moves, Turns
<1> QED BY <1>1, <1>2

(* A step-up that covers the operation was approved for the context.         *)
LEMMA GrantedWidens ==
  ASSUME Typed, step # "idle", NEW reason \in {"profile", "origin"}, NEW i \in Nat,
         Granted(Binding(reason, i, NoScope))
  PROVE  /\ op.req.stepUp \in Widenings(i) /\ op.req.stepUp # 0 /\ op.granted = 0
         /\ stepUps[op.req.stepUp].binding.page = op.page
         /\ stepUps[op.req.stepUp].binding.kind = op.req.kind
<1>1. /\ op.req.stepUp \in DOMAIN stepUps /\ stepUps[op.req.stepUp].status = "approved"
      /\ op.granted = 0 /\ op.req.stepUp # 0
  BY DEF Typed, TypeOK, LocalsSet, Granted, MayUse, Covers, Status, Expired
<1>2. stepUps[op.req.stepUp].binding = Binding(reason, i, NoScope)
  BY DEF Granted, Covers
<1>3. /\ Binding(reason, i, NoScope).ctx = i /\ Binding(reason, i, NoScope).reason = reason
      /\ Binding(reason, i, NoScope).page = op.page /\ Binding(reason, i, NoScope).kind = op.req.kind
  BY DEF Binding
<1>4. reason \notin Escalations
  BY DEF Escalations
<1> QED BY <1>1, <1>2, <1>3, <1>4 DEF Widenings

LEMMA ScopeMoves == ASSUME Typed, Shape, ScopeStep PROVE Moves
<1> DEFINE b == Binding("origin", op.req.ctx, NoScope)  o == op.page.origin
           wide == Extended(contexts[op.req.ctx], o)
<1>1. step = "scope" /\ op.req.kind = "open"
  BY DEF ScopeStep, Shape, Acting
<1>2. UNCHANGED contexts \/ (Granted(b) /\ contexts' = [contexts EXCEPT ![op.req.ctx] = wide])
  BY DEF ScopeStep
<1>3. CASE Granted(b) /\ contexts' = [contexts EXCEPT ![op.req.ctx] = wide]
  <2>1. Reopened(op.req.ctx)
    BY <1>1, <1>3, Locals, GrantedWidens DEF Reopened
  <2>2. ASSUME op.req.ctx \in DOMAIN contexts PROVE Follows(contexts[op.req.ctx], wide, page.origin)
    <3>1. contexts[op.req.ctx] \in ContextRows /\ o \in Origins
      BY <2>2, Locals
    <3> HIDE DEF o
    <3> QED BY <3>1, Operators
  <2> HIDE DEF wide
  <2> QED BY <1>3, <2>1, <2>2, OneMoves DEF Turns, Revived
<1> QED BY <1>2, <1>3, SameMoves

(* The context may be used on the page shown.                                *)
Ready(x) ==
  /\ x.status = "ready" /\ x.uses > 0 /\ x.asserted /\ page.origin \in x.origins
  /\ ~(x.expires <= now)

LEMMA EvidenceReady ==
  ASSUME Typed, NEW x \in ContextRows, NEW y, y = WithEvidence(x, page.origin)
  PROVE  Stays(x, y, page.origin) /\ (y.status = "ready" => Ready(y))
<1>1. page.origin \in Origins
  BY Locals
<1>2. Stays(x, y, page.origin)
  BY <1>1, Operators
<1>3. y.uses = x.uses /\ y.expires = x.expires
  BY <1>2 DEF Stays, Follows
<1> QED BY <1>1, <1>2, <1>3, Operators DEF Ready

LEMMA PaymentMoves ==
  ASSUME Typed, Shape, Named, PaymentStep
  PROVE  /\ Moves
         /\ op.ctx \in DOMAIN contexts /\ Advance => Ready(contexts'[op.ctx]) \/ Return
<1> DEFINE x == WithEvidence(contexts[op.ctx], op.page.origin)
           apply == /\ contexts' = [contexts EXCEPT ![op.ctx] = x]
                    /\ x.status = "ready" \/ Return
<1>1. op.page.origin = page.origin
  BY DEF PaymentStep, Shape, Named, Before
<1>2. (Return /\ UNCHANGED contexts) \/ apply
  <2>1. PICK level \in Levels :
          LET D == Authorize(op.req.amount, level, op.req.kind = "pay") IN
          Judge(D, FinancialScope(D, level, TRUE),
                /\ contexts' = [contexts EXCEPT ![op.ctx] = x]
                /\ IF x.status = "ready" THEN GoOnAs(D) ELSE Return)
    BY DEF PaymentStep
  <2> HIDE DEF x
  <2> QED BY <2>1 DEF Judge, Escalate
<1>3. CASE UNCHANGED contexts /\ Return
  BY <1>3, SameMoves
<1>4. CASE apply
  <2>1. contexts' = [contexts EXCEPT ![op.ctx] = x] /\ (x.status = "ready" \/ Return)
    BY <1>4
  <2>2. ASSUME op.ctx \in DOMAIN contexts
        PROVE  Stays(contexts[op.ctx], x, page.origin) /\ (x.status = "ready" => Ready(x))
    <3>1. contexts[op.ctx] \in ContextRows
      BY <2>2, Locals
    <3>2. x = WithEvidence(contexts[op.ctx], page.origin)
      BY <1>1
    <3> HIDE DEF x
    <3> QED BY <3>1, <3>2, EvidenceReady
  <2> HIDE DEF x
  <2>3. Moves
    BY <2>1, <2>2, OneMoves DEF Turns
  <2>4. op.ctx \in DOMAIN contexts => contexts'[op.ctx] = x
    BY <2>1
  <2> QED BY <2>1, <2>2, <2>3, <2>4
<1> QED BY <1>2, <1>3, <1>4

LEMMA ResourceMoves ==
  ASSUME Typed, Shape, Named, ResourceStep
  PROVE  Moves
<1> DEFINE x == WithEvidence(contexts[op.ctx], op.page.origin)
<1>1. op.page.origin = page.origin
  BY DEF ResourceStep, Shape, Named, Before
<1>2. UNCHANGED contexts \/ contexts' = [contexts EXCEPT ![op.ctx] = x]
  BY DEF ResourceStep
<1>3. ASSUME op.ctx \in DOMAIN contexts PROVE Stays(contexts[op.ctx], x, page.origin)
  <2>1. contexts[op.ctx] \in ContextRows
    BY <1>3, Locals
  <2>2. x = WithEvidence(contexts[op.ctx], page.origin)
    BY <1>1
  <2> HIDE DEF x
  <2> QED BY <2>1, <2>2, EvidenceReady
<1> HIDE DEF x
<1> QED BY <1>2, <1>3, SameMoves, OneMoves DEF Turns

LEMMA EvaluateMoves == ASSUME Typed, EvaluateAfterOpen PROVE Moves
<1>1. PICK k : k = Asked(op.req)
  OBVIOUS
<1> DEFINE v == Evaluated(Told(op.req)[k], op.req, page.origin)
<1>2. step # "idle" /\ (UNCHANGED contexts \/ contexts' = [Told(op.req) EXCEPT ![k] = v]
                       \/ contexts' = [Told(op.req) EXCEPT ![k] = Evaluated(@, op.req, page.origin)])
  BY <1>1 DEF EvaluateAfterOpen
<1>3. Told(op.req)[k] \in ContextRows /\ k \in DOMAIN Told(op.req)
  BY <1>1, <1>2, ToldTypes
<1>4. Stays(Told(op.req)[k], v, page.origin)
  <2>1. PICK x \in ContextRows : x = Told(op.req)[k]
    BY <1>3
  <2>2. page.origin \in Origins
    BY Locals
  <2>3. Stays(x, Evaluated(x, op.req, page.origin), page.origin)
    BY <2>2, Operators
  <2> QED BY <2>1, <2>3
<1>5. k \in DOMAIN contexts => Told(op.req)[k] = contexts[k]
  BY <1>1, Parts DEF Told, Asked
<1> HIDE DEF v
<1>6. ASSUME contexts' = [Told(op.req) EXCEPT ![k] = v] PROVE Moves
  BY <1>1, <1>2, <1>4, <1>5, <1>6, ToldMoves DEF Stays, Turns
<1> QED BY <1>2, <1>6, SameMoves DEF v

LEMMA ObserveMoves == ASSUME Typed, NEW c \in Conns, Observe(c) PROVE Moves
<1>1. PICK k : k = Max(Latest(c))
  OBVIOUS
<1> DEFINE v == Bound(Refreshed(contexts[k]), page.origin)
<1>2. contexts' = [contexts EXCEPT ![k] = v]
  BY <1>1 DEF Observe
<1>3. k \in DOMAIN contexts => Stays(contexts[k], v, page.origin)
  BY Locals, Operators
<1> HIDE DEF v
<1> QED BY <1>2, <1>3, OneMoves DEF Turns

LEMMA ContextMoves == ASSUME Typed, ConsumeContext PROVE Moves
<1>1. contexts' = [contexts EXCEPT ![op.ctx] = Consumed(contexts[op.ctx])] /\ step = "context"
  BY DEF ConsumeContext
<1>2. DOMAIN contexts' = DOMAIN contexts
  BY <1>1
<1>3. ASSUME NEW i \in DOMAIN contexts PROVE Turns(contexts[i], contexts'[i], i) \/ Uses(i)
  <2>1. CASE i = op.ctx
    BY <1>1, <2>1 DEF Uses
  <2>2. CASE i # op.ctx
    BY <1>1, <2>2, StaysAsItIs DEF Turns
  <2> QED BY <2>1, <2>2
<1> QED BY <1>2, <1>3 DEF Moves

LEMMA CheckMoves ==
  ASSUME Typed, Shape, Named, CheckStep
  PROVE  /\ Moves
         /\ Return \/ (op'.ctx \in DOMAIN contexts' /\ Ready(contexts'[op'.ctx]))
<1> DEFINE r == op.req  o == op.page.origin  all == Told(op.req)  id == Asked(op.req)
           x == Evaluated(all[id], r, o)
           b == Binding("origin", id, NoScope)
           beyond == x.status = "step_up_required" /\ o \notin Declared
           granted == op.granted # 0 \/ Granted(b)
           e == Extended(x, o)
           w == IF beyond /\ granted THEN e ELSE x
           y == WithEvidence(w, o)
           useful == IF beyond THEN granted /\ Usable(e) ELSE Usable(x)
           z == IF useful THEN y ELSE IF beyond THEN e ELSE x
<1>1. step = "check" /\ step # "idle" /\ o = page.origin /\ Acting /\ op.page = page
  BY DEF CheckStep, Shape, Named, Before
<1>2. /\ all \in Seq(ContextRows) /\ id \in Nat /\ id \in DOMAIN all /\ all[id] \in ContextRows
      /\ o \in Origins
  BY <1>1, ToldTypes, Locals
<1>3. x \in ContextRows /\ Stays(all[id], x, o)
  <2> HIDE DEF all, id, r, o
  <2> QED BY <1>2, ContextTypes, Operators
<1>4. e \in ContextRows /\ Follows(x, e, o)
  <2> HIDE DEF x, o
  <2> QED BY <1>2, <1>3, ContextTypes, Operators
<1>5. w \in ContextRows /\ Follows(x, w, o) /\ (~beyond => w = x) /\ (beyond /\ granted => w = e)
  <2> HIDE DEF x, e, o, beyond, granted
  <2> QED BY <1>3, <1>4, StaysAsItIs DEF Stays
<1>6. y \in ContextRows /\ Stays(w, y, o) /\ (y.status = "ready" => Ready(y))
  <2> HIDE DEF w, o
  <2>1. o = page.origin
    BY <1>1
  <2>2. y = WithEvidence(w, page.origin)
    BY <2>1
  <2> QED BY <1>2, <1>5, <2>1, <2>2, ContextTypes, EvidenceReady
<1>7. /\ Follows(all[id], z, o) /\ (beyond \/ Stays(all[id], z, o))
      /\ z.status = "ready" /\ (beyond => granted) => Ready(z)
  <2>1. CASE useful
    <3>1. z = y
      BY <2>1
    <3> HIDE DEF all, id, r, o, x, e, w, y, z, beyond, granted, useful
    <3>2. Follows(x, y, o) /\ (~beyond => Stays(x, y, o))
      BY <1>5, <1>6, FollowsOn DEF Stays
    <3>3. Follows(all[id], y, o) /\ (~beyond => Stays(all[id], y, o))
      BY <1>3, <3>2, FollowsOn DEF Stays
    <3> QED BY <1>6, <3>1, <3>3
  <2>2. CASE ~useful /\ beyond
    <3>1. z = e /\ (granted => ~Usable(e))
      BY <2>2
    <3> HIDE DEF all, id, r, o, x, e, w, y, z, beyond, granted, useful
    <3>2. Follows(all[id], e, o)
      BY <1>3, <1>4, FollowsOn DEF Stays
    <3> QED BY <2>2, <3>1, <3>2 DEF Usable
  <2>3. CASE ~useful /\ ~beyond
    <3>1. z = x /\ ~Usable(x)
      BY <2>3
    <3> HIDE DEF all, id, r, o, x, e, w, y, z, beyond, granted, useful
    <3> QED BY <1>3, <3>1 DEF Usable, Stays
  <2> QED BY <2>1, <2>2, <2>3
<1>8. \/ Return /\ UNCHANGED contexts
      \/ contexts' = [all EXCEPT ![id] = x] /\ Escalate(b)
      \/ /\ contexts' = [all EXCEPT ![id] = z] /\ (beyond => granted)
         /\ \/ Return
            \/ z.status = "ready" /\ op' = [op EXCEPT !.ctx = id,
                                            !.granted = IF beyond /\ @ = 0 THEN r.stepUp ELSE @]
  BY DEF CheckStep
<1>9. id \in DOMAIN contexts => all[id] = contexts[id] /\ id = op.req.ctx
  BY Parts DEF Told, Asked
<1>10. ASSUME granted PROVE id \in DOMAIN contexts => Revived(id)
  <2>1. CASE op.granted # 0
    BY <1>1, <1>9, <2>1 DEF Named, Revived
  <2>2. CASE Granted(b)
    <3>1. op.req.stepUp \in Widenings(id) /\ stepUps[op.req.stepUp].binding.page = page
      <4> HIDE DEF id
      <4> QED BY <1>1, <1>2, <2>2, GrantedWidens
    <3> QED BY <3>1 DEF Revived
  <2> QED BY <1>10, <2>1, <2>2
<1> PICK k : k = id
  OBVIOUS
<1>11. k = Asked(op.req) /\ all = Told(op.req) /\ k = id
  OBVIOUS
<1> HIDE DEF all, id, r, x, e, w, y, z, beyond, granted, useful
<1>12. ASSUME contexts' = [all EXCEPT ![id] = x] PROVE Moves
  <2>1. contexts' = [Told(op.req) EXCEPT ![k] = x]
    BY <1>11, <1>12
  <2>2. Follows(Told(op.req)[k], x, page.origin)
    BY <1>1, <1>3, <1>11 DEF Stays
  <2>3. k \in DOMAIN contexts => Turns(contexts[k], x, k)
    BY <1>1, <1>3, <1>9, <1>11 DEF Turns
  <2> QED BY <1>1, <1>11, <2>1, <2>2, <2>3, ToldMoves
<1>13. ASSUME contexts' = [all EXCEPT ![id] = z], beyond => granted PROVE Moves
  <2>1. contexts' = [Told(op.req) EXCEPT ![k] = z]
    BY <1>11, <1>13
  <2>2. Follows(Told(op.req)[k], z, page.origin)
    BY <1>1, <1>7, <1>11
  <2>3. k \in DOMAIN contexts => Turns(contexts[k], z, k)
    BY <1>1, <1>7, <1>9, <1>10, <1>11, <1>13 DEF Turns
  <2> QED BY <1>1, <1>11, <2>1, <2>2, <2>3, ToldMoves
<1>14. ASSUME contexts' = [all EXCEPT ![id] = z], beyond => granted, z.status = "ready",
              op' = [op EXCEPT !.ctx = id, !.granted = IF beyond /\ @ = 0 THEN r.stepUp ELSE @]
       PROVE  op'.ctx \in DOMAIN contexts' /\ Ready(contexts'[op'.ctx])
  <2>1. op'.ctx = id
    BY <1>14, Locals DEF Operations
  <2>2. id \in DOMAIN contexts' /\ contexts'[id] = z
    BY <1>2, <1>14
  <2> QED BY <1>7, <1>14, <2>1, <2>2
<1>15. Escalate(b) => Return
  BY DEF Escalate
<1> HIDE DEF b
<1>16. Moves
  BY <1>8, <1>12, <1>13, SameMoves
<1> QED BY <1>8, <1>14, <1>15, <1>16

LEMMA NextMoves == ASSUME Typed, Shape, Named, [Next]_vars PROVE Moves
<1>1. Starts \/ Execute \/ UNCHANGED vars => UNCHANGED contexts
  BY DEF Starts, Begin, Execute, vars, brokers
<1>2. Checks => Moves
  <2>1. ProfileStep \/ FinancialCommitStep => UNCHANGED contexts
    BY DEF ProfileStep, FinancialCommitStep, Judge, ProfileScope, FinancialScope
  <2> QED BY <2>1, SameMoves, ScopeMoves, CheckMoves, PaymentMoves, ResourceMoves DEF Checks
<1>3. Ending => Moves
  <2>1. ConsumeGrant \/ ConsumeStepUp \/ RecordUse \/ SelectInstrument \/ Answer => UNCHANGED contexts
    BY DEF ConsumeGrant, ConsumeStepUp, RecordUse, SelectInstrument, Answer, brokers
  <2> QED BY <2>1, SameMoves, EvaluateMoves, ContextMoves DEF Ending
<1>4. Environment => Moves
  <2>1. Environment => UNCHANGED contexts \/ \E c \in Conns : Observe(c)
    BY DEF Environment, Approve, Reject, RegisterPolicy, RevokeInstrument, ReadUsage,
           KeepUsage, RegisterGrant, RevokeGrant, Tick, brokers
  <2> QED BY <2>1, SameMoves, ObserveMoves
<1> QED BY <1>1, <1>2, <1>3, <1>4, SameMoves, NextCases

LEMMA AdvanceShape ==
  ASSUME Advance
  PROVE  /\ step' \in {"scope", "evaluate"} => ~Acting
         /\ step' \in {"check", "payment", "resource", "grant", "context"} => Acting
<1>1. Has(step')
  BY DEF Advance, Later
<1> QED BY <1>1 DEF Has, Acting, Pays

LEMMA NextShape == ASSUME Typed, Shape, [Next]_vars PROVE Shape'
<1>1. CASE step' = "idle" /\ op' = NoOp
  BY <1>1 DEF Shape, NoOp
<1>2. CASE Starts /\ step' = "profile"
  <2>1. PICK c \in Conns, r \in Requests : Begin(c, r)
    BY <1>2 DEF Starts
  <2>2. op'.verdict = "none"
    BY <2>1 DEF Begin, NoOp
  <2> QED BY <1>2, <2>1, <2>2, BeginTyped DEF Shape
<1>3. CASE /\ Checks /\ step \in Before /\ Advance /\ op'.req = op.req
           /\ op'.verdict = op.verdict \/ step = "payment"
  <2>1. step' # "profile"
    BY <1>3, Locals, NextStep DEF Before, Steps, Position
  <2> QED BY <1>3, <2>1, AdvanceShape DEF Shape, Acting
<1>4. CASE step \in {"execute"} \cup After /\ Advance /\ op' = op
  <2>1. step' # "profile"
    BY <1>4, Locals, NextStep DEF After, Steps, Position
  <2> QED BY <1>4, <2>1, AdvanceShape DEF Shape, Acting
<1>5. CASE UNCHANGED <<step, op>>
  BY <1>5 DEF Shape, Acting
<1> QED BY <1>1, <1>2, <1>3, <1>4, <1>5, NextOp DEF vars

(* A new request is of the current operation, on its page.                   *)
LEMMA NewRequests ==
  ASSUME Typed, [Next]_vars
  PROVE  \A s \in DOMAIN stepUps' \ DOMAIN stepUps :
           /\ step \in Before /\ stepUps'[s].binding.page = op.page
           /\ stepUps'[s].binding.kind = op.req.kind
<1> DEFINE New == \A s \in DOMAIN stepUps' \ DOMAIN stepUps :
                    /\ stepUps'[s].binding.page = op.page
                    /\ stepUps'[s].binding.kind = op.req.kind
<1>1. ASSUME step # "idle", NEW reason \in Reasons, NEW c \in Nat,
             NEW a \in Scopes, Escalate(Binding(reason, c, a))
      PROVE  New
  <2> DEFINE b == Binding(reason, c, a)
             row == [binding |-> b, status |-> "pending", expires |-> now + StepUpTTL]
  <2>1. b \in Bindings /\ b.page = op.page /\ b.kind = op.req.kind
    BY <1>1, BindingType
  <2>2. UNCHANGED stepUps \/ stepUps' = Append(stepUps, row)
    BY <1>1 DEF Escalate, RequestStepUp
  <2> HIDE DEF b
  <2>3. row \in StepUpRows /\ stepUps \in Seq(StepUpRows) /\ row.binding = b
    BY <2>1, CommitAssumption, Parts DEF StepUpRows, StepUpStatuses
  <2> HIDE DEF row
  <2>4. CASE stepUps' = Append(stepUps, row)
    <3>1. /\ DOMAIN stepUps = 1..Len(stepUps) /\ DOMAIN stepUps' = 1..(Len(stepUps) + 1)
          /\ stepUps'[Len(stepUps) + 1] = row /\ Len(stepUps) \in Nat
      BY <2>3, <2>4, AddSeq
    <3>2. \A s \in DOMAIN stepUps' \ DOMAIN stepUps : stepUps'[s] = row
      BY <3>1
    <3> QED BY <2>1, <2>3, <3>2
  <2> QED BY <2>2, <2>4
<1>2. CASE DOMAIN stepUps' = DOMAIN stepUps
  BY <1>2
<1>3. CASE Checks
  <2>1. step \in Before /\ step # "idle"
    BY <1>3, ChecksTyped DEF Checks, Checked, Before
  <2>2. /\ NoScope \in Scopes /\ op.ctx \in Nat /\ op.req.ctx \in Nat /\ Asked(op.req) \in Nat
        /\ {"profile", "origin"} \cup Escalations = Reasons
    BY <2>1, Locals, ToldTypes DEF Reasons
  <2> HIDE DEF New
  <2>3. ProfileStep => UNCHANGED stepUps \/ New
    BY <1>1, <2>1, <2>2 DEF ProfileStep, ProfileScope
  <2>4. ScopeStep => UNCHANGED stepUps \/ New
    BY <1>1, <2>1, <2>2 DEF ScopeStep
  <2>5. CheckStep => UNCHANGED stepUps \/ New
    <3>1. CheckStep => UNCHANGED stepUps \/ Escalate(Binding("origin", Asked(op.req), NoScope))
      BY DEF CheckStep
    <3> QED BY <1>1, <2>1, <2>2, <3>1
  <2>6. PaymentStep \/ FinancialCommitStep => UNCHANGED stepUps \/ New
    <3>1. ASSUME NEW D \in Escalations, NEW level \in Levels, NEW named \in BOOLEAN,
                 Escalate(FinancialScope(D, level, named))
          PROVE  New
      <4>1. [amount |-> op.req.amount, assurance |-> level, named |-> named] \in Scopes
        BY Locals DEF Scopes
      <4> QED BY <1>1, <2>1, <2>2, <3>1, <4>1 DEF FinancialScope
    <3>2. PaymentStep => UNCHANGED stepUps
            \/ \E D \in Escalations, level \in Levels : Escalate(FinancialScope(D, level, TRUE))
      BY DEF PaymentStep, Judge
    <3>3. FinancialCommitStep => UNCHANGED stepUps
            \/ \E D \in Escalations, level \in Levels, named \in BOOLEAN : Escalate(FinancialScope(D, level, named))
      BY DEF FinancialCommitStep, Judge
    <3> QED BY <3>1, <3>2, <3>3
  <2>7. ResourceStep => UNCHANGED stepUps
    BY DEF ResourceStep
  <2>8. DOMAIN stepUps' = DOMAIN stepUps \/ New
    BY <1>3, <2>3, <2>4, <2>5, <2>6, <2>7 DEF Checks
  <2> QED BY <1>2, <2>1, <2>8 DEF New
<1>4. Starts \/ Execute \/ UNCHANGED vars => UNCHANGED stepUps
  BY DEF Starts, Begin, Execute, vars, brokers
<1>5. Ending => DOMAIN stepUps' = DOMAIN stepUps
  BY DEF Ending, ConsumeGrant, EvaluateAfterOpen, ConsumeStepUp, RecordUse, SelectInstrument,
         ConsumeContext, Answer, brokers
<1>6. Environment => DOMAIN stepUps' = DOMAIN stepUps
  BY DEF Environment, Approve, Reject, Observe, RegisterPolicy, RevokeInstrument, ReadUsage,
         KeepUsage, RegisterGrant, RevokeGrant, Tick, brokers
<1> QED BY <1>2, <1>3, <1>4, <1>5, <1>6, NextCases

(* A use is counted, or the context stays as it was found.                   *)
LEMMA ConsumedIs ==
  ASSUME Typed, NEW x \in ContextRows, NEW y, y = Consumed(x)
  PROVE  \/ Stays(x, y, page.origin) /\ y.uses = x.uses /\ y.status # "ready"
         \/ y.uses = x.uses - 1 /\ y.expires = x.expires /\ y.status \in {"ready", "consumed"}
<1> DEFINE z == Bound(Refreshed(x), page.origin)
<1>1. z \in ContextRows /\ Stays(x, z, page.origin)
  BY Locals, ContextTypes, Operators
<1>2. y = IF z.status # "ready" THEN z
          ELSE [z EXCEPT !.uses = @ - 1, !.status = IF z.uses = 1 THEN "consumed" ELSE @]
  BY DEF Consumed
<1> HIDE DEF z
<1>3. z.uses = x.uses /\ z.expires = x.expires
  BY <1>1 DEF Stays, Follows
<1>4. CASE z.status # "ready"
  BY <1>1, <1>2, <1>3, <1>4
<1>5. CASE z.status = "ready"
  BY <1>1, <1>2, <1>3, <1>5 DEF ContextRows
<1> QED BY <1>4, <1>5

NoneExpired == \A i \in DOMAIN contexts : contexts[i].status = "expired" => contexts[i].expires <= now
AllServed == \A k \in DOMAIN effects : effects[k].kind # "open" => effects[k].ctx \in DOMAIN contexts
AllShown == \A s \in DOMAIN stepUps :
              stepUps[s].binding.kind # "open" => stepUps[s].binding.page.doc <= page.doc
GrantShown ==
  step = "check" /\ op.granted # 0 =>
    op.granted \in Widenings(op.req.ctx) /\ stepUps[op.granted].binding.page.doc = page.doc
PageShown ==
  /\ Acting /\ step \in Before \cup {"execute"} => op.page = page
  /\ Acting /\ step \in After => op.page = page \/ op.page.doc < page.doc

LEMMA NextExpired ==
  ASSUME Typed, Shape, Named, [Next]_vars
  PROVE  NoneExpired'
<1>1. Moves /\ now \in Nat /\ now' \in Nat /\ now' >= now
  BY NextMoves, ClockGrows
<1>2. contexts' \in Seq(ContextRows)
  BY NextTyped DEF Typed, TypeOK
<1>3. ASSUME NEW i \in DOMAIN contexts' PROVE contexts'[i].expires \in Nat
  <2>1. contexts'[i] \in ContextRows
    BY <1>2
  <2> QED BY <2>1 DEF ContextRows
<1>4. ASSUME NEW i \in DOMAIN contexts', contexts'[i].status = "expired"
      PROVE  contexts'[i].expires <= now
  <2>1. CASE i \notin DOMAIN contexts
    BY <1>1, <1>4, <2>1 DEF Moves
  <2>2. CASE i \in DOMAIN contexts /\ Turns(contexts[i], contexts'[i], i)
    BY <1>4, <2>2 DEF Turns, Stays, Follows, Named
  <2>3. CASE i \in DOMAIN contexts /\ Uses(i)
    <3>1. contexts[i] \in ContextRows /\ contexts'[i] = Consumed(contexts[i])
      BY <2>3, Parts DEF Uses
    <3>2. Stays(contexts[i], contexts'[i], page.origin)
      BY <1>4, <3>1, ConsumedIs
    <3> QED BY <1>4, <2>3, <3>2 DEF Stays, Follows, Named
  <2> QED BY <1>1, <2>1, <2>2, <2>3 DEF Moves
<1> QED BY <1>1, <1>3, <1>4 DEF NoneExpired

LEMMA NextServed ==
  ASSUME Typed, Used, Shape, Named, OnContext, [Next]_vars
  PROVE  AllServed'
<1>1. Grows /\ Moves
  BY NextGrows, NextMoves
<1>2. \A i \in DOMAIN contexts : i \in DOMAIN contexts'
  BY <1>1 DEF Moves
<1>3. step = "execute" /\ Acting => op.ctx \in DOMAIN contexts
  BY DEF OnContext, Midway
<1> QED BY <1>1, <1>2, <1>3 DEF AllServed, Named, Grows, Acting

LEMMA NextShown ==
  ASSUME Typed, Named, [Next]_vars
  PROVE  AllShown'
<1>1. Kept /\ page.doc \in Nat /\ page'.doc \in Nat /\ page.doc <= page'.doc
  BY NextKept, PageMoves
<1>2. stepUps' \in Seq(StepUpRows)
  BY <1>1 DEF Kept
<1>3. ASSUME NEW s \in DOMAIN stepUps', stepUps'[s].binding.kind # "open"
      PROVE  stepUps'[s].binding.page.doc <= page'.doc
  <2>1. stepUps'[s].binding.page.doc \in Nat
    <3>1. stepUps'[s] \in StepUpRows
      BY <1>2
    <3> QED BY <3>1 DEF StepUpRows, Bindings, Pages
  <2>2. CASE s \in DOMAIN stepUps
    <3>1. stepUps'[s].binding = stepUps[s].binding
      BY <1>1, <2>2 DEF Kept
    <3>2. stepUps[s].binding.page.doc <= page.doc
      BY <1>3, <2>2, <3>1 DEF Named
    <3> QED BY <1>1, <2>1, <3>1, <3>2
  <2>3. CASE s \notin DOMAIN stepUps
    <3>1. stepUps'[s].binding.page = page
      BY <1>3, <2>3, NewRequests DEF Named, Acting
    <3> QED BY <1>1, <3>1
  <2> QED BY <2>2, <2>3
<1> QED BY <1>3 DEF AllShown

LEMMA NextPageShown ==
  ASSUME Typed, Named, [Next]_vars
  PROVE  PageShown'
<1>1. /\ page.doc \in Nat /\ page'.doc \in Nat /\ page.doc <= page'.doc
      /\ page' = page \/ (Execute /\ step = "execute" /\ page'.doc = page.doc + 1)
  BY PageMoves
<1>2. CASE step' = "idle"
  BY <1>2 DEF PageShown, Before, After
<1>3. CASE Starts /\ step' = "profile"
  <2>1. PICK c \in Conns, r \in Requests : Begin(c, r)
    BY <1>3 DEF Starts
  <2>2. op' = [NoOp EXCEPT !.conn = c, !.req = r, !.ctx = r.ctx,
                 !.page = IF r.kind = "open" THEN [doc |-> 0, origin |-> r.origin] ELSE page]
        /\ page' = page
    BY <2>1 DEF Begin
  <2>3. op'.req = r /\ (r.kind # "open" => op'.page = page)
    BY <2>2 DEF NoOp
  <2> QED BY <1>3, <2>2, <2>3 DEF PageShown, Acting, After
<1>4. CASE /\ Checks /\ step \in Before /\ Advance
           /\ op'.req = op.req /\ op'.page = op.page
  <2>1. step' \in Before \cup {"execute"}
    BY <1>4, Locals, NextStep DEF Before, Steps, Position
  <2>2. step # "execute" /\ step' \notin After
    BY <1>4, <2>1 DEF Before, After
  <2> QED BY <1>1, <1>4, <2>1, <2>2 DEF PageShown, Named, Acting
<1>5. CASE (Execute \/ Ending) /\ step \in {"execute"} \cup After /\ Advance /\ op' = op
  <2>1. step' \in After /\ step' \notin Before \cup {"execute"}
    <3>1. step' \in After
      BY <1>5, Locals, NextStep DEF After, Steps, Position
    <3> QED BY <3>1 DEF Before, After
  <2>2. op.page.doc \in Nat
    BY Locals DEF Operations, Pages
  <2>3. Acting => op.page = page \/ op.page.doc < page.doc
    BY <1>5 DEF Named
  <2>4. CASE page' = page
    BY <1>5, <2>1, <2>3, <2>4 DEF PageShown, Acting
  <2>5. CASE page'.doc = page.doc + 1
    <3>1. Acting => op.page.doc < page'.doc
      BY <1>1, <2>2, <2>3, <2>5
    <3> QED BY <1>5, <2>1, <3>1 DEF PageShown, Acting
  <2> QED BY <1>1, <2>4, <2>5
<1>6. CASE UNCHANGED <<step, op>> /\ (Environment \/ UNCHANGED vars)
  <2>1. page' = page
    <3>1. Environment => UNCHANGED effects /\ ~Execute
      <4>1. Execute => effects' # effects \/ step' = "idle"
        BY ExecuteTyped, Parts, EffectType, AddSeq DEF Return
      <4>2. Environment => UNCHANGED <<effects, step>>
        BY EnvironmentTyped
      <4>3. Execute => step = "execute"
        BY ExecuteTyped
      <4> QED BY <4>1, <4>2, <4>3
    <3> QED BY <1>1, <1>6, <3>1 DEF vars
  <2> QED BY <1>6, <2>1 DEF PageShown, Named, Acting
<1>7. UNCHANGED vars => UNCHANGED <<step, op>>
  BY DEF vars
<1> QED BY <1>2, <1>3, <1>4, <1>5, <1>6, <1>7, NextOp

LEMMA NextGrantShown ==
  ASSUME Typed, Shape, Named, [Next]_vars
  PROVE  GrantShown'
<1> SUFFICES ASSUME step' = "check", op'.granted # 0
             PROVE  (op.granted \in Widenings(op.req.ctx)
                      /\ stepUps[op.granted].binding.page.doc = page.doc)'
  BY DEF GrantShown
<1>1. CASE Checks /\ step \in Before /\ Advance /\ op'.req = op.req
  <2>1. step \in Steps /\ Acting
    BY <1>1, AdvanceShape DEF Before, Steps, Position
  <2>2. step = "profile"
    <3>1. step \in {"payment", "resource"} => step' \in {"resource", "execute"}
      BY <1>1, <2>1, NextStep, Locals
    <3>2. step # "check"
      BY <1>1, <2>1, ActSteps, Locals
    <3> QED BY <1>1, <2>1, <3>1, <3>2 DEF Before, Shape
  <2>3. ProfileStep /\ op.granted = 0 /\ op.page = page
    BY <1>1, <2>1, <2>2 DEF Shape, Named, Checks, ScopeStep, CheckStep, PaymentStep,
                            FinancialCommitStep, ResourceStep, Before, FinancialScope
  <2> DEFINE b == Binding("profile", op.req.ctx, NoScope)
  <2>4. Granted(b) /\ GoOnWith(op.req.stepUp) /\ UNCHANGED <<stepUps, page>>
    <3>1. ~(Proceed /\ UNCHANGED stepUps) /\ ~Return
      BY <2>3 DEF Proceed, Return
    <3> QED BY <2>3, <3>1 DEF ProfileStep, Escalate, Unmoved, ProfileScope
  <2>5. /\ op.req.stepUp \in Widenings(op.req.ctx) /\ op.req.stepUp # 0
        /\ stepUps[op.req.stepUp].binding.page = page
    BY <2>2, <2>3, <2>4, Locals, GrantedWidens
  <2>6. op'.granted = op.req.stepUp /\ op'.req = op.req
    BY <1>1, <2>4, <2>5, Locals DEF GoOnWith, Operations
  <2> QED BY <2>4, <2>5, <2>6 DEF Widenings
<1>2. CASE UNCHANGED <<step, op>> /\ (Environment \/ UNCHANGED vars)
  <2>1. Kept
    BY NextKept
  <2>2. page' = page
    <3>1. step # "execute"
      BY <1>2
    <3> QED BY <3>1, PageMoves
  <2>3. op.granted \in Widenings(op.req.ctx) /\ stepUps[op.granted].binding.page.doc = page.doc
    BY <1>2 DEF Named
  <2>4. op.granted \in DOMAIN stepUps
    BY <2>3 DEF Widenings
  <2>5. /\ op.granted \in DOMAIN stepUps' /\ stepUps'[op.granted].binding = stepUps[op.granted].binding
        /\ stepUps'[op.granted].status \in {"approved", "consumed"}
    BY <2>1, <2>3, <2>4, ApprovedKept DEF Widenings
  <2> QED BY <1>2, <2>2, <2>3, <2>5 DEF Widenings
<1>3. ASSUME step \in {"execute"} \cup After, Advance PROVE FALSE
  BY <1>3, Locals, NextStep DEF After, Steps, Position
<1>4. UNCHANGED vars => UNCHANGED <<step, op>>
  BY DEF vars
<1> QED BY <1>1, <1>2, <1>3, <1>4, NextOp

LEMMA NextNamed ==
  ASSUME Typed, Used, Shape, Named, OnContext, [Next]_vars
  PROVE  Named'
BY NextExpired, NextServed, NextShown, NextGrantShown, NextPageShown
   DEF Named, NoneExpired, AllServed, AllShown, GrantShown, PageShown

(* What the bound of a context is made of.                                   *)
LEMMA BoundParts ==
  ASSUME Typed, Used, Own, Shape, [Next]_vars, NEW i
  PROVE  /\ i \in DOMAIN contexts => contexts[i] \in ContextRows /\ contexts[i].uses \in Nat
                                     /\ contexts[i].expires \in Nat
         /\ i \in DOMAIN contexts' => contexts'[i] \in ContextRows /\ contexts'[i].uses \in Nat
                                      /\ contexts'[i].expires \in Nat
         /\ Spends(i) = Taken(i) + contexts[i].uses
         /\ Spends(i)' = Taken(i)' + contexts'[i].uses
         /\ MaxUses \in Nat /\ now \in Nat /\ now' \in Nat /\ now' >= now
<1>1. contexts \in Seq(ContextRows) /\ contexts' \in Seq(ContextRows)
  BY NextTyped DEF Typed, TypeOK
<1>2. /\ i \in DOMAIN contexts => contexts[i] \in ContextRows
      /\ i \in DOMAIN contexts' => contexts'[i] \in ContextRows
  BY <1>1
<1>3. \A x \in ContextRows : x.uses \in Nat /\ x.expires \in Nat
  BY CommitAssumption DEF ContextRows
<1>4. MaxUses \in Nat /\ now \in Nat /\ now' \in Nat /\ now' >= now
  BY CommitAssumption, ClockGrows
<1>5. Spends(i) = Taken(i) + contexts[i].uses /\ Spends(i)' = Taken(i)' + contexts'[i].uses
  BY DEF Spends
<1> QED BY <1>2, <1>3, <1>4, <1>5

(* A context declared by the step.                                           *)
LEMMA FreshBounded ==
  ASSUME Typed, Used, Own, Contexts, [Next]_vars, NEW i \in DOMAIN contexts' \ DOMAIN contexts
  PROVE  Bounded(i)'
<1>1. Moves /\ Kept
  BY NextMoves, NextKept DEF Contexts
<1>2. contexts'[i].uses = MaxUses
  BY <1>1 DEF Moves
<1>3. Taken(i) = 0
  <2>1. Served(i) = {}
    BY DEF Contexts, Named, Served, DoneUnder
  <2>2. ~(Acting /\ step = "answer" /\ op.ctx = i)
    BY DEF Contexts, OnContext
  <2> QED BY <2>1, <2>2, FS_EmptySet DEF Taken
<1>4. ~(step = "context" /\ op.ctx = i)
  BY DEF Contexts, Shape, OnContext, Midway
<1>5. Taken(i)' \in Nat /\ Taken(i)' <= 0
  BY <1>3, <1>4, TakenGrows DEF Contexts
<1>6. Cardinality(Widenings(i))' \in Nat
  BY <1>1, WideningsGrow
<1>7. Spends(i)' = Taken(i)' + contexts'[i].uses /\ MaxUses \in Nat
  BY BoundParts DEF Contexts
<1>8. Spends(i)' <= MaxUses + Cardinality(Widenings(i))'
  BY <1>2, <1>5, <1>6, <1>7
<1> QED BY <1>8 DEF Bounded

(* A bound that grows keeps what it bounds.                                  *)
LEMMA StillBounded ==
  \A a, b, m, w, v \in Nat : a <= b /\ b <= m + w + 1 /\ w <= v => a <= m + v + 1
  OBVIOUS

LEMMA StillWithin ==
  \A a, b, m, w, v \in Nat : a <= b /\ b <= m + w /\ w <= v => a <= m + v
  OBVIOUS

(* A context the step took no use of.                                        *)
LEMMA TurnsBounded ==
  ASSUME Typed, Used, Own, Contexts, [Next]_vars, NEW i \in DOMAIN contexts, i \in DOMAIN contexts',
         Turns(contexts[i], contexts'[i], i), Taken(i)' <= Taken(i)
  PROVE  Bounded(i)'
<1> PICK x : x = contexts[i]
  OBVIOUS
<1> PICK d \in Int : d = page.doc - 1
  BY PageMoves
<1>1. PICK e \in Int : e = page'.doc - 1
  BY PageMoves
<1>2. d <= e /\ page.doc \in Nat /\ d = page.doc - 1
  BY <1>1, PageMoves
<1>3. Bounded(i) /\ Kept
  BY NextKept DEF Contexts
<1> DEFINE W == Cardinality(Widenings(i))  E == Cardinality(Earlier(i, d))
           F == Cardinality(Earlier(i, e))  S == Spends(i)
<1>4. /\ W \in Nat /\ W' \in Nat /\ E \in Nat /\ F' \in Nat /\ W <= W' /\ E <= F' /\ E <= W
      /\ Reopened(i) => Reopened(i)'
  BY <1>2, <1>3, WideningsGrow
<1>5. Taken(i) \in Nat /\ Taken(i)' \in Nat
  BY TakenGrows DEF Contexts
<1>6. Follows(contexts[i], contexts'[i], page.origin)
  BY DEF Turns, Stays
<1>7. contexts'[i].uses = contexts[i].uses /\ contexts'[i].expires = contexts[i].expires
  BY <1>6 DEF Follows
<1>8. /\ S \in Nat /\ S' \in Nat /\ S' <= S /\ MaxUses \in Nat
      /\ contexts[i].expires \in Nat /\ now \in Nat /\ now' \in Nat /\ now' >= now
  BY <1>5, <1>7, BoundParts DEF Contexts
<1>9. ASSUME NEW s \in Widenings(i), stepUps[s].binding.page.doc = page.doc PROVE E + 1 <= W
  <2>1. s \notin Earlier(i, d)
    BY <1>2, <1>9 DEF Earlier
  <2>2. IsFiniteSet(Widenings(i)) /\ Earlier(i, d) \in SUBSET Widenings(i)
    BY <1>2, <1>3, WideningsGrow DEF Earlier
  <2>3. IsFiniteSet(Earlier(i, d)) /\ Earlier(i, d) \cup {s} \in SUBSET Widenings(i)
    BY <2>2, FS_Subset
  <2>4. Cardinality(Earlier(i, d) \cup {s}) = E + 1
    BY <2>1, <2>3, FS_AddElement
  <2> QED BY <2>2, <2>3, <2>4, FS_Subset
<1>10. \/ Reopened(i)
       \/ S <= MaxUses + W
       \/ contexts[i].uses > 0 /\ contexts[i].expires <= now /\ S <= MaxUses + W + 1
       \/ contexts[i].uses > 0 /\ contexts[i].status = "step_up_required" /\ S <= MaxUses + E + 1
  BY <1>2, <1>3 DEF Bounded
<1>11. \/ Reopened(i)'
       \/ S' <= MaxUses + W'
       \/ contexts'[i].uses > 0 /\ contexts'[i].expires <= now' /\ S' <= MaxUses + W' + 1
       \/ contexts'[i].uses > 0 /\ contexts'[i].status = "step_up_required" /\ S' <= MaxUses + F' + 1
       => Bounded(i)'
  BY <1>1 DEF Bounded
<1> HIDE DEF W, E, F, S
<1>16. MaxUses \in Nat /\ S \in Nat /\ S' \in Nat /\ S' <= S
  BY <1>8
<1>17. W \in Nat /\ W' \in Nat /\ E \in Nat /\ F' \in Nat /\ W <= W' /\ E <= F' /\ E <= W'
  BY <1>4
<1>12. CASE Reopened(i)
  BY <1>4, <1>11, <1>12
<1>13. CASE S <= MaxUses + W
  <2>1. S' <= MaxUses + W'
    BY <1>13, <1>16, <1>17, StillWithin
  <2> QED BY <1>11, <2>1
<1>14. CASE contexts[i].uses > 0 /\ contexts[i].expires <= now /\ S <= MaxUses + W + 1
  <2>1. S' <= MaxUses + W' + 1
    <3>1. S <= MaxUses + W + 1
      BY <1>14
    <3> QED BY <1>16, <1>17, <3>1, StillBounded
  <2>2. contexts'[i].uses > 0 /\ contexts'[i].expires <= now'
    BY <1>7, <1>8, <1>14
  <2> QED BY <1>11, <2>1, <2>2
<1>15. CASE contexts[i].uses > 0 /\ contexts[i].status = "step_up_required" /\ S <= MaxUses + E + 1
  <2>4. S <= MaxUses + E + 1
    BY <1>15
  <2>1. CASE contexts'[i].status = "step_up_required"
    <3>1. S' <= MaxUses + F' + 1
      BY <1>16, <1>17, <2>4, StillBounded
    <3> QED BY <1>7, <1>11, <1>15, <2>1, <3>1
  <2>2. CASE contexts[i].expires <= now
    <3>1. S' <= MaxUses + W' + 1
      BY <1>16, <1>17, <2>4, StillBounded
    <3>2. contexts'[i].uses > 0 /\ contexts'[i].expires <= now'
      BY <1>7, <1>8, <1>15, <2>2
    <3> QED BY <1>11, <3>1, <3>2
  <2>3. CASE Revived(i)
    <3>1. CASE Reopened(i)
      BY <1>4, <1>11, <3>1
    <3>2. CASE E + 1 <= W
      <4>1. S' <= MaxUses + W'
        BY <1>4, <1>8, <1>15, <3>2
      <4> QED BY <1>11, <4>1
    <3> QED BY <1>9, <2>3, <3>1, <3>2 DEF Revived
  <2> QED BY <1>15, <2>1, <2>2, <2>3 DEF Turns, Stays
<1> QED BY <1>10, <1>12, <1>13, <1>14, <1>15

(* The context whose use is booked.                                          *)
LEMMA UsesBounded ==
  ASSUME Typed, Used, Own, Contexts, [Next]_vars, NEW i, Uses(i),
         i \in DOMAIN contexts', Taken(i)' <= Taken(i) + 1
  PROVE  Bounded(i)'
<1>1. step = "context" /\ Acting /\ contexts'[i] = Consumed(contexts[i]) /\ i = op.ctx
  BY DEF Uses, Contexts, Shape
<1>2. Midway
  BY <1>1 DEF Midway
<1>3. PICK d \in Int : d = op.page.doc
  BY Locals DEF Operations, Pages
<1>4. PICK e \in Int : e = page'.doc - 1
  BY PageMoves
<1>5. page.doc \in Nat /\ page'.doc \in Nat /\ page.doc <= page'.doc /\ op.page.doc \in Nat
  BY PageMoves, Locals DEF Operations, Pages
<1>6. Kept
  BY NextKept
<1> DEFINE x == contexts[i]  y == contexts'[i]
           W == Cardinality(Widenings(i))  E == Cardinality(Earlier(i, d))
           F == Cardinality(Earlier(i, e))  S == Spends(i)
<1>7. /\ i \in DOMAIN contexts /\ x \in ContextRows /\ x.uses > 0 /\ x.asserted /\ x.status \in Live
      /\ op.page.origin \in x.origins /\ (x.status = "step_up_required" => op.page.doc < page.doc)
      /\ Reopened(i) \/ S <= MaxUses + E
  BY <1>1, <1>2, <1>3, Parts DEF Contexts, OnContext, Serves
<1>8. y = Consumed(x)
  BY <1>1
<1>9. /\ W \in Nat /\ W' \in Nat /\ E \in Nat /\ W <= W' /\ E <= W'
      /\ Reopened(i) => Reopened(i)'
  <2>1. /\ W \in Nat /\ W' \in Nat /\ E \in Nat /\ W <= W' /\ E <= W
        /\ Reopened(i) => Reopened(i)'
    <3>1. d \in Int /\ d <= d
      BY <1>3
    <3> QED BY <1>6, <3>1, WideningsGrow
  <2> HIDE DEF W, E
  <2> QED BY <2>1
<1>10. d <= e => F' \in Nat /\ E <= F'
  BY <1>3, <1>4, <1>6, WideningsGrow
<1>11. /\ S = Taken(i) + x.uses /\ S' = Taken(i)' + y.uses /\ MaxUses \in Nat /\ now \in Nat
       /\ now' \in Nat /\ now' >= now /\ x.uses \in Nat /\ y.uses \in Nat /\ x.expires \in Nat
       /\ Taken(i) \in Nat /\ Taken(i)' \in Nat
  BY <1>7, BoundParts, TakenGrows DEF Contexts
<1>12. \/ Stays(x, y, page.origin) /\ y.uses = x.uses /\ y.status # "ready"
       \/ y.uses = x.uses - 1
  BY <1>7, <1>8, ConsumedIs
<1>13. \/ Reopened(i)'
       \/ S' <= MaxUses + W'
       \/ y.uses > 0 /\ y.expires <= now' /\ S' <= MaxUses + W' + 1
       \/ y.uses > 0 /\ y.status = "step_up_required" /\ S' <= MaxUses + F' + 1
       => Bounded(i)'
  BY <1>4 DEF Bounded
<1>14. x.status = "expired" => x.expires <= now
  BY <1>7 DEF Contexts, Named
<1>15. op.page = page \/ op.page.doc < page.doc
  BY <1>1 DEF Contexts, Named, After
<1> HIDE DEF x, y, W, E, F, S
<1>16. CASE Reopened(i)
  BY <1>9, <1>13, <1>16
<1>17. CASE S <= MaxUses + E /\ y.uses = x.uses - 1
  <2>1. S' <= S /\ S \in Nat /\ S' \in Nat
    BY <1>11, <1>17
  <2>2. S' <= MaxUses + W'
    BY <1>9, <1>11, <1>17, <2>1
  <2> QED BY <1>13, <2>2
<1>18. CASE S <= MaxUses + E /\ Stays(x, y, page.origin) /\ y.uses = x.uses /\ y.status # "ready"
  <2>1. S' <= S + 1 /\ S \in Nat /\ S' \in Nat /\ S <= MaxUses + E
    BY <1>11, <1>18
  <2>2. /\ y.expires = x.expires /\ y.uses > 0 /\ y.status \in {"expired", "step_up_required"}
        /\ y.status = "expired" => x.expires <= now
        /\ y.status = "step_up_required" => x.status = "step_up_required" \/ page.origin \notin x.origins
    BY <1>7, <1>14, <1>18 DEF Stays, Follows, Live
  <2>3. CASE y.status = "expired"
    <3>1. S' <= MaxUses + W' + 1
      BY <1>9, <1>11, <2>1
    <3>2. y.expires <= now'
      BY <1>11, <2>2, <2>3
    <3> QED BY <1>13, <2>2, <3>1, <3>2
  <2>4. CASE y.status = "step_up_required"
    <3>1. op.page.doc < page.doc
      BY <1>7, <1>15, <2>2, <2>4
    <3>2. d <= e
      BY <1>3, <1>4, <1>5, <3>1
    <3>3. S' <= MaxUses + F' + 1
      <4>1. E \in Nat /\ F' \in Nat /\ E <= F' /\ MaxUses \in Nat
        BY <1>9, <1>10, <1>11, <3>2
      <4>2. S' <= MaxUses + E + 1
        BY <2>1, <4>1
      <4>3. S' <= S' /\ S' \in Nat
        BY <2>1
      <4> QED BY <4>1, <4>2, <4>3, StillBounded
    <3> QED BY <1>13, <2>2, <2>4, <3>3
  <2> QED BY <2>2, <2>3, <2>4
<1> QED BY <1>7, <1>12, <1>16, <1>17, <1>18

LEMMA NextBounded ==
  ASSUME Typed, Used, Own, Contexts, [Next]_vars, NEW i \in DOMAIN contexts'
  PROVE  Bounded(i)'
<1>1. Moves
  BY NextMoves DEF Contexts
<1>2. CASE i \notin DOMAIN contexts
  BY <1>2, FreshBounded
<1>3. CASE i \in DOMAIN contexts /\ Taken(i)' <= Taken(i)
  <2>1. CASE Turns(contexts[i], contexts'[i], i)
    BY <1>3, <2>1, TurnsBounded
  <2>2. CASE Uses(i)
    <3>1. Taken(i)' <= Taken(i) + 1
      BY <1>3, TakenGrows DEF Contexts
    <3> QED BY <2>2, <3>1, UsesBounded
  <2> QED BY <1>1, <1>3, <2>1, <2>2 DEF Moves
<1>4. CASE step = "context" /\ ConsumeContext /\ op.ctx = i /\ Taken(i)' = Taken(i) + 1
  <2>1. i \in DOMAIN contexts
    BY <1>4 DEF Contexts, Shape, OnContext, Midway
  <2>2. Uses(i)
    BY <1>4, <2>1 DEF ConsumeContext, Uses
  <2>3. Taken(i)' <= Taken(i) + 1
    BY <1>4, TakenGrows DEF Contexts
  <2> QED BY <2>2, <2>3, UsesBounded
<1> QED BY <1>2, <1>3, <1>4, TakenGrows DEF Contexts

(* A context found ready has a step-up of this document or an earlier one    *)
(* for every use beyond its limit.                                           *)
LEMMA ReadyServes ==
  ASSUME Typed, Used, Own, Contexts, [Next]_vars, Named', NEW i \in DOMAIN contexts',
         Ready(contexts'[i]), UNCHANGED now, op'.page = page, page' = page
  PROVE  Serves(i)'
<1>1. PICK d \in Int : d = page.doc
  BY PageMoves
<1>2. Kept /\ Bounded(i)'
  BY NextKept, NextBounded
<1>3. /\ contexts'[i].uses > 0 /\ contexts'[i].asserted /\ page.origin \in contexts'[i].origins
      /\ contexts'[i].status = "ready" /\ ~(contexts'[i].expires <= now')
  BY DEF Ready
<1>4. Reopened(i)' \/ Spends(i)' <= MaxUses + Cardinality(Widenings(i))'
  BY <1>2, <1>3 DEF Bounded
<1>5. CASE ~Reopened(i)'
  <2>1. \A s \in Widenings(i)' : stepUps'[s].binding.page.doc <= page'.doc
    BY <1>5 DEF Reopened, Widenings, Named
  <2>2. Earlier(i, op.page.doc)' = Widenings(i)'
    BY <2>1 DEF Earlier
  <2>3. Cardinality(Earlier(i, op.page.doc))' = Cardinality(Widenings(i))'
    BY <2>2
  <2> QED BY <1>3, <1>4, <1>5, <2>3 DEF Serves, Live
<1>6. CASE Reopened(i)'
  BY <1>3, <1>6 DEF Serves, Live
<1> QED BY <1>5, <1>6

(* What the operation relied on holds until the use is booked.               *)
LEMMA ServesOn ==
  ASSUME Typed, Used, Own, Contexts, [Next]_vars, Midway, NEW i, i = op.ctx,
         op'.page = op.page, ~ConsumeContext
  PROVE  i \in DOMAIN contexts' /\ Serves(i)'
<1>1. i \in DOMAIN contexts /\ Serves(i) /\ Acting
  BY DEF Contexts, OnContext, Midway
<1>2. Moves /\ Kept /\ page.doc \in Nat /\ page'.doc \in Nat /\ page.doc <= page'.doc
  BY NextMoves, NextKept, PageMoves DEF Contexts
<1>3. i \in DOMAIN contexts' /\ Follows(contexts[i], contexts'[i], page.origin)
  BY <1>1, <1>2 DEF Moves, Turns, Uses, Stays
<1>4. Taken(i) \in Nat /\ Taken(i)' \in Nat /\ Taken(i)' <= Taken(i)
  BY TakenGrows DEF Contexts
<1>5. PICK d \in Int : d = op.page.doc
  BY Locals DEF Operations, Pages
<1>6. op.page.doc \in Nat /\ d <= d
  BY <1>5, Locals DEF Operations, Pages
<1> DEFINE E == Cardinality(Earlier(i, d))  S == Spends(i)
<1>7. E \in Nat /\ E' \in Nat /\ E <= E' /\ (Reopened(i) => Reopened(i)')
  BY <1>2, <1>5, <1>6, WideningsGrow
<1>8. contexts'[i].uses = contexts[i].uses
  BY <1>3 DEF Follows
<1>9. S \in Nat /\ S' \in Nat /\ S' <= S /\ MaxUses \in Nat
  BY <1>1, <1>3, <1>4, <1>8, BoundParts DEF Contexts
<1>10. Reopened(i) \/ S <= MaxUses + E
  BY <1>1, <1>5 DEF Serves
<1>11. (Reopened(i)' \/ S' <= MaxUses + E') =>
         (Reopened(i) \/ Spends(i) <= MaxUses + Cardinality(Earlier(i, op.page.doc)))'
  BY <1>5
<1> HIDE DEF E, S
<1>12. Reopened(i)' \/ S' <= MaxUses + E'
  <2>1. CASE S <= MaxUses + E
    <3>1. S' <= MaxUses + E'
      BY <1>7, <1>9, <2>1, StillWithin
    <3> QED BY <3>1
  <2> QED BY <1>7, <1>10, <2>1
<1>13. /\ contexts'[i].uses > 0 /\ contexts'[i].asserted /\ contexts'[i].status \in Live
       /\ op'.page.origin \in contexts'[i].origins
  BY <1>1, <1>3 DEF Serves, Follows
<1>14. ASSUME contexts'[i].status = "step_up_required" PROVE op'.page.doc < page'.doc
  <2>1. op.page.doc < page.doc
    <3>1. CASE contexts[i].status = "step_up_required"
      BY <1>1, <3>1 DEF Serves
    <3>2. CASE page.origin \notin contexts[i].origins
      <4>1. op.page # page
        BY <1>1, <3>2 DEF Serves
      <4> QED BY <1>1, <4>1 DEF Contexts, Named, Midway, Before, After
    <3> QED BY <1>3, <1>14, <3>1, <3>2 DEF Follows
  <2> QED BY <1>2, <1>6, <2>1
<1> QED BY <1>3, <1>11, <1>12, <1>13, <1>14 DEF Serves

LEMMA NextOnContext ==
  ASSUME Typed, Used, Own, Contexts, Named', Shape', [Next]_vars
  PROVE  OnContext'
<1>1. Moves
  BY NextMoves DEF Contexts
<1>2. \A i \in DOMAIN contexts : i \in DOMAIN contexts'
  BY <1>1 DEF Moves
<1> PICK i : i = op.ctx
  OBVIOUS
<1>3. ASSUME Midway, op'.page = op.page, ~ConsumeContext, op'.ctx = op.ctx PROVE OnContext'
  <2>1. i \in DOMAIN contexts' /\ Serves(i)'
    BY <1>3, ServesOn
  <2>2. i = op'.ctx
    BY <1>3
  <2> QED BY <2>1, <2>2 DEF OnContext, Serves, Spends, Taken, Served, DoneUnder, Reopened,
                            Widenings, Earlier
<1>4. CASE step' = "idle" \/ step' = "profile" \/ ~Acting'
  BY <1>4 DEF OnContext, Midway
<1>5. CASE /\ Checks /\ step \in Before /\ Advance /\ Acting'
           /\ op'.req = op.req /\ op'.page = op.page
  <2>1. step \in Steps /\ Acting /\ step # "scope" /\ op.page = page
    BY <1>5 DEF Before, Steps, Position, Acting, Contexts, Shape, Named
  <2>2. UNCHANGED <<now, page>>
    BY <1>5, ChecksTyped DEF Checks, Unmoved
  <2>3. ASSUME NEW j \in DOMAIN contexts', j = op'.ctx, Ready(contexts'[j])
        PROVE  OnContext'
    <3>1. Serves(j)'
      BY <1>5, <2>1, <2>2, <2>3, ReadyServes
    <3> QED BY <2>3, <3>1 DEF OnContext, Serves, Spends, Taken, Served, DoneUnder, Reopened,
                              Widenings, Earlier
  <2>4. CASE step = "profile"
    <3>1. step' = "check"
      BY <1>5, <2>1, <2>4, ActSteps, Locals
    <3> QED BY <3>1 DEF OnContext, Midway
  <2>5. CASE step = "check"
    <3>1. CheckStep /\ step' # "idle"
      <4>1. CheckStep
        BY <1>5, <2>5 DEF Checks, ProfileStep, ScopeStep, PaymentStep, FinancialCommitStep,
                          ResourceStep, ProfileScope, FinancialScope
      <4> QED BY <1>5, <2>1, <4>1, NextStep, Locals DEF Steps, Position
    <3>2. op'.ctx \in DOMAIN contexts' /\ Ready(contexts'[op'.ctx])
      BY <3>1, CheckMoves DEF Contexts, Return
    <3> QED BY <2>3, <3>2
  <2>6. CASE step \in {"payment", "resource"}
    <3>1. Midway /\ ~ConsumeContext /\ step' # "idle"
      BY <1>5, <2>1, <2>6, NextStep, Locals DEF Midway, ConsumeContext, Steps, Position
    <3>2. op'.ctx = op.ctx
      <4>1. ResourceStep => op' = op
        BY <3>1 DEF ResourceStep, Return, Proceed
      <4>2. ASSUME NEW D, GoOnAs(D) PROVE op'.ctx = op.ctx
        BY <4>2, Locals DEF GoOnAs, Operations
      <4>3. PaymentStep => \E D : GoOnAs(D)
        BY <3>1 DEF PaymentStep, Judge, Escalate, Return
      <4>4. FinancialCommitStep => (\E D : GoOnAs(D)) \/ op' = op
        BY <3>1 DEF FinancialCommitStep, Judge, Escalate, Return, Proceed
      <4> QED BY <1>5, <2>6, <4>1, <4>2, <4>3, <4>4 DEF Checks, ProfileStep, ScopeStep, CheckStep, ProfileScope
    <3> QED BY <1>3, <1>5, <3>1, <3>2
  <2> QED BY <1>5, <2>1, <2>4, <2>5, <2>6 DEF Before
<1>6. CASE (Execute \/ Ending) /\ step \in {"execute"} \cup After /\ Advance /\ op' = op /\ Acting'
  <2>1. step \in Steps /\ Acting /\ step # "evaluate"
    BY <1>6 DEF After, Steps, Position, Acting, Contexts, Shape
  <2>2. Midway \/ step = "answer"
    BY <1>6, <2>1 DEF After, Midway
  <2>3. CASE step \in {"context", "answer"}
    <3>1. step' = "answer"
      BY <1>6, <2>1, <2>3, ActSteps, Locals
    <3>2. op.ctx \in DOMAIN contexts
      BY <2>1, <2>2 DEF Contexts, OnContext
    <3> QED BY <1>2, <1>6, <3>1, <3>2 DEF OnContext, Midway
  <2>4. CASE step \notin {"context", "answer"}
    BY <1>3, <1>6, <2>2, <2>4 DEF ConsumeContext
  <2> QED BY <2>3, <2>4
<1>7. CASE UNCHANGED <<step, op>> /\ (Environment \/ UNCHANGED vars)
  <2>1. ~(step = "context" /\ ConsumeContext)
    <3>1. step = "context" /\ ConsumeContext => step' # "context"
      BY ActSteps, Locals DEF ConsumeContext, Proceed, Steps, Position, Contexts, Shape
    <3> QED BY <1>7, <3>1
  <2>2. CASE Midway
    BY <1>3, <1>7, <2>1, <2>2 DEF ConsumeContext
  <2>3. CASE ~Midway
    <3>1. Acting /\ step = "answer" => op.ctx \in DOMAIN contexts
      BY DEF Contexts, OnContext
    <3> QED BY <1>2, <1>7, <2>3, <3>1 DEF OnContext, Midway, Acting
  <2> QED BY <2>2, <2>3
<1>8. UNCHANGED vars => UNCHANGED <<step, op>>
  BY DEF vars
<1> QED BY <1>4, <1>5, <1>6, <1>7, <1>8, NextOp

LEMMA NextContexts ==
  ASSUME Typed, Used, Own, Contexts, [Next]_vars
  PROVE  Contexts'
<1>1. Shape' /\ Named'
  BY NextShape, NextNamed DEF Contexts
<1>2. OnContext'
  BY <1>1, NextOnContext
<1>3. (\A i \in DOMAIN contexts : Bounded(i))'
  BY NextBounded
<1> QED BY <1>1, <1>2, <1>3 DEF Contexts

-----------------------------------------------------------------------------
(* The bounds of the grant and of the contexts.                              *)

Limits == Own /\ Grants /\ Contexts

LEMMA InitLimits == Init => Limits
<1> SUFFICES ASSUME Init PROVE Limits
  OBVIOUS
<1>1. step = "idle" /\ op = NoOp /\ effects = <<>> /\ stepUps = <<>> /\ contexts = <<>> /\ grant = None
  BY DEF Init
<1>2. Own /\ OnContext /\ Shape
  <2>1. op.verdict = "none"
    BY <1>1 DEF NoOp
  <2> QED BY <1>1, <2>1 DEF Own, OnContext, Midway, Shape, After
<1>3. Uploads = {}
  BY <1>1 DEF Uploads, DoneUnder
<1>4. Grants
  BY <1>1, <1>3 DEF Grants, Uploading, After
<1>5. Named /\ \A i \in DOMAIN contexts : Bounded(i)
  BY <1>1 DEF Named, Before, After
<1> QED BY <1>2, <1>4, <1>5 DEF Limits, Contexts

LEMMA LimitsHold == Spec => [](IInv /\ Limits)
<1>1. Init => IInv /\ Limits
  BY InitIInv, InitLimits
<1>2. IInv /\ Limits /\ [Next]_vars => (IInv /\ Limits)'
  BY NextIInv, NextOwn, NextGrants, NextContexts DEF Limits, IInv
<1> QED BY <1>1, <1>2, PTL DEF Spec

(* A grant serves at most max_uses uploads, of one connection, also when it   *)
(* expires or is revoked while the browser acts (LocalResourceBroker).        *)
THEOREM GrantLimit == Spec => []GrantIsBounded
<1>1. IInv /\ Limits => GrantIsBounded
  <2> SUFFICES ASSUME Typed, Grants PROVE GrantIsBounded
    BY DEF IInv, Limits
  <2>1. \A i, j \in Uploads : effects[i].conn = effects[j].conn
    BY DEF Grants
  <2>2. Cardinality(Uploads) <= GrantUses
    <3>1. Cardinality(Uploads) \in Nat /\ Cardinality(Uploads) <= Counted /\ GrantUses \in Nat
          /\ Counted \in Nat
      BY UploadsFinite, CommitAssumption DEF Counted
    <3>2. CASE grant = None
      <4>1. Uploads = {}
        BY <3>2 DEF Grants
      <4> QED BY <3>1, <4>1, FS_EmptySet
    <3>3. CASE grant # None
      <4>1. grant.uses \in Nat
        BY <3>1, <3>3, Parts DEF GrantRows
      <4>2. Counted + grant.uses <= GrantUses \/ (Counted + grant.uses <= GrantUses + 1 /\ grant.uses > 0)
        BY <3>3 DEF Grants, Overrun
      <4> QED BY <3>1, <4>1, <4>2
    <3> QED BY <3>2, <3>3
  <2> QED BY <2>1, <2>2 DEF GrantIsBounded, Uploads
<1> QED BY <1>1, LimitsHold, PTL

(* A context serves at most max_uses operations, and one more for each        *)
(* step-up that was approved for it (SafetyContextManager.consume).           *)
THEOREM ContextLimit == Spec => []UsesAreBounded
<1>1. IInv /\ Limits => UsesAreBounded
  <2> SUFFICES ASSUME Typed, Contexts, NEW i \in DOMAIN contexts, ~Reopened(i)
               PROVE  Cardinality(Served(i)) <= MaxUses + Cardinality(Widenings(i))
    BY DEF IInv, Limits, UsesAreBounded, Reopened
  <2>1. PICK d \in Int : d = page.doc - 1
    BY Parts DEF Pages
  <2> DEFINE C == Cardinality(Served(i))  W == Cardinality(Widenings(i))
             E == Cardinality(Earlier(i, d))
  <2>2. /\ C \in Nat /\ Taken(i) \in Nat /\ C <= Taken(i) /\ MaxUses \in Nat
        /\ contexts[i].uses \in Nat
    <3>1. C \in Nat /\ Taken(i) \in Nat
      BY ServedFinite DEF FinitelyServed
    <3>2. C <= Taken(i)
      BY <3>1 DEF Taken
    <3>3. contexts[i] \in ContextRows
      BY Parts
    <3> QED BY <3>1, <3>2, <3>3, CommitAssumption DEF ContextRows
  <2>3. W \in Nat /\ E \in Nat /\ E <= W
    <3>1. /\ Widenings(i) \in SUBSET (1..Len(stepUps)) /\ Len(stepUps) \in Nat
          /\ Earlier(i, d) \in SUBSET Widenings(i)
      BY Parts DEF Widenings, Earlier
    <3>2. IsFiniteSet(1..Len(stepUps))
      BY <3>1, FS_Interval
    <3>3. IsFiniteSet(Widenings(i))
      BY <3>1, <3>2, FS_Subset
    <3> HIDE DEF Widenings, Earlier
    <3> QED BY <3>1, <3>3, FS_Subset, FS_CardinalityType
  <2>4. Spends(i) = Taken(i) + contexts[i].uses
    BY DEF Spends
  <2>5. \/ Spends(i) <= MaxUses + W
        \/ contexts[i].uses > 0 /\ Spends(i) <= MaxUses + W + 1
        \/ contexts[i].uses > 0 /\ Spends(i) <= MaxUses + E + 1
    BY <2>1 DEF Contexts, Bounded
  <2> HIDE DEF C, W, E
  <2>6. C <= MaxUses + W
    <3>1. CASE Spends(i) <= MaxUses + W
      BY <2>2, <2>3, <2>4, <3>1
    <3>2. CASE contexts[i].uses > 0 /\ Spends(i) <= MaxUses + W + 1
      BY <2>2, <2>3, <2>4, <3>2
    <3>3. CASE contexts[i].uses > 0 /\ Spends(i) <= MaxUses + E + 1
      BY <2>2, <2>3, <2>4, <3>3
    <3> QED BY <2>5, <3>1, <3>2, <3>3
  <2> QED BY <2>6 DEF C, W
<1> QED BY <1>1, LimitsHold, PTL
=============================================================================
