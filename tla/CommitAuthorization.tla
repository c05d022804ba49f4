------------------------ MODULE CommitAuthorization ------------------------
(***************************************************************************)
(* What one Browser Session checks before an operation of an Agent, and    *)
(* what it books after it: act_web and open_web of BrowserSessionRuntime,  *)
(* with the step-up grants, the payment broker, the local resource broker  *)
(* and the safety contexts they use.                                       *)
(*                                                                         *)
(* An operation holds _web_operation_lock from its first to its last step. *)
(* Each of its steps takes the lock of one broker; the user's decisions,   *)
(* observations, reads of the usage and the passing of time fall between.  *)
(* An Agent, its connection and its Profile are one principal, a Conn.     *)
(* A document, with the version of its objects, is a number that grows.    *)
(***************************************************************************)
EXTENDS Integers, Sequences, FiniteSets, FiniteSetsExt, Functions

CONSTANTS
  Conns,          \* Agent connections
  Origins,        \* origins of web pages
  Declared,       \* the origin_scope every declaration states
  KindSets,       \* the sets of kinds of operations a behaviour may be about
  Amounts,        \* amounts of money
  Policies,       \* financial policies the user may register
  MaxUses, GrantUses,  \* max_uses of a declaration, of a resource grant
  StepUpTTL, ContextTTL,              \* lifetimes, in ticks
  DayLength, MonthLength,             \* ticks of a day, of a month
  MaxTime, MaxStepUps, MaxContexts,   \* bounds
  MaxOps,         \* bound: operations, by their kinds
  LostAnswers,    \* whether the browser may act and then fail to answer
  UsageReads,     \* whether the usage is read outside the lock
  None

\* provide selects an instrument, pay selects and commits, commit commits what
\* was selected, change has an effect the Profile policy escalates.
AllKinds == {"open", "provide", "pay", "commit", "upload", "change"}

ASSUME CommitAssumption ==
  /\ Declared \subseteq Origins /\ KindSets \subseteq SUBSET AllKinds
  /\ Amounts \subseteq Nat /\ 0 \notin Amounts
  /\ Policies \subseteq [autonomy : Nat, absolute : Nat, daily : Nat, monthly : Nat, minimum : Nat]
  /\ MaxUses \in Nat \ {0} /\ GrantUses \in Nat \ {0}
  /\ StepUpTTL \in Nat \ {0} /\ ContextTTL \in Nat \ {0}
  /\ DayLength \in Nat \ {0} /\ MonthLength \in Nat \ {0}
  /\ MaxTime \in Nat /\ MaxOps \in [KindSets -> Nat] /\ MaxStepUps \in Nat /\ MaxContexts \in Nat
  /\ LostAnswers \in BOOLEAN /\ UsageReads \in BOOLEAN
  /\ None \notin Conns /\ None \notin Policies
  /\ None \notin [uses : Nat, expires : Nat, revoked : BOOLEAN, conn : Conns \cup {None}]

VARIABLES
  now, page,      \* the clock; the page shown: its document and its origin
  stepUps,        \* StepUpManager._states, in order of creation
  contexts,       \* SafetyContextManager._contexts, in order of creation
  policy, instrument, usage,  \* PaymentInstrumentBroker; usage is the sum of each day
  reader,         \* what a read of the usage is about to write back, or None
  grant,          \* the local resource grant, or None
  selected,       \* _selected_payment
  step, op,       \* where the current operation stands, and its locals
  effects,        \* history: what the browser did for Agents
  attempts,       \* operations begun
  kinds           \* the kinds of operations of this behaviour

brokers == <<stepUps, contexts, policy, instrument, usage, grant>>
vars == <<now, page, brokers, reader, selected, step, op, effects, attempts, kinds>>

Pays(kind) == kind \in {"provide", "pay", "commit"}
Commits(kind) == kind \in {"pay", "commit"}
Day(t) == t \div DayLength
Days == 0..Day(MaxTime)
Month(t) == t \div MonthLength
DaysOfMonth(t) == {Day(x) : x \in {y \in 0..MaxTime : Month(y) = Month(t)}}
Retained(u, t) == [d \in Days |-> IF d \in DaysOfMonth(t) THEN u[d] ELSE 0]
Spent(u, ds) == FoldFunctionOnSet(+, 0, u, ds)

\* What is known of an amount: the Agent asserted it, or the Runtime observed it.
Levels == {0, 1}
NoScope == [amount |-> 0, assurance |-> 0, named |-> FALSE]

NoReq == [kind |-> "change", amount |-> 0, stepUp |-> 0, ctx |-> 0,
          asserts |-> FALSE, claim |-> FALSE, origin |-> CHOOSE o \in Origins : TRUE]
NoOp == [conn |-> None, req |-> NoReq, ctx |-> 0, granted |-> 0, verdict |-> "none",
         page |-> [doc |-> 0, origin |-> CHOOSE o \in Origins : TRUE]]

Init ==
  /\ now = 0 /\ \E o \in Origins : page = [doc |-> 1, origin |-> o]
  /\ stepUps = <<>> /\ contexts = <<>> /\ grant = None /\ selected = None
  /\ policy \in Policies /\ instrument = "active"
  /\ usage = [d \in Days |-> 0] /\ reader = None
  /\ step = "idle" /\ op = NoOp /\ effects = <<>> /\ attempts = 0
  /\ kinds \in KindSets

----------------------------------------------------------------------------
(* The steps of an operation, in the order of the code, and those a kind of *)
(* operation has.                                                           *)

Position == [profile |-> 1, scope |-> 2, check |-> 3, payment |-> 4, resource |-> 5,
             execute |-> 6, grant |-> 7, evaluate |-> 8, stepup |-> 9, record |-> 10,
             context |-> 11, answer |-> 12]
Steps == DOMAIN Position

Has(s) ==
  CASE s \in {"scope", "evaluate"}   -> op.req.kind = "open"
    [] s \in {"check", "context"}    -> op.req.kind # "open"
    [] s = "payment"                 -> Pays(op.req.kind)
    [] s = "record"                  -> op.verdict # "none"
    [] s \in {"resource", "grant"}   -> op.req.kind = "upload"
    [] s = "stepup"                  -> op.granted # 0
    [] OTHER                         -> TRUE

Later(s, t) == Position[s] < Position[t] /\ Has(t)
Advance ==
  \E t \in Steps : /\ Later(step, t) /\ step' = t
                  /\ \A u \in Steps : Later(step, u) => Position[t] <= Position[u]

\* A refusal, a result that asks for something, or an exception.
Return == step' = "idle" /\ op' = NoOp
Proceed == Advance /\ UNCHANGED op
Unmoved == UNCHANGED <<now, page, reader, effects, attempts, kinds>>

\* The operation takes the lock and observes the page.
Begin(c, r) ==
  /\ step = "idle" /\ attempts < MaxOps[kinds]
  /\ r.stepUp \in 0..Len(stepUps) /\ r.ctx \in 0..Len(contexts)
  /\ r.kind = "open" \/ r.origin = page.origin
  /\ op' = [NoOp EXCEPT !.conn = c, !.req = r, !.ctx = r.ctx,
              !.page = IF r.kind = "open" THEN [doc |-> 0, origin |-> r.origin] ELSE page]
  /\ step' = "profile" /\ attempts' = attempts + 1
  /\ UNCHANGED <<now, page, brokers, reader, selected, effects, kinds>>

----------------------------------------------------------------------------
(* Step-up grants.                                                          *)

Binding(reason, ctx, scope) ==
  [conn |-> op.conn, ctx |-> ctx, page |-> op.page, kind |-> op.req.kind,
   reason |-> reason, scope |-> scope]

Expired(s) == stepUps[s].status \in {"pending", "approved"} /\ stepUps[s].expires <= now
Status(s) == IF Expired(s) THEN "expired" ELSE stepUps[s].status

MUT_Covers(s, b) == Status(s) = "approved"  \* the binding is not compared

Covers(s, b) == Status(s) = "approved" /\ stepUps[s].binding = b

RequestStepUp(b) ==
  IF \E s \in DOMAIN stepUps : stepUps[s].binding = b /\ Status(s) \in {"pending", "approved"}
  THEN UNCHANGED stepUps
  ELSE /\ Len(stepUps) < MaxStepUps
       /\ stepUps' = Append(stepUps, [binding |-> b, status |-> "pending",
                                      expires |-> now + StepUpTTL])

\* The supplied grant covers the escalation and the operation goes on, or it
\* does not and the operation is refused; without one a request is made.
MayUse == op.req.stepUp # 0 /\ op.granted = 0
Granted(b) == MayUse /\ Covers(op.req.stepUp, b)
Escalate(b) ==
  /\ ~Granted(b) /\ Return
  /\ IF MayUse THEN UNCHANGED stepUps ELSE RequestStepUp(b)
GoOnWith(s) ==
  Advance /\ op' = [op EXCEPT !.granted = IF s = 0 THEN @ ELSE s]

Approve(s) ==
  /\ s \in DOMAIN stepUps /\ Status(s) = "pending"
  /\ stepUps' = [stepUps EXCEPT ![s].status = "approved"]
  /\ UNCHANGED <<now, page, contexts, policy, instrument, usage, grant, reader, selected,
                 step, op, effects, attempts, kinds>>

Reject(s) ==
  /\ s \in DOMAIN stepUps /\ Status(s) = "pending"
  /\ stepUps' = [stepUps EXCEPT ![s].status = "rejected"]
  /\ UNCHANGED <<now, page, contexts, policy, instrument, usage, grant, reader, selected,
                 step, op, effects, attempts, kinds>>

\* The scope of a step-up the policy asks for; it names the origin too.
ProfileScope == Binding("profile", op.req.ctx, NoScope)

\* ProfilePolicyStore.evaluate; a change is an effect the policy escalates.
ProfileStep ==
  LET b == ProfileScope IN
  /\ step = "profile"
  /\ \/ op.req.kind # "change" /\ Proceed /\ UNCHANGED stepUps
     \/ op.req.kind = "change" /\ Granted(b) /\ GoOnWith(op.req.stepUp) /\ UNCHANGED stepUps
     \/ op.req.kind = "change" /\ Escalate(b)
     \/ Return /\ UNCHANGED stepUps
  /\ UNCHANGED <<contexts, policy, instrument, usage, grant, selected>> /\ Unmoved

----------------------------------------------------------------------------
(* Safety contexts.                                                         *)

Declare(c, r) ==
  [conn |-> c, origins |-> Declared \cup (IF r.kind = "open" THEN {r.origin} ELSE {}),
   uses |-> MaxUses, expires |-> now + ContextTTL, asserted |-> FALSE,
   status |-> IF r.claim THEN "assertion_required" ELSE "blocked"]

Refreshed(x) ==
  IF x.status \in {"consumed", "expired"} THEN x
  ELSE IF now >= x.expires THEN [x EXCEPT !.status = "expired"]
  ELSE IF x.uses = 0 THEN [x EXCEPT !.status = "consumed"] ELSE x

\* _binding_decision for the connection the context belongs to.
Bound(x, origin) ==
  IF origin \in x.origins THEN x ELSE [x EXCEPT !.status = "step_up_required"]
Usable(x) == x.status \in {"ready", "assertion_required"}
Settled(x) == [x EXCEPT !.status = IF x.asserted THEN "ready" ELSE "assertion_required"]

\* evaluate: a new declaration is compared with the page only with assertions.
Evaluated(x, r, origin) ==
  LET y == IF r.ctx = 0 /\ ~r.asserts THEN Refreshed(x) ELSE Bound(Refreshed(x), origin) IN
  IF r.asserts /\ Usable(y) THEN Settled([y EXCEPT !.asserted = TRUE]) ELSE y

\* apply_evidence: every kind of evidence is of a declared dimension.
WithEvidence(x, origin) ==
  LET y == Bound(Refreshed(x), origin) IN IF Usable(y) THEN Settled(y) ELSE y

\* extend_origin_scope.
Extended(x, origin) ==
  LET y == Refreshed(x) IN
  IF y.status \in {"expired", "consumed", "blocked"} THEN y
  ELSE Settled([y EXCEPT !.origins = @ \cup {origin}])

\* The contexts with the one the request declares, and its number.
Told(r) == IF r.ctx = 0 THEN Append(contexts, Declare(op.conn, r)) ELSE contexts
Asked(r) == IF r.ctx = 0 THEN Len(contexts) + 1 ELSE r.ctx

\* open_web compares the requested origin with the declared ones before it
\* navigates; a new declaration is widened by an approved one.
ScopeStep ==
  LET r == op.req  o == op.page.origin  b == Binding("origin", r.ctx, NoScope)
      mine == r.ctx # 0 /\ contexts[r.ctx].conn = op.conn
      wide == Extended(contexts[r.ctx], o) IN
  /\ step = "scope"
  /\ \/ /\ o \in Declared \/ (r.ctx # 0 /\ ~mine)
        /\ Proceed /\ UNCHANGED <<stepUps, contexts>>
     \/ /\ o \notin Declared /\ (r.ctx = 0 \/ mine) /\ Granted(b) /\ UNCHANGED stepUps
        /\ IF r.ctx = 0 THEN GoOnWith(r.stepUp) /\ UNCHANGED contexts
           ELSE /\ contexts' = [contexts EXCEPT ![r.ctx] = wide]
                /\ IF wide.status = "ready" THEN GoOnWith(r.stepUp) ELSE Return
     \/ /\ o \notin Declared /\ (r.ctx = 0 \/ mine) /\ Escalate(b) /\ UNCHANGED contexts
  /\ UNCHANGED <<policy, instrument, usage, grant, selected>> /\ Unmoved

\* act_web: the declaration or assertion is evaluated; on another origin than the
\* declared ones the scope is extended by a grant; the evidence is applied.
CheckStep ==
  LET r == op.req  o == op.page.origin  all == Told(r)  id == Asked(r)
      x == Evaluated(all[id], r, o)
      b == Binding("origin", id, NoScope)
      beyond == x.status = "step_up_required" /\ o \notin Declared
      granted == op.granted # 0 \/ Granted(b)
      y == WithEvidence(IF beyond /\ granted THEN Extended(x, o) ELSE x, o)
      useful == IF beyond THEN granted /\ Usable(Extended(x, o)) ELSE Usable(x) IN
  /\ step = "check" /\ Len(all) <= MaxContexts
  /\ IF all[id].conn # op.conn THEN Return /\ UNCHANGED <<stepUps, contexts>>
     ELSE IF beyond /\ ~granted
     THEN contexts' = [all EXCEPT ![id] = x] /\ Escalate(b)
     ELSE LET z == IF useful THEN y ELSE IF beyond THEN Extended(x, o) ELSE x IN
          /\ contexts' = [all EXCEPT ![id] = z] /\ UNCHANGED stepUps
          /\ \/ z.status # "ready" /\ Return
             \/ z.status = "ready" /\ Advance
                /\ op' = [op EXCEPT !.ctx = id,
                            !.granted = IF beyond /\ @ = 0 THEN r.stepUp ELSE @]
             \/ Return  \* a protected surface: the operation asks for a takeover
  /\ UNCHANGED <<policy, instrument, usage, grant, selected>> /\ Unmoved

\* An observation projects the state of the connection's last context, which
\* compares it with the page.
Latest(c) == {i \in DOMAIN contexts : contexts[i].conn = c}
Observe(c) ==
  /\ Latest(c) # {}
  /\ contexts' = [contexts EXCEPT ![Max(Latest(c))] = Bound(Refreshed(@), page.origin)]
  /\ UNCHANGED <<now, page, stepUps, policy, instrument, usage, grant, reader, selected,
                 step, op, effects, attempts, kinds>>

----------------------------------------------------------------------------
(* Payments.                                                                *)

Escalations == {"assurance", "limit"}

MUT_PolicyDecision(amount, level) ==  \* past uses without the new amount
  IF level < policy.minimum THEN "assurance"
  ELSE IF \/ amount > policy.absolute
          \/ usage[Day(now)] >= policy.daily
          \/ Spent(usage, DaysOfMonth(now)) >= policy.monthly THEN "deny"
  ELSE IF amount > policy.autonomy THEN "limit" ELSE "allow"

\* _evaluate_policy: an assurance below the policy's is escalated before, and so
\* without, a look at the limits.
PolicyDecision(amount, level) ==
  IF level < policy.minimum THEN "assurance"
  ELSE IF \/ amount > policy.absolute
          \/ usage[Day(now)] + amount > policy.daily
          \/ Spent(usage, DaysOfMonth(now)) + amount > policy.monthly THEN "deny"
  ELSE IF amount > policy.autonomy THEN "limit" ELSE "allow"

\* The selection the commit relies on: the same connection, document and amount.
SelectionMatches ==
  selected = [conn |-> op.conn, page |-> op.page, amount |-> op.req.amount]

\* _validate_instrument_scope, and authorize, which may leave the limits out.
InstrumentFits == instrument = "active"
Authorize(amount, level, limits) ==
  IF ~InstrumentFits THEN "deny"
  ELSE IF limits THEN PolicyDecision(amount, level) ELSE "allow"

\* What the policy decides: refused, escalated, or passed on; the declaration or
\* the broker may refuse for other reasons too.
Judge(decision, b, whenPassed) ==
  \/ Return /\ UNCHANGED <<stepUps, contexts>>
  \/ decision \in Escalations /\ Escalate(b) /\ UNCHANGED contexts
  \/ decision \in Escalations /\ Granted(b) /\ UNCHANGED stepUps /\ whenPassed
  \/ decision = "allow" /\ UNCHANGED stepUps /\ whenPassed

\* The authorization, kept until the use is booked.
GoOnAs(decision) ==
  Advance /\ op' = [op EXCEPT !.verdict = decision,
                      !.granted = IF decision = "allow" THEN @ ELSE op.req.stepUp]

\* The scope of a payment's step-up: the amount, what is known of it, and the
\* instrument where one is named.
FinancialScope(reason, level, named) ==
  Binding(reason, op.ctx, [amount |-> op.req.amount, assurance |-> level, named |-> named])

\* provide_payment_instrument, which commits on a control that does: the evidence
\* with the authorization is applied to the context.
PaymentStep ==
  /\ step = "payment" /\ op.req.kind # "commit"
  /\ \E level \in Levels :
       LET decision == Authorize(op.req.amount, level, op.req.kind = "pay")
           x == WithEvidence(contexts[op.ctx], op.page.origin) IN
       Judge(decision, FinancialScope(decision, level, TRUE),
             /\ contexts' = [contexts EXCEPT ![op.ctx] = x]
             /\ IF x.status = "ready" THEN GoOnAs(decision) ELSE Return)
  /\ UNCHANGED <<policy, instrument, usage, grant, selected>> /\ Unmoved

\* authorize_policy where the declaration names no instrument.
CommitDecision(amount, level, named) ==
  IF ~named THEN PolicyDecision(amount, level)
  ELSE IF SelectionMatches THEN Authorize(amount, level, TRUE) ELSE "deny"

\* Another operation on a control that commits. The declaration names the selected
\* instrument, or none; then it is the Profile's own policy that decides, and a
\* Profile without one lets the operation pass with no authorization to book.
FinancialCommitStep ==
  /\ step = "payment" /\ op.req.kind = "commit"
  /\ \E named, linked \in BOOLEAN, level \in Levels :
       LET decision == CommitDecision(op.req.amount, level, named) IN
       \/ /\ named \/ linked
          /\ Judge(decision, FinancialScope(decision, level, named),
                   UNCHANGED contexts /\ GoOnAs(decision))
       \/ ~named /\ ~linked /\ Proceed /\ UNCHANGED <<stepUps, contexts>>
  /\ UNCHANGED <<policy, instrument, usage, grant, selected>> /\ Unmoved

RegisterPolicy(p) ==
  /\ \E k \in kinds : Commits(k)
  /\ policy' = p
  /\ UNCHANGED <<now, page, stepUps, contexts, instrument, usage, grant, reader, selected,
                 step, op, effects, attempts, kinds>>

RevokeInstrument ==
  /\ \E k \in kinds : Pays(k)
  /\ instrument' = "revoked"
  /\ UNCHANGED <<now, page, stepUps, contexts, policy, usage, grant, reader, selected,
                 step, op, effects, attempts, kinds>>

\* usage() computes the totals, and keeps the records it has seen, without the lock.
ReadUsage ==
  /\ UsageReads /\ (\E k \in kinds : Commits(k)) /\ reader = None
  /\ reader' = Retained(usage, now)
  /\ UNCHANGED <<now, page, brokers, selected, step, op, effects, attempts, kinds>>

KeepUsage ==
  /\ reader # None /\ usage' = reader /\ reader' = None
  /\ UNCHANGED <<now, page, stepUps, contexts, policy, instrument, grant, selected,
                 step, op, effects, attempts, kinds>>

----------------------------------------------------------------------------
(* Local resources.                                                         *)

RegisterGrant ==
  /\ "upload" \in kinds /\ grant = None
  /\ grant' = [uses |-> GrantUses, expires |-> now + ContextTTL, revoked |-> FALSE, conn |-> None]
  /\ UNCHANGED <<now, page, stepUps, contexts, policy, instrument, usage, reader, selected,
                 step, op, effects, attempts, kinds>>

RevokeGrant ==
  /\ grant # None
  /\ grant' = [grant EXCEPT !.revoked = TRUE]
  /\ UNCHANGED <<now, page, stepUps, contexts, policy, instrument, usage, reader, selected,
                 step, op, effects, attempts, kinds>>

Active == ~grant.revoked /\ grant.expires > now /\ grant.uses > 0

GrantFits == grant # None /\ Active /\ grant.conn \in {None, op.conn}

\* The first connection that is authorized keeps the grant. The decision the
\* context gives on the evidence is not looked at again.
ResourceStep ==
  /\ step = "resource"
  /\ IF GrantFits
     THEN /\ grant' = [grant EXCEPT !.conn = op.conn] /\ Proceed
          /\ contexts' = [contexts EXCEPT ![op.ctx] = WithEvidence(@, op.page.origin)]
     ELSE Return /\ UNCHANGED <<grant, contexts>>
  /\ UNCHANGED <<stepUps, policy, instrument, usage, selected>> /\ Unmoved

----------------------------------------------------------------------------
(* The browser acts, and what the operation used is booked.                 *)

Effect == [conn |-> op.conn, kind |-> op.req.kind, amount |-> op.req.amount,
           stepUp |-> op.granted, ctx |-> op.ctx, page |-> op.page, day |-> Day(now),
           verdict |-> op.verdict, recorded |-> FALSE, answered |-> FALSE]

Mark(field) == effects' = [effects EXCEPT ![Len(effects)][field] = TRUE]

\* The document may stay or be replaced, by one of any origin.
Moved == \/ op.req.kind # "open" /\ UNCHANGED page
         \/ \E o \in Origins : page' = [doc |-> page.doc + 1, origin |-> o]

\* The browser refuses, has nothing to do, asks for a takeover; or acts and
\* answers, or acts and the answer is an error.
Execute ==
  /\ step = "execute"
  /\ \/ Return /\ UNCHANGED <<page, effects>>
     \/ Moved /\ effects' = Append(effects, Effect) /\ Proceed
     \/ LostAnswers /\ Moved /\ effects' = Append(effects, Effect) /\ Return
  /\ selected' = IF op.req.kind = "open" THEN None ELSE selected
  /\ UNCHANGED <<now, brokers, reader, attempts, kinds>>

MUT_ConsumeGrant ==  \* the use is not counted
  /\ step = "grant" /\ Proceed
  /\ UNCHANGED <<brokers, selected>> /\ Unmoved

ConsumeGrant ==
  /\ step = "grant"
  /\ grant' = IF Active THEN [grant EXCEPT !.uses = @ - 1] ELSE grant
  /\ Proceed
  /\ UNCHANGED <<stepUps, contexts, policy, instrument, usage, selected>> /\ Unmoved

\* open_web evaluates the context on the page it reached.
EvaluateAfterOpen ==
  LET r == op.req  all == Told(r)  id == Asked(r)  mine == all[id].conn = op.conn IN
  /\ step = "evaluate" /\ Len(all) <= MaxContexts
  /\ contexts' = IF mine THEN [all EXCEPT ![id] = Evaluated(@, r, page.origin)] ELSE contexts
  /\ Proceed
  /\ UNCHANGED <<stepUps, policy, instrument, usage, grant, selected>> /\ Unmoved

MUT_ConsumeStepUp ==  \* the grant stays approved
  /\ step = "stepup" /\ Proceed
  /\ UNCHANGED <<brokers, selected>> /\ Unmoved

\* A grant that has expired meanwhile is an exception.
ConsumeStepUp ==
  /\ step = "stepup"
  /\ IF Status(op.granted) = "approved"
     THEN stepUps' = [stepUps EXCEPT ![op.granted].status = "consumed"] /\ Proceed
     ELSE Return /\ UNCHANGED stepUps
  /\ UNCHANGED <<contexts, policy, instrument, usage, grant, selected>> /\ Unmoved

\* A commit is booked; a selection is kept until the next commit or navigation.
RecordUse ==
  /\ step = "record" /\ Commits(op.req.kind)
  /\ usage' = Retained([usage EXCEPT ![Day(now)] = @ + op.req.amount], now)
  /\ selected' = None /\ Mark("recorded") /\ Proceed
  /\ UNCHANGED <<now, page, stepUps, contexts, policy, instrument, grant, reader, attempts, kinds>>

SelectInstrument ==
  /\ step = "record" /\ op.req.kind = "provide"
  /\ selected' = [conn |-> op.conn, page |-> op.page, amount |-> op.req.amount]
  /\ Proceed /\ UNCHANGED brokers /\ Unmoved

\* The use is counted on the page that the operation left behind.
Consumed(x) ==
  LET y == Bound(Refreshed(x), page.origin) IN
  IF y.status # "ready" THEN y
  ELSE [y EXCEPT !.uses = @ - 1, !.status = IF y.uses = 1 THEN "consumed" ELSE @]

MUT_ConsumeContext ==  \* the use is not counted
  /\ step = "context" /\ Proceed
  /\ UNCHANGED <<brokers, selected>> /\ Unmoved

ConsumeContext ==
  /\ step = "context"
  /\ contexts' = [contexts EXCEPT ![op.ctx] = Consumed(@)]
  /\ Proceed
  /\ UNCHANGED <<stepUps, policy, instrument, usage, grant, selected>> /\ Unmoved

\* The receipt is stored and the lock given back.
Answer ==
  /\ step = "answer" /\ Mark("answered") /\ Return
  /\ UNCHANGED <<now, page, brokers, reader, selected, attempts, kinds>>

Tick ==
  /\ now < MaxTime /\ now' = now + 1
  /\ UNCHANGED <<page, brokers, reader, selected, step, op, effects, attempts, kinds>>

----------------------------------------------------------------------------
Requests ==
  [kind : kinds, amount : Amounts \cup {0}, stepUp : 0..MaxStepUps, ctx : 0..MaxContexts,
   asserts : BOOLEAN, claim : BOOLEAN, origin : Origins]

\* Only payments have an amount, and state all the declaration asks for; only a new
\* declaration claims an authorization.
Sensible(r) ==
  /\ IF Pays(r.kind) THEN r.amount # 0 /\ r.claim /\ r.asserts ELSE r.amount = 0
  /\ r.ctx # 0 => r.claim

Next ==
  \/ \E c \in Conns, r \in {q \in Requests : Sensible(q)} : Begin(c, r)
  \/ ProfileStep \/ ScopeStep \/ CheckStep \/ PaymentStep \/ FinancialCommitStep
  \/ ResourceStep \/ Execute
  \/ ConsumeGrant \/ EvaluateAfterOpen \/ ConsumeStepUp \/ RecordUse
  \/ SelectInstrument \/ ConsumeContext \/ Answer
  \/ \E s \in 1..MaxStepUps : Approve(s) \/ Reject(s)
  \/ \E c \in Conns : Observe(c)
  \/ \E p \in Policies : RegisterPolicy(p)
  \/ RevokeInstrument \/ ReadUsage \/ KeepUsage \/ RegisterGrant \/ RevokeGrant \/ Tick

Spec == Init /\ [][Next]_vars

----------------------------------------------------------------------------
(* Properties.                                                              *)

StepUpStatuses == {"pending", "approved", "rejected", "consumed"}
ContextStatuses == {"assertion_required", "ready", "step_up_required", "blocked",
                    "consumed", "expired"}

Pages == [doc : Nat, origin : Origins]
Sums == Amounts \cup {0}
Scopes == [amount : Sums, assurance : Levels, named : BOOLEAN]
Reasons == {"profile", "origin"} \cup Escalations
Verdicts == {"none", "allow"} \cup Escalations
Bindings == [conn : Conns, ctx : Nat, page : Pages, kind : AllKinds,
             reason : Reasons, scope : Scopes]
StepUpRows == [binding : Bindings, status : StepUpStatuses, expires : Nat]
ContextRows == [conn : Conns, origins : SUBSET Origins, uses : 0..MaxUses, expires : Nat,
                asserted : BOOLEAN, status : ContextStatuses]
GrantRows == [uses : 0..GrantUses, expires : Nat, revoked : BOOLEAN, conn : Conns \cup {None}]
Operations ==
  [conn : Conns \cup {None}, ctx : Nat, granted : Nat, page : Pages, verdict : Verdicts,
   req : [kind : AllKinds, amount : Sums, stepUp : Nat, ctx : Nat,
          asserts : BOOLEAN, claim : BOOLEAN, origin : Origins]]
EffectRows ==
  [conn : Conns, kind : AllKinds, amount : Sums, stepUp : Nat, ctx : Nat, page : Pages,
   day : Days, verdict : Verdicts, recorded : BOOLEAN, answered : BOOLEAN]

(* Every table, the operation's locals and the history have their shape, and  *)
(* the clock has not passed its bound.                                        *)
TypeOK ==
  /\ now \in 0..MaxTime /\ page \in Pages /\ kinds \in KindSets
  /\ stepUps \in Seq(StepUpRows) /\ contexts \in Seq(ContextRows)
  /\ policy \in Policies /\ instrument \in {"active", "revoked"}
  /\ usage \in [Days -> Nat] /\ reader \in {None} \cup [Days -> Nat]
  /\ grant \in {None} \cup GrantRows
  /\ selected \in {None} \cup [conn : Conns, page : Pages, amount : Sums]
  /\ step \in Steps \cup {"idle"} /\ op \in Operations
  /\ effects \in Seq(EffectRows) /\ attempts \in Nat

DoneUnder(f, v) == {i \in DOMAIN effects : effects[i].answered /\ effects[i][f] = v}

(* A step-up grant is used by one answered operation at most, however many    *)
(* connections hold its number (StepUpManager: single-use).                   *)
StepUpUsedOnce ==
  \A s \in DOMAIN stepUps : Cardinality(DoneUnder("stepUp", s)) <= 1

(* What the browser did beyond the Profile policy, beyond the autonomy limit  *)
(* or on less assurance than the financial policy wants was approved for that *)
(* connection, document and amount; a payment that a policy let pass without  *)
(* asking is within the autonomy limit of one of them.                        *)
EscalationIsApproved ==
  \A i \in DOMAIN effects :
    LET e == effects[i]  s == e.stepUp  b == stepUps[s].binding IN
    /\ e.kind = "change" \/ e.verdict \in Escalations =>
         /\ s # 0 /\ stepUps[s].status \in {"approved", "consumed"}
         /\ b.conn = e.conn /\ b.page = e.page /\ b.kind = e.kind
         /\ e.verdict \in Escalations => b.reason = e.verdict /\ b.scope.amount = e.amount
    /\ e.verdict = "allow" /\ Commits(e.kind) => \E p \in Policies : e.amount <= p.autonomy

\* A payment the user approved for want of assurance, booked by day d.
Unlimited(d) ==
  {i \in DOMAIN effects : /\ effects[i].verdict = "assurance" /\ effects[i].recorded
                         /\ effects[i].day <= d}

(* No day's booked sum passes the largest daily limit ever registered, also   *)
(* when an authorization is booked on the next day, unless a payment was      *)
(* booked that the user approved for its low assurance: its amount is never   *)
(* compared with the limits.                                                  *)
RecordedWithinLimit ==
  \A d \in Days : Unlimited(d) = {} => \E p \in Policies : usage[d] <= p.daily

SpentOn(d) == LET F == {i \in DOMAIN effects : Commits(effects[i].kind) /\ effects[i].day = d}
              IN  MapThenSumSet(LAMBDA i : effects[i].amount, F)

(* Money that was committed on a day stays within its daily limit.            *)
SpendingWithinLimit ==
  \A d \in Days : \E p \in Policies : SpentOn(d) <= p.daily

\* What the user approved for a context, other than payments.
Widenings(i) ==
  {s \in DOMAIN stepUps : /\ stepUps[s].binding.ctx = i
                         /\ stepUps[s].binding.reason \notin Escalations
                         /\ stepUps[s].status \in {"approved", "consumed"}}
Served(i) == {k \in DoneUnder("ctx", i) : effects[k].kind # "open"}

(* A context serves max_uses operations, and one more for each step-up that   *)
(* the user approved for it: the use is not counted when the operation left   *)
(* the scope, and an approved step-up makes the context usable again. The     *)
(* step-up of a navigation does so at every attempt, before it is spent.      *)
UsesAreBounded ==
  \A i \in DOMAIN contexts :
    \/ \E s \in Widenings(i) : stepUps[s].binding.kind = "open"
    \/ Cardinality(Served(i)) <= MaxUses + Cardinality(Widenings(i))

(* A grant serves max_uses uploads, of the connection that used it first.     *)
GrantIsBounded ==
  LET U == DoneUnder("kind", "upload") IN
  /\ Cardinality(U) <= GrantUses
  /\ \A i, j \in U : effects[i].conn = effects[j].conn
=============================================================================
