----------------------------- MODULE HumanProofs -----------------------------
(***************************************************************************)
(* Proofs about HumanControl, for any number of Agents, Monitors, inputs   *)
(* and operations.                                                         *)
(***************************************************************************)
EXTENDS HumanControl, TLAPS

-----------------------------------------------------------------------------
(* The inductive invariants, in named parts.                               *)

Cleaning == {"clean", "clean-wait", "end-wait", "restore"}

(* A waiting operation is the one whose answer its next step reads.        *)
OpFits ==
  /\ pc # "idle" => op \in Calls
  /\ pc \in {"acquire-wait", "begin-wait"} => op.kind = "acquire"
  /\ pc \in {"check-wait", "input-wait"} => op.kind = "input"
  /\ after = "closing" => op \in Calls

Typed == TypeOK /\ OpFits

(* Jobs are served in order and nobody asks while another waits: when the  *)
(* caller has its answer the queue is empty, abandoned jobs included.      *)
QueueServed == pc \in Waits /\ answer # None => jobs = <<>>

Paused == QueueServed /\ AgentIsPaused

(* Somebody in control whose lease was granted in time.                    *)
InTime == human # None /\ ~late

(* Then no clean-up is owed, and only close() cleans up.                   *)
CleanupOwed == InTime => cleanup = <<>>

CleanupIsClose ==
  InTime /\ pc \in Cleaning => after = "closing" /\ restore = None

(* Between begin_human_control and the end of the lease no job that ends   *)
(* takeover is queued.                                                     *)
TakeoverKept ==
  InTime /\ pc \notin Cleaning \cup {"closing"} =>
    /\ \A i \in DOMAIN jobs : jobs[i].do # "end"
    /\ IF pc = "begin-wait"
         THEN /\ answer = None => jobs = <<Job("begin", None)>>
              /\ answer = "ok" => takeover
         ELSE takeover

(* The Agent whose lease acquire_human_control has read keeps it.          *)
LeaseHeld == pc = "acquire-wait" => agentLease \in {None, held}

Control == CleanupOwed /\ CleanupIsClose /\ TakeoverKept /\ LeaseHeld /\ AgentLeaseStays

(* Inputs are recorded as pressed only for somebody in control, or for the *)
(* clean-up that is owed.                                                  *)
RecordIsOwed ==
  /\ human = None /\ cleanup = <<>> => StuckInputs = {}
  /\ pc \in Cleaning => StuckInputs = {}
  /\ pc \in {"closing", "begin-wait"} => StuckInputs = {} \/ cleanup # <<>>
  /\ pc = "input-wait" => human # None \/ cleanup # <<>>
  /\ todo # {} => pc \in {"clean", "clean-wait"}

InputQueued ==
  pc = "input-wait" /\ answer = None => jobs = <<Job(op.do, op.input)>>

(* A press somebody waits for is that of an input.                         *)
AwaitedPress ==
  pc \in Waits /\ answer = None /\ jobs # <<>> /\ jobs[Len(jobs)].do = "down" => pc = "input-wait"

(* An input whose release was answered is up.                              *)
UpIsUp ==
  pc = "input-wait" /\ answer = "ok" /\ op.do = "up" => op.input \notin down

(* A pressed input is recorded, about to be recorded, or on its way up.    *)
UpQueued(input) == \E i \in DOMAIN jobs : jobs[i] = Job("up", input)

Covered(input) ==
  \/ input \in StuckInputs
  \/ input \in todo
  \/ UpQueued(input)
  \/ pc = "input-wait" /\ answer = "ok" /\ op.do = "down" /\ op.input = input

(* It goes up before takeover mode ends.                                   *)
Leaves(j) == j.do \in {"open", "end"}

UpComesFirst(input) ==
  \A i \in DOMAIN jobs : Leaves(jobs[i]) =>
    \E k \in DOMAIN jobs : k < i /\ jobs[k] = Job("up", input)

(* While it is recorded nothing queued ends takeover mode.                 *)
NoneLeaves == \A i \in DOMAIN jobs : ~Leaves(jobs[i])

Tracked ==
  \A input \in down \ stray :
    /\ takeover /\ Covered(input) /\ UpComesFirst(input)
    /\ input \in StuckInputs => NoneLeaves

Released == RecordIsOwed /\ InputQueued /\ AwaitedPress /\ UpIsUp /\ Tracked

-----------------------------------------------------------------------------
(* Calls, jobs and the queue.                                              *)

LEMMA CallFields ==
  ASSUME NEW c \in Calls
  PROVE  /\ c.kind \in AgentKinds => c.who \in Agents
         /\ c.kind \in {"acquire", "input", "release"} => c.who \in Conns
         /\ c.kind = "input" => c.do \in {"down", "up"} /\ c.input \in Inputs
BY DEF Calls, AgentKinds

LEMMA JobFields ==
  /\ \A do \in {"act", "open", "snapshot", "begin", "end"} : Job(do, None) \in Jobs
  /\ \A do \in {"down", "up"}, input \in Inputs : Job(do, input) \in Jobs
  /\ \A do, input : Job(do, input).do = do /\ Job(do, input).input = input
  /\ \A j \in Jobs : j.do \in {"down", "up"} => j.input \in Inputs
BY DEF Job, Jobs

LEMMA JobKinds ==
  \A j \in Jobs : j.do \in {"act", "open", "snapshot", "begin", "end", "down", "up"}
BY DEF Jobs

LEMMA AppendElement ==
  ASSUME NEW S, NEW s \in Seq(S), NEW e \in S
  PROVE  /\ Append(s, e) \in Seq(S)
         /\ \A i \in DOMAIN Append(s, e) :
              Append(s, e)[i] = e \/ (i \in DOMAIN s /\ Append(s, e)[i] = s[i])
OBVIOUS

LEMMA TailElement ==
  ASSUME NEW S, NEW s \in Seq(S), s # <<>>
  PROVE  /\ Head(s) \in S /\ Tail(s) \in Seq(S)
         /\ 1 \in DOMAIN s /\ Head(s) = s[1]
         /\ \A i \in DOMAIN Tail(s) : i + 1 \in DOMAIN s /\ Tail(s)[i] = s[i + 1]
         /\ Len(s) = 1 => Tail(s) = <<>>
<1>1. Head(s) \in S /\ Tail(s) \in Seq(S)  OBVIOUS
<1>2. Len(s) \in Nat \ {0} /\ DOMAIN s = 1..Len(s) /\ Head(s) = s[1]  OBVIOUS
<1>3. Len(Tail(s)) = Len(s) - 1 /\ DOMAIN Tail(s) = 1..(Len(s) - 1)  BY <1>2
<1>4. \A i \in 1..(Len(s) - 1) : Tail(s)[i] = s[i + 1]  OBVIOUS
<1>5. Len(s) = 1 => Tail(s) = <<>>  BY <1>1, <1>3
<1> QED BY <1>1, <1>2, <1>3, <1>4, <1>5

LEMMA StuckTyped ==
  ASSUME Typed PROVE StuckInputs \subseteq Inputs
BY DEF Typed, TypeOK, StuckInputs, Inputs

LEMMA Asked ==
  ASSUME Typed, NEW do, NEW input, NEW label, Job(do, input) \in Jobs, Ask(do, input, label)
  PROVE  /\ jobs' \in Seq(Jobs)
         /\ \A i \in DOMAIN jobs' :
              jobs'[i] = Job(do, input) \/ (i \in DOMAIN jobs /\ jobs'[i] = jobs[i])
         /\ \A i \in DOMAIN jobs : i \in DOMAIN jobs' /\ jobs'[i] = jobs[i]
         /\ \E i \in DOMAIN jobs' : jobs'[i] = Job(do, input)
         /\ jobs = <<>> => jobs' = <<Job(do, input)>>
<1>1. jobs \in Seq(Jobs) /\ jobs' = Append(jobs, Job(do, input))  BY DEF Typed, TypeOK, Ask
<1>2. jobs' \in Seq(Jobs)  BY <1>1
<1>3. /\ DOMAIN jobs = 1..Len(jobs) /\ Len(jobs) \in Nat
      /\ DOMAIN jobs' = 1..(Len(jobs) + 1)
      /\ jobs'[Len(jobs) + 1] = Job(do, input)
      /\ \A i \in 1..Len(jobs) : jobs'[i] = jobs[i]
  BY <1>1
<1>4. jobs = <<>> => jobs' = <<Job(do, input)>>  BY <1>1
<1> QED BY <1>2, <1>3, <1>4

LEMMA Served ==
  ASSUME Typed, Work
  PROVE  /\ Head(jobs) \in Jobs /\ jobs' \in Seq(Jobs)
         /\ 1 \in DOMAIN jobs /\ Head(jobs) = jobs[1]
         /\ \A i \in DOMAIN jobs' : i + 1 \in DOMAIN jobs /\ jobs'[i] = jobs[i + 1]
         /\ \A i \in DOMAIN jobs : i = 1 \/ (i - 1 \in DOMAIN jobs' /\ jobs'[i - 1] = jobs[i])
         /\ Len(jobs) = 1 => jobs' = <<>>
<1>1. jobs \in Seq(Jobs) /\ jobs # <<>> /\ jobs' = Tail(jobs)  BY DEF Typed, TypeOK, Work
<1>2. /\ Len(jobs) \in Nat \ {0}
      /\ DOMAIN jobs = 1..Len(jobs) /\ DOMAIN jobs' = 1..(Len(jobs) - 1)
      /\ \A i \in 1..(Len(jobs) - 1) : jobs'[i] = jobs[i + 1]
  BY <1>1, TailElement
<1> QED BY <1>1, <1>2, TailElement

-----------------------------------------------------------------------------
(* Types.                                                                  *)

LEMMA InitTyped == ASSUME Init PROVE Typed
<1>1. ops \in 0..MaxOps  BY HumanAssumption DEF Init
<1>2. cleanup \in Seq(Agents \cup {None}) /\ jobs \in Seq(Jobs)  BY DEF Init
<1>4. op \in Calls \cup {None}  BY DEF Init
<1>5. human \in [conn : Conns, agent : Agents \cup {None}] \cup {None}  BY DEF Init
<1>6. TypeOK  BY <1>1, <1>2, <1>4, <1>5 DEF Init, TypeOK
<1>3. OpFits  BY DEF Init, OpFits
<1> QED BY <1>6, <1>3 DEF Typed

LEMMA NextTyped ==
  ASSUME Typed, [Next]_vars
  PROVE  Typed'
<1> USE HumanAssumption DEF leases, recorded, page, local,
     Typed, TypeOK, OpFits, Waits, AgentKinds
<1>1. ASSUME NEW call \in Calls, Start(call) PROVE Typed'
  <2>1. cleanup # <<>> => Head(cleanup) \in Agents \cup {None} /\ Tail(cleanup) \in Seq(Agents \cup {None})
    BY TailElement
  <2>2. TypeOK'
    <3>1. CASE cleanup = <<>>  BY <1>1, <3>1 DEF Start
    <3>2. CASE cleanup # <<>>
      <4>1. cleanup' \in Seq(Agents \cup {None}) /\ restore' \in Agents \cup {None}
        BY <1>1, <2>1, <3>2 DEF Start, EndControl
      <4>2. todo' \subseteq Inputs
        BY <1>1, <3>2, StuckTyped DEF Start, EndControl
      <4> QED BY <1>1, <3>2, <4>1, <4>2 DEF Start, EndControl
    <3> QED BY <3>1, <3>2
  <2>3. OpFits'
    BY <1>1 DEF Start, EndControl
  <2> QED BY <2>2, <2>3
<1>2. CASE CleanNext
  <2>1. jobs' \in Seq(Jobs)
    BY <1>2, JobFields, Asked DEF CleanNext, Ask
  <2> QED BY <1>2, <2>1 DEF CleanNext, Ask
<1>3. CASE CleanLast
  <2>1. jobs' \in Seq(Jobs)
    BY <1>3, JobFields, Asked DEF CleanLast, Ask
  <2> QED BY <1>3, <2>1 DEF CleanLast, Ask
<1>4. CASE CleanAnswered  BY <1>4 DEF CleanAnswered, AfterClean
<1>5. CASE CleanEnds  BY <1>5 DEF CleanEnds
<1>6. CASE StatusDone  BY <1>6 DEF StatusDone, Return
<1>7. CASE AgentRefused  BY <1>7 DEF AgentRefused, Return
<1>8. CASE AgentStarts
  <2>1. jobs' \in Seq(Jobs)
    BY <1>8, JobFields, Asked, CallFields DEF AgentStarts, Ask
  <2> QED BY <1>8, <2>1, CallFields, StuckTyped DEF AgentStarts, Ask
<1>9. CASE AgentAnswered  BY <1>9 DEF AgentAnswered, Return
<1>10. CASE AcquireStarts
  <2>1. jobs' \in Seq(Jobs)
    BY <1>10, JobFields, Asked DEF AcquireStarts, Ask
  <2> QED BY <1>10, <2>1 DEF AcquireStarts, Ask
<1>11. CASE AcquireEnds  BY <1>11 DEF AcquireEnds, Return
<1>12. CASE Grant
  <2>1. jobs' \in Seq(Jobs)
    BY <1>12, JobFields, Asked, CallFields DEF Grant, Ask
  <2> QED BY <1>12, <2>1, CallFields DEF Grant, Ask
<1>13. CASE BeginAnswered  BY <1>13 DEF BeginAnswered, Return
<1>14. CASE InputStarts
  <2>1. jobs' \in Seq(Jobs)
    BY <1>14, JobFields, Asked DEF InputStarts, Ask
  <2> QED BY <1>14, <2>1 DEF InputStarts, Ask
<1>15. CASE InputRefused  BY <1>15 DEF InputRefused, Return
<1>16. CASE Dispatch
  <2>1. jobs' \in Seq(Jobs)
    BY <1>16, JobFields, Asked, CallFields DEF Dispatch, Ask, InControl
  <2> QED BY <1>16, <2>1, CallFields DEF Dispatch, Ask, InControl
<1>17. CASE RecordInput
  BY <1>17, CallFields DEF RecordInput, Return, Forgotten, Inputs
<1>18. CASE InputFails  BY <1>18 DEF InputFails, Return
<1>19. CASE NothingToRelease  BY <1>19 DEF NothingToRelease, Return, InControl
<1>20. CASE Release
  BY <1>20, StuckTyped DEF Release, EndControl, StuckInputs, InControl
<1>21. CASE CloseStarts
  BY <1>21, StuckTyped DEF CloseStarts, EndControl, StuckInputs
<1>22. CASE CloseEnds  BY <1>22 DEF CloseEnds
<1>23. CASE TimesOut  BY <1>23 DEF TimesOut, AfterClean
<1>24. CASE Work
  <2>1. Head(jobs) \in Jobs /\ jobs' \in Seq(Jobs)
    BY <1>24, Served
  <2>2. takeover' \in BOOLEAN /\ down' \subseteq Inputs
    <3>1. CASE Does(Head(jobs))
      BY <2>1, <3>1, JobFields, JobKinds DEF Does
    <3>2. CASE UNCHANGED page  BY <3>2
    <3> QED BY <1>24, <3>1, <3>2 DEF Work
  <2>3. answer' \in {"ok", "error", None}
    BY <1>24 DEF Work, Answers
  <2>4. stray' \subseteq Inputs
    BY <1>24, <2>1, JobFields DEF Work, Loses
  <2> QED BY <1>24, <2>1, <2>2, <2>3, <2>4 DEF Work
<1>25. CASE HumanExpires
  <2>1. cleanup' \in Seq(Agents \cup {None})
    BY <1>25, AppendElement DEF HumanExpires
  <2> QED BY <1>25, <2>1 DEF HumanExpires
<1>26. CASE AgentExpires  BY <1>26 DEF AgentExpires
<1>27. CASE UNCHANGED vars  BY <1>27 DEF vars
<1> QED
  BY <1>1, <1>2, <1>3, <1>4, <1>5, <1>6, <1>7, <1>8, <1>9, <1>10, <1>11, <1>12, <1>13,
     <1>14, <1>15, <1>16, <1>17, <1>18, <1>19, <1>20, <1>21, <1>22, <1>23, <1>24, <1>25, <1>26, <1>27 DEF Next, Operation

(* TypeCorrect: leases, queue, page and the locals of the running operation *)
(* keep their types; an input is dispatched only from an input message.     *)
THEOREM TypeCorrect == Spec => []TypeOK
<1>1. Init => Typed  BY InitTyped
<1>2. Typed /\ [Next]_vars => Typed'  BY NextTyped
<1>3. Typed => TypeOK  BY DEF Typed
<1> QED BY <1>1, <1>2, <1>3, PTL DEF Spec

-----------------------------------------------------------------------------
(* The Agent is paused.                                                    *)

LEMMA InitPaused == ASSUME Init PROVE Paused
BY HumanAssumption DEF Init, Paused, QueueServed, AgentIsPaused, Waits

LEMMA NextPaused ==
  ASSUME Typed, Paused, [Next]_vars
  PROVE  Paused'
<1> USE HumanAssumption DEF leases, recorded, page, local,
     Typed, TypeOK, OpFits, Waits, Paused, QueueServed, AgentIsPaused, AgentKinds
<1>1. ASSUME NEW call \in Calls, Start(call) PROVE Paused'  BY <1>1 DEF Start, EndControl, StuckInputs
<1>2. CASE CleanNext
  <2>1. \A i \in DOMAIN jobs' : jobs'[i].do \notin AgentKinds \/ (i \in DOMAIN jobs /\ jobs'[i] = jobs[i])
    BY <1>2, JobFields, Asked DEF CleanNext, Ask
  <2> QED BY <1>2, <2>1 DEF CleanNext, Ask
<1>3. CASE CleanLast
  <2>1. \A i \in DOMAIN jobs' : jobs'[i].do \notin AgentKinds \/ (i \in DOMAIN jobs /\ jobs'[i] = jobs[i])
    BY <1>3, JobFields, Asked DEF CleanLast, Ask
  <2> QED BY <1>3, <2>1 DEF CleanLast, Ask
<1>4. CASE CleanAnswered  BY <1>4 DEF CleanAnswered, AfterClean
<1>5. CASE CleanEnds  BY <1>5 DEF CleanEnds
<1>6. CASE StatusDone  BY <1>6 DEF StatusDone, Return
<1>7. CASE AgentRefused  BY <1>7 DEF AgentRefused, Return
<1>8. CASE AgentStarts  BY <1>8 DEF AgentStarts, Ask
<1>9. CASE AgentAnswered  BY <1>9 DEF AgentAnswered, Return
<1>10. CASE AcquireStarts
  <2>1. \A i \in DOMAIN jobs' : jobs'[i].do \notin AgentKinds \/ (i \in DOMAIN jobs /\ jobs'[i] = jobs[i])
    BY <1>10, JobFields, Asked DEF AcquireStarts, Ask
  <2> QED BY <1>10, <2>1 DEF AcquireStarts, Ask
<1>11. CASE AcquireEnds  BY <1>11 DEF AcquireEnds, Return
<1>12. CASE Grant
  <2>1. jobs = <<>>
    BY <1>12 DEF Grant
  <2>2. \A i \in DOMAIN jobs' : jobs'[i] = Job("begin", None)
    BY <1>12, <2>1 DEF Grant, Ask
  <2> QED BY <1>12, <2>2, JobFields DEF Grant, Ask
<1>13. CASE BeginAnswered  BY <1>13 DEF BeginAnswered, Return
<1>14. CASE InputStarts
  <2>1. \A i \in DOMAIN jobs' : jobs'[i].do \notin AgentKinds \/ (i \in DOMAIN jobs /\ jobs'[i] = jobs[i])
    BY <1>14, JobFields, Asked DEF InputStarts, Ask
  <2> QED BY <1>14, <2>1 DEF InputStarts, Ask
<1>15. CASE InputRefused  BY <1>15 DEF InputRefused, Return
<1>16. CASE Dispatch
  <2>1. \A i \in DOMAIN jobs' : jobs'[i].do \notin AgentKinds \/ (i \in DOMAIN jobs /\ jobs'[i] = jobs[i])
    BY <1>16, JobFields, Asked, CallFields DEF Dispatch, Ask, InControl
  <2> QED BY <1>16, <2>1 DEF Dispatch, Ask, InControl
<1>17. CASE RecordInput  BY <1>17 DEF RecordInput, Return
<1>18. CASE InputFails  BY <1>18 DEF InputFails, Return
<1>19. CASE NothingToRelease  BY <1>19 DEF NothingToRelease, Return, InControl
<1>20. CASE Release  BY <1>20 DEF Release, EndControl, StuckInputs, InControl
<1>21. CASE CloseStarts  BY <1>21 DEF CloseStarts, EndControl, StuckInputs
<1>22. CASE CloseEnds  BY <1>22 DEF CloseEnds
<1>23. CASE TimesOut  BY <1>23 DEF TimesOut, AfterClean
<1>24. CASE Work
  <2>1. Len(jobs) = 1 => jobs' = <<>>
    BY <1>24, Served
  <2>2. QueueServed'
    BY <1>24, <2>1 DEF Work, Answers, Awaited
  <2>3. AgentIsPaused'
    BY <1>24, Served DEF Work
  <2> QED BY <2>2, <2>3
<1>25. CASE HumanExpires  BY <1>25 DEF HumanExpires
<1>26. CASE AgentExpires  BY <1>26 DEF AgentExpires
<1>27. CASE UNCHANGED vars  BY <1>27 DEF vars
<1> QED
  BY <1>1, <1>2, <1>3, <1>4, <1>5, <1>6, <1>7, <1>8, <1>9, <1>10, <1>11, <1>12, <1>13,
     <1>14, <1>15, <1>16, <1>17, <1>18, <1>19, <1>20, <1>21, <1>22, <1>23, <1>24, <1>25, <1>26, <1>27 DEF Next, Operation

(* AgentPaused: while a human is in control no Agent job is in the queue,  *)
(* whatever expires, fails or is given up.                                 *)
THEOREM AgentPaused == Spec => []AgentIsPaused
<1>1. Init => Typed /\ Paused  BY InitTyped, InitPaused
<1>2. Typed /\ Paused /\ [Next]_vars => (Typed /\ Paused)'  BY NextTyped, NextPaused
<1>3. Paused => AgentIsPaused  BY DEF Paused
<1> QED BY <1>1, <1>2, <1>3, PTL DEF Spec

-----------------------------------------------------------------------------
(* The human is in control.                                                *)

LEMMA InitControl == ASSUME Init PROVE Control
BY HumanAssumption
   DEF Init, Control, CleanupOwed, CleanupIsClose, TakeoverKept, LeaseHeld, AgentLeaseStays, InTime

LEMMA NextControl ==
  ASSUME Typed, Paused, Control, [Next]_vars
  PROVE  Control'
<1> USE HumanAssumption DEF leases, recorded, page, local,
     Typed, TypeOK, OpFits, Waits, Paused, QueueServed, AgentIsPaused, AgentKinds,
     Control, CleanupOwed, CleanupIsClose, TakeoverKept, LeaseHeld, AgentLeaseStays,
     Cleaning, InTime
<1>1. ASSUME NEW call \in Calls, Start(call) PROVE Control'
  <2>1. CASE cleanup = <<>>  BY <1>1, <2>1 DEF Start
  <2>2. CASE cleanup # <<>>  BY <1>1, <2>2 DEF Start, EndControl
  <2> QED BY <2>1, <2>2
<1>2. CASE CleanNext  BY <1>2 DEF CleanNext, Ask
<1>3. CASE CleanLast  BY <1>3 DEF CleanLast, Ask
<1>4. CASE CleanAnswered  BY <1>4 DEF CleanAnswered, AfterClean
<1>5. CASE CleanEnds  BY <1>5 DEF CleanEnds
<1>6. CASE StatusDone  BY <1>6 DEF StatusDone, Return
<1>7. CASE AgentRefused  BY <1>7 DEF AgentRefused, Return
<1>8. CASE AgentStarts
  <2>1. \A i \in DOMAIN jobs' : jobs'[i].do # "end" \/ (i \in DOMAIN jobs /\ jobs'[i] = jobs[i])
    BY <1>8, JobFields, Asked DEF AgentStarts, Ask
  <2> QED BY <1>8, <2>1 DEF AgentStarts, Ask
<1>9. CASE AgentAnswered  BY <1>9 DEF AgentAnswered, Return
<1>10. CASE AcquireStarts
  <2>1. \A i \in DOMAIN jobs' : jobs'[i].do # "end" \/ (i \in DOMAIN jobs /\ jobs'[i] = jobs[i])
    BY <1>10, JobFields, Asked DEF AcquireStarts, Ask
  <2> QED BY <1>10, <2>1 DEF AcquireStarts, Ask
<1>11. CASE AcquireEnds  BY <1>11 DEF AcquireEnds, Return
<1>12. CASE Grant
  <2>1. jobs' = <<Job("begin", None)>>
    BY <1>12, JobFields, Asked DEF Grant, Ask
  <2>2. \A i \in DOMAIN jobs' : jobs'[i].do # "end"
    BY <2>1, JobFields
  <2> QED BY <1>12, <2>1, <2>2 DEF Grant, Ask
<1>13. CASE BeginAnswered  BY <1>13 DEF BeginAnswered, Return
<1>14. CASE InputStarts
  <2>1. \A i \in DOMAIN jobs' : jobs'[i].do # "end" \/ (i \in DOMAIN jobs /\ jobs'[i] = jobs[i])
    BY <1>14, JobFields, Asked DEF InputStarts, Ask
  <2> QED BY <1>14, <2>1 DEF InputStarts, Ask
<1>15. CASE InputRefused  BY <1>15 DEF InputRefused, Return
<1>16. CASE Dispatch
  <2>1. \A i \in DOMAIN jobs' : jobs'[i].do # "end" \/ (i \in DOMAIN jobs /\ jobs'[i] = jobs[i])
    BY <1>16, JobFields, Asked, CallFields DEF Dispatch, Ask, InControl
  <2> QED BY <1>16, <2>1 DEF Dispatch, Ask, InControl
<1>17. CASE RecordInput  BY <1>17 DEF RecordInput, Return
<1>18. CASE InputFails  BY <1>18 DEF InputFails, Return
<1>19. CASE NothingToRelease  BY <1>19 DEF NothingToRelease, Return, InControl
<1>20. CASE Release  BY <1>20 DEF Release, EndControl, StuckInputs, InControl
<1>21. CASE CloseStarts  BY <1>21 DEF CloseStarts, EndControl, StuckInputs
<1>22. CASE CloseEnds  BY <1>22 DEF CloseEnds
<1>23. CASE TimesOut  BY <1>23 DEF TimesOut, AfterClean
<1>24. CASE Work
  <2>1. \A i \in DOMAIN jobs' : \E k \in DOMAIN jobs : jobs'[i] = jobs[k]
    BY <1>24, Served
  <2>2. TakeoverKept'
    <3>1. SUFFICES ASSUME InTime, pc \notin Cleaning \cup {"closing"} PROVE TakeoverKept'
      BY <1>24 DEF Work
    <3>2. Head(jobs).do \notin {"act", "open", "end"}
      BY <1>24, <3>1, Served
    <3>3. CASE pc = "begin-wait"
      BY <1>24, <2>1, <3>1, <3>3, Served, JobFields DEF Work, Answers, Awaited, Does
    <3>4. CASE pc # "begin-wait"
      <4>1. takeover'
        <5>1. takeover = TRUE
          BY <3>1, <3>4
        <5>2. takeover' = TRUE \/ takeover' = takeover
          BY <1>24, <3>2 DEF Work, Does
        <5> QED BY <5>1, <5>2
      <4> QED BY <1>24, <2>1, <3>1, <3>4, <4>1 DEF Work
    <3> QED BY <3>3, <3>4
  <2> QED BY <1>24, <2>2 DEF Work
<1>25. CASE HumanExpires
  <2>1. Tail(Append(<<>>, human.agent)) = <<>>
    OBVIOUS
  <2> QED BY <1>25, <2>1 DEF HumanExpires
<1>26. CASE AgentExpires  BY <1>26 DEF AgentExpires
<1>27. CASE UNCHANGED vars  BY <1>27 DEF vars
<1> QED
  BY <1>1, <1>2, <1>3, <1>4, <1>5, <1>6, <1>7, <1>8, <1>9, <1>10, <1>11, <1>12, <1>13,
     <1>14, <1>15, <1>16, <1>17, <1>18, <1>19, <1>20, <1>21, <1>22, <1>23, <1>24, <1>25, <1>26, <1>27 DEF Next, Operation

LEMMA ControlInvariant == Spec => [](Typed /\ Paused /\ Control)
<1>1. Init => Typed /\ Paused /\ Control  BY InitTyped, InitPaused, InitControl
<1>2. Typed /\ Paused /\ Control /\ [Next]_vars => (Typed /\ Paused /\ Control)'
  BY NextTyped, NextPaused, NextControl
<1> QED BY <1>1, <1>2, PTL DEF Spec

(* HumanInControl: whoever holds the human lease has the page in takeover   *)
(* mode, whatever expires, fails or is given up, unless the clean-up of an  *)
(* older lease was owed already when his was granted.                       *)
THEOREM HumanInControl == Spec => []HumanHasControl
<1>1. Control => HumanHasControl
  BY DEF Control, TakeoverKept, HumanHasControl, Cleaning, InTime
<1> QED BY <1>1, ControlInvariant, PTL

(* AgentLeaseKept: with the same exception the Agent lease is free or with  *)
(* the Agent the human interrupted.                                         *)
THEOREM AgentLeaseKept == Spec => []AgentLeaseStays
<1>1. Control => AgentLeaseStays  BY DEF Control
<1> QED BY <1>1, ControlInvariant, PTL
-----------------------------------------------------------------------------
(* No input the runtime knows of stays pressed.                            *)

LEMMA InitReleased == ASSUME Init PROVE Released
BY DEF Init, Released, RecordIsOwed, InputQueued, AwaitedPress, UpIsUp, Tracked, Cleaning, StuckInputs

(* A step that queues nothing and keeps the page.                          *)
LEMMA TrackedOn ==
  ASSUME Tracked, jobs' = jobs, down' = down, takeover' = takeover,
         \A x \in down \ stray' :
           /\ x \notin stray
           /\ Covered(x) => Covered(x)'
           /\ x \in StuckInputs' => x \in StuckInputs \/ jobs = <<>>
  PROVE  Tracked'
<1>1. SUFFICES ASSUME NEW x \in down \ stray'
               PROVE  takeover' /\ Covered(x)' /\ UpComesFirst(x)' /\ (x \in StuckInputs' => NoneLeaves')
  BY DEF Tracked
<1>2. takeover' /\ Covered(x)' /\ UpComesFirst(x)'
  BY <1>1 DEF Tracked, UpComesFirst
<1>3. jobs = <<>> => NoneLeaves'
  BY DEF NoneLeaves
<1>4. NoneLeaves => NoneLeaves'
  BY DEF NoneLeaves
<1> QED BY <1>1, <1>2, <1>3, <1>4 DEF Tracked

(* A step that queues a job and keeps the page.                            *)
LEMMA TrackedAsk ==
  ASSUME Typed, Tracked, pc # "input-wait", down' = down, takeover' = takeover,
         NEW do, NEW input, NEW label, Job(do, input) \in Jobs, Ask(do, input, label),
         do \in {"open", "end"} => \A x \in down \ stray' : UpQueued(x) /\ x \notin StuckInputs',
         \A x \in down \ stray' :
           /\ x \notin stray
           /\ x \in StuckInputs <=> x \in StuckInputs'
           /\ x \in todo => x \in todo' \/ (do = "up" /\ input = x)
  PROVE  Tracked'
<1>1. /\ jobs \in Seq(Jobs)
      /\ jobs' = Append(jobs, Job(do, input))
  BY DEF Typed, TypeOK, Ask
<1>2. /\ DOMAIN jobs = 1..Len(jobs) /\ Len(jobs) \in Nat
      /\ DOMAIN jobs' = 1..(Len(jobs) + 1)
      /\ jobs'[Len(jobs) + 1] = Job(do, input)
      /\ \A i \in 1..Len(jobs) : jobs'[i] = jobs[i]
  BY <1>1
<1>3. SUFFICES ASSUME NEW x \in down \ stray' PROVE takeover' /\ Covered(x)' /\ UpComesFirst(x)' /\ (x \in StuckInputs' => NoneLeaves')
  BY DEF Tracked
<1>4. takeover /\ Covered(x) /\ UpComesFirst(x) /\ (x \in StuckInputs => NoneLeaves)
  BY <1>3 DEF Tracked
<1>5. UpQueued(x) => UpQueued(x)'
  BY <1>2 DEF UpQueued
<1>6. do = "up" /\ input = x => UpQueued(x)'
  BY <1>2 DEF UpQueued
<1>7. Covered(x)'
  BY <1>3, <1>4, <1>5, <1>6 DEF Covered
<1>8. UpComesFirst(x)'
  <2>1. SUFFICES ASSUME NEW i \in DOMAIN jobs', Leaves(jobs'[i])
                 PROVE  \E k \in DOMAIN jobs' : k < i /\ jobs'[k] = Job("up", x)
    BY DEF UpComesFirst
  <2>2. CASE i \in DOMAIN jobs
    <3>1. PICK k \in DOMAIN jobs : k < i /\ jobs[k] = Job("up", x)
      BY <1>2, <1>4, <2>1, <2>2 DEF UpComesFirst
    <3> QED BY <1>2, <3>1
  <2>3. CASE i \notin DOMAIN jobs
    <3>1. i = Len(jobs) + 1 /\ do \in {"open", "end"}
      BY <1>2, <2>1, <2>3, JobFields DEF Leaves
    <3>2. PICK k \in DOMAIN jobs : jobs[k] = Job("up", x)
      BY <1>3, <3>1 DEF UpQueued
    <3> QED BY <1>2, <3>1, <3>2
  <2> QED BY <2>2, <2>3
<1>9. x \in StuckInputs' => NoneLeaves'
  <2>1. SUFFICES ASSUME x \in StuckInputs', NEW i \in DOMAIN jobs' PROVE ~Leaves(jobs'[i])
    BY DEF NoneLeaves
  <2>2. NoneLeaves /\ do \notin {"open", "end"}
    BY <1>3, <1>4, <2>1
  <2>3. CASE i \in DOMAIN jobs  BY <1>2, <2>2, <2>3 DEF NoneLeaves
  <2>4. CASE i = Len(jobs) + 1  BY <1>2, <2>2, <2>4, JobFields DEF Leaves
  <2> QED BY <1>2, <2>3, <2>4
<1> QED BY <1>4, <1>7, <1>8, <1>9

LEMMA NextRecord ==
  ASSUME Typed, Paused, Released, [Next]_vars
  PROVE  (RecordIsOwed /\ InputQueued /\ UpIsUp)'
<1> USE HumanAssumption DEF leases, recorded, page, local,
     Typed, TypeOK, OpFits, Waits, Paused, QueueServed, AgentKinds,
     Cleaning, Released, RecordIsOwed, InputQueued, UpIsUp, StuckInputs
<1> DEFINE Goal == RecordIsOwed /\ InputQueued /\ UpIsUp
<1>1. ASSUME NEW call \in Calls, Start(call) PROVE Goal'  BY <1>1 DEF Start, EndControl, StuckInputs
<1>2. CASE CleanNext  BY <1>2 DEF CleanNext, Ask
<1>3. CASE CleanLast  BY <1>3 DEF CleanLast, Ask
<1>4. CASE AgentStarts  BY <1>4 DEF AgentStarts, Ask
<1>5. CASE AcquireStarts  BY <1>5 DEF AcquireStarts, Ask
<1>6. CASE Grant  BY <1>6 DEF Grant, Ask
<1>7. CASE InputStarts  BY <1>7 DEF InputStarts, Ask
<1>8. CASE Dispatch
  <2>1. op.do \in {"down", "up"} /\ Job(op.do, op.input) \in Jobs
    BY <1>8, CallFields, JobFields DEF Dispatch
  <2>2. jobs = <<>>  BY <1>8 DEF Dispatch
  <2>3. jobs' = <<Job(op.do, op.input)>>
    BY <1>8, <2>1, <2>2, Asked DEF Dispatch
  <2> QED BY <1>8, <2>3 DEF Dispatch, Ask, InControl
<1>9. CASE CleanAnswered  BY <1>9 DEF CleanAnswered, AfterClean
<1>10. CASE CleanEnds  BY <1>10 DEF CleanEnds
<1>11. CASE StatusDone  BY <1>11 DEF StatusDone, Return
<1>12. CASE AgentRefused  BY <1>12 DEF AgentRefused, Return
<1>13. CASE AgentAnswered  BY <1>13 DEF AgentAnswered, Return
<1>14. CASE AcquireEnds  BY <1>14 DEF AcquireEnds, Return
<1>15. CASE BeginAnswered  BY <1>15 DEF BeginAnswered, Return
<1>16. CASE InputRefused  BY <1>16 DEF InputRefused, Return
<1>17. CASE RecordInput  BY <1>17 DEF RecordInput, Return
<1>18. CASE InputFails  BY <1>18 DEF InputFails, Return
<1>19. CASE NothingToRelease  BY <1>19 DEF NothingToRelease, Return, InControl
<1>20. CASE Release  BY <1>20 DEF Release, EndControl, StuckInputs, InControl
<1>21. CASE CloseStarts  BY <1>21 DEF CloseStarts, EndControl, StuckInputs
<1>22. CASE CloseEnds  BY <1>22 DEF CloseEnds
<1>23. CASE TimesOut  BY <1>23 DEF TimesOut, AfterClean
<1>24. CASE Work
  <2>1. RecordIsOwed'  BY <1>24 DEF Work
  <2>2. Len(jobs) = 1 => jobs' = <<>>  BY <1>24, Served
  <2>3. pc = "input-wait" /\ answer = None => Head(jobs).do = op.do /\ Head(jobs).input = op.input /\ Len(jobs) = 1
    BY JobFields
  <2>4. pc = "input-wait" => answer = None  BY <1>24 DEF Work
  <2>5. InputQueued'
    BY <1>24, <2>3 DEF Work, Answers, Awaited
  <2>6. UpIsUp'
    BY <1>24, <2>3, <2>4 DEF Work, Answers, Awaited, Does
  <2> QED BY <2>1, <2>5, <2>6
<1>25. CASE HumanExpires
  <2>1. cleanup' # <<>>  BY <1>25 DEF HumanExpires
  <2> QED BY <1>25, <2>1 DEF HumanExpires
<1>26. CASE AgentExpires  BY <1>26 DEF AgentExpires
<1>27. CASE UNCHANGED vars  BY <1>27 DEF vars
<1> QED
  BY <1>1, <1>2, <1>3, <1>4, <1>5, <1>6, <1>7, <1>8, <1>9, <1>10, <1>11, <1>12, <1>13, <1>14, <1>15, <1>16, <1>17, <1>18, <1>19, <1>20, <1>21, <1>22, <1>23, <1>24, <1>25, <1>26, <1>27 DEF Next, Operation

LEMMA PressAsked ==
  ASSUME Typed, NEW do, NEW input, NEW label, Job(do, input) \in Jobs, Ask(do, input, label),
         do = "down" => label = "input-wait"
  PROVE  AwaitedPress'
<1>1. jobs \in Seq(Jobs) /\ jobs' = Append(jobs, Job(do, input)) /\ pc' = label
  BY DEF Typed, TypeOK, Ask
<1>2. jobs'[Len(jobs')] = Job(do, input)
  BY <1>1
<1> QED BY <1>1, <1>2, JobFields DEF AwaitedPress

LEMMA NextPress ==
  ASSUME Typed, Released, [Next]_vars
  PROVE  AwaitedPress'
<1> USE DEF Released, AwaitedPress, local
<1>1. ASSUME NEW call \in Calls, Start(call) PROVE AwaitedPress'
  BY <1>1 DEF Start, EndControl, Waits
<1>2. CASE CleanNext
  <2>1. PICK input \in todo : Ask("up", input, "clean-wait")
    BY <1>2 DEF CleanNext
  <2>2. Job("up", input) \in Jobs  BY JobFields DEF Typed, TypeOK
  <2> QED BY <2>1, <2>2, PressAsked
<1>3. CASE CleanLast
  <2>1. Ask("end", None, "end-wait") /\ Job("end", None) \in Jobs /\ "end" # "down"
    BY <1>3, JobFields DEF CleanLast, AgentKinds
  <2> QED BY <2>1, PressAsked
<1>4. CASE AgentStarts
  <2>1. Ask(op.kind, None, "agent-wait") /\ Job(op.kind, None) \in Jobs /\ op.kind # "down"
    BY <1>4, JobFields DEF AgentStarts, AgentKinds
  <2> QED BY <2>1, PressAsked
<1>5. CASE AcquireStarts
  <2>1. Ask("snapshot", None, "acquire-wait") /\ Job("snapshot", None) \in Jobs /\ "snapshot" # "down"
    BY <1>5, JobFields DEF AcquireStarts, AgentKinds
  <2> QED BY <2>1, PressAsked
<1>6. CASE Grant
  <2>1. Ask("begin", None, "begin-wait") /\ Job("begin", None) \in Jobs /\ "begin" # "down"
    BY <1>6, JobFields DEF Grant, AgentKinds
  <2> QED BY <2>1, PressAsked
<1>7. CASE InputStarts
  <2>1. Ask("snapshot", None, "check-wait") /\ Job("snapshot", None) \in Jobs /\ "snapshot" # "down"
    BY <1>7, JobFields DEF InputStarts, AgentKinds
  <2> QED BY <2>1, PressAsked
<1>8. CASE Dispatch
  <2>1. Job(op.do, op.input) \in Jobs
    BY <1>8, CallFields, JobFields DEF Dispatch, Typed, OpFits
  <2> QED BY <1>8, <2>1, PressAsked DEF Dispatch
<1>9. CASE CleanAnswered  BY <1>9 DEF CleanAnswered, AfterClean, Waits
<1>10. CASE CleanEnds  BY <1>10 DEF CleanEnds, Waits, Typed, OpFits, TypeOK
<1>11. CASE StatusDone  BY <1>11 DEF StatusDone, Return, Waits
<1>12. CASE AgentRefused  BY <1>12 DEF AgentRefused, Return, Waits
<1>13. CASE AgentAnswered  BY <1>13 DEF AgentAnswered, Return, Waits
<1>14. CASE AcquireEnds  BY <1>14 DEF AcquireEnds, Return, Waits
<1>15. CASE BeginAnswered  BY <1>15 DEF BeginAnswered, Return, Waits
<1>16. CASE InputRefused  BY <1>16 DEF InputRefused, Return, Waits
<1>17. CASE RecordInput  BY <1>17 DEF RecordInput, Return, Waits
<1>18. CASE InputFails  BY <1>18 DEF InputFails, Return, Waits
<1>19. CASE NothingToRelease  BY <1>19 DEF NothingToRelease, Return, Waits
<1>20. CASE Release  BY <1>20 DEF Release, EndControl, Waits
<1>21. CASE CloseStarts  BY <1>21 DEF CloseStarts, EndControl, Waits
<1>22. CASE CloseEnds  BY <1>22 DEF CloseEnds, Waits
<1>23. CASE TimesOut  BY <1>23 DEF TimesOut, AfterClean, Waits
<1>24. CASE HumanExpires  BY <1>24 DEF HumanExpires, Waits
<1>25. CASE AgentExpires  BY <1>25 DEF AgentExpires, Waits
<1>26. CASE Work
  <2>1. jobs \in Seq(Jobs) /\ jobs # <<>> /\ jobs' = Tail(jobs)  BY <1>26 DEF Typed, TypeOK, Work
  <2>2. jobs' # <<>> => jobs'[Len(jobs')] = jobs[Len(jobs)] /\ Len(jobs) # 1
    BY <2>1
  <2> QED BY <1>26, <2>1, <2>2 DEF Work, Answers, Awaited
<1>27. CASE UNCHANGED vars  BY <1>27 DEF vars
<1> QED
  BY <1>1, <1>2, <1>3, <1>4, <1>5, <1>6, <1>7, <1>8, <1>9, <1>10, <1>11, <1>12, <1>13, <1>14, <1>15, <1>16, <1>17, <1>18, <1>19, <1>20, <1>21, <1>22, <1>23, <1>24, <1>25, <1>26, <1>27 DEF Next, Operation

(* A job the worker executes.                                              *)
LEMMA TrackedWork ==
  ASSUME Typed, Paused, Released, Work
  PROVE  Tracked'
<1> USE HumanAssumption DEF leases, recorded, page, local
<1> DEFINE j == Head(jobs)
<1>1. /\ j \in Jobs /\ 1 \in DOMAIN jobs /\ j = jobs[1]
      /\ \A i \in DOMAIN jobs' : i + 1 \in DOMAIN jobs /\ jobs'[i] = jobs[i + 1]
      /\ \A i \in DOMAIN jobs : i = 1 \/ (i - 1 \in DOMAIN jobs' /\ jobs'[i - 1] = jobs[i])
      /\ Len(jobs) = 1 => jobs' = <<>>
  BY Served
<1>2. /\ DOMAIN jobs \subseteq Nat /\ DOMAIN jobs' \subseteq Nat
      /\ Len(jobs) = 1 => DOMAIN jobs' = {}
  <2>1. jobs \in Seq(Jobs) /\ jobs' \in Seq(Jobs)
    BY Served DEF Typed, TypeOK
  <2> QED BY <1>1, <2>1
<1>3. PICK a \in {"ok", "error"} :
        /\ Does(j) \/ UNCHANGED page
        /\ Answers(a) /\ Loses(j, a)
        /\ a = "ok" => Does(j)
  BY DEF Work
<1>4. /\ pc' = pc /\ op' = op /\ todo' = todo /\ StuckInputs' = StuckInputs
  BY DEF Work, StuckInputs
<1> HIDE DEF j
<1>5. SUFFICES ASSUME NEW x \in down' \ stray' PROVE takeover' /\ Covered(x)' /\ UpComesFirst(x)' /\ (x \in StuckInputs' => NoneLeaves')
  BY DEF Tracked
<1>6. CASE x \in down \ stray
  <2>1. takeover /\ Covered(x) /\ UpComesFirst(x) /\ (x \in StuckInputs => NoneLeaves)
    BY <1>6 DEF Released, Tracked
  <2>2. j.do \notin {"open", "end"}
    <3>1. ASSUME Leaves(j) PROVE FALSE
      <4>1. PICK k \in DOMAIN jobs : k < 1 /\ jobs[k] = Job("up", x)
        BY <1>1, <2>1, <3>1 DEF UpComesFirst
      <4>2. k \in Nat /\ k # 0
        <5>1. jobs \in Seq(Jobs)  BY DEF Typed, TypeOK
        <5> QED BY <5>1
      <4> QED BY <4>1, <4>2
    <3> QED BY <3>1 DEF Leaves
  <2>3. takeover' = TRUE
    <3>1. takeover \in BOOLEAN  BY DEF Typed, TypeOK
    <3>2. CASE UNCHANGED page  BY <2>1, <3>1, <3>2
    <3>3. CASE Does(j)  BY <2>1, <2>2, <3>1, <3>3 DEF Does
    <3> QED BY <1>3, <3>2, <3>3
  <2>4. NoneLeaves => NoneLeaves'
    BY <1>1 DEF NoneLeaves
  <2>5. CASE x \in StuckInputs
    <3>1. NoneLeaves'  BY <2>1, <2>4, <2>5
    <3>2. Covered(x)'  BY <1>4, <2>5 DEF Covered
    <3>3. UpComesFirst(x)'  BY <3>1 DEF NoneLeaves, UpComesFirst
    <3> QED BY <2>3, <3>1, <3>2, <3>3
  <2>6. CASE x \notin StuckInputs
    <3>1. ~(j.do = "up" /\ j.input = x)
      <4>1. ASSUME j.do = "up", j.input = x PROVE FALSE
        <5>1. stray' = stray \cup ({x} \ StuckInputs)
          BY <1>3, <1>5, <2>1, <4>1 DEF Loses
        <5> QED BY <1>5, <2>6, <5>1
      <4> QED BY <4>1
    <3>2. j # Job("up", x)  BY <3>1, JobFields
    <3>3. UpQueued(x) => UpQueued(x)'
      <4>1. ASSUME NEW k \in DOMAIN jobs, jobs[k] = Job("up", x) PROVE UpQueued(x)'
        <5>1. k # 1  BY <1>1, <3>2, <4>1
        <5> QED BY <1>1, <4>1, <5>1 DEF UpQueued
      <4> QED BY <4>1 DEF UpQueued
    <3>4. ~(pc = "input-wait" /\ answer = "ok")
      BY DEF Paused, QueueServed, Waits, Work
    <3>5. Covered(x)'
      <4>1. x \in todo \/ UpQueued(x)  BY <2>1, <2>6, <3>4 DEF Covered
      <4> QED BY <1>4, <3>3, <4>1 DEF Covered
    <3>6. UpComesFirst(x)'
      <4>1. SUFFICES ASSUME NEW i \in DOMAIN jobs', Leaves(jobs'[i])
                     PROVE  \E k \in DOMAIN jobs' : k < i /\ jobs'[k] = Job("up", x)
        BY DEF UpComesFirst
      <4>2. i \in Nat /\ i + 1 \in DOMAIN jobs /\ Leaves(jobs[i + 1])
        BY <1>1, <1>2, <4>1
      <4>3. PICK k \in DOMAIN jobs : k < i + 1 /\ jobs[k] = Job("up", x)
        BY <2>1, <4>2 DEF UpComesFirst
      <4>4. k # 1  BY <1>1, <3>2, <4>3
      <4>5. k - 1 \in DOMAIN jobs' /\ jobs'[k - 1] = Job("up", x)
        BY <1>1, <4>3, <4>4
      <4>6. k \in Nat /\ k - 1 < i  BY <1>2, <4>2, <4>3
      <4> QED BY <4>5, <4>6
    <3> QED BY <1>4, <2>3, <2>6, <3>5, <3>6
  <2> QED BY <2>5, <2>6
<1>7. CASE x \notin down
  <2>1. Does(j) /\ j.do = "down" /\ j.input = x /\ takeover'
    BY <1>3, <1>5, <1>7 DEF Does
  <2>2. a = "ok" /\ Awaited
    <3>1. down' # down  BY <1>5, <1>7
    <3>2. ASSUME ~(a = "ok" /\ Awaited) PROVE FALSE
      <4>1. stray' = stray \cup {x}  BY <1>3, <2>1, <3>1, <3>2 DEF Loses
      <4> QED BY <1>5, <4>1
    <3> QED BY <3>2
  <2>3. Len(jobs) = 1 /\ jobs' = <<>> /\ DOMAIN jobs' = {} /\ answer' = "ok"
    BY <1>1, <1>2, <1>3, <2>2 DEF Awaited, Answers
  <2>4. pc = "input-wait" /\ op.do = "down" /\ op.input = x
    <3>1. pc = "input-wait"
      BY <1>1, <2>1, <2>2, <2>3 DEF Released, AwaitedPress, Awaited, Work
    <3>2. jobs = <<Job(op.do, op.input)>>
      BY <2>2, <3>1 DEF Released, InputQueued, Awaited
    <3>3. j = Job(op.do, op.input)  BY <1>1, <3>2
    <3> QED BY <2>1, <3>1, <3>3, JobFields
  <2>5. Covered(x)'  BY <1>4, <2>3, <2>4 DEF Covered
  <2>6. UpComesFirst(x)' /\ NoneLeaves'  BY <2>3 DEF UpComesFirst, NoneLeaves
  <2> QED BY <2>1, <2>5, <2>6
<1>8. CASE x \in stray
  BY <1>3, <1>5, <1>8 DEF Loses
<1> QED BY <1>6, <1>7, <1>8

LEMMA NextTracked ==
  ASSUME Typed, Paused, Released, [Next]_vars
  PROVE  Tracked'
<1> USE HumanAssumption DEF leases, recorded, page, local, Released
<1>1. pc \notin {"clean", "clean-wait"} => todo = {}
  BY DEF RecordIsOwed
<1>2. pc = "input-wait" /\ answer # None => jobs = <<>>
  BY DEF Paused, QueueServed, Waits
<1>3. ASSUME NEW call \in Calls, Start(call) PROVE Tracked'
  <2>1. \A x : Covered(x) => Covered(x)'
    BY <1>1, <1>3 DEF Start, EndControl, Covered, UpQueued, StuckInputs
  <2>2. StuckInputs' \subseteq StuckInputs
    BY <1>3 DEF Start, EndControl, StuckInputs
  <2> QED BY <1>3, <2>1, <2>2, TrackedOn DEF Start
<1>4. CASE AcquireStarts
  <2>1. Ask("snapshot", None, "acquire-wait")  BY <1>4 DEF AcquireStarts
  <2>2. UNCHANGED <<page, recorded, todo, stray>> /\ pc # "input-wait"  BY <1>4 DEF AcquireStarts
  <2> QED BY <2>1, <2>2, TrackedAsk, JobFields DEF StuckInputs
<1>5. CASE Grant
  <2>1. Ask("begin", None, "begin-wait")  BY <1>5 DEF Grant
  <2>2. UNCHANGED <<page, recorded, todo, stray>> /\ pc # "input-wait"  BY <1>5 DEF Grant
  <2> QED BY <2>1, <2>2, TrackedAsk, JobFields DEF StuckInputs
<1>6. CASE InputStarts
  <2>1. Ask("snapshot", None, "check-wait")  BY <1>6 DEF InputStarts
  <2>2. UNCHANGED <<page, recorded, todo, stray>> /\ pc # "input-wait"  BY <1>6 DEF InputStarts
  <2> QED BY <2>1, <2>2, TrackedAsk, JobFields DEF StuckInputs
<1>7. CASE Dispatch
  <2>1. op.do \in {"down", "up"} /\ Job(op.do, op.input) \in Jobs
    BY <1>7, CallFields, JobFields DEF Dispatch, Typed, OpFits
  <2> QED BY <1>7, <2>1, TrackedAsk DEF Dispatch, Ask, StuckInputs
<1>8. CASE CleanNext
  <2>1. PICK input \in todo : Ask("up", input, "clean-wait") /\ todo' = todo \ {input}
    BY <1>8 DEF CleanNext
  <2>2. UNCHANGED <<page, recorded, stray>> /\ pc # "input-wait"  BY <1>8 DEF CleanNext
  <2>3. Job("up", input) \in Jobs  BY JobFields DEF Typed, TypeOK
  <2> QED BY <2>1, <2>2, <2>3, TrackedAsk DEF StuckInputs
<1>9. CASE CleanLast
  <2>1. Ask("end", None, "end-wait")  BY <1>9 DEF CleanLast
  <2>2. UNCHANGED <<page, recorded, todo, stray>> /\ pc # "input-wait" /\ todo = {}
    BY <1>9 DEF CleanLast
  <2>3. StuckInputs = {} /\ StuckInputs' = {}
    BY <1>9, <2>2 DEF CleanLast, RecordIsOwed, Cleaning, StuckInputs
  <2>4. \A x \in down \ stray' : UpQueued(x)
    BY <2>2, <2>3 DEF Tracked, Covered
  <2> QED BY <2>1, <2>2, <2>3, <2>4, TrackedAsk, JobFields
<1>10. CASE AgentStarts
  <2>1. Ask(op.kind, None, "agent-wait") /\ Job(op.kind, None) \in Jobs
    BY <1>10, JobFields DEF AgentStarts, AgentKinds
  <2>2. UNCHANGED <<page, recorded, todo>> /\ pc # "input-wait" /\ todo = {}
    BY <1>1, <1>10 DEF AgentStarts
  <2>3. stray' = stray \cup StuckInputs /\ StuckInputs' = StuckInputs
    BY <1>10, <2>2 DEF AgentStarts, StuckInputs
  <2>4. \A x \in down \ stray' : UpQueued(x) /\ x \notin StuckInputs'
    BY <2>2, <2>3 DEF Tracked, Covered
  <2> QED BY <2>1, <2>2, <2>3, <2>4, TrackedAsk
<1>11. CASE RecordInput
  <2>1. ASSUME NEW x \in down \ stray' PROVE x \notin stray /\ (Covered(x) => Covered(x)')
    <3>1. x \notin stray  BY <1>11, <2>1 DEF RecordInput
    <3>2. op.do = "up" => op.input # x
      BY <1>11, <2>1 DEF RecordInput, UpIsUp
    <3>3. op.do \in {"down", "up"} /\ op.input \in Inputs
      BY <1>11, CallFields DEF RecordInput, Typed, OpFits
    <3>4. x \in StuckInputs => x \in StuckInputs'
      <4>1. CASE x \in keys
        BY <1>11, <3>2, <3>3, <4>1 DEF RecordInput, StuckInputs
      <4>2. CASE x = pointer /\ x # None
        BY <1>11, <2>1, <3>2, <3>3, <4>2 DEF RecordInput, StuckInputs, Forgotten
      <4> QED BY <4>1, <4>2 DEF StuckInputs
    <3>5. op.do = "down" /\ op.input = x => x \in StuckInputs'
      BY <1>11, <3>3 DEF RecordInput, StuckInputs, Inputs
    <3>6. UpQueued(x) <=> UpQueued(x)'  BY <1>11 DEF RecordInput, Return, UpQueued
    <3> QED BY <1>11, <3>1, <3>4, <3>5, <3>6 DEF Covered, RecordInput
  <2> QED BY <1>2, <1>11, <2>1, TrackedOn DEF RecordInput, Return
<1>12. CASE Release
  <2>1. \A x : Covered(x) => Covered(x)'
    BY <1>1, <1>12 DEF Release, EndControl, StuckInputs, InControl, Covered, UpQueued
  <2>2. StuckInputs' \subseteq StuckInputs
    BY <1>12 DEF Release, EndControl, StuckInputs
  <2> QED BY <1>12, <2>1, <2>2, TrackedOn DEF Release
<1>13. CASE CloseStarts
  <2>1. \A x : Covered(x) => Covered(x)'
    BY <1>1, <1>13 DEF CloseStarts, EndControl, StuckInputs, Covered, UpQueued
  <2>2. StuckInputs' \subseteq StuckInputs
    BY <1>13 DEF CloseStarts, EndControl, StuckInputs
  <2> QED BY <1>13, <2>1, <2>2, TrackedOn DEF CloseStarts
<1>14. CASE CleanAnswered
  <2>1. UNCHANGED <<jobs, page, recorded, todo, stray>>  BY <1>14 DEF CleanAnswered
  <2>2. pc = "input-wait" /\ answer = "ok" => UNCHANGED <<pc, op, answer>>  BY <1>14 DEF CleanAnswered
  <2> QED BY <2>1, <2>2, TrackedOn DEF Covered, UpQueued, StuckInputs
<1>15. CASE CleanEnds
  <2>1. UNCHANGED <<jobs, page, recorded, todo, stray>>  BY <1>15 DEF CleanEnds
  <2>2. pc = "input-wait" /\ answer = "ok" => UNCHANGED <<pc, op, answer>>  BY <1>15 DEF CleanEnds
  <2> QED BY <2>1, <2>2, TrackedOn DEF Covered, UpQueued, StuckInputs
<1>16. CASE StatusDone
  <2>1. UNCHANGED <<jobs, page, recorded, todo, stray>>  BY <1>16 DEF StatusDone, Return
  <2>2. pc = "input-wait" /\ answer = "ok" => UNCHANGED <<pc, op, answer>>  BY <1>16 DEF StatusDone
  <2> QED BY <2>1, <2>2, TrackedOn DEF Covered, UpQueued, StuckInputs
<1>17. CASE AgentRefused
  <2>1. UNCHANGED <<jobs, page, recorded, todo, stray>>  BY <1>17 DEF AgentRefused, Return
  <2>2. pc = "input-wait" /\ answer = "ok" => UNCHANGED <<pc, op, answer>>  BY <1>17 DEF AgentRefused
  <2> QED BY <2>1, <2>2, TrackedOn DEF Covered, UpQueued, StuckInputs
<1>18. CASE AgentAnswered
  <2>1. UNCHANGED <<jobs, page, recorded, todo, stray>>  BY <1>18 DEF AgentAnswered, Return
  <2>2. pc = "input-wait" /\ answer = "ok" => UNCHANGED <<pc, op, answer>>  BY <1>18 DEF AgentAnswered
  <2> QED BY <2>1, <2>2, TrackedOn DEF Covered, UpQueued, StuckInputs
<1>19. CASE AcquireEnds
  <2>1. UNCHANGED <<jobs, page, recorded, todo, stray>>  BY <1>19 DEF AcquireEnds, Return
  <2>2. pc = "input-wait" /\ answer = "ok" => UNCHANGED <<pc, op, answer>>  BY <1>19 DEF AcquireEnds
  <2> QED BY <2>1, <2>2, TrackedOn DEF Covered, UpQueued, StuckInputs
<1>20. CASE BeginAnswered
  <2>1. UNCHANGED <<jobs, page, recorded, todo, stray>>  BY <1>20 DEF BeginAnswered, Return
  <2>2. pc = "input-wait" /\ answer = "ok" => UNCHANGED <<pc, op, answer>>  BY <1>20 DEF BeginAnswered
  <2> QED BY <2>1, <2>2, TrackedOn DEF Covered, UpQueued, StuckInputs
<1>21. CASE InputRefused
  <2>1. UNCHANGED <<jobs, page, recorded, todo, stray>>  BY <1>21 DEF InputRefused, Return
  <2>2. pc = "input-wait" /\ answer = "ok" => UNCHANGED <<pc, op, answer>>  BY <1>21 DEF InputRefused
  <2> QED BY <2>1, <2>2, TrackedOn DEF Covered, UpQueued, StuckInputs
<1>22. CASE InputFails
  <2>1. UNCHANGED <<jobs, page, recorded, todo, stray>>  BY <1>22 DEF InputFails, Return
  <2>2. pc = "input-wait" /\ answer = "ok" => UNCHANGED <<pc, op, answer>>  BY <1>22 DEF InputFails
  <2> QED BY <2>1, <2>2, TrackedOn DEF Covered, UpQueued, StuckInputs
<1>23. CASE NothingToRelease
  <2>1. UNCHANGED <<jobs, page, recorded, todo, stray>>  BY <1>23 DEF NothingToRelease, Return
  <2>2. pc = "input-wait" /\ answer = "ok" => UNCHANGED <<pc, op, answer>>  BY <1>23 DEF NothingToRelease
  <2> QED BY <2>1, <2>2, TrackedOn DEF Covered, UpQueued, StuckInputs
<1>24. CASE CloseEnds
  <2>1. UNCHANGED <<jobs, page, recorded, todo, stray>>  BY <1>24 DEF CloseEnds
  <2>2. pc = "input-wait" /\ answer = "ok" => UNCHANGED <<pc, op, answer>>  BY <1>24 DEF CloseEnds
  <2> QED BY <2>1, <2>2, TrackedOn DEF Covered, UpQueued, StuckInputs
<1>25. CASE TimesOut
  <2>1. UNCHANGED <<jobs, page, recorded, todo, stray>>  BY <1>25 DEF TimesOut
  <2>2. pc = "input-wait" /\ answer = "ok" => UNCHANGED <<pc, op, answer>>  BY <1>25 DEF TimesOut
  <2> QED BY <2>1, <2>2, TrackedOn DEF Covered, UpQueued, StuckInputs
<1>26. CASE HumanExpires
  <2>1. UNCHANGED <<jobs, page, recorded, todo, stray>>  BY <1>26 DEF HumanExpires
  <2>2. pc = "input-wait" /\ answer = "ok" => UNCHANGED <<pc, op, answer>>  BY <1>26 DEF HumanExpires
  <2> QED BY <2>1, <2>2, TrackedOn DEF Covered, UpQueued, StuckInputs
<1>27. CASE AgentExpires
  <2>1. UNCHANGED <<jobs, page, recorded, todo, stray>>  BY <1>27 DEF AgentExpires
  <2>2. pc = "input-wait" /\ answer = "ok" => UNCHANGED <<pc, op, answer>>  BY <1>27 DEF AgentExpires
  <2> QED BY <2>1, <2>2, TrackedOn DEF Covered, UpQueued, StuckInputs
<1>28. CASE Work  BY <1>28, TrackedWork
<1>29. CASE UNCHANGED vars
  BY <1>29, TrackedOn DEF vars, Covered, UpQueued, StuckInputs
<1> QED
  BY <1>3, <1>4, <1>5, <1>6, <1>7, <1>8, <1>9, <1>10, <1>11, <1>12, <1>13, <1>14, <1>15, <1>16, <1>17, <1>18, <1>19, <1>20, <1>21, <1>22, <1>23, <1>24, <1>25, <1>26, <1>27, <1>28, <1>29 DEF Next, Operation

LEMMA NextReleased ==
  ASSUME Typed, Paused, Released, [Next]_vars
  PROVE  Released'
BY NextRecord, NextPress, NextTracked DEF Released

(* InputsUp: once nobody is in control and nothing is left to clean up, no  *)
(* button or key is down but those the runtime lost track of.              *)
THEOREM InputsUp == Spec => []InputsReleased
<1>1. Init => Typed /\ Paused /\ Released  BY InitTyped, InitPaused, InitReleased
<1>2. Typed /\ Paused /\ Released /\ [Next]_vars => (Typed /\ Paused /\ Released)'
  BY NextTyped, NextPaused, NextReleased
<1>3. Released => InputsReleased
  <2>1. ASSUME Released, Quiet, NEW x \in down \ stray PROVE FALSE
    <3>1. StuckInputs = {} /\ todo = {} /\ ~UpQueued(x)
      BY <2>1 DEF Released, RecordIsOwed, Quiet, UpQueued
    <3>2. Covered(x)  BY <2>1 DEF Released, Tracked
    <3> QED BY <2>1, <3>1, <3>2 DEF Covered, Quiet
  <2> QED BY <2>1 DEF InputsReleased
<1> QED BY <1>1, <1>2, <1>3, PTL DEF Spec
=============================================================================
