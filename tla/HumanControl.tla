----------------------------- MODULE HumanControl -----------------------------
(***************************************************************************)
(* Human control of one Session: the human lease (human_control.py), the   *)
(* Agent lease (agent_lease.py), the operations of runtime.py that grant,  *)
(* use and end human control, and the takeover mode of the worker.         *)
(*                                                                         *)
(* Every operation holds the web lock from its first step to its last, so  *)
(* one runs at a time.  What interleaves with it is the clock, which ends  *)
(* leases at any moment, and the worker, which executes jobs in order, also *)
(* those whose caller gave up.  The manager notices an expiry at its next  *)
(* use; nothing looks at a lease without that, so an expiry is one step.   *)
(***************************************************************************)
EXTENDS Naturals, Sequences

CONSTANTS
  Agents,   \* Agent identities
  Conns,    \* Monitor connections with the takeover permission
  Buttons,  \* mouse buttons
  Keys,     \* keyboard keys
  MaxOps,   \* bound on the number of operations
  None

Inputs == Buttons \cup Keys

ASSUME HumanAssumption ==
  /\ None \notin Agents \cup Conns \cup Inputs \cup {"ok", "error"}
  /\ Buttons \cap Keys = {}
  /\ MaxOps \in Nat

VARIABLES
  agentLease, \* the Agent that holds the Agent lease
  human,      \* the active human lease
  cleanup,    \* _expired_cleanup: the Agents of the expired leases
  pointer,    \* _human_pointer_down
  keys,       \* _human_pressed_keys
  closed,     \* _closed
  takeover,   \* the worker's _auth_surface_active
  down,       \* the inputs the page sees as pressed
  jobs,       \* jobs the worker has not finished
  pc, op, held, todo, after, restore, answer, \* the running operation
  ops,        \* operations so far
  late,       \* history: was a clean-up owed when the human lease was granted?
  stray       \* history: inputs the runtime has lost track of

leases == <<agentLease, human, cleanup>>
recorded == <<pointer, keys>>
page == <<takeover, down>>
local == <<op, held, todo, after, restore>>
vars == <<leases, recorded, closed, page, jobs, pc, local, answer, ops, late, stray>>

AgentKinds == {"act", "open"}
HumanKinds == {"acquire", "input", "release"}
Calls ==
  [kind : AgentKinds, who : Agents, do : {None}, input : {None}] \cup
  [kind : {"acquire", "release"}, who : Conns, do : {None}, input : {None}] \cup
  [kind : {"input"}, who : Conns, do : {"down", "up"}, input : Inputs] \cup
  [kind : {"status", "close"}, who : {None}, do : {None}, input : {None}]
Job(do, input) == [do |-> do, input |-> input]
Jobs == [do : {"act", "open", "snapshot", "begin", "end"}, input : {None}]
        \cup [do : {"down", "up"}, input : Inputs]
Waits == {"clean-wait", "end-wait", "agent-wait", "acquire-wait", "begin-wait", "check-wait", "input-wait"}

TypeOK ==
  /\ agentLease \in Agents \cup {None}
  /\ human \in [conn : Conns, agent : Agents \cup {None}] \cup {None}
  /\ cleanup \in Seq(Agents \cup {None})
  /\ pointer \in Buttons \cup {None}
  /\ keys \subseteq Keys
  /\ closed \in BOOLEAN
  /\ takeover \in BOOLEAN
  /\ down \subseteq Inputs
  /\ jobs \in Seq(Jobs)
  /\ pc \in Waits \cup {"idle", "main", "clean", "restore", "closing"}
  /\ op \in Calls \cup {None}
  /\ held \in Agents \cup {None}
  /\ todo \subseteq Inputs
  /\ after \in {"idle", "main", "closing"}
  /\ restore \in Agents \cup {None}
  /\ answer \in {"ok", "error", None}
  /\ ops \in 0..MaxOps
  /\ late \in BOOLEAN
  /\ stray \subseteq Inputs

Init ==
  /\ agentLease = None /\ human = None /\ cleanup = <<>>
  /\ pointer = None /\ keys = {}
  /\ closed = FALSE
  /\ takeover = FALSE /\ down = {}
  /\ jobs = <<>>
  /\ pc = "idle" /\ op = None /\ held = None
  /\ todo = {} /\ after = "idle" /\ restore = None
  /\ answer = None
  /\ ops = 0
  /\ late = FALSE
  /\ stray = {}

-----------------------------------------------------------------------------
(* A job is put in the queue and waited for.                               *)
Ask(do, input, label) ==
  /\ jobs' = Append(jobs, Job(do, input))
  /\ answer' = None
  /\ pc' = label

(* require_active, release: the lease is active and bound to the caller.   *)
InControl(conn) == human # None /\ human.conn = conn

(* The end of an operation, by a return or an exception.                   *)
Return ==
  /\ pc' = "idle"
  /\ UNCHANGED <<jobs, answer>>

(* The inputs to let go before takeover mode ends: one mouse button, every  *)
(* key.                                                                    *)
MUT_StuckInputs == {pointer} \cup keys

StuckInputs == ({pointer} \ {None}) \cup keys

EndControl(agent, then) ==
  /\ todo' = StuckInputs
  /\ restore' = agent
  /\ after' = then
  /\ pointer' = None
  /\ keys' = {}
  /\ pc' = "clean"

-----------------------------------------------------------------------------
(* Every operation reconciles first: one expired lease is cleaned up.      *)

Start(call) ==
  /\ pc = "idle"
  /\ ~closed
  /\ ops < MaxOps
  /\ op' = call
  /\ ops' = ops + 1
  /\ IF cleanup = <<>>
       THEN /\ pc' = "main"
            /\ UNCHANGED <<cleanup, recorded, todo, after, restore>>
       ELSE /\ cleanup' = Tail(cleanup)
            /\ EndControl(Head(cleanup), "main")
  /\ UNCHANGED <<agentLease, human, closed, page, jobs, held, answer, late, stray>>

CleanNext ==
  /\ pc = "clean"
  /\ \E input \in todo :
       /\ Ask("up", input, "clean-wait")
       /\ todo' = todo \ {input}
  /\ UNCHANGED <<leases, recorded, closed, page, op, held, after, restore, ops, late, stray>>

(* end_human_control comes last.                                           *)
CleanLast ==
  /\ pc = "clean"
  /\ todo = {}
  /\ Ask("end", None, "end-wait")
  /\ UNCHANGED <<leases, recorded, closed, page, local, ops, late, stray>>

(* Whether the job was done does not matter: the exception is swallowed,   *)
(* or raised after the lease was restored.                                 *)
AfterClean == IF pc = "clean-wait" THEN "clean" ELSE "restore"

CleanAnswered ==
  /\ pc \in {"clean-wait", "end-wait"}
  /\ answer # None
  /\ pc' = AfterClean
  /\ UNCHANGED <<leases, recorded, closed, page, jobs, local, answer, ops, late, stray>>

(* The Agent that was interrupted gets its lease back, unless another one  *)
(* took it: then the operation that reconciled fails, close() after it set *)
(* _closed.                                                                *)
CleanEnds ==
  /\ pc = "restore"
  /\ LET busy == restore # None /\ agentLease \notin {None, restore}
     IN  /\ pc' = IF ~busy THEN after ELSE IF op.kind = "close" THEN "closing" ELSE "idle"
         /\ agentLease' = IF restore = None \/ busy THEN agentLease ELSE restore
  /\ UNCHANGED <<human, cleanup, recorded, closed, page, jobs, local, answer, ops, late, stray>>

StatusDone ==
  /\ pc = "main"
  /\ op.kind = "status"
  /\ Return
  /\ UNCHANGED <<leases, recorded, closed, page, local, ops, late, stray>>

-----------------------------------------------------------------------------
(* Agent operations: refused while a human is in control.                  *)

AgentRefused ==
  /\ pc = "main"
  /\ op.kind \in AgentKinds
  /\ human # None \/ agentLease \notin {None, op.who}
  /\ Return
  /\ UNCHANGED <<leases, recorded, closed, page, local, ops, late, stray>>

MUT_AgentStarts ==
  /\ pc = "main"
  /\ op.kind \in AgentKinds
  /\ agentLease \in {None, op.who}
  /\ agentLease' = op.who
  /\ Ask(op.kind, None, "agent-wait")
  /\ stray' = stray \cup StuckInputs
  /\ UNCHANGED <<human, cleanup, recorded, closed, page, local, ops, late>>

AgentStarts ==
  /\ pc = "main"
  /\ op.kind \in AgentKinds
  /\ human = None
  /\ agentLease \in {None, op.who}
  /\ agentLease' = op.who
  /\ Ask(op.kind, None, "agent-wait")
  /\ stray' = stray \cup StuckInputs
  /\ UNCHANGED <<human, cleanup, recorded, closed, page, local, ops, late>>

AgentAnswered ==
  /\ pc = "agent-wait"
  /\ answer # None
  /\ Return
  /\ UNCHANGED <<leases, recorded, closed, page, local, ops, late, stray>>

-----------------------------------------------------------------------------
(* acquire_human_control.                                                  *)

MUT_AcquireStarts ==
  /\ pc = "main"
  /\ op.kind = "acquire"
  /\ Ask("snapshot", None, "acquire-wait")
  /\ UNCHANGED <<leases, recorded, closed, page, local, ops, late, stray>>

AcquireStarts ==
  /\ pc = "main"
  /\ op.kind = "acquire"
  /\ held' = agentLease
  /\ Ask("snapshot", None, "acquire-wait")
  /\ UNCHANGED <<leases, recorded, closed, page, op, todo, after, restore, ops, late, stray>>

(* The snapshot failed, another connection has the lease, or this one has. *)
AcquireEnds ==
  /\ pc = "acquire-wait"
  /\ answer = "error" \/ (answer = "ok" /\ human # None)
  /\ Return
  /\ UNCHANGED <<leases, recorded, closed, page, local, ops, late, stray>>

MUT_Grant ==
  /\ pc = "acquire-wait"
  /\ answer = "ok"
  /\ human = None
  /\ human' = [conn |-> op.who, agent |-> held]
  /\ late' = (cleanup # <<>>)
  /\ Return
  /\ UNCHANGED <<agentLease, cleanup, recorded, closed, page, local, ops, stray>>

Grant ==
  /\ pc = "acquire-wait"
  /\ answer = "ok"
  /\ human = None
  /\ human' = [conn |-> op.who, agent |-> held]
  /\ late' = (cleanup # <<>>)
  /\ Ask("begin", None, "begin-wait")
  /\ UNCHANGED <<agentLease, cleanup, recorded, closed, page, local, ops, stray>>

BeginAnswered ==
  /\ pc = "begin-wait"
  /\ answer # None
  /\ human' = IF answer = "ok" THEN human ELSE None
  /\ Return
  /\ UNCHANGED <<agentLease, cleanup, recorded, closed, page, local, ops, late, stray>>

-----------------------------------------------------------------------------
(* send_human_input.                                                       *)

InputStarts ==
  /\ pc = "main"
  /\ op.kind = "input"
  /\ Ask("snapshot", None, "check-wait")
  /\ UNCHANGED <<leases, recorded, closed, page, local, ops, late, stray>>

(* Also when the page is on another tab than the lease.                    *)
InputRefused ==
  /\ pc = "check-wait"
  /\ answer # None
  /\ Return
  /\ UNCHANGED <<leases, recorded, closed, page, local, ops, late, stray>>

Dispatch ==
  /\ pc = "check-wait"
  /\ answer = "ok"
  /\ InControl(op.who)
  /\ Ask(op.do, op.input, "input-wait")
  /\ UNCHANGED <<leases, recorded, closed, page, local, ops, late, stray>>

(* _record_human_input_state: one button is remembered, and a button that  *)
(* goes up clears it, whichever it is.                                     *)
Forgotten == IF op.input \in Buttons THEN {pointer} \ {None, op.input} ELSE {}

MUT_RecordInput ==
  /\ pc = "input-wait"
  /\ answer = "ok"
  /\ pointer' = IF op.input \notin Buttons THEN pointer
                ELSE IF op.do = "down" THEN op.input ELSE None
  /\ UNCHANGED keys
  /\ stray' = stray \cup Forgotten
  /\ Return
  /\ UNCHANGED <<leases, closed, page, local, ops, late>>

RecordInput ==
  /\ pc = "input-wait"
  /\ answer = "ok"
  /\ pointer' = IF op.input \notin Buttons THEN pointer
                ELSE IF op.do = "down" THEN op.input ELSE None
  /\ keys' = IF op.do = "down" THEN keys \cup ({op.input} \cap Keys) ELSE keys \ {op.input}
  /\ stray' = stray \cup Forgotten
  /\ Return
  /\ UNCHANGED <<leases, closed, page, local, ops, late>>

InputFails ==
  /\ pc = "input-wait"
  /\ answer = "error"
  /\ Return
  /\ UNCHANGED <<leases, recorded, closed, page, local, ops, late, stray>>

-----------------------------------------------------------------------------
(* release_human_control, and release_human_control_connection for a       *)
(* Monitor that is gone.                                                   *)

NothingToRelease ==
  /\ pc = "main"
  /\ op.kind = "release"
  /\ ~InControl(op.who)
  /\ Return
  /\ UNCHANGED <<leases, recorded, closed, page, local, ops, late, stray>>

Release ==
  /\ pc = "main"
  /\ op.kind = "release"
  /\ InControl(op.who)
  /\ human' = None
  /\ EndControl(human.agent, "idle")
  /\ UNCHANGED <<agentLease, cleanup, closed, page, jobs, op, held, answer, ops, late, stray>>

(* close(): human control ends before the worker does; the Agent's lease   *)
(* is not restored.                                                        *)
CloseStarts ==
  /\ pc = "main"
  /\ op.kind = "close"
  /\ IF human = None
       THEN /\ pc' = "closing"
            /\ UNCHANGED <<recorded, todo, after, restore>>
       ELSE EndControl(None, "closing")
  /\ UNCHANGED <<leases, closed, page, jobs, op, held, answer, ops, late, stray>>

CloseEnds ==
  /\ pc = "closing"
  /\ human' = None
  /\ closed' = TRUE
  /\ pc' = "idle"
  /\ UNCHANGED <<agentLease, cleanup, recorded, page, jobs, local, answer, ops, late, stray>>

-----------------------------------------------------------------------------
(* The caller of a job gives up after sixty seconds; the job stays.        *)
TimesOut ==
  /\ pc \in Waits
  /\ answer = None
  /\ pc' = IF pc \in {"clean-wait", "end-wait"} THEN AfterClean ELSE "idle"
  /\ human' = IF pc = "begin-wait" THEN None ELSE human
  /\ UNCHANGED <<agentLease, cleanup, recorded, closed, page, jobs, local, answer, ops, late, stray>>

(* What a job does when it succeeds.  An action that meets a protected     *)
(* field asks for takeover by itself.                                      *)
Does(job) ==
  \/ job.do = "act" /\ ~takeover /\ takeover' \in BOOLEAN /\ UNCHANGED down
  \/ job.do \in {"open", "end"} /\ takeover' = FALSE /\ UNCHANGED down
  \/ job.do = "snapshot" /\ UNCHANGED page
  \/ job.do = "begin" /\ takeover' = TRUE /\ UNCHANGED down
  \/ job.do = "down" /\ takeover /\ down' = down \cup {job.input} /\ UNCHANGED takeover
  \/ job.do = "up" /\ takeover /\ down' = down \ {job.input} /\ UNCHANGED takeover

(* The last job in the queue is the running operation's, if it waits.      *)
Awaited == Len(jobs) = 1 /\ pc \in Waits /\ answer = None

Answers(a) == answer' = IF Awaited THEN a ELSE answer

(* A press that takes effect although nobody learns it, and a release the  *)
(* browser did not perform; a later release makes up for both.             *)
Loses(job, a) ==
  stray' = CASE job.do = "down" /\ down' # down /\ ~(a = "ok" /\ Awaited) -> stray \cup {job.input}
             [] job.do = "up" /\ job.input \notin down' -> stray \ {job.input}
             [] job.do = "up" /\ takeover /\ job.input \in down' -> stray \cup ({job.input} \ StuckInputs)
             [] OTHER -> stray

(* A job may fail before or after its effect: the browser's answer may be  *)
(* late, and an event may not be published.  Only end_human_control leaves *)
(* takeover mode in any case.                                              *)
Work ==
  /\ jobs # <<>>
  /\ jobs' = Tail(jobs)
  /\ \/ Does(Head(jobs)) /\ Answers("ok") /\ Loses(Head(jobs), "ok")
     \/ /\ Does(Head(jobs)) \/ (Head(jobs).do # "end" /\ UNCHANGED page)
        /\ Answers("error")
        /\ Loses(Head(jobs), "error")
  /\ UNCHANGED <<leases, recorded, closed, pc, local, ops, late>>

HumanExpires ==
  /\ human # None
  /\ human' = None
  /\ cleanup' = Append(cleanup, human.agent)
  /\ UNCHANGED <<agentLease, recorded, closed, page, jobs, pc, local, answer, ops, late, stray>>

AgentExpires ==
  /\ agentLease # None
  /\ agentLease' = None
  /\ UNCHANGED <<human, cleanup, recorded, closed, page, jobs, pc, local, answer, ops, late, stray>>

-----------------------------------------------------------------------------
Operation ==
  \/ CleanNext \/ CleanLast \/ CleanAnswered \/ CleanEnds \/ StatusDone
  \/ AgentRefused \/ AgentStarts \/ AgentAnswered
  \/ AcquireStarts \/ AcquireEnds \/ Grant \/ BeginAnswered
  \/ InputStarts \/ InputRefused \/ Dispatch \/ RecordInput \/ InputFails
  \/ NothingToRelease \/ Release \/ CloseStarts \/ CloseEnds
  \/ TimesOut

Next ==
  \/ \E call \in Calls : Start(call)
  \/ Operation
  \/ Work
  \/ HumanExpires
  \/ AgentExpires

Spec == Init /\ [][Next]_vars

-----------------------------------------------------------------------------
(* While a human is in control no Agent action is executed: none is in the *)
(* worker's queue, not even one whose caller gave up long ago.             *)
AgentIsPaused ==
  human # None => \A i \in DOMAIN jobs : jobs[i].do \notin AgentKinds

(* Whoever was told that he is in control finds the page in takeover mode: *)
(* an earlier lease's cleanup never ends the control of a later one, unless *)
(* it was owed already when the later lease was granted.                   *)
HumanHasControl == human # None /\ pc = "idle" /\ ~late => takeover

(* The human lease does not move the Agent lease: no other Agent gets the  *)
(* Session behind the back of the one that was interrupted, with the same  *)
(* exception.                                                              *)
AgentLeaseStays == human # None /\ ~late => agentLease \in {None, human.agent}

(* Nobody in control, nothing left to clean up or to do.                   *)
Quiet == pc = "idle" /\ human = None /\ cleanup = <<>> /\ jobs = <<>>

(* When human control has ended, whichever way, the page is left with no   *)
(* button or key pressed but those the runtime lost track of: one whose    *)
(* press or release failed in the browser or was given up, the first of    *)
(* two buttons, and what was pressed when a lease expired and an Agent's   *)
(* operation began before anybody cleaned up.                              *)
InputsReleased == Quiet => down \subseteq stray
=============================================================================
