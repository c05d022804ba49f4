---------------------------- MODULE SessionRuntime ----------------------------
(***************************************************************************)
(* One Browser Session from the inside (browser/runtime.py): the threads   *)
(* that call BrowserSessionRuntime, its _web_operation_lock, the job queue *)
(* and the SessionWorker threads behind it, the browser of each worker and *)
(* the lifecycle column of the Session row.                                *)
(*                                                                         *)
(* open_web, act_web, switch_tab and close hold the lock, observe_web,     *)
(* tabs, status and capture_preview do not, and the last two only ask a    *)
(* worker that exists; "open", "act", "close", "observe" and "preview"     *)
(* stand for them.  _thread is tested and assigned without a lock, so two  *)
(* calls may each start a worker; both then take jobs from one queue.  The *)
(* terminal callback is the Supervisor's: it closes a crashed runtime and  *)
(* takes the Session out of the index.                                     *)
(***************************************************************************)
EXTENDS Naturals, Sequences

CONSTANTS
  Threads,        \* threads of the API server
  Workers,        \* worker threads there may be
  Kinds,          \* the calls the threads make
  MaxCalls,       \* bound on the number of calls
  None

AllKinds == {"open", "act", "observe", "preview", "close"}
Answers == {"ok", "error", "crashed"}

ASSUME RuntimeAssumption ==
  /\ None \notin Threads \cup Workers \cup AllKinds \cup Answers
  /\ Kinds \subseteq AllKinds
  /\ MaxCalls \in Nat

VARIABLES
  lock,     \* owner of _web_operation_lock
  closed,   \* _closed
  recorded, \* _session_terminal_recorded
  slot,     \* _thread
  jobs,     \* _jobs, shared by all workers
  worker,   \* state of each worker thread
  serving,  \* the job each worker executes
  browser,  \* the browser process of each worker
  row,      \* lifecycle of the durable Session row
  indexed,  \* is the Session in the SessionManager?
  pc, kind, todo, answer, failed, \* the callers' program counters and locals
  calls,    \* calls made so far
  starter   \* history: the call each worker was started by

runtimeVars == <<lock, closed, recorded, slot>>
workerVars == <<worker, serving, browser>>
localVars == <<kind, todo, answer, failed>>
vars == <<runtimeVars, jobs, workerVars, row, indexed, pc, localVars, calls, starter>>

Lifecycles == {"created", "starting", "running", "stopping", "closed", "crashed"}
Terminal == {"closed", "crashed"}
JobKinds == {"open", "observe", "act", "close"}
Jobs == [from : Threads \cup {None}, kind : JobKinds]
Browsers == {"none", "running", "stuck", "exited"}
Running == {"running", "stuck"}  \* a stuck one survived terminate() and kill()
Labels == {"idle", "lock", "call", "starting", "spawn", "running", "put", "wait",
           "mark", "write", "notify", "relock", "close", "cput", "cwait", "cset",
           "crow", "cnotify", "finalize", "finish"}

TypeOK ==
  /\ lock \in Threads \cup {None}
  /\ closed \in BOOLEAN
  /\ recorded \in BOOLEAN
  /\ slot \in Workers \cup {None}
  /\ jobs \in Seq(Jobs)
  /\ worker \in [Workers -> {"none", "running", "gone"}]
  /\ serving \in [Workers -> Jobs \cup {None}]
  /\ browser \in [Workers -> Browsers]
  /\ row \in Lifecycles
  /\ indexed \in BOOLEAN
  /\ pc \in [Threads -> Labels]
  /\ kind \in [Threads -> AllKinds \cup {None}]
  /\ todo \in [Threads -> Seq(JobKinds)]
  /\ answer \in [Threads -> Answers \cup {None}]
  /\ failed \in [Threads -> BOOLEAN]
  /\ calls \in 0..MaxCalls
  /\ starter \in [Workers -> AllKinds \cup {None}]

Init ==
  /\ lock = None
  /\ closed = FALSE
  /\ recorded = FALSE
  /\ slot = None
  /\ jobs = <<>>
  /\ worker = [w \in Workers |-> "none"]
  /\ serving = [w \in Workers |-> None]
  /\ browser = [w \in Workers |-> "none"]
  /\ row = "created"
  /\ indexed = TRUE
  /\ pc = [t \in Threads |-> "idle"]
  /\ kind = [t \in Threads |-> None]
  /\ todo = [t \in Threads |-> <<>>]
  /\ answer = [t \in Threads |-> None]
  /\ failed = [t \in Threads |-> FALSE]
  /\ calls = 0
  /\ starter = [w \in Workers |-> None]

Goto(t, label) == pc' = [pc EXCEPT ![t] = label]

-----------------------------------------------------------------------------
MUT_HasThread == FALSE

HasThread == slot # None

(* A call arrives; callers find the runtime through the index.             *)

Locked(k) == k \notin {"observe", "preview"}

MUT_Script(k) ==
  CASE k = "open" -> <<"open_web", "observe">>
    [] k = "act" -> <<"observe", "act">>
    [] k \in {"observe", "preview"} -> <<"observe">>
    [] k = "close" -> <<>>

(* The jobs a call gives the worker, one after the other.                  *)
Script(k) ==
  CASE k = "open" -> <<"open", "observe">>
    [] k = "act" -> <<"observe", "act">>
    [] k \in {"observe", "preview"} -> <<"observe">>
    [] k = "close" -> <<>>

Start(t, k) ==
  /\ pc[t] = "idle"
  /\ calls < MaxCalls
  /\ k \in Kinds
  /\ indexed
  /\ k = "preview" => ~closed /\ HasThread
  /\ kind' = [kind EXCEPT ![t] = k]
  /\ todo' = [todo EXCEPT ![t] = Script(k)]
  /\ calls' = calls + 1
  /\ Goto(t, IF Locked(k) THEN "lock" ELSE "call")
  /\ UNCHANGED <<runtimeVars, jobs, workerVars, row, indexed, answer, failed, starter>>

TakeLock(t) ==
  /\ pc[t] = "lock"
  /\ lock = None
  /\ lock' = t
  /\ Goto(t, IF kind[t] = "close" THEN "close" ELSE "call")
  /\ UNCHANGED <<closed, recorded, slot, jobs, workerVars, row, indexed, localVars, calls, starter>>

(* Leaving the with-block; whatever was raised has been passed on.         *)
Finish(t) ==
  /\ pc[t] = "finish"
  /\ lock' = IF lock = t THEN None ELSE lock
  /\ kind' = [kind EXCEPT ![t] = None]
  /\ todo' = [todo EXCEPT ![t] = <<>>]
  /\ answer' = [answer EXCEPT ![t] = None]
  /\ failed' = [failed EXCEPT ![t] = FALSE]
  /\ Goto(t, "idle")
  /\ UNCHANGED <<closed, recorded, slot, jobs, workerVars, row, indexed, calls, starter>>

-----------------------------------------------------------------------------
(* _call and _ensure_thread.                                               *)

CallRefused(t) ==
  /\ pc[t] = "call"
  /\ closed
  /\ Goto(t, "finish")
  /\ UNCHANGED <<runtimeVars, jobs, workerVars, row, indexed, localVars, calls, starter>>

MUT_CheckThread(t) ==
  /\ pc[t] = "call"
  /\ Goto(t, IF HasThread THEN "put" ELSE "starting")
  /\ UNCHANGED <<runtimeVars, jobs, workerVars, row, indexed, localVars, calls, starter>>

CheckThread(t) ==
  /\ pc[t] = "call"
  /\ ~closed
  /\ Goto(t, IF HasThread THEN "put" ELSE "starting")
  /\ UNCHANGED <<runtimeVars, jobs, workerVars, row, indexed, localVars, calls, starter>>

RowStarting(t) ==
  /\ pc[t] = "starting"
  /\ row' = "starting"
  /\ Goto(t, "spawn")
  /\ UNCHANGED <<runtimeVars, jobs, workerVars, indexed, localVars, calls, starter>>

Spawn(t) ==
  /\ pc[t] = "spawn"
  /\ \E w \in Workers :
       /\ worker[w] = "none"
       /\ worker' = [worker EXCEPT ![w] = "running"]
       /\ slot' = w
       /\ starter' = [starter EXCEPT ![w] = kind[t]]
  /\ Goto(t, "running")
  /\ UNCHANGED <<lock, closed, recorded, jobs, serving, browser, row, indexed,
                 localVars, calls>>

RowRunning(t) ==
  /\ pc[t] = "running"
  /\ row' = "running"
  /\ Goto(t, "put")
  /\ UNCHANGED <<runtimeVars, jobs, workerVars, indexed, localVars, calls, starter>>

(* Every job has a result queue of its own, so an answer reaches the call  *)
(* that asked or nobody.                                                   *)
PutJob(t, k) ==
  /\ jobs' = Append(jobs, [from |-> t, kind |-> k])
  /\ answer' = [answer EXCEPT ![t] = None]

Put(t) ==
  /\ pc[t] = "put"
  /\ PutJob(t, Head(todo[t]))
  /\ todo' = [todo EXCEPT ![t] = Tail(@)]
  /\ Goto(t, "wait")
  /\ UNCHANGED <<runtimeVars, workerVars, row, indexed, kind, failed, calls, starter>>

(* The next job follows an answer, unless an error or a check of the       *)
(* runtime ends the call.                                                  *)
Answered(t) ==
  /\ pc[t] = "wait"
  /\ answer[t] # None
  /\ \/ answer[t] = "crashed" /\ Goto(t, "mark")
     \/ answer[t] = "ok" /\ todo[t] # <<>> /\ Goto(t, "call")
     \/ answer[t] # "crashed" /\ Goto(t, "finish")
  /\ UNCHANGED <<runtimeVars, jobs, workerVars, row, indexed, localVars, calls, starter>>

(* The caller leaves its job in the queue, or with the worker.             *)
Orphan(job, t) == [job EXCEPT !.from = IF @ = t THEN None ELSE @]

Abandon(t) ==
  /\ jobs' = [i \in DOMAIN jobs |-> Orphan(jobs[i], t)]
  /\ serving' = [w \in Workers |->
                   IF serving[w] = None THEN None ELSE Orphan(serving[w], t)]

TimesOut(t) ==
  /\ pc[t] = "wait"
  /\ answer[t] = None
  /\ Abandon(t)
  /\ Goto(t, "finish")
  /\ UNCHANGED <<runtimeVars, worker, browser, row, indexed, localVars, calls, starter>>

-----------------------------------------------------------------------------
(* _mark_session_crashed and the terminal callback.                        *)

AlreadyRecorded(t) ==
  /\ pc[t] = "mark"
  /\ Goto(t, IF recorded THEN "finish" ELSE "write")
  /\ UNCHANGED <<runtimeVars, jobs, workerVars, row, indexed, localVars, calls, starter>>

WriteCrashed(t) ==
  /\ pc[t] = "write"
  /\ row' = "crashed"
  /\ recorded' = TRUE
  /\ Goto(t, "notify")
  /\ UNCHANGED <<lock, closed, slot, jobs, workerVars, indexed, localVars, calls, starter>>

MUT_NotifyCrashed(t) ==
  /\ pc[t] = "notify"
  /\ Goto(t, IF indexed THEN "finalize" ELSE "finish")
  /\ UNCHANGED <<runtimeVars, jobs, workerVars, row, indexed, localVars, calls, starter>>

MUT_NotReentrant(t) ==
  /\ pc[t] = "notify"
  /\ Goto(t, IF indexed THEN "relock" ELSE "finish")
  /\ UNCHANGED <<runtimeVars, jobs, workerVars, row, indexed, localVars, calls, starter>>

(* _on_session_terminal does nothing for a Session out of the index.       *)
NotifyCrashed(t) ==
  /\ pc[t] = "notify"
  /\ Goto(t, IF ~indexed THEN "finish" ELSE IF lock = t THEN "close" ELSE "relock")
  /\ UNCHANGED <<runtimeVars, jobs, workerVars, row, indexed, localVars, calls, starter>>

RelockForClose(t) ==
  /\ pc[t] = "relock"
  /\ lock = None
  /\ lock' = t
  /\ Goto(t, "close")
  /\ UNCHANGED <<closed, recorded, slot, jobs, workerVars, row, indexed, localVars, calls, starter>>

(* _finalize_session; only the callback of a crash writes the row.         *)
Finalize(t) ==
  /\ pc[t] = "finalize"
  /\ indexed' = FALSE
  /\ row' = IF indexed /\ kind[t] # "close" THEN "crashed" ELSE row
  /\ Goto(t, "finish")
  /\ UNCHANGED <<runtimeVars, jobs, workerVars, localVars, calls, starter>>

-----------------------------------------------------------------------------
(* close().                                                                *)

CloseAgain(t) ==
  /\ pc[t] = "close"
  /\ closed
  /\ Goto(t, "finalize")
  /\ UNCHANGED <<runtimeVars, jobs, workerVars, row, indexed, localVars, calls, starter>>

BeginClose(t) ==
  /\ pc[t] = "close"
  /\ ~closed
  /\ row' = "stopping"
  /\ Goto(t, IF slot = None THEN "cset" ELSE "cput")
  /\ UNCHANGED <<runtimeVars, jobs, workerVars, indexed, localVars, calls, starter>>

PutClose(t) ==
  /\ pc[t] = "cput"
  /\ PutJob(t, "close")
  /\ Goto(t, "cwait")
  /\ UNCHANGED <<runtimeVars, workerVars, row, indexed, kind, todo, failed, calls, starter>>

CloseAnswered(t) ==
  /\ pc[t] = "cwait"
  /\ answer[t] # None
  /\ failed' = [failed EXCEPT ![t] = answer[t] # "ok"]
  /\ Goto(t, "cset")
  /\ UNCHANGED <<runtimeVars, jobs, workerVars, row, indexed, kind, todo, answer, calls, starter>>

MUT_CloseTimesOut(t) ==
  /\ pc[t] = "cwait"
  /\ answer[t] = None
  /\ Abandon(t)
  /\ Goto(t, "cset")
  /\ UNCHANGED <<runtimeVars, worker, browser, row, indexed, localVars, calls, starter>>

CloseTimesOut(t) ==
  /\ pc[t] = "cwait"
  /\ answer[t] = None
  /\ Abandon(t)
  /\ failed' = [failed EXCEPT ![t] = TRUE]
  /\ Goto(t, "cset")
  /\ UNCHANGED <<runtimeVars, worker, browser, row, indexed, kind, todo, answer, calls, starter>>

SetClosed(t) ==
  /\ pc[t] = "cset"
  /\ closed' = TRUE
  /\ Goto(t, IF recorded THEN "finalize" ELSE "crow")
  /\ UNCHANGED <<lock, recorded, slot, jobs, workerVars, row, indexed, localVars, calls, starter>>

RecordClosed(t) ==
  /\ pc[t] = "crow"
  /\ row' = IF failed[t] THEN "crashed" ELSE "closed"
  /\ recorded' = TRUE
  /\ Goto(t, "cnotify")
  /\ UNCHANGED <<lock, closed, slot, jobs, workerVars, indexed, localVars, calls, starter>>

(* The callback finalizes inside close(); its own close() returns at once. *)
NotifyClosed(t) ==
  /\ pc[t] = "cnotify"
  /\ indexed' = FALSE
  /\ row' = IF indexed /\ failed[t] THEN "crashed" ELSE row
  /\ Goto(t, "finalize")
  /\ UNCHANGED <<runtimeVars, jobs, workerVars, localVars, calls, starter>>

-----------------------------------------------------------------------------
(* SessionWorker.run: jobs in the order they were put, until a close job.  *)

TakeJob(w) ==
  /\ worker[w] = "running"
  /\ serving[w] = None
  /\ jobs # <<>>
  /\ serving' = [serving EXCEPT ![w] = Head(jobs)]
  /\ jobs' = Tail(jobs)
  /\ UNCHANGED <<runtimeVars, worker, browser, row, indexed, pc, localVars, calls, starter>>

Reply(w, a) ==
  LET t == serving[w].from IN
  /\ answer' = IF t = None THEN answer ELSE [answer EXCEPT ![t] = a]
  /\ serving' = [serving EXCEPT ![w] = None]

(* open, and act on a driver without a browser: the browser is started, an *)
(* exited one is not.  A page the policy forbids closes the driver.        *)
ServeOpen(w) ==
  /\ serving[w] # None
  /\ serving[w].kind \in {"open", "act"}
  /\ \/ browser[w] = "exited" /\ Reply(w, "crashed") /\ UNCHANGED browser
     \/ /\ browser[w] # "exited"
        /\ \/ Reply(w, "ok") /\ browser' = [browser EXCEPT ![w] = "running"]
           \/ /\ Reply(w, "error")
              /\ \E b \in {"none", "running"} : browser' = [browser EXCEPT ![w] = b]
  /\ UNCHANGED <<runtimeVars, jobs, worker, row, indexed, pc, kind, todo, failed, calls, starter>>

(* observe: a Session without a browser has nothing to show.               *)
ServeObserve(w) ==
  /\ serving[w] # None
  /\ serving[w].kind = "observe"
  /\ \/ browser[w] = "exited" /\ Reply(w, "crashed") /\ UNCHANGED browser
     \/ /\ browser[w] # "exited"
        /\ \/ Reply(w, "ok") /\ UNCHANGED browser
           \/ /\ Reply(w, "error")
              /\ \E b \in {"none", browser[w]} : browser' = [browser EXCEPT ![w] = b]
  /\ UNCHANGED <<runtimeVars, jobs, worker, row, indexed, pc, kind, todo, failed, calls, starter>>


(* close: the worker ends, whether or not the driver could be closed.      *)
ServeClose(w) ==
  /\ serving[w] # None
  /\ serving[w].kind = "close"
  /\ \/ Reply(w, "ok") /\ browser' = [browser EXCEPT ![w] = "none"]
     \/ /\ browser[w] = "running" /\ Reply(w, "error")
        /\ browser' = [browser EXCEPT ![w] = "stuck"]
  /\ worker' = [worker EXCEPT ![w] = "gone"]
  /\ UNCHANGED <<runtimeVars, jobs, row, indexed, pc, kind, todo, failed, calls, starter>>

BrowserExits(w) ==
  /\ browser[w] \in Running
  /\ browser' = [browser EXCEPT ![w] = "exited"]
  /\ UNCHANGED <<runtimeVars, jobs, worker, serving, row, indexed, pc, localVars, calls, starter>>

-----------------------------------------------------------------------------
Call(t) ==
  \/ TakeLock(t) \/ Finish(t)
  \/ CallRefused(t) \/ CheckThread(t) \/ RowStarting(t) \/ Spawn(t) \/ RowRunning(t)
  \/ Put(t) \/ Answered(t) \/ TimesOut(t)

Crash(t) ==
  \/ AlreadyRecorded(t) \/ WriteCrashed(t) \/ NotifyCrashed(t) \/ RelockForClose(t)
  \/ Finalize(t)

Close(t) ==
  \/ CloseAgain(t) \/ BeginClose(t) \/ PutClose(t) \/ CloseAnswered(t)
  \/ CloseTimesOut(t) \/ SetClosed(t) \/ RecordClosed(t) \/ NotifyClosed(t)

Step(t) == Call(t) \/ Crash(t) \/ Close(t)

Work(w) == TakeJob(w) \/ ServeOpen(w) \/ ServeObserve(w) \/ ServeClose(w)

Next ==
  \/ \E t \in Threads : Step(t) \/ \E k \in AllKinds : Start(t, k)
  \/ \E w \in Workers : Work(w) \/ BrowserExits(w)

Spec == Init /\ [][Next]_vars

(* Threads are scheduled, and a driver call ends: each carries a timeout.  *)
FairSpec ==
  /\ Spec
  /\ \A t \in Threads : WF_vars(Step(t))
  /\ \A w \in Workers : WF_vars(Work(w))

-----------------------------------------------------------------------------
(* A Session is backed by one worker: there are never two worker threads,  *)
(* each with a browser of its own, behind one runtime.                     *)
OneWorker ==
  \A v, w \in Workers : worker[v] = "running" /\ worker[w] = "running" => v = w

(* Whoever holds the web lock finds the worker that an earlier holder       *)
(* started: of two workers one was started by a call without the lock.     *)
SecondWorkerIsObserved ==
  \A v, w \in Workers :
    starter[v] # None /\ starter[w] # None /\ v # w => "observe" \in {starter[v], starter[w]}

(* What the durable row says of the process: a Session whose row is closed *)
(* has no running browser, however calls, time-outs and crashes met.  Only *)
(* a second worker, which the close job did not reach, may keep its own.   *)
ClosedHasNoBrowser ==
  row = "closed" =>
    \A w \in Workers : browser[w] \in Running => \E v \in Workers \ {w} : worker[v] = "gone"

(* A Session that reached a terminal state never starts or runs again,     *)
(* unless a call without the lock had found no worker before.              *)
OnlyObserveResumes ==
  [][(row \in Terminal /\ row' \in {"starting", "running"}) =>
       \E t \in Threads : kind[t] = "observe" /\ pc'[t] # pc[t]]_vars

(* Every call returns: a lock held by a caller that waits, a worker that   *)
(* has exited and the close inside the crash callback never block it.      *)
EveryCallReturns == \A t \in Threads : pc[t] # "idle" ~> pc[t] = "idle"

(* A crash that was recorded closes the runtime, whoever noticed it and    *)
(* whatever lock it held.                                                  *)
CrashClosesRuntime == recorded ~> closed

=============================================================================
