---------------------------- MODULE RuntimeProofs ----------------------------
(***************************************************************************)
(* Proofs about SessionRuntime, for any number of threads and workers and  *)
(* for every mix of calls.                                                 *)
(***************************************************************************)
EXTENDS SessionRuntime, TLAPS

(* A call that is about to give the worker a job has one to give.          *)
TodoSet ==
  \A t \in Threads :
    /\ pc[t] \in {"call", "starting", "spawn", "running", "put"} => todo[t] # <<>>
    /\ pc[t] = "lock" /\ kind[t] # "close" => todo[t] # <<>>

Typed == TypeOK /\ TodoSet

(* Nothing happens before a worker is started, and _thread is never reset. *)
SlotSet ==
  /\ \A w \in Workers : worker[w] # "none" => slot # None
  /\ \A w \in Workers : worker[w] = "none" => starter[w] = None /\ browser[w] = "none"
  /\ \A w \in Workers : serving[w] # None => worker[w] = "running"
  /\ slot = None => jobs = <<>>
  /\ \A t \in Threads :
       \/ answer[t] # None
       \/ kind[t] = "preview"
       \/ pc[t] \in {"running", "put", "wait", "mark", "write", "notify", "cput", "cwait"}
       => slot # None

(* A row is terminal when close() has ended or a worker's browser crashed. *)
TerminalHasCause ==
  /\ row \in Terminal => closed \/ slot # None
  /\ \A t \in Threads : pc[t] \in {"crow", "cnotify", "finalize"} => closed

(* Who holds the web lock, who asks without it, and who may start a worker.*)
ByLock(t) == kind[t] \in {"open", "act"}

Locking ==
  \A t \in Threads :
    /\ pc[t] \in {"close", "cput", "cwait", "cset", "crow"} => lock = t
    /\ pc[t] \in {"call", "starting", "spawn", "running", "put", "wait"} =>
         (ByLock(t) /\ lock = t) \/ kind[t] \in {"observe", "preview"}
    /\ pc[t] = "lock" => kind[t] \in {"open", "act", "close"}
    /\ pc[t] \in {"starting", "spawn", "running"} => kind[t] # "preview"
    /\ pc[t] \in {"starting", "spawn", "running", "put"} /\ ByLock(t) => ~closed
    /\ kind[t] \in {"observe", "preview"} => todo[t] \in {<<>>, <<"observe">>}

Lock == SlotSet /\ TerminalHasCause /\ Locking

(* A holder of the lock that starts a worker is the first to do so.        *)
FirstByLock ==
  \A t \in Threads : pc[t] \in {"starting", "spawn"} /\ ByLock(t) =>
    \A w \in Workers : starter[w] \in {None, "observe"}

(* No worker has a browser or a job that starts one.                       *)
Opens(j) == j.kind \in {"open", "act"}

Idle ==
  /\ \A w \in Workers : browser[w] = "none"
  /\ \A w \in Workers : serving[w] # None => ~Opens(serving[w])
  /\ \A i \in DOMAIN jobs : ~Opens(jobs[i])

NoCrash ==
  \A t \in Threads : answer[t] # "crashed" /\ pc[t] \notin {"mark", "write", "notify"}

(* While a holder of the lock starts a worker nobody else gets a browser.  *)
FreshStart ==
  \A t \in Threads : pc[t] \in {"starting", "spawn", "running"} /\ ByLock(t) =>
    row \notin Terminal /\ Idle /\ NoCrash

(* A job somebody asked for is awaited: its caller has no answer yet, and  *)
(* one that waits for its close has asked for nothing else.                *)
Awaited(j) ==
  j.from # None =>
    /\ pc[j.from] \in {"wait", "cwait"}
    /\ answer[j.from] = None
    /\ pc[j.from] = "cwait" => j.kind = "close"

SameCaller(i, j) == i.from = j.from /\ i.from # None

Asked ==
  /\ \A i \in DOMAIN jobs : Awaited(jobs[i])
  /\ \A w \in Workers : serving[w] # None => Awaited(serving[w])
  /\ \A i, j \in DOMAIN jobs : SameCaller(jobs[i], jobs[j]) => i = j
  /\ \A w \in Workers, i \in DOMAIN jobs :
       serving[w] # None => ~SameCaller(serving[w], jobs[i])
  /\ \A v, w \in Workers :
       serving[v] # None /\ serving[w] # None /\ SameCaller(serving[v], serving[w]) => v = w

(* A worker that served its close job has no browser and gets none again.  *)
HasStopped == \E w \in Workers : worker[w] = "gone" /\ browser[w] \notin Running

(* What close() may record: a worker has stopped, or there never was a     *)
(* browser and nobody is left who could start one.                         *)
Ended == HasStopped \/ Idle

Stopped ==
  /\ \A t \in Threads : pc[t] = "cwait" /\ answer[t] = "ok" => HasStopped
  /\ \A t \in Threads : pc[t] \in {"cset", "crow"} /\ ~failed[t] => Ended
  /\ row = "closed" => closed /\ Ended

-----------------------------------------------------------------------------
(* Types.                                                                  *)

LEMMA SeqElement ==
  ASSUME NEW S, NEW s \in Seq(S), NEW i \in 1..Len(s) PROVE s[i] \in S
OBVIOUS

LEMMA HeadTail ==
  ASSUME NEW S, NEW s \in Seq(S), s # <<>>
  PROVE  Head(s) \in S /\ Tail(s) \in Seq(S)
OBVIOUS

LEMMA OrphanSeq ==
  ASSUME NEW S, NEW s \in Seq(S), NEW t, \A j \in S : Orphan(j, t) \in S
  PROVE  [i \in DOMAIN s |-> Orphan(s[i], t)] \in Seq(S)
<1>1. \A i \in 1..Len(s) : s[i] \in S
  BY SeqElement
<1> QED BY <1>1

LEMMA InitTyped == ASSUME Init PROVE Typed
<1>1. jobs \in Seq(Jobs) /\ todo \in [Threads -> Seq(JobKinds)]
  BY DEF Init
<1>2. /\ lock \in Threads \cup {None} /\ slot \in Workers \cup {None}
      /\ serving \in [Workers -> Jobs \cup {None}]
      /\ kind \in [Threads -> AllKinds \cup {None}]
      /\ answer \in [Threads -> Answers \cup {None}]
      /\ calls \in 0..MaxCalls
      /\ starter \in [Workers -> AllKinds \cup {None}]
  BY RuntimeAssumption DEF Init
<1>4. /\ closed \in BOOLEAN /\ recorded \in BOOLEAN /\ indexed \in BOOLEAN
      /\ failed \in [Threads -> BOOLEAN]
      /\ worker \in [Workers -> {"none", "running", "gone"}]
      /\ browser \in [Workers -> Browsers]
      /\ row \in Lifecycles
      /\ pc \in [Threads -> Labels]
  BY DEF Init, Labels, Lifecycles, Browsers
<1>3. TodoSet  BY DEF Init, TodoSet
<1> QED BY <1>1, <1>2, <1>3, <1>4 DEF Typed, TypeOK

LEMMA NextTyped ==
  ASSUME Typed, [Next]_vars
  PROVE  Typed'
<1> USE RuntimeAssumption DEF Goto, runtimeVars, workerVars, localVars, Typed, TypeOK, TodoSet,
        Labels, Lifecycles, Answers, Jobs, JobKinds, AllKinds, Browsers, Running
<1>1. ASSUME NEW t \in Threads, Call(t) PROVE Typed'
  <2>1. CASE TakeLock(t)  BY <2>1 DEF TakeLock
  <2>2. CASE Finish(t)  BY <2>2 DEF Finish
  <2>3. CASE CallRefused(t)  BY <2>3 DEF CallRefused
  <2>4. CASE CheckThread(t)  BY <2>4 DEF CheckThread, HasThread
  <2>5. CASE RowStarting(t)  BY <2>5 DEF RowStarting
  <2>6. CASE Spawn(t)  BY <2>6 DEF Spawn
  <2>7. CASE RowRunning(t)  BY <2>7 DEF RowRunning
  <2>8. CASE Put(t)  BY <2>8 DEF Put, PutJob
  <2>9. CASE Answered(t)
    <3>1. TypeOK'
      BY <2>9, ZenonT(40) DEF Answered
    <3>2. TodoSet'
      BY <2>9 DEF Answered
    <3> QED BY <3>1, <3>2
  <2>10. CASE TimesOut(t)
    <3>1. \A j \in Jobs : Orphan(j, t) \in Jobs
      BY DEF Orphan
    <3>2. jobs' \in Seq(Jobs)
      <4>1. jobs' = [i \in DOMAIN jobs |-> Orphan(jobs[i], t)]
        BY <2>10 DEF TimesOut, Abandon
      <4>2. jobs \in Seq(Jobs)
        OBVIOUS
      <4>3. [i \in DOMAIN jobs |-> Orphan(jobs[i], t)] \in Seq(Jobs)
        <5> HIDE DEF Jobs, Typed, TypeOK
        <5> QED BY ONLY <3>1, <4>2, OrphanSeq
      <4> QED BY <4>1, <4>3
    <3>3. serving' \in [Workers -> Jobs \cup {None}]
      BY <3>1, <2>10 DEF TimesOut, Abandon
    <3> QED BY <3>2, <3>3, <2>10 DEF TimesOut
  <2> QED BY <1>1, <2>1, <2>2, <2>3, <2>4, <2>5, <2>6, <2>7, <2>8, <2>9, <2>10 DEF Call
<1>2. ASSUME NEW t \in Threads, Crash(t) PROVE Typed'
  <2>1. CASE AlreadyRecorded(t)  BY <2>1 DEF AlreadyRecorded
  <2>2. CASE WriteCrashed(t)  BY <2>2 DEF WriteCrashed
  <2>3. CASE NotifyCrashed(t)  BY <2>3 DEF NotifyCrashed
  <2>4. CASE RelockForClose(t)  BY <2>4 DEF RelockForClose
  <2>5. CASE Finalize(t)  BY <2>5 DEF Finalize
  <2> QED BY <1>2, <2>1, <2>2, <2>3, <2>4, <2>5 DEF Crash
<1>3. ASSUME NEW t \in Threads, Close(t) PROVE Typed'
  <2>1. CASE CloseAgain(t)  BY <2>1 DEF CloseAgain
  <2>2. CASE BeginClose(t)  BY <2>2 DEF BeginClose
  <2>3. CASE PutClose(t)  BY <2>3 DEF PutClose, PutJob
  <2>4. CASE CloseAnswered(t)  BY <2>4 DEF CloseAnswered
  <2>5. CASE CloseTimesOut(t)
    <3>1. \A j \in Jobs : Orphan(j, t) \in Jobs
      BY DEF Orphan
    <3>2. jobs' \in Seq(Jobs)
      <4>1. jobs' = [i \in DOMAIN jobs |-> Orphan(jobs[i], t)]
        BY <2>5 DEF CloseTimesOut, Abandon
      <4>2. jobs \in Seq(Jobs)
        OBVIOUS
      <4>3. [i \in DOMAIN jobs |-> Orphan(jobs[i], t)] \in Seq(Jobs)
        <5> HIDE DEF Jobs, Typed, TypeOK
        <5> QED BY ONLY <3>1, <4>2, OrphanSeq
      <4> QED BY <4>1, <4>3
    <3>3. serving' \in [Workers -> Jobs \cup {None}]
      BY <3>1, <2>5 DEF CloseTimesOut, Abandon
    <3> QED BY <3>2, <3>3, <2>5 DEF CloseTimesOut
  <2>6. CASE SetClosed(t)  BY <2>6 DEF SetClosed
  <2>7. CASE RecordClosed(t)  BY <2>7 DEF RecordClosed
  <2>8. CASE NotifyClosed(t)  BY <2>8 DEF NotifyClosed
  <2> QED BY <1>3, <2>1, <2>2, <2>3, <2>4, <2>5, <2>6, <2>7, <2>8 DEF Close
<1>4. ASSUME NEW w \in Workers, Work(w) PROVE Typed'
  <2>1. CASE TakeJob(w)
    <3>1. Head(jobs) \in Jobs /\ Tail(jobs) \in Seq(Jobs)
      <4> HIDE DEF Jobs
      <4> QED BY <2>1, HeadTail DEF TakeJob
    <3> QED BY <3>1, <2>1 DEF TakeJob
  <2>2. CASE ServeOpen(w)
    <3>1. serving[w] \in Jobs
      BY <2>2 DEF ServeOpen
    <3>2. answer' \in [Threads -> Answers \cup {None}]
      BY <3>1, <2>2 DEF ServeOpen, Reply
    <3>3. serving' \in [Workers -> Jobs \cup {None}]
      <4> HIDE DEF Jobs, Answers
      <4> QED BY <2>2 DEF ServeOpen, Reply
    <3>4. browser' \in [Workers -> Browsers]
      BY <2>2 DEF ServeOpen
    <3> HIDE DEF Answers, Jobs
    <3> QED BY <3>2, <3>3, <3>4, <2>2 DEF ServeOpen
  <2>3. CASE ServeObserve(w)
    <3>1. serving[w] \in Jobs
      BY <2>3 DEF ServeObserve
    <3>2. answer' \in [Threads -> Answers \cup {None}]
      BY <3>1, <2>3 DEF ServeObserve, Reply
    <3>3. serving' \in [Workers -> Jobs \cup {None}]
      <4> HIDE DEF Jobs, Answers
      <4> QED BY <2>3 DEF ServeObserve, Reply
    <3>4. browser' \in [Workers -> Browsers]
      BY <2>3 DEF ServeObserve
    <3> HIDE DEF Answers, Jobs
    <3> QED BY <3>2, <3>3, <3>4, <2>3 DEF ServeObserve
  <2>4. CASE ServeClose(w)  BY <2>4, ZenonT(40) DEF ServeClose, Reply
  <2> QED BY <1>4, <2>1, <2>2, <2>3, <2>4 DEF Work
<1>5. ASSUME NEW t \in Threads, NEW k \in AllKinds, Start(t, k) PROVE Typed'
  <2>1. Script(k) \in Seq(JobKinds)
    <3>1. CASE k = "open"  BY <3>1 DEF Script
    <3>2. CASE k = "act"  BY <3>2 DEF Script
    <3>3. CASE k = "observe"  BY <3>3 DEF Script
    <3>5. CASE k = "preview"  BY <3>5 DEF Script
    <3>4. CASE k = "close"  BY <3>4 DEF Script
    <3> QED BY <3>1, <3>2, <3>3, <3>4, <3>5
  <2>2. k # "close" => Script(k) # <<>>
    BY DEF Script
  <2>3. kind' \in [Threads -> AllKinds \cup {None}] /\ todo' \in [Threads -> Seq(JobKinds)]
    BY <1>5, <2>1 DEF Start
  <2>4. TodoSet'
    BY <1>5, <2>2 DEF Start, Locked
  <2> HIDE DEF JobKinds
  <2> QED BY <1>5, <2>3, <2>4 DEF Start
<1>6. ASSUME NEW w \in Workers, BrowserExits(w) PROVE Typed'
  BY <1>6 DEF BrowserExits
<1>7. CASE UNCHANGED vars  BY <1>7 DEF vars
<1> HIDE DEF Typed, TypeOK, Jobs, Labels
<1> QED BY <1>1, <1>2, <1>3, <1>4, <1>5, <1>6, <1>7 DEF Next, Step

(* TypeCorrect: the runtime's fields, the queue of its worker, the row and *)
(* the locals of every call keep their types; no job without a handler is  *)
(* ever queued.                                                            *)
THEOREM TypeCorrect == Spec => []TypeOK
<1>1. Init => Typed  BY InitTyped
<1>2. Typed /\ [Next]_vars => Typed'  BY NextTyped
<1>3. Typed => TypeOK  BY DEF Typed
<1> QED BY <1>1, <1>2, <1>3, PTL DEF Spec

-----------------------------------------------------------------------------
(* The web lock and the slot of the worker.                                *)

LEMMA InitLock == ASSUME Init PROVE Lock
<1> USE RuntimeAssumption DEF Init
<1>1. SlotSet  BY DEF SlotSet, AllKinds
<1>2. TerminalHasCause  BY DEF TerminalHasCause, Terminal
<1>3. Locking  BY DEF Locking, ByLock, AllKinds
<1> QED BY <1>1, <1>2, <1>3 DEF Lock

LEMMA NextSlotSet ==
  ASSUME Typed, SlotSet, [Next]_vars
  PROVE  SlotSet'
<1> USE RuntimeAssumption DEF Goto, runtimeVars, workerVars, localVars, Typed, TypeOK, TodoSet,
        Labels, Lifecycles, Answers, Jobs, JobKinds, AllKinds, Browsers, Running, Terminal
<1> USE DEF SlotSet
<1>1. ASSUME NEW t \in Threads, Call(t) PROVE SlotSet'
  <2>1. CASE TakeLock(t)  BY <2>1 DEF TakeLock
  <2>2. CASE Finish(t)  BY <2>2 DEF Finish
  <2>3. CASE CallRefused(t)  BY <2>3 DEF CallRefused
  <2>4. CASE CheckThread(t)  BY <2>4 DEF CheckThread, HasThread
  <2>5. CASE RowStarting(t)  BY <2>5 DEF RowStarting
  <2>6. CASE Spawn(t)  BY <2>6 DEF Spawn
  <2>7. CASE RowRunning(t)  BY <2>7 DEF RowRunning
  <2>8. CASE Put(t)  BY <2>8 DEF Put, PutJob
  <2>9. CASE Answered(t)  BY <2>9 DEF Answered
  <2>10. CASE TimesOut(t)  BY <2>10 DEF TimesOut, Abandon, Orphan
  <2> QED BY <1>1, <2>1, <2>2, <2>3, <2>4, <2>5, <2>6, <2>7, <2>8, <2>9, <2>10 DEF Call
<1>2. ASSUME NEW t \in Threads, Crash(t) PROVE SlotSet'
  <2>1. CASE AlreadyRecorded(t)  BY <2>1 DEF AlreadyRecorded
  <2>2. CASE WriteCrashed(t)  BY <2>2 DEF WriteCrashed
  <2>3. CASE NotifyCrashed(t)  BY <2>3 DEF NotifyCrashed
  <2>4. CASE RelockForClose(t)  BY <2>4 DEF RelockForClose
  <2>5. CASE Finalize(t)  BY <2>5 DEF Finalize
  <2> QED BY <1>2, <2>1, <2>2, <2>3, <2>4, <2>5 DEF Crash
<1>3. ASSUME NEW t \in Threads, Close(t) PROVE SlotSet'
  <2>1. CASE CloseAgain(t)  BY <2>1 DEF CloseAgain
  <2>2. CASE BeginClose(t)  BY <2>2 DEF BeginClose
  <2>3. CASE PutClose(t)  BY <2>3 DEF PutClose, PutJob
  <2>4. CASE CloseAnswered(t)  BY <2>4 DEF CloseAnswered
  <2>5. CASE CloseTimesOut(t)  BY <2>5 DEF CloseTimesOut, Abandon, Orphan
  <2>6. CASE SetClosed(t)  BY <2>6 DEF SetClosed
  <2>7. CASE RecordClosed(t)  BY <2>7 DEF RecordClosed
  <2>8. CASE NotifyClosed(t)  BY <2>8 DEF NotifyClosed
  <2> QED BY <1>3, <2>1, <2>2, <2>3, <2>4, <2>5, <2>6, <2>7, <2>8 DEF Close
<1>4. ASSUME NEW w \in Workers, Work(w) PROVE SlotSet'
  <2>1. CASE TakeJob(w)  BY <2>1 DEF TakeJob
  <2>2. CASE ServeOpen(w)  BY <2>2 DEF ServeOpen, Reply
  <2>3. CASE ServeObserve(w)  BY <2>3 DEF ServeObserve, Reply
  <2>4. CASE ServeClose(w)  BY <2>4 DEF ServeClose, Reply
  <2> QED BY <1>4, <2>1, <2>2, <2>3, <2>4 DEF Work
<1>5. ASSUME NEW t \in Threads, NEW k \in AllKinds, Start(t, k) PROVE SlotSet'
  BY <1>5 DEF Start, Locked, HasThread, Script
<1>6. ASSUME NEW w \in Workers, BrowserExits(w) PROVE SlotSet'
  BY <1>6 DEF BrowserExits
<1>7. CASE UNCHANGED vars  BY <1>7 DEF vars
<1> QED BY <1>1, <1>2, <1>3, <1>4, <1>5, <1>6, <1>7 DEF Next, Step

LEMMA NextTerminalHasCause ==
  ASSUME Typed, SlotSet, TerminalHasCause, [Next]_vars
  PROVE  TerminalHasCause'
<1> USE RuntimeAssumption DEF Goto, runtimeVars, workerVars, localVars, Typed, TypeOK, TodoSet,
        Labels, Lifecycles, Answers, Jobs, JobKinds, AllKinds, Browsers, Running, Terminal
<1> USE DEF SlotSet, TerminalHasCause
<1>1. ASSUME NEW t \in Threads, Call(t) PROVE TerminalHasCause'
  <2>1. CASE TakeLock(t)  BY <2>1 DEF TakeLock
  <2>2. CASE Finish(t)  BY <2>2 DEF Finish
  <2>3. CASE CallRefused(t)  BY <2>3 DEF CallRefused
  <2>4. CASE CheckThread(t)  BY <2>4 DEF CheckThread, HasThread
  <2>5. CASE RowStarting(t)  BY <2>5 DEF RowStarting
  <2>6. CASE Spawn(t)  BY <2>6 DEF Spawn
  <2>7. CASE RowRunning(t)  BY <2>7 DEF RowRunning
  <2>8. CASE Put(t)  BY <2>8 DEF Put, PutJob
  <2>9. CASE Answered(t)  BY <2>9 DEF Answered
  <2>10. CASE TimesOut(t)  BY <2>10 DEF TimesOut, Abandon, Orphan
  <2> QED BY <1>1, <2>1, <2>2, <2>3, <2>4, <2>5, <2>6, <2>7, <2>8, <2>9, <2>10 DEF Call
<1>2. ASSUME NEW t \in Threads, Crash(t) PROVE TerminalHasCause'
  <2>1. CASE AlreadyRecorded(t)  BY <2>1 DEF AlreadyRecorded
  <2>2. CASE WriteCrashed(t)  BY <2>2 DEF WriteCrashed
  <2>3. CASE NotifyCrashed(t)  BY <2>3 DEF NotifyCrashed
  <2>4. CASE RelockForClose(t)  BY <2>4 DEF RelockForClose
  <2>5. CASE Finalize(t)  BY <2>5 DEF Finalize
  <2> QED BY <1>2, <2>1, <2>2, <2>3, <2>4, <2>5 DEF Crash
<1>3. ASSUME NEW t \in Threads, Close(t) PROVE TerminalHasCause'
  <2>1. CASE CloseAgain(t)  BY <2>1 DEF CloseAgain
  <2>2. CASE BeginClose(t)  BY <2>2 DEF BeginClose
  <2>3. CASE PutClose(t)  BY <2>3 DEF PutClose, PutJob
  <2>4. CASE CloseAnswered(t)  BY <2>4 DEF CloseAnswered
  <2>5. CASE CloseTimesOut(t)  BY <2>5 DEF CloseTimesOut, Abandon, Orphan
  <2>6. CASE SetClosed(t)  BY <2>6 DEF SetClosed
  <2>7. CASE RecordClosed(t)  BY <2>7 DEF RecordClosed
  <2>8. CASE NotifyClosed(t)  BY <2>8 DEF NotifyClosed
  <2> QED BY <1>3, <2>1, <2>2, <2>3, <2>4, <2>5, <2>6, <2>7, <2>8 DEF Close
<1>4. ASSUME NEW w \in Workers, Work(w) PROVE TerminalHasCause'
  <2>1. CASE TakeJob(w)  BY <2>1 DEF TakeJob
  <2>2. CASE ServeOpen(w)  BY <2>2 DEF ServeOpen, Reply
  <2>3. CASE ServeObserve(w)  BY <2>3 DEF ServeObserve, Reply
  <2>4. CASE ServeClose(w)  BY <2>4 DEF ServeClose, Reply
  <2> QED BY <1>4, <2>1, <2>2, <2>3, <2>4 DEF Work
<1>5. ASSUME NEW t \in Threads, NEW k \in AllKinds, Start(t, k) PROVE TerminalHasCause'
  BY <1>5 DEF Start, Locked, HasThread, Script
<1>6. ASSUME NEW w \in Workers, BrowserExits(w) PROVE TerminalHasCause'
  BY <1>6 DEF BrowserExits
<1>7. CASE UNCHANGED vars  BY <1>7 DEF vars
<1> QED BY <1>1, <1>2, <1>3, <1>4, <1>5, <1>6, <1>7 DEF Next, Step

LEMMA NextLocking ==
  ASSUME Typed, SlotSet, Locking, [Next]_vars
  PROVE  Locking'
<1> USE RuntimeAssumption DEF Goto, runtimeVars, workerVars, localVars, Typed, TypeOK, TodoSet,
        Labels, Lifecycles, Answers, Jobs, JobKinds, AllKinds, Browsers, Running, Terminal
<1> USE DEF SlotSet, Locking, ByLock
<1>1. ASSUME NEW t \in Threads, Call(t) PROVE Locking'
  <2>1. CASE TakeLock(t)  BY <2>1 DEF TakeLock
  <2>2. CASE Finish(t)  BY <2>2 DEF Finish
  <2>3. CASE CallRefused(t)  BY <2>3 DEF CallRefused
  <2>4. CASE CheckThread(t)  BY <2>4 DEF CheckThread, HasThread
  <2>5. CASE RowStarting(t)  BY <2>5 DEF RowStarting
  <2>6. CASE Spawn(t)  BY <2>6 DEF Spawn
  <2>7. CASE RowRunning(t)  BY <2>7 DEF RowRunning
  <2>8. CASE Put(t)  BY <2>8 DEF Put, PutJob
  <2>9. CASE Answered(t)  BY <2>9 DEF Answered
  <2>10. CASE TimesOut(t)  BY <2>10 DEF TimesOut, Abandon, Orphan
  <2> QED BY <1>1, <2>1, <2>2, <2>3, <2>4, <2>5, <2>6, <2>7, <2>8, <2>9, <2>10 DEF Call
<1>2. ASSUME NEW t \in Threads, Crash(t) PROVE Locking'
  <2>1. CASE AlreadyRecorded(t)  BY <2>1 DEF AlreadyRecorded
  <2>2. CASE WriteCrashed(t)  BY <2>2 DEF WriteCrashed
  <2>3. CASE NotifyCrashed(t)  BY <2>3 DEF NotifyCrashed
  <2>4. CASE RelockForClose(t)  BY <2>4 DEF RelockForClose
  <2>5. CASE Finalize(t)  BY <2>5 DEF Finalize
  <2> QED BY <1>2, <2>1, <2>2, <2>3, <2>4, <2>5 DEF Crash
<1>3. ASSUME NEW t \in Threads, Close(t) PROVE Locking'
  <2>1. CASE CloseAgain(t)  BY <2>1 DEF CloseAgain
  <2>2. CASE BeginClose(t)  BY <2>2 DEF BeginClose
  <2>3. CASE PutClose(t)  BY <2>3 DEF PutClose, PutJob
  <2>4. CASE CloseAnswered(t)  BY <2>4 DEF CloseAnswered
  <2>5. CASE CloseTimesOut(t)  BY <2>5 DEF CloseTimesOut, Abandon, Orphan
  <2>6. CASE SetClosed(t)  BY <2>6 DEF SetClosed
  <2>7. CASE RecordClosed(t)  BY <2>7 DEF RecordClosed
  <2>8. CASE NotifyClosed(t)  BY <2>8 DEF NotifyClosed
  <2> QED BY <1>3, <2>1, <2>2, <2>3, <2>4, <2>5, <2>6, <2>7, <2>8 DEF Close
<1>4. ASSUME NEW w \in Workers, Work(w) PROVE Locking'
  <2>1. CASE TakeJob(w)  BY <2>1 DEF TakeJob
  <2>2. CASE ServeOpen(w)  BY <2>2 DEF ServeOpen, Reply
  <2>3. CASE ServeObserve(w)  BY <2>3 DEF ServeObserve, Reply
  <2>4. CASE ServeClose(w)  BY <2>4 DEF ServeClose, Reply
  <2> QED BY <1>4, <2>1, <2>2, <2>3, <2>4 DEF Work
<1>5. ASSUME NEW t \in Threads, NEW k \in AllKinds, Start(t, k) PROVE Locking'
  BY <1>5 DEF Start, Locked, HasThread, Script
<1>6. ASSUME NEW w \in Workers, BrowserExits(w) PROVE Locking'
  BY <1>6 DEF BrowserExits
<1>7. CASE UNCHANGED vars  BY <1>7 DEF vars
<1> QED BY <1>1, <1>2, <1>3, <1>4, <1>5, <1>6, <1>7 DEF Next, Step

LEMMA NextLock ==
  ASSUME Typed, Lock, [Next]_vars
  PROVE  Lock'
BY NextSlotSet, NextTerminalHasCause, NextLocking DEF Lock

-----------------------------------------------------------------------------
(* Of two workers one was started without the lock.                        *)

LEMMA InitFirst == ASSUME Init PROVE FirstByLock /\ SecondWorkerIsObserved
BY RuntimeAssumption DEF Init, FirstByLock, SecondWorkerIsObserved, AllKinds

LEMMA NextFirst ==
  ASSUME Typed, Lock, FirstByLock, SecondWorkerIsObserved, [Next]_vars
  PROVE  (FirstByLock /\ SecondWorkerIsObserved)'
<1> USE RuntimeAssumption DEF Goto, Lock, SlotSet, Locking, ByLock, FirstByLock, runtimeVars, workerVars, localVars, Typed, TypeOK, TodoSet,
        Labels, Lifecycles, Answers, Jobs, JobKinds, AllKinds, Browsers, Running, Terminal
<1>1. ASSUME NEW t \in Threads, Call(t) PROVE (FirstByLock /\ SecondWorkerIsObserved)'
  <2>1. CASE TakeLock(t)  BY <2>1 DEF SecondWorkerIsObserved, TakeLock
  <2>2. CASE Finish(t)  BY <2>2 DEF SecondWorkerIsObserved, Finish
  <2>3. CASE CallRefused(t)  BY <2>3 DEF SecondWorkerIsObserved, CallRefused
  <2>4. CASE CheckThread(t)  BY <2>4 DEF SecondWorkerIsObserved, CheckThread, HasThread
  <2>5. CASE RowStarting(t)  BY <2>5 DEF SecondWorkerIsObserved, RowStarting
  <2>6. CASE Spawn(t)
    <3>1. PICK w \in Workers : /\ worker[w] = "none"
                             /\ starter' = [starter EXCEPT ![w] = kind[t]]
      BY <2>6 DEF SecondWorkerIsObserved, Spawn
    <3>2. kind[t] = "observe" \/ (ByLock(t) /\ lock = t /\ \A v \in Workers : starter[v] \in {None, "observe"})
      BY <2>6 DEF SecondWorkerIsObserved, Spawn
    <3>3. SecondWorkerIsObserved'
      BY <3>1, <3>2 DEF SecondWorkerIsObserved, SecondWorkerIsObserved
    <3>4. FirstByLock'
      BY <3>1, <3>2, <2>6 DEF SecondWorkerIsObserved, Spawn
    <3> QED BY <3>3, <3>4
  <2>7. CASE RowRunning(t)  BY <2>7 DEF SecondWorkerIsObserved, RowRunning
  <2>8. CASE Put(t)  BY <2>8 DEF SecondWorkerIsObserved, Put, PutJob
  <2>9. CASE Answered(t)
    <3>1. FirstByLock'
      BY <2>9 DEF Answered
    <3>2. SecondWorkerIsObserved'
      BY <2>9 DEF SecondWorkerIsObserved, Answered
    <3> QED BY <3>1, <3>2
  <2>10. CASE TimesOut(t)  BY <2>10 DEF SecondWorkerIsObserved, TimesOut, Abandon, Orphan
  <2> QED BY <1>1, <2>1, <2>2, <2>3, <2>4, <2>5, <2>6, <2>7, <2>8, <2>9, <2>10 DEF SecondWorkerIsObserved, Call
<1>2. ASSUME NEW t \in Threads, Crash(t) PROVE (FirstByLock /\ SecondWorkerIsObserved)'
  <2>1. CASE AlreadyRecorded(t)  BY <2>1 DEF SecondWorkerIsObserved, AlreadyRecorded
  <2>2. CASE WriteCrashed(t)  BY <2>2 DEF SecondWorkerIsObserved, WriteCrashed
  <2>3. CASE NotifyCrashed(t)  BY <2>3 DEF SecondWorkerIsObserved, NotifyCrashed
  <2>4. CASE RelockForClose(t)  BY <2>4 DEF SecondWorkerIsObserved, RelockForClose
  <2>5. CASE Finalize(t)  BY <2>5 DEF SecondWorkerIsObserved, Finalize
  <2> QED BY <1>2, <2>1, <2>2, <2>3, <2>4, <2>5 DEF SecondWorkerIsObserved, Crash
<1>3. ASSUME NEW t \in Threads, Close(t) PROVE (FirstByLock /\ SecondWorkerIsObserved)'
  <2>1. CASE CloseAgain(t)  BY <2>1 DEF SecondWorkerIsObserved, CloseAgain
  <2>2. CASE BeginClose(t)  BY <2>2 DEF SecondWorkerIsObserved, BeginClose
  <2>3. CASE PutClose(t)  BY <2>3 DEF SecondWorkerIsObserved, PutClose, PutJob
  <2>4. CASE CloseAnswered(t)  BY <2>4 DEF SecondWorkerIsObserved, CloseAnswered
  <2>5. CASE CloseTimesOut(t)  BY <2>5 DEF SecondWorkerIsObserved, CloseTimesOut, Abandon, Orphan
  <2>6. CASE SetClosed(t)  BY <2>6 DEF SecondWorkerIsObserved, SetClosed
  <2>7. CASE RecordClosed(t)  BY <2>7 DEF SecondWorkerIsObserved, RecordClosed
  <2>8. CASE NotifyClosed(t)  BY <2>8 DEF SecondWorkerIsObserved, NotifyClosed
  <2> QED BY <1>3, <2>1, <2>2, <2>3, <2>4, <2>5, <2>6, <2>7, <2>8 DEF SecondWorkerIsObserved, Close
<1>4. ASSUME NEW w \in Workers, Work(w) PROVE (FirstByLock /\ SecondWorkerIsObserved)'
  <2>1. CASE TakeJob(w)  BY <2>1 DEF SecondWorkerIsObserved, TakeJob
  <2>2. CASE ServeOpen(w)  BY <2>2 DEF SecondWorkerIsObserved, ServeOpen, Reply
  <2>3. CASE ServeObserve(w)  BY <2>3 DEF SecondWorkerIsObserved, ServeObserve, Reply
  <2>4. CASE ServeClose(w)  BY <2>4 DEF SecondWorkerIsObserved, ServeClose, Reply
  <2> QED BY <1>4, <2>1, <2>2, <2>3, <2>4 DEF SecondWorkerIsObserved, Work
<1>5. ASSUME NEW t \in Threads, NEW k \in AllKinds, Start(t, k) PROVE (FirstByLock /\ SecondWorkerIsObserved)'
  BY <1>5 DEF SecondWorkerIsObserved, Start, Locked, HasThread, Script
<1>6. ASSUME NEW w \in Workers, BrowserExits(w) PROVE (FirstByLock /\ SecondWorkerIsObserved)'
  BY <1>6 DEF SecondWorkerIsObserved, BrowserExits
<1>7. CASE UNCHANGED vars  BY <1>7 DEF SecondWorkerIsObserved, vars
<1> QED BY <1>1, <1>2, <1>3, <1>4, <1>5, <1>6, <1>7 DEF SecondWorkerIsObserved, Next, Step

(* SecondIsObserved: whoever holds the web lock finds the worker that an   *)
(* earlier holder started: of two workers of one Session one was started by*)
(* a call that does not take the lock, whatever crashes, time-outs, closes *)
(* and other calls do.                                                     *)
THEOREM SecondIsObserved == Spec => []SecondWorkerIsObserved
<1> DEFINE Inv == Typed /\ Lock /\ FirstByLock /\ SecondWorkerIsObserved
<1>1. Init => Inv  BY InitTyped, InitLock, InitFirst
<1>2. Inv /\ [Next]_vars => Inv'  BY NextTyped, NextLock, NextFirst
<1> QED BY <1>1, <1>2, PTL DEF Spec

-----------------------------------------------------------------------------
(* A browser comes from a job of a holder of the lock.                     *)

NoOpenIsPut == \A t \in Threads : ByLock(t) => ~Put(t)

LEMMA JobsOf ==
  ASSUME Typed PROVE \A i \in DOMAIN jobs : jobs[i] \in Jobs
BY SeqElement DEF Typed, TypeOK

LEMMA IdleKept ==
  ASSUME Typed, Lock, Idle, [Next]_vars, NoOpenIsPut
  PROVE  Idle'
<1> USE RuntimeAssumption DEF runtimeVars, workerVars, Idle, Opens
<1>1. ASSUME jobs' = jobs, serving' = serving, browser' = browser PROVE Idle'
  BY <1>1
<1>2. ASSUME NEW t \in Threads, NEW k \in {"observe", "close"}, PutJob(t, k),
             serving' = serving, browser' = browser
      PROVE Idle'
  <2>1. /\ jobs \in Seq(Jobs) /\ [from |-> t, kind |-> k] \in Jobs
        /\ jobs' = Append(jobs, [from |-> t, kind |-> k])
    BY <1>2 DEF PutJob, Typed, TypeOK, Jobs, JobKinds
  <2>2. /\ DOMAIN jobs' = 1 .. Len(jobs) + 1
        /\ \A i \in DOMAIN jobs' : i \in DOMAIN jobs \/ i = Len(jobs) + 1
        /\ \A i \in DOMAIN jobs : jobs'[i] = jobs[i]
        /\ jobs'[Len(jobs) + 1] = [from |-> t, kind |-> k]
    <3> HIDE DEF Jobs
    <3> QED BY <2>1
  <2> QED BY <1>2, <2>2
<1>3. ASSUME NEW t \in Threads, Abandon(t), browser' = browser PROVE Idle'
  BY <1>3, JobsOf DEF Abandon, Orphan, Jobs, Typed, TypeOK
<1>4. ASSUME NEW t \in Threads, Step(t) PROVE Idle'
  <2>1. CASE Put(t)
    <3>1. Head(todo[t]) = "observe"
      <4>1. pc[t] = "put" /\ ~ByLock(t)
        BY <2>1 DEF NoOpenIsPut, Put
      <4>2. todo[t] # <<>> /\ todo[t] \in {<<>>, <<"observe">>}
        BY <4>1 DEF Lock, Locking, Typed, TodoSet
      <4> QED BY <4>2
    <3> QED BY <2>1, <3>1, <1>2 DEF Put
  <2>2. CASE PutClose(t)  BY <2>2, <1>2 DEF PutClose
  <2>3. CASE TimesOut(t) \/ CloseTimesOut(t)  BY <2>3, <1>3 DEF TimesOut, CloseTimesOut
  <2> QED BY <1>4, <1>1, <2>1, <2>2, <2>3 DEF Step, Call, Crash, Close, TakeLock, Finish,
        CallRefused, CheckThread, RowStarting, Spawn, RowRunning, Answered, AlreadyRecorded,
        WriteCrashed, NotifyCrashed, RelockForClose, Finalize, CloseAgain, BeginClose,
        CloseAnswered, SetClosed, RecordClosed, NotifyClosed
<1>5. ASSUME NEW w \in Workers, TakeJob(w) PROVE Idle'
  <2>1. jobs \in Seq(Jobs) /\ jobs # <<>>
    BY <1>5 DEF TakeJob, Typed, TypeOK
  <2>2. /\ 1 \in DOMAIN jobs /\ Head(jobs) = jobs[1]
        /\ \A i \in DOMAIN Tail(jobs) : i + 1 \in DOMAIN jobs /\ Tail(jobs)[i] = jobs[i + 1]
    BY <2>1
  <2> QED BY <1>5, <2>2 DEF TakeJob, Typed, TypeOK
<1>6. ASSUME NEW w \in Workers, ServeOpen(w) \/ ServeObserve(w) \/ ServeClose(w) PROVE Idle'
  <2>1. ~ServeOpen(w)
    BY DEF ServeOpen
  <2>2. \A v \in Workers : serving'[v] # None => serving'[v] = serving[v]
    BY <1>6, <2>1 DEF ServeObserve, ServeClose, Reply, Typed, TypeOK
  <2>3. \A v \in Workers : browser'[v] = "none"
    BY <1>6, <2>1 DEF ServeObserve, ServeClose, Typed, TypeOK
  <2>4. jobs' = jobs
    BY <1>6, <2>1 DEF ServeObserve, ServeClose
  <2> QED BY <2>2, <2>3, <2>4
<1>7. ASSUME NEW t \in Threads, NEW k \in AllKinds, Start(t, k) PROVE Idle'
  BY <1>1, <1>7 DEF Start
<1>8. ASSUME NEW w \in Workers, BrowserExits(w) PROVE Idle'
  BY <1>8 DEF BrowserExits, Running
<1>9. CASE UNCHANGED vars  BY <1>1, <1>9 DEF vars
<1> QED BY <1>4, <1>5, <1>6, <1>7, <1>8, <1>9 DEF Next, Work

(* Without a browser there is nothing to crash.                            *)
LEMMA NoCrashKept ==
  ASSUME Typed, Idle, NoCrash, [Next]_vars
  PROVE  NoCrash'
<1> USE RuntimeAssumption DEF Goto, NoCrash, Idle, Opens, runtimeVars, workerVars, localVars, Typed, TypeOK, TodoSet,
        Labels, Lifecycles, Answers, Jobs, JobKinds, AllKinds, Browsers, Running, Terminal
<1>1. ASSUME NEW t \in Threads, Call(t) PROVE NoCrash'
  <2>1. CASE TakeLock(t)  BY <2>1 DEF TakeLock
  <2>2. CASE Finish(t)  BY <2>2 DEF Finish
  <2>3. CASE CallRefused(t)  BY <2>3 DEF CallRefused
  <2>4. CASE CheckThread(t)  BY <2>4 DEF CheckThread, HasThread
  <2>5. CASE RowStarting(t)  BY <2>5 DEF RowStarting
  <2>6. CASE Spawn(t)  BY <2>6 DEF Spawn
  <2>7. CASE RowRunning(t)  BY <2>7 DEF RowRunning
  <2>8. CASE Put(t)  BY <2>8 DEF Put, PutJob
  <2>9. CASE Answered(t)  BY <2>9 DEF Answered
  <2>10. CASE TimesOut(t)  BY <2>10 DEF TimesOut, Abandon, Orphan
  <2> QED BY <1>1, <2>1, <2>2, <2>3, <2>4, <2>5, <2>6, <2>7, <2>8, <2>9, <2>10 DEF Call
<1>2. ASSUME NEW t \in Threads, Crash(t) PROVE NoCrash'
  <2>1. CASE AlreadyRecorded(t)  BY <2>1 DEF AlreadyRecorded
  <2>2. CASE WriteCrashed(t)  BY <2>2 DEF WriteCrashed
  <2>3. CASE NotifyCrashed(t)  BY <2>3 DEF NotifyCrashed
  <2>4. CASE RelockForClose(t)  BY <2>4 DEF RelockForClose
  <2>5. CASE Finalize(t)  BY <2>5 DEF Finalize
  <2> QED BY <1>2, <2>1, <2>2, <2>3, <2>4, <2>5 DEF Crash
<1>3. ASSUME NEW t \in Threads, Close(t) PROVE NoCrash'
  <2>1. CASE CloseAgain(t)  BY <2>1 DEF CloseAgain
  <2>2. CASE BeginClose(t)  BY <2>2 DEF BeginClose
  <2>3. CASE PutClose(t)  BY <2>3 DEF PutClose, PutJob
  <2>4. CASE CloseAnswered(t)  BY <2>4 DEF CloseAnswered
  <2>5. CASE CloseTimesOut(t)  BY <2>5 DEF CloseTimesOut, Abandon, Orphan
  <2>6. CASE SetClosed(t)  BY <2>6 DEF SetClosed
  <2>7. CASE RecordClosed(t)  BY <2>7 DEF RecordClosed
  <2>8. CASE NotifyClosed(t)  BY <2>8 DEF NotifyClosed
  <2> QED BY <1>3, <2>1, <2>2, <2>3, <2>4, <2>5, <2>6, <2>7, <2>8 DEF Close
<1>4. ASSUME NEW w \in Workers, Work(w) PROVE NoCrash'
  <2>1. CASE TakeJob(w)  BY <2>1 DEF TakeJob
  <2>2. CASE ServeOpen(w)  BY <2>2 DEF ServeOpen, Reply
  <2>3. CASE ServeObserve(w)  BY <2>3 DEF ServeObserve, Reply
  <2>4. CASE ServeClose(w)  BY <2>4 DEF ServeClose, Reply
  <2> QED BY <1>4, <2>1, <2>2, <2>3, <2>4 DEF Work
<1>5. ASSUME NEW t \in Threads, NEW k \in AllKinds, Start(t, k) PROVE NoCrash'
  BY <1>5 DEF Start, Locked, HasThread, Script
<1>6. ASSUME NEW w \in Workers, BrowserExits(w) PROVE NoCrash'
  BY <1>6 DEF BrowserExits
<1>7. CASE UNCHANGED vars  BY <1>7 DEF vars
<1> QED BY <1>1, <1>2, <1>3, <1>4, <1>5, <1>6, <1>7 DEF Next, Step

LEMMA InitFresh == ASSUME Init PROVE FreshStart
BY DEF Init, FreshStart

LEMMA NextFresh ==
  ASSUME Typed, Lock, FreshStart, [Next]_vars
  PROVE  FreshStart'
<1> DEFINE Starts(t) == pc[t] \in {"starting", "spawn", "running"} /\ ByLock(t)
<1>1. ASSUME NEW t \in Threads, Starts(t), Starts(t)' PROVE (row \notin Terminal /\ Idle /\ NoCrash)'
  <2>1. lock = t /\ ~closed /\ row \notin Terminal /\ Idle /\ NoCrash
    BY <1>1 DEF FreshStart, Lock, Locking, ByLock
  <2>2. NoOpenIsPut
    BY <2>1, <1>1, RuntimeAssumption DEF NoOpenIsPut, Put, Lock, Locking, ByLock
  <2>3. Idle' /\ NoCrash'
    BY <2>1, <2>2, IdleKept, NoCrashKept
  <2>4. row' \notin Terminal
    <3>1. \A u \in Threads : pc[u] \notin {"write", "finalize", "crow", "cnotify"}
      BY <2>1 DEF NoCrash, Lock, TerminalHasCause
    <3> QED BY <2>1, <3>1 DEF Next, Step, Call, Crash, Close, Work, TakeLock, Finish,
        CallRefused, CheckThread, RowStarting, Spawn, RowRunning, Put, Answered, TimesOut,
        AlreadyRecorded, WriteCrashed, NotifyCrashed, RelockForClose, Finalize, CloseAgain,
        BeginClose, PutClose, CloseAnswered, CloseTimesOut, SetClosed, RecordClosed,
        NotifyClosed, Start, TakeJob, ServeOpen, ServeObserve, ServeClose, BrowserExits,
        vars, Terminal
  <2> QED BY <2>3, <2>4
<1>2. ASSUME NEW t \in Threads, ~Starts(t), Starts(t)' PROVE (row \notin Terminal /\ Idle /\ NoCrash)'
  <2>1. CheckThread(t) /\ slot = None
    <3> USE RuntimeAssumption DEF Goto, ByLock, localVars, Typed, TypeOK
    <3>1. ASSUME NEW u \in Threads, Call(u), u # t \/ ~CheckThread(t) PROVE FALSE
      BY <1>2, <3>1 DEF Call, TakeLock, Finish, CallRefused, CheckThread, RowStarting, Spawn,
         RowRunning, Put, Answered, TimesOut
    <3>2. ASSUME NEW u \in Threads, Crash(u) \/ Close(u) PROVE FALSE
      BY <1>2, <3>2 DEF Crash, Close, AlreadyRecorded, WriteCrashed, NotifyCrashed,
         RelockForClose, Finalize, CloseAgain, BeginClose, PutClose, CloseAnswered,
         CloseTimesOut, SetClosed, RecordClosed, NotifyClosed
    <3>3. ASSUME NEW w \in Workers, Work(w) \/ BrowserExits(w) PROVE FALSE
      BY <1>2, <3>3 DEF Work, TakeJob, ServeOpen, ServeObserve, ServeClose, BrowserExits
    <3>4. ASSUME NEW u \in Threads, NEW k \in AllKinds, Start(u, k) PROVE FALSE
      BY <1>2, <3>4 DEF Start
    <3>5. ~UNCHANGED vars
      BY <1>2 DEF vars
    <3>6. CheckThread(t)
      BY <3>1, <3>2, <3>3, <3>4, <3>5 DEF Next, Step
    <3> QED BY <1>2, <3>6 DEF CheckThread, HasThread
  <2>2. /\ row \notin Terminal
        /\ Idle
        /\ NoCrash
    <3>1. row \notin Terminal  BY <2>1 DEF CheckThread, Lock, TerminalHasCause
    <3>2. Idle  BY <2>1, RuntimeAssumption DEF Lock, SlotSet, Idle
    <3>3. NoCrash  BY <2>1, RuntimeAssumption DEF Lock, SlotSet, NoCrash, Answers
    <3> QED BY <3>1, <3>2, <3>3
  <2>3. NoOpenIsPut
    BY <2>1 DEF NoOpenIsPut, Put, Lock, SlotSet
  <2> QED BY <2>1, <2>2, <2>3, IdleKept, NoCrashKept DEF CheckThread
<1> QED BY <1>1, <1>2 DEF FreshStart

(* OnlyTheObserver: a Session whose row is closed or crashed is started    *)
(* again, or marked as running, only by a call that does not hold the web  *)
(* lock and found no worker before.                                        *)
THEOREM OnlyTheObserver == Spec => OnlyObserveResumes
<1> DEFINE Resumes == row \in Terminal /\ row' \in {"starting", "running"}
           ByObserver == \E t \in Threads : kind[t] = "observe" /\ pc'[t] # pc[t]
           Inv == Typed /\ Lock /\ FreshStart
<1>1. ASSUME Inv, [Next]_vars PROVE Resumes => ByObserver
  <2> SUFFICES ASSUME Resumes PROVE ByObserver
    OBVIOUS
  <2>1. PICK t \in Threads : RowStarting(t) \/ RowRunning(t)
    BY <1>1 DEF Next, Step, Call, Crash, Close, Work, TakeLock, Finish, CallRefused, CheckThread,
       RowStarting, Spawn, RowRunning, Put, Answered, TimesOut, AlreadyRecorded, WriteCrashed,
       NotifyCrashed, RelockForClose, Finalize, CloseAgain, BeginClose, PutClose, CloseAnswered,
       CloseTimesOut, SetClosed, RecordClosed, NotifyClosed, Start, TakeJob, ServeOpen,
       ServeObserve, ServeClose, BrowserExits, vars, Terminal, runtimeVars
  <2>2. pc[t] \in {"starting", "running"} /\ ~ByLock(t)
    BY <1>1, <2>1 DEF RowStarting, RowRunning, FreshStart
  <2>3. kind[t] = "observe"
    BY <1>1, <2>2 DEF Lock, Locking
  <2>4. pc'[t] # pc[t]
    BY <1>1, <2>1 DEF RowStarting, RowRunning, Goto, Typed, TypeOK
  <2> QED BY <2>3, <2>4
<1>2. Inv /\ [Next]_vars => [Resumes => ByObserver]_vars
  BY <1>1
<1>3. Init => Inv  BY InitTyped, InitLock, InitFresh
<1>4. Inv /\ [Next]_vars => Inv'  BY NextTyped, NextLock, NextFresh
<1> QED BY <1>2, <1>3, <1>4, PTL DEF Spec, OnlyObserveResumes

-----------------------------------------------------------------------------
(* Callers and their jobs.                                                 *)

(* Awaited after the step.                                                 *)
AwaitedNext(j) ==
  j.from # None =>
    /\ pc'[j.from] \in {"wait", "cwait"}
    /\ answer'[j.from] = None
    /\ pc'[j.from] = "cwait" => j.kind = "close"

LEMMA AskedNext ==
  ASSUME \A i \in DOMAIN jobs' : AwaitedNext(jobs'[i]),
         \A w \in Workers : serving'[w] # None => AwaitedNext(serving'[w]),
         \A i, j \in DOMAIN jobs' : SameCaller(jobs'[i], jobs'[j]) => i = j,
         \A w \in Workers, i \in DOMAIN jobs' :
           serving'[w] # None => ~SameCaller(serving'[w], jobs'[i]),
         \A v, w \in Workers :
           serving'[v] # None /\ serving'[w] # None /\ SameCaller(serving'[v], serving'[w]) => v = w
  PROVE  Asked'
BY DEF Asked, Awaited, AwaitedNext, SameCaller

(* A step of a thread that asks for nothing keeps what is asked.           *)
LEMMA AskedOn ==
  ASSUME Typed, Asked, NEW t \in Threads,
         pc[t] \notin {"wait", "cwait"} \/ answer[t] # None,
         \A u \in Threads \ {t} : pc'[u] = pc[u] /\ answer'[u] = answer[u],
         jobs' = jobs, serving' = serving
  PROVE  Asked'
<1>1. \A i \in DOMAIN jobs : jobs[i] \in Jobs
  BY SeqElement DEF Typed, TypeOK
<1>2. \A w \in Workers : serving[w] # None => serving[w] \in Jobs
  BY DEF Typed, TypeOK
<1>3. \A j \in Jobs : Awaited(j) => AwaitedNext(j)
  BY DEF Awaited, AwaitedNext, Jobs
<1> QED BY <1>1, <1>2, <1>3, AskedNext DEF Asked

(* A job that is put is awaited by the one who puts it.                    *)
LEMMA AskedPut ==
  ASSUME Typed, Asked, NEW t \in Threads, NEW k \in JobKinds,
         pc[t] \notin {"wait", "cwait"}, PutJob(t, k), serving' = serving,
         (k = "close" /\ Goto(t, "cwait")) \/ Goto(t, "wait")
  PROVE  Asked'
<1> DEFINE job == [from |-> t, kind |-> k]
<1>0. pc' = [pc EXCEPT ![t] = "wait"] \/ (k = "close" /\ pc' = [pc EXCEPT ![t] = "cwait"])
  BY DEF Goto
<1>1. \A i \in DOMAIN jobs : jobs[i] \in Jobs /\ jobs[i].from # t
  <2> TAKE i \in DOMAIN jobs
  <2>1. jobs[i] \in Jobs  BY SeqElement DEF Typed, TypeOK
  <2>2. Awaited(jobs[i])  BY DEF Asked
  <2> QED BY <2>1, <2>2, RuntimeAssumption DEF Awaited
<1>2. \A w \in Workers : serving[w] # None => serving[w] \in Jobs /\ serving[w].from # t
  <2> TAKE w \in Workers
  <2>1. serving[w] # None => serving[w] \in Jobs  BY DEF Typed, TypeOK
  <2>2. serving[w] # None => Awaited(serving[w])  BY DEF Asked
  <2> QED BY <2>1, <2>2, RuntimeAssumption DEF Awaited
<1>3. \A j \in Jobs : j.from # t /\ Awaited(j) => AwaitedNext(j)
  BY <1>0 DEF Awaited, AwaitedNext, Jobs, Typed, TypeOK, PutJob
<1>4. AwaitedNext(job)
  BY <1>0, RuntimeAssumption DEF AwaitedNext, Typed, TypeOK, PutJob, Labels
<1>5. /\ jobs \in Seq(Jobs)
      /\ jobs' = Append(jobs, job)
  BY DEF PutJob, Typed, TypeOK
<1>6. /\ DOMAIN jobs' = 1 .. Len(jobs) + 1
      /\ DOMAIN jobs = 1 .. Len(jobs)
      /\ \A i \in DOMAIN jobs : jobs'[i] = jobs[i]
      /\ jobs'[Len(jobs) + 1] = job
      /\ Len(jobs) \in Nat
  <2> HIDE DEF job
  <2> QED BY <1>5
<1>7. \A i \in DOMAIN jobs' : i \in DOMAIN jobs \/ i = Len(jobs) + 1
  <2> HIDE DEF job
  <2> QED BY <1>6
<1>8. job.from = t  OBVIOUS
<1> HIDE DEF job
<1>9. \A i \in DOMAIN jobs' : AwaitedNext(jobs'[i])
  BY <1>1, <1>3, <1>4, <1>6, <1>7 DEF Asked
<1>10. \A w \in Workers : serving'[w] # None => AwaitedNext(serving'[w])
  BY <1>2, <1>3 DEF Asked
<1>11. \A i, j \in DOMAIN jobs' : SameCaller(jobs'[i], jobs'[j]) => i = j
  BY <1>1, <1>6, <1>7, <1>8 DEF Asked, SameCaller
<1>12. \A w \in Workers, i \in DOMAIN jobs' :
         serving'[w] # None => ~SameCaller(serving'[w], jobs'[i])
  BY <1>1, <1>2, <1>6, <1>7, <1>8 DEF Asked, SameCaller
<1>13. \A v, w \in Workers :
         serving'[v] # None /\ serving'[w] # None /\ SameCaller(serving'[v], serving'[w]) => v = w
  BY DEF Asked
<1> QED BY <1>9, <1>10, <1>11, <1>12, <1>13, AskedNext

(* A caller that gives up leaves jobs that nobody awaits.                  *)
LEMMA AskedAbandon ==
  ASSUME Typed, Asked, NEW t \in Threads, Abandon(t), answer' = answer,
         \A u \in Threads \ {t} : pc'[u] = pc[u]
  PROVE  Asked'
<1>1. \A i \in DOMAIN jobs : jobs[i] \in Jobs
  BY SeqElement DEF Typed, TypeOK
<1>2. \A w \in Workers : serving[w] # None => serving[w] \in Jobs
  BY DEF Typed, TypeOK
<1>3. \A j \in Jobs : /\ Orphan(j, t).from \in {None, j.from} \ {t}
                      /\ Orphan(j, t).kind = j.kind
                      /\ Orphan(j, t) \in Jobs
  BY RuntimeAssumption DEF Orphan, Jobs
<1>4. \A j \in Jobs : Awaited(j) => AwaitedNext(Orphan(j, t))
  <2> TAKE j \in Jobs
  <2> DEFINE o == Orphan(j, t)
  <2>1. o.from \in {None, j.from} \ {t} /\ o.kind = j.kind /\ o \in Jobs  BY <1>3
  <2> HIDE DEF o
  <2>3. o.from # None => o.from \in Threads \ {t}  BY <2>1 DEF Jobs
  <2>4. Awaited(j) => AwaitedNext(o)
    BY <2>1, <2>3 DEF Awaited, AwaitedNext
  <2> QED BY <2>4 DEF o
<1>5. /\ jobs' = [i \in DOMAIN jobs |-> Orphan(jobs[i], t)]
      /\ serving' = [w \in Workers |->
                       IF serving[w] = None THEN None ELSE Orphan(serving[w], t)]
  BY DEF Abandon
<1>6. \A w \in Workers : serving'[w] # None => serving[w] # None /\ serving'[w] = Orphan(serving[w], t)
  BY <1>5
<1>7. DOMAIN jobs' = DOMAIN jobs /\ \A i \in DOMAIN jobs : jobs'[i] = Orphan(jobs[i], t)
  BY <1>5
<1>8. \A i, j \in Jobs : SameCaller(Orphan(i, t), Orphan(j, t)) => SameCaller(i, j)
  BY <1>3 DEF SameCaller
<1>9. \A i \in DOMAIN jobs' : AwaitedNext(jobs'[i])
  BY <1>1, <1>4, <1>7 DEF Asked, Awaited, AwaitedNext
<1>10. \A w \in Workers : serving'[w] # None => AwaitedNext(serving'[w])
  BY <1>2, <1>4, <1>6 DEF Asked, Awaited, AwaitedNext
<1>11. \A i, j \in DOMAIN jobs' : SameCaller(jobs'[i], jobs'[j]) => i = j
  BY <1>1, <1>7, <1>8 DEF Asked
<1>12. \A w \in Workers, i \in DOMAIN jobs' :
         serving'[w] # None => ~SameCaller(serving'[w], jobs'[i])
  BY <1>1, <1>2, <1>6, <1>7, <1>8 DEF Asked
<1>13. \A v, w \in Workers :
         serving'[v] # None /\ serving'[w] # None /\ SameCaller(serving'[v], serving'[w]) => v = w
  BY <1>2, <1>6, <1>8 DEF Asked
<1> QED BY <1>9, <1>10, <1>11, <1>12, <1>13, AskedNext

LEMMA AskedTake ==
  ASSUME Typed, Asked, NEW w \in Workers, TakeJob(w)
  PROVE  Asked'
<1>1. /\ jobs \in Seq(Jobs) /\ jobs # <<>> /\ jobs' = Tail(jobs)
      /\ serving' = [serving EXCEPT ![w] = Head(jobs)]
      /\ serving \in [Workers -> Jobs \cup {None}]
      /\ pc' = pc /\ answer' = answer
  BY DEF TakeJob, localVars, Typed, TypeOK
<1>2. /\ 1 \in DOMAIN jobs /\ Head(jobs) = jobs[1]
      /\ \A i \in DOMAIN jobs' : i + 1 \in DOMAIN jobs /\ jobs'[i] = jobs[i + 1] /\ i + 1 # 1 /\ i \in Nat
  BY <1>1
<1>3. /\ serving'[w] = jobs[1]
      /\ \A v \in Workers \ {w} : serving'[v] = serving[v]
  BY <1>1, <1>2
<1>4. \A j : Awaited(j) => AwaitedNext(j)
  BY <1>1 DEF Awaited, AwaitedNext
<1>5. \A i \in DOMAIN jobs' : AwaitedNext(jobs'[i])
  BY <1>2, <1>4 DEF Asked
<1>6. \A v \in Workers : serving'[v] # None => AwaitedNext(serving'[v])
  BY <1>2, <1>3, <1>4 DEF Asked
<1>7. \A i, j \in DOMAIN jobs' : SameCaller(jobs'[i], jobs'[j]) => i = j
  <2> TAKE i, j \in DOMAIN jobs'
  <2>1. SameCaller(jobs[i + 1], jobs[j + 1]) => i + 1 = j + 1
    BY <1>2 DEF Asked
  <2> QED BY <1>2, <2>1
<1>8. \A v \in Workers, i \in DOMAIN jobs' :
         serving'[v] # None => ~SameCaller(serving'[v], jobs'[i])
  <2> TAKE v \in Workers, i \in DOMAIN jobs'
  <2>1. SameCaller(jobs[1], jobs[i + 1]) => 1 = i + 1
    BY <1>2 DEF Asked
  <2>2. serving[v] # None => ~SameCaller(serving[v], jobs[i + 1])
    BY <1>2 DEF Asked
  <2> QED BY <1>2, <1>3, <2>1, <2>2
<1>9. \A v \in Workers : serving[v] # None => ~SameCaller(serving[v], jobs[1])
  BY <1>2 DEF Asked
<1>10. \A u, v \in Workers :
         serving'[u] # None /\ serving'[v] # None /\ SameCaller(serving'[u], serving'[v]) => u = v
  BY <1>3, <1>9 DEF Asked, SameCaller
<1> QED BY <1>5, <1>6, <1>7, <1>8, <1>10, AskedNext

LEMMA AskedReply ==
  ASSUME Typed, Asked, NEW w \in Workers, NEW a, Reply(w, a),
         serving[w] # None, pc' = pc, jobs' = jobs
  PROVE  Asked'
<1> DEFINE t == serving[w].from
<1>1. \A j : SameCaller(j, serving[w]) <=> j.from = t /\ t # None
  BY DEF SameCaller
<1>2. /\ serving'[w] = None
      /\ \A v \in Workers \ {w} : serving'[v] = serving[v]
  BY DEF Reply, Typed, TypeOK
<1>3. /\ \A i \in DOMAIN jobs : jobs[i] \in Jobs
      /\ \A v \in Workers : serving[v] # None => serving[v] \in Jobs
  BY SeqElement DEF Typed, TypeOK
<1>4. answer' = IF t = None THEN answer ELSE [answer EXCEPT ![t] = a]
  BY DEF Reply
<1>5. /\ \A i \in DOMAIN jobs : jobs[i].from = None \/ jobs[i].from # t
      /\ \A v \in Workers \ {w} : serving[v] # None => serving[v].from = None \/ serving[v].from # t
  BY DEF Asked, SameCaller
<1>7. t = None \/ t \in Threads
  BY <1>3 DEF Jobs
<1> HIDE DEF t
<1>8. \A u \in Threads : u # t => answer'[u] = answer[u]
  BY <1>4, <1>7 DEF Typed, TypeOK
<1>9. \A j \in Jobs : Awaited(j) /\ (j.from = None \/ j.from # t) => AwaitedNext(j)
  BY <1>8 DEF Awaited, AwaitedNext, Jobs
<1>10. \A i \in DOMAIN jobs' : AwaitedNext(jobs'[i])
  BY <1>3, <1>5, <1>9 DEF Asked
<1>11. \A v \in Workers : serving'[v] # None => AwaitedNext(serving'[v])
  BY <1>2, <1>3, <1>5, <1>9 DEF Asked
<1>12. \A v \in Workers, i \in DOMAIN jobs' :
         serving'[v] # None => ~SameCaller(serving'[v], jobs'[i])
  BY <1>2 DEF Asked
<1>13. \A u, v \in Workers :
         serving'[u] # None /\ serving'[v] # None /\ SameCaller(serving'[u], serving'[v]) => u = v
  BY <1>2 DEF Asked
<1>14. \A i, j \in DOMAIN jobs' : SameCaller(jobs'[i], jobs'[j]) => i = j
  BY DEF Asked
<1> QED BY <1>10, <1>11, <1>12, <1>13, <1>14, AskedNext

LEMMA NextAsked ==
  ASSUME Typed, Asked, [Next]_vars
  PROVE  Asked'
<1> USE DEF runtimeVars, workerVars, localVars
<1>1. ASSUME NEW t \in Threads, Step(t) PROVE Asked'
  <2>1. CASE Put(t)
    <3>1. Head(todo[t]) \in JobKinds
      BY <2>1, HeadTail DEF Put, Typed, TypeOK, TodoSet
    <3> QED BY <2>1, <3>1, AskedPut DEF Put
  <2>2. CASE PutClose(t)
    BY <2>2, AskedPut DEF PutClose, JobKinds
  <2>3. CASE TimesOut(t)
    <3>1. \A u \in Threads \ {t} : pc'[u] = pc[u]
      BY <2>3 DEF TimesOut, Goto, Typed, TypeOK
    <3> QED BY <2>3, <3>1, AskedAbandon DEF TimesOut
  <2>4. CASE CloseTimesOut(t)
    <3>1. \A u \in Threads \ {t} : pc'[u] = pc[u]
      BY <2>4 DEF CloseTimesOut, Goto, Typed, TypeOK
    <3> QED BY <2>4, <3>1, AskedAbandon DEF CloseTimesOut
  <2>5. ASSUME ~Put(t), ~PutClose(t), ~TimesOut(t), ~CloseTimesOut(t) PROVE Asked'
    <3>1. /\ pc[t] \notin {"wait", "cwait"} \/ answer[t] # None
          /\ jobs' = jobs /\ serving' = serving
      BY <1>1, <2>5 DEF Step, Call, Crash, Close, TakeLock, Finish, CallRefused,
         CheckThread, RowStarting, Spawn, RowRunning, Answered, AlreadyRecorded,
         WriteCrashed, NotifyCrashed, RelockForClose, Finalize, CloseAgain, BeginClose,
         CloseAnswered, SetClosed, RecordClosed, NotifyClosed
    <3>2. \A u \in Threads \ {t} : pc'[u] = pc[u] /\ answer'[u] = answer[u]
      BY <1>1, <2>5 DEF Step, Call, Crash, Close, TakeLock, Finish, CallRefused,
         CheckThread, RowStarting, Spawn, RowRunning, Answered, AlreadyRecorded,
         WriteCrashed, NotifyCrashed, RelockForClose, Finalize, CloseAgain, BeginClose,
         CloseAnswered, SetClosed, RecordClosed, NotifyClosed, Goto, Typed, TypeOK
    <3> QED BY <3>1, <3>2, AskedOn
  <2> QED BY <2>1, <2>2, <2>3, <2>4, <2>5
<1>2. ASSUME NEW w \in Workers, TakeJob(w) PROVE Asked'
  BY <1>2, AskedTake
<1>3. ASSUME NEW w \in Workers, ServeOpen(w) \/ ServeObserve(w) \/ ServeClose(w) PROVE Asked'
  <2>1. PICK a : Reply(w, a)
    BY <1>3 DEF ServeOpen, ServeObserve, ServeClose
  <2>2. serving[w] # None /\ pc' = pc /\ jobs' = jobs
    BY <1>3 DEF ServeOpen, ServeObserve, ServeClose
  <2> QED BY <2>1, <2>2, AskedReply
<1>4. ASSUME NEW t \in Threads, NEW k \in AllKinds, Start(t, k) PROVE Asked'
  <2>1. \A u \in Threads \ {t} : pc'[u] = pc[u]
    BY <1>4 DEF Start, Goto, Typed, TypeOK
  <2> QED BY <1>4, <2>1, AskedOn DEF Start
<1>5. CASE UNCHANGED <<jobs, serving, pc, answer>>
  BY <1>5 DEF Asked, Awaited, SameCaller
<1>6. ASSUME NEW w \in Workers, BrowserExits(w) PROVE Asked'
  BY <1>5, <1>6 DEF BrowserExits
<1>7. CASE UNCHANGED vars  BY <1>5, <1>7 DEF vars
<1> QED BY <1>1, <1>2, <1>3, <1>4, <1>6, <1>7 DEF Next, Work

-----------------------------------------------------------------------------
(* A closed row is true.                                                   *)

LEMMA InitStopped == ASSUME Init PROVE Asked /\ Stopped
<1>1. Asked  BY DEF Init, Asked
<1>2. Stopped  BY DEF Init, Stopped
<1> QED BY <1>1, <1>2

(* A worker that is gone takes no job any more.                            *)
LEMMA HasStoppedKept ==
  ASSUME Typed, SlotSet, HasStopped, [Next]_vars
  PROVE  HasStopped'
<1> USE DEF runtimeVars, workerVars, HasStopped
<1>0. PICK v \in Workers : worker[v] = "gone" /\ browser[v] \notin Running
  OBVIOUS
<1>1. ASSUME NEW t \in Threads, Step(t) PROVE HasStopped'
  <2>1. CASE Spawn(t)
    <3>1. worker'[v] = "gone" /\ browser' = browser
      BY <2>1, <1>0 DEF Spawn, Typed, TypeOK
    <3> QED BY <1>0, <3>1
  <2> QED BY <1>1, <2>1 DEF Step, Call, Crash, Close, TakeLock, Finish, CallRefused, CheckThread, RowStarting, Spawn,
     RowRunning, Put, Answered, TimesOut, AlreadyRecorded, WriteCrashed, NotifyCrashed,
     RelockForClose, Finalize, CloseAgain, BeginClose, PutClose, CloseAnswered,
     CloseTimesOut, SetClosed, RecordClosed, NotifyClosed
<1>2. ASSUME NEW w \in Workers, Work(w) \/ BrowserExits(w) PROVE HasStopped'
  <2>1. w # v \/ serving[w] = None
    BY <1>0 DEF SlotSet
  <2>2. worker'[v] = "gone" /\ browser'[v] \notin Running
    BY <1>0, <1>2, <2>1 DEF Work, TakeJob, ServeOpen, ServeObserve, ServeClose, BrowserExits,
       Typed, TypeOK, Running
  <2> QED BY <2>2
<1>3. ASSUME NEW t \in Threads, NEW k \in AllKinds, Start(t, k) PROVE HasStopped'
  BY <1>3 DEF Start
<1>4. CASE UNCHANGED vars  BY <1>4 DEF vars
<1> QED BY <1>1, <1>2, <1>3, <1>4 DEF Next

(* Once close() is past its wait, or has ended, nobody asks for a browser. *)
LEMMA EndedKept ==
  ASSUME Typed, Lock, Ended, [Next]_vars,
         closed \/ \E t \in Threads : pc[t] \in {"cset", "crow"}
  PROVE  Ended'
<1>1. NoOpenIsPut
  BY RuntimeAssumption DEF NoOpenIsPut, Put, Lock, Locking, ByLock
<1> QED BY <1>1, HasStoppedKept, IdleKept DEF Ended, Lock

LEMMA NextStopped ==
  ASSUME Typed, Lock, Asked, Stopped, [Next]_vars
  PROVE  Stopped'
<1> USE RuntimeAssumption DEF runtimeVars, workerVars, localVars
<1>1. HasStopped => HasStopped'  BY HasStoppedKept DEF Lock
<1>2. row = "closed" => closed /\ Ended'
  BY EndedKept DEF Stopped
<1>3. \A t \in Threads : pc[t] \in {"cset", "crow"} /\ ~failed[t] => Ended'
  BY EndedKept DEF Stopped
<1> USE DEF Stopped
<1>4. ASSUME NEW t \in Threads, Call(t) PROVE Stopped'
  <2>1. \A u \in Threads : pc'[u] \in {"cwait", "cset", "crow"} =>
          pc[u] = pc'[u] /\ u # t
    BY <1>4 DEF Call, TakeLock, Finish, CallRefused, CheckThread, RowStarting, Spawn,
       RowRunning, Put, Answered, TimesOut, Goto, Typed, TypeOK
  <2>2. /\ closed' = closed
        /\ row' # "closed" \/ row' = row
        /\ \A u \in Threads \ {t} : answer'[u] = answer[u] /\ failed'[u] = failed[u]
    BY <1>4 DEF Call, TakeLock, Finish, CallRefused, CheckThread, RowStarting, Spawn,
       RowRunning, Put, PutJob, Answered, TimesOut, Typed, TypeOK
  <2> QED BY <1>1, <1>2, <1>3, <2>1, <2>2
<1>5. ASSUME NEW t \in Threads, Crash(t) PROVE Stopped'
  <2>1. \A u \in Threads : pc'[u] \in {"cwait", "cset", "crow"} =>
          pc[u] = pc'[u] /\ u # t
    BY <1>5 DEF Crash, AlreadyRecorded, WriteCrashed, NotifyCrashed, RelockForClose,
       Finalize, Goto, Typed, TypeOK
  <2>2. /\ closed' = closed
        /\ row' # "closed" \/ row' = row
        /\ answer' = answer /\ failed' = failed
    BY <1>5 DEF Crash, AlreadyRecorded, WriteCrashed, NotifyCrashed, RelockForClose,
       Finalize
  <2> QED BY <1>1, <1>2, <1>3, <2>1, <2>2
<1>6. ASSUME NEW t \in Threads, Close(t) PROVE Stopped'
  <2> USE DEF Goto, Typed, TypeOK, Labels
  <2>1. CASE CloseAgain(t)  BY <1>1, <1>2, <1>3, <2>1 DEF CloseAgain
  <2>2. CASE BeginClose(t)
    <3>1. Idle => Idle'
      BY <2>2 DEF BeginClose, Idle, Opens
    <3>2. slot = None => Ended'
      BY <3>1 DEF Lock, SlotSet, Ended, Idle
    <3> QED BY <1>1, <1>2, <1>3, <2>2, <3>2 DEF BeginClose
  <2>3. CASE PutClose(t)  BY <1>1, <1>2, <1>3, <2>3 DEF PutClose, PutJob, Answers
  <2>4. CASE CloseAnswered(t)
    <3>1. HasStopped' => Ended'  BY DEF Ended
    <3> QED BY <1>1, <1>2, <1>3, <2>4, <3>1 DEF CloseAnswered
  <2>5. CASE CloseTimesOut(t)  BY <1>1, <1>2, <1>3, <2>5 DEF CloseTimesOut
  <2>6. CASE SetClosed(t)  BY <1>1, <1>2, <1>3, <2>6 DEF SetClosed
  <2>7. CASE RecordClosed(t)
    BY <1>1, <1>2, <1>3, <2>7 DEF RecordClosed, Lock, TerminalHasCause
  <2>8. CASE NotifyClosed(t)  BY <1>1, <1>2, <1>3, <2>8 DEF NotifyClosed
  <2> QED BY <1>6, <2>1, <2>2, <2>3, <2>4, <2>5, <2>6, <2>7, <2>8 DEF Close
<1>7. ASSUME NEW w \in Workers, TakeJob(w) \/ BrowserExits(w) PROVE Stopped'
  BY <1>1, <1>2, <1>3, <1>7 DEF TakeJob, BrowserExits
<1>8. ASSUME NEW w \in Workers, ServeOpen(w) \/ ServeObserve(w) \/ ServeClose(w) PROVE Stopped'
  <2>1. serving[w] \in Jobs /\ Awaited(serving[w])
    BY <1>8 DEF ServeOpen, ServeObserve, ServeClose, Typed, TypeOK, Asked
  <2>2. ASSUME NEW u \in Threads, pc[u] = "cwait", answer'[u] = "ok" PROVE HasStopped'
    <3>1. CASE answer[u] = "ok"  BY <1>1, <2>2, <3>1
    <3>2. CASE answer[u] # "ok"
      <4>1. serving[w].from = u
        BY <1>8, <2>2, <3>2 DEF ServeOpen, ServeObserve, ServeClose, Reply, Typed, TypeOK
      <4>2. serving[w].kind = "close"
        BY <2>1, <2>2, <4>1 DEF Awaited
      <4>3. ServeClose(w)
        BY <1>8, <4>2 DEF ServeOpen, ServeObserve
      <4>4. browser' = [browser EXCEPT ![w] = "none"]
        BY <2>2, <4>1, <4>3 DEF ServeClose, Reply, Typed, TypeOK
      <4>5. worker'[w] = "gone" /\ browser'[w] \notin Running
        BY <4>3, <4>4 DEF ServeClose, Typed, TypeOK, Running
      <4> QED BY <4>5 DEF HasStopped
    <3> QED BY <3>1, <3>2
  <2>3. pc' = pc /\ failed' = failed /\ row' = row /\ closed' = closed
    BY <1>8 DEF ServeOpen, ServeObserve, ServeClose
  <2> QED BY <1>2, <1>3, <2>2, <2>3
<1>9. ASSUME NEW t \in Threads, NEW k \in AllKinds, Start(t, k) PROVE Stopped'
  BY <1>1, <1>2, <1>3, <1>9 DEF Start, Goto, Typed, TypeOK
<1>10. CASE UNCHANGED vars  BY <1>1, <1>2, <1>3, <1>10 DEF vars
<1> QED BY <1>4, <1>5, <1>6, <1>7, <1>8, <1>9, <1>10 DEF Next, Step, Work

(* ClosedIsQuiet: a row that says closed is true, whatever timed out,      *)
(* crashed or failed to stop: no browser of the Session runs, unless it is *)
(* the browser of a worker that the close job did not reach, because       *)
(* another one took it and is gone.                                        *)
THEOREM ClosedIsQuiet == Spec => []ClosedHasNoBrowser
<1> DEFINE Inv == Typed /\ Lock /\ Asked /\ Stopped
<1>1. Init => Inv  BY InitTyped, InitLock, InitStopped
<1>2. Inv /\ [Next]_vars => Inv'
  BY NextTyped, NextLock, NextAsked, NextStopped
<1>3. Inv => ClosedHasNoBrowser
  BY DEF Stopped, Ended, HasStopped, Idle, ClosedHasNoBrowser, Running
<1> QED BY <1>1, <1>2, <1>3, PTL DEF Spec
=============================================================================
