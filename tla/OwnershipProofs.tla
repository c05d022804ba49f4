--------------------------- MODULE OwnershipProofs ---------------------------
(***************************************************************************)
(* Proofs about RuntimeOwnership, for any number of clients and processes. *)
(***************************************************************************)
EXTENDS RuntimeOwnership, TLAPS

(* What a client does under the endpoint's lock, and while it has a child  *)
(* that no metadata names yet.                                             *)
Holding == {"probe", "attach", "spawn", "await", "record", "undo", "release", "kill"}
Starting == {"await", "record", "undo"}

(* A process has a state as soon as somebody has spawned it; one listens.  *)
Born ==
  /\ \A i \in Instances : proc[i].state = "none" <=> proc[i].by = None
  /\ \A i, j \in Serving : i = j

(* The lock is held by the client that is at work under it.                *)
Locked == \A c \in Clients : lock = c <=> client[c].pc \in Holding

(* A client names the child it starts before anybody else can; until it is *)
(* recorded there is no metadata.                                          *)
Handles ==
  \A c \in Clients :
    /\ client[c].pc \in {"idle", "wait", "probe", "spawn"} => client[c].of = 0 /\ ~client[c].lease
    /\ client[c].of # 0 => proc[client[c].of].state # "none"
    /\ client[c].lease => client[c].of # 0
    /\ client[c].pc = "attach" => client[c].of # 0 /\ ~client[c].lease
    /\ client[c].pc \in Starting =>
         /\ client[c].of # 0 /\ ~client[c].lease /\ proc[client[c].of].by = c
         /\ meta.instance = 0
         /\ \A d \in Clients \ {c} : client[d].of # client[c].of

(* The metadata names a Runtime that a client started and that has served; *)
(* every living client that has a lease on it is listed; who is about to   *)
(* kill it is the last one.                                                *)
Listed ==
  /\ meta.instance # 0 => proc[meta.instance].by \in Clients
  /\ \A c \in Clients :
       /\ client[c].lease /\ client[c].pc # "gone" /\ client[c].of = meta.instance => c \in meta.leases
       /\ client[c].pc = "kill" => /\ meta.instance = client[c].of /\ meta.instance # 0
                                   /\ \A d \in meta.leases \ {c} : client[d].pc = "gone"

(* A Runtime is answered by its child only when it serves. A Runtime that  *)
(* lives and was started by a client is in the metadata or in hands; none  *)
(* is when a client has found the endpoint free.                           *)
Excused == stray \cup unheard
Abandoned(i) == i \in Excused \/ proc[i].by \notin Clients \/ proc[i].state \notin {"starting", "serving"}

Owned ==
  /\ meta.instance # 0 => proc[meta.instance].state # "starting"
  /\ \A c \in Clients :
       /\ client[c].pc = "record" => proc[client[c].of].state # "starting"
       /\ client[c].pc = "spawn" => \A i \in Instances : Abandoned(i)
  /\ \A i \in Instances :
       \/ Abandoned(i) \/ meta.instance = i
       \/ \E c \in Clients : client[c].pc \in Starting /\ client[c].of = i

(* Desktop's Runtime is its child, and there is none without one.          *)
Kept ==
  /\ \A i \in exits : proc[i] = [by |-> "desktop", state |-> "dead"]
  /\ \A i \in Instances \ stray : proc[i].by = "desktop" /\ Alive(i) => desk.child = i /\ Open
  /\ desk.child # 0 => proc[desk.child].by = "desktop"
  /\ desk.start = "probe" => desk.child = 0
  /\ desk.stop => desk.stale
  /\ desk.quit = "stopping" => desk.stop
  /\ desk.quit = "quitting" => desk.late \/ (desk.child = 0 /\ desk.stale)
  /\ desk.halting # 0 => desk.stop \/ desk.start = "failing"
  /\ desk.child # 0 /\ desk.child \in exits => desk.halting = desk.child

(* What Desktop has seen of its child, it has seen of a Runtime that serves. *)
Seen ==
  /\ desk.start = "poll" /\ desk.seen = desk.child /\ desk.child # 0
       => proc[desk.child].state # "starting"
  /\ desk.start # "none" => desk.status # "running"
  /\ desk.status = "running" => desk.child # 0 /\ proc[desk.child].state # "starting"

Shared == Locked /\ Handles /\ Listed

-----------------------------------------------------------------------------
(* Types.                                                                  *)

Labels == {"idle", "wait", "probe", "attach", "spawn", "await", "record", "undo", "using",
           "closing", "release", "kill", "gone"}
ProcRows == [by : Clients \cup {"desktop", "user", "other", None},
             state : {"none", "starting", "serving", "stopping", "dead"}]
MetaRows == [instance : Instances \cup {0}, leases : SUBSET Clients]
ClientRows == [of : Instances \cup {0}, lease : BOOLEAN, pc : Labels]
DeskRows == [status : {"stopped", "starting", "running", "error"}, child : Instances \cup {0},
             start : {"none", "probe", "poll", "failing"}, stale : BOOLEAN, stop : BOOLEAN,
             seen : Instances \cup {0, Refused, None}, late : BOOLEAN, halting : Instances \cup {0},
             quit : {"no", "stopping", "quitting", "ended"}]

ProcsTyped == proc \in [Instances -> ProcRows]
FilesTyped == meta \in MetaRows /\ lock \in Clients \cup {None}
ClientsTyped == client \in [Clients -> ClientRows]
DeskTyped == desk \in DeskRows
SetsTyped == signalled \subseteq Instances /\ exits \subseteq Instances /\ stray \subseteq Instances
              /\ unheard \subseteq Instances /\ faults \in Nat

(* Who ends a Runtime has one.                                             *)
HandlesSet ==
  \A c \in Clients :
    client[c].lease \/ client[c].pc \in {"attach", "await", "record", "undo", "closing", "release", "kill"}
      => client[c].of # 0

Typed == ProcsTyped /\ FilesTyped /\ ClientsTyped /\ DeskTyped /\ SetsTyped /\ HandlesSet

LEMMA TypeParts == Typed => TypeOK
  BY DEF TypeOK, Typed, ProcsTyped, FilesTyped, ClientsTyped, DeskTyped, SetsTyped,
         ProcRows, MetaRows, ClientRows, DeskRows, Labels

LEMMA InitTyped == ASSUME Init PROVE Typed
<1> USE OwnershipAssumption DEF Init
<1>1. ClientsTyped
  BY DEF ClientsTyped, ClientRows, Labels
<1>2. SetsTyped
  BY DEF SetsTyped
<1>3. DeskTyped
  BY DEF DeskTyped, DeskRows, NoDesk
<1>4. ProcsTyped /\ FilesTyped
  BY DEF ProcsTyped, ProcRows, FilesTyped, MetaRows, NoFile
<1>5. HandlesSet
  BY DEF HandlesSet
<1> QED BY <1>1, <1>2, <1>3, <1>4, <1>5 DEF Typed

(* What the endpoint answers is a process, or nobody.                      *)
LEMMA Answers ==
  /\ Health \subseteq Instances \cup {0, Refused} /\ Refused \notin Nat /\ Refused # 0
  /\ \A h \in Health : h \in Instances <=> h \in Serving
  /\ \A h \in Health : h = 0 \/ h = Refused \/ h \in Serving
<1>1. Refused \notin Nat /\ Refused # 0
  BY DEF Refused
<1>2. Refused \notin Instances /\ 0 \notin Instances
  BY <1>1, OwnershipAssumption
<1> QED BY <1>1, <1>2 DEF Health, Serving

(* A process goes on, or is spawned.                                       *)
LEMMA ProcMoves ==
  ASSUME ProcsTyped, NEW i \in Instances, NEW s \in {"none", "starting", "serving", "stopping", "dead"}
  PROVE  /\ SetState(i, s) => ProcsTyped'
         /\ \A by \in Clients \cup {"desktop", "user", "other", None} :
              proc' = [proc EXCEPT ![i] = [by |-> by, state |-> s]] => ProcsTyped'
<1>1. ASSUME SetState(i, s) PROVE ProcsTyped'
  BY <1>1 DEF SetState, ProcsTyped, ProcRows
<1>2. ASSUME NEW by \in Clients \cup {"desktop", "user", "other", None},
             proc' = [proc EXCEPT ![i] = [by |-> by, state |-> s]]
      PROVE  ProcsTyped'
  <2> DEFINE r == [by |-> by, state |-> s]
  <2>1. r \in ProcRows
    BY DEF ProcRows
  <2>2. proc' = [proc EXCEPT ![i] = r]
    BY <1>2
  <2> HIDE DEF r
  <2> QED BY <2>1, <2>2 DEF ProcsTyped
<1> QED BY <1>1, <1>2

LEMMA ProcStays == ASSUME ProcsTyped, UNCHANGED proc PROVE ProcsTyped'
  BY DEF ProcsTyped

LEMMA RuntimesTyped ==
  ASSUME Typed, Runtimes PROVE Typed'
<1>1. PICK i \in Instances :
        \/ Bind(i) \/ StopServing(i) \/ Die(i) \/ ExitEvent(i)
        \/ \E by \in {"user", "other"} : Outside(i, by)
  BY DEF Runtimes
<1>2. ProcsTyped'
  <2>1. CASE Bind(i)  BY <2>1, ProcMoves DEF Bind, Typed
  <2>2. CASE StopServing(i) \/ Die(i)  BY <2>2, ProcMoves DEF StopServing, Die, Typed
  <2>3. CASE ExitEvent(i)  BY <2>3, ProcStays DEF ExitEvent, Typed
  <2>4. CASE \E by \in {"user", "other"} : Outside(i, by)
    BY <2>4, ProcMoves DEF Outside, Typed
  <2> QED BY <1>1, <2>1, <2>2, <2>3, <2>4
<1>3. DeskTyped'
  BY <1>1 DEF Bind, StopServing, Die, Outside, ExitEvent, Typed, DeskTyped, DeskRows
<1>4. UNCHANGED <<meta, lock, client>>
  BY <1>1 DEF Bind, StopServing, Die, Outside, ExitEvent, Unmoved
<1>5. SetsTyped'
  BY <1>1 DEF Bind, StopServing, Die, Outside, ExitEvent, Faults, Unmoved, Typed, SetsTyped
<1> QED BY <1>2, <1>3, <1>4, <1>5 DEF Typed, FilesTyped, ClientsTyped, HandlesSet

LEMMA McpTyped ==
  ASSUME Typed, Mcp PROVE Typed'
<1>1. PICK c \in Clients :
        \/ Connect(c) \/ Acquire(c) \/ LockTimeout(c) \/ Probe(c) \/ Attach(c) \/ Spawn(c) \/ Await(c)
        \/ Record(c) \/ Undo(c) \/ Close(c) \/ Release(c) \/ Kill(c) \/ ClientDies(c)
  BY DEF Mcp
<1>2. ClientsTyped'
  <2> USE Answers DEF Typed, ClientsTyped, ClientRows, Labels, Goto, Gone
  <2>1. CASE Connect(c) \/ Acquire(c) \/ LockTimeout(c)  BY <2>1 DEF Connect, Acquire, LockTimeout
  <2>2. CASE Probe(c)  BY <2>2 DEF Probe
  <2>3. CASE Attach(c) \/ Record(c)  BY <2>3 DEF Attach, Record
  <2>4. CASE Spawn(c)  BY <2>4 DEF Spawn, Fresh
  <2>5. CASE Await(c)  BY <2>5 DEF Await
  <2>6. CASE Undo(c) \/ Close(c) \/ Release(c)  BY <2>6 DEF Undo, Close, Release
  <2>7. CASE Kill(c) \/ ClientDies(c)  BY <2>7 DEF Kill, ClientDies
  <2> QED BY <1>1, <2>1, <2>2, <2>3, <2>4, <2>5, <2>6, <2>7
<1>3. FilesTyped'
  <2> USE DEF Typed, FilesTyped, MetaRows, Goto, Gone, NoFile
  <2>1. CASE Connect(c) \/ Acquire(c) \/ LockTimeout(c)  BY <2>1 DEF Connect, Acquire, LockTimeout
  <2>2. CASE Probe(c)  BY <2>2 DEF Probe
  <2>3. CASE Attach(c) \/ Record(c)
    BY <2>3 DEF Attach, Record, Live, ClientsTyped, ClientRows
  <2>4. CASE Spawn(c)  BY <2>4 DEF Spawn
  <2>5. CASE Await(c)  BY <2>5 DEF Await
  <2>6. CASE Undo(c) \/ Close(c) \/ Release(c)  BY <2>6 DEF Undo, Close, Release, Live
  <2>7. CASE Kill(c) \/ ClientDies(c)  BY <2>7 DEF Kill, ClientDies
  <2> QED BY <1>1, <2>1, <2>2, <2>3, <2>4, <2>5, <2>6, <2>7
<1>4. DeskTyped'
  BY <1>1 DEF Typed, DeskTyped, Connect, Acquire, LockTimeout, Probe, Attach, Spawn, Await, Record, Undo,
     Close, Release, Kill, ClientDies
<1>5. client[c].pc \in Starting \cup {"kill"} => client[c].of \in Instances
  BY DEF Typed, HandlesSet, ClientsTyped, ClientRows, Starting
<1>6. ProcsTyped'
  <2>1. CASE Spawn(c)
    BY <2>1, ProcMoves, ProcStays DEF Spawn, Fresh, Typed
  <2>2. CASE Undo(c) \/ Kill(c)
    <3>1. client[c].of \in Instances
      BY <1>5, <2>2 DEF Undo, Kill, At, Starting
    <3>2. UNCHANGED proc \/ SetState(client[c].of, "dead")
      BY <2>2 DEF Undo, Kill, Terminate, SetState
    <3> QED BY <3>1, <3>2, ProcMoves, ProcStays DEF Typed
  <2> QED BY <1>1, <2>1, <2>2, ProcStays DEF Connect, Acquire, LockTimeout, Probe, Attach, Await, Record,
             Close, Release, ClientDies, Typed
<1>8. SetsTyped'
  <2> USE DEF Typed, SetsTyped, Faults
  <2>1. CASE Undo(c) \/ Kill(c)
    BY <1>5, <2>1 DEF Undo, Kill, At, Terminate, Starting
  <2>2. CASE ClientDies(c)
    BY <1>5, <2>2 DEF ClientDies, At, Starting
  <2>3. CASE Probe(c) \/ Release(c)
    <3>1. Serving \cap {meta.instance} \subseteq Instances
      BY DEF Serving
    <3>2. UNCHANGED unheard \/ unheard' = unheard \cup (Serving \cap {meta.instance})
      BY <2>3 DEF Probe, Release, Unheard
    <3> QED BY <2>3, <3>1, <3>2 DEF Probe, Release
  <2> QED BY <1>1, <2>1, <2>2, <2>3 DEF Connect, Acquire, LockTimeout, Attach, Spawn, Await, Record, Close
<1>7. HandlesSet'
  <2> USE OwnershipAssumption DEF Typed, ClientsTyped, ClientRows, Labels, HandlesSet, Goto, Gone, At
  <2>1. CASE Connect(c) \/ LockTimeout(c)  BY <2>1 DEF Connect, LockTimeout
  <2>8. CASE Acquire(c)
    <3>1. client'[c] = [client[c] EXCEPT !.pc = IF At(c, "wait") THEN "probe" ELSE "release"]
      BY <2>8 DEF Acquire
    <3> QED BY <2>8, <3>1 DEF Acquire
  <2>2. CASE Probe(c)  BY <2>2 DEF Probe
  <2>3. CASE Attach(c) \/ Record(c)  BY <2>3 DEF Attach, Record
  <2>4. CASE Spawn(c)  BY <2>4 DEF Spawn, Fresh
  <2>5. CASE Await(c)  BY <2>5 DEF Await
  <2>6. CASE Undo(c) \/ Close(c) \/ Release(c)  BY <2>6 DEF Undo, Close, Release
  <2>7. CASE Kill(c) \/ ClientDies(c)  BY <2>7 DEF Kill, ClientDies
  <2> QED BY <1>1, <2>1, <2>2, <2>3, <2>4, <2>5, <2>6, <2>7, <2>8
<1> QED BY <1>2, <1>3, <1>4, <1>6, <1>7, <1>8 DEF Typed

LEMMA DesktopTyped ==
  ASSUME Typed, Desktop PROVE Typed'
<1>1. DeskTyped'
  <2> USE Answers DEF Typed, DeskTyped, DeskRows
  <2>1. CASE Start  BY <2>1 DEF Start
  <2>2. CASE Answer  BY <2>2 DEF Answer
  <2>3. CASE Probed
    <3>1. CASE desk' = [desk EXCEPT !.start = "none"]  BY <3>1
    <3>2. CASE desk' = [desk EXCEPT !.start = "none", !.status = "error"]  BY <3>2
    <3>3. ASSUME NEW i \in Instances, desk' = [desk EXCEPT !.start = "poll", !.seen = None, !.child = i]
          PROVE  DeskTyped'
      BY <3>3
    <3> HIDE DEF DeskTyped, DeskRows
    <3> QED BY <2>3, <3>1, <3>2, <3>3 DEF Probed, Fresh
  <2>4. CASE Polled
    <3>1. CASE desk' = [desk EXCEPT !.start = "failing", !.halting = desk.child]  BY <3>1
    <3>2. CASE desk' = [desk EXCEPT !.start = "none"]  BY <3>2
    <3>3. CASE desk' = [desk EXCEPT !.start = "none", !.status = "running"]  BY <3>3
    <3>4. CASE desk' = [desk EXCEPT !.seen = None]  BY <3>4
    <3> HIDE DEF DeskTyped, DeskRows
    <3> QED BY <2>4, <3>1, <3>2, <3>3, <3>4 DEF Polled
  <2>5. CASE Failed  BY <2>5 DEF Failed
  <2>6. ASSUME NEW quits \in BOOLEAN, EndChild(quits) PROVE DeskTyped'
    <3> DEFINE q(s) == IF quits THEN s ELSE desk.quit
    <3>1. q("quitting") \in {"no", "stopping", "quitting", "ended"}
          /\ q("stopping") \in {"no", "stopping", "quitting", "ended"}
      OBVIOUS
    <3>2. CASE desk' = [desk EXCEPT !.stale = TRUE, !.status = "stopped", !.quit = q("quitting")]
      <4> HIDE DEF q
      <4> QED BY <3>1, <3>2
    <3>3. CASE desk' = [desk EXCEPT !.stale = TRUE, !.stop = TRUE, !.halting = desk.child, !.quit = q("stopping")]
      <4> HIDE DEF q
      <4> QED BY <3>1, <3>3
    <3> HIDE DEF DeskTyped, DeskRows
    <3> QED BY <2>6, <3>2, <3>3 DEF EndChild
  <2>7. CASE Stopped
    <3> DEFINE child == IF Halted THEN 0 ELSE desk.child
               status == IF Halted THEN "stopped" ELSE "error"
               quit == IF desk.quit # "stopping" THEN desk.quit ELSE IF Halted THEN "quitting" ELSE "no"
    <3>1. /\ child \in Instances \cup {0} /\ status \in {"stopped", "error"}
          /\ quit \in {"no", "stopping", "quitting", "ended"}
      OBVIOUS
    <3>2. desk' = [desk EXCEPT !.stop = FALSE, !.halting = 0, !.child = child, !.status = status, !.quit = quit]
      <4> HIDE DEF DeskTyped, DeskRows
      <4> QED BY <2>7 DEF Stopped
    <3> HIDE DEF child, status, quit
    <3> QED BY <3>1, <3>2
  <2>8. CASE Quit
    <3>1. CASE desk' = [desk EXCEPT !.quit = "stopping"]  BY <3>1
    <3> HIDE DEF DeskTyped, DeskRows
    <3> QED BY <2>6, <2>8, <3>1 DEF Quit
  <2>9. CASE QuitEnds  BY <2>9 DEF QuitEnds
  <2>10. CASE DesktopDies  BY <2>10 DEF DesktopDies
  <2>11. CASE Stop
    <3> HIDE DEF DeskTyped, DeskRows
    <3> QED BY <2>6, <2>11 DEF Stop
  <2> HIDE DEF DeskTyped, DeskRows
  <2> QED BY <2>1, <2>2, <2>3, <2>4, <2>5, <2>7, <2>8, <2>9, <2>10, <2>11 DEF Desktop
<1>2. FilesTyped' /\ ClientsTyped' /\ HandlesSet'
  <2>1. Unmoved
    BY DEF Desktop, Start, Answer, Probed, Polled, Failed, Stop, Stopped, Quit, QuitEnds, DesktopDies
  <2> QED BY <2>1 DEF Unmoved, Typed, FilesTyped, ClientsTyped, HandlesSet
<1>3. ProcsTyped'
  BY ProcMoves, ProcStays
  DEF Desktop, Start, Answer, Probed, Polled, Failed, Stop, Stopped, Quit, QuitEnds, DesktopDies, Fresh, Typed
<1>4. SetsTyped'
  <2> USE DEF Typed, SetsTyped, Faults, Unmoved
  <2>1. CASE Start \/ Answer \/ QuitEnds \/ Probed
    <3>1. desk.child \in Instances \cup {0}
      BY DEF DeskTyped, DeskRows
    <3>2. UNCHANGED <<signalled, exits, unheard>>
      BY <2>1 DEF Start, Answer, QuitEnds, Probed
    <3>3. UNCHANGED stray \/ stray' = stray \cup ({desk.child} \ {0})
      BY <2>1 DEF Start, Answer, QuitEnds, Probed
    <3>4. UNCHANGED faults \/ (faults > 0 /\ faults' = faults - 1)
      BY <2>1 DEF Start, Answer, QuitEnds, Probed
    <3> QED BY <3>1, <3>2, <3>3, <3>4
  <2>2. CASE Polled \/ Failed \/ Stopped
    BY <2>2 DEF Polled, Failed, Stopped, DeskTyped, DeskRows
  <2>3. CASE Stop \/ Quit \/ DesktopDies
    BY <2>3 DEF Stop, Quit, DesktopDies, EndChild, DeskTyped, DeskRows
  <2> QED BY <2>1, <2>2, <2>3 DEF Desktop
<1> QED BY <1>1, <1>2, <1>3, <1>4 DEF Typed

LEMMA NextTyped == Typed /\ [Next]_vars => Typed'
<1>1. ASSUME Typed, UNCHANGED vars PROVE Typed'
  BY <1>1 DEF Typed, vars, ProcsTyped, FilesTyped, ClientsTyped, DeskTyped, SetsTyped, HandlesSet
<1> QED BY <1>1, RuntimesTyped, McpTyped, DesktopTyped DEF Next

-----------------------------------------------------------------------------
(* Processes.                                                              *)

(* A process keeps who spawned it, and never goes back.                    *)
Goes ==
  \A i \in Instances :
    /\ proc[i].state # "none" => proc'[i].by = proc[i].by /\ proc'[i].state # "none"
    /\ proc[i].state \notin {"none", "starting"} => proc'[i].state \notin {"none", "starting"}
    /\ proc[i].state \in {"stopping", "dead"} => proc'[i].state \in {"stopping", "dead"}

LEMMA SpawnGoes ==
  ASSUME Typed, Born, NEW i \in Fresh, NEW by \in Clients \cup {"desktop", "user", "other"},
         NEW s \in {"starting", "serving"}, s = "serving" => Serving = {},
         proc' = [proc EXCEPT ![i] = [by |-> by, state |-> s]]
  PROVE  Born' /\ Goes
<1>1. /\ i \in Instances /\ proc[i].state = "none" /\ by # None
      /\ proc'[i] = [by |-> by, state |-> s]
      /\ \A j \in Instances \ {i} : proc'[j] = proc[j]
  BY OwnershipAssumption DEF Fresh, Typed, ProcsTyped
<1> QED BY <1>1 DEF Born, Goes, Serving

LEMMA StateGoes ==
  ASSUME Typed, Born, NEW i \in Instances, NEW s \in {"serving", "stopping", "dead"},
         SetState(i, s), proc[i].state # "none",
         s = "serving" => proc[i].state = "starting" /\ Serving = {},
         s = "stopping" => proc[i].state = "serving"
  PROVE  Born' /\ Goes
<1>1. /\ proc'[i].by = proc[i].by /\ proc'[i].state = s
      /\ \A j \in Instances \ {i} : proc'[j] = proc[j]
  BY DEF SetState, Typed, ProcsTyped, ProcRows
<1> QED BY <1>1 DEF Born, Goes, Serving

LEMMA SameGoes == ASSUME Born, UNCHANGED proc PROVE Born' /\ Goes
  BY DEF Born, Goes, Serving

LEMMA NextGoes == ASSUME Typed, Born, [Next]_vars PROVE Born' /\ Goes
<1>1. ASSUME NEW i \in Instances, Bind(i) \/ StopServing(i) \/ Die(i) \/ ExitEvent(i)
      PROVE  Born' /\ Goes
  <2>1. CASE Bind(i)
    BY <2>1, StateGoes DEF Bind
  <2>2. CASE StopServing(i) \/ Die(i)
    BY <2>2, StateGoes DEF StopServing, Die, Alive
  <2> QED BY <1>1, <2>1, <2>2, SameGoes DEF ExitEvent
<1>2. ASSUME NEW i \in Instances, NEW by \in {"user", "other"}, Outside(i, by)
      PROVE  Born' /\ Goes
  BY <1>2, SpawnGoes DEF Outside
<1>3. ASSUME NEW c \in Clients, Terminate(c), client[c].of \in Instances PROVE Born' /\ Goes
  BY <1>3, StateGoes, SameGoes DEF Terminate, Alive, SetState
<1>4. ASSUME NEW c \in Clients, Undo(c) \/ Kill(c) PROVE Born' /\ Goes
  <2>1. client[c].of \in Instances
    BY <1>4 DEF Typed, HandlesSet, ClientsTyped, ClientRows, Undo, Kill, At
  <2> QED BY <1>3, <1>4, <2>1 DEF Undo, Kill
<1>5. ASSUME NEW c \in Clients, Spawn(c) PROVE Born' /\ Goes
  BY <1>5, SpawnGoes, SameGoes DEF Spawn
<1>6. CASE Mcp
  BY <1>4, <1>5, <1>6, SameGoes DEF Mcp, Connect, Acquire, LockTimeout, Probe, Attach, Await, Record,
     Close, Release, ClientDies
<1>7. CASE Probed
  BY <1>7, SpawnGoes, SameGoes DEF Probed
<1>8. CASE Desktop
  BY <1>7, <1>8, SameGoes DEF Desktop, Start, Answer, Polled, Failed, Stop, Stopped, Quit, QuitEnds, DesktopDies
<1>9. CASE UNCHANGED vars
  BY <1>9, SameGoes DEF vars
<1> QED BY <1>1, <1>2, <1>6, <1>8, <1>9 DEF Next, Runtimes

-----------------------------------------------------------------------------
(* The lock, the clients and the metadata.                                 *)

LEMMA InitShared == ASSUME Init PROVE Born /\ Shared
<1> USE OwnershipAssumption DEF Init
<1>1. Born
  BY DEF Born, Serving
<1>2. Locked
  BY DEF Locked, Holding
<1>3. Handles /\ Listed
  BY DEF Handles, Listed, Starting, NoFile
<1> QED BY <1>1, <1>2, <1>3 DEF Shared

(* What a client reads of itself.                                          *)
LEMMA Row ==
  ASSUME Typed, NEW c \in Clients
  PROVE  /\ client[c].of \in Instances \cup {0} /\ client[c].lease \in BOOLEAN /\ client[c].pc \in Labels
         /\ meta.instance \in Instances \cup {0} /\ meta.leases \subseteq Clients
         /\ lock # None => lock \in Clients
         /\ c # None /\ c \notin {"desktop", "user", "other"} /\ 0 \notin Instances
  BY OwnershipAssumption DEF Typed, ClientsTyped, ClientRows, FilesTyped, MetaRows

(* A process a client has a handle on, or the metadata names, stays its own. *)
LEMMA NamesKept ==
  ASSUME Typed, Born, Goes, Shared
  PROVE  /\ \A c \in Clients : client[c].of # 0 => proc'[client[c].of].by = proc[client[c].of].by
                                                  /\ proc'[client[c].of].state # "none"
         /\ meta.instance # 0 => proc'[meta.instance].by \in Clients
<1>1. \A c \in Clients : client[c].of # 0 => client[c].of \in Instances /\ proc[client[c].of].state # "none"
  BY Row DEF Shared, Handles
<1>2. meta.instance # 0 => meta.instance \in Instances /\ proc[meta.instance].by \in Clients
  BY DEF Typed, FilesTyped, MetaRows, Shared, Listed
<1>3. meta.instance # 0 => proc[meta.instance].state # "none"
  BY <1>2, OwnershipAssumption DEF Born
<1> QED BY <1>1, <1>2, <1>3 DEF Goes

LEMMA OutsideShared ==
  ASSUME Typed, Born, Goes, Shared, UNCHANGED <<meta, lock, client>>
  PROVE  Shared'
<1>1. Locked'
  BY DEF Shared, Locked
<1>2. Handles'
  BY NamesKept DEF Shared, Handles
<1>3. Listed'
  BY NamesKept DEF Shared, Listed
<1> QED BY <1>1, <1>2, <1>3 DEF Shared

(* A step of a client changes its own row only.                            *)
Becomes(c, label, i, leased) ==
  /\ client'[c].pc = label /\ client'[c].of = i /\ client'[c].lease = leased
  /\ \A d \in Clients \ {c} : client'[d] = client[d]

LEMMA Steps ==
  ASSUME Typed, NEW c \in Clients
  PROVE  /\ \A label : Goto(c, label) => Becomes(c, label, client[c].of, client[c].lease)
         /\ \A label, i : client' = [client EXCEPT ![c].pc = label, ![c].of = i]
              => Becomes(c, label, i, client[c].lease)
         /\ \A label, leased : client' = [client EXCEPT ![c].pc = label, ![c].lease = leased]
              => Becomes(c, label, client[c].of, leased)
  BY DEF Typed, ClientsTyped, ClientRows, Goto, Becomes

(* Who holds the lock is the only one at work under it.                    *)
LEMMA OneHolder ==
  ASSUME Shared, NEW c \in Clients, NEW d \in Clients,
         client[c].pc \in Holding, client[d].pc \in Holding
  PROVE  c = d
  BY DEF Shared, Locked

LEMMA LockKept ==
  ASSUME Typed, Shared, NEW c \in Clients, NEW label, NEW i, NEW leased,
         Becomes(c, label, i, leased),
         \/ (client[c].pc \in Holding <=> label \in Holding) /\ UNCHANGED lock
         \/ lock = None /\ lock' = c /\ label \in Holding
         \/ lock' = (IF lock = c THEN None ELSE lock) /\ label \notin Holding
  PROVE  Locked'
  BY Row DEF Shared, Locked, Becomes

LEMMA McpShared ==
  ASSUME Typed, Typed', Born, Goes, Shared, Mcp
  PROVE  Shared'
<1>1. PICK c \in Clients :
        \/ Connect(c) \/ Acquire(c) \/ LockTimeout(c) \/ Probe(c) \/ Attach(c) \/ Spawn(c) \/ Await(c)
        \/ Record(c) \/ Undo(c) \/ Close(c) \/ Release(c) \/ Kill(c) \/ ClientDies(c)
  BY DEF Mcp
<1> DEFINE of == client[c].of  leased == client[c].lease
<1>a. /\ of \in Instances \cup {0} /\ leased \in BOOLEAN /\ client[c].pc \in Labels
      /\ c # None /\ 0 \notin Instances
  BY Row
<1>b. /\ \A d \in Clients : client[d].of # 0 => proc'[client[d].of].by = proc[client[d].of].by
                                              /\ proc'[client[d].of].state # "none"
      /\ meta.instance # 0 => proc'[meta.instance].by \in Clients
  BY NamesKept
<1>c. \A d \in Clients : d # c /\ client[c].pc \in Holding => client[d].pc \notin Holding
  BY OneHolder
<1>d. Holding \cup Starting \cup {"idle", "wait", "using", "closing", "gone"} \subseteq Labels
  BY DEF Labels, Holding, Starting
<1> USE DEF Holding, Starting, At
<1>2. CASE \/ Connect(c) \/ LockTimeout(c) \/ ClientDies(c) \/ Close(c)
           \/ (Probe(c) /\ Gone(c)) \/ Undo(c)
  <2>1. PICK label \in Labels : /\ Becomes(c, label, of, leased)
                                /\ label \in {"wait", "gone", "closing"}
                                /\ label = "wait" => client[c].pc = "idle"
                                /\ label = "closing" => client[c].pc = "using"
    BY <1>2, <1>d, Steps DEF Connect, LockTimeout, ClientDies, Close, Undo, Gone
  <2>2. UNCHANGED meta
    BY <1>2 DEF Connect, LockTimeout, ClientDies, Close, Probe, Undo
  <2>6. \/ UNCHANGED lock /\ client[c].pc \notin Holding
        \/ lock' = (IF lock = c THEN None ELSE lock)
    <3>1. CASE Connect(c) \/ LockTimeout(c) \/ Close(c)
      BY <3>1 DEF Connect, LockTimeout, Close
    <3>2. CASE ClientDies(c) \/ Undo(c)
      BY <3>2 DEF ClientDies, Undo, Gone
    <3>3. CASE Probe(c) /\ Gone(c)
      BY <3>3 DEF Gone
    <3> QED BY <1>2, <3>1, <3>2, <3>3
  <2>3. Locked'
    BY <2>1, <2>6, LockKept
  <2>4. Handles'
    BY <1>b, <2>1, <2>2 DEF Shared, Handles, Becomes
  <2>5. Listed'
    <3>1. /\ \A d \in Clients : client'[d].lease = client[d].lease /\ client'[d].of = client[d].of
          /\ \A d \in Clients : client'[d].pc # "gone" => client[d].pc # "gone"
          /\ \A d \in Clients : client'[d].pc = "kill" => client[d].pc = "kill"
          /\ \A d \in Clients : client[d].pc = "gone" => client'[d].pc = "gone"
      BY <2>1 DEF Becomes
    <3> QED BY <1>b, <2>2, <3>1, Row DEF Shared, Listed
  <2> QED BY <2>3, <2>4, <2>5 DEF Shared
<1>3. CASE Acquire(c) \/ (Probe(c) /\ Goto(c, "spawn") /\ UNCHANGED lock) \/ Await(c)
  <2>1. PICK label \in Labels : /\ Becomes(c, label, of, leased)
                                /\ label \in {"probe", "release", "spawn", "record", "undo"}
                                /\ label \in {"record", "undo"} => client[c].pc = "await"
                                /\ label = "probe" => client[c].pc = "wait"
                                /\ label = "spawn" => client[c].pc = "probe"
                                /\ client[c].pc # "gone"
    <3>1. CASE Acquire(c)  BY <1>d, <3>1, Steps DEF Acquire
    <3>2. CASE Probe(c) /\ Goto(c, "spawn") /\ UNCHANGED lock  BY <1>d, <3>2, Steps DEF Probe
    <3>3. CASE Await(c)  BY <1>d, <3>3, Steps DEF Await
    <3> QED BY <1>3, <3>1, <3>2, <3>3
  <2>2. UNCHANGED meta
    BY <1>3 DEF Acquire, Probe, Await
  <2>6. \/ UNCHANGED lock /\ client[c].pc \in Holding
        \/ lock = None /\ lock' = c
    <3>1. CASE Acquire(c)  BY <3>1 DEF Acquire
    <3>2. CASE Probe(c) /\ Goto(c, "spawn") /\ UNCHANGED lock  BY <3>2 DEF Probe
    <3>3. CASE Await(c)  BY <3>3 DEF Await
    <3> QED BY <1>3, <3>1, <3>2, <3>3
  <2>3. Locked'
    BY <2>1, <2>6, LockKept
  <2>4. Handles'
    BY <1>b, <2>1, <2>2 DEF Shared, Handles, Becomes
  <2>5. Listed'
    <3>1. /\ \A d \in Clients : client'[d].lease = client[d].lease /\ client'[d].of = client[d].of
          /\ \A d \in Clients : client'[d].pc # "gone" => client[d].pc # "gone"
          /\ \A d \in Clients : client'[d].pc = "kill" => client[d].pc = "kill"
          /\ \A d \in Clients : client[d].pc = "gone" => client'[d].pc = "gone"
      BY <2>1 DEF Becomes
    <3> QED BY <1>b, <2>2, <3>1, Row DEF Shared, Listed
  <2> QED BY <2>3, <2>4, <2>5 DEF Shared
<1>4. ASSUME NEW h \in Serving, client' = [client EXCEPT ![c].pc = "attach", ![c].of = h], UNCHANGED lock,
             Probe(c)
      PROVE  Shared'
  <2>1. Becomes(c, "attach", h, leased)
    BY <1>4, Steps
  <2>2. h \in Instances /\ proc[h].state # "none" /\ UNCHANGED <<meta, proc>> /\ client[c].pc = "probe"
    BY <1>4 DEF Serving, Probe
  <2>3. Locked'
    BY <1>4, <2>1, <2>2, LockKept
  <2>4. Handles'
    BY <1>a, <1>b, <1>c, <2>1, <2>2 DEF Shared, Handles, Becomes
  <2>5. Listed'
    <3>1. \A d \in Clients : client[d].pc # "kill"
      BY <1>c, <2>2
    <3>2. ~leased
      BY <2>2 DEF Shared, Handles
    <3> QED BY <1>b, <2>1, <2>2, <3>1, <3>2 DEF Shared, Listed, Becomes
  <2> QED BY <2>3, <2>4, <2>5 DEF Shared
<1>5. CASE Probe(c)
  <2>1. PICK h \in Health :
          \/ h = 0 /\ Goto(c, "spawn") /\ UNCHANGED lock
          \/ /\ h # 0 /\ h # Refused
             /\ client' = [client EXCEPT ![c].pc = "attach", ![c].of = h] /\ UNCHANGED lock
          \/ Gone(c)
    BY <1>5 DEF Probe
  <2>2. h = 0 \/ h = Refused \/ h \in Serving
    BY Answers
  <2> QED BY <1>2, <1>3, <1>4, <1>5, <2>1, <2>2 DEF Gone
<1>6. CASE Attach(c)
  <2> DEFINE managed == meta.instance = of /\ Alive(meta.instance)
  <2>1. Becomes(c, "using", of, managed) /\ client[c].pc = "attach"
    BY <1>6, Steps DEF Attach
  <2>2. /\ meta'.instance = meta.instance
        /\ managed => meta'.leases = Live(meta.leases) \cup {c}
        /\ ~managed => UNCHANGED meta
    BY <1>6 DEF Attach, Typed, FilesTyped, MetaRows
  <2>3. Locked'
    BY <1>6, <2>1, LockKept DEF Attach, Shared, Locked
  <2>4. Handles'
    <3>1. of # 0
      BY <2>1 DEF Shared, Handles
    <3> HIDE DEF managed
    <3> QED BY <1>b, <1>c, <2>1, <2>2, <3>1 DEF Shared, Handles, Becomes
  <2>5. Listed'
    <3>1. \A d \in Clients : client[d].pc # "kill"
      BY <1>c, <2>1
    <3>2. \A d \in Clients : d \in meta.leases /\ client[d].pc # "gone" /\ managed => d \in meta'.leases
      BY <2>2 DEF Live
    <3>3. of # 0
      BY <2>1 DEF Shared, Handles
    <3>4. managed => of = meta.instance /\ c \in meta'.leases
      BY <2>2
    <3> HIDE DEF managed
    <3>5. managed \in BOOLEAN
      BY DEF managed
    <3>6. \A d \in Clients \ {c} : client[d].lease /\ client[d].pc # "gone" /\ client[d].of = meta.instance
                                 => d \in meta'.leases
      BY <2>2, <3>2 DEF Shared, Listed
    <3> QED BY <1>b, <2>1, <2>2, <3>1, <3>4, <3>6 DEF Shared, Listed, Becomes
  <2> QED BY <2>3, <2>4, <2>5 DEF Shared
<1>7. CASE Spawn(c)
  <2>1. client[c].pc = "spawn" /\ meta' = NoFile
    BY <1>7 DEF Spawn
  <2>2. CASE Gone(c)
    <3>1. Becomes(c, "gone", of, leased) /\ lock' = (IF lock = c THEN None ELSE lock)
      BY <2>2, Steps DEF Gone
    <3>2. Locked'
      BY <2>1, <3>1, LockKept
    <3>3. Handles'
      BY <1>b, <2>1, <3>1 DEF Shared, Handles, Becomes, NoFile
    <3>4. Listed'
      BY <1>c, <2>1, <3>1, <3>3 DEF Shared, Listed, Handles, Becomes, NoFile
    <3> QED BY <3>2, <3>3, <3>4 DEF Shared
  <2>3. ASSUME NEW i \in Fresh, proc' = [proc EXCEPT ![i] = [by |-> c, state |-> "starting"]],
               client' = [client EXCEPT ![c].pc = "await", ![c].of = i], UNCHANGED lock
        PROVE  Shared'
    <3>1. Becomes(c, "await", i, leased)
      BY <2>3, Steps
    <3>2. i \in Instances /\ proc[i].state = "none" /\ proc'[i].by = c /\ proc'[i].state = "starting"
      BY <2>3 DEF Fresh, Typed, ProcsTyped
    <3>3. Locked'
      BY <2>1, <2>3, <3>1, LockKept
    <3>4. Handles'
      BY <1>a, <1>b, <1>c, <2>1, <3>1, <3>2 DEF Shared, Handles, Becomes, NoFile
    <3>5. Listed'
      BY <1>c, <2>1, <3>1, <3>4 DEF Shared, Listed, Handles, Becomes, NoFile
    <3> QED BY <3>3, <3>4, <3>5 DEF Shared
  <2> QED BY <1>7, <2>2, <2>3 DEF Spawn
<1>8. CASE Record(c)
  <2>1. client[c].pc = "record" /\ of # 0 /\ proc[of].by = c /\ meta.instance = 0
        /\ \A d \in Clients \ {c} : client[d].of # of
    BY <1>8 DEF Record, Shared, Handles
  <2>2. CASE Goto(c, "undo") /\ UNCHANGED <<meta, lock>>
    <3>1. Becomes(c, "undo", of, leased)
      BY <2>2, Steps
    <3>2. Locked'
      BY <2>1, <2>2, <3>1, LockKept
    <3>3. Handles'
      BY <1>b, <2>1, <2>2, <3>1 DEF Shared, Handles, Becomes
    <3>4. Listed'
      BY <1>b, <2>1, <2>2, <3>1 DEF Shared, Listed, Becomes
    <3> QED BY <3>2, <3>3, <3>4 DEF Shared
  <2>3. CASE /\ meta' = [instance |-> of, leases |-> {c}] /\ lock' = None
             /\ client' = [client EXCEPT ![c].pc = "using", ![c].lease = TRUE]
    <3>1. Becomes(c, "using", of, TRUE)
      BY <2>3, Steps
    <3>2. Locked'
      BY <2>1, <2>3, <3>1, LockKept DEF Shared, Locked
    <3>3. meta'.instance = of /\ meta'.leases = {c}
      BY <2>3
    <3>4. Handles'
      BY <1>b, <1>c, <2>1, <3>1, <3>3 DEF Shared, Handles, Becomes
    <3>5. Listed'
      BY <1>b, <1>c, <2>1, <3>1, <3>3 DEF Shared, Listed, Becomes
    <3> QED BY <3>2, <3>4, <3>5 DEF Shared
  <2> QED BY <1>8, <2>2, <2>3 DEF Record
<1>9. CASE Release(c)
  <2> DEFINE others == Live(meta.leases \ {c})
  <2>1. /\ client[c].pc = "release"
        /\ \/ Gone(c) /\ UNCHANGED meta
           \/ Gone(c) /\ meta' = NoFile /\ others = {}
           \/ Gone(c) /\ meta' = [meta EXCEPT !.leases = others]
           \/ Goto(c, "kill") /\ UNCHANGED <<meta, lock>> /\ others = {} /\ meta.instance = of
    BY <1>9 DEF Release
  <2> HIDE DEF others
  <2>2. PICK label \in {"gone", "kill"} :
          /\ Becomes(c, label, of, leased)
          /\ \/ label = "gone" /\ lock' = (IF lock = c THEN None ELSE lock)
             \/ label = "kill" /\ meta' = meta /\ lock' = lock /\ others = {} /\ meta.instance = of
    <3>1. CASE Gone(c)
      BY <3>1, Steps DEF Gone
    <3>2. CASE Goto(c, "kill") /\ UNCHANGED <<meta, lock>> /\ others = {} /\ meta.instance = of
      BY <3>2, Steps
    <3> QED BY <2>1, <3>1, <3>2
  <2>3. Locked'
    BY <2>1, <2>2, LockKept
  <2>4. of # 0
    BY <2>1 DEF Typed, HandlesSet
  <2>5. meta'.instance \in {0, meta.instance}
    BY <2>1 DEF NoFile, Typed, FilesTyped, MetaRows
  <2>6. Handles'
    BY <1>b, <2>1, <2>2, <2>5 DEF Shared, Handles, Becomes
  <2>7. \A d \in Clients \ {c} : client[d].lease /\ client[d].pc # "gone" /\ client[d].of = meta'.instance
                                 => d \in meta'.leases
    <3>1. CASE meta' = NoFile
      BY <3>1 DEF NoFile, Shared, Handles
    <3>2. CASE meta' = [meta EXCEPT !.leases = others]
      <4>1. meta'.leases = others /\ meta'.instance = meta.instance
        BY <3>2 DEF Typed, FilesTyped, MetaRows
      <4> QED BY <4>1 DEF Shared, Listed, Live, others
    <3>3. CASE UNCHANGED meta
      BY <3>3 DEF Shared, Listed
    <3> QED BY <2>1, <3>1, <3>2, <3>3
  <2>8. Listed'
    <3>1. label = "kill" => \A d \in meta.leases \ {c} : client[d].pc = "gone"
      BY <2>2 DEF Live, others
    <3>2. \A d \in Clients : client[d].pc # "kill"
      BY <1>c, <2>1
    <3>3. label = "kill" /\ leased /\ of = meta.instance => c \in meta.leases
      BY <2>1 DEF Shared, Listed
    <3>4. meta'.instance # 0 => proc'[meta'.instance].by \in Clients
      BY <1>b, <2>5
    <3>5. label = "kill" => UNCHANGED meta /\ meta.instance = of
      BY <2>2
    <3>6. meta.leases \subseteq Clients
      BY Row
    <3> QED BY <2>2, <2>4, <2>7, <3>1, <3>2, <3>3, <3>4, <3>5, <3>6 DEF Listed, Becomes
  <2> QED BY <2>3, <2>6, <2>8 DEF Shared
<1>10. CASE Kill(c)
  <2>1. Becomes(c, "gone", of, leased) /\ lock' = (IF lock = c THEN None ELSE lock)
    BY <1>10, Steps DEF Kill, Gone
  <2>2. client[c].pc = "kill" /\ meta' \in {meta, NoFile}
    BY <1>10 DEF Kill
  <2>3. Locked'
    BY <2>1, <2>2, LockKept
  <2>4. Handles'
    BY <1>b, <2>1, <2>2 DEF Shared, Handles, Becomes, NoFile
  <2>5. Listed'
    <3>1. CASE UNCHANGED meta
      BY <1>b, <1>c, <2>1, <2>2, <3>1 DEF Shared, Listed, Becomes
    <3>2. CASE meta' = NoFile
      BY <1>c, <2>1, <2>2, <3>2, <2>4 DEF Listed, Handles, Becomes, NoFile
    <3> QED BY <2>2, <3>1, <3>2
  <2> QED BY <2>3, <2>4, <2>5 DEF Shared
<1> QED BY <1>1, <1>2, <1>3, <1>5, <1>6, <1>7, <1>8, <1>9, <1>10

LEMMA NextShared ==
  ASSUME Typed, Typed', Born, Goes, Shared, [Next]_vars
  PROVE  Shared'
<1>1. CASE Mcp
  BY <1>1, McpShared
<1>2. CASE Runtimes
  <2>1. UNCHANGED <<meta, lock, client>>
    BY <1>2 DEF Runtimes, Bind, StopServing, Die, Outside, ExitEvent, Unmoved
  <2> QED BY <2>1, OutsideShared
<1>3. CASE Desktop
  <2>1. UNCHANGED <<meta, lock, client>>
    BY <1>3 DEF Desktop, Start, Answer, Probed, Polled, Failed, Stop, Stopped, Quit, QuitEnds, DesktopDies, Unmoved
  <2> QED BY <2>1, OutsideShared
<1>4. CASE UNCHANGED vars
  BY <1>4, OutsideShared DEF vars
<1> QED BY <1>1, <1>2, <1>3, <1>4 DEF Next

-----------------------------------------------------------------------------
(* Whose a Runtime is that a client started.                               *)

(* A process is given up for good, unless a client spawns it.              *)
LEMMA AbandonedStays ==
  ASSUME Typed, Born, Goes, Excused \subseteq Excused', NEW i \in Instances,
         proc[i].state # "none" \/ proc'[i].by \notin Clients,
         Abandoned(i)
  PROVE  Abandoned(i)'
<1>1. i \in Excused => i \in Excused'
  OBVIOUS
<1>2. proc[i].by \notin Clients => proc'[i].by \notin Clients
  BY DEF Goes
<1>3. proc[i].state \notin {"starting", "serving"} /\ proc[i].state # "none"
        => proc'[i].state \notin {"starting", "serving"}
  BY DEF Goes, Typed, ProcsTyped, ProcRows
<1>4. proc[i].state = "none" => proc[i].by \notin Clients
  BY OwnershipAssumption DEF Born
<1> QED BY <1>1, <1>2, <1>3, <1>4 DEF Abandoned

LEMMA InitOwned == ASSUME Init PROVE Owned
<1>1. \A i \in Instances : Abandoned(i)
  BY DEF Init, Abandoned
<1> QED BY <1>1 DEF Init, Owned, NoFile, Starting

LEMMA OutsideOwned ==
  ASSUME Typed, Born, Goes, Shared, Owned, UNCHANGED <<meta, client>>, Excused \subseteq Excused',
         \A i \in Instances : proc[i].state = "none" => proc'[i].by \notin Clients
  PROVE  Owned'
<1>1. \A i \in Instances : Abandoned(i) => Abandoned(i)'
  BY AbandonedStays
<1>2. meta.instance # 0 => proc'[meta.instance].state # "starting"
  <2>1. meta.instance # 0 => meta.instance \in Instances /\ proc[meta.instance].by \in Clients
    BY Row DEF Shared, Listed
  <2>2. meta.instance # 0 => proc[meta.instance].state \notin {"none", "starting"}
    BY <2>1, OwnershipAssumption DEF Born, Owned
  <2> QED BY <2>1, <2>2 DEF Goes
<1>3. \A c \in Clients : client[c].pc = "record" => proc'[client[c].of].state # "starting"
  <2>1. \A c \in Clients : client[c].pc = "record"
          => client[c].of \in Instances /\ proc[client[c].of].state \notin {"none", "starting"}
    BY Row DEF Shared, Handles, Owned, Starting
  <2> QED BY <2>1 DEF Goes
<1> HIDE DEF Abandoned
<1> QED BY <1>1, <1>2, <1>3 DEF Owned

(* A step of client c, from what it does to its own Runtime and the metadata. *)
LEMMA OwnedStep ==
  ASSUME Typed, Born, Goes, Shared, Owned, Excused \subseteq Excused',
         NEW c \in Clients, NEW label, NEW i, NEW leased, Becomes(c, label, i, leased),
         NEW of, of = client[c].of, NEW m, m = meta.instance,
         \A j \in Instances : proc[j].state # "none" \/ proc'[j].by \notin Clients,
         meta'.instance # 0 => meta'.instance = m \/ proc'[meta'.instance].state # "starting",
         m # 0 => meta'.instance = m \/ Abandoned(m)',
         label = "record" => proc'[i].state # "starting",
         label = "spawn" => \A j \in Instances : Abandoned(j)',
         client[c].pc \in Starting =>
           \/ label \in Starting /\ i = of
           \/ Abandoned(of)'
           \/ meta'.instance = of
  PROVE  Owned'
<1>1. \A j \in Instances : Abandoned(j) => Abandoned(j)'
  BY AbandonedStays
<1>2. meta'.instance # 0 => proc'[meta'.instance].state # "starting"
  <2>1. meta.instance # 0 => meta.instance \in Instances /\ proc[meta.instance].by \in Clients
    BY Row DEF Shared, Listed
  <2>2. meta.instance # 0 => proc[meta.instance].state \notin {"none", "starting"}
    BY <2>1, OwnershipAssumption DEF Born, Owned
  <2> QED BY <2>1, <2>2 DEF Goes
<1>3. \A d \in Clients : client'[d].pc = "record" => proc'[client'[d].of].state # "starting"
  <2>1. \A d \in Clients : client[d].pc = "record"
          => client[d].of \in Instances /\ proc[client[d].of].state \notin {"none", "starting"}
    BY Row DEF Shared, Handles, Owned, Starting
  <2> QED BY <2>1 DEF Goes, Becomes
<1> HIDE DEF Abandoned
<1>4. \A d \in Clients : client'[d].pc = "spawn" => \A j \in Instances : Abandoned(j)'
  BY <1>1 DEF Owned, Becomes
<1>5. ASSUME NEW j \in Instances
      PROVE  Abandoned(j)' \/ meta'.instance = j \/ \E d \in Clients : client'[d].pc \in Starting /\ client'[d].of = j
  <2>1. CASE Abandoned(j)
    BY <1>1, <2>1
  <2>2. CASE meta.instance = j
    BY <2>2, OwnershipAssumption
  <2>3. ASSUME NEW d \in Clients, client[d].pc \in Starting, client[d].of = j
        PROVE  Abandoned(j)' \/ meta'.instance = j
               \/ \E e \in Clients : client'[e].pc \in Starting /\ client'[e].of = j
    <3>1. CASE d # c
      BY <2>3, <3>1 DEF Becomes
    <3>2. CASE d = c
      BY <2>3, <3>2 DEF Becomes
    <3> QED BY <3>1, <3>2
  <2> QED BY <2>1, <2>2, <2>3 DEF Owned
<1> QED BY <1>2, <1>3, <1>4, <1>5 DEF Owned

(* Who is told to end ends, or stays behind.                               *)
LEMMA Terminated ==
  ASSUME Typed, Born, Shared, NEW c \in Clients, NEW i, i = client[c].of, i # 0, Terminate(c)
  PROVE  /\ Abandoned(i)'
         /\ stray \subseteq stray'
         /\ \A j \in Instances : proc[j].state # "none" \/ proc'[j].by \notin Clients
<1>1. i \in Instances /\ proc[i].state # "none"
  BY Row DEF Shared, Handles
<1>2. \A j \in Instances : proc'[j].by = proc[j].by
  BY <1>1 DEF Terminate, Typed, ProcsTyped, ProcRows
<1>3. \A j \in Instances : proc[j].state = "none" => proc[j].by \notin Clients
  BY OwnershipAssumption DEF Born
<1>4. stray \subseteq stray'
  BY DEF Terminate
<1>5. CASE Alive(i) /\ proc' = [proc EXCEPT ![i].state = "dead"]
  BY <1>1, <1>5, <1>2, <1>3, <1>4 DEF Abandoned, Typed, ProcsTyped
<1>6. CASE ~Alive(i) /\ proc' = proc
  BY <1>1, <1>6, <1>2, <1>3, <1>4 DEF Abandoned, Alive
<1>7. CASE stray' = stray \cup {i}
  BY <1>1, <1>7, <1>2, <1>3, <1>4 DEF Abandoned, Excused
<1> QED BY <1>5, <1>6, <1>7 DEF Terminate

LEMMA McpOwned ==
  ASSUME Typed, Born, Goes, Shared, Owned, Mcp
  PROVE  Owned'
<1>1. PICK c \in Clients :
        \/ Connect(c) \/ Acquire(c) \/ LockTimeout(c) \/ Probe(c) \/ Attach(c) \/ Spawn(c) \/ Await(c)
        \/ Record(c) \/ Undo(c) \/ Close(c) \/ Release(c) \/ Kill(c) \/ ClientDies(c)
  BY DEF Mcp
<1> DEFINE leased == client[c].lease
<1>e. PICK of, m : of = client[c].of /\ m = meta.instance
  OBVIOUS
<1>a. /\ of \in Instances \cup {0} /\ m \in Instances \cup {0} /\ 0 \notin Instances
  BY <1>e, Row
<1> USE <1>e
<1>b. UNCHANGED proc => \A j \in Instances : proc[j].state # "none" \/ proc'[j].by \notin Clients
  BY OwnershipAssumption DEF Born
<1>c. \A d \in Clients : d # c /\ client[c].pc \in Holding => client[d].pc \notin Holding
  BY OneHolder
<1>d. stray \subseteq stray' /\ unheard \subseteq unheard' => Excused \subseteq Excused'
  BY DEF Excused
<1>f. stray \subseteq stray' /\ unheard \subseteq unheard'
  BY <1>1 DEF Connect, Acquire, LockTimeout, Probe, Attach, Spawn, Await, Record, Undo, Terminate, Close,
              Release, Kill, ClientDies, Unheard
<1>g. Excused \subseteq Excused'
  BY <1>d, <1>f
<1>2. CASE Connect(c) \/ Acquire(c) \/ LockTimeout(c) \/ Close(c)
  <2>1. /\ UNCHANGED <<proc, meta, stray>> /\ client[c].pc \notin Starting
        /\ \E label \in {"wait", "probe", "release", "gone", "closing"} : Goto(c, label)
    BY <1>2 DEF Connect, Acquire, LockTimeout, Close, At, Starting
  <2>2. PICK label \in {"wait", "probe", "release", "gone", "closing"} : Becomes(c, label, of, leased)
    BY <2>1, Steps
  <2> QED BY <1>b, <1>g, <2>1, <2>2, OwnedStep
<1>3. CASE Attach(c)
  <2>1. /\ UNCHANGED <<proc, stray>> /\ client[c].pc = "attach" /\ meta'.instance = m
    BY <1>3 DEF Attach, At, Typed, FilesTyped, MetaRows
  <2>2. PICK lease : Becomes(c, "using", of, lease)
    BY <1>3, Steps DEF Attach
  <2> QED BY <1>b, <1>g, <2>1, <2>2, OwnedStep DEF Starting
<1>4. CASE ClientDies(c)
  <2>1. /\ UNCHANGED <<proc, meta>> /\ stray \subseteq stray'
        /\ client[c].pc \in Starting => of \in stray'
    BY <1>4 DEF ClientDies, At, Starting
  <2>2. Becomes(c, "gone", of, leased)
    BY <1>4, Steps DEF ClientDies, Gone
  <2>3. client[c].pc \in Starting => of \in Excused'
    BY <2>1 DEF Excused
  <2> QED BY <1>b, <1>g, <2>1, <2>2, <2>3, OwnedStep DEF Abandoned
<1>5. CASE Await(c)
  <2>1. UNCHANGED <<proc, meta, stray>> /\ client[c].pc = "await" /\ of # 0
    BY <1>5 DEF Await, At, Shared, Handles, Starting
  <2>2. PICK h \in Health : Goto(c, IF h = of THEN "record" ELSE "undo")
    BY <1>5 DEF Await
  <2>3. h = of => proc[of].state = "serving"
    <3>1. of \in Instances
      BY <1>a, <2>1
    <3> QED BY <3>1, Answers DEF Serving
  <2>4. PICK label \in {"record", "undo"} :
          Becomes(c, label, of, leased) /\ (label = "record" => proc'[of].state # "starting")
    BY <2>1, <2>2, <2>3, Steps
  <2> QED BY <1>b, <1>g, <2>1, <2>4, OwnedStep DEF Starting
<1>6. CASE Probe(c)
  <2>1. UNCHANGED <<proc, meta, stray>> /\ client[c].pc = "probe"
    BY <1>6 DEF Probe, At
  <2>2. ASSUME Unheard PROVE \A j \in Instances : Abandoned(j)'
    <3>1. \A d \in Clients : client[d].pc \notin Starting
      BY <1>c, <2>1 DEF Holding, Starting
    <3>2. ASSUME NEW j \in Instances, j = m PROVE Abandoned(j)'
      <4>1. CASE proc[j].state = "serving"
        <5>1. j \in unheard'
          BY <2>2, <3>2, <4>1 DEF Unheard, Serving
        <5> QED BY <5>1 DEF Abandoned, Excused
      <4>2. CASE proc[j].state # "serving"
        <5>1. m # 0 /\ proc[j].state # "starting"
          BY <1>a, <3>2 DEF Owned
        <5> QED BY <2>1, <4>2, <5>1 DEF Abandoned
      <4> QED BY <4>1, <4>2
    <3>3. \A j \in Instances : Abandoned(j) => Abandoned(j)'
      BY <1>g, <2>1 DEF Abandoned
    <3> HIDE DEF Abandoned
    <3> QED BY <1>a, <3>1, <3>2, <3>3 DEF Owned
  <2>4. PICK label, i : /\ Becomes(c, label, i, leased) /\ label \in {"spawn", "attach", "gone"}
                        /\ label = "spawn" => Unheard
    <3>1. PICK h \in Health : \/ Goto(c, "spawn") /\ Unheard
                              \/ client' = [client EXCEPT ![c].pc = "attach", ![c].of = h]
                              \/ Goto(c, "gone")
      BY <1>6 DEF Probe, Gone
    <3> QED BY <3>1, Steps
  <2>5. label = "spawn" => \A j \in Instances : Abandoned(j)'
    BY <2>2, <2>4
  <2> HIDE DEF Abandoned
  <2> QED BY <1>b, <1>g, <2>1, <2>4, <2>5, OwnedStep DEF Starting
<1>7. CASE Spawn(c)
  <2>1. /\ client[c].pc = "spawn" /\ meta' = NoFile /\ UNCHANGED stray
        /\ \A j \in Instances : Abandoned(j)
    BY <1>7 DEF Spawn, At, Owned
  <2>2. CASE Gone(c) /\ UNCHANGED proc
    <3>1. Becomes(c, "gone", of, leased)
      BY <2>2, Steps DEF Gone
    <3>2. m # 0 => Abandoned(m)'
      BY <1>a, <1>g, <2>1, <2>2 DEF Abandoned
    <3> QED BY <1>b, <1>g, <2>1, <2>2, <3>1, <3>2, OwnedStep DEF Starting, NoFile
  <2>3. ASSUME NEW i \in Fresh, proc' = [proc EXCEPT ![i] = [by |-> c, state |-> "starting"]],
               client' = [client EXCEPT ![c].pc = "await", ![c].of = i]
        PROVE  Owned'
    <3>1. Becomes(c, "await", i, leased)
      BY <2>3, Steps
    <3>2. \A j \in Instances \ {i} : Abandoned(j)'
      BY <1>g, <2>1, <2>3 DEF Abandoned, Typed, ProcsTyped
    <3>3. \A d \in Clients : client'[d].pc \notin {"record", "spawn"}
      BY <1>c, <2>1, <3>1 DEF Becomes, Holding
    <3>4. meta'.instance = 0
      BY <2>1 DEF NoFile
    <3>5. client'[c].pc \in Starting /\ client'[c].of = i
      BY <3>1 DEF Becomes, Starting
    <3> QED BY <3>2, <3>3, <3>4, <3>5 DEF Owned
  <2> QED BY <1>7, <2>2, <2>3 DEF Spawn
<1>8. CASE Record(c)
  <2>1. /\ UNCHANGED <<proc, stray>> /\ client[c].pc = "record" /\ m = 0
        /\ proc[of].state # "starting"
    BY <1>8 DEF Record, At, Shared, Handles, Owned, Starting
  <2>2. CASE Goto(c, "undo") /\ UNCHANGED meta
    <3>1. Becomes(c, "undo", of, leased)
      BY <2>2, Steps
    <3> QED BY <1>b, <1>g, <2>1, <2>2, <3>1, OwnedStep, ZenonT(40) DEF Starting
  <2>3. CASE /\ meta' = [instance |-> of, leases |-> {c}]
             /\ client' = [client EXCEPT ![c].pc = "using", ![c].lease = TRUE]
    <3>1. PICK lease : Becomes(c, "using", of, lease)
      BY <2>3, Steps
    <3>2. meta'.instance = of
      BY <2>3
    <3> QED BY <1>b, <1>g, <2>1, <3>1, <3>2, OwnedStep
  <2> QED BY <1>8, <2>2, <2>3 DEF Record
<1>9. CASE Undo(c)
  <2>1. UNCHANGED meta /\ client[c].pc = "undo" /\ of # 0 /\ Terminate(c)
    BY <1>9 DEF Undo, At, Shared, Handles, Starting
  <2>2. Becomes(c, "gone", of, leased)
    BY <1>9, Steps DEF Undo, Gone
  <2>3. /\ Abandoned(of)' /\ stray \subseteq stray'
        /\ \A j \in Instances : proc[j].state # "none" \/ proc'[j].by \notin Clients
    BY <2>1, Terminated
  <2> HIDE DEF Abandoned
  <2> QED BY <1>g, <2>1, <2>2, <2>3, OwnedStep
<1>10. CASE Release(c)
  <2>1. UNCHANGED <<proc, stray>> /\ client[c].pc = "release"
    BY <1>10 DEF Release, At
  <2>2. \/ meta'.instance = m
        \/ meta'.instance = 0 /\ (m # 0 => Abandoned(m)')
    <3>1. CASE UNCHANGED meta \/ meta' = [meta EXCEPT !.leases = Live(meta.leases \ {c})]
      BY <3>1 DEF Typed, FilesTyped, MetaRows
    <3>2. CASE meta' = NoFile /\ m = of /\ ~Alive(of)
      BY <2>1, <3>2 DEF NoFile, Abandoned, Alive
    <3>3. ASSUME NEW h \in Health, h \notin {0, of}, meta' = NoFile, m = of,
                 h = Refused => Unheard
          PROVE  meta'.instance = 0 /\ (m # 0 => Abandoned(m)')
      <4>1. CASE h \in Serving
        <5>1. of # 0 => of \notin Serving
          BY <3>3, <4>1 DEF Born
        <5> QED BY <1>a, <2>1, <3>3, <5>1 DEF NoFile, Owned, Abandoned, Serving
      <4>2. CASE Unheard
        <5>1. CASE m \in Serving
          <6>1. m \in Excused'
            BY <4>2, <5>1 DEF Unheard, Excused
          <6> QED BY <3>3, <6>1 DEF NoFile, Abandoned
        <5>2. CASE m \notin Serving
          BY <1>a, <2>1, <3>3, <5>2 DEF NoFile, Owned, Abandoned, Serving
        <5> QED BY <5>1, <5>2
      <4> QED BY <3>3, <4>1, <4>2, Answers
    <3>4. ASSUME NEW h \in Health,
                 IF h \in {0, of} THEN Goto(c, "kill") /\ UNCHANGED <<meta, lock, unheard>>
                 ELSE Gone(c) /\ meta' = NoFile /\ IF h = Refused THEN Unheard ELSE UNCHANGED unheard,
                 m = of
          PROVE  UNCHANGED meta \/ (meta'.instance = 0 /\ (m # 0 => Abandoned(m)'))
      <4>1. CASE h \in {0, of}
        BY <3>4, <4>1
      <4>2. CASE h \notin {0, of}
        <5>1. meta' = NoFile /\ (h = Refused => Unheard)
          BY <3>4, <4>2
        <5> QED BY <3>3, <3>4, <4>2, <5>1
      <4> QED BY <4>1, <4>2
    <3> HIDE DEF Abandoned
    <3> QED BY <1>10, <3>1, <3>2, <3>4 DEF Release
  <2>3. PICK label \in {"gone", "kill"} : Becomes(c, label, of, leased)
    BY <1>10, Steps DEF Release, Gone
  <2> HIDE DEF Abandoned
  <2> QED BY <1>b, <1>g, <2>1, <2>2, <2>3, OwnedStep DEF Starting
<1>11. CASE Kill(c)
  <2>1. client[c].pc = "kill" /\ of # 0 /\ m = of /\ Terminate(c) /\ meta' \in {meta, NoFile}
    BY <1>11 DEF Kill, At, Shared, Listed
  <2>2. Becomes(c, "gone", of, leased)
    BY <1>11, Steps DEF Kill, Gone
  <2>3. /\ Abandoned(of)' /\ stray \subseteq stray'
        /\ \A j \in Instances : proc[j].state # "none" \/ proc'[j].by \notin Clients
    BY <2>1, Terminated
  <2>4. meta'.instance \in {0, m}
    BY <1>11 DEF Kill, NoFile
  <2>5. Abandoned(m)'
    BY <2>1, <2>3 DEF Abandoned
  <2> HIDE DEF Abandoned
  <2> QED BY <1>g, <2>1, <2>2, <2>3, <2>4, <2>5, OwnedStep DEF Starting
<1> QED BY <1>1, <1>2, <1>3, <1>4, <1>5, <1>6, <1>7, <1>8, <1>9, <1>10, <1>11

LEMMA NextOwned ==
  ASSUME Typed, Born, Goes, Shared, Owned, [Next]_vars
  PROVE  Owned'
<1>1. CASE Mcp
  BY <1>1, McpOwned
<1>2. ASSUME NEW i \in Instances, NEW by \in {"user", "other"}, Outside(i, by) PROVE Owned'
  <2>1. UNCHANGED <<meta, client>> /\ Excused \subseteq Excused'
    BY <1>2 DEF Outside, Excused
  <2>2. \A j \in Instances : proc'[j].by = proc[j].by \/ proc'[j].by = by
    BY <1>2 DEF Outside, Fresh, Typed, ProcsTyped, ProcRows
  <2> QED BY <2>1, <2>2, OutsideOwned, OwnershipAssumption DEF Born
<1>3. ASSUME NEW i \in Instances, Bind(i) \/ StopServing(i) \/ Die(i) \/ ExitEvent(i) PROVE Owned'
  <2>1. UNCHANGED <<meta, client>> /\ Excused \subseteq Excused'
    BY <1>3 DEF Bind, StopServing, Die, ExitEvent, Unmoved, Excused
  <2>2. \A j \in Instances : proc'[j].by = proc[j].by
    BY <1>3 DEF Bind, StopServing, Die, ExitEvent, SetState, Typed, ProcsTyped, ProcRows
  <2> QED BY <2>1, <2>2, OutsideOwned, OwnershipAssumption DEF Born
<1>4. CASE Desktop
  <2>1. UNCHANGED <<meta, client>> /\ Excused \subseteq Excused'
    BY <1>4 DEF Desktop, Start, Answer, Probed, Polled, Failed, Stop, Stopped, Quit, QuitEnds, DesktopDies, Unmoved,
                Excused
  <2>2. UNCHANGED proc \/ \E i \in Fresh : proc' = [proc EXCEPT ![i] = [by |-> "desktop", state |-> "starting"]]
    BY <1>4 DEF Desktop, Start, Answer, Probed, Polled, Failed, Stop, Stopped, Quit, QuitEnds, DesktopDies
  <2>3. \A j \in Instances : proc[j].state = "none" => proc'[j].by \notin Clients
    <3>1. CASE UNCHANGED proc
      BY <3>1, OwnershipAssumption DEF Born
    <3>2. ASSUME NEW i \in Fresh, proc' = [proc EXCEPT ![i] = [by |-> "desktop", state |-> "starting"]]
          PROVE  \A j \in Instances : proc[j].state = "none" => proc'[j].by \notin Clients
      BY <3>2, OwnershipAssumption DEF Born, Fresh, Typed, ProcsTyped, ProcRows
    <3> QED BY <2>2, <3>1, <3>2
  <2> QED BY <2>1, <2>3, OutsideOwned
<1>5. CASE UNCHANGED vars
  BY <1>5, OutsideOwned, OwnershipAssumption DEF vars, Born, Excused
<1> QED BY <1>1, <1>2, <1>3, <1>4, <1>5 DEF Next, Runtimes

-----------------------------------------------------------------------------
(* Desktop and its child.                                                  *)

(* Only Desktop's start makes a process of Desktop's; what is dead stays so. *)
Quiet ==
  \A i \in Instances :
    /\ proc'[i].by = "desktop" /\ Alive(i)' => proc[i].by = "desktop" /\ Alive(i)
    /\ proc[i].state = "dead" => proc'[i] = proc[i]

LEMMA StateQuiet ==
  ASSUME Typed, Born, NEW i \in Instances, NEW s \in {"serving", "stopping", "dead"},
         SetState(i, s), Alive(i)
  PROVE  Quiet
  BY DEF Quiet, SetState, Alive, Typed, ProcsTyped, ProcRows

LEMMA SpawnQuiet ==
  ASSUME Typed, NEW i \in Fresh, NEW by, by # "desktop", NEW s,
         proc' = [proc EXCEPT ![i] = [by |-> by, state |-> s]]
  PROVE  Quiet
  BY DEF Quiet, Fresh, Alive, Typed, ProcsTyped, ProcRows

LEMMA SameQuiet == ASSUME UNCHANGED proc PROVE Quiet
  BY DEF Quiet, Alive

LEMMA OutsideQuiet == ASSUME Typed, Born, Runtimes \/ Mcp PROVE Quiet
<1>1. ASSUME NEW i \in Instances, Bind(i) \/ StopServing(i) \/ Die(i) \/ ExitEvent(i) PROVE Quiet
  BY <1>1, StateQuiet, SameQuiet DEF Bind, StopServing, Die, ExitEvent, Alive
<1>2. ASSUME NEW i \in Instances, NEW by \in {"user", "other"}, Outside(i, by) PROVE Quiet
  BY <1>2, SpawnQuiet DEF Outside
<1>3. ASSUME NEW c \in Clients, Undo(c) \/ Kill(c) PROVE Quiet
  <2>1. client[c].of \in Instances
    BY <1>3 DEF Typed, HandlesSet, ClientsTyped, ClientRows, Undo, Kill, At
  <2> QED BY <1>3, <2>1, StateQuiet, SameQuiet DEF Undo, Kill, Terminate, SetState
<1>4. ASSUME NEW c \in Clients, Spawn(c) PROVE Quiet
  BY <1>4, SpawnQuiet, SameQuiet, OwnershipAssumption DEF Spawn
<1>5. CASE Mcp
  BY <1>3, <1>4, <1>5, SameQuiet DEF Mcp, Connect, Acquire, LockTimeout, Probe, Attach, Await, Record,
     Close, Release, ClientDies
<1> QED BY <1>1, <1>2, <1>5 DEF Runtimes

LEMMA InitKept == ASSUME Init PROVE Kept /\ Seen
<1> USE DEF Init, NoDesk
<1>1. Kept
  BY DEF Kept, Alive
<1>2. Seen
  BY DEF Seen
<1> QED BY <1>1, <1>2

LEMMA OutsideKept ==
  ASSUME Typed, Born, Goes, Quiet, Kept, Seen, UNCHANGED <<desk, exits>>, stray \subseteq stray'
  PROVE  Kept' /\ Seen'
<1>1. desk.child \in Instances \cup {0} /\ exits \subseteq Instances /\ 0 \notin Instances
  BY OwnershipAssumption DEF Typed, DeskTyped, DeskRows, SetsTyped
<1>2. desk.child # 0 => /\ proc[desk.child].state # "none" /\ proc'[desk.child].by = "desktop"
                        /\ proc[desk.child].state # "starting" => proc'[desk.child].state # "starting"
  BY <1>1, OwnershipAssumption DEF Kept, Born, Goes
<1>3. \A i \in exits : proc'[i] = [by |-> "desktop", state |-> "dead"]
  BY <1>1 DEF Kept, Quiet
<1>4. \A i \in Instances \ stray' : proc'[i].by = "desktop" /\ Alive(i)' => desk.child = i /\ Open
  BY DEF Kept, Quiet
<1>5. Kept'
  BY <1>2, <1>3, <1>4 DEF Kept, Open
<1>6. Seen'
  BY <1>2 DEF Seen
<1> QED BY <1>5, <1>6

(* What Desktop reads of itself.                                           *)
LEMMA DeskRow ==
  ASSUME Typed
  PROVE  /\ desk \in DeskRows /\ desk.child \in Instances \cup {0} /\ exits \subseteq Instances
         /\ 0 \notin Instances /\ None \notin Instances \cup {0}
<1>1. desk \in DeskRows /\ exits \subseteq Instances
  BY DEF Typed, DeskTyped, SetsTyped
<1>2. desk.child \in Instances \cup {0}
  BY <1>1 DEF DeskRows
<1>3. 0 \notin Instances /\ None \notin Instances \cup {0}
  <2>1. Instances \subseteq Nat \ {0} /\ None \notin Nat
    BY OwnershipAssumption
  <2>2. 0 \in Nat
    OBVIOUS
  <2> QED BY <2>1, <2>2, Zenon
<1> QED BY <1>1, <1>2, <1>3

LEMMA StepsKept ==
  ASSUME Typed, Kept, Seen, UNCHANGED <<proc, exits>>,
         \/ (Start \/ Answer \/ Polled \/ Stop \/ Quit) /\ UNCHANGED stray
         \/ QuitEnds
  PROVE  Kept' /\ Seen'
<1> USE DeskRow DEF DeskRows, Kept, Seen, Open, Alive
<1>1. CASE Start
  BY <1>1 DEF Start
<1>2. CASE Answer
  <2>1. PICK h \in Health : desk' = [desk EXCEPT !.seen = h]
    BY <1>2 DEF Answer
  <2>2. desk.child # 0 /\ h = desk.child => proc[desk.child].state = "serving"
    <3>1. desk.child # 0 => desk.child \in Instances
      OBVIOUS
    <3> QED BY <3>1, Answers DEF Serving
  <2> QED BY <1>2, <2>1, <2>2 DEF Answer
<1>3. CASE Polled
  <2>1. CASE desk' = [desk EXCEPT !.start = "none"]
    BY <1>3, <2>1 DEF Polled
  <2>2. CASE desk.child # 0 /\ desk.seen = desk.child /\ desk' = [desk EXCEPT !.start = "none", !.status = "running"]
    BY <1>3, <2>2 DEF Polled
  <2>3. CASE desk' = [desk EXCEPT !.start = "failing", !.halting = desk.child]
    BY <1>3, <2>3 DEF Polled
  <2>4. CASE desk' = [desk EXCEPT !.seen = None]
    BY <1>3, <2>4 DEF Polled
  <2> QED BY <1>3, <2>1, <2>2, <2>3, <2>4 DEF Polled
<1>4. CASE Stop
  <2>1. CASE desk.child = 0 /\ desk' = [desk EXCEPT !.stale = TRUE, !.status = "stopped", !.quit = desk.quit]
    BY <1>4, <2>1 DEF Stop
  <2>2. CASE desk.child # 0 /\ desk' = [desk EXCEPT !.stale = TRUE, !.stop = TRUE, !.halting = desk.child,
                                                   !.quit = desk.quit]
    BY <1>4, <2>2 DEF Stop
  <2> QED BY <1>4, <2>1, <2>2 DEF Stop, EndChild
<1>5. CASE Quit
  <2>1. CASE desk.stop /\ desk' = [desk EXCEPT !.quit = "stopping"]
    BY <1>5, <2>1 DEF Quit
  <2>2. CASE desk.child = 0 /\ desk' = [desk EXCEPT !.stale = TRUE, !.status = "stopped", !.quit = "quitting"]
    BY <1>5, <2>2 DEF Quit
  <2>3. CASE /\ desk.child # 0
             /\ desk' = [desk EXCEPT !.stale = TRUE, !.stop = TRUE, !.halting = desk.child, !.quit = "stopping"]
    BY <1>5, <2>3 DEF Quit
  <2> QED BY <1>5, <2>1, <2>2, <2>3 DEF Quit, EndChild
<1>6. CASE QuitEnds
  <2>1. CASE desk' = [desk EXCEPT !.quit = "no"] /\ UNCHANGED stray
    BY <2>1, <1>6 DEF QuitEnds
  <2>2. CASE /\ desk' = [desk EXCEPT !.quit = "ended"]
             /\ stray' = IF desk.late THEN stray \cup ({desk.child} \ {0}) ELSE stray
    <3>1. desk.child # 0 => desk.child \in stray'
      BY <1>6, <2>2 DEF QuitEnds
    <3>2. /\ \A f \in {"status", "child", "start", "stale", "stop", "seen", "halting", "late"} : desk'[f] = desk[f]
          /\ desk'.quit = "ended"
      BY <2>2
    <3>3. \A i \in Instances \ stray' : ~(proc'[i].by = "desktop" /\ Alive(i)')
      BY <2>2, <3>1
    <3> QED BY <1>6, <3>2, <3>3 DEF QuitEnds
  <2> QED BY <1>6, <2>1, <2>2 DEF QuitEnds
<1> QED BY <1>1, <1>2, <1>3, <1>4, <1>5, <1>6

(* A child whose exit is known is dead: Desktop may forget it.             *)
LEMMA EndsKept ==
  ASSUME Typed, Kept, Seen, UNCHANGED <<proc, exits, stray>>, Failed \/ Stopped
  PROVE  Kept' /\ Seen'
<1> USE DeskRow DEF DeskRows, Kept, Seen, Open, Alive, Halted
<1>1. CASE Failed
  BY <1>1 DEF Failed
<1>2. CASE Stopped
  BY <1>2 DEF Stopped
<1> QED BY <1>1, <1>2

LEMMA ExitKept ==
  ASSUME Typed, Kept, Seen, NEW i \in Instances, ExitEvent(i), UNCHANGED <<proc, stray>>
  PROVE  Kept' /\ Seen'
<1> USE DeskRow DEF DeskRows, Kept, Seen, Open, Alive
<1>1. proc[i] = [by |-> "desktop", state |-> "dead"] /\ exits' = exits \cup {i}
  BY DEF ExitEvent
<1>2. ASSUME NEW s \in {"stopped", "error"}, desk.child = i, desk' = [desk EXCEPT !.status = s, !.child = 0]
      PROVE  Kept' /\ Seen'
  <2>1. Kept'
    BY <1>1, <1>2
  <2>2. Seen'
    BY <1>1, <1>2
  <2> QED BY <2>1, <2>2
<1>3. CASE UNCHANGED desk /\ (desk.child = i => desk.halting = i)
  BY <1>1, <1>3
<1> QED BY <1>2, <1>3 DEF ExitEvent

LEMMA DiesKept ==
  ASSUME Typed, Kept, Seen, DesktopDies
  PROVE  Kept' /\ Seen'
  BY DeskRow DEF DeskRows, Kept, Seen, Open, Alive, DesktopDies

LEMMA ProbedKept ==
  ASSUME Typed, Born, Goes, Kept, Seen, Probed
  PROVE  Kept' /\ Seen'
<1>1. ASSUME UNCHANGED proc,
             \/ desk' = [desk EXCEPT !.start = "none"]
             \/ desk' = [desk EXCEPT !.start = "none", !.status = "error"]
      PROVE  Kept' /\ Seen'
  <2> USE DeskRow DEF DeskRows, Kept, Seen, Open, Alive
  <2>1. desk.start = "probe" /\ UNCHANGED <<exits, stray>>
    BY DEF Probed
  <2>2. CASE desk' = [desk EXCEPT !.start = "none"]
    BY <1>1, <2>1, <2>2
  <2>3. CASE desk' = [desk EXCEPT !.start = "none", !.status = "error"]
    BY <1>1, <2>1, <2>3
  <2> QED BY <1>1, <2>2, <2>3
<1>2. ASSUME NEW i \in Fresh, ~desk.stale, proc' = [proc EXCEPT ![i] = [by |-> "desktop", state |-> "starting"]],
             desk' = [desk EXCEPT !.start = "poll", !.seen = None, !.child = i]
      PROVE  Kept' /\ Seen'
  <2>1. /\ i \in Instances /\ proc[i].state = "none" /\ proc'[i] = [by |-> "desktop", state |-> "starting"]
        /\ \A j \in Instances \ {i} : proc'[j] = proc[j]
    BY <1>2 DEF Fresh, Typed, ProcsTyped
  <2>2. /\ desk.start = "probe" /\ Open /\ UNCHANGED <<exits, stray>>
    BY DEF Probed
  <2>6. i \notin exits
    BY <2>1 DEF Kept
  <2>3. /\ desk'.child = i /\ desk'.start = "poll" /\ desk'.seen = None /\ desk'.status = desk.status
        /\ desk'.stop = desk.stop /\ desk'.stale = desk.stale /\ desk'.halting = desk.halting /\ desk'.quit = desk.quit
    BY <1>2, DeskRow DEF DeskRows
  <2>4. Kept'
    BY <1>2, <2>1, <2>2, <2>3, <2>6, DeskRow DEF Kept, Open, Alive
  <2>5. Seen'
    BY <2>1, <2>2, <2>3, DeskRow DEF Seen
  <2> QED BY <2>4, <2>5
<1> QED BY <1>1, <1>2 DEF Probed

LEMMA NextKept ==
  ASSUME Typed, Born, Goes, Kept, Seen, [Next]_vars
  PROVE  Kept' /\ Seen'
<1>1. ASSUME NEW i \in Instances, ExitEvent(i) PROVE Kept' /\ Seen'
  BY <1>1, ExitKept DEF ExitEvent
<1>2. CASE Mcp
  BY <1>2, OutsideQuiet, OutsideKept
     DEF Mcp, Connect, Acquire, LockTimeout, Probe, Attach, Spawn, Await, Record, Undo, Terminate, Close,
         Release, Kill, ClientDies
<1>3. ASSUME NEW i \in Instances,
             \/ Bind(i) \/ StopServing(i) \/ Die(i)
             \/ \E by \in {"user", "other"} : Outside(i, by)
      PROVE  Kept' /\ Seen'
  <2>1. Runtimes
    BY <1>3 DEF Runtimes
  <2> QED BY <1>3, <2>1, OutsideQuiet, OutsideKept DEF Bind, StopServing, Die, Outside
<1>4. CASE Desktop
  BY <1>4, StepsKept, EndsKept, DiesKept, ProbedKept
     DEF Desktop, Start, Answer, Polled, Failed, Stop, Stopped, Quit, QuitEnds
<1>5. CASE UNCHANGED vars
  BY <1>5, SameQuiet, OutsideKept DEF vars
<1> QED BY <1>1, <1>2, <1>3, <1>4, <1>5 DEF Next, Runtimes

-----------------------------------------------------------------------------
(* Theorems.                                                               *)

LEMMA Invariant == Spec => [](Typed /\ Born /\ Shared)
<1>1. Init => Typed /\ Born /\ Shared
  BY InitTyped, InitShared
<1>2. Typed /\ Born /\ Shared /\ [Next]_vars => (Typed /\ Born /\ Shared)'
  BY NextTyped, NextGoes, NextShared
<1> QED BY <1>1, <1>2, PTL DEF Spec

(* The variables keep their types: a client holds a handle whenever it is  *)
(* about to use it.                                                        *)
THEOREM TypeCorrect == Spec => []TypeOK
  BY Invariant, TypeParts, PTL

(* Every Runtime that a client started is recorded or in the hands of the   *)
(* one who holds the lock, unless a client died over it, could not kill it, *)
(* or did not hear its answer.                                              *)
THEOREM StartedOwned == Spec => []StartedIsOwned
<1> DEFINE I == Typed /\ Born /\ Shared /\ Owned
<1>1. Init => I
  BY InitTyped, InitShared, InitOwned
<1>2. I /\ [Next]_vars => I'
  BY NextTyped, NextGoes, NextShared, NextOwned
<1>3. I => StartedIsOwned
  <2>1. Starting \subseteq Holding
    BY DEF Starting, Holding
  <2> QED BY <2>1 DEF Owned, Abandoned, Excused, Shared, Locked, StartedIsOwned
<1> QED BY <1>1, <1>2, <1>3, PTL DEF Spec

(* A client ends a Runtime only as its last owner: what fails to start is  *)
(* nobody else's, and what is stopped has no other living lease.           *)
THEOREM LastOwnerStops == Spec => OnlyLastOwnerStops
<1>1. ASSUME Typed, Born, Shared, NEW c \in Clients, At(c, "kill") \/ At(c, "undo")
      PROVE  /\ proc[client[c].of].by \in Clients
             /\ \A d \in Clients \ {c} : client[d].of = client[c].of /\ client[d].lease => At(d, "gone")
  <2>1. CASE At(c, "undo")
    <3>1. client[c].pc \in Starting
      BY <2>1 DEF At, Starting
    <3> QED BY <1>1, <3>1 DEF Shared, Handles
  <2>2. CASE At(c, "kill")
    <3>1. /\ meta.instance = client[c].of /\ meta.instance # 0 /\ proc[meta.instance].by \in Clients
          /\ \A d \in meta.leases \ {c} : client[d].pc = "gone"
      BY <1>1, <2>2 DEF At, Shared, Listed
    <3> QED BY <1>1, <3>1 DEF At, Shared, Listed
  <2> QED BY <1>1, <2>1, <2>2
<1>2. Typed /\ Born /\ Shared =>
        [\A c \in Clients :
           LET i == client[c].of IN
           (At(c, "kill") \/ At(c, "undo")) /\ At(c, "gone")' /\ Alive(i) /\ ~Alive(i)' =>
             /\ proc[i].by \in Clients
             /\ \A d \in Clients \ {c} : client[d].of = i /\ client[d].lease => At(d, "gone")]_vars
  BY <1>1
<1> QED BY <1>2, Invariant, PTL DEF OnlyLastOwnerStops

(* Unless it dies, or is asked to start its Runtime while it quits, Desktop *)
(* keeps its Runtime as long as that lives, and offers it only while it is  *)
(* known to serve.                                                          *)
THEOREM DesktopKeeps == Spec => []DesktopKeepsItsRuntime
<1> DEFINE I == Typed /\ Born /\ Shared /\ Kept /\ Seen
<1>1. Init => I
  BY InitTyped, InitShared, InitKept
<1>2. I /\ [Next]_vars => I'
  BY NextTyped, NextGoes, NextShared, NextKept
<1>3. I => DesktopKeepsItsRuntime
  BY DEF Kept, Seen, DesktopKeepsItsRuntime
<1> QED BY <1>1, <1>2, <1>3, PTL DEF Spec
=============================================================================
