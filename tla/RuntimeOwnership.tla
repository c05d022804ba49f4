-------------------------- MODULE RuntimeOwnership --------------------------
(***************************************************************************)
(* Who starts and stops the Runtime process behind one endpoint: MCP        *)
(* clients (apps/runtime/process.py), which share a Runtime through a lock  *)
(* file and a metadata file with a lease each, and the Desktop shell        *)
(* (electron/runtimeProcess.ts), which only ever uses a Runtime of its own. *)
(*                                                                         *)
(* An MCP client is one process: it connects, uses the Runtime, closes and  *)
(* ends, or dies at any point. Desktop's manager runs on one event loop:    *)
(* what it does between two awaits is one step.                             *)
(***************************************************************************)
EXTENDS Integers, FiniteSets

CONSTANTS
  Clients,        \* MCP client processes
  Instances,      \* Runtime processes, 1..n, in the order in which they are spawned
  Scenarios,      \* bounds: clients, whether Desktop runs, processes that end or hang unasked
  None

ASSUME OwnershipAssumption ==
  /\ Instances \subseteq Nat \ {0} /\ IsFiniteSet(Instances)
  /\ Scenarios \subseteq [clients : Nat, desktop : BOOLEAN, faults : Nat]
  /\ Clients \cap {"desktop", "user", "other", None} = {}
  /\ None \notin Nat \cup {"desktop", "user", "other"}

VARIABLES
  proc,       \* a Runtime process: who spawned it, and how far it is
  signalled,  \* processes Desktop has told to end
  meta,       \* the metadata file: the instance (0: no file) and the leases
  lock,       \* the holder of the endpoint's lock file
  client,     \* what each MCP client does, and the Runtime it has a handle on
  desk,       \* RuntimeProcessManager, and whether the application quits
  exits,      \* processes whose exit event Desktop has received
  stray,      \* history: processes left behind by who died, could not kill, or quit after a late start
  unheard,    \* history: processes a client took for gone, or for another's, while they served
  faults

vars == <<proc, signalled, meta, lock, client, desk, exits, stray, unheard, faults>>

NoFile == [instance |-> 0, leases |-> {}]
NoDesk == [status |-> "stopped", child |-> 0, start |-> "none", stale |-> FALSE,
           seen |-> None, stop |-> FALSE, halting |-> 0, quit |-> "no", late |-> FALSE]

Init ==
  /\ proc = [i \in Instances |-> [by |-> None, state |-> "none"]]
  /\ signalled = {} /\ exits = {} /\ stray = {} /\ unheard = {}
  /\ meta = NoFile /\ lock = None
  /\ \E s \in Scenarios, S \in SUBSET Clients :
       /\ Cardinality(S) = s.clients /\ faults = s.faults
       /\ client = [c \in Clients |-> [pc |-> IF c \in S THEN "idle" ELSE "gone", of |-> 0, lease |-> FALSE]]
       /\ desk = [NoDesk EXCEPT !.quit = IF s.desktop THEN "no" ELSE "ended"]

Alive(i) == proc[i].state \in {"starting", "serving", "stopping"}
Serving == {i \in Instances : proc[i].state = "serving"}
Fresh == {i \in Instances : proc[i].state = "none" /\ \A j \in Instances : j < i => proc[j].state # "none"}
Compatible(i) == proc[i].by # "other"

\* What a request to /health finds: the instance that proves its identity, 0 when
\* no answer comes in time, -1 when one comes that is no proof (not 200, not JSON).
Refused == -1
Health == Serving \cup {0} \cup (IF Serving = {} THEN {} ELSE {Refused})

Faults == faults > 0 /\ faults' = faults - 1

----------------------------------------------------------------------------
(* Runtime processes.                                                       *)

SetState(i, s) == proc' = [proc EXCEPT ![i].state = s]

\* The endpoint has one listener; who finds it taken exits.
Bind(i) ==
  /\ proc[i].state = "starting"
  /\ SetState(i, IF Serving = {} THEN "serving" ELSE "dead")
  /\ UNCHANGED <<signalled, meta, lock, client, desk, exits, stray, unheard, faults>>

\* Told to end, or on its own, a Runtime stops listening, closes its services and exits.
StopServing(i) ==
  /\ proc[i].state = "serving" /\ SetState(i, "stopping")
  /\ IF i \in signalled THEN UNCHANGED faults ELSE Faults
  /\ UNCHANGED <<signalled, meta, lock, client, desk, exits, stray, unheard>>

Die(i) ==
  /\ Alive(i) /\ SetState(i, "dead")
  /\ IF i \in signalled \/ proc[i].state = "stopping" THEN UNCHANGED faults ELSE Faults
  /\ UNCHANGED <<signalled, meta, lock, client, desk, exits, stray, unheard>>

\* A Runtime started by hand, or an unrelated service.
Outside(i, by) ==
  /\ i \in Fresh /\ Serving = {} /\ Faults
  /\ proc' = [proc EXCEPT ![i] = [by |-> by, state |-> "serving"]]
  /\ UNCHANGED <<signalled, meta, lock, client, desk, exits, stray, unheard>>

----------------------------------------------------------------------------
(* An MCP client: ensure_runtime.                                           *)

At(c, p) == client[c].pc = p
Goto(c, p) == client' = [client EXCEPT ![c].pc = p]
Live(S) == {c \in S : ~At(c, "gone")}
Gone(c) == Goto(c, "gone") /\ lock' = IF lock = c THEN None ELSE lock

Unheard == unheard' = unheard \cup (Serving \cap {meta.instance})

Connect(c) ==
  /\ At(c, "idle") /\ Goto(c, "wait")
  /\ UNCHANGED <<proc, signalled, meta, lock, desk, exits, stray, unheard, faults>>

Acquire(c) ==
  /\ At(c, "wait") \/ At(c, "closing")
  /\ lock = None /\ lock' = c
  /\ Goto(c, IF At(c, "wait") THEN "probe" ELSE "release")
  /\ UNCHANGED <<proc, signalled, meta, desk, exits, stray, unheard, faults>>

LockTimeout(c) ==
  /\ At(c, "wait") \/ At(c, "closing")
  /\ lock # None /\ Goto(c, "gone")
  /\ UNCHANGED <<proc, signalled, meta, lock, desk, exits, stray, unheard, faults>>

Probe(c) ==
  /\ At(c, "probe")
  /\ \E h \in Health :
       IF h = 0 THEN Goto(c, "spawn") /\ Unheard /\ UNCHANGED lock
       ELSE IF h # Refused /\ Compatible(h)
       THEN client' = [client EXCEPT ![c].pc = "attach", ![c].of = h] /\ UNCHANGED <<lock, unheard>>
       ELSE Gone(c) /\ UNCHANGED unheard
  /\ UNCHANGED <<proc, signalled, meta, desk, exits, stray, faults>>

\* A Runtime that the metadata describes is shared; any other is only used.
Attach(c) ==
  LET managed == meta.instance = client[c].of /\ Alive(meta.instance) IN
  /\ At(c, "attach") /\ lock' = None
  /\ meta' = IF managed THEN [meta EXCEPT !.leases = Live(@) \cup {c}] ELSE meta
  /\ client' = [client EXCEPT ![c].pc = "using", ![c].lease = managed]
  /\ UNCHANGED <<proc, signalled, desk, exits, stray, unheard, faults>>

\* A record of what cannot be reached is removed, and a Runtime is spawned.
Spawn(c) ==
  /\ At(c, "spawn") /\ meta' = NoFile
  /\ \/ \E i \in Fresh :
          /\ proc' = [proc EXCEPT ![i] = [by |-> c, state |-> "starting"]]
          /\ client' = [client EXCEPT ![c].pc = "await", ![c].of = i]
          /\ UNCHANGED lock
     \/ Gone(c) /\ UNCHANGED proc
  /\ UNCHANGED <<signalled, desk, exits, stray, unheard, faults>>

\* Only the child's own identity will do; the wait ends after a while, or at once
\* when somebody else answers.
Await(c) ==
  LET i == client[c].of IN
  /\ At(c, "await")
  /\ \E h \in Health : Goto(c, IF h = i THEN "record" ELSE "undo")
  /\ UNCHANGED <<proc, signalled, meta, lock, desk, exits, stray, unheard, faults>>

Record(c) ==
  /\ At(c, "record")
  /\ \/ /\ meta' = [instance |-> client[c].of, leases |-> {c}] /\ lock' = None
        /\ client' = [client EXCEPT ![c].pc = "using", ![c].lease = TRUE]
     \/ Goto(c, "undo") /\ UNCHANGED <<meta, lock>>
  /\ UNCHANGED <<proc, signalled, desk, exits, stray, unheard, faults>>

\* The process group is told to end, then killed; that fails when it survives.
Terminate(c) ==
  LET i == client[c].of IN
  \/ proc' = (IF Alive(i) THEN [proc EXCEPT ![i].state = "dead"] ELSE proc) /\ UNCHANGED <<stray, faults>>
  \/ Alive(i) /\ Faults /\ stray' = stray \cup {i} /\ UNCHANGED proc

MUT_Undo(c) ==  \* the child of a start that failed is forgotten
  /\ At(c, "undo") /\ Gone(c)
  /\ UNCHANGED <<proc, signalled, meta, desk, exits, stray, unheard, faults>>

Undo(c) ==
  /\ At(c, "undo") /\ Terminate(c) /\ Gone(c)
  /\ UNCHANGED <<signalled, meta, desk, exits, unheard>>

----------------------------------------------------------------------------
(* An MCP client: RuntimeProcess.close.                                     *)

Close(c) ==
  /\ At(c, "using") /\ Goto(c, IF client[c].lease THEN "closing" ELSE "gone")
  /\ UNCHANGED <<proc, signalled, meta, lock, desk, exits, stray, unheard, faults>>

MUT_Release(c) ==  \* the leases of other clients are not counted
  /\ At(c, "release")
  /\ IF meta.instance # client[c].of THEN Gone(c) /\ UNCHANGED meta
     ELSE Goto(c, "kill") /\ UNCHANGED <<meta, lock>>
  /\ UNCHANGED <<proc, signalled, desk, exits, stray, unheard, faults>>

\* The last lease stops the Runtime, unless the endpoint now belongs to another: what
\* answers without the Runtime's identity is taken for one, the Runtime itself included.
Release(c) ==
  LET i == client[c].of
      others == Live(meta.leases \ {c})
  IN
  /\ At(c, "release")
  /\ \/ meta.instance # i /\ Gone(c) /\ UNCHANGED <<meta, unheard>>
     \/ meta.instance = i /\ others # {} /\ Gone(c) /\ meta' = [meta EXCEPT !.leases = others] /\ UNCHANGED unheard
     \/ meta.instance = i /\ others = {} /\ ~Alive(i) /\ Gone(c) /\ meta' = NoFile /\ UNCHANGED unheard
     \/ /\ meta.instance = i /\ others = {} /\ Alive(i)
        /\ \E h \in Health :
             IF h \in {0, i} THEN Goto(c, "kill") /\ UNCHANGED <<meta, lock, unheard>>
             ELSE Gone(c) /\ meta' = NoFile /\ IF h = Refused THEN Unheard ELSE UNCHANGED unheard
  /\ UNCHANGED <<proc, signalled, desk, exits, stray, faults>>

Kill(c) ==
  /\ At(c, "kill") /\ Terminate(c) /\ Gone(c)
  /\ meta' = IF stray' = stray THEN NoFile ELSE meta
  /\ UNCHANGED <<signalled, desk, exits, unheard>>

\* A client dies; the lock is free, the child it was starting lives on.
ClientDies(c) ==
  /\ ~At(c, "idle") /\ ~At(c, "gone") /\ Faults /\ Gone(c)
  /\ stray' = IF At(c, "await") \/ At(c, "record") \/ At(c, "undo") THEN stray \cup {client[c].of} ELSE stray
  /\ UNCHANGED <<proc, signalled, meta, desk, exits, unheard>>

----------------------------------------------------------------------------
(* Desktop: RuntimeProcessManager.                                          *)

Open == desk.quit # "ended"
Unmoved == UNCHANGED <<meta, lock, client, unheard>>

\* A request while something is under way changes nothing. One that comes while the
\* application quits, after its stop, is late.
Start ==
  /\ desk.quit \in {"no", "quitting"}
  /\ desk.child = 0 /\ desk.start = "none" /\ ~desk.stop
  /\ desk' = [desk EXCEPT !.status = "starting", !.start = "probe", !.stale = FALSE, !.seen = None,
                          !.late = (desk.quit = "quitting")]
  /\ UNCHANGED <<proc, signalled, exits, stray, faults>> /\ Unmoved

\* The probe is answered; its answer is looked at later.
Answer ==
  /\ Open /\ desk.start \in {"probe", "poll"} /\ desk.seen = None
  /\ \E h \in Health : desk' = [desk EXCEPT !.seen = h]
  /\ UNCHANGED <<proc, signalled, exits, stray, faults>> /\ Unmoved

MUT_Probed ==  \* the generation is not looked at after the await
  /\ Open /\ desk.start = "probe" /\ desk.seen # None
  /\ IF desk.seen # 0
     THEN desk' = [desk EXCEPT !.start = "none", !.status = "error"] /\ UNCHANGED proc
     ELSE \E i \in Fresh :
            /\ proc' = [proc EXCEPT ![i] = [by |-> "desktop", state |-> "starting"]]
            /\ desk' = [desk EXCEPT !.start = "poll", !.seen = None, !.child = i]
  /\ UNCHANGED <<signalled, exits, stray, faults>> /\ Unmoved

\* An endpoint that answers is never attached to.
Probed ==
  /\ Open /\ desk.start = "probe" /\ desk.seen # None
  /\ IF desk.stale THEN desk' = [desk EXCEPT !.start = "none"] /\ UNCHANGED proc
     ELSE IF desk.seen # 0
     THEN desk' = [desk EXCEPT !.start = "none", !.status = "error"] /\ UNCHANGED proc
     ELSE \/ \E i \in Fresh :
               /\ proc' = [proc EXCEPT ![i] = [by |-> "desktop", state |-> "starting"]]
               /\ desk' = [desk EXCEPT !.start = "poll", !.seen = None, !.child = i]
          \/ desk' = [desk EXCEPT !.start = "none", !.status = "error"] /\ UNCHANGED proc
  /\ UNCHANGED <<signalled, exits, stray, faults>> /\ Unmoved

\* Another's answer, or none for too long, fails the start.
Polled ==
  LET fails == /\ desk' = [desk EXCEPT !.start = "failing", !.halting = desk.child]
               /\ signalled' = signalled \cup {desk.child}
  IN
  /\ Open /\ desk.start = "poll" /\ desk.seen # None
  /\ IF desk.stale \/ desk.child = 0 THEN desk' = [desk EXCEPT !.start = "none"] /\ UNCHANGED signalled
     ELSE IF desk.seen = desk.child
     THEN desk' = [desk EXCEPT !.start = "none", !.status = "running"] /\ UNCHANGED signalled
     ELSE \/ fails
          \/ desk.seen = 0 /\ desk' = [desk EXCEPT !.seen = None] /\ UNCHANGED signalled
  /\ UNCHANGED <<proc, exits, stray, faults>> /\ Unmoved

\* terminateProcessTree has seen the child exit.
Halted == desk.child \in exits \cup {0}

\* A failed start ends. What it could not kill stays Desktop's.
Failed ==
  /\ Open /\ desk.start = "failing"
  /\ desk' = [desk EXCEPT !.start = "none", !.halting = 0, !.status = "error",
                          !.child = IF Halted THEN 0 ELSE desk.child]
  /\ IF Halted THEN UNCHANGED faults ELSE Faults
  /\ UNCHANGED <<proc, signalled, exits, stray>> /\ Unmoved

\* Of a stop, or of the quit that waits for it.
EndChild(quits) ==
  IF desk.child = 0
  THEN /\ desk' = [desk EXCEPT !.stale = TRUE, !.status = "stopped", !.quit = IF quits THEN "quitting" ELSE @]
       /\ UNCHANGED signalled
  ELSE /\ desk' = [desk EXCEPT !.stale = TRUE, !.stop = TRUE, !.halting = desk.child,
                               !.quit = IF quits THEN "stopping" ELSE @]
       /\ signalled' = signalled \cup {desk.child}

Stop ==
  /\ Open /\ ~desk.stop /\ desk.status # "stopped" /\ EndChild(FALSE)
  /\ UNCHANGED <<proc, exits, stray, faults>> /\ Unmoved

\* A stop that fails keeps the child, and the application open.
Stopped ==
  /\ Open /\ desk.stop
  /\ desk' = [desk EXCEPT !.stop = FALSE, !.halting = 0, !.child = IF Halted THEN 0 ELSE @,
                          !.status = IF Halted THEN "stopped" ELSE "error",
                          !.quit = IF @ # "stopping" THEN @ ELSE IF Halted THEN "quitting" ELSE "no"]
  /\ IF Halted THEN UNCHANGED faults ELSE Faults
  /\ UNCHANGED <<proc, signalled, exits, stray>> /\ Unmoved

\* The exit of the current child that nobody is stopping.
ExitEvent(i) ==
  /\ Open /\ proc[i] = [by |-> "desktop", state |-> "dead"] /\ i \notin exits
  /\ exits' = exits \cup {i}
  /\ IF desk.child = i /\ desk.halting # i
     THEN \E s \in {"stopped", "error"} : desk' = [desk EXCEPT !.status = s, !.child = 0]
     ELSE UNCHANGED desk
  /\ UNCHANGED <<proc, signalled, stray, faults>> /\ Unmoved

\* before-quit waits for the stop, then for the renderer's server.
Quit ==
  /\ desk.quit = "no"
  /\ IF desk.stop THEN desk' = [desk EXCEPT !.quit = "stopping"] /\ UNCHANGED signalled ELSE EndChild(TRUE)
  /\ UNCHANGED <<proc, exits, stray, faults>> /\ Unmoved

\* Desktop ends, and leaves what a late start has spawned; or the renderer's server
\* could not be stopped, and it goes on.
QuitEnds ==
  /\ desk.quit = "quitting"
  /\ \/ /\ desk' = [desk EXCEPT !.quit = "ended"] /\ UNCHANGED faults
        /\ stray' = IF desk.late THEN stray \cup ({desk.child} \ {0}) ELSE stray
     \/ desk' = [desk EXCEPT !.quit = "no"] /\ Faults /\ UNCHANGED stray
  /\ UNCHANGED <<proc, signalled, exits>> /\ Unmoved

\* Desktop dies; its Runtime, a process group of its own, lives on.
DesktopDies ==
  /\ Open /\ Faults /\ desk' = [desk EXCEPT !.quit = "ended"]
  /\ stray' = IF desk.child = 0 THEN stray ELSE stray \cup {desk.child}
  /\ UNCHANGED <<proc, signalled, exits>> /\ Unmoved

----------------------------------------------------------------------------
Runtimes ==
  \E i \in Instances :
    \/ Bind(i) \/ StopServing(i) \/ Die(i) \/ ExitEvent(i)
    \/ \E by \in {"user", "other"} : Outside(i, by)

Mcp ==
  \E c \in Clients :
    \/ Connect(c) \/ Acquire(c) \/ LockTimeout(c) \/ Probe(c) \/ Attach(c) \/ Spawn(c) \/ Await(c)
    \/ Record(c) \/ Undo(c) \/ Close(c) \/ Release(c) \/ Kill(c) \/ ClientDies(c)

Desktop ==
  \/ Start \/ Answer \/ Probed \/ Polled \/ Failed \/ Stop \/ Stopped \/ Quit \/ QuitEnds \/ DesktopDies

Next == Runtimes \/ Mcp \/ Desktop

Spec == Init /\ [][Next]_vars

----------------------------------------------------------------------------
(* Properties.                                                              *)

(* Every Runtime that an MCP client started is either named by the metadata,   *)
(* so that the last client stops it, or in the hands of the client that holds  *)
(* the lock; otherwise that client died, or could not kill it, or a client     *)
(* took the Runtime for gone because it did not answer in time, or for         *)
(* another's because its answer was no proof of its identity.                  *)
StartedIsOwned ==
  \A i \in Instances \ (stray \cup unheard) : proc[i].by \in Clients /\ proc[i].state \in {"starting", "serving"} =>
    meta.instance = i \/ \E c \in Clients : lock = c /\ client[c].of = i

(* A client that kills a Runtime is its last owner: no other living client has *)
(* a lease on it, and it was neither started by hand nor by Desktop.           *)
OnlyLastOwnerStops ==
  [][\A c \in Clients :
       LET i == client[c].of IN
       (At(c, "kill") \/ At(c, "undo")) /\ At(c, "gone")' /\ Alive(i) /\ ~Alive(i)' =>
         /\ proc[i].by \in Clients
         /\ \A d \in Clients \ {c} : client[d].of = i /\ client[d].lease => At(d, "gone")]_vars

(* Desktop never loses a Runtime of its own: while one lives Desktop keeps it, *)
(* and has not quit, unless Desktop died or was asked to start it while it     *)
(* quits. It gives control authority only over that Runtime, once it has       *)
(* answered, until its exit is known.                                          *)
DesktopKeepsItsRuntime ==
  /\ \A i \in Instances \ stray : proc[i].by = "desktop" /\ Alive(i) => desk.child = i /\ Open
  /\ desk.status = "running" => /\ desk.child # 0 /\ proc[desk.child].state # "starting"
                                /\ desk.stop \/ desk.child \notin exits

\* The values of the variables.
TypeOK ==
  /\ proc \in [Instances -> [by : Clients \cup {"desktop", "user", "other", None},
                             state : {"none", "starting", "serving", "stopping", "dead"}]]
  /\ meta \in [instance : Instances \cup {0}, leases : SUBSET Clients]
  /\ lock \in Clients \cup {None}
  /\ client \in [Clients -> [of : Instances \cup {0}, lease : BOOLEAN,
                   pc : {"idle", "wait", "probe", "attach", "spawn", "await", "record", "undo", "using",
                         "closing", "release", "kill", "gone"}]]
  /\ desk \in [status : {"stopped", "starting", "running", "error"}, child : Instances \cup {0},
               start : {"none", "probe", "poll", "failing"}, stale : BOOLEAN, stop : BOOLEAN,
               seen : Instances \cup {0, Refused, None}, late : BOOLEAN, halting : Instances \cup {0},
               quit : {"no", "stopping", "quitting", "ended"}]
  /\ signalled \subseteq Instances /\ exits \subseteq Instances /\ stray \subseteq Instances
  /\ unheard \subseteq Instances /\ faults \in Nat
=============================================================================
