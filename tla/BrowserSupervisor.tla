-------------------------- MODULE BrowserSupervisor --------------------------
(***************************************************************************)
(* The application-level router (runtime_supervisor.py) with the Session   *)
(* index it owns (session_manager.py) and the Profile process lock         *)
(* (profile_storage.py).  Request threads run the Supervisor's operations. *)
(* What the code does under one lock, or in one database transaction, is   *)
(* one step here; everything else interleaves with the other threads, with *)
(* browser processes that exit, with expiries and with the control plane   *)
(* archiving or maintaining a Profile.                                     *)
(*                                                                         *)
(* The Session runtime is seen from outside: the runtime object (rt), the  *)
(* Chromium process behind it (host), the durable Session row (row) and    *)
(* the flag that its terminal state was recorded (recorded).               *)
(***************************************************************************)
EXTENDS AgentRouting, Naturals

CONSTANTS
  Threads,        \* API worker threads
  DefaultProfile, \* the profile used when a request names none
  Maint,          \* holder of a Profile lock during maintenance
  Ops,            \* the operations the threads issue
  MaxOps,         \* bound on the number of requests issued
  MaxRestarts     \* bound on the crashes of the runtime process

AgentOps == {"open", "observe", "act", "switch", "tabs"}
ControlOps == {"control", "close", "shutdown", "release"}

ASSUME SupervisorAssumption ==
  /\ DefaultProfile \in Profiles
  /\ Maint \notin Sessions \cup {None}
  /\ None \notin Threads \cup AgentOps \cup ControlOps
  /\ Ops \subseteq AgentOps \cup ControlOps
  /\ MaxOps \in Nat
  /\ MaxRestarts \in Nat

VARIABLES
  opLock,    \* owner of each connection's operation_lock
  supLock,   \* owner of the Supervisor's lock
  closed,    \* the Supervisor's _closed
  live,      \* Sessions in the SessionManager
  profileOf, \* the Profile a Session was minted for
  flock,     \* owner of each Profile's process lock
  rt,        \* runtime object: none, open, closed
  closing,   \* thread that runs the terminal callback inside runtime.close()
  host,      \* Chromium process: none, running, exited
  row,       \* lifecycle column of the durable Session row
  recorded,  \* Sessions with _session_terminal_recorded
  catalog,   \* catalog_state of each Profile
  pc, op, conn, prof, sess, life, todo, \* the threads' program counters and locals
  issued,    \* requests issued so far
  restarts,  \* crashes of the runtime process so far
  abandoned, \* history: Sessions whose browser was left running by a close()
             \* that gave up or by the death of the process
  lapsed     \* history: threads that lost their lease after it was checked

sessionVars == <<live, profileOf, flock, rt, closing, host, row, recorded>>
localVars == <<op, conn, prof, sess, life, todo>>
lockVars == <<opLock, supLock, closed>>
history == <<restarts, abandoned, lapsed>>
bounds == <<issued, history>>
vars == <<routingVars, sessionVars, lockVars, catalog, pc, localVars, bounds>>

Lifecycles == {"none", "created", "running", "stopping",
               "closed", "crashed", "interrupted"}
Nonterminal == {"created", "running", "stopping"}

Labels == {"idle", "lock", "enter", "ensure", "flock", "add", "lease", "bind",
           "entry", "require", "resolve", "tabs", "exec", "project", "mark",
           "notify", "fclose", "fremove", "flease", "funbind", "froutes",
           "funlock", "frow", "close", "shutdown", "next", "rel1", "rel2",
           "rel3", "finish"}

TypeOK ==
  /\ RoutingTypeOK
  /\ opLock \in [Conns -> Threads \cup {None}]
  /\ supLock \in Threads \cup {None}
  /\ closed \in BOOLEAN
  /\ live \in SUBSET Sessions
  /\ profileOf \in [Sessions -> Profiles \cup {None}]
  /\ flock \in [Profiles -> Sessions \cup {None, Maint}]
  /\ rt \in [Sessions -> {"none", "open", "closed"}]
  /\ closing \in [Sessions -> Threads \cup {None}]
  /\ host \in [Sessions -> {"none", "running", "exited"}]
  /\ row \in [Sessions -> Lifecycles]
  /\ recorded \in SUBSET Sessions
  /\ catalog \in [Profiles -> {"ready", "archived"}]
  /\ pc \in [Threads -> Labels]
  /\ op \in [Threads -> AgentOps \cup ControlOps \cup {None}]
  /\ conn \in [Threads -> Conns \cup {None}]
  /\ prof \in [Threads -> Profiles \cup {None}]
  /\ sess \in [Threads -> Sessions \cup {None}]
  /\ life \in [Threads -> {"closed", "crashed", None}]
  /\ todo \in [Threads -> SUBSET Sessions]
  /\ issued \in 0..MaxOps
  /\ restarts \in 0..MaxRestarts
  /\ abandoned \in SUBSET Sessions
  /\ lapsed \in SUBSET Threads

Init ==
  /\ RoutingInit
  /\ opLock = [c \in Conns |-> None]
  /\ supLock = None
  /\ closed = FALSE
  /\ live = {}
  /\ profileOf = [s \in Sessions |-> None]
  /\ flock = [p \in Profiles |-> None]
  /\ rt = [s \in Sessions |-> "none"]
  /\ closing = [s \in Sessions |-> None]
  /\ host = [s \in Sessions |-> "none"]
  /\ row = [s \in Sessions |-> "none"]
  /\ recorded = {}
  /\ catalog = [p \in Profiles |-> "ready"]
  /\ pc = [t \in Threads |-> "idle"]
  /\ op = [t \in Threads |-> None]
  /\ conn = [t \in Threads |-> None]
  /\ prof = [t \in Threads |-> None]
  /\ sess = [t \in Threads |-> None]
  /\ life = [t \in Threads |-> None]
  /\ todo = [t \in Threads |-> {}]
  /\ issued = 0
  /\ restarts = 0
  /\ abandoned = {}
  /\ lapsed = {}

Goto(t, label) == pc' = [pc EXCEPT ![t] = label]

NeedsWrite(t) == op[t] \in {"open", "tabs"}

Refuse(t) ==
  /\ Goto(t, "finish")
  /\ UNCHANGED <<routingVars, sessionVars, lockVars, catalog, localVars, bounds>>

-----------------------------------------------------------------------------
(* Requests arrive and leave.                                              *)

(* An Agent request resolves its connection context first.                 *)
StartAgent(t, o, c, p) ==
  /\ pc[t] = "idle"
  /\ issued < MaxOps
  /\ o \in AgentOps \cap Ops
  /\ c \notin released
  /\ p = DefaultProfile \/ o = "open"
  /\ GetOrCreate(c)
  /\ op' = [op EXCEPT ![t] = o]
  /\ conn' = [conn EXCEPT ![t] = c]
  /\ prof' = [prof EXCEPT ![t] = p]
  /\ issued' = issued + 1
  /\ Goto(t, "lock")
  /\ UNCHANGED <<grants, leases, routes, sessionVars, lockVars, catalog,
                 sess, life, todo, history>>

(* ensure_control_session_runtime: a Session without any Agent authority.  *)
StartControl(t, p) ==
  /\ pc[t] = "idle"
  /\ issued < MaxOps
  /\ "control" \in Ops
  /\ catalog[p] = "ready"
  /\ op' = [op EXCEPT ![t] = "control"]
  /\ prof' = [prof EXCEPT ![t] = p]
  /\ issued' = issued + 1
  /\ Goto(t, "ensure")
  /\ UNCHANGED <<routingVars, sessionVars, lockVars, catalog, conn, sess, life, todo, history>>

StartClose(t, s) ==
  /\ pc[t] = "idle"
  /\ issued < MaxOps
  /\ "close" \in Ops
  /\ s \in live
  /\ op' = [op EXCEPT ![t] = "close"]
  /\ sess' = [sess EXCEPT ![t] = s]
  /\ issued' = issued + 1
  /\ Goto(t, "close")
  /\ UNCHANGED <<routingVars, sessionVars, lockVars, catalog, conn, prof, life, todo, history>>

StartShutdown(t) ==
  /\ pc[t] = "idle"
  /\ issued < MaxOps
  /\ "shutdown" \in Ops
  /\ op' = [op EXCEPT ![t] = "shutdown"]
  /\ issued' = issued + 1
  /\ Goto(t, "shutdown")
  /\ UNCHANGED <<routingVars, sessionVars, lockVars, catalog, conn, prof, sess, life, todo, history>>

StartRelease(t, c) ==
  /\ pc[t] = "idle"
  /\ issued < MaxOps
  /\ "release" \in Ops
  /\ c \in registered
  /\ op' = [op EXCEPT ![t] = "release"]
  /\ conn' = [conn EXCEPT ![t] = c]
  /\ issued' = issued + 1
  /\ Goto(t, "rel1")
  /\ UNCHANGED <<routingVars, sessionVars, lockVars, catalog, prof, sess, life, todo, history>>

(* Leaving the with-blocks releases the locks the thread still owns.       *)
Finish(t) ==
  /\ pc[t] = "finish"
  /\ opLock' = [c \in Conns |-> IF opLock[c] = t THEN None ELSE opLock[c]]
  /\ supLock' = IF supLock = t THEN None ELSE supLock
  /\ op' = [op EXCEPT ![t] = None]
  /\ conn' = [conn EXCEPT ![t] = None]
  /\ prof' = [prof EXCEPT ![t] = None]
  /\ sess' = [sess EXCEPT ![t] = None]
  /\ life' = [life EXCEPT ![t] = None]
  /\ todo' = [todo EXCEPT ![t] = {}]
  /\ lapsed' = lapsed \ {t}
  /\ Goto(t, "idle")
  /\ UNCHANGED <<routingVars, sessionVars, closed, catalog, issued, restarts, abandoned>>

EntryPoint(t, c) ==
  IF op[t] = "open" \/ (op[t] = "tabs" /\ leased[c] = {}) THEN "enter"
  ELSE IF op[t] = "tabs" THEN "tabs"
  ELSE IF op[t] = "switch" THEN "resolve" ELSE "entry"

(* with context.operation_lock: then the entry point of the operation.     *)
TakeConnection(t) ==
  LET c == conn[t] IN
  /\ pc[t] = "lock"
  /\ opLock[c] = None
  /\ opLock' = [opLock EXCEPT ![c] = t]
  /\ todo' = [todo EXCEPT ![t] = IF op[t] = "tabs" THEN leased[c] ELSE {}]
  /\ Goto(t, EntryPoint(t, c))
  /\ UNCHANGED <<routingVars, sessionVars, supLock, closed, catalog,
                 op, conn, prof, sess, life, bounds>>

-----------------------------------------------------------------------------
(* _enter_profile, _ensure_session and the binding of the connection.      *)

(* The Profile is read and its access validated, then the grant is stored. *)
EnterProfile(t) ==
  /\ pc[t] = "enter"
  /\ catalog[prof[t]] = "ready"
  /\ AuthorizeGrant(conn[t], prof[t])
  /\ Goto(t, "ensure")
  /\ UNCHANGED <<contexts, leases, routes, sessionVars, lockVars, catalog, localVars, bounds>>

(* profile_unavailable, or profile_access_denied for an unbound Agent.     *)
EnterDenied(t) ==
  /\ pc[t] = "enter"
  /\ Refuse(t)

LiveOn(p) == {s \in live : profileOf[s] = p}

AfterEnsure(t) ==
  IF op[t] = "control" THEN "finish" ELSE IF NeedsWrite(t) THEN "lease" ELSE "bind"

EnsureRefused(t) ==
  /\ pc[t] = "ensure"
  /\ supLock = None
  /\ closed
  /\ Refuse(t)

EnsureExisting(t) ==
  /\ pc[t] = "ensure"
  /\ supLock = None
  /\ ~closed
  /\ \E s \in LiveOn(prof[t]) : sess' = [sess EXCEPT ![t] = s]
  /\ Goto(t, AfterEnsure(t))
  /\ UNCHANGED <<routingVars, sessionVars, lockVars, catalog, op, conn, prof, life, todo, bounds>>

EnsureNew(t) ==
  /\ pc[t] = "ensure"
  /\ supLock = None
  /\ ~closed
  /\ LiveOn(prof[t]) = {}
  /\ supLock' = t
  /\ Goto(t, "flock")
  /\ UNCHANGED <<routingVars, sessionVars, opLock, closed, catalog, localVars, bounds>>

MUT_ProfileLockFree(p) == flock[p] # Maint

ProfileLockFree(p) == flock[p] = None

AcquireProcessLock(t) ==
  /\ pc[t] = "flock"
  /\ ProfileLockFree(prof[t])
  /\ \E s \in Sessions :
       /\ profileOf[s] = None
       /\ profileOf' = [profileOf EXCEPT ![s] = prof[t]]
       /\ flock' = [flock EXCEPT ![prof[t]] = s]
       /\ sess' = [sess EXCEPT ![t] = s]
  /\ Goto(t, "add")
  /\ UNCHANGED <<routingVars, live, rt, closing, host, row, recorded, lockVars,
                 catalog, op, conn, prof, life, todo, bounds>>

(* ProfileLockBusyError; the bounded pool of identities may be used up.    *)
ProcessLockBusy(t) ==
  /\ pc[t] = "flock"
  /\ \/ ~ProfileLockFree(prof[t])
     \/ \A s \in Sessions : profileOf[s] # None
  /\ Refuse(t)

(* interrupt_nonterminal_sessions for one Profile.                         *)
Interrupted(p) ==
  [s \in Sessions |->
     IF profileOf[s] = p /\ row[s] \in Nonterminal THEN "interrupted" ELSE row[s]]

(* Writes of the repository: rows after a Session was created, and after    *)
(* one of them changed its lifecycle, from whatever it was.                *)
CreateSession(rows, s) == [rows EXCEPT ![s] = "created"]
Transition(s, lifecycle) == [row EXCEPT ![s] = lifecycle]

(* Rows are interrupted, the new row is created, the runtime is built and  *)
(* the entry is indexed; then the Supervisor's lock is left.  The request  *)
(* may still fail: mark_profile_used and the runtime event come after.     *)
AddSession(t) ==
  LET s == sess[t] IN
  /\ pc[t] = "add"
  /\ row' = CreateSession(Interrupted(prof[t]), s)
  /\ rt' = [rt EXCEPT ![s] = "open"]
  /\ live' = live \cup {s}
  /\ supLock' = None
  /\ \E label \in {AfterEnsure(t), "finish"} : Goto(t, label)
  /\ UNCHANGED <<routingVars, profileOf, flock, closing, host, recorded, opLock,
                 closed, catalog, localVars, bounds>>

MUT_AddFails(t) ==
  /\ pc[t] = "add"
  /\ row' \in {row, Interrupted(prof[t])}
  /\ Goto(t, "finish")
  /\ UNCHANGED <<routingVars, live, profileOf, flock, rt, closing, host, recorded,
                 lockVars, catalog, localVars, bounds>>

(* The except branch: whatever failed, the process lock is given back.     *)
AddFails(t) ==
  /\ pc[t] = "add"
  /\ row' \in {row, Interrupted(prof[t]),
               CreateSession(Interrupted(prof[t]), sess[t])}
  /\ flock' = [flock EXCEPT ![prof[t]] = None]
  /\ Goto(t, "finish")
  /\ UNCHANGED <<routingVars, live, profileOf, rt, closing, host, recorded,
                 lockVars, catalog, localVars, bounds>>

AcquireLease(t) ==
  /\ pc[t] = "lease"
  /\ LeaseFree(sess[t], conn[t])
  /\ GrantLease(sess[t], conn[t])
  /\ Goto(t, "bind")
  /\ UNCHANGED <<contexts, grants, routes, sessionVars, lockVars, catalog, localVars, bounds>>

SessionBusy(t) ==
  /\ pc[t] = "lease"
  /\ ~LeaseFree(sess[t], conn[t])
  /\ Refuse(t)

BindSession(t) ==
  LET c == conn[t] IN
  /\ pc[t] = "bind"
  /\ BindContext(c, sess[t])
  /\ todo' = [todo EXCEPT ![t] = IF op[t] = "tabs" THEN leased'[c] ELSE {}]
  /\ Goto(t, IF op[t] = "tabs" THEN "tabs" ELSE "exec")
  /\ UNCHANGED <<grants, leases, routes, sessionVars, lockVars, catalog,
                 op, conn, prof, sess, life, bounds>>

-----------------------------------------------------------------------------
(* The Session an operation addresses.                                     *)

(* _require_profile_grant reads the Profile again.                         *)
Granted(t, s) == catalog[profileOf[s]] = "ready" /\ HasGrant(conn[t], profileOf[s])

(* _current_entry: the current Session if it is live.                      *)
CurrentEntry(t) ==
  LET s == current[conn[t]] IN
  /\ pc[t] = "entry"
  /\ s \in live
  /\ Granted(t, s)
  /\ sess' = [sess EXCEPT ![t] = s]
  /\ Goto(t, IF op[t] = "observe" THEN "exec" ELSE "require")
  /\ UNCHANGED <<routingVars, sessionVars, lockVars, catalog, op, conn, prof, life, todo, bounds>>

(* Only observe falls back to the default Profile.                         *)
NoCurrentEntry(t) ==
  /\ pc[t] = "entry"
  /\ current[conn[t]] \notin live
  /\ Goto(t, IF op[t] = "observe" THEN "enter" ELSE "finish")
  /\ UNCHANGED <<routingVars, sessionVars, lockVars, catalog, localVars, bounds>>

EntryDenied(t) ==
  /\ pc[t] = "entry"
  /\ current[conn[t]] \in live
  /\ Refuse(t)

(* _require_session_write, then the target object is localized.            *)
RequireLease(t) ==
  /\ pc[t] = "require"
  /\ HoldsLease(sess[t], conn[t])
  /\ Goto(t, "exec")
  /\ UNCHANGED <<routingVars, sessionVars, lockVars, catalog, localVars, bounds>>

(* session_lease_required, session_busy or object_session_mismatch.        *)
RequireFails(t) ==
  /\ pc[t] = "require"
  /\ \/ ~HoldsLease(sess[t], conn[t])
     \/ \E s \in routes : s # sess[t]
  /\ Refuse(t)

(* switch_tab: an unknown id is taken as a local id of the current Session.*)
ResolveUnknownTab(t) ==
  /\ pc[t] = "resolve"
  /\ Goto(t, "entry")
  /\ UNCHANGED <<routingVars, sessionVars, lockVars, catalog, localVars, bounds>>

ResolveTab(t) ==
  /\ pc[t] = "resolve"
  /\ \E s \in routes \cap live :
       /\ Granted(t, s)
       /\ sess' = [sess EXCEPT ![t] = s]
  /\ Goto(t, "lease")
  /\ UNCHANGED <<routingVars, sessionVars, lockVars, catalog, op, conn, prof, life, todo, bounds>>

(* tab_session_expired, or no grant for the Profile of the tab.            *)
ResolveFails(t) ==
  /\ pc[t] = "resolve"
  /\ \E s \in routes : s \notin live \/ ~Granted(t, s)
  /\ Refuse(t)

(* get_tabs reads the tabs of every leased Session that is still live.     *)
TabsNext(t) ==
  /\ pc[t] = "tabs"
  /\ \E s \in todo[t] :
       /\ s \in live => Granted(t, s)
       /\ todo' = [todo EXCEPT ![t] = @ \ {s}]
       /\ sess' = [sess EXCEPT ![t] = s]
       /\ Goto(t, IF s \in live THEN "exec" ELSE "tabs")
  /\ UNCHANGED <<routingVars, sessionVars, lockVars, catalog, op, conn, prof, life, bounds>>

TabsEnd(t) ==
  /\ pc[t] = "tabs"
  /\ todo[t] = {} \/ \E s \in todo[t] \cap live : ~Granted(t, s)
  /\ Refuse(t)

-----------------------------------------------------------------------------
(* The operation reaches the Session runtime.                              *)

MUT_AdmittedAt(t, s) == pc[t] = "exec" /\ sess[t] = s

AdmittedAt(t, s) == pc[t] = "exec" /\ sess[t] = s /\ rt[s] = "open"

(* The first call starts the worker; open_url starts the browser.          *)
Execute(t) ==
  LET s == sess[t] IN
  /\ AdmittedAt(t, s)
  /\ host[s] # "exited"
  /\ host' = [host EXCEPT ![s] = IF op[t] = "open" THEN "running" ELSE @]
  /\ row' = [row EXCEPT ![s] = IF @ = "created" THEN "running" ELSE @]
  /\ Goto(t, "project")
  /\ UNCHANGED <<routingVars, live, profileOf, flock, rt, closing, recorded,
                 lockVars, catalog, localVars, bounds>>

(* "browser runtime is closed"                                             *)
ExecuteClosed(t) ==
  /\ pc[t] = "exec"
  /\ rt[sess[t]] = "closed"
  /\ Refuse(t)

(* BrowserHostClosedError: _mark_session_crashed tests the flag first.     *)
DetectCrash(t) ==
  LET s == sess[t] IN
  /\ AdmittedAt(t, s)
  /\ host[s] = "exited"
  /\ Goto(t, IF s \in recorded THEN "finish" ELSE "mark")
  /\ UNCHANGED <<routingVars, sessionVars, lockVars, catalog, localVars, bounds>>

(* _bind_tabs and _project_web_state issue public ids.                     *)
Project(t) ==
  /\ pc[t] = "project"
  /\ BindRoutes(sess[t])
  /\ Goto(t, IF op[t] = "tabs" THEN "tabs" ELSE "finish")
  /\ UNCHANGED <<contexts, grants, leases, sessionVars, lockVars, catalog, localVars, bounds>>

MarkCrashed(t) ==
  LET s == sess[t] IN
  /\ pc[t] = "mark"
  /\ row' = Transition(s, "crashed")
  /\ recorded' = recorded \cup {s}
  /\ Goto(t, "notify")
  /\ UNCHANGED <<routingVars, live, profileOf, flock, rt, closing, host,
                 lockVars, catalog, localVars, bounds>>

(* _on_session_terminal looks the Session up.                              *)
NotifyTerminal(t) ==
  /\ pc[t] = "notify"
  /\ life' = [life EXCEPT ![t] = "crashed"]
  /\ Goto(t, IF sess[t] \in live THEN "fclose" ELSE "finish")
  /\ UNCHANGED <<routingVars, sessionVars, lockVars, catalog, op, conn, prof,
                 sess, todo, bounds>>

-----------------------------------------------------------------------------
(* runtime.close() followed by _finalize_session.                          *)

(* The browser stops unless the worker is too busy to serve the close job. *)
(* close() has written stopping; the first to record the terminal state    *)
(* overwrites it, and runs the callback before it gives the runtime back.  *)
CloseOutcome(t, s, failed) ==
  LET outcome == IF failed THEN "crashed" ELSE "closed" IN
  /\ host' = [host EXCEPT ![s] = IF failed THEN @ ELSE "none"]
  /\ row' = Transition(s, IF s \in recorded THEN "stopping" ELSE outcome)
  /\ life' = [life EXCEPT ![t] =
                IF s \notin recorded \/ (failed /\ op[t] = "shutdown") THEN outcome ELSE @]
  /\ closing' = [closing EXCEPT ![s] = IF s \in recorded THEN @ ELSE t]
  /\ recorded' = recorded \cup {s}
  /\ abandoned' = IF failed THEN abandoned \cup {s} ELSE abandoned

CloseRuntime(t) ==
  LET s == sess[t] IN
  /\ pc[t] = "fclose"
  /\ rt[s] = "open"
  /\ rt' = [rt EXCEPT ![s] = "closed"]
  /\ \E failed \in BOOLEAN :
       /\ failed => host[s] = "running"
       /\ CloseOutcome(t, s, failed)
  /\ Goto(t, "fremove")
  /\ UNCHANGED <<routingVars, live, profileOf, flock, lockVars, catalog,
                 op, conn, prof, sess, todo, issued, restarts, lapsed>>

(* The runtime was closed already: close() returns at once.                *)
CloseAgain(t) ==
  /\ pc[t] = "fclose"
  /\ rt[sess[t]] = "closed"
  /\ closing[sess[t]] = None
  /\ Goto(t, "fremove")
  /\ UNCHANGED <<routingVars, sessionVars, lockVars, catalog, localVars, bounds>>

AfterFinalize(t) == Goto(t, IF op[t] = "shutdown" THEN "next" ELSE "finish")

MUT_CallbackReturns(t) == UNCHANGED closing

(* closing[s] is given back when the callback returns.                     *)
CallbackReturns(t) ==
  closing' = [closing EXCEPT ![sess[t]] = IF @ = t THEN None ELSE @]

RemoveSession(t) ==
  /\ pc[t] = "fremove"
  /\ sess[t] \in live
  /\ live' = live \ {sess[t]}
  /\ Goto(t, "flease")
  /\ UNCHANGED <<routingVars, profileOf, flock, rt, closing, host, row, recorded,
                 lockVars, catalog, localVars, bounds>>

(* Another thread removed the entry: "removed is not entry".               *)
RemovedByOther(t) ==
  /\ pc[t] = "fremove"
  /\ sess[t] \notin live
  /\ CallbackReturns(t)
  /\ AfterFinalize(t)
  /\ UNCHANGED <<routingVars, live, profileOf, flock, rt, host, row, recorded,
                 lockVars, catalog, localVars, bounds>>

ReleaseSessionLease(t) ==
  /\ pc[t] = "flease"
  /\ DropLease(sess[t])
  /\ Goto(t, "funbind")
  /\ UNCHANGED <<contexts, grants, routes, sessionVars, lockVars, catalog, localVars, bounds>>

UnbindConnections(t) ==
  /\ pc[t] = "funbind"
  /\ UnbindSession(sess[t])
  /\ Goto(t, "froutes")
  /\ UNCHANGED <<grants, leases, routes, sessionVars, lockVars, catalog, localVars, bounds>>

InvalidateSessionRoutes(t) ==
  /\ pc[t] = "froutes"
  /\ InvalidateRoutes(sess[t])
  /\ Goto(t, "funlock")
  /\ UNCHANGED <<contexts, grants, leases, sessionVars, lockVars, catalog, localVars, bounds>>

ReleaseProcessLock(t) ==
  LET s == sess[t] IN
  /\ pc[t] = "funlock"
  /\ flock' = [flock EXCEPT ![profileOf[s]] = None]
  /\ Goto(t, "frow")
  /\ UNCHANGED <<routingVars, live, profileOf, rt, closing, host, row, recorded,
                 lockVars, catalog, localVars, bounds>>

RecordCrash(t) ==
  /\ pc[t] = "frow"
  /\ row' = IF life[t] = "crashed" THEN Transition(sess[t], "crashed") ELSE row
  /\ CallbackReturns(t)
  /\ AfterFinalize(t)
  /\ UNCHANGED <<routingVars, live, profileOf, flock, rt, host, recorded,
                 lockVars, catalog, localVars, bounds>>

MUT_CloseSession(t) ==
  /\ pc[t] = "close"
  /\ supLock = None
  /\ sess[t] \in live
  /\ supLock' = t
  /\ life' = [life EXCEPT ![t] = "closed"]
  /\ Goto(t, "fremove")
  /\ UNCHANGED <<routingVars, sessionVars, opLock, closed, catalog, op, conn, prof,
                 sess, todo, bounds>>

(* close_session holds the Supervisor's lock to the end.                   *)
CloseSession(t) ==
  /\ pc[t] = "close"
  /\ supLock = None
  /\ sess[t] \in live
  /\ supLock' = t
  /\ life' = [life EXCEPT ![t] = "closed"]
  /\ Goto(t, "fclose")
  /\ UNCHANGED <<routingVars, sessionVars, opLock, closed, catalog, op, conn, prof,
                 sess, todo, bounds>>

CloseGone(t) ==
  /\ pc[t] = "close"
  /\ supLock = None
  /\ sess[t] \notin live
  /\ Refuse(t)

MUT_Shutdown(t) ==
  /\ pc[t] = "shutdown"
  /\ closed' = TRUE
  /\ todo' = [todo EXCEPT ![t] = IF closed THEN {} ELSE live]
  /\ Goto(t, IF closed THEN "finish" ELSE "next")
  /\ UNCHANGED <<routingVars, sessionVars, opLock, supLock, catalog, op, conn, prof,
                 sess, life, bounds>>

(* close(): the flag and the list of entries are taken under the lock,     *)
(* the entries are closed outside it.                                      *)
Shutdown(t) ==
  /\ pc[t] = "shutdown"
  /\ supLock = None
  /\ closed' = TRUE
  /\ todo' = [todo EXCEPT ![t] = IF closed THEN {} ELSE live]
  /\ Goto(t, IF closed THEN "finish" ELSE "next")
  /\ UNCHANGED <<routingVars, sessionVars, opLock, supLock, catalog, op, conn, prof,
                 sess, life, bounds>>

ShutdownNext(t) ==
  /\ pc[t] = "next"
  /\ \E s \in todo[t] :
       /\ todo' = [todo EXCEPT ![t] = @ \ {s}]
       /\ sess' = [sess EXCEPT ![t] = s]
  /\ life' = [life EXCEPT ![t] = "closed"]
  /\ Goto(t, "fclose")
  /\ UNCHANGED <<routingVars, sessionVars, lockVars, catalog, op, conn, prof, bounds>>

ShutdownEnd(t) ==
  /\ pc[t] = "next"
  /\ todo[t] = {}
  /\ Refuse(t)

-----------------------------------------------------------------------------
(* The threads that are past the check of a lease that is dropped now.     *)
Overtaken(dropped) ==
  {t \in Threads : /\ pc[t] \in {"bind", "exec"}
                   /\ sess[t] \in dropped
                   /\ HoldsLease(sess[t], conn[t])}

(* release_connection: three tables, three critical sections, and not the  *)
(* connection's operation_lock.                                            *)

UnregisterConnection(t) ==
  /\ pc[t] = "rel1"
  /\ PopContext(conn[t])
  /\ Goto(t, "rel2")
  /\ UNCHANGED <<grants, leases, routes, sessionVars, lockVars, catalog, localVars, bounds>>

RevokeGrants(t) ==
  /\ pc[t] = "rel2"
  /\ RevokeConnection(conn[t])
  /\ Goto(t, "rel3")
  /\ UNCHANGED <<contexts, leases, routes, sessionVars, lockVars, catalog, localVars, bounds>>

ReleaseLeases(t) ==
  /\ pc[t] = "rel3"
  /\ DropLeasesOf(conn[t])
  /\ lapsed' = lapsed \cup Overtaken({s \in Sessions : leases[s] = conn[t]})
  /\ Goto(t, "finish")
  /\ UNCHANGED <<contexts, grants, routes, sessionVars, lockVars, catalog, localVars,
                 issued, restarts, abandoned>>

-----------------------------------------------------------------------------
(* The environment: browsers exit, authorities expire, the control plane   *)
(* archives, restores and maintains Profiles.                              *)

HostExits(s) ==
  /\ host[s] = "running"
  /\ host' = [host EXCEPT ![s] = "exited"]
  /\ UNCHANGED <<routingVars, live, profileOf, flock, rt, closing, row, recorded,
                 lockVars, catalog, pc, localVars, bounds>>

InFlight(t, c) == pc[t] # "idle" /\ conn[t] = c

(* By the clock alone: the lease of an operation that waits for the web    *)
(* lock of its Session runs out like any other.                            *)
LeaseExpires(s) ==
  /\ leases[s] # None
  /\ DropLease(s)
  /\ lapsed' = lapsed \cup Overtaken({s})
  /\ UNCHANGED <<contexts, grants, routes, sessionVars, lockVars, catalog, pc, localVars,
                 issued, restarts, abandoned>>

GrantExpires(c, p) ==
  /\ HasGrant(c, p)
  /\ grants' = grants \ {<<c, p>>}
  /\ UNCHANGED <<contexts, leases, routes, sessionVars, lockVars, catalog, pc, localVars, bounds>>

(* Thirty minutes without a request.                                       *)
ConnectionExpires(c) ==
  /\ c \in registered
  /\ \A t \in Threads : ~InFlight(t, c)
  /\ ContextExpires(c)
  /\ UNCHANGED <<grants, leases, routes, sessionVars, lockVars, catalog, pc, localVars, bounds>>

(* The route holds a mutation lease; archive_profile is one transaction    *)
(* that looks at the Session rows.                                         *)
ArchiveProfile(p) ==
  /\ p # DefaultProfile
  /\ flock[p] = Maint
  /\ catalog[p] = "ready"
  /\ \A s \in Sessions : profileOf[s] = p => row[s] \notin Nonterminal
  /\ catalog' = [catalog EXCEPT ![p] = "archived"]
  /\ UNCHANGED <<routingVars, sessionVars, lockVars, pc, localVars, bounds>>

RestoreProfile(p) ==
  /\ flock[p] = Maint
  /\ catalog[p] = "archived"
  /\ catalog' = [catalog EXCEPT ![p] = "ready"]
  /\ UNCHANGED <<routingVars, sessionVars, lockVars, pc, localVars, bounds>>

(* A ProfileMutationLease is the same process lock.                        *)
BeginMaintenance(p) ==
  /\ ProfileLockFree(p)
  /\ flock' = [flock EXCEPT ![p] = Maint]
  /\ UNCHANGED <<routingVars, live, profileOf, rt, closing, host, row, recorded,
                 lockVars, catalog, pc, localVars, bounds>>

EndMaintenance(p) ==
  /\ flock[p] = Maint
  /\ flock' = [flock EXCEPT ![p] = None]
  /\ UNCHANGED <<routingVars, live, profileOf, rt, closing, host, row, recorded,
                 lockVars, catalog, pc, localVars, bounds>>

(* The runtime process dies and is started again.  Memory and the OS locks *)
(* are gone; the rows, and a Chromium started with Popen, are not; nothing *)
(* visits the rows before the next _ensure_session of their Profile.       *)
RuntimeRestarts ==
  /\ restarts < MaxRestarts
  /\ restarts' = restarts + 1
  /\ RoutingLost
  /\ live' = {}
  /\ flock' = [p \in Profiles |-> None]
  /\ rt' = [s \in Sessions |-> IF rt[s] = "none" THEN "none" ELSE "closed"]
  /\ closing' = [s \in Sessions |-> None]
  /\ opLock' = [c \in Conns |-> None]
  /\ supLock' = None
  /\ closed' = FALSE
  /\ pc' = [t \in Threads |-> "idle"]
  /\ op' = [t \in Threads |-> None]
  /\ conn' = [t \in Threads |-> None]
  /\ prof' = [t \in Threads |-> None]
  /\ sess' = [t \in Threads |-> None]
  /\ life' = [t \in Threads |-> None]
  /\ todo' = [t \in Threads |-> {}]
  /\ abandoned' = abandoned \cup {s \in Sessions : host[s] = "running"}
  /\ lapsed' = {}
  /\ UNCHANGED <<profileOf, host, row, recorded, catalog, issued>>

-----------------------------------------------------------------------------
Start(t) ==
  \/ \E o \in AgentOps, c \in Conns, p \in Profiles : StartAgent(t, o, c, p)
  \/ \E p \in Profiles : StartControl(t, p)
  \/ \E s \in Sessions : StartClose(t, s)
  \/ StartShutdown(t)
  \/ \E c \in Conns : StartRelease(t, c)

Enter(t) ==
  \/ EnterProfile(t) \/ EnterDenied(t)
  \/ EnsureRefused(t) \/ EnsureExisting(t) \/ EnsureNew(t)
  \/ AcquireProcessLock(t) \/ ProcessLockBusy(t)
  \/ AddSession(t) \/ AddFails(t)
  \/ AcquireLease(t) \/ SessionBusy(t) \/ BindSession(t)

Address(t) ==
  \/ TakeConnection(t)
  \/ CurrentEntry(t) \/ NoCurrentEntry(t) \/ EntryDenied(t)
  \/ RequireLease(t) \/ RequireFails(t)
  \/ ResolveUnknownTab(t) \/ ResolveTab(t) \/ ResolveFails(t)
  \/ TabsNext(t) \/ TabsEnd(t)

Operate(t) ==
  \/ Execute(t) \/ ExecuteClosed(t) \/ Project(t)
  \/ DetectCrash(t) \/ MarkCrashed(t) \/ NotifyTerminal(t)

Finalize(t) ==
  \/ CloseRuntime(t) \/ CloseAgain(t)
  \/ RemoveSession(t) \/ RemovedByOther(t)
  \/ ReleaseSessionLease(t) \/ UnbindConnections(t) \/ InvalidateSessionRoutes(t)
  \/ ReleaseProcessLock(t) \/ RecordCrash(t)

Control(t) ==
  \/ CloseSession(t) \/ CloseGone(t)
  \/ Shutdown(t) \/ ShutdownNext(t) \/ ShutdownEnd(t)
  \/ UnregisterConnection(t) \/ RevokeGrants(t) \/ ReleaseLeases(t)

(* What a thread does with the request it has taken.                       *)
Step(t) ==
  \/ Enter(t) \/ Address(t) \/ Operate(t) \/ Finalize(t) \/ Control(t) \/ Finish(t)

Environment ==
  \/ \E s \in Sessions : HostExits(s) \/ LeaseExpires(s)
  \/ \E c \in Conns, p \in Profiles : GrantExpires(c, p)
  \/ \E c \in Conns : ConnectionExpires(c)
  \/ \E p \in Profiles : \/ ArchiveProfile(p) \/ RestoreProfile(p)
                         \/ BeginMaintenance(p) \/ EndMaintenance(p)
  \/ RuntimeRestarts

Next == (\E t \in Threads : Start(t) \/ Step(t)) \/ Environment

Spec == Init /\ [][Next]_vars

(* Threads are scheduled by the operating system: a request that can take  *)
(* its next step eventually takes it.  Nothing makes requests arrive.      *)
FairSpec == Spec /\ \A t \in Threads : WF_vars(Step(t))

-----------------------------------------------------------------------------
(* Every indexed Session owns the process lock of its Profile, from before *)
(* it is indexed until after it is removed (_ensure_session and            *)
(* _finalize_session, with the control plane's maintenance leases          *)
(* competing for the same lock).                                           *)
LiveSessionOwnsProfile == \A s \in live : flock[profileOf[s]] = s

(* A runtime that still accepts calls belongs to an indexed Session: no    *)
(* interleaving of creation, crash, close and shutdown leaves one behind   *)
(* that callers of the Supervisor could no longer reach or close.          *)
OpenRuntimeIsLive == \A s \in Sessions : rt[s] = "open" => s \in live

(* The browser process runs only while its Session owns the Profile, so    *)
(* two browsers, or a browser and a maintenance operation, never share a   *)
(* user data directory: the process lock is given back only after the      *)
(* process is gone.  The one exception is a browser that a close() gave up *)
(* on after thirty seconds, or that outlived the runtime process.          *)
HostOwnsProfile ==
  \A s \in Sessions :
    host[s] = "running" /\ s \notin abandoned => flock[profileOf[s]] = s

(* Two connections never have writes admitted at the same open Session,    *)
(* whatever crashes or is closed between the check of the lease and the    *)
(* call into the runtime, unless one of them lost its lease in between: it *)
(* expired, or its connection was released.                                *)
Writer(t, s) == AdmittedAt(t, s) /\ op[t] \in {"open", "act", "switch"}

OneWriter ==
  \A s \in Sessions : \A t, u \in Threads :
    Writer(t, s) /\ Writer(u, s) => conn[t] = conn[u] \/ lapsed \cap {t, u} # {}

(* A Profile is never open in two browsers (what the design document        *)
(* demands of the process lock).                                            *)
OneBrowserPerProfile ==
  \A s, u \in Sessions :
    host[s] = "running" /\ host[u] = "running" /\ profileOf[s] = profileOf[u] => s = u

(* Once close() of the Supervisor has returned, no Session is indexed: a   *)
(* request that was creating one when the flag was set either finished     *)
(* before the entries were listed or is refused.                           *)
ShutdownIsComplete ==
  closed /\ (\A t \in Threads : op[t] # "shutdown") => live = {}

(* Every request returns: waiting for the operation lock, the Supervisor's *)
(* lock or the terminal callback of another thread never lasts for ever.   *)
EveryRequestReturns == \A t \in Threads : pc[t] # "idle" ~> pc[t] = "idle"

(* A Session that left the index gives its Profile back, also when its     *)
(* construction failed or several threads finalize it.                     *)
ProfileIsGivenBack ==
  \A p \in Profiles, s \in Sessions :
    (flock[p] = s /\ s \notin live) ~> (flock[p] # s \/ s \in live)

(* A Session whose terminal state was recorded keeps a terminal row once   *)
(* nobody works on it any more.                                            *)
TerminalRowIsFinal ==
  (\A t \in Threads : pc[t] = "idle") =>
    \A s \in recorded : row[s] \notin Nonterminal

(* A Profile in state archived has no browser Session: archive_profile     *)
(* refuses while one is active, and launch_spec refuses an archived        *)
(* Profile.                                                                *)
ArchivedProfileIsIdle == \A s \in live : catalog[profileOf[s]] = "ready"

-----------------------------------------------------------------------------
(* How the tables of the Supervisor show the promised exclusion: the holder *)
(* of a Profile is the owner of its process lock, a Session is claimed once *)
(* its identity was taken for a Profile and in use while it is indexed.     *)
Exclusion == INSTANCE ProfileExclusion WITH
  holder <- flock,
  phase <- [s \in Sessions |-> IF profileOf[s] = None THEN "new"
                               ELSE IF s \in live THEN "used"
                               ELSE IF rt[s] = "none" THEN "claimed" ELSE "gone"],
  running <- {s \in Sessions : host[s] = "running"}

(* The Supervisor implements the exclusion of Profiles step by step: no     *)
(* interleaving of creation, failure, crash, close, shutdown, restart and   *)
(* maintenance launches a browser for a Session that has left the index,    *)
(* removes a Session whose browser runs and was not given up, gives a       *)
(* Profile back early or twice, or brings a Session back.                   *)
ImplementsExclusion == Exclusion!Spec
=============================================================================
