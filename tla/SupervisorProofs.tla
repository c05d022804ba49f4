-------------------------- MODULE SupervisorProofs --------------------------
(***************************************************************************)
(* Proofs about BrowserSupervisor, for any number of threads, connections, *)
(* Profiles and Sessions.                                                  *)
(***************************************************************************)
EXTENDS BrowserSupervisor, TLAPS

-----------------------------------------------------------------------------
(* The inductive invariant, in named parts.                                *)

AgentLabels == {"lock", "enter", "lease", "bind", "entry", "require", "resolve",
                "tabs", "exec", "project"}
CreateLabels == {"ensure", "flock", "add"}
ReleaseLabels == {"rel1", "rel2", "rel3"}
ShutdownLabels == {"shutdown", "next"}
Finalizing == {"flease", "funbind", "froutes", "funlock"}
NeedSess == {"add", "lease", "bind", "require", "exec", "project", "mark", "notify",
             "fclose", "fremove", "frow", "close"} \cup Finalizing

(* A thread's locals are set wherever its next step reads them.            *)
LocalsSet ==
  \A t \in Threads :
    /\ pc[t] \in AgentLabels => op[t] \in AgentOps
    /\ pc[t] \in CreateLabels => op[t] \in AgentOps \cup {"control"}
    /\ pc[t] \in ReleaseLabels => op[t] = "release"
    /\ pc[t] \in ShutdownLabels => op[t] = "shutdown"
    /\ op[t] \in AgentOps \cup {"release"} => conn[t] \in Conns
    /\ op[t] \in AgentOps \cup {"control"} => prof[t] \in Profiles
    /\ pc[t] \in NeedSess => sess[t] \in Sessions

(* Creation runs under the Supervisor's lock.                              *)
CreatorHoldsLock == \A t \in Threads : pc[t] \in {"flock", "add"} => supLock = t

(* The Session under construction.                                         *)
CreatorOwnsProfile ==
  \A t \in Threads : pc[t] = "add" =>
    /\ profileOf[sess[t]] = prof[t]
    /\ flock[prof[t]] = sess[t]
    /\ rt[sess[t]] = "none"
    /\ sess[t] \notin live

(* An identity that was never taken has left no trace.                     *)
FreshIsClean ==
  \A s \in Sessions : profileOf[s] = None =>
    /\ rt[s] = "none"
    /\ s \notin live
    /\ \A p \in Profiles : flock[p] # s

(* An indexed Session has a runtime and owns its Profile.                  *)
LiveOwns ==
  \A s \in live :
    /\ rt[s] # "none"
    /\ profileOf[s] \in Profiles
    /\ flock[profileOf[s]] = s

OpenIsLive == \A s \in Sessions : rt[s] = "open" => s \in live

(* A thread addresses a Session only after it was built.                   *)
AddressedIsBuilt ==
  \A t \in Threads : pc[t] \in NeedSess \ {"add"} =>
    /\ rt[sess[t]] # "none"
    /\ profileOf[sess[t]] \in Profiles

(* The thread that removed a Session still owns its Profile, alone.        *)
FinalizerOwns ==
  \A t \in Threads :
    /\ pc[t] \in Finalizing \cup {"fremove", "frow"} => rt[sess[t]] = "closed"
    /\ pc[t] \in Finalizing =>
         /\ sess[t] \notin live
         /\ flock[profileOf[sess[t]]] = sess[t]
         /\ \A u \in Threads \ {t} : ~(pc[u] \in Finalizing /\ sess[u] = sess[t])

ReachableSessions ==
  /\ \A c \in Conns : \A s \in leased[c] \cup {current[c]} :
       s = None \/ (rt[s] # "none" /\ profileOf[s] \in Profiles)
  /\ \A s \in routes : rt[s] # "none" /\ profileOf[s] \in Profiles
  /\ \A t \in Threads : \A s \in todo[t] : rt[s] # "none" /\ profileOf[s] \in Profiles

Ownership ==
  /\ CreatorHoldsLock
  /\ CreatorOwnsProfile
  /\ FreshIsClean
  /\ LiveOwns
  /\ OpenIsLive
  /\ AddressedIsBuilt
  /\ FinalizerOwns
  /\ ReachableSessions

Typed == TypeOK /\ LocalsSet

(* A running browser has an open runtime, unless it was given up; then its *)
(* runtime is closed for good.                                             *)
HostHasRuntime ==
  /\ \A s \in Sessions : host[s] = "running" => rt[s] = "open" \/ s \in abandoned
  /\ \A s \in abandoned : rt[s] = "closed"

(* A write that was admitted still holds the lease, as long as its Session *)
(* is open, or it is marked as one that lost it.                           *)
WriterHoldsLease ==
  \A t \in Threads :
    /\ pc[t] \in {"enter"} \cup CreateLabels => op[t] \notin {"act", "switch"}
    /\ pc[t] = "tabs" => op[t] = "tabs"
    /\ pc[t] \in {"bind", "exec"} /\ op[t] \in {"open", "act", "switch"}
         => HoldsLease(sess[t], conn[t]) \/ rt[sess[t]] # "open" \/ t \in lapsed

(* After the flag is set nothing is created, and every entry still indexed *)
(* is one that the shutdown has yet to finalize.                           *)
ShutdownCovers ==
  closed =>
    /\ \A t \in Threads : pc[t] \notin {"flock", "add"}
    /\ \A s \in live : \E t \in Threads :
         /\ op[t] = "shutdown"
         /\ pc[t] \in {"next", "fclose", "fremove", "frow"} \cup Finalizing
         /\ s \in todo[t] \/ (sess[t] = s /\ pc[t] \in {"fclose", "fremove"})

-----------------------------------------------------------------------------
(* Types.                                                                  *)

LEMMA TypedInit == Init => Typed
<1> USE NoneAssumption, SupervisorAssumption DEF Init
<1> SUFFICES ASSUME Init PROVE Typed  OBVIOUS
<1>1. RoutingTypeOK  BY DEF RoutingInit, RoutingTypeOK
<1>2. /\ opLock \in [Conns -> Threads \cup {None}]
      /\ supLock \in Threads \cup {None}
      /\ profileOf \in [Sessions -> Profiles \cup {None}]
      /\ flock \in [Profiles -> Sessions \cup {None, Maint}]
      /\ closing \in [Sessions -> Threads \cup {None}]
  OBVIOUS
<1>3. /\ rt \in [Sessions -> {"none", "open", "closed"}]
      /\ host \in [Sessions -> {"none", "running", "exited"}]
      /\ row \in [Sessions -> Lifecycles]
      /\ catalog \in [Profiles -> {"ready", "archived"}]
      /\ pc \in [Threads -> Labels]
  BY DEF Lifecycles, Labels
<1>4. /\ op \in [Threads -> AgentOps \cup ControlOps \cup {None}]
      /\ conn \in [Threads -> Conns \cup {None}]
      /\ prof \in [Threads -> Profiles \cup {None}]
      /\ sess \in [Threads -> Sessions \cup {None}]
      /\ life \in [Threads -> {"closed", "crashed", None}]
      /\ todo \in [Threads -> SUBSET Sessions]
  OBVIOUS
<1>5. closed \in BOOLEAN /\ live \in SUBSET Sessions /\ recorded \in SUBSET Sessions
  OBVIOUS
<1>6. issued \in 0..MaxOps /\ restarts \in 0..MaxRestarts  OBVIOUS
<1>7. TypeOK  BY <1>1, <1>2, <1>3, <1>4, <1>5, <1>6 DEF TypeOK
<1>8. LocalsSet
  BY DEF LocalsSet, AgentLabels, CreateLabels, ReleaseLabels, ShutdownLabels,
         NeedSess, Finalizing, AgentOps, ControlOps
<1> QED BY <1>7, <1>8 DEF Typed

LEMMA TypedStep ==
  ASSUME Typed, [Next]_vars
  PROVE  Typed'
<1> USE NoneAssumption, SupervisorAssumption
    DEF Typed, TypeOK, RoutingTypeOK, LocalsSet, Labels, Lifecycles,
        AgentLabels, CreateLabels, ReleaseLabels, ShutdownLabels, NeedSess,
        AgentOps, ControlOps, Finalizing, Goto, contexts, routingVars,
        sessionVars, lockVars, localVars, bounds, history
<1>1. ASSUME NEW t \in Threads, Start(t) PROVE Typed'
  <2>1. ASSUME NEW o \in AgentOps, NEW c \in Conns, NEW p \in Profiles, StartAgent(t, o, c, p)
       PROVE Typed'
    BY <2>1 DEF StartAgent, GetOrCreate
  <2>2. ASSUME NEW p \in Profiles, StartControl(t, p)
       PROVE Typed'
    BY <2>2 DEF StartControl
  <2>3. ASSUME NEW s \in Sessions, StartClose(t, s)
       PROVE Typed'
    BY <2>3 DEF StartClose
  <2>4. CASE StartShutdown(t)  BY <2>4 DEF StartShutdown
  <2>5. ASSUME NEW c \in Conns, StartRelease(t, c)
       PROVE Typed'
    BY <2>5 DEF StartRelease
  <2> HIDE DEF Typed, TypeOK, RoutingTypeOK
  <2> QED BY <1>1, <2>1, <2>2, <2>3, <2>4, <2>5 DEF Start
<1>2. ASSUME NEW t \in Threads, Enter(t) PROVE Typed'
  <2>1. CASE EnterProfile(t)  BY <2>1 DEF EnterProfile, AuthorizeGrant
  <2>2. CASE EnterDenied(t)  BY <2>2 DEF EnterDenied, Refuse
  <2>3. CASE EnsureRefused(t)  BY <2>3 DEF EnsureRefused, Refuse
  <2>4. CASE EnsureExisting(t)
    BY <2>4 DEF EnsureExisting, LiveOn, AfterEnsure, NeedsWrite
  <2>5. CASE EnsureNew(t)  BY <2>5 DEF EnsureNew, LiveOn
  <2>6. CASE AcquireProcessLock(t)
    BY <2>6 DEF AcquireProcessLock, ProfileLockFree
  <2>7. CASE ProcessLockBusy(t)  BY <2>7 DEF ProcessLockBusy, Refuse
  <2>8. CASE AddSession(t)
    BY <2>8 DEF AddSession, CreateSession, AfterEnsure, NeedsWrite, Interrupted
  <2>9. CASE AddFails(t)
    <3>1. Interrupted(prof[t]) \in [Sessions -> Lifecycles]
      BY <2>9 DEF AddFails, CreateSession, Interrupted
    <3>2. row' \in [Sessions -> Lifecycles]  BY <2>9, <3>1 DEF AddFails, CreateSession
    <3>3. flock' \in [Profiles -> Sessions \cup {None, Maint}]  BY <2>9 DEF AddFails, CreateSession
    <3>4. TypeOK'  BY <2>9, <3>2, <3>3 DEF AddFails, CreateSession
    <3>5. LocalsSet'  BY <2>9 DEF AddFails, CreateSession
    <3> QED BY <3>4, <3>5
  <2>10. CASE AcquireLease(t)  BY <2>10 DEF AcquireLease, GrantLease, LeaseFree
  <2>11. CASE SessionBusy(t)  BY <2>11 DEF SessionBusy, Refuse
  <2>12. CASE BindSession(t)  BY <2>12 DEF BindSession, BindContext
  <2> QED BY <1>2, <2>1, <2>2, <2>3, <2>4, <2>5, <2>6, <2>7, <2>8, <2>9, <2>10,
         <2>11, <2>12 DEF Enter
<1>3. ASSUME NEW t \in Threads, Address(t) PROVE Typed'
  <2>1. CASE TakeConnection(t)  BY <2>1 DEF TakeConnection, EntryPoint
  <2>2. CASE CurrentEntry(t)  BY <2>2 DEF CurrentEntry, Granted
  <2>3. CASE NoCurrentEntry(t)  BY <2>3 DEF NoCurrentEntry
  <2>4. CASE EntryDenied(t)  BY <2>4 DEF EntryDenied, Refuse
  <2>5. CASE RequireLease(t)  BY <2>5 DEF RequireLease, HoldsLease
  <2>6. CASE RequireFails(t)  BY <2>6 DEF RequireFails, Refuse
  <2>7. CASE ResolveUnknownTab(t)  BY <2>7 DEF ResolveUnknownTab
  <2>8. CASE ResolveTab(t)  BY <2>8 DEF ResolveTab
  <2>9. CASE ResolveFails(t)  BY <2>9 DEF ResolveFails, Refuse
  <2>10. CASE TabsNext(t)  BY <2>10 DEF TabsNext
  <2>11. CASE TabsEnd(t)  BY <2>11 DEF TabsEnd, Refuse
  <2> QED BY <1>3, <2>1, <2>2, <2>3, <2>4, <2>5, <2>6, <2>7, <2>8, <2>9, <2>10,
         <2>11 DEF Address
<1>4. ASSUME NEW t \in Threads, Operate(t) PROVE Typed'
  <2>1. CASE Execute(t)  BY <2>1 DEF Execute, AdmittedAt
  <2>2. CASE ExecuteClosed(t)  BY <2>2 DEF ExecuteClosed, Refuse
  <2>3. CASE Project(t)  BY <2>3 DEF Project, BindRoutes
  <2>4. CASE DetectCrash(t)  BY <2>4 DEF DetectCrash, AdmittedAt
  <2>5. CASE MarkCrashed(t)  BY <2>5 DEF MarkCrashed, Transition
  <2>6. CASE NotifyTerminal(t)  BY <2>6 DEF NotifyTerminal
  <2> QED BY <1>4, <2>1, <2>2, <2>3, <2>4, <2>5, <2>6 DEF Operate
<1>5. ASSUME NEW t \in Threads, Finalize(t) PROVE Typed'
  <2>1. CASE CloseRuntime(t)
    <3>1. sess[t] \in Sessions  BY <2>1 DEF CloseRuntime
    <3>2. PICK failed \in BOOLEAN : CloseOutcome(t, sess[t], failed)
      BY <2>1 DEF CloseRuntime
    <3>3. TypeOK'  BY <2>1, <3>1, <3>2 DEF CloseRuntime, CloseOutcome, Transition
    <3>4. LocalsSet'  BY <2>1, <3>1, <3>2 DEF CloseRuntime, CloseOutcome, Transition
    <3> QED BY <3>3, <3>4
  <2>2. CASE CloseAgain(t)  BY <2>2 DEF CloseAgain
  <2>3. CASE RemoveSession(t)  BY <2>3 DEF RemoveSession
  <2>4. CASE RemovedByOther(t)
    BY <2>4 DEF RemovedByOther, CallbackReturns, AfterFinalize
  <2>5. CASE ReleaseSessionLease(t)  BY <2>5 DEF ReleaseSessionLease, DropLease
  <2>6. CASE UnbindConnections(t)  BY <2>6 DEF UnbindConnections, UnbindSession
  <2>7. CASE InvalidateSessionRoutes(t)
    BY <2>7 DEF InvalidateSessionRoutes, InvalidateRoutes
  <2>8. CASE ReleaseProcessLock(t)
    <3>1. TypeOK'  BY <2>8 DEF ReleaseProcessLock
    <3>2. LocalsSet'  BY <2>8 DEF ReleaseProcessLock
    <3> QED BY <3>1, <3>2
  <2>9. CASE RecordCrash(t)
    BY <2>9 DEF RecordCrash, Transition, CallbackReturns, AfterFinalize
  <2> QED BY <1>5, <2>1, <2>2, <2>3, <2>4, <2>5, <2>6, <2>7, <2>8, <2>9 DEF Finalize
<1>6. ASSUME NEW t \in Threads, Control(t) PROVE Typed'
  <2>1. CASE CloseSession(t)  BY <2>1 DEF CloseSession
  <2>2. CASE CloseGone(t)  BY <2>2 DEF CloseGone, Refuse
  <2>3. CASE Shutdown(t)  BY <2>3 DEF Shutdown
  <2>4. CASE ShutdownNext(t)  BY <2>4 DEF ShutdownNext
  <2>5. CASE ShutdownEnd(t)  BY <2>5 DEF ShutdownEnd, Refuse
  <2>6. CASE UnregisterConnection(t)
    BY <2>6 DEF UnregisterConnection, PopContext
  <2>7. CASE RevokeGrants(t)  BY <2>7 DEF RevokeGrants, RevokeConnection
  <2>8. CASE ReleaseLeases(t)  BY <2>8 DEF ReleaseLeases, DropLeasesOf, Overtaken, HoldsLease
  <2> QED BY <1>6, <2>1, <2>2, <2>3, <2>4, <2>5, <2>6, <2>7, <2>8 DEF Control
<1>7. ASSUME NEW t \in Threads, Finish(t) PROVE Typed'
  BY <1>7 DEF Finish
<1>8. ASSUME Environment PROVE Typed'
  <2>1. ASSUME NEW s \in Sessions, HostExits(s) PROVE Typed'
    BY <2>1 DEF HostExits
  <2>2. ASSUME NEW s \in Sessions, LeaseExpires(s) PROVE Typed'
    BY <2>2 DEF LeaseExpires, DropLease, Overtaken, HoldsLease
  <2>3. ASSUME NEW c \in Conns, NEW p \in Profiles, GrantExpires(c, p) PROVE Typed'
    BY <2>3 DEF GrantExpires
  <2>4. ASSUME NEW c \in Conns, ConnectionExpires(c) PROVE Typed'
    BY <2>4 DEF ConnectionExpires, ContextExpires, InFlight
  <2>5. ASSUME NEW p \in Profiles, ArchiveProfile(p) PROVE Typed'
    BY <2>5 DEF ArchiveProfile
  <2>6. ASSUME NEW p \in Profiles, RestoreProfile(p) PROVE Typed'
    BY <2>6 DEF RestoreProfile
  <2>7. ASSUME NEW p \in Profiles, BeginMaintenance(p) PROVE Typed'
    BY <2>7 DEF BeginMaintenance, ProfileLockFree
  <2>8. ASSUME NEW p \in Profiles, EndMaintenance(p) PROVE Typed'
    BY <2>8 DEF EndMaintenance
  <2>9. CASE RuntimeRestarts
    <3>1. restarts' \in 0..MaxRestarts  BY <2>9 DEF RuntimeRestarts
    <3>2. rt' \in [Sessions -> {"none", "open", "closed"}]  BY <2>9 DEF RuntimeRestarts
    <3>3. RoutingTypeOK'  BY <2>9 DEF RuntimeRestarts, RoutingLost
    <3>4. TypeOK'  BY <2>9, <3>1, <3>2, <3>3 DEF RuntimeRestarts
    <3>5. LocalsSet'  BY <2>9 DEF RuntimeRestarts
    <3> QED BY <3>4, <3>5
  <2> QED BY <1>8, <2>1, <2>2, <2>3, <2>4, <2>5, <2>6, <2>7, <2>8, <2>9 DEF Environment
<1>9. CASE UNCHANGED vars  BY <1>9 DEF vars
<1> QED BY <1>1, <1>2, <1>3, <1>4, <1>5, <1>6, <1>7, <1>8, <1>9 DEF Next, Step

LEMMA TypedInvariant == Spec => []Typed
<1>1. Typed /\ [Next]_vars => Typed'  BY TypedStep
<1> QED BY TypedInit, <1>1, PTL DEF Spec

(* Every variable keeps its type: in particular a step that reads a local  *)
(* of its thread finds a Session, a connection or a Profile there.         *)
THEOREM TypeCorrect == Spec => []TypeOK
<1>1. Typed => TypeOK  BY DEF Typed
<1> QED BY TypedInvariant, <1>1, PTL

-----------------------------------------------------------------------------
(* Ownership of Profiles.                                                  *)

LEMMA OwnershipInit == Init => Ownership
BY NoneAssumption, SupervisorAssumption
   DEF Init, RoutingInit, Ownership, CreatorHoldsLock, CreatorOwnsProfile,
       FreshIsClean, LiveOwns, OpenIsLive, AddressedIsBuilt, FinalizerOwns,
       ReachableSessions, NeedSess, Finalizing

LEMMA OwnershipStep ==
  ASSUME Typed, Ownership, [Next]_vars
  PROVE  Ownership'
<1> USE NoneAssumption, SupervisorAssumption
    DEF Typed, TypeOK, RoutingTypeOK, LocalsSet, Labels, Lifecycles,
        AgentLabels, CreateLabels, ReleaseLabels, ShutdownLabels, NeedSess,
        AgentOps, ControlOps, Finalizing, Ownership, CreatorHoldsLock,
        CreatorOwnsProfile, FreshIsClean, LiveOwns, OpenIsLive,
        AddressedIsBuilt, FinalizerOwns, ReachableSessions, Goto, contexts,
        routingVars, sessionVars, lockVars, localVars, bounds, history
<1>1. ASSUME NEW t \in Threads, Start(t) PROVE Ownership'
  <2>1. ASSUME NEW o \in AgentOps, NEW c \in Conns, NEW p \in Profiles, StartAgent(t, o, c, p)
       PROVE Ownership'
    BY <2>1 DEF StartAgent, GetOrCreate
  <2>2. ASSUME NEW p \in Profiles, StartControl(t, p)
       PROVE Ownership'
    BY <2>2 DEF StartControl
  <2>3. ASSUME NEW s \in Sessions, StartClose(t, s)
       PROVE Ownership'
    BY <2>3 DEF StartClose
  <2>4. CASE StartShutdown(t)  BY <2>4 DEF StartShutdown
  <2>5. ASSUME NEW c \in Conns, StartRelease(t, c)
       PROVE Ownership'
    BY <2>5 DEF StartRelease
  <2> QED BY <1>1, <2>1, <2>2, <2>3, <2>4, <2>5 DEF Start
<1>2. ASSUME NEW t \in Threads, Enter(t) PROVE Ownership'
  <2>1. CASE EnterProfile(t)  BY <2>1 DEF EnterProfile, AuthorizeGrant
  <2>2. CASE EnterDenied(t)  BY <2>2 DEF EnterDenied, Refuse
  <2>3. CASE EnsureRefused(t)  BY <2>3 DEF EnsureRefused, Refuse
  <2>4. CASE EnsureExisting(t)
    BY <2>4 DEF EnsureExisting, LiveOn, AfterEnsure, NeedsWrite
  <2>5. CASE EnsureNew(t)  BY <2>5 DEF EnsureNew, LiveOn
  <2>6. CASE AcquireProcessLock(t)
    BY <2>6 DEF AcquireProcessLock, ProfileLockFree
  <2>7. CASE ProcessLockBusy(t)  BY <2>7 DEF ProcessLockBusy, Refuse
  <2>8. CASE AddSession(t)
    BY <2>8 DEF AddSession, CreateSession, AfterEnsure, NeedsWrite, Interrupted
  <2>9. CASE AddFails(t)  BY <2>9 DEF AddFails, CreateSession, Interrupted
  <2>10. CASE AcquireLease(t)  BY <2>10 DEF AcquireLease, GrantLease, LeaseFree
  <2>11. CASE SessionBusy(t)  BY <2>11 DEF SessionBusy, Refuse
  <2>12. CASE BindSession(t)  BY <2>12 DEF BindSession, BindContext
  <2> QED BY <1>2, <2>1, <2>2, <2>3, <2>4, <2>5, <2>6, <2>7, <2>8, <2>9, <2>10,
         <2>11, <2>12 DEF Enter
<1>3. ASSUME NEW t \in Threads, Address(t) PROVE Ownership'
  <2>1. CASE TakeConnection(t)  BY <2>1 DEF TakeConnection, EntryPoint
  <2>2. CASE CurrentEntry(t)  BY <2>2 DEF CurrentEntry, Granted
  <2>3. CASE NoCurrentEntry(t)  BY <2>3 DEF NoCurrentEntry
  <2>4. CASE EntryDenied(t)  BY <2>4 DEF EntryDenied, Refuse
  <2>5. CASE RequireLease(t)  BY <2>5 DEF RequireLease, HoldsLease
  <2>6. CASE RequireFails(t)  BY <2>6 DEF RequireFails, Refuse
  <2>7. CASE ResolveUnknownTab(t)  BY <2>7 DEF ResolveUnknownTab
  <2>8. CASE ResolveTab(t)  BY <2>8 DEF ResolveTab
  <2>9. CASE ResolveFails(t)  BY <2>9 DEF ResolveFails, Refuse
  <2>10. CASE TabsNext(t)  BY <2>10 DEF TabsNext
  <2>11. CASE TabsEnd(t)  BY <2>11 DEF TabsEnd, Refuse
  <2> QED BY <1>3, <2>1, <2>2, <2>3, <2>4, <2>5, <2>6, <2>7, <2>8, <2>9, <2>10,
         <2>11 DEF Address
<1>4. ASSUME NEW t \in Threads, Operate(t) PROVE Ownership'
  <2>1. CASE Execute(t)  BY <2>1 DEF Execute, AdmittedAt
  <2>2. CASE ExecuteClosed(t)  BY <2>2 DEF ExecuteClosed, Refuse
  <2>3. CASE Project(t)  BY <2>3 DEF Project, BindRoutes
  <2>4. CASE DetectCrash(t)  BY <2>4 DEF DetectCrash, AdmittedAt
  <2>5. CASE MarkCrashed(t)  BY <2>5 DEF MarkCrashed, Transition
  <2>6. CASE NotifyTerminal(t)  BY <2>6 DEF NotifyTerminal
  <2> QED BY <1>4, <2>1, <2>2, <2>3, <2>4, <2>5, <2>6 DEF Operate
<1>5. ASSUME NEW t \in Threads, Finalize(t) PROVE Ownership'
  <2>1. CASE CloseRuntime(t)  BY <2>1 DEF CloseRuntime, CloseOutcome, Transition
  <2>2. CASE CloseAgain(t)  BY <2>2 DEF CloseAgain
  <2>3. CASE RemoveSession(t)  BY <2>3 DEF RemoveSession
  <2>4. CASE RemovedByOther(t)
    BY <2>4 DEF RemovedByOther, CallbackReturns, AfterFinalize
  <2>5. CASE ReleaseSessionLease(t)  BY <2>5 DEF ReleaseSessionLease, DropLease
  <2>6. CASE UnbindConnections(t)  BY <2>6 DEF UnbindConnections, UnbindSession
  <2>7. CASE InvalidateSessionRoutes(t)
    BY <2>7 DEF InvalidateSessionRoutes, InvalidateRoutes
  <2>8. CASE ReleaseProcessLock(t)  BY <2>8 DEF ReleaseProcessLock
  <2>9. CASE RecordCrash(t)
    BY <2>9 DEF RecordCrash, Transition, CallbackReturns, AfterFinalize
  <2> QED BY <1>5, <2>1, <2>2, <2>3, <2>4, <2>5, <2>6, <2>7, <2>8, <2>9 DEF Finalize
<1>6. ASSUME NEW t \in Threads, Control(t) PROVE Ownership'
  <2>1. CASE CloseSession(t)  BY <2>1 DEF CloseSession
  <2>2. CASE CloseGone(t)  BY <2>2 DEF CloseGone, Refuse
  <2>3. CASE Shutdown(t)  BY <2>3 DEF Shutdown
  <2>4. CASE ShutdownNext(t)  BY <2>4 DEF ShutdownNext
  <2>5. CASE ShutdownEnd(t)  BY <2>5 DEF ShutdownEnd, Refuse
  <2>6. CASE UnregisterConnection(t)
    BY <2>6 DEF UnregisterConnection, PopContext
  <2>7. CASE RevokeGrants(t)  BY <2>7 DEF RevokeGrants, RevokeConnection
  <2>8. CASE ReleaseLeases(t)  BY <2>8 DEF ReleaseLeases, DropLeasesOf, Overtaken, HoldsLease
  <2> QED BY <1>6, <2>1, <2>2, <2>3, <2>4, <2>5, <2>6, <2>7, <2>8 DEF Control
<1>7. ASSUME NEW t \in Threads, Finish(t) PROVE Ownership'
  BY <1>7 DEF Finish
<1>8. ASSUME Environment PROVE Ownership'
  <2>1. ASSUME NEW s \in Sessions, HostExits(s) PROVE Ownership'
    BY <2>1 DEF HostExits
  <2>2. ASSUME NEW s \in Sessions, LeaseExpires(s) PROVE Ownership'
    BY <2>2 DEF LeaseExpires, DropLease, Overtaken, HoldsLease
  <2>3. ASSUME NEW c \in Conns, NEW p \in Profiles, GrantExpires(c, p) PROVE Ownership'
    BY <2>3 DEF GrantExpires
  <2>4. ASSUME NEW c \in Conns, ConnectionExpires(c) PROVE Ownership'
    BY <2>4 DEF ConnectionExpires, ContextExpires, InFlight
  <2>5. ASSUME NEW p \in Profiles, ArchiveProfile(p) PROVE Ownership'
    BY <2>5 DEF ArchiveProfile
  <2>6. ASSUME NEW p \in Profiles, RestoreProfile(p) PROVE Ownership'
    BY <2>6 DEF RestoreProfile
  <2>7. ASSUME NEW p \in Profiles, BeginMaintenance(p) PROVE Ownership'
    BY <2>7 DEF BeginMaintenance, ProfileLockFree
  <2>8. ASSUME NEW p \in Profiles, EndMaintenance(p) PROVE Ownership'
    BY <2>8 DEF EndMaintenance
  <2>9. CASE RuntimeRestarts  BY <2>9 DEF RuntimeRestarts, RoutingLost
  <2> QED BY <1>8, <2>1, <2>2, <2>3, <2>4, <2>5, <2>6, <2>7, <2>8, <2>9 DEF Environment
<1>9. CASE UNCHANGED vars  BY <1>9 DEF vars
<1> QED BY <1>1, <1>2, <1>3, <1>4, <1>5, <1>6, <1>7, <1>8, <1>9 DEF Next, Step

LEMMA OwnershipInvariant == Spec => []Ownership
<1>1. Typed /\ Ownership /\ [Next]_vars => Ownership'  BY OwnershipStep
<1> QED BY OwnershipInit, TypedInvariant, <1>1, PTL DEF Spec

(* _ensure_session and _finalize_session: an indexed Session owns the      *)
(* process lock of its Profile, whoever creates, closes, crashes,          *)
(* maintains or restarts.                                                  *)
THEOREM ProfileOwnership == Spec => []LiveSessionOwnsProfile
<1>1. Ownership => LiveSessionOwnsProfile
  BY DEF Ownership, LiveOwns, LiveSessionOwnsProfile
<1> QED BY OwnershipInvariant, <1>1, PTL

(* No runtime that accepts calls is ever out of the Supervisor's index.    *)
THEOREM NoOrphanRuntime == Spec => []OpenRuntimeIsLive
<1>1. Ownership => OpenRuntimeIsLive
  BY DEF Ownership, OpenIsLive, OpenRuntimeIsLive
<1> QED BY OwnershipInvariant, <1>1, PTL

-----------------------------------------------------------------------------
(* The browser process.                                                    *)

LEMMA HostInit == Init => HostHasRuntime
BY DEF Init, HostHasRuntime

LEMMA HostStep ==
  ASSUME Typed, Ownership, HostHasRuntime, [Next]_vars
  PROVE  HostHasRuntime'
<1> USE NoneAssumption, SupervisorAssumption
    DEF Typed, TypeOK, RoutingTypeOK, LocalsSet, Labels, Lifecycles,
        AgentLabels, CreateLabels, ReleaseLabels, ShutdownLabels, NeedSess,
        AgentOps, ControlOps, Finalizing, Ownership, CreatorOwnsProfile,
        AddressedIsBuilt, HostHasRuntime, Goto, contexts, routingVars,
        sessionVars, lockVars, localVars, bounds, history
<1>1. ASSUME NEW t \in Threads, Start(t) PROVE HostHasRuntime'
  <2>1. ASSUME NEW o \in AgentOps, NEW c \in Conns, NEW p \in Profiles, StartAgent(t, o, c, p)
       PROVE HostHasRuntime'
    BY <2>1 DEF StartAgent, GetOrCreate
  <2>2. ASSUME NEW p \in Profiles, StartControl(t, p)
       PROVE HostHasRuntime'
    BY <2>2 DEF StartControl
  <2>3. ASSUME NEW s \in Sessions, StartClose(t, s)
       PROVE HostHasRuntime'
    BY <2>3 DEF StartClose
  <2>4. CASE StartShutdown(t)  BY <2>4 DEF StartShutdown
  <2>5. ASSUME NEW c \in Conns, StartRelease(t, c)
       PROVE HostHasRuntime'
    BY <2>5 DEF StartRelease
  <2> QED BY <1>1, <2>1, <2>2, <2>3, <2>4, <2>5 DEF Start
<1>2. ASSUME NEW t \in Threads, Enter(t) PROVE HostHasRuntime'
  <2>1. CASE EnterProfile(t)  BY <2>1 DEF EnterProfile, AuthorizeGrant
  <2>2. CASE EnterDenied(t)  BY <2>2 DEF EnterDenied, Refuse
  <2>3. CASE EnsureRefused(t)  BY <2>3 DEF EnsureRefused, Refuse
  <2>4. CASE EnsureExisting(t)
    BY <2>4 DEF EnsureExisting, LiveOn, AfterEnsure, NeedsWrite
  <2>5. CASE EnsureNew(t)  BY <2>5 DEF EnsureNew, LiveOn
  <2>6. CASE AcquireProcessLock(t)
    BY <2>6 DEF AcquireProcessLock, ProfileLockFree
  <2>7. CASE ProcessLockBusy(t)  BY <2>7 DEF ProcessLockBusy, Refuse
  <2>8. CASE AddSession(t)
    BY <2>8 DEF AddSession, CreateSession, AfterEnsure, NeedsWrite, Interrupted
  <2>9. CASE AddFails(t)  BY <2>9 DEF AddFails, CreateSession, Interrupted
  <2>10. CASE AcquireLease(t)  BY <2>10 DEF AcquireLease, GrantLease, LeaseFree
  <2>11. CASE SessionBusy(t)  BY <2>11 DEF SessionBusy, Refuse
  <2>12. CASE BindSession(t)  BY <2>12 DEF BindSession, BindContext
  <2> QED BY <1>2, <2>1, <2>2, <2>3, <2>4, <2>5, <2>6, <2>7, <2>8, <2>9, <2>10,
         <2>11, <2>12 DEF Enter
<1>3. ASSUME NEW t \in Threads, Address(t) PROVE HostHasRuntime'
  <2>1. CASE TakeConnection(t)  BY <2>1 DEF TakeConnection, EntryPoint
  <2>2. CASE CurrentEntry(t)  BY <2>2 DEF CurrentEntry, Granted
  <2>3. CASE NoCurrentEntry(t)  BY <2>3 DEF NoCurrentEntry
  <2>4. CASE EntryDenied(t)  BY <2>4 DEF EntryDenied, Refuse
  <2>5. CASE RequireLease(t)  BY <2>5 DEF RequireLease, HoldsLease
  <2>6. CASE RequireFails(t)  BY <2>6 DEF RequireFails, Refuse
  <2>7. CASE ResolveUnknownTab(t)  BY <2>7 DEF ResolveUnknownTab
  <2>8. CASE ResolveTab(t)  BY <2>8 DEF ResolveTab
  <2>9. CASE ResolveFails(t)  BY <2>9 DEF ResolveFails, Refuse
  <2>10. CASE TabsNext(t)  BY <2>10 DEF TabsNext
  <2>11. CASE TabsEnd(t)  BY <2>11 DEF TabsEnd, Refuse
  <2> QED BY <1>3, <2>1, <2>2, <2>3, <2>4, <2>5, <2>6, <2>7, <2>8, <2>9, <2>10,
         <2>11 DEF Address
<1>4. ASSUME NEW t \in Threads, Operate(t) PROVE HostHasRuntime'
  <2>1. CASE Execute(t)  BY <2>1 DEF Execute, AdmittedAt
  <2>2. CASE ExecuteClosed(t)  BY <2>2 DEF ExecuteClosed, Refuse
  <2>3. CASE Project(t)  BY <2>3 DEF Project, BindRoutes
  <2>4. CASE DetectCrash(t)  BY <2>4 DEF DetectCrash, AdmittedAt
  <2>5. CASE MarkCrashed(t)  BY <2>5 DEF MarkCrashed, Transition
  <2>6. CASE NotifyTerminal(t)  BY <2>6 DEF NotifyTerminal
  <2> QED BY <1>4, <2>1, <2>2, <2>3, <2>4, <2>5, <2>6 DEF Operate
<1>5. ASSUME NEW t \in Threads, Finalize(t) PROVE HostHasRuntime'
  <2>1. CASE CloseRuntime(t)  BY <2>1 DEF CloseRuntime, CloseOutcome, Transition
  <2>2. CASE CloseAgain(t)  BY <2>2 DEF CloseAgain
  <2>3. CASE RemoveSession(t)  BY <2>3 DEF RemoveSession
  <2>4. CASE RemovedByOther(t)
    BY <2>4 DEF RemovedByOther, CallbackReturns, AfterFinalize
  <2>5. CASE ReleaseSessionLease(t)  BY <2>5 DEF ReleaseSessionLease, DropLease
  <2>6. CASE UnbindConnections(t)  BY <2>6 DEF UnbindConnections, UnbindSession
  <2>7. CASE InvalidateSessionRoutes(t)
    BY <2>7 DEF InvalidateSessionRoutes, InvalidateRoutes
  <2>8. CASE ReleaseProcessLock(t)  BY <2>8 DEF ReleaseProcessLock
  <2>9. CASE RecordCrash(t)
    BY <2>9 DEF RecordCrash, Transition, CallbackReturns, AfterFinalize
  <2> QED BY <1>5, <2>1, <2>2, <2>3, <2>4, <2>5, <2>6, <2>7, <2>8, <2>9 DEF Finalize
<1>6. ASSUME NEW t \in Threads, Control(t) PROVE HostHasRuntime'
  <2>1. CASE CloseSession(t)  BY <2>1 DEF CloseSession
  <2>2. CASE CloseGone(t)  BY <2>2 DEF CloseGone, Refuse
  <2>3. CASE Shutdown(t)  BY <2>3 DEF Shutdown
  <2>4. CASE ShutdownNext(t)  BY <2>4 DEF ShutdownNext
  <2>5. CASE ShutdownEnd(t)  BY <2>5 DEF ShutdownEnd, Refuse
  <2>6. CASE UnregisterConnection(t)
    BY <2>6 DEF UnregisterConnection, PopContext
  <2>7. CASE RevokeGrants(t)  BY <2>7 DEF RevokeGrants, RevokeConnection
  <2>8. CASE ReleaseLeases(t)  BY <2>8 DEF ReleaseLeases, DropLeasesOf, Overtaken, HoldsLease
  <2> QED BY <1>6, <2>1, <2>2, <2>3, <2>4, <2>5, <2>6, <2>7, <2>8 DEF Control
<1>7. ASSUME NEW t \in Threads, Finish(t) PROVE HostHasRuntime'
  BY <1>7 DEF Finish
<1>8. ASSUME Environment PROVE HostHasRuntime'
  <2>1. ASSUME NEW s \in Sessions, HostExits(s) PROVE HostHasRuntime'
    BY <2>1 DEF HostExits
  <2>2. ASSUME NEW s \in Sessions, LeaseExpires(s) PROVE HostHasRuntime'
    BY <2>2 DEF LeaseExpires, DropLease, Overtaken, HoldsLease
  <2>3. ASSUME NEW c \in Conns, NEW p \in Profiles, GrantExpires(c, p) PROVE HostHasRuntime'
    BY <2>3 DEF GrantExpires
  <2>4. ASSUME NEW c \in Conns, ConnectionExpires(c) PROVE HostHasRuntime'
    BY <2>4 DEF ConnectionExpires, ContextExpires, InFlight
  <2>5. ASSUME NEW p \in Profiles, ArchiveProfile(p) PROVE HostHasRuntime'
    BY <2>5 DEF ArchiveProfile
  <2>6. ASSUME NEW p \in Profiles, RestoreProfile(p) PROVE HostHasRuntime'
    BY <2>6 DEF RestoreProfile
  <2>7. ASSUME NEW p \in Profiles, BeginMaintenance(p) PROVE HostHasRuntime'
    BY <2>7 DEF BeginMaintenance, ProfileLockFree
  <2>8. ASSUME NEW p \in Profiles, EndMaintenance(p) PROVE HostHasRuntime'
    BY <2>8 DEF EndMaintenance
  <2>9. CASE RuntimeRestarts  BY <2>9 DEF RuntimeRestarts, RoutingLost
  <2> QED BY <1>8, <2>1, <2>2, <2>3, <2>4, <2>5, <2>6, <2>7, <2>8, <2>9 DEF Environment
<1>9. CASE UNCHANGED vars  BY <1>9 DEF vars
<1> QED BY <1>1, <1>2, <1>3, <1>4, <1>5, <1>6, <1>7, <1>8, <1>9 DEF Next, Step

LEMMA HostInvariant == Spec => []HostHasRuntime
<1>1. Typed /\ Ownership /\ HostHasRuntime /\ [Next]_vars => HostHasRuntime'
  BY HostStep
<1> QED BY HostInit, TypedInvariant, OwnershipInvariant, <1>1, PTL DEF Spec

(* A browser runs only under the process lock of its Profile, whatever     *)
(* threads, crashes, failing closes and restarts do, unless a close() gave *)
(* up on that browser or the process died under it.                        *)
THEOREM HostExclusion == Spec => []HostOwnsProfile
<1>1. Typed /\ Ownership /\ HostHasRuntime => HostOwnsProfile
  BY DEF Ownership, LiveOwns, OpenIsLive, HostHasRuntime, HostOwnsProfile
<1> QED BY TypedInvariant, OwnershipInvariant, HostInvariant, <1>1, PTL

-----------------------------------------------------------------------------
(* Writes.                                                                 *)

LEMMA WriterInit == Init => WriterHoldsLease
BY NoneAssumption, SupervisorAssumption
   DEF Init, WriterHoldsLease, AgentOps, ControlOps, CreateLabels

LEMMA WriterStep ==
  ASSUME Typed, Ownership, WriterHoldsLease, [Next]_vars
  PROVE  WriterHoldsLease'
<1> USE NoneAssumption, SupervisorAssumption
    DEF Typed, TypeOK, RoutingTypeOK, LocalsSet, Labels, Lifecycles,
        AgentLabels, CreateLabels, ReleaseLabels, ShutdownLabels, NeedSess,
        AgentOps, ControlOps, Finalizing, Ownership, AddressedIsBuilt,
        FinalizerOwns, CreatorOwnsProfile, WriterHoldsLease, HoldsLease,
        Goto, contexts, routingVars, sessionVars, lockVars, localVars,
        bounds, history
<1>1. ASSUME NEW t \in Threads, Start(t) PROVE WriterHoldsLease'
  <2>1. ASSUME NEW o \in AgentOps, NEW c \in Conns, NEW p \in Profiles, StartAgent(t, o, c, p)
       PROVE WriterHoldsLease'
    BY <2>1 DEF StartAgent, GetOrCreate
  <2>2. ASSUME NEW p \in Profiles, StartControl(t, p)
       PROVE WriterHoldsLease'
    BY <2>2 DEF StartControl
  <2>3. ASSUME NEW s \in Sessions, StartClose(t, s)
       PROVE WriterHoldsLease'
    BY <2>3 DEF StartClose
  <2>4. CASE StartShutdown(t)  BY <2>4 DEF StartShutdown
  <2>5. ASSUME NEW c \in Conns, StartRelease(t, c)
       PROVE WriterHoldsLease'
    BY <2>5 DEF StartRelease
  <2> QED BY <1>1, <2>1, <2>2, <2>3, <2>4, <2>5 DEF Start
<1>2. ASSUME NEW t \in Threads, Enter(t) PROVE WriterHoldsLease'
  <2>1. CASE EnterProfile(t)  BY <2>1 DEF EnterProfile, AuthorizeGrant
  <2>2. CASE EnterDenied(t)  BY <2>2 DEF EnterDenied, Refuse
  <2>3. CASE EnsureRefused(t)  BY <2>3 DEF EnsureRefused, Refuse
  <2>4. CASE EnsureExisting(t)
    BY <2>4 DEF EnsureExisting, LiveOn, AfterEnsure, NeedsWrite
  <2>5. CASE EnsureNew(t)  BY <2>5 DEF EnsureNew, LiveOn
  <2>6. CASE AcquireProcessLock(t)
    BY <2>6 DEF AcquireProcessLock, ProfileLockFree
  <2>7. CASE ProcessLockBusy(t)  BY <2>7 DEF ProcessLockBusy, Refuse
  <2>8. CASE AddSession(t)
    BY <2>8 DEF AddSession, CreateSession, AfterEnsure, NeedsWrite, Interrupted
  <2>9. CASE AddFails(t)  BY <2>9 DEF AddFails, CreateSession, Interrupted
  <2>10. CASE AcquireLease(t)  BY <2>10 DEF AcquireLease, GrantLease, LeaseFree
  <2>11. CASE SessionBusy(t)  BY <2>11 DEF SessionBusy, Refuse
  <2>12. CASE BindSession(t)  BY <2>12 DEF BindSession, BindContext
  <2> QED BY <1>2, <2>1, <2>2, <2>3, <2>4, <2>5, <2>6, <2>7, <2>8, <2>9, <2>10,
         <2>11, <2>12 DEF Enter
<1>3. ASSUME NEW t \in Threads, Address(t) PROVE WriterHoldsLease'
  <2>1. CASE TakeConnection(t)  BY <2>1 DEF TakeConnection, EntryPoint
  <2>2. CASE CurrentEntry(t)  BY <2>2 DEF CurrentEntry, Granted
  <2>3. CASE NoCurrentEntry(t)  BY <2>3 DEF NoCurrentEntry
  <2>4. CASE EntryDenied(t)  BY <2>4 DEF EntryDenied, Refuse
  <2>5. CASE RequireLease(t)  BY <2>5 DEF RequireLease, HoldsLease
  <2>6. CASE RequireFails(t)  BY <2>6 DEF RequireFails, Refuse
  <2>7. CASE ResolveUnknownTab(t)  BY <2>7 DEF ResolveUnknownTab
  <2>8. CASE ResolveTab(t)  BY <2>8 DEF ResolveTab
  <2>9. CASE ResolveFails(t)  BY <2>9 DEF ResolveFails, Refuse
  <2>10. CASE TabsNext(t)  BY <2>10 DEF TabsNext
  <2>11. CASE TabsEnd(t)  BY <2>11 DEF TabsEnd, Refuse
  <2> QED BY <1>3, <2>1, <2>2, <2>3, <2>4, <2>5, <2>6, <2>7, <2>8, <2>9, <2>10,
         <2>11 DEF Address
<1>4. ASSUME NEW t \in Threads, Operate(t) PROVE WriterHoldsLease'
  <2>1. CASE Execute(t)  BY <2>1 DEF Execute, AdmittedAt
  <2>2. CASE ExecuteClosed(t)  BY <2>2 DEF ExecuteClosed, Refuse
  <2>3. CASE Project(t)  BY <2>3 DEF Project, BindRoutes
  <2>4. CASE DetectCrash(t)  BY <2>4 DEF DetectCrash, AdmittedAt
  <2>5. CASE MarkCrashed(t)  BY <2>5 DEF MarkCrashed, Transition
  <2>6. CASE NotifyTerminal(t)  BY <2>6 DEF NotifyTerminal
  <2> QED BY <1>4, <2>1, <2>2, <2>3, <2>4, <2>5, <2>6 DEF Operate
<1>5. ASSUME NEW t \in Threads, Finalize(t) PROVE WriterHoldsLease'
  <2>1. CASE CloseRuntime(t)  BY <2>1 DEF CloseRuntime, CloseOutcome, Transition
  <2>2. CASE CloseAgain(t)  BY <2>2 DEF CloseAgain
  <2>3. CASE RemoveSession(t)  BY <2>3 DEF RemoveSession
  <2>4. CASE RemovedByOther(t)
    BY <2>4 DEF RemovedByOther, CallbackReturns, AfterFinalize
  <2>5. CASE ReleaseSessionLease(t)  BY <2>5 DEF ReleaseSessionLease, DropLease
  <2>6. CASE UnbindConnections(t)  BY <2>6 DEF UnbindConnections, UnbindSession
  <2>7. CASE InvalidateSessionRoutes(t)
    BY <2>7 DEF InvalidateSessionRoutes, InvalidateRoutes
  <2>8. CASE ReleaseProcessLock(t)  BY <2>8 DEF ReleaseProcessLock
  <2>9. CASE RecordCrash(t)
    BY <2>9 DEF RecordCrash, Transition, CallbackReturns, AfterFinalize
  <2> QED BY <1>5, <2>1, <2>2, <2>3, <2>4, <2>5, <2>6, <2>7, <2>8, <2>9 DEF Finalize
<1>6. ASSUME NEW t \in Threads, Control(t) PROVE WriterHoldsLease'
  <2>1. CASE CloseSession(t)  BY <2>1 DEF CloseSession
  <2>2. CASE CloseGone(t)  BY <2>2 DEF CloseGone, Refuse
  <2>3. CASE Shutdown(t)  BY <2>3 DEF Shutdown
  <2>4. CASE ShutdownNext(t)  BY <2>4 DEF ShutdownNext
  <2>5. CASE ShutdownEnd(t)  BY <2>5 DEF ShutdownEnd, Refuse
  <2>6. CASE UnregisterConnection(t)
    BY <2>6 DEF UnregisterConnection, PopContext
  <2>7. CASE RevokeGrants(t)  BY <2>7 DEF RevokeGrants, RevokeConnection
  <2>8. CASE ReleaseLeases(t)  BY <2>8 DEF ReleaseLeases, DropLeasesOf, Overtaken, HoldsLease
  <2> QED BY <1>6, <2>1, <2>2, <2>3, <2>4, <2>5, <2>6, <2>7, <2>8 DEF Control
<1>7. ASSUME NEW t \in Threads, Finish(t) PROVE WriterHoldsLease'
  BY <1>7 DEF Finish
<1>8. ASSUME Environment PROVE WriterHoldsLease'
  <2>1. ASSUME NEW s \in Sessions, HostExits(s) PROVE WriterHoldsLease'
    BY <2>1 DEF HostExits
  <2>2. ASSUME NEW s \in Sessions, LeaseExpires(s) PROVE WriterHoldsLease'
    BY <2>2 DEF LeaseExpires, DropLease, Overtaken, HoldsLease
  <2>3. ASSUME NEW c \in Conns, NEW p \in Profiles, GrantExpires(c, p) PROVE WriterHoldsLease'
    BY <2>3 DEF GrantExpires
  <2>4. ASSUME NEW c \in Conns, ConnectionExpires(c) PROVE WriterHoldsLease'
    BY <2>4 DEF ConnectionExpires, ContextExpires, InFlight
  <2>5. ASSUME NEW p \in Profiles, ArchiveProfile(p) PROVE WriterHoldsLease'
    BY <2>5 DEF ArchiveProfile
  <2>6. ASSUME NEW p \in Profiles, RestoreProfile(p) PROVE WriterHoldsLease'
    BY <2>6 DEF RestoreProfile
  <2>7. ASSUME NEW p \in Profiles, BeginMaintenance(p) PROVE WriterHoldsLease'
    BY <2>7 DEF BeginMaintenance, ProfileLockFree
  <2>8. ASSUME NEW p \in Profiles, EndMaintenance(p) PROVE WriterHoldsLease'
    BY <2>8 DEF EndMaintenance
  <2>9. CASE RuntimeRestarts  BY <2>9 DEF RuntimeRestarts, RoutingLost
  <2> QED BY <1>8, <2>1, <2>2, <2>3, <2>4, <2>5, <2>6, <2>7, <2>8, <2>9 DEF Environment
<1>9. CASE UNCHANGED vars  BY <1>9 DEF vars
<1> QED BY <1>1, <1>2, <1>3, <1>4, <1>5, <1>6, <1>7, <1>8, <1>9 DEF Next, Step

LEMMA WriterInvariant == Spec => []WriterHoldsLease
<1>1. Typed /\ Ownership /\ WriterHoldsLease /\ [Next]_vars => WriterHoldsLease'
  BY WriterStep
<1>2. Init => WriterHoldsLease  BY WriterInit
<1> QED BY <1>1, <1>2, TypedInvariant, OwnershipInvariant, PTL DEF Spec

(* Writes of two connections are never admitted together at one Session:   *)
(* the lease tested by acquire or require is still held at the call, or    *)
(* the Session was closed and refuses it, or the lease expired or was      *)
(* released with its connection after the test, which nothing repeats.     *)
THEOREM WriteExclusion == Spec => []OneWriter
<1>1. Typed /\ WriterHoldsLease => OneWriter
  BY DEF Typed, WriterHoldsLease, OneWriter, Writer, AdmittedAt, HoldsLease
<1> QED BY <1>1, TypedInvariant, WriterInvariant, PTL

-----------------------------------------------------------------------------
(* Shutdown.                                                               *)

LEMMA ShutdownInit == Init => ShutdownCovers
BY DEF Init, ShutdownCovers

LEMMA ShutdownStep ==
  ASSUME Typed, Ownership, ShutdownCovers, [Next]_vars
  PROVE  ShutdownCovers'
<1> USE NoneAssumption, SupervisorAssumption
    DEF Typed, TypeOK, RoutingTypeOK, LocalsSet, Labels, Lifecycles,
        AgentLabels, CreateLabels, ReleaseLabels, ShutdownLabels, NeedSess,
        AgentOps, ControlOps, Finalizing, Ownership, CreatorHoldsLock,
        ShutdownCovers, Goto, contexts, routingVars, sessionVars, lockVars,
        localVars, bounds, history
<1>1. ASSUME NEW t \in Threads, Start(t) PROVE ShutdownCovers'
  <2>1. ASSUME NEW o \in AgentOps, NEW c \in Conns, NEW p \in Profiles, StartAgent(t, o, c, p)
       PROVE ShutdownCovers'
    BY <2>1 DEF StartAgent, GetOrCreate
  <2>2. ASSUME NEW p \in Profiles, StartControl(t, p)
       PROVE ShutdownCovers'
    BY <2>2 DEF StartControl
  <2>3. ASSUME NEW s \in Sessions, StartClose(t, s)
       PROVE ShutdownCovers'
    BY <2>3 DEF StartClose
  <2>4. CASE StartShutdown(t)  BY <2>4 DEF StartShutdown
  <2>5. ASSUME NEW c \in Conns, StartRelease(t, c)
       PROVE ShutdownCovers'
    BY <2>5 DEF StartRelease
  <2> QED BY <1>1, <2>1, <2>2, <2>3, <2>4, <2>5 DEF Start
<1>2. ASSUME NEW t \in Threads, Enter(t) PROVE ShutdownCovers'
  <2>1. CASE EnterProfile(t)  BY <2>1 DEF EnterProfile, AuthorizeGrant
  <2>2. CASE EnterDenied(t)  BY <2>2 DEF EnterDenied, Refuse
  <2>3. CASE EnsureRefused(t)  BY <2>3 DEF EnsureRefused, Refuse
  <2>4. CASE EnsureExisting(t)
    BY <2>4 DEF EnsureExisting, LiveOn, AfterEnsure, NeedsWrite
  <2>5. CASE EnsureNew(t)  BY <2>5 DEF EnsureNew, LiveOn
  <2>6. CASE AcquireProcessLock(t)
    BY <2>6 DEF AcquireProcessLock, ProfileLockFree
  <2>7. CASE ProcessLockBusy(t)  BY <2>7 DEF ProcessLockBusy, Refuse
  <2>8. CASE AddSession(t)
    BY <2>8 DEF AddSession, CreateSession, AfterEnsure, NeedsWrite, Interrupted
  <2>9. CASE AddFails(t)  BY <2>9 DEF AddFails, CreateSession, Interrupted
  <2>10. CASE AcquireLease(t)  BY <2>10 DEF AcquireLease, GrantLease, LeaseFree
  <2>11. CASE SessionBusy(t)  BY <2>11 DEF SessionBusy, Refuse
  <2>12. CASE BindSession(t)  BY <2>12 DEF BindSession, BindContext
  <2> QED BY <1>2, <2>1, <2>2, <2>3, <2>4, <2>5, <2>6, <2>7, <2>8, <2>9, <2>10,
         <2>11, <2>12 DEF Enter
<1>3. ASSUME NEW t \in Threads, Address(t) PROVE ShutdownCovers'
  <2>1. CASE TakeConnection(t)  BY <2>1 DEF TakeConnection, EntryPoint
  <2>2. CASE CurrentEntry(t)  BY <2>2 DEF CurrentEntry, Granted
  <2>3. CASE NoCurrentEntry(t)  BY <2>3 DEF NoCurrentEntry
  <2>4. CASE EntryDenied(t)  BY <2>4 DEF EntryDenied, Refuse
  <2>5. CASE RequireLease(t)  BY <2>5 DEF RequireLease, HoldsLease
  <2>6. CASE RequireFails(t)  BY <2>6 DEF RequireFails, Refuse
  <2>7. CASE ResolveUnknownTab(t)  BY <2>7 DEF ResolveUnknownTab
  <2>8. CASE ResolveTab(t)  BY <2>8 DEF ResolveTab
  <2>9. CASE ResolveFails(t)  BY <2>9 DEF ResolveFails, Refuse
  <2>10. CASE TabsNext(t)  BY <2>10 DEF TabsNext
  <2>11. CASE TabsEnd(t)  BY <2>11 DEF TabsEnd, Refuse
  <2> QED BY <1>3, <2>1, <2>2, <2>3, <2>4, <2>5, <2>6, <2>7, <2>8, <2>9, <2>10,
         <2>11 DEF Address
<1>4. ASSUME NEW t \in Threads, Operate(t) PROVE ShutdownCovers'
  <2>1. CASE Execute(t)  BY <2>1 DEF Execute, AdmittedAt
  <2>2. CASE ExecuteClosed(t)  BY <2>2 DEF ExecuteClosed, Refuse
  <2>3. CASE Project(t)  BY <2>3 DEF Project, BindRoutes
  <2>4. CASE DetectCrash(t)  BY <2>4 DEF DetectCrash, AdmittedAt
  <2>5. CASE MarkCrashed(t)  BY <2>5 DEF MarkCrashed, Transition
  <2>6. CASE NotifyTerminal(t)  BY <2>6 DEF NotifyTerminal
  <2> QED BY <1>4, <2>1, <2>2, <2>3, <2>4, <2>5, <2>6 DEF Operate
<1>5. ASSUME NEW t \in Threads, Finalize(t) PROVE ShutdownCovers'
  <2>1. CASE CloseRuntime(t)  BY <2>1 DEF CloseRuntime, CloseOutcome, Transition
  <2>2. CASE CloseAgain(t)  BY <2>2 DEF CloseAgain
  <2>3. CASE RemoveSession(t)  BY <2>3 DEF RemoveSession
  <2>4. CASE RemovedByOther(t)
    BY <2>4 DEF RemovedByOther, CallbackReturns, AfterFinalize
  <2>5. CASE ReleaseSessionLease(t)  BY <2>5 DEF ReleaseSessionLease, DropLease
  <2>6. CASE UnbindConnections(t)  BY <2>6 DEF UnbindConnections, UnbindSession
  <2>7. CASE InvalidateSessionRoutes(t)
    BY <2>7 DEF InvalidateSessionRoutes, InvalidateRoutes
  <2>8. CASE ReleaseProcessLock(t)  BY <2>8 DEF ReleaseProcessLock
  <2>9. CASE RecordCrash(t)
    BY <2>9 DEF RecordCrash, Transition, CallbackReturns, AfterFinalize
  <2> QED BY <1>5, <2>1, <2>2, <2>3, <2>4, <2>5, <2>6, <2>7, <2>8, <2>9 DEF Finalize
<1>6. ASSUME NEW t \in Threads, Control(t) PROVE ShutdownCovers'
  <2>1. CASE CloseSession(t)  BY <2>1 DEF CloseSession
  <2>2. CASE CloseGone(t)  BY <2>2 DEF CloseGone, Refuse
  <2>3. CASE Shutdown(t)
    <3>1. CASE closed  BY <2>3, <3>1 DEF Shutdown
    <3>2. CASE ~closed  BY <2>3, <3>2 DEF Shutdown
    <3> QED BY <3>1, <3>2
  <2>4. CASE ShutdownNext(t)  BY <2>4 DEF ShutdownNext
  <2>5. CASE ShutdownEnd(t)  BY <2>5 DEF ShutdownEnd, Refuse
  <2>6. CASE UnregisterConnection(t)
    BY <2>6 DEF UnregisterConnection, PopContext
  <2>7. CASE RevokeGrants(t)  BY <2>7 DEF RevokeGrants, RevokeConnection
  <2>8. CASE ReleaseLeases(t)
    <3>1. UNCHANGED <<closed, live, op, sess, todo>>  BY <2>8 DEF ReleaseLeases
    <3>2. pc' = [pc EXCEPT ![t] = "finish"]  BY <2>8 DEF ReleaseLeases
    <3> QED BY <2>8, <3>1, <3>2 DEF ReleaseLeases
  <2> QED BY <1>6, <2>1, <2>2, <2>3, <2>4, <2>5, <2>6, <2>7, <2>8 DEF Control
<1>7. ASSUME NEW t \in Threads, Finish(t) PROVE ShutdownCovers'
  BY <1>7 DEF Finish
<1>8. ASSUME Environment PROVE ShutdownCovers'
  <2>1. ASSUME NEW s \in Sessions, HostExits(s) PROVE ShutdownCovers'
    BY <2>1 DEF HostExits
  <2>2. ASSUME NEW s \in Sessions, LeaseExpires(s) PROVE ShutdownCovers'
    BY <2>2 DEF LeaseExpires, DropLease, Overtaken, HoldsLease
  <2>3. ASSUME NEW c \in Conns, NEW p \in Profiles, GrantExpires(c, p) PROVE ShutdownCovers'
    BY <2>3 DEF GrantExpires
  <2>4. ASSUME NEW c \in Conns, ConnectionExpires(c) PROVE ShutdownCovers'
    BY <2>4 DEF ConnectionExpires, ContextExpires, InFlight
  <2>5. ASSUME NEW p \in Profiles, ArchiveProfile(p) PROVE ShutdownCovers'
    BY <2>5 DEF ArchiveProfile
  <2>6. ASSUME NEW p \in Profiles, RestoreProfile(p) PROVE ShutdownCovers'
    BY <2>6 DEF RestoreProfile
  <2>7. ASSUME NEW p \in Profiles, BeginMaintenance(p) PROVE ShutdownCovers'
    BY <2>7 DEF BeginMaintenance, ProfileLockFree
  <2>8. ASSUME NEW p \in Profiles, EndMaintenance(p) PROVE ShutdownCovers'
    BY <2>8 DEF EndMaintenance
  <2>9. CASE RuntimeRestarts  BY <2>9 DEF RuntimeRestarts, RoutingLost
  <2> QED BY <1>8, <2>1, <2>2, <2>3, <2>4, <2>5, <2>6, <2>7, <2>8, <2>9 DEF Environment
<1>9. CASE UNCHANGED vars  BY <1>9 DEF vars
<1> QED BY <1>1, <1>2, <1>3, <1>4, <1>5, <1>6, <1>7, <1>8, <1>9 DEF Next, Step

LEMMA ShutdownInvariant == Spec => []ShutdownCovers
<1>1. Typed /\ Ownership /\ ShutdownCovers /\ [Next]_vars => ShutdownCovers'
  BY ShutdownStep
<1> QED BY ShutdownInit, TypedInvariant, OwnershipInvariant, <1>1, PTL DEF Spec

(* When the close() that set the flag is over, no Session is left in the   *)
(* index, and none was added behind its back.                              *)
THEOREM ShutdownComplete == Spec => []ShutdownIsComplete
<1>1. Typed /\ ShutdownCovers => ShutdownIsComplete
  BY DEF Typed, TypeOK, ShutdownCovers, ShutdownIsComplete
<1> QED BY <1>1, TypedInvariant, ShutdownInvariant, PTL

-----------------------------------------------------------------------------
(* BrowserSupervisor implements ProfileExclusion.                          *)

(* The variables the abstract state is made of.                             *)
Quiet == UNCHANGED <<live, profileOf, flock, rt, host, abandoned>>

Phase(s) ==
  IF profileOf[s] = None THEN "new"
  ELSE IF s \in live THEN "used"
  ELSE IF rt[s] = "none" THEN "claimed" ELSE "gone"

AbsPhase == [s \in Sessions |-> Phase(s)]
AbsRunning == {s \in Sessions : host[s] = "running"}

LEMMA QuietStutters == Quiet => UNCHANGED Exclusion!vars
BY DEF Quiet, Exclusion!vars

(* A step of the abstraction for given parameters is one of its steps.      *)
LEMMA PairSteps ==
  ASSUME NEW p \in Profiles, NEW s \in Sessions,
         Exclusion!Take(p, s) \/ Exclusion!Cancel(p, s) \/ Exclusion!Use(p, s)
           \/ Exclusion!Launch(p, s) \/ Exclusion!GiveBack(p, s)
  PROVE  Exclusion!Next
BY DEF Exclusion!Next

LEMMA SessionSteps ==
  ASSUME NEW s \in Sessions, Exclusion!Stop(s) \/ Exclusion!Abandon(s) \/ Exclusion!Retire(s)
  PROVE  Exclusion!Next
BY DEF Exclusion!Next

(* A Session with a Profile that joins or leaves the index changes phase.   *)
LEMMA PhaseJoins ==
  ASSUME Typed, NEW s \in Sessions, profileOf[s] \in Profiles,
         live' = live \cup {s}, profileOf' = profileOf, rt' = [rt EXCEPT ![s] = "open"]
  PROVE  AbsPhase' = [AbsPhase EXCEPT ![s] = "used"]
<1>1. \A x \in Sessions : Phase(x)' = IF x = s THEN "used" ELSE Phase(x)
  BY NoneAssumption DEF Phase, Typed, TypeOK
<1> QED BY <1>1 DEF AbsPhase

-----------------------------------------------------------------------------
(* Steps of threads that only move control, authority or rows.              *)

LEMMA StartIsQuiet == ASSUME NEW t \in Threads, Start(t) PROVE Quiet
BY DEF Start, StartAgent, StartControl, StartClose, StartShutdown, StartRelease, sessionVars, bounds, history, Quiet

LEMMA AddressIsQuiet == ASSUME NEW t \in Threads, Address(t) PROVE Quiet
BY DEF Address, TakeConnection, CurrentEntry, NoCurrentEntry, EntryDenied, RequireLease, RequireFails,
       ResolveUnknownTab, ResolveTab, ResolveFails, TabsNext, TabsEnd, Refuse, sessionVars, bounds, history, Quiet

LEMMA ControlIsQuiet == ASSUME NEW t \in Threads, Control(t) PROVE Quiet
BY DEF Control, CloseSession, CloseGone, Shutdown, ShutdownNext, ShutdownEnd, UnregisterConnection,
       RevokeGrants, ReleaseLeases, Refuse, sessionVars, bounds, history, Quiet

LEMMA FinishIsQuiet == ASSUME NEW t \in Threads, Finish(t) PROVE Quiet
BY DEF Finish, sessionVars, bounds, history, Quiet

-----------------------------------------------------------------------------
(* The steps of BrowserSupervisor that are steps of the abstraction.        *)

LEMMA EnterImplements ==
  ASSUME Typed, Ownership, NEW t \in Threads, Enter(t)
  PROVE  Exclusion!Next \/ UNCHANGED Exclusion!vars
<1> USE SupervisorAssumption, NoneAssumption
<1>1. CASE AcquireProcessLock(t)
  <2>1. PICK s \in Sessions :
          /\ profileOf[s] = None
          /\ profileOf' = [profileOf EXCEPT ![s] = prof[t]]
          /\ flock' = [flock EXCEPT ![prof[t]] = s]
    BY <1>1 DEF AcquireProcessLock
  <2>2. prof[t] \in Profiles
    BY <1>1 DEF AcquireProcessLock, Typed, TypeOK, LocalsSet, CreateLabels, AgentOps, ControlOps
  <2>3. /\ flock[prof[t]] = None /\ rt[s] = "none" /\ s \notin live
        /\ UNCHANGED <<live, rt, host, abandoned>>
    BY <1>1, <2>1 DEF bounds, history, AcquireProcessLock, ProfileLockFree, Ownership, FreshIsClean
  <2>4. AbsPhase' = [AbsPhase EXCEPT ![s] = "claimed"]
    BY <2>1, <2>2, <2>3 DEF AbsPhase, Phase, Typed, TypeOK
  <2>5. Exclusion!Take(prof[t], s)
    BY <2>1, <2>3, <2>4 DEF Exclusion!Take, AbsPhase, Phase
  <2> QED BY <2>2, <2>5 DEF Exclusion!Next
<1>2. CASE AddSession(t)
  <2>0. /\ sess[t] \in Sessions /\ prof[t] \in Profiles
        /\ profileOf[sess[t]] = prof[t] /\ flock[prof[t]] = sess[t] /\ rt[sess[t]] = "none" /\ sess[t] \notin live
    BY <1>2 DEF AddSession, CreateSession, Typed, TypeOK, LocalsSet, CreateLabels, NeedSess, AgentOps, ControlOps,
                Ownership, CreatorOwnsProfile
  <2>1. PICK s \in Sessions, p \in Profiles :
          /\ s = sess[t] /\ p = prof[t]
          /\ profileOf[s] = p /\ flock[p] = s /\ rt[s] = "none" /\ s \notin live
    BY <2>0
  <2>2. /\ rt' = [rt EXCEPT ![s] = "open"] /\ live' = live \cup {s}
        /\ UNCHANGED <<profileOf, flock, host, abandoned>>
    BY <1>2, <2>1 DEF AddSession, CreateSession, bounds, history
  <2>3. AbsPhase' = [AbsPhase EXCEPT ![s] = "used"]
    BY <2>1, <2>2, PhaseJoins
  <2>4. Exclusion!Use(p, s)
    BY <2>1, <2>2, <2>3 DEF Exclusion!Use, AbsPhase, Phase
  <2> QED BY <2>1, <2>4, PairSteps
<1>3. CASE AddFails(t)
  <2>0. /\ sess[t] \in Sessions /\ prof[t] \in Profiles
        /\ profileOf[sess[t]] = prof[t] /\ flock[prof[t]] = sess[t] /\ rt[sess[t]] = "none" /\ sess[t] \notin live
    BY <1>3 DEF AddFails, CreateSession, Typed, TypeOK, LocalsSet, CreateLabels, NeedSess, AgentOps, ControlOps,
                Ownership, CreatorOwnsProfile
  <2>1. PICK s \in Sessions, p \in Profiles :
          /\ s = sess[t] /\ p = prof[t]
          /\ profileOf[s] = p /\ flock[p] = s /\ rt[s] = "none" /\ s \notin live
    BY <2>0
  <2>2. flock' = [flock EXCEPT ![p] = None] /\ UNCHANGED <<live, profileOf, rt, host, abandoned>>
    BY <1>3, <2>1 DEF AddFails, CreateSession, bounds, history
  <2>3. Exclusion!Cancel(p, s)
    BY <2>1, <2>2 DEF Exclusion!Cancel
  <2> QED BY <2>1, <2>3, PairSteps
<1>4. CASE ~(AcquireProcessLock(t) \/ AddSession(t) \/ AddFails(t))
  <2>1. Quiet
    BY <1>4 DEF Enter, EnterProfile, EnterDenied, EnsureRefused, EnsureExisting, EnsureNew, ProcessLockBusy,
                AcquireLease, SessionBusy, BindSession, Refuse, sessionVars, bounds, history, Quiet
  <2> QED BY <2>1, QuietStutters
<1> QED BY <1>1, <1>2, <1>3, <1>4

LEMMA OperateImplements ==
  ASSUME Typed, Ownership, HostHasRuntime, NEW t \in Threads, Operate(t)
  PROVE  Exclusion!Next \/ UNCHANGED Exclusion!vars
<1>1. CASE Execute(t)
  <2>0. /\ sess[t] \in Sessions /\ profileOf[sess[t]] \in Profiles
        /\ sess[t] \in live /\ flock[profileOf[sess[t]]] = sess[t] /\ sess[t] \notin abandoned
    BY <1>1 DEF Execute, AdmittedAt, Typed, TypeOK, LocalsSet, NeedSess, Ownership, OpenIsLive, LiveOwns,
                HostHasRuntime
  <2>1. PICK s \in Sessions, p \in Profiles :
          s = sess[t] /\ p = profileOf[s] /\ s \in live /\ flock[p] = s /\ s \notin abandoned
    BY <2>0
  <2>2. UNCHANGED <<live, profileOf, flock, rt, abandoned>>
    BY <1>1, <2>1 DEF Execute, bounds, history
  <2>3. host' = [host EXCEPT ![s] = IF op[t] = "open" THEN "running" ELSE @]
    BY <1>1, <2>1 DEF Execute
  <2>4. CASE op[t] = "open"
    <3>1. AbsRunning' = AbsRunning \cup {s}
      BY <2>1, <2>3, <2>4 DEF AbsRunning, Typed, TypeOK
    <3>2. p # None  BY <2>1, NoneAssumption
    <3>3. Exclusion!Launch(p, s)
      BY <2>1, <2>2, <3>1, <3>2 DEF Exclusion!Launch, AbsRunning
    <3> QED BY <2>1, <3>3, PairSteps
  <2>5. CASE op[t] # "open"
    <3>1. host' = host  BY <2>1, <2>3, <2>5 DEF Typed, TypeOK
    <3> QED BY <2>2, <3>1, QuietStutters DEF Quiet
  <2> QED BY <2>4, <2>5
<1>2. CASE ~Execute(t)
  <2>1. Quiet
    BY <1>2 DEF Operate, ExecuteClosed, Project, DetectCrash, MarkCrashed, Transition, NotifyTerminal, Refuse,
                sessionVars, bounds, history, Quiet
  <2> QED BY <2>1, QuietStutters
<1> QED BY <1>1, <1>2

LEMMA FinalizeImplements ==
  ASSUME Typed, Ownership, HostHasRuntime, NEW t \in Threads, Finalize(t)
  PROVE  Exclusion!Next \/ UNCHANGED Exclusion!vars
<1>1. CASE CloseRuntime(t)
  <2>0. /\ sess[t] \in Sessions /\ profileOf[sess[t]] \in Profiles
        /\ rt[sess[t]] = "open" /\ sess[t] \in live
    BY <1>1 DEF CloseRuntime, Typed, TypeOK, LocalsSet, NeedSess, Ownership, OpenIsLive, LiveOwns
  <2>1. PICK s \in Sessions, p \in Profiles :
          s = sess[t] /\ p = profileOf[s] /\ rt[s] = "open" /\ s \in live
    BY <2>0
  <2>2. rt' = [rt EXCEPT ![s] = "closed"] /\ UNCHANGED <<live, profileOf, flock>>
    BY <1>1, <2>1 DEF CloseRuntime
  <2>3. PICK failed \in BOOLEAN :
          /\ failed => host[s] = "running"
          /\ host' = [host EXCEPT ![s] = IF failed THEN @ ELSE "none"]
          /\ abandoned' = IF failed THEN abandoned \cup {s} ELSE abandoned
    BY <1>1, <2>1 DEF CloseRuntime, CloseOutcome
  <2>4. AbsPhase' = AbsPhase
    BY <2>1, <2>2, NoneAssumption DEF AbsPhase, Phase, Typed, TypeOK
  <2>5. CASE ~failed
    <3>1. AbsRunning' = AbsRunning \ {s} /\ abandoned' = abandoned
      BY <2>1, <2>3, <2>5 DEF AbsRunning, Typed, TypeOK
    <3>2. Exclusion!Stop(s)
      BY <2>2, <2>4, <3>1 DEF Exclusion!Stop, AbsPhase, Phase, AbsRunning
    <3> QED BY <2>1, <3>2, SessionSteps
  <2>6. CASE failed
    <3>1. AbsRunning' = AbsRunning /\ s \in AbsRunning /\ abandoned' = abandoned \cup {s}
      BY <2>1, <2>3, <2>6 DEF AbsRunning, Typed, TypeOK
    <3>2. AbsPhase[s] = "used"
      BY <2>1, NoneAssumption DEF AbsPhase, Phase
    <3>3. Exclusion!Abandon(s)
      BY <2>2, <2>4, <3>1, <3>2 DEF Exclusion!Abandon, AbsPhase, Phase, AbsRunning
    <3> QED BY <2>1, <3>3, SessionSteps
  <2> QED BY <2>5, <2>6
<1>2. CASE RemoveSession(t)
  <2>0. /\ sess[t] \in Sessions /\ profileOf[sess[t]] \in Profiles
        /\ profileOf[sess[t]] # None /\ rt[sess[t]] = "closed" /\ sess[t] \in live
    BY <1>2, NoneAssumption
       DEF RemoveSession, Typed, TypeOK, LocalsSet, NeedSess, Ownership, FinalizerOwns, LiveOwns
  <2>1. PICK s \in Sessions, p \in Profiles :
          s = sess[t] /\ p = profileOf[s] /\ p # None /\ rt[s] = "closed" /\ s \in live
    BY <2>0
  <2>2. host[s] # "running" \/ s \in abandoned
    BY <2>1 DEF HostHasRuntime
  <2>3. live' = live \ {s} /\ UNCHANGED <<profileOf, flock, rt, host, abandoned>>
    BY <1>2, <2>1 DEF RemoveSession, bounds, history
  <2>4. AbsPhase' = [AbsPhase EXCEPT ![s] = "gone"]
    BY <2>1, <2>3 DEF AbsPhase, Phase, Typed, TypeOK
  <2>5. Exclusion!Retire(s)
    BY <2>1, <2>2, <2>3, <2>4 DEF Exclusion!Retire, Exclusion!Owned, AbsPhase, Phase
  <2> QED BY <2>1, <2>5, SessionSteps
<1>3. CASE ReleaseProcessLock(t)
  <2>0. /\ sess[t] \in Sessions /\ profileOf[sess[t]] \in Profiles
        /\ profileOf[sess[t]] # None
        /\ rt[sess[t]] = "closed" /\ sess[t] \notin live /\ flock[profileOf[sess[t]]] = sess[t]
    BY <1>3, NoneAssumption
       DEF ReleaseProcessLock, Typed, TypeOK, LocalsSet, NeedSess, Finalizing, Ownership, FinalizerOwns,
           AddressedIsBuilt
  <2>1. PICK s \in Sessions, p \in Profiles :
          /\ s = sess[t] /\ p = profileOf[s] /\ p # None
          /\ rt[s] = "closed" /\ s \notin live /\ flock[p] = s
    BY <2>0
  <2>2. host[s] # "running" \/ s \in abandoned
    BY <2>1 DEF HostHasRuntime
  <2>3. flock' = [flock EXCEPT ![p] = None] /\ UNCHANGED <<live, profileOf, rt, host, abandoned>>
    BY <1>3, <2>1 DEF ReleaseProcessLock, bounds, history
  <2>4. Exclusion!GiveBack(p, s)
    BY <2>1, <2>2, <2>3 DEF Exclusion!GiveBack, Exclusion!Owned
  <2> QED BY <2>1, <2>4, PairSteps
<1>4. CASE ~(CloseRuntime(t) \/ RemoveSession(t) \/ ReleaseProcessLock(t))
  <2>1. Quiet
    BY <1>4 DEF Finalize, CloseAgain, RemovedByOther, ReleaseSessionLease, UnbindConnections,
                InvalidateSessionRoutes, RecordCrash, sessionVars, bounds, history, Quiet
  <2> QED BY <2>1, QuietStutters
<1> QED BY <1>1, <1>2, <1>3, <1>4

LEMMA EnvironmentImplements ==
  ASSUME Typed, Ownership, HostHasRuntime, Environment
  PROVE  Exclusion!Next \/ UNCHANGED Exclusion!vars
<1>1. ASSUME NEW s \in Sessions, HostExits(s) PROVE Exclusion!Next
  <2>1. host' = [host EXCEPT ![s] = "exited"] /\ UNCHANGED <<live, profileOf, flock, rt, abandoned>>
    BY <1>1 DEF HostExits, bounds, history
  <2>2. AbsRunning' = AbsRunning \ {s}
    BY <2>1 DEF AbsRunning, Typed, TypeOK
  <2>3. Exclusion!Stop(s)
    BY <2>1, <2>2 DEF Exclusion!Stop, AbsRunning
  <2> QED BY <2>3 DEF Exclusion!Next
<1>2. ASSUME NEW p \in Profiles, BeginMaintenance(p) PROVE Exclusion!Next
  <2>1. Exclusion!Maintain(p)
    BY <1>2 DEF BeginMaintenance, ProfileLockFree, Exclusion!Maintain, bounds, history
  <2> QED BY <2>1 DEF Exclusion!Next
<1>3. ASSUME NEW p \in Profiles, EndMaintenance(p) PROVE Exclusion!Next
  <2>1. Exclusion!Maintained(p)
    BY <1>3 DEF EndMaintenance, Exclusion!Maintained, bounds, history
  <2> QED BY <2>1 DEF Exclusion!Next
<1>4. ASSUME NEW s \in Sessions, LeaseExpires(s) PROVE Quiet
  BY <1>4 DEF LeaseExpires, sessionVars, bounds, history, Quiet
<1>5. ASSUME NEW c \in Conns, NEW p \in Profiles, GrantExpires(c, p) PROVE Quiet
  BY <1>5 DEF GrantExpires, sessionVars, bounds, history, Quiet
<1>6. ASSUME NEW c \in Conns, ConnectionExpires(c) PROVE Quiet
  BY <1>6 DEF ConnectionExpires, sessionVars, bounds, history, Quiet
<1>7. ASSUME NEW p \in Profiles, ArchiveProfile(p) \/ RestoreProfile(p) PROVE Quiet
  BY <1>7 DEF ArchiveProfile, RestoreProfile, sessionVars, bounds, history, Quiet
<1>8. ASSUME RuntimeRestarts PROVE Exclusion!ProcessDies
  <2>1. /\ live' = {} /\ flock' = [p \in Profiles |-> None]
        /\ rt' = [s \in Sessions |-> IF rt[s] = "none" THEN "none" ELSE "closed"]
        /\ abandoned' = abandoned \cup AbsRunning /\ UNCHANGED <<profileOf, host>>
    BY <1>8 DEF RuntimeRestarts, AbsRunning
  <2>2. \A s \in Sessions : Phase(s)' = IF Phase(s) = "used" THEN "gone" ELSE Phase(s)
    BY <2>1 DEF Phase, Typed, TypeOK, Ownership, LiveOwns
  <2>3. AbsPhase' = [s \in Sessions |-> IF AbsPhase[s] = "used" THEN "gone" ELSE AbsPhase[s]]
    BY <2>2 DEF AbsPhase
  <2>4. AbsRunning' = AbsRunning  BY <2>1 DEF AbsRunning
  <2> QED BY <2>1, <2>3, <2>4 DEF Exclusion!ProcessDies, AbsPhase, Phase, AbsRunning
<1> QED BY <1>1, <1>2, <1>3, <1>4, <1>5, <1>6, <1>7, <1>8, QuietStutters DEF Environment, Exclusion!Next

LEMMA ExclusionInit == Init => Exclusion!Init
BY DEF Init, Exclusion!Init

LEMMA ExclusionStep ==
  ASSUME Typed, Ownership, HostHasRuntime, [Next]_vars
  PROVE  [Exclusion!Next]_(Exclusion!vars)
<1>1. ASSUME NEW t \in Threads, Start(t) \/ Step(t)
      PROVE  Exclusion!Next \/ UNCHANGED Exclusion!vars
  BY <1>1, StartIsQuiet, AddressIsQuiet, ControlIsQuiet, FinishIsQuiet, QuietStutters,
     EnterImplements, OperateImplements, FinalizeImplements DEF Step
<1>2. CASE Environment  BY <1>2, EnvironmentImplements
<1>3. CASE UNCHANGED vars
  BY <1>3, QuietStutters DEF vars, sessionVars, bounds, history, Quiet
<1> QED BY <1>1, <1>2, <1>3 DEF Next

(* Every behaviour of the Supervisor is a behaviour of the abstract         *)
(* specification: a Profile and its user data directory have one holder at  *)
(* a time, and a browser outside its holding is one that was given up,      *)
(* whatever threads, crashes, failing closes, restarts and maintenance do.  *)
THEOREM Refinement == Spec => ImplementsExclusion
<1>1. Typed /\ Ownership /\ HostHasRuntime /\ [Next]_vars => [Exclusion!Next]_(Exclusion!vars)
  BY ExclusionStep
<1> QED BY ExclusionInit, TypedInvariant, OwnershipInvariant, HostInvariant, <1>1, PTL
        DEF Spec, ImplementsExclusion, Exclusion!Spec
=============================================================================
