------------------------- MODULE MonitorConnection -------------------------
(***************************************************************************)
(* The Monitor's WebSocket of one Browser Session: its one-time ticket, its *)
(* subscription to the Session's events, its visual stream and its human    *)
(* control, from the first message to the last step of the clean-up.        *)
(*                                                                         *)
(* A connection runs on the event loop; what it does in the runtime runs in *)
(* a thread that goes on when the connection is cancelled. Streams are the  *)
(* business of the Session's worker, which executes one job after another,  *)
(* also those whose caller gave up after a minute. Four tasks serve         *)
(* a live connection, and the first to end ends all of them. A Monitor that *)
(* reconnects asks for what comes after the largest number it has shown.    *)
(***************************************************************************)
EXTENDS SessionEvents

CONSTANTS
  Monitors,       \* Monitor windows
  Tickets,        \* MonitorAccessManager grants
  MaxActive,      \* max_active_grants
  BridgeSize,     \* events that may wait for the WebSocket
  Loads,          \* bounds: numbers of events and of connections, and whether
                  \* the Monitors ask for control
  None

Conns == Subs

ASSUME MonitorAssumption ==
  /\ MaxActive \in Nat \ {0} /\ BridgeSize \in Nat \ {0}
  /\ Loads \subseteq [events : 0..MaxEvents, conns : Nat, control : BOOLEAN]
  /\ Closers = {"loop", "runtime"} /\ None \notin Conns \cup Tickets \cup Monitors

VARIABLES
  open,           \* whether the Session still has its runtime and binding
  tickets,        \* MonitorAccessManager._states: status and connection
  conn,           \* of each connection: its phase, Monitor, ticket, and whether it has a stream
  acquiring,      \* connections whose acquire_human_control runs in a thread
  lease,          \* the connection that holds the human control, or None
  streams, cast,  \* the streams of VisualStreamHub, and the Host's screencast
  calls,          \* the jobs of the worker that concern streams, and its close
  adrift,         \* history: connections whose start_visual_stream was given up
  bridge,         \* _ConnectionBridge._events
  shown,          \* of each Monitor: the numbers of the events it has shown
  load            \* the bounds of this behaviour

host == <<streams, cast, calls, adrift>>
monVars == <<open, tickets, conn, acquiring, lease, host, bridge, shown, load>>
vars == <<busVars, monVars>>

Fresh == [phase |-> "none", monitor |-> None, ticket |-> None, stream |-> FALSE]

\* The phases of the handler; the last five are its finally block.
Opening == {"accepted", "bind", "snapshot", "subscribe", "stream", "starting"}
CleanUp == {"closing", "human", "grant", "ending", "stopping"}

Init ==
  /\ BusInit /\ open = TRUE
  /\ tickets = [t \in Tickets |-> [status |-> "none", by |-> None]]
  /\ conn = [c \in Conns |-> Fresh] /\ acquiring = {} /\ lease = None
  /\ streams = {} /\ cast = "off" /\ calls = <<>> /\ adrift = {}
  /\ bridge = [c \in Conns |-> <<>>] /\ shown = [m \in Monitors |-> {}]
  /\ load \in Loads

In(c, p) == conn[c].phase = p
Goto(c, p) == conn' = [conn EXCEPT ![c].phase = p]
OnlyConn == UNCHANGED <<busVars, open, tickets, acquiring, lease, host, bridge, shown, load>>

----------------------------------------------------------------------------
(* MonitorAccessManager.                                                    *)

ActiveTickets == {t \in Tickets : tickets[t].status \in {"issued", "consumed"}}
SetStatus(t, s) == tickets' = [tickets EXCEPT ![t].status = s]
OnlyTickets == UNCHANGED <<busVars, open, conn, acquiring, lease, host, bridge, shown, load>>

\* A new token is any that was never used.
Unused == {t \in Tickets : tickets[t].status = "none"}

Issue(t) ==
  /\ open /\ Unused # {} /\ Cardinality(ActiveTickets) < MaxActive
  /\ Cardinality(Tickets \ Unused) < load.conns
  /\ t = CHOOSE u \in Unused : TRUE
  /\ SetStatus(t, "issued") /\ OnlyTickets

Revoke(t) ==
  /\ tickets[t].status # "none" /\ SetStatus(t, "revoked") /\ OnlyTickets

Expire(t) ==
  /\ t \in ActiveTickets /\ SetStatus(t, "expired") /\ OnlyTickets

----------------------------------------------------------------------------
(* Opening a connection.                                                    *)

\* The Monitor's socket was closed before it opens another.
Connect(c, m, t) ==
  /\ In(c, "none") /\ c <= load.conns /\ \A d \in Conns : d < c => ~In(d, "none")
  /\ tickets[t].status # "none"
  /\ \A d \in Conns : conn[d].monitor = m => conn[d].phase \in CleanUp \cup {"done"}
  /\ conn' = [conn EXCEPT ![c] = [phase |-> "accepted", monitor |-> m, ticket |-> t, stream |-> FALSE]]
  /\ OnlyConn

MUT_Consume(c) ==  \* a consumed token authenticates again
  LET t == conn[c].ticket IN
  /\ In(c, "accepted")
  /\ IF tickets[t].status \in {"issued", "consumed"}
     THEN tickets' = [tickets EXCEPT ![t] = [status |-> "consumed", by |-> c]] /\ Goto(c, "bind")
     ELSE Goto(c, "done") /\ UNCHANGED tickets
  /\ UNCHANGED <<busVars, open, acquiring, lease, host, bridge, shown, load>>

\* The token is removed from the index by its first use, a revocation or its expiry.
Consume(c) ==
  LET t == conn[c].ticket IN
  /\ In(c, "accepted")
  /\ IF tickets[t].status = "issued"
     THEN tickets' = [tickets EXCEPT ![t] = [status |-> "consumed", by |-> c]] /\ Goto(c, "bind")
     ELSE Goto(c, "done") /\ UNCHANGED tickets
  /\ UNCHANGED <<busVars, open, acquiring, lease, host, bridge, shown, load>>

MUT_Bind(c) ==  \* returns without releasing the ticket
  In(c, "bind") /\ Goto(c, IF open THEN "snapshot" ELSE "done") /\ OnlyConn

\* MonitorGatewayRouter.validate: the Session of the ticket is still the active one.
Valid == open

\* Without its Session the connection has no runtime to clean up.
Bind(c) == In(c, "bind") /\ Goto(c, IF Valid THEN "snapshot" ELSE "human") /\ OnlyConn

Snapshot(c) ==
  /\ In(c, "snapshot")
  /\ Goto(c, IF open THEN "subscribe" ELSE "closing") /\ OnlyConn

LastShown(m) == Max(shown[m] \cup {0})

SubscribeEvents(c) ==
  /\ In(c, "subscribe")
  /\ IF closed THEN Goto(c, "closing") /\ UNCHANGED busVars
     ELSE Subscribe(c, LastShown(conn[c].monitor)) /\ Goto(c, "stream")
  /\ UNCHANGED <<open, tickets, acquiring, lease, host, bridge, shown, load>>

Call(do, c) == [do |-> do, by |-> c]

\* The web lock: who calls the worker, or closes the runtime, holds it.
LockFree ==
  /\ open \/ closed
  /\ \A c \in Conns : conn[c].phase \notin {"starting", "ending"}

\* _call raises when the runtime is closed; without a stream the connection
\* goes on.
StartStream(c) ==
  /\ In(c, "stream") /\ LockFree
  /\ IF open THEN calls' = Append(calls, Call("start", c)) /\ Goto(c, "starting")
     ELSE Goto(c, "live") /\ UNCHANGED calls
  /\ UNCHANGED <<busVars, open, tickets, acquiring, lease, streams, cast, adrift, bridge, shown, load>>

\* Nobody looks after the job of a caller that gave up.
GiveUp(c) ==
  /\ \/ In(c, "starting") /\ Goto(c, "live") /\ adrift' = adrift \cup {c}
     \/ In(c, "ending") /\ Goto(c, "stopping") /\ UNCHANGED adrift
  /\ UNCHANGED <<busVars, open, tickets, acquiring, lease, streams, cast, calls, bridge, shown, load>>

\* The hub starts the Host's screencast for its first stream only.
StartServed ==
  \E c \in Conns, ok \in BOOLEAN :
    /\ calls # <<>> /\ Head(calls) = Call("start", c) /\ calls' = Tail(calls)
    /\ streams' = IF ok THEN streams \cup {c} ELSE streams
    /\ cast' = IF ok /\ streams = {} THEN "running" ELSE cast
    /\ conn' = IF In(c, "starting") THEN [conn EXCEPT ![c] = [@ EXCEPT !.phase = "live", !.stream = ok]]
               ELSE conn
    /\ UNCHANGED <<busVars, open, tickets, acquiring, lease, adrift, bridge, shown, load>>

ScreencastFails ==
  /\ cast = "running" /\ cast' = "failed"
  /\ UNCHANGED <<busVars, open, tickets, conn, acquiring, lease, streams, calls, adrift, bridge, shown, load>>

----------------------------------------------------------------------------
(* The tasks of a live connection.                                          *)

MUT_Watch(c) ==  \* only the Session is watched
  In(c, "live") /\ ~open /\ Goto(c, "closing") /\ OnlyConn

\* _grant_watch_loop, every half second.
Watch(c) ==
  /\ In(c, "live") /\ (tickets[conn[c].ticket].status # "consumed" \/ ~Valid)
  /\ Goto(c, "closing") /\ OnlyConn

\* The Monitor goes away, or sends what the protocol does not know.
Disconnect(c) == In(c, "live") /\ Goto(c, "closing") /\ OnlyConn

\* _receiver_loop: control is asked for in a thread, and only one at a time.
AskControl(c) ==
  /\ load.control /\ In(c, "live") /\ conn[c].stream /\ c \notin acquiring /\ lease # c
  /\ acquiring' = acquiring \cup {c}
  /\ UNCHANGED <<busVars, open, tickets, conn, lease, host, bridge, shown, load>>

\* acquire_human_control, under the web lock, whether or not anybody still waits.
Acquire(c) ==
  /\ c \in acquiring /\ LockFree /\ acquiring' = acquiring \ {c}
  /\ lease' = IF lease = None /\ open THEN c ELSE lease
  /\ UNCHANGED <<busVars, open, tickets, conn, host, bridge, shown, load>>

GiveBack(c) ==
  /\ In(c, "live") /\ lease = c /\ LockFree /\ lease' = None
  /\ UNCHANGED <<busVars, open, tickets, conn, acquiring, host, bridge, shown, load>>

\* An event comes through the bridge to the WebSocket and is shown.
Deliver(c) ==
  LET e == Head(queue[c])  b == bridge[c] IN
  /\ Run(c)
  /\ bridge' = IF e = End \/ conn[c].phase \in {"human", "grant", "ending", "stopping", "done"}
               THEN bridge
               ELSE [bridge EXCEPT ![c] = Append(IF Len(b) = BridgeSize THEN Tail(b) ELSE b, e)]
  /\ UNCHANGED <<open, tickets, conn, acquiring, lease, host, shown, load>>

Write(c) ==
  /\ In(c, "live") /\ bridge[c] # <<>>
  /\ bridge' = [bridge EXCEPT ![c] = Tail(@)]
  /\ shown' = [shown EXCEPT ![conn[c].monitor] = @ \cup {Head(bridge[c])}]
  /\ UNCHANGED <<busVars, open, tickets, conn, acquiring, lease, host, load>>

----------------------------------------------------------------------------
(* The clean-up: human control, ticket, stream, subscription.               *)

ReleaseControl(c) ==
  /\ In(c, "closing") /\ LockFree /\ Goto(c, "human")
  /\ lease' = IF lease = c THEN None ELSE lease
  /\ UNCHANGED <<busVars, open, tickets, acquiring, host, bridge, shown, load>>

ReleaseTicket(c) ==
  LET t == conn[c].ticket IN
  /\ In(c, "human") /\ Goto(c, "grant")
  /\ tickets' = IF tickets[t] = [status |-> "consumed", by |-> c]
                THEN [tickets EXCEPT ![t].status = "closed"] ELSE tickets
  /\ UNCHANGED <<busVars, open, acquiring, lease, host, bridge, shown, load>>

\* Whatever stop_visual_stream raises is suppressed.
StopStream(c) ==
  /\ In(c, "grant") /\ (conn[c].stream => LockFree)
  /\ IF conn[c].stream /\ open THEN calls' = Append(calls, Call("stop", c)) /\ Goto(c, "ending")
     ELSE Goto(c, "stopping") /\ UNCHANGED calls
  /\ UNCHANGED <<busVars, open, tickets, acquiring, lease, streams, cast, adrift, bridge, shown, load>>

\* The last stream stops the screencast, which has failed when its thread does not end.
StopServed ==
  \E c \in Conns :
    /\ calls # <<>> /\ Head(calls) = Call("stop", c) /\ calls' = Tail(calls)
    /\ streams' = streams \ {c}
    /\ cast' \in IF streams = {c} /\ cast = "running" THEN {"off", "failed"} ELSE {cast}
    /\ conn' = IF In(c, "ending") THEN [conn EXCEPT ![c].phase = "stopping"] ELSE conn
    /\ UNCHANGED <<busVars, open, tickets, acquiring, lease, adrift, bridge, shown, load>>

UnsubscribeEvents(c) ==
  /\ In(c, "stopping") /\ Unsubscribe("loop", c) /\ Goto(c, "done")
  /\ UNCHANGED <<open, tickets, acquiring, lease, host, bridge, shown, load>>

\* close() of the runtime ends human control, asks the worker to stop, and
\* closes the bus when that is done or it has waited long enough.
CloseSession ==
  /\ open /\ LockFree /\ open' = FALSE /\ lease' = None
  /\ calls' = Append(calls, Call("close", None))
  /\ UNCHANGED <<busVars, tickets, conn, acquiring, streams, cast, adrift, bridge, shown, load>>

CloseServed ==
  /\ calls # <<>> /\ Head(calls) = Call("close", None) /\ calls' = Tail(calls)
  /\ streams' = {} /\ cast' = "off"
  /\ UNCHANGED <<busVars, open, tickets, conn, acquiring, lease, adrift, bridge, shown, load>>

CloseEvents ==
  /\ ~open /\ ~closed /\ CloseBus("runtime")
  /\ UNCHANGED monVars

BusMoves ==
  /\ \/ sequence < load.events /\ \E p \in Publishers : Publish(p)
     \/ \E a \in Threads : BusStep(a)
  /\ UNCHANGED monVars

Serve(c) ==
  \/ Consume(c) \/ Bind(c) \/ Snapshot(c) \/ SubscribeEvents(c) \/ StartStream(c) \/ GiveUp(c)
  \/ Watch(c) \/ ReleaseControl(c) \/ ReleaseTicket(c) \/ StopStream(c) \/ UnsubscribeEvents(c)

Next ==
  \/ \E t \in Tickets : Issue(t) \/ Revoke(t) \/ Expire(t)
  \/ \E c \in Conns, m \in Monitors, t \in Tickets : Connect(c, m, t)
  \/ \E c \in Conns : Serve(c) \/ Disconnect(c) \/ AskControl(c) \/ Acquire(c) \/ GiveBack(c)
                      \/ Deliver(c) \/ Write(c)
  \/ StartServed \/ StopServed \/ ScreencastFails
  \/ CloseSession \/ CloseServed \/ CloseEvents \/ BusMoves

Spec == Init /\ [][Next]_vars

\* The event loop, close() and the threads of the bus take their steps.
Fairness ==
  /\ \A c \in Conns : WF_vars(Serve(c))
  /\ WF_vars(CloseEvents)
  /\ WF_vars((\E a \in Threads : BusStep(a)) /\ UNCHANGED monVars)
FairSpec == Spec /\ Fairness

----------------------------------------------------------------------------
(* Properties.                                                              *)

Statuses == {"none", "issued", "consumed", "closed", "revoked", "expired"}

(* Tickets, connections and queues have their shape; no queue passes its bound. *)
TypeOK ==
  /\ sequence \in 0..MaxEvents /\ subscribers \subseteq Conns
  /\ \A c \in Conns : Len(queue[c]) <= QueueSize /\ Len(bridge[c]) <= BridgeSize
  /\ \A t \in Tickets : tickets[t].status \in Statuses /\ tickets[t].by \in Conns \cup {None}
  /\ \A c \in Conns : conn[c].phase \in Opening \cup CleanUp \cup {"none", "live", "done"}
  /\ acquiring \subseteq Conns /\ lease \in Conns \cup {None} /\ streams \subseteq Conns
  /\ cast \in {"off", "running", "failed"} /\ adrift \subseteq Conns

\* A job that ends the stream of a connection is on its way to the worker.
Ending(c) == \E i \in DOMAIN calls : calls[i] \in {Call("stop", c), Call("close", None)}

(* A connection that is over, on whatever way it ended, holds no slot of the   *)
(* tickets and no subscription; it holds a stream only while the worker has    *)
(* still to end it, or when the start was given up and the worker did it later *)
(* (then nobody ends it but the end of the Session). Without a stream there is *)
(* no screencast.                                                              *)
EndedHoldsNothing ==
  /\ \A c \in Conns : In(c, "done") =>
       /\ c \notin subscribers
       /\ c \in streams => c \in adrift \/ Ending(c)
       /\ \A t \in Tickets : tickets[t] # [status |-> "consumed", by |-> c]
  /\ streams = {} => cast # "running"

(* A token authenticates exactly one Monitor connection.                       *)
TokenUsedOnce ==
  \A c, d \in Conns :
    /\ conn[c].ticket = conn[d].ticket /\ c # d
    /\ conn[c].phase \in (Opening \ {"accepted"}) \cup {"live"}
    => conn[d].phase \in {"none", "accepted", "done"}

(* When its ticket is revoked or expires, or the Session ends, a connection    *)
(* that is live is cleaned up.                                                 *)
EndedTicketEndsConnection ==
  \A c \in Conns :
    (In(c, "live") /\ (tickets[conn[c].ticket].status # "consumed" \/ ~open)) ~> In(c, "done")

(* A connection's end restores Runtime control.                                *)
LeaseHasConnection == lease # None => ~In(lease, "done")

(* What a reconnecting Monitor does not ask for again has been shown to it.    *)
ReplayLeavesNoGap ==
  \A c \in Conns : In(c, "live") => 1..(since[c] - 1) \subseteq shown[conn[c].monitor]
=============================================================================
