--------------------------- MODULE SessionEvents ---------------------------
(***************************************************************************)
(* SessionEventBus of one Browser Session: a journal with a bounded replay *)
(* and live subscribers, each with a bounded queue and a thread.           *)
(*                                                                         *)
(* An event is its sequence number. It gets the number and the list of its *)
(* subscribers under the lock, and is put into their queues after it, by   *)
(* the publishing thread: put, or take the oldest out and put again.       *)
(***************************************************************************)
EXTENDS Integers, Sequences, FiniteSets, FiniteSetsExt, SequencesExt

CONSTANTS
  Publishers,     \* threads that publish
  Closers,        \* threads that end subscriptions
  Subs,           \* subscriptions, in the order of their creation
  JournalSize,    \* max_events
  QueueSize,      \* subscriber_queue_size
  MaxEvents       \* bound: events published

ASSUME EventsAssumption ==
  /\ Subs \subseteq Nat /\ Publishers \cap Closers = {}
  /\ JournalSize \in Nat \ {0} /\ QueueSize \in Nat \ {0} /\ MaxEvents \in Nat

VARIABLES
  sequence,       \* _sequence
  subscribers,    \* keys of _subscribers
  queue, running, \* of each _Subscriber: its queue, and whether its thread runs
  sending,        \* what each thread has still to put, and where it stands
  closed,         \* _closed
  got, since, full  \* history: events delivered, the first due, whether a put found no room

busVars == <<sequence, subscribers, queue, running, sending, closed, got, since, full>>

End == 0    \* None, which ends a subscriber's thread
Threads == Publishers \cup Closers
Idle == [item |-> End, to |-> {}, at |-> "put"]

BusInit ==
  /\ sequence = 0 /\ subscribers = {} /\ closed = FALSE
  /\ queue = [s \in Subs |-> <<>>] /\ running = [s \in Subs |-> FALSE]
  /\ sending = [a \in Threads |-> Idle]
  /\ got = [s \in Subs |-> <<>>] /\ since = [s \in Subs |-> 0]
  /\ full = [s \in Subs |-> FALSE]

\* The events a to b in their order; none, if b is before a.
Events(a, b) == [i \in 1..(b - a + 1) |-> a - 1 + i]

\* The first event after the given one that the journal has or will have.
FirstAfter(after) == 1 + Max({after, sequence - JournalSize})

Publish(p) ==
  /\ sending[p].to = {} /\ ~closed /\ sequence < MaxEvents
  /\ sequence' = sequence + 1
  /\ sending' = [sending EXCEPT ![p] = [item |-> sequence + 1, to |-> subscribers, at |-> "put"]]
  /\ UNCHANGED <<subscribers, queue, running, closed, got, since, full>>

\* enqueue of an event, and close of a subscriber with End.
Target(a) == Min(sending[a].to)
Room(s) == Len(queue[s]) < QueueSize
NextTarget(a) ==
  sending' = [sending EXCEPT ![a].to = @ \ {Target(a)}, ![a].at = "put"]

MUT_Put(a) ==  \* goes on to take the oldest after a put that found room
  LET s == Target(a) IN
  /\ sending[a].to # {} /\ sending[a].at = "put"
  /\ queue' = [queue EXCEPT ![s] = IF Room(s) THEN Append(@, sending[a].item) ELSE @]
  /\ sending' = [sending EXCEPT ![a].at = "take"]
  /\ UNCHANGED <<sequence, subscribers, running, closed, got, since, full>>

Put(a) ==
  LET s == Target(a) IN
  /\ sending[a].to # {} /\ sending[a].at = "put"
  /\ IF Room(s)
     THEN queue' = [queue EXCEPT ![s] = Append(@, sending[a].item)] /\ NextTarget(a) /\ UNCHANGED full
     ELSE sending' = [sending EXCEPT ![a].at = "take"] /\ full' = [full EXCEPT ![s] = TRUE]
          /\ UNCHANGED queue
  /\ UNCHANGED <<sequence, subscribers, running, closed, got, since>>

TakeOldest(a) ==
  LET s == Target(a) IN
  /\ sending[a].to # {} /\ sending[a].at = "take"
  /\ queue' = [queue EXCEPT ![s] = IF @ = <<>> THEN @ ELSE Tail(@)]
  /\ sending' = [sending EXCEPT ![a].at = "again"]
  /\ UNCHANGED <<sequence, subscribers, running, closed, got, since, full>>

\* Another thread may have filled the room: then the item is lost.
PutAgain(a) ==
  LET s == Target(a) IN
  /\ sending[a].to # {} /\ sending[a].at = "again"
  /\ queue' = [queue EXCEPT ![s] = IF Room(s) THEN Append(@, sending[a].item) ELSE @]
  /\ NextTarget(a)
  /\ UNCHANGED <<sequence, subscribers, running, closed, got, since, full>>

MUT_Newest(n, a, b) == Events(Max({a, b - n + 2}), b)  \* one too few

\* What a queue of size n takes of the events a to b.
Newest(n, a, b) == Events(Max({a, b - n + 1}), b)

\* subscribe, under the lock: the queue starts with what the journal still has.
Subscribe(s, after) ==
  LET first == FirstAfter(after) IN
  /\ ~closed /\ s \notin subscribers /\ ~running[s] /\ since[s] = 0
  /\ subscribers' = subscribers \cup {s}
  /\ queue' = [queue EXCEPT ![s] = Newest(QueueSize, first, sequence)]
  /\ running' = [running EXCEPT ![s] = TRUE]
  /\ since' = [since EXCEPT ![s] = first]
  /\ full' = [full EXCEPT ![s] = Len(Events(first, sequence)) > QueueSize]
  /\ UNCHANGED <<sequence, sending, closed, got>>

Unsubscribe(a, s) ==
  /\ sending[a].to = {}
  /\ subscribers' = subscribers \ {s}
  /\ sending' = IF s \in subscribers THEN [sending EXCEPT ![a].to = {s}] ELSE sending
  /\ UNCHANGED <<sequence, queue, running, closed, got, since, full>>

CloseBus(a) ==
  /\ ~closed /\ sending[a].to = {} /\ closed' = TRUE
  /\ sending' = [sending EXCEPT ![a].to = subscribers]
  /\ subscribers' = {}
  /\ UNCHANGED <<sequence, queue, running, got, since, full>>

\* One turn of a subscriber's thread; its callback never breaks it.
Run(s) ==
  /\ running[s] /\ queue[s] # <<>>
  /\ queue' = [queue EXCEPT ![s] = Tail(@)]
  /\ IF Head(queue[s]) = End
     THEN running' = [running EXCEPT ![s] = FALSE] /\ UNCHANGED got
     ELSE got' = [got EXCEPT ![s] = Append(@, Head(queue[s]))] /\ UNCHANGED running
  /\ UNCHANGED <<sequence, subscribers, sending, closed, since, full>>

BusStep(a) == Put(a) \/ TakeOldest(a) \/ PutAgain(a)

----------------------------------------------------------------------------
Queued(s) == ToSet(queue[s]) \cup {sending[p].item : p \in {q \in Publishers : s \in sending[q].to}}

(* A subscriber whose queue had room for every put has got, or will get, every *)
(* event from the one it asked for on, however publishing and subscribing      *)
(* interleave.                                                                 *)
NothingLost ==
  \A s \in subscribers : ~full[s] =>
    since[s]..sequence \subseteq ToSet(got[s]) \cup Queued(s)

\* What a subscriber has got and what it will get.
Stream(s) == got[s] \o queue[s]

Distinct(d) == \A i, j \in DOMAIN d : d[i] = d[j] /\ d[i] # End => i = j

(* No event reaches a subscriber twice, by the replay and live.               *)
NothingTwice ==
  \A s \in Subs :
    /\ Distinct(Stream(s))
    /\ \A p, q \in Publishers : s \in sending[p].to =>
         /\ sending[p].item \notin ToSet(Stream(s))
         /\ s \in sending[q].to /\ sending[p].item = sending[q].item => p = q
=============================================================================
