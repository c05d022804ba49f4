--------------------------- MODULE MonitorProofs ---------------------------
(***************************************************************************)
(* Proofs about SessionEvents and MonitorConnection, for any number of     *)
(* publishers, subscribers, Monitors and tickets and for any sizes of the  *)
(* journal, the queues and the bridges.                                    *)
(***************************************************************************)
EXTENDS MonitorConnection, FiniteSetTheorems, WellFoundedInduction, TLAPS

(* What is in a queue: the number of an event, or the end.                 *)
Items == 0..sequence

(* The fields of the bus.                                                  *)
BusTyped ==
  /\ sequence \in 0..MaxEvents
  /\ subscribers \subseteq Subs
  /\ closed \in BOOLEAN
  /\ queue \in [Subs -> Seq(Items)]
  /\ got \in [Subs -> Seq(Items)]
  /\ running \in [Subs -> BOOLEAN]
  /\ since \in [Subs -> Nat]
  /\ full \in [Subs -> BOOLEAN]
  /\ sending \in [Threads -> [item : Items, to : SUBSET Subs, at : {"put", "take", "again"}]]

(* A thread that publishes sends an event, one that closes sends the end.  *)
SendsOwn ==
  /\ \A p \in Publishers : sending[p].to # {} => sending[p].item # End
  /\ \A a \in Closers : sending[a].item = End

(* Nothing is on its way to a subscriber that did not subscribe yet.       *)
Unborn ==
  \A s \in Subs : since[s] = 0 =>
    s \notin subscribers /\ ~running[s] /\ got[s] = <<>> /\ \A a \in Threads : s \notin sending[a].to

QueueBounded == \A s \in Subs : Len(queue[s]) <= QueueSize

(* Whoever takes the oldest event out of a queue found it full.            *)
TakesFromFull ==
  \A a \in Threads : sending[a].at # "put" => sending[a].to # {} /\ full[Target(a)]

(* What a subscriber got, or will get.                                     *)
Reached(s) == ToSet(got[s]) \cup Queued(s)

(* Two publishers never send the same event.                               *)
OwnItems ==
  \A p, q \in Publishers :
    sending[p].to # {} /\ sending[q].to # {} /\ sending[p].item = sending[q].item => p = q

(* An event that is on its way to a subscriber has not reached its queue.  *)
NotArrived ==
  \A s \in Subs, p \in Publishers :
    s \in sending[p].to => sending[p].item \notin ToSet(Stream(s))

DistinctStreams == \A s \in Subs : Distinct(Stream(s))

Once == OwnItems /\ NotArrived /\ DistinctStreams

BusInv == BusTyped /\ SendsOwn /\ Unborn /\ QueueBounded

(* The fields of the connections.                                          *)
Phases == Opening \cup CleanUp \cup {"none", "live", "done"}

Jobs == [do : {"start", "stop"}, by : Conns] \cup {Call("close", None)}

MonTyped ==
  /\ open \in BOOLEAN
  /\ tickets \in [Tickets -> [status : Statuses, by : Conns \cup {None}]]
  /\ conn \in [Conns -> [phase : Phases, monitor : Monitors \cup {None},
                         ticket : Tickets \cup {None}, stream : BOOLEAN]]
  /\ acquiring \subseteq Conns /\ lease \in Conns \cup {None} /\ streams \subseteq Conns
  /\ cast \in {"off", "running", "failed"}
  /\ calls \in Seq(Jobs) /\ adrift \subseteq Conns
  /\ bridge \in [Conns -> Seq(Items)]
  /\ shown \in [Monitors -> SUBSET Items]

(* A connection has its Monitor and its ticket from its first phase on.    *)
Presented ==
  \A c \in Conns : ~In(c, "none") => conn[c].monitor \in Monitors /\ conn[c].ticket \in Tickets

BridgeBounded == \A c \in Conns : Len(bridge[c]) <= BridgeSize

MonInv == MonTyped /\ Presented /\ BridgeBounded

(* From the use of its token on, a connection is the one the ticket names; *)
(* no other is, and after its release the ticket is not in use.            *)
Named ==
  \A c \in Conns :
    /\ conn[c].phase \in Phases \ {"none", "accepted", "done"} =>
         /\ tickets[conn[c].ticket].by = c
         /\ tickets[conn[c].ticket].status \notin {"none", "issued"}
    /\ \A t \in Tickets : tickets[t] = [status |-> "consumed", by |-> c] =>
         /\ conn[c].ticket = t
         /\ conn[c].phase \in (Opening \ {"accepted"}) \cup {"live", "closing", "human"}

(* A start is the last job and its connection waits for it, or the         *)
(* connection gave up; the close is the last job of all.                   *)
StartsAwaited ==
  \A i \in DOMAIN calls, c \in Conns :
    calls[i] = Call("start", c) => c \in adrift \/ (In(c, "starting") /\ i = Len(calls))

CloseIsLast ==
  ~open => IF calls = <<>> THEN streams = {} ELSE calls[Len(calls)] = Call("close", None)

(* What a connection holds in each phase.                                  *)
Held(c) ==
  \/ c \in adrift
  \/ Ending(c)
  \/ conn[c].stream /\ conn[c].phase \in {"live", "closing", "human", "grant"}

Holding ==
  /\ \A c \in subscribers : conn[c].phase \in {"stream", "starting", "live"} \cup CleanUp
  /\ \A c \in streams : Held(c)
  /\ streams = {} => cast # "running"
  /\ StartsAwaited /\ CloseIsLast

(* The steps of the bus, whoever takes them.                               *)
BusNext ==
  \/ \E p \in Publishers : Publish(p)
  \/ \E a \in Threads : Put(a) \/ TakeOldest(a) \/ PutAgain(a)
  \/ \E s \in Subs, after \in Nat : Subscribe(s, after)
  \/ \E a \in Closers, s \in Subs : Unsubscribe(a, s)
  \/ \E a \in Closers : CloseBus(a)
  \/ \E s \in Subs : Run(s)
  \/ UNCHANGED busVars

-----------------------------------------------------------------------------
(* Sequences and the least elements of sets of numbers.                    *)

LEMMA AppendFacts ==
  ASSUME NEW S, NEW s \in Seq(S), NEW x \in S
  PROVE  /\ Append(s, x) \in Seq(S)
         /\ Len(Append(s, x)) = Len(s) + 1
         /\ \A i \in 1..Len(s) : Append(s, x)[i] = s[i]
         /\ Append(s, x)[Len(s) + 1] = x
         /\ DOMAIN Append(s, x) = 1..(Len(s) + 1)
         /\ DOMAIN s = 1..Len(s)
         /\ Len(s) \in Nat
OBVIOUS

LEMMA TailFacts ==
  ASSUME NEW S, NEW s \in Seq(S), s # <<>>
  PROVE  /\ Tail(s) \in Seq(S) /\ Head(s) = s[1] /\ Head(s) \in S
         /\ Len(Tail(s)) = Len(s) - 1 /\ Len(s) \in Nat \ {0}
         /\ \A i \in 1..Len(Tail(s)) : Tail(s)[i] = s[i + 1]
         /\ DOMAIN Tail(s) = 1..(Len(s) - 1)
         /\ DOMAIN s = 1..Len(s)
OBVIOUS

LEMMA ElementOf ==
  ASSUME NEW S, NEW s \in Seq(S), NEW i \in 1..Len(s)
  PROVE  s[i] \in S
OBVIOUS

LEMMA Widen ==
  ASSUME NEW m \in Nat, NEW n \in Nat, m <= n
  PROVE  0..m \subseteq 0..n /\ Seq(0..m) \subseteq Seq(0..n)
<1>1. 0..m \subseteq 0..n
  OBVIOUS
<1>2. ASSUME NEW s \in Seq(0..m) PROVE s \in Seq(0..n)
  <2>1. \A i \in 1..Len(s) : s[i] \in 0..n
    BY <1>1, ElementOf
  <2>2. s = [i \in 1..Len(s) |-> s[i]] /\ Len(s) \in Nat
    OBVIOUS
  <2> QED BY <2>1, <2>2
<1> QED BY <1>1, <1>2

LEMMA ToSetAppend ==
  ASSUME NEW S, NEW s \in Seq(S), NEW x \in S
  PROVE  ToSet(Append(s, x)) = ToSet(s) \cup {x}
<1> DEFINE t == Append(s, x)
<1>1. /\ \A i \in 1..Len(s) : t[i] = s[i]
      /\ t[Len(s) + 1] = x
      /\ DOMAIN t = 1..(Len(s) + 1)
      /\ DOMAIN s = 1..Len(s)
      /\ Len(s) \in Nat
  BY AppendFacts
<1> HIDE DEF t
<1>2. 1..(Len(s) + 1) = 1..Len(s) \cup {Len(s) + 1}
  BY <1>1
<1> QED BY <1>1, <1>2 DEF ToSet, t

LEMMA ToSetTail ==
  ASSUME NEW S, NEW s \in Seq(S), s # <<>>
  PROVE  ToSet(s) = ToSet(Tail(s)) \cup {Head(s)}
<1> DEFINE t == Tail(s)
<1>1. /\ Head(s) = s[1]
      /\ Len(s) \in Nat \ {0}
      /\ \A i \in 1..(Len(s) - 1) : t[i] = s[i + 1]
      /\ DOMAIN t = 1..(Len(s) - 1)
      /\ DOMAIN s = 1..Len(s)
  BY TailFacts
<1> HIDE DEF t
<1>2. \A i \in DOMAIN t : i + 1 \in DOMAIN s
  BY <1>1
<1>3. \A i \in DOMAIN s : i = 1 \/ (i - 1 \in DOMAIN t /\ t[i - 1] = s[i])
  BY <1>1
<1>4. 1 \in DOMAIN s
  BY <1>1
<1>5. ASSUME NEW x PROVE x \in ToSet(s) => x \in ToSet(t) \/ x = s[1]
  BY <1>3 DEF ToSet
<1>6. ASSUME NEW x PROVE x \in ToSet(t) \/ x = s[1] => x \in ToSet(s)
  BY <1>1, <1>2, <1>4 DEF ToSet
<1>7. ToSet(s) = ToSet(t) \cup {s[1]}
  BY <1>5, <1>6
<1> QED BY <1>1, <1>7 DEF t

LEMMA EventsFacts ==
  ASSUME NEW a \in Nat \ {0}, NEW b \in Nat
  PROVE  /\ Events(a, b) \in Seq(a..b)
         /\ ToSet(Events(a, b)) = a..b
         /\ Distinct(Events(a, b))
         /\ Len(Events(a, b)) = IF a <= b THEN b - a + 1 ELSE 0
<1> DEFINE n == IF a <= b THEN b - a + 1 ELSE 0
<1>1. n \in Nat /\ 1..(b - a + 1) = 1..n
  OBVIOUS
<1>2. Events(a, b) = [i \in 1..n |-> a - 1 + i]
  BY <1>1 DEF Events
<1>3. \A i \in 1..n : a - 1 + i \in a..b
  OBVIOUS
<1>4. \A x \in a..b : x - a + 1 \in 1..n /\ a - 1 + (x - a + 1) = x
  OBVIOUS
<1> HIDE DEF n
<1>5. Events(a, b) \in Seq(a..b) /\ Len(Events(a, b)) = n
  BY <1>1, <1>2, <1>3
<1>6. DOMAIN Events(a, b) = 1..n /\ \A i \in 1..n : Events(a, b)[i] = a - 1 + i
  BY <1>2
<1>7. ToSet(Events(a, b)) = a..b
  <2> DEFINE e == Events(a, b)
  <2>1. DOMAIN e = 1..n /\ \A i \in 1..n : e[i] = a - 1 + i
    BY <1>6
  <2> HIDE DEF e
  <2>2. \A i \in DOMAIN e : e[i] \in a..b
    BY <1>3, <2>1
  <2>3. ASSUME NEW x \in a..b PROVE x \in ToSet(e)
    <3>1. x - a + 1 \in DOMAIN e /\ e[x - a + 1] = x
      BY <1>4, <2>1
    <3> QED BY <3>1 DEF ToSet
  <2>4. ToSet(e) = a..b
    BY <2>2, <2>3 DEF ToSet
  <2> QED BY <2>4 DEF e
<1>8. Distinct(Events(a, b))
  BY <1>1, <1>6 DEF Distinct
<1> QED BY <1>5, <1>7, <1>8 DEF n

(* A set of numbers has a least element: the strict inclusion of the       *)
(* intervals 0..x is well-founded.                                         *)
LEMMA LeastExists ==
  ASSUME NEW T \in SUBSET Nat, T # {}
  PROVE  \E m \in T : \A y \in T : m <= y
<1> DEFINE U == {0..x : x \in T}
<1>1. U # {} /\ U \subseteq FiniteSubsetsOf(Nat)
  <2>1. \A x \in T : IsFiniteSet(0..x) /\ 0..x \in SUBSET Nat
    BY FS_Interval
  <2> QED BY <2>1 DEF FiniteSubsetsOf
<1>2. PICK u \in U : \A v \in U : <<v, u>> \notin StrictSubsetOrdering(Nat)
  <2> HIDE DEF U
  <2> QED BY <1>1, FS_StrictSubsetOrderingWellFounded, WFMin
<1>3. PICK m \in T : u = 0..m
  BY DEF U
<1>4. ASSUME NEW y \in T, y < m PROVE FALSE
  <2>1. 0..y \subseteq 0..m /\ m \in 0..m /\ m \notin 0..y
    BY <1>4
  <2>2. <<0..y, 0..m>> \in StrictSubsetOrdering(Nat)
    BY <2>1 DEF StrictSubsetOrdering
  <2> QED BY <1>2, <1>3, <2>2 DEF U
<1> QED BY <1>4

LEMMA MinIsElement ==
  ASSUME NEW T \in SUBSET Nat, T # {}
  PROVE  Min(T) \in T
<1>1. \E m \in T : \A y \in T : m <= y
  BY LeastExists
<1> QED BY <1>1 DEF Min

LEMMA MaxIsElement ==
  ASSUME NEW n \in Nat, NEW T \in SUBSET (0..n), T # {}
  PROVE  Max(T) \in T
<1> DEFINE U == {n - x : x \in T}
<1>0. \A x \in T : x \in Nat /\ n - x \in Nat
  OBVIOUS
<1>1. U \in SUBSET Nat /\ U # {}
  BY <1>0
<1>2. PICK u \in U : \A v \in U : u <= v
  <2> HIDE DEF U
  <2> QED BY <1>1, LeastExists
<1>3. PICK m \in T : u = n - m
  BY <1>2
<1>4. \A y \in T : m >= y
  <2> TAKE y \in T
  <2>1. u <= n - y
    BY <1>2
  <2> QED BY <1>0, <1>3, <2>1
<1> QED BY <1>4 DEF Max

LEMMA MaxOfTwo ==
  ASSUME NEW x \in Int, NEW y \in Int
  PROVE  Max({x, y}) = IF x >= y THEN x ELSE y
BY DEF Max

-----------------------------------------------------------------------------
(* The fields of the bus.                                                  *)

LEMMA TargetIn ==
  ASSUME BusTyped, NEW a \in Threads, sending[a].to # {}
  PROVE  Target(a) \in sending[a].to /\ Target(a) \in Subs
<1>1. sending[a].to \in SUBSET Nat /\ sending[a].to \subseteq Subs
  BY EventsAssumption DEF BusTyped
<1> QED BY <1>1, MinIsElement DEF Target

LEMMA BusInitInv == ASSUME BusInit PROVE BusInv
<1> USE EventsAssumption DEF BusInit, Items, Idle, End
<1>1. BusTyped
  <2>1. sequence \in 0..MaxEvents /\ Items = {0}
    OBVIOUS
  <2>2. \A s \in Subs : queue[s] \in Seq(Items) /\ got[s] \in Seq(Items)
    OBVIOUS
  <2>3. sending \in [Threads -> [item : Items, to : SUBSET Subs, at : {"put", "take", "again"}]]
    BY <2>1
  <2> QED BY <2>1, <2>2, <2>3 DEF BusTyped
<1>2. SendsOwn /\ Unborn
  BY DEF SendsOwn, Unborn, Threads
<1>3. QueueBounded
  BY DEF QueueBounded
<1> QED BY <1>1, <1>2, <1>3 DEF BusInv

(* A queue that takes an item.                                             *)
LEMMA PutInQueue ==
  ASSUME BusInv, NEW a \in Threads, NEW s \in Subs, Room(s),
         queue' = [queue EXCEPT ![s] = Append(@, sending[a].item)]
  PROVE  queue' \in [Subs -> Seq(Items)] /\ QueueBounded'
<1>1. sending[a].item \in Items /\ queue[s] \in Seq(Items)
  BY DEF BusInv, BusTyped
<1>2. /\ Append(queue[s], sending[a].item) \in Seq(Items)
      /\ Len(Append(queue[s], sending[a].item)) = Len(queue[s]) + 1
      /\ Len(queue[s]) \in Nat
  BY <1>1, AppendFacts
<1>3. Len(queue[s]) + 1 <= QueueSize
  BY <1>2, EventsAssumption DEF Room
<1>4. queue' \in [Subs -> Seq(Items)]
  BY <1>2 DEF BusInv, BusTyped
<1>5. QueueBounded'
  BY <1>2, <1>3 DEF BusInv, QueueBounded, BusTyped
<1> QED BY <1>4, <1>5

(* A queue that gives its first item away.                                 *)
LEMMA TakeFromQueue ==
  ASSUME BusInv, NEW s \in Subs, queue[s] # <<>>,
         queue' = [queue EXCEPT ![s] = Tail(@)]
  PROVE  queue' \in [Subs -> Seq(Items)] /\ QueueBounded' /\ Head(queue[s]) \in Items
<1>1. queue[s] \in Seq(Items) /\ Len(queue[s]) <= QueueSize
  BY DEF BusInv, BusTyped, QueueBounded
<1>2. /\ Tail(queue[s]) \in Seq(Items) /\ Head(queue[s]) \in Items
      /\ Len(Tail(queue[s])) = Len(queue[s]) - 1
      /\ Len(queue[s]) \in Nat \ {0}
  BY <1>1, TailFacts
<1>3. Len(Tail(queue[s])) <= QueueSize
  BY <1>1, <1>2, EventsAssumption
<1>4. queue' \in [Subs -> Seq(Items)]
  BY <1>2 DEF BusInv, BusTyped
<1>5. QueueBounded'
  BY <1>3 DEF BusInv, QueueBounded, BusTyped
<1> QED BY <1>2, <1>4, <1>5

(* The item on its way to the next subscriber has arrived, or is lost.     *)
LEMMA NextTargetTyped ==
  ASSUME BusInv, NEW a \in Threads, NextTarget(a)
  PROVE  /\ sending' \in [Threads -> [item : Items, to : SUBSET Subs, at : {"put", "take", "again"}]]
         /\ \A b \in Threads : sending'[b].item = sending[b].item
                               /\ sending'[b].to \subseteq sending[b].to
BY DEF BusInv, BusTyped, NextTarget

LEMMA SubscribeFacts ==
  ASSUME BusInv, NEW after \in Nat
  PROVE  LET first == FirstAfter(after)
             from == Max({first, sequence - QueueSize + 1}) IN
         /\ first \in Nat \ {0} /\ from \in Nat \ {0}
         /\ from >= first
         /\ Newest(QueueSize, first, sequence) = Events(from, sequence)
         /\ Len(Events(from, sequence)) <= QueueSize
         /\ Events(from, sequence) \in Seq(Items)
         /\ ToSet(Events(from, sequence)) = from..sequence
         /\ Distinct(Events(from, sequence))
         /\ Len(Events(first, sequence)) <= QueueSize => from..sequence = first..sequence
<1> DEFINE first == FirstAfter(after)
           from == Max({first, sequence - QueueSize + 1})
<1>1. sequence \in Nat /\ JournalSize \in Nat /\ QueueSize \in Nat \ {0}
  BY EventsAssumption DEF BusInv, BusTyped
<1>2. first \in Nat \ {0}
  BY <1>1, MaxOfTwo DEF FirstAfter
<1> HIDE DEF first
<1>3. from = IF first >= sequence - QueueSize + 1 THEN first ELSE sequence - QueueSize + 1
  BY <1>1, <1>2, MaxOfTwo
<1>4. Newest(QueueSize, first, sequence) = Events(from, sequence)
  BY DEF Newest
<1> HIDE DEF from
<1>5. from \in Nat \ {0} /\ from >= first
  BY <1>1, <1>2, <1>3
<1>6. /\ Events(from, sequence) \in Seq(from..sequence)
      /\ ToSet(Events(from, sequence)) = from..sequence
      /\ Distinct(Events(from, sequence))
      /\ Len(Events(from, sequence)) = IF from <= sequence THEN sequence - from + 1 ELSE 0
  BY <1>1, <1>5, EventsFacts
<1>7. Len(Events(from, sequence)) <= QueueSize
  BY <1>1, <1>2, <1>3, <1>5, <1>6
<1>8. Events(from, sequence) \in Seq(Items)
  <2> DEFINE e == Events(from, sequence)
  <2>0. e \in Seq(from..sequence)
    BY <1>6
  <2> HIDE DEF e
  <2>1. from..sequence \subseteq Items
    BY <1>1, <1>5 DEF Items
  <2>2. \A i \in 1..Len(e) : e[i] \in from..sequence
    BY <2>0, ElementOf
  <2>3. e = [i \in 1..Len(e) |-> e[i]] /\ Len(e) \in Nat
    BY <2>0
  <2>4. e \in Seq(Items)
    BY <2>1, <2>2, <2>3
  <2> QED BY <2>4 DEF e
<1>9. ASSUME Len(Events(first, sequence)) <= QueueSize PROVE from..sequence = first..sequence
  <2>1. Len(Events(first, sequence)) = IF first <= sequence THEN sequence - first + 1 ELSE 0
    BY <1>1, <1>2, EventsFacts
  <2>2. CASE first <= sequence
    BY <1>1, <1>2, <1>3, <1>9, <2>1, <2>2
  <2>3. CASE ~(first <= sequence)
    BY <1>1, <1>2, <1>5, <2>3
  <2> QED BY <2>2, <2>3
<1> QED BY <1>2, <1>4, <1>5, <1>6, <1>7, <1>8, <1>9 DEF first, from

LEMMA BusNextInv ==
  ASSUME BusInv, BusNext
  PROVE  BusInv'
<1> DEFINE Sent == [item : Items, to : SUBSET Subs, at : {"put", "take", "again"}]
<1> USE EventsAssumption DEF BusInv
<1>1. ASSUME NEW p \in Publishers, Publish(p) PROVE BusInv'
  <2>1. sequence \in Nat /\ sequence' = sequence + 1 /\ sequence' \in 0..MaxEvents
    BY <1>1 DEF Publish, BusTyped
  <2>2. Items \subseteq Items' /\ Seq(Items) \subseteq Seq(Items')
    BY <2>1, Widen DEF Items
  <2>3. sequence' \in Items' /\ sequence' # End
    BY <2>1 DEF Items, End
  <2>4. p \in Threads /\ p \notin Closers
    BY DEF Threads
  <2>5. sending' = [sending EXCEPT ![p] = [item |-> sequence', to |-> subscribers, at |-> "put"]]
    BY <1>1, <2>1 DEF Publish
  <2>6. sending' \in [Threads -> [item : Items', to : SUBSET Subs, at : {"put", "take", "again"}]]
    BY <2>2, <2>3, <2>4, <2>5 DEF BusTyped
  <2>7. queue' \in [Subs -> Seq(Items')] /\ got' \in [Subs -> Seq(Items')]
    <3>1. queue' = queue /\ got' = got
      BY <1>1 DEF Publish
    <3>2. \A s \in Subs : queue[s] \in Seq(Items') /\ got[s] \in Seq(Items')
      BY <2>2 DEF BusTyped
    <3> QED BY <3>1, <3>2 DEF BusTyped
  <2>8. BusTyped'
    BY <1>1, <2>1, <2>6, <2>7 DEF Publish, BusTyped, Items
  <2>9. SendsOwn'
    BY <2>3, <2>4, <2>5 DEF SendsOwn, BusTyped, Threads
  <2>10. Unborn'
    BY <1>1, <2>4, <2>5 DEF Publish, Unborn, BusTyped
  <2>11. QueueBounded'
    BY <1>1 DEF Publish, QueueBounded
  <2> QED BY <2>8, <2>9, <2>10, <2>11
<1>2. ASSUME NEW a \in Threads, Put(a) \/ PutAgain(a) PROVE BusInv'
  <2> DEFINE s == Target(a)
  <2>1. s \in Subs
    BY <1>2, TargetIn DEF Put, PutAgain
  <2>2. queue' \in [Subs -> Seq(Items)] /\ QueueBounded'
    <3>1. CASE Room(s) /\ queue' = [queue EXCEPT ![s] = Append(@, sending[a].item)]
      BY <2>1, <3>1, PutInQueue
    <3>2. CASE queue' = queue
      BY <3>2 DEF BusTyped, QueueBounded
    <3>3. queue' = [queue EXCEPT ![s] = queue[s]] => queue' = queue
      BY <2>1 DEF BusTyped
    <3> QED BY <1>2, <3>1, <3>2, <3>3 DEF Put, PutAgain
  <2>3. /\ sending' \in [Threads -> Sent]
        /\ \A b \in Threads : sending'[b].item = sending[b].item
                              /\ sending'[b].to \subseteq sending[b].to
    <3>1. CASE NextTarget(a)
      BY <3>1, NextTargetTyped
    <3>2. CASE sending' = [sending EXCEPT ![a].at = "take"]
      BY <3>2 DEF BusTyped
    <3> QED BY <1>2, <3>1, <3>2 DEF Put, PutAgain
  <2>4. /\ sequence' = sequence /\ subscribers' = subscribers /\ running' = running
        /\ closed' = closed /\ got' = got /\ since' = since
    BY <1>2 DEF Put, PutAgain
  <2>5. full' \in [Subs -> BOOLEAN]
    BY <1>2 DEF Put, PutAgain, BusTyped
  <2>6. BusTyped'
    BY <2>2, <2>3, <2>4, <2>5 DEF BusTyped, Items
  <2>7. SendsOwn'
    BY <2>3 DEF SendsOwn, Threads
  <2>8. Unborn'
    BY <2>3, <2>4 DEF Unborn
  <2> QED BY <2>2, <2>6, <2>7, <2>8
<1>3. ASSUME NEW a \in Threads, TakeOldest(a) PROVE BusInv'
  <2> DEFINE s == Target(a)
  <2>1. s \in Subs
    BY <1>3, TargetIn DEF TakeOldest
  <2>2. queue' \in [Subs -> Seq(Items)] /\ QueueBounded'
    <3>1. CASE queue[s] = <<>>
      <4>1. queue' = queue
        BY <1>3, <2>1, <3>1 DEF TakeOldest, BusTyped
      <4> QED BY <4>1 DEF BusTyped, QueueBounded
    <3>2. CASE queue[s] # <<>>
      <4>1. queue' = [queue EXCEPT ![s] = Tail(@)]
        BY <1>3, <2>1, <3>2 DEF TakeOldest, BusTyped
      <4> QED BY <2>1, <3>2, <4>1, TakeFromQueue
    <3> QED BY <3>1, <3>2
  <2>3. /\ sending' \in [Threads -> Sent]
        /\ \A b \in Threads : sending'[b].item = sending[b].item /\ sending'[b].to = sending[b].to
    BY <1>3 DEF TakeOldest, BusTyped
  <2>4. /\ sequence' = sequence /\ subscribers' = subscribers /\ running' = running
        /\ closed' = closed /\ got' = got /\ since' = since /\ full' = full
    BY <1>3 DEF TakeOldest
  <2>6. BusTyped'
    BY <2>2, <2>3, <2>4 DEF BusTyped, Items
  <2>7. SendsOwn'
    BY <2>3 DEF SendsOwn, Threads
  <2>8. Unborn'
    BY <2>3, <2>4 DEF Unborn
  <2> QED BY <2>2, <2>6, <2>7, <2>8
<1>4. ASSUME NEW s \in Subs, NEW after \in Nat, Subscribe(s, after) PROVE BusInv'
  <2> DEFINE first == FirstAfter(after)
             start == Newest(QueueSize, first, sequence)
  <2>1. first \in Nat \ {0} /\ start \in Seq(Items) /\ Len(start) <= QueueSize
    BY SubscribeFacts
  <2>2. /\ sequence' = sequence /\ sending' = sending /\ closed' = closed /\ got' = got
        /\ subscribers' = subscribers \cup {s}
        /\ queue' = [queue EXCEPT ![s] = start]
        /\ running' = [running EXCEPT ![s] = TRUE]
        /\ since' = [since EXCEPT ![s] = first]
        /\ full' = [full EXCEPT ![s] = Len(Events(first, sequence)) > QueueSize]
    BY <1>4 DEF Subscribe
  <2>3. (Len(Events(first, sequence)) > QueueSize) \in BOOLEAN
    OBVIOUS
  <2> HIDE DEF first, start
  <2>4. BusTyped'
    BY <2>1, <2>2, <2>3 DEF BusTyped, Items
  <2>5. SendsOwn'
    BY <2>2 DEF SendsOwn
  <2>6. Unborn'
    BY <2>1, <2>2 DEF Unborn, BusTyped
  <2>7. QueueBounded'
    BY <2>1, <2>2 DEF QueueBounded, BusTyped
  <2> QED BY <2>4, <2>5, <2>6, <2>7
<1>5. ASSUME NEW a \in Closers, NEW S \in SUBSET subscribers,
             sending' = [sending EXCEPT ![a].to = S],
             subscribers' \subseteq subscribers, closed' \in BOOLEAN,
             UNCHANGED <<sequence, queue, running, got, since, full>>
      PROVE  BusInv'
  <2>1. a \in Threads /\ S \subseteq Subs /\ a \notin Publishers
    BY DEF Threads, BusTyped
  <2>2. BusTyped'
    BY <1>5, <2>1 DEF BusTyped, Items
  <2>3. \A b \in Threads : sending'[b].item = sending[b].item
    BY <1>5, <2>1 DEF BusTyped
  <2>4. SendsOwn'
    BY <1>5, <2>1, <2>3 DEF SendsOwn, BusTyped, Threads
  <2>5. Unborn'
    BY <1>5, <2>1 DEF Unborn, BusTyped
  <2>6. QueueBounded'
    BY <1>5 DEF QueueBounded
  <2> QED BY <2>2, <2>4, <2>5, <2>6
<1>6. ASSUME UNCHANGED busVars PROVE BusInv'
  BY <1>6 DEF busVars, BusTyped, SendsOwn, Unborn, QueueBounded, Items
<1>7. ASSUME NEW a \in Closers, NEW s \in Subs, Unsubscribe(a, s) PROVE BusInv'
  <2>1. closed' \in BOOLEAN
    BY <1>7 DEF Unsubscribe, BusTyped
  <2>2. CASE s \in subscribers
    <3>1. {s} \in SUBSET subscribers
      BY <2>2
    <3>2. sending' = [sending EXCEPT ![a].to = {s}]
      BY <1>7, <2>2 DEF Unsubscribe
    <3> QED BY <1>5, <1>7, <2>1, <3>1, <3>2 DEF Unsubscribe
  <2>3. CASE s \notin subscribers
    <3>1. subscribers' = subscribers
      BY <1>7, <2>3 DEF Unsubscribe
    <3> QED BY <1>6, <1>7, <2>3, <3>1 DEF Unsubscribe, busVars
  <2> QED BY <2>2, <2>3
<1>8. ASSUME NEW a \in Closers, CloseBus(a) PROVE BusInv'
  BY <1>5, <1>8 DEF CloseBus
<1>9. ASSUME NEW s \in Subs, Run(s) PROVE BusInv'
  <2>1. queue' \in [Subs -> Seq(Items)] /\ QueueBounded' /\ Head(queue[s]) \in Items
    BY <1>9, TakeFromQueue DEF Run
  <2>2. got' \in [Subs -> Seq(Items)] /\ running' \in [Subs -> BOOLEAN]
    <3>1. Append(got[s], Head(queue[s])) \in Seq(Items)
      BY <2>1, AppendFacts DEF BusTyped
    <3> QED BY <1>9, <3>1 DEF Run, BusTyped
  <2>3. /\ sequence' = sequence /\ subscribers' = subscribers /\ sending' = sending
        /\ closed' = closed /\ since' = since /\ full' = full
    BY <1>9 DEF Run
  <2>4. BusTyped'
    BY <2>1, <2>2, <2>3 DEF BusTyped, Items
  <2>5. SendsOwn'
    BY <2>3 DEF SendsOwn
  <2>6. Unborn'
    <3>1. since[s] # 0
      BY <1>9 DEF Run, Unborn
    <3>2. \A r \in Subs \ {s} : got'[r] = got[r] /\ running'[r] = running[r]
      BY <1>9 DEF Run, BusTyped
    <3> QED BY <2>3, <3>1, <3>2 DEF Unborn
  <2> QED BY <2>1, <2>4, <2>5, <2>6
<1> QED BY BusNext, <1>1, <1>2, <1>3, <1>4, <1>6, <1>7, <1>8, <1>9 DEF BusNext

-----------------------------------------------------------------------------
(* An event that had room is not lost.                                     *)

(* A step that takes nothing away from a subscriber that was never full.   *)
LEMMA LostOn ==
  ASSUME BusInv, NothingLost,
         subscribers' \subseteq subscribers, sequence' = sequence, since' = since,
         \A s \in subscribers : ~full'[s] => ~full[s] /\ Reached(s) \ {End} \subseteq Reached(s)'
  PROVE  NothingLost'
<1>1. \A s \in subscribers : s \in Subs /\ since[s] \in Nat \ {0}
  BY DEF BusInv, BusTyped, Unborn
<1>2. sequence \in Nat
  BY DEF BusInv, BusTyped
<1>3. ASSUME NEW s \in subscribers', ~full'[s]
      PROVE  since'[s]..sequence' \subseteq Reached(s)'
  <2>1. s \in subscribers /\ ~full[s] /\ Reached(s) \ {End} \subseteq Reached(s)'
    BY <1>3
  <2>2. since[s]..sequence \subseteq Reached(s)
    BY <2>1 DEF NothingLost, Reached
  <2>3. End \notin since[s]..sequence
    BY <1>1, <1>2, <2>1 DEF End
  <2> QED BY <2>1, <2>2, <2>3
<1> QED BY <1>3 DEF NothingLost, Reached

LEMMA BusLost ==
  ASSUME BusInv, TakesFromFull, NothingLost, BusNext
  PROVE  TakesFromFull' /\ NothingLost'
<1> USE EventsAssumption DEF BusInv
<1>1. ASSUME NEW p \in Publishers, Publish(p) PROVE TakesFromFull' /\ NothingLost'
  <2>1. /\ sending[p].to = {} /\ sequence' = sequence + 1 /\ sequence \in Nat
        /\ sending' = [sending EXCEPT ![p] = [item |-> sequence + 1, to |-> subscribers, at |-> "put"]]
        /\ UNCHANGED <<subscribers, queue, got, since, full>>
        /\ p \in Threads
    BY <1>1 DEF Publish, BusTyped, Threads
  <2>2. /\ sending'[p] = [item |-> sequence + 1, to |-> subscribers, at |-> "put"]
        /\ \A a \in Threads \ {p} : sending'[a] = sending[a]
    BY <2>1 DEF BusTyped
  <2>3. TakesFromFull'
    <3>1. \A a \in Threads : sending'[a].at # "put" => a # p
      BY <2>2
    <3> QED BY <2>1, <2>2, <3>1 DEF TakesFromFull, Target
  <2>4. ASSUME NEW s \in subscribers', ~full'[s]
        PROVE  since'[s]..sequence' \subseteq Reached(s)'
    <3>1. s \in Subs /\ since[s] \in Nat /\ since[s]..sequence \subseteq Reached(s)
      BY <2>1, <2>4 DEF NothingLost, BusTyped, Reached
    <3>2. \A q \in Publishers : s \in sending[q].to => q # p /\ sending'[q] = sending[q]
      BY <2>1, <2>2 DEF Threads
    <3>3. Queued(s) \subseteq Queued(s)'
      BY <2>1, <3>2 DEF Queued
    <3>4. sequence + 1 \in Queued(s)'
      BY <2>1, <2>2, <2>4 DEF Queued
    <3>5. since[s]..(sequence + 1) \subseteq (since[s]..sequence) \cup {sequence + 1}
      BY <2>1, <3>1
    <3> QED BY <2>1, <3>1, <3>3, <3>4, <3>5 DEF Reached
  <2> QED BY <2>3, <2>4 DEF NothingLost, Reached
<1>2. ASSUME NEW a \in Threads, Put(a) \/ TakeOldest(a) \/ PutAgain(a)
      PROVE  TakesFromFull' /\ NothingLost'
  <2>1. PICK s \in Subs : s = Target(a) /\ s \in sending[a].to
    BY <1>2, TargetIn DEF Put, TakeOldest, PutAgain
  <2>2. /\ sequence' = sequence /\ subscribers' = subscribers /\ got' = got /\ since' = since
        /\ \A b \in Threads \ {a} : sending'[b] = sending[b]
    BY <1>2 DEF Put, TakeOldest, PutAgain, NextTarget, BusTyped
  <2>3. \A r \in Subs : full[r] => full'[r]
    BY <1>2, <2>1 DEF Put, TakeOldest, PutAgain, BusTyped
  <2>4. \/ sending'[a].at = "put"
        \/ sending'[a].at # "put" /\ sending'[a].to = sending[a].to /\ full'[s]
    <3>1. CASE NextTarget(a)
      BY <3>1 DEF NextTarget, BusTyped
    <3>2. CASE Put(a) /\ ~NextTarget(a)
      BY <2>1, <3>2 DEF Put, BusTyped
    <3>3. CASE TakeOldest(a)
      BY <2>1, <3>3 DEF TakeOldest, BusTyped, TakesFromFull
    <3> QED BY <1>2, <3>1, <3>2, <3>3 DEF PutAgain
  <2>5. TakesFromFull'
    <3>1. \A b \in Threads \ {a} : sending'[b].at # "put" => sending'[b].to # {} /\ full'[Target(b)]
      <4> TAKE b \in Threads \ {a}
      <4>1. sending[b].to # {} => Target(b) \in Subs
        BY TargetIn
      <4> QED BY <2>2, <2>3, <4>1 DEF TakesFromFull
    <3>2. \A b \in Threads \ {a} : Target(b)' = Target(b)
      BY <2>2 DEF Target
    <3>3. sending'[a].at # "put" => sending'[a].to # {} /\ full'[Target(a)] /\ Target(a)' = Target(a)
      BY <2>1, <2>4 DEF Target
    <3> QED BY <3>1, <3>2, <3>3 DEF TakesFromFull
  <2>6. ASSUME NEW r \in subscribers, ~full'[r]
        PROVE  ~full[r] /\ Reached(r) \ {End} \subseteq Reached(r)'
    <3>1. r \in Subs /\ ~full[r]
      BY <2>3, <2>6 DEF BusTyped
    <3>2. CASE r # s
      <4>1. queue'[r] = queue[r]
        BY <1>2, <2>1, <3>1, <3>2 DEF Put, TakeOldest, PutAgain, BusTyped
      <4>2. /\ sending'[a].item = sending[a].item
            /\ r \in sending[a].to => r \in sending'[a].to
        <5>1. CASE NextTarget(a)
          BY <2>1, <3>1, <3>2, <5>1 DEF NextTarget, BusTyped
        <5>2. CASE ~NextTarget(a)
          <6>1. \/ sending' = [sending EXCEPT ![a].at = "take"]
                \/ sending' = [sending EXCEPT ![a].at = "again"]
            BY <1>2, <5>2 DEF Put, TakeOldest, PutAgain
          <6>2. CASE sending' = [sending EXCEPT ![a].at = "take"]
            BY <6>2 DEF BusTyped
          <6>3. CASE sending' = [sending EXCEPT ![a].at = "again"]
            BY <6>3 DEF BusTyped
          <6> QED BY <6>1, <6>2, <6>3
        <5> QED BY <5>1, <5>2
      <4>3. \A q \in Publishers : r \in sending[q].to =>
              r \in sending'[q].to /\ sending'[q].item = sending[q].item
        BY <2>2, <4>2 DEF Threads
      <4>4. Queued(r) \subseteq Queued(r)'
        BY <4>1, <4>3 DEF Queued
      <4> QED BY <2>2, <3>1, <4>4 DEF Reached
    <3>3. CASE r = s
      <4>1. Put(a) /\ Room(s)
        BY <1>2, <2>1, <2>6, <3>1, <3>3 DEF Put, TakeOldest, PutAgain, TakesFromFull, BusTyped
      <4>2. queue'[s] = Append(queue[s], sending[a].item) /\ sending[a].item \in Items
            /\ queue[s] \in Seq(Items)
        BY <2>1, <4>1 DEF Put, BusTyped
      <4>3. ToSet(queue'[s]) = ToSet(queue[s]) \cup {sending[a].item}
        BY <4>2, ToSetAppend
      <4>4. \A q \in Publishers : s \in sending[q].to =>
              \/ q # a /\ sending'[q] = sending[q]
              \/ sending[q].item = sending[a].item
        BY <2>2 DEF Threads
      <4>5. Queued(s) \subseteq Queued(s)'
        <5>1. ASSUME NEW x \in Queued(s) PROVE x \in ToSet(queue[s]) \/ x = sending[a].item
                 \/ \E q \in Publishers \ {a} : s \in sending'[q].to /\ x = sending'[q].item
          BY <4>4 DEF Queued
        <5>2. ASSUME NEW x, x \in ToSet(queue'[s])
                \/ \E q \in Publishers : s \in sending'[q].to /\ x = sending'[q].item
              PROVE x \in Queued(s)'
          BY <5>2 DEF Queued
        <5> QED BY <4>3, <5>1, <5>2
      <4>6. Reached(s) \subseteq Reached(s)'
        BY <2>2, <4>5 DEF Reached
      <4>7. Reached(r) = Reached(s) /\ Reached(r)' = Reached(s)'
        BY <3>3
      <4> QED BY <3>1, <4>6, <4>7
    <3> QED BY <3>2, <3>3
  <2> QED BY <2>2, <2>5, <2>6, LostOn
<1>3. ASSUME NEW s \in Subs, NEW after \in Nat, Subscribe(s, after)
      PROVE  TakesFromFull' /\ NothingLost'
  <2> DEFINE first == FirstAfter(after)
             start == Newest(QueueSize, first, sequence)
  <2>1. Len(Events(first, sequence)) <= QueueSize => ToSet(start) = first..sequence
    BY SubscribeFacts
  <2>2. /\ sequence' = sequence /\ sending' = sending /\ got' = got
        /\ subscribers' = subscribers \cup {s}
        /\ queue' = [queue EXCEPT ![s] = start]
        /\ since' = [since EXCEPT ![s] = first]
        /\ full' = [full EXCEPT ![s] = Len(Events(first, sequence)) > QueueSize]
        /\ since[s] = 0
    BY <1>3 DEF Subscribe
  <2>3. \A a \in Threads : s \notin sending[a].to
    BY <2>2 DEF Unborn
  <2>8. first \in Nat \ {0} /\ sequence \in Nat /\ QueueSize \in Nat
    <3>1. first \in Nat \ {0}
      BY SubscribeFacts
    <3> HIDE DEF first
    <3> QED BY <3>1 DEF BusTyped
  <2>9. Len(Events(first, sequence)) \in Nat
    BY <2>8, SubscribeFacts, EventsFacts
  <2> HIDE DEF first, start
  <2>4. TakesFromFull'
    <3>1. \A a \in Threads : sending[a].to # {} => Target(a) \in Subs \ {s}
      BY <2>3, TargetIn
    <3> QED BY <2>2, <3>1 DEF TakesFromFull, BusTyped, Target
  <2>5. \A r \in Subs \ {s} : queue'[r] = queue[r] /\ since'[r] = since[r] /\ full'[r] = full[r]
    BY <2>2 DEF BusTyped
  <2>6. ASSUME NEW r \in subscribers', ~full'[r]
        PROVE  since'[r]..sequence' \subseteq Reached(r)'
    <3>1. CASE r = s
      <4>1. queue'[s] = start /\ since'[s] = first /\ ~(Len(Events(first, sequence)) > QueueSize)
        BY <2>2, <2>6, <3>1 DEF BusTyped
      <4>2. ToSet(start) = first..sequence
        BY <2>1, <2>8, <2>9, <4>1
      <4> QED BY <2>2, <3>1, <4>1, <4>2 DEF Reached, Queued
    <3>2. CASE r # s
      <4>1. r \in subscribers /\ r \in Subs \ {s}
        BY <2>2, <2>6, <3>2 DEF BusTyped
      <4>2. since[r]..sequence \subseteq Reached(r)
        BY <2>5, <2>6, <4>1 DEF NothingLost, Reached
      <4>3. Reached(r)' = Reached(r)
        BY <2>2, <2>5, <4>1 DEF Reached, Queued
      <4> QED BY <2>2, <2>5, <4>1, <4>2, <4>3
    <3> QED BY <3>1, <3>2
  <2> QED BY <2>4, <2>6 DEF NothingLost, Reached
<1>4. ASSUME NEW a \in Closers, (\E s \in Subs : Unsubscribe(a, s)) \/ CloseBus(a)
      PROVE  TakesFromFull' /\ NothingLost'
  <2>1. /\ sending[a].to = {} /\ a \in Threads /\ a \notin Publishers
        /\ subscribers' \subseteq subscribers
        /\ UNCHANGED <<sequence, queue, got, since, full>>
        /\ sending' = sending \/ \E S : sending' = [sending EXCEPT ![a].to = S]
    BY <1>4 DEF Unsubscribe, CloseBus, Threads
  <2>2. /\ \A b \in Threads \ {a} : sending'[b] = sending[b]
        /\ sending'[a].at = sending[a].at
    BY <2>1 DEF BusTyped
  <2>3. TakesFromFull'
    <3>1. sending[a].at = "put"
      BY <2>1 DEF TakesFromFull
    <3>2. \A b \in Threads : sending'[b].at # "put" => b # a
      BY <2>2, <3>1
    <3> QED BY <2>1, <2>2, <3>2 DEF TakesFromFull, Target
  <2>4. \A s \in subscribers : Reached(s)' = Reached(s)
    <3>1. \A q \in Publishers : sending'[q] = sending[q]
      BY <2>1, <2>2 DEF Threads
    <3> QED BY <2>1, <3>1 DEF Reached, Queued
  <2> QED BY <2>1, <2>3, <2>4, LostOn
<1>5. ASSUME NEW s \in Subs, Run(s) PROVE TakesFromFull' /\ NothingLost'
  <2>1. /\ queue[s] # <<>> /\ queue' = [queue EXCEPT ![s] = Tail(@)]
        /\ UNCHANGED <<sequence, subscribers, sending, since, full>>
    BY <1>5 DEF Run
  <2>2. TakesFromFull'
    BY <2>1 DEF TakesFromFull, Target
  <2>3. /\ queue[s] \in Seq(Items) /\ got[s] \in Seq(Items) /\ queue'[s] = Tail(queue[s])
        /\ Head(queue[s]) \in Items
    BY <2>1, TailFacts DEF BusTyped
  <2>4. ToSet(queue[s]) = ToSet(queue'[s]) \cup {Head(queue[s])}
    BY <2>1, <2>3, ToSetTail
  <2>5. ToSet(got[s]) \subseteq ToSet(got'[s]) /\ (Head(queue[s]) = End \/ Head(queue[s]) \in ToSet(got'[s]))
    <3>1. CASE Head(queue[s]) = End
      <4>1. got' = got
        BY <1>5, <3>1 DEF Run
      <4> QED BY <3>1, <4>1
    <3>2. CASE Head(queue[s]) # End
      <4>1. got'[s] = Append(got[s], Head(queue[s]))
        BY <1>5, <3>2 DEF Run, BusTyped
      <4>2. ToSet(got'[s]) = ToSet(got[s]) \cup {Head(queue[s])}
        BY <2>3, <4>1, ToSetAppend
      <4> QED BY <4>2
    <3> QED BY <3>1, <3>2
  <2>6. \A r \in Subs : Reached(r) \ {End} \subseteq Reached(r)'
    <3> TAKE r \in Subs
    <3>1. CASE r = s
      BY <2>1, <2>4, <2>5, <3>1 DEF Reached, Queued
    <3>2. CASE r # s
      <4>1. queue'[r] = queue[r] /\ got'[r] = got[r]
        BY <1>5, <3>2 DEF Run, BusTyped
      <4> QED BY <2>1, <4>1 DEF Reached, Queued
    <3> QED BY <3>1, <3>2
  <2> QED BY <2>1, <2>2, <2>6, LostOn DEF BusTyped
<1>6. ASSUME UNCHANGED busVars PROVE TakesFromFull' /\ NothingLost'
  BY <1>6 DEF busVars, TakesFromFull, NothingLost, Queued, Target
<1> QED BY BusNext, <1>1, <1>2, <1>3, <1>4, <1>5, <1>6 DEF BusNext

-----------------------------------------------------------------------------
(* No event arrives twice.                                                 *)

LEMMA ConcatAppend ==
  ASSUME NEW S, NEW u \in Seq(S), NEW v \in Seq(S), NEW x \in S
  PROVE  u \o Append(v, x) = Append(u \o v, x)
OBVIOUS

LEMMA ConcatMove ==
  ASSUME NEW S, NEW u \in Seq(S), NEW v \in Seq(S), v # <<>>
  PROVE  Append(u, Head(v)) \o Tail(v) = u \o v
OBVIOUS

LEMMA DistinctAppend ==
  ASSUME NEW S, NEW d \in Seq(S), NEW x \in S, Distinct(d), x = End \/ x \notin ToSet(d)
  PROVE  Distinct(Append(d, x))
<1> DEFINE e == Append(d, x)
<1>1. /\ \A i \in 1..Len(d) : e[i] = d[i]
      /\ e[Len(d) + 1] = x
      /\ DOMAIN e = 1..(Len(d) + 1)
      /\ DOMAIN d = 1..Len(d)
      /\ Len(d) \in Nat
  BY AppendFacts
<1> HIDE DEF e
<1>2. \A i \in DOMAIN e : (i \in DOMAIN d /\ e[i] = d[i]) \/ (i = Len(d) + 1 /\ e[i] = x)
  BY <1>1
<1>3. \A i \in DOMAIN d : x = End \/ d[i] # x
  BY DEF ToSet
<1>4. Distinct(e)
  BY <1>2, <1>3 DEF Distinct
<1> QED BY <1>4 DEF e

LEMMA DistinctDrop ==
  ASSUME NEW S, NEW u \in Seq(S), NEW v \in Seq(S), v # <<>>, Distinct(u \o v)
  PROVE  Distinct(u \o Tail(v)) /\ ToSet(u \o Tail(v)) \subseteq ToSet(u \o v)
<1> DEFINE d == u \o v
           e == u \o Tail(v)
           at(i) == IF i <= Len(u) THEN i ELSE i + 1
<1>1. /\ DOMAIN d = 1..(Len(u) + Len(v))
      /\ DOMAIN e = 1..(Len(u) + Len(v) - 1)
      /\ Len(u) \in Nat /\ Len(v) \in Nat \ {0}
  OBVIOUS
<1>2. \A i \in DOMAIN e : at(i) \in DOMAIN d /\ e[i] = d[at(i)]
  OBVIOUS
<1>3. \A i, j \in DOMAIN e : at(i) = at(j) => i = j
  BY <1>1
<1> HIDE DEF d, e, at
<1>4. Distinct(e)
  BY <1>2, <1>3 DEF Distinct, d
<1>5. ToSet(e) \subseteq ToSet(d)
  BY <1>2 DEF ToSet
<1> QED BY <1>4, <1>5 DEF d, e

LEMMA StreamTyped ==
  ASSUME BusTyped, NEW s \in Subs
  PROVE  /\ Stream(s) \in Seq(Items) /\ got[s] \in Seq(Items) /\ queue[s] \in Seq(Items)
         /\ ToSet(Stream(s)) \subseteq Items
<1>1. got[s] \in Seq(Items) /\ queue[s] \in Seq(Items)
  BY DEF BusTyped
<1>2. Stream(s) \in Seq(Items)
  BY <1>1 DEF Stream
<1>3. ToSet(Stream(s)) \subseteq Items
  BY <1>2, ElementOf DEF ToSet
<1> QED BY <1>1, <1>2, <1>3

(* A step that puts nothing new into a stream, and sends nothing new.      *)
LEMMA OnceOn ==
  ASSUME BusInv, Once,
         \A p \in Publishers : sending'[p].item = sending[p].item
                               /\ sending'[p].to \subseteq sending[p].to,
         \A s \in Subs : \/ Stream(s)' = Stream(s)
                         \/ Distinct(Stream(s)') /\ ToSet(Stream(s)') \subseteq ToSet(Stream(s))
  PROVE  Once'
<1>1. OwnItems'
  BY DEF Once, OwnItems
<1>2. NotArrived'
  BY DEF Once, NotArrived
<1>3. DistinctStreams'
  BY DEF Once, DistinctStreams
<1> QED BY <1>1, <1>2, <1>3 DEF Once

LEMMA BusOnce ==
  ASSUME BusInv, Once, BusNext
  PROVE  Once'
<1> USE EventsAssumption DEF BusInv
<1>1. ASSUME NEW p \in Publishers, Publish(p) PROVE Once'
  <2>1. /\ sequence \in Nat
        /\ sending'[p] = [item |-> sequence + 1, to |-> subscribers, at |-> "put"]
        /\ \A q \in Publishers \ {p} : sending'[q] = sending[q]
        /\ UNCHANGED <<queue, got>>
    BY <1>1 DEF Publish, BusTyped, Threads
  <2>2. \A s \in Subs : Stream(s)' = Stream(s) /\ ToSet(Stream(s)) \subseteq 0..sequence
    BY <2>1, StreamTyped DEF Stream, Items
  <2>3. \A q \in Publishers \ {p} : sending'[q].item \in 0..sequence
    BY <2>1 DEF BusTyped, Items, Threads
  <2>4. OwnItems'
    BY <2>1, <2>3 DEF Once, OwnItems
  <2>5. NotArrived'
    <3>1. ASSUME NEW s \in Subs, NEW q \in Publishers, s \in sending'[q].to
          PROVE  sending'[q].item \notin ToSet(Stream(s))
      BY <2>1, <2>2, <3>1 DEF Once, NotArrived
    <3> QED BY <2>2, <3>1 DEF NotArrived
  <2>6. DistinctStreams'
    BY <2>2 DEF Once, DistinctStreams
  <2> QED BY <2>4, <2>5, <2>6 DEF Once
<1>2. ASSUME NEW a \in Threads, NEW s \in Subs, s = Target(a), s \in sending[a].to,
             queue' = [queue EXCEPT ![s] = Append(@, sending[a].item)],
             NextTarget(a), got' = got
      PROVE  Once'
  <2> DEFINE x == sending[a].item
  <2>1. /\ sending'[a].to = sending[a].to \ {s}
        /\ \A b \in Threads : sending'[b].item = sending[b].item /\ sending'[b].to \subseteq sending[b].to
        /\ x \in Items
    BY <1>2 DEF NextTarget, BusTyped
  <2>2. Stream(s)' = Append(Stream(s), x)
    <3>1. queue'[s] = Append(queue[s], x)
      BY <1>2 DEF BusTyped
    <3>2. got'[s] = got[s]
      BY <1>2
    <3>3. got[s] \o Append(queue[s], x) = Append(got[s] \o queue[s], x)
      <4>1. x \in Items /\ got[s] \in Seq(Items) /\ queue[s] \in Seq(Items)
        BY <2>1, StreamTyped
      <4>2. \A u, v \in Seq(Items), y \in Items : u \o Append(v, y) = Append(u \o v, y)
        BY ConcatAppend
      <4> QED BY <4>1, <4>2
    <3> QED BY <3>1, <3>2, <3>3 DEF Stream
  <2>3. \A r \in Subs \ {s} : Stream(r)' = Stream(r)
    BY <1>2 DEF Stream, BusTyped
  <2>4. x = End \/ (a \in Publishers /\ x \notin ToSet(Stream(s)))
    BY <1>2 DEF SendsOwn, Once, NotArrived, Threads
  <2>5. ToSet(Stream(s)') = ToSet(Stream(s)) \cup {x}
    <3>1. Stream(s) \in Seq(Items) /\ x \in Items
      BY <2>1, StreamTyped
    <3>2. ToSet(Append(Stream(s), x)) = ToSet(Stream(s)) \cup {x}
      BY <3>1, ToSetAppend
    <3> QED BY <2>2, <3>2
  <2>6. OwnItems'
    BY <2>1 DEF Once, OwnItems, Threads
  <2>7. NotArrived'
    <3>1. ASSUME NEW r \in Subs, NEW q \in Publishers, r \in sending'[q].to
          PROVE  sending'[q].item \notin ToSet(Stream(r)')
      <4>1. r \in sending[q].to /\ sending'[q].item = sending[q].item /\ sending[q].item # End
        BY <2>1, <3>1 DEF Threads, SendsOwn
      <4>2. sending[q].item \notin ToSet(Stream(r))
        BY <4>1 DEF Once, NotArrived
      <4>3. CASE r # s
        BY <2>3, <4>1, <4>2, <4>3
      <4>4. CASE r = s
        <5>1. q # a
          BY <2>1, <3>1, <4>4
        <5>2. sending[q].item # x
          BY <1>2, <2>4, <4>1, <5>1 DEF Once, OwnItems
        <5> QED BY <2>5, <4>1, <4>2, <4>4, <5>2
      <4> QED BY <4>3, <4>4
    <3> QED BY <3>1 DEF NotArrived
  <2>8. DistinctStreams'
    <3>1. Distinct(Append(Stream(s), x))
      BY <2>1, <2>4, DistinctAppend, StreamTyped DEF Once, DistinctStreams
    <3>2. \A r \in Subs : Distinct(Stream(r)')
      BY <2>2, <2>3, <3>1 DEF Once, DistinctStreams
    <3> QED BY <3>2 DEF DistinctStreams, Distinct
  <2> QED BY <2>6, <2>7, <2>8 DEF Once
<1>3. ASSUME NEW a \in Threads, Put(a) \/ TakeOldest(a) \/ PutAgain(a) PROVE Once'
  <2>1. PICK s \in Subs : s = Target(a) /\ s \in sending[a].to
    BY <1>3, TargetIn DEF Put, TakeOldest, PutAgain
  <2>2. got' = got
    BY <1>3 DEF Put, TakeOldest, PutAgain
  <2>3. CASE queue' = [queue EXCEPT ![s] = Append(@, sending[a].item)] /\ NextTarget(a)
    BY <1>2, <2>1, <2>2, <2>3
  <2>4. \A p \in Publishers : sending'[p].item = sending[p].item
                              /\ sending'[p].to \subseteq sending[p].to
    <3>1. CASE NextTarget(a)
      BY <3>1, NextTargetTyped DEF Threads
    <3>2. CASE sending' = [sending EXCEPT ![a].at = "take"]
      BY <3>2 DEF BusTyped, Threads
    <3>3. CASE sending' = [sending EXCEPT ![a].at = "again"]
      BY <3>3 DEF BusTyped, Threads
    <3> QED BY <1>3, <3>1, <3>2, <3>3 DEF Put, TakeOldest, PutAgain
  <2>5. CASE queue' = queue
    BY <2>2, <2>4, <2>5, OnceOn DEF Stream
  <2>6. CASE queue[s] # <<>> /\ queue' = [queue EXCEPT ![s] = Tail(@)]
    <3>1. Stream(s)' = got[s] \o Tail(queue[s])
      BY <2>2, <2>6 DEF Stream, BusTyped
    <3>2. Distinct(Stream(s)') /\ ToSet(Stream(s)') \subseteq ToSet(Stream(s))
      BY <2>6, <3>1, DistinctDrop, StreamTyped DEF Once, DistinctStreams, Stream
    <3>3. \A r \in Subs \ {s} : Stream(r)' = Stream(r)
      BY <2>2, <2>6 DEF Stream, BusTyped
    <3> QED BY <2>4, <3>2, <3>3, OnceOn
  <2>7. [queue EXCEPT ![s] = queue[s]] = queue
    BY DEF BusTyped
  <2> QED BY <1>3, <2>1, <2>3, <2>5, <2>6, <2>7 DEF Put, TakeOldest, PutAgain
<1>4. ASSUME NEW s \in Subs, NEW after \in Nat, Subscribe(s, after) PROVE Once'
  <2> DEFINE start == Newest(QueueSize, FirstAfter(after), sequence)
  <2>1. start \in Seq(Items) /\ Distinct(start)
    BY SubscribeFacts
  <2>2. /\ sending' = sending /\ got' = got
        /\ queue' = [queue EXCEPT ![s] = start]
        /\ since[s] = 0
    BY <1>4 DEF Subscribe
  <2>3. got[s] = <<>> /\ \A a \in Threads : s \notin sending[a].to
    BY <2>2 DEF Unborn
  <2> HIDE DEF start
  <2>4. Stream(s)' = start
    <3>1. queue'[s] = start
      BY <2>2 DEF BusTyped
    <3>2. <<>> \o start = start
      BY <2>1
    <3> QED BY <2>2, <2>3, <3>1, <3>2 DEF Stream
  <2>5. \A r \in Subs \ {s} : Stream(r)' = Stream(r)
    BY <2>2 DEF Stream, BusTyped
  <2>6. OwnItems'
    BY <2>2 DEF Once, OwnItems
  <2>7. NotArrived'
    BY <2>2, <2>3, <2>5 DEF Once, NotArrived, Threads
  <2>8. DistinctStreams'
    <3>1. \A r \in Subs : Distinct(Stream(r)')
      BY <2>1, <2>4, <2>5 DEF Once, DistinctStreams
    <3> QED BY <3>1 DEF DistinctStreams, Distinct
  <2> QED BY <2>6, <2>7, <2>8 DEF Once
<1>5. ASSUME NEW a \in Closers, (\E s \in Subs : Unsubscribe(a, s)) \/ CloseBus(a) PROVE Once'
  <2>1. /\ UNCHANGED <<queue, got>>
        /\ sending' = sending \/ \E S : sending' = [sending EXCEPT ![a].to = S]
        /\ a \notin Publishers /\ a \in Threads
    BY <1>5 DEF Unsubscribe, CloseBus, Threads
  <2>2. \A q \in Publishers : sending'[q] = sending[q]
    BY <2>1 DEF BusTyped, Threads
  <2> QED BY <2>1, <2>2, OnceOn DEF Stream
<1>6. ASSUME NEW s \in Subs, Run(s) PROVE Once'
  <2>1. /\ queue[s] # <<>> /\ queue' = [queue EXCEPT ![s] = Tail(@)] /\ sending' = sending
    BY <1>6 DEF Run
  <2>2. \A r \in Subs \ {s} : Stream(r)' = Stream(r)
    BY <1>6 DEF Run, Stream, BusTyped
  <2>3. queue'[s] = Tail(queue[s])
    BY <2>1 DEF BusTyped
  <2>4. CASE Head(queue[s]) = End
    <3>1. Stream(s)' = got[s] \o Tail(queue[s])
      BY <1>6, <2>3, <2>4 DEF Run, Stream
    <3>2. Distinct(Stream(s)') /\ ToSet(Stream(s)') \subseteq ToSet(Stream(s))
      BY <2>1, <3>1, DistinctDrop, StreamTyped DEF Once, DistinctStreams, Stream
    <3> QED BY <2>1, <2>2, <3>2, OnceOn
  <2>5. CASE Head(queue[s]) # End
    <3>1. got'[s] = Append(got[s], Head(queue[s]))
      BY <1>6, <2>5 DEF Run, BusTyped
    <3>2. Append(got[s], Head(queue[s])) \o Tail(queue[s]) = got[s] \o queue[s]
      BY <2>1, ConcatMove, StreamTyped
    <3>3. Stream(s)' = Stream(s)
      BY <2>3, <3>1, <3>2 DEF Stream
    <3> QED BY <2>1, <2>2, <3>3, OnceOn
  <2> QED BY <2>4, <2>5
<1>7. ASSUME UNCHANGED busVars PROVE Once'
  BY <1>7, OnceOn DEF busVars, Stream
<1> QED BY BusNext, <1>1, <1>3, <1>4, <1>5, <1>6, <1>7 DEF BusNext

LEMMA OnceMeansTwiceNever ==
  ASSUME Once PROVE NothingTwice
BY DEF Once, OwnItems, NotArrived, DistinctStreams, NothingTwice

-----------------------------------------------------------------------------
(* The connections.                                                        *)

LEMMA InitMonInv == ASSUME Init PROVE BusInv /\ TakesFromFull /\ NothingLost /\ Once /\ MonInv /\ Named /\ Holding
<1> USE MonitorAssumption, EventsAssumption DEF Init
<1>1. BusInv
  BY BusInitInv
<1>2. TakesFromFull /\ NothingLost
  BY DEF BusInit, TakesFromFull, NothingLost, Idle
<1>3. Once
  <2>1. OwnItems /\ NotArrived
    BY DEF BusInit, OwnItems, NotArrived, Idle, Threads
  <2>2. \A s \in Subs : Stream(s) = <<>>
    BY DEF BusInit, Stream
  <2>3. DistinctStreams
    BY <2>2 DEF DistinctStreams, Distinct
  <2> QED BY <2>1, <2>3 DEF Once
<1>4. MonInv
  <2>1. MonTyped
    BY DEF MonTyped, Fresh, Phases, Opening, CleanUp, Statuses
  <2>2. Presented /\ BridgeBounded
    BY DEF Presented, BridgeBounded, In, Fresh
  <2> QED BY <2>1, <2>2 DEF MonInv
<1>5. Named
  BY DEF Named, Fresh, Phases, Opening, CleanUp
<1>6. Holding
  BY DEF Holding, BusInit, StartsAwaited, CloseIsLast
<1> QED BY <1>1, <1>2, <1>3, <1>4, <1>5, <1>6

(* Every step of the Monitor is one of the bus.                            *)
LEMMA NextIsBusNext ==
  ASSUME BusInv, MonInv, [Next]_vars PROVE BusNext
<1>1. ASSUME NEW c \in Conns, SubscribeEvents(c) PROVE BusNext
  <2>1. conn[c].monitor \in Monitors
    BY <1>1 DEF SubscribeEvents, In, MonInv, Presented
  <2>2. shown[conn[c].monitor] \cup {0} \in SUBSET (0..sequence) /\ sequence \in Nat
    BY <2>1 DEF MonInv, MonTyped, BusInv, BusTyped, Items
  <2>3. LastShown(conn[c].monitor) \in Nat
    <3> DEFINE T == shown[conn[c].monitor] \cup {0}
    <3>1. T \in SUBSET (0..sequence) /\ T # {} /\ sequence \in Nat
      BY <2>2
    <3> HIDE DEF T
    <3>2. Max(T) \in 0..sequence
      BY <3>1, MaxIsElement
    <3> QED BY <3>2 DEF LastShown, T
  <2> QED BY <1>1, <2>3 DEF SubscribeEvents, BusNext, Conns
<1>2. ASSUME NEW c \in Conns, UnsubscribeEvents(c) PROVE BusNext
  BY <1>2, MonitorAssumption DEF UnsubscribeEvents, BusNext, Conns
<1>3. ASSUME CloseEvents PROVE BusNext
  BY <1>3, MonitorAssumption DEF CloseEvents, BusNext
<1>4. ASSUME BusMoves PROVE BusNext
  BY <1>4 DEF BusMoves, BusNext, BusStep
<1>5. ASSUME NEW c \in Conns, Deliver(c) PROVE BusNext
  BY <1>5 DEF Deliver, BusNext, Conns
<1>6. ASSUME NEW c \in Conns, Serve(c), ~SubscribeEvents(c), ~UnsubscribeEvents(c) PROVE UNCHANGED busVars
  BY <1>6 DEF Serve, Consume, Bind, Snapshot, StartStream, GiveUp, Watch, ReleaseControl, ReleaseTicket,
     StopStream, OnlyConn
<1>7. ASSUME NEW c \in Conns, Disconnect(c) \/ AskControl(c) \/ Acquire(c) \/ GiveBack(c) \/ Write(c)
      PROVE UNCHANGED busVars
  BY <1>7 DEF Disconnect, AskControl, Acquire, GiveBack, Write, OnlyConn
<1>8. ASSUME NEW t \in Tickets, Issue(t) \/ Revoke(t) \/ Expire(t) PROVE UNCHANGED busVars
  BY <1>8 DEF Issue, Revoke, Expire, OnlyTickets
<1>9. ASSUME NEW c \in Conns, NEW m \in Monitors, NEW t \in Tickets, Connect(c, m, t) PROVE UNCHANGED busVars
  BY <1>9 DEF Connect, OnlyConn
<1>10. ASSUME \/ StartServed \/ StopServed \/ ScreencastFails \/ CloseSession \/ CloseServed
              \/ UNCHANGED vars
       PROVE UNCHANGED busVars
  BY <1>10 DEF StartServed, StopServed, ScreencastFails, CloseSession, CloseServed, vars
<1>11. ASSUME UNCHANGED busVars PROVE BusNext
  BY <1>11 DEF BusNext
<1> QED BY <1>1, <1>2, <1>3, <1>4, <1>5, <1>6, <1>7, <1>8, <1>9, <1>10, <1>11 DEF Next

(* The numbers of the events only grow.                                    *)
LEMMA ItemsGrow ==
  ASSUME BusInv, BusNext
  PROVE  Items \subseteq Items' /\ Seq(Items) \subseteq Seq(Items')
<1>1. sequence \in Nat
  BY DEF BusInv, BusTyped
<1>2. sequence' = sequence \/ sequence' = sequence + 1
  BY DEF BusNext, Publish, Put, TakeOldest, PutAgain, Subscribe, Unsubscribe, CloseBus, Run, busVars
<1> QED BY <1>1, <1>2, Widen DEF Items

(* A step that touches neither a queue to a Monitor nor what it shows.     *)
LEMMA MonOn ==
  ASSUME BusInv, BusNext, MonInv,
         open' \in BOOLEAN,
         tickets' \in [Tickets -> [status : Statuses, by : Conns \cup {None}]],
         conn' \in [Conns -> [phase : Phases, monitor : Monitors \cup {None},
                              ticket : Tickets \cup {None}, stream : BOOLEAN]],
         acquiring' \subseteq Conns, lease' \in Conns \cup {None}, streams' \subseteq Conns,
         cast' \in {"off", "running", "failed"},
         calls' \in Seq(Jobs), adrift' \subseteq Conns,
         \A c \in Conns : conn'[c].phase = "none" \/
             /\ conn'[c].monitor = conn[c].monitor /\ conn'[c].ticket = conn[c].ticket
             /\ conn[c].phase # "none",
         bridge' = bridge, shown' = shown
  PROVE  MonInv'
<1>1. Items \subseteq Items' /\ Seq(Items) \subseteq Seq(Items')
  BY ItemsGrow
<1>2. bridge' \in [Conns -> Seq(Items')] /\ shown' \in [Monitors -> SUBSET Items']
  BY <1>1 DEF MonInv, MonTyped
<1>3. MonTyped'
  BY <1>2 DEF MonTyped, Items, Conns, Jobs, Call
<1>4. Presented' /\ BridgeBounded'
  BY DEF MonInv, Presented, BridgeBounded, In
<1> QED BY <1>3, <1>4 DEF MonInv

(* A connection keeps its Monitor and its ticket while its phase changes.  *)
LEMMA GotoTyped ==
  ASSUME MonInv, NEW c \in Conns, NEW p \in Phases, Goto(c, p), ~In(c, "none")
  PROVE  /\ conn' \in [Conns -> [phase : Phases, monitor : Monitors \cup {None},
                                ticket : Tickets \cup {None}, stream : BOOLEAN]]
         /\ \A d \in Conns : conn'[d].phase = "none" \/
              /\ conn'[d].monitor = conn[d].monitor /\ conn'[d].ticket = conn[d].ticket
              /\ conn[d].phase # "none"
<1> DEFINE Row == [phase : Phases, monitor : Monitors \cup {None},
                   ticket : Tickets \cup {None}, stream : BOOLEAN]
<1>1. conn \in [Conns -> Row] /\ conn' = [conn EXCEPT ![c].phase = p] /\ conn[c].phase # "none"
  BY DEF MonInv, MonTyped, Goto, In
<1>2. conn[c] \in Row
  BY <1>1
<1>3. [conn[c] EXCEPT !.phase = p] \in Row
  BY <1>2
<1>4. conn' = [conn EXCEPT ![c] = [conn[c] EXCEPT !.phase = p]]
  BY <1>1
<1>5. conn'[c].monitor = conn[c].monitor /\ conn'[c].ticket = conn[c].ticket
  BY <1>1, <1>2
<1> HIDE DEF Row
<1>6. conn' \in [Conns -> Row] /\ \A d \in Conns \ {c} : conn'[d] = conn[d]
  BY <1>1, <1>3, <1>4
<1> QED BY <1>1, <1>5, <1>6 DEF Row

(* The worker's answer, and the queue of its jobs.                         *)
LEMMA AnswerFacts ==
  ASSUME MonInv, NEW c \in Conns, NEW p \in Phases, NEW ok \in BOOLEAN, ~In(c, "none"), p # "none",
         conn' = [conn EXCEPT ![c] = [@ EXCEPT !.phase = p, !.stream = ok]]
  PROVE  /\ conn' \in [Conns -> [phase : Phases, monitor : Monitors \cup {None},
                                ticket : Tickets \cup {None}, stream : BOOLEAN]]
         /\ conn'[c].phase = p /\ conn'[c].stream = ok
         /\ conn'[c].monitor = conn[c].monitor /\ conn'[c].ticket = conn[c].ticket
         /\ \A d \in Conns \ {c} : conn'[d] = conn[d]
<1> DEFINE Row == [phase : Phases, monitor : Monitors \cup {None},
                   ticket : Tickets \cup {None}, stream : BOOLEAN]
           new == [conn[c] EXCEPT !.phase = p, !.stream = ok]
<1>1. conn \in [Conns -> Row]
  BY DEF MonInv, MonTyped
<1>2. conn[c] \in Row
  BY <1>1
<1>3. /\ new \in Row /\ new.phase = p /\ new.stream = ok
      /\ new.monitor = conn[c].monitor /\ new.ticket = conn[c].ticket
  BY <1>2
<1>4. conn' = [conn EXCEPT ![c] = new]
  OBVIOUS
<1> HIDE DEF new, Row
<1>5. conn' \in [Conns -> Row] /\ conn'[c] = new /\ \A d \in Conns \ {c} : conn'[d] = conn[d]
  BY <1>1, <1>3, <1>4
<1> QED BY <1>3, <1>5 DEF Row

LEMMA JobAdded ==
  ASSUME MonInv, NEW j \in Jobs, calls' = Append(calls, j)
  PROVE  /\ calls' \in Seq(Jobs) /\ calls' # <<>> /\ calls'[Len(calls')] = j
         /\ \A i \in DOMAIN calls : i \in DOMAIN calls' /\ calls'[i] = calls[i]
         /\ \A i \in DOMAIN calls' : 
              (calls'[i] = j /\ i = Len(calls')) \/ (i \in DOMAIN calls /\ calls'[i] = calls[i])
         /\ \E i \in DOMAIN calls' : calls'[i] = j
<1>1. calls \in Seq(Jobs)
  BY DEF MonInv, MonTyped
<1>2. /\ DOMAIN calls = 1..Len(calls) /\ Len(calls) \in Nat
      /\ Len(calls') = Len(calls) + 1 /\ DOMAIN calls' = 1..(Len(calls) + 1)
      /\ calls'[Len(calls) + 1] = j /\ \A i \in 1..Len(calls) : calls'[i] = calls[i]
      /\ calls' \in Seq(Jobs)
  BY <1>1
<1>3. calls' # <<>>
  BY <1>2
<1> QED BY <1>2, <1>3

LEMMA JobServed ==
  ASSUME MonInv, calls # <<>>, calls' = Tail(calls)
  PROVE  /\ calls' \in Seq(Jobs) /\ 1 \in DOMAIN calls /\ Head(calls) = calls[1]
         /\ \A i \in DOMAIN calls' : i + 1 \in DOMAIN calls /\ calls'[i] = calls[i + 1]
         /\ \A i \in DOMAIN calls : i = 1 \/ (i - 1 \in DOMAIN calls' /\ calls'[i - 1] = calls[i])
         /\ \A i \in DOMAIN calls' : i + 1 = Len(calls) => i = Len(calls')
         /\ Len(calls) = 1 => DOMAIN calls' = {}
         /\ IF calls' = <<>> THEN calls[Len(calls)] = Head(calls)
            ELSE calls'[Len(calls')] = calls[Len(calls)]
<1>1. calls \in Seq(Jobs)
  BY DEF MonInv, MonTyped
<1>2. /\ DOMAIN calls = 1..Len(calls) /\ Len(calls) \in Nat \ {0} /\ Head(calls) = calls[1]
      /\ Len(calls') = Len(calls) - 1 /\ DOMAIN calls' = 1..(Len(calls) - 1)
      /\ \A i \in 1..(Len(calls) - 1) : calls'[i] = calls[i + 1]
      /\ calls' \in Seq(Jobs)
  BY <1>1
<1>3. calls' = <<>> <=> Len(calls') = 0
  <2>1. \A q \in Seq(Jobs) : q = <<>> <=> Len(q) = 0
    OBVIOUS
  <2> QED BY <1>2, <2>1
<1>4. \A i \in DOMAIN calls : i \in Nat \ {0} /\ i <= Len(calls)
  BY <1>2
<1>5. Len(calls) = 1 => DOMAIN calls' = {}
  <2>1. Len(calls) = 1 => \A i \in 1..(Len(calls) - 1) : FALSE
    BY <1>2
  <2> QED BY <1>2, <2>1
<1>6. \A i \in DOMAIN calls' : i + 1 \in DOMAIN calls /\ (i + 1 = Len(calls) => i = Len(calls'))
  BY <1>2
<1>7. \A i \in DOMAIN calls : i = 1 \/ (i - 1 \in DOMAIN calls' /\ calls'[i - 1] = calls[i])
  <2>1. TAKE i \in DOMAIN calls
  <2>2. i # 1 => i - 1 \in 1..(Len(calls) - 1) /\ (i - 1) + 1 = i
    BY <1>2, <1>4
  <2> QED BY <1>2, <2>2
<1>8. calls' # <<>> => calls'[Len(calls')] = calls[Len(calls)]
  <2>1. SUFFICES ASSUME calls' # <<>> PROVE calls'[Len(calls')] = calls[Len(calls)]
    OBVIOUS
  <2>2. Len(calls') \in 1..(Len(calls) - 1) /\ Len(calls') + 1 = Len(calls)
    BY <1>2, <1>3, <2>1
  <2> QED BY <1>2, <2>2
<1>9. calls' = <<>> => calls[Len(calls)] = Head(calls)
  <2>1. calls' = <<>> => Len(calls) = 1
    BY <1>2, <1>3
  <2> QED BY <1>2, <2>1
<1> QED BY <1>2, <1>5, <1>6, <1>7, <1>8, <1>9

(* A connection goes on to its next phase.                                 *)
LEMMA PhaseOn ==
  ASSUME BusInv, BusNext, MonInv, NEW c \in Conns, NEW p \in Phases, Goto(c, p), ~In(c, "none"),
         tickets' = tickets \/
           \E t \in Tickets, k \in [status : Statuses, by : Conns \cup {None}] :
             tickets' = [tickets EXCEPT ![t] = k],
         UNCHANGED <<open, acquiring, lease, host, bridge, shown>>
  PROVE  MonInv'
<1>1. tickets' \in [Tickets -> [status : Statuses, by : Conns \cup {None}]]
  BY DEF MonInv, MonTyped
<1> QED BY <1>1, GotoTyped, MonOn DEF MonInv, MonTyped, host

LEMMA NextMonInv ==
  ASSUME BusInv, BusNext, MonInv, [Next]_vars
  PROVE  MonInv'
<1> USE DEF In, Goto, Phases, Opening, CleanUp, Statuses
<1>1. ASSUME NEW c \in Conns, Serve(c) PROVE MonInv'
  <2> USE <1>1 DEF MonInv, MonTyped
  <2>1. CASE Consume(c)
    <3>1. conn[c].ticket \in Tickets
      BY <2>1 DEF Consume, Presented
    <3>2. UNCHANGED <<open, acquiring, lease, host, bridge, shown>> /\ ~In(c, "none")
      BY <2>1 DEF Consume
    <3>3. CASE tickets[conn[c].ticket].status = "issued"
      <4>1. /\ tickets' = [tickets EXCEPT ![conn[c].ticket] = [status |-> "consumed", by |-> c]]
            /\ Goto(c, "bind")
        BY <2>1, <3>3 DEF Consume
      <4>2. [status |-> "consumed", by |-> c] \in [status : Statuses, by : Conns \cup {None}]
        OBVIOUS
      <4> HIDE DEF Goto
      <4> QED BY <3>1, <3>2, <4>1, <4>2, PhaseOn
    <3>4. CASE tickets[conn[c].ticket].status # "issued"
      <4>1. tickets' = tickets /\ Goto(c, "done")
        BY <2>1, <3>4 DEF Consume
      <4> HIDE DEF Goto
      <4> QED BY <3>2, <4>1, PhaseOn
    <3> QED BY <3>3, <3>4
  <2>2. CASE Bind(c) \/ Snapshot(c) \/ SubscribeEvents(c) \/ Watch(c)
    <3>1. /\ UNCHANGED <<open, tickets, acquiring, lease, host, bridge, shown>>
          /\ ~In(c, "none")
          /\ \E p \in {"snapshot", "human", "subscribe", "closing", "stream"} : Goto(c, p)
      <4> HIDE DEF MonInv, MonTyped, Goto
      <4> QED BY <2>2 DEF Bind, Snapshot, SubscribeEvents, Watch, OnlyConn
    <3> HIDE DEF Goto
    <3> QED BY <3>1, PhaseOn
  <2>3. CASE StartStream(c) \/ GiveUp(c) \/ StopStream(c)
    <3>1. PICK p \in {"starting", "live", "ending", "stopping"} : Goto(c, p) /\ ~In(c, "none")
      BY <2>3 DEF StartStream, GiveUp, StopStream
    <3>2. /\ UNCHANGED <<open, tickets, acquiring, lease, streams, cast, bridge, shown>>
          /\ adrift' \in {adrift, adrift \cup {c}}
          /\ \/ calls' = calls
             \/ \E do \in {"start", "stop"} : calls' = Append(calls, Call(do, c))
      BY <2>3 DEF StartStream, GiveUp, StopStream
    <3>3. calls' \in Seq(Jobs)
      <4>1. \A do \in {"start", "stop"} : Call(do, c) \in Jobs
        BY DEF Jobs, Call
      <4> QED BY <3>2, <4>1, JobAdded
    <3> HIDE DEF Goto
    <3> QED BY <3>1, <3>2, <3>3, GotoTyped, MonOn
  <2>4. CASE ReleaseTicket(c)
    <3>1. conn[c].ticket \in Tickets
      BY <2>4 DEF ReleaseTicket, Presented
    <3>2. /\ UNCHANGED <<open, acquiring, lease, host, bridge, shown>>
          /\ ~In(c, "none") /\ Goto(c, "grant")
      BY <2>4 DEF ReleaseTicket
    <3>3. tickets' \in [Tickets -> [status : Statuses, by : Conns \cup {None}]]
      BY <2>4, <3>1 DEF ReleaseTicket
    <3> HIDE DEF Goto
    <3> QED BY <3>2, <3>3, GotoTyped, MonOn DEF host
  <2>5. CASE ReleaseControl(c) \/ UnsubscribeEvents(c)
    <3>1. PICK p \in {"human", "done"} : Goto(c, p) /\ ~In(c, "none")
      BY <2>5 DEF ReleaseControl, UnsubscribeEvents
    <3>2. /\ UNCHANGED <<open, tickets, acquiring, host, bridge, shown>>
          /\ lease' \in {None, lease}
      BY <2>5 DEF ReleaseControl, UnsubscribeEvents
    <3> HIDE DEF Goto
    <3> QED BY <3>1, <3>2, GotoTyped, MonOn DEF host
  <2> QED BY <2>1, <2>2, <2>3, <2>4, <2>5 DEF Serve
<1>2. ASSUME NEW c \in Conns, Disconnect(c) \/ AskControl(c) \/ Acquire(c) \/ GiveBack(c) PROVE MonInv'
  <2> USE DEF MonInv, MonTyped
  <2>1. CASE Disconnect(c)
    <3>1. /\ UNCHANGED <<open, tickets, acquiring, lease, host, bridge, shown>>
          /\ ~In(c, "none") /\ Goto(c, "closing")
      BY <2>1 DEF Disconnect, OnlyConn
    <3> HIDE DEF Goto
    <3> QED BY <3>1, PhaseOn
  <2>2. CASE AskControl(c)  BY <2>2, MonOn DEF AskControl, host
  <2>3. CASE Acquire(c)  BY <2>3, MonOn DEF Acquire, host
  <2>4. CASE GiveBack(c)  BY <2>4, MonOn DEF GiveBack, host
  <2> QED BY <1>2, <2>1, <2>2, <2>3, <2>4
<1>3. ASSUME NEW c \in Conns, Deliver(c) PROVE MonInv'
  <2> DEFINE b == bridge[c]
             e == Head(queue[c])
             room == IF Len(b) = BridgeSize THEN Tail(b) ELSE b
  <2>1. /\ sequence' = sequence
        /\ UNCHANGED <<open, tickets, conn, acquiring, lease, host, shown>>
        /\ bridge' = bridge \/ bridge' = [bridge EXCEPT ![c] = Append(room, e)]
        /\ queue[c] # <<>>
    BY <1>3 DEF Deliver, Run
  <2>2. e \in Items /\ b \in Seq(Items) /\ Len(b) <= BridgeSize /\ BridgeSize \in Nat \ {0}
    <3>1. queue[c] \in Seq(Items)
      BY DEF BusInv, BusTyped, Conns
    <3> QED BY <2>1, <3>1, TailFacts, MonitorAssumption DEF MonInv, MonTyped, BridgeBounded
  <2>3. room \in Seq(Items) /\ Len(room) \in Nat /\ Len(room) < BridgeSize
    <3>1. CASE Len(b) = BridgeSize
      <4>1. b # <<>>
        BY <2>2, <3>1
      <4> QED BY <2>2, <3>1, <4>1, TailFacts
    <3>2. CASE Len(b) # BridgeSize
      BY <2>2, <3>2
    <3> QED BY <3>1, <3>2
  <2>4. Append(room, e) \in Seq(Items) /\ Len(Append(room, e)) <= BridgeSize
    <3> HIDE DEF room, e
    <3>1. Append(room, e) \in Seq(Items) /\ Len(Append(room, e)) = Len(room) + 1
      BY <2>2, <2>3, AppendFacts
    <3> QED BY <2>2, <2>3, <3>1
  <2> HIDE DEF room, e
  <2>5. bridge' \in [Conns -> Seq(Items)] /\ BridgeBounded'
    BY <2>1, <2>4 DEF MonInv, MonTyped, BridgeBounded
  <2> QED BY <2>1, <2>5 DEF MonInv, MonTyped, Presented, Items, host
<1>4. ASSUME NEW c \in Conns, Write(c) PROVE MonInv'
  <2>1. /\ sequence' = sequence
        /\ UNCHANGED <<open, tickets, conn, acquiring, lease, host>>
        /\ bridge' = [bridge EXCEPT ![c] = Tail(@)]
        /\ bridge[c] # <<>>
        /\ shown' = [shown EXCEPT ![conn[c].monitor] = @ \cup {Head(bridge[c])}]
        /\ conn[c].monitor \in Monitors
    BY <1>4 DEF Write, busVars, MonInv, Presented
  <2>2. /\ Tail(bridge[c]) \in Seq(Items) /\ Head(bridge[c]) \in Items
        /\ Len(Tail(bridge[c])) <= BridgeSize
    <3>1. bridge[c] \in Seq(Items) /\ Len(bridge[c]) <= BridgeSize /\ BridgeSize \in Nat
      BY MonitorAssumption DEF MonInv, MonTyped, BridgeBounded
    <3>2. /\ Tail(bridge[c]) \in Seq(Items) /\ Head(bridge[c]) \in Items
          /\ Len(Tail(bridge[c])) = Len(bridge[c]) - 1
          /\ Len(bridge[c]) \in Nat \ {0}
      BY <2>1, <3>1, TailFacts
    <3> QED BY <3>1, <3>2
  <2>3. bridge' \in [Conns -> Seq(Items)] /\ BridgeBounded'
    BY <2>1, <2>2 DEF MonInv, MonTyped, BridgeBounded
  <2>4. shown' \in [Monitors -> SUBSET Items]
    BY <2>1, <2>2 DEF MonInv, MonTyped
  <2> QED BY <2>1, <2>3, <2>4 DEF MonInv, MonTyped, Presented, Items, host
<1>5. ASSUME NEW t \in Tickets, Issue(t) \/ Revoke(t) \/ Expire(t) PROVE MonInv'
  <2>1. /\ UNCHANGED <<open, conn, acquiring, lease, host, bridge, shown>>
        /\ \E s \in Statuses : tickets' = [tickets EXCEPT ![t].status = s]
    BY <1>5 DEF Issue, Revoke, Expire, OnlyTickets, SetStatus
  <2> QED BY <2>1, MonOn DEF MonInv, MonTyped, host
<1>6. ASSUME NEW c \in Conns, NEW m \in Monitors, NEW t \in Tickets, Connect(c, m, t) PROVE MonInv'
  <2>1. /\ UNCHANGED <<open, tickets, acquiring, lease, host, bridge, shown, sequence>>
        /\ conn' = [conn EXCEPT ![c] = [phase |-> "accepted", monitor |-> m, ticket |-> t, stream |-> FALSE]]
    BY <1>6 DEF Connect, OnlyConn, busVars
  <2> QED BY <2>1 DEF MonInv, MonTyped, Presented, BridgeBounded, Items, host
<1>7. ASSUME ScreencastFails PROVE MonInv'
  BY <1>7, MonOn DEF ScreencastFails, MonInv, MonTyped
<1>8. ASSUME CloseSession PROVE MonInv'
  <2>1. Call("close", None) \in Jobs
    BY DEF Jobs
  <2>2. calls' \in Seq(Jobs)
    BY <1>8, <2>1, JobAdded DEF CloseSession
  <2> QED BY <1>8, <2>2, MonOn DEF CloseSession, MonInv, MonTyped
<1>9. ASSUME CloseServed PROVE MonInv'
  <2>1. calls' \in Seq(Jobs)
    BY <1>9, JobServed DEF CloseServed
  <2> QED BY <1>9, <2>1, MonOn DEF CloseServed, MonInv, MonTyped
<1>10. ASSUME StartServed PROVE MonInv'
  <2>1. PICK c \in Conns, ok \in BOOLEAN :
          /\ calls # <<>> /\ calls' = Tail(calls)
          /\ streams' = IF ok THEN streams \cup {c} ELSE streams
          /\ cast' = IF ok /\ streams = {} THEN "running" ELSE cast
          /\ \/ /\ In(c, "starting")
                /\ conn' = [conn EXCEPT ![c] = [@ EXCEPT !.phase = "live", !.stream = ok]]
             \/ conn' = conn
          /\ UNCHANGED <<open, tickets, acquiring, lease, adrift, bridge, shown>>
    BY <1>10 DEF StartServed
  <2>2. calls' \in Seq(Jobs)
    BY <2>1, JobServed
  <2>3. CASE conn' = conn
    BY <2>1, <2>2, <2>3, MonOn DEF MonInv, MonTyped
  <2>4. CASE /\ In(c, "starting")
             /\ conn' = [conn EXCEPT ![c] = [@ EXCEPT !.phase = "live", !.stream = ok]]
    <3>1. "live" \in Phases /\ "live" # "none" /\ ~In(c, "none")
      BY <2>4
    <3> HIDE DEF In, Phases
    <3>2. /\ conn' \in [Conns -> [phase : Phases, monitor : Monitors \cup {None},
                                  ticket : Tickets \cup {None}, stream : BOOLEAN]]
          /\ conn'[c].monitor = conn[c].monitor /\ conn'[c].ticket = conn[c].ticket
          /\ \A d \in Conns \ {c} : conn'[d] = conn[d]
      BY <2>4, <3>1, AnswerFacts
    <3>3. \A d \in Conns : conn'[d].phase = "none" \/
            /\ conn'[d].monitor = conn[d].monitor /\ conn'[d].ticket = conn[d].ticket
            /\ conn[d].phase # "none"
      BY <3>1, <3>2 DEF In
    <3> QED BY <2>1, <2>2, <3>2, <3>3, MonOn DEF MonInv, MonTyped
  <2> QED BY <2>1, <2>3, <2>4
<1>11. ASSUME StopServed PROVE MonInv'
  <2>1. PICK c \in Conns :
          /\ calls # <<>> /\ calls' = Tail(calls)
          /\ streams' = streams \ {c}
          /\ cast' \in {"off", "failed", cast}
          /\ (In(c, "ending") /\ Goto(c, "stopping")) \/ conn' = conn
          /\ UNCHANGED <<open, tickets, acquiring, lease, adrift, bridge, shown>>
    BY <1>11 DEF StopServed
  <2>2. calls' \in Seq(Jobs)
    BY <2>1, JobServed
  <2>3. CASE conn' = conn
    BY <2>1, <2>2, <2>3, MonOn DEF MonInv, MonTyped
  <2>4. CASE In(c, "ending") /\ Goto(c, "stopping")
    <3>1. "stopping" \in Phases /\ ~In(c, "none")
      BY <2>4
    <3> HIDE DEF Goto
    <3> QED BY <2>1, <2>2, <2>4, <3>1, GotoTyped, MonOn DEF MonInv, MonTyped
  <2> QED BY <2>1, <2>3, <2>4
<1>12. ASSUME BusMoves \/ CloseEvents \/ UNCHANGED vars PROVE MonInv'
  BY <1>12, MonOn DEF BusMoves, CloseEvents, vars, monVars, host, MonInv, MonTyped
<1> QED
  BY <1>1, <1>2, <1>3, <1>4, <1>5, <1>6, <1>7, <1>8, <1>9, <1>10, <1>11, <1>12 DEF Next

-----------------------------------------------------------------------------
(* The token of a connection.                                              *)

(* A step that leaves the tickets and the phases of the others alone.      *)
LEMMA NamedOn ==
  ASSUME MonInv, Named, NEW c \in Conns, NEW p \in Phases, tickets' = tickets,
         \A d \in Conns \ {c} : conn'[d] = conn[d],
         conn'[c].phase = p, conn'[c].ticket = conn[c].ticket,
         p \in Phases \ {"none", "accepted", "done"} =>
           conn[c].phase \in Phases \ {"none", "accepted", "done"},
         \/ p \in (Opening \ {"accepted"}) \cup {"live", "closing", "human"}
         \/ conn[c].phase \notin (Opening \ {"accepted"}) \cup {"live", "closing", "human"}
  PROVE  Named'
<1>1. ASSUME NEW d \in Conns PROVE
        /\ conn'[d].phase \in Phases \ {"none", "accepted", "done"} =>
             /\ tickets[conn'[d].ticket].by = d
             /\ tickets[conn'[d].ticket].status \notin {"none", "issued"}
        /\ \A t \in Tickets : tickets[t] = [status |-> "consumed", by |-> d] =>
             /\ conn'[d].ticket = t
             /\ conn'[d].phase \in (Opening \ {"accepted"}) \cup {"live", "closing", "human"}
  <2>1. CASE d = c  BY <2>1 DEF Named
  <2>2. CASE d # c  BY <2>2 DEF Named
  <2> QED BY <2>1, <2>2
<1> QED BY <1>1 DEF Named

LEMMA NextNamed ==
  ASSUME MonInv, Named, [Next]_vars
  PROVE  Named'
<1> USE DEF In, Goto, Phases, Opening, CleanUp
<1> DEFINE Conn == [phase : Phases, monitor : Monitors \cup {None},
                    ticket : Tickets \cup {None}, stream : BOOLEAN]
           Ticket == [status : Statuses, by : Conns \cup {None}]
<1>0. conn \in [Conns -> Conn] /\ tickets \in [Tickets -> Ticket]
  BY DEF MonInv, MonTyped
<1>1. ASSUME NEW c \in Conns, Serve(c) \/ Disconnect(c) PROVE Named'
  <2>1. CASE Consume(c)
    <3> DEFINE t == conn[c].ticket
    <3>1. t \in Tickets /\ conn[c].phase = "accepted"
      BY <2>1 DEF Consume, MonInv, Presented
    <3>2. CASE tickets[t].status # "issued"
      <4>1. tickets' = tickets /\ conn' = [conn EXCEPT ![c].phase = "done"]
        BY <2>1, <3>2 DEF Consume
      <4> QED BY <1>0, <3>1, <4>1, NamedOn
    <3>3. CASE tickets[t].status = "issued"
      <4>1. /\ tickets' = [tickets EXCEPT ![t] = [status |-> "consumed", by |-> c]]
            /\ conn' = [conn EXCEPT ![c].phase = "bind"]
        BY <2>1, <3>3 DEF Consume
      <4>2. /\ tickets'[t] = [status |-> "consumed", by |-> c]
            /\ \A u \in Tickets \ {t} : tickets'[u] = tickets[u]
            /\ conn'[c].phase = "bind" /\ conn'[c].ticket = t
            /\ \A d \in Conns \ {c} : conn'[d] = conn[d]
        BY <1>0, <3>1, <4>1
      <4>3. ASSUME NEW d \in Conns, conn'[d].phase \in Phases \ {"none", "accepted", "done"}
            PROVE  /\ tickets'[conn'[d].ticket].by = d
                   /\ tickets'[conn'[d].ticket].status \notin {"none", "issued"}
        <5>1. CASE d = c  BY <4>2, <5>1
        <5>2. CASE d # c
          <6>1. /\ conn'[d] = conn[d] /\ tickets[conn[d].ticket].status \notin {"none", "issued"}
                /\ tickets[conn[d].ticket].by = d
            BY <4>2, <4>3, <5>2 DEF Named
          <6>2. conn[d].ticket \in Tickets \ {t}
            BY <3>3, <4>3, <6>1 DEF MonInv, Presented
          <6> QED BY <4>2, <6>1, <6>2
        <5> QED BY <5>1, <5>2
      <4>4. ASSUME NEW d \in Conns, NEW u \in Tickets,
                   tickets'[u] = [status |-> "consumed", by |-> d]
            PROVE  /\ conn'[d].ticket = u
                   /\ conn'[d].phase \in (Opening \ {"accepted"}) \cup {"live", "closing", "human"}
        <5>1. CASE u = t
          <6>1. d = c  BY <4>2, <4>4, <5>1
          <6> QED BY <4>2, <5>1, <6>1
        <5>2. CASE u # t
          <6>1. conn[d].ticket = u
                /\ conn[d].phase \in (Opening \ {"accepted"}) \cup {"live", "closing", "human"}
            BY <4>2, <4>4, <5>2 DEF Named
          <6>2. d # c  BY <3>1, <6>1
          <6> QED BY <4>2, <6>1, <6>2
        <5> QED BY <5>1, <5>2
      <4> QED BY <4>3, <4>4 DEF Named
    <3> QED BY <3>2, <3>3
  <2>2. CASE Bind(c)  BY <1>0, <2>2, NamedOn DEF Bind, OnlyConn
  <2>3. CASE Snapshot(c)  BY <1>0, <2>3, NamedOn DEF Snapshot, OnlyConn
  <2>4. CASE SubscribeEvents(c)
    <3>1. /\ tickets' = tickets /\ In(c, "subscribe")
          /\ Goto(c, "closing") \/ Goto(c, "stream")
      BY <2>4 DEF SubscribeEvents
    <3> QED BY <1>0, <3>1, NamedOn
  <2>5. CASE StartStream(c) \/ GiveUp(c) \/ StopStream(c)
    <3>1. PICK p \in {"starting", "live", "ending", "stopping"} :
            /\ Goto(c, p) /\ tickets' = tickets
            /\ \/ p \in {"starting", "live"} /\ conn[c].phase \in {"stream", "starting"}
               \/ p \in {"ending", "stopping"} /\ conn[c].phase \in {"grant", "ending"}
      BY <2>5 DEF StartStream, GiveUp, StopStream
    <3> QED BY <1>0, <3>1, NamedOn
  <2>6. CASE Watch(c)  BY <1>0, <2>6, NamedOn DEF Watch, OnlyConn
  <2>7. CASE ReleaseControl(c)  BY <1>0, <2>7, NamedOn DEF ReleaseControl
  <2>8. CASE ReleaseTicket(c)
    <3> DEFINE t == conn[c].ticket
    <3>1. t \in Tickets /\ conn[c].phase = "human"
      BY <2>8 DEF ReleaseTicket, MonInv, Presented
    <3>2. conn'[c].phase = "grant" /\ conn'[c].ticket = t /\ \A d \in Conns \ {c} : conn'[d] = conn[d]
      BY <1>0, <2>8 DEF ReleaseTicket
    <3>3. \A u \in Tickets : /\ tickets'[u].by = tickets[u].by
                             /\ tickets'[u].status \in {tickets[u].status, "closed"}
                             /\ u # t => tickets'[u] = tickets[u]
      BY <1>0, <2>8, <3>1 DEF ReleaseTicket
    <3>4. tickets'[t] # [status |-> "consumed", by |-> c]
      BY <1>0, <2>8, <3>1 DEF ReleaseTicket
    <3>5. \A u \in Tickets, d \in Conns :
            tickets'[u] = [status |-> "consumed", by |-> d] =>
              tickets[u] = [status |-> "consumed", by |-> d] /\ d # c
      <4> TAKE u \in Tickets, d \in Conns
      <4>1. ASSUME tickets'[u] = [status |-> "consumed", by |-> d]
            PROVE  tickets[u] = [status |-> "consumed", by |-> d]
        <5>1. tickets[u] \in Ticket  BY <1>0
        <5>2. tickets[u].by = d /\ tickets[u].status = "consumed"
          BY <3>3, <4>1
        <5> QED BY <5>1, <5>2
      <4>2. ASSUME tickets'[u] = [status |-> "consumed", by |-> c] PROVE FALSE
        <5>1. u # t  BY <3>4, <4>2
        <5>2. tickets[u] = [status |-> "consumed", by |-> c]
          BY <3>3, <4>2, <5>1
        <5> QED BY <5>1, <5>2 DEF Named
      <4> QED BY <4>1, <4>2
    <3>6. ASSUME NEW d \in Conns, conn'[d].phase \in Phases \ {"none", "accepted", "done"}
          PROVE  /\ tickets'[conn'[d].ticket].by = d
                 /\ tickets'[conn'[d].ticket].status \notin {"none", "issued"}
      <4>1. conn[d].phase \in Phases \ {"none", "accepted", "done"} /\ conn'[d].ticket = conn[d].ticket
        BY <3>1, <3>2, <3>6
      <4>2. conn[d].ticket \in Tickets
        BY <4>1 DEF MonInv, Presented
      <4>3. /\ tickets[conn[d].ticket].by = d
            /\ tickets[conn[d].ticket].status \notin {"none", "issued"}
        BY <4>1 DEF Named
      <4> QED BY <3>3, <4>1, <4>2, <4>3
    <3>7. \A d \in Conns, u \in Tickets : tickets'[u] = [status |-> "consumed", by |-> d] =>
            /\ conn'[d].ticket = u
            /\ conn'[d].phase \in (Opening \ {"accepted"}) \cup {"live", "closing", "human"}
      BY <3>2, <3>5 DEF Named
    <3> QED BY <3>6, <3>7 DEF Named
  <2>10. CASE UnsubscribeEvents(c)  BY <1>0, <2>10, NamedOn DEF UnsubscribeEvents
  <2>11. CASE Disconnect(c)  BY <1>0, <2>11, NamedOn DEF Disconnect, OnlyConn
  <2> QED BY <1>1, <2>1, <2>2, <2>3, <2>4, <2>5, <2>6, <2>7, <2>8, <2>10, <2>11 DEF Serve
<1>2. ASSUME UNCHANGED <<tickets, conn>> PROVE Named'
  BY <1>2 DEF Named
<1>3. ASSUME NEW c \in Conns, AskControl(c) \/ Acquire(c) \/ GiveBack(c) \/ Deliver(c) \/ Write(c)
      PROVE  Named'
  BY <1>2, <1>3 DEF AskControl, Acquire, GiveBack, Deliver, Write
<1>4. ASSUME NEW t \in Tickets, Issue(t) \/ Revoke(t) \/ Expire(t) PROVE Named'
  <2>0. Issue(t) => tickets[t].status = "none"
    <3>1. Issue(t) => Unused # {} /\ t = CHOOSE u \in Unused : TRUE
      BY DEF Issue
    <3>2. Issue(t) => t \in Unused
      BY <3>1
    <3> QED BY <3>2 DEF Unused
  <2>1. PICK s \in {"issued", "revoked", "expired"} :
          tickets' = [tickets EXCEPT ![t].status = s] /\ (s = "issued" => tickets[t].status = "none")
    BY <1>4, <2>0 DEF Issue, Revoke, Expire, SetStatus
  <2>2. conn' = conn
    BY <1>4 DEF Issue, Revoke, Expire, OnlyTickets
  <2>3. /\ tickets'[t].status = s /\ tickets'[t].by = tickets[t].by
        /\ \A u \in Tickets \ {t} : tickets'[u] = tickets[u]
    BY <1>0, <2>1
  <2>4. ASSUME NEW d \in Conns, conn[d].phase \in Phases \ {"none", "accepted", "done"}
        PROVE  /\ tickets'[conn[d].ticket].by = d
               /\ tickets'[conn[d].ticket].status \notin {"none", "issued"}
    <3>1. /\ tickets[conn[d].ticket].by = d
          /\ tickets[conn[d].ticket].status \notin {"none", "issued"}
      BY <2>4 DEF Named
    <3>2. conn[d].ticket \in Tickets
      BY <2>4 DEF MonInv, Presented
    <3> QED BY <2>1, <2>3, <3>1, <3>2
  <2>5. \A u \in Tickets, d \in Conns : tickets'[u] = [status |-> "consumed", by |-> d] =>
          tickets[u] = [status |-> "consumed", by |-> d]
    BY <2>3
  <2>6. \A d \in Conns, u \in Tickets : tickets'[u] = [status |-> "consumed", by |-> d] =>
          /\ conn[d].ticket = u
          /\ conn[d].phase \in (Opening \ {"accepted"}) \cup {"live", "closing", "human"}
    BY <2>5 DEF Named
  <2> HIDE DEF MonInv
  <2> QED BY <2>2, <2>4, <2>6 DEF Named
<1>5. ASSUME NEW c \in Conns, NEW m \in Monitors, NEW t \in Tickets, Connect(c, m, t) PROVE Named'
  <2>1. /\ tickets' = tickets /\ conn[c].phase = "none" /\ conn'[c].phase = "accepted"
        /\ \A d \in Conns \ {c} : conn'[d] = conn[d]
    BY <1>0, <1>5 DEF Connect, OnlyConn
  <2>2. \A u \in Tickets : tickets[u] # [status |-> "consumed", by |-> c]
    BY <2>1 DEF Named
  <2> QED BY <2>1, <2>2 DEF Named
<1>6. ASSUME \/ ScreencastFails \/ CloseSession \/ CloseServed \/ CloseEvents \/ BusMoves
             \/ UNCHANGED vars
      PROVE Named'
  BY <1>2, <1>6 DEF ScreencastFails, CloseSession, CloseServed, CloseEvents, BusMoves, vars, monVars
<1>7. ASSUME StartServed PROVE Named'
  <2>1. PICK c \in Conns, ok \in BOOLEAN :
          /\ tickets' = tickets
          /\ \/ /\ In(c, "starting")
                /\ conn' = [conn EXCEPT ![c] = [@ EXCEPT !.phase = "live", !.stream = ok]]
             \/ conn' = conn
    BY <1>7 DEF StartServed
  <2>2. CASE conn' = conn
    BY <1>2, <2>1, <2>2
  <2>3. CASE /\ In(c, "starting")
             /\ conn' = [conn EXCEPT ![c] = [@ EXCEPT !.phase = "live", !.stream = ok]]
    <3>1. conn'[c].phase = "live" /\ conn'[c].ticket = conn[c].ticket
      BY <1>0, <2>3
    <3>2. \A d \in Conns \ {c} : conn'[d] = conn[d]
      BY <1>0, <2>3
    <3> QED BY <2>1, <2>3, <3>1, <3>2, NamedOn
  <2> QED BY <2>1, <2>2, <2>3
<1>8. ASSUME StopServed PROVE Named'
  <2>1. PICK c \in Conns :
          tickets' = tickets /\ ((In(c, "ending") /\ Goto(c, "stopping")) \/ conn' = conn)
    BY <1>8 DEF StopServed
  <2>2. CASE conn' = conn
    BY <1>2, <2>1, <2>2
  <2>3. CASE In(c, "ending") /\ Goto(c, "stopping")
    BY <1>0, <2>1, <2>3, NamedOn
  <2> QED BY <2>1, <2>2, <2>3
<1> QED BY <1>1, <1>3, <1>4, <1>5, <1>6, <1>7, <1>8 DEF Next

-----------------------------------------------------------------------------
(* The subscription and the stream of a connection.                        *)

(* A connection that goes on, and leaves the worker alone.                 *)
LEMMA HoldingOn ==
  ASSUME MonInv, Holding, NEW c \in Conns, NEW p \in Phases, Goto(c, p), ~In(c, "starting"),
         UNCHANGED <<open, streams, cast, calls, adrift>>,
         subscribers' \subseteq subscribers \cup {c},
         c \in subscribers' => p \in {"stream", "starting", "live"} \cup CleanUp,
         \/ p \in {"live", "closing", "human", "grant"}
         \/ conn[c].phase \notin {"live", "closing", "human", "grant"}
         \/ ~conn[c].stream
  PROVE  Holding'
<1> DEFINE Row == [phase : Phases, monitor : Monitors \cup {None},
                   ticket : Tickets \cup {None}, stream : BOOLEAN]
<1>1. conn \in [Conns -> Row] /\ conn' = [conn EXCEPT ![c].phase = p] /\ streams \subseteq Conns
  BY DEF MonInv, MonTyped, Goto
<1>2. /\ conn'[c].phase = p /\ conn'[c].stream = conn[c].stream
      /\ \A d \in Conns \ {c} : conn'[d] = conn[d]
  BY <1>1
<1>3. \A d \in Conns : Ending(d) => Ending(d)'
  BY DEF Ending
<1>4. \A d \in streams' : Held(d)'
  BY <1>1, <1>2, <1>3 DEF Holding, Held
<1>5. StartsAwaited' /\ CloseIsLast'
  BY <1>2 DEF Holding, StartsAwaited, CloseIsLast, In
<1>6. \A d \in subscribers' : conn'[d].phase \in {"stream", "starting", "live"} \cup CleanUp
  <2>1. TAKE d \in subscribers'
  <2>2. CASE d = c  BY <1>2, <2>1, <2>2
  <2>3. CASE d # c
    <3>1. d \in subscribers /\ conn[d].phase \in {"stream", "starting", "live"} \cup CleanUp
      BY <2>1, <2>3 DEF Holding
    <3>2. conn' = [conn EXCEPT ![c].phase = p] /\ DOMAIN conn = Conns
      BY <1>1
    <3>3. CASE d \in Conns  BY <1>2, <2>3, <3>1, <3>3
    <3>4. CASE d \notin Conns  BY <2>3, <3>1, <3>2, <3>4
    <3> QED BY <3>3, <3>4
  <2> QED BY <2>2, <2>3
<1> QED BY <1>4, <1>5, <1>6 DEF Holding

LEMMA NextHolding ==
  ASSUME BusInv, MonInv, Holding, [Next]_vars
  PROVE  Holding'
<1> USE DEF In, Opening, CleanUp, Phases
<1> DEFINE Conn == [phase : Phases, monitor : Monitors \cup {None},
                    ticket : Tickets \cup {None}, stream : BOOLEAN]
<1>0. conn \in [Conns -> Conn] /\ subscribers \subseteq Conns /\ streams \subseteq Conns
  BY DEF MonInv, MonTyped, BusInv, BusTyped, Conns
<1>a. \A do \in {"start", "stop"}, c \in Conns :
        /\ Call(do, c) \in Jobs /\ Call(do, c) # Call("close", None)
        /\ \A d \in Conns : Call("start", d) # Call("stop", c)
        /\ \A d \in Conns : Call(do, d) = Call(do, c) => d = c
  BY MonitorAssumption DEF Jobs, Call
<1>b. Call("close", None) \in Jobs
  BY DEF Jobs
<1>c. CASE UNCHANGED <<subscribers, conn, open, host>>
  <2>1. \A d \in Conns : Held(d) => Held(d)'
    BY <1>c DEF Held, Ending, host
  <2> QED BY <1>0, <1>c, <2>1 DEF Holding, StartsAwaited, CloseIsLast, host
<1>1. ASSUME NEW c \in Conns, Serve(c) \/ Disconnect(c) PROVE Holding'
  <2>1. CASE \/ Consume(c) \/ Bind(c) \/ Snapshot(c) \/ Watch(c) \/ ReleaseControl(c)
             \/ ReleaseTicket(c) \/ Disconnect(c)
    <3>1. /\ UNCHANGED <<subscribers, open, streams, cast, calls, adrift>>
          /\ \E p \in Phases : /\ Goto(c, p)
               /\ \/ conn[c].phase = "accepted" /\ p \in {"bind", "done"}
                  \/ conn[c].phase = "bind" /\ p \in {"snapshot", "human"}
                  \/ conn[c].phase = "snapshot" /\ p \in {"subscribe", "closing"}
                  \/ conn[c].phase \in {"live", "closing", "human"} /\ p \in {"closing", "human", "grant"}
      BY <2>1 DEF Consume, Bind, Snapshot, Watch, ReleaseControl, ReleaseTicket, Disconnect, OnlyConn,
         busVars, host
    <3>2. c \in subscribers => conn[c].phase \in {"stream", "starting", "live"} \cup CleanUp
      BY DEF Holding
    <3> HIDE DEF Goto
    <3> QED BY <3>1, <3>2, HoldingOn
  <2>2. CASE SubscribeEvents(c)
    <3>1. /\ UNCHANGED <<open, streams, cast, calls, adrift>> /\ In(c, "subscribe")
          /\ \/ Goto(c, "closing") /\ subscribers' = subscribers
             \/ Goto(c, "stream") /\ subscribers' = subscribers \cup {c}
      BY <2>2 DEF SubscribeEvents, Subscribe, busVars, host
    <3>2. \E p \in {"closing", "stream"} : Goto(c, p) /\ subscribers' \subseteq subscribers \cup {c}
      BY <3>1
    <3> QED BY <3>1, <3>2, HoldingOn
  <2>3. CASE UnsubscribeEvents(c)
    <3>1. /\ UNCHANGED <<open, streams, cast, calls, adrift>> /\ In(c, "stopping") /\ Goto(c, "done")
          /\ subscribers' = subscribers \ {c}
      BY <2>3 DEF UnsubscribeEvents, Unsubscribe, host
    <3> QED BY <3>1, HoldingOn
  <2>4. CASE StartStream(c)
    <3>1. UNCHANGED <<subscribers, open, streams, cast, adrift>> /\ In(c, "stream")
      BY <2>4 DEF StartStream, busVars
    <3>2. CASE ~open
      BY <2>4, <3>1, <3>2, HoldingOn DEF StartStream
    <3>3. CASE open
      <4>1. calls' = Append(calls, Call("start", c)) /\ Goto(c, "starting")
        BY <2>4, <3>3 DEF StartStream
      <4>2. conn'[c].phase = "starting" /\ \A d \in Conns \ {c} : conn'[d] = conn[d]
        BY <1>0, <4>1 DEF Goto
      <4>3. /\ \A i \in DOMAIN calls : i \in DOMAIN calls' /\ calls'[i] = calls[i]
            /\ \A i \in DOMAIN calls' :
                 \/ calls'[i] = Call("start", c) /\ i = Len(calls')
                 \/ i \in DOMAIN calls /\ calls'[i] = calls[i]
        BY <1>a, <4>1, JobAdded
      <4>4. \A d \in Conns : Ending(d) => Ending(d)'
        BY <4>3 DEF Ending
      <4>5. \A d \in streams' : Held(d)'
        BY <1>0, <3>1, <4>2, <4>4 DEF Holding, Held
      <4>6. StartsAwaited'
        BY <1>a, <2>4, <3>1, <4>2, <4>3 DEF Holding, StartsAwaited, LockFree, StartStream
      <4>7. CloseIsLast'
        BY <3>1, <3>3 DEF CloseIsLast
      <4>8. \A d \in subscribers' : conn'[d].phase \in {"stream", "starting", "live"} \cup CleanUp
        BY <1>0, <3>1, <4>2 DEF Holding
      <4> QED BY <3>1, <4>5, <4>6, <4>7, <4>8 DEF Holding
    <3> QED BY <3>2, <3>3
  <2>5. CASE GiveUp(c)
    <3>1. UNCHANGED <<subscribers, open, streams, cast, calls>>
      BY <2>5 DEF GiveUp, busVars
    <3>2. CASE In(c, "ending") /\ Goto(c, "stopping") /\ UNCHANGED adrift
      BY <3>1, <3>2, HoldingOn
    <3>3. CASE In(c, "starting") /\ Goto(c, "live") /\ adrift' = adrift \cup {c}
      <4>1. conn'[c].phase = "live" /\ \A d \in Conns \ {c} : conn'[d] = conn[d]
        BY <1>0, <3>3 DEF Goto
      <4>2. \A d \in Conns : Ending(d) => Ending(d)'
        BY <3>1 DEF Ending
      <4>3. \A d \in streams' : Held(d)'
        BY <1>0, <3>1, <3>3, <4>1, <4>2 DEF Holding, Held
      <4>4. StartsAwaited' /\ CloseIsLast'
        BY <1>0, <3>1, <3>3, <4>1 DEF Holding, StartsAwaited, CloseIsLast
      <4>5. \A d \in subscribers' : conn'[d].phase \in {"stream", "starting", "live"} \cup CleanUp
        BY <1>0, <3>1, <4>1 DEF Holding
      <4> QED BY <3>1, <4>3, <4>4, <4>5 DEF Holding
    <3> QED BY <2>5, <3>2, <3>3 DEF GiveUp
  <2>6. CASE StopStream(c)
    <3>1. UNCHANGED <<subscribers, open, streams, cast, adrift>> /\ In(c, "grant")
      BY <2>6 DEF StopStream, busVars
    <3>2. CASE conn[c].stream /\ open
      <4>1. calls' = Append(calls, Call("stop", c)) /\ Goto(c, "ending")
        BY <2>6, <3>2 DEF StopStream
      <4>2. conn'[c].phase = "ending" /\ \A d \in Conns \ {c} : conn'[d] = conn[d]
        BY <1>0, <4>1 DEF Goto
      <4>3. /\ \A i \in DOMAIN calls : i \in DOMAIN calls' /\ calls'[i] = calls[i]
            /\ \A i \in DOMAIN calls' :
                 \/ calls'[i] = Call("stop", c) /\ i = Len(calls')
                 \/ i \in DOMAIN calls /\ calls'[i] = calls[i]
            /\ \E i \in DOMAIN calls' : calls'[i] = Call("stop", c)
        BY <1>a, <4>1, JobAdded
      <4>4. (\A d \in Conns : Ending(d) => Ending(d)') /\ Ending(c)'
        BY <4>3 DEF Ending
      <4>5. \A d \in streams' : Held(d)'
        BY <1>0, <3>1, <4>2, <4>4 DEF Holding, Held
      <4>6. StartsAwaited'
        BY <1>a, <2>6, <3>1, <3>2, <4>2, <4>3 DEF Holding, StartsAwaited, LockFree, StopStream
      <4>7. CloseIsLast'
        BY <3>1, <3>2 DEF CloseIsLast
      <4>8. \A d \in subscribers' : conn'[d].phase \in {"stream", "starting", "live"} \cup CleanUp
        BY <1>0, <3>1, <4>2 DEF Holding
      <4> QED BY <3>1, <4>5, <4>6, <4>7, <4>8 DEF Holding
    <3>3. CASE ~(conn[c].stream /\ open)
      <4>1. Goto(c, "stopping") /\ calls' = calls
        BY <2>6, <3>3 DEF StopStream
      <4>2. CASE ~conn[c].stream
        BY <3>1, <4>1, <4>2, HoldingOn
      <4>3. CASE ~open
        <5>1. conn'[c].phase = "stopping" /\ \A d \in Conns \ {c} : conn'[d] = conn[d]
          BY <1>0, <4>1 DEF Goto
        <5>2. streams # {} => \A d \in Conns : Ending(d)'
          <6>1. calls \in Seq(Jobs)
            BY DEF MonInv, MonTyped
          <6>2. calls # <<>> => Len(calls) \in DOMAIN calls
            BY <6>1
          <6> QED BY <4>1, <4>3, <6>2 DEF Holding, CloseIsLast, Ending
        <5>3. \A d \in streams' : Held(d)'
          BY <1>0, <3>1, <5>2 DEF Held
        <5>4. StartsAwaited' /\ CloseIsLast'
          BY <3>1, <4>1, <5>1 DEF Holding, StartsAwaited, CloseIsLast
        <5>5. \A d \in subscribers' : conn'[d].phase \in {"stream", "starting", "live"} \cup CleanUp
          BY <1>0, <3>1, <5>1 DEF Holding
        <5> QED BY <3>1, <5>3, <5>4, <5>5 DEF Holding
      <4> QED BY <3>3, <4>2, <4>3
    <3> QED BY <3>2, <3>3
  <2> QED BY <1>1, <2>1, <2>2, <2>3, <2>4, <2>5, <2>6 DEF Serve
<1>2. ASSUME NEW c \in Conns, AskControl(c) \/ Acquire(c) \/ GiveBack(c) \/ Deliver(c) \/ Write(c)
      PROVE  Holding'
  BY <1>c, <1>2 DEF AskControl, Acquire, GiveBack, Deliver, Write, Run, busVars
<1>3. ASSUME NEW t \in Tickets, Issue(t) \/ Revoke(t) \/ Expire(t) PROVE Holding'
  BY <1>c, <1>3 DEF Issue, Revoke, Expire, OnlyTickets, busVars
<1>4. ASSUME NEW c \in Conns, NEW m \in Monitors, NEW t \in Tickets, Connect(c, m, t) PROVE Holding'
  <2>1. /\ UNCHANGED <<subscribers, open, streams, cast, calls, adrift>> /\ conn[c].phase = "none"
        /\ \A d \in Conns \ {c} : conn'[d] = conn[d]
    BY <1>0, <1>4 DEF Connect, OnlyConn, busVars, host
  <2>2. \A d \in Conns : Held(d) => Held(d)'
    BY <2>1 DEF Held, Ending
  <2>3. StartsAwaited' /\ CloseIsLast'
    BY <2>1 DEF Holding, StartsAwaited, CloseIsLast
  <2> QED BY <1>0, <2>1, <2>2, <2>3 DEF Holding
<1>5. ASSUME ScreencastFails PROVE Holding'
  <2>1. UNCHANGED <<subscribers, conn, open, streams, calls, adrift>> /\ cast' = "failed"
    BY <1>5 DEF ScreencastFails, busVars
  <2>2. \A d \in Conns : Held(d) => Held(d)'
    BY <2>1 DEF Held, Ending
  <2> QED BY <1>0, <2>1, <2>2 DEF Holding, StartsAwaited, CloseIsLast
<1>6. ASSUME CloseSession PROVE Holding'
  <2>1. /\ UNCHANGED <<subscribers, conn, streams, cast, adrift>>
        /\ calls' = Append(calls, Call("close", None))
    BY <1>6 DEF CloseSession, busVars
  <2>2. /\ calls' # <<>> /\ calls'[Len(calls')] = Call("close", None)
        /\ \A i \in DOMAIN calls : i \in DOMAIN calls' /\ calls'[i] = calls[i]
        /\ \A i \in DOMAIN calls' :
             \/ calls'[i] = Call("close", None) /\ i = Len(calls')
             \/ i \in DOMAIN calls /\ calls'[i] = calls[i]
    BY <1>b, <2>1, JobAdded
  <2>3. \A d \in Conns : Held(d) => Held(d)'
    BY <2>1, <2>2 DEF Held, Ending
  <2>4. StartsAwaited' /\ CloseIsLast'
    BY <1>6, <1>a, <2>1, <2>2 DEF Holding, StartsAwaited, CloseIsLast, CloseSession, LockFree
  <2> QED BY <1>0, <2>1, <2>3, <2>4 DEF Holding
<1>7. ASSUME CloseServed PROVE Holding'
  <2>1. /\ UNCHANGED <<subscribers, conn, open, adrift>> /\ streams' = {} /\ cast' = "off"
        /\ calls # <<>> /\ calls' = Tail(calls)
    BY <1>7 DEF CloseServed, busVars
  <2>2. StartsAwaited' /\ CloseIsLast'
    BY <2>1, JobServed DEF Holding, StartsAwaited, CloseIsLast
  <2> QED BY <1>0, <2>1, <2>2 DEF Holding
<1>8. ASSUME StartServed PROVE Holding'
  <2>1. PICK c \in Conns, ok \in BOOLEAN :
          /\ calls # <<>> /\ Head(calls) = Call("start", c) /\ calls' = Tail(calls)
          /\ streams' = IF ok THEN streams \cup {c} ELSE streams
          /\ cast' = IF ok /\ streams = {} THEN "running" ELSE cast
          /\ conn' = IF In(c, "starting")
                     THEN [conn EXCEPT ![c] = [@ EXCEPT !.phase = "live", !.stream = ok]] ELSE conn
          /\ UNCHANGED <<subscribers, open, adrift>>
    BY <1>8 DEF StartServed, busVars
  <2>2. /\ calls[1] = Call("start", c)
        /\ \A i \in DOMAIN calls' : i + 1 \in DOMAIN calls /\ calls'[i] = calls[i + 1]
        /\ \A i \in DOMAIN calls : i = 1 \/ (i - 1 \in DOMAIN calls' /\ calls'[i - 1] = calls[i])
        /\ \A i \in DOMAIN calls' : i + 1 = Len(calls) => i = Len(calls')
        /\ Len(calls) = 1 => DOMAIN calls' = {}
        /\ IF calls' = <<>> THEN calls[Len(calls)] = Call("start", c)
           ELSE calls'[Len(calls')] = calls[Len(calls)]
        /\ 1 \in DOMAIN calls
    BY <2>1, JobServed
  <2>3. (In(c, "starting") /\ Len(calls) = 1) \/ c \in adrift
    BY <2>2 DEF Holding, StartsAwaited
  <2>4. /\ \A d \in Conns \ {c} : conn'[d] = conn[d]
        /\ IF In(c, "starting") THEN conn'[c].phase = "live" /\ conn'[c].stream = ok
           ELSE conn'[c] = conn[c]
    BY <1>0, <2>1
  <2>5. \A d \in Conns : Ending(d) => Ending(d)'
    BY <1>a, <2>2 DEF Ending
  <2>6. \A d \in streams' : Held(d)'
    <3>1. TAKE d \in streams'
    <3>2. CASE d = c
      <4>1. CASE c \in adrift  BY <2>1, <3>2, <4>1 DEF Held
      <4>2. CASE c \notin adrift
        <5>1. In(c, "starting") /\ conn'[c].phase = "live" /\ conn'[c].stream = ok
          BY <2>3, <2>4, <4>2
        <5>2. CASE ok  BY <3>2, <5>1, <5>2 DEF Held
        <5>3. CASE ~ok
          <6>1. Held(c)  BY <2>1, <3>1, <3>2, <5>3 DEF Holding
          <6>2. Ending(c)  BY <4>2, <5>1, <6>1 DEF Held
          <6> QED BY <2>5, <3>2, <6>2 DEF Held
        <5> QED BY <5>2, <5>3
      <4> QED BY <4>1, <4>2
    <3>3. CASE d # c
      <4>1. d \in streams /\ d \in Conns /\ Held(d)
        BY <1>0, <2>1, <3>1, <3>3 DEF Holding
      <4> QED BY <2>1, <2>4, <2>5, <3>3, <4>1 DEF Held
    <3> QED BY <3>2, <3>3
  <2>7. StartsAwaited'
    <3>1. ASSUME NEW i \in DOMAIN calls', NEW d \in Conns, calls'[i] = Call("start", d)
          PROVE  d \in adrift' \/ (conn'[d].phase = "starting" /\ i = Len(calls'))
      <4>1. (In(d, "starting") /\ i = Len(calls')) \/ d \in adrift
        BY <2>2, <3>1 DEF Holding, StartsAwaited
      <4>2. d = c => c \in adrift
        BY <2>2, <2>3, <3>1
      <4> QED BY <2>1, <2>4, <4>1, <4>2
    <3> QED BY <3>1 DEF StartsAwaited
  <2>8. CloseIsLast'
    BY <1>a, <2>1, <2>2 DEF Holding, CloseIsLast
  <2>9. \A d \in subscribers' : conn'[d].phase \in {"stream", "starting", "live"} \cup CleanUp
    BY <1>0, <2>1, <2>4 DEF Holding
  <2>10. streams' = {} => cast' # "running"
    BY <2>1 DEF Holding
  <2> QED BY <2>6, <2>7, <2>8, <2>9, <2>10 DEF Holding
<1>9. ASSUME StopServed PROVE Holding'
  <2>1. PICK c \in Conns :
          /\ calls # <<>> /\ Head(calls) = Call("stop", c) /\ calls' = Tail(calls)
          /\ streams' = streams \ {c}
          /\ cast' \in IF streams = {c} /\ cast = "running" THEN {"off", "failed"} ELSE {cast}
          /\ conn' = IF In(c, "ending") THEN [conn EXCEPT ![c].phase = "stopping"] ELSE conn
          /\ UNCHANGED <<subscribers, open, adrift>>
    BY <1>9 DEF StopServed, busVars
  <2>2. /\ calls[1] = Call("stop", c)
        /\ \A i \in DOMAIN calls' : i + 1 \in DOMAIN calls /\ calls'[i] = calls[i + 1]
        /\ \A i \in DOMAIN calls : i = 1 \/ (i - 1 \in DOMAIN calls' /\ calls'[i - 1] = calls[i])
        /\ \A i \in DOMAIN calls' : i + 1 = Len(calls) => i = Len(calls')
        /\ Len(calls) = 1 => DOMAIN calls' = {}
        /\ IF calls' = <<>> THEN calls[Len(calls)] = Call("stop", c)
           ELSE calls'[Len(calls')] = calls[Len(calls)]
        /\ 1 \in DOMAIN calls
    BY <2>1, JobServed
  <2>3. /\ \A d \in Conns \ {c} : conn'[d] = conn[d]
        /\ IF In(c, "ending") THEN conn'[c].phase = "stopping" ELSE conn'[c] = conn[c]
    BY <1>0, <2>1
  <2>4. \A d \in Conns \ {c} : Ending(d) => Ending(d)'
    BY <1>a, <2>2 DEF Ending
  <2>5. \A d \in streams' : Held(d)'
    BY <1>0, <2>1, <2>3, <2>4 DEF Holding, Held
  <2>6. StartsAwaited'
    BY <2>1, <2>2, <2>3 DEF Holding, StartsAwaited
  <2>7. CloseIsLast'
    BY <1>a, <2>1, <2>2 DEF Holding, CloseIsLast
  <2>8. \A d \in subscribers' : conn'[d].phase \in {"stream", "starting", "live"} \cup CleanUp
    BY <1>0, <2>1, <2>3 DEF Holding
  <2>9. streams' = {} => cast' # "running"
    BY <1>0, <2>1 DEF Holding
  <2> QED BY <2>5, <2>6, <2>7, <2>8, <2>9 DEF Holding
<1>10. ASSUME CloseEvents PROVE Holding'
  <2>1. UNCHANGED <<conn, open, streams, cast, calls, adrift>> /\ subscribers' = {}
    BY <1>10 DEF CloseEvents, CloseBus, monVars, host
  <2>2. \A d \in Conns : Held(d) => Held(d)'
    BY <2>1 DEF Held, Ending
  <2> QED BY <1>0, <2>1, <2>2 DEF Holding, StartsAwaited, CloseIsLast
<1>11. ASSUME BusMoves PROVE Holding'
  BY <1>c, <1>11 DEF BusMoves, monVars, Publish, BusStep, Put, TakeOldest, PutAgain
<1>12. CASE UNCHANGED vars
  BY <1>c, <1>12 DEF vars, busVars, monVars
<1> QED
  BY <1>1, <1>2, <1>3, <1>4, <1>5, <1>6, <1>7, <1>8, <1>9, <1>10, <1>11, <1>12 DEF Next

-----------------------------------------------------------------------------
(* The invariant of the Monitor's connections and of the bus below them.    *)
Inv == BusInv /\ TakesFromFull /\ NothingLost /\ Once /\ MonInv /\ Named /\ Holding

LEMMA Invariant == Spec => []Inv
<1>1. Init => Inv
  BY InitMonInv DEF Inv
<1>2. Inv /\ [Next]_vars => Inv'
  BY NextIsBusNext, BusNextInv, BusLost, BusOnce, NextMonInv, NextNamed, NextHolding DEF Inv
<1> QED BY <1>1, <1>2, PTL DEF Spec

(* TypeCorrect: the bus, the tickets, the connections and their queues     *)
(* keep their shape, and no queue passes its bound, for any number of      *)
(* publishers, subscribers, Monitors and tickets.                          *)
THEOREM TypeCorrect == Spec => []TypeOK
<1>1. Inv => TypeOK
  BY DEF Inv, BusInv, BusTyped, QueueBounded, MonInv, MonTyped, BridgeBounded, TypeOK,
     Conns, Phases
<1> QED BY <1>1, Invariant, PTL

(* ReplayAndLive: a subscriber that was never full has got, or will get,   *)
(* every event from the one it asked for on: what the journal replays and  *)
(* what is published meanwhile leave no gap.                               *)
THEOREM ReplayAndLive == Spec => []NothingLost
<1>1. Inv => NothingLost
  BY DEF Inv
<1> QED BY <1>1, Invariant, PTL

(* NeverTwice: no event is in a subscriber's queue, or on its way to it, a *)
(* second time.                                                            *)
THEOREM NeverTwice == Spec => []NothingTwice
<1>1. Inv => NothingTwice
  BY OnceMeansTwiceNever DEF Inv
<1> QED BY <1>1, Invariant, PTL

(* OneConnection: the token of a ticket authenticates one connection, even *)
(* when the ticket is revoked or expires while it is used.                 *)
THEOREM OneConnection == Spec => []TokenUsedOnce
<1>1. ASSUME Inv, NEW c \in Conns, NEW d \in Conns,
             conn[c].ticket = conn[d].ticket, c # d,
             conn[c].phase \in (Opening \ {"accepted"}) \cup {"live"}
      PROVE  conn[d].phase \in {"none", "accepted", "done"}
  <2>1. conn[c].phase \in Phases \ {"none", "accepted", "done"} /\ conn[d].phase \in Phases
    BY <1>1 DEF Inv, MonInv, MonTyped, Phases, Opening, CleanUp
  <2>2. tickets[conn[c].ticket].by = c
    BY <1>1, <2>1 DEF Inv, Named
  <2>3. conn[d].phase \in Phases \ {"none", "accepted", "done"} => tickets[conn[d].ticket].by = d
    BY <1>1 DEF Inv, Named
  <2> QED BY <1>1, <2>1, <2>2, <2>3
<1>2. Inv => TokenUsedOnce
  BY <1>1 DEF TokenUsedOnce
<1> QED BY <1>2, Invariant, PTL

(* ReleasesAll: a connection that is over holds no ticket, subscription or *)
(* stream, and no screencast runs for nobody.                              *)
THEOREM ReleasesAll == Spec => []EndedHoldsNothing
<1>1. Inv => EndedHoldsNothing
  BY DEF Inv, Named, Holding, Held, EndedHoldsNothing, In, Opening, CleanUp
<1> QED BY <1>1, Invariant, PTL
=============================================================================
