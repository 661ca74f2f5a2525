-------------------------- MODULE EventStreamProofs --------------------------
(* Theorems about EventStream, for every number of threads, connections and  *)
(* operations and every bound of the queues.                                 *)
EXTENDS EventStream, LibraryLemmas

-----------------------------------------------------------------------------
(* The hub *)

Delivery == [to : Conns, event : Event]

HubTyped ==
    /\ todo \in [Threads -> Seq(Delivery)]
    /\ stage \in [Threads -> Stages]
    /\ clients \in Seq(Conns) /\ IsInjective(clients)
    /\ queue \in [Conns -> Seq(Event)]
    /\ \A c \in Conns : Len(queue[c]) <= QueueMax

RestTyped ==
    /\ holder \in Threads \cup {Nobody}
    /\ currentOp \in Ops \cup {NoOp}
    /\ pc \in [Threads -> {"idle", "named", "body", "told"}]
    /\ phase \in [Conns -> {"closed", "registered", "stream"}]
    /\ listening \in Conns \cup {Nobody}
    /\ shown \in Ops \cup {NoOp}
    /\ answers \subseteq Answer
    /\ misled \in BOOLEAN
    /\ filled \subseteq Conns

\* A client has a handler thread.
ClientsServed == \A c \in ToSet(clients) : phase[c] # "closed"

\* A thread has nothing left of a publication that is over.
PutFirst == \A t \in Threads : todo[t] = << >> => stage[t] = "put"

\* The poison of a dropped client goes to nobody the hub still serves.
Dropping(t, c) == todo[t] # << >> /\ Client(t) = c /\ stage[t] \in {"take", "poison"}
DroppedIsGone == \A t \in Threads, c \in Conns : Dropping(t, c) => c \notin ToSet(clients)

HubInv == HubTyped /\ RestTyped /\ ClientsServed /\ PutFirst /\ DroppedIsGone

(* The operations *)

Alone == \A t \in Threads : pc[t] # "idle" => holder = t

\* The events that change what the page shows.
Level(e) == ~ e.step /\ e.status \in {"start", "done"}

Quiet(q) == \A k \in 1 .. Len(q) : ~ Level(q[k])

\* Who does not hold the rig lock says nothing of operations; in the body of
\* one, its start is all that may still be on its way.
Says ==
    \A t \in Threads : \A k \in 1 .. Len(todo[t]) :
        /\ pc[t] = "idle" => ~ Level(todo[t][k].event)
        /\ pc[t] = "body" => todo[t][k].event = OpStart(currentOp) \/ ~ Level(todo[t][k].event)
        /\ pc[t] # "named"

\* The start of the operation is among the deliveries left to t.
Announcing(t, c) ==
    \E k \in 1 .. Len(todo[t]) : todo[t][k] = [to |-> c, event |-> OpStart(currentOp)]

\* It is the last in the queue that matters.
Waiting(c) ==
    \E k \in 1 .. Len(queue[c]) :
        /\ queue[c][k] = OpStart(currentOp)
        /\ \A l \in k + 1 .. Len(queue[c]) : ~ Level(queue[c][l])

\* Or the page has it, from the stream or from its snapshot, and an answer that
\* would undo it is a late one.
Knows == (misled \/ shown = currentOp) /\ \A a \in answers : a.late \/ a.op = currentOp
Seen(c) == Quiet(queue[c]) /\ (phase[c] = "stream" => Knows)

StartReaches ==
    \A t \in Threads, c \in Conns :
        pc[t] = "body" /\ listening = c /\ c \in ToSet(clients)
        => Announcing(t, c) \/ Waiting(c) \/ Seen(c)

BusyInv == Alone /\ Says /\ StartReaches

(* The clients that the hub drops *)

\* The poison is in the queue, or a thread has still to put it there.
Poisoned ==
    \A c \in Conns : phase[c] # "closed" /\ c \notin ToSet(clients) /\ c \notin filled =>
        Stale \in ToSet(queue[c]) \/ \E t \in Threads : Dropping(t, c)

\* The place made for the poison is still there, or has the poison of another.
Room ==
    \A t \in Threads, c \in Conns :
        Dropping(t, c) /\ stage[t] = "poison" /\ c \notin filled =>
            Len(queue[c]) < QueueMax \/ Stale \in ToSet(queue[c])

PoisonInv == Poisoned /\ Room

-----------------------------------------------------------------------------
(* What the operators of the hub return *)

LEMMA EventsTyped ==
    /\ \A op \in Ops \cup {NoOp} : {OpStart(op), OpDone(op), StepDone(op)} \subseteq Event
    /\ Other \in Event /\ Stale \in Event
BY DEF OpStart, OpDone, StepDone, Other, Stale, Event

\* The first of the deliveries of a thread.
LEMMA FirstDelivery ==
    ASSUME HubTyped, NEW t \in Threads, todo[t] # << >>
    PROVE  /\ Client(t) \in Conns /\ Head(todo[t]).event \in Event
           /\ Head(todo[t]) = [to |-> Client(t), event |-> Head(todo[t]).event]
           /\ Tail(todo[t]) \in Seq(Delivery)
           /\ ToSet(todo[t]) = ToSet(Tail(todo[t])) \cup {Head(todo[t])}
<1>1. todo[t] \in Seq(Delivery)
  BY DEF HubTyped
<1>2. Head(todo[t]) \in Delivery /\ Tail(todo[t]) \in Seq(Delivery)
  BY <1>1, HeadTailProperties
<1>3. ToSet(todo[t]) = ToSet(Tail(todo[t])) \cup {Head(todo[t])}
  BY <1>1, ElementsOfTail
<1> QED
  BY <1>2, <1>3 DEF Delivery, Client

\* The copy that Publish makes of the clients.
LEMMA CopyOfClients ==
    ASSUME HubTyped, NEW e \in Event
    PROVE  LET copy == [i \in DOMAIN clients |-> [to |-> clients[i], event |-> e]]
           IN  /\ copy \in Seq(Delivery)
               /\ Len(copy) = Len(clients)
               /\ \A i \in 1 .. Len(clients) : copy[i] = [to |-> clients[i], event |-> e]
<1> DEFINE copy == [i \in DOMAIN clients |-> [to |-> clients[i], event |-> e]]
<1>1. clients \in Seq(Conns)
  BY DEF HubTyped
<1>2. DOMAIN clients = 1 .. Len(clients) /\ Len(clients) \in Nat
  BY <1>1, LenProperties
<1>3. \A i \in 1 .. Len(clients) : [to |-> clients[i], event |-> e] \in Delivery
  BY <1>1, ElementOfSeq DEF Delivery
<1>4. copy \in [1 .. Len(clients) -> Delivery]
  BY <1>2, <1>3
<1>5. copy \in Seq(Delivery) /\ Len(copy) = Len(clients)
  BY <1>2, <1>4, SMT
<1> QED
  BY <1>2, <1>5

-----------------------------------------------------------------------------
(* Init, and the steps, keep HubInv *)

LEMMA HubInit == Init => HubInv
<1> SUFFICES ASSUME Init PROVE HubInv
  OBVIOUS
<1>1. HubTyped
  <2>1. IsInjective(clients)
    BY DEF Init, IsInjective
  <2> QED
    BY <2>1, QueueAssumption DEF Init, HubTyped, Stages
<1>2. ToSet(clients) = {}
  BY DEF Init, ToSet
<1> QED
  BY <1>1, <1>2 DEF Init, HubInv, RestTyped, ClientsServed, PutFirst, DroppedIsGone, Dropping

LEMMA HubPut ==
    ASSUME HubInv, NEW t \in Threads, Put(t),
           UNCHANGED <<holder, currentOp, pc, pageVars>>
    PROVE  HubInv'
<1> USE DEF HubInv
<1>1. todo[t] # << >> /\ stage[t] = "put" /\ clients' = clients
  BY DEF Put, At
<1>2. RestTyped' /\ ClientsServed'
  <2>1. filled' \subseteq Conns
    BY <1>1, FirstDelivery DEF Put, RestTyped
  <2> QED
    BY <1>1, <2>1 DEF RestTyped, ClientsServed, pageVars
<1>3. CASE Full(Client(t))
  <2>1. stage' = [stage EXCEPT ![t] = "drop"] /\ UNCHANGED <<queue, todo>>
    BY <1>3 DEF Put, Goes
  <2>2. HubTyped'
    BY <1>1, <2>1 DEF HubTyped, Stages
  <2>3. PutFirst'
    BY <1>1, <2>1 DEF PutFirst, HubTyped
  <2>4. DroppedIsGone'
    BY <1>1, <2>1 DEF DroppedIsGone, Dropping, HubTyped, Client
  <2> QED
    BY <1>2, <2>2, <2>3, <2>4
<1>4. CASE ~ Full(Client(t))
  <2> DEFINE c == Client(t)
             e == Head(todo[t]).event
  <2>1. /\ queue' = [queue EXCEPT ![c] = Append(queue[c], e)]
        /\ todo' = [todo EXCEPT ![t] = Tail(todo[t])]
        /\ stage' = [stage EXCEPT ![t] = "put"]
    BY <1>4 DEF Put, Served, Goes
  <2>2. c \in Conns /\ e \in Event /\ Tail(todo[t]) \in Seq(Delivery)
    BY <1>1, FirstDelivery
  <2>3. /\ Append(queue[c], e) \in Seq(Event)
        /\ Len(Append(queue[c], e)) <= QueueMax
    <3>1. queue[c] \in Seq(Event) /\ Len(queue[c]) < QueueMax
      BY <1>4, <2>2, LenProperties, QueueAssumption DEF HubTyped, Full
    <3>2. Append(queue[c], e) \in Seq(Event) /\ Len(Append(queue[c], e)) = Len(queue[c]) + 1
      BY <2>2, <3>1, ElementsOfAppend
    <3>3. Len(queue[c]) \in Nat
      BY <3>1, LenProperties
    <3> QED
      BY <3>1, <3>2, <3>3, QueueAssumption
  <2> HIDE DEF c, e
  <2>4. HubTyped'
    BY <1>1, <2>1, <2>2, <2>3 DEF HubTyped, Stages
  <2>5. PutFirst'
    BY <1>1, <2>1 DEF PutFirst, HubTyped
  <2>6. DroppedIsGone'
    BY <1>1, <2>1 DEF DroppedIsGone, Dropping, HubTyped, Client
  <2> QED
    BY <1>2, <2>4, <2>5, <2>6
<1> QED
  BY <1>3, <1>4

\* What unregister leaves of the clients.
LEMMA Unregistered ==
    ASSUME HubTyped, NEW c
    PROVE  /\ RemoveFirst(clients, c) \in Seq(Conns)
           /\ IsInjective(RemoveFirst(clients, c))
           /\ ToSet(RemoveFirst(clients, c)) = ToSet(clients) \ {c}
BY ElementsOfRemoveFirst DEF HubTyped

LEMMA HubDrop ==
    ASSUME HubInv, NEW t \in Threads, DropClient(t),
           UNCHANGED <<holder, currentOp, pc, pageVars>>
    PROVE  HubInv'
<1> USE DEF HubInv
<1>1. /\ todo[t] # << >> /\ stage[t] = "drop"
      /\ clients' = RemoveFirst(clients, Client(t))
      /\ stage' = [stage EXCEPT ![t] = "take"]
      /\ UNCHANGED <<todo, queue, filled>>
  BY DEF DropClient, At, Goes
<1>2. /\ clients' \in Seq(Conns) /\ IsInjective(clients')
      /\ ToSet(clients') = ToSet(clients) \ {Client(t)}
  BY <1>1, Unregistered
<1>3. HubTyped'
  BY <1>1, <1>2 DEF HubTyped, Stages
<1>4. RestTyped' /\ ClientsServed'
  BY <1>1, <1>2 DEF RestTyped, ClientsServed, pageVars
<1>5. PutFirst'
  BY <1>1 DEF PutFirst, HubTyped
<1>6. DroppedIsGone'
  BY <1>1, <1>2 DEF DroppedIsGone, Dropping, HubTyped, Client
<1> QED
  BY <1>3, <1>4, <1>5, <1>6

LEMMA HubTake ==
    ASSUME HubInv, NEW t \in Threads, TakeOne(t),
           UNCHANGED <<holder, currentOp, pc, pageVars>>
    PROVE  HubInv'
<1> USE DEF HubInv
<1> DEFINE c == Client(t)
           left == IF queue[c] = << >> THEN queue[c] ELSE Tail(queue[c])
<1>1. /\ todo[t] # << >> /\ stage[t] = "take"
      /\ queue' = [queue EXCEPT ![c] = left]
      /\ stage' = [stage EXCEPT ![t] = "poison"]
      /\ UNCHANGED <<todo, clients, filled>>
  BY DEF TakeOne, At, Goes
<1>2. left \in Seq(Event) /\ Len(left) <= QueueMax
  <2>1. c \in Conns
    BY <1>1, FirstDelivery
  <2>2. queue[c] \in Seq(Event) /\ Len(queue[c]) <= QueueMax /\ Len(queue[c]) \in Nat
    BY <2>1, LenProperties DEF HubTyped
  <2> QED
    BY <2>2, HeadTailProperties, QueueAssumption
<1> HIDE DEF c, left
<1>3. HubTyped'
  BY <1>1, <1>2 DEF HubTyped, Stages
<1>4. RestTyped' /\ ClientsServed'
  BY <1>1 DEF RestTyped, ClientsServed, pageVars
<1>5. PutFirst'
  BY <1>1 DEF PutFirst, HubTyped
<1>6. DroppedIsGone'
  BY <1>1 DEF DroppedIsGone, Dropping, HubTyped, Client
<1> QED
  BY <1>3, <1>4, <1>5, <1>6

LEMMA HubPoison ==
    ASSUME HubInv, NEW t \in Threads, Poison(t),
           UNCHANGED <<holder, currentOp, pc, pageVars>>
    PROVE  HubInv'
<1> USE DEF HubInv
<1> DEFINE c == Client(t)
           more == IF Full(c) THEN queue[c] ELSE Append(queue[c], Stale)
<1>1. /\ todo[t] # << >> /\ stage[t] = "poison"
      /\ queue' = [queue EXCEPT ![c] = more]
      /\ todo' = [todo EXCEPT ![t] = Tail(todo[t])]
      /\ stage' = [stage EXCEPT ![t] = "put"]
      /\ UNCHANGED <<clients, filled>>
  BY DEF Poison, At, Served, Goes
<1>2. c \in Conns /\ Tail(todo[t]) \in Seq(Delivery)
  BY <1>1, FirstDelivery
<1>3. more \in Seq(Event) /\ Len(more) <= QueueMax
  <2>1. queue[c] \in Seq(Event) /\ Len(queue[c]) <= QueueMax /\ Len(queue[c]) \in Nat
    BY <1>2, LenProperties DEF HubTyped
  <2>2. Append(queue[c], Stale) \in Seq(Event) /\ Len(Append(queue[c], Stale)) = Len(queue[c]) + 1
    BY <2>1, EventsTyped, ElementsOfAppend
  <2> QED
    BY <2>1, <2>2, QueueAssumption DEF Full
<1> HIDE DEF c, more
<1>4. HubTyped'
  BY <1>1, <1>2, <1>3 DEF HubTyped, Stages
<1>5. RestTyped' /\ ClientsServed'
  BY <1>1 DEF RestTyped, ClientsServed, pageVars
<1>6. PutFirst'
  BY <1>1 DEF PutFirst, HubTyped
<1>7. DroppedIsGone'
  BY <1>1 DEF DroppedIsGone, Dropping, HubTyped, Client
<1> QED
  BY <1>4, <1>5, <1>6, <1>7

-----------------------------------------------------------------------------
(* The operations *)

LEMMA HubBegin ==
    ASSUME HubInv, NEW t \in Threads, Begin(t)
    PROVE  HubInv'
BY DEF Begin, hubVars, pageVars, HubInv, HubTyped, RestTyped, ClientsServed, PutFirst,
       DroppedIsGone, Dropping, Client

LEMMA HubEnd ==
    ASSUME HubInv, NEW t \in Threads, End(t)
    PROVE  HubInv'
BY DEF End, hubVars, pageVars, HubInv, HubTyped, RestTyped, ClientsServed, PutFirst,
       DroppedIsGone, Dropping, Client

LEMMA HubSay ==
    ASSUME HubInv, NEW t \in Threads, NEW from, NEW e \in Event,
           NEW to \in {"idle", "named", "body", "told"}, Say(t, from, e, to)
    PROVE  HubInv'
<1> USE DEF HubInv
<1> DEFINE copy == [i \in DOMAIN clients |-> [to |-> clients[i], event |-> e]]
<1>1. /\ todo[t] = << >>
      /\ todo' = [todo EXCEPT ![t] = copy]
      /\ pc' = [pc EXCEPT ![t] = to]
      /\ UNCHANGED <<stage, clients, queue, filled, holder, currentOp, pageVars>>
  BY DEF Say, Publish
<1>2. copy \in Seq(Delivery)
  BY CopyOfClients
<1>3. stage[t] = "put"
  BY <1>1 DEF PutFirst
<1> HIDE DEF copy
<1>4. HubTyped'
  BY <1>1, <1>2 DEF HubTyped
<1>5. RestTyped' /\ ClientsServed'
  BY <1>1 DEF RestTyped, ClientsServed, pageVars
<1>6. PutFirst'
  BY <1>1, <1>3 DEF PutFirst, HubTyped
<1>7. DroppedIsGone'
  BY <1>1, <1>3 DEF DroppedIsGone, Dropping, HubTyped, Client
<1> QED
  BY <1>4, <1>5, <1>6, <1>7

LEMMA HubOperate ==
    ASSUME HubInv, NEW t \in Threads, Operate(t)
    PROVE  HubInv'
<1>1. currentOp \in Ops \cup {NoOp}
  BY DEF HubInv, RestTyped
<1>2. CASE Begin(t)
  BY <1>2, HubBegin
<1>3. CASE Announce(t)
  BY <1>1, <1>3, EventsTyped, HubSay DEF Announce
<1>4. CASE Step(t)
  BY <1>1, <1>4, EventsTyped, HubSay DEF Step
<1>5. CASE Tell(t)
  BY <1>5, EventsTyped, HubSay DEF Tell
<1>6. CASE Conclude(t)
  BY <1>1, <1>6, EventsTyped, HubSay DEF Conclude
<1>7. CASE End(t)
  BY <1>7, HubEnd
<1> QED
  BY <1>2, <1>3, <1>4, <1>5, <1>6, <1>7 DEF Operate

-----------------------------------------------------------------------------
(* The connections *)

LEMMA HubConnect ==
    ASSUME HubInv, NEW c \in Conns, Connect(c), UNCHANGED serverVars
    PROVE  HubInv'
<1> USE DEF HubInv
<1>1. /\ phase[c] = "closed" /\ Unreferenced(c)
      /\ listening' = c
      /\ phase' = [phase EXCEPT ![c] = "registered"]
      /\ queue' = [queue EXCEPT ![c] = << >>]
      /\ clients' = Append(clients, c)
      /\ filled' = filled \ {c}
      /\ UNCHANGED <<shown, answers, misled, holder, currentOp, pc, todo, stage>>
  BY DEF Connect, serverVars
<1>2. clients \in Seq(Conns) /\ c \notin ToSet(clients)
  BY <1>1 DEF HubTyped, ClientsServed
<1>3. /\ clients' \in Seq(Conns)
      /\ Len(clients') = Len(clients) + 1
      /\ \A k \in 1 .. Len(clients) : clients'[k] = clients[k]
      /\ clients'[Len(clients) + 1] = c
      /\ ToSet(clients') = ToSet(clients) \cup {c}
  BY <1>1, <1>2, ElementsOfAppend
<1>4. IsInjective(clients')
  <2>1. Len(clients) \in Nat /\ DOMAIN clients = 1 .. Len(clients) /\ DOMAIN clients' = 1 .. Len(clients) + 1
    BY <1>2, <1>3, LenProperties
  <2>2. \A i, j \in 1 .. Len(clients) : clients[i] = clients[j] => i = j
    BY <2>1 DEF HubTyped, IsInjective
  <2>3. \A i \in 1 .. Len(clients) : clients[i] # c
    BY <1>2, ElementsOfSeq
  <2>4. \A i \in 1 .. Len(clients) + 1 : i \in 1 .. Len(clients) \/ i = Len(clients) + 1
    BY <2>1
  <2>5. \A i, j \in 1 .. Len(clients) + 1 : clients'[i] = clients'[j] => i = j
    BY <1>3, <2>2, <2>3, <2>4
  <2> QED
    BY <2>1, <2>5 DEF IsInjective
<1>5. HubTyped'
  BY <1>1, <1>3, <1>4, QueueAssumption DEF HubTyped
<1>6. RestTyped' /\ ClientsServed'
  BY <1>1, <1>3 DEF RestTyped, ClientsServed
<1>7. PutFirst'
  BY <1>1 DEF PutFirst
<1>8. DroppedIsGone'
  <2>1. ASSUME NEW t \in Threads, todo[t] # << >> PROVE Client(t) # c
    BY <1>1, <2>1, FirstDelivery DEF Unreferenced, Client
  <2> QED
    BY <1>1, <1>3, <2>1 DEF DroppedIsGone, Dropping, Client
<1> QED
  BY <1>5, <1>6, <1>7, <1>8

\* A connection that ends, whatever the page does.
LEMMA HubClose ==
    ASSUME HubInv, NEW c \in Conns, Close(c), UNCHANGED <<serverVars, filled, shown, answers, misled>>,
           listening' \in Conns \cup {Nobody}
    PROVE  HubInv'
<1> USE DEF HubInv
<1>1. /\ phase' = [phase EXCEPT ![c] = "closed"]
      /\ queue' = [queue EXCEPT ![c] = << >>]
      /\ clients' = RemoveFirst(clients, c)
      /\ UNCHANGED <<filled, shown, answers, misled, holder, currentOp, pc, todo, stage>>
  BY DEF Close, serverVars
<1>2. /\ clients' \in Seq(Conns) /\ IsInjective(clients')
      /\ ToSet(clients') = ToSet(clients) \ {c}
  BY <1>1, Unregistered
<1>3. HubTyped'
  BY <1>1, <1>2, QueueAssumption DEF HubTyped
<1>4. RestTyped' /\ ClientsServed'
  BY <1>1, <1>2 DEF RestTyped, ClientsServed
<1>5. PutFirst'
  BY <1>1 DEF PutFirst
<1>6. DroppedIsGone'
  BY <1>1, <1>2 DEF DroppedIsGone, Dropping, Client
<1> QED
  BY <1>3, <1>4, <1>5, <1>6

\* The answers that news makes late.
LEMMA NewsTyped ==
    ASSUME RestTyped, News
    PROVE  answers' \subseteq Answer /\ misled' \in BOOLEAN /\ \A a \in answers' : a.late
<1>1. answers' = {[op |-> a.op, late |-> TRUE] : a \in answers} /\ misled' = FALSE
  BY DEF News
<1>2. ASSUME NEW b \in answers' PROVE b \in Answer /\ b.late
  <2>1. PICK a \in answers : b = [op |-> a.op, late |-> TRUE]
    BY <1>1, <1>2
  <2>2. a.op \in Ops \cup {NoOp}
    BY DEF RestTyped, Answer
  <2> QED
    BY <2>1, <2>2 DEF Answer
<1> QED
  BY <1>1, <1>2

LEMMA HubSnapshot ==
    ASSUME HubInv, NEW c \in Conns, Snapshot(c), UNCHANGED serverVars
    PROVE  HubInv'
<1> USE DEF HubInv
<1>1. /\ phase' = [phase EXCEPT ![c] = "stream"]
      /\ UNCHANGED <<clients, queue, filled, listening, holder, currentOp, pc, todo, stage>>
  BY DEF Snapshot, serverVars
<1>2. shown' \in Ops \cup {NoOp} /\ answers' \subseteq Answer /\ misled' \in BOOLEAN
  BY NewsTyped DEF Snapshot, RestTyped, NoNews
<1>3. HubTyped' /\ PutFirst'
  BY <1>1 DEF HubTyped, PutFirst
<1>4. RestTyped' /\ ClientsServed'
  BY <1>1, <1>2 DEF RestTyped, ClientsServed
<1>5. DroppedIsGone'
  BY <1>1 DEF DroppedIsGone, Dropping, Client
<1> QED
  BY <1>3, <1>4, <1>5

LEMMA HubDeliver ==
    ASSUME HubInv, NEW c \in Conns, Deliver(c), UNCHANGED serverVars
    PROVE  HubInv'
<1>1. queue[c] # << >> /\ queue[c] \in Seq(Event) /\ Len(queue[c]) <= QueueMax /\ Len(queue[c]) \in Nat
  BY LenProperties DEF Deliver, HubInv, HubTyped
<1>2. CASE Head(queue[c]) = Stale
  <2>1. Close(c) /\ UNCHANGED <<serverVars, filled, shown, answers, misled>>
    BY <1>2 DEF Deliver, NoNews
  <2>2. listening' \in Conns \cup {Nobody}
    BY <1>2 DEF Deliver, HubInv, RestTyped
  <2> QED
    BY <2>1, <2>2, HubClose
<1>3. CASE Head(queue[c]) # Stale
  <2> USE DEF HubInv
  <2> DEFINE rest == Tail(queue[c])
  <2>1. /\ queue' = [queue EXCEPT ![c] = rest]
        /\ UNCHANGED <<phase, clients, filled, listening, holder, currentOp, pc, todo, stage>>
    BY <1>3 DEF Deliver, serverVars
  <2>2. rest \in Seq(Event) /\ Len(rest) <= QueueMax
    BY <1>1, HeadTailProperties, QueueAssumption
  <2> HIDE DEF rest
  <2>3. shown' \in Ops \cup {NoOp} /\ answers' \subseteq Answer /\ misled' \in BOOLEAN
    <3>1. Head(queue[c]) \in Event
      BY <1>1, HeadTailProperties
    <3>2. shown' \in Ops \cup {NoOp}
      BY <1>3, <3>1 DEF Deliver, Receive, RestTyped, After, Event
    <3>3. News \/ NoNews
      BY <1>3 DEF Deliver, Receive
    <3> QED
      BY <3>2, <3>3, NewsTyped DEF NoNews, RestTyped
  <2>4. HubTyped' /\ PutFirst'
    BY <2>1, <2>2 DEF HubTyped, PutFirst
  <2>5. RestTyped' /\ ClientsServed'
    BY <2>1, <2>3 DEF RestTyped, ClientsServed
  <2>6. DroppedIsGone'
    BY <2>1 DEF DroppedIsGone, Dropping, Client
  <2> QED
    BY <2>4, <2>5, <2>6
<1> QED
  BY <1>2, <1>3

LEMMA HubPage ==
    ASSUME HubInv, Page
    PROVE  HubInv'
<1> USE DEF HubInv
<1>1. UNCHANGED <<todo, stage, clients, queue, filled, phase, holder, currentOp, pc>>
  BY DEF Page, Disconnect, Refresh, Seed, serverVars
<1>2. HubTyped' /\ ClientsServed' /\ PutFirst' /\ DroppedIsGone'
  BY <1>1 DEF HubTyped, ClientsServed, PutFirst, DroppedIsGone, Dropping, Client
<1>3. CASE Disconnect
  BY <1>1, <1>2, <1>3 DEF Disconnect, RestTyped
<1>4. CASE Refresh
  <2>1. [op |-> currentOp, late |-> FALSE] \in Answer
    BY DEF RestTyped, Answer
  <2>2. /\ answers' = answers \cup {[op |-> currentOp, late |-> FALSE]}
        /\ UNCHANGED <<listening, shown, misled>>
    BY <1>4 DEF Refresh
  <2> QED
    BY <1>1, <1>2, <2>1, <2>2 DEF RestTyped
<1>5. CASE Seed
  <2>1. PICK a \in answers :
           /\ shown' = a.op
           /\ misled' = (a.late /\ (misled \/ a.op # shown))
           /\ answers' = answers \ {a}
           /\ listening' = listening
    BY <1>5 DEF Seed
  <2>2. a.op \in Ops \cup {NoOp} /\ a.late \in BOOLEAN
    BY DEF RestTyped, Answer
  <2>3. misled' \in BOOLEAN
    BY <2>1, <2>2
  <2> QED
    BY <1>1, <1>2, <2>1, <2>2, <2>3 DEF RestTyped
<1> QED
  BY <1>3, <1>4, <1>5 DEF Page

LEMMA HubNext == HubInv /\ [Next]_vars => HubInv'
<1> SUFFICES ASSUME HubInv, [Next]_vars PROVE HubInv'
  OBVIOUS
<1>1. CASE \E t \in Threads : Deliveries(t)
  BY <1>1, HubPut, HubDrop, HubTake, HubPoison DEF Deliveries
<1>2. CASE \E t \in Threads : Operate(t)
  BY <1>2, HubOperate
<1>3. CASE \E c \in Conns : Handle(c)
  <2>1. PICK c \in Conns : Handle(c)
    BY <1>3
  <2>2. CASE HandlerEnds(c)
    <3>1. /\ Close(c) /\ UNCHANGED <<serverVars, filled, shown, answers, misled>>
          /\ listening' \in Conns \cup {Nobody}
      BY <2>1, <2>2 DEF Handle, HandlerEnds, HubInv, RestTyped
    <3> QED
      BY <3>1, HubClose
  <2> QED
    BY <2>1, <2>2, HubSnapshot, HubDeliver DEF Handle
<1>4. CASE Reconnect
  BY <1>4, HubConnect DEF Reconnect
<1>5. CASE Page
  BY <1>5, HubPage
<1>6. CASE UNCHANGED vars
  BY <1>6 DEF vars, hubVars, pageVars, HubInv, HubTyped, RestTyped, ClientsServed,
          PutFirst, DroppedIsGone, Dropping, Client
<1> QED
  BY <1>1, <1>2, <1>3, <1>4, <1>5, <1>6 DEF Next

\* Types, and what the hub keeps between its steps.
LEMMA HubHolds == Spec => []HubInv
<1>1. Init => HubInv
  BY HubInit
<1>2. HubInv /\ [Next]_vars => HubInv'
  BY HubNext
<1> QED
  BY <1>1, <1>2, PTL DEF Spec

\* The operation, the hub and the page stay within their types: a queue never
\* holds more than its bound and no connection is registered twice.
THEOREM StreamStaysTyped == Spec => []TypeOK
<1>1. HubInv => TypeOK
  <2> SUFFICES ASSUME HubInv PROVE TypeOK
    OBVIOUS
  <2>1. \A t \in Threads : ToSet(todo[t]) \subseteq [to : Conns, event : Event]
    BY ElementsOfSeq DEF HubInv, HubTyped, Delivery
  <2>2. ToSet(clients) \subseteq Conns
    BY ElementsOfSeq DEF HubInv, HubTyped
  <2>3. \A c \in Conns : ToSet(queue[c]) \subseteq Event
    BY ElementsOfSeq DEF HubInv, HubTyped
  <2> QED
    BY <2>1, <2>2, <2>3 DEF HubInv, HubTyped, RestTyped, TypeOK
<1> QED
  BY <1>1, HubHolds, PTL

-----------------------------------------------------------------------------
(* The poison of a dropped connection *)

LEMMA PoisonInit == Init => PoisonInv
BY DEF Init, PoisonInv, Poisoned, Room, Dropping

\* A thread at work on a client that is not its own to drop changes neither.
LEMMA PoisonPut ==
    ASSUME HubInv, PoisonInv, NEW t \in Threads, Put(t), UNCHANGED pageVars
    PROVE  PoisonInv'
<1> USE DEF PoisonInv
<1> DEFINE d == Client(t)
<1>1. /\ todo[t] # << >> /\ stage[t] = "put" /\ UNCHANGED <<clients, phase>>
      /\ filled \subseteq filled'
  BY DEF Put, At, pageVars
<1>2. d \in Conns /\ Head(todo[t]).event \in Event
  BY <1>1, FirstDelivery DEF HubInv
<1>3. /\ queue \in [Conns -> Seq(Event)] /\ stage \in [Threads -> Stages]
      /\ todo \in [Threads -> Seq(Delivery)]
  BY DEF HubInv, HubTyped
<1>4. \A c \in Conns : \A u \in Threads :
         /\ u = t => ~ Dropping(u, c) /\ ~ Dropping(u, c)'
         /\ u # t => Dropping(u, c)' = Dropping(u, c) /\ stage'[u] = stage[u]
  BY <1>1, <1>3 DEF Put, Goes, Served, Dropping, Client
<1>5. \A c \in Conns : queue'[c] = queue[c] \/ queue'[c] = Append(queue[c], Head(todo[t]).event)
  BY <1>2, <1>3 DEF Put
<1>6. \A c \in Conns : ToSet(queue[c]) \subseteq ToSet(queue'[c])
  <2> SUFFICES ASSUME NEW c \in Conns PROVE ToSet(queue[c]) \subseteq ToSet(queue'[c])
    OBVIOUS
  <2> DEFINE e == Head(todo[t]).event
  <2>1. queue[c] \in Seq(Event) /\ e \in Event /\ (queue'[c] = queue[c] \/ queue'[c] = Append(queue[c], e))
    BY <1>2, <1>3, <1>5
  <2> HIDE DEF e
  <2>2. ToSet(Append(queue[c], e)) = ToSet(queue[c]) \cup {e}
    BY <2>1, ElementsOfAppend
  <2> QED
    BY <2>1, <2>2
<1>7. Poisoned'
  BY <1>1, <1>4, <1>6 DEF Poisoned
<1>8. Room'
  <2> SUFFICES ASSUME NEW u \in Threads, NEW c \in Conns,
                      Dropping(u, c)', stage'[u] = "poison", c \notin filled'
               PROVE  Len(queue'[c]) < QueueMax \/ Stale \in ToSet(queue'[c])
    BY DEF Room
  <2>1. u # t /\ Dropping(u, c) /\ stage[u] = "poison" /\ c \notin filled
    BY <1>1, <1>4
  <2>2. Len(queue[c]) < QueueMax \/ Stale \in ToSet(queue[c])
    BY <2>1 DEF Room
  <2>3. queue'[c] = queue[c]
    <3>1. CASE Full(d)
      BY <3>1 DEF Put
    <3>2. CASE ~ Full(d)
      <4>1. Making(c)
        BY <2>1 DEF Making, At, Dropping
      <4>2. filled' = IF Making(d) THEN filled \cup {d} ELSE filled
        BY <3>2 DEF Put
      <4>3. c # d
        BY <4>1, <4>2
      <4> QED
        BY <1>3, <3>2, <4>3 DEF Put
    <3> QED
      BY <3>1, <3>2
  <2> QED
    BY <1>6, <2>2, <2>3
<1> QED
  BY <1>7, <1>8

LEMMA PoisonDrop ==
    ASSUME HubInv, PoisonInv, NEW t \in Threads, DropClient(t), UNCHANGED pageVars
    PROVE  PoisonInv'
<1> USE DEF PoisonInv
<1>1. /\ todo[t] # << >> /\ stage[t] = "drop" /\ stage' = [stage EXCEPT ![t] = "take"]
      /\ UNCHANGED <<phase, todo, queue, filled>>
      /\ ToSet(clients') = ToSet(clients) \ {Client(t)}
  BY Unregistered DEF DropClient, At, Goes, HubInv, pageVars
<1>2. stage \in [Threads -> Stages]
  BY DEF HubInv, HubTyped
<1>3. Dropping(t, Client(t))'
  BY <1>1, <1>2 DEF Dropping, Client
<1>4. \A u \in Threads, c \in Conns :
         /\ Dropping(u, c) => Dropping(u, c)'
         /\ Dropping(u, c)' /\ stage'[u] = "poison" => Dropping(u, c) /\ stage[u] = "poison"
  BY <1>1, <1>2 DEF Dropping, Client
<1>5. Poisoned'
  <2> SUFFICES ASSUME NEW c \in Conns, phase'[c] # "closed", c \notin ToSet(clients'), c \notin filled'
               PROVE  Stale \in ToSet(queue'[c]) \/ \E u \in Threads : Dropping(u, c)'
    BY DEF Poisoned
  <2>1. CASE c = Client(t)
    BY <1>1, <1>2, <2>1 DEF Dropping, Client
  <2>2. CASE c # Client(t)
    <3>1. Stale \in ToSet(queue[c]) \/ \E u \in Threads : Dropping(u, c)
      BY <1>1, <2>2 DEF Poisoned
    <3> QED
      BY <1>1, <1>4, <3>1
  <2> QED
    BY <2>1, <2>2
<1>6. Room'
  BY <1>1, <1>4 DEF Room
<1> QED
  BY <1>5, <1>6

LEMMA PoisonTake ==
    ASSUME HubInv, PoisonInv, NEW t \in Threads, TakeOne(t), UNCHANGED pageVars
    PROVE  PoisonInv'
<1> USE DEF PoisonInv
<1> DEFINE d == Client(t)
           left == IF queue[d] = << >> THEN queue[d] ELSE Tail(queue[d])
<1>1. /\ todo[t] # << >> /\ stage[t] = "take" /\ stage' = [stage EXCEPT ![t] = "poison"]
      /\ queue' = [queue EXCEPT ![d] = left]
      /\ UNCHANGED <<phase, todo, clients, filled>>
  BY DEF TakeOne, At, Goes, pageVars
<1>2. stage \in [Threads -> Stages] /\ queue \in [Conns -> Seq(Event)] /\ d \in Conns
  BY <1>1, FirstDelivery DEF HubInv, HubTyped
<1>3. \A u \in Threads, c \in Conns :
         /\ Dropping(u, c)' = Dropping(u, c)
         /\ stage'[u] = "poison" => u = t \/ stage[u] = "poison"
         /\ Dropping(t, c) => c = d
  BY <1>1, <1>2 DEF Dropping, Client
<1>4. Dropping(t, d) /\ Dropping(t, d)'
  BY <1>1, <1>2 DEF Dropping, Client
<1>5. Len(left) < QueueMax
  <2>1. Len(queue[d]) \in Nat /\ Len(queue[d]) <= QueueMax /\ queue[d] \in Seq(Event)
    BY <1>2, LenProperties DEF HubInv, HubTyped
  <2>2. CASE queue[d] = << >>
    BY <2>2, QueueAssumption
  <2>3. CASE queue[d] # << >>
    <3>1. Len(Tail(queue[d])) = Len(queue[d]) - 1
      BY <2>1, <2>3, HeadTailProperties
    <3> QED
      BY <2>1, <2>3, <3>1, QueueAssumption
  <2> QED
    BY <2>2, <2>3
<1> HIDE DEF d, left
<1>6. \A c \in Conns : c # d => queue'[c] = queue[c]
  BY <1>1, <1>2
<1>7. Poisoned'
  BY <1>1, <1>3, <1>4, <1>6 DEF Poisoned
<1>8. Room'
  <2> SUFFICES ASSUME NEW u \in Threads, NEW c \in Conns,
                      Dropping(u, c)', stage'[u] = "poison", c \notin filled'
               PROVE  Len(queue'[c]) < QueueMax \/ Stale \in ToSet(queue'[c])
    BY DEF Room
  <2>1. CASE c = d
    BY <1>1, <1>2, <1>5, <2>1
  <2>2. CASE c # d
    BY <1>1, <1>3, <1>6, <2>2 DEF Room
  <2> QED
    BY <2>1, <2>2
<1> QED
  BY <1>7, <1>8

LEMMA PoisonPoison ==
    ASSUME HubInv, PoisonInv, NEW t \in Threads, Poison(t), UNCHANGED pageVars
    PROVE  PoisonInv'
<1> USE DEF PoisonInv
<1> DEFINE d == Client(t)
<1>1. /\ todo[t] # << >> /\ stage[t] = "poison" /\ stage' = [stage EXCEPT ![t] = "put"]
      /\ queue' = [queue EXCEPT ![d] = IF Full(d) THEN queue[d] ELSE Append(queue[d], Stale)]
      /\ todo' = [todo EXCEPT ![t] = Tail(todo[t])]
      /\ UNCHANGED <<phase, clients, filled>>
  BY DEF Poison, At, Served, Goes, pageVars
<1>2. /\ queue \in [Conns -> Seq(Event)] /\ stage \in [Threads -> Stages] /\ d \in Conns
      /\ todo \in [Threads -> Seq(Delivery)]
  BY <1>1, FirstDelivery DEF HubInv, HubTyped
<1>3. \A c \in Conns : \A u \in Threads :
         /\ u = t => ~ Dropping(u, c)'
         /\ u # t => Dropping(u, c)' = Dropping(u, c) /\ stage'[u] = stage[u]
  BY <1>1, <1>2 DEF Dropping, Client
<1>4. \A c \in Conns : c # d => queue'[c] = queue[c] /\ ~ Dropping(t, c)
  BY <1>1, <1>2 DEF Dropping
<1>5. d \notin filled => Stale \in ToSet(queue'[d])
  <2>1. queue[d] \in Seq(Event) /\ Len(queue[d]) \in Nat
    BY <1>2, LenProperties
  <2>2. ToSet(Append(queue[d], Stale)) = ToSet(queue[d]) \cup {Stale}
    BY <2>1, EventsTyped, ElementsOfAppend
  <2>3. d \notin filled => Stale \in ToSet(queue[d]) \/ ~ Full(d)
    <3>1. Dropping(t, d)
      BY <1>1 DEF Dropping
    <3>2. d \notin filled => Len(queue[d]) < QueueMax \/ Stale \in ToSet(queue[d])
      BY <1>1, <1>2, <3>1 DEF Room
    <3> QED
      BY <2>1, <3>2, QueueAssumption DEF Full
  <2>4. queue'[d] = IF Full(d) THEN queue[d] ELSE Append(queue[d], Stale)
    BY <1>1, <1>2
  <2> QED
    BY <2>2, <2>3, <2>4
<1> HIDE DEF d
<1>6. Poisoned'
  <2> SUFFICES ASSUME NEW c \in Conns, phase'[c] # "closed", c \notin ToSet(clients'), c \notin filled'
               PROVE  Stale \in ToSet(queue'[c]) \/ \E u \in Threads : Dropping(u, c)'
    BY DEF Poisoned
  <2>1. CASE c = d
    BY <1>1, <1>5, <2>1
  <2>2. CASE c # d
    BY <1>1, <1>3, <1>4, <2>2 DEF Poisoned
  <2> QED
    BY <2>1, <2>2
<1>7. Room'
  <2> SUFFICES ASSUME NEW u \in Threads, NEW c \in Conns,
                      Dropping(u, c)', stage'[u] = "poison", c \notin filled'
               PROVE  Len(queue'[c]) < QueueMax \/ Stale \in ToSet(queue'[c])
    BY DEF Room
  <2>1. CASE c = d
    BY <1>1, <1>5, <2>1
  <2>2. CASE c # d
    BY <1>1, <1>3, <1>4, <2>2 DEF Room
  <2> QED
    BY <2>1, <2>2
<1> QED
  BY <1>6, <1>7

LEMMA PoisonOperate ==
    ASSUME HubInv, PoisonInv, NEW t \in Threads, Operate(t)
    PROVE  PoisonInv'
<1>1. UNCHANGED <<phase, clients, queue, filled, stage>>
  BY DEF Operate, Begin, Announce, Step, Tell, Conclude, End, Say, Publish, hubVars, pageVars
<1>2. UNCHANGED todo \/ (todo[t] = << >> /\ \A u \in Threads \ {t} : todo'[u] = todo[u])
  BY DEF Operate, Begin, Announce, Step, Tell, Conclude, End, Say, Publish, hubVars, HubInv, HubTyped
<1>3. \A u \in Threads, c \in Conns : Dropping(u, c)' = Dropping(u, c)
  <2>1. CASE UNCHANGED todo
    BY <1>1, <2>1 DEF Dropping, Client
  <2>2. CASE todo[t] = << >> /\ \A u \in Threads \ {t} : todo'[u] = todo[u]
    <3>1. stage[t] = "put" /\ stage'[t] = "put"
      BY <1>1, <2>2 DEF HubInv, PutFirst
    <3> QED
      BY <1>1, <2>2, <3>1 DEF Dropping, Client
  <2> QED
    BY <1>2, <2>1, <2>2
<1> QED
  BY <1>1, <1>3 DEF PoisonInv, Poisoned, Room

LEMMA PoisonHandle ==
    ASSUME HubInv, PoisonInv, NEW a \in Conns, Handle(a)
    PROVE  PoisonInv'
<1> USE DEF PoisonInv
<1>1. \A u \in Threads, c \in Conns : Dropping(u, c)' = Dropping(u, c) /\ stage'[u] = stage[u]
  BY DEF Handle, serverVars, Dropping, Client
<1>2. /\ queue \in [Conns -> Seq(Event)] /\ phase \in [Conns -> {"closed", "registered", "stream"}]
      /\ \A c \in Conns : Len(queue[c]) \in Nat /\ Len(queue[c]) <= QueueMax
  BY LenProperties DEF HubInv, HubTyped, RestTyped
<1>3. filled' = filled
  BY DEF Handle, Snapshot, Deliver, HandlerEnds
<1>4. CASE Close(a)
  <2>1. /\ phase'[a] = "closed" /\ queue'[a] = << >>
        /\ \A c \in Conns \ {a} : phase'[c] = phase[c] /\ queue'[c] = queue[c]
        /\ ToSet(clients') = ToSet(clients) \ {a}
    BY <1>2, <1>4, Unregistered DEF Close, HubInv
  <2>2. Len(queue'[a]) < QueueMax
    BY <2>1, QueueAssumption
  <2>3. Poisoned'
    BY <1>1, <1>3, <2>1 DEF Poisoned
  <2>4. Room'
    BY <1>1, <1>3, <2>1, <2>2 DEF Room
  <2> QED
    BY <2>3, <2>4
<1>5. CASE Snapshot(a)
  <2>1. clients' = clients /\ queue' = queue /\ \A c \in Conns : phase'[c] # "closed" => phase[c] # "closed"
    BY <1>2, <1>5 DEF Snapshot
  <2> QED
    BY <1>1, <1>3, <2>1 DEF Poisoned, Room
<1>6. CASE /\ queue[a] # << >> /\ Head(queue[a]) # Stale
           /\ queue' = [queue EXCEPT ![a] = Tail(queue[a])]
           /\ UNCHANGED <<phase, clients>>
  <2>1. \A c \in Conns \ {a} : queue'[c] = queue[c]
    BY <1>2, <1>6
  <2>2. queue'[a] = Tail(queue[a]) /\ queue[a] \in Seq(Event)
    BY <1>2, <1>6
  <2>3. Stale \in ToSet(queue[a]) => Stale \in ToSet(queue'[a])
    BY <1>6, <2>2, ElementsOfTail
  <2>4. Len(queue[a]) < QueueMax => Len(queue'[a]) < QueueMax
    <3>1. Len(Tail(queue[a])) = Len(queue[a]) - 1
      BY <1>6, <2>2, HeadTailProperties
    <3> QED
      BY <1>2, <2>2, <3>1, QueueAssumption
  <2>5. \A c \in Conns :
           /\ Stale \in ToSet(queue[c]) => Stale \in ToSet(queue'[c])
           /\ Len(queue[c]) < QueueMax => Len(queue'[c]) < QueueMax
    BY <2>1, <2>3, <2>4
  <2> QED
    BY <1>1, <1>3, <1>6, <2>5 DEF Poisoned, Room
<1> QED
  BY <1>4, <1>5, <1>6 DEF Handle, Deliver, HandlerEnds

LEMMA PoisonConnect ==
    ASSUME HubInv, PoisonInv, NEW a \in Conns, Connect(a), UNCHANGED serverVars
    PROVE  PoisonInv'
<1> USE DEF PoisonInv
<1>1. /\ \A c \in Conns \ {a} : phase'[c] = phase[c] /\ queue'[c] = queue[c]
      /\ ToSet(clients') = ToSet(clients) \cup {a}
      /\ filled' = filled \ {a}
  BY ElementsOfAppend DEF Connect, HubInv, HubTyped, RestTyped
<1>2. \A u \in Threads, c \in Conns : Dropping(u, c)' = Dropping(u, c) /\ stage'[u] = stage[u]
  BY DEF serverVars, Dropping, Client
<1>3. \A u \in Threads : ~ Dropping(u, a)
  BY FirstDelivery DEF Connect, Unreferenced, Dropping, Client, HubInv
<1>4. Poisoned'
  BY <1>1, <1>2 DEF Poisoned
<1>5. Room'
  BY <1>1, <1>2, <1>3 DEF Room
<1> QED
  BY <1>4, <1>5

LEMMA PoisonNext == HubInv /\ PoisonInv /\ [Next]_vars => PoisonInv'
<1> SUFFICES ASSUME HubInv, PoisonInv, [Next]_vars PROVE PoisonInv'
  OBVIOUS
<1>1. CASE \E t \in Threads : Deliveries(t)
  BY <1>1, PoisonPut, PoisonDrop, PoisonTake, PoisonPoison DEF Deliveries
<1>2. CASE \E t \in Threads : Operate(t)
  BY <1>2, PoisonOperate
<1>3. CASE \E c \in Conns : Handle(c)
  BY <1>3, PoisonHandle
<1>4. CASE Reconnect
  BY <1>4, PoisonConnect DEF Reconnect
<1>5. CASE Page
  BY <1>5 DEF Page, Disconnect, Refresh, Seed, serverVars, PoisonInv, Poisoned, Room, Dropping, Client
<1>6. CASE UNCHANGED vars
  BY <1>6 DEF vars, hubVars, pageVars, PoisonInv, Poisoned, Room, Dropping, Client
<1> QED
  BY <1>1, <1>2, <1>3, <1>4, <1>5, <1>6 DEF Next

\* A connection that the hub has dropped, and no thread serves any more, has
\* the poison in its queue (Hub.publish makes room for it, gui.py:400-420),
\* unless another thread has put an event into that very place: for every
\* number of threads that publish, and drop it at once, and every bound of the
\* queues.
THEOREM DroppedArePoisonedUnlessFilled == Spec => []PoisonedUnlessFilled
<1>1. Init => PoisonInv
  BY PoisonInit
<1>2. HubInv /\ PoisonInv /\ [Next]_vars => PoisonInv'
  BY PoisonNext
<1>3. HubInv /\ PoisonInv => PoisonedUnlessFilled
  <2> SUFFICES ASSUME HubInv, Poisoned, NEW c \in Conns, Dropped(c), c \notin filled
               PROVE  Stale \in ToSet(queue[c])
    BY DEF PoisonInv, PoisonedUnlessFilled
  <2>1. ASSUME NEW t \in Threads, Dropping(t, c) PROVE FALSE
    BY <2>1, FirstDelivery DEF Dropped, Dropping, Unreferenced, Client, HubInv
  <2> QED
    BY <2>1 DEF Poisoned, Dropped
<1> QED
  BY <1>1, <1>2, <1>3, HubHolds, PTL DEF Spec

-----------------------------------------------------------------------------
(* What a page that has seen everything shows *)

LEMMA BusyInit == Init => BusyInv
<1> SUFFICES ASSUME Init PROVE Alone /\ Says /\ StartReaches
  BY DEF BusyInv
<1>1. \A t \in Threads : pc[t] = "idle" /\ todo[t] = << >> /\ Len(todo[t]) = 0
  BY EmptySeq DEF Init
<1> QED
  BY <1>1 DEF Init, Alone, Says, StartReaches

(* One operation at a time, and what it has still to tell *)

BusyRest == HubInv /\ Alone /\ Says

LEMMA AloneNext == HubInv /\ Alone /\ [Next]_vars => Alone'
<1> SUFFICES ASSUME HubInv, Alone, [Next]_vars PROVE Alone'
  OBVIOUS
<1>1. pc \in [Threads -> {"idle", "named", "body", "told"}]
  BY DEF HubInv, RestTyped
<1>2. CASE UNCHANGED <<holder, pc>>
  BY <1>2 DEF Alone
<1>3. CASE \E t \in Threads : Operate(t)
  <2>1. PICK t \in Threads : Operate(t)
    BY <1>3
  <2>2. CASE Begin(t) \/ End(t)
    BY <1>1, <2>2, NobodyAssumption DEF Alone, Begin, End
  <2>3. CASE Announce(t) \/ Step(t) \/ Conclude(t)
    BY <1>1, <2>3 DEF Alone, Announce, Step, Conclude, Say
  <2>4. CASE Tell(t)
    BY <1>1, <2>4 DEF Alone, Tell, Say
  <2> QED
    BY <2>1, <2>2, <2>3, <2>4 DEF Operate
<1> QED
  BY <1>2, <1>3 DEF Next, Deliveries, Handle, Reconnect, Page, serverVars, vars

\* What may be left to say, one delivery at a time.
SaysOne(at, op, e) ==
    /\ at = "idle" => ~ Level(e)
    /\ at = "body" => e = OpStart(op) \/ ~ Level(e)
    /\ at # "named"

LEMMA SaysDef ==
    Says <=> \A t \in Threads : \A k \in 1 .. Len(todo[t]) :
                SaysOne(pc[t], currentOp, todo[t][k].event)
BY DEF Says, SaysOne

\* The deliveries that are left after the first were left before.
LEMMA TailLeft ==
    ASSUME HubInv, NEW t \in Threads, todo[t] # << >>
    PROVE  /\ Len(Tail(todo[t])) = Len(todo[t]) - 1 /\ Len(todo[t]) \in Nat \ {0}
           /\ \A k \in 1 .. Len(Tail(todo[t])) :
                 k + 1 \in 1 .. Len(todo[t]) /\ Tail(todo[t])[k] = todo[t][k + 1]
           /\ Head(todo[t]) = todo[t][1]
<1>1. todo[t] \in Seq(Delivery)
  BY DEF HubInv, HubTyped
<1>2. /\ Len(Tail(todo[t])) = Len(todo[t]) - 1 /\ Len(todo[t]) \in Nat \ {0}
      /\ \A k \in 1 .. Len(Tail(todo[t])) : Tail(todo[t])[k] = todo[t][k + 1]
  BY <1>1, HeadTailProperties, EmptySeq
<1>3. Head(todo[t]) = todo[t][1]
  BY <1>1
<1> QED
  BY <1>2, <1>3

LEMMA LevelEvents ==
    /\ ~ Level(Other) /\ ~ Level(Stale)
    /\ \A op : ~ Level(StepDone(op)) /\ Level(OpStart(op)) /\ OpStart(op) # Stale
BY DEF Level, Other, Stale, StepDone, OpStart

\* A thread that says an event has just that event to say.
LEMMA SayLeaves ==
    ASSUME HubInv, NEW t \in Threads, NEW e \in Event, NEW from, NEW to, Say(t, from, e, to)
    PROVE  /\ todo[t] = << >> /\ Len(todo[t]) = 0
           /\ \A u \in Threads \ {t} : todo'[u] = todo[u] /\ pc'[u] = pc[u]
           /\ pc[t] = from /\ pc'[t] = to /\ currentOp' = currentOp
           /\ Len(todo'[t]) = Len(clients)
           /\ \A k \in 1 .. Len(clients) : todo'[t][k] = [to |-> clients[k], event |-> e]
<1> DEFINE copy == [i \in DOMAIN clients |-> [to |-> clients[i], event |-> e]]
<1>1. /\ todo[t] = << >>
      /\ todo' = [todo EXCEPT ![t] = copy]
      /\ pc' = [pc EXCEPT ![t] = to]
      /\ pc[t] = from /\ currentOp' = currentOp
  BY DEF Say, Publish
<1>2. /\ Len(copy) = Len(clients)
      /\ \A k \in 1 .. Len(clients) : copy[k] = [to |-> clients[k], event |-> e]
  BY CopyOfClients DEF HubInv
<1>3. todo \in [Threads -> Seq(Delivery)] /\ pc \in [Threads -> {"idle", "named", "body", "told"}]
  BY DEF HubInv, HubTyped, RestTyped
<1> HIDE DEF copy
<1> QED
  BY <1>1, <1>2, <1>3, EmptySeq

LEMMA SaysNext == HubInv /\ Alone /\ Says /\ [Next]_vars => Says'
<1> SUFFICES ASSUME HubInv, Alone, Says, [Next]_vars,
                    NEW u \in Threads, NEW k \in 1 .. Len(todo'[u])
             PROVE  SaysOne(pc'[u], currentOp', todo'[u][k].event)
  BY DEF Says, SaysOne
<1>1. \A l \in 1 .. Len(todo[u]) : SaysOne(pc[u], currentOp, todo[u][l].event)
  BY SaysDef
<1>2. todo \in [Threads -> Seq(Delivery)] /\ pc \in [Threads -> {"idle", "named", "body", "told"}]
  BY DEF HubInv, HubTyped, RestTyped
<1>3. CASE UNCHANGED <<todo, pc, currentOp>>
  BY <1>1, <1>3 DEF SaysOne
<1>4. CASE \E t \in Threads : Deliveries(t)
  <2>1. PICK t \in Threads : Deliveries(t)
    BY <1>4
  <2>2. UNCHANGED <<pc, currentOp>> /\ todo[t] # << >>
    BY <2>1 DEF Deliveries, Put, DropClient, TakeOne, Poison, At
  <2>3. todo'[u] = todo[u] \/ (u = t /\ todo'[u] = Tail(todo[u]))
    BY <1>2, <2>1 DEF Deliveries, Put, DropClient, TakeOne, Poison, Served
  <2>4. PICK l \in 1 .. Len(todo[u]) : todo'[u][k] = todo[u][l]
    <3>1. CASE todo'[u] = todo[u]
      BY <3>1
    <3>2. CASE u = t /\ todo'[u] = Tail(todo[u])
      <4>1. k \in 1 .. Len(Tail(todo[u]))
        BY <3>2
      <4>2. k + 1 \in 1 .. Len(todo[u]) /\ todo'[u][k] = todo[u][k + 1]
        BY <2>2, <3>2, <4>1, TailLeft
      <4> QED
        BY <4>2
    <3> QED
      BY <2>3, <3>1, <3>2
  <2> QED
    BY <1>1, <2>2, <2>4 DEF SaysOne
<1>5. CASE \E t \in Threads : Begin(t) \/ End(t)
  <2>1. PICK t \in Threads : Begin(t) \/ End(t)
    BY <1>5
  <2>2. todo' = todo /\ todo[t] = << >> /\ u # t /\ pc'[u] = pc[u]
    BY <1>2, <2>1, EmptySeq DEF Begin, End, hubVars
  <2>3. pc[u] = "idle"
    BY <2>1, <2>2, NobodyAssumption DEF Begin, End, Alone
  <2> QED
    BY <1>1, <2>2, <2>3 DEF SaysOne
<1>6. CASE \E t \in Threads : Announce(t) \/ Step(t) \/ Tell(t) \/ Conclude(t)
  <2>1. PICK t \in Threads, e \in Event, from \in {"idle", "named", "body"}, to \in {"idle", "body", "told"} :
           /\ Say(t, from, e, to)
           /\ to = "idle" => ~ Level(e)
           /\ to = "body" => e = OpStart(currentOp) \/ ~ Level(e)
    <3>1. currentOp \in Ops \cup {NoOp}
      BY DEF HubInv, RestTyped
    <3> QED
      BY <1>6, <3>1, EventsTyped, LevelEvents DEF Announce, Step, Tell, Conclude
  <2>2. CASE u = t
    <3>1. /\ Len(todo'[t]) = Len(clients) /\ pc'[t] = to /\ currentOp' = currentOp
          /\ \A l \in 1 .. Len(clients) : todo'[t][l] = [to |-> clients[l], event |-> e]
      BY <2>1, SayLeaves
    <3>2. todo'[u][k].event = e
      <4>1. k \in 1 .. Len(clients)
        BY <2>2, <3>1
      <4>2. todo'[u][k] = [to |-> clients[k], event |-> e]
        BY <2>2, <3>1, <4>1
      <4> QED
        BY <4>2
    <3> QED
      BY <2>1, <2>2, <3>1, <3>2 DEF SaysOne
  <2>3. CASE u # t
    <3>1. todo'[u] = todo[u] /\ pc'[u] = pc[u] /\ currentOp' = currentOp
      BY <2>1, <2>3, SayLeaves
    <3> QED
      BY <1>1, <3>1 DEF SaysOne
  <2> QED
    BY <2>2, <2>3
<1> QED
  BY <1>3, <1>4, <1>5, <1>6
     DEF Next, Operate, Handle, Reconnect, Page, serverVars, vars, hubVars

(* The start of the operation that runs is on its way to the page, or seen *)

Reaches(t, c) == Announcing(t, c) \/ Waiting(c) \/ Seen(c)

\* What an event more at the end of its queue leaves of a connection's state.
LEMMA WaitingLast ==
    ASSUME NEW q \in Seq(Event), NEW e \in Event, NEW op
    PROVE  /\ e = OpStart(op) =>
                \E k \in 1 .. Len(Append(q, e)) :
                   /\ Append(q, e)[k] = OpStart(op)
                   /\ \A l \in k + 1 .. Len(Append(q, e)) : ~ Level(Append(q, e)[l])
           /\ ~ Level(e) => \A k \in 1 .. Len(q) :
                (/\ q[k] = OpStart(op)
                 /\ \A l \in k + 1 .. Len(q) : ~ Level(q[l]))
                => (/\ k \in 1 .. Len(Append(q, e))
                    /\ Append(q, e)[k] = OpStart(op)
                    /\ \A l \in k + 1 .. Len(Append(q, e)) : ~ Level(Append(q, e)[l]))
           /\ ~ Level(e) /\ Quiet(q) => Quiet(Append(q, e))
<1> DEFINE r == Append(q, e)
<1>1. /\ Len(q) \in Nat /\ Len(r) = Len(q) + 1
      /\ \A k \in 1 .. Len(q) : r[k] = q[k]
      /\ r[Len(q) + 1] = e
  BY LenProperties, ElementsOfAppend
<1> HIDE DEF r
<1>2. \A k \in 1 .. Len(r) : k \in 1 .. Len(q) \/ k = Len(q) + 1
  BY <1>1
<1>3. ASSUME e = OpStart(op)
      PROVE  \E k \in 1 .. Len(r) : r[k] = OpStart(op) /\ \A l \in k + 1 .. Len(r) : ~ Level(r[l])
  BY <1>1, <1>3
<1>4. ASSUME ~ Level(e), NEW k \in 1 .. Len(q), q[k] = OpStart(op),
             \A l \in k + 1 .. Len(q) : ~ Level(q[l])
      PROVE  k \in 1 .. Len(r) /\ r[k] = OpStart(op) /\ \A l \in k + 1 .. Len(r) : ~ Level(r[l])
  <2>1. k \in 1 .. Len(r) /\ r[k] = OpStart(op)
    BY <1>1, <1>4
  <2>2. ASSUME NEW l \in k + 1 .. Len(r) PROVE ~ Level(r[l])
    <3>1. CASE l = Len(q) + 1
      BY <1>1, <1>4, <3>1
    <3>2. CASE l # Len(q) + 1
      <4>1. l \in k + 1 .. Len(q) /\ l \in 1 .. Len(q)
        BY <1>1, <3>2
      <4> QED
        BY <1>1, <1>4, <4>1
    <3> QED
      BY <3>1, <3>2
  <2> QED
    BY <2>1, <2>2
<1>5. ASSUME ~ Level(e), Quiet(q) PROVE Quiet(r)
  BY <1>1, <1>2, <1>5 DEF Quiet
<1> QED
  BY <1>3, <1>4, <1>5 DEF r

\* What the first event of a queue, and the rest, say of the whole.
LEMMA WaitingFirst ==
    ASSUME NEW q \in Seq(Event), q # << >>, NEW op
    PROVE  /\ Quiet(q) => ~ Level(Head(q)) /\ Quiet(Tail(q))
           /\ (\E k \in 1 .. Len(q) :
                 q[k] = OpStart(op) /\ \A l \in k + 1 .. Len(q) : ~ Level(q[l]))
              => \/ Head(q) = OpStart(op) /\ Quiet(Tail(q))
                 \/ \E k \in 1 .. Len(Tail(q)) :
                      /\ Tail(q)[k] = OpStart(op)
                      /\ \A l \in k + 1 .. Len(Tail(q)) : ~ Level(Tail(q)[l])
<1> DEFINE r == Tail(q)
           h == Head(q)
<1>1. /\ Len(q) \in Nat \ {0} /\ Len(r) = Len(q) - 1 /\ h = q[1]
      /\ \A k \in 1 .. Len(r) : r[k] = q[k + 1]
  BY LenProperties, EmptySeq, HeadTailProperties
<1> HIDE DEF r, h
<1>2. ASSUME Quiet(q) PROVE ~ Level(h) /\ Quiet(r)
  <2>1. \A k \in 1 .. Len(r) : k + 1 \in 1 .. Len(q)
    BY <1>1
  <2>2. 1 \in 1 .. Len(q)
    BY <1>1
  <2> QED
    BY <1>1, <1>2, <2>1, <2>2 DEF Quiet
<1>3. ASSUME NEW k \in 1 .. Len(q), q[k] = OpStart(op),
             \A l \in k + 1 .. Len(q) : ~ Level(q[l])
      PROVE  \/ h = OpStart(op) /\ Quiet(r)
             \/ \E j \in 1 .. Len(r) :
                  r[j] = OpStart(op) /\ \A l \in j + 1 .. Len(r) : ~ Level(r[l])
  <2>1. CASE k = 1
    <3>1. \A l \in 1 .. Len(r) : l + 1 \in k + 1 .. Len(q)
      BY <1>1, <2>1
    <3> QED
      BY <1>1, <1>3, <2>1, <3>1 DEF Quiet
  <2>2. CASE k # 1
    <3>1. k - 1 \in 1 .. Len(r) /\ (k - 1) + 1 = k
      BY <1>1, <2>2
    <3>2. r[k - 1] = OpStart(op)
      BY <1>1, <1>3, <3>1
    <3>3. \A l \in (k - 1) + 1 .. Len(r) : l \in 1 .. Len(r) /\ l + 1 \in k + 1 .. Len(q)
      BY <1>1, <2>2
    <3>4. \A l \in (k - 1) + 1 .. Len(r) : ~ Level(r[l])
      BY <1>1, <1>3, <3>3
    <3> QED
      BY <3>1, <3>2, <3>4
  <2> QED
    BY <2>1, <2>2
<1> QED
  BY <1>2, <1>3 DEF r, h

\* One delivery of u less, to somebody else than c or not of the start.
LEMMA AnnouncingLeft ==
    ASSUME HubInv, NEW t \in Threads, NEW u \in Threads, NEW c \in Conns,
           Announcing(t, c), todo[u] # << >>, todo' = [todo EXCEPT ![u] = Tail(todo[u])],
           currentOp' = currentOp
    PROVE  Announcing(t, c)' \/ (u = t /\ Head(todo[u]) = [to |-> c, event |-> OpStart(currentOp)])
<1>1. PICK k \in 1 .. Len(todo[t]) : todo[t][k] = [to |-> c, event |-> OpStart(currentOp)]
  BY DEF Announcing
<1>2. todo \in [Threads -> Seq(Delivery)]
  BY DEF HubInv, HubTyped
<1>3. CASE u # t
  <2>1. todo'[t] = todo[t]
    BY <1>2, <1>3
  <2> QED
    BY <1>1, <2>1 DEF Announcing
<1>4. CASE u = t /\ k = 1
  BY <1>1, <1>4, TailLeft
<1>5. CASE u = t /\ k # 1
  <2>1. todo'[t] = Tail(todo[t])
    BY <1>2, <1>5
  <2>2. k - 1 \in 1 .. Len(Tail(todo[t])) /\ (k - 1) + 1 = k
    BY <1>5, TailLeft
  <2>3. Tail(todo[t])[k - 1] = todo[t][k]
    BY <1>5, <2>2, TailLeft
  <2> QED
    BY <1>1, <2>1, <2>2, <2>3 DEF Announcing
<1> QED
  BY <1>3, <1>4, <1>5

\* Nothing of what c is sent changes.
LEMMA SeenStays ==
    ASSUME NEW c \in Conns, queue'[c] = queue[c], phase'[c] = phase[c],
           UNCHANGED <<shown, answers, misled, currentOp>>
    PROVE  (Waiting(c) => Waiting(c)') /\ (Seen(c) => Seen(c)')
BY DEF Waiting, Seen, Knows, Quiet

LEMMA ReachesPut ==
    ASSUME BusyRest, NEW t \in Threads, NEW c \in Conns, pc[t] = "body", Reaches(t, c),
           NEW u \in Threads, Put(u), UNCHANGED <<holder, currentOp, pc, pageVars>>
    PROVE  Reaches(t, c)'
<1> USE DEF BusyRest
<1> DEFINE d == Client(u)
           e == Head(todo[u]).event
<1>1. todo[u] # << >> /\ UNCHANGED <<currentOp, phase, shown, answers, misled>>
  BY DEF Put, At, pageVars
<1>2. d \in Conns /\ e \in Event /\ Head(todo[u]) = [to |-> d, event |-> e]
  BY <1>1, FirstDelivery DEF HubInv
<1>3. queue \in [Conns -> Seq(Event)] /\ todo \in [Threads -> Seq(Delivery)]
  BY DEF HubInv, HubTyped
<1>4. ~ Level(e) \/ (u = t /\ e = OpStart(currentOp))
  <2>1. 1 \in 1 .. Len(todo[u]) /\ todo[u][1].event = e
    BY <1>1, TailLeft
  <2>2. SaysOne(pc[u], currentOp, e)
    BY <2>1, SaysDef
  <2>3. u # t => pc[u] = "idle"
    BY DEF Alone
  <2> QED
    BY <2>2, <2>3 DEF SaysOne
<1>5. CASE Full(d)
  <2>1. UNCHANGED <<queue, todo>>
    BY <1>5 DEF Put
  <2> QED
    BY <1>1, <2>1, SeenStays DEF Reaches, Announcing
<1>6. CASE ~ Full(d)
  <2>1. /\ queue' = [queue EXCEPT ![d] = Append(queue[d], e)]
        /\ todo' = [todo EXCEPT ![u] = Tail(todo[u])]
    BY <1>6 DEF Put, Served
  <2>2. CASE c # d
    <3>1. queue'[c] = queue[c]
      BY <1>3, <2>1, <2>2
    <3>2. Head(todo[u]) # [to |-> c, event |-> OpStart(currentOp)]
      BY <1>2, <2>2
    <3>3. Announcing(t, c) => Announcing(t, c)'
      BY <1>1, <2>1, <3>2, AnnouncingLeft
    <3> QED
      BY <1>1, <3>1, <3>3, SeenStays DEF Reaches
  <2>3. CASE c = d
    <3>1. queue'[c] = Append(queue[c], e) /\ queue[c] \in Seq(Event)
      BY <1>3, <2>1, <2>3
    <3>2. CASE e = OpStart(currentOp)
      BY <1>1, <1>2, <3>1, <3>2, WaitingLast DEF Reaches, Waiting
    <3>3. CASE ~ Level(e)
      <4>1. e # OpStart(currentOp)
        BY <3>3, LevelEvents
      <4>2. Announcing(t, c) => Announcing(t, c)'
        <5>1. Head(todo[u]) # [to |-> c, event |-> OpStart(currentOp)]
          BY <4>1
        <5> QED
          BY <1>1, <2>1, <5>1, AnnouncingLeft
      <4>3. Waiting(c) => Waiting(c)'
        BY <1>1, <1>2, <3>1, <3>3, WaitingLast DEF Waiting
      <4>4. Seen(c) => Seen(c)'
        BY <1>1, <1>2, <3>1, <3>3, WaitingLast DEF Seen, Knows
      <4> QED
        BY <4>2, <4>3, <4>4 DEF Reaches
    <3> QED
      BY <1>4, <3>2, <3>3
  <2> QED
    BY <2>2, <2>3
<1> QED
  BY <1>5, <1>6

\* What happens to a client that is being dropped concerns no other.
LEMMA ReachesDropped ==
    ASSUME BusyRest, NEW t \in Threads, NEW c \in ToSet(clients), c \in Conns,
           pc[t] = "body", Reaches(t, c),
           NEW u \in Threads, DropClient(u) \/ TakeOne(u) \/ Poison(u),
           UNCHANGED <<holder, currentOp, pc, pageVars>>
    PROVE  Reaches(t, c)'
<1> USE DEF BusyRest
<1> DEFINE d == Client(u)
<1>1. todo[u] # << >> /\ UNCHANGED <<currentOp, phase, shown, answers, misled>>
  BY DEF DropClient, TakeOne, Poison, At, pageVars
<1>2. queue \in [Conns -> Seq(Event)] /\ d \in Conns
  BY <1>1, FirstDelivery DEF HubInv, HubTyped
<1>3. CASE DropClient(u)
  BY <1>1, <1>3, SeenStays DEF Reaches, Announcing, DropClient
<1>4. CASE TakeOne(u) \/ Poison(u)
  <2>1. c # d
    BY <1>1, <1>2, <1>4 DEF TakeOne, Poison, At, HubInv, DroppedIsGone, Dropping
  <2>2. queue'[c] = queue[c]
    BY <1>2, <1>4, <2>1 DEF TakeOne, Poison
  <2>3. Announcing(t, c) => Announcing(t, c)'
    <3>1. CASE TakeOne(u)
      BY <1>1, <3>1 DEF TakeOne, Announcing
    <3>2. CASE Poison(u)
      <4>1. todo' = [todo EXCEPT ![u] = Tail(todo[u])]
        BY <3>2 DEF Poison, Served
      <4>2. Head(todo[u]) # [to |-> c, event |-> OpStart(currentOp)]
        BY <2>1 DEF Client
      <4> QED
        BY <1>1, <4>1, <4>2, AnnouncingLeft
    <3> QED
      BY <1>4, <3>1, <3>2
  <2> QED
    BY <1>1, <2>2, <2>3, SeenStays DEF Reaches
<1> QED
  BY <1>3, <1>4

LEMMA ReachesOperate ==
    ASSUME BusyRest, StartReaches, NEW u \in Threads, Operate(u)
    PROVE  StartReaches'
<1> USE DEF BusyRest
<1> SUFFICES ASSUME NEW t \in Threads, NEW c \in Conns,
                    pc'[t] = "body", listening' = c, c \in ToSet(clients')
             PROVE  Reaches(t, c)'
  BY DEF StartReaches, Reaches
<1>1. UNCHANGED <<clients, queue, phase, listening, shown, answers, misled>>
  BY DEF Operate, Begin, Announce, Step, Tell, Conclude, End, Say, Publish, hubVars, pageVars
<1>2. pc \in [Threads -> {"idle", "named", "body", "told"}]
  BY DEF HubInv, RestTyped
<1>3. pc[t] = "body" => Reaches(t, c)
  BY <1>1 DEF StartReaches, Reaches
<1>4. CASE Begin(u) \/ End(u)
  <2>1. pc'[t] = pc[t] /\ t # u
    BY <1>2, <1>4 DEF Begin, End
  <2>2. pc[t] = "idle"
    BY <1>4, <2>1, NobodyAssumption DEF Begin, End, Alone
  <2> QED
    BY <2>1, <2>2
<1>5. CASE Announce(u)
  <2>1. currentOp \in Ops \cup {NoOp} /\ OpStart(currentOp) \in Event
    BY EventsTyped DEF HubInv, RestTyped
  <2>2. /\ pc[u] = "named" /\ currentOp' = currentOp
        /\ \A v \in Threads \ {u} : pc'[v] = pc[v]
        /\ Len(todo'[u]) = Len(clients)
        /\ \A k \in 1 .. Len(clients) :
             todo'[u][k] = [to |-> clients[k], event |-> OpStart(currentOp)]
    <3> DEFINE e == OpStart(currentOp)
    <3>1. e \in Event /\ Say(u, "named", e, "body")
      BY <1>5, <2>1 DEF Announce
    <3> HIDE DEF e
    <3>2. /\ pc[u] = "named" /\ currentOp' = currentOp
          /\ \A v \in Threads \ {u} : pc'[v] = pc[v]
          /\ Len(todo'[u]) = Len(clients)
          /\ \A k \in 1 .. Len(clients) : todo'[u][k] = [to |-> clients[k], event |-> e]
      BY <3>1, SayLeaves
    <3> QED
      BY <3>2 DEF e
  <2>3. u = t
    <3>1. pc[u] # "idle"
      BY <2>2
    <3>2. u # t => pc[t] # "idle"
      BY <2>2
    <3> QED
      BY <3>1, <3>2 DEF Alone
  <2>4. PICK k \in 1 .. Len(clients) : clients[k] = c
    BY <1>1, ElementsOfSeq DEF HubInv, HubTyped
  <2>5. k \in 1 .. Len(todo'[t]) /\ todo'[t][k] = [to |-> c, event |-> OpStart(currentOp')]
    BY <2>2, <2>3, <2>4
  <2> QED
    BY <2>5 DEF Reaches, Announcing
<1>6. CASE Step(u) \/ Tell(u) \/ Conclude(u)
  <2>1. PICK e \in Event, from \in {"idle", "body"}, to \in {"idle", "body", "told"} :
           /\ Say(u, from, e, to)
           /\ to = "body" => from = "body"
    <3>1. currentOp \in Ops \cup {NoOp}
      BY DEF HubInv, RestTyped
    <3> QED
      BY <1>6, <3>1, EventsTyped DEF Step, Tell, Conclude
  <2>2. /\ Len(todo[u]) = 0 /\ currentOp' = currentOp
        /\ pc[u] = from /\ pc'[u] = to
        /\ \A v \in Threads \ {u} : todo'[v] = todo[v] /\ pc'[v] = pc[v]
    BY <2>1, SayLeaves
  <2>3. pc[t] = "body"
    BY <2>1, <2>2
  <2>4. Waiting(c) \/ Seen(c) \/ (Announcing(t, c) /\ t # u)
    BY <1>3, <2>2, <2>3 DEF Reaches, Announcing
  <2>5. CASE Waiting(c) \/ Seen(c)
    BY <1>1, <2>2, <2>5, SeenStays DEF Reaches
  <2>6. CASE Announcing(t, c) /\ t # u
    BY <2>2, <2>6 DEF Reaches, Announcing
  <2> QED
    BY <2>4, <2>5, <2>6
<1> QED
  BY <1>4, <1>5, <1>6 DEF Operate

LEMMA ReachesHandle ==
    ASSUME BusyRest, StartReaches, NEW a \in Conns, Handle(a)
    PROVE  StartReaches'
<1> USE DEF BusyRest
<1> SUFFICES ASSUME NEW t \in Threads, NEW c \in Conns,
                    pc'[t] = "body", listening' = c, c \in ToSet(clients')
             PROVE  Reaches(t, c)'
  BY DEF StartReaches, Reaches
<1>1. UNCHANGED <<todo, pc, currentOp>>
  BY DEF Handle, serverVars
<1>2. /\ queue \in [Conns -> Seq(Event)] /\ phase \in [Conns -> {"closed", "registered", "stream"}]
      /\ c # Nobody
  BY NobodyAssumption DEF HubInv, HubTyped, RestTyped
<1>3. listening = c /\ c \in ToSet(clients)
  <2>1. ToSet(RemoveFirst(clients, a)) \subseteq ToSet(clients)
    BY Unregistered DEF HubInv
  <2> QED
    BY <1>2, <2>1 DEF Handle, Snapshot, Deliver, HandlerEnds, Close
<1>4. Reaches(t, c)
  BY <1>1, <1>3 DEF StartReaches, Reaches
<1>5. Announcing(t, c) => Announcing(t, c)'
  BY <1>1 DEF Announcing
<1>6. CASE a # c
  <2>1. /\ queue'[c] = queue[c] /\ phase'[c] = phase[c]
        /\ UNCHANGED <<shown, answers, misled>>
    BY <1>2, <1>3, <1>6 DEF Handle, Snapshot, Deliver, HandlerEnds, Close, NoNews
  <2> QED
    BY <1>1, <1>4, <1>5, <2>1, SeenStays DEF Reaches
<1>7. CASE a = c
  <2>1. ~ Close(a)
    BY <1>7, Unregistered DEF Close, HubInv
  <2>2. CASE Snapshot(a)
    <3>1. queue' = queue /\ shown' = currentOp' /\ \A x \in answers' : x.late
      BY <1>1, <1>3, <1>7, <2>2, NewsTyped DEF Snapshot, HubInv
    <3>2. Waiting(c) => Waiting(c)'
      BY <1>1, <3>1 DEF Waiting
    <3>3. Seen(c) => Seen(c)'
      BY <1>1, <3>1 DEF Seen, Knows, Quiet
    <3> QED
      BY <1>4, <1>5, <3>2, <3>3 DEF Reaches
  <2>3. CASE Deliver(a)
    <3> DEFINE h == Head(queue[c])
    <3>1. /\ phase'[c] = "stream" /\ queue[c] # << >> /\ queue[c] \in Seq(Event)
          /\ queue'[c] = Tail(queue[c]) /\ Receive(h)
      BY <1>2, <1>3, <1>7, <2>1, <2>3 DEF Deliver
    <3>2. phase[c] = "stream"
      BY <1>7, <2>3 DEF Deliver
    <3>3. CASE Waiting(c)
      <4>1. (h = OpStart(currentOp) /\ Quiet(Tail(queue[c]))) \/ Waiting(c)'
        BY <1>1, <3>1, <3>3, WaitingFirst DEF Waiting
      <4>2. h = OpStart(currentOp) => After(h) = currentOp /\ News
        BY <3>1 DEF Receive, After, OpLevel, OpStart
      <4>3. h = OpStart(currentOp) => Knows'
        BY <1>1, <3>1, <4>2, NewsTyped DEF Receive, Knows, HubInv
      <4> QED
        BY <1>1, <3>1, <4>1, <4>3 DEF Reaches, Seen
    <3>4. CASE Seen(c)
      <4>1. ~ Level(h) /\ Quiet(Tail(queue[c]))
        BY <3>1, <3>4, WaitingFirst DEF Seen
      <4>2. After(h) = shown /\ NoNews
        BY <3>1, <4>1 DEF Receive, After, OpLevel, Level
      <4>3. Knows'
        BY <1>1, <3>1, <3>2, <3>4, <4>2 DEF Receive, NoNews, Knows, Seen
      <4> QED
        BY <3>1, <4>1, <4>3 DEF Reaches, Seen
    <3> QED
      BY <1>4, <1>5, <3>3, <3>4 DEF Reaches
  <2> QED
    BY <2>1, <2>2, <2>3 DEF Handle, HandlerEnds
<1> QED
  BY <1>6, <1>7

LEMMA StartReachesNext ==
    BusyRest /\ StartReaches /\ [Next]_vars => StartReaches'
<1> SUFFICES ASSUME BusyRest, StartReaches, [Next]_vars PROVE StartReaches'
  OBVIOUS
<1>1. CASE \E u \in Threads : Operate(u)
  BY <1>1, ReachesOperate
<1>2. CASE \E a \in Conns : Handle(a)
  BY <1>2, ReachesHandle
<1>3. CASE \E u \in Threads : Deliveries(u)
  <2>1. PICK u \in Threads : Deliveries(u)
    BY <1>3
  <2> SUFFICES ASSUME NEW t \in Threads, NEW c \in Conns,
                      pc'[t] = "body", listening' = c, c \in ToSet(clients')
               PROVE  Reaches(t, c)'
    BY DEF StartReaches, Reaches
  <2>2. UNCHANGED <<holder, currentOp, pc, pageVars>> /\ listening' = listening
    BY <2>1 DEF Deliveries, pageVars
  <2>3. c \in ToSet(clients)
    <3>1. ToSet(RemoveFirst(clients, Client(u))) \subseteq ToSet(clients)
      BY Unregistered DEF BusyRest, HubInv
    <3> QED
      BY <2>1, <3>1 DEF Deliveries, Put, DropClient, TakeOne, Poison
  <2>4. Reaches(t, c) /\ pc[t] = "body"
    BY <2>2, <2>3 DEF StartReaches, Reaches
  <2> QED
    BY <2>1, <2>2, <2>3, <2>4, ReachesPut, ReachesDropped DEF Deliveries
<1>4. CASE Reconnect
  <2>1. PICK a \in Conns : Connect(a)
    BY <1>4 DEF Reconnect
  <2>2. /\ listening' = a /\ queue'[a] = << >> /\ phase'[a] = "registered"
    BY <2>1 DEF Connect, BusyRest, HubInv, HubTyped, RestTyped
  <2>3. Seen(a)'
    <3>1. Len(queue'[a]) = 0
      BY <2>2, EmptySeq
    <3> QED
      BY <2>2, <3>1 DEF Seen, Quiet
  <2> QED
    BY <2>2, <2>3 DEF StartReaches
<1>5. CASE Page
  <2>1. UNCHANGED <<todo, pc, currentOp, clients, queue, phase>>
    BY <1>5 DEF Page, Disconnect, Refresh, Seed, serverVars
  <2>2. CASE Disconnect
    BY <2>1, <2>2, NobodyAssumption DEF Disconnect, StartReaches
  <2>3. CASE Refresh \/ Seed
    <3>1. Knows => Knows'
      <4>1. CASE Refresh
        BY <2>1, <4>1 DEF Refresh, Knows
      <4>2. CASE Seed
        BY <2>1, <4>2 DEF Seed, Knows
      <4> QED
        BY <2>3, <4>1, <4>2
    <3>2. listening' = listening
      BY <2>3 DEF Refresh, Seed
    <3> QED
      BY <2>1, <3>1, <3>2 DEF StartReaches, Announcing, Waiting, Seen, Quiet
  <2> QED
    BY <1>5, <2>2, <2>3 DEF Page
<1>6. CASE UNCHANGED vars
  BY <1>6 DEF vars, hubVars, pageVars, StartReaches, Announcing, Waiting, Seen, Knows, Quiet
<1> QED
  BY <1>1, <1>2, <1>3, <1>4, <1>5, <1>6 DEF Next

\* A page that the hub serves and that has seen every event sent to it shows
\* the operation that runs: current_op is set before the start is published,
\* and the queue registered before the snapshot is read (gui.py:541-542,
\* 1700-1702).  It holds with /api/state asked for beside the stream, as every
\* page does (app.js:1805-1806), until an answer that the stream has overtaken
\* changes what the page shows.
THEOREM BusyIsShownUnlessMisled == Spec => []BusyShownUnlessMisled
<1>1. Init => BusyInv
  BY BusyInit
<1>2. HubInv /\ BusyInv /\ [Next]_vars => BusyInv'
  BY AloneNext, SaysNext, StartReachesNext DEF BusyRest, BusyInv
<1>3. HubInv /\ BusyInv => BusyShownUnlessMisled
  <2> SUFFICES ASSUME HubInv, BusyInv, NEW c \in ToSet(clients), UpToDate(c), ~ misled,
                      NEW t \in Threads, pc[t] = "body"
               PROVE  shown = currentOp
    BY DEF BusyShownUnlessMisled
  <2>1. c \in Conns
    BY ElementsOfSeq DEF HubInv, HubTyped
  <2>2. Reaches(t, c)
    BY <2>1 DEF BusyInv, StartReaches, Reaches, UpToDate
  <2>3. ASSUME Announcing(t, c) PROVE FALSE
    <3>1. PICK k \in 1 .. Len(todo[t]) : todo[t][k] = [to |-> c, event |-> OpStart(currentOp)]
      BY <2>3 DEF Announcing
    <3>2. todo[t][k] \in ToSet(todo[t])
      BY ElementsOfSeq DEF HubInv, HubTyped
    <3>3. todo[t][k].to = c
      BY <3>1
    <3> QED
      BY <3>2, <3>3 DEF UpToDate, Unreferenced
  <2>4. ~ Waiting(c)
    <3>1. Len(queue[c]) = 0
      BY EmptySeq DEF UpToDate
    <3> QED
      BY <3>1 DEF Waiting
  <2> QED
    BY <2>2, <2>3, <2>4 DEF Reaches, Seen, Knows, UpToDate
<1> QED
  BY <1>1, <1>2, <1>3, HubHolds, PTL DEF Spec

=============================================================================
