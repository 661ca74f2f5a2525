----------------------------- MODULE EventStream -----------------------------
(***************************************************************************)
(* What a browser believes about the rig: the SSE hub of tools/gui.py and  *)
(* the current_op of tools/gui_web/app.js.                                 *)
(*                                                                         *)
(* An operation names itself in App.current_op and publishes op events;    *)
(* the Hub copies them into a bounded queue per connection, outside its    *)
(* lock and from the publishing thread.  The handler thread of a           *)
(* connection registers a queue, sends a snapshot of the state and then    *)
(* what it takes from the queue.  The browser disables its controls while  *)
(* its own current_op is set.                                              *)
(*                                                                         *)
(* One browser; the ids of its connections are used again only when no     *)
(* thread refers to them.                                                  *)
(***************************************************************************)
EXTENDS Naturals, Sequences, FiniteSets, SequencesExt

CONSTANTS
    Threads,    \* request threads and the ping loop: all that publish
    Conns,      \* ids of connections
    Nobody,     \* no thread, no connection
    Ops,        \* names of operations
    NoOp,       \* current_op = None
    QueueMax,   \* Queue(maxsize = 500)
    MaxAnswers  \* bound: the /api/state answers under way at once

ASSUME NobodyAssumption == Nobody \notin Threads \cup Conns
ASSUME NoOpAssumption == NoOp \notin Ops
ASSUME QueueAssumption == QueueMax \in Nat \ {0}
ASSUME AnswersAssumption == MaxAnswers \in Nat

VARIABLES
    holder,     \* the thread inside App.operation
    currentOp,  \* App.current_op
    pc,         \* per thread: how far its operation is
    todo,       \* per thread: the clients it has still to serve, with the event
    stage,      \* per thread: how far it is with the first of them
    clients,    \* Hub._clients, in order of registration
    queue,      \* per connection: its queue
    filled,     \* connections where somebody filled the poison's place (history)
    phase,      \* per connection: its handler thread
    listening,  \* the connection the browser's EventSource is open on
    shown,      \* state.current_op of the browser
    answers,    \* /api/state answers on their way to the browser
    misled      \* an answer that was late has changed what is shown (history)

hubVars == <<todo, stage, clients, queue, filled>>
pageVars == <<phase, listening, shown, answers, misled>>
vars == <<holder, currentOp, pc, hubVars, pageVars>>

-----------------------------------------------------------------------------
(* Events *)

Event == [op : Ops \cup {NoOp}, status : {"start", "done", "other", "stale"}, step : BOOLEAN]

OpStart(op) == [op |-> op, status |-> "start", step |-> FALSE]
OpDone(op) == [op |-> op, status |-> "done", step |-> FALSE]   \* or "error"
StepDone(op) == [op |-> op, status |-> "done", step |-> TRUE]  \* of a take's step
Other == [op |-> NoOp, status |-> "other", step |-> FALSE]     \* fleet, ticker, sessions
Stale == [op |-> NoOp, status |-> "stale", step |-> FALSE]     \* the poison

\* An answer of /api/state, and whether the stream has brought the browser news
\* of an operation since it was made.
Answer == [op : Ops \cup {NoOp}, late : BOOLEAN]

\* Mutant: every done re-arms the controls.
OpLevelAlways(e) == TRUE

OpLevel(e) == ~ e.step

\* The browser's current_op after an event of its stream.
After(e) ==
    IF OpLevel(e) /\ e.status = "start" THEN e.op
    ELSE IF OpLevel(e) /\ e.status = "done" /\ shown = e.op THEN NoOp
    ELSE shown

Init ==
    /\ holder = Nobody
    /\ currentOp = NoOp
    /\ pc = [t \in Threads |-> "idle"]
    /\ todo = [t \in Threads |-> <<>>]
    /\ stage = [t \in Threads |-> "put"]
    /\ clients = <<>>
    /\ queue = [c \in Conns |-> <<>>]
    /\ filled = {}
    /\ phase = [c \in Conns |-> "closed"]
    /\ listening = Nobody
    /\ shown = NoOp
    /\ answers = {}
    /\ misled = FALSE

-----------------------------------------------------------------------------
(* Hub.publish *)

\* The copy of the client list, under the hub's lock.
Publish(t, e) ==
    /\ todo[t] = <<>>
    /\ todo' = [todo EXCEPT ![t] = [i \in DOMAIN clients |-> [to |-> clients[i], event |-> e]]]
    /\ UNCHANGED <<stage, clients, queue, filled>>

Stages == {"put", "drop", "take", "poison"}

At(t, s) == todo[t] # <<>> /\ stage[t] = s
Goes(t, s) == stage' = [stage EXCEPT ![t] = s]
Served(t) == todo' = [todo EXCEPT ![t] = Tail(@)] /\ Goes(t, "put")

Client(t) == Head(todo[t]).to

\* Mutant: a queue takes one event more than its bound.
FullByOne(c) == Len(queue[c]) > QueueMax

Full(c) == Len(queue[c]) >= QueueMax

\* Somebody has made room for the poison in the queue and not put it yet.
Making(c) == \E u \in Threads : At(u, "poison") /\ Client(u) = c

Put(t) ==
    /\ At(t, "put")
    /\ IF Full(Client(t))
         THEN Goes(t, "drop") /\ UNCHANGED <<queue, todo, filled>>
         ELSE /\ queue' = [queue EXCEPT ![Client(t)] = Append(@, Head(todo[t]).event)]
              /\ filled' = IF Making(Client(t)) THEN filled \cup {Client(t)} ELSE filled
              /\ Served(t)
    /\ UNCHANGED clients

\* unregister(q)
DropClient(t) ==
    /\ At(t, "drop")
    /\ clients' = RemoveFirst(clients, Client(t))
    /\ Goes(t, "take")
    /\ UNCHANGED <<todo, queue, filled>>

\* Mutant: no room is made for the poison.
TakeNothing(t) ==
    /\ At(t, "take")
    /\ Goes(t, "poison")
    /\ UNCHANGED <<todo, clients, queue, filled>>

\* get_nowait makes room for the poison.
TakeOne(t) ==
    /\ At(t, "take")
    /\ queue' = [queue EXCEPT ![Client(t)] = IF @ = <<>> THEN @ ELSE Tail(@)]
    /\ Goes(t, "poison")
    /\ UNCHANGED <<todo, clients, filled>>

\* put_nowait of the poison; a queue that is full again is left alone.
Poison(t) ==
    /\ At(t, "poison")
    /\ queue' = [queue EXCEPT ![Client(t)] = IF Full(Client(t)) THEN @ ELSE Append(@, Stale)]
    /\ Served(t)
    /\ UNCHANGED <<clients, filled>>

Deliveries(t) ==
    /\ Put(t) \/ DropClient(t) \/ TakeOne(t) \/ Poison(t)
    /\ UNCHANGED <<holder, currentOp, pc, pageVars>>

-----------------------------------------------------------------------------
(* App.operation, and whatever else publishes *)

Begin(t) ==
    /\ pc[t] = "idle" /\ todo[t] = <<>>
    /\ holder = Nobody
    /\ holder' = t
    /\ currentOp' \in Ops
    /\ pc' = [pc EXCEPT ![t] = "named"]
    /\ UNCHANGED <<hubVars, pageVars>>

Say(t, from, e, to) ==
    /\ pc[t] = from
    /\ Publish(t, e)
    /\ pc' = [pc EXCEPT ![t] = to]
    /\ UNCHANGED <<holder, currentOp, pageVars>>

Announce(t) == Say(t, "named", OpStart(currentOp), "body")

Step(t) == Say(t, "body", StepDone(currentOp), "body")

\* A sweep, a tick, a list of sessions: of any thread, with the lock or without.
Tell(t) == \E at \in {"idle", "body"} : Say(t, at, Other, at)

\* "done" or "error" is published before current_op is reset.
Conclude(t) == Say(t, "body", OpDone(currentOp), "told")

End(t) ==
    /\ pc[t] = "told" /\ todo[t] = <<>>
    /\ currentOp' = NoOp
    /\ holder' = Nobody
    /\ pc' = [pc EXCEPT ![t] = "idle"]
    /\ UNCHANGED <<hubVars, pageVars>>

Operate(t) == Begin(t) \/ Announce(t) \/ Step(t) \/ Tell(t) \/ Conclude(t) \/ End(t)

-----------------------------------------------------------------------------
(* Handler._serve_events and the browser's EventSource *)

\* No thread has the queue of the connection in its copy.
Unreferenced(c) == \A t \in Threads : \A d \in ToSet(todo[t]) : d.to # c

\* The browser learns of an operation: the answers made before are late.
News ==
    /\ answers' = {[op |-> a.op, late |-> TRUE] : a \in answers}
    /\ misled' = FALSE

NoNews == UNCHANGED <<answers, misled>>

\* connectSSE, at load and 3 s after an error; the handler registers a queue.
Connect(c) ==
    /\ listening = Nobody
    /\ phase[c] = "closed" /\ Unreferenced(c)
    /\ listening' = c
    /\ phase' = [phase EXCEPT ![c] = "registered"]
    /\ queue' = [queue EXCEPT ![c] = <<>>]
    /\ filled' = filled \ {c}
    /\ clients' = Append(clients, c)
    /\ UNCHANGED <<shown, answers, misled>>

\* The state is read after the queue is registered, and seeded.
Snapshot(c) ==
    /\ phase[c] = "registered"
    /\ phase' = [phase EXCEPT ![c] = "stream"]
    /\ IF listening = c
         THEN shown' = currentOp /\ News
         ELSE UNCHANGED shown /\ NoNews
    /\ UNCHANGED <<clients, queue, filled, listening>>

\* unregister(q); what is left in the queue is read by nobody.
Close(c) ==
    /\ phase' = [phase EXCEPT ![c] = "closed"]
    /\ clients' = RemoveFirst(clients, c)
    /\ queue' = [queue EXCEPT ![c] = <<>>]

\* The browser is at the other end of the connection and gets an event.
Receive(e) ==
    /\ shown' = After(e)
    /\ IF OpLevel(e) /\ e.status = "start" THEN News ELSE NoNews

\* The handler takes an event; the poison ends it, and the connection.
Deliver(c) ==
    /\ phase[c] = "stream" /\ queue[c] # <<>>
    /\ IF Head(queue[c]) = Stale
         THEN /\ Close(c)
              /\ listening' = IF listening = c THEN Nobody ELSE listening
              /\ UNCHANGED shown /\ NoNews
         ELSE /\ queue' = [queue EXCEPT ![c] = Tail(@)]
              /\ IF listening = c
                   THEN Receive(Head(queue[c]))
                   ELSE UNCHANGED shown /\ NoNews
              /\ UNCHANGED <<phase, clients, listening>>
    /\ UNCHANGED filled

\* A write to the closed connection raises.
HandlerEnds(c) ==
    /\ phase[c] # "closed" /\ listening # c
    /\ Close(c)
    /\ UNCHANGED <<filled, listening, shown, answers, misled>>

\* onerror: the browser closes its side.
Disconnect ==
    /\ listening # Nobody
    /\ listening' = Nobody
    /\ UNCHANGED <<clients, queue, filled, phase, shown, answers, misled>>

\* refreshState, at load and after presets and the autoconfigure: the answer is
\* made now and seeded when it arrives.
Refresh ==
    /\ Cardinality(answers) < MaxAnswers
    /\ answers' = answers \cup {[op |-> currentOp, late |-> FALSE]}
    /\ UNCHANGED <<clients, queue, filled, phase, listening, shown, misled>>

Seed == \E a \in answers :
    /\ shown' = a.op
    /\ misled' = (a.late /\ (misled \/ a.op # shown))
    /\ answers' = answers \ {a}
    /\ UNCHANGED <<clients, queue, filled, phase, listening>>

serverVars == <<holder, currentOp, pc, todo, stage>>

Handle(c) == (Snapshot(c) \/ Deliver(c) \/ HandlerEnds(c)) /\ UNCHANGED serverVars

Reconnect == (\E c \in Conns : Connect(c)) /\ UNCHANGED serverVars

Page == (Disconnect \/ Refresh \/ Seed) /\ UNCHANGED serverVars

-----------------------------------------------------------------------------
Next ==
    \/ \E t \in Threads : Deliveries(t) \/ Operate(t)
    \/ \E c \in Conns : Handle(c)
    \/ Reconnect
    \/ Page

\* A thread that publishes goes on, a handler writes or its write raises, and
\* a page without a stream opens one; nobody has to start an operation.
Fairness ==
    /\ \A t \in Threads : WF_vars(Deliveries(t))
    /\ \A c \in Conns : WF_vars(Handle(c))
    /\ WF_vars(Reconnect)

Spec == Init /\ [][Next]_vars /\ Fairness

-----------------------------------------------------------------------------
(* Properties *)

\* Type invariant: operation, hub and page (App, Hub, Handler, app.js).
TypeOK ==
    /\ holder \in Threads \cup {Nobody}
    /\ currentOp \in Ops \cup {NoOp}
    /\ pc \in [Threads -> {"idle", "named", "body", "told"}]
    /\ \A t \in Threads : ToSet(todo[t]) \subseteq [to : Conns, event : Event]
    /\ stage \in [Threads -> Stages]
    /\ IsInjective(clients) /\ ToSet(clients) \subseteq Conns
    /\ \A c \in Conns : Len(queue[c]) <= QueueMax /\ ToSet(queue[c]) \subseteq Event
    /\ phase \in [Conns -> {"closed", "registered", "stream"}]
    /\ listening \in Conns \cup {Nobody}
    /\ shown \in Ops \cup {NoOp}
    /\ answers \subseteq Answer
    /\ misled \in BOOLEAN
    /\ filled \subseteq Conns

\* The page has a stream and no event is on its way to it.
UpToDate(c) ==
    /\ listening = c
    /\ phase[c] = "stream"
    /\ queue[c] = <<>>
    /\ Unreferenced(c)

\* A page that the hub still serves and that has seen every event shows the
\* operation that runs (gui.py:541-542 names it before it is announced,
\* 1700-1702 register the queue before the state is read), unless an answer
\* of /api/state that the stream had overtaken has changed what it shows.
BusyShownUnlessMisled ==
    \A c \in ToSet(clients) : UpToDate(c) /\ ~ misled =>
        \A t \in Threads : pc[t] = "body" => shown = currentOp

\* Such a page shows the operation that runs ("current_op: name of op holding
\* the rig lock, or null", app.js:12), /api/state beside its stream or not
\* (app.js:1805-1806).
BusyShown ==
    \A c \in ToSet(clients) : UpToDate(c) /\ answers = {} =>
        \A t \in Threads : pc[t] = "body" => shown = currentOp

\* A page that has seen every event and shows an operation: one is running
\* ("current_op: name of op holding the rig lock, or null", app.js:12).
IdleShown ==
    \A c \in Conns : UpToDate(c) /\ answers = {} /\ holder = Nobody => shown = NoOp

\* The handler still serves a connection that the hub has dropped, and no
\* thread has anything left to put into its queue.
Dropped(c) == phase[c] = "stream" /\ c \notin ToSet(clients) /\ Unreferenced(c)

\* A connection that the hub has dropped has the poison in its queue, so that
\* it does not stay open and silent (gui.py:417-420).
DroppedIsPoisoned == \A c \in Conns : Dropped(c) => Stale \in ToSet(queue[c])

\* It has, however many threads drop and poison it at once, unless a further
\* one has filled the very place that was made (gui.py:400-420).
PoisonedUnlessFilled ==
    \A c \in Conns : Dropped(c) /\ c \notin filled => Stale \in ToSet(queue[c])

\* A page whose connection the hub has dropped leaves it and opens another,
\* with the same exception (gui.py:1700-1721, app.js:267-272).
DroppedReconnects ==
    \A c \in Conns :
        (listening = c /\ c \notin ToSet(clients)) ~> (listening # c \/ c \in filled)

=============================================================================
