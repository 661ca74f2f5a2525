----------------------------- MODULE FleetProofs -----------------------------
(* Theorems about Fleet, for every number of Pis, SET_SMBs and events.       *)
EXTENDS Fleet, LibraryLemmas

-----------------------------------------------------------------------------
(* The commands in a socket *)

Sets(q) == {k \in 1 .. Len(q) : q[k] # PING}
Pings(q) == {k \in 1 .. Len(q) : q[k] = PING}

\* SET_SMBs between two numbers, in the order in which they were sent.
Sorted(q, low, high) ==
    /\ \A k \in Sets(q) : low <= q[k] /\ q[k] <= high
    /\ \A k, l \in Sets(q) : k < l => q[k] <= q[l]

\* One sweep at a time: at most one PING.
OnePing(q) == \A k, l \in Pings(q) : k = l

\* No SET_SMB follows a PING.
PingLast(q) == \A k \in Pings(q), l \in Sets(q) : l < k

(* The Pis *)

\* The loop writes the credentials, then smb.yaml, then takes the target over.
Halfway(p) ==
    LET h == handler[p]
    IN /\ h.pc \in {"save", "swap", "probe"} => creds[p] = h.config
       /\ h.pc \in {"swap", "probe"} => conf[p] = h.config
       /\ h.pc = "probe" => target[p] = h.config

\* What comes is later than what is stored.
Lag(p) ==
    /\ conf[p] <= creds[p] /\ creds[p] <= sets
    /\ Sorted(socket[p], creds[p], sets)
    /\ handler[p].pc # "receive" =>
         /\ creds[p] <= handler[p].config /\ handler[p].config <= sets
         /\ Sorted(socket[p], handler[p].config, sets)

StoppedIsIdle == \A p \in Pis \ up : handler[p].pc = "receive" /\ socket[p] = << >>

Loaded == \A p \in up : handler[p].pc # "swap" => target[p] = conf[p]

NodesInv == (\A p \in Pis : Halfway(p) /\ Lag(p)) /\ StoppedIsIdle /\ Loaded

(* The operations *)

LocksHeld ==
    /\ taker # "idle" <=> opLock = Take
    /\ taker = "wait" <=> sweepLock = Take

PingsSwept ==
    \A p \in Pis :
        /\ OnePing(socket[p])
        /\ sweepLock = Nobody => Pings(socket[p]) = {}
        /\ sweepLock = Take => PingLast(socket[p])

\* A Pi that has answered has no SET_SMB left to carry out.
Settled(p, server) ==
    /\ Sets(socket[p]) = {}
    /\ handler[p].pc = "receive"
    /\ conf[p] = server

Reported ==
    /\ taker = "wait" => \A p \in Pis : pongs[p] # Silent => Settled(p, pongs[p].server)
    /\ taker = "fire" => \A p \in Pis : fleet[p] # Silent => Settled(p, fleet[p].server)

FleetInv == TypeOK /\ NodesInv /\ LocksHeld /\ PingsSwept /\ Reported

NodesVars == <<creds, conf, target, handler, up>>

-----------------------------------------------------------------------------
(* What the operations on a socket keep *)

LEMMA Numbers ==
    /\ Configs \subseteq Nat /\ PING \in Configs
    /\ MaxSets \in Nat /\ MaxEvents \in Nat
BY BoundsAssumption DEF Configs, PING

LEMMA Elements ==
    ASSUME NEW q \in Seq(Configs)
    PROVE  Len(q) \in Nat /\ \A k \in 1 .. Len(q) : q[k] \in Configs /\ q[k] \in Nat
BY LenProperties, ElementOfSeq, Numbers

\* A socket with some of the commands of another, in the same order.
LEMMA Thinned ==
    ASSUME NEW q \in Seq(Configs), NEW r \in Seq(Configs),
           NEW f \in [1 .. Len(r) -> 1 .. Len(q)],
           \A k \in 1 .. Len(r) : r[k] = q[f[k]],
           \A k, l \in 1 .. Len(r) : k < l => f[k] < f[l]
    PROVE  /\ \A low, high : Sorted(q, low, high) => Sorted(r, low, high)
           /\ OnePing(q) => OnePing(r)
           /\ PingLast(q) => PingLast(r)
           /\ Sets(q) = {} => Sets(r) = {}
           /\ Pings(q) = {} => Pings(r) = {}
<1>0. Len(q) \in Nat /\ Len(r) \in Nat
  BY LenProperties
<1>1. \A k \in Sets(r) : k \in 1 .. Len(r) /\ f[k] \in Sets(q) /\ r[k] = q[f[k]]
  BY DEF Sets
<1>2. \A k \in Pings(r) : k \in 1 .. Len(r) /\ f[k] \in Pings(q)
  BY DEF Pings
<1>3. \A low, high : Sorted(q, low, high) => Sorted(r, low, high)
  BY <1>1 DEF Sorted
<1>4. OnePing(q) => OnePing(r)
  <2> SUFFICES ASSUME OnePing(q), NEW k \in Pings(r), NEW l \in Pings(r), k # l
               PROVE  FALSE
      BY DEF OnePing
  <2>1. k \in 1 .. Len(r) /\ l \in 1 .. Len(r) /\ f[k] = f[l]
      BY <1>2 DEF OnePing
  <2>2. f[k] \in Nat /\ f[l] \in Nat
      BY <2>1, <1>0
  <2> QED
      BY <2>1, <2>2, <1>0
<1>5. PingLast(q) => PingLast(r)
  <2> SUFFICES ASSUME PingLast(q), NEW k \in Pings(r), NEW l \in Sets(r), ~ (l < k)
               PROVE  FALSE
      BY DEF PingLast
  <2>1. k \in 1 .. Len(r) /\ l \in 1 .. Len(r) /\ f[l] < f[k]
      BY <1>1, <1>2 DEF PingLast
  <2>2. f[k] \in Nat /\ f[l] \in Nat
      BY <2>1, <1>0
  <2>3. k # l
      BY <2>1, <2>2
  <2> QED
      BY <2>1, <2>2, <2>3, <1>0
<1> QED
  BY <1>1, <1>2, <1>3, <1>4, <1>5

LEMMA TailKeeps ==
    ASSUME NEW q \in Seq(Configs), q # << >>
    PROVE  /\ Tail(q) \in Seq(Configs)
           /\ \A low, high : Sorted(q, low, high) => Sorted(Tail(q), low, high)
           /\ OnePing(q) => OnePing(Tail(q))
           /\ PingLast(q) => PingLast(Tail(q))
           /\ Sets(q) = {} => Sets(Tail(q)) = {}
           /\ Pings(q) = {} => Pings(Tail(q)) = {}
<1>1. Len(q) \in Nat /\ Len(q) # 0
  BY LenProperties, EmptySeq
<1>2. /\ Tail(q) \in Seq(Configs) /\ Len(Tail(q)) = Len(q) - 1
      /\ \A k \in 1 .. Len(Tail(q)) : Tail(q)[k] = q[k + 1]
  BY HeadTailProperties
<1> DEFINE f == [k \in 1 .. Len(Tail(q)) |-> k + 1]
<1>3. /\ f \in [1 .. Len(Tail(q)) -> 1 .. Len(q)]
      /\ \A k \in 1 .. Len(Tail(q)) : Tail(q)[k] = q[f[k]]
      /\ \A k, l \in 1 .. Len(Tail(q)) : k < l => f[k] < f[l]
  BY <1>1, <1>2
<1> HIDE DEF f
<1> QED
  BY <1>2, <1>3, Thinned

\* The command at the head, and what comes after it.
LEMMA HeadOfSocket ==
    ASSUME NEW q \in Seq(Configs), q # << >>
    PROVE  /\ Head(q) \in Configs
           /\ \A low, high : Sorted(q, low, high) /\ Head(q) # PING =>
                low <= Head(q) /\ Head(q) <= high /\ Sorted(Tail(q), Head(q), high)
           /\ PingLast(q) /\ Head(q) = PING => Sets(Tail(q)) = {}
           /\ Sets(q) = {} => Head(q) = PING
<1>1. Len(q) \in Nat /\ Len(q) # 0 /\ 1 \in 1 .. Len(q)
  BY LenProperties, EmptySeq
<1>2. /\ Head(q) = q[1] /\ Head(q) \in Configs
      /\ Len(Tail(q)) = Len(q) - 1
      /\ \A k \in 1 .. Len(Tail(q)) : Tail(q)[k] = q[k + 1]
  BY HeadTailProperties, Elements, <1>1
<1>3. \A k \in Sets(Tail(q)) : k \in Nat /\ k + 1 \in Sets(q) /\ 1 < k + 1 /\ Tail(q)[k] = q[k + 1]
  BY <1>1, <1>2 DEF Sets
<1>4. ASSUME NEW low, NEW high, Sorted(q, low, high), Head(q) # PING
      PROVE  low <= Head(q) /\ Head(q) <= high /\ Sorted(Tail(q), Head(q), high)
  <2>1. 1 \in Sets(q)
      BY <1>1, <1>2, <1>4 DEF Sets
  <2>2. Sorted(Tail(q), low, high)
      BY <1>4, TailKeeps
  <2>3. \A k \in Sets(Tail(q)) : Head(q) <= Tail(q)[k]
      BY <2>1, <1>2, <1>3, <1>4 DEF Sorted
  <2> QED
      BY <2>1, <2>2, <2>3, <1>2, <1>4 DEF Sorted
<1>5. ASSUME PingLast(q), Head(q) = PING PROVE Sets(Tail(q)) = {}
  <2>1. 1 \in Pings(q)
      BY <1>1, <1>2, <1>5 DEF Pings
  <2> QED
      BY <2>1, <1>3, <1>5 DEF PingLast
<1>6. Sets(q) = {} => Head(q) = PING
  BY <1>1, <1>2 DEF Sets
<1> QED
  BY <1>2, <1>4, <1>5, <1>6

\* A PING is taken out.
LEMMA UnaskedKeeps ==
    ASSUME NEW q \in Seq(Configs)
    PROVE  /\ RemoveFirst(q, PING) \in Seq(Configs)
           /\ \A low, high : Sorted(q, low, high) => Sorted(RemoveFirst(q, PING), low, high)
           /\ Sets(q) = {} => Sets(RemoveFirst(q, PING)) = {}
           /\ q = << >> => RemoveFirst(q, PING) = << >>
           /\ OnePing(q) => Pings(RemoveFirst(q, PING)) = {}
<1> DEFINE r == RemoveFirst(q, PING)
<1>1. Len(q) \in Nat /\ (q = << >> <=> Len(q) = 0)
  BY LenProperties, EmptySeq
<1>2. CASE \A j \in 1 .. Len(q) : q[j] # PING
  <2>1. r = q
      BY <1>2, RemoveFirstProperties
  <2>2. Pings(q) = {}
      BY <1>2 DEF Pings
  <2> QED
      BY <2>1, <2>2
<1>3. CASE \E k \in 1 .. Len(q) : q[k] = PING
  <2>1. PICK k \in 1 .. Len(q) :
              q[k] = PING /\ (\A j \in 1 .. k - 1 : q[j] # PING) /\ r = RemoveAt(q, k)
      BY <1>3, RemoveFirstProperties
  <2>2. /\ r \in Seq(Configs) /\ Len(r) = Len(q) - 1
        /\ \A j \in 1 .. Len(q) - 1 : r[j] = IF j < k THEN q[j] ELSE q[j + 1]
      BY <2>1, RemoveAtProperties
  <2> DEFINE f == [j \in 1 .. Len(r) |-> IF j < k THEN j ELSE j + 1]
  <2> HIDE DEF r
  <2>3. /\ f \in [1 .. Len(r) -> 1 .. Len(q)]
        /\ \A j \in 1 .. Len(r) : r[j] = q[f[j]]
        /\ \A j, l \in 1 .. Len(r) : j < l => f[j] < f[l]
        /\ \A j \in 1 .. Len(r) : f[j] # k
      BY <1>1, <2>1, <2>2
  <2> HIDE DEF f
  <2>4. /\ \A low, high : Sorted(q, low, high) => Sorted(r, low, high)
        /\ Sets(q) = {} => Sets(r) = {}
      BY <2>2, <2>3, Thinned
  <2>5. ASSUME OnePing(q) PROVE Pings(r) = {}
    <3> SUFFICES ASSUME NEW j \in Pings(r) PROVE FALSE
        OBVIOUS
    <3>1. j \in 1 .. Len(r) /\ f[j] \in Pings(q)
        BY <2>3 DEF Pings
    <3>2. k \in Pings(q)
        BY <2>1 DEF Pings
    <3> QED
        BY <3>1, <3>2, <2>3, <2>5 DEF OnePing
  <2>6. q # << >>
      BY <1>1, <2>1
  <2> QED
      BY <2>2, <2>4, <2>5, <2>6 DEF r
<1> QED
  BY <1>2, <1>3

LEMMA AppendElements ==
    ASSUME NEW q \in Seq(Configs), NEW c \in Configs
    PROVE  /\ Append(q, c) \in Seq(Configs)
           /\ Sets(Append(q, c)) = IF c = PING THEN Sets(q) ELSE Sets(q) \cup {Len(q) + 1}
           /\ Pings(Append(q, c)) = IF c = PING THEN Pings(q) \cup {Len(q) + 1} ELSE Pings(q)
           /\ Append(q, c)[Len(q) + 1] = c
           /\ \A k \in Sets(q) : k < Len(q) + 1 /\ Append(q, c)[k] = q[k]
           /\ \A k \in Pings(q) : k < Len(q) + 1
<1>1. Len(q) \in Nat
  BY LenProperties
<1>2. /\ Append(q, c) \in Seq(Configs) /\ Len(Append(q, c)) = Len(q) + 1
      /\ \A k \in 1 .. Len(q) : Append(q, c)[k] = q[k]
      /\ Append(q, c)[Len(q) + 1] = c
  BY AppendProperties
<1>3. \A k : k \in 1 .. Len(q) + 1 <=> k \in 1 .. Len(q) \/ k = Len(q) + 1
  BY <1>1
<1>4. Len(q) + 1 \notin 1 .. Len(q) /\ \A k \in 1 .. Len(q) : k < Len(q) + 1
  BY <1>1
<1> QED
  BY <1>2, <1>3, <1>4 DEF Sets, Pings

\* A new SET_SMB has a number no smaller than any before.
LEMMA AppendSet ==
    ASSUME NEW q \in Seq(Configs), NEW c \in Configs, c # PING,
           NEW low \in Nat, NEW high \in Nat, low <= c, high <= c, Sorted(q, low, high)
    PROVE  Sorted(Append(q, c), low, c)
<1>1. Len(q) \in Nat /\ c \in Nat
  BY LenProperties, Numbers
<1>2. \A k \in Sets(q) : k \in 1 .. Len(q) /\ q[k] \in Nat
  BY Elements DEF Sets
<1> DEFINE r == Append(q, c)
<1>3. /\ Sets(r) = Sets(q) \cup {Len(q) + 1}
      /\ r[Len(q) + 1] = c
      /\ \A k \in Sets(q) : k < Len(q) + 1 /\ r[k] = q[k]
  BY AppendElements
<1> HIDE DEF r
<1>4. \A k \in Sets(r) : low <= r[k] /\ r[k] <= c
  BY <1>1, <1>2, <1>3 DEF Sorted
<1>5. ASSUME NEW k \in Sets(r), NEW l \in Sets(r), k < l PROVE r[k] <= r[l]
  <2>1. CASE l = Len(q) + 1
      BY <2>1, <1>3, <1>4
  <2>2. CASE l # Len(q) + 1
    <3>1. l \in Sets(q) /\ k # Len(q) + 1
        BY <2>2, <1>1, <1>2, <1>3, <1>5
    <3>2. k \in Sets(q)
        BY <3>1, <1>3
    <3> QED
        BY <3>1, <3>2, <1>3, <1>5 DEF Sorted
  <2> QED
      BY <2>1, <2>2
<1>6. Sorted(r, low, c)
  BY <1>4, <1>5 DEF Sorted
<1> QED
  BY <1>6 DEF r

LEMMA AppendPing ==
    ASSUME NEW q \in Seq(Configs)
    PROVE  /\ \A low, high : Sorted(q, low, high) => Sorted(Append(q, PING), low, high)
           /\ Pings(q) = {} => OnePing(Append(q, PING)) /\ PingLast(Append(q, PING))
           /\ Sets(Append(q, PING)) = Sets(q)
<1> DEFINE r == Append(q, PING)
<1>1. /\ Sets(r) = Sets(q)
      /\ Pings(r) = Pings(q) \cup {Len(q) + 1}
      /\ \A k \in Sets(q) : k < Len(q) + 1 /\ r[k] = q[k]
  BY AppendElements, Numbers
<1> HIDE DEF r
<1>2. \A low, high : Sorted(q, low, high) => Sorted(r, low, high)
  <2> SUFFICES ASSUME NEW low, NEW high, Sorted(q, low, high) PROVE Sorted(r, low, high)
      OBVIOUS
  <2>1. \A k \in Sets(r) : low <= r[k] /\ r[k] <= high
      BY <1>1 DEF Sorted
  <2>2. \A k, l \in Sets(r) : k < l => r[k] <= r[l]
      BY <1>1 DEF Sorted
  <2> QED
      BY <2>1, <2>2 DEF Sorted
<1>3. Pings(q) = {} => OnePing(r) /\ PingLast(r)
  BY <1>1 DEF OnePing, PingLast
<1> QED
  BY <1>1, <1>2, <1>3 DEF r

-----------------------------------------------------------------------------
(* Types *)

GuiTypeOK ==
    /\ socket \in [Pis -> Seq(Configs)]
    /\ sets \in 0 .. MaxSets
    /\ opLock \in {Take, SetSmb, Nobody}
    /\ sweepLock \in {Take, PingLoop, Asked, Nobody}
    /\ looper \in {"idle", "sweep", "wait"}
    /\ taker \in {"idle", "sweep", "wait", "fire"}
    /\ pongs \in [Pis -> Pong]
    /\ acks \in SUBSET Pis
    /\ fleet \in [Pis -> Pong]
    /\ armed \in BOOLEAN

LEMMA TypeParts == TypeOK <=> NodeTypeOK /\ GuiTypeOK
BY DEF TypeOK, GuiTypeOK

LEMMA SilentPongs == Silent \in Pong /\ NoPongs \in [Pis -> Pong]
BY DEF Pong, NoPongs

LEMMA EventTyped ==
    ASSUME events \in 0 .. MaxEvents, Event \/ UNCHANGED events
    PROVE  events' \in 0 .. MaxEvents
<1>1. MaxEvents \in Nat
  BY Numbers
<1>2. CASE Event
  BY <1>1, <1>2 DEF Event
<1> QED
  BY <1>2

\* A broadcast reaches the sockets of some of the running Pis.
LEMMA BroadcastReaches ==
    ASSUME NEW c \in Configs, socket \in [Pis -> Seq(Configs)], Broadcast(c, socket)
    PROVE  /\ socket' \in [Pis -> Seq(Configs)]
           /\ \A p \in Pis : \/ socket'[p] = socket[p]
                             \/ p \in up /\ socket'[p] = Append(socket[p], c)
           /\ Event \/ UNCHANGED events
<1>1. PICK heard \in SUBSET up :
        /\ socket' = [p \in Pis |-> IF p \in heard THEN Append(socket[p], c) ELSE socket[p]]
        /\ IF heard = up THEN UNCHANGED events ELSE Event
  BY DEF Broadcast
<1>2. \A p \in Pis : Append(socket[p], c) \in Seq(Configs)
  BY AppendProperties
<1> QED
  BY <1>1, <1>2

LEMMA UnaskedTyped ==
    ASSUME socket \in [Pis -> Seq(Configs)]
    PROVE  Unasked \in [Pis -> Seq(Configs)]
BY UnaskedKeeps DEF Unasked

LEMMA ArmsIsBoolean == \A ps : Arms(ps) \in BOOLEAN
BY DEF Arms

LEMMA SweepBeginTyped ==
    ASSUME TypeOK, NEW who \in {Take, PingLoop, Asked}, SweepBegin(who),
           UNCHANGED <<diskVars, probeVars, handler, up, worldVars, sets, opLock, acks, fleet, armed>>,
           taker' \in {"idle", "sweep", "wait", "fire"},
           looper' \in {"idle", "sweep", "wait"}
    PROVE  TypeOK'
<1>1. /\ Broadcast(PING, socket) /\ sweepLock' = who /\ pongs' = NoPongs
      /\ UNCHANGED <<creds, conf, target, reachable, probe, handler, up, health, serving>>
      /\ UNCHANGED <<sets, opLock, acks, fleet, armed>>
  BY DEF SweepBegin, diskVars, probeVars, worldVars
<1>2. socket' \in [Pis -> Seq(Configs)] /\ (Event \/ UNCHANGED events)
  BY <1>1, BroadcastReaches, Numbers DEF TypeOK
<1>3. events' \in 0 .. MaxEvents
  BY <1>2, EventTyped DEF TypeOK, NodeTypeOK
<1>4. NodeTypeOK'
  BY <1>1, <1>3 DEF TypeOK, NodeTypeOK
<1>5. GuiTypeOK'
  BY <1>1, <1>2, SilentPongs DEF TypeOK, GuiTypeOK
<1> QED
  BY <1>4, <1>5, TypeParts DEF TypeOK, GuiTypeOK

LEMMA SweepEndTyped ==
    ASSUME TypeOK, NEW who, SweepEnd(who),
           UNCHANGED <<diskVars, probeVars, handler, up, worldVars, sets, acks>>,
           taker' \in {"idle", "sweep", "wait", "fire"},
           looper' \in {"idle", "sweep", "wait"},
           opLock' \in {Take, SetSmb, Nobody},
           fleet' \in [Pis -> Pong]
    PROVE  TypeOK'
<1>1. /\ PongsIn /\ sweepLock' = Nobody /\ pongs' = NoPongs /\ socket' = Unasked
      /\ armed' = Arms(pongs)
      /\ UNCHANGED <<creds, conf, target, reachable, probe, handler, up, health, serving>>
      /\ UNCHANGED <<sets, acks>>
  BY DEF SweepEnd, diskVars, probeVars, worldVars
<1>2. events' \in 0 .. MaxEvents
  BY <1>1, EventTyped DEF TypeOK, NodeTypeOK, PongsIn
<1>3. NodeTypeOK'
  BY <1>1, <1>2 DEF TypeOK, NodeTypeOK
<1>4. socket' \in [Pis -> Seq(Configs)] /\ armed' \in BOOLEAN
  BY <1>1, UnaskedTyped, ArmsIsBoolean DEF TypeOK
<1>5. GuiTypeOK'
  BY <1>1, <1>4, SilentPongs DEF TypeOK, GuiTypeOK
<1> QED
  BY <1>3, <1>5 DEF TypeOK, GuiTypeOK

LEMMA GuiTyped ==
    ASSUME TypeOK,
           Requests \/ PingLoopStep \/ AskedSweeps \/ AskedEnds \/ TakeStep \/ SetEnd
    PROVE  TypeOK'
<1>0. NodeTypeOK /\ GuiTypeOK
  BY TypeParts
<1>1. CASE TakeBegin
  <2>1. NodeTypeOK'
      BY <1>1, <1>0 DEF TakeBegin, NodeTypeOK, nodeVars, diskVars, probeVars, worldVars
  <2>2. GuiTypeOK'
      BY <1>1, <1>0 DEF TakeBegin, TakeFree, GuiTypeOK
  <2> QED
      BY <2>1, <2>2 DEF TypeOK, GuiTypeOK
<1>2. CASE SetBegin
  <2>1. /\ sets < MaxSets /\ sets' = sets + 1 /\ opLock' = SetSmb /\ acks' = {}
        /\ Broadcast(sets + 1, socket)
        /\ UNCHANGED <<creds, conf, target, reachable, probe, handler, up, health, serving>>
        /\ UNCHANGED <<sweepLock, looper, taker, pongs, fleet, armed>>
      BY <1>2 DEF SetBegin, diskVars, probeVars, worldVars
  <2>2. sets' \in 0 .. MaxSets /\ sets + 1 \in Configs
      BY <2>1, <1>0, Numbers DEF GuiTypeOK, Configs
  <2>3. socket' \in [Pis -> Seq(Configs)] /\ (Event \/ UNCHANGED events)
      BY <2>1, <2>2, <1>0, BroadcastReaches DEF GuiTypeOK
  <2>4. events' \in 0 .. MaxEvents
      BY <2>3, <1>0, EventTyped DEF NodeTypeOK
  <2>5. NodeTypeOK'
      BY <2>1, <2>4, <1>0 DEF NodeTypeOK
  <2>6. GuiTypeOK'
      BY <2>1, <2>2, <2>3, <1>0 DEF GuiTypeOK
  <2> QED
      BY <2>5, <2>6 DEF TypeOK, GuiTypeOK
<1>3. CASE LoopSweeps
  BY <1>3, <1>0, SweepBeginTyped DEF LoopSweeps, GuiTypeOK
<1>4. CASE LoopEnds
  BY <1>4, <1>0, SweepEndTyped DEF LoopEnds, GuiTypeOK
<1>5. CASE TakeSweeps
  BY <1>5, <1>0, SweepBeginTyped DEF TakeSweeps, GuiTypeOK
<1>6. CASE TakeDecides
  BY <1>6, <1>0, SweepEndTyped DEF TakeDecides, GuiTypeOK
<1>7. CASE Fire
  <2>1. NodeTypeOK'
      BY <1>7, <1>0 DEF Fire, NodeTypeOK, nodeVars, diskVars, probeVars, worldVars
  <2>2. GuiTypeOK'
      BY <1>7, <1>0, SilentPongs DEF Fire, GuiTypeOK
  <2> QED
      BY <2>1, <2>2 DEF TypeOK, GuiTypeOK
<1>8. CASE SetEnd
  <2>1. events' \in 0 .. MaxEvents
      BY <1>8, <1>0, EventTyped DEF SetEnd, AcksIn, NodeTypeOK
  <2>2. NodeTypeOK'
      BY <1>8, <2>1, <1>0 DEF SetEnd, NodeTypeOK, diskVars, probeVars, worldVars
  <2>3. GuiTypeOK'
      BY <1>8, <1>0 DEF SetEnd, GuiTypeOK
  <2> QED
      BY <2>2, <2>3 DEF TypeOK, GuiTypeOK
<1>9. CASE LoopLooks
  <2>1. NodeTypeOK'
      BY <1>9, <1>0 DEF LoopLooks, NodeTypeOK, nodeVars, diskVars, probeVars, worldVars
  <2>2. GuiTypeOK'
      BY <1>9, <1>0 DEF LoopLooks, GuiTypeOK
  <2> QED
      BY <2>1, <2>2 DEF TypeOK, GuiTypeOK
<1>10. CASE AskedSweeps
  BY <1>10, <1>0, SweepBeginTyped DEF AskedSweeps, GuiTypeOK
<1>11. CASE AskedEnds
  BY <1>11, <1>0, SweepEndTyped DEF AskedEnds, GuiTypeOK
<1> QED
  BY <1>1, <1>2, <1>3, <1>4, <1>5, <1>6, <1>7, <1>8, <1>9, <1>10, <1>11
     DEF Requests, PingLoopStep, TakeStep

\* The handler of a Pi, whatever it does.
LEMMA HandlerTyped ==
    ASSUME NodeTypeOK, NEW p \in Pis
    PROVE  /\ handler[p].config \in Configs
           /\ \A pc \in {"receive", "creds", "save", "swap", "probe"} :
                [handler EXCEPT ![p].pc = pc] \in [Pis -> Handler]
           /\ \A v \in Configs : [handler EXCEPT ![p] = [pc |-> "creds", config |-> v]]
                                   \in [Pis -> Handler]
           /\ [handler EXCEPT ![p] = Receive] \in [Pis -> Handler]
<1>1. handler[p] \in Handler /\ handler \in [Pis -> Handler]
  BY DEF NodeTypeOK
<1>2. Receive \in Handler
  BY Numbers DEF Receive, Handler, PING
<1> QED
  BY <1>1, <1>2 DEF Handler

LEMMA NodeStepTyped ==
    ASSUME NodeTypeOK, NEW p \in Pis,
           \/ Write(p) \/ WriteFails(p) \/ Swap(p) \/ ProbeNow(p)
           \/ ProbeBegin(p) \/ ProbeEnd(p) \/ Stop(p) \/ Boot(p) \/ Change
    PROVE  NodeTypeOK'
<1> USE DEF NodeTypeOK, diskVars, probeVars, worldVars
<1>1. CASE Write(p)
  <2>1. PICK pc \in {"save", "swap"} : handler' = [handler EXCEPT ![p].pc = pc]
      BY <1>1 DEF Write, Goto
  <2>2. [handler EXCEPT ![p].pc = pc] \in [Pis -> Handler]
      BY HandlerTyped
  <2>3. handler' \in [Pis -> Handler]
      BY <2>1, <2>2, Zenon
  <2>4. creds' \in [Pis -> Configs] /\ conf' \in [Pis -> Configs]
      BY <1>1, HandlerTyped DEF Write
  <2> QED
      BY <1>1, <2>3, <2>4 DEF Write
<1>2. CASE WriteFails(p)
  BY <1>2, HandlerTyped, EventTyped DEF WriteFails
<1>3. CASE Swap(p)
  BY <1>3, HandlerTyped DEF Swap, Goto
<1>4. CASE ProbeNow(p)
  <2>1. handler' \in [Pis -> Handler]
    <3>1. handler' = [handler EXCEPT ![p] = Receive]
        BY <1>4 DEF ProbeNow
    <3> QED
        BY <3>1, HandlerTyped
  <2>2. reachable' \in [Pis -> BOOLEAN]
      BY <1>4 DEF ProbeNow
  <2> QED
      BY <1>4, <2>1, <2>2 DEF ProbeNow
<1>5. CASE ProbeBegin(p)
  BY <1>5 DEF ProbeBegin
<1>6. CASE ProbeEnd(p)
  BY <1>6 DEF ProbeEnd
<1>7. CASE Stop(p)
  BY <1>7, HandlerTyped, EventTyped DEF Stop
<1>8. CASE Boot(p)
  BY <1>8 DEF Boot
<1>9. CASE Change
  <2>1. events' \in 0 .. MaxEvents
      BY <1>9, EventTyped DEF Change
  <2>2. serving' \in SUBSET Configs /\ health' \in [Pis -> Healths]
      BY <1>9 DEF Change
  <2> QED
      BY <1>9, <2>1, <2>2 DEF Change
<1> QED
  BY <1>1, <1>2, <1>3, <1>4, <1>5, <1>6, <1>7, <1>8, <1>9

LEMMA PiTyped ==
    ASSUME TypeOK, NEW p \in Pis,
           LoopStep(p) \/ SilentStep(p) \/ Probing(p) \/ Started(p) \/ StopNode(p)
    PROVE  TypeOK'
<1>0. NodeTypeOK /\ GuiTypeOK
  BY TypeParts
<1>1. CASE AnswerPing(p)
  <2>1. Tail(socket[p]) \in Seq(Configs)
      BY <1>1, <1>0, TailKeeps DEF AnswerPing, GuiTypeOK
  <2>2. [server |-> target[p], reachable |-> reachable[p], health |-> health[p]] \in Pong
      BY <1>0 DEF Pong, NodeTypeOK
  <2>3. NodeTypeOK'
      BY <1>1, <1>0 DEF AnswerPing, NodeTypeOK, nodeVars, diskVars, probeVars, worldVars
  <2>4. GuiTypeOK'
      BY <1>1, <1>0, <2>1, <2>2 DEF AnswerPing, GuiTypeOK
  <2> QED
      BY <2>3, <2>4 DEF TypeOK, GuiTypeOK
<1>2. CASE AnswerSet(p)
  <2>1. Tail(socket[p]) \in Seq(Configs) /\ Head(socket[p]) \in Configs
      BY <1>2, <1>0, TailKeeps, HeadOfSocket DEF AnswerSet, GuiTypeOK
  <2>2. handler' \in [Pis -> Handler]
      BY <1>2, <1>0, <2>1, HandlerTyped DEF AnswerSet, TakeSet
  <2>3. NodeTypeOK'
      BY <1>2, <1>0, <2>2 DEF AnswerSet, TakeSet, NodeTypeOK, diskVars, probeVars, worldVars
  <2>4. GuiTypeOK'
      BY <1>2, <1>0, <2>1 DEF AnswerSet, GuiTypeOK
  <2> QED
      BY <2>3, <2>4 DEF TypeOK, GuiTypeOK
<1>3. CASE Acknowledge(p)
  <2>1. NodeTypeOK'
      BY <1>3, <1>0, NodeStepTyped DEF Acknowledge
  <2>2. GuiTypeOK'
      BY <1>3, <1>0 DEF Acknowledge, GuiTypeOK
  <2> QED
      BY <2>1, <2>2 DEF TypeOK, GuiTypeOK
<1>4. CASE SilentStep(p) \/ Probing(p) \/ Started(p)
  <2>1. NodeTypeOK'
      BY <1>4, <1>0, NodeStepTyped DEF SilentStep, Probing, Started
  <2>2. GuiTypeOK'
      BY <1>4, <1>0 DEF SilentStep, Probing, Started, GuiTypeOK, guiVars
  <2> QED
      BY <2>1, <2>2 DEF TypeOK, GuiTypeOK
<1>5. CASE StopNode(p)
  <2>1. NodeTypeOK'
      BY <1>5, <1>0, NodeStepTyped DEF StopNode
  <2>2. GuiTypeOK'
      BY <1>5, <1>0, EmptySeq DEF StopNode, GuiTypeOK
  <2> QED
      BY <2>1, <2>2 DEF TypeOK, GuiTypeOK
<1> QED
  BY <1>1, <1>2, <1>3, <1>4, <1>5 DEF LoopStep

LEMMA TypeInitially == Init => TypeOK
<1> SUFFICES ASSUME Init PROVE TypeOK
  OBVIOUS
<1>1. 0 \in Configs /\ 0 \in 0 .. MaxSets /\ 0 \in 0 .. MaxEvents
  BY Numbers DEF PING, Configs
<1>2. Receive \in Handler
  BY <1>1 DEF Receive, Handler
<1>3. NodeTypeOK
  BY <1>1, <1>2, HealthsAssumption DEF Init, NodeInit, NodeTypeOK
<1>4. GuiTypeOK
  BY <1>1, EmptySeq, SilentPongs DEF Init, GuiTypeOK
<1> QED
  BY <1>3, <1>4 DEF TypeOK, GuiTypeOK

LEMMA TypeKeeps == TypeOK /\ [Next]_vars => TypeOK'
<1> SUFFICES ASSUME TypeOK, [Next]_vars PROVE TypeOK'
  OBVIOUS
<1>1. CASE Requests \/ PingLoopStep \/ AskedSweeps \/ AskedEnds \/ TakeStep \/ SetEnd
  BY <1>1, GuiTyped
<1>2. ASSUME NEW p \in Pis,
             LoopStep(p) \/ SilentStep(p) \/ Probing(p) \/ Started(p) \/ StopNode(p)
      PROVE  TypeOK'
  BY <1>2, PiTyped
<1>3. CASE (Change /\ UNCHANGED guiVars) \/ UNCHANGED vars
  <2>1. NodeTypeOK'
    <3>1. CASE Change
      <4>1. events' \in 0 .. MaxEvents
          BY <3>1, EventTyped DEF Change, TypeOK, NodeTypeOK
      <4>2. serving' \in SUBSET Configs /\ health' \in [Pis -> Healths]
          BY <3>1 DEF Change, TypeOK, NodeTypeOK
      <4> QED
          BY <3>1, <4>1, <4>2 DEF Change, TypeOK, NodeTypeOK, diskVars, probeVars
    <3>2. CASE UNCHANGED vars
        BY <3>2 DEF vars, nodeVars, diskVars, probeVars, worldVars, TypeOK, NodeTypeOK
    <3> QED
        BY <1>3, <3>1, <3>2
  <2>2. GuiTypeOK'
      BY <1>3 DEF vars, guiVars, TypeOK, GuiTypeOK
  <2> QED
      BY <2>1, <2>2 DEF TypeOK, GuiTypeOK
<1> QED
  BY <1>1, <1>2, <1>3 DEF Next

-----------------------------------------------------------------------------
(* The Pis carry out the SET_SMBs in their order *)

\* Nothing is written, and a socket gets no other SET_SMB.
LEMMA NodesUntouched ==
    ASSUME NodesInv, UNCHANGED NodesVars, UNCHANGED sets,
           \A p \in Pis :
             /\ \A low, high : Sorted(socket[p], low, high) => Sorted(socket'[p], low, high)
             /\ p \notin up /\ socket[p] = << >> => socket'[p] = << >>
    PROVE  NodesInv'
<1>1. creds' = creds /\ conf' = conf /\ target' = target /\ handler' = handler /\ up' = up /\ sets' = sets
  BY DEF NodesVars
<1>2. \A p \in Pis : Halfway(p)'
  BY <1>1 DEF NodesInv, Halfway
<1>3. \A p \in Pis : Lag(p)'
  BY <1>1 DEF NodesInv, Lag
<1>4. StoppedIsIdle' /\ Loaded'
  BY <1>1 DEF NodesInv, StoppedIsIdle, Loaded
<1> QED
  BY <1>2, <1>3, <1>4 DEF NodesInv

\* One Pi moves.
LEMMA OnePiMoves ==
    ASSUME NodesInv, NEW p \in Pis, UNCHANGED sets,
           \A q \in Pis \ {p} :
             /\ creds'[q] = creds[q] /\ conf'[q] = conf[q] /\ target'[q] = target[q]
             /\ handler'[q] = handler[q] /\ socket'[q] = socket[q]
             /\ q \in up' <=> q \in up,
           up' \in SUBSET Pis,
           Halfway(p)', Lag(p)',
           p \in up' /\ handler'[p].pc # "swap" => target'[p] = conf'[p],
           p \notin up' => handler'[p].pc = "receive" /\ socket'[p] = << >>
    PROVE  NodesInv'
<1>1. ASSUME NEW q \in Pis PROVE Halfway(q)' /\ Lag(q)'
  <2>1. CASE q # p
      BY <2>1 DEF NodesInv, Halfway, Lag
  <2> QED
      BY <2>1
<1>2. StoppedIsIdle' /\ Loaded'
  BY DEF NodesInv, StoppedIsIdle, Loaded
<1> QED
  BY <1>1, <1>2 DEF NodesInv

LEMMA SocketType == TypeOK => \A p \in Pis : socket[p] \in Seq(Configs)
BY DEF TypeOK

LEMMA PiNumbers ==
    ASSUME TypeOK, NEW p \in Pis
    PROVE  /\ creds[p] \in Nat /\ conf[p] \in Nat /\ target[p] \in Nat /\ sets \in Nat
           /\ handler[p] \in Handler /\ handler[p].config \in Nat
           /\ handler[p].pc \in {"receive", "creds", "save", "swap", "probe"}
<1>1. /\ creds[p] \in Configs /\ conf[p] \in Configs /\ target[p] \in Configs
      /\ sets \in 0 .. MaxSets /\ handler[p] \in Handler
  BY DEF TypeOK, NodeTypeOK
<1>2. /\ handler[p].config \in Configs
      /\ handler[p].pc \in {"receive", "creds", "save", "swap", "probe"}
  BY <1>1 DEF Handler
<1>3. \A c \in Configs : c \in Nat
  BY Numbers
<1>4. sets \in Nat
  BY <1>1, Numbers
<1>5. creds[p] \in Nat /\ conf[p] \in Nat /\ target[p] \in Nat /\ handler[p].config \in Nat
  BY <1>1, <1>2, <1>3
<1> QED
  BY <1>1, <1>2, <1>4, <1>5, Zenon

LEMMA SetBeginNodes ==
    ASSUME TypeOK, NodesInv, SetBegin
    PROVE  NodesInv'
<1>1. /\ sets < MaxSets /\ sets' = sets + 1
      /\ Broadcast(sets + 1, socket)
      /\ creds' = creds /\ conf' = conf /\ target' = target /\ handler' = handler /\ up' = up
  BY DEF SetBegin, diskVars, probeVars
<1>2. sets \in Nat /\ sets + 1 \in Configs /\ sets + 1 # PING
  BY <1>1, Numbers DEF TypeOK, Configs, PING
<1>3. \A p \in Pis : \/ socket'[p] = socket[p]
                     \/ p \in up /\ socket'[p] = Append(socket[p], sets + 1)
  BY <1>1, <1>2, BroadcastReaches DEF TypeOK
<1>4. ASSUME NEW p \in Pis, NEW low \in Nat, low <= sets, Sorted(socket[p], low, sets)
      PROVE  Sorted(socket'[p], low, sets')
  <2>0. socket[p] \in Seq(Configs)
      BY SocketType
  <2>1. CASE socket'[p] = socket[p]
    <3>1. \A k \in Sets(socket[p]) : socket[p][k] \in Nat
        BY <2>0, Elements DEF Sets
    <3>2. \A k \in Sets(socket[p]) : socket[p][k] <= sets + 1
        BY <3>1, <1>2, <1>4 DEF Sorted
    <3> QED
        BY <2>1, <3>2, <1>1, <1>4 DEF Sorted
  <2>2. CASE socket'[p] = Append(socket[p], sets + 1)
    <3>1. low <= sets + 1 /\ sets <= sets + 1
        BY <1>2, <1>4
    <3> QED
        BY <2>0, <2>2, <3>1, <1>1, <1>2, <1>4, AppendSet
  <2> QED
      BY <2>1, <2>2, <1>3
<1>5. ASSUME NEW p \in Pis PROVE Halfway(p)' /\ Lag(p)'
  <2>1. Halfway(p) /\ Lag(p)
      BY DEF NodesInv
  <2>2. Halfway(p)'
      BY <2>1, <1>1 DEF Halfway
  <2>3. conf'[p] <= creds'[p] /\ creds'[p] <= sets'
      BY <2>1, <1>1, <1>2, PiNumbers DEF Lag
  <2>4. Sorted(socket'[p], creds'[p], sets')
      BY <2>1, <1>1, <1>4, PiNumbers DEF Lag
  <2>5. handler'[p].pc # "receive" =>
           /\ creds'[p] <= handler'[p].config /\ handler'[p].config <= sets'
           /\ Sorted(socket'[p], handler'[p].config, sets')
    <3> SUFFICES ASSUME handler'[p].pc # "receive"
                 PROVE  /\ creds'[p] <= handler'[p].config /\ handler'[p].config <= sets'
                        /\ Sorted(socket'[p], handler'[p].config, sets')
        OBVIOUS
    <3>1. /\ creds[p] <= handler[p].config /\ handler[p].config <= sets
          /\ Sorted(socket[p], handler[p].config, sets)
        BY <2>1, <1>1 DEF Lag
    <3>2. Sorted(socket'[p], handler[p].config, sets')
        BY <3>1, <1>4, PiNumbers
    <3> QED
        BY <3>1, <3>2, <1>1, <1>2, PiNumbers
  <2> QED
      BY <2>2, <2>3, <2>4, <2>5 DEF Lag
<1>6. StoppedIsIdle' /\ Loaded'
  BY <1>1, <1>3 DEF NodesInv, StoppedIsIdle, Loaded
<1> QED
  BY <1>5, <1>6 DEF NodesInv

\* A SET_SMB is taken from the head of the socket.
LEMMA AnswerSetNodes ==
    ASSUME TypeOK, NodesInv, NEW p \in Pis, AnswerSet(p)
    PROVE  NodesInv'
<1>1. /\ p \in up /\ socket[p] # << >> /\ Head(socket[p]) # PING
      /\ handler[p].pc = "receive"
      /\ handler' = [handler EXCEPT ![p] = [pc |-> "creds", config |-> Head(socket[p])]]
      /\ socket' = [socket EXCEPT ![p] = Tail(@)]
      /\ creds' = creds /\ conf' = conf /\ target' = target /\ up' = up /\ sets' = sets
  BY DEF AnswerSet, TakeSet, Receiving, diskVars, probeVars
<1>2. /\ socket'[p] = Tail(socket[p])
      /\ handler'[p] = [pc |-> "creds", config |-> Head(socket[p])]
      /\ \A q \in Pis \ {p} : handler'[q] = handler[q] /\ socket'[q] = socket[q]
  BY <1>1 DEF TypeOK, NodeTypeOK
<1>3. socket[p] \in Seq(Configs) /\ Lag(p)
  BY SocketType DEF NodesInv
<1>4. /\ creds[p] <= Head(socket[p]) /\ Head(socket[p]) <= sets
      /\ Sorted(Tail(socket[p]), Head(socket[p]), sets)
      /\ Sorted(Tail(socket[p]), creds[p], sets)
  BY <1>1, <1>3, HeadOfSocket, TailKeeps DEF Lag
<1>5. Halfway(p)' /\ Lag(p)'
  BY <1>1, <1>2, <1>3, <1>4 DEF Halfway, Lag
<1>6. up' \in SUBSET Pis
  BY <1>1 DEF TypeOK, NodeTypeOK
<1> QED
  BY <1>1, <1>2, <1>5, <1>6, OnePiMoves DEF NodesInv, Loaded

\* The credentials, then smb.yaml.
LEMMA WriteNodes ==
    ASSUME TypeOK, NodesInv, NEW p \in Pis, Write(p), UNCHANGED guiVars
    PROVE  NodesInv'
<1>0. /\ Halfway(p) /\ Lag(p) /\ up' = up /\ target' = target /\ socket' = socket /\ sets' = sets
      /\ p \in up /\ up' \in SUBSET Pis
  <2>1. handler[p].pc \in {"creds", "save"}
      BY DEF Write, At
  <2> QED
      BY <2>1 DEF Write, probeVars, guiVars, NodesInv, StoppedIsIdle, TypeOK, NodeTypeOK
<1>1. CASE At(p, "creds")
  <2>1. /\ handler[p].pc = "creds"
        /\ creds' = [creds EXCEPT ![p] = handler[p].config] /\ conf' = conf
        /\ handler' = [handler EXCEPT ![p].pc = "save"]
      BY <1>1 DEF Write, At, Goto
  <2>2. /\ handler'[p].pc = "save" /\ handler'[p].config = handler[p].config
        /\ creds'[p] = handler[p].config
        /\ \A q \in Pis \ {p} : handler'[q] = handler[q] /\ creds'[q] = creds[q]
      BY <2>1, PiNumbers DEF TypeOK, NodeTypeOK, Handler
  <2>3. Halfway(p)'
      BY <2>2 DEF Halfway
  <2>4. Lag(p)'
      BY <1>0, <2>1, <2>2, PiNumbers DEF Lag
  <2> QED
      BY <1>0, <2>1, <2>2, <2>3, <2>4, OnePiMoves DEF NodesInv, Loaded
<1>2. CASE At(p, "save")
  <2>1. /\ handler[p].pc = "save"
        /\ conf' = [conf EXCEPT ![p] = handler[p].config] /\ creds' = creds
        /\ handler' = [handler EXCEPT ![p].pc = "swap"]
      BY <1>2 DEF Write, At, Goto
  <2>2. /\ handler'[p].pc = "swap" /\ handler'[p].config = handler[p].config
        /\ conf'[p] = handler[p].config
        /\ \A q \in Pis \ {p} : handler'[q] = handler[q] /\ conf'[q] = conf[q]
      BY <2>1, PiNumbers DEF TypeOK, NodeTypeOK, Handler
  <2>3. Halfway(p)'
      BY <1>0, <2>1, <2>2 DEF Halfway
  <2>4. Lag(p)'
      BY <1>0, <2>1, <2>2, PiNumbers DEF Lag, Halfway
  <2> QED
      BY <1>0, <2>1, <2>2, <2>3, <2>4, OnePiMoves DEF NodesInv, Loaded
<1> QED
  BY <1>1, <1>2 DEF Write

LEMMA SwapNodes ==
    ASSUME TypeOK, NodesInv, NEW p \in Pis, Swap(p), UNCHANGED guiVars
    PROVE  NodesInv'
<1>1. /\ handler[p].pc = "swap"
      /\ target' = [target EXCEPT ![p] = handler[p].config]
      /\ handler' = [handler EXCEPT ![p].pc = "probe"]
      /\ creds' = creds /\ conf' = conf /\ up' = up /\ socket' = socket /\ sets' = sets
  BY DEF Swap, At, Goto, diskVars, guiVars
<1>2. Halfway(p) /\ Lag(p) /\ p \in up /\ up' \in SUBSET Pis
  BY <1>1 DEF NodesInv, StoppedIsIdle, TypeOK, NodeTypeOK
<1>3. /\ handler'[p].pc = "probe" /\ handler'[p].config = handler[p].config
      /\ target'[p] = handler[p].config
      /\ \A q \in Pis \ {p} : handler'[q] = handler[q] /\ target'[q] = target[q]
  BY <1>1, PiNumbers DEF TypeOK, NodeTypeOK, Handler
<1>4. Halfway(p)'
  BY <1>1, <1>2, <1>3 DEF Halfway
<1>5. Lag(p)'
  BY <1>1, <1>2, <1>3 DEF Lag
<1> QED
  BY <1>1, <1>2, <1>3, <1>4, <1>5, OnePiMoves DEF Halfway

\* Done, or given up on: the loop is back at its socket.
LEMMA AcknowledgeNodes ==
    ASSUME TypeOK, NodesInv, NEW p \in Pis, Acknowledge(p)
    PROVE  NodesInv'
<1>1. /\ handler[p].pc \in {"creds", "save", "probe"}
      /\ handler' = [handler EXCEPT ![p] = Receive]
      /\ creds' = creds /\ conf' = conf /\ target' = target /\ up' = up
      /\ socket' = socket /\ sets' = sets
  BY DEF Acknowledge, ProbeNow, WriteFails, At, diskVars, probeVars
<1>2. Halfway(p) /\ Lag(p) /\ p \in up /\ up' \in SUBSET Pis
  BY <1>1 DEF NodesInv, StoppedIsIdle, TypeOK, NodeTypeOK
<1>3. handler'[p] = Receive /\ \A q \in Pis \ {p} : handler'[q] = handler[q]
  BY <1>1 DEF TypeOK, NodeTypeOK
<1>4. Halfway(p)' /\ Lag(p)'
  BY <1>1, <1>2, <1>3 DEF Halfway, Lag, Receive
<1> QED
  BY <1>1, <1>2, <1>3, <1>4, OnePiMoves DEF Receive, NodesInv, Loaded

LEMMA BootNodes ==
    ASSUME TypeOK, NodesInv, NEW p \in Pis, Boot(p), UNCHANGED guiVars
    PROVE  NodesInv'
<1>1. /\ p \notin up /\ up' = up \cup {p}
      /\ target' = [target EXCEPT ![p] = conf[p]]
      /\ creds' = creds /\ conf' = conf /\ handler' = handler /\ socket' = socket /\ sets' = sets
  BY DEF Boot, diskVars, guiVars
<1>2. Halfway(p) /\ Lag(p) /\ handler[p].pc = "receive"
  BY <1>1 DEF NodesInv, StoppedIsIdle
<1>3. /\ target'[p] = conf[p] /\ \A q \in Pis \ {p} : target'[q] = target[q]
      /\ up' \in SUBSET Pis /\ p \in up' /\ \A q \in Pis \ {p} : q \in up' <=> q \in up
  BY <1>1 DEF TypeOK, NodeTypeOK
<1>4. Halfway(p)' /\ Lag(p)'
  BY <1>1, <1>2 DEF Halfway, Lag
<1> QED
  BY <1>1, <1>2, <1>3, <1>4, OnePiMoves

LEMMA StopNodes ==
    ASSUME TypeOK, NodesInv, NEW p \in Pis, StopNode(p)
    PROVE  NodesInv'
<1>1. /\ p \in up /\ up' = up \ {p}
      /\ handler' = [handler EXCEPT ![p] = Receive]
      /\ socket' = [socket EXCEPT ![p] = << >>]
      /\ creds' = creds /\ conf' = conf /\ target' = target /\ sets' = sets
  BY DEF StopNode, Stop, diskVars
<1>2. /\ handler'[p] = Receive /\ socket'[p] = << >>
      /\ \A q \in Pis \ {p} : handler'[q] = handler[q] /\ socket'[q] = socket[q]
      /\ up' \in SUBSET Pis /\ \A q \in Pis \ {p} : q \in up' <=> q \in up
  BY <1>1 DEF TypeOK, NodeTypeOK
<1>3. \A low, high : Sorted(<< >>, low, high)
  BY DEF Sorted, Sets
<1>4. Halfway(p)' /\ Lag(p)'
  BY <1>1, <1>2, <1>3 DEF NodesInv, Halfway, Lag, Receive
<1> QED
  BY <1>1, <1>2, <1>4, OnePiMoves DEF Receive

\* The steps that write nothing.
LEMMA IdleNodes ==
    ASSUME TypeOK, NodesInv,
           \/ TakeBegin \/ PingLoopStep \/ AskedSweeps \/ AskedEnds \/ TakeSweeps \/ TakeDecides \/ Fire \/ SetEnd
           \/ \E p \in Pis : AnswerPing(p) \/ Probing(p)
           \/ Change /\ UNCHANGED guiVars
           \/ UNCHANGED vars
    PROVE  NodesInv'
<1>1. UNCHANGED NodesVars /\ UNCHANGED sets
  BY DEF TakeBegin, PingLoopStep, LoopLooks, LoopSweeps, LoopEnds, AskedSweeps, AskedEnds,
         TakeSweeps, TakeDecides, Fire, SetEnd, AnswerPing, Probing, ProbeBegin, ProbeEnd, Change, NodesVars, nodeVars, vars, diskVars, probeVars, guiVars
<1>2. socket \in [Pis -> Seq(Configs)]
  BY DEF TypeOK
<1>3. CASE UNCHANGED socket
  BY <1>1, <1>3, NodesUntouched
<1>4. CASE LoopSweeps \/ AskedSweeps \/ TakeSweeps
  <2>1. \A p \in Pis : socket'[p] = socket[p] \/ (p \in up /\ socket'[p] = Append(socket[p], PING))
      BY <1>2, <1>4, BroadcastReaches, Numbers
           DEF LoopSweeps, AskedSweeps, TakeSweeps, SweepBegin
  <2>2. \A p \in Pis : \A low, high : Sorted(socket[p], low, high) => Sorted(socket'[p], low, high)
      BY <2>1, <1>2, AppendPing
  <2> QED
      BY <1>1, <2>1, <2>2, NodesUntouched
<1>5. CASE LoopEnds \/ AskedEnds \/ TakeDecides
  <2>1. \A p \in Pis : socket'[p] = RemoveFirst(socket[p], PING)
      BY <1>5 DEF LoopEnds, AskedEnds, TakeDecides, SweepEnd, Unasked
  <2>2. \A p \in Pis :
           /\ \A low, high : Sorted(socket[p], low, high) => Sorted(socket'[p], low, high)
           /\ socket[p] = << >> => socket'[p] = << >>
      BY <2>1, <1>2, UnaskedKeeps
  <2> QED
      BY <1>1, <2>2, NodesUntouched
<1>6. ASSUME NEW p \in Pis, AnswerPing(p) PROVE NodesInv'
  <2>1. /\ socket' = [socket EXCEPT ![p] = Tail(@)] /\ socket[p] # << >> /\ p \in up
      BY <1>6 DEF AnswerPing, Receiving
  <2>2. \A q \in Pis : \A low, high : Sorted(socket[q], low, high) => Sorted(socket'[q], low, high)
      BY <2>1, <1>2, TailKeeps
  <2>3. \A q \in Pis : q \notin up /\ socket[q] = << >> => socket'[q] = << >>
      BY <2>1, <1>2
  <2> QED
      BY <1>1, <2>2, <2>3, NodesUntouched
<1> QED
  BY <1>3, <1>4, <1>5, <1>6
     DEF TakeBegin, PingLoopStep, LoopLooks, Fire, SetEnd, Probing, Change, vars, guiVars

LEMMA NodesKeep ==
    ASSUME TypeOK, NodesInv, [Next]_vars
    PROVE  NodesInv'
<1>1. CASE SetBegin
  BY <1>1, SetBeginNodes
<1>2. ASSUME NEW p \in Pis, AnswerSet(p) \/ Acknowledge(p) \/ SilentStep(p) \/ Started(p) \/ StopNode(p)
      PROVE  NodesInv'
  BY <1>2, AnswerSetNodes, AcknowledgeNodes, WriteNodes, SwapNodes, BootNodes, StopNodes
     DEF SilentStep, Started
<1>3. CASE \/ TakeBegin \/ PingLoopStep \/ AskedSweeps \/ AskedEnds \/ TakeSweeps \/ TakeDecides \/ Fire \/ SetEnd
           \/ \E p \in Pis : AnswerPing(p) \/ Probing(p)
           \/ Change /\ UNCHANGED guiVars
           \/ UNCHANGED vars
  BY <1>3, IdleNodes
<1> QED
  BY <1>1, <1>2, <1>3 DEF Next, Requests, PingLoopStep, TakeStep, LoopStep

-----------------------------------------------------------------------------
(* The two locks, and who waits for what *)

LEMMA LocksKeep ==
    ASSUME TypeOK, LocksHeld, [Next]_vars
    PROVE  LocksHeld'
<1>0. Take # Nobody /\ SetSmb # Nobody /\ PingLoop # Nobody /\ Take # SetSmb /\ Take # PingLoop
      /\ Asked # Nobody /\ Asked # Take
  BY NobodyAssumption DEF Take, SetSmb, PingLoop, Asked
<1> USE DEF LocksHeld
<1>1. CASE Requests
  BY <1>1, <1>0 DEF Requests, TakeBegin, TakeFree, SetBegin
<1>2. CASE PingLoopStep \/ AskedSweeps \/ AskedEnds
  BY <1>2, <1>0 DEF PingLoopStep, LoopLooks, LoopSweeps, LoopEnds, AskedSweeps, AskedEnds,
                    SweepBegin, SweepEnd
<1>3. CASE TakeStep
  BY <1>3, <1>0 DEF TakeStep, TakeSweeps, TakeDecides, Fire, SweepBegin, SweepEnd
<1>4. CASE SetEnd
  BY <1>4, <1>0 DEF SetEnd
<1>5. CASE \/ \E p \in Pis : LoopStep(p) \/ SilentStep(p) \/ Probing(p) \/ Started(p) \/ StopNode(p)
           \/ Change /\ UNCHANGED guiVars
           \/ UNCHANGED vars
  <2>1. UNCHANGED <<opLock, sweepLock, taker>>
      BY <1>5 DEF LoopStep, AnswerPing, AnswerSet, Acknowledge, SilentStep, Probing, Started,
                  StopNode, guiVars, vars
  <2> QED
      BY <2>1
<1> QED
  BY <1>1, <1>2, <1>3, <1>4, <1>5 DEF Next

\* A socket in which fewer commands wait, and the same sweep runs or none.
LEMMA PingsThinned ==
    ASSUME PingsSwept, sweepLock' = sweepLock,
           \A p \in Pis : /\ OnePing(socket[p]) => OnePing(socket'[p])
                          /\ PingLast(socket[p]) => PingLast(socket'[p])
                          /\ Pings(socket[p]) = {} => Pings(socket'[p]) = {}
    PROVE  PingsSwept'
BY DEF PingsSwept

LEMMA PingsKeep ==
    ASSUME TypeOK, LocksHeld, PingsSwept, [Next]_vars
    PROVE  PingsSwept'
<1>0. /\ socket \in [Pis -> Seq(Configs)]
      /\ Take # Nobody /\ SetSmb # Nobody /\ PingLoop # Nobody /\ Take # PingLoop
      /\ Asked # Nobody
  BY NobodyAssumption DEF TypeOK, Take, SetSmb, PingLoop, Asked
<1>1. CASE SetBegin
  <2>1. /\ sets < MaxSets /\ Broadcast(sets + 1, socket) /\ sweepLock' = sweepLock
        /\ opLock = Nobody
      BY <1>1 DEF SetBegin
  <2>2. sets + 1 \in Configs /\ sets + 1 # PING
      BY <2>1, Numbers DEF TypeOK, Configs, PING
  <2>3. \A p \in Pis : socket'[p] = socket[p] \/ socket'[p] = Append(socket[p], sets + 1)
      BY <1>0, <2>1, <2>2, BroadcastReaches
  <2>4. ASSUME NEW p \in Pis PROVE Pings(socket'[p]) = Pings(socket[p])
    <3>1. socket[p] \in Seq(Configs)
        BY <1>0
    <3>2. Pings(Append(socket[p], sets + 1)) = Pings(socket[p])
        BY <2>2, <3>1, AppendElements
    <3> QED
        BY <2>3, <3>2
  <2>5. sweepLock # Take
      BY <1>0, <2>1 DEF LocksHeld
  <2> QED
      BY <2>1, <2>4, <2>5 DEF PingsSwept, OnePing
<1>2. CASE LoopSweeps \/ AskedSweeps \/ TakeSweeps
  <2>1. /\ Broadcast(PING, socket) /\ sweepLock = Nobody /\ sweepLock' # Nobody
      BY <1>2, <1>0 DEF LoopSweeps, AskedSweeps, TakeSweeps, SweepBegin
  <2>2. \A p \in Pis : socket'[p] = socket[p] \/ socket'[p] = Append(socket[p], PING)
      BY <1>0, <2>1, BroadcastReaches, Numbers
  <2>3. \A p \in Pis : Pings(socket[p]) = {}
      BY <2>1 DEF PingsSwept
  <2>4. \A p \in Pis : OnePing(socket'[p]) /\ PingLast(socket'[p])
      BY <1>0, <2>2, <2>3, AppendPing DEF OnePing, PingLast
  <2> QED
      BY <2>1, <2>4 DEF PingsSwept
<1>3. CASE LoopEnds \/ AskedEnds \/ TakeDecides
  <2>1. /\ sweepLock' = Nobody
        /\ \A p \in Pis : socket'[p] = RemoveFirst(socket[p], PING)
      BY <1>3 DEF LoopEnds, AskedEnds, TakeDecides, SweepEnd, Unasked
  <2>2. \A p \in Pis : Pings(socket'[p]) = {}
      BY <1>0, <2>1, UnaskedKeeps DEF PingsSwept
  <2> QED
      BY <1>0, <2>1, <2>2 DEF PingsSwept, OnePing
<1>4. ASSUME NEW p \in Pis, AnswerPing(p) \/ AnswerSet(p) PROVE PingsSwept'
  <2>1. /\ socket[p] # << >> /\ socket' = [socket EXCEPT ![p] = Tail(@)] /\ sweepLock' = sweepLock
      BY <1>4 DEF AnswerPing, AnswerSet
  <2>2. \A q \in Pis : socket'[q] = socket[q] \/ (q = p /\ socket'[q] = Tail(socket[q]))
      BY <1>0, <2>1
  <2> QED
      BY <1>0, <2>1, <2>2, TailKeeps, PingsThinned
<1>5. ASSUME NEW p \in Pis, StopNode(p) PROVE PingsSwept'
  <2>1. sweepLock' = sweepLock /\ \A q \in Pis : socket'[q] = socket[q] \/ socket'[q] = << >>
      BY <1>0, <1>5 DEF StopNode
  <2>2. Pings(<< >>) = {}
      BY DEF Pings
  <2> QED
      BY <2>1, <2>2, PingsThinned DEF OnePing, PingLast
<1>6. CASE \/ TakeBegin \/ Fire \/ SetEnd \/ LoopLooks
           \/ \E p \in Pis : Acknowledge(p) \/ SilentStep(p) \/ Probing(p) \/ Started(p)
           \/ Change /\ UNCHANGED guiVars
           \/ UNCHANGED vars
  <2>1. UNCHANGED <<socket, sweepLock>>
      BY <1>6 DEF TakeBegin, Fire, SetEnd, LoopLooks, Acknowledge, SilentStep, Probing, Started,
                  guiVars, vars
  <2> QED
      BY <2>1 DEF PingsSwept
<1> QED
  BY <1>1, <1>2, <1>3, <1>4, <1>5, <1>6 DEF Next, Requests, PingLoopStep, TakeStep, LoopStep

\* A Pi that has nothing to do stays where it is.
LEMMA SettledStays ==
    ASSUME NEW p \in Pis, NEW server, Settled(p, server),
           Sets(socket'[p]) = {}, handler'[p].pc = "receive", conf'[p] = conf[p]
    PROVE  Settled(p, server)'
BY DEF Settled

\* Who is settled is not moved while no SET_SMB begins.
LEMMA SettledKeeps ==
    ASSUME TypeOK, [Next]_vars, ~ SetBegin, NEW p \in Pis, NEW CONSTANT server, Settled(p, server)
    PROVE  Settled(p, server)'
<1>0. /\ socket \in [Pis -> Seq(Configs)] /\ socket[p] \in Seq(Configs)
      /\ handler \in [Pis -> Handler] /\ conf \in [Pis -> Configs]
  BY DEF TypeOK, NodeTypeOK
<1>1. Sets(socket[p]) = {} /\ handler[p].pc = "receive"
  BY DEF Settled
<1>2. Sets(<< >>) = {} /\ Receive.pc = "receive"
  BY DEF Sets, Receive
<1>3. CASE \/ TakeBegin \/ PingLoopStep \/ AskedSweeps \/ AskedEnds \/ TakeSweeps \/ TakeDecides \/ Fire \/ SetEnd
           \/ \E q \in Pis : AnswerPing(q) \/ Probing(q)
           \/ Change /\ UNCHANGED guiVars
           \/ UNCHANGED vars
  <2>1. UNCHANGED <<conf, handler>>
      BY <1>3 DEF TakeBegin, PingLoopStep, LoopLooks, LoopSweeps, LoopEnds, AskedSweeps, AskedEnds,
         TakeSweeps, TakeDecides, Fire, SetEnd, AnswerPing, Probing, ProbeBegin, ProbeEnd, Change, nodeVars, vars, diskVars, probeVars, guiVars
  <2>2. CASE UNCHANGED socket
      BY <2>1, <2>2, <1>1, SettledStays
  <2>3. CASE LoopSweeps \/ AskedSweeps \/ TakeSweeps
    <3>1. socket'[p] = socket[p] \/ socket'[p] = Append(socket[p], PING)
        BY <1>0, <2>3, BroadcastReaches, Numbers
           DEF LoopSweeps, AskedSweeps, TakeSweeps, SweepBegin
    <3> QED
        BY <1>0, <1>1, <2>1, <3>1, AppendPing, SettledStays
  <2>4. CASE LoopEnds \/ AskedEnds \/ TakeDecides
    <3>1. socket'[p] = RemoveFirst(socket[p], PING)
        BY <2>4 DEF LoopEnds, AskedEnds, TakeDecides, SweepEnd, Unasked
    <3> QED
        BY <1>0, <1>1, <2>1, <3>1, UnaskedKeeps, SettledStays
  <2>5. ASSUME NEW q \in Pis, AnswerPing(q) PROVE Settled(p, server)'
    <3>1. socket[q] # << >> /\ socket' = [socket EXCEPT ![q] = Tail(@)]
        BY <2>5 DEF AnswerPing
    <3>2. socket'[p] = socket[p] \/ (p = q /\ socket'[p] = Tail(socket[p]))
        BY <1>0, <3>1
    <3> QED
        BY <1>0, <1>1, <2>1, <3>1, <3>2, TailKeeps, SettledStays
  <2> QED
      BY <1>3, <2>2, <2>3, <2>4, <2>5
         DEF TakeBegin, PingLoopStep, LoopLooks, Fire, SetEnd, Probing, Change, vars, guiVars
<1>4. ASSUME NEW q \in Pis, AnswerSet(q) PROVE Settled(p, server)'
  <2>1. /\ socket[q] # << >> /\ Head(socket[q]) # PING
        /\ socket' = [socket EXCEPT ![q] = Tail(@)]
        /\ handler' = [handler EXCEPT ![q] = [pc |-> "creds", config |-> Head(socket[q])]]
        /\ conf' = conf
      BY <1>4 DEF AnswerSet, TakeSet, diskVars
  <2>2. q # p
      BY <1>0, <1>1, <2>1, HeadOfSocket
  <2>3. socket'[p] = socket[p] /\ handler'[p] = handler[p]
      BY <1>0, <2>1, <2>2
  <2> QED
      BY <1>1, <2>1, <2>3, SettledStays
<1>5. ASSUME NEW q \in Pis, Acknowledge(q) \/ StopNode(q) PROVE Settled(p, server)'
  <2>1. /\ handler' = [handler EXCEPT ![q] = Receive] /\ conf' = conf
        /\ socket' = socket \/ socket' = [socket EXCEPT ![q] = << >>]
      BY <1>5 DEF Acknowledge, ProbeNow, WriteFails, StopNode, Stop, diskVars
  <2>2. /\ handler'[p] = handler[p] \/ handler'[p] = Receive
        /\ socket'[p] = socket[p] \/ socket'[p] = << >>
      BY <1>0, <2>1
  <2> QED
      BY <1>1, <1>2, <2>1, <2>2, SettledStays
<1>6. ASSUME NEW q \in Pis, SilentStep(q) \/ Started(q) PROVE Settled(p, server)'
  <2>1. (socket' = socket /\ handler' = handler) \/ handler[q].pc # "receive"
      BY <1>6 DEF SilentStep, Started, Write, Swap, Boot, At, guiVars
  <2>2. /\ socket' = socket
        /\ \/ handler' = handler /\ conf' = conf
           \/ /\ handler[q].pc # "receive"
              /\ \E pc \in {"save", "swap", "probe"} : handler' = [handler EXCEPT ![q].pc = pc]
              /\ conf' = conf \/ conf' = [conf EXCEPT ![q] = handler[q].config]
      BY <1>6 DEF SilentStep, Started, Write, Swap, Boot, At, Goto, diskVars, guiVars
  <2>3. handler'[p] = handler[p] /\ conf'[p] = conf[p] /\ socket'[p] = socket[p]
      BY <1>0, <1>1, <2>2
  <2> QED
      BY <1>1, <2>3, SettledStays
<1> QED
  BY <1>3, <1>4, <1>5, <1>6 DEF Next, Requests, PingLoopStep, TakeStep, LoopStep

LEMMA ReportedKeeps ==
    ASSUME FleetInv, [Next]_vars
    PROVE  Reported'
<1>0. /\ TypeOK /\ NodesInv /\ LocksHeld /\ PingsSwept /\ Reported
      /\ pongs \in [Pis -> Pong] /\ taker \in {"idle", "sweep", "wait", "fire"}
      /\ socket \in [Pis -> Seq(Configs)]
  BY DEF FleetInv, TypeOK
<1>1. Take # Nobody /\ PingLoop # Take /\ Asked # Take
  BY NobodyAssumption DEF Take, PingLoop, Asked
<1>2. taker \in {"wait", "fire"} => ~ SetBegin
  BY <1>0, <1>1 DEF SetBegin, LocksHeld
\* The pong of a settled Pi, before and after.
<1>3. ASSUME NEW p \in Pis, NEW CONSTANT s, taker \in {"wait", "fire"}, Settled(p, s)
      PROVE  Settled(p, s)'
  BY <1>0, <1>2, <1>3, SettledKeeps
<1>4. CASE taker' \notin {"wait", "fire"}
  BY <1>4 DEF Reported
<1>5. CASE TakeSweeps
  <2>1. taker' = "wait" /\ \A p \in Pis : pongs'[p] = Silent
      BY <1>5 DEF TakeSweeps, SweepBegin, NoPongs
  <2> QED
      BY <2>1 DEF Reported
<1>6. CASE TakeDecides /\ taker' = "fire"
  <2>1. taker = "wait" /\ fleet' = pongs
      BY <1>6 DEF TakeDecides
  <2>2. ASSUME NEW p \in Pis, fleet'[p] # Silent PROVE Settled(p, fleet[p].server)'
    <3>1. PICK s : s = pongs[p].server
        OBVIOUS
    <3>2. Settled(p, s)
        BY <2>1, <2>2, <3>1, <1>0 DEF Reported
    <3>3. Settled(p, s)' /\ s = fleet'[p].server
        BY <2>1, <3>1, <3>2, <1>3
    <3> QED
        BY <3>3 DEF Settled
  <2> QED
      BY <2>2, <1>6 DEF Reported
\* A Pi answers a PING that no SET_SMB follows.
<1>7. ASSUME NEW p \in Pis, AnswerPing(p), taker = "wait" PROVE Reported'
  <2>1. /\ p \in up /\ handler[p].pc = "receive"
        /\ socket[p] # << >> /\ Head(socket[p]) = PING
        /\ socket' = [socket EXCEPT ![p] = Tail(@)]
        /\ pongs' = [pongs EXCEPT ![p] = [server |-> target[p], reachable |-> reachable[p],
                                                health |-> health[p]]]
        /\ conf' = conf /\ handler' = handler /\ taker' = "wait"
      BY <1>7 DEF AnswerPing, Receiving, nodeVars, diskVars
  <2>2. Sets(Tail(socket[p])) = {}
      BY <2>1, <1>0, <1>7, HeadOfSocket DEF LocksHeld, PingsSwept
  <2>3. target[p] = conf[p]
      BY <2>1, <1>0 DEF NodesInv, Loaded
  <2>4. socket'[p] = Tail(socket[p]) /\ pongs'[p].server = target[p]
      BY <2>1, <1>0
  <2>5. Settled(p, pongs[p].server)'
      BY <2>1, <2>2, <2>3, <2>4 DEF Settled
  <2>6. ASSUME NEW q \in Pis, q # p, pongs'[q] # Silent PROVE Settled(q, pongs[q].server)'
    <3>1. PICK s : s = pongs[q].server
        OBVIOUS
    <3>2. pongs'[q] = pongs[q]
        BY <2>1, <2>6, <1>0
    <3>3. Settled(q, s)'
        BY <2>6, <3>1, <3>2, <1>0, <1>3, <1>7 DEF Reported
    <3> QED
        BY <3>1, <3>2, <3>3 DEF Settled
  <2> QED
      BY <2>1, <2>5, <2>6 DEF Reported
<1>8. CASE /\ taker' = taker /\ fleet' = fleet /\ taker \in {"wait", "fire"}
           /\ taker = "wait" => pongs' = pongs
  <2>1. ASSUME taker = "wait", NEW p \in Pis, pongs'[p] # Silent
        PROVE  Settled(p, pongs[p].server)'
    <3>1. PICK s : s = pongs[p].server
        OBVIOUS
    <3>2. Settled(p, s)'
        BY <1>8, <2>1, <3>1, <1>0, <1>3 DEF Reported
    <3> QED
        BY <1>8, <2>1, <3>1, <3>2 DEF Settled
  <2>2. ASSUME taker = "fire", NEW p \in Pis, fleet'[p] # Silent
        PROVE  Settled(p, fleet[p].server)'
    <3>1. PICK s : s = fleet[p].server
        OBVIOUS
    <3>2. Settled(p, s)'
        BY <1>8, <2>2, <3>1, <1>0, <1>3 DEF Reported
    <3> QED
        BY <1>8, <3>1, <3>2 DEF Settled
  <2> QED
      BY <1>8, <2>1, <2>2 DEF Reported
\* Whatever else happens leaves the take and its PONGs alone.
<1>9. \/ taker' \notin {"wait", "fire"}
      \/ TakeSweeps
      \/ TakeDecides /\ taker' = "fire"
      \/ taker = "wait" /\ \E p \in Pis : AnswerPing(p)
      \/ /\ taker' = taker /\ fleet' = fleet /\ taker \in {"wait", "fire"}
         /\ taker = "wait" => pongs' = pongs
  <2> SUFFICES ASSUME taker' \in {"wait", "fire"}, ~ TakeSweeps, ~ TakeDecides
               PROVE  \/ taker = "wait" /\ \E p \in Pis : AnswerPing(p)
                      \/ /\ taker' = taker /\ fleet' = fleet /\ taker \in {"wait", "fire"}
                         /\ taker = "wait" => pongs' = pongs
    <3>1. TakeDecides => taker' \in {"fire", "idle"}
        BY DEF TakeDecides
    <3> QED
        BY <3>1
  <2>1. ~ TakeBegin /\ ~ Fire
      BY DEF TakeBegin, Fire
  <2>2. CASE SetBegin \/ SetEnd
      BY <2>2 DEF SetBegin, SetEnd
  \* Another sweep begins when the take's does not run, and it ends as another.
  <2>3. CASE LoopSweeps \/ AskedSweeps
    <3>1. sweepLock = Nobody /\ taker' = taker /\ fleet' = fleet
        BY <2>3 DEF LoopSweeps, AskedSweeps, SweepBegin
    <3>2. taker # "wait"
        BY <3>1, <1>0, <1>1 DEF LocksHeld
    <3> QED
        BY <3>1, <3>2
  <2>4. CASE LoopEnds \/ AskedEnds
    <3>1. sweepLock \in {PingLoop, Asked} /\ taker' = taker /\ fleet' = fleet
        BY <2>4 DEF LoopEnds, AskedEnds, SweepEnd
    <3>2. taker # "wait"
        BY <3>1, <1>0, <1>1 DEF LocksHeld
    <3> QED
        BY <3>1, <3>2
  <2>5. ASSUME NEW p \in Pis, AnswerPing(p)
        PROVE  \/ taker = "wait" /\ \E q \in Pis : AnswerPing(q)
               \/ /\ taker' = taker /\ fleet' = fleet /\ taker \in {"wait", "fire"}
                  /\ taker = "wait" => pongs' = pongs
    <3>1. taker' = taker /\ fleet' = fleet
        BY <2>5 DEF AnswerPing
    <3> QED
        BY <2>5, <3>1
  <2>6. CASE \/ LoopLooks
             \/ \E p \in Pis : \/ AnswerSet(p) \/ Acknowledge(p) \/ SilentStep(p) \/ Probing(p)
                               \/ Started(p) \/ StopNode(p)
             \/ Change /\ UNCHANGED guiVars
             \/ UNCHANGED vars
    <3>1. UNCHANGED <<taker, fleet, pongs>>
        BY <2>6 DEF LoopLooks, AnswerSet, Acknowledge, SilentStep, Probing, Started, StopNode,
                    guiVars, vars
    <3> QED
        BY <3>1
  <2> QED
      BY <2>1, <2>2, <2>3, <2>4, <2>5, <2>6
         DEF Next, Requests, PingLoopStep, TakeStep, LoopStep
<1> QED
  BY <1>4, <1>5, <1>6, <1>7, <1>8, <1>9

-----------------------------------------------------------------------------
(* The specification *)

LEMMA FleetInitially == Init => FleetInv
<1> SUFFICES ASSUME Init PROVE FleetInv
  OBVIOUS
<1>1. TypeOK
  BY TypeInitially
<1>2. \A q : q = << >> => Sets(q) = {} /\ Pings(q) = {}
  BY DEF Sets, Pings
<1>3. /\ \A p \in Pis : socket[p] = << >> /\ handler[p] = Receive
      /\ \A p \in Pis : creds[p] = 0 /\ conf[p] = 0 /\ target[p] = 0
      /\ sets = 0 /\ opLock = Nobody /\ sweepLock = Nobody /\ taker = "idle"
  BY DEF Init, NodeInit
<1>4. NodesInv
  <2>1. \A p \in Pis : Sorted(socket[p], 0, 0)
      BY <1>2, <1>3 DEF Sorted
  <2>2. \A p \in Pis : Halfway(p) /\ Lag(p)
      BY <1>3, <2>1 DEF Halfway, Lag, Receive
  <2>3. StoppedIsIdle /\ Loaded
      BY <1>1, <1>3 DEF StoppedIsIdle, Loaded, Receive, TypeOK, NodeTypeOK
  <2> QED
      BY <2>2, <2>3 DEF NodesInv
<1>5. LocksHeld
  BY <1>3, NobodyAssumption DEF LocksHeld, Take
<1>6. PingsSwept
  BY <1>2, <1>3 DEF PingsSwept, OnePing, PingLast
<1>7. Reported
  BY <1>3 DEF Reported
<1> QED
  BY <1>1, <1>4, <1>5, <1>6, <1>7 DEF FleetInv

LEMMA FleetKeeps == FleetInv /\ [Next]_vars => FleetInv'
<1> SUFFICES ASSUME FleetInv, [Next]_vars PROVE FleetInv'
  OBVIOUS
<1>1. TypeOK' /\ NodesInv' /\ LocksHeld' /\ PingsSwept' /\ Reported'
  BY TypeKeeps, NodesKeep, LocksKeep, PingsKeep, ReportedKeeps DEF FleetInv
<1> QED
  BY <1>1 DEF FleetInv

LEMMA FleetAlways == Spec => []FleetInv
<1> QED
  BY FleetInitially, FleetKeeps, PTL DEF Spec

\* Every variable of the GUI's half and the Pis' keeps its type.
THEOREM FleetStaysTyped == Spec => []TypeOK
<1>1. FleetInv => TypeOK
  BY DEF FleetInv
<1> QED
  BY <1>1, FleetAlways, PTL

\* smb.yaml never names a server with the credentials of an earlier SET_SMB,
\* wherever a write fails or the Pi restarts (handle_set_smb).
THEOREM CredentialsAreNotOlder == Spec => []CredentialsFirst
<1>1. FleetInv => CredentialsFirst
  BY PiNumbers DEF FleetInv, NodesInv, Lag, CredentialsFirst
<1> QED
  BY <1>1, FleetAlways, PTL

\* Between two commands a daemon pushes to what its restart would load
\* (handle_set_smb, SmbConfig.load and update_target).
THEOREM RestartChangesNothing == Spec => []MemoryIsDisk
<1>1. FleetInv => MemoryIsDisk
  BY DEF FleetInv, NodesInv, Loaded, MemoryIsDisk
<1> QED
  BY <1>1, FleetAlways, PTL

\* A take fires at Pis that still push to the server they reported: the
\* operation lock keeps SET_SMB out, the sweep lock other PONGs, and a
\* SET_SMB that was given up on comes before the PING (App.take, App.sweep and
\* the loop of picam_node.py).
THEOREM TakesFireAsReported == Spec => []FiredAsReported
<1>1. FleetInv => FiredAsReported
  <2> SUFFICES ASSUME FleetInv, taker = "fire", NEW p \in up, fleet[p] # Silent
               PROVE  target[p] = fleet[p].server
      BY DEF FiredAsReported
  <2>1. p \in Pis
      BY DEF FleetInv, TypeOK, NodeTypeOK
  <2>2. Settled(p, fleet[p].server)
      BY <2>1 DEF FleetInv, Reported
  <2> QED
      BY <2>2 DEF Settled, FleetInv, NodesInv, Loaded
<1> QED
  BY <1>1, FleetAlways, PTL

-----------------------------------------------------------------------------
(* The reports *)

LEMMA AnsweredIsFinite ==
    ASSUME NEW ps \in [Pis -> Pong]
    PROVE  /\ Answered(ps) \subseteq Pis /\ IsFiniteSet(Answered(ps))
           /\ Cardinality(Answered(ps)) \in Nat
           /\ Cardinality(Answered(ps)) <= Cardinality(Pis)
           /\ DOMAIN Answers(ps) = Answered(ps)
           /\ \A p \in Answered(ps) : Answers(ps)[p] = ps[p] /\ ps[p].health \in Health
                                      /\ ps[p].reachable \in BOOLEAN
<1>1. Answered(ps) \subseteq Pis
  BY DEF Answered
<1>2. IsFiniteSet(Answered(ps)) /\ Cardinality(Answered(ps)) <= Cardinality(Pis)
  BY <1>1, PisAssumption, FS_Subset
<1>3. Cardinality(Answered(ps)) \in Nat
  BY <1>2, FS_CardinalityType
<1>4. \A p \in Answered(ps) : ps[p].health \in Health /\ ps[p].reachable \in BOOLEAN
  BY ReportsAssumption DEF Answered, Pong
<1> QED
  BY <1>1, <1>2, <1>3, <1>4 DEF Answers

\* An armed rig has heard of enough Pis, all in order.
LEMMA ArmsMeans ==
    ASSUME NEW ps \in [Pis -> Pong]
    PROVE  Arms(ps) <=> /\ Cardinality(Answered(ps)) >= Expected
                        /\ \A p \in Answered(ps) : ~ Bad(ps[p])
<1>1. DOMAIN Answers(ps) = Answered(ps) /\ \A p \in Answered(ps) : Answers(ps)[p] = ps[p]
  BY AnsweredIsFinite
<1>2. Cardinality(Answered(ps)) \in Nat /\ Expected \in Nat
  BY AnsweredIsFinite, ExpectedAssumption
<1>3. Arms(ps) <=> /\ ~ (Cardinality(Answered(ps)) < Expected)
                   /\ \A p \in Answered(ps) : ~ Bad(ps[p])
  BY <1>1 DEF Arms, NoGo
<1> QED
  BY <1>2, <1>3

\* A Pi that the verdict takes for good passes the gates of its CAPTURE, but
\* for one without an offset.
LEMMA GoodPassesGates ==
    ASSUME NEW pong, pong.health \in Health, ~ Bad(pong)
    PROVE  PassesGates(pong.health) <=> pong.health.offset # NoOffset
<1>1. pong.health.offset \in Int /\ pong.health.free \in Nat
  BY DEF Health
<1>2. pong.health.offset # NoOffset => ~ (pong.health.offset > 50)
  BY DEF Bad, Offset, OffsetLimit
<1>3. ~ (pong.health.free < 100)
  BY DEF Bad, LowDisk, MinFree
<1> QED
  BY <1>1, <1>2, <1>3 DEF PassesGates, MAX_CLOCK_OFFSET, MinFree

\* When the take of an armed rig fires, no fewer Pis than expected have
\* reported, and by their reports the clock gate and the disk gate of CAPTURE
\* let through those with an offset from chronyc and refuse those without,
\* which the verdict does not tell apart (_compute_verdict, handle_capture).
THEOREM ArmedRigCaptures == Spec => []ArmedCanCapture
<1>1. TypeOK => ArmedCanCapture
  <2> SUFFICES ASSUME TypeOK, Arms(fleet)
               PROVE  /\ Cardinality(Answered(fleet)) >= Expected
                      /\ \A p \in Answered(fleet) :
                           PassesGates(fleet[p].health) <=> fleet[p].health.offset # NoOffset
      BY DEF ArmedCanCapture
  <2>1. fleet \in [Pis -> Pong]
      BY DEF TypeOK
  <2> QED
      BY <2>1, ArmsMeans, AnsweredIsFinite, GoodPassesGates
<1> QED
  BY <1>1, FleetStaysTyped, PTL

\* The worst offset is over the limit when one of them is.
LEMMA WorstMeans ==
    ASSUME NEW ps \in [Pis -> Pong]
    PROVE  Worst(Answers(ps)) > OffsetLimit
             <=> \E p \in Answered(ps) : Offset(ps[p].health) > OffsetLimit
<1> DEFINE S == {Offset(ps[p].health) : p \in Answered(ps)}
           T == {0} \cup S
<1>1. DOMAIN Answers(ps) = Answered(ps) /\ \A p \in Answered(ps) : Answers(ps)[p] = ps[p]
  BY AnsweredIsFinite
<1>2. \A p \in Answered(ps) : Offset(ps[p].health) \in Int
  BY AnsweredIsFinite DEF Offset, Health
<1>3. T \in SUBSET Int /\ T # {}
  BY <1>2
<1>4. IsFiniteSet(T)
  <2>1. IsFiniteSet(Answered(ps))
      BY AnsweredIsFinite
  <2>2. IsFiniteSet(S)
    <3> DEFINE g == [p \in Answered(ps) |-> Offset(ps[p].health)]
    <3>1. g \in Surjection(Answered(ps), S)
        BY DEF Surjection
    <3> QED
        BY <2>1, <3>1, FS_Surjection
  <2>3. IsFiniteSet({0})
      BY FS_Singleton
  <2> QED
      BY <2>2, <2>3, FS_Union
<1>5. Worst(Answers(ps)) = Max(T)
  BY <1>1 DEF Worst
<1>6. Max(T) \in T /\ \A y \in T : Max(T) >= y
  <2> HIDE DEF T
  <2> QED
      BY <1>3, <1>4, MaxIsLargest
<1>7. Max(T) \in Int /\ 0 \in T /\ \A p \in Answered(ps) : Offset(ps[p].health) \in T
  BY <1>3, <1>6
<1>8. ASSUME Max(T) > 50 PROVE \E p \in Answered(ps) : Offset(ps[p].health) > 50
  BY <1>6, <1>8
<1>9. ASSUME NEW p \in Answered(ps), Offset(ps[p].health) > 50 PROVE Max(T) > 50
  <2> HIDE DEF T
  <2> QED
      BY <1>2, <1>6, <1>7, <1>9
<1> QED
  BY <1>5, <1>8, <1>9 DEF OffsetLimit

\* With no more Pis on the rig than expected, the preflight passes exactly
\* when the verdict would arm the rig if its cameras were sound: their limits
\* on the clock, the server and the card agree, and a dead camera is what the
\* preflight overlooks (api_preflight and _compute_verdict).  With more Pis the
\* counts differ: one asks for exactly the number expected, the other for as
\* many.
THEOREM PreflightIsTheVerdict ==
    ASSUME Cardinality(Pis) <= Expected
    PROVE  Spec => []PreflightAgrees
<1>1. TypeOK => PreflightAgrees
  <2> DEFINE mended == [p \in Answered(pongs) |-> [pongs[p] EXCEPT !.health.camera = TRUE]]
  <2> SUFFICES ASSUME TypeOK
               PROVE  PreflightPasses(Answers(pongs), Expected) <=> ~ NoGo(mended, Expected)
      BY DEF PreflightAgrees
  <2>1. pongs \in [Pis -> Pong]
      BY DEF TypeOK
  <2>2. DOMAIN Answers(pongs) = Answered(pongs)
        /\ \A p \in Answered(pongs) : Answers(pongs)[p] = pongs[p]
      BY <2>1, AnsweredIsFinite
  <2>3. Cardinality(Answered(pongs)) = Expected <=> ~ (Cardinality(Answered(pongs)) < Expected)
    <3>1. /\ Cardinality(Answered(pongs)) \in Nat /\ Expected \in Nat
          /\ Cardinality(Answered(pongs)) <= Cardinality(Pis) /\ Cardinality(Pis) \in Nat
        BY <2>1, AnsweredIsFinite, ExpectedAssumption, PisAssumption, FS_CardinalityType
    <3> QED
        BY <3>1
  <2>4. NtpFails(Answers(pongs))
          <=> \E p \in Answered(pongs) : \/ ~ pongs[p].health.synced
                                         \/ Offset(pongs[p].health) > OffsetLimit
      BY <2>1, <2>2, WorstMeans DEF NtpFails
  <2>5. PreflightPasses(Answers(pongs), Expected)
          <=> /\ Cardinality(Answered(pongs)) = Expected
              /\ ~ NtpFails(Answers(pongs))
              /\ \A p \in Answered(pongs) : pongs[p].reachable /\ ~ LowDisk(pongs[p].health)
      BY <2>2 DEF PreflightPasses
  <2>6. ASSUME NEW p \in Answered(pongs)
        PROVE  Bad(mended[p]) <=> \/ ~ pongs[p].reachable
                                  \/ ~ pongs[p].health.synced
                                  \/ Offset(pongs[p].health) > OffsetLimit
                                  \/ LowDisk(pongs[p].health)
    <3>1. /\ pongs[p].health \in Health
          /\ pongs[p] \in [server : Configs, reachable : BOOLEAN, health : Healths]
        BY <2>1, AnsweredIsFinite DEF Answered, Pong
    <3>2. /\ mended[p].reachable = pongs[p].reachable
          /\ mended[p].health = [pongs[p].health EXCEPT !.camera = TRUE]
        BY <3>1
    <3>3. /\ mended[p].health.camera
          /\ mended[p].health.synced = pongs[p].health.synced
          /\ mended[p].health.offset = pongs[p].health.offset
          /\ mended[p].health.free = pongs[p].health.free
        BY <3>1, <3>2 DEF Health
    <3> HIDE DEF mended
    <3> QED
        BY <3>2, <3>3 DEF Bad, Offset, LowDisk
  <2>7. NoGo(mended, Expected)
          <=> \/ Cardinality(Answered(pongs)) < Expected
              \/ \E p \in Answered(pongs) : Bad(mended[p])
      BY DEF NoGo
  <2> HIDE DEF mended
  <2> QED
      BY <2>3, <2>4, <2>5, <2>6, <2>7
<1> QED
  BY <1>1, FleetStaysTyped, PTL

LEMMA ShortfallMeans ==
    ASSUME NEW ans, Cardinality(DOMAIN ans) \in Nat
    PROVE  Shortfall(ans, Expected) > 0 <=> Cardinality(DOMAIN ans) < Expected
<1> DEFINE c == Cardinality(DOMAIN ans)
           n == Expected - c
<1>0. c \in Nat /\ Expected \in Nat
  <2>1. Expected \in Nat
      BY ExpectedAssumption
  <2> QED
      BY <2>1, Zenon
<1> HIDE DEF c
<1>1. n \in Int /\ (n > 0 <=> c < Expected)
  BY <1>0
<1>2. IsFiniteSet({0, n})
  <2>1. IsFiniteSet({0}) /\ IsFiniteSet({n})
      BY FS_Singleton
  <2>2. IsFiniteSet({0} \cup {n})
      BY <2>1, FS_Union
  <2> QED
      BY <2>2
<1> HIDE DEF n
<1>3. Max({0, n}) \in {0, n} /\ \A y \in {0, n} : Max({0, n}) >= y
  BY <1>1, <1>2, MaxIsLargest
<1>4. Max({0, n}) > 0 <=> n > 0
  BY <1>1, <1>3
<1>5. Shortfall(ans, Expected) = Max({0, n})
  BY Zenon DEF Shortfall, n, c
<1>6. Shortfall(ans, Expected) > 0 <=> c < Expected
  BY <1>1, <1>4, <1>5
<1> QED
  BY <1>6, Zenon DEF c

\* Whoever answers a CAPTURE, with whatever, and whoever has been seen before.
LEMMA TriageIsComplete ==
    ASSUME NEW cs \in SUBSET Pis, NEW ans \in [cs -> {"captured", "error"}], NEW known,
           Cardinality(cs) <= Expected
    PROVE  {Triage(ans, known, whole, Expected) : whole \in SUBSET Pis}
             = IF Cardinality(Captured(ans)) < Expected
                 THEN {"retake"} ELSE {"ok", "retry_upload"}
<1> DEFINE captured == Captured(ans)
<1>1. DOMAIN ans = cs /\ captured \subseteq cs
  BY DEF Captured
<1> HIDE DEF captured
<1>2. /\ IsFiniteSet(cs) /\ Cardinality(cs) \in Nat
      /\ Expected \in Nat /\ Expected >= 1
  <2>1. IsFiniteSet(cs)
      BY PisAssumption, FS_Subset
  <2>2. Cardinality(cs) \in Nat
      BY <2>1, FS_CardinalityType
  <2> QED
      BY <2>1, <2>2, ExpectedAssumption
<1>3. /\ captured \subseteq cs /\ Cardinality(captured) \in Nat
      /\ Cardinality(captured) <= Cardinality(cs)
      /\ Cardinality(captured) = Cardinality(cs) => captured = cs
  BY <1>1, <1>2, FS_Subset, FS_CardinalityType
<1>4. Shortfall(ans, Expected) > 0 <=> Cardinality(cs) < Expected
  BY <1>1, <1>2, ShortfallMeans
<1>5. CASE Cardinality(captured) < Expected
  <2>1. captured # cs \/ Cardinality(cs) < Expected
      BY <1>5
  <2>2. Captured(ans) # DOMAIN ans \/ Shortfall(ans, Expected) > 0
      BY <2>1, <1>1, <1>4, Zenon DEF captured
  <2>3. \A whole \in SUBSET Pis : Triage(ans, known, whole, Expected) = "retake"
      BY <2>2 DEF Triage
  <2> QED
      BY <1>5, <2>3 DEF captured
<1>6. CASE ~ (Cardinality(captured) < Expected)
  <2>1. /\ Cardinality(cs) = Expected /\ Cardinality(captured) = Cardinality(cs)
        /\ ~ (Cardinality(cs) < Expected)
      BY <1>2, <1>3, <1>6
  <2>2. captured = cs
      BY <2>1, <1>3
  <2>3. ~ (Shortfall(ans, Expected) > 0)
      BY <1>4, <2>1, Zenon
  <2>4. Missing(ans, known, Expected) = {}
      BY <1>1, <2>1, Zenon DEF Missing
  <2>5. Captured(ans) = DOMAIN ans /\ Captured(ans) = cs /\ Cardinality(Captured(ans)) = Expected
      BY <1>1, <2>1, <2>2, Zenon DEF captured
  <2>6. \A whole \in SUBSET Pis : Triage(ans, known, whole, Expected)
                                    = IF cs \subseteq whole THEN "ok" ELSE "retry_upload"
      BY <2>3, <2>4, <2>5, Zenon DEF Triage, Verifies
  <2>7. cs # {}
      BY <1>2, <2>1, FS_EmptySet
  <2>8. {Triage(ans, known, whole, Expected) : whole \in SUBSET Pis} = {"ok", "retry_upload"}
    <3>1. Triage(ans, known, cs, Expected) = "ok"
        BY <2>6
    <3>2. {} \in SUBSET Pis /\ ~ (cs \subseteq {})
        BY <2>7
    <3>3. Triage(ans, known, {}, Expected) = "retry_upload"
        BY <2>6, <3>2, Zenon
    <3> QED
        BY <2>6, <3>1, <3>2, <3>3
  <2> QED
      BY <1>6, <2>8 DEF captured
<1> QED
  BY <1>5, <1>6

\* A take is to be retaken exactly when frames were not captured; otherwise
\* the share decides, and a share that an upload-retry completes makes it ok
\* (App.take and its triage).
THEOREM TriageTellsApart == Spec => []TriageTells
<1>1. TriageTells
  <2> SUFFICES ASSUME NEW cs \in SUBSET Pis, NEW seenPis \in SUBSET (Pis \cup {Retired}),
                      NEW ans \in [cs -> {"captured", "error"}], Cardinality(cs) <= Expected
               PROVE  {Triage(ans, seenPis \cup Answered(fleet), whole, Expected) :
                          whole \in SUBSET Pis}
                        = IF Cardinality(Captured(ans)) < Expected
                            THEN {"retake"} ELSE {"ok", "retry_upload"}
      BY DEF TriageTells
  <2> QED
      BY TriageIsComplete
<1> QED
  BY <1>1, PTL

-----------------------------------------------------------------------------
(* The exposure of an autoconfigure *)

\* A mean, rounded as Python does, lies between the same integers as the mean.
LEMMA RoundedBetween ==
    ASSUME NEW total \in Int, NEW n \in Nat \ {0}, NEW low \in Int, NEW high \in Int
    PROVE  /\ Rounded(total, n) \in Int
           /\ low * n <= total => low <= Rounded(total, n)
           /\ total <= high * n => Rounded(total, n) <= high
<1> DEFINE floor == total \div n
           rest == total % n
<1>1. /\ floor \in Int /\ rest \in Int
      /\ 0 <= rest /\ rest < n /\ total = (n * floor) + rest
  OBVIOUS
<1>2. /\ Rounded(total, n) \in {floor, floor + 1}
      /\ Rounded(total, n) = floor + 1 => rest > 0
  <2>1. Rounded(total, n) =
          IF 2 * rest > n \/ (2 * rest = n /\ floor % 2 = 1) THEN floor + 1 ELSE floor
    BY DEF Rounded
  <2> HIDE DEF floor, rest
  <2> QED
    BY <1>1, <2>1
<1> HIDE DEF floor, rest
<1>3. ASSUME low * n <= total PROVE low <= floor
  <2> SUFFICES ASSUME floor <= low - 1 PROVE FALSE
    BY <1>1
  <2>1. n * floor <= n * (low - 1)
    BY <1>1
  <2>2. n * (low - 1) = low * n - n
    OBVIOUS
  <2> QED
    BY <1>1, <1>3, <2>1, <2>2
<1>4. ASSUME total <= high * n PROVE floor <= high /\ (rest > 0 => floor < high)
  <2>1. ASSUME floor >= high + 1 PROVE FALSE
    <3>1. n * floor >= n * (high + 1)
      BY <1>1, <2>1
    <3>2. n * (high + 1) = high * n + n
      OBVIOUS
    <3> QED
      BY <1>1, <1>4, <3>1, <3>2
  <2>2. ASSUME floor = high, rest > 0 PROVE FALSE
    <3>1. n * floor = high * n
      BY <2>2
    <3> QED
      BY <1>1, <1>4, <2>2, <3>1
  <2> QED
    BY <1>1, <2>1, <2>2
<1> QED
  BY <1>1, <1>2, <1>3, <1>4

\* The average of the readings lies between two of them, and on the side of
\* the cap on which the readings lie as a whole.
LEMMA AverageBetween ==
    ASSUME NEW cs, IsFiniteSet(cs), cs # {}, NEW readings \in [cs -> Int], NEW cap \in Int
    PROVE  /\ Average(readings) \in Int
           /\ \E c, d \in cs : readings[c] <= Average(readings) /\ Average(readings) <= readings[d]
           /\ Exceeds(readings, cap) => Average(readings) >= cap
           /\ ~ Exceeds(readings, cap) => Average(readings) <= cap
<1> DEFINE V == {readings[c] : c \in cs}
           n == Cardinality(cs)
           total == SumFunction(readings)
<1>1. V \in SUBSET Int /\ IsFiniteSet(V) /\ V # {}
  <2>1. IsFiniteSet(V)
    <3>1. readings \in Surjection(cs, V)
      BY DEF Surjection
    <3> QED
      BY <3>1, FS_Surjection
  <2> QED
    BY <2>1
<1>2. PICK c \in cs : \A x \in cs : readings[c] <= readings[x]
  <2> HIDE DEF V
  <2>1. PICK v \in V : \A y \in V : v <= y
    BY <1>1, SmallestExists
  <2> QED
    BY <2>1 DEF V
<1>3. PICK d \in cs : \A x \in cs : readings[x] <= readings[d]
  <2> HIDE DEF V
  <2>1. PICK v \in V : \A y \in V : v >= y
    BY <1>1, LargestExists
  <2>2. PICK d \in cs : v = readings[d]
    BY <2>1 DEF V
  <2>3. ASSUME NEW x \in cs PROVE readings[x] <= readings[d]
    <3>1. readings[x] \in V /\ readings[x] \in Int /\ readings[d] \in Int
      BY DEF V
    <3> QED
      BY <2>1, <2>2, <3>1
  <2> QED
    BY <2>3
<1>4. n \in Nat \ {0} /\ DOMAIN readings = cs
  BY FS_CardinalityType, FS_EmptySet
<1>5. /\ readings[c] \in Int /\ readings[d] \in Int
      /\ total \in Int /\ readings[c] * n <= total /\ total <= readings[d] * n
  BY <1>2, <1>3, <1>4, SumBounds
<1>6. Average(readings) = Rounded(total, n) /\ (Exceeds(readings, cap) <=> total > cap * n)
  BY <1>4 DEF Average, Exceeds
<1> HIDE DEF n, total
<1>7. /\ Rounded(total, n) \in Int
      /\ readings[c] <= Rounded(total, n) /\ Rounded(total, n) <= readings[d]
  BY <1>4, <1>5, RoundedBetween
<1>8. (total > cap * n => cap <= Rounded(total, n)) /\ (~ (total > cap * n) => Rounded(total, n) <= cap)
  <2> DEFINE m == cap * n
  <2>1. m \in Int
    BY <1>4
  <2>2. (m <= total => cap <= Rounded(total, n)) /\ (total <= m => Rounded(total, n) <= cap)
    BY <1>4, <1>5, RoundedBetween
  <2> HIDE DEF m
  <2>3. (total > m => cap <= Rounded(total, n)) /\ (~ (total > m) => Rounded(total, n) <= cap)
    BY <1>5, <2>1, <2>2
  <2> QED
    BY <2>3 DEF m
<1> QED
  BY <1>6, <1>7, <1>8

\* Whichever of the running cameras meter whatever they do, a motion safe
\* exposure keeps to the cap, one that is not clamped lies between the
\* readings, and both clients apply the same (gui.py:839-845, cli.py:238-258).
THEOREM ExposuresFit == Spec => []ExposureFits
<1>1. FleetInv => ExposureFits
  <2> SUFFICES ASSUME FleetInv, NEW cs \in (SUBSET up) \ {{}}, NEW cap \in 1 .. MaxReading,
                      NEW readings \in [cs -> 1 .. MaxReading]
               PROVE  LET safe == GuiExposure(readings, TRUE, cap)
                          free == GuiExposure(readings, FALSE, cap)
                      IN /\ safe <= cap /\ (safe # free => safe = cap /\ cap < free)
                         /\ \E c, d \in cs : readings[c] <= free /\ free <= readings[d]
                         /\ CliExposure(readings, cap) = safe /\ CliExposure(readings, 0) = free
    BY DEF ExposureFits
  <2>1. IsFiniteSet(cs) /\ cs # {}
    <3>1. up \subseteq Pis
      BY DEF FleetInv, TypeOK, NodeTypeOK
    <3> QED
      BY <3>1, FS_Subset, PisAssumption
  <2>2. readings \in [cs -> Int] /\ cap \in Int /\ cap # 0
    BY MaxReadingAssumption
  <2> DEFINE mean == Average(readings)
  <2>3. /\ mean \in Int
        /\ \E c, d \in cs : readings[c] <= mean /\ mean <= readings[d]
        /\ Exceeds(readings, cap) => mean >= cap
        /\ ~ Exceeds(readings, cap) => mean <= cap
    BY <2>1, <2>2, AverageBetween
  <2>4. /\ GuiExposure(readings, TRUE, cap) = IF Exceeds(readings, cap) THEN cap ELSE mean
        /\ GuiExposure(readings, FALSE, cap) = mean
        /\ CliExposure(readings, cap) = IF Exceeds(readings, cap) THEN cap ELSE mean
        /\ CliExposure(readings, 0) = mean
    BY <2>2 DEF GuiExposure, CliExposure
  <2> DEFINE safe == GuiExposure(readings, TRUE, cap)
             free == GuiExposure(readings, FALSE, cap)
  <2>5. free = mean /\ CliExposure(readings, cap) = safe /\ CliExposure(readings, 0) = free
    BY <2>4
  <2>6. safe <= cap /\ (safe # free => safe = cap /\ cap < free)
    <3> HIDE DEF mean
    <3>1. safe = IF Exceeds(readings, cap) THEN cap ELSE mean
      BY <2>4
    <3> HIDE DEF safe, free
    <3> QED
      BY <2>2, <2>3, <2>5, <3>1
  <2>7. \E c, d \in cs : readings[c] <= free /\ free <= readings[d]
    <3> HIDE DEF mean, free
    <3> QED
      BY <2>3, <2>5, Zenon
  <2> HIDE DEF mean
  <2> QED
    BY <2>5, <2>6, <2>7, Zenon
<1> QED
  BY <1>1, FleetAlways, PTL

=============================================================================
