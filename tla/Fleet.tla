-------------------------------- MODULE Fleet --------------------------------
(***************************************************************************)
(* What the GUI (tools/gui.py) knows of the Pis of NodeConfig: the PING    *)
(* sweeps of its ping loop, of its takes and of whoever else asks, one at  *)
(* a time behind the sweep lock, the verdict they leave, the take that     *)
(* fires on it, and the set-smb operation, which like a take holds the     *)
(* operation lock.                                                         *)
(*                                                                         *)
(* The verdict is whether the rig is armed; DEGRADED is armed.  A Pi works *)
(* off its socket in the order of the broadcasts.                          *)
(***************************************************************************)
EXTENDS NodeConfig, RigReports, SequencesExt

CONSTANTS
    Expected,   \* config["expected_pis"]
    Nobody,
    Retired,    \* a Pi of earlier sweeps that is not on the rig any more
    MaxReading  \* bound: a metered exposure and the motion cap

ASSUME ExpectedAssumption == Expected \in Nat \ {0}
ASSUME RetiredAssumption == Retired \notin Pis
ASSUME MaxReadingAssumption == MaxReading \in Nat
ASSUME ReportsAssumption == Healths \subseteq Health

VARIABLES
    socket,     \* per Pi: the commands received and not yet looked at
    sets,       \* SET_SMB broadcasts so far
    opLock,     \* the request that holds App.op_lock, or Nobody
    sweepLock,  \* who sweeps, or Nobody
    looper,     \* how far the ping loop is
    taker,      \* how far the take is
    pongs,      \* per Pi: its PONG to the running sweep
    acks,       \* the Pis that have answered the running SET_SMB
    fleet,      \* the PONGs a take has decided on
    armed       \* App.verdict["armed"]

guiVars == <<socket, sets, opLock, sweepLock, looper, taker, pongs, acks, fleet, armed>>
vars == <<nodeVars, guiVars>>

PING == 0       \* in a socket; a SET_SMB is its number
Take == "take"
SetSmb == "set-smb"
PingLoop == "ping-loop"
Asked == "ping"

ASSUME NobodyAssumption == Nobody \notin {Take, SetSmb, PingLoop, Asked}

Silent == [server |-> NoProbe, reachable |-> FALSE, health |-> Sound]
Pong == [server : Configs, reachable : BOOLEAN, health : Healths] \cup {Silent}
NoPongs == [p \in Pis |-> Silent]

Init ==
    /\ NodeInit
    /\ socket = [p \in Pis |-> << >>]
    /\ sets = 0
    /\ opLock = Nobody
    /\ sweepLock = Nobody
    /\ looper = "idle"
    /\ taker = "idle"
    /\ pongs = NoPongs
    /\ acks = {}
    /\ fleet = NoPongs
    /\ armed = FALSE

-----------------------------------------------------------------------------
(* The broadcasts *)

\* A datagram that does not arrive at a running Pi is an event.
Broadcast(c, queues) ==
    \E heard \in SUBSET up :
        /\ socket' = [p \in Pis |-> IF p \in heard THEN Append(queues[p], c) ELSE queues[p]]
        /\ IF heard = up THEN UNCHANGED events ELSE Event

Pending(p, c) == \E k \in DOMAIN socket[p] : socket[p][k] = c

\* No PING: its answer is to an id that nobody collects any more.
Unasked == [p \in Pis |-> RemoveFirst(socket[p], PING)]

Answered(ps) == {p \in Pis : ps[p] # Silent}
Answers(ps) == [p \in Answered(ps) |-> ps[p]]

\* The count is reached or the deadline passes; a deadline that passes before
\* a running Pi has answered is an event.
PongsIn ==
    IF Cardinality(Answered(pongs)) >= Expected \/ \A p \in up : ~ Pending(p, PING)
      THEN UNCHANGED events
      ELSE Event

AcksIn ==
    IF \/ Cardinality(acks) >= Expected
       \/ \A p \in up : ~ Pending(p, sets) /\ handler[p] = Receive
      THEN UNCHANGED events
      ELSE Event

-----------------------------------------------------------------------------
(* sweep and _compute_verdict *)

Arms(ps) == ~ NoGo(Answers(ps), Expected)

SweepBegin(who) ==
    /\ sweepLock = Nobody
    /\ sweepLock' = who
    /\ pongs' = NoPongs
    /\ Broadcast(PING, socket)

\* The ping loop skips its turn while an operation runs.
LoopLooks ==
    /\ looper = "idle"
    /\ opLock = Nobody
    /\ looper' = "sweep"
    /\ UNCHANGED <<nodeVars, socket, sets, opLock, sweepLock, taker, pongs, acks, fleet, armed>>

\* It does not look again once it has the sweep lock.
LoopSweeps ==
    /\ looper = "sweep"
    /\ SweepBegin(PingLoop)
    /\ looper' = "wait"
    /\ UNCHANGED <<diskVars, probeVars, handler, up, worldVars,
                   sets, opLock, taker, acks, fleet, armed>>

\* api_ping, whatever operation runs.  The sweeps of a preflight and of an
\* update are among these: they have an operation lock of their own besides.
AskedSweeps ==
    /\ SweepBegin(Asked)
    /\ UNCHANGED <<diskVars, probeVars, handler, up, worldVars,
                   sets, opLock, looper, taker, acks, fleet, armed>>

TakeSweeps ==
    /\ taker = "sweep"
    /\ SweepBegin(Take)
    /\ taker' = "wait"
    /\ UNCHANGED <<diskVars, probeVars, handler, up, worldVars,
                   sets, opLock, looper, acks, fleet, armed>>

SweepEnd(who) ==
    /\ sweepLock = who
    /\ PongsIn
    /\ sweepLock' = Nobody
    /\ pongs' = NoPongs
    /\ socket' = Unasked
    /\ armed' = Arms(pongs)

LoopEnds ==
    /\ SweepEnd(PingLoop)
    /\ looper' = "idle"
    /\ UNCHANGED <<diskVars, probeVars, handler, up, worldVars,
                   sets, opLock, taker, acks, fleet>>

AskedEnds ==
    /\ SweepEnd(Asked)
    /\ UNCHANGED <<diskVars, probeVars, handler, up, worldVars,
                   sets, opLock, looper, taker, acks, fleet>>

-----------------------------------------------------------------------------
(* api_take and api_set_smb *)

\* Mutant: the sweep comes before the lock.
TakeFreeIgnored == UNCHANGED opLock

TakeFree == opLock = Nobody /\ opLock' = Take

TakeBegin ==
    /\ taker = "idle"
    /\ TakeFree
    /\ taker' = "sweep"
    /\ UNCHANGED <<nodeVars, socket, sets, sweepLock, looper, pongs, acks, fleet, armed>>

\* NO-GO without override ends the take (409).
TakeDecides ==
    /\ taker = "wait"
    /\ SweepEnd(Take)
    /\ \/ /\ \/ Arms(pongs)
             \/ ~ Arms(pongs)       \* override
          /\ taker' = "fire"
          /\ fleet' = pongs
          /\ UNCHANGED opLock
       \/ /\ ~ Arms(pongs)
          /\ taker' = "idle"
          /\ opLock' = Nobody
          /\ UNCHANGED fleet
    /\ UNCHANGED <<diskVars, probeVars, handler, up, worldVars, sets, looper, acks>>

\* CAPTURE goes out; the take itself is in RigSessions.
Fire ==
    /\ taker = "fire"
    /\ taker' = "idle"
    /\ fleet' = NoPongs
    /\ opLock' = Nobody
    /\ UNCHANGED <<nodeVars, socket, sets, sweepLock, looper, pongs, acks, armed>>

SetBegin ==
    /\ opLock = Nobody
    /\ opLock' = SetSmb
    /\ sets < MaxSets
    /\ sets' = sets + 1
    /\ acks' = {}
    /\ Broadcast(sets + 1, socket)
    /\ UNCHANGED <<diskVars, probeVars, handler, up, worldVars,
                   sweepLock, looper, taker, pongs, fleet, armed>>

SetEnd ==
    /\ opLock = SetSmb
    /\ AcksIn
    /\ opLock' = Nobody
    /\ acks' = {}
    /\ UNCHANGED <<diskVars, probeVars, handler, up, worldVars,
                   socket, sets, sweepLock, looper, taker, pongs, fleet, armed>>

-----------------------------------------------------------------------------
(* A Pi looks at its socket *)

\* handle_ping: the target's name with the flag as it is.
AnswerPing(p) ==
    /\ Receiving(p)
    /\ socket[p] # << >> /\ Head(socket[p]) = PING
    /\ socket' = [socket EXCEPT ![p] = Tail(@)]
    /\ pongs' = [pongs EXCEPT ![p] = [server |-> target[p], reachable |-> reachable[p],
                                            health |-> health[p]]]
    /\ UNCHANGED <<nodeVars, sets, opLock, sweepLock, looper, taker, acks, fleet, armed>>

AnswerSet(p) ==
    /\ socket[p] # << >> /\ Head(socket[p]) # PING
    /\ TakeSet(p, Head(socket[p]))
    /\ socket' = [socket EXCEPT ![p] = Tail(@)]
    /\ UNCHANGED <<sets, opLock, sweepLock, looper, taker, pongs, acks, fleet, armed>>

\* SMB_SET or an ERROR counts while its set-smb still waits.
Acknowledge(p) ==
    /\ ProbeNow(p) \/ WriteFails(p)
    /\ acks' = IF opLock = SetSmb /\ handler[p].config = sets THEN acks \cup {p} ELSE acks
    /\ UNCHANGED <<socket, sets, opLock, sweepLock, looper, taker, pongs, fleet, armed>>

\* A daemon that stops loses its socket.
StopNode(p) ==
    /\ Stop(p)
    /\ socket' = [socket EXCEPT ![p] = << >>]
    /\ UNCHANGED <<sets, opLock, sweepLock, looper, taker, pongs, acks, fleet, armed>>

-----------------------------------------------------------------------------
LoopStep(p) == AnswerPing(p) \/ AnswerSet(p) \/ Acknowledge(p)

SilentStep(p) == (Write(p) \/ Swap(p)) /\ UNCHANGED guiVars

Probing(p) == (ProbeBegin(p) \/ ProbeEnd(p)) /\ UNCHANGED guiVars

Started(p) == Boot(p) /\ UNCHANGED guiVars

Requests == TakeBegin \/ SetBegin

PingLoopStep == LoopLooks \/ LoopSweeps \/ LoopEnds

TakeStep == TakeSweeps \/ TakeDecides \/ Fire

Next ==
    \/ Requests \/ PingLoopStep \/ AskedSweeps \/ AskedEnds \/ TakeStep \/ SetEnd
    \/ \E p \in Pis : LoopStep(p) \/ SilentStep(p) \/ Probing(p) \/ Started(p) \/ StopNode(p)
    \/ Change /\ UNCHANGED guiVars

\* Threads are scheduled, a stopped Pi is started again (systemd, or its
\* REBOOT), and nobody has to make a request.
Fairness ==
    /\ WF_vars(PingLoopStep) /\ WF_vars(AskedEnds) /\ WF_vars(TakeStep) /\ WF_vars(SetEnd)
    /\ \A p \in Pis :
         WF_vars(LoopStep(p) \/ SilentStep(p)) /\ WF_vars(Probing(p)) /\ WF_vars(Started(p))

Spec == Init /\ [][Next]_vars /\ Fairness

-----------------------------------------------------------------------------
(* Properties *)

\* Type invariant of the GUI's half and the Pis'.
TypeOK ==
    /\ NodeTypeOK
    /\ socket \in [Pis -> Seq(Configs)]
    /\ sets \in 0 .. MaxSets
    /\ opLock \in {Take, SetSmb, Nobody}
    /\ sweepLock \in {Take, PingLoop, Asked, Nobody}
    /\ looper \in {"idle", "sweep", "wait"}
    /\ taker \in {"idle", "sweep", "wait", "fire"}
    /\ pongs \in [Pis -> Pong]
    /\ acks \in SUBSET Pis
    /\ fleet \in [Pis -> Pong]
    /\ armed \in BOOLEAN

\* When a take fires, every Pi it decided on still pushes to the server it
\* reported: no SET_SMB, not one that was given up on either, has moved it
\* between its PONG and the CAPTURE (gui.py:945-951).
FiredAsReported ==
    taker = "fire" => \A p \in up : fleet[p] # Silent => target[p] = fleet[p].server

\* As many Pis as expected run, are in order and can reach their server.
Ready ==
    /\ Cardinality(up) >= Expected
    /\ \A p \in up :
         ~ Bad([server |-> target[p], reachable |-> target[p] \in serving, health |-> health[p]])

\* Once the surroundings keep still, the verdict agrees with the rig for good:
\* a probe result of an earlier target, a PONG of before a restart and a sweep
\* with silent Pis are all overtaken (gui.py:562-613, picam_node.py:436-463).
VerdictSettles == <>[](armed = Ready)

\* When an armed rig fires, at least as many Pis as expected have reported, and
\* by what they reported the clock gate and the disk gate of CAPTURE refuse
\* exactly those whose chronyc gave no offset: the limits of two programs agree
\* but there, where the verdict reads the -1 of the PONG as 1 ms
\* (gui.py:648-679, picam_node.py:633-638).
ArmedCanCapture ==
    taker = "fire" /\ Arms(fleet) =>
        /\ Cardinality(Answered(fleet)) >= Expected
        /\ \A p \in Answered(fleet) :
             PassesGates(fleet[p].health) <=> fleet[p].health.offset # NoOffset

\* What the preflight computes anew from a sweep is the verdict the rig would
\* have if its cameras were sound: it does not look at them, so a rig with a
\* dead camera is NO-GO and passes (gui.py:1478-1519, 632-694).
PreflightAgrees ==
    PreflightPasses(Answers(pongs), Expected)
      <=> ~ NoGo([p \in Answered(pongs) |-> [pongs[p] EXCEPT !.health.camera = TRUE]], Expected)

\* However the Pis answer the CAPTURE of a take that fires, and whoever has
\* been seen before, it is to be retaken exactly when frames were not captured;
\* otherwise the share decides between ok and retry_upload, and an upload-retry
\* that completes the share makes it ok (gui.py:979-987, 1047-1052, 1120-1127).
TriageTells ==
    taker = "fire" =>
        \A cs \in SUBSET Pis, seenPis \in SUBSET (Pis \cup {Retired}) :
            \A ans \in [cs -> {"captured", "error"}] :
                LET known == seenPis \cup Answered(fleet)
                    triages == {Triage(ans, known, whole, Expected) : whole \in SUBSET Pis}
                IN Cardinality(cs) <= Expected =>
                     triages = IF Cardinality(Captured(ans)) < Expected
                                 THEN {"retake"} ELSE {"ok", "retry_upload"}

\* Whichever of the running cameras meter whatever they do: a motion safe
\* exposure does not exceed the cap, one that is not clamped lies between the
\* readings, and both clients apply the same (gui.py:839-845, cli.py:238-258).
ExposureFits ==
    opLock = Nobody =>
        \A cs \in (SUBSET up) \ {{}}, cap \in 1 .. MaxReading :
            \A readings \in [cs -> 1 .. MaxReading] :
                LET safe == GuiExposure(readings, TRUE, cap)
                    free == GuiExposure(readings, FALSE, cap)
                IN /\ safe <= cap /\ (safe # free => safe = cap /\ cap < free)
                   /\ \E c, d \in cs : readings[c] <= free /\ free <= readings[d]
                   /\ CliExposure(readings, cap) = safe /\ CliExposure(readings, 0) = free

=============================================================================
