----------------------------- MODULE NodeConfig -----------------------------
(***************************************************************************)
(* Where the Pis push to (node/picam_node.py): the credentials file and    *)
(* smb.yaml that SET_SMB writes one after the other, the target in memory, *)
(* and the flag `reachable` that the dispatch loop and the background      *)
(* thread of SmbProbe both write.  A Pi may restart between any two steps. *)
(*                                                                         *)
(* A configuration is the number of the SET_SMB that brought it and stands *)
(* for its server, share and password; all go under the reference          *)
(* "default", as the GUI sends them.                                       *)
(***************************************************************************)
EXTENDS Integers, Sequences, FiniteSets

CONSTANTS
    Pis,        \* the camera nodes
    Healths,    \* what a camera, clock and card may be like
    Sound,      \* how they are at first
    MaxSets,    \* bound: the number of SET_SMB broadcasts
    MaxEvents   \* bound: failures and changes of the surroundings

ASSUME PisAssumption == IsFiniteSet(Pis)
ASSUME HealthsAssumption == Sound \in Healths
ASSUME BoundsAssumption == MaxSets \in Nat /\ MaxEvents \in Nat

VARIABLES
    creds,      \* per Pi: whose credentials CREDS_DIR/default holds
    conf,       \* per Pi: smb.yaml
    target,     \* per Pi: Node.smb_config and SmbProbe._smb
    reachable,  \* per Pi: SmbProbe._reachable
    probe,      \* per Pi: the server the background thread is connecting to
    handler,    \* per Pi: how far the loop is with a SET_SMB
    up,         \* the Pis whose daemon runs
    health,     \* per Pi: its camera, clock and card
    serving,    \* the servers that accept a connection on port 445
    events      \* failures and changes so far

diskVars == <<creds, conf>>
probeVars == <<target, reachable, probe>>
worldVars == <<health, serving>>
nodeVars == <<diskVars, probeVars, handler, up, worldVars, events>>

Configs == 0 .. MaxSets
NoProbe == -1

Receive == [pc |-> "receive", config |-> 0]
Handler == [pc : {"receive", "creds", "save", "swap", "probe"}, config : Configs]

NodeInit ==
    /\ creds = [p \in Pis |-> 0]
    /\ conf = [p \in Pis |-> 0]
    /\ target = [p \in Pis |-> 0]
    /\ reachable = [p \in Pis |-> FALSE]
    /\ probe = [p \in Pis |-> NoProbe]
    /\ handler = [p \in Pis |-> Receive]
    /\ up = Pis
    /\ health = [p \in Pis |-> Sound]
    /\ serving = Configs
    /\ events = 0

Event == events < MaxEvents /\ events' = events + 1

-----------------------------------------------------------------------------
(* handle_set_smb, in the loop *)

Receiving(p) == p \in up /\ handler[p].pc = "receive"

At(p, pc) == handler[p].pc = pc
Goto(p, pc) == handler' = [handler EXCEPT ![p].pc = pc]

TakeSet(p, v) ==
    /\ Receiving(p)
    /\ handler' = [handler EXCEPT ![p] = [pc |-> "creds", config |-> v]]
    /\ UNCHANGED <<diskVars, probeVars, up, worldVars, events>>

\* Mutant: the configuration is saved first.
SaveFirst(p) ==
    \/ /\ At(p, "creds")
       /\ conf' = [conf EXCEPT ![p] = handler[p].config]
       /\ Goto(p, "save")
       /\ UNCHANGED <<creds, probeVars, up, worldVars, events>>
    \/ /\ At(p, "save")
       /\ creds' = [creds EXCEPT ![p] = handler[p].config]
       /\ Goto(p, "swap")
       /\ UNCHANGED <<conf, probeVars, up, worldVars, events>>

\* The credentials, then smb.yaml; atomic_write leaves the old file or the new.
Write(p) ==
    \/ /\ At(p, "creds")
       /\ creds' = [creds EXCEPT ![p] = handler[p].config]
       /\ Goto(p, "save")
       /\ UNCHANGED <<conf, probeVars, up, worldVars, events>>
    \/ /\ At(p, "save")
       /\ conf' = [conf EXCEPT ![p] = handler[p].config]
       /\ Goto(p, "swap")
       /\ UNCHANGED <<creds, probeVars, up, worldVars, events>>

\* Mutant: a write that failed goes unnoticed.
WriteFailsUnnoticed(p) ==
    /\ Event
    /\ handler[p].pc \in {"creds", "save"}
    /\ Goto(p, "swap")
    /\ UNCHANGED <<diskVars, probeVars, up, worldVars>>

\* smb_write_failed: what was written before stays.
WriteFails(p) ==
    /\ Event
    /\ handler[p].pc \in {"creds", "save"}
    /\ handler' = [handler EXCEPT ![p] = Receive]
    /\ UNCHANGED <<diskVars, probeVars, up, worldVars>>

\* update_target; the probe of probe_now reads the new server at once.
Swap(p) ==
    /\ At(p, "swap")
    /\ target' = [target EXCEPT ![p] = handler[p].config]
    /\ Goto(p, "probe")
    /\ UNCHANGED <<diskVars, reachable, probe, up, worldVars, events>>

\* The result of the loop's own connect, and SMB_SET.
ProbeNow(p) ==
    /\ At(p, "probe")
    /\ reachable' = [reachable EXCEPT ![p] = handler[p].config \in serving]
    /\ handler' = [handler EXCEPT ![p] = Receive]
    /\ UNCHANGED <<diskVars, target, probe, up, worldVars, events>>

-----------------------------------------------------------------------------
(* SmbProbe._run, in its thread *)

\* Mutant: only a SET_SMB probes.
ProbeBeginNever(p) == FALSE /\ UNCHANGED nodeVars

\* The server is read under the probe's lock, the connect is made outside.
ProbeBegin(p) ==
    /\ p \in up
    /\ probe[p] = NoProbe
    /\ probe' = [probe EXCEPT ![p] = target[p]]
    /\ UNCHANGED <<diskVars, target, reachable, handler, up, worldVars, events>>

\* The result is stored whatever the target is by now.
ProbeEnd(p) ==
    /\ probe[p] # NoProbe
    /\ reachable' = [reachable EXCEPT ![p] = probe[p] \in serving]
    /\ probe' = [probe EXCEPT ![p] = NoProbe]
    /\ UNCHANGED <<diskVars, target, handler, up, worldVars, events>>

-----------------------------------------------------------------------------
(* Restarts, and what happens around the Pis *)

\* A REBOOT, a cut of the power or an exception of the loop.
Stop(p) ==
    /\ Event
    /\ p \in up
    /\ up' = up \ {p}
    /\ probe' = [probe EXCEPT ![p] = NoProbe]
    /\ handler' = [handler EXCEPT ![p] = Receive]
    /\ UNCHANGED <<diskVars, target, reachable, worldVars>>

\* Mutant: the stored configuration is not loaded.
BootUnloaded(p) ==
    /\ p \notin up
    /\ up' = up \cup {p}
    /\ target' = [target EXCEPT ![p] = NoProbe]
    /\ reachable' = [reachable EXCEPT ![p] = FALSE]
    /\ UNCHANGED <<diskVars, probe, handler, worldVars, events>>

\* main: SmbConfig.load and a probe that has not looked yet.
Boot(p) ==
    /\ p \notin up
    /\ up' = up \cup {p}
    /\ target' = [target EXCEPT ![p] = conf[p]]
    /\ reachable' = [reachable EXCEPT ![p] = FALSE]
    /\ UNCHANGED <<diskVars, probe, handler, worldVars, events>>

\* A server goes down or comes back; a Pi's camera, clock or card does.
Change ==
    /\ Event
    /\ \/ /\ \E v \in Configs : serving' \in {serving \ {v}, serving \cup {v}} \ {serving}
          /\ UNCHANGED health
       \/ /\ \E p \in Pis, h \in Healths : health' = [health EXCEPT ![p] = h]
          /\ health' # health
          /\ UNCHANGED serving
    /\ UNCHANGED <<diskVars, probeVars, handler, up>>

-----------------------------------------------------------------------------
(* Properties *)

NodeTypeOK ==
    /\ creds \in [Pis -> Configs]
    /\ conf \in [Pis -> Configs]
    /\ target \in [Pis -> Configs]
    /\ reachable \in [Pis -> BOOLEAN]
    /\ probe \in [Pis -> Configs \cup {NoProbe}]
    /\ handler \in [Pis -> Handler]
    /\ up \in SUBSET Pis
    /\ health \in [Pis -> Healths]
    /\ serving \in SUBSET Configs
    /\ events \in 0 .. MaxEvents

\* smb.yaml never names a server with the credentials of an earlier one,
\* wherever a write fails or the Pi restarts (picam_node.py:577-580).  The
\* other way round can happen: new credentials under the old server.
CredentialsFirst == \A p \in Pis : creds[p] >= conf[p]

\* docs/protocol.md says of SET_SMB that it writes both files atomically: a
\* daemon between two commands would have the credentials of its server.  A
\* write of smb.yaml that fails leaves the new password beside the old server
\* (picam_node.py:577-582).
AtomicSet == \A p \in up : handler[p].pc = "receive" => creds[p] = conf[p]

\* Between two commands the daemon pushes to what a restart would load
\* (picam_node.py:363-372, 580-588).
MemoryIsDisk == \A p \in up : handler[p].pc \in {"receive", "creds"} => target[p] = conf[p]

=============================================================================
