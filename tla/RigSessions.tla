----------------------------- MODULE RigSessions -----------------------------
(***************************************************************************)
(* Where the frames of a take are, from the shutter to the share.          *)
(*                                                                         *)
(* The GUI backend (tools/gui.py) serves every HTTP request in a thread of *)
(* its own.  A take, an upload-retry, a clear and a delete are sequences   *)
(* of UDP broadcasts to the Pis, of looks at the SMB share and of writes   *)
(* of session.json; the operation lock serialises them only from the point *)
(* where the handler enters `with self.operation(...)`.  The Pis           *)
(* (node/picam_node.py) write the frame, push it and wipe it on command.   *)
(*                                                                         *)
(* A session is its take number: the ids of different dates or subjects    *)
(* never meet.  A frame is the shot it was exposed by, so that a stale     *)
(* frame under a reused id differs from the frame the take asked for.      *)
(***************************************************************************)
EXTENDS Integers, FiniteSets

CONSTANTS
    Pis,        \* the camera nodes that hear a broadcast
    LatePis,    \* those that may still be at a command after its deadline
    Expected,   \* config["expected_pis"]
    Workers,    \* HTTP request threads of the GUI
    NoWorker,   \* nobody: a free lock, the sender of a command nobody waits for
    Events,     \* the operations and faults that may happen
    MaxTake,    \* bound: the highest take number
    MaxShots    \* bound: the number of CAPTURE broadcasts

Operations == {"take", "test", "retry", "clear", "clear-all", "delete"}

ASSUME PisAssumption == LatePis \subseteq Pis /\ IsFiniteSet(Pis)
ASSUME ExpectedAssumption == Expected \in Nat \ {0}
ASSUME WorkersAssumption == NoWorker \notin Workers
ASSUME EventsAssumption == Events \subseteq Operations \cup {"fault", "damage"}
ASSUME BoundsAssumption == MaxTake \in Nat /\ MaxShots \in Nat

VARIABLES
    opLock,     \* the worker that holds App.op_lock, or NoWorker
    job,        \* per worker: how far its request is, and its local variables
    replies,    \* per worker: the answers to its current broadcast
    inbox,      \* per Pi: the commands delivered and not yet carried out
    file,       \* per Pi and session: the frame under CAPTURE_DIR/<session>/
    share,      \* per session and Pi: the frame under scans_root/<session>/
    dirs,       \* the session directories that exist on the share
    manifest,   \* per session: session.json
    shots       \* CAPTURE broadcasts so far

vars == <<opLock, job, replies, inbox, file, share, dirs, manifest, shots>>
shareVars == <<share, dirs, manifest>>

-----------------------------------------------------------------------------
(* Data *)

Sessions == 1 .. MaxTake
AllSessions == 0        \* a CLEAR without session_id

Absent == 0             \* no file
Damaged == -1           \* a file without the JPEG head or tail
Frame == Damaged .. MaxShots    \* 1 .. MaxShots: a whole frame of that shot

\* session.json: trigger_at_unix (the shot), captured, verified, cleared_on_pis.
Manifest == [shot : 0 .. MaxShots, captured : SUBSET Pis,
             verified : BOOLEAN, cleared : BOOLEAN]
NewManifest(k) == [shot |-> k, captured |-> {}, verified |-> FALSE, cleared |-> FALSE]
NoManifest == NewManifest(0)

Mark(m, captured, verified, cleared) ==
    [shot |-> m.shot, captured |-> captured, verified |-> verified, cleared |-> cleared]

PCs == {"idle", "check", "ready", "capture", "upload", "verify", "clear",
        "write", "delete"}
Critical == PCs \ {"idle", "check", "ready"}    \* inside `with self.operation`

Job == [pc : PCs, op : Operations \cup {"none"}, sess : 0 .. MaxTake, man : Manifest]
Idle == [pc |-> "idle", op |-> "none", sess |-> 0, man |-> NoManifest]

Command == [msg : {"CAPTURE", "UPLOAD", "CLEAR"}, sess : 0 .. MaxTake,
            shot : 0 .. MaxShots, by : Workers \cup {NoWorker}]

Init ==
    /\ opLock = NoWorker
    /\ job = [w \in Workers |-> Idle]
    /\ replies = [w \in Workers |-> {}]
    /\ inbox = [p \in Pis |-> {}]
    /\ file = [p \in Pis |-> [s \in Sessions |-> Absent]]
    /\ share = [s \in Sessions |-> [p \in Pis |-> Absent]]
    /\ dirs = {}
    /\ manifest = [s \in Sessions |-> NoManifest]
    /\ shots = 0

-----------------------------------------------------------------------------
(* The operation lock and the broadcasts of a worker *)

\* Mutant: the operation starts whoever holds the lock.
FreeIgnored == TRUE

Free == opLock = NoWorker

Acquire(w) == Free /\ opLock' = w

\* Environment: an on-time Pi has carried out what an ended or failed
\* operation left behind before the next request comes.
Settled == \A p \in Pis \ LatePis : \A c \in inbox[p] : c.by # NoWorker

\* The commands at p once worker w has stopped waiting: an answer that comes
\* later carries an id nobody collects.
Abandoned(w, p) ==
    {[msg |-> c.msg, sess |-> c.sess, shot |-> c.shot,
      by |-> IF c.by = w THEN NoWorker ELSE c.by] : c \in inbox[p]}

\* Three sends of one datagram reach any subset of the Pis; the dedupe cache
\* leaves one command of them.
Broadcast(w, msg, s, shot) ==
    /\ \E delivered \in SUBSET Pis :
         inbox' = [p \in Pis |-> Abandoned(w, p) \cup
                     IF p \in delivered
                       THEN {[msg |-> msg, sess |-> s, shot |-> shot, by |-> w]}
                       ELSE {}]
    /\ replies' = [replies EXCEPT ![w] = {}]

StopListening(w) ==
    /\ inbox' = [p \in Pis |-> Abandoned(w, p)]
    /\ replies' = [replies EXCEPT ![w] = {}]

Heard(w) == {r.pi : r \in replies[w]}

\* Mutant: the replies themselves are listed, not the Pis they came from.
YesReplies(w) == {r \in replies[w] : r.ok}

Yes(w) == {r.pi : r \in {x \in replies[w] : x.ok}}

\* Mutant: the receive loop has no deadline.
DeadlineNever(w) == FALSE

\* The deadline passes: every on-time Pi that got the datagram is done with it.
Deadline(w) == \A p \in Pis \ LatePis : \A c \in inbox[p] : c.by # w

CountReached(w) == Cardinality(Heard(w)) >= Expected \/ Deadline(w)
IdsReached(w, ids) == (ids # {} /\ ids \subseteq Heard(w)) \/ Deadline(w)

-----------------------------------------------------------------------------
(* The share, as a worker sees it *)

\* Mutant: the highest take that has a directory, without the plus one.
IsNextIdOffByOne(s) == (\A d \in dirs : d <= s) /\ (s = 1 \/ s \in dirs)

\* next_session_id: one more than the highest take that has a directory.
IsNextId(s) == (\A d \in dirs : d < s) /\ (s = 1 \/ s - 1 \in dirs)

\* Mutant: a file that exists counts, whatever its head and tail.
VerifiedByPresence(s, captured) ==
    /\ \A p \in captured : share[s][p] # Absent
    /\ Cardinality(captured) = Expected

\* _verify: every captured Pi has a whole JPEG, and as many as expected did.
Verified(s, captured) ==
    /\ \A p \in captured : share[s][p] \notin {Absent, Damaged}
    /\ Cardinality(captured) = Expected

Save(s, m) ==
    /\ manifest' = [manifest EXCEPT ![s] = m]
    /\ dirs' = dirs \cup {s}
    /\ UNCHANGED share

Goto(w, pc, m) ==
    job' = [job EXCEPT ![w] = [pc |-> pc, op |-> @.op, sess |-> @.sess, man |-> m]]

Finish(w) == job' = [job EXCEPT ![w] = Idle]

-----------------------------------------------------------------------------
(* api_take, _run_take *)

\* The lock, the next id and the CAPTURE broadcast.
StartTake(w) ==
    /\ job[w].pc = "idle"
    /\ Settled
    /\ Acquire(w)
    /\ shots < MaxShots
    /\ shots' = shots + 1
    /\ \E op \in {"take", "test"} \cap Events, s \in Sessions :
         /\ IsNextId(s)
         /\ job' = [job EXCEPT ![w] =
                      [pc |-> "capture", op |-> op, sess |-> s,
                       man |-> NewManifest(shots + 1)]]
         /\ Broadcast(w, "CAPTURE", s, shots + 1)
    /\ UNCHANGED <<file, shareVars>>

\* The CAPTURED replies are counted; UPLOAD goes out if there is one.
CaptureDone(w) ==
    /\ job[w].pc = "capture"
    /\ CountReached(w)
    /\ LET m == Mark(job[w].man, Yes(w), FALSE, FALSE)
       IN IF Yes(w) = {}
            THEN Goto(w, "verify", m) /\ StopListening(w)
            ELSE Goto(w, "upload", m) /\ Broadcast(w, "UPLOAD", job[w].sess, 0)
    /\ UNCHANGED <<opLock, file, shareVars, shots>>

\* Of a take and of a retry: each waits for the Pis of the manifest.
UploadDone(w) ==
    /\ job[w].pc = "upload"
    /\ IdsReached(w, job[w].man.captured)
    /\ Goto(w, "verify", job[w].man)
    /\ StopListening(w)
    /\ UNCHANGED <<opLock, file, shareVars, shots>>

\* A verified test take wipes the Pis at once.
Verify(w) ==
    LET ok == Verified(job[w].sess, job[w].man.captured)
        m == Mark(job[w].man, job[w].man.captured, ok, job[w].man.cleared)
    IN /\ job[w].pc = "verify"
       /\ IF ok /\ job[w].op = "test"
            THEN Goto(w, "clear", m) /\ Broadcast(w, "CLEAR", job[w].sess, 0)
            ELSE Goto(w, "write", m) /\ UNCHANGED <<inbox, replies>>
       /\ UNCHANGED <<opLock, file, shareVars, shots>>

\* One CLEARED reply is enough for cleared_on_pis.
ClearDone(w) ==
    /\ job[w].pc = "clear"
    /\ CountReached(w)
    /\ StopListening(w)
    /\ IF job[w].op = "clear-all"
         THEN Finish(w) /\ opLock' = NoWorker
         ELSE LET m == job[w].man
              IN /\ Goto(w, "write", Mark(m, m.captured, m.verified, Yes(w) # {}))
                 /\ UNCHANGED opLock
    /\ UNCHANGED <<file, shareVars, shots>>

\* The end of a take, a retry and a clear.
WriteManifest(w) ==
    /\ job[w].pc = "write"
    /\ Save(job[w].sess, job[w].man)
    /\ Finish(w)
    /\ opLock' = NoWorker
    /\ UNCHANGED <<replies, inbox, file, shots>>

-----------------------------------------------------------------------------
(* api_upload_retry, api_clear, api_session_delete: what they read before *)
(* they ask for the lock *)

Ask(w, op, s, pc) ==
    /\ op \in Events
    /\ job[w].pc = "idle"
    /\ Settled
    /\ job' = [job EXCEPT ![w] = [pc |-> pc, op |-> op, sess |-> s, man |-> manifest[s]]]
    /\ UNCHANGED <<opLock, replies, inbox, file, shareVars, shots>>

AskRetry(w) == \E s \in Sessions : manifest[s] # NoManifest /\ Ask(w, "retry", s, "ready")

AskClear(w) == \E s \in Sessions : manifest[s].verified /\ Ask(w, "clear", s, "check")

\* The confirm word is compared here: it must be the session's name when
\* OnlyCopy, else "DELETE".  A wrong word ends the request.
AskDelete(w) == \E s \in dirs : Ask(w, "delete", s, "ready")

OnlyCopy(m) == m = NoManifest \/ m.cleared

\* The manifest's flag is history: look at the share again.
CheckClear(w) ==
    /\ job[w].pc = "check"
    /\ IF Verified(job[w].sess, job[w].man.captured)
         THEN Goto(w, "ready", job[w].man) /\ UNCHANGED shareVars
         ELSE LET m == job[w].man
              IN Finish(w) /\ Save(job[w].sess, Mark(m, m.captured, FALSE, m.cleared))
    /\ UNCHANGED <<opLock, replies, inbox, file, shots>>

\* BusyError: the lock is not waited for.
Busy(w) ==
    /\ job[w].pc = "ready"
    /\ ~ Free
    /\ Finish(w)
    /\ UNCHANGED <<opLock, replies, inbox, file, shareVars, shots>>

RunRetry(w) ==
    /\ job[w].pc = "ready"
    /\ job[w].op = "retry"
    /\ Acquire(w)
    /\ Goto(w, "upload", job[w].man)
    /\ Broadcast(w, "UPLOAD", job[w].sess, 0)
    /\ UNCHANGED <<file, shareVars, shots>>

RunClear(w) ==
    /\ job[w].pc = "ready"
    /\ job[w].op = "clear"
    /\ Acquire(w)
    /\ Goto(w, "clear", job[w].man)
    /\ Broadcast(w, "CLEAR", job[w].sess, 0)
    /\ UNCHANGED <<file, shareVars, shots>>

RunDelete(w) ==
    /\ job[w].pc = "ready"
    /\ job[w].op = "delete"
    /\ Acquire(w)
    /\ Goto(w, "delete", job[w].man)
    /\ UNCHANGED <<replies, inbox, file, shareVars, shots>>

\* rmtree of the session's directory.
DeleteDir(w) ==
    /\ job[w].pc = "delete"
    /\ share' = [share EXCEPT ![job[w].sess] = [p \in Pis |-> Absent]]
    /\ manifest' = [manifest EXCEPT ![job[w].sess] = NoManifest]
    /\ dirs' = dirs \ {job[w].sess}
    /\ Finish(w)
    /\ opLock' = NoWorker
    /\ UNCHANGED <<replies, inbox, file, shots>>

\* rmtree raises half way: some of the directory's files are gone.
DeleteFails(w) ==
    /\ "fault" \in Events
    /\ job[w].pc = "delete"
    /\ \E gone \in SUBSET Pis :
         share' = [share EXCEPT ![job[w].sess] = [p \in Pis |-> IF p \in gone THEN Absent ELSE @[p]]]
    /\ manifest' \in {manifest, [manifest EXCEPT ![job[w].sess] = NoManifest]}
    /\ Finish(w)
    /\ opLock' = NoWorker
    /\ UNCHANGED <<replies, inbox, file, dirs, shots>>

\* api_clear_all: no manifest is read or written.
StartClearAll(w) ==
    /\ "clear-all" \in Events
    /\ job[w].pc = "idle"
    /\ Settled
    /\ Acquire(w)
    /\ job' = [job EXCEPT ![w] =
           [pc |-> "clear", op |-> "clear-all", sess |-> AllSessions, man |-> NoManifest]]
    /\ Broadcast(w, "CLEAR", AllSessions, 0)
    /\ UNCHANGED <<file, shareVars, shots>>

-----------------------------------------------------------------------------
(* A Pi carries out one command, with the thread it starts *)

\* One datagram, not repeated: it reaches the worker that waits for it, or is
\* lost.
Answer(p, c, ok) ==
    /\ inbox' = [inbox EXCEPT ![p] = @ \ {c}]
    /\ \/ /\ c.by \in Workers
          /\ replies' = [replies EXCEPT ![c.by] = @ \cup {[pi |-> p, ok |-> ok]}]
       \/ UNCHANGED replies

\* CAPTURED, or an ERROR: a refused CAPTURE touches nothing, a capture that
\* fails half way leaves a file that is no JPEG.
PiCapture(p) == \E c \in {x \in inbox[p] : x.msg = "CAPTURE"} :
    /\ \/ /\ file' = [file EXCEPT ![p][c.sess] = c.shot]
          /\ Answer(p, c, TRUE)
       \/ /\ \E left \in {file[p][c.sess], Damaged} :
               file' = [file EXCEPT ![p][c.sess] = left]
          /\ Answer(p, c, FALSE)
    /\ UNCHANGED <<opLock, job, shareVars, shots>>

\* unknown_session, UPLOADED, or upload_failed with the push not begun, only
\* the directory made, or the put cut short.
PiUpload(p) == \E c \in {x \in inbox[p] : x.msg = "UPLOAD"} :
    /\ \/ /\ file[p][c.sess] = Absent
          /\ Answer(p, c, FALSE)
          /\ UNCHANGED <<share, dirs>>
       \/ /\ file[p][c.sess] # Absent
          /\ share' = [share EXCEPT ![c.sess][p] = file[p][c.sess]]
          /\ dirs' = dirs \cup {c.sess}
          /\ Answer(p, c, TRUE)
       \/ /\ file[p][c.sess] # Absent
          /\ Answer(p, c, FALSE)
          /\ \/ UNCHANGED <<share, dirs>>
             \/ /\ \E left \in {share[c.sess][p], Damaged} :
                     share' = [share EXCEPT ![c.sess][p] = left]
                /\ dirs' = dirs \cup {c.sess}
    /\ UNCHANGED <<opLock, job, file, manifest, shots>>

\* Mutant: the session_id of a CLEAR is not looked at.
PiClearEverything(p) == \E c \in {x \in inbox[p] : x.msg = "CLEAR"} :
    /\ file' = [file EXCEPT ![p] = [s \in Sessions |-> Absent]]
    /\ Answer(p, c, TRUE)
    /\ UNCHANGED <<opLock, job, shareVars, shots>>

\* rmtree(ignore_errors=True): what cannot be removed stays.
Stuck == IF "fault" \in Events THEN SUBSET Sessions ELSE {{}}

\* CLEARED, whatever was there to remove and whatever of it is gone.
PiClear(p) == \E c \in {x \in inbox[p] : x.msg = "CLEAR"} :
    /\ \E stuck \in Stuck :
         file' = [file EXCEPT ![p] = [s \in Sessions |->
                   IF c.sess \in {s, AllSessions} /\ s \notin stuck THEN Absent ELSE @[s]]]
    /\ Answer(p, c, TRUE)
    /\ UNCHANGED <<opLock, job, shareVars, shots>>

-----------------------------------------------------------------------------
(* Faults *)

\* Mutant: operation() frees the lock only when its body ends well.
FailKeepsLock(w) ==
    /\ "fault" \in Events
    /\ job[w].pc # "idle"
    /\ Finish(w)
    /\ StopListening(w)
    /\ UNCHANGED <<opLock, file, shareVars, shots>>

\* An exception, or the end of the process, at any point of a request: the
\* `finally` of operation() frees the lock.
Fail(w) ==
    /\ "fault" \in Events
    /\ job[w].pc # "idle"
    /\ Finish(w)
    /\ StopListening(w)
    /\ opLock' = IF opLock = w THEN NoWorker ELSE opLock
    /\ UNCHANGED <<file, shareVars, shots>>

\* Somebody prunes or corrupts a file of the share between two requests.
Damage ==
    /\ "damage" \in Events
    /\ \A w \in Workers : job[w].pc = "idle"
    /\ \E s \in Sessions, p \in Pis, left \in {Absent, Damaged} :
         /\ share[s][p] # Absent
         /\ share' = [share EXCEPT ![s][p] = left]
    /\ UNCHANGED <<opLock, job, replies, inbox, file, dirs, manifest, shots>>

-----------------------------------------------------------------------------
Request(w) == StartTake(w) \/ StartClearAll(w) \/ AskRetry(w) \/ AskClear(w) \/ AskDelete(w)

Progress(w) ==
    \/ CaptureDone(w) \/ UploadDone(w) \/ Verify(w) \/ ClearDone(w)
    \/ WriteManifest(w) \/ CheckClear(w) \/ Busy(w) \/ RunRetry(w)
    \/ RunClear(w) \/ RunDelete(w) \/ DeleteDir(w)

Pi(p) == PiCapture(p) \/ PiUpload(p) \/ PiClear(p)

Next ==
    \/ \E w \in Workers : Request(w) \/ Progress(w) \/ DeleteFails(w) \/ Fail(w)
    \/ \E p \in Pis : Pi(p)
    \/ Damage

\* Threads are scheduled and every Pi works off its commands; nobody has to
\* make a request, and no fault has to happen.
Fairness ==
    /\ \A w \in Workers : WF_vars(Progress(w))
    /\ \A p \in Pis : WF_vars(Pi(p))

Spec == Init /\ [][Next]_vars /\ Fairness

-----------------------------------------------------------------------------
(* Properties *)

\* Type invariant of all nine variables (App, UdpRig, Node and the disk).
TypeOK ==
    /\ opLock \in Workers \cup {NoWorker}
    /\ job \in [Workers -> Job]
    /\ replies \in [Workers -> SUBSET [pi : Pis, ok : BOOLEAN]]
    /\ inbox \in [Pis -> SUBSET Command]
    /\ file \in [Pis -> [Sessions -> Frame]]
    /\ share \in [Sessions -> [Pis -> Frame]]
    /\ dirs \in SUBSET Sessions
    /\ manifest \in [Sessions -> Manifest]
    /\ shots \in 0 .. MaxShots

\* At most one request is inside `with self.operation`, it is the one that
\* holds op_lock, and only its broadcast is listened to (gui.py:537-559).
OneOperation ==
    /\ \A w \in Workers : job[w].pc \in Critical <=> opLock = w
    /\ \A p \in Pis : \A c \in inbox[p] : c.by \in {opLock, NoWorker}

\* While a worker of one of the given operations waits for its CLEAR of a
\* session, every whole frame the CLEAR is about to wipe is on the share, and
\* it is the same exposure.
Backed(ops) ==
    \A p \in Pis : \A c \in inbox[p] :
        (/\ c.msg = "CLEAR"
         /\ c.by \in Workers
         /\ job[c.by].op \in ops
         /\ file[p][c.sess] \notin {Absent, Damaged})
        => share[c.sess][p] = file[p][c.sess]

\* No CLEAR of a session wipes the only copy of a frame ("CLEAR gated on
\* verification"; gui.py:1158-1160 and 1069-1077).
ClearBacked == Backed({"test", "clear"})

\* The CLEAR of a test take, which follows its verification without leaving
\* the lock, wipes no only copy whatever the other requests do.
TestClearBacked == Backed({"test"})

\* A verified manifest never stands for a frame of another exposure than the
\* one it recorded, although session ids are reused (gui.py:755-764, 766-795).
VerifiedIsThisTake ==
    \A s \in Sessions : manifest[s].verified =>
        \A p \in manifest[s].captured :
            share[s][p] \in {Absent, Damaged, manifest[s].shot}

\* Every whole frame in a session's directory is an exposure of that session's
\* take ("clients are responsible for unique session IDs").
NoStaleFrame ==
    \A s \in Sessions : manifest[s] # NoManifest =>
        \A p \in Pis : share[s][p] \in {Absent, Damaged, manifest[s].shot}

\* A take that writes verified = True does so while the share holds every
\* captured frame: nothing came between the look at the share and the write of
\* session.json (gui.py:1032-1079).
VerifiedWhenWritten ==
    [][\A w \in Workers :
         (/\ job[w].pc = "write"
          /\ job[w].op \in {"take", "test"}
          /\ job[w].man.verified
          /\ job'[w].pc = "idle"
          /\ manifest' # manifest)
         => \A p \in job[w].man.captured : share[job[w].sess][p] \notin {Absent, Damaged}]_vars


\* "Deleting asks for the word DELETE, unless the Pi copies were already
\* cleared": where session.json, as the directory goes, says that the share has
\* the only copy, the delete has asked for the full name. The word is chosen
\* from a session.json read before the lock (gui.py:1235-1244).
DeleteAsksForName ==
    [][\A w \in Workers :
         (/\ job[w].pc = "delete"
          /\ job'[w].pc = "idle"
          /\ dirs' # dirs
          /\ manifest[job[w].sess] # NoManifest
          /\ OnlyCopy(manifest[job[w].sess]))
         => OnlyCopy(job[w].man)]_vars

\* An upload-retry does not take back what a clear has noted meanwhile: a
\* manifest that says that the Pis hold their copies proves it (gui.py:1102,
\* 1128-1134, 1236-1237).
RetryKeepsCleared ==
    [][\A w \in Workers :
         (/\ job[w].pc = "write"
          /\ job[w].op = "retry"
          /\ job'[w].pc = "idle"
          /\ manifest[job[w].sess].cleared
          /\ manifest[job[w].sess].shot = job[w].man.shot)
         => manifest'[job[w].sess].cleared]_vars

\* Every request ends, well or with an exception at any point of it, and leaves
\* the operation lock free of it: nobody who did not come back still holds it
\* (gui.py:537-559, 149-185).
RequestEnds ==
    \A w \in Workers : job[w].pc # "idle" ~> (job[w].pc = "idle" /\ opLock # w)

=============================================================================
