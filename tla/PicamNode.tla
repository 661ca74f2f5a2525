------------------------------ MODULE PicamNode ------------------------------
(***************************************************************************)
(* One Pi's daemon (node/picam_node.py): the loop that takes datagrams off *)
(* the socket and drops the copies of those it has seen, the one camera    *)
(* behind its lock, and the threads that METER, CAPTURE, REBOOT and HALT   *)
(* start.                                                                  *)
(*                                                                         *)
(* A broadcast is its id; what it asks for is chosen when the loop carries *)
(* it out.  A frame is the CAPTURE that exposed it.  UPLOAD is in          *)
(* RigSessions, PING, SET_SMB and SET_NTP in NodeConfig: here they only    *)
(* take a place in the cache.                                              *)
(***************************************************************************)
EXTENDS Integers, Sequences

CONSTANTS
    Sessions,
    Settings,       \* what a CONFIGURE may set: records with a resolution
    Default,        \* CameraSettings()
    AutoExposure,   \* AeEnable and AwbEnable, no settings of anybody's
    None,           \* no argument
    CacheSize,      \* DEDUPE_CACHE_SIZE
    Window,         \* broadcasts sent while a copy of one is on its way
    Copies,         \* datagrams of one broadcast
    MaxMessages     \* bound: the number of broadcasts

ASSUME SettingsAssumption == AutoExposure \notin Settings \cup {Default}
ASSUME NoneAssumption == None \notin Settings \cup Sessions
\* Copies may overtake each other: Window - 1 older and Window - 1 newer
\* broadcasts may come between two copies of one.
ASSUME CacheAssumption == Window \in Nat \ {0} /\ CacheSize \in Nat /\ CacheSize >= 2 * Window - 1
ASSUME BoundsAssumption == Copies \in Nat /\ MaxMessages \in Nat

VARIABLES
    sent,       \* the number of broadcasts so far
    copies,     \* per broadcast: its datagrams in the air and in the socket
    seen,       \* DedupeCache._seen, oldest first
    runs,       \* per broadcast: how often it was carried out (history)
    task,       \* per broadcast: how far its handler or thread is
    lock,       \* the broadcast whose handler holds Camera._lock, or Nobody
    settings,   \* Camera.settings
    configured, \* Camera.configured
    camera,     \* the sensor pipeline itself
    raised,     \* what the last camera call that raised has left (history)
    file,       \* per session: the frame under CAPTURE_DIR/<session>/
    dir,        \* the session directories
    taken,      \* CAPTUREs whose frame has gone since it was whole (history)
    up          \* the daemon runs

netVars == <<sent, copies, seen, runs>>
cameraVars == <<settings, configured, camera, raised>>
diskVars == <<file, dir, taken>>
vars == <<netVars, task, lock, cameraVars, diskVars, up>>

Ids == 1 .. MaxMessages
Nobody == 0

Manual == Settings \cup {Default}

Absent == 0
Partial == -1       \* opened and not yet whole

Task == [pc : {"none", "configure", "meter", "settle", "mkdir", "sleep", "due",
               "expose", "write", "reply", "power", "captured", "ended"},
         arg : Settings \cup Sessions \cup {None}]

\* The pipeline after _open() and _apply_controls().
Opened(s) == [on |-> TRUE, resolution |-> s.resolution, controls |-> s]

Init ==
    /\ sent = 0
    /\ copies = [i \in Ids |-> 0]
    /\ seen = << >>
    /\ runs = [i \in Ids |-> 0]
    /\ task = [i \in Ids |-> [pc |-> "none", arg |-> None]]
    /\ lock = Nobody
    /\ settings = Default
    /\ configured = FALSE
    /\ camera = Opened(Default)
    /\ raised = "nothing"
    /\ file = [s \in Sessions |-> Absent]
    /\ dir = {}
    /\ taken = {}
    /\ up = TRUE

-----------------------------------------------------------------------------
(* The broadcast and the dedupe cache *)

\* Some of the copies arrive; no copy is on its way for longer than Window
\* broadcasts take.
Send ==
    /\ sent < MaxMessages
    /\ \A i \in 1 .. sent + 1 - Window : copies[i] = 0
    /\ sent' = sent + 1
    /\ \E n \in 1 .. Copies : copies' = [copies EXCEPT ![sent + 1] = n]
    /\ UNCHANGED <<seen, runs, task, lock, cameraVars, diskVars, up>>

\* The entries left when the first n have expired: DEDUPE_TTL_S is longer
\* than any copy is on its way.
Unexpired(n) == SubSeq(seen, n + 1, Len(seen))
Expired(n) == \A k \in 1 .. n : copies[seen[k]] = 0

\* Mutant: the oldest goes as soon as the cache is full.
EvictEarly(q) == IF Len(q) >= CacheSize THEN Tail(q) ELSE q

\* Mutant: nothing is evicted.
EvictNothing(q) == q

Evict(q) == IF Len(q) > CacheSize THEN Tail(q) ELSE q

\* The loop waits in CONFIGURE for the camera lock, or is back at recvfrom.
Receiving == up /\ \A i \in Ids : task[i].pc # "configure"

\* check_and_add: isNew of broadcast i.
Take(i, isNew) ==
    /\ Receiving
    /\ copies[i] > 0
    /\ copies' = [copies EXCEPT ![i] = @ - 1]
    /\ \E n \in 0 .. Len(seen) :
         /\ Expired(n)
         /\ isNew = (\A k \in DOMAIN Unexpired(n) : Unexpired(n)[k] # i)
         /\ seen' = IF isNew THEN Evict(Append(Unexpired(n), i)) ELSE Unexpired(n)
    /\ runs' = IF isNew THEN [runs EXCEPT ![i] = @ + 1] ELSE runs
    /\ UNCHANGED <<sent, up>>

DropCopy(i) == Take(i, FALSE) /\ UNCHANGED <<task, lock, cameraVars, diskVars>>

Goto(i, pc) == task' = [task EXCEPT ![i].pc = pc]
Start(i, pc, arg) == task' = [task EXCEPT ![i] = [pc |-> pc, arg |-> arg]]
End(i) == Start(i, "ended", None)

\* Answered at once without touching camera or captures: PING and the rest, a
\* CAPTURE that a gate refuses, a CONFIGURE that does not parse.
Answered(i) == Take(i, TRUE) /\ End(i) /\ UNCHANGED <<lock, cameraVars, diskVars>>

-----------------------------------------------------------------------------
(* The camera lock *)

\* Mutant: METER does not ask for the lock.
MeterAcquireNothing(i) == lock' = i

Acquire(i) == lock = Nobody /\ lock' = i
MeterAcquire(i) == Acquire(i)

Release == lock' = Nobody

\* Mutant: the lock is not released by a `with`, and stays with a METER that
\* raises.
MeterRaisesHolding(i) ==
    /\ task[i].pc = "settle"
    /\ raised' = IF raised = "pipeline" THEN "pipeline" ELSE "controls"
    /\ End(i)
    /\ UNCHANGED <<netVars, lock, settings, configured, camera, diskVars, up>>

-----------------------------------------------------------------------------
(* CONFIGURE: in the loop, which waits for the lock *)

StartConfigure(i) ==
    /\ Take(i, TRUE)
    /\ \E s \in Settings : Start(i, "configure", s)
    /\ UNCHANGED <<lock, cameraVars, diskVars>>

\* Mutant: the new resolution is compared with itself.
NeedReopenNever(s) == FALSE

NeedReopen(s) == s.resolution # settings.resolution

\* The lock is held for this step only: nobody looks at the camera without it.
Configure(i) ==
    LET s == task[i].arg
    IN /\ up
       /\ task[i].pc = "configure"
       /\ lock = Nobody
       /\ settings' = s
       /\ configured' = TRUE
       /\ IF NeedReopen(s)
            THEN camera' = Opened(s) /\ raised' = "nothing"
            ELSE /\ camera' = [camera EXCEPT !.controls = s]
                 /\ raised' = IF raised = "pipeline" THEN "pipeline" ELSE "nothing"
       /\ End(i)
       /\ UNCHANGED <<netVars, lock, diskVars, up>>

\* The settings are stored before the camera call that raises.  Stopping,
\* configuring, starting or the controls: a reopen leaves the old pipeline, a
\* stopped one, or the new one under its own auto exposure.
ConfigureRaises(i) ==
    LET s == task[i].arg
    IN /\ up
       /\ task[i].pc = "configure"
       /\ lock = Nobody
       /\ settings' = s
       /\ IF NeedReopen(s)
            THEN /\ camera' \in {camera, [camera EXCEPT !.on = FALSE],
                                 [Opened(s) EXCEPT !.controls = AutoExposure]}
                 /\ raised' = "pipeline"
            ELSE /\ raised' = IF raised = "pipeline" THEN "pipeline" ELSE "controls"
                 /\ UNCHANGED camera
       /\ End(i)
       /\ UNCHANGED <<netVars, lock, configured, diskVars, up>>

-----------------------------------------------------------------------------
(* METER *)

StartMeter(i) ==
    /\ Take(i, TRUE)
    /\ Start(i, "meter", None)
    /\ UNCHANGED <<lock, cameraVars, diskVars>>

MeterBegin(i) ==
    /\ task[i].pc = "meter"
    /\ MeterAcquire(i)
    /\ camera' = [camera EXCEPT !.controls = AutoExposure]
    /\ Goto(i, "settle")
    /\ UNCHANGED <<netVars, settings, configured, raised, diskVars, up>>

\* The settled values are read and the manual settings applied again.
MeterEnd(i) ==
    /\ task[i].pc = "settle"
    /\ camera' = [camera EXCEPT !.controls = settings]
    /\ Release
    /\ End(i)
    /\ UNCHANGED <<netVars, settings, configured, raised, diskVars, up>>

\* Reading or applying raises: auto exposure stays on.
MeterRaises(i) ==
    /\ task[i].pc = "settle"
    /\ raised' = IF raised = "pipeline" THEN "pipeline" ELSE "controls"
    /\ Release
    /\ End(i)
    /\ UNCHANGED <<netVars, settings, configured, camera, diskVars, up>>

-----------------------------------------------------------------------------
(* CAPTURE and CLEAR *)

\* The gates of handle_capture; Answered stands for those that refuse.
StartCapture(i) ==
    /\ configured
    /\ Take(i, TRUE)
    /\ \E s \in Sessions : Start(i, "mkdir", s)
    /\ UNCHANGED <<lock, cameraVars, diskVars>>

MakeDir(i) ==
    /\ task[i].pc = "mkdir"
    /\ dir' = dir \cup {task[i].arg}
    /\ Goto(i, "sleep")
    /\ UNCHANGED <<netVars, lock, cameraVars, file, taken, up>>

\* Outside the try: the thread ends and nothing is answered.
MakeDirRaises(i) ==
    /\ task[i].pc = "mkdir"
    /\ End(i)
    /\ UNCHANGED <<netVars, lock, cameraVars, diskVars, up>>

\* sleep_until is over, and the shutter time noted.
Trigger(i) ==
    /\ task[i].pc = "sleep"
    /\ Goto(i, "due")
    /\ UNCHANGED <<netVars, lock, cameraVars, diskVars, up>>

\* Mutant: capture_jpeg does not ask for the lock.
ExposeAcquireNothing(i) == lock' = i

ExposeAcquire(i) == Acquire(i)

Expose(i) ==
    /\ task[i].pc = "due"
    /\ ExposeAcquire(i)
    /\ Goto(i, "expose")
    /\ UNCHANGED <<netVars, cameraVars, diskVars, up>>

\* The CAPTUREs of a session whose frame was whole and may be on the card.
Kept(s) == {i \in Ids : task[i].pc \in {"reply", "captured"} /\ task[i].arg = s}

\* capture_file opens the file once it has the frame.
Open(i) ==
    /\ task[i].pc = "expose"
    /\ task[i].arg \in dir
    /\ file' = [file EXCEPT ![task[i].arg] = Partial]
    /\ taken' = taken \cup Kept(task[i].arg)
    /\ Goto(i, "write")
    /\ UNCHANGED <<netVars, lock, cameraVars, dir, up>>

\* dest.stat(), under the lock: a CLEAR has not removed the file since it was
\* opened.
Holds(i) == file[task[i].arg] # Absent

\* The file is whole, and capture_jpeg leaves the lock.
Written(i) ==
    /\ task[i].pc = "write"
    /\ Holds(i)
    /\ file' = [file EXCEPT ![task[i].arg] = i]
    /\ Release
    /\ Goto(i, "reply")
    /\ UNCHANGED <<netVars, cameraVars, dir, taken, up>>

\* sendto of CAPTURED.
Reply(i) ==
    /\ task[i].pc = "reply"
    /\ Goto(i, "captured")
    /\ UNCHANGED <<netVars, lock, cameraVars, diskVars, up>>

\* capture_failed: the camera raised, or the directory or the file is gone.
CaptureRaises(i) ==
    /\ task[i].pc \in {"expose", "write"}
    /\ Release
    /\ End(i)
    /\ UNCHANGED <<netVars, cameraVars, diskVars, up>>

\* In the loop, while capture threads run: one session or all of them, but for
\* what rmtree, which ignores its errors, cannot remove.
Clear(i) ==
    /\ Take(i, TRUE)
    /\ End(i)
    /\ \E gone \in SUBSET Sessions :
         /\ file' = [s \in Sessions |-> IF s \in gone THEN Absent ELSE file[s]]
         /\ dir' = dir \ gone
         /\ taken' = taken \cup UNION {Kept(s) : s \in gone}
    /\ UNCHANGED <<lock, cameraVars>>

-----------------------------------------------------------------------------
(* REBOOT and HALT *)

\* REBOOTING or HALTING is sent, a thread waits a second.
StartPower(i) ==
    /\ Take(i, TRUE)
    /\ Start(i, "power", None)
    /\ UNCHANGED <<lock, cameraVars, diskVars>>

\* systemctl fails, or this is not a Pi.
StayUp(i) ==
    /\ task[i].pc = "power"
    /\ End(i)
    /\ UNCHANGED <<netVars, lock, cameraVars, diskVars, up>>

\* Every thread ends where it is; what is in the socket is lost.
Stop ==
    /\ up' = FALSE
    /\ task' = [j \in Ids |-> IF task[j].pc \in {"none", "captured"} THEN task[j]
                              ELSE [pc |-> "ended", arg |-> None]]
    /\ copies' = [j \in Ids |-> 0]
    /\ lock' = Nobody
    /\ UNCHANGED <<sent, seen, runs, cameraVars, diskVars>>

GoDown(i) == task[i].pc = "power" /\ Stop

\* sendto raises in the loop, outside its try, or the process is killed; what
\* it has written stays.
Crash == up /\ Stop

\* main, once the copies sent before have long gone (RestartSec): the captures
\* are kept, everything else is as new.
Boot ==
    /\ ~ up
    /\ up' = TRUE
    /\ seen' = << >>
    /\ settings' = Default
    /\ configured' = FALSE
    /\ camera' = Opened(Default)
    /\ raised' = "nothing"
    /\ copies' = [j \in Ids |-> 0]
    /\ UNCHANGED <<sent, runs, task, lock, diskVars>>

-----------------------------------------------------------------------------
Dispatch(i) ==
    \/ DropCopy(i) \/ Answered(i) \/ StartConfigure(i) \/ StartMeter(i)
    \/ StartCapture(i) \/ Clear(i) \/ StartPower(i)

\* The steps of the threads and of a CONFIGURE that has the lock.
Proceed(i) ==
    \/ Configure(i) \/ ConfigureRaises(i)
    \/ MeterBegin(i) \/ MeterEnd(i) \/ MeterRaises(i)
    \/ MakeDir(i) \/ MakeDirRaises(i) \/ Trigger(i) \/ Expose(i)
    \/ Open(i) \/ Written(i) \/ Reply(i) \/ CaptureRaises(i)
    \/ StayUp(i) \/ GoDown(i)

Next == Send \/ (\E i \in Ids : Dispatch(i) \/ Proceed(i)) \/ Crash \/ Boot

\* Some thread that has work and can go on does, and a camera that streams
\* returns from its calls.  A stopped one may never do, and nobody has to send
\* or to power up.
Fairness ==
    WF_vars(\E i \in Ids :
        /\ task[i].pc \notin {"none", "captured", "ended"}
        /\ camera.on \/ task[i].pc \notin {"settle", "expose", "write"}
        /\ Proceed(i))

Spec == Init /\ [][Next]_vars /\ Fairness

-----------------------------------------------------------------------------
(* Properties *)

\* Type invariant; the cache never holds more than DEDUPE_CACHE_SIZE ids.
TypeOK ==
    /\ sent \in 0 .. MaxMessages
    /\ copies \in [Ids -> 0 .. Copies]
    /\ seen \in Seq(Ids) /\ Len(seen) <= CacheSize
    /\ runs \in [Ids -> Nat]
    /\ task \in [Ids -> Task]
    /\ lock \in Ids \cup {Nobody}
    /\ settings \in Manual
    /\ configured \in BOOLEAN
    /\ camera \in [on : BOOLEAN, resolution : {s.resolution : s \in Manual},
                   controls : Manual \cup {AutoExposure}]
    /\ raised \in {"nothing", "controls", "pipeline"}
    /\ file \in [Sessions -> {Absent, Partial} \cup Ids]
    /\ dir \in SUBSET Sessions
    /\ taken \in SUBSET Ids
    /\ up \in BOOLEAN

\* However its copies are lost, reordered and delayed, a broadcast is carried
\* out at most once (picam_node.py:98-109, 838).
Once == \A i \in Ids : runs[i] <= 1

\* A frame is exposed with the manual settings of the last CONFIGURE, never
\* while a METER has auto exposure on (picam_node.py:175, 195), unless a
\* camera call has raised since.
FixedExposure ==
    \A i \in Ids : task[i].pc = "expose" /\ raised = "nothing" => camera = Opened(settings)

\* A configured camera that nobody uses streams with the settings of the last
\* CONFIGURE ("Pis keep the camera warm with these settings",
\* docs/protocol.md:77; METER restores them), unless a camera call has
\* raised: an ordinary CONFIGURE repairs the controls, and only a change of
\* resolution or a restart a pipeline that a reopen has left.
Warm ==
    up /\ lock = Nobody /\ configured /\ raised = "nothing" => camera = Opened(settings)

\* The same of every camera call, as the document has it ("Pis keep the camera
\* warm with these settings after this message", docs/protocol.md:77).
StaysWarm == up /\ lock = Nobody /\ configured => camera = Opened(settings)

\* The frame of a CAPTURE that found it whole is on the card, its CAPTURED
\* answered or still to be sent and the daemon restarted or not, until a CLEAR
\* or another CAPTURE of the session takes it away: two CAPTUREs of a session
\* do not write over each other (picam_node.py:175-188, 714-746).
CapturedStays ==
    \A i \in Ids : task[i].pc \in {"reply", "captured"} /\ i \notin taken =>
        file[task[i].arg] = i

\* CAPTURED is sent with the frame on the card ("once JPEG is on SD",
\* docs/protocol.md:115; "once the JPEG is on disk", picam_node.py:614).
CapturedIsOnDisk ==
    [][\A i \in Ids : task[i].pc = "reply" /\ task'[i].pc = "captured"
                       => file[task[i].arg] = i]_vars

\* The time that CAPTURED reports is the shutter's: from when it is noted the
\* camera is nobody else's ("when shutter actually completed",
\* docs/protocol.md:123).
ShutterTimeNoted == \A i \in Ids : task[i].pc = "due" => lock = Nobody

\* The dispatch loop comes back from a CONFIGURE to the socket, whatever the
\* threads it waits behind do and their camera calls raise, as long as the
\* camera streams (picam_node.py:609, 157, 195).
LoopReturns == ~ Receiving /\ up ~> Receiving \/ ~ up \/ ~ camera.on

=============================================================================
