------------------------ MODULE RigSessionsSoloProofs ------------------------
(* With one request thread no CLEAR of a session wipes an only copy, and a   *)
(* reused id never makes another exposure look verified: for any number of   *)
(* Pis and sessions, any mix of operations, faults and damage of the share,  *)
(* when every Pi is on time and as many Pis are expected as there are.  Two  *)
(* threads break the first (run race_clear_delete).                          *)
EXTENDS RigSessionsCustodyProofs

OneThread == \A v, w \in Workers : v = w

Blank == {Absent, Damaged}

\* A whole frame on the share is the one its Pi holds, if that holds one.
Agree ==
    \A s \in Sessions, p \in Pis :
        \/ share[s][p] \in Blank \/ file[p][s] \in Blank
        \/ share[s][p] = file[p][s]

\* A Pi that has a CAPTURE left has nothing else to do, and neither the share
\* nor a manifest knows the session.
CaptureAlone ==
    \A p \in Pis : \A c \in inbox[p] : c.msg = "CAPTURE" =>
        /\ inbox[p] = {c}
        /\ share[c.sess][p] = Absent
        /\ manifest[c.sess] = NoManifest
        /\ \A w \in Workers : job[w].pc \in {"idle", "capture"}

Listed == \A s \in Sessions \ dirs : manifest[s] = NoManifest

\* What manifest m records of session s: the captured Pis hold frames of its
\* shot or none, and so does the share.
Held(fs, sh, s, m) ==
    \A p \in m.captured :
        /\ fs[p][s] \in {Absent, m.shot}
        /\ sh[s][p] \in {Absent, Damaged, m.shot}

Recorded == \A s \in Sessions : Held(file, share, s, manifest[s])

\* The copy of the manifest that a request carries is as true.
JobRecorded ==
    \A w \in Workers :
        /\ job[w].sess \in Sessions => Held(file, share, job[w].sess, job[w].man)
        /\ job[w].pc \in {"idle", "capture"} => job[w].man.captured = {}

\* A request that waits for the lock sees a quiet rig.
Quiet ==
    \A w \in Workers : job[w].pc \in {"check", "ready"} => \A p \in Pis : inbox[p] = {}

\* Which steps are whose.
Stages ==
    \A w \in Workers :
        /\ job[w].pc = "capture" => job[w].op \in {"take", "test"}
        /\ job[w].op = "clear" => job[w].pc \in {"check", "ready", "clear", "write"}

\* From the look at the share to the last CLEARED nothing comes in between.
ClearSeen ==
    \A w \in Workers : (job[w].op = "clear" /\ job[w].pc \in {"ready", "clear"}) =>
        \A p \in Pis :
            /\ share[job[w].sess][p] \notin Blank
            /\ \A c \in inbox[p] : c.msg = "CLEAR" /\ c.sess = job[w].sess

SoloInv ==
    /\ CustodyInv /\ Agree /\ CaptureAlone /\ Listed
    /\ Recorded /\ JobRecorded /\ Quiet /\ Stages /\ ClearSeen

WorkerStep(w) == Request(w) \/ Progress(w) \/ DeleteFails(w) \/ Fail(w)

-----------------------------------------------------------------------------
(* What one step does to the frames *)

LEMMA WorkerFrames ==
    ASSUME TInv, NEW w \in Workers, WorkerStep(w)
    PROVE  /\ file' = file
           /\ \A s \in Sessions, p \in Pis : share'[s][p] \in {share[s][p], Absent}
<1>1. file' = file
  BY DEF WorkerStep, Request, StartTake, StartClearAll, AskRetry, AskClear, AskDelete, Ask,
     Progress, CaptureDone, UploadDone, Verify, ClearDone, WriteManifest, CheckClear, Busy,
     RunRetry, RunClear, RunDelete, DeleteDir, DeleteFails, Fail
<1>2. CASE DeleteDir(w)
  <2>1. share' = [share EXCEPT ![job[w].sess] = [p \in Pis |-> Absent]]
    BY <1>2 DEF DeleteDir
  <2>2. QED
    BY <1>1, <2>1 DEF TInv, TypeOK
<1>3. CASE DeleteFails(w)
  <2>1. PICK gone \in SUBSET Pis : share' = [share EXCEPT ![job[w].sess] =
          [p \in Pis |-> IF p \in gone THEN Absent ELSE share[job[w].sess][p]]]
    BY <1>3 DEF DeleteFails
  <2>2. QED
    BY <1>1, <2>1 DEF TInv, TypeOK
<1>4. CASE ~ (DeleteDir(w) \/ DeleteFails(w))
  <2>1. share' = share
    BY <1>4 DEF WorkerStep, Request, StartTake, StartClearAll, AskRetry, AskClear, AskDelete, Ask,
       Progress, CaptureDone, UploadDone, Verify, ClearDone, WriteManifest, CheckClear, Busy,
       RunRetry, RunClear, RunDelete, Fail, Save, shareVars
  <2>2. QED
    BY <1>1, <2>1
<1>5. QED
  BY <1>2, <1>3, <1>4

LEMMA DamageFrames ==
    ASSUME TInv, Damage
    PROVE  /\ file' = file
           /\ \A s \in Sessions, p \in Pis :
                /\ share'[s][p] = share[s][p] \/ share'[s][p] \in Blank
                /\ share[s][p] = Absent => share'[s][p] = Absent
<1>1. PICK s \in Sessions, p \in Pis, left \in {Absent, Damaged} :
        share[s][p] # Absent /\ share' = [share EXCEPT ![s][p] = left]
  BY DEF Damage
<1>2. \A q \in Pis, t \in Sessions :
        share'[t][q] = IF q = p /\ t = s THEN left ELSE share[t][q]
  BY <1>1, ShareSet, FrameType
<1>3. QED
  BY <1>1, <1>2 DEF Damage, Blank

\* The command leaves the inbox, and only that.
LEMMA AnswerTakes ==
    ASSUME TInv, NEW q \in Pis, NEW c \in inbox[q], NEW ok, Answer(q, c, ok)
    PROVE  \A p \in Pis : inbox'[p] = IF p = q THEN inbox[q] \ {c} ELSE inbox[p]
BY DEF Answer, TInv, TypeOK

\* The three ways Pi q carries out command c.
Carried(q, c) ==
    /\ job' = job
    /\ \A p \in Pis : inbox'[p] = IF p = q THEN inbox[q] \ {c} ELSE inbox[p]

Captures(q, c, f) ==
    /\ c.msg = "CAPTURE" /\ c.sess \in Sessions /\ Carried(q, c)
    /\ share' = share /\ dirs' = dirs /\ manifest' = manifest
    /\ \A p \in Pis, s \in Sessions :
         file'[p][s] = IF p = q /\ s = c.sess THEN f ELSE file[p][s]

Pushes(q, c, f) ==
    /\ c.msg = "UPLOAD" /\ c.sess \in Sessions /\ Carried(q, c)
    /\ file' = file /\ dirs \subseteq dirs' /\ manifest' = manifest
    /\ f \in {file[q][c.sess], share[c.sess][q], Damaged}
    /\ \A p \in Pis, s \in Sessions :
         share'[s][p] = IF p = q /\ s = c.sess THEN f ELSE share[s][p]

Wipes(q, c, stuck) ==
    /\ c.msg = "CLEAR" /\ Carried(q, c)
    /\ share' = share /\ dirs' = dirs /\ manifest' = manifest
    /\ \A p \in Pis, s \in Sessions :
         file'[p][s] = IF p = q /\ c.sess \in {s, AllSessions} /\ s \notin stuck
                         THEN Absent ELSE file[p][s]

LEMMA CaptureEffect ==
    ASSUME TInv, NEW q \in Pis, PiCapture(q)
    PROVE  \E c \in inbox[q], f \in Frame : Captures(q, c, f)
<1>1. PICK c \in inbox[q] :
        /\ c.msg = "CAPTURE"
        /\ \/ file' = [file EXCEPT ![q][c.sess] = c.shot] /\ Answer(q, c, TRUE)
           \/ /\ \E left \in {file[q][c.sess], Damaged} :
                   file' = [file EXCEPT ![q][c.sess] = left]
              /\ Answer(q, c, FALSE)
        /\ job' = job /\ share' = share /\ dirs' = dirs /\ manifest' = manifest
  BY DEF PiCapture, shareVars
<1>2. c.sess \in Sessions /\ c.shot \in Frame /\ file[q][c.sess] \in Frame
  BY <1>1, FrameType DEF TInv, TypeOK, Sited, Command
<1>3. Carried(q, c)
  BY <1>1, AnswerTakes DEF Carried
<1>4. PICK f \in Frame : file' = [file EXCEPT ![q][c.sess] = f]
  BY <1>1, <1>2, FrameType
<1>5. Captures(q, c, f)
  BY <1>1, <1>2, <1>3, <1>4, FileSet DEF Captures
<1>6. QED
  BY <1>5

LEMMA UploadEffect ==
    ASSUME TInv, NEW q \in Pis, PiUpload(q)
    PROVE  \E c \in inbox[q], f \in Frame : Pushes(q, c, f)
<1>1. PICK c \in inbox[q], ok \in BOOLEAN :
        /\ c.msg = "UPLOAD" /\ Answer(q, c, ok)
        /\ job' = job /\ file' = file /\ manifest' = manifest
        /\ \/ share' = share
           \/ \E f \in {file[q][c.sess], share[c.sess][q], Damaged} :
                share' = [share EXCEPT ![c.sess][q] = f]
        /\ dirs \subseteq dirs'
  BY DEF PiUpload
<1>2. c.sess \in Sessions
  BY <1>1 DEF TInv, Sited
<1>3. file[q][c.sess] \in Frame /\ share[c.sess][q] \in Frame /\ Damaged \in Frame
  BY <1>2, FrameType DEF TInv, TypeOK
<1>4. Carried(q, c)
  BY <1>1, AnswerTakes DEF Carried
<1>5. CASE share' = share
  <2>1. Pushes(q, c, share[c.sess][q])
    BY <1>1, <1>2, <1>4, <1>5 DEF Pushes
  <2>2. QED
    BY <1>3, <2>1
<1>6. ASSUME NEW f \in {file[q][c.sess], share[c.sess][q], Damaged},
             share' = [share EXCEPT ![c.sess][q] = f]
      PROVE  \E d \in inbox[q], g \in Frame : Pushes(q, d, g)
  <2>1. f \in Frame
    BY <1>3, <1>6
  <2>2. Pushes(q, c, f)
    BY <1>1, <1>2, <1>4, <1>6, <2>1, ShareSet DEF Pushes
  <2>3. QED
    BY <2>1, <2>2
<1>7. QED
  BY <1>1, <1>5, <1>6

LEMMA ClearEffect ==
    ASSUME TInv, NEW q \in Pis, PiClear(q)
    PROVE  \E c \in inbox[q], stuck \in SUBSET Sessions : Wipes(q, c, stuck)
<1>1. PICK c \in inbox[q], stuck \in SUBSET Sessions :
        /\ c.msg = "CLEAR" /\ Answer(q, c, TRUE)
        /\ job' = job /\ share' = share /\ dirs' = dirs /\ manifest' = manifest
        /\ file' = [file EXCEPT ![q] = [t \in Sessions |->
                      IF c.sess \in {t, AllSessions} /\ t \notin stuck
                        THEN Absent ELSE file[q][t]]]
  BY DEF PiClear, Stuck, shareVars
<1>2. Carried(q, c)
  BY <1>1, AnswerTakes DEF Carried
<1>3. \A p \in Pis, s \in Sessions :
        file'[p][s] = IF p = q /\ c.sess \in {s, AllSessions} /\ s \notin stuck
                        THEN Absent ELSE file[p][s]
  BY <1>1 DEF TInv, TypeOK
<1>4. Wipes(q, c, stuck)
  BY <1>1, <1>2, <1>3 DEF Wipes
<1>5. QED
  BY <1>4

-----------------------------------------------------------------------------
(* The share and the Pis agree *)

LEMMA AgreeInductive ==
    ASSUME TInv, Agree, CaptureAlone, [Next]_vars PROVE Agree'
<1>1. ASSUME file' = file, \A s \in Sessions, p \in Pis :
               share'[s][p] = share[s][p] \/ share'[s][p] \in Blank
      PROVE  Agree'
  BY <1>1 DEF Agree
<1>2. ASSUME NEW w \in Workers, WorkerStep(w) PROVE Agree'
  BY <1>1, <1>2, WorkerFrames DEF Blank
<1>3. CASE Damage
  BY <1>1, <1>3, DamageFrames
<1>4. CASE UNCHANGED vars
  BY <1>4 DEF vars, Agree
<1>5. ASSUME NEW q \in Pis, PiCapture(q) PROVE Agree'
  <2>1. PICK c \in inbox[q], f \in Frame : Captures(q, c, f)
    BY <1>5, CaptureEffect
  <2>2. share[c.sess][q] = Absent
    BY <2>1 DEF CaptureAlone, Captures
  <2>3. QED
    BY <2>1, <2>2 DEF Agree, Blank, Captures
<1>6. ASSUME NEW q \in Pis, PiUpload(q) PROVE Agree'
  <2>1. PICK c \in inbox[q], f \in Frame : Pushes(q, c, f)
    BY <1>6, UploadEffect
  <2>2. QED
    BY <2>1 DEF Agree, Blank, Pushes
<1>7. ASSUME NEW q \in Pis, PiClear(q) PROVE Agree'
  <2>1. PICK c \in inbox[q], stuck \in SUBSET Sessions : Wipes(q, c, stuck)
    BY <1>7, ClearEffect
  <2>2. QED
    BY <2>1 DEF Agree, Blank, Wipes
<1>8. QED
  BY <1>2, <1>3, <1>4, <1>5, <1>6, <1>7 DEF Next, Pi, WorkerStep

\* What a manifest records stays true of any step but a CAPTURE of its session.
LEMMA HeldKept ==
    ASSUME TInv, [Next]_vars, NEW s \in Sessions, NEW m \in Manifest,
           Held(file, share, s, m),
           \A p \in m.captured : \A c \in inbox[p] : c.msg = "CAPTURE" => c.sess # s
    PROVE  Held(file', share', s, m)
<1>0. m.captured \subseteq Pis
  BY DEF Manifest
<1>1. ASSUME file' = file,
             \A p \in Pis : share'[s][p] = share[s][p] \/ share'[s][p] \in Blank
      PROVE  Held(file', share', s, m)
  BY <1>0, <1>1 DEF Held, Blank
<1>2. ASSUME NEW w \in Workers, WorkerStep(w) PROVE Held(file', share', s, m)
  BY <1>1, <1>2, WorkerFrames DEF Blank
<1>3. CASE Damage
  BY <1>1, <1>3, DamageFrames
<1>4. CASE UNCHANGED vars
  BY <1>4 DEF vars
<1>5. ASSUME NEW q \in Pis, PiCapture(q) PROVE Held(file', share', s, m)
  <2>1. PICK c \in inbox[q], f \in Frame : Captures(q, c, f)
    BY <1>5, CaptureEffect
  <2>2. \A p \in m.captured : file'[p][s] = file[p][s]
    BY <1>0, <2>1 DEF Captures
  <2>3. QED
    BY <2>1, <2>2 DEF Held, Captures
<1>6. ASSUME NEW q \in Pis, PiUpload(q) PROVE Held(file', share', s, m)
  <2>1. PICK c \in inbox[q], f \in Frame : Pushes(q, c, f)
    BY <1>6, UploadEffect
  <2>2. QED
    BY <1>0, <2>1 DEF Held, Pushes
<1>7. ASSUME NEW q \in Pis, PiClear(q) PROVE Held(file', share', s, m)
  <2>1. PICK c \in inbox[q], stuck \in SUBSET Sessions : Wipes(q, c, stuck)
    BY <1>7, ClearEffect
  <2>2. QED
    BY <1>0, <2>1 DEF Held, Wipes
<1>8. QED
  BY <1>2, <1>3, <1>4, <1>5, <1>6, <1>7 DEF Next, Pi, WorkerStep

-----------------------------------------------------------------------------
(* What one step of a request does to its job, the commands, the manifests *)

\* It moves on within its operation, and keeps the shot and the captured Pis.
Goes(w) ==
    \E pc \in PCs \ {"idle", "capture", "check"}, m \in Manifest :
        /\ job[w].pc \notin {"idle", "capture"}
        /\ Goto(w, pc, m)
        /\ m.shot = job[w].man.shot /\ m.captured = job[w].man.captured

\* It is a request that read the manifest, on a quiet rig.
Asks(w) ==
    \E op \in Operations, s \in Sessions, pc \in {"check", "ready"} :
        Ask(w, op, s, pc) /\ (op = "clear" => pc = "check") /\ op \notin {"take", "test"}

LEMMA VerifyGoes ==
    ASSUME TInv, NEW w \in Workers, Verify(w) PROVE Goes(w)
<1> DEFINE ok == Verified(job[w].sess, job[w].man.captured)
           m == Mark(job[w].man, job[w].man.captured, ok, job[w].man.cleared)
<1>1. ok \in BOOLEAN
  BY DEF Verified
<1>2. job[w].man.captured \in SUBSET Pis /\ job[w].man.cleared \in BOOLEAN
  BY JobManType DEF Manifest
<1>3. m \in Manifest /\ m.shot = job[w].man.shot /\ m.captured = job[w].man.captured
  <2>1. m \in Manifest
    BY <1>1, <1>2, JobManType, ManifestType
  <2>2. QED
    BY <2>1 DEF Mark
<1>4. job[w].pc = "verify" /\ \E pc \in {"clear", "write"} : Goto(w, pc, m)
  BY DEF Verify
<1> HIDE DEF m
<1>5. QED
  BY <1>3, <1>4 DEF Goes, PCs

LEMMA ClearGoes ==
    ASSUME TInv, NEW w \in Workers, ClearDone(w) PROVE Goes(w) \/ Finish(w)
<1> DEFINE m == Mark(job[w].man, job[w].man.captured, job[w].man.verified, Yes(w) # {})
<1>1. job[w].man.captured \in SUBSET Pis /\ job[w].man.verified \in BOOLEAN
  BY JobManType DEF Manifest
<1>2. m \in Manifest /\ m.shot = job[w].man.shot /\ m.captured = job[w].man.captured
  <2>1. m \in Manifest
    BY <1>1, JobManType, ManifestType
  <2>2. QED
    BY <2>1 DEF Mark
<1>3. job[w].pc = "clear" /\ (Goto(w, "write", m) \/ Finish(w))
  BY DEF ClearDone
<1> HIDE DEF m
<1>4. QED
  BY <1>2, <1>3 DEF Goes, PCs

LEMMA JobStep ==
    ASSUME TInv, NEW w \in Workers, WorkerStep(w)
    PROVE  StartTake(w) \/ StartClearAll(w) \/ CaptureDone(w) \/ Asks(w) \/ Goes(w) \/ Finish(w)
<1>1. CASE Request(w)
  <2>1. dirs \subseteq Sessions
    BY DEF TInv, TypeOK
  <2>2. QED
    BY <1>1, <2>1 DEF Request, AskRetry, AskClear, AskDelete, Asks, Operations
<1>2. CASE Verify(w) \/ ClearDone(w)
  BY <1>2, VerifyGoes, ClearGoes
<1>3. CASE UploadDone(w) \/ RunRetry(w) \/ RunClear(w) \/ RunDelete(w)
  <2>1. /\ job[w].pc \in {"upload", "ready"}
        /\ \E pc \in {"verify", "upload", "clear", "delete"} : Goto(w, pc, job[w].man)
    BY <1>3 DEF UploadDone, RunRetry, RunClear, RunDelete
  <2>2. QED
    BY <2>1, JobManType DEF Goes, PCs
<1>4. CASE CheckClear(w)
  <2>1. job[w].pc = "check" /\ (Goto(w, "ready", job[w].man) \/ Finish(w))
    BY <1>4 DEF CheckClear
  <2>2. QED
    BY <2>1, JobManType DEF Goes, PCs
<1>5. CASE WriteManifest(w) \/ Busy(w) \/ DeleteDir(w) \/ DeleteFails(w) \/ Fail(w)
  BY <1>5 DEF WriteManifest, Busy, DeleteDir, DeleteFails, Fail
<1>6. QED
  BY <1>1, <1>2, <1>3, <1>4, <1>5 DEF WorkerStep, Progress

\* A request that begins finds the inboxes empty.
LEMMA SoloStart ==
    ASSUME LockInv, LatePis = {}, OneThread, NEW w \in Workers,
           job[w].pc \notin Critical, Settled
    PROVE  \A p \in Pis : inbox[p] = {}
<1>1. Free
  BY DEF LockInv, TInv, TypeOK, OneOperation, OneThread, Free
<1>2. QED
  BY <1>1, QuietStart

\* Of the worker's steps only a take's broadcast brings a CAPTURE.
LEMMA OldCommands ==
    ASSUME TInv, NEW w \in Workers, WorkerStep(w), ~ StartTake(w), NEW p \in Pis,
           NEW c \in inbox'[p]
    PROVE  \/ c.msg \in {"UPLOAD", "CLEAR"}
           \/ \E d \in inbox[p] : d.msg = c.msg
<1>1. \/ inbox' = inbox
      \/ StopListening(w)
      \/ \E msg \in {"UPLOAD", "CLEAR"} : \E s, k : Broadcast(w, msg, s, k)
  BY DEF WorkerStep, Request, StartClearAll, AskRetry, AskClear, AskDelete, Ask,
     Progress, CaptureDone, UploadDone, Verify, ClearDone, WriteManifest, CheckClear, Busy,
     RunRetry, RunClear, RunDelete, DeleteDir, DeleteFails, Fail
<1>2. CASE inbox' = inbox
  BY <1>2
<1>3. CASE StopListening(w)
  BY <1>3 DEF StopListening, Abandoned
<1>4. ASSUME NEW msg \in {"UPLOAD", "CLEAR"}, NEW s, NEW k, Broadcast(w, msg, s, k)
      PROVE  c.msg \in {"UPLOAD", "CLEAR"} \/ \E d \in inbox[p] : d.msg = c.msg
  <2>1. \/ c \in Abandoned(w, p)
        \/ c = [msg |-> msg, sess |-> s, shot |-> k, by |-> w]
    BY <1>4 DEF Broadcast
  <2>2. QED
    BY <2>1 DEF Abandoned
<1>5. QED
  BY <1>1, <1>2, <1>3, <1>4

LEMMA ManifestStep ==
    ASSUME TInv, NEW w \in Workers, WorkerStep(w), NEW s \in Sessions
    PROVE  \/ manifest'[s] = manifest[s]
           \/ manifest'[s] = NoManifest
           \/ /\ job[w].pc \in {"write", "check"} /\ s = job[w].sess /\ s \in dirs'
              /\ manifest'[s].shot = job[w].man.shot
              /\ manifest'[s].captured = job[w].man.captured
<1>1. CASE WriteManifest(w)
  <2>1. Save(job[w].sess, job[w].man) /\ job[w].pc = "write"
    BY <1>1 DEF WriteManifest
  <2>2. QED
    BY <2>1 DEF Save, TInv, TypeOK
<1>2. CASE CheckClear(w)
  <2> DEFINE m == Mark(job[w].man, job[w].man.captured, FALSE, job[w].man.cleared)
  <2>1. job[w].pc = "check" /\ (manifest' = manifest \/ Save(job[w].sess, m))
    BY <1>2 DEF CheckClear, shareVars
  <2>2. m.shot = job[w].man.shot /\ m.captured = job[w].man.captured
    BY DEF Mark
  <2> HIDE DEF m
  <2>3. QED
    BY <2>1, <2>2 DEF Save, TInv, TypeOK
<1>3. CASE DeleteDir(w) \/ DeleteFails(w)
  <2>1. manifest' \in {manifest, [manifest EXCEPT ![job[w].sess] = NoManifest]}
    BY <1>3 DEF DeleteDir, DeleteFails
  <2>2. QED
    BY <2>1 DEF TInv, TypeOK
<1>4. CASE ~ (WriteManifest(w) \/ CheckClear(w) \/ DeleteDir(w) \/ DeleteFails(w))
  <2>1. manifest' = manifest
    BY <1>4 DEF WorkerStep, Request, StartTake, StartClearAll, AskRetry, AskClear, AskDelete, Ask,
       Progress, CaptureDone, UploadDone, Verify, ClearDone, Busy, RunRetry, RunClear,
       RunDelete, Fail, shareVars
  <2>2. QED
    BY <2>1
<1>5. QED
  BY <1>1, <1>2, <1>3, <1>4

-----------------------------------------------------------------------------
(* One request thread *)

\* A Pi moves no job and brings no command.
LEMMA PiMoves ==
    ASSUME TInv, NEW q \in Pis, Pi(q)
    PROVE  /\ job' = job /\ manifest' = manifest /\ dirs \subseteq dirs'
           /\ \E c \in inbox[q] : Carried(q, c)
<1>1. CASE PiCapture(q)
  <2>1. PICK c \in inbox[q], f \in Frame : Captures(q, c, f)
    BY <1>1, CaptureEffect
  <2>2. QED
    BY <2>1 DEF Captures, Carried
<1>2. CASE PiUpload(q)
  <2>1. PICK c \in inbox[q], f \in Frame : Pushes(q, c, f)
    BY <1>2, UploadEffect
  <2>2. QED
    BY <2>1 DEF Pushes, Carried
<1>3. CASE PiClear(q)
  <2>1. PICK c \in inbox[q], stuck \in SUBSET Sessions : Wipes(q, c, stuck)
    BY <1>3, ClearEffect
  <2>2. QED
    BY <2>1 DEF Wipes, Carried
<1>4. QED
  BY <1>1, <1>2, <1>3 DEF Pi

LEMMA StagesInductive ==
    ASSUME TInv, OneThread, Stages, [Next]_vars PROVE Stages'
<1>1. ASSUME job' = job PROVE Stages'
  BY <1>1 DEF Stages
<1>2. ASSUME NEW w \in Workers, WorkerStep(w) PROVE Stages'
  <2> SUFFICES /\ job'[w].pc = "capture" => job'[w].op \in {"take", "test"}
               /\ job'[w].op = "clear" => job'[w].pc \in {"check", "ready", "clear", "write"}
    BY DEF Stages, OneThread
  <2>1. CASE StartTake(w) \/ StartClearAll(w) \/ Asks(w)
    BY <2>1 DEF StartTake, StartClearAll, Asks, Ask, TInv, TypeOK
  <2>2. CASE CaptureDone(w)
    <3>1. job[w].op \in {"take", "test"}
      BY <2>2 DEF CaptureDone, Stages
    <3>2. \E pc \in {"verify", "upload"} : \E m : Goto(w, pc, m)
      BY <2>2 DEF CaptureDone
    <3>3. QED
      BY <3>1, <3>2 DEF Goto, TInv, TypeOK
  <2>3. CASE Finish(w)
    BY <2>3 DEF Finish, Idle, TInv, TypeOK
  <2>4. CASE Goes(w)
    <3>1. job[w].op = "clear" => job[w].pc \in {"check", "ready", "clear", "write"}
      BY DEF Stages
    <3>2. /\ job'[w].op = job[w].op /\ job'[w].pc # "capture"
          /\ job[w].op = "clear" => job'[w].pc \in {"ready", "clear", "write"}
      <4>1. PICK pc, m : pc \in PCs \ {"idle", "capture", "check"} /\ Goto(w, pc, m)
        BY <2>4 DEF Goes
      <4>2. job'[w].op = job[w].op /\ job'[w].pc = pc
        BY <4>1 DEF Goto, TInv, TypeOK
      <4>3. CASE job[w].op = "clear"
        <5>1. \/ CheckClear(w) \/ RunClear(w) \/ ClearDone(w)
              \/ job'[w].pc = "idle"
          BY <1>2, <3>1, <4>1, <4>2, <4>3, FinishType
          DEF WorkerStep, Request, StartTake, StartClearAll, AskRetry, AskClear, AskDelete, Ask,
              Progress, CaptureDone, UploadDone, Verify, WriteManifest, Busy,
              RunRetry, RunDelete, DeleteDir, DeleteFails, Fail
        <5>2. job'[w].pc \in {"ready", "clear", "write", "idle"}
          BY <5>1, GotoPc, FinishType DEF CheckClear, RunClear, ClearDone
        <5>3. QED
          BY <4>1, <4>2, <5>2
      <4>4. QED
        BY <4>1, <4>2, <4>3
    <3>3. QED
      BY <3>1, <3>2
  <2>5. QED
    BY <1>2, <2>1, <2>2, <2>3, <2>4, JobStep
<1>3. CASE Damage \/ UNCHANGED vars
  BY <1>1, <1>3 DEF Damage, vars
<1>4. ASSUME NEW q \in Pis, Pi(q) PROVE Stages'
  BY <1>1, <1>4, PiMoves
<1>5. QED
  BY <1>2, <1>3, <1>4 DEF Next, WorkerStep

LEMMA ListedInductive ==
    ASSUME TInv, Listed, [Next]_vars PROVE Listed'
<1>1. ASSUME manifest' = manifest, dirs \subseteq dirs' PROVE Listed'
  BY <1>1 DEF Listed
<1>2. ASSUME NEW w \in Workers, WorkerStep(w) PROVE Listed'
  <2>1. CASE DeleteDir(w)
    BY <2>1 DEF DeleteDir, Listed, TInv, TypeOK
  <2>2. CASE ~ DeleteDir(w)
    <3>1. dirs \subseteq dirs'
      BY <1>2, <2>2 DEF WorkerStep, Request, StartTake, StartClearAll, AskRetry, AskClear,
         AskDelete, Ask, Progress, CaptureDone, UploadDone, Verify, ClearDone, WriteManifest,
         CheckClear, Busy, RunRetry, RunClear, RunDelete, DeleteFails, Fail, Save, shareVars
    <3>2. QED
      BY <1>2, <3>1, ManifestStep DEF Listed
  <2>3. QED
    BY <2>1, <2>2
<1>3. CASE Damage \/ UNCHANGED vars
  BY <1>1, <1>3 DEF Damage, vars
<1>4. ASSUME NEW q \in Pis, Pi(q) PROVE Listed'
  BY <1>1, <1>4, PiMoves
<1>5. QED
  BY <1>2, <1>3, <1>4 DEF Next, WorkerStep

LEMMA QuietInductive ==
    ASSUME LockInv, LatePis = {}, OneThread, Quiet, [Next]_vars PROVE Quiet'
<1>0. TInv
  BY DEF LockInv
<1>1. ASSUME NEW w \in Workers, WorkerStep(w) PROVE Quiet'
  <2> SUFFICES ASSUME job'[w].pc \in {"check", "ready"} PROVE \A p \in Pis : inbox'[p] = {}
    BY DEF Quiet, OneThread
  <2>1. CASE Asks(w)
    <3>1. job[w].pc \notin Critical /\ Settled /\ inbox' = inbox
      BY <2>1 DEF Asks, Ask, Critical
    <3>2. QED
      BY <3>1, SoloStart
  <2>2. CASE CheckClear(w)
    BY <2>2 DEF CheckClear, Quiet
  <2>3. CASE ~ Asks(w) /\ ~ CheckClear(w)
    <3>1. \/ Finish(w)
          \/ \E pc \in PCs \ {"check", "ready"} : \E m : Goto(w, pc, m)
          \/ StartTake(w) \/ StartClearAll(w)
      <4>1. ~ (AskRetry(w) \/ AskClear(w) \/ AskDelete(w))
        <5>1. dirs \subseteq Sessions
          BY <1>0 DEF TInv, TypeOK
        <5>2. QED
          BY <2>3, <5>1 DEF AskRetry, AskClear, AskDelete, Asks, Operations
      <4>2. QED
        BY <1>1, <2>3, <4>1 DEF WorkerStep, Request, Progress, CaptureDone, UploadDone, Verify,
           ClearDone, WriteManifest, Busy, RunRetry, RunClear, RunDelete, DeleteDir,
           DeleteFails, Fail, PCs
    <3>2. CASE StartTake(w) \/ StartClearAll(w)
      BY <1>0, <3>2 DEF StartTake, StartClearAll, TInv, TypeOK
    <3>3. CASE Finish(w) \/ \E pc \in PCs \ {"check", "ready"} : \E m : Goto(w, pc, m)
      BY <1>0, <3>3, FinishType, GotoPc
    <3>4. QED
      BY <3>1, <3>2, <3>3
  <2>4. QED
    BY <2>1, <2>2, <2>3
<1>2. CASE Damage \/ UNCHANGED vars
  BY <1>2 DEF Damage, vars, Quiet
<1>3. ASSUME NEW q \in Pis, Pi(q) PROVE Quiet'
  BY <1>0, <1>3, PiMoves DEF Quiet, Carried
<1>4. QED
  BY <1>1, <1>2, <1>3 DEF Next, WorkerStep

LEMMA CaptureAloneInductive ==
    ASSUME SoloInv, LatePis = {}, Expected = Cardinality(Pis), OneThread, [Next]_vars
    PROVE  CaptureAlone'
<1>0. LockInv /\ TInv
  BY DEF SoloInv, CustodyInv, LockInv
<1>1. ASSUME NEW w \in Workers, WorkerStep(w) PROVE CaptureAlone'
  <2> SUFFICES ASSUME NEW p \in Pis, NEW c \in inbox'[p], c.msg = "CAPTURE"
               PROVE  /\ inbox'[p] = {c}
                      /\ share'[c.sess][p] = Absent
                      /\ manifest'[c.sess] = NoManifest
                      /\ job'[w].pc \in {"idle", "capture"}
    BY DEF CaptureAlone, OneThread
  <2>1. CASE StartTake(w)
    <3>1. PICK op \in {"take", "test"}, s \in Sessions :
            /\ IsNextId(s)
            /\ job' = [job EXCEPT ![w] = [pc |-> "capture", op |-> op, sess |-> s,
                                         man |-> NewManifest(shots + 1)]]
            /\ Broadcast(w, "CAPTURE", s, shots + 1)
      BY <2>1 DEF StartTake
    <3>2. /\ job[w].pc \notin Critical /\ Settled
          /\ share' = share /\ manifest' = manifest
      BY <2>1 DEF StartTake, shareVars, Critical
    <3>3. inbox[p] = {}
      BY <1>0, <3>2, SoloStart
    <3>4. c.sess = s /\ inbox'[p] = {c}
      BY <3>1, <3>3 DEF Broadcast, Abandoned
    <3>5. s \notin dirs
      BY <1>0, <3>1 DEF IsNextId, TInv, TypeOK, Sessions
    <3>6. share[s][p] = Absent /\ manifest[s] = NoManifest
      BY <3>5 DEF SoloInv, CustodyInv, NoDirNoFile, Listed
    <3>7. job'[w].pc = "capture"
      BY <1>0, <3>1, NewJobPc
    <3>8. QED
      BY <3>2, <3>4, <3>6, <3>7
  <2>2. CASE ~ StartTake(w)
    <3>1. PICK d \in inbox[p] : d.msg = "CAPTURE"
      BY <1>0, <1>1, <2>2, OldCommands
    <3>2. /\ inbox[p] = {d} /\ share[d.sess][p] = Absent
          /\ manifest[d.sess] = NoManifest /\ job[w].pc \in {"idle", "capture"}
      BY <3>1 DEF SoloInv, CaptureAlone
    <3>3. ~ Settled \/ job[w].pc # "idle"
      BY <1>0, <3>1, SoloStart DEF Critical
    <3>4. ~ CaptureDone(w)
      <4>1. ASSUME CaptureDone(w) PROVE inbox[p] = {}
        <5>1. Taking(w)
          BY <4>1 DEF CaptureDone, SoloInv, Stages, Taking
        <5>2. QED
          BY <4>1, <5>1, CaptureWaited DEF SoloInv
      <4>2. QED
        BY <3>1, <4>1
    <3>5. Fail(w)
      BY <1>1, <2>2, <3>2, <3>3, <3>4 DEF WorkerStep, Request, StartClearAll, AskRetry, AskClear,
         AskDelete, Ask, Progress, UploadDone, Verify, ClearDone, WriteManifest, CheckClear,
         Busy, RunRetry, RunClear, RunDelete, DeleteDir, DeleteFails
    <3>6. /\ inbox'[p] = Abandoned(w, p) /\ share' = share /\ manifest' = manifest
          /\ job'[w].pc = "idle"
      BY <1>0, <3>5, FinishType DEF Fail, StopListening, shareVars
    <3>7. inbox'[p] = {c} /\ c.sess = d.sess
      BY <3>2, <3>6 DEF Abandoned
    <3>8. QED
      BY <3>2, <3>6, <3>7
  <2>3. QED
    BY <2>1, <2>2
<1>2. CASE Damage
  <2>1. UNCHANGED <<job, inbox, manifest>>
    BY <1>2 DEF Damage
  <2>2. \A p \in Pis : \A c \in inbox[p] : c.msg = "CAPTURE" => c.sess \in Sessions
    BY <1>0 DEF TInv, Sited
  <2>3. QED
    BY <1>0, <1>2, <2>1, <2>2, DamageFrames DEF SoloInv, CaptureAlone
<1>3. CASE UNCHANGED vars
  BY <1>3 DEF vars, SoloInv, CaptureAlone
<1>4. ASSUME NEW q \in Pis, Pi(q) PROVE CaptureAlone'
  <2> SUFFICES ASSUME NEW p \in Pis, NEW d \in inbox'[p], d.msg = "CAPTURE"
               PROVE  /\ inbox'[p] = {d}
                      /\ share'[d.sess][p] = Absent
                      /\ manifest'[d.sess] = NoManifest
                      /\ \A w \in Workers : job'[w].pc \in {"idle", "capture"}
    BY DEF CaptureAlone
  <2>1. PICK c \in inbox[q] : Carried(q, c)
    BY <1>0, <1>4, PiMoves
  <2>2. d \in inbox[p] /\ inbox'[p] \subseteq inbox[p] /\ d.sess \in Sessions
    BY <1>0, <2>1 DEF Carried, TInv, Sited
  <2>3. /\ inbox[p] = {d} /\ share[d.sess][p] = Absent /\ manifest[d.sess] = NoManifest
        /\ \A w \in Workers : job[w].pc \in {"idle", "capture"}
    BY <2>2 DEF SoloInv, CaptureAlone
  <2>4. p # q
    BY <2>1, <2>3 DEF Carried
  <2>5. share'[d.sess][p] = share[d.sess][p]
    <3>1. CASE PiUpload(q)
      <4>1. PICK e \in inbox[q], f \in Frame : Pushes(q, e, f)
        BY <1>0, <3>1, UploadEffect
      <4>2. QED
        BY <2>2, <2>4, <4>1 DEF Pushes
    <3>2. CASE PiCapture(q) \/ PiClear(q)
      BY <3>2 DEF PiCapture, PiClear, shareVars
    <3>3. QED
      BY <1>4, <3>1, <3>2 DEF Pi
  <2>6. job' = job /\ manifest' = manifest
    BY <1>0, <1>4, PiMoves
  <2>7. QED
    BY <2>2, <2>3, <2>5, <2>6
<1>5. QED
  BY <1>1, <1>2, <1>3, <1>4 DEF Next, WorkerStep

\* No CAPTURE is on its way to a Pi that a manifest, or a copy of one, lists.
LEMMA NoCaptureListed ==
    ASSUME SoloInv, NEW p \in Pis, NEW c \in inbox[p], c.msg = "CAPTURE"
    PROVE  /\ manifest[c.sess].captured = {}
           /\ \A w \in Workers : job[w].man.captured = {}
<1>1. /\ manifest[c.sess] = NoManifest
      /\ \A w \in Workers : job[w].pc \in {"idle", "capture"}
  BY DEF SoloInv, CaptureAlone
<1>2. QED
  BY <1>1 DEF SoloInv, JobRecorded, NoManifest, NewManifest

LEMMA RecordedInductive ==
    ASSUME SoloInv, [Next]_vars PROVE Recorded'
<1>0. TInv
  BY DEF SoloInv, CustodyInv, LockInv
<1> SUFFICES ASSUME NEW s \in Sessions PROVE Held(file', share', s, manifest'[s])
  BY DEF Recorded
<1>1. manifest[s] \in Manifest /\ manifest[s].captured \subseteq Pis
  BY <1>0 DEF TInv, TypeOK, Manifest
<1>2. Held(file', share', s, manifest[s])
  <2>1. \A p \in manifest[s].captured : \A c \in inbox[p] : c.msg = "CAPTURE" => c.sess # s
    BY <1>1, NoCaptureListed
  <2>2. Held(file, share, s, manifest[s])
    BY DEF SoloInv, Recorded
  <2>3. QED
    BY <1>0, <1>1, <2>1, <2>2, HeldKept
<1>3. ASSUME NEW w \in Workers, WorkerStep(w) PROVE Held(file', share', s, manifest'[s])
  <2>1. CASE manifest'[s] = manifest[s]
    BY <1>2, <2>1
  <2>2. CASE manifest'[s] = NoManifest
    BY <2>2 DEF Held, NoManifest, NewManifest
  <2>3. CASE /\ job[w].pc \in {"write", "check"} /\ s = job[w].sess
             /\ manifest'[s].shot = job[w].man.shot
             /\ manifest'[s].captured = job[w].man.captured
    <3>1. job[w].man \in Manifest /\ job[w].man.captured \subseteq Pis
      BY <1>0, JobManType DEF Manifest
    <3>2. Held(file, share, s, job[w].man)
      BY <2>3 DEF SoloInv, JobRecorded
    <3>3. \A p \in job[w].man.captured : \A c \in inbox[p] : c.msg = "CAPTURE" => c.sess # s
      BY <3>1, NoCaptureListed
    <3>4. Held(file', share', s, job[w].man)
      BY <1>0, <3>1, <3>2, <3>3, HeldKept
    <3>5. QED
      BY <2>3, <3>4 DEF Held
  <2>4. QED
    BY <1>0, <1>3, <2>1, <2>2, <2>3, ManifestStep
<1>4. CASE Damage \/ UNCHANGED vars
  BY <1>2, <1>4 DEF Damage, vars
<1>5. ASSUME NEW q \in Pis, Pi(q) PROVE Held(file', share', s, manifest'[s])
  BY <1>0, <1>2, <1>5, PiMoves
<1>6. QED
  BY <1>3, <1>4, <1>5 DEF Next, WorkerStep

LEMMA JobRecordedInductive ==
    ASSUME SoloInv, LatePis = {}, Expected = Cardinality(Pis), OneThread, [Next]_vars
    PROVE  JobRecorded'
<1>0. LockInv /\ TInv
  BY DEF SoloInv, CustodyInv, LockInv
<1>1. ASSUME NEW w \in Workers, job[w].sess \in Sessions
      PROVE  Held(file', share', job[w].sess, job[w].man)
  <2>1. job[w].man \in Manifest /\ job[w].man.captured \subseteq Pis
    BY <1>0, JobManType DEF Manifest
  <2>2. Held(file, share, job[w].sess, job[w].man)
    BY <1>1 DEF SoloInv, JobRecorded
  <2>3. \A p \in job[w].man.captured : \A c \in inbox[p] :
          c.msg = "CAPTURE" => c.sess # job[w].sess
    BY <2>1, NoCaptureListed
  <2>4. QED
    BY <1>0, <1>1, <2>1, <2>2, <2>3, HeldKept
<1>2. ASSUME job' = job PROVE JobRecorded'
  BY <1>1, <1>2 DEF SoloInv, JobRecorded
<1>3. ASSUME NEW w \in Workers, WorkerStep(w) PROVE JobRecorded'
  <2> SUFFICES /\ job'[w].sess \in Sessions =>
                    Held(file', share', job'[w].sess, job'[w].man)
               /\ job'[w].pc \in {"idle", "capture"} => job'[w].man.captured = {}
    BY DEF JobRecorded, OneThread
  <2>1. CASE StartTake(w) \/ StartClearAll(w)
    <3>1. job'[w].man.captured = {}
      BY <1>0, <2>1 DEF StartTake, StartClearAll, NewManifest, NoManifest, TInv, TypeOK
    <3>2. QED
      BY <3>1 DEF Held
  <2>2. CASE CaptureDone(w)
    <3> DEFINE m == Mark(job[w].man, Yes(w), FALSE, FALSE)
    <3>1. m.shot = job[w].man.shot /\ m.captured = Yes(w)
      BY DEF Mark
    <3>2. /\ file' = file /\ share' = share
          /\ \E pc \in {"verify", "upload"} : Goto(w, pc, m)
      BY <2>2 DEF CaptureDone, shareVars
    <3> HIDE DEF m
    <3>3. /\ job'[w].pc \in {"verify", "upload"}
          /\ job'[w].sess = job[w].sess /\ job'[w].man = m
      BY <1>0, <3>2 DEF Goto, TInv, TypeOK
    <3>4. Taking(w)
      BY <2>2 DEF CaptureDone, SoloInv, Stages, Taking
    <3>5. \A p \in Yes(w) : /\ file[p][job[w].sess] = job[w].man.shot
                            /\ share[job[w].sess][p] = Absent
      BY <1>0, <2>2, <3>4, CaptureWaited, YesType DEF SoloInv
    <3>6. QED
      BY <3>1, <3>2, <3>3, <3>5 DEF Held
  <2>3. CASE Asks(w)
    <3>1. PICK op \in Operations, s \in Sessions, pc \in {"check", "ready"} : Ask(w, op, s, pc)
      BY <2>3 DEF Asks
    <3>2. /\ job'[w].sess = s /\ job'[w].man = manifest[s] /\ job'[w].pc = pc
          /\ file' = file /\ share' = share
      BY <1>0, <3>1 DEF Ask, TInv, TypeOK, shareVars
    <3>3. QED
      BY <3>2 DEF SoloInv, Recorded
  <2>4. CASE Goes(w)
    <3>1. PICK pc \in PCs \ {"idle", "capture", "check"}, m \in Manifest :
            /\ Goto(w, pc, m)
            /\ m.shot = job[w].man.shot /\ m.captured = job[w].man.captured
      BY <2>4 DEF Goes
    <3>2. job'[w].sess = job[w].sess /\ job'[w].man = m /\ job'[w].pc = pc
      BY <1>0, <3>1 DEF Goto, TInv, TypeOK
    <3>3. QED
      BY <1>1, <3>1, <3>2 DEF Held
  <2>5. CASE Finish(w)
    <3>1. job'[w].man.captured = {}
      BY <1>0, <2>5 DEF Finish, Idle, NoManifest, NewManifest, TInv, TypeOK
    <3>2. QED
      BY <3>1 DEF Held
  <2>6. QED
    BY <1>0, <1>3, <2>1, <2>2, <2>3, <2>4, <2>5, JobStep
<1>4. CASE Damage \/ UNCHANGED vars
  BY <1>2, <1>4 DEF Damage, vars
<1>5. ASSUME NEW q \in Pis, Pi(q) PROVE JobRecorded'
  BY <1>0, <1>2, <1>5, PiMoves
<1>6. QED
  BY <1>3, <1>4, <1>5 DEF Next, WorkerStep

LEMMA ClearSeenInductive ==
    ASSUME SoloInv, LatePis = {}, Expected = Cardinality(Pis), OneThread, [Next]_vars
    PROVE  ClearSeen'
<1>0. LockInv /\ TInv
  BY DEF SoloInv, CustodyInv, LockInv
<1>1. ASSUME NEW w \in Workers, WorkerStep(w) PROVE ClearSeen'
  <2> SUFFICES ASSUME job'[w].op = "clear", job'[w].pc \in {"ready", "clear"}, NEW p \in Pis
               PROVE  /\ share'[job'[w].sess][p] \notin Blank
                      /\ \A c \in inbox'[p] : c.msg = "CLEAR" /\ c.sess = job'[w].sess
    BY DEF ClearSeen, OneThread
  <2>1. Goes(w)
    <3>1. ~ Finish(w)
      BY <1>0, FinishType
    <3>2. ~ (StartTake(w) \/ StartClearAll(w))
      BY <1>0 DEF StartTake, StartClearAll, TInv, TypeOK
    <3>3. ~ Asks(w)
      BY <1>0 DEF Asks, Ask, TInv, TypeOK
    <3>4. ~ CaptureDone(w)
      <4>1. ASSUME CaptureDone(w) PROVE job'[w].pc \in {"verify", "upload"}
        <5>1. PICK pc \in {"verify", "upload"} :
                Goto(w, pc, Mark(job[w].man, Yes(w), FALSE, FALSE))
          BY <4>1 DEF CaptureDone
        <5>2. QED
          BY <1>0, <5>1, GotoPc
      <4>2. QED
        BY <4>1
    <3>5. QED
      BY <1>0, <1>1, <3>1, <3>2, <3>3, <3>4, JobStep
  <2>2. /\ job[w].op = "clear" /\ job'[w].sess = job[w].sess
        /\ job[w].pc \in {"check", "ready", "clear", "write"} \ {"idle", "capture"}
    <3>1. PICK pc, m : pc \in PCs /\ Goto(w, pc, m)
      BY <2>1 DEF Goes
    <3>2. QED
      BY <1>0, <3>1 DEF Goto, TInv, TypeOK, SoloInv, Stages
  <2>3. CheckClear(w) \/ RunClear(w)
    <3>1. ~ ClearDone(w)
      BY <1>0, FinishType, GotoPc DEF ClearDone
    <3>2. ~ WriteManifest(w) /\ ~ Busy(w) /\ ~ DeleteFails(w) /\ ~ Fail(w) /\ ~ DeleteDir(w)
      BY <1>0, FinishType DEF WriteManifest, Busy, DeleteFails, Fail, DeleteDir
    <3>3. QED
      BY <1>1, <2>2, <3>1, <3>2 DEF WorkerStep, Request, StartTake, StartClearAll, AskRetry,
         AskClear, AskDelete, Ask, Progress, CaptureDone, UploadDone, Verify, RunRetry, RunDelete
  <2>4. CASE CheckClear(w)
    <3>1. Verified(job[w].sess, job[w].man.captured) /\ share' = share /\ inbox' = inbox
      BY <1>0, <2>4, FinishType DEF CheckClear, shareVars
    <3>2. job[w].man.captured \subseteq Pis
      BY <1>0, JobManType DEF Manifest
    <3>3. job[w].man.captured = Pis
      BY <3>1, <3>2, PisAssumption, FS_Subset DEF Verified
    <3>4. inbox[p] = {}
      BY <2>4 DEF CheckClear, SoloInv, Quiet
    <3>5. QED
      BY <2>2, <3>1, <3>3, <3>4 DEF Verified, Blank
  <2>5. CASE RunClear(w)
    <3>1. /\ job[w].pc = "ready" /\ Broadcast(w, "CLEAR", job[w].sess, 0) /\ share' = share
      BY <2>5 DEF RunClear, shareVars
    <3>2. inbox[p] = {} /\ share[job[w].sess][p] \notin Blank
      BY <2>2, <3>1 DEF SoloInv, Quiet, ClearSeen
    <3>3. QED
      BY <2>2, <3>1, <3>2 DEF Broadcast, Abandoned
  <2>6. QED
    BY <2>3, <2>4, <2>5
<1>2. CASE Damage
  BY <1>2 DEF Damage, ClearSeen
<1>3. CASE UNCHANGED vars
  BY <1>3 DEF vars, SoloInv, ClearSeen
<1>4. ASSUME NEW q \in Pis, Pi(q) PROVE ClearSeen'
  <2> SUFFICES ASSUME NEW w \in Workers, job'[w].op = "clear",
                      job'[w].pc \in {"ready", "clear"}, NEW p \in Pis
               PROVE  /\ share'[job'[w].sess][p] \notin Blank
                      /\ \A c \in inbox'[p] : c.msg = "CLEAR" /\ c.sess = job'[w].sess
    BY DEF ClearSeen
  <2>1. job' = job
    BY <1>0, <1>4, PiMoves
  <2>2. PICK c \in inbox[q] : Carried(q, c)
    BY <1>0, <1>4, PiMoves
  <2>3. \A x \in Pis : /\ share[job[w].sess][x] \notin Blank
                       /\ \A d \in inbox[x] : d.msg = "CLEAR" /\ d.sess = job[w].sess
    BY <2>1 DEF SoloInv, ClearSeen
  <2>4. PiClear(q)
    BY <1>4, <2>3 DEF Pi, PiCapture, PiUpload
  <2>5. share' = share
    BY <2>4 DEF PiClear, shareVars
  <2>6. inbox'[p] \subseteq inbox[p]
    BY <2>2 DEF Carried
  <2>7. QED
    BY <2>1, <2>3, <2>5, <2>6
<1>5. QED
  BY <1>1, <1>2, <1>3, <1>4 DEF Next, WorkerStep

-----------------------------------------------------------------------------
LEMMA SoloInvariant ==
    ASSUME LatePis = {}, Expected = Cardinality(Pis), OneThread
    PROVE  /\ Init => SoloInv
           /\ SoloInv /\ [Next]_vars => SoloInv'
<1>1. Init => SoloInv
  <2>1. Init => CustodyInv
    BY CustodyInvariant
  <2>2. Init => Agree /\ CaptureAlone /\ Listed /\ Recorded /\ JobRecorded
    BY DEF Init, Agree, CaptureAlone, Listed, Recorded, JobRecorded, Held, Idle,
       NoManifest, NewManifest, Blank
  <2>3. Init => Quiet /\ Stages /\ ClearSeen
    BY DEF Init, Quiet, Stages, ClearSeen, Idle
  <2>4. QED
    BY <2>1, <2>2, <2>3 DEF SoloInv
<1>2. ASSUME SoloInv, [Next]_vars PROVE SoloInv'
  <2>1. CustodyInv'
    BY <1>2, CustodyInvariant DEF SoloInv
  <2>2. LockInv /\ TInv
    BY <1>2 DEF SoloInv, CustodyInv, LockInv
  <2>3. Agree' /\ Listed' /\ Quiet' /\ Stages'
    BY <1>2, <2>2, AgreeInductive, ListedInductive, QuietInductive, StagesInductive DEF SoloInv
  <2>4. CaptureAlone' /\ Recorded' /\ JobRecorded' /\ ClearSeen'
    BY <1>2, CaptureAloneInductive, RecordedInductive, JobRecordedInductive, ClearSeenInductive
  <2>5. QED
    BY <2>1, <2>3, <2>4 DEF SoloInv
<1>3. QED
  BY <1>1, <1>2

\* With one request at a time every CLEAR of a session, of a test take or of
\* the operator, wipes only frames whose very exposure is on the share: through
\* damaged shares, half deleted sessions, reused ids and requests that die, when
\* no Pi misses a deadline and the config expects the Pis there are
\* (gui.py:1150-1192 and 1069-1077).
THEOREM ClearsBacked ==
    ASSUME LatePis = {}, Expected = Cardinality(Pis), OneThread
    PROVE  Spec => []ClearBacked
<1>1. ASSUME SoloInv PROVE ClearBacked
  <2> SUFFICES ASSUME NEW p \in Pis, NEW c \in inbox[p], c.msg = "CLEAR",
                      c.by \in Workers, job[c.by].op \in {"test", "clear"},
                      file[p][c.sess] \notin Blank
               PROVE  share[c.sess][p] = file[p][c.sess]
    BY DEF ClearBacked, Backed, Blank
  <2>1. CASE job[c.by].op = "test"
    <3>1. TestClearBacked
      BY <1>1, CustodyBacked DEF SoloInv
    <3>2. QED
      BY <2>1, <3>1 DEF TestClearBacked, Backed, Blank
  <2>2. CASE job[c.by].op = "clear"
    <3>1. job[c.by].pc = "clear"
      BY <1>1, <2>2 DEF SoloInv, CustodyInv, LockInv, SenderWaits, Waiting, Stages
    <3>2. c.sess = job[c.by].sess /\ share[c.sess][p] \notin Blank
      BY <1>1, <2>2, <3>1 DEF SoloInv, ClearSeen
    <3>3. c.sess \in Sessions
      BY <1>1, <2>2, <3>1, <3>2 DEF SoloInv, CustodyInv, LockInv, TInv, Sited
    <3>4. QED
      BY <1>1, <3>2, <3>3 DEF SoloInv, Agree
  <2>3. QED
    BY <2>1, <2>2
<1>2. QED
  BY <1>1, SoloInvariant, PTL DEF Spec

\* Under the same conditions, whichever ids are deleted and reused, a manifest
\* that says verified stands for the frames of the exposure it recorded
\* (gui.py:755-795).
THEOREM VerifiedFramesAreItsOwn ==
    ASSUME LatePis = {}, Expected = Cardinality(Pis), OneThread
    PROVE  Spec => []VerifiedIsThisTake
<1>1. SoloInv => VerifiedIsThisTake
  BY DEF SoloInv, Recorded, Held, VerifiedIsThisTake
<1>2. QED
  BY <1>1, SoloInvariant, PTL DEF Spec

=============================================================================
