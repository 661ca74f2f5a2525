----------------------- MODULE RigSessionsCustodyProofs -----------------------
(* The CLEAR of a test take wipes no only copy, and verified is written only *)
(* over the frames that were seen: for any number of request threads and any *)
(* mix of operations and faults, when every Pi is on time and as many Pis    *)
(* are expected as there are.                                                *)
EXTENDS RigSessionsProofs

Cmd(msg, s, k, by) == [msg |-> msg, sess |-> s, shot |-> k, by |-> by]

NoDirNoFile == \A s \in Sessions \ dirs : \A p \in Pis : share[s][p] = Absent

-----------------------------------------------------------------------------
(* The phases of a take, as its worker w and a Pi p see them *)

\* The session's directory is empty; an answer means that p is done, and a
\* CAPTURED that p holds the frame of this shot.
CapturePhase(w, p) ==
    /\ share[job[w].sess][p] = Absent
    /\ inbox[p] \subseteq {Cmd("CAPTURE", job[w].sess, job[w].man.shot, w)}
    /\ p \in Heard(w) => inbox[p] = {}
    /\ p \in Yes(w) => file[p][job[w].sess] = job[w].man.shot

\* A captured frame stays on its Pi; what is on the share is that frame.
Kept(w, p) ==
    p \in job[w].man.captured =>
        /\ file[p][job[w].sess] = job[w].man.shot
        /\ share[job[w].sess][p] \in {Absent, Damaged, job[w].man.shot}

UploadPhase(w, p) ==
    /\ Kept(w, p)
    /\ inbox[p] \subseteq {Cmd("UPLOAD", job[w].sess, 0, w)}
    /\ p \in Heard(w) => inbox[p] = {}

\* Nothing is on its way to a captured Pi while the share is looked at.
VerifyPhase(w, p) ==
    /\ Kept(w, p)
    /\ inbox[p] \subseteq {Cmd("UPLOAD", job[w].sess, 0, NoWorker)}
    /\ p \in job[w].man.captured => inbox[p] = {}

ClearPhase(w, p) ==
    /\ share[job[w].sess][p] = job[w].man.shot
    /\ file[p][job[w].sess] \in {job[w].man.shot, Absent}
    /\ inbox[p] \subseteq {Cmd("CLEAR", job[w].sess, 0, w)}

Phase(w, p) ==
    /\ job[w].pc = "capture" => CapturePhase(w, p)
    /\ job[w].pc = "upload" => UploadPhase(w, p)
    /\ job[w].pc = "verify" => VerifyPhase(w, p)
    /\ job[w].pc = "clear" => ClearPhase(w, p)

Taking(w) ==
    job[w].op \in {"take", "test"} /\ job[w].pc \in {"capture", "upload", "verify", "clear"}

TakeInvOf(w) ==
    Taking(w) =>
        /\ job[w].sess \in Sessions /\ job[w].man.shot \in 1 .. MaxShots
        /\ \A p \in Pis : Phase(w, p)

TakeInv == \A w \in Workers : TakeInvOf(w)

CustodyInv == LockInv /\ NoDirNoFile /\ TakeInv

-----------------------------------------------------------------------------
(* Files and directories *)

LEMMA NoDirInductive ==
    /\ Init => NoDirNoFile
    /\ TInv /\ NoDirNoFile /\ [Next]_vars => NoDirNoFile'
<1>1. Init => NoDirNoFile
  BY DEF Init, NoDirNoFile
<1>2. TInv /\ NoDirNoFile /\ [Next]_vars => NoDirNoFile'
  <2> SUFFICES ASSUME TInv, NoDirNoFile, [Next]_vars PROVE NoDirNoFile'
    OBVIOUS
  <2>1. ASSUME share' = share, dirs \subseteq dirs' PROVE NoDirNoFile'
    BY <2>1 DEF NoDirNoFile
  <2>2. ASSUME NEW w \in Workers, Request(w) PROVE NoDirNoFile'
    <3>1. UNCHANGED <<share, dirs>>
      BY <2>2 DEF Request, StartTake, StartClearAll, AskRetry, AskClear, AskDelete, Ask, shareVars
    <3>2. QED
      BY <2>1, <3>1
  <2>3. ASSUME NEW w \in Workers, Progress(w) \/ Fail(w), ~ DeleteDir(w) PROVE NoDirNoFile'
    <3>1. share' = share /\ dirs \subseteq dirs'
      BY <2>3 DEF Progress, CaptureDone, UploadDone, Verify, ClearDone, WriteManifest,
         CheckClear, Busy, RunRetry, RunClear, RunDelete, Fail, Save, shareVars
    <3>2. QED
      BY <2>1, <3>1
  <2>4. ASSUME NEW w \in Workers, DeleteDir(w) PROVE NoDirNoFile'
    BY <2>4 DEF DeleteDir, NoDirNoFile, TInv, TypeOK
  <2>5. ASSUME NEW w \in Workers, DeleteFails(w) PROVE NoDirNoFile'
    <3>1. PICK gone \in SUBSET Pis : share' = [share EXCEPT ![job[w].sess] =
            [p \in Pis |-> IF p \in gone THEN Absent ELSE share[job[w].sess][p]]]
      BY <2>5 DEF DeleteFails
    <3>2. \A s \in Sessions, p \in Pis : share'[s][p] \in {share[s][p], Absent}
      BY <3>1 DEF TInv, TypeOK
    <3>3. dirs' = dirs
      BY <2>5 DEF DeleteFails
    <3>4. QED
      BY <3>2, <3>3 DEF NoDirNoFile
  <2>6. ASSUME NEW p \in Pis, PiCapture(p) \/ PiClear(p) PROVE NoDirNoFile'
    <3>1. UNCHANGED <<share, dirs>>
      BY <2>6 DEF PiCapture, PiClear, shareVars
    <3>2. QED
      BY <2>1, <3>1
  <2>7. ASSUME NEW p \in Pis, PiUpload(p) PROVE NoDirNoFile'
    <3> PICK c \in inbox[p] :
          \/ UNCHANGED <<share, dirs>>
          \/ (\E f : share' = [share EXCEPT ![c.sess][p] = f]) /\ dirs' = dirs \cup {c.sess}
      BY <2>7 DEF PiUpload
    <3>1. CASE UNCHANGED <<share, dirs>>
      BY <2>1, <3>1
    <3>2. ASSUME NEW f, share' = [share EXCEPT ![c.sess][p] = f], dirs' = dirs \cup {c.sess}
          PROVE  NoDirNoFile'
      <4>1. \A s \in Sessions \ {c.sess} : share'[s] = share[s]
        BY <3>2 DEF TInv, TypeOK
      <4>2. QED
        BY <3>2, <4>1 DEF NoDirNoFile
    <3>3. QED
      BY <3>1, <3>2
  <2>8. CASE Damage
    <3>1. PICK s \in Sessions, p \in Pis, left \in {Absent, Damaged} :
            share[s][p] # Absent /\ share' = [share EXCEPT ![s][p] = left]
      BY <2>8 DEF Damage
    <3>2. s \in dirs /\ dirs' = dirs
      BY <2>8, <3>1 DEF Damage, NoDirNoFile
    <3>3. \A t \in Sessions \ {s} : share'[t] = share[t]
      BY <3>1 DEF TInv, TypeOK
    <3>4. QED
      BY <3>2, <3>3 DEF NoDirNoFile
  <2>9. CASE UNCHANGED vars
    BY <2>9 DEF vars, NoDirNoFile
  <2>10. QED
    BY <2>2, <2>3, <2>4, <2>5, <2>6, <2>7, <2>8, <2>9 DEF Next, Pi
<1>3. QED
  BY <1>1, <1>2

-----------------------------------------------------------------------------
(* What leaves a take alone *)

LEMMA Undisturbed ==
    ASSUME TakeInv, NEW w \in Workers, job'[w] = job[w], replies'[w] = replies[w],
           UNCHANGED <<inbox, file, share>>
    PROVE  TakeInvOf(w)'
<1>1. TakeInvOf(w)
  BY DEF TakeInv
<1>2. QED
  BY <1>1
  DEF TakeInvOf, Taking, Phase, CapturePhase, UploadPhase, VerifyPhase, ClearPhase, Kept, Heard, Yes

\* A worker that waits for nothing abandons nothing.
LEMMA AbandonsNothing ==
    ASSUME TInv, NEW x \in Workers, StopListening(x),
           \A p \in Pis : \A c \in inbox[p] : c.by # x
    PROVE  inbox' = inbox /\ \A w \in Workers \ {x} : replies'[w] = replies[w]
<1>1. ASSUME NEW p \in Pis PROVE Abandoned(x, p) = inbox[p]
  <2>1. \A c \in inbox[p] : c \in Command
    BY DEF TInv, TypeOK
  <2>2. \A c \in inbox[p] :
          c = [msg |-> c.msg, sess |-> c.sess, shot |-> c.shot,
               by |-> IF c.by = x THEN NoWorker ELSE c.by]
    BY <2>1 DEF Command
  <2>3. QED
    BY <2>2 DEF Abandoned
<1>2. QED
  BY <1>1 DEF StopListening, TInv, TypeOK

\* A request's steps move no other request.
LEMMA StepsOfOne ==
    ASSUME LockInv, NEW w \in Workers, NEW x \in Workers \ {w},
           Request(x) \/ Progress(x) \/ DeleteFails(x) \/ Fail(x)
    PROVE  job'[w] = job[w]
<1>1. \E j : job' = [job EXCEPT ![x] = j]
  <2>1. CASE Request(x)
    BY <2>1 DEF Request, StartTake, StartClearAll, AskRetry, AskClear, AskDelete, Ask
  <2>2. CASE Progress(x)
    BY <2>2 DEF Progress, CaptureDone, UploadDone, Verify, ClearDone, WriteManifest,
       CheckClear, Busy, RunRetry, RunClear, RunDelete, DeleteDir, Goto, Finish
  <2>3. CASE DeleteFails(x) \/ Fail(x)
    BY <2>3 DEF DeleteFails, Fail, Finish
  <2>4. QED
    BY <2>1, <2>2, <2>3
<1>2. QED
  BY <1>1 DEF LockInv, TInv, TypeOK

\* While w is inside its operation the other workers only read, or give up.
LEMMA OtherWorker ==
    ASSUME LockInv, NEW w \in Workers, NEW x \in Workers \ {w}, opLock = w,
           Request(x) \/ Progress(x) \/ DeleteFails(x) \/ Fail(x)
    PROVE  /\ job'[w] = job[w] /\ replies'[w] = replies[w]
           /\ UNCHANGED <<inbox, file, share>>
<1> USE DEF Critical, PCs
<1>1. job[x].pc \notin Critical /\ ~ Free
  BY WorkersAssumption DEF LockInv, OneOperation, Free
<1>2. \/ AskRetry(x) \/ AskClear(x) \/ AskDelete(x)
      \/ CheckClear(x) \/ Busy(x) \/ Fail(x)
  BY <1>1 DEF Request, StartTake, StartClearAll, Progress, CaptureDone, UploadDone, Verify,
     ClearDone, WriteManifest, RunRetry, RunClear, RunDelete, DeleteDir, DeleteFails, Acquire
<1>3. CASE AskRetry(x) \/ AskClear(x) \/ AskDelete(x)
  BY <1>3 DEF AskRetry, AskClear, AskDelete, Ask, LockInv, TInv, TypeOK, shareVars
<1>4. CASE CheckClear(x)
  BY <1>4 DEF CheckClear, Goto, Finish, Save, LockInv, TInv, TypeOK, shareVars
<1>5. CASE Busy(x)
  BY <1>5 DEF Busy, Finish, LockInv, TInv, TypeOK, shareVars
<1>6. CASE Fail(x)
  <2>1. \A p \in Pis : \A c \in inbox[p] : c.by # x
    BY WorkersAssumption DEF LockInv, OneOperation
  <2>2. inbox' = inbox /\ replies'[w] = replies[w]
    BY <1>6, <2>1, AbandonsNothing DEF Fail, LockInv
  <2>3. QED
    BY <1>6, <2>2 DEF Fail, Finish, LockInv, TInv, TypeOK, shareVars
<1>7. QED
  BY <1>2, <1>3, <1>4, <1>5, <1>6

-----------------------------------------------------------------------------
(* The Pis *)

\* What an answer tells, when nobody is late: q is done, and nothing of it
\* changes what is known about another Pi.
LEMMA AnswerEffect ==
    ASSUME LockInv, LatePis = {}, NEW w \in Workers, opLock = w,
           NEW q \in Pis, NEW c \in inbox[q], NEW ok \in BOOLEAN, Answer(q, c, ok)
    PROVE  /\ inbox'[q] = inbox[q] \ {c}
           /\ \A p \in Pis \ {q} :
                inbox'[p] = inbox[p] /\ Heard(w)' \cap {p} = Heard(w) \cap {p}
                                    /\ Yes(w)' \cap {p} = Yes(w) \cap {p}
           /\ q \in Yes(w)' => q \in Yes(w) \/ ok
           /\ q \in Heard(w) \/ c.by = w \/ q \notin Heard(w)'
<1>1. /\ inbox'[q] = inbox[q] \ {c}
      /\ \A p \in Pis \ {q} : inbox'[p] = inbox[p]
  BY DEF Answer, LockInv, TInv, TypeOK
<1>2. replies'[w] = replies[w] \/ replies'[w] = replies[w] \cup {[pi |-> q, ok |-> ok]}
  BY DEF Answer, LockInv, TInv, TypeOK
<1>3. c.by = w \/ replies'[w] = replies[w]
  BY WorkersAssumption DEF Answer, LockInv, TInv, TypeOK, OneOperation
<1>4. Heard(w)' = Heard(w) \/ Heard(w)' = Heard(w) \cup {q}
  BY <1>2 DEF Heard
<1>5. Yes(w)' = Yes(w) \/ (ok /\ Yes(w)' = Yes(w) \cup {q})
  <2>1. CASE replies'[w] = replies[w]
    BY <2>1 DEF Yes
  <2>2. CASE replies'[w] = replies[w] \cup {[pi |-> q, ok |-> ok]}
    BY <2>2 DEF Yes
  <2>3. QED
    BY <1>2, <2>1, <2>2
<1>6. c.by = w \/ Heard(w)' = Heard(w)
  BY <1>3 DEF Heard
<1>7. QED
  BY <1>1, <1>4, <1>5, <1>6

\* Every Pi that said yes has answered.
LEMMA YesHeard ==
    ASSUME NEW w PROVE Yes(w) \subseteq Heard(w)
BY DEF Yes, Heard

\* A phase only looks at one Pi.
LEMMA PhaseKept ==
    ASSUME NEW w \in Workers, NEW p \in Pis, Phase(w, p), job'[w] = job[w],
           inbox'[p] = inbox[p], Heard(w)' \cap {p} = Heard(w) \cap {p},
           Yes(w)' \cap {p} = Yes(w) \cap {p},
           file'[p][job[w].sess] = file[p][job[w].sess],
           share'[job[w].sess][p] = share[job[w].sess][p]
    PROVE  Phase(w, p)'
<1>1. (p \in Heard(w)' <=> p \in Heard(w)) /\ (p \in Yes(w)' <=> p \in Yes(w))
  OBVIOUS
<1>2. CapturePhase(w, p) => CapturePhase(w, p)'
  BY <1>1 DEF CapturePhase
<1>3. UploadPhase(w, p) => UploadPhase(w, p)'
  BY <1>1 DEF UploadPhase, Kept
<1>4. VerifyPhase(w, p) => VerifyPhase(w, p)'
  BY DEF VerifyPhase, Kept
<1>5. ClearPhase(w, p) => ClearPhase(w, p)'
  BY DEF ClearPhase
<1>6. QED
  BY <1>2, <1>3, <1>4, <1>5 DEF Phase

\* A Pi that carries out a command stays in the phase of the take.
LEMMA PiKeepsPhase ==
    ASSUME CustodyInv, LatePis = {}, NEW w \in Workers, opLock = w, Taking(w),
           NEW q \in Pis, Pi(q)
    PROVE  TakeInvOf(w)'
<1>0. /\ LockInv /\ TInv /\ job[w].sess \in Sessions
      /\ job[w].man.shot \in 1 .. MaxShots /\ \A p \in Pis : Phase(w, p)
  BY DEF CustodyInv, LockInv, TakeInv, TakeInvOf
<1> DEFINE s == job[w].sess
           k == job[w].man.shot
<1>1. job' = job
  BY DEF Pi, PiCapture, PiUpload, PiClear
<1>2. ASSUME NEW c \in inbox[q], NEW ok \in BOOLEAN, Answer(q, c, ok), Phase(w, q)',
             \A p \in Pis \ {q} : file'[p][s] = file[p][s] /\ share'[s][p] = share[s][p]
      PROVE  TakeInvOf(w)'
  <2>1. ASSUME NEW p \in Pis \ {q} PROVE Phase(w, p)'
    BY <1>0, <1>1, <1>2, AnswerEffect, PhaseKept
  <2>2. QED
    BY <1>0, <1>1, <1>2, <2>1 DEF TakeInvOf
<1>3. ASSUME PiCapture(q) PROVE TakeInvOf(w)'
  <2>1. PICK c \in inbox[q], ok \in BOOLEAN, f \in Frame :
          /\ c.msg = "CAPTURE" /\ Answer(q, c, ok) /\ share' = share
          /\ file' = [file EXCEPT ![q][c.sess] = f] /\ (ok => f = c.shot)
    <3>1. PICK c \in inbox[q] :
            /\ c.msg = "CAPTURE" /\ share' = share
            /\ \/ file' = [file EXCEPT ![q][c.sess] = c.shot] /\ Answer(q, c, TRUE)
               \/ /\ \E left \in {file[q][c.sess], Damaged} :
                       file' = [file EXCEPT ![q][c.sess] = left]
                  /\ Answer(q, c, FALSE)
      BY <1>3 DEF PiCapture, shareVars
    <3>2. c.sess \in Sessions /\ c.shot \in Frame /\ file[q][c.sess] \in Frame
      BY <1>0, <3>1, FrameType DEF TInv, TypeOK, Sited, Command
    <3>3. QED
      BY <3>1, <3>2, FrameType
  <2>2. job[w].pc = "capture" /\ c = Cmd("CAPTURE", s, k, w) /\ inbox[q] = {c}
    BY <1>0, <2>1 DEF Taking, Phase, CapturePhase, UploadPhase, VerifyPhase, ClearPhase, Cmd
  <2>3. c.sess = s /\ c.shot = k
    BY <2>2 DEF Cmd
  <2>4. \A p \in Pis : file'[p][s] = IF p = q THEN f ELSE file[p][s]
    BY <1>0, <2>1, <2>3, FileSet
  <2>5. q \notin Yes(w) /\ share[s][q] = Absent
    BY <1>0, <2>2, YesHeard DEF Phase, CapturePhase
  <2>6. inbox'[q] = {} /\ (q \in Yes(w)' => f = k)
    BY <1>0, <2>1, <2>2, <2>3, <2>5, AnswerEffect
  <2>7. Phase(w, q)'
    BY <1>1, <2>1, <2>2, <2>4, <2>5, <2>6 DEF Phase, CapturePhase
  <2>8. QED
    BY <1>2, <2>1, <2>4, <2>7
<1>4. ASSUME PiUpload(q) PROVE TakeInvOf(w)'
  <2>1. PICK c \in inbox[q], ok \in BOOLEAN :
          /\ c.msg = "UPLOAD" /\ Answer(q, c, ok) /\ file' = file
          /\ \/ share' = share
             \/ \E f \in {file[q][c.sess], share[c.sess][q], Damaged} :
                  share' = [share EXCEPT ![c.sess][q] = f]
    BY <1>4 DEF PiUpload
  <2>2. job[w].pc \in {"upload", "verify"} /\ c.sess = s
    BY <1>0, <2>1 DEF Taking, Phase, CapturePhase, UploadPhase, VerifyPhase, ClearPhase, Cmd
  <2>3. Kept(w, q) /\ (job[w].pc = "verify" => q \notin job[w].man.captured)
    BY <1>0, <2>2 DEF Phase, UploadPhase, VerifyPhase
  <2> DEFINE Pushed == {file[q][s], share[s][q], Damaged}
  <2>4. \A p \in Pis : share'[s][p] = share[s][p] \/ (p = q /\ share'[s][q] \in Pushed)
    <3>1. CASE share' = share
      BY <3>1
    <3>2. ASSUME NEW f \in Pushed, share' = [share EXCEPT ![s][q] = f]
          PROVE  \A p \in Pis : share'[s][p] = IF p = q THEN f ELSE share[s][p]
      <4>1. f \in Frame
        BY <1>0, FrameType DEF TInv, TypeOK
      <4>2. QED
        BY <1>0, <3>2, <4>1, ShareSet
    <3>3. QED
      BY <2>1, <2>2, <3>1, <3>2
  <2>5. Kept(w, q)'
    BY <1>1, <2>1, <2>3, <2>4 DEF Kept
  <2>6. inbox'[q] = inbox[q] \ {c}
    BY <1>0, <2>1, AnswerEffect
  <2>7. job[w].pc = "upload" => UploadPhase(w, q)'
    BY <1>0, <1>1, <2>1, <2>5, <2>6 DEF Phase, UploadPhase
  <2>8. job[w].pc = "verify" => VerifyPhase(w, q)'
    BY <1>0, <1>1, <2>1, <2>3, <2>5, <2>6 DEF Phase, VerifyPhase
  <2>9. Phase(w, q)'
    BY <1>1, <2>2, <2>7, <2>8 DEF Phase
  <2>10. QED
    BY <1>2, <2>1, <2>4, <2>9
<1>5. ASSUME PiClear(q) PROVE TakeInvOf(w)'
  <2>1. PICK c \in inbox[q], stuck \in Stuck :
          /\ c.msg = "CLEAR" /\ Answer(q, c, TRUE) /\ share' = share
          /\ file' = [file EXCEPT ![q] = [t \in Sessions |->
                        IF c.sess \in {t, AllSessions} /\ t \notin stuck
                          THEN Absent ELSE file[q][t]]]
    BY <1>5 DEF PiClear, shareVars
  <2>2. job[w].pc = "clear" /\ ClearPhase(w, q)
    BY <1>0, <2>1 DEF Taking, Phase, CapturePhase, UploadPhase, VerifyPhase, ClearPhase, Cmd
  <2>3. /\ \A p \in Pis \ {q} : file'[p] = file[p]
        /\ file'[q][s] \in {file[q][s], Absent}
    BY <1>0, <2>1 DEF TInv, TypeOK
  <2>4. inbox'[q] = inbox[q] \ {c}
    BY <1>0, <2>1, AnswerEffect
  <2>5. ClearPhase(w, q)'
    BY <1>1, <2>1, <2>2, <2>3, <2>4 DEF ClearPhase
  <2>6. Phase(w, q)'
    BY <1>1, <2>2, <2>5 DEF Phase
  <2>7. QED
    BY <1>2, <2>1, <2>3, <2>6
<1>6. QED
  BY <1>3, <1>4, <1>5 DEF Pi

-----------------------------------------------------------------------------
(* The worker of the take *)

\* Nothing is on the wire when a request takes the free lock.
LEMMA QuietStart ==
    ASSUME LockInv, LatePis = {}, Free, Settled
    PROVE  \A p \in Pis : inbox[p] = {}
BY DEF LockInv, OneOperation, Free, Settled

\* When the wait of w is over, a Pi has answered or its inbox is empty of w's
\* command.
LEMMA WaitOver ==
    ASSUME LockInv, LatePis = {}, Expected = Cardinality(Pis), NEW w \in Workers,
           CountReached(w)
    PROVE  Pis = Heard(w) \/ \A p \in Pis : \A c \in inbox[p] : c.by # w
<1>1. CASE Deadline(w)
  BY <1>1 DEF Deadline
<1>2. CASE Cardinality(Heard(w)) >= Expected
  <2>1. Heard(w) \in SUBSET Pis
    BY YesType DEF LockInv
  <2>2. Cardinality(Heard(w)) \in Nat /\ Cardinality(Pis) \in Nat
    BY <2>1, PisAssumption, FS_Subset, FS_CardinalityType
  <2>3. Cardinality(Heard(w)) <= Cardinality(Pis)
    BY <2>1, PisAssumption, FS_Subset
  <2>4. Cardinality(Heard(w)) = Cardinality(Pis)
    BY <1>2, <2>2, <2>3
  <2>5. QED
    BY <2>1, <2>4, PisAssumption, FS_Subset
<1>3. QED
  BY <1>1, <1>2 DEF CountReached

LEMMA TakeStarts ==
    ASSUME CustodyInv, LatePis = {}, NEW w \in Workers, StartTake(w)
    PROVE  TakeInvOf(w)'
<1>1. LockInv /\ TInv /\ shots \in 0 .. MaxShots /\ shots + 1 \in 1 .. MaxShots
  BY BoundsAssumption DEF CustodyInv, LockInv, TInv, TypeOK, StartTake
<1>2. PICK op \in {"take", "test"}, s \in Sessions :
        /\ IsNextId(s)
        /\ job' = [job EXCEPT ![w] = [pc |-> "capture", op |-> op, sess |-> s,
                                     man |-> NewManifest(shots + 1)]]
        /\ Broadcast(w, "CAPTURE", s, shots + 1)
  BY DEF StartTake
<1>3. /\ job'[w].pc = "capture" /\ job'[w].op = op /\ job'[w].sess = s
      /\ job'[w].man.shot = shots + 1
  BY <1>1, <1>2, NewJobPc DEF TInv, TypeOK, NewManifest
<1>4. \A p \in Pis : inbox[p] = {}
  BY <1>1, QuietStart DEF StartTake, Acquire
<1>5. \A p \in Pis : inbox'[p] \subseteq {Cmd("CAPTURE", s, shots + 1, w)}
  BY <1>2, <1>4 DEF Broadcast, Abandoned, Cmd
<1>6. Heard(w)' = {} /\ Yes(w)' = {}
  BY <1>1, <1>2 DEF Broadcast, Heard, Yes, TInv, TypeOK
<1>7. \A p \in Pis : share'[s][p] = Absent
  <2>1. s \notin dirs
    BY <1>1, <1>2 DEF IsNextId, TInv, TypeOK, Sessions
  <2>2. QED
    BY <2>1 DEF CustodyInv, NoDirNoFile, StartTake, shareVars
<1>8. \A p \in Pis : Phase(w, p)'
  BY <1>3, <1>5, <1>6, <1>7 DEF Phase, CapturePhase
<1>9. QED
  BY <1>1, <1>3, <1>8 DEF TakeInvOf

\* After the wait for CAPTURED the inboxes are empty, and who said yes holds
\* the frame.
LEMMA CaptureWaited ==
    ASSUME CustodyInv, LatePis = {}, Expected = Cardinality(Pis), NEW w \in Workers,
           Taking(w), CaptureDone(w), NEW p \in Pis
    PROVE  /\ inbox[p] = {} /\ share[job[w].sess][p] = Absent
           /\ p \in Yes(w) => file[p][job[w].sess] = job[w].man.shot
<1>1. CapturePhase(w, p)
  BY DEF CustodyInv, TakeInv, TakeInvOf, Phase, CaptureDone
<1>2. Pis = Heard(w) \/ \A c \in inbox[p] : c.by # w
  BY WaitOver DEF CaptureDone, CustodyInv
<1>3. inbox[p] = {}
  BY <1>1, <1>2 DEF CapturePhase, Cmd
<1>4. QED
  BY <1>1, <1>3 DEF CapturePhase

LEMMA CaptureEnds ==
    ASSUME CustodyInv, LatePis = {}, Expected = Cardinality(Pis), NEW w \in Workers,
           Taking(w), CaptureDone(w)
    PROVE  TakeInvOf(w)'
<1> DEFINE m == Mark(job[w].man, Yes(w), FALSE, FALSE)
<1>0. /\ LockInv /\ TInv /\ job[w].sess \in Sessions /\ job[w].man.shot \in 1 .. MaxShots
      /\ UNCHANGED <<file, share>>
  BY DEF CustodyInv, LockInv, TakeInv, TakeInvOf, CaptureDone, shareVars
<1>1. m.shot = job[w].man.shot /\ m.captured = Yes(w) /\ m \in Manifest
  BY <1>0, JobManType, YesType, ManifestType DEF Mark
<1>2. \/ Goto(w, "verify", m) /\ StopListening(w) /\ Yes(w) = {}
      \/ Goto(w, "upload", m) /\ Broadcast(w, "UPLOAD", job[w].sess, 0)
  BY DEF CaptureDone
<1> HIDE DEF m
<1>3. CASE Goto(w, "verify", m) /\ StopListening(w) /\ Yes(w) = {}
  <2>1. job'[w].pc = "verify" /\ job'[w].sess = job[w].sess /\ job'[w].man = m
    BY <1>0, <1>1, <1>3, GotoType DEF PCs
  <2>2. \A p \in Pis : inbox'[p] = {}
    BY <1>3, CaptureWaited DEF StopListening, Abandoned
  <2>3. \A p \in Pis : Phase(w, p)'
    BY <1>1, <1>3, <2>1, <2>2 DEF Phase, VerifyPhase, Kept
  <2>4. QED
    BY <1>0, <1>1, <2>1, <2>3 DEF TakeInvOf
<1>4. CASE Goto(w, "upload", m) /\ Broadcast(w, "UPLOAD", job[w].sess, 0)
  <2>1. job'[w].pc = "upload" /\ job'[w].sess = job[w].sess /\ job'[w].man = m
    BY <1>0, <1>1, <1>4, GotoType DEF PCs
  <2>2. \A p \in Pis : inbox'[p] \subseteq {Cmd("UPLOAD", job[w].sess, 0, w)}
    BY <1>4, CaptureWaited DEF Broadcast, Abandoned, Cmd
  <2>3. Heard(w)' = {}
    BY <1>0, <1>4 DEF Broadcast, Heard, TInv, TypeOK
  <2>4. \A p \in Pis : Kept(w, p)'
    BY <1>0, <1>1, <2>1, CaptureWaited DEF Kept
  <2>5. \A p \in Pis : Phase(w, p)'
    BY <2>1, <2>2, <2>3, <2>4 DEF Phase, UploadPhase
  <2>6. QED
    BY <1>0, <1>1, <2>1, <2>5 DEF TakeInvOf
<1>5. QED
  BY <1>2, <1>3, <1>4

\* Of the commands nobody waits for any longer none is at a captured Pi.
LEMMA UploadEnds ==
    ASSUME CustodyInv, LatePis = {}, NEW w \in Workers, Taking(w), UploadDone(w)
    PROVE  TakeInvOf(w)'
<1>0. /\ LockInv /\ TInv /\ job[w].sess \in Sessions /\ job[w].man.shot \in 1 .. MaxShots
      /\ UNCHANGED <<file, share>> /\ \A p \in Pis : UploadPhase(w, p)
  BY DEF CustodyInv, LockInv, TakeInv, TakeInvOf, Phase, UploadDone, shareVars
<1>1. /\ job'[w].pc = "verify" /\ job'[w].sess = job[w].sess /\ job'[w].man = job[w].man
  BY <1>0, GotoType, JobManType DEF UploadDone, PCs
<1>2. ASSUME NEW p \in Pis PROVE Phase(w, p)'
  <2>1. inbox'[p] = Abandoned(w, p)
    BY DEF UploadDone, StopListening
  <2>2. inbox'[p] \subseteq {Cmd("UPLOAD", job[w].sess, 0, NoWorker)}
    BY <1>0, <2>1 DEF UploadPhase, Abandoned, Cmd
  <2>3. p \in job[w].man.captured => inbox[p] = {}
    <3>1. CASE Deadline(w)
      BY <1>0, <3>1 DEF Deadline, UploadPhase, Cmd
    <3>2. CASE job[w].man.captured \subseteq Heard(w)
      BY <1>0, <3>2 DEF UploadPhase
    <3>3. QED
      BY <3>1, <3>2 DEF UploadDone, IdsReached
  <2>4. p \in job[w].man.captured => inbox'[p] = {}
    BY <2>1, <2>3 DEF Abandoned
  <2>5. Kept(w, p)'
    BY <1>0, <1>1 DEF UploadPhase, Kept
  <2>6. QED
    BY <1>1, <2>2, <2>4, <2>5 DEF Phase, VerifyPhase
<1>3. QED
  BY <1>0, <1>1, <1>2 DEF TakeInvOf

\* The verification of as many frames as there are Pis is one of every Pi.
LEMMA VerifyEnds ==
    ASSUME CustodyInv, LatePis = {}, Expected = Cardinality(Pis), NEW w \in Workers,
           Taking(w), Verify(w)
    PROVE  TakeInvOf(w)'
<1> DEFINE ok == Verified(job[w].sess, job[w].man.captured)
           m == Mark(job[w].man, job[w].man.captured, ok, job[w].man.cleared)
<1>0. /\ LockInv /\ TInv /\ job[w].sess \in Sessions /\ job[w].man.shot \in 1 .. MaxShots
      /\ UNCHANGED <<file, share>> /\ \A p \in Pis : VerifyPhase(w, p)
  BY DEF CustodyInv, LockInv, TakeInv, TakeInvOf, Phase, Verify, shareVars
<1>1. job[w].man.captured \in SUBSET Pis /\ ok \in BOOLEAN
  BY <1>0, JobManType DEF Manifest, Verified
<1>2. m.shot = job[w].man.shot /\ m \in Manifest
  <2>1. job[w].man \in Manifest /\ job[w].man.cleared \in BOOLEAN
    BY <1>0, JobManType DEF Manifest
  <2>2. m \in Manifest
    BY <1>1, <2>1, ManifestType
  <2>3. QED
    BY <2>2 DEF Mark
<1>3. \/ Goto(w, "clear", m) /\ Broadcast(w, "CLEAR", job[w].sess, 0) /\ ok
      \/ Goto(w, "write", m)
  BY DEF Verify
<1>4. ok => job[w].man.captured = Pis /\ \A p \in Pis : share[job[w].sess][p] \notin {Absent, Damaged}
  BY <1>1, PisAssumption, FS_Subset DEF Verified
<1> HIDE DEF m, ok
<1>5. CASE Goto(w, "write", m)
  BY <1>0, <1>2, <1>5, GotoType DEF TakeInvOf, Taking, PCs
<1>6. CASE Goto(w, "clear", m) /\ Broadcast(w, "CLEAR", job[w].sess, 0) /\ ok
  <2>1. job'[w].pc = "clear" /\ job'[w].sess = job[w].sess /\ job'[w].man = m
    BY <1>0, <1>2, <1>6, GotoType DEF PCs
  <2>2. ASSUME NEW p \in Pis PROVE Phase(w, p)'
    <3>1. /\ inbox[p] = {} /\ file[p][job[w].sess] = job[w].man.shot
          /\ share[job[w].sess][p] = job[w].man.shot
      BY <1>0, <1>4, <1>6 DEF VerifyPhase, Kept
    <3>2. inbox'[p] \subseteq {Cmd("CLEAR", job[w].sess, 0, w)}
      BY <1>6, <3>1 DEF Broadcast, Abandoned, Cmd
    <3>3. QED
      BY <1>0, <1>2, <2>1, <3>1, <3>2 DEF Phase, ClearPhase
  <2>3. QED
    BY <1>0, <1>2, <2>1, <2>2 DEF TakeInvOf
<1>7. QED
  BY <1>3, <1>5, <1>6

\* Every other step of w leads out of the take, or was not one of a take.
LEMMA OwnStep ==
    ASSUME CustodyInv, LatePis = {}, Expected = Cardinality(Pis), NEW w \in Workers,
           Request(w) \/ Progress(w) \/ DeleteFails(w) \/ Fail(w)
    PROVE  TakeInvOf(w)'
<1>0. TInv /\ job[w].man \in Manifest
  BY JobManType DEF CustodyInv, LockInv
<1>1. CASE StartTake(w)
  BY <1>1, TakeStarts
<1>2. CASE CaptureDone(w) \/ UploadDone(w) \/ Verify(w)
  <2>1. CASE Taking(w)
    BY <1>2, <2>1, CaptureEnds, UploadEnds, VerifyEnds
  <2>2. CASE ~ Taking(w)
    <3>1. job[w].op \notin {"take", "test"}
      BY <1>2, <2>2 DEF Taking, CaptureDone, UploadDone, Verify
    <3>2. job'[w].op = job[w].op
      <4>1. \E pc, m : Goto(w, pc, m)
        BY <1>2 DEF CaptureDone, UploadDone, Verify
      <4>2. QED
        BY <1>0, <4>1 DEF Goto, TInv, TypeOK
    <3>3. QED
      BY <3>1, <3>2 DEF TakeInvOf, Taking
  <2>3. QED
    BY <2>1, <2>2
<1>3. CASE AskRetry(w) \/ AskClear(w) \/ AskDelete(w)
  <2>1. job'[w].pc \in {"check", "ready"}
    BY <1>0, <1>3 DEF AskRetry, AskClear, AskDelete, Ask, TInv, TypeOK
  <2>2. QED
    BY <2>1 DEF TakeInvOf, Taking
<1>4. CASE StartClearAll(w)
  <2>1. job'[w].op = "clear-all"
    BY <1>0, <1>4 DEF StartClearAll, TInv, TypeOK
  <2>2. QED
    BY <2>1 DEF TakeInvOf, Taking
<1>5. CASE RunRetry(w) \/ RunClear(w)
  <2>1. job'[w].op \in {"retry", "clear"}
    BY <1>0, <1>5 DEF RunRetry, RunClear, Goto, TInv, TypeOK
  <2>2. QED
    BY <2>1 DEF TakeInvOf, Taking
<1>6. CASE RunDelete(w)
  BY <1>0, <1>6, GotoPc DEF RunDelete, TakeInvOf, Taking
<1>7. CASE ClearDone(w)
  <2>1. job'[w].pc \in {"idle", "write"}
    <3>1. CASE job[w].op = "clear-all"
      BY <1>0, <1>7, <3>1, FinishType DEF ClearDone
    <3>2. CASE job[w].op # "clear-all"
      BY <1>0, <1>7, <3>2, GotoPc DEF ClearDone
    <3>3. QED
      BY <3>1, <3>2
  <2>2. QED
    BY <2>1 DEF TakeInvOf, Taking
<1>8. CASE CheckClear(w)
  <2>1. Goto(w, "ready", job[w].man) \/ Finish(w)
    BY <1>8 DEF CheckClear
  <2>2. job'[w].pc \in {"idle", "ready"}
    BY <1>0, <2>1, GotoPc, FinishType
  <2>3. QED
    BY <2>2 DEF TakeInvOf, Taking
<1>9. CASE WriteManifest(w) \/ Busy(w) \/ DeleteDir(w) \/ DeleteFails(w) \/ Fail(w)
  <2>1. job'[w].pc = "idle"
    BY <1>0, <1>9, FinishType DEF WriteManifest, Busy, DeleteDir, DeleteFails, Fail
  <2>2. QED
    BY <2>1 DEF TakeInvOf, Taking
<1>10. QED
  BY <1>1, <1>2, <1>3, <1>4, <1>5, <1>6, <1>7, <1>8, <1>9 DEF Request, Progress

LEMMA TakeInductive ==
    ASSUME CustodyInv, LatePis = {}, Expected = Cardinality(Pis), [Next]_vars
    PROVE  TakeInv'
<1> SUFFICES ASSUME NEW w \in Workers PROVE TakeInvOf(w)'
  BY DEF TakeInv
<1>0. LockInv
  BY DEF CustodyInv
<1>1. CASE UNCHANGED vars
  BY <1>1, Undisturbed DEF vars, CustodyInv
<1>2. CASE Damage
  <2>1. job[w].pc = "idle" /\ job' = job
    BY <1>2 DEF Damage
  <2>2. QED
    BY <2>1 DEF TakeInvOf, Taking
<1>3. ASSUME NEW x \in Workers, Request(x) \/ Progress(x) \/ DeleteFails(x) \/ Fail(x)
      PROVE  TakeInvOf(w)'
  <2>1. CASE x = w
    BY <1>3, <2>1, OwnStep
  <2>2. CASE x # w /\ opLock = w
    BY <1>0, <1>3, <2>2, OtherWorker, Undisturbed DEF CustodyInv
  <2>3. CASE x # w /\ opLock # w
    <3>1. job[w].pc \notin Critical
      BY <1>0, <2>3 DEF LockInv, OneOperation
    <3>2. job'[w] = job[w]
      BY <1>0, <1>3, <2>3, StepsOfOne
    <3>3. QED
      BY <3>1, <3>2 DEF TakeInvOf, Taking, Critical, PCs
  <2>4. QED
    BY <2>1, <2>2, <2>3
<1>4. ASSUME NEW q \in Pis, Pi(q) PROVE TakeInvOf(w)'
  <2>1. job' = job
    BY <1>4 DEF Pi, PiCapture, PiUpload, PiClear
  <2>2. CASE Taking(w)
    <3>1. opLock = w
      BY <1>0, <2>2 DEF LockInv, OneOperation, Taking, Critical, PCs
    <3>2. QED
      BY <1>4, <2>2, <3>1, PiKeepsPhase
  <2>3. CASE ~ Taking(w)
    BY <2>1, <2>3 DEF TakeInvOf, Taking
  <2>4. QED
    BY <2>2, <2>3
<1>5. QED
  BY <1>1, <1>2, <1>3, <1>4 DEF Next

-----------------------------------------------------------------------------
(* Custody *)

\* The commands of a lock holder in a test take are those of its phase, so a
\* CLEAR finds the frame of the shot on the share.
LEMMA CustodyBacked == CustodyInv => TestClearBacked
<1> SUFFICES ASSUME CustodyInv, NEW p \in Pis, NEW c \in inbox[p], c.msg = "CLEAR",
                    c.by \in Workers, job[c.by].op = "test",
                    file[p][c.sess] \notin {Absent, Damaged}
             PROVE  share[c.sess][p] = file[p][c.sess]
  BY DEF TestClearBacked, Backed
<1> DEFINE w == c.by
<1>1. job[w].pc \in {"capture", "upload", "clear"}
  BY DEF CustodyInv, LockInv, SenderWaits, Waiting
<1>2. Phase(w, p)
  BY <1>1 DEF CustodyInv, TakeInv, TakeInvOf, Taking
<1>3. job[w].pc = "clear" /\ ClearPhase(w, p) /\ c.sess = job[w].sess
  BY <1>1, <1>2 DEF Phase, CapturePhase, UploadPhase, ClearPhase, Cmd
<1>4. QED
  BY <1>3 DEF ClearPhase

LEMMA CustodyInvariant ==
    ASSUME LatePis = {}, Expected = Cardinality(Pis)
    PROVE  /\ Init => CustodyInv
           /\ CustodyInv /\ [Next]_vars => CustodyInv'
<1>1. Init => CustodyInv
  BY TypesInductive, LockInductive, NoDirInductive
  DEF LockInv, CustodyInv, TakeInv, TakeInvOf, Taking, Init, Idle
<1>2. CustodyInv /\ [Next]_vars => CustodyInv'
  BY TypesInductive, LockInductive, NoDirInductive, TakeInductive DEF LockInv, CustodyInv
<1>3. QED
  BY <1>1, <1>2

\* When no Pi misses a deadline and the config expects the Pis there are, the
\* CLEAR of a test take wipes only frames whose very exposure is on the share:
\* for any number of concurrent requests, of takes under reused ids, and of
\* requests that die half way (gui.py:1069-1077).
THEOREM TestClearsBacked ==
    ASSUME LatePis = {}, Expected = Cardinality(Pis)
    PROVE  Spec => []TestClearBacked
<1>1. /\ Init => CustodyInv
      /\ CustodyInv /\ [Next]_vars => CustodyInv'
  BY CustodyInvariant
<1>2. QED
  BY <1>1, CustodyBacked, PTL DEF Spec

-----------------------------------------------------------------------------
(* Between the look at the share and the write of session.json *)

\* A take that will write verified has nothing under way to a captured Pi but
\* the CLEAR of a test take, so what was whole on the share stays whole.
WritePhase(w) ==
    \A p \in job[w].man.captured :
        /\ share[job[w].sess][p] \notin {Absent, Damaged}
        /\ inbox[p] \subseteq {Cmd("CLEAR", job[w].sess, 0, NoWorker)}

Writing(w) ==
    job[w].pc = "write" /\ job[w].op \in {"take", "test"} /\ job[w].man.verified

WriteInv == \A w \in Workers : Writing(w) => WritePhase(w)

\* The look at the share: it saw every captured frame, and no captured Pi has
\* a command left.
LEMMA VerifyWrites ==
    ASSUME CustodyInv, NEW w \in Workers, Verify(w), Writing(w)'
    PROVE  WritePhase(w)'
<1> DEFINE ok == Verified(job[w].sess, job[w].man.captured)
           m == Mark(job[w].man, job[w].man.captured, ok, job[w].man.cleared)
<1>0. LockInv /\ TInv /\ job[w].pc = "verify" /\ share' = share
  BY DEF CustodyInv, LockInv, Verify, shareVars
<1>1. \/ Goto(w, "clear", m)
      \/ Goto(w, "write", m) /\ UNCHANGED inbox
  BY DEF Verify
<1>2. m.verified = ok /\ m.captured = job[w].man.captured
  BY DEF Mark
<1>3. ok => \A p \in job[w].man.captured : share[job[w].sess][p] \notin {Absent, Damaged}
  BY DEF Verified
<1>4. job[w].man.captured \subseteq Pis
  BY <1>0, JobManType DEF Manifest
<1> HIDE DEF ok, m
<1>5. Goto(w, "write", m) /\ UNCHANGED inbox
  BY <1>0, <1>1, GotoPc DEF Writing
<1>6. job'[w].op = job[w].op /\ job'[w].sess = job[w].sess /\ job'[w].man = m
  BY <1>0, <1>5 DEF Goto, TInv, TypeOK
<1>7. ok
  BY <1>2, <1>6 DEF Writing
<1>8. \A p \in job[w].man.captured : inbox[p] = {}
  <2>1. Taking(w)
    BY <1>0, <1>6 DEF Writing, Taking
  <2>2. \A p \in Pis : VerifyPhase(w, p)
    BY <1>0, <2>1 DEF CustodyInv, TakeInv, TakeInvOf, Phase
  <2>3. QED
    BY <1>4, <2>2 DEF VerifyPhase
<1>9. QED
  BY <1>0, <1>2, <1>3, <1>5, <1>6, <1>7, <1>8 DEF WritePhase

\* The wait for CLEARED: what is left is a CLEAR nobody waits for.
LEMMA ClearWrites ==
    ASSUME CustodyInv, NEW w \in Workers, ClearDone(w), Writing(w)'
    PROVE  WritePhase(w)'
<1> DEFINE m == Mark(job[w].man, job[w].man.captured, job[w].man.verified, Yes(w) # {})
<1>0. /\ LockInv /\ TInv /\ job[w].pc = "clear" /\ share' = share
      /\ \A p \in Pis : inbox'[p] = Abandoned(w, p)
  BY DEF CustodyInv, LockInv, ClearDone, StopListening, shareVars
<1>1. Finish(w) \/ Goto(w, "write", m)
  BY DEF ClearDone
<1>2. m.captured = job[w].man.captured
  BY DEF Mark
<1>3. job[w].man.captured \subseteq Pis
  BY <1>0, JobManType DEF Manifest
<1> HIDE DEF m
<1>4. Goto(w, "write", m)
  BY <1>0, <1>1, FinishType DEF Writing
<1>5. job'[w].op = job[w].op /\ job'[w].sess = job[w].sess /\ job'[w].man = m
  BY <1>0, <1>4 DEF Goto, TInv, TypeOK
<1>6. /\ job[w].man.shot \in 1 .. MaxShots
      /\ \A p \in Pis : ClearPhase(w, p)
  BY <1>0, <1>5 DEF Writing, Taking, CustodyInv, TakeInv, TakeInvOf, Phase
<1>7. ASSUME NEW p \in Pis
      PROVE  /\ share'[job[w].sess][p] \notin {Absent, Damaged}
             /\ inbox'[p] \subseteq {Cmd("CLEAR", job[w].sess, 0, NoWorker)}
  <2>1. share'[job[w].sess][p] = job[w].man.shot
    BY <1>0, <1>6 DEF ClearPhase
  <2>2. inbox'[p] \subseteq {Cmd("CLEAR", job[w].sess, 0, NoWorker)}
    BY <1>0, <1>6 DEF ClearPhase, Abandoned, Cmd
  <2>3. QED
    BY <1>6, <2>1, <2>2 DEF Absent, Damaged
<1>8. QED
  BY <1>2, <1>3, <1>5, <1>7 DEF WritePhase

LEMMA WriteInductive ==
    ASSUME CustodyInv, WriteInv, [Next]_vars PROVE WriteInv'
<1> SUFFICES ASSUME NEW w \in Workers, Writing(w)' PROVE WritePhase(w)'
  BY DEF WriteInv
<1>0. LockInv /\ TInv
  BY DEF CustodyInv, LockInv
<1>1. ASSUME job'[w] = job[w], UNCHANGED <<inbox, share>> PROVE WritePhase(w)'
  BY <1>1 DEF WriteInv, Writing, WritePhase
<1>2. CASE UNCHANGED vars
  BY <1>1, <1>2 DEF vars
<1>3. CASE Damage
  BY <1>3 DEF Damage, Writing
<1>4. ASSUME NEW x \in Workers \ {w}, Request(x) \/ Progress(x) \/ DeleteFails(x) \/ Fail(x)
      PROVE  WritePhase(w)'
  <2>1. job'[w] = job[w]
    BY <1>0, <1>4, StepsOfOne
  <2>2. opLock = w
    BY <1>0, <2>1 DEF Writing, LockInv, OneOperation, Critical, PCs
  <2>3. QED
    BY <1>0, <1>1, <1>4, <2>2, OtherWorker
<1>5. ASSUME Request(w) \/ Progress(w) \/ DeleteFails(w) \/ Fail(w) PROVE WritePhase(w)'
  <2>1. CASE Verify(w) \/ ClearDone(w)
    BY <2>1, VerifyWrites, ClearWrites
  <2>2. CASE ~ (Verify(w) \/ ClearDone(w))
    <3>1. CASE Request(w)
      <4>1. PICK pc, op, s, m :
              /\ pc \in {"capture", "clear", "check", "ready"}
              /\ job' = [job EXCEPT ![w] = [pc |-> pc, op |-> op, sess |-> s, man |-> m]]
        BY <3>1 DEF Request, StartTake, StartClearAll, AskRetry, AskClear, AskDelete, Ask
      <4>2. job'[w].pc # "write"
        BY <1>0, <4>1, NewJobPc
      <4>3. QED
        BY <4>2 DEF Writing
    <3>2. CASE Progress(w) \/ DeleteFails(w) \/ Fail(w)
      <4>1. Finish(w) \/ \E pc \in PCs \ {"write"} : \E m : Goto(w, pc, m)
        BY <2>2, <3>2 DEF Progress, CaptureDone, UploadDone, WriteManifest, CheckClear, Busy,
           RunRetry, RunClear, RunDelete, DeleteDir, DeleteFails, Fail, PCs
      <4>2. job'[w].pc # "write"
        BY <1>0, <4>1, FinishType, GotoPc
      <4>3. QED
        BY <4>2 DEF Writing
    <3>3. QED
      BY <1>5, <3>1, <3>2
  <2>3. QED
    BY <2>1, <2>2
<1>6. ASSUME NEW q \in Pis, Pi(q) PROVE WritePhase(w)'
  <2>1. /\ job' = job
        /\ \A p \in Pis : inbox'[p] \subseteq inbox[p]
    BY <1>0, <1>6, AnswerSender DEF Pi, PiCapture, PiUpload, PiClear
  <2>2. WritePhase(w) /\ job[w].man.captured \subseteq Pis
    BY <1>0, <2>1, JobManType DEF WriteInv, Writing, Manifest
  <2>3. CASE share' = share
    BY <2>1, <2>2, <2>3 DEF WritePhase
  <2>4. CASE share' # share
    <3>1. PICK c, f :
            c \in inbox[q] /\ c.msg = "UPLOAD" /\ share' = [share EXCEPT ![c.sess][q] = f]
      BY <1>6, <2>4 DEF Pi, PiCapture, PiUpload, PiClear, shareVars
    <3>2. q \notin job[w].man.captured
      BY <2>2, <3>1 DEF WritePhase, Cmd
    <3>3. \A s \in Sessions, p \in Pis \ {q} : share'[s][p] = share[s][p]
      BY <1>0, <3>1 DEF TInv, TypeOK
    <3>4. job[w].sess \in Sessions
      BY <1>0, <2>1 DEF Writing, TInv, Sited
    <3>5. QED
      BY <2>1, <2>2, <3>2, <3>3, <3>4 DEF WritePhase
  <2>5. QED
    BY <2>3, <2>4
<1>7. QED
  BY <1>2, <1>3, <1>4, <1>5, <1>6 DEF Next

\* Whatever the other requests do, and whatever fails, a take or test take that
\* writes verified = True does so while every captured frame is whole on the
\* share: when no Pi misses a deadline and the config expects the Pis there
\* are (gui.py:1032-1079).
THEOREM VerifiedHolds ==
    ASSUME LatePis = {}, Expected = Cardinality(Pis)
    PROVE  Spec => VerifiedWhenWritten
<1>1. /\ Init => CustodyInv
      /\ CustodyInv /\ [Next]_vars => CustodyInv'
  BY CustodyInvariant
<1>2. Init => WriteInv
  BY DEF Init, Idle, WriteInv, Writing
<1>3. CustodyInv /\ WriteInv /\ [Next]_vars => WriteInv'
  BY WriteInductive
<1>4. CustodyInv /\ WriteInv =>
        \A w \in Workers :
           (/\ job[w].pc = "write"
            /\ job[w].op \in {"take", "test"}
            /\ job[w].man.verified
            /\ job'[w].pc = "idle"
            /\ manifest' # manifest)
           => \A p \in job[w].man.captured : share[job[w].sess][p] \notin {Absent, Damaged}
  BY DEF WriteInv, Writing, WritePhase
<1>5. QED
  BY <1>1, <1>2, <1>3, <1>4, PTL DEF Spec, VerifiedWhenWritten

=============================================================================
