-------------------------- MODULE RigSessionsProofs --------------------------
(* Theorems about RigSessions, for every set of Pis and request threads and *)
(* every choice of the operations and faults that may happen.               *)
EXTENDS RigSessions, FiniteSetTheorems, TLAPS

-----------------------------------------------------------------------------
(* Types *)

\* A request is about a session, except CLEAR ALL; so is a command.
Sited ==
    /\ \A w \in Workers : job[w].pc # "idle" =>
         job[w].sess \in Sessions \/ (job[w].pc = "clear" /\ job[w].op = "clear-all")
    /\ \A p \in Pis : \A c \in inbox[p] : c.msg # "CLEAR" => c.sess \in Sessions

TInv == TypeOK /\ Sited

InboxType == [Pis -> SUBSET Command]
RepliesType == [Workers -> SUBSET [pi : Pis, ok : BOOLEAN]]
InboxSited == \A p \in Pis : \A c \in inbox[p] : c.msg # "CLEAR" => c.sess \in Sessions

LEMMA AbandonedType ==
    ASSUME TInv, NEW w \in Workers, NEW p \in Pis
    PROVE  /\ Abandoned(w, p) \subseteq Command
           /\ \A c \in Abandoned(w, p) : c.msg # "CLEAR" => c.sess \in Sessions
BY DEF TInv, TypeOK, Sited, Abandoned, Command

LEMMA BroadcastType ==
    ASSUME TInv, NEW w \in Workers, NEW msg \in {"CAPTURE", "UPLOAD", "CLEAR"},
           NEW s \in 0 .. MaxTake, NEW k \in 0 .. MaxShots, Broadcast(w, msg, s, k),
           msg # "CLEAR" => s \in Sessions
    PROVE  inbox' \in InboxType /\ replies' \in RepliesType /\ InboxSited'
<1>1. [msg |-> msg, sess |-> s, shot |-> k, by |-> w] \in Command
  BY DEF Command
<1>2. PICK delivered \in SUBSET Pis :
        inbox' = [p \in Pis |-> Abandoned(w, p) \cup
                    IF p \in delivered
                      THEN {[msg |-> msg, sess |-> s, shot |-> k, by |-> w]}
                      ELSE {}]
  BY DEF Broadcast
<1>3. inbox' \in InboxType
  BY <1>1, <1>2, AbandonedType DEF InboxType
<1>4. InboxSited'
  BY <1>2, AbandonedType DEF InboxSited
<1>5. replies' \in RepliesType
  BY DEF Broadcast, TInv, TypeOK, RepliesType
<1>6. QED
  BY <1>3, <1>4, <1>5

LEMMA StopListeningType ==
    ASSUME TInv, NEW w \in Workers, StopListening(w)
    PROVE  inbox' \in InboxType /\ replies' \in RepliesType /\ InboxSited'
BY AbandonedType DEF TInv, TypeOK, StopListening, InboxType, RepliesType, InboxSited

LEMMA AnswerType ==
    ASSUME TInv, NEW p \in Pis, NEW c \in inbox[p], NEW ok \in BOOLEAN, Answer(p, c, ok)
    PROVE  inbox' \in InboxType /\ replies' \in RepliesType /\ InboxSited'
BY DEF TInv, TypeOK, Sited, Answer, InboxType, RepliesType, InboxSited

LEMMA YesType ==
    ASSUME TInv, NEW w \in Workers
    PROVE  Yes(w) \in SUBSET Pis /\ Heard(w) \in SUBSET Pis
BY DEF TInv, TypeOK, Yes, Heard

LEMMA ManifestType ==
    /\ \A k \in 0 .. MaxShots : NewManifest(k) \in Manifest
    /\ NoManifest \in Manifest
    /\ \A m \in Manifest, captured \in SUBSET Pis, verified, cleared \in BOOLEAN :
         Mark(m, captured, verified, cleared) \in Manifest
BY BoundsAssumption DEF NewManifest, NoManifest, Mark, Manifest

LEMMA IdleType == Idle \in Job
BY BoundsAssumption, ManifestType DEF Idle, Job, PCs

\* The job of a worker that moves on, and the jobs of the others.
LEMMA GotoType ==
    ASSUME TInv, NEW w \in Workers, NEW pc \in PCs, NEW m \in Manifest, Goto(w, pc, m)
    PROVE  /\ job' \in [Workers -> Job]
           /\ \A x \in Workers \ {w} : job'[x] = job[x]
           /\ job'[w].pc = pc /\ job'[w].op = job[w].op
           /\ job'[w].sess = job[w].sess /\ job'[w].man = m
BY DEF Goto, TInv, TypeOK, Job

LEMMA FinishType ==
    ASSUME TInv, NEW w \in Workers, Finish(w)
    PROVE  /\ job' \in [Workers -> Job]
           /\ \A x \in Workers \ {w} : job'[x] = job[x]
           /\ job'[w].pc = "idle"
BY IdleType DEF Finish, TInv, TypeOK, Idle

LEMMA JobManType ==
    ASSUME TInv, NEW w \in Workers
    PROVE  job[w].man \in Manifest /\ job[w].sess \in 0 .. MaxTake
BY DEF TInv, TypeOK, Job

LEMMA NewJobType ==
    ASSUME TInv, NEW w \in Workers, NEW pc \in PCs, NEW op \in Operations,
           NEW s \in 0 .. MaxTake, NEW m \in Manifest,
           job' = [job EXCEPT ![w] = [pc |-> pc, op |-> op, sess |-> s, man |-> m]]
    PROVE  /\ job' \in [Workers -> Job]
           /\ \A x \in Workers \ {w} : job'[x] = job[x]
           /\ job'[w].pc = pc /\ job'[w].op = op
           /\ job'[w].sess = s /\ job'[w].man = m
BY DEF TInv, TypeOK, Job

LEMMA SaveType ==
    ASSUME TInv, NEW s \in Sessions, NEW m \in Manifest, Save(s, m)
    PROVE  /\ manifest' \in [Sessions -> Manifest]
           /\ dirs' \in SUBSET Sessions
           /\ share' = share
BY DEF Save, TInv, TypeOK

\* One file written on a Pi, one on the share.
LEMMA FileSet ==
    ASSUME TInv, NEW p \in Pis, NEW s \in Sessions, NEW f \in Frame,
           file' = [file EXCEPT ![p][s] = f]
    PROVE  /\ file' \in [Pis -> [Sessions -> Frame]]
           /\ \A q \in Pis, t \in Sessions :
                file'[q][t] = IF q = p /\ t = s THEN f ELSE file[q][t]
<1>1. file \in [Pis -> [Sessions -> Frame]]
  BY DEF TInv, TypeOK
<1>2. QED
  BY <1>1

LEMMA ShareSet ==
    ASSUME TInv, NEW p \in Pis, NEW s \in Sessions, NEW f \in Frame,
           share' = [share EXCEPT ![s][p] = f]
    PROVE  /\ share' \in [Sessions -> [Pis -> Frame]]
           /\ \A q \in Pis, t \in Sessions :
                share'[t][q] = IF q = p /\ t = s THEN f ELSE share[t][q]
<1>1. share \in [Sessions -> [Pis -> Frame]]
  BY DEF TInv, TypeOK
<1>2. QED
  BY <1>1

LEMMA FrameType ==
    /\ Absent \in Frame /\ Damaged \in Frame
    /\ \A k \in 0 .. MaxShots : k \in Frame
BY BoundsAssumption DEF Frame, Absent, Damaged

\* Types, with the sessions of the requests and commands, are preserved.
LEMMA TypesInductive ==
    /\ Init => TInv
    /\ TInv /\ [Next]_vars => TInv'
<1>1. Init => TInv
  BY BoundsAssumption, IdleType, ManifestType
  DEF Init, TInv, Sited, TypeOK, Frame, Absent, Damaged, Sessions, Idle
<1>2. TInv /\ [Next]_vars => TInv'
  <2> SUFFICES ASSUME TInv, [Next]_vars PROVE TInv'
    OBVIOUS
  <2> USE BoundsAssumption
  <2>0. 0 \in 0 .. MaxShots
    OBVIOUS
  <2>1. ASSUME NEW w \in Workers, StartTake(w) PROVE TInv'
    <3> PICK op \in {"take", "test"} \cap Events, s \in Sessions :
          /\ job' = [job EXCEPT ![w] =
                      [pc |-> "capture", op |-> op, sess |-> s,
                       man |-> NewManifest(shots + 1)]]
          /\ Broadcast(w, "CAPTURE", s, shots + 1)
      BY <2>1 DEF StartTake
    <3>1. shots + 1 \in 0 .. MaxShots /\ s \in 0 .. MaxTake
      BY <2>1 DEF StartTake, TInv, TypeOK, Sessions
    <3>2. job' \in [Workers -> Job] /\ \A x \in Workers \ {w} : job'[x] = job[x]
      BY <3>1, NewJobType, ManifestType DEF PCs, Operations
    <3>3. job'[w].sess \in Sessions
      BY <3>1, NewJobType, ManifestType DEF PCs, Operations
    <3>4. inbox' \in InboxType /\ replies' \in RepliesType /\ InboxSited'
      BY <3>1, BroadcastType
    <3>5. QED
      BY <2>1, <3>1, <3>2, <3>3, <3>4
      DEF StartTake, Acquire, TInv, TypeOK, Sited, shareVars, InboxType, RepliesType, InboxSited
  <2>2. ASSUME NEW w \in Workers, StartClearAll(w) PROVE TInv'
    <3>0. AllSessions \in 0 .. MaxTake /\ "clear" \in PCs /\ "clear-all" \in Operations
      BY DEF AllSessions, PCs, Operations
    <3>a. job' = [job EXCEPT ![w] =
                   [pc |-> "clear", op |-> "clear-all", sess |-> AllSessions, man |-> NoManifest]]
      BY <2>2 DEF StartClearAll
    <3>1. job' \in [Workers -> Job] /\ \A x \in Workers \ {w} : job'[x] = job[x]
      BY <3>0, <3>a, NewJobType, ManifestType
    <3>2. job'[w].pc = "clear" /\ job'[w].op = "clear-all"
      BY <3>0, <3>a, NewJobType, ManifestType
    <3>3. inbox' \in InboxType /\ replies' \in RepliesType /\ InboxSited'
      BY <2>2, BroadcastType DEF StartClearAll, AllSessions
    <3>4. QED
      BY <2>2, <3>1, <3>2, <3>3
      DEF StartClearAll, Acquire, TInv, TypeOK, Sited, shareVars, InboxType, RepliesType, InboxSited
  <2>3. ASSUME NEW w \in Workers, AskRetry(w) \/ AskClear(w) \/ AskDelete(w) PROVE TInv'
    <3> PICK op \in Operations, s \in Sessions, pc \in PCs : Ask(w, op, s, pc)
      BY <2>3 DEF AskRetry, AskClear, AskDelete, TInv, TypeOK, Operations, PCs
    <3>1. manifest[s] \in Manifest /\ s \in 0 .. MaxTake
      BY DEF TInv, TypeOK, Sessions
    <3>2. job' \in [Workers -> Job] /\ \A x \in Workers \ {w} : job'[x] = job[x]
      BY <3>1, NewJobType DEF Ask
    <3>3. job'[w].sess \in Sessions
      BY <3>1, NewJobType DEF Ask
    <3>4. QED
      BY <3>2, <3>3 DEF Ask, TInv, TypeOK, Sited, shareVars
  <2>4. ASSUME NEW w \in Workers, CaptureDone(w) PROVE TInv'
    <3> DEFINE m == Mark(job[w].man, Yes(w), FALSE, FALSE)
    <3>1. m \in Manifest
      BY YesType, JobManType, ManifestType
    <3>2. job[w].sess \in Sessions /\ job[w].sess \in 0 .. MaxTake
      BY <2>4, JobManType DEF CaptureDone, TInv, Sited
    <3>3. PICK pc \in {"verify", "upload"} : Goto(w, pc, m)
      BY <2>4 DEF CaptureDone
    <3>4. job' \in [Workers -> Job] /\ (\A x \in Workers \ {w} : job'[x] = job[x])
          /\ job'[w].sess \in Sessions
      <4> HIDE DEF m
      <4> QED BY <3>1, <3>2, <3>3, GotoType DEF PCs
    <3>5. inbox' \in InboxType /\ replies' \in RepliesType /\ InboxSited'
      BY <2>0, <2>4, <3>2, BroadcastType, StopListeningType DEF CaptureDone
    <3>6. QED
      BY <2>4, <3>4, <3>5
      DEF CaptureDone, TInv, TypeOK, Sited, shareVars, InboxType, RepliesType, InboxSited
  <2>5. ASSUME NEW w \in Workers, UploadDone(w) PROVE TInv'
    <3>1. job' \in [Workers -> Job] /\ (\A x \in Workers \ {w} : job'[x] = job[x])
          /\ job'[w].sess \in Sessions
      BY <2>5, GotoType, JobManType DEF UploadDone, PCs, TInv, Sited
    <3>2. QED
      BY <2>5, <3>1, StopListeningType
      DEF UploadDone, TInv, TypeOK, Sited, shareVars, InboxType, RepliesType, InboxSited
  <2>6. ASSUME NEW w \in Workers, Verify(w) PROVE TInv'
    <3> DEFINE ok == Verified(job[w].sess, job[w].man.captured)
               m == Mark(job[w].man, job[w].man.captured, ok, job[w].man.cleared)
    <3>1. m \in Manifest
      <4>1. ok \in BOOLEAN
        BY DEF Verified
      <4>2. job[w].man.captured \in SUBSET Pis /\ job[w].man.cleared \in BOOLEAN
        BY JobManType DEF Manifest
      <4>3. QED
        BY <4>1, <4>2, JobManType, ManifestType
    <3>2. job[w].sess \in Sessions /\ job[w].sess \in 0 .. MaxTake
      BY <2>6, JobManType DEF Verify, TInv, Sited
    <3>3. PICK pc \in {"clear", "write"} : Goto(w, pc, m)
      BY <2>6 DEF Verify
    <3>4. job' \in [Workers -> Job] /\ (\A x \in Workers \ {w} : job'[x] = job[x])
          /\ job'[w].sess \in Sessions
      <4> HIDE DEF m
      <4> QED BY <3>1, <3>2, <3>3, GotoType DEF PCs
    <3>5. inbox' \in InboxType /\ replies' \in RepliesType /\ InboxSited'
      <4>1. CASE UNCHANGED <<inbox, replies>>
        BY <4>1 DEF TInv, TypeOK, Sited, InboxType, RepliesType, InboxSited
      <4>2. CASE Broadcast(w, "CLEAR", job[w].sess, 0)
        BY <4>2, <2>0, <3>2, BroadcastType
      <4>3. QED
        BY <2>6, <4>1, <4>2 DEF Verify
    <3>6. QED
      BY <2>6, <3>4, <3>5
      DEF Verify, TInv, TypeOK, Sited, shareVars, InboxType, RepliesType, InboxSited
  <2>7. ASSUME NEW w \in Workers, ClearDone(w) PROVE TInv'
    <3>1. inbox' \in InboxType /\ replies' \in RepliesType /\ InboxSited'
      BY <2>7, StopListeningType DEF ClearDone
    <3>2. job' \in [Workers -> Job] /\ (\A x \in Workers \ {w} : job'[x] = job[x])
          /\ (job'[w].pc # "idle" => job'[w].sess \in Sessions)
      <4>1. CASE job[w].op = "clear-all"
        BY <2>7, <4>1, FinishType DEF ClearDone
      <4>2. CASE job[w].op # "clear-all"
        <5> DEFINE m == Mark(job[w].man, job[w].man.captured, job[w].man.verified, Yes(w) # {})
        <5>1. m \in Manifest
          <6>1. job[w].man.captured \in SUBSET Pis /\ job[w].man.verified \in BOOLEAN
            BY JobManType DEF Manifest
          <6>2. QED
            BY <6>1, JobManType, ManifestType
        <5>2. Goto(w, "write", m)
          BY <2>7, <4>2 DEF ClearDone
        <5>3. job[w].sess \in Sessions
          BY <2>7, <4>2 DEF ClearDone, TInv, Sited
        <5> HIDE DEF m
        <5>4. QED
          BY <5>1, <5>2, <5>3, GotoType DEF PCs
      <4>3. QED
        BY <4>1, <4>2
    <3>3. opLock' \in Workers \cup {NoWorker}
      BY <2>7 DEF ClearDone, TInv, TypeOK
    <3>4. QED
      BY <2>7, <3>1, <3>2, <3>3
      DEF ClearDone, TInv, TypeOK, Sited, shareVars, InboxType, RepliesType, InboxSited
  <2>8. ASSUME NEW w \in Workers, WriteManifest(w) PROVE TInv'
    <3>1. job[w].sess \in Sessions
      BY <2>8 DEF WriteManifest, TInv, Sited
    <3>2. QED
      BY <2>8, <3>1, JobManType, FinishType, SaveType DEF WriteManifest, TInv, TypeOK, Sited
  <2>9. ASSUME NEW w \in Workers, CheckClear(w) PROVE TInv'
    <3>1. job[w].sess \in Sessions
      BY <2>9 DEF CheckClear, TInv, Sited
    <3>2. CASE Goto(w, "ready", job[w].man) /\ UNCHANGED shareVars
      BY <2>9, <3>1, <3>2, JobManType, GotoType
      DEF CheckClear, TInv, TypeOK, Sited, PCs, shareVars
    <3>3. ASSUME Finish(w),
                 Save(job[w].sess, Mark(job[w].man, job[w].man.captured, FALSE, job[w].man.cleared))
          PROVE  TInv'
      <4>1. Mark(job[w].man, job[w].man.captured, FALSE, job[w].man.cleared) \in Manifest
        <5>1. job[w].man.captured \in SUBSET Pis /\ job[w].man.cleared \in BOOLEAN
          BY JobManType DEF Manifest
        <5>2. QED
          BY <5>1, JobManType, ManifestType
      <4>2. QED
        BY <2>9, <3>1, <3>3, <4>1, FinishType, SaveType
        DEF CheckClear, TInv, TypeOK, Sited
    <3>4. QED
      BY <2>9, <3>2, <3>3 DEF CheckClear
  <2>10. ASSUME NEW w \in Workers, Busy(w) PROVE TInv'
    BY <2>10, FinishType DEF Busy, TInv, TypeOK, Sited, shareVars
  <2>11. ASSUME NEW w \in Workers, RunRetry(w) \/ RunClear(w) \/ RunDelete(w) PROVE TInv'
    <3>1. job[w].sess \in Sessions /\ job[w].sess \in 0 .. MaxTake
      BY <2>11, JobManType DEF RunRetry, RunClear, RunDelete, TInv, Sited
    <3>2. job' \in [Workers -> Job] /\ (\A x \in Workers \ {w} : job'[x] = job[x])
          /\ job'[w].sess \in Sessions
      BY <2>11, <3>1, GotoType, JobManType DEF RunRetry, RunClear, RunDelete, PCs
    <3>3. inbox' \in InboxType /\ replies' \in RepliesType /\ InboxSited'
      <4>1. CASE UNCHANGED <<replies, inbox>>
        BY <4>1 DEF TInv, TypeOK, Sited, InboxType, RepliesType, InboxSited
      <4>2. CASE \E msg \in {"UPLOAD", "CLEAR"} : Broadcast(w, msg, job[w].sess, 0)
        BY <4>2, <2>0, <3>1, BroadcastType
      <4>3. QED
        BY <2>11, <4>1, <4>2 DEF RunRetry, RunClear, RunDelete
    <3>4. QED
      BY <2>11, <3>2, <3>3
      DEF RunRetry, RunClear, RunDelete, Acquire, TInv, TypeOK, Sited, shareVars,
          InboxType, RepliesType, InboxSited
  <2>12. ASSUME NEW w \in Workers, DeleteDir(w) \/ DeleteFails(w) PROVE TInv'
    <3>1. Finish(w) /\ UNCHANGED <<replies, inbox, file, shots>>
          /\ opLock' = NoWorker /\ dirs' \subseteq dirs
      BY <2>12 DEF DeleteDir, DeleteFails
    <3>2. share' \in [Sessions -> [Pis -> Frame]]
      <4>1. job[w].sess \in Sessions
        BY <2>12 DEF DeleteDir, DeleteFails, TInv, Sited
      <4>2. PICK left \in [Pis -> Frame] : share' = [share EXCEPT ![job[w].sess] = left]
        <5>1. CASE DeleteDir(w)
          BY <5>1, FrameType DEF DeleteDir
        <5>2. CASE DeleteFails(w)
          <6>1. PICK gone \in SUBSET Pis : share' = [share EXCEPT ![job[w].sess] =
                  [p \in Pis |-> IF p \in gone THEN Absent ELSE share[job[w].sess][p]]]
            BY <5>2 DEF DeleteFails
          <6>2. [p \in Pis |-> IF p \in gone THEN Absent ELSE share[job[w].sess][p]] \in [Pis -> Frame]
            BY <4>1, FrameType DEF TInv, TypeOK
          <6>3. QED
            BY <6>1, <6>2
        <5>3. QED
          BY <2>12, <5>1, <5>2
      <4>3. QED
        BY <4>1, <4>2 DEF TInv, TypeOK
    <3>3. manifest' \in [Sessions -> Manifest]
      BY <2>12, ManifestType DEF DeleteDir, DeleteFails, TInv, TypeOK
    <3>4. QED
      BY <3>1, <3>2, <3>3, FinishType DEF TInv, TypeOK, Sited
  <2>13. ASSUME NEW w \in Workers, Fail(w) PROVE TInv'
    BY <2>13, FinishType, StopListeningType
    DEF Fail, TInv, TypeOK, Sited, shareVars, InboxType, RepliesType, InboxSited
  <2>14. ASSUME NEW p \in Pis, PiCapture(p) PROVE TInv'
    <3> PICK c \in inbox[p], ok \in BOOLEAN :
          /\ Answer(p, c, ok)
          /\ c.msg = "CAPTURE"
          /\ \E f \in {c.shot, file[p][c.sess], Damaged} : file' = [file EXCEPT ![p][c.sess] = f]
          /\ UNCHANGED <<opLock, job, shareVars, shots>>
      BY <2>14 DEF PiCapture
    <3>1. c \in Command /\ c.sess \in Sessions
      BY DEF TInv, TypeOK, Sited
    <3>2. c.shot \in Frame /\ file[p][c.sess] \in Frame /\ Damaged \in Frame
      BY <3>1 DEF TInv, TypeOK, Command, Frame, Damaged
    <3>3. file' \in [Pis -> [Sessions -> Frame]]
      <4>1. PICK f \in Frame : file' = [file EXCEPT ![p][c.sess] = f]
        BY <3>2
      <4>2. QED
        BY <3>1, <4>1, FileSet
    <3>4. QED
      BY <3>3, AnswerType
      DEF TInv, TypeOK, Sited, shareVars, InboxType, RepliesType, InboxSited
  <2>15. ASSUME NEW p \in Pis, PiUpload(p) PROVE TInv'
    <3> PICK c \in inbox[p], ok \in BOOLEAN :
          /\ Answer(p, c, ok)
          /\ c.msg = "UPLOAD"
          /\ \/ UNCHANGED <<share, dirs>>
             \/ /\ \E f \in {file[p][c.sess], share[c.sess][p], Damaged} :
                     share' = [share EXCEPT ![c.sess][p] = f]
                /\ dirs' = dirs \cup {c.sess}
          /\ UNCHANGED <<opLock, job, file, manifest, shots>>
      BY <2>15 DEF PiUpload
    <3>1. c.sess \in Sessions
      BY DEF TInv, Sited
    <3>2. file[p][c.sess] \in Frame /\ share[c.sess][p] \in Frame /\ Damaged \in Frame
      BY <3>1 DEF TInv, TypeOK, Frame, Damaged
    <3>3. share' \in [Sessions -> [Pis -> Frame]] /\ dirs' \in SUBSET Sessions
      <4>1. CASE UNCHANGED <<share, dirs>>
        BY <4>1 DEF TInv, TypeOK
      <4>2. ASSUME NEW f \in Frame, share' = [share EXCEPT ![c.sess][p] = f],
                   dirs' = dirs \cup {c.sess}
            PROVE  share' \in [Sessions -> [Pis -> Frame]] /\ dirs' \in SUBSET Sessions
        BY <3>1, <4>2, ShareSet DEF TInv, TypeOK
      <4>3. QED
        BY <3>2, <4>1, <4>2
    <3>4. QED
      BY <3>3, AnswerType DEF TInv, TypeOK, Sited, InboxType, RepliesType, InboxSited
  <2>16. ASSUME NEW p \in Pis, PiClear(p) PROVE TInv'
    <3> PICK c \in inbox[p], stuck \in Stuck :
          /\ file' = [file EXCEPT ![p] = [s \in Sessions |->
                        IF c.sess \in {s, AllSessions} /\ s \notin stuck THEN Absent ELSE @[s]]]
          /\ Answer(p, c, TRUE)
          /\ UNCHANGED <<opLock, job, shareVars, shots>>
      BY <2>16 DEF PiClear
    <3>1. file' \in [Pis -> [Sessions -> Frame]]
      BY DEF TInv, TypeOK, Frame, Absent, Damaged
    <3>2. QED
      BY <3>1, AnswerType DEF TInv, TypeOK, Sited, shareVars, InboxType, RepliesType, InboxSited
  <2>17. CASE Damage
    BY <2>17 DEF Damage, TInv, TypeOK, Sited, Frame, Absent, Damaged
  <2>18. CASE UNCHANGED vars
    BY <2>18 DEF vars, TInv, TypeOK, Sited
  <2>19. QED
    BY <2>1, <2>2, <2>3, <2>4, <2>5, <2>6, <2>7, <2>8, <2>9, <2>10, <2>11, <2>12,
       <2>13, <2>14, <2>15, <2>16, <2>17, <2>18
    DEF Next, Request, Progress, Pi
<1>3. QED
  BY <1>1, <1>2

\* Every variable keeps its type (App, UdpRig, the nodes and the disk).
THEOREM TypeCorrect == Spec => []TypeOK
<1>1. TInv => TypeOK
  BY DEF TInv
<1>2. QED
  BY <1>1, TypesInductive, PTL DEF Spec

-----------------------------------------------------------------------------
(* The operation lock *)

Waiting == {"capture", "upload", "clear"}

\* Strengthening of OneOperation: a command has a sender only while that
\* worker waits for its answers, so a release leaves no sender behind.
SenderWaits ==
    \A p \in Pis : \A c \in inbox[p] : c.by \in Workers => job[c.by].pc \in Waiting

LockInv == TInv /\ OneOperation /\ SenderWaits

\* With the lock in its hands a worker leaves no other sender on the wire.
LEMMA BroadcastSender ==
    ASSUME LockInv, NEW w \in Workers, opLock \in {w, NoWorker},
           NEW msg, NEW s, NEW k, Broadcast(w, msg, s, k)
    PROVE  \A p \in Pis : \A c \in inbox'[p] : c.by \in {w, NoWorker}
BY DEF LockInv, TInv, TypeOK, OneOperation, Broadcast, Abandoned, Command

LEMMA StopListeningSender ==
    ASSUME LockInv, NEW w \in Workers, StopListening(w)
    PROVE  \A p \in Pis : \A c \in inbox'[p] :
             /\ c.by \in {opLock, NoWorker} /\ c.by # w
             /\ c.by \in Workers => job[c.by].pc \in Waiting
BY WorkersAssumption
DEF LockInv, TInv, TypeOK, OneOperation, SenderWaits, StopListening, Abandoned, Command

LEMMA AnswerSender ==
    ASSUME LockInv, NEW p \in Pis, NEW c \in inbox[p], NEW ok, Answer(p, c, ok)
    PROVE  \A q \in Pis : inbox'[q] \subseteq inbox[q]
BY DEF LockInv, TInv, TypeOK, Answer

\* What the three kinds of lock step, and the unlocked ones, preserve.
LEMMA LockSteps ==
    ASSUME LockInv, NEW w \in Workers, \A x \in Workers \ {w} : job'[x] = job[x],
           \/ /\ Acquire(w)
              /\ job'[w].pc \in Critical
              /\ \/ UNCHANGED inbox
                 \/ job'[w].pc \in Waiting /\ \E msg, s, k : Broadcast(w, msg, s, k)
           \/ /\ UNCHANGED opLock
              /\ job[w].pc \in Critical /\ job'[w].pc \in Critical
              /\ \/ UNCHANGED inbox /\ job[w].pc \notin Waiting
                 \/ StopListening(w)
                 \/ job'[w].pc \in Waiting /\ \E msg, s, k : Broadcast(w, msg, s, k)
           \/ /\ UNCHANGED opLock
              /\ job[w].pc \notin Critical /\ job'[w].pc \notin Critical
              /\ UNCHANGED inbox \/ StopListening(w)
           \/ /\ opLock' = NoWorker
              /\ job[w].pc \in Critical /\ job'[w].pc \notin Critical
              /\ \/ StopListening(w)
                 \/ UNCHANGED inbox /\ job[w].pc \notin Waiting
    PROVE  OneOperation' /\ SenderWaits'
<1> USE WorkersAssumption
<1>1. CASE /\ Acquire(w)
           /\ job'[w].pc \in Critical
           /\ \/ UNCHANGED inbox
              \/ job'[w].pc \in Waiting /\ \E msg, s, k : Broadcast(w, msg, s, k)
  <2>1. \A x \in Workers : job[x].pc \notin Critical
    BY <1>1 DEF LockInv, OneOperation, Acquire, Free
  <2>2. \A p \in Pis : \A c \in inbox'[p] :
          c.by = NoWorker \/ (c.by = w /\ job'[w].pc \in Waiting)
    BY <1>1, BroadcastSender DEF LockInv, OneOperation, Acquire, Free
  <2>3. QED
    BY <1>1, <2>1, <2>2 DEF OneOperation, SenderWaits, Acquire
<1>2. CASE /\ UNCHANGED opLock
           /\ job[w].pc \in Critical /\ job'[w].pc \in Critical
           /\ \/ UNCHANGED inbox /\ job[w].pc \notin Waiting
              \/ StopListening(w)
              \/ job'[w].pc \in Waiting /\ \E msg, s, k : Broadcast(w, msg, s, k)
  <2>1. opLock = w
    BY <1>2 DEF LockInv, OneOperation
  <2>2. \A p \in Pis : \A c \in inbox'[p] :
          c.by = NoWorker \/ (c.by = w /\ job'[w].pc \in Waiting)
    <3>1. CASE UNCHANGED inbox /\ job[w].pc \notin Waiting
      BY <2>1, <3>1 DEF LockInv, OneOperation, SenderWaits
    <3>2. CASE StopListening(w)
      BY <2>1, <3>2, StopListeningSender
    <3>3. CASE job'[w].pc \in Waiting /\ \E msg, s, k : Broadcast(w, msg, s, k)
      BY <2>1, <3>3, BroadcastSender
    <3>4. QED
      BY <1>2, <3>1, <3>2, <3>3
  <2>3. QED
    BY <1>2, <2>1, <2>2 DEF LockInv, OneOperation, SenderWaits
<1>3. CASE /\ UNCHANGED opLock
           /\ job[w].pc \notin Critical /\ job'[w].pc \notin Critical
           /\ UNCHANGED inbox \/ StopListening(w)
  <2>1. \A p \in Pis : \A c \in inbox'[p] :
          /\ c.by \in {opLock, NoWorker} /\ c.by # w
          /\ c.by \in Workers => job[c.by].pc \in Waiting
    BY <1>3, StopListeningSender DEF LockInv, OneOperation, SenderWaits
  <2>2. QED
    BY <1>3, <2>1 DEF LockInv, OneOperation, SenderWaits
<1>4. CASE /\ opLock' = NoWorker
           /\ job[w].pc \in Critical /\ job'[w].pc \notin Critical
           /\ \/ StopListening(w)
              \/ UNCHANGED inbox /\ job[w].pc \notin Waiting
  <2>1. opLock = w /\ \A x \in Workers \ {w} : job[x].pc \notin Critical
    BY <1>4 DEF LockInv, OneOperation
  <2>2. \A p \in Pis : \A c \in inbox'[p] : c.by = NoWorker
    BY <1>4, <2>1, StopListeningSender DEF LockInv, OneOperation, SenderWaits
  <2>3. QED
    BY <1>4, <2>1, <2>2 DEF OneOperation, SenderWaits
<1>5. QED
  BY <1>1, <1>2, <1>3, <1>4

\* The job a worker leaves is where its action starts; the next one is where
\* it goes, and no action touches the job of another worker.
LEMMA GotoPc ==
    ASSUME TInv, NEW w \in Workers, NEW pc, NEW m, Goto(w, pc, m)
    PROVE  job'[w].pc = pc /\ \A x \in Workers \ {w} : job'[x] = job[x]
BY DEF Goto, TInv, TypeOK

LEMMA NewJobPc ==
    ASSUME TInv, NEW w \in Workers, NEW pc, NEW op, NEW s, NEW m,
           job' = [job EXCEPT ![w] = [pc |-> pc, op |-> op, sess |-> s, man |-> m]]
    PROVE  job'[w].pc = pc /\ \A x \in Workers \ {w} : job'[x] = job[x]
BY DEF TInv, TypeOK

LEMMA LockInductive ==
    /\ Init => OneOperation /\ SenderWaits
    /\ LockInv /\ [Next]_vars => OneOperation' /\ SenderWaits'
<1>1. Init => OneOperation /\ SenderWaits
  BY WorkersAssumption DEF Init, OneOperation, SenderWaits, Idle, Critical
<1>2. LockInv /\ [Next]_vars => OneOperation' /\ SenderWaits'
  <2> SUFFICES ASSUME LockInv, [Next]_vars PROVE OneOperation' /\ SenderWaits'
    OBVIOUS
  <2> USE DEF Critical, Waiting, PCs
  <2>0. TInv
    BY DEF LockInv
  <2>1. ASSUME NEW w \in Workers, StartTake(w) PROVE OneOperation' /\ SenderWaits'
    <3>1. PICK op \in {"take", "test"} \cap Events, s \in Sessions :
            /\ job' = [job EXCEPT ![w] = [pc |-> "capture", op |-> op, sess |-> s,
                                         man |-> NewManifest(shots + 1)]]
            /\ Broadcast(w, "CAPTURE", s, shots + 1)
      BY <2>1 DEF StartTake
    <3>2. job'[w].pc = "capture" /\ \A x \in Workers \ {w} : job'[x] = job[x]
      BY <2>0, <3>1, NewJobPc
    <3>3. Acquire(w)
      BY <2>1 DEF StartTake
    <3>4. QED
      BY <3>1, <3>2, <3>3, LockSteps
  <2>2. ASSUME NEW w \in Workers, StartClearAll(w) PROVE OneOperation' /\ SenderWaits'
    <3>1. Acquire(w) /\ Broadcast(w, "CLEAR", AllSessions, 0)
      BY <2>2 DEF StartClearAll
    <3>2. job'[w].pc = "clear" /\ \A x \in Workers \ {w} : job'[x] = job[x]
      BY <2>0, <2>2, NewJobPc DEF StartClearAll
    <3>3. QED
      BY <3>1, <3>2, LockSteps
  <2>3. ASSUME NEW w \in Workers, AskRetry(w) \/ AskClear(w) \/ AskDelete(w)
        PROVE  OneOperation' /\ SenderWaits'
    <3>1. PICK op \in Operations, s \in Sessions, pc \in {"check", "ready"} : Ask(w, op, s, pc)
      BY <2>0, <2>3 DEF AskRetry, AskClear, AskDelete, TInv, TypeOK, Operations
    <3>2. QED
      BY <2>0, <3>1, NewJobPc, LockSteps DEF Ask
  <2>4. ASSUME NEW w \in Workers, CaptureDone(w) PROVE OneOperation' /\ SenderWaits'
    <3> DEFINE m == Mark(job[w].man, Yes(w), FALSE, FALSE)
    <3>1. job[w].pc = "capture" /\ UNCHANGED opLock
      BY <2>4 DEF CaptureDone
    <3>2. \/ Goto(w, "verify", m) /\ StopListening(w)
          \/ Goto(w, "upload", m) /\ Broadcast(w, "UPLOAD", job[w].sess, 0)
      BY <2>4 DEF CaptureDone
    <3> HIDE DEF m
    <3>3. CASE Goto(w, "verify", m) /\ StopListening(w)
      BY <2>0, <3>1, <3>3, GotoPc, LockSteps
    <3>4. CASE Goto(w, "upload", m) /\ Broadcast(w, "UPLOAD", job[w].sess, 0)
      BY <2>0, <3>1, <3>4, GotoPc, LockSteps
    <3>5. QED
      BY <3>2, <3>3, <3>4
  <2>5. ASSUME NEW w \in Workers, UploadDone(w) PROVE OneOperation' /\ SenderWaits'
    BY <2>0, <2>5, GotoPc, LockSteps DEF UploadDone
  <2>6. ASSUME NEW w \in Workers, Verify(w) PROVE OneOperation' /\ SenderWaits'
    BY <2>0, <2>6, GotoPc, LockSteps DEF Verify
  <2>7. ASSUME NEW w \in Workers, ClearDone(w) PROVE OneOperation' /\ SenderWaits'
    <3>1. CASE job[w].op = "clear-all"
      BY <2>0, <2>7, <3>1, FinishType, LockSteps DEF ClearDone
    <3>2. CASE job[w].op # "clear-all"
      BY <2>0, <2>7, <3>2, GotoPc, LockSteps DEF ClearDone
    <3>3. QED
      BY <3>1, <3>2
  <2>8. ASSUME NEW w \in Workers, WriteManifest(w) PROVE OneOperation' /\ SenderWaits'
    BY <2>0, <2>8, FinishType, LockSteps DEF WriteManifest
  <2>9. ASSUME NEW w \in Workers, CheckClear(w) PROVE OneOperation' /\ SenderWaits'
    <3>1. job[w].pc = "check" /\ UNCHANGED <<opLock, inbox>>
          /\ (Goto(w, "ready", job[w].man) \/ Finish(w))
      BY <2>9 DEF CheckClear
    <3>2. QED
      BY <2>0, <3>1, FinishType, GotoPc, LockSteps
  <2>10. ASSUME NEW w \in Workers, Busy(w) PROVE OneOperation' /\ SenderWaits'
    BY <2>0, <2>10, FinishType, LockSteps DEF Busy
  <2>11. ASSUME NEW w \in Workers, RunRetry(w) PROVE OneOperation' /\ SenderWaits'
    BY <2>0, <2>11, GotoPc, LockSteps DEF RunRetry
  <2>12. ASSUME NEW w \in Workers, RunClear(w) PROVE OneOperation' /\ SenderWaits'
    BY <2>0, <2>12, GotoPc, LockSteps DEF RunClear
  <2>13. ASSUME NEW w \in Workers, RunDelete(w) PROVE OneOperation' /\ SenderWaits'
    BY <2>0, <2>13, GotoPc, LockSteps DEF RunDelete
  <2>14. ASSUME NEW w \in Workers, DeleteDir(w) \/ DeleteFails(w)
         PROVE  OneOperation' /\ SenderWaits'
    BY <2>0, <2>14, FinishType, LockSteps DEF DeleteDir, DeleteFails
  <2>15. ASSUME NEW w \in Workers, Fail(w) PROVE OneOperation' /\ SenderWaits'
    <3>1. CASE opLock = w
      <4>1. job[w].pc \in Critical
        BY <3>1 DEF LockInv, OneOperation
      <4>2. QED
        BY <2>0, <2>15, <3>1, <4>1, FinishType, LockSteps DEF Fail
    <3>2. CASE opLock # w
      <4>1. job[w].pc \notin Critical
        BY <3>2 DEF LockInv, OneOperation
      <4>2. QED
        BY <2>0, <2>15, <3>2, <4>1, FinishType, LockSteps DEF Fail
    <3>3. QED
      BY <3>1, <3>2
  <2>16. ASSUME NEW p \in Pis, Pi(p) PROVE OneOperation' /\ SenderWaits'
    <3>1. UNCHANGED <<opLock, job>> /\ \A q \in Pis : inbox'[q] \subseteq inbox[q]
      BY <2>16, AnswerSender DEF Pi, PiCapture, PiUpload, PiClear
    <3>2. QED
      BY <3>1 DEF LockInv, OneOperation, SenderWaits
  <2>17. CASE Damage \/ UNCHANGED vars
    BY <2>17 DEF Damage, vars, LockInv, OneOperation, SenderWaits
  <2>18. QED
    BY <2>1, <2>2, <2>3, <2>4, <2>5, <2>6, <2>7, <2>8, <2>9, <2>10, <2>11, <2>12,
       <2>13, <2>14, <2>15, <2>16, <2>17
    DEF Next, Request, Progress
<1>3. QED
  BY <1>1, <1>2

LEMMA LockInvariant == Spec => []LockInv
<1>1. Init => LockInv
  BY TypesInductive, LockInductive DEF LockInv
<1>2. LockInv /\ [Next]_vars => LockInv'
  BY TypesInductive, LockInductive DEF LockInv
<1>3. QED
  BY <1>1, <1>2, PTL DEF Spec

\* Whatever the number of request threads and Pis, and whatever fails, at most
\* one request is inside an operation, and only its broadcast is listened to.
THEOREM Serialised == Spec => []OneOperation
<1>1. LockInv => OneOperation
  BY DEF LockInv
<1>2. QED
  BY <1>1, LockInvariant, PTL

=============================================================================
