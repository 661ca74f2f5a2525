--------------------------- MODULE RigCustodyProofs ---------------------------
(* The rig implements FrameCustody, for any number of Pis and sessions and   *)
(* any mix of operations, faults and damage of the share, with one request   *)
(* thread, every Pi on time and as many Pis expected as there are.           *)
EXTENDS RigCustody, RigSessionsSoloProofs

AbstractVars == <<OnPi, OnShare, Released>>

-----------------------------------------------------------------------------
(* The state functions of the mapping *)

LEMMA WholeFrame ==
    /\ \A f \in Frame : Whole(f) \in (1 .. MaxShots) \cup {Absent}
    /\ \A f : f \notin Blank => Whole(f) = f
    /\ \A f \in Blank : Whole(f) = Absent
BY BoundsAssumption DEF Whole, Frame, Absent, Damaged, Blank

Releases == Pis \X (Sessions \cup {AllSessions})

\* Some command of the set is a CLEAR of s.
Asked(commands, s) == \E c \in commands : c.msg = "CLEAR" /\ c.sess = s

LEMMA ReleasedWhere ==
    /\ Released \subseteq Releases /\ Released' \subseteq Releases
    /\ \A r \in Releases : r \in Released <=> Asked(inbox[r[1]], r[2])
    /\ \A r \in Releases : r \in Released' <=> Asked(inbox'[r[1]], r[2])
BY DEF Released, Releases, Asked

LEMMA SameReleases ==
    ASSUME \A p \in Pis, s \in Sessions \cup {AllSessions} :
             Asked(inbox'[p], s) <=> Asked(inbox[p], s)
    PROVE  Released' = Released
<1>1. \A r \in Releases : r[1] \in Pis /\ r[2] \in Sessions \cup {AllSessions}
  BY DEF Releases
<1>2. \A r \in Releases : r \in Released' <=> r \in Released
  BY <1>1, ReleasedWhere
<1>3. QED
  BY <1>2, ReleasedWhere

\* Only the commands' names and sessions count, not who waits for them.
LEMMA AbandonedAsks ==
    ASSUME NEW w, NEW p, NEW s
    PROVE  Asked(Abandoned(w, p), s) <=> Asked(inbox[p], s)
<1> DEFINE left(c) == [msg |-> c.msg, sess |-> c.sess, shot |-> c.shot,
                       by |-> IF c.by = w THEN NoWorker ELSE c.by]
<1>1. Abandoned(w, p) = {left(c) : c \in inbox[p]}
  BY DEF Abandoned
<1>2. \A c : left(c).msg = c.msg /\ left(c).sess = c.sess
  OBVIOUS
<1> HIDE DEF left
<1>3. QED
  BY <1>1, <1>2 DEF Asked

LEMMA ReleasedByAbandoned ==
    ASSUME NEW w \in Workers, StopListening(w) PROVE Released' = Released
<1>1. \A p \in Pis : inbox'[p] = Abandoned(w, p)
  BY DEF StopListening
<1>2. QED
  BY <1>1, AbandonedAsks, SameReleases

\* A broadcast of CLEAR asks the Pis it reaches; no other broadcast does.
LEMMA ReleasedByBroadcast ==
    ASSUME NEW w \in Workers, NEW msg, NEW s \in Sessions \cup {AllSessions}, NEW k,
           Broadcast(w, msg, s, k)
    PROVE  IF msg = "CLEAR"
             THEN \E ps \in SUBSET Pis : Released' = Released \cup (ps \X {s})
             ELSE Released' = Released
<1> DEFINE new == [msg |-> msg, sess |-> s, shot |-> k, by |-> w]
<1>1. PICK delivered \in SUBSET Pis :
        inbox' = [p \in Pis |-> Abandoned(w, p) \cup (IF p \in delivered THEN {new} ELSE {})]
  BY DEF Broadcast
<1>2. new.msg = msg /\ new.sess = s
  OBVIOUS
<1> HIDE DEF new
<1>3. ASSUME NEW p \in Pis, NEW t
      PROVE  Asked(inbox'[p], t)
               <=> Asked(inbox[p], t) \/ (p \in delivered /\ msg = "CLEAR" /\ t = s)
  <2>1. inbox'[p] = Abandoned(w, p) \cup (IF p \in delivered THEN {new} ELSE {})
    BY <1>1
  <2>2. Asked(inbox'[p], t)
          <=> Asked(Abandoned(w, p), t) \/ (p \in delivered /\ msg = "CLEAR" /\ t = s)
    BY <1>2, <2>1 DEF Asked
  <2>3. QED
    BY <2>2, AbandonedAsks
<1>4. CASE msg = "CLEAR"
  <2>1. \A r \in Releases : r[1] \in Pis /\ r[2] \in Sessions \cup {AllSessions}
    BY DEF Releases
  <2>2. \A r \in Releases : r \in delivered \X {s} <=> r[1] \in delivered /\ r[2] = s
    BY DEF Releases
  <2>3. \A r \in Releases : r \in Released' <=> r \in Released \cup (delivered \X {s})
    BY <1>3, <1>4, <2>1, <2>2, ReleasedWhere
  <2>4. delivered \X {s} \subseteq Releases
    BY DEF Releases
  <2>5. Released' = Released \cup (delivered \X {s})
    BY <2>3, <2>4, ReleasedWhere
  <2>6. QED
    BY <1>4, <2>5
<1>5. CASE msg # "CLEAR"
  BY <1>3, <1>5, SameReleases
<1>6. QED
  BY <1>4, <1>5

LEMMA ReleasedByCarried ==
    ASSUME TInv, NEW q \in Pis, NEW c \in inbox[q], Carried(q, c)
    PROVE  IF c.msg = "CLEAR"
             THEN /\ <<q, c.sess>> \in Released
                  /\ Released' \in {Released, Released \ {<<q, c.sess>>}}
             ELSE Released' = Released
<1>1. ASSUME NEW p \in Pis, NEW s, p # q \/ s # c.sess \/ c.msg # "CLEAR"
      PROVE  Asked(inbox'[p], s) <=> Asked(inbox[p], s)
  BY <1>1 DEF Carried, Asked
<1>2. CASE c.msg # "CLEAR"
  BY <1>1, <1>2, SameReleases
<1>3. CASE c.msg = "CLEAR"
  <2>1. c.sess \in Sessions \cup {AllSessions}
    <3>1. c.sess \in 0 .. MaxTake
      BY DEF TInv, TypeOK, Command
    <3>2. QED
      BY <3>1, BoundsAssumption DEF Sessions, AllSessions
  <2> DEFINE gone == <<q, c.sess>>
  <2>2. gone \in Releases /\ gone[1] = q /\ gone[2] = c.sess
    BY <2>1 DEF Releases
  <2>3. Asked(inbox[q], c.sess)
    BY <1>3 DEF Asked
  <2>4. \A r \in Releases : r[1] \in Pis /\ (r # gone => r[1] # q \/ r[2] # c.sess)
    BY DEF Releases
  <2> HIDE DEF gone
  <2>5. gone \in Released
    BY <2>2, <2>3, ReleasedWhere
  <2>6. \A r \in Releases \ {gone} : r \in Released' <=> r \in Released
    BY <1>1, <2>4, ReleasedWhere
  <2>7. Released' \in {Released, Released \ {gone}}
    BY <2>5, <2>6, ReleasedWhere
  <2>8. QED
    BY <1>3, <2>5, <2>7 DEF gone
<1>4. QED
  BY <1>2, <1>3

\* One frame changes, and its image with it.
LEMMA OnPiSet ==
    ASSUME NEW q \in Pis, NEW s \in Sessions, NEW f,
           \A p \in Pis, t \in Sessions :
              file'[p][t] = IF p = q /\ t = s THEN f ELSE file[p][t]
    PROVE  OnPi' = [OnPi EXCEPT ![q][s] = Whole(f)]
<1>1. OnPi' = [p \in Pis |-> [t \in Sessions |-> Whole(file'[p][t])]]
  BY DEF OnPi
<1>2. OnPi' = [p \in Pis |-> [t \in Sessions |->
                 IF p = q /\ t = s THEN Whole(f) ELSE Whole(file[p][t])]]
  BY <1>1
<1>3. QED
  BY <1>2 DEF OnPi

LEMMA OnShareSet ==
    ASSUME NEW q \in Pis, NEW s \in Sessions, NEW f,
           \A p \in Pis, t \in Sessions :
              share'[t][p] = IF p = q /\ t = s THEN f ELSE share[t][p]
    PROVE  OnShare' = [OnShare EXCEPT ![s][q] = Whole(f)]
<1>1. OnShare' = [t \in Sessions |-> [p \in Pis |-> Whole(share'[t][p])]]
  BY DEF OnShare
<1>2. OnShare' = [t \in Sessions |-> [p \in Pis |->
                    IF p = q /\ t = s THEN Whole(f) ELSE Whole(share[t][p])]]
  BY <1>1
<1>3. QED
  BY <1>2 DEF OnShare

-----------------------------------------------------------------------------
(* Every step of the rig is one of FrameCustody, or none *)

LEMMA RigStarts == Init => Frames!Init
BY BoundsAssumption DEF Init, Frames!Init, OnPi, OnShare, Released, Whole, Blank

\* The CLEAR of a session goes out over frames that are on the share.
LEMMA ReleaseStep ==
    ASSUME SoloInv, NEW w \in Workers, NEW s \in Sessions, Broadcast(w, "CLEAR", s, 0),
           file' = file, share' = share,
           \A p \in Pis : file[p][s] \notin Blank => share[s][p] = file[p][s]
    PROVE  Frames!Next
<1>1. PICK ps \in SUBSET Pis : Released' = Released \cup (ps \X {s})
  BY ReleasedByBroadcast
<1>2. OnPi' = OnPi /\ OnShare' = OnShare
  BY DEF OnPi, OnShare
<1>3. \A p \in Pis : Frames!Backed(p, s)
  BY WholeFrame DEF Frames!Backed, OnPi, OnShare
<1>4. Frames!Release(ps, s)
  BY <1>1, <1>2, <1>3 DEF Frames!Release
<1>5. QED
  BY <1>4 DEF Frames!Next

LEMMA ForgetStep ==
    ASSUME NEW s \in Sessions, file' = file, Released' = Released,
           \A p \in Pis, t \in Sessions :
              share'[t][p] = share[t][p] \/ (t = s /\ share'[t][p] \in Blank)
    PROVE  Frames!Next
<1> DEFINE ps == {p \in Pis : share'[s][p] \in Blank}
<1>1. OnPi' = OnPi
  BY DEF OnPi
<1>2. \A p \in Pis, t \in Sessions :
        Whole(share'[t][p]) = IF t = s /\ p \in ps THEN Absent ELSE Whole(share[t][p])
  BY WholeFrame
<1>3. OnShare' = [OnShare EXCEPT ![s] = [p \in Pis |-> IF p \in ps THEN Absent ELSE OnShare[s][p]]]
  <2> HIDE DEF ps
  <2>1. QED
    BY <1>2 DEF OnShare
<1>4. Frames!Forget(s)
  BY <1>1, <1>3 DEF Frames!Forget
<1>5. QED
  BY <1>4 DEF Frames!Next

LEMMA WorkerSteps ==
    ASSUME SoloInv, Expected = Cardinality(Pis), NEW w \in Workers, WorkerStep(w)
    PROVE  Frames!Next \/ UNCHANGED AbstractVars
<1>0. LockInv /\ TInv /\ file' = file
  BY WorkerFrames DEF SoloInv, CustodyInv, LockInv
<1>1. ASSUME share' = share, Released' = Released PROVE UNCHANGED AbstractVars
  BY <1>0, <1>1 DEF AbstractVars, OnPi, OnShare
<1>2. CASE StartTake(w)
  <2>1. /\ share' = share
        /\ \E s \in Sessions : Broadcast(w, "CAPTURE", s, shots + 1)
    BY <1>2 DEF StartTake, shareVars
  <2>2. QED
    BY <1>1, <2>1, ReleasedByBroadcast
<1>3. CASE StartClearAll(w)
  <2>1. Broadcast(w, "CLEAR", AllSessions, 0) /\ share' = share
    BY <1>3 DEF StartClearAll, shareVars
  <2>2. PICK ps \in SUBSET Pis : Released' = Released \cup (ps \X {AllSessions})
    BY <2>1, ReleasedByBroadcast
  <2>3. OnPi' = OnPi /\ OnShare' = OnShare
    BY <1>0, <2>1 DEF OnPi, OnShare
  <2>4. Frames!ReleaseAll(ps)
    BY <2>2, <2>3 DEF Frames!ReleaseAll
  <2>5. QED
    BY <2>4 DEF Frames!Next
<1>4. CASE CaptureDone(w) \/ RunRetry(w)
  <2>1. job[w].sess \in Sessions
    BY <1>0, <1>4 DEF CaptureDone, RunRetry, TInv, Sited
  <2>2. share' = share /\ (StopListening(w) \/ Broadcast(w, "UPLOAD", job[w].sess, 0))
    BY <1>4 DEF CaptureDone, RunRetry, shareVars
  <2>3. CASE StopListening(w)
    BY <1>1, <2>2, <2>3, ReleasedByAbandoned
  <2>4. CASE Broadcast(w, "UPLOAD", job[w].sess, 0)
    <3>1. Released' = Released
      BY <2>1, <2>4, ReleasedByBroadcast
    <3>2. QED
      BY <1>1, <2>2, <3>1
  <2>5. QED
    BY <2>2, <2>3, <2>4
<1>5. CASE Verify(w)
  <2>1. job[w].sess \in Sessions /\ share' = share
    BY <1>0, <1>5 DEF Verify, TInv, Sited, shareVars
  <2>2. CASE inbox' = inbox
    BY <1>1, <2>1, <2>2 DEF Released
  <2>3. CASE /\ Verified(job[w].sess, job[w].man.captured) /\ job[w].op = "test"
             /\ Broadcast(w, "CLEAR", job[w].sess, 0)
    <3>1. /\ job[w].man.captured = Pis
          /\ \A p \in Pis : share[job[w].sess][p] \notin Blank
      <4>1. job[w].man.captured \subseteq Pis
        BY <1>0, JobManType DEF Manifest
      <4>2. QED
        BY <2>3, <4>1, PisAssumption, FS_Subset DEF Verified, Blank
    <3>2. QED
      BY <1>0, <2>1, <2>3, <3>1, ReleaseStep DEF SoloInv, Agree
  <2>4. QED
    BY <1>5, <2>2, <2>3 DEF Verify
<1>6. CASE RunClear(w)
  <2>1. /\ job[w].pc = "ready" /\ job[w].op = "clear" /\ share' = share
        /\ Broadcast(w, "CLEAR", job[w].sess, 0)
    BY <1>6 DEF RunClear, shareVars
  <2>2. job[w].sess \in Sessions
    BY <1>0, <2>1 DEF TInv, Sited
  <2>3. \A p \in Pis : share[job[w].sess][p] \notin Blank
    BY <2>1 DEF SoloInv, ClearSeen
  <2>4. QED
    BY <1>0, <2>1, <2>2, <2>3, ReleaseStep DEF SoloInv, Agree
<1>7. CASE DeleteDir(w) \/ DeleteFails(w)
  <2>1. job[w].sess \in Sessions /\ Released' = Released
    BY <1>0, <1>7 DEF DeleteDir, DeleteFails, TInv, Sited, Released
  <2>2. \A p \in Pis, t \in Sessions \ {job[w].sess} : share'[t][p] = share[t][p]
    <3>1. \E left : share' = [share EXCEPT ![job[w].sess] = left]
      BY <1>7 DEF DeleteDir, DeleteFails
    <3>2. QED
      BY <1>0, <3>1 DEF TInv, TypeOK
  <2>3. QED
    BY <1>0, <2>1, <2>2, ForgetStep, WorkerFrames DEF Blank
<1>8. CASE UploadDone(w) \/ ClearDone(w) \/ Fail(w)
  BY <1>1, <1>8, ReleasedByAbandoned DEF UploadDone, ClearDone, Fail, shareVars
<1>9. CASE AskRetry(w) \/ AskClear(w) \/ AskDelete(w) \/ WriteManifest(w) \/ CheckClear(w)
           \/ Busy(w) \/ RunDelete(w)
  <2>1. share' = share /\ inbox' = inbox
    BY <1>9 DEF AskRetry, AskClear, AskDelete, Ask, WriteManifest, CheckClear, Busy, RunDelete,
       Save, shareVars
  <2>2. QED
    BY <1>1, <2>1 DEF Released
<1>10. QED
  BY <1>2, <1>3, <1>4, <1>5, <1>6, <1>7, <1>8, <1>9 DEF WorkerStep, Request, Progress

LEMMA PiSteps ==
    ASSUME SoloInv, NEW q \in Pis, Pi(q) PROVE Frames!Next \/ UNCHANGED AbstractVars
<1>0. TInv
  BY DEF SoloInv, CustodyInv, LockInv
<1>1. CASE PiCapture(q)
  <2>1. PICK c \in inbox[q], f \in Frame : Captures(q, c, f)
    BY <1>0, <1>1, CaptureEffect
  <2>2. Released' = Released
    BY <1>0, <2>1, ReleasedByCarried DEF Captures
  <2>3. OnShare' = OnShare
    BY <2>1 DEF Captures, OnShare
  <2>4. OnPi' = [OnPi EXCEPT ![q][c.sess] = Whole(f)]
    <3>1. /\ c.sess \in Sessions
          /\ \A p \in Pis, t \in Sessions :
               file'[p][t] = IF p = q /\ t = c.sess THEN f ELSE file[p][t]
      BY <2>1 DEF Captures
    <3>2. QED
      BY <3>1, OnPiSet
  <2>5. c.sess \in Sessions /\ Whole(f) \in (1 .. MaxShots) \cup {Absent}
    BY <2>1, WholeFrame DEF Captures
  <2>6. Frames!Expose(q, c.sess)
    BY <2>2, <2>3, <2>4, <2>5 DEF Frames!Expose
  <2>7. QED
    BY <2>5, <2>6 DEF Frames!Next
<1>2. CASE PiUpload(q)
  <2>1. PICK c \in inbox[q], f \in Frame : Pushes(q, c, f)
    BY <1>0, <1>2, UploadEffect
  <2>2. Released' = Released /\ c.sess \in Sessions
    BY <1>0, <2>1, ReleasedByCarried DEF Pushes
  <2>3. OnPi' = OnPi
    BY <2>1 DEF Pushes, OnPi
  <2>4. OnShare' = [OnShare EXCEPT ![c.sess][q] = Whole(f)]
    BY <2>1, OnShareSet DEF Pushes
  <2>5. CASE f = share[c.sess][q]
    <3>1. \A p \in Pis, s \in Sessions : share'[s][p] = share[s][p]
      BY <2>1, <2>5 DEF Pushes
    <3>2. OnShare' = OnShare
      BY <3>1 DEF OnShare
    <3>3. QED
      BY <2>2, <2>3, <3>2 DEF AbstractVars
  <2>6. CASE f \in {file[q][c.sess], Damaged}
    <3>1. Whole(f) \in {OnPi[q][c.sess], Absent}
      BY <2>2, <2>6, WholeFrame DEF OnPi, Blank
    <3>2. Frames!Push(q, c.sess)
      BY <2>2, <2>3, <2>4, <3>1 DEF Frames!Push
    <3>3. QED
      BY <2>2, <3>2 DEF Frames!Next
  <2>7. QED
    BY <2>1, <2>5, <2>6 DEF Pushes
<1>3. CASE PiClear(q)
  <2>1. PICK c \in inbox[q], stuck \in SUBSET Sessions : Wipes(q, c, stuck)
    BY <1>0, <1>3, ClearEffect
  <2>2. /\ <<q, c.sess>> \in Released
        /\ Released' \in {Released, Released \ {<<q, c.sess>>}}
    BY <1>0, <2>1, ReleasedByCarried DEF Wipes
  <2>3. c.sess \in Sessions \cup {AllSessions}
    BY <2>2 DEF Released
  <2>4. OnShare' = OnShare
    BY <2>1 DEF Wipes, OnShare
  <2>5. OnPi' = [OnPi EXCEPT ![q] =
                   [x \in Sessions |-> IF c.sess \in {x, AllSessions} /\ x \notin stuck
                                         THEN Absent ELSE OnPi[q][x]]]
    <3>1. OnPi' = [p \in Pis |-> [t \in Sessions |-> Whole(file'[p][t])]]
      BY DEF OnPi
    <3>2. OnPi' = [p \in Pis |-> [t \in Sessions |->
                     IF p = q /\ c.sess \in {t, AllSessions} /\ t \notin stuck
                       THEN Absent ELSE Whole(file[p][t])]]
      BY <2>1, <3>1, WholeFrame DEF Wipes, Blank
    <3>3. QED
      BY <3>2 DEF OnPi
  <2>6. Frames!Wipe(q)
    BY <2>2, <2>3, <2>4, <2>5 DEF Frames!Wipe
  <2>7. QED
    BY <2>6 DEF Frames!Next
<1>4. QED
  BY <1>1, <1>2, <1>3 DEF Pi

LEMMA DamageStep ==
    ASSUME SoloInv, Damage PROVE Frames!Next
<1>0. TInv
  BY DEF SoloInv, CustodyInv, LockInv
<1>1. PICK s \in Sessions, p \in Pis, left \in {Absent, Damaged} :
        share' = [share EXCEPT ![s][p] = left]
  BY DEF Damage
<1>2. \A q \in Pis, t \in Sessions :
        share'[t][q] = IF q = p /\ t = s THEN left ELSE share[t][q]
  BY <1>0, <1>1, ShareSet, FrameType
<1>3. file' = file /\ Released' = Released
  BY DEF Damage, Released
<1>4. QED
  BY <1>2, <1>3, ForgetStep DEF Blank

LEMMA RigRefines ==
    ASSUME SoloInv, Expected = Cardinality(Pis), [Next]_vars
    PROVE  [Frames!Next]_AbstractVars
<1>1. CASE UNCHANGED vars
  BY <1>1 DEF vars, AbstractVars, OnPi, OnShare, Released
<1>2. CASE Next
  BY <1>2, WorkerSteps, PiSteps, DamageStep DEF Next, WorkerStep
<1>3. QED
  BY <1>1, <1>2

\* With one request at a time the rig keeps what FrameCustody promises: a Pi
\* loses a whole frame only to a release, and a session is released only over
\* frames whose very exposure the share holds.  The manifests, the lock, the
\* broadcasts and their deadlines are how it does so, when no Pi misses a
\* deadline and the config expects the Pis there are (gui.py:1150-1192 and
\* 1069-1077, picam_node.py:714-754).
THEOREM RigKeepsCustody ==
    ASSUME LatePis = {}, Expected = Cardinality(Pis), OneThread
    PROVE  Spec => Custody
<1>1. /\ Init => SoloInv
      /\ SoloInv /\ [Next]_vars => SoloInv'
  BY SoloInvariant
<1>2. Init => Frames!Init
  BY RigStarts
<1>3. SoloInv /\ [Next]_vars => [Frames!Next]_(Frames!vars)
  BY RigRefines DEF AbstractVars, Frames!vars
<1>4. QED
  BY <1>1, <1>2, <1>3, PTL DEF Spec, Custody, Frames!Spec

=============================================================================
