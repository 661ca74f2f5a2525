----------------------------- MODULE RigReports -----------------------------
(***************************************************************************)
(* What the GUI and the command line client compute from the answers to    *)
(* one broadcast: the verdict and the preflight's steps from PONGs, the    *)
(* triage of a take from CAPTUREDs and the share, the exposure of an       *)
(* autoconfigure from METEREDs.  Operators only.                           *)
(*                                                                         *)
(* Answers are functions on the cameras that answered.                     *)
(***************************************************************************)
EXTENDS Integers, FiniteSets, FiniteSetsExt, Functions

-----------------------------------------------------------------------------
(* The verdict of a sweep *)

\* Offsets are in tenths of a ms.
OffsetLimit == 50
MAX_CLOCK_OFFSET == 500
MinFree == 100      \* MB

\* chronyc tracking gave no offset.
NoOffset == -1

\* What a Pi can tell of its camera, its clock and its card.
Health == [camera : BOOLEAN, synced : BOOLEAN, offset : Int, free : Nat]

\* PONG's |offset_ms|: no offset goes out as -1.0.
Offset(h) == IF h.offset = NoOffset THEN 10 ELSE h.offset

\* Mutant: the last MB is spent.
LowDiskByOne(h) == h.free < MinFree - 1

LowDisk(h) == h.free < MinFree

\* A PONG carries reachable, its smb flag, and health.
Bad(pong) ==
    \/ ~ pong.reachable
    \/ ~ pong.health.camera
    \/ ~ pong.health.synced
    \/ Offset(pong.health) > OffsetLimit
    \/ LowDisk(pong.health)

NoGo(pongs, expected) ==
    \/ Cardinality(DOMAIN pongs) < expected
    \/ \E c \in DOMAIN pongs : Bad(pongs[c])

\* The gates of handle_capture that depend on what a PONG reports.
PassesGates(h) == h.offset # NoOffset /\ h.offset <= MAX_CLOCK_OFFSET /\ h.free >= MinFree

(* The preflight's first four steps, from the same sweep *)

Worst(pongs) == Max({0} \cup {Offset(pongs[c].health) : c \in DOMAIN pongs})

\* Mutant: the limit itself fails.
NtpFailsAtLimit(pongs) ==
    (\E c \in DOMAIN pongs : ~ pongs[c].health.synced) \/ Worst(pongs) >= OffsetLimit

NtpFails(pongs) ==
    (\E c \in DOMAIN pongs : ~ pongs[c].health.synced) \/ Worst(pongs) > OffsetLimit

PreflightPasses(pongs, expected) ==
    /\ Cardinality(DOMAIN pongs) = expected
    /\ ~ NtpFails(pongs)
    /\ \A c \in DOMAIN pongs : pongs[c].reachable /\ ~ LowDisk(pongs[c].health)

-----------------------------------------------------------------------------
(* The triage of a take: answers say "captured" or "error" *)

Captured(answers) == {c \in DOMAIN answers : answers[c] = "captured"}

\* Mutant: cameras of earlier takes are missed although the count is full.
MissingAlways(answers, known, expected) == known \ DOMAIN answers

Missing(answers, known, expected) ==
    IF Cardinality(DOMAIN answers) < expected THEN known \ DOMAIN answers ELSE {}

Shortfall(answers, expected) == Max({0, expected - Cardinality(DOMAIN answers)})

\* _verify: `whole` are the cameras with a whole JPEG on the share.
Verifies(answers, whole, expected) ==
    Captured(answers) \subseteq whole /\ Cardinality(Captured(answers)) = expected

\* The last lines of a take, and of an upload-retry, which finds expected,
\* missing, shortfall and errors in the take's manifest.
Triage(answers, known, whole, expected) ==
    IF \/ Missing(answers, known, expected) # {}
       \/ Captured(answers) # DOMAIN answers
       \/ Shortfall(answers, expected) > 0
      THEN "retake"
      ELSE IF Verifies(answers, whole, expected) THEN "ok" ELSE "retry_upload"

-----------------------------------------------------------------------------
(* The exposure of an autoconfigure *)

\* Python's round(total / n): the even neighbour at a half.
Rounded(total, n) ==
    LET floor == total \div n
        twice == 2 * (total % n)
    IN IF twice > n \/ (twice = n /\ floor % 2 = 1) THEN floor + 1 ELSE floor

Average(readings) == Rounded(SumFunction(readings), Cardinality(DOMAIN readings))

\* Mutant: only a rig that is too slow as a whole is clamped.
ExceedsAll(readings, cap) == \A c \in DOMAIN readings : readings[c] > cap

Exceeds(readings, cap) == SumFunction(readings) > cap * Cardinality(DOMAIN readings)

GuiExposure(readings, motionSafe, cap) ==
    IF motionSafe /\ Exceeds(readings, cap) THEN cap ELSE Average(readings)

\* --max-exposure-us, 0 for none.
CliExposure(readings, cap) ==
    IF cap # 0 /\ Exceeds(readings, cap) THEN cap ELSE Average(readings)

=============================================================================
