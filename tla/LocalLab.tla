------------------------------- MODULE LocalLab -----------------------------
(***************************************************************************)
(* The laptop lab of live sources (white_goods/live/local_lab.py): one     *)
(* operator runs it again and again; a run locks images, starts a compose  *)
(* project of fixed name on them, seeds it, checks it, takes it down and   *)
(* writes two files, which the readiness certifier compares with its       *)
(* campaign (certify_phase7_readiness.py).  A run may be killed anywhere,  *)
(* docker may fail anywhere, and the first and last "down" fail in silence.*)
(*                                                                         *)
(* Abstractions: of the four images only the service API's, which is built *)
(* here; an image is its label (digest of the sources) and the sources it  *)
(* was built from; of the seeding only the topic, which each seeding       *)
(* appends to; every other check passes or fails.  The docker context      *)
(* stays as checked, and no two runs overlap.                              *)
(***************************************************************************)
EXTENDS Naturals

CONSTANTS Texts,   \* contents of the service API's source files
          None

Images == [label : Texts, built : Texts]

VARIABLES
    files,      \* the source files
    tagged,     \* image that SERVICE_API_TAG names
    phase,      \* where the run is
    keep,       \* keep_running
    stamp,      \* digest of the sources that the run read
    lock,       \* images locked by the run
    stack,      \* the compose project: its images, and how often the topic was seeded
    report,     \* report of the run, with what it was made from (history)
    lockFile, evidenceFile,  \* the two files written
    campaignFile,  \* images in the committed campaign
    quiet,      \* the run's first "down" failed and left a stack (history)
    moved       \* the tag was moved while the run had yet to lock it (history)

project == <<files, tagged, stack>>
papers == <<lockFile, evidenceFile, campaignFile>>
run == <<keep, stamp, lock, report, quiet, moved>>
localvars == <<project, papers, phase, run>>

LocalInit ==
    /\ files \in Texts
    /\ tagged = None /\ stack = None
    /\ lockFile = None /\ evidenceFile = None /\ campaignFile = None
    /\ phase = "idle" /\ keep = FALSE /\ stamp = None /\ lock = None /\ report = None
    /\ quiet = FALSE /\ moved = FALSE

\* The frame of a run is gone once it has returned, raised or been killed.
RunEnds ==
    /\ phase' = "idle" /\ keep' = FALSE /\ stamp' = None /\ lock' = None
    /\ report' = None /\ quiet' = FALSE /\ moved' = FALSE

StartRun(k) ==
    /\ phase = "idle"
    /\ phase' = "stamping" /\ keep' = k
    /\ UNCHANGED <<project, papers, stamp, lock, report, quiet, moved>>

\* A tag without the label, or of other sources, is built again; a broken variant reuses
\* any.
CachedTag(text) == tagged # None
Cached(text) == tagged # None /\ tagged.label = text

StampSources ==
    /\ phase = "stamping"
    /\ stamp' = files
    /\ phase' = IF Cached(files) THEN "locking" ELSE "building"
    /\ UNCHANGED <<project, papers, keep, lock, report, quiet, moved>>

BuildService ==
    /\ phase = "building"
    /\ tagged' = [label |-> stamp, built |-> files]
    /\ phase' = "locking"
    /\ UNCHANGED <<files, stack, papers, run>>

LockImages ==
    /\ phase = "locking"
    /\ lock' = tagged
    /\ phase' = "clearing"
    /\ UNCHANGED <<project, papers, keep, stamp, report, quiet, moved>>

\* "down" with check=False: what it leaves, nobody looks at.
ClearStack ==
    /\ phase = "clearing"
    /\ \/ stack' = None /\ quiet' = FALSE
       \/ stack' = stack /\ quiet' = (stack # None)
    /\ phase' = "starting"
    /\ UNCHANGED <<files, tagged, papers, keep, stamp, lock, report, moved>>

\* Containers on the locked images; those of other images are replaced, and a broker
\* replaced may or may not keep its volume.
StackOn(image) ==
    {[image |-> image, seeded |-> n] : n \in {0} \cup (IF stack = None THEN {} ELSE {stack.seeded})}

StartStack ==
    /\ phase = "starting"
    /\ stack' \in StackOn(lock)
    /\ phase' = "seeding"
    /\ UNCHANGED <<files, tagged, papers, run>>

\* Creating the bucket and the topic may be repeated; producing may not.  Two stands
\* for more.
Seed ==
    /\ phase = "seeding"
    /\ stack' = [stack EXCEPT !.seeded = IF @ = 2 THEN 2 ELSE @ + 1]
    /\ phase' = "verifying"
    /\ UNCHANGED <<files, tagged, papers, run>>

\* The first nine events of the topic are counted, not all of them; the report names the
\* locked images.
Verify ==
    /\ phase = "verifying"
    /\ stack.seeded >= 1
    /\ report' = [image |-> lock, ran |-> stack.image, seeded |-> stack.seeded]
    /\ phase' = "ending"
    /\ UNCHANGED <<project, papers, keep, stamp, lock, quiet, moved>>

\* A command fails, having had its effect or not, or a check does: the run ends without
\* a report, by way of "finally" once the stack may be up.
CommandFails ==
    /\ \/ /\ phase \in {"stamping", "building", "locking", "clearing"}
          /\ RunEnds /\ UNCHANGED project
       \/ /\ phase \in {"starting", "seeding", "verifying"}
          /\ phase' = "ending"
          /\ UNCHANGED <<files, tagged, run>>
          /\ \/ UNCHANGED stack
             \/ phase = "starting" /\ stack' \in StackOn(lock)
             \/ phase = "seeding" /\ stack' = [stack EXCEPT !.seeded = IF @ = 2 THEN 2 ELSE @ + 1]
    /\ UNCHANGED <<papers>>

TakeDown ==
    /\ phase = "ending"
    /\ IF keep THEN UNCHANGED stack ELSE stack' \in {None, stack}
    /\ \/ report # None /\ phase' = "writing" /\ UNCHANGED run
       \/ (report = None \/ ~keep) /\ RunEnds   \* raised before, or "down" timed out
    /\ UNCHANGED <<files, tagged, papers>>

WriteLock ==
    /\ phase = "writing"
    /\ lockFile' = lock
    /\ phase' = "reporting"
    /\ UNCHANGED <<project, evidenceFile, campaignFile, run>>

WriteReport ==
    /\ phase = "reporting"
    /\ evidenceFile' = [image |-> report.image, ran |-> report.ran]
    /\ RunEnds
    /\ UNCHANGED <<project, lockFile, campaignFile>>

\* The process dies: no "finally", no further file.
Kill == phase # "idle" /\ RunEnds /\ UNCHANGED <<project, papers>>

EditSources(text) ==
    /\ text # files
    /\ files' = text
    /\ UNCHANGED <<tagged, stack, papers, phase, run>>

\* Another checkout of the repository builds its own sources under the same tag, at any
\* time; a run that has compared or built the tag locks what it names then.
BuildElsewhere(text) ==
    /\ tagged' = [label |-> text, built |-> text]
    /\ moved' = (moved \/ phase = "locking")
    /\ UNCHANGED <<files, stack, papers, phase, keep, stamp, lock, report, quiet>>

\* _source_targets(): what the evidence of the source lab says of its image.
TargetImage == evidenceFile.image

WriteCampaign ==
    /\ evidenceFile # None
    /\ campaignFile' = TargetImage
    /\ UNCHANGED <<project, lockFile, evidenceFile, phase, run>>

LocalNext ==
    \/ \E k \in BOOLEAN : StartRun(k)
    \/ StampSources \/ BuildService \/ LockImages
    \/ ClearStack \/ StartStack \/ Seed \/ Verify \/ CommandFails \/ TakeDown
    \/ WriteLock \/ WriteReport
    \/ Kill
    \/ \E text \in Texts : EditSources(text) \/ BuildElsewhere(text)
    \/ WriteCampaign

LocalSpec == LocalInit /\ [][LocalNext]_localvars

\* The checks of the certifier that concern the source lab.
SourcesCertified ==
    /\ lockFile # None /\ evidenceFile # None
    /\ lockFile = evidenceFile.image
    /\ campaignFile = TargetImage

-----------------------------------------------------------------------------
LocalTypeOK ==
    /\ files \in Texts /\ tagged \in Images \cup {None} /\ lock \in Images \cup {None}
    /\ stack \in [image : Images, seeded : 0..2] \cup {None}
    /\ lockFile \in Images \cup {None} /\ campaignFile \in Images \cup {None}
    /\ evidenceFile \in [image : Images, ran : Images] \cup {None}
    /\ phase \in {"idle", "stamping", "building", "locking", "clearing", "starting",
                  "seeding", "verifying", "ending", "writing", "reporting"}

\* What the certifier accepts as locked has run and been checked: whatever was killed
\* between the two files, rebuilt under the tag or left over from earlier runs
\* (certify_phase7_readiness.py:386, local_lab.py:411).
CertifiedImagesRan == SourcesCertified => evidenceFile.ran = lockFile

\* Whoever built it, the image that a run locks is labelled with the digest of the sources
\* that the run read, unless another checkout moved the tag between its comparison and its
\* inspection.  What it was built from may be later: sources edited between digest and
\* build stay under the label, for later runs as well (local_lab.py:109).
LockedFromSources == lock # None /\ ~moved => lock.label = stamp

\* A run that passes has checked a topic seeded once, whatever killed or kept runs before
\* it left behind, unless its first "down" failed, in silence, and left a stack whose
\* topic may be seeded once more (local_lab.py:386).
SeededOnce == report # None /\ ~quiet => report.seeded = 1
=============================================================================
