--------------------------- MODULE Boundary_proofs ---------------------------
(***************************************************************************)
(* Proofs about the remaining modules at the harness's edges, for any      *)
(* images, revisions, evidence, packages, datasets, audit events,          *)
(* collections and logs, and the theorems of Access_proofs and of this     *)
(* module put together for the composition that TLC checks.                *)
(*                                                                         *)
(* The arguments: a run records what it ran, and only what it locked or    *)
(* inspected; a report is about a document that nobody edits any more;     *)
(* what is signed decides what is in an accepted archive; an accepted      *)
(* chain is as appended, entry by entry; what waits at the end of a pass   *)
(* without progress waits for itself; a reader of pages has the first of   *)
(* what is asked for, up to its cursor; what a subscription has left is    *)
(* what lies beyond the event its consumer processed last; and a counter   *)
(* comes back to its depth at the end of what nests, and not before.       *)
(***************************************************************************)
EXTENDS MCBoundary, Access_proofs, Listing_proofs

-----------------------------------------------------------------------------
(* The laptop lab *)

AfterLock == {"clearing", "starting", "seeding", "verifying"}

\* What a run has in hand in each phase.
RunShape ==
    /\ quiet \in BOOLEAN /\ moved \in BOOLEAN
    /\ stamp \in Texts \/ phase \in {"idle", "stamping"}
    /\ phase \in AfterLock => lock \in Images
    /\ phase \in {"seeding", "verifying"} =>
          stack \in [image : Images, seeded : 0..2] /\ stack.image = lock
    /\ phase \in {"writing", "reporting"} => report # None
    /\ phase \in {"idle", "stamping", "building", "locking"} => lock = None
    /\ phase \notin {"ending", "writing", "reporting"} => report = None
    /\ report # None =>
          /\ report.image \in Images /\ report.ran = report.image /\ lock = report.image
          /\ report.seeded \in 0..2

\* A run is about to lock what it compared or built, unless the tag was moved meanwhile.
LabelsInv ==
    /\ phase = "locking" => tagged \in Images /\ (moved \/ tagged.label = stamp)
    /\ LockedFromSources

\* A stack that was cleared is seeded once.
SeedInv ==
    /\ phase = "starting" /\ ~ quiet => stack = None
    /\ phase = "seeding" /\ ~ quiet => stack.seeded = 0
    /\ phase = "verifying" /\ ~ quiet => stack.seeded = 1
    /\ SeededOnce

\* What is on file ran.
FilesInv == evidenceFile # None => evidenceFile.ran = evidenceFile.image

LocalInv == LocalTypeOK /\ RunShape /\ LabelsInv /\ SeedInv /\ FilesInv

LEMMA RunEndsKeeps ==
    ASSUME LocalInv, RunEnds, UNCHANGED papers, UNCHANGED <<files, tagged>>,
           stack' \in {stack, None}
    PROVE  LocalInv'
  BY DEF LocalInv, LocalTypeOK, RunShape, LabelsInv, SeedInv, FilesInv, RunEnds, papers,
         AfterLock, LockedFromSources, SeededOnce

LEMMA RunPrepares ==
    ASSUME LocalInv, (\E k \in BOOLEAN : StartRun(k)) \/ StampSources \/ BuildService
    PROVE  LocalInv'
  <1> USE DEF LocalInv, LocalTypeOK, RunShape, LabelsInv, SeedInv, FilesInv, papers, project,
              run, AfterLock, LockedFromSources, SeededOnce
  <1>1. CASE \E k \in BOOLEAN : StartRun(k)
    BY <1>1 DEF StartRun
  <1>2. CASE StampSources
    BY <1>2 DEF StampSources, Cached
  <1>3. CASE BuildService
    <2> DEFINE image == [label |-> stamp, built |-> files]
    <2>1. image \in Images /\ image.label = stamp /\ image.built = files
      BY <1>3 DEF BuildService, Images
    <2>2. tagged' = image /\ phase' = "locking"
          /\ UNCHANGED <<files, stack, papers, run>> /\ phase = "building"
      BY <1>3 DEF BuildService
    <2> HIDE DEF image
    <2> QED BY <2>1, <2>2
  <1> QED BY <1>1, <1>2, <1>3

LEMMA RunStarts ==
    ASSUME LocalInv, LockImages \/ ClearStack \/ StartStack
    PROVE  LocalInv'
  <1> USE DEF LocalInv, LocalTypeOK, RunShape, LabelsInv, SeedInv, FilesInv, papers, project,
              run, AfterLock, LockedFromSources, SeededOnce
  <1>1. CASE LockImages
    BY <1>1 DEF LockImages
  <1>2. CASE ClearStack
    BY <1>2 DEF ClearStack
  <1>3. CASE StartStack
    <2>1. PICK n \in {0} \cup (IF stack = None THEN {} ELSE {stack.seeded}) :
             stack' = [image |-> lock, seeded |-> n]
      BY <1>3 DEF StartStack, StackOn
    <2>2. n \in 0..2 /\ lock \in Images /\ (~ quiet => n = 0)
      BY <1>3, <2>1 DEF StartStack
    <2>3. stack' \in [image : Images, seeded : 0..2] /\ stack'.image = lock /\ stack'.seeded = n
      BY <2>1, <2>2
    <2> QED BY <1>3, <2>2, <2>3 DEF StartStack
  <1> QED BY <1>1, <1>2, <1>3

LEMMA RunChecks ==
    ASSUME LocalInv, Seed \/ Verify
    PROVE  LocalInv'
  <1> USE DEF LocalInv, LocalTypeOK, RunShape, LabelsInv, SeedInv, FilesInv, papers, project,
              run, AfterLock, LockedFromSources, SeededOnce
  <1>1. CASE Seed
    <2> DEFINE n == IF stack.seeded = 2 THEN 2 ELSE stack.seeded + 1
    <2>1. stack \in [image : Images, seeded : 0..2] /\ stack.image = lock
      BY <1>1 DEF Seed
    <2>2. stack' = [stack EXCEPT !.seeded = n]
      BY <1>1 DEF Seed
    <2>3. n \in 0..2 /\ (stack.seeded = 0 => n = 1)
      BY <2>1
    <2>4. stack' \in [image : Images, seeded : 0..2] /\ stack'.image = lock /\ stack'.seeded = n
      BY <2>1, <2>2, <2>3
    <2> HIDE DEF n
    <2> QED BY <1>1, <2>3, <2>4 DEF Seed
  <1>2. CASE Verify
    <2>1. /\ report'.image = lock /\ report'.ran = lock /\ report'.seeded = stack.seeded
          /\ lock \in Images /\ stack.seeded \in 0..2
      BY <1>2 DEF Verify
    <2> QED BY <1>2, <2>1 DEF Verify
  <1> QED BY <1>1, <1>2

LEMMA RunFinishes ==
    ASSUME LocalInv, CommandFails \/ TakeDown
    PROVE  LocalInv'
  <1> USE DEF LocalInv, LocalTypeOK, RunShape, LabelsInv, SeedInv, FilesInv, papers, project,
              run, AfterLock, LockedFromSources, SeededOnce
  <1>1. CASE CommandFails
    <2>1. CASE phase \in {"stamping", "building", "locking", "clearing"} /\ RunEnds /\ UNCHANGED project
               /\ UNCHANGED papers
      BY <2>1, RunEndsKeeps DEF project
    <2>2. CASE /\ phase \in {"starting", "seeding", "verifying"} /\ phase' = "ending"
               /\ UNCHANGED <<files, tagged, run, papers>>
               /\ stack' \in [image : Images, seeded : 0..2] \cup {None}
      BY <2>2
    <2>3. CASE phase = "starting" /\ stack' \in StackOn(lock)
      <3>1. StackOn(lock) \subseteq [image : Images, seeded : 0..2]
        BY <2>3 DEF StackOn
      <3> QED BY <2>2, <2>3, <3>1, <1>1 DEF CommandFails
    <2>4. CASE phase = "seeding" /\ stack' = [stack EXCEPT !.seeded = IF @ = 2 THEN 2 ELSE @ + 1]
      <3>1. stack \in [image : Images, seeded : 0..2]
        BY <2>4
      <3>2. stack' \in [image : Images, seeded : 0..2]
        BY <2>4, <3>1
      <3> QED BY <2>2, <2>4, <3>2, <1>1 DEF CommandFails
    <2> QED BY <1>1, <2>1, <2>2, <2>3, <2>4 DEF CommandFails
  <1>2. CASE TakeDown
    <2>1. CASE RunEnds
      BY <1>2, <2>1, RunEndsKeeps DEF TakeDown
    <2>2. CASE report # None /\ phase' = "writing" /\ UNCHANGED run
      BY <1>2, <2>2 DEF TakeDown
    <2> QED BY <1>2, <2>1, <2>2 DEF TakeDown
  <1> QED BY <1>1, <1>2

LEMMA RunWrites ==
    ASSUME LocalInv, WriteLock \/ WriteReport \/ WriteCampaign \/ Kill
    PROVE  LocalInv'
  <1> USE DEF LocalInv, LocalTypeOK, RunShape, LabelsInv, SeedInv, FilesInv, papers, project,
              run, AfterLock, LockedFromSources, SeededOnce
  <1>1. CASE WriteLock
    BY <1>1 DEF WriteLock
  <1>2. CASE WriteReport
    <2>1. /\ evidenceFile' \in [image : Images, ran : Images]
          /\ evidenceFile'.ran = evidenceFile'.image
      BY <1>2 DEF WriteReport
    <2> QED BY <1>2, <2>1 DEF WriteReport, RunEnds
  <1>3. CASE WriteCampaign
    BY <1>3 DEF WriteCampaign, TargetImage
  <1>4. CASE Kill
    BY <1>4, RunEndsKeeps DEF Kill
  <1> QED BY <1>1, <1>2, <1>3, <1>4

LEMMA OthersMeddle ==
    ASSUME LocalInv, NEW text \in Texts, EditSources(text) \/ BuildElsewhere(text)
    PROVE  LocalInv'
  <1> USE DEF LocalInv, LocalTypeOK, RunShape, LabelsInv, SeedInv, FilesInv, papers, project,
              run, AfterLock, LockedFromSources, SeededOnce
  <1>1. CASE EditSources(text)
    BY <1>1 DEF EditSources
  <1>2. CASE BuildElsewhere(text)
    <2> DEFINE image == [label |-> text, built |-> text]
    <2>1. image \in Images
      BY DEF Images
    <2>2. /\ tagged' = image
          /\ UNCHANGED <<files, stack, papers, phase, keep, stamp, lock, report, quiet>>
      BY <1>2 DEF BuildElsewhere
    <2>3. moved' \in BOOLEAN /\ (moved' <=> moved \/ phase = "locking")
      BY <1>2, Zenon DEF BuildElsewhere
    <2> HIDE DEF image
    <2> QED BY <2>1, <2>2, <2>3
  <1> QED BY <1>1, <1>2

LEMMA LocalInvHolds == LocalSpec => []LocalInv
  <1>1. LocalInit => LocalInv
    BY DEF LocalInit, LocalInv, LocalTypeOK, RunShape, LabelsInv, SeedInv, FilesInv,
           AfterLock, LockedFromSources, SeededOnce
  <1>2. LocalInv /\ [LocalNext]_localvars => LocalInv'
    <2> SUFFICES ASSUME LocalInv, [LocalNext]_localvars PROVE LocalInv'
      OBVIOUS
    <2>1. CASE UNCHANGED localvars
      BY <2>1 DEF localvars, project, papers, run, LocalInv, LocalTypeOK, RunShape, LabelsInv,
                  SeedInv, FilesInv, AfterLock, LockedFromSources, SeededOnce
    <2> QED BY <2>1, RunPrepares, RunStarts, RunChecks, RunFinishes, RunWrites, OthersMeddle
            DEF LocalNext
  <1> QED BY <1>1, <1>2, PTL DEF LocalSpec

\* THEOREM: what the certifier accepts as locked has run and been checked; a run locks an
\* image labelled with the sources it read, unless another checkout moved the tag meanwhile
\* (what the image was built from may be later); and it passes on a topic seeded once, unless
\* its first "down" failed and left a stack (local_lab.py).
THEOREM LocalLabCertified ==
    LocalSpec => [](CertifiedImagesRan /\ LockedFromSources /\ SeededOnce /\ LocalTypeOK)
  <1>1. LocalInv => CertifiedImagesRan /\ LockedFromSources /\ SeededOnce /\ LocalTypeOK
    BY DEF LocalInv, LabelsInv, SeedInv, FilesInv, CertifiedImagesRan, SourcesCertified
  <1> QED BY <1>1, LocalInvHolds, PTL

-----------------------------------------------------------------------------
(* The harness image *)

\* What a run has in hand is of its revision, unless the checkout changed under it.
HarnessInv ==
    /\ changed \in BOOLEAN /\ strays \in BOOLEAN
    /\ step = "clean" => changed \/ (tree = head /\ ~ strays)
    /\ step \in {"packing", "building"} => changed \/ (tree = revision /\ ~ strays)
    /\ step = "building" => changed \/ wheel = revision
    /\ step = "inspecting" /\ imageTag.revision = revision => changed \/ imageTag.built = revision
    /\ step = "probing" => changed \/ artifact.built = revision
    /\ evidenced # NoImage =>
          evidenced.torn \/ evidenced.digest.built = evidenced.revision

LEMMA HarnessStep ==
    ASSUME HarnessInv, [HarnessNext]_harnessvars
    PROVE  HarnessInv'
  <1> USE DEF HarnessInv, repository, records, build
  <1>0. CASE CheckClean
    BY <1>0 DEF CheckClean
  <1>1. CASE ReadRevision
    BY <1>1 DEF ReadRevision
  <1>2. CASE PackWheel
    BY <1>2 DEF PackWheel, Context
  <1>3. CASE BuildImage
    <2>1. /\ imageTag'.revision = revision
          /\ imageTag'.built = IF wheel = Context THEN wheel ELSE Edited
      BY <1>3 DEF BuildImage
    <2>2. step = "building" /\ step' = "inspecting" /\ UNCHANGED <<repository, build, records, changed>>
      BY <1>3 DEF BuildImage
    <2>3. changed \/ Context = revision
      BY <2>2 DEF Context
    <2> QED BY <2>1, <2>2, <2>3
  <1>4. CASE InspectImage
    BY <1>4 DEF InspectImage
  <1>5. CASE WriteEvidence
    <2>1. /\ evidenced'.torn = changed /\ evidenced'.digest = artifact
          /\ evidenced'.revision = revision
      BY <1>5 DEF WriteEvidence
    <2> QED BY <1>5, <2>1 DEF WriteEvidence, RunReturns
  <1>6. CASE RunStops
    BY <1>6 DEF RunStops, RunReturns
  <1>7. CASE \E r \in Commits, t \in Trees, u \in BOOLEAN : ChangeTree(r, t, u)
    BY <1>7 DEF ChangeTree
  <1>8. CASE \E r \in Commits : TagElsewhere(r)
    <2>1. PICK r \in Commits : TagElsewhere(r)
      BY <1>8
    <2>2. imageTag'.revision = r /\ imageTag'.built = r
      BY <2>1 DEF TagElsewhere
    <2> QED BY <2>1, <2>2 DEF TagElsewhere
  <1>9. CASE \E r \in Commits : WriteRelease(r)
    BY <1>9 DEF WriteRelease
  <1>10. CASE UNCHANGED harnessvars
    BY <1>10 DEF harnessvars
  <1> QED BY <1>0, <1>1, <1>2, <1>3, <1>4, <1>5, <1>6, <1>7, <1>8, <1>9, <1>10 DEF HarnessNext

LEMMA HarnessInvHolds == HarnessSpec => []HarnessInv
  <1>1. HarnessInit => HarnessInv
    BY DEF HarnessInit, HarnessInv
  <1> QED BY <1>1, HarnessStep, PTL DEF HarnessSpec

\* THEOREM: a certified harness image holds what the released revision committed, unless the
\* checkout held untracked files or changed from the look at it to the end of the build
\* (harness_runtime_lab.py).
THEOREM HarnessCommitted == HarnessSpec => []CertifiedIsCommitted
  <1>1. HarnessInv => CertifiedIsCommitted
    BY DEF HarnessInv, CertifiedIsCommitted, HarnessCertified
  <1> QED BY <1>1, HarnessInvHolds, PTL

-----------------------------------------------------------------------------
(* Promotion *)

Pieces == [kind : EvidenceKinds, status : Statuses]

LEMMA EvidenceTyped == PromotionSpec => [](evidence \in Seq(Pieces))
  <1>1. PromotionInit => evidence \in Seq(Pieces)
    BY DEF PromotionInit, PromotionStarts
  <1>2. evidence \in Seq(Pieces) /\ [PromotionNext]_promotionvars => (evidence \in Seq(Pieces))'
    <2> SUFFICES ASSUME evidence \in Seq(Pieces), [PromotionNext]_promotionvars
                 PROVE  evidence' \in Seq(Pieces)
      OBVIOUS
    <2>1. CASE PromotionNext
      <3>1. PICK k \in EvidenceKinds, s \in Statuses : AddEvidence(k, s)
        BY <2>1 DEF PromotionNext
      <3>2. [kind |-> k, status |-> s] \in Pieces
        BY DEF Pieces
      <3> QED BY <3>1, <3>2, AppendProperties DEF AddEvidence
    <2>2. CASE UNCHANGED promotionvars
      BY <2>2 DEF promotionvars
    <2> QED BY <2>1, <2>2
  <1> QED BY <1>1, <1>2, PTL DEF PromotionSpec

\* The piece that stands for a kind is the last of its kind.
LEMMA ReadyIsPassed ==
    ASSUME evidence \in Seq(Pieces), Ready
    PROVE  NoLaterFailureHidden
  <1>1. ASSUME NEW k \in EvidenceKinds
        PROVE  \E i \in PiecesOf(k) : evidence[i].status = "passed" /\ \A j \in PiecesOf(k) : j <= i
    <2>1. PICK d \in Standing(k) : d.status # "missing"
      BY DEF Ready, MissingKinds
    <2>2. d.status # "failed"
      BY <2>1 DEF Ready, FailedKinds
    <2>3. PICK i \in PiecesOf(k) : d = evidence[i] /\ \A j \in PiecesOf(k) : j <= i
      BY DEF Standing
    <2>4. evidence[i] \in Pieces
      BY <2>3, ElementOfSeq DEF PiecesOf
    <2> QED BY <2>1, <2>2, <2>3, <2>4 DEF Pieces, Statuses
  <1>2. ASSUME NEW d \in Entries, \E i \in DOMAIN matrix : matrix[i] = d
        PROVE  d.compatible
    BY <1>2 DEF Ready, Compatible
  <1> QED BY <1>1, <1>2 DEF NoLaterFailureHidden

\* THEOREM: readiness needs of every kind of evidence a pass that nothing of its kind came
\* after, in whatever order evidence comes in, and a matrix without an incompatible
\* component (promotion.py, evaluate()).
THEOREM PromotionEarned == PromotionSpec => []NoLaterFailureHidden
  <1>1. evidence \in Seq(Pieces) => NoLaterFailureHidden
    BY ReadyIsPassed DEF NoLaterFailureHidden
  <1> QED BY <1>1, EvidenceTyped, PTL

-----------------------------------------------------------------------------
(* Release evidence *)

Observations == [component : Components, stage : Stages, result : Results, release : Releases]
Campaigns == [release : [Components -> Releases], verified : SUBSET SourceShapes,
              evidence : SUBSET Observations]

\* What the document is made of.
IsPaper(p) ==
    /\ p = [campaign |-> p.campaign, accepted |-> p.accepted, blockers |-> p.blockers,
            digest |-> p.digest]
    /\ p.campaign \in Campaigns /\ p.accepted \in BOOLEAN

\* There is one document, and what is reported of it is what it says.
ReleaseInv ==
    /\ campaign \in Campaigns
    /\ paper = {} \/ \E p : paper = {p} /\ IsPaper(p)
    /\ reported = {} \/ \E v, a \in BOOLEAN : reported = {[valid |-> v, accepted |-> a]}
    /\ edits \in 0..MaxEdits
    /\ paper = {} => reported = {}
    /\ \A v \in reported, p \in paper : v.accepted => Parses(p) /\ Accepts(p.campaign)

LEMMA CampaignChanges ==
    ASSUME ReleaseInv, NEW x \in Campaigns, Becomes(x)
    PROVE  ReleaseInv'
  BY DEF ReleaseInv, Becomes

LEMMA CampaignTurns ==
    ASSUME ReleaseInv,
           \/ \E c \in Components, r \in Releases : Release(c, r)
           \/ \E e \in campaign.evidence : DropEvidence(e)
           \/ \E c \in Components, s \in Stages, r \in Results : ObserveStage(c, s, r)
           \/ \E h \in SourceShapes : VerifyShape(h)
    PROVE  ReleaseInv'
  <1> USE DEF Campaigns
  <1>0. campaign \in Campaigns
    BY DEF ReleaseInv
  <1>1. ASSUME NEW c \in Components, NEW r \in Releases
        PROVE  [campaign EXCEPT !.release[c] = r] \in Campaigns
    BY <1>0
  <1>2. ASSUME NEW d PROVE [campaign EXCEPT !.evidence = @ \ {d}] \in Campaigns
    BY <1>0
  <1>3. ASSUME NEW c \in Components, NEW s \in Stages, NEW r \in Results
        PROVE  [campaign EXCEPT !.evidence = @ \cup
                  {[component |-> c, stage |-> s, result |-> r,
                    release |-> campaign.release[c]]}] \in Campaigns
    <2>1. [component |-> c, stage |-> s, result |-> r, release |-> campaign.release[c]] \in Observations
      BY <1>0 DEF Observations
    <2> QED BY <1>0, <2>1
  <1>4. ASSUME NEW h \in SourceShapes
        PROVE  [campaign EXCEPT !.verified = @ \cup {h}] \in Campaigns
    BY <1>0
  <1> HIDE DEF Campaigns
  <1> QED BY <1>1, <1>2, <1>3, <1>4, CampaignChanges
          DEF Release, DropEvidence, ObserveStage, VerifyShape

LEMMA PaperWritten ==
    ASSUME ReleaseInv, WritePaper
    PROVE  ReleaseInv'
  <1> DEFINE p == [campaign |-> campaign, accepted |-> Accepts(campaign),
                   blockers |-> Blockers(campaign), digest |-> campaign.release]
  <1>1. IsPaper(p)
    BY DEF IsPaper, ReleaseInv, Accepts
  <1>2. paper' = {p} /\ paper = {} /\ UNCHANGED <<campaign, edits, reported>>
    BY DEF WritePaper
  <1> HIDE DEF p
  <1> QED BY <1>1, <1>2 DEF ReleaseInv

LEMMA PaperEdited ==
    ASSUME ReleaseInv, EditPaper
    PROVE  ReleaseInv'
  <1>1. PICK p \in paper : \E d \in Edits(p) \ {p} : paper' = {d}
    BY DEF EditPaper
  <1>2. PICK d \in Edits(p) : paper' = {d}
    BY <1>1
  <1>3. IsPaper(p)
    BY <1>1 DEF ReleaseInv
  <1>4. p.campaign \in Campaigns /\ p.accepted \in BOOLEAN
    BY <1>3 DEF IsPaper
  <1>5. p = [campaign |-> p.campaign, accepted |-> p.accepted, blockers |-> p.blockers,
             digest |-> p.digest]
    BY <1>3 DEF IsPaper
  <1>6. IsPaper(d)
    <2>1. CASE d = [p EXCEPT !.accepted = ~ @]
      BY <2>1, <1>4, <1>5 DEF IsPaper
    <2>2. CASE d = [p EXCEPT !.blockers = {}]
      BY <2>2, <1>4, <1>5 DEF IsPaper
    <2>3. CASE \E e \in p.campaign.evidence :
                  d = [p EXCEPT !.campaign.evidence = (@ \ {e}) \cup {[e EXCEPT !.result = "passed"]}]
      <3>1. PICK e \in p.campaign.evidence :
               d = [p EXCEPT !.campaign.evidence = (@ \ {e}) \cup {[e EXCEPT !.result = "passed"]}]
        BY <2>3
      <3> DEFINE new == [e EXCEPT !.result = "passed"]
                 x == [p.campaign EXCEPT !.evidence = (@ \ {e}) \cup {new}]
      <3>2. e \in Observations
        BY <1>4 DEF Campaigns
      <3>3. new \in Observations
        BY <3>2 DEF Observations, Results
      <3> HIDE DEF new
      <3>4. x \in Campaigns
        BY <1>4, <3>3 DEF Campaigns
      <3>5. d = [p EXCEPT !.campaign = x]
        BY <3>1, <1>5 DEF new
      <3> HIDE DEF x
      <3> QED BY <1>4, <1>5, <3>4, <3>5 DEF IsPaper
    <2>4. CASE \E c \in Components, r \in Releases : d = [p EXCEPT !.campaign.release[c] = r]
      <3>1. PICK c \in Components, r \in Releases : d = [p EXCEPT !.campaign.release[c] = r]
        BY <2>4
      <3> DEFINE x == [p.campaign EXCEPT !.release[c] = r]
      <3>2. x \in Campaigns
        BY <1>4 DEF Campaigns
      <3>3. d = [p EXCEPT !.campaign = x]
        BY <3>1, <1>5
      <3> HIDE DEF x
      <3> QED BY <1>4, <1>5, <3>2, <3>3 DEF IsPaper
    <2> QED BY <1>2, <2>1, <2>2, <2>3, <2>4 DEF Edits
  <1>7. edits' \in 0..MaxEdits
    BY EvidenceAssumption DEF EditPaper, ReleaseInv
  <1> QED BY <1>2, <1>6, <1>7 DEF ReleaseInv, EditPaper

LEMMA PaperVerified ==
    ASSUME ReleaseInv, VerifyAcceptance
    PROVE  ReleaseInv'
  <1>1. PICK p \in paper, schema \in BOOLEAN :
           reported' = {[valid |-> schema /\ Parses(p),
                         accepted |-> schema /\ Parses(p) /\ Accepts(p.campaign)]}
    BY DEF VerifyAcceptance
  <1> DEFINE good == schema /\ Parses(p)
             a == good /\ Accepts(p.campaign)
  <1>2. good \in BOOLEAN /\ a \in BOOLEAN
    OBVIOUS
  <1>3. reported' = {[valid |-> good, accepted |-> a]}
    BY <1>1
  <1>4. a => Parses(p) /\ Accepts(p.campaign)
    OBVIOUS
  <1>5. paper = {p} /\ UNCHANGED <<campaign, paper, edits>>
    BY DEF ReleaseInv, VerifyAcceptance
  <1>6. (Parses(p) <=> Parses(p)') /\ (Accepts(p.campaign) <=> Accepts(p.campaign)')
    BY DEF Parses, Accepts
  <1> HIDE DEF good, a
  <1>7. \E v, b \in BOOLEAN : reported' = {[valid |-> v, accepted |-> b]}
    BY <1>2, <1>3
  <1>8. \A v \in reported' : v.accepted => Parses(p) /\ Accepts(p.campaign)
    BY <1>3, <1>4
  <1> QED BY <1>5, <1>7, <1>8 DEF ReleaseInv

LEMMA ReleaseInvHolds == ReleaseSpec => []ReleaseInv
  <1>1. ReleaseInit => ReleaseInv
    BY EvidenceAssumption DEF ReleaseInit, ReleaseInv, Campaigns, Releases
  <1>2. ReleaseInv /\ [ReleaseNext]_releasevars => ReleaseInv'
    <2> SUFFICES ASSUME ReleaseInv, [ReleaseNext]_releasevars PROVE ReleaseInv'
      OBVIOUS
    <2>1. CASE UNCHANGED releasevars
      BY <2>1 DEF releasevars, ReleaseInv
    <2> QED BY <2>1, CampaignTurns, PaperWritten, PaperEdited, PaperVerified DEF ReleaseNext
  <1> QED BY <1>1, <1>2, PTL DEF ReleaseSpec

LEMMA ReleaseInvTyped == ReleaseInv => ReleaseTypeOK
  <1> SUFFICES ASSUME ReleaseInv PROVE ReleaseTypeOK
    OBVIOUS
  <1>1. Cardinality(paper) <= 1 /\ Cardinality(reported) <= 1
    <2>1. Cardinality({}) = 0
      BY FS_EmptySet
    <2>2. \A e : Cardinality({e}) = 1
      BY FS_Singleton
    <2>3. (paper = {} \/ \E p : paper = {p}) /\ (reported = {} \/ \E p : reported = {p})
      BY DEF ReleaseInv
    <2>4. ASSUME NEW S, S = {} \/ \E p : S = {p} PROVE Cardinality(S) <= 1
      <3>1. Cardinality(S) = 0 \/ Cardinality(S) = 1
        BY <2>1, <2>2, <2>4, Zenon
      <3> QED BY <3>1
    <2> QED BY <2>3, <2>4, Zenon
  <1>2. \A d \in campaign.evidence : d \in Observations
    BY DEF ReleaseInv, Campaigns
  <1> QED BY <1>1, <1>2 DEF ReleaseInv, ReleaseTypeOK, Campaigns, Observations

\* No blocker is left only of a campaign that has evidence of everything.
LEMMA AcceptsIsComplete ==
    ASSUME NEW x \in Campaigns, Accepts(x), WellFormedCampaign(x)
    PROVE  /\ x.verified = SourceShapes
           /\ \A c \in Components, s \in Stages :
                 [component |-> c, stage |-> s, result |-> "passed",
                  release |-> x.release[c]] \in x.evidence
  <1>1. x.verified \subseteq SourceShapes /\ x.evidence \subseteq Observations
    BY DEF Campaigns
  <1>2. x.verified = SourceShapes
    <2>1. \A h \in SourceShapes \ x.verified : <<h, "verification">> \in Blockers(x)
      BY DEF Blockers
    <2> QED BY <1>1, <2>1 DEF Accepts
  <1>3. ASSUME NEW c \in Components, NEW s \in Stages
        PROVE  [component |-> c, stage |-> s, result |-> "passed",
                release |-> x.release[c]] \in x.evidence
    <2>1. StandingResults(x, c, s) = {"passed"}
      <3> DEFINE b == <<c, s, StandingResults(x, c, s)>>
      <3>1. b[3] = StandingResults(x, c, s)
        OBVIOUS
      <3>2. b \in {<<d, t, StandingResults(x, d, t)>> : d \in Components, t \in Stages}
        OBVIOUS
      <3> HIDE DEF b
      <3> QED BY <3>1, <3>2 DEF Accepts, Blockers
    <2>2. PICK d \in x.evidence : d.component = c /\ d.stage = s /\ d.result = "passed"
      BY <2>1 DEF StandingResults
    <2>3. d.release = x.release[c]
      BY <2>2 DEF WellFormedCampaign, Matches
    <2>4. d = [component |-> d.component, stage |-> d.stage, result |-> d.result,
               release |-> d.release]
      BY <1>1 DEF Observations
    <2> QED BY <2>2, <2>3, <2>4
  <1> QED BY <1>2, <1>3

\* THEOREM: acceptance is reported only of a document that agrees with its own declarations
\* and in which every component passed every stage at the release its digest names, through
\* releases made anew and edits of the document (acceptance.py, cli.py).
THEOREM AcceptanceEarned == ReleaseSpec => []AcceptedIsEvidenced
  <1>1. ReleaseInv => AcceptedIsEvidenced
    <2> SUFFICES ASSUME ReleaseInv, NEW v \in reported, NEW p \in paper, v.accepted
                 PROVE  /\ p.accepted /\ p.blockers = {}
                        /\ p.campaign.verified = SourceShapes
                        /\ \A c \in Components, s \in Stages :
                              [component |-> c, stage |-> s, result |-> "passed",
                               release |-> p.digest[c]] \in p.campaign.evidence
      BY DEF AcceptedIsEvidenced
    <2>1. Parses(p) /\ Accepts(p.campaign) /\ IsPaper(p)
      BY DEF ReleaseInv
    <2>2. p.campaign \in Campaigns /\ WellFormedCampaign(p.campaign)
      BY <2>1 DEF IsPaper, Parses
    <2>3. p.accepted /\ p.blockers = {} /\ p.digest = p.campaign.release
      BY <2>1 DEF Parses, Accepts
    <2> QED BY <2>1, <2>2, <2>3, AcceptsIsComplete
  <1> QED BY <1>1, ReleaseInvHolds, PTL

-----------------------------------------------------------------------------
(* Signed packages *)

\* The parts of an archive that a mirror or damage exchanges.
PartNames == {"entries", "manifest", "sbom", "signature"}

\* What is known of a package that was built.
IsPackage(b) ==
    /\ PartNames \subseteq DOMAIN b /\ b.twice = FALSE
    /\ b.files \in Payloads
    /\ b.entries = [p \in DOMAIN b.files \ Reserved |-> b.files[p]]
    /\ b.manifest.name = b.name /\ b.manifest.files = b.files /\ b.sbom.files = b.files
    /\ b.signature.key \in SigningKeys
    /\ b.signature = Sign(b.signature.key, SignedPayload(b.manifest, b.sbom))

\* What is known of an archive, whatever happened to it.
IsArchive(a) ==
    /\ PartNames \subseteq DOMAIN a
    /\ a.entries = [p \in DOMAIN a.entries |-> a.entries[p]]
    /\ DOMAIN a.entries \cap Reserved = {}
    /\ \E b \in built : a.signature = b.signature

PackagesInv ==
    /\ IsFiniteSet(built) /\ Cardinality(built) \in 0..2
    /\ \A b \in built : IsPackage(b)
    /\ archive = {} \/ \E a : archive = {a} /\ IsArchive(a)

LEMMA PackageIsPackage ==
    ASSUME NEW files_ \in Payloads, NEW n \in Names, NEW l \in SUBSET Libraries,
           NEW k \in SigningKeys
    PROVE  IsPackage(Package(files_, n, l, k))
  <1> DEFINE manifest == [name |-> n, files |-> files_]
             sbom == [files |-> files_, libraries |-> l]
             entries_ == [p \in DOMAIN files_ \ Reserved |-> files_[p]]
             signature == Sign(k, SignedPayload(manifest, sbom))
             b == Package(files_, n, l, k)
  <1>1. b = [files |-> files_, name |-> n, entries |-> entries_, manifest |-> manifest,
             sbom |-> sbom, twice |-> FALSE, signature |-> signature]
    BY DEF Package
  <1>2. manifest.name = n /\ manifest.files = files_ /\ sbom.files = files_ /\ signature.key = k
    BY DEF Sign
  <1>3. signature = Sign(signature.key, SignedPayload(manifest, sbom))
    BY <1>2
  <1> HIDE DEF manifest, sbom, signature, b
  <1>4. /\ b.files = files_ /\ b.name = n /\ b.entries = entries_ /\ b.manifest = manifest
        /\ b.sbom = sbom /\ b.signature = signature /\ b.twice = FALSE
    BY <1>1
  <1>5. PartNames \subseteq DOMAIN b
    BY <1>1 DEF PartNames
  <1>6. b.signature.key \in SigningKeys
    BY <1>2, <1>4
  <1>7. b.entries = [p \in DOMAIN b.files \ Reserved |-> b.files[p]]
    BY <1>4
  <1>8. b.signature = Sign(b.signature.key, SignedPayload(b.manifest, b.sbom))
    BY <1>3, <1>4
  <1>9. IsPackage(b)
    BY <1>2, <1>4, <1>5, <1>6, <1>7, <1>8 DEF IsPackage
  <1> QED BY <1>9 DEF b

LEMMA PackageBuilt ==
    ASSUME PackagesInv,
           NEW files_ \in Payloads, NEW n \in Names, NEW l \in SUBSET Libraries,
           NEW k \in SigningKeys, Build(files_, n, l, k)
    PROVE  PackagesInv'
  <1> DEFINE b == Package(files_, n, l, k)
  <1>1. IsPackage(b)
    BY PackageIsPackage
  <1>2. built' = built \cup {b} /\ archive' = archive /\ Cardinality(built) < 2
    BY DEF Build
  <1> HIDE DEF b
  <1>3. IsFiniteSet(built') /\ Cardinality(built') \in 0..2
    <2>1. /\ IsFiniteSet(built \cup {b})
          /\ \/ b \in built /\ Cardinality(built \cup {b}) = Cardinality(built)
             \/ b \notin built /\ Cardinality(built \cup {b}) = Cardinality(built) + 1
      BY FS_AddElement DEF PackagesInv
    <2> QED BY <1>2, <2>1 DEF PackagesInv
  <1>4. \A a : IsArchive(a) => IsArchive(a)'
    BY <1>2 DEF IsArchive
  <1>5. \A c : IsPackage(c) => IsPackage(c)'
    BY DEF IsPackage
  <1> QED BY <1>1, <1>2, <1>3, <1>4, <1>5 DEF PackagesInv

\* An archive that took the place of the former one keeps the invariant.
LEMMA ArchiveReplaced ==
    ASSUME PackagesInv, NEW a, archive' = {a}, built' = built, IsArchive(a)
    PROVE  PackagesInv'
  <1>1. IsArchive(a)'
    BY DEF IsArchive
  <1>2. \A c : IsPackage(c) => IsPackage(c)'
    BY DEF IsPackage
  <1> QED BY <1>1, <1>2 DEF PackagesInv

LEMMA ArchiveFetched ==
    ASSUME PackagesInv, NEW e \in built, NEW m \in built, NEW s \in built, NEW b \in built,
           Fetch(e, m, s, b)
    PROVE  PackagesInv'
  <1> DEFINE a == [m EXCEPT !.entries = e.entries, !.sbom = s.sbom, !.signature = b.signature]
  <1>1. archive' = {a} /\ built' = built
    BY DEF Fetch
  <1>2. IsPackage(e) /\ IsPackage(m)
    BY DEF PackagesInv
  <1>3. PartNames \subseteq DOMAIN a /\ a.entries = e.entries /\ a.signature = b.signature
    BY <1>2 DEF IsPackage, PartNames
  <1> HIDE DEF a
  <1>4. e.entries = [p \in DOMAIN e.files \ Reserved |-> e.files[p]]
    BY <1>2 DEF IsPackage
  <1>5. a.entries = [p \in DOMAIN a.entries |-> a.entries[p]] /\ DOMAIN a.entries \cap Reserved = {}
    BY <1>3, <1>4
  <1>6. IsArchive(a)
    BY <1>3, <1>5 DEF IsArchive
  <1> QED BY <1>1, <1>6, ArchiveReplaced

LEMMA ArchiveDamaged ==
    ASSUME PackagesInv, NEW a \in archive,
           \/ \E p \in Paths \ Reserved : LosePath(a, p)
           \/ \E p \in Paths \ Reserved, c \in Contents : PutPath(a, p, c)
           \/ RepeatPath(a)
    PROVE  PackagesInv'
  <1>0. IsArchive(a)
    BY DEF PackagesInv
  <1>1. ASSUME NEW es, es = [q \in DOMAIN es |-> es[q]], DOMAIN es \cap Reserved = {}, Alter(a, es)
        PROVE  PackagesInv'
    <2> DEFINE d == [a EXCEPT !.entries = es]
    <2>1. archive' = {d} /\ built' = built
      BY <1>1 DEF Alter
    <2>2. PartNames \subseteq DOMAIN d /\ d.entries = es /\ d.signature = a.signature
      BY <1>0 DEF IsArchive, PartNames
    <2> HIDE DEF d
    <2>3. d.entries = [q \in DOMAIN d.entries |-> d.entries[q]]
      BY <1>1, <2>2
    <2>4. IsArchive(d)
      BY <1>0, <1>1, <2>2, <2>3 DEF IsArchive
    <2> QED BY <2>1, <2>4, ArchiveReplaced
  <1>2. ASSUME NEW p \in Paths \ Reserved, LosePath(a, p) PROVE PackagesInv'
    <2> DEFINE es == [q \in DOMAIN a.entries \ {p} |-> a.entries[q]]
    <2>1. es = [q \in DOMAIN es |-> es[q]] /\ DOMAIN es \cap Reserved = {}
      BY <1>0 DEF IsArchive
    <2>2. Alter(a, es)
      BY <1>2 DEF LosePath
    <2> HIDE DEF es
    <2> QED BY <2>1, <2>2, <1>1
  <1>3. ASSUME NEW p \in Paths \ Reserved, NEW c \in Contents, PutPath(a, p, c) PROVE PackagesInv'
    <2> DEFINE es == [q \in DOMAIN a.entries \cup {p} |-> IF q = p THEN c ELSE a.entries[q]]
    <2>1. es = [q \in DOMAIN es |-> es[q]] /\ DOMAIN es \cap Reserved = {}
      BY <1>0 DEF IsArchive
    <2>2. Alter(a, es)
      BY <1>3 DEF PutPath
    <2> HIDE DEF es
    <2> QED BY <2>1, <2>2, <1>1
  <1>4. ASSUME RepeatPath(a) PROVE PackagesInv'
    <2> DEFINE d == [a EXCEPT !.twice = TRUE]
    <2>1. archive' = {d} /\ built' = built
      BY <1>4 DEF RepeatPath
    <2>2. /\ PartNames \subseteq DOMAIN d /\ d.entries = a.entries
          /\ d.signature = a.signature
      BY <1>0 DEF IsArchive, PartNames
    <2> HIDE DEF d
    <2>3. IsArchive(d)
      BY <1>0, <2>2 DEF IsArchive
    <2> QED BY <2>1, <2>3, ArchiveReplaced
  <1> QED BY <1>2, <1>3, <1>4

LEMMA PackagesInvHolds == PackagesSpec => []PackagesInv
  <1>1. PackagesInit => PackagesInv
    BY FS_EmptySet DEF PackagesInit, PackagesInv
  <1>2. PackagesInv /\ [PackagesNext]_packagevars => PackagesInv'
    <2> SUFFICES ASSUME PackagesInv, [PackagesNext]_packagevars PROVE PackagesInv'
      OBVIOUS
    <2>1. CASE UNCHANGED packagevars
      BY <2>1 DEF packagevars, PackagesInv, IsPackage, IsArchive
    <2>2. CASE PackagesNext
      BY <2>2, PackageBuilt, ArchiveFetched, ArchiveDamaged DEF PackagesNext
    <2> QED BY <2>1, <2>2
  <1> QED BY <1>1, <1>2, PTL DEF PackagesSpec

LEMMA PackagesInvTyped == PackagesInv => PackagesTypeOK
  <1> SUFFICES ASSUME PackagesInv PROVE PackagesTypeOK
    OBVIOUS
  <1>1. Cardinality(archive) <= 1
    <2>1. CASE archive = {}
      BY <2>1, FS_EmptySet
    <2>2. CASE \E a : archive = {a}
      <3>1. Cardinality(archive) = 1
        BY <2>2, FS_Singleton, Zenon
      <3> QED BY <3>1
    <2> QED BY <2>1, <2>2 DEF PackagesInv
  <1>2. Cardinality(built) <= 2
    BY DEF PackagesInv
  <1>3. \A b \in built : b.files \in Payloads /\ b.signature.key \in SigningKeys
    BY DEF PackagesInv, IsPackage
  <1> QED BY <1>1, <1>2, <1>3, Zenon DEF PackagesTypeOK

\* A signature by the trusted key over a manifest and an SBOM is that of a build of both.
LEMMA VerifiedIsBuilt ==
    ASSUME PackagesInv, NEW a \in archive, PackageVerifies(a)
    PROVE  \E b \in built : /\ b.signature.key = Trusted
                            /\ a.entries = b.files /\ a.manifest.name = b.name
                            /\ a.sbom = b.sbom
  <1>1. IsArchive(a)
    BY DEF PackagesInv
  <1>2. PICK b \in built : a.signature = b.signature
    BY <1>1 DEF IsArchive
  <1>3. IsPackage(b)
    BY DEF PackagesInv
  <1>4. b.signature = Sign(Trusted, SignedPayload(a.manifest, a.sbom))
    BY <1>2 DEF PackageVerifies
  <1>5. b.signature = Sign(b.signature.key, SignedPayload(b.manifest, b.sbom))
    BY <1>3 DEF IsPackage
  <1>6. b.signature.key = Trusted /\ SignedPayload(b.manifest, b.sbom) = SignedPayload(a.manifest, a.sbom)
    BY <1>4, <1>5 DEF Sign
  <1>7. a.manifest = b.manifest /\ a.sbom = b.sbom
    BY <1>6 DEF SignedPayload
  <1>8. a.manifest.files = b.files /\ a.manifest.name = b.name
    BY <1>3, <1>7 DEF IsPackage
  <1>9. a.entries = b.files
    <2>1. b.files = [p \in DOMAIN b.files |-> b.files[p]]
      BY <1>3, PackagesAssumption DEF IsPackage
    <2>2. /\ DOMAIN b.files \cup Reserved = DOMAIN a.entries \cup Reserved
          /\ \A p \in DOMAIN b.files : p \notin Reserved /\ a.entries[p] = b.files[p]
      BY <1>8 DEF PackageVerifies, ListedAndIntact, ReadsAs
    <2>3. DOMAIN a.entries = DOMAIN b.files
      BY <1>1, <2>2 DEF IsArchive
    <2>4. a.entries = [p \in DOMAIN a.entries |-> a.entries[p]]
      BY <1>1 DEF IsArchive
    <2> QED BY <2>1, <2>2, <2>3, <2>4
  <1> QED BY <1>6, <1>7, <1>8, <1>9

LEMMA GoodIsAccepted ==
    ASSUME PackagesInv, NEW a \in built, a.signature.key = Trusted
    PROVE  PackageVerifies(a) <=> DOMAIN a.files \cap Reserved = {}
                                  /\ \A p \in DOMAIN a.files : Fits(a.files[p])
  <1>1. IsPackage(a)
    BY DEF PackagesInv
  <1>2. a.entries = [p \in DOMAIN a.files \ Reserved |-> a.files[p]] /\ a.twice = FALSE
    BY <1>1 DEF IsPackage
  <1>3. SbomCovers(a) /\ a.manifest.files = a.files
    BY <1>1 DEF IsPackage, SbomCovers
  <1>4. a.signature = Sign(Trusted, SignedPayload(a.manifest, a.sbom))
    BY <1>1 DEF IsPackage
  <1>5. ASSUME DOMAIN a.files \cap Reserved = {}, \A p \in DOMAIN a.files : Fits(a.files[p])
        PROVE  PackageVerifies(a)
    <2>1. WithinLimits(a)
      BY <1>2, <1>5 DEF WithinLimits
    <2>2. ListedAndIntact(a)
      BY <1>2, <1>3, <1>5 DEF ListedAndIntact, ReadsAs
    <2> QED BY <1>3, <1>4, <2>1, <2>2 DEF PackageVerifies
  <1>6. ASSUME PackageVerifies(a)
        PROVE  DOMAIN a.files \cap Reserved = {} /\ \A p \in DOMAIN a.files : Fits(a.files[p])
    <2>1. DOMAIN a.files \cap Reserved = {}
      BY <1>3, <1>6 DEF PackageVerifies, ListedAndIntact, ReadsAs
    <2> QED BY <1>2, <1>6, <2>1 DEF PackageVerifies, WithinLimits
  <1> QED BY <1>5, <1>6

\* THEOREM: however archives are damaged or put together, what is accepted is what one
\* build with the trusted key made, and a package that arrives as built is accepted unless
\* its builder let through what verification refuses (packaging.py).
THEOREM PackagesSound == PackagesSpec => [](AcceptedIsBuilt /\ BuiltIsAccepted)
  <1>1. PackagesInv => AcceptedIsBuilt /\ BuiltIsAccepted
    BY VerifiedIsBuilt, GoodIsAccepted DEF AcceptedIsBuilt, BuiltIsAccepted
  <1> QED BY <1>1, PackagesInvHolds, PTL

-----------------------------------------------------------------------------
(* Sequences that an entry is taken out of *)

Items(s) == {s[i] : i \in DOMAIN s}
Distinct(s) == \A i, j \in DOMAIN s : s[i] = s[j] => i = j

LEMMA RemovedEntry ==
    ASSUME NEW S, NEW s \in Seq(S), NEW i \in 1..Len(s)
    PROVE  /\ RemoveAt(s, i) \in Seq(S) /\ Len(RemoveAt(s, i)) = Len(s) - 1
           /\ \A j \in 1..Len(s) - 1 : RemoveAt(s, i)[j] = IF j < i THEN s[j] ELSE s[j + 1]
  <1> DEFINE left == SubSeq(s, 1, i - 1)
             right == SubSeq(s, i + 1, Len(s))
  <1>0. Len(s) \in Nat /\ i \in Int
    BY LenProperties
  <1>1. left \in Seq(S) /\ Len(left) = i - 1 /\ \A j \in 1..i - 1 : left[j] = s[j]
    <2>1. \A j \in 1..i - 1 : s[j] \in S
      BY <1>0, ElementOfSeq
    <2>2. left \in Seq(S) /\ Len(left) = IF 1 <= i - 1 THEN i - 1 - 1 + 1 ELSE 0
      BY <2>1, <1>0, SubSeqProperties
    <2>3. \A j \in 1..i - 1 : left[j] = s[j]
      BY <2>1, <1>0, SubSeqProperties
    <2> QED BY <2>2, <2>3, <1>0
  <1>2. right \in Seq(S) /\ Len(right) = Len(s) - i /\ \A j \in 1..Len(s) - i : right[j] = s[j + i]
    <2>1. \A j \in i + 1..Len(s) : s[j] \in S
      BY <1>0, ElementOfSeq
    <2>2. right \in Seq(S) /\ Len(right) = IF i + 1 <= Len(s) THEN Len(s) - (i + 1) + 1 ELSE 0
      BY <2>1, <1>0, SubSeqProperties
    <2>3. \A j \in 1..Len(s) - i : right[j] = s[i + 1 + j - 1]
      BY <2>1, <1>0, SubSeqProperties
    <2> QED BY <2>2, <2>3, <1>0
  <1>3. RemoveAt(s, i) = left \o right
    BY DEF RemoveAt
  <1> HIDE DEF left, right
  <1>4. left \o right \in Seq(S) /\ Len(left \o right) = Len(left) + Len(right)
        /\ \A j \in 1..Len(left) + Len(right) :
              (left \o right)[j] = IF j <= Len(left) THEN left[j] ELSE right[j - Len(left)]
    BY <1>1, <1>2, ConcatProperties
  <1> QED BY <1>0, <1>1, <1>2, <1>3, <1>4

LEMMA RemovedItems ==
    ASSUME NEW S, NEW s \in Seq(S), NEW i \in DOMAIN s, Distinct(s)
    PROVE  /\ RemoveAt(s, i) \in Seq(S) /\ Distinct(RemoveAt(s, i))
           /\ Items(RemoveAt(s, i)) = Items(s) \ {s[i]}
  <1> DEFINE r == RemoveAt(s, i)
  <1>1. i \in 1..Len(s) /\ DOMAIN s = 1..Len(s) /\ Len(s) \in Nat
    BY LenProperties
  <1>2. /\ r \in Seq(S) /\ Len(r) = Len(s) - 1
        /\ \A j \in 1..Len(s) - 1 : r[j] = IF j < i THEN s[j] ELSE s[j + 1]
    BY <1>1, RemovedEntry
  <1> HIDE DEF r
  <1>3. DOMAIN r = 1..Len(s) - 1
    BY <1>2, LenProperties
  <1>4. Distinct(r)
    <2> SUFFICES ASSUME NEW j \in 1..Len(s) - 1, NEW k \in 1..Len(s) - 1, r[j] = r[k]
                 PROVE  j = k
      BY <1>3 DEF Distinct
    <2> DEFINE from(m) == IF m < i THEN m ELSE m + 1
    <2>1. from(j) \in 1..Len(s) /\ from(k) \in 1..Len(s)
      BY <1>1
    <2>2. r[j] = s[from(j)] /\ r[k] = s[from(k)]
      BY <1>2
    <2> HIDE DEF from
    <2>3. from(j) = from(k)
      BY <1>1, <2>1, <2>2 DEF Distinct
    <2> QED BY <1>1, <2>3 DEF from
  <1>5. Items(r) \subseteq Items(s) \ {s[i]}
    BY <1>1, <1>2, <1>3 DEF Items, Distinct
  <1>6. ASSUME NEW x \in Items(s) \ {s[i]} PROVE x \in Items(r)
    <2>1. PICK j \in 1..Len(s) : x = s[j]
      BY <1>1, <1>6 DEF Items
    <2>2. j # i
      BY <2>1, <1>6
    <2>3. CASE j < i
      BY <2>1, <2>3, <1>1, <1>2, <1>3 DEF Items
    <2>4. CASE j > i
      <3>1. j - 1 \in 1..Len(s) - 1 /\ ~ (j - 1 < i) /\ j - 1 + 1 = j
        BY <2>4, <1>1
      <3>2. r[j - 1] = x
        BY <2>1, <3>1, <1>2
      <3> QED BY <3>1, <3>2, <1>3 DEF Items
    <2> QED BY <2>2, <2>3, <2>4, <1>1
  <1>7. Items(r) = Items(s) \ {s[i]}
    BY <1>5, <1>6
  <1> QED BY <1>2, <1>4, <1>7 DEF r

LEMMA TailItems ==
    ASSUME NEW S, NEW s \in Seq(S), s # <<>>, Distinct(s)
    PROVE  /\ Tail(s) \in Seq(S) /\ Distinct(Tail(s)) /\ Head(s) \in Items(s)
           /\ Items(Tail(s)) = Items(s) \ {Head(s)}
  <1> DEFINE r == Tail(s)
  <1>1. /\ r \in Seq(S) /\ Len(r) = Len(s) - 1
        /\ \A j \in 1..Len(r) : r[j] = s[j + 1]
    BY HeadTailProperties
  <1>2. DOMAIN s = 1..Len(s) /\ Len(s) \in Nat /\ DOMAIN r = 1..Len(r) /\ Len(s) # 0
    BY <1>1, LenProperties, EmptySeq
  <1>3. Head(s) = s[1] /\ 1 \in DOMAIN s
    BY <1>2
  <1> HIDE DEF r
  <1>4. Distinct(r)
    <2> SUFFICES ASSUME NEW j \in 1..Len(r), NEW k \in 1..Len(r), r[j] = r[k]
                 PROVE  j = k
      BY <1>2 DEF Distinct
    <2>1. j + 1 \in 1..Len(s) /\ k + 1 \in 1..Len(s)
      BY <1>1, <1>2
    <2>2. s[j + 1] = s[k + 1]
      BY <1>1
    <2>3. j + 1 = k + 1
      BY <1>2, <2>1, <2>2 DEF Distinct
    <2> QED BY <2>3
  <1>5. Items(r) \subseteq Items(s) \ {s[1]}
    BY <1>1, <1>2 DEF Items, Distinct
  <1>6. ASSUME NEW x \in Items(s) \ {s[1]} PROVE x \in Items(r)
    <2>1. PICK j \in 1..Len(s) : x = s[j]
      BY <1>2, <1>6 DEF Items
    <2>2. j - 1 \in 1..Len(r) /\ j - 1 + 1 = j
      BY <2>1, <1>1, <1>2, <1>6
    <2>3. r[j - 1] = x
      BY <2>1, <2>2, <1>1
    <2> QED BY <2>2, <2>3, <1>2 DEF Items
  <1>7. Items(r) = Items(s) \ {s[1]}
    BY <1>5, <1>6
  <1>8. Head(s) \in Items(s)
    BY <1>3 DEF Items
  <1> QED BY <1>1, <1>3, <1>4, <1>7, <1>8 DEF r

LEMMA AppendItems ==
    ASSUME NEW S, NEW s \in Seq(S), NEW x \in S
    PROVE  /\ Append(s, x) \in Seq(S) /\ Items(Append(s, x)) = Items(s) \cup {x}
           /\ DOMAIN Append(s, x) = DOMAIN s \cup {Len(s) + 1} /\ Append(s, x)[Len(s) + 1] = x
           /\ DOMAIN s = 1..Len(s) /\ Len(s) \in Nat
           /\ \A j \in DOMAIN s : Append(s, x)[j] = s[j]
  <1> DEFINE r == Append(s, x)
  <1>1. /\ r \in Seq(S) /\ Len(r) = Len(s) + 1
        /\ \A j \in 1..Len(s) : r[j] = s[j] /\ r[Len(s) + 1] = x
    BY AppendProperties
  <1>2. DOMAIN s = 1..Len(s) /\ Len(s) \in Nat /\ DOMAIN r = 1..Len(r)
    BY <1>1, LenProperties
  <1>3. r[Len(s) + 1] = x
    BY AppendProperties
  <1> HIDE DEF r
  <1>4. DOMAIN r = DOMAIN s \cup {Len(s) + 1}
    BY <1>1, <1>2
  <1>5. \A y : y \in Items(r) <=> y \in Items(s) \cup {x}
    BY <1>1, <1>2, <1>3, <1>4 DEF Items
  <1>6. Items(r) = Items(s) \cup {x}
    BY <1>5
  <1> QED BY <1>1, <1>2, <1>3, <1>4, <1>6 DEF r

-----------------------------------------------------------------------------
(* The pack generator *)

\* Datasets none of which can be the first to be generated.
Entangled(S) == \A d \in S : refers[d] \cap (S \cup {Unknown}) # {}

PackShape ==
    /\ PackTypeOK
    /\ Distinct(waiting) /\ Distinct(pass) /\ Distinct(generated)
    /\ Items(waiting) = Datasets \ Items(generated)
    /\ Items(pass) \subseteq Items(waiting)

\* A dataset comes after those it refers to, so that none of an entangled set comes.
OrderInv ==
    /\ \A i \in DOMAIN generated :
          refers[generated[i]] \subseteq {generated[j] : j \in 1..i - 1}
    /\ \A S \in SUBSET Datasets : Entangled(S) => S \cap Items(generated) = {}

\* What a pass without progress left behind still waits for something.
PassInv ==
    /\ generation = "running" => waiting # <<>> \/ progressed
    /\ generation = "running" /\ ~ progressed =>
          \A d \in Items(waiting) \ Items(pass) : ~ (refers[d] \subseteq Items(generated))
    /\ generation = "raised" =>
          waiting # <<>> /\ \A d \in Items(waiting) : ~ (refers[d] \subseteq Items(generated))
    /\ generation = "done" => waiting = <<>>

PackInv == PackShape /\ OrderInv /\ PassInv

LEMMA PackStartsWell == PackInit => PackInv
  <1> SUFFICES ASSUME PackInit PROVE PackInv
    OBVIOUS
  <1>1. PICK r \in References : PackStarts(r)
    BY DEF PackInit
  <1>2. Declared \in Seq(Datasets) /\ Declared # <<>> /\ Distinct(Declared) /\ Items(Declared) = Datasets
    BY PackAssumption DEF ValidDefinition, Datasets, Distinct, Items
  <1>3. /\ refers = r /\ waiting = Declared /\ pass = Declared /\ progressed = FALSE
        /\ generated = <<>> /\ generation = "running"
    BY <1>1 DEF PackStarts
  <1>4. Items(generated) = {} /\ DOMAIN generated = {} /\ generated \in Seq(Datasets)
    BY <1>3, EmptySeq DEF Items
  <1>5. PackShape
    BY <1>2, <1>3, <1>4 DEF PackShape, PackTypeOK, Distinct
  <1>6. OrderInv
    BY <1>4 DEF OrderInv
  <1>7. PassInv
    BY <1>2, <1>3 DEF PassInv
  <1> QED BY <1>5, <1>6, <1>7 DEF PackInv

LEMMA DatasetSkipped ==
    ASSUME PackInv, TryDataset, ~ ReadyToGenerate(Head(pass))
    PROVE  PackInv'
  <1>1. /\ generation = "running" /\ pass # <<>> /\ pass' = Tail(pass)
        /\ UNCHANGED <<generated, waiting, progressed, generation, refers>>
    BY DEF TryDataset
  <1>2. /\ pass' \in Seq(Datasets) /\ Distinct(pass')
        /\ Items(pass') = Items(pass) \ {Head(pass)}
    BY <1>1, TailItems DEF PackInv, PackShape, PackTypeOK
  <1>3. ~ (refers[Head(pass)] \subseteq Items(generated))
    BY DEF ReadyToGenerate, Generated, Items
  <1>4. PackShape'
    BY <1>1, <1>2 DEF PackInv, PackShape, PackTypeOK
  <1>5. OrderInv'
    BY <1>1 DEF PackInv, OrderInv, Entangled
  <1>6. PassInv'
    BY <1>1, <1>2, <1>3 DEF PackInv, PassInv
  <1> QED BY <1>4, <1>5, <1>6 DEF PackInv

LEMMA DatasetFails ==
    ASSUME PackInv, TryDataset, generation' = "failed", UNCHANGED <<generated, waiting, progressed>>
    PROVE  PackInv'
  <1>1. pass # <<>> /\ pass' = Tail(pass) /\ refers' = refers
    BY DEF TryDataset
  <1>2. /\ pass' \in Seq(Datasets) /\ Distinct(pass')
        /\ Items(pass') = Items(pass) \ {Head(pass)}
    BY <1>1, TailItems DEF PackInv, PackShape, PackTypeOK
  <1>4. PackShape'
    BY <1>1, <1>2 DEF PackInv, PackShape, PackTypeOK
  <1>5. OrderInv'
    BY <1>1 DEF PackInv, OrderInv, Entangled
  <1>6. PassInv'
    BY <1>1 DEF PackInv, PassInv
  <1> QED BY <1>4, <1>5, <1>6 DEF PackInv

LEMMA DatasetGenerated ==
    ASSUME PackInv, TryDataset, ReadyToGenerate(Head(pass)),
           generated' = Append(generated, Head(pass)),
           NEW i \in DOMAIN waiting, waiting[i] = Head(pass), waiting' = RemoveAt(waiting, i),
           progressed' = TRUE, UNCHANGED generation
    PROVE  PackInv'
  <1> DEFINE d == Head(pass)
             n == Len(generated) + 1
  <1>1. generation = "running" /\ pass # <<>> /\ pass' = Tail(pass) /\ refers' = refers
    BY DEF TryDataset
  <1>2. /\ pass' \in Seq(Datasets) /\ Distinct(pass') /\ d \in Items(pass)
        /\ Items(pass') = Items(pass) \ {d}
    BY <1>1, TailItems DEF PackInv, PackShape, PackTypeOK
  <1>3. refers[d] \subseteq Items(generated)
    BY DEF ReadyToGenerate, Generated, Items
  <1>4. /\ waiting' \in Seq(Datasets) /\ Distinct(waiting')
        /\ Items(waiting') = Items(waiting) \ {d}
    BY RemovedItems DEF PackInv, PackShape, PackTypeOK
  <1>5. d \in Items(waiting) /\ d \in Datasets /\ d \notin Items(generated)
    BY <1>2 DEF PackInv, PackShape
  <1>6. /\ generated' \in Seq(Datasets) /\ Items(generated') = Items(generated) \cup {d}
        /\ DOMAIN generated' = DOMAIN generated \cup {n} /\ generated'[n] = d
        /\ DOMAIN generated = 1..Len(generated) /\ Len(generated) \in Nat
        /\ \A j \in DOMAIN generated : generated'[j] = generated[j]
    BY <1>5, AppendItems DEF PackInv, PackShape, PackTypeOK
  <1> HIDE DEF d, n
  <1>7. Distinct(generated')
    <2>1. Distinct(generated)
      BY DEF PackInv, PackShape
    <2>2. \A j \in DOMAIN generated : generated[j] # d
      BY <1>5 DEF Items
    <2> QED BY <1>6, <2>1, <2>2 DEF Distinct
  <1>8. PackShape'
    BY <1>1, <1>2, <1>4, <1>5, <1>6, <1>7 DEF PackInv, PackShape, PackTypeOK
  <1>9. OrderInv'
    <2>1. ASSUME NEW j \in DOMAIN generated'
          PROVE  refers[generated'[j]] \subseteq {generated'[k] : k \in 1..j - 1}
      <3>1. CASE j \in DOMAIN generated
        <4>1. refers[generated[j]] \subseteq {generated[k] : k \in 1..j - 1}
          BY <3>1 DEF PackInv, OrderInv
        <4>2. \A k \in 1..j - 1 : generated'[k] = generated[k]
          BY <3>1, <1>6
        <4> QED BY <3>1, <4>1, <4>2, <1>6
      <3>2. CASE j = n
        <4>1. DOMAIN generated = 1..j - 1
          BY <3>2, <1>6 DEF n
        <4>2. Items(generated) \subseteq {generated'[k] : k \in 1..j - 1}
          BY <4>1, <1>6 DEF Items
        <4> QED BY <3>2, <4>2, <1>3, <1>6
      <3> QED BY <3>1, <3>2, <1>6
    <2>2. ASSUME NEW S \in SUBSET Datasets, Entangled(S)
          PROVE  S \cap Items(generated') = {}
      <3>1. S \cap Items(generated) = {}
        BY <2>2 DEF PackInv, OrderInv
      <3>2. Unknown \notin Items(generated)
        BY UnknownAssumption DEF PackInv, PackShape, PackTypeOK, Items
      <3>3. d \notin S
        BY <2>2, <3>1, <3>2, <1>3 DEF Entangled
      <3> QED BY <3>1, <3>3, <1>6
    <2>3. \A S : Entangled(S)' => Entangled(S)
      BY <1>1 DEF Entangled
    <2> QED BY <2>1, <2>2, <2>3, <1>1 DEF OrderInv
  <1>10. PassInv'
    BY <1>1 DEF PassInv
  <1> QED BY <1>8, <1>9, <1>10 DEF PackInv

LEMMA PassEnds ==
    ASSUME PackInv, EndPass
    PROVE  PackInv'
  <1>1. /\ generation = "running" /\ pass = <<>> /\ pass' = waiting /\ progressed' = FALSE
        /\ UNCHANGED <<refers, waiting, generated>>
        /\ generation' = IF ~ progressed THEN "raised"
                         ELSE IF waiting = <<>> THEN "done" ELSE "running"
    BY DEF EndPass
  <1>2. Items(pass) = {}
    BY <1>1 DEF Items
  <1>3. PackShape'
    BY <1>1 DEF PackInv, PackShape, PackTypeOK
  <1>4. OrderInv'
    BY <1>1 DEF PackInv, OrderInv, Entangled
  <1>5. PassInv'
    BY <1>1, <1>2 DEF PackInv, PassInv
  <1> QED BY <1>3, <1>4, <1>5 DEF PackInv

LEMMA PackInvHolds == PackSpec => []PackInv
  <1>1. PackInv /\ [PackNext]_packvars => PackInv'
    <2> SUFFICES ASSUME PackInv, [PackNext]_packvars PROVE PackInv'
      OBVIOUS
    <2>1. CASE TryDataset
      <3>1. CASE ~ ReadyToGenerate(Head(pass))
        BY <2>1, <3>1, DatasetSkipped
      <3>2. CASE ReadyToGenerate(Head(pass))
        <4>1. GenerateDataset(Head(pass))
          BY <2>1, <3>2 DEF TryDataset
        <4> QED BY <2>1, <3>2, <4>1, DatasetFails, DatasetGenerated DEF GenerateDataset
      <3> QED BY <3>1, <3>2
    <2>2. CASE EndPass
      BY <2>2, PassEnds
    <2>3. CASE UNCHANGED packvars
      <3>1. PackShape'
        BY <2>3 DEF packvars, PackInv, PackShape, PackTypeOK
      <3>2. OrderInv'
        BY <2>3 DEF packvars, PackInv, OrderInv, Entangled
      <3>3. PassInv'
        BY <2>3 DEF packvars, PackInv, PassInv
      <3> QED BY <3>1, <3>2, <3>3 DEF PackInv
    <2> QED BY <2>1, <2>2, <2>3 DEF PackNext
  <1> QED BY <1>1, PackStartsWell, PTL DEF PackSpec

\* What waits once nothing can be generated is entangled, and all that is.
LEMMA RaisedIsEntangled ==
    ASSUME PackInv, generation = "raised"
    PROVE  Ungeneratable # {} /\ Generated = Datasets \ Ungeneratable
  <1>1. Generated = Items(generated)
    BY DEF Generated, Items
  <1>2. Items(waiting) = Datasets \ Items(generated) /\ Items(generated) \subseteq Datasets
    BY DEF PackInv, PackShape, PackTypeOK, Items
  <1>3. Entangled(Items(waiting))
    <2> SUFFICES ASSUME NEW d \in Items(waiting)
                 PROVE  refers[d] \cap (Items(waiting) \cup {Unknown}) # {}
      BY DEF Entangled
    <2>1. ~ (refers[d] \subseteq Items(generated))
      BY DEF PackInv, PassInv
    <2>2. refers[d] \subseteq Datasets \cup {Unknown}
      BY <1>2 DEF PackInv, PackShape, PackTypeOK, References
    <2> QED BY <2>1, <2>2, <1>2
  <1>4. Items(waiting) \subseteq Ungeneratable
    BY <1>2, <1>3 DEF Ungeneratable, Entangled
  <1>5. ASSUME NEW S \in SUBSET Datasets, \A d \in S : refers[d] \cap (S \cup {Unknown}) # {}
        PROVE  S \subseteq Items(waiting)
    BY <1>2, <1>5 DEF PackInv, OrderInv, Entangled
  <1>6. Ungeneratable \subseteq Items(waiting)
    BY <1>5 DEF Ungeneratable
  <1>7. Items(waiting) # {}
    <2>1. waiting # <<>> /\ waiting \in Seq(Datasets)
      BY DEF PackInv, PassInv, PackShape, PackTypeOK
    <2>2. Head(waiting) \in Items(waiting)
      BY <2>1, TailItems DEF PackInv, PackShape
    <2> QED BY <2>2
  <1> QED BY <1>1, <1>2, <1>4, <1>6, <1>7

\* THEOREM: a dataset comes once and after all that it refers to, whatever the declared
\* order, and the generator gives up exactly when some dataset can never be generated,
\* having generated all the others (pack_factory.py, generate()).
THEOREM PacksFollowReferences == PackSpec => [](GenerationFollowsReferences /\ PackTypeOK)
  <1>1. PackInv => GenerationFollowsReferences /\ PackTypeOK
    <2> SUFFICES ASSUME PackInv PROVE GenerationFollowsReferences /\ PackTypeOK
      OBVIOUS
    <2>1. ASSUME NEW i \in DOMAIN generated
          PROVE  /\ refers[generated[i]] \subseteq {generated[j] : j \in 1..i - 1}
                 /\ \A j \in 1..i - 1 : generated[j] # generated[i]
      <3>1. DOMAIN generated = 1..Len(generated) /\ Len(generated) \in Nat
        BY LenProperties DEF PackInv, PackShape, PackTypeOK
      <3> QED BY <3>1 DEF PackInv, PackShape, OrderInv, Distinct
    <2>2. ASSUME generation = "done" PROVE Generated = Datasets
      <3>1. waiting = <<>>
        BY <2>2 DEF PackInv, PassInv
      <3>2. Items(waiting) = {}
        BY <3>1 DEF Items
      <3>3. Items(generated) \subseteq Datasets
        BY DEF PackInv, PackShape, PackTypeOK, Items
      <3> QED BY <3>2, <3>3 DEF PackInv, PackShape, Generated, Items
    <2>3. generation = "raised" => Ungeneratable # {} /\ Generated = Datasets \ Ungeneratable
      BY RaisedIsEntangled
    <2> QED BY <2>1, <2>2, <2>3 DEF GenerationFollowsReferences, PackInv, PackShape
  <1> QED BY <1>1, PackInvHolds, PTL

-----------------------------------------------------------------------------
(* The audit ledger *)

EntryFields == {"sequence", "event", "previous", "digest"}
IsEntry(r) == r = [x \in EntryFields |-> r[x]] /\ r.event \in AllEvents

\* Where an entry comes from, whose event damage may have changed.
ComesFrom(r, s) ==
    r.sequence = s.sequence /\ r.previous = s.previous /\ r.digest = s.digest

\* What is appended is linked; what damage leaves are entries appended.
Copied(r, log_) == IsEntry(r) /\ \E j \in DOMAIN log_ : ComesFrom(r, log_[j])
LinkedAt(log_, i) ==
    /\ IsEntry(log_[i]) /\ log_[i].sequence = i
    /\ log_[i].previous = IF i = 1 THEN Genesis ELSE log_[i - 1].digest
    /\ log_[i].digest = DigestOf(i, log_[i].event, log_[i].previous)

AuditInv ==
    /\ entries \in Seq(Items(entries)) /\ appended \in Seq(Items(appended))
    /\ Len(entries) <= MaxEntries /\ damages \in 0..MaxDamages
    /\ \A i \in DOMAIN entries : Copied(entries[i], appended)
    /\ \A i \in DOMAIN appended : LinkedAt(appended, i)
    /\ damages = 0 => entries = appended

LEMMA EntryAppended ==
    ASSUME AuditInv, NEW e \in AllEvents, AppendEntry(e)
    PROVE  AuditInv'
  <1> DEFINE n == Len(entries) + 1
             r == [sequence |-> n, event |-> e, previous |-> LastDigest,
                   digest |-> DigestOf(n, e, LastDigest)]
  <1>1. /\ entries = appended /\ damages = 0 /\ Len(entries) < MaxEntries /\ damages' = damages
        /\ entries' = Append(entries, r) /\ appended' = Append(appended, r)
    BY DEF AppendEntry, AuditInv
  <1>2. /\ r.sequence = n /\ r.event = e /\ r.previous = LastDigest
        /\ r.digest = DigestOf(n, e, LastDigest) /\ IsEntry(r)
    BY DEF IsEntry, EntryFields
  <1>3. entries \in Seq(Items(entries) \cup {r})
    BY SeqMonotonic DEF AuditInv
  <1> HIDE DEF r
  <1>4. /\ entries' \in Seq(Items(entries) \cup {r}) /\ Items(entries') = Items(entries) \cup {r}
        /\ DOMAIN entries' = DOMAIN entries \cup {n} /\ entries'[n] = r
        /\ DOMAIN entries = 1..Len(entries) /\ Len(entries) \in Nat
        /\ \A j \in DOMAIN entries : entries'[j] = entries[j]
        /\ Len(entries') = n
    BY <1>1, <1>3, AppendItems, AppendProperties
  <1>5. LastDigest = IF n = 1 THEN Genesis ELSE entries[n - 1].digest
    BY <1>4, EmptySeq DEF LastDigest, Last
  <1>6. appended' = entries' /\ damages' = 0
    BY <1>1
  <1> HIDE DEF n
  <1>7. ASSUME NEW i \in DOMAIN entries' PROVE LinkedAt(entries', i)
    <2>1. CASE i = n
      <3>1. n # 1 => n - 1 \in DOMAIN entries
        BY <1>4 DEF n
      <3>2. n # 1 => entries'[n - 1] = entries[n - 1]
        BY <3>1, <1>4
      <3> QED BY <2>1, <3>2, <1>2, <1>4, <1>5 DEF LinkedAt
    <2>2. CASE i \in DOMAIN entries
      <3>1. i # 1 => i - 1 \in DOMAIN entries
        BY <2>2, <1>4
      <3>2. entries'[i] = entries[i] /\ (i # 1 => entries'[i - 1] = entries[i - 1])
        BY <2>2, <3>1, <1>4
      <3>3. LinkedAt(entries, i)
        BY <2>2, <1>1 DEF AuditInv
      <3> QED BY <3>2, <3>3 DEF LinkedAt
    <2> QED BY <2>1, <2>2, <1>4
  <1>8. ASSUME NEW i \in DOMAIN entries' PROVE Copied(entries'[i], appended')
    BY <1>6, <1>7 DEF Copied, ComesFrom, LinkedAt
  <1>9. Len(entries') <= MaxEntries
    BY <1>1, <1>4, AuditAssumption DEF n
  <1>10. (\A i \in DOMAIN entries : Copied(entries[i], appended))'
    BY <1>8 DEF Copied, IsEntry, ComesFrom
  <1>11. (\A i \in DOMAIN appended : LinkedAt(appended, i))'
    BY <1>6, <1>7 DEF LinkedAt, IsEntry
  <1>12. (entries \in Seq(Items(entries)) /\ appended \in Seq(Items(appended)))'
    BY <1>4, <1>6 DEF Items
  <1>13. damages' \in 0..MaxDamages
    BY <1>1 DEF AuditInv
  <1> QED BY <1>6, <1>9, <1>10, <1>11, <1>12, <1>13 DEF AuditInv

\* A copy all of whose entries come from entries of the former one keeps the invariant.
LEMMA CopyDamaged ==
    ASSUME AuditInv, NEW copy, Damaged(copy), copy \in Seq(Items(copy)),
           Len(copy) <= MaxEntries, \A i \in DOMAIN copy : Copied(copy[i], entries)
    PROVE  AuditInv'
  <1>1. /\ damages < MaxDamages /\ damages' = damages + 1 /\ entries' = copy
        /\ appended' = appended
    BY DEF Damaged
  <1>2. damages' \in 0..MaxDamages /\ damages' # 0
    BY <1>1, AuditAssumption DEF AuditInv
  <1>3. ASSUME NEW i \in DOMAIN copy PROVE Copied(copy[i], appended)
    BY DEF AuditInv, Copied, ComesFrom
  <1>4. (\A i \in DOMAIN entries : Copied(entries[i], appended))'
    BY <1>1, <1>3 DEF Copied, IsEntry, ComesFrom
  <1>5. (\A i \in DOMAIN appended : LinkedAt(appended, i))'
    BY <1>1 DEF AuditInv, LinkedAt, IsEntry
  <1>6. (entries \in Seq(Items(entries)) /\ appended \in Seq(Items(appended)))'
    BY <1>1 DEF AuditInv, Items
  <1> QED BY <1>1, <1>2, <1>4, <1>5, <1>6 DEF AuditInv

LEMMA DamageKeeps ==
    ASSUME AuditInv, NEW i \in DOMAIN entries,
           \/ \E e \in AllEvents : ChangeEntry(i, e)
           \/ LoseEntry(i)
           \/ \E j \in DOMAIN entries : i < j /\ ExchangeEntries(i, j)
    PROVE  AuditInv'
  <1>0. /\ entries \in Seq(Items(entries)) /\ DOMAIN entries = 1..Len(entries)
        /\ Len(entries) \in Nat /\ Len(entries) <= MaxEntries
    BY LenProperties DEF AuditInv
  <1>1. ASSUME NEW copy, DOMAIN copy = 1..Len(entries), copy = [x \in 1..Len(entries) |-> copy[x]]
        PROVE  copy \in Seq(Items(copy)) /\ Len(copy) <= MaxEntries
    <2>1. \A x \in 1..Len(entries) : copy[x] \in Items(copy)
      BY <1>1 DEF Items
    <2>2. copy \in [1..Len(entries) -> Items(copy)]
      BY <1>1, <2>1
    <2>3. copy \in Seq(Items(copy)) /\ Len(copy) = Len(entries)
      BY <2>2, <1>0, <1>1
    <2> QED BY <2>3, <1>0
  <1>2. ASSUME NEW e \in AllEvents, ChangeEntry(i, e) PROVE AuditInv'
    <2> DEFINE copy == [entries EXCEPT ![i].event = e]
               r == [entries[i] EXCEPT !.event = e]
    <2>1. Damaged(copy)
      BY <1>2 DEF ChangeEntry
    <2>2. IsEntry(r) /\ ComesFrom(r, entries[i])
      <3>1. IsEntry(entries[i])
        BY DEF AuditInv, Copied
      <3>2. ASSUME NEW s, IsEntry(s)
            PROVE  /\ [s EXCEPT !.event = e] = [x \in EntryFields |-> IF x = "event" THEN e ELSE s[x]]
                   /\ DOMAIN s = EntryFields
        BY <3>2 DEF IsEntry
      <3>3. r = [x \in EntryFields |-> IF x = "event" THEN e ELSE entries[i][x]]
        BY <3>1, <3>2
      <3> HIDE DEF r
      <3>4. \A x \in EntryFields : r[x] = IF x = "event" THEN e ELSE entries[i][x]
        BY <3>3
      <3>5. r = [x \in EntryFields |-> r[x]]
        BY <3>3, <3>4
      <3> QED BY <3>4, <3>5 DEF IsEntry, EntryFields, ComesFrom
    <2>3. copy = [entries EXCEPT ![i] = r]
      OBVIOUS
    <2> HIDE DEF copy, r
    <2>4. DOMAIN copy = 1..Len(entries) /\ copy = [x \in 1..Len(entries) |-> copy[x]]
      BY <2>3, <1>0
    <2>5. ASSUME NEW x \in DOMAIN copy
          PROVE  Copied(copy[x], entries)
      <3>1. copy[x] = IF x = i THEN r ELSE entries[x]
        BY <2>3, <2>4, <1>0
      <3> QED BY <3>1, <2>2, <2>4, <1>0 DEF AuditInv, Copied, ComesFrom
    <2> QED BY <2>1, <2>4, <2>5, <1>1, CopyDamaged
  <1>3. ASSUME LoseEntry(i) PROVE AuditInv'
    <2> DEFINE copy == RemoveAt(entries, i)
    <2>1. Damaged(copy)
      BY <1>3 DEF LoseEntry
    <2>2. /\ copy \in Seq(Items(entries)) /\ Len(copy) = Len(entries) - 1
          /\ \A k \in 1..Len(entries) - 1 :
                copy[k] = IF k < i THEN entries[k] ELSE entries[k + 1]
      <3> DEFINE S == Items(entries)
      <3>1. entries \in Seq(S) /\ i \in 1..Len(entries)
        BY <1>0
      <3> HIDE DEF S, copy
      <3>2. /\ RemoveAt(entries, i) \in Seq(S) /\ Len(RemoveAt(entries, i)) = Len(entries) - 1
            /\ \A k \in 1..Len(entries) - 1 :
                  RemoveAt(entries, i)[k] = IF k < i THEN entries[k] ELSE entries[k + 1]
        BY <3>1, RemovedEntry
      <3> QED BY <3>2 DEF S, copy
    <2> HIDE DEF copy
    <2>3. DOMAIN copy = 1..Len(entries) - 1 /\ copy \in [1..Len(copy) -> Items(entries)]
      BY <2>2, <1>0, LenProperties
    <2>4. copy \in Seq(Items(copy))
      <3>1. \A x \in DOMAIN copy : copy[x] \in Items(copy)
        BY DEF Items
      <3>2. copy \in [1..Len(copy) -> Items(copy)]
        BY <3>1, <2>2, <2>3
      <3> QED BY <3>2, <2>2, <2>3, <1>0, IsASeq
    <2>5. ASSUME NEW x \in DOMAIN copy
          PROVE  Copied(copy[x], entries)
      <3>1. PICK k \in DOMAIN entries : copy[x] = entries[k]
        BY <2>2, <2>3, <1>0
      <3> QED BY <3>1 DEF AuditInv, Copied, ComesFrom
    <2>6. Len(copy) <= MaxEntries
      BY <2>2, <1>0, AuditAssumption
    <2> QED BY <2>1, <2>4, <2>5, <2>6, CopyDamaged
  <1>4. ASSUME NEW j \in DOMAIN entries, ExchangeEntries(i, j) PROVE AuditInv'
    <2> DEFINE copy == [entries EXCEPT ![i] = entries[j], ![j] = entries[i]]
    <2>1. Damaged(copy)
      BY <1>4 DEF ExchangeEntries
    <2>2. DOMAIN copy = 1..Len(entries) /\ copy = [x \in 1..Len(entries) |-> copy[x]]
      BY <1>0
    <2>3. ASSUME NEW x \in DOMAIN copy
          PROVE  Copied(copy[x], entries)
      <3>1. PICK k \in DOMAIN entries : copy[x] = entries[k]
        BY <2>2, <1>0
      <3> QED BY <3>1 DEF AuditInv, Copied, ComesFrom
    <2> HIDE DEF copy
    <2> QED BY <2>1, <2>2, <2>3, <1>1, CopyDamaged
  <1> QED BY <1>2, <1>3, <1>4

LEMMA AuditInvHolds == AuditSpec => []AuditInv
  <1>1. AuditInit => AuditInv
    BY AuditAssumption, EmptySeq DEF AuditInit, AuditInv, Items
  <1>2. AuditInv /\ [AuditNext]_auditvars => AuditInv'
    <2> SUFFICES ASSUME AuditInv, [AuditNext]_auditvars PROVE AuditInv'
      OBVIOUS
    <2>1. CASE UNCHANGED auditvars
      BY <2>1 DEF auditvars, AuditInv, Items, Copied, LinkedAt, IsEntry, ComesFrom
    <2>2. CASE \E e \in AuditEvents : AppendEntry(e)
      BY <2>2, EntryAppended DEF AllEvents
    <2>3. CASE EmitFails
      BY <2>3, EntryAppended DEF AllEvents, EmitFails
    <2> QED BY <2>1, <2>2, <2>3, DamageKeeps DEF AuditNext
  <1> QED BY <1>1, <1>2, PTL DEF AuditSpec

\* What a digest covers places an entry: only the entry appended there fits.
LEMMA ChainPlaces ==
    ASSUME AuditInv, ChainVerifies, NEW i \in DOMAIN entries,
           i # 1 => i - 1 \in DOMAIN appended /\ entries[i - 1] = appended[i - 1]
    PROVE  i \in DOMAIN appended /\ entries[i] = appended[i]
  <1>1. /\ DOMAIN entries = 1..Len(entries) /\ Len(entries) \in Nat
        /\ DOMAIN appended = 1..Len(appended) /\ Len(appended) \in Nat
    BY LenProperties DEF AuditInv
  <1>2. IsEntry(entries[i])
    BY DEF AuditInv, Copied
  <1>3. PICK j \in DOMAIN appended : ComesFrom(entries[i], appended[j])
    BY DEF AuditInv, Copied
  <1>4. LinkedAt(appended, j)
    BY DEF AuditInv
  <1>5. /\ entries[i].previous = Previous(i)
        /\ entries[i].digest = DigestOf(entries[i].sequence, entries[i].event, Previous(i))
    BY DEF ChainVerifies
  <1>6. appended[j].digest = DigestOf(j, appended[j].event, appended[j].previous)
    BY <1>4 DEF LinkedAt
  <1>7. /\ entries[i].sequence = appended[j].sequence
        /\ entries[i].event = appended[j].event
        /\ entries[i].previous = appended[j].previous
        /\ entries[i].digest = appended[j].digest
    <2>1. /\ entries[i].sequence = appended[j].sequence
          /\ entries[i].previous = appended[j].previous
          /\ entries[i].digest = appended[j].digest
      BY <1>3 DEF ComesFrom
    <2>2. DigestOf(entries[i].sequence, entries[i].event, Previous(i))
          = DigestOf(j, appended[j].event, appended[j].previous)
      BY <2>1, <1>5, <1>6
    <2>3. \A u, v, w, x, y, z : DigestOf(u, v, w) = DigestOf(x, y, z) => v = y
      BY DEF DigestOf
    <2> QED BY <2>1, <2>2, <2>3
  <1>8. entries[i] = appended[j]
    <2>1. IsEntry(appended[j])
      BY <1>4 DEF LinkedAt
    <2>2. \A x \in EntryFields : entries[i][x] = appended[j][x]
      BY <1>7 DEF EntryFields
    <2>3. [x \in EntryFields |-> entries[i][x]] = [x \in EntryFields |-> appended[j][x]]
      BY <2>2
    <2> QED BY <1>2, <2>1, <2>3 DEF IsEntry
  <1>9. appended[j].previous = Previous(i)
    BY <1>5, <1>7
  <1>10. \A k \in DOMAIN appended : appended[k].digest[1] = k /\ appended[k].digest # Genesis
    <2>1. ASSUME NEW k \in DOMAIN appended
          PROVE  appended[k].digest = DigestOf(k, appended[k].event, appended[k].previous)
      BY DEF AuditInv, LinkedAt
    <2>2. \A u, v, w : DigestOf(u, v, w)[1] = u /\ DigestOf(u, v, w) # Genesis
      BY DEF DigestOf, Genesis
    <2> QED BY <2>1, <2>2
  <1>11. i = j
    <2>1. CASE i = 1
      <3>1. appended[j].previous = Genesis
        BY <1>9, <2>1 DEF Previous
      <3>2. j # 1 => j - 1 \in DOMAIN appended /\ appended[j].previous = appended[j - 1].digest
        BY <1>1, <1>4 DEF LinkedAt
      <3> QED BY <2>1, <3>1, <3>2, <1>10
    <2>2. CASE i # 1
      <3>1. appended[j].previous = appended[i - 1].digest
        BY <1>9, <2>2 DEF Previous
      <3>2. j # 1
        BY <3>1, <2>2, <1>4, <1>10 DEF LinkedAt
      <3>3. j - 1 \in DOMAIN appended /\ appended[j].previous = appended[j - 1].digest
        BY <3>2, <1>1, <1>4 DEF LinkedAt
      <3>4. i - 1 = j - 1
        BY <3>1, <3>3, <2>2, <1>10
      <3> QED BY <3>4, <1>1
    <2> QED BY <2>1, <2>2
  <1> QED BY <1>8, <1>11

\* The first entry that is not as appended would not have been accepted.
LEMMA ChainIsPrefix ==
    ASSUME AuditInv, ChainVerifies
    PROVE  \A i \in DOMAIN entries : i \in DOMAIN appended /\ entries[i] = appended[i]
  <1> DEFINE Wrong == {i \in DOMAIN entries : ~ (i \in DOMAIN appended /\ entries[i] = appended[i])}
  <1> SUFFICES ASSUME Wrong # {} PROVE FALSE
    OBVIOUS
  <1>1. DOMAIN entries = 1..Len(entries) /\ Len(entries) \in Nat
    BY LenProperties DEF AuditInv
  <1>2. PICK i \in Wrong : \A j \in Wrong : i <= j
    <2>1. Wrong \in SUBSET (1..Len(entries))
      BY <1>1
    <2> HIDE DEF Wrong
    <2> QED BY <1>1, <2>1, LeastExists
  <1>3. i # 1 => i - 1 \in DOMAIN entries /\ i - 1 \notin Wrong
    BY <1>1, <1>2
  <1> QED BY <1>2, <1>3, ChainPlaces

LEMMA PrefixIs ==
    ASSUME AuditInv
    PROVE  IsPrefix(entries, appended)
           <=> \A i \in DOMAIN entries : i \in DOMAIN appended /\ entries[i] = appended[i]
  <1> DEFINE n == Len(entries)
             a == SubSeq(entries, 1, n)
             b == SubSeq(appended, 1, n)
             S == Items(entries) \cup Items(appended)
  <1>1. /\ DOMAIN entries = 1..n /\ n \in Nat
        /\ DOMAIN appended = 1..Len(appended) /\ Len(appended) \in Nat
    BY LenProperties DEF AuditInv
  <1>2. a \in Seq(S) /\ Len(a) = n /\ \A i \in 1..n : a[i] = entries[i]
    <2>1. \A i \in 1..n : entries[i] \in S
      BY <1>1 DEF Items
    <2> QED BY <1>1, <2>1, SubSeqProperties
  <1>3. ASSUME n <= Len(appended)
        PROVE  b \in Seq(S) /\ Len(b) = n /\ \A i \in 1..n : b[i] = appended[i]
    <2>1. \A i \in 1..n : appended[i] \in S
      BY <1>1, <1>3 DEF Items
    <2> QED BY <1>1, <2>1, SubSeqProperties
  <1>4. ASSUME IsPrefix(entries, appended)
        PROVE  \A i \in DOMAIN entries : i \in DOMAIN appended /\ entries[i] = appended[i]
    <2>1. n <= Len(appended) /\ a = b
      BY <1>4 DEF IsPrefix
    <2> HIDE DEF a, b
    <2> QED BY <2>1, <1>1, <1>2, <1>3
  <1>5. ASSUME \A i \in DOMAIN entries : i \in DOMAIN appended /\ entries[i] = appended[i]
        PROVE  IsPrefix(entries, appended)
    <2>1. n <= Len(appended)
      BY <1>1, <1>5
    <2>2. b \in Seq(S) /\ Len(b) = n /\ \A i \in 1..n : b[i] = a[i]
      BY <2>1, <1>1, <1>2, <1>3, <1>5
    <2> HIDE DEF a, b, S
    <2>3. a = b
      BY <2>2, <1>2, SeqEqual
    <2> QED BY <2>1, <2>3 DEF IsPrefix, a, b
  <1> QED BY <1>4, <1>5

\* THEOREM: the chain verifies exactly if the ledger is what was appended, up to entries
\* missing at the end, whatever entries were changed, removed or exchanged (actions.py,
\* ActionAuditLedger).
THEOREM DamageIsTold == AuditSpec => [](ChainTellsDamage /\ AuditTypeOK)
  <1>1. ASSUME AuditInv, \A i \in DOMAIN entries : i \in DOMAIN appended /\ entries[i] = appended[i]
        PROVE  ChainVerifies
    <2> SUFFICES ASSUME NEW i \in DOMAIN entries
                 PROVE  /\ entries[i].previous = Previous(i)
                        /\ entries[i].digest = DigestOf(entries[i].sequence, entries[i].event, Previous(i))
      BY DEF ChainVerifies
    <2>1. LinkedAt(appended, i) /\ entries[i] = appended[i]
      BY <1>1 DEF AuditInv
    <2>2. i # 1 => entries[i - 1] = appended[i - 1]
      <3>1. DOMAIN entries = 1..Len(entries) /\ Len(entries) \in Nat
        BY <1>1, LenProperties DEF AuditInv
      <3> QED BY <1>1, <3>1
    <2> QED BY <2>1, <2>2 DEF LinkedAt, Previous
  <1>2. AuditInv => ChainTellsDamage
    BY <1>1, ChainIsPrefix, PrefixIs DEF ChainTellsDamage
  <1>3. AuditInv => AuditTypeOK
    BY DEF AuditInv, AuditTypeOK, Copied, IsEntry
  <1> QED BY <1>2, <1>3, AuditInvHolds, PTL

-----------------------------------------------------------------------------
(* Pages of a collection *)

LEMMA PartOf ==
    ASSUME NEW s \in Seq(Nat), NEW a \in 0..Len(s), NEW b \in a..Len(s)
    PROVE  /\ SubSeq(s, a + 1, b) \in Seq(Nat) /\ Len(SubSeq(s, a + 1, b)) = b - a
           /\ \A k \in 1..b - a : SubSeq(s, a + 1, b)[k] = s[a + k]
  <1>1. Len(s) \in Nat /\ \A i \in 1..Len(s) : s[i] \in Nat
    BY LenProperties, ElementOfSeq
  <1>2. a + 1 \in Int /\ b \in Int /\ \A i \in a + 1..b : s[i] \in Nat
    BY <1>1
  <1> DEFINE r == SubSeq(s, a + 1, b)
  <1>3. /\ r \in Seq(Nat) /\ Len(r) = IF a + 1 <= b THEN b - (a + 1) + 1 ELSE 0
        /\ \A k \in 1..b - (a + 1) + 1 : r[k] = s[a + 1 + k - 1]
    BY <1>2, SubSeqProperties
  <1> HIDE DEF r
  <1>4. r \in Seq(Nat) /\ Len(r) = b - a /\ \A k \in 1..b - a : r[k] = s[a + k]
    BY <1>1, <1>3
  <1> QED BY <1>4 DEF r

LEMMA PartOfPart ==
    ASSUME NEW s \in Seq(Nat), NEW a \in 0..Len(s), NEW b \in a..Len(s),
           NEW c \in 0..b - a, NEW d \in c..b - a
    PROVE  SubSeq(SubSeq(s, a + 1, b), c + 1, d) = SubSeq(s, a + c + 1, a + d)
  <1> DEFINE r == SubSeq(s, a + 1, b)
             left == SubSeq(r, c + 1, d)
             right == SubSeq(s, a + c + 1, a + d)
  <1>1. Len(s) \in Nat
    BY LenProperties
  <1>2. r \in Seq(Nat) /\ Len(r) = b - a /\ \A k \in 1..b - a : r[k] = s[a + k]
    BY PartOf
  <1> HIDE DEF r
  <1>3. c \in 0..Len(r) /\ d \in c..Len(r) /\ a + c \in 0..Len(s) /\ a + d \in a + c..Len(s)
    BY <1>1, <1>2
  <1>4. left \in Seq(Nat) /\ Len(left) = d - c /\ \A k \in 1..d - c : left[k] = r[c + k]
    BY <1>2, <1>3, PartOf
  <1>5. /\ right \in Seq(Nat) /\ Len(right) = (a + d) - (a + c)
        /\ \A k \in 1..(a + d) - (a + c) : right[k] = s[(a + c) + k]
    BY <1>3, PartOf
  <1> HIDE DEF left, right
  <1>6. (a + d) - (a + c) = d - c /\ \A k \in 1..d - c : c + k \in 1..b - a /\ a + (c + k) = (a + c) + k
    BY <1>1
  <1>7. Len(left) = Len(right) /\ \A k \in 1..Len(left) : left[k] = right[k]
    BY <1>2, <1>4, <1>5, <1>6
  <1>8. left = right
    BY <1>4, <1>5, <1>7, SeqEqual
  <1> QED BY <1>8 DEF left, right, r

Found == Len(Filtered)

LEMMA FilteredIs ==
    ASSUME collection \in Collections
    PROVE  Filtered \in Seq(Nat) /\ Found \in Nat /\ Found <= Len(collection)
  <1> DEFINE I == {i \in DOMAIN collection : wanted = "all" \/ collection[i] = wanted}
             n == Len(collection)
  <1>1. n \in Nat /\ DOMAIN collection = 1..n
    BY PagingAssumption
  <1>2. IsFiniteSet(1..n) /\ Cardinality(1..n) = n
    <2>1. \A k \in Nat : IsFiniteSet(1..k) /\ Cardinality(1..k) = k
      BY FS_Interval
    <2> QED BY <1>1, <2>1
  <1>3. I \in SUBSET (1..n) /\ IsFiniteSet(I) /\ Cardinality(I) <= n
    BY <1>1, <1>2, FS_Subset
  <1>4. I \in SUBSET Nat
    BY <1>1, <1>3
  <1>5. Filtered = Increasing(I)
    BY DEF Filtered
  <1> HIDE DEF I
  <1>6. Cardinality(I) \in Nat /\ Filtered \in [1..Cardinality(I) -> I]
    BY <1>3, <1>4, <1>5, IncreasingIs
  <1>7. Filtered \in [1..Cardinality(I) -> Nat]
    BY <1>4, <1>6
  <1>8. Filtered \in Seq(Nat) /\ Len(Filtered) = Cardinality(I)
    BY <1>6, <1>7, LenProperties
  <1> QED BY <1>3, <1>6, <1>8 DEF Found

Bound == AtMost(limit, Found)

\* A reader has the first of what is asked for, up to its cursor and the limit.
PagesInv ==
    /\ collection \in Collections /\ limit \in Nat \ {0} /\ pageSize \in Nat \ {0}
    /\ reader \in {"rest", "offline"} /\ reading \in {"reading", "done", "failed"}
    /\ cursor \in 0..Found /\ rows = SubSeq(Filtered, 1, AtMost(cursor, limit))
    /\ calls \in Nat /\ batches \in Seq(Nat) /\ \A i \in DOMAIN batches : batches[i] <= limit
    /\ reader = "offline" => cursor <= limit
    /\ reading = "reading" => (cursor < limit /\ cursor < Found) \/ cursor = 0
    /\ reading = "reading" => calls <= cursor
    /\ reading = "done" => cursor >= Bound

LEMMA RowsAre ==
    ASSUME PagesInv
    PROVE  /\ Filtered \in Seq(Nat) /\ Found \in Nat /\ Found = Len(Filtered)
           /\ rows \in Seq(Nat) /\ Len(rows) = AtMost(cursor, limit)
  <1>1. Filtered \in Seq(Nat) /\ Found \in Nat /\ Found = Len(Filtered)
    BY FilteredIs DEF PagesInv, Found
  <1>2. AtMost(cursor, limit) \in 0..Len(Filtered)
    BY <1>1 DEF PagesInv, AtMost
  <1>3. /\ SubSeq(Filtered, 0 + 1, AtMost(cursor, limit)) \in Seq(Nat)
        /\ Len(SubSeq(Filtered, 0 + 1, AtMost(cursor, limit))) = AtMost(cursor, limit) - 0
    BY <1>1, <1>2, PartOf
  <1>4. 0 + 1 = 1 /\ AtMost(cursor, limit) - 0 = AtMost(cursor, limit)
    BY <1>2
  <1> QED BY <1>1, <1>3, <1>4 DEF PagesInv

\* What a slice is, and what the rows become with a part of it.
LEMMA SliceIs ==
    ASSUME PagesInv, NEW n \in Nat
    PROVE  LET e == AtMost(cursor + n, Found)
           IN /\ e \in cursor..Found
              /\ Slice(cursor, n) = SubSeq(Filtered, cursor + 1, e)
              /\ Len(Slice(cursor, n)) = e - cursor /\ EndOf(cursor, n) = e
  <1> DEFINE e == AtMost(cursor + n, Found)
  <1>1. Filtered \in Seq(Nat) /\ Found \in Nat /\ Found = Len(Filtered)
    BY RowsAre
  <1>2. cursor \in 0..Len(Filtered) /\ e \in cursor..Len(Filtered)
    BY <1>1 DEF PagesInv, AtMost
  <1>3. Slice(cursor, n) = SubSeq(Filtered, cursor + 1, e)
    BY <1>1 DEF Slice
  <1> HIDE DEF e
  <1>4. Len(Slice(cursor, n)) = e - cursor
    BY <1>1, <1>2, <1>3, PartOf
  <1>5. EndOf(cursor, n) = e
    BY <1>2, <1>4 DEF EndOf
  <1> QED BY <1>1, <1>2, <1>3, <1>4, <1>5 DEF e

LEMMA PageFetched ==
    ASSUME PagesInv, FetchPage
    PROVE  PagesInv'
  <1> DEFINE c == cursor
             e == AtMost(c + pageSize, Found)
             page == Slice(c, pageSize)
             d == AtMost(e - c, limit - c)
             all == rows \o Kept(page)
  <1>1. /\ Filtered \in Seq(Nat) /\ Found \in Nat /\ Found = Len(Filtered)
        /\ rows \in Seq(Nat) /\ Len(rows) = AtMost(c, limit)
    BY RowsAre
  <1>2. /\ reader = "rest" /\ reading = "reading" /\ UNCHANGED pageinput
        /\ rows' = all /\ calls' = calls + 1 /\ cursor' = EndOf(c, pageSize)
        /\ IF MorePages(c, pageSize) /\ Len(all) < limit
           THEN UNCHANGED <<reading, batches>> ELSE RestEnds(all)
    BY DEF FetchPage
  <1>3. UNCHANGED <<reader, collection, wanted, limit, pageSize>>
    BY <1>2 DEF pageinput
  <1>4. limit \in Nat \ {0} /\ pageSize \in Nat \ {0} /\ c \in 0..Found /\ c <= limit
        /\ ((c < limit /\ c < Found) \/ c = 0) /\ calls \in Nat /\ calls <= c
    BY <1>1, <1>2 DEF PagesInv
  <1>5. /\ e \in c..Found /\ page = SubSeq(Filtered, c + 1, e)
        /\ Len(page) = e - c /\ EndOf(c, pageSize) = e
    BY <1>4, SliceIs
  <1>6. Len(rows) = c /\ rows = SubSeq(Filtered, 1, c)
    BY <1>1, <1>4 DEF AtMost, PagesInv
  <1> HIDE DEF page
  <1>7. d \in 0..e - c /\ c + d = AtMost(e, limit)
    <2> HIDE DEF c, e, d, all
    <2>1. c \in Nat /\ e \in Nat /\ limit \in Nat /\ c <= e /\ c <= limit
      BY <1>1, <1>4, <1>5
    <2>2. d = IF e - c < limit - c THEN e - c ELSE limit - c
      BY DEF d, AtMost
    <2>3. CASE e < limit
      <3>1. e - c < limit - c /\ e - c \in 0..e - c /\ c + (e - c) = e
        BY <2>1, <2>3
      <3> QED BY <2>2, <2>3, <3>1 DEF AtMost
    <2>4. CASE ~ (e < limit)
      <3>1. ~ (e - c < limit - c) /\ limit - c \in 0..e - c /\ c + (limit - c) = limit
        BY <2>1, <2>4
      <3> QED BY <2>2, <2>4, <3>1 DEF AtMost
    <2> QED BY <2>3, <2>4
  <1>8. Kept(page) = SubSeq(Filtered, c + 1, c + d)
    <2>1. Kept(page) = SubSeq(page, 1, d)
      BY <1>5, <1>6 DEF Kept
    <2>2. /\ Filtered \in Seq(Nat) /\ c \in 0..Len(Filtered) /\ e \in c..Len(Filtered)
          /\ 0 \in 0..e - c /\ d \in 0..e - c
      BY <1>1, <1>4, <1>5, <1>7
    <2>3. SubSeq(SubSeq(Filtered, c + 1, e), 0 + 1, d) = SubSeq(Filtered, c + 0 + 1, c + d)
      BY <2>2, PartOfPart
    <2>4. 0 + 1 = 1 /\ c + 0 + 1 = c + 1
      BY <1>4
    <2> QED BY <2>1, <2>3, <2>4, <1>5
  <1>9. all = SubSeq(Filtered, 1, c + d) /\ Len(all) = c + d
    <2> HIDE DEF e, d, AtMost
    <2> DEFINE n == Len(Filtered)
    <2>6. n \in Nat /\ c \in 0..n /\ e \in c..n /\ d \in 0..e - c
      BY <1>1, <1>4, <1>5, <1>7
    <2> HIDE DEF n
    <2>7. 1 \in 1..n + 1 /\ c \in 1 - 1..n /\ c + d \in c..n
      BY <2>6
    <2>1. /\ Filtered \in Seq(Nat) /\ 1 \in 1..Len(Filtered) + 1 /\ c \in 1 - 1..Len(Filtered)
          /\ c + d \in c..Len(Filtered)
      BY <2>7, <1>1 DEF n
    <2>2. SubSeq(Filtered, 1, c) \o SubSeq(Filtered, c + 1, c + d) = SubSeq(Filtered, 1, c + d)
      BY <2>1, ConcatAdjacentSubSeq
    <2>8. 0 \in 0..n /\ c + d \in 0..n
      BY <2>6
    <2>3. 0 \in 0..Len(Filtered) /\ c + d \in 0..Len(Filtered)
      BY <2>8 DEF n
    <2>4. Len(SubSeq(Filtered, 0 + 1, c + d)) = (c + d) - 0
      BY <1>1, <2>3, PartOf
    <2>5. 0 + 1 = 1 /\ (c + d) - 0 = c + d
      BY <2>6
    <2> QED BY <2>2, <2>4, <2>5, <1>6, <1>8
  <1> HIDE DEF all, e, d
  <1>10. Filtered' = Filtered /\ Found' = Found
    BY <1>3 DEF Filtered, Found
  <1>11. cursor' = e /\ rows' = SubSeq(Filtered, 1, AtMost(e, limit)) /\ Len(all) = AtMost(e, limit)
    BY <1>2, <1>5, <1>7, <1>9
  <1>12. CASE MorePages(c, pageSize) /\ Len(all) < limit
    <2>1. e < limit /\ e < Found /\ UNCHANGED <<reading, batches>>
      BY <1>12, <1>2, <1>4, <1>5, <1>11, <1>1 DEF MorePages, AtMost, Found
    <2>2. e > c
      BY <2>1, <1>4, <1>1 DEF e, AtMost
    <2>3. calls' \in Nat /\ calls' <= e
      BY <2>2, <1>2, <1>4, <1>5
    <2>4. e \in 0..Found
      BY <1>4, <1>5, <1>1
    <2> QED BY <2>1, <2>3, <2>4, <1>2, <1>3, <1>10, <1>11 DEF PagesInv, Bound, AtMost
  <1>13. CASE ~ (MorePages(c, pageSize) /\ Len(all) < limit)
    <2>1. RestEnds(all)
      BY <1>2, <1>13
    <2>2. e \in 0..Found /\ calls' \in Nat /\ Len(all) \in Nat /\ Len(all) <= limit
      BY <1>1, <1>2, <1>4, <1>5, <1>11 DEF AtMost
    <2>3. e >= Bound
      BY <1>13, <1>1, <1>4, <1>5, <1>11, <2>2 DEF MorePages, Bound, AtMost, Found
    <2>4. reading' \in {"done", "failed"}
      BY <2>1 DEF RestEnds
    <2>5. batches' \in Seq(Nat) /\ \A i \in DOMAIN batches' : batches'[i] <= limit
      <3>1. batches' = batches \/ batches' = <<Len(all)>>
        BY <2>1 DEF RestEnds
      <3>2. CASE batches' = batches
        BY <3>2 DEF PagesInv
      <3>3. CASE batches' = <<Len(all)>>
        <4> DEFINE z == Len(all)
        <4>1. z \in Nat /\ z <= limit /\ batches' = <<z>>
          BY <2>2, <3>3
        <4> HIDE DEF z
        <4> QED BY <4>1
      <3> QED BY <3>1, <3>2, <3>3
    <2>6. Bound' = Bound
      BY <1>3, <1>10 DEF Bound, AtMost
    <2> QED BY <2>2, <2>3, <2>4, <2>5, <2>6, <1>2, <1>3, <1>4, <1>10, <1>11
            DEF PagesInv, AtMost
  <1> QED BY <1>12, <1>13

LEMMA PageYielded ==
    ASSUME PagesInv, YieldPage
    PROVE  PagesInv'
  <1> DEFINE c == cursor
             b == Bound
             n == AtMost(c + AtMost(pageSize, limit), b)
             part == SubSeq(OfflineRows, c + 1, n)
  <1>1. /\ Filtered \in Seq(Nat) /\ Found \in Nat /\ Found = Len(Filtered)
        /\ rows \in Seq(Nat) /\ Len(rows) = AtMost(c, limit)
    BY RowsAre
  <1>2. limit \in Nat \ {0} /\ pageSize \in Nat \ {0} /\ c \in 0..Found /\ c <= limit
        /\ calls \in Nat /\ calls <= c /\ reading = "reading" /\ reader = "offline"
    BY DEF PagesInv, YieldPage
  <1>3. b \in 0..Found /\ b <= limit /\ c \in 0..b /\ (limit > Found => b = Found) /\ b = AtMost(0 + limit, Found)
    BY <1>1, <1>2 DEF Bound, AtMost
  <1>4. OfflineRows = SubSeq(Filtered, 0 + 1, b)
    BY <1>1, <1>3 DEF OfflineRows, Slice
  <1> HIDE DEF b
  <1>5. Len(OfflineRows) = b
    <2>1. 0 \in 0..Len(Filtered) /\ b \in 0..Len(Filtered)
      BY <1>1, <1>3
    <2>2. Len(SubSeq(Filtered, 0 + 1, b)) = b - 0
      BY <2>1, <1>1, PartOf
    <2> QED BY <2>2, <1>3, <1>4
  <1>6. n \in c..b /\ (n < b => n >= c + 1)
    <2> DEFINE z == AtMost(pageSize, limit)
    <2>1. z \in Nat /\ z >= 1
      BY <1>2 DEF AtMost
    <2>2. Found \in Nat /\ b \in Nat /\ c \in Nat /\ c <= b
      BY <1>1, <1>2, <1>3
    <2> HIDE DEF z
    <2>3. AtMost(c + z, b) \in c..b /\ (AtMost(c + z, b) < b => AtMost(c + z, b) >= c + 1)
      BY <2>1, <2>2 DEF AtMost
    <2> QED BY <2>3 DEF z
  <1>7. /\ rows' = rows \o part /\ cursor' = c + Len(part) /\ calls' = calls + 1
        /\ batches' = Append(batches, Len(part)) /\ UNCHANGED pageinput
        /\ reading' = IF cursor' < b THEN "reading" ELSE "done"
    BY <1>5 DEF YieldPage
  <1>8. UNCHANGED <<reader, collection, wanted, limit, pageSize>>
    BY <1>7 DEF pageinput
  <1> HIDE DEF n
  <1>9. part = SubSeq(Filtered, c + 1, n)
    <2>1. /\ Filtered \in Seq(Nat) /\ 0 \in 0..Len(Filtered) /\ b \in 0..Len(Filtered)
          /\ c \in 0..b - 0 /\ n \in c..b - 0
      BY <1>1, <1>3, <1>6
    <2>2. SubSeq(SubSeq(Filtered, 0 + 1, b), c + 1, n) = SubSeq(Filtered, 0 + c + 1, 0 + n)
      BY <2>1, PartOfPart
    <2>3. 0 + c + 1 = c + 1 /\ 0 + n = n
      BY <1>3, <1>6
    <2> QED BY <2>2, <2>3, <1>4
  <1>10. Len(part) = n - c
    <2>1. c \in 0..Len(Filtered) /\ n \in c..Len(Filtered)
      BY <1>1, <1>3, <1>6
    <2> HIDE DEF part
    <2> QED BY <2>1, <1>1, <1>9, PartOf
  <1>11. rows = SubSeq(Filtered, 1, c)
    BY <1>2 DEF PagesInv, AtMost
  <1> HIDE DEF part
  <1>12. rows' = SubSeq(Filtered, 1, n)
    <2> DEFINE z == Len(Filtered)
    <2>1. z \in Nat /\ c \in 0..z /\ n \in c..z
      BY <1>1, <1>3, <1>6
    <2> HIDE DEF z
    <2>2. 1 \in 1..z + 1 /\ c \in 1 - 1..z /\ n \in c..z
      BY <2>1
    <2>3. /\ Filtered \in Seq(Nat) /\ 1 \in 1..Len(Filtered) + 1 /\ c \in 1 - 1..Len(Filtered)
          /\ n \in c..Len(Filtered)
      BY <2>2, <1>1 DEF z
    <2>4. SubSeq(Filtered, 1, c) \o SubSeq(Filtered, c + 1, n) = SubSeq(Filtered, 1, n)
      BY <2>3, ConcatAdjacentSubSeq
    <2> QED BY <2>4, <1>7, <1>9, <1>11
  <1>13. Filtered' = Filtered /\ Found' = Found
    BY <1>8 DEF Filtered, Found
  <1>14. Bound' = b
    BY <1>8, <1>13 DEF Bound, AtMost, b
  <1>15. cursor' = n /\ n <= limit /\ n \in 0..Found /\ rows' = SubSeq(Filtered, 1, AtMost(n, limit))
    <2>1. b \in Nat /\ c \in Nat /\ Found \in Nat /\ n \in Nat /\ c <= n /\ n <= b /\ b <= Found /\ b <= limit
      BY <1>1, <1>2, <1>3, <1>6
    <2>2. AtMost(n, limit) = n
      BY <2>1, <1>2 DEF AtMost
    <2>3. cursor' = n
      BY <2>1, <1>7, <1>10
    <2> QED BY <2>1, <2>2, <2>3, <1>12, <1>2
  <1>16. batches' \in Seq(Nat) /\ \A i \in DOMAIN batches' : batches'[i] <= limit
    <2> DEFINE z == Len(part)
    <2>1. z \in Nat /\ z <= limit /\ batches' = Append(batches, z)
      BY <1>2, <1>3, <1>6, <1>7, <1>10
    <2>2. batches \in Seq(Nat) /\ \A i \in DOMAIN batches : batches[i] <= limit
      BY DEF PagesInv
    <2> HIDE DEF z
    <2> QED BY <2>1, <2>2
  <1>17. /\ reading' \in {"reading", "done"} /\ calls' \in Nat
         /\ reading' = "reading" => n < limit /\ n < Found /\ calls' <= n
         /\ reading' = "done" => n >= b
    <2>1. b \in Nat /\ c \in Nat /\ Found \in Nat /\ n \in Nat /\ c <= n /\ n <= b /\ b <= Found /\ b <= limit
      BY <1>1, <1>2, <1>3, <1>6
    <2>2. reading' = IF n < b THEN "reading" ELSE "done"
      BY <1>7, <1>15
    <2>3. calls' = calls + 1 /\ calls \in Nat /\ calls <= c
      BY <1>2, <1>7
    <2>4. n < b => n >= c + 1
      BY <1>6
    <2>5. n < b => n < limit /\ n < Found /\ calls' <= n
      BY <2>1, <2>3, <2>4, <1>2
    <2> QED BY <2>1, <2>2, <2>3, <2>5
  <1> QED BY <1>2, <1>8, <1>13, <1>14, <1>15, <1>16, <1>17 DEF PagesInv, AtMost

LEMMA PagesInvHolds == PagesSpec => []PagesInv
  <1>1. PagesInit => PagesInv
    <2> SUFFICES ASSUME PagesInit PROVE PagesInv
      OBVIOUS
    <2>1. /\ collection \in Collections /\ limit \in Nat \ {0} /\ pageSize \in Nat \ {0}
          /\ reader \in {"rest", "offline"}
      BY PagingAssumption DEF PagesInit, PageInputs
    <2>2. cursor = 0 /\ rows = <<>> /\ calls = 0 /\ batches = <<>> /\ reading = "reading"
      BY DEF PagesInit
    <2>3. Filtered \in Seq(Nat) /\ Found \in Nat
      BY <2>1, FilteredIs
    <2>4. SubSeq(Filtered, 1, 0) = <<>>
      BY <2>3
    <2>5. AtMost(0, limit) = 0
      BY <2>1 DEF AtMost
    <2> QED BY <2>1, <2>2, <2>3, <2>4, <2>5 DEF PagesInv
  <1>2. PagesInv /\ [PagesNext]_pagevars => PagesInv'
    <2> SUFFICES ASSUME PagesInv, [PagesNext]_pagevars PROVE PagesInv'
      OBVIOUS
    <2>1. CASE FetchPage
      BY <2>1, PageFetched
    <2>2. CASE CallFails
      <3>1. UNCHANGED <<reader, collection, wanted, limit, pageSize, cursor, rows, calls, batches>>
            /\ reading' = "failed"
        BY <2>2 DEF CallFails, pageinput
      <3>2. Filtered' = Filtered /\ Found' = Found
        BY <3>1 DEF Filtered, Found
      <3> QED BY <3>1, <3>2 DEF PagesInv, AtMost
    <2>3. CASE YieldPage
      BY <2>3, PageYielded
    <2>4. CASE UNCHANGED pagevars
      <3>1. Filtered' = Filtered /\ Found' = Found /\ Bound' = Bound
        BY <2>4 DEF pagevars, Filtered, Found, Bound, AtMost
      <3> QED BY <2>4, <3>1 DEF pagevars, PagesInv, AtMost
    <2> QED BY <2>1, <2>2, <2>3, <2>4 DEF PagesNext
  <1> QED BY <1>1, <1>2, PTL DEF PagesSpec

\* THEOREM: however the page size divides the collection and the limit, a read that ends
\* well has the first rows asked for, and every call but the last gains a row (execute() of
\* the two service connectors, appointment_page()).
THEOREM PagesAreWhole == PagesSpec => [](PagesMakeTheCollection /\ EveryPageGains /\ PagesTypeOK)
  <1>1. PagesInv => PagesMakeTheCollection /\ EveryPageGains /\ PagesTypeOK
    <2> SUFFICES ASSUME PagesInv PROVE PagesMakeTheCollection /\ EveryPageGains /\ PagesTypeOK
      OBVIOUS
    <2>1. /\ Filtered \in Seq(Nat) /\ Found \in Nat /\ Found = Len(Filtered)
          /\ Len(rows) = AtMost(cursor, limit)
      BY RowsAre
    <2>2. Found <= Len(collection) /\ Len(collection) \in Nat
      BY FilteredIs, PagingAssumption DEF PagesInv
    <2>3. cursor \in 0..Found /\ limit \in Nat /\ calls \in Nat
      BY DEF PagesInv
    <2>4. reading = "done" => AtMost(cursor, limit) = AtMost(limit, Found)
      BY <2>1, <2>3 DEF PagesInv, Bound, AtMost
    <2>5. PagesMakeTheCollection
      BY <2>1, <2>4 DEF PagesInv, PagesMakeTheCollection
    <2>6. EveryPageGains
      BY <2>1, <2>3 DEF EveryPageGains, PagesInv, AtMost
    <2>7. PagesTypeOK
      BY <2>1, <2>2, <2>3 DEF PagesTypeOK, PagesInv, AtMost
    <2> QED BY <2>5, <2>6, <2>7
  <1> QED BY <1>1, PagesInvHolds, PTL

-----------------------------------------------------------------------------
(* The telemetry stream *)

\* The entries by their numbers are all the entries, in ascending order.
LEMMA SortedIs ==
    ASSUME NEW l \in Logs
    PROVE  /\ BySequence(l) \in Seq(Range(l))
           /\ \A i, j \in 1..Len(BySequence(l)) :
                 i < j => BySequence(l)[i].sequence < BySequence(l)[j].sequence
           /\ \A i \in DOMAIN l : \E k \in 1..Len(BySequence(l)) : BySequence(l)[k] = l[i]
  <1> DEFINE D == {l[i].sequence : i \in DOMAIN l}
             by == Numbered(l)
             r == BySequence(l)
             n == Cardinality(D)
  <1>1. /\ l \in Seq(Range(l))
        /\ \A i \in DOMAIN l : l[i].sequence \in Nat \ {0}
        /\ \A i, j \in DOMAIN l : l[i].sequence = l[j].sequence => i = j
    BY StreamAssumption
  <1>2. D \in SUBSET Nat
    BY <1>1
  <1>3. IsFiniteSet(D)
    <2>1. Len(l) \in Nat /\ DOMAIN l = 1..Len(l)
      BY <1>1, LenProperties
    <2>2. IsFiniteSet(DOMAIN l)
      BY <2>1, FS_Interval
    <2> DEFINE by2 == [i \in DOMAIN l |-> l[i].sequence]
    <2>3. by2 \in [DOMAIN l -> D] /\ \A x \in D : \E i \in DOMAIN l : by2[i] = x
      OBVIOUS
    <2>4. by2 \in Surjection(DOMAIN l, D)
      BY <2>3 DEF Surjection
    <2> HIDE DEF by2, D
    <2> QED BY <2>2, <2>4, FS_Surjection
  <1>4. \A i \in DOMAIN l : by[l[i].sequence] = l[i]
    <2> TAKE i \in DOMAIN l
    <2>1. l[i] \in Range(l)
      BY DEF Range
    <2>2. \A x \in Range(l) : x.sequence = l[i].sequence => x = l[i]
      BY <1>1 DEF Range
    <2>3. (CHOOSE e \in Range(l) : e.sequence = l[i].sequence) = l[i]
      BY <2>1, <2>2
    <2>4. l[i].sequence \in D
      OBVIOUS
    <2> QED BY <2>3, <2>4 DEF Numbered
  <1>5. DOMAIN by = D
    BY DEF Numbered
  <1>6. \A x \in D : by[x] \in Range(l) /\ by[x].sequence = x
    BY <1>4 DEF Range
  <1>7. r = EntriesAt(by, D)
    BY <1>5 DEF BySequence
  <1> HIDE DEF by, D, r
  <1>8. r \in Seq(Range(l)) /\ Len(r) = n
    BY <1>2, <1>3, <1>6, <1>7, EntriesAre
  <1>9. /\ n \in Nat /\ Increasing(D) \in [1..n -> D]
        /\ \A k \in 1..n : r[k] = by[Increasing(D)[k]]
        /\ \A k, m \in 1..n : k < m => Increasing(D)[k] < Increasing(D)[m]
        /\ \A x \in D : \E k \in 1..n : Increasing(D)[k] = x
    BY <1>2, <1>3, <1>7, EntriesAtIs
  <1> HIDE DEF n
  <1>10. \A k \in 1..n : r[k].sequence = Increasing(D)[k]
    BY <1>6, <1>9
  <1>11. \A i, j \in 1..n : i < j => r[i].sequence < r[j].sequence
    BY <1>9, <1>10
  <1>12. \A i \in DOMAIN l : \E k \in 1..n : r[k] = l[i]
    <2> TAKE i \in DOMAIN l
    <2>1. l[i].sequence \in D
      BY DEF D
    <2>2. PICK k \in 1..n : Increasing(D)[k] = l[i].sequence
      BY <1>9, <2>1
    <2>3. r[k] = l[i]
      BY <1>4, <1>9, <2>2
    <2> QED BY <2>3
  <1> QED BY <1>8, <1>11, <1>12 DEF r

\* The logical events are the first entry of each serial event, in ascending order.
LEMMA LogicalIs ==
    ASSUME NEW l \in Logs
    PROVE  /\ LogicalEvents(l) \in Seq(Range(l))
           /\ \A i, j \in 1..Len(LogicalEvents(l)) :
                 i < j => LogicalEvents(l)[i].sequence < LogicalEvents(l)[j].sequence
           /\ \A i, j \in 1..Len(LogicalEvents(l)) :
                 LogicalEvents(l)[i].id = LogicalEvents(l)[j].id => i = j
           /\ \A i \in DOMAIN l : l[i].serial =>
                 \E k \in 1..Len(LogicalEvents(l)) :
                     /\ LogicalEvents(l)[k].id = l[i].id
                     /\ LogicalEvents(l)[k].sequence <= l[i].sequence
  <1> DEFINE s == BySequence(l)
             m == Len(s)
             First(i) == s[i].serial /\ \A j \in 1..i - 1 : s[j].serial => s[j].id # s[i].id
             I == {i \in DOMAIN s : First(i)}
             r == LogicalEvents(l)
             n == Cardinality(I)
  <1>1. /\ s \in Seq(Range(l))
        /\ \A i, j \in 1..m : i < j => s[i].sequence < s[j].sequence
        /\ \A i \in DOMAIN l : \E k \in 1..m : s[k] = l[i]
    BY SortedIs
  <1>2. r = EntriesAt(s, I)
    BY DEF LogicalEvents, FirstsOf
  <1> HIDE DEF s, r
  <1>3. m \in Nat /\ DOMAIN s = 1..m /\ \A k \in 1..m : s[k] \in Range(l)
    BY <1>1, LenProperties, ElementOfSeq
  <1>4. I \in SUBSET (1..m) /\ I \in SUBSET Nat
    BY <1>3
  <1>5. IsFiniteSet(I)
    <2>1. IsFiniteSet(1..m)
      BY <1>3, FS_Interval
    <2> QED BY <2>1, <1>4, FS_Subset
  <1>6. \A i \in I : s[i] \in Range(l)
    BY <1>3, <1>4
  <1>7. \A i, j \in I : s[i].id = s[j].id => i = j
    <2> SUFFICES ASSUME NEW i \in I, NEW j \in I, s[i].id = s[j].id, i < j PROVE FALSE
      BY <1>4
    <2>1. i \in 1..j - 1 /\ s[i].serial
      BY <1>4
    <2> QED BY <2>1
  <1>8. \A k \in 1..m : s[k].serial => \E i \in I : s[i].id = s[k].id /\ i <= k
    <2> SUFFICES ASSUME NEW k \in 1..m, s[k].serial
                 PROVE  \E i \in I : s[i].id = s[k].id /\ i <= k
      OBVIOUS
    <2> DEFINE J == {i \in 1..m : s[i].serial /\ s[i].id = s[k].id}
    <2>1. J \in SUBSET (1..m) /\ J # {} /\ k \in J
      OBVIOUS
    <2>2. PICK i \in J : \A j \in J : i <= j
      BY <2>1, <1>3, LeastExists
    <2>3. i <= k /\ i \in 1..m /\ s[i].serial /\ s[i].id = s[k].id
      BY <2>1, <2>2
    <2>4. \A j \in 1..i - 1 : s[j].serial => s[j].id # s[i].id
      <3> SUFFICES ASSUME NEW j \in 1..i - 1, s[j].serial, s[j].id = s[i].id PROVE FALSE
        OBVIOUS
      <3>1. j \in 1..m /\ j < i
        BY <2>3, <1>3
      <3>2. j \in J
        BY <3>1, <2>3
      <3> QED BY <3>1, <3>2, <2>2
    <2>5. i \in I
      BY <2>3, <2>4, <1>3
    <2> QED BY <2>3, <2>5
  <1> HIDE DEF I
  <1>9. r \in Seq(Range(l)) /\ Len(r) = n
    BY <1>2, <1>4, <1>5, <1>6, EntriesAre
  <1>10. /\ n \in Nat /\ Increasing(I) \in [1..n -> I]
         /\ \A k \in 1..n : r[k] = s[Increasing(I)[k]]
         /\ \A k, j \in 1..n : k < j => Increasing(I)[k] < Increasing(I)[j]
         /\ \A x \in I : \E k \in 1..n : Increasing(I)[k] = x
    BY <1>2, <1>4, <1>5, EntriesAtIs
  <1> HIDE DEF n, m
  <1> DEFINE place == Increasing(I)
  <1> HIDE DEF place
  <1>11. \A k \in 1..n : place[k] \in I /\ place[k] \in 1..m /\ r[k] = s[place[k]]
    BY <1>4, <1>10 DEF place
  <1>12. \A i, j \in 1..n : i < j => r[i].sequence < r[j].sequence
    BY <1>1, <1>10, <1>11 DEF place
  <1>13. \A i, j \in 1..n : r[i].id = r[j].id => i = j
    <2> SUFFICES ASSUME NEW i \in 1..n, NEW j \in 1..n, r[i].id = r[j].id, i < j PROVE FALSE
      BY <1>10
    <2>1. place[i] = place[j]
      BY <1>7, <1>11
    <2>2. place[i] < place[j]
      BY <1>10 DEF place
    <2>3. place[i] \in Nat
      BY <1>11, <1>4
    <2> QED BY <2>1, <2>2, <2>3
  <1>14. \A i \in DOMAIN l : l[i].serial =>
            \E k \in 1..n : r[k].id = l[i].id /\ r[k].sequence <= l[i].sequence
    <2> SUFFICES ASSUME NEW i \in DOMAIN l, l[i].serial
                 PROVE  \E k \in 1..n : r[k].id = l[i].id /\ r[k].sequence <= l[i].sequence
      OBVIOUS
    <2>1. PICK j \in 1..m : s[j] = l[i]
      BY <1>1
    <2>2. PICK a \in I : s[a].id = s[j].id /\ a <= j
      BY <1>8, <2>1
    <2>3. PICK k \in 1..n : place[k] = a
      BY <1>10, <2>2 DEF place
    <2>4. r[k] = s[a]
      BY <1>11, <2>3
    <2>5. a \in 1..m /\ (a = j \/ a < j)
      BY <1>4, <2>2, <1>3
    <2>6. l[i].sequence \in Nat
      BY StreamAssumption
    <2>7. s[a].sequence <= s[j].sequence
      <3>1. CASE a = j
        BY <3>1, <2>6, <2>1
      <3>2. CASE a < j
        <4>1. s[a].sequence < s[j].sequence
          BY <3>2, <2>5, <1>1
        <4>2. s[a] \in Range(l)
          BY <2>5, <1>3
        <4>3. s[a].sequence \in Nat
          BY <4>2, StreamAssumption DEF Range
        <4> QED BY <4>1, <4>3, <2>1, <2>6
      <3> QED BY <3>1, <3>2, <2>5
    <2> QED BY <2>1, <2>2, <2>4, <2>7
  <1> QED BY <1>9, <1>12, <1>13, <1>14 DEF r

Streamed == LogicalEvents(log)
Deliveries == 1..Len(Streamed)

\* What an open subscription has left is what lies beyond the event processed last.
Outstanding ==
    /\ pending \in Seq(Range(log))
    /\ \A i, j \in 1..Len(pending) : i < j => pending[i].sequence < pending[j].sequence
    /\ \A i \in 1..Len(pending) :
          pending[i].sequence > handled /\ \E k \in Deliveries : pending[i] = Streamed[k]
    /\ \A k \in Deliveries :
          Streamed[k].sequence > handled => \E i \in 1..Len(pending) : pending[i] = Streamed[k]

\* Each event up to the last one processed has been processed: once, but for crashes.
StreamInv ==
    /\ log \in Logs /\ available \in BOOLEAN
    /\ handled \in Positions(log) /\ position \in Positions(log) /\ position <= handled
    /\ crashes \in 0..MaxCrashes /\ processed \in [EventIds(log) -> Nat]
    /\ pending = Closed => handled = position
    /\ pending # Closed => Outstanding
    /\ \A k \in Deliveries :
          Streamed[k].sequence <= handled => processed[Streamed[k].id] > 0
    /\ \A x \in EventIds(log) :
          \/ processed[x] <= crashes
          \/ /\ processed[x] <= crashes + 1
             /\ \E k \in Deliveries : Streamed[k].id = x /\ Streamed[k].sequence <= handled

LEMMA StreamedIs ==
    ASSUME log \in Logs
    PROVE  /\ Streamed \in Seq(Range(log)) /\ Len(Streamed) \in Nat
           /\ \A x \in Range(log) :
                 x.sequence \in Nat \ {0} /\ x.sequence \in Positions(log) /\ x.id \in EventIds(log)
           /\ \A k \in Deliveries : Streamed[k] \in Range(log)
           /\ Positions(log) \in SUBSET Nat
  <1>1. Streamed \in Seq(Range(log))
    BY LogicalIs DEF Streamed
  <1>2. Len(Streamed) \in Nat /\ \A k \in Deliveries : Streamed[k] \in Range(log)
    BY <1>1, LenProperties, ElementOfSeq DEF Deliveries
  <1>3. \A i \in DOMAIN log : log[i].sequence \in Nat \ {0}
    BY StreamAssumption
  <1>4. \A x \in Range(log) :
            x.sequence \in Nat \ {0} /\ x.sequence \in Positions(log) /\ x.id \in EventIds(log)
    BY <1>3 DEF Range, Positions, EventIds
  <1>5. Positions(log) \in SUBSET Nat
    BY <1>3 DEF Positions
  <1> QED BY <1>1, <1>2, <1>4, <1>5

LEMMA SubscriptionIs ==
    ASSUME log \in Logs, position \in Nat
    PROVE  LET s == After(log, position)
           IN /\ s \in Seq(Range(log))
              /\ \A i, j \in 1..Len(s) : i < j => s[i].sequence < s[j].sequence
              /\ \A i \in 1..Len(s) :
                    s[i].sequence > position /\ \E k \in Deliveries : s[i] = Streamed[k]
              /\ \A k \in Deliveries :
                    Streamed[k].sequence > position => \E i \in 1..Len(s) : s[i] = Streamed[k]
  <1> DEFINE I == {k \in DOMAIN Streamed : Streamed[k].sequence > position}
             s == After(log, position)
             n == Cardinality(I)
             place == Increasing(I)
  <1>1. /\ Streamed \in Seq(Range(log)) /\ Len(Streamed) \in Nat
        /\ DOMAIN Streamed = Deliveries
        /\ \A k \in Deliveries : Streamed[k] \in Range(log)
    BY StreamedIs, LenProperties DEF Deliveries
  <1>2. s = EntriesAt(Streamed, I)
    BY DEF After, Streamed
  <1>3. I \in SUBSET Deliveries /\ I \in SUBSET Nat
    BY <1>1 DEF Deliveries
  <1>4. IsFiniteSet(I)
    <2>1. IsFiniteSet(Deliveries)
      BY <1>1, FS_Interval DEF Deliveries
    <2> QED BY <2>1, <1>3, FS_Subset
  <1>5. \A i \in I : Streamed[i] \in Range(log)
    BY <1>1, <1>3
  <1>6. \A k \in Deliveries : Streamed[k].sequence > position => k \in I
    BY <1>1
  <1>7. \A k \in I : Streamed[k].sequence > position
    OBVIOUS
  <1> HIDE DEF I, s
  <1>8. s \in Seq(Range(log)) /\ Len(s) = n
    BY <1>2, <1>3, <1>4, <1>5, EntriesAre
  <1>9. /\ n \in Nat /\ place \in [1..n -> I]
        /\ \A k \in 1..n : s[k] = Streamed[place[k]]
        /\ \A k, j \in 1..n : k < j => place[k] < place[j]
        /\ \A x \in I : \E k \in 1..n : place[k] = x
    BY <1>2, <1>3, <1>4, EntriesAtIs
  <1> HIDE DEF n, place
  <1>10. \A k \in 1..n : place[k] \in I /\ place[k] \in Deliveries
    BY <1>3, <1>9
  <1>11. \A i, j \in Deliveries : i < j => Streamed[i].sequence < Streamed[j].sequence
    BY LogicalIs DEF Streamed, Deliveries
  <1>12. \A i, j \in 1..n : i < j => s[i].sequence < s[j].sequence
    BY <1>9, <1>10, <1>11
  <1>13. \A i \in 1..n : s[i].sequence > position /\ \E k \in Deliveries : s[i] = Streamed[k]
    BY <1>7, <1>9, <1>10
  <1>14. \A k \in Deliveries :
            Streamed[k].sequence > position => \E i \in 1..n : s[i] = Streamed[k]
    BY <1>6, <1>9
  <1> QED BY <1>8, <1>12, <1>13, <1>14 DEF s

LEMMA LogStays ==
    ASSUME log' = log
    PROVE  /\ Streamed' = Streamed /\ Deliveries' = Deliveries
           /\ Positions(log)' = Positions(log) /\ EventIds(log)' = EventIds(log)
           /\ Range(log)' = Range(log)
  BY DEF Streamed, Deliveries, Positions, EventIds

LEMMA Processed ==
    ASSUME StreamInv, Process
    PROVE  StreamInv'
  <1> DEFINE h == Head(pending)
             rest == Tail(pending)
             n == Len(pending)
  <1>1. /\ log \in Logs /\ handled = position /\ pending # <<>> /\ pending # Closed
        /\ processed' = [processed EXCEPT ![h.id] = @ + 1] /\ handled' = h.sequence
        /\ pending' = rest /\ UNCHANGED <<log, available, position, crashes>>
        /\ Outstanding
    BY DEF Process, StreamInv
  <1>2. pending \in Seq(Range(log)) /\ n \in Nat /\ n >= 1 /\ h = pending[1]
    BY <1>1, LenProperties, EmptySeq DEF Outstanding
  <1>3. /\ rest \in Seq(Range(log)) /\ Len(rest) = n - 1
        /\ \A i \in 1..n - 1 : rest[i] = pending[i + 1]
    BY <1>1, <1>2
  <1>4. \A i \in 1..n : pending[i] \in Range(log)
    BY <1>2, ElementOfSeq
  <1>5. /\ \A x \in Range(log) :
              x.sequence \in Nat \ {0} /\ x.sequence \in Positions(log) /\ x.id \in EventIds(log)
        /\ \A k \in Deliveries : Streamed[k] \in Range(log)
    BY <1>1, StreamedIs
  <1>6. h \in Range(log)
    BY <1>2, <1>4
  <1>7. h.sequence \in Nat \ {0} /\ h.sequence \in Positions(log) /\ h.id \in EventIds(log)
    BY <1>5, <1>6
  <1>8. h.sequence > handled /\ \E k \in Deliveries : h = Streamed[k]
    BY <1>1, <1>2 DEF Outstanding
  <1>9. /\ handled \in Nat /\ position \in Nat /\ crashes \in Nat
        /\ processed \in [EventIds(log) -> Nat]
    BY <1>1, StreamedIs DEF StreamInv
  <1>10. /\ Streamed' = Streamed /\ Deliveries' = Deliveries
         /\ Positions(log)' = Positions(log) /\ EventIds(log)' = EventIds(log)
         /\ Range(log)' = Range(log)
    BY <1>1, LogStays
  <1> HIDE DEF h, rest, n
  <1>11. \A i \in 1..n : i # 1 => pending[i].sequence > h.sequence
    BY <1>1, <1>2 DEF Outstanding, n
  <1>12. Outstanding'
    <2>1. \A i, j \in 1..n - 1 : i < j => rest[i].sequence < rest[j].sequence
      <3> TAKE i, j \in 1..n - 1
      <3>1. i + 1 \in 1..n /\ j + 1 \in 1..n /\ (i < j => i + 1 < j + 1)
        BY <1>2
      <3>2. i + 1 < j + 1 => pending[i + 1].sequence < pending[j + 1].sequence
        BY <3>1, <1>1 DEF Outstanding, n
      <3> QED BY <3>1, <3>2, <1>3
    <2>2. \A i \in 1..n - 1 :
             rest[i].sequence > h.sequence /\ \E k \in Deliveries : rest[i] = Streamed[k]
      <3> TAKE i \in 1..n - 1
      <3>1. i + 1 \in 1..n /\ i + 1 # 1
        BY <1>2
      <3>2. \E k \in Deliveries : pending[i + 1] = Streamed[k]
        BY <3>1, <1>1 DEF Outstanding, n
      <3> QED BY <3>1, <3>2, <1>3, <1>11
    <2>3. \A k \in Deliveries :
             Streamed[k].sequence > h.sequence => \E i \in 1..n - 1 : rest[i] = Streamed[k]
      <3> SUFFICES ASSUME NEW k \in Deliveries, Streamed[k].sequence > h.sequence
                   PROVE  \E i \in 1..n - 1 : rest[i] = Streamed[k]
        OBVIOUS
      <3>1. Streamed[k].sequence \in Nat
        BY <1>5
      <3>2. Streamed[k].sequence > handled
        BY <3>1, <1>7, <1>8, <1>9
      <3>3. PICK i \in 1..n : pending[i] = Streamed[k]
        BY <3>2, <1>1 DEF Outstanding, n
      <3>4. i # 1
        BY <3>3, <3>1, <1>2, <1>7
      <3>5. i - 1 \in 1..n - 1 /\ (i - 1) + 1 = i
        BY <3>4, <1>2
      <3>6. rest[i - 1] = Streamed[k]
        BY <3>3, <3>5, <1>3
      <3> QED BY <3>5, <3>6
    <2> QED BY <2>1, <2>2, <2>3, <1>1, <1>3, <1>10 DEF Outstanding
  <1>13. pending' # Closed
    <2> SUFFICES ASSUME rest = Closed PROVE FALSE
      BY <1>1
    <2>1. Len(Closed) = 1 /\ Closed[1].sequence = 0
      BY DEF Closed
    <2>2. 1 \in 1..n - 1 /\ rest[1].sequence = 0
      BY <2>1, <1>3, <1>2
    <2>3. 1 + 1 \in 1..n
      BY <2>2, <1>2
    <2>4. pending[1 + 1].sequence = 0
      BY <2>2, <1>3
    <2>5. pending[1 + 1].sequence \in Nat \ {0}
      BY <2>3, <1>4, <1>5
    <2> QED BY <2>4, <2>5
  <1>14. /\ processed' \in [EventIds(log) -> Nat]
         /\ processed'[h.id] = processed[h.id] + 1
         /\ \A x \in EventIds(log) : x # h.id => processed'[x] = processed[x]
    BY <1>1, <1>7, <1>9
  <1>15. \A k \in Deliveries : Streamed[k].sequence <= h.sequence => processed'[Streamed[k].id] > 0
    <2> SUFFICES ASSUME NEW k \in Deliveries, Streamed[k].sequence <= h.sequence
                 PROVE  processed'[Streamed[k].id] > 0
      OBVIOUS
    <2>1. Streamed[k].sequence \in Nat /\ Streamed[k].id \in EventIds(log)
      BY <1>5
    <2>2. CASE Streamed[k].sequence <= handled
      <3>1. processed[Streamed[k].id] > 0
        BY <2>2 DEF StreamInv
      <3>2. processed[Streamed[k].id] \in Nat /\ processed[h.id] \in Nat
        BY <2>1, <1>7, <1>9
      <3> QED BY <3>1, <3>2, <2>1, <1>14
    <2>3. CASE ~ (Streamed[k].sequence <= handled)
      <3>1. Streamed[k].sequence > handled
        BY <2>1, <2>3, <1>9
      <3>2. PICK i \in 1..n : pending[i] = Streamed[k]
        BY <3>1, <1>1 DEF Outstanding, n
      <3>3. i = 1
        BY <3>2, <2>1, <1>7, <1>11
      <3>4. Streamed[k].id = h.id /\ processed[h.id] \in Nat
        BY <3>2, <3>3, <1>2, <1>7, <1>9
      <3> QED BY <3>4, <1>14
    <2> QED BY <2>2, <2>3
  <1>16. \A x \in EventIds(log) :
            \/ processed'[x] <= crashes
            \/ /\ processed'[x] <= crashes + 1
               /\ \E k \in Deliveries : Streamed[k].id = x /\ Streamed[k].sequence <= h.sequence
    <2> TAKE x \in EventIds(log)
    <2>1. CASE x = h.id
      <3>1. PICK k \in Deliveries : h = Streamed[k]
        BY <1>8
      <3>2. processed[x] <= crashes
        <4> SUFFICES ASSUME NEW m \in Deliveries, Streamed[m].id = x, Streamed[m].sequence <= handled
                     PROVE  FALSE
          BY DEF StreamInv
        <4>1. m = k
          BY <2>1, <3>1, LogicalIs, <1>1 DEF Streamed, Deliveries
        <4> QED BY <4>1, <3>1, <1>7, <1>8, <1>9
      <3>3. processed'[x] <= crashes + 1
        BY <3>2, <2>1, <1>9, <1>14
      <3>4. Streamed[k].id = x /\ Streamed[k].sequence <= h.sequence
        BY <2>1, <3>1, <1>7
      <3> QED BY <3>3, <3>4
    <2>2. CASE x # h.id
      <3>1. processed'[x] = processed[x]
        BY <2>2, <1>14
      <3>2. ASSUME NEW k \in Deliveries, Streamed[k].id = x, Streamed[k].sequence <= handled
            PROVE  Streamed[k].id = x /\ Streamed[k].sequence <= h.sequence
        BY <3>2, <1>5, <1>7, <1>8, <1>9
      <3> QED BY <3>1, <3>2 DEF StreamInv
    <2> QED BY <2>1, <2>2
  <1>17. position' <= handled'
    BY <1>1, <1>7, <1>8, <1>9
  <1> QED BY <1>1, <1>7, <1>10, <1>12, <1>13, <1>14, <1>15, <1>16, <1>17 DEF StreamInv

LEMMA Subscribed ==
    ASSUME StreamInv, Subscribe
    PROVE  StreamInv'
  <1>1. /\ log \in Logs /\ pending = Closed /\ handled = position /\ position \in Nat
        /\ pending' = After(log, position) /\ handled' = position
        /\ UNCHANGED <<log, available, position, processed, crashes>>
    BY StreamedIs DEF Subscribe, StreamInv
  <1>2. /\ Streamed' = Streamed /\ Deliveries' = Deliveries
        /\ Positions(log)' = Positions(log) /\ EventIds(log)' = EventIds(log)
        /\ Range(log)' = Range(log)
    BY <1>1, LogStays
  <1>3. Outstanding'
    BY <1>1, <1>2, SubscriptionIs DEF Outstanding
  <1>4. handled' = handled
    BY <1>1
  <1> QED BY <1>1, <1>2, <1>3, <1>4 DEF StreamInv

LEMMA Snapped ==
    ASSUME StreamInv, Snapshot
    PROVE  StreamInv'
  <1> DEFINE last == LastSequence(log)
  <1>1. /\ log \in Logs /\ pending = Closed /\ position = 0 /\ handled = 0
        /\ pending' = <<>> /\ handled' = last
        /\ UNCHANGED <<log, available, position, crashes>>
        /\ crashes \in Nat /\ processed \in [EventIds(log) -> Nat]
    BY StreamAssumption DEF Snapshot, StreamInv
  <1>2. processed' = [x \in EventIds(log) |->
            processed[x] + IF \E y \in Range(LogicalEvents(log)) : y.id = x THEN 1 ELSE 0]
    BY DEF Snapshot
  <1>3. /\ Streamed' = Streamed /\ Deliveries' = Deliveries
        /\ Positions(log)' = Positions(log) /\ EventIds(log)' = EventIds(log)
        /\ Range(log)' = Range(log)
    BY <1>1, LogStays
  <1>4. /\ Streamed \in Seq(Range(log)) /\ Len(Streamed) \in Nat
        /\ \A x \in Range(log) :
              x.sequence \in Nat \ {0} /\ x.sequence \in Positions(log) /\ x.id \in EventIds(log)
        /\ \A k \in Deliveries : Streamed[k] \in Range(log)
        /\ Positions(log) \in SUBSET Nat
    BY <1>1, StreamedIs
  <1>5. last \in Positions(log) /\ \A q \in Positions(log) : last >= q
    <2>1. IsFiniteSet(Positions(log))
      <3>1. Len(log) \in Nat /\ DOMAIN log = 1..Len(log)
        BY <1>1, StreamAssumption, LenProperties
      <3>2. IsFiniteSet(DOMAIN log)
        BY <3>1, FS_Interval
      <3> DEFINE D == {log[i].sequence : i \in DOMAIN log}
                 by2 == [i \in DOMAIN log |-> log[i].sequence]
      <3>3. by2 \in [DOMAIN log -> D] /\ \A x \in D : \E i \in DOMAIN log : by2[i] = x
        OBVIOUS
      <3>4. by2 \in Surjection(DOMAIN log, D)
        BY <3>3 DEF Surjection
      <3>5. Positions(log) = D \cup {0}
        BY DEF Positions
      <3> HIDE DEF by2, D
      <3>6. IsFiniteSet(D)
        BY <3>2, <3>4, FS_Surjection
      <3> QED BY <3>5, <3>6, FS_AddElement
    <2>2. 0 \in Positions(log)
      BY DEF Positions
    <2>3. PICK z \in Positions(log) : \A q \in Positions(log) : q <= z
      BY <1>4, <2>1, <2>2, GreatestExists
    <2>4. \A q \in Positions(log) : z >= q
      BY <1>4, <2>3
    <2> HIDE DEF last
    <2> QED BY <2>4 DEF LastSequence, last
  <1>6. last \in Nat /\ last >= 0
    BY <1>4, <1>5
  <1> HIDE DEF last
  <1>7. \A k \in Deliveries : Streamed[k].sequence > 0 /\ Streamed[k].sequence <= last
                                /\ Streamed[k].sequence \in Nat
    BY <1>4, <1>5, <1>6
  <1>8. \A x \in EventIds(log) : processed[x] <= crashes /\ processed[x] \in Nat
    BY <1>1, <1>7 DEF StreamInv
  <1>9. \A x \in EventIds(log) :
            (\E y \in Range(LogicalEvents(log)) : y.id = x)
                <=> (\E k \in Deliveries : Streamed[k].id = x)
    <2>1. DOMAIN Streamed = Deliveries
      BY <1>4, LenProperties DEF Deliveries
    <2> QED BY <2>1 DEF Range, Streamed
  <1>10. /\ processed' \in [EventIds(log) -> Nat]
         /\ \A x \in EventIds(log) :
               processed'[x] = IF \E k \in Deliveries : Streamed[k].id = x
                               THEN processed[x] + 1 ELSE processed[x]
    <2>1. \A x \in EventIds(log) :
             processed'[x] = processed[x] + IF \E y \in Range(LogicalEvents(log)) : y.id = x
                                            THEN 1 ELSE 0
      BY <1>2
    <2>2. \A x \in EventIds(log) :
               processed'[x] = IF \E k \in Deliveries : Streamed[k].id = x
                               THEN processed[x] + 1 ELSE processed[x]
      BY <2>1, <1>8, <1>9
    <2>3. processed' = [x \in EventIds(log) |-> processed'[x]]
      BY <1>2
    <2>4. \A x \in EventIds(log) : processed'[x] \in Nat
      BY <2>2, <1>8
    <2> QED BY <2>2, <2>3, <2>4
  <1>11. \A k \in Deliveries : processed'[Streamed[k].id] > 0
    <2> SUFFICES ASSUME NEW k \in Deliveries PROVE processed'[Streamed[k].id] > 0
      OBVIOUS
    <2> DEFINE x == Streamed[k].id
    <2>1. x \in EventIds(log)
      BY <1>4
    <2>2. \E l \in Deliveries : Streamed[l].id = x
      OBVIOUS
    <2> HIDE DEF x
    <2>3. processed'[x] = processed[x] + 1 /\ processed[x] \in Nat
      BY <1>8, <1>10, <2>1, <2>2
    <2>4. processed'[x] > 0
      BY <2>3
    <2> QED BY <2>4 DEF x
  <1>12. \A x \in EventIds(log) :
            \/ processed'[x] <= crashes
            \/ /\ processed'[x] <= crashes + 1
               /\ \E k \in Deliveries : Streamed[k].id = x /\ Streamed[k].sequence <= last
    BY <1>1, <1>7, <1>8, <1>10
  <1>13. Outstanding'
    <2>1. \A k \in Deliveries : ~ (Streamed[k].sequence > last)
      BY <1>6, <1>7
    <2>2. \A k \in Deliveries' : ~ (Streamed'[k].sequence > handled')
      BY <1>1, <1>3, <2>1
    <2>3. pending' \in Seq(Range(log)') /\ 1..Len(pending') = {}
      BY <1>1
    <2> QED BY <2>2, <2>3 DEF Outstanding
  <1>14. pending' # Closed
    <2>1. Len(Closed) = 1 /\ Len(<<>>) = 0
      BY DEF Closed
    <2> QED BY <2>1, <1>1
  <1> QED BY <1>1, <1>3, <1>5, <1>6, <1>10, <1>11, <1>12, <1>13, <1>14 DEF StreamInv

LEMMA StreamInvHolds == StreamSpec => []StreamInv
  <1>1. StreamInit => StreamInv
    <2> SUFFICES ASSUME StreamInit PROVE StreamInv
      OBVIOUS
    <2>1. /\ log \in Logs /\ available \in BOOLEAN /\ pending = Closed /\ handled = 0
          /\ position = 0 /\ crashes = 0 /\ processed = [x \in EventIds(log) |-> 0]
      BY DEF StreamInit
    <2>2. 0 \in Positions(log) /\ 0 \in 0..MaxCrashes
      BY StreamAssumption DEF Positions
    <2>3. \A k \in Deliveries : Streamed[k].sequence \in Nat \ {0}
      BY <2>1, StreamedIs
    <2>4. \A k \in Deliveries : ~ (Streamed[k].sequence <= handled)
      BY <2>1, <2>3
    <2>5. processed \in [EventIds(log) -> Nat] /\ \A x \in EventIds(log) : processed[x] <= crashes
      BY <2>1
    <2> QED BY <2>1, <2>2, <2>4, <2>5 DEF StreamInv
  <1>2. StreamInv /\ [StreamNext]_streamvars => StreamInv'
    <2> SUFFICES ASSUME StreamInv, [StreamNext]_streamvars PROVE StreamInv'
      OBVIOUS
    <2>1. CASE Outage
      <3>1. UNCHANGED <<log, pending, handled, position, processed, crashes>>
            /\ available' \in BOOLEAN
        BY <2>1 DEF Outage
      <3>2. /\ Streamed' = Streamed /\ Deliveries' = Deliveries
            /\ Positions(log)' = Positions(log) /\ EventIds(log)' = EventIds(log)
            /\ Range(log)' = Range(log)
        BY <3>1, LogStays
      <3>3. Outstanding => Outstanding'
        BY <3>1, <3>2 DEF Outstanding
      <3> QED BY <3>1, <3>2, <3>3 DEF StreamInv
    <2>2. CASE Subscribe
      BY <2>2, Subscribed
    <2>3. CASE Process
      BY <2>3, Processed
    <2>4. CASE Record
      <3>1. UNCHANGED <<log, available, pending, handled, processed, crashes>>
            /\ position' = handled /\ pending # Closed
        BY <2>4 DEF Record, StreamInv
      <3>2. /\ Streamed' = Streamed /\ Deliveries' = Deliveries
            /\ Positions(log)' = Positions(log) /\ EventIds(log)' = EventIds(log)
            /\ Range(log)' = Range(log)
        BY <3>1, LogStays
      <3>3. Outstanding => Outstanding'
        BY <3>1, <3>2 DEF Outstanding
      <3>4. handled \in Nat
        BY StreamedIs DEF StreamInv
      <3> QED BY <3>1, <3>2, <3>3, <3>4 DEF StreamInv
    <2>5. CASE Snapshot
      BY <2>5, Snapped
    <2>6. CASE CrashConsumer
      <3>1. /\ UNCHANGED <<log, available, position, processed>>
            /\ pending' = Closed /\ handled' = position /\ crashes' = crashes + 1
            /\ crashes < MaxCrashes
        BY <2>6 DEF CrashConsumer
      <3>2. /\ Streamed' = Streamed /\ Deliveries' = Deliveries
            /\ Positions(log)' = Positions(log) /\ EventIds(log)' = EventIds(log)
            /\ Range(log)' = Range(log)
        BY <3>1, LogStays
      <3>3. /\ log \in Logs /\ handled \in Nat /\ position \in Nat /\ position <= handled
            /\ crashes \in Nat /\ crashes + 1 \in 0..MaxCrashes
            /\ processed \in [EventIds(log) -> Nat]
        BY <3>1, StreamedIs, StreamAssumption DEF StreamInv
      <3>4. \A k \in Deliveries : Streamed[k].sequence \in Nat /\ Streamed[k].id \in EventIds(log)
        BY <3>3, StreamedIs
      <3>5. \A k \in Deliveries :
               Streamed[k].sequence <= position => processed[Streamed[k].id] > 0
        BY <3>3, <3>4 DEF StreamInv
      <3>6. \A x \in EventIds(log) : processed[x] <= crashes + 1
        BY <3>3 DEF StreamInv
      <3>7. position \in Positions(log)
        BY DEF StreamInv
      <3> QED BY <3>1, <3>2, <3>3, <3>5, <3>6, <3>7 DEF StreamInv
    <2>7. CASE UNCHANGED streamvars
      <3>1. UNCHANGED <<log, available, pending, handled, position, processed, crashes>>
        BY <2>7 DEF streamvars
      <3>2. /\ Streamed' = Streamed /\ Deliveries' = Deliveries
            /\ Positions(log)' = Positions(log) /\ EventIds(log)' = EventIds(log)
            /\ Range(log)' = Range(log)
        BY <3>1, LogStays
      <3>3. Outstanding => Outstanding'
        BY <3>1, <3>2 DEF Outstanding
      <3> QED BY <3>1, <3>2, <3>3 DEF StreamInv
    <2> QED BY <2>1, <2>2, <2>3, <2>4, <2>5, <2>6, <2>7 DEF StreamNext
  <1> QED BY <1>1, <1>2, PTL DEF StreamSpec

\* THEOREM: wherever the consumer stops and whatever order the file has, its checkpoint
\* never runs ahead of an event, and it sees an event again only after a crash
\* (EventConnector.subscribe(), checkpoint() and logical_events()).
THEOREM StreamNeverSkips == StreamSpec => [](NothingSkipped /\ RepeatsAreCrashes /\ StreamTypeOK)
  <1>1. StreamInv => NothingSkipped /\ RepeatsAreCrashes /\ StreamTypeOK
    <2> SUFFICES ASSUME StreamInv PROVE NothingSkipped /\ RepeatsAreCrashes /\ StreamTypeOK
      OBVIOUS
    <2>1. /\ log \in Logs /\ handled \in Nat /\ position \in Nat /\ position <= handled
          /\ crashes \in 0..MaxCrashes /\ MaxCrashes \in Nat
          /\ processed \in [EventIds(log) -> Nat]
      BY StreamedIs, StreamAssumption DEF StreamInv
    <2>2. \A k \in Deliveries : Streamed[k].sequence \in Nat
      BY <2>1, StreamedIs
    <2>3. NothingSkipped
      <3> SUFFICES ASSUME NEW i \in DOMAIN log, log[i].serial, log[i].sequence <= position
                   PROVE  processed[log[i].id] > 0
        BY DEF NothingSkipped
      <3>1. PICK k \in Deliveries :
               Streamed[k].id = log[i].id /\ Streamed[k].sequence <= log[i].sequence
        BY <2>1, LogicalIs DEF Streamed, Deliveries
      <3>2. log[i].sequence \in Nat
        BY <2>1, StreamAssumption
      <3>3. Streamed[k].sequence <= handled
        BY <2>1, <2>2, <3>1, <3>2
      <3> QED BY <3>1, <3>3 DEF StreamInv
    <2>4. \A x \in EventIds(log) : processed[x] <= crashes + 1
      BY <2>1 DEF StreamInv
    <2>5. StreamTypeOK
      <3>1. \A x \in EventIds(log) : processed[x] \in 0..2 * (MaxCrashes + 1)
        BY <2>1, <2>4
      <3>2. processed \in [EventIds(log) -> 0..2 * (MaxCrashes + 1)]
        BY <2>1, <3>1
      <3>3. pending = Closed \/ Range(pending) \subseteq Range(log)
        <4> SUFFICES ASSUME pending # Closed PROVE Range(pending) \subseteq Range(log)
          OBVIOUS
        <4>1. pending \in Seq(Range(log))
          BY DEF StreamInv, Outstanding
        <4>2. \A i \in DOMAIN pending : pending[i] \in Range(log)
          BY <4>1, LenProperties, ElementOfSeq
        <4> HIDE DEF Range
        <4> QED BY <4>2 DEF Range
      <3> QED BY <3>2, <3>3 DEF StreamTypeOK, StreamInv
    <2> QED BY <2>3, <2>4, <2>5 DEF RepeatsAreCrashes
  <1> QED BY <1>1, StreamInvHolds, PTL

-----------------------------------------------------------------------------
(* The decoder: definitions by recursion over spans *)

\* Predicates over a set are defined by recursion when each of their values depends on those
\* of shorter members only: apply the body again and again, to predicates that satisfy
\* their equation up to a length.
LEMMA RecursionDefines ==
    ASSUME NEW T, NEW n \in Nat, NEW length \in [T -> 0..n],
           NEW Body \in [[T -> BOOLEAN] -> [T -> BOOLEAN]],
           \A u, v \in [T -> BOOLEAN], s \in T :
              (\A t \in T : length[t] < length[s] => u[t] = v[t]) => Body[u][s] = Body[v][s]
    PROVE  \E u \in [T -> BOOLEAN] : u = Body[u]
  <1> DEFINE Solves(u, l) == \A s \in T : length[s] < l => u[s] = Body[u][s]
             E == {l \in 1..n + 1 : ~ \E u \in [T -> BOOLEAN] : Solves(u, l)}
  <1>1. ASSUME NEW l \in 1..n + 1, NEW w \in [T -> BOOLEAN], Solves(w, l - 1)
        PROVE  \E u \in [T -> BOOLEAN] : Solves(u, l)
    <2> DEFINE v == Body[w]
    <2>1. v \in [T -> BOOLEAN]
      OBVIOUS
    <2>2. ASSUME NEW s \in T, length[s] < l PROVE v[s] = Body[v][s]
      <3>1. ASSUME NEW t \in T, length[t] < length[s] PROVE w[t] = v[t]
        <4>1. length[t] \in Nat /\ length[s] \in Nat /\ l \in Nat
          OBVIOUS
        <4>2. length[t] < l - 1
          BY <2>2, <3>1, <4>1
        <4> QED BY <1>1, <4>2
      <3> HIDE DEF v
      <3>2. Body[w][s] = Body[v][s]
        BY <2>1, <3>1
      <3> QED BY <3>2 DEF v
    <2> HIDE DEF v
    <2> QED BY <2>1, <2>2
  <1>2. E = {}
    <2> SUFFICES ASSUME E # {} PROVE FALSE
      OBVIOUS
    <2>1. n + 1 \in Nat /\ E \in SUBSET (1..n + 1)
      OBVIOUS
    <2> HIDE DEF E
    <2>2. PICK l \in E : \A k \in E : l <= k
      BY <2>1, LeastExists
    <2>3. l \in 1..n + 1 /\ ~ \E u \in [T -> BOOLEAN] : Solves(u, l)
      BY DEF E
    <2>4. \E w \in [T -> BOOLEAN] : Solves(w, l - 1)
      <3>1. CASE l = 1
        <4>1. [s \in T |-> TRUE] \in [T -> BOOLEAN]
          OBVIOUS
        <4>2. \A s \in T : ~ (length[s] < l - 1)
          BY <3>1
        <4> QED BY <4>1, <4>2
      <3>2. CASE l # 1
        <4>1. l - 1 \in 1..n + 1 /\ ~ (l <= l - 1)
          BY <2>3, <3>2
        <4>2. l - 1 \notin E
          BY <2>2, <4>1
        <4> QED BY <4>1, <4>2 DEF E
      <3> QED BY <3>1, <3>2
    <2> HIDE DEF Solves
    <2> QED BY <1>1, <2>3, <2>4
  <1>3. n + 1 \in 1..n + 1
    OBVIOUS
  <1>4. PICK u \in [T -> BOOLEAN] : Solves(u, n + 1)
    BY <1>2, <1>3
  <1>5. \A s \in T : length[s] < n + 1
    OBVIOUS
  <1>6. \A s \in T : u[s] = Body[u][s]
    BY <1>4, <1>5
  <1>7. Body[u] \in [T -> BOOLEAN]
    OBVIOUS
  <1> QED BY <1>6, <1>7

-----------------------------------------------------------------------------
(* The decoder: what nests in a document *)

\* An element from i to m around a span that h takes for nested, or around raw text.
ElementIn(h, i, m) ==
    \/ /\ document[i] = "<script>" /\ document[m] = "</script>"
       /\ \A k \in i + 1..m - 1 : document[k] # "</script>"
    \/ /\ document[i] = "<template>" /\ document[m] = "</template>"
       /\ h[<<i + 1, m - 1>>]

NestedBody(h, s) ==
    LET i == s[1]
        j == s[2]
    IN \/ i > j
       \/ document[i] = "text" /\ h[<<i + 1, j>>]
       \/ \E m \in i + 1..j : h[<<m + 1, j>>] /\ ElementIn(h, i, m)

PageBody(h, s) ==
    LET i == s[1]
        j == s[2]
    IN \/ i > j
       \/ document[i] \in {"text", "</script>", "</template>"} /\ h[<<i + 1, j>>]
       \/ \E m \in i + 1..j : document[i] # "text" /\ Nested[<<i, m>>] /\ h[<<m + 1, j>>]

SpanLength == [s \in DocumentSpans |-> IF s[1] <= s[2] THEN s[2] - s[1] + 1 ELSE 0]

LEMMA SpansAre ==
    ASSUME Len(document) \in Nat
    PROVE  /\ SpanLength \in [DocumentSpans -> 0..Len(document)]
           /\ \A i, j : <<i, j>> \in DocumentSpans =>
                 /\ i \in 1..Len(document) + 1 /\ j \in 0..Len(document)
                 /\ i <= j => SpanLength[<<i, j>>] = j - i + 1
           /\ \A i, j, m : <<i, j>> \in DocumentSpans /\ m \in i..j =>
                 /\ <<m + 1, j>> \in DocumentSpans
                 /\ SpanLength[<<m + 1, j>>] < SpanLength[<<i, j>>]
           /\ \A i, j, m : <<i, j>> \in DocumentSpans /\ m \in i + 1..j =>
                 /\ <<i + 1, m - 1>> \in DocumentSpans
                 /\ SpanLength[<<i + 1, m - 1>>] < SpanLength[<<i, j>>]
                 /\ <<i, m>> \in DocumentSpans
  <1>1. ASSUME NEW s \in DocumentSpans
        PROVE  /\ s[1] \in 1..Len(document) + 1 /\ s[2] \in 0..Len(document)
               /\ s = <<s[1], s[2]>>
    BY DEF DocumentSpans
  <1>2. ASSUME NEW i \in 1..Len(document) + 1, NEW j \in 0..Len(document)
        PROVE  <<i, j>> \in DocumentSpans
    BY DEF DocumentSpans
  <1>3. ASSUME NEW i, NEW j, <<i, j>> \in DocumentSpans
        PROVE  /\ i \in 1..Len(document) + 1 /\ j \in 0..Len(document)
               /\ SpanLength[<<i, j>>] = IF i <= j THEN j - i + 1 ELSE 0
    BY <1>1, <1>3 DEF SpanLength, DocumentSpans
  <1>4. SpanLength \in [DocumentSpans -> 0..Len(document)]
    <2>1. ASSUME NEW s \in DocumentSpans
          PROVE  (IF s[1] <= s[2] THEN s[2] - s[1] + 1 ELSE 0) \in 0..Len(document)
      BY <1>1, <2>1
    <2> QED BY <2>1 DEF SpanLength
  <1>5. ASSUME NEW i, NEW j, NEW m, <<i, j>> \in DocumentSpans, m \in i..j
        PROVE  /\ <<m + 1, j>> \in DocumentSpans
               /\ SpanLength[<<m + 1, j>>] < SpanLength[<<i, j>>]
    <2>1. /\ i \in 1..Len(document) + 1 /\ j \in 0..Len(document)
          /\ SpanLength[<<i, j>>] = IF i <= j THEN j - i + 1 ELSE 0
      BY <1>3, <1>5
    <2>2. m \in Nat /\ m + 1 \in 1..Len(document) + 1 /\ i <= j /\ i <= m /\ m <= j
      BY <1>5, <2>1
    <2>3. <<m + 1, j>> \in DocumentSpans
      BY <1>2, <2>1, <2>2
    <2>4. SpanLength[<<m + 1, j>>] = IF m + 1 <= j THEN j - (m + 1) + 1 ELSE 0
      BY <1>3, <2>3
    <2> QED BY <2>1, <2>2, <2>3, <2>4
  <1>6. ASSUME NEW i, NEW j, NEW m, <<i, j>> \in DocumentSpans, m \in i + 1..j
        PROVE  /\ <<i + 1, m - 1>> \in DocumentSpans
               /\ SpanLength[<<i + 1, m - 1>>] < SpanLength[<<i, j>>]
               /\ <<i, m>> \in DocumentSpans
    <2>1. /\ i \in 1..Len(document) + 1 /\ j \in 0..Len(document)
          /\ SpanLength[<<i, j>>] = IF i <= j THEN j - i + 1 ELSE 0
      BY <1>3, <1>6
    <2>2. /\ i + 1 \in 1..Len(document) + 1 /\ m - 1 \in 0..Len(document)
          /\ m \in 0..Len(document) /\ i < m /\ m <= j
      BY <1>6, <2>1
    <2>3. <<i + 1, m - 1>> \in DocumentSpans /\ <<i, m>> \in DocumentSpans
      BY <1>2, <2>1, <2>2
    <2>4. SpanLength[<<i + 1, m - 1>>] = IF i + 1 <= m - 1 THEN (m - 1) - (i + 1) + 1 ELSE 0
      BY <1>3, <2>3
    <2> QED BY <2>1, <2>2, <2>3, <2>4
  <1> QED BY <1>3, <1>4, <1>5, <1>6

\* So a predicate over spans is defined by a body that looks into shorter spans only.
LEMMA SpanRecursion ==
    ASSUME Len(document) \in Nat
    PROVE  \A Body \in [[DocumentSpans -> BOOLEAN] -> [DocumentSpans -> BOOLEAN]] :
              (\A u, v \in [DocumentSpans -> BOOLEAN], s \in DocumentSpans :
                  (\A t \in DocumentSpans : SpanLength[t] < SpanLength[s] => u[t] = v[t]) =>
                      Body[u][s] = Body[v][s]) =>
                  \E u \in [DocumentSpans -> BOOLEAN] : u = Body[u]
  <1>1. SpanLength \in [DocumentSpans -> 0..Len(document)]
    BY SpansAre
  <1>2. \A length \in [DocumentSpans -> 0..Len(document)] :
            \A Body \in [[DocumentSpans -> BOOLEAN] -> [DocumentSpans -> BOOLEAN]] :
                (\A u, v \in [DocumentSpans -> BOOLEAN], s \in DocumentSpans :
                    (\A t \in DocumentSpans : length[t] < length[s] => u[t] = v[t]) =>
                        Body[u][s] = Body[v][s]) =>
                    \E u \in [DocumentSpans -> BOOLEAN] : u = Body[u]
    BY RecursionDefines
  <1> QED BY <1>1, <1>2

LEMMA NestedUnfolds ==
    ASSUME Len(document) \in Nat
    PROVE  Nested = [s \in DocumentSpans |-> NestedBody(Nested, s)]
  <1> DEFINE F == [u \in [DocumentSpans -> BOOLEAN] |->
                      [s \in DocumentSpans |-> NestedBody(u, s)]]
  <1>1. \A u, s : NestedBody(u, s) \in BOOLEAN
    BY DEF NestedBody
  <1>2. F \in [[DocumentSpans -> BOOLEAN] -> [DocumentSpans -> BOOLEAN]]
    BY <1>1
  <1>3. ASSUME NEW u \in [DocumentSpans -> BOOLEAN], NEW v \in [DocumentSpans -> BOOLEAN],
               NEW s \in DocumentSpans,
               \A t \in DocumentSpans : SpanLength[t] < SpanLength[s] => u[t] = v[t]
        PROVE  F[u][s] = F[v][s]
    <2>1. PICK i \in 1..Len(document) + 1, j \in 0..Len(document) : s = <<i, j>>
      BY DEF DocumentSpans
    <2>2. ASSUME NEW m \in i..j PROVE u[<<m + 1, j>>] = v[<<m + 1, j>>]
      BY <1>3, <2>1, SpansAre
    <2>3. ASSUME NEW m \in i + 1..j PROVE ElementIn(u, i, m) <=> ElementIn(v, i, m)
      <3>1. u[<<i + 1, m - 1>>] = v[<<i + 1, m - 1>>]
        BY <1>3, <2>1, SpansAre
      <3> QED BY <3>1 DEF ElementIn
    <2>4. i <= j => i \in i..j /\ i + 1..j \subseteq i..j
      OBVIOUS
    <2>5. NestedBody(u, s) = NestedBody(v, s)
      <3>1. CASE i > j
        BY <2>1, <3>1 DEF NestedBody
      <3>2. CASE i <= j
        BY <2>1, <2>2, <2>3, <2>4, <3>2 DEF NestedBody
      <3> QED BY <3>1, <3>2
    <2> QED BY <2>5
  <1>4. PICK u \in [DocumentSpans -> BOOLEAN] : u = F[u]
    <2> HIDE DEF F
    <2> QED BY <1>2, <1>3, SpanRecursion
  <1>5. u = [s \in DocumentSpans |-> NestedBody(u, s)]
    BY <1>4
  <1>6. Nested = CHOOSE h : h = [s \in DocumentSpans |-> NestedBody(h, s)]
    BY DEF Nested, NestedBody, ElementIn
  <1> QED BY <1>5, <1>6

LEMMA PageUnfolds ==
    ASSUME Len(document) \in Nat
    PROVE  Page = [s \in DocumentSpans |-> PageBody(Page, s)]
  <1> DEFINE F == [u \in [DocumentSpans -> BOOLEAN] |->
                      [s \in DocumentSpans |-> PageBody(u, s)]]
  <1>1. \A u, s : PageBody(u, s) \in BOOLEAN
    BY DEF PageBody
  <1>2. F \in [[DocumentSpans -> BOOLEAN] -> [DocumentSpans -> BOOLEAN]]
    BY <1>1
  <1>3. ASSUME NEW u \in [DocumentSpans -> BOOLEAN], NEW v \in [DocumentSpans -> BOOLEAN],
               NEW s \in DocumentSpans,
               \A t \in DocumentSpans : SpanLength[t] < SpanLength[s] => u[t] = v[t]
        PROVE  F[u][s] = F[v][s]
    <2>1. PICK i \in 1..Len(document) + 1, j \in 0..Len(document) : s = <<i, j>>
      BY DEF DocumentSpans
    <2>2. ASSUME NEW m \in i..j PROVE u[<<m + 1, j>>] = v[<<m + 1, j>>]
      BY <1>3, <2>1, SpansAre
    <2>3. i <= j => i \in i..j /\ i + 1..j \subseteq i..j
      OBVIOUS
    <2>4. PageBody(u, s) = PageBody(v, s)
      <3>1. CASE i > j
        BY <2>1, <3>1 DEF PageBody
      <3>2. CASE i <= j
        BY <2>1, <2>2, <2>3, <3>2 DEF PageBody
      <3> QED BY <3>1, <3>2
    <2> QED BY <2>4
  <1>4. PICK u \in [DocumentSpans -> BOOLEAN] : u = F[u]
    <2> HIDE DEF F
    <2> QED BY <1>2, <1>3, SpanRecursion
  <1>5. u = [s \in DocumentSpans |-> PageBody(u, s)]
    BY <1>4
  <1>6. Page = CHOOSE h : h = [s \in DocumentSpans |-> PageBody(h, s)]
    BY DEF Page, PageBody
  <1> QED BY <1>5, <1>6

\* The definitions, unfolded at a span.
LEMMA NestedIs ==
    ASSUME Len(document) \in Nat, NEW i \in 1..Len(document) + 1, NEW j \in 0..Len(document)
    PROVE  Nested[<<i, j>>] <=>
              \/ i > j
              \/ document[i] = "text" /\ Nested[<<i + 1, j>>]
              \/ \E m \in i + 1..j : Nested[<<m + 1, j>>] /\ ElementIn(Nested, i, m)
  <1>1. <<i, j>> \in DocumentSpans
    BY DEF DocumentSpans
  <1>2. Nested[<<i, j>>] = NestedBody(Nested, <<i, j>>)
    BY <1>1, NestedUnfolds
  <1> QED BY <1>2 DEF NestedBody

LEMMA PageIs ==
    ASSUME Len(document) \in Nat, NEW i \in 1..Len(document) + 1, NEW j \in 0..Len(document)
    PROVE  Page[<<i, j>>] <=>
              \/ i > j
              \/ document[i] \in {"text", "</script>", "</template>"} /\ Page[<<i + 1, j>>]
              \/ \E m \in i + 1..j : document[i] # "text" /\ Nested[<<i, m>>] /\ Page[<<m + 1, j>>]
  <1>1. <<i, j>> \in DocumentSpans
    BY DEF DocumentSpans
  <1>2. Page[<<i, j>>] = PageBody(Page, <<i, j>>)
    BY <1>1, PageUnfolds
  <1> QED BY <1>2 DEF PageBody

\* What holds of a span when it holds of all shorter ones holds of every span.
LEMMA SpanInduction ==
    ASSUME Len(document) \in Nat, NEW G,
           \A s \in DocumentSpans :
              (\A t \in DocumentSpans : SpanLength[t] < SpanLength[s] => t \in G) => s \in G
    PROVE  \A s \in DocumentSpans : s \in G
  <1> DEFINE E == {l \in 1..Len(document) + 1 :
                      \E s \in DocumentSpans : s \notin G /\ SpanLength[s] = l - 1}
  <1>1. ASSUME NEW s \in DocumentSpans, s \notin G PROVE FALSE
    <2>1. \A t \in DocumentSpans : SpanLength[t] \in 0..Len(document)
      BY SpansAre
    <2>2. SpanLength[s] + 1 \in 1..Len(document) + 1 /\ (SpanLength[s] + 1) - 1 = SpanLength[s]
      BY <2>1
    <2>3. SpanLength[s] + 1 \in E
      BY <1>1, <2>2
    <2>4. E \in SUBSET (1..Len(document) + 1) /\ Len(document) + 1 \in Nat
      OBVIOUS
    <2>5. PICK l \in E : \A k \in E : l <= k
      <3> HIDE DEF E
      <3> QED BY <2>3, <2>4, LeastExists
    <2>6. PICK t \in DocumentSpans : t \notin G /\ SpanLength[t] = l - 1
      OBVIOUS
    <2>7. PICK u \in DocumentSpans : u \notin G /\ SpanLength[u] < SpanLength[t]
      BY <2>6
    <2>8. SpanLength[u] + 1 \in 1..Len(document) + 1 /\ (SpanLength[u] + 1) - 1 = SpanLength[u]
      BY <2>1
    <2>9. SpanLength[u] + 1 \in E
      BY <2>7, <2>8
    <2>10. l <= SpanLength[u] + 1
      <3> HIDE DEF E
      <3> QED BY <2>5, <2>9
    <2>11. l \in Nat /\ SpanLength[u] \in Nat
      BY <2>1, <2>4
    <2> QED BY <2>6, <2>7, <2>10, <2>11
  <1> QED BY <1>1

-----------------------------------------------------------------------------
(* The decoder: what its counter makes of nesting *)

\* Whether the tokenizer is inside of a script after a token, and the depth.
InsideAfter(token, within) == (token = "<script>" \/ within) /\ token # "</script>"

DepthAfter(token, within, d) ==
    IF token = "</script>" \/ (token = "</template>" /\ ~ within)
    THEN IF d > 0 THEN d - 1 ELSE 0
    ELSE IF token \in {"<script>", "<template>"} /\ ~ within THEN d + 1 ELSE d

Counted(inside, depth, k) ==
    /\ inside[k] = InsideAfter(document[k], inside[k - 1])
    /\ depth[k] = DepthAfter(document[k], inside[k - 1], depth[k - 1])

\* Both, after each number of tokens read.
Counts(inside, depth, n) ==
    /\ inside \in [0..n -> BOOLEAN] /\ inside[0] = FALSE
    /\ depth \in [0..n -> Nat] /\ depth[0] = 0
    /\ \A k \in 1..n : Counted(inside, depth, k)

IsDocument == Len(document) \in Nat /\ DOMAIN document = 1..Len(document)

\* Up to its end tag a script is one level deeper than what it stands in.
LEMMA ScriptStays ==
    ASSUME IsDocument, NEW inside, NEW depth, Counts(inside, depth, Len(document)),
           NEW i \in 1..Len(document), NEW m \in i + 1..Len(document),
           document[i] = "<script>", ~ inside[i - 1],
           \A k \in i + 1..m - 1 : document[k] # "</script>"
    PROVE  \A k \in i..m - 1 : inside[k] /\ depth[k] = depth[i - 1] + 1
  <1> DEFINE E == {k \in 1..Len(document) :
                      k \in i..m - 1 /\ ~ (inside[k] /\ depth[k] = depth[i - 1] + 1)}
  <1>1. Len(document) \in Nat /\ i \in Nat /\ m \in Nat
    BY DEF IsDocument
  <1>2. \A k \in 1..Len(document) : Counted(inside, depth, k)
    BY DEF Counts
  <1>3. inside[i] /\ depth[i] = depth[i - 1] + 1
    BY <1>2 DEF Counted, InsideAfter, DepthAfter
  <1>4. ASSUME NEW k \in i + 1..m - 1, inside[k - 1], depth[k - 1] = depth[i - 1] + 1
        PROVE  inside[k] /\ depth[k] = depth[i - 1] + 1
    <2>1. k \in 1..Len(document) /\ document[k] # "</script>"
      BY <1>1
    <2> QED BY <1>2, <1>4, <2>1 DEF Counted, InsideAfter, DepthAfter
  <1>5. E = {}
    <2> SUFFICES ASSUME E # {} PROVE FALSE
      OBVIOUS
    <2>1. E \in SUBSET (1..Len(document))
      OBVIOUS
    <2>2. PICK k \in E : \A l \in E : k <= l
      <3> HIDE DEF E
      <3> QED BY <1>1, <2>1, LeastExists
    <2>3. k # i
      BY <1>3
    <2>4. k \in i + 1..m - 1 /\ k - 1 \in i..m - 1 /\ k - 1 \in 1..Len(document) /\ ~ (k <= k - 1)
      BY <1>1, <2>3
    <2>5. k - 1 \notin E
      <3> HIDE DEF E
      <3> QED BY <2>2, <2>4
    <2>6. inside[k - 1] /\ depth[k - 1] = depth[i - 1] + 1
      BY <2>4, <2>5
    <2> QED BY <1>4, <2>4, <2>6
  <1>6. i..m - 1 \subseteq 1..Len(document)
    BY <1>1
  <1> QED BY <1>5, <1>6

\* From i to j the counter comes back to where it was and was never below.
Returns(inside, depth, i, j) ==
    /\ ~ inside[j] /\ depth[j] = depth[i - 1]
    /\ \A k \in i - 1..j : depth[i - 1] <= depth[k]

\* It comes back at the end of an element, and not before.
LEMMA ElementReturns ==
    ASSUME IsDocument, NEW inside, NEW depth, Counts(inside, depth, Len(document)),
           NEW i \in 1..Len(document), NEW m \in i + 1..Len(document),
           ~ inside[i - 1], ElementIn(Nested, i, m),
           Nested[<<i + 1, m - 1>>] /\ ~ inside[i] => Returns(inside, depth, i + 1, m - 1)
    PROVE  /\ ~ inside[m] /\ depth[m] = depth[i - 1]
           /\ \A k \in i..m - 1 : depth[i - 1] < depth[k]
  <1>1. /\ Len(document) \in Nat /\ i \in Nat /\ m \in Nat /\ i < m
        /\ i - 1 \in 0..Len(document) /\ m \in 1..Len(document) /\ m - 1 \in i..m - 1
    BY DEF IsDocument
  <1>2. \A k \in 1..Len(document) : Counted(inside, depth, k)
    BY DEF Counts
  <1>3. \A k \in 0..Len(document) : depth[k] \in Nat /\ inside[k] \in BOOLEAN
    BY DEF Counts
  <1>4. \A k \in i..m - 1 : k \in 0..Len(document)
    BY <1>1
  <1>5. depth[i - 1] \in Nat
    BY <1>1, <1>3
  <1>6. CASE /\ document[i] = "<script>" /\ document[m] = "</script>"
             /\ \A k \in i + 1..m - 1 : document[k] # "</script>"
    <2>1. \A k \in i..m - 1 : inside[k] /\ depth[k] = depth[i - 1] + 1
      BY <1>6, ScriptStays
    <2>2. ~ inside[m] /\ depth[m] = depth[i - 1]
      <3>1. Counted(inside, depth, m) /\ depth[m - 1] = depth[i - 1] + 1
        BY <1>1, <1>2, <2>1
      <3>2. depth[m - 1] > 0 /\ depth[m - 1] - 1 = depth[i - 1]
        BY <1>5, <3>1
      <3> QED BY <1>6, <3>1, <3>2 DEF Counted, InsideAfter, DepthAfter
    <2> QED BY <1>5, <2>1, <2>2
  <1>7. CASE /\ document[i] = "<template>" /\ document[m] = "</template>"
             /\ Nested[<<i + 1, m - 1>>]
    <2>1. ~ inside[i] /\ depth[i] = depth[i - 1] + 1
      <3>1. Counted(inside, depth, i)
        BY <1>2
      <3> QED BY <1>7, <3>1 DEF Counted, InsideAfter, DepthAfter
    <2>2. /\ ~ inside[m - 1] /\ depth[m - 1] = depth[i]
          /\ \A k \in i..m - 1 : depth[i] <= depth[k]
      <3>1. Returns(inside, depth, i + 1, m - 1) /\ (i + 1) - 1 = i
        BY <1>1, <1>7, <2>1
      <3> QED BY <3>1 DEF Returns
    <2>3. ~ inside[m] /\ depth[m] = depth[i - 1]
      <3>1. Counted(inside, depth, m) /\ depth[m - 1] = depth[i - 1] + 1 /\ ~ inside[m - 1]
        BY <1>1, <1>2, <2>1, <2>2
      <3>2. depth[m - 1] > 0 /\ depth[m - 1] - 1 = depth[i - 1]
        BY <1>5, <3>1
      <3> QED BY <1>7, <3>1, <3>2 DEF Counted, InsideAfter, DepthAfter
    <2>4. ASSUME NEW k \in i..m - 1 PROVE depth[i - 1] < depth[k]
      <3>1. depth[i] <= depth[k] /\ depth[k] \in Nat
        BY <1>3, <1>4, <2>2
      <3> QED BY <1>5, <2>1, <3>1
    <2> QED BY <2>3, <2>4
  <1> QED BY <1>6, <1>7 DEF ElementIn

\* It comes back at the end of what nests.
LEMMA NestedReturns ==
    ASSUME IsDocument, NEW inside, NEW depth, Counts(inside, depth, Len(document)),
           NEW a \in 1..Len(document) + 1, NEW z \in a - 1..Len(document),
           Nested[<<a, z>>], ~ inside[a - 1]
    PROVE  Returns(inside, depth, a, z)
  <1> DEFINE G == {s \in DocumentSpans : s[1] - 1 <= s[2] /\ Nested[s] /\ ~ inside[s[1] - 1] =>
                                            Returns(inside, depth, s[1], s[2])}
  <1>1. Len(document) \in Nat
    BY DEF IsDocument
  <1>2. /\ \A k \in 1..Len(document) : Counted(inside, depth, k)
        /\ \A k \in 0..Len(document) : depth[k] \in Nat /\ inside[k] \in BOOLEAN
    BY DEF Counts
  <1>3. ASSUME NEW i, NEW j, <<i, j>> \in DocumentSpans
        PROVE  <<i, j>> \in G <=> (i - 1 <= j /\ Nested[<<i, j>>] /\ ~ inside[i - 1] =>
                                      Returns(inside, depth, i, j))
    <2>1. <<i, j>>[1] = i /\ <<i, j>>[2] = j
      OBVIOUS
    <2> QED BY <1>3, <2>1
  <1>4. ASSUME NEW s \in DocumentSpans,
               \A t \in DocumentSpans : SpanLength[t] < SpanLength[s] => t \in G
        PROVE  s \in G
    <2>1. PICK i \in 1..Len(document) + 1, j \in 0..Len(document) : s = <<i, j>>
      BY DEF DocumentSpans
    <2> HIDE DEF G
    <2> SUFFICES ASSUME i - 1 <= j, Nested[<<i, j>>], ~ inside[i - 1]
                 PROVE  Returns(inside, depth, i, j)
      BY <1>3, <2>1
    <2>2. i - 1 \in 0..Len(document) /\ depth[i - 1] \in Nat
      BY <1>1, <1>2
    <2>3. CASE i > j
      <3>1. i - 1 = j
        BY <1>1, <2>3
      <3>2. \A k \in i - 1..j : k = i - 1
        BY <1>1, <3>1
      <3> QED BY <2>2, <3>1, <3>2 DEF Returns
    <2>4. CASE i <= j /\ document[i] = "text" /\ Nested[<<i + 1, j>>]
      <3>1. i \in i..j /\ i \in 1..Len(document) /\ (i + 1) - 1 = i /\ i <= j
        BY <1>1, <2>4
      <3>2. inside[i] = inside[i - 1] /\ depth[i] = depth[i - 1]
        <4>1. Counted(inside, depth, i)
          BY <1>2, <3>1
        <4> QED BY <1>2, <2>2, <2>4, <4>1 DEF Counted, InsideAfter, DepthAfter
      <3>3. <<i + 1, j>> \in DocumentSpans /\ <<i + 1, j>> \in G
        BY <1>1, <1>4, <2>1, <3>1, SpansAre
      <3>4. Returns(inside, depth, i + 1, j)
        BY <1>3, <2>4, <3>1, <3>2, <3>3
      <3>5. \A k \in i - 1..j : k = i - 1 \/ k \in i..j
        BY <1>1
      <3> QED BY <2>2, <3>1, <3>2, <3>4, <3>5 DEF Returns
    <2>5. ASSUME NEW m \in i + 1..j, Nested[<<m + 1, j>>], ElementIn(Nested, i, m)
          PROVE  Returns(inside, depth, i, j)
      <3>1. /\ i \in 1..Len(document) /\ m \in i + 1..Len(document) /\ m \in i..j
            /\ (i + 1) - 1 = i /\ i <= m - 1 /\ (m + 1) - 1 = m /\ m <= j
        BY <1>1, <2>5
      <3>2. <<i + 1, m - 1>> \in DocumentSpans /\ <<i + 1, m - 1>> \in G
        BY <1>1, <1>4, <2>1, SpansAre
      <3>3. Nested[<<i + 1, m - 1>>] /\ ~ inside[i] => Returns(inside, depth, i + 1, m - 1)
        BY <1>3, <3>1, <3>2
      <3>4. /\ ~ inside[m] /\ depth[m] = depth[i - 1]
            /\ \A k \in i..m - 1 : depth[i - 1] < depth[k]
        BY <2>5, <3>1, <3>3, ElementReturns
      <3>5. <<m + 1, j>> \in DocumentSpans /\ <<m + 1, j>> \in G
        BY <1>1, <1>4, <2>1, <3>1, SpansAre
      <3>6. Returns(inside, depth, m + 1, j)
        BY <1>3, <2>5, <3>1, <3>4, <3>5
      <3>7. \A k \in i - 1..j : /\ k = i - 1 \/ k \in i..m - 1 \/ k \in m..j
                               /\ k \in 0..Len(document)
        BY <1>1, <3>1
      <3>8. ASSUME NEW k \in i - 1..j PROVE depth[i - 1] <= depth[k]
        <4>1. CASE k = i - 1
          BY <2>2, <4>1
        <4>2. CASE k \in i..m - 1
          BY <1>2, <2>2, <3>4, <3>7, <4>2
        <4>3. CASE k \in m..j
          BY <3>1, <3>4, <3>6, <4>3 DEF Returns
        <4> QED BY <3>7, <4>1, <4>2, <4>3
      <3>9. ~ inside[j] /\ depth[j] = depth[i - 1]
        BY <3>1, <3>4, <3>6 DEF Returns
      <3> QED BY <3>8, <3>9 DEF Returns
    <2>6. \/ i > j
          \/ document[i] = "text" /\ Nested[<<i + 1, j>>]
          \/ \E m \in i + 1..j : Nested[<<m + 1, j>>] /\ ElementIn(Nested, i, m)
      BY <1>1, NestedIs
    <2>7. i > j \/ i <= j
      BY <1>1
    <2> QED BY <2>3, <2>4, <2>5, <2>6, <2>7
  <1>5. <<a, z>> \in DocumentSpans /\ <<a, z>> \in G
    <2>1. <<a, z>> \in DocumentSpans
      BY <1>1 DEF DocumentSpans
    <2> HIDE DEF G
    <2> QED BY <1>1, <1>4, <2>1, SpanInduction
  <1>6. a - 1 <= z
    BY <1>1
  <1> HIDE DEF G
  <1> QED BY <1>3, <1>5, <1>6

\* A page that begins outside of all elements ends there.
LEMMA PageReturns ==
    ASSUME IsDocument, NEW inside, NEW depth, Counts(inside, depth, Len(document)),
           NEW a \in 1..Len(document) + 1, NEW z \in a - 1..Len(document),
           Page[<<a, z>>], ~ inside[a - 1], depth[a - 1] = 0
    PROVE  ~ inside[z] /\ depth[z] = 0
  <1> DEFINE G == {s \in DocumentSpans :
                      s[1] - 1 <= s[2] /\ Page[s] /\ ~ inside[s[1] - 1] /\ depth[s[1] - 1] = 0 =>
                          ~ inside[s[2]] /\ depth[s[2]] = 0}
  <1>1. Len(document) \in Nat
    BY DEF IsDocument
  <1>2. \A k \in 1..Len(document) : Counted(inside, depth, k)
    BY DEF Counts
  <1>3. ASSUME NEW i, NEW j, <<i, j>> \in DocumentSpans
        PROVE  <<i, j>> \in G <=>
                  (i - 1 <= j /\ Page[<<i, j>>] /\ ~ inside[i - 1] /\ depth[i - 1] = 0 =>
                      ~ inside[j] /\ depth[j] = 0)
    <2>1. <<i, j>>[1] = i /\ <<i, j>>[2] = j
      OBVIOUS
    <2> QED BY <1>3, <2>1
  <1>4. ASSUME NEW s \in DocumentSpans,
               \A t \in DocumentSpans : SpanLength[t] < SpanLength[s] => t \in G
        PROVE  s \in G
    <2>1. PICK i \in 1..Len(document) + 1, j \in 0..Len(document) : s = <<i, j>>
      BY DEF DocumentSpans
    <2> HIDE DEF G
    <2> SUFFICES ASSUME i - 1 <= j, Page[<<i, j>>], ~ inside[i - 1], depth[i - 1] = 0
                 PROVE  ~ inside[j] /\ depth[j] = 0
      BY <1>3, <2>1
    <2>2. CASE i > j
      <3>1. i - 1 = j
        BY <1>1, <2>2
      <3> QED BY <3>1
    <2>3. CASE /\ i <= j /\ document[i] \in {"text", "</script>", "</template>"}
               /\ Page[<<i + 1, j>>]
      <3>1. i \in i..j /\ i \in 1..Len(document) /\ (i + 1) - 1 = i /\ i <= j
        BY <1>1, <2>3
      <3>2. ~ inside[i] /\ depth[i] = 0
        <4>1. Counted(inside, depth, i)
          BY <1>2, <3>1
        <4>2. document[i] # "<script>" /\ document[i] # "<template>"
          BY <2>3
        <4>3. ~ inside[i]
          BY <4>1, <4>2 DEF Counted, InsideAfter, DepthAfter
        <4>4. depth[i] = 0
          BY <4>1, <4>2 DEF Counted, InsideAfter, DepthAfter
        <4> QED BY <4>3, <4>4
      <3>3. <<i + 1, j>> \in DocumentSpans /\ <<i + 1, j>> \in G
        BY <1>1, <1>4, <2>1, <3>1, SpansAre
      <3> QED BY <1>3, <2>3, <3>1, <3>2, <3>3
    <2>4. ASSUME NEW m \in i + 1..j, Nested[<<i, m>>], Page[<<m + 1, j>>]
          PROVE  ~ inside[j] /\ depth[j] = 0
      <3>1. /\ m \in i - 1..Len(document) /\ m \in i..j /\ (m + 1) - 1 = m /\ m <= j
        BY <1>1
      <3>2. ~ inside[m] /\ depth[m] = 0
        BY <2>4, <3>1, NestedReturns DEF Returns
      <3>3. <<m + 1, j>> \in DocumentSpans /\ <<m + 1, j>> \in G
        BY <1>1, <1>4, <2>1, <3>1, SpansAre
      <3> QED BY <1>3, <2>4, <3>1, <3>2, <3>3
    <2>5. \/ i > j
          \/ document[i] \in {"text", "</script>", "</template>"} /\ Page[<<i + 1, j>>]
          \/ \E m \in i + 1..j : document[i] # "text" /\ Nested[<<i, m>>] /\ Page[<<m + 1, j>>]
      BY <1>1, PageIs
    <2>6. i > j \/ i <= j
      BY <1>1
    <2> QED BY <2>2, <2>3, <2>4, <2>5, <2>6
  <1>5. <<a, z>> \in DocumentSpans /\ <<a, z>> \in G
    <2>1. <<a, z>> \in DocumentSpans
      BY <1>1 DEF DocumentSpans
    <2> HIDE DEF G
    <2> QED BY <1>1, <1>4, <2>1, SpanInduction
  <1>6. a - 1 <= z
    BY <1>1
  <1> HIDE DEF G
  <1> QED BY <1>3, <1>5, <1>6

\* A text that the counter finds at the depth at which a nested span began stands between
\* two nested spans.
LEMMA NestedSplits ==
    ASSUME IsDocument, NEW inside, NEW depth, Counts(inside, depth, Len(document)),
           NEW x \in 1..Len(document), document[x] = "text",
           NEW a \in 1..x, NEW z \in x..Len(document),
           Nested[<<a, z>>], ~ inside[a - 1], depth[x - 1] = depth[a - 1]
    PROVE  Nested[<<a, x - 1>>] /\ Nested[<<x + 1, z>>]
  <1> DEFINE G == {s \in DocumentSpans :
                      s[1] <= x /\ x <= s[2] /\ Nested[s] /\ ~ inside[s[1] - 1]
                          /\ depth[x - 1] = depth[s[1] - 1] =>
                              Nested[<<s[1], x - 1>>] /\ Nested[<<x + 1, s[2]>>]}
  <1>1. Len(document) \in Nat /\ x \in Nat /\ x - 1 \in 0..Len(document) /\ x + 1 \in 1..Len(document) + 1
    BY DEF IsDocument
  <1>2. /\ \A k \in 1..Len(document) : Counted(inside, depth, k)
        /\ \A k \in 0..Len(document) : depth[k] \in Nat /\ inside[k] \in BOOLEAN
    BY DEF Counts
  <1>3. ASSUME NEW i, NEW j, <<i, j>> \in DocumentSpans
        PROVE  <<i, j>> \in G <=>
                  (i <= x /\ x <= j /\ Nested[<<i, j>>] /\ ~ inside[i - 1]
                          /\ depth[x - 1] = depth[i - 1] =>
                              Nested[<<i, x - 1>>] /\ Nested[<<x + 1, j>>])
    <2>1. <<i, j>>[1] = i /\ <<i, j>>[2] = j
      OBVIOUS
    <2> QED BY <1>3, <2>1
  <1>4. ASSUME NEW s \in DocumentSpans,
               \A t \in DocumentSpans : SpanLength[t] < SpanLength[s] => t \in G
        PROVE  s \in G
    <2>1. PICK i \in 1..Len(document) + 1, j \in 0..Len(document) : s = <<i, j>>
      BY DEF DocumentSpans
    <2> HIDE DEF G
    <2> SUFFICES ASSUME i <= x, x <= j, Nested[<<i, j>>], ~ inside[i - 1],
                        depth[x - 1] = depth[i - 1]
                 PROVE  Nested[<<i, x - 1>>] /\ Nested[<<x + 1, j>>]
      BY <1>3, <2>1
    <2>2. i \in 1..Len(document) /\ i \in i..j /\ (i + 1) - 1 = i /\ i <= j
      BY <1>1
    <2>3. CASE document[i] = "text" /\ Nested[<<i + 1, j>>]
      <3>1. CASE i = x
        <4>1. i > x - 1
          BY <1>1, <3>1
        <4> QED BY <1>1, <2>2, <2>3, <3>1, <4>1, NestedIs
      <3>2. CASE i # x
        <4>1. inside[i] = inside[i - 1] /\ depth[i] = depth[i - 1]
          <5>1. Counted(inside, depth, i)
            BY <1>2, <2>2
          <5>2. i - 1 \in 0..Len(document)
            BY <1>1
          <5> QED BY <1>2, <2>3, <5>1, <5>2 DEF Counted, InsideAfter, DepthAfter
        <4>2. <<i + 1, j>> \in DocumentSpans /\ <<i + 1, j>> \in G
          BY <1>1, <1>4, <2>1, <2>2, SpansAre
        <4>3. i + 1 <= x
          BY <1>1, <3>2
        <4>4. Nested[<<i + 1, x - 1>>] /\ Nested[<<x + 1, j>>]
          BY <1>3, <2>2, <2>3, <4>1, <4>2, <4>3
        <4> QED BY <1>1, <2>3, <4>4, NestedIs
      <3> QED BY <3>1, <3>2
    <2>4. ASSUME NEW m \in i + 1..j, Nested[<<m + 1, j>>], ElementIn(Nested, i, m)
          PROVE  Nested[<<i, x - 1>>] /\ Nested[<<x + 1, j>>]
      <3>1. /\ m \in i + 1..Len(document) /\ m \in i..j /\ (m + 1) - 1 = m
            /\ i + 1 \in 1..Len(document) + 1 /\ m - 1 \in (i + 1) - 1..Len(document)
        BY <1>1, <2>2
      <3>2. Nested[<<i + 1, m - 1>>] /\ ~ inside[i] => Returns(inside, depth, i + 1, m - 1)
        BY <2>2, <3>1, NestedReturns
      <3>3. /\ ~ inside[m] /\ depth[m] = depth[i - 1]
            /\ \A k \in i..m - 1 : depth[i - 1] < depth[k]
        BY <2>2, <2>4, <3>1, <3>2, ElementReturns
      <3>4. m < x
        <4> SUFFICES ASSUME x <= m PROVE FALSE
          BY <1>1, <3>1
        <4>1. document[i] # "text" /\ i # x
          BY <2>4 DEF ElementIn
        <4>2. x - 1 \in i..m - 1
          BY <1>1, <2>2, <3>1, <4>1
        <4>3. depth[i - 1] < depth[x - 1] /\ depth[x - 1] \in Nat
          BY <1>1, <1>2, <3>3, <4>2
        <4> QED BY <4>3
      <3>5. <<m + 1, j>> \in DocumentSpans /\ <<m + 1, j>> \in G
        BY <1>1, <1>4, <2>1, <3>1, SpansAre
      <3>6. m + 1 <= x /\ m \in i + 1..x - 1
        <4>1. i \in Nat /\ m \in Nat /\ i + 1 <= m /\ x \in Nat
          BY <1>1, <3>1
        <4> QED BY <3>4, <4>1
      <3>7. Nested[<<m + 1, x - 1>>] /\ Nested[<<x + 1, j>>]
        BY <1>3, <2>4, <3>1, <3>3, <3>5, <3>6
      <3> QED BY <1>1, <2>4, <3>6, <3>7, NestedIs
    <2>5. \/ document[i] = "text" /\ Nested[<<i + 1, j>>]
          \/ \E m \in i + 1..j : Nested[<<m + 1, j>>] /\ ElementIn(Nested, i, m)
      <3>1. ~ (i > j)
        BY <1>1
      <3> QED BY <1>1, <3>1, NestedIs
    <2> QED BY <2>3, <2>4, <2>5
  <1>5. <<a, z>> \in DocumentSpans /\ <<a, z>> \in G
    <2>1. <<a, z>> \in DocumentSpans
      BY <1>1 DEF DocumentSpans
    <2> HIDE DEF G
    <2> QED BY <1>1, <1>4, <2>1, SpanInduction
  <1>6. a <= x /\ x <= z
    BY <1>1
  <1> HIDE DEF G
  <1> QED BY <1>3, <1>5, <1>6

\* What nests may stand at the beginning of a page.
LEMMA NestedThenPage ==
    ASSUME IsDocument, NEW a \in 1..Len(document) + 1, NEW m \in a - 1..Len(document),
           NEW z \in m..Len(document), Nested[<<a, m>>], Page[<<m + 1, z>>]
    PROVE  Page[<<a, z>>]
  <1> DEFINE G == {s \in DocumentSpans :
                      s[2] = m /\ s[1] - 1 <= m /\ Nested[s] => Page[<<s[1], z>>]}
  <1>1. Len(document) \in Nat /\ m \in Nat /\ z \in 0..Len(document) /\ m <= z
    BY DEF IsDocument
  <1>2. ASSUME NEW i, NEW j, <<i, j>> \in DocumentSpans
        PROVE  <<i, j>> \in G <=> (j = m /\ i - 1 <= m /\ Nested[<<i, j>>] => Page[<<i, z>>])
    <2>1. <<i, j>>[1] = i /\ <<i, j>>[2] = j
      OBVIOUS
    <2> QED BY <1>2, <2>1
  <1>3. ASSUME NEW s \in DocumentSpans,
               \A t \in DocumentSpans : SpanLength[t] < SpanLength[s] => t \in G
        PROVE  s \in G
    <2>1. PICK i \in 1..Len(document) + 1, j \in 0..Len(document) : s = <<i, j>>
      BY DEF DocumentSpans
    <2> HIDE DEF G
    <2> SUFFICES ASSUME j = m, i - 1 <= m, Nested[<<i, m>>] PROVE Page[<<i, z>>]
      BY <1>2, <2>1
    <2>2. CASE i > m
      <3>1. i = m + 1
        BY <1>1, <2>2
      <3> QED BY <3>1
    <2>3. CASE i <= m /\ document[i] = "text" /\ Nested[<<i + 1, m>>]
      <3>1. i \in i..j /\ (i + 1) - 1 <= m
        BY <1>1, <2>3
      <3>2. <<i + 1, j>> \in DocumentSpans /\ <<i + 1, j>> \in G
        BY <1>1, <1>3, <2>1, <3>1, SpansAre
      <3>3. Page[<<i + 1, z>>]
        BY <1>2, <2>3, <3>1, <3>2
      <3> QED BY <1>1, <2>3, <3>3, PageIs
    <2>4. ASSUME NEW k \in i + 1..m, ElementIn(Nested, i, k)
          PROVE  Page[<<i, z>>]
      <3>1. m \in i + 1..z
        BY <1>1
      <3>2. document[i] # "text"
        BY <2>4 DEF ElementIn
      <3> QED BY <1>1, <3>1, <3>2, PageIs
    <2>5. \/ i > m
          \/ document[i] = "text" /\ Nested[<<i + 1, m>>]
          \/ \E k \in i + 1..m : Nested[<<k + 1, m>>] /\ ElementIn(Nested, i, k)
      BY <1>1, NestedIs
    <2>6. i > m \/ i <= m
      BY <1>1
    <2> QED BY <2>2, <2>3, <2>4, <2>5, <2>6
  <1>4. <<a, m>> \in DocumentSpans /\ <<a, m>> \in G
    <2>1. <<a, m>> \in DocumentSpans
      BY <1>1 DEF DocumentSpans
    <2> HIDE DEF G
    <2> QED BY <1>1, <1>3, <2>1, SpanInduction
  <1>5. a - 1 <= m
    BY <1>1
  <1> HIDE DEF G
  <1> QED BY <1>2, <1>4, <1>5

\* A text that the counter finds at depth 0 stands between two pages.
LEMMA PageSplits ==
    ASSUME IsDocument, NEW inside, NEW depth, Counts(inside, depth, Len(document)),
           NEW x \in 1..Len(document), document[x] = "text", depth[x - 1] = 0,
           NEW a \in 1..x, NEW z \in x..Len(document),
           Page[<<a, z>>], ~ inside[a - 1], depth[a - 1] = 0
    PROVE  Page[<<a, x - 1>>] /\ Page[<<x + 1, z>>]
  <1> DEFINE G == {s \in DocumentSpans :
                      s[1] <= x /\ x <= s[2] /\ Page[s] /\ ~ inside[s[1] - 1]
                          /\ depth[s[1] - 1] = 0 =>
                              Page[<<s[1], x - 1>>] /\ Page[<<x + 1, s[2]>>]}
  <1>1. Len(document) \in Nat /\ x \in Nat /\ x - 1 \in 0..Len(document) /\ x + 1 \in 1..Len(document) + 1
    BY DEF IsDocument
  <1>2. \A k \in 1..Len(document) : Counted(inside, depth, k)
    BY DEF Counts
  <1>3. ASSUME NEW i, NEW j, <<i, j>> \in DocumentSpans
        PROVE  <<i, j>> \in G <=>
                  (i <= x /\ x <= j /\ Page[<<i, j>>] /\ ~ inside[i - 1] /\ depth[i - 1] = 0 =>
                      Page[<<i, x - 1>>] /\ Page[<<x + 1, j>>])
    <2>1. <<i, j>>[1] = i /\ <<i, j>>[2] = j
      OBVIOUS
    <2> QED BY <1>3, <2>1
  <1>4. ASSUME NEW s \in DocumentSpans,
               \A t \in DocumentSpans : SpanLength[t] < SpanLength[s] => t \in G
        PROVE  s \in G
    <2>1. PICK i \in 1..Len(document) + 1, j \in 0..Len(document) : s = <<i, j>>
      BY DEF DocumentSpans
    <2> HIDE DEF G
    <2> SUFFICES ASSUME i <= x, x <= j, Page[<<i, j>>], ~ inside[i - 1], depth[i - 1] = 0
                 PROVE  Page[<<i, x - 1>>] /\ Page[<<x + 1, j>>]
      BY <1>3, <2>1
    <2>2. i \in 1..Len(document) /\ i \in i..j /\ (i + 1) - 1 = i /\ i <= j
      BY <1>1
    <2>3. CASE document[i] \in {"text", "</script>", "</template>"} /\ Page[<<i + 1, j>>]
      <3>1. CASE i = x
        <4>1. i > x - 1
          BY <1>1, <3>1
        <4> QED BY <1>1, <2>2, <2>3, <3>1, <4>1, PageIs
      <3>2. CASE i # x
        <4>1. Page[<<i + 1, i>>]
          <5>1. i + 1 \in 1..Len(document) + 1 /\ i \in 0..Len(document) /\ i + 1 > i
            BY <1>1, <2>2
          <5> QED BY <1>1, <5>1, PageIs
        <4>2. Page[<<i, i>>]
          <5>1. i \in 1..Len(document) + 1 /\ i \in 0..Len(document)
            BY <1>1, <2>2
          <5> QED BY <1>1, <2>3, <4>1, <5>1, PageIs
        <4>3. ~ inside[i] /\ depth[i] = 0
          <5>1. i \in i - 1..Len(document)
            BY <1>1, <2>2
          <5> QED BY <4>2, <5>1, PageReturns
        <4>4. <<i + 1, j>> \in DocumentSpans /\ <<i + 1, j>> \in G
          BY <1>1, <1>4, <2>1, <2>2, SpansAre
        <4>5. i + 1 <= x
          BY <1>1, <3>2
        <4>6. Page[<<i + 1, x - 1>>] /\ Page[<<x + 1, j>>]
          BY <1>3, <2>2, <2>3, <4>3, <4>4, <4>5
        <4> QED BY <1>1, <2>3, <4>6, PageIs
      <3> QED BY <3>1, <3>2
    <2>4. ASSUME NEW m \in i + 1..j, document[i] # "text", Nested[<<i, m>>], Page[<<m + 1, j>>]
          PROVE  Page[<<i, x - 1>>] /\ Page[<<x + 1, j>>]
      <3>1. /\ m \in i - 1..Len(document) /\ m \in i..j /\ (m + 1) - 1 = m /\ m <= j /\ m \in Nat
            /\ j \in m..Len(document)
        BY <1>1
      <3>2. CASE x <= m
        <4>1. /\ i \in 1..x /\ m \in x..Len(document)
              /\ x - 1 \in i - 1..Len(document) /\ x - 1 \in x - 1..Len(document)
              /\ m \in (x + 1) - 1..Len(document)
          BY <1>1, <2>2, <3>1, <3>2
        <4>2. Nested[<<i, x - 1>>] /\ Nested[<<x + 1, m>>]
          BY <2>4, <4>1, NestedSplits
        <4>3. Page[<<(x - 1) + 1, x - 1>>]
          <5>1. (x - 1) + 1 \in 1..Len(document) + 1 /\ (x - 1) + 1 > x - 1
            BY <1>1
          <5> QED BY <1>1, <5>1, PageIs
        <4>4. Page[<<i, x - 1>>]
          BY <4>1, <4>2, <4>3, NestedThenPage
        <4>5. Page[<<x + 1, j>>]
          BY <1>1, <2>4, <3>1, <4>1, <4>2, NestedThenPage
        <4> QED BY <4>4, <4>5
      <3>3. CASE m < x
        <4>1. ~ inside[m] /\ depth[m] = 0
          <5>1. Returns(inside, depth, i, m)
            BY <2>4, <3>1, NestedReturns
          <5> QED BY <5>1 DEF Returns
        <4>2. <<m + 1, j>> \in DocumentSpans /\ <<m + 1, j>> \in G
          BY <1>1, <1>4, <2>1, <3>1, SpansAre
        <4>3. m + 1 <= x /\ m \in i + 1..x - 1
          <5>1. i \in Nat /\ m \in Nat /\ x \in Nat /\ i + 1 <= m
            BY <1>1, <3>1
          <5> QED BY <3>3, <5>1
        <4>4. Page[<<m + 1, x - 1>>] /\ Page[<<x + 1, j>>]
          BY <1>3, <2>4, <3>1, <4>1, <4>2, <4>3
        <4> QED BY <1>1, <2>4, <4>3, <4>4, PageIs
      <3> QED BY <1>1, <3>1, <3>2, <3>3
    <2>5. \/ document[i] \in {"text", "</script>", "</template>"} /\ Page[<<i + 1, j>>]
          \/ \E m \in i + 1..j : document[i] # "text" /\ Nested[<<i, m>>] /\ Page[<<m + 1, j>>]
      <3>1. ~ (i > j)
        BY <1>1
      <3> QED BY <1>1, <3>1, PageIs
    <2> QED BY <2>3, <2>4, <2>5
  <1>5. <<a, z>> \in DocumentSpans /\ <<a, z>> \in G
    <2>1. <<a, z>> \in DocumentSpans
      BY <1>1 DEF DocumentSpans
    <2> HIDE DEF G
    <2> QED BY <1>1, <1>4, <2>1, SpanInduction
  <1>6. a <= x /\ x <= z
    BY <1>1
  <1> HIDE DEF G
  <1> QED BY <1>3, <1>5, <1>6

\* What the parser has counted so far, and kept, is what the counter makes of the document.
CountInv ==
    /\ IsDocument
    /\ \E inside, depth :
          /\ Counts(inside, depth, at) /\ inside[at] = raw /\ depth[at] = ignored
          /\ fragments = {k \in 1..at \ HeldBack : document[k] = "text" /\ depth[k - 1] = 0}
    /\ raw => ignored > 0
    /\ decoding = "decoded" => at = Len(document)

\* One token more.
LEMMA CountsOn ==
    ASSUME NEW n \in Nat, NEW inside, NEW depth, Counts(inside, depth, n),
           NEW b \in BOOLEAN, NEW d \in Nat,
           b = InsideAfter(document[n + 1], inside[n]),
           d = DepthAfter(document[n + 1], inside[n], depth[n])
    PROVE  \E u, v : /\ Counts(u, v, n + 1) /\ u[n + 1] = b /\ v[n + 1] = d
                     /\ \A k \in 0..n : v[k] = depth[k]
  <1> DEFINE u == [k \in 0..n + 1 |-> IF k = n + 1 THEN b ELSE inside[k]]
             v == [k \in 0..n + 1 |-> IF k = n + 1 THEN d ELSE depth[k]]
  <1>1. /\ inside \in [0..n -> BOOLEAN] /\ inside[0] = FALSE
        /\ depth \in [0..n -> Nat] /\ depth[0] = 0
        /\ \A k \in 1..n : Counted(inside, depth, k)
    BY DEF Counts
  <1>2. \A k \in 0..n + 1 : k = n + 1 \/ k \in 0..n
    OBVIOUS
  <1>3. u[n + 1] = b /\ v[n + 1] = d /\ \A k \in 0..n : u[k] = inside[k] /\ v[k] = depth[k]
    OBVIOUS
  <1>4. u \in [0..n + 1 -> BOOLEAN] /\ v \in [0..n + 1 -> Nat]
    BY <1>1, <1>2
  <1> HIDE DEF u, v
  <1>5. u[0] = FALSE /\ v[0] = 0
    BY <1>1, <1>3
  <1>6. ASSUME NEW k \in 1..n PROVE Counted(u, v, k)
    <2>1. /\ Counted(inside, depth, k)
          /\ u[k] = inside[k] /\ v[k] = depth[k] /\ u[k - 1] = inside[k - 1] /\ v[k - 1] = depth[k - 1]
      BY <1>1, <1>3
    <2> QED BY <2>1 DEF Counted, InsideAfter, DepthAfter
  <1>7. Counted(u, v, n + 1)
    <2>1. (n + 1) - 1 = n /\ u[n] = inside[n] /\ v[n] = depth[n]
      BY <1>3
    <2>2. u[n + 1] = InsideAfter(document[n + 1], u[n])
      BY <1>3, <2>1
    <2>3. v[n + 1] = DepthAfter(document[n + 1], u[n], v[n])
      BY <1>3, <2>1
    <2> QED BY <2>1, <2>2, <2>3 DEF Counted
  <1>8. \A k \in 1..n + 1 : k \in 1..n \/ k = n + 1
    OBVIOUS
  <1>9. Counts(u, v, n + 1)
    BY <1>4, <1>5, <1>6, <1>7, <1>8 DEF Counts
  <1> QED BY <1>3, <1>9

\* What the tokenizer and the depth have to do with a token.
LEMMA TokenCounted ==
    ASSUME DecodeTypeOK, CountInv, NEW token, Reading(token),
           raw' = InsideAfter(token, raw), ignored' = DepthAfter(token, raw, ignored),
           fragments' = IF token = "text" /\ ignored = 0 /\ at + 1 \notin HeldBack
                        THEN fragments \cup {at + 1} ELSE fragments
    PROVE  CountInv'
  <1>1. /\ at \in Nat /\ at < Len(document) /\ document[at + 1] = token /\ Len(document) \in Nat
        /\ at' = at + 1 /\ document' = document /\ decoding' = decoding /\ decoding = "feeding"
        /\ openEnded' = openEnded
        /\ raw \in BOOLEAN /\ ignored \in Nat
    BY DEF Reading, DecodeTypeOK, CountInv, IsDocument
  <1>2. PICK inside, depth :
            /\ Counts(inside, depth, at) /\ inside[at] = raw /\ depth[at] = ignored
            /\ fragments = {k \in 1..at \ HeldBack : document[k] = "text" /\ depth[k - 1] = 0}
    BY DEF CountInv
  <1>3. raw' \in BOOLEAN /\ ignored' \in Nat
    BY <1>1 DEF InsideAfter, DepthAfter
  <1>4. PICK u, v : /\ Counts(u, v, at + 1) /\ u[at + 1] = raw' /\ v[at + 1] = ignored'
                    /\ \A k \in 0..at : v[k] = depth[k]
    <2>1. Counts(inside, depth, at) /\ at \in Nat
      BY <1>1, <1>2
    <2>2. /\ raw' = InsideAfter(document[at + 1], inside[at])
          /\ ignored' = DepthAfter(document[at + 1], inside[at], depth[at])
      BY <1>1, <1>2
    <2> QED BY <1>3, <2>1, <2>2, CountsOn
  <1>5. fragments' = {k \in 1..at + 1 \ HeldBack : document[k] = "text" /\ v[k - 1] = 0}
    <2>1. \A k \in 1..at + 1 : k - 1 \in 0..at /\ (k = at + 1 \/ k \in 1..at)
      BY <1>1
    <2>2. 1..at \subseteq 1..at + 1 /\ at + 1 \in 1..at + 1 /\ at + 1 \notin 1..at /\ (at + 1) - 1 = at
      BY <1>1
    <2>3. \A k \in 1..at + 1 : v[k - 1] = depth[k - 1]
      BY <1>4, <2>1
    <2>4. fragments' = {k \in 1..at + 1 \ HeldBack : document[k] = "text" /\ depth[k - 1] = 0}
      BY <1>1, <1>2, <2>1, <2>2
    <2> QED BY <2>3, <2>4
  <1>6. Counts(u, v, at)'
    BY <1>1, <1>4 DEF Counts, Counted
  <1>7. IsDocument'
    BY <1>1 DEF IsDocument, CountInv
  <1>8. raw' => ignored' > 0
    <2> SUFFICES ASSUME raw' PROVE ignored' > 0
      OBVIOUS
    <2>1. token # "</script>" /\ (token = "<script>" \/ raw)
      BY DEF InsideAfter
    <2>2. CASE raw
      <3>1. ignored > 0
        BY <2>2 DEF CountInv
      <3>2. ignored' = ignored
        BY <2>1, <2>2 DEF DepthAfter
      <3> QED BY <3>1, <3>2
    <2>3. CASE ~ raw
      <3>1. ignored' = ignored + 1
        BY <2>1, <2>3 DEF DepthAfter
      <3> QED BY <1>1, <3>1
    <2> QED BY <2>2, <2>3
  <1>9. HeldBack' = HeldBack
    BY <1>1 DEF HeldBack
  <1> QED BY <1>1, <1>4, <1>5, <1>6, <1>7, <1>8, <1>9 DEF CountInv

\* Of a document whose elements nest, the parser keeps the text outside of them, but for
\* what it holds back.
LEMMA KeptIsVisible == ASSUME DecodeTypeOK, CountInv PROVE OnlyVisibleTextIsKept
  <1> SUFFICES ASSUME decoding = "decoded", Page[<<1, Len(document)>>]
               PROVE  fragments = {k \in DOMAIN document \ HeldBack :
                          /\ document[k] = "text"
                          /\ Page[<<1, k - 1>>] /\ Page[<<k + 1, Len(document)>>]}
    BY DEF OnlyVisibleTextIsKept
  <1>1. PICK inside, depth :
            /\ Counts(inside, depth, at)
            /\ fragments = {k \in 1..at \ HeldBack : document[k] = "text" /\ depth[k - 1] = 0}
    BY DEF CountInv
  <1>2. at = Len(document) /\ IsDocument /\ Len(document) \in Nat
    BY DEF CountInv, IsDocument
  <1>3. Counts(inside, depth, Len(document)) /\ ~ inside[0] /\ depth[0] = 0 /\ 1 - 1 = 0
    BY <1>1, <1>2 DEF Counts
  <1>4. ASSUME NEW k \in 1..Len(document), document[k] = "text", depth[k - 1] = 0
        PROVE  Page[<<1, k - 1>>] /\ Page[<<k + 1, Len(document)>>]
    <2>1. 1 \in 1..k /\ Len(document) \in k..Len(document)
      BY <1>2
    <2> QED BY <1>2, <1>3, <1>4, <2>1, PageSplits
  <1>5. ASSUME NEW k \in 1..Len(document), Page[<<1, k - 1>>] PROVE depth[k - 1] = 0
    <2>1. 1 \in 1..Len(document) + 1 /\ k - 1 \in 1 - 1..Len(document)
      BY <1>2
    <2> QED BY <1>2, <1>3, <1>5, <2>1, PageReturns
  <1>6. DOMAIN document = 1..Len(document)
    BY <1>2 DEF IsDocument
  <1> QED BY <1>1, <1>2, <1>4, <1>5, <1>6

LEMMA CountStarts == DecodeInit => CountInv
  <1> SUFFICES ASSUME DecodeInit PROVE CountInv
    OBVIOUS
  <1>1. PICK n \in 1..MaxTokens : document \in [1..n -> Tokens]
    BY DEF DecodeInit
  <1>2. n \in Nat /\ Len(document) = n
    BY <1>1, LenProperties
  <1>3. IsDocument
    BY <1>1, <1>2 DEF IsDocument
  <1>4. at = 0 /\ raw = FALSE /\ ignored = 0 /\ fragments = {} /\ decoding = "offered"
    BY DEF DecodeInit
  <1>5. Counts([k \in 0..0 |-> FALSE], [k \in 0..0 |-> 0], 0)
    BY DEF Counts
  <1>6. {k \in 1..0 \ HeldBack : document[k] = "text" /\ [m \in 0..0 |-> 0][k - 1] = 0} = {}
    OBVIOUS
  <1>7. \E inside, depth :
            /\ Counts(inside, depth, at) /\ inside[at] = raw /\ depth[at] = ignored
            /\ fragments = {k \in 1..at \ HeldBack : document[k] = "text" /\ depth[k - 1] = 0}
    <2>1. [k \in 0..0 |-> FALSE][0] = FALSE /\ [k \in 0..0 |-> 0][0] = 0
      OBVIOUS
    <2> HIDE DEF Counts
    <2> WITNESS [k \in 0..0 |-> FALSE], [k \in 0..0 |-> 0]
    <2>2. at = 0 /\ 1..at = 1..0
      BY <1>4
    <2> QED BY <1>4, <1>5, <1>6, <2>1, <2>2
  <1> QED BY <1>3, <1>4, <1>7 DEF CountInv

LEMMA CountGoesOn ==
    ASSUME DecodeTypeOK, CountInv, [DecodeNext]_decodevars
    PROVE  CountInv'
  <1> USE DEF InsideAfter, DepthAfter
  <1>1. raw \in BOOLEAN /\ (raw => ignored > 0) /\ ignored \in Nat
    BY DEF CountInv, DecodeTypeOK
  <1>2. CASE ReadScript
    BY <1>1, <1>2, TokenCounted DEF ReadScript, Starts
  <1>3. CASE ReadScriptEnd
    <2>1. Reading("</script>") /\ ignored' = DepthAfterEnd /\ fragments' = fragments
      BY <1>3 DEF ReadScriptEnd, Ends
    <2>2. raw' = InsideAfter("</script>", raw)
      BY <1>1, <1>3 DEF ReadScriptEnd
    <2>3. ignored' = DepthAfter("</script>", raw, ignored)
      BY <1>3, <2>1 DEF ReadScriptEnd, DepthAfterEnd
    <2> QED BY <2>1, <2>2, <2>3, TokenCounted
  <1>4. CASE ReadTemplate
    BY <1>1, <1>4, TokenCounted DEF ReadTemplate, Starts
  <1>5. CASE ReadTemplateEnd
    <2>1. Reading("</template>") /\ ignored' = DepthAfterEnd /\ fragments' = fragments
      BY <1>5 DEF ReadTemplateEnd, Ends
    <2>2. raw' = InsideAfter("</template>", raw)
      BY <1>1, <1>5 DEF ReadTemplateEnd
    <2>3. ignored' = DepthAfter("</template>", raw, ignored)
      BY <1>5, <2>1 DEF ReadTemplateEnd, DepthAfterEnd
    <2> QED BY <2>1, <2>2, <2>3, TokenCounted
  <1>6. CASE ReadText
    BY <1>1, <1>6, TokenCounted DEF ReadText, HandleData
  <1>7. CASE ReadRaw
    <2>1. PICK t \in {"<script>", "<template>", "</template>"} :
                 Reading(t) /\ raw /\ UNCHANGED raw /\ HandleData
      BY <1>7 DEF ReadRaw
    <2>2. fragments' = fragments /\ ignored' = ignored /\ t # "text"
      BY <1>1, <2>1 DEF HandleData
    <2>3. raw' = InsideAfter(t, raw) /\ ignored' = DepthAfter(t, raw, ignored)
      BY <1>1, <2>1, <2>2
    <2> QED BY <2>1, <2>2, <2>3, TokenCounted
  <1>8. CASE Accept \/ Finish \/ UNCHANGED decodevars
    <2>1. /\ UNCHANGED <<document, openEnded, at, raw, ignored, fragments>>
          /\ decoding' = "decoded" => decoding = "decoded" \/ at = Len(document)
      BY <1>8 DEF Accept, Finish, decodevars
    <2>2. PICK inside, depth :
              /\ Counts(inside, depth, at) /\ inside[at] = raw /\ depth[at] = ignored
              /\ fragments = {k \in 1..at \ HeldBack : document[k] = "text" /\ depth[k - 1] = 0}
      BY DEF CountInv
    <2>3. Counts(inside, depth, at)'
      BY <2>1, <2>2 DEF Counts, Counted
    <2>4. /\ inside[at'] = raw' /\ depth[at'] = ignored'
          /\ fragments' = {k \in 1..at' \ HeldBack' : document'[k] = "text" /\ depth[k - 1] = 0}
      BY <2>1, <2>2 DEF HeldBack
    <2>5. IsDocument' /\ (raw' => ignored' > 0)
      BY <2>1 DEF CountInv, IsDocument
    <2>6. decoding' = "decoded" => at' = Len(document')
      BY <2>1 DEF CountInv
    <2> QED BY <2>3, <2>4, <2>5, <2>6 DEF CountInv
  <1> QED BY <1>2, <1>3, <1>4, <1>5, <1>6, <1>7, <1>8 DEF DecodeNext

LEMMA DecodeTyped == DecodeSpec => []DecodeTypeOK
  <1> DEFINE Inv == DecodeTypeOK /\ Len(document) \in Nat
  <1>1. DecodeInit => Inv
    <2> SUFFICES ASSUME DecodeInit PROVE Inv
      OBVIOUS
    <2>1. PICK n \in 1..MaxTokens : document \in [1..n -> Tokens]
      BY DEF DecodeInit
    <2>2. n \in Nat
      BY <2>1
    <2>3. Len(document) = n
      BY <2>1, <2>2, LenProperties
    <2>4. /\ at = 0 /\ raw \in BOOLEAN /\ ignored = 0 /\ fragments = {} /\ decoding = "offered"
          /\ openEnded \in BOOLEAN
      BY DEF DecodeInit
    <2> QED BY <2>2, <2>3, <2>4 DEF DecodeTypeOK
  <1>2. Inv /\ [DecodeNext]_decodevars => Inv'
    <2> SUFFICES ASSUME Inv, [DecodeNext]_decodevars PROVE Inv'
      OBVIOUS
    <2>1. CASE Accept
      BY <2>1 DEF Accept, DecodeTypeOK
    <2>2. CASE Finish
      BY <2>2 DEF Finish, DecodeTypeOK
    <2>3. ASSUME NEW t, Reading(t)
          PROVE  /\ at' = at + 1 /\ at' \in 0..Len(document) /\ document' = document
                 /\ decoding' = decoding /\ openEnded' = openEnded
      BY <2>3 DEF Reading, DecodeTypeOK
    <2>4. CASE ReadScript \/ ReadTemplate
      <3>1. \E t : Reading(t)
        BY <2>4 DEF ReadScript, ReadTemplate
      <3>2. /\ at' = at + 1 /\ at' \in 0..Len(document) /\ document' = document
            /\ decoding' = decoding /\ openEnded' = openEnded
        BY <2>3, <3>1
      <3>3. ignored' = ignored + 1 /\ fragments' = fragments /\ raw' \in BOOLEAN
        BY <2>4 DEF ReadScript, ReadTemplate, Starts, DecodeTypeOK
      <3>4. ignored' \in 0..at' /\ fragments' \subseteq 1..at'
        BY <3>2, <3>3 DEF DecodeTypeOK
      <3> QED BY <3>2, <3>3, <3>4 DEF DecodeTypeOK
    <2>5. CASE ReadScriptEnd \/ ReadTemplateEnd
      <3>1. \E t : Reading(t)
        BY <2>5 DEF ReadScriptEnd, ReadTemplateEnd
      <3>2. /\ at' = at + 1 /\ at' \in 0..Len(document) /\ document' = document
            /\ decoding' = decoding /\ openEnded' = openEnded
        BY <2>3, <3>1
      <3>3. ignored' = DepthAfterEnd /\ fragments' = fragments /\ raw' \in BOOLEAN
        BY <2>5 DEF ReadScriptEnd, ReadTemplateEnd, Ends, DecodeTypeOK
      <3>4. ignored' \in 0..at' /\ fragments' \subseteq 1..at'
        BY <3>2, <3>3 DEF DepthAfterEnd, DecodeTypeOK
      <3> QED BY <3>2, <3>3, <3>4 DEF DecodeTypeOK
    <2>6. CASE ReadText \/ ReadRaw
      <3>1. at' = at + 1 /\ at' \in 0..Len(document) /\ document' = document
            /\ decoding' = decoding /\ openEnded' = openEnded /\ raw' = raw /\ HandleData
        BY <2>3, <2>6 DEF ReadText, ReadRaw
      <3> QED BY <3>1 DEF HandleData, DecodeTypeOK
    <2>7. CASE UNCHANGED decodevars
      BY <2>7 DEF decodevars, DecodeTypeOK
    <2> QED BY <2>1, <2>2, <2>4, <2>5, <2>6, <2>7 DEF DecodeNext
  <1> QED BY <1>1, <1>2, PTL DEF DecodeSpec

\* THEOREM: of a document whose elements nest, with stray end tags or without, the decoder
\* keeps no text inside of active elements and all of it outside, but for a last text that
\* the parser holds back and loses: one counter for all elements keeps what a tree would
\* (decoder.py, _SafeHTMLText), for documents and limits of any size.
THEOREM VisibleTextKept == DecodeSpec => []OnlyVisibleTextIsKept
  <1>1. CountInv /\ DecodeTypeOK /\ [DecodeNext]_decodevars => CountInv'
    BY CountGoesOn
  <1>2. DecodeSpec => []CountInv
    BY <1>1, CountStarts, DecodeTyped, PTL DEF DecodeSpec
  <1>3. DecodeTypeOK /\ CountInv => OnlyVisibleTextIsKept
    BY KeptIsVisible
  <1> QED BY <1>2, <1>3, DecodeTyped, PTL

-----------------------------------------------------------------------------
(* The parts put together *)

LEMMA PartsStart ==
    BoundaryInit =>
        /\ SourceInit /\ StreamInit /\ PagesInit /\ AccessInit /\ LabInit /\ NorthInit
        /\ ApprovalsInit /\ AuditInit /\ PackagesInit /\ DecodeInit /\ ReleaseInit
        /\ PromotionInit /\ PackInit /\ ConnectorInit /\ LocalInit /\ HarnessInit
  <1> SUFFICES ASSUME BoundaryInit
               PROVE  PromotionInit /\ PackInit /\ ConnectorInit
    BY DEF BoundaryInit
  <1>1. PromotionStarts(<<>>) => PromotionInit
    BY DEF PromotionInit
  <1>2. AloneDatasets => PackInit
    <2>1. [d \in Datasets |-> {}] \in References
      BY DEF References
    <2> QED BY <2>1 DEF AloneDatasets, PackInit
  <1>3. AConnector => ConnectorInit
    <2> DEFINE p == [mode |-> "connected", allowed |-> {}]
    <2>1. p \in Profiles /\ ValidProfile(p)
      <3>1. {} \in SUBSET Hosts /\ "connected" \in Modes
        BY DEF Modes
      <3>2. p \in Profiles
        BY <3>1 DEF Profiles
      <3>3. \A h \in p.allowed : FALSE
        OBVIOUS
      <3> QED BY <3>2, <3>3 DEF ValidProfile
    <2> HIDE DEF p
    <2>2. ConnectorStarts(p, {}) => ConnectorInit
      BY <2>1 DEF ConnectorInit
    <2> QED BY <2>2 DEF AConnector, p
  <1> QED BY <1>1, <1>2, <1>3 DEF BoundaryInit

\* In each step of the whole, each part takes one of its steps or none.
LEMMA PartsStep ==
    [BoundaryNext]_boundaryvars =>
        /\ [SourceNext]_sourcevars /\ [StreamNext]_streamvars /\ [PagesNext]_pagevars
        /\ [AccessNext]_accessvars /\ [LabNext]_labvars /\ [NorthNext]_northvars
        /\ [ApprovalsNext]_approvalvars /\ [AuditNext]_auditvars
        /\ [PackagesNext]_packagevars /\ [DecodeNext]_decodevars
        /\ [ReleaseNext]_releasevars /\ [PromotionNext]_promotionvars
        /\ [PackNext]_packvars /\ [ConnectorNext]_workervars
        /\ [LocalNext]_localvars /\ [HarnessNext]_harnessvars
  BY DEF BoundaryNext, OthersStay, boundaryvars

\* What a part keeps by itself it keeps in the whole.
LEMMA PartsBehave ==
    BoundarySpec =>
        /\ SourceSpec /\ StreamSpec /\ PagesSpec /\ AccessSpec /\ LabSpec /\ NorthSpec
        /\ ApprovalsSpec /\ AuditSpec /\ PackagesSpec /\ DecodeSpec /\ ReleaseSpec
        /\ PromotionSpec /\ PackSpec /\ ConnectorSpec /\ LocalSpec /\ HarnessSpec
  BY PartsStart, PartsStep, PTL
     DEF BoundarySpec, SourceSpec, StreamSpec, PagesSpec, AccessSpec, LabSpec, NorthSpec,
         ApprovalsSpec, AuditSpec, PackagesSpec, DecodeSpec, ReleaseSpec, PromotionSpec,
         PackSpec, ConnectorSpec, LocalSpec, HarnessSpec

\* THEOREM: a reader delivers and filters by fields that the policy decided on, but for empty
\* selections and the worker's plain filter; what the planner compiles is not denied; an
\* agent sees documents of its own role, and who names a customer without filtering by asset
\* sees that customer's rows (policy.py, planning.py, the labs' readers).
THEOREM AccessIsKept == BoundarySpec => []AccessIsScoped
  <1>1. ReadsWithinGrant /\ PlansAreAdmitted /\ DocumentsMatchRoles /\ RowsMatchCustomers
        => AccessIsScoped
    BY DEF AccessIsScoped
  <1> QED BY <1>1, PartsBehave, AccessWithinGrant, LabShowsOwn, PTL

\* THEOREM: an installation accepts exactly what a publisher built and verification lets
\* through, and what a pack generates is whole (packaging.py, pack_factory.py).
THEOREM PacksAreKept == BoundarySpec => []PacksAreSound
  <1>1. AcceptedIsBuilt /\ BuiltIsAccepted /\ GenerationFollowsReferences => PacksAreSound
    BY DEF PacksAreSound
  <1> QED BY <1>1, PartsBehave, PackagesSound, PacksFollowReferences, PTL

\* THEOREM: a release is accepted, and a lab promoted, on evidence of what is released and
\* on its last word (acceptance.py, promotion.py).
THEOREM ReleasesAreKept == BoundarySpec => []ReleasesAreEarned
  <1>1. AcceptedIsEvidenced /\ NoLaterFailureHidden => ReleasesAreEarned
    BY DEF ReleasesAreEarned
  <1> QED BY <1>1, PartsBehave, AcceptanceEarned, PromotionEarned, PTL

\* THEOREM: what the readiness certifier accepts has run and has passed, however runs were
\* killed; what it was built from is what its label names only unless the tag was moved, or
\* the checkout changed, in the intervals that the parts name, and what sources a service
\* image was built from is left open (live/local_lab.py, live/harness_runtime_lab.py).
THEOREM CertificatesAreKept == BoundarySpec => []CertifiedIsReal
  <1>1. CertifiedImagesRan /\ LockedFromSources /\ SeededOnce /\ CertifiedIsCommitted
        => CertifiedIsReal
    BY DEF CertifiedIsReal
  <1> QED BY <1>1, PartsBehave, LocalLabCertified, HarnessCommitted, PTL

\* THEOREM: the consumer of a stream misses no event and repeats one only after a crash, and
\* a read that ends well has the collection's first rows (the lab's EventConnector and its
\* service connectors).
THEOREM ReadsAreKept == BoundarySpec => []ReadsAreWhole
  <1>1. NothingSkipped /\ RepeatsAreCrashes /\ PagesMakeTheCollection /\ EveryPageGains
        => ReadsAreWhole
    BY DEF ReadsAreWhole
  <1> QED BY <1>1, PartsBehave, StreamNeverSkips, PagesAreWhole, PTL

\* THEOREM: the state of every part at the harness's edges stays in the range its type gives,
\* with the counters bounded as the code bounds them.
THEOREM BoundaryTyped == BoundarySpec => []BoundaryTypeOK
  <1>1. LiveInv => SourceTypeOK
    BY SourceTyped
  <1>2. AccessInv => AccessTypeOK
    BY DEF AccessInv
  <1>3. NorthInv => NorthTypeOK
    BY DEF NorthInv
  <1>4. ApprovalsInv => ApprovalsTypeOK
    BY DEF ApprovalsInv
  <1>5. ReleaseInv => ReleaseTypeOK
    BY ReleaseInvTyped
  <1>6. PackagesInv => PackagesTypeOK
    BY PackagesInvTyped
  <1>7. SourceTypeOK /\ StreamTypeOK /\ PagesTypeOK /\ AccessTypeOK /\ NorthTypeOK
          /\ ApprovalsTypeOK /\ AuditTypeOK /\ PackagesTypeOK /\ DecodeTypeOK /\ ReleaseTypeOK
          /\ PackTypeOK /\ LocalTypeOK
        => BoundaryTypeOK
    BY DEF BoundaryTypeOK
  <1> QED BY <1>1, <1>2, <1>3, <1>4, <1>5, <1>6, <1>7, PartsBehave, LiveInvHolds, StreamNeverSkips,
             PagesAreWhole, AccessInvHolds, NorthInvHolds, ApprovalsTyped, DamageIsTold,
             PackagesInvHolds, DecodeTyped, ReleaseInvHolds, PacksFollowReferences,
             LocalLabCertified, PTL

\* THEOREM: in the whole, overlapping mutations lose no update, a plan of the doors over a
\* catalog is what its listing showed, what is carried out was approved, a chain tells of
\* damage inside it, no malformed answer of a worker passes for a whole one, and a decoder
\* keeps the text outside of active elements but a last one held back (live/connectors.py,
\* protocol.py, actions.py, worker_connector.py, decoder.py).
THEOREM EdgesAreKept ==
    BoundarySpec => [](/\ MutationsAreConditional /\ PlansAreAsListed /\ AcceptedWasApproved
                       /\ ChainTellsDamage /\ WorkersAreContained /\ OnlyVisibleTextIsKept)
  BY PartsBehave, MutationsConditional, PlansListed, AcceptedWasApprovedHolds, DamageIsTold,
     WorkersContained, VisibleTextKept, PTL
=============================================================================
