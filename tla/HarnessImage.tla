----------------------------- MODULE HarnessImage ---------------------------
(***************************************************************************)
(* The harness image as evidence (white_goods/live/harness_runtime_lab.py):*)
(* a run builds it from the work tree, labels it with the revision that    *)
(* git names, probes it, and records both; the readiness certifier         *)
(* compares the record with the release lock.                              *)
(*                                                                         *)
(* Abstractions: a revision is the content it committed; the tree is the   *)
(* tracked files, apart from which untracked ones below src or             *)
(* reference_labs go into the wheel or the image; an image is its label    *)
(* and what it was built from, and is its own digest; one with untracked   *)
(* files, or whose two parts (the wheel, reference_labs) come from         *)
(* different trees, is like one of edited sources; the sources' stack is   *)
(* in LocalLab; the probe passes or fails.                                 *)
(***************************************************************************)
EXTENDS Naturals

CONSTANTS Commits,   \* revisions
          Edited,    \* a tree that is no commit's
          NoImage

Trees == Commits \cup {Edited}
HarnessImages == [revision : Commits, built : Trees]

VARIABLES
    head, tree,   \* HEAD, and the tracked files
    strays,       \* whether there are untracked files
    imageTag,     \* image that IMAGE_TAG names
    step,         \* where the run is
    revision,     \* _source_revision(), or Edited outside of a run
    wheel,        \* what "uv build" packed, likewise
    artifact,     \* the image inspected after the build
    evidenced,    \* the evidence file: revision and artifact
    released,     \* the harness's entry in the release lock
    changed       \* the checkout held untracked files when the run looked at it, or changed
                  \* from then to the end of the build (history)

repository == <<head, tree, strays>>
records == <<evidenced, released>>
build == <<revision, wheel, artifact>>
harnessvars == <<repository, imageTag, step, build, records, changed>>

HarnessInit ==
    /\ head \in Commits /\ tree = head /\ strays = FALSE
    /\ imageTag = NoImage /\ artifact = NoImage
    /\ step = "idle" /\ revision = Edited /\ wheel = Edited
    /\ evidenced = NoImage /\ released = NoImage
    /\ changed = FALSE

\* The frame of a run is gone.
RunReturns ==
    step' = "idle" /\ artifact' = NoImage /\ revision' = Edited /\ wheel' = Edited /\ changed' = FALSE

\* git status, which is not asked about untracked files.
CheckClean ==
    /\ step = "idle"
    /\ tree = head
    /\ step' = "clean" /\ changed' = strays
    /\ UNCHANGED <<repository, imageTag, build, records>>

\* git rev-parse, a command of its own.
ReadRevision ==
    /\ step = "clean"
    /\ revision' = head
    /\ step' = "packing"
    /\ UNCHANGED <<repository, imageTag, wheel, artifact, records, changed>>

\* What a build finds in the checkout.
Context == IF strays THEN Edited ELSE tree

PackWheel ==
    /\ step = "packing"
    /\ wheel' = Context
    /\ step' = "building"
    /\ UNCHANGED <<repository, imageTag, revision, artifact, records, changed>>

BuildImage ==
    /\ step = "building"
    /\ imageTag' = [revision |-> revision, built |-> IF wheel = Context THEN wheel ELSE Edited]
    /\ step' = "inspecting"
    /\ UNCHANGED <<repository, build, records, changed>>

\* The label is compared for the tag may have moved.
InspectImage ==
    /\ step = "inspecting"
    /\ imageTag.revision = revision
    /\ artifact' = imageTag /\ step' = "probing"
    /\ UNCHANGED <<repository, imageTag, revision, wheel, records, changed>>

\* The probe runs the artifact; what is recorded is what the run told it.
WriteEvidence ==
    /\ step = "probing"
    /\ evidenced' = [revision |-> revision, digest |-> artifact, torn |-> changed]
    /\ RunReturns
    /\ UNCHANGED <<repository, imageTag, released>>

\* A refusal, a command that fails, a kill.
RunStops ==
    /\ step # "idle"
    /\ RunReturns
    /\ UNCHANGED <<repository, imageTag, records>>

\* Whoever works in the checkout edits, commits, checks out, and adds or removes files.
ChangeTree(r, t, u) ==
    /\ <<r, t, u>> # repository
    /\ t \in {r, Edited}
    /\ head' = r /\ tree' = t /\ strays' = u
    /\ changed' = (changed \/ step \in {"clean", "packing", "building"})
    /\ UNCHANGED <<imageTag, step, build, records>>

\* Another checkout builds a committed revision under the same tag.
TagElsewhere(r) ==
    /\ imageTag' = [revision |-> r, built |-> r]
    /\ UNCHANGED <<repository, step, build, records, changed>>

\* The release lock is written by hand, from the evidence or with another revision.
WriteRelease(r) ==
    /\ evidenced # NoImage
    /\ released' = [revision |-> r, digest |-> evidenced.digest]
    /\ UNCHANGED <<repository, imageTag, step, build, evidenced, changed>>

HarnessNext ==
    \/ CheckClean \/ ReadRevision \/ PackWheel \/ BuildImage \/ InspectImage \/ WriteEvidence \/ RunStops
    \/ \E r \in Commits, t \in Trees, u \in BOOLEAN : ChangeTree(r, t, u)
    \/ \E r \in Commits : TagElsewhere(r) \/ WriteRelease(r)

HarnessSpec == HarnessInit /\ [][HarnessNext]_harnessvars

\* "campaign.local-harness-runtime-evidence".
HarnessCertified ==
    /\ evidenced # NoImage /\ released # NoImage
    /\ evidenced.revision = released.revision
    /\ evidenced.digest = released.digest

-----------------------------------------------------------------------------
\* A certified harness image holds what the released revision committed, in both of its
\* parts, however the tag was moved and runs were stopped: but not if, from the look at the
\* work tree to the end of the build, the checkout held untracked files or changed in any
\* way (harness_runtime_lab.py:32, certify_phase7_readiness.py:431).
CertifiedIsCommitted ==
    HarnessCertified /\ ~evidenced.torn =>
        evidenced.digest.built = released.revision
=============================================================================
