--------------------------- MODULE SignedPackages ---------------------------
(***************************************************************************)
(* Connector packages (packaging.py): a publisher builds and signs them,   *)
(* a mirror passes on the archive of a build, an archive put together from *)
(* two builds, or a damaged one, and an installation verifies what it got. *)
(*                                                                         *)
(* Abstractions: the digest of a file is its content; a signature is the   *)
(* key and what it covers; contents are within the limits or too large     *)
(* (entry size, total size, number of entries, compression ratio).         *)
(***************************************************************************)
EXTENDS Naturals, FiniteSets

CONSTANTS
    Paths, Reserved,      \* payload paths, some of them used by META-INF itself
    Contents, TooLarge,   \* contents, some of them over the limits
    Payloads,             \* what is built: functions from paths to contents
    Names,                \* components (name and version)
    Libraries,            \* dependencies listed in the SBOM
    SigningKeys, Trusted  \* signing keys, and the one that verify() is given

ASSUME PackagesAssumption ==
    /\ Reserved \subseteq Paths /\ TooLarge \subseteq Contents
    /\ Payloads \subseteq UNION {[P -> Contents] : P \in SUBSET Paths}

VARIABLES
    built,     \* packages built (history)
    archive    \* what the installation has got: nothing or one archive

packagevars == <<built, archive>>

PackagesTypeOK ==
    /\ Cardinality(built) <= 2 /\ Cardinality(archive) <= 1
    /\ \A b \in built : b.files \in Payloads /\ b.signature.key \in SigningKeys

SignedPayload(manifest, sbom) == <<manifest, sbom>>

\* HmacSha256Signer: a signature is made and checked with the same key.
Sign(key, payload) == [key |-> key, of |-> payload]

\* build_signed_package(): META-INF replaces a payload file that uses one of its paths.
Package(files, name, libraries, key) ==
    LET manifest == [name |-> name, files |-> files]
        sbom == [files |-> files, libraries |-> libraries]
    IN [files |-> files, name |-> name,
        entries |-> [p \in DOMAIN files \ Reserved |-> files[p]],
        manifest |-> manifest, sbom |-> sbom, twice |-> FALSE,
        signature |-> Sign(key, SignedPayload(manifest, sbom))]

PackagesInit == built = {} /\ archive = {}

Build(files, name, libraries, key) ==
    /\ Cardinality(built) < 2
    /\ built' = built \cup {Package(files, name, libraries, key)}
    /\ UNCHANGED archive

\* Each part of the archive is that of some build.
Fetch(e, m, s, g) ==
    /\ archive = {}
    /\ archive' = {[m EXCEPT !.entries = e.entries, !.sbom = s.sbom,
                             !.signature = g.signature]}
    /\ UNCHANGED built

Alter(a, entries) == archive' = {[a EXCEPT !.entries = entries]} /\ UNCHANGED built

\* An entry is lost, added or changed; or the archive holds a path twice.
LosePath(a, p) == p \in DOMAIN a.entries
    /\ Alter(a, [q \in DOMAIN a.entries \ {p} |-> a.entries[q]])
PutPath(a, p, c) ==
    Alter(a, [q \in DOMAIN a.entries \cup {p} |-> IF q = p THEN c ELSE a.entries[q]])
RepeatPath(a) == archive' = {[a EXCEPT !.twice = TRUE]} /\ UNCHANGED built

PackagesNext ==
    \/ \E f \in Payloads, n \in Names, l \in SUBSET Libraries, k \in SigningKeys : Build(f, n, l, k)
    \/ \E e, m, s, g \in built : Fetch(e, m, s, g)
    \/ \E a \in archive :
          \/ \E p \in Paths \ Reserved : LosePath(a, p)
          \/ \E p \in Paths \ Reserved, c \in Contents : PutPath(a, p, c)
          \/ RepeatPath(a)

PackagesSpec == PackagesInit /\ [][PackagesNext]_packagevars

\* ArchiveLimits
Fits(content) == content \notin TooLarge

WithinLimits(a) == ~ a.twice /\ \A p \in DOMAIN a.entries : Fits(a.entries[p])

\* What a path of the manifest reads as; a reserved one is META-INF's own file.
ReadsAs(a, p, c) == p \notin Reserved /\ a.entries[p] = c

\* Broken variant: files that the manifest does not list are let through.
ListedAndIntactOnly(a) ==
    /\ DOMAIN a.manifest.files \subseteq DOMAIN a.entries \cup Reserved
    /\ \A p \in DOMAIN a.manifest.files : ReadsAs(a, p, a.manifest.files[p])

ListedAndIntact(a) ==
    /\ DOMAIN a.manifest.files \cup Reserved = DOMAIN a.entries \cup Reserved
    /\ \A p \in DOMAIN a.manifest.files : ReadsAs(a, p, a.manifest.files[p])

SbomCovers(a) == a.sbom.files = a.manifest.files

\* verify_signed_package().
PackageVerifies(a) ==
    /\ WithinLimits(a)
    /\ ListedAndIntact(a)
    /\ SbomCovers(a)
    /\ a.signature = Sign(Trusted, SignedPayload(a.manifest, a.sbom))

-----------------------------------------------------------------------------
(* Properties *)

\* However archives are damaged or put together from parts of good ones, what is accepted
\* is what one build with the trusted key made: its files, all and only those, under its
\* name, with its dependencies (verify_signed_package()).
AcceptedIsBuilt ==
    \A a \in archive : PackageVerifies(a) =>
        \E b \in built : /\ b.signature.key = Trusted
                         /\ a.entries = b.files /\ a.manifest.name = b.name
                         /\ a.sbom = b.sbom

\* A package arrives as it was built and is accepted, unless it was signed by another
\* key, or its builder let through what verification refuses: a path of META-INF or a
\* file over the limits (build_signed_package() checks neither).
BuiltIsAccepted ==
    \A a \in archive : a \in built /\ a.signature.key = Trusted =>
        (PackageVerifies(a) <=> DOMAIN a.files \cap Reserved = {}
                                /\ \A p \in DOMAIN a.files : Fits(a.files[p]))
=============================================================================
