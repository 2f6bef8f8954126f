---------------------------- MODULE ArtifactRotation ----------------------------
(***************************************************************************)
(* How a scheduled artifact gets from the MVV feed to the server:          *)
(* scripts/compile-mvv-schedule.ts and lib/domain/scheduled-routing/       *)
(* artifact.ts.  Compiler processes - the startup rotation and the         *)
(* operator's offline compile - publish a payload file and then the        *)
(* manifest that names it; the server process reads the manifest and then  *)
(* the payload, and keeps what it loaded until it restarts.  Each visible  *)
(* file-system step is an action, and a compiler can be killed before any  *)
(* of them.  Temporary files are read by nobody and are left out.          *)
(***************************************************************************)
EXTENDS Integers, FiniteSets, Functions

CONSTANTS
  Compilers,    (* the compiler processes                                   *)
  Mode,         (* Compilers -> {"rotation", "offline"}                     *)
  Feeds,        (* the feed archives MVV publishes, in order: 1 .. n        *)
  ValidFrom,    (* Feeds -> Nat: feedValidFrom, a day                       *)
  ValidUntil,   (* Feeds -> Nat: feedValidUntil                             *)
  Versions,     (* the compiler versions, in order: 1 .. n                  *)
  NoManifest,   (* no readable manifest                                     *)
  LastDay,      (* bound of the model: the calendar stops here              *)
  CompileBound  (* bound of the model: number of compiles                   *)

\* What a manifest says of the artifact it names.
Artifacts == [id : 1 .. CompileBound, feed : Feeds, version : Versions]

ASSUME ArtifactRotationAssumption ==
  /\ IsFiniteSet(Compilers)
  /\ Mode \in [Compilers -> {"rotation", "offline"}]
  /\ Feeds \subseteq Nat /\ Versions \subseteq Nat
  /\ 1 \in Feeds /\ 1 \in Versions
  /\ ValidFrom \in [Feeds -> Nat] /\ ValidUntil \in [Feeds -> Nat]
  /\ NoManifest \notin Artifacts
  /\ LastDay \in Nat /\ CompileBound \in Nat

VARIABLES
  today,        (* the Berlin local date                                    *)
  upstream,     (* the archive the MVV server hands out                     *)
  version,      (* SCHEDULED_COMPILER_VERSION of the deployed image         *)
  manifest,     (* the manifest file: [id, feed, version] or NoManifest     *)
  payloads,     (* the payload files: file name -> compiled artifact id     *)
  compiles,     (* number of compiles so far: the next artifact's id        *)
  step,         (* where each compiler process stands                       *)
  reason,       (* ScheduledRotationReason of its rotation                  *)
  feed,         (* the archive it compares with, or compiles                *)
  artifact,     (* what it compiled                                         *)
  exit,         (* how it ended: "none", "zero", "one" or "killed"          *)
  loading,      (* the manifest the server has read, before the payload     *)
  loaded,       (* loadedScheduledArtifacts                                 *)
  served        (* what loadScheduledArtifact returned last, today            *)

clockVars == <<today, upstream, version>>
diskVars == <<manifest, payloads>>
compilerVars == <<compiles, step, reason, feed, artifact, exit>>
serverVars == <<loading, loaded, served>>
vars == <<clockVars, diskVars, compilerVars, serverVars>>

Reasons == {"none", "missing", "missing-payload", "compiler-version",
            "feed-out-of-date", "feed-changed", "offline"}

Init ==
  /\ today = 1 /\ upstream = 1 /\ version = 1
  /\ manifest = NoManifest
  /\ payloads = [f \in {} |-> 0]
  /\ compiles = 0
  /\ step = [c \in Compilers |-> "idle"]
  /\ reason = [c \in Compilers |-> "none"]
  /\ feed = [c \in Compilers |-> 1]
  /\ artifact = [c \in Compilers |-> NoManifest]
  /\ exit = [c \in Compilers |-> "none"]
  /\ loading = NoManifest /\ loaded = NoManifest /\ served = NoManifest

-------------------------------------------------------------------------------
\* Mutant of PayloadFile: every compile writes the same payload file.
FixedPayloadFile(id) == 1

\* The payload's file name carries the compiled artifact id, which hashes the
\* contents and the time of the download.
PayloadFile(id) == id

\* !isScheduledFeedValidityOutOfDate
Valid(f) == ValidFrom[f] <= today /\ today <= ValidUntil[f]

\* The payload is there and has the length and hash of the manifest.
Whole(m) ==
  /\ PayloadFile(m.id) \in DOMAIN payloads
  /\ payloads[PayloadFile(m.id)] = m.id

\* loadScheduledArtifact of a fresh process would succeed.
Loadable == manifest # NoManifest /\ Whole(manifest) /\ Valid(manifest.feed)

Goto(c, next) == step' = [step EXCEPT ![c] = next]

Exit(c, code) ==
  /\ Goto(c, "exited")
  /\ exit' = [exit EXCEPT ![c] = code]

-------------------------------------------------------------------------------
(* rotateScheduledArtifact up to its first await, and the offline compile. *)

\* Mutant of Decision: the compiler version is not compared.
DecisionIgnoringVersion ==
  IF manifest = NoManifest THEN "missing"
  ELSE IF PayloadFile(manifest.id) \notin DOMAIN payloads THEN "missing-payload"
  ELSE IF ~Valid(manifest.feed) THEN "feed-out-of-date"
  ELSE "feed-changed"

\* Why the artifact on disk cannot be kept; "feed-changed" when only a look at
\* the latest archive can tell.
Decision ==
  IF manifest = NoManifest THEN "missing"
  ELSE IF PayloadFile(manifest.id) \notin DOMAIN payloads THEN "missing-payload"
  ELSE IF manifest.version # version THEN "compiler-version"
  ELSE IF ~Valid(manifest.feed) THEN "feed-out-of-date"
  ELSE "feed-changed"

StartRotation(c) ==
  /\ step[c] = "idle" /\ Mode[c] = "rotation"
  /\ reason' = [reason EXCEPT ![c] = Decision]
  /\ feed' = [feed EXCEPT ![c] = IF manifest = NoManifest THEN @ ELSE manifest.feed]
  /\ Goto(c, "downloading")
  /\ UNCHANGED <<clockVars, diskVars, compiles, artifact, exit, serverVars>>

\* compile-mvv-schedule --input: an archive the operator has downloaded.
StartOffline(c) ==
  /\ step[c] = "idle" /\ Mode[c] = "offline"
  /\ reason' = [reason EXCEPT ![c] = "offline"]
  /\ feed' = [feed EXCEPT ![c] = upstream]
  /\ Goto(c, "compiling")
  /\ UNCHANGED <<clockVars, diskVars, compiles, artifact, exit, serverVars>>

\* The archive arrived and is the one the manifest was compiled from.
KeepFresh(c) ==
  /\ step[c] = "downloading"
  /\ reason[c] = "feed-changed" /\ upstream = feed[c]
  /\ Exit(c, "zero")
  /\ UNCHANGED <<clockVars, diskVars, compiles, reason, feed, artifact,
                 serverVars>>

Downloaded(c) ==
  /\ step[c] = "downloading"
  /\ reason[c] = "feed-changed" => upstream # feed[c]
  /\ feed' = [feed EXCEPT ![c] = upstream]
  /\ Goto(c, "compiling")
  /\ UNCHANGED <<clockVars, diskVars, compiles, reason, artifact, exit,
                 serverVars>>

Compile(c) ==
  /\ step[c] = "compiling"
  /\ compiles < CompileBound
  /\ compiles' = compiles + 1
  /\ artifact' = [artifact EXCEPT ![c] = [id |-> compiles + 1, feed |-> feed[c],
                                          version |-> version]]
  /\ Goto(c, "payload")
  /\ UNCHANGED <<clockVars, diskVars, reason, feed, exit, serverVars>>

\* writeScheduledArtifact: the renames that make the two files visible.
PublishPayload(c) ==
  /\ step[c] = "payload"
  /\ LET name == PayloadFile(artifact[c].id) IN
     payloads' = [f \in DOMAIN payloads \cup {name} |->
                    IF f = name THEN artifact[c].id ELSE payloads[f]]
  /\ Goto(c, "manifest")
  /\ UNCHANGED <<clockVars, manifest, compiles, reason, feed, artifact, exit,
                 serverVars>>

PublishManifest(c) ==
  /\ step[c] = "manifest"
  /\ manifest' = artifact[c]
  /\ Exit(c, "zero")
  /\ UNCHANGED <<clockVars, payloads, compiles, reason, feed, artifact,
                 serverVars>>

\* The download, the compile or a write throws: with a trusted artifact at
\* hand the rotation keeps it, otherwise the process ends with exit code 1.
Fail(c) ==
  /\ step[c] \in {"downloading", "compiling", "payload", "manifest"}
  /\ Exit(c, IF reason[c] \in {"feed-out-of-date", "feed-changed"}
             THEN "zero" ELSE "one")
  /\ UNCHANGED <<clockVars, diskVars, compiles, reason, feed, artifact,
                 serverVars>>

\* The process or its container is killed.
Kill(c) ==
  /\ step[c] \in {"downloading", "compiling", "payload", "manifest"}
  /\ Exit(c, "killed")
  /\ UNCHANGED <<clockVars, diskVars, compiles, reason, feed, artifact,
                 serverVars>>

\* The next `compose up`, or the operator's next offline compile.
StartAgain(c) ==
  /\ step[c] = "exited"
  /\ Goto(c, "idle")
  /\ exit' = [exit EXCEPT ![c] = "none"]
  /\ UNCHANGED <<clockVars, diskVars, compiles, reason, feed, artifact,
                 serverVars>>

-------------------------------------------------------------------------------
(* loadScheduledArtifact, called by every calculation and readiness probe. *)

\* Mutant of LoadCached: a cached artifact is returned unchecked.
LoadCachedUnchecked ==
  /\ loaded # NoManifest
  /\ served' = loaded
  /\ UNCHANGED <<clockVars, diskVars, compilerVars, loading, loaded>>

LoadCached ==
  /\ loaded # NoManifest
  /\ served' = IF Valid(loaded.feed) THEN loaded ELSE NoManifest
  /\ UNCHANGED <<clockVars, diskVars, compilerVars, loading, loaded>>

ReadManifest ==
  /\ loaded = NoManifest /\ loading = NoManifest
  /\ loading' = manifest
  /\ served' = NoManifest
  /\ UNCHANGED <<clockVars, diskVars, compilerVars, loaded>>

ReadPayload ==
  /\ loading # NoManifest
  /\ loading' = NoManifest
  /\ IF Whole(loading) /\ Valid(loading.feed)
     THEN loaded' = loading /\ served' = loading
     ELSE served' = NoManifest /\ UNCHANGED loaded
  /\ UNCHANGED <<clockVars, diskVars, compilerVars>>

RestartServer ==
  /\ loaded # NoManifest \/ loading # NoManifest
  /\ loaded' = NoManifest /\ loading' = NoManifest /\ served' = NoManifest
  /\ UNCHANGED <<clockVars, diskVars, compilerVars>>

-------------------------------------------------------------------------------
(* The environment.                                                        *)

DayPasses ==
  /\ today < LastDay
  /\ today' = today + 1
  /\ served' = NoManifest
  /\ UNCHANGED <<upstream, version, diskVars, compilerVars, loading, loaded>>

FeedPublished ==
  /\ upstream + 1 \in Feeds
  /\ upstream' = upstream + 1
  /\ UNCHANGED <<today, version, diskVars, compilerVars, serverVars>>

NoCompilerRuns == \A c \in Compilers : step[c] \in {"idle", "exited"}

\* A new compiler image is deployed; running containers are stopped for it.
Deploy ==
  /\ version + 1 \in Versions
  /\ NoCompilerRuns
  /\ version' = version + 1
  /\ UNCHANGED <<today, upstream, diskVars, compilerVars, serverVars>>

\* The operator prunes an old payload once the new pair is known to load.
Prune ==
  /\ NoCompilerRuns /\ Loadable
  /\ \E file \in DOMAIN payloads \ {PayloadFile(manifest.id)} :
       payloads' = Restrict(payloads, DOMAIN payloads \ {file})
  /\ UNCHANGED <<clockVars, manifest, compilerVars, serverVars>>

Next ==
  \/ \E c \in Compilers :
       \/ StartRotation(c) \/ StartOffline(c) \/ KeepFresh(c) \/ Downloaded(c)
       \/ Compile(c) \/ PublishPayload(c) \/ PublishManifest(c)
       \/ Fail(c) \/ Kill(c) \/ StartAgain(c)
  \/ LoadCached \/ ReadManifest \/ ReadPayload \/ RestartServer
  \/ DayPasses \/ FeedPublished \/ Deploy \/ Prune

Spec == Init /\ [][Next]_vars

-------------------------------------------------------------------------------
(* Properties.                                                             *)

\* Every variable has its type.
TypeOK ==
  /\ today \in Nat /\ upstream \in Feeds /\ version \in Versions
  /\ manifest \in Artifacts \cup {NoManifest}
  /\ payloads \in [DOMAIN payloads -> 1 .. CompileBound]
  /\ compiles \in 0 .. CompileBound
  /\ step \in [Compilers -> {"idle", "downloading", "compiling", "payload",
                             "manifest", "exited"}]
  /\ reason \in [Compilers -> Reasons]
  /\ feed \in [Compilers -> Feeds]
  /\ artifact \in [Compilers -> Artifacts \cup {NoManifest}]
  /\ exit \in [Compilers -> {"none", "zero", "one", "killed"}]
  /\ {loading, loaded, served} \subseteq Artifacts \cup {NoManifest}

\* The manifest always names a payload that is there and matches it, whatever
\* compiler was killed between the two renames and however two of them
\* overlap: a server that starts at any time finds a pair.
PublishedPairIsWhole == manifest # NoManifest => Whole(manifest)

\* A rotation that ends with exit code 0, which lets the server start, leaves
\* an artifact of the deployed compiler version behind, even if it kept it.
ExitZeroLeavesCurrentArtifact ==
  [][\A c \in Compilers :
       exit[c] = "none" /\ exit'[c] = "zero"
       => manifest' # NoManifest /\ manifest'.version = version]_vars

\* What the server answers from today is valid today, also when it loaded the
\* schedule days ago and rotations have replaced it on disk since.
ServesValidSchedule == served # NoManifest => Valid(served.feed)

===============================================================================
