------------------------ MODULE ProviderConfiguration ------------------------
(***************************************************************************)
(* How a request gets its providers: lib/providers/config.ts reads the     *)
(* settings and, for self-hosted routing, the routing manifest, its        *)
(* deployment attestation and the access envelope, one file after the      *)
(* other; lib/providers/factory.ts builds the providers from the result.   *)
(* The files are written by other processes meanwhile: the envelope by     *)
(* routing/scripts/munich-access-envelope.py and the manifest directory by *)
(* routing/scripts/generate-routing-manifest.py.  The tools refuse to      *)
(* overwrite, but an operator may remove what they wrote and run them      *)
(* again; an older envelope is never put back.                             *)
(***************************************************************************)
EXTENDS Integers

CONSTANTS
  Environments,     (* the settings the process may be started with         *)
  MaxContents,      (* bound: the different envelopes ever generated        *)
  MaxGenerations    (* bound: the manifests ever generated                  *)

\* A URL setting, as far as the reading tells URLs apart.
UrlSettings ==
  [scheme : {"none", "http", "https"}, loopback : BOOLEAN, plain : BOOLEAN]

\* The settings, as far as the reading tells them apart.
Settings ==
  [mode : {"unset", "fixture", "configured", "self-hosted-routing", "invalid"},
   deployment : {"unknown", "fixture", "self-hosted", "invalid"},
   selfHosted : {"none", "some", "complete"},
   gateway : UrlSettings, search : UrlSettings, gatewayToken : BOOLEAN,
   feedClaims : {"none", "some", "complete"}, sourceNamed : BOOLEAN,
   numbersInRange : BOOLEAN, artifactPath : {"none", "absolute", "relative"},
   allowHttp : BOOLEAN, development : BOOLEAN]

ASSUME ProviderConfigurationAssumption ==
  Environments \subseteq Settings /\ Environments # {}

VARIABLES
  env,              (* the settings                                         *)
  envelopeFile,     (* Absent, Partial or the number of its content         *)
  contents,         (* how many different envelopes there have been         *)
  directory,        (* whether the manifest directory exists                *)
  manifestFile,     (* the manifest, NoManifest unless it is whole          *)
  attestationFile,  (* the attestation, NoAttestation unless it is whole    *)
  generations,      (* how many manifests have been generated               *)
  generator,        (* what the running manifest generator has in memory    *)
  reader            (* the progress of readProviderConfig                   *)

files == <<envelopeFile, contents, directory, manifestFile, attestationFile,
           generations, generator>>
configVars == <<env, files, reader>>

Absent == 0
Partial == -1

NoManifest == [generation |-> 0, graph |-> 0, envelope |-> 0]
NoAttestation == [manifest |-> NoManifest, graph |-> 0, envelope |-> 0]

Idle == [at |-> "idle", manifest |-> NoManifest]

ConfigStart ==
  /\ envelopeFile = Absent
  /\ contents = 0
  /\ directory = FALSE
  /\ manifestFile = NoManifest
  /\ attestationFile = NoAttestation
  /\ generations = 0
  /\ generator = Idle
  /\ reader = [at |-> "settings", manifest |-> NoManifest, attested |-> NoManifest,
              geometry |-> Absent]

-------------------------------------------------------------------------------
(* The tools and the operator.                                              *)

\* write_text creates the file and then fills it.
CreateEnvelope ==
  /\ envelopeFile = Absent
  /\ envelopeFile' = Partial
  /\ UNCHANGED <<env, contents, directory, manifestFile, attestationFile,
                 generations, generator, reader>>

\* The tool is deterministic: the same boundary gives the same envelope.
FillEnvelope ==
  /\ envelopeFile = Partial
  /\ \E content \in {contents, contents + 1} \ {0} :
       /\ content <= MaxContents
       /\ envelopeFile' = content
       /\ contents' = content
  /\ UNCHANGED <<env, directory, manifestFile, attestationFile, generations,
                 generator, reader>>

RemoveEnvelope ==
  /\ envelopeFile # Absent
  /\ envelopeFile' = Absent
  /\ UNCHANGED <<env, contents, directory, manifestFile, attestationFile,
                 generations, generator, reader>>

\* The generator hashes its inputs before it creates the output directory.
HashInputs ==
  /\ generator = Idle
  /\ generations < MaxGenerations
  /\ envelopeFile \notin {Absent, Partial}
  /\ generator' = [at |-> "hashed",
                   manifest |-> [generation |-> generations + 1,
                                 graph |-> generations + 1,
                                 envelope |-> envelopeFile]]
  /\ generations' = generations + 1
  /\ UNCHANGED <<env, envelopeFile, contents, directory, manifestFile,
                 attestationFile, reader>>

\* An existing directory is never replaced.
CreateDirectory ==
  /\ generator.at = "hashed"
  /\ directory' = TRUE
  /\ generator' = IF directory THEN Idle ELSE [generator EXCEPT !.at = "directory"]
  /\ UNCHANGED <<env, envelopeFile, contents, manifestFile, attestationFile,
                 generations, reader>>

\* While a file is written it is not whole.
WriteManifest ==
  /\ generator.at = "directory"
  /\ manifestFile' = generator.manifest
  /\ generator' = [generator EXCEPT !.at = "manifest"]
  /\ UNCHANGED <<env, envelopeFile, contents, directory, attestationFile,
                 generations, reader>>

WriteAttestation ==
  /\ generator.at = "manifest"
  /\ attestationFile' = [manifest |-> generator.manifest,
                         graph |-> generator.manifest.graph,
                         envelope |-> generator.manifest.envelope]
  /\ generator' = Idle
  /\ UNCHANGED <<env, envelopeFile, contents, directory, manifestFile,
                 generations, reader>>

\* The generator is killed, or refuses an input.
StopGenerator ==
  /\ generator # Idle
  /\ generator' = Idle
  /\ UNCHANGED <<env, envelopeFile, contents, directory, manifestFile,
                 attestationFile, generations, reader>>

RemoveDirectory ==
  /\ generator = Idle
  /\ directory
  /\ directory' = FALSE
  /\ manifestFile' = NoManifest
  /\ attestationFile' = NoAttestation
  /\ UNCHANGED <<env, envelopeFile, contents, generations, generator, reader>>

-------------------------------------------------------------------------------
(* The settings.                                                            *)

IsGiven(url) == url.scheme # "none"

AllowHttp == env.allowHttp /\ env.development

\* readOptionalUrl does not throw.
UrlIsAccepted(url) ==
  IsGiven(url) => /\ url.plain
                  /\ url.scheme = "http" => AllowHttp /\ url.loopback

\* An unset mode means "configured".
Mode == IF env.mode = "unset" THEN "configured" ELSE env.mode

HasEndpoint == IsGiven(env.gateway) \/ IsGiven(env.search)

SettingsAreAccepted ==
  /\ env.mode # "invalid"
  /\ env.selfHosted # "none" => Mode = "self-hosted-routing"
  /\ UrlIsAccepted(env.gateway)
  /\ UrlIsAccepted(env.search)
  /\ env.deployment # "invalid"
  /\ Mode = "fixture" => ~HasEndpoint
  /\ Mode = "configured" => env.deployment # "fixture"
  /\ Mode = "self-hosted-routing" =>
       /\ env.deployment = "self-hosted"
       /\ ~IsGiven(env.gateway)
       /\ ~env.gatewayToken
       /\ env.feedClaims = "none"
       /\ env.selfHosted = "complete"
  /\ IsGiven(env.gateway) => env.feedClaims = "complete"
  /\ IsGiven(env.search) => env.sourceNamed
  /\ env.numbersInRange
  /\ env.artifactPath # "relative"

\* Mutant of CapabilityIsDisclosed: an unset mode is not taken as "configured".
CapabilityOfNamedMode ==
  \/ env.mode = "fixture"
  \/ env.mode \in {"configured", "self-hosted-routing"} /\ env.artifactPath # "none"

\* readScheduledCapability, which reads nothing but two settings
CapabilityIsDisclosed ==
  \/ Mode = "fixture"
  \/ Mode \in {"configured", "self-hosted-routing"} /\ env.artifactPath # "none"

\* createMeetingProviders, withScheduledArtifact: the schedule of a request.
ScheduleProvided ==
  IF env.artifactPath # "none" THEN "artifact"
  ELSE IF Mode = "fixture" THEN "fixture" ELSE "none"

-------------------------------------------------------------------------------
(* readProviderConfig.                                                      *)

Reject == reader' = [reader EXCEPT !.at = "rejected"]

ReadSettings ==
  /\ reader.at = "settings"
  /\ reader' = [reader EXCEPT !.at = IF ~SettingsAreAccepted THEN "rejected"
                                     ELSE IF Mode = "self-hosted-routing"
                                          THEN "manifest" ELSE "accepted"]
  /\ UNCHANGED <<env, files>>

\* loadRoutingManifest: unreadable or truncated JSON is refused.
ReadManifest ==
  /\ reader.at = "manifest"
  /\ IF manifestFile # NoManifest
     THEN reader' = [reader EXCEPT !.at = "attestation", !.manifest = manifestFile]
     ELSE Reject
  /\ UNCHANGED <<env, files>>

\* Mutant of AttestationMatches: the manifest's own digest is not compared.
AttestationNamesEnvelope(attestation, manifest) ==
  attestation.envelope = manifest.envelope

\* loadEngineSnapshots, and the identities loadAttestedAccessEnvelope compares
AttestationMatches(attestation, manifest) ==
  /\ attestation.graph = manifest.graph
  /\ attestation.manifest = manifest
  /\ attestation.envelope = manifest.envelope

ReadAttestation ==
  /\ reader.at = "attestation"
  /\ IF attestationFile # NoAttestation /\ AttestationMatches(attestationFile, reader.manifest)
     THEN reader' = [reader EXCEPT !.at = "probe", !.attested = attestationFile.manifest]
     ELSE Reject
  /\ UNCHANGED <<env, files>>

\* resolveAttestedPath reads the file to see that it is not empty; a file that
\* is being written may still be.
ProbeEnvelope ==
  /\ reader.at = "probe"
  /\ \/ envelopeFile # Absent /\ reader' = [reader EXCEPT !.at = "parse"]
     \/ envelopeFile \in {Absent, Partial} /\ Reject
  /\ UNCHANGED <<env, files>>

ParseEnvelope ==
  /\ reader.at = "parse"
  /\ IF envelopeFile \notin {Absent, Partial}
     THEN reader' = [reader EXCEPT !.at = "hash", !.geometry = envelopeFile]
     ELSE Reject
  /\ UNCHANGED <<env, files>>

\* Mutant of HashEnvelope: the file is not hashed.
HashNothing ==
  /\ reader.at = "hash"
  /\ reader' = [reader EXCEPT !.at = "accepted"]
  /\ UNCHANGED <<env, files>>

\* sha256File reads the file once more.
HashEnvelope ==
  /\ reader.at = "hash"
  /\ IF envelopeFile = reader.manifest.envelope
     THEN reader' = [reader EXCEPT !.at = "accepted"]
     ELSE Reject
  /\ UNCHANGED <<env, files>>

Tools ==
  \/ CreateEnvelope \/ FillEnvelope \/ RemoveEnvelope
  \/ HashInputs \/ CreateDirectory \/ WriteManifest \/ WriteAttestation
  \/ StopGenerator \/ RemoveDirectory

\* The files are read in one mode only, the tools are left out in the others.
ConfigNext ==
  \/ Mode = "self-hosted-routing" /\ SettingsAreAccepted /\ Tools
  \/ ReadSettings \/ ReadManifest \/ ReadAttestation
  \/ ProbeEnvelope \/ ParseEnvelope \/ HashEnvelope

-------------------------------------------------------------------------------
(* Properties.                                                              *)

\* The geometry of an accepted self-hosted configuration is the one its
\* manifest names, and the manifest the one that was attested, although the
\* envelope is parsed from one read and hashed from another and every file may
\* be removed and written again between two reads.
AcceptedConfigIsOfOneVersion ==
  reader.at = "accepted" /\ Mode = "self-hosted-routing" =>
    /\ reader.geometry = reader.manifest.envelope
    /\ reader.attested = reader.manifest

\* What the page is told about the schedule from two settings is what a request
\* gets from the whole configuration.
CapabilityIsHonest ==
  reader.at = "accepted" => (CapabilityIsDisclosed <=> ScheduleProvided # "none")

\* What was accepted was attested as one, and is what the page is told.
ConfigurationIsHonest == AcceptedConfigIsOfOneVersion /\ CapabilityIsHonest
===============================================================================
