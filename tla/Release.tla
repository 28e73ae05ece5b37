------------------------------- MODULE Release -------------------------------
(***************************************************************************)
(* How a directory of built binaries becomes a signed release, and what a  *)
(* verifier of it accepts:                                                 *)
(*   implementation/internal/supplychain/evidence.go  Generate, Finalize,  *)
(*                       Verify, VerifyComplete, CheckReleaseFiles         *)
(*   implementation/internal/supplychain/delivery.go  validateOCI,         *)
(*                       validateBundle                                    *)
(*                                                                         *)
(* The directory is a function from the names of its files to what they    *)
(* hold; a digest is the content itself.  Generate and Finalize write file *)
(* after file, can be killed between and inside two writes (the file is    *)
(* then torn), and are run again; meanwhile a binary can be built anew and *)
(* a file of no release can appear.  The build that fills the directory    *)
(* and the job that adds the delivery files are external.                  *)
(***************************************************************************)
EXTENDS Integers, Sequences, FiniteSets, SequencesExt

CONSTANTS
  Requests,    \* what Generate may be run with
  Deliveries,  \* the OCI records and bundles the delivery job may add
  MaxFaults,   \* how often a run is killed, a binary rebuilt or a stray file left
  MaxRuns      \* how often the tool is run

VARIABLES
  dir,      \* the directory
  tool,     \* the run of the tool: its command and the next step
  request,  \* its arguments, while it runs
  sums,     \* the checksums it read, later the manifest it signs
  outcome,  \* what the last run returned
  changed,  \* whether one happened after the checksums it used were made
  faults,
  runs

releaseVars == <<dir, tool, request, sums, outcome, changed, faults, runs>>

releaseSubjects == {"metricshell-linux-amd64", "metricshell-linux-arm64"}
signedEvidenceFiles ==
  {"MODULES.jsonl", "GOVULNCHECK.json", "SBOM.json", "PROVENANCE.json", "VULNERABILITIES.json",
   "RELEASE_PUBLIC_KEY", "VERIFYING.md"}
Manifest  == {"SHA256SUMS", "SHA256SUMS.sig"}
LateFiles == {"OCI_DIGESTS", "BUNDLE"}

\* What a verifier of the release expects, and the digest of its images.
Key      == "release"
Revision == "this"
Digest   == "image"

File(v) == [regular |-> TRUE, torn |-> FALSE, v |-> v]
Torn(v) == [regular |-> TRUE, torn |-> TRUE, v |-> v]
Has(d, f)   == f \in DOMAIN d
With(d, f, content) == [g \in DOMAIN d \cup {f} |-> IF g = f THEN content ELSE d[g]]

-----------------------------------------------------------------------------
(* Reading *)

\* A torn manifest has a broken line, or lacks the last subjects.
readChecksums(d) == Has(d, "SHA256SUMS") /\ ~d["SHA256SUMS"].torn

regularFiles(d) == \A f \in DOMAIN d \ Manifest : d[f].regular

buildManifest(d) == [f \in DOMAIN d \ Manifest |-> d[f]]

\* readModules: "none" has no record, "partial" one without version or sum.
readModules(d) == ~d["MODULES.jsonl"].torn

\* A plausible slip: the files are looked up in the manifest, and their
\* content is not compared.
verifyManifestFilesPresent(d, checksums) ==
  /\ releaseSubjects \cup {"go.mod"} \cup signedEvidenceFiles \subseteq DOMAIN checksums
  /\ \A f \in DOMAIN checksums : Has(d, f)

verifyManifestFiles(d, checksums) ==
  /\ releaseSubjects \cup {"go.mod"} \cup signedEvidenceFiles \subseteq DOMAIN checksums
  /\ \A f \in DOMAIN checksums : Has(d, f) /\ d[f] = checksums[f]

verifySBOM(d, checksums) ==
  LET sbom == d["SBOM.json"] IN
    /\ ~sbom.torn
    /\ \A s \in releaseSubjects : checksums[s] \in sbom.v.files
    /\ readModules(d) /\ d["MODULES.jsonl"].v = "complete"
    /\ sbom.v.modules = d["MODULES.jsonl"] /\ sbom.v.main = checksums["go.mod"]

verifyProvenance(d, checksums, revision) ==
  LET provenance == d["PROVENANCE.json"] IN
    /\ ~provenance.torn
    /\ provenance.v.revision = revision
    /\ \A s \in releaseSubjects : provenance.v.subjects[s] = checksums[s]

\* The scan is read line by line, and a line that is no JSON value is passed
\* over: "finding" has a finding on one line, and in "indented" it is spread
\* over several, none of which is a value by itself.
vulnerabilityReport(scan) == [input |-> scan, decision |-> IF scan.v = "finding" THEN "fail" ELSE "pass"]

verifyVulnerabilities(d, checksums) ==
  LET report == d["VULNERABILITIES.json"] IN
    /\ ~report.torn
    /\ report.v.decision = "pass" /\ report.v.input = checksums["GOVULNCHECK.json"]

Verify(d, revision, key) ==
  /\ readChecksums(d)
  /\ Has(d, "SHA256SUMS.sig") /\ ~d["SHA256SUMS.sig"].torn
  /\ Has(d, "RELEASE_PUBLIC_KEY") /\ d["RELEASE_PUBLIC_KEY"] = File(key)
  /\ d["SHA256SUMS.sig"].v = [key |-> key, over |-> d["SHA256SUMS"].v]
  /\ LET checksums == d["SHA256SUMS"].v IN
       /\ verifyManifestFiles(d, checksums)
       /\ verifySBOM(d, checksums)
       /\ verifyProvenance(d, checksums, revision)
       /\ verifyVulnerabilities(d, checksums)

VerifyComplete(d, revision, key) ==
  Verify(d, revision, key) /\ regularFiles(d) /\ d["SHA256SUMS"].v = buildManifest(d)

CheckReleaseFiles(d) ==
  /\ DOMAIN d = {"go.mod", "METADATA"} \cup Manifest \cup releaseSubjects \cup signedEvidenceFiles \cup LateFiles
  /\ \A f \in DOMAIN d : d[f].regular

\* Each of the three images once, each at its digest.
validateOCI(lines) ==
  /\ IsInjective([i \in DOMAIN lines |-> lines[i].key])
  /\ {lines[i].key : i \in DOMAIN lines} = {"metricshell", "artifact", "example"}
  /\ \A i \in DOMAIN lines : lines[i].digest = Digest

bundleFiles == {"IMAGE_DIGEST", "cronjob.yaml", "deployment.yaml", "job.yaml", "podmonitor.yaml"}

\* The rendered files, each once, a root directory at most once, and nothing
\* behind the archive; an entry holds the digest it was rendered with.  The
\* templates must pin the image and leave no marker unresolved.
validateBundle(bundle, templates) ==
  LET entries == bundle.entries
      files == SelectSeq(entries, LAMBDA e : e.name # "root")
  IN  /\ templates = "pinned"
      /\ Len(entries) - Len(files) <= 1
      /\ IsInjective([i \in DOMAIN files |-> files[i].name])
      /\ {files[i].name : i \in DOMAIN files} = bundleFiles
      /\ \A i \in DOMAIN files : files[i].regular /\ files[i].digest = Digest
      /\ ~bundle.trailing

-----------------------------------------------------------------------------
Idle == [command |-> "idle", step |-> 0]
NoRequest == [private |-> "", public |-> "", revision |-> "", modules |-> "", scan |-> "", templates |-> ""]
At(command, step) == tool = [command |-> command, step |-> step]

\* The build stage exports the binaries, go.mod and METADATA, and their
\* checksums.
Built(n) ==
  LET files == releaseSubjects \cup {"go.mod", "METADATA"} IN
    [f \in files \cup {"SHA256SUMS"} |->
       IF f = "SHA256SUMS" THEN File([g \in files |-> File(n)]) ELSE File(n)]

ReleaseInit ==
  /\ dir = Built(0)
  /\ tool = Idle
  /\ request = NoRequest
  /\ sums = <<>>
  /\ outcome = "none"
  /\ changed = FALSE /\ faults = 0 /\ runs = 0

\* The tool ends, with what it returns; or it goes on.
Returns(what) == tool' = Idle /\ request' = NoRequest /\ sums' = <<>> /\ outcome' = what
Continues     == tool' = [tool EXCEPT !.step = @ + 1] /\ UNCHANGED <<request, outcome>>

signingKeys(r) == r.private = r.public

\* Generate: the keys, the checksums of the binaries.
StartGenerate ==
  /\ tool = Idle /\ runs < MaxRuns
  /\ runs' = runs + 1
  /\ \E r \in Requests :
       IF signingKeys(r) /\ readChecksums(dir) /\ releaseSubjects \subseteq DOMAIN dir["SHA256SUMS"].v
         THEN /\ tool' = [command |-> "generate", step |-> 1] /\ request' = r
              /\ sums' = dir["SHA256SUMS"].v
              /\ outcome' = "none"
              /\ changed' = (\E s \in releaseSubjects : dir[s] # dir["SHA256SUMS"].v[s])
         ELSE Returns("failed") /\ UNCHANGED changed
  /\ UNCHANGED <<dir, faults>>

\* The files Generate writes, in order, and what it writes into each.
Written ==
  <<"MODULES.jsonl", "GOVULNCHECK.json", "SBOM.json", "PROVENANCE.json", "VULNERABILITIES.json",
    "RELEASE_PUBLIC_KEY", "VERIFYING.md">>

Contents(f) ==
  CASE f = "MODULES.jsonl"        -> request.modules
    [] f = "GOVULNCHECK.json"     -> request.scan
    [] f = "SBOM.json"            -> [files |-> {sums[s] : s \in releaseSubjects}, modules |-> dir["MODULES.jsonl"],
                                      main |-> sums["go.mod"]]
    [] f = "PROVENANCE.json"      -> [revision |-> request.revision, subjects |-> [s \in releaseSubjects |-> sums[s]]]
    [] f = "VULNERABILITIES.json" -> vulnerabilityReport(dir["GOVULNCHECK.json"])
    [] f = "RELEASE_PUBLIC_KEY"   -> request.public
    [] OTHER                      -> "instructions"

\* What is checked before the file is written.
Refuses(f) ==
  \/ f = "SBOM.json" /\ request.modules = "none"
  \/ f = "VULNERABILITIES.json" /\ \/ request.scan = "overlong"
                                   \/ vulnerabilityReport(File(request.scan)).decision # "pass"

WriteEvidence ==
  /\ tool.command = "generate" /\ tool.step <= Len(Written)
  /\ LET f == Written[tool.step] IN
       IF Refuses(f) THEN Returns("failed") /\ UNCHANGED dir
                     ELSE dir' = With(dir, f, File(Contents(f))) /\ Continues /\ UNCHANGED sums
  /\ UNCHANGED <<changed, faults, runs>>

\* A plausible slip: the checksums read at the start are signed, and the
\* evidence written since is not among them.
SignManifestRead ==
  /\ \/ At("generate", Len(Written) + 1) \/ At("finalize", 1)
  /\ IF regularFiles(dir)
       THEN dir' = With(dir, "SHA256SUMS", File(sums)) /\ Continues /\ UNCHANGED sums
       ELSE Returns("failed") /\ UNCHANGED dir
  /\ UNCHANGED <<changed, faults, runs>>

\* buildManifest over the directory as it is, and SHA256SUMS.
SignManifest ==
  /\ \/ At("generate", Len(Written) + 1) \/ At("finalize", 1)
  /\ IF regularFiles(dir)
       THEN /\ sums' = buildManifest(dir)
            /\ dir' = With(dir, "SHA256SUMS", File(buildManifest(dir))) /\ Continues
       ELSE Returns("failed") /\ UNCHANGED dir
  /\ UNCHANGED <<changed, faults, runs>>

\* The signature of the manifest that was built, not of what is there.
WriteSignature ==
  /\ \/ At("generate", Len(Written) + 2) \/ At("finalize", 2)
  /\ dir' = With(dir, "SHA256SUMS.sig", File([key |-> request.private, over |-> sums]))
  /\ IF tool.command = "generate" THEN Returns("generated") ELSE Continues /\ UNCHANGED sums
  /\ UNCHANGED <<changed, faults, runs>>

\* Finalize: the release must verify as it is, the delivery files be valid,
\* and nothing else be in the directory.
StartFinalize ==
  /\ tool = Idle /\ runs < MaxRuns
  /\ runs' = runs + 1
  /\ \E r \in Requests :
       IF /\ Verify(dir, r.revision, r.public)
          /\ LateFiles \cup {"METADATA"} \subseteq DOMAIN dir
          /\ validateOCI(dir["OCI_DIGESTS"].v) /\ validateBundle(dir["BUNDLE"].v, r.templates)
          /\ CheckReleaseFiles(dir)
          /\ signingKeys(r)
         THEN /\ tool' = [command |-> "finalize", step |-> 1] /\ request' = r
              /\ outcome' = "none" /\ changed' = FALSE
              /\ UNCHANGED sums
         ELSE Returns("failed") /\ UNCHANGED changed
  /\ UNCHANGED <<dir, faults>>

EndFinalize ==
  /\ At("finalize", 3)
  /\ Returns(IF VerifyComplete(dir, request.revision, request.public) THEN "finalized" ELSE "failed")
  /\ UNCHANGED <<dir, changed, faults, runs>>

\* The tool is killed before its next write, or inside it.
Kill ==
  /\ tool # Idle /\ faults < MaxFaults
  /\ faults' = faults + 1
  /\ Returns("killed")
  /\ \/ UNCHANGED dir
     \/ /\ tool.command = "generate" /\ tool.step <= Len(Written)
        /\ ~Refuses(Written[tool.step])
        /\ dir' = With(dir, Written[tool.step], Torn(Contents(Written[tool.step])))
     \/ /\ At("generate", Len(Written) + 1) \/ At("finalize", 1)
        /\ regularFiles(dir)
        /\ dir' = With(dir, "SHA256SUMS", Torn(buildManifest(dir)))
     \/ /\ At("generate", Len(Written) + 2) \/ At("finalize", 2)
        /\ dir' = With(dir, "SHA256SUMS.sig", Torn([key |-> request.private, over |-> sums]))
  /\ UNCHANGED <<changed, runs>>

\* The delivery job adds its files to the generated release.
Deliver ==
  /\ tool = Idle /\ outcome = "generated"
  /\ \E l \in Deliveries : dir' = With(With(dir, "OCI_DIGESTS", File(l.oci)), "BUNDLE", File(l.bundle))
  /\ outcome' = "none"
  /\ UNCHANGED <<tool, request, sums, changed, faults, runs>>

\* Somebody rebuilds a binary in place, or leaves a file or a link behind.
Change ==
  /\ faults < MaxFaults
  /\ faults' = faults + 1
  /\ \/ \E s \in releaseSubjects : dir' = With(dir, s, File(faults'))
     \/ \E regular \in BOOLEAN : dir' = With(dir, "stray", [File(0) EXCEPT !.regular = regular])
  /\ changed' = TRUE
  /\ UNCHANGED <<tool, request, sums, outcome, runs>>

\* The build is started over in an empty directory.
Rebuild ==
  /\ tool = Idle /\ outcome \in {"failed", "killed"}
  /\ dir' = Built(faults)
  /\ outcome' = "none" /\ changed' = FALSE
  /\ UNCHANGED <<tool, request, sums, faults, runs>>

ReleaseNext ==
  \/ StartGenerate \/ WriteEvidence \/ SignManifest \/ WriteSignature
  \/ StartFinalize \/ EndFinalize \/ Kill \/ Deliver \/ Change \/ Rebuild

ReleaseSpec == ReleaseInit /\ [][ReleaseNext]_releaseVars

-----------------------------------------------------------------------------
\* A directory that verifies, whenever it is looked at, is whole and about
\* the binaries that are in it: no file of the evidence is torn, the bill of
\* materials and the provenance name these very binaries at the expected
\* revision, and the decision enclosed is the one the tool made of the scan
\* enclosed, in which it read no finding.  A run that was killed, a binary
\* rebuilt under it or a signature by another key leave nothing that verifies
\* (evidence.go Verify).  A finding the tool does not read is not excluded.
VerifiedIsGenuine ==
  Verify(dir, Revision, Key) =>
    /\ \A f \in releaseSubjects \cup signedEvidenceFiles : ~dir[f].torn
    /\ \A s \in releaseSubjects :
         dir[s] \in dir["SBOM.json"].v.files /\ dir["PROVENANCE.json"].v.subjects[s] = dir[s]
    /\ dir["PROVENANCE.json"].v.revision = Revision
    /\ dir["VULNERABILITIES.json"].v = vulnerabilityReport(dir["GOVULNCHECK.json"])
    /\ dir["GOVULNCHECK.json"].v \in {"clean", "indented"}
    /\ dir["MODULES.jsonl"].v = "complete"

\* What the tool signs verifies: Generate with a complete list of modules
\* leaves a directory that passes Verify, and Finalize never finds its own
\* result wrong, unless somebody changed the directory after the checksums
\* they started from were made (evidence.go Generate, Finalize,
\* VerifyComplete).
SignedVerifies ==
  [][tool' = Idle /\ ~changed =>
       /\ outcome' = "generated" /\ tool # Idle /\ request.modules = "complete"
            => Verify(dir', request.revision, request.public)
       /\ At("finalize", 3) => outcome' # "failed"]_releaseVars
=============================================================================
