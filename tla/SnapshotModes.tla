--------------------------- MODULE SnapshotModes ---------------------------
(***************************************************************************)
(* The two sources of the documents the core validates, one per mode of    *)
(* the program: complete snapshots from a producer, and the encoding of    *)
(* the managed registry after any sequence of its mutations.               *)
(*   implementation/internal/ingestion/core.go            Publish          *)
(*   implementation/internal/managedmaterialize/cache.go  Materialize      *)
(***************************************************************************)
EXTENDS ManagedModel, SnapshotReference

CONSTANTS
  Documents,  \* what a producer may send
  CoreLimits  \* snapshot.Limits

VARIABLES
  mode,      \* Config.Mode: "snapshot" or "managed" (or, in Exposition, "metrics")
  document,  \* what the producer sends, in snapshot mode
  verdict    \* "none", or what Parse said of the current document

modesVars == <<vars, mode, document, verdict>>

Mutate ==
  /\ mode = "managed"
  /\ Next
  /\ verdict' = "none"
  /\ UNCHANGED <<mode, document>>

Offered == IF mode = "snapshot" THEN document ELSE Encode(model)

\* Materialize may be called after any number of mutations.
Offer ==
  /\ verdict = "none"
  /\ verdict' = Parse(Offered, CoreLimits)
  /\ UNCHANGED <<vars, mode, document>>

ModesNext == Mutate \/ Offer

----------------------------------------------------------------------------
(* Properties *)

\* A document is accepted exactly when it is acceptable by the reference: no
\* early return, and no order of its families, series, labels or buckets,
\* lets a bad document through or stops a good one (model.go Validate,
\* parser.go Parse).
VerdictMatchesReference ==
  verdict # "none" => ((verdict = "ok") <=> Acceptable(Offered, CoreLimits))

\* What the registry does not bound: the size of its encoding and the length
\* of the sample names it derives.
FitsTheCore ==
  /\ Offered.bytes <= CoreLimits.decodedBytes
  /\ CanonicalBytes(Offered.families) <= CoreLimits.snapshotBytes
  /\ \A n \in Families(model) : \A name \in SampleNames(model.families[n].descriptor) :
       NameBytes(name) <= CoreLimits.nameBytes

\* Whatever was declared and applied, the core refuses the encoded registry
\* only for its size or for a derived sample name that is too long, when the
\* core's other limits are no smaller than the registry's: no other committed
\* mutation makes every later publication fail (cache.go Encode, model.go
\* derivedNames and canonicalDescriptor, snapshot/model.go Validate).
MaterializationIsValid ==
  mode = "managed" /\ verdict # "none" => ((verdict = "ok") <=> FitsTheCore)
=============================================================================
