---------------------------- MODULE ManagedModel ----------------------------
(***************************************************************************)
(* What a mutation does to the managed registry:                           *)
(*   implementation/internal/managed/model.go     Declare, Apply, ApplyBatch *)
(*   implementation/internal/managed/registry.go  generation, frozen       *)
(*   implementation/internal/managedmaterialize/cache.go  Encode           *)
(*                                                                         *)
(* The owner goroutine is the only caller, so a mutation is one step; how  *)
(* requests reach it is in Managed.  Encode hands the registry to the same *)
(* validation a snapshot from outside goes through (SnapshotFormat).       *)
(***************************************************************************)
EXTENDS SnapshotFormat

CONSTANTS
  Descriptors,    \* the declarations clients send
  Operations,     \* the operations clients send
  ManagedLimits,  \* managed.Limits
  MaxCount,       \* the largest uint64 of a histogram count
  MaxGeneration   \* the largest uint64 of the generation

VARIABLES
  model,       \* Model: families, and activeSeries
  generation,  \* Registry.generation
  frozen,      \* Registry.frozen
  last         \* the reason the last mutation was rejected for, or "ok"

vars == <<model, generation, frozen, last>>

Families(m) == DOMAIN m.families

----------------------------------------------------------------------------
(* Numbers *)

\* IEEE addition; finite overflow gives an infinity.
Plus(a, b) ==
  CASE NaN \in {a, b} \/ {a, b} = {PosInf, NegInf} -> NaN
    [] PosInf \in {a, b} \/ (a \in Finite /\ b \in Finite /\ a + b > MaxFinite) -> PosInf
    [] NegInf \in {a, b} \/ (a \in Finite /\ b \in Finite /\ a + b < -MaxFinite) -> NegInf
    [] OTHER -> a + b

counterOperand(value) == value # NaN /\ value >= 0

----------------------------------------------------------------------------
(* Declare *)

validateDescriptorLimits(d) ==
  IF \/ NameBytes(d.name) > ManagedLimits.nameBytes
     \/ Bytes[d.help] > ManagedLimits.helpBytes
     \/ Len(d.labels) > ManagedLimits.labels
     \/ Len(d.buckets) > ManagedLimits.buckets
     \/ \E l \in ToSet(d.labels) : Bytes[l] > ManagedLimits.labelNameBytes
  THEN "resource" ELSE "ok"

canonicalDescriptor(d) ==
  IF \/ ~ValidName(d.name) \/ Reserved(d.name)
     \/ d.type \notin {"counter", "gauge", "histogram"}
     \/ d.type = "counter" /\ HasSuffix(d.name, {"_total"})
     \/ d.type = "histogram" /\ HasSuffix(d.name, {"_bucket", "_sum", "_count"})
     \/ \E l \in ToSet(d.labels) :
          l \in InvalidNames \/ l = "__name__" \/ (d.type = "histogram" /\ l = "le")
     \/ Cardinality(ToSet(d.labels)) # Len(d.labels)
     \/ d.type # "histogram" /\ d.buckets # <<>>
     \/ d.type = "histogram" /\ (d.buckets = <<>> \/ Last(d.buckets) # PosInf)
     \/ \E i \in 1..Len(d.buckets) :
          d.buckets[i] = NaN \/ (i > 1 /\ LessEq(d.buckets[i], d.buckets[i - 1]))
  THEN "semantic" ELSE "ok"

\* Label names are sorted, so two orders of them are one descriptor.
sameDescriptor(c, d) ==
  /\ [c EXCEPT !.labels = {}] = [d EXCEPT !.labels = {}]
  /\ ToSet(c.labels) = ToSet(d.labels)

\* Variant: only the base names are compared.
namesOverlapBase(c, d) == c.name = d.name

namesOverlap(c, d) == SampleNames(c) \cap SampleNames(d) # {}

NoSeries == [key \in {} |-> key]

\* The error Model.Declare returns; "same" is the accepted repetition.
DeclareError(m, d) ==
  CASE validateDescriptorLimits(d) # "ok" -> "resource"
    [] canonicalDescriptor(d) # "ok" -> "semantic"
    [] d.name \in Families(m) ->
         IF sameDescriptor(m.families[d.name].descriptor, d) THEN "same" ELSE "semantic"
    [] Cardinality(Families(m)) >= ManagedLimits.families -> "resource"
    [] \E n \in Families(m) : namesOverlap(m.families[n].descriptor, d) -> "semantic"
    [] OTHER -> "ok"

Declared(m, d) ==
  [m EXCEPT !.families = [n \in Families(m) \cup {d.name} |->
     IF n \in Families(m) THEN m.families[n] ELSE [descriptor |-> d, series |-> NoSeries]]]

----------------------------------------------------------------------------
(* apply: one operation on a clone of the model *)

\* A series that does not exist yet; a histogram has one count per boundary.
NewSeries(d) == [value |-> 0, count |-> 0, sum |-> 0, buckets |-> [i \in 1..Len(d.buckets) |-> 0]]

\* NaN counts in the last bucket only.
inBucket(value, boundary) == LessEq(value, boundary) \/ (value = NaN /\ boundary = PosInf)

Observed(d, s, value) ==
  [s EXCEPT !.count = @ + 1, !.sum = Plus(@, value),
            !.buckets = [i \in DOMAIN @ |-> @[i] + IF inBucket(value, d.buckets[i]) THEN 1 ELSE 0]]

\* A series key is the label set: resolveLabels demands the names declared.
ApplyError(m, op) ==
  IF \/ NameBytes(op.name) > ManagedLimits.nameBytes
     \/ Cardinality(DOMAIN op.labels) > ManagedLimits.labels
     \/ \E l \in DOMAIN op.labels : \/ Bytes[l] > ManagedLimits.labelNameBytes
                                    \/ Bytes[op.labels[l]] > ManagedLimits.labelValueBytes
  THEN "resource"
  ELSE IF op.name \notin Families(m) THEN "semantic"
  ELSE LET family == m.families[op.name]
           exists == op.labels \in DOMAIN family.series
           type   == family.descriptor.type
       IN
    CASE DOMAIN op.labels # ToSet(family.descriptor.labels) -> "semantic"
      [] ~exists /\ m.activeSeries >= ManagedLimits.series -> "resource"
      [] op.kind \in {"counter_initialize", "counter_add"} /\ type # "counter" -> "semantic"
      [] op.kind = "counter_initialize" /\ exists -> "semantic"
      [] op.kind \in {"counter_initialize", "counter_add"} /\ ~counterOperand(op.value) -> "semantic"
      [] op.kind = "gauge_set" /\ type # "gauge" -> "semantic"
      [] op.kind = "histogram_observe" /\ type # "histogram" -> "semantic"
      [] op.kind = "histogram_observe" /\ exists /\ family.series[op.labels].count = MaxCount ->
           "semantic"
      [] op.kind \notin {"counter_initialize", "counter_add", "gauge_set", "histogram_observe"} ->
           "semantic"
      [] OTHER -> "ok"

Changed(d, s, op) ==
  CASE op.kind = "counter_initialize" -> [s EXCEPT !.value = op.value]
    [] op.kind = "counter_add"        -> [s EXCEPT !.value = Plus(@, op.value)]
    [] op.kind = "gauge_set"          -> [s EXCEPT !.value = op.value]
    [] op.kind = "histogram_observe"  -> Observed(d, s, op.value)

\* Variant: every operation counts as a new series.
AppliedCounting(m, op) ==
  LET family == m.families[op.name]
      exists == op.labels \in DOMAIN family.series
      before == IF exists THEN family.series[op.labels] ELSE NewSeries(family.descriptor)
      after  == Changed(family.descriptor, before, op)
  IN [families |-> [m.families EXCEPT ![op.name].series =
        [k \in DOMAIN family.series \cup {op.labels} |-> IF k = op.labels THEN after ELSE @[k]]],
      activeSeries |-> m.activeSeries + 1]

Applied(m, op) ==
  LET family == m.families[op.name]
      exists == op.labels \in DOMAIN family.series
      before == IF exists THEN family.series[op.labels] ELSE NewSeries(family.descriptor)
      after  == Changed(family.descriptor, before, op)
  IN [families |-> [m.families EXCEPT ![op.name].series =
        [k \in DOMAIN family.series \cup {op.labels} |-> IF k = op.labels THEN after ELSE @[k]]],
      activeSeries |-> m.activeSeries + IF exists THEN 0 ELSE 1]

\* The loop of ApplyBatch on the clone: it stops at the first error.
BatchStep(acc, op) ==
  IF acc.error # "ok" THEN acc
  ELSE LET error == ApplyError(acc.model, op) IN
    [error |-> error, model |-> IF error = "ok" THEN Applied(acc.model, op) ELSE acc.model]

AppliedAll(m, ops) == FoldLeft(BatchStep, [error |-> "ok", model |-> m], ops)

----------------------------------------------------------------------------
(* The registry *)

Init ==
  /\ model = [families |-> [n \in {} |-> n], activeSeries |-> 0]
  /\ generation = 0
  /\ frozen = FALSE
  /\ last = "ok"

Reject(reason) == last' = reason /\ UNCHANGED <<model, generation, frozen>>

Declare(d) ==
  LET error == DeclareError(model, d) IN
    IF frozen THEN Reject("late")
    ELSE IF d.name \notin Families(model) /\ generation = MaxGeneration THEN Reject("semantic")
    ELSE IF error \notin {"ok", "same"} THEN Reject(error)
    ELSE /\ model' = IF error = "ok" THEN Declared(model, d) ELSE model
         /\ generation' = generation + IF error = "ok" THEN 1 ELSE 0
         /\ last' = "ok"
         /\ UNCHANGED frozen

\* Variant: the batch is applied to the registry itself, not to a clone.
ApplyBatchInPlace(ops) ==
  LET after == AppliedAll(model, ops) IN
    IF frozen THEN Reject("late")
    ELSE IF generation = MaxGeneration \/ ops = <<>> THEN Reject("semantic")
    ELSE IF Len(ops) > ManagedLimits.batch THEN Reject("resource")
    ELSE /\ model' = after.model
         /\ generation' = generation + IF after.error = "ok" THEN 1 ELSE 0
         /\ last' = after.error
         /\ UNCHANGED frozen

\* Apply is the batch of one; its length is not compared with the limit, which
\* is at least one.
ApplyBatch(ops) ==
  LET after == AppliedAll(model, ops) IN
    IF frozen THEN Reject("late")
    ELSE IF generation = MaxGeneration \/ ops = <<>> THEN Reject("semantic")
    ELSE IF Len(ops) > ManagedLimits.batch THEN Reject("resource")
    ELSE IF after.error # "ok" THEN Reject(after.error)
    ELSE /\ model' = after.model
         /\ generation' = generation + 1
         /\ last' = "ok"
         /\ UNCHANGED frozen

Freeze == frozen' = TRUE /\ UNCHANGED <<model, generation, last>>

\* Batches have at most MaxBatch operations.
MaxBatch == 2

Next ==
  \/ \E d \in Descriptors : Declare(d)
  \/ \E n \in 0..MaxBatch : \E ops \in [1..n -> Operations] : ApplyBatch(ops)
  \/ Freeze

----------------------------------------------------------------------------
(* Encode: the candidate offered to the core *)

\* formatFloat
FormatFloat(value) == IF value \in Finite THEN Canonical(value) ELSE Special(value)

EncodedSeries(d, key, s) ==
  [shape |-> "exact", labels |-> SetToSeq({<<l, key[l]>> : l \in DOMAIN key}),
   kind |-> IF d.type = "histogram" THEN "histogram" ELSE "value",
   value |-> IF d.type # "histogram" THEN FormatFloat(s.value)
             ELSE [count |-> s.count, sum |-> FormatFloat(s.sum),
                   buckets |-> [i \in DOMAIN s.buckets |->
                      [le |-> FormatFloat(d.buckets[i]), count |-> s.buckets[i]]]]]

EncodedFamily(f) ==
  [shape |-> "exact", name |-> f.descriptor.name, help |-> f.descriptor.help,
   type |-> f.descriptor.type,
   series |-> SetToSeq({EncodedSeries(f.descriptor, k, f.series[k]) : k \in DOMAIN f.series})]

\* The encoding takes one unit for the document, one per family, one per series.
EncodedBytes(families) == 1 + Len(families) + SeriesBefore(families, Len(families) + 1)

Encode(m) ==
  LET families == SetToSeq({EncodedFamily(m.families[n]) : n \in Families(m)}) IN
    [bytes |-> EncodedBytes(families), utf8 |-> TRUE, json |-> "ok", version |-> 1,
     families |-> families]

----------------------------------------------------------------------------
(* Properties *)

AllSeries(m) == UNION {{<<n, k>> : k \in DOMAIN m.families[n].series} : n \in Families(m)}

\* activeSeries, which guards the series limit, is the number of series, and
\* both limits hold however operations and rejected batches mix (model.go
\* apply, ApplyBatch).
ActiveSeriesIsExact ==
  /\ model.activeSeries = Cardinality(AllSeries(model))
  /\ model.activeSeries <= ManagedLimits.series
  /\ Cardinality(Families(model)) <= ManagedLimits.families

\* A mutation that is rejected, also a batch that fails halfway, leaves
\* families, series and generation alone; one that changes them advances the
\* generation by exactly one, which is what lets the materialization cache
\* and the bridge compare generations only (registry.go, model.go ApplyBatch).
GenerationVersionsState ==
  [][/\ last' # "ok" => UNCHANGED <<model, generation>>
     /\ model' # model => generation' = generation + 1]_vars

=============================================================================
