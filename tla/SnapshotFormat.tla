--------------------------- MODULE SnapshotFormat ---------------------------
(***************************************************************************)
(* What makes a candidate snapshot valid:                                  *)
(*   implementation/internal/snapshot/model.go    Validate                 *)
(*   implementation/internal/snapshot/parser.go   Parse                    *)
(*                                                                         *)
(* A candidate is what Parse decoded: families in document order, each     *)
(* with its series in document order.  A metric name is the sequence of    *)
(* its parts, so that <<"foo", "_total">> is foo_total.  A numeric token   *)
(* keeps the number it denotes and how it is spelled.  The arms of a CASE   *)
(* are the early returns of a function, tried in the order written.        *)
(***************************************************************************)
EXTENDS Integers, Sequences, FiniteSets, SequencesExt

CONSTANTS
  Bytes,          \* Bytes[s]: the length of a name part, label name, label value or help text
  InvalidNames,   \* first parts, and label names, that do not match their pattern
  ReservedParts,  \* first parts that begin with metricshell_
  MaxFinite       \* the largest finite number

(* Numbers: the finite ones, both infinities, and a code for NaN *)

PosInf == MaxFinite + 1
NegInf == -PosInf
NaN    == MaxFinite + 2
Finite == -MaxFinite..MaxFinite

\* The comparison a <= b of IEEE 754.
LessEq(a, b) == a # NaN /\ b # NaN /\ a <= b

(* Tokens: NaN, +Inf and -Inf have one spelling each, a finite number its  *)
(* canonical one and others; the rest denotes no binary64 number.          *)

Special(n)   == [form |-> "special", number |-> n]
Canonical(n) == [form |-> "canonical", number |-> n]
Other(n)     == [form |-> "other", number |-> n]
OutOfRange   == [form |-> "out_of_range", number |-> 0]
Garbage      == [form |-> "garbage", number |-> 0]

IsFinite(token) == token.form \in {"canonical", "other"}

\* The error is "numeric_invalid"; histograms report their own.
IsFloat(token) == token.form = "special" \/ IsFinite(token)

CanonicalFloat(token) == IF token.form = "special" THEN token ELSE Canonical(token.number)

IsCounter(token) ==
  \/ token = Special(PosInf)
  \/ IsFinite(token) /\ token.number >= 0

IsBoundary(token) == token \in {Special(PosInf), Special(NegInf)} \/ IsFinite(token)

----------------------------------------------------------------------------
(* Loops that return at the first error *)

\* The error of the first index in 1..n that has one, or "ok".
FirstError(n, Error(_)) ==
  LET failing == {i \in 1..n : Error(i) # "ok"} IN
    IF failing = {} THEN "ok" ELSE Error(CHOOSE i \in failing : \A j \in failing : i <= j)

----------------------------------------------------------------------------
(* Names *)

NameBytes(name) == FoldSeq(LAMBDA part, total : Bytes[part] + total, 0, name)

ValidName(name) == name # <<>> /\ Head(name) \notin InvalidNames

Reserved(name) == Head(name) \in ReservedParts

HasSuffix(name, suffixes) == Len(name) > 1 /\ Last(name) \in suffixes

\* The sample names a family of this type is written under, base name first.
encodedSampleNames(name, type) ==
  LET suffixes == CASE type = "counter"   -> <<"_total">>
                    [] type = "histogram" -> <<"_bucket", "_sum", "_count">>
                    [] OTHER              -> <<>>
  IN <<name>> \o [i \in 1..Len(suffixes) |-> Append(name, suffixes[i])]

SampleNames(family) == ToSet(encodedSampleNames(family.name, family.type))

validateFamilyMetadata(family, limits) ==
  CASE ~ValidName(family.name) -> "policy"
    [] NameBytes(family.name) > limits.nameBytes \/ Bytes[family.help] > limits.helpBytes ->
         "name_limit"
    [] Reserved(family.name) -> "reserved_name"
    [] family.type = "counter" /\ HasSuffix(family.name, {"_total"}) -> "metadata_conflict"
    [] family.type = "histogram" /\ HasSuffix(family.name, {"_bucket", "_sum", "_count"}) ->
         "metadata_conflict"
    [] family.type \notin {"counter", "gauge", "histogram"} -> "policy"
    [] OTHER -> "ok"

----------------------------------------------------------------------------
(* Series *)

\* Variant: the count of the last bucket is not compared with the total.
validateHistogramOpenEnded(histogram) ==
  LET buckets == histogram.buckets IN
    IF /\ histogram.count >= 0
       /\ IsFloat(histogram.sum)
       /\ \A i \in 1..Len(buckets) :
            /\ IsBoundary(buckets[i].le) /\ buckets[i].count >= 0
            /\ i > 1 => /\ ~LessEq(buckets[i].le.number, buckets[i - 1].le.number)
                        /\ buckets[i].count >= buckets[i - 1].count
       /\ buckets # <<>>
       /\ Last(buckets).le = Special(PosInf)
    THEN "ok" ELSE "histogram_invalid"

\* A negative count stands for a token that is no uint64.  Boundaries must
\* grow strictly, counts must not fall, and the last bucket is +Inf and holds
\* every observation.
validateHistogram(histogram) ==
  LET buckets == histogram.buckets IN
    IF /\ histogram.count >= 0
       /\ IsFloat(histogram.sum)
       /\ \A i \in 1..Len(buckets) :
            /\ IsBoundary(buckets[i].le) /\ buckets[i].count >= 0
            /\ i > 1 => /\ ~LessEq(buckets[i].le.number, buckets[i - 1].le.number)
                        /\ buckets[i].count >= buckets[i - 1].count
       /\ buckets # <<>>
       /\ Last(buckets).le = Special(PosInf)
       /\ Last(buckets).count = histogram.count
    THEN "ok" ELSE "histogram_invalid"

\* One of the labels <<name, value>> of a series, given the ones before it.
LabelError(labels, i, limits) ==
  LET name == labels[i][1]  value == labels[i][2] IN
    CASE name \in InvalidNames \/ name = "__name__" -> "policy"
      [] Bytes[name] > limits.labelNameBytes \/ Bytes[value] > limits.labelValueBytes ->
           "name_limit"
      [] \E j \in 1..(i - 1) : labels[j][1] = name -> "duplicate_series"
      [] OTHER -> "ok"

\* A series of a counter or a gauge has a value, one of a histogram has none.
validateSeries(type, series, limits) ==
  LET labels == series.labels
      labelError == FirstError(Len(labels), LAMBDA i : LabelError(labels, i, limits))
  IN
    CASE Len(labels) > limits.labels -> "label_limit"
      [] labelError # "ok" -> labelError
      [] type # "histogram" /\ series.kind = "histogram" -> "type_conflict"
      [] type = "counter" /\ ~IsCounter(series.value) -> "numeric_invalid"
      [] type = "gauge" /\ ~IsFloat(series.value) -> "numeric_invalid"
      [] type = "histogram" /\ (series.kind # "histogram" \/ \E l \in ToSet(labels) : l[1] = "le") ->
           "histogram_invalid"
      [] type = "histogram" -> validateHistogram(series.value)
      [] OTHER -> "ok"

\* Two series of a family are the same when their label sets are.
seriesIdentity(series) == ToSet(series.labels)

----------------------------------------------------------------------------
(* Validate *)

SeriesBefore(families, j) ==
  FoldSeq(LAMBDA f, total : Len(f.series) + total, 0, SubSeq(families, 1, j - 1))

SeriesError(families, j, i, limits) ==
  LET series == families[j].series
      own == validateSeries(families[j].type, series[i], limits)
  IN
    CASE own # "ok" -> own
      [] \E k \in 1..(i - 1) : seriesIdentity(series[k]) = seriesIdentity(series[i]) ->
           "duplicate_series"
      [] SeriesBefore(families, j) + i > limits.series -> "series_limit"
      [] OTHER -> "ok"

\* A sample name must fit the limit and belong to no earlier family.
NameError(name, earlier, limits) ==
  CASE NameBytes(name) > limits.nameBytes -> "name_limit"
    [] \E e \in earlier : name \in SampleNames(e) -> "metadata_conflict"
    [] OTHER -> "ok"

\* Family j, given the families before it.
FamilyError(families, j, limits) ==
  LET family == families[j]
      earlier == {families[k] : k \in 1..(j - 1)}
      metadata == validateFamilyMetadata(family, limits)
      names == encodedSampleNames(family.name, family.type)
      nameError == FirstError(Len(names), LAMBDA i : NameError(names[i], earlier, limits))
  IN
    CASE metadata # "ok" -> metadata
      [] \E e \in earlier : e.name = family.name ->
           IF \E e \in earlier : e.name = family.name /\ e.type = family.type
           THEN "metadata_conflict" ELSE "type_conflict"
      [] nameError # "ok" -> nameError
      [] OTHER -> FirstError(Len(family.series), LAMBDA i : SeriesError(families, j, i, limits))

canonicalSeries(type, series) ==
  [labels |-> ToSet(series.labels),
   value  |-> IF type # "histogram" THEN CanonicalFloat(series.value)
              ELSE [count   |-> series.value.count,
                    sum     |-> CanonicalFloat(series.value.sum),
                    buckets |-> [i \in 1..Len(series.value.buckets) |->
                       [le    |-> CanonicalFloat(series.value.buckets[i].le),
                        count |-> series.value.buckets[i].count]]]]

\* The validated snapshot: sorted by name and by label set, so sets; families
\* without series are dropped.
canonicalFamilies(families) ==
  {[name |-> f.name, help |-> f.help, type |-> f.type,
    series |-> {canonicalSeries(f.type, s) : s \in ToSet(f.series)}] :
      f \in {g \in ToSet(families) : g.series # <<>>}}

\* The canonical encoding takes one unit for the document and one per series.
CanonicalBytes(families) == 1 + SeriesBefore(families, Len(families) + 1)

Validate(candidate, limits) ==
  LET families == candidate.families
      familyError == FirstError(Len(families), LAMBDA j : FamilyError(families, j, limits))
  IN
    CASE candidate.version # 1 -> "schema_version"
      [] candidate.bytes > limits.decodedBytes -> "payload_limit"
      [] familyError # "ok" -> familyError
      [] CanonicalBytes(families) > limits.snapshotBytes -> "payload_limit"
      [] OTHER -> "ok"

----------------------------------------------------------------------------
(* Parse *)

\* decodeFamily: shape says whether the JSON objects of a family or series
\* have exactly the members, of the JSON types, that are required.
SeriesShapeError(series) == IF series.shape = "exact" THEN "ok" ELSE "malformed"

decodeFamily(family) ==
  CASE family.shape # "exact" -> "malformed"
    [] family.type \notin {"counter", "gauge", "histogram"} -> "policy"
    [] OTHER -> FirstError(Len(family.series), LAMBDA i : SeriesShapeError(family.series[i]))

\* A document: its size, whether it is UTF-8, what is found wrong with its
\* JSON (two members of one name, in a labels object or elsewhere; other
\* members than the two required; families that are null), and its content.
Parse(document, limits) ==
  LET families == document.families
      shapeError == FirstError(Len(families), LAMBDA j : decodeFamily(families[j]))
  IN
    CASE document.bytes = 0 -> "empty_payload"
      [] document.bytes > limits.decodedBytes -> "payload_limit"
      [] ~document.utf8 -> "malformed"
      [] document.json = "duplicate_label" -> "duplicate_series"
      [] document.json \in {"broken", "duplicate_key", "other_members"} -> "malformed"
      [] document.version # 1 -> "schema_version"
      [] document.json = "no_families" -> "malformed"
      [] shapeError # "ok" -> shapeError
      [] OTHER -> Validate(document, limits)
=============================================================================
