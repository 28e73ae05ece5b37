----------------------------- MODULE Exposition -----------------------------
(***************************************************************************)
(* What a scrape is sent: the families of the active snapshot that the     *)
(* filter keeps, then the program's own.                                   *)
(*   implementation/internal/exposition/encode.go, filter.go               *)
(*   implementation/internal/selfmetric/encode.go                          *)
(*                                                                         *)
(* An exposition has a block per family: the name its HELP and TYPE lines  *)
(* give, and the sample lines of each of its series.  Escaping and the     *)
(* order of families, series and labels are left out.                      *)
(***************************************************************************)
EXTENDS SnapshotModes, SelfMetrics

CONSTANT Filters  \* pairs of selector lists: configuration.Include and Exclude

Formats == {"prometheus", "openmetrics"}

----------------------------------------------------------------------------
(* Filter *)

\* A selector is kind:name; found says whether it has the colon.
ParseSelector(s) ==
  s.found /\ s.kind \in {"name", "prefix"} /\ ValidName(s.name)

normalizeSelectors(values) == {[kind |-> s.kind, name |-> s.name] : s \in ToSet(values)}

ValidFilter(f) == \A s \in ToSet(f.include) \cup ToSet(f.exclude) : ParseSelector(s)

NewFilter(f) ==
  [include |-> normalizeSelectors(f.include), exclude |-> normalizeSelectors(f.exclude)]

matchesAny(selectors, name) ==
  \E s \in selectors :
    \/ s.kind = "name" /\ name = s.name
    \/ s.kind = "prefix" /\ IsPrefix(s.name, name)

Includes(filter, family) ==
  /\ filter.include # {} => matchesAny(filter.include, family.name)
  /\ ~matchesAny(filter.exclude, family.name)

----------------------------------------------------------------------------
(* Application families *)

\* A line: its name, labels and value, and the series and the place in it that it was written for.
Line(at, i, name, labels, value) ==
  [at |-> at, i |-> i, name |-> name, labels |-> labels, value |-> value]

\* Variant: the thresholds are not looked at.
openMetricsSumNotNegative(h) == h.sum.number # NaN /\ h.sum.number >= 0

openMetricsHistogramSumAllowed(h) ==
  /\ h.sum.number # NaN /\ h.sum.number >= 0
  /\ \A i \in 1..Len(h.buckets) : h.buckets[i].le.number >= 0

\* The lines of series k.
seriesLines(family, k, format) ==
  LET value  == canonicalSeries(family.type, family.series[k]).value
      labels == ToSet(family.series[k].labels)
      named(suffix) == Append(family.name, suffix)
  IN
    CASE family.type = "counter" -> {Line(k, 1, named("_total"), labels, value)}
      [] family.type = "gauge"   -> {Line(k, 1, family.name, labels, value)}
      [] family.type = "histogram" ->
           {Line(k, i, named("_bucket"), labels \cup {<<"le", value.buckets[i].le>>},
                 Canonical(value.buckets[i].count)) : i \in 1..Len(value.buckets)}
           \cup (IF format # "openmetrics" \/ openMetricsHistogramSumAllowed(value)
                 THEN {Line(k, 1, named("_sum"), labels, value.sum)} ELSE {})
           \cup {Line(k, 1, named("_count"), labels, Canonical(value.count))}

writeApplicationFamily(family, format) ==
  [metadata |-> IF family.type = "counter" /\ format = "prometheus"
                THEN Append(family.name, "_total") ELSE family.name,
   type |-> family.type,
   lines |-> UNION {seriesLines(family, k, format) : k \in 1..Len(family.series)}]

----------------------------------------------------------------------------
(* The program's own families *)

\* The lines of one series; the last bucket is the one of every observation.
selfLines(id, labels) ==
  LET value == samples[id][labels]
      named(suffix) == Append(FamilyName(id), suffix)
  IN
    IF definitions[id].type # "histogram" THEN {Line(labels, 1, FamilyName(id), labels, Canonical(value))}
    ELSE {Line(labels, i, named("_bucket"), labels \cup {<<"le", Canonical(ShutdownBuckets[i])>>},
               Canonical(value.buckets[i])) : i \in 1..Len(value.buckets)}
         \cup {Line(labels, 0, named("_bucket"), labels \cup {<<"le", Special(PosInf)>>}, Canonical(value.count)),
               Line(labels, 1, named("_sum"), labels, Canonical(value.sum)),
               Line(labels, 1, named("_count"), labels, Canonical(value.count))}

\* View, then selfmetric.Encode.
selfFamily(id, format) ==
  LET name == FamilyName(id) IN
    [metadata |-> IF format = "openmetrics" /\ definitions[id].type = "counter" THEN Front(name) ELSE name,
     type |-> definitions[id].type,
     lines |-> UNION {selfLines(id, labels) : labels \in DOMAIN samples[id]}]

----------------------------------------------------------------------------
(* Encode: the blocks of both, in turn *)

\* The active snapshot: a validated document without its empty families.
ActiveFamilies ==
  IF verdict = "ok" THEN SelectSeq(Offered.families, LAMBDA f : f.series # <<>>) ELSE <<>>

Kept(filter) == SelectSeq(ActiveFamilies, LAMBDA f : Includes(filter, f))

EncodeApplication(filter, format) ==
  {<<i, writeApplicationFamily(Kept(filter)[i], format)>> : i \in 1..Len(Kept(filter))}

EncodeSelf(format) == {<<id, selfFamily(id, format)>> : id \in Ids}

----------------------------------------------------------------------------
(* Behaviours: a document is offered, the managed registry changes, or the *)
(* self-metrics do.                                                        *)

expositionVars == <<modesVars, metricsVars>>

ExpositionInit ==
  /\ MetricsInit
  /\ Init
  /\ mode \in {"snapshot", "managed", "metrics"}
  /\ document \in IF mode = "snapshot" THEN Documents ELSE {Encode(model)}
  /\ verdict = "none"

ExpositionNext ==
  \/ mode # "metrics" /\ ModesNext /\ UNCHANGED metricsVars
  \/ mode = "metrics" /\ MetricsNext /\ UNCHANGED modesVars

ExpositionSpec == ExpositionInit /\ [][ExpositionNext]_expositionVars

----------------------------------------------------------------------------
(* Properties *)

\* The sample names that a family may have under its metadata, by format.
NamesUnder(block, format) ==
  CASE block.type = "histogram" -> {Append(block.metadata, s) : s \in {"_bucket", "_sum", "_count"}}
    [] block.type = "counter" /\ format = "openmetrics" -> {Append(block.metadata, "_total")}
    [] OTHER -> {block.metadata}

NamesIn(block) == {l.name : l \in block[2].lines}

\* No two families share a metadata name or a sample name, and every sample
\* belongs under its metadata.
NamesAreLegal(blocks, format) ==
  /\ Cardinality({b[2].metadata : b \in blocks}) = Cardinality(blocks)
  /\ Cardinality(UNION {NamesIn(b) : b \in blocks})
       = Cardinality(UNION {{<<b[1], n>> : n \in NamesIn(b)} : b \in blocks})
  /\ \A b \in blocks : NamesIn(b) \subseteq NamesUnder(b[2], format)

\* No sample is sent twice, and every series of a histogram has a bucket of
\* all its observations.
LinesAreLegal(blocks) ==
  \A b \in blocks :
    LET lines == b[2].lines IN
      /\ Cardinality({<<l.name, l.labels>> : l \in lines}) = Cardinality(lines)
      /\ b[2].type = "histogram" =>
           \A c \in lines :
             Last(c.name) = "_count" =>
               \E l \in lines : /\ Last(l.name) = "_bucket" /\ l.value = c.value
                                /\ l.labels = c.labels \cup {<<"le", Special(PosInf)>>}

\* A sum that only grows: no observation of its series was negative or NaN.
SumOnlyGrows(sum, lines) ==
  /\ sum.value.number # NaN /\ sum.value.number >= 0
  /\ \A l \in lines : l.at = sum.at /\ Last(l.name) = "_bucket" =>
       \A label \in l.labels : label[1] = "le" => label[2].number >= 0

\* In Prometheus text every series of a histogram has its sum; OpenMetrics has
\* the same lines without the sums that may fall.
SumsAreLegal(prometheus, openmetrics) ==
  \A p \in {b \in prometheus : b[2].type = "histogram"} : \A o \in {b \in openmetrics : b[1] = p[1]} :
    LET lines == p[2].lines IN
      /\ \A c \in lines :
           Last(c.name) = "_count" => \E s \in lines : s.at = c.at /\ Last(s.name) = "_sum"
      /\ o[2].lines = {l \in lines : Last(l.name) = "_sum" => SumOnlyGrows(l, lines)}

\* The names that the program's own families take, in either format.
SelfNames ==
  UNION {{FamilyName(id)} \cup {Append(FamilyName(id), s) : s \in {"_bucket", "_sum", "_count"}}
           \cup {<<"metricshell_", id>>} : id \in Ids}

\* Whatever is accepted, and whatever the program reports of itself, the
\* samples of a scrape in either format and under any filter have legal names,
\* none is sent twice, the sums that OpenMetrics forbids and no others are left
\* out of it, and no name of the application is one of the program's own
\* (exposition/encode.go Encode, filter.go and selfmetric Encode, against
\* snapshot/model.go Validate and selfmetric definitions).
ExpositionIsLegal ==
  /\ mode = "metrics" =>
       /\ updates = 0 => \A format \in Formats : NamesAreLegal(EncodeSelf(format), format)
       /\ LinesAreLegal(EncodeSelf("prometheus"))
       /\ SumsAreLegal(EncodeSelf("prometheus"), EncodeSelf("openmetrics"))
  /\ verdict = "ok" => \A f \in {g \in Filters : ValidFilter(g)} :
       LET blocks == [format \in Formats |-> EncodeApplication(NewFilter(f), format)] IN
         /\ \A format \in Formats :
              /\ NamesAreLegal(blocks[format], format)
              /\ LinesAreLegal(blocks[format])
              /\ \A b \in blocks[format] : SelfNames \cap (NamesIn(b) \cup {b[2].metadata}) = {}
         /\ SumsAreLegal(blocks["prometheus"], blocks["openmetrics"])
=============================================================================
