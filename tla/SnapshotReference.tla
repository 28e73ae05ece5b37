------------------------- MODULE SnapshotReference -------------------------
(***************************************************************************)
(* What an acceptable document is, said without any order of checks: the   *)
(* reference that snapshot.Parse and snapshot.Validate, as SnapshotFormat  *)
(* translates them, are compared with.                                     *)
(***************************************************************************)
EXTENDS SnapshotFormat

NoDuplicates(s) == Cardinality(ToSet(s)) = Len(s)

GoodName(f, limits) ==
  /\ ValidName(f.name) /\ ~Reserved(f.name)
  /\ \A n \in SampleNames(f) : NameBytes(n) <= limits.nameBytes
  /\ f.type = "counter" => ~HasSuffix(f.name, {"_total"})
  /\ f.type = "histogram" => ~HasSuffix(f.name, {"_bucket", "_sum", "_count"})

GoodLabels(f, s, limits) ==
  /\ Len(s.labels) <= limits.labels
  /\ Cardinality({l[1] : l \in ToSet(s.labels)}) = Len(s.labels)
  /\ \A l \in ToSet(s.labels) :
       /\ l[1] \notin InvalidNames /\ l[1] # "__name__"
       /\ Bytes[l[1]] <= limits.labelNameBytes /\ Bytes[l[2]] <= limits.labelValueBytes
       /\ f.type = "histogram" => l[1] # "le"

\* A histogram is what observations can produce: a cumulative distribution.
GoodHistogram(h) ==
  /\ IsFloat(h.sum)
  /\ \A b \in ToSet(h.buckets) : IsBoundary(b.le) /\ b.count \in 0..h.count
  /\ \A i, j \in 1..Len(h.buckets) :
       i < j => /\ h.buckets[i].le.number < h.buckets[j].le.number
                /\ h.buckets[i].count <= h.buckets[j].count
  /\ \E b \in ToSet(h.buckets) : b.le.number = PosInf /\ b.count = h.count

GoodValue(f, s) ==
  CASE f.type = "counter" -> s.kind = "value" /\ IsFloat(s.value) /\ LessEq(0, s.value.number)
    [] f.type = "gauge"   -> s.kind = "value" /\ IsFloat(s.value)
    [] OTHER              -> s.kind = "histogram" /\ GoodHistogram(s.value)

GoodFamily(f, limits) ==
  /\ f.shape = "exact" /\ f.type \in {"counter", "gauge", "histogram"}
  /\ GoodName(f, limits) /\ Bytes[f.help] <= limits.helpBytes
  /\ \A s \in ToSet(f.series) : s.shape = "exact" /\ GoodLabels(f, s, limits) /\ GoodValue(f, s)
  /\ NoDuplicates([i \in 1..Len(f.series) |-> ToSet(f.series[i].labels)])

Acceptable(document, limits) ==
  /\ document.bytes \in 1..limits.decodedBytes /\ document.utf8
  /\ document.json = "ok" /\ document.version = 1
  /\ NoDuplicates(document.families)
  /\ \A f \in ToSet(document.families) : GoodFamily(f, limits)
  /\ \A f, g \in ToSet(document.families) :
       f # g => SampleNames(f) \cap SampleNames(g) = {}
  /\ LET series == SeriesBefore(document.families, Len(document.families) + 1)
     IN  series <= limits.series /\ 1 + series <= limits.snapshotBytes

=============================================================================
