--------------------------- MODULE MCSnapshotModes ---------------------------
(* Exposition for TLC: the documents, declarations, operations and filters   *)
(* that are tried, and limits that all of them can reach.                    *)
EXTENDS Exposition

MCBytes ==
  [s \in {"a", "b", "h", "metricshell_", "1", "_total", "_bucket", "_sum", "_count",
          "x", "y", "le", "__name__", "v", "w", "long"} |->
     CASE s = "long" -> 9
       [] s \in {"_total", "_bucket", "_sum", "_count"} -> 2
       [] s = "b" -> 4
       [] OTHER -> 1]

\* A gauge b fits with its 4 bytes, a counter b does not with its 6; three
\* series pass the series limit and not the size limit; two families and two
\* series that the registry takes are too large.
MCCoreLimits ==
  [decodedBytes |-> 4, snapshotBytes |-> 3, series |-> 3, labels |-> 2, nameBytes |-> 5,
   helpBytes |-> 1, labelNameBytes |-> 2, labelValueBytes |-> 1]

\* As by default, the core has the same limits and leaves no room for the
\* suffix of a derived sample name.
MCManagedLimits ==
  [families |-> 2, series |-> 2, labels |-> 1, buckets |-> 3, batch |-> 2, nameBytes |-> 5,
   helpBytes |-> 1, labelNameBytes |-> 1, labelValueBytes |-> 1]

----------------------------------------------------------------------------
(* Documents *)

Names == {<<"a">>, <<"b">>, <<"a", "_total">>, <<"a", "_bucket">>, <<"1">>, <<"metricshell_">>}

Tokens ==
  {Special(NaN), Special(PosInf), Special(NegInf), Canonical(1), Canonical(-1), Other(1),
   OutOfRange, Garbage}

LabelLists ==
  {<<>>, <<<<"x", "v">>>>, <<<<"y", "v">>, <<"x", "w">>>>, <<<<"x", "w">>, <<"y", "v">>>>,
   <<<<"x", "v">>, <<"x", "w">>>>, <<<<"le", "v">>>>, <<<<"__name__", "v">>>>,
   <<<<"x", "long">>>>, <<<<"x", "v">>, <<"y", "v">>, <<"le", "v">>>>}

Series(labels, value) == [shape |-> "exact", kind |-> "value", labels |-> labels, value |-> value]

Bucket(le, n) == [le |-> le, count |-> n]

Histogram(labels, n, sum, buckets) ==
  [shape |-> "exact", kind |-> "histogram", labels |-> labels,
   value |-> [count |-> n, sum |-> sum, buckets |-> buckets]]

Histograms ==
  {Histogram(<<>>, n, Special(NaN), <<Bucket(le, m), Bucket(Special(PosInf), k)>>) :
     n \in {-1, 1, 2}, m \in {-1, 0, 2}, k \in {1, 2},
     le \in {Canonical(0), Other(1), Special(NegInf), Special(PosInf), Special(NaN), Garbage}}
  \cup {Histogram(l, 1, Canonical(1), <<Bucket(Special(PosInf), 1)>>) : l \in LabelLists}
  \cup {Histogram(<<>>, 1, sum, <<Bucket(le, 0), Bucket(Special(PosInf), 1)>>) :
          le \in {Canonical(-1), Canonical(0)}, sum \in Tokens}
  \cup {Histogram(<<>>, 0, Garbage, <<>>), Histogram(<<>>, 0, Canonical(1), <<>>)}

Family(name, type, series) ==
  [shape |-> "exact", name |-> name, help |-> "v", type |-> type, series |-> series]

Document(families) ==
  [bytes |-> 1, utf8 |-> TRUE, json |-> "ok", version |-> 1, families |-> families]

Types == {"counter", "gauge", "histogram", "summary"}

\* One family with up to two series of every kind ...
SeriesLists ==
  {<<s>> : s \in {Series(l, Canonical(1)) : l \in LabelLists}
              \cup {Series(<<>>, t) : t \in Tokens} \cup Histograms}
  \cup {<<Series(l, Canonical(1)), Series(m, Other(1))>> : l, m \in LabelLists}

OneFamily == {<<Family(<<"a">>, t, s)>> : t \in Types, s \in SeriesLists}

\* ... two or three families whose names may collide, with 0 to 2 series ...
Plain(type, n) ==
  [i \in 1..n |-> IF type = "histogram"
                  THEN Histogram(<<<<"x", IF i = 1 THEN "v" ELSE "w">>>>, 1, Other(1),
                                 <<Bucket(Special(PosInf), 1)>>)
                  ELSE Series(<<<<"x", IF i = 1 THEN "v" ELSE "w">>>>, Other(1))]

PlainFamilies == {Family(name, t, Plain(t, n)) : name \in Names, t \in Types, n \in {0, 1, 2}}

TwoFamilies == {<<f, g>> : f, g \in PlainFamilies}

\* ... and documents that are not even candidates.
Broken ==
  LET good == Family(<<"a">>, "gauge", Plain("gauge", 1)) IN
    [bytes : {0, 1, 5}, utf8 : BOOLEAN, version : {1, 2},
     json : {"ok", "broken", "duplicate_key", "duplicate_label", "other_members", "no_families"},
     families : {<<good>>, <<[good EXCEPT !.help = "long"]>>, <<[good EXCEPT !.shape = "other"]>>,
                 <<[good EXCEPT !.series[1].shape = "other"]>>}]

MCDocuments ==
  Broken \cup {Document(f) : f \in {<<>>} \cup OneFamily \cup TwoFamilies}

----------------------------------------------------------------------------
(* Declarations and operations *)

Descriptor(name, type, labels, buckets) ==
  [name |-> name, help |-> "v", type |-> type, labels |-> labels, buckets |-> buckets]

MCDescriptors ==
  {Descriptor(<<"a">>, "counter", <<"x">>, <<>>),
   Descriptor(<<"a">>, "gauge", <<"x">>, <<>>),
   Descriptor(<<"a", "_total">>, "gauge", <<>>, <<>>),
   Descriptor(<<"a", "_total">>, "counter", <<>>, <<>>),
   Descriptor(<<"h">>, "histogram", <<>>, <<0, PosInf>>),
   Descriptor(<<"h">>, "histogram", <<>>, <<PosInf, 0, PosInf>>),
   Descriptor(<<"h">>, "histogram", <<"le">>, <<PosInf>>),
   Descriptor(<<"h", "_sum">>, "gauge", <<>>, <<>>),
   Descriptor(<<"metricshell_">>, "gauge", <<>>, <<>>),
   Descriptor(<<"1">>, "gauge", <<"x", "x">>, <<>>),
   Descriptor(<<"b">>, "counter", <<>>, <<>>),
   Descriptor(<<"long">>, "gauge", <<>>, <<>>)}

NoLabels == [l \in {} |-> l]

Labels(v) == [l \in {"x"} |-> v]

Op(kind, name, labels, value) == [kind |-> kind, name |-> name, labels |-> labels, value |-> value]

MCOperations ==
  {Op("counter_initialize", <<"a">>, Labels("v"), 1),
   Op("counter_add", <<"a">>, Labels("v"), 2),
   Op("counter_add", <<"a">>, Labels("w"), -1),
   Op("counter_add", <<"a">>, Labels("w"), NaN),
   Op("counter_add", <<"a">>, Labels("w"), PosInf),
   Op("counter_add", <<"a">>, Labels("long"), 1),
   Op("gauge_set", <<"a">>, Labels("v"), NegInf),
   Op("gauge_set", <<"a", "_total">>, NoLabels, NaN),
   Op("gauge_set", <<"h", "_sum">>, NoLabels, 1),
   Op("histogram_observe", <<"h">>, NoLabels, 0),
   Op("histogram_observe", <<"h">>, NoLabels, 1),
   Op("histogram_observe", <<"h">>, NoLabels, NaN),
   Op("histogram_observe", <<"h">>, NoLabels, NegInf)}

----------------------------------------------------------------------------
(* Filters *)

Selector(kind, name) == [found |-> TRUE, kind |-> kind, name |-> name]

MCFilters ==
  {[include |-> <<>>, exclude |-> <<>>],
   [include |-> <<Selector("prefix", <<"a">>), Selector("prefix", <<"a">>)>>,
    exclude |-> <<Selector("name", <<"a", "_total">>), Selector("prefix", <<"metricshell_">>)>>],
   [include |-> <<Selector("regexp", <<"a">>)>>, exclude |-> <<>>],
   [include |-> <<>>, exclude |-> <<[Selector("name", <<"b">>) EXCEPT !.found = FALSE]>>]}
==============================================================================
