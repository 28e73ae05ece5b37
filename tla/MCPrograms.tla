------------------------------ MODULE MCPrograms -----------------------------
(* The inputs tried: every property at and just outside its bounds and in    *)
(* every malformed spelling, from each source and from both, in every mode   *)
(* and transport; the limits that depend on each other; the shutdown         *)
(* configurations whose processes are followed; and the command lines that   *)
(* are refused before any option is looked at.  For the release tool, a run   *)
(* for the release and one that differs from it in each argument.            *)
EXTENDS Programs

None == Word("absent")

Whole(kind, n) ==
  CASE kind = "bytes" -> IF n % MiB = 0 THEN Number(n \div MiB, "MiB") ELSE Number(n, "B")
    [] kind = "duration" -> IF n = 0 THEN Zero ELSE IF n % Second = 0 THEN Number(n \div Second, "s") ELSE Number(n, "ms")
    [] OTHER -> IF n = 0 THEN Zero ELSE Number(n, "")

Malformed(kind) ==
  CASE kind = "bytes"    -> {Zero, Padded(70000, "B"), Overflow("MiB"), Number(70000, "")}
    [] kind = "count"    -> {Zero, Padded(5, ""), Overflow(""), Number(5, "B")}
    [] kind = "nonneg"   -> {Padded(0, ""), Overflow(""), Number(5, "B")}
    [] kind = "duration" -> {Padded(2, "s"), Overflow("h"), Number(5, ""), Word("s")}
    [] kind = "octal"    -> {Number(660, ""), Padded(689, ""), Padded(7, "")}
    [] kind = "deadline" -> {Word("tomorrow")}
    [] kind = "bool"     -> {Word("yes")}
    [] OTHER             -> {Word("malformed")}

\* For a property without a range the values the code tells apart.
Sample(p) ==
  CASE p = "mode"                -> {Word("snapshot"), Word("managed-registry")}
    [] p = "ingestion_transport" -> {Word("file"), Word("unix"), Word("http"), Word("shm")}
    [] p = "final_wait_mode"     -> {Word("immediate"), Word("duration"), Word("scrapes")}
    [] p = "log_level"           -> {Word("debug")}
    [] p = "log_selector_values" -> {Word("true"), Word("false")}
    [] p = "deadline"            -> {Word(""), Instant(-1000), Instant(0), Instant(60 * Second)}
    [] p = "managed_socket_mode" -> {Padded(600, ""), Padded(660, ""), Padded(670, ""), Padded(666, ""), Padded(400, "")}
    [] p \in {"exposition_listen", "http_ingestion_listen"} ->
           {Word("loopback:port"), Word("host:port"), Word(":port")}
    [] OTHER                     -> {Path(TRUE), Path(FALSE)}

Values(p) ==
  LET row == options[p] IN
    Malformed(row.kind)
      \cup (IF row.high > 0
              THEN {Whole(row.kind, n) : n \in {m \in {row.low - 1, row.low, row.high, row.high + 1} : m >= 0}}
              ELSE Sample(p))

Arg(p, t) == [property |-> p, value |-> t]

Input(env, args) == [env |-> env, args |-> args, dangling |-> FALSE, retired |-> FALSE, command |-> "given"]

Contexts == {<<>>} \cup {<<Arg("ingestion_transport", Word(t))>> : t \in {"file", "http"}}
              \cup {<<Arg("mode", Word("managed-registry"))>>}

\* One source, in every context ...
OneSource ==
  UNION {{Input(<<>>, before \o <<Arg(p, t)>>) : before \in Contexts, t \in Values(p)}
           \cup {Input([q \in {p} |-> t], before) : before \in Contexts, t \in Values(p)} : p \in DOMAIN options}

\* ... and both, with a good and a malformed text each, the option repeated.
Pair(p) == {CHOOSE t \in Values(p) : Grammatical(options[p].kind, t), CHOOSE t \in Malformed(options[p].kind) : TRUE}

TwoSources ==
  UNION {{Input([q \in {p} |-> e], <<Arg(p, t), Arg(p, u)>>) : e, t, u \in Pair(p)} : p \in DOMAIN options}

Sizes ==
  {Input(<<>>, <<Arg("snapshot_bytes", a), Arg("decoded_input_bytes", b), Arg("socket_frame_bytes", f),
                 Arg("socket_parts", n)>>) :
     a \in {Number(64, "KiB"), Number(MiB + 1, "B"), Number(2, "MiB")}, b \in {Number(64, "KiB"), Number(2, "MiB")},
     f \in {Number(1, "KiB"), Number(9, "KiB")}, n \in {Number(9, ""), Number(94, ""), Number(1000, ""), Number(1024, "")}}

Shutdowns ==
  {Input(IF d = None THEN <<>> ELSE [deadline |-> d],
         <<Arg("total_grace", Number(t, "ms")), Arg("workload_timeout", IF w = 0 THEN Zero ELSE Number(w, "ms")),
           Arg("reserve", Number(r, "ms")), Arg("exposition_write_timeout", Number(1, "s"))>> \o http) :
     t \in {1000, 1500}, w \in {0, 250, 1000}, r \in {250, 750},
     d \in {None, Instant(500), Instant(1250)},
     http \in {<<>>, <<Arg("ingestion_transport", Word("http")), Arg("http_write_timeout", Number(500, "ms"))>>}}

Lists ==
  {Input(e, [i \in 1..n |-> Arg("metrics_include", Word(w))]) :
     e \in {<<>>, [metrics_include |-> <<Word("")>>], [metrics_exclude |-> <<Word("name:a"), Word("prefix:a")>>]},
     n \in 0..2, w \in {"name:a", "name:"}}

Shapes ==
  [env : {<<>>}, args : {<<>>, <<Arg("unknown", Zero)>>, <<Arg("series", Number(5, ""))>>},
   dangling : BOOLEAN, retired : BOOLEAN, command : {"nothing", "no_separator", "empty", "given"}]

MCInputs == OneSource \cup TwoSources \cup Sizes \cup Shutdowns \cup Lists \cup Shapes

MCConfigs == {BudgetConfig(Parse(i).settings) : i \in {j \in Shutdowns : Parse(j).error = "none"}}

-----------------------------------------------------------------------------
Good == [private |-> Key, public |-> Key, revision |-> Revision, modules |-> "complete", scan |-> "clean",
         templates |-> "pinned"]

MCRequests ==
  {Good, [Good EXCEPT !.private = "other", !.public = "other"], [Good EXCEPT !.public = "other"],
   [Good EXCEPT !.revision = "old"], [Good EXCEPT !.modules = "partial"], [Good EXCEPT !.modules = "none"],
   [Good EXCEPT !.scan = "finding"], [Good EXCEPT !.scan = "indented"], [Good EXCEPT !.scan = "overlong"],
   [Good EXCEPT !.templates = "unresolved"]}

Images(digest) == <<[key |-> "metricshell", digest |-> Digest], [key |-> "artifact", digest |-> digest],
                    [key |-> "example", digest |-> Digest]>>
Entry(name, digest) == [name |-> name, regular |-> TRUE, digest |-> digest]
Bundle(digest) ==
  [entries |-> <<Entry("root", ""), Entry("IMAGE_DIGEST", digest), Entry("cronjob.yaml", digest),
                 Entry("deployment.yaml", digest), Entry("job.yaml", digest), Entry("podmonitor.yaml", digest)>>,
   trailing |-> FALSE]

MCDeliveries ==
  {[oci |-> Images(Digest), bundle |-> Bundle(Digest)], [oci |-> Images("old"), bundle |-> Bundle(Digest)],
   [oci |-> Images(Digest) \o <<Images(Digest)[1]>>, bundle |-> Bundle(Digest)],
   [oci |-> Images(Digest), bundle |-> Bundle("old")],
   [oci |-> Images(Digest), bundle |-> [Bundle(Digest) EXCEPT !.trailing = TRUE]],
   [oci |-> Images(Digest), bundle |-> [Bundle(Digest) EXCEPT !.entries = Tail(Tail(@))]]}
=============================================================================
