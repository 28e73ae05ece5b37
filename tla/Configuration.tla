---------------------------- MODULE Configuration ----------------------------
(***************************************************************************)
(* How the command line and the environment become a configuration:        *)
(*   implementation/internal/config/bootstrap.go         Parse and parse*  *)
(*   implementation/internal/{shutdown,finalwait,exposition,managed}       *)
(*                                        the defaults and Validate of each *)
(*                                                                         *)
(* A text is what the value grammar tells apart: its form, its digits as a *)
(* number, and its unit or its word.  Durations are in milliseconds, and   *)
(* us and ns texts are whole milliseconds.  An input is the environment (a *)
(* function from the properties it sets), the options before the "--" in   *)
(* order (their "--x=v" and "--x v" spellings are one), whether the last   *)
(* of them lacks its value, and what follows.  A list of the environment   *)
(* is split already.  The arms of a CASE are the early returns of a        *)
(* function, tried in the order written.                                   *)
(***************************************************************************)
EXTENDS Integers, Sequences, FiniteSets, SequencesExt, TLC

KiB == 1024
MiB == 1024 * 1024
Second == 1000
Minute == 60 * Second
Hour   == 60 * Minute

-----------------------------------------------------------------------------
(* The value grammar: parseBytes, parseCount, parseNonNegativeCount,       *)
(* parseDuration, time.Parse, and the octal mode of a socket.              *)

Text(form, n, unit) == [form |-> form, n |-> n, unit |-> unit]
Number(n, unit)     == Text("number", n, unit)   \* digits without a leading zero
Zero                == Text("zero", 0, "")       \* "0"
Padded(n, unit)     == Text("padded", n, unit)   \* digits with a leading zero
Overflow(unit)      == Text("overflow", 0, unit) \* more digits than the type holds
Word(w)             == Text("word", 0, w)
Path(absolute)      == Text("path", IF absolute THEN 1 ELSE 0, "")
Instant(n)          == Text("instant", n, "")    \* RFC 3339, as an offset from the start

byteUnits     == [MiB |-> MiB, KiB |-> KiB, B |-> 1]
durationUnits == [ms |-> 1, s |-> Second, m |-> Minute, h |-> Hour]

parseBytes(t) == t.form = "number" /\ t.unit \in DOMAIN byteUnits
parseCount(t) == t.form = "number" /\ t.unit = ""
parseNonNegativeCount(t) == t = Zero \/ parseCount(t)
parseDuration(t) ==
  \/ t = Zero
  \/ t.form = "number" /\ t.unit \in DOMAIN durationUnits
  \/ t.form = "number" /\ t.unit \in {"us", "ns"}
parseMillis(t) ==
  CASE t = Zero        -> 0
    [] t.unit = "us"   -> t.n \div 1000
    [] t.unit = "ns"   -> t.n \div 1000000
    [] OTHER           -> t.n * durationUnits[t.unit]
parseSocketMode(t) ==
  /\ t.form = "padded" /\ t.unit = ""
  /\ \A d \in {t.n \div 100, (t.n \div 10) % 10, t.n % 10} : d \in 0..7
parseSelector(t) == t.form = "word" /\ t.unit \in {"name:a", "prefix:a"}

Grammatical(kind, t) ==
  CASE kind = "bytes"    -> parseBytes(t)
    [] kind = "count"    -> parseCount(t)
    [] kind = "nonneg"   -> parseNonNegativeCount(t)
    [] kind = "duration" -> parseDuration(t)
    [] kind = "octal"    -> parseSocketMode(t)
    [] kind = "deadline" -> t = Word("") \/ t.form = "instant"
    [] kind = "bool"     -> t \in {Word("true"), Word("false")}
    [] OTHER             -> TRUE

\* The value of a text of its kind; words, paths and addresses stand for
\* themselves.
Value(kind, t) ==
  CASE kind = "bytes"                            -> t.n * byteUnits[t.unit]
    [] kind \in {"count", "nonneg", "octal"}     -> t.n
    [] kind = "duration"                         -> parseMillis(t)
    [] kind = "deadline"                         -> t.n
    [] OTHER                                     -> t

-----------------------------------------------------------------------------
(* The properties, by the function that parses them: kind, default, range. *)

Row(kind, default, low, high) == [kind |-> kind, default |-> default, low |-> low, high |-> high]
Free(kind, default)           == Row(kind, default, 0, 0)

modeOptions == [mode |-> Free("word", Word("snapshot"))]

managedOptions ==
  [managed_queue_capacity       |-> Row("count", 64, 1, 1024),
   managed_publication_interval |-> Row("duration", Second, 10, Minute),
   managed_frame_bytes          |-> Row("bytes", 8 * KiB, KiB, 64 * KiB),
   managed_socket_path          |-> Free("path", Path(TRUE)),
   managed_socket_mode          |-> Free("octal", 660),
   managed_connections          |-> Row("count", 8, 1, 1024),
   managed_read_timeout         |-> Row("duration", 5 * Second, 100, Minute),
   managed_write_timeout        |-> Row("duration", 5 * Second, 100, Minute),
   managed_families             |-> Row("count", 1024, 1, 100000),
   managed_series               |-> Row("count", 10000, 1, 100000),
   managed_labels               |-> Row("nonneg", 8, 0, 64),
   managed_buckets              |-> Row("count", 64, 1, 1024),
   managed_metric_name_bytes    |-> Row("bytes", 256, 1, 1024),
   managed_label_name_bytes     |-> Row("bytes", 128, 1, 1024),
   managed_label_value_bytes    |-> Row("bytes", KiB, 1, 16 * KiB),
   managed_help_bytes           |-> Row("nonneg", 4 * KiB, 0, 64 * KiB)]

shutdownOptions ==
  [total_grace      |-> Row("duration", 30 * Second, Second, Hour),
   workload_timeout |-> Row("duration", 28 * Second, 0, Hour),
   reserve          |-> Row("duration", 2 * Second, 250, Minute),
   deadline         |-> Free("deadline", 0)]

expositionOptions ==
  [exposition_listen        |-> Free("address", Word("host:port")),
   response_bytes           |-> Row("bytes", 8 * MiB, 64 * KiB, 64 * MiB),
   concurrent_scrapes       |-> Row("count", 32, 1, 128),
   exposition_write_timeout |-> Row("duration", 30 * Second, Second, 2 * Minute)]

\* The two lists of selectors, which collect every occurrence.
listOptions == {"metrics_include", "metrics_exclude"}

finalWaitOptions ==
  [final_wait_mode             |-> Free("word", Word("scrapes")),
   final_wait_duration         |-> Row("duration", 30 * Second, 0, Hour),
   final_wait_timeout          |-> Row("duration", 60 * Second, Second, Hour),
   final_wait_required_scrapes |-> Row("count", 1, 1, 16),
   final_wait_completion_grace |-> Row("duration", 500, 0, 5 * Second)]

logOptions ==
  [log_level           |-> Free("word", Word("info")),
   log_selector_values |-> Free("bool", Word("false"))]

fileOptions ==
  [snapshot_file_path      |-> Free("path", Path(TRUE)),
   file_reconcile_interval |-> Row("duration", Second, 100, Second)]

socketOptions ==
  [unix_socket_path           |-> Free("path", Path(TRUE)),
   socket_frame_bytes         |-> Row("bytes", 8 * KiB, KiB, 64 * KiB),
   socket_parts               |-> Row("count", 256, 1, 1024),
   socket_connections         |-> Row("count", 8, 1, 64),
   socket_transactions        |-> Row("count", 4, 1, 32),
   socket_transaction_timeout |-> Row("duration", 5 * Second, 100, Minute),
   socket_read_timeout        |-> Row("duration", 5 * Second, 100, Minute),
   socket_write_timeout       |-> Row("duration", 5 * Second, 100, Minute)]

httpOptions ==
  [http_ingestion_listen     |-> Free("address", Word("loopback:port")),
   http_ingestion_wire_bytes |-> Row("bytes", 2 * MiB, 64 * KiB, 128 * MiB),
   http_read_header_timeout  |-> Row("duration", 2 * Second, 100, 30 * Second),
   http_read_timeout         |-> Row("duration", 10 * Second, 100, Minute),
   http_write_timeout        |-> Row("duration", 30 * Second, 100, 2 * Minute),
   http_idle_timeout         |-> Row("duration", 30 * Second, Second, 5 * Minute),
   http_max_header_bytes     |-> Row("bytes", 8 * KiB, KiB, 64 * KiB)]

admissionOptions ==
  [ingestion_transport   |-> Free("word", Word("unix")),
   concurrent_ingestions |-> Row("count", 4, 1, 64),
   pending_ingestions    |-> Row("nonneg", 0, 0, 64)]

limitOptions ==
  [snapshot_bytes      |-> Row("bytes", MiB, 64 * KiB, 64 * MiB),
   decoded_input_bytes |-> Row("bytes", 2 * MiB, 64 * KiB, 128 * MiB),
   series              |-> Row("count", 10000, 1, 100000),
   labels_per_series   |-> Row("nonneg", 8, 0, 64),
   metric_name_bytes   |-> Row("bytes", 256, 1, 1024),
   label_name_bytes    |-> Row("bytes", 128, 1, 1024),
   label_value_bytes   |-> Row("bytes", KiB, 1, 16 * KiB),
   help_bytes          |-> Row("nonneg", 4 * KiB, 0, 64 * KiB)]

ingestionOptions ==
  fileOptions @@ socketOptions @@ httpOptions @@ admissionOptions @@ limitOptions

\* The table options of the command line.
options ==
  modeOptions @@ managedOptions @@ shutdownOptions @@ expositionOptions @@ finalWaitOptions
    @@ logOptions @@ ingestionOptions

Properties == DOMAIN options \cup listOptions

-----------------------------------------------------------------------------
(* The values a parse function collects: the environment, then the options *)
(* it takes from the command line, the last occurrence of each.            *)

isSnapshotTransportProperty(p) ==
  p \in DOMAIN fileOptions \cup DOMAIN socketOptions \cup DOMAIN httpOptions \cup DOMAIN admissionOptions

\* A plausible slip: the switch that selects the ingestion options forgets
\* the limits.
isIngestionPropertyTransports(p) == isSnapshotTransportProperty(p)

isIngestionProperty(p) == isSnapshotTransportProperty(p) \/ p \in DOMAIN limitOptions

Occurrences(input, p) == SelectSeq(input.args, LAMBDA a : a.property = p)

Collected(input, table, Takes(_)) ==
  LET fromArgs == {p \in DOMAIN table : Takes(p) /\ Occurrences(input, p) # <<>>}
  IN  [p \in (DOMAIN table \cap DOMAIN input.env) \cup fromArgs |->
         IF p \in fromArgs THEN Last(Occurrences(input, p)).value ELSE input.env[p]]

Everything(p) == TRUE

\* The whole configuration of a table, once its texts are grammatical.
Settled(table, values) ==
  [p \in DOMAIN table |->
     IF p \in DOMAIN values THEN Value(table[p].kind, values[p]) ELSE table[p].default]

WellFormed(table, values) == \A p \in DOMAIN values : Grammatical(table[p].kind, values[p])

InRange(table, c) ==
  \A p \in DOMAIN table : table[p].high > 0 => c[p] \in table[p].low..table[p].high

-----------------------------------------------------------------------------
Verdict(error, settings) == [error |-> error, settings |-> settings]
Refused(error) == Verdict(error, <<>>)

parseMode(input) ==
  LET c == Settled(modeOptions, Collected(input, modeOptions, Everything)) IN
    CASE \E i \in DOMAIN input.args : input.args[i].property \notin Properties -> Refused("unknown_option")
      [] input.dangling -> Refused("value_required")
      [] c.mode \notin {Word("snapshot"), Word("managed-registry")} -> Refused("invalid_mode")
      [] OTHER -> Verdict("none", c)

\* Owner read and write, nobody's execute, nothing for others.
socketModeAllowed(m) == m \div 100 = 6 /\ ((m \div 10) % 10) % 2 = 0 /\ m % 10 = 0 /\ m <= 660

parseManaged(input, mode) ==
  LET values == Collected(input, managedOptions, Everything)
      c == Settled(managedOptions, values)
  IN
    CASE DOMAIN values # {} /\ mode # Word("managed-registry") -> Refused("managed_options")
      [] ~WellFormed(managedOptions, values) -> Refused("invalid_managed")
      [] ~InRange(managedOptions, c) \/ c.managed_socket_path # Path(TRUE)
           \/ ~socketModeAllowed(c.managed_socket_mode) -> Refused("invalid_managed")
      [] OTHER -> Verdict("none", c)

\* shutdown.Config.Validate at the start of the process.
shutdownValid(c, stated) ==
  /\ InRange(shutdownOptions, c)
  /\ c.workload_timeout <= c.total_grace - c.reserve
  /\ stated => c.deadline > 0

parseShutdown(input) ==
  LET values == Collected(input, shutdownOptions, Everything)
      c == Settled(shutdownOptions, values)
      stated == "deadline" \in DOMAIN values /\ values["deadline"] # Word("")
  IN
    CASE ~WellFormed(shutdownOptions, values) -> Refused("invalid_shutdown")
      [] ~shutdownValid(c, stated) -> Refused("invalid_shutdown")
      [] OTHER -> Verdict("none", c)

\* The lists: the occurrences on the command line replace those of the
\* environment.
Selectors(input, p) ==
  LET given == Occurrences(input, p) IN
    IF given # <<>> THEN [i \in DOMAIN given |-> given[i].value]
    ELSE IF p \in DOMAIN input.env THEN input.env[p] ELSE <<>>

parseExposition(input) ==
  LET values == Collected(input, expositionOptions, Everything)
      c == Settled(expositionOptions, values)
      lists == [p \in listOptions |-> Selectors(input, p)]
  IN
    CASE ~WellFormed(expositionOptions, values) -> Refused("invalid_exposition")
      [] ~InRange(expositionOptions, c) -> Refused("invalid_exposition")
      [] c.exposition_listen \notin {Word("host:port"), Word("loopback:port")} -> Refused("invalid_exposition")
      [] \E p \in listOptions : \E i \in DOMAIN lists[p] : ~parseSelector(lists[p][i]) -> Refused("invalid_selector")
      [] OTHER -> Verdict("none", c @@ lists)

parseFinalWait(input) ==
  LET values == Collected(input, finalWaitOptions, Everything)
      c == Settled(finalWaitOptions, values)
  IN
    CASE ~WellFormed(finalWaitOptions, values) -> Refused("invalid_final_wait")
      [] c.final_wait_mode \notin {Word(w) : w \in {"immediate", "duration", "scrapes"}}
           \/ ~InRange(finalWaitOptions, c) -> Refused("invalid_final_wait")
      [] OTHER -> Verdict("none", c)

parseLog(input) ==
  LET values == Collected(input, logOptions, Everything)
      c == Settled(logOptions, values)
  IN
    CASE ~WellFormed(logOptions, values) -> Refused("invalid_log")
      [] c.log_level \notin {Word("info"), Word("debug")} -> Refused("invalid_log")
      [] OTHER -> Verdict("none", c)

\* Parts 0..9 have an index of one digit, 10..99 of two, and so on.
effectiveSocketDecodedCapacity(frameBytes, parts) ==
  LET below(d)   == CASE d = 0 -> 0 [] d = 1 -> 10 [] d = 2 -> 100 [] d = 3 -> 1000 [] OTHER -> parts
      least(a, b) == IF a < b THEN a ELSE b
      count(d)   == least(parts, below(d)) - least(parts, below(d - 1))
      payload(d) == frameBytes - 20 - 64 - 1 - d - 1 - 1
      each(d)    == IF payload(d) > 0 THEN (payload(d) * 3) \div 4 ELSE 0
  IN  count(1) * each(1) + count(2) * each(2) + count(3) * each(3) + count(4) * each(4)

\* Options of a transport that is not the selected one; an unknown transport
\* has none here and is refused by the ranges.
rejectInactiveTransportOptions(transport, explicit) ==
  /\ transport \in {Word("file"), Word("unix"), Word("http")}
  /\ \/ transport # Word("file") /\ explicit \cap DOMAIN fileOptions # {}
     \/ transport # Word("unix") /\ explicit \cap DOMAIN socketOptions # {}
     \/ transport # Word("http") /\ explicit \cap DOMAIN httpOptions # {}

\* A plausible slip: the capacity of the socket is not compared.
ingestionValidNoCapacity(c) ==
  /\ c.ingestion_transport \in {Word("file"), Word("unix"), Word("http")}
  /\ InRange(ingestionOptions, c)
  /\ c.decoded_input_bytes >= c.snapshot_bytes

ingestionValid(c) ==
  /\ c.ingestion_transport \in {Word("file"), Word("unix"), Word("http")}
  /\ InRange(ingestionOptions, c)
  /\ c.decoded_input_bytes >= c.snapshot_bytes
  /\ effectiveSocketDecodedCapacity(c.socket_frame_bytes, c.socket_parts) >= c.snapshot_bytes

parseIngestion(input, mode) ==
  LET values == Collected(input, ingestionOptions, isIngestionProperty)
      explicit == DOMAIN values
      c == Settled(ingestionOptions, values)
  IN
    CASE ~WellFormed(ingestionOptions, values) -> Refused("invalid_ingestion")
      [] mode = Word("managed-registry") /\ \E p \in explicit : isSnapshotTransportProperty(p) ->
           Refused("snapshot_conflict")
      [] rejectInactiveTransportOptions(c.ingestion_transport, explicit) -> Refused("inactive_transport")
      [] ~ingestionValid(c) -> Refused("invalid_ingestion")
      [] OTHER -> Verdict("none", c)

-----------------------------------------------------------------------------
\* Variables of the environment that are refused whatever their value, and
\* transports that never existed.
refusedEnvironment(input) ==
  \/ input.retired
  \/ /\ "ingestion_transport" \in DOMAIN input.env
     /\ input.env["ingestion_transport"] \in {Word("mmap"), Word("shared_memory"), Word("shm")}

Parse(input) ==
  LET mode       == parseMode(input)
      managed    == parseManaged(input, mode.settings.mode)
      shutdown   == parseShutdown(input)
      exposition == parseExposition(input)
      finalWait  == parseFinalWait(input)
      log        == parseLog(input)
      ingestion  == parseIngestion(input, mode.settings.mode)
  IN
    CASE refusedEnvironment(input)          -> Refused("unknown_option")
      [] input.command = "nothing"          -> Refused("separator_required")
      [] input.command = "no_separator"     -> Refused("unknown_option")
      [] input.command = "empty"            -> Refused("command_required")
      [] mode.error # "none"                -> Refused(mode.error)
      [] managed.error # "none"             -> Refused(managed.error)
      [] shutdown.error # "none"            -> Refused(shutdown.error)
      [] exposition.error # "none"          -> Refused(exposition.error)
      [] finalWait.error # "none"           -> Refused(finalWait.error)
      [] log.error # "none"                 -> Refused(log.error)
      [] ingestion.error # "none"           -> Refused(ingestion.error)
      [] OTHER -> Verdict("none", mode.settings @@ managed.settings @@ shutdown.settings
                                    @@ exposition.settings @@ finalWait.settings @@ log.settings
                                    @@ ingestion.settings)

\* What the process may hold open at once, which the limit of the process
\* must allow (RequiredNoFile).
RequiredNoFile(c) ==
  16 + c.concurrent_scrapes
     + (IF c.mode = Word("snapshot") THEN c.concurrent_ingestions ELSE 0)
     + (IF c.mode = Word("snapshot") /\ c.ingestion_transport = Word("unix") THEN c.socket_connections ELSE 0)
     + (IF c.mode = Word("managed-registry") THEN c.managed_connections ELSE 0)
=============================================================================
