------------------------------- MODULE Startup -------------------------------
(***************************************************************************)
(* From the command line to the exit: a process parses its configuration   *)
(* (Configuration), and one that is accepted runs under the shutdown plan  *)
(* that configuration gives it (ShutdownBudget), as cli/run.go Run does.   *)
(***************************************************************************)
EXTENDS Configuration, ShutdownBudget

CONSTANTS
  Inputs,        \* the command lines and environments tried
  FollowedUnits  \* runs whose waits are longer are not followed to their end

VARIABLES
  input,  \* what the process was started with
  result, \* what Parse returned
  limit,  \* how many files the process may hold open
  host    \* "ready" once the endpoints are bound

startVars == <<input, result, limit, host, vars>>

Unparsed == Refused("unparsed")

Unit == 250
Units(milliseconds) == (milliseconds + Unit - 1) \div Unit

\* What the shutdown of the process uses: Config.Shutdown, the timeout of the
\* exposition server, and the timeout the close of the ingestion has.
BudgetConfig(c) ==
  [totalGrace |-> Units(c.total_grace), workloadTimeout |-> Units(c.workload_timeout),
   reserve |-> Units(c.reserve), deadline |-> Units(c.deadline),
   expositionWrite |-> Units(c.exposition_write_timeout),
   ingestionClose |-> IF c.mode = Word("snapshot") /\ c.ingestion_transport = Word("http")
                        THEN Units(c.http_write_timeout) ELSE 0]

\* Before Parse, whatever the process was started with.
Started ==
  /\ result = Unparsed /\ limit = 0 /\ host = "unbound"
  /\ config = BudgetConfig(Settled(options, <<>>))
  /\ now = 0 /\ phase = "running" /\ plan = NoPlan /\ until = 0 /\ repeated = FALSE /\ finalAt = 0

StartInit == input \in Inputs /\ Started

\* config.Parse; a refused configuration ends the process before a workload
\* is started (rejectConfiguration).
Configure ==
  /\ result = Unparsed
  /\ result' = Parse(input)
  /\ IF result'.error = "none"
       THEN config' = BudgetConfig(result'.settings) /\ UNCHANGED phase
       ELSE phase' = "exited" /\ UNCHANGED config
  /\ UNCHANGED <<input, limit, host, now, plan, until, repeated, finalAt>>

\* httpingest.ValidateListenAddress: the host is given, resolves, and every
\* address it resolves to is a loopback one.
ValidateListenAddress(address) == address = Word("loopback:port")

\* startConfiguredIngestion and startIngestion: the endpoint can be had, the
\* path of a file or of a socket of snapshots is absolute, and the address of
\* the HTTP ingestion is checked here, not by Parse.
startIngestion(c, free) ==
  /\ "ingestion" \in free
  /\ c.mode = Word("snapshot") =>
       CASE c.ingestion_transport = Word("file") -> c.snapshot_file_path = Path(TRUE)
         [] c.ingestion_transport = Word("unix") -> c.unix_socket_path = Path(TRUE)
         [] OTHER                                -> ValidateListenAddress(c.http_ingestion_listen)

nofileAvailable(soft, required) == soft >= required

\* What the process needs of its host, in the order it is asked for.
Prepare ==
  /\ result.error = "none" /\ host = "unbound"
  /\ LET c == result.settings
         required == RequiredNoFile(c)
     IN  \E soft \in {required - 1, required}, free \in SUBSET {"exposition", "ingestion"} :
           /\ limit' = soft
           /\ host' = CASE ~nofileAvailable(soft, required) -> "no_files"
                        [] "exposition" \notin free            -> "bind_failed"
                        [] ~startIngestion(c, free)            -> "bind_failed"
                        [] OTHER                               -> "ready"
  /\ IF host' = "ready" THEN UNCHANGED phase ELSE phase' = "exited"
  /\ UNCHANGED <<input, result, config, now, plan, until, repeated, finalAt>>

Followed == config.totalGrace <= FollowedUnits /\ config.expositionWrite <= FollowedUnits
              /\ config.ingestionClose <= FollowedUnits

Running(A) == host = "ready" /\ Followed /\ A /\ UNCHANGED <<input, result, limit, host>>

StartNext == Configure \/ Prepare \/ Running(Next)

StartSpec == StartInit /\ [][StartNext]_startVars

-----------------------------------------------------------------------------
Accepted == result.error = "none"

Mentioned(p) == p \in DOMAIN input.env \/ Occurrences(input, p) # <<>>

\* CLI > environment > compiled default.
Preferred(p) ==
  LET given == Occurrences(input, p) IN
    IF given # <<>> THEN Last(given).value ELSE input.env[p]

Mode      == IF Mentioned("mode") THEN Preferred("mode") ELSE Word("snapshot")
Transport == IF Mentioned("ingestion_transport") THEN Preferred("ingestion_transport") ELSE Word("unix")

\* The options some component reads in the mode and the transport.
Effective ==
  listOptions \cup DOMAIN modeOptions \cup DOMAIN shutdownOptions \cup DOMAIN expositionOptions
    \cup DOMAIN finalWaitOptions \cup DOMAIN limitOptions
    \cup IF Mode = Word("managed-registry") THEN DOMAIN managedOptions
         ELSE DOMAIN admissionOptions
                \cup CASE Transport = Word("file") -> DOMAIN fileOptions
                       [] Transport = Word("unix") -> DOMAIN socketOptions
                       [] OTHER                    -> DOMAIN httpOptions

\* The options that are only shown: /debug/config prints the level and the
\* selector switch, and the logger asks for neither.
ShownOnly == DOMAIN logOptions

\* Every option of an accepted configuration has the well-formed value the
\* precedence of the sources gives it: none is dropped by the parse function that should
\* have taken it, and none is overridden by a weaker source.  And every option
\* that is given is one a component of the selected mode and transport reads,
\* except the two of the log, which are only shown: hybrid ownership and
\* options of an inactive transport are refused wherever they are given
\* (bootstrap.go, the seven loops over the same arguments,
\* rejectInactiveTransportOptions; cli/run.go, the debug configuration).
EveryOptionCounts ==
  Accepted =>
    /\ \A p \in DOMAIN options :
         IF Mentioned(p)
           THEN /\ Grammatical(options[p].kind, Preferred(p))
                /\ result.settings[p] = Value(options[p].kind, Preferred(p))
           ELSE result.settings[p] = options[p].default
    /\ {p \in Properties : Mentioned(p)} \subseteq Effective \cup ShownOnly

\* What the components assume of their configuration is what Parse accepts:
\* the budget of the shutdown is valid, the core can execute something, a
\* final wait can be satisfied, and the largest snapshot there may be can be
\* sent in one transaction of the socket whatever the indices of its parts.
\* A process that got its endpoints has a descriptor for every scrape and
\* every connection or publication its limits admit at once, a path that does
\* not depend on its directory, a host to serve on, and HTTP ingestion on
\* loopback only (RequiredNoFile, startIngestion, ValidateListenAddress).
AcceptedIsUsable ==
  Accepted =>
    LET c == result.settings
        digits(i) == IF i < 10 THEN 1 ELSE IF i < 100 THEN 2 ELSE IF i < 1000 THEN 3 ELSE 4
        bytes(d) == LET left == c.socket_frame_bytes - (20 + 64 + 1 + d + 1 + 1)
                    IN  IF left > 0 THEN (left * 3) \div 4 ELSE 0
        served == c.concurrent_scrapes
                    + IF c.mode = Word("managed-registry") THEN c.managed_connections
                      ELSE IF c.ingestion_transport = Word("unix") THEN c.socket_connections
                      ELSE c.concurrent_ingestions
        indices(d) == Cardinality({i \in 0..(c.socket_parts - 1) : digits(i) = d})
    IN  /\ Validate(BudgetConfig(c))
        /\ c.concurrent_ingestions >= 1 /\ c.pending_ingestions >= 0
        /\ c.final_wait_required_scrapes >= 1
        /\ c.snapshot_bytes <= c.decoded_input_bytes
        /\ c.snapshot_bytes <= indices(1) * bytes(1) + indices(2) * bytes(2)
                                 + indices(3) * bytes(3) + indices(4) * bytes(4)
        /\ host = "ready" => /\ limit > served
                             /\ ~\E p \in {"snapshot_file_path", "unix_socket_path"} :
                                   Mentioned(p) /\ c[p] # Path(TRUE)
                             /\ c.exposition_listen # Word(":port")
                             /\ Mentioned("http_ingestion_listen") =>
                                  c.http_ingestion_listen = Word("loopback:port")
=============================================================================
