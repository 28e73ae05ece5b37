------------------------------ MODULE Managed ------------------------------
(***************************************************************************)
(* Managed aggregation at run time:                                        *)
(*   implementation/internal/managedserver/server.go    connections        *)
(*   implementation/internal/managedprotocol/protocol.go  Handle           *)
(*   implementation/internal/managed/owner.go, registry.go                 *)
(*   implementation/internal/managedmaterialize/cache.go  Cache            *)
(*   implementation/internal/managedbridge/bridge.go      Bridge           *)
(*   implementation/internal/managedpublish/publisher.go  Publisher        *)
(*   implementation/internal/managedfinalize/finalizer.go Finalizer        *)
(*   implementation/internal/cli/run.go                   the wiring       *)
(*                                                                         *)
(* Each request arrives on a connection of its own and is served by its    *)
(* own goroutine, which queues the mutation for the one owner goroutine.   *)
(* The publisher goroutine installs the registry in the core from time to  *)
(* time; when the workload is gone the runtime closes admission, stops the *)
(* publisher, drains, freezes the registry and installs it a last time.    *)
(* A registry is the sequence of the requests that changed it; ManagedModel *)
(* says what a mutation does to the data.                                  *)
(***************************************************************************)
EXTENDS Integers, Sequences, FiniteSets, Functions

CONSTANTS
  Requests,       \* the requests clients send, one connection each
  QueueCapacity,  \* capacity of the channel Owner.queue
  Limits,         \* configurations: connections, the capacity of the channel
                  \* Server.connections, and core, how many changes fit in the core
  None            \* no request

ASSUME ManagedAssumption ==
  /\ IsFiniteSet(Requests)
  /\ QueueCapacity \in Nat \ {0}
  /\ Limits \subseteq [connections : Nat \ {0}, core : Nat]
  /\ None \notin Requests /\ "done" \notin Requests /\ None # "done"

VARIABLES
  conn,         \* conn[r]: where the goroutine serving r is
  answer,       \* answer[r]: the response r got, or is about to get
  expired,      \* the connections whose read deadline lies in the past
  admitting,    \* Server.admitting
  active,       \* the connections in Server.active and Server.wait, one slot each
  queue,        \* Owner.queue
  ownerClosed,  \* Owner.closed
  owner,        \* the request the owner goroutine took, None, or "done"
  result,       \* result[r]: the buffered channel ownerRequest.result
  commits,      \* the owner's commit counter
  log,          \* the contents of the registry
  generation,   \* Registry.generation
  frozen,       \* Registry.frozen
  cache,        \* Cache.cached
  bridge,       \* Bridge.hasInstalled, lastRegistry; who holds Bridge.mu
  core,         \* the contents of the core's active snapshot
  limit,        \* the configuration (an input)
  publisher,    \* where Publisher.run is
  cancelled,    \* the publisher's context was cancelled
  cli,          \* where cli.Run is
  freezeExpired,\* freezeContext is done
  stopped,      \* ingestionContext was cancelled
  final         \* the final snapshot, once CloseAndFreeze returned

serverVars   == <<conn, answer, expired, admitting, active>>
ownerVars    == <<queue, ownerClosed, owner, result, commits>>
registryVars == <<log, generation, frozen>>
bridgeVars   == <<cache, bridge, core, publisher, cancelled>>
cliVars      == <<cli, freezeExpired, stopped, final>>
vars == <<serverVars, ownerVars, registryVars, bridgeVars, limit, cliVars>>

----------------------------------------------------------------------------
(* Values *)

\* Owner results and protocol responses share this shape.  A result the
\* owner goroutine did not produce also carries the generation of the moment,
\* which nothing depends on: it is 0 here.
Response(o, g, c) == [outcome |-> o, generation |-> g, commit |-> c]

NoResponse == Response("none", 0, 0)

Outcomes ==
  {"none", "committed", "rejected", "late", "overloaded", "cancelled", "unknown",
   "closed", "protocol", "dropped"}

\* Outcomes that tell the client its mutation was not and will not be applied.
Refusals == {"rejected", "late", "overloaded", "cancelled", "closed", "protocol"}

Init ==
  /\ conn = [r \in Requests |-> "idle"]
  /\ answer = [r \in Requests |-> NoResponse]
  /\ expired = {}
  /\ admitting = TRUE
  /\ active = {}
  /\ queue = <<>>
  /\ ownerClosed = FALSE
  /\ owner = None
  /\ result = [r \in Requests |-> NoResponse]
  /\ commits = 0
  /\ log = <<>>
  /\ generation = 0
  /\ frozen = FALSE
  /\ cache = [present |-> FALSE, generation |-> 0, body |-> <<>>]
  /\ bridge = [holder |-> "free", installed |-> FALSE, lastRegistry |-> 0]
  /\ core = <<>>
  /\ limit \in Limits
  /\ publisher = "waiting"
  /\ cancelled = FALSE
  /\ cli = "running"
  /\ freezeExpired = FALSE
  /\ stopped = FALSE
  /\ final = [taken |-> FALSE, body |-> <<>>]

----------------------------------------------------------------------------
(* Server.Serve and serveConnection *)

\* The goroutine goes on to the end of serveConnection with this response.
Answer(r, response) ==
  /\ answer' = [answer EXCEPT ![r] = response]
  /\ conn' = [conn EXCEPT ![r] = "answered"]

\* The accept loop answers the connection itself: admission is closed, or
\* every connection slot is taken.  It goes on accepting after CloseAdmission;
\* Close, started by the end of ingestionContext, closes the listener.
Refuse(r) ==
  /\ conn[r] = "idle"
  /\ ~stopped
  /\ ~admitting \/ Cardinality(active) >= limit.connections
  /\ conn' = [conn EXCEPT ![r] = "done"]
  /\ answer' = [answer EXCEPT ![r] =
                  Response(IF admitting THEN "overloaded" ELSE "closed", 0, 0)]
  /\ UNCHANGED <<expired, admitting, active, ownerVars, registryVars, bridgeVars,
                 limit, cliVars>>

Accept(r) ==
  /\ conn[r] = "idle"
  /\ ~stopped
  /\ admitting
  /\ Cardinality(active) < limit.connections
  /\ conn' = [conn EXCEPT ![r] = "accepted"]
  /\ active' = active \cup {r}
  /\ UNCHANGED <<answer, expired, admitting, ownerVars, registryVars, bridgeVars, limit,
                 cliVars>>

SetReadDeadline(r) ==
  /\ conn[r] = "accepted"
  /\ conn' = [conn EXCEPT ![r] = "reading"]
  /\ expired' = IF admitting THEN expired \ {r} ELSE expired \cup {r}
  /\ UNCHANGED <<answer, admitting, active, ownerVars, registryVars, bridgeVars,
                 limit, cliVars>>

\* A complete frame arrives before the deadline.
ReadFrame(r) ==
  /\ conn[r] = "reading"
  /\ r \notin expired
  /\ conn' = [conn EXCEPT ![r] = "read"]
  /\ UNCHANGED <<answer, expired, admitting, active, ownerVars, registryVars,
                 bridgeVars, limit, cliVars>>

\* The frame is partial, too large or followed by another; or the deadline
\* passes, and the connection is closed without a response.
ReadFails(r) ==
  /\ conn[r] = "reading"
  /\ \E o \in {"protocol", "dropped"} :
       /\ o = "protocol" => r \notin expired
       /\ Answer(r, Response(o, 0, 0))
  /\ UNCHANGED <<expired, admitting, active, ownerVars, registryVars, bridgeVars,
                 limit, cliVars>>

HandleFrame(r) ==
  /\ conn[r] = "read"
  /\ \/ /\ ~admitting
        /\ Answer(r, Response("closed", 0, 0))
     \/ /\ admitting
        /\ Answer(r, Response("protocol", 0, 0))  \* ParseFrame rejects
     \/ /\ admitting
        /\ conn' = [conn EXCEPT ![r] = "submitting"]
        /\ UNCHANGED answer
  /\ UNCHANGED <<expired, admitting, active, ownerVars, registryVars, bridgeVars,
                 limit, cliVars>>

----------------------------------------------------------------------------
(* Owner.Submit; the self-metrics around it are in SelfMetrics *)

\* Owner.Submit returns without queueing the mutation.
SubmitDeclines(r) ==
  /\ conn[r] = "submitting"
  /\ \/ stopped /\ Answer(r, Response("cancelled", 0, 0))
     \/ ~stopped /\ ownerClosed /\ Answer(r, Response("closed", 0, 0))
     \/ /\ ~stopped /\ ~ownerClosed /\ Len(queue) >= QueueCapacity
        /\ Answer(r, Response("overloaded", 0, 0))
  /\ UNCHANGED <<expired, admitting, active, ownerVars, registryVars, bridgeVars,
                 limit, cliVars>>

Submit(r) ==
  /\ conn[r] = "submitting"
  /\ ~stopped
  /\ ~ownerClosed
  /\ Len(queue) < QueueCapacity
  /\ queue' = Append(queue, r)
  /\ conn' = [conn EXCEPT ![r] = "queued"]
  /\ UNCHANGED <<answer, expired, admitting, active, ownerClosed, owner, result,
                 commits, registryVars, bridgeVars, limit, cliVars>>

\* Variant: a cancelled wait is reported as if nothing had been queued.
AwaitCancelled(r) ==
  /\ conn[r] = "queued"
  /\ \/ result[r] # NoResponse /\ Answer(r, result[r])
     \/ stopped /\ Answer(r, Response("cancelled", 0, 0))
  /\ UNCHANGED <<expired, admitting, active, ownerVars, registryVars, bridgeVars,
                 limit, cliVars>>

\* The select may take either branch when both are ready.
Await(r) ==
  /\ conn[r] = "queued"
  /\ \/ result[r] # NoResponse /\ Answer(r, result[r])
     \/ stopped /\ Answer(r, Response("unknown", 0, 0))
  /\ UNCHANGED <<expired, admitting, active, ownerVars, registryVars, bridgeVars,
                 limit, cliVars>>

\* Variant: a path through the deferred function that keeps the connection.
LeaveWithoutDone(r) ==
  /\ conn[r] = "answered"
  /\ conn' = [conn EXCEPT ![r] = "done"]
  /\ UNCHANGED <<answer, expired, admitting, active, ownerVars, registryVars, bridgeVars,
                 limit, cliVars>>

\* The response is written, or the write fails: the server takes no notice.
\* The deferred function closes the connection, gives its slot back and
\* leaves the WaitGroup.
Leave(r) ==
  /\ conn[r] = "answered"
  /\ conn' = [conn EXCEPT ![r] = "done"]
  /\ active' = active \ {r}
  /\ UNCHANGED <<answer, expired, admitting, ownerVars, registryVars, bridgeVars, limit,
                 cliVars>>

----------------------------------------------------------------------------
(* Owner.run and the registry *)

OwnerTakes ==
  /\ owner = None
  /\ queue # <<>>
  /\ owner' = Head(queue)
  /\ queue' = Tail(queue)
  /\ UNCHANGED <<serverVars, ownerClosed, result, commits, registryVars, bridgeVars,
                 limit, cliVars>>

OwnerEnds ==
  /\ owner = None
  /\ queue = <<>>
  /\ ownerClosed
  /\ owner' = "done"
  /\ UNCHANGED <<serverVars, queue, ownerClosed, result, commits, registryVars,
                 bridgeVars, limit, cliVars>>

\* The owner answers the request it holds and goes back to the queue.
OwnerReplies(response) ==
  /\ result' = [result EXCEPT ![owner] = response]
  /\ owner' = None
  /\ UNCHANGED <<serverVars, queue, ownerClosed, frozen, bridgeVars, limit, cliVars>>

\* Variant: a committed declaration that leaves the generation alone.
CommitChangeSilently ==
  /\ owner \in Requests
  /\ ~frozen
  /\ log' = Append(log, owner)
  /\ commits' = commits + 1
  /\ OwnerReplies(Response("committed", generation, commits + 1))
  /\ UNCHANGED generation

\* Variant: the registry does not look at frozen.
CommitChangeLate ==
  /\ owner \in Requests
  /\ log' = Append(log, owner)
  /\ generation' = generation + 1
  /\ commits' = commits + 1
  /\ OwnerReplies(Response("committed", generation + 1, commits + 1))

\* A declaration of a new family, or an operation: the registry changes.
CommitChange ==
  /\ owner \in Requests
  /\ ~frozen
  /\ log' = Append(log, owner)
  /\ generation' = generation + 1
  /\ commits' = commits + 1
  /\ OwnerReplies(Response("committed", generation + 1, commits + 1))

\* An identical declaration: committed, and nothing changes.
CommitNoChange ==
  /\ owner \in Requests
  /\ ~frozen
  /\ commits' = commits + 1
  /\ OwnerReplies(Response("committed", generation, commits + 1))
  /\ UNCHANGED <<log, generation>>

RejectMutation ==
  /\ owner \in Requests
  /\ OwnerReplies(Response(IF frozen THEN "late" ELSE "rejected", generation, 0))
  /\ UNCHANGED <<log, generation, commits>>

----------------------------------------------------------------------------
(* Bridge.Install, called by the publisher and by the finalizer *)

\* Install under Bridge.mu: Materialize reads the registry and refreshes the
\* cache when its generation differs.
Materialize(caller) ==
  /\ bridge.holder = "free"
  /\ bridge' = [bridge EXCEPT !.holder = caller]
  /\ cache' = IF cache.present /\ cache.generation = generation
              THEN cache
              ELSE [present |-> TRUE, generation |-> generation, body |-> log]

\* The generation was installed before: the earlier result is returned.
Reuses == bridge.installed /\ bridge.lastRegistry = cache.generation

\* Variant: a bridge that has installed once installs no more.
InstallOutcomeOnce(expiredContext, outcome) ==
  \/ bridge.installed /\ outcome = "accepted" /\ UNCHANGED core
  \/ ~bridge.installed /\ expiredContext /\ outcome = "timeout" /\ UNCHANGED core
  \/ /\ ~bridge.installed /\ ~expiredContext
     /\ outcome = IF Len(cache.body) <= limit.core THEN "accepted" ELSE "rejected"
     /\ core' = IF outcome = "accepted" THEN cache.body ELSE core

\* Core.Publish: a context that is done times out; a candidate beyond the
\* limits of the core is rejected.
InstallOutcome(expiredContext, outcome) ==
  \/ Reuses /\ outcome = "accepted" /\ UNCHANGED core
  \/ ~Reuses /\ expiredContext /\ outcome = "timeout" /\ UNCHANGED core
  \/ /\ ~Reuses /\ ~expiredContext
     /\ outcome = IF Len(cache.body) <= limit.core THEN "accepted" ELSE "rejected"
     /\ core' = IF outcome = "accepted" THEN cache.body ELSE core

\* Install returns and gives Bridge.mu back.
Installed(outcome) ==
  bridge' = IF outcome = "accepted"
            THEN [holder |-> "free", installed |-> TRUE, lastRegistry |-> cache.generation]
            ELSE [bridge EXCEPT !.holder = "free"]

\* Publisher.run: a tick starts an installation.
Tick ==
  /\ publisher = "waiting"
  /\ publisher' = "installing"
  /\ Materialize("publisher")
  /\ UNCHANGED <<serverVars, ownerVars, registryVars, core, cancelled, limit, cliVars>>

Publish ==
  /\ publisher = "installing"
  /\ publisher' = "waiting"
  /\ \E o \in {"accepted", "rejected", "timeout"} :
       InstallOutcome(cancelled, o) /\ Installed(o)
  /\ UNCHANGED <<serverVars, ownerVars, registryVars, cache, cancelled, limit, cliVars>>

PublisherEnds ==
  /\ publisher = "waiting"
  /\ cancelled
  /\ publisher' = "done"
  /\ UNCHANGED <<serverVars, ownerVars, registryVars, cache, bridge, core, cancelled,
                 limit, cliVars>>

----------------------------------------------------------------------------
(* cli.Run *)

\* PrimaryExited or Shutdown: ingestionControl.CloseAdmission closes the
\* server first ...
CloseServerAdmission ==
  /\ cli = "running"
  /\ cli' = "closing"
  /\ admitting' = FALSE
  /\ expired' = expired \cup active
  /\ UNCHANGED <<conn, answer, active, ownerVars, registryVars, bridgeVars, limit,
                 freezeExpired, stopped, final>>

\* ... and the owner after it.
CloseOwnerAdmission ==
  /\ cli = "closing"
  /\ cli' = "closed"
  /\ ownerClosed' = TRUE
  /\ UNCHANGED <<serverVars, queue, owner, result, commits, registryVars, bridgeVars,
                 limit, freezeExpired, stopped, final>>

\* The runtime fails (a diagnostic cannot be written, a callback errs), and
\* workload.Run has returned: cli.Run returns without finalization.
Abort ==
  /\ cli \in {"running", "closed"}
  /\ cli' = "failed"
  /\ UNCHANGED <<serverVars, ownerVars, registryVars, bridgeVars, limit, freezeExpired,
                 stopped, final>>

\* Every child is reaped and workload.Run has returned; freezeContext starts
\* and Publisher.Stop cancels.
BeginFinalization ==
  /\ cli = "closed"
  /\ cli' = "stopping"
  /\ cancelled' = TRUE
  /\ UNCHANGED <<serverVars, ownerVars, registryVars, cache, bridge, core, publisher,
                 limit, freezeExpired, stopped, final>>

FreezeContextExpires ==
  /\ cli \in {"stopping", "draining_server", "draining_owner", "freezing", "installing",
              "publishing"}
  /\ ~freezeExpired
  /\ freezeExpired' = TRUE
  /\ UNCHANGED <<serverVars, ownerVars, registryVars, bridgeVars, limit, cli, stopped,
                 final>>

\* cli.Run moves to another place and changes nothing else.
Advance(from, to) ==
  /\ cli = from
  /\ cli' = to
  /\ UNCHANGED <<serverVars, ownerVars, registryVars, bridgeVars, limit, freezeExpired,
                 stopped, final>>

PublisherStopped == publisher = "done" /\ Advance("stopping", "draining_server")

PublisherStopFails == freezeExpired /\ Advance("stopping", "failed")

ServerDrained == active = {} /\ Advance("draining_server", "draining_owner")

OwnerDrained == owner = "done" /\ Advance("draining_owner", "freezing")

\* The budget is gone: the drain is given up and its result ignored.
DrainGivenUp ==
  /\ freezeExpired
  /\ Advance("draining_server", "freezing") \/ Advance("draining_owner", "freezing")

\* Finalizer.FreezeAndInstall: the registry is frozen ...
FreezeRegistry ==
  /\ cli = "freezing"
  /\ cli' = "installing"
  /\ frozen' = TRUE
  /\ UNCHANGED <<serverVars, ownerVars, log, generation, bridgeVars, limit, freezeExpired,
                 stopped, final>>

\* ... materialized ...
FinalMaterialize ==
  /\ cli = "installing"
  /\ cli' = "publishing"
  /\ Materialize("finalizer")
  /\ UNCHANGED <<serverVars, ownerVars, registryVars, core, publisher, cancelled, limit,
                 freezeExpired, stopped, final>>

\* ... and offered to the core.  Anything but an acceptance is a failure.
FinalInstall ==
  /\ cli = "publishing"
  /\ \E o \in {"accepted", "rejected", "timeout"} :
       /\ InstallOutcome(freezeExpired, o)
       /\ Installed(o)
       /\ cli' = IF o = "accepted" THEN "installed" ELSE "failed"
  /\ UNCHANGED <<serverVars, ownerVars, registryVars, cache, publisher, cancelled, limit,
                 freezeExpired, stopped, final>>

\* core.CloseAndFreeze, then final wait: what is exposed changes no more.
FreezeCore ==
  /\ cli = "installed"
  /\ cli' = "serving"
  /\ final' = [taken |-> TRUE, body |-> core]
  /\ UNCHANGED <<serverVars, ownerVars, registryVars, bridgeVars, limit, freezeExpired,
                 stopped>>

\* The deferred calls: stopIngestion cancels the context of every connection
\* and of the publisher; Server.Close closes admission and the listener ...
StopIngestion ==
  /\ cli \in {"serving", "failed"}
  /\ cli' = "stopped"
  /\ stopped' = TRUE
  /\ cancelled' = TRUE
  /\ admitting' = FALSE
  /\ expired' = IF admitting THEN expired \cup active ELSE expired
  /\ UNCHANGED <<conn, answer, active, ownerVars, registryVars, cache, bridge, core,
                 publisher, limit, freezeExpired, final>>

\* ... and waits for the connections; Owner.Close closes the owner ...
ServerClosed ==
  /\ cli = "stopped"
  /\ active = {}
  /\ cli' = "closing_owner"
  /\ ownerClosed' = TRUE
  /\ UNCHANGED <<serverVars, queue, owner, result, commits, registryVars, bridgeVars,
                 limit, freezeExpired, stopped, final>>

\* ... and waits for its goroutine.
OwnerClosed == owner = "done" /\ Advance("closing_owner", "exited")

Exited == cli = "exited" /\ UNCHANGED vars

----------------------------------------------------------------------------

Serve(r) ==
  \/ SetReadDeadline(r)
  \/ ReadFails(r)
  \/ HandleFrame(r)
  \/ SubmitDeclines(r)
  \/ Submit(r)
  \/ Await(r)
  \/ Leave(r)

OwnerStep == OwnerTakes \/ OwnerEnds \/ CommitChange \/ CommitNoChange \/ RejectMutation

PublisherStep == Publish \/ PublisherEnds

Finalization ==
  \/ CloseOwnerAdmission
  \/ PublisherStopped
  \/ PublisherStopFails
  \/ ServerDrained
  \/ OwnerDrained
  \/ DrainGivenUp
  \/ FreezeRegistry
  \/ FinalMaterialize
  \/ FinalInstall
  \/ FreezeCore
  \/ StopIngestion
  \/ ServerClosed
  \/ OwnerClosed

\* Once the process is gone nothing runs.
Next ==
  \/ /\ cli # "exited"
     /\ \/ \E r \in Requests : Refuse(r) \/ Accept(r) \/ ReadFrame(r) \/ Serve(r)
        \/ OwnerStep
        \/ Tick
        \/ PublisherStep
        \/ CloseServerAdmission
        \/ Abort
        \/ BeginFinalization
        \/ FreezeContextExpires
        \/ Finalization
  \/ Exited

Spec == Init /\ [][Next]_vars

\* Goroutines the scheduler runs: every step a goroutine can take by itself.
\* The clients (Accept, Refuse, ReadFrame) and the workload's exit are not
\* assumed, nor that its descendants end: workload.Run waits for the last of
\* them without a timer (BeginFinalization).  The read deadline lets ReadFails
\* happen on its own, freezeContext has a deadline, and final wait is finite.
FairSpec ==
  /\ Spec
  /\ \A r \in Requests : WF_vars(cli # "exited" /\ Serve(r))
  /\ WF_vars(cli # "exited" /\ OwnerStep)
  /\ WF_vars(cli # "exited" /\ PublisherEnds)
  /\ WF_vars(cli # "exited" /\ Publish)
  /\ WF_vars(cli # "exited" /\ Finalization)
  /\ WF_vars(FreezeContextExpires)

----------------------------------------------------------------------------
(* Properties *)

\* A response tells the truth for good: a request answered "committed" was
\* committed by the owner, and one refused (rejected, late, overloaded,
\* cancelled, closed, protocol) is not in the registry, is in no queue and
\* so can never reach it.  Only "unknown" leaves it open.  The commit numbers
\* number the committed requests without gap, and the generation in a response
\* is the number of changes committed up to it (owner.go Submit and run,
\* registry.go Apply).
AnswersAreHonest ==
  /\ \A r \in Requests :
       /\ answer[r].outcome = "committed" => result[r].outcome = "committed"
       /\ answer[r].outcome \in Refusals =>
            r \notin Range(log) /\ r \notin Range(queue) /\ owner # r
  /\ LET committed == {r \in Requests : result[r].outcome = "committed"} IN
       /\ {result[r].commit : r \in committed} = 1..Cardinality(committed)
       /\ \A r \in committed :
            result[r].generation =
              Cardinality({s \in committed : s \in Range(log) /\ result[s].commit <= result[r].commit})

\* When finalization succeeds, the final snapshot is the whole registry:
\* everything ever answered "committed" is exposed, also what is answered
\* after the freeze (finalizer.go FreezeAndInstall, bridge.go Install).
FinalSnapshotIsComplete ==
  final.taken =>
    /\ final.body = log
    /\ \A r \in Requests :
         answer[r].outcome = "committed" /\ answer[r].generation > 0 =>
           Len(final.body) >= answer[r].generation

\* The generation the bridge remembers names what the core exposes, and a
\* cached representation is the registry of its generation: neither reuse
\* can hide a change (bridge.go Install, cache.go Materialize).
ReuseIsSound ==
  /\ bridge.installed => core = SubSeq(log, 1, bridge.lastRegistry)
  /\ cache.present => cache.body = SubSeq(log, 1, cache.generation)

Log == INSTANCE ManagedLog WITH exposed <- core, sealed <- final.taken

\* Server, owner, registry, publisher, bridge and finalizer together are one
\* log of which the endpoint exposes a growing prefix and in the end all.
ImplementsLog == Log!Spec

\* Once the last child is reaped, or the runtime gives up, the process ends: no
\* client, no full queue and no running publication holds it (publisher.go
\* Stop, server.go Drain and Close, owner.go Drain and Close).
FinalizationEnds == (cli \in {"stopping", "failed"}) ~> (cli = "exited")
=============================================================================
