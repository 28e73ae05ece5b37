----------------------------- MODULE FileIngest -----------------------------
(***************************************************************************)
(* File ingestion:                                                         *)
(*   implementation/internal/fileingest/reconciler.go   Reconcile          *)
(*   implementation/internal/fileingest/watcher_linux.go  Run              *)
(*                                                                         *)
(* A producer renames complete files over the configured path, deletes the *)
(* file, and removes, moves and recreates its directory.  The kernel       *)
(* queues inotify events up to a bound.  One goroutine reconciles at       *)
(* startup, on events and on every tick; reading the file and publishing   *)
(* what was read are two steps.  A rename replaces the inode, so one read  *)
(* sees one complete file.                                                 *)
(***************************************************************************)
EXTENDS Integers, Sequences, FiniteSets, SequencesExt

CONSTANTS
  ValidFiles,    \* contents the core accepts
  InvalidFiles,  \* contents the core rejects
  Unreadable,    \* a symlink, no regular file, or one beyond the limit
  None,          \* no file, no hash, no candidate
  QueueLimit,    \* max_queued_events of the kernel
  MaxChanges,    \* changes the producer makes
  InotifyMayFail \* whether inotify_init1 and reading events can fail

ASSUME FileAssumption ==
  /\ QueueLimit \in Nat \ {0} /\ MaxChanges \in Nat /\ InotifyMayFail \in BOOLEAN
  /\ None \notin ValidFiles \cup InvalidFiles \cup Unreadable

VARIABLES
  file,        \* what is at the configured path
  directory,   \* there is a directory to hold it
  changes,     \* changes made so far
  queue,       \* the inotify events not read yet
  live,        \* the kernel watches the directory now at the path
  pc,          \* where Run is
  watch,       \* watch >= 0: Run believes that it has a watch
  due,         \* the calls of Reconcile still to make
  hash,        \* lastHash, or None without hasHash
  candidate,   \* the content that was read and is being published
  active,      \* what the core exposes, None before the first
  generation,  \* the core's generation
  admitting    \* the core admits publications

fsVars   == <<file, directory, changes, queue, live>>
runVars  == <<pc, watch, due, hash, candidate>>
coreVars == <<active, generation, admitting>>
vars     == <<fsVars, runVars, coreVars>>

Files == ValidFiles \cup InvalidFiles \cup Unreadable

Init ==
  /\ file \in Files \cup {None}
  /\ directory = TRUE
  /\ changes = 0
  /\ queue = <<>>
  /\ live = FALSE
  /\ pc = "startup"
  /\ watch = FALSE
  /\ due = 1
  /\ hash = None
  /\ candidate = None
  /\ active = None
  /\ generation = 0
  /\ admitting = TRUE

----------------------------------------------------------------------------
(* The producer and the kernel *)

\* At the limit the kernel drops the event and queues one overflow event.
Enqueue(q, event) ==
  CASE Len(q) < QueueLimit -> Append(q, event)
    [] "overflow" \in ToSet(q) -> q
    [] OTHER -> Append(q, "overflow")

Notify(events) == queue' = IF live THEN FoldLeft(Enqueue, queue, events) ELSE queue

Change == changes < MaxChanges /\ changes' = changes + 1

Rename(f) ==
  /\ directory /\ f # file
  /\ Change
  /\ file' = f
  /\ Notify(<<"target">>)
  /\ UNCHANGED <<directory, live, runVars, coreVars>>

Delete ==
  /\ file # None
  /\ Change
  /\ file' = None
  /\ Notify(<<"target">>)
  /\ UNCHANGED <<directory, live, runVars, coreVars>>

\* Temporary files in the directory cause events too.
Touch ==
  /\ directory
  /\ Change
  /\ Notify(<<"other">>)
  /\ UNCHANGED <<file, directory, live, runVars, coreVars>>

\* Removing the directory ends the watch; moving it takes the watch along.
LoseDirectory ==
  /\ directory
  /\ Change
  /\ \E events \in {<<"gone", "ignored">>, <<"gone">>} : Notify(events)
  /\ directory' = FALSE /\ file' = None /\ live' = FALSE
  /\ UNCHANGED <<runVars, coreVars>>

CreateDirectory ==
  /\ ~directory
  /\ Change
  /\ directory' = TRUE
  /\ UNCHANGED <<file, queue, live, runVars, coreVars>>

\* CloseAndFreeze: the core admits nothing any more.
CloseAdmission ==
  /\ admitting
  /\ admitting' = FALSE
  /\ UNCHANGED <<fsVars, runVars, active, generation>>

----------------------------------------------------------------------------
(* Reconcile *)

\* readRegular and the comparison of digests.
Read ==
  /\ pc \in {"startup", "loop"} /\ due > 0 /\ candidate = None
  /\ IF file \in ValidFiles \cup InvalidFiles /\ file # hash
     THEN candidate' = file /\ UNCHANGED due
     ELSE due' = due - 1 /\ UNCHANGED candidate
  /\ UNCHANGED <<pc, watch, hash, fsVars, coreVars>>

\* Variant: the digest is kept whatever the core answers.
PublishRemembers ==
  LET accepted == admitting /\ candidate \in ValidFiles IN
    /\ candidate # None
    /\ hash' = candidate
    /\ active' = IF accepted THEN candidate ELSE active
    /\ generation' = IF accepted THEN generation + 1 ELSE generation
    /\ candidate' = None
    /\ due' = due - 1
    /\ UNCHANGED <<pc, watch, fsVars, admitting>>

\* Core.Publish and what Reconcile does with its outcome.  Only an accepted
\* content is remembered; a rejected one is offered again on the next tick.
Publish ==
  LET accepted == admitting /\ candidate \in ValidFiles IN
    /\ candidate # None
    /\ hash' = IF accepted THEN candidate ELSE hash
    /\ active' = IF accepted THEN candidate ELSE active
    /\ generation' = IF accepted THEN generation + 1 ELSE generation
    /\ candidate' = None
    /\ due' = due - 1
    /\ UNCHANGED <<pc, watch, fsVars, admitting>>

----------------------------------------------------------------------------
(* Run *)

\* InotifyAddWatch on the directory; without one it fails.
install ==
  /\ watch' = (watch \/ directory)
  /\ live' = (live \/ (~watch /\ directory))

InotifyFails ==
  /\ pc = "startup" /\ due = 0 /\ InotifyMayFail
  /\ pc' = "returned"
  /\ UNCHANGED <<watch, due, hash, candidate, fsVars, coreVars>>

InotifyInit ==
  /\ pc = "startup" /\ due = 0
  /\ pc' = "loop"
  /\ install
  /\ UNCHANGED <<file, directory, changes, queue, due, hash, candidate, coreVars>>

\* Variant: a tick reconciles only when it has to reinstall the watch.
TickOnReinstall ==
  /\ pc = "loop" /\ due = 0
  /\ install
  /\ due' = IF ~watch /\ directory THEN 1 ELSE 0
  /\ UNCHANGED <<file, directory, changes, queue, pc, hash, candidate, coreVars>>

\* A tick reconciles, once more when it just reinstalled the watch.
Tick ==
  /\ pc = "loop" /\ due = 0
  /\ install
  /\ due' = IF ~watch /\ directory THEN 2 ELSE 1
  /\ UNCHANGED <<file, directory, changes, queue, pc, hash, candidate, coreVars>>

\* One event of the buffer.  An invalidation only forgets the watch.
HandleEvent ==
  /\ pc = "loop" /\ due = 0 /\ queue # <<>>
  /\ queue' = Tail(queue)
  /\ watch' = (watch /\ Head(queue) \notin {"gone", "ignored"})
  /\ due' = IF Head(queue) \in {"target", "overflow"} THEN 1 ELSE 0
  /\ UNCHANGED <<file, directory, changes, live, pc, hash, candidate, coreVars>>

\* Reading events fails, with another error than EAGAIN or EINTR.
ReadEventsFails ==
  /\ pc = "loop" /\ due = 0 /\ InotifyMayFail
  /\ pc' = "returned"
  /\ UNCHANGED <<watch, due, hash, candidate, fsVars, coreVars>>

\* The context is cancelled after the core was frozen.
Stop ==
  /\ pc = "loop" /\ due = 0 /\ ~admitting
  /\ pc' = "returned"
  /\ UNCHANGED <<watch, due, hash, candidate, fsVars, coreVars>>

Returned == pc = "returned" /\ UNCHANGED vars

Environment ==
  \/ \E f \in Files : Rename(f)
  \/ Delete \/ Touch \/ LoseDirectory \/ CreateDirectory \/ CloseAdmission

Run == Read \/ Publish \/ InotifyInit \/ HandleEvent \/ Stop

Next == Environment \/ Run \/ InotifyFails \/ ReadEventsFails \/ Tick \/ Returned

Spec == Init /\ [][Next]_vars

\* The goroutine keeps running.  A tick that is due is taken before events are
\* read, and between two ticks there is time to read the events.
FairSpec == Spec /\ WF_vars(Run) /\ SF_vars(Tick) /\ SF_vars(HandleEvent)

----------------------------------------------------------------------------
(* Properties *)

\* The digest that suppresses a publication is the one of what the core
\* exposes, so a skipped file is never one the core does not have: rejected,
\* late and outdated candidates leave both alone (reconciler.go Reconcile).
HashIsOfTheActive == hash = active

\* Whatever was lost, coalesced or reordered, the core converges to a valid
\* file that stays at the path while it admits publications and Run has not
\* returned (ADR-006, watcher_linux.go Run).
Convergence ==
  \A f \in ValidFiles : <>[](file = f /\ admitting /\ pc # "returned") => <>[](active = f)
=============================================================================
