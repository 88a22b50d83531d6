----------------------------- MODULE Invocation -----------------------------
(***************************************************************************)
(* The invocation pipeline of astools: astools_invoke_impl (invoke.c) with *)
(* the slot admission and the asynchronous task ownership of               *)
(* execution_queue.c, in the threaded build.                               *)
(*                                                                         *)
(* Every invocation runs on a thread of its own and walks through the      *)
(* pipeline one step at a time; hosts cancel, wait for and free the tasks  *)
(* concurrently; the registry is rescanned and the package on disk is      *)
(* replaced at any moment.  The tool itself (oneshot process, persistent   *)
(* process or in-process library) is abstracted to how its execution ends. *)
(* Time is abstracted to one flag per invocation: its deadline has passed. *)
(***************************************************************************)
EXTENDS Naturals, FiniteSets

CONSTANTS
    Inv,           \* the invocations, each with its own thread
    AsyncInv,      \* those started by astools_invoke_async (they have a task)
    MaxConcurrent, \* invocation.max_concurrent
    Content,       \* content identities (SHA-256) a package can have
    Approved,      \* the identities the lockfile records
    Selections,    \* identities a host may insist on, None for an unchecked call
    Enforce,       \* registry.pinning = "enforce"
    Kinds,         \* the kinds of tool invoked: oneshot, persistent, library
    MaxEdits,      \* bound: replacements of the package on disk
    None,          \* no content: package missing, no identity expected
    Blocked        \* a table entry that pinning keeps from resolving

ASSUME InvAssumption == IsFiniteSet(Inv) /\ AsyncInv \subseteq Inv
ASSUME MaxAssumption == MaxConcurrent \in Nat \ {0}
ASSUME ContentAssumption ==
    /\ Approved \subseteq Content
    /\ Selections \subseteq Content \cup {None}
    /\ None \notin Content /\ Blocked \notin Content /\ None # Blocked
    /\ Enforce \in BOOLEAN
ASSUME KindsAssumption == Kinds \subseteq {"oneshot", "persistent", "library"}
ASSUME EditsAssumption == MaxEdits \in Nat

VARIABLES
    pc,            \* where each invocation's thread is in astools_invoke_impl
    kind,          \* kind and mode of the resolved tool
    expected,      \* expected_sha256 of a checked invocation, else None
    sha,           \* content_sha256 of the descriptor held by the invocation
    cancelled,     \* task->cancelled
    expired,       \* astools_mono(c) >= deadline_mono
    have_slot,     \* the local have_slot
    waiting,       \* the local `waiting' of astools_slot_acquire
    verdict,       \* how the invocation ended (class of astools_err and ok)
    slots_used,    \* ctx->slots_used
    slots_waiting, \* ctx->slots_waiting
    stats,         \* ctx->stats
    audited,       \* invocations with a record in audit.xcdn
    task,          \* life of the asynchronous task object
    owners,        \* who holds pointers to the strings of the task's result
    disk,          \* the package's bytes on disk
    table,         \* the identity the registry resolves the ref to
    edits,         \* replacements of the package so far
    since          \* history: identities seen since admission

callVars == <<kind, expected, sha>>
signalVars == <<cancelled, expired>>
slotVars == <<have_slot, waiting, slots_used, slots_waiting>>
ledgerVars == <<stats, audited>>
taskVars == <<task, owners>>
worldVars == <<disk, table, edits>>
vars == <<pc, callVars, signalVars, slotVars, verdict, ledgerVars, taskVars,
          worldVars, since>>

Counters == {"ok", "failed", "denied", "timeouts", "cancelled"}
Verdicts == {"none", "ok", "toolerr", "denied", "timeout", "cancelled", "error"}
PCs == {"idle", "resolve", "prepare", "admit", "recheck", "verify", "snapshot",
        "gate", "run", "count", "audit", "release", "finish", "returned"}
Tasks == {"none", "live", "freeing", "freed"}

TypeOK ==
    /\ pc \in [Inv -> PCs]
    /\ kind \in [Inv -> Kinds \cup {"unknown"}]
    /\ expected \in [Inv -> Content \cup {None}]
    /\ sha \in [Inv -> Content \cup {None, Blocked}]
    /\ cancelled \in [Inv -> BOOLEAN]
    /\ expired \in [Inv -> BOOLEAN]
    /\ have_slot \in [Inv -> BOOLEAN]
    /\ waiting \in [Inv -> BOOLEAN]
    /\ verdict \in [Inv -> Verdicts]
    /\ slots_used \in Nat
    /\ slots_waiting \in Nat
    /\ stats \in [Counters \cup {"invocations"} -> Nat]
    /\ audited \subseteq Inv
    /\ task \in [Inv -> Tasks]
    /\ owners \in [Inv -> SUBSET {"task", "host"}]
    /\ disk \in Content \cup {None}
    /\ table \in Content \cup {None, Blocked}
    /\ edits \in 0..MaxEdits
    /\ since \in [Inv -> [disk : SUBSET (Content \cup {None}),
                          table : SUBSET (Content \cup {None, Blocked})]]

\* What a scan publishes for the bytes on disk: with pinning = "enforce" an
\* unapproved package stays in the table but does not resolve.
Published(bytes) ==
    IF bytes # None /\ Enforce /\ bytes \notin Approved THEN Blocked ELSE bytes

Init ==
    /\ pc = [i \in Inv |-> "idle"]
    /\ kind = [i \in Inv |-> "unknown"]
    /\ expected = [i \in Inv |-> None]
    /\ sha = [i \in Inv |-> None]
    /\ cancelled = [i \in Inv |-> FALSE]
    /\ expired = [i \in Inv |-> FALSE]
    /\ have_slot = [i \in Inv |-> FALSE]
    /\ waiting = [i \in Inv |-> FALSE]
    /\ verdict = [i \in Inv |-> "none"]
    /\ slots_used = 0
    /\ slots_waiting = 0
    /\ stats = [n \in Counters \cup {"invocations"} |-> 0]
    /\ audited = {}
    /\ task = [i \in Inv |-> "none"]
    /\ owners = [i \in Inv |-> {}]
    /\ disk \in Content
    /\ table = Published(disk)
    /\ edits = 0
    /\ since = [i \in Inv |-> [disk |-> {}, table |-> {}]]

-----------------------------------------------------------------------------
(* Starting, resolving and checking the call.                              *)

Goto(i, label) == pc' = [pc EXCEPT ![i] = label]

\* Leave the pipeline with an error or a result: the `done' label.
Done(i, v) ==
    /\ Goto(i, "count")
    /\ verdict' = [verdict EXCEPT ![i] = v]

\* Go on to the next step of the pipeline.
Proceed(i, label) ==
    /\ Goto(i, label)
    /\ UNCHANGED verdict

\* astools_invoke / astools_invoke_async[_checked]: the identity a checked
\* invocation expects is whatever the host selected earlier.
Start(i) ==
    /\ pc[i] = "idle"
    /\ Proceed(i, "resolve")
    /\ \E e \in Selections : expected' = [expected EXCEPT ![i] = e]
    /\ task' = [task EXCEPT ![i] = IF i \in AsyncInv THEN "live" ELSE "none"]
    /\ UNCHANGED <<kind, sha, signalVars, slotVars, ledgerVars, owners,
                   worldVars, since>>

\* How astools_registry_resolve fails for a table entry that does not resolve.
Unresolved(entry) == IF entry = Blocked THEN "denied" ELSE "error"

\* Step 1.  An unresolvable ref leaves by cleanup_early, neither counted nor
\* audited; a descriptor other than the selected one is denied.
Resolve(i) ==
    /\ pc[i] = "resolve"
    /\ sha' = [sha EXCEPT ![i] = table]
    /\ \/ /\ table \notin Content
          /\ Goto(i, "release")
          /\ verdict' = [verdict EXCEPT ![i] = Unresolved(table)]
          /\ UNCHANGED kind
       \/ /\ table \in Content
          /\ \E k \in Kinds : kind' = [kind EXCEPT ![i] = k]
          /\ \/ expected[i] \in {None, table} /\ Proceed(i, "prepare")
             \/ expected[i] \notin {None, table} /\ Done(i, "denied")
    /\ UNCHANGED <<expected, signalVars, slotVars, ledgerVars, taskVars,
                   worldVars, since>>

\* Steps 1-3: command lookup, argument parsing and validation, policy
\* pre-flight.  They read only the held descriptor, the arguments and the
\* configuration.
Prepare(i) ==
    /\ pc[i] = "prepare"
    /\ \/ Proceed(i, "admit")
       \/ \E v \in {"error", "denied"} : Done(i, v)
    /\ UNCHANGED <<callVars, signalVars, slotVars, ledgerVars, taskVars,
                   worldVars, since>>

-----------------------------------------------------------------------------
(* astools_slot_acquire: one action per way an iteration of its loop ends. *)
(* An iteration runs under slot_mu; a waiter re-evaluates it whenever it   *)
(* is signalled and at least every 50 ms.                                  *)

\* Fault: the waiter count drops although this call never waited.
StopWaitingAlways(i) ==
    /\ waiting' = [waiting EXCEPT ![i] = FALSE]
    /\ slots_waiting' = slots_waiting - 1

StopWaiting(i) ==
    /\ waiting' = [waiting EXCEPT ![i] = FALSE]
    /\ slots_waiting' = IF waiting[i] THEN slots_waiting - 1 ELSE slots_waiting

\* Fault: off by one at the limit.
HasRoomOffByOne == slots_used <= MaxConcurrent

HasRoom == slots_used < MaxConcurrent

\* Fault: the loop re-reads the flag only after a slot has become free.
AdmitCancelledWhenRoom(i) ==
    /\ pc[i] = "admit"
    /\ cancelled[i]
    /\ HasRoom
    /\ StopWaiting(i)
    /\ Done(i, "cancelled")
    /\ UNCHANGED <<callVars, signalVars, have_slot, slots_used, ledgerVars,
                   taskVars, worldVars, since>>

AdmitCancelled(i) ==
    /\ pc[i] = "admit"
    /\ cancelled[i]
    /\ StopWaiting(i)
    /\ Done(i, "cancelled")
    /\ UNCHANGED <<callVars, signalVars, have_slot, slots_used, ledgerVars,
                   taskVars, worldVars, since>>

\* Fault: an untimed wait, the deadline is seen only after a signal.
AdmitTimeoutWhenRoom(i) ==
    /\ pc[i] = "admit"
    /\ ~cancelled[i]
    /\ expired[i]
    /\ HasRoom
    /\ StopWaiting(i)
    /\ Done(i, "timeout")
    /\ UNCHANGED <<callVars, signalVars, have_slot, slots_used, ledgerVars,
                   taskVars, worldVars, since>>

AdmitTimeout(i) ==
    /\ pc[i] = "admit"
    /\ ~cancelled[i]
    /\ expired[i]
    /\ StopWaiting(i)
    /\ Done(i, "timeout")
    /\ UNCHANGED <<callVars, signalVars, have_slot, slots_used, ledgerVars,
                   taskVars, worldVars, since>>

AdmitGrant(i) ==
    /\ pc[i] = "admit"
    /\ ~cancelled[i]
    /\ ~expired[i]
    /\ HasRoom
    /\ slots_used' = slots_used + 1
    /\ have_slot' = [have_slot EXCEPT ![i] = TRUE]
    /\ StopWaiting(i)
    /\ Proceed(i, "recheck")
    /\ since' = [since EXCEPT ![i] = [disk |-> {disk}, table |-> {table}]]
    /\ UNCHANGED <<callVars, signalVars, ledgerVars, taskVars, worldVars>>

AdmitWait(i) ==
    /\ pc[i] = "admit"
    /\ ~cancelled[i]
    /\ ~expired[i]
    /\ ~HasRoom
    /\ ~waiting[i]
    /\ waiting' = [waiting EXCEPT ![i] = TRUE]
    /\ slots_waiting' = slots_waiting + 1
    /\ UNCHANGED <<pc, callVars, signalVars, have_slot, slots_used, verdict,
                   ledgerVars, taskVars, worldVars, since>>

-----------------------------------------------------------------------------
(* After admission: refresh availability and byte identity, then dispatch. *)

\* The ref is resolved again; the fresh descriptor must have the identity of
\* the one the arguments were checked against.
Recheck(i) ==
    /\ pc[i] = "recheck"
    /\ \/ table = sha[i] /\ Proceed(i, "verify")
       \/ table \in Content \ {sha[i]} /\ Done(i, "denied")
       \/ table \notin Content /\ Done(i, Unresolved(table))
    /\ UNCHANGED <<callVars, signalVars, slotVars, ledgerVars, taskVars,
                   worldVars, since>>

\* Fault: the bytes are not hashed again after the wait for a slot.
VerifySkipped(i) ==
    /\ pc[i] = "verify"
    /\ Proceed(i, "snapshot")
    /\ UNCHANGED <<callVars, signalVars, slotVars, ledgerVars, taskVars,
                   worldVars, since>>

\* astools_registry_revalidate: with pinning = "enforce" the files are hashed
\* again and compared with the lockfile.
Verify(i) ==
    /\ pc[i] = "verify"
    /\ \/ (Enforce => disk \in Approved) /\ Proceed(i, "snapshot")
       \/ Enforce /\ disk \notin Approved /\ Done(i, "denied")
    /\ UNCHANGED <<callVars, signalVars, slotVars, ledgerVars, taskVars,
                   worldVars, since>>

\* astools_registry_check_snapshot of a checked invocation: the descriptor and
\* the bytes on disk must both be what the host selected.
Selected(i) == expected[i] # None => expected[i] = sha[i] /\ expected[i] = disk

CheckSnapshot(i) ==
    /\ pc[i] = "snapshot"
    /\ \/ Selected(i) /\ Proceed(i, "gate")
       \/ ~Selected(i) /\ Done(i, "denied")
    /\ UNCHANGED <<callVars, signalVars, slotVars, ledgerVars, taskVars,
                   worldVars, since>>

\* Fault: no second look after the wait for a slot.
GateOpen(i) ==
    /\ pc[i] = "gate"
    /\ Proceed(i, "run")
    /\ UNCHANGED <<callVars, signalVars, slotVars, ledgerVars, taskVars,
                   worldVars, since>>

\* The last look at the cancellation flag and the clock before dispatch.
Gate(i) ==
    /\ pc[i] = "gate"
    /\ \/ cancelled[i] /\ Done(i, "cancelled")
       \/ ~cancelled[i] /\ expired[i] /\ Done(i, "timeout")
       \/ ~cancelled[i] /\ ~expired[i] /\ Proceed(i, "run")
    /\ UNCHANGED <<callVars, signalVars, slotVars, ledgerVars, taskVars,
                   worldVars, since>>

\* Steps 5-6: the executor returns by itself: a response (possibly failing
\* result validation), a crash, a protocol error, a refusal to execute.
ExecReturns(i) ==
    /\ pc[i] = "run"
    /\ \E v \in {"ok", "toolerr", "denied", "error"} : Done(i, v)
    /\ UNCHANGED <<callVars, signalVars, slotVars, ledgerVars, taskVars,
                   worldVars, since>>

\* A process executor observes cancellation or the deadline and stops the
\* tool.  The library executor looks at neither.
ExecStopped(i) ==
    /\ pc[i] = "run"
    /\ kind[i] # "library"
    /\ \/ cancelled[i] /\ Done(i, "cancelled")
       \/ expired[i] /\ Done(i, "timeout")
    /\ UNCHANGED <<callVars, signalVars, slotVars, ledgerVars, taskVars,
                   worldVars, since>>

-----------------------------------------------------------------------------
(* The common exit: counters, audit record, slot release, publication.     *)

\* Fault: a refusal is counted as a failure.
CounterOfNoDenied(v) ==
    IF v \in {"ok", "cancelled"} THEN v
    ELSE IF v = "timeout" THEN "timeouts" ELSE "failed"

CounterOf(v) ==
    IF v \in {"ok", "denied", "cancelled"} THEN v
    ELSE IF v = "timeout" THEN "timeouts" ELSE "failed"

Count(i) ==
    /\ pc[i] = "count"
    /\ stats' = [stats EXCEPT !["invocations"] = @ + 1,
                              ![CounterOf(verdict[i])] = @ + 1]
    /\ Proceed(i, "audit")
    /\ UNCHANGED <<callVars, signalVars, slotVars, audited, taskVars,
                   worldVars, since>>

Audit(i) ==
    /\ pc[i] = "audit"
    /\ audited' = audited \cup {i}
    /\ Proceed(i, "release")
    /\ UNCHANGED <<callVars, signalVars, slotVars, stats, taskVars,
                   worldVars, since>>

\* Fault: the path of a tool that reports an error leaks its slot.
ReleaseLeaks(i) ==
    /\ pc[i] = "release"
    /\ slots_used' = IF have_slot[i] /\ slots_used > 0 /\ verdict[i] # "toolerr"
                     THEN slots_used - 1 ELSE slots_used
    /\ have_slot' = [have_slot EXCEPT ![i] = @ /\ verdict[i] = "toolerr"]
    /\ Proceed(i, "finish")
    /\ UNCHANGED <<callVars, signalVars, waiting, slots_waiting, ledgerVars,
                   taskVars, worldVars, since>>

\* The `cleanup' label up to astools_slot_release.
Release(i) ==
    /\ pc[i] = "release"
    /\ slots_used' = IF have_slot[i] /\ slots_used > 0
                     THEN slots_used - 1 ELSE slots_used
    /\ have_slot' = [have_slot EXCEPT ![i] = FALSE]
    /\ Proceed(i, "finish")
    /\ UNCHANGED <<callVars, signalVars, waiting, slots_waiting, ledgerVars,
                   taskVars, worldVars, since>>

\* The rest of the cleanup, then task_main publishes result, verdict and done.
Finish(i) ==
    /\ pc[i] = "finish"
    /\ Proceed(i, "returned")
    /\ owners' = [owners EXCEPT ![i] = IF i \in AsyncInv THEN {"task"} ELSE {"host"}]
    /\ UNCHANGED <<callVars, signalVars, slotVars, ledgerVars, task,
                   worldVars, since>>

-----------------------------------------------------------------------------
(* The host's side of a task.                                              *)

TaskCancel(i) ==
    /\ task[i] = "live"
    /\ cancelled' = [cancelled EXCEPT ![i] = TRUE]
    /\ UNCHANGED <<pc, callVars, expired, slotVars, verdict, ledgerVars,
                   taskVars, worldVars, since>>

\* Fault: the task keeps its pointers after the first delivery.
TaskWaitShares(i) ==
    /\ task[i] = "live"
    /\ pc[i] = "returned"
    /\ owners' = [owners EXCEPT ![i] = @ \cup {"host"}]
    /\ UNCHANGED <<pc, callVars, signalVars, slotVars, verdict, ledgerVars,
                   task, worldVars, since>>

\* astools_task_wait with an out parameter on a finished task: the strings
\* move to the host, a later wait finds NULL pointers.  A wait that runs out
\* of time returns ASTOOLS_ERR_BUSY and changes nothing.
TaskWait(i) ==
    /\ task[i] = "live"
    /\ pc[i] = "returned"
    /\ owners' = [owners EXCEPT ![i] = IF "task" \in @ THEN {"host"} ELSE @]
    /\ UNCHANGED <<pc, callVars, signalVars, slotVars, verdict, ledgerVars,
                   task, worldVars, since>>

\* astools_task_free cancels, joins the thread, and only then releases the
\* task and the strings it still owns.
TaskFree(i) ==
    /\ task[i] = "live"
    /\ task' = [task EXCEPT ![i] = "freeing"]
    /\ cancelled' = [cancelled EXCEPT ![i] = TRUE]
    /\ UNCHANGED <<pc, callVars, expired, slotVars, verdict, ledgerVars,
                   owners, worldVars, since>>

TaskJoined(i) ==
    /\ task[i] = "freeing"
    /\ pc[i] = "returned"
    /\ task' = [task EXCEPT ![i] = "freed"]
    /\ owners' = [owners EXCEPT ![i] = @ \ {"task"}]
    /\ UNCHANGED <<pc, callVars, signalVars, slotVars, verdict, ledgerVars,
                   worldVars, since>>

-----------------------------------------------------------------------------
(* The clock, the disk and the registry.                                   *)

\* The clock reaches the invocation's deadline while the pipeline still
\* compares it.
Expire(i) ==
    /\ pc[i] \in {"resolve", "prepare", "admit", "recheck", "verify", "snapshot",
                  "gate", "run"}
    /\ ~expired[i]
    /\ expired' = [expired EXCEPT ![i] = TRUE]
    /\ UNCHANGED <<pc, callVars, cancelled, slotVars, verdict, ledgerVars,
                   taskVars, worldVars, since>>

\* Record what an admitted invocation could have observed since admission.
Seen(bytes, entry) ==
    since' = [i \in Inv |-> IF have_slot[i]
                            THEN [disk |-> since[i].disk \cup {bytes},
                                  table |-> since[i].table \cup {entry}]
                            ELSE since[i]]

\* The package is replaced or removed on disk.
EditDisk ==
    /\ edits < MaxEdits
    /\ \E bytes \in (Content \cup {None}) \ {disk} :
          /\ disk' = bytes
          /\ Seen(bytes, table)
    /\ edits' = edits + 1
    /\ UNCHANGED <<pc, callVars, signalVars, slotVars, verdict, ledgerVars,
                   taskVars, table>>

\* astools_registry_scan publishes what is on disk (module Registry has the
\* details).
Rescan ==
    /\ table # Published(disk)
    /\ table' = Published(disk)
    /\ Seen(disk, Published(disk))
    /\ UNCHANGED <<pc, callVars, signalVars, slotVars, verdict, ledgerVars,
                   taskVars, disk, edits>>

-----------------------------------------------------------------------------
\* Steps of invocation i's thread that the code takes unconditionally once
\* they are enabled; a tool's own return is not among them.
ThreadStep(i) ==
    \/ Resolve(i) \/ Prepare(i)
    \/ AdmitCancelled(i) \/ AdmitTimeout(i) \/ AdmitGrant(i) \/ AdmitWait(i)
    \/ Recheck(i) \/ Verify(i) \/ CheckSnapshot(i) \/ Gate(i)
    \/ ExecStopped(i)
    \/ Count(i) \/ Audit(i) \/ Release(i) \/ Finish(i)

HostStep(i) == TaskCancel(i) \/ TaskWait(i) \/ TaskFree(i) \/ TaskJoined(i)

\* Every invocation has returned and the host does nothing more.
AllReturned ==
    /\ \A i \in Inv : pc[i] = "returned"
    /\ UNCHANGED vars

Next ==
    \/ \E i \in Inv : \/ Start(i) \/ ThreadStep(i) \/ ExecReturns(i)
                      \/ HostStep(i) \/ Expire(i)
    \/ EditDisk
    \/ Rescan
    \/ AllReturned

Spec == Init /\ [][Next]_vars

\* Threads are scheduled, the monotonic clock advances, and the join inside
\* astools_task_free returns once the thread has ended.  No fairness for a
\* tool that answers (ExecReturns), for hosts, or for the registry.
Fairness ==
    \A i \in Inv : /\ WF_vars(ThreadStep(i))
                   /\ WF_vars(Expire(i))
                   /\ WF_vars(TaskJoined(i))

FairSpec == Spec /\ Fairness

-----------------------------------------------------------------------------
(* Properties.                                                             *)

Holders == {i \in Inv : have_slot[i]}
Waiters == {i \in Inv : waiting[i]}

\* The slot counters of astools_slot_acquire / astools_slot_release are exact
\* on every path out of the pipeline: slots_used is the number of invocations
\* between admission and release, never above max_concurrent, and
\* slots_waiting the number of those blocked in the loop; an invocation is
\* never both.
SlotAccounting ==
    /\ slots_used = Cardinality(Holders)
    /\ slots_used <= MaxConcurrent
    /\ slots_waiting = Cardinality(Waiters)
    /\ Holders \cap Waiters = {}

\* Invocations that went through step 7 of the pipeline.
Counted == {i \in Inv : /\ sha[i] \in Content
                        /\ pc[i] \in {"audit", "release", "finish", "returned"}}

\* The verdicts each counter of astools_stats stands for.
VerdictsOf ==
    [ok |-> {"ok"}, failed |-> {"toolerr", "error"}, denied |-> {"denied"},
     timeouts |-> {"timeout"}, cancelled |-> {"cancelled"}]

\* Every attempted invocation of a real tool is counted exactly once, under
\* the counter of its verdict, and audited exactly when it has been counted;
\* an unresolved ref is neither (comment at invoke.c step 7).
Ledger ==
    /\ stats["invocations"] = Cardinality(Counted)
    /\ \A n \in Counters :
          stats[n] = Cardinality({i \in Counted : verdict[i] \in VerdictsOf[n]})
    /\ audited = {i \in Counted : pc[i] # "audit"}

\* A tool runs only with the identity its arguments were checked against, and
\* that identity was in the registry table at some moment after the slot was
\* granted, whatever scans and replacements happened while it waited; the
\* bytes on disk were approved (pinning "enforce") and equal to the selected
\* ones (checked invocation) at some moment after the grant.
DispatchIsFresh ==
    \A i \in Inv : pc[i] = "run" =>
        /\ sha[i] \in since[i].table \cap Content
        /\ Enforce => since[i].disk \cap Approved # {}
        /\ expected[i] # None => /\ expected[i] = sha[i]
                                 /\ expected[i] \in since[i].disk

\* A task cancelled, or past its deadline, before its tool is dispatched never
\* dispatches it, however long it still waits for a slot.
StoppedNeverRuns ==
    \A i \in Inv :
        []((cancelled[i] \/ expired[i]) /\ pc[i] # "run" => [](pc[i] # "run"))

\* The strings of a result have one owner at any time, so the host and
\* astools_task_free never free the same pointer; a task whose thread has not
\* returned is never released.
ResultOwnership ==
    \A i \in Inv :
        /\ Cardinality(owners[i]) <= 1
        /\ task[i] = "freed" => pc[i] = "returned" /\ "task" \notin owners[i]

\* The refinement mapping: the calls made, those ever granted a slot, and the
\* outcome a host can see.
Called == {i \in Inv : pc[i] # "idle"}
Admitted == {i \in Inv : since[i].table # {}}
Outcome == [i \in Inv |-> IF pc[i] = "returned" THEN verdict[i] ELSE "none"]

\* The engine implements the service it promises: bounded, at-most-once
\* admission, and one outcome per call that is an answer only for a call that
\* held a slot.
Service == INSTANCE InvocationService WITH
    Calls <- Inv,
    N <- MaxConcurrent,
    Answers <- {"ok", "toolerr"},
    Refusals <- {"denied", "timeout", "cancelled", "error"},
    called <- Called,
    admitted <- Admitted,
    active <- Holders,
    outcome <- Outcome

ImplementsService == Service!Spec

Executing(i) == pc[i] = "run" /\ kind[i] = "library"

\* Every invocation of a process tool returns although its tool may never
\* answer, and even while a library call that never returns keeps a slot.
InvocationsReturn ==
    \A i \in Inv : (pc[i] = "resolve") ~> (pc[i] = "returned" \/ Executing(i))

\* astools_task_free completes, unless the task is inside a library call.
FreeCompletes ==
    \A i \in Inv : (task[i] = "freeing") ~> (task[i] = "freed" \/ Executing(i))

\* Nobody waits for ever: neither a caller nor a host that frees its task.
NobodyHangs == InvocationsReturn /\ FreeCompletes
=============================================================================
