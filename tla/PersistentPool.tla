--------------------------- MODULE PersistentPool ---------------------------
(***************************************************************************)
(* The persistent-process executor of astools: instance pool               *)
(* (process_pool.c), start and handshake (process_start.c), exchange with  *)
(* cancellation settlement (process_exchange.c, process_io.c) and the      *)
(* supervisor's pass over idle instances (worker.c).                       *)
(*                                                                         *)
(* Invocations that already hold an invocation slot acquire an instance of *)
(* their package identity, recheck the registry and the disk, start the    *)
(* process if necessary and exchange one request for one response.  The    *)
(* tool may answer late, twice, for another request, with garbage, never,  *)
(* or die at any moment.                                                   *)
(***************************************************************************)
EXTENDS Naturals, Sequences, FiniteSets

CONSTANTS
    Inv,           \* invocations of the tool
    Node,          \* pool nodes that can be allocated
    Parallel,      \* the manifest's parallel limit
    InstanceLimit, \* ASTOOLS_INSTANCE_LIMIT
    Content,       \* content identities the package can have
    Manners,       \* whether tools may be polite: BOOLEAN, or {FALSE} for none
    Stray,         \* a line that answers no request
    MaxLines,      \* bound: unread lines per process
    MaxEdits,      \* bound: replacements of the package
    None

ASSUME PoolAssumption ==
    /\ IsFiniteSet(Inv) /\ IsFiniteSet(Node)
    /\ Parallel \in Nat \ {0} /\ InstanceLimit \in Nat \ {0}
    /\ Manners \subseteq BOOLEAN
    /\ Stray \notin Inv
    /\ None \notin Content /\ None \notin Node
    /\ MaxLines \in Nat /\ MaxEdits \in Nat

\* struct astools_pproc, with the process behind it: its state, the requests
\* it has read and the lines it has written that nobody has read yet.
Instance ==
    [key : Content, busy : Nat, proc : {"none", "running", "exited"},
     alive : BOOLEAN, scratch : BOOLEAN, backoff : BOOLEAN,
     heard : SUBSET Inv, stream : Seq(Inv \cup {Stray})]

ASSUME NoNodeAssumption == None \notin Instance

VARIABLES
    pc,         \* where each invocation is in astools_exec_persistent
    sha,        \* identity of the descriptor it holds
    node,       \* the instance it has acquired
    cancelled,  \* its task was cancelled
    expired,    \* its deadline has passed
    waiting,    \* the local `waiting' of astools_pp_acquire
    verdict,    \* how it ended
    pool,       \* ctx->pprocs: the listed nodes
    pp_count,   \* ctx->pp_count
    pp_waiters, \* ctx->pp_waiters
    pinned,     \* idle nodes the supervisor's pass has pinned
    polite,     \* the tool answers every request it has read exactly once
    disk, table, edits,
    since,      \* history: identities seen since the instance was acquired
    delivered,  \* history: processes the request was written to
    answer      \* history: the request answered by the line it accepted

signalVars == <<cancelled, expired>>
countVars == <<pp_count, pp_waiters>>
worldVars == <<disk, table, edits, polite>>
historyVars == <<since, delivered, answer>>
vars == <<pc, sha, node, signalVars, waiting, verdict, pool, countVars, pinned,
          worldVars, historyVars>>

PCs == {"idle", "acquire", "validate", "snapshot", "start", "revalidate",
        "resnapshot", "spawn", "hello", "write", "read", "settle", "release", "done"}
Verdicts == {"none", "ok", "busy", "denied", "timeout", "cancelled", "error"}

TypeOK ==
    /\ pc \in [Inv -> PCs]
    /\ sha \in [Inv -> Content \cup {None}]
    /\ node \in [Inv -> Node \cup {None}]
    /\ cancelled \in [Inv -> BOOLEAN]
    /\ expired \in [Inv -> BOOLEAN]
    /\ waiting \in [Inv -> BOOLEAN]
    /\ verdict \in [Inv -> Verdicts]
    /\ pool \in [Node -> Instance \cup {None}]
    /\ pp_count \in Nat /\ pp_waiters \in Nat
    /\ pinned \subseteq Node
    /\ disk \in Content \cup {None}
    /\ table \in Content \cup {None}
    /\ edits \in 0..MaxEdits
    /\ polite \in Manners
    /\ since \in [Inv -> [disk : SUBSET (Content \cup {None}),
                          table : SUBSET (Content \cup {None})]]
    /\ delivered \in [Inv -> Nat]
    /\ answer \in [Inv -> Inv \cup {Stray, None}]

Init ==
    /\ pc = [i \in Inv |-> "idle"]
    /\ sha = [i \in Inv |-> None]
    /\ node = [i \in Inv |-> None]
    /\ cancelled = [i \in Inv |-> FALSE]
    /\ expired = [i \in Inv |-> FALSE]
    /\ waiting = [i \in Inv |-> FALSE]
    /\ verdict = [i \in Inv |-> "none"]
    /\ pool = [n \in Node |-> None]
    /\ pp_count = 0 /\ pp_waiters = 0
    /\ pinned = {}
    /\ disk \in Content
    /\ table = disk
    /\ edits = 0
    /\ polite \in Manners
    /\ since = [i \in Inv |-> [disk |-> {}, table |-> {}]]
    /\ delivered = [i \in Inv |-> 0]
    /\ answer = [i \in Inv |-> None]

Goto(i, label) == pc' = [pc EXCEPT ![i] = label] /\ UNCHANGED verdict

\* Go to a label with the outcome already known.
Ending(i, label, v) ==
    /\ pc' = [pc EXCEPT ![i] = label]
    /\ verdict' = [verdict EXCEPT ![i] = v]

Listed == {n \in Node : pool[n] # None}

-----------------------------------------------------------------------------
(* Changes of an instance.                                                 *)

\* Fault: stopping a process leaves its scratch directory behind.
StoppedLeaks(p) ==
    [p EXCEPT !.proc = "none", !.alive = FALSE, !.heard = {}, !.stream = <<>>]

\* astools_pp_stop: kill and reap the process group, drop unread output,
\* remove the scratch directory.
Stopped(p) ==
    [p EXCEPT !.proc = "none", !.alive = FALSE, !.scratch = FALSE,
              !.heard = {}, !.stream = <<>>]

\* astools_pp_backoff after a stop.
BackedOff(p) == [Stopped(p) EXCEPT !.backoff = TRUE]

Fresh(identity) ==
    [key |-> identity, busy |-> 1, proc |-> "none", alive |-> FALSE,
     scratch |-> FALSE, backoff |-> FALSE, heard |-> {}, stream |-> <<>>]

\* The instance of invocation i becomes p.
SetInstance(i, p) == pool' = [pool EXCEPT ![node[i]] = p]

Mine(i) == pool[node[i]]

-----------------------------------------------------------------------------
(* astools_pp_acquire: one action per way an iteration of its loop ends.   *)

\* astools_invoke_impl has just resolved the ref again (module Invocation).
Begin(i) ==
    /\ pc[i] = "idle"
    /\ table # None
    /\ sha' = [sha EXCEPT ![i] = table]
    /\ Goto(i, "acquire")
    /\ UNCHANGED <<node, signalVars, waiting, pool, countVars, pinned,
                   worldVars, historyVars>>

\* Fault: the waiter count drops although this call never waited.
StopWaitingAlways(i) ==
    /\ waiting' = [waiting EXCEPT ![i] = FALSE]
    /\ pp_waiters' = pp_waiters - 1

StopWaiting(i) ==
    /\ waiting' = [waiting EXCEPT ![i] = FALSE]
    /\ pp_waiters' = IF waiting[i] THEN pp_waiters - 1 ELSE pp_waiters

Same(i) == {n \in Listed : pool[n].key = sha[i]}
Idle(i) == {n \in Same(i) : pool[n].busy = 0}

\* Fault: only running instances count against the limits.
MayGrowIgnoringStopped(i) ==
    Cardinality({n \in Same(i) : pool[n].proc # "none"}) < Parallel

MayGrow(i) == Idle(i) = {} /\ Cardinality(Same(i)) < Parallel

AcquireCancelled(i) ==
    /\ pc[i] = "acquire"
    /\ cancelled[i]
    /\ StopWaiting(i)
    /\ Ending(i, "done", "cancelled")
    /\ UNCHANGED <<sha, node, signalVars, pool, pp_count, pinned, worldVars,
                   historyVars>>

AcquireTimeout(i) ==
    /\ pc[i] = "acquire"
    /\ ~cancelled[i] /\ expired[i]
    /\ StopWaiting(i)
    /\ Ending(i, "done", "timeout")
    /\ UNCHANGED <<sha, node, signalVars, pool, pp_count, pinned, worldVars,
                   historyVars>>

\* The context is at its instance limit and none may be shared.
AcquireBusy(i) ==
    /\ pc[i] = "acquire"
    /\ ~cancelled[i] /\ ~expired[i]
    /\ MayGrow(i)
    /\ Cardinality(Listed) >= InstanceLimit
    /\ StopWaiting(i)
    /\ Ending(i, "done", "busy")
    /\ UNCHANGED <<sha, node, signalVars, pool, pp_count, pinned, worldVars,
                   historyVars>>

\* The instance is invocation i's until it releases it.
Acquired(i, n) ==
    /\ node' = [node EXCEPT ![i] = n]
    /\ since' = [since EXCEPT ![i] = [disk |-> {disk}, table |-> {table}]]
    /\ StopWaiting(i)
    /\ Goto(i, "validate")
    /\ UNCHANGED <<sha, signalVars, pinned, worldVars, delivered, answer>>

AcquireIdle(i, n) ==
    /\ pc[i] = "acquire"
    /\ ~cancelled[i] /\ ~expired[i]
    /\ n \in Idle(i)
    /\ pool' = [pool EXCEPT ![n].busy = @ + 1]
    /\ Acquired(i, n)
    /\ UNCHANGED pp_count

AcquireNew(i, n) ==
    /\ pc[i] = "acquire"
    /\ ~cancelled[i] /\ ~expired[i]
    /\ MayGrow(i)
    /\ Cardinality(Listed) < InstanceLimit
    /\ n \notin Listed
    /\ pool' = [pool EXCEPT ![n] = Fresh(sha[i])]
    /\ pp_count' = pp_count + 1
    /\ Acquired(i, n)

AcquireWait(i) ==
    /\ pc[i] = "acquire"
    /\ ~cancelled[i] /\ ~expired[i]
    /\ Idle(i) = {} /\ ~MayGrow(i)
    /\ ~waiting[i]
    /\ waiting' = [waiting EXCEPT ![i] = TRUE]
    /\ pp_waiters' = pp_waiters + 1
    /\ UNCHANGED <<pc, sha, node, signalVars, verdict, pool, pp_count, pinned,
                   worldVars, historyVars>>

-----------------------------------------------------------------------------
(* astools_pp_validate reads the registry, then the disk; it runs after    *)
(* the wait for an instance and again just before a process is spawned.    *)

\* Leave the exchange: the instance becomes p and will be released.
Abandon(i, p, v) ==
    /\ SetInstance(i, p)
    /\ Ending(i, "release", v)

Keep(i, label) ==
    /\ Goto(i, label)
    /\ UNCHANGED pool

Unaffected(i) ==
    UNCHANGED <<sha, node, signalVars, waiting, countVars, pinned, worldVars,
                historyVars>>

\* Fault: the wait for an instance is not followed by a recheck.
ValidateSkipped(i) ==
    /\ pc[i] = "validate"
    /\ Keep(i, "start")
    /\ Unaffected(i)

Validate(i) ==
    /\ pc[i] = "validate"
    /\ \/ table = sha[i] /\ Keep(i, "snapshot")
       \/ table # sha[i] /\ Abandon(i, Stopped(Mine(i)), "denied")
    /\ Unaffected(i)

Snapshot(i) ==
    /\ pc[i] = "snapshot"
    /\ \/ disk = sha[i] /\ Keep(i, "start")
       \/ disk # sha[i] /\ Abandon(i, Stopped(Mine(i)), "denied")
    /\ Unaffected(i)

-----------------------------------------------------------------------------
(* astools_pp_ensure_alive.                                                *)

\* An instance that is alive is used as it is; otherwise wait for the restart
\* window and prepare the sandbox, which can fail.
Start(i) ==
    /\ pc[i] = "start"
    /\ \/ cancelled[i] /\ Abandon(i, Mine(i), "cancelled")
       \/ ~cancelled[i] /\ expired[i] /\ Abandon(i, Mine(i), "timeout")
       \/ /\ ~cancelled[i] /\ ~expired[i]
          /\ \/ Mine(i).alive /\ Keep(i, "write")
             \/ /\ ~Mine(i).alive /\ ~Mine(i).backoff
                /\ \/ /\ SetInstance(i, [Mine(i) EXCEPT !.scratch = TRUE])
                      /\ Goto(i, "revalidate")
                   \/ Abandon(i, Mine(i), "error")
    /\ Unaffected(i)

Unprepared(p) == [p EXCEPT !.scratch = FALSE]

Revalidate(i) ==
    /\ pc[i] = "revalidate"
    /\ \/ table = sha[i] /\ Keep(i, "resnapshot")
       \/ table # sha[i] /\ Abandon(i, Unprepared(Mine(i)), "denied")
    /\ Unaffected(i)

Resnapshot(i) ==
    /\ pc[i] = "resnapshot"
    /\ \/ disk # sha[i] /\ Abandon(i, Unprepared(Mine(i)), "denied")
       \/ disk = sha[i] /\ cancelled[i] /\ Abandon(i, Unprepared(Mine(i)), "cancelled")
       \/ /\ disk = sha[i] /\ ~cancelled[i] /\ expired[i]
          /\ Abandon(i, Unprepared(Mine(i)), "timeout")
       \/ disk = sha[i] /\ ~cancelled[i] /\ ~expired[i] /\ Keep(i, "spawn")
    /\ Unaffected(i)

Spawn(i) ==
    /\ pc[i] = "spawn"
    /\ \/ /\ SetInstance(i, [Mine(i) EXCEPT !.proc = "running"])
          /\ Goto(i, "hello")
       \/ Abandon(i, BackedOff(Mine(i)), "error")
    /\ Unaffected(i)

\* The handshake: a valid #tool_hello, or anything else.
Hello(i) ==
    /\ pc[i] = "hello"
    /\ ~cancelled[i] /\ ~expired[i]
    /\ \/ /\ Mine(i).proc = "running"
          /\ SetInstance(i, [Mine(i) EXCEPT !.alive = TRUE, !.backoff = FALSE])
          /\ Goto(i, "write")
       \/ Abandon(i, BackedOff(Mine(i)), "error")
    /\ Unaffected(i)

\* Fault: the handshake does not look at the clock.
HelloStoppedByCancel(i) ==
    /\ pc[i] = "hello"
    /\ cancelled[i] /\ Abandon(i, BackedOff(Mine(i)), "cancelled")
    /\ Unaffected(i)

HelloStopped(i) ==
    /\ pc[i] = "hello"
    /\ \/ cancelled[i] /\ Abandon(i, BackedOff(Mine(i)), "cancelled")
       \/ ~cancelled[i] /\ expired[i] /\ Abandon(i, BackedOff(Mine(i)), "timeout")
    /\ Unaffected(i)

-----------------------------------------------------------------------------
(* The exchange.                                                           *)

\* The request is built and written.  A request that cannot be built leaves
\* the stream alone, a broken pipe retires it.
Write(i) ==
    /\ pc[i] = "write"
    /\ ~cancelled[i] /\ ~expired[i]
    /\ \/ /\ Mine(i).proc = "running"
          /\ SetInstance(i, [Mine(i) EXCEPT !.heard = @ \cup {i}])
          /\ delivered' = [delivered EXCEPT ![i] = @ + 1]
          /\ Goto(i, "read")
       \/ Abandon(i, Mine(i), "error") /\ UNCHANGED delivered
       \/ Abandon(i, BackedOff(Mine(i)), "error") /\ UNCHANGED delivered
    /\ UNCHANGED <<sha, node, signalVars, waiting, countVars, pinned, worldVars,
                   since, answer>>

\* Fault: the invocation identifier of a response is not compared.
AnswersAny(line, i) == line # Stray

\* astools_proto_parse_response with the expected identifier.
Answers(line, i) == line = i

\* The next line decides: the matching response, or a protocol error that
\* retires the stream.
Read(i) ==
    /\ pc[i] = "read"
    /\ ~cancelled[i] /\ ~expired[i]
    /\ Mine(i).stream # <<>>
    /\ LET line == Head(Mine(i).stream)
       IN  \/ /\ Answers(line, i)
              /\ SetInstance(i, [Mine(i) EXCEPT !.stream = Tail(@)])
              /\ answer' = [answer EXCEPT ![i] = line]
              /\ Ending(i, "release", "ok")
           \/ /\ ~Answers(line, i)
              /\ Abandon(i, BackedOff(Mine(i)), "error")
              /\ UNCHANGED answer
    /\ UNCHANGED <<sha, node, signalVars, waiting, countVars, pinned, worldVars,
                   since, delivered>>

\* End of file, or more output than max_output_bytes.
ReadFails(i) ==
    /\ pc[i] = "read"
    /\ ~cancelled[i] /\ ~expired[i]
    /\ \/ Mine(i).proc = "exited" /\ Mine(i).stream = <<>>
       \/ Mine(i).proc = "running"
    /\ Abandon(i, BackedOff(Mine(i)), "error")
    /\ Unaffected(i)

\* Cancellation or the deadline interrupts the write or the read:
\* pp_cancel_and_settle sends #tool_cancel and looks for the acknowledgement.
Interrupted(i) ==
    /\ pc[i] \in {"write", "read"}
    /\ \/ cancelled[i] /\ Ending(i, "settle", "cancelled")
       \/ ~cancelled[i] /\ expired[i] /\ Ending(i, "settle", "timeout")
    /\ UNCHANGED pool
    /\ Unaffected(i)

Acknowledges(line, i) == line = i

SettleLine(i) ==
    /\ pc[i] = "settle"
    /\ Mine(i).stream # <<>>
    /\ SetInstance(i, [Mine(i) EXCEPT !.stream = Tail(@)])
    /\ pc' = [pc EXCEPT ![i] = IF Acknowledges(Head(Mine(i).stream), i)
                               THEN "release" ELSE "settle"]
    /\ UNCHANGED verdict
    /\ Unaffected(i)

\* Fault: the instance is kept when the grace period ends without a word.
SettleGivesUpQuietly(i) ==
    /\ pc[i] = "settle"
    /\ Keep(i, "release")
    /\ Unaffected(i)

\* The grace period ends, or the output does.
SettleGivesUp(i) ==
    /\ pc[i] = "settle"
    /\ SetInstance(i, BackedOff(Mine(i)))
    /\ Goto(i, "release")
    /\ Unaffected(i)

\* astools_pp_release.
Release(i) ==
    /\ pc[i] = "release"
    /\ SetInstance(i, [Mine(i) EXCEPT !.busy = IF @ > 0 THEN @ - 1 ELSE @])
    /\ node' = [node EXCEPT ![i] = None]
    /\ Goto(i, "done")
    /\ UNCHANGED <<sha, signalVars, waiting, countVars, pinned, worldVars, historyVars>>

-----------------------------------------------------------------------------
(* worker_pass: pin every idle instance, then keep or retire each.         *)

WorkerStep ==
    UNCHANGED <<pc, sha, node, signalVars, waiting, verdict, pp_waiters,
                worldVars, historyVars>>

WorkerPin ==
    LET idle == {n \in Listed : pool[n].busy = 0}
    IN  /\ pinned = {}
        /\ idle # {}
        /\ pinned' = idle
        /\ pool' = [n \in Node |-> IF n \in idle THEN [pool[n] EXCEPT !.busy = 1] ELSE pool[n]]
        /\ UNCHANGED pp_count
        /\ WorkerStep

\* astools_pp_validate for the identity of an instance.
Revoked(n) == table # pool[n].key \/ disk # pool[n].key

\* Fault: the supervisor looks at idle time only.
WorkerKeepAny(n) ==
    /\ n \in pinned
    /\ pinned' = pinned \ {n}
    /\ pool' = [pool EXCEPT ![n].busy = 0]
    /\ UNCHANGED pp_count
    /\ WorkerStep

WorkerKeep(n) ==
    /\ n \in pinned
    /\ ~Revoked(n)
    /\ pinned' = pinned \ {n}
    /\ pool' = [pool EXCEPT ![n].busy = 0]
    /\ UNCHANGED pp_count
    /\ WorkerStep

\* Fault: the supervisor looks at instances without pinning them.
WorkerRetireUnpinned(n) ==
    /\ n \in Listed
    /\ Revoked(n)
    /\ pinned' = pinned \ {n}
    /\ pool' = [pool EXCEPT ![n] = None]
    /\ pp_count' = pp_count - 1
    /\ WorkerStep

\* Revoked, or idle for longer than idle_timeout: stopped, unlinked, freed.
WorkerRetire(n) ==
    /\ n \in pinned
    /\ pinned' = pinned \ {n}
    /\ pool' = [pool EXCEPT ![n] = None]
    /\ pp_count' = pp_count - 1
    /\ WorkerStep

-----------------------------------------------------------------------------
(* The tool's processes, the clocks, the hosts, the disk and the registry. *)

ToolStep(n, p) ==
    /\ pool' = [pool EXCEPT ![n] = p]
    /\ UNCHANGED <<pc, sha, node, signalVars, waiting, verdict, countVars, pinned,
                   worldVars, historyVars>>

\* A polite tool answers each request it has read once; any other writes
\* what it likes, but cannot guess the identifier of a request it never saw.
ToolWrites(n) ==
    /\ n \in Listed
    /\ pool[n].proc = "running" /\ pool[n].alive
    /\ Len(pool[n].stream) < MaxLines
    /\ \E line \in pool[n].heard \cup (IF polite THEN {} ELSE {Stray}) :
          ToolStep(n, [pool[n] EXCEPT !.stream = Append(@, line),
                                      !.heard = IF polite THEN @ \ {line} ELSE @])

ToolExits(n) ==
    /\ n \in Listed
    /\ pool[n].proc = "running"
    /\ ToolStep(n, [pool[n] EXCEPT !.proc = "exited"])

\* next_restart_mono is reached.
BackoffElapses(n) ==
    /\ n \in Listed
    /\ pool[n].backoff
    /\ ToolStep(n, [pool[n] EXCEPT !.backoff = FALSE])

Cancel(i) ==
    /\ pc[i] \notin {"idle", "release", "done"} /\ ~cancelled[i]
    /\ cancelled' = [cancelled EXCEPT ![i] = TRUE]
    /\ UNCHANGED <<pc, sha, node, expired, waiting, verdict, pool, countVars,
                   pinned, worldVars, historyVars>>

Expire(i) ==
    /\ pc[i] \notin {"idle", "release", "done"} /\ ~expired[i]
    /\ expired' = [expired EXCEPT ![i] = TRUE]
    /\ UNCHANGED <<pc, sha, node, cancelled, waiting, verdict, pool, countVars,
                   pinned, worldVars, historyVars>>

Seen(bytes, entry) ==
    since' = [i \in Inv |-> IF node[i] # None
                            THEN [disk |-> since[i].disk \cup {bytes},
                                  table |-> since[i].table \cup {entry}]
                            ELSE since[i]]

EditDisk ==
    /\ edits < MaxEdits
    /\ \E bytes \in (Content \cup {None}) \ {disk} :
          /\ disk' = bytes
          /\ Seen(bytes, table)
    /\ edits' = edits + 1
    /\ UNCHANGED <<pc, sha, node, signalVars, waiting, verdict, pool, countVars,
                   pinned, table, polite, delivered, answer>>

Rescan ==
    /\ table # disk
    /\ table' = disk
    /\ Seen(disk, disk)
    /\ UNCHANGED <<pc, sha, node, signalVars, waiting, verdict, pool, countVars,
                   pinned, disk, edits, polite, delivered, answer>>

-----------------------------------------------------------------------------
InvocationStep(i) ==
    \/ AcquireCancelled(i) \/ AcquireTimeout(i) \/ AcquireBusy(i) \/ AcquireWait(i)
    \/ \E n \in Node : AcquireIdle(i, n) \/ AcquireNew(i, n)
    \/ Validate(i) \/ Snapshot(i) \/ Start(i) \/ Revalidate(i) \/ Resnapshot(i)
    \/ Spawn(i) \/ HelloStopped(i) \/ Interrupted(i)
    \/ SettleLine(i) \/ SettleGivesUp(i) \/ Release(i)

\* Steps that need the tool to say something, or to end.
ToolDependent(i) == Hello(i) \/ Write(i) \/ Read(i) \/ ReadFails(i)

\* No call is under way; the host need not make another.
AllDone ==
    /\ \A i \in Inv : pc[i] \in {"idle", "done"}
    /\ UNCHANGED vars

Worker == WorkerPin \/ \E n \in Node : WorkerKeep(n) \/ WorkerRetire(n)

Next ==
    \/ \E i \in Inv : \/ Begin(i) \/ InvocationStep(i) \/ ToolDependent(i)
                      \/ Cancel(i) \/ Expire(i)
    \/ Worker
    \/ \E n \in Node : ToolWrites(n) \/ ToolExits(n) \/ BackoffElapses(n)
    \/ EditDisk
    \/ Rescan
    \/ AllDone

Spec == Init /\ [][Next]_vars

\* Invocation threads and the supervisor are scheduled and the clock
\* advances past deadlines and past the two seconds of grace, which a tool
\* that keeps writing does not extend; nothing is assumed of the tool, the
\* hosts or the registry.
Fairness ==
    /\ \A i \in Inv : /\ WF_vars(InvocationStep(i))
                      /\ WF_vars(Expire(i))
                      /\ WF_vars(SettleGivesUp(i))
    /\ WF_vars(Worker)

FairSpec == Spec /\ Fairness

-----------------------------------------------------------------------------
(* Properties.                                                             *)

Users(n) == {i \in Inv : node[i] = n}

\* A node is used by one invocation or pinned by the supervisor, never both,
\* never by two, busy exactly then, and never freed while it is used.
ExclusiveUse ==
    \A n \in Node :
        /\ n \in pinned \/ Users(n) # {} => pool[n] # None /\ pool[n].busy = 1
        /\ pool[n] # None => pool[n].busy = Cardinality(Users(n)) + (IF n \in pinned THEN 1 ELSE 0)

\* No identity has more instances than the manifest's parallel, the context
\* no more than its limit, instances in restart backoff included, and the
\* published counters are exact.
PoolBounds ==
    /\ \A k \in Content : Cardinality({n \in Listed : pool[n].key = k}) <= Parallel
    /\ Cardinality(Listed) <= InstanceLimit
    /\ pp_count = Cardinality(Listed)
    /\ pp_waiters = Cardinality({i \in Inv : waiting[i]})

\* A scratch directory exists as long as its process has not been reaped and
\* while one is being started, and no longer.
ScratchLifetime ==
    \A n \in Listed :
        pool[n].scratch <=> \/ pool[n].proc # "none"
                            \/ \E i \in Users(n) : pc[i] \in {"revalidate", "resnapshot", "spawn"}

\* What the pool holds is bounded, counted and cleaned up.
PoolSound == PoolBounds /\ ScratchLifetime

\* A request is written only to a process of the identity it was checked
\* against, and only when registry and disk showed that identity at some
\* moment after the wait for the instance.
InstanceFresh ==
    \A i \in Inv : pc[i] \in {"write", "read"} =>
        /\ Mine(i).key = sha[i]
        /\ sha[i] \in since[i].table /\ sha[i] \in since[i].disk

\* No request is replayed: it reaches at most one process, once, and never
\* after a refusal; a call that succeeds was answered by its own response.
NoReplay ==
    \A i \in Inv : /\ delivered[i] <= 1
                   /\ verdict[i] \in {"busy", "denied"} => delivered[i] = 0
                   /\ verdict[i] = "ok" => delivered[i] = 1 /\ answer[i] = i

\* With a tool that answers every request once, an instance is handed over
\* clean: nothing an earlier call left behind, answered late or interrupted,
\* can reach the next one.
CleanHandover ==
    \A n \in Listed : polite /\ pool[n].busy = 0 =>
        pool[n].stream = <<>> /\ pool[n].heard = {}

\* Requests and answers stay with their calls, within a call and from one to
\* the next.
NoCrossTalk == NoReplay /\ CleanHandover

\* Every call returns, whatever its tool does.
CallsReturn == \A i \in Inv : (pc[i] = "acquire") ~> (pc[i] = "done")

\* The supervisor retires the instances of a replaced or revoked package.
RevokedRetired == <>[](\A n \in Listed : ~Revoked(n))

\* The pool makes progress: calls return and revoked instances go.
PoolProgress == CallsReturn /\ RevokedRetired
=============================================================================
