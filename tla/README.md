# A TLA+ verification project for astools

astools is a C library that discovers *tool packages* on disk, decides which of
them a host may call, and runs them: as one-shot processes, as persistent
processes, as shared libraries, or as foreign MCP and LSP servers. This project
models the parts of it that keep state between steps of several threads or
processes and the algorithms whose results others rely on, checks them with TLC
on small instances, and proves the central results for every instance with TLAPS.

Paths below are relative to the repository (`src/invoke.c` is the file
`src/src/invoke.c` of `PROJECT.json`).

## 1. The system: parts, state, operations

| part | state | operations | talks to |
|---|---|---|---|
| invocation pipeline (`invoke.c`, `execution_queue.c`) | `slots_used`, `slots_waiting`, statistics, audit trail; per task `done`, `cancelled`, the result strings | invoke, invoke_async, task wait, cancel, free; slot acquire and release | registry (resolve twice), policy, executors, audit |
| registry (`registry.c`, `api.c`) | the table of tools, `registry_revision`, the copy of the lockfile, `tools_enabled` | scan in four phases, tool_enable, approve with reload, resolve, poll | packages on disk, lockfile, hosts' catalogs |
| lockfile (`lockfile.c`) | the file, its temporary file | load, check, approve (load, hash, write, rename) | registry; `astools-check` is a second process that writes it |
| descriptors (`registry.c`) | reference count per descriptor | build, publish, pin, unref, destroy | everything that holds a tool |
| persistent pool (`process_pool.c`, `process_start.c`, `process_exchange.c`, `process_io.c`, `worker.c`) | list of instances with pin, process, scratch directory, backoff, unread lines | acquire, validate, start, handshake, exchange, settle a cancellation, release; the supervisor's pass | slots (one held for the whole call), registry, tool processes |
| one-shot executor (`execution_oneshot.c`, `os_proc_posix.c`) | the child, its three pipes, two buffers | spawn, poll loop, reap, drain, kill, judge | tool process and its descendants |
| error texts (`api.c`) | one shared buffer per context, a small map per thread | seterr, last_error, copy into a result | every part |
| library executor (`execution_library.c`) | one node per package: `loaded`, `failed`, `init_ok`, the mapped image | compare, load and initialize once, call, shut down | pool (its node), worker |
| foreign protocols (`rpc.c`, `mcp_*.c`, `lsp_*.c`) | serial of requests, catalog epoch, the budget of a receive, what a query has read | request, receive, check of tools, call, query, render, recheck | a server, the files it speaks of |
| MCP server (`mcp/main.c`) | `initialized`, the version of the answer, `tools_changed_flag` | launch, one handler per method, management tools, the notification | client, registry, supervisor |
| policy and paths (`policy.c`, `path.c`) | none | effective grants, canonical paths, preflight of arguments | every call with a path |
| log (`log.c`) | the open file, its size, the rotated files | open, append, rotate, reopen, close | every part |
| edit tool (`std/tool_edit.c`) | targets, base versions, temporary files | load, verify, stage, replace, roll back | files, other programs |
| fs tool (`std/tool_fs.c`) | the tree | write, mkdir, remove, copy, move, list, read | files |
| captured programs (`std/process_capture.c`) | child, pipes, two capped buffers | fork, exec report, feed, drain, deadline, reap | a program and its descendants |
| types, schemas, grammars (`types.c`, `jscm.c`, `gbnf.c`, `mcp_schema_*.c`) | none | parse, check, render, compare | manifests, calls, clients |
| listing (`semver.c`, `selection.c`, `discovery.c`, `catalog.c`) | none | precedence, resolution, order, ranking, levels | registry, clients |
| matchers and codecs (`std/regex.c`, `std/sdk.c`, `utf8.c`, `lsp_uri.c`, `process_frame.c`, `duration.c`) | none | search, glob, URIs, frames, base64, durations | tools, servers |

A call runs through: resolve the reference, look up command and arguments,
policy, wait for a slot (`max_concurrent`), resolve and verify *again*, look at
cancellation and deadline, dispatch to an executor, validate the result, count,
audit, release the slot, publish the result of the task. Scans, toggles,
approvals and replacements of packages on disk happen at any point of it; hosts
cancel and free tasks at any point of it; the clock passes the deadline at any
point of it.

What is hard here, and hard to test:

- a decision made before an unbounded wait and used after it (slot, pool
  instance, restart backoff, handshake);
- scans that read without a lock and publish later, over each other and over
  what the host switched in between;
- two processes that approve into one file, crashes in between;
- tools that answer late, twice, for somebody else, never, or leave descendants;
- some twenty error exits that must each release, count and audit once;
- reference counts dropped outside the lock under which they were found;
- several files changed as one while another program changes them too;
- links that make a path mean something else than its text;
- the same decision made by two pieces of code that must agree (listing and
  resolution, schema and check, grammar and check);
- descendants that keep a pipe open after the program they belong to is gone.

`PROJECT.json` lists these hazards line by line with the properties that speak
of them.

## 2. The modules

| module | code | kind |
|---|---|---|
| `Invocation` | `astools_invoke_impl`, slots, tasks | component |
| `InvocationService` | what the pipeline promises a host | abstract specification |
| `InvocationProofs` | theorems about `Invocation` | proofs |
| `RegistryProofs`, `PersistentPoolProofs` | theorems about one component each | proofs |
| `Registry` | scan, publication, toggles, approval reload | component |
| `Lockfile` | approval file under concurrency and crashes | component |
| `Descriptors` | reference counts | component |
| `PersistentPool` | pool, start, exchange, supervisor | component |
| `OneShot` | one-shot executor with its child | component |
| `Diagnostics` | error texts | component |
| `Library` | shared libraries | component |
| `Foreign` | JSON-RPC peer, MCP client, LSP client | component |
| `Server` | the MCP server | component |
| `Log` | the rotating log | component |
| `Capture` | a program run for a standard tool | component |
| `Edit` | the edit tool as a transaction on files | component |
| `Policy` | paths, links and grants | operators |
| `Fs` | the fs tool behind the preflight; extends `Policy` | component |
| `Matchers` | regular expressions and globs | operators |
| `EditText` | what an edit computes; extends `Matchers` | operators |
| `Types` | types of arguments, defaults, parameters | operators |
| `Contracts` | schemas, JSON arguments and their xcdn text, grammar; extends `Types` | operators |
| `Selection` | versions, resolution, listing, discovery, catalog | operators |
| `Codecs` | UTF-8, URIs, positions, frames, base64, pages, durations | operators |
| `MCInvocation`, `MCRegistry`, `MCPersistentPool`, `MCLockfile`, `MCDiagnostics` | instances of one component | instances |
| `MCParts` | `Descriptors`, `Diagnostics`, `Log`, `Library`, `Capture` | instance |
| `MCWire` | `OneShot`, `Foreign` | instance |
| `Host` | `Lockfile`, `Edit`, `Server` side by side | composition |
| `MCHost` | `Host`, `Policy` with `Fs` | instance |
| `PartsProofs`, `WireProofs`, `HostProofs` | theorems about `MCParts`, `MCWire` and `Codecs`, `Host` | proofs |
| `Induction` | least elements, induction and recursion over numbers | lemmas |
| `FsProofs` | theorems about `Fs` and `Policy` | proofs |
| `MCAlgorithms` | `Matchers`, `EditText`, `Types`, `Contracts`, `Selection`, `Codecs` | instance |

`MCParts`, `MCWire` and `Host` put components that share no state side by side.
Their variable `subject` is chosen at the start and says which component moves in
a behaviour; the others stay where they began. Nothing is lost by this, as no
action of one component reads a variable of another, and the state space is the
sum of theirs instead of the product. They have the bounds of their components as
constants, so that theorems can be stated about them: `MCParts.cfg`, `MCWire.cfg`
and `MCHost` give the values. `MCHost` adds the file tool, about
which `FsProofs` speaks on its own. `MCAlgorithms` takes one input of one topic
and compares results with reference definitions.

Every module that models code has operators whose comment starts with `Fault:`.
They are not used by the specification: each is a plausible mistake in the
operator that follows it, and shows, when it is put in its place, which property
notices.

### Invocation

One `pc` per invocation follows `astools_invoke_impl` from entry to return.
`AdmitCancelled`, `AdmitTimeout`, `AdmitGrant` and `AdmitWait` are the four ways
through one turn of the loop of `astools_slot_acquire`, in the order of its
tests. `Recheck`, `Verify`, `CheckSnapshot` and `Gate` are the second look after
the wait; `ExecReturns` and `ExecStopped` stand for whichever executor runs (the
library executor never looks at flag or clock). `Count`, `Audit`, `Release`,
`Finish` are the common exit. `EditDisk` and `Rescan` change what the second look
finds. `since` is a history variable: the bytes and table entries that existed
since the slot was granted.

`InvocationService` says the same as a host sees it: a call is admitted at most
once, at most `N` are active at a time, and it has one outcome, which can
be an answer only if it was admitted. `ImplementsService` is the refinement.

### Registry

A scan is a process: read each package (phase 1), load the lockfile, hash each
package again against it (phase 2), sort and publish under the write lock with
the comparison that moves the revision and the carry-over of `host_disabled`
(phase 4). Two scans, a toggle and an approval (which records into the file,
reloads, and adopts the new lock state) interleave at these boundaries. Approval
is one step here and has a module of its own in `Lockfile`. A reference may match
several packages (`Refs`); which one wins is the order of the table and is not
modelled.

### Lockfile

Inodes, names and contents: an approval reads the document, hashes the package,
truncates the temporary file, writes it (`Partial` in between), renames it over
the lockfile, or removes it after a failure. Approvers crash at any of these
points and start again. All approvers use the same temporary name, as the code
does. `overlap` is a history variable: two approvals have been under way at once.

### Descriptors

Scanners load, discard and publish descriptors and drop the replaced ones after
the lock; holders find one under the read lock, pin it, share it with a pool node
and drop it. The decrement and `tool_destroy` are two steps, as in
`astools_tool_unref`.

### PersistentPool

Invocations that hold a slot take an idle instance of their package identity,
make a new one, or wait; check registry and disk again; start the process (again
with a check between preparing and spawning); write the request; read lines until
one answers it. A cancelled or expired request is settled: its late answer is
consumed or the process is retired. The supervisor pins idle instances, checks
them without the lock, and retires what expired or was revoked. Its check and the
following unpin are one step: an invocation that takes the instance afterwards
checks again itself. The process may be polite (answers each request it has read
once) or do anything. The growth of the restart backoff is one flag: waiting or
not.

### OneShot

One turn of the poll loop is four steps (look at flag and clock, feed stdin, read
stdout, read stderr), so that the tool moves between them. Readiness is looked at
when the pipe is served; `poll` can only miss what came in meanwhile. Then the
grace, the kill, the reaping, the drain, the kill of the rest of the group and
the verdict. A tool is *calm* when it reads its request, answers and closes or
exits in that order; any other may do everything in any order, fork a descendant
that inherits its pipes, and stay. `WellFormed` stands for the parser: the units
of the response in order and nothing that does not parse.

### Diagnostics

`astools_seterr` writes the shared buffer and the thread's own slot for that
context; a thread's map has few slots and evicts the oldest;
`astools_last_error` falls back to the shared buffer when the thread's slot is
empty; `result_error` copies the outcome into the result.

### Library

All calls of a package share one pool node. A call compares the content its
descriptor was resolved to with the node's, takes `io_mu`, loads and initializes
if nobody did, and calls outside the lock; a failed init stays failed. Closing
the context shuts the library down when no call is in it.

### Foreign

One process, several calls one after the other. `SendRequest` and `Receive` are the
peer: a receive reads at most `MessageMax` messages, answers requests of the
server, counts a change of its tools into the epoch, skips what is not its
answer. On top of it the MCP client reads pages of the catalog (`Page`), checks
that one epoch covers them, calls, and looks at the epoch again; the LSP client
reads the file, opens it, queries, renders targets that may lie in another file,
and reads every file again before it believes the answer. The server answers in
any order, late or with an error, chatters, changes its tools, asks, and dies;
any failure of a call stops the process.

### Server

One thread takes a line, handles it to the end and looks at the flag. A line is
what the dispatcher tells apart: its shape, id, method, version in `_meta`,
params. `ListIds`, `ResolveOne` and `ListReply` are the steps of tools/list
between which the supervisor may publish. `Owed` is what a line calls for.

### Log

Records are numbers; each step of a rotation is a step of the model that may do
nothing, and the program may be killed between two of them. `LogTrail` is about
the sets of records in the files: each file is ascending and a file is older
than the one before it; the newest record is held; without faults the records
held are an interval.

### Capture

`Spawn`, the wait for the report of exec, the drain loop with one ready
descriptor per step, the deadline, and reaping. The program may start a
descendant, close its streams, ignore its input, and never exit. `made` and
`taken` count bytes per stream.

### Edit and EditText

`Edit` has the control of cmd_patch, cmd_replace and cmd_insert: load and plan
each target, compare with the expected version, stage a temporary file, compare
the version again, rename; on a failure restore what was written, each file only
if it still is what this call wrote. Contents are opaque. The comparison and the
rename are two system calls, and a foreign write between them is not noticed by
the code; the property says what is promised outside that window. `EditText` has
the text: line endings, literal and regular replacement, insertion, hunks.

### Policy and Fs

A tree is a function from paths to directories, files and links. `os_realpath` is
the kernel's resolution (external), written as two recursive functions: `Along`
goes down the names of a path, `Through` gives it links inside links up to
`HopMax`. `astools_path_canonical` resolves the deepest existing ancestor and
appends the rest; `walk_type` decides.

`Fs` is a machine of system calls on what `walk_type` let through. `Call` is the
pre-flight and the beginning of a command; after it each step is one system call
with the frame on top of `work`, which stands for the C stack of the recursive
walks (`rmtree`, `copy_tree`, `list_walk`): "drop" looks at a path, "rmdir" holds
the names of a directory that was read, "tree" and "entries" do the same for a
copy, "walk" and "listing" for a list, "file" opens, "data" fills. Every system
call resolves its paths in the tree as it is by then, and any of them may be the
one that fails (`Fails`), after which nothing more is done. Two mounts make a
rename fail with EXDEV (`Across`). A list keeps only `limit` + 1 entries while it
walks (`ent_keep`), as the code does.

### Matchers, Types, Contracts, Selection, Codecs

Pure code as operators, each with a reference definition written independently
of it: the language a pattern denotes, the numbers a bound compares, JSON
Schema's own meaning (`Accepts`), SemVer's order, the sum of a duration. Numbers
in `Types` are counted in halves with `Width` bits and `Precision` significant
ones, so that the case "an integer no float can hold" is small.

- `Matchers`. A pattern is parsed with its classes, escapes, braces and every
  refusal of a malformed one, compiled and simulated. Globs have classes with
  ranges, negation, a first `]` as a member, and a class that never ends as a
  literal `[`. Characters are those of `Ascii`, in the order of their bytes. Case
  folding and the caps on size, nesting and counts are left out.
- `Contracts`. A command bound to an MCP server is served its own schema and the
  reviewed one under `allOf`, as `astools_jschema_input` writes it. JSON arguments
  become xcdn text (`jx_to_xcdn`): strings character by character with their escapes,
  names bare or quoted, numbers marked as float where `%.17g` prints a point or an
  exponent or `.0` is added. `xcdn_parse` reads that text again; it is the parser of
  the vendored library, modelled as external. The characters of a name (all that
  `key_is_bare` looks at) are one flag. Descriptions and defaults in a schema are
  annotations and are left out.
- `Codecs`. UTF-8 is validated as `utf8.c` does it: four lengths, no overlong form, no
  surrogate, nothing above U+10FFFF. Paths and URIs are bytes, with the caps of
  `lsp_uri.c` (`PathCap`). A frame's header is a sequence of words and marks. `cmd_read`
  has its four refused arguments and each failing system call; a call interrupted by a
  signal is repeated, so it is no case of its own. A failing probe for one more byte is
  ignored by the code: `truncated` is then FALSE though more may follow. Durations are
  parsed from their text, with the limits of `number` (`DigitsMax`, `Int64Max`) and of
  the sum as constants, and so are the units, since the limits are small in the run.

### What all modules leave out

Allocation failures, the build without threads, the wording of messages, and,
outside the modules on text and types, the contents of arguments and results.
Integers are small everywhere they are counted; the only ones in the code that
could wrap (the 32-bit age of an error slot, the revision) are not followed that
far.

## 3. The runs

| run | instance | what it shows |
|---|---|---|
| `invocation_safe` | 2 invocations, 1 slot, 2 contents of which 1 approved, `enforce`, 2 replacements | slot counters exact on every exit (`SlotAccounting`); counted and audited exactly once under the right counter (`Ledger`); no tool runs with an identity that was not current after admission (`DispatchIsFresh`); refinement of the service |
| `invocation_live` | 2 invocations (one a task), 1 slot, a process tool and a library that may never return | a task stopped before dispatch never runs its tool; result strings have one owner; each process call returns and `astools_task_free` completes (`NobodyHangs`) |
| `registry` | 1 package with 3 contents, 2 scanning threads, 2 replacements, removal, 1 toggle, 1 approval | what resolves passed its gates and the number of enabled tools is exact (`TableSound`); the host's switch survives; the revision moves with what resolves; the table converges to the disk |
| `registry_stable` | a toggle on a tool of another platform | **violation**, see section 6 |
| `lockfile_lost` | 2 approvals at once | **violation**, see section 6 |
| `diagnostics_receipt` | 2 threads, 1 context | **violation**, see section 6 |
| `pool_safe` | 2 calls, 2 nodes, 2 identities, polite and other tools | one user per instance, limits and scratch directories (`PoolSound`), freshness, no replay of a request and no stale answer to the next call (`NoCrossTalk`) |
| `pool_live` | 2 calls, 1 node, any tool | each call returns; instances of a replaced package go (`PoolProgress`) |
| `parts` | descriptors: 4, with 2 scans and 2 holders; texts: 2 threads, 3 contexts, 2 slots; log: 3 files, 9 records, 2 failing steps; library: 3 calls, 2 contents; capture: pipes and caps of 2, 3 bytes each way | exact counts, no use after free, nothing leaks; texts never cross contexts and a described failure carries its own description; the log is in order, keeps its newest record whatever fails, and has no gap when nothing does; one init, one shutdown; an output without a mark is complete; captured runs end |
| `wire` | one-shot: a request and a response longer than a pipe, stderr longer than its limit, one unit of excess output; foreign: 2 calls, 2 unread messages, receives of 3 messages, 2 pages, 1 change | every verdict has its cause, a calm tool is served, nothing of the group survives, stderr is the newest tail (`OneShotJustified`); a call is completed by the answer to its own request; it relies on one catalog and on files as they are after the answer (`OneVersion`); every call ends |
| `host` | lockfile: 2 approvers, 2 tools, 2 hashes, crashes and failing writes everywhere; edit: 6 calls on up to 3 files, 2 foreign writes; fs: 3 trees with links, 2 sets of grants, 2 calls out of some 150, each a sequence of system calls that may stop anywhere, recursion to depth 2; server: 2 tools, every line | nothing is trusted that nobody approved; without overlap the lockfile is whole and keeps every approval; a patch changes all its files or none, and never over an unseen change; what the fs tool reports is on disk; nothing outside the write grants changes; a stale list is announced; each line is answered once in its own version |
| `algorithms` | inputs of 24 topics, named in `MCAlgorithms`; `PathCap` 6, `HeaderCap` 14, `Int64Max` 15500, `DigitsMax` 5, units of 8000, 5000, 4000 and 2000 ms | each algorithm against its reference definition, on every input: patterns and globs match what they denote and malformed ones are refused; edits change what they say; arguments, schemas, grammars and what a server receives agree; listing and resolution agree; conversions lose nothing |

### Bounds and why they are enough

Each bound is a constant whose comment says *bound*. Two invocations over one
slot (or one node) are the smallest instance in which one waits while the other
is in every other place of the pipeline; a third would wait in the same place. Two contents are
one replacement, and the second edit puts the first content back, which is the
case a comparison of identities could miss. Two approvers and two tools are what
a lost update needs. Three contexts over two slots are what an eviction needs.
A pipe of one unit under a request and a response of two makes both sides block.
A patch of three files can fail at the first, a middle and the last one, with
something to undo before it and something untouched behind it; two foreign writes
are one before and one after the tool's own. Two file commands let the second
meet links and remains the first one left. A catalog of two pages can change
between them; a receive of three messages is exhausted by chatter. Three log
files have a first, a middle and a last rename. The sets of inputs of
`MCAlgorithms` are named in it: patterns of up to five symbols over texts of
three, classes of up to five characters, trees of two operators written as patterns
(so that the parser is compared with something other than itself), files of up to five characters of which two are line endings, types nested
past the depth limit, frames cut at every byte, bytes on both sides of each limit of
UTF-8 in texts of up to four, and durations whose numbers and sums lie on both sides
of `Int64Max`: with small units the sum overflows at every part, which the real ones
do only far from any bound TLC could count to.
Bounds on stray lines and stderr (`MaxLines`, `MaxErr`, `MaxStray`) keep the tool
finite; see section 6 for what the second of them hides.

### Fairness

Liveness is checked under fairness the code's scheduling gives: threads run on
once they can (`WF` of the thread's steps), waits in the code are timed (50 ms,
100 ms, 1 s), so a waiter looks again without being signalled; the monotonic
clock reaches a deadline; the supervisor polls for ever. Nothing is assumed of
hosts (they need not wait, cancel or free) nor of tools: a tool may stay silent
for ever. The exceptions are stated where they are used: in `OneShot` a calm
tool is scheduled and then no deadline is needed; in `Invocation` a library call
need not return, and then only the calls of process tools are promised to; in
`Foreign` no deadline comes and the server keeps talking, for the budgets must end
a call even then; in `Capture` the tool is fair and the deadline comes, nothing
is asked of the program. In the instances of several components each fairness
condition is stated for the behaviours whose `subject` it is about.

## 4. What is proved

Every safety and action property of the runs is a theorem for every value of the
constants, except those of `MCAlgorithms`, of which what `CodecsExact` evaluates and
two of the five promises of `ListingAgrees` are proved for every input (the rest:
section 5). Such a theorem names the property a run checks;
the inductive invariant behind it was itself checked with TLC on the run's instance
before it was proved.

The constants obey assumptions that stand beside them. They say that the actors
and resources that are counted are finite sets, that limits and bounds are natural
numbers (positive where the configuration refuses zero), and that the markers of
the model are not values: `None` is no content, entry, node or inode, `Partial`
no document, `NoId` no request id. Two of them say what the code refuses before
or outside the modelled part: `EditAssumption`, that a patch has a section
(`tool_edit.c:1283`) and a replacement one file, and `PartsAssumption`, that a log
has a file (`config.c:851`). TLC evaluates all of them.

`InvocationProofs`, about `Invocation`: any number of invocations and slots.

- `TypeCorrect`: `[]TypeOK`. Type correctness alone is not inductive: that
  `slots_waiting` never goes below zero needs `WaitInv` (it is the number of
  invocations whose local `waiting` is set, and these are all in the loop).
- `SlotsExact`: `[]SlotAccounting`. Inductive with `StageInv` (which stages of
  the pipeline hold a slot, and that a descriptor is held there) and `SlotInv`
  (`slots_used` is the number of holders and at most the limit).
- `DispatchFresh`: `[]DispatchIsFresh`. Inductive with `FreshInv`, which carries
  what `Recheck`, `Verify` and `CheckSnapshot` have each established about
  `since` through the stages in between, while scans and replacements only add
  to `since`.
- `BooksBalance`: `[]Ledger`. `LedgerInv` adds that whoever is about to be counted
  has a descriptor and a verdict; every step but `Count` and `Audit` leaves the sets
  of counted and audited invocations alone.
- `OneOwner`: `[]ResultOwnership`. `OwnInv` ties the owners of the strings to the
  place of the thread: nobody owns them before it returns.
- `StoppedStaysStopped`: the action property `StoppedNeverRuns`: a dispatch is in
  `Gate` only, after its look at flag and clock.
- `PipelineImplementsService`: `Spec => ImplementsService`. Needs the slots and
  `AdmittedInv` (an answer is possible only after admission, and who has not been
  admitted has no slot); each action is either one step of the service or
  invisible to it.

`PersistentPoolProofs`, about `PersistentPool`: any number of calls, instances,
limits and lines.

- `PoolTypes`, `InstancesExclusive`: `[]ExclusiveUse`. `UseInv`: an instance
  belongs to the call whose `node` it is or to the supervisor that pinned it, is
  busy exactly then, and has its user's identity; `CountInv`: the published
  counters are cardinalities. Both need the lemma `ExchangeIsLocal`: whatever a
  step of validation, start, handshake, exchange or settlement does, it does it to
  the instance of the one call that takes it.
- `PoolIsSound`: `[]PoolSound`. `BoundInv` (both limits hold, because a new
  instance and a retired one are all that changes the list) and `InstInv` (what a
  process and its scratch directory may be while its user is at each stage, and
  between users).
- `RequestsFresh`: `[]InstanceFresh`. `FreshInv` carries what each recheck saw to
  the stages behind it; replacements and scans only add to what was seen.
- `CallsSeparate`: `[]NoCrossTalk`. `CallInv` (a request is delivered once and not
  after a refusal) and the part of `InstInv` about polite tools: between two
  users such a process has neither heard nor said anything.

`RegistryProofs`, about `Registry`: any packages, contents, scanning threads.

- `TableAgrees`: `[]TableSound`, and `DisableSticks`: `[]HostDisableSticky`. The
  table is sound with `OffInv`: what the host has switched off is in the table, so
  a publication can take the switch over.
- `RevisionIsCurrent`: the action property `RevisionTracks`. A publication that
  leaves every key of the comparison alone leaves alone what a host sees.

The same module is about `Selection`, at any length of a version and any table:

- `PrecedenceIsExact`: `PrecedenceExact(a, b)` for all versions that parse. The code
  compares numeric fields by length and then as text; `BehindStaysBehind` (of two
  prefixes the one of less value stays behind, whatever digits follow) and the
  refusal of leading zeros make that the order of their values.
- `CatalogsFit`: `CatalogFits(tools, level, budget)`, for any sizes of the tools,
  monotonic or not: the loop tries its forms in one order and stops at the first.

`HostProofs`, about `Lockfile`, the first part of `Host`: any approvers, tools,
hashes, crashes.

- `TrustIsEarned`: `[]OnlyApprovedTrusted`. `FileInv` (names and inodes: the
  lockfile and its temporary name are never one file; inodes are used once,
  which needs a count of the attempts, `SpaceInv`) and `VouchInv` (what is in a
  file, or on its way into one, was computed by an approval).
- `ApprovalsLast`: `[]LockfileKept`. `CalmInv`: while no two approvals have
  overlapped, what the one under way carries holds every reported approval.

`PartsProofs`, about `Descriptors`, the first part of `MCParts`: any set of
descriptors, holders, scanners.

- `CountsExact`: `[]RefcountExact`, and `NoDanglingDescriptor`:
  `[]NoUseAfterFree`. Both follow from one inductive invariant, `RefInv`. Exact
  counts alone are not preserved by an unref, because what the table holds must
  count once (`OneTable`: a descriptor is in one table only, published, being
  built or being taken down); a pin is safe because a reader keeps the lock
  (`Referenced`: what is being picked is still published, and nobody knows what a
  scan is still building); and the destruction after the mutex is safe because
  whoever is about to destroy is the last to know the descriptor (`LastOne`).

`PartsProofs`, about the rest of `MCParts`: any threads, contexts, slots of a map, calls,
contents, log files, records, pipes, caps.

- `LibraryIsOnce`: `NodeInv` (one initialization, failed or not, made the node what it
  is, and the image is mapped from then to the close) and `CallersInv` (the image
  cannot change while a call is past the acquisition).
- `TextsAreOwn`: `AboutInv` (every text is held for the context it is about) and
  `OwnInv` (from the failure to the result nothing evicts it).
- `CapturesAreExact`: `CaptureInv`. A stream may be closed only when it is
  complete or marked, and stays complete because nobody is left to write.
- `TrailIsKept`: `OrderInv`, `NewestInv` and `ConvexInv`. The last one needs the
  place of a rotation: without a failure the file the next rename replaces is
  empty.

`WireProofs`, about `MCWire`: any sizes of pipes, requests, responses, limits, any
number of calls, messages, pages and changes.

- `VerdictsAreJustified`: `[]OneShotJustified`. `OutInv` and `ErrInv` say that what
  was read and what is in the pipes is together what was written (for stderr, its
  newest part); `PlaceInv` what each place of the executor says of the process
  group; `CauseInv` that a reason to leave the loop was true, and that a calm tool
  had answered in full before the end of its output.
- `AnswersAreOwn`: `[]AnswersOwn`. `AskInv` (serials are never used twice in a
  process, and each verdict on the wire is to a request of it) and `PhaseInv` (the
  client waits for its last request).
- `VersionsAreOne`: `[]OneVersion`. `CatInv`: each change of the tools has its
  announcement in place among the messages, so what is read in one epoch is of one
  catalog. `FileInv`: what the files have held since the answer.

`WireProofs`, about `Codecs`: every input of every conversion. The theorems name the
operators of `CodecsExact`, which `algorithms` evaluates on short inputs.

- `DurationsAreExact`: `DurationExact(s)` for every text. The parser only makes parts
  that are numbers, a unit and a fraction below it (`NumberTyped`, `DecimalsTyped`,
  `PartsTyped`); the partial sums are exact as long as they fit, and once one does not
  fit the result stays refused (`AddExact`: the two comparisons of `add` refuse exactly
  what does not fit, which is where the rounding of the division matters). The units
  are assumed positive (`UnitsAssumed`). Which texts have which parts is compared with
  ISO 8601 by TLC.
- `PositionsAreExact`: `PositionExact(text, line, col)` for every text. The lines of a
  text are told apart by their starts, and a finite set of numbers has an element
  with any smaller number of others below it (`Nth`).
- `FramesAreStable`: `FrameStable(stream, cap)` for every stream, every cut and every
  limit. An early look at the stream shows the same ends of headers up to the cut
  (`EarlySame`); if there is none yet, only what no later byte can mend is refused;
  if there is one, it is the first one for good, and the length in it is a natural
  number (`HeaderTold`), so the payload is the same later (`PayloadSame`).
- `Base64IsExact`: `Base64Exact(data, symbols)` for all bytes and all symbols. `Coded(d,
  e, g)` relates bytes to their text in `g` quadruples without saying which was
  computed from which: three bytes and four symbols are the same 24 bits, and a
  symbol is `Pad` where its byte is not there. The encoder's output is so related
  (`EncodeCoded`), and whatever the decoder returns (`DecodeCoded`), which accepts
  every such text (`CodedAccepted`: the bits to spare are zero exactly when the bytes
  are not there, `SpareBits`); the relation is one to one (`CodedOnce`, `CodedAlike`).
- `PagesAreExact`: `PagesExact(data, max)` for every file and every page size above 0,
  read with `cmd_read` while no system call fails (`Sound`).
  A page is what is left, or its first `max` bytes when it says that more follow
  (`PageIs`, from `Base64IsExact`); by induction over what is left, the pages from any
  offset on are the bytes from there.
- `UrisAreExact`: `UriExact(s)` for every string without a NUL and every cap on paths.
  A path that has a URI is read back from it as the same bytes, unless it has a
  backslash, and then its URI is refused; a path read from any URI has a URI of its own
  that is read as that path, so the cap never separates the two. `Reread`: from the
  place where a byte was written on, the decoder reads the rest of the path, by
  induction from the end, with `PieceRead` for one byte, escaped or not. `ReadPlain`: no
  URI reads as a path with a NUL or a backslash, so a path that was read is one that
  `Reread` speaks of. Sequences of pieces are `Flattened` and `Blocks`. Both directions
  ask the same question of `jx_utf8_valid`, so the theorem needs nothing of it; that it
  accepts exactly the encodings of Unicode (`Utf8Exact`) is checked by TLC.

`HostProofs`, about the rest of `Host`: any files, patches of any length, foreign writes, tools,
request ids.

- `PatchesAreAtomic`: `[]EditAtomic`. `TargetInv`: the targets are distinct, and
  those before the one at hand are the written ones. `TempInv`: one temporary file
  at a time, with what replaces its target. `DiskInv`: what is not written is as it
  would be without the tool; what is written is the tool's over the base or has
  been written by somebody since; behind a rollback everything is as without the
  tool. The history variable `faulty` marks what is not promised: an edit between
  the last comparison and the rename, and a restore that fails.
- `ListsStayFresh`: `[]ListFresh`. `ListInv`: while no signal is held, the list
  being built and what is still to resolve are together the table.
- `LinesAreAnswered`: `[]AnsweredOnce`. `LineInv` says what a line at the dispatcher
  may be; the lemma `Dispatched` goes through its cases, and `HandledVersion` shows
  that the version of an answer never depends on the line before.

`FsProofs`, about `Policy` and `Fs`: any trees with any links in them, any
workspace and mount, any sets of grants, any sequence of calls, any depth limit.

- `FsSafety`: `[]FsInv`, and `FsGranted`: the action property `Granted`. What a
  command may change was decided by the pre-flight, on a tree that the command
  itself then changes, and every system call resolves its path anew; so the
  invariant has to say why each path still leads where it was checked. `FsInv`
  says it of the frames that are left. A removal: every frame is below the call's
  path, no link lies on the way to it (`lstat` before each descent), and a
  directory that is being emptied is none (`RemovingFrames`). A copy: every frame
  is below the destination, what comes before its last name is where it says or
  nowhere (`Lexical`), and under the innermost frame there are only directories
  that exist (`CopiedDirs`), so `O_NOFOLLOW` and `lstat` in the last place are
  enough. A move: both paths are as they were checked. A write: the way to the
  path has no link that leads elsewhere (`Straight`), and a link in the last place
  was there before the call.

- `FsResults`: `[]FilesTrue`, from `FsInv` and `ResultInv`, which relates the tree as
  it is to the tree before the call (`op.before`) and to the frames that are left. A
  removal (`RemovedInv`): what is gone was below the path and was counted one by one,
  and the path itself is what the outermost frame is about, so that when no frame is
  left it is gone, and with it, as a tree has no entry without its directory, all that
  was below it. A copy (`CopiedInv`, for paths of which neither is under the other):
  the source is as it was, every frame has the source and the place in the destination
  that belong together, and every entry of the source has its copy or is awaited by a
  frame, whatever stood at its place before. A move (`MovedInv`): until the last step
  the source is where it was, and across devices `unlink` comes up only when the
  destination holds the content. A list (`ListedInv`): the frames have parts of the
  listing due that do not overlap, and what is kept are the smallest `max_entries + 1`
  of what is due no longer; that such a set gives the beginning of the whole listing
  and says whether there is more is `SmallestExact`, and that `strcmp` orders the
  paths is `LessTransitive` and `LessTotal`.

  Below it lie the facts about paths the proofs need: resolution in a tree gives a
  path of the tree that is no link, or nothing (`ThroughEnds`); a canonical path
  resolves to itself, and one that does not exist to its canonical ancestor and
  names that do not exist (`Canonical`); making or removing one entry, and moving
  a subtree (`RenamedTree`), leave a tree.

`Induction`, used by the two theorem modules that reason about recursive functions.
The library's induction theorems have a predicate as a parameter, which no prover
here can instantiate. `Least` (from `WFMin`) gives a set of numbers its least
element, `SetInduction` puts a set in the place of the predicate, and `Iteration` and
`IterationTo` give a recursive function over numbers its defining equation.
`FsProofs` uses them for the names of a path and for links inside links.

## 5. What is only model-checked

- Liveness (`NobodyHangs`, `Converges`, `PartsFinish`, `PoolProgress`,
  `ConversationsEnd`): fairness and `ENABLED` are outside the prover's reach.
- Of `Codecs`, the validation of UTF-8 and which texts are which durations
  (`Utf8Exact` and the reference for durations in `MCAlgorithms`).
- The algorithms of `MCAlgorithms` other than `Codecs`: patterns, edits, types and
  contracts are recursive operators over trees and documents, whose modules are
  outside the prover's reach. Of `Selection`, resolution, listing and ranking
  filter, fold and sort with operators that take an operator (`SelectSeq`,
  `FoldLeft`, `SortSeq`), which the prover cannot expand or instantiate.

## 6. Where code and text disagree

Three runs end in a violation and show the behaviour in a short trace.

- `registry_stable`: `astools_tool_enable` computes `enabled` without the
  platform gate of the scan (`api.c:441`); an enabled tool of another platform
  counts as changed at the next identical refresh, while `docs/discovery.md:29`
  says an identical refresh does not move the revision.
- `lockfile_lost`: two approvals that overlap load the same document, and the
  second rename drops the first approval (`lockfile.c:627`), against the thread
  safety `include/astools.h:13` promises.
- `diagnostics_receipt`: an invocation that fails with a bare code reports the
  text another thread left in the shared buffer (`invoke.c:68`), against the
  comment above it.

More were met while modelling. They contradict no statement of the repository, or
are stated where the property they would break makes an exception:

- `host_disabled` is carried over from the table a scan replaces, so one refresh
  that misses the package (it is being rewritten) forgets the host's switch
  (`registry.c:475`). `HostDisableSticky` is stated for packages no refresh has
  missed.
- Overlapping approvals share the name `<path>.tmp`, so one may rename a file
  the other is still writing; `LockfileKept` is stated without overlap.
- The drain of stderr after a normal exit runs before the rest of the process
  group is killed (`execution_oneshot.c:171`). A descendant that writes without a
  pause keeps it going, past the deadline. `ConversationsEnd` holds because
  `MaxErr` bounds what is written.
- A tool named `astools` with a command `stats` has the same MCP name as a
  management tool, which wins (`mcp/main.c:127`).
- `edit` does not remove the directories it made when it rolls back, and a
  foreign write between the last comparison and the rename is overwritten.
- `fs.copy` of a file onto itself truncates it, and of a directory into itself
  recurses to the depth limit; `ResultTrue` speaks of copies to a place apart.
- Where a missing path is granted, `ensure_parent_dirs` makes the directories above
  it, which no grant covers; and `open` with O_CREAT follows a link in the last place
  that leads nowhere (`tool_fs.c:347`), so a write may create the file such a link
  names. `Granted` makes these two exceptions and no other.
- `fs.read` in utf8 ends at a NUL byte and does not say `truncated`; `PagesExact`
  is about base64.
- A path with a backslash has a URI (`lsp_uri.c:18` escapes it), which
  `astools_lsp_path` refuses (`lsp_uri.c:42`): a file of that name cannot be queried.
  `UriExact` states both.
- A reviewed schema is applied after the defaults are injected, while the served
  `allOf` speaks of the arguments as sent; `ServedAgrees` compares the two where no
  default is injected.
- Over MCP no argument can be of kind bytes, datetime, duration or uuid: JSON
  becomes strings, which the check refuses. `ServedAgrees` excepts these kinds,
  empty paths, lengths of non-ASCII text (characters in the schema, bytes in the
  check) and `3.0`, an integer to JSON Schema and a float to the engine.
- A default nested deeper than `CLONE_DEPTH_MAX` loads, and every call that omits
  it is refused (`DefaultGiven`).
- The grammar ignores bounds; rendering a type truncates fractional bounds of an
  integer type.
- Approval compares the text of versions, resolution their precedence: with build
  metadata they may find different tools (`ApprovalFinds` is stated without).
- `edit.replace` counts occurrences without overlap; a lone CR before an inserted
  LF becomes part of it; an empty last line of a file without a final newline
  merges with what is inserted after it.

## 7. Not modelled

- Readers of documents (xCDN, JSON, the sections of manifests and configuration
  other than parameters), call lines and the native protocol's text: keys read
  one by one into records, no state, and the callers' modules have the outcome.
- Digests, identifiers, clocks, and the prose of catalogs and descriptions.
- The git, grep, project, code, proc, env and sys tools: argument lists for other
  programs and the rendering of their output; the runs themselves are `Capture`
  and `Matchers`. `fs.stat`.
- Sandboxes, the jail helper and the operating system layer: calls into the
  system, whose outcomes are inputs of the modules above. The Windows and stub
  variants of the layer.
- `astools-check`, a front end; its approvals are the second writer of `Lockfile`.
- Opening and closing a context, duplicates of a package across roots, and the
  views of a selection beyond the identity check of `Invocation`.

## 8. Plan

`PersistentPool`, `OneShot`, `Library` and `Foreign` are what `ExecReturns` and
`ExecStopped` of `Invocation` stand for; showing that each of them implements
that pair of actions is the composition still to be stated. An abstract
specification of `Edit` (all files at once, or none) and of `Lockfile` (a set of
approvals) would turn their invariants into refinements.
