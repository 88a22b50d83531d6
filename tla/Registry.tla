------------------------------ MODULE Registry ------------------------------
(***************************************************************************)
(* The tool registry of astools: astools_registry_scan (registry.c) run by *)
(* the supervisor, by astools_refresh and by astools_tool_approve, against *)
(* host toggles (astools_tool_enable), package replacements and approvals. *)
(*                                                                         *)
(* A scan reads the packages and the lockfile without any lock and         *)
(* publishes under the write lock, so scans overlap and publish out of     *)
(* order.  A package is one id@version in one directory; its manifest and  *)
(* artifacts are one identity.                                             *)
(***************************************************************************)
EXTENDS Naturals, FiniteSets

CONSTANTS
    Pkg,          \* the packages, one id@version each
    Refs,         \* what a ref can name: one version, or all those of an id
    Content,      \* content identities (SHA-256) a package can have
    Usable,       \* identities whose manifest has an entry for this platform
    Enforce,      \* registry.pinning = "enforce"
    Thread,       \* threads that refresh the registry or approve tools
    Poller,       \* the supervisor thread, which refreshes for ever
    MayRemove,    \* packages may vanish from disk, or be replaced in two steps
    MaxEdits,     \* bound: replacements of package bytes
    MaxToggles,   \* bound: calls of astools_tool_enable
    MaxApprovals, \* bound: calls of astools_tool_approve
    None          \* no package, no lockfile entry, no table entry

ASSUME RegistryAssumption ==
    /\ IsFiniteSet(Pkg)
    /\ Refs \subseteq SUBSET Pkg
    /\ Usable \subseteq Content
    /\ None \notin Content
    /\ Poller \in Thread
    /\ Enforce \in BOOLEAN /\ MayRemove \in BOOLEAN
    /\ MaxEdits \in Nat /\ MaxToggles \in Nat /\ MaxApprovals \in Nat

Document == [Pkg -> Content \cup {None}]
LockState == {"ok", "mismatch", "unlisted"}
Entry == [sha : Content, lock : LockState, host_disabled : BOOLEAN, enabled : BOOLEAN]

ASSUME NoEntryAssumption == None \notin Entry /\ None \notin Content \X BOOLEAN

VARIABLES
    disk,       \* the package bytes on disk
    lockdisk,   \* the lockfile on disk
    lockfile,   \* ctx->lockfile
    table,      \* ctx->tools
    revision,   \* ctx->registry_revision
    enabled_n,  \* ctx->stats.tools_enabled
    pc,         \* where each thread is
    todo,       \* packages its current phase has still to read
    found,      \* tv: identities it loaded
    lf,         \* the lockfile it loaded
    checked,    \* lock_state of the candidates it checked
    off,        \* history: packages in the table, last toggled `off' by the host
    edits, toggles, approvals

worldVars == <<disk, lockdisk>>
sharedVars == <<lockfile, table, revision, enabled_n>>
scanVars == <<todo, found, lf, checked>>
boundVars == <<edits, toggles, approvals>>
vars == <<worldVars, sharedVars, pc, scanVars, off, boundVars>>

TypeOK ==
    /\ disk \in Document /\ lockdisk \in Document /\ lockfile \in Document
    /\ table \in [Pkg -> Entry \cup {None}]
    /\ revision \in Nat /\ enabled_n \in Nat
    /\ pc \in [Thread -> {"idle", "load", "policy", "reload", "adopt"}]
    /\ todo \in [Thread -> SUBSET Pkg]
    /\ found \in [Thread -> Document]
    /\ lf \in [Thread -> Document]
    /\ checked \in [Thread -> [Pkg -> LockState]]
    /\ off \subseteq Pkg
    /\ edits \in 0..MaxEdits
    /\ toggles \in 0..MaxToggles
    /\ approvals \in 0..MaxApprovals

Empty == [p \in Pkg |-> None]
Unchecked == [p \in Pkg |-> "unlisted"]

-----------------------------------------------------------------------------
(* Pure parts of a scan.                                                   *)

\* astools_lockfile_check against the bytes on disk at this moment.
CheckLock(document, p) ==
    IF document[p] = None THEN "unlisted"
    ELSE IF disk[p] = document[p] THEN "ok" ELSE "mismatch"

\* The pinning gate.
Passes(lock) == Enforce => lock = "ok"

\* Phase 2: a candidate descriptor.
Candidate(sha, lock) ==
    [sha |-> sha, lock |-> lock, host_disabled |-> FALSE,
     enabled |-> sha \in Usable /\ Passes(lock)]

\* Fault: the toggle of the replaced descriptor is dropped.
CarriedForgets(new, old) == new

\* Phase 4: the host's toggle is sticky across a refresh.
Carried(new, old) ==
    IF old = None THEN new
    ELSE [new EXCEPT !.host_disabled = old.host_disabled,
                     !.enabled = @ /\ ~old.host_disabled]

\* Fault: the comparison leaves out the content identity.
KeyByState(entry) == IF entry = None THEN None ELSE entry.enabled

\* tool_key: what tables_differ compares.
Key(entry) == IF entry = None THEN None ELSE <<entry.sha, entry.enabled>>

\* A bare or exact ref resolves to this package (astools_registry_resolve).
Resolves(entry) == entry # None /\ entry.sha \in Usable /\ entry.enabled

\* The tools_enabled statistic: a scan counts the enabled descriptors, ...
CountScanned(tools) == Cardinality({p \in Pkg : tools[p] # None /\ tools[p].enabled})

\* Fault: the descriptors of other platforms are counted too.
CountToggledAll(tools) == CountScanned(tools)

\* ... a toggle those that are also available.
CountToggled(tools) ==
    Cardinality({p \in Pkg : /\ tools[p] # None
                             /\ tools[p].enabled
                             /\ tools[p].sha \in Usable})

\* Fault: a rejected package gets a descriptor too.
ReplacementOfAll(sha, lock, old) == Carried(Candidate(sha, lock), old)

\* What a scan that found identity sha puts in place of an old entry.
Replacement(sha, lock, old) ==
    IF sha = None THEN None ELSE Carried(Candidate(sha, lock), old)

\* The table astools_open's first scan publishes.
Scanned ==
    [p \in Pkg |-> Replacement(disk[p], CheckLock(lockdisk, p), None)]

Init ==
    /\ disk \in [Pkg -> Content]
    /\ lockdisk \in [Pkg -> Content \cup {None}]
    /\ lockfile = lockdisk
    /\ table = Scanned
    /\ revision = 1
    /\ enabled_n = CountScanned(table)
    /\ pc = [t \in Thread |-> "idle"]
    /\ todo = [t \in Thread |-> {}]
    /\ found = [t \in Thread |-> Empty]
    /\ lf = [t \in Thread |-> Empty]
    /\ checked = [t \in Thread |-> Unchecked]
    /\ off = {}
    /\ edits = 0 /\ toggles = 0 /\ approvals = 0

-----------------------------------------------------------------------------
(* astools_registry_scan.                                                  *)

Goto(t, label) == pc' = [pc EXCEPT ![t] = label]

BeginScan(t) ==
    /\ Goto(t, "load")
    /\ todo' = [todo EXCEPT ![t] = Pkg]

\* astools_refresh, or the supervisor's poll when it is due.
Refresh(t) ==
    /\ pc[t] = "idle"
    /\ BeginScan(t)
    /\ UNCHANGED <<worldVars, sharedVars, found, lf, checked, off, boundVars>>

\* Phase 1, load_package: parse and hash one package.
LoadPackage(t, p) ==
    /\ pc[t] = "load"
    /\ p \in todo[t]
    /\ found' = [found EXCEPT ![t][p] = disk[p]]
    /\ todo' = [todo EXCEPT ![t] = @ \ {p}]
    /\ UNCHANGED <<worldVars, sharedVars, pc, lf, checked, off, boundVars>>

\* Fault: the scan reuses the lockfile of the context.
LoadLockfileCached(t) ==
    /\ pc[t] = "load"
    /\ todo[t] = {}
    /\ lf' = [lf EXCEPT ![t] = lockfile]
    /\ todo' = [todo EXCEPT ![t] = {p \in Pkg : found[t][p] # None}]
    /\ Goto(t, "policy")
    /\ UNCHANGED <<worldVars, sharedVars, found, checked, off, boundVars>>

\* Phase 2: load the lockfile (a corrupt or missing one counts as empty) ...
LoadLockfile(t) ==
    /\ pc[t] = "load"
    /\ todo[t] = {}
    /\ lf' = [lf EXCEPT ![t] = lockdisk]
    /\ todo' = [todo EXCEPT ![t] = {p \in Pkg : found[t][p] # None}]
    /\ Goto(t, "policy")
    /\ UNCHANGED <<worldVars, sharedVars, found, checked, off, boundVars>>

\* ... and hash every candidate's files a second time against it.
CheckPackage(t, p) ==
    /\ pc[t] = "policy"
    /\ p \in todo[t]
    /\ checked' = [checked EXCEPT ![t][p] = CheckLock(lf[t], p)]
    /\ todo' = [todo EXCEPT ![t] = @ \ {p}]
    /\ UNCHANGED <<worldVars, sharedVars, pc, found, lf, off, boundVars>>

\* Phase 4, under the write lock: the candidates take over the toggles of the
\* entries they replace, the revision moves when a key differs, and the scan's
\* lockfile becomes the context's.
Publish(t) ==
    /\ pc[t] = "policy"
    /\ todo[t] = {}
    /\ table' = [p \in Pkg |-> Replacement(found[t][p], checked[t][p], table[p])]
    /\ revision' = IF \E p \in Pkg : Key(table[p]) # Key(table'[p])
                   THEN revision + 1 ELSE revision
    /\ enabled_n' = CountScanned(table')
    /\ lockfile' = lf[t]
    /\ found' = [found EXCEPT ![t] = Empty]
    /\ lf' = [lf EXCEPT ![t] = Empty]
    /\ checked' = [checked EXCEPT ![t] = Unchecked]
    /\ off' = {p \in off : table'[p] # None}
    /\ Goto(t, "idle")
    /\ UNCHANGED <<worldVars, todo, boundVars>>

-----------------------------------------------------------------------------
(* Host operations.                                                        *)

\* Fault: the pinning gate is forgotten when a tool is switched on again.
ToggledUnpinned(entry, on) ==
    [entry EXCEPT !.host_disabled = ~on, !.enabled = on]

\* astools_tool_enable on one entry: host toggle AND pinning gate.
Toggled(entry, on) ==
    [entry EXCEPT !.host_disabled = ~on, !.enabled = on /\ Passes(entry.lock)]

\* A ref that matches nothing is NOT_FOUND and changes nothing.
ToolEnable(ref, on) ==
    LET matched == {p \in ref : table[p] # None}
        changed == \E p \in matched : table[p].host_disabled = on
    IN  /\ toggles < MaxToggles
        /\ matched # {}
        /\ toggles' = toggles + 1
        /\ table' = [p \in Pkg |-> IF p \in matched THEN Toggled(table[p], on) ELSE table[p]]
        /\ revision' = IF changed THEN revision + 1 ELSE revision
        /\ enabled_n' = CountToggled(table')
        /\ off' = IF on THEN off \ matched ELSE off \cup matched
        /\ UNCHANGED <<worldVars, lockfile, pc, scanVars, edits, approvals>>

\* astools_tool_approve: find_tool_admin needs an entry, enabled or not;
\* astools_lockfile_approve (module Lockfile) records the bytes on disk.
Approve(t, p) ==
    /\ approvals < MaxApprovals
    /\ pc[t] = "idle"
    /\ table[p] # None
    /\ disk[p] # None
    /\ lockdisk' = [lockdisk EXCEPT ![p] = disk[p]]
    /\ approvals' = approvals + 1
    /\ Goto(t, "reload")
    /\ UNCHANGED <<disk, sharedVars, scanVars, off, edits, toggles>>

\* It reloads the lockfile ...
Reload(t) ==
    /\ pc[t] = "reload"
    /\ lf' = [lf EXCEPT ![t] = lockdisk]
    /\ Goto(t, "adopt")
    /\ UNCHANGED <<worldVars, sharedVars, todo, found, checked, off, boundVars>>

\* ... installs it under the write lock, and scans.
Adopt(t) ==
    /\ pc[t] = "adopt"
    /\ lockfile' = lf[t]
    /\ lf' = [lf EXCEPT ![t] = Empty]
    /\ BeginScan(t)
    /\ UNCHANGED <<worldVars, table, revision, enabled_n, found, checked, off, boundVars>>

\* Package bytes are replaced; when they can be removed, a replacement may
\* also pass through a moment without a package.
EditDisk(p) ==
    /\ edits < MaxEdits
    /\ \E bytes \in (IF MayRemove THEN Content \cup {None} ELSE Content) \ {disk[p]} :
          disk' = [disk EXCEPT ![p] = bytes]
    /\ edits' = edits + 1
    /\ UNCHANGED <<lockdisk, sharedVars, pc, scanVars, off, toggles, approvals>>

-----------------------------------------------------------------------------
\* What a thread does once a scan or an approval has begun.
ScanStep(t) ==
    \/ \E p \in Pkg : LoadPackage(t, p) \/ CheckPackage(t, p)
    \/ LoadLockfile(t) \/ Publish(t) \/ Reload(t) \/ Adopt(t)

Next ==
    \/ \E t \in Thread : \/ Refresh(t) \/ ScanStep(t)
                         \/ \E p \in Pkg : Approve(t, p)
    \/ \E ref \in Refs, on \in BOOLEAN : ToolEnable(ref, on)
    \/ \E p \in Pkg : EditDisk(p)

Spec == Init /\ [][Next]_vars

\* Threads are scheduled, and the supervisor polls for ever
\* (registry.watch = "poll", worker_main's one-second loop).
Fairness ==
    /\ \A t \in Thread : WF_vars(ScanStep(t))
    /\ WF_vars(Refresh(Poller))

FairSpec == Spec /\ Fairness

-----------------------------------------------------------------------------
(* Properties.                                                             *)

\* However scans, approvals and toggles overlap, a tool that resolves is not
\* switched off by the host and passes the pinning gate, and a tool of this
\* platform that passes both resolves: tool_enable's computation of `enabled'
\* agrees with the scan's.
GatesHold ==
    \A p \in Pkg : table[p] # None /\ table[p].sha \in Usable =>
        (Resolves(table[p]) <=> ~table[p].host_disabled /\ Passes(table[p].lock))

\* The tools_enabled statistic, which two functions compute differently, is
\* the number of tools that resolve.
StatsExact == enabled_n = Cardinality({p \in Pkg : Resolves(table[p])})

\* What resolves and what is counted agree with the gates after any overlap of
\* scans, approvals and toggles.
TableSound == GatesHold /\ StatsExact

\* astools_tool_enable(off) sticks across refreshes, whatever scans were under
\* way when the host switched the tool off, as long as no refresh misses the
\* package.
HostDisableSticky == \A p \in off : table[p].host_disabled

\* What a host can call, and with which identity.
View(tools) == [p \in Pkg |-> IF Resolves(tools[p]) THEN tools[p].sha ELSE None]

\* The revision never goes back, and moves with every change of what resolves:
\* a host that sees the revision it cached may use the catalog it cached.
RevisionTracks ==
    [][/\ revision' >= revision
       /\ View(table') # View(table) => revision' > revision]_vars

\* The facts a scan establishes about a package, with the host's toggle.
Facts(entry) ==
    IF entry = None THEN None ELSE <<entry.sha, entry.lock, entry.host_disabled>>

\* A refresh that finds every package as it was keeps the revision stable.
IdenticalRefreshStable ==
    [][\A t \in Thread :
          Publish(t) /\ (\A p \in Pkg : Facts(table'[p]) = Facts(table[p]))
              => revision' = revision]_vars

\* Once packages, lockfile and toggles stop changing, the table settles on
\* what is on disk, however stale the scans that were under way.
UpToDate ==
    \A p \in Pkg :
        IF disk[p] = None THEN table[p] = None
        ELSE /\ table[p] # None
             /\ table[p].sha = disk[p]
             /\ table[p].lock = CheckLock(lockdisk, p)

Converges == <>[]UpToDate
=============================================================================
