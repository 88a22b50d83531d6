--------------------------- MODULE RegistryProofs ---------------------------
(***************************************************************************)
(* Theorems about Registry, for any number of packages, threads, overlaps  *)
(* of scans, toggles, approvals and replacements: the table agrees with    *)
(* its gates and its statistic, a host's `off' sticks, and the revision    *)
(* moves with what resolves.  About Selection: versions compare by the     *)
(* precedence of SemVer, and a catalog makes the most of its budget.       *)
(***************************************************************************)
EXTENDS Registry, Selection, Induction, FiniteSetTheorems, TLAPS

USE DEF worldVars, sharedVars, scanVars, boundVars

(***************************************************************************)
(* The operators of a scan.                                                *)
(***************************************************************************)

\* astools_lockfile_check has three results.
LEMMA CheckLockType ==
    ASSUME NEW document, NEW p PROVE CheckLock(document, p) \in LockState
BY DEF CheckLock, LockState

\* Whatever a scan puts in place of an entry obeys the gates, takes over the
\* host's toggle, and is enabled on this platform only.
LEMMA ReplacementGates ==
    ASSUME NEW sha \in Content, NEW lock \in LockState, NEW old \in Entry \cup {None}
    PROVE  LET new == Replacement(sha, lock, old)
           IN  /\ new \in Entry /\ new.sha = sha /\ new.lock = lock
               /\ new.enabled <=> sha \in Usable /\ Passes(lock) /\ ~new.host_disabled
               /\ old # None => new.host_disabled = old.host_disabled
<1> DEFINE cand == Candidate(sha, lock)
           new == Replacement(sha, lock, old)
<1>1. Passes(lock) \in BOOLEAN /\ sha # None
  BY RegistryAssumption DEF Passes
<1>2. /\ cand \in Entry /\ cand.sha = sha /\ cand.lock = lock /\ cand.host_disabled = FALSE
      /\ cand.enabled \in BOOLEAN
  BY <1>1 DEF Candidate, Entry
<1>3. cand.enabled <=> sha \in Usable /\ Passes(lock)
  BY DEF Candidate
<1>4. new = Carried(cand, old)
  BY <1>1 DEF Replacement
<1> HIDE DEF cand, new
<1>5. CASE old = None
  <2>1. new = cand
    BY <1>4, <1>5 DEF Carried
  <2> QED
    BY <1>2, <1>3, <1>5, <2>1 DEF new
<1>6. CASE old # None
  <2>1. old \in Entry /\ old.host_disabled \in BOOLEAN
    BY <1>6 DEF Entry
  <2>2. new = [cand EXCEPT !.host_disabled = old.host_disabled,
                           !.enabled = @ /\ ~old.host_disabled]
    BY <1>4, <1>6 DEF Carried
  <2>3. /\ new \in Entry /\ new.sha = sha /\ new.lock = lock
        /\ new.host_disabled = old.host_disabled
    BY <1>2, <2>1, <2>2 DEF Entry
  <2>4. new.enabled = (cand.enabled /\ ~old.host_disabled)
    BY <1>2, <2>2 DEF Entry
  <2>5. new.enabled <=> sha \in Usable /\ Passes(lock) /\ ~new.host_disabled
    BY <1>3, <2>3, <2>4
  <2> QED
    BY <2>3, <2>5 DEF new
<1> QED
  BY <1>5, <1>6

\* astools_tool_enable moves the toggle and recomputes `enabled', nothing else.
LEMMA ToggledGates ==
    ASSUME NEW entry \in Entry, NEW on \in BOOLEAN
    PROVE  LET new == Toggled(entry, on)
           IN  /\ new \in Entry /\ new.sha = entry.sha /\ new.lock = entry.lock
               /\ new.host_disabled = ~on
               /\ new.enabled <=> on /\ Passes(entry.lock)
<1>1. Passes(entry.lock) \in BOOLEAN
  BY RegistryAssumption DEF Passes
<1> QED
  BY <1>1 DEF Toggled, Entry

(***************************************************************************)
(* Types.                                                                  *)
(***************************************************************************)

\* The first scan at open builds a table of entries.
LEMMA InitType == Init => TypeOK
<1> SUFFICES ASSUME Init PROVE TypeOK
  OBVIOUS
<1>1. \A p \in Pkg : Replacement(disk[p], CheckLock(lockdisk, p), None) \in Entry
  BY ReplacementGates, CheckLockType DEF Init
<1>2. table \in [Pkg -> Entry \cup {None}]
  BY <1>1 DEF Init, Scanned
<1>3. enabled_n \in Nat
  <2>1. IsFiniteSet({p \in Pkg : table[p] # None /\ table[p].enabled})
    BY RegistryAssumption, FS_Subset
  <2> QED
    BY <2>1, FS_CardinalityType DEF Init, CountScanned
<1> QED
  BY <1>2, <1>3, RegistryAssumption
  DEF Init, TypeOK, Document, Empty, Unchecked, LockState

\* Both ways to compute the statistic give a number.
LEMMA CountsType ==
    ASSUME NEW tools PROVE CountScanned(tools) \in Nat /\ CountToggled(tools) \in Nat
<1>1. /\ IsFiniteSet({p \in Pkg : tools[p] # None /\ tools[p].enabled})
      /\ IsFiniteSet({p \in Pkg : tools[p] # None /\ tools[p].enabled /\ tools[p].sha \in Usable})
  BY RegistryAssumption, FS_Subset
<1> QED
  BY <1>1, FS_CardinalityType DEF CountScanned, CountToggled

\* What a publication puts into the table.
LEMMA PublishTable ==
    ASSUME TypeOK, NEW t \in Thread, Publish(t)
    PROVE  /\ table' \in [Pkg -> Entry \cup {None}]
           /\ \A p \in Pkg : table'[p] # None =>
                 /\ table'[p].enabled <=> /\ table'[p].sha \in Usable
                                          /\ Passes(table'[p].lock)
                                          /\ ~table'[p].host_disabled
                 /\ table[p] # None => table'[p].host_disabled = table[p].host_disabled
<1>1. ASSUME NEW p \in Pkg
      PROVE  /\ table'[p] = Replacement(found[t][p], checked[t][p], table[p])
             /\ found[t][p] \in Content \cup {None} /\ checked[t][p] \in LockState
             /\ table[p] \in Entry \cup {None}
  BY DEF Publish, TypeOK, Document
<1>2. ASSUME NEW p \in Pkg, found[t][p] = None PROVE table'[p] = None
  BY <1>1, <1>2 DEF Replacement
<1>3. ASSUME NEW p \in Pkg, found[t][p] \in Content
      PROVE  /\ table'[p] \in Entry
             /\ table'[p].enabled <=> /\ table'[p].sha \in Usable
                                      /\ Passes(table'[p].lock)
                                      /\ ~table'[p].host_disabled
             /\ table[p] # None => table'[p].host_disabled = table[p].host_disabled
  BY <1>1, <1>3, ReplacementGates
<1>4. \A p \in Pkg : table'[p] \in Entry \cup {None}
  BY <1>1, <1>2, <1>3
<1>5. table' = [p \in Pkg |-> table'[p]]
  BY DEF Publish
<1> QED
  BY <1>1, <1>2, <1>3, <1>4, <1>5

\* What a toggle puts there.
LEMMA ToggleTable ==
    ASSUME TypeOK, NEW ref \in Refs, NEW on \in BOOLEAN, ToolEnable(ref, on)
    PROVE  /\ table' \in [Pkg -> Entry \cup {None}]
           /\ \A p \in Pkg : p \notin ref \/ table[p] = None => table'[p] = table[p]
           /\ \A p \in Pkg : p \in ref /\ table[p] # None =>
                 /\ table'[p] \in Entry /\ table'[p].sha = table[p].sha
                 /\ table'[p].lock = table[p].lock
                 /\ table'[p].host_disabled = ~on
                 /\ table'[p].enabled <=> on /\ Passes(table[p].lock)
<1>1. ASSUME NEW p \in Pkg, p \notin ref \/ table[p] = None PROVE table'[p] = table[p]
  BY <1>1 DEF ToolEnable
<1>2. ASSUME NEW p \in Pkg, p \in ref, table[p] # None
      PROVE  /\ table'[p] \in Entry /\ table'[p].sha = table[p].sha
             /\ table'[p].lock = table[p].lock
             /\ table'[p].host_disabled = ~on
             /\ table'[p].enabled <=> on /\ Passes(table[p].lock)
  <2>1. table[p] \in Entry
    BY <1>2 DEF TypeOK
  <2>2. table'[p] = Toggled(table[p], on)
    BY <1>2 DEF ToolEnable
  <2> QED
    BY <2>1, <2>2, ToggledGates
<1>3. table' = [p \in Pkg |-> table'[p]]
  BY DEF ToolEnable
<1>4. \A p \in Pkg : table'[p] \in Entry \cup {None}
  BY <1>1, <1>2 DEF TypeOK
<1> QED
  BY <1>1, <1>2, <1>3, <1>4

\* Every other step leaves the table and what goes with it alone.
Quiet ==
    \/ \E t \in Thread : \/ Refresh(t) \/ LoadLockfile(t) \/ Reload(t) \/ Adopt(t)
                         \/ \E p \in Pkg : LoadPackage(t, p) \/ CheckPackage(t, p) \/ Approve(t, p)
    \/ \E p \in Pkg : EditDisk(p)
    \/ UNCHANGED vars

\* Reading, hashing and approving leave the published table alone.
LEMMA QuietTable ==
    ASSUME Quiet PROVE UNCHANGED <<table, revision, enabled_n, off>>
BY DEF Quiet, Refresh, LoadLockfile, Reload, Adopt, LoadPackage, CheckPackage, Approve, EditDisk,
       vars

\* The table changes by a publication and by the host's toggle only.
LEMMA NextCases ==
    ASSUME [Next]_vars
    PROVE  \/ \E t \in Thread : Publish(t)
           \/ \E ref \in Refs, on \in BOOLEAN : ToolEnable(ref, on)
           \/ Quiet
BY DEF Next, ScanStep, Quiet

\* A step keeps the state in its ranges.
LEMMA NextType == TypeOK /\ [Next]_vars => TypeOK'
<1> SUFFICES ASSUME TypeOK, [Next]_vars PROVE TypeOK'
  OBVIOUS
<1> USE DEF Goto, BeginScan, Empty, Unchecked, Document
<1>1. ASSUME NEW t \in Thread, Publish(t) PROVE TypeOK'
  <2>1. table' \in [Pkg -> Entry \cup {None}] /\ enabled_n' \in Nat
    BY <1>1, PublishTable, CountsType DEF Publish
  <2>2. checked' \in [Thread -> [Pkg -> LockState]]
    BY <1>1 DEF Publish, TypeOK, LockState
  <2> QED
    BY <1>1, <2>1, <2>2 DEF Publish, TypeOK
<1>2. ASSUME NEW ref \in Refs, NEW on \in BOOLEAN, ToolEnable(ref, on) PROVE TypeOK'
  <2>1. table' \in [Pkg -> Entry \cup {None}] /\ enabled_n' \in Nat
    BY <1>2, ToggleTable, CountsType DEF ToolEnable
  <2>2. ref \subseteq Pkg
    BY RegistryAssumption
  <2>3. off' \subseteq Pkg /\ toggles' \in 0..MaxToggles /\ revision' \in Nat
    BY <1>2, <2>2, RegistryAssumption DEF ToolEnable, TypeOK
  <2> QED
    BY <1>2, <2>1, <2>3 DEF ToolEnable, TypeOK
<1>3. ASSUME NEW t \in Thread, Refresh(t) \/ LoadLockfile(t) \/ Reload(t) \/ Adopt(t) PROVE TypeOK'
  <2>1. CASE Refresh(t)
    BY <2>1 DEF Refresh, TypeOK
  <2>2. CASE LoadLockfile(t)
    <3>1. {p \in Pkg : found[t][p] # None} \subseteq Pkg
      OBVIOUS
    <3>2. todo' \in [Thread -> SUBSET Pkg]
      BY <2>2, <3>1 DEF LoadLockfile, TypeOK
    <3> QED
      BY <2>2, <3>2 DEF LoadLockfile, TypeOK
  <2>3. CASE Reload(t)
    BY <2>3 DEF Reload, TypeOK
  <2>4. CASE Adopt(t)
    BY <2>4 DEF Adopt, TypeOK
  <2> QED
    BY <1>3, <2>1, <2>2, <2>3, <2>4
<1>4. ASSUME NEW t \in Thread, NEW p \in Pkg, LoadPackage(t, p) PROVE TypeOK'
  BY <1>4 DEF LoadPackage, TypeOK
<1>5. ASSUME NEW t \in Thread, NEW p \in Pkg, CheckPackage(t, p) PROVE TypeOK'
  <2>1. CheckLock(lf[t], p) \in LockState
    BY CheckLockType
  <2> QED
    BY <1>5, <2>1 DEF CheckPackage, TypeOK
<1>6. ASSUME NEW t \in Thread, NEW p \in Pkg, Approve(t, p) PROVE TypeOK'
  BY <1>6, RegistryAssumption DEF Approve, TypeOK
<1>7. ASSUME NEW p \in Pkg, EditDisk(p) PROVE TypeOK'
  BY <1>7, RegistryAssumption DEF EditDisk, TypeOK
<1>8. CASE UNCHANGED vars
  BY <1>8 DEF vars, TypeOK
<1> QED
  BY NextCases, <1>1, <1>2, <1>3, <1>4, <1>5, <1>6, <1>7, <1>8 DEF Quiet

(***************************************************************************)
(* Gates, statistic and toggle.                                            *)
(***************************************************************************)

\* What the host switched off is still in the table: only then can a scan take
\* the toggle over.
OffInv == \A p \in off : table[p] # None /\ table[p].host_disabled

\* The table of the first scan is sound and nothing is switched off by the host.
LEMMA InitTable == Init => TableSound /\ OffInv
<1> SUFFICES ASSUME Init PROVE TableSound /\ OffInv
  OBVIOUS
<1>1. ASSUME NEW p \in Pkg
      PROVE  /\ table[p] \in Entry
             /\ table[p].enabled <=> /\ table[p].sha \in Usable
                                     /\ Passes(table[p].lock) /\ ~table[p].host_disabled
  <2>1. table[p] = Replacement(disk[p], CheckLock(lockdisk, p), None) /\ disk[p] \in Content
    BY DEF Init, Scanned
  <2> QED
    BY <2>1, ReplacementGates, CheckLockType
<1>2. GatesHold
  BY <1>1, NoEntryAssumption DEF GatesHold, Resolves
<1>3. {p \in Pkg : table[p] # None /\ table[p].enabled} = {p \in Pkg : Resolves(table[p])}
  BY <1>1 DEF Resolves
<1>4. StatsExact
  BY <1>3 DEF Init, StatsExact, CountScanned
<1> QED
  BY <1>2, <1>4 DEF Init, TableSound, OffInv

\* A publication and a toggle keep both computations of `enabled' in agreement,
\* and the host's decision.
LEMMA NextTable ==
    ASSUME TypeOK, TableSound, OffInv, [Next]_vars PROVE TableSound' /\ OffInv'
<1>1. ASSUME NEW t \in Thread, Publish(t) PROVE TableSound' /\ OffInv'
  <2>1. \A p \in Pkg : table'[p] # None =>
            /\ table'[p].enabled <=> /\ table'[p].sha \in Usable
                                     /\ Passes(table'[p].lock) /\ ~table'[p].host_disabled
            /\ table[p] # None => table'[p].host_disabled = table[p].host_disabled
    BY <1>1, PublishTable
  <2>2. GatesHold'
    BY <2>1 DEF GatesHold, Resolves
  <2>3. {p \in Pkg : table'[p] # None /\ table'[p].enabled} = {p \in Pkg : Resolves(table'[p])}
    BY <2>1 DEF Resolves
  <2>4. StatsExact'
    BY <1>1, <2>3 DEF Publish, StatsExact, CountScanned
  <2>5. OffInv'
    BY <1>1, <2>1 DEF Publish, OffInv, TypeOK
  <2> QED
    BY <2>2, <2>4, <2>5 DEF TableSound
<1>2. ASSUME NEW ref \in Refs, NEW on \in BOOLEAN, ToolEnable(ref, on) PROVE TableSound' /\ OffInv'
  <2>1. /\ \A p \in Pkg : p \notin ref \/ table[p] = None => table'[p] = table[p]
        /\ \A p \in Pkg : p \in ref /\ table[p] # None =>
              /\ table'[p] \in Entry /\ table'[p].sha = table[p].sha
              /\ table'[p].lock = table[p].lock
              /\ table'[p].host_disabled = ~on
              /\ table'[p].enabled <=> on /\ Passes(table[p].lock)
    BY <1>2, ToggleTable
  <2>2. GatesHold'
    <3> SUFFICES ASSUME NEW p \in Pkg, table'[p] # None, table'[p].sha \in Usable
                 PROVE  Resolves(table'[p]) <=> ~table'[p].host_disabled /\ Passes(table'[p].lock)
      BY DEF GatesHold
    <3>1. CASE p \notin ref \/ table[p] = None
      BY <2>1, <3>1 DEF TableSound, GatesHold
    <3>2. CASE p \in ref /\ table[p] # None
      BY <2>1, <3>2 DEF Resolves
    <3> QED
      BY <3>1, <3>2
  <2>3. {p \in Pkg : table'[p] # None /\ table'[p].enabled /\ table'[p].sha \in Usable}
           = {p \in Pkg : Resolves(table'[p])}
    BY DEF Resolves
  <2>4. StatsExact'
    BY <1>2, <2>3 DEF ToolEnable, StatsExact, CountToggled
  <2>5. OffInv'
    <3> SUFFICES ASSUME NEW p \in off' PROVE table'[p] # None /\ table'[p].host_disabled
      BY DEF OffInv
    <3>1. p \in Pkg
      BY <1>2, RegistryAssumption DEF ToolEnable, TypeOK
    <3>2. CASE p \in ref /\ table[p] # None
      <4>1. ~on
        BY <1>2, <3>2 DEF ToolEnable
      <4> QED
        BY <2>1, <3>1, <3>2, <4>1, NoEntryAssumption
    <3>3. CASE p \notin ref \/ table[p] = None
      <4>1. p \in off
        BY <1>2, <3>3 DEF ToolEnable
      <4> QED
        BY <2>1, <3>1, <3>3, <4>1 DEF OffInv
    <3> QED
      BY <3>2, <3>3
  <2> QED
    BY <2>2, <2>4, <2>5 DEF TableSound
<1>3. CASE Quiet
  BY <1>3, QuietTable DEF TableSound, GatesHold, StatsExact, OffInv
<1> QED
  BY <1>1, <1>2, <1>3, NextCases

\* However scans, approvals and toggles overlap, the table obeys the host's
\* toggles and the pinning gate, and tools_enabled counts what resolves.
THEOREM TableAgrees == Spec => []TableSound
<1> DEFINE All == TypeOK /\ TableSound /\ OffInv
<1>1. Init => All
  BY InitType, InitTable
<1>2. All /\ [Next]_vars => All'
  BY NextType, NextTable
<1> QED
  BY <1>1, <1>2, PTL DEF Spec

\* A tool the host switched off stays off through every refresh that finds it,
\* those included that began before the host's call.
THEOREM DisableSticks == Spec => []HostDisableSticky
<1> DEFINE All == TypeOK /\ TableSound /\ OffInv
<1>1. Init => All
  BY InitType, InitTable
<1>2. All /\ [Next]_vars => All'
  BY NextType, NextTable
<1>3. All => HostDisableSticky
  BY DEF OffInv, HostDisableSticky
<1> QED
  BY <1>1, <1>2, <1>3, PTL DEF Spec

(***************************************************************************)
(* The revision.                                                           *)
(***************************************************************************)

Tracked == /\ revision' >= revision
           /\ View(table') # View(table) => revision' > revision

\* No step changes what resolves without moving the revision.
LEMMA StepTracked == ASSUME TypeOK, TableSound, [Next]_vars PROVE Tracked
<1>0. revision \in Nat
  BY DEF TypeOK
<1>1. ASSUME NEW t \in Thread, Publish(t) PROVE Tracked
  <2>1. table' \in [Pkg -> Entry \cup {None}]
    BY <1>1, PublishTable
  <2>2. ASSUME NEW p \in Pkg, Key(table'[p]) = Key(table[p])
        PROVE  View(table')[p] = View(table)[p]
    <3>1. /\ table[p] = None \/ (table[p] \in Entry /\ table[p] # None)
          /\ table'[p] = None \/ (table'[p] \in Entry /\ table'[p] # None)
      BY <2>1, NoEntryAssumption DEF TypeOK
    <3>2. ASSUME NEW e \in Entry PROVE Key(e) = <<e.sha, e.enabled>> /\ Key(e) # None
      BY NoEntryAssumption DEF Key, Entry
    <3>3. Key(None) = None
      BY DEF Key
    <3>4. CASE table[p] = None /\ table'[p] = None
      BY <3>4 DEF View
    <3>5. CASE table[p] \in Entry /\ table'[p] \in Entry
      <4>1. table'[p].sha = table[p].sha /\ table'[p].enabled = table[p].enabled
        BY <2>2, <3>2, <3>5
      <4> QED
        BY <3>5, <4>1, NoEntryAssumption DEF View, Resolves
    <3> QED
      BY <2>2, <3>1, <3>2, <3>3, <3>4, <3>5
  <2>3. CASE \E p \in Pkg : Key(table[p]) # Key(table'[p])
    BY <1>0, <1>1, <2>3 DEF Publish, Tracked
  <2>4. CASE \A p \in Pkg : Key(table[p]) = Key(table'[p])
    <3>1. View(table') = View(table)
      BY <2>2, <2>4 DEF View
    <3> QED
      BY <1>0, <1>1, <2>4, <3>1 DEF Publish, Tracked
  <2> QED
    BY <2>3, <2>4
<1>2. ASSUME NEW ref \in Refs, NEW on \in BOOLEAN, ToolEnable(ref, on) PROVE Tracked
  <2> DEFINE changed == \E p \in Pkg : p \in ref /\ table[p] # None /\ table[p].host_disabled = on
  <2>1. revision' = IF changed THEN revision + 1 ELSE revision
    <3>1. ref \subseteq Pkg
      BY RegistryAssumption
    <3> QED
      BY <1>2, <3>1 DEF ToolEnable
  <2>2. ASSUME ~changed, NEW p \in Pkg PROVE View(table')[p] = View(table)[p]
    <3>1. CASE p \notin ref \/ table[p] = None
      BY <1>2, <3>1, ToggleTable DEF View
    <3>2. CASE p \in ref /\ table[p] # None
      <4>1. /\ table'[p] \in Entry /\ table'[p].sha = table[p].sha
            /\ table'[p].host_disabled = ~on
            /\ table'[p].enabled <=> on /\ Passes(table[p].lock)
        BY <1>2, <3>2, ToggleTable
      <4>2. table[p] \in Entry /\ table[p].host_disabled = ~on
        BY <2>2, <3>2 DEF TypeOK, Entry
      <4>3. table[p].sha \in Usable =>
               (Resolves(table[p]) <=> on /\ Passes(table[p].lock))
        BY <3>2, <4>2 DEF TableSound, GatesHold
      <4>4. Resolves(table'[p]) <=> Resolves(table[p])
        BY <4>1, <4>3, NoEntryAssumption DEF Resolves
      <4> QED
        BY <4>1, <4>4 DEF View
    <3> QED
      BY <3>1, <3>2
  <2>3. CASE changed
    BY <1>0, <2>1, <2>3 DEF Tracked
  <2>4. CASE ~changed
    <3>1. View(table') = View(table)
      BY <2>2, <2>4 DEF View
    <3> QED
      BY <1>0, <2>1, <2>4, <3>1 DEF Tracked
  <2> QED
    BY <2>3, <2>4
<1>3. CASE Quiet
  BY <1>0, <1>3, QuietTable DEF Tracked
<1> QED
  BY <1>1, <1>2, <1>3, NextCases

\* The revision never goes back, and a host that finds the revision it cached
\* finds the catalog it cached.
THEOREM RevisionIsCurrent == Spec => RevisionTracks
<1> DEFINE All == TypeOK /\ TableSound /\ OffInv
<1>1. Init => All
  BY InitType, InitTable
<1>2. All /\ [Next]_vars => All'
  BY NextType, NextTable
<1>3. All /\ [Next]_vars => [Tracked]_vars
  BY StepTracked
<1> QED
  BY <1>1, <1>2, <1>3, PTL DEF Spec, RevisionTracks, Tracked

-----------------------------------------------------------------------------
(***************************************************************************)
(* Selection: the precedence of versions and the catalog.                  *)
(***************************************************************************)

\* The least element of a set of naturals.
LEMMA LeastIsMin ==
    ASSUME NEW S, S \subseteq Nat, S # {}
    PROVE  Min(S) \in S /\ \A n \in S : Min(S) <= n
BY Least DEF Min

(***************************************************************************)
(* Precedence.                                                             *)
(***************************************************************************)

\* A character of a field is a digit, a letter or the hyphen.
Char == Nat \cup {-1}
Field == Seq(Char)
VersionText == [num : {s \in Seq(Nat) : Len(s) = 3}, pre : Seq(Field), build : Seq(Field)]

\* Sequences agree on their first k elements.
Agree(f, g, k) == \A j \in 1..k : f[j] = g[j]

LEMMA AgreeIsPrefix ==
    ASSUME NEW S, NEW f \in Seq(S), NEW g \in Seq(S), NEW k \in 0..Len(f), k <= Len(g)
    PROVE  SubSeq(f, 1, k) = SubSeq(g, 1, k) <=> Agree(f, g, k)
<1>1. /\ SubSeq(f, 1, k) = [j \in 1..k |-> f[j]]
      /\ SubSeq(g, 1, k) = [j \in 1..k |-> g[j]]
  OBVIOUS
<1>2. ASSUME SubSeq(f, 1, k) = SubSeq(g, 1, k) PROVE Agree(f, g, k)
  <2>1. \A j \in 1..k : [i \in 1..k |-> f[i]][j] = [i \in 1..k |-> g[i]][j]
    BY <1>1, <1>2
  <2>. QED BY <2>1 DEF Agree
<1>3. ASSUME Agree(f, g, k) PROVE SubSeq(f, 1, k) = SubSeq(g, 1, k)
  BY <1>1, <1>3 DEF Agree
<1>. QED BY <1>2, <1>3

LEMMA AgreeIsEqual ==
    ASSUME NEW S, NEW f \in Seq(S), NEW g \in Seq(S), Len(f) = Len(g)
    PROVE  f = g <=> Agree(f, g, Len(f))
<1>1. f = [j \in 1..Len(f) |-> f[j]] /\ g = [j \in 1..Len(f) |-> g[j]]
  OBVIOUS
<1>. QED BY <1>1 DEF Agree

\* Two texts of one length agree until a first difference, and memcmp tells
\* by it.
LEMMA MemcmpOrders ==
    ASSUME NEW f \in Seq(Int), NEW g \in Seq(Int), Len(f) = Len(g)
    PROVE  /\ memcmp(f, g) \in {-1, 0, 1}
           /\ memcmp(f, g) = 0 <=> f = g
           /\ memcmp(f, g) < 0 <=> \E k \in 1..Len(f) : f[k] < g[k] /\ Agree(f, g, k - 1)
           /\ memcmp(f, g) > 0 <=> \E k \in 1..Len(f) : g[k] < f[k] /\ Agree(f, g, k - 1)
<1>. DEFINE diff == {k \in DOMAIN f : f[k] # g[k]}
<1>1. \A k \in 1..Len(f) : f[k] \in Int /\ g[k] \in Int
  OBVIOUS
<1>2. DOMAIN f = 1..Len(f) /\ Len(f) \in Nat
  OBVIOUS
<1>3. CASE diff = {}
  <2>1. Agree(f, g, Len(f))
    BY <1>2, <1>3 DEF Agree
  <2>2. f = g
    BY <2>1, AgreeIsEqual
  <2>3. memcmp(f, g) = 0
    BY <1>3 DEF memcmp
  <2>. QED BY <2>1, <2>2, <2>3, <1>1, <1>2 DEF Agree
<1>4. CASE diff # {}
  <2>. DEFINE m == Min(diff)
  <2>0. diff \subseteq Nat
    BY <1>2
  <2>1. m \in diff /\ \A n \in diff : m <= n
    <3>. HIDE DEF diff
    <3>. QED BY <2>0, <1>4, LeastIsMin
  <2>2. memcmp(f, g) = Sign(f[m] - g[m])
    BY <1>4 DEF memcmp
  <2>. HIDE DEF m
  <2>3. m \in 1..Len(f) /\ f[m] # g[m] /\ f # g
    BY <2>1, <1>2
  <2>4. Agree(f, g, m - 1)
    <3>1. \A j \in 1..(m - 1) : j \in 1..Len(f) /\ ~(m <= j)
      BY <2>3, <1>2
    <3>. QED BY <3>1, <2>1, <1>2 DEF Agree
  <2>5. \A k \in 1..Len(f) : f[k] # g[k] /\ Agree(f, g, k - 1) => k = m
    <3>. SUFFICES ASSUME NEW k \in 1..Len(f), f[k] # g[k], Agree(f, g, k - 1) PROVE k = m
      OBVIOUS
    <3>1. m <= k
      BY <2>1, <1>2
    <3>2. ~(m \in 1..(k - 1))
      BY <2>3 DEF Agree
    <3>. QED BY <3>1, <3>2, <2>3, <1>2
  <2>6. f[m] \in Int /\ g[m] \in Int
    BY <1>1, <2>3
  <2>7. \A k \in 1..Len(f) : (f[k] < g[k] \/ g[k] < f[k]) /\ Agree(f, g, k - 1) => k = m
    BY <2>5, <1>1
  <2>8. /\ (\E k \in 1..Len(f) : f[k] < g[k] /\ Agree(f, g, k - 1)) <=> f[m] < g[m]
        /\ (\E k \in 1..Len(f) : g[k] < f[k] /\ Agree(f, g, k - 1)) <=> g[m] < f[m]
    BY <2>3, <2>4, <2>7
  <2>9. /\ Sign(f[m] - g[m]) \in {-1, 1}
        /\ Sign(f[m] - g[m]) < 0 <=> f[m] < g[m]
        /\ Sign(f[m] - g[m]) > 0 <=> g[m] < f[m]
    BY <2>3, <2>6 DEF Sign
  <2>10. memcmp(f, g) # 0
    BY <2>2, <2>9
  <2>11. memcmp(f, g) < 0 <=> f[m] < g[m]
    BY <2>2, <2>9
  <2>12. memcmp(f, g) > 0 <=> g[m] < f[m]
    BY <2>2, <2>9
  <2>13. memcmp(f, g) \in {-1, 0, 1}
    BY <2>2, <2>9
  <2>. QED BY <2>3, <2>8, <2>10, <2>11, <2>12, <2>13
<1>. QED BY <1>3, <1>4

\* The value of a sequence of digits, digit by digit.
Values(v, f) == v \in [0..Len(f) -> Nat] /\ v[0] = 0 /\ \A k \in 1..Len(f) : v[k] = 10 * v[k - 1] + f[k]

LEMMA ValueIs ==
    ASSUME NEW f \in Seq(Nat)
    PROVE  \E v : Values(v, f) /\ Value(f) = v[Len(f)]
<1>. DEFINE n == Len(f)
           step == [k \in 1..n |-> [x \in Nat |-> 10 * x + f[k]]]
           Upto(g) == g = [k \in 0..n |-> IF k = 0 THEN 0 ELSE 10 * g[k - 1] + f[k]]
<1>0. n \in Nat /\ \A k \in 1..n : f[k] \in Nat
  OBVIOUS
<1>1. step \in [1..n -> [Nat -> Nat]]
  BY <1>0
<1>2. PICK g : IteratesTo(g, Nat, n, 0, step)
  BY <1>0, <1>1, IterationTo
<1>. DEFINE v == CHOOSE h : Upto(h)
<1>3. Upto(g)
  <2>0. g \in [0..n -> Nat]
    <3>. HIDE DEF step, n
    <3>. QED BY <1>2 DEF IteratesTo
  <2>1. \A k \in 1..n : k - 1 \in 0..n /\ g[k - 1] \in Nat
    <3>1. \A k \in 1..n : k - 1 \in 0..n
      BY <1>0
    <3>. HIDE DEF step, n
    <3>. QED BY <2>0, <3>1
  <2>2. \A k \in 1..n : step[k][g[k - 1]] = 10 * g[k - 1] + f[k]
    BY <2>1
  <2>. HIDE DEF step
  <2>3. \A k \in 0..n : (IF k = 0 THEN 0 ELSE step[k][g[k - 1]]) = (IF k = 0 THEN 0 ELSE 10 * g[k - 1] + f[k])
    BY <2>2, <1>0
  <2>4. g = [k \in 0..n |-> IF k = 0 THEN 0 ELSE step[k][g[k - 1]]]
    BY <1>2 DEF IteratesTo
  <2>. QED BY <2>3, <2>4
<1>4. Upto(v)
  BY <1>3
<1>5. Value(f) = v[n]
  BY DEF Value
<1>. HIDE DEF v
<1>6. v[0] = 0 /\ \A k \in 1..n : v[k] = 10 * v[k - 1] + f[k]
  BY <1>4, <1>0
<1>7. \A k \in 0..n : v[k] \in Nat
  <2>. DEFINE S == {k \in Nat : k <= n => v[k] \in Nat}
  <2>1. 0 \in S
    BY <1>6
  <2>2. ASSUME NEW k \in S \cap Nat PROVE k + 1 \in S
    <3>1. CASE k + 1 <= n
      <4>1. k + 1 \in 1..n /\ (k + 1) - 1 = k /\ v[k] \in Nat /\ f[k + 1] \in Nat
        BY <3>1, <2>2, <1>0
      <4>2. v[k + 1] = 10 * v[k] + f[k + 1]
        BY <4>1, <1>6
      <4>3. v[k + 1] \in Nat
        BY <4>1, <4>2
      <4>. QED BY <4>3
    <3>. QED BY <3>1
  <2>. HIDE DEF S
  <2>3. Nat \subseteq S
    BY <2>1, <2>2, SetInduction
  <2>. QED BY <2>3, <1>0 DEF S
<1>8. v \in [0..n -> Nat]
  BY <1>4, <1>7
<1>. QED BY <1>5, <1>6, <1>8 DEF Values

\* Of two prefixes the one behind stays behind, whatever digits follow.
LEMMA BehindStaysBehind ==
    ASSUME NEW f \in Seq(0..9), NEW g \in Seq(0..9), NEW v, NEW w, Values(v, f), Values(w, g),
           NEW i \in 0..Len(f), NEW d \in Nat, Len(g) = Len(f) + d, v[i] < w[i + d]
    PROVE  v[Len(f)] < w[Len(g)]
<1>. DEFINE S == {k \in Nat : i + k <= Len(f) => v[i + k] < w[i + k + d]}
<1>0. Len(f) \in Nat /\ Len(g) \in Nat
  OBVIOUS
<1>1. 0 \in S
  BY <1>0
<1>2. ASSUME NEW k \in S \cap Nat PROVE k + 1 \in S
  <2>1. CASE i + (k + 1) <= Len(f)
    <3>. DEFINE p == i + k + 1
               q == i + k + 1 + d
    <3>1. p \in 1..Len(f) /\ q \in 1..Len(g) /\ p - 1 = i + k /\ q - 1 = i + k + d /\ p - 1 \in 0..Len(f) /\ q - 1 \in 0..Len(g)
      BY <2>1, <1>0
    <3>2. v[p - 1] < w[q - 1]
      BY <1>2, <2>1, <3>1, <1>0
    <3>. HIDE DEF p, q
    <3>3. v[p] = 10 * v[p - 1] + f[p] /\ w[q] = 10 * w[q - 1] + g[q]
      BY <3>1 DEF Values
    <3>4. f[p] \in 0..9 /\ g[q] \in 0..9
      BY <3>1
    <3>6. v[p - 1] \in Nat /\ w[q - 1] \in Nat
      BY <3>1 DEF Values
    <3>7. \A a, b \in Nat, x, y \in 0..9 : a < b => 10 * a + x < 10 * b + y
      OBVIOUS
    <3>5. v[p] < w[q]
      BY <3>2, <3>3, <3>4, <3>6, <3>7
    <3>. QED BY <3>5 DEF p, q
  <2>. QED BY <2>1
<1>. HIDE DEF S
<1>3. Nat \subseteq S
  BY <1>1, <1>2, SetInduction
<1>4. Len(f) - i \in S /\ i + (Len(f) - i) = Len(f)
  BY <1>3, <1>0
<1>. QED BY <1>4, <1>0 DEF S

\* Equal prefixes have equal values.
LEMMA AgreeingValues ==
    ASSUME NEW f \in Seq(0..9), NEW g \in Seq(0..9), NEW v, NEW w, Values(v, f), Values(w, g),
           NEW n \in 0..Len(f), n <= Len(g), Agree(f, g, n)
    PROVE  v[n] = w[n]
<1>. DEFINE S == {k \in Nat : k <= n => v[k] = w[k]}
<1>0. Len(f) \in Nat /\ Len(g) \in Nat
  OBVIOUS
<1>1. 0 \in S
  BY DEF Values
<1>2. ASSUME NEW k \in S \cap Nat PROVE k + 1 \in S
  <2>1. CASE k + 1 <= n
    <3>1. k + 1 \in 1..Len(f) /\ k + 1 \in 1..Len(g) /\ k + 1 \in 1..n /\ (k + 1) - 1 = k
      BY <2>1, <1>0
    <3>2. f[k + 1] = g[k + 1]
      BY <3>1 DEF Agree
    <3>3. v[k + 1] = 10 * v[k] + f[k + 1]
      BY <3>1 DEF Values
    <3>4. w[k + 1] = 10 * w[k] + g[k + 1]
      BY <3>1 DEF Values
    <3>5. v[k] = w[k]
      BY <1>2, <2>1
    <3>. QED BY <3>2, <3>3, <3>4, <3>5
  <2>. QED BY <2>1
<1>. HIDE DEF S
<1>3. Nat \subseteq S
  BY <1>1, <1>2, SetInduction
<1>. QED BY <1>3, <1>0 DEF S

\* A number that does not begin with 0 has no prefix of value 0.
LEMMA PrefixesArePositive ==
    ASSUME NEW g \in Seq(0..9), NEW w, Values(w, g), NEW n \in 1..Len(g), g[1] # 0
    PROVE  w[n] > 0
<1>. DEFINE S == {k \in Nat : k + 1 <= n => w[k + 1] > 0}
<1>0. Len(g) \in Nat /\ \A k \in 1..Len(g) : g[k] \in 0..9
  OBVIOUS
<1>1. 0 \in S
  <2>1. 1 \in 1..Len(g) /\ 1 - 1 = 0
    BY <1>0
  <2>2. w[1] = 10 * w[0] + g[1] /\ w[0] = 0
    BY <2>1 DEF Values
  <2>. QED BY <2>1, <2>2, <1>0
<1>2. ASSUME NEW k \in S \cap Nat PROVE k + 1 \in S
  <2>1. CASE (k + 1) + 1 <= n
    <3>1. (k + 1) + 1 \in 1..Len(g) /\ ((k + 1) + 1) - 1 = k + 1 /\ k + 1 \in 0..Len(g)
      BY <2>1, <1>0
    <3>2. w[(k + 1) + 1] = 10 * w[k + 1] + g[(k + 1) + 1]
      BY <3>1 DEF Values
    <3>3. w[k + 1] \in Nat /\ w[k + 1] > 0
      BY <1>2, <2>1, <3>1 DEF Values
    <3>4. g[(k + 1) + 1] \in 0..9
      BY <3>1, <1>0
    <3>. DEFINE before == w[k + 1]
                after == w[(k + 1) + 1]
                digit == g[(k + 1) + 1]
    <3>5. after = 10 * before + digit /\ before \in Nat /\ before > 0 /\ digit \in Nat
      BY <3>2, <3>3, <3>4
    <3>. HIDE DEF before, after, digit
    <3>6. after > 0
      BY <3>5
    <3>7. k + 1 \in Nat
      OBVIOUS
    <3>. QED BY <3>6, <3>7, Zenon DEF after
  <2>. QED BY <2>1
<1>. HIDE DEF S
<1>3. Nat \subseteq S
  BY <1>1, <1>2, SetInduction
<1>4. n - 1 \in S /\ (n - 1) + 1 = n
  BY <1>3, <1>0
<1>. QED BY <1>4 DEF S

\* The longer of two numbers is the greater one, and of two of one length the
\* one that compares so.
NoZeros(f) == Len(f) > 1 => f[1] # 0
LEMMA NumbersOrdered ==
    ASSUME NEW f \in Seq(0..9), NEW g \in Seq(0..9), f # <<>>, g # <<>>, NoZeros(f), NoZeros(g),
           Len(f) < Len(g) \/ (Len(f) = Len(g) /\ memcmp(f, g) < 0)
    PROVE  Value(f) < Value(g)
<1>0. Len(f) \in Nat /\ Len(g) \in Nat /\ Len(f) > 0 /\ Len(g) > 0 /\ f \in Seq(Nat) /\ g \in Seq(Nat)
      /\ f \in Seq(Int) /\ g \in Seq(Int)
  OBVIOUS
<1>1. PICK v : Values(v, f) /\ Value(f) = v[Len(f)]
  BY <1>0, ValueIs
<1>2. PICK w : Values(w, g) /\ Value(g) = w[Len(g)]
  BY <1>0, ValueIs
<1>3. CASE Len(f) < Len(g)
  <2>. DEFINE d == Len(g) - Len(f)
  <2>1. d \in 1..Len(g) /\ d \in Nat /\ Len(g) = Len(f) + d /\ 0 \in 0..Len(f) /\ 0 + d = d /\ g[1] # 0
    BY <1>0, <1>3 DEF NoZeros
  <2>. HIDE DEF d
  <2>2. w[d] > 0
    BY <1>2, <2>1, PrefixesArePositive
  <2>3. v[0] < w[0 + d]
    BY <1>1, <2>1, <2>2 DEF Values
  <2>4. v[Len(f)] < w[Len(g)]
    BY <1>1, <1>2, <2>1, <2>3, BehindStaysBehind
  <2>. QED BY <1>1, <1>2, <2>4
<1>4. CASE Len(f) = Len(g) /\ memcmp(f, g) < 0
  <2>1. PICK k \in 1..Len(f) : f[k] < g[k] /\ Agree(f, g, k - 1)
    BY <1>0, <1>4, MemcmpOrders
  <2>2. k - 1 \in 0..Len(f) /\ k - 1 <= Len(g) /\ k \in 0..Len(f) /\ k \in 1..Len(g) /\ Len(g) = Len(f) + 0
    BY <1>0, <1>4
  <2>3. v[k - 1] = w[k - 1]
    BY <1>1, <1>2, <2>1, <2>2, AgreeingValues
  <2>4. v[k] = 10 * v[k - 1] + f[k]
    BY <1>1 DEF Values
  <2>5. w[k] = 10 * w[k - 1] + g[k]
    BY <1>2, <2>2 DEF Values
  <2>6. v[k - 1] \in Nat /\ f[k] \in 0..9 /\ g[k] \in 0..9
    BY <1>1, <2>2 DEF Values
  <2>11. \A a \in Nat, x, y \in 0..9 : x < y => 10 * a + x < 10 * a + y
    OBVIOUS
  <2>7. v[k] < w[k]
    BY <2>1, <2>3, <2>4, <2>5, <2>6, <2>11
  <2>8. k + 0 = k
    OBVIOUS
  <2>9. v[k] < w[k + 0]
    BY <2>7, <2>8
  <2>10. v[Len(f)] < w[Len(g)]
    BY <1>1, <1>2, <2>2, <2>9, BehindStaysBehind
  <2>. QED BY <1>1, <1>2, <2>10
<1>. QED BY <1>3, <1>4

\* Two results of a comparison, swapped.
LEMMA MemcmpSwapped ==
    ASSUME NEW f \in Seq(Int), NEW g \in Seq(Int), Len(f) = Len(g)
    PROVE  memcmp(f, g) > 0 <=> memcmp(g, f) < 0
<1>1. \A k \in 1..Len(f) : Agree(f, g, k - 1) <=> Agree(g, f, k - 1)
  BY DEF Agree
<1>. QED BY <1>1, MemcmpOrders

NumberCmp(f, g) == IF Len(f) # Len(g) THEN Sign(Len(f) - Len(g)) ELSE memcmp(f, g)
LEMMA NumberCmpExact ==
    ASSUME NEW f \in Seq(0..9), NEW g \in Seq(0..9), f # <<>>, g # <<>>, NoZeros(f), NoZeros(g)
    PROVE  /\ NumberCmp(f, g) \in {-1, 0, 1}
           /\ NumberCmp(f, g) = 0 <=> f = g
           /\ NumberCmp(f, g) < 0 <=> Value(f) < Value(g)
<1>0. Len(f) \in Nat /\ Len(g) \in Nat /\ f \in Seq(Int) /\ g \in Seq(Int) /\ f \in Seq(Nat) /\ g \in Seq(Nat)
  OBVIOUS
<1>1. Value(f) \in Nat /\ Value(g) \in Nat
  <2>1. PICK v : Values(v, f) /\ Value(f) = v[Len(f)]
    BY <1>0, ValueIs
  <2>2. PICK w : Values(w, g) /\ Value(g) = w[Len(g)]
    BY <1>0, ValueIs
  <2>3. Len(f) \in 0..Len(f) /\ Len(g) \in 0..Len(g)
    BY <1>0
  <2>4. v[Len(f)] \in Nat /\ w[Len(g)] \in Nat
    BY <2>1, <2>2, <2>3 DEF Values
  <2>. QED BY <2>1, <2>2, <2>4
<1>2. CASE Len(f) < Len(g)
  <2>1. NumberCmp(f, g) = -1
    BY <1>0, <1>2 DEF NumberCmp, Sign
  <2>. QED BY <2>1, <1>0, <1>2, NumbersOrdered
<1>3. CASE Len(g) < Len(f)
  <2>1. NumberCmp(f, g) = 1
    BY <1>0, <1>3 DEF NumberCmp, Sign
  <2>2. Value(g) < Value(f)
    BY <1>3, NumbersOrdered
  <2>. QED BY <2>1, <2>2, <1>0, <1>1, <1>3
<1>4. CASE Len(f) = Len(g)
  <2>1. NumberCmp(f, g) = memcmp(f, g)
    BY <1>4 DEF NumberCmp
  <2>2. memcmp(f, g) \in {-1, 0, 1} /\ (memcmp(f, g) = 0 <=> f = g)
    BY <1>0, <1>4, MemcmpOrders
  <2>3. CASE memcmp(f, g) = -1
    BY <2>1, <2>2, <2>3, <1>4, NumbersOrdered
  <2>4. CASE memcmp(f, g) = 1
    <3>1. memcmp(g, f) < 0
      BY <1>0, <1>4, <2>4, MemcmpSwapped
    <3>2. Value(g) < Value(f)
      BY <3>1, <1>4, NumbersOrdered
    <3>. QED BY <3>2, <2>1, <2>2, <2>4, <1>1
  <2>5. CASE memcmp(f, g) = 0
    <3>1. f = g
      BY <2>2, <2>5
    <3>2. ~(Value(f) < Value(g))
      BY <3>1, <1>1
    <3>. QED BY <3>1, <3>2, <2>1, <2>5
  <2>. QED BY <2>2, <2>3, <2>4, <2>5
<1>. QED BY <1>0, <1>2, <1>3, <1>4

\* Texts are compared on their common length, then by length: the
\* lexicographic order.
TextCmp(f, g) ==
    LET n == Shorter(f, g)
        r == memcmp(SubSeq(f, 1, n), SubSeq(g, 1, n))
    IN IF r # 0 THEN r ELSE Sign(Len(f) - Len(g))
LEMMA TextCmpExact ==
    ASSUME NEW f \in Seq(Int), NEW g \in Seq(Int)
    PROVE  /\ TextCmp(f, g) \in {-1, 0, 1}
           /\ TextCmp(f, g) = 0 <=> f = g
           /\ TextCmp(f, g) < 0 <=> Lexically(f, g, <)
<1>. DEFINE n == Shorter(f, g)
           p == SubSeq(f, 1, n)
           q == SubSeq(g, 1, n)
<1>1. /\ Len(f) \in Nat /\ Len(g) \in Nat
      /\ n \in Nat /\ n \in 0..Len(f) /\ n \in 0..Len(g) /\ n <= Len(g) /\ n <= Len(f)
      /\ n = Len(f) \/ n = Len(g)
  BY DEF Shorter
<1>2. p \in Seq(Int) /\ q \in Seq(Int) /\ Len(p) = n /\ Len(q) = n
      /\ \A k \in 1..n : p[k] = f[k] /\ q[k] = g[k]
  <2>. HIDE DEF n
  <2>. QED BY <1>1
<1>3. TextCmp(f, g) = IF memcmp(p, q) # 0 THEN memcmp(p, q) ELSE Sign(Len(f) - Len(g))
  BY DEF TextCmp
<1>4. \A k \in 1..n : SubSeq(f, 1, k - 1) = SubSeq(g, 1, k - 1) <=> Agree(p, q, k - 1)
  <2>. TAKE k \in 1..n
  <2>. HIDE DEF n, p, q
  <2>1. k - 1 \in 0..Len(f) /\ k - 1 <= Len(g)
    BY <1>1
  <2>2. SubSeq(f, 1, k - 1) = SubSeq(g, 1, k - 1) <=> Agree(f, g, k - 1)
    BY <2>1, AgreeIsPrefix
  <2>4. \A j \in 1..(k - 1) : p[j] = f[j] /\ q[j] = g[j]
    <3>1. \A j \in 1..(k - 1) : j \in 1..n
      BY <1>1
    <3>. QED BY <3>1, <1>2
  <2>3. Agree(f, g, k - 1) <=> Agree(p, q, k - 1)
    BY <2>4 DEF Agree
  <2>. QED BY <2>2, <2>3
<1>5. /\ memcmp(p, q) \in {-1, 0, 1}
      /\ memcmp(p, q) = 0 <=> p = q
      /\ memcmp(p, q) < 0 <=> \E k \in 1..n : f[k] < g[k] /\ SubSeq(f, 1, k - 1) = SubSeq(g, 1, k - 1)
  <2>. HIDE DEF p, q, n
  <2>1. /\ memcmp(p, q) \in {-1, 0, 1}
        /\ memcmp(p, q) = 0 <=> p = q
        /\ memcmp(p, q) < 0 <=> \E k \in 1..n : p[k] < q[k] /\ Agree(p, q, k - 1)
    BY <1>2, MemcmpOrders
  <2>. QED BY <2>1, <1>2, <1>4
<1>6. Lexically(f, g, <) <=> IsStrictPrefix(f, g) \/ memcmp(p, q) < 0
  <2>1. Lexically(f, g, <) <=>
           \/ IsStrictPrefix(f, g)
           \/ \E k \in 1..n : f[k] < g[k] /\ SubSeq(f, 1, k - 1) = SubSeq(g, 1, k - 1)
    BY DEF Lexically
  <2>. HIDE DEF n, p, q
  <2>. QED BY <2>1, <1>5
<1>7. IsStrictPrefix(f, g) <=> p = q /\ Len(f) < Len(g)
  <2>1. IsPrefix(f, g) <=> Len(f) <= Len(g) /\ p = q
    <3>1. CASE Len(f) <= Len(g)
      <4>1. n = Len(f)
        BY <1>1, <3>1 DEF Shorter
      <4>. HIDE DEF n
      <4>. QED BY <4>1, <3>1 DEF IsPrefix
    <3>. QED BY <3>1 DEF IsPrefix
  <2>2. p = q /\ Len(f) = Len(g) => f = g
    <3>. SUFFICES ASSUME p = q, Len(f) = Len(g) PROVE f = g
      OBVIOUS
    <3>1. n = Len(f)
      BY <1>1
    <3>. HIDE DEF n, p, q
    <3>2. Agree(f, g, Len(f))
      BY <3>1, <1>2 DEF Agree
    <3>. QED BY <3>2, AgreeIsEqual
  <2>. HIDE DEF n, p, q
  <2>. QED BY <2>1, <2>2, <1>1 DEF IsStrictPrefix
<1>8. f = g => p = q
  OBVIOUS
<1>9. p = q /\ Len(f) = Len(g) => f = g
  <2>. SUFFICES ASSUME p = q, Len(f) = Len(g) PROVE f = g
    OBVIOUS
  <2>1. n = Len(f)
    BY <1>1
  <2>. HIDE DEF n, p, q
  <2>2. Agree(f, g, Len(f))
    BY <2>1, <1>2 DEF Agree
  <2>. QED BY <2>2, AgreeIsEqual
<1>10. /\ Sign(Len(f) - Len(g)) \in {-1, 0, 1}
       /\ Sign(Len(f) - Len(g)) = 0 <=> Len(f) = Len(g)
       /\ Sign(Len(f) - Len(g)) < 0 <=> Len(f) < Len(g)
  BY <1>1 DEF Sign
<1>. HIDE DEF n, p, q
<1>11. CASE memcmp(p, q) # 0
  BY <1>11, <1>3, <1>5, <1>6, <1>7, <1>8
<1>12. CASE memcmp(p, q) = 0
  <2>1. TextCmp(f, g) = Sign(Len(f) - Len(g)) /\ p = q
    BY <1>12, <1>3, <1>5
  <2>2. f = g <=> Len(f) = Len(g)
    BY <2>1, <1>9
  <2>0. ~(memcmp(p, q) < 0)
    BY <1>12
  <2>3. Lexically(f, g, <) <=> Len(f) < Len(g)
    <3>1. IsStrictPrefix(f, g) <=> Len(f) < Len(g)
      BY <2>1, <1>7
    <3>. QED BY <3>1, <2>0, <1>6, Zenon
  <2>. QED BY <2>1, <2>2, <2>3, <1>10
<1>. QED BY <1>11, <1>12

\* Fields as semver_parse leaves them are compared as SemVer orders them.
ParsedField(f) == f \in Field /\ f # <<>> /\ (sv_field_numeric(f) => NoZeros(f))
LEMMA FieldCmpExact ==
    ASSUME NEW f, NEW g, ParsedField(f), ParsedField(g)
    PROVE  /\ CmpField(f, g) \in {-1, 0, 1}
           /\ CmpField(f, g) = 0 <=> f = g
           /\ CmpField(f, g) < 0 <=> FieldBefore(f, g)
<1>1. f \in Seq(Int) /\ g \in Seq(Int) /\ f # <<>> /\ g # <<>>
  BY DEF ParsedField, Field, Char
<1>2. sv_field_numeric(f) \in BOOLEAN /\ sv_field_numeric(g) \in BOOLEAN
  BY DEF sv_field_numeric
<1>3. CASE sv_field_numeric(f) /\ sv_field_numeric(g)
  <2>1. f \in Seq(0..9) /\ g \in Seq(0..9)
    BY <1>1, <1>3 DEF sv_field_numeric, IsDigit
  <2>2. CmpField(f, g) = NumberCmp(f, g)
    BY <1>3 DEF CmpField, NumberCmp
  <2>3. FieldBefore(f, g) <=> Value(f) < Value(g)
    BY <1>3 DEF FieldBefore
  <2>4. NoZeros(f) /\ NoZeros(g)
    BY <1>3 DEF ParsedField
  <2>. QED BY <2>1, <2>2, <2>3, <2>4, <1>1, NumberCmpExact
<1>4. CASE sv_field_numeric(f) # sv_field_numeric(g)
  <2>1. CmpField(f, g) = IF sv_field_numeric(f) THEN -1 ELSE 1
    BY <1>2, <1>4, Zenon DEF CmpField
  <2>2. FieldBefore(f, g) <=> sv_field_numeric(f)
    BY <1>2, <1>4, Zenon DEF FieldBefore
  <2>3. f # g
    BY <1>4
  <2>. QED BY <2>1, <2>2, <2>3, <1>2
<1>5. CASE ~sv_field_numeric(f) /\ ~sv_field_numeric(g)
  <2>0. ~(sv_field_numeric(f) # sv_field_numeric(g))
    BY <1>2, <1>5, Zenon
  <2>1. CmpField(f, g) = TextCmp(f, g)
    BY <2>0, <1>5, Zenon DEF CmpField, TextCmp
  <2>2. FieldBefore(f, g) <=> Lexically(f, g, <)
    BY <2>0, <1>5, Zenon DEF FieldBefore
  <2>3. /\ TextCmp(f, g) \in {-1, 0, 1}
        /\ TextCmp(f, g) = 0 <=> f = g
        /\ TextCmp(f, g) < 0 <=> Lexically(f, g, <)
    BY <1>1, TextCmpExact
  <2>. QED BY <2>1, <2>2, <2>3, Zenon
<1>. QED BY <1>2, <1>3, <1>4, <1>5

Parsed == {v \in [num : {s \in Seq(Nat) : Len(s) = 3}, pre : Seq(Field)] : \A k \in DOMAIN v.pre : ParsedField(v.pre[k])}

LEMMA ParseType ==
    ASSUME NEW text \in VersionText, NEW v \in semver_parse(text)
    PROVE  v \in Parsed
<1>1. v = [num |-> text.num, pre |-> text.pre] /\ sv_idents(text.pre, TRUE)
  BY DEF semver_parse
<1>2. text.num \in {s \in Seq(Nat) : Len(s) = 3} /\ text.pre \in Seq(Field)
  BY DEF VersionText
<1>3. \A k \in DOMAIN text.pre : ParsedField(text.pre[k])
  <2>. TAKE k \in DOMAIN text.pre
  <2>1. text.pre[k] # <<>> /\ ~(sv_field_numeric(text.pre[k]) /\ Len(text.pre[k]) > 1 /\ text.pre[k][1] = 0)
    BY <1>1 DEF sv_idents
  <2>2. text.pre[k] \in Field
    BY <1>2
  <2>. QED BY <2>1, <2>2 DEF ParsedField, NoZeros
<1>. QED BY <1>1, <1>2, <1>3 DEF Parsed

\* Pre-release fields, compared one by one and then by their number.
FieldsCmp(f, g) ==
    LET n == Shorter(f, g)
        diff == {k \in 1..n : CmpField(f[k], g[k]) # 0}
    IN IF diff # {} THEN CmpField(f[Min(diff)], g[Min(diff)]) ELSE Sign(Len(f) - Len(g))
LEMMA FieldsCmpExact ==
    ASSUME NEW f \in Seq(Field), NEW g \in Seq(Field),
           \A k \in DOMAIN f : ParsedField(f[k]), \A k \in DOMAIN g : ParsedField(g[k])
    PROVE  /\ FieldsCmp(f, g) \in {-1, 0, 1}
           /\ FieldsCmp(f, g) = 0 <=> f = g
           /\ FieldsCmp(f, g) < 0 <=> Lexically(f, g, FieldBefore)
<1>. DEFINE n == Shorter(f, g)
           diff == {k \in 1..n : CmpField(f[k], g[k]) # 0}
<1>0. \A k \in 1..Len(f) : ParsedField(f[k])
  OBVIOUS
<1>9. \A k \in 1..Len(g) : ParsedField(g[k])
  OBVIOUS
<1>1. /\ Len(f) \in Nat /\ Len(g) \in Nat
      /\ n \in Nat /\ n \in 0..Len(f) /\ n \in 0..Len(g) /\ n <= Len(g) /\ n <= Len(f)
      /\ n = Len(f) \/ n = Len(g)
  BY DEF Shorter
<1>. HIDE DEF n
<1>2. \A k \in 1..n : /\ CmpField(f[k], g[k]) \in {-1, 0, 1}
                      /\ CmpField(f[k], g[k]) = 0 <=> f[k] = g[k]
                      /\ CmpField(f[k], g[k]) < 0 <=> FieldBefore(f[k], g[k])
  <2>. TAKE k \in 1..n
  <2>0. k \in 1..Len(f) /\ k \in 1..Len(g)
    BY <1>1
  <2>1. ParsedField(f[k]) /\ ParsedField(g[k])
    BY <2>0, <1>0, <1>9, Zenon
  <2>. QED BY <2>1, FieldCmpExact
<1>3. FieldsCmp(f, g) = IF diff # {} THEN CmpField(f[Min(diff)], g[Min(diff)]) ELSE Sign(Len(f) - Len(g))
  BY DEF FieldsCmp, n
<1>4. \A k \in 1..n : SubSeq(f, 1, k - 1) = SubSeq(g, 1, k - 1) <=> Agree(f, g, k - 1)
  <2>. TAKE k \in 1..n
  <2>1. k - 1 \in 0..Len(f) /\ k - 1 <= Len(g)
    BY <1>1
  <2>. QED BY <2>1, AgreeIsPrefix
<1>5. Lexically(f, g, FieldBefore) <=>
         \/ IsStrictPrefix(f, g)
         \/ \E k \in 1..n : FieldBefore(f[k], g[k]) /\ Agree(f, g, k - 1)
  <2>1. Lexically(f, g, FieldBefore) <=>
           \/ IsStrictPrefix(f, g)
           \/ \E k \in 1..n : FieldBefore(f[k], g[k]) /\ SubSeq(f, 1, k - 1) = SubSeq(g, 1, k - 1)
    BY Zenon DEF Lexically, n
  <2>. QED BY <2>1, <1>4, Zenon
<1>6. IsStrictPrefix(f, g) <=> Agree(f, g, Len(f)) /\ Len(f) < Len(g)
  <2>1. Len(f) <= Len(g) => (SubSeq(f, 1, Len(f)) = SubSeq(g, 1, Len(f)) <=> Agree(f, g, Len(f)))
    <3>1. Len(f) <= Len(g) => Len(f) \in 0..Len(f) /\ Len(f) <= Len(g)
      BY <1>1
    <3>. QED BY <3>1, AgreeIsPrefix
  <2>2. Len(f) = Len(g) => (f = g <=> Agree(f, g, Len(f)))
    BY AgreeIsEqual
  <2>3. f = g => Len(f) = Len(g)
    OBVIOUS
  <2>. QED BY <1>1, <2>1, <2>2, <2>3 DEF IsStrictPrefix, IsPrefix
<1>7. CASE diff = {}
  <2>1. \A k \in 1..n : f[k] = g[k] /\ ~FieldBefore(f[k], g[k])
    BY <1>2, <1>7
  <2>2. Agree(f, g, n)
    BY <2>1 DEF Agree
  <2>3. Lexically(f, g, FieldBefore) <=> IsStrictPrefix(f, g)
    BY <2>1, <1>5
  <2>4. IsStrictPrefix(f, g) <=> Len(f) < Len(g)
    BY <2>2, <1>1, <1>6 DEF n, Shorter
  <2>5. f = g <=> Len(f) = Len(g)
    <3>1. f = g => Len(f) = Len(g)
      OBVIOUS
    <3>2. Len(f) = Len(g) => n = Len(f)
      BY <1>1
    <3>. QED BY <3>1, <3>2, <2>2, AgreeIsEqual
  <2>6. FieldsCmp(f, g) = Sign(Len(f) - Len(g))
    BY <1>3, <1>7
  <2>7. /\ Sign(Len(f) - Len(g)) \in {-1, 0, 1}
        /\ Sign(Len(f) - Len(g)) = 0 <=> Len(f) = Len(g)
        /\ Sign(Len(f) - Len(g)) < 0 <=> Len(f) < Len(g)
    BY <1>1 DEF Sign
  <2>8. /\ FieldsCmp(f, g) \in {-1, 0, 1}
        /\ FieldsCmp(f, g) = 0 <=> Len(f) = Len(g)
        /\ FieldsCmp(f, g) < 0 <=> Len(f) < Len(g)
    BY <2>6, <2>7, Zenon
  <2>. QED BY <2>3, <2>4, <2>5, <2>8, Zenon
<1>8. CASE diff # {}
  <2>. DEFINE m == Min(diff)
  <2>1. m \in diff /\ \A k \in diff : m <= k
    <3>1. diff \subseteq Nat
      OBVIOUS
    <3>. HIDE DEF diff
    <3>. QED BY <3>1, <1>8, LeastIsMin
  <2>2. FieldsCmp(f, g) = CmpField(f[m], g[m])
    BY <1>3, <1>8
  <2>. HIDE DEF m
  <2>3. m \in 1..n /\ CmpField(f[m], g[m]) # 0
    BY <2>1
  <2>4. f[m] # g[m] /\ f # g
    BY <2>3, <1>2
  <2>5. Agree(f, g, m - 1)
    <3>1. \A j \in 1..(m - 1) : j \in 1..n /\ ~(m <= j)
      BY <2>3, <1>1
    <3>2. \A j \in 1..(m - 1) : CmpField(f[j], g[j]) = 0
      BY <3>1, <2>1
    <3>3. \A j \in 1..(m - 1) : f[j] = g[j]
      BY <3>1, <3>2, <1>2
    <3>. QED BY <3>3 DEF Agree
  <2>6. ~IsStrictPrefix(f, g)
    <3>1. Len(f) < Len(g) => m \in 1..Len(f)
      BY <2>3, <1>1
    <3>. QED BY <3>1, <2>4, <1>6 DEF Agree
  <2>7. \A k \in 1..n : FieldBefore(f[k], g[k]) /\ Agree(f, g, k - 1) => k = m
    <3>. SUFFICES ASSUME NEW k \in 1..n, FieldBefore(f[k], g[k]), Agree(f, g, k - 1) PROVE k = m
      OBVIOUS
    <3>1. k \in diff
      BY <1>2
    <3>2. m <= k
      BY <3>1, <2>1
    <3>3. ~(m \in 1..(k - 1))
      BY <2>4 DEF Agree
    <3>. QED BY <3>2, <3>3, <2>3, <1>1
  <2>8. Lexically(f, g, FieldBefore) <=> FieldBefore(f[m], g[m])
    BY <2>3, <2>5, <2>6, <2>7, <1>5, Zenon
  <2>9. /\ CmpField(f[m], g[m]) \in {-1, 0, 1}
        /\ CmpField(f[m], g[m]) < 0 <=> FieldBefore(f[m], g[m])
    BY <2>3, <1>2
  <2>. QED BY <2>2, <2>3, <2>4, <2>8, <2>9, Zenon
<1>. QED BY <1>7, <1>8

\* semver_cmp is the precedence of the SemVer specification, and tells apart
\* all parsed versions that differ, for versions of any length.
THEOREM PrecedenceIsExact ==
    \A x, y \in VersionText : \A a \in semver_parse(x), b \in semver_parse(y) : PrecedenceExact(a, b)
<1>. SUFFICES ASSUME NEW x \in VersionText, NEW y \in VersionText,
                     NEW a \in semver_parse(x), NEW b \in semver_parse(y)
              PROVE  PrecedenceExact(a, b)
  OBVIOUS
<1>1. a \in Parsed /\ b \in Parsed
  BY ParseType
<1>2. /\ a.num \in Seq(Int) /\ b.num \in Seq(Int) /\ Len(a.num) = Len(b.num) /\ Len(b.num) = 3
      /\ a.pre \in Seq(Field) /\ b.pre \in Seq(Field)
      /\ \A k \in DOMAIN a.pre : ParsedField(a.pre[k])
      /\ \A k \in DOMAIN b.pre : ParsedField(b.pre[k])
  BY <1>1 DEF Parsed
<1>3. a = b <=> a.num = b.num /\ a.pre = b.pre
  BY <1>1 DEF Parsed
<1>4. /\ memcmp(a.num, b.num) \in {-1, 0, 1}
      /\ memcmp(a.num, b.num) = 0 <=> a.num = b.num
      /\ memcmp(a.num, b.num) < 0 <=> Lexically(a.num, b.num, <)
  <2>. DEFINE r == memcmp(a.num, b.num)
  <2>1. Shorter(a.num, b.num) = 3
    BY <1>2 DEF Shorter
  <2>2. SubSeq(a.num, 1, 3) = a.num /\ SubSeq(b.num, 1, 3) = b.num
    BY <1>2
  <2>3. Sign(Len(a.num) - Len(b.num)) = 0
    BY <1>2 DEF Sign
  <2>4. TextCmp(a.num, b.num) = IF r # 0 THEN r ELSE 0
    BY <2>1, <2>2, <2>3 DEF TextCmp
  <2>5. TextCmp(a.num, b.num) = r
    BY <2>4
  <2>. QED BY <2>5, <1>2, TextCmpExact
<1>5. CASE a.num # b.num
  <2>1. semver_cmp(a, b) = memcmp(a.num, b.num)
    BY <1>5 DEF semver_cmp
  <2>2. Precedes(a, b) <=> Lexically(a.num, b.num, <)
    BY <1>5, Zenon DEF Precedes
  <2>. QED BY <2>1, <2>2, <1>3, <1>4, <1>5, Zenon DEF PrecedenceExact
<1>6. CASE a.num = b.num
  <2>1. ~Lexically(a.num, b.num, <)
    <3>1. memcmp(a.num, b.num) = 0
      BY <1>4, <1>6
    <3>2. ~(memcmp(a.num, b.num) < 0)
      BY <3>1
    <3>. QED BY <3>2, <1>4, Zenon
  <2>2. Precedes(a, b) <=> a.pre # <<>> /\ (b.pre = <<>> \/ Lexically(a.pre, b.pre, FieldBefore))
    BY <2>1, <1>6, Zenon DEF Precedes
  <2>3. CASE (a.pre = <<>>) # (b.pre = <<>>)
    <3>1. semver_cmp(a, b) = IF a.pre = <<>> THEN 1 ELSE -1
      BY <1>6, <2>3, Zenon DEF semver_cmp
    <3>2. a # b /\ (Precedes(a, b) <=> a.pre # <<>>)
      BY <2>2, <2>3, Zenon
    <3>3. semver_cmp(a, b) \in {-1, 1} /\ (semver_cmp(a, b) < 0 <=> a.pre # <<>>)
      BY <3>1
    <3>4. semver_cmp(a, b) # 0
      BY <3>3
    <3>. QED BY <3>2, <3>3, <3>4, Zenon DEF PrecedenceExact
  <2>4. CASE (a.pre = <<>>) = (b.pre = <<>>)
    <3>1. semver_cmp(a, b) = FieldsCmp(a.pre, b.pre)
      BY <1>6, <2>4, Zenon DEF semver_cmp, FieldsCmp
    <3>2. /\ FieldsCmp(a.pre, b.pre) = 0 <=> a.pre = b.pre
          /\ FieldsCmp(a.pre, b.pre) < 0 <=> Lexically(a.pre, b.pre, FieldBefore)
      BY <1>2, FieldsCmpExact
    <3>3. CASE a.pre = <<>>
      <4>1. a.pre = b.pre
        BY <3>3, <2>4
      <4>2. FieldsCmp(a.pre, b.pre) = 0
        BY <4>1, <3>2
      <4>3. ~(semver_cmp(a, b) < 0) /\ semver_cmp(a, b) = 0
        BY <4>2, <3>1
      <4>. QED BY <4>1, <4>3, <3>3, <1>3, <1>6, <2>2, Zenon DEF PrecedenceExact
    <3>4. CASE a.pre # <<>>
      <4>1. Precedes(a, b) <=> Lexically(a.pre, b.pre, FieldBefore)
        BY <2>2, <2>4, <3>4, Zenon
      <4>. QED BY <4>1, <3>1, <3>2, <1>3, <1>6, Zenon DEF PrecedenceExact
    <3>. QED BY <3>3, <3>4
  <2>. QED BY <2>3, <2>4, Zenon
<1>. QED BY <1>5, <1>6

\* The catalog keeps to its budget, at any sizes of the tools, and drops
\* nothing that had room.
LEMMA FormAt ==
    ASSUME NEW n \in Nat, NEW level \in Nat, NEW k \in 0..(level + n)
    PROVE  /\ Form(n, level, k).keep \in 0..n /\ Form(n, level, k).level \in 0..level
           /\ k <= level => Form(n, level, k).keep = n /\ Form(n, level, k).level = level - k
           /\ k >= level => Form(n, level, k).keep = n + level - k /\ Form(n, level, k).level = 0
<1>1. CASE k <= level
  <2>1. Form(n, level, k).keep = n /\ Form(n, level, k).level = level - k
    BY <1>1 DEF Form
  <2>. QED BY <2>1, <1>1
<1>2. CASE ~(k <= level)
  <2>1. Form(n, level, k).keep = n + level - k /\ Form(n, level, k).level = 0
    BY <1>2 DEF Form
  <2>. QED BY <2>1, <1>2
<1>. QED BY <1>1, <1>2

THEOREM CatalogsFit ==
    \A tools, budget : \A level \in Nat : Len(tools) \in Nat => CatalogFits(tools, level, budget)
<1>. SUFFICES ASSUME NEW tools, NEW budget, NEW level \in Nat, Len(tools) \in Nat
              PROVE  CatalogFits(tools, level, budget)
  OBVIOUS
<1>. DEFINE n == Len(tools)
           Fits(keep, l) == budget = 0 \/ CatalogSize(tools, keep, l) <= budget
           fit == {k \in 0..(level + n) : Fits(Form(n, level, k).keep, Form(n, level, k).level)}
           at == IF fit = {} THEN level + n ELSE Min(fit)
           r == catalog_render(tools, level, budget)
<1>1. r = Form(n, level, at)
  BY DEF catalog_render
<1>2. SUFFICES /\ Fits(r.keep, r.level) \/ (r.keep = 0 /\ r.level = 0)
               /\ r.keep < n => /\ ~Fits(r.keep + 1, 0)
                                /\ \A l \in 0..level : ~Fits(n, l)
               /\ \A l \in r.level + 1..level : ~Fits(n, l)
  BY Zenon DEF CatalogFits
<1>. HIDE DEF r, Fits
<1>3. at \in 0..(level + n) /\ (at \in fit \/ at = level + n) /\ \A k \in 0..(level + n) : k < at => k \notin fit
  <2>1. CASE fit = {}
    BY <2>1
  <2>2. CASE fit # {}
    <3>1. fit \subseteq Nat
      OBVIOUS
    <3>2. Min(fit) \in fit /\ \A k \in fit : Min(fit) <= k
      <4>. HIDE DEF fit
      <4>. QED BY <3>1, <2>2, LeastIsMin
    <3>3. at = Min(fit)
      BY <2>2
    <3>4. at \in fit /\ \A k \in fit : at <= k
      BY <3>2, <3>3
    <3>. HIDE DEF at
    <3>5. at \in 0..(level + n)
      BY <3>4
    <3>6. \A k \in 0..(level + n) : k < at => ~(at <= k)
      BY <3>5
    <3>. HIDE DEF fit
    <3>. QED BY <3>4, <3>5, <3>6
  <2>. QED BY <2>1, <2>2
<1>. HIDE DEF at
<1>4. \A k \in 0..(level + n) : k < at => ~Fits(Form(n, level, k).keep, Form(n, level, k).level)
  BY <1>3
<1>5. at \in fit => Fits(r.keep, r.level)
  BY <1>1
<1>. HIDE DEF fit
<1>6. /\ at <= level => r.keep = n /\ r.level = level - at
      /\ at >= level => r.keep = n + level - at /\ r.level = 0
  BY <1>1, <1>3, FormAt
<1>7. Fits(r.keep, r.level) \/ (r.keep = 0 /\ r.level = 0)
  BY <1>3, <1>5, <1>6
<1>8. \A l \in 0..level : level - l < at => ~Fits(n, l)
  <2>. SUFFICES ASSUME NEW l \in 0..level, level - l < at PROVE ~Fits(n, l)
    OBVIOUS
  <2>1. level - l \in 0..(level + n) /\ level - l <= level /\ level - (level - l) = l
    OBVIOUS
  <2>2. Form(n, level, level - l).keep = n /\ Form(n, level, level - l).level = l
    BY <2>1, FormAt
  <2>. QED BY <2>1, <2>2, <1>4
<1>9. r.keep < n => ~Fits(r.keep + 1, 0) /\ \A l \in 0..level : ~Fits(n, l)
  <2>. SUFFICES ASSUME r.keep < n PROVE ~Fits(r.keep + 1, 0) /\ \A l \in 0..level : ~Fits(n, l)
    OBVIOUS
  <2>1. at > level /\ r.keep = n + level - at
    BY <1>3, <1>6
  <2>2. at - 1 \in 0..(level + n) /\ at - 1 >= level /\ at - 1 < at /\ n + level - (at - 1) = r.keep + 1
    BY <2>1, <1>3
  <2>3. Form(n, level, at - 1).keep = r.keep + 1 /\ Form(n, level, at - 1).level = 0
    BY <2>2, FormAt
  <2>4. ~Fits(r.keep + 1, 0)
    BY <2>2, <2>3, <1>4
  <2>5. \A l \in 0..level : level - l < at
    BY <2>1, <1>3
  <2>. QED BY <2>4, <2>5, <1>8
<1>10. \A l \in r.level + 1..level : ~Fits(n, l)
  <2>. SUFFICES ASSUME NEW l \in r.level + 1..level PROVE ~Fits(n, l)
    OBVIOUS
  <2>1. l \in 0..level /\ level - l < at
    BY <1>3, <1>6
  <2>. QED BY <2>1, <1>8
<1>. QED BY <1>7, <1>9, <1>10
=============================================================================
