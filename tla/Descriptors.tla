---------------------------- MODULE Descriptors ----------------------------
(***************************************************************************)
(* The life of tool descriptors (registry.c): a scan builds them with the  *)
(* table's reference, publishes them under the write lock and drops the    *)
(* replaced ones outside it; resolution, discovery, selections and pool    *)
(* nodes pin a descriptor and use it, lock-free, until they unref it.      *)
(* astools_tool_unref decrements under the reference mutex and destroys    *)
(* after unlocking it.                                                     *)
(***************************************************************************)
EXTENDS Naturals, FiniteSets

CONSTANTS
    Desc,     \* descriptor objects, each allocated at most once
    Holder,   \* places that keep a reference: invocations, selections, nodes
    Scanner,  \* threads that run astools_registry_scan
    None      \* no descriptor

ASSUME DescAssumption ==
    /\ IsFiniteSet(Holder)
    /\ Holder \cap Scanner = {}
    /\ None \notin Desc

VARIABLES
    life,     \* life of each descriptor object
    refcount, \* t->refcount
    table,    \* the descriptors in ctx->tools
    readers,  \* holders that have the registry lock for reading
    fresh,    \* candidates of each scan under way (tv)
    old,      \* replaced descriptors each scanner has still to unref
    doomed,   \* the descriptor a scanner has to destroy
    at,       \* where each holder is
    desc      \* the descriptor it picked, holds or has to destroy

vars == <<life, refcount, table, readers, fresh, old, doomed, at, desc>>

TypeOK ==
    /\ life \in [Desc -> {"unused", "live", "destroyed"}]
    /\ refcount \in [Desc -> Nat]
    /\ table \subseteq Desc
    /\ readers \subseteq Holder
    /\ fresh \in [Scanner -> SUBSET Desc]
    /\ old \in [Scanner -> SUBSET Desc]
    /\ doomed \in [Scanner -> Desc \cup {None}]
    /\ at \in [Holder -> {"idle", "picked", "holding", "destroying"}]
    /\ desc \in [Holder -> Desc \cup {None}]

Init ==
    /\ life = [d \in Desc |-> "unused"]
    /\ refcount = [d \in Desc |-> 0]
    /\ table = {}
    /\ readers = {}
    /\ fresh = [s \in Scanner |-> {}]
    /\ old = [s \in Scanner |-> {}]
    /\ doomed = [s \in Scanner |-> None]
    /\ at = [h \in Holder |-> "idle"]
    /\ desc = [h \in Holder |-> None]

-----------------------------------------------------------------------------
(* Scanners.                                                               *)

\* load_package: a new candidate carries the table's reference.
Load(s, d) ==
    /\ life[d] = "unused"
    /\ old[s] = {} /\ doomed[s] = None
    /\ life' = [life EXCEPT ![d] = "live"]
    /\ refcount' = [refcount EXCEPT ![d] = 1]
    /\ fresh' = [fresh EXCEPT ![s] = @ \cup {d}]
    /\ UNCHANGED <<table, readers, old, doomed, at, desc>>

\* A duplicate, or a candidate of a scan that fails, is destroyed at once.
Discard(s, d) ==
    /\ d \in fresh[s]
    /\ life' = [life EXCEPT ![d] = "destroyed"]
    /\ fresh' = [fresh EXCEPT ![s] = @ \ {d}]
    /\ UNCHANGED <<refcount, table, readers, old, doomed, at, desc>>

\* Fault: the lock is released between the lookup and the reference.
WriteLockFreeAlways == TRUE

\* os_rwlock_wrlock waits for the readers.
WriteLockFree == readers = {}

\* Phase 4 of astools_registry_scan.
Publish(s) ==
    /\ old[s] = {} /\ doomed[s] = None
    /\ WriteLockFree
    /\ old' = [old EXCEPT ![s] = table]
    /\ table' = fresh[s]
    /\ fresh' = [fresh EXCEPT ![s] = {}]
    /\ UNCHANGED <<life, refcount, readers, doomed, at, desc>>

\* Fault: the count is tested before it is decremented.
LastTooLate(n) == n <= 0

\* What astools_tool_unref makes of the count it read under the mutex.
Last(n) == n <= 1

\* Fault: both the table and the scan drop the reference.
UnrefOldTwice(s, d) ==
    /\ d \in old[s] /\ doomed[s] = None
    /\ refcount' = [refcount EXCEPT ![d] = @ - 2]
    /\ old' = [old EXCEPT ![s] = @ \ {d}]
    /\ doomed' = [doomed EXCEPT ![s] = IF Last(refcount[d]) THEN d ELSE None]
    /\ UNCHANGED <<life, table, readers, fresh, at, desc>>

\* The scanner unrefs the replaced descriptors one by one, outside the lock.
UnrefOld(s, d) ==
    /\ d \in old[s] /\ doomed[s] = None
    /\ refcount' = [refcount EXCEPT ![d] = @ - 1]
    /\ old' = [old EXCEPT ![s] = @ \ {d}]
    /\ doomed' = [doomed EXCEPT ![s] = IF Last(refcount[d]) THEN d ELSE None]
    /\ UNCHANGED <<life, table, readers, fresh, at, desc>>

DestroyOld(s) ==
    /\ doomed[s] # None
    /\ life' = [life EXCEPT ![doomed[s]] = "destroyed"]
    /\ doomed' = [doomed EXCEPT ![s] = None]
    /\ UNCHANGED <<refcount, table, readers, fresh, old, at, desc>>

-----------------------------------------------------------------------------
(* Holders.                                                                *)

\* astools_registry_resolve, find_tool_admin, discovery: pick an entry under
\* the read lock ...
Pick(h, d) ==
    /\ at[h] = "idle"
    /\ d \in table
    /\ readers' = readers \cup {h}
    /\ at' = [at EXCEPT ![h] = "picked"]
    /\ desc' = [desc EXCEPT ![h] = d]
    /\ UNCHANGED <<life, refcount, table, fresh, old, doomed>>

\* ... and pin it before the lock is released.
Pin(h) ==
    /\ at[h] = "picked"
    /\ refcount' = [refcount EXCEPT ![desc[h]] = @ + 1]
    /\ readers' = readers \ {h}
    /\ at' = [at EXCEPT ![h] = "holding"]
    /\ UNCHANGED <<life, table, fresh, old, doomed, desc>>

\* Fault: the second holder borrows the pointer.
ShareBorrows(h, g) ==
    /\ at[h] = "holding" /\ at[g] = "idle"
    /\ at' = [at EXCEPT ![g] = "holding"]
    /\ desc' = [desc EXCEPT ![g] = desc[h]]
    /\ UNCHANGED <<life, refcount, table, readers, fresh, old, doomed>>

\* A pool node takes a reference of its own to the descriptor its invocation
\* holds; no registry lock is involved.
Share(h, g) ==
    /\ at[h] = "holding" /\ at[g] = "idle"
    /\ refcount' = [refcount EXCEPT ![desc[h]] = @ + 1]
    /\ at' = [at EXCEPT ![g] = "holding"]
    /\ desc' = [desc EXCEPT ![g] = desc[h]]
    /\ UNCHANGED <<life, table, readers, fresh, old, doomed>>

\* astools_tool_unref: the decrement, then tool_destroy for the last one.
Unref(h) ==
    /\ at[h] = "holding"
    /\ refcount' = [refcount EXCEPT ![desc[h]] = @ - 1]
    /\ at' = [at EXCEPT ![h] = IF Last(refcount[desc[h]]) THEN "destroying" ELSE "idle"]
    /\ desc' = [desc EXCEPT ![h] = IF Last(refcount[desc[h]]) THEN @ ELSE None]
    /\ UNCHANGED <<life, table, readers, fresh, old, doomed>>

Destroy(h) ==
    /\ at[h] = "destroying"
    /\ life' = [life EXCEPT ![desc[h]] = "destroyed"]
    /\ at' = [at EXCEPT ![h] = "idle"]
    /\ desc' = [desc EXCEPT ![h] = None]
    /\ UNCHANGED <<refcount, table, readers, fresh, old, doomed>>

-----------------------------------------------------------------------------
ScanStep(s) ==
    \/ \E d \in Desc : UnrefOld(s, d)
    \/ DestroyOld(s)

Next ==
    \/ \E s \in Scanner : \/ \E d \in Desc : Load(s, d) \/ Discard(s, d)
                          \/ Publish(s)
                          \/ ScanStep(s)
    \/ \E h \in Holder : \/ \E d \in Desc : Pick(h, d)
                         \/ \E g \in Holder : Share(h, g)
                         \/ Pin(h) \/ Unref(h) \/ Destroy(h)

Spec == Init /\ [][Next]_vars

\* Threads run on; a holder need never let go of what it holds.
Fairness ==
    /\ \A s \in Scanner : WF_vars(ScanStep(s))
    /\ \A h \in Holder : WF_vars(Destroy(h))

FairSpec == Spec /\ Fairness

-----------------------------------------------------------------------------
(* Properties.                                                             *)

\* Who has a counted reference: holders, and the table on behalf of the scan
\* that built the descriptor until the scan that replaces it has dropped it.
Pinned(d) == {h \in Holder : at[h] = "holding" /\ desc[h] = d}
Tabled(d) == \/ d \in table
             \/ \E s \in Scanner : d \in fresh[s] \cup old[s]

\* Threads that are about to run tool_destroy on d.
Destroyers(d) ==
    {s \in Scanner : doomed[s] = d} \cup {h \in Holder : at[h] = "destroying" /\ desc[h] = d}

\* A descriptor that is in the table, about to be pinned, held by anyone or
\* still to be unreferenced has not been destroyed; whoever is about to destroy
\* one is alone in that, and finds it still there.
NoUseAfterFree ==
    /\ \A d \in Desc : Tabled(d) => life[d] = "live"
    /\ \A h \in Holder : at[h] \in {"picked", "holding"} => life[desc[h]] = "live"
    /\ \A d \in Desc : \/ Destroyers(d) = {}
                       \/ life[d] = "live" /\ \E x \in Destroyers(d) : Destroyers(d) = {x}

\* The reference count is the number of references.
RefcountExact ==
    \A d \in Desc : life[d] = "live" =>
        refcount[d] = Cardinality(Pinned(d)) + (IF Tabled(d) THEN 1 ELSE 0)

\* Nothing leaks: a descriptor nobody refers to any more is destroyed.
Reclaimed ==
    \A d \in Desc :
        (life[d] = "live" /\ ~Tabled(d) /\ Pinned(d) = {}) ~> (life[d] = "destroyed")
=============================================================================
