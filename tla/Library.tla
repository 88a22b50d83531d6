------------------------------ MODULE Library -------------------------------
(***************************************************************************)
(* Tools that are shared libraries (execution_library.c, worker.c): all    *)
(* calls of a package share one pool node, the first one loads and         *)
(* initializes the library under io_mu, calls run at once and outside the  *)
(* lock, and closing the context shuts the library down and unloads it.    *)
(***************************************************************************)
EXTENDS Naturals, FiniteSets

CONSTANTS
    Call,      \* invocations of the tool
    Content,   \* content identities of the package
    Free       \* nobody holds the lock

VARIABLES
    at,        \* where each call is in astools_exec_library
    sha,       \* content of the descriptor it holds
    listed,    \* the node is in ctx->pprocs
    image,     \* content of the descriptor the node was made for
    busy,      \* p->busy
    lock,      \* p->io_mu
    loaded, failed, init_ok,
    mapped,    \* the library is open
    inits, shuts,    \* history: calls of init and shutdown
    closed

node == <<listed, image, loaded, failed, init_ok, mapped>>
vars == <<at, sha, node, busy, lock, inits, shuts, closed>>

Init ==
    /\ at = [c \in Call |-> "idle"] /\ sha \in [Call -> Content]
    /\ listed = FALSE /\ image \in Content /\ busy = 0 /\ lock = Free
    /\ loaded = FALSE /\ failed = FALSE /\ init_ok = FALSE /\ mapped = FALSE
    /\ inits = 0 /\ shuts = 0 /\ closed = FALSE

Goto(c, p) == at' = [at EXCEPT ![c] = p]

\* astools_pp_acquire with PP_KIND_LIB: the key is the package directory only.
Acquire(c) ==
    /\ at[c] = "idle" /\ ~closed
    /\ listed' = TRUE /\ image' = IF listed THEN image ELSE sha[c]
    /\ busy' = busy + 1
    /\ Goto(c, "acquired")
    /\ UNCHANGED <<sha, lock, loaded, failed, init_ok, mapped, inits, shuts, closed>>

\* A replaced package is refused while the image of the old one is loaded.
AnyImage(c) == TRUE
SameImage(c) == image = sha[c]

Compare(c) ==
    /\ at[c] = "acquired"
    /\ IF SameImage(c) THEN Goto(c, "lock") ELSE Goto(c, "release")
    /\ UNCHANGED <<sha, node, busy, lock, inits, shuts, closed>>

Lock(c) ==
    /\ at[c] = "lock" /\ lock = Free /\ lock' = c /\ Goto(c, "load")
    /\ UNCHANGED <<sha, node, busy, inits, shuts, closed>>

\* A library that cannot be opened, has the wrong ABI or whose manifest cannot be
\* rendered is closed again and tried anew by the next call; a failed init is
\* final.
NotReady == ~init_ok
NeverLoaded == ~loaded /\ ~failed

Load(c) ==
    /\ at[c] = "load" /\ lock' = Free
    /\ IF NeverLoaded
       THEN \/ Goto(c, "release") /\ UNCHANGED <<node, inits>>
            \/ /\ inits' = inits + 1 /\ loaded' = TRUE /\ mapped' = TRUE
               /\ \E ok \in BOOLEAN :
                     /\ failed' = (failed \/ ~ok) /\ init_ok' = (init_ok \/ ok)
                     /\ Goto(c, IF ok THEN "invoke" ELSE "release")
               /\ UNCHANGED <<listed, image>>
       ELSE Goto(c, IF failed THEN "release" ELSE "invoke") /\ UNCHANGED <<node, inits>>
    /\ UNCHANGED <<sha, busy, shuts, closed>>

\* vtable->invoke, several calls at once.
Invoke(c) ==
    /\ at[c] = "invoke" /\ Goto(c, "release")
    /\ UNCHANGED <<sha, node, busy, lock, inits, shuts, closed>>

Release(c) ==
    /\ at[c] = "release" /\ busy' = busy - 1 /\ Goto(c, "done")
    /\ UNCHANGED <<sha, node, lock, inits, shuts, closed>>

\* astools_worker_stop: astools_close comes here when no call is in flight.
WorkerStop ==
    /\ ~closed /\ \A c \in Call : at[c] \in {"idle", "done"}
    /\ closed' = TRUE /\ listed' = FALSE
    /\ shuts' = IF listed /\ loaded /\ init_ok THEN shuts + 1 ELSE shuts
    /\ mapped' = IF listed /\ loaded THEN FALSE ELSE mapped
    /\ UNCHANGED <<at, sha, image, busy, lock, loaded, failed, init_ok, inits>>

Done == closed /\ UNCHANGED vars

Next ==
    \/ \E c \in Call : Acquire(c) \/ Compare(c) \/ Lock(c) \/ Load(c) \/ Invoke(c) \/ Release(c)
    \/ WorkerStop \/ Done

Spec == Init /\ [][Next]_vars

-----------------------------------------------------------------------------
(* Properties *)

\* Calls that race for the first load, or follow a failed one, or a replacement
\* of the package: init runs once, a call only runs in the initialized image of
\* its own content, and shutdown answers exactly one successful init.
LibraryOnce ==
    /\ inits <= 1
    /\ \A c \in Call : at[c] = "invoke" => mapped /\ init_ok /\ ~failed /\ image = sha[c]
    /\ shuts <= 1 /\ (closed => shuts = IF init_ok THEN 1 ELSE 0)
    /\ closed => ~mapped /\ busy = 0
=============================================================================
