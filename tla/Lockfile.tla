------------------------------ MODULE Lockfile ------------------------------
(***************************************************************************)
(* Approvals recorded in the lockfile (lockfile.c): load, hash the         *)
(* package, rewrite the whole document into <path>.tmp, rename it over     *)
(* <path>.  Nothing serialises two approvals, whether they are threads of  *)
(* one host (astools_tool_approve) or processes (astools-check --approve). *)
(*                                                                         *)
(* A path names an inode; a writer that has opened <path>.tmp keeps        *)
(* writing to that inode wherever its name goes.                           *)
(***************************************************************************)
EXTENDS Naturals, FiniteSets

CONSTANTS
    Approver,   \* threads or processes that call astools_lockfile_approve
    Tool,       \* tools (id and version), each in its package directory
    Hash,       \* identities a package's hashed files can have
    MaxEdits,   \* bound: replacements of package bytes
    MaxCalls,   \* bound: approvals per approver
    MayCrash,   \* an approver may die between two steps
    Partial,    \* bytes that no document was completely written to
    None        \* no entry / no package / no inode

ASSUME LockfileAssumption ==
    /\ IsFiniteSet(Approver)
    /\ None \notin Hash
    /\ MaxEdits \in Nat /\ MaxCalls \in Nat
    /\ MayCrash \in BOOLEAN
    /\ Partial \notin [Tool -> Hash \cup {None}]

\* Bound: one inode for the first lockfile and one per approval.
Inode == 0..(MaxCalls * Cardinality(Approver))
Document == [Tool -> Hash \cup {None}]

ASSUME NoInodeAssumption == None \notin Inode

VARIABLES
    pc,        \* where each approver is in astools_lockfile_approve
    tool,      \* the tool it approves
    doc,       \* the document it loaded, then the one it will write
    fd,        \* the inode it has open for writing
    calls,     \* approvals it has started
    content,   \* what each inode holds
    path,      \* the inode named <path>
    tmp,       \* the inode named <path>.tmp, or None
    fresh,     \* the next unused inode
    disk,      \* the package bytes
    edits,     \* replacements so far
    hashed,    \* history: the identities that approvals of each tool computed
    recorded,  \* history: approvals reported as successful, not redone since
    overlap    \* history: two approvals have been under way at once

vars == <<pc, tool, doc, fd, calls, content, path, tmp, fresh, disk, edits, hashed, recorded,
          overlap>>

TypeOK ==
    /\ pc \in [Approver -> {"idle", "load", "hash", "open", "write", "rename",
                            "unlink", "dead"}]
    /\ tool \in [Approver -> Tool]
    /\ doc \in [Approver -> Document]
    /\ fd \in [Approver -> Inode \cup {None}]
    /\ calls \in [Approver -> 0..MaxCalls]
    /\ content \in [Inode -> Document \cup {Partial}]
    /\ path \in Inode
    /\ tmp \in Inode \cup {None}
    /\ fresh \in Nat
    /\ disk \in [Tool -> Hash \cup {None}]
    /\ edits \in 0..MaxEdits
    /\ hashed \in [Tool -> SUBSET Hash]
    /\ recorded \in Document
    /\ overlap \in BOOLEAN

Empty == [t \in Tool |-> None]

Init ==
    /\ pc = [a \in Approver |-> "idle"]
    /\ tool \in [Approver -> Tool]
    /\ doc = [a \in Approver |-> Empty]
    /\ fd = [a \in Approver |-> None]
    /\ calls = [a \in Approver |-> 0]
    /\ content = [n \in Inode |-> Empty]
    /\ path = 0
    /\ tmp = None
    /\ fresh = 1
    /\ disk \in [Tool -> Hash]
    /\ edits = 0
    /\ hashed = [t \in Tool |-> {}]
    /\ recorded = Empty
    /\ overlap = FALSE

Goto(a, label) == pc' = [pc EXCEPT ![a] = label]

Begin(a) ==
    /\ pc[a] = "idle"
    /\ calls[a] < MaxCalls
    /\ calls' = [calls EXCEPT ![a] = @ + 1]
    /\ \E t \in Tool : tool' = [tool EXCEPT ![a] = t]
    /\ Goto(a, "load")
    /\ overlap' = (overlap \/ \E b \in Approver \ {a} : pc[b] # "idle")
    /\ UNCHANGED <<doc, fd, content, path, tmp, fresh, disk, edits, hashed, recorded>>

\* astools_lockfile_load: a corrupt lockfile is an error, never clobbered.
Load(a) ==
    /\ pc[a] = "load"
    /\ \/ /\ content[path] = Partial
          /\ Goto(a, "idle")
          /\ UNCHANGED doc
       \/ /\ content[path] # Partial
          /\ doc' = [doc EXCEPT ![a] = content[path]]
          /\ Goto(a, "hash")
    /\ UNCHANGED <<tool, fd, calls, content, path, tmp, fresh, disk, edits, hashed, recorded, overlap>>

\* Fault: the document is rebuilt from the new entry alone.
WithEntryOnly(d, t, h) == [Empty EXCEPT ![t] = h]

\* Fault: the fresh hashes are written to every entry.
WithEntryEverywhere(d, t, h) ==
    [u \in Tool |-> IF u = t \/ d[u] # None THEN h ELSE None]

\* lf_build_doc: replace the tool's entry in place or append it.
WithEntry(d, t, h) == [d EXCEPT ![t] = h]

\* Hash the manifest and the artifacts on disk and build the new document.
HashPackage(a) ==
    /\ pc[a] = "hash"
    /\ \/ /\ disk[tool[a]] = None
          /\ Goto(a, "idle")
          /\ UNCHANGED <<doc, hashed, overlap>>
       \/ /\ disk[tool[a]] # None
          /\ doc' = [doc EXCEPT ![a] = WithEntry(@, tool[a], disk[tool[a]])]
          /\ hashed' = [hashed EXCEPT ![tool[a]] = @ \cup {disk[tool[a]]}]
          /\ Goto(a, "open")
    /\ UNCHANGED <<tool, fd, calls, content, path, tmp, fresh, disk, edits, recorded, overlap>>

\* Fault: the lockfile itself is opened for writing.
OpenInPlace(a) ==
    /\ pc[a] = "open"
    /\ fd' = [fd EXCEPT ![a] = path]
    /\ content' = [content EXCEPT ![path] = Partial]
    /\ Goto(a, "write")
    /\ UNCHANGED <<tool, doc, calls, path, tmp, fresh, disk, edits, hashed, recorded, overlap>>

\* os_write_file opens <path>.tmp with "wb": an existing file is truncated,
\* a missing one is created.  The open may fail.
Open(a) ==
    /\ pc[a] = "open"
    /\ \/ /\ LET n == IF tmp = None THEN fresh ELSE tmp
             IN  /\ tmp' = n
                 /\ fd' = [fd EXCEPT ![a] = n]
                 /\ content' = [content EXCEPT ![n] = Partial]
                 /\ fresh' = IF tmp = None THEN fresh + 1 ELSE fresh
          /\ Goto(a, "write")
       \/ /\ Goto(a, "unlink")
          /\ UNCHANGED <<tmp, fd, content, fresh, overlap>>
    /\ UNCHANGED <<tool, doc, calls, path, disk, edits, hashed, recorded, overlap>>

\* The document reaches the inode, or the write fails half-way.  Over bytes
\* another writer left there, the tail of a longer document survives.
Write(a) ==
    /\ pc[a] = "write"
    /\ \/ /\ \/ content' = [content EXCEPT ![fd[a]] = doc[a]]
             \/ /\ content[fd[a]] # Partial
                /\ content' = [content EXCEPT ![fd[a]] = Partial]
          /\ Goto(a, "rename")
       \/ /\ content' = [content EXCEPT ![fd[a]] = Partial]
          /\ Goto(a, "unlink")
    /\ fd' = [fd EXCEPT ![a] = None]
    /\ UNCHANGED <<tool, doc, calls, path, tmp, fresh, disk, edits, hashed, recorded, overlap>>

\* os_file_replace: rename(2).  It may fail, and does when the name has gone.
Rename(a) ==
    /\ pc[a] = "rename"
    /\ \/ /\ tmp # None
          /\ path' = tmp
          /\ tmp' = None
          /\ recorded' = [recorded EXCEPT ![tool[a]] = doc[a][tool[a]]]
          /\ Goto(a, "idle")
       \/ /\ Goto(a, "unlink")
          /\ UNCHANGED <<path, tmp, recorded, overlap>>
    /\ UNCHANGED <<tool, doc, fd, calls, content, fresh, disk, edits, hashed, overlap>>

\* Fault: the clean-up removes the lockfile itself.
UnlinkLockfile(a) ==
    /\ pc[a] = "unlink"
    /\ path' = None
    /\ Goto(a, "idle")
    /\ UNCHANGED <<tool, doc, fd, calls, content, tmp, fresh, disk, edits, hashed, recorded, overlap>>

\* A failed open, write or rename removes <path>.tmp and reports the error.
Unlink(a) ==
    /\ pc[a] = "unlink"
    /\ tmp' = None
    /\ Goto(a, "idle")
    /\ UNCHANGED <<tool, doc, fd, calls, content, path, fresh, disk, edits, hashed, recorded, overlap>>

Crash(a) ==
    /\ MayCrash
    /\ pc[a] \notin {"idle", "dead"}
    /\ Goto(a, "dead")
    /\ fd' = [fd EXCEPT ![a] = None]
    /\ UNCHANGED <<tool, doc, calls, content, path, tmp, fresh, disk, edits, hashed, recorded, overlap>>

\* The process is started again.
Restart(a) ==
    /\ pc[a] = "dead"
    /\ Goto(a, "idle")
    /\ UNCHANGED <<tool, doc, fd, calls, content, path, tmp, fresh, disk, edits, hashed, recorded, overlap>>

EditPackage ==
    /\ edits < MaxEdits
    /\ \E t \in Tool, h \in Hash \cup {None} :
          /\ disk[t] # h
          /\ disk' = [disk EXCEPT ![t] = h]
    /\ edits' = edits + 1
    /\ UNCHANGED <<pc, tool, doc, fd, calls, content, path, tmp, fresh, hashed, recorded, overlap>>

\* Every approval that may be made has been made.
Quiet ==
    /\ \A a \in Approver : pc[a] = "idle" /\ calls[a] = MaxCalls
    /\ UNCHANGED vars

Next ==
    \/ \E a \in Approver : \/ Begin(a) \/ Load(a) \/ HashPackage(a) \/ Open(a)
                           \/ Write(a) \/ Rename(a) \/ Unlink(a)
                           \/ Crash(a) \/ Restart(a)
    \/ EditPackage
    \/ Quiet

Spec == Init /\ [][Next]_vars

-----------------------------------------------------------------------------
(* Properties.                                                             *)

\* While approvals do not overlap the lockfile is rewritten atomically: whoever
\* reads <path>, at any moment and after a crash at any point of an approval,
\* finds a complete document.
LockfileComplete == ~overlap => content[path] # Partial

\* Trust is never invented: whatever approvals interleave, crash or overwrite
\* each other's <path>.tmp, an identity the lockfile vouches for was computed
\* from that tool's package by an approval of that tool.
OnlyApprovedTrusted ==
    content[path] # Partial =>
        \A t \in Tool : content[path][t] \in hashed[t] \cup {None}

\* An approval reported as successful is in the lockfile, with the bytes it
\* hashed, until the same tool is approved again.
Kept(t) ==
    recorded[t] # None /\ content[path] # Partial => content[path][t] = recorded[t]

\* While approvals do not overlap, none is lost: neither by later approvals of
\* other tools nor by crashes and failing writes.
ApprovalsKept == ~overlap => \A t \in Tool : Kept(t)

\* The lockfile is complete after a crash at any step, and an approval that was
\* reported stays, unless another overlapped it (astools_lockfile_approve).
LockfileKept == LockfileComplete /\ ApprovalsKept

\* Approving is thread-safe: no reported approval is ever lost.
ApprovalsNeverLost == \A t \in Tool : Kept(t)
=============================================================================
