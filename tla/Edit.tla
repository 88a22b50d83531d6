-------------------------------- MODULE Edit --------------------------------
(***************************************************************************)
(* The edit tool (std/tool_edit.c) as a transaction on files: edit.patch   *)
(* changes several files or none, edit.replace and edit.insert change one. *)
(* Every file is read, edited in memory, and replaced through a temporary  *)
(* file and rename(2) after its version (SHA-256) was compared with the    *)
(* one the edit is based on.  Meanwhile another program edits the same     *)
(* files, any system call may fail and the tool may be killed.             *)
(*                                                                         *)
(* Contents are opaque here; what a hunk or a replacement computes is in   *)
(* EditText.  The other program never brings a file to exactly the state   *)
(* the tool left it in: versions are digests and cannot tell the two.      *)
(***************************************************************************)
EXTENDS Naturals, Sequences

CONSTANTS
    Path,        \* files of the workspace
    Calls,       \* the calls considered: [command, sections, expected]
    MaxForeign   \* bound: writes of the other program

\* A section of a patch names a file and creates, modifies or deletes it.
Section == [path : Path, kind : {"create", "modify", "delete"}]
Call == [command : {"patch", "single"}, sections : Seq(Section),
         expected : {"none", "current", "stale"}]

Absent == "absent"
Content == {"old", "new", "foreign"}
Version == Content \cup {Absent}

VARIABLES
    call,
    disk,      \* the files
    temp,      \* <path>.astools-tmp-<pid>: absent, "partial" or whole
    pc,        \* "load", "verify", "write", "check", "swap", "back", "bcheck", "bswap",
               \* then "ok", "failed" or "killed"
    i,         \* the section (load) or target (later) being worked on
    tgts,      \* the targets, in the order of their first section
    base,      \* base_version of each target
    plan,      \* what a target is to become
    written,   \* targets replaced so far
    world,     \* history: the files as they would be without the tool
    seen,      \* history: what the last version check looked at
    based,     \* history: targets whose replaced content was not the base
    faulty,    \* history: a restore failed, or an edit fell between check and rename
    foreign    \* writes of the other program so far

txVars == <<tgts, base, plan, written>>
histVars == <<world, seen, based, faulty>>
vars == <<call, disk, temp, pc, i, txVars, histVars, foreign>>

Init ==
    /\ call \in Calls
    /\ disk \in [Path -> {"old", Absent}]
    /\ temp = [p \in Path |-> Absent]
    /\ pc = "load" /\ i = 1
    /\ tgts = <<>> /\ written = {}
    /\ base = [p \in Path |-> Absent] /\ plan = [p \in Path |-> Absent]
    /\ world = disk /\ seen = Absent /\ based = {} /\ faulty = FALSE
    /\ foreign = 0

Loaded == {tgts[k] : k \in DOMAIN tgts}
Fail == pc' = "failed" /\ UNCHANGED <<disk, temp, i, txVars, histVars>>
Quiet == UNCHANGED <<call, foreign>>

-----------------------------------------------------------------------------
(* Reading and editing in memory *)

\* strip_and_check and contain_target refuse a path outside the workspace,
\* read_raw what is not a regular file, astd_looks_binary a binary one, and
\* apply_section a hunk that does not fit (or replace a text not found once).
Section1 == call.sections[i]
Loadable == IF Section1.path \in Loaded THEN Section1.kind # "create"
            ELSE (Section1.kind = "create") <=> (disk[Section1.path] = Absent)

LoadSection ==
    /\ pc = "load" /\ i <= Len(call.sections) /\ Loadable
    /\ LET p == Section1.path
       IN IF p \in Loaded THEN UNCHANGED <<tgts, base>>
          ELSE tgts' = Append(tgts, p) /\ base' = [base EXCEPT ![p] = disk[p]]
    /\ plan' = [plan EXCEPT ![Section1.path] = IF Section1.kind = "delete" THEN Absent ELSE "new"]
    /\ i' = i + 1
    /\ UNCHANGED <<disk, temp, pc, written, histVars>> /\ Quiet

LoadFails ==
    /\ pc = "load"      \* always possible: a hunk may not apply
    /\ Fail /\ Quiet

\* expected (patch) or expected_sha256 (replace, insert): versions the caller saw.
LoadDone ==
    /\ pc = "load" /\ i > Len(call.sections)
    /\ CASE call.expected = "stale" -> Fail
         [] call.expected # "stale" /\ call.command = "single" ->
              pc' = "write" /\ i' = 1 /\ UNCHANGED <<disk, temp, txVars, histVars>>
         [] OTHER -> pc' = "verify" /\ i' = 1 /\ UNCHANGED <<disk, temp, txVars, histVars>>
    /\ Quiet

\* replace with all:true and nothing to replace leaves the file untouched.
NothingToDo ==
    /\ pc = "load" /\ i > Len(call.sections)
    /\ call.command = "single" /\ call.expected # "stale"
    /\ pc' = "ok" /\ tgts' = <<>>
    /\ UNCHANGED <<disk, temp, i, base, plan, written, histVars>> /\ Quiet

version_current(p, v) == disk[p] = v

Verify ==
    /\ pc = "verify"
    /\ IF version_current(tgts[i], base[tgts[i]])
       THEN /\ IF i = Len(tgts) THEN pc' = "write" /\ i' = 1 ELSE i' = i + 1 /\ UNCHANGED pc
            /\ UNCHANGED <<disk, temp, txVars, histVars>>
       ELSE Fail
    /\ Quiet

-----------------------------------------------------------------------------
(* Writing: write_atomic, or version check and unlink for a deletion *)

t == tgts[i]

\* Only edit.patch has anything to take back.
Rollback == IF call.command = "patch" THEN pc' = "back" /\ i' = 1 ELSE pc' = "failed" /\ i' = i

\* The temporary file is written in full and flushed, or removed again.
StagePartly(p, v) == temp' = [temp EXCEPT ![p] = "partial"]
Stage(p, v) == temp' = [temp EXCEPT ![p] = v]

WriteStage ==
    /\ pc = "write"
    /\ \/ /\ plan[t] = Absent /\ pc' = "check" /\ UNCHANGED <<temp, i>>
       \/ /\ plan[t] # Absent /\ Stage(t, plan[t]) /\ pc' = "check" /\ UNCHANGED i
       \/ /\ plan[t] # Absent /\ UNCHANGED temp /\ Rollback
    /\ UNCHANGED <<disk, txVars, histVars>> /\ Quiet

Leave(p) == UNCHANGED temp
Unstage(p) == temp' = [temp EXCEPT ![p] = Absent]

\* The last look at the version, immediately before the replacement.
Unchecked(p) == TRUE
StillBase(p) == version_current(p, base[p])

WriteCheck ==
    /\ pc = "check"
    /\ IF StillBase(t) THEN pc' = "swap" /\ UNCHANGED <<temp, i>>
       ELSE Unstage(t) /\ Rollback
    /\ seen' = disk[t]
    /\ UNCHANGED <<disk, txVars, world, based, faulty>> /\ Quiet

\* rename(2) or unlink(2): the content replaced is the base, unless the other
\* program wrote since the check.
Replaced(p, v) ==
    /\ disk' = [disk EXCEPT ![p] = v]
    /\ based' = IF disk[p] = base[p] THEN based ELSE based \cup {p}

WriteSwap ==
    /\ pc = "swap"
    /\ \/ /\ plan[t] = Absent => disk[t] # Absent
          /\ Replaced(t, temp[t])
          /\ written' = written \cup {t}
          /\ faulty' = (faulty \/ disk[t] # seen)
          /\ IF i = Len(tgts) THEN pc' = "ok" /\ UNCHANGED i
             ELSE pc' = "write" /\ i' = i + 1
       \/ Rollback /\ UNCHANGED <<disk, based, written, faulty>>
    /\ Unstage(t)
    /\ UNCHANGED <<tgts, base, plan, world, seen>> /\ Quiet

-----------------------------------------------------------------------------
(* Rolling back what was written, best effort *)

SkipBack == IF i = Len(tgts) THEN pc' = "failed" /\ UNCHANGED i ELSE pc' = "back" /\ i' = i + 1

OursOnce(p) == p \in written
OursStill(p) == p \in written /\ version_current(p, plan[p])

BackLook ==
    /\ pc = "back"
    /\ IF OursStill(t) THEN pc' = "bcheck" /\ UNCHANGED i ELSE SkipBack
    /\ seen' = disk[t]
    /\ UNCHANGED <<disk, temp, txVars, world, based, faulty>> /\ Quiet

\* A created file is unlinked; another one is staged and checked once more.
BackStage ==
    /\ pc = "bcheck"
    /\ \/ /\ base[t] = Absent \/ version_current(t, plan[t])
          /\ Stage(t, base[t])
          /\ pc' = "bswap" /\ UNCHANGED <<i, faulty>>
       \/ /\ base[t] # Absent /\ ~version_current(t, plan[t])
          /\ SkipBack /\ UNCHANGED <<temp, faulty>>
       \/ SkipBack /\ faulty' = TRUE /\ UNCHANGED temp
    /\ seen' = IF base[t] = Absent THEN seen ELSE disk[t]
    /\ UNCHANGED <<disk, txVars, world, based>> /\ Quiet

BackSwap ==
    /\ pc = "bswap"
    /\ \/ /\ disk' = [disk EXCEPT ![t] = temp[t]]
          /\ faulty' = (faulty \/ disk[t] # seen)
       \/ UNCHANGED disk /\ faulty' = TRUE
    /\ Unstage(t) /\ SkipBack
    /\ UNCHANGED <<txVars, world, seen, based>> /\ Quiet

-----------------------------------------------------------------------------
(* The environment *)

Running == pc \notin {"ok", "failed", "killed"}

\* The runtime kills a tool that exceeds its deadline, at any moment; a
\* temporary file being written stays behind, incomplete.
Killed ==
    /\ Running /\ pc' = "killed"
    /\ \/ UNCHANGED temp
       \/ pc = "write" /\ plan[t] # Absent /\ temp' = [temp EXCEPT ![t] = "partial"]
    /\ UNCHANGED <<call, disk, i, txVars, histVars, foreign>>

ForeignWrite ==
    /\ Running /\ foreign < MaxForeign
    /\ \E p \in Path, v \in {"old", "foreign", Absent} :
          /\ v # disk[p] /\ (p \in written => v # plan[p])
          /\ disk' = [disk EXCEPT ![p] = v] /\ world' = [world EXCEPT ![p] = v]
    /\ foreign' = foreign + 1
    /\ UNCHANGED <<call, temp, pc, i, txVars, seen, based, faulty>>

Stopped == ~Running /\ UNCHANGED vars

Next ==
    \/ LoadSection \/ LoadFails \/ LoadDone \/ NothingToDo \/ Verify
    \/ WriteStage \/ WriteCheck \/ WriteSwap
    \/ BackLook \/ BackStage \/ BackSwap
    \/ Killed \/ ForeignWrite \/ Stopped

Spec == Init /\ [][Next]_vars

-----------------------------------------------------------------------------
(* Properties *)

\* A failed call leaves every file as it would be without it: the files already
\* replaced are restored, those another program wrote meanwhile keep what it
\* wrote, whichever of the several writes failed (cmd_patch, rollback).
FailedIsUndone == pc = "failed" => \A p \in Path : disk[p] = world[p]

\* A successful call replaced, in every target, exactly the content its edit was
\* computed from, and the target holds the edit or a later foreign write: no
\* update of another program is lost (version_current in write_atomic).
OkIsBased ==
    pc = "ok" =>
        \A p \in Loaded : p \notin based /\ (disk[p] = plan[p] \/ disk[p] = world[p])

\* edit.patch is all or nothing and loses no update.  Not claimed: a restore that
\* itself fails, and an edit in the instant between the last version check and
\* rename(2), which the code calls an optimistic check.
EditAtomic == faulty \/ (FailedIsUndone /\ OkIsBased)

\* Whatever fails, and even when the tool is killed, a target is a whole file and
\* no temporary file outlives a call that answered (write_atomic).
WholeFiles ==
    /\ \A p \in Path : disk[p] # "partial"
    /\ pc \in {"ok", "failed"} => \A p \in Path : temp[p] = Absent
=============================================================================
