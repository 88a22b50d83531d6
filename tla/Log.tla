-------------------------------- MODULE Log ---------------------------------
(***************************************************************************)
(* The rotating log file (log.c).  Records are numbered in the order they  *)
(* are written, under log_mu; files[0] is the current file, files[k] is    *)
(* <path>.k.  Rotation removes and renames without looking at the results, *)
(* so each of its steps may do nothing, and the program may be killed      *)
(* between two of them.                                                    *)
(***************************************************************************)
EXTENDS Integers, Sequences, SequencesExt

CONSTANTS
    MaxFiles,    \* cfg.log_max_files, at least 1
    MaxSize,     \* cfg.log_max_size_kb, in records
    MaxRecords,  \* bound: records
    MaxFaults    \* bound: steps of a rotation that fail

Slot == 0..MaxFiles - 1
Gone == <<-1>>      \* no such file

VARIABLES
    files,    \* content of each file, or Gone
    fp,       \* the file is open
    size,     \* ctx->log_size
    step,     \* the next step of the rotation under way, -1: none
    written,  \* records accepted so far
    faults

vars == <<files, fp, size, step, written, faults>>

Init ==
    /\ files = [k \in Slot |-> Gone]
    /\ fp = FALSE /\ size = 0 /\ step = -1 /\ written = 0 /\ faults = 0

Content(k) == IF files[k] = Gone THEN <<>> ELSE files[k]

\* Fault: the file is opened with "wb".
Truncated == <<>>

\* os_fopen(path, "ab"): what is there stays, and its size is looked up.
Opened == Content(0)

\* astools_log_open, at the start and again at any time.
LogOpen ==
    /\ step = -1
    /\ files' = [files EXCEPT ![0] = Opened]
    /\ fp' = TRUE /\ size' = Len(Opened)
    /\ UNCHANGED <<step, written, faults>>

LogClose ==
    /\ step = -1 /\ fp /\ fp' = FALSE /\ size' = 0
    /\ UNCHANGED <<files, step, written, faults>>

\* astools_log: over the limit the file is rotated first.
MustRotate == MaxSize > 0 /\ size + 1 > MaxSize

Append1 ==
    /\ files' = [files EXCEPT ![0] = Append(@, written + 1)]
    /\ written' = written + 1 /\ size' = size + 1

WriteRecord ==
    /\ step = -1 /\ fp /\ written < MaxRecords
    /\ IF MustRotate THEN step' = MaxFiles /\ fp' = FALSE /\ UNCHANGED <<files, size, written>>
       ELSE Append1 /\ UNCHANGED <<fp, step>>
    /\ UNCHANGED faults

\* log_rotate_locked.  Step MaxFiles removes the oldest file (the only one when
\* none are kept), step k renames file k - 1 to k, step 0 reopens.
Moved(k) == [files EXCEPT ![k] = files[k - 1], ![k - 1] = Gone]
Rotated(k) ==
    CASE k = MaxFiles -> [files EXCEPT ![MaxFiles - 1] = Gone]
      [] OTHER -> IF files[k - 1] = Gone THEN files ELSE Moved(k)

RotateStep ==
    /\ step >= 1
    /\ \/ files' = Rotated(step) /\ UNCHANGED faults
       \/ UNCHANGED files /\ faults < MaxFaults /\ faults' = faults + 1
    /\ step' = step - 1
    /\ UNCHANGED <<fp, size, written>>

\* The record that caused the rotation goes to the file just opened; when it
\* cannot be opened the sink stays off until astools_log_open.
Reopen ==
    /\ step = 0 /\ step' = -1
    /\ \/ /\ files' = [files EXCEPT ![0] = Append(Opened, written + 1)]
          /\ fp' = TRUE /\ written' = written + 1 /\ size' = Len(Opened) + 1
          /\ UNCHANGED faults
       \/ /\ faults < MaxFaults /\ faults' = faults + 1
          /\ fp' = FALSE /\ size' = 0 /\ UNCHANGED <<files, written>>

Killed ==
    /\ faults < MaxFaults /\ faults' = faults + 1
    /\ fp' = FALSE /\ size' = 0 /\ step' = -1
    /\ UNCHANGED <<files, written>>

Next == LogOpen \/ LogClose \/ WriteRecord \/ RotateStep \/ Reopen \/ Killed

Spec == Init /\ [][Next]_vars

-----------------------------------------------------------------------------
(* Properties *)

\* The records of a file, and those of all files.
Records(k) == ToSet(Content(k))
Held == UNION {Records(k) : k \in Slot}

Ascending(s) == \A i, j \in DOMAIN s : i < j => s[i] < s[j]

\* Read from the oldest file to the current one, the records are in the order of
\* writing; whichever renames fail and wherever the program is killed, the newest
\* record is still there (when rotated files are kept at all), and without such
\* failures no record is missing in the middle (log_rotate_locked).
LogTrail ==
    /\ \A k \in Slot : Ascending(Content(k))
    /\ \A j, k \in Slot : j < k => \A a \in Records(k), b \in Records(j) : a < b
    /\ MaxFiles > 1 /\ written > 0 => written \in Held
    /\ faults = 0 => \A a, b \in Held : a..b \subseteq Held
=============================================================================
