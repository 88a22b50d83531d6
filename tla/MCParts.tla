------------------------------ MODULE MCParts -------------------------------
(***************************************************************************)
(* Parts that share no state, in one instance: descriptors, error texts,   *)
(* the log, a library, and a program run for a standard tool.  subject     *)
(* says which of them moves.                                               *)
(***************************************************************************)
EXTENDS Descriptors

CONSTANTS
    Thread, Context, Slots, MaxCalls,            \* of Diagnostics
    MaxFiles, MaxSize, MaxRecords, MaxFaults,    \* of Log
    LibCall, LibContent,                         \* of Library
    Stream, PipeCap, OutCap, MaxBytes, InputLen  \* of Capture

CONSTANTS d1, d2, d3, d4, h1, h2, s1, s2, t1, t2, c1, c2, c3

VARIABLE subject
VARIABLES tls, recent, err_buf, pc, ctx, call, own, report
VARIABLES files, fp, size, step, written, faults
VARIABLES where, sha, listed, image, busy, lock, loaded, failed, init_ok, mapped, inits,
          shuts, closed
VARIABLES cpc, proc, kid, hung, made, taken, open, trunc, input, fed, inopen, late, timed, result

T == INSTANCE Diagnostics
L == INSTANCE Log
S == INSTANCE Library WITH Call <- LibCall, Content <- LibContent, Free <- None, at <- where
K == INSTANCE Capture WITH pc <- cpc, closed <- hung

ASSUME PartsAssumption ==
    /\ None \notin T!Text \cup {T!Blank}
    /\ Slots \in Nat \ {0} /\ MaxCalls \in Nat
    /\ MaxFiles \in Nat /\ MaxFiles >= 1 /\ MaxSize \in Nat
    /\ MaxRecords \in Nat /\ MaxFaults \in Nat
    /\ IsFiniteSet(LibCall) /\ None \notin LibCall
    /\ PipeCap \in Nat \ {0} /\ OutCap \in Nat /\ MaxBytes \in Nat /\ InputLen \in Nat

textVars == <<tls, recent, err_buf, pc, ctx, call, own, report>>
logVars == <<files, fp, size, step, written, faults>>
libVars == <<where, sha, listed, image, busy, lock, loaded, failed, init_ok, mapped, inits,
             shuts, closed>>
captureVars == <<cpc, proc, kid, hung, made, taken, open, trunc, input, fed, inopen, late, timed, result>>
allVars == <<subject, vars, textVars, logVars, libVars, captureVars>>

Some(set) == CHOOSE x \in set : TRUE
AllInit ==
    /\ Init /\ T!Init /\ L!Init /\ S!Init /\ K!Init
    /\ subject \in {"descriptors", "texts", "log", "library", "capture"}
    /\ subject # "library" => image = Some(LibContent) /\ sha = [c \in LibCall |-> image]
    /\ ctx = [t \in Thread |-> Some(Context)]    \* set by the first invocation

AllNext ==
    /\ UNCHANGED subject
    /\ \/ subject = "descriptors" /\ Next /\ UNCHANGED <<textVars, logVars, libVars, captureVars>>
       \/ subject = "texts" /\ T!Next /\ UNCHANGED <<vars, logVars, libVars, captureVars>>
       \/ subject = "log" /\ L!Next /\ UNCHANGED <<vars, textVars, libVars, captureVars>>
       \/ subject = "library" /\ S!Next /\ UNCHANGED <<vars, textVars, logVars, captureVars>>
       \/ subject = "capture" /\ K!Next /\ UNCHANGED <<vars, textVars, logVars, libVars>>

\* The fairness of the parts, each for the behaviors that are about it.
AllFairness ==
    /\ \A s \in Scanner : WF_vars(subject = "descriptors" /\ ScanStep(s))
    /\ \A h \in Holder : WF_vars(subject = "descriptors" /\ Destroy(h))
    /\ WF_captureVars(subject = "capture" /\ K!Tool)
    /\ WF_captureVars(subject = "capture" /\ K!Deadline)

AllSpec == AllInit /\ [][AllNext]_allVars /\ AllFairness

\* Error texts: a text is about the context it is asked for, and a result that
\* described its failure carries its own description (astools_last_error,
\* result_error).
ErrorTexts == T!ContextSpecific /\ T!OwnDescription

\* The log: in order, the newest record kept whatever fails in a rotation, and
\* without gaps when nothing fails (log_rotate_locked).
LogTrail == L!LogTrail

\* A library is initialized once and shut down once, and calls run only in the
\* initialized image of their own package (astools_exec_library).
LibraryOnce == S!LibraryOnce

\* A captured output without a truncation mark is everything that was written,
\* and the program has been reaped (astd_run_capture).
CaptureExact == K!CaptureExact

\* Descriptors nobody refers to are destroyed, and a captured run ends, whatever
\* the program and its descendants do.
PartsFinish == Reclaimed /\ (subject = "capture" => K!CaptureEnds)
=============================================================================
