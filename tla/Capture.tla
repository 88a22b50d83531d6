------------------------------ MODULE Capture -------------------------------
(***************************************************************************)
(* One program run for a standard tool (std/process_capture.c, used by     *)
(* proc.run, git and project commands): fork, wait for the report of exec, *)
(* feed the input, drain both outputs under caps until they end or the     *)
(* deadline passes, and reap the child.  The child may start a descendant  *)
(* that inherits the pipes, close them itself, and ignore its input.       *)
(*                                                                         *)
(* Bytes are counted: made is what was written to a stream, taken what was *)
(* read from it.  A step of the drain loop handles one ready descriptor;   *)
(* the code handles those one select reports one after the other.          *)
(***************************************************************************)
EXTENDS Integers, FiniteSets

CONSTANTS Stream, PipeCap, OutCap, MaxBytes, InputLen

VARIABLES pc,        \* "start", "exec", "loop", "reap", "done"
          proc,      \* the child: "none", "forked", "running", "refused", "exited", "killed"
          kid,       \* a descendant: "none", "alive", "gone"
          closed,    \* the child gave up its streams
          made, taken, open, trunc,      \* per stream
          input, fed, inopen,            \* bytes written to stdin, bytes read, its descriptor
          late, timed, result

vars == <<pc, proc, kid, closed, made, taken, open, trunc, input, fed, inopen, late, timed, result>>
child == <<proc, kid, closed, made, fed>>
parent == <<pc, taken, open, trunc, input, inopen, timed, result>>

Dead == {"none", "refused", "exited", "killed"}
Writers == (IF proc \in Dead \/ closed THEN {} ELSE {"child"}) \cup (IF kid = "alive" THEN {"kid"} ELSE {})

Init ==
    /\ pc = "start" /\ proc = "none" /\ kid = "none" /\ closed = FALSE
    /\ made = [s \in Stream |-> 0] /\ taken = [s \in Stream |-> 0]
    /\ open = Stream /\ trunc = {} /\ input = 0 /\ fed = 0 /\ inopen = TRUE
    /\ late = FALSE /\ timed = FALSE /\ result = "none"

-----------------------------------------------------------------------------
(* The program *)

\* The report pipe closes when exec succeeds; a failure is written to it.
Exec == /\ proc = "forked" /\ proc' \in {"running", "refused"}
        /\ UNCHANGED <<kid, closed, made, fed, late, parent>>
Starts == /\ proc = "running" /\ kid = "none" /\ ~closed /\ kid' = "alive"
          /\ UNCHANGED <<proc, closed, made, fed, late, parent>>
\* A write blocks while the pipe is full; after the reader closed it, it kills.
Makes(s) == /\ Writers # {} /\ proc # "forked"
            /\ s \in open /\ made[s] < MaxBytes /\ made[s] - taken[s] < PipeCap
            /\ made' = [made EXCEPT ![s] = @ + 1]
            /\ UNCHANGED <<proc, kid, closed, fed, late, parent>>
Reads == /\ Writers # {} /\ proc # "forked" /\ fed < input /\ fed' = fed + 1
         /\ UNCHANGED <<proc, kid, closed, made, late, parent>>
Closes == /\ proc = "running" /\ ~closed /\ closed' = TRUE
          /\ UNCHANGED <<proc, kid, made, fed, late, parent>>
Exits == /\ \/ proc = "running" /\ proc' = "exited" /\ UNCHANGED kid
            \/ kid = "alive" /\ kid' = "gone" /\ UNCHANGED proc
         /\ UNCHANGED <<closed, made, fed, late, parent>>
Deadline == /\ ~late /\ pc # "done" /\ late' = TRUE /\ UNCHANGED <<child, parent>>

-----------------------------------------------------------------------------
(* The tool *)

Kill == proc' = (IF proc \in Dead THEN proc ELSE "killed")

\* The pipes and the child, or a failure that leaves neither.
Spawn ==
    /\ pc = "start"
    /\ \/ pc' = "exec" /\ proc' = "forked" /\ UNCHANGED <<open, inopen, result>>
       \/ pc' = "done" /\ result' = "failed" /\ open' = {} /\ inopen' = FALSE /\ UNCHANGED proc
    /\ UNCHANGED <<kid, closed, made, fed, taken, trunc, input, late, timed>>

\* exec_ready: the end of the report pipe, a report, or the deadline first.
ExecReported ==
    /\ pc = "exec" /\ ~late /\ proc \notin {"forked"}
    /\ IF proc = "refused"
       THEN pc' = "done" /\ result' = "failed" /\ open' = {} /\ inopen' = FALSE
       ELSE /\ pc' = "loop" /\ inopen' = (InputLen > 0) /\ UNCHANGED <<open, result>>
    /\ UNCHANGED <<child, taken, trunc, input, late, timed>>
ExecLate ==
    /\ pc = "exec" /\ late
    /\ Kill /\ timed' = TRUE /\ trunc' = Stream /\ open' = {} /\ inopen' = FALSE /\ pc' = "reap"
    /\ UNCHANGED <<kid, closed, made, fed, taken, input, late, result>>

\* The deadline in the drain loop.  Fault: only the child is killed.
KillOnly == /\ UNCHANGED <<open, inopen>> /\ trunc' = trunc \cup open
\* Fault: what is left in the pipes is not marked as missing.
GiveUpSilently == /\ open' = {} /\ inopen' = FALSE /\ UNCHANGED trunc
GiveUp == /\ open' = {} /\ inopen' = FALSE /\ trunc' = trunc \cup open
LoopLate ==
    /\ pc = "loop" /\ late /\ ~timed /\ (open # {} \/ inopen)
    /\ Kill /\ timed' = TRUE /\ GiveUp
    /\ UNCHANGED <<pc, kid, closed, made, fed, taken, input, late, result>>

\* cap_append keeps what fits and remembers that something did not.
Overflows(n) == n > OutCap
ReadSome(s, n) ==
    /\ pc = "loop" /\ (~late \/ timed) /\ s \in open /\ n \in 1..made[s] - taken[s]
    /\ taken' = [taken EXCEPT ![s] = @ + n]
    /\ trunc' = IF Overflows(taken[s] + n) THEN trunc \cup {s} ELSE trunc
    /\ UNCHANGED <<pc, child, open, input, inopen, late, timed, result>>
ReadEnd(s) ==
    /\ pc = "loop" /\ (~late \/ timed) /\ s \in open /\ made[s] = taken[s] /\ Writers = {}
    /\ open' = open \ {s}
    /\ UNCHANGED <<pc, child, taken, trunc, input, inopen, late, timed, result>>
\* A full pipe takes no more until somebody reads; the descriptor is closed at
\* the end of the input, or when nobody reads.
Feed ==
    /\ pc = "loop" /\ (~late \/ timed) /\ inopen
    /\ IF Writers # {} THEN input - fed < PipeCap /\ input' = input + 1 /\ inopen' = (input + 1 < InputLen)
       ELSE inopen' = FALSE /\ UNCHANGED input
    /\ UNCHANGED <<pc, child, taken, open, trunc, late, timed, result>>
LoopEnd == /\ pc = "loop" /\ open = {} /\ ~inopen /\ pc' = "reap"
           /\ UNCHANGED <<child, taken, open, trunc, input, inopen, late, timed, result>>
\* The report, select, read or the buffer fails: capture_fail kills and reaps.
CaptureFail ==
    /\ pc \in {"exec", "loop"} /\ Kill /\ pc' = "done" /\ result' = "failed" /\ open' = {} /\ inopen' = FALSE
    /\ UNCHANGED <<kid, closed, made, fed, taken, trunc, input, late, timed>>

\* wait_child: the end of the streams is not the end of the child.
ReapLate == /\ pc = "reap" /\ late /\ proc \notin Dead
            /\ Kill /\ timed' = TRUE
            /\ UNCHANGED <<pc, kid, closed, made, fed, taken, open, trunc, input, inopen, late, result>>
Reaped == /\ pc = "reap" /\ proc \in Dead /\ pc' = "done" /\ result' \in {"ok", "failed"}
          /\ UNCHANGED <<child, taken, open, trunc, input, inopen, late, timed>>

Tool == \/ Spawn \/ ExecReported \/ ExecLate \/ LoopLate \/ LoopEnd \/ Feed \/ ReapLate \/ Reaped
        \/ \E s \in Stream : ReadEnd(s) \/ \E n \in 1..PipeCap : ReadSome(s, n)
Next ==
    \/ Tool \/ CaptureFail \/ Exec \/ Starts \/ Reads \/ Closes \/ Exits \/ Deadline
    \/ \E s \in Stream : Makes(s)
    \/ pc = "done" /\ UNCHANGED vars

\* The tool runs, and time passes; the program owes nothing, and no call has to fail.
Fairness == WF_vars(Tool) /\ WF_vars(Deadline)
Spec == Init /\ [][Next]_vars /\ Fairness

-----------------------------------------------------------------------------
(* Properties *)

\* A result without a truncation mark holds everything the program and its
\* descendants ever wrote, and the child has been reaped; a run that was cut
\* short by its deadline says so.
CaptureExact ==
    result = "ok" =>
        /\ proc \in Dead
        /\ proc = "killed" => timed
        /\ \A s \in Stream \ trunc : taken[s] = made[s] /\ taken[s] <= OutCap /\ Writers = {}

\* A run with a deadline ends, whatever the program and its descendants do.
CaptureEnds == <>(pc = "done")
=============================================================================
