------------------------------ MODULE OneShot ------------------------------
(***************************************************************************)
(* The one-shot executor (execution_oneshot.c): spawn the tool, feed the   *)
(* request through a pipe while reading stdout and stderr, leave the poll  *)
(* loop on end of file, cancellation, deadline or too much output, reap,   *)
(* drain stderr, kill what is left of the process group and judge.         *)
(*                                                                         *)
(* The tool's leader may do anything: answer early or late, write garbage, *)
(* close its pipes, stay after its answer, fork a descendant that inherits *)
(* its pipes and survives it, exit with any code.  A full pipe blocks its  *)
(* writer.                                                                 *)
(***************************************************************************)
EXTENDS Naturals, Sequences

CONSTANTS
    Request,    \* length of the request
    Response,   \* length of a well-formed response
    Pipe,       \* capacity of the stdin and stdout pipes
    ErrPipe,    \* capacity of the stderr pipe
    MaxOutput,  \* max_output_bytes
    StderrMax,  \* stderr_max_bytes
    MaxErr,     \* bound: units the tool writes to stderr
    MaxStray    \* bound: units the tool writes to stdout beside its response

ASSUME OneShotAssumption ==
    /\ Request \in Nat \ {0} /\ Response \in Nat \ {0} /\ Pipe \in Nat \ {0}
    /\ ErrPipe \in Nat \ {0}
    /\ MaxOutput \in Nat /\ StderrMax \in Nat \ {0}
    /\ MaxErr \in Nat /\ MaxStray \in Nat

\* A unit of stdout is the n-th part of the response or Garbage, text that does
\* not parse; the units of stderr are numbered as they are written.
Garbage == 0

\* astools_proto_parse_response accepts the response of this invocation only
\* when it is whole and all of the text parses.
WellFormed(text) == text = [n \in 1..Response |-> n]

VARIABLES
    pc,         \* where astools_exec_oneshot is
    status,     \* ONE_*
    cancelled,  \* the task's flag
    expired,    \* now >= deadline_mono
    unsent,     \* request units not yet written (wr_len - wr_off)
    stdin,      \* unread units in the stdin pipe
    stdin_open, \* the engine's end of it
    listening,  \* some process still has the read end of stdin
    outp, errp, \* units in the stdout and stderr pipes
    outb, errb, \* what the engine has collected
    out_by,     \* processes that have the write end of stdout
    err_by,     \* ... of stderr
    leader,     \* life of the process os_proc_spawn started, with its exit code
    orphan,     \* a descendant in its process group is alive
    code,       \* *exit_code
    calm,       \* the tool reads its request, answers, and exits; poll works
    told,       \* units of the response the tool has written
    strays,     \* garbage units it has written
    cried,      \* stderr units it has written
    verdict     \* what the executor returned

engine == <<pc, status, unsent, stdin_open, outb, errb, code, verdict>>
process == <<listening, out_by, err_by, leader, orphan, calm, told, strays, cried>>
signals == <<cancelled, expired>>
pipes == <<stdin, outp, errp>>
vars == <<engine, process, signals, pipes>>

Members == {"leader", "orphan"}
Statuses == {"running", "eof", "timeout", "cancel", "overflow"}
Verdicts == {"none", "ok", "cancelled", "timeout", "overflow", "crashed", "protocol"}

TypeOK ==
    /\ pc \in {"spawn", "look", "feed", "read", "err", "grace", "kill", "reap", "drain",
               "sweep", "done"}
    /\ status \in Statuses
    /\ cancelled \in BOOLEAN /\ expired \in BOOLEAN
    /\ unsent \in 0..Request /\ stdin \in 0..Pipe /\ stdin_open \in BOOLEAN
    /\ listening \in BOOLEAN
    /\ outp \in Seq(0..Response) /\ Len(outp) <= Pipe
    /\ errp \in Seq(1..MaxErr) /\ Len(errp) <= ErrPipe
    /\ outb \in Seq(0..Response) /\ errb \in Seq(1..MaxErr)
    /\ out_by \subseteq Members /\ err_by \subseteq Members
    /\ leader \in {"none", "running", "zero", "nonzero", "reaped"}
    /\ orphan \in BOOLEAN
    /\ code \in {"none", "zero", "nonzero"}
    /\ calm \in BOOLEAN
    /\ told \in 0..Response /\ strays \in 0..MaxStray /\ cried \in 0..MaxErr
    /\ verdict \in Verdicts

Init ==
    /\ pc = "spawn" /\ status = "running"
    /\ cancelled = FALSE /\ expired = FALSE
    /\ unsent = Request /\ stdin = 0 /\ stdin_open = TRUE
    /\ listening = FALSE
    /\ outp = <<>> /\ errp = <<>> /\ outb = <<>> /\ errb = <<>>
    /\ out_by = {} /\ err_by = {}
    /\ leader = "none" /\ orphan = FALSE
    /\ code = "none"
    /\ calm \in BOOLEAN
    /\ told = 0 /\ strays = 0 /\ cried = 0
    /\ verdict = "none"

-----------------------------------------------------------------------------
(* The process group.                                                      *)

Alive(m) == IF m = "leader" THEN leader = "running" ELSE orphan

\* os_proc_kill: SIGKILL to the whole group; it has been retained although the
\* leader may be reaped.  A leader that has already exited keeps its code.
KillGroup ==
    /\ leader' = IF leader = "running" THEN "nonzero" ELSE leader
    /\ orphan' = FALSE
    /\ out_by' = {} /\ err_by' = {} /\ listening' = FALSE
    /\ UNCHANGED <<calm, told, strays, cried>>

-----------------------------------------------------------------------------
(* The executor.                                                           *)

\* Leave the poll loop: only a natural end of file lets the tool go on.
Leave(s) ==
    /\ status' = s
    /\ pc' = IF s = "eof" THEN "grace" ELSE "kill"

Spawn ==
    /\ pc = "spawn"
    /\ pc' = "look"
    /\ leader' = "running"
    /\ listening' = TRUE /\ out_by' = {"leader"} /\ err_by' = {"leader"}
    /\ UNCHANGED <<status, unsent, stdin_open, outb, errb, code, verdict, orphan, calm,
                   told, strays, cried, signals, pipes>>

SpawnFails ==
    /\ pc = "spawn"
    /\ pc' = "done" /\ verdict' = "crashed"
    /\ UNCHANGED <<status, unsent, stdin_open, outb, errb, code, process, signals, pipes>>

\* The top of the loop.
Look ==
    /\ pc = "look"
    /\ \/ cancelled /\ Leave("cancel")
       \/ ~cancelled /\ expired /\ Leave("timeout")
       \/ ~cancelled /\ ~expired /\ ~calm /\ Leave("eof")   \* os_proc_poll fails
       \/ ~cancelled /\ ~expired /\ pc' = "feed" /\ UNCHANGED status
    /\ UNCHANGED <<unsent, stdin_open, outb, errb, code, verdict, process, signals, pipes>>

\* Fault: the room in the pipe is not looked at.
FeedSomeBlindly(k) ==
    /\ listening
    /\ stdin' = stdin + k
    /\ unsent' = unsent - k
    /\ stdin_open' = (unsent' > 0)

\* Fault: stdin stays open after the last unit.
FeedSomeKeepsOpen(k) ==
    /\ listening
    /\ k <= Pipe - stdin
    /\ stdin' = stdin + k
    /\ unsent' = unsent - k
    /\ UNCHANGED stdin_open

\* The request goes out as far as the pipe has room; the pipe is closed after
\* the last unit, or when nobody reads it any more.
FeedSome(k) ==
    /\ listening
    /\ k <= Pipe - stdin
    /\ stdin' = stdin + k
    /\ unsent' = unsent - k
    /\ stdin_open' = (unsent' > 0)

FeedBroken ==
    /\ ~listening
    /\ stdin_open' = FALSE
    /\ UNCHANGED <<unsent, stdin>>

WantWrite == stdin_open /\ unsent > 0

Feed ==
    /\ pc = "feed"
    /\ pc' = "read"
    /\ \/ WantWrite /\ \E k \in 1..unsent : FeedSome(k)
       \/ WantWrite /\ FeedBroken
       \/ ~(WantWrite /\ (listening => stdin < Pipe)) /\ UNCHANGED <<unsent, stdin, stdin_open>>
    /\ UNCHANGED <<status, outb, errb, code, verdict, process, signals, outp, errp>>

Overflows(collected) == MaxOutput > 0 /\ Len(collected) > MaxOutput

\* One read of stdout; end of file only when no process can write any more.
ReadSome(k) ==
    /\ outb' = outb \o SubSeq(outp, 1, k)
    /\ outp' = SubSeq(outp, k + 1, Len(outp))
    /\ \/ Overflows(outb') /\ Leave("overflow")
       \/ ~Overflows(outb') /\ pc' = "err" /\ UNCHANGED status

EndOfFile == outp = <<>> /\ out_by = {}

ReadOut ==
    /\ pc = "read"
    /\ \/ \E k \in 1..Len(outp) : ReadSome(k)
       \/ EndOfFile /\ Leave("eof") /\ UNCHANGED <<outb, outp>>
       \/ outp = <<>> /\ out_by # {} /\ pc' = "err" /\ UNCHANGED <<status, outb, outp>>
    /\ UNCHANGED <<unsent, stdin_open, errb, code, verdict, process, signals, stdin, errp>>

LastOf(s, n) == SubSeq(s, Len(s) - n + 1, Len(s))

\* Fault: the oldest half is kept.
StderrAppendOldest(b, new) ==
    LET joined == b \o (IF Len(new) > StderrMax THEN LastOf(new, StderrMax) ELSE new)
    IN  IF Len(joined) > StderrMax THEN SubSeq(joined, 1, StderrMax \div 2) ELSE joined

\* stderr_append.
StderrAppend(b, new) ==
    LET joined == b \o (IF Len(new) > StderrMax THEN LastOf(new, StderrMax) ELSE new)
    IN  IF Len(joined) > StderrMax THEN LastOf(joined, StderrMax \div 2) ELSE joined

TakeErr ==
    \E k \in 1..Len(errp) :
        /\ errb' = StderrAppend(errb, SubSeq(errp, 1, k))
        /\ errp' = SubSeq(errp, k + 1, Len(errp))

ReadErr ==
    /\ pc = "err"
    /\ pc' = "look"
    /\ TakeErr \/ (errp = <<>> /\ UNCHANGED <<errb, errp>>)
    /\ UNCHANGED <<status, unsent, stdin_open, outb, code, verdict, process, signals,
                   stdin, outp>>

\* os_proc_wait: the leader is reaped and its code recorded.
Reaped ==
    /\ leader \in {"zero", "nonzero"}
    /\ code' = leader
    /\ leader' = "reaped"
    /\ pc' = "drain"
    /\ UNCHANGED <<status, unsent, stdin_open, outb, errb, verdict, listening, out_by,
                   err_by, orphan, calm, told, strays, cried, signals, pipes>>

\* Five seconds for a tool that has closed its stdout ...
Grace == pc = "grace" /\ Reaped

\* ... after which it is killed like one that was stopped.
GraceOver ==
    /\ pc = "grace" /\ leader = "running"
    /\ pc' = "kill"
    /\ UNCHANGED <<status, unsent, stdin_open, outb, errb, code, verdict, process,
                   signals, pipes>>

Kill ==
    /\ pc = "kill"
    /\ pc' = "reap"
    /\ KillGroup
    /\ UNCHANGED <<status, unsent, stdin_open, outb, errb, code, verdict, signals, pipes>>

Reap == pc = "reap" /\ Reaped

Drain ==
    /\ pc = "drain"
    /\ \/ TakeErr /\ UNCHANGED pc
       \/ errp = <<>> /\ pc' = "sweep" /\ UNCHANGED <<errb, errp>>
    /\ UNCHANGED <<status, unsent, stdin_open, outb, code, verdict, process, signals,
                   stdin, outp>>

\* Fault: a clean exit is taken for an answer.
JudgedByExit ==
    CASE status = "cancel" -> "cancelled"
      [] status = "timeout" -> "timeout"
      [] status = "overflow" -> "overflow"
      [] status = "eof" -> IF code = "zero" THEN "ok" ELSE "crashed"

\* Fault: the exit code is looked at before the response.
JudgedExitFirst ==
    CASE status = "cancel" -> "cancelled"
      [] status = "timeout" -> "timeout"
      [] status = "overflow" -> "overflow"
      [] status = "eof" /\ code = "nonzero" -> "crashed"
      [] status = "eof" /\ code # "nonzero" -> IF WellFormed(outb) THEN "ok" ELSE "protocol"

\* A well-formed response is authoritative regardless of the exit code.
Judged ==
    CASE status = "cancel" -> "cancelled"
      [] status = "timeout" -> "timeout"
      [] status = "overflow" -> "overflow"
      [] status = "eof" /\ WellFormed(outb) -> "ok"
      [] status = "eof" /\ ~WellFormed(outb) -> IF code = "zero" THEN "protocol" ELSE "crashed"

\* Fault: a well-formed response ends the matter.
SweepLeavesOrphans ==
    /\ pc = "sweep"
    /\ pc' = "done"
    /\ verdict' = Judged
    /\ UNCHANGED <<status, unsent, stdin_open, outb, errb, code, process, signals, pipes>>

\* The tail of the process group is killed before the verdict.
Sweep ==
    /\ pc = "sweep"
    /\ pc' = "done"
    /\ KillGroup
    /\ verdict' = Judged
    /\ UNCHANGED <<status, unsent, stdin_open, outb, errb, code, signals, pipes>>

Engine ==
    \/ Spawn \/ SpawnFails \/ Look \/ Feed \/ ReadOut \/ ReadErr
    \/ Grace \/ GraceOver \/ Kill \/ Reap \/ Drain \/ Sweep

-----------------------------------------------------------------------------
(* The tool.                                                               *)

ToolReads ==
    /\ listening /\ stdin > 0
    /\ stdin' = stdin - 1
    /\ UNCHANGED <<engine, process, signals, outp, errp>>

\* A calm tool answers when it has read all of its request, and closes its
\* pipes or exits when it has written all of its answer.
ToolAnswers(m) ==
    /\ m \in out_by /\ told < Response /\ Len(outp) < Pipe
    /\ calm => stdin = 0 /\ ~stdin_open
    /\ outp' = Append(outp, told + 1)
    /\ told' = told + 1
    /\ UNCHANGED <<engine, listening, out_by, err_by, leader, orphan, calm, strays, cried,
                   signals, stdin, errp>>

ToolStrays(m) ==
    /\ ~calm /\ m \in out_by /\ strays < MaxStray /\ Len(outp) < Pipe
    /\ outp' = Append(outp, Garbage)
    /\ strays' = strays + 1
    /\ UNCHANGED <<engine, listening, out_by, err_by, leader, orphan, calm, told, cried,
                   signals, stdin, errp>>

ToolCries(m) ==
    /\ m \in err_by /\ cried < MaxErr /\ Len(errp) < ErrPipe
    /\ errp' = Append(errp, cried + 1)
    /\ cried' = cried + 1
    /\ UNCHANGED <<engine, listening, out_by, err_by, leader, orphan, calm, told, strays,
                   signals, stdin, outp>>

\* The descendant inherits the pipes the leader still has.
ToolForks ==
    /\ ~calm /\ leader = "running" /\ ~orphan
    /\ orphan' = TRUE
    /\ out_by' = IF "leader" \in out_by THEN out_by \cup {"orphan"} ELSE out_by
    /\ err_by' = IF "leader" \in err_by THEN err_by \cup {"orphan"} ELSE err_by
    /\ UNCHANGED <<engine, listening, leader, calm, told, strays, cried, signals, pipes>>

ToolCloses(m) ==
    /\ calm => told = Response
    /\ \/ m \in out_by /\ out_by' = out_by \ {m} /\ UNCHANGED <<err_by, listening>>
       \/ m \in err_by /\ err_by' = err_by \ {m} /\ UNCHANGED <<out_by, listening>>
       \/ listening /\ Alive(m) /\ listening' = FALSE /\ UNCHANGED <<out_by, err_by>>
    /\ UNCHANGED <<engine, leader, orphan, calm, told, strays, cried, signals, pipes>>

ToolExits(m) ==
    /\ Alive(m)
    /\ calm => told = Response
    /\ \/ /\ m = "leader" /\ leader' \in {"zero", "nonzero"} /\ UNCHANGED orphan
          /\ calm => leader' = "zero"
       \/ m = "orphan" /\ orphan' = FALSE /\ UNCHANGED leader
    /\ out_by' = out_by \ {m} /\ err_by' = err_by \ {m}
    /\ listening' = (listening /\ \E x \in Members \ {m} : Alive(x))
    /\ UNCHANGED <<engine, calm, told, strays, cried, signals, pipes>>

Tool ==
    \/ ToolReads \/ ToolForks
    \/ \E m \in Members : \/ ToolAnswers(m) \/ ToolStrays(m) \/ ToolCries(m)
                          \/ ToolCloses(m) \/ ToolExits(m)

-----------------------------------------------------------------------------
(* The host and the clock.                                                 *)

InLoop == pc \in {"look", "feed", "read", "err"}

Cancel ==
    /\ ~cancelled /\ InLoop
    /\ cancelled' = TRUE
    /\ UNCHANGED <<engine, process, expired, pipes>>

Expire ==
    /\ ~expired /\ InLoop
    /\ expired' = TRUE
    /\ UNCHANGED <<engine, process, cancelled, pipes>>

Returned == pc = "done" /\ UNCHANGED vars

Next == Engine \/ Tool \/ Cancel \/ Expire \/ Returned

Spec == Init /\ [][Next]_vars

\* The thread is scheduled and its five seconds of grace pass.  A calm tool is
\* scheduled too; nothing is assumed of any other, for which the clock counts.
Fairness ==
    /\ WF_vars(Engine)
    /\ WF_vars(calm /\ Tool)
    /\ WF_vars(~calm /\ Expire)

FairSpec == Spec /\ Fairness

-----------------------------------------------------------------------------
(* Properties.                                                             *)

\* No process of the group outlives the call: neither a leader that ignores
\* the end of its pipes nor a descendant it left behind.
NoSurvivors == pc = "done" => leader \in {"none", "reaped"} /\ ~orphan

\* Every verdict has its cause in what the tool, the host and the clock really
\* did: a late or truncated answer is never taken for an answer, and a refusal
\* of the answer is never blamed on the wrong party.
VerdictJustified ==
    pc = "done" =>
        CASE verdict = "ok" -> told = Response
          [] verdict = "cancelled" -> cancelled
          [] verdict = "timeout" -> expired
          [] verdict = "overflow" -> told + strays > MaxOutput
          [] verdict = "crashed" -> leader = "none" \/ code = "nonzero"
          [] verdict = "protocol" -> ~calm

\* A tool that reads its request, answers and exits is answered for, whatever
\* it writes to stderr and however the pipes fill up, unless the host or the
\* clock stopped it first.
CalmServed ==
    (pc = "done" /\ calm /\ leader # "none" /\ Response <= MaxOutput) =>
        \/ verdict = "ok"
        \/ verdict = "cancelled" /\ cancelled
        \/ verdict = "timeout" /\ expired

\* The captured stderr is bounded and is the newest part of what was read, in
\* order and without a gap.
StderrIsTail ==
    /\ Len(errb) <= StderrMax
    /\ \A n \in 1..Len(errb) : errb[n] = cried - Len(errp) - Len(errb) + n

\* The call returns: for a calm tool by itself, for any other by its deadline.
Returns == <>(pc = "done")
=============================================================================
