---------------------------- MODULE Diagnostics ----------------------------
(***************************************************************************)
(* Error texts (api.c): every context has one shared buffer, every thread  *)
(* a small map from contexts to its own last text; astools_last_error      *)
(* falls back to the buffer when the thread has none.  An invocation       *)
(* (invoke.c) blanks the text, runs, and copies the last error into its    *)
(* result when it fails: some failures set a text, some do not.            *)
(***************************************************************************)
EXTENDS Naturals, Sequences, SequencesExt

CONSTANTS
    Thread,    \* threads that run invocations
    Context,   \* open contexts
    Slots,     \* entries of a thread's map (8)
    MaxCalls,  \* bound: invocations per thread
    None

\* A text is named after the invocation that produced it; Blank is the empty
\* string.
Text == [by : Thread, call : 1..MaxCalls, about : Context]
Blank == <<>>

VARIABLES
    tls,      \* g_err_tls: the texts of each thread
    recent,   \* its contexts by age, the oldest first
    err_buf,  \* ctx->err_buf
    pc, ctx, call,
    own,      \* history: the text the current invocation set, or None
    report    \* error_message of the result, or None

vars == <<tls, recent, err_buf, pc, ctx, call, own, report>>

TypeOK ==
    /\ tls \in [Thread -> [Context -> Text \cup {Blank, None}]]
    /\ \A t \in Thread : /\ Len(recent[t]) <= Slots
                         /\ ToSet(recent[t]) = {c \in Context : tls[t][c] # None}
    /\ err_buf \in [Context -> Text \cup {Blank}]
    /\ pc \in [Thread -> {"idle", "run", "failed", "done"}]
    /\ ctx \in [Thread -> Context]
    /\ call \in [Thread -> 0..MaxCalls]
    /\ own \in [Thread -> Text \cup {None}]
    /\ report \in [Thread -> Text \cup {Blank, None}]

Init ==
    /\ tls = [t \in Thread |-> [c \in Context |-> None]]
    /\ recent = [t \in Thread |-> <<>>]
    /\ err_buf = [c \in Context |-> Blank]
    /\ pc = [t \in Thread |-> "idle"]
    /\ ctx \in [Thread -> Context]
    /\ call = [t \in Thread |-> 0]
    /\ own = [t \in Thread |-> None]
    /\ report = [t \in Thread |-> None]

Message(t) == [by |-> t, call |-> call'[t], about |-> ctx'[t]]

\* err_tls_get: the slot of c becomes the youngest; a new one takes the place
\* of the oldest when the map is full.
Victim(t, c) ==
    IF tls[t][c] = None /\ Len(recent[t]) = Slots THEN {Head(recent[t])} ELSE {}

Store(t, c, text) ==
    /\ tls' = [tls EXCEPT ![t] =
                  [k \in Context |-> IF k = c THEN text
                                     ELSE IF k \in Victim(t, c) THEN None ELSE @[k]]]
    /\ recent' = [recent EXCEPT ![t] =
                     Append(SelectSeq(@, LAMBDA k : k \notin Victim(t, c) \cup {c}), c)]

\* astools_seterr: the shared buffer, then the thread's slot.
SetErr(t, c, text) ==
    /\ err_buf' = [err_buf EXCEPT ![c] = text]
    /\ Store(t, c, text)

\* Fault: the shared buffer is always consulted.
TextShared(t, c) == err_buf[c]

\* Fault: the first slot is used whatever its context.
TextOfAnyone(t, c) ==
    IF recent[t] # <<>> THEN tls[t][Head(recent[t])] ELSE err_buf[c]

\* What astools_last_error returns.
TextFor(t, c) == IF tls[t][c] \in {None, Blank} THEN err_buf[c] ELSE tls[t][c]

\* astools_invoke_impl starts by blanking the text.
Begin(t) ==
    /\ pc[t] \in {"idle", "done"}
    /\ call[t] < MaxCalls
    /\ \E c \in Context : ctx' = [ctx EXCEPT ![t] = c] /\ SetErr(t, c, Blank)
    /\ call' = [call EXCEPT ![t] = @ + 1]
    /\ own' = [own EXCEPT ![t] = None]
    /\ report' = [report EXCEPT ![t] = None]
    /\ pc' = [pc EXCEPT ![t] = "run"]

\* A step of the pipeline fails with a text of its own.
FailWithText(t) ==
    /\ pc[t] = "run"
    /\ UNCHANGED <<ctx, call, report>>
    /\ SetErr(t, ctx[t], Message(t))
    /\ own' = [own EXCEPT ![t] = Message(t)]
    /\ pc' = [pc EXCEPT ![t] = "failed"]

\* A step fails with a bare error code: cancelled while queued or before
\* dispatch, out of memory, ...
FailBare(t) ==
    /\ pc[t] = "run"
    /\ pc' = [pc EXCEPT ![t] = "failed"]
    /\ UNCHANGED <<tls, recent, err_buf, ctx, call, own, report>>

Succeed(t) ==
    /\ pc[t] = "run"
    /\ pc' = [pc EXCEPT ![t] = "done"]
    /\ UNCHANGED <<tls, recent, err_buf, ctx, call, own, report>>

\* result_error: the last error becomes the result's message.
Report(t) ==
    /\ pc[t] = "failed"
    /\ report' = [report EXCEPT ![t] = TextFor(t, ctx[t])]
    /\ Store(t, ctx[t], TextFor(t, ctx[t]))
    /\ pc' = [pc EXCEPT ![t] = "done"]
    /\ UNCHANGED <<err_buf, ctx, call, own>>

\* The host asks for the last error of any context between two calls.
LastError(t, c) ==
    /\ pc[t] \in {"idle", "done"}
    /\ Store(t, c, TextFor(t, c))
    /\ UNCHANGED <<err_buf, pc, ctx, call, own, report>>

Next == \E t \in Thread : \/ Begin(t) \/ FailWithText(t) \/ FailBare(t)
                          \/ Succeed(t) \/ Report(t)
                          \/ \E c \in Context : LastError(t, c)

Spec == Init /\ [][Next]_vars

-----------------------------------------------------------------------------
(* Properties.                                                             *)

\* astools_last_error is specific to the context: no text, cached, evicted or
\* taken from the shared buffer, is about another one.
ContextSpecific ==
    \A c \in Context, t \in Thread :
        /\ TextFor(t, c) # Blank => TextFor(t, c).about = c
        /\ report[t] \notin {Blank, None} => report[t].about = ctx[t]

\* A result whose invocation described its failure carries that description,
\* whatever other threads report meanwhile.
OwnDescription ==
    \A t \in Thread : own[t] # None /\ report[t] # None => report[t] = own[t]

\* The last-error slot is no receipt: a result carries no text of another
\* invocation.
ReportIsOwn ==
    \A t \in Thread :
        report[t] \notin {Blank, None} => report[t].by = t /\ report[t].call = call[t]
=============================================================================
