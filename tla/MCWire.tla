------------------------------- MODULE MCWire -------------------------------
(***************************************************************************)
(* The conversations with tools, in one instance: one-shot processes and   *)
(* foreign servers.  They share no state; subject says which takes place.  *)
(***************************************************************************)
EXTENDS OneShot

CONSTANTS Protocols, MessageMax, PageMax, SerialMax, MaxCalls, MaxWire, MaxChanges

\* The budgets of rpc.c and mcp_discovery.c are positive constants; the rest
\* bounds what is explored.
ASSUME WireAssumption ==
    /\ Protocols \subseteq {"mcp", "lsp"} /\ "mcp" \in Protocols
    /\ {MessageMax, PageMax, SerialMax} \subseteq Nat \ {0}
    /\ {MaxCalls, MaxWire, MaxChanges} \subseteq Nat

VARIABLE subject
VARIABLES proto, fpc, calls, alive, serial, epoch, want, left, asked, wire, check, view, expects, answer,
          cat, disk, got, since

F == INSTANCE Foreign WITH pc <- fpc, verdict <- answer

foreignVars == <<proto, fpc, calls, alive, serial, epoch, want, left, asked, wire, check, view, expects, answer,
                 cat, disk, got, since>>
allVars == <<subject, vars, foreignVars>>

AllInit ==
    /\ Init /\ F!Init
    /\ subject \in {"oneshot", "foreign"}
    /\ subject # "oneshot" => ~calm
    /\ subject # "foreign" => proto = "mcp"

AllNext ==
    /\ UNCHANGED subject
    /\ \/ subject = "oneshot" /\ Next /\ UNCHANGED foreignVars
       \/ subject = "foreign" /\ F!Next /\ UNCHANGED vars

\* The fairness of the parts, each for the behaviors that are about it.
AllFairness ==
    /\ WF_vars(subject = "oneshot" /\ Engine)
    /\ WF_vars(subject = "oneshot" /\ calm /\ Tool)
    /\ WF_vars(subject = "oneshot" /\ ~calm /\ Expire)
    /\ WF_foreignVars(subject = "foreign" /\ F!Client)
    /\ WF_foreignVars(subject = "foreign" /\ F!Server)

AllSpec == AllInit /\ [][AllNext]_allVars /\ AllFairness

\* One-shot calls: every verdict has its cause, a calm tool is served, the
\* captured stderr is its newest part, and no process is left behind
\* (execution_oneshot.c).
OneShotJustified == VerdictJustified /\ CalmServed /\ StderrIsTail /\ NoSurvivors

\* Foreign servers: a call is completed by the answer to its own request.
AnswersOwn == F!AnswersOwn

\* Foreign servers: what a call relies on is one catalog, and what a result says
\* of files was so after the server answered.
OneVersion == F!OneCatalog /\ F!ResultCurrent

\* One-shot calls return, for a calm tool by itself, else by the deadline, and
\* calls of foreign servers end, however much the server talks.
ConversationsEnd == (subject = "oneshot" => Returns) /\ F!CallsEnd
=============================================================================
