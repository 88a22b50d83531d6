------------------------------ MODULE Foreign -------------------------------
(***************************************************************************)
(* Persistent tools that speak somebody else's protocol: the JSON-RPC peer *)
(* (rpc.c), the MCP client (mcp_*.c) and the LSP client (lsp_*.c).  One    *)
(* process serves the calls one after the other; it may answer late, twice *)
(* or with an error, chatter, change its tools, ask things of the client,  *)
(* send what is not JSON-RPC, or die.  Any failure of a call stops the     *)
(* process, and the next call starts a new one.                            *)
(***************************************************************************)
EXTENDS Naturals, Sequences, FiniteSets

CONSTANTS
    Protocols,   \* {"mcp"}, {"lsp"} or both
    MessageMax,  \* messages one receive reads (256)
    PageMax,     \* pages one check of the tools reads (16)
    SerialMax,   \* INT32_MAX
    MaxCalls,    \* bound: calls
    MaxWire,     \* bound: messages the client has not read
    MaxChanges   \* bound: changes of the server's tools and of the files

File == {"source", "header"}     \* the file asked about and one it may lead to

VARIABLES
    proto, pc, calls,
    alive,     \* p->alive, or starting
    serial,    \* p->rpc_serial
    epoch,     \* p->mcp_catalog_epoch
    want,      \* the id astools_rpc_receive waits for, 0: an observation
    left,      \* messages it may still read
    asked,     \* requests and open documents the process knows of
    wire,      \* messages it sent that are not read yet
    check,     \* astools_mcp_check_tool: [epoch, page, matches, cats]
    view,      \* astools_lsp_view: content of each file read
    expects,   \* the call's sha256 argument
    verdict,
    cat,       \* the server's catalog of tools, a version number
    disk,      \* content of the files, version numbers
    got,       \* history: the message that completed the call
    since      \* history: contents of the files since it arrived

client == <<pc, calls, alive, serial, epoch, want, left, check, view, expects, verdict, got>>
world == <<cat, disk, since>>
vars == <<proto, client, asked, wire, world>>

NoCheck == [epoch |-> 0, page |-> 0, matches |-> 0, cats |-> {}]
NoView == [f \in {} |-> 0]
Nothing == [t |-> "none"]
Asked(id, method, call) == [id |-> id, method |-> method, call |-> call]

Init ==
    /\ proto \in Protocols
    /\ pc = "idle" /\ calls = 0 /\ alive = FALSE /\ serial = 0 /\ epoch = 0
    /\ want = 0 /\ left = 0 /\ asked = {} /\ wire = <<>>
    /\ check = NoCheck /\ view = NoView /\ expects = 0 /\ verdict = "none"
    /\ cat = 0 /\ disk = [f \in File |-> 0]
    /\ got = Nothing /\ since = [f \in File |-> {}]

-----------------------------------------------------------------------------
(* The JSON-RPC peer *)

\* astools_pp_stop: nothing the process said or was asked survives.
Stop(why) ==
    /\ pc' = "idle" /\ verdict' = why /\ alive' = FALSE
    /\ asked' = {} /\ wire' = <<>>
    /\ UNCHANGED <<calls, serial, epoch, want, left, check, view, expects, got>>

\* astools_rpc_request up to the first read of astools_rpc_receive.
SendRequest(method, next) ==
    IF serial >= SerialMax THEN Stop("tool")
    ELSE /\ serial' = serial + 1
         /\ asked' = asked \cup {Asked(serial + 1, method, calls)}
         /\ want' = serial + 1 /\ left' = MessageMax /\ pc' = next

Waiting == pc \in {"init", "list", "call", "query", "observe"}

\* A message that completes nothing was one of the 256.
Skip ==
    /\ left' = left - 1
    /\ UNCHANGED <<pc, calls, alive, serial, want, asked, check, view, expects, verdict, got>>
ReadForever == UNCHANGED <<pc, calls, alive, serial, want, left, asked, check, view, expects, verdict, got>> /\ UNCHANGED epoch /\ wire' = Tail(wire)
Read == IF left = 1 THEN Stop("tool") ELSE Skip /\ UNCHANGED epoch /\ wire' = Tail(wire)

\* Requests of the server: an MCP server has no business with the client; an
\* LSP server gets an error, or an empty result for a ping.  Neither is run.
ServerRequest == IF proto = "mcp" THEN Stop("protocol") ELSE Read

\* notifications/tools/list_changed; LSP has no such notification.
ListChanged ==
    IF left = 1 THEN Stop("tool")
    ELSE Skip /\ epoch' = (IF proto = "mcp" THEN epoch + 1 ELSE epoch) /\ wire' = Tail(wire)

\* lsp_rpc.c: diagnostics of the document and version just opened complete an
\* observation; any other is skipped.
AnyVersion(m) == want = 0
Observed(m) == want = 0 /\ m.q.id = serial

\* Strict correlation: a response to anything but the request in flight ends
\* the exchange.
AnyResponse(m) == want # 0
Correlated(m) == want # 0 /\ m.q.id = want

-----------------------------------------------------------------------------
(* What a response completes *)

KeepView == UNCHANGED <<view, expects>>
On(m) == got' = m /\ wire' = Tail(wire) /\ UNCHANGED <<calls, alive, epoch>>
Arrived == since' = [f \in File |-> {disk[f]}] /\ UNCHANGED <<cat, disk>>

\* mcp_initialize.c, lsp_initialize.c: version, capabilities, encoding.
Initialized(m) ==
    /\ On(m) /\ pc' = "ready"
    /\ UNCHANGED <<serial, want, left, asked, check, view, expects, verdict>>

\* One page of astools_mcp_check_tool.
EpochNow(e) == TRUE
SameEpoch(e) == e = check.epoch

Page(m) ==
    LET hits == check.matches + (IF m.hit = "none" THEN 0 ELSE 1)
        next == [check EXCEPT !.page = @ + 1, !.matches = hits, !.cats = @ \cup {m.cat}]
    IN CASE ~SameEpoch(epoch) -> Stop("busy")
         [] SameEpoch(epoch) /\ m.more = "same" /\ check.page > 0 -> Stop("protocol")
         [] SameEpoch(epoch) /\ (m.hit = "other" \/ hits > 1) -> Stop("protocol")
         [] OTHER ->
              IF m.more = "done" THEN
                   IF hits = 0 THEN Stop("not-found")
                   ELSE /\ SendRequest("tools/call", "call")
                        /\ IF serial >= SerialMax THEN TRUE
                           ELSE check' = next /\ On(m) /\ KeepView /\ UNCHANGED verdict
              ELSE IF next.page = PageMax THEN Stop("tool")
              ELSE /\ SendRequest("tools/list", "list")
                   /\ IF serial >= SerialMax THEN TRUE
                      ELSE check' = next /\ On(m) /\ KeepView /\ UNCHANGED verdict

\* astools_mcp_invoke after the answer: the envelope is checked, and so are the
\* output schema, the deadline and the size.
Called(m) ==
    /\ pc' = "idle" /\ On(m)
    /\ verdict' = IF m.shape = "good" THEN "ok" ELSE m.shape
    /\ UNCHANGED <<serial, want, left, asked, check, view, expects>>

\* didClose follows the answer; then the result is rendered.
Queried(m) ==
    /\ On(m) /\ pc' = "render"
    /\ UNCHANGED <<serial, want, left, asked, check, view, expects, verdict>>

\* resultType: only tools/call may be incomplete.
Proper(m) == m.shape = "good" \/ (pc = "call" /\ m.shape \in {"is-error", "input-required"})

ReceiveResponse(m) ==
    CASE ~Correlated(m) -> Stop("protocol") /\ UNCHANGED world
      [] m.t = "error" -> Stop("tool") /\ UNCHANGED world
      [] ~Proper(m) -> Stop("protocol") /\ UNCHANGED world
      [] OTHER -> CASE pc = "init" -> Initialized(m) /\ UNCHANGED world
                    [] pc = "list" -> Page(m) /\ UNCHANGED world
                    [] pc = "call" -> Called(m) /\ UNCHANGED world
                    [] pc = "query" -> Queried(m) /\ Arrived

Receive ==
    /\ Waiting /\ wire # <<>>
    /\ LET m == Head(wire)
       IN CASE m.t = "bad" -> Stop("protocol") /\ UNCHANGED world
            [] m.t = "note" -> Read /\ UNCHANGED world
            [] m.t = "changed" -> ListChanged /\ UNCHANGED world
            [] m.t = "request" -> ServerRequest /\ UNCHANGED world
            [] m.t = "diagnostics" -> IF Observed(m) THEN Queried(m) /\ Arrived
                                      ELSE Read /\ UNCHANGED world
            [] OTHER -> ReceiveResponse(m)
    /\ UNCHANGED proto

-----------------------------------------------------------------------------
(* A call *)

\* astools_exec_persistent: a live process is used as it is; otherwise it is
\* started and initialized, with serial and epoch from zero.
Begin ==
    /\ pc = "idle" /\ calls < MaxCalls
    /\ calls' = calls + 1 /\ verdict' = "none" /\ got' = Nothing
    /\ expects' \in {disk["source"], 0}
    /\ view' = NoView /\ check' = NoCheck
    /\ IF alive THEN pc' = "ready" /\ UNCHANGED <<alive, serial, epoch, want, left, asked>>
       ELSE /\ alive' = TRUE /\ pc' = "init"
            /\ serial' = 1 /\ epoch' = 0 /\ want' = 1 /\ left' = MessageMax
            /\ asked' = {Asked(1, "initialize", calls + 1)}
    /\ UNCHANGED <<proto, wire, world>>

McpCheck ==
    /\ pc = "ready" /\ proto = "mcp"
    /\ SendRequest("tools/list", "list")
    /\ IF serial >= SerialMax THEN TRUE
       ELSE /\ check' = [NoCheck EXCEPT !.epoch = epoch]
            /\ KeepView /\ UNCHANGED <<calls, alive, epoch, wire, verdict, got>>
    /\ UNCHANGED <<proto, world>>

\* astools_lsp_invoke: the file must have the content the caller saw.
LspRead ==
    /\ pc = "ready" /\ proto = "lsp"
    /\ IF disk["source"] # expects THEN Stop("busy")
       ELSE /\ view' = [f \in {"source"} |-> disk[f]] /\ pc' = "open"
            /\ UNCHANGED <<calls, alive, serial, epoch, want, left, asked, wire, check,
                           expects, verdict, got>>
    /\ UNCHANGED <<proto, world>>

\* query(): the document gets the next serial as its version, then the request
\* is sent, or the diagnostics of that version are awaited.
LspQuery ==
    /\ pc = "open"
    /\ IF serial >= SerialMax - 1 THEN Stop("tool")
       ELSE \/ Stop("unsupported")     \* capability, file name or position
            \/ /\ \/ /\ pc' = "query" /\ want' = serial + 2 /\ serial' = serial + 2
                     /\ asked' = asked \cup {Asked(serial + 1, "didOpen", calls),
                                             Asked(serial + 2, "query", calls)}
                  \/ /\ pc' = "observe" /\ want' = 0 /\ serial' = serial + 1
                     /\ asked' = asked \cup {Asked(serial + 1, "didOpen", calls)}
               /\ left' = MessageMax
               /\ UNCHANGED <<calls, alive, epoch, wire, check, view, expects, verdict, got>>
    /\ UNCHANGED <<proto, world>>

\* astools_lsp_render: the answer may lead to the other file, read if the
\* grants allow it and excluded otherwise.
LspRender ==
    /\ pc = "render"
    /\ \/ Stop("protocol")
       \/ /\ \/ UNCHANGED view
             \/ view' = [f \in File |-> IF f = "source" THEN view[f] ELSE disk[f]]
          /\ pc' = "recheck"
          /\ UNCHANGED <<calls, alive, serial, epoch, want, left, asked, wire, check,
                         expects, verdict, got>>
    /\ UNCHANGED <<proto, world>>

\* astools_lsp_recheck: the files, one after the other.
Unrechecked(f) == TRUE
Unchanged(f) == disk[f] = view[f]

LspRecheck(step, f, next) ==
    /\ pc = step
    /\ IF f \in DOMAIN view /\ ~Unchanged(f) THEN Stop("busy")
       ELSE /\ pc' = next
            /\ verdict' = IF next = "idle" THEN "ok" ELSE verdict
            /\ UNCHANGED <<calls, alive, serial, epoch, want, left, asked, wire, check,
                           view, expects, got>>
    /\ UNCHANGED <<proto, world>>

\* Deadline, cancellation, end of file, failed write, a file that cannot be read
\* or a result larger than max_output_bytes; on the first two an MCP server is
\* sent notifications/cancelled, which it may ignore.
Interrupted ==
    /\ pc # "idle" /\ Stop("interrupted") /\ UNCHANGED <<proto, world>>

-----------------------------------------------------------------------------
(* The server and the other programs of the machine *)

Say(m) == Len(wire) < MaxWire /\ wire' = Append(wire, m)
Anonymous == [id |-> 0, method |-> "none", call |-> 0]
Answer(t, q, shape, hit, more) ==
    [t |-> t, q |-> q, shape |-> shape, hit |-> hit, more |-> more, cat |-> cat]

\* A response to any request of this process, also one answered before.
Respond ==
    /\ Waiting
    /\ \E q \in asked :
          /\ q.method # "didOpen"
          /\ \/ \E hit \in {"none", "match", "other"}, more \in {"done", "next", "same"} :
                   q.method = "tools/list" /\ Say(Answer("result", q, "good", hit, more))
             \/ \E shape \in {"good", "is-error", "input-required", "malformed"} :
                   q.method # "tools/list" /\ Say(Answer("result", q, shape, "none", "done"))
             \/ Say(Answer("error", q, "good", "none", "done"))
    /\ UNCHANGED <<proto, client, asked, world>>

\* Diagnostics of any version opened so far.
Diagnose ==
    /\ Waiting
    /\ \E q \in asked : q.method = "didOpen" /\ Say(Answer("diagnostics", q, "good", "none", "done"))
    /\ UNCHANGED <<proto, client, asked, world>>

Chatter ==
    /\ Waiting
    /\ \E t \in {"note", "request", "bad"} : Say(Answer(t, Anonymous, "good", "none", "done"))
    /\ UNCHANGED <<proto, client, asked, world>>

\* The server changes its tools and says so before anything that shows it.
ChangeTools ==
    /\ alive /\ proto = "mcp" /\ cat < MaxChanges
    /\ cat' = cat + 1 /\ Say(Answer("changed", Anonymous, "good", "none", "done"))
    /\ UNCHANGED <<proto, client, asked, disk, since>>

WriteFile ==
    /\ pc # "idle" /\ proto = "lsp"
    /\ \E f \in File :
          /\ disk[f] < MaxChanges
          /\ disk' = [disk EXCEPT ![f] = @ + 1]
          /\ since' = [since EXCEPT ![f] = @ \cup {disk[f] + 1}]
    /\ UNCHANGED <<proto, client, asked, wire, cat>>

Finished == pc = "idle" /\ calls = MaxCalls /\ UNCHANGED vars

Client ==
    \/ Receive \/ McpCheck \/ LspRead \/ LspQuery \/ LspRender
    \/ LspRecheck("recheck", "source", "recheck2") \/ LspRecheck("recheck2", "header", "idle")
Server == Respond \/ Diagnose \/ Chatter

Next == Begin \/ Client \/ Interrupted \/ Server \/ ChangeTools \/ WriteFile \/ Finished

\* The client's thread runs, and the server keeps talking.  Nothing is assumed
\* of deadlines: a silent server is what they are for.
Spec == Init /\ [][Next]_vars /\ WF_vars(Client) /\ WF_vars(Server)

-----------------------------------------------------------------------------
(* Properties *)

\* A call is completed by the answer to its own last request, or by the
\* diagnostics of the version it opened: a late or repeated answer, or one about
\* an earlier call on the same process, never becomes a result (id and version
\* checks of rpc.c and lsp_rpc.c, one process per uncertain exchange).
AnswersOwn ==
    verdict \in {"ok", "is-error", "input-required"} =>
        /\ got.q.call = calls
        /\ got.q.method = CASE proto = "mcp" -> "tools/call"
                            [] got.t = "diagnostics" -> "didOpen"
                            [] OTHER -> "query"

\* The pages that prove the reviewed contract come from one catalog, and show
\* the tool exactly once: a server that announces its changes cannot slip one in
\* between two pages (mcp_catalog_epoch in mcp_discovery.c).
OneCatalog == pc = "call" => Cardinality(check.cats) = 1 /\ check.matches = 1

\* Every file a semantic result speaks of had the reported content at some moment
\* after the server answered, whatever was written while it was thinking, while
\* the answer was rendered and while it was rechecked (astools_lsp_recheck).
ResultCurrent ==
    (verdict = "ok" /\ proto = "lsp" /\ pc = "idle") =>
        /\ view["source"] = expects
        /\ \A f \in DOMAIN view : view[f] \in since[f]

\* A server that never stops talking, with notifications or with ever more pages,
\* cannot hold a call: the budgets of rpc.c and mcp_discovery.c end it even when
\* no deadline does.
CallsEnd == (pc # "idle") ~> (pc = "idle")
=============================================================================
