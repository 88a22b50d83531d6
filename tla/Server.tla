------------------------------- MODULE Server -------------------------------
(***************************************************************************)
(* astools-mcp (mcp/main.c): the MCP server that offers the registry to a  *)
(* client over newline-delimited JSON-RPC on stdio.  One thread reads a    *)
(* line, handles it to the end and then looks at tools_changed_flag, while *)
(* the supervisor thread of the context publishes registry changes at any  *)
(* moment.                                                                 *)
(*                                                                         *)
(* A line is abstracted to what the dispatcher tells apart; a tool stands  *)
(* for its <id>_<command> entries.  Running out of memory is left out.     *)
(***************************************************************************)
EXTENDS Naturals, Sequences

CONSTANTS
    Tool,        \* tools the registry can hold
    Id,          \* JSON-RPC request ids
    Management,  \* mcp.management of the configuration
    Launches,    \* the command lines and environments considered, of Options
    NoId         \* no id, not one of Id

MgmtTool == {"refresh", "manifest", "caps", "stats"}
Method == {"initialize", "server/discover", "notifications/initialized",
           "notifications/cancelled", "ping", "tools/list", "tools/call", "other"}

\* params of a line: the version `initialize' asks for, what `tools/call' calls.
\* "badmember" is an object whose member for a management tool has a wrong type.
Params(method) ==
    CASE method = "initialize" -> {"none", "legacy", "other"}
      [] method = "tools/call" ->
           [name : {"missing", "nosplit", "tool"} \cup MgmtTool,
            args : {"none", "object", "badmember", "scalar"}]
      [] OTHER -> {"none"}

\* proto is io.modelcontextprotocol/protocolVersion of params._meta.
Object(method) == [shape : {"object"}, id : Id \cup {NoId}, method : {method},
                   proto : {"none", "modern", "other"}, params : Params(method)]
Line == [shape : {"toolong", "blank", "garbage", "scalar"}]
          \cup [shape : {"nomethod"}, id : Id \cup {NoId}]
          \cup UNION {Object(method) : method \in Method}

\* The command line and environment.
Options == [usage : BOOLEAN, config_init : BOOLEAN, config : {"unnamed", "named"},
            workspace : BOOLEAN, env : {"unset", "blank", "set"},
            install : BOOLEAN, roots : 0..2]

VARIABLES
    pc,           \* "start", "opened", "read", "handle", "list", "notify", "exit"
    exit_code,
    opened,       \* open parameters: registry_paths and workspace_root
    config,       \* the file --config names: "absent", "users", "template"
    initialized,  \* mcp_server.initialized
    modern,       \* mcp_modern_response
    cur,          \* the line being handled
    replies,      \* responses written for it
    todo, names,  \* tools/list: ids still to resolve, entries built
    table,        \* the published registry
    flag,         \* ctx->tools_changed_flag
    view,         \* history: the last tools/list answer, {} before the first
    told          \* history: list_changed was written after that answer

launchVars == <<exit_code, opened, config>>
listVars == <<todo, names>>
clientVars == <<view, told>>
vars == <<pc, launchVars, initialized, modern, cur, replies, listVars, table, flag, clientVars>>

Init ==
    /\ pc = "start" /\ exit_code = 0
    /\ opened = [paths |-> <<>>, workspace |-> "config"]
    /\ config \in {"absent", "users"}
    /\ initialized = FALSE /\ modern = FALSE
    /\ cur = [shape |-> "blank"] /\ replies = <<>>
    /\ todo = {} /\ names = {}
    /\ table \in SUBSET Tool /\ flag = TRUE
    /\ view = {} /\ told = FALSE

-----------------------------------------------------------------------------
(* main: the command line, --config-init, and opening the context *)

run_config_init(o) ==
    \/ o.config = "unnamed" /\ exit_code' = 2 /\ UNCHANGED config
    \/ o.config = "named" /\ config # "absent" /\ exit_code' = 1 /\ UNCHANGED config
    \/ o.config = "named" /\ config = "absent" /\ exit_code' = 0 /\ config' = "template"
    \/ o.config = "named" /\ config = "absent" /\ exit_code' = 1 /\ UNCHANGED config

find_install_root(o) == IF o.install THEN <<"install">> ELSE <<>>

OpenParams(o) ==
    [paths |-> find_install_root(o) \o [i \in 1..o.roots |-> "root"],
     workspace |-> IF o.workspace THEN "flag" ELSE IF o.env = "set" THEN "env" ELSE "config"]

Launch(o) ==
    /\ pc = "start"
    /\ \/ o.usage /\ pc' = "exit" /\ exit_code' \in {0, 2} /\ UNCHANGED <<opened, config>>
       \/ ~o.usage /\ o.config_init /\ pc' = "exit" /\ run_config_init(o) /\ UNCHANGED opened
       \/ /\ ~o.usage /\ ~o.config_init
          /\ opened' = OpenParams(o)
          /\ \/ pc' = "opened" /\ exit_code' = 0
             \/ pc' = "exit" /\ exit_code' = 1      \* astools_open failed
          /\ UNCHANGED config
    /\ UNCHANGED <<initialized, modern, cur, replies, listVars, table, flag, clientVars>>

\* The open-time scan is not a change to announce.
EnterLoop ==
    /\ pc = "opened"
    /\ pc' = "read" /\ flag' = FALSE
    /\ UNCHANGED <<launchVars, initialized, modern, cur, replies, listVars, table, clientVars>>

-----------------------------------------------------------------------------
(* Responses *)

reply_result(id, m) == <<[id |-> id, kind |-> "result", code |-> 0, modern |-> m]>>
reply_error(id, code) == <<[id |-> id, kind |-> "error", code |-> code, modern |-> FALSE]>>

\* What astools_invoke and the management calls come to: an answer (of the
\* tool, ok or not) or an engine failure.
Outcome(id, m) == {reply_result(id, m), reply_error(id, 32000)}

handle_initialize(l) ==
    IF l.id = NoId THEN <<>>
    ELSE IF l.params = "other" THEN reply_error(l.id, 32022) ELSE reply_result(l.id, FALSE)

mgmt_call(l, m) ==
    LET member == [manifest |-> {"none", "badmember"}, caps |-> {"badmember"},
                   refresh |-> {}, stats |-> {}]
    IN IF l.params.args \in member[l.params.name]
       THEN {reply_error(l.id, 32602)} ELSE Outcome(l.id, m)

handle_tools_call(l, m) ==
    CASE l.params.name = "missing" \/ l.params.args = "scalar" -> {reply_error(l.id, 32602)}
      [] Management /\ l.params.name \in MgmtTool /\ l.params.args # "scalar" -> mgmt_call(l, m)
      [] l.params.name = "nosplit" /\ l.params.args # "scalar" -> {reply_error(l.id, 32602)}
      [] OTHER -> Outcome(l.id, m)

-----------------------------------------------------------------------------
(* The loop *)

read_line ==
    /\ pc = "read"
    /\ \/ /\ \E l \in Line : cur' = l
          /\ replies' = <<>> /\ pc' = "handle" /\ UNCHANGED exit_code
       \/ pc' = "exit" /\ exit_code' = 0 /\ UNCHANGED <<cur, replies>>   \* EOF
    /\ UNCHANGED <<opened, config, initialized, modern, listVars, table, flag, clientVars>>

Unreadable ==
    /\ pc = "handle" /\ cur.shape \in {"toolong", "blank", "garbage", "scalar", "nomethod"}
    /\ replies' = CASE cur.shape \in {"toolong", "garbage"} -> reply_error(NoId, 32700)
                    [] cur.shape = "scalar" -> reply_error(NoId, 32600)
                    [] cur.shape = "nomethod" /\ cur.id # NoId -> reply_error(cur.id, 32600)
                    [] OTHER -> <<>>
    /\ pc' = "notify"
    /\ UNCHANGED <<launchVars, initialized, modern, cur, listVars, table, flag, clientVars>>

\* mcp_modern_response follows the line being handled, before the version is
\* refused and before the method is looked at.
StaleNegotiated == modern \/ cur.proto = "modern"
Negotiated == cur.proto = "modern"
Refused == cur.proto = "other" /\ cur.method # "server/discover"

handle_message ==
    /\ pc = "handle" /\ cur.shape = "object"
    /\ Refused \/ cur.method # "tools/list" \/ cur.id = NoId
    /\ modern' = CASE cur.method = "initialize" /\ ~Refused -> FALSE
                   [] cur.method = "server/discover" /\ cur.id # NoId -> TRUE
                   [] OTHER -> Negotiated
    /\ initialized' = (initialized \/ (~Refused /\ cur.method = "notifications/initialized"))
    /\ replies' \in
         CASE Refused -> {IF cur.id = NoId THEN <<>> ELSE reply_error(cur.id, 32022)}
           [] ~Refused /\ cur.method = "initialize" -> {handle_initialize(cur)}
           [] cur.method = "server/discover" /\ cur.id # NoId -> {reply_result(cur.id, modern')}
           [] ~Refused /\ cur.method = "ping" /\ cur.id # NoId -> {reply_result(cur.id, modern')}
           [] ~Refused /\ cur.method = "tools/call" /\ cur.id # NoId -> handle_tools_call(cur, modern')
           [] ~Refused /\ cur.method = "other" /\ cur.id # NoId -> {reply_error(cur.id, 32601)}
           [] OTHER -> {<<>>}
    /\ \* a call of the refresh tool may publish a changed table itself
       \/ UNCHANGED <<table, flag>>
       \/ /\ Management /\ ~Refused /\ cur.method = "tools/call" /\ cur.id # NoId
          /\ cur.params.name = "refresh" /\ cur.params.args # "scalar"
          /\ table' \in (SUBSET Tool) \ {table} /\ flag' = TRUE
    /\ pc' = "notify"
    /\ UNCHANGED <<launchVars, cur, listVars, clientVars>>

\* tools/list takes the ids under the read lock, then resolves one after the
\* other; a tool that is gone by then is skipped.
ListIds ==
    /\ pc = "handle" /\ cur.shape = "object" /\ cur.method = "tools/list"
    /\ ~Refused /\ cur.id # NoId
    /\ modern' = Negotiated
    /\ todo' = table /\ names' = {}
    /\ pc' = "list"
    /\ UNCHANGED <<launchVars, initialized, cur, replies, table, flag, clientVars>>

ResolveOne ==
    /\ pc = "list" /\ todo # {}
    /\ \E t \in todo :
          /\ todo' = todo \ {t}
          /\ names' = IF t \in table THEN names \cup {t} ELSE names
    /\ UNCHANGED <<pc, launchVars, initialized, modern, cur, replies, table, flag, clientVars>>

ListReply ==
    /\ pc = "list" /\ todo = {}
    /\ replies' = reply_result(cur.id, modern)
    /\ view' = {names} /\ told' = FALSE
    /\ pc' = "notify"
    /\ UNCHANGED <<launchVars, initialized, modern, cur, listVars, table, flag>>

NotifyAlwaysConsumes ==
    /\ pc = "notify" /\ pc' = "read"
    /\ flag' = FALSE /\ told' = (told \/ (initialized /\ flag))
    /\ UNCHANGED <<launchVars, initialized, modern, listVars, table, view>>
    /\ cur' = [shape |-> "blank"] /\ replies' = <<>>

notify_tools_changed ==
    /\ pc = "notify" /\ pc' = "read"
    /\ IF initialized /\ flag
       THEN flag' = FALSE /\ told' = TRUE
       ELSE UNCHANGED <<flag, told>>
    /\ UNCHANGED <<launchVars, initialized, modern, listVars, table, view>>
    /\ cur' = [shape |-> "blank"] /\ replies' = <<>>

\* The supervisor (or another thread of the host) publishes a changed table.
Publish ==
    /\ pc # "start" /\ pc # "exit"
    /\ table' \in (SUBSET Tool) \ {table} /\ flag' = TRUE
    /\ UNCHANGED <<pc, launchVars, initialized, modern, cur, replies, listVars, clientVars>>

Done == pc = "exit" /\ UNCHANGED vars

Next ==
    \/ \E o \in Launches : Launch(o)
    \/ EnterLoop \/ read_line \/ Unreadable \/ handle_message
    \/ ListIds \/ ResolveOne \/ ListReply \/ notify_tools_changed
    \/ Publish \/ Done

Spec == Init /\ [][Next]_vars

-----------------------------------------------------------------------------
(* Properties *)

\* A client that has listed the tools holds the current list, or has been told
\* since that it changed, or will be after the next line: neither the flag that
\* is held back until notifications/initialized, nor a publication between the
\* reading of the ids, their resolution, the answer and the notification, loses
\* the signal (handle_tools_list, notify_tools_changed).
ListFresh == view = {} \/ view = {table} \/ told \/ flag

\* The answers a line calls for: one for each line with an id that is not a
\* notification, one with id null for each unreadable line, none otherwise.
Owed(l) ==
    CASE l.shape \in {"toolong", "garbage", "scalar"} -> <<NoId>>
      [] l.shape = "nomethod" /\ l.id # NoId -> <<l.id>>
      [] /\ l.shape = "object" /\ l.id # NoId
         /\ (l.proto = "other" \/ l.method \notin {"notifications/initialized",
                                                   "notifications/cancelled"}) -> <<l.id>>
      [] OTHER -> <<>>

\* When a line has been handled it has been answered exactly once, under its own
\* id, in the protocol version this line negotiated: the global
\* mcp_modern_response left by an earlier line never leaks into an answer.
AnsweredOnce ==
    pc = "notify" =>
        /\ [i \in DOMAIN replies |-> replies[i].id] = Owed(cur)
        /\ \A i \in DOMAIN replies :
             replies[i].kind = "result" =>
                (replies[i].modern <=> \/ cur.method = "server/discover"
                                       \/ cur.proto = "modern" /\ cur.method # "initialize")
=============================================================================
