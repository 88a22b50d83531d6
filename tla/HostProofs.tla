----------------------------- MODULE HostProofs -----------------------------
(***************************************************************************)
(* Approvals in the lockfile, for any number of approvers, tools and       *)
(* replacements of package bytes, with crashes and failures anywhere:      *)
(* trust is never invented, and approvals that do not overlap leave a      *)
(* complete lockfile with every approval that was reported.  The edit      *)
(* tool's transaction and the MCP server, for every set of paths, calls,   *)
(* tools and request ids.                                                  *)
(***************************************************************************)
EXTENDS Host, SequenceTheorems, FiniteSetTheorems, TLAPS

-----------------------------------------------------------------------------
(* The server *)

\* What a line may be, as far as the dispatcher's cases need it.
LineInv ==
    /\ modern \in BOOLEAN /\ flag \in BOOLEAN
    /\ spc = "handle" =>
          /\ cur.shape \in {"toolong", "blank", "garbage", "scalar", "nomethod", "object"}
          /\ cur.shape = "object" => cur.method \in S!Method
    /\ spc = "list" => /\ cur.shape = "object" /\ cur.method = "tools/list"
                       /\ cur.id # NoId /\ ~S!Refused /\ modern = S!Negotiated

\* The signal of a change is held until the list it makes stale is answered;
\* without one the list being built and what is still to resolve are the table.
ListInv ==
    /\ spc \in {"start", "opened"} => shown = {}
    /\ spc = "list" /\ ~flag => names \cup todo = table
    /\ ListFresh

ServerInv == LineInv /\ ListInv /\ AnsweredOnce

\* A line handed to the dispatcher has one of its shapes and methods.
LEMMA LineKinds ==
    ASSUME NEW l \in S!Line
    PROVE  /\ l.shape \in {"toolong", "blank", "garbage", "scalar", "nomethod", "object"}
           /\ l.shape = "object" => l.method \in S!Method
<1>1. CASE l \in [shape : {"toolong", "blank", "garbage", "scalar"}]
  BY <1>1
<1>2. CASE l \in [shape : {"nomethod"}, id : Id \cup {NoId}]
  BY <1>2
<1>3. CASE l \in UNION {S!Object(method) : method \in S!Method}
  BY <1>3 DEF S!Object
<1>. QED BY <1>1, <1>2, <1>3 DEF S!Line

\* The ids of one response, and of none.
LEMMA IdsOfReplies ==
    /\ \A rs, r : rs = <<r>> => /\ [n \in DOMAIN rs |-> rs[n].id] = <<r.id>>
                                /\ DOMAIN rs = {1} /\ rs[1] = r
    /\ \A rs : rs = << >> => /\ [n \in DOMAIN rs |-> rs[n].id] = << >>
                             /\ DOMAIN rs = {}
<1>1. ASSUME NEW r PROVE [n \in DOMAIN <<r>> |-> <<r>>[n].id] = <<r.id>>
  <2>1. DOMAIN <<r>> = {1} /\ DOMAIN <<r.id>> = {1}
    OBVIOUS
  <2>. QED BY <2>1
<1>2. [n \in DOMAIN << >> |-> << >>[n].id] = << >> /\ DOMAIN << >> = {}
  OBVIOUS
<1>. QED BY <1>1, <1>2

\* The protocol version of an answer is that of its line, whatever the line
\* before it left behind.
LEMMA HandledVersion ==
    ASSUME S!handle_message
    PROVE  /\ modern' \in BOOLEAN
           /\ cur.method \notin {"initialize", "server/discover"} => modern' = (cur.proto = "modern")
<1>1. CASE cur.method = "initialize" /\ ~S!Refused
  BY <1>1 DEF S!handle_message, S!Refused
<1>2. CASE cur.method = "initialize" /\ S!Refused
  BY <1>2 DEF S!handle_message, S!Refused, S!Negotiated
<1>3. CASE cur.method = "server/discover" /\ cur.id # NoId
  BY <1>3 DEF S!handle_message, S!Refused
<1>4. CASE cur.method = "server/discover" /\ cur.id = NoId
  BY <1>4 DEF S!handle_message, S!Refused, S!Negotiated
<1>5. CASE cur.method \notin {"initialize", "server/discover"}
  <2>1. cur.method # "initialize" /\ cur.method # "server/discover"
    BY <1>5
  <2>2. modern' = (cur.proto = "modern")
    BY ONLY S!handle_message, <2>1, SMT DEF S!handle_message, S!Negotiated
  <2>. QED BY <2>1, <2>2
<1>. QED BY <1>1, <1>2, <1>3, <1>4, <1>5

\* Whatever a call comes to, it is one answer to its id.
LEMMA ToolsCalled ==
    ASSUME NEW l, NEW m, NEW r, r \in S!handle_tools_call(l, m)
    PROVE  (\E code : r = S!reply_error(l.id, code)) \/ r = S!reply_result(l.id, m)
BY DEF S!handle_tools_call, S!mgmt_call, S!Outcome

\* Every step keeps what is known of the line being handled.
LEMMA NextLine ==
    ASSUME LineInv, S!Next
    PROVE  LineInv'
<1>1. CASE \E o \in Launches : S!Launch(o)
  BY <1>1 DEF LineInv, S!Launch, S!listVars, S!clientVars
<1>2. CASE S!EnterLoop
  BY <1>2 DEF LineInv, S!EnterLoop, S!launchVars, S!listVars, S!clientVars
<1>3. CASE S!read_line
  BY <1>3, LineKinds DEF LineInv, S!read_line, S!listVars, S!clientVars
<1>4. CASE S!Unreadable
  BY <1>4 DEF LineInv, S!Unreadable, S!launchVars, S!listVars, S!clientVars
<1>5. CASE S!handle_message
  <2>1. spc' = "notify"
    BY <1>5 DEF S!handle_message
  <2>2. UNCHANGED flag \/ flag' = TRUE
    <3>. HIDE DEF LineInv
    <3>. QED BY <1>5, SMT DEF S!handle_message
  <2>4. modern' \in BOOLEAN
    BY <1>5, HandledVersion
  <2>. QED BY <2>1, <2>2, <2>4 DEF LineInv
<1>6. CASE S!ListIds
  BY <1>6 DEF LineInv, S!ListIds, S!Negotiated, S!Refused, S!launchVars, S!listVars, S!clientVars
<1>7. CASE S!ResolveOne
  BY <1>7 DEF LineInv, S!ResolveOne, S!Negotiated, S!Refused, S!launchVars, S!listVars, S!clientVars
<1>8. CASE S!ListReply
  BY <1>8 DEF LineInv, S!ListReply, S!launchVars, S!listVars, S!clientVars
<1>9. CASE S!notify_tools_changed
  BY <1>9 DEF LineInv, S!notify_tools_changed, S!launchVars, S!listVars, S!clientVars
<1>10. CASE S!Publish
  BY <1>10 DEF LineInv, S!Publish, S!Negotiated, S!Refused, S!launchVars, S!listVars, S!clientVars
<1>11. CASE S!Done
  BY <1>11 DEF LineInv, S!Done, S!vars, S!Negotiated, S!Refused, S!launchVars, S!listVars, S!clientVars
<1>. QED BY <1>1, <1>2, <1>3, <1>4, <1>5, <1>6, <1>7, <1>8, <1>9, <1>10, <1>11 DEF S!Next

\* Every step keeps the signal that a client's list is stale.
LEMMA NextList ==
    ASSUME LineInv, ListInv, S!Next
    PROVE  ListInv'
<1>. USE DEF ListInv, ListFresh, S!ListFresh
<1>1. CASE \E o \in Launches : S!Launch(o)
  BY <1>1 DEF S!Launch, S!listVars, S!clientVars
<1>2. CASE S!EnterLoop
  BY <1>2 DEF S!EnterLoop, S!launchVars, S!listVars, S!clientVars
<1>3. CASE S!read_line
  BY <1>3 DEF S!read_line, S!listVars, S!clientVars
<1>4. CASE S!Unreadable
  BY <1>4 DEF S!Unreadable, S!launchVars, S!listVars, S!clientVars
<1>5. CASE S!handle_message
  BY <1>5 DEF S!handle_message, S!launchVars, S!listVars, S!clientVars
<1>6. CASE S!ListIds
  BY <1>6 DEF S!ListIds, S!launchVars, S!listVars, S!clientVars
<1>7. CASE S!ResolveOne
  BY <1>7 DEF S!ResolveOne, S!launchVars, S!listVars, S!clientVars
<1>8. CASE S!ListReply
  BY <1>8 DEF LineInv, S!ListReply, S!launchVars, S!listVars, S!clientVars
<1>9. CASE S!notify_tools_changed
  BY <1>9 DEF S!notify_tools_changed, S!launchVars, S!listVars, S!clientVars
<1>10. CASE S!Publish
  BY <1>10 DEF S!Publish, S!launchVars, S!listVars, S!clientVars
<1>11. CASE S!Done
  BY <1>11 DEF S!Done, S!vars, S!launchVars, S!listVars, S!clientVars
<1>. QED BY <1>1, <1>2, <1>3, <1>4, <1>5, <1>6, <1>7, <1>8, <1>9, <1>10, <1>11 DEF S!Next

\* The three forms the answers to a line take.
NoAnswer == replies' = << >> /\ S!Owed(cur) = << >>
Error(id) == /\ \E r : replies' = <<r>> /\ r.id = id /\ r.kind = "error"
             /\ S!Owed(cur) = <<id>>
Result(id) == /\ \E r : /\ replies' = <<r>> /\ r.id = id /\ r.kind = "result"
                        /\ r.modern <=> \/ cur.method = "server/discover"
                                        \/ cur.proto = "modern" /\ cur.method # "initialize"
              /\ S!Owed(cur) = <<id>>

\* A result in the version the line asks for is an answer.
LEMMA ResultAnswers ==
    ASSUME NEW m \in BOOLEAN, replies' = S!reply_result(cur.id, m),
           m <=> \/ cur.method = "server/discover"
                 \/ cur.proto = "modern" /\ cur.method # "initialize",
           S!Owed(cur) = <<cur.id>>
    PROVE  Result(cur.id)
<1>. DEFINE r == [id |-> cur.id, kind |-> "result", code |-> 0, modern |-> m]
<1>1. replies' = <<r>>
  BY DEF S!reply_result
<1>2. r.id = cur.id /\ r.kind = "result" /\ r.modern = m
  OBVIOUS
<1>3. r.modern <=> \/ cur.method = "server/discover"
                   \/ cur.proto = "modern" /\ cur.method # "initialize"
  BY <1>2
<1>. HIDE DEF r
<1>. QED BY <1>1, <1>2, <1>3 DEF Result

\* A line with one of these answers is answered.
LEMMA FormsAnswer ==
    ASSUME UNCHANGED cur, NoAnswer \/ \E id : Error(id) \/ Result(id)
    PROVE  AnsweredOnce'
<1>1. S!Owed(cur)' = S!Owed(cur)
  BY DEF S!Owed
<1>2. CASE NoAnswer
  BY <1>1, <1>2, IdsOfReplies DEF NoAnswer, AnsweredOnce, S!AnsweredOnce
<1>3. ASSUME NEW id, Error(id) PROVE AnsweredOnce'
  BY <1>1, <1>3, IdsOfReplies DEF Error, AnsweredOnce, S!AnsweredOnce
<1>4. ASSUME NEW id, Result(id) PROVE AnsweredOnce'
  BY <1>1, <1>4, IdsOfReplies DEF Result, AnsweredOnce, S!AnsweredOnce
<1>. QED BY <1>2, <1>3, <1>4

\* What the dispatcher answers to a request.
LEMMA Dispatched ==
    ASSUME LineInv, S!handle_message
    PROVE  NoAnswer \/ Error(cur.id) \/ Result(cur.id)
<1>. DEFINE owed == cur.id # NoId /\ (cur.proto = "other" \/ cur.method \notin
                        {"notifications/initialized", "notifications/cancelled"})
<1>1. /\ cur.shape = "object" /\ cur.method \in S!Method
      /\ S!Owed(cur) = IF owed THEN <<cur.id>> ELSE << >>
  BY DEF LineInv, S!handle_message, S!Owed
<1>2. CASE S!Refused
  <2>1. replies' = IF cur.id = NoId THEN << >> ELSE S!reply_error(cur.id, 32022)
    BY <1>2 DEF S!handle_message, S!Refused
  <2>. QED BY <1>1, <1>2, <2>1 DEF S!Refused, S!reply_error, NoAnswer, Error
<1>3. CASE ~S!Refused /\ cur.id = NoId
  <2>1. replies' = << >>
    BY <1>3 DEF S!handle_message, S!handle_initialize
  <2>. QED BY <1>1, <1>3, <2>1 DEF NoAnswer
<1>4. CASE ~S!Refused /\ cur.id # NoId /\ cur.method = "initialize"
  <2>1. replies' = S!handle_initialize(cur)
    BY <1>4 DEF S!handle_message
  <2>. QED BY <1>1, <1>4, <2>1 DEF S!handle_initialize, S!reply_error, S!reply_result, Error, Result
<1>5. CASE cur.id # NoId /\ cur.method = "server/discover"
  <2>1. modern' = TRUE /\ replies' = S!reply_result(cur.id, modern')
    BY <1>5 DEF S!handle_message, S!Refused
  <2>2. modern' <=> \/ cur.method = "server/discover"
                    \/ cur.proto = "modern" /\ cur.method # "initialize"
    BY <1>5, <2>1
  <2>. QED BY <1>1, <1>5, <2>1, <2>2, ResultAnswers
<1>6. CASE ~S!Refused /\ cur.id # NoId /\ cur.method = "ping"
  <2>1. modern' = (cur.proto = "modern") /\ replies' = S!reply_result(cur.id, modern')
    BY <1>6, HandledVersion DEF S!handle_message, S!Refused
  <2>2. modern' \in BOOLEAN /\ S!Owed(cur) = <<cur.id>>
    BY <1>1, <1>6, HandledVersion
  <2>. QED BY <1>6, <2>1, <2>2, ResultAnswers
<1>7. CASE ~S!Refused /\ cur.id # NoId /\ cur.method = "tools/call"
  <2>0. modern' = (cur.proto = "modern")
    BY <1>7, HandledVersion
  <2>1. replies' \in S!handle_tools_call(cur, modern')
    BY <1>7 DEF S!handle_message
  <2>2. \/ \E code : replies' = S!reply_error(cur.id, code)
        \/ replies' = S!reply_result(cur.id, modern')
    BY <2>1, ToolsCalled
  <2>3. modern' \in BOOLEAN /\ S!Owed(cur) = <<cur.id>>
    BY <1>1, <1>7, HandledVersion
  <2>4. CASE \E code : replies' = S!reply_error(cur.id, code)
    BY <2>3, <2>4 DEF S!reply_error, Error
  <2>5. CASE replies' = S!reply_result(cur.id, modern')
    BY <1>7, <2>0, <2>3, <2>5, ResultAnswers
  <2>. QED BY <2>2, <2>4, <2>5
<1>8. CASE ~S!Refused /\ cur.id # NoId /\ cur.method = "other"
  <2>1. replies' = S!reply_error(cur.id, 32601)
    BY <1>8 DEF S!handle_message
  <2>. QED BY <1>1, <1>8, <2>1 DEF S!reply_error, Error
<1>9. CASE ~S!Refused /\ cur.method \in {"notifications/initialized", "notifications/cancelled"}
  <2>1. replies' = << >> /\ cur.proto # "other"
    <3>1. CASE cur.method = "notifications/initialized"
      BY <1>9, <3>1 DEF S!handle_message, S!Refused
    <3>2. CASE cur.method = "notifications/cancelled"
      BY <1>9, <3>2 DEF S!handle_message, S!Refused
    <3>. QED BY <1>9, <3>1, <3>2
  <2>. QED BY <1>1, <1>9, <2>1 DEF NoAnswer
<1>. QED BY <1>1, <1>2, <1>3, <1>4, <1>5, <1>6, <1>7, <1>8, <1>9 DEF S!Method, S!handle_message, S!Refused

\* A line leaves the dispatcher answered, by itself or after the tools were
\* listed; publications beside it disturb nothing.
LEMMA NextAnswered ==
    ASSUME LineInv, AnsweredOnce, S!Next
    PROVE  AnsweredOnce'
<1>1. CASE S!Unreadable
  <2>1. CASE cur.shape \in {"toolong", "garbage", "scalar"}
    <3>1. UNCHANGED cur /\ S!Owed(cur) = <<NoId>>
      BY <1>1, <2>1 DEF S!Unreadable, S!Owed
    <3>2. \E code : replies' = S!reply_error(NoId, code)
      <4>1. CASE cur.shape \in {"toolong", "garbage"}
        BY <1>1, <4>1 DEF S!Unreadable
      <4>2. CASE cur.shape = "scalar"
        BY <1>1, <4>2 DEF S!Unreadable
      <4>. QED BY <2>1, <4>1, <4>2
    <3>3. Error(NoId)
      BY <3>1, <3>2 DEF S!reply_error, Error
    <3>. QED BY <3>1, <3>3, FormsAnswer
  <2>2. CASE cur.shape = "nomethod" /\ cur.id # NoId
    BY <1>1, <2>2, FormsAnswer DEF S!Unreadable, S!reply_error, S!Owed, Error
  <2>3. CASE cur.shape = "blank" \/ (cur.shape = "nomethod" /\ cur.id = NoId)
    <3>1. UNCHANGED cur /\ NoAnswer
      BY <1>1, <2>3 DEF S!Unreadable, S!Owed, NoAnswer
    <3>. QED BY <3>1, FormsAnswer
  <2>4. cur.shape \in {"toolong", "blank", "garbage", "scalar", "nomethod"}
    BY <1>1 DEF S!Unreadable
  <2>. QED BY <2>1, <2>2, <2>3, <2>4
<1>2. CASE S!handle_message
  <2>1. UNCHANGED cur
    BY <1>2 DEF S!handle_message
  <2>2. NoAnswer \/ Error(cur.id) \/ Result(cur.id)
    BY <1>2, Dispatched
  <2>. QED BY <2>1, <2>2, FormsAnswer
<1>3. CASE S!ListReply
  <2>1. /\ UNCHANGED cur
        /\ cur.shape = "object" /\ cur.id # NoId /\ cur.method = "tools/list"
        /\ cur.proto # "other" /\ modern = (cur.proto = "modern")
        /\ replies' = S!reply_result(cur.id, modern)
    BY <1>3 DEF S!ListReply, LineInv, S!Refused, S!Negotiated
  <2>2. S!Owed(cur) = <<cur.id>> /\ modern \in BOOLEAN
    BY <2>1 DEF S!Owed, LineInv
  <2>3. Result(cur.id)
    BY <2>1, <2>2, ResultAnswers
  <2>. QED BY <2>1, <2>3, FormsAnswer
<1>4. CASE spc' # "notify"
  BY <1>4 DEF AnsweredOnce, S!AnsweredOnce
<1>5. CASE UNCHANGED <<spc, cur, replies>>
  BY <1>5 DEF AnsweredOnce, S!AnsweredOnce, S!Owed
<1>. QED BY <1>1, <1>2, <1>3, <1>4, <1>5 DEF S!Next, S!Launch, S!EnterLoop, S!read_line, S!ListIds,
            S!ResolveOne, S!notify_tools_changed, S!Publish, S!Done, S!vars

\* No line was handled and no list answered at the start.
LEMMA InitServer ==
    ASSUME S!Init
    PROVE  ServerInv
BY DEF S!Init, ServerInv, LineInv, ListInv, AnsweredOnce, ListFresh, S!AnsweredOnce, S!ListFresh

\* The server's invariant through a step of the host.
LEMMA NextServer ==
    ASSUME ServerInv, [HostNext]_hostVars
    PROVE  ServerInv'
<1>1. CASE S!Next
  BY <1>1, NextLine, NextList, NextAnswered DEF ServerInv
<1>2. CASE UNCHANGED serverVars
  BY <1>2 DEF serverVars, ServerInv, LineInv, ListInv, AnsweredOnce, ListFresh, S!AnsweredOnce,
              S!ListFresh, S!Owed, S!Refused, S!Negotiated
<1>. QED BY <1>1, <1>2 DEF HostNext, hostVars

-----------------------------------------------------------------------------
(* The edit tool *)

Writing == {"write", "check", "swap"}
Restoring == {"back", "bcheck", "bswap"}

EditType ==
    /\ call \in EditCalls
    /\ text \in [Path -> E!Version] /\ world \in [Path -> E!Version]
    /\ temp \in [Path -> E!Version \cup {"partial"}]
    /\ base \in [Path -> E!Version] /\ plan \in [Path -> E!Version]
    /\ epc \in {"load", "verify", "ok", "failed", "killed"} \cup Writing \cup Restoring
    /\ i \in Nat \ {0} /\ tgts \in Seq(Path)
    /\ written \subseteq Path /\ based \subseteq Path /\ faulty \in BOOLEAN

\* The targets are distinct and worked on in their order; those before the one
\* at hand are written.
TargetInv ==
    /\ \A j, k \in DOMAIN tgts : tgts[j] = tgts[k] => j = k
    /\ epc = "load" => /\ i <= Len(call.sections) + 1 /\ Len(tgts) < i
                       /\ i > 1 => tgts # << >>
    /\ call.command = "single" => Len(tgts) <= 1 /\ epc \notin Restoring
    /\ epc \in {"verify"} \cup Writing \cup Restoring => i <= Len(tgts)
    /\ epc \in {"load", "verify"} => written = {}
    /\ epc \in Writing => written = {tgts[k] : k \in 1..(i - 1)}
    /\ written \subseteq E!Loaded
    /\ epc \in {"bcheck", "bswap"} => E!t \in written

\* One temporary file at a time, with what is about to replace its target.
TempInv ==
    /\ epc \in {"check", "swap"} => temp[E!t] = plan[E!t]
    /\ epc = "bswap" => temp[E!t] = base[E!t]
    /\ \A p \in Path : temp[p] # E!Absent =>
          \/ epc \in {"check", "swap", "bswap"} /\ p = E!t
          \/ epc = "killed"

\* A target still to be restored: what it held before is what it held at first,
\* as long as it is the tool's.
Owed(p) == p \in written /\ text[p] = plan[p] => world[p] = base[p]

\* Every file is the tool's or as it would be without the tool, and the roll
\* back leaves none of the tool's behind it.
DiskInv ==
    /\ \A p \in Path \ written : text[p] = world[p]
    /\ ~faulty =>
          /\ based = {}
          /\ \A p \in written : text[p] # plan[p] => text[p] = world[p]
          /\ epc \in Writing \cup {"ok"} => \A p \in written : Owed(p)
          /\ epc \in Restoring => /\ \A k \in i..Len(tgts) : Owed(tgts[k])
                                  /\ \A k \in 1..(i - 1) : text[tgts[k]] = world[tgts[k]]
          /\ epc = "swap" => seen = base[E!t]
          /\ epc \in {"bcheck", "bswap"} => seen = plan[E!t]
          /\ epc = "failed" => \A p \in Path : text[p] = world[p]

EditInv == EditType /\ TargetInv /\ TempInv /\ DiskInv

\* The target at hand is a file.
LEMMA TargetAtHand ==
    ASSUME EditType, TargetInv, epc \in {"verify"} \cup Writing \cup Restoring
    PROVE  /\ i \in 1..Len(tgts) /\ DOMAIN tgts = 1..Len(tgts) /\ Len(tgts) \in Nat
           /\ E!t \in Path /\ E!t \in E!Loaded
<1>1. i \in 1..Len(tgts) /\ Len(tgts) \in Nat /\ DOMAIN tgts = 1..Len(tgts)
  BY DEF EditType, TargetInv
<1>2. tgts[i] \in Path
  BY <1>1, ElementOfSeq DEF EditType
<1>. QED BY <1>1, <1>2 DEF E!t, E!Loaded

\* The section at hand names a file.
LEMMA SectionAtHand ==
    ASSUME EditType, i <= Len(call.sections)
    PROVE  E!Section1.path \in Path /\ E!Section1.kind \in {"create", "modify", "delete"}
<1>1. call \in E!Call
  BY EditAssumption DEF EditType
<1>2. call.sections \in Seq(E!Section)
  BY <1>1 DEF E!Call
<1>3. i \in 1..Len(call.sections)
  BY <1>2, LenProperties DEF EditType
<1>4. call.sections[i] \in E!Section
  BY <1>2, <1>3, ElementOfSeq
<1>. QED BY <1>4 DEF E!Section1, E!Section

\* The states a step may lead to, with what it does to the counter of targets.
LEMMA NextEditType ==
    ASSUME EditType, TargetInv, TempInv, E!Next
    PROVE  EditType'
<1>. USE DEF Writing, Restoring
<1>t. epc \in {"verify"} \cup Writing \cup Restoring => E!t \in Path
  BY TargetAtHand
<1>v. E!Absent \in E!Version /\ "new" \in E!Version /\ "old" \in E!Version /\ "foreign" \in E!Version
  BY DEF E!Version, E!Content
<1>1. CASE E!LoadSection
  <2>1. E!Section1.path \in Path
    BY <1>1, SectionAtHand DEF E!LoadSection
  <2>2. tgts' \in Seq(Path)
    <3>1. tgts' = tgts \/ tgts' = Append(tgts, E!Section1.path)
      BY <1>1 DEF E!LoadSection
    <3>. QED BY <2>1, <3>1, AppendProperties DEF EditType
  <2>2b. base' \in [Path -> E!Version]
    BY <1>1, <2>1 DEF E!LoadSection, EditType
  <2>3. plan' \in [Path -> E!Version]
    BY <1>1, <2>1, <1>v DEF E!LoadSection, EditType
  <2>. QED BY <1>1, <2>2, <2>2b, <2>3 DEF E!LoadSection, E!Quiet, E!histVars, EditType
<1>2. CASE E!LoadFails
  BY <1>2 DEF E!LoadFails, E!Fail, E!Quiet, E!histVars, E!txVars, EditType
<1>3. CASE E!LoadDone
  BY <1>3 DEF E!LoadDone, E!Fail, E!Quiet, E!histVars, E!txVars, EditType
<1>4. CASE E!NothingToDo
  <2>1. tgts' \in Seq(Path)
    BY <1>4 DEF E!NothingToDo
  <2>. QED BY <1>4, <2>1 DEF E!NothingToDo, E!Quiet, E!histVars, EditType
<1>5. CASE E!Verify
  BY <1>5 DEF E!Verify, E!Fail, E!Quiet, E!histVars, E!txVars, EditType
<1>6. CASE E!WriteStage
  <2>1. temp' \in [Path -> E!Version \cup {"partial"}]
    BY <1>6, <1>t DEF E!WriteStage, E!Stage, EditType
  <2>. QED BY <1>6, <2>1 DEF E!WriteStage, E!Rollback, E!Quiet, E!histVars, E!txVars, EditType
<1>7. CASE E!WriteCheck
  <2>1. temp' \in [Path -> E!Version \cup {"partial"}]
    BY <1>7, <1>t, <1>v DEF E!WriteCheck, E!Unstage, EditType
  <2>. QED BY <1>7, <2>1 DEF E!WriteCheck, E!Rollback, E!Quiet, E!txVars, EditType
<1>8. CASE E!WriteSwap
  <2>1. temp' \in [Path -> E!Version \cup {"partial"}]
    BY <1>8, <1>t, <1>v DEF E!WriteSwap, E!Unstage, EditType
  <2>2. temp[E!t] \in E!Version
    BY <1>8, <1>t DEF E!WriteSwap, TempInv, EditType
  <2>3. text' \in [Path -> E!Version]
    BY <1>8, <1>t, <2>2 DEF E!WriteSwap, E!Replaced, EditType
  <2>4. written' \subseteq Path /\ based' \subseteq Path
    BY <1>8, <1>t DEF E!WriteSwap, E!Replaced, EditType
  <2>5. faulty' \in BOOLEAN
    BY <1>8 DEF E!WriteSwap, EditType
  <2>6. epc' \in {"ok", "write", "back", "failed"} /\ i' \in Nat \ {0}
    BY <1>8 DEF E!WriteSwap, E!Rollback, EditType
  <2>7. UNCHANGED <<call, world, base, plan, tgts>>
    BY <1>8 DEF E!WriteSwap, E!Quiet
  <2>. QED BY <2>1, <2>3, <2>4, <2>5, <2>6, <2>7 DEF EditType
<1>9. CASE E!BackLook
  BY <1>9 DEF E!BackLook, E!SkipBack, E!Quiet, E!txVars, EditType
<1>10. CASE E!BackStage
  <2>1. temp' \in [Path -> E!Version \cup {"partial"}]
    BY <1>10, <1>t, <1>v DEF E!BackStage, E!Stage, EditType
  <2>2. faulty' \in BOOLEAN
    BY <1>10 DEF E!BackStage, EditType
  <2>3. epc' \in {"bswap", "back", "failed"} /\ i' \in Nat \ {0}
    BY <1>10 DEF E!BackStage, E!SkipBack, EditType
  <2>4. UNCHANGED <<call, text, world, base, plan, tgts, written, based>>
    BY <1>10 DEF E!BackStage, E!Quiet, E!txVars
  <2>. QED BY <2>1, <2>2, <2>3, <2>4 DEF EditType
<1>11. CASE E!BackSwap
  <2>1. temp' \in [Path -> E!Version \cup {"partial"}]
    BY <1>11, <1>t, <1>v DEF E!BackSwap, E!Unstage, EditType
  <2>2. temp[E!t] \in E!Version
    BY <1>11, <1>t DEF E!BackSwap, TempInv, EditType
  <2>3. text' \in [Path -> E!Version]
    BY <1>11, <1>t, <2>2 DEF E!BackSwap, EditType
  <2>4. faulty' \in BOOLEAN
    BY <1>11 DEF E!BackSwap, EditType
  <2>5. epc' \in {"back", "failed"} /\ i' \in Nat \ {0}
    BY <1>11 DEF E!BackSwap, E!SkipBack, EditType
  <2>6. UNCHANGED <<call, world, base, plan, tgts, written, based>>
    BY <1>11 DEF E!BackSwap, E!Quiet, E!txVars
  <2>. QED BY <2>1, <2>3, <2>4, <2>5, <2>6 DEF EditType
<1>12. CASE E!Killed
  <2>1. temp' \in [Path -> E!Version \cup {"partial"}]
    BY <1>12, <1>t DEF E!Killed, EditType
  <2>. QED BY <1>12, <2>1 DEF E!Killed, E!txVars, E!histVars, EditType
<1>13. CASE E!ForeignWrite
  BY <1>13, <1>v DEF E!ForeignWrite, E!txVars, EditType
<1>14. CASE E!Stopped
  BY <1>14 DEF E!Stopped, E!vars, E!txVars, E!histVars, EditType
<1>. QED BY <1>1, <1>2, <1>3, <1>4, <1>5, <1>6, <1>7, <1>8, <1>9, <1>10, <1>11, <1>12, <1>13, <1>14
         DEF E!Next


\* Only reading adds targets: each once, and one at most to a call of one file.
LEMMA LoadTargets ==
    ASSUME EditType, TargetInv, E!LoadSection
    PROVE  TargetInv'
<1>. DEFINE p == E!Section1.path
<1>1. p \in Path /\ i \in Nat \ {0} /\ tgts \in Seq(Path) /\ Len(tgts) \in Nat
  BY SectionAtHand DEF E!LoadSection, EditType
<1>2. /\ epc = "load" /\ epc' = "load" /\ i' = i + 1 /\ UNCHANGED <<call, written>> /\ written = {}
      /\ i <= Len(call.sections) /\ Len(call.sections) \in Nat /\ Len(tgts) < i
      /\ i > 1 => tgts # << >>
  <2>1. call.sections \in Seq(E!Section)
    BY EditAssumption DEF EditType, E!Call
  <2>. QED BY <2>1, LenProperties DEF E!LoadSection, E!Quiet, TargetInv
<1>3. call.command = "single" => Len(call.sections) = 1
  BY EditAssumption DEF EditType
<1>4. CASE p \in E!Loaded
  <2>1. tgts' = tgts /\ tgts # << >>
    BY <1>4 DEF E!LoadSection, E!Loaded
  <2>. QED BY <1>1, <1>2, <2>1 DEF TargetInv, Writing, Restoring, E!Loaded
<1>5. CASE p \notin E!Loaded
  <2>1. tgts' = Append(tgts, p)
    BY <1>5 DEF E!LoadSection
  <2>2. /\ Len(tgts') = Len(tgts) + 1 /\ tgts' # << >> /\ DOMAIN tgts' = 1..(Len(tgts) + 1)
        /\ DOMAIN tgts = 1..Len(tgts)
        /\ \A k \in 1..Len(tgts) : tgts'[k] = tgts[k]
        /\ tgts'[Len(tgts) + 1] = p
    BY <1>1, <2>1, AppendProperties
  <2>3. \A k \in 1..Len(tgts) : tgts[k] # p
    BY <1>5, <2>2 DEF E!Loaded
  <2>4. \A j, k \in DOMAIN tgts' : tgts'[j] = tgts'[k] => j = k
    BY <1>1, <2>2, <2>3 DEF TargetInv
  <2>5. ASSUME call.command = "single" PROVE Len(tgts') <= 1
    <3>1. i <= 1
      BY <1>2, <1>3, <2>5
    <3>2. Len(tgts) + 1 <= 1
      BY <1>1, <1>2, <3>1
    <3>. QED BY <2>2, <3>2
  <2>. QED BY <1>1, <1>2, <2>2, <2>4, <2>5 DEF TargetInv, Writing, Restoring, E!Loaded
<1>. QED BY <1>4, <1>5

\* The order of the targets through a step.
LEMMA NextTarget ==
    ASSUME EditType, TargetInv, E!Next
    PROVE  TargetInv'
<1>. USE DEF Writing, Restoring
<1>1. CASE E!LoadSection
  BY <1>1, LoadTargets
<1>l. Len(tgts) \in Nat /\ i \in Nat \ {0} /\ (tgts # << >> => Len(tgts) >= 1)
  BY LenProperties, EmptySeq DEF EditType
<1>c. Len(call.sections) \in Nat /\ Len(call.sections) >= 1
  <2>1. call.sections \in Seq(E!Section) /\ call.sections # << >>
    BY EditAssumption DEF EditType, E!Call
  <2>. QED BY <2>1, LenProperties, EmptySeq
<1>e. epc = "load" => written = {tgts[k] : k \in 1..0}
  BY DEF TargetInv
<1>2. CASE E!LoadFails
  BY <1>2 DEF E!LoadFails, E!Fail, E!Quiet, E!txVars, TargetInv, E!Loaded
<1>3. CASE E!LoadDone
  <2>1. epc' = "failed" \/ (epc' \in {"write", "verify"} /\ i' = 1)
    BY <1>3 DEF E!LoadDone, E!Fail
  <2>2. UNCHANGED <<call, tgts, written>> /\ epc = "load" /\ i > Len(call.sections)
    BY <1>3 DEF E!LoadDone, E!Fail, E!Quiet, E!txVars
  <2>3. tgts # << >> /\ written = {}
    BY <1>l, <1>c, <2>2 DEF TargetInv
  <2>. QED BY <1>l, <1>e, <2>1, <2>2, <2>3 DEF TargetInv, E!Loaded
<1>4. CASE E!NothingToDo
  <2>1. /\ tgts' = << >> /\ written' = {} /\ epc' = "ok" /\ UNCHANGED call
    BY <1>4 DEF E!NothingToDo, E!Quiet, TargetInv
  <2>2. DOMAIN tgts' = {} /\ Len(tgts') = 0
    BY <2>1
  <2>. QED BY <2>1, <2>2 DEF TargetInv
<1>5. CASE E!Verify
  <2>1. epc' = "failed" \/ (epc' = "write" /\ i' = 1) \/ (epc' = "verify" /\ i' = i + 1 /\ i # Len(tgts))
    BY <1>5 DEF E!Verify, E!Fail
  <2>2. UNCHANGED <<call, tgts, written>> /\ epc = "verify" /\ written = {} /\ i <= Len(tgts)
    BY <1>5 DEF E!Verify, E!Fail, E!Quiet, E!txVars, TargetInv
  <2>3. written = {tgts[k] : k \in 1..0}
    BY <2>2
  <2>. QED BY <1>l, <2>1, <2>2, <2>3 DEF TargetInv, E!Loaded
<1>6. CASE E!WriteStage
  <2>1. \/ epc' = "check" /\ i' = i
        \/ epc' = "back" /\ i' = 1 /\ call.command # "single"
        \/ epc' = "failed"
    BY <1>6 DEF E!WriteStage, E!Rollback
  <2>2. UNCHANGED <<call, tgts, written>> /\ epc = "write"
    BY <1>6 DEF E!WriteStage, E!Quiet, E!txVars
  <2>. QED BY <1>l, <2>1, <2>2 DEF TargetInv, E!Loaded
<1>7. CASE E!WriteCheck
  <2>1. \/ epc' = "swap" /\ i' = i
        \/ epc' = "back" /\ i' = 1 /\ call.command # "single"
        \/ epc' = "failed"
    BY <1>7 DEF E!WriteCheck, E!Rollback
  <2>2. UNCHANGED <<call, tgts, written>> /\ epc = "check"
    BY <1>7 DEF E!WriteCheck, E!Quiet, E!txVars
  <2>. QED BY <1>l, <2>1, <2>2 DEF TargetInv, E!Loaded
<1>8. CASE E!WriteSwap
  <2>1. \/ epc' = "ok" /\ written' = written \cup {E!t}
        \/ epc' = "write" /\ i' = i + 1 /\ i # Len(tgts) /\ written' = written \cup {E!t}
        \/ epc' = "back" /\ i' = 1 /\ call.command # "single" /\ written' = written
        \/ epc' = "failed" /\ written' = written
    BY <1>8 DEF E!WriteSwap, E!Rollback
  <2>2. UNCHANGED <<call, tgts>> /\ epc = "swap"
    BY <1>8 DEF E!WriteSwap, E!Quiet
  <2>3. E!t \in E!Loaded /\ i <= Len(tgts) /\ written = {tgts[k] : k \in 1..(i - 1)}
    BY <2>2, TargetAtHand DEF TargetInv
  <2>4. written \cup {E!t} = {tgts[k] : k \in 1..i}
    BY <1>l, <2>3 DEF E!t
  <2>5. i + 1 - 1 = i
    BY <1>l
  <2>6. i + 1 <= Len(tgts) \/ i = Len(tgts)
    BY <1>l, <2>3
  <2>7. CASE epc' = "write"
    <3>0. i' = i + 1 /\ written' = written \cup {E!t} /\ i # Len(tgts)
      BY <2>1, <2>7
    <3>1. i' - 1 = i /\ i' <= Len(tgts)
      BY <1>l, <2>5, <2>6, <3>0
    <3>2. written' = {tgts'[k] : k \in 1..(i' - 1)}
      BY <2>2, <2>4, <3>0, <3>1
    <3>3. written' \subseteq E!Loaded' /\ E!Loaded' = E!Loaded
      BY <2>1, <2>2, <2>3, <2>7 DEF TargetInv, E!Loaded
    <3>. QED BY <2>2, <2>7, <3>1, <3>2, <3>3 DEF TargetInv
  <2>8. CASE epc' # "write"
    BY <1>l, <2>1, <2>2, <2>3, <2>8 DEF TargetInv, E!Loaded
  <2>. QED BY <2>7, <2>8
<1>b. E!SkipBack => \/ epc' = "back" /\ i' = i + 1 /\ i # Len(tgts)
                    \/ epc' = "failed"
  BY DEF E!SkipBack
<1>9. CASE E!BackLook
  <2>1. (epc' = "bcheck" /\ i' = i /\ E!t \in written) \/ E!SkipBack
    BY <1>9 DEF E!BackLook, E!OursStill
  <2>2. UNCHANGED <<call, tgts, written>> /\ epc = "back"
    BY <1>9 DEF E!BackLook, E!Quiet, E!txVars
  <2>. QED BY <1>l, <1>b, <2>1, <2>2 DEF TargetInv, E!Loaded, E!t
<1>10. CASE E!BackStage
  <2>1. (epc' = "bswap" /\ i' = i) \/ E!SkipBack
    BY <1>10 DEF E!BackStage
  <2>2. UNCHANGED <<call, tgts, written>> /\ epc = "bcheck"
    BY <1>10 DEF E!BackStage, E!Quiet, E!txVars
  <2>. QED BY <1>l, <1>b, <2>1, <2>2 DEF TargetInv, E!Loaded, E!t
<1>11. CASE E!BackSwap
  <2>1. UNCHANGED <<call, tgts, written>> /\ epc = "bswap" /\ E!SkipBack
    BY <1>11 DEF E!BackSwap, E!Quiet, E!txVars
  <2>. QED BY <1>l, <1>b, <2>1 DEF TargetInv, E!Loaded
<1>12. CASE E!Killed
  BY <1>12 DEF E!Killed, E!txVars, TargetInv, E!Loaded
<1>13. CASE E!ForeignWrite
  BY <1>13 DEF E!ForeignWrite, E!txVars, TargetInv, E!Loaded, E!t
<1>14. CASE E!Stopped
  BY <1>14 DEF E!Stopped, E!vars, E!txVars, TargetInv, E!Loaded, E!t
<1>. QED BY <1>1, <1>2, <1>3, <1>4, <1>5, <1>6, <1>7, <1>8, <1>9, <1>10, <1>11, <1>12, <1>13, <1>14
         DEF E!Next

\* What lies beside the files through a step.
LEMMA NextTemp ==
    ASSUME EditType, TargetInv, TempInv, E!Next
    PROVE  TempInv'
<1>. USE DEF Writing, Restoring
<1>t. epc \in {"verify"} \cup Writing \cup Restoring => E!t \in Path
  BY TargetAtHand
<1>n. epc \notin {"check", "swap", "bswap", "killed"} => \A p \in Path : temp[p] = E!Absent
  BY DEF TempInv
<1>f. temp \in [Path -> E!Version \cup {"partial"}]
  BY DEF EditType
<1>1. CASE UNCHANGED temp /\ epc' \notin {"check", "swap", "bswap"}
           /\ epc \notin {"check", "swap", "bswap", "killed"}
  BY <1>1, <1>n DEF TempInv
<1>2. CASE E!WriteStage
  <2>1. CASE epc' = "check" /\ plan[E!t] = E!Absent /\ UNCHANGED temp
    BY <1>2, <1>t, <1>n, <2>1 DEF E!WriteStage, E!txVars, TempInv, E!t, E!Rollback
  <2>2. CASE temp' = [temp EXCEPT ![E!t] = plan[E!t]] /\ epc' = "check" /\ UNCHANGED i
    <3>1. UNCHANGED <<tgts, plan>> /\ E!t' = E!t
      BY <1>2, <2>2 DEF E!WriteStage, E!txVars, E!t
    <3>2. temp'[E!t] = plan[E!t] /\ \A p \in Path : p # E!t => temp'[p] = E!Absent
      BY <1>2, <1>t, <1>n, <1>f, <2>2 DEF E!WriteStage
    <3>. QED BY <2>2, <3>1, <3>2 DEF TempInv
  <2>. QED BY <1>1, <1>2, <2>1, <2>2 DEF E!WriteStage, E!Stage, E!Rollback
<1>3. CASE E!WriteCheck
  <2>1. CASE epc' = "swap" /\ UNCHANGED <<temp, i>>
    BY <1>3, <2>1 DEF E!WriteCheck, E!txVars, TempInv, E!t
  <2>2. CASE E!Unstage(E!t) /\ E!Rollback
    <3>1. \A p \in Path : temp'[p] = E!Absent
      BY <1>3, <1>t, <1>f, <2>2 DEF E!WriteCheck, E!Unstage, TempInv
    <3>. QED BY <2>2, <3>1 DEF E!Rollback, TempInv
  <2>. QED BY <1>3, <2>1, <2>2 DEF E!WriteCheck
<1>4. CASE E!WriteSwap
  <2>1. \A p \in Path : temp'[p] = E!Absent
    BY <1>4, <1>t, <1>f DEF E!WriteSwap, E!Unstage, TempInv
  <2>2. epc' \in {"ok", "write", "back", "failed"}
    BY <1>4 DEF E!WriteSwap, E!Rollback
  <2>. QED BY <2>1, <2>2 DEF TempInv
<1>5. CASE E!BackStage
  <2>1. CASE E!Stage(E!t, base[E!t]) /\ epc' = "bswap" /\ UNCHANGED i
    <3>1. UNCHANGED <<tgts, base>> /\ E!t' = E!t
      BY <1>5, <2>1 DEF E!BackStage, E!txVars, E!t
    <3>2. temp'[E!t] = base[E!t] /\ \A p \in Path : p # E!t => temp'[p] = E!Absent
      BY <1>5, <1>t, <1>n, <1>f, <2>1 DEF E!BackStage, E!Stage
    <3>. QED BY <2>1, <3>1, <3>2 DEF TempInv
  <2>2. CASE E!SkipBack /\ UNCHANGED temp
    BY <1>1, <1>5, <2>2 DEF E!BackStage, E!SkipBack
  <2>. QED BY <1>5, <2>1, <2>2 DEF E!BackStage
<1>6. CASE E!BackSwap
  <2>1. \A p \in Path : temp'[p] = E!Absent
    BY <1>6, <1>t, <1>f DEF E!BackSwap, E!Unstage, TempInv
  <2>2. epc' \in {"back", "failed"}
    BY <1>6 DEF E!BackSwap, E!SkipBack
  <2>. QED BY <2>1, <2>2 DEF TempInv
<1>7. CASE E!Killed
  BY <1>7 DEF E!Killed, TempInv
<1>8. CASE UNCHANGED <<temp, epc, tgts, i, plan, base>>
  BY <1>8 DEF TempInv, E!t
<1>9. CASE E!LoadSection \/ E!LoadFails \/ E!LoadDone \/ E!NothingToDo \/ E!Verify \/ E!BackLook
  BY <1>1, <1>9 DEF E!LoadSection, E!LoadFails, E!LoadDone, E!NothingToDo, E!Verify, E!BackLook,
                    E!Fail, E!SkipBack
<1>10. CASE E!ForeignWrite \/ E!Stopped
  BY <1>8, <1>10 DEF E!ForeignWrite, E!Stopped, E!txVars, E!vars
<1>. QED BY <1>2, <1>3, <1>4, <1>5, <1>6, <1>7, <1>9, <1>10 DEF E!Next


\* The steps that touch neither the files nor the list of those written.
Still == UNCHANGED <<text, world, base, plan, tgts, written, based, faulty>>

\* Taking back starts with every written file still owed; a call of one file has
\* none.
LEMMA RollbackStarts ==
    ASSUME EditType, TargetInv, DiskInv, epc \in Writing, Still, UNCHANGED call, E!Rollback
    PROVE  DiskInv'
<1>. USE DEF Writing, Restoring
<1>1. /\ i \in 1..Len(tgts) /\ Len(tgts) \in Nat /\ DOMAIN tgts = 1..Len(tgts)
  BY TargetAtHand
<1>2. CASE call.command = "patch"
  <2>1. epc' = "back" /\ i' = 1
    BY <1>2 DEF E!Rollback
  <2>2. ~faulty => \A k \in 1..Len(tgts) : Owed(tgts[k])
    BY DEF DiskInv, Owed
  <2>. QED BY <2>1, <2>2 DEF DiskInv, Still, Owed
<1>3. CASE call.command # "patch"
  <2>1. epc' = "failed"
    BY <1>3 DEF E!Rollback
  <2>2. call.command = "single"
    BY <1>3, EditAssumption DEF EditType, E!Call
  <2>3. i = 1
    BY <1>1, <2>2 DEF TargetInv
  <2>4. written = {}
    BY <2>3 DEF TargetInv
  <2>. QED BY <2>1, <2>4 DEF DiskInv, Still
<1>. QED BY <1>2, <1>3

\* Once a target needs no more, taking back goes on with the next or is done.
LEMMA RollbackGoesOn ==
    ASSUME EditType, TargetInv, epc \in Restoring, E!SkipBack,
           UNCHANGED <<world, base, plan, tgts, written, based>>,
           \A p \in Path \ written : text'[p] = world[p],
           ~faulty' => /\ based = {}
                       /\ \A p \in written : text'[p] # plan[p] => text'[p] = world[p]
                       /\ \A k \in (i + 1)..Len(tgts) : Owed(tgts[k])'
                       /\ \A k \in 1..i : text'[tgts[k]] = world[tgts[k]]
    PROVE  DiskInv'
<1>. USE DEF Writing, Restoring
<1>1. /\ i \in 1..Len(tgts) /\ Len(tgts) \in Nat /\ DOMAIN tgts = 1..Len(tgts)
  BY TargetAtHand
<1>2. CASE i = Len(tgts)
  <2>1. epc' = "failed"
    BY <1>2 DEF E!SkipBack
  <2>2. written \subseteq {tgts[k] : k \in 1..i}
    BY <1>1, <1>2 DEF TargetInv, E!Loaded
  <2>. QED BY <2>1, <2>2 DEF DiskInv
<1>3. CASE i # Len(tgts)
  <2>1. epc' = "back" /\ i' = i + 1
    BY <1>3 DEF E!SkipBack
  <2>2. i' - 1 = i
    BY <1>1, <2>1
  <2>. QED BY <2>1, <2>2 DEF DiskInv, Owed
<1>. QED BY <1>2, <1>3

\* The files through a step: a replacement is of the base unless it is noted as
\* faulty, and so is the way back.
LEMMA NextDisk ==
    ASSUME EditType, TargetInv, TempInv, DiskInv, E!Next
    PROVE  DiskInv'
<1>. USE DEF Writing, Restoring
<1>t. epc \in {"verify"} \cup Writing \cup Restoring =>
          /\ E!t \in Path /\ E!t \in E!Loaded
          /\ i \in 1..Len(tgts) /\ Len(tgts) \in Nat /\ DOMAIN tgts = 1..Len(tgts)
  BY TargetAtHand
<1>f. text \in [Path -> E!Version] /\ world \in [Path -> E!Version]
  BY DEF EditType
<1>1. CASE E!LoadSection \/ E!LoadFails \/ E!LoadDone \/ E!NothingToDo \/ E!Verify
  <2>1. written = {} /\ \A p \in Path : text[p] = world[p]
    BY <1>1 DEF E!LoadSection, E!LoadFails, E!LoadDone, E!NothingToDo, E!Verify, TargetInv, DiskInv
  <2>2. UNCHANGED <<text, world, written, based, faulty>>
    BY <1>1 DEF E!LoadSection, E!LoadFails, E!LoadDone, E!NothingToDo, E!Verify, E!Fail, E!Quiet,
                E!txVars, E!histVars
  <2>3. epc' \in {"load", "verify", "write", "ok", "failed"}
    BY <1>1 DEF E!LoadSection, E!LoadFails, E!LoadDone, E!NothingToDo, E!Verify, E!Fail
  <2>. QED BY <2>1, <2>2, <2>3 DEF DiskInv
<1>2. CASE E!WriteStage
  <2>1. epc = "write" /\ Still /\ UNCHANGED call /\ ((epc' = "check" /\ UNCHANGED i) \/ E!Rollback)
    BY <1>2 DEF E!WriteStage, E!txVars, E!histVars, E!Quiet, Still
  <2>2. CASE epc' = "check"
    BY <2>1, <2>2 DEF DiskInv, Still, Owed
  <2>. QED BY <2>1, <2>2, RollbackStarts
<1>3. CASE E!WriteCheck
  <2>1. epc = "check" /\ Still /\ UNCHANGED call
    BY <1>3 DEF E!WriteCheck, E!txVars, E!Quiet, Still
  <2>2. CASE E!StillBase(E!t) /\ epc' = "swap" /\ UNCHANGED i
    <3>1. seen' = base[E!t] /\ E!t' = E!t
      BY <1>3, <2>1, <2>2 DEF E!WriteCheck, E!StillBase, E!version_current, E!t, Still
    <3>. QED BY <2>1, <2>2, <3>1 DEF DiskInv, Still, Owed
  <2>3. CASE E!Rollback
    BY <2>1, <2>3, RollbackStarts
  <2>. QED BY <1>3, <2>2, <2>3 DEF E!WriteCheck
<1>4. CASE E!WriteSwap
  <2>1. CASE E!Rollback /\ UNCHANGED <<text, based, written, faulty>>
    <3>1. epc = "swap" /\ Still /\ UNCHANGED call
      BY <1>4, <2>1 DEF E!WriteSwap, E!Quiet, Still
    <3>. QED BY <2>1, <3>1, RollbackStarts
  <2>2. CASE /\ E!Replaced(E!t, temp[E!t]) /\ written' = written \cup {E!t}
             /\ faulty' = (faulty \/ text[E!t] # seen) /\ epc' \in {"ok", "write"}
    <3>. DEFINE q == E!t
    <3>1. /\ epc = "swap" /\ UNCHANGED <<world, base, plan, tgts>> /\ q \in Path
          /\ text' = [text EXCEPT ![q] = plan[q]] /\ written' = written \cup {q}
          /\ based' = IF text[q] = base[q] THEN based ELSE based \cup {q}
      BY <1>4, <1>t, <2>2 DEF E!WriteSwap, E!Replaced, TempInv
    <3>2. q \notin written
      BY <1>t, <3>1 DEF TargetInv, E!t
    <3>. HIDE DEF q
    <3>3. text'[q] = plan[q] /\ \A p \in Path : p # q => text'[p] = text[p]
      BY <1>f, <3>1
    <3>4. text[q] = world[q]
      BY <3>1, <3>2 DEF DiskInv
    <3>5. ASSUME ~faulty' PROVE /\ ~faulty /\ text[q] = base[q] /\ based' = {} /\ world[q] = base[q]
      <4>1. ~faulty /\ text[q] = seen
        BY <2>2, <3>5 DEF q
      <4>. QED BY <3>1, <3>4, <4>1 DEF DiskInv, q
    <3>6. \A p \in Path \ written' : text'[p] = world'[p]
      BY <3>1, <3>3 DEF DiskInv
    <3>7. written \subseteq Path
      BY DEF EditType
    <3>8. ~faulty' => \A p \in written' : (text'[p] # plan'[p] => text'[p] = world'[p]) /\ Owed(p)'
      BY <3>1, <3>3, <3>5, <3>7 DEF DiskInv, Owed
    <3>. QED BY <2>2, <3>5, <3>6, <3>8 DEF DiskInv
  <2>. QED BY <1>4, <2>1, <2>2 DEF E!WriteSwap
<1>5. CASE E!BackLook
  <2>1. epc = "back" /\ Still /\ seen' = text[E!t]
    BY <1>5 DEF E!BackLook, E!txVars, Still
  <2>2. CASE E!OursStill(E!t) /\ epc' = "bcheck" /\ UNCHANGED i
    <3>1. seen' = plan[E!t] /\ E!t' = E!t
      BY <2>1, <2>2 DEF E!OursStill, E!version_current, E!t, Still
    <3>. QED BY <2>1, <2>2, <3>1 DEF DiskInv, Still, Owed
  <2>3. CASE ~E!OursStill(E!t) /\ E!SkipBack
    <3>1. ~faulty => text[E!t] = world[E!t]
      BY <1>t, <2>1, <2>3 DEF DiskInv, E!OursStill, E!version_current
    <3>2. ~faulty => \A k \in 1..i : text[tgts[k]] = world[tgts[k]]
      BY <1>t, <2>1, <3>1 DEF DiskInv, E!t
    <3>. QED BY <1>t, <2>1, <2>3, <3>2, RollbackGoesOn DEF DiskInv, Still, Owed
  <2>. QED BY <1>5, <2>2, <2>3 DEF E!BackLook
<1>6. CASE E!BackStage
  <2>1. /\ epc = "bcheck" /\ UNCHANGED <<text, world, base, plan, tgts, written, based>>
        /\ seen' = IF base[E!t] = E!Absent THEN seen ELSE text[E!t]
    BY <1>6 DEF E!BackStage, E!txVars
  <2>2. CASE /\ base[E!t] = E!Absent \/ E!version_current(E!t, plan[E!t])
             /\ epc' = "bswap" /\ UNCHANGED <<i, faulty>>
    <3>1. (~faulty => seen' = plan[E!t]) /\ E!t' = E!t
      BY <2>1, <2>2 DEF DiskInv, E!version_current, E!t
    <3>. QED BY <2>1, <2>2, <3>1 DEF DiskInv, Owed
  <2>3. CASE ~E!version_current(E!t, plan[E!t]) /\ E!SkipBack /\ UNCHANGED faulty
    <3>1. ~faulty => text[E!t] = world[E!t]
      BY <1>t, <2>1, <2>3 DEF DiskInv, E!version_current
    <3>2. ~faulty => \A k \in 1..i : text[tgts[k]] = world[tgts[k]]
      BY <1>t, <2>1, <3>1 DEF DiskInv, E!t
    <3>. QED BY <1>t, <2>1, <2>3, <3>2, RollbackGoesOn DEF DiskInv, Owed
  <2>4. CASE E!SkipBack /\ faulty' = TRUE
    BY <2>1, <2>4, RollbackGoesOn DEF DiskInv
  <2>. QED BY <1>6, <2>2, <2>3, <2>4 DEF E!BackStage
<1>7. CASE E!BackSwap
  <2>. DEFINE q == E!t
  <2>1. /\ epc = "bswap" /\ E!SkipBack /\ UNCHANGED <<world, base, plan, tgts, written, based>>
        /\ q \in Path /\ q \in written
    BY <1>7, <1>t DEF E!BackSwap, E!txVars, TargetInv
  <2>2. CASE text' = text /\ faulty' = TRUE
    BY <2>1, <2>2, RollbackGoesOn DEF DiskInv
  <2>3. CASE text' = [text EXCEPT ![q] = temp[q]] /\ faulty' = (faulty \/ text[q] # seen)
    <3>1. temp[q] = base[q]
      BY <2>1 DEF TempInv
    <3>2. text'[q] = base[q] /\ \A p \in Path : p # q => text'[p] = text[p]
      BY <1>f, <2>1, <2>3, <3>1
    <3>3. \A p \in Path \ written : text'[p] = world[p]
      BY <2>1, <3>2 DEF DiskInv
    <3>4. \A k \in 1..Len(tgts) : tgts[k] \in Path /\ (k # i => tgts[k] # q)
      BY <1>t, <2>1, ElementOfSeq DEF EditType, TargetInv, E!t
    <3>5. ASSUME ~faulty'
          PROVE  /\ based = {}
                 /\ \A p \in written : text'[p] # plan[p] => text'[p] = world[p]
                 /\ \A k \in (i + 1)..Len(tgts) : Owed(tgts[k])'
                 /\ \A k \in 1..i : text'[tgts[k]] = world[tgts[k]]
      <4>1. ~faulty /\ text[q] = plan[q]
        BY <2>1, <2>3, <3>5 DEF DiskInv
      <4>2. text'[q] = world[q]
        BY <1>t, <2>1, <3>2, <4>1 DEF DiskInv, Owed, E!t
      <4>3. \A p \in written : text'[p] # plan[p] => text'[p] = world[p]
        BY <3>2, <4>1, <4>2 DEF DiskInv, EditType
      <4>4. \A k \in (i + 1)..Len(tgts) : Owed(tgts[k])'
        <5>1. ASSUME NEW k \in (i + 1)..Len(tgts) PROVE text'[tgts[k]] = text[tgts[k]] /\ Owed(tgts[k])
          BY <1>t, <2>1, <3>2, <3>4, <4>1 DEF DiskInv
        <5>. QED BY <2>1, <5>1 DEF Owed
      <4>5. \A k \in 1..i : text'[tgts[k]] = world[tgts[k]]
        BY <1>t, <2>1, <3>2, <3>4, <4>1, <4>2 DEF DiskInv, E!t
      <4>. QED BY <4>1, <4>3, <4>4, <4>5 DEF DiskInv
    <3>. QED BY <2>1, <3>3, <3>5, RollbackGoesOn
  <2>. QED BY <1>7, <2>2, <2>3 DEF E!BackSwap
<1>8. CASE E!Killed
  BY <1>8 DEF E!Killed, E!txVars, E!histVars, DiskInv
<1>9. CASE E!ForeignWrite
  <2>1. PICK p \in Path, v \in {"old", "foreign", E!Absent} :
            /\ p \in written => v # plan[p]
            /\ text' = [text EXCEPT ![p] = v] /\ world' = [world EXCEPT ![p] = v]
    BY <1>9 DEF E!ForeignWrite
  <2>2. /\ text'[p] = v /\ world'[p] = v
        /\ \A q \in Path : q # p => text'[q] = text[q] /\ world'[q] = world[q]
    BY <1>f, <2>1
  <2>3. UNCHANGED <<epc, i, base, plan, tgts, written, based, faulty, seen>> /\ epc # "failed"
        /\ E!t' = E!t
    BY <1>9 DEF E!ForeignWrite, E!Running, E!txVars, E!t
  <2>4. \A q \in Path : Owed(q) => Owed(q)'
    BY <2>1, <2>2, <2>3 DEF Owed
  <2>5. \A q \in Path : text[q] = world[q] => text'[q] = world'[q]
    BY <2>2
  <2>6. (\A k \in DOMAIN tgts : tgts[k] \in Path) /\ DOMAIN tgts = 1..Len(tgts) /\ Len(tgts) \in Nat
        /\ written \subseteq Path /\ i \in Nat \ {0}
    BY ElementOfSeq, LenProperties DEF EditType
  <2>7. \A q \in written : (text[q] # plan[q] => text[q] = world[q]) =>
                           (text'[q] # plan[q] => text'[q] = world'[q])
    BY <2>1, <2>2, <2>6
  <2>8. epc \in Restoring => i <= Len(tgts)
    BY DEF TargetInv
  <2>. QED BY <2>3, <2>4, <2>5, <2>6, <2>7, <2>8 DEF DiskInv
<1>10. CASE E!Stopped
  BY <1>10 DEF E!Stopped, E!vars, E!txVars, E!histVars, DiskInv, Owed, E!t
<1>. QED BY <1>1, <1>2, <1>3, <1>4, <1>5, <1>6, <1>7, <1>8, <1>9, <1>10 DEF E!Next


\* Nothing is read or written at the start.
LEMMA InitEdit ==
    ASSUME E!Init
    PROVE  EditInv
<1>. USE DEF Writing, Restoring
<1>1. DOMAIN tgts = {} /\ Len(tgts) = 0 /\ tgts \in Seq(Path)
  BY DEF E!Init
<1>2. EditType
  <2>1. E!Absent \in E!Version /\ {"old", E!Absent} \subseteq E!Version
    BY DEF E!Version, E!Content
  <2>2. text \in [Path -> E!Version] /\ world \in [Path -> E!Version]
    BY <2>1 DEF E!Init
  <2>3. temp \in [Path -> E!Version \cup {"partial"}]
    BY <2>1 DEF E!Init
  <2>4. base \in [Path -> E!Version] /\ plan \in [Path -> E!Version]
    BY <2>1 DEF E!Init
  <2>5. call \in EditCalls /\ epc = "load" /\ i = 1 /\ written = {} /\ based = {} /\ faulty = FALSE
    BY DEF E!Init
  <2>6. tgts \in Seq(Path) /\ i \in Nat \ {0}
    BY <1>1, <2>5
  <2>. QED BY <2>2, <2>3, <2>4, <2>5, <2>6 DEF EditType
<1>3. Len(call.sections) \in Nat
  <2>1. call.sections \in Seq(E!Section)
    BY <1>2, EditAssumption DEF EditType, E!Call
  <2>. QED BY <2>1, LenProperties
<1>4. TargetInv
  BY <1>1, <1>3 DEF E!Init, TargetInv
<1>5. TempInv /\ DiskInv
  BY DEF E!Init, TempInv, DiskInv
<1>. QED BY <1>2, <1>4, <1>5 DEF EditInv

\* The tool's invariant through a step of the host.
LEMMA NextEdit ==
    ASSUME EditInv, [HostNext]_hostVars
    PROVE  EditInv'
<1>1. CASE E!Next
  BY <1>1, NextEditType, NextTarget, NextTemp, NextDisk DEF EditInv
<1>2. CASE UNCHANGED editVars
  <2>1. EditType'
    BY <1>2 DEF EditInv, editVars, EditType
  <2>2. TargetInv'
    BY <1>2 DEF EditInv, editVars, TargetInv, E!t, E!Loaded
  <2>3. TempInv'
    BY <1>2 DEF EditInv, editVars, TempInv, E!t
  <2>4. DiskInv'
    BY <1>2 DEF EditInv, editVars, DiskInv, Owed, E!t
  <2>. QED BY <2>1, <2>2, <2>3, <2>4 DEF EditInv
<1>. QED BY <1>1, <1>2 DEF HostNext, hostVars

\* What the invariant says of the answers of the tool.
LEMMA EditIsAtomic ==
    ASSUME EditInv
    PROVE  EditAtomic
<1>1. ~faulty => E!FailedIsUndone
  BY DEF EditInv, DiskInv, E!FailedIsUndone
<1>2. ~faulty => E!OkIsBased
  <2>1. E!Loaded \subseteq Path
    BY ElementOfSeq, LenProperties DEF EditInv, EditType, E!Loaded
  <2>. QED BY <2>1 DEF EditInv, DiskInv, E!OkIsBased
<1>3. E!WholeFiles
  BY DEF EditInv, EditType, TempInv, E!WholeFiles, E!Version, E!Content, E!Absent
<1>. QED BY <1>1, <1>2, <1>3 DEF EditAtomic, E!EditAtomic

-----------------------------------------------------------------------------
(* Theorems *)

\* Whatever another program writes meanwhile, whichever call fails and whenever
\* the tool is killed: a patch is applied to all of its files or to none and no
\* file is left half written (cmd_patch, write_atomic).
THEOREM PatchesAreAtomic == HostSpec => []EditAtomic
<1>1. HostInit => EditInv
  BY InitEdit DEF HostInit
<1>2. EditInv /\ [HostNext]_hostVars => EditInv'
  BY NextEdit
<1>3. EditInv => EditAtomic
  BY EditIsAtomic
<1>. QED BY <1>1, <1>2, <1>3, PTL DEF HostSpec

\* The server's invariant holds along every behaviour.
LEMMA ServerAlways == HostSpec => []ServerInv
<1>1. HostInit => ServerInv
  BY InitServer DEF HostInit
<1>2. ServerInv /\ [HostNext]_hostVars => ServerInv'
  BY NextServer
<1>. QED BY <1>1, <1>2, PTL DEF HostSpec

\* No interleaving of listing, publishing and notifying leaves a client with a
\* stale list and no signal (handle_tools_list, notify_tools_changed).
THEOREM ListsStayFresh == HostSpec => []ListFresh
<1>1. ServerInv => ListFresh
  BY DEF ServerInv, ListInv
<1>. QED BY <1>1, ServerAlways, PTL

\* Every line is answered as often as it calls for, under its own id and in its
\* own protocol version (handle_message).
THEOREM LinesAreAnswered == HostSpec => []AnsweredOnce
<1>1. ServerInv => AnsweredOnce
  BY DEF ServerInv
<1>. QED BY <1>1, ServerAlways, PTL

-----------------------------------------------------------------------------
(***************************************************************************)
(* Inodes: every approval uses at most one new one, so the inodes of the   *)
(* model do not run out.                                                   *)
(***************************************************************************)

AllCalls == Approver \X (1..MaxCalls)

\* The approvals that are past opening <path>.tmp, or have ended.
Spent == {k \in AllCalls : /\ k[2] <= calls[k[1]]
                           /\ k[2] = calls[k[1]] => pc[k[1]] \notin {"load", "hash", "open"}}

\* An approval under way has been counted, and one that writes has an inode.
StageInv ==
    \A a \in Approver : /\ pc[a] \in {"load", "hash", "open"} => calls[a] >= 1
                        /\ pc[a] = "write" => fd[a] # None

SpaceInv == fresh <= 1 + Cardinality(Spent)

\* The lockfile and its temporary name never share an inode, and neither is one
\* that has not been created.
NameInv == /\ path < fresh
           /\ tmp # None => tmp < fresh /\ tmp # path

FileInv == TypeOK /\ StageInv /\ SpaceInv /\ NameInv

\* There are finitely many approvals, and as many inodes and one more.
LEMMA CallsFinite ==
    /\ IsFiniteSet(AllCalls)
    /\ Cardinality(AllCalls) = MaxCalls * Cardinality(Approver)
    /\ MaxCalls * Cardinality(Approver) \in Nat
<1>1. IsFiniteSet(1..MaxCalls) /\ Cardinality(1..MaxCalls) = MaxCalls
  <2>1. 1 \in Int /\ MaxCalls \in Int /\ MaxCalls \in Nat
    BY LockfileAssumption
  <2>2. IsFiniteSet(1..MaxCalls) /\ Cardinality(1..MaxCalls) = IF 1 > MaxCalls THEN 0 ELSE MaxCalls - 1 + 1
    BY <2>1, FS_Interval
  <2> QED
    BY <2>1, <2>2
<1>2. IsFiniteSet(AllCalls) /\ Cardinality(AllCalls) = Cardinality(Approver) * Cardinality(1..MaxCalls)
  BY <1>1, LockfileAssumption, FS_Product DEF AllCalls
<1>3. Cardinality(Approver) \in Nat
  BY LockfileAssumption, FS_CardinalityType
<1> QED
  BY <1>1, <1>2, <1>3, LockfileAssumption

\* The approvals that are spent are some of them.
LEMMA SpentFinite ==
    /\ IsFiniteSet(Spent) /\ Cardinality(Spent) \in Nat
    /\ IsFiniteSet(Spent') /\ Cardinality(Spent') \in Nat
    /\ Cardinality(Spent') <= MaxCalls * Cardinality(Approver)
<1>1. Spent \in SUBSET AllCalls /\ Spent' \in SUBSET AllCalls
  BY DEF Spent
<1> QED
  BY <1>1, CallsFinite, FS_Subset, FS_CardinalityType

\* Spent approvals stay spent: no step of an approval takes one back.
LEMMA SpentGrows ==
    ASSUME TypeOK, Next, \A a \in Approver : ~Begin(a)
    PROVE  Spent \subseteq Spent'
<1> SUFFICES ASSUME NEW k \in Spent PROVE k \in Spent'
  OBVIOUS
<1>1. k \in AllCalls /\ k[1] \in Approver
  BY DEF Spent, AllCalls
<1>2. calls' = calls
  BY DEF Next, Load, HashPackage, Open, Write, Rename, Unlink, Crash, Restart, EditPackage, Quiet, vars
<1>3. pc'[k[1]] \in {"load", "hash", "open"} => pc[k[1]] \in {"load", "hash", "open"}
  BY <1>1 DEF Next, Load, HashPackage, Open, Write, Rename, Unlink, Crash, Restart, EditPackage,
              Quiet, vars, Goto, TypeOK
<1> QED
  BY <1>1, <1>2, <1>3 DEF Spent


\* Neither does a new one: the approver was idle, its last approval was spent.
LEMMA SpentBegin ==
    ASSUME TypeOK, NEW a \in Approver, Begin(a) PROVE Spent \subseteq Spent'
<1> SUFFICES ASSUME NEW k \in Spent PROVE k \in Spent'
  OBVIOUS
<1>1. k \in AllCalls /\ k[1] \in Approver /\ k[2] \in Nat
  BY DEF Spent, AllCalls
<1>2. CASE k[1] # a
  <2>1. calls'[k[1]] = calls[k[1]] /\ pc'[k[1]] = pc[k[1]]
    BY <1>1, <1>2 DEF Begin, Goto, TypeOK
  <2> QED
    BY <1>1, <2>1 DEF Spent
<1>3. CASE k[1] = a
  <2>1. calls'[a] = calls[a] + 1 /\ calls[a] \in Nat
    BY <1>3 DEF Begin, TypeOK
  <2>2. k[2] <= calls[a]
    BY <1>3 DEF Spent
  <2> QED
    BY <1>1, <1>3, <2>1, <2>2 DEF Spent
<1> QED
  BY <1>2, <1>3

\* Opening spends one more.
LEMMA SpentOpen ==
    ASSUME TypeOK, StageInv, NEW a \in Approver, Open(a)
    PROVE  Cardinality(Spent') >= Cardinality(Spent) + 1
<1> DEFINE now == <<a, calls[a]>>
<1>1. calls[a] \in 1..MaxCalls /\ pc[a] = "open" /\ calls' = calls
  BY LockfileAssumption DEF Open, StageInv, TypeOK
<1>2. now \notin Spent
  BY <1>1 DEF Spent
<1>3. now \in Spent'
  <2>1. pc'[a] \notin {"load", "hash", "open"}
    BY DEF Open, Goto, TypeOK
  <2> QED
    BY <1>1, <2>1 DEF Spent, AllCalls
<1>4. Spent \subseteq Spent'
  <2>1. \A b \in Approver : ~Begin(b)
    BY <1>1 DEF Begin, TypeOK
  <2>2. Next
    BY DEF Next
  <2> QED
    BY <2>1, <2>2, SpentGrows
<1>5. Spent \cup {now} \in SUBSET Spent'
  BY <1>3, <1>4
<1> HIDE DEF now
<1>6. Cardinality(Spent \cup {now}) = Cardinality(Spent) + 1
  BY <1>2, SpentFinite, FS_AddElement
<1>7. Cardinality(Spent \cup {now}) <= Cardinality(Spent')
  BY <1>5, SpentFinite, FS_Subset
<1> QED
  BY <1>6, <1>7

\* The inode of an approval that creates one exists.
LEMMA FreshInode ==
    ASSUME FileInv, NEW a \in Approver, Open(a) PROVE fresh \in Inode /\ fresh \in Nat
<1>1. fresh <= 1 + Cardinality(Spent) /\ fresh \in Nat
  BY DEF FileInv, SpaceInv, TypeOK
<1>2. Cardinality(Spent') >= Cardinality(Spent) + 1
  BY SpentOpen DEF FileInv
<1>3. fresh <= MaxCalls * Cardinality(Approver)
  BY <1>1, <1>2, SpentFinite, CallsFinite
<1> QED
  BY <1>1, <1>3, CallsFinite DEF Inode

\* A lockfile of either form on disk and no approval under way.
LEMMA InitFile == Init => FileInv
<1> SUFFICES ASSUME Init PROVE FileInv
  OBVIOUS
<1>1. 0 \in Inode
  BY CallsFinite DEF Inode
<1>2. TypeOK
  <2>1. Empty \in Document
    BY DEF Empty, Document
  <2>2. /\ doc \in [Approver -> Document] /\ recorded \in Document
        /\ content \in [Inode -> Document \cup {Partial}]
    BY <2>1 DEF Init
  <2>3. /\ calls \in [Approver -> 0..MaxCalls] /\ edits \in 0..MaxEdits /\ fresh \in Nat
        /\ path \in Inode /\ tmp \in Inode \cup {None}
    BY <1>1, LockfileAssumption DEF Init
  <2>4. hashed \in [Tool -> SUBSET Hash] /\ disk \in [Tool -> Hash \cup {None}]
    BY DEF Init
  <2> QED
    BY <2>2, <2>3, <2>4 DEF Init, TypeOK
<1>3. StageInv /\ NameInv
  BY DEF Init, StageInv, NameInv
<1>4. SpaceInv
  BY SpentFinite DEF Init, SpaceInv
<1> QED
  BY <1>2, <1>3, <1>4 DEF FileInv

\* What the next-state relation consists of.
LEMMA NextCases ==
    ASSUME [Next]_vars
    PROVE  \/ \E a \in Approver : \/ Begin(a) \/ Load(a) \/ HashPackage(a) \/ Open(a)
                                  \/ Write(a) \/ Rename(a) \/ Unlink(a)
                                  \/ Crash(a) \/ Restart(a)
           \/ EditPackage
           \/ UNCHANGED vars
BY DEF Next, Quiet

\* Every step keeps the types.
LEMMA NextType == ASSUME FileInv, [Next]_vars PROVE TypeOK'
<1> USE DEF Goto
<1> TypeOK /\ StageInv
  BY DEF FileInv
<1>1. ASSUME NEW a \in Approver, Begin(a) PROVE TypeOK'
  <2>1. calls'[a] \in 0..MaxCalls
    BY <1>1, LockfileAssumption DEF Begin, TypeOK
  <2>2. calls' \in [Approver -> 0..MaxCalls]
    BY <1>1, <2>1 DEF Begin, TypeOK
  <2> QED
    BY <1>1, <2>2 DEF Begin, TypeOK
<1>2. ASSUME NEW a \in Approver, Load(a) PROVE TypeOK'
  <2>1. content[path] # Partial => content[path] \in Document
    BY DEF TypeOK
  <2> QED
    BY <1>2, <2>1 DEF Load, TypeOK
<1>3. ASSUME NEW a \in Approver, HashPackage(a) PROVE TypeOK'
  <2>1. doc' \in [Approver -> Document]
    <3>1. disk[tool[a]] \in Hash \cup {None} /\ doc[a] \in Document
      BY DEF TypeOK
    <3>2. WithEntry(doc[a], tool[a], disk[tool[a]]) \in Document
      BY <3>1 DEF WithEntry, Document
    <3> QED
      BY <1>3, <3>2 DEF HashPackage, TypeOK
  <2>2. hashed' \in [Tool -> SUBSET Hash]
    BY <1>3 DEF HashPackage, TypeOK
  <2> QED
    BY <1>3, <2>1, <2>2 DEF HashPackage, TypeOK
<1>4. ASSUME NEW a \in Approver, Open(a) PROVE TypeOK'
  <2>1. fresh \in Inode /\ fresh \in Nat
    BY <1>4, FreshInode
  <2>2. tmp' \in Inode \cup {None} /\ fd' \in [Approver -> Inode \cup {None}] /\ fresh' \in Nat
    BY <1>4, <2>1 DEF Open, TypeOK
  <2>3. content' \in [Inode -> Document \cup {Partial}]
    BY <1>4, <2>1 DEF Open, TypeOK
  <2> QED
    BY <1>4, <2>2, <2>3 DEF Open, TypeOK
<1>5. ASSUME NEW a \in Approver, Write(a) PROVE TypeOK'
  <2>1. fd[a] \in Inode
    BY <1>5 DEF Write, StageInv, TypeOK
  <2>2. content' \in [Inode -> Document \cup {Partial}]
    BY <1>5, <2>1 DEF Write, TypeOK
  <2> QED
    BY <1>5, <2>2 DEF Write, TypeOK
<1>6. ASSUME NEW a \in Approver, Rename(a) PROVE TypeOK'
  <2>1. recorded' \in Document /\ path' \in Inode /\ tmp' \in Inode \cup {None}
    BY <1>6 DEF Rename, TypeOK, Document
  <2> QED
    BY <1>6, <2>1 DEF Rename, TypeOK
<1>7. ASSUME NEW a \in Approver, Unlink(a) \/ Crash(a) \/ Restart(a) PROVE TypeOK'
  BY <1>7 DEF Unlink, Crash, Restart, TypeOK
<1>8. CASE EditPackage
  BY <1>8, LockfileAssumption DEF EditPackage, TypeOK
<1>9. CASE UNCHANGED vars
  BY <1>9 DEF vars, TypeOK
<1> QED
  BY <1>1, <1>2, <1>3, <1>4, <1>5, <1>6, <1>7, <1>8, <1>9, NextCases

\* Every step keeps the stages and the names.
LEMMA NextStage == ASSUME FileInv, [Next]_vars PROVE StageInv' /\ NameInv'
<1> USE DEF Goto
<1> TypeOK /\ StageInv /\ NameInv
  BY DEF FileInv
<1>1. ASSUME NEW a \in Approver, Begin(a) PROVE StageInv' /\ NameInv'
  <2>1. calls[a] \in Nat
    BY DEF TypeOK
  <2> QED
    BY <1>1, <2>1 DEF Begin, TypeOK, StageInv, NameInv
<1>2. ASSUME NEW a \in Approver, Load(a) \/ HashPackage(a) PROVE StageInv' /\ NameInv'
  BY <1>2 DEF Load, HashPackage, TypeOK, StageInv, NameInv
<1>3. ASSUME NEW a \in Approver, Open(a) PROVE StageInv' /\ NameInv'
  <2>1. fresh \in Inode /\ fresh \in Nat /\ fresh # None
    BY <1>3, FreshInode, NoInodeAssumption DEF FileInv
  <2>2. StageInv'
    BY <1>3, <2>1 DEF Open, TypeOK, StageInv
  <2>3. NameInv'
    BY <1>3, <2>1, CallsFinite DEF Open, TypeOK, NameInv, Inode
  <2> QED
    BY <2>2, <2>3
<1>4. ASSUME NEW a \in Approver, Write(a) \/ Rename(a) \/ Unlink(a) \/ Crash(a) \/ Restart(a)
      PROVE StageInv' /\ NameInv'
  BY <1>4 DEF Write, Rename, Unlink, Crash, Restart, TypeOK, StageInv, NameInv
<1>5. CASE EditPackage \/ UNCHANGED vars
  BY <1>5 DEF EditPackage, vars, StageInv, NameInv
<1> QED
  BY <1>1, <1>2, <1>3, <1>4, <1>5, NextCases

\* Every step leaves inodes for the approvals that are not spent.
LEMMA NextSpace == ASSUME FileInv, [Next]_vars PROVE SpaceInv'
<1> TypeOK /\ StageInv /\ SpaceInv /\ fresh \in Nat
  BY DEF FileInv, TypeOK
<1>1. ASSUME NEW a \in Approver, Open(a) PROVE SpaceInv'
  <2>1. fresh' <= fresh + 1
    BY <1>1 DEF Open
  <2>2. fresh' \in Nat
    BY <1>1 DEF Open
  <2> QED
    BY <1>1, <2>1, <2>2, SpentOpen, SpentFinite DEF SpaceInv
<1>2. CASE \A a \in Approver : ~Open(a)
  <2>1. fresh' = fresh
    BY <1>2, NextCases DEF Begin, Load, HashPackage, Write, Rename, Unlink, Crash, Restart,
                           EditPackage, vars
  <2>2. Spent \subseteq Spent'
    <3>1. CASE \E a \in Approver : Begin(a)
      BY <3>1, SpentBegin
    <3>2. CASE UNCHANGED vars
      BY <3>2 DEF vars, Spent
    <3>3. CASE Next /\ \A a \in Approver : ~Begin(a)
      BY <3>3, SpentGrows
    <3> QED
      BY <3>1, <3>2, <3>3
  <2>3. Cardinality(Spent) <= Cardinality(Spent')
    BY <2>2, SpentFinite, FS_Subset
  <2> QED
    BY <2>1, <2>3, SpentFinite DEF SpaceInv
<1> QED
  BY <1>1, <1>2

\* A step of an approval, of another writer or a crash keeps the three parts.
LEMMA NextFile == FileInv /\ [Next]_vars => FileInv'
BY NextType, NextStage, NextSpace DEF FileInv


(***************************************************************************)
(* Trust is never invented.                                                *)
(***************************************************************************)

\* Whatever is in a file or on its way into one was computed by an approval.
VouchInv ==
    \A t \in Tool :
        /\ \A n \in Inode : content[n] # Partial => content[n][t] \in hashed[t] \cup {None}
        /\ \A a \in Approver : doc[a][t] \in hashed[t] \cup {None}

\* What approvals computed is never forgotten.
LEMMA HashedGrows == ASSUME TypeOK, [Next]_vars, NEW t \in Tool PROVE hashed[t] \subseteq hashed'[t]
BY NextCases DEF Begin, Load, HashPackage, Open, Write, Rename, Unlink, Crash, Restart, EditPackage,
                 vars, TypeOK

\* Every step writes and loads only what approvals computed.
LEMMA NextVouch == ASSUME FileInv, VouchInv, [Next]_vars PROVE VouchInv'
<1> TypeOK /\ StageInv /\ NameInv
  BY DEF FileInv
<1> SUFFICES ASSUME NEW t \in Tool
             PROVE  /\ \A n \in Inode : content'[n] # Partial => content'[n][t] \in hashed'[t] \cup {None}
                    /\ \A a \in Approver : doc'[a][t] \in hashed'[t] \cup {None}
  BY DEF VouchInv
<1>0. /\ hashed[t] \subseteq hashed'[t]
      /\ \A n \in Inode : content[n] # Partial => content[n][t] \in hashed[t] \cup {None}
      /\ \A a \in Approver : doc[a][t] \in hashed[t] \cup {None}
  BY HashedGrows DEF VouchInv
<1>1. ASSUME NEW n \in Inode, content'[n] # Partial PROVE content'[n][t] \in hashed'[t] \cup {None}
  <2>1. ASSUME NEW a \in Approver, Open(a) PROVE content'[n] = content[n]
    BY <1>1, <2>1 DEF Open, TypeOK
  <2>2. ASSUME NEW a \in Approver, Write(a) PROVE content'[n] \in {content[n], doc[a]}
    BY <1>1, <2>2 DEF Write, TypeOK
  <2>3. CASE content' = content
    BY <1>0, <1>1, <2>3
  <2>4. content' = content \/ \E a \in Approver : Open(a) \/ Write(a)
    BY NextCases DEF Begin, Load, HashPackage, Rename, Unlink, Crash, Restart, EditPackage, vars
  <2> QED
    BY <1>0, <1>1, <2>1, <2>2, <2>3, <2>4
<1>2. ASSUME NEW a \in Approver PROVE doc'[a][t] \in hashed'[t] \cup {None}
  <2>1. ASSUME NEW b \in Approver, Load(b)
        PROVE  doc'[a] = doc[a] \/ (doc'[a] = content[path] /\ content[path] # Partial)
    BY <2>1 DEF Load, TypeOK
  <2>2. ASSUME NEW b \in Approver, HashPackage(b)
        PROVE  \/ doc'[a][t] = doc[a][t]
               \/ doc'[a][t] = disk[t] /\ disk[t] \in hashed'[t]
    <3>1. CASE doc' = doc
      BY <3>1
    <3>2. CASE doc' # doc
      <4>1. /\ doc' = [doc EXCEPT ![b] = [@ EXCEPT ![tool[b]] = disk[tool[b]]]]
            /\ hashed' = [hashed EXCEPT ![tool[b]] = @ \cup {disk[tool[b]]}]
        BY <2>2, <3>2 DEF HashPackage, WithEntry
      <4>2. doc[b] \in [Tool -> Hash \cup {None}] /\ tool[b] \in Tool
        BY DEF TypeOK, Document
      <4>3. CASE a = b /\ t = tool[b]
        BY <4>1, <4>2, <4>3 DEF TypeOK
      <4>4. CASE a = b /\ t # tool[b]
        BY <4>1, <4>2, <4>4 DEF TypeOK
      <4>5. CASE a # b
        BY <4>1, <4>5 DEF TypeOK
      <4> QED
        BY <4>3, <4>4, <4>5
    <3> QED
      BY <3>1, <3>2
  <2>3. doc' = doc \/ \E b \in Approver : Load(b) \/ HashPackage(b)
    BY NextCases DEF Begin, Open, Write, Rename, Unlink, Crash, Restart, EditPackage, vars
  <2>4. path \in Inode
    BY DEF TypeOK
  <2> QED
    BY <1>0, <2>1, <2>2, <2>3, <2>4
<1> QED
  BY <1>1, <1>2

\* Trust is never invented: whatever approvals interleave, crash or overwrite
\* each other's <path>.tmp, an identity the lockfile vouches for was computed
\* from that tool's package by an approval of that tool.
THEOREM TrustIsEarned == Spec => []OnlyApprovedTrusted
<1>1. Init => FileInv /\ VouchInv
  BY InitFile DEF Init, VouchInv, Empty
<1>2. FileInv /\ VouchInv /\ [Next]_vars => (FileInv /\ VouchInv)'
  BY NextFile, NextVouch
<1>3. FileInv /\ VouchInv => OnlyApprovedTrusted
  BY DEF FileInv, TypeOK, VouchInv, OnlyApprovedTrusted
<1> QED
  BY <1>1, <1>2, <1>3, PTL DEF Spec

(***************************************************************************)
(* Approvals that do not overlap.                                          *)
(***************************************************************************)

\* One approver at a time.
Alone == \A a, b \in Approver : pc[a] # "idle" /\ pc[b] # "idle" => a = b

\* The document an approver carries differs from the lockfile in its own tool
\* only, and goes to the inode that <path>.tmp names, which nobody else writes.
Carries(a) ==
    /\ pc[a] = "hash" => doc[a] = content[path]
    /\ pc[a] \in {"open", "write", "rename"} =>
          \A t \in Tool : t # tool[a] => doc[a][t] = content[path][t]
    /\ pc[a] = "write" => fd[a] = tmp /\ content[tmp] = Partial
    /\ pc[a] = "rename" => tmp # None /\ content[tmp] = doc[a]

Calm == /\ Alone
        /\ content[path] # Partial
        /\ \A t \in Tool : recorded[t] # None => content[path][t] = recorded[t]
        /\ \A a \in Approver : Carries(a)

CalmInv == ~overlap => Calm

\* While an approver acts alone, nobody else is anywhere.
LEMMA OthersIdle ==
    ASSUME Alone, NEW a \in Approver, pc[a] # "idle", NEW b \in Approver, b # a
    PROVE  pc[b] = "idle"
BY DEF Alone

\* The steps that write no file keep what is in them.
LEMMA SameFiles ==
    ASSUME Calm, UNCHANGED <<content, path, recorded>>
    PROVE  /\ content'[path'] # Partial
           /\ \A t \in Tool : recorded'[t] # None => content'[path'][t] = recorded'[t]
BY DEF Calm

\* What an approver does alone leaves the others idle.
LEMMA StaysAlone ==
    ASSUME TypeOK, Alone, NEW a \in Approver, pc[a] # "idle", NEW label,
           pc' = [pc EXCEPT ![a] = label]
    PROVE  Alone' /\ \A b \in Approver : b # a => Carries(b)'
<1>1. \A b \in Approver : b # a => pc'[b] = "idle"
  BY DEF Alone, TypeOK
<1>2. Alone'
  BY <1>1 DEF Alone
<1>3. ASSUME NEW b \in Approver, b # a PROVE Carries(b)'
  BY <1>1, <1>3 DEF Carries
<1> QED
  BY <1>2, <1>3


\* Every step of an approver that is alone leaves a complete lockfile, with all
\* that was reported.
LEMMA NextCalm == ASSUME FileInv, CalmInv, [Next]_vars PROVE CalmInv'
<1> TypeOK /\ StageInv /\ NameInv
  BY DEF FileInv
<1> SUFFICES ASSUME ~overlap' PROVE Calm'
  BY DEF CalmInv
<1>0. ~overlap
  BY NextCases DEF Begin, Load, HashPackage, Open, Write, Rename, Unlink, Crash, Restart, EditPackage,
                   vars
<1>1. Calm /\ Alone
  BY <1>0 DEF CalmInv, Calm
<1>2. ASSUME NEW a \in Approver, Begin(a) PROVE Calm'
  <2>1. \A b \in Approver : b # a => pc[b] = "idle"
    BY <1>2 DEF Begin
  <2>2. pc' = [pc EXCEPT ![a] = "load"]
    BY <1>2 DEF Begin, Goto
  <2>3. Alone'
    BY <2>1, <2>2 DEF Alone, TypeOK
  <2>4. \A b \in Approver : Carries(b)'
    BY <2>1, <2>2 DEF Carries, TypeOK
  <2> QED
    BY <1>1, <1>2, <2>3, <2>4, SameFiles DEF Begin, Calm
<1>3. ASSUME NEW a \in Approver, Load(a) PROVE Calm'
  <2>1. pc[a] # "idle" /\ pc' = [pc EXCEPT ![a] = "hash"]
        /\ doc' = [doc EXCEPT ![a] = content[path]] /\ UNCHANGED <<content, path, recorded>>
    BY <1>1, <1>3 DEF Load, Goto, Calm
  <2>2. Alone' /\ \A b \in Approver : b # a => Carries(b)'
    BY <1>1, <2>1, StaysAlone
  <2>3. Carries(a)'
    BY <2>1 DEF Carries, TypeOK
  <2> QED
    BY <1>1, <2>1, <2>2, <2>3, SameFiles DEF Calm
<1>4. ASSUME NEW a \in Approver, HashPackage(a) PROVE Calm'
  <2>1. pc[a] = "hash" /\ UNCHANGED <<content, path, recorded, tool>>
    BY <1>4 DEF HashPackage
  <2>2. PICK label \in {"idle", "open"} :
           /\ pc' = [pc EXCEPT ![a] = label]
           /\ label = "open" =>
                 doc' = [doc EXCEPT ![a] = [@ EXCEPT ![tool[a]] = disk[tool[a]]]]
    BY <1>4 DEF HashPackage, Goto, WithEntry
  <2>3. Alone' /\ \A b \in Approver : b # a => Carries(b)'
    BY <1>1, <2>1, <2>2, StaysAlone
  <2>4. Carries(a)'
    <3>1. CASE label = "idle"
      BY <2>2, <3>1 DEF Carries, TypeOK
    <3>2. CASE label = "open"
      <4>1. doc[a] = content[path] /\ doc[a] \in [Tool -> Hash \cup {None}]
        BY <1>1, <2>1 DEF Calm, Carries, TypeOK, Document
      <4>2. \A t \in Tool : t # tool[a] => doc'[a][t] = content[path][t]
        BY <2>2, <3>2, <4>1 DEF TypeOK
      <4> QED
        BY <2>1, <2>2, <3>2, <4>2 DEF Carries, TypeOK
    <3> QED
      BY <3>1, <3>2
  <2> QED
    BY <1>1, <2>1, <2>3, <2>4, SameFiles DEF Calm
<1>5. ASSUME NEW a \in Approver, Open(a) PROVE Calm'
  <2>1. pc[a] = "open" /\ UNCHANGED <<doc, path, recorded, tool>>
    BY <1>5 DEF Open
  <2>2. content'[path] = content[path]
    BY <1>5, FreshInode DEF Open, TypeOK, NameInv
  <2>3. PICK label \in {"write", "unlink"} :
           /\ pc' = [pc EXCEPT ![a] = label]
           /\ label = "write" => fd'[a] = tmp' /\ content'[tmp'] = Partial
    BY <1>5, FreshInode DEF Open, Goto, TypeOK
  <2>4. Alone' /\ \A b \in Approver : b # a => Carries(b)'
    BY <1>1, <2>1, <2>3, StaysAlone
  <2>5. Carries(a)'
    BY <1>1, <2>1, <2>2, <2>3 DEF Calm, Carries, TypeOK
  <2> QED
    BY <1>1, <2>1, <2>2, <2>4, <2>5 DEF Calm
<1>6. ASSUME NEW a \in Approver, Write(a) PROVE Calm'
  <2>1. pc[a] = "write" /\ UNCHANGED <<doc, path, tmp, recorded, tool>>
    BY <1>6 DEF Write
  <2>2. fd[a] = tmp /\ tmp # None /\ tmp \in Inode /\ tmp # path /\ content[tmp] = Partial
    BY <1>1, <2>1 DEF Calm, Carries, StageInv, TypeOK, NameInv
  <2>3. content'[path] = content[path]
    BY <1>6, <2>2 DEF Write, TypeOK
  <2>4. PICK label \in {"rename", "unlink"} :
           /\ pc' = [pc EXCEPT ![a] = label]
           /\ label = "rename" => content'[tmp] = doc[a]
    BY <1>6, <2>2 DEF Write, Goto, TypeOK
  <2>5. Alone' /\ \A b \in Approver : b # a => Carries(b)'
    BY <1>1, <2>1, <2>4, StaysAlone
  <2>6. Carries(a)'
    BY <1>1, <2>1, <2>2, <2>3, <2>4 DEF Calm, Carries, TypeOK
  <2> QED
    BY <1>1, <2>1, <2>3, <2>5, <2>6 DEF Calm
<1>7. ASSUME NEW a \in Approver, Rename(a) PROVE Calm'
  <2>1. /\ pc[a] = "rename" /\ UNCHANGED <<doc, content, tool>>
        /\ tmp # None /\ content[tmp] = doc[a]
        /\ \A t \in Tool : t # tool[a] => doc[a][t] = content[path][t]
    BY <1>1, <1>7 DEF Rename, Calm, Carries
  <2>2. CASE UNCHANGED <<path, recorded>> /\ pc' = [pc EXCEPT ![a] = "unlink"]
    <3>1. Alone' /\ \A b \in Approver : b # a => Carries(b)'
      BY <1>1, <2>1, <2>2, StaysAlone
    <3>2. Carries(a)'
      BY <2>2 DEF Carries, TypeOK
    <3> QED
      BY <1>1, <2>1, <2>2, <3>1, <3>2, SameFiles DEF Calm
  <2>3. CASE /\ path' = tmp /\ pc' = [pc EXCEPT ![a] = "idle"]
             /\ recorded' = [recorded EXCEPT ![tool[a]] = doc[a][tool[a]]]
    <3>1. Alone' /\ \A b \in Approver : b # a => Carries(b)'
      BY <1>1, <2>1, <2>3, StaysAlone
    <3>2. Carries(a)'
      BY <2>3 DEF Carries, TypeOK
    <3>3. content'[path'] = doc[a] /\ doc[a] # Partial
      BY <2>1, <2>3, LockfileAssumption DEF TypeOK, Document
    <3>4. ASSUME NEW t \in Tool, recorded'[t] # None PROVE content'[path'][t] = recorded'[t]
      <4>1. CASE t = tool[a]
        BY <2>3, <3>3, <4>1 DEF TypeOK, Document
      <4>2. CASE t # tool[a]
        BY <1>1, <2>1, <2>3, <3>3, <3>4, <4>2 DEF TypeOK, Document, Calm
      <4> QED
        BY <4>1, <4>2
    <3> QED
      BY <3>1, <3>2, <3>3, <3>4 DEF Calm
  <2> QED
    BY <1>7, <2>2, <2>3 DEF Rename, Goto
<1>8. ASSUME NEW a \in Approver, Unlink(a) \/ Crash(a) PROVE Calm'
  <2>1. pc[a] # "idle" /\ UNCHANGED <<content, path, recorded>>
    BY <1>8 DEF Unlink, Crash
  <2>2. PICK label \in {"idle", "dead"} : pc' = [pc EXCEPT ![a] = label]
    BY <1>8 DEF Unlink, Crash, Goto
  <2>3. Alone' /\ \A b \in Approver : b # a => Carries(b)'
    BY <1>1, <2>1, <2>2, StaysAlone
  <2>4. Carries(a)'
    BY <2>2 DEF Carries, TypeOK
  <2> QED
    BY <1>1, <2>1, <2>3, <2>4, SameFiles DEF Calm
<1>9. ASSUME NEW a \in Approver, Restart(a) PROVE Calm'
  <2>1. /\ pc[a] # "idle" /\ UNCHANGED <<content, path, recorded>>
        /\ pc' = [pc EXCEPT ![a] = "idle"]
    BY <1>9 DEF Restart, Goto
  <2>2. Alone' /\ \A b \in Approver : b # a => Carries(b)'
    BY <1>1, <2>1, StaysAlone
  <2>3. Carries(a)'
    BY <2>1 DEF Carries, TypeOK
  <2> QED
    BY <1>1, <2>1, <2>2, <2>3, SameFiles DEF Calm
<1>10. CASE EditPackage \/ UNCHANGED vars
  BY <1>1, <1>10 DEF EditPackage, vars, Calm, Alone, Carries
<1> QED
  BY <1>2, <1>3, <1>4, <1>5, <1>6, <1>7, <1>8, <1>9, <1>10, NextCases

\* While approvals do not overlap, the lockfile is a complete document at every
\* moment, after a crash at any step too, and holds every reported approval.
THEOREM ApprovalsLast == Spec => []LockfileKept
<1>1. Init => FileInv /\ CalmInv
  <2> SUFFICES ASSUME Init PROVE Calm
    BY InitFile DEF CalmInv
  <2>1. content[path] = Empty /\ Empty \in Document
    BY InitFile DEF Init, FileInv, TypeOK, Empty, Document
  <2>2. content[path] # Partial
    BY <2>1, LockfileAssumption DEF Document
  <2>3. Alone /\ \A a \in Approver : Carries(a)
    BY DEF Init, Alone, Carries
  <2>4. \A t \in Tool : recorded[t] = None
    BY DEF Init, Empty
  <2> QED
    BY <2>2, <2>3, <2>4 DEF Calm
<1>2. FileInv /\ CalmInv /\ [Next]_vars => (FileInv /\ CalmInv)'
  BY NextFile, NextCalm
<1>3. CalmInv => LockfileKept
  BY DEF CalmInv, Calm, LockfileKept, LockfileComplete, ApprovalsKept, Kept
<1> QED
  BY <1>1, <1>2, <1>3, PTL DEF Spec
=============================================================================
