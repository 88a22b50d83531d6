-------------------------------- MODULE Host --------------------------------
(***************************************************************************)
(* What is done on files and told to clients around the calls: approvals   *)
(* in the lockfile, the standard edit tool, the MCP server.  They share no *)
(* state; subject says which of them moves, or that something else does.   *)
(***************************************************************************)
EXTENDS Lockfile, Sequences

CONSTANTS
    Path, EditCalls, MaxForeign,         \* of Edit
    Id, Management, Launches, NoId       \* of Server

VARIABLE subject
VARIABLES call, text, temp, epc, i, tgts, base, plan, written, world, seen, based, faulty, foreign
VARIABLES spc, exit_code, opened, config, initialized, modern, cur, replies, todo, names, table, flag,
          shown, signalled

E == INSTANCE Edit WITH Calls <- EditCalls, disk <- text, pc <- epc
S == INSTANCE Server WITH pc <- spc, view <- shown, told <- signalled

\* cmd_patch refuses a patch without sections; edit.replace and edit.insert name
\* one file.
ASSUME EditAssumption ==
    /\ EditCalls \subseteq E!Call
    /\ \A c \in EditCalls : c.sections # <<>> /\ (c.command = "single" => Len(c.sections) = 1)
    /\ MaxForeign \in Nat

ASSUME ServerAssumption == NoId \notin Id

editVars == <<call, text, temp, epc, i, tgts, base, plan, written, world, seen, based, faulty, foreign>>
serverVars == <<spc, exit_code, opened, config, initialized, modern, cur, replies, todo, names, table, flag,
                shown, signalled>>
hostVars == <<subject, vars, editVars, serverVars>>

HostInit == Init /\ E!Init /\ S!Init /\ subject \in {"lockfile", "edit", "server", "other"}

HostNext ==
    /\ UNCHANGED subject
    /\ \/ subject = "lockfile" /\ Next /\ UNCHANGED <<editVars, serverVars>>
       \/ subject = "edit" /\ E!Next /\ UNCHANGED <<vars, serverVars>>
       \/ subject = "server" /\ S!Next /\ UNCHANGED <<vars, editVars>>

HostSpec == HostInit /\ [][HostNext]_hostVars

-----------------------------------------------------------------------------
(* Properties *)

\* A patch is applied to all of its files or to none, never over a change it has
\* not seen, and no file is ever half written (cmd_patch, write_atomic).
EditAtomic == E!EditAtomic /\ E!WholeFiles

\* A client's list of tools is current, or it is told that it is not
\* (handle_tools_list, notify_tools_changed).
ListFresh == S!ListFresh

\* Each line is answered as often as it calls for, under its own id
\* (handle_message).
AnsweredOnce == S!AnsweredOnce
=============================================================================
