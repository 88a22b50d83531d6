-------------------------- MODULE InvocationService --------------------------
(***************************************************************************)
(* What the invocation engine promises its hosts: every call gets at most  *)
(* one outcome, at most N calls are active at any time, a call becomes     *)
(* active at most once, and only a call that was active can report that    *)
(* its tool answered.                                                      *)
(***************************************************************************)
EXTENDS Naturals, FiniteSets

CONSTANTS
    Calls,     \* the calls hosts may make
    N,         \* how many may be active at once
    Answers,   \* outcomes that carry a tool's answer
    Refusals   \* outcomes decided by the engine

VARIABLES
    called,    \* calls made
    admitted,  \* calls that have been active
    active,    \* calls that are active
    outcome    \* [Calls -> Answers \cup Refusals \cup {"none"}]

svars == <<called, admitted, active, outcome>>

Init ==
    /\ called = {}
    /\ admitted = {}
    /\ active = {}
    /\ outcome = [i \in Calls |-> "none"]

Call(i) ==
    /\ i \notin called
    /\ called' = called \cup {i}
    /\ UNCHANGED <<admitted, active, outcome>>

Admit(i) ==
    /\ i \in called \ admitted
    /\ outcome[i] = "none"
    /\ Cardinality(active) < N
    /\ admitted' = admitted \cup {i}
    /\ active' = active \cup {i}
    /\ UNCHANGED <<called, outcome>>

Leave(i) ==
    /\ i \in active
    /\ active' = active \ {i}
    /\ UNCHANGED <<called, admitted, outcome>>

Return(i) ==
    /\ i \in called \ active
    /\ outcome[i] = "none"
    /\ \E v \in Refusals \cup (IF i \in admitted THEN Answers ELSE {}) :
          outcome' = [outcome EXCEPT ![i] = v]
    /\ UNCHANGED <<called, admitted, active>>

Next == \E i \in Calls : Call(i) \/ Admit(i) \/ Leave(i) \/ Return(i)

Spec == Init /\ [][Next]_svars
=============================================================================
