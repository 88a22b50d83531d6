---------------------------- MODULE PartsProofs -----------------------------
(***************************************************************************)
(* Theorems about the parts that MCParts puts side by side, for every      *)
(* value of their bounds: a library, the error texts, a program run for a  *)
(* standard tool, and the log.  The parts share no state; each theorem     *)
(* uses only the steps of its own part.                                    *)
(***************************************************************************)
EXTENDS MCParts, Sequences, FiniteSetTheorems, TLAPS

(***************************************************************************)
(* A library (module Library).                                             *)
(***************************************************************************)

LibPc == {"idle", "acquired", "lock", "load", "invoke", "release", "done"}
Busy == {"acquired", "lock", "load", "invoke", "release"}

\* The calls that count in p->busy.
InFlight == {c \in LibCall : where[c] \in Busy}

\* The node: while it is open, one successful or failed initialization made it
\* ready or useless, and a loaded library is listed until the context closes.
NodeInv ==
    /\ loaded \in BOOLEAN /\ failed \in BOOLEAN /\ init_ok \in BOOLEAN /\ closed \in BOOLEAN
    /\ listed \in BOOLEAN /\ mapped \in BOOLEAN
    /\ inits = (IF loaded THEN 1 ELSE 0)
    /\ IF loaded THEN failed <=> ~init_ok ELSE ~failed /\ ~init_ok
    /\ mapped <=> loaded /\ ~closed
    /\ mapped => listed
    /\ shuts = (IF closed /\ init_ok THEN 1 ELSE 0)

\* A call is about the image of its own content once it has compared them, and
\* the image cannot change while anybody is past the acquisition.
CallersInv ==
    /\ where \in [LibCall -> LibPc]
    /\ busy = Cardinality(InFlight)
    /\ \A c \in LibCall :
          /\ where[c] \in Busy => listed /\ ~closed
          /\ where[c] \in {"lock", "load", "invoke"} => image = sha[c]
          /\ where[c] = "invoke" => loaded /\ init_ok

\* A library moves by its own steps only.
LEMMA LibSteps ==
    ASSUME [AllNext]_allVars PROVE [S!Next]_libVars
BY DEF AllNext, allVars

\* What a step of the library executor can be, as far as its state is concerned.
LEMMA LibCases ==
    ASSUME [S!Next]_libVars
    PROVE  \/ \E c \in LibCall : \/ S!Acquire(c) \/ S!Compare(c) \/ S!Lock(c) \/ S!Load(c)
                                 \/ S!Invoke(c) \/ S!Release(c)
           \/ S!WorkerStop
           \/ UNCHANGED libVars
BY DEF S!Next, S!Done, S!vars, S!node, libVars

\* The node changes with the first acquisition, the first load and the end.
LEMMA NextNode == ASSUME NodeInv, CallersInv, [S!Next]_libVars PROVE NodeInv'
<1> USE DEF S!node
<1>1. ASSUME NEW c \in LibCall, S!Acquire(c) PROVE NodeInv'
  BY <1>1 DEF S!Acquire, NodeInv
<1>2. ASSUME NEW c \in LibCall, S!Compare(c) \/ S!Lock(c) \/ S!Invoke(c) \/ S!Release(c) PROVE NodeInv'
  BY <1>2 DEF S!Compare, S!Lock, S!Invoke, S!Release, NodeInv
<1>3. ASSUME NEW c \in LibCall, S!Load(c) PROVE NodeInv'
  <2>1. listed /\ ~closed
    BY <1>3 DEF S!Load, CallersInv, Busy
  <2>2. CASE UNCHANGED <<S!node, inits>>
    BY <1>3, <2>2 DEF S!Load, NodeInv
  <2>3. CASE ~UNCHANGED <<S!node, inits>>
    <3>1. ~loaded /\ ~failed /\ ~init_ok
      BY <1>3, <2>3 DEF S!Load, S!NeverLoaded, NodeInv
    <3>2. PICK ok \in BOOLEAN : failed' = (failed \/ ~ok) /\ init_ok' = (init_ok \/ ok)
      BY <1>3, <2>3 DEF S!Load
    <3>3. failed' = ~ok /\ init_ok' = ok
      BY <3>1, <3>2 DEF NodeInv
    <3>4. /\ loaded' = TRUE /\ mapped' = TRUE /\ inits' = inits + 1
          /\ UNCHANGED <<listed, image, shuts, closed>>
      BY <1>3, <2>3 DEF S!Load
    <3>5. inits = 0
      BY <3>1 DEF NodeInv
    <3>6. inits' = 1 /\ shuts' = 0 /\ closed' = FALSE /\ listed' = TRUE
      BY <2>1, <3>4, <3>5 DEF NodeInv
    <3>7. (failed' <=> ~init_ok') /\ failed' \in BOOLEAN /\ init_ok' \in BOOLEAN
      BY <3>3
    <3> HIDE DEF S!node
    <3> QED
      BY <3>4, <3>6, <3>7 DEF NodeInv
  <2> QED
    BY <2>2, <2>3
<1>4. CASE S!WorkerStop
  <2>1. /\ closed' = TRUE /\ listed' = FALSE /\ ~closed
        /\ UNCHANGED <<loaded, failed, init_ok, inits>>
    BY <1>4 DEF S!WorkerStop
  <2>2. loaded => listed
    BY <2>1 DEF NodeInv
  <2>3. shuts' = (IF init_ok THEN 1 ELSE 0)
    BY <1>4, <2>1, <2>2 DEF S!WorkerStop, NodeInv
  <2>4. mapped' = FALSE
    <3>1. CASE loaded
      BY <1>4, <2>2, <3>1 DEF S!WorkerStop
    <3>2. CASE ~loaded
      BY <1>4, <3>2 DEF S!WorkerStop, NodeInv
    <3> QED
      BY <3>1, <3>2
  <2> QED
    BY <2>1, <2>3, <2>4 DEF NodeInv
<1>5. CASE UNCHANGED libVars
  BY <1>5 DEF libVars, NodeInv
<1> QED
  BY <1>1, <1>2, <1>3, <1>4, <1>5, LibCases


\* A call that moves on is counted when it is acquired and until it is released.
LEMMA InFlightMoves ==
    ASSUME CallersInv, NEW c \in LibCall, NEW p \in LibPc, where' = [where EXCEPT ![c] = p]
    PROVE  /\ p \in Busy /\ where[c] \notin Busy => Cardinality(InFlight') = Cardinality(InFlight) + 1
           /\ p \notin Busy /\ where[c] \in Busy => Cardinality(InFlight') = Cardinality(InFlight) - 1
           /\ (p \in Busy <=> where[c] \in Busy) => Cardinality(InFlight') = Cardinality(InFlight)
<1>1. where'[c] = p /\ \A d \in LibCall : d # c => where'[d] = where[d]
  BY DEF CallersInv
<1>2. IsFiniteSet(InFlight)
  BY PartsAssumption, FS_Subset DEF InFlight
<1>3. Cardinality(InFlight) \in Nat
  BY <1>2, FS_CardinalityType
<1>4. CASE p \in Busy /\ where[c] \notin Busy
  <2>1. InFlight' = InFlight \cup {c} /\ c \notin InFlight
    BY <1>1, <1>4 DEF InFlight
  <2>2. Cardinality(InFlight \cup {c}) = Cardinality(InFlight) + 1
    BY <1>2, <2>1, FS_AddElement
  <2> QED
    BY <1>3, <1>4, <2>1, <2>2
<1>5. CASE p \notin Busy /\ where[c] \in Busy
  <2>1. InFlight' = InFlight \ {c} /\ c \in InFlight
    BY <1>1, <1>5 DEF InFlight
  <2>2. Cardinality(InFlight \ {c}) = Cardinality(InFlight) - 1
    BY <1>2, <2>1, FS_RemoveElement
  <2> QED
    BY <1>3, <1>5, <2>1, <2>2
<1>6. CASE (p \in Busy) <=> (where[c] \in Busy)
  <2>1. InFlight' = InFlight
    BY <1>1, <1>6 DEF InFlight
  <2> QED
    BY <1>3, <1>6, <2>1
<1> QED
  BY <1>4, <1>5, <1>6

\* While a call is in flight the node stays and so does its image.
LEMMA NextCallers ==
    ASSUME NodeInv, CallersInv, [S!Next]_libVars PROVE CallersInv'
<1> USE DEF S!node, S!Goto
<1>0. Cardinality(InFlight) \in Nat /\ listed \in BOOLEAN /\ closed \in BOOLEAN
  <2>1. IsFiniteSet(InFlight)
    BY PartsAssumption, FS_Subset DEF InFlight
  <2> QED
    BY <2>1, FS_CardinalityType DEF NodeInv
<1>1. ASSUME NEW c \in LibCall, S!Acquire(c) PROVE CallersInv'
  <2>1. /\ where' = [where EXCEPT ![c] = "acquired"] /\ where[c] = "idle"
        /\ UNCHANGED <<sha, loaded, init_ok, closed>> /\ listed' /\ ~closed
        /\ busy' = busy + 1 /\ (listed => image' = image)
    BY <1>1 DEF S!Acquire
  <2>2. busy' = Cardinality(InFlight')
    <3>1. "acquired" \in LibPc /\ "acquired" \in Busy /\ "idle" \notin Busy
      BY DEF LibPc, Busy
    <3>2. Cardinality(InFlight') = Cardinality(InFlight) + 1
      BY <2>1, <3>1, InFlightMoves
    <3> QED
      BY <2>1, <3>2 DEF CallersInv
  <2>3. \A d \in LibCall : d # c => where'[d] = where[d]
    BY <2>1 DEF CallersInv
  <2>4. where' \in [LibCall -> LibPc] /\ where'[c] = "acquired"
    BY <2>1 DEF CallersInv, LibPc
  <2> QED
    BY <2>1, <2>2, <2>3, <2>4 DEF CallersInv, Busy
<1>2. ASSUME NEW c \in LibCall, S!Compare(c) \/ S!Lock(c) PROVE CallersInv'
  <2>1. PICK p \in {"lock", "release", "load"} :
          /\ where' = [where EXCEPT ![c] = p]
          /\ p \in {"lock", "load"} => image = sha[c]
    BY <1>2 DEF S!Compare, S!Lock, S!SameImage, CallersInv
  <2>2. where[c] \in {"acquired", "lock"} /\ UNCHANGED <<sha, S!node, busy, closed>>
    BY <1>2 DEF S!Compare, S!Lock
  <2>3. busy' = Cardinality(InFlight')
    <3>1. \A l \in {"acquired", "lock", "load", "invoke", "release"} : l \in LibPc /\ l \in Busy
      BY DEF LibPc, Busy
    <3>2. Cardinality(InFlight') = Cardinality(InFlight)
      BY <2>1, <2>2, <3>1, InFlightMoves
    <3> QED
      BY <2>1, <2>2, <3>2 DEF CallersInv
  <2>4. where' \in [LibCall -> LibPc]
    BY <2>1 DEF CallersInv, LibPc
  <2> QED
    BY <2>1, <2>2, <2>3, <2>4 DEF CallersInv, Busy
<1>3. ASSUME NEW c \in LibCall, S!Load(c) PROVE CallersInv'
  <2>1. /\ where[c] = "load" /\ listed /\ ~closed /\ image = sha[c]
        /\ UNCHANGED <<sha, busy, closed, listed, image>>
    BY <1>3 DEF S!Load, CallersInv, Busy
  <2>2. PICK p \in {"invoke", "release"} :
          /\ where' = [where EXCEPT ![c] = p]
          /\ p = "invoke" => loaded' /\ init_ok'
    BY <1>3 DEF S!Load, S!NeverLoaded, NodeInv
  <2>3. busy' = Cardinality(InFlight')
    <3>1. \A l \in {"acquired", "lock", "load", "invoke", "release"} : l \in LibPc /\ l \in Busy
      BY DEF LibPc, Busy
    <3>2. Cardinality(InFlight') = Cardinality(InFlight)
      BY <2>1, <2>2, <3>1, InFlightMoves
    <3> QED
      BY <2>1, <2>2, <3>2 DEF CallersInv
  <2>4. where' \in [LibCall -> LibPc]
    BY <2>2 DEF CallersInv, LibPc
  <2>5. (loaded => loaded') /\ (init_ok => init_ok')
    BY <1>3 DEF S!Load, NodeInv
  <2> QED
    BY <2>1, <2>2, <2>3, <2>4, <2>5 DEF CallersInv, Busy
<1>4. ASSUME NEW c \in LibCall, S!Invoke(c) PROVE CallersInv'
  <2>1. /\ where' = [where EXCEPT ![c] = "release"] /\ where[c] = "invoke"
        /\ UNCHANGED <<sha, S!node, busy, closed>>
    BY <1>4 DEF S!Invoke
  <2>2. busy' = Cardinality(InFlight')
    <3>1. "release" \in LibPc /\ "release" \in Busy /\ "invoke" \in Busy
      BY DEF LibPc, Busy
    <3>2. Cardinality(InFlight') = Cardinality(InFlight)
      BY <2>1, <3>1, InFlightMoves
    <3> QED
      BY <2>1, <3>2 DEF CallersInv
  <2> QED
    BY <2>1, <2>2 DEF CallersInv, Busy, LibPc
<1>5. ASSUME NEW c \in LibCall, S!Release(c) PROVE CallersInv'
  <2>1. /\ where' = [where EXCEPT ![c] = "done"] /\ where[c] = "release"
        /\ UNCHANGED <<sha, S!node, closed>> /\ busy' = busy - 1
    BY <1>5 DEF S!Release
  <2>2. busy' = Cardinality(InFlight')
    <3>1. "done" \in LibPc /\ "done" \notin Busy /\ "release" \in Busy
      BY DEF LibPc, Busy
    <3>2. Cardinality(InFlight') = Cardinality(InFlight) - 1
      BY <2>1, <3>1, InFlightMoves
    <3> QED
      BY <2>1, <3>2 DEF CallersInv
  <2> QED
    BY <2>1, <2>2 DEF CallersInv, Busy, LibPc
<1>6. CASE S!WorkerStop
  <2>1. UNCHANGED <<where, busy, sha, image>> /\ \A c \in LibCall : where[c] \in {"idle", "done"}
    BY <1>6 DEF S!WorkerStop
  <2> QED
    BY <2>1 DEF CallersInv, Busy, InFlight
<1>7. CASE UNCHANGED libVars
  BY <1>7 DEF libVars, CallersInv, InFlight
<1> QED
  BY <1>1, <1>2, <1>3, <1>4, <1>5, <1>6, <1>7, LibCases

\* Calls that race for the first load, or follow a failed one, or a replacement
\* of the package: init runs once, a call only runs in the initialized image of
\* its own content, and shutdown answers exactly one successful init.
THEOREM LibraryIsOnce == AllSpec => []LibraryOnce
<1>1. AllInit => NodeInv /\ CallersInv
  <2> SUFFICES ASSUME AllInit PROVE NodeInv /\ CallersInv
    OBVIOUS
  <2>1. NodeInv
    BY DEF AllInit, S!Init, NodeInv
  <2>2. InFlight = {} /\ where \in [LibCall -> LibPc]
    BY DEF AllInit, S!Init, InFlight, Busy, LibPc
  <2>3. CallersInv
    BY <2>2, FS_EmptySet DEF AllInit, S!Init, CallersInv, Busy
  <2> QED
    BY <2>1, <2>3
<1>2. NodeInv /\ CallersInv /\ [AllNext]_allVars => (NodeInv /\ CallersInv)'
  BY LibSteps, NextNode, NextCallers
<1>3. NodeInv /\ CallersInv => LibraryOnce
  <2> SUFFICES ASSUME NodeInv, CallersInv PROVE S!LibraryOnce
    BY DEF LibraryOnce
  <2>1. inits <= 1 /\ shuts <= 1 /\ (closed => shuts = IF init_ok THEN 1 ELSE 0)
    BY DEF NodeInv
  <2>2. \A c \in LibCall : where[c] = "invoke" => mapped /\ init_ok /\ ~failed /\ image = sha[c]
    BY DEF NodeInv, CallersInv, Busy
  <2>3. closed => ~mapped
    BY DEF NodeInv
  <2>4. closed => busy = 0
    <3>1. closed => InFlight = {}
      BY DEF CallersInv, InFlight
    <3> QED
      BY <3>1, FS_EmptySet DEF CallersInv
  <2> QED
    BY <2>1, <2>2, <2>3, <2>4 DEF S!LibraryOnce
<1> QED
  BY <1>1, <1>2, <1>3, PTL DEF AllSpec


(***************************************************************************)
(* Error texts (module Diagnostics).                                       *)
(***************************************************************************)

\* A text about c, or none.
About(text, c) == text \in {None, T!Blank} \/ (text \in T!Text /\ text.about = c)

\* Whatever the map of a thread, the shared buffer or a result holds is about
\* the context it is held for.
AboutInv ==
    /\ \A t \in Thread, c \in Context : About(tls[t][c], c)
    /\ \A c \in Context : About(err_buf[c], c) /\ err_buf[c] # None
    /\ \A t \in Thread : About(report[t], ctx[t])

\* From the failure to the result the failed invocation's text is in the slot of
\* its context, whatever other threads report: nothing else touches that map.
OwnInv ==
    \A t \in Thread :
        /\ pc[t] \in {"idle", "run"} => own[t] = None
        /\ own[t] # None => own[t] # T!Blank
        /\ pc[t] = "failed" /\ own[t] # None => tls[t][ctx[t]] = own[t]
        /\ pc[t] # "done" => report[t] = None
        /\ own[t] # None /\ report[t] # None => report[t] = own[t]

TextsInv ==
    /\ tls \in [Thread -> [Context -> T!Text \cup {T!Blank, None}]]
    /\ err_buf \in [Context -> T!Text \cup {T!Blank}]
    /\ ctx \in [Thread -> Context]
    /\ pc \in [Thread -> {"idle", "run", "failed", "done"}]
    /\ call \in [Thread -> 0..MaxCalls]
    /\ own \in [Thread -> T!Text \cup {None}]
    /\ report \in [Thread -> T!Text \cup {T!Blank, None}]
    /\ \A t \in Thread : pc[t] # "idle" => call[t] # 0
    /\ AboutInv /\ OwnInv

\* The empty text is no described error, and neither is the absence of a text.
LEMMA TextsDiffer == None # T!Blank /\ None \notin T!Text /\ T!Blank \notin T!Text
<1>1. None # T!Blank /\ None \notin T!Text
  BY PartsAssumption
<1>2. ASSUME NEW x \in T!Text PROVE x # T!Blank
  <2>1. x = [by |-> x.by, call |-> x.call, about |-> x.about]
    BY DEF T!Text
  <2>2. DOMAIN x = {"by", "call", "about"}
    BY <2>1
  <2>3. DOMAIN T!Blank = {}
    BY DEF T!Blank
  <2> QED
    BY <2>2, <2>3
<1> QED
  BY <1>1, <1>2

\* The error texts move by their own steps only.
LEMMA TextSteps ==
    ASSUME [AllNext]_allVars
    PROVE  \/ \E t \in Thread : \/ T!Begin(t) \/ T!FailWithText(t) \/ T!FailBare(t)
                                \/ T!Succeed(t) \/ T!Report(t)
                                \/ \E c \in Context : T!LastError(t, c)
           \/ UNCHANGED textVars
BY DEF AllNext, allVars, T!Next

\* Storing a text in a slot replaces that one and may drop another; no other
\* thread's map is touched.
LEMMA StoreEffect ==
    ASSUME tls \in [Thread -> [Context -> T!Text \cup {T!Blank, None}]],
           NEW t \in Thread, NEW c \in Context, NEW text \in T!Text \cup {T!Blank, None},
           T!Store(t, c, text)
    PROVE  /\ tls' \in [Thread -> [Context -> T!Text \cup {T!Blank, None}]]
           /\ tls'[t][c] = text
           /\ \A k \in Context : k # c => tls'[t][k] \in {tls[t][k], None}
           /\ \A u \in Thread : u # t => tls'[u] = tls[u]
<1> DEFINE slots == [k \in Context |-> IF k = c THEN text
                                       ELSE IF k \in T!Victim(t, c) THEN None ELSE tls[t][k]]
<1>1. tls' = [tls EXCEPT ![t] = slots]
  BY DEF T!Store
<1>2. tls[t] \in [Context -> T!Text \cup {T!Blank, None}]
  OBVIOUS
<1>3. slots \in [Context -> T!Text \cup {T!Blank, None}]
  BY <1>2
<1>4. slots[c] = text /\ \A k \in Context : k # c => slots[k] \in {tls[t][k], None}
  OBVIOUS
<1> HIDE DEF slots
<1> QED
  BY <1>1, <1>3, <1>4

\* The text a thread is given for a context is about that context.
LEMMA TextForAbout ==
    ASSUME TextsInv, NEW t \in Thread, NEW c \in Context
    PROVE  /\ T!TextFor(t, c) \in T!Text \cup {T!Blank}
           /\ About(T!TextFor(t, c), c)
BY TextsDiffer DEF TextsInv, AboutInv, T!TextFor

\* A thread that stores a text about c keeps every slot about its context.
LEMMA StoreAbout ==
    ASSUME TextsInv, NEW t \in Thread, NEW c \in Context, NEW text \in T!Text \cup {T!Blank},
           T!Store(t, c, text), About(text, c)
    PROVE  /\ tls' \in [Thread -> [Context -> T!Text \cup {T!Blank, None}]]
           /\ \A u \in Thread, k \in Context : About(tls'[u][k], k)
<1>1. /\ tls' \in [Thread -> [Context -> T!Text \cup {T!Blank, None}]]
      /\ tls'[t][c] = text
      /\ \A k \in Context : k # c => tls'[t][k] \in {tls[t][k], None}
      /\ \A u \in Thread : u # t => tls'[u] = tls[u]
  BY StoreEffect DEF TextsInv
<1>2. ASSUME NEW u \in Thread, NEW k \in Context PROVE About(tls'[u][k], k)
  <2>1. About(tls[u][k], k)
    BY DEF TextsInv, AboutInv
  <2>2. tls'[u][k] \in {tls[u][k], None} \/ (k = c /\ tls'[u][k] = text)
    BY <1>1
  <2>3. About(None, k)
    BY DEF About
  <2> QED
    BY <2>1, <2>2, <2>3
<1> QED
  BY <1>1, <1>2


\* Every step keeps every text with its context, and a failure with its text.
LEMMA NextTexts == ASSUME TextsInv, [AllNext]_allVars PROVE TextsInv'
<1>0. MaxCalls \in Nat
  BY PartsAssumption
<1>1. ASSUME NEW t \in Thread, T!Begin(t) PROVE TextsInv'
  <2>1. PICK c \in Context : ctx' = [ctx EXCEPT ![t] = c] /\ T!SetErr(t, c, T!Blank)
    BY <1>1 DEF T!Begin
  <2>2. /\ T!Store(t, c, T!Blank) /\ err_buf' = [err_buf EXCEPT ![c] = T!Blank]
        /\ About(T!Blank, c)
    BY <2>1 DEF T!SetErr, About
  <2>3. /\ tls' \in [Thread -> [Context -> T!Text \cup {T!Blank, None}]]
        /\ \A u \in Thread, k \in Context : About(tls'[u][k], k)
    BY <2>2, StoreAbout
  <2>4. \A u \in Thread : u # t => tls'[u] = tls[u]
    BY <2>2, StoreEffect DEF TextsInv
  <2>5. /\ call' = [call EXCEPT ![t] = @ + 1] /\ own' = [own EXCEPT ![t] = None]
        /\ report' = [report EXCEPT ![t] = None] /\ pc' = [pc EXCEPT ![t] = "run"]
        /\ call[t] < MaxCalls /\ call[t] \in 0..MaxCalls
    BY <1>1 DEF T!Begin, TextsInv
  <2>6. /\ call' \in [Thread -> 0..MaxCalls]
        /\ \A u \in Thread : pc'[u] # "idle" => call'[u] # 0
    BY <1>0, <2>5 DEF TextsInv
  <2>7. /\ err_buf' \in [Context -> T!Text \cup {T!Blank}] /\ ctx' \in [Thread -> Context]
        /\ own' \in [Thread -> T!Text \cup {None}] /\ pc' \in [Thread -> {"idle", "run", "failed", "done"}]
        /\ report' \in [Thread -> T!Text \cup {T!Blank, None}]
    BY <2>1, <2>2, <2>5 DEF TextsInv
  <2>8. AboutInv'
    <3>1. \A k \in Context : About(err_buf'[k], k) /\ err_buf'[k] # None
      BY <2>2, TextsDiffer DEF TextsInv, AboutInv
    <3>2. ASSUME NEW u \in Thread PROVE About(report'[u], ctx'[u])
      BY <2>1, <2>5 DEF TextsInv, AboutInv, About
    <3> QED
      BY <2>3, <3>1, <3>2 DEF AboutInv
  <2>9. OwnInv'
    BY <2>1, <2>4, <2>5 DEF TextsInv, OwnInv
  <2> QED
    BY <2>3, <2>6, <2>7, <2>8, <2>9 DEF TextsInv
<1>2. ASSUME NEW t \in Thread, T!FailWithText(t) PROVE TextsInv'
  <2> DEFINE c == ctx[t]
             text == [by |-> t, call |-> call[t], about |-> c]
  <2>1. /\ pc[t] = "run" /\ UNCHANGED <<ctx, call, report>>
        /\ T!SetErr(t, c, text) /\ own' = [own EXCEPT ![t] = text]
        /\ pc' = [pc EXCEPT ![t] = "failed"]
    BY <1>2 DEF T!FailWithText, T!Message
  <2>2. c \in Context /\ text \in T!Text /\ text.about = c
    BY <1>0, <2>1 DEF TextsInv, T!Text
  <2>3. text # None /\ text # T!Blank /\ About(text, c)
    BY <2>2, TextsDiffer DEF About
  <2> HIDE DEF text, c
  <2>4. T!Store(t, c, text) /\ err_buf' = [err_buf EXCEPT ![c] = text]
    BY <2>1 DEF T!SetErr
  <2>5. /\ tls' \in [Thread -> [Context -> T!Text \cup {T!Blank, None}]]
        /\ \A u \in Thread, k \in Context : About(tls'[u][k], k)
    BY <2>2, <2>3, <2>4, StoreAbout
  <2>6. tls'[t][c] = text /\ \A u \in Thread : u # t => tls'[u] = tls[u]
    BY <2>2, <2>4, StoreEffect DEF TextsInv
  <2>7. /\ err_buf' \in [Context -> T!Text \cup {T!Blank}]
        /\ own' \in [Thread -> T!Text \cup {None}] /\ pc' \in [Thread -> {"idle", "run", "failed", "done"}]
        /\ \A u \in Thread : pc'[u] # "idle" => call'[u] # 0
    BY <2>1, <2>2, <2>4 DEF TextsInv
  <2>8. AboutInv'
    <3>1. \A k \in Context : About(err_buf'[k], k) /\ err_buf'[k] # None
      BY <2>2, <2>3, <2>4 DEF TextsInv, AboutInv
    <3> QED
      BY <2>1, <2>5, <3>1 DEF TextsInv, AboutInv
  <2>9. OwnInv'
    BY <2>1, <2>3, <2>6 DEF TextsInv, OwnInv, c
  <2> QED
    BY <2>1, <2>5, <2>7, <2>8, <2>9 DEF TextsInv
<1>3. ASSUME NEW t \in Thread, T!FailBare(t) \/ T!Succeed(t) PROVE TextsInv'
  <2>1. PICK p \in {"failed", "done"} :
          /\ pc[t] = "run" /\ pc' = [pc EXCEPT ![t] = p]
          /\ UNCHANGED <<tls, recent, err_buf, ctx, call, own, report>>
    BY <1>3 DEF T!FailBare, T!Succeed
  <2>2. AboutInv'
    BY <2>1 DEF TextsInv, AboutInv
  <2>3. OwnInv'
    BY <2>1 DEF TextsInv, OwnInv
  <2> QED
    BY <2>1, <2>2, <2>3 DEF TextsInv
<1>4. ASSUME NEW t \in Thread, T!Report(t) PROVE TextsInv'
  <2> DEFINE c == ctx[t]
             text == T!TextFor(t, c)
  <2>1. /\ pc[t] = "failed" /\ report' = [report EXCEPT ![t] = text] /\ T!Store(t, c, text)
        /\ pc' = [pc EXCEPT ![t] = "done"] /\ UNCHANGED <<err_buf, ctx, call, own>>
    BY <1>4 DEF T!Report
  <2>2. c \in Context
    BY DEF TextsInv
  <2>3. text \in T!Text \cup {T!Blank} /\ About(text, c)
    BY <2>2, TextForAbout
  <2>4. own[t] # None => text = own[t]
    BY <2>1, <2>2 DEF TextsInv, OwnInv, T!TextFor
  <2> HIDE DEF text, c
  <2>5. /\ tls' \in [Thread -> [Context -> T!Text \cup {T!Blank, None}]]
        /\ \A u \in Thread, k \in Context : About(tls'[u][k], k)
    BY <2>1, <2>2, <2>3, StoreAbout
  <2>6. \A u \in Thread : u # t => tls'[u] = tls[u]
    BY <2>1, <2>2, <2>3, StoreEffect DEF TextsInv
  <2>7. /\ report' \in [Thread -> T!Text \cup {T!Blank, None}]
        /\ pc' \in [Thread -> {"idle", "run", "failed", "done"}]
        /\ \A u \in Thread : pc'[u] # "idle" => call'[u] # 0
    BY <2>1, <2>3 DEF TextsInv
  <2>8. AboutInv'
    <3>1. \A u \in Thread : About(report'[u], ctx'[u])
      BY <2>1, <2>3 DEF TextsInv, AboutInv, c
    <3> QED
      BY <2>1, <2>5, <3>1 DEF TextsInv, AboutInv
  <2>9. OwnInv'
    BY <2>1, <2>4, <2>6 DEF TextsInv, OwnInv
  <2> QED
    BY <2>1, <2>5, <2>7, <2>8, <2>9 DEF TextsInv
<1>5. ASSUME NEW t \in Thread, NEW c \in Context, T!LastError(t, c) PROVE TextsInv'
  <2>1. /\ pc[t] \in {"idle", "done"} /\ T!Store(t, c, T!TextFor(t, c))
        /\ UNCHANGED <<err_buf, pc, ctx, call, own, report>>
    BY <1>5 DEF T!LastError
  <2>2. T!TextFor(t, c) \in T!Text \cup {T!Blank} /\ About(T!TextFor(t, c), c)
    BY TextForAbout
  <2>3. /\ tls' \in [Thread -> [Context -> T!Text \cup {T!Blank, None}]]
        /\ \A u \in Thread, k \in Context : About(tls'[u][k], k)
    BY <2>1, <2>2, StoreAbout
  <2>4. \A u \in Thread : u # t => tls'[u] = tls[u]
    BY <2>1, <2>2, StoreEffect DEF TextsInv
  <2>5. AboutInv'
    BY <2>1, <2>3 DEF TextsInv, AboutInv
  <2>6. OwnInv'
    BY <2>1, <2>4 DEF TextsInv, OwnInv
  <2> QED
    BY <2>1, <2>3, <2>5, <2>6 DEF TextsInv
<1>6. CASE UNCHANGED textVars
  BY <1>6 DEF textVars, TextsInv, AboutInv, OwnInv
<1> QED
  BY <1>1, <1>2, <1>3, <1>4, <1>5, <1>6, TextSteps

\* astools_last_error is specific to the context, and a result whose invocation
\* described its failure carries that description, whatever other threads report
\* meanwhile and however many contexts a thread has used.
THEOREM TextsAreOwn == AllSpec => []ErrorTexts
<1>1. AllInit => TextsInv
  <2> SUFFICES ASSUME AllInit PROVE TextsInv
    OBVIOUS
  <2>1. T!Init /\ MaxCalls \in Nat
    BY PartsAssumption DEF AllInit
  <2>2. AboutInv /\ OwnInv
    BY <2>1, TextsDiffer DEF T!Init, AboutInv, OwnInv, About
  <2> QED
    BY <2>1, <2>2 DEF T!Init, TextsInv
<1>2. TextsInv /\ [AllNext]_allVars => TextsInv'
  BY NextTexts
<1>3. TextsInv => ErrorTexts
  <2> SUFFICES ASSUME TextsInv PROVE T!ContextSpecific /\ T!OwnDescription
    BY DEF ErrorTexts
  <2>1. ASSUME NEW c \in Context, NEW t \in Thread, T!TextFor(t, c) # T!Blank
        PROVE  T!TextFor(t, c).about = c
    BY <2>1, TextForAbout, TextsDiffer DEF About
  <2>2. ASSUME NEW t \in Thread, report[t] \notin {T!Blank, None} PROVE report[t].about = ctx[t]
    BY <2>2 DEF TextsInv, AboutInv, About
  <2> QED
    BY <2>1, <2>2 DEF TextsInv, OwnInv, T!ContextSpecific, T!OwnDescription
<1> QED
  BY <1>1, <1>2, <1>3, PTL DEF AllSpec


(***************************************************************************)
(* A program run for a standard tool (module Capture).                     *)
(***************************************************************************)

\* A stream that was read to its end or given up.
Complete(s) == s \in trunc \/ (taken[s] = made[s] /\ K!Writers = {})

\* Counters, the life of the child, and what the tool may rely on: a closed
\* stream is complete or marked, and stays so because nobody is left to write.
CaptureInv ==
    /\ made \in [Stream -> Nat] /\ taken \in [Stream -> Nat]
    /\ open \subseteq Stream /\ trunc \subseteq Stream
    /\ hung \in BOOLEAN /\ timed \in BOOLEAN
    /\ proc \in {"none", "forked", "running", "refused", "exited", "killed"}
    /\ hung => proc \notin {"none", "forked"}
    /\ kid \in {"none", "alive", "gone"} /\ (kid = "alive" => proc \notin {"none", "forked"})
    /\ cpc \in {"start", "exec", "loop", "reap", "done"}
    /\ cpc \in {"start", "exec"} => open = Stream
    /\ cpc = "start" => proc = "none"
    /\ cpc \in {"exec", "loop", "reap"} => proc # "none"
    /\ cpc # "done" => result = "none"
    /\ \A s \in Stream : taken[s] > OutCap => s \in trunc
    /\ \A s \in Stream \ open : cpc \in {"loop", "reap"} \/ result = "ok" => Complete(s)
    /\ cpc = "reap" \/ result = "ok" => open = {}
    /\ proc = "killed" => timed \/ result = "failed"
    /\ result = "ok" => cpc = "done" /\ proc \in K!Dead

\* A captured run moves by its own steps only.
LEMMA CaptureSteps ==
    ASSUME [AllNext]_allVars PROVE [K!Next]_captureVars
BY DEF AllNext, allVars

\* The steps of the program and of time.
LEMMA ProgramCapture ==
    ASSUME CaptureInv,
           K!Exec \/ K!Starts \/ K!Reads \/ K!Closes \/ K!Exits \/ K!Deadline
             \/ \E s \in Stream : K!Makes(s)
    PROVE  CaptureInv'
<1> USE DEF K!parent, K!child, K!Dead, K!Writers
<1>1. CASE K!Exec
  BY <1>1 DEF K!Exec, CaptureInv, Complete
<1>2. CASE K!Starts
  BY <1>2 DEF K!Starts, CaptureInv, Complete
<1>3. CASE K!Reads
  BY <1>3 DEF K!Reads, CaptureInv, Complete
<1>4. CASE K!Closes
  BY <1>4 DEF K!Closes, CaptureInv, Complete
<1>5. CASE K!Exits
  BY <1>5 DEF K!Exits, CaptureInv, Complete
<1>6. CASE K!Deadline
  BY <1>6 DEF K!Deadline, CaptureInv, Complete
<1>7. ASSUME NEW s \in Stream, K!Makes(s) PROVE CaptureInv'
  BY <1>7 DEF K!Makes, CaptureInv, Complete
<1> QED
  BY <1>1, <1>2, <1>3, <1>4, <1>5, <1>6, <1>7

\* The steps of the tool.
LEMMA ToolCapture ==
    ASSUME CaptureInv, K!Tool \/ K!CaptureFail PROVE CaptureInv'
<1> USE DEF K!parent, K!child, K!Dead, K!Writers, K!Kill
<1>0. PipeCap \in Nat /\ OutCap \in Nat
  BY PartsAssumption
<1>1. CASE K!Spawn
  BY <1>1 DEF K!Spawn, CaptureInv, Complete
<1>2. CASE K!ExecReported
  BY <1>2 DEF K!ExecReported, CaptureInv, Complete
<1>3. CASE K!ExecLate
  BY <1>3 DEF K!ExecLate, CaptureInv, Complete
<1>4. CASE K!LoopLate
  BY <1>4 DEF K!LoopLate, K!GiveUp, CaptureInv, Complete
<1>5. CASE K!LoopEnd
  BY <1>5 DEF K!LoopEnd, CaptureInv, Complete
<1>6. CASE K!Feed
  BY <1>6 DEF K!Feed, CaptureInv, Complete
<1>7. CASE K!ReapLate
  BY <1>7 DEF K!ReapLate, CaptureInv, Complete
<1>8. CASE K!Reaped
  BY <1>8 DEF K!Reaped, CaptureInv, Complete
<1>9. ASSUME NEW s \in Stream, K!ReadEnd(s) PROVE CaptureInv'
  BY <1>9 DEF K!ReadEnd, CaptureInv, Complete
<1>10. ASSUME NEW s \in Stream, NEW n \in 1..PipeCap, K!ReadSome(s, n) PROVE CaptureInv'
  BY <1>0, <1>10 DEF K!ReadSome, K!Overflows, CaptureInv, Complete
<1>11. CASE K!CaptureFail
  BY <1>11 DEF K!CaptureFail, CaptureInv, Complete
<1> QED
  BY <1>1, <1>2, <1>3, <1>4, <1>5, <1>6, <1>7, <1>8, <1>9, <1>10, <1>11 DEF K!Tool


\* A result without a truncation mark holds everything the program and its
\* descendants ever wrote, and the child has been reaped; a run that was cut
\* short by its deadline says so.
THEOREM CapturesAreExact == AllSpec => []CaptureExact
<1>1. AllInit => CaptureInv
  <2> SUFFICES ASSUME K!Init PROVE CaptureInv
    BY DEF AllInit
  <2>1. /\ made \in [Stream -> Nat] /\ taken \in [Stream -> Nat]
        /\ \A s \in Stream : ~(taken[s] > OutCap)
    BY PartsAssumption DEF K!Init
  <2> QED
    BY <2>1 DEF K!Init, CaptureInv
<1>2. CaptureInv /\ [AllNext]_allVars => CaptureInv'
  <2> SUFFICES ASSUME CaptureInv, [AllNext]_allVars PROVE CaptureInv'
    OBVIOUS
  <2>1. CASE UNCHANGED captureVars
    BY <2>1 DEF captureVars, CaptureInv, Complete, K!Writers, K!Dead
  <2>2. CASE K!Next
    BY <2>1, <2>2, ProgramCapture, ToolCapture DEF K!Next, K!vars, captureVars
  <2> QED
    BY <2>1, <2>2, CaptureSteps
<1>3. CaptureInv => CaptureExact
  BY PartsAssumption DEF CaptureInv, Complete, CaptureExact, K!CaptureExact, K!Dead
<1> QED
  BY <1>1, <1>2, <1>3, PTL DEF AllSpec


(***************************************************************************)
(* The log (module Log).                                                   *)
(***************************************************************************)

\* Every file holds some of the records accepted so far, in order, and none that
\* a newer file than it also holds.
OrderInv ==
    /\ files \in [L!Slot -> Seq(Int)] /\ written \in Nat /\ step \in Int /\ step <= MaxFiles
    /\ \A k \in L!Slot : /\ L!Ascending(L!Content(k))
                         /\ L!Records(k) \subseteq 1..written
    /\ \A j, k \in L!Slot : j < k => \A a \in L!Records(k), b \in L!Records(j) : a < b

\* The current file, when it holds anything, holds the newest record: rotation
\* moves it as a whole, and starts only when it holds something.
NewestInv ==
    /\ fp => step = -1 /\ files[0] # L!Gone /\ size = Len(files[0])
    /\ L!Records(0) # {} => written \in L!Records(0)
    /\ step >= 1 => L!Records(0) # {}
    /\ L!Held # {} => written \in L!Held
    /\ MaxFiles > 1 /\ written > 0 => L!Held # {}

\* As long as nothing fails the file that the next rename replaces has been moved
\* away, and so no record is missing between two others.
ConvexInv ==
    faults = 0 =>
        /\ \A a, b \in L!Held : a..b \subseteq L!Held
        /\ \A k \in L!Slot : k # 0 /\ step = k => L!Records(k) = {}

LogInv == OrderInv /\ NewestInv /\ ConvexInv /\ faults \in Nat

\* The current file is one of the slots.
LEMMA LogSlots ==
    /\ MaxFiles \in Nat /\ MaxFiles >= 1 /\ MaxSize \in Nat
    /\ 0 \in L!Slot /\ L!Slot \subseteq Nat
<1>1. MaxFiles \in Nat /\ MaxFiles >= 1 /\ MaxSize \in Nat
  BY PartsAssumption
<1> QED
  BY <1>1 DEF L!Slot

\* A record after all others keeps a file in order.
LEMMA AppendRecord ==
    ASSUME NEW s \in Seq(Int), NEW n \in Int, L!Ascending(s), \A i \in DOMAIN s : s[i] < n
    PROVE  /\ Append(s, n) \in Seq(Int) /\ L!Ascending(Append(s, n))
           /\ L!ToSet(Append(s, n)) = L!ToSet(s) \cup {n}
<1>1. /\ Append(s, n) \in Seq(Int) /\ Len(s) \in Nat /\ DOMAIN s = 1..Len(s)
      /\ DOMAIN Append(s, n) = 1..Len(s) + 1
      /\ \A i \in 1..Len(s) : Append(s, n)[i] = s[i]
      /\ Append(s, n)[Len(s) + 1] = n
  OBVIOUS
<1>2. L!Ascending(Append(s, n))
  BY <1>1 DEF L!Ascending
<1>3. L!ToSet(Append(s, n)) = L!ToSet(s) \cup {n}
  BY <1>1 DEF L!ToSet
<1> QED
  BY <1>1, <1>2, <1>3

\* The log moves by its own steps only.
LEMMA LogSteps ==
    ASSUME [AllNext]_allVars
    PROVE  \/ L!LogOpen \/ L!LogClose \/ L!WriteRecord \/ L!RotateStep \/ L!Reopen \/ L!Killed
           \/ UNCHANGED logVars
BY DEF AllNext, allVars, L!Next


\* A file's content is a sequence of numbers, whether it exists or not.
LEMMA Contents == ASSUME OrderInv, NEW k \in L!Slot PROVE L!Content(k) \in Seq(Int)
BY DEF OrderInv, L!Content

\* Steps that keep what is in every file keep what the trail is.
LEMMA SameContents ==
    ASSUME \A k \in L!Slot : L!Content(k)' = L!Content(k)
    PROVE  /\ \A k \in L!Slot : L!Records(k)' = L!Records(k)
           /\ L!Held' = L!Held
           /\ (\A k \in L!Slot : L!Ascending(L!Content(k))) =>
                 \A k \in L!Slot : L!Ascending(L!Content(k)')
BY DEF L!Records, L!Held

\* Opening the current file, closing it, the start of a rotation, its end without
\* a file, and a crash change no record.
LEMMA QuietLog ==
    ASSUME LogInv, L!LogOpen \/ L!LogClose \/ L!Killed \/ UNCHANGED logVars
                     \/ (L!WriteRecord /\ L!MustRotate) \/ (L!Reopen /\ fp' = FALSE)
    PROVE  LogInv'
<1>1. \A k \in L!Slot : L!Content(k)' = L!Content(k)
  <2>1. CASE L!LogOpen
    <3>1. files' = [files EXCEPT ![0] = L!Content(0)]
      BY <2>1 DEF L!LogOpen, L!Opened
    <3>2. L!Content(0) # L!Gone
      BY DEF L!Content, L!Gone
    <3> QED
      BY <3>1, <3>2 DEF L!Content, LogInv, OrderInv
  <2>2. CASE files' = files
    BY <2>2 DEF L!Content
  <2> QED
    BY <2>1, <2>2 DEF L!LogClose, L!Killed, logVars, L!WriteRecord, L!Reopen
<1>2. files' \in [L!Slot -> Seq(Int)]
  <2>1. L!Content(0) \in Seq(Int)
    <3>1. 0 \in L!Slot
      BY LogSlots
    <3> QED
      BY <3>1, Contents DEF LogInv
  <2> QED
    BY <2>1 DEF L!LogOpen, L!LogClose, L!Killed, logVars, L!WriteRecord, L!Reopen, L!Opened,
            LogInv, OrderInv
<1>3. /\ written' = written /\ step' \in {step, -1, MaxFiles} /\ MaxFiles \in Int
      /\ faults' \in Nat /\ (faults' = 0 => faults = 0)
  BY LogSlots DEF L!LogOpen, L!LogClose, L!Killed, logVars, L!WriteRecord, L!Reopen, LogInv
<1>4. /\ \A k \in L!Slot : L!Records(k)' = L!Records(k)
      /\ L!Held' = L!Held
      /\ \A k \in L!Slot : L!Ascending(L!Content(k)')
  BY <1>1, SameContents DEF LogInv, OrderInv
<1>5. OrderInv'
  <2>1. step' \in Int /\ step' <= MaxFiles /\ written' \in Nat
    BY <1>3, LogSlots DEF LogInv, OrderInv
  <2>2. \A k \in L!Slot : L!Ascending(L!Content(k))' /\ L!Records(k)' \subseteq 1..written'
    BY <1>3, <1>4 DEF LogInv, OrderInv, L!Ascending
  <2>3. \A j, k \in L!Slot : j < k => \A a \in L!Records(k)', b \in L!Records(j)' : a < b
    BY <1>4 DEF LogInv, OrderInv
  <2> QED
    BY <1>2, <2>1, <2>2, <2>3 DEF OrderInv
<1>6. fp' => step' = -1 /\ files'[0] # L!Gone /\ size' = Len(files'[0])
  <2>1. CASE L!LogOpen
    <3>1. files' = [files EXCEPT ![0] = L!Content(0)] /\ step' = -1 /\ size' = Len(L!Content(0))
      BY <2>1 DEF L!LogOpen, L!Opened
    <3>2. files'[0] = L!Content(0)
      BY <3>1, LogSlots DEF LogInv, OrderInv
    <3>3. L!Content(0) # L!Gone
      BY DEF L!Content, L!Gone
    <3> QED
      BY <3>1, <3>2, <3>3
  <2>2. CASE UNCHANGED logVars
    BY <2>2 DEF logVars, LogInv, NewestInv
  <2> QED
    BY <2>1, <2>2 DEF L!LogClose, L!Killed, L!WriteRecord, L!Reopen
<1>7. step' >= 1 => L!Records(0) # {}
  <2>1. CASE L!WriteRecord /\ L!MustRotate
    <3>1. files[0] # L!Gone /\ size = Len(files[0]) /\ size >= 1 /\ files[0] \in Seq(Int)
      BY <2>1, LogSlots DEF L!WriteRecord, L!MustRotate, LogInv, NewestInv, OrderInv
    <3>2. L!Content(0) = files[0]
      BY <3>1 DEF L!Content
    <3>3. files[0][1] \in L!ToSet(files[0])
      BY <3>1 DEF L!ToSet
    <3> QED
      BY <3>2, <3>3 DEF L!Records
  <2>2. CASE ~(L!WriteRecord /\ L!MustRotate)
    <3>1. step' = step \/ step' = -1
      BY <2>2 DEF L!LogOpen, L!LogClose, L!Killed, logVars, L!Reopen
    <3> QED
      BY <3>1 DEF LogInv, NewestInv
  <2> QED
    BY <2>1, <2>2
<1>8. NewestInv'
  BY <1>3, <1>4, <1>6, <1>7, LogSlots DEF LogInv, NewestInv
<1>9. ConvexInv'
  <2> SUFFICES ASSUME faults' = 0
               PROVE  /\ \A a, b \in L!Held' : a..b \subseteq L!Held'
                      /\ \A k \in L!Slot : k # 0 /\ step' = k => L!Records(k)' = {}
    BY DEF ConvexInv
  <2>1. \A k \in L!Slot : step' = k => step = k
    BY <1>3 DEF L!Slot
  <2> QED
    BY <1>3, <1>4, <2>1 DEF LogInv, ConvexInv
<1> QED
  BY <1>3, <1>5, <1>8, <1>9 DEF LogInv


\* A record goes to the end of the current file.
LEMMA AppendLog ==
    ASSUME LogInv, files' = [files EXCEPT ![0] = Append(L!Content(0), written + 1)],
           written' = written + 1, step' = -1, fp' = TRUE, size' = Len(L!Content(0)) + 1,
           faults' = faults
    PROVE  LogInv'
<1> DEFINE was == L!Content(0)
           now == Append(was, written + 1)
<1>0. /\ 0 \in L!Slot /\ written \in Nat /\ faults \in Nat /\ files \in [L!Slot -> Seq(Int)]
      /\ MaxFiles \in Int /\ MaxFiles >= 1 /\ written + 1 \in Int
  BY LogSlots DEF LogInv, OrderInv
<1>1. /\ was \in Seq(Int) /\ L!Ascending(was)
      /\ \A i \in DOMAIN was : was[i] < written + 1
  <2>1. was \in Seq(Int)
    BY <1>0, Contents DEF LogInv
  <2>2. L!Ascending(was) /\ L!Records(0) \subseteq 1..written
    BY <1>0 DEF LogInv, OrderInv
  <2>3. \A i \in DOMAIN was : was[i] \in L!Records(0)
    BY DEF L!Records, L!ToSet
  <2> QED
    BY <1>0, <2>1, <2>2, <2>3
<1>2. /\ now \in Seq(Int) /\ L!Ascending(now)
      /\ L!ToSet(now) = L!Records(0) \cup {written + 1}
  <2>1. L!ToSet(now) = L!ToSet(was) \cup {written + 1}
    BY <1>0, <1>1, AppendRecord
  <2> QED
    BY <1>0, <1>1, <2>1, AppendRecord DEF L!Records
<1>3. now # L!Gone
  <2>1. written + 1 \in L!ToSet(now)
    BY <1>2
  <2>2. -1 # written + 1 /\ L!ToSet(<<-1>>) = {-1}
    BY <1>0 DEF L!ToSet
  <2> QED
    BY <2>1, <2>2 DEF L!Gone
<1> HIDE DEF now
<1>4. /\ files' \in [L!Slot -> Seq(Int)] /\ files'[0] = now
      /\ \A k \in L!Slot \ {0} : files'[k] = files[k]
  BY <1>0, <1>2 DEF now
<1>5. /\ L!Content(0)' = now
      /\ \A k \in L!Slot \ {0} : L!Content(k)' = L!Content(k)
  BY <1>3, <1>4 DEF L!Content
<1>6. /\ L!Records(0)' = L!Records(0) \cup {written + 1}
      /\ \A k \in L!Slot \ {0} : L!Records(k)' = L!Records(k)
  BY <1>2, <1>5 DEF L!Records
<1>7. L!Held' = L!Held \cup {written + 1}
  BY <1>0, <1>6 DEF L!Held
<1>8. OrderInv'
  <2>1. ASSUME NEW k \in L!Slot
        PROVE  L!Ascending(L!Content(k))' /\ L!Records(k)' \subseteq 1..written'
    <3>1. L!Ascending(L!Content(k)) /\ L!Records(k) \subseteq 1..written
      BY DEF LogInv, OrderInv
    <3>2. CASE k = 0
      BY SMTT(40), <1>0, <1>2, <1>5, <1>6, <3>1, <3>2 DEF L!Ascending
    <3>3. CASE k # 0
      BY <1>0, <1>5, <1>6, <3>1, <3>3 DEF L!Ascending
    <3> QED
      BY <3>2, <3>3
  <2>2. ASSUME NEW j \in L!Slot, NEW k \in L!Slot, j < k,
               NEW a \in L!Records(k)', NEW b \in L!Records(j)'
        PROVE  a < b
    <3>1. k # 0 /\ a \in L!Records(k) /\ L!Records(k) \subseteq 1..written
      BY <1>6, <2>2, LogSlots DEF LogInv, OrderInv
    <3>2. b \in L!Records(j) \/ b = written + 1
      BY <1>6
    <3> QED
      BY <1>0, <2>2, <3>1, <3>2 DEF LogInv, OrderInv
  <2> QED
    BY <1>0, <1>4, <2>1, <2>2 DEF OrderInv
<1>9. NewestInv'
  BY <1>0, <1>1, <1>3, <1>4, <1>6, <1>7 DEF NewestInv, now
<1>10. ConvexInv'
  <2> SUFFICES ASSUME faults = 0, NEW a \in L!Held', NEW b \in L!Held', NEW n \in a..b
               PROVE  n \in L!Held'
    BY <1>0, LogSlots DEF ConvexInv
  <2>1. L!Held \subseteq 1..written
    BY DEF L!Held, LogInv, OrderInv
  <2>2. L!Held # {} => written \in L!Held
    BY DEF LogInv, NewestInv
  <2>3. \A c, d \in L!Held : c..d \subseteq L!Held
    BY DEF LogInv, ConvexInv
  <2>4. CASE n = written + 1
    BY <1>7, <2>4
  <2>5. CASE n # written + 1
    <3>1. a \in L!Held
      BY <1>0, <1>7, <2>1, <2>5
    <3>2. n \in a..written
      BY <1>0, <1>7, <2>1, <2>5, <3>1
    <3> QED
      BY <1>7, <2>2, <2>3, <3>1, <3>2
  <2> QED
    BY <2>4, <2>5
<1> QED
  BY <1>0, <1>8, <1>9, <1>10 DEF LogInv


\* Steps of a rotation: the oldest file goes, and every other moves up.
LEMMA RotateLog == ASSUME LogInv, L!RotateStep PROVE LogInv'
<1>0. /\ 0 \in L!Slot /\ written \in Nat /\ faults \in Nat /\ files \in [L!Slot -> Seq(Int)]
      /\ MaxFiles \in Int /\ MaxFiles >= 1 /\ step \in 1..MaxFiles
      /\ L!Slot = 0..MaxFiles - 1
  BY LogSlots DEF LogInv, OrderInv, L!RotateStep, L!Slot
<1>1. /\ step' = step - 1 /\ written' = written /\ ~fp /\ ~fp' /\ faults' \in Nat
      /\ (faults' = 0 => faults = 0)
  BY <1>0 DEF L!RotateStep, LogInv, NewestInv
<1>2. L!Records(0) # {} /\ written \in L!Records(0)
  BY <1>0 DEF LogInv, NewestInv
<1>3. CASE faults' # 0 /\ files' = files
  <2>1. /\ \A k \in L!Slot : L!Content(k)' = L!Content(k)
    BY <1>3 DEF L!Content
  <2>2. /\ \A k \in L!Slot : L!Records(k)' = L!Records(k)
        /\ L!Held' = L!Held
    BY <2>1, SameContents
  <2>3. OrderInv'
    BY <1>0, <1>1, <1>3, <2>1, <2>2 DEF LogInv, OrderInv, L!Ascending
  <2>4. NewestInv'
    BY <1>0, <1>1, <2>2 DEF LogInv, NewestInv
  <2>5. ConvexInv'
    BY <1>3 DEF ConvexInv
  <2> QED
    BY <1>1, <2>3, <2>4, <2>5 DEF LogInv
<1>4. CASE step = MaxFiles /\ files' = [files EXCEPT ![MaxFiles - 1] = L!Gone]
  <2> DEFINE z == MaxFiles - 1
  <2>1. z \in L!Slot /\ L!Content(z)' = <<>> /\ \A k \in L!Slot \ {z} : L!Content(k)' = L!Content(k)
    BY <1>0, <1>4 DEF L!Content
  <2>2. L!Records(z)' = {} /\ \A k \in L!Slot \ {z} : L!Records(k)' = L!Records(k)
    BY <2>1 DEF L!Records, L!ToSet
  <2>3. OrderInv'
    <3>1. files' \in [L!Slot -> Seq(Int)]
      BY <1>0, <1>4 DEF L!Gone
    <3>2. \A k \in L!Slot : L!Ascending(L!Content(k))' /\ L!Records(k)' \subseteq 1..written'
      BY <1>1, <2>1, <2>2 DEF LogInv, OrderInv, L!Ascending
    <3>3. \A j, k \in L!Slot : j < k => \A a \in L!Records(k)', b \in L!Records(j)' : a < b
      BY <2>2 DEF LogInv, OrderInv
    <3> QED
      BY <1>0, <1>1, <3>1, <3>2, <3>3 DEF OrderInv
  <2>4. L!Held' \subseteq L!Held
    BY <2>2 DEF L!Held
  <2>5. MaxFiles > 1 => z # 0 /\ written \in L!Held' /\ L!Records(0)' = L!Records(0)
    BY <1>0, <1>2, <2>2 DEF L!Held
  <2>6. MaxFiles = 1 => L!Held' = {} /\ L!Records(0)' = {}
    BY <1>0, <2>2 DEF L!Held
  <2>7. NewestInv'
    BY <1>0, <1>1, <1>2, <1>4, <2>5, <2>6 DEF NewestInv
  <2>8. ConvexInv'
    <3> SUFFICES ASSUME faults' = 0
                 PROVE  /\ \A a, b \in L!Held' : a..b \subseteq L!Held'
                        /\ \A k \in L!Slot : k # 0 /\ step' = k => L!Records(k)' = {}
      BY DEF ConvexInv
    <3>1. ASSUME NEW a \in L!Held', NEW b \in L!Held', NEW n \in a..b PROVE n \in L!Held'
      <4>1. n \in L!Held
        BY <1>1, <2>4, <3>1 DEF LogInv, ConvexInv
      <4>2. PICK k \in L!Slot : n \in L!Records(k)
        BY <4>1 DEF L!Held
      <4>3. CASE k # z
        BY <2>2, <4>2, <4>3 DEF L!Held
      <4>4. CASE k = z
        <5>1. PICK j \in L!Slot : a \in L!Records(j) /\ j # z
          BY <2>2 DEF L!Held
        <5>2. j < z
          BY <1>0, <5>1
        <5>3. n < a /\ a \in Int /\ n \in Int
          BY <2>1, <4>2, <4>4, <5>1, <5>2 DEF LogInv, OrderInv
        <5> QED
          BY <3>1, <5>3
      <4> QED
        BY <4>3, <4>4
    <3>2. \A k \in L!Slot : step' = k => k = z
      BY <1>0, <1>1, <1>4
    <3> QED
      BY <2>2, <3>1, <3>2
  <2> QED
    BY <1>1, <2>3, <2>7, <2>8 DEF LogInv
<1>5. CASE step < MaxFiles /\ files[step - 1] = L!Gone /\ files' = files
  <2>1. step \in L!Slot /\ step - 1 \in L!Slot /\ step - 1 # 0
    <3>1. step \in L!Slot /\ step - 1 \in L!Slot
      BY <1>0, <1>5
    <3>2. L!Records(step - 1) = {}
      BY <1>5 DEF L!Records, L!Content, L!ToSet
    <3> QED
      BY <1>2, <3>1, <3>2
  <2>2. \A k \in L!Slot : L!Content(k)' = L!Content(k)
    BY <1>5 DEF L!Content
  <2>3. /\ \A k \in L!Slot : L!Records(k)' = L!Records(k)
        /\ L!Held' = L!Held
    BY <2>2, SameContents
  <2>4. OrderInv'
    BY <1>0, <1>1, <1>5, <2>2, <2>3 DEF LogInv, OrderInv, L!Ascending
  <2>5. NewestInv'
    BY <1>0, <1>1, <2>3 DEF LogInv, NewestInv
  <2>6. ConvexInv'
    <3>1. \A k \in L!Slot : step' = k => L!Records(k)' = {}
      BY <1>0, <1>1, <1>5, <2>3 DEF L!Records, L!Content, L!ToSet
    <3> QED
      BY <1>1, <2>3, <3>1 DEF LogInv, ConvexInv
  <2> QED
    BY <1>1, <2>4, <2>5, <2>6 DEF LogInv
<1>6. CASE step < MaxFiles /\ files[step - 1] # L!Gone /\ files' = L!Moved(step)
  <2>0. PICK x \in L!Slot, y \in L!Slot : step = x /\ step - 1 = y
    BY <1>0, <1>6
  <2>1. /\ y # x /\ y < x /\ x # 0 /\ step' = y
        /\ \A k \in L!Slot : k < x /\ k # y => k < y
    BY <1>0, <1>1, <2>0
  <2>2. files' = [files EXCEPT ![x] = files[y], ![y] = L!Gone]
    BY <1>6, <2>0 DEF L!Moved
  <2>3. /\ files' \in [L!Slot -> Seq(Int)] /\ files'[x] = files[y] /\ files'[y] = L!Gone
        /\ \A k \in L!Slot \ {x, y} : files'[k] = files[k]
    BY SMTT(30), <1>0, <2>1, <2>2 DEF L!Gone
  <2>4. /\ L!Content(x)' = L!Content(y) /\ L!Content(y)' = <<>>
        /\ \A k \in L!Slot \ {x, y} : L!Content(k)' = L!Content(k)
    <3>1. ASSUME NEW k \in L!Slot, NEW j \in L!Slot, files'[k] = files[j]
          PROVE  L!Content(k)' = L!Content(j)
      BY <3>1 DEF L!Content
    <3>2. ASSUME NEW k \in L!Slot, files'[k] = L!Gone PROVE L!Content(k)' = <<>>
      BY <3>2 DEF L!Content
    <3> QED
      BY <2>1, <2>3, <3>1, <3>2
  <2>5. /\ L!Records(x)' = L!Records(y) /\ L!Records(y)' = {}
        /\ \A k \in L!Slot \ {x, y} : L!Records(k)' = L!Records(k)
    <3>1. /\ \A k \in L!Slot : L!Records(k)' = L!ToSet(L!Content(k)')
          /\ L!ToSet(<<>>) = {}
      BY DEF L!Records, L!ToSet
    <3> QED
      BY <2>1, <2>4, <3>1 DEF L!Records
  <2>6. OrderInv'
    <3>1. \A k \in L!Slot : L!Ascending(L!Content(k))' /\ L!Records(k)' \subseteq 1..written'
      <4>1. \A k \in L!Slot : L!Ascending(L!Content(k)) /\ L!Records(k) \subseteq 1..written
        BY DEF LogInv, OrderInv
      <4>2. ASSUME NEW k \in L!Slot \ {y}
            PROVE  L!Ascending(L!Content(k))' /\ L!Records(k)' \subseteq 1..written'
        BY <1>1, <2>1, <2>4, <2>5, <4>1, <4>2 DEF L!Ascending
      <4>3. L!Ascending(L!Content(y))' /\ L!Records(y)' \subseteq 1..written'
        BY <2>4, <2>5 DEF L!Ascending
      <4> QED
        BY <4>2, <4>3
    <3>2. ASSUME NEW j \in L!Slot, NEW k \in L!Slot, j < k,
                 NEW a \in L!Records(k)', NEW b \in L!Records(j)'
          PROVE  a < b
      <4>0. \A i, l \in L!Slot : i < l => \A c \in L!Records(l), d \in L!Records(i) : c < d
        BY DEF LogInv, OrderInv
      <4>1. j # y /\ k # y
        BY <2>5, <3>2
      <4>2. CASE j = x
        BY <1>0, <2>1, <2>5, <3>2, <4>0, <4>1, <4>2
      <4>3. CASE k = x
        <5>1. j < y /\ j # x
          <6>1. j < x /\ j \in Int /\ x \in Int
            BY <1>0, <3>2, <4>3
          <6> QED
            BY <2>1, <4>1, <6>1
        <5>2. L!Records(k)' = L!Records(y)
          BY <2>5, <4>3
        <5>3. L!Records(j)' = L!Records(j)
          BY <2>5, <4>1, <5>1
        <5>4. a \in L!Records(y) /\ b \in L!Records(j)
          BY <3>2, <5>2, <5>3
        <5> QED
          BY <4>0, <5>1, <5>4
      <4>4. CASE j # x /\ k # x
        BY <2>5, <3>2, <4>0, <4>1, <4>4
      <4> QED
        BY <4>2, <4>3, <4>4
    <3> QED
      BY <1>0, <1>1, <2>3, <3>1, <3>2 DEF OrderInv
  <2>7. NewestInv'
    <3>1. CASE y = 0
      <4>1. written \in L!Held' /\ L!Records(0)' = {}
        BY <1>2, <2>1, <2>5, <3>1 DEF L!Held
      <4> QED
        BY <1>0, <1>1, <2>1, <3>1, <4>1 DEF NewestInv
    <3>2. CASE y # 0
      <4>1. L!Records(0)' = L!Records(0) /\ written \in L!Held'
        BY <1>0, <1>2, <2>1, <2>5, <3>2 DEF L!Held
      <4> QED
        BY <1>0, <1>1, <1>2, <4>1 DEF NewestInv
    <3> QED
      BY <3>1, <3>2
  <2>8. ConvexInv'
    <3> SUFFICES ASSUME faults' = 0
                 PROVE  /\ \A a, b \in L!Held' : a..b \subseteq L!Held'
                        /\ \A k \in L!Slot : k # 0 /\ step' = k => L!Records(k)' = {}
      BY DEF ConvexInv
    <3>1. L!Records(x) = {}
      BY <1>1, <2>0, <2>1 DEF LogInv, ConvexInv
    <3>2. ASSUME NEW n PROVE n \in L!Held' <=> n \in L!Held
      BY <2>1, <2>5, <3>1 DEF L!Held
    <3>3. L!Held' = L!Held
      BY <3>2
    <3>4. \A k \in L!Slot : step' = k => L!Records(k)' = {}
      BY <2>1, <2>5
    <3> QED
      BY <1>1, <3>3, <3>4 DEF LogInv, ConvexInv
  <2> QED
    BY <1>1, <2>6, <2>7, <2>8 DEF LogInv
<1> QED
  BY <1>0, <1>3, <1>4, <1>5, <1>6 DEF L!RotateStep, L!Rotated, LogInv

\* The trail is in the order of writing; whichever renames fail and wherever the
\* program is killed, the newest record is still there, and without such failures
\* no record is missing in the middle.
THEOREM TrailIsKept == AllSpec => []LogTrail
<1>1. AllInit => LogInv
  <2> SUFFICES ASSUME L!Init PROVE LogInv
    BY DEF AllInit
  <2>1. \A k \in L!Slot : L!Content(k) = <<>> /\ L!Records(k) = {}
    BY DEF L!Init, L!Content, L!Records, L!ToSet
  <2>2. L!Held = {}
    BY <2>1 DEF L!Held
  <2>3. OrderInv
    BY <2>1, LogSlots DEF L!Init, OrderInv, L!Gone, L!Ascending
  <2>4. NewestInv /\ ConvexInv
    BY <2>1, <2>2, LogSlots DEF L!Init, NewestInv, ConvexInv
  <2> QED
    BY <2>3, <2>4 DEF L!Init, LogInv
<1>2. LogInv /\ [AllNext]_allVars => LogInv'
  <2> SUFFICES ASSUME LogInv, [AllNext]_allVars PROVE LogInv'
    OBVIOUS
  <2>1. CASE L!WriteRecord /\ ~L!MustRotate
    <3>1. fp /\ step = -1 /\ files[0] # L!Gone /\ size = Len(files[0])
      BY <2>1 DEF L!WriteRecord, LogInv, NewestInv
    <3>2. L!Content(0) = files[0] /\ fp \in BOOLEAN
      BY <3>1 DEF L!Content
    <3> QED
      BY <2>1, <3>1, <3>2, AppendLog DEF L!WriteRecord, L!Append1
  <2>2. CASE L!Reopen /\ fp' = TRUE
    BY <2>2, AppendLog DEF L!Reopen, L!Opened
  <2> QED
    BY <2>1, <2>2, LogSteps, QuietLog, RotateLog DEF L!Reopen
<1>3. LogInv => LogTrail
  <2> SUFFICES ASSUME LogInv PROVE L!LogTrail
    BY DEF LogTrail
  <2> QED
    BY DEF LogInv, OrderInv, NewestInv, ConvexInv, L!LogTrail
<1> QED
  BY <1>1, <1>2, <1>3, PTL DEF AllSpec

(***************************************************************************)
(* The descriptors (module Descriptors).                                   *)
(***************************************************************************)

\* A descriptor is in one table only: the published one, or one of those a
\* scan builds or takes down.
OneTable ==
    /\ \A s \in Scanner : table \cap (fresh[s] \cup old[s]) = {} /\ fresh[s] \cap old[s] = {}
    /\ \A s, u \in Scanner :
           s # u => (fresh[s] \cup old[s]) \cap (fresh[u] \cup old[u]) = {}

\* Every reference is to a descriptor that exists; one that is being picked is
\* still published, as its reader keeps the lock, and nobody knows those a scan
\* is still building.
Referenced ==
    /\ \A d \in Desc : Tabled(d) => life[d] = "live"
    /\ \A h \in Holder :
           /\ at[h] # "idle" => desc[h] \in Desc
           /\ at[h] = "picked" => h \in readers /\ desc[h] \in table
           /\ at[h] = "holding" => /\ life[desc[h]] = "live"
                                   /\ \A s \in Scanner : desc[h] \notin fresh[s]

\* Whoever is about to destroy a descriptor is the last to know it.
LastOne ==
    \A d \in Desc : Destroyers(d) # {} =>
        /\ life[d] = "live"
        /\ ~Tabled(d) /\ Pinned(d) = {}
        /\ \A x, y \in Destroyers(d) : x = y

RefInv == TypeOK /\ OneTable /\ Referenced /\ LastOne /\ RefcountExact

\* The number of holders of a descriptor is a number.
LEMMA PinnedFinite ==
    \A d \in Desc : IsFiniteSet(Pinned(d)) /\ Cardinality(Pinned(d)) \in Nat
BY DescAssumption, FS_Subset, FS_CardinalityType DEF Pinned

\* Pin and Share: a holder comes to hold d.
LEMMA HolderGained ==
    ASSUME NEW d \in Desc, NEW h \in Holder, h \notin Pinned(d),
           Pinned(d)' = Pinned(d) \cup {h}
    PROVE  Cardinality(Pinned(d)') = Cardinality(Pinned(d)) + 1
BY PinnedFinite, FS_AddElement

\* Unref: a holder lets go of d.
LEMMA HolderLost ==
    ASSUME NEW d \in Desc, NEW h \in Pinned(d), Pinned(d)' = Pinned(d) \ {h}
    PROVE  /\ Cardinality(Pinned(d)') = Cardinality(Pinned(d)) - 1
           /\ Cardinality(Pinned(d)) = 1 => Pinned(d)' = {}
<1>1. IsFiniteSet(Pinned(d)) /\ Cardinality(Pinned(d)) \in Nat
  BY PinnedFinite
<1>2. IsFiniteSet(Pinned(d)') /\ Cardinality(Pinned(d)') = Cardinality(Pinned(d)) - 1
  BY <1>1, FS_RemoveElement
<1> QED
  BY <1>2, FS_EmptySet

\* The count of a descriptor that is live is at least the references in sight.
LEMMA CountPositive ==
    ASSUME RefInv, NEW d \in Desc, life[d] = "live"
    PROVE  /\ Tabled(d) => refcount[d] >= 1
           /\ Pinned(d) # {} => refcount[d] >= 1
           /\ Tabled(d) /\ refcount[d] <= 1 => Pinned(d) = {}
           /\ Pinned(d) # {} /\ refcount[d] <= 1 => ~Tabled(d) /\ Cardinality(Pinned(d)) = 1
<1>1. IsFiniteSet(Pinned(d)) /\ Cardinality(Pinned(d)) \in Nat
  BY PinnedFinite
<1>2. Cardinality(Pinned(d)) = 0 <=> Pinned(d) = {}
  BY <1>1, FS_EmptySet
<1>3. refcount[d] = Cardinality(Pinned(d)) + (IF Tabled(d) THEN 1 ELSE 0)
  BY DEF RefInv, RefcountExact
<1> QED
  BY <1>1, <1>2, <1>3

\* The first state has no references.
LEMMA InitRef == Init => RefInv
<1> SUFFICES ASSUME Init PROVE RefInv
  OBVIOUS
<1>1. TypeOK
  BY DEF Init, TypeOK
<1>2. \A d \in Desc : ~Tabled(d) /\ Pinned(d) = {} /\ Destroyers(d) = {}
  BY DescAssumption DEF Init, Tabled, Pinned, Destroyers
<1>3. OneTable /\ Referenced
  BY <1>2 DEF Init, OneTable, Referenced
<1> QED
  BY <1>1, <1>2, <1>3 DEF Init, RefInv, LastOne, RefcountExact

\* Steps that neither make nor break a reference leave the counts exact.
LEMMA SameReferences ==
    ASSUME RefInv, life' \in [Desc -> {"unused", "live", "destroyed"}],
           UNCHANGED refcount,
           \A d \in Desc : life'[d] = "live" =>
               /\ life[d] = "live"
               /\ Tabled(d)' = Tabled(d) /\ Pinned(d)' = Pinned(d)
    PROVE  RefcountExact'
BY DEF RefInv, RefcountExact

(***************************************************************************)
(* One lemma per action.                                                   *)
(***************************************************************************)

\* load_package: the new descriptor is known to its scan only.
LEMMA StepLoad == ASSUME RefInv, NEW s \in Scanner, NEW c \in Desc, Load(s, c) PROVE RefInv'
<1> USE DEF Load, RefInv
<1>0. ~Tabled(c) /\ \A h \in Holder : at[h] # "idle" => desc[h] # c \/ at[h] = "destroying"
  <2>1. life[c] = "unused"
    OBVIOUS
  <2>2. ~Tabled(c)
    BY <2>1 DEF Referenced
  <2>3. \A h \in Holder : at[h] \in {"picked", "holding"} => desc[h] # c
    BY <2>1, <2>2 DEF Referenced, Tabled
  <2> QED
    BY <2>2, <2>3 DEF TypeOK
<1>1. Destroyers(c) = {} /\ Pinned(c) = {}
  BY <1>0 DEF LastOne, Pinned
<1>2. TypeOK'
  BY DEF TypeOK
<1>3. OneTable'
  BY <1>0 DEF OneTable, TypeOK, Tabled
<1>4. /\ \A d \in Desc : Pinned(d)' = Pinned(d) /\ Destroyers(d)' = Destroyers(d)
      /\ \A d \in Desc : d # c => Tabled(d)' = Tabled(d)
      /\ Tabled(c)'
  BY DEF TypeOK, Pinned, Destroyers, Tabled
<1>5. Referenced'
  <2>1. \A d \in Desc : Tabled(d)' => life'[d] = "live"
    BY <1>4 DEF Referenced, TypeOK
  <2> QED
    BY <2>1, <1>1 DEF Referenced, TypeOK, Pinned
<1>6. LastOne'
  BY <1>1, <1>4 DEF LastOne, TypeOK
<1>7. RefcountExact'
  <2>1. Cardinality({}) = 0
    BY FS_EmptySet
  <2>2. refcount'[c] = Cardinality(Pinned(c)') + 1
    <3>1. refcount'[c] = 1
      BY DEF TypeOK
    <3>2. Pinned(c)' = {}
      BY <1>1, <1>4
    <3>3. Cardinality(Pinned(c)') = 0
      BY <3>2, <2>1
    <3> QED
      BY <3>1, <3>3
  <2>3. ASSUME NEW d \in Desc, d # c, life'[d] = "live"
        PROVE  refcount'[d] = Cardinality(Pinned(d)') + (IF Tabled(d)' THEN 1 ELSE 0)
    BY <2>3, <1>4 DEF RefcountExact, TypeOK
  <2> QED
    BY <2>2, <2>3, <1>4 DEF RefcountExact
<1> QED
  BY <1>2, <1>3, <1>5, <1>6, <1>7

\* A candidate nobody else knows is destroyed.
LEMMA StepDiscard == ASSUME RefInv, NEW s \in Scanner, NEW c \in Desc, Discard(s, c) PROVE RefInv'
<1> USE DEF Discard, RefInv
<1>1. /\ Tabled(c) /\ Pinned(c) = {} /\ Destroyers(c) = {}
      /\ \A h \in Holder : at[h] = "picked" => desc[h] # c
  BY DEF Tabled, Pinned, LastOne, Referenced, OneTable
<1>2. TypeOK'
  BY DEF TypeOK
<1>3. OneTable'
  BY DEF OneTable, TypeOK
<1>4. /\ \A d \in Desc : Pinned(d)' = Pinned(d) /\ Destroyers(d)' = Destroyers(d)
      /\ \A d \in Desc : d # c => Tabled(d)' = Tabled(d)
      /\ ~Tabled(c)'
  BY DEF TypeOK, Pinned, Destroyers, Tabled, OneTable
<1>5. Referenced'
  <2>1. \A d \in Desc : Tabled(d)' => life'[d] = "live"
    BY <1>4 DEF Referenced, TypeOK
  <2> QED
    BY <2>1, <1>1 DEF Referenced, TypeOK, Pinned
<1>6. LastOne'
  BY <1>1, <1>4 DEF LastOne, TypeOK
<1>7. RefcountExact'
  BY <1>2, <1>4, SameReferences DEF TypeOK
<1> QED
  BY <1>2, <1>3, <1>5, <1>6, <1>7

\* Publication moves references between tables; no reader is under way.
LEMMA StepPublish == ASSUME RefInv, NEW s \in Scanner, Publish(s) PROVE RefInv'
<1> USE DEF Publish, RefInv
<1>1. TypeOK'
  BY DEF TypeOK
<1>2. OneTable'
  BY DEF OneTable, TypeOK
<1>3. \A d \in Desc : /\ Pinned(d)' = Pinned(d) /\ Destroyers(d)' = Destroyers(d)
                      /\ Tabled(d)' = Tabled(d)
  BY DEF TypeOK, Pinned, Destroyers, Tabled
<1>4. Referenced'
  <2>1. \A d \in Desc : Tabled(d)' => life'[d] = "live"
    BY <1>3 DEF Referenced
  <2> QED
    BY <2>1 DEF Referenced, TypeOK, WriteLockFree
<1>5. LastOne'
  BY <1>3 DEF LastOne
<1>6. RefcountExact'
  BY <1>1, <1>3, SameReferences DEF TypeOK
<1> QED
  BY <1>1, <1>2, <1>4, <1>5, <1>6

\* The scanner drops the table's reference to a replaced descriptor.
LEMMA StepUnrefOld == ASSUME RefInv, NEW s \in Scanner, NEW c \in Desc, UnrefOld(s, c)
                      PROVE  RefInv'
<1> USE DEF UnrefOld, RefInv, Last
<1>1. Tabled(c) /\ life[c] = "live" /\ Destroyers(c) = {} /\ doomed[s] = None
  BY DEF Tabled, LastOne, Referenced
<1>2. refcount[c] >= 1 /\ (refcount[c] <= 1 => Pinned(c) = {})
  BY <1>1, CountPositive
<1>3. TypeOK'
  BY <1>2 DEF TypeOK
<1>4. OneTable'
  BY DEF OneTable, TypeOK
<1>5. /\ \A d \in Desc : Pinned(d)' = Pinned(d)
      /\ \A d \in Desc : d # c => Tabled(d)' = Tabled(d)
      /\ ~Tabled(c)'
  BY DEF TypeOK, Pinned, Tabled, OneTable
<1>6. /\ \A d \in Desc : d # c => Destroyers(d)' = Destroyers(d)
      /\ Destroyers(c)' = IF refcount[c] <= 1 THEN {s} ELSE {}
  <2>1. \A d \in Desc : d # None
    BY DescAssumption
  <2> QED
    BY <1>1, <2>1 DEF TypeOK, Destroyers
<1>7. Referenced'
  <2>1. \A d \in Desc : Tabled(d)' => life'[d] = "live"
    BY <1>5 DEF Referenced
  <2> QED
    BY <2>1 DEF Referenced, TypeOK
<1>8. LastOne'
  BY <1>1, <1>2, <1>5, <1>6 DEF LastOne
<1>9. RefcountExact'
  <2>1. refcount'[c] = Cardinality(Pinned(c)')
    BY <1>1, <1>2, <1>5, PinnedFinite DEF TypeOK, RefcountExact
  <2>2. ASSUME NEW d \in Desc, d # c, life'[d] = "live"
        PROVE  refcount'[d] = Cardinality(Pinned(d)') + (IF Tabled(d)' THEN 1 ELSE 0)
    BY <2>2, <1>5 DEF RefcountExact, TypeOK
  <2>3. Cardinality(Pinned(c)') \in Nat
    BY <1>5, PinnedFinite
  <2> QED
    BY <2>1, <2>2, <2>3, <1>5 DEF RefcountExact
<1> QED
  BY <1>3, <1>4, <1>7, <1>8, <1>9

\* ... and destroys it when that was the last one.
LEMMA StepDestroyOld == ASSUME RefInv, NEW s \in Scanner, DestroyOld(s) PROVE RefInv'
<1> USE DEF DestroyOld, RefInv
<1>0. PICK c \in Desc : c = doomed[s]
  BY DEF TypeOK, Referenced
<1>1. c \in Desc /\ s \in Destroyers(c)
  BY <1>0 DEF TypeOK, Destroyers
<1>2. ~Tabled(c) /\ Pinned(c) = {} /\ \A x \in Destroyers(c) : x = s
  BY <1>1 DEF LastOne
<1>3. TypeOK'
  BY <1>0, <1>1 DEF TypeOK
<1>4. OneTable'
  BY DEF OneTable
<1>5. /\ \A d \in Desc : Pinned(d)' = Pinned(d) /\ Tabled(d)' = Tabled(d)
      /\ \A d \in Desc : d # c => Destroyers(d)' = Destroyers(d)
  <2>1. \A d \in Desc : d # None
    BY <1>0, DescAssumption
  <2> QED
    BY <1>0, <2>1, <1>1 DEF TypeOK, Pinned, Destroyers, Tabled
<1>6. Referenced'
  <2>1. \A d \in Desc : Tabled(d)' => life'[d] = "live"
    BY <1>0, <1>2, <1>5 DEF Referenced, TypeOK
  <2>2. \A h \in Holder : at[h] \in {"picked", "holding"} => desc[h] # c
    BY <1>0, <1>2 DEF Referenced, Pinned, Tabled
  <2> QED
    BY <1>0, <2>1, <2>2, <1>1 DEF Referenced, TypeOK
<1>7. Destroyers(c)' = {}
  <2>1. \A h \in Holder : at[h] = "destroying" => desc[h] # c
    BY <1>0, <1>2, DescAssumption DEF Destroyers
  <2>2. \A u \in Scanner : u # s => doomed[u] # c
    BY <1>0, <1>2 DEF Destroyers
  <2> QED
    BY <1>0, <2>1, <2>2, <1>1, DescAssumption DEF Destroyers, TypeOK
<1>8. LastOne'
  BY <1>0, <1>1, <1>5, <1>7 DEF LastOne, TypeOK
<1>9. RefcountExact'
  BY <1>0, <1>1, <1>3, <1>5, SameReferences DEF TypeOK
<1> QED
  BY <1>3, <1>4, <1>6, <1>8, <1>9

\* A lookup under the read lock makes no reference yet.
LEMMA StepPick == ASSUME RefInv, NEW h \in Holder, NEW c \in Desc, Pick(h, c) PROVE RefInv'
<1> USE DEF Pick, RefInv
<1>1. TypeOK'
  BY DEF TypeOK
<1>2. OneTable'
  BY DEF OneTable
<1>3. \A d \in Desc : /\ Pinned(d)' = Pinned(d) /\ Destroyers(d)' = Destroyers(d)
                      /\ Tabled(d)' = Tabled(d)
  BY DEF TypeOK, Pinned, Destroyers, Tabled
<1>4. Referenced'
  <2>1. \A d \in Desc : Tabled(d)' => life'[d] = "live"
    BY <1>3 DEF Referenced
  <2> QED
    BY <2>1 DEF Referenced, TypeOK
<1>5. LastOne'
  BY <1>3 DEF LastOne
<1>6. RefcountExact'
  BY <1>1, <1>3, SameReferences DEF TypeOK
<1> QED
  BY <1>1, <1>2, <1>4, <1>5, <1>6

\* What Pin and Share have in common: g comes to hold c, which is live and
\* which no scan is still building.
LEMMA Gained ==
    ASSUME RefInv, NEW g \in Holder, NEW c \in Desc, life[c] = "live", Destroyers(c) = {},
           \A s \in Scanner : c \notin fresh[s],
           at[g] \in {"idle", "picked"},
           refcount' = [refcount EXCEPT ![c] = @ + 1],
           at' = [at EXCEPT ![g] = "holding"],
           desc' = [desc EXCEPT ![g] = c],
           readers' \in {readers, readers \ {g}},
           UNCHANGED <<life, table, fresh, old, doomed>>
    PROVE  RefInv'
<1> USE DEF RefInv
<1>1. TypeOK'
  BY DEF TypeOK
<1>2. OneTable'
  BY DEF OneTable
<1>3. /\ \A d \in Desc : Tabled(d)' = Tabled(d) /\ Destroyers(d)' = Destroyers(d)
      /\ \A d \in Desc : d # c => Pinned(d)' = Pinned(d)
      /\ Pinned(c)' = Pinned(c) \cup {g} /\ g \notin Pinned(c)
  BY DEF TypeOK, Tabled, Destroyers, Pinned
<1>4. Referenced'
  <2>1. \A d \in Desc : Tabled(d)' => life'[d] = "live"
    BY <1>3 DEF Referenced
  <2> QED
    BY <2>1 DEF Referenced, TypeOK
<1>5. LastOne'
  BY <1>3 DEF LastOne
<1>6. RefcountExact'
  <2>1. Cardinality(Pinned(c)') = Cardinality(Pinned(c)) + 1 /\ Cardinality(Pinned(c)) \in Nat
    BY <1>3, HolderGained, PinnedFinite
  <2>2. refcount'[c] = Cardinality(Pinned(c)') + (IF Tabled(c)' THEN 1 ELSE 0)
    BY <2>1, <1>3 DEF RefcountExact, TypeOK
  <2>3. ASSUME NEW d \in Desc, d # c, life'[d] = "live"
        PROVE  refcount'[d] = Cardinality(Pinned(d)') + (IF Tabled(d)' THEN 1 ELSE 0)
    BY <2>3, <1>3 DEF RefcountExact, TypeOK
  <2> QED
    BY <2>2, <2>3 DEF RefcountExact
<1> QED
  BY <1>1, <1>2, <1>4, <1>5, <1>6

\* The reference is taken before the read lock is dropped, while the table
\* still has its own.
LEMMA StepPin == ASSUME RefInv, NEW h \in Holder, Pin(h) PROVE RefInv'
<1> USE DEF Pin, RefInv
<1> DEFINE c == desc[h]
<1>1. c \in Desc /\ c \in table
  BY DEF Referenced, TypeOK
<1>2. Tabled(c) /\ life[c] = "live"
  BY <1>1 DEF Tabled, Referenced
<1>3. Destroyers(c) = {}
  BY <1>1, <1>2 DEF LastOne
<1>4. \A s \in Scanner : c \notin fresh[s]
  BY <1>1 DEF OneTable
<1>5. desc' = [desc EXCEPT ![h] = c]
  BY DEF TypeOK
<1> HIDE DEF c
<1> QED
  BY <1>1, <1>2, <1>3, <1>4, <1>5, Gained DEF c

\* A second holder of what is held.
LEMMA StepShare == ASSUME RefInv, NEW h \in Holder, NEW g \in Holder, Share(h, g) PROVE RefInv'
<1> USE DEF Share, RefInv
<1> DEFINE c == desc[h]
<1>1. c \in Desc /\ life[c] = "live" /\ \A s \in Scanner : c \notin fresh[s]
  BY DEF Referenced
<1>2. h \in Pinned(c)
  BY DEF Pinned
<1>3. Destroyers(c) = {}
  BY <1>1, <1>2 DEF LastOne
<1> QED
  BY <1>1, <1>3, Gained

\* astools_tool_unref: the reference goes, and the thread that dropped the last
\* one is left to destroy.
LEMMA StepUnref == ASSUME RefInv, NEW h \in Holder, Unref(h) PROVE RefInv'
<1> USE DEF Unref, RefInv, Last
<1>0. PICK c \in Desc : c = desc[h]
  BY DEF TypeOK, Referenced
<1>1. c \in Desc /\ life[c] = "live" /\ h \in Pinned(c)
  BY <1>0 DEF Referenced, Pinned
<1>2. Destroyers(c) = {}
  BY <1>1 DEF LastOne
<1>3. refcount[c] >= 1 /\ (refcount[c] <= 1 => ~Tabled(c) /\ Cardinality(Pinned(c)) = 1)
  BY <1>1, CountPositive
<1>4. TypeOK'
  BY <1>0, <1>1, <1>3 DEF TypeOK
<1>5. OneTable'
  BY DEF OneTable
<1>6. /\ \A d \in Desc : Tabled(d)' = Tabled(d)
      /\ \A d \in Desc : d # c => Pinned(d)' = Pinned(d)
      /\ Pinned(c)' = Pinned(c) \ {h}
  BY <1>0, DescAssumption DEF TypeOK, Tabled, Pinned
<1>7. /\ Cardinality(Pinned(c)') = Cardinality(Pinned(c)) - 1
      /\ Cardinality(Pinned(c)) = 1 => Pinned(c)' = {}
  BY <1>1, <1>6, HolderLost
<1>8. /\ \A d \in Desc : d # c => Destroyers(d)' = Destroyers(d)
      /\ Destroyers(c)' = IF refcount[c] <= 1 THEN {h} ELSE {}
  BY <1>0, <1>1, <1>2, DescAssumption DEF TypeOK, Destroyers
<1>9. Referenced'
  <2>1. \A d \in Desc : Tabled(d)' => life'[d] = "live"
    BY <1>0, <1>6 DEF Referenced
  <2> QED
    BY <1>0, <2>1, <1>1 DEF Referenced, TypeOK
<1>10. LastOne'
  BY <1>0, <1>1, <1>3, <1>6, <1>7, <1>8 DEF LastOne
<1>11. RefcountExact'
  <2>1. Cardinality(Pinned(c)) \in Nat
    BY <1>1, PinnedFinite
  <2>2. refcount'[c] = Cardinality(Pinned(c)') + (IF Tabled(c)' THEN 1 ELSE 0)
    BY <1>0, <2>1, <1>1, <1>3, <1>6, <1>7 DEF RefcountExact, TypeOK
  <2>3. ASSUME NEW d \in Desc, d # c, life'[d] = "live"
        PROVE  refcount'[d] = Cardinality(Pinned(d)') + (IF Tabled(d)' THEN 1 ELSE 0)
    BY <1>0, <2>3, <1>1, <1>6 DEF RefcountExact, TypeOK
  <2> QED
    BY <1>0, <2>2, <2>3 DEF RefcountExact
<1> QED
  BY <1>4, <1>5, <1>9, <1>10, <1>11

\* tool_destroy by the holder that dropped the last reference.
LEMMA StepDestroy == ASSUME RefInv, NEW h \in Holder, Destroy(h) PROVE RefInv'
<1> USE DEF Destroy, RefInv
<1>0. PICK c \in Desc : c = desc[h]
  BY DEF TypeOK, Referenced
<1>1. c \in Desc /\ h \in Destroyers(c)
  BY <1>0 DEF Referenced, Destroyers
<1>2. ~Tabled(c) /\ Pinned(c) = {} /\ \A x \in Destroyers(c) : x = h
  BY <1>1 DEF LastOne
<1>3. TypeOK'
  BY <1>0, <1>1 DEF TypeOK
<1>4. OneTable'
  BY DEF OneTable
<1>5. /\ \A d \in Desc : Pinned(d)' = Pinned(d) /\ Tabled(d)' = Tabled(d)
      /\ \A d \in Desc : d # c => Destroyers(d)' = Destroyers(d)
  BY <1>0, <1>1, DescAssumption DEF TypeOK, Pinned, Destroyers, Tabled
<1>6. Referenced'
  <2>1. \A d \in Desc : Tabled(d)' => life'[d] = "live"
    BY <1>0, <1>2, <1>5 DEF Referenced, TypeOK
  <2>2. \A g \in Holder : at[g] \in {"picked", "holding"} => desc[g] # c
    BY <1>0, <1>2 DEF Referenced, Pinned, Tabled
  <2> QED
    BY <1>0, <2>1, <2>2, <1>1 DEF Referenced, TypeOK
<1>7. Destroyers(c)' = {}
  <2>1. \A g \in Holder : g # h /\ at[g] = "destroying" => desc[g] # c
    BY <1>0, <1>2 DEF Destroyers
  <2>2. \A u \in Scanner : doomed[u] # c
    BY <1>0, <1>2, DescAssumption DEF Destroyers
  <2> QED
    BY <1>0, <2>1, <2>2, <1>1, DescAssumption DEF Destroyers, TypeOK
<1>8. LastOne'
  BY <1>0, <1>1, <1>5, <1>7 DEF LastOne, TypeOK
<1>9. RefcountExact'
  BY <1>0, <1>1, <1>3, <1>5, SameReferences DEF TypeOK
<1> QED
  BY <1>3, <1>4, <1>6, <1>8, <1>9

\* Every step preserves the invariant.
LEMMA NextRef == RefInv /\ [Next]_vars => RefInv'
<1> SUFFICES ASSUME RefInv, [Next]_vars PROVE RefInv'
  OBVIOUS
<1>1. CASE UNCHANGED vars
  BY <1>1 DEF vars, RefInv, TypeOK, OneTable, Referenced, LastOne, RefcountExact, Tabled,
              Pinned, Destroyers
<1>2. CASE Next
  BY <1>2, StepLoad, StepDiscard, StepPublish, StepUnrefOld, StepDestroyOld, StepPick,
     StepPin, StepShare, StepUnref, StepDestroy DEF Next, ScanStep
<1> QED
  BY <1>1, <1>2

(***************************************************************************)
(* The theorems.                                                           *)
(***************************************************************************)

\* Whatever scans overlap and whoever holds what, astools_tool_ref and
\* astools_tool_unref keep refcount equal to the number of references.
THEOREM CountsExact == Spec => []RefcountExact
<1>1. RefInv => RefcountExact
  BY DEF RefInv
<1> QED
  BY <1>1, InitRef, NextRef, PTL DEF Spec

\* No table, lookup, holder or second destroyer ever meets a descriptor that
\* tool_destroy has taken.
THEOREM NoDanglingDescriptor == Spec => []NoUseAfterFree
<1>1. RefInv => NoUseAfterFree
  <2> SUFFICES ASSUME RefInv PROVE NoUseAfterFree
    OBVIOUS
  <2>1. \A h \in Holder : at[h] \in {"picked", "holding"} => life[desc[h]] = "live"
    BY DEF RefInv, Referenced, Tabled
  <2>2. ASSUME NEW d \in Desc, Destroyers(d) # {}
        PROVE  life[d] = "live" /\ \E x \in Destroyers(d) : Destroyers(d) = {x}
    BY <2>2 DEF RefInv, LastOne
  <2> QED
    BY <2>1, <2>2 DEF NoUseAfterFree, RefInv, Referenced
<1> QED
  BY <1>1, InitRef, NextRef, PTL DEF Spec

=============================================================================
