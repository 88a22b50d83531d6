------------------------ MODULE PersistentPoolProofs ------------------------
(***************************************************************************)
(* Theorems about PersistentPool, for any number of invocations and nodes, *)
(* any limits and any behavior of the tool: who uses an instance, what the *)
(* pool counts, when a scratch directory exists, whose request and whose   *)
(* answer pass through a process.                                          *)
(***************************************************************************)
EXTENDS PersistentPool, FiniteSetTheorems, TLAPS

USE DEF signalVars, countVars, worldVars, historyVars

(***************************************************************************)
(* The inductive invariant.                                                *)
(***************************************************************************)

\* Where an invocation has an instance; the stages before it releases it.
Exchange == {"validate", "snapshot", "start", "revalidate", "resnapshot", "spawn",
             "hello", "write", "read", "settle"}
Using == Exchange \cup {"release"}

\* An instance belongs to the one invocation that has acquired it, or to the
\* supervisor, and is busy exactly then; it has the identity of its user.
UseInv ==
    /\ \A i \in Inv :
          /\ node[i] # None <=> pc[i] \in Using
          /\ node[i] # None =>
                /\ node[i] \notin pinned
                /\ pool[node[i]] # None /\ pool[node[i]].busy = 1
                /\ pool[node[i]].key = sha[i] /\ sha[i] \in Content
          /\ pc[i] = "acquire" => sha[i] \in Content
    /\ \A i, j \in Inv : node[i] # None /\ node[i] = node[j] => i = j
    /\ \A n \in pinned : pool[n] # None /\ pool[n].busy = 1
    /\ \A n \in Node : pool[n] # None /\ pool[n].busy # 0 =>
          n \in pinned \/ \E i \in Inv : node[i] = n

\* The counters the context publishes.
Waiters == {i \in Inv : waiting[i]}
CountInv ==
    /\ pp_count = Cardinality(Listed)
    /\ pp_waiters = Cardinality(Waiters)
    /\ \A i \in Inv : waiting[i] => pc[i] = "acquire"

(***************************************************************************)
(* Operations on an instance and finite sets of nodes and invocations.     *)
(***************************************************************************)

\* Stopping, backing off and undoing the preparation of an instance change
\* neither its identity nor its user.
LEMMA InstanceOps ==
    ASSUME NEW p \in Instance
    PROVE  /\ Stopped(p) \in Instance /\ Stopped(p).key = p.key /\ Stopped(p).busy = p.busy
           /\ BackedOff(p) \in Instance /\ BackedOff(p).key = p.key /\ BackedOff(p).busy = p.busy
           /\ Unprepared(p) \in Instance /\ Unprepared(p).key = p.key /\ Unprepared(p).busy = p.busy
<1>1. /\ Stopped(p) \in Instance /\ Stopped(p).key = p.key /\ Stopped(p).busy = p.busy
      /\ Stopped(p).backoff = p.backoff
  <2>1. <<>> \in Seq(Inv \cup {Stray})
    OBVIOUS
  <2> QED
    BY <2>1 DEF Instance, Stopped
<1>2. ASSUME NEW q \in Instance
      PROVE  LET b == [q EXCEPT !.backoff = TRUE]
             IN  b \in Instance /\ b.key = q.key /\ b.busy = q.busy
  BY DEF Instance
<1>3. ASSUME NEW q \in Instance
      PROVE  /\ Unprepared(q) \in Instance /\ Unprepared(q).key = q.key
             /\ Unprepared(q).busy = q.busy
  BY DEF Instance, Unprepared
<1> QED
  BY <1>1, <1>2, <1>3 DEF BackedOff

\* Sets of nodes and of invocations can be counted.
LEMMA NodesFinite ==
    ASSUME NEW S \in SUBSET Node
    PROVE  IsFiniteSet(S) /\ Cardinality(S) \in Nat
BY PoolAssumption, FS_Subset, FS_CardinalityType

\* Sets of calls can be counted.
LEMMA InvsFinite ==
    ASSUME NEW S \in SUBSET Inv
    PROVE  IsFiniteSet(S) /\ Cardinality(S) \in Nat
BY PoolAssumption, FS_Subset, FS_CardinalityType

(***************************************************************************)
(* The steps of an exchange, as far as the pool is concerned.              *)
(***************************************************************************)

ExchangeStep(i) ==
    \/ Validate(i) \/ Snapshot(i) \/ Start(i) \/ Revalidate(i) \/ Resnapshot(i)
    \/ Spawn(i) \/ Hello(i) \/ HelloStopped(i) \/ Write(i) \/ Read(i) \/ ReadFails(i)
    \/ Interrupted(i) \/ SettleLine(i) \/ SettleGivesUp(i)

\* The invocation stays with its instance, and changes neither its identity nor
\* its user.
Local(i) ==
    /\ pc[i] \in Exchange
    /\ \E label \in Using : pc' = [pc EXCEPT ![i] = label]
    /\ \E p \in Instance : /\ pool' = [pool EXCEPT ![node[i]] = p]
                           /\ p.key = Mine(i).key /\ p.busy = Mine(i).busy
    /\ \E v \in Verdicts : verdict' = [verdict EXCEPT ![i] = v]
    /\ \E d \in Nat : delivered' = [delivered EXCEPT ![i] = d]
    /\ \E a \in Inv \cup {Stray, None} : answer' = [answer EXCEPT ![i] = a]
    /\ UNCHANGED <<sha, node, signalVars, waiting, countVars, pinned, worldVars, since>>

\* What an acquired node is.
LEMMA MineType ==
    ASSUME TypeOK, UseInv, NEW i \in Inv, pc[i] \in Using
    PROVE  /\ node[i] \in Node /\ node[i] \notin pinned /\ node[i] # None
           /\ Mine(i) \in Instance /\ Mine(i).busy = 1
           /\ Mine(i).key = sha[i] /\ sha[i] \in Content
           /\ pool = [pool EXCEPT ![node[i]] = Mine(i)]
           /\ verdict = [verdict EXCEPT ![i] = verdict[i]]
           /\ delivered = [delivered EXCEPT ![i] = delivered[i]]
           /\ answer = [answer EXCEPT ![i] = answer[i]]
BY DEF TypeOK, UseInv, Mine

\* A step of validation, start, handshake, exchange or settlement is of the one
\* call that holds the instance.
LEMMA ExchangeIsLocal ==
    ASSUME TypeOK, UseInv, NEW i \in Inv, ExchangeStep(i)
    PROVE  Local(i)
<1> USE DEF Goto, Ending, Abandon, Keep, Unaffected, SetInstance, Local
<1>a. ASSUME pc[i] \in Using
      PROVE  /\ Mine(i) \in Instance /\ node[i] \in Node
             /\ verdict[i] \in Verdicts /\ delivered[i] \in Nat
             /\ answer[i] \in Inv \cup {Stray, None}
  BY <1>a, MineType DEF TypeOK
<1> DEFINE Ops(p) == /\ p \in Instance /\ p.key = Mine(i).key /\ p.busy = Mine(i).busy
<1>b. ASSUME pc[i] \in Using
      PROVE  Ops(Mine(i)) /\ Ops(Stopped(Mine(i))) /\ Ops(BackedOff(Mine(i)))
             /\ Ops(Unprepared(Mine(i)))
  BY <1>a, <1>b, InstanceOps
<1>1. CASE Validate(i)
  BY <1>1, <1>a, <1>b, MineType DEF Validate, Exchange, Using, Verdicts
<1>2. CASE Snapshot(i)
  BY <1>2, <1>a, <1>b, MineType DEF Snapshot, Exchange, Using, Verdicts
<1>3. CASE Start(i)
  <2>1. Ops([Mine(i) EXCEPT !.scratch = TRUE])
    BY <1>3, <1>a DEF Start, Instance, Exchange, Using
  <2> HIDE DEF Ops
  <2> QED
    BY <1>3, <1>a, <1>b, <2>1, MineType DEF Start, Exchange, Using, Verdicts, Ops
<1>4. CASE Revalidate(i)
  BY <1>4, <1>a, <1>b, MineType DEF Revalidate, Exchange, Using, Verdicts
<1>5. CASE Resnapshot(i)
  BY <1>5, <1>a, <1>b, MineType DEF Resnapshot, Exchange, Using, Verdicts
<1>6. CASE Spawn(i)
  <2>1. Ops([Mine(i) EXCEPT !.proc = "running"])
    BY <1>6, <1>a DEF Spawn, Instance, Exchange, Using
  <2> QED
    BY <1>6, <1>a, <1>b, <2>1, MineType DEF Spawn, Exchange, Using, Verdicts
<1>7. CASE Hello(i)
  <2>1. Ops([Mine(i) EXCEPT !.alive = TRUE, !.backoff = FALSE])
    BY <1>7, <1>a DEF Hello, Instance, Exchange, Using
  <2> QED
    BY ZenonT(40), <1>7, <1>a, <1>b, <2>1, MineType DEF Hello, Exchange, Using, Verdicts
<1>8. CASE HelloStopped(i)
  BY <1>8, <1>a, <1>b, MineType DEF HelloStopped, Exchange, Using, Verdicts
<1>9. CASE Write(i)
  <2>1. Ops([Mine(i) EXCEPT !.heard = @ \cup {i}])
    BY <1>9, <1>a DEF Write, Instance, Exchange, Using
  <2>2. delivered' = [delivered EXCEPT ![i] = delivered'[i]] /\ delivered'[i] \in Nat
    BY <1>9, <1>a, MineType DEF Write, Exchange, Using, TypeOK
  <2> QED
    BY ZenonT(40), <1>9, <1>a, <1>b, <2>1, <2>2, MineType DEF Write, Exchange, Using, Verdicts
<1>10. CASE Read(i)
  <2>0. Mine(i).stream \in Seq(Inv \cup {Stray}) /\ Mine(i).stream # <<>>
    BY <1>10, <1>a DEF Read, Instance, Exchange, Using
  <2>1. Head(Mine(i).stream) \in Inv \cup {Stray} /\ Tail(Mine(i).stream) \in Seq(Inv \cup {Stray})
    BY <2>0
  <2>2. Ops([Mine(i) EXCEPT !.stream = Tail(@)])
    BY <2>1, <1>10, <1>a DEF Read, Instance, Exchange, Using
  <2> QED
    BY <1>10, <1>a, <1>b, <2>1, <2>2, MineType DEF Read, Exchange, Using, Verdicts
<1>11. CASE ReadFails(i)
  BY <1>11, <1>a, <1>b, MineType DEF ReadFails, Exchange, Using, Verdicts
<1>12. CASE Interrupted(i)
  BY <1>12, <1>a, <1>b, MineType DEF Interrupted, Exchange, Using, Verdicts
<1>13. CASE SettleLine(i)
  <2>0. Mine(i).stream \in Seq(Inv \cup {Stray}) /\ Mine(i).stream # <<>>
    BY <1>13, <1>a DEF SettleLine, Instance, Exchange, Using
  <2>1. Tail(Mine(i).stream) \in Seq(Inv \cup {Stray})
    BY <2>0
  <2>2. Ops([Mine(i) EXCEPT !.stream = Tail(@)])
    BY <2>1, <1>13, <1>a DEF SettleLine, Instance, Exchange, Using
  <2> QED
    BY <1>13, <1>a, <1>b, <2>2, MineType DEF SettleLine, Exchange, Using, Verdicts
<1>14. CASE SettleGivesUp(i)
  BY <1>14, <1>a, <1>b, MineType DEF SettleGivesUp, Exchange, Using, Verdicts
<1> QED
  BY <1>1, <1>2, <1>3, <1>4, <1>5, <1>6, <1>7, <1>8, <1>9, <1>10, <1>11, <1>12, <1>13, <1>14
  DEF ExchangeStep

(***************************************************************************)
(* Users and counters: CoreInv is inductive.                               *)
(***************************************************************************)

CoreInv == TypeOK /\ UseInv /\ CountInv

\* A call that stops waiting, or never waited, leaves the count of waiting
\* calls exact.
LEMMA StopsWaiting ==
    ASSUME CoreInv, NEW i \in Inv, StopWaiting(i)
    PROVE  /\ waiting' \in [Inv -> BOOLEAN] /\ waiting'[i] = FALSE
           /\ \A j \in Inv : j # i => waiting'[j] = waiting[j]
           /\ pp_waiters' \in Nat /\ pp_waiters' = Cardinality(Waiters')
<1> USE DEF StopWaiting, CoreInv
<1>1. /\ waiting' \in [Inv -> BOOLEAN] /\ waiting'[i] = FALSE
      /\ \A j \in Inv : j # i => waiting'[j] = waiting[j]
  BY DEF TypeOK
<1>2. Waiters' = Waiters \ {i}
  BY <1>1 DEF Waiters
<1>3. IsFiniteSet(Waiters) /\ Cardinality(Waiters) \in Nat /\ Cardinality(Waiters') \in Nat
  BY InvsFinite DEF Waiters
<1>4. CASE waiting[i]
  <2>1. Cardinality(Waiters') = Cardinality(Waiters) - 1
    BY <1>2, <1>3, <1>4, FS_RemoveElement DEF Waiters
  <2> QED
    BY <2>1, <1>1, <1>3, <1>4 DEF CountInv
<1>5. CASE ~waiting[i]
  <2>1. Waiters' = Waiters
    BY <1>2, <1>5 DEF Waiters
  <2> QED
    BY <2>1, <1>1, <1>3, <1>5 DEF CountInv
<1> QED
  BY <1>4, <1>5

\* The nodes that are listed, and those of an identity.
Keyed(k) == {n \in Listed : pool[n].key = k}

\* An instance that is replaced by one with the same identity stays listed.
LEMMA SameListed ==
    ASSUME TypeOK, NEW n \in Node, pool[n] # None, NEW p \in Instance, p.key = pool[n].key,
           pool' = [pool EXCEPT ![n] = p]
    PROVE  /\ pool' \in [Node -> Instance \cup {None}]
           /\ Listed' = Listed
           /\ \A k : Keyed(k)' = Keyed(k)
           /\ \A m \in Node : m # n => pool'[m] = pool[m]
           /\ pool'[n] = p /\ p # None
<1>1. /\ pool' \in [Node -> Instance \cup {None}]
      /\ \A m \in Node : m # n => pool'[m] = pool[m]
      /\ pool'[n] = p /\ p # None
  BY NoNodeAssumption DEF TypeOK
<1>2. Listed' = Listed
  BY <1>1 DEF Listed
<1>3. \A k : Keyed(k)' = Keyed(k)
  BY <1>1, <1>2 DEF Keyed
<1> QED
  BY <1>1, <1>2, <1>3

\* A step of an exchange.
LEMMA CoreExchange ==
    ASSUME CoreInv, NEW i \in Inv, ExchangeStep(i)
    PROVE  CoreInv'
<1>1. Local(i)
  BY ExchangeIsLocal DEF CoreInv
<1>2. PICK label \in Using : pc' = [pc EXCEPT ![i] = label]
  BY <1>1 DEF Local
<1>3. PICK p \in Instance : /\ pool' = [pool EXCEPT ![node[i]] = p]
                            /\ p.key = Mine(i).key /\ p.busy = Mine(i).busy
  BY <1>1 DEF Local
<1>4. /\ node[i] \in Node /\ node[i] \notin pinned /\ node[i] # None
      /\ Mine(i) \in Instance /\ Mine(i).busy = 1 /\ pc[i] \in Using
      /\ Mine(i).key = sha[i] /\ sha[i] \in Content /\ pool[node[i]] # None
  BY <1>1, MineType DEF Local, Using, CoreInv, UseInv
<1>5. /\ pool' \in [Node -> Instance \cup {None}]
      /\ Listed' = Listed
      /\ \A m \in Node : m # node[i] => pool'[m] = pool[m]
      /\ pool'[node[i]] = p /\ p # None
  BY <1>3, <1>4, SameListed DEF CoreInv, Mine
<1>6. TypeOK'
  <2>1. pc' \in [Inv -> PCs]
    BY <1>2 DEF Using, Exchange, PCs, CoreInv, TypeOK
  <2>2. verdict' \in [Inv -> Verdicts] /\ delivered' \in [Inv -> Nat]
        /\ answer' \in [Inv -> Inv \cup {Stray, None}]
    BY <1>1 DEF Local, CoreInv, TypeOK
  <2> QED
    BY <1>1, <1>5, <2>1, <2>2 DEF Local, CoreInv, TypeOK
<1>7. UseInv'
  <2>1. \A j \in Inv : /\ pc'[j] \in Using <=> pc[j] \in Using
                       /\ pc'[j] = "acquire" <=> pc[j] = "acquire"
    BY <1>2, <1>4 DEF CoreInv, TypeOK, Using, Exchange
  <2>2. \A n \in Node : /\ pool'[n] # None <=> pool[n] # None
                        /\ pool[n] # None => pool'[n].key = pool[n].key
                                             /\ pool'[n].busy = pool[n].busy
    BY <1>3, <1>4, <1>5 DEF Mine
  <2>3. UNCHANGED <<sha, node, pinned>>
    BY <1>1 DEF Local
  <2>4. pinned \subseteq Node /\ \A j \in Inv : node[j] # None => node[j] \in Node
    BY DEF CoreInv, TypeOK
  <2> QED
    BY <2>1, <2>2, <2>3, <2>4 DEF CoreInv, UseInv
<1>8. CountInv'
  <2>1. \A j \in Inv : pc'[j] = "acquire" <=> pc[j] = "acquire"
    BY <1>2, <1>4 DEF CoreInv, TypeOK, Using, Exchange
  <2>2. UNCHANGED <<waiting, pp_count, pp_waiters>>
    BY <1>1 DEF Local
  <2>3. Waiters' = Waiters
    BY <2>2 DEF Waiters
  <2> QED
    BY <2>1, <2>2, <2>3, <1>5 DEF CoreInv, CountInv
<1> QED
  BY <1>6, <1>7, <1>8 DEF CoreInv

\* A call that ends without an instance.
LEMMA CoreGivesUp ==
    ASSUME CoreInv, NEW i \in Inv,
           AcquireCancelled(i) \/ AcquireTimeout(i) \/ AcquireBusy(i)
    PROVE  CoreInv'
<1>1. PICK v \in Verdicts :
        /\ pc[i] = "acquire" /\ StopWaiting(i)
        /\ pc' = [pc EXCEPT ![i] = "done"] /\ verdict' = [verdict EXCEPT ![i] = v]
        /\ UNCHANGED <<sha, node, signalVars, pool, pp_count, pinned, worldVars, historyVars>>
  BY DEF AcquireCancelled, AcquireTimeout, AcquireBusy, Ending, Verdicts
<1>2. /\ waiting' \in [Inv -> BOOLEAN] /\ waiting'[i] = FALSE
      /\ \A j \in Inv : j # i => waiting'[j] = waiting[j]
      /\ pp_waiters' \in Nat /\ pp_waiters' = Cardinality(Waiters')
  BY <1>1, StopsWaiting
<1>3. pc' \in [Inv -> PCs] /\ pc'[i] = "done" /\ \A j \in Inv : j # i => pc'[j] = pc[j]
  BY <1>1 DEF CoreInv, TypeOK, PCs
<1>4. TypeOK'
  BY <1>1, <1>2, <1>3 DEF CoreInv, TypeOK
<1>5. UseInv'
  BY <1>1, <1>3 DEF CoreInv, UseInv, Using, Exchange
<1>6. CountInv'
  BY <1>1, <1>2, <1>3 DEF CoreInv, CountInv, Listed
<1> QED
  BY <1>4, <1>5, <1>6 DEF CoreInv

\* A call that starts, or starts to wait.
LEMMA CoreBegin == ASSUME CoreInv, NEW i \in Inv, Begin(i) PROVE CoreInv'
<1> USE DEF Begin, Goto
<1>1. pc' \in [Inv -> PCs] /\ pc'[i] = "acquire" /\ \A j \in Inv : j # i => pc'[j] = pc[j]
  BY DEF CoreInv, TypeOK, PCs
<1>2. /\ sha' \in [Inv -> Content \cup {None}] /\ sha'[i] \in Content
      /\ \A j \in Inv : j # i => sha'[j] = sha[j]
  BY DEF CoreInv, TypeOK
<1>3. TypeOK'
  BY <1>1, <1>2 DEF CoreInv, TypeOK
<1>4. UseInv'
  BY <1>1, <1>2 DEF CoreInv, UseInv, Using, Exchange
<1>5. CountInv'
  BY <1>1 DEF CoreInv, CountInv, Listed, Waiters
<1> QED
  BY <1>3, <1>4, <1>5 DEF CoreInv

\* A call that finds no instance becomes one waiter more (pool_acquire).
LEMMA CoreWait == ASSUME CoreInv, NEW i \in Inv, AcquireWait(i) PROVE CoreInv'
<1> USE DEF AcquireWait
<1>1. Waiters' = Waiters \cup {i} /\ i \notin Waiters /\ waiting' \in [Inv -> BOOLEAN]
  BY DEF CoreInv, TypeOK, Waiters
<1>2. IsFiniteSet(Waiters) /\ Cardinality(Waiters) \in Nat
  BY InvsFinite DEF Waiters
<1>3. Cardinality(Waiters') = Cardinality(Waiters) + 1
  BY <1>1, <1>2, FS_AddElement
<1>4. TypeOK'
  BY <1>1 DEF CoreInv, TypeOK
<1>5. UseInv'
  BY DEF CoreInv, UseInv
<1>6. CountInv'
  <2>1. \A j \in Inv : waiting'[j] => pc'[j] = "acquire"
    BY DEF CoreInv, CountInv, TypeOK
  <2> QED
    BY <2>1, <1>2, <1>3 DEF CoreInv, CountInv, Listed
<1> QED
  BY <1>4, <1>5, <1>6 DEF CoreInv

\* A call that takes an instance: an idle one of its identity, or a new one.
LEMMA CoreAcquire ==
    ASSUME CoreInv, NEW i \in Inv, NEW n \in Node, pc[i] = "acquire", Acquired(i, n),
           NEW p \in Instance, p.key = sha[i], p.busy = 1,
           pool' = [pool EXCEPT ![n] = p],
           pool[n] # None => pool[n].busy = 0 /\ pool[n].key = sha[i],
           pp_count' = Cardinality(Listed'), pp_count' \in Nat
    PROVE  CoreInv'
<1> USE DEF Acquired, Goto
<1>1. /\ waiting' \in [Inv -> BOOLEAN] /\ waiting'[i] = FALSE
      /\ \A j \in Inv : j # i => waiting'[j] = waiting[j]
      /\ pp_waiters' \in Nat /\ pp_waiters' = Cardinality(Waiters')
  BY StopsWaiting
<1>2. pc' \in [Inv -> PCs] /\ pc'[i] = "validate" /\ \A j \in Inv : j # i => pc'[j] = pc[j]
  BY DEF CoreInv, TypeOK, PCs
<1>3. /\ node' \in [Inv -> Node \cup {None}] /\ node'[i] = n /\ n # None
      /\ \A j \in Inv : j # i => node'[j] = node[j]
  BY PoolAssumption DEF CoreInv, TypeOK
<1>4. /\ pool' \in [Node -> Instance \cup {None}] /\ pool'[n] = p /\ p # None
      /\ \A m \in Node : m # n => pool'[m] = pool[m]
  BY NoNodeAssumption DEF CoreInv, TypeOK
<1>5. n \notin pinned /\ \A j \in Inv : node[j] # n
  BY <1>3 DEF CoreInv, UseInv
<1>6. sha[i] \in Content
  BY DEF CoreInv, UseInv
<1>7. TypeOK'
  <2>1. since' \in [Inv -> [disk : SUBSET (Content \cup {None}), table : SUBSET (Content \cup {None})]]
    BY DEF CoreInv, TypeOK
  <2> QED
    BY <1>1, <1>2, <1>3, <1>4, <2>1 DEF CoreInv, TypeOK
<1>8. UseInv'
  <2>1. pinned \subseteq Node /\ \A j \in Inv : node[j] # None => node[j] \in Node
    BY DEF CoreInv, TypeOK
  <2>2. ASSUME NEW j \in Inv
        PROVE  /\ node'[j] # None <=> pc'[j] \in Using
               /\ node'[j] # None =>
                     /\ node'[j] \notin pinned'
                     /\ pool'[node'[j]] # None /\ pool'[node'[j]].busy = 1
                     /\ pool'[node'[j]].key = sha'[j] /\ sha'[j] \in Content
               /\ pc'[j] = "acquire" => sha'[j] \in Content
    <3>1. CASE j = i
      BY <3>1, <1>2, <1>3, <1>4, <1>5, <1>6 DEF Using, Exchange
    <3>2. CASE j # i
      BY <3>2, <2>1, <1>2, <1>3, <1>4, <1>5 DEF CoreInv, UseInv
    <3> QED
      BY <3>1, <3>2
  <2>3. \A j, k \in Inv : node'[j] # None /\ node'[j] = node'[k] => j = k
    BY <1>3, <1>5 DEF CoreInv, UseInv
  <2>4. \A m \in pinned' : pool'[m] # None /\ pool'[m].busy = 1
    BY <2>1, <1>4, <1>5 DEF CoreInv, UseInv
  <2>5. ASSUME NEW m \in Node, pool'[m] # None, pool'[m].busy # 0
        PROVE  m \in pinned' \/ \E j \in Inv : node'[j] = m
    <3>1. CASE m = n
      BY <3>1, <1>3
    <3>2. CASE m # n
      <4>1. m \in pinned \/ \E j \in Inv : node[j] = m
        BY <3>2, <2>5, <1>4 DEF CoreInv, UseInv
      <4>2. node[i] = None
        BY DEF CoreInv, UseInv, Using, Exchange
      <4>3. \A j \in Inv : node[j] = m => j # i
        BY <4>2, PoolAssumption
      <4> QED
        BY <4>1, <4>3, <1>3
    <3> QED
      BY <3>1, <3>2
  <2> QED
    BY <2>2, <2>3, <2>4, <2>5 DEF UseInv
<1>9. CountInv'
  BY <1>1, <1>2 DEF CoreInv, CountInv
<1> QED
  BY <1>7, <1>8, <1>9 DEF CoreInv

\* An idle instance of the same package gets one user (pool_acquire).
LEMMA CoreAcquireIdle ==
    ASSUME CoreInv, NEW i \in Inv, NEW n \in Node, AcquireIdle(i, n) PROVE CoreInv'
<1>1. n \in Node /\ pool[n] # None /\ pool[n].key = sha[i] /\ pool[n].busy = 0
      /\ pool[n] \in Instance
  BY DEF AcquireIdle, CoreInv, TypeOK, Idle, Same, Listed
<1> DEFINE p == [pool[n] EXCEPT !.busy = @ + 1]
<1>2. p \in Instance /\ p.key = sha[i] /\ p.busy = 1
  BY <1>1 DEF Instance
<1>3. pool' = [pool EXCEPT ![n] = p]
  BY <1>1 DEF AcquireIdle, CoreInv, TypeOK
<1> HIDE DEF p
<1>4. Listed' = Listed
  BY <1>1, <1>2, <1>3, SameListed DEF CoreInv
<1>5. pp_count' = Cardinality(Listed') /\ pp_count' \in Nat
  BY <1>4 DEF AcquireIdle, CoreInv, CountInv, TypeOK
<1>6. pc[i] = "acquire" /\ Acquired(i, n)
  BY DEF AcquireIdle
<1> QED
  BY <1>1, <1>2, <1>3, <1>5, <1>6, CoreAcquire

\* A new instance adds one listed node, with the caller's identity.
LEMMA NewListed ==
    ASSUME CoreInv, NEW i \in Inv, NEW n \in Node, AcquireNew(i, n)
    PROVE  /\ Fresh(sha[i]) \in Instance /\ Fresh(sha[i]).key = sha[i] /\ Fresh(sha[i]).busy = 1
           /\ pool' = [pool EXCEPT ![n] = Fresh(sha[i])]
           /\ n \notin Listed /\ Listed' = Listed \cup {n}
           /\ \A k : Keyed(k)' = IF k = sha[i] THEN Keyed(k) \cup {n} ELSE Keyed(k)
<1> USE DEF AcquireNew
<1>1. sha[i] \in Content
  BY DEF CoreInv, UseInv
<1>2. /\ Fresh(sha[i]) \in Instance /\ Fresh(sha[i]).key = sha[i] /\ Fresh(sha[i]).busy = 1
  <2>1. <<>> \in Seq(Inv \cup {Stray})
    OBVIOUS
  <2> QED
    BY <1>1, <2>1 DEF Fresh, Instance
<1>3. /\ pool'[n] = Fresh(sha[i]) /\ Fresh(sha[i]) # None
      /\ \A m \in Node : m # n => pool'[m] = pool[m]
  BY <1>2, NoNodeAssumption DEF CoreInv, TypeOK
<1>4. n \notin Listed /\ Listed' = Listed \cup {n}
  BY <1>3 DEF Listed
<1>5. \A k : Keyed(k)' = IF k = sha[i] THEN Keyed(k) \cup {n} ELSE Keyed(k)
  BY <1>2, <1>3, <1>4 DEF Keyed, Listed
<1> QED
  BY <1>2, <1>4, <1>5

\* A free place gets an instance of the call's package with one user.
LEMMA CoreAcquireNew ==
    ASSUME CoreInv, NEW i \in Inv, NEW n \in Node, AcquireNew(i, n) PROVE CoreInv'
<1>1. /\ Fresh(sha[i]) \in Instance /\ Fresh(sha[i]).key = sha[i] /\ Fresh(sha[i]).busy = 1
      /\ pool' = [pool EXCEPT ![n] = Fresh(sha[i])]
      /\ n \notin Listed /\ Listed' = Listed \cup {n}
  BY NewListed
<1>2. IsFiniteSet(Listed) /\ Cardinality(Listed) \in Nat
  BY NodesFinite DEF Listed
<1>3. Cardinality(Listed') = Cardinality(Listed) + 1
  BY <1>1, <1>2, FS_AddElement
<1>4. pc[i] = "acquire" /\ Acquired(i, n) /\ pp_count' = pp_count + 1
  BY DEF AcquireNew
<1>5. pp_count' = Cardinality(Listed') /\ pp_count' \in Nat
  BY <1>2, <1>3, <1>4 DEF CoreInv, CountInv
<1>6. pool[n] = None
  BY <1>1 DEF Listed
<1> QED
  BY <1>1, <1>4, <1>5, <1>6, CoreAcquire

\* A call gives its instance back.
LEMMA CoreRelease == ASSUME CoreInv, NEW i \in Inv, Release(i) PROVE CoreInv'
<1> USE DEF Release, Goto
<1>1. /\ node[i] \in Node /\ node[i] \notin pinned /\ node[i] # None
      /\ Mine(i) \in Instance /\ Mine(i).busy = 1 /\ pool[node[i]] # None
  BY MineType DEF CoreInv, Using, UseInv
<1> DEFINE p == [Mine(i) EXCEPT !.busy = 0]
<1>2. p \in Instance /\ p.key = Mine(i).key /\ p.busy = 0
  BY <1>1 DEF Instance
<1>3. pool' = [pool EXCEPT ![node[i]] = p]
  BY <1>1 DEF SetInstance
<1> HIDE DEF p
<1>4. /\ pool' \in [Node -> Instance \cup {None}]
      /\ Listed' = Listed
      /\ \A m \in Node : m # node[i] => pool'[m] = pool[m]
      /\ pool'[node[i]] = p /\ p # None
  BY <1>1, <1>2, <1>3, SameListed DEF CoreInv, Mine
<1>5. pc' \in [Inv -> PCs] /\ pc'[i] = "done" /\ \A j \in Inv : j # i => pc'[j] = pc[j]
  BY DEF CoreInv, TypeOK, PCs
<1>6. /\ node' \in [Inv -> Node \cup {None}] /\ node'[i] = None
      /\ \A j \in Inv : j # i => node'[j] = node[j]
  BY DEF CoreInv, TypeOK
<1>7. TypeOK'
  BY <1>4, <1>5, <1>6 DEF CoreInv, TypeOK
<1>8. UseInv'
  <2>1. pinned \subseteq Node /\ \A j \in Inv : node[j] # None => node[j] \in Node
    BY DEF CoreInv, TypeOK
  <2>2. \A j \in Inv : j # i /\ node[j] # None => node[j] # node[i]
    BY DEF CoreInv, UseInv
  <2>3. ASSUME NEW j \in Inv
        PROVE  /\ node'[j] # None <=> pc'[j] \in Using
               /\ node'[j] # None =>
                     /\ node'[j] \notin pinned'
                     /\ pool'[node'[j]] # None /\ pool'[node'[j]].busy = 1
                     /\ pool'[node'[j]].key = sha'[j] /\ sha'[j] \in Content
               /\ pc'[j] = "acquire" => sha'[j] \in Content
    <3>1. CASE j = i
      BY <3>1, <1>5, <1>6 DEF Using, Exchange
    <3>2. CASE j # i
      BY <3>2, <2>1, <2>2, <1>4, <1>5, <1>6 DEF CoreInv, UseInv
    <3> QED
      BY <3>1, <3>2
  <2>4. \A j, k \in Inv : node'[j] # None /\ node'[j] = node'[k] => j = k
    BY <1>6 DEF CoreInv, UseInv
  <2>5. \A m \in pinned' : pool'[m] # None /\ pool'[m].busy = 1
    BY <2>1, <1>1, <1>4 DEF CoreInv, UseInv
  <2>6. ASSUME NEW m \in Node, pool'[m] # None, pool'[m].busy # 0
        PROVE  m \in pinned' \/ \E j \in Inv : node'[j] = m
    <3>1. m # node[i]
      BY <2>6, <1>2, <1>4
    <3>2. m \in pinned \/ \E j \in Inv : node[j] = m
      BY <3>1, <2>6, <1>4 DEF CoreInv, UseInv
    <3> QED
      BY <3>1, <3>2, <1>6
  <2> QED
    BY <2>3, <2>4, <2>5, <2>6 DEF UseInv
<1>9. CountInv'
  BY <1>4, <1>5 DEF CoreInv, CountInv, Waiters
<1> QED
  BY <1>7, <1>8, <1>9 DEF CoreInv

\* The supervisor pins the instances nobody uses.
LEMMA PinListed ==
    ASSUME TypeOK, WorkerPin
    PROVE  /\ pool' \in [Node -> Instance \cup {None}]
           /\ Listed' = Listed
           /\ \A k : Keyed(k)' = Keyed(k)
           /\ \A n \in Node : pool[n] = None => pool'[n] = None
           /\ \A n \in Listed : /\ pool'[n] # None
                                /\ pool[n].busy # 0 => pool'[n] = pool[n] /\ n \notin pinned'
                                /\ pool[n].busy = 0 =>
                                     pool'[n] = [pool[n] EXCEPT !.busy = 1] /\ n \in pinned'
<1> USE DEF WorkerPin
<1>1. ASSUME NEW n \in Listed, pool[n].busy = 0
      PROVE  /\ pool'[n] = [pool[n] EXCEPT !.busy = 1]
             /\ pool'[n] \in Instance /\ pool'[n].key = pool[n].key /\ n \in pinned'
  BY ZenonT(40), <1>1 DEF TypeOK, Listed, Instance
<1>2. ASSUME NEW n \in Listed, pool[n].busy # 0
      PROVE  pool'[n] = pool[n] /\ pool'[n] \in Instance /\ n \notin pinned'
  BY <1>2 DEF TypeOK, Listed
<1>3. ASSUME NEW n \in Node, pool[n] = None PROVE pool'[n] = None
  BY <1>3 DEF TypeOK, Listed
<1>4. pool' \in [Node -> Instance \cup {None}]
  <2>1. \A n \in Node : pool'[n] \in Instance \cup {None}
    BY <1>1, <1>2, <1>3 DEF Listed
  <2> QED
    BY <2>1
<1>5. \A n \in Listed : pool'[n] # None /\ pool'[n].key = pool[n].key
  BY <1>1, <1>2, NoNodeAssumption
<1>6. Listed' = Listed
  BY <1>3, <1>5 DEF Listed
<1>7. \A k : Keyed(k)' = Keyed(k)
  BY <1>5, <1>6 DEF Keyed
<1> QED
  BY <1>1, <1>2, <1>3, <1>4, <1>5, <1>6, <1>7

\* The supervisor pins idle instances only, and they become busy.
LEMMA CorePin == ASSUME CoreInv, WorkerPin PROVE CoreInv'
<1>1. /\ pool' \in [Node -> Instance \cup {None}]
      /\ Listed' = Listed
      /\ \A n \in Node : pool[n] = None => pool'[n] = None
      /\ \A n \in Listed : /\ pool'[n] # None
                           /\ pool[n].busy # 0 => pool'[n] = pool[n] /\ n \notin pinned'
                           /\ pool[n].busy = 0 =>
                                pool'[n] = [pool[n] EXCEPT !.busy = 1] /\ n \in pinned'
  BY PinListed DEF CoreInv
<1>2. /\ pinned' = {n \in Listed : pool[n].busy = 0} /\ pp_count' = pp_count
      /\ UNCHANGED <<pc, sha, node, signalVars, waiting, verdict, pp_waiters, worldVars,
                     historyVars>>
  BY DEF WorkerPin, WorkerStep
<1>3. TypeOK'
  BY <1>1, <1>2 DEF CoreInv, TypeOK, Listed
<1>4. UseInv'
  <2>1. \A j \in Inv : node[j] # None =>
           /\ node[j] \in Listed /\ pool'[node[j]] = pool[node[j]] /\ node[j] \notin pinned'
    BY <1>1, <1>2 DEF CoreInv, TypeOK, UseInv, Listed
  <2>2. \A n \in pinned' : pool'[n] # None /\ pool'[n].busy = 1
    BY <1>1, <1>2 DEF CoreInv, TypeOK, Instance, Listed
  <2>3. ASSUME NEW n \in Node, pool'[n] # None, pool'[n].busy # 0
        PROVE  n \in pinned' \/ \E j \in Inv : node'[j] = n
    <3>1. n \in Listed
      BY <2>3, <1>1 DEF Listed
    <3>2. CASE pool[n].busy = 0
      BY <3>1, <3>2, <1>1
    <3>3. CASE pool[n].busy # 0
      <4>1. n \notin pinned
        BY DEF WorkerPin
      <4>2. \E j \in Inv : node[j] = n
        BY <4>1, <3>1, <3>3 DEF CoreInv, UseInv, Listed
      <4> QED
        BY <4>2, <1>2
    <3> QED
      BY <3>2, <3>3
  <2> QED
    BY <2>1, <2>2, <2>3, <1>2 DEF CoreInv, UseInv
<1>5. CountInv'
  BY <1>1, <1>2 DEF CoreInv, CountInv, Waiters
<1> QED
  BY <1>3, <1>4, <1>5 DEF CoreInv

\* ... keeps an instance ...
LEMMA CoreKeep == ASSUME CoreInv, NEW n \in Node, WorkerKeep(n) PROVE CoreInv'
<1>1. /\ n \in pinned /\ pinned' = pinned \ {n} /\ pp_count' = pp_count
      /\ pool' = [pool EXCEPT ![n].busy = 0]
      /\ UNCHANGED <<pc, sha, node, signalVars, waiting, verdict, pp_waiters, worldVars,
                     historyVars>>
  BY DEF WorkerKeep, WorkerStep
<1>2. pool[n] \in Instance /\ pool[n] # None /\ pool[n].busy = 1
  BY <1>1 DEF CoreInv, TypeOK, UseInv
<1> DEFINE p == [pool[n] EXCEPT !.busy = 0]
<1>3. p \in Instance /\ p.key = pool[n].key /\ p.busy = 0
  BY <1>2 DEF Instance
<1>4. pool' = [pool EXCEPT ![n] = p]
  BY <1>1
<1> HIDE DEF p
<1>5. /\ pool' \in [Node -> Instance \cup {None}]
      /\ Listed' = Listed
      /\ \A m \in Node : m # n => pool'[m] = pool[m]
      /\ pool'[n] = p /\ p # None
  BY <1>2, <1>3, <1>4, SameListed DEF CoreInv
<1>6. \A j \in Inv : node[j] # n
  BY <1>1, PoolAssumption DEF CoreInv, UseInv
<1>7. TypeOK'
  BY <1>1, <1>5 DEF CoreInv, TypeOK
<1>8. UseInv'
  <2>1. pinned \subseteq Node /\ \A j \in Inv : node[j] # None => node[j] \in Node
    BY DEF CoreInv, TypeOK
  <2>2. \A j \in Inv : node[j] # None => pool'[node[j]] = pool[node[j]]
    BY <2>1, <1>5, <1>6
  <2>3. \A m \in pinned' : pool'[m] # None /\ pool'[m].busy = 1
    BY <2>1, <1>1, <1>5 DEF CoreInv, UseInv
  <2>4. ASSUME NEW m \in Node, pool'[m] # None, pool'[m].busy # 0
        PROVE  m \in pinned' \/ \E j \in Inv : node'[j] = m
    <3>1. m # n
      BY <2>4, <1>3, <1>5
    <3>2. m \in pinned \/ \E j \in Inv : node[j] = m
      BY <3>1, <2>4, <1>5 DEF CoreInv, UseInv
    <3> QED
      BY <3>1, <3>2, <1>1
  <2> QED
    BY <2>1, <2>2, <2>3, <2>4, <1>1 DEF CoreInv, UseInv
<1>9. CountInv'
  BY <1>1, <1>5 DEF CoreInv, CountInv, Waiters
<1> QED
  BY <1>7, <1>8, <1>9 DEF CoreInv

\* ... or retires it.
LEMMA RetireListed ==
    ASSUME CoreInv, NEW n \in Node, WorkerRetire(n)
    PROVE  /\ n \in Listed /\ Listed' = Listed \ {n}
           /\ \A k : Keyed(k)' \subseteq Keyed(k)
           /\ pool' \in [Node -> Instance \cup {None}] /\ pool'[n] = None
           /\ \A m \in Node : m # n => pool'[m] = pool[m]
           /\ \A j \in Inv : node[j] # n
<1>1. n \in pinned /\ pool' = [pool EXCEPT ![n] = None]
  BY DEF WorkerRetire
<1>2. pool[n] # None /\ \A j \in Inv : node[j] # n
  BY <1>1, PoolAssumption DEF CoreInv, UseInv
<1>3. /\ pool' \in [Node -> Instance \cup {None}] /\ pool'[n] = None
      /\ \A m \in Node : m # n => pool'[m] = pool[m]
  BY <1>1 DEF CoreInv, TypeOK
<1>4. n \in Listed /\ Listed' = Listed \ {n}
  BY <1>2, <1>3 DEF Listed
<1>5. \A k : Keyed(k)' \subseteq Keyed(k)
  BY <1>2, <1>3 DEF Keyed, Listed
<1> QED
  BY <1>2, <1>3, <1>4, <1>5

\* A pinned instance leaves the pool with its pin.
LEMMA CoreRetire == ASSUME CoreInv, NEW n \in Node, WorkerRetire(n) PROVE CoreInv'
<1>1. /\ n \in pinned /\ pinned' = pinned \ {n} /\ pp_count' = pp_count - 1
      /\ UNCHANGED <<pc, sha, node, signalVars, waiting, verdict, pp_waiters, worldVars,
                     historyVars>>
  BY DEF WorkerRetire, WorkerStep
<1>2. /\ n \in Listed /\ Listed' = Listed \ {n}
      /\ pool' \in [Node -> Instance \cup {None}] /\ pool'[n] = None
      /\ \A m \in Node : m # n => pool'[m] = pool[m]
      /\ \A j \in Inv : node[j] # n
  BY RetireListed
<1>3. IsFiniteSet(Listed) /\ Cardinality(Listed) \in Nat /\ Cardinality(Listed') \in Nat
  BY NodesFinite DEF Listed
<1>4. Cardinality(Listed') = Cardinality(Listed) - 1
  BY <1>2, <1>3, FS_RemoveElement
<1>5. pp_count' = Cardinality(Listed') /\ pp_count' \in Nat
  BY <1>1, <1>3, <1>4 DEF CoreInv, CountInv
<1>6. TypeOK'
  BY <1>1, <1>2, <1>5 DEF CoreInv, TypeOK
<1>7. UseInv'
  <2>1. pinned \subseteq Node /\ \A j \in Inv : node[j] # None => node[j] \in Node
    BY DEF CoreInv, TypeOK
  <2>2. \A j \in Inv : node[j] # None => pool'[node[j]] = pool[node[j]]
    BY <2>1, <1>2
  <2>3. \A m \in pinned' : pool'[m] # None /\ pool'[m].busy = 1
    BY <2>1, <1>1, <1>2 DEF CoreInv, UseInv
  <2>4. ASSUME NEW m \in Node, pool'[m] # None, pool'[m].busy # 0
        PROVE  m \in pinned' \/ \E j \in Inv : node'[j] = m
    <3>1. m # n
      BY <2>4, <1>2
    <3>2. m \in pinned \/ \E j \in Inv : node[j] = m
      BY <3>1, <2>4, <1>2 DEF CoreInv, UseInv
    <3> QED
      BY <3>1, <3>2, <1>1
  <2> QED
    BY <2>1, <2>2, <2>3, <2>4, <1>1 DEF CoreInv, UseInv
<1>8. CountInv'
  BY <1>1, <1>5 DEF CoreInv, CountInv, Waiters
<1> QED
  BY <1>6, <1>7, <1>8 DEF CoreInv

\* What a tool does to its process changes neither identity nor user.
ToolDoes(n) == ToolWrites(n) \/ ToolExits(n) \/ BackoffElapses(n)

\* What a tool writes or how it ends changes its own instance, not who uses it.
LEMMA ToolIsLocal ==
    ASSUME TypeOK, NEW n \in Node, ToolDoes(n)
    PROVE  /\ n \in Listed
           /\ \E p \in Instance : /\ pool' = [pool EXCEPT ![n] = p]
                                  /\ p.key = pool[n].key /\ p.busy = pool[n].busy
           /\ UNCHANGED <<pc, sha, node, signalVars, waiting, verdict, countVars, pinned,
                          worldVars, historyVars>>
<1>1. CASE ToolWrites(n)
  <2>1. pool[n] \in Instance /\ n \in Listed
    BY <1>1 DEF ToolWrites, TypeOK, Listed
  <2>2. PICK line \in pool[n].heard \cup (IF polite THEN {} ELSE {Stray}) :
           ToolStep(n, [pool[n] EXCEPT !.stream = Append(@, line),
                                       !.heard = IF polite THEN @ \ {line} ELSE @])
    BY <1>1 DEF ToolWrites
  <2> DEFINE p == [pool[n] EXCEPT !.stream = Append(@, line),
                                  !.heard = IF polite THEN @ \ {line} ELSE @]
  <2>3. line \in Inv \cup {Stray} /\ pool[n].stream \in Seq(Inv \cup {Stray})
        /\ pool[n].heard \subseteq Inv
    BY <2>1, <2>2 DEF Instance
  <2>4. Append(pool[n].stream, line) \in Seq(Inv \cup {Stray})
    BY <2>3
  <2>5. p \in Instance /\ p.key = pool[n].key /\ p.busy = pool[n].busy
    BY <2>1, <2>3, <2>4 DEF Instance
  <2>6. ToolStep(n, p)
    BY <2>2
  <2> HIDE DEF p
  <2> QED
    BY <2>1, <2>5, <2>6 DEF ToolStep
<1>2. CASE ToolExits(n)
  <2>1. pool[n] \in Instance /\ n \in Listed
    BY <1>2 DEF ToolExits, TypeOK, Listed
  <2> DEFINE p == [pool[n] EXCEPT !.proc = "exited"]
  <2>2. p \in Instance /\ p.key = pool[n].key /\ p.busy = pool[n].busy
    BY <2>1 DEF Instance
  <2>3. ToolStep(n, p)
    BY <1>2 DEF ToolExits
  <2> HIDE DEF p
  <2> QED
    BY <2>1, <2>2, <2>3 DEF ToolStep
<1>3. CASE BackoffElapses(n)
  <2>1. pool[n] \in Instance /\ n \in Listed
    BY <1>3 DEF BackoffElapses, TypeOK, Listed
  <2> DEFINE p == [pool[n] EXCEPT !.backoff = FALSE]
  <2>2. p \in Instance /\ p.key = pool[n].key /\ p.busy = pool[n].busy
    BY <2>1 DEF Instance
  <2>3. ToolStep(n, p)
    BY <1>3 DEF BackoffElapses
  <2> HIDE DEF p
  <2> QED
    BY <2>1, <2>2, <2>3 DEF ToolStep
<1> QED
  BY <1>1, <1>2, <1>3 DEF ToolDoes

\* So a tool disturbs neither users nor counters.
LEMMA CoreTool == ASSUME CoreInv, NEW n \in Node, ToolDoes(n) PROVE CoreInv'
<1>1. /\ n \in Listed
      /\ UNCHANGED <<pc, sha, node, signalVars, waiting, verdict, countVars, pinned,
                     worldVars, historyVars>>
  BY ToolIsLocal DEF CoreInv
<1>2. PICK p \in Instance : /\ pool' = [pool EXCEPT ![n] = p]
                            /\ p.key = pool[n].key /\ p.busy = pool[n].busy
  BY ToolIsLocal DEF CoreInv
<1>3. /\ pool' \in [Node -> Instance \cup {None}]
      /\ Listed' = Listed
      /\ \A m \in Node : m # n => pool'[m] = pool[m]
      /\ pool'[n] = p /\ p # None /\ pool[n] # None
  BY <1>1, <1>2, SameListed DEF CoreInv, Listed
<1>4. TypeOK'
  BY <1>1, <1>3 DEF CoreInv, TypeOK
<1>5. UseInv'
  <2>1. pinned \subseteq Node /\ \A j \in Inv : node[j] # None => node[j] \in Node
    BY DEF CoreInv, TypeOK
  <2>2. \A m \in Node : /\ pool'[m] # None <=> pool[m] # None
                        /\ pool[m] # None => pool'[m].key = pool[m].key
                                             /\ pool'[m].busy = pool[m].busy
    BY <1>2, <1>3
  <2> QED
    BY <2>1, <2>2, <1>1 DEF CoreInv, UseInv
<1>6. CountInv'
  BY <1>1, <1>3 DEF CoreInv, CountInv, Waiters
<1> QED
  BY <1>4, <1>5, <1>6 DEF CoreInv

\* Signals, replacements of the package and publications leave the pool alone.
Outside ==
    \/ \E i \in Inv : Cancel(i) \/ Expire(i)
    \/ EditDisk \/ Rescan
    \/ AllDone
    \/ UNCHANGED vars

\* Signals, replaced packages and scans touch no instance.
LEMMA CoreOutside == ASSUME CoreInv, Outside PROVE CoreInv'
<1>1. UNCHANGED <<pc, sha, node, waiting, verdict, pool, countVars, pinned, polite,
                  delivered, answer>>
  BY DEF Outside, Cancel, Expire, EditDisk, Rescan, AllDone, vars
<1>2. UseInv' /\ CountInv'
  BY <1>1 DEF CoreInv, UseInv, CountInv, Listed, Waiters
<1>3. /\ cancelled' \in [Inv -> BOOLEAN] /\ expired' \in [Inv -> BOOLEAN]
      /\ disk' \in Content \cup {None} /\ table' \in Content \cup {None}
      /\ edits' \in 0..MaxEdits
  <2>1. CASE EditDisk
    BY <2>1, PoolAssumption DEF EditDisk, CoreInv, TypeOK
  <2>2. CASE Rescan
    BY <2>2 DEF Rescan, CoreInv, TypeOK
  <2>3. ASSUME NEW i \in Inv, Cancel(i) \/ Expire(i)
        PROVE  /\ cancelled' \in [Inv -> BOOLEAN] /\ expired' \in [Inv -> BOOLEAN]
               /\ UNCHANGED worldVars
    BY <2>3 DEF Cancel, Expire, CoreInv, TypeOK
  <2>4. CASE UNCHANGED vars
    BY <2>4 DEF vars, CoreInv, TypeOK
  <2> QED
    BY <2>1, <2>2, <2>3, <2>4 DEF Outside, AllDone, CoreInv, TypeOK
<1>4. since' \in [Inv -> [disk : SUBSET (Content \cup {None}), table : SUBSET (Content \cup {None})]]
  <2>1. CASE UNCHANGED since
    BY <2>1 DEF CoreInv, TypeOK
  <2>2. ASSUME NEW bytes \in Content \cup {None}, NEW entry \in Content \cup {None},
               Seen(bytes, entry)
        PROVE  since' \in [Inv -> [disk : SUBSET (Content \cup {None}),
                                   table : SUBSET (Content \cup {None})]]
    BY <2>2 DEF Seen, CoreInv, TypeOK
  <2> QED
    BY <2>1, <2>2 DEF Outside, Cancel, Expire, EditDisk, Rescan, AllDone, vars, CoreInv, TypeOK
<1>5. TypeOK'
  BY <1>1, <1>3, <1>4 DEF CoreInv, TypeOK
<1> QED
  BY <1>2, <1>5 DEF CoreInv

\* Every step is one of those above.
LEMMA NextCases ==
    ASSUME [Next]_vars
    PROVE  \/ \E i \in Inv : \/ Begin(i) \/ AcquireWait(i) \/ Release(i) \/ ExchangeStep(i)
                             \/ AcquireCancelled(i) \/ AcquireTimeout(i) \/ AcquireBusy(i)
                             \/ \E n \in Node : AcquireIdle(i, n) \/ AcquireNew(i, n)
           \/ WorkerPin
           \/ \E n \in Node : WorkerKeep(n) \/ WorkerRetire(n) \/ ToolDoes(n)
           \/ Outside
BY DEF Next, InvocationStep, ToolDependent, ExchangeStep, Worker, ToolDoes, Outside

\* The pool is empty at the start.
LEMMA InitCore == Init => CoreInv
<1> SUFFICES ASSUME Init PROVE CoreInv
  OBVIOUS
<1>1. TypeOK
  BY PoolAssumption DEF Init, TypeOK, PCs, Verdicts
<1>2. UseInv
  BY DEF Init, UseInv, Using, Exchange
<1>3. Listed = {} /\ Waiters = {}
  BY DEF Init, Listed, Waiters
<1>4. CountInv
  BY <1>3, FS_EmptySet DEF Init, CountInv
<1> QED
  BY <1>1, <1>2, <1>4 DEF CoreInv

\* Users, waiters and counters stay exact through every step.
LEMMA NextCore == CoreInv /\ [Next]_vars => CoreInv'
<1> SUFFICES ASSUME CoreInv, [Next]_vars PROVE CoreInv'
  OBVIOUS
<1> QED
  BY NextCases, CoreBegin, CoreWait, CoreRelease, CoreExchange, CoreGivesUp, CoreAcquireIdle,
     CoreAcquireNew, CorePin, CoreKeep, CoreRetire, CoreTool, CoreOutside

\* The variables keep their types.
THEOREM PoolTypes == Spec => []TypeOK
<1>1. CoreInv => TypeOK
  BY DEF CoreInv
<1> QED
  BY <1>1, InitCore, NextCore, PTL DEF Spec

\* No instance is used by two invocations, or by one while the supervisor has
\* pinned it, or freed under its user; busy says so exactly.
THEOREM InstancesExclusive == Spec => []ExclusiveUse
<1>1. CoreInv => ExclusiveUse
  <2> SUFFICES ASSUME CoreInv, NEW n \in Node
               PROVE  /\ n \in pinned \/ Users(n) # {} => pool[n] # None /\ pool[n].busy = 1
                      /\ pool[n] # None =>
                           pool[n].busy = Cardinality(Users(n)) + (IF n \in pinned THEN 1 ELSE 0)
    BY DEF ExclusiveUse
  <2>1. n # None /\ (pool[n] # None => pool[n].busy \in Nat)
    BY PoolAssumption DEF CoreInv, TypeOK, Instance
  <2>2. CASE Users(n) = {}
    <3>1. Cardinality(Users(n)) = 0
      BY <2>2, FS_EmptySet
    <3> QED
      BY <2>1, <2>2, <3>1 DEF CoreInv, UseInv, Users
  <2>3. ASSUME NEW i \in Users(n) PROVE /\ Users(n) = {i} /\ n \notin pinned
                                        /\ pool[n] # None /\ pool[n].busy = 1
    BY <2>1, <2>3 DEF CoreInv, UseInv, Users
  <2>4. CASE Users(n) # {}
    <3>1. PICK i \in Users(n) : TRUE
      BY <2>4
    <3>2. Cardinality(Users(n)) = 1
      BY <2>3, FS_Singleton
    <3> QED
      BY <2>3, <3>1, <3>2
  <2> QED
    BY <2>2, <2>4
<1> QED
  BY <1>1, InitCore, NextCore, PTL DEF Spec

(***************************************************************************)
(* What the pool holds: its bounds.                                        *)
(***************************************************************************)

BoundInv ==
    /\ \A k \in Content : Cardinality(Keyed(k)) <= Parallel
    /\ Cardinality(Listed) <= InstanceLimit

\* Only a new instance and a retired one change what is listed.
LEMMA ListedSteps ==
    ASSUME CoreInv, [Next]_vars
    PROVE  \/ \E i \in Inv, n \in Node : AcquireNew(i, n)
           \/ \E n \in Node : WorkerRetire(n)
           \/ Listed' = Listed /\ \A k : Keyed(k)' = Keyed(k)
<1> DEFINE Steady == Listed' = Listed /\ \A k : Keyed(k)' = Keyed(k)
           Replaced == \E n \in Node, p \in Instance :
                          /\ pool[n] # None /\ p.key = pool[n].key
                          /\ pool' = [pool EXCEPT ![n] = p]
<1>1. Replaced => Steady
  BY SameListed DEF CoreInv
<1>2. UNCHANGED pool => Steady
  BY DEF Listed, Keyed
<1>3. ASSUME NEW i \in Inv, ExchangeStep(i) PROVE Replaced
  <2>1. /\ node[i] \in Node /\ pool[node[i]] # None
        /\ \E p \in Instance : pool' = [pool EXCEPT ![node[i]] = p] /\ p.key = pool[node[i]].key
    BY <1>3, ExchangeIsLocal, MineType DEF Local, Mine, CoreInv, UseInv, Using
  <2> QED
    BY <2>1
<1>4. ASSUME NEW i \in Inv, NEW n \in Node, AcquireIdle(i, n) PROVE Replaced
  <2>1. pool[n] # None /\ pool[n] \in Instance
    BY <1>4 DEF AcquireIdle, CoreInv, TypeOK, Idle, Same, Listed
  <2> DEFINE p == [pool[n] EXCEPT !.busy = @ + 1]
  <2>2. p \in Instance /\ p.key = pool[n].key
    BY <2>1 DEF Instance
  <2>3. pool' = [pool EXCEPT ![n] = p]
    BY <1>4 DEF AcquireIdle
  <2> HIDE DEF p
  <2> QED
    BY <2>1, <2>2, <2>3
<1>5. ASSUME NEW i \in Inv, Release(i) PROVE Replaced
  <2>1. node[i] \in Node /\ pool[node[i]] # None /\ pool[node[i]] \in Instance
    BY <1>5, MineType DEF Release, Mine, CoreInv, UseInv, Using
  <2> DEFINE p == [Mine(i) EXCEPT !.busy = IF @ > 0 THEN @ - 1 ELSE @]
  <2>2. p \in Instance /\ p.key = pool[node[i]].key
    BY <2>1 DEF Instance, Mine
  <2>3. pool' = [pool EXCEPT ![node[i]] = p]
    BY <1>5 DEF Release, SetInstance
  <2> HIDE DEF p
  <2> QED
    BY <2>1, <2>2, <2>3
<1>6. ASSUME NEW n \in Node, WorkerKeep(n) PROVE Replaced
  <2>1. pool[n] # None /\ pool[n] \in Instance
    BY <1>6 DEF WorkerKeep, CoreInv, TypeOK, UseInv
  <2> DEFINE p == [pool[n] EXCEPT !.busy = 0]
  <2>2. p \in Instance /\ p.key = pool[n].key
    BY <2>1 DEF Instance
  <2>3. pool' = [pool EXCEPT ![n] = p]
    BY <1>6 DEF WorkerKeep
  <2> HIDE DEF p
  <2> QED
    BY <2>1, <2>2, <2>3
<1>7. ASSUME NEW n \in Node, ToolDoes(n) PROVE Replaced
  <2>1. n \in Node /\ pool[n] # None
        /\ \E p \in Instance : pool' = [pool EXCEPT ![n] = p] /\ p.key = pool[n].key
    BY <1>7, ToolIsLocal DEF CoreInv, Listed
  <2> QED
    BY <2>1
<1>8. WorkerPin => Steady
  BY PinListed DEF CoreInv
<1>9. ASSUME NEW i \in Inv, Begin(i) \/ AcquireWait(i) \/ AcquireCancelled(i)
                            \/ AcquireTimeout(i) \/ AcquireBusy(i)
      PROVE  UNCHANGED pool
  BY <1>9 DEF Begin, AcquireWait, AcquireCancelled, AcquireTimeout, AcquireBusy
<1>10. Outside => UNCHANGED pool
  BY DEF Outside, Cancel, Expire, EditDisk, Rescan, AllDone, vars
<1> HIDE DEF Steady, Replaced
<1>11. \/ \E i \in Inv, n \in Node : AcquireNew(i, n)
       \/ \E n \in Node : WorkerRetire(n)
       \/ Steady
  BY NextCases, <1>1, <1>2, <1>3, <1>4, <1>5, <1>6, <1>7, <1>8, <1>9, <1>10
<1> QED
  BY <1>11 DEF Steady

\* A place is filled only below the limits of the pool and of the package.
LEMMA NextBound == ASSUME CoreInv, BoundInv, [Next]_vars PROVE BoundInv'
<1>1. /\ IsFiniteSet(Listed) /\ Cardinality(Listed) \in Nat
      /\ \A k : IsFiniteSet(Keyed(k)) /\ Cardinality(Keyed(k)) \in Nat
  BY NodesFinite DEF Listed, Keyed
<1>2. ASSUME NEW i \in Inv, NEW n \in Node, AcquireNew(i, n) PROVE BoundInv'
  <2>1. /\ n \notin Listed /\ Listed' = Listed \cup {n}
        /\ \A k : Keyed(k)' = IF k = sha[i] THEN Keyed(k) \cup {n} ELSE Keyed(k)
    BY <1>2, NewListed
  <2>2. Cardinality(Listed) < InstanceLimit /\ Cardinality(Keyed(sha[i])) < Parallel
    BY <1>2 DEF AcquireNew, MayGrow, Same, Keyed
  <2>3. Cardinality(Listed') = Cardinality(Listed) + 1
    BY <1>1, <2>1, FS_AddElement
  <2>4. ASSUME NEW k \in Content PROVE Cardinality(Keyed(k)') <= Parallel
    <3>1. CASE k = sha[i]
      <4>1. n \notin Keyed(k) /\ Keyed(k)' = Keyed(k) \cup {n}
        BY <3>1, <2>1 DEF Keyed
      <4>2. Cardinality(Keyed(k)') = Cardinality(Keyed(k)) + 1
        BY <1>1, <4>1, FS_AddElement
      <4>3. Cardinality(Keyed(k)) < Parallel
        BY <3>1, <2>2
      <4> QED
        BY <1>1, <4>2, <4>3, PoolAssumption
    <3>2. CASE k # sha[i]
      BY <3>2, <2>1 DEF BoundInv
    <3> QED
      BY <3>1, <3>2
  <2>5. Cardinality(Listed') <= InstanceLimit
    BY <1>1, <2>2, <2>3, PoolAssumption
  <2> QED
    BY <2>4, <2>5 DEF BoundInv
<1>3. ASSUME NEW n \in Node, WorkerRetire(n) PROVE BoundInv'
  <2>1. Listed' \subseteq Listed /\ \A k : Keyed(k)' \subseteq Keyed(k)
    BY <1>3, RetireListed
  <2>2. Cardinality(Listed') <= Cardinality(Listed) /\ Cardinality(Listed') \in Nat
    BY <1>1, <2>1, FS_Subset, FS_CardinalityType
  <2>3. \A k : Cardinality(Keyed(k)') <= Cardinality(Keyed(k)) /\ Cardinality(Keyed(k)') \in Nat
    BY <1>1, <2>1, FS_Subset, FS_CardinalityType
  <2> QED
    BY <1>1, <2>2, <2>3, PoolAssumption DEF BoundInv
<1>4. CASE Listed' = Listed /\ \A k : Keyed(k)' = Keyed(k)
  BY <1>4 DEF BoundInv
<1> QED
  BY <1>2, <1>3, <1>4, ListedSteps

\* An empty pool is below every limit.
LEMMA InitBound == Init => BoundInv
<1> SUFFICES ASSUME Init PROVE BoundInv
  OBVIOUS
<1>1. Listed = {} /\ \A k : Keyed(k) = {}
  BY DEF Init, Listed, Keyed
<1> QED
  BY <1>1, FS_EmptySet, PoolAssumption DEF BoundInv

(***************************************************************************)
(* The processes: scratch directories and what is left in a stream.        *)
(***************************************************************************)

Preparing == {"revalidate", "resnapshot", "spawn"}
Talking == {"write", "read", "settle"}

\* Nothing read, nothing to be read.
Silent(p) == p.stream = <<>> /\ p.heard = {}

\* A polite tool still owes invocation x its answer, or has just given it.
Owing(x, p) == \/ p.heard = {x} /\ p.stream = <<>>
               \/ p.heard = {} /\ p.stream = <<x>>

\* The process of instance p while its user x is at a stage.
Sound(x, label, p) ==
    /\ p.scratch <=> p.proc # "none" \/ label \in Preparing
    /\ p.alive => p.proc # "none"
    /\ ~p.alive => Silent(p)
    /\ p.proc # "none" /\ ~p.alive => label = "hello"
    /\ label \in Preparing => p.proc = "none"
    /\ label = "hello" => ~p.alive
    /\ label \in Talking => p.alive
    /\ polite => Silent(p) \/ (label \in {"read", "settle"} /\ Owing(x, p))

InstInv ==
    /\ \A i \in Inv : node[i] # None => Sound(i, pc[i], Mine(i))
    /\ \A n \in Listed : (\A i \in Inv : node[i] # n) => Sound(None, "done", pool[n])

\* Where no process is used, the label does not matter.
Quiet == PCs \ (Preparing \cup Talking \cup {"hello"})

\* What stopping leaves, and what undoing the preparation changes.
LEMMA InstanceFields ==
    ASSUME NEW p \in Instance
    PROVE  /\ Stopped(p).proc = "none" /\ ~Stopped(p).alive /\ ~Stopped(p).scratch
           /\ Silent(Stopped(p))
           /\ BackedOff(p).proc = "none" /\ ~BackedOff(p).alive /\ ~BackedOff(p).scratch
           /\ Silent(BackedOff(p))
           /\ Unprepared(p).proc = p.proc /\ Unprepared(p).alive = p.alive
           /\ ~Unprepared(p).scratch
           /\ Unprepared(p).stream = p.stream /\ Unprepared(p).heard = p.heard
<1>1. /\ Stopped(p).proc = "none" /\ ~Stopped(p).alive /\ ~Stopped(p).scratch
      /\ Silent(Stopped(p))
  BY DEF Instance, Stopped, Silent
<1>2. ASSUME NEW q \in Instance
      PROVE  LET b == [q EXCEPT !.backoff = TRUE]
             IN  /\ b.proc = q.proc /\ b.alive = q.alive /\ b.scratch = q.scratch
                 /\ b.stream = q.stream /\ b.heard = q.heard
  BY DEF Instance
<1>3. /\ BackedOff(p).proc = "none" /\ ~BackedOff(p).alive /\ ~BackedOff(p).scratch
      /\ Silent(BackedOff(p))
  BY <1>1, <1>2, InstanceOps DEF BackedOff, Silent
<1>4. /\ Unprepared(p).proc = p.proc /\ Unprepared(p).alive = p.alive
      /\ ~Unprepared(p).scratch
      /\ Unprepared(p).stream = p.stream /\ Unprepared(p).heard = p.heard
  BY DEF Instance, Unprepared
<1> QED
  BY <1>1, <1>3, <1>4

\* Reading the only line of a stream leaves none.
LEMMA LastLine ==
    ASSUME NEW x \in Inv
    PROVE  Tail(<<x>>) = <<>>
<1> DEFINE t == <<x>>
<1>1. t \in Seq(Inv) /\ Len(t) = 1 /\ t # <<>>
  OBVIOUS
<1> HIDE DEF t
<1>2. Tail(t) \in Seq(Inv) /\ Len(Tail(t)) = 0
  BY <1>1
<1>3. ASSUME NEW s \in Seq(Inv), Len(s) = 0 PROVE s = <<>>
  BY <1>3
<1> QED
  BY <1>2, <1>3 DEF t

\* The process stays sound through every stage of an exchange.
LEMMA ExchangeSound ==
    ASSUME CoreInv, NEW i \in Inv, ExchangeStep(i), Sound(i, pc[i], Mine(i))
    PROVE  Sound(i, pc[i], Mine(i))'
<1> DEFINE m == Mine(i)
<1>0. /\ pc[i] \in Using /\ node[i] \in Node /\ m \in Instance /\ node' = node /\ polite' = polite
  BY ExchangeIsLocal, MineType DEF Local, CoreInv, Using
<1>k. ASSUME NEW label, Keep(i, label) PROVE pc'[i] = label /\ Mine(i)' = m
  BY <1>0, <1>k DEF Keep, Goto, Mine, CoreInv, TypeOK
<1>s. ASSUME NEW p, SetInstance(i, p) PROVE Mine(i)' = p
  BY <1>0, <1>s DEF SetInstance, Mine, CoreInv, TypeOK
<1>g. ASSUME NEW label, Goto(i, label) PROVE pc'[i] = label
  BY <1>0, <1>g DEF Goto, CoreInv, TypeOK
<1>e. ASSUME NEW label, NEW v, Ending(i, label, v) PROVE pc'[i] = label
  BY <1>0, <1>e DEF Ending, CoreInv, TypeOK
<1>a. ASSUME NEW p, NEW v, Abandon(i, p, v) PROVE pc'[i] = "release" /\ Mine(i)' = p
  BY <1>0, <1>a, <1>s, <1>e DEF Abandon
<1>b. Sound(i, "release", Stopped(m)) /\ Sound(i, "release", BackedOff(m))
  BY <1>0, InstanceFields DEF Sound, Preparing, Talking
<1>u. pc[i] \in Preparing => Sound(i, "release", Unprepared(m))
  BY <1>0, InstanceFields DEF Sound, Preparing, Talking, Silent, Owing
<1>p. ASSUME NEW label, NEW q PROVE Sound(i, label, q)' <=> Sound(i, label, q)
  BY <1>0 DEF Sound
<1> HIDE DEF m
<1> SUFFICES Sound(i, pc'[i], Mine(i)')
  BY <1>p
<1>1. CASE Validate(i)
  <2>1. Sound(i, "snapshot", m)
    BY <1>1 DEF Validate, Sound, Preparing, Talking, m
  <2> QED
    BY <1>1, <2>1, <1>k, <1>a, <1>b DEF Validate, m
<1>2. CASE Snapshot(i)
  <2>1. Sound(i, "start", m)
    BY <1>2 DEF Snapshot, Sound, Preparing, Talking, m
  <2> QED
    BY <1>2, <2>1, <1>k, <1>a, <1>b DEF Snapshot, m
<1>3. CASE Start(i)
  <2>1. Sound(i, "release", m) /\ (m.alive => Sound(i, "write", m))
    BY <1>3 DEF Start, Sound, Preparing, Talking, m
  <2>2. ~m.alive => Sound(i, "revalidate", [m EXCEPT !.scratch = TRUE])
    BY <1>0, <1>3 DEF Start, Sound, Preparing, Talking, m, Instance, Silent
  <2> QED
    BY <1>3, <2>1, <2>2, <1>k, <1>a, <1>s, <1>g DEF Start, m
<1>4. CASE Revalidate(i)
  <2>1. Sound(i, "resnapshot", m)
    BY <1>4 DEF Revalidate, Sound, Preparing, Talking, m
  <2> QED
    BY <1>4, <2>1, <1>k, <1>a, <1>u DEF Revalidate, Preparing, m
<1>5. CASE Resnapshot(i)
  <2>1. Sound(i, "spawn", m)
    BY <1>5 DEF Resnapshot, Sound, Preparing, Talking, m
  <2> QED
    BY <1>5, <2>1, <1>k, <1>a, <1>u DEF Resnapshot, Preparing, m
<1>6. CASE Spawn(i)
  <2>1. Sound(i, "hello", [m EXCEPT !.proc = "running"])
    BY <1>0, <1>6 DEF Spawn, Sound, Preparing, Talking, m, Instance, Silent
  <2> QED
    BY <1>6, <2>1, <1>s, <1>g, <1>a, <1>b DEF Spawn, m
<1>7. CASE Hello(i)
  <2>1. m.proc = "running" => Sound(i, "write", [m EXCEPT !.alive = TRUE, !.backoff = FALSE])
    BY <1>0, <1>7 DEF Hello, Sound, Preparing, Talking, m, Instance, Silent
  <2> QED
    BY <1>7, <2>1, <1>s, <1>g, <1>a, <1>b DEF Hello, m
<1>8. CASE HelloStopped(i)
  BY <1>8, <1>a, <1>b DEF HelloStopped, m
<1>9. CASE Write(i)
  <2>1. Sound(i, "read", [m EXCEPT !.heard = @ \cup {i}]) /\ Sound(i, "release", m)
    BY <1>0, <1>9 DEF Write, Sound, Preparing, Talking, m, Instance, Silent, Owing
  <2> QED
    BY <1>9, <2>1, <1>s, <1>g, <1>a, <1>b DEF Write, m
<1>10. CASE Read(i)
  <2>1. m.stream \in Seq(Inv \cup {Stray}) /\ m.stream # <<>> /\ pc[i] = "read"
    BY <1>0, <1>10 DEF Read, Instance, m
  <2>2. polite => m.stream = <<i>> /\ m.heard = {}
    BY <2>1 DEF Sound, Silent, Owing, m
  <2>3. polite => Tail(m.stream) = <<>>
    BY <2>2, LastLine
  <2>4. Sound(i, "release", [m EXCEPT !.stream = Tail(@)])
    BY <1>0, <2>1, <2>2, <2>3 DEF Sound, Preparing, Talking, m, Instance, Silent
  <2> QED
    BY <1>10, <2>4, <1>s, <1>e, <1>a, <1>b DEF Read, m
<1>11. CASE ReadFails(i)
  BY <1>11, <1>a, <1>b DEF ReadFails, m
<1>12. CASE Interrupted(i)
  <2>1. Sound(i, "settle", m)
    BY <1>12 DEF Interrupted, Sound, Preparing, Talking, m
  <2>2. Mine(i)' = m
    BY <1>0, <1>12 DEF Interrupted, Mine, m
  <2> QED
    BY <1>12, <2>1, <2>2, <1>e DEF Interrupted
<1>13. CASE SettleLine(i)
  <2>1. m.stream \in Seq(Inv \cup {Stray}) /\ m.stream # <<>> /\ pc[i] = "settle"
    BY <1>0, <1>13 DEF SettleLine, Instance, m
  <2>2. polite => m.stream = <<i>> /\ m.heard = {}
    BY <2>1 DEF Sound, Silent, Owing, m
  <2>3. polite => Tail(m.stream) = <<>>
    BY <2>2, LastLine
  <2>4. \A label \in {"release", "settle"} :
           Sound(i, label, [m EXCEPT !.stream = Tail(@)])
    BY <1>0, <2>1, <2>2, <2>3 DEF Sound, Preparing, Talking, m, Instance, Silent
  <2>5. pc'[i] \in {"release", "settle"}
    BY <1>0, <1>13 DEF SettleLine, CoreInv, TypeOK
  <2> QED
    BY <1>13, <2>4, <2>5, <1>s DEF SettleLine, m
<1>14. CASE SettleGivesUp(i)
  <2>1. pc'[i] = "release" /\ Mine(i)' = BackedOff(m)
    BY <1>14, <1>s, <1>g DEF SettleGivesUp, m
  <2> QED
    BY <2>1, <1>b
<1> QED
  BY <1>1, <1>2, <1>3, <1>4, <1>5, <1>6, <1>7, <1>8, <1>9, <1>10, <1>11, <1>12, <1>13, <1>14
  DEF ExchangeStep

\* A step of one instance, its user at one stage before and at another after.
LEMMA InstOne ==
    ASSUME CoreInv, InstInv, NEW n \in Node, CoreInv',
           \A m \in Listed' : m # n => m \in Listed /\ pool'[m] = pool[m],
           \A j \in Inv : node[j] # n /\ node'[j] # n => node'[j] = node[j] /\ pc'[j] = pc[j],
           \A j \in Inv : node[j] = n \/ node'[j] = n =>
               node[j] \in {n, None} /\ node'[j] \in {n, None},
           \A j \in Inv : node'[j] = n => Sound(j, pc'[j], pool'[n]),
           n \in Listed' /\ (\A j \in Inv : node'[j] # n) => Sound(None, "done", pool'[n]),
           polite' = polite
    PROVE  InstInv'
<1>p. ASSUME NEW x, NEW label, NEW q PROVE Sound(x, label, q)' <=> Sound(x, label, q)
  BY DEF Sound
<1>1. ASSUME NEW j \in Inv, node'[j] # None PROVE Sound(j, pc'[j], pool'[node'[j]])
  <2>1. CASE node'[j] = n
    BY <2>1
  <2>2. CASE node'[j] # n
    <3>1. node'[j] = node[j] /\ pc'[j] = pc[j]
      BY <1>1, <2>2
    <3>2. node'[j] \in Listed' /\ pool'[node[j]] = pool[node[j]]
      BY <1>1, <2>2, <3>1 DEF CoreInv, UseInv, TypeOK, Listed
    <3> QED
      BY <1>1, <3>1, <3>2 DEF InstInv, Mine
  <2> QED
    BY <2>1, <2>2
<1>2. ASSUME NEW m \in Listed', \A j \in Inv : node'[j] # m PROVE Sound(None, "done", pool'[m])
  <2>1. CASE m = n
    BY <1>2, <2>1
  <2>2. CASE m # n
    <3>1. m \in Listed /\ pool'[m] = pool[m] /\ m # None
      BY <2>2, PoolAssumption DEF Listed
    <3>2. ASSUME NEW j \in Inv PROVE node[j] # m
      BY <1>2, <2>2, <3>1
    <3> QED
      BY <3>1, <3>2 DEF InstInv
  <2> QED
    BY <2>1, <2>2
<1> QED
  BY <1>p, <1>1, <1>2 DEF InstInv, Mine

\* A call changes the process it uses as its own place in the exchange allows.
LEMMA InstExchange ==
    ASSUME CoreInv, InstInv, NEW i \in Inv, ExchangeStep(i) PROVE InstInv'
<1>1. Local(i) /\ CoreInv'
  BY ExchangeIsLocal, CoreExchange DEF CoreInv
<1>2. node[i] \in Node /\ node[i] # None /\ UNCHANGED <<node, polite>>
  BY <1>1, MineType DEF Local, CoreInv, Using
<1>3. Sound(i, pc[i], Mine(i))'
  BY <1>2, ExchangeSound DEF InstInv
<1>4. Sound(i, pc'[i], pool'[node[i]])
  BY <1>2, <1>3 DEF Sound, Mine
<1>5. \A m \in Listed' : m # node[i] => m \in Listed /\ pool'[m] = pool[m]
  BY <1>1, <1>2 DEF Local, CoreInv, TypeOK, Listed
<1>6. \A j \in Inv : j # i => node[j] # node[i] /\ pc'[j] = pc[j]
  BY <1>1, <1>2 DEF Local, CoreInv, UseInv, TypeOK
<1> QED
  BY <1>1, <1>2, <1>4, <1>5, <1>6, InstOne

\* A call starts with an instance as its last user left it, or with a new one.
LEMMA InstAcquire ==
    ASSUME CoreInv, InstInv, NEW i \in Inv, NEW n \in Node,
           AcquireIdle(i, n) \/ AcquireNew(i, n)
    PROVE  InstInv'
<1>1. CoreInv' /\ pc[i] = "acquire" /\ Acquired(i, n)
  BY CoreAcquireIdle, CoreAcquireNew DEF AcquireIdle, AcquireNew
<1>2. /\ node'[i] = n /\ pc'[i] = "validate" /\ polite' = polite /\ node[i] = None
      /\ \A j \in Inv : j # i => node'[j] = node[j] /\ pc'[j] = pc[j]
  <2>1. node[i] = None
    BY <1>1 DEF CoreInv, UseInv, Using, Exchange
  <2> QED
    BY <1>1, <2>1 DEF Acquired, Goto, CoreInv, TypeOK
<1>3. /\ \A j \in Inv : node[j] # n
      /\ Sound(i, "validate", pool'[n])
      /\ \A m \in Node : m # n => pool'[m] = pool[m]
  <2>1. CASE AcquireIdle(i, n)
    <3>1. n \in Listed /\ pool[n].busy = 0 /\ pool[n] \in Instance
      BY <2>1 DEF AcquireIdle, Idle, Same, Listed, CoreInv, TypeOK
    <3>2. \A j \in Inv : node[j] # n
      BY <3>1, PoolAssumption DEF CoreInv, UseInv
    <3>3. Sound(None, "done", pool[n])
      BY <3>1, <3>2 DEF InstInv
    <3>4. pool'[n] = [pool[n] EXCEPT !.busy = @ + 1]
      BY <2>1 DEF AcquireIdle, CoreInv, TypeOK
    <3>5. Sound(i, "validate", pool'[n])
      BY <3>1, <3>3, <3>4 DEF Sound, Preparing, Talking, Silent, Instance
    <3> QED
      BY <2>1, <3>2, <3>5 DEF AcquireIdle, CoreInv, TypeOK
  <2>2. CASE AcquireNew(i, n)
    <3>1. pool' = [pool EXCEPT ![n] = Fresh(sha[i])] /\ n \notin Listed
      BY <2>2, NewListed
    <3>2. \A j \in Inv : node[j] # n
      BY <3>1, PoolAssumption DEF CoreInv, UseInv, Listed
    <3>3. Sound(i, "validate", Fresh(sha[i]))
      BY DEF Fresh, Sound, Preparing, Talking, Silent
    <3> QED
      BY <3>1, <3>2, <3>3 DEF CoreInv, TypeOK
  <2> QED
    BY <2>1, <2>2
<1>4. \A m \in Listed' : m # n => m \in Listed /\ pool'[m] = pool[m]
  BY <1>3 DEF Listed
<1> QED
  BY <1>1, <1>2, <1>3, <1>4, InstOne

\* A call leaves behind an instance that the next one can use.
LEMMA InstRelease == ASSUME CoreInv, InstInv, NEW i \in Inv, Release(i) PROVE InstInv'
<1>1. CoreInv' /\ pc[i] = "release"
  BY CoreRelease DEF Release
<1>2. /\ node[i] \in Node /\ node[i] # None /\ Mine(i) \in Instance
      /\ Sound(i, "release", Mine(i))
  BY <1>1, MineType DEF CoreInv, Using, InstInv
<1>3. /\ node'[i] = None /\ polite' = polite
      /\ \A j \in Inv : j # i => node'[j] = node[j] /\ pc'[j] = pc[j] /\ node[j] # node[i]
  BY <1>2 DEF Release, Goto, CoreInv, TypeOK, UseInv
<1> DEFINE q == [Mine(i) EXCEPT !.busy = IF @ > 0 THEN @ - 1 ELSE @]
<1>4. pool' = [pool EXCEPT ![node[i]] = q]
  BY DEF Release, SetInstance
<1>5. Sound(None, "done", q)
  BY <1>2 DEF Sound, Preparing, Talking, Silent, Instance
<1> HIDE DEF q
<1>6. pool'[node[i]] = q /\ \A m \in Node : m # node[i] => pool'[m] = pool[m]
  BY <1>2, <1>4 DEF CoreInv, TypeOK
<1>7. \A m \in Listed' : m # node[i] => m \in Listed /\ pool'[m] = pool[m]
  BY <1>6 DEF Listed
<1> QED
  BY <1>1, <1>2, <1>3, <1>5, <1>6, <1>7, InstOne

\* Whatever a tool does to its process, its user's view of it stays sound.
LEMMA InstTool == ASSUME CoreInv, InstInv, NEW n \in Node, ToolDoes(n) PROVE InstInv'
<1>1. CoreInv' /\ n \in Listed
  BY CoreTool, ToolIsLocal DEF CoreInv
<1>2. UNCHANGED <<pc, node, polite>> /\ pool[n] \in Instance
  BY <1>1, ToolIsLocal DEF CoreInv, TypeOK, Listed
<1>3. \A m \in Node : m # n => pool'[m] = pool[m]
  BY ToolIsLocal DEF CoreInv, TypeOK
<1>4. ASSUME NEW x \in Inv \cup {None}, NEW label, Sound(x, label, pool[n])
      PROVE  Sound(x, label, pool'[n])
  <2>1. CASE ToolWrites(n)
    <3>1. PICK line \in pool[n].heard \cup (IF polite THEN {} ELSE {Stray}) :
             ToolStep(n, [pool[n] EXCEPT !.stream = Append(@, line),
                                         !.heard = IF polite THEN @ \ {line} ELSE @])
      BY <2>1 DEF ToolWrites
    <3> DEFINE p == [pool[n] EXCEPT !.stream = Append(@, line),
                                    !.heard = IF polite THEN @ \ {line} ELSE @]
    <3>2. pool'[n] = p
      BY <3>1 DEF ToolStep, CoreInv, TypeOK
    <3>3. pool[n].alive
      BY <2>1 DEF ToolWrites
    <3>4. /\ p.scratch = pool[n].scratch /\ p.proc = pool[n].proc /\ p.alive = pool[n].alive
          /\ p.stream = Append(pool[n].stream, line)
          /\ p.heard = IF polite THEN pool[n].heard \ {line} ELSE pool[n].heard
      BY <1>2 DEF Instance
    <3> HIDE DEF p
    <3>5. ASSUME polite PROVE label \in {"read", "settle"} /\ Owing(x, p)
      <4>1. line \in pool[n].heard
        BY <3>1, <3>5
      <4>2. label \in {"read", "settle"} /\ pool[n].heard = {x} /\ pool[n].stream = <<>>
        BY <4>1, <1>4, <3>5 DEF Sound, Silent, Owing
      <4>3. line = x /\ p.heard = {} /\ p.stream = <<x>>
        BY <4>1, <4>2, <3>4, <3>5
      <4> QED
        BY <4>2, <4>3 DEF Owing
    <3> QED
      BY <1>4, <3>2, <3>3, <3>4, <3>5 DEF Sound, Preparing, Talking
  <2>2. CASE ToolExits(n)
    <3>1. pool'[n] = [pool[n] EXCEPT !.proc = "exited"]
      BY <2>2 DEF ToolExits, ToolStep, CoreInv, TypeOK
    <3>2. pool[n].proc = "running"
      BY <2>2 DEF ToolExits
    <3> QED
      BY <1>2, <1>4, <3>1, <3>2 DEF Instance, Sound, Silent, Owing, Preparing, Talking
  <2>3. CASE BackoffElapses(n)
    <3>1. pool'[n] = [pool[n] EXCEPT !.backoff = FALSE]
      BY <2>3 DEF BackoffElapses, ToolStep, CoreInv, TypeOK
    <3> QED
      BY <1>2, <1>4, <3>1 DEF Instance, Sound, Silent, Owing, Preparing, Talking
  <2> QED
    BY <2>1, <2>2, <2>3 DEF ToolDoes
<1>5. \A m \in Listed' : m # n => m \in Listed /\ pool'[m] = pool[m]
  BY <1>3 DEF Listed
<1>6. \A j \in Inv : node'[j] = n => Sound(j, pc'[j], pool'[n])
  BY <1>1, <1>2, <1>4, PoolAssumption DEF InstInv, Mine
<1>7. (\A j \in Inv : node'[j] # n) => Sound(None, "done", pool'[n])
  BY <1>1, <1>2, <1>4 DEF InstInv
<1> QED
  BY <1>1, <1>2, <1>5, <1>6, <1>7, InstOne

\* The supervisor's pass looks at no process.
LEMMA InstWorker ==
    ASSUME CoreInv, InstInv, WorkerPin \/ \E n \in Node : WorkerKeep(n) \/ WorkerRetire(n)
    PROVE  InstInv'
<1>1. /\ UNCHANGED <<pc, node, polite>>
      /\ \A j \in Inv : node[j] # None => node[j] \in Node
  BY DEF WorkerPin, WorkerKeep, WorkerRetire, WorkerStep, CoreInv, TypeOK
<1>2. ASSUME NEW x, NEW label, NEW p \in Instance, NEW b \in Nat, Sound(x, label, p)
      PROVE  Sound(x, label, [p EXCEPT !.busy = b])
  BY <1>2 DEF Instance, Sound, Silent, Owing
<1>3. ASSUME NEW m \in Listed'
      PROVE  /\ m \in Listed /\ pool[m] \in Instance
             /\ \/ pool'[m] = pool[m]
                \/ \E b \in Nat : pool'[m] = [pool[m] EXCEPT !.busy = b]
  <2>1. CASE WorkerPin
    BY <1>3, <2>1, PinListed DEF CoreInv, TypeOK, Listed
  <2>2. ASSUME NEW n \in Node, WorkerKeep(n)
        PROVE  m \in Listed /\ (pool'[m] = pool[m] \/ pool'[m] = [pool[m] EXCEPT !.busy = 0])
    BY <1>3, <2>2 DEF WorkerKeep, CoreInv, TypeOK, UseInv, Listed
  <2>3. ASSUME NEW n \in Node, WorkerRetire(n) PROVE m \in Listed /\ pool'[m] = pool[m]
    BY <1>3, <2>3, RetireListed DEF Listed
  <2>4. m \in Listed => pool[m] \in Instance
    BY DEF Listed, CoreInv, TypeOK
  <2> QED
    BY <2>1, <2>2, <2>3, <2>4
<1>4. ASSUME NEW x, NEW label, NEW m \in Listed', Sound(x, label, pool[m])
      PROVE  Sound(x, label, pool'[m])
  <2>1. pool[m] \in Instance
    BY <1>3
  <2>2. CASE pool'[m] = pool[m]
    BY <1>4, <2>2
  <2>3. ASSUME NEW b \in Nat, pool'[m] = [pool[m] EXCEPT !.busy = b]
        PROVE  Sound(x, label, pool'[m])
    BY <1>2, <1>4, <2>1, <2>3
  <2> QED
    BY <1>3, <2>2, <2>3
<1>5. \A j \in Inv : node[j] # None => node[j] \in Listed'
  <2>1. CoreInv'
    BY CorePin, CoreKeep, CoreRetire
  <2> QED
    BY <1>1, <2>1 DEF CoreInv, UseInv, Listed
<1>6. ASSUME NEW x, NEW label, NEW q PROVE Sound(x, label, q)' <=> Sound(x, label, q)
  BY <1>1 DEF Sound
<1> QED
  BY <1>1, <1>3, <1>4, <1>5, <1>6 DEF InstInv, Mine

\* Waiting calls and the world outside leave processes and stages alone.
LEMMA InstElse ==
    ASSUME CoreInv, InstInv,
           \/ Outside
           \/ \E i \in Inv : Begin(i) \/ AcquireWait(i) \/ AcquireCancelled(i)
                             \/ AcquireTimeout(i) \/ AcquireBusy(i)
    PROVE  InstInv'
<1>1. UNCHANGED <<pool, node, polite>>
  BY DEF Outside, Cancel, Expire, EditDisk, Rescan, AllDone, vars, Begin, AcquireWait,
         AcquireCancelled, AcquireTimeout, AcquireBusy
<1>2. \A j \in Inv : node[j] # None => pc'[j] = pc[j]
  <2>1. CASE Outside
    BY <2>1 DEF Outside, Cancel, Expire, EditDisk, Rescan, AllDone, vars
  <2>2. ASSUME NEW i \in Inv, Begin(i) \/ AcquireWait(i) \/ AcquireCancelled(i)
                              \/ AcquireTimeout(i) \/ AcquireBusy(i)
        PROVE  node[i] = None /\ \A j \in Inv : j # i => pc'[j] = pc[j]
    <3>1. pc[i] \in {"idle", "acquire"} /\ \A j \in Inv : j # i => pc'[j] = pc[j]
      BY <2>2 DEF Begin, AcquireWait, AcquireCancelled, AcquireTimeout, AcquireBusy, Goto,
                  Ending, CoreInv, TypeOK
    <3>2. node[i] = None
      BY <3>1 DEF CoreInv, UseInv, Using, Exchange
    <3> QED
      BY <3>1, <3>2
  <2> QED
    BY <2>1, <2>2
<1>3. ASSUME NEW x, NEW label, NEW q PROVE Sound(x, label, q)' <=> Sound(x, label, q)
  BY <1>1 DEF Sound
<1> QED
  BY <1>1, <1>2, <1>3 DEF InstInv, Mine, Listed

\* Every step keeps the instances sound.
LEMMA NextInst == ASSUME CoreInv, InstInv, [Next]_vars PROVE InstInv'
BY NextCases, InstExchange, InstAcquire, InstRelease, InstTool, InstWorker, InstElse

\* There are no instances at the start.
LEMMA InitInst == Init => InstInv
BY DEF Init, InstInv, Listed

\* No more instances than the limits allow, exact counters, and a scratch
\* directory for exactly as long as a process needs it.
THEOREM PoolIsSound == Spec => []PoolSound
<1>1. CoreInv /\ BoundInv /\ InstInv => PoolSound
  <2> SUFFICES ASSUME CoreInv, BoundInv, InstInv PROVE PoolBounds /\ ScratchLifetime
    BY DEF PoolSound
  <2>1. PoolBounds
    BY DEF PoolBounds, BoundInv, Keyed, CoreInv, CountInv, Waiters
  <2>2. ASSUME NEW n \in Listed
        PROVE  pool[n].scratch <=>
                  \/ pool[n].proc # "none"
                  \/ \E i \in Users(n) : pc[i] \in {"revalidate", "resnapshot", "spawn"}
    <3>1. CASE Users(n) = {}
      <4>1. Sound(None, "done", pool[n])
        BY <3>1 DEF InstInv, Users
      <4> QED
        BY <3>1, <4>1 DEF Sound, Preparing
    <3>2. CASE Users(n) # {}
      <4>1. PICK i \in Inv : node[i] = n
        BY <3>2 DEF Users
      <4>2. n # None /\ Users(n) = {i}
        BY <4>1, PoolAssumption DEF CoreInv, UseInv, Users, Listed
      <4>3. Sound(i, pc[i], pool[n])
        BY <4>1, <4>2 DEF InstInv, Mine
      <4> QED
        BY <4>2, <4>3 DEF Sound, Preparing
    <3> QED
      BY <3>1, <3>2
  <2> QED
    BY <2>1, <2>2 DEF ScratchLifetime
<1> QED
  BY <1>1, InitCore, NextCore, InitBound, NextBound, InitInst, NextInst, PTL DEF Spec

(***************************************************************************)
(* The rechecks: what registry and disk showed since the wait.             *)
(***************************************************************************)

\* The stages after each recheck, as long as the request may still be written.
InTable == {"snapshot", "start", "revalidate", "resnapshot", "spawn", "hello", "write", "read"}
OnDisk == InTable \ {"snapshot"}

FreshInv ==
    \A i \in Inv :
        /\ node[i] # None => table \in since[i].table /\ disk \in since[i].disk
        /\ pc[i] \in InTable => sha[i] \in since[i].table
        /\ pc[i] \in OnDisk => sha[i] \in since[i].disk

\* A stage is only reached through its rechecks.
LEMMA ExchangeRechecks ==
    ASSUME CoreInv, NEW i \in Inv, ExchangeStep(i)
    PROVE  /\ pc'[i] \in InTable => pc[i] \in InTable \/ table = sha[i]
           /\ pc'[i] \in OnDisk => pc[i] \in OnDisk \/ (pc[i] = "snapshot" /\ disk = sha[i])
<1> USE DEF CoreInv, TypeOK, Goto, Ending, Abandon, Keep, InTable, OnDisk
<1>1. CASE Validate(i) \/ Snapshot(i)
  BY <1>1 DEF Validate, Snapshot
<1>2. CASE Start(i) \/ Revalidate(i) \/ Resnapshot(i) \/ Spawn(i)
  BY <1>2 DEF Start, Revalidate, Resnapshot, Spawn
<1>3. CASE Hello(i) \/ HelloStopped(i) \/ Write(i)
  BY <1>3 DEF Hello, HelloStopped, Write
<1>4. CASE Read(i) \/ ReadFails(i) \/ Interrupted(i)
  BY <1>4 DEF Read, ReadFails, Interrupted
<1>5. CASE SettleLine(i) \/ SettleGivesUp(i)
  BY <1>5 DEF SettleLine, SettleGivesUp
<1> QED
  BY <1>1, <1>2, <1>3, <1>4, <1>5 DEF ExchangeStep

\* A package replaced after the recheck is seen before the request is written.
LEMMA NextFresh == ASSUME CoreInv, FreshInv, [Next]_vars PROVE FreshInv'
<1>1. ASSUME NEW i \in Inv, ExchangeStep(i) PROVE FreshInv'
  <2>1. /\ pc'[i] \in InTable => pc[i] \in InTable \/ table = sha[i]
        /\ pc'[i] \in OnDisk => pc[i] \in OnDisk \/ (pc[i] = "snapshot" /\ disk = sha[i])
    BY <1>1, ExchangeRechecks
  <2>2. /\ UNCHANGED <<sha, node, table, disk, since>> /\ node[i] # None
        /\ \A j \in Inv : j # i => pc'[j] = pc[j]
    BY <1>1, ExchangeIsLocal, MineType DEF Local, CoreInv, TypeOK, Using
  <2> QED
    BY <2>1, <2>2 DEF FreshInv
<1>2. ASSUME NEW i \in Inv, NEW n \in Node, AcquireIdle(i, n) \/ AcquireNew(i, n) PROVE FreshInv'
  <2>1. /\ UNCHANGED <<sha, table, disk>> /\ pc'[i] = "validate"
        /\ \A j \in Inv : j # i => pc'[j] = pc[j] /\ node'[j] = node[j] /\ since'[j] = since[j]
        /\ since'[i] = [disk |-> {disk}, table |-> {table}]
    BY <1>2 DEF AcquireIdle, AcquireNew, Acquired, Goto, CoreInv, TypeOK
  <2>2. table' \in since'[i].table /\ disk' \in since'[i].disk
    BY <2>1
  <2> QED
    BY <2>1, <2>2 DEF FreshInv, InTable, OnDisk
<1>3. ASSUME NEW i \in Inv, Begin(i) \/ AcquireWait(i) \/ Release(i) \/ AcquireCancelled(i)
                            \/ AcquireTimeout(i) \/ AcquireBusy(i)
      PROVE FreshInv'
  <2>1. /\ UNCHANGED <<table, disk, since>> /\ pc'[i] \in {"acquire", "done"}
        /\ \A j \in Inv : j # i => pc'[j] = pc[j] /\ sha'[j] = sha[j]
        /\ \A j \in Inv : node'[j] # None => node'[j] = node[j]
    BY <1>3 DEF Begin, AcquireWait, Release, AcquireCancelled, AcquireTimeout, AcquireBusy,
                Goto, Ending, CoreInv, TypeOK
  <2> QED
    BY <2>1 DEF FreshInv, InTable, OnDisk
<1>4. ASSUME WorkerPin \/ \E n \in Node : WorkerKeep(n) \/ WorkerRetire(n) \/ ToolDoes(n)
      PROVE  FreshInv'
  <2>1. UNCHANGED <<pc, sha, node, table, disk, since>>
    BY <1>4, ToolIsLocal DEF WorkerPin, WorkerKeep, WorkerRetire, WorkerStep, CoreInv
  <2> QED
    BY <2>1 DEF FreshInv
<1>5. CASE EditDisk \/ Rescan
  <2>1. UNCHANGED <<pc, sha, node>> /\ Seen(disk', table')
    BY <1>5 DEF EditDisk, Rescan
  <2>2. \A j \in Inv : /\ since[j].table \subseteq since'[j].table
                       /\ since[j].disk \subseteq since'[j].disk
                       /\ node[j] # None => table' \in since'[j].table /\ disk' \in since'[j].disk
    BY <2>1 DEF Seen, CoreInv, TypeOK
  <2> QED
    BY <2>1, <2>2 DEF FreshInv
<1>6. CASE (\E i \in Inv : Cancel(i) \/ Expire(i)) \/ AllDone \/ UNCHANGED vars
  <2>1. UNCHANGED <<pc, sha, node, table, disk, since>>
    BY <1>6 DEF Cancel, Expire, AllDone, vars
  <2> QED
    BY <2>1 DEF FreshInv
<1> QED
  BY NextCases, <1>1, <1>2, <1>3, <1>4, <1>5, <1>6 DEF Outside

\* No call is past a recheck at the start.
LEMMA InitFresh == Init => FreshInv
BY DEF Init, FreshInv, InTable, OnDisk

\* A request is written only to a process of the identity it was admitted with,
\* which registry and disk have both shown since the wait for an instance ended.
THEOREM RequestsFresh == Spec => []InstanceFresh
<1>1. CoreInv /\ FreshInv => InstanceFresh
  BY DEF CoreInv, UseInv, FreshInv, InstanceFresh, Mine, Using, Exchange, InTable, OnDisk
<1> QED
  BY <1>1, InitCore, NextCore, InitFresh, NextFresh, PTL DEF Spec

(***************************************************************************)
(* The calls: what was written, what was answered.                         *)
(***************************************************************************)

\* The stages at which nothing has been written yet.
Unsent == ({"idle", "acquire"} \cup Exchange) \ {"read", "settle"}

CallInv ==
    \A i \in Inv :
        /\ pc[i] \in Unsent => verdict[i] = "none" /\ delivered[i] = 0
        /\ pc[i] = "read" => verdict[i] = "none" /\ delivered[i] = 1
        /\ pc[i] = "settle" => verdict[i] \in {"cancelled", "timeout"}
        /\ delivered[i] <= 1
        /\ verdict[i] \in {"busy", "denied"} => delivered[i] = 0
        /\ verdict[i] = "ok" => delivered[i] = 1 /\ answer[i] = i

\* What a step of an exchange makes of its call.
LEMMA ExchangeCall ==
    ASSUME CoreInv, CallInv, NEW i \in Inv, ExchangeStep(i)
    PROVE  /\ pc'[i] \in Unsent => verdict'[i] = "none" /\ delivered'[i] = 0
           /\ pc'[i] = "read" => verdict'[i] = "none" /\ delivered'[i] = 1
           /\ pc'[i] = "settle" => verdict'[i] \in {"cancelled", "timeout"}
           /\ delivered'[i] <= 1
           /\ verdict'[i] \in {"busy", "denied"} => delivered'[i] = 0
           /\ verdict'[i] = "ok" => delivered'[i] = 1 /\ answer'[i] = i
<1> USE DEF CoreInv, TypeOK, CallInv, Goto, Ending, Abandon, Keep, Unaffected, Unsent, Exchange
<1>1. CASE Validate(i) \/ Snapshot(i)
  BY <1>1 DEF Validate, Snapshot
<1>2. CASE Start(i)
  BY <1>2 DEF Start
<1>3. CASE Revalidate(i) \/ Resnapshot(i)
  BY <1>3 DEF Revalidate, Resnapshot
<1>4. CASE Spawn(i) \/ Hello(i) \/ HelloStopped(i)
  BY <1>4 DEF Spawn, Hello, HelloStopped
<1>5. CASE Write(i)
  BY <1>5 DEF Write
<1>6. CASE Read(i)
  BY <1>6 DEF Read, Answers
<1>7. CASE ReadFails(i) \/ Interrupted(i)
  BY <1>7 DEF ReadFails, Interrupted
<1>8. CASE SettleLine(i) \/ SettleGivesUp(i)
  BY <1>8 DEF SettleLine, SettleGivesUp
<1> QED
  BY <1>1, <1>2, <1>3, <1>4, <1>5, <1>6, <1>7, <1>8 DEF ExchangeStep

\* A request is written once and its answer read by the call that wrote it.
LEMMA NextCall == ASSUME CoreInv, CallInv, [Next]_vars PROVE CallInv'
<1>1. ASSUME NEW i \in Inv, ExchangeStep(i) PROVE CallInv'
  <2>1. \A j \in Inv : j # i => /\ pc'[j] = pc[j] /\ verdict'[j] = verdict[j]
                                /\ delivered'[j] = delivered[j] /\ answer'[j] = answer[j]
    BY <1>1, ExchangeIsLocal DEF Local, CoreInv, TypeOK
  <2> QED
    BY <1>1, <2>1, ExchangeCall DEF CallInv
<1>2. ASSUME NEW i \in Inv, NEW n \in Node, AcquireIdle(i, n) \/ AcquireNew(i, n) PROVE CallInv'
  <2>1. /\ UNCHANGED <<verdict, delivered, answer>> /\ pc[i] = "acquire" /\ pc'[i] = "validate"
        /\ \A j \in Inv : j # i => pc'[j] = pc[j]
    BY <1>2 DEF AcquireIdle, AcquireNew, Acquired, Goto, CoreInv, TypeOK
  <2> QED
    BY <2>1 DEF CallInv, Unsent, Exchange
<1>3. ASSUME NEW i \in Inv, Begin(i) \/ Release(i) \/ AcquireWait(i) PROVE CallInv'
  <2>1. /\ UNCHANGED <<verdict, delivered, answer>>
        /\ \/ pc[i] = "idle" /\ pc'[i] = "acquire"
           \/ pc'[i] \in {pc[i], "done"}
        /\ \A j \in Inv : j # i => pc'[j] = pc[j]
    BY <1>3 DEF Begin, Release, AcquireWait, Goto, CoreInv, TypeOK
  <2> QED
    BY <2>1 DEF CallInv, Unsent, Exchange
<1>4. ASSUME NEW i \in Inv, AcquireCancelled(i) \/ AcquireTimeout(i) \/ AcquireBusy(i)
      PROVE  CallInv'
  <2>1. /\ UNCHANGED <<delivered, answer>> /\ pc[i] = "acquire" /\ pc'[i] = "done"
        /\ verdict'[i] \in {"cancelled", "timeout", "busy"}
        /\ \A j \in Inv : j # i => pc'[j] = pc[j] /\ verdict'[j] = verdict[j]
    BY <1>4 DEF AcquireCancelled, AcquireTimeout, AcquireBusy, Ending, CoreInv, TypeOK
  <2> QED
    BY <2>1 DEF CallInv, Unsent, Exchange
<1>5. ASSUME \/ WorkerPin \/ Outside
             \/ \E n \in Node : WorkerKeep(n) \/ WorkerRetire(n) \/ ToolDoes(n)
      PROVE  CallInv'
  <2>1. UNCHANGED <<pc, verdict, delivered, answer>>
    BY <1>5, ToolIsLocal DEF WorkerPin, WorkerKeep, WorkerRetire, WorkerStep, CoreInv, Outside,
       Cancel, Expire, EditDisk, Rescan, AllDone, vars
  <2> QED
    BY <2>1 DEF CallInv
<1> QED
  BY NextCases, <1>1, <1>2, <1>3, <1>4, <1>5

\* No request is written at the start.
LEMMA InitCall == Init => CallInv
BY DEF Init, CallInv, Unsent

\* A request reaches one process at most, never after a refusal, and a call that
\* succeeds has its own response; a tool that answers every request once never
\* leaves anything behind for the next call.
THEOREM CallsSeparate == Spec => []NoCrossTalk
<1>1. CoreInv /\ InstInv /\ CallInv => NoCrossTalk
  <2> SUFFICES ASSUME CoreInv, InstInv, CallInv PROVE NoReplay /\ CleanHandover
    BY DEF NoCrossTalk
  <2>1. NoReplay
    BY DEF NoReplay, CallInv
  <2>2. ASSUME NEW n \in Listed, polite, pool[n].busy = 0
        PROVE  pool[n].stream = <<>> /\ pool[n].heard = {}
    <3>1. \A i \in Inv : node[i] # n
      BY <2>2, PoolAssumption DEF CoreInv, UseInv, Listed
    <3>2. Sound(None, "done", pool[n])
      BY <3>1 DEF InstInv
    <3> QED
      BY <2>2, <3>2 DEF Sound, Silent
  <2> QED
    BY <2>1, <2>2 DEF CleanHandover
<1> QED
  BY <1>1, InitCore, NextCore, InitInst, NextInst, InitCall, NextCall, PTL DEF Spec
=============================================================================
