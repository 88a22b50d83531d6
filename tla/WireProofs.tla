----------------------------- MODULE WireProofs -----------------------------
(***************************************************************************)
(* What MCWire checks on small pipes and small budgets, for every value of *)
(* the constants: the verdicts of the one-shot executor and the calls of   *)
(* foreign servers.  At the end, what module Codecs promises of durations, *)
(* positions, frames, base64, pages and file URIs, for every input.        *)
(***************************************************************************)
EXTENDS MCWire, Codecs, Induction, FiniteSetTheorems, SequenceTheorems, TLAPS

-----------------------------------------------------------------------------
(* The one-shot executor: what it has collected is what was written.       *)

\* Nothing is lost or invented between the tool and the executor; a calm tool's
\* answer arrives unit by unit.
OutInv ==
    /\ Len(outb) + Len(outp) = told + strays
    /\ \A n \in 1..Len(outb) : outb[n] <= told
    /\ \A n \in 1..Len(outp) : outp[n] <= told
    /\ calm => /\ strays = 0
               /\ \A n \in 1..Len(outb) : outb[n] = n
               /\ \A n \in 1..Len(outp) : outp[n] = Len(outb) + n

\* stderr, read and unread, is the newest part of what was written.
ErrInv ==
    /\ \A n \in 1..Len(errp) : errp[n] = cried - Len(errp) + n
    /\ StderrIsTail

\* What the executor's place in its own course says of the process group.
PlaceInv ==
    /\ pc \in {"spawn", "look", "feed", "read", "err"} => status = "running"
    /\ pc \in {"grace", "kill", "reap", "drain", "sweep"} => status # "running"
    /\ pc \in {"drain", "sweep"} => leader = "reaped" /\ code \in {"zero", "nonzero"}
    /\ leader = "reaped" => pc \in {"drain", "sweep", "done"}
    /\ pc = "spawn" => leader = "none"
    /\ leader = "none" =>
          pc \in {"spawn", "done"} /\ status = "running" /\ ~orphan /\ out_by = {} /\ err_by = {}
    /\ pc = "grace" => status = "eof"
    /\ calm => ~orphan
    /\ calm /\ status = "running" /\ leader # "none" /\ told < Response => "leader" \in out_by

\* The reason to leave the loop was true, and a calm tool had answered in full
\* before its end of file.
CauseInv ==
    /\ status = "cancel" => cancelled
    /\ status = "timeout" => expired
    /\ status = "overflow" => Len(outb) > MaxOutput
    /\ calm /\ status = "eof" => WellFormed(outb)

\* A verdict is what the executor judged, about a process group that is gone.
DoneInv ==
    pc = "done" =>
        \/ leader = "none" /\ verdict = "crashed"
        \/ /\ leader = "reaped" /\ ~orphan /\ status # "running"
           /\ code \in {"zero", "nonzero"} /\ verdict = Judged

OneInv == TypeOK /\ OutInv /\ ErrInv /\ PlaceInv /\ CauseInv /\ DoneInv


\* A read takes the first units and leaves the others.
LEMMA Taken ==
    ASSUME NEW S, NEW s \in Seq(S), NEW k \in 1..Len(s)
    PROVE  /\ SubSeq(s, 1, k) \in Seq(S) /\ Len(SubSeq(s, 1, k)) = k
           /\ \A n \in 1..k : SubSeq(s, 1, k)[n] = s[n]
           /\ SubSeq(s, k + 1, Len(s)) \in Seq(S)
           /\ Len(SubSeq(s, k + 1, Len(s))) = Len(s) - k
           /\ \A n \in 1..Len(s) - k : SubSeq(s, k + 1, Len(s))[n] = s[k + n]
<1>1. k \in Nat /\ Len(s) \in Nat /\ 1 <= k /\ k <= Len(s) /\ \A i \in 1..Len(s) : s[i] \in S
  BY LenProperties, ElementOfSeq
<1>2. /\ SubSeq(s, 1, k) \in Seq(S) /\ Len(SubSeq(s, 1, k)) = k
      /\ \A n \in 1..k : SubSeq(s, 1, k)[n] = s[n]
  <2>1. \A i \in 1..k : s[i] \in S
    BY <1>1
  <2>2. /\ SubSeq(s, 1, k) \in Seq(S) /\ Len(SubSeq(s, 1, k)) = (IF 1 <= k THEN k - 1 + 1 ELSE 0)
        /\ \A n \in 1..k - 1 + 1 : SubSeq(s, 1, k)[n] = s[1 + n - 1]
    BY <1>1, <2>1, SubSeqProperties
  <2> QED
    BY <1>1, <2>2
<1>3. /\ SubSeq(s, k + 1, Len(s)) \in Seq(S)
      /\ Len(SubSeq(s, k + 1, Len(s))) = Len(s) - k
      /\ \A n \in 1..Len(s) - k : SubSeq(s, k + 1, Len(s))[n] = s[k + n]
  <2>1. /\ k + 1 \in Int /\ Len(s) \in Int
        /\ \A i \in k + 1..Len(s) : s[i] \in S
    BY <1>1
  <2>2. /\ SubSeq(s, k + 1, Len(s)) \in Seq(S)
        /\ Len(SubSeq(s, k + 1, Len(s))) = (IF k + 1 <= Len(s) THEN Len(s) - (k + 1) + 1 ELSE 0)
        /\ \A n \in 1..Len(s) - (k + 1) + 1 : SubSeq(s, k + 1, Len(s))[n] = s[k + 1 + n - 1]
    BY <2>1, SubSeqProperties
  <2> QED
    BY <1>1, <2>2
<1> QED
  BY <1>2, <1>3

\* The last n of s.
LEMMA LastTaken ==
    ASSUME NEW S, NEW s \in Seq(S), NEW n \in 0..Len(s)
    PROVE  /\ LastOf(s, n) \in Seq(S) /\ Len(LastOf(s, n)) = n
           /\ \A i \in 1..n : LastOf(s, n)[i] = s[Len(s) - n + i]
<1>1. n \in Nat /\ Len(s) \in Nat /\ n <= Len(s) /\ \A i \in 1..Len(s) : s[i] \in S
  BY LenProperties, ElementOfSeq
<1>2. /\ Len(s) - n + 1 \in Int /\ Len(s) \in Int
      /\ \A i \in Len(s) - n + 1..Len(s) : s[i] \in S
  BY <1>1
<1>3. /\ LastOf(s, n) \in Seq(S)
      /\ Len(LastOf(s, n)) = (IF Len(s) - n + 1 <= Len(s) THEN Len(s) - (Len(s) - n + 1) + 1 ELSE 0)
      /\ \A i \in 1..Len(s) - (Len(s) - n + 1) + 1 :
             LastOf(s, n)[i] = s[Len(s) - n + 1 + i - 1]
  BY <1>2, SubSeqProperties DEF LastOf
<1> QED
  BY <1>1, <1>3

\* The units of s were written one after the other, the last one as the e-th.
EndingAt(s, e) == \A n \in 1..Len(s) : s[n] = e - Len(s) + n

\* stderr_append keeps the end of what it is given: when what it has and what
\* comes are consecutive, ending at unit e, so is what it keeps.
LEMMA KeepsTail ==
    ASSUME NEW S, NEW b \in Seq(S), NEW new \in Seq(S), NEW e \in Int,
           Len(b) <= StderrMax,
           EndingAt(b, e - Len(new)), EndingAt(new, e)
    PROVE  /\ StderrAppend(b, new) \in Seq(S)
           /\ Len(StderrAppend(b, new)) <= StderrMax
           /\ EndingAt(StderrAppend(b, new), e)
<1>0. /\ \A n \in 1..Len(b) : b[n] = e - Len(new) - Len(b) + n
      /\ \A n \in 1..Len(new) : new[n] = e - Len(new) + n
  BY DEF EndingAt
<1> DEFINE cut == IF Len(new) > StderrMax THEN LastOf(new, StderrMax) ELSE new
           joined == b \o cut
           half == StderrMax \div 2
<1>1. StderrMax \in Nat /\ half \in Nat /\ half <= StderrMax
  BY OneShotAssumption
<1>2. Len(b) \in Nat /\ Len(new) \in Nat
  BY LenProperties
<1>3. /\ cut \in Seq(S) /\ Len(cut) \in Nat /\ Len(cut) <= StderrMax
      /\ \A n \in 1..Len(cut) : cut[n] = e - Len(cut) + n
      /\ cut = new \/ Len(cut) = StderrMax
  <2>1. CASE Len(new) > StderrMax
    <3>1. StderrMax \in 0..Len(new)
      BY <1>1, <1>2, <2>1
    <3> DEFINE last == LastOf(new, StderrMax)
    <3>2. /\ last \in Seq(S) /\ Len(last) = StderrMax
          /\ \A i \in 1..StderrMax : last[i] = new[Len(new) - StderrMax + i]
      BY <3>1, LastTaken
    <3>3. cut = last
      BY <2>1
    <3> HIDE DEF last, cut
    <3>4. ASSUME NEW n \in 1..StderrMax PROVE last[n] = e - StderrMax + n
      <4>1. Len(new) - StderrMax + n \in 1..Len(new)
        BY <1>1, <1>2, <2>1
      <4>2. last[n] = new[Len(new) - StderrMax + n]
        BY <3>2
      <4>3. new[Len(new) - StderrMax + n] = e - Len(new) + (Len(new) - StderrMax + n)
        BY <1>0, <4>1
      <4> QED
        BY <1>1, <1>2, <4>2, <4>3
    <3>5. cut \in Seq(S) /\ Len(cut) = StderrMax
      BY <3>2, <3>3
    <3>6. ASSUME NEW n \in 1..Len(cut) PROVE cut[n] = e - Len(cut) + n
      BY <3>3, <3>4, <3>5
    <3> QED
      BY <1>1, <3>5, <3>6
  <2>2. CASE ~(Len(new) > StderrMax)
    BY <1>0, <1>1, <1>2, <2>2
  <2> QED
    BY <2>1, <2>2
<1> HIDE DEF cut
<1>4. /\ joined \in Seq(S) /\ Len(joined) = Len(b) + Len(cut)
      /\ \A i \in 1..Len(b) + Len(cut) :
            joined[i] = IF i <= Len(b) THEN b[i] ELSE cut[i - Len(b)]
  BY <1>3, ConcatProperties
<1>5. StderrAppend(b, new) = IF Len(joined) > StderrMax THEN LastOf(joined, half) ELSE joined
  BY DEF StderrAppend, cut
<1> HIDE DEF joined, half
<1>6. CASE Len(joined) > StderrMax
  <2>1. half \in 0..Len(joined)
    BY <1>1, <1>2, <1>3, <1>4, <1>6
  <2>2. /\ LastOf(joined, half) \in Seq(S) /\ Len(LastOf(joined, half)) = half
        /\ \A i \in 1..half : LastOf(joined, half)[i] = joined[Len(joined) - half + i]
    <3>1. joined \in Seq(S)
      BY <1>4
    <3> QED
      BY ZenonT(30), <2>1, <3>1, LastTaken
  <2>3. ASSUME NEW n \in 1..half PROVE LastOf(joined, half)[n] = e - half + n
    <3>1. n \in Int /\ half \in Int /\ Len(b) \in Int /\ Len(cut) \in Int /\ 1 <= n /\ n <= half
      BY <1>1, <1>2, <1>3
    <3>2. LastOf(joined, half)[n] = joined[Len(joined) - half + n]
      BY <2>2
    <3>3. Len(joined) - half + n \in 1..Len(b) + Len(cut)
      BY <1>1, <1>4, <1>6, <3>1
    <3>4. joined[Len(joined) - half + n] = e - half + n
      <4>1. PICK i \in 1..Len(b) + Len(cut) : i = Len(joined) - half + n
        BY <3>3
      <4>4. i = Len(b) + Len(cut) - half + n
        BY <1>4, <3>1, <4>1
      <4>2. CASE i > Len(b)
        <5>1. joined[i] = cut[i - Len(b)]
          BY <1>4, <3>1, <4>2
        <5>2. i - Len(b) \in 1..Len(cut)
          BY <3>1, <4>2
        <5>3. cut[i - Len(b)] = e - Len(cut) + (i - Len(b))
          BY <1>3, <5>2
        <5>4. joined[i] = e - half + n
          BY <3>1, <4>4, <5>1, <5>3
        <5> QED
          BY <4>1, <5>4
      <4>3. CASE i <= Len(b)
        <5>1. cut = new
          BY <1>1, <1>3, <3>1, <4>4, <4>3
        <5>2. joined[i] = b[i] /\ i \in 1..Len(b)
          BY <1>4, <3>1, <4>3
        <5>3. b[i] = e - Len(new) - Len(b) + i
          BY <1>0, <5>2
        <5>4. joined[i] = e - half + n
          BY <1>2, <3>1, <4>4, <5>1, <5>2, <5>3
        <5> QED
          BY <4>1, <5>4
      <4> QED
        BY <3>1, <4>2, <4>3
    <3> QED
      BY <3>2, <3>4
  <2> QED
    BY <1>1, <1>5, <1>6, <2>2, <2>3 DEF EndingAt
<1>7. CASE ~(Len(joined) > StderrMax)
  <2>1. ASSUME NEW n \in 1..Len(joined) PROVE joined[n] = e - Len(joined) + n
    <3>1. n \in Int /\ Len(b) \in Int /\ Len(cut) \in Int /\ 1 <= n
      BY <1>2, <1>3
    <3>2. CASE n > Len(b)
      <4>1. joined[n] = cut[n - Len(b)] /\ n - Len(b) \in 1..Len(cut)
        BY <1>4, <3>1, <3>2
      <4>2. cut[n - Len(b)] = e - Len(cut) + (n - Len(b))
        BY <1>3, <4>1
      <4> QED
        BY <1>4, <3>1, <4>1, <4>2
    <3>3. CASE n <= Len(b)
      <4>1. cut = new
        BY <1>1, <1>3, <1>4, <1>7, <3>1, <3>3
      <4>2. joined[n] = b[n] /\ b[n] = e - Len(new) - Len(b) + n
        BY <1>0, <1>4, <3>1, <3>3
      <4> QED
        BY <1>2, <1>4, <3>1, <4>1, <4>2
    <3> QED
      BY <3>1, <3>2, <3>3
  <2>2. StderrAppend(b, new) = joined
    BY <1>5, <1>7
  <2>3. Len(joined) \in Nat
    BY <1>2, <1>3, <1>4
  <2> QED
    BY SMTT(30), <1>1, <1>4, <1>7, <2>1, <2>2, <2>3 DEF EndingAt
<1> QED
  BY <1>6, <1>7


\* One read of stderr, in the loop or in the drain after it.
LEMMA ReadsErr ==
    ASSUME TypeOK, ErrInv, TakeErr, cried' = cried
    PROVE  errp' \in Seq(1..MaxErr) /\ Len(errp') <= ErrPipe /\ errb' \in Seq(1..MaxErr) /\ ErrInv'
<1> DEFINE Units == 1..MaxErr
<1>1. /\ errb \in Seq(Units) /\ errp \in Seq(Units) /\ cried \in Int /\ Len(errp) \in Nat /\ Len(errb) \in Nat
      /\ Len(errb) <= StderrMax /\ Len(errp) <= ErrPipe /\ ErrPipe \in Nat
      /\ \A n \in 1..Len(errp) : errp[n] = cried - Len(errp) + n
      /\ \A n \in 1..Len(errb) : errb[n] = cried - Len(errp) - Len(errb) + n
  BY OneShotAssumption, LenProperties DEF TypeOK, ErrInv, StderrIsTail
<1>2. PICK k \in 1..Len(errp) : /\ errb' = StderrAppend(errb, SubSeq(errp, 1, k))
                               /\ errp' = SubSeq(errp, k + 1, Len(errp))
  BY DEF TakeErr
<1> DEFINE new == SubSeq(errp, 1, k)
           e == cried - Len(errp) + k
<1> HIDE DEF Units
<1>3. /\ new \in Seq(Units) /\ Len(new) = k /\ \A n \in 1..k : new[n] = errp[n]
      /\ errp' \in Seq(Units) /\ Len(errp') = Len(errp) - k
      /\ \A n \in 1..Len(errp) - k : errp'[n] = errp[k + n]
  BY <1>1, <1>2, Taken
<1> HIDE DEF new
<1>4. e \in Int /\ k \in Nat /\ k <= Len(errp) /\ e - k = cried - Len(errp)
  BY <1>1
<1>5. EndingAt(new, e)
  BY <1>1, <1>3, <1>4 DEF EndingAt
<1>6. EndingAt(errb, e - Len(new))
  BY <1>1, <1>3, <1>4 DEF EndingAt
<1> HIDE DEF e
<1>7. /\ errb' \in Seq(Units) /\ Len(errb') <= StderrMax
      /\ \A n \in 1..Len(errb') : errb'[n] = e - Len(errb') + n
  <2>1. errb' = StderrAppend(errb, new)
    BY <1>2 DEF new
  <2>2. /\ StderrAppend(errb, new) \in Seq(Units)
        /\ Len(StderrAppend(errb, new)) <= StderrMax
        /\ EndingAt(StderrAppend(errb, new), e)
    <3>1. errb \in Seq(Units) /\ new \in Seq(Units) /\ e \in Int /\ Len(errb) <= StderrMax
      BY <1>1, <1>3, <1>4
    <3> QED
      BY <1>5, <1>6, <3>1, KeepsTail
  <2> QED
    BY <2>1, <2>2 DEF EndingAt
<1>8. e = cried' - Len(errp') /\ Len(errb') \in Nat
  BY <1>1, <1>3, <1>4, <1>7, LenProperties DEF e
<1>9. ASSUME NEW n \in 1..Len(errp') PROVE errp'[n] = cried' - Len(errp') + n
  <2>1. errp'[n] = errp[k + n] /\ k + n \in 1..Len(errp)
    BY <1>1, <1>3, <1>4
  <2>2. errp[k + n] = cried - Len(errp) + (k + n)
    BY <1>1, <2>1
  <2> QED
    BY <1>1, <1>3, <1>4, <2>1, <2>2
<1>10. Len(errp') <= ErrPipe
  BY <1>1, <1>3, <1>4
<1>11. ErrInv'
  BY <1>7, <1>8, <1>9 DEF ErrInv, StderrIsTail
<1> QED
  BY <1>3, <1>7, <1>10, <1>11 DEF Units

\* A tool's part of a step is one of these.
LEMMA ToolCases ==
    ASSUME Tool
    PROVE  \/ ToolReads \/ ToolForks
           \/ \E m \in Members : ToolAnswers(m)
           \/ \E m \in Members : ToolStrays(m)
           \/ \E m \in Members : ToolCries(m)
           \/ \E m \in Members : ToolCloses(m)
           \/ \E m \in Members : ToolExits(m)
  BY DEF Tool


\* Every step keeps the values in their ranges.
LEMMA NextType == ASSUME TypeOK, ErrInv, PlaceInv, Next PROVE TypeOK'
<1> USE OneShotAssumption
<1>1. ASSUME Spawn PROVE TypeOK'
  BY <1>1 DEF Spawn, TypeOK, Members, signals, pipes
<1>2. ASSUME SpawnFails PROVE TypeOK'
  BY <1>2 DEF SpawnFails, TypeOK, Verdicts, process, signals, pipes
<1>3. ASSUME Look PROVE TypeOK'
  BY <1>3 DEF Look, TypeOK, Leave, Statuses, process, signals, pipes
<1>4. ASSUME Feed PROVE TypeOK'
  <2>1. /\ unsent' \in 0..Request /\ stdin' \in 0..Pipe /\ stdin_open' \in BOOLEAN
    <3>1. CASE \E k \in 1..unsent : FeedSome(k)
      BY <3>1 DEF FeedSome, TypeOK
    <3>2. CASE FeedBroken
      BY <3>2 DEF FeedBroken, TypeOK
    <3>3. CASE UNCHANGED <<unsent, stdin, stdin_open>>
      BY <3>3 DEF TypeOK
    <3> QED
      BY <1>4, <3>1, <3>2, <3>3 DEF Feed
  <2>2. /\ pc' = "read"
        /\ UNCHANGED <<status, outb, errb, code, verdict, process, signals, outp, errp>>
    BY <1>4 DEF Feed
  <2> QED
    BY <2>1, <2>2 DEF TypeOK, process, signals
<1>5. ASSUME ReadOut PROVE TypeOK'
  <2>1. CASE \E k \in 1..Len(outp) : ReadSome(k)
    <3>1. PICK k \in 1..Len(outp) : ReadSome(k)
      BY <2>1
    <3>2. outp \in Seq(0..Response) /\ outb \in Seq(0..Response) /\ Len(outp) \in Nat
      BY LenProperties DEF TypeOK
    <3>3. /\ SubSeq(outp, 1, k) \in Seq(0..Response) /\ outp' \in Seq(0..Response)
          /\ Len(outp') = Len(outp) - k
      <4>1. outp' = SubSeq(outp, k + 1, Len(outp))
        BY <3>1 DEF ReadSome
      <4> QED
        BY SMTT(30), <3>2, <4>1, Taken
    <3>4. outb' \in Seq(0..Response)
      BY <3>1, <3>2, <3>3, ConcatProperties DEF ReadSome
    <3>5. Len(outp') <= Pipe
      BY <3>2, <3>3 DEF TypeOK
    <3>6. pc' \in {"grace", "kill", "err"} /\ status' \in Statuses
      BY <3>1 DEF ReadSome, Leave, Statuses, TypeOK
    <3>7. UNCHANGED <<unsent, stdin_open, errb, code, verdict, process, signals, stdin, errp>>
      BY <1>5 DEF ReadOut
    <3> QED
      BY SMTT(30), <3>3, <3>4, <3>5, <3>6, <3>7 DEF TypeOK, process, signals
  <2>2. CASE ~\E k \in 1..Len(outp) : ReadSome(k)
    BY <1>5, <2>2 DEF ReadOut, TypeOK, Leave, Statuses, process, signals
  <2> QED
    BY <2>1, <2>2
<1>6. ASSUME ReadErr PROVE TypeOK'
  <2>1. CASE TakeErr
    BY <1>6, <2>1, ReadsErr DEF ReadErr, TypeOK, process, signals
  <2>2. CASE ~TakeErr
    BY <1>6, <2>2 DEF ReadErr, TypeOK, process, signals
  <2> QED
    BY <2>1, <2>2
<1>7. ASSUME Grace \/ Reap PROVE TypeOK'
  BY <1>7 DEF Grace, Reap, Reaped, TypeOK, signals, pipes
<1>8. ASSUME GraceOver PROVE TypeOK'
  BY <1>8 DEF GraceOver, TypeOK, process, signals, pipes
<1>9. ASSUME Kill PROVE TypeOK'
  BY <1>9 DEF Kill, KillGroup, TypeOK, signals, pipes
<1>10. ASSUME Drain PROVE TypeOK'
  <2>1. CASE TakeErr
    BY <1>10, <2>1, ReadsErr DEF Drain, TypeOK, process, signals
  <2>2. CASE ~TakeErr
    BY <1>10, <2>2 DEF Drain, TypeOK, process, signals
  <2> QED
    BY <2>1, <2>2
<1>11. ASSUME Sweep PROVE TypeOK'
  <2>1. Judged \in Verdicts
    BY <1>11 DEF Sweep, PlaceInv, TypeOK, Statuses, Judged, Verdicts
  <2> QED
    BY <1>11, <2>1 DEF Sweep, KillGroup, TypeOK, signals, pipes
<1>12. ASSUME ToolReads PROVE TypeOK'
  BY <1>12 DEF ToolReads, TypeOK, engine, process, signals
<1>13. ASSUME ToolForks PROVE TypeOK'
  BY <1>13 DEF ToolForks, TypeOK, engine, signals, pipes, Members
<1>14. ASSUME NEW m \in Members, ToolAnswers(m) PROVE TypeOK'
  <2>1. /\ outp' \in Seq(0..Response) /\ Len(outp') = Len(outp) + 1 /\ Len(outp) \in Nat
        /\ told' \in 0..Response
    <3>1. outp' = Append(outp, told + 1) /\ told' = told + 1 /\ told < Response
      BY <1>14 DEF ToolAnswers
    <3>2. outp \in Seq(0..Response) /\ told + 1 \in 0..Response
      BY <3>1, OneShotAssumption DEF TypeOK, OneShotAssumption
    <3>3. outp' \in Seq(0..Response) /\ Len(outp') = Len(outp) + 1 /\ Len(outp) \in Nat
      BY <3>1, <3>2, AppendProperties
    <3> QED
      BY <3>1, <3>2, <3>3
  <2>2. Len(outp') <= Pipe
    BY <1>14, <2>1 DEF ToolAnswers
  <2> QED
    BY <1>14, <2>1, <2>2 DEF ToolAnswers, TypeOK, engine, signals
<1>15. ASSUME NEW m \in Members, ToolStrays(m) PROVE TypeOK'
  <2>0. outp \in Seq(0..Response) /\ Garbage \in 0..Response
    BY OneShotAssumption DEF TypeOK, Garbage, OneShotAssumption
  <2>1. /\ outp' \in Seq(0..Response) /\ Len(outp') = Len(outp) + 1 /\ Len(outp) \in Nat
        /\ strays' \in 0..MaxStray
    <3>1. outp' = Append(outp, Garbage)
      BY <1>15 DEF ToolStrays
    <3>2. outp' \in Seq(0..Response) /\ Len(outp') = Len(outp) + 1 /\ Len(outp) \in Nat
      BY <2>0, <3>1, AppendProperties
    <3>3. strays' \in 0..MaxStray
      BY <1>15, OneShotAssumption DEF ToolStrays, TypeOK, OneShotAssumption
    <3> QED
      BY <3>2, <3>3
  <2>2. Len(outp') <= Pipe
    BY <1>15, <2>1 DEF ToolStrays
  <2> QED
    BY <1>15, <2>1, <2>2 DEF ToolStrays, TypeOK, engine, signals
<1>16. ASSUME NEW m \in Members, ToolCries(m) PROVE TypeOK'
  <2>1. /\ errp' \in Seq(1..MaxErr) /\ Len(errp') = Len(errp) + 1 /\ Len(errp) \in Nat
        /\ cried' \in 0..MaxErr
    <3>1. errp' = Append(errp, cried + 1) /\ cried' = cried + 1 /\ cried < MaxErr
      BY <1>16 DEF ToolCries
    <3>2. errp \in Seq(1..MaxErr) /\ cried + 1 \in 1..MaxErr
      BY <3>1, OneShotAssumption DEF TypeOK, OneShotAssumption
    <3>3. errp' \in Seq(1..MaxErr) /\ Len(errp') = Len(errp) + 1 /\ Len(errp) \in Nat
      BY <3>1, <3>2, AppendProperties
    <3> QED
      BY <3>1, <3>2, <3>3
  <2>2. Len(errp') <= ErrPipe
    BY <1>16, <2>1 DEF ToolCries
  <2> QED
    BY <1>16, <2>1, <2>2 DEF ToolCries, TypeOK, engine, signals
<1>17. ASSUME NEW m \in Members, ToolCloses(m) PROVE TypeOK'
  <2>1. listening' \in BOOLEAN /\ out_by' \subseteq Members /\ err_by' \subseteq Members
    BY <1>17 DEF ToolCloses, TypeOK
  <2>2. UNCHANGED <<engine, leader, orphan, calm, told, strays, cried, signals, pipes>>
    BY <1>17 DEF ToolCloses
  <2> QED
    BY <2>1, <2>2 DEF TypeOK, engine, signals, pipes
<1>18. ASSUME NEW m \in Members, ToolExits(m) PROVE TypeOK'
  <2>1. /\ leader' \in {"none", "running", "zero", "nonzero", "reaped"}
        /\ orphan' \in BOOLEAN /\ out_by' \subseteq Members /\ err_by' \subseteq Members
    BY <1>18 DEF ToolExits, TypeOK
  <2>2. listening' \in BOOLEAN
    BY <1>18 DEF ToolExits
  <2>3. UNCHANGED <<engine, calm, told, strays, cried, signals, pipes>>
    BY <1>18 DEF ToolExits
  <2> QED
    BY <2>1, <2>2, <2>3 DEF TypeOK, engine, signals, pipes
<1>19. ASSUME Cancel PROVE TypeOK'
  BY <1>19 DEF Cancel, TypeOK, engine, process, pipes
<1>20. ASSUME Expire PROVE TypeOK'
  BY <1>20 DEF Expire, TypeOK, engine, process, pipes
<1>21. ASSUME Returned PROVE TypeOK'
  BY <1>21 DEF Returned, TypeOK, engine, process, pipes, vars, signals
<1> QED
  BY <1>1, <1>2, <1>3, <1>4, <1>5, <1>6, <1>7, <1>8, <1>9, <1>10, <1>11, <1>12, <1>13,
     <1>14, <1>15, <1>16, <1>17, <1>18, <1>19, <1>20, <1>21, ToolCases DEF Next, Engine


\* stderr moves in the reads of the executor and when the tool writes to it.
LEMMA NextErr == ASSUME TypeOK, ErrInv, Next PROVE ErrInv'
<1>1. ASSUME errb' = errb, errp' = errp, cried' = cried PROVE ErrInv'
  BY <1>1 DEF ErrInv, StderrIsTail
<1>2. ASSUME Spawn \/ SpawnFails \/ Look \/ Feed \/ ReadOut PROVE ErrInv'
  BY <1>1, <1>2 DEF Spawn, SpawnFails, Look, Feed, ReadOut, process, signals, pipes
<1>3. ASSUME ReadErr PROVE ErrInv'
  BY <1>1, <1>3, ReadsErr DEF ReadErr, process
<1>4. ASSUME Grace \/ GraceOver \/ Kill \/ Reap \/ Sweep PROVE ErrInv'
  BY <1>1, <1>4 DEF Grace, GraceOver, Kill, Reap, Reaped, Sweep, KillGroup, process, pipes
<1>5. ASSUME Drain PROVE ErrInv'
  BY <1>1, <1>5, ReadsErr DEF Drain, process
<1>6. ASSUME ToolReads \/ ToolForks PROVE ErrInv'
  BY <1>1, <1>6 DEF ToolReads, ToolForks, engine, process, pipes
<1>7. ASSUME NEW m \in Members, ToolAnswers(m) \/ ToolStrays(m) PROVE ErrInv'
  BY <1>1, <1>7 DEF ToolAnswers, ToolStrays, engine
<1>8. ASSUME NEW m \in Members, ToolCloses(m) \/ ToolExits(m) PROVE ErrInv'
  BY <1>1, <1>8 DEF ToolCloses, ToolExits, engine, pipes
<1>9. ASSUME NEW m \in Members, ToolCries(m) PROVE ErrInv'
  <2>1. /\ errp' = Append(errp, cried + 1) /\ cried' = cried + 1 /\ errb' = errb
    BY <1>9 DEF ToolCries, engine
  <2>2. /\ errp \in Seq(1..MaxErr) /\ cried + 1 \in 1..MaxErr
        /\ cried \in Int /\ Len(errp) \in Nat /\ Len(errb) \in Nat
    BY <1>9, OneShotAssumption, LenProperties DEF TypeOK, ToolCries
  <2>3. /\ Len(errp') = Len(errp) + 1 /\ errp'[Len(errp) + 1] = cried + 1
        /\ \A n \in 1..Len(errp) : errp'[n] = errp[n]
    BY <2>1, <2>2, AppendProperties
  <2>4. /\ \A n \in 1..Len(errp) : errp[n] = cried - Len(errp) + n
        /\ Len(errb) <= StderrMax
        /\ \A n \in 1..Len(errb) : errb[n] = cried - Len(errp) - Len(errb) + n
    BY DEF ErrInv, StderrIsTail
  <2>5. ASSUME NEW n \in 1..Len(errp') PROVE errp'[n] = cried' - Len(errp') + n
    <3>1. n \in 1..Len(errp) \/ n = Len(errp) + 1
      BY <2>2, <2>3
    <3>2. CASE n \in 1..Len(errp)
      BY <2>1, <2>2, <2>3, <2>4, <3>2
    <3>3. CASE n = Len(errp) + 1
      <4>1. errp'[n] = cried + 1
        BY <2>3, <3>3
      <4> QED
        BY <2>1, <2>2, <2>3, <3>3, <4>1
    <3> QED
      BY <3>1, <3>2, <3>3
  <2>6. StderrIsTail'
    BY <2>1, <2>2, <2>3, <2>4 DEF StderrIsTail
  <2> QED
    BY <2>5, <2>6 DEF ErrInv
<1>10. ASSUME Cancel \/ Expire \/ Returned PROVE ErrInv'
  BY <1>1, <1>10 DEF Cancel, Expire, Returned, engine, process, pipes, vars
<1> QED
  BY <1>2, <1>3, <1>4, <1>5, <1>6, <1>7, <1>8, <1>9, <1>10, ToolCases DEF Next, Engine

\* stdout moves in the reads of the executor and when the tool writes to it.
LEMMA NextOut == ASSUME TypeOK, OutInv, Next PROVE OutInv'
<1>0. /\ outb \in Seq(0..Response) /\ outp \in Seq(0..Response)
      /\ Len(outb) \in Nat /\ Len(outp) \in Nat
      /\ told \in Nat /\ strays \in Nat /\ Response \in Nat
  BY OneShotAssumption, LenProperties DEF TypeOK
<1>1. ASSUME outb' = outb, outp' = outp, told' = told, strays' = strays, calm' = calm PROVE OutInv'
  BY <1>1 DEF OutInv
<1>2. ASSUME Spawn \/ SpawnFails \/ Look \/ Feed \/ ReadErr PROVE OutInv'
  BY <1>1, <1>2 DEF Spawn, SpawnFails, Look, Feed, ReadErr, process, signals, pipes
<1>3. ASSUME NEW k \in 1..Len(outp), ReadSome(k), UNCHANGED process PROVE OutInv'
  <2> DEFINE new == SubSeq(outp, 1, k)
  <2>1. /\ outb' = outb \o new /\ outp' = SubSeq(outp, k + 1, Len(outp))
        /\ told' = told /\ strays' = strays /\ calm' = calm
    BY <1>3 DEF ReadSome, process
  <2>2. /\ new \in Seq(0..Response) /\ Len(new) = k /\ \A n \in 1..k : new[n] = outp[n]
        /\ Len(outp') = Len(outp) - k
        /\ \A n \in 1..Len(outp) - k : outp'[n] = outp[k + n]
    BY SMTT(30), <1>0, <2>1, Taken
  <2> HIDE DEF new
  <2>3. /\ Len(outb') = Len(outb) + k
        /\ \A n \in 1..Len(outb) + k : outb'[n] = IF n <= Len(outb) THEN outb[n] ELSE new[n - Len(outb)]
    <3>1. /\ Len(outb \o new) = Len(outb) + Len(new)
          /\ \A n \in 1..Len(outb) + Len(new) :
                (outb \o new)[n] = IF n <= Len(outb) THEN outb[n] ELSE new[n - Len(outb)]
      BY <1>0, <2>2, ConcatProperties
    <3> QED
      BY <2>1, <2>2, <3>1
  <2>4. ASSUME NEW n \in 1..Len(outb')
        PROVE  outb'[n] = IF n <= Len(outb) THEN outb[n] ELSE outp[n - Len(outb)]
    BY SMTT(30), <1>0, <2>2, <2>3
  <2>5. Len(outb') + Len(outp') = told' + strays'
    <3>1. Len(outb) + Len(outp) = told + strays
      BY DEF OutInv
    <3>2. k \in Int /\ Len(outb') = Len(outb) + k /\ Len(outp') = Len(outp) - k
      BY <1>0, <2>2, <2>3
    <3>3. told' + strays' = told + strays
      BY <2>1
    <3> QED
      BY <1>0, <3>1, <3>2, <3>3
  <2>6. \A n \in 1..Len(outb') : outb'[n] <= told'
    <3> SUFFICES ASSUME NEW n \in 1..Len(outb') PROVE outb'[n] <= told'
      OBVIOUS
    <3>1. CASE n <= Len(outb)
      BY <1>0, <2>1, <2>3, <2>4, <3>1 DEF OutInv
    <3>2. CASE n > Len(outb)
      <4>1. n - Len(outb) \in 1..Len(outp) /\ outb'[n] = outp[n - Len(outb)]
        BY <1>0, <2>3, <2>4, <3>2
      <4> QED
        BY <2>1, <4>1 DEF OutInv
    <3> QED
      BY <1>0, <2>3, <3>1, <3>2
  <2>7. \A n \in 1..Len(outp') : outp'[n] <= told'
    BY <1>0, <2>1, <2>2 DEF OutInv
  <2>8. ASSUME calm'
        PROVE  /\ strays' = 0
               /\ \A n \in 1..Len(outb') : outb'[n] = n
               /\ \A n \in 1..Len(outp') : outp'[n] = Len(outb') + n
    <3>1. /\ strays = 0
          /\ \A n \in 1..Len(outb) : outb[n] = n
          /\ \A n \in 1..Len(outp) : outp[n] = Len(outb) + n
      BY <2>1, <2>8 DEF OutInv
    <3>2. ASSUME NEW n \in 1..Len(outb') PROVE outb'[n] = n
      <4>1. CASE n <= Len(outb)
        <5>1. n \in 1..Len(outb) /\ outb'[n] = outb[n]
          BY <1>0, <2>3, <2>4, <4>1
        <5> QED
          BY <3>1, <5>1
      <4>2. CASE n > Len(outb)
        <5>1. n - Len(outb) \in 1..Len(outp) /\ outb'[n] = outp[n - Len(outb)]
          BY <1>0, <2>3, <2>4, <4>2
        <5>2. outp[n - Len(outb)] = Len(outb) + (n - Len(outb))
          BY <3>1, <5>1
        <5> QED
          BY <1>0, <2>3, <5>1, <5>2
      <4> QED
        BY <1>0, <2>3, <4>1, <4>2
    <3>3. ASSUME NEW n \in 1..Len(outp') PROVE outp'[n] = Len(outb') + n
      <4>0. k \in Int /\ 1 <= k /\ n \in 1..Len(outp) - k
        BY <1>0, <2>2
      <4>1. outp'[n] = outp[k + n] /\ k + n \in 1..Len(outp)
        BY <1>0, <2>2, <4>0
      <4>2. outp[k + n] = Len(outb) + (k + n)
        BY <3>1, <4>1
      <4> QED
        BY <1>0, <2>2, <2>3, <4>1, <4>2
    <3> QED
      BY <2>1, <3>1, <3>2, <3>3
  <2> QED
    BY <2>5, <2>6, <2>7, <2>8 DEF OutInv
<1>4. ASSUME ReadOut PROVE OutInv'
  <2>1. UNCHANGED process
    BY <1>4 DEF ReadOut
  <2>2. CASE \E k \in 1..Len(outp) : ReadSome(k)
    BY <1>3, <2>1, <2>2
  <2>3. CASE UNCHANGED <<outb, outp>>
    BY <1>1, <2>1, <2>3 DEF process
  <2> QED
    BY <1>4, <2>2, <2>3 DEF ReadOut
<1>5. ASSUME Grace \/ GraceOver \/ Kill \/ Reap \/ Drain \/ Sweep PROVE OutInv'
  BY <1>1, <1>5 DEF Grace, GraceOver, Kill, Reap, Reaped, Drain, Sweep, KillGroup, process, pipes
<1>6. ASSUME ToolReads \/ ToolForks PROVE OutInv'
  BY <1>1, <1>6 DEF ToolReads, ToolForks, engine, process, pipes
<1>7. ASSUME NEW m \in Members, ToolCloses(m) \/ ToolExits(m) \/ ToolCries(m) PROVE OutInv'
  BY <1>1, <1>7 DEF ToolCloses, ToolExits, ToolCries, engine, pipes
<1>8. ASSUME NEW m \in Members, ToolAnswers(m) PROVE OutInv'
  <2>1. /\ outp' = Append(outp, told + 1) /\ told + 1 \in 0..Response
        /\ told' = told + 1 /\ outb' = outb /\ strays' = strays /\ calm' = calm
    BY <1>0, <1>8 DEF ToolAnswers, engine, TypeOK
  <2>2. /\ Len(outp') = Len(outp) + 1 /\ outp'[Len(outp) + 1] = told + 1
        /\ \A n \in 1..Len(outp) : outp'[n] = outp[n]
    BY <1>0, <2>1, AppendProperties
  <2>3. \A n \in 1..Len(outb) : outb[n] \in Nat
    BY <1>0, ElementOfSeq
  <2>4. \A n \in 1..Len(outp) : outp[n] \in Nat
    BY <1>0, ElementOfSeq
  <2>5. Len(outb') + Len(outp') = told' + strays'
    BY <1>0, <2>1, <2>2 DEF OutInv
  <2>6. \A n \in 1..Len(outb') : outb'[n] <= told'
    BY <1>0, <2>1, <2>3 DEF OutInv
  <2>7. \A n \in 1..Len(outp') : outp'[n] <= told'
    <3> SUFFICES ASSUME NEW n \in 1..Len(outp') PROVE outp'[n] <= told'
      OBVIOUS
    <3>1. n \in 1..Len(outp) \/ n = Len(outp) + 1
      BY <1>0, <2>2
    <3> QED
      BY <1>0, <2>1, <2>2, <2>4, <3>1 DEF OutInv
  <2>8. ASSUME calm'
        PROVE  /\ strays' = 0
               /\ \A n \in 1..Len(outb') : outb'[n] = n
               /\ \A n \in 1..Len(outp') : outp'[n] = Len(outb') + n
    <3>1. /\ strays = 0 /\ Len(outb) + Len(outp) = told
          /\ \A n \in 1..Len(outb) : outb[n] = n
          /\ \A n \in 1..Len(outp) : outp[n] = Len(outb) + n
      BY <1>0, <2>1, <2>8 DEF OutInv
    <3>2. ASSUME NEW n \in 1..Len(outp') PROVE outp'[n] = Len(outb) + n
      <4>1. n \in 1..Len(outp) \/ n = Len(outp) + 1
        BY <1>0, <2>2
      <4>2. CASE n \in 1..Len(outp)
        BY <2>2, <3>1, <4>2
      <4>3. CASE n = Len(outp) + 1
        <5>1. outp'[n] = told + 1
          BY <2>2, <4>3
        <5> QED
          BY <1>0, <3>1, <4>3, <5>1
      <4> QED
        BY <4>1, <4>2, <4>3
    <3> QED
      BY <2>1, <3>1, <3>2
  <2> QED
    BY <2>5, <2>6, <2>7, <2>8 DEF OutInv
<1>9. ASSUME NEW m \in Members, ToolStrays(m) PROVE OutInv'
  <2>1. /\ outp' = Append(outp, Garbage) /\ Garbage = 0 /\ Garbage \in 0..Response /\ ~calm
        /\ told' = told /\ outb' = outb /\ strays' = strays + 1 /\ calm' = calm
    BY <1>0, <1>9 DEF ToolStrays, engine, Garbage
  <2>2. /\ Len(outp') = Len(outp) + 1 /\ outp'[Len(outp) + 1] = 0
        /\ \A n \in 1..Len(outp) : outp'[n] = outp[n]
    BY <1>0, <2>1, AppendProperties
  <2>3. Len(outb') + Len(outp') = told' + strays'
    <3>1. Len(outb) + Len(outp) = told + strays
      BY DEF OutInv
    <3> QED
      BY <1>0, <2>1, <2>2, <3>1
  <2>4. \A n \in 1..Len(outp') : outp'[n] <= told'
    <3> SUFFICES ASSUME NEW n \in 1..Len(outp') PROVE outp'[n] <= told'
      OBVIOUS
    <3>1. n \in 1..Len(outp) \/ n = Len(outp) + 1
      BY <1>0, <2>2
    <3> QED
      BY <1>0, <2>1, <2>2, <3>1 DEF OutInv
  <2> QED
    BY <2>1, <2>3, <2>4 DEF OutInv
<1>10. ASSUME Cancel \/ Expire \/ Returned PROVE OutInv'
  BY <1>1, <1>10 DEF Cancel, Expire, Returned, engine, process, pipes, vars
<1> QED
  BY <1>2, <1>4, <1>5, <1>6, <1>7, <1>8, <1>9, <1>10, ToolCases DEF Next, Engine


\* The executor reaps before it drains and judges, and a calm tool keeps its
\* stdout until its answer is out.
LEMMA NextPlace == ASSUME TypeOK, OutInv, PlaceInv, Next PROVE PlaceInv'
<1>1. ASSUME Spawn PROVE PlaceInv'
  BY <1>1 DEF Spawn, PlaceInv, signals, pipes
<1>2. ASSUME SpawnFails PROVE PlaceInv'
  BY <1>2 DEF SpawnFails, PlaceInv, process
<1>3. ASSUME Look PROVE PlaceInv'
  BY <1>3 DEF Look, Leave, PlaceInv, process
<1>4. ASSUME Feed PROVE PlaceInv'
  <2>1. /\ pc = "feed" /\ pc' = "read" /\ UNCHANGED <<status, code, process>>
    BY <1>4 DEF Feed
  <2> QED
    BY <2>1 DEF PlaceInv, process
<1>5. ASSUME ReadOut PROVE PlaceInv'
  <2>1. /\ pc = "read" /\ UNCHANGED <<code, process>>
        /\ \/ status' = "overflow" /\ pc' = "kill"
           \/ status' = status /\ pc' = "err"
           \/ status' = "eof" /\ pc' = "grace"
    BY <1>5 DEF ReadOut, ReadSome, Leave
  <2> QED
    BY <2>1 DEF PlaceInv, process
<1>6. ASSUME ReadErr PROVE PlaceInv'
  BY <1>6 DEF ReadErr, PlaceInv, process
<1>7. ASSUME Grace \/ Reap PROVE PlaceInv'
  BY <1>7 DEF Grace, Reap, Reaped, PlaceInv
<1>8. ASSUME GraceOver PROVE PlaceInv'
  BY <1>8 DEF GraceOver, PlaceInv, process
<1>9. ASSUME Kill PROVE PlaceInv'
  BY <1>9 DEF Kill, KillGroup, PlaceInv
<1>10. ASSUME Drain PROVE PlaceInv'
  BY <1>10 DEF Drain, PlaceInv, process
<1>11. ASSUME Sweep PROVE PlaceInv'
  BY <1>11 DEF Sweep, KillGroup, PlaceInv
<1>12. ASSUME ToolReads PROVE PlaceInv'
  BY <1>12 DEF ToolReads, PlaceInv, engine, process
<1>13. ASSUME ToolForks PROVE PlaceInv'
  BY <1>13 DEF ToolForks, PlaceInv, engine
<1>14. ASSUME NEW m \in Members, ToolAnswers(m) PROVE PlaceInv'
  <2>1. told < Response /\ told' = told + 1 /\ told \in Int /\ Response \in Int
    BY <1>14, OneShotAssumption DEF ToolAnswers, TypeOK
  <2> QED
    BY <1>14, <2>1 DEF ToolAnswers, PlaceInv, engine
<1>15. ASSUME NEW m \in Members, ToolStrays(m) \/ ToolCries(m) PROVE PlaceInv'
  BY <1>15 DEF ToolStrays, ToolCries, PlaceInv, engine
<1>16. ASSUME NEW m \in Members, ToolCloses(m) PROVE PlaceInv'
  BY <1>16, OneShotAssumption DEF ToolCloses, PlaceInv, engine
<1>17. ASSUME NEW m \in Members, ToolExits(m) PROVE PlaceInv'
  BY <1>17, OneShotAssumption DEF ToolExits, PlaceInv, engine, Alive
<1>18. ASSUME Cancel \/ Expire PROVE PlaceInv'
  BY <1>18 DEF Cancel, Expire, PlaceInv, engine, process
<1>19. ASSUME Returned PROVE PlaceInv'
  BY <1>19 DEF Returned, PlaceInv, engine, process, vars
<1> QED
  BY <1>1, <1>2, <1>3, <1>4, <1>5, <1>6, <1>7, <1>8, <1>9, <1>10, <1>11, <1>12, <1>13,
     <1>14, <1>15, <1>16, <1>17, <1>18, <1>19, ToolCases DEF Next, Engine

\* At the end of the file of a calm tool its whole answer has been collected.
LEMMA CalmAnswer ==
    ASSUME TypeOK, OutInv, PlaceInv, calm, pc = "read", EndOfFile
    PROVE  WellFormed(outb)
<1>1. status = "running" /\ leader # "none" /\ out_by = {} /\ outp = <<>>
  BY DEF PlaceInv, EndOfFile
<1>2. told = Response /\ Response \in Nat
  BY <1>1, OneShotAssumption DEF PlaceInv, TypeOK
<1>3. /\ outb \in Seq(0..Response) /\ Len(outb) \in Nat /\ Len(outb) = Response
      /\ \A n \in 1..Len(outb) : outb[n] = n
  BY <1>1, <1>2, LenProperties DEF OutInv, TypeOK
<1>4. outb = [n \in 1..Len(outb) |-> outb[n]]
  BY <1>3, LenProperties
<1> QED
  BY <1>3, <1>4 DEF WellFormed

\* The loop is left for a reason that is true then and stays true.
LEMMA NextCause == ASSUME TypeOK, OutInv, PlaceInv, CauseInv, Next PROVE CauseInv'
<1>0. ASSUME UNCHANGED <<status, cancelled, expired, outb, calm>> PROVE CauseInv'
  BY <1>0 DEF CauseInv, WellFormed
<1>1. ASSUME Spawn \/ SpawnFails \/ Feed \/ ReadErr PROVE CauseInv'
  BY <1>0, <1>1 DEF Spawn, SpawnFails, Feed, ReadErr, process, signals
<1>2. ASSUME Look PROVE CauseInv'
  <2>1. /\ status = "running" /\ UNCHANGED <<cancelled, expired, outb, calm>>
        /\ \/ status' = "cancel" /\ cancelled
           \/ status' = "timeout" /\ expired
           \/ status' = "eof" /\ ~calm
           \/ status' = status
    BY <1>2 DEF Look, Leave, PlaceInv, process, signals
  <2> QED
    BY <2>1 DEF CauseInv
<1>3. ASSUME ReadOut PROVE CauseInv'
  <2>1. status = "running" /\ UNCHANGED <<cancelled, expired, calm>> /\ pc = "read"
    BY <1>3 DEF ReadOut, PlaceInv, process, signals
  <2>2. CASE \E k \in 1..Len(outp) : ReadSome(k)
    <3>1. \/ status' = "overflow" /\ Len(outb') > MaxOutput
          \/ status' = "running"
      BY <2>1, <2>2 DEF ReadSome, Leave, Overflows
    <3> QED
      BY <2>1, <3>1 DEF CauseInv
  <2>3. CASE EndOfFile /\ Leave("eof") /\ UNCHANGED <<outb, outp>>
    <3>1. calm => WellFormed(outb)
      BY <2>1, <2>3, CalmAnswer
    <3> QED
      BY <2>1, <2>3, <3>1 DEF CauseInv, Leave, WellFormed
  <2>4. CASE UNCHANGED <<status, outb, outp>>
    BY <1>0, <2>1, <2>4
  <2> QED
    BY <1>3, <2>2, <2>3, <2>4 DEF ReadOut
<1>4. ASSUME Grace \/ GraceOver \/ Kill \/ Reap \/ Drain \/ Sweep PROVE CauseInv'
  BY <1>0, <1>4 DEF Grace, GraceOver, Kill, Reap, Reaped, Drain, Sweep, KillGroup, process, signals
<1>5. ASSUME ToolReads \/ ToolForks PROVE CauseInv'
  BY <1>0, <1>5 DEF ToolReads, ToolForks, engine, process, signals
<1>6. ASSUME NEW m \in Members,
             ToolAnswers(m) \/ ToolStrays(m) \/ ToolCries(m) \/ ToolCloses(m) \/ ToolExits(m)
      PROVE  CauseInv'
  BY <1>0, <1>6 DEF ToolAnswers, ToolStrays, ToolCries, ToolCloses, ToolExits, engine, signals
<1>7. ASSUME Cancel \/ Expire PROVE CauseInv'
  <2>1. UNCHANGED <<status, outb, calm>> /\ (cancelled => cancelled') /\ (expired => expired')
    BY <1>7 DEF Cancel, Expire, engine, process
  <2> QED
    BY <2>1 DEF CauseInv, WellFormed
<1>8. ASSUME Returned PROVE CauseInv'
  BY <1>0, <1>8 DEF Returned, engine, process, signals, vars
<1> QED
  BY <1>1, <1>2, <1>3, <1>4, <1>5, <1>6, <1>7, <1>8, ToolCases DEF Next, Engine


\* After the verdict nothing it rests on changes: the group is gone.
LEMMA NextDone == ASSUME TypeOK, PlaceInv, DoneInv, Next PROVE DoneInv'
<1>0. ASSUME UNCHANGED <<pc, leader, orphan, status, outb, code, verdict>> PROVE DoneInv'
  BY <1>0 DEF DoneInv, Judged, WellFormed
<1>1. ASSUME pc' # "done" PROVE DoneInv'
  BY <1>1 DEF DoneInv
<1>2. ASSUME Spawn \/ Look \/ Feed \/ ReadOut \/ ReadErr PROVE DoneInv'
  BY <1>1, <1>2 DEF Spawn, Look, Leave, Feed, ReadOut, ReadSome, ReadErr
<1>3. ASSUME Grace \/ GraceOver \/ Kill \/ Reap \/ Drain PROVE DoneInv'
  BY <1>1, <1>3 DEF Grace, GraceOver, Kill, Reap, Reaped, Drain
<1>4. ASSUME SpawnFails PROVE DoneInv'
  BY <1>4 DEF SpawnFails, DoneInv, PlaceInv, process
<1>5. ASSUME Sweep PROVE DoneInv'
  <2>1. /\ leader = "reaped" /\ status # "running" /\ code \in {"zero", "nonzero"}
        /\ leader' = leader /\ orphan' = FALSE /\ verdict' = Judged
        /\ UNCHANGED <<status, outb, code>>
    BY <1>5 DEF Sweep, KillGroup, PlaceInv
  <2>2. Judged' = Judged
    BY <2>1 DEF Judged, WellFormed
  <2> QED
    BY <2>1, <2>2 DEF DoneInv
<1>6. ASSUME ToolReads PROVE DoneInv'
  BY <1>0, <1>6 DEF ToolReads, engine, process
<1>7. ASSUME NEW m \in Members, ToolAnswers(m) \/ ToolStrays(m) \/ ToolCries(m) PROVE DoneInv'
  BY <1>0, <1>7 DEF ToolAnswers, ToolStrays, ToolCries, engine
<1>8. ASSUME NEW m \in Members, ToolCloses(m) PROVE DoneInv'
  BY <1>0, <1>8 DEF ToolCloses, engine
<1>9. ASSUME ToolForks \/ \E m \in Members : ToolExits(m) PROVE DoneInv'
  <2>1. CASE pc = "done"
    <3>1. (leader = "none" \/ leader = "reaped") /\ ~orphan
      BY <2>1 DEF DoneInv, PlaceInv
    <3> QED
      BY <1>9, <3>1 DEF ToolForks, ToolExits, Alive, Members
  <2>2. CASE pc # "done"
    BY <1>1, <1>9, <2>2 DEF ToolForks, ToolExits, engine
  <2> QED
    BY <2>1, <2>2
<1>10. ASSUME Cancel \/ Expire \/ Returned PROVE DoneInv'
  BY <1>0, <1>10 DEF Cancel, Expire, Returned, engine, process, vars
<1> QED
  BY <1>2, <1>3, <1>4, <1>5, <1>6, <1>7, <1>8, <1>9, <1>10, ToolCases DEF Next, Engine

\* Before the spawn nothing was written and nobody runs.
LEMMA InitOne == Init => OneInv
<1> SUFFICES ASSUME Init PROVE OneInv
  OBVIOUS
<1>1. TypeOK
  <2>1. /\ outp \in Seq(0..Response) /\ outb \in Seq(0..Response)
        /\ errp \in Seq(1..MaxErr) /\ errb \in Seq(1..MaxErr)
        /\ Len(outp) = 0 /\ Len(errp) = 0
    BY DEF Init
  <2>2. /\ unsent \in 0..Request /\ stdin \in 0..Pipe /\ told \in 0..Response
        /\ strays \in 0..MaxStray /\ cried \in 0..MaxErr /\ Pipe \in Nat /\ ErrPipe \in Nat
    BY OneShotAssumption DEF Init
  <2>3. Len(outp) <= Pipe /\ Len(errp) <= ErrPipe
    BY <2>1, <2>2
  <2> QED
    BY <2>1, <2>2, <2>3 DEF Init, TypeOK, Members, Statuses, Verdicts
<1>2. OutInv
  BY OneShotAssumption DEF Init, OutInv
<1>3. ErrInv
  BY OneShotAssumption DEF Init, ErrInv, StderrIsTail
<1>4. PlaceInv /\ CauseInv /\ DoneInv
  BY DEF Init, PlaceInv, CauseInv, DoneInv
<1> QED
  BY <1>1, <1>2, <1>3, <1>4 DEF OneInv

\* The parts together are inductive.
LEMMA NextOne == ASSUME OneInv, [Next]_vars PROVE OneInv'
<1>1. CASE Next
  BY <1>1, NextType, NextErr, NextOut, NextPlace, NextCause, NextDone DEF OneInv
<1>2. CASE UNCHANGED vars
  <2> USE <1>2 DEF vars, engine, process, signals, pipes
  <2>1. TypeOK'
    BY DEF OneInv, TypeOK
  <2>2. OutInv' /\ ErrInv'
    BY DEF OneInv, OutInv, ErrInv, StderrIsTail
  <2>3. PlaceInv' /\ CauseInv'
    BY DEF OneInv, PlaceInv, CauseInv, WellFormed
  <2>4. DoneInv'
    BY DEF OneInv, DoneInv, Judged, WellFormed
  <2> QED
    BY <2>1, <2>2, <2>3, <2>4 DEF OneInv
<1> QED
  BY <1>1, <1>2

\* What a verdict claims follows from what was collected and why the loop ended.
LEMMA OneMeans == OneInv => OneShotJustified
<1> SUFFICES ASSUME OneInv PROVE OneShotJustified
  OBVIOUS
<1>0. /\ outb \in Seq(0..Response) /\ Len(outb) \in Nat /\ Len(outp) \in Nat
      /\ told \in 0..Response /\ strays \in Nat /\ Response \in Nat /\ Response > 0
      /\ MaxOutput \in Nat
      /\ Len(outb) + Len(outp) = told + strays
  BY OneShotAssumption, LenProperties DEF OneInv, TypeOK, OutInv
<1>1. WellFormed(outb) => told = Response
  <2> SUFFICES ASSUME WellFormed(outb) PROVE told = Response
    OBVIOUS
  <2>1. Len(outb) = Response /\ outb[Response] = Response
    BY <1>0 DEF WellFormed
  <2>2. outb[Response] <= told
    BY <1>0, <2>1 DEF OneInv, OutInv
  <2> QED
    BY <1>0, <2>1, <2>2
<1>2. status = "overflow" => told + strays > MaxOutput
  BY <1>0 DEF OneInv, CauseInv
<1>3. status = "overflow" /\ calm => Response > MaxOutput
  BY <1>0, <1>2 DEF OneInv, OutInv
<1>4. ASSUME pc = "done", leader # "none"
      PROVE  /\ verdict = Judged /\ status \in {"eof", "cancel", "timeout", "overflow"}
             /\ leader = "reaped" /\ ~orphan /\ code \in {"zero", "nonzero"}
  BY <1>4 DEF OneInv, DoneInv, TypeOK, Statuses
<1>5. pc = "done" /\ leader = "none" => verdict = "crashed" /\ ~orphan
  BY DEF OneInv, DoneInv, PlaceInv
<1>6. VerdictJustified
  <2> SUFFICES ASSUME pc = "done"
               PROVE  CASE verdict = "ok" -> told = Response
                        [] verdict = "cancelled" -> cancelled
                        [] verdict = "timeout" -> expired
                        [] verdict = "overflow" -> told + strays > MaxOutput
                        [] verdict = "crashed" -> leader = "none" \/ code = "nonzero"
                        [] verdict = "protocol" -> ~calm
    BY DEF VerdictJustified
  <2>1. CASE leader = "none"
    BY <1>5, <2>1
  <2>2. CASE leader # "none"
    BY <1>1, <1>2, <1>4, <2>2 DEF Judged, OneInv, CauseInv
  <2> QED
    BY <2>1, <2>2
<1>7. CalmServed
  BY <1>0, <1>3, <1>4 DEF CalmServed, Judged, OneInv, CauseInv
<1>8. NoSurvivors
  BY <1>4, <1>5 DEF NoSurvivors
<1> QED
  BY <1>6, <1>7, <1>8 DEF OneShotJustified, OneInv, ErrInv

\* Every verdict of the one-shot executor has its cause, a calm tool is served,
\* stderr keeps its newest part and no process of the group is left, whatever the
\* sizes of the pipes, the request, the response and the limits.
THEOREM VerdictsAreJustified == AllSpec => []OneShotJustified
<1>1. AllInit => OneInv
  BY InitOne DEF AllInit
<1>2. OneInv /\ [AllNext]_allVars => OneInv'
  BY NextOne DEF AllNext, allVars
<1> QED
  BY <1>1, <1>2, OneMeans, PTL DEF AllSpec


-----------------------------------------------------------------------------
(* Foreign servers.                                                        *)

Query == [id : Nat, call : Nat,
          method : {"initialize", "tools/list", "tools/call", "didOpen", "query", "none"}]
Message == [t : {"result", "error", "diagnostics", "note", "request", "bad", "changed"},
            q : Query, cat : Nat,
            shape : {"good", "is-error", "input-required", "malformed"},
            hit : {"none", "match", "other"}, more : {"done", "next", "same"}]
Failure == {"tool", "protocol", "busy", "not-found", "unsupported", "interrupted"}
Place == {"idle", "init", "ready", "list", "call", "open", "query", "observe", "render",
          "recheck", "recheck2"}

\* The ranges of the client's and the server's state.
WireType ==
    /\ proto \in {"mcp", "lsp"} /\ fpc \in Place
    /\ calls \in Nat /\ serial \in Nat /\ epoch \in Nat /\ want \in Nat /\ alive \in BOOLEAN
    /\ asked \subseteq Query /\ wire \in Seq(Message)
    /\ check \in [epoch : Nat, page : Nat, matches : Nat, cats : SUBSET Nat]
    /\ answer \in Failure \cup {"none", "ok", "is-error", "input-required"}
    /\ DOMAIN view \subseteq F!File
    /\ cat \in Nat /\ disk \in [F!File -> Nat] /\ since \in [F!File -> SUBSET Nat]

\* Ids of requests and versions of documents are never used twice in one
\* process, and every answer on its way is to one of them.
AskInv ==
    /\ \A r \in asked : r.id <= serial /\ \A o \in asked : o.id = r.id => o = r
    /\ \A n \in 1..Len(wire) :
          /\ wire[n].t \in {"result", "error"} => wire[n].q \in asked /\ wire[n].q.method # "didOpen"
          /\ wire[n].t = "diagnostics" => wire[n].q \in asked /\ wire[n].q.method = "didOpen"
    /\ ~alive => asked = {} /\ wire = <<>>

MethodAt(place) ==
    CASE place = "init" -> "initialize"
      [] place = "list" -> "tools/list"
      [] place = "call" -> "tools/call"
      [] place = "query" -> "query"

\* The client waits for the answer to the last request of this call.
PhaseInv ==
    /\ fpc # "idle" => alive /\ answer = "none"
    /\ fpc \in {"init", "list", "call", "query"} =>
          want # 0 /\ F!Asked(want, MethodAt(fpc), calls) \in asked
    /\ fpc = "observe" => want = 0 /\ F!Asked(serial, "didOpen", calls) \in asked
    /\ fpc \in {"list", "call"} => proto = "mcp"
    /\ fpc \in {"open", "query", "observe", "render", "recheck", "recheck2"} => proto = "lsp"
    /\ fpc \in {"render", "recheck", "recheck2"} =>
          /\ got.q.call = calls
          /\ got.q.method = IF got.t = "diagnostics" THEN "didOpen" ELSE "query"
    /\ F!AnswersOwn

\* The catalog after a message, and the one the client has read up to.
After(m) == IF m.t = "changed" THEN m.cat + 1 ELSE m.cat
Current == IF wire = <<>> THEN cat ELSE wire[1].cat

\* Every change of the tools is announced in its place among the messages ...
Chain ==
    \A n \in 1..Len(wire) :
        /\ n < Len(wire) => wire[n + 1].cat = After(wire[n])
        /\ n = Len(wire) => cat = After(wire[n])

\* ... so pages read in one epoch are of the catalog the client has read up to.
CatInv ==
    /\ Chain
    /\ proto = "mcp" /\ fpc = "list" =>
          /\ check.epoch <= epoch /\ check.matches <= 1
          /\ epoch = check.epoch => check.cats \subseteq {Current}
    /\ fpc = "call" => check.matches = 1 /\ \E c \in Nat : check.cats = {c}

\* What was read, and what the files have held since the server answered.
FileInv ==
    /\ fpc \in {"open", "query", "observe", "render", "recheck", "recheck2"} =>
          "source" \in DOMAIN view /\ view["source"] = expects
    /\ fpc \in {"render", "recheck", "recheck2"} => \A f \in F!File : disk[f] \in since[f]
    /\ fpc = "recheck2" => view["source"] \in since["source"]
    /\ F!ResultCurrent

ForeignInv == WireType /\ AskInv /\ PhaseInv /\ CatInv /\ FileInv


\* The ways a message is taken.  A call that fails stops the process.
Failed == \E why \in Failure : F!Stop(why) /\ UNCHANGED <<proto, cat, disk, since>>

\* A message that completes nothing.
Skipped ==
    /\ wire # <<>> /\ wire' = Tail(wire)
    /\ wire[1].t # "changed" => epoch' = epoch
    /\ wire[1].t = "changed" /\ proto = "mcp" => epoch' = epoch + 1
    /\ epoch' \in {epoch, epoch + 1}
    /\ UNCHANGED <<proto, fpc, calls, alive, serial, want, asked, check, view, expects, answer,
                   got, cat, disk, since>>

\* The message completes what the client waits for.
Completed(place) ==
    /\ fpc \in {"init", "list", "call", "query"} /\ wire # <<>>
    /\ wire[1].t = "result" /\ F!Correlated(wire[1]) /\ F!Proper(wire[1])
    /\ got' = wire[1] /\ wire' = Tail(wire) /\ fpc' = place
    /\ UNCHANGED <<proto, calls, alive, epoch, view, expects, cat, disk>>

TookInit ==
    /\ fpc = "init" /\ Completed("ready")
    /\ UNCHANGED <<serial, want, asked, check, answer, since>>

\* A page of the right catalog, after which the next one or the call is asked for.
TookPage(method, place) ==
    /\ fpc = "list" /\ Completed(place) /\ F!SameEpoch(epoch)
    /\ check'.matches \in {check.matches, check.matches + 1} /\ check'.matches <= 1
    /\ check'.epoch = check.epoch /\ check'.cats = check.cats \cup {wire[1].cat}
    /\ check' \in [epoch : Nat, page : Nat, matches : Nat, cats : SUBSET Nat]
    /\ serial' = serial + 1 /\ want' = serial + 1
    /\ asked' = asked \cup {F!Asked(serial + 1, method, calls)}
    /\ UNCHANGED <<answer, since>>

TookResult ==
    /\ fpc = "call" /\ Completed("idle")
    /\ answer' \in {"ok", "is-error", "input-required"}
    /\ UNCHANGED <<serial, want, asked, check, since>>

\* The answer, or the diagnostics, of the document just opened.
TookQuery ==
    /\ wire # <<>> /\ got' = wire[1] /\ wire' = Tail(wire) /\ fpc' = "render"
    /\ \/ fpc = "query" /\ wire[1].t = "result" /\ F!Correlated(wire[1])
       \/ fpc = "observe" /\ wire[1].t = "diagnostics" /\ F!Observed(wire[1])
    /\ since' = [f \in F!File |-> {disk[f]}]
    /\ UNCHANGED <<proto, calls, alive, serial, epoch, want, asked, check, view, expects, answer,
                   cat, disk>>

\* The first message is one of those sent.
LEMMA HeadIs ==
    ASSUME WireType, wire # <<>>
    PROVE  /\ Head(wire) = wire[1] /\ wire[1] \in Message /\ Tail(wire) \in Seq(Message)
           /\ 1 \in 1..Len(wire) /\ Len(wire) \in Nat
           /\ Len(Tail(wire)) = Len(wire) - 1
           /\ \A n \in 1..Len(wire) - 1 : Tail(wire)[n] = wire[n + 1] /\ n + 1 \in 1..Len(wire)
           /\ Tail(wire) = <<>> <=> Len(wire) = 1
<1>1. wire \in Seq(Message) /\ Len(wire) \in Nat
  BY LenProperties DEF WireType
<1>2. Len(wire) # 0
  BY <1>1, EmptySeq
<1>3. 1 \in 1..Len(wire) /\ wire[1] \in Message
  BY <1>1, <1>2, ElementOfSeq
<1>4. /\ Head(wire) = wire[1] /\ Tail(wire) \in Seq(Message) /\ Len(Tail(wire)) = Len(wire) - 1
      /\ \A n \in 1..Len(Tail(wire)) : Tail(wire)[n] = wire[n + 1]
  BY <1>1, HeadTailProperties
<1>5. \A n \in 1..Len(wire) - 1 : Tail(wire)[n] = wire[n + 1] /\ n + 1 \in 1..Len(wire)
  BY <1>1, <1>4
<1>6. Tail(wire) = <<>> <=> Len(wire) = 1
  <2>1. Tail(wire) = <<>> <=> Len(Tail(wire)) = 0
    BY <1>4, EmptySeq
  <2> QED
    BY <1>1, <1>4, <2>1
<1> QED
  BY <1>1, <1>3, <1>4, <1>5, <1>6

\* Receive takes the first message in one of these ways.
LEMMA ReceiveCases ==
    ASSUME WireType, AskInv, PhaseInv, F!Receive
    PROVE  \/ Failed \/ Skipped \/ TookInit \/ TookResult \/ TookQuery
           \/ TookPage("tools/list", "list")
           \/ TookPage("tools/call", "call") /\ check'.matches = 1
<1> DEFINE m == wire[1]
<1>1. /\ wire # <<>> /\ Head(wire) = m /\ m \in Message
      /\ fpc \in {"init", "list", "call", "query", "observe"} /\ proto' = proto
  BY HeadIs DEF F!Receive, F!Waiting
<1>2. m.t = "diagnostics" => m.q \in asked /\ m.q.method = "didOpen"
  BY <1>1, HeadIs DEF AskInv
<1> HIDE DEF m
<1>3. ASSUME NEW why \in Failure, F!Stop(why), UNCHANGED <<cat, disk, since>> PROVE Failed
  BY <1>1, <1>3 DEF Failed
<1>4. ASSUME F!Read, UNCHANGED <<cat, disk, since>>, m.t # "changed" PROVE Failed \/ Skipped
  BY <1>1, <1>3, <1>4 DEF F!Read, F!Skip, Skipped, Failure, m
<1>5. CASE m.t = "bad"
  <2>1. F!Stop("protocol") /\ UNCHANGED <<cat, disk, since>>
    BY <1>1, <1>5 DEF F!Receive, F!world
  <2> QED
    BY <1>3, <2>1 DEF Failure
<1>6. CASE m.t = "note"
  <2>1. F!Read /\ UNCHANGED <<cat, disk, since>>
    BY <1>1, <1>6 DEF F!Receive, F!world
  <2> QED
    BY <1>4, <1>6, <2>1
<1>7. CASE m.t = "changed"
  <2>1. F!ListChanged /\ UNCHANGED <<cat, disk, since>>
    BY <1>1, <1>7 DEF F!Receive, F!world
  <2>2. CASE left = 1
    BY <1>3, <2>1, <2>2 DEF F!ListChanged, Failure
  <2>3. CASE left # 1
    BY <1>1, <1>7, <2>1, <2>3 DEF F!ListChanged, F!Skip, Skipped, m
  <2> QED
    BY <2>2, <2>3
<1>8. CASE m.t = "request"
  <2>1. F!ServerRequest /\ UNCHANGED <<cat, disk, since>>
    BY <1>1, <1>8 DEF F!Receive, F!world
  <2> QED
    BY <1>3, <1>4, <1>8, <2>1 DEF F!ServerRequest, Failure
<1>9. CASE m.t = "diagnostics"
  <2>1. CASE F!Observed(m)
    <3>1. fpc = "observe"
      BY <1>1, <2>1 DEF F!Observed, PhaseInv
    <3>2. F!Queried(m) /\ F!Arrived
      BY <1>1, <1>9, <2>1 DEF F!Receive
    <3> QED
      BY <1>1, <1>9, <2>1, <3>1, <3>2 DEF F!Queried, F!On, F!Arrived, TookQuery, m
  <2>2. CASE ~F!Observed(m)
    <3>1. F!Read /\ UNCHANGED <<cat, disk, since>>
      BY <1>1, <1>9, <2>2 DEF F!Receive, F!world
    <3> QED
      BY <1>4, <1>9, <3>1
  <2> QED
    BY <2>1, <2>2
<1>10. CASE m.t \in {"result", "error"}
  <2>1. F!ReceiveResponse(m)
    BY <1>1, <1>10 DEF F!Receive
  <2>2. CASE ~(F!Correlated(m) /\ m.t # "error" /\ F!Proper(m))
    <3>1. (F!Stop("protocol") \/ F!Stop("tool")) /\ UNCHANGED <<cat, disk, since>>
      BY <2>1, <2>2 DEF F!ReceiveResponse, F!world
    <3> QED
      BY <1>3, <3>1 DEF Failure
  <2>3. CASE F!Correlated(m) /\ m.t # "error" /\ F!Proper(m)
    <3>1. /\ fpc = "init" => F!Initialized(m) /\ UNCHANGED <<cat, disk, since>>
          /\ fpc = "list" => F!Page(m) /\ UNCHANGED <<cat, disk, since>>
          /\ fpc = "call" => F!Called(m) /\ UNCHANGED <<cat, disk, since>>
          /\ fpc = "query" => F!Queried(m) /\ F!Arrived
      BY <2>1, <2>3 DEF F!ReceiveResponse, F!world
    <3>2. fpc # "observe" /\ m.t = "result"
      BY <1>10, <2>3 DEF F!Correlated, PhaseInv
    <3>3. CASE fpc = "init"
      BY <1>1, <2>3, <3>1, <3>2, <3>3 DEF F!Initialized, F!On, TookInit, Completed, m
    <3>4. CASE fpc = "call"
      <4>1. answer' \in {"ok", "is-error", "input-required"}
        BY <2>3, <3>1, <3>4 DEF F!Called, F!Proper
      <4> QED
        BY <1>1, <2>3, <3>1, <3>2, <3>4, <4>1 DEF F!Called, F!On, TookResult, Completed, m
    <3>5. CASE fpc = "query"
      BY <1>1, <2>3, <3>1, <3>2, <3>5 DEF F!Queried, F!On, F!Arrived, TookQuery, m
    <3>6. CASE fpc = "list"
      <4> DEFINE hits == check.matches + (IF m.hit = "none" THEN 0 ELSE 1)
                 next == [check EXCEPT !.page = @ + 1, !.matches = hits, !.cats = @ \cup {m.cat}]
      <4>1. F!Page(m) /\ UNCHANGED <<cat, disk, since>>
        BY <3>1, <3>6
      <4>2. /\ check \in [epoch : Nat, page : Nat, matches : Nat, cats : SUBSET Nat]
            /\ hits \in {check.matches, check.matches + 1} /\ hits \in Nat /\ m.cat \in Nat
        BY <1>1 DEF WireType, Message
      <4>3. /\ next.matches = hits /\ next.epoch = check.epoch
            /\ next.cats = check.cats \cup {m.cat}
            /\ next \in [epoch : Nat, page : Nat, matches : Nat, cats : SUBSET Nat]
        <5>1. check.page + 1 \in Nat /\ check.cats \cup {m.cat} \in SUBSET Nat
          BY <4>2
        <5>2. hits \in Nat
          BY <4>2
        <5> HIDE DEF hits
        <5>3. next \in [epoch : Nat, page : Nat, matches : Nat, cats : SUBSET Nat]
          BY <4>2, <5>1, <5>2
        <5>4. /\ next.matches = hits /\ next.epoch = check.epoch
              /\ next.cats = check.cats \cup {m.cat}
          BY <4>2
        <5> QED
          BY <5>3, <5>4
      <4> HIDE DEF hits, next
      <4>4. CASE \/ ~F!SameEpoch(epoch)
                 \/ m.more = "same" /\ check.page > 0
                 \/ m.hit = "other" \/ hits > 1
        <5>1. F!Stop("busy") \/ F!Stop("protocol")
          BY <4>1, <4>4 DEF F!Page, hits
        <5> QED
          BY <1>3, <4>1, <5>1 DEF Failure
      <4>5. CASE /\ F!SameEpoch(epoch)
                 /\ ~(m.more = "same" /\ check.page > 0)
                 /\ ~(m.hit = "other" \/ hits > 1)
        <5>1. IF m.more = "done" THEN
                   IF hits = 0 THEN F!Stop("not-found")
                   ELSE /\ F!SendRequest("tools/call", "call")
                        /\ IF serial >= SerialMax THEN TRUE
                           ELSE check' = next /\ F!On(m) /\ F!KeepView /\ UNCHANGED answer
              ELSE IF next.page = PageMax THEN F!Stop("tool")
              ELSE /\ F!SendRequest("tools/list", "list")
                   /\ IF serial >= SerialMax THEN TRUE
                      ELSE check' = next /\ F!On(m) /\ F!KeepView /\ UNCHANGED answer
          BY <4>1, <4>5 DEF F!Page, hits, next
        <5>2. hits <= 1 /\ (hits # 0 => hits = 1)
          BY <4>2, <4>5
        <5>3. ASSUME NEW method, NEW place, F!SendRequest(method, place),
                     serial >= SerialMax \/ (check' = next /\ F!On(m) /\ F!KeepView /\ UNCHANGED answer)
              PROVE  Failed \/ (TookPage(method, place) /\ check'.matches = hits)
          <6>1. CASE serial >= SerialMax
            BY <1>3, <4>1, <5>3, <6>1 DEF F!SendRequest, Failure
          <6>2. CASE ~(serial >= SerialMax)
            <7>1. /\ serial' = serial + 1 /\ want' = serial + 1 /\ fpc' = place
                  /\ asked' = asked \cup {F!Asked(serial + 1, method, calls)}
                  /\ check' = next /\ F!On(m) /\ F!KeepView /\ UNCHANGED answer
              BY <5>3, <6>2 DEF F!SendRequest
            <7>2. Completed(place)
              BY <1>1, <2>3, <3>2, <4>1, <7>1 DEF Completed, F!On, F!KeepView, m
            <7> QED
              BY <3>6, <4>1, <4>2, <4>3, <4>5, <5>2, <7>1, <7>2 DEF TookPage, m
          <6> QED
            BY <6>1, <6>2
        <5>4. CASE m.more = "done" /\ hits = 0
          BY <1>3, <4>1, <5>1, <5>4 DEF Failure
        <5>5. CASE m.more = "done" /\ hits # 0
          BY <5>1, <5>2, <5>3, <5>5
        <5>6. CASE m.more # "done" /\ next.page = PageMax
          BY <1>3, <4>1, <5>1, <5>6 DEF Failure
        <5>7. CASE m.more # "done" /\ next.page # PageMax
          BY <5>1, <5>3, <5>7
        <5> QED
          BY <5>4, <5>5, <5>6, <5>7
      <4> QED
        BY <4>4, <4>5
    <3> QED
      BY <1>1, <3>2, <3>3, <3>4, <3>5, <3>6
  <2> QED
    BY <2>2, <2>3
<1> QED
  BY <1>1, <1>5, <1>6, <1>7, <1>8, <1>9, <1>10 DEF Message


\* The other steps of the client that do not end the call.
Checking ==
    /\ fpc = "ready" /\ proto = "mcp" /\ fpc' = "list"
    /\ serial' = serial + 1 /\ want' = serial + 1
    /\ asked' = asked \cup {F!Asked(serial + 1, "tools/list", calls)}
    /\ check' = [epoch |-> epoch, page |-> 0, matches |-> 0, cats |-> {}]
    /\ UNCHANGED <<proto, calls, alive, epoch, wire, view, expects, answer, got, cat, disk, since>>

Opening ==
    /\ fpc = "ready" /\ proto = "lsp" /\ fpc' = "open"
    /\ disk["source"] = expects /\ view' = [f \in {"source"} |-> disk[f]]
    /\ UNCHANGED <<proto, calls, alive, serial, epoch, want, asked, wire, check, expects, answer,
                   got, cat, disk, since>>

Querying ==
    /\ fpc = "open"
    /\ \/ /\ fpc' = "query" /\ want' = serial + 2 /\ serial' = serial + 2
          /\ asked' = asked \cup {F!Asked(serial + 1, "didOpen", calls),
                                  F!Asked(serial + 2, "query", calls)}
       \/ /\ fpc' = "observe" /\ want' = 0 /\ serial' = serial + 1
          /\ asked' = asked \cup {F!Asked(serial + 1, "didOpen", calls)}
    /\ UNCHANGED <<proto, calls, alive, epoch, wire, check, view, expects, answer, got, cat, disk,
                   since>>

Rendering ==
    /\ fpc = "render" /\ fpc' = "recheck"
    /\ \/ view' = view
       \/ view' = [f \in F!File |-> IF f = "source" THEN view[f] ELSE disk[f]]
    /\ UNCHANGED <<proto, calls, alive, serial, epoch, want, asked, wire, check, expects, answer,
                   got, cat, disk, since>>

Rechecked(place, f, next) ==
    /\ fpc = place /\ fpc' = next
    /\ f \in DOMAIN view => disk[f] = view[f]
    /\ answer' = IF next = "idle" THEN "ok" ELSE answer
    /\ UNCHANGED <<proto, calls, alive, serial, epoch, want, asked, wire, check, view, expects, got,
                   cat, disk, since>>

\* The server says something that is not a change of its tools.
Said ==
    /\ fpc # "idle"
    /\ \E m \in Message :
          /\ m.t # "changed" /\ m.cat = cat /\ wire' = Append(wire, m)
          /\ m.t \in {"result", "error"} => m.q \in asked /\ m.q.method # "didOpen"
          /\ m.t = "diagnostics" => m.q \in asked /\ m.q.method = "didOpen"
    /\ UNCHANGED <<proto, fpc, calls, alive, serial, epoch, want, asked, check, view, expects, answer,
                   got, cat, disk, since>>

Announced ==
    /\ alive /\ proto = "mcp" /\ cat' = cat + 1
    /\ \E m \in Message : m.t = "changed" /\ m.cat = cat /\ wire' = Append(wire, m)
    /\ UNCHANGED <<proto, fpc, calls, alive, serial, epoch, want, asked, check, view, expects, answer,
                   got, disk, since>>

\* Every step of a foreign server's call is one of these.
LEMMA ForeignCases ==
    ASSUME WireType, AskInv, PhaseInv, F!Next
    PROVE  \/ Failed \/ Skipped \/ TookInit \/ TookResult \/ TookQuery
           \/ TookPage("tools/list", "list")
           \/ TookPage("tools/call", "call") /\ check'.matches = 1
           \/ F!Begin \/ Checking \/ Opening \/ Querying \/ Rendering
           \/ Rechecked("recheck", "source", "recheck2") \/ Rechecked("recheck2", "header", "idle")
           \/ Said \/ Announced \/ F!WriteFile \/ UNCHANGED foreignVars
<1>0. ASSUME NEW why \in Failure, F!Stop(why), UNCHANGED <<proto, cat, disk, since>> PROVE Failed
  BY <1>0 DEF Failed
<1>1. ASSUME F!McpCheck PROVE Failed \/ Checking
  <2>1. /\ fpc = "ready" /\ proto = "mcp" /\ F!SendRequest("tools/list", "list")
        /\ UNCHANGED <<proto, cat, disk, since>>
    BY <1>1 DEF F!McpCheck, F!world
  <2>2. CASE serial >= SerialMax
    BY <1>0, <2>1, <2>2 DEF F!SendRequest, Failure
  <2>3. CASE ~(serial >= SerialMax)
    <3>1. check' = [epoch |-> epoch, page |-> 0, matches |-> 0, cats |-> {}]
      BY <1>1, <2>3 DEF F!McpCheck, F!NoCheck
    <3> QED
      BY <1>1, <2>1, <2>3, <3>1 DEF F!McpCheck, F!SendRequest, F!KeepView, Checking
  <2> QED
    BY <2>2, <2>3
<1>2. ASSUME F!LspRead PROVE Failed \/ Opening
  BY <1>0, <1>2 DEF F!LspRead, F!world, Opening, Failure
<1>3. ASSUME F!LspQuery PROVE Failed \/ Querying
  BY <1>0, <1>3 DEF F!LspQuery, F!world, Querying, Failure
<1>4. ASSUME F!LspRender PROVE Failed \/ Rendering
  BY <1>0, <1>4 DEF F!LspRender, F!world, Rendering, Failure
<1>5. ASSUME NEW place, NEW f, NEW next, F!LspRecheck(place, f, next)
      PROVE  Failed \/ Rechecked(place, f, next)
  BY <1>0, <1>5 DEF F!LspRecheck, F!world, F!Unchanged, Rechecked, Failure
<1>6. ASSUME F!Interrupted PROVE Failed
  BY <1>0, <1>6 DEF F!Interrupted, F!world, Failure
<1>7. ASSUME F!Server PROVE Said
  <2>1. /\ fpc # "idle" /\ cat \in Nat
        /\ UNCHANGED <<proto, fpc, calls, alive, serial, epoch, want, left, check, view, expects,
                       answer, got, asked, cat, disk, since>>
    BY <1>7 DEF F!Server, F!Respond, F!Diagnose, F!Chatter, F!Waiting, F!client, F!world, WireType
  <2>2. ASSUME NEW t \in {"result", "error", "diagnostics", "note", "request", "bad"},
               NEW q \in Query, NEW shape \in {"good", "is-error", "input-required", "malformed"},
               NEW hit \in {"none", "match", "other"}, NEW more \in {"done", "next", "same"},
               F!Say(F!Answer(t, q, shape, hit, more)),
               t \in {"result", "error"} => q \in asked /\ q.method # "didOpen",
               t = "diagnostics" => q \in asked /\ q.method = "didOpen"
        PROVE  Said
    <3> DEFINE m == F!Answer(t, q, shape, hit, more)
    <3>1. m \in Message /\ m.t = t /\ m.q = q /\ m.cat = cat
      BY <2>1 DEF F!Answer, Message
    <3>2. wire' = Append(wire, m)
      BY <2>2 DEF F!Say
    <3> QED
      BY <2>1, <2>2, <3>1, <3>2 DEF Said
  <2>3. \A q \in asked : q \in Query
    BY DEF WireType
  <2>4. ASSUME F!Respond PROVE Said
    <3>1. PICK q \in asked :
             /\ q.method # "didOpen"
             /\ \/ \E hit \in {"none", "match", "other"}, more \in {"done", "next", "same"} :
                      q.method = "tools/list" /\ F!Say(F!Answer("result", q, "good", hit, more))
                \/ \E shape \in {"good", "is-error", "input-required", "malformed"} :
                      q.method # "tools/list" /\ F!Say(F!Answer("result", q, shape, "none", "done"))
                \/ F!Say(F!Answer("error", q, "good", "none", "done"))
      BY <2>4 DEF F!Respond
    <3> QED
      BY <2>2, <2>3, <3>1
  <2>5. ASSUME F!Diagnose PROVE Said
    BY <2>2, <2>3, <2>5 DEF F!Diagnose
  <2>6. ASSUME F!Chatter PROVE Said
    <3>1. F!Anonymous \in Query
      BY DEF F!Anonymous, Query
    <3> QED
      BY <2>2, <2>6, <3>1 DEF F!Chatter
  <2> QED
    BY <1>7, <2>4, <2>5, <2>6 DEF F!Server
<1>8. ASSUME F!ChangeTools PROVE Announced
  <2> DEFINE m == F!Answer("changed", F!Anonymous, "good", "none", "done")
  <2>1. m \in Message /\ m.t = "changed" /\ m.cat = cat
    BY DEF F!Answer, F!Anonymous, Message, Query, WireType
  <2>2. wire' = Append(wire, m)
    BY <1>8 DEF F!ChangeTools, F!Say
  <2> HIDE DEF m
  <2> QED
    BY <1>8, <2>1, <2>2 DEF F!ChangeTools, F!client, Announced
<1>9. ASSUME F!Finished PROVE UNCHANGED foreignVars
  BY <1>9 DEF F!Finished, F!vars, F!client, F!world, foreignVars
<1> QED
  BY <1>1, <1>2, <1>3, <1>4, <1>5, <1>6, <1>7, <1>8, <1>9, ReceiveCases DEF F!Next, F!Client


\* Every step keeps the values in their ranges.
LEMMA NextWireType == ASSUME WireType, AskInv, PhaseInv, F!Next PROVE WireType'
<1> USE DEF WireType, Place
<1>0. /\ \A r \in asked : r \in Query
      /\ F!Asked(serial + 1, "tools/list", calls) \in Query
      /\ F!Asked(serial + 1, "tools/call", calls) \in Query
      /\ F!Asked(serial + 1, "didOpen", calls) \in Query
      /\ F!Asked(serial + 2, "query", calls) \in Query
      /\ F!Asked(1, "initialize", calls + 1) \in Query
  BY DEF F!Asked, Query
<1>1. CASE Failed
  BY <1>1, EmptySeq DEF Failed, F!Stop, Failure
<1>2. CASE Skipped
  BY <1>2, HeadIs DEF Skipped
<1>3. CASE TookInit
  BY <1>3, HeadIs DEF TookInit, Completed
<1>4. CASE TookResult
  BY <1>4, HeadIs DEF TookResult, Completed
<1>5. CASE TookQuery
  <2>1. since' \in [F!File -> SUBSET Nat]
    BY <1>5 DEF TookQuery
  <2> QED
    BY <1>5, <2>1, HeadIs DEF TookQuery
<1>6. CASE TookPage("tools/list", "list") \/ TookPage("tools/call", "call")
  <2>1. asked' \subseteq Query
    BY <1>0, <1>6 DEF TookPage
  <2>2. /\ fpc' \in Place /\ wire' \in Seq(Message) /\ serial' = serial + 1 /\ want' = serial + 1
        /\ check' \in [epoch : Nat, page : Nat, matches : Nat, cats : SUBSET Nat]
        /\ UNCHANGED <<proto, calls, alive, epoch, view, answer, cat, disk, since>>
    BY <1>6, HeadIs DEF TookPage, Completed
  <2> QED
    BY <2>1, <2>2
<1>7. CASE F!Begin
  <2>1. /\ fpc' \in {"ready", "init"} /\ calls' = calls + 1 /\ answer' = "none"
        /\ DOMAIN view' = {} /\ check' = [epoch |-> 0, page |-> 0, matches |-> 0, cats |-> {}]
        /\ UNCHANGED <<proto, wire, cat, disk, since>>
    BY <1>7 DEF F!Begin, F!NoView, F!NoCheck, F!world
  <2>2. serial' \in Nat /\ epoch' \in Nat /\ want' \in Nat /\ alive' \in BOOLEAN /\ asked' \subseteq Query
    <3>1. CASE alive
      BY <1>7, <3>1 DEF F!Begin
    <3>2. CASE ~alive
      BY <1>0, <1>7, <3>2 DEF F!Begin
    <3> QED
      BY <3>1, <3>2
  <2> QED
    BY <2>1, <2>2
<1>8. CASE Checking
  BY <1>0, <1>8 DEF Checking
<1>9. CASE Opening
  BY <1>9 DEF Opening, F!File
<1>10. CASE Querying
  BY SMTT(40), <1>0, <1>10 DEF Querying
<1>11. CASE Rendering
  BY <1>11 DEF Rendering
<1>12. CASE Rechecked("recheck", "source", "recheck2") \/ Rechecked("recheck2", "header", "idle")
  BY <1>12 DEF Rechecked
<1>13. CASE Said
  BY <1>13, AppendProperties DEF Said
<1>14. CASE Announced
  BY <1>14, AppendProperties DEF Announced
<1>15. CASE F!WriteFile
  <2>1. /\ disk' \in [F!File -> Nat] /\ since' \in [F!File -> SUBSET Nat]
    BY <1>15 DEF F!WriteFile
  <2> QED
    BY <1>15, <2>1 DEF F!WriteFile, F!client
<1>16. CASE UNCHANGED foreignVars
  BY <1>16 DEF foreignVars
<1> QED
  BY <1>1, <1>2, <1>3, <1>4, <1>5, <1>6, <1>7, <1>8, <1>9, <1>10, <1>11, <1>12, <1>13,
     <1>14, <1>15, <1>16, ForeignCases

\* A new id is larger than every id in use.
LEMMA NextAsk == ASSUME WireType, AskInv, PhaseInv, F!Next PROVE AskInv'
<1>0. /\ serial \in Nat /\ \A r \in asked : r \in Query /\ r.id \in Nat /\ r.id <= serial
      /\ Len(wire) \in Nat
  BY LenProperties DEF WireType, AskInv, Query
<1>1. CASE Failed
  BY <1>1 DEF Failed, F!Stop, AskInv
<1>2. ASSUME wire # <<>>, wire' = Tail(wire), alive' = alive, alive,
             asked \subseteq asked',
             \A r \in asked' : r.id <= serial' /\ \A o \in asked' : o.id = r.id => o = r
      PROVE  AskInv'
  <2>1. ASSUME NEW n \in 1..Len(wire') PROVE n + 1 \in 1..Len(wire) /\ wire'[n] = wire[n + 1]
    BY <1>0, <1>2, HeadIs
  <2> QED
    BY <1>2, <2>1 DEF AskInv
<1>3. CASE Skipped \/ TookInit \/ TookResult \/ TookQuery
  <2>1. wire # <<>> /\ wire' = Tail(wire) /\ UNCHANGED <<alive, asked, serial>>
    BY <1>3 DEF Skipped, TookInit, TookResult, TookQuery, Completed
  <2> QED
    BY <1>2, <2>1 DEF AskInv
<1>4. ASSUME NEW method, serial' = serial + 1,
             asked' = asked \cup {F!Asked(serial + 1, method, calls)}
      PROVE  \A r \in asked' : r.id <= serial' /\ \A o \in asked' : o.id = r.id => o = r
  BY <1>0, <1>4 DEF F!Asked, AskInv
<1>5. CASE TookPage("tools/list", "list") \/ TookPage("tools/call", "call")
  <2>1. wire # <<>> /\ wire' = Tail(wire) /\ alive' = alive /\ alive /\ asked \subseteq asked'
    BY <1>5 DEF TookPage, Completed, PhaseInv
  <2> QED
    BY <1>2, <1>4, <1>5, <2>1 DEF TookPage
<1>6. ASSUME wire' = wire, alive' = alive, alive, asked \subseteq asked',
             \A r \in asked' : r.id <= serial' /\ \A o \in asked' : o.id = r.id => o = r
      PROVE  AskInv'
  BY <1>6 DEF AskInv
<1>7. CASE F!Begin
  <2>1. CASE alive
    BY <1>7, <2>1 DEF F!Begin, AskInv
  <2>2. CASE ~alive
    BY <1>7, <2>2 DEF F!Begin, AskInv, F!Asked
  <2> QED
    BY <2>1, <2>2
<1>8. CASE Checking
  BY <1>4, <1>6, <1>8 DEF Checking, PhaseInv
<1>9. CASE Querying
  <2>1. wire' = wire /\ alive' = alive /\ alive /\ asked \subseteq asked'
    BY <1>9 DEF Querying, PhaseInv
  <2>2. \A r \in asked' : r.id <= serial' /\ \A o \in asked' : o.id = r.id => o = r
    BY <1>0, <1>9 DEF Querying, F!Asked, AskInv
  <2> QED
    BY <1>6, <2>1, <2>2
<1>10. CASE \/ Opening \/ Rendering \/ F!WriteFile
            \/ Rechecked("recheck", "source", "recheck2") \/ Rechecked("recheck2", "header", "idle")
            \/ UNCHANGED foreignVars
  <2>1. UNCHANGED <<wire, alive, asked, serial>>
    BY <1>10 DEF Opening, Rendering, F!WriteFile, F!client, Rechecked, foreignVars
  <2> QED
    BY <2>1 DEF AskInv
<1>11. ASSUME NEW m \in Message, wire' = Append(wire, m), UNCHANGED <<alive, asked, serial>>, alive,
              m.t \in {"result", "error"} => m.q \in asked /\ m.q.method # "didOpen",
              m.t = "diagnostics" => m.q \in asked /\ m.q.method = "didOpen"
       PROVE  AskInv'
  <2>1. wire \in Seq(Message)
    BY DEF WireType
  <2>2. /\ Len(wire') = Len(wire) + 1 /\ wire'[Len(wire) + 1] = m
        /\ \A n \in 1..Len(wire) : wire'[n] = wire[n]
    BY <1>11, <2>1, AppendProperties
  <2>3. ASSUME NEW n \in 1..Len(wire') PROVE n \in 1..Len(wire) \/ n = Len(wire) + 1
    BY <1>0, <2>2
  <2> QED
    BY <1>11, <2>2, <2>3 DEF AskInv
<1>12. CASE Said
  BY <1>11, <1>12 DEF Said, PhaseInv
<1>13. CASE Announced
  BY <1>11, <1>13 DEF Announced
<1> QED
  BY <1>1, <1>3, <1>5, <1>7, <1>8, <1>9, <1>10, <1>12, <1>13, ForeignCases


\* The message that completes a call answers the call's own last request.
LEMMA OwnAnswer ==
    ASSUME WireType, AskInv, PhaseInv, wire # <<>>, wire[1].t = "result", F!Correlated(wire[1]),
           fpc \in {"init", "list", "call", "query"}
    PROVE  wire[1].q.call = calls /\ wire[1].q.method = MethodAt(fpc)
<1>1. wire[1].q \in asked /\ wire[1].q.id = want
  BY HeadIs DEF AskInv, F!Correlated
<1>2. F!Asked(want, MethodAt(fpc), calls) \in asked /\ F!Asked(want, MethodAt(fpc), calls).id = want
  BY DEF PhaseInv, F!Asked
<1>3. wire[1].q = F!Asked(want, MethodAt(fpc), calls)
  BY <1>1, <1>2 DEF AskInv
<1> QED
  BY <1>3 DEF F!Asked

\* And so do the diagnostics of a document.
LEMMA OwnDiagnostics ==
    ASSUME WireType, AskInv, PhaseInv, wire # <<>>, wire[1].t = "diagnostics",
           F!Observed(wire[1]), fpc = "observe"
    PROVE  wire[1].q.call = calls /\ wire[1].q.method = "didOpen"
<1>1. wire[1].q \in asked /\ wire[1].q.id = serial
  BY HeadIs DEF AskInv, F!Observed
<1>2. F!Asked(serial, "didOpen", calls) \in asked /\ F!Asked(serial, "didOpen", calls).id = serial
  BY DEF PhaseInv, F!Asked
<1>3. wire[1].q = F!Asked(serial, "didOpen", calls)
  BY <1>1, <1>2 DEF AskInv
<1> QED
  BY <1>3 DEF F!Asked

\* The client always waits for something this call has asked.
LEMMA NextPhase == ASSUME WireType, AskInv, PhaseInv, F!Next PROVE PhaseInv'
<1>1. CASE Failed
  BY <1>1 DEF Failed, F!Stop, Failure, PhaseInv, F!AnswersOwn
<1>2. CASE Skipped
  BY <1>2 DEF Skipped, PhaseInv, F!AnswersOwn, F!Asked, MethodAt
<1>3. CASE TookInit
  BY <1>3 DEF TookInit, Completed, PhaseInv, F!AnswersOwn
<1>4. CASE TookResult
  <2>1. wire[1].q.call = calls /\ wire[1].q.method = "tools/call" /\ proto = "mcp"
    BY <1>4, OwnAnswer DEF TookResult, Completed, MethodAt, PhaseInv
  <2> QED
    BY <1>4, <2>1 DEF TookResult, Completed, PhaseInv, F!AnswersOwn
<1>5. CASE TookQuery
  <2>1. /\ got'.q.call = calls
        /\ got'.q.method = IF got'.t = "diagnostics" THEN "didOpen" ELSE "query"
    BY <1>5, OwnAnswer, OwnDiagnostics DEF TookQuery, MethodAt
  <2> QED
    BY <1>5, <2>1 DEF TookQuery, PhaseInv, F!AnswersOwn
<1>6. ASSUME NEW method \in {"tools/list", "tools/call"}, NEW place \in {"list", "call"},
             method = MethodAt(place), fpc \in {"ready", "list"}, proto = "mcp", fpc' = place,
             serial' = serial + 1, want' = serial + 1,
             asked' = asked \cup {F!Asked(serial + 1, method, calls)},
             UNCHANGED <<proto, calls, alive, answer>>
      PROVE  PhaseInv'
  <2>1. serial + 1 # 0
    BY DEF WireType
  <2>2. F!Asked(want', MethodAt(fpc'), calls') \in asked'
    BY <1>6
  <2>3. alive /\ answer = "none"
    BY <1>6 DEF PhaseInv
  <2> QED
    BY <1>6, <2>1, <2>2, <2>3 DEF PhaseInv, F!AnswersOwn, F!Asked, MethodAt
<1>7. CASE TookPage("tools/list", "list") \/ TookPage("tools/call", "call")
  <2>1. proto = "mcp" /\ fpc = "list"
    BY <1>7 DEF TookPage, PhaseInv
  <2>2. MethodAt("list") = "tools/list" /\ MethodAt("call") = "tools/call"
    BY DEF MethodAt
  <2> QED
    BY <1>6, <1>7, <2>1, <2>2 DEF TookPage, Completed
<1>8. CASE F!Begin
  <2>1. CASE alive
    BY <1>8, <2>1 DEF F!Begin, F!world, PhaseInv, F!AnswersOwn
  <2>2. CASE ~alive
    BY <1>8, <2>2 DEF F!Begin, F!world, PhaseInv, F!AnswersOwn, MethodAt, F!Asked
  <2> QED
    BY <2>1, <2>2
<1>9. CASE Checking
  <2>1. MethodAt("list") = "tools/list"
    BY DEF MethodAt
  <2> QED
    BY <1>6, <1>9, <2>1 DEF Checking
<1>10. CASE Opening
  BY <1>10 DEF Opening, PhaseInv, F!AnswersOwn
<1>11. CASE Querying
  <2>1. serial + 2 # 0
    BY DEF WireType
  <2> QED
    BY <1>11, <2>1 DEF Querying, PhaseInv, F!AnswersOwn, F!Asked, MethodAt
<1>12. CASE Rendering
  BY <1>12 DEF Rendering, PhaseInv, F!AnswersOwn
<1>13. CASE Rechecked("recheck", "source", "recheck2") \/ Rechecked("recheck2", "header", "idle")
  BY <1>13 DEF Rechecked, PhaseInv, F!AnswersOwn
<1>14. CASE Said \/ Announced
  <2>1. UNCHANGED <<proto, fpc, calls, alive, serial, want, asked, answer, got>>
    BY <1>14 DEF Said, Announced
  <2> QED
    BY <2>1 DEF PhaseInv, F!AnswersOwn, F!Asked, MethodAt
<1>15. CASE F!WriteFile \/ UNCHANGED foreignVars
  <2>1. UNCHANGED <<proto, fpc, calls, alive, serial, want, asked, answer, got>>
    BY <1>15 DEF F!WriteFile, F!client, foreignVars
  <2> QED
    BY <2>1 DEF PhaseInv, F!AnswersOwn, F!Asked, MethodAt
<1> QED
  BY <1>1, <1>2, <1>3, <1>4, <1>5, <1>7, <1>8, <1>9, <1>10, <1>11, <1>12, <1>13, <1>14, <1>15,
     ForeignCases


\* Reading a message moves on by what the message announces.
LEMMA ReadOn ==
    ASSUME WireType, Chain, wire # <<>>, wire' = Tail(wire), cat' = cat
    PROVE  Chain' /\ Current = wire[1].cat /\ Current' = After(wire[1])
<1>1. /\ Len(wire) \in Nat /\ Len(wire') = Len(wire) - 1 /\ 1 \in 1..Len(wire)
      /\ \A n \in 1..Len(wire) - 1 : wire'[n] = wire[n + 1] /\ n + 1 \in 1..Len(wire)
      /\ wire' = <<>> <=> Len(wire) = 1
  BY HeadIs
<1>2. ASSUME NEW n \in 1..Len(wire')
      PROVE  /\ n < Len(wire') => wire'[n + 1].cat = After(wire'[n])
             /\ n = Len(wire') => cat' = After(wire'[n])
  <2>1. n \in Nat /\ n <= Len(wire) - 1 /\ wire'[n] = wire[n + 1] /\ n + 1 \in 1..Len(wire)
    BY <1>1
  <2>2. n < Len(wire') => wire'[n + 1] = wire[n + 2] /\ n + 1 < Len(wire)
    <3>1. n < Len(wire') => n + 1 \in 1..Len(wire) - 1 /\ n + 1 < Len(wire)
      BY <1>1, <2>1
    <3>2. n + 1 \in 1..Len(wire) - 1 => wire'[n + 1] = wire[(n + 1) + 1]
      BY <1>1
    <3> QED
      BY <2>1, <3>1, <3>2
  <2>3. n + 1 < Len(wire) => wire[n + 2].cat = After(wire[n + 1])
    <3>1. n + 1 < Len(wire) => wire[(n + 1) + 1].cat = After(wire[n + 1])
      BY <2>1 DEF Chain
    <3> QED
      BY <2>1, <3>1
  <2>4. n + 1 = Len(wire) => cat = After(wire[n + 1])
    BY <2>1 DEF Chain
  <2>5. CASE n < Len(wire')
    <3>1. wire'[n + 1] = wire[n + 2] /\ wire[n + 2].cat = After(wire[n + 1])
      BY <2>2, <2>3, <2>5
    <3>2. After(wire[n + 1]) = After(wire'[n])
      BY <2>1
    <3>3. n # Len(wire')
      <4>1. n \in Int /\ Len(wire') \in Int /\ n < Len(wire')
        BY <1>1, <2>1, <2>5
      <4> QED
        BY <4>1
    <3> QED
      BY <3>1, <3>2, <3>3
  <2>6. CASE n = Len(wire')
    <3>1. n + 1 = Len(wire) /\ ~(n < Len(wire'))
      BY <1>1, <2>1, <2>6
    <3> QED
      BY <1>2, <2>1, <2>4, <3>1
  <2> QED
    BY <1>1, <2>1, <2>5, <2>6
<1>3. Chain'
  <2>1. \A n \in 1..Len(wire)' : /\ n < Len(wire)' => wire'[n + 1].cat = After(wire'[n])
                                 /\ n = Len(wire)' => cat' = After(wire'[n])
    BY <1>2
  <2> QED
    BY <2>1 DEF Chain, After
<1>4. Current = wire[1].cat
  BY DEF Current
<1>5. Current' = After(wire[1])
  <2>1. CASE Len(wire) = 1
    BY <1>1, <2>1 DEF Current, Chain
  <2>2. CASE Len(wire) # 1
    <3>1. wire' # <<>> /\ 1 < Len(wire) /\ 1 \in 1..Len(wire) - 1
      BY <1>1, <2>2
    <3>2. wire'[1] = wire[1 + 1]
      BY <1>1, <3>1
    <3>3. wire[1 + 1].cat = After(wire[1])
      BY <1>1, <3>1 DEF Chain
    <3> QED
      BY <3>1, <3>2, <3>3 DEF Current
  <2> QED
    BY <2>1, <2>2
<1> QED
  BY <1>3, <1>4, <1>5

\* A message sent shows the catalog of its time, and leaves what the client has
\* read up to as it was.
LEMMA SentOn ==
    ASSUME WireType, Chain, NEW m \in Message, wire' = Append(wire, m), m.cat = cat, cat' = After(m)
    PROVE  Chain' /\ Current' = Current
<1>1. /\ Len(wire) \in Nat /\ Len(wire') = Len(wire) + 1 /\ wire' # <<>>
      /\ wire'[Len(wire) + 1] = m /\ \A n \in 1..Len(wire) : wire'[n] = wire[n]
  BY AppendProperties, LenProperties DEF WireType
<1>2. ASSUME NEW n \in 1..Len(wire')
      PROVE  /\ n < Len(wire') => wire'[n + 1].cat = After(wire'[n])
             /\ n = Len(wire') => cat' = After(wire'[n])
  <2>1. CASE n = Len(wire) + 1
    BY <1>1, <2>1
  <2>2. CASE n = Len(wire)
    <3>1. n \in 1..Len(wire) /\ wire'[n] = wire[n] /\ wire'[n + 1] = m
      BY <1>1, <2>2
    <3>2. cat = After(wire[n])
      BY <2>2, <3>1 DEF Chain
    <3> QED
      BY <1>1, <2>2, <3>1, <3>2
  <2>3. CASE n < Len(wire)
    <3>1. n \in 1..Len(wire) /\ n + 1 \in 1..Len(wire) /\ n # Len(wire')
      BY <1>1, <2>3
    <3>2. wire'[n] = wire[n] /\ wire'[n + 1] = wire[n + 1]
      BY <1>1, <3>1
    <3>3. wire[n + 1].cat = After(wire[n])
      BY <2>3, <3>1 DEF Chain
    <3> QED
      BY <3>1, <3>2, <3>3
  <2> QED
    BY <1>1, <2>1, <2>2, <2>3
<1>3. Chain'
  <2>1. \A n \in 1..Len(wire)' : /\ n < Len(wire)' => wire'[n + 1].cat = After(wire'[n])
                                 /\ n = Len(wire)' => cat' = After(wire'[n])
    BY <1>2
  <2> QED
    BY <2>1 DEF Chain, After
<1>4. Current' = Current
  <2>1. CASE wire = <<>>
    <3>1. Len(wire) = 0
      BY <2>1
    <3> QED
      BY <1>1, <2>1, <3>1 DEF Current
  <2>2. CASE wire # <<>>
    <3>1. 1 \in 1..Len(wire)
      BY <2>2, HeadIs
    <3> QED
      BY <1>1, <2>2, <3>1 DEF Current
  <2> QED
    BY <2>1, <2>2
<1> QED
  BY <1>3, <1>4

\* The pages a check has read are of one catalog, as long as its epoch lasts.
LEMMA NextCat == ASSUME WireType, AskInv, PhaseInv, CatInv, F!Next PROVE CatInv'
<1>0. /\ Chain /\ epoch \in Nat /\ Len(wire) \in Nat
      /\ check \in [epoch : Nat, page : Nat, matches : Nat, cats : SUBSET Nat]
  BY LenProperties DEF CatInv, WireType
<1>1. CASE Failed
  <2>1. wire' = <<>> /\ fpc' = "idle"
    BY <1>1 DEF Failed, F!Stop
  <2> QED
    BY <2>1 DEF CatInv, Chain
<1>2. CASE Skipped
  <2>1. Chain' /\ Current = wire[1].cat /\ Current' = After(wire[1])
    BY <1>0, <1>2, ReadOn DEF Skipped
  <2>2. proto = "mcp" /\ epoch' = check.epoch /\ check.epoch <= epoch => epoch' = epoch /\ wire[1].t # "changed"
    BY <1>0, <1>2 DEF Skipped
  <2>3. wire[1].t # "changed" => Current' = Current
    BY <2>1 DEF After
  <2>4. check.epoch <= epoch => check.epoch <= epoch'
    BY <1>0, <1>2 DEF Skipped
  <2> QED
    BY <1>2, <2>1, <2>2, <2>3, <2>4 DEF Skipped, CatInv
<1>3. CASE TookInit \/ TookResult \/ TookQuery
  <2>1. /\ Chain' /\ fpc' \notin {"list", "call"}
    BY <1>0, <1>3, ReadOn DEF TookInit, TookResult, TookQuery, Completed
  <2> QED
    BY <2>1 DEF CatInv
<1>4. ASSUME NEW method, NEW place, TookPage(method, place)
      PROVE  /\ Chain' /\ check'.cats = {Current} /\ Current' = Current /\ Current \in Nat
             /\ check'.matches <= 1 /\ check'.epoch = epoch' /\ epoch' \in Nat
  <2>1. /\ Chain' /\ Current = wire[1].cat /\ Current' = After(wire[1]) /\ wire[1].t = "result"
    BY <1>0, <1>4, ReadOn DEF TookPage, Completed
  <2>2. wire[1].cat \in Nat
    BY <1>4, HeadIs DEF TookPage, Completed, Message
  <2>3. check.cats \subseteq {Current}
    BY <1>4 DEF TookPage, F!SameEpoch, CatInv, PhaseInv
  <2> QED
    BY <1>0, <1>4, <2>1, <2>2, <2>3 DEF TookPage, Completed, F!SameEpoch, After
<1>5. CASE TookPage("tools/list", "list")
  <2>1. fpc' = "list"
    BY <1>5 DEF TookPage, Completed
  <2> QED
    BY <1>4, <1>5, <2>1 DEF CatInv
<1>6. CASE TookPage("tools/call", "call") /\ check'.matches = 1
  <2>1. fpc' = "call"
    BY <1>6 DEF TookPage, Completed
  <2> QED
    BY <1>4, <1>6, <2>1 DEF CatInv
<1>7. ASSUME UNCHANGED <<wire, cat>> PROVE Chain' /\ Current' = Current
  BY <1>0, <1>7 DEF Chain, Current, After
<1>8. CASE F!Begin
  <2>1. UNCHANGED <<wire, cat>> /\ fpc' \in {"ready", "init"}
    BY <1>8 DEF F!Begin, F!world
  <2> QED
    BY <1>7, <2>1 DEF CatInv
<1>9. CASE Checking
  <2>1. /\ check'.epoch = epoch /\ epoch' = epoch /\ check'.matches = 0 /\ check'.cats = {}
        /\ fpc' = "list" /\ UNCHANGED <<wire, cat>>
    BY <1>9 DEF Checking
  <2> QED
    BY <1>0, <1>7, <2>1 DEF CatInv
<1>10. CASE \/ Opening \/ Querying \/ Rendering
            \/ Rechecked("recheck", "source", "recheck2") \/ Rechecked("recheck2", "header", "idle")
  <2>1. UNCHANGED <<wire, cat>> /\ fpc' \notin {"list", "call"}
    BY <1>10 DEF Opening, Querying, Rendering, Rechecked
  <2> QED
    BY <1>7, <2>1 DEF CatInv
<1>11. ASSUME Chain', Current' = Current, UNCHANGED <<proto, fpc, epoch, check>> PROVE CatInv'
  BY <1>11 DEF CatInv
<1>12. CASE Said
  <2>1. PICK m \in Message : m.t # "changed" /\ m.cat = cat /\ wire' = Append(wire, m)
    BY <1>12 DEF Said
  <2>2. cat' = After(m)
    BY <1>12, <2>1 DEF Said, After
  <2> QED
    BY <1>0, <1>11, <1>12, <2>1, <2>2, SentOn DEF Said
<1>13. CASE Announced
  <2>1. PICK m \in Message : m.t = "changed" /\ m.cat = cat /\ wire' = Append(wire, m)
    BY <1>13 DEF Announced
  <2>2. cat' = After(m)
    BY <1>13, <2>1 DEF Announced, After
  <2> QED
    BY <1>0, <1>11, <1>13, <2>1, <2>2, SentOn DEF Announced
<1>14. CASE F!WriteFile \/ UNCHANGED foreignVars
  <2>1. UNCHANGED <<wire, cat, proto, fpc, epoch, check>>
    BY <1>14 DEF F!WriteFile, F!client, foreignVars
  <2> QED
    BY <1>7, <1>11, <2>1
<1> QED
  BY <1>1, <1>2, <1>3, <1>5, <1>6, <1>8, <1>9, <1>10, <1>12, <1>13, <1>14, ForeignCases

\* What a result says of a file was so after the server answered.
LEMMA NextFile == ASSUME WireType, AskInv, PhaseInv, FileInv, F!Next PROVE FileInv'
<1> USE DEF FileInv, F!ResultCurrent
<1>0. disk \in [F!File -> Nat] /\ F!File = {"source", "header"} /\ DOMAIN view \subseteq F!File
  BY DEF WireType, F!File
<1>1. CASE Failed
  <2>1. fpc' = "idle" /\ answer' # "ok"
    BY <1>1 DEF Failed, F!Stop, Failure
  <2> QED
    BY <2>1
<1>2. CASE Skipped \/ Said \/ Announced \/ UNCHANGED foreignVars
  <2>1. UNCHANGED <<proto, fpc, view, expects, answer, disk, since>>
    BY <1>2 DEF Skipped, Said, Announced, foreignVars
  <2> QED
    BY <2>1
<1>3. CASE TookInit
  BY <1>3 DEF TookInit, Completed, PhaseInv
<1>4. CASE TookResult
  BY <1>4 DEF TookResult, Completed, PhaseInv
<1>5. CASE TookQuery
  <2>1. /\ fpc \in {"query", "observe"} /\ fpc' = "render" /\ UNCHANGED <<view, expects, answer, disk>>
        /\ \A f \in F!File : disk'[f] \in since'[f]
    BY <1>5 DEF TookQuery
  <2> QED
    BY <2>1
<1>6. CASE TookPage("tools/list", "list") \/ TookPage("tools/call", "call")
  BY <1>6 DEF TookPage, Completed, PhaseInv
<1>7. CASE F!Begin
  <2>1. fpc' \in {"ready", "init"}
    BY <1>7 DEF F!Begin
  <2> QED
    BY <2>1
<1>8. CASE Checking
  BY <1>8 DEF Checking
<1>9. CASE Opening
  BY <1>9 DEF Opening
<1>10. CASE Querying
  BY <1>10 DEF Querying
<1>11. CASE Rendering
  <2>1. /\ fpc = "render" /\ fpc' = "recheck" /\ UNCHANGED <<expects, disk, since>>
        /\ "source" \in DOMAIN view' /\ view'["source"] = view["source"]
    BY <1>0, <1>11 DEF Rendering
  <2> QED
    BY <2>1
<1>12. CASE Rechecked("recheck", "source", "recheck2")
  BY <1>0, <1>12 DEF Rechecked
<1>13. CASE Rechecked("recheck2", "header", "idle")
  <2>1. /\ fpc = "recheck2" /\ fpc' = "idle" /\ UNCHANGED <<view, expects, disk, since>>
        /\ "header" \in DOMAIN view => disk["header"] = view["header"]
    BY <1>13 DEF Rechecked
  <2>2. \A f \in DOMAIN view : view[f] \in since[f]
    BY <1>0, <2>1
  <2> QED
    BY <2>1, <2>2
<1>14. CASE F!WriteFile
  <2>1. /\ fpc # "idle" /\ UNCHANGED <<proto, fpc, view, expects, answer>>
        /\ \E f \in F!File : /\ disk' = [disk EXCEPT ![f] = @ + 1]
                             /\ since' = [since EXCEPT ![f] = @ \cup {disk[f] + 1}]
    BY <1>14 DEF F!WriteFile, F!client
  <2>2. /\ \A f \in F!File : since[f] \subseteq since'[f]
        /\ \A f \in F!File : disk[f] \in since[f] => disk'[f] \in since'[f]
    BY <1>0, <2>1 DEF WireType
  <2> QED
    BY <1>0, <2>1, <2>2
<1> QED
  BY <1>1, <1>2, <1>3, <1>4, <1>5, <1>6, <1>7, <1>8, <1>9, <1>10, <1>11, <1>12, <1>13, <1>14,
     ForeignCases

\* The parts together are inductive.
LEMMA NextForeign == ASSUME ForeignInv, [F!Next]_foreignVars PROVE ForeignInv'
<1>1. CASE F!Next
  BY <1>1, NextWireType, NextAsk, NextPhase, NextCat, NextFile DEF ForeignInv
<1>2. CASE UNCHANGED foreignVars
  <2> USE <1>2 DEF foreignVars
  <2>1. WireType'
    BY DEF ForeignInv, WireType
  <2>2. AskInv'
    BY DEF ForeignInv, AskInv
  <2>3. PhaseInv'
    BY DEF ForeignInv, PhaseInv, MethodAt, F!Asked, F!AnswersOwn
  <2>4. CatInv'
    BY DEF ForeignInv, CatInv, Chain, Current, After
  <2>5. FileInv'
    BY DEF ForeignInv, FileInv, F!ResultCurrent
  <2> QED
    BY <2>1, <2>2, <2>3, <2>4, <2>5 DEF ForeignInv
<1> QED
  BY <1>1, <1>2

\* Before the first call nothing is asked and nothing said.
LEMMA InitForeign == F!Init => ForeignInv
<1> SUFFICES ASSUME F!Init PROVE ForeignInv
  OBVIOUS
<1>1. WireType
  BY WireAssumption, EmptySeq DEF F!Init, F!NoCheck, F!NoView, WireType, Place
<1>2. AskInv /\ PhaseInv /\ CatInv /\ FileInv
  BY DEF F!Init, AskInv, PhaseInv, F!AnswersOwn, CatInv, Chain, FileInv, F!ResultCurrent
<1> QED
  BY <1>1, <1>2 DEF ForeignInv

\* In every behavior of the conversations the invariant holds.
LEMMA ForeignAlways == AllSpec => []ForeignInv
<1>1. AllInit => ForeignInv
  BY InitForeign DEF AllInit
<1>2. ForeignInv /\ [AllNext]_allVars => ForeignInv'
  BY NextForeign DEF AllNext, allVars
<1> QED
  BY <1>1, <1>2, PTL DEF AllSpec

\* No late, repeated or foreign answer becomes the result of a call, however many
\* calls a process serves and however much the server talks.
THEOREM AnswersAreOwn == AllSpec => []AnswersOwn
<1>1. ForeignInv => AnswersOwn
  BY DEF ForeignInv, PhaseInv, AnswersOwn
<1> QED
  BY <1>1, ForeignAlways, PTL

\* The pages that prove a tool's contract are of one catalog, and the files a
\* semantic result speaks of were so after the server answered.
THEOREM VersionsAreOne == AllSpec => []OneVersion
<1>1. ForeignInv => OneVersion
  <2> SUFFICES ASSUME ForeignInv PROVE OneVersion
    OBVIOUS
  <2>1. F!OneCatalog
    <3> SUFFICES ASSUME fpc = "call" PROVE Cardinality(check.cats) = 1 /\ check.matches = 1
      BY DEF F!OneCatalog, F!Cardinality, Cardinality
    <3>1. PICK c \in Nat : check.cats = {c}
      BY DEF ForeignInv, CatInv
    <3>2. Cardinality({c}) = 1
      BY FS_Singleton
    <3> QED
      BY <3>1, <3>2 DEF ForeignInv, CatInv
  <2> QED
    BY <2>1 DEF ForeignInv, FileInv, OneVersion
<1> QED
  BY <1>1, ForeignAlways, PTL

-----------------------------------------------------------------------------
(* Slices, least and greatest elements *)

LEMMA Slice ==
    ASSUME NEW S, NEW s \in Seq(S), NEW a \in Nat \ {0}, NEW b \in 0..Len(s)
    PROVE  /\ SubSeq(s, a, b) \in Seq(S)
           /\ Len(SubSeq(s, a, b)) = IF a <= b THEN b - a + 1 ELSE 0
           /\ \A i \in 1..b - a + 1 : SubSeq(s, a, b)[i] = s[a + i - 1]
<1>1. Len(s) \in Nat /\ \A i \in 1..Len(s) : s[i] \in S
  BY ElementOfSeq, LenProperties
<1>2. a \in Int /\ b \in Int /\ \A i \in a..b : s[i] \in S
  BY <1>1
<1>. QED BY <1>2, SubSeqProperties

LEMMA UptoSlice ==
    ASSUME NEW S, NEW s \in Seq(S), NEW n \in Nat
    PROVE  /\ Upto(s, n) \in Seq(S) /\ Len(Upto(s, n)) = IF n < Len(s) THEN n ELSE Len(s)
           /\ \A i \in 1..Len(Upto(s, n)) : Upto(s, n)[i] = s[i]
<1>. DEFINE b == IF n < Len(s) THEN n ELSE Len(s)
<1>1. b \in 0..Len(s) /\ 1 \in Nat \ {0}
  BY LenProperties
<1>2. Upto(s, n) = SubSeq(s, 1, b)
  BY DEF Upto
<1>. HIDE DEF b
<1>3. /\ SubSeq(s, 1, b) \in Seq(S) /\ Len(SubSeq(s, 1, b)) = IF 1 <= b THEN b - 1 + 1 ELSE 0
      /\ \A i \in 1..b - 1 + 1 : SubSeq(s, 1, b)[i] = s[1 + i - 1]
  BY <1>1, Slice
<1>4. b \in Nat /\ b - 1 + 1 = b /\ (IF 1 <= b THEN b - 1 + 1 ELSE 0) = b /\ \A i \in 1..b : 1 + i - 1 = i
  BY <1>1, LenProperties
<1>5. Len(Upto(s, n)) = b /\ \A i \in 1..b : Upto(s, n)[i] = s[i]
  BY <1>2, <1>3, <1>4
<1>. QED BY <1>2, <1>3, <1>5 DEF b

LEMMA FromSlice ==
    ASSUME NEW S, NEW s \in Seq(S), NEW k \in Nat \ {0}
    PROVE  /\ From(s, k) \in Seq(S)
           /\ Len(From(s, k)) = IF k <= Len(s) THEN Len(s) - k + 1 ELSE 0
           /\ \A i \in 1..Len(s) - k + 1 : From(s, k)[i] = s[k + i - 1]
<1>1. Len(s) \in 0..Len(s)
  BY LenProperties
<1>. QED BY <1>1, Slice DEF From

LEMMA MinIs ==
    ASSUME NEW T, T \subseteq Nat, T # {}
    PROVE  Min(T) \in T /\ \A m \in T : Min(T) <= m
<1>1. \E n \in T : \A m \in T : n <= m
  BY Least
<1>. QED BY <1>1 DEF Min

LEMMA MaxIs ==
    ASSUME NEW T, NEW n \in Nat, T \subseteq 0..n, T # {}
    PROVE  Max(T) \in T /\ \A m \in T : m <= Max(T)
<1>. DEFINE U == {n - x : x \in T}
<1>1. U \subseteq Nat /\ U # {}
  <2>1. \A x \in T : n - x \in Nat
    OBVIOUS
  <2>. QED BY <2>1
<1>2. PICK u \in U : \A v \in U : u <= v
  <2>. HIDE DEF U
  <2>. QED BY <1>1, Least
<1>3. PICK x \in T : u = n - x
  OBVIOUS
<1>4. ASSUME NEW y \in T PROVE x >= y
  <2>1. n - y \in U
    OBVIOUS
  <2>2. u <= n - y
    BY <1>2, <2>1
  <2>. QED BY <1>3, <2>2
<1>5. Max(T) \in T /\ \A y \in T : Max(T) >= y
  BY <1>4 DEF Max
<1>6. \A y \in T : y \in Int
  OBVIOUS
<1>. QED BY <1>5, <1>6

LEMMA MinSame ==
    ASSUME NEW T, NEW U, T \subseteq Nat, U \subseteq Nat, NEW n \in T, n \in U,
           \A x \in T \cup U : x < n => FALSE
    PROVE  Min(T) = n /\ Min(U) = n
<1>1. T # {} /\ U # {}
  OBVIOUS
<1>2. Min(T) \in T /\ Min(T) <= n /\ Min(U) \in U /\ Min(U) <= n
  BY <1>1, MinIs
<1>3. ~(Min(T) < n) /\ ~(Min(U) < n) /\ n \in Nat /\ Min(T) \in Nat /\ Min(U) \in Nat
  BY <1>2
<1>. QED BY <1>2, <1>3

-----------------------------------------------------------------------------
(* Durations *)

LEMMA Quotient ==
    ASSUME NEW x \in Nat, NEW u \in Nat \ {0}, NEW n \in Nat
    PROVE  n > x \div u <=> n * u > x
<1>. DEFINE q == x \div u
            m == x % u
<1>1. q \in Nat
  OBVIOUS
<1>2. m \in 0..u - 1
  OBVIOUS
<1>3. x = u * q + m
  OBVIOUS
<1>. HIDE DEF q, m
<1>4. \A r \in 0..u - 1 : x = u * q + r => (n > q <=> n * u > x)
  <2>. SUFFICES ASSUME NEW r \in 0..u - 1, x = u * q + r PROVE n > q <=> n * u > x
    OBVIOUS
  <2>1. CASE n <= q
    <3>1. n * u <= q * u
      BY <1>1, <2>1
    <3>. QED BY <1>1, <2>1, <3>1
  <2>2. CASE n > q
    <3>1. n * u >= (q + 1) * u /\ (q + 1) * u = u * q + u
      BY <1>1, <2>2
    <3>. QED BY <1>1, <2>2, <3>1
  <2>. QED BY <1>1, <2>1, <2>2
<1>. QED BY <1>2, <1>3, <1>4 DEF q

Part == Nat \X (Nat \ {0}) \X Nat

LEMMA AddExact ==
    ASSUME Int64Max \in Nat, NEW total \in Nat, total <= Int64Max,
           NEW n \in Nat, NEW unit \in Nat \ {0}, NEW fraction \in Nat
    PROVE  add(total, n, unit, fraction) = IF total + n * unit + fraction <= Int64Max
                                           THEN total + n * unit + fraction ELSE -1
<1>. DEFINE x == Int64Max - total - fraction
            y == n * unit
<1>1. y \in Nat
  OBVIOUS
<1>2. CASE total > Int64Max - fraction
  <2>1. add(total, n, unit, fraction) = -1
    BY <1>2 DEF add
  <2>. HIDE DEF y
  <2>2. ~(total + y + fraction <= Int64Max)
    BY <1>1, <1>2
  <2>. QED BY <2>1, <2>2 DEF y
<1>3. CASE ~(total > Int64Max - fraction)
  <2>1. x \in Nat
    BY <1>3
  <2>2. n > x \div unit <=> y > x
    <3>. HIDE DEF x
    <3>. QED BY <2>1, Quotient
  <2>3. add(total, n, unit, fraction) = IF n > x \div unit THEN -1 ELSE total + y + fraction
    BY <1>3 DEF add
  <2>. HIDE DEF y
  <2>4. y > x <=> ~(total + y + fraction <= Int64Max)
    BY <1>1, <2>1
  <2>. QED BY <2>2, <2>3, <2>4 DEF y
<1>. QED BY <1>2, <1>3

\* The parts add up exactly as long as they fit, and never again after.
LEMMA DurationSums ==
    ASSUME NEW parts \in Seq(Part)
    PROVE  \E s : /\ s \in [0..Len(parts) -> Nat]
                  /\ s = [k \in 0..Len(parts) |->
                            IF k = 0 THEN 0 ELSE s[k - 1] + parts[k][1] * parts[k][2] + parts[k][3]]
<1>. DEFINE n == Len(parts)
            step == [k \in 1..n |-> [x \in Nat |-> x + parts[k][1] * parts[k][2] + parts[k][3]]]
<1>1. n \in Nat /\ \A k \in 1..n : parts[k] \in Part
  BY LenProperties, ElementOfSeq
<1>2. \A k \in 1..n : \A x \in Nat : x + parts[k][1] * parts[k][2] + parts[k][3] \in Nat
  <2>1. ASSUME NEW k \in 1..n PROVE parts[k][1] \in Nat /\ parts[k][2] \in Nat /\ parts[k][3] \in Nat
    BY <1>1 DEF Part
  <2>2. \A a, b, c, x \in Nat : x + a * b + c \in Nat
    <3>1. \A a, b \in Nat : a * b \in Nat
      OBVIOUS
    <3>. QED BY <3>1
  <2>. QED BY <2>1, <2>2
<1>3. /\ step \in [1..n -> [Nat -> Nat]]
      /\ \A k \in 1..n : \A x \in Nat : step[k][x] = x + parts[k][1] * parts[k][2] + parts[k][3]
  BY <1>2
<1>. HIDE DEF step
<1>4. PICK s : IteratesTo(s, Nat, n, 0, step)
  BY <1>1, <1>3, IterationTo
<1>5. s \in [0..n -> Nat] /\ s = [k \in 0..n |-> IF k = 0 THEN 0 ELSE step[k][s[k - 1]]]
  BY <1>4 DEF IteratesTo
<1>6. \A k \in 0..n : (IF k = 0 THEN 0 ELSE step[k][s[k - 1]])
                      = (IF k = 0 THEN 0 ELSE s[k - 1] + parts[k][1] * parts[k][2] + parts[k][3])
  <2>1. \A k \in 0..n : k # 0 => k \in 1..n /\ s[k - 1] \in Nat
    <3>1. \A k \in 0..n : k # 0 => k \in 1..n /\ k - 1 \in 0..n
      BY <1>1
    <3>. HIDE DEF n
    <3>. QED BY <1>5, <3>1
  <2>. HIDE DEF n
  <2>. QED BY <1>3, <2>1
<1>. HIDE DEF n
<1>7. s = [k \in 0..n |-> IF k = 0 THEN 0 ELSE s[k - 1] + parts[k][1] * parts[k][2] + parts[k][3]]
  BY <1>5, <1>6
<1>. QED BY <1>5, <1>7 DEF n

LEMMA DurationTotals ==
    ASSUME Int64Max \in Nat, NEW parts \in Seq(Part)
    PROVE  \E t : /\ t \in [0..Len(parts) -> Int]
                  /\ t = [k \in 0..Len(parts) |->
                            IF k = 0 THEN 0
                            ELSE IF t[k - 1] < 0 THEN -1
                            ELSE add(t[k - 1], parts[k][1], parts[k][2], parts[k][3])]
<1>. DEFINE n == Len(parts)
            Onto(x, p) == IF x < 0 THEN -1 ELSE add(x, p[1], p[2], p[3])
            step == [k \in 1..n |-> [x \in Int |-> Onto(x, parts[k])]]
<1>1. n \in Nat /\ \A k \in 1..n : parts[k] \in Part
  BY LenProperties, ElementOfSeq
<1>2. \A k \in 1..n : \A x \in Int : Onto(x, parts[k]) \in Int
  <2>1. ASSUME NEW k \in 1..n PROVE parts[k][1] \in Nat /\ parts[k][2] \in Nat /\ parts[k][3] \in Nat
    BY <1>1 DEF Part
  <2>2. \A a, b, c \in Nat, x \in Int : add(x, a, b, c) \in Int
    <3>1. \A a, b \in Nat : a * b \in Nat
      OBVIOUS
    <3>2. ASSUME NEW a \in Nat, NEW b \in Nat, NEW c \in Nat, NEW x \in Int
          PROVE  add(x, a, b, c) = -1 \/ add(x, a, b, c) = x + a * b + c
      BY Zenon DEF add
    <3>3. \A m, c \in Nat, x \in Int : x + m + c \in Int
      OBVIOUS
    <3>. QED BY <3>1, <3>2, <3>3
  <2>3. ASSUME NEW k \in 1..n, NEW x \in Int PROVE Onto(x, parts[k]) \in Int
    <3>. DEFINE a == parts[k][1]
                b == parts[k][2]
                c == parts[k][3]
    <3>1. a \in Nat /\ b \in Nat /\ c \in Nat
      BY <2>1
    <3>2. Onto(x, parts[k]) = IF x < 0 THEN -1 ELSE add(x, a, b, c)
      OBVIOUS
    <3>. HIDE DEF Onto, a, b, c
    <3>3. add(x, a, b, c) \in Int
      BY <2>2, <3>1
    <3>. QED BY <3>2, <3>3
  <2>. QED BY <2>3
<1>. HIDE DEF Onto
<1>3. step \in [1..n -> [Int -> Int]] /\ \A k \in 1..n : \A x \in Int : step[k][x] = Onto(x, parts[k])
  BY <1>2
<1>. HIDE DEF step
<1>4. PICK s : IteratesTo(s, Int, n, 0, step)
  <2>1. 0 \in Int
    OBVIOUS
  <2>. QED BY <1>1, <1>3, <2>1, IterationTo, Zenon
<1>5. s \in [0..n -> Int] /\ s = [k \in 0..n |-> IF k = 0 THEN 0 ELSE step[k][s[k - 1]]]
  BY <1>4 DEF IteratesTo
<1>6. \A k \in 0..n : (IF k = 0 THEN 0 ELSE step[k][s[k - 1]]) = (IF k = 0 THEN 0 ELSE Onto(s[k - 1], parts[k]))
  <2>1. \A k \in 0..n : k # 0 => k \in 1..n /\ s[k - 1] \in Int
    BY <1>1, <1>5
  <2>. HIDE DEF n
  <2>. QED BY <1>3, <2>1
<1>. HIDE DEF n
<1>7. s = [k \in 0..n |-> IF k = 0 THEN 0 ELSE Onto(s[k - 1], parts[k])]
  BY <1>5, <1>6
<1>. QED BY <1>5, <1>7 DEF n, Onto

SumOf(parts) ==
    LET sum[k \in 0..Len(parts)] == IF k = 0 THEN 0 ELSE sum[k - 1] + parts[k][1] * parts[k][2] + parts[k][3]
    IN sum[Len(parts)]

LEMMA TotalExact ==
    ASSUME Int64Max \in Nat, NEW parts \in Seq(Part)
    PROVE  SumOf(parts) \in Nat /\ duration_total(parts) = IF SumOf(parts) <= Int64Max THEN SumOf(parts) ELSE -1
<1>. DEFINE n == Len(parts)
            Sums(s) == s = [k \in 0..n |-> IF k = 0 THEN 0 ELSE s[k - 1] + parts[k][1] * parts[k][2] + parts[k][3]]
            Totals(t) == t = [k \in 0..n |-> IF k = 0 THEN 0
                                            ELSE IF t[k - 1] < 0 THEN -1
                                            ELSE add(t[k - 1], parts[k][1], parts[k][2], parts[k][3])]
            sum == CHOOSE s : Sums(s)
            total == CHOOSE t : Totals(t)
<1>1. Sums(sum)
  <2>1. \E s : Sums(s)
    BY DurationSums
  <2>. HIDE DEF Sums
  <2>. QED BY <2>1
<1>2. Totals(total)
  <2>1. \E t : Totals(t)
    BY DurationTotals
  <2>. HIDE DEF Totals
  <2>. QED BY <2>1
<1>3. n \in Nat /\ \A k \in 1..n : parts[k] \in Part
  BY LenProperties, ElementOfSeq
<1>4. duration_total(parts) = total[n]
  BY Zenon DEF duration_total
<1>5. SumOf(parts) = sum[n]
  BY Zenon DEF SumOf
<1>. HIDE DEF sum, total
<1>6. sum[0] = 0 /\ \A k \in 1..n : sum[k] = sum[k - 1] + parts[k][1] * parts[k][2] + parts[k][3]
  <2>. DEFINE next(k) == sum[k - 1] + parts[k][1] * parts[k][2] + parts[k][3]
  <2>1. sum = [k \in 0..n |-> IF k = 0 THEN 0 ELSE next(k)]
    BY <1>1, Zenon
  <2>2. 0 \in 0..n /\ \A k \in 1..n : k \in 0..n /\ k # 0
    BY <1>3
  <2>. HIDE DEF n, next, Sums
  <2>3. \A k \in 0..n : sum[k] = IF k = 0 THEN 0 ELSE next(k)
    BY <2>1, Zenon
  <2>4. sum[0] = 0 /\ \A k \in 1..n : sum[k] = next(k)
    BY <2>2, <2>3, Zenon
  <2>. QED BY <2>4, Zenon DEF next
<1>7. total[0] = 0 /\ \A k \in 1..n : total[k] = IF total[k - 1] < 0 THEN -1
                                                ELSE add(total[k - 1], parts[k][1], parts[k][2], parts[k][3])
  <2>. DEFINE next(k) == IF total[k - 1] < 0 THEN -1
                         ELSE add(total[k - 1], parts[k][1], parts[k][2], parts[k][3])
  <2>1. total = [k \in 0..n |-> IF k = 0 THEN 0 ELSE next(k)]
    BY <1>2, Zenon
  <2>2. 0 \in 0..n /\ \A k \in 1..n : k \in 0..n /\ k # 0
    BY <1>3
  <2>. HIDE DEF n, next, Totals
  <2>3. \A k \in 0..n : total[k] = IF k = 0 THEN 0 ELSE next(k)
    BY <2>1, Zenon
  <2>4. total[0] = 0 /\ \A k \in 1..n : total[k] = next(k)
    BY <2>2, <2>3, Zenon
  <2>. QED BY <2>4, Zenon DEF next
<1>. HIDE DEF n, Sums, Totals
<1>. DEFINE Exact(k) == sum[k] \in Nat /\ total[k] = IF sum[k] <= Int64Max THEN sum[k] ELSE -1
            U == {k \in Nat : k <= n => Exact(k)}
<1>8. 0 \in U
  BY <1>3, <1>6, <1>7
<1>9. ASSUME NEW k \in U \cap Nat PROVE k + 1 \in U
  <2>. SUFFICES ASSUME k + 1 <= n PROVE Exact(k + 1)
    OBVIOUS
  <2>1. k + 1 \in 1..n /\ (k + 1) - 1 = k /\ Exact(k)
    BY <1>3
  <2>. DEFINE a == parts[k + 1][1]
              b == parts[k + 1][2]
              c == parts[k + 1][3]
              m == sum[k]
              t == total[k]
  <2>2. a \in Nat /\ b \in Nat \ {0} /\ c \in Nat
    BY <1>3, <2>1 DEF Part
  <2>3. sum[k + 1] = m + a * b + c /\ total[k + 1] = IF t < 0 THEN -1 ELSE add(t, a, b, c)
    BY <1>6, <1>7, <2>1
  <2>4. m \in Nat /\ t = IF m <= Int64Max THEN m ELSE -1
    BY <2>1
  <2>. HIDE DEF a, b, c, m, t
  <2>5. a * b \in Nat
    BY <2>2
  <2>6. CASE m <= Int64Max
    <3>1. t = m /\ add(m, a, b, c) = IF m + a * b + c <= Int64Max THEN m + a * b + c ELSE -1
      BY <2>2, <2>4, <2>6, AddExact
    <3>. QED BY <2>2, <2>3, <2>4, <2>5, <3>1
  <2>7. CASE ~(m <= Int64Max)
    <3>1. ~(m + a * b + c <= Int64Max)
      BY <2>2, <2>4, <2>5, <2>7
    <3>. QED BY <2>2, <2>3, <2>4, <2>5, <2>7, <3>1
  <2>. QED BY <2>6, <2>7
<1>10. Nat \subseteq U
  <2>. HIDE DEF U
  <2>. QED BY <1>8, <1>9, SetInduction
<1>11. Exact(n)
  BY <1>3, <1>10
<1>. QED BY <1>4, <1>5, <1>11

\* The texts that are parsed are sequences of bytes; every part has a unit.
Text == Seq(0..255)

LEMMA DigitsEndIs ==
    ASSUME NEW s \in Text, NEW k \in 1..Len(s) + 1
    PROVE  DigitsEnd(s, k) \in k..Len(s) + 1
<1>. DEFINE L == Len(s)
            T == {j \in k..L + 1 : At(s, j) \notin 48..57}
<1>1. L \in Nat
  BY LenProperties DEF Text
<1>2. At(s, L + 1) = 0
  BY <1>1 DEF At
<1>3. L + 1 \in T /\ T \subseteq Nat /\ T \subseteq k..L + 1
  BY <1>1, <1>2
<1>4. DigitsEnd(s, k) = Min(T)
  BY Zenon DEF DigitsEnd
<1>. HIDE DEF T, L
<1>5. Min(T) \in T
  BY <1>3, MinIs
<1>. QED BY <1>3, <1>4, <1>5 DEF L

LEMMA NumberTyped ==
    ASSUME Int64Max \in Nat, DigitsMax \in Nat, NEW s \in Text, NEW k \in 1..Len(s) + 1
    PROVE  number(s, k).n \in Int /\ number(s, k).at \in 1..Len(s) + 1
<1>. DEFINE L == Len(s)
            Onto(j, x) == IF x < 0 \/ j - k >= DigitsMax \/ x > (Int64Max - (s[j] - 48)) \div 10 THEN -1
                          ELSE 10 * x + s[j] - 48
            Defined(g) == g = [j \in k - 1..L |-> IF j < k THEN 0
                                                  ELSE IF g[j - 1] < 0 \/ j - k >= DigitsMax
                                                          \/ g[j - 1] > (Int64Max - (s[j] - 48)) \div 10 THEN -1
                                                  ELSE 10 * g[j - 1] + s[j] - 48]
            n == CHOOSE g : Defined(g)
            end == DigitsEnd(s, k)
<1>1. L \in Nat /\ (\A j \in 1..L : s[j] \in 0..255) /\ end \in k..L + 1
  BY LenProperties, ElementOfSeq, DigitsEndIs DEF Text
<1>2. number(s, k) = [n |-> IF end = k THEN -1 ELSE n[end - 1], at |-> end]
  BY Zenon DEF number
<1>. HIDE DEF end
<1>3. \A j \in k..L : \A x \in Int : Onto(j, x) \in Int
  <2>1. ASSUME NEW j \in k..L, NEW x \in Int PROVE 10 * x + s[j] - 48 \in Int
    <3>1. s[j] \in 0..255
      BY <1>1
    <3>2. \A c \in 0..255 : 10 * x + c - 48 \in Int
      OBVIOUS
    <3>. QED BY <3>1, <3>2
  <2>. QED BY <2>1
<1>4. \E g \in [k - 1..L -> Int] : Defined(g)
  <2>. DEFINE m == L - (k - 1)
              step == [i \in 1..m |-> [x \in Int |-> Onto(k - 1 + i, x)]]
  <2>1. m \in Nat /\ \A i \in 1..m : k - 1 + i \in k..L
    BY <1>1
  <2>. HIDE DEF Onto, m
  <2>2. step \in [1..m -> [Int -> Int]] /\ \A i \in 1..m : \A x \in Int : step[i][x] = Onto(k - 1 + i, x)
    BY <1>3, <2>1
  <2>. HIDE DEF step
  <2>3. PICK f : IteratesTo(f, Int, m, 0, step)
    <3>1. 0 \in Int
      OBVIOUS
    <3>. QED BY <2>1, <2>2, <3>1, IterationTo, Zenon
  <2>4. f \in [0..m -> Int] /\ f = [i \in 0..m |-> IF i = 0 THEN 0 ELSE step[i][f[i - 1]]]
    BY <2>3 DEF IteratesTo
  <2>5. f[0] = 0 /\ \A i \in 1..m : f[i] = Onto(k - 1 + i, f[i - 1])
    <3>1. 0 \in 0..m /\ \A i \in 1..m : i \in 0..m /\ i # 0 /\ f[i - 1] \in Int
      BY <2>1, <2>4
    <3>. QED BY <2>2, <2>4, <3>1
  <2>. DEFINE g == [j \in k - 1..L |-> f[j - (k - 1)]]
  <2>6. \A j \in k - 1..L : g[j] = IF j < k THEN 0 ELSE Onto(j, g[j - 1])
    <3>1. ASSUME NEW j \in k - 1..L, j < k PROVE g[j] = 0
      <4>1. j - (k - 1) = 0
        BY <1>1, <3>1
      <4>. QED BY <2>5, <4>1
    <3>2. ASSUME NEW j \in k - 1..L, ~(j < k) PROVE g[j] = Onto(j, g[j - 1])
      <4>. DEFINE i == j - (k - 1)
      <4>1. i \in 1..m /\ k - 1 + i = j /\ i - 1 = (j - 1) - (k - 1) /\ j - 1 \in k - 1..L
        BY <1>1, <3>2 DEF m
      <4>2. g[j] = f[i] /\ g[j - 1] = f[i - 1]
        BY <4>1
      <4>. HIDE DEF g, i
      <4>. QED BY <2>5, <4>1, <4>2
    <3>. QED BY <3>1, <3>2
  <2>7. g \in [k - 1..L -> Int]
    <3>1. \A j \in k - 1..L : j - (k - 1) \in 0..m
      BY <1>1 DEF m
    <3>. QED BY <2>4, <3>1
  <2>8. g = [j \in k - 1..L |-> IF j < k THEN 0 ELSE Onto(j, g[j - 1])]
    <3>1. g = [j \in k - 1..L |-> g[j]]
      OBVIOUS
    <3>. HIDE DEF g
    <3>. QED BY <2>6, <3>1
  <2>9. Defined(g)
    <3>. HIDE DEF g
    <3>. QED BY <2>8, Zenon DEF Onto
  <2>. QED BY <2>7, <2>9
<1>5. \A j \in k - 1..L : n[j] \in Int
  <2>1. \E g : Defined(g)
    BY <1>4
  <2>2. Defined(n)
    <3>. HIDE DEF Defined
    <3>. QED BY <2>1
  <2>. HIDE DEF n
  <2>3. \A j \in k - 1..L : n[j] = IF j < k THEN 0 ELSE Onto(j, n[j - 1])
    BY <2>2
  <2>. HIDE DEF Onto, Defined
  <2>. DEFINE U == {i \in Nat : k - 1 + i <= L => n[k - 1 + i] \in Int}
  <2>4. 0 \in U
    <3>1. ASSUME k - 1 + 0 <= L PROVE n[k - 1 + 0] \in Int
      <4>1. k - 1 + 0 \in k - 1..L /\ k - 1 + 0 < k
        BY <1>1, <3>1
      <4>. QED BY <2>3, <4>1
    <3>. QED BY <3>1
  <2>5. ASSUME NEW i \in U \cap Nat PROVE i + 1 \in U
    <3>1. ASSUME k - 1 + (i + 1) <= L PROVE n[k - 1 + (i + 1)] \in Int
      <4>. DEFINE j == k - 1 + (i + 1)
      <4>1. j \in k..L /\ j \in k - 1..L /\ ~(j < k) /\ j - 1 = k - 1 + i /\ k - 1 + i <= L
        BY <1>1, <3>1
      <4>2. n[j - 1] \in Int
        BY <4>1
      <4>. HIDE DEF j
      <4>3. n[j] \in Int
        BY <1>3, <2>3, <4>1, <4>2
      <4>. QED BY <4>3 DEF j
    <3>. QED BY <3>1
  <2>6. Nat \subseteq U
    <3>. HIDE DEF U
    <3>. QED BY <2>4, <2>5, SetInduction
  <2>7. ASSUME NEW j \in k - 1..L PROVE n[j] \in Int
    <3>1. j - (k - 1) \in Nat /\ k - 1 + (j - (k - 1)) = j /\ j <= L
      BY <1>1
    <3>. QED BY <2>6, <3>1
  <2>. QED BY <2>7
<1>. HIDE DEF n
<1>6. end # k => n[end - 1] \in Int
  <2>1. end # k => end - 1 \in k - 1..L
    BY <1>1
  <2>. QED BY <1>5, <2>1
<1>. QED BY <1>1, <1>2, <1>6

LEMMA DecimalsTyped ==
    ASSUME NEW s \in Text, NEW k \in 1..Len(s) + 1
    PROVE  decimals(s, k).n \in Int /\ decimals(s, k).at \in 1..Len(s) + 1
<1>. DEFINE L == Len(s)
            end == DigitsEnd(s, k + 1)
            d(j) == IF k + j < end THEN s[k + j] - 48 ELSE 0
            value == IF end - k \in 2..4 THEN 100 * d(1) + 10 * d(2) + d(3) ELSE -1
<1>1. L \in Nat /\ \A j \in 1..L : s[j] \in 0..255
  BY LenProperties, ElementOfSeq DEF Text
<1>2. decimals(s, k) = IF At(s, k) # 46 THEN [n |-> 0, at |-> k] ELSE [n |-> value, at |-> end]
  BY Zenon DEF decimals
<1>3. CASE At(s, k) # 46
  <2>1. decimals(s, k) = [n |-> 0, at |-> k]
    BY <1>2, <1>3, Zenon
  <2>. QED BY <2>1
<1>4. CASE At(s, k) = 46
  <2>1. k <= L
    BY <1>1, <1>4 DEF At
  <2>2. k + 1 \in 1..L + 1
    BY <1>1, <2>1
  <2>3. end \in k + 1..L + 1
    BY <2>2, DigitsEndIs
  <2>. HIDE DEF end
  <2>4. \A j \in 1..3 : d(j) \in Int
    <3>1. ASSUME NEW j \in 1..3, k + j < end PROVE s[k + j] \in 0..255
      <4>1. k + j \in 1..L
        BY <1>1, <2>3, <3>1
      <4>. QED BY <1>1, <4>1
    <3>2. \A c \in 0..255 : c - 48 \in Int
      OBVIOUS
    <3>3. ASSUME NEW j \in 1..3, k + j < end PROVE d(j) \in Int
      BY <3>1, <3>2, <3>3
    <3>4. ASSUME NEW j \in 1..3, ~(k + j < end) PROVE d(j) \in Int
      BY <3>4
    <3>. HIDE DEF d
    <3>. QED BY <3>3, <3>4
  <2>. HIDE DEF d
  <2>5. value \in Int
    <3>1. d(1) \in Int /\ d(2) \in Int /\ d(3) \in Int
      BY <2>4
    <3>. QED BY <3>1
  <2>6. end \in 1..L + 1
    BY <1>1, <2>3
  <2>. HIDE DEF value
  <2>7. decimals(s, k) = [n |-> value, at |-> end]
    BY <1>2, <1>4, Zenon
  <2>. QED BY <2>5, <2>6, <2>7
<1>. QED BY <1>3, <1>4

\* The units are those of the constants.
UnitsAssumed ==
    Int64Max \in Nat /\ DigitsMax \in Nat /\ {Week, Day, Hour, Minute} \subseteq Nat \ {0}
Parsing == [ok : BOOLEAN, at : Nat \ {0}, stage : 0..3, parts : Seq(Part)]

LEMMA OnePart ==
    ASSUME NEW n \in Nat, NEW u \in Nat \ {0}, NEW f \in Nat
    PROVE  <<n, u, f>> \in Part /\ <<<<n, u, f>>>> \in Seq(Part)
<1>1. <<n, u, f>> \in Part
  BY DEF Part
<1>. DEFINE p == <<n, u, f>>
<1>2. p \in Part
  BY <1>1
<1>. HIDE DEF p
<1>3. <<p>> \in Seq(Part)
  BY <1>2
<1>. QED BY <1>1, <1>3 DEF p

LEMMA NextTyped ==
    ASSUME UnitsAssumed, NEW s \in Text, NEW r \in Parsing
    PROVE  NextPart(s, r) \in Parsing
<1>. DEFINE n == number(s, r.at)
            f == decimals(s, n.at)
            stage == {k \in r.stage + 1..3 : At(s, f.at) = <<72, 77, 83>>[k] /\ (f.at = n.at \/ k = 3)}
            part == <<n.n, TimeUnits[Min(stage)], f.n>>
<1>1. NextPart(s, r) = IF r.at > Len(s) \/ ~r.ok THEN r
                       ELSE IF n.n < 0 \/ f.n < 0 \/ stage = {} THEN [r EXCEPT !.ok = FALSE]
                       ELSE [ok |-> TRUE, at |-> f.at + 1, stage |-> Min(stage), parts |-> Append(r.parts, part)]
  BY Zenon DEF NextPart
<1>2. Len(s) \in Nat /\ r.at \in Nat \ {0} /\ r.stage \in 0..3 /\ r.parts \in Seq(Part)
  BY LenProperties DEF Parsing, Text
<1>3. CASE r.at > Len(s) \/ ~r.ok
  BY <1>1, <1>3, Zenon
<1>4. CASE ~(r.at > Len(s) \/ ~r.ok) /\ (n.n < 0 \/ f.n < 0 \/ stage = {})
  <2>1. NextPart(s, r) = [r EXCEPT !.ok = FALSE]
    BY <1>1, <1>4, Zenon
  <2>. QED BY <2>1 DEF Parsing
<1>5. CASE ~(r.at > Len(s) \/ ~r.ok) /\ ~(n.n < 0 \/ f.n < 0 \/ stage = {})
  <2>1. r.at \in 1..Len(s) + 1
    BY <1>2, <1>5
  <2>2. n.n \in Int /\ n.at \in 1..Len(s) + 1
    BY <2>1, NumberTyped DEF UnitsAssumed
  <2>. HIDE DEF n
  <2>3. f.n \in Int /\ f.at \in 1..Len(s) + 1
    BY <2>2, DecimalsTyped
  <2>. HIDE DEF f
  <2>4. stage \subseteq 1..3 /\ stage \subseteq Nat /\ stage # {}
    BY <1>2, <1>5
  <2>. HIDE DEF stage
  <2>5. Min(stage) \in 1..3
    BY <2>4, MinIs
  <2>6. TimeUnits[Min(stage)] \in Nat \ {0}
    <3>1. \A k \in 1..3 : TimeUnits[k] \in Nat \ {0}
      BY DEF TimeUnits, UnitsAssumed
    <3>. QED BY <2>5, <3>1
  <2>7. n.n \in Nat /\ f.n \in Nat
    BY <1>5, <2>2, <2>3
  <2>8. part \in Part
    BY <2>6, <2>7, OnePart
  <2>. HIDE DEF part
  <2>9. Append(r.parts, part) \in Seq(Part)
    BY <1>2, <2>8, AppendProperties
  <2>10. f.at + 1 \in Nat \ {0} /\ Min(stage) \in 0..3
    BY <2>3, <2>5
  <2>11. NextPart(s, r) = [ok |-> TRUE, at |-> f.at + 1, stage |-> Min(stage), parts |-> Append(r.parts, part)]
    BY <1>1, <1>5, Zenon
  <2>. QED BY <2>9, <2>10, <2>11 DEF Parsing
<1>. QED BY <1>3, <1>4, <1>5

LEMMA TimeTyped ==
    ASSUME UnitsAssumed, NEW s \in Text, NEW k \in Nat, NEW days \in Seq(Part)
    PROVE  TimeParts(s, k, days) \subseteq Seq(Part)
<1>. DEFINE L == Len(s)
            start == [ok |-> TRUE, at |-> k + 1, stage |-> 0, parts |-> days]
            Runs(g) == g = [j \in 0..L |-> IF j = 0 THEN start ELSE NextPart(s, g[j - 1])]
            r == CHOOSE g : Runs(g)
            step == [j \in 1..L |-> [x \in Parsing |-> NextPart(s, x)]]
<1>1. L \in Nat
  BY LenProperties DEF Text
<1>2. start \in Parsing
  BY DEF Parsing
<1>3. TimeParts(s, k, days) = IF At(s, k) # 84 \/ At(s, k + 1) = 0 \/ ~r[L].ok THEN {} ELSE {r[L].parts}
  BY Zenon DEF TimeParts
<1>. HIDE DEF L, start
<1>4. step \in [1..L -> [Parsing -> Parsing]] /\ \A j \in 1..L : \A x \in Parsing : step[j][x] = NextPart(s, x)
  BY NextTyped
<1>. HIDE DEF step
<1>5. PICK f : IteratesTo(f, Parsing, L, start, step)
  BY <1>1, <1>2, <1>4, IterationTo, Zenon
<1>6. f \in [0..L -> Parsing] /\ f = [j \in 0..L |-> IF j = 0 THEN start ELSE step[j][f[j - 1]]]
  BY <1>5 DEF IteratesTo
<1>7. Runs(f)
  <2>1. \A j \in 0..L : (IF j = 0 THEN start ELSE step[j][f[j - 1]]) = (IF j = 0 THEN start ELSE NextPart(s, f[j - 1]))
    <3>1. \A j \in 0..L : j # 0 => j \in 1..L /\ f[j - 1] \in Parsing
      BY <1>1, <1>6
    <3>. QED BY <1>4, <3>1
  <2>. QED BY <1>6, <2>1
<1>8. Runs(r)
  <2>. HIDE DEF Runs
  <2>. QED BY <1>7
<1>. HIDE DEF r
<1>9. \A j \in 0..L : r[j] = IF j = 0 THEN start ELSE NextPart(s, r[j - 1])
  BY <1>8
<1>. DEFINE U == {j \in Nat : j <= L => r[j] \in Parsing}
<1>10. 0 \in U
  BY <1>1, <1>2, <1>9
<1>11. ASSUME NEW j \in U \cap Nat PROVE j + 1 \in U
  <2>1. ASSUME j + 1 <= L PROVE r[j + 1] \in Parsing
    <3>1. j + 1 \in 0..L /\ j + 1 # 0 /\ (j + 1) - 1 = j /\ j <= L
      BY <1>1, <2>1
    <3>2. r[j] \in Parsing /\ r[j + 1] = NextPart(s, r[j])
      BY <1>9, <3>1
    <3>. QED BY <3>2, NextTyped
  <2>. QED BY <2>1
<1>12. r[L] \in Parsing
  <2>1. L \in U
    <3>. HIDE DEF U
    <3>. QED BY <1>1, <1>10, <1>11, SetInduction
  <2>. QED BY <1>1, <2>1
<1>13. r[L].parts \in Seq(Part)
  BY <1>12 DEF Parsing
<1>. QED BY <1>3, <1>13

LEMMA PartsTyped ==
    ASSUME UnitsAssumed, NEW s \in Text
    PROVE  duration_parts(s) \subseteq Seq(Part)
<1>. DEFINE n == number(s, 2)
<1>1. Len(s) \in Nat
  BY LenProperties DEF Text
<1>2. duration_parts(s) =
          IF At(s, 1) # 80 \/ At(s, 2) = 0 THEN {}
          ELSE IF s[2] = 84 THEN TimeParts(s, 2, <<>>)
          ELSE IF n.n < 0 THEN {}
          ELSE CASE At(s, n.at) = 87 /\ At(s, n.at + 1) = 0 -> {<<<<n.n, Week, 0>>>>}
                 [] At(s, n.at) = 68 /\ At(s, n.at + 1) = 0 -> {<<<<n.n, Day, 0>>>>}
                 [] At(s, n.at) = 68 /\ At(s, n.at + 1) # 0 -> TimeParts(s, n.at + 1, <<<<n.n, Day, 0>>>>)
                 [] OTHER -> {}
  BY Zenon DEF duration_parts
<1>3. CASE At(s, 1) # 80 \/ At(s, 2) = 0
  BY <1>2, <1>3, Zenon
<1>4. CASE ~(At(s, 1) # 80 \/ At(s, 2) = 0)
  <2>1. 2 \in 1..Len(s) + 1
    BY <1>1, <1>4 DEF At
  <2>2. n.n \in Int /\ n.at \in 1..Len(s) + 1
    BY <2>1, NumberTyped DEF UnitsAssumed
  <2>. HIDE DEF n
  <2>3. TimeParts(s, 2, <<>>) \subseteq Seq(Part)
    <3>1. 2 \in Nat /\ <<>> \in Seq(Part)
      OBVIOUS
    <3>. QED BY <3>1, TimeTyped
  <2>4. CASE s[2] = 84 \/ n.n < 0
    <3>1. duration_parts(s) = TimeParts(s, 2, <<>>) \/ duration_parts(s) = {}
      BY <1>2, <1>4, <2>4, Zenon
    <3>. QED BY <2>3, <3>1
  <2>5. CASE ~(s[2] = 84 \/ n.n < 0)
    <3>1. n.n \in Nat /\ n.at + 1 \in Nat /\ 0 \in Nat
      BY <2>2, <2>5
    <3>2. Week \in Nat \ {0} /\ Day \in Nat \ {0}
      BY DEF UnitsAssumed
    <3>. DEFINE week == <<<<n.n, Week, 0>>>>
                day == <<<<n.n, Day, 0>>>>
    <3>3. week \in Seq(Part) /\ day \in Seq(Part)
      BY <3>1, <3>2, OnePart
    <3>. HIDE DEF week, day
    <3>4. TimeParts(s, n.at + 1, day) \subseteq Seq(Part)
      BY <3>1, <3>3, TimeTyped
    <3>5. duration_parts(s) =
              CASE At(s, n.at) = 87 /\ At(s, n.at + 1) = 0 -> {week}
                [] At(s, n.at) = 68 /\ At(s, n.at + 1) = 0 -> {day}
                [] At(s, n.at) = 68 /\ At(s, n.at + 1) # 0 -> TimeParts(s, n.at + 1, day)
                [] OTHER -> {}
      BY <1>2, <1>4, <2>5, Zenon DEF week, day
    <3>6. \/ duration_parts(s) = {week} \/ duration_parts(s) = {day}
          \/ duration_parts(s) = TimeParts(s, n.at + 1, day) \/ duration_parts(s) = {}
      BY <3>5
    <3>. QED BY <3>3, <3>4, <3>6
  <2>. QED BY <2>4, <2>5
<1>. QED BY <1>3, <1>4

\* For every text: duration.c gives the exact sum of the parts it reads in it, in
\* milliseconds, or refuses the text when the sum does not fit: no sum overflows on
\* the way, whatever the numbers are.
THEOREM DurationsAreExact ==
    ASSUME UnitsAssumed, NEW s \in Seq(0..255)
    PROVE  DurationExact(s)
<1>1. duration_parts(s) \subseteq Seq(Part)
  BY PartsTyped DEF Text
<1>2. Int64Max \in Nat
  BY DEF UnitsAssumed
<1>3. \A parts \in duration_parts(s) :
          SumOf(parts) \in Nat /\ duration_total(parts) = IF SumOf(parts) <= Int64Max THEN SumOf(parts) ELSE -1
  BY <1>1, <1>2, TotalExact
<1>4. DurationExact(s) <=> duration_parse_ms(s) = {n \in {SumOf(parts) : parts \in duration_parts(s)} : n <= Int64Max}
  BY Zenon DEF DurationExact, SumOf
<1>5. duration_parse_ms(s) = {duration_total(parts) : parts \in duration_parts(s)} \ {-1}
  BY Zenon DEF duration_parse_ms
<1>6. \A n \in Nat : n # -1
  OBVIOUS
<1>7. duration_parse_ms(s) = {n \in {SumOf(parts) : parts \in duration_parts(s)} : n <= Int64Max}
  BY <1>3, <1>5, <1>6
<1>. QED BY <1>4, <1>7

-----------------------------------------------------------------------------
(* Positions *)

\* A finite set of numbers has an element with any smaller number of others below.
LEMMA Nth ==
    ASSUME NEW T, T \subseteq Nat, IsFiniteSet(T), NEW k \in Nat, k < Cardinality(T)
    PROVE  \E s \in T : Cardinality({b \in T : b < s}) = k
<1>. DEFINE Has(j) == \E s \in T : Cardinality({b \in T : b < s}) = j
            U == {j \in Nat : j < Cardinality(T) => Has(j)}
<1>1. Cardinality(T) \in Nat
  BY FS_CardinalityType
<1>2. 0 \in U
  <2>. SUFFICES ASSUME 0 < Cardinality(T) PROVE Has(0)
    OBVIOUS
  <2>1. T # {}
    BY FS_EmptySet
  <2>2. Min(T) \in T /\ \A m \in T : Min(T) <= m
    BY <2>1, MinIs
  <2>3. PICK s \in T : \A m \in T : s <= m
    BY <2>2
  <2>4. {b \in T : b < s} = {}
    <3>1. ASSUME NEW b \in T, b < s PROVE FALSE
      <4>1. s <= b /\ s \in Nat /\ b \in Nat
        BY <2>3
      <4>. QED BY <3>1, <4>1
    <3>. QED BY <3>1
  <2>. QED BY <2>3, <2>4, FS_EmptySet
<1>3. ASSUME NEW j \in U \cap Nat PROVE j + 1 \in U
  <2>. SUFFICES ASSUME j + 1 < Cardinality(T) PROVE Has(j + 1)
    OBVIOUS
  <2>1. Has(j)
    BY <1>1
  <2>2. PICK s \in T : Cardinality({b \in T : b < s}) = j
    BY <2>1
  <2>. DEFINE below == {b \in T : b < s}
              above == {b \in T : b > s}
  <2>3. IsFiniteSet(below) /\ s \notin below /\ Cardinality(below) = j
    BY <2>2, FS_Subset
  <2>4. Cardinality(below \cup {s}) = j + 1
    <3>. HIDE DEF below
    <3>. QED BY <2>3, FS_AddElement
  <2>5. above # {}
    <3>1. ASSUME above = {} PROVE FALSE
      <4>1. T = below \cup {s}
        <5>1. ASSUME NEW b \in T PROVE b \in below \cup {s}
          <6>1. b \in Nat /\ s \in Nat /\ ~(b > s)
            BY <3>1
          <6>2. b < s \/ b = s
            BY <6>1
          <6>. QED BY <6>2
        <5>. QED BY <5>1
      <4>. HIDE DEF below
      <4>. QED BY <2>4, <4>1
    <3>. QED BY <3>1
  <2>6. above \subseteq Nat
    OBVIOUS
  <2>7. PICK t \in above : \A m \in above : t <= m
    <3>. HIDE DEF above
    <3>. QED BY <2>5, <2>6, Least
  <2>8. {b \in T : b < t} = below \cup {s}
    <3>1. t \in T /\ t > s /\ t \in Nat /\ s \in Nat
      BY <2>7
    <3>2. ASSUME NEW b \in T, b < t PROVE b \in below \cup {s}
      <4>1. b \in Nat
        OBVIOUS
      <4>2. ~(b > s)
        <5>1. ASSUME b > s PROVE FALSE
          <6>1. t <= b
            BY <2>7, <5>1
          <6>. QED BY <3>1, <3>2, <4>1, <6>1
        <5>. QED BY <5>1
      <4>3. b < s \/ b = s
        BY <3>1, <4>1, <4>2
      <4>. QED BY <4>3
    <3>3. ASSUME NEW b \in below \cup {s} PROVE b \in T /\ b < t
      <4>1. b \in T /\ b \in Nat /\ b <= s
        OBVIOUS
      <4>. QED BY <3>1, <4>1
    <3>. QED BY <3>2, <3>3
  <2>. HIDE DEF below
  <2>. QED BY <2>4, <2>7, <2>8
<1>4. Nat \subseteq U
  <2>. HIDE DEF U
  <2>. QED BY <1>2, <1>3, SetInduction
<1>. QED BY <1>4

\* lsp_uri.c maps a position only to an offset in its line, before the line's end
\* and at the start of a character, whatever the text.
THEOREM PositionsAreExact ==
    ASSUME NEW text \in Seq(Nat), NEW line \in Nat, NEW col \in Nat
    PROVE  PositionExact(text, line, col)
<1>. DEFINE n == Len(text)
            breaks == {k \in DOMAIN text : text[k] = Newline}
            starts == {0} \cup breaks
            start == CHOOSE s \in starts : Cardinality({b \in starts : b < s}) = line
            past == {b - 1 : b \in {x \in breaks : x > start}}
            stop == IF past = {} THEN n ELSE Min(past)
            end == IF stop > start /\ text[stop] = 13 THEN stop - 1 ELSE stop
<1>1. n \in Nat /\ DOMAIN text = 1..n
  BY LenProperties
<1>. SUFFICES ASSUME NEW o \in lsp_offset(text, line, col)
              PROVE  /\ Cardinality({k \in 1..o : text[k] = Newline}) = line
                     /\ \A k \in o - col + 1..o : text[k] # Newline
                     /\ o < n => text[o + 1] \notin 128..191
  BY DEF PositionExact
<1>2. /\ line < Cardinality(starts) /\ ~(line >= Cardinality(starts))
      /\ ~(col > end - start) /\ o = start + col
      /\ ~(start + col < n /\ text[start + col + 1] \in 128..191)
  <2>1. lsp_offset(text, line, col) =
          IF line >= Cardinality(starts) THEN {}
          ELSE IF col > end - start \/ (start + col < n /\ text[start + col + 1] \in 128..191) THEN {}
          ELSE {start + col}
    BY Zenon DEF lsp_offset
  <2>2. IsFiniteSet(starts)
    <3>1. IsFiniteSet(1..n)
      BY <1>1, FS_Interval
    <3>2. breaks \subseteq 1..n
      BY <1>1
    <3>3. IsFiniteSet(breaks)
      BY <3>1, <3>2, FS_Subset
    <3>4. starts = breaks \cup {0}
      OBVIOUS
    <3>. HIDE DEF breaks, starts
    <3>5. IsFiniteSet(breaks \cup {0})
      BY <3>3, FS_AddElement
    <3>. QED BY <3>4, <3>5
  <2>3. Cardinality(starts) \in Nat
    BY <2>2, FS_CardinalityType
  <2>. HIDE DEF starts, start, end, n
  <2>4. ~(line >= Cardinality(starts))
    BY <2>1
  <2>5. ~(col > end - start \/ (start + col < n /\ text[start + col + 1] \in 128..191))
    BY <2>1
  <2>6. o = start + col
    BY <2>1
  <2>. QED BY <2>3, <2>4, <2>5, <2>6
<1>3. IsFiniteSet(breaks) /\ breaks \subseteq 1..n
  <2>1. IsFiniteSet(1..n) /\ breaks \subseteq 1..n
    BY <1>1, FS_Interval
  <2>. QED BY <2>1, FS_Subset
<1>4. start \in starts /\ Cardinality({b \in starts : b < start}) = line
  <2>1. starts \subseteq Nat
    BY <1>1, <1>3
  <2>2. IsFiniteSet(starts)
    <3>1. starts = breaks \cup {0}
      OBVIOUS
    <3>. HIDE DEF breaks, starts
    <3>2. IsFiniteSet(breaks \cup {0})
      BY <1>3, FS_AddElement
    <3>. QED BY <3>1, <3>2
  <2>. HIDE DEF starts
  <2>3. \E s \in starts : Cardinality({b \in starts : b < s}) = line
    <3>1. line < Cardinality(starts)
      BY <1>2
    <3>. QED BY <2>1, <2>2, <3>1, Nth
  <2>. QED BY <2>3
<1>. HIDE DEF start
<1>5. start \in 0..n
  BY <1>1, <1>3, <1>4
<1>6. /\ stop \in start..n
      /\ \A k \in start + 1..stop : text[k] # Newline
  <2>1. past \subseteq Nat /\ \A k \in past : start <= k /\ k < n
    <3>1. \A b \in breaks : b > start => b - 1 \in Nat /\ start <= b - 1 /\ b - 1 < n
      BY <1>1, <1>3, <1>5
    <3>. HIDE DEF breaks
    <3>. QED BY <3>1
  <2>2. past # {} => Min(past) \in past /\ \A m \in past : Min(past) <= m
    <3>. HIDE DEF past
    <3>. QED BY <2>1, MinIs
  <2>3. stop \in start..n
    <3>1. CASE past = {}
      <4>1. stop = n
        BY <3>1
      <4>. QED BY <1>1, <1>5, <4>1
    <3>2. CASE past # {}
      <4>1. stop = Min(past)
        BY <3>2
      <4>. HIDE DEF past, stop
      <4>2. stop \in past
        BY <2>2, <3>2, <4>1
      <4>3. stop \in Nat /\ start <= stop /\ stop < n
        BY <2>1, <4>2
      <4>. QED BY <1>1, <1>5, <4>3
    <3>. QED BY <3>1, <3>2
  <2>4. ASSUME NEW k \in start + 1..stop, text[k] = Newline PROVE FALSE
    <3>1. k \in 1..n /\ k > start
      BY <1>1, <1>5, <2>3
    <3>2. k - 1 \in past
      BY <1>1, <2>4, <3>1
    <3>3. stop <= k - 1
      <4>. HIDE DEF past
      <4>. QED BY <2>2, <3>2
    <3>. QED BY <1>5, <2>3, <2>4, <3>1, <3>3
  <2>. QED BY <2>3, <2>4
<1>. HIDE DEF stop
<1>7. end \in Int /\ end <= stop /\ col <= end - start /\ o = start + col /\ o \in start..stop
  <2>1. start \in Nat /\ stop \in Nat /\ start <= stop
    BY <1>1, <1>5, <1>6
  <2>2. end = stop \/ end = stop - 1
    OBVIOUS
  <2>3. ~(col > end - start) /\ o = start + col
    BY <1>2
  <2>. HIDE DEF end
  <2>4. end \in Int /\ end <= stop
    BY <2>1, <2>2
  <2>. QED BY <2>1, <2>3, <2>4
<1>8. \A k \in o - col + 1..o : text[k] # Newline
  BY <1>5, <1>6, <1>7
<1>9. {k \in 1..o : text[k] = Newline} = {b \in breaks : b <= start}
  <2>1. ASSUME NEW k \in 1..o, text[k] = Newline PROVE k \in breaks /\ k <= start
    BY <1>1, <1>5, <1>6, <1>7, <2>1
  <2>2. ASSUME NEW b \in breaks, b <= start PROVE b \in 1..o /\ text[b] = Newline
    BY <1>1, <1>5, <1>7, <2>2
  <2>. QED BY <2>1, <2>2
<1>10. Cardinality({b \in breaks : b <= start}) = line
  <2>. DEFINE P == {b \in breaks : b < start}
              Q == {b \in breaks : b <= start}
  <2>1. CASE start = 0
    <3>1. Q = {} /\ {b \in starts : b < start} = {}
      BY <1>1, <1>3, <2>1
    <3>. QED BY <1>4, <3>1, FS_EmptySet
  <2>2. CASE start # 0
    <3>1. start \in breaks
      BY <1>4, <2>2
    <3>2. Q = P \cup {start} /\ {b \in starts : b < start} = P \cup {0}
      BY <1>1, <1>3, <1>5, <2>2, <3>1
    <3>3. IsFiniteSet(P) /\ 0 \notin P /\ start \notin P
      BY <1>1, <1>3, FS_Subset
    <3>. HIDE DEF P
    <3>4. Cardinality(P \cup {start}) = Cardinality(P) + 1 /\ Cardinality(P \cup {0}) = Cardinality(P) + 1
      BY <3>3, FS_AddElement
    <3>. QED BY <1>4, <3>2, <3>4
  <2>. QED BY <2>1, <2>2
<1>. QED BY <1>2, <1>7, <1>8, <1>9, <1>10

-----------------------------------------------------------------------------
(* Frames *)

\* What a header has told so far.
Told == [code : {"ok", "protocol", "tool"}, n : Nat, typed : BOOLEAN, at : Nat \ {0}]

LEMMA TrimSlice ==
    ASSUME NEW S, NEW v \in Seq(S)
    PROVE  Trim(v) \in Seq(S)
<1>. DEFINE ink == {k \in DOMAIN v : v[k] # " "}
<1>1. Len(v) \in Nat /\ DOMAIN v = 1..Len(v)
  BY LenProperties
<1>2. ink \subseteq 0..Len(v) /\ ink \subseteq Nat \ {0} /\ ink \subseteq Nat
  <2>1. ink \subseteq 1..Len(v)
    BY <1>1
  <2>. HIDE DEF ink
  <2>. QED BY <1>1, <2>1
<1>3. Trim(v) = IF ink = {} THEN <<>> ELSE SubSeq(v, Min(ink), Max(ink))
  BY DEF Trim
<1>. HIDE DEF ink
<1>4. CASE ink = {}
  BY <1>3, <1>4
<1>5. CASE ink # {}
  <2>1. Min(ink) \in ink
    BY <1>2, <1>5, MinIs
  <2>2. Max(ink) \in ink
    BY <1>1, <1>2, <1>5, MaxIs
  <2>3. Min(ink) \in Nat \ {0} /\ Max(ink) \in 0..Len(v)
    BY <1>2, <2>1, <2>2
  <2>. QED BY <1>3, <1>5, <2>3, Slice
<1>. QED BY <1>4, <1>5

LEMMA LengthTold ==
    ASSUME NEW S, NEW value \in Seq(S), NEW cap \in Nat
    PROVE  Length(value, cap) \in Told
<1>. DEFINE n == Len(value)
            step == [k \in 1..n |-> [x \in Told |-> AddDigit(x, value[k], cap)]]
<1>1. n \in Nat
  BY LenProperties
<1>2. \A x \in Told : \A c : AddDigit(x, c, cap) \in Told
  <2>1. ASSUME NEW x \in Told, NEW c PROVE AddDigit(x, c, cap) \in Told
    <3>1. Digit(c) \in {-1, 0, 1, 2}
      BY DEF Digit
    <3>2. x.n \in Nat
      BY DEF Told
    <3>3. Digit(c) >= 0 => x.n * 10 + Digit(c) \in Nat
      BY <3>1, <3>2
    <3>. DEFINE d == Digit(c)
                Over == d > cap \/ x.n > (cap - d) \div 10
                more == x.n * 10 + d
    <3>4. CASE x.code # "ok"
      BY <3>4, Zenon DEF AddDigit
    <3>5. CASE x.code = "ok" /\ d < 0
      <4>1. AddDigit(x, c, cap) = [x EXCEPT !.code = "protocol"]
        BY <3>1, <3>5 DEF AddDigit, Told
      <4>. QED BY <4>1 DEF Told
    <3>6. CASE x.code = "ok" /\ d >= 0 /\ Over
      <4>1. AddDigit(x, c, cap) = [x EXCEPT !.code = "tool"]
        BY <3>1, <3>6 DEF AddDigit, Told
      <4>. QED BY <4>1 DEF Told
    <3>7. CASE x.code = "ok" /\ d >= 0 /\ ~Over
      <4>1. AddDigit(x, c, cap) = [x EXCEPT !.n = more]
        BY <3>1, <3>7 DEF AddDigit, Told
      <4>2. more \in Nat
        BY <3>3, <3>7
      <4>. HIDE DEF more
      <4>. QED BY <4>1, <4>2 DEF Told
    <3>8. d < 0 \/ d >= 0
      BY <3>1
    <3>. QED BY <3>4, <3>5, <3>6, <3>7, <3>8
  <2>. QED BY <2>1
<1>3. step \in [1..n -> [Told -> Told]] /\ Fresh \in Told
  <2>1. Fresh \in Told
    BY DEF Fresh, Told
  <2>. QED BY <1>2, <2>1
<1>4. \E g : g \in [0..n -> Told] /\ g = [k \in 0..n |-> IF k = 0 THEN Fresh ELSE AddDigit(g[k - 1], value[k], cap)]
  <2>. HIDE DEF step
  <2>1. PICK g : IteratesTo(g, Told, n, Fresh, step)
    BY <1>1, <1>3, IterationTo
  <2>2. g \in [0..n -> Told] /\ g = [k \in 0..n |-> IF k = 0 THEN Fresh ELSE step[k][g[k - 1]]]
    BY <2>1 DEF IteratesTo
  <2>3. \A k \in 1..n : k - 1 \in 0..n
    BY <1>1
  <2>4. \A k \in 0..n : k # 0 => k \in 1..n
    BY <1>1
  <2>5. \A k \in 1..n : \A x \in Told : step[k][x] = AddDigit(x, value[k], cap)
    BY DEF step
  <2>6. \A k \in 0..n : (IF k = 0 THEN Fresh ELSE step[k][g[k - 1]])
                        = IF k = 0 THEN Fresh ELSE AddDigit(g[k - 1], value[k], cap)
    <3>. HIDE DEF n
    <3>. QED BY <2>2, <2>3, <2>4, <2>5
  <2>. HIDE DEF n
  <2>7. g = [k \in 0..n |-> IF k = 0 THEN Fresh ELSE AddDigit(g[k - 1], value[k], cap)]
    BY <2>2, <2>6
  <2>. QED BY <2>2, <2>7
<1>. DEFINE Counts(g) == g = [k \in 0..n |-> IF k = 0 THEN Fresh ELSE AddDigit(g[k - 1], value[k], cap)]
            acc == CHOOSE g : Counts(g)
<1>5. Length(value, cap) = acc[n]
  BY Zenon DEF Length
<1>6. Counts(acc)
  <2>1. \E g : Counts(g)
    BY <1>4
  <2>. HIDE DEF Counts
  <2>. QED BY <2>1
<1>. HIDE DEF acc, step
<1>7. acc[0] = Fresh /\ \A k \in 1..n : acc[k] = AddDigit(acc[k - 1], value[k], cap)
  BY <1>1, <1>6
<1>. DEFINE U == {k \in Nat : k <= n => acc[k] \in Told}
<1>8. 0 \in U
  BY <1>3, <1>7
<1>9. ASSUME NEW k \in U \cap Nat PROVE k + 1 \in U
  <2>1. k + 1 <= n => k + 1 \in 1..n /\ (k + 1) - 1 = k /\ acc[k] \in Told
    BY <1>1
  <2>. HIDE DEF n
  <2>. QED BY <1>2, <1>7, <2>1
<1>10. Nat \subseteq U
  <2>. HIDE DEF U
  <2>. QED BY <1>8, <1>9, SetInduction
<1>. QED BY <1>1, <1>5, <1>10

LEMMA LineTold ==
    ASSUME NEW S, NEW line \in Seq(S), NEW x \in Told, NEW cap \in Nat
    PROVE  AddLine(x, line, cap) \in Told
<1>. DEFINE colon == {k \in DOMAIN line : line[k] = ":"}
            name == Upto(line, Min(colon) - 1)
            value == Trim(From(line, Min(colon) + 1))
            len == Length(value, cap)
            bad == [x EXCEPT !.code = "protocol"]
<1>1. bad \in Told
  BY DEF Told
<1>2. AddLine(x, line, cap) =
        CASE colon = {} \/ 1 \in colon -> bad
          [] OTHER ->
               CASE name = <<"length">> ->
                      IF x.n > 0 \/ value = <<>> THEN bad
                      ELSE IF len.code # "ok" THEN [x EXCEPT !.code = len.code]
                      ELSE IF len.n = 0 THEN bad ELSE [x EXCEPT !.n = len.n]
                 [] name = <<"type">> ->
                      IF x.typed \/ value # <<"vscode">> THEN bad ELSE [x EXCEPT !.typed = TRUE]
                 [] OTHER -> bad
  BY Zenon DEF AddLine
<1>3. ASSUME colon # {} PROVE len \in Told
  <2>1. colon \subseteq Nat
    BY LenProperties
  <2>2. Min(colon) \in Nat
    BY <1>3, <2>1, MinIs
  <2>3. From(line, Min(colon) + 1) \in Seq(S)
    BY <2>2, FromSlice
  <2>. QED BY <2>3, TrimSlice, LengthTold
<1>4. colon # {} => [x EXCEPT !.code = len.code] \in Told /\ [x EXCEPT !.n = len.n] \in Told
  <2>. HIDE DEF colon, len
  <2>. QED BY <1>3 DEF Told
<1>5. [x EXCEPT !.typed = TRUE] \in Told
  BY DEF Told
<1>. HIDE DEF colon, name, value, len, bad
<1>6. CASE colon = {} \/ 1 \in colon
  BY <1>1, <1>2, <1>6
<1>7. CASE ~(colon = {} \/ 1 \in colon)
  <2>1. CASE name = <<"length">>
    BY <1>1, <1>2, <1>4, <1>7, <2>1
  <2>2. CASE name # <<"length">> /\ name = <<"type">>
    BY <1>1, <1>2, <1>5, <1>7, <2>2
  <2>3. CASE name # <<"length">> /\ name # <<"type">>
    BY <1>1, <1>2, <1>7, <2>3
  <2>. QED BY <2>1, <2>2, <2>3
<1>. QED BY <1>6, <1>7

LEMMA ReadTold ==
    ASSUME NEW S, NEW h \in Seq(S), NEW x \in Told, NEW cap \in Nat
    PROVE  Read(x, h, cap) \in Told
<1>. DEFINE ends == {k \in x.at..Len(h) - 1 : h[k] = "CR" /\ h[k + 1] = "LF"}
            line == SubSeq(h, x.at, Min(ends) - 1)
            heard == AddLine(x, line, cap)
<1>1. Read(x, h, cap) = IF x.code # "ok" \/ ends = {} THEN x ELSE [heard EXCEPT !.at = Min(ends) + 2]
  BY Zenon DEF Read
<1>2. ASSUME ends # {} PROVE [heard EXCEPT !.at = Min(ends) + 2] \in Told
  <2>1. x.at \in Nat \ {0} /\ Len(h) \in Nat
    BY LenProperties DEF Told
  <2>2. \A k \in ends : k \in Nat /\ k - 1 \in 0..Len(h)
    BY <2>1
  <2>. HIDE DEF ends
  <2>3. Min(ends) \in Nat /\ Min(ends) - 1 \in 0..Len(h)
    BY <1>2, <2>2, MinIs
  <2>4. line \in Seq(S)
    BY <2>1, <2>3, Slice
  <2>. HIDE DEF line
  <2>5. heard \in Told
    BY <2>4, LineTold
  <2>. HIDE DEF heard
  <2>. QED BY <2>3, <2>5 DEF Told
<1>. HIDE DEF ends, heard
<1>. QED BY <1>1, <1>2

\* The length a header gives is a natural number, whatever its bytes.
LEMMA HeaderTold ==
    ASSUME NEW S, NEW h \in Seq(S), NEW cap \in Nat
    PROVE  Header(h, cap) \in Told
<1>. DEFINE n == Len(h)
            step == [k \in 1..n |-> [x \in Told |-> Read(x, h, cap)]]
            Reads(g) == g = [k \in 0..n |-> IF k = 0 THEN Fresh ELSE Read(g[k - 1], h, cap)]
            acc == CHOOSE g : Reads(g)
<1>1. n \in Nat
  BY LenProperties
<1>2. \A x \in Told : Read(x, h, cap) \in Told
  BY ReadTold
<1>3. step \in [1..n -> [Told -> Told]] /\ Fresh \in Told
  <2>1. Fresh \in Told
    BY DEF Fresh, Told
  <2>. QED BY <1>2, <2>1
<1>4. \E g : Reads(g)
  <2>1. \A k \in 1..n : \A x \in Told : step[k][x] = Read(x, h, cap)
    OBVIOUS
  <2>. HIDE DEF step
  <2>2. PICK g : IteratesTo(g, Told, n, Fresh, step)
    BY <1>1, <1>3, IterationTo
  <2>3. g \in [0..n -> Told] /\ g = [k \in 0..n |-> IF k = 0 THEN Fresh ELSE step[k][g[k - 1]]]
    BY <2>2 DEF IteratesTo
  <2>4. \A k \in 1..n : k - 1 \in 0..n
    BY <1>1
  <2>5. \A k \in 0..n : k # 0 => k \in 1..n
    BY <1>1
  <2>6. \A k \in 0..n : (IF k = 0 THEN Fresh ELSE step[k][g[k - 1]])
                        = IF k = 0 THEN Fresh ELSE Read(g[k - 1], h, cap)
    <3>. HIDE DEF n
    <3>. QED BY <2>1, <2>3, <2>4, <2>5
  <2>. HIDE DEF n
  <2>7. Reads(g)
    BY <2>3, <2>6
  <2>. HIDE DEF Reads
  <2>. QED BY <2>7
<1>5. Header(h, cap) = acc[n]
  BY Zenon DEF Header
<1>6. Reads(acc)
  <2>. HIDE DEF Reads
  <2>. QED BY <1>4
<1>. HIDE DEF acc, step
<1>7. acc[0] = Fresh /\ \A k \in 1..n : acc[k] = Read(acc[k - 1], h, cap)
  BY <1>1, <1>6
<1>. DEFINE U == {k \in Nat : k <= n => acc[k] \in Told}
<1>8. 0 \in U
  BY <1>3, <1>7
<1>9. ASSUME NEW k \in U \cap Nat PROVE k + 1 \in U
  <2>1. k + 1 <= n => k + 1 \in 1..n /\ (k + 1) - 1 = k /\ acc[k] \in Told
    BY <1>1
  <2>. HIDE DEF n
  <2>. QED BY <1>2, <1>7, <2>1
<1>10. Nat \subseteq U
  <2>. HIDE DEF U
  <2>. QED BY <1>8, <1>9, SetInduction
<1>. QED BY <1>1, <1>5, <1>10

\* What an early look shows of a stream is what a later one shows.
LEMMA EarlySame ==
    ASSUME NEW S, NEW s \in Seq(S), NEW n \in 0..Len(s), NEW m \in Nat
    PROVE  /\ m <= n => Upto(Upto(s, n), m) = Upto(s, m)
           /\ \A k \in 4..n : SubSeq(Upto(s, n), k - 3, k) = SubSeq(s, k - 3, k)
<1>. DEFINE b == Upto(s, n)
<1>1. Len(s) \in Nat /\ n \in Nat
  BY LenProperties
<1>2. b \in Seq(S) /\ Len(b) = n /\ \A i \in 1..n : b[i] = s[i]
  BY <1>1, UptoSlice
<1>. HIDE DEF b
<1>3. m <= n => Upto(b, m) = Upto(s, m)
  <2>. SUFFICES ASSUME m <= n PROVE Upto(b, m) = Upto(s, m)
    OBVIOUS
  <2>1. Upto(b, m) \in Seq(S) /\ Len(Upto(b, m)) = m /\ \A i \in 1..m : Upto(b, m)[i] = b[i]
    <3>1. /\ Upto(b, m) \in Seq(S) /\ Len(Upto(b, m)) = IF m < Len(b) THEN m ELSE Len(b)
          /\ \A i \in 1..Len(Upto(b, m)) : Upto(b, m)[i] = b[i]
      BY <1>2, UptoSlice
    <3>2. Len(Upto(b, m)) = m
      BY <1>1, <1>2, <3>1
    <3>. QED BY <3>1, <3>2
  <2>2. Upto(s, m) \in Seq(S) /\ Len(Upto(s, m)) = m /\ \A i \in 1..m : Upto(s, m)[i] = s[i]
    BY <1>1, UptoSlice
  <2>3. \A i \in 1..m : i \in 1..n
    BY <1>1
  <2>4. \A i \in 1..m : Upto(b, m)[i] = Upto(s, m)[i]
    BY <1>2, <2>1, <2>2, <2>3
  <2>. QED BY <2>1, <2>2, <2>4, SeqEqual
<1>4. ASSUME NEW k \in 4..n PROVE SubSeq(b, k - 3, k) = SubSeq(s, k - 3, k)
  <2>1. k - 3 \in Nat \ {0} /\ k \in 0..Len(b) /\ k \in 0..Len(s) /\ k - (k - 3) + 1 = 4 /\ k - 3 <= k
    BY <1>1, <1>2
  <2>. DEFINE p == SubSeq(b, k - 3, k)
              q == SubSeq(s, k - 3, k)
  <2>2. p \in Seq(S) /\ Len(p) = 4 /\ \A i \in 1..4 : p[i] = b[(k - 3) + i - 1]
    BY <1>2, <2>1, Slice
  <2>3. q \in Seq(S) /\ Len(q) = 4 /\ \A i \in 1..4 : q[i] = s[(k - 3) + i - 1]
    <3>1. /\ q \in Seq(S) /\ Len(q) = IF k - 3 <= k THEN k - (k - 3) + 1 ELSE 0
          /\ \A i \in 1..k - (k - 3) + 1 : q[i] = s[(k - 3) + i - 1]
      BY <2>1, Slice
    <3>. HIDE DEF q
    <3>. QED BY <2>1, <3>1
  <2>. HIDE DEF p, q
  <2>4. \A i \in 1..4 : (k - 3) + i - 1 \in 1..n
    BY <1>1
  <2>5. \A i \in 1..4 : p[i] = q[i]
    BY <1>2, <2>2, <2>3, <2>4
  <2>6. p = q
    BY <2>2, <2>3, <2>5, SeqEqual
  <2>. QED BY <2>6 DEF p, q
<1>. QED BY <1>3, <1>4 DEF b

LEMMA FromTail ==
    ASSUME NEW S, NEW s \in Seq(S), NEW m \in 0..Len(s)
    PROVE  /\ From(s, m + 1) \in Seq(S) /\ Len(From(s, m + 1)) = Len(s) - m
           /\ \A i \in 1..Len(s) - m : From(s, m + 1)[i] = s[m + i]
<1>. DEFINE n == Len(s)
            p == From(s, m + 1)
<1>1. n \in Nat
  BY LenProperties
<1>2. /\ m + 1 \in Nat \ {0} /\ (m + 1 <= n => n - (m + 1) + 1 = n - m) /\ (~(m + 1 <= n) => n - m = 0)
      /\ \A i \in 1..n - m : (m + 1) + i - 1 = m + i /\ i \in 1..n - (m + 1) + 1
  BY <1>1
<1>3. /\ p \in Seq(S) /\ Len(p) = IF m + 1 <= n THEN n - (m + 1) + 1 ELSE 0
      /\ \A i \in 1..n - (m + 1) + 1 : p[i] = s[(m + 1) + i - 1]
  BY <1>2, FromSlice
<1>. HIDE DEF p
<1>4. p \in Seq(S) /\ Len(p) = n - m /\ \A i \in 1..n - m : p[i] = s[m + i]
  BY <1>2, <1>3
<1>. QED BY <1>4 DEF p

\* A message that is there is the same later, and what came after it follows.
LEMMA PayloadSame ==
    ASSUME NEW S, NEW s \in Seq(S), NEW n \in 0..Len(s), NEW m \in Nat, NEW k \in Nat, m + k <= n
    PROVE  /\ Upto(From(Upto(s, n), m + 1), k) = Upto(From(s, m + 1), k)
           /\ From(Upto(s, n), m + k + 1) \o From(s, n + 1) = From(s, m + k + 1)
<1>. DEFINE b == Upto(s, n)
<1>1. Len(s) \in Nat /\ n \in Nat
  BY LenProperties
<1>2. b \in Seq(S) /\ Len(b) = n /\ \A i \in 1..n : b[i] = s[i]
  BY <1>1, UptoSlice
<1>. HIDE DEF b
<1>3. Upto(From(b, m + 1), k) = Upto(From(s, m + 1), k)
  <2>. DEFINE p == From(b, m + 1)
              q == From(s, m + 1)
  <2>1. p \in Seq(S) /\ Len(p) = n - m /\ \A i \in 1..n - m : p[i] = b[m + i]
    <3>1. m \in 0..Len(b)
      BY <1>1, <1>2
    <3>. QED BY <1>2, <3>1, FromTail
  <2>2. q \in Seq(S) /\ Len(q) = Len(s) - m /\ \A i \in 1..Len(s) - m : q[i] = s[m + i]
    <3>1. m \in 0..Len(s)
      BY <1>1
    <3>. QED BY <3>1, FromTail
  <2>. HIDE DEF p, q
  <2>3. Upto(p, k) \in Seq(S) /\ Len(Upto(p, k)) = k /\ \A i \in 1..k : Upto(p, k)[i] = p[i]
    <3>1. k <= Len(p)
      BY <1>1, <2>1
    <3>. QED BY <1>1, <2>1, <3>1, UptoSlice
  <2>4. Upto(q, k) \in Seq(S) /\ Len(Upto(q, k)) = k /\ \A i \in 1..k : Upto(q, k)[i] = q[i]
    <3>1. k <= Len(q)
      BY <1>1, <2>2
    <3>. QED BY <1>1, <2>2, <3>1, UptoSlice
  <2>5. \A i \in 1..k : m + i \in 1..n /\ i \in 1..n - m /\ i \in 1..Len(s) - m
    BY <1>1
  <2>6. \A i \in 1..k : Upto(p, k)[i] = Upto(q, k)[i]
    BY <1>2, <2>1, <2>2, <2>3, <2>4, <2>5
  <2>7. Upto(p, k) = Upto(q, k)
    BY <2>3, <2>4, <2>6, SeqEqual
  <2>. QED BY <2>7 DEF p, q
<1>4. From(b, m + k + 1) \o From(s, n + 1) = From(s, m + k + 1)
  <2>. DEFINE a == m + k
              L == Len(s)
              p == From(b, a + 1)
              q == From(s, n + 1)
              r == From(s, a + 1)
  <2>1. a \in Nat /\ a <= n /\ n <= L /\ L \in Nat
    BY <1>1
  <2>. HIDE DEF a
  <2>2. p \in Seq(S) /\ Len(p) = n - a /\ \A i \in 1..n - a : p[i] = b[a + i]
    <3>1. a \in 0..Len(b)
      BY <1>1, <1>2, <2>1
    <3>. QED BY <1>2, <3>1, FromTail
  <2>3. q \in Seq(S) /\ Len(q) = L - n /\ \A i \in 1..L - n : q[i] = s[n + i]
    BY FromTail
  <2>4. r \in Seq(S) /\ Len(r) = L - a /\ \A i \in 1..L - a : r[i] = s[a + i]
    <3>1. a \in 0..Len(s)
      BY <1>1, <2>1
    <3>. QED BY <3>1, FromTail
  <2>. HIDE DEF p, q, r
  <2>5. /\ p \o q \in Seq(S) /\ Len(p \o q) = Len(p) + Len(q)
        /\ \A i \in 1..Len(p) + Len(q) : (p \o q)[i] = IF i <= Len(p) THEN p[i] ELSE q[i - Len(p)]
    BY <2>2, <2>3, ConcatProperties
  <2>6. Len(p) + Len(q) = L - a
    BY <1>1, <2>1, <2>2, <2>3
  <2>7. ASSUME NEW i \in 1..L - a PROVE (p \o q)[i] = r[i]
    <3>1. (p \o q)[i] = IF i <= n - a THEN p[i] ELSE q[i - (n - a)]
      BY <2>2, <2>5, <2>6
    <3>2. CASE i <= n - a
      <4>1. i \in 1..n - a /\ a + i \in 1..n
        BY <1>1, <2>1, <3>2
      <4>. QED BY <1>2, <2>2, <2>4, <3>1, <3>2, <4>1
    <3>3. CASE ~(i <= n - a)
      <4>1. i - (n - a) \in 1..L - n /\ n + (i - (n - a)) = a + i
        BY <1>1, <2>1, <3>3
      <4>. QED BY <2>3, <2>4, <3>1, <3>3, <4>1
    <3>. QED BY <3>2, <3>3
  <2>8. Len(p \o q) = Len(r) /\ Len(p \o q) = L - a
    BY <2>4, <2>5, <2>6
  <2>9. p \o q = r
    BY <2>4, <2>5, <2>7, <2>8, SeqEqual
  <2>. QED BY <2>9 DEF p, q, r, a
<1>. QED BY <1>3, <1>4 DEF b

\* A frame with no header's end in sight, and one with it.
LEMMA NoHeader ==
    ASSUME NEW b, NEW cap, HeaderEnds(b) = {}
    PROVE  take_frame(b, cap) = IF "bad" \in ToSet(Upto(b, HeaderCap)) \/ Len(b) >= HeaderCap
                                THEN Error("protocol") ELSE Busy
<1>. DEFINE header == IF HeaderEnds(b) = {} THEN 0 ELSE Min(HeaderEnds(b))
            seen == Upto(b, IF header > 0 THEN header ELSE HeaderCap)
            h == Header(Upto(b, header - 2), cap)
            bad == "bad" \in ToSet(seen)
            rest == IF h.code # "ok" THEN Error(h.code)
                    ELSE IF h.n = 0 THEN Error("protocol")
                    ELSE IF ~Arrived(b, header, h.n) THEN Busy
                    ELSE [code |-> "ok", text |-> Upto(From(b, header + 1), h.n), rest |-> From(b, header + h.n + 1)]
<1>1. take_frame(b, cap) =
        CASE bad -> Error("protocol")
          [] ~bad /\ header = 0 -> IF Len(b) >= HeaderCap THEN Error("protocol") ELSE Busy
          [] OTHER -> rest
  BY Zenon DEF take_frame
<1>2. header = 0
  OBVIOUS
<1>3. seen = Upto(b, HeaderCap)
  <2>1. (IF header > 0 THEN header ELSE HeaderCap) = HeaderCap
    BY <1>2
  <2>. HIDE DEF header
  <2>. QED BY <2>1
<1>. HIDE DEF header, seen, rest
<1>4. CASE bad
  BY <1>1, <1>3, <1>4
<1>5. CASE ~bad
  BY <1>1, <1>2, <1>3, <1>5
<1>. QED BY <1>4, <1>5

LEMMA WithHeader ==
    ASSUME NEW S, NEW b \in Seq(S), NEW cap, HeaderEnds(b) # {}
    PROVE  LET m == Min(HeaderEnds(b))
               h == Header(Upto(b, m - 2), cap)
           IN /\ m \in HeaderEnds(b) /\ m \in 4..Len(b) /\ m <= HeaderCap
              /\ take_frame(b, cap) =
                   IF "bad" \in ToSet(Upto(b, m)) THEN Error("protocol")
                   ELSE IF h.code # "ok" THEN Error(h.code)
                   ELSE IF h.n = 0 THEN Error("protocol")
                   ELSE IF ~Arrived(b, m, h.n) THEN Busy
                   ELSE [code |-> "ok", text |-> Upto(From(b, m + 1), h.n), rest |-> From(b, m + h.n + 1)]
<1>. DEFINE header == IF HeaderEnds(b) = {} THEN 0 ELSE Min(HeaderEnds(b))
            m == Min(HeaderEnds(b))
            seen == Upto(b, IF header > 0 THEN header ELSE HeaderCap)
            rest(x, h) == IF h.code # "ok" THEN Error(h.code)
                    ELSE IF h.n = 0 THEN Error("protocol")
                    ELSE IF ~Arrived(b, x, h.n) THEN Busy
                    ELSE [code |-> "ok", text |-> Upto(From(b, x + 1), h.n), rest |-> From(b, x + h.n + 1)]
            bad == "bad" \in ToSet(seen)
<1>1. take_frame(b, cap) =
        CASE bad -> Error("protocol")
          [] ~bad /\ header = 0 -> IF Len(b) >= HeaderCap THEN Error("protocol") ELSE Busy
          [] OTHER -> rest(header, Header(Upto(b, header - 2), cap))
  BY Zenon DEF take_frame
<1>2. header = m
  OBVIOUS
<1>3. m \in HeaderEnds(b) /\ m \in 4..Len(b) /\ m <= HeaderCap
  <2>1. HeaderEnds(b) \subseteq Nat /\ \A k \in HeaderEnds(b) : k \in 4..Len(b) /\ k <= HeaderCap
    BY LenProperties DEF HeaderEnds
  <2>2. m \in HeaderEnds(b)
    BY <2>1, MinIs
  <2>. HIDE DEF m
  <2>. QED BY <2>1, <2>2
<1>4. header # 0 /\ header > 0
  <2>. HIDE DEF m, header
  <2>1. Len(b) \in Nat
    BY LenProperties
  <2>. QED BY <1>2, <1>3, <2>1
<1>5. seen = Upto(b, m)
  <2>. HIDE DEF header, m
  <2>. QED BY <1>2, <1>4
<1>. HIDE DEF header, m, seen, rest
<1>6. take_frame(b, cap) = IF "bad" \in ToSet(Upto(b, m)) THEN Error("protocol") ELSE rest(m, Header(Upto(b, m - 2), cap))
  <2>1. CASE bad
    BY <1>1, <1>5, <2>1
  <2>2. CASE ~bad
    BY <1>1, <1>2, <1>4, <1>5, <2>2
  <2>. QED BY <2>1, <2>2
<1>. QED BY <1>3, <1>6 DEF m, rest

\* process_frame.c gives the same verdict however the stream is cut into reads, and
\* takes a message whole: a verdict once given stands, and the bytes behind it stay.
THEOREM FramesAreStable ==
    ASSUME HeaderCap \in Nat, NEW Token, NEW stream \in Seq(Token), NEW cap \in Nat
    PROVE  FrameStable(stream, cap)
<1>1. Len(stream) \in Nat
  BY LenProperties
<1>. SUFFICES ASSUME NEW n \in 0..Len(stream)
              PROVE  LET early == take_frame(Upto(stream, n), cap)
                         late == take_frame(stream, cap)
                     IN /\ early.code # "busy" => early.code = late.code /\ early.text = late.text
                        /\ early.code = "ok" => early.rest \o From(stream, n + 1) = late.rest
  BY Zenon DEF FrameStable
<1>. DEFINE b == Upto(stream, n)
            early == take_frame(b, cap)
            late == take_frame(stream, cap)
            Seen(s, m) == "bad" \in ToSet(Upto(s, m))
<1>2. n \in Nat /\ b \in Seq(Token) /\ Len(b) = n /\ \A i \in 1..n : b[i] = stream[i]
  BY <1>1, UptoSlice
<1>3. \A m \in Nat : m <= n => Upto(b, m) = Upto(stream, m)
  BY EarlySame
<1>4. HeaderEnds(b) = HeaderEnds(stream) \cap 0..n
  <2>1. \A k \in 4..n : SubSeq(b, k - 3, k) = SubSeq(stream, k - 3, k)
    BY EarlySame
  <2>2. 4..n \subseteq 4..Len(stream)
    BY <1>1, <1>2
  <2>3. 4..n = (4..Len(stream)) \cap (0..n)
    BY <1>1, <1>2
  <2>. HIDE DEF b
  <2>4. HeaderEnds(b) = {k \in 4..n : k <= HeaderCap /\ SubSeq(stream, k - 3, k) = Blank}
    BY <1>2, <2>1 DEF HeaderEnds
  <2>. QED BY <2>3, <2>4 DEF HeaderEnds
<1>5. Error("protocol").code = "protocol" /\ Error("protocol").text = <<>> /\ Busy.code = "busy"
  BY DEF Error, Busy
<1>6. CASE HeaderEnds(b) = {} 
  <2>1. early = IF Seen(b, HeaderCap) \/ n >= HeaderCap THEN Error("protocol") ELSE Busy
    <3>. HIDE DEF b
    <3>. QED BY <1>2, <1>6, NoHeader
  <2>2. ASSUME Seen(b, HeaderCap) \/ n >= HeaderCap PROVE late = Error("protocol")
    <3>1. ASSUME NEW m \in Nat, Seen(b, HeaderCap), m > n \/ m >= HeaderCap PROVE Seen(stream, m)
      <4>1. /\ Upto(b, HeaderCap) \in Seq(Token)
            /\ Len(Upto(b, HeaderCap)) = IF HeaderCap < n THEN HeaderCap ELSE n
            /\ \A i \in 1..Len(Upto(b, HeaderCap)) : Upto(b, HeaderCap)[i] = b[i]
        <5>. HIDE DEF b
        <5>. QED BY <1>2, UptoSlice
      <4>2. /\ Upto(stream, m) \in Seq(Token)
            /\ Len(Upto(stream, m)) = IF m < Len(stream) THEN m ELSE Len(stream)
            /\ \A i \in 1..Len(Upto(stream, m)) : Upto(stream, m)[i] = stream[i]
        BY <1>2, UptoSlice
      <4>. DEFINE p == Upto(b, HeaderCap)
                  q == Upto(stream, m)
      <4>3. DOMAIN p = 1..Len(p) /\ DOMAIN q = 1..Len(q)
        BY <4>1, <4>2, LenProperties
      <4>4. PICK i \in DOMAIN p : p[i] = "bad"
        BY <3>1 DEF ToSet
      <4>. HIDE DEF b, p, q
      <4>5. i \in 1..n /\ i \in 1..Len(q)
        BY <1>1, <1>2, <3>1, <4>1, <4>2, <4>3, <4>4 DEF p, q
      <4>6. q[i] = "bad"
        BY <1>2, <4>1, <4>2, <4>3, <4>4, <4>5 DEF p, q
      <4>7. "bad" \in ToSet(q)
        BY <4>3, <4>5, <4>6 DEF ToSet
      <4>. QED BY <4>7 DEF q
    <3>2. CASE HeaderEnds(stream) = {}
      <4>1. late = IF Seen(stream, HeaderCap) \/ Len(stream) >= HeaderCap THEN Error("protocol") ELSE Busy
        BY <3>2, NoHeader
      <4>2. n >= HeaderCap => Len(stream) >= HeaderCap
        BY <1>1, <1>2
      <4>3. HeaderCap >= HeaderCap
        OBVIOUS
      <4>4. Seen(b, HeaderCap) => Seen(stream, HeaderCap)
        BY <3>1, <4>3
      <4>. HIDE DEF b, late, Seen
      <4>. QED BY <2>2, <4>1, <4>2, <4>4
    <3>3. CASE HeaderEnds(stream) # {}
      <4>. DEFINE m == Min(HeaderEnds(stream))
                  h == Header(Upto(stream, m - 2), cap)
      <4>1. /\ m \in HeaderEnds(stream) /\ m \in 4..Len(stream) /\ m <= HeaderCap
            /\ Seen(stream, m) => late = Error("protocol")
        BY <3>3, WithHeader, Zenon
      <4>. HIDE DEF m
      <4>2. m > n /\ m \in Nat
        BY <1>1, <1>2, <1>4, <1>6, <4>1
      <4>3. ~(n >= HeaderCap)
        BY <1>2, <4>1, <4>2
      <4>4. Seen(b, HeaderCap)
        BY <2>2, <4>3
      <4>5. Seen(stream, m)
        BY <3>1, <4>2, <4>4
      <4>. QED BY <4>1, <4>5
    <3>. QED BY <3>2, <3>3
  <2>. HIDE DEF b, early, late, Seen
  <2>3. early.code # "busy" => early = Error("protocol") /\ late = Error("protocol")
    BY <1>5, <2>1, <2>2
  <2>4. early.code # "ok"
    BY <1>5, <2>1
  <2>. QED BY <2>3, <2>4 DEF early, late, b
<1>7. CASE HeaderEnds(b) # {}
  <2>. DEFINE m == Min(HeaderEnds(b))
              h == Header(Upto(b, m - 2), cap)
              Verdict(s) == IF Seen(s, m) THEN Error("protocol")
                            ELSE IF h.code # "ok" THEN Error(h.code)
                            ELSE IF h.n = 0 THEN Error("protocol")
                            ELSE IF ~Arrived(s, m, h.n) THEN Busy
                            ELSE [code |-> "ok", text |-> Upto(From(s, m + 1), h.n), rest |-> From(s, m + h.n + 1)]
  <2>1. m \in HeaderEnds(b) /\ m \in 4..Len(b) /\ early = Verdict(b)
    BY <1>2, <1>7, WithHeader, Zenon
  <2>2. m \in Nat /\ m <= n /\ m - 2 \in Nat /\ m - 2 <= n
    <3>. HIDE DEF m, b
    <3>. QED BY <1>2, <2>1
  <2>3. Min(HeaderEnds(stream)) = m /\ HeaderEnds(stream) # {}
    <3>1. HeaderEnds(b) \subseteq Nat /\ HeaderEnds(stream) \subseteq Nat
      BY <1>1, <1>2 DEF HeaderEnds
    <3>2. \A x \in HeaderEnds(b) : m <= x
      BY <1>7, <3>1, MinIs
    <3>3. \A x \in HeaderEnds(b) \cup HeaderEnds(stream) : x < m => FALSE
      <4>. HIDE DEF m, b
      <4>1. ASSUME NEW x \in HeaderEnds(b) \cup HeaderEnds(stream), x < m PROVE FALSE
        <5>1. x \in Nat /\ x \in 0..n
          BY <1>2, <2>2, <3>1, <4>1
        <5>2. x \in HeaderEnds(b)
          BY <1>4, <5>1
        <5>. QED BY <2>2, <3>2, <4>1, <5>1, <5>2
      <4>. QED BY <4>1
    <3>4. m \in HeaderEnds(b) /\ m \in HeaderEnds(stream)
      <4>. HIDE DEF m, b
      <4>. QED BY <1>4, <2>1
    <3>. HIDE DEF m, b
    <3>. QED BY <3>1, <3>3, <3>4, MinSame
  <2>4. Upto(stream, m) = Upto(b, m) /\ Upto(stream, m - 2) = Upto(b, m - 2)
    <3>. HIDE DEF m, b
    <3>. QED BY <1>3, <2>2
  <2>5. late = Verdict(stream)
    <3>. DEFINE k == Min(HeaderEnds(stream))
    <3>1. late = IF Seen(stream, k) THEN Error("protocol")
                 ELSE IF Header(Upto(stream, k - 2), cap).code # "ok" THEN Error(Header(Upto(stream, k - 2), cap).code)
                 ELSE IF Header(Upto(stream, k - 2), cap).n = 0 THEN Error("protocol")
                 ELSE IF ~Arrived(stream, k, Header(Upto(stream, k - 2), cap).n) THEN Busy
                 ELSE [code |-> "ok", text |-> Upto(From(stream, k + 1), Header(Upto(stream, k - 2), cap).n),
                       rest |-> From(stream, k + Header(Upto(stream, k - 2), cap).n + 1)]
      BY <2>3, WithHeader, Zenon
    <3>2. k = m
      BY <2>3
    <3>. HIDE DEF k, m, b, late
    <3>. QED BY <2>4, <3>1, <3>2
  <2>6. h.n \in Nat /\ h.code \in {"ok", "protocol", "tool"}
    <3>1. Upto(b, m - 2) \in Seq(Token)
      <4>. HIDE DEF m, b
      <4>. QED BY <1>2, <2>2, UptoSlice
    <3>2. h \in Told
      <4>. HIDE DEF m, b
      <4>. QED BY <3>1, HeaderTold
    <3>. HIDE DEF h
    <3>. QED BY <3>2 DEF Told
  <2>7. Seen(stream, m) <=> Seen(b, m)
    <3>. HIDE DEF m, b
    <3>. QED BY <2>4
  <2>8. ASSUME Arrived(b, m, h.n)
        PROVE  /\ Arrived(stream, m, h.n)
               /\ Upto(From(b, m + 1), h.n) = Upto(From(stream, m + 1), h.n)
               /\ From(b, m + h.n + 1) \o From(stream, n + 1) = From(stream, m + h.n + 1)
    <3>. DEFINE k == h.n
    <3>1. k \in Nat /\ m + k <= n
      <4>1. k <= Len(b) - m /\ k \in Nat
        BY <2>6, <2>8 DEF Arrived
      <4>. HIDE DEF k, h, m, b
      <4>. QED BY <1>2, <2>2, <4>1
    <3>. HIDE DEF k, m
    <3>2. Arrived(stream, m, k)
      <4>1. k <= Len(stream) - m
        BY <1>1, <1>2, <2>2, <3>1
      <4>. QED BY <4>1 DEF Arrived
    <3>3. /\ Upto(From(b, m + 1), k) = Upto(From(stream, m + 1), k)
          /\ From(b, m + k + 1) \o From(stream, n + 1) = From(stream, m + k + 1)
      BY <2>2, <3>1, PayloadSame
    <3>. QED BY <3>2, <3>3 DEF k
  <2>. HIDE DEF b, m, h, early, late, Seen
  <2>9. CASE Seen(b, m) \/ h.code # "ok" \/ h.n = 0
    <3>1. early = late /\ early.code # "ok"
      <4>1. CASE Seen(b, m)
        BY <1>5, <2>1, <2>5, <2>7, <4>1
      <4>2. CASE ~Seen(b, m) /\ h.code # "ok"
        <5>1. Error(h.code).code = h.code
          BY DEF Error
        <5>. QED BY <2>1, <2>5, <2>7, <4>2, <5>1
      <4>3. CASE ~Seen(b, m) /\ h.code = "ok" /\ h.n = 0
        BY <1>5, <2>1, <2>5, <2>7, <4>3
      <4>. QED BY <2>9, <4>1, <4>2, <4>3
    <3>. QED BY <3>1 DEF early, late, b
  <2>10. CASE ~(Seen(b, m) \/ h.code # "ok" \/ h.n = 0) /\ ~Arrived(b, m, h.n)
    <3>1. early = Busy
      BY <2>1, <2>10
    <3>. QED BY <1>5, <3>1 DEF early, b
  <2>11. CASE ~(Seen(b, m) \/ h.code # "ok" \/ h.n = 0) /\ Arrived(b, m, h.n)
    <3>1. early = [code |-> "ok", text |-> Upto(From(b, m + 1), h.n), rest |-> From(b, m + h.n + 1)]
      BY <2>1, <2>11
    <3>2. late = [code |-> "ok", text |-> Upto(From(stream, m + 1), h.n), rest |-> From(stream, m + h.n + 1)]
      BY <2>5, <2>7, <2>8, <2>11
    <3>3. early.code = late.code /\ early.text = late.text /\ early.rest \o From(stream, n + 1) = late.rest
      BY <2>8, <2>11, <3>1, <3>2
    <3>. QED BY <3>3 DEF early, late, b
  <2>. QED BY <2>9, <2>10, <2>11
<1>. QED BY <1>6, <1>7

-----------------------------------------------------------------------------
(* Sequences of pieces *)

LEMMA Pieces ==
    ASSUME NEW S, NEW b \in Seq(Seq(S))
    PROVE  \E f \in [0..Len(b) -> Seq(S)] :
               /\ f[0] = <<>> /\ \A k \in 1..Len(b) : f[k] = f[k - 1] \o b[k]
               /\ FlattenSeq(b) = f[Len(b)]
<1>. DEFINE n == Len(b)
            step == [k \in 1..n |-> [x \in Seq(S) |-> x \o b[k]]]
            Flat(h) == h = [i \in 1..n |-> IF i = 1 THEN b[i] ELSE h[i - 1] \o b[i]]
            flat == CHOOSE h : Flat(h)
<1>1. n \in Nat /\ \A k \in 1..n : b[k] \in Seq(S)
  BY LenProperties, ElementOfSeq
<1>2. <<>> \in Seq(S) /\ \A x, y \in Seq(S) : x \o y \in Seq(S)
  BY ConcatProperties
<1>3. step \in [1..n -> [Seq(S) -> Seq(S)]] /\ \A k \in 1..n : \A x \in Seq(S) : step[k][x] = x \o b[k]
  <2>. HIDE DEF n
  <2>. QED BY <1>1, <1>2
<1>. HIDE DEF step
<1>4. PICK g : IteratesTo(g, Seq(S), n, <<>>, step)
  BY <1>1, <1>2, <1>3, IterationTo
<1>5. g \in [0..n -> Seq(S)] /\ g = [k \in 0..n |-> IF k = 0 THEN <<>> ELSE step[k][g[k - 1]]]
  BY <1>4 DEF IteratesTo
<1>. HIDE DEF n
<1>6. /\ g[0] = <<>>
      /\ \A k \in 1..n : k \in 0..n /\ k - 1 \in 0..n /\ k # 0 /\ g[k] = g[k - 1] \o b[k]
  <2>1. 0 \in 0..n /\ \A k \in 1..n : k \in 0..n /\ k - 1 \in 0..n /\ k # 0
    BY <1>1
  <2>2. \A k \in 1..n : g[k] = step[k][g[k - 1]] /\ g[k - 1] \in Seq(S)
    BY <1>5, <2>1
  <2>. QED BY <1>3, <1>5, <2>1, <2>2
<1>7. CASE n = 0
  <2>1. b = <<>>
    BY <1>7, EmptySeq DEF n
  <2>2. FlattenSeq(b) = b
    <3>1. Len(b) = 0
      BY <1>7 DEF n
    <3>. QED BY <3>1, Zenon DEF FlattenSeq
  <2>. QED BY <1>5, <1>6, <1>7, <2>1, <2>2 DEF n
<1>8. CASE n # 0
  <2>1. FlattenSeq(b) = flat[n]
    <3>1. Len(b) # 0
      BY <1>8 DEF n
    <3>. QED BY <3>1, Zenon DEF FlattenSeq, n
  <2>2. Flat(flat)
    <3>. DEFINE h == [i \in 1..n |-> g[i]]
    <3>1. \A i \in 1..n : i # 1 => i - 1 \in 1..n
      BY <1>1
    <3>2. \A i \in 1..n : h[i] = IF i = 1 THEN b[i] ELSE h[i - 1] \o b[i]
      <4>1. ASSUME NEW i \in 1..n, i = 1 PROVE h[i] = b[i]
        <5>1. g[i] = g[0] \o b[i] /\ b[i] \in Seq(S)
          <6>1. i - 1 = 0
            BY <4>1
          <6>2. g[i] = g[i - 1] \o b[i]
            BY <1>6
          <6>. QED BY <1>1, <6>1, <6>2
        <5>2. <<>> \o b[i] = b[i]
          BY <5>1, ConcatEmptySeq
        <5>. QED BY <1>6, <5>1, <5>2
      <4>2. ASSUME NEW i \in 1..n, i # 1 PROVE h[i] = h[i - 1] \o b[i]
        BY <1>6, <3>1, <4>2
      <4>. QED BY <4>1, <4>2
    <3>3. Flat(h)
      <4>1. h = [i \in 1..n |-> h[i]]
        OBVIOUS
      <4>. HIDE DEF h
      <4>. QED BY <3>2, <4>1
    <3>. HIDE DEF Flat
    <3>. QED BY <3>3
  <2>. HIDE DEF flat
  <2>. DEFINE U == {k \in Nat : k + 1 <= n => flat[k + 1] = g[k + 1]}
  <2>3. 0 \in U
    <3>1. 1 \in 1..n
      BY <1>1, <1>8
    <3>2. flat[1] = b[1] /\ g[1] = g[0] \o b[1] /\ b[1] \in Seq(S)
      <4>1. 1 - 1 = 0
        OBVIOUS
      <4>2. g[1] = g[1 - 1] \o b[1]
        BY <1>6, <3>1
      <4>3. flat[1] = b[1]
        BY <2>2, <3>1
      <4>. QED BY <1>1, <3>1, <4>1, <4>2, <4>3
    <3>3. <<>> \o b[1] = b[1]
      BY <3>2, ConcatEmptySeq
    <3>. QED BY <1>6, <3>2, <3>3
  <2>4. ASSUME NEW k \in U \cap Nat PROVE k + 1 \in U
    <3>. SUFFICES ASSUME (k + 1) + 1 <= n PROVE flat[(k + 1) + 1] = g[(k + 1) + 1]
      OBVIOUS
    <3>1. (k + 1) + 1 \in 1..n /\ (k + 1) + 1 # 1 /\ ((k + 1) + 1) - 1 = k + 1 /\ flat[k + 1] = g[k + 1]
      BY <1>1
    <3>2. flat[(k + 1) + 1] = flat[k + 1] \o b[(k + 1) + 1]
      BY <2>2, <3>1
    <3>. QED BY <1>6, <3>1, <3>2
  <2>5. Nat \subseteq U
    <3>. HIDE DEF U
    <3>. QED BY <2>3, <2>4, SetInduction
  <2>6. flat[n] = g[n]
    <3>1. n - 1 \in Nat /\ (n - 1) + 1 = n
      BY <1>1, <1>8
    <3>. QED BY <2>5, <3>1
  <2>. QED BY <1>5, <1>6, <2>1, <2>6 DEF n
<1>. QED BY <1>7, <1>8

\* Where each piece ends in the whole.
EndsAt(off, b) ==
    /\ off \in [0..Len(b) -> Nat] /\ off[0] = 0
    /\ \A k \in 1..Len(b) : off[k] = off[k - 1] + Len(b[k])
    /\ Len(FlattenSeq(b)) = off[Len(b)]
    /\ \A k \in 1..Len(b) : \A j \in 1..Len(b[k]) : FlattenSeq(b)[off[k - 1] + j] = b[k][j]

LEMMA Flattened ==
    ASSUME NEW S, NEW b \in Seq(Seq(S))
    PROVE  FlattenSeq(b) \in Seq(S) /\ \E off : EndsAt(off, b)
<1>. DEFINE n == Len(b)
<1>1. n \in Nat /\ \A k \in 1..n : b[k] \in Seq(S) /\ Len(b[k]) \in Nat
  <2>1. n \in Nat /\ \A k \in 1..n : b[k] \in Seq(S)
    BY LenProperties, ElementOfSeq
  <2>. QED BY <2>1, LenProperties
<1>2. PICK f \in [0..n -> Seq(S)] :
          /\ f[0] = <<>> /\ \A k \in 1..n : f[k] = f[k - 1] \o b[k]
          /\ FlattenSeq(b) = f[n]
  BY Pieces
<1>. DEFINE off == [k \in 0..n |-> Len(f[k])]
<1>. HIDE DEF n
<1>3. off \in [0..n -> Nat] /\ off[0] = 0 /\ \A k \in 0..n : off[k] = Len(f[k])
  <2>1. \A k \in 0..n : f[k] \in Seq(S) /\ Len(f[k]) \in Nat
    BY <1>2, LenProperties
  <2>2. 0 \in 0..n /\ Len(<<>>) = 0
    BY <1>1, EmptySeq
  <2>. QED BY <1>2, <2>1, <2>2
<1>. HIDE DEF off
<1>4. ASSUME NEW k \in 1..n
      PROVE  /\ k - 1 \in 0..n /\ k \in 0..n /\ f[k - 1] \in Seq(S)
             /\ off[k] = off[k - 1] + Len(b[k])
             /\ \A i \in 1..off[k] : f[k][i] = IF i <= off[k - 1] THEN f[k - 1][i] ELSE b[k][i - off[k - 1]]
  <2>1. k - 1 \in 0..n /\ k \in 0..n
    BY <1>1
  <2>2. f[k - 1] \in Seq(S) /\ b[k] \in Seq(S) /\ f[k] = f[k - 1] \o b[k]
    BY <1>1, <1>2, <2>1
  <2>3. /\ Len(f[k]) = Len(f[k - 1]) + Len(b[k])
        /\ \A i \in 1..Len(f[k - 1]) + Len(b[k]) :
               f[k][i] = IF i <= Len(f[k - 1]) THEN f[k - 1][i] ELSE b[k][i - Len(f[k - 1])]
    <3>. DEFINE p == f[k - 1]
                q == b[k]
    <3>1. p \in Seq(S) /\ q \in Seq(S) /\ f[k] = p \o q
      BY <2>2
    <3>. HIDE DEF p, q
    <3>2. /\ Len(p \o q) = Len(p) + Len(q)
          /\ \A i \in 1..Len(p) + Len(q) : (p \o q)[i] = IF i <= Len(p) THEN p[i] ELSE q[i - Len(p)]
      BY <3>1, ConcatProperties
    <3>3. /\ Len(f[k]) = Len(p) + Len(q)
          /\ \A i \in 1..Len(p) + Len(q) : f[k][i] = IF i <= Len(p) THEN p[i] ELSE q[i - Len(p)]
      BY <3>1, <3>2
    <3>. QED BY <3>3 DEF p, q
  <2>4. off[k] = Len(f[k]) /\ off[k - 1] = Len(f[k - 1])
    BY <1>3, <2>1
  <2>. QED BY <2>1, <2>2, <2>3, <2>4
<1>. DEFINE Kept(m) == \A k \in 1..m : \A j \in 1..Len(b[k]) :
                           off[k - 1] + j \in 1..off[m] /\ f[m][off[k - 1] + j] = b[k][j]
            U == {m \in Nat : m <= n => Kept(m)}
<1>5. 0 \in U
  OBVIOUS
<1>6. ASSUME NEW m \in U \cap Nat PROVE m + 1 \in U
  <2>. SUFFICES ASSUME m + 1 <= n, NEW k \in 1..m + 1, NEW j \in 1..Len(b[k])
                PROVE  off[k - 1] + j \in 1..off[m + 1] /\ f[m + 1][off[k - 1] + j] = b[k][j]
    OBVIOUS
  <2>1. m + 1 \in 1..n /\ (m + 1) - 1 = m /\ m <= n /\ m \in 0..n /\ Kept(m) /\ k \in 1..n
    BY <1>1
  <2>2. /\ off[m + 1] = off[m] + Len(b[m + 1])
        /\ \A i \in 1..off[m + 1] : f[m + 1][i] = IF i <= off[m] THEN f[m][i] ELSE b[m + 1][i - off[m]]
    BY <1>4, <2>1
  <2>3. off[m] \in Nat /\ Len(b[m + 1]) \in Nat
    BY <1>1, <1>3, <2>1
  <2>4. CASE k <= m
    <3>1. k \in 1..m
      BY <2>4
    <3>2. off[k - 1] + j \in 1..off[m] /\ f[m][off[k - 1] + j] = b[k][j]
      BY <2>1, <3>1
    <3>3. off[k - 1] + j \in 1..off[m + 1] /\ off[k - 1] + j <= off[m]
      BY <2>2, <2>3, <3>2
    <3>. QED BY <2>2, <3>2, <3>3
  <2>5. CASE k = m + 1
    <3>1. k - 1 = m /\ j \in Nat /\ j >= 1 /\ j <= Len(b[m + 1])
      BY <2>3, <2>5
    <3>2. off[m] + j \in 1..off[m + 1] /\ ~(off[m] + j <= off[m]) /\ (off[m] + j) - off[m] = j
      <4>1. ASSUME NEW x \in Nat, NEW y \in Nat, y >= 1, NEW z \in Nat, y <= z
            PROVE  x + y \in 1..x + z /\ ~(x + y <= x) /\ (x + y) - x = y
        BY <4>1
      <4>. QED BY <2>2, <2>3, <3>1, <4>1
    <3>. QED BY <2>2, <2>5, <3>1, <3>2
  <2>6. k <= m \/ k = m + 1
    OBVIOUS
  <2>. QED BY <2>4, <2>5, <2>6
<1>7. Nat \subseteq U
  <2>. HIDE DEF U
  <2>. QED BY <1>5, <1>6, SetInduction
<1>8. Kept(n)
  BY <1>1, <1>7
<1>9. n \in 0..n
  BY <1>1
<1>10. FlattenSeq(b) \in Seq(S) /\ Len(FlattenSeq(b)) = off[n]
  BY <1>2, <1>3, <1>9
<1>11. EndsAt(off, b)
  BY <1>2, <1>3, <1>4, <1>8, <1>10 DEF n, EndsAt
<1>. QED BY <1>10, <1>11

\* Pieces of one length, but for the last one.
LEMMA Blocks ==
    ASSUME NEW S, NEW b \in Seq(Seq(S)), NEW w \in Nat \ {0},
           \A k \in 1..Len(b) : k < Len(b) => Len(b[k]) = w
    PROVE  /\ FlattenSeq(b) \in Seq(S)
           /\ Len(FlattenSeq(b)) = IF Len(b) = 0 THEN 0 ELSE w * (Len(b) - 1) + Len(b[Len(b)])
           /\ \A k \in 1..Len(b) : \A j \in 1..Len(b[k]) : FlattenSeq(b)[w * (k - 1) + j] = b[k][j]
<1>. DEFINE n == Len(b)
<1>1. n \in Nat
  BY LenProperties
<1>2. PICK off : EndsAt(off, b)
  BY Flattened
<1>3. /\ off \in [0..n -> Nat]
      /\ off[0] = 0 /\ \A k \in 1..n : off[k] = off[k - 1] + Len(b[k])
      /\ FlattenSeq(b) \in Seq(S) /\ Len(FlattenSeq(b)) = off[n]
      /\ \A k \in 1..n : \A j \in 1..Len(b[k]) : FlattenSeq(b)[off[k - 1] + j] = b[k][j]
  BY <1>2, Flattened DEF EndsAt
<1>. HIDE DEF n
<1>. DEFINE U == {k \in Nat : k < n => off[k] = w * k}
<1>4. 0 \in U
  BY <1>3
<1>5. ASSUME NEW k \in U \cap Nat PROVE k + 1 \in U
  <2>1. k + 1 < n => k + 1 \in 1..n /\ (k + 1) - 1 = k /\ off[k] = w * k
    BY <1>1
  <2>2. w * (k + 1) = w * k + w
    OBVIOUS
  <2>3. k + 1 < n => Len(b[k + 1]) = w
    BY <2>1 DEF n
  <2>. QED BY <1>3, <2>1, <2>2, <2>3
<1>6. Nat \subseteq U
  <2>. HIDE DEF U
  <2>. QED BY <1>4, <1>5, SetInduction
<1>7. \A k \in 1..n : k - 1 \in Nat /\ k - 1 < n /\ off[k - 1] = w * (k - 1)
  BY <1>1, <1>6
<1>8. Len(FlattenSeq(b)) = IF n = 0 THEN 0 ELSE w * (n - 1) + Len(b[n])
  <2>1. n # 0 => n \in 1..n
    BY <1>1
  <2>. QED BY <1>3, <1>7, <2>1
<1>. QED BY <1>3, <1>7, <1>8 DEF n

-----------------------------------------------------------------------------
(* Base64 *)

Byte == 0..255
Sextet == 0..63
Word == {v \in Nat : v < 16777216}          \* 24 bits

LEMMA Division ==
    ASSUME NEW u \in Nat \ {0}, NEW q \in Nat, NEW r \in 0..u - 1
    PROVE  (u * q + r) \div u = q /\ (u * q + r) % u = r
<1>. DEFINE x == u * q + r
            p == x \div u
            m == x % u
<1>1. x \in Nat
  <2>1. u * q \in Nat
    OBVIOUS
  <2>. QED BY <2>1
<1>. HIDE DEF x
<1>2. p \in Nat
  BY <1>1
<1>3. m \in 0..u - 1
  BY <1>1
<1>4. x = u * p + m
  BY <1>1
<1>. HIDE DEF p, m
<1>5. x = u * q + r
  BY DEF x
<1>6. ASSUME p > q PROVE FALSE
  <2>1. u * p >= u * (q + 1) /\ u * (q + 1) = u * q + u
    BY <1>2, <1>6
  <2>. QED BY <1>2, <1>3, <1>4, <1>5, <2>1
<1>7. ASSUME p < q PROVE FALSE
  <2>1. u * q >= u * (p + 1) /\ u * (p + 1) = u * p + u
    BY <1>2, <1>7
  <2>. QED BY <1>2, <1>3, <1>4, <1>5, <2>1
<1>8. p = q
  BY <1>2, <1>6, <1>7
<1>9. m = r
  <2>1. u * p = u * q /\ u * p \in Nat
    BY <1>2, <1>8
  <2>. QED BY <1>3, <1>4, <1>5, <1>8, <2>1
<1>. QED BY <1>8, <1>9 DEF p, m, x

LEMMA Divided ==
    ASSUME NEW u \in Nat \ {0}, NEW x \in Nat
    PROVE  x \div u \in Nat /\ x % u \in 0..u - 1 /\ x = u * (x \div u) + (x % u)
<1>1. x \div u \in Nat
  OBVIOUS
<1>2. x % u \in 0..u - 1
  OBVIOUS
<1>3. x = u * (x \div u) + (x % u)
  OBVIOUS
<1>. QED BY <1>1, <1>2, <1>3

\* x is q times u and r.
Splits(x, u, q, r) == q \in Nat /\ r \in Nat /\ r < u /\ x = u * q + r

LEMMA Split ==
    \A x, q, r : \A u \in Nat \ {0} : Splits(x, u, q, r) => x \div u = q /\ x % u = r
<1>. SUFFICES ASSUME NEW x, NEW q, NEW r, NEW u \in Nat \ {0}, Splits(x, u, q, r)
              PROVE  x \div u = q /\ x % u = r
  OBVIOUS
<1>1. q \in Nat /\ r \in 0..u - 1 /\ x = u * q + r
  BY DEF Splits
<1>. QED BY <1>1, Division

LEMMA Parted ==
    \A x \in Nat : \A u \in Nat \ {0} : \E q, r : Splits(x, u, q, r) /\ x \div u = q /\ x % u = r
<1>. SUFFICES ASSUME NEW x \in Nat, NEW u \in Nat \ {0}
              PROVE  Splits(x, u, x \div u, x % u)
  OBVIOUS
<1>1. x \div u \in Nat /\ x % u \in 0..u - 1 /\ x = u * (x \div u) + (x % u)
  BY Divided
<1>2. x % u \in Nat /\ x % u < u
  <2>1. \A m \in 0..u - 1 : m \in Nat /\ m < u
    OBVIOUS
  <2>. QED BY <1>1, <2>1
<1>. QED BY <1>1, <1>2 DEF Splits

\* The three bytes of 24 bits, and the bits of four symbols.
High(v) == v \div 65536
Mid(v) == (v \div 256) % 256
Low(v) == v % 256
Four(x, y, z, w) == 262144 * x + 4096 * y + 64 * z + w

LEMMA InByte == \A a : a \in Byte <=> a \in Nat /\ a < 256
BY SMT DEF Byte

LEMMA InSextet == \A a : a \in Sextet <=> a \in Nat /\ a < 64
BY SMT DEF Sextet

LEMMA TripleBytes ==
    ASSUME NEW a \in Byte, NEW b \in Byte, NEW c \in Byte
    PROVE  High(Triple(a, b, c)) = a /\ Mid(Triple(a, b, c)) = b /\ Low(Triple(a, b, c)) = c
<1>1. a \in Nat /\ b \in Nat /\ c \in Nat /\ a < 256 /\ b < 256 /\ c < 256
  BY InByte
<1>. DEFINE v == Triple(a, b, c)
            p == 256 * a + b
<1>2. Splits(v, 65536, a, 256 * b + c)
  BY SMT, <1>1 DEF Splits, Triple
<1>3. Splits(v, 256, p, c)
  BY SMT, <1>1 DEF Splits, Triple
<1>4. Splits(p, 256, a, b)
  BY SMT, <1>1 DEF Splits
<1>. HIDE DEF v, p
<1>5. v \div 65536 = a /\ v \div 256 = p /\ v % 256 = c /\ p % 256 = b
  <2>1. 65536 \in Nat \ {0} /\ 256 \in Nat \ {0}
    BY SMT
  <2>. QED BY SMT, <1>2, <1>3, <1>4, <2>1, Split
<1>. QED BY SMT, <1>5 DEF v, High, Mid, Low

LEMMA FourSymbols ==
    ASSUME NEW x \in Sextet, NEW y \in Sextet, NEW z \in Sextet, NEW w \in Sextet
    PROVE  Symbols(Four(x, y, z, w)) = <<x, y, z, w>>
<1>1. /\ x \in Nat /\ y \in Nat /\ z \in Nat /\ w \in Nat
      /\ x < 64 /\ y < 64 /\ z < 64 /\ w < 64
  BY InSextet
<1>. DEFINE v == Four(x, y, z, w)
            p == 64 * x + y
            q == 64 * p + z
<1>2. Splits(v, 262144, x, 4096 * y + 64 * z + w)
  BY SMT, <1>1 DEF Splits, Four
<1>3. Splits(v, 4096, p, 64 * z + w)
  BY SMT, <1>1 DEF Splits, Four
<1>4. Splits(v, 64, q, w)
  BY SMT, <1>1 DEF Splits, Four
<1>5. Splits(p, 64, x, y) /\ Splits(q, 64, p, z)
  BY SMT, <1>1 DEF Splits
<1>. HIDE DEF v, p, q
<1>6. 262144 \in Nat \ {0} /\ 4096 \in Nat \ {0} /\ 64 \in Nat \ {0}
  BY SMT
<1>7. v \div 262144 = x /\ v \div 4096 = p /\ v \div 64 = q /\ v % 64 = w /\ p % 64 = y /\ q % 64 = z
  BY SMT, <1>2, <1>3, <1>4, <1>5, <1>6, Split
<1>. QED BY SMT, <1>7 DEF v, Symbols

\* 24 bits are three bytes, and four symbols.
LEMMA ThreeBytes ==
    ASSUME NEW v \in Word
    PROVE  /\ High(v) \in Byte /\ Mid(v) \in Byte /\ Low(v) \in Byte
           /\ Triple(High(v), Mid(v), Low(v)) = v
<1>. v \in Nat
  BY DEF Word
<1>0. v < 16777216
  BY SMT DEF Word
<1>1. 256 \in Nat \ {0}
  OBVIOUS
<1>2. PICK p, c : Splits(v, 256, p, c)
  BY <1>1, Parted
<1>3. p \in Nat /\ c \in Nat /\ c < 256 /\ v = 256 * p + c
  BY SMT, <1>2 DEF Splits
<1>4. PICK a, b : Splits(p, 256, a, b)
  BY <1>1, <1>3, Parted
<1>5. a \in Nat /\ b \in Nat /\ b < 256 /\ p = 256 * a + b
  BY SMT, <1>4 DEF Splits
<1>6. a < 256 /\ v = 65536 * a + 256 * b + c
  BY SMT, <1>0, <1>3, <1>5
<1>7. a \in Byte /\ b \in Byte /\ c \in Byte
  BY <1>3, <1>5, <1>6, InByte
<1>8. v = Triple(a, b, c)
  BY SMT, <1>6 DEF Triple
<1>. QED BY <1>7, <1>8, TripleBytes

LEMMA FourOf ==
    ASSUME NEW v \in Word
    PROVE  \E x, y, z, w \in Sextet : v = Four(x, y, z, w)
<1>. v \in Nat
  BY DEF Word
<1>0. v < 16777216
  BY SMT DEF Word
<1>1. 64 \in Nat \ {0}
  OBVIOUS
<1>2. PICK p, w : Splits(v, 64, p, w)
  BY <1>1, Parted
<1>3. p \in Nat /\ w \in Nat /\ w < 64 /\ v = 64 * p + w
  BY SMT, <1>2 DEF Splits
<1>4. PICK q, z : Splits(p, 64, q, z)
  BY <1>1, <1>3, Parted
<1>5. q \in Nat /\ z \in Nat /\ z < 64 /\ p = 64 * q + z
  BY SMT, <1>4 DEF Splits
<1>6. PICK x, y : Splits(q, 64, x, y)
  BY <1>1, <1>5, Parted
<1>7. x \in Nat /\ y \in Nat /\ y < 64 /\ q = 64 * x + y
  BY SMT, <1>6 DEF Splits
<1>8. x < 64 /\ v = 262144 * x + 4096 * y + 64 * z + w
  BY SMT, <1>0, <1>3, <1>5, <1>7
<1>9. x \in Sextet /\ y \in Sextet /\ z \in Sextet /\ w \in Sextet
  BY <1>3, <1>5, <1>7, <1>8, InSextet
<1>10. v = Four(x, y, z, w)
  BY SMT, <1>8 DEF Four
<1>. QED BY <1>9, <1>10

LEMMA TripleBelow ==
    ASSUME NEW a \in Byte, NEW b \in Byte, NEW c \in Byte
    PROVE  Triple(a, b, c) \in Word
<1>1. a \in Nat /\ b \in Nat /\ c \in Nat /\ a < 256 /\ b < 256 /\ c < 256
  BY InByte
<1>. QED BY SMT, <1>1 DEF Triple, Word

LEMMA FourBelow ==
    ASSUME NEW x \in Sextet, NEW y \in Sextet, NEW z \in Sextet, NEW w \in Sextet
    PROVE  Four(x, y, z, w) \in Word
<1>1. /\ x \in Nat /\ y \in Nat /\ z \in Nat /\ w \in Nat
      /\ x < 64 /\ y < 64 /\ z < 64 /\ w < 64
  BY InSextet
<1>. QED BY SMT, <1>1 DEF Four, Word

\* The bits a last symbol has to spare are zero exactly when the bytes that are not
\* there are.
LEMMA SpareBits ==
    ASSUME NEW x \in Sextet, NEW y \in Sextet, NEW z \in Sextet, NEW w \in Sextet
    PROVE  LET v == Four(x, y, z, w)
           IN /\ (Low(v) = 0) <=> (w = 0 /\ z % 4 = 0)
              /\ (Low(v) = 0 /\ Mid(v) = 0) <=> (w = 0 /\ z = 0 /\ y % 16 = 0)
<1>1. /\ x \in Nat /\ y \in Nat /\ z \in Nat /\ w \in Nat
      /\ x < 64 /\ y < 64 /\ z < 64 /\ w < 64
  BY InSextet
<1>2. 4 \in Nat \ {0} /\ 16 \in Nat \ {0} /\ 256 \in Nat \ {0}
  BY SMT
<1>3. PICK s, t : Splits(z, 4, s, t) /\ z % 4 = t
  BY SMT, <1>1, <1>2, Parted
<1>4. PICK m, n : Splits(y, 16, m, n) /\ y % 16 = n
  BY SMT, <1>1, <1>2, Parted
<1>5. s \in Nat /\ t \in Nat /\ t < 4 /\ z = 4 * s + t /\ m \in Nat /\ n \in Nat /\ n < 16 /\ y = 16 * m + n
  BY SMT, <1>3, <1>4 DEF Splits
<1>. DEFINE v == Four(x, y, z, w)
            p == 1024 * x + 16 * y + s
            r == 64 * t + w
            k == 16 * n + s
<1>6. Splits(v, 256, p, r)
  BY SMT, <1>1, <1>5 DEF Splits, Four
<1>7. Splits(p, 256, 4 * x + m, k)
  BY SMT, <1>1, <1>5 DEF Splits
<1>8. (r = 0 <=> t = 0 /\ w = 0) /\ (k = 0 <=> n = 0 /\ s = 0) /\ (z = 0 <=> s = 0 /\ t = 0)
  BY SMT, <1>1, <1>5
<1>. HIDE DEF v, p, r, k
<1>9. v \div 256 = p /\ v % 256 = r /\ p % 256 = k
  BY SMT, <1>2, <1>6, <1>7, Split
<1>10. Low(v) = r /\ Mid(v) = k
  BY SMT, <1>9 DEF Low, Mid
<1>11. /\ (Low(v) = 0) <=> (w = 0 /\ z % 4 = 0)
       /\ (Low(v) = 0 /\ Mid(v) = 0) <=> (w = 0 /\ z = 0 /\ y % 16 = 0)
  BY <1>3, <1>4, <1>8, <1>10
<1>. QED BY <1>11 DEF v

\* Byte i of d, zero behind its end, and the 24 bits of its k-th three bytes.
ByteAt(d, i) == IF i <= Len(d) THEN d[i] ELSE 0
Bits(d, k) == Triple(ByteAt(d, 3 * k - 2), ByteAt(d, 3 * k - 1), ByteAt(d, 3 * k))

\* Symbols 4k - 3 to 4k of e say the bits, with Pad for the bytes that are not there.
Quadruple(d, e, k, x, y, z, w) ==
    /\ Bits(d, k) = Four(x, y, z, w)
    /\ e[4 * k - 3] = x /\ e[4 * k - 2] = y
    /\ e[4 * k - 1] = (IF 3 * k - 1 <= Len(d) THEN z ELSE Pad)
    /\ e[4 * k] = (IF 3 * k <= Len(d) THEN w ELSE Pad)

\* e is the text of d, in g quadruples.
Coded(d, e, g) ==
    /\ Len(e) = 4 * g /\ Len(d) <= 3 * g /\ (g > 0 => Len(d) > 3 * g - 3)
    /\ \A k \in 1..g : \E x, y, z, w \in Sextet : Quadruple(d, e, k, x, y, z, w)

LEMMA BitsFit ==
    ASSUME NEW d \in Seq(Byte), NEW k \in Nat \ {0}
    PROVE  /\ ByteAt(d, 3 * k - 2) \in Byte /\ ByteAt(d, 3 * k - 1) \in Byte /\ ByteAt(d, 3 * k) \in Byte
           /\ Bits(d, k) \in Word
           /\ High(Bits(d, k)) = ByteAt(d, 3 * k - 2)
           /\ Mid(Bits(d, k)) = ByteAt(d, 3 * k - 1)
           /\ Low(Bits(d, k)) = ByteAt(d, 3 * k)
<1>1. Len(d) \in Nat /\ \A i \in 1..Len(d) : d[i] \in Byte
  BY LenProperties, ElementOfSeq
<1>2. 0 \in Byte
  BY InByte
<1>3. \A i \in Nat \ {0} : ByteAt(d, i) \in Byte
  BY <1>1, <1>2 DEF ByteAt
<1>4. 3 * k - 2 \in Nat \ {0} /\ 3 * k - 1 \in Nat \ {0} /\ 3 * k \in Nat \ {0}
  OBVIOUS
<1>5. ByteAt(d, 3 * k - 2) \in Byte /\ ByteAt(d, 3 * k - 1) \in Byte /\ ByteAt(d, 3 * k) \in Byte
  BY <1>3, <1>4
<1>6. Bits(d, k) \in Word
  BY <1>5, TripleBelow DEF Bits
<1>7. /\ High(Bits(d, k)) = ByteAt(d, 3 * k - 2)
      /\ Mid(Bits(d, k)) = ByteAt(d, 3 * k - 1)
      /\ Low(Bits(d, k)) = ByteAt(d, 3 * k)
  BY <1>5, TripleBytes DEF Bits
<1>. QED BY <1>5, <1>6, <1>7

\* What is not there has no bits.
LEMMA SpareZero ==
    ASSUME NEW d \in Seq(Byte), NEW k \in Nat \ {0},
           NEW x \in Sextet, NEW y \in Sextet, NEW z \in Sextet, NEW w \in Sextet,
           Bits(d, k) = Four(x, y, z, w)
    PROVE  /\ 3 * k > Len(d) => w = 0 /\ z % 4 = 0
           /\ 3 * k - 1 > Len(d) => w = 0 /\ z = 0 /\ y % 16 = 0
<1>1. Len(d) \in Nat
  BY LenProperties
<1>2. Mid(Bits(d, k)) = ByteAt(d, 3 * k - 1) /\ Low(Bits(d, k)) = ByteAt(d, 3 * k)
  BY BitsFit
<1>3. 3 * k > Len(d) => ~(3 * k <= Len(d))
  BY <1>1
<1>4. 3 * k - 1 > Len(d) => ~(3 * k - 1 <= Len(d)) /\ ~(3 * k <= Len(d))
  BY <1>1
<1>5. /\ 3 * k > Len(d) => Low(Four(x, y, z, w)) = 0
      /\ 3 * k - 1 > Len(d) => Mid(Four(x, y, z, w)) = 0 /\ Low(Four(x, y, z, w)) = 0
  BY <1>2, <1>3, <1>4 DEF ByteAt
<1>. QED BY <1>5, SpareBits

\* A text has one meaning.
LEMMA CodedOnce ==
    ASSUME NEW d \in Seq(Byte), NEW f \in Seq(Byte), NEW e, NEW g \in Nat, NEW h \in Nat,
           Coded(d, e, g), Coded(f, e, h)
    PROVE  d = f
<1>1. Len(d) \in Nat /\ Len(f) \in Nat
  BY LenProperties
<1>2. g = h
  BY DEF Coded
<1>3. ASSUME NEW k \in 1..g
      PROVE  /\ 3 * k - 1 <= Len(d) <=> 3 * k - 1 <= Len(f)
             /\ 3 * k <= Len(d) <=> 3 * k <= Len(f)
             /\ Bits(d, k) = Bits(f, k)
  <2>1. PICK x \in Sextet, y \in Sextet, z \in Sextet, w \in Sextet : Quadruple(d, e, k, x, y, z, w)
    BY DEF Coded
  <2>2. PICK p \in Sextet, q \in Sextet, r \in Sextet, s \in Sextet : Quadruple(f, e, k, p, q, r, s)
    BY <1>2 DEF Coded
  <2>3. Pad \notin Sextet
    BY InSextet DEF Pad
  <2>4. x = p /\ y = q
    BY <2>1, <2>2 DEF Quadruple
  <2>5. /\ (3 * k - 1 <= Len(d)) <=> (3 * k - 1 <= Len(f))
        /\ (3 * k <= Len(d)) <=> (3 * k <= Len(f))
    BY <2>1, <2>2, <2>3 DEF Quadruple
  <2>6. k \in Nat \ {0}
    OBVIOUS
  <2>7. Bits(d, k) = Four(x, y, z, w) /\ Bits(f, k) = Four(p, q, r, s)
    BY <2>1, <2>2 DEF Quadruple
  <2>8. z = r
    <3>1. CASE 3 * k - 1 <= Len(d)
      BY <2>1, <2>2, <2>5, <3>1 DEF Quadruple
    <3>2. CASE ~(3 * k - 1 <= Len(d))
      <4>1. 3 * k - 1 > Len(d) /\ 3 * k - 1 > Len(f)
        BY <1>1, <2>5, <3>2
      <4>2. z = 0
        BY <2>6, <2>7, <4>1, SpareZero
      <4>3. r = 0
        BY <2>6, <2>7, <4>1, SpareZero
      <4>. QED BY <4>2, <4>3
    <3>. QED BY <3>1, <3>2
  <2>9. w = s
    <3>1. CASE 3 * k <= Len(d)
      BY <2>1, <2>2, <2>5, <3>1 DEF Quadruple
    <3>2. CASE ~(3 * k <= Len(d))
      <4>1. 3 * k > Len(d) /\ 3 * k > Len(f)
        BY <1>1, <2>5, <3>2
      <4>2. w = 0
        BY <2>6, <2>7, <4>1, SpareZero
      <4>3. s = 0
        BY <2>6, <2>7, <4>1, SpareZero
      <4>. QED BY <4>2, <4>3
    <3>. QED BY <3>1, <3>2
  <2>. QED BY <2>4, <2>5, <2>7, <2>8, <2>9
<1>4. Len(d) <= 3 * g /\ (g > 0 => Len(d) > 3 * g - 3) /\ Len(f) <= 3 * g /\ (g > 0 => Len(f) > 3 * g - 3)
  BY <1>2 DEF Coded
<1>5. Len(d) = Len(f)
  <2>1. CASE g = 0
    BY <1>1, <1>4, <2>1
  <2>2. CASE g # 0
    <3>1. g \in 1..g
      BY <2>2
    <3>2. /\ (3 * g - 1 <= Len(d)) <=> (3 * g - 1 <= Len(f))
          /\ (3 * g <= Len(d)) <=> (3 * g <= Len(f))
      BY <1>3, <3>1
    <3>. QED BY <1>1, <1>4, <2>2, <3>2
  <2>. QED BY <2>1, <2>2
<1>6. ASSUME NEW i \in 1..Len(d) PROVE d[i] = f[i]
  <2>1. PICK k \in Nat \ {0} : i = 3 * k - 2 \/ i = 3 * k - 1 \/ i = 3 * k
    <3>1. i + 2 \in Nat /\ 3 \in Nat \ {0}
      BY <1>1
    <3>2. PICK q, r : Splits(i + 2, 3, q, r)
      BY <3>1, Parted
    <3>3. q \in Nat /\ r \in Nat /\ r < 3 /\ i + 2 = 3 * q + r
      BY <3>2 DEF Splits
    <3>4. q # 0 /\ (i = 3 * q - 2 \/ i = 3 * q - 1 \/ i = 3 * q)
      BY <1>1, <3>3
    <3>. QED BY <3>3, <3>4
  <2>2. k \in 1..g /\ i <= Len(d) /\ i <= Len(f)
    BY <1>1, <1>4, <1>5, <2>1
  <2>3. Bits(d, k) = Bits(f, k)
    BY <1>3, <2>2
  <2>4. /\ ByteAt(d, 3 * k - 2) = ByteAt(f, 3 * k - 2)
        /\ ByteAt(d, 3 * k - 1) = ByteAt(f, 3 * k - 1)
        /\ ByteAt(d, 3 * k) = ByteAt(f, 3 * k)
    <3>1. /\ High(Bits(d, k)) = ByteAt(d, 3 * k - 2)
          /\ Mid(Bits(d, k)) = ByteAt(d, 3 * k - 1)
          /\ Low(Bits(d, k)) = ByteAt(d, 3 * k)
      BY BitsFit
    <3>2. /\ High(Bits(f, k)) = ByteAt(f, 3 * k - 2)
          /\ Mid(Bits(f, k)) = ByteAt(f, 3 * k - 1)
          /\ Low(Bits(f, k)) = ByteAt(f, 3 * k)
      BY BitsFit
    <3>. QED BY <2>3, <3>1, <3>2
  <2>5. ByteAt(d, i) = ByteAt(f, i)
    BY <2>1, <2>4
  <2>. QED BY <2>2, <2>5 DEF ByteAt
<1>. QED BY <1>5, <1>6, SeqEqual

\* And bytes have one text.
LEMMA CodedAlike ==
    ASSUME NEW S, NEW d \in Seq(Byte), NEW e \in Seq(S), NEW t \in Seq(S), NEW g \in Nat, NEW h \in Nat,
           Coded(d, e, g), Coded(d, t, h)
    PROVE  e = t
<1>1. Len(d) \in Nat /\ Len(e) \in Nat /\ Len(t) \in Nat
  BY LenProperties
<1>2. g = h /\ Len(e) = Len(t) /\ Len(e) = 4 * g
  <2>1. /\ Len(e) = 4 * g /\ Len(d) <= 3 * g /\ (g > 0 => Len(d) > 3 * g - 3)
        /\ Len(t) = 4 * h /\ Len(d) <= 3 * h /\ (h > 0 => Len(d) > 3 * h - 3)
    BY DEF Coded
  <2>2. g = h
    BY <1>1, <2>1
  <2>. QED BY <2>1, <2>2
<1>3. ASSUME NEW k \in 1..g
      PROVE  e[4 * k - 3] = t[4 * k - 3] /\ e[4 * k - 2] = t[4 * k - 2] /\ e[4 * k - 1] = t[4 * k - 1] /\ e[4 * k] = t[4 * k]
  <2>1. PICK x \in Sextet, y \in Sextet, z \in Sextet, w \in Sextet : Quadruple(d, e, k, x, y, z, w)
    BY DEF Coded
  <2>2. PICK p \in Sextet, q \in Sextet, r \in Sextet, s \in Sextet : Quadruple(d, t, k, p, q, r, s)
    BY <1>2 DEF Coded
  <2>3. Four(x, y, z, w) = Four(p, q, r, s)
    BY <2>1, <2>2 DEF Quadruple
  <2>4. Symbols(Four(x, y, z, w)) = <<x, y, z, w>>
    BY FourSymbols
  <2>5. Symbols(Four(p, q, r, s)) = <<p, q, r, s>>
    BY FourSymbols
  <2>6. x = p /\ y = q /\ z = r /\ w = s
    BY <2>3, <2>4, <2>5
  <2>. QED BY <2>1, <2>2, <2>6 DEF Quadruple
<1>4. ASSUME NEW i \in 1..Len(e) PROVE e[i] = t[i]
  <2>1. PICK k \in Nat \ {0} : i = 4 * k - 3 \/ i = 4 * k - 2 \/ i = 4 * k - 1 \/ i = 4 * k
    <3>1. i + 3 \in Nat /\ 4 \in Nat \ {0}
      BY <1>1
    <3>2. PICK q, r : Splits(i + 3, 4, q, r)
      BY <3>1, Parted
    <3>3. q \in Nat /\ r \in Nat /\ r < 4 /\ i + 3 = 4 * q + r
      BY <3>2 DEF Splits
    <3>4. q # 0 /\ (i = 4 * q - 3 \/ i = 4 * q - 2 \/ i = 4 * q - 1 \/ i = 4 * q)
      BY <1>1, <3>3
    <3>. QED BY <3>3, <3>4
  <2>2. k \in 1..g
    BY <1>1, <1>2, <2>1
  <2>. QED BY <1>3, <2>1, <2>2
<1>. QED BY <1>2, <1>4, SeqEqual

LEMMA Joined ==
    ASSUME NEW S, NEW p \in Seq(S), NEW q \in Seq(S), NEW r \in Seq(S), Len(r) = Len(p) + Len(q),
           \A i \in 1..Len(p) : r[i] = p[i],
           \A i \in 1..Len(q) : r[Len(p) + i] = q[i]
    PROVE  p \o q = r
<1>1. /\ p \o q \in Seq(S) /\ Len(p \o q) = Len(p) + Len(q)
      /\ \A i \in 1..Len(p) + Len(q) : (p \o q)[i] = IF i <= Len(p) THEN p[i] ELSE q[i - Len(p)]
  BY ConcatProperties
<1>2. Len(p) \in Nat /\ Len(q) \in Nat
  BY LenProperties
<1>3. ASSUME NEW i \in 1..Len(p) + Len(q) PROVE (p \o q)[i] = r[i]
  <2>1. CASE i <= Len(p)
    BY <1>1, <1>2, <2>1
  <2>2. CASE i > Len(p)
    <3>1. i - Len(p) \in 1..Len(q) /\ Len(p) + (i - Len(p)) = i /\ ~(i <= Len(p))
      BY <1>2, <2>2
    <3>2. r[Len(p) + (i - Len(p))] = q[i - Len(p)]
      BY <3>1
    <3>. QED BY <1>1, <3>1, <3>2
  <2>. QED BY <1>2, <2>1, <2>2
<1>. DEFINE s == p \o q
<1>4. s \in Seq(S) /\ r \in Seq(S) /\ Len(s) = Len(r) /\ \A i \in 1..Len(s) : s[i] = r[i]
  BY <1>1, <1>3
<1>. HIDE DEF s
<1>5. s = r
  BY <1>4, SeqEqual
<1>. QED BY <1>5 DEF s

LEMMA Upto4 ==
    ASSUME NEW a, NEW b, NEW c, NEW e
    PROVE  /\ Upto(<<a, b, c, e>>, 2) \o <<Pad, Pad>> = <<a, b, Pad, Pad>>
           /\ Upto(<<a, b, c, e>>, 3) \o <<Pad>> = <<a, b, c, Pad>>
<1>. DEFINE S == {a, b, c, e, Pad}
            s == <<a, b, c, e>>
<1>1. s \in Seq(S) /\ Len(s) = 4 /\ s[1] = a /\ s[2] = b /\ s[3] = c
  OBVIOUS
<1>2. Upto(s, 2) = <<a, b>>
  <2>1. <<a, b>> \in Seq(S) /\ Len(<<a, b>>) = 2 /\ \A i \in 1..2 : <<a, b>>[i] = s[i]
    OBVIOUS
  <2>. HIDE DEF s, S
  <2>2. 2 \in Nat /\ 2 < Len(s)
    BY <1>1
  <2>3. Upto(s, 2) \in Seq(S) /\ Len(Upto(s, 2)) = 2 /\ \A i \in 1..2 : Upto(s, 2)[i] = s[i]
    BY <1>1, <2>2, UptoSlice
  <2>. DEFINE p == Upto(s, 2)
              q == <<a, b>>
  <2>4. p \in Seq(S) /\ q \in Seq(S) /\ Len(p) = Len(q) /\ \A i \in 1..Len(p) : p[i] = q[i]
    BY <2>1, <2>3
  <2>. HIDE DEF p, q
  <2>5. p = q
    BY <2>4, SeqEqual
  <2>. QED BY <2>5 DEF p, q
<1>3. Upto(s, 3) = <<a, b, c>>
  <2>1. <<a, b, c>> \in Seq(S) /\ Len(<<a, b, c>>) = 3 /\ \A i \in 1..3 : <<a, b, c>>[i] = s[i]
    OBVIOUS
  <2>. HIDE DEF s, S
  <2>2. 3 \in Nat /\ 3 < Len(s)
    BY <1>1
  <2>3. Upto(s, 3) \in Seq(S) /\ Len(Upto(s, 3)) = 3 /\ \A i \in 1..3 : Upto(s, 3)[i] = s[i]
    BY <1>1, <2>2, UptoSlice
  <2>. DEFINE p == Upto(s, 3)
              q == <<a, b, c>>
  <2>4. p \in Seq(S) /\ q \in Seq(S) /\ Len(p) = Len(q) /\ \A i \in 1..Len(p) : p[i] = q[i]
    BY <2>1, <2>3
  <2>. HIDE DEF p, q
  <2>5. p = q
    BY <2>4, SeqEqual
  <2>. QED BY <2>5 DEF p, q
<1>4. <<a, b>> \o <<Pad, Pad>> = <<a, b, Pad, Pad>>
  <2>. DEFINE p == <<a, b>>
              q == <<Pad, Pad>>
              r == <<a, b, Pad, Pad>>
  <2>1. /\ p \in Seq(S) /\ q \in Seq(S) /\ r \in Seq(S) /\ Len(p) = 2 /\ Len(q) = 2 /\ Len(r) = 4
        /\ r[1] = p[1] /\ r[2] = p[2] /\ r[2 + 1] = q[1] /\ r[2 + 2] = q[2]
    OBVIOUS
  <2>. HIDE DEF p, q, r, S
  <2>2. Len(r) = Len(p) + Len(q) /\ (\A i \in 1..Len(p) : r[i] = p[i]) /\ \A i \in 1..Len(q) : r[Len(p) + i] = q[i]
    BY <2>1
  <2>3. p \o q = r
    BY <2>1, <2>2, Joined
  <2>. QED BY <2>3 DEF p, q, r
<1>5. <<a, b, c>> \o <<Pad>> = <<a, b, c, Pad>>
  <2>. DEFINE p == <<a, b, c>>
              q == <<Pad>>
              r == <<a, b, c, Pad>>
  <2>1. /\ p \in Seq(S) /\ q \in Seq(S) /\ r \in Seq(S) /\ Len(p) = 3 /\ Len(q) = 1 /\ Len(r) = 4
        /\ r[1] = p[1] /\ r[2] = p[2] /\ r[3] = p[3] /\ r[3 + 1] = q[1]
    OBVIOUS
  <2>. HIDE DEF p, q, r, S
  <2>2. Len(r) = Len(p) + Len(q) /\ (\A i \in 1..Len(p) : r[i] = p[i]) /\ \A i \in 1..Len(q) : r[Len(p) + i] = q[i]
    BY <2>1
  <2>3. p \o q = r
    BY <2>1, <2>2, Joined
  <2>. QED BY <2>3 DEF p, q, r
<1>. QED BY <1>2, <1>3, <1>4, <1>5

\* The symbols of the k-th three bytes.
Quad(d, k) ==
    LET i == 3 * k - 2
    IN CASE Len(d) >= i + 2 -> Symbols(Triple(d[i], d[i + 1], d[i + 2]))
         [] Len(d) = i -> Upto(Symbols(Triple(d[i], 0, 0)), 2) \o <<Pad, Pad>>
         [] OTHER -> Upto(Symbols(Triple(d[i], d[i + 1], 0)), 3) \o <<Pad>>

LEMMA QuadIs ==
    ASSUME NEW d \in Seq(Byte), NEW k \in Nat \ {0}, 3 * k - 2 <= Len(d),
           NEW x \in Sextet, NEW y \in Sextet, NEW z \in Sextet, NEW w \in Sextet,
           Bits(d, k) = Four(x, y, z, w)
    PROVE  Quad(d, k) = <<x, y, IF 3 * k - 1 <= Len(d) THEN z ELSE Pad, IF 3 * k <= Len(d) THEN w ELSE Pad>>
<1>. DEFINE i == 3 * k - 2
            L == Len(d)
<1>1. L \in Nat /\ i \in Nat /\ 3 * k - 1 = i + 1 /\ 3 * k = i + 2 /\ i <= L
  BY LenProperties
<1>2. Symbols(Bits(d, k)) = <<x, y, z, w>>
  BY FourSymbols
<1>3. Quad(d, k) = CASE L >= i + 2 -> Symbols(Triple(d[i], d[i + 1], d[i + 2]))
                     [] L = i -> Upto(Symbols(Triple(d[i], 0, 0)), 2) \o <<Pad, Pad>>
                     [] OTHER -> Upto(Symbols(Triple(d[i], d[i + 1], 0)), 3) \o <<Pad>>
  BY Zenon DEF Quad
<1>4. Bits(d, k) = Triple(ByteAt(d, i), ByteAt(d, i + 1), ByteAt(d, i + 2))
  BY <1>1 DEF Bits
<1>5. ByteAt(d, i) = d[i]
  BY <1>1 DEF ByteAt
<1>. HIDE DEF i
<1>6. CASE L >= i + 2
  <2>1. i + 1 <= L /\ i + 2 <= L
    BY <1>1, <1>6
  <2>2. ByteAt(d, i + 1) = d[i + 1] /\ ByteAt(d, i + 2) = d[i + 2]
    BY <2>1 DEF ByteAt
  <2>3. Quad(d, k) = <<x, y, z, w>>
    BY <1>2, <1>3, <1>4, <1>5, <1>6, <2>2
  <2>. QED BY <1>1, <2>1, <2>3
<1>7. CASE L = i
  <2>1. ~(i + 1 <= L) /\ ~(i + 2 <= L) /\ ~(L >= i + 2)
    BY <1>1, <1>7
  <2>2. ByteAt(d, i + 1) = 0 /\ ByteAt(d, i + 2) = 0
    BY <2>1 DEF ByteAt
  <2>3. Quad(d, k) = Upto(<<x, y, z, w>>, 2) \o <<Pad, Pad>>
    BY <1>2, <1>3, <1>4, <1>5, <1>7, <2>1, <2>2
  <2>4. Quad(d, k) = <<x, y, Pad, Pad>>
    BY <2>3, Upto4
  <2>. QED BY <1>1, <2>1, <2>4
<1>8. CASE L = i + 1
  <2>1. i + 1 <= L /\ ~(i + 2 <= L) /\ ~(L >= i + 2) /\ L # i
    BY <1>1, <1>8
  <2>2. ByteAt(d, i + 1) = d[i + 1] /\ ByteAt(d, i + 2) = 0
    BY <2>1 DEF ByteAt
  <2>3. Quad(d, k) = Upto(<<x, y, z, w>>, 3) \o <<Pad>>
    BY <1>2, <1>3, <1>4, <1>5, <2>1, <2>2
  <2>4. Quad(d, k) = <<x, y, z, Pad>>
    BY <2>3, Upto4
  <2>. QED BY <1>1, <2>1, <2>4
<1>9. L >= i + 2 \/ L = i \/ L = i + 1
  BY <1>1
<1>. QED BY <1>6, <1>7, <1>8, <1>9

LEMMA EncodeCoded ==
    ASSUME NEW d \in Seq(Byte)
    PROVE  base64_encode(d) \in Seq(0..64) /\ \E g \in Nat : Coded(d, base64_encode(d), g)
<1>. DEFINE L == Len(d)
            g == (L + 2) \div 3
            b == [k \in 1..g |-> Quad(d, k)]
            e == base64_encode(d)
<1>1. L \in Nat
  BY LenProperties
<1>2. g \in Nat /\ L <= 3 * g /\ (g > 0 => L > 3 * g - 3)
  <2>1. L + 2 \in Nat /\ 3 \in Nat \ {0}
    BY <1>1
  <2>2. PICK q, r : Splits(L + 2, 3, q, r) /\ (L + 2) \div 3 = q
    BY <2>1, Parted
  <2>3. q \in Nat /\ r \in Nat /\ r < 3 /\ L + 2 = 3 * q + r
    BY <2>2 DEF Splits
  <2>. QED BY <1>1, <2>2, <2>3
<1>3. e = FlattenSeq(b)
  BY Zenon DEF base64_encode, Quad
<1>. HIDE DEF g, e
<1>4. ASSUME NEW k \in 1..g
      PROVE  \E x, y, z, w \in Sextet :
                 /\ Bits(d, k) = Four(x, y, z, w)
                 /\ b[k] = <<x, y, IF 3 * k - 1 <= L THEN z ELSE Pad, IF 3 * k <= L THEN w ELSE Pad>>
  <2>1. k \in Nat \ {0} /\ 3 * k - 2 <= L
    BY <1>1, <1>2
  <2>2. Bits(d, k) \in Word
    BY <2>1, BitsFit
  <2>3. PICK x \in Sextet, y \in Sextet, z \in Sextet, w \in Sextet : Bits(d, k) = Four(x, y, z, w)
    BY <2>2, FourOf
  <2>4. Quad(d, k) = <<x, y, IF 3 * k - 1 <= L THEN z ELSE Pad, IF 3 * k <= L THEN w ELSE Pad>>
    BY <2>1, <2>3, QuadIs
  <2>. QED BY <2>3, <2>4
<1>5. \A k \in 1..g : b[k] \in Seq(0..64) /\ Len(b[k]) = 4
  <2>1. Pad \in 0..64 /\ \A x \in Sextet : x \in 0..64
    BY DEF Pad, Sextet
  <2>2. \A x, y, z, w \in 0..64 : <<x, y, z, w>> \in Seq(0..64) /\ Len(<<x, y, z, w>>) = 4
    OBVIOUS
  <2>. HIDE DEF b, L
  <2>3. ASSUME NEW k \in 1..g PROVE b[k] \in Seq(0..64) /\ Len(b[k]) = 4
    <3>1. PICK x, y, z, w \in Sextet :
              b[k] = <<x, y, IF 3 * k - 1 <= L THEN z ELSE Pad, IF 3 * k <= L THEN w ELSE Pad>>
      BY <1>4
    <3>. DEFINE third == IF 3 * k - 1 <= L THEN z ELSE Pad
                fourth == IF 3 * k <= L THEN w ELSE Pad
    <3>2. x \in 0..64 /\ y \in 0..64 /\ third \in 0..64 /\ fourth \in 0..64
      BY <2>1
    <3>. HIDE DEF third, fourth
    <3>3. b[k] = <<x, y, third, fourth>>
      BY <3>1 DEF third, fourth
    <3>4. <<x, y, third, fourth>> \in Seq(0..64) /\ Len(<<x, y, third, fourth>>) = 4
      BY <2>2, <3>2
    <3>. QED BY <3>3, <3>4
  <2>. QED BY <2>3
<1>6. b \in Seq(Seq(0..64)) /\ Len(b) = g
  <2>1. b = [k \in 1..g |-> b[k]]
    OBVIOUS
  <2>. HIDE DEF b
  <2>2. b \in [1..g -> Seq(0..64)]
    BY <1>5, <2>1
  <2>. QED BY <1>2, <2>2
<1>. HIDE DEF b, L
<1>7. /\ e \in Seq(0..64)
      /\ Len(e) = IF g = 0 THEN 0 ELSE 4 * (g - 1) + Len(b[g])
      /\ \A k \in 1..g : \A j \in 1..Len(b[k]) : e[4 * (k - 1) + j] = b[k][j]
  <2>1. \A k \in 1..Len(b) : k < Len(b) => Len(b[k]) = 4
    BY <1>5, <1>6
  <2>. DEFINE P(s, len) == /\ s \in Seq(0..64)
                           /\ Len(s) = IF len = 0 THEN 0 ELSE 4 * (len - 1) + Len(b[len])
                           /\ \A k \in 1..len : \A j \in 1..Len(b[k]) : s[4 * (k - 1) + j] = b[k][j]
  <2>2. P(FlattenSeq(b), Len(b))
    <3>1. ASSUME NEW S, S = 0..64, NEW w, w = 4
          PROVE  /\ FlattenSeq(b) \in Seq(S)
                 /\ Len(FlattenSeq(b)) = IF Len(b) = 0 THEN 0 ELSE w * (Len(b) - 1) + Len(b[Len(b)])
                 /\ \A k \in 1..Len(b) : \A j \in 1..Len(b[k]) : FlattenSeq(b)[w * (k - 1) + j] = b[k][j]
      <4>1. b \in Seq(Seq(S)) /\ w \in Nat \ {0} /\ \A k \in 1..Len(b) : k < Len(b) => Len(b[k]) = w
        BY <1>6, <2>1, <3>1
      <4>. QED BY <4>1, Blocks
    <3>. DEFINE w == 4
                S == 0..64
                whole == FlattenSeq(b)
    <3>2. /\ whole \in Seq(S)
          /\ Len(whole) = IF Len(b) = 0 THEN 0 ELSE w * (Len(b) - 1) + Len(b[Len(b)])
          /\ \A k \in 1..Len(b) : \A j \in 1..Len(b[k]) : whole[w * (k - 1) + j] = b[k][j]
      <4>1. S = 0..64 /\ w = 4
        OBVIOUS
      <4>. HIDE DEF w, S
      <4>. QED BY <3>1, <4>1
    <3>. HIDE DEF whole
    <3>3. P(whole, Len(b))
      BY <3>2
    <3>. QED BY <3>3 DEF whole
  <2>. QED BY <1>3, <1>6, <2>2
<1>8. Len(e) = 4 * g
  <2>1. g # 0 => g \in 1..g
    BY <1>2
  <2>2. g # 0 => Len(b[g]) = 4
    BY <1>5, <2>1
  <2>3. g # 0 => Len(e) = 4 * (g - 1) + 4
    BY <1>7, <2>2
  <2>4. g = 0 => Len(e) = 0
    BY <1>7
  <2>. QED BY <1>2, <2>3, <2>4
<1>9. ASSUME NEW k \in 1..g PROVE \E x, y, z, w \in Sextet : Quadruple(d, e, k, x, y, z, w)
  <2>1. PICK x \in Sextet, y \in Sextet, z \in Sextet, w \in Sextet :
            /\ Bits(d, k) = Four(x, y, z, w)
            /\ b[k] = <<x, y, IF 3 * k - 1 <= L THEN z ELSE Pad, IF 3 * k <= L THEN w ELSE Pad>>
    BY <1>4
  <2>2. \A j \in 1..4 : e[4 * (k - 1) + j] = b[k][j]
    BY <1>5, <1>7
  <2>3. 4 * (k - 1) + 1 = 4 * k - 3 /\ 4 * (k - 1) + 2 = 4 * k - 2 /\ 4 * (k - 1) + 3 = 4 * k - 1 /\ 4 * (k - 1) + 4 = 4 * k
    OBVIOUS
  <2>4. e[4 * k - 3] = b[k][1] /\ e[4 * k - 2] = b[k][2] /\ e[4 * k - 1] = b[k][3] /\ e[4 * k] = b[k][4]
    <3>1. 1 \in 1..4 /\ 2 \in 1..4 /\ 3 \in 1..4 /\ 4 \in 1..4
      OBVIOUS
    <3>2. /\ e[4 * (k - 1) + 1] = b[k][1] /\ e[4 * (k - 1) + 2] = b[k][2]
          /\ e[4 * (k - 1) + 3] = b[k][3] /\ e[4 * (k - 1) + 4] = b[k][4]
      BY <2>2, <3>1
    <3>. QED BY <2>3, <3>2
  <2>5. Quadruple(d, e, k, x, y, z, w)
    BY <2>1, <2>4 DEF Quadruple, L
  <2>. QED BY <2>5
<1>10. Coded(d, e, g)
  BY <1>2, <1>8, <1>9 DEF Coded, L
<1>. QED BY <1>2, <1>7, <1>10 DEF e

\* The decoder's test of the symbols s, the padding it sees and group g of bytes.
Padding(s) == IF Len(s) = 0 \/ s[Len(s)] # Pad THEN 0 ELSE IF s[Len(s) - 1] = Pad THEN 2 ELSE 1
Accepts(s) ==
    /\ Len(s) % 4 = 0 /\ \A k \in 1..Len(s) - Padding(s) : s[k] # Pad
    /\ Padding(s) = 1 => s[Len(s) - 1] % 4 = 0
    /\ Padding(s) = 2 => s[Len(s) - 2] % 16 = 0
Lead(s, k) == 262144 * s[k] + 4096 * s[k + 1]
Group(s, k) ==
    CASE k + 4 <= Len(s) \/ Padding(s) = 0 ->
           <<High(Lead(s, k) + 64 * s[k + 2] + s[k + 3]), Mid(Lead(s, k) + 64 * s[k + 2] + s[k + 3]),
             Low(Lead(s, k) + 64 * s[k + 2] + s[k + 3])>>
      [] k + 4 > Len(s) /\ Padding(s) = 1 ->
           <<High(Lead(s, k) + 64 * s[k + 2]), Mid(Lead(s, k) + 64 * s[k + 2])>>
      [] OTHER -> <<High(Lead(s, k))>>

LEMMA DecodeIs ==
    \A s : base64_decode(s) = IF Accepts(s) THEN {FlattenSeq([g \in 1..Len(s) \div 4 |-> Group(s, 4 * g - 3)])} ELSE {}
<1>. SUFFICES ASSUME NEW s
              PROVE  base64_decode(s) = IF Accepts(s) THEN {FlattenSeq([g \in 1..Len(s) \div 4 |-> Group(s, 4 * g - 3)])} ELSE {}
  OBVIOUS
<1>. DEFINE whole == FlattenSeq([g \in 1..Len(s) \div 4 |-> Group(s, 4 * g - 3)])
            A == Len(s) % 4 # 0 \/ \E k \in 1..Len(s) - Padding(s) : s[k] = Pad
            B == (Padding(s) = 1 /\ s[Len(s) - 1] % 4 # 0) \/ (Padding(s) = 2 /\ s[Len(s) - 2] % 16 # 0)
<1>1. base64_decode(s) = IF A THEN {} ELSE IF B THEN {} ELSE {whole}
  BY SMT DEF base64_decode, Padding, Group, Lead, High, Mid, Low
<1>. HIDE DEF whole
<1>2. Accepts(s) <=> ~A /\ ~B
  BY Zenon DEF Accepts
<1>. HIDE DEF A, B
<1>. QED BY <1>1, <1>2 DEF whole

LEMMA GroupIs ==
    ASSUME NEW s, NEW k \in Nat, Len(s) \in Nat
    PROVE  LET v == Lead(s, k) + 64 * s[k + 2]
           IN /\ k + 4 <= Len(s) \/ Padding(s) = 0 =>
                     Group(s, k) = <<High(v + s[k + 3]), Mid(v + s[k + 3]), Low(v + s[k + 3])>>
              /\ k + 4 > Len(s) /\ Padding(s) = 1 => Group(s, k) = <<High(v), Mid(v)>>
              /\ k + 4 > Len(s) /\ Padding(s) = 2 => Group(s, k) = <<High(Lead(s, k))>>
<1>. DEFINE A == k + 4 <= Len(s) \/ Padding(s) = 0
            B == k + 4 > Len(s) /\ Padding(s) = 1
            v == Lead(s, k) + 64 * s[k + 2]
            three == <<High(v + s[k + 3]), Mid(v + s[k + 3]), Low(v + s[k + 3])>>
            two == <<High(v), Mid(v)>>
            one == <<High(Lead(s, k))>>
<1>1. Group(s, k) = CASE A -> three [] B -> two [] OTHER -> one
  BY Zenon DEF Group
<1>2. /\ A => ~B
      /\ k + 4 > Len(s) /\ Padding(s) = 2 => ~A /\ ~B
  OBVIOUS
<1>3. B <=> k + 4 > Len(s) /\ Padding(s) = 1
  OBVIOUS
<1>4. B => ~A
  BY <1>2
<1>. HIDE DEF A, B, three, two, one
<1>5. (A => Group(s, k) = three) /\ (B => Group(s, k) = two) /\ (~A /\ ~B => Group(s, k) = one)
  BY <1>1, <1>2, <1>4
<1>. QED BY <1>2, <1>3, <1>5 DEF A, three, two, one

\* A quadruple of symbols as 24 bits, zero for the symbols that are not there, and
\* the bytes it stands for.
Grouped(s, k, G, x, y, z, w) ==
    LET v == Four(x, y, z, w)
    IN /\ s[4 * k - 3] = x /\ s[4 * k - 2] = y
       /\ k < G \/ Padding(s) = 0 =>
              /\ s[4 * k - 1] = z /\ s[4 * k] = w
              /\ Group(s, 4 * k - 3) = <<High(v), Mid(v), Low(v)>>
       /\ k = G /\ Padding(s) = 1 =>
              /\ s[4 * k - 1] = z /\ s[4 * k] = Pad /\ Low(v) = 0
              /\ Group(s, 4 * k - 3) = <<High(v), Mid(v)>>
       /\ k = G /\ Padding(s) = 2 =>
              /\ s[4 * k - 1] = Pad /\ s[4 * k] = Pad /\ Mid(v) = 0 /\ Low(v) = 0
              /\ Group(s, 4 * k - 3) = <<High(v)>>

LEMMA PaddingIs ==
    ASSUME NEW s \in Seq(0..64), NEW G \in Nat, Len(s) = 4 * G
    PROVE  /\ Padding(s) \in 0..2 /\ (G = 0 => Padding(s) = 0)
           /\ Padding(s) = 0 /\ G > 0 => s[4 * G] # Pad
           /\ Padding(s) = 1 => s[4 * G] = Pad /\ s[4 * G - 1] # Pad
           /\ Padding(s) = 2 => s[4 * G] = Pad /\ s[4 * G - 1] = Pad
BY DEF Padding

LEMMA LeadFour ==
    ASSUME NEW s, NEW i, s[i] \in Nat, s[i + 1] \in Nat, s[i + 2] \in Nat
    PROVE  Lead(s, i) + 64 * s[i + 2] = Four(s[i], s[i + 1], s[i + 2], 0)
<1>. DEFINE a == s[i]
            b == s[i + 1]
            c == s[i + 2]
<1>1. a \in Nat /\ b \in Nat /\ c \in Nat
  OBVIOUS
<1>2. Lead(s, i) = 262144 * a + 4096 * b
  BY SMT DEF Lead
<1>. HIDE DEF a, b, c
<1>3. Lead(s, i) + 64 * c = Four(a, b, c, 0)
  BY <1>1, <1>2, SMT DEF Four
<1>. QED BY <1>3 DEF a, b, c

LEMMA Groups ==
    ASSUME NEW s \in Seq(0..64), Accepts(s), NEW G \in Nat, Len(s) = 4 * G, NEW k \in 1..G
    PROVE  \E x, y, z, w \in Sextet : Grouped(s, k, G, x, y, z, w)
<1>. DEFINE P == Padding(s)
            i == 4 * k - 3
<1>1. P \in 0..2
  BY PaddingIs
<1>2. k \in Nat /\ k <= G /\ i \in 1..4 * G /\ i + 1 \in 1..4 * G /\ i + 2 \in 1..4 * G /\ i + 3 \in 1..4 * G
  OBVIOUS
<1>3. 4 * k - 3 = i /\ 4 * k - 2 = i + 1 /\ 4 * k - 1 = i + 2 /\ 4 * k = i + 3 /\ (k < G <=> i + 4 <= 4 * G)
  OBVIOUS
<1>4. \A j \in 1..4 * G : s[j] \in 0..64
  BY ElementOfSeq
<1>5. \A j \in 1..4 * G : j <= 4 * G - P => s[j] \in Sextet
  <2>1. \A j \in 1..4 * G : j <= 4 * G - P => j \in 1..4 * G - P
    BY <1>1
  <2>2. \A j \in 1..4 * G - P : s[j] # Pad
    BY DEF Accepts
  <2>3. \A a \in 0..64 : a # Pad => a \in Sextet
    BY DEF Pad, Sextet
  <2>. QED BY <1>4, <2>1, <2>2, <2>3
<1>6. P = 1 => s[4 * G - 1] % 4 = 0
  BY DEF Accepts
<1>7. P = 2 => s[4 * G - 2] % 16 = 0
  BY DEF Accepts
<1>8. 0 \in Sextet
  BY DEF Sextet
<1>9. /\ P = 1 => s[4 * G] = Pad
      /\ P = 2 => s[4 * G] = Pad /\ s[4 * G - 1] = Pad
  BY PaddingIs
<1>. HIDE DEF P
<1>10. i <= 4 * G - P /\ i + 1 <= 4 * G - P
  BY <1>1, <1>2
<1>. HIDE DEF i
<1>11. s[i] \in Sextet /\ s[i + 1] \in Sextet
  BY <1>2, <1>5, <1>10
<1>12. CASE k < G \/ P = 0
  <2>1. i + 4 <= Len(s) \/ Padding(s) = 0
    BY <1>3, <1>12 DEF P
  <2>2. s[i + 2] \in Sextet /\ s[i + 3] \in Sextet
    <3>1. i + 2 <= 4 * G - P /\ i + 3 <= 4 * G - P
      BY <1>1, <1>2, <1>3, <1>12
    <3>. QED BY <1>2, <1>5, <3>1
  <2>3. Lead(s, i) + 64 * s[i + 2] + s[i + 3] = Four(s[i], s[i + 1], s[i + 2], s[i + 3])
    <3>1. s[i] \in Nat /\ s[i + 1] \in Nat /\ s[i + 2] \in Nat /\ s[i + 3] \in Nat
      BY <1>11, <2>2, InSextet
    <3>. QED BY <3>1, SMT DEF Lead, Four
  <2>. DEFINE v == Four(s[i], s[i + 1], s[i + 2], s[i + 3])
  <2>4. Group(s, i) = <<High(v), Mid(v), Low(v)>>
    <3>1. Group(s, i) = <<High(Lead(s, i) + 64 * s[i + 2] + s[i + 3]), Mid(Lead(s, i) + 64 * s[i + 2] + s[i + 3]),
             Low(Lead(s, i) + 64 * s[i + 2] + s[i + 3])>>
      BY <1>2, <2>1, GroupIs
    <3>. QED BY <2>3, <3>1
  <2>5. ~(k = G /\ P = 1) /\ ~(k = G /\ P = 2)
    BY <1>2, <1>12
  <2>. HIDE DEF v
  <2>6. Grouped(s, k, G, s[i], s[i + 1], s[i + 2], s[i + 3])
    BY <1>3, <2>4, <2>5 DEF Grouped, P, v
  <2>. QED BY <1>11, <2>2, <2>6
<1>13. CASE k = G /\ P = 1
  <2>1. ~(i + 4 <= Len(s)) /\ i + 4 > Len(s) /\ ~(k < G) /\ P # 0 /\ P # 2 /\ 4 * G = i + 3 /\ 4 * G - 1 = i + 2
    BY <1>2, <1>3, <1>13
  <2>2. s[i + 2] \in Sextet
    <3>1. i + 2 <= 4 * G - P
      BY <1>2, <1>13, <2>1
    <3>. QED BY <1>2, <1>5, <3>1
  <2>. DEFINE v == Four(s[i], s[i + 1], s[i + 2], 0)
  <2>3. Lead(s, i) + 64 * s[i + 2] = v
    <3>1. s[i] \in Nat /\ s[i + 1] \in Nat /\ s[i + 2] \in Nat
      BY <1>11, <2>2, InSextet
    <3>. QED BY <3>1, LeadFour
  <2>4. Low(v) = 0
    <3>1. s[i + 2] % 4 = 0
      BY <1>6, <1>13, <2>1
    <3>. QED BY <1>8, <1>11, <2>2, <3>1, SpareBits
  <2>. HIDE DEF v
  <2>5. Group(s, i) = <<High(v), Mid(v)>>
    <3>1. Group(s, i) = <<High(Lead(s, i) + 64 * s[i + 2]), Mid(Lead(s, i) + 64 * s[i + 2])>>
      BY <1>2, <1>13, <2>1, GroupIs DEF P
    <3>. QED BY <2>3, <3>1
  <2>6. Grouped(s, k, G, s[i], s[i + 1], s[i + 2], 0)
    BY <1>3, <1>9, <1>13, <2>1, <2>4, <2>5 DEF Grouped, P, v
  <2>. QED BY <1>8, <1>11, <2>2, <2>6
<1>14. CASE k = G /\ P = 2
  <2>1. ~(i + 4 <= Len(s)) /\ i + 4 > Len(s) /\ ~(k < G) /\ P # 0 /\ P # 1 /\ 4 * G = i + 3 /\ 4 * G - 1 = i + 2 /\ 4 * G - 2 = i + 1
    BY <1>2, <1>3, <1>14
  <2>. DEFINE v == Four(s[i], s[i + 1], 0, 0)
  <2>3. Lead(s, i) = v
    <3>1. s[i] \in Nat /\ s[i + 1] \in Nat
      BY <1>11, InSextet
    <3>. QED BY <3>1, SMT DEF Lead, Four
  <2>4. Low(v) = 0 /\ Mid(v) = 0
    <3>1. s[i + 1] % 16 = 0
      BY <1>7, <1>14, <2>1
    <3>. QED BY <1>8, <1>11, <3>1, SpareBits
  <2>. HIDE DEF v
  <2>5. Group(s, i) = <<High(v)>>
    <3>1. Group(s, i) = <<High(Lead(s, i))>>
      BY <1>2, <1>14, <2>1, GroupIs DEF P
    <3>. QED BY <2>3, <3>1
  <2>6. Grouped(s, k, G, s[i], s[i + 1], 0, 0)
    BY <1>3, <1>9, <1>14, <2>1, <2>4, <2>5 DEF Grouped, P, v
  <2>. QED BY <1>8, <1>11, <2>6
<1>. QED BY <1>1, <1>2, <1>12, <1>13, <1>14

\* What the decoder returns is bytes, and the symbols are their text.
LEMMA DecodeCoded ==
    ASSUME NEW s \in Seq(0..64), NEW d \in base64_decode(s)
    PROVE  d \in Seq(Byte) /\ \E g \in Nat : Coded(d, s, g)
<1>. DEFINE G == Len(s) \div 4
            P == Padding(s)
            b == [k \in 1..Len(s) \div 4 |-> Group(s, 4 * k - 3)]
<1>1. Accepts(s) /\ d = FlattenSeq(b)
  <2>. DEFINE D == FlattenSeq(b)
  <2>1. base64_decode(s) = IF Accepts(s) THEN {D} ELSE {}
    BY DecodeIs
  <2>. HIDE DEF D
  <2>2. Accepts(s) /\ d = D
    BY <2>1
  <2>. QED BY <2>2 DEF D
<1>2. G \in Nat /\ Len(s) = 4 * G
  <2>1. Len(s) \in Nat /\ 4 \in Nat \ {0}
    BY LenProperties
  <2>2. PICK q, r : Splits(Len(s), 4, q, r) /\ Len(s) \div 4 = q /\ Len(s) % 4 = r
    BY <2>1, Parted
  <2>. QED BY <1>1, <2>2 DEF Splits, Accepts
<1>. HIDE DEF G
<1>3. b = [k \in 1..G |-> Group(s, 4 * k - 3)]
  BY DEF G
<1>4. P \in 0..2 /\ (G = 0 => P = 0)
  BY <1>2, PaddingIs
<1>5. ASSUME NEW k \in 1..G
      PROVE  \E x, y, z, w \in Sextet : Grouped(s, k, G, x, y, z, w) /\ b[k] = Group(s, 4 * k - 3)
  BY <1>1, <1>2, <1>3, Groups
<1>. DEFINE size(k) == IF k < G THEN 3 ELSE 3 - P
<1>6. ASSUME NEW k \in 1..G PROVE b[k] \in Seq(Byte) /\ Len(b[k]) = size(k)
  <2>1. PICK x \in Sextet, y \in Sextet, z \in Sextet, w \in Sextet :
            Grouped(s, k, G, x, y, z, w) /\ b[k] = Group(s, 4 * k - 3)
    BY <1>5
  <2>. DEFINE v == Four(x, y, z, w)
  <2>2. High(v) \in Byte /\ Mid(v) \in Byte /\ Low(v) \in Byte
    BY FourBelow, ThreeBytes
  <2>. HIDE DEF v, b
  <2>3. /\ k < G \/ P = 0 => b[k] = <<High(v), Mid(v), Low(v)>>
        /\ k = G /\ P = 1 => b[k] = <<High(v), Mid(v)>>
        /\ k = G /\ P = 2 => b[k] = <<High(v)>>
    BY <2>1 DEF Grouped, v, P
  <2>4. \A a, c, e \in Byte : /\ <<a, c, e>> \in Seq(Byte) /\ Len(<<a, c, e>>) = 3
                              /\ <<a, c>> \in Seq(Byte) /\ Len(<<a, c>>) = 2
                              /\ <<a>> \in Seq(Byte) /\ Len(<<a>>) = 1
    OBVIOUS
  <2>. HIDE DEF P
  <2>5. CASE k < G \/ P = 0
    <3>1. b[k] = <<High(v), Mid(v), Low(v)>> /\ size(k) = 3
      BY <1>2, <1>4, <2>3, <2>5
    <3>. HIDE DEF size
    <3>. QED BY <2>2, <2>4, <3>1
  <2>6. CASE k = G /\ P = 1
    <3>1. b[k] = <<High(v), Mid(v)>> /\ size(k) = 2
      BY <1>2, <2>3, <2>6
    <3>. HIDE DEF size
    <3>. QED BY <2>2, <2>4, <3>1
  <2>7. CASE k = G /\ P = 2
    <3>1. b[k] = <<High(v)>> /\ size(k) = 1
      BY <1>2, <2>3, <2>7
    <3>. HIDE DEF size
    <3>. QED BY <2>2, <2>4, <3>1
  <2>. QED BY <1>2, <1>4, <2>5, <2>6, <2>7
<1>7. b \in Seq(Seq(Byte)) /\ Len(b) = G
  <2>1. b = [k \in 1..G |-> b[k]]
    BY <1>3
  <2>. HIDE DEF b
  <2>2. b \in [1..G -> Seq(Byte)]
    BY <1>6, <2>1
  <2>. QED BY <1>2, <2>2
<1>. HIDE DEF b, P
<1>8. /\ d \in Seq(Byte)
      /\ Len(d) = IF G = 0 THEN 0 ELSE 3 * (G - 1) + Len(b[G])
      /\ \A k \in 1..G : \A j \in 1..Len(b[k]) : d[3 * (k - 1) + j] = b[k][j]
  <2>1. ASSUME NEW w, w = 3
        PROVE  /\ FlattenSeq(b) \in Seq(Byte)
               /\ Len(FlattenSeq(b)) = IF Len(b) = 0 THEN 0 ELSE w * (Len(b) - 1) + Len(b[Len(b)])
               /\ \A k \in 1..Len(b) : \A j \in 1..Len(b[k]) : FlattenSeq(b)[w * (k - 1) + j] = b[k][j]
    <3>1. w \in Nat \ {0} /\ \A k \in 1..Len(b) : k < Len(b) => Len(b[k]) = w
      BY <1>6, <1>7, <2>1
    <3>. QED BY <1>7, <3>1, Blocks
  <2>. DEFINE w == 3
  <2>2. /\ d \in Seq(Byte)
        /\ Len(d) = IF G = 0 THEN 0 ELSE w * (G - 1) + Len(b[G])
        /\ \A k \in 1..G : \A j \in 1..Len(b[k]) : d[w * (k - 1) + j] = b[k][j]
    <3>1. w = 3
      OBVIOUS
    <3>. HIDE DEF w
    <3>. QED BY <1>1, <1>7, <2>1, <3>1
  <2>. QED BY <2>2
<1>9. Len(d) = 3 * G - P
  <2>1. G # 0 => G \in 1..G /\ Len(b[G]) = 3 - P
    <3>1. G # 0 => G \in 1..G
      BY <1>2
    <3>2. G # 0 => Len(b[G]) = size(G)
      BY <1>6, <3>1
    <3>. QED BY <1>2, <3>1, <3>2
  <2>2. Len(d) = IF G = 0 THEN 0 ELSE 3 * (G - 1) + Len(b[G])
    BY <1>8
  <2>3. G # 0 => Len(d) = 3 * (G - 1) + (3 - P)
    BY <2>1, <2>2
  <2>4. CASE G = 0
    <3>1. Len(d) = 0 /\ P = 0
      BY <1>4, <2>2, <2>4
    <3>. QED BY <2>4, <3>1
  <2>5. CASE G # 0
    <3>. DEFINE N == Len(d)
    <3>1. N = 3 * (G - 1) + (3 - P)
      BY <2>3, <2>5
    <3>. HIDE DEF N
    <3>2. N = 3 * G - P
      BY <1>2, <1>4, <3>1
    <3>. QED BY <3>2 DEF N
  <2>. QED BY <2>4, <2>5
<1>10. ASSUME NEW k \in 1..G PROVE \E x, y, z, w \in Sextet : Quadruple(d, s, k, x, y, z, w)
  <2>1. PICK x \in Sextet, y \in Sextet, z \in Sextet, w \in Sextet :
            Grouped(s, k, G, x, y, z, w) /\ b[k] = Group(s, 4 * k - 3)
    BY <1>5
  <2>. DEFINE v == Four(x, y, z, w)
  <2>2. v \in Word /\ Triple(High(v), Mid(v), Low(v)) = v
    BY FourBelow, ThreeBytes
  <2>. HIDE DEF v
  <2>3. /\ s[4 * k - 3] = x /\ s[4 * k - 2] = y
        /\ k < G \/ P = 0 => s[4 * k - 1] = z /\ s[4 * k] = w /\ b[k] = <<High(v), Mid(v), Low(v)>>
        /\ k = G /\ P = 1 => s[4 * k - 1] = z /\ s[4 * k] = Pad /\ Low(v) = 0 /\ b[k] = <<High(v), Mid(v)>>
        /\ k = G /\ P = 2 => /\ s[4 * k - 1] = Pad /\ s[4 * k] = Pad /\ Mid(v) = 0 /\ Low(v) = 0
                             /\ b[k] = <<High(v)>>
    BY <2>1 DEF Grouped, v, P
  <2>4. /\ 3 * (k - 1) + 1 = 3 * k - 2 /\ 3 * (k - 1) + 2 = 3 * k - 1 /\ 3 * (k - 1) + 3 = 3 * k
        /\ 3 * k - 2 <= Len(d)
    BY <1>2, <1>4, <1>9
  <2>5. \A j \in 1..size(k) : d[3 * (k - 1) + j] = b[k][j]
    BY <1>6, <1>8
  <2>6. ASSUME ByteAt(d, 3 * k - 2) = High(v), ByteAt(d, 3 * k - 1) = Mid(v), ByteAt(d, 3 * k) = Low(v)
        PROVE  Bits(d, k) = v
    BY <2>2, <2>6 DEF Bits
  <2>7. CASE k < G \/ P = 0
    <3>1. 3 * k - 1 <= Len(d) /\ 3 * k <= Len(d) /\ size(k) = 3
      BY <1>2, <1>4, <1>9, <2>7
    <3>2. 1 \in 1..size(k) /\ 2 \in 1..size(k) /\ 3 \in 1..size(k)
      BY <3>1
    <3>3. d[3 * (k - 1) + 1] = b[k][1] /\ d[3 * (k - 1) + 2] = b[k][2] /\ d[3 * (k - 1) + 3] = b[k][3]
      BY <2>5, <3>2
    <3>4. d[3 * k - 2] = High(v) /\ d[3 * k - 1] = Mid(v) /\ d[3 * k] = Low(v)
      BY <2>3, <2>4, <2>7, <3>3
    <3>5. Bits(d, k) = v
      BY <2>4, <2>6, <3>1, <3>4 DEF ByteAt
    <3>6. Quadruple(d, s, k, x, y, z, w)
      BY <2>3, <2>7, <3>1, <3>5 DEF Quadruple, v
    <3>. QED BY <3>6
  <2>8. CASE k = G /\ P = 1
    <3>1. 3 * k - 1 <= Len(d) /\ ~(3 * k <= Len(d)) /\ size(k) = 2
      BY <1>2, <1>9, <2>8
    <3>2. 1 \in 1..size(k) /\ 2 \in 1..size(k)
      BY <3>1
    <3>3. d[3 * (k - 1) + 1] = b[k][1] /\ d[3 * (k - 1) + 2] = b[k][2]
      BY <2>5, <3>2
    <3>4. d[3 * k - 2] = High(v) /\ d[3 * k - 1] = Mid(v)
      BY <2>3, <2>4, <2>8, <3>3
    <3>5. Bits(d, k) = v
      BY <2>3, <2>4, <2>6, <2>8, <3>1, <3>4 DEF ByteAt
    <3>6. Quadruple(d, s, k, x, y, z, w)
      BY <2>3, <2>8, <3>1, <3>5 DEF Quadruple, v
    <3>. QED BY <3>6
  <2>9. CASE k = G /\ P = 2
    <3>1. ~(3 * k - 1 <= Len(d)) /\ ~(3 * k <= Len(d)) /\ size(k) = 1
      BY <1>2, <1>9, <2>9
    <3>2. 1 \in 1..size(k)
      BY <3>1
    <3>3. d[3 * (k - 1) + 1] = b[k][1]
      BY <2>5, <3>2
    <3>4. d[3 * k - 2] = High(v)
      BY <2>3, <2>4, <2>9, <3>3
    <3>5. Bits(d, k) = v
      BY <2>3, <2>4, <2>6, <2>9, <3>1, <3>4 DEF ByteAt
    <3>6. Quadruple(d, s, k, x, y, z, w)
      BY <2>3, <2>9, <3>1, <3>5 DEF Quadruple, v
    <3>. QED BY <3>6
  <2>. QED BY <1>2, <1>4, <2>7, <2>8, <2>9
<1>11. Coded(d, s, G)
  BY <1>2, <1>4, <1>9, <1>10 DEF Coded
<1>. QED BY <1>2, <1>8, <1>11

\* The decoder accepts every text.
LEMMA CodedAccepted ==
    ASSUME NEW e \in Seq(0..64), NEW d \in Seq(Byte), NEW g \in Nat, Coded(d, e, g)
    PROVE  Accepts(e)
<1>. DEFINE P == 3 * g - Len(d)
<1>1. Len(d) \in Nat /\ Len(e) = 4 * g /\ Len(d) <= 3 * g /\ (g > 0 => Len(d) > 3 * g - 3)
  BY LenProperties DEF Coded
<1>2. \A a \in Sextet : a # Pad
  BY DEF Sextet, Pad
<1>3. ASSUME NEW k \in 1..g PROVE \E x, y, z, w \in Sextet : Quadruple(d, e, k, x, y, z, w)
  BY DEF Coded
<1>4. ASSUME NEW k \in 1..g
      PROVE  /\ e[4 * k - 3] # Pad /\ e[4 * k - 2] # Pad
             /\ e[4 * k - 1] = Pad <=> 3 * k - 1 > Len(d)
             /\ e[4 * k] = Pad <=> 3 * k > Len(d)
             /\ 3 * k - 1 > Len(d) => e[4 * k - 2] % 16 = 0
             /\ 3 * k > Len(d) /\ 3 * k - 1 <= Len(d) => e[4 * k - 1] % 4 = 0
  <2>1. PICK x \in Sextet, y \in Sextet, z \in Sextet, w \in Sextet : Quadruple(d, e, k, x, y, z, w)
    BY <1>3
  <2>2. k \in Nat \ {0} /\ (3 * k - 1 <= Len(d) <=> ~(3 * k - 1 > Len(d))) /\ (3 * k <= Len(d) <=> ~(3 * k > Len(d)))
    BY <1>1
  <2>3. /\ 3 * k > Len(d) => z % 4 = 0
        /\ 3 * k - 1 > Len(d) => y % 16 = 0
    BY <2>1, <2>2, SpareZero DEF Quadruple
  <2>4. x # Pad /\ y # Pad /\ z # Pad /\ w # Pad
    BY <1>2
  <2>. QED BY <2>1, <2>2, <2>3, <2>4 DEF Quadruple
<1>5. Padding(e) = P
  <2>1. CASE g = 0
    BY <1>1, <2>1 DEF Padding
  <2>2. CASE g > 0
    <3>1. g \in 1..g /\ Len(e) # 0
      BY <1>1, <2>2
    <3>2. /\ e[4 * g - 1] = Pad <=> 3 * g - 1 > Len(d)
          /\ e[4 * g] = Pad <=> 3 * g > Len(d)
      BY <1>4, <3>1
    <3>3. e[Len(e)] = e[4 * g] /\ e[Len(e) - 1] = e[4 * g - 1]
      BY <1>1
    <3>4. Padding(e) = IF e[4 * g] # Pad THEN 0 ELSE IF e[4 * g - 1] = Pad THEN 2 ELSE 1
      BY <3>1, <3>3 DEF Padding
    <3>. DEFINE last == e[4 * g] = Pad
                before == e[4 * g - 1] = Pad
                N == Len(d)
                q == Padding(e)
    <3>5. /\ Padding(e) = IF ~last THEN 0 ELSE IF before THEN 2 ELSE 1
          /\ last <=> 3 * g > Len(d)
          /\ before <=> 3 * g - 1 > Len(d)
      BY <3>2, <3>4
    <3>6. N \in Nat /\ N <= 3 * g /\ N > 3 * g - 3
      BY <1>1, <2>2
    <3>. HIDE DEF last, before, N, q
    <3>7. /\ q = IF ~last THEN 0 ELSE IF before THEN 2 ELSE 1
          /\ last <=> 3 * g > N
          /\ before <=> 3 * g - 1 > N
      BY <3>5 DEF N, q
    <3>8. ASSUME N = 3 * g PROVE q = 3 * g - N
      BY <3>6, <3>7, <3>8
    <3>9. ASSUME N = 3 * g - 1 PROVE q = 3 * g - N
      BY <3>6, <3>7, <3>9
    <3>10. ASSUME N = 3 * g - 2 PROVE q = 3 * g - N
      BY <3>6, <3>7, <3>10
    <3>11. N = 3 * g \/ N = 3 * g - 1 \/ N = 3 * g - 2
      BY <3>6
    <3>12. q = 3 * g - N
      BY <3>8, <3>9, <3>10, <3>11
    <3>. QED BY <3>12 DEF N, q
  <2>. QED BY <2>1, <2>2
<1>6. P \in 0..2 /\ (P > 0 => g > 0)
  BY <1>1
<1>7. Len(e) % 4 = 0
  <2>1. Splits(Len(e), 4, g, 0) /\ 4 \in Nat \ {0}
    BY <1>1 DEF Splits
  <2>. QED BY <2>1, Split
<1>8. ASSUME NEW i \in 1..Len(e) - Padding(e) PROVE e[i] # Pad
  <2>1. i \in Nat /\ i >= 1 /\ i <= 4 * g - P
    BY <1>1, <1>5, <1>6
  <2>2. PICK q, r : Splits(i - 1, 4, q, r)
    <3>1. i - 1 \in Nat /\ 4 \in Nat \ {0}
      BY <2>1
    <3>. QED BY <3>1, Parted
  <2>. DEFINE k == q + 1
  <2>3. q \in Nat /\ r \in 0..3 /\ i = 4 * q + r + 1
    BY <2>1, <2>2 DEF Splits
  <2>4. k \in 1..g /\ 4 * k - 3 = 4 * q + 1 /\ 4 * k - 2 = 4 * q + 2 /\ 4 * k - 1 = 4 * q + 3 /\ 4 * k = 4 * q + 4
    BY <1>6, <2>1, <2>3
  <2>5. CASE r = 0
    <3>1. i = 4 * k - 3
      BY <2>3, <2>4, <2>5
    <3>. QED BY <1>4, <2>4, <3>1
  <2>6. CASE r = 1
    <3>1. i = 4 * k - 2
      BY <2>3, <2>4, <2>6
    <3>. QED BY <1>4, <2>4, <3>1
  <2>7. CASE r = 2
    <3>1. i = 4 * k - 1 /\ ~(3 * k - 1 > Len(d))
      BY <1>1, <2>1, <2>3, <2>4, <2>7
    <3>. QED BY <1>4, <2>4, <3>1
  <2>8. CASE r = 3
    <3>1. i = 4 * k /\ ~(3 * k > Len(d))
      BY <1>1, <2>1, <2>3, <2>4, <2>8
    <3>. QED BY <1>4, <2>4, <3>1
  <2>. QED BY <2>3, <2>5, <2>6, <2>7, <2>8
<1>9. P > 0 => g \in 1..g
  BY <1>6
<1>10. P = 1 => 3 * g > Len(d) /\ 3 * g - 1 <= Len(d) /\ Len(e) - 1 = 4 * g - 1
  BY <1>1
<1>11. P = 2 => 3 * g - 1 > Len(d) /\ Len(e) - 2 = 4 * g - 2
  BY <1>1
<1>. HIDE DEF P
<1>12. P = 1 => e[Len(e) - 1] % 4 = 0
  <2>1. ASSUME P = 1 PROVE e[4 * g - 1] % 4 = 0
    BY <1>4, <1>6, <1>9, <1>10, <2>1
  <2>. QED BY <1>10, <2>1
<1>13. P = 2 => e[Len(e) - 2] % 16 = 0
  BY <1>4, <1>9, <1>11
<1>. QED BY <1>5, <1>7, <1>8, <1>12, <1>13 DEF Accepts

\* For all bytes and all symbols: what is encoded decodes to the bytes and to nothing
\* else, and what the decoder accepts is what the encoder writes for those bytes,
\* so that two different texts never mean the same bytes (std/tool_fs.c).
THEOREM Base64IsExact ==
    ASSUME NEW data \in Seq(0..255), NEW symbols \in Seq(0..64)
    PROVE  Base64Exact(data, symbols)
<1>. DEFINE e == base64_encode(data)
<1>1. data \in Seq(Byte)
  BY DEF Byte
<1>2. base64_decode(e) = {data}
  <2>1. PICK g \in Nat : e \in Seq(0..64) /\ Coded(data, e, g)
    BY <1>1, EncodeCoded
  <2>. HIDE DEF e
  <2>2. Accepts(e)
    BY <1>1, <2>1, CodedAccepted
  <2>3. PICK f : base64_decode(e) = {f}
    BY <2>2, DecodeIs, Zenon
  <2>4. f \in Seq(Byte) /\ \E h \in Nat : Coded(f, e, h)
    BY <2>1, <2>3, DecodeCoded
  <2>5. f = data
    BY <1>1, <2>1, <2>4, CodedOnce
  <2>. QED BY <2>3, <2>5
<1>3. ASSUME NEW d \in base64_decode(symbols) PROVE base64_encode(d) = symbols
  <2>1. d \in Seq(Byte) /\ \E g \in Nat : Coded(d, symbols, g)
    BY DecodeCoded
  <2>2. base64_encode(d) \in Seq(0..64) /\ \E g \in Nat : Coded(d, base64_encode(d), g)
    BY <2>1, EncodeCoded
  <2>. DEFINE t == base64_encode(d)
  <2>3. t \in Seq(0..64) /\ \E g \in Nat : Coded(d, t, g)
    BY <2>2
  <2>. HIDE DEF t
  <2>4. t = symbols
    BY <2>1, <2>3, CodedAlike
  <2>. QED BY <2>4 DEF t
<1>. QED BY <1>2, <1>3 DEF Base64Exact

-----------------------------------------------------------------------------
(* Pages *)

\* A file of which no call fails is answered with a page.
LEMMA SoundRead ==
    ASSUME NEW data, NEW o \in Nat, NEW max \in Nat
    PROVE  /\ cmd_read(Sound(data), o, max, "base64").content = base64_encode(Upto(From(data, o + 1), max))
           /\ cmd_read(Sound(data), o, max, "base64").truncated
                 <=> Len(Upto(From(data, o + 1), max)) = max /\ o + max < Len(data)
<1>. DEFINE f == Sound(data)
<1>1. f.data = data /\ f.fails = ""
  BY DEF Sound
<1>. HIDE DEF f
<1>2. ~(f.fails = "no path" \/ o < 0 \/ max < 0 \/ "base64" \notin {"utf8", "base64"})
  <2>1. ~(f.fails = "no path") /\ "base64" \in {"utf8", "base64"}
    BY <1>1
  <2>2. ~(o < 0) /\ ~(max < 0)
    OBVIOUS
  <2>. QED BY <2>1, <2>2, Zenon
<1>3. /\ ~(f.fails \in {"open", "fstat"}) /\ ~(f.fails = "directory") /\ f.fails # "probe"
      /\ ~((f.fails = "lseek" /\ o > 0) \/ (f.fails = "read" /\ max > 0))
  BY <1>1
<1>4. cmd_read(f, o, max, "base64") = ReadPage(f, o, max, "base64")
  BY <1>2, <1>3 DEF cmd_read
<1>. DEFINE page == Upto(From(f.data, o + 1), max)
            nul == {k \in DOMAIN page : page[k] = 0}
<1>5. ReadPage(f, o, max, "base64") =
          [code |-> "ok",
           content |-> IF "base64" = "base64" THEN base64_encode(page)
                       ELSE IF nul = {} THEN page ELSE Upto(page, Min(nul) - 1),
           size |-> Len(f.data),
           truncated |-> Len(page) = max /\ o + max < Len(f.data) /\ f.fails # "probe"]
  BY Zenon DEF ReadPage
<1>. DEFINE sent == base64_encode(page)
            more == Len(page) = max /\ o + max < Len(f.data) /\ f.fails # "probe"
            r == ReadPage(f, o, max, "base64")
<1>6. r.content = sent /\ (r.truncated <=> more)
  <2>1. r = [code |-> "ok", content |-> sent, size |-> Len(f.data), truncated |-> more]
    BY <1>5, Zenon
  <2>. HIDE DEF r, sent, more
  <2>. QED BY <2>1
<1>. HIDE DEF page, nul
<1>. QED BY <1>1, <1>3, <1>4, <1>6 DEF page, f

\* A page is what is left, or its first max bytes when it says that more follow.
LEMMA PageIs ==
    ASSUME NEW data \in Seq(Byte), NEW max \in Nat \ {0}, NEW o \in Nat
    PROVE  LET r == cmd_read(Sound(data), o, max, "base64")
               page == CHOOSE d \in base64_decode(r.content) : TRUE
           IN IF r.truncated THEN page \o From(data, (o + max) + 1) = From(data, o + 1) ELSE page = From(data, o + 1)
<1>. DEFINE L == Len(data)
            tail == From(data, o + 1)
            p == Upto(tail, max)
            r == cmd_read(Sound(data), o, max, "base64")
            page == CHOOSE d \in base64_decode(r.content) : TRUE
            more == From(data, (o + max) + 1)
<1>1. L \in Nat /\ o + 1 \in Nat \ {0} /\ (o + max) + 1 \in Nat \ {0}
  BY LenProperties
<1>2. /\ tail \in Seq(Byte) /\ Len(tail) = IF o + 1 <= L THEN L - (o + 1) + 1 ELSE 0
      /\ \A i \in 1..L - (o + 1) + 1 : tail[i] = data[(o + 1) + i - 1]
  BY <1>1, FromSlice
<1>3. /\ more \in Seq(Byte) /\ Len(more) = IF (o + max) + 1 <= L THEN L - ((o + max) + 1) + 1 ELSE 0
      /\ \A i \in 1..L - ((o + max) + 1) + 1 : more[i] = data[((o + max) + 1) + i - 1]
  BY <1>1, FromSlice
<1>. HIDE DEF tail, more
<1>4. /\ p \in Seq(Byte) /\ Len(p) = IF max < Len(tail) THEN max ELSE Len(tail)
      /\ \A i \in 1..Len(p) : p[i] = tail[i]
  BY <1>2, UptoSlice
<1>5. r.content = base64_encode(p) /\ (r.truncated <=> Len(p) = max /\ o + max < L)
  <2>1. max \in Nat
    OBVIOUS
  <2>. QED BY <2>1, SoundRead, Zenon DEF tail
<1>. HIDE DEF p, r
<1>6. page = p
  <2>1. base64_decode(r.content) = {p}
    <3>1. p \in Seq(0..255) /\ <<>> \in Seq(0..64)
      BY <1>4 DEF Byte
    <3>2. Base64Exact(p, <<>>)
      BY <3>1, Base64IsExact
    <3>. QED BY <1>5, <3>2 DEF Base64Exact
  <2>. QED BY <2>1
<1>. HIDE DEF page, L
<1>7. CASE r.truncated
  <2>1. Len(p) = max /\ o + max < L
    BY <1>5, <1>7
  <2>2. Len(tail) = L - o /\ Len(more) = L - (o + max)
    BY <1>1, <1>2, <1>3, <2>1
  <2>3. Len(tail) = Len(p) + Len(more)
    BY <1>1, <2>1, <2>2
  <2>4. \A i \in 1..Len(p) : tail[i] = p[i]
    BY <1>4
  <2>5. ASSUME NEW i \in 1..Len(more) PROVE tail[Len(p) + i] = more[i]
    <3>1. /\ max + i \in 1..L - (o + 1) + 1 /\ i \in 1..L - ((o + max) + 1) + 1
          /\ (o + 1) + (max + i) - 1 = ((o + max) + 1) + i - 1
      BY <1>1, <2>1, <2>2
    <3>. QED BY <1>2, <1>3, <2>1, <3>1
  <2>6. p \o more = tail
    BY <1>2, <1>3, <1>4, <2>3, <2>4, <2>5, Joined
  <2>. QED BY <1>6, <1>7, <2>6 DEF tail, more, page, r
<1>8. CASE ~r.truncated
  <2>1. ~(Len(p) = max /\ o + max < L)
    BY <1>5, <1>8
  <2>2. Len(tail) \in Nat
    BY <1>2, LenProperties
  <2>3. Len(p) = Len(tail)
    BY <1>1, <1>2, <1>4, <2>1, <2>2
  <2>4. \A i \in 1..Len(p) : p[i] = tail[i]
    BY <1>4
  <2>5. p = tail
    BY <1>2, <1>4, <2>3, <2>4, SeqEqual
  <2>. QED BY <1>6, <1>8, <2>5 DEF tail, page, r
<1>. QED BY <1>7, <1>8

\* For every file and every page size: the pages read one after the other, each from
\* where the one before it ended, until one says that no more follows, are the file
\* (fs.read, std/tool_fs.c).
THEOREM PagesAreExact ==
    ASSUME NEW data \in Seq(0..255), NEW max \in Nat \ {0}
    PROVE  PagesExact(data, max)
<1>. DEFINE R(o) == cmd_read(Sound(data), o, max, "base64")
            Page(o) == CHOOSE d \in base64_decode(R(o).content) : TRUE
            Pages(h) == h = [o \in Nat |-> IF R(o).truncated THEN Page(o) \o h[o + max] ELSE Page(o)]
            pages == CHOOSE h : Pages(h)
            L == Len(data)
<1>1. L \in Nat /\ data \in Seq(Byte)
  BY LenProperties DEF Byte
<1>2. \A o \in Nat : IF R(o).truncated THEN Page(o) \o From(data, (o + max) + 1) = From(data, o + 1)
                     ELSE Page(o) = From(data, o + 1)
  BY <1>1, PageIs, Zenon
<1>3. \A o \in Nat : R(o).truncated => o + max < L
  <2>1. max \in Nat
    OBVIOUS
  <2>. QED BY <2>1, SoundRead, Zenon
<1>4. PagesExact(data, max) <=> pages[0] = data
  BY Zenon DEF PagesExact
<1>. HIDE DEF R, Page
<1>5. Pages(pages)
  <2>. DEFINE f == [o \in Nat |-> From(data, o + 1)]
              g == [o \in Nat |-> IF R(o).truncated THEN Page(o) \o f[o + max] ELSE Page(o)]
  <2>1. ASSUME NEW o \in Nat PROVE f[o] = g[o]
    <3>1. o + max \in Nat
      OBVIOUS
    <3>2. f[o] = From(data, o + 1) /\ f[o + max] = From(data, (o + max) + 1)
      BY <3>1
    <3>. HIDE DEF f
    <3>3. g[o] = IF R(o).truncated THEN Page(o) \o f[o + max] ELSE Page(o)
      OBVIOUS
    <3>. QED BY <1>2, <3>2, <3>3
  <2>2. f = g
    BY <2>1
  <2>3. Pages(f)
    <3>. HIDE DEF f
    <3>. QED BY <2>2
  <2>. HIDE DEF f, Pages
  <2>. QED BY <2>3
<1>. HIDE DEF pages
<1>6. \A o \in Nat : pages[o] = IF R(o).truncated THEN Page(o) \o pages[o + max] ELSE Page(o)
  BY <1>5
<1>. HIDE DEF L
\* from the end: all offsets with at most n bytes tail
<1>. DEFINE S == {n \in Nat : \A o \in Nat : L <= o + n => pages[o] = From(data, o + 1)}
<1>7. 0 \in S
  <2>1. ASSUME NEW o \in Nat, L <= o PROVE pages[o] = From(data, o + 1)
    <3>1. ~R(o).truncated
      BY <1>1, <1>3, <2>1
    <3>. QED BY <1>2, <1>6, <3>1
  <2>. QED BY <1>1, <2>1
<1>8. ASSUME NEW n \in S \cap Nat PROVE n + 1 \in S
  <2>1. ASSUME NEW o \in Nat, L <= o + (n + 1) PROVE pages[o] = From(data, o + 1)
    <3>1. CASE ~R(o).truncated
      BY <1>2, <1>6, <3>1
    <3>2. CASE R(o).truncated
      <4>1. o + max \in Nat /\ L <= (o + max) + n
        BY <1>1, <2>1
      <4>2. pages[o + max] = From(data, (o + max) + 1)
        BY <1>8, <4>1
      <4>. QED BY <1>2, <1>6, <3>2, <4>2
    <3>. QED BY <3>1, <3>2
  <2>. QED BY <2>1
<1>9. L \in S
  <2>. HIDE DEF S
  <2>1. Nat \subseteq S
    BY <1>7, <1>8, SetInduction
  <2>. QED BY <1>1, <2>1
<1>10. pages[0] = From(data, 0 + 1)
  BY <1>1, <1>9
<1>11. From(data, 0 + 1) = data
  <2>. DEFINE f == From(data, 0 + 1)
  <2>1. f \in Seq(Byte) /\ Len(f) = Len(data) /\ \A i \in 1..Len(f) : f[i] = data[i]
    <3>1. 0 + 1 \in Nat \ {0} /\ Len(data) \in Nat
      BY <1>1, LenProperties
    <3>2. /\ f \in Seq(Byte) /\ Len(f) = IF 0 + 1 <= Len(data) THEN Len(data) - (0 + 1) + 1 ELSE 0
          /\ \A i \in 1..Len(data) - (0 + 1) + 1 : f[i] = data[(0 + 1) + i - 1]
      BY <1>1, <3>1, FromSlice
    <3>. HIDE DEF f
    <3>. QED BY <3>1, <3>2
  <2>. HIDE DEF f
  <2>2. f = data
    BY <1>1, <2>1, SeqEqual
  <2>. QED BY <2>2 DEF f
<1>. QED BY <1>4, <1>10, <1>11

-----------------------------------------------------------------------------
(* File URIs *)

\* What Decoded makes of the symbol at k.
NextAt(u, k) == IF u[k] = Percent THEN k + 3 ELSE k + 1
ByteOf(u, k) == IF u[k] = Percent THEN 16 * hex(u[k + 1]) + hex(u[k + 2]) ELSE u[k]
BadAt(u, k) ==
    IF u[k] = Percent THEN ~(k + 2 <= Len(u) /\ hex(u[k + 1]) >= 0 /\ hex(u[k + 2]) >= 0) ELSE u[k] \in {63, 35}
Refused(u, k) == BadAt(u, k) \/ ByteOf(u, k) \in {0, 92}
Rests(u, h) ==
    h = [k \in 1..Len(u) + 1 |->
            IF k > Len(u) THEN {<<>>}
            ELSE IF Refused(u, k) THEN {}
            ELSE {<<ByteOf(u, k)>> \o p : p \in h[NextAt(u, k)]}]
Rest(u) == CHOOSE h : Rests(u, h)

LEMMA DecodedIs == \A u : Decoded(u) = Rest(u)[Len(Scheme) + 1]
BY Zenon DEF Decoded, Rest, Rests, Refused, BadAt, ByteOf, NextAt

\* A function that is defined from its end.
FromEnd(L, Bad, byte, next, h) ==
    h = [k \in 1..L + 1 |-> IF k > L THEN {<<>>}
                            ELSE IF k \in Bad THEN {}
                            ELSE {<<byte[k]>> \o p : p \in h[next[k]]}]

LEMMA Backwards ==
    ASSUME NEW L \in Nat, NEW Bad, NEW byte, NEW next, \A k \in 1..L : k \in Bad \/ next[k] \in k + 1..L + 1
    PROVE  \E h : FromEnd(L, Bad, byte, next, h)
<1>. DEFINE T(k, x) == IF k > L THEN {<<>>} ELSE IF k \in Bad THEN {} ELSE {<<byte[k]>> \o p : p \in x}
            Good(h, m) == h = [k \in m..L + 1 |-> T(k, h[next[k]])]
            U == {n \in Nat : n <= L => \E h : Good(h, (L + 1) - n)}
<1>1. \A k \in 1..L + 1 : \A x, y : next[k] \in k + 1..L + 1 \/ T(k, x) = T(k, y)
  OBVIOUS
<1>2. \A k \in 1..L + 1 : \A x, y : k > L => T(k, x) = T(k, y)
  OBVIOUS
<1>. HIDE DEF T
<1>3. 0 \in U
  <2>. DEFINE h == [k \in L + 1..L + 1 |-> T(k, {})]
              g == [k \in L + 1..L + 1 |-> T(k, h[next[k]])]
  <2>1. \A k \in L + 1..L + 1 : h[k] = T(k, {}) /\ g[k] = T(k, h[next[k]]) /\ k > L /\ k \in 1..L + 1
    OBVIOUS
  <2>2. \A k \in L + 1..L + 1 : h[k] = g[k]
    <3>. HIDE DEF h, g
    <3>. QED BY <1>2, <2>1
  <2>3. h = g
    BY <2>2
  <2>4. Good(h, L + 1)
    <3>. HIDE DEF h
    <3>. QED BY <2>3
  <2>5. (L + 1) - 0 = L + 1
    OBVIOUS
  <2>. HIDE DEF h, g, Good
  <2>. QED BY <2>4, <2>5
<1>4. ASSUME NEW n \in U \cap Nat PROVE n + 1 \in U
  <2>1. ASSUME n + 1 <= L PROVE \E f : Good(f, (L + 1) - (n + 1))
    <3>. DEFINE m == (L + 1) - n
                a == (L + 1) - (n + 1)
    <3>1. m \in Nat /\ a \in 1..L /\ m = a + 1 /\ n <= L
      BY <2>1
    <3>2. PICK h : Good(h, m)
      BY <3>1
    <3>. HIDE DEF m, a
    <3>. DEFINE f == [k \in a..L + 1 |-> IF k = a THEN T(k, h[next[k]]) ELSE h[k]]
                g == [k \in a..L + 1 |-> T(k, f[next[k]])]
    <3>3. \A k \in m..L + 1 : h[k] = T(k, h[next[k]])
      BY <3>2
    <3>4. ASSUME NEW k \in a..L + 1 PROVE f[k] = T(k, h[next[k]])
      <4>1. k # a => k \in m..L + 1
        BY <3>1
      <4>2. f[k] = IF k = a THEN T(k, h[next[k]]) ELSE h[k]
        OBVIOUS
      <4>. HIDE DEF f
      <4>. QED BY <3>3, <4>1, <4>2
    <3>5. ASSUME NEW k \in a..L + 1 PROVE T(k, h[next[k]]) = T(k, f[next[k]])
      <4>1. k \in 1..L + 1 /\ k \in Nat
        BY <3>1
      <4>2. ASSUME next[k] \in k + 1..L + 1 PROVE f[next[k]] = h[next[k]]
        <5>1. next[k] \in a..L + 1 /\ next[k] # a
          BY <3>1, <4>1, <4>2
        <5>. QED BY <5>1
      <4>. HIDE DEF f
      <4>. QED BY <1>1, <4>1, <4>2
    <3>6. \A k \in a..L + 1 : f[k] = g[k]
      <4>1. \A k \in a..L + 1 : g[k] = T(k, f[next[k]])
        OBVIOUS
      <4>. HIDE DEF f, g
      <4>. QED BY <3>4, <3>5, <4>1
    <3>7. f = g
      BY <3>6
    <3>8. Good(f, a)
      <4>. HIDE DEF f
      <4>. QED BY <3>7
    <3>. HIDE DEF Good, f
    <3>. QED BY <3>8 DEF a
  <2>. HIDE DEF Good
  <2>. QED BY <2>1
<1>5. \E h : Good(h, 1)
  <2>. HIDE DEF Good
  <2>1. L \in U
    <3>. HIDE DEF U
    <3>. QED BY <1>3, <1>4, SetInduction
  <2>2. (L + 1) - L = 1
    OBVIOUS
  <2>. QED BY <2>1, <2>2
<1>. QED BY <1>5 DEF T, FromEnd

LEMMA Hexes ==
    /\ \A c \in 0..255 : hex(c) \in -1..15
    /\ \A n \in 0..15 : HexDigit(n) \in 0..255 /\ hex(HexDigit(n)) = n
<1>1. \A c \in 0..255 : hex(c) = IF c \in 48..57 THEN c - 48 ELSE IF c \in 97..102 THEN c - 87
                                ELSE IF c \in 65..70 THEN c - 55 ELSE -1
  BY DEF hex
<1>2. ASSUME NEW n \in 0..15 PROVE HexDigit(n) \in 0..255 /\ hex(HexDigit(n)) = n
  <2>1. CASE n < 10
    <3>1. HexDigit(n) = 48 + n /\ 48 + n \in 48..57 /\ 48 + n \in 0..255 /\ (48 + n) - 48 = n
      BY <2>1 DEF HexDigit
    <3>. QED BY <1>1, <3>1
  <2>2. CASE n >= 10
    <3>1. /\ HexDigit(n) = 55 + n /\ 55 + n \in 65..70 /\ 55 + n \in 0..255 /\ (55 + n) - 55 = n
          /\ ~(55 + n \in 48..57) /\ ~(55 + n \in 97..102)
      BY <2>2 DEF HexDigit
    <3>. QED BY <1>1, <3>1
  <2>. QED BY <2>1, <2>2
<1>. QED BY <1>1, <1>2

LEMMA Symbol ==
    ASSUME NEW u \in Seq(0..255), NEW k \in 1..Len(u), ~BadAt(u, k)
    PROVE  ByteOf(u, k) \in 0..255 /\ NextAt(u, k) \in k + 1..Len(u) + 1
<1>1. Len(u) \in Nat /\ \A i \in 1..Len(u) : u[i] \in 0..255
  BY ElementOfSeq, LenProperties
<1>2. CASE u[k] = Percent
  <2>1. k + 2 <= Len(u) /\ hex(u[k + 1]) >= 0 /\ hex(u[k + 2]) >= 0
    BY <1>2 DEF BadAt
  <2>2. k + 1 \in 1..Len(u) /\ k + 2 \in 1..Len(u) /\ k + 3 \in k + 1..Len(u) + 1
    BY <1>1, <2>1
  <2>3. hex(u[k + 1]) \in -1..15 /\ hex(u[k + 2]) \in -1..15
    BY <1>1, <2>2, Hexes
  <2>4. \A a, b \in 0..15 : 16 * a + b \in 0..255
    OBVIOUS
  <2>. DEFINE a == hex(u[k + 1])
              b == hex(u[k + 2])
  <2>5. a \in 0..15 /\ b \in 0..15
    BY <2>1, <2>3
  <2>6. ByteOf(u, k) = 16 * a + b /\ NextAt(u, k) = k + 3
    BY <1>2 DEF ByteOf, NextAt
  <2>. HIDE DEF a, b
  <2>. QED BY <2>2, <2>4, <2>5, <2>6
<1>3. CASE u[k] # Percent
  BY <1>1, <1>3 DEF ByteOf, NextAt
<1>. QED BY <1>2, <1>3

LEMMA RestIs ==
    ASSUME NEW u \in Seq(0..255)
    PROVE  Rests(u, Rest(u))
<1>. DEFINE L == Len(u)
            Bad == {k \in 1..L : Refused(u, k)}
            byte == [k \in 1..L |-> ByteOf(u, k)]
            next == [k \in 1..L |-> NextAt(u, k)]
<1>1. L \in Nat
  BY LenProperties
<1>2. \A k \in 1..L : k \in Bad \/ next[k] \in k + 1..L + 1
  BY Symbol DEF Refused
<1>3. \A k \in 1..L + 1 : k > L \/ (k \in 1..L /\ (k \in Bad <=> Refused(u, k)) /\ byte[k] = ByteOf(u, k) /\ next[k] = NextAt(u, k))
  BY <1>1
<1>. HIDE DEF L, Bad, byte, next
<1>4. PICK h : FromEnd(L, Bad, byte, next, h)
  BY <1>1, <1>2, Backwards
<1>5. Rests(u, h)
  <2>. DEFINE g == [k \in 1..L + 1 |-> IF k > L THEN {<<>>}
                                       ELSE IF k \in Bad THEN {}
                                       ELSE {<<byte[k]>> \o p : p \in h[next[k]]}]
              f == [k \in 1..L + 1 |-> IF k > L THEN {<<>>}
                                       ELSE IF Refused(u, k) THEN {}
                                       ELSE {<<ByteOf(u, k)>> \o p : p \in h[NextAt(u, k)]}]
  <2>1. ASSUME NEW k \in 1..L + 1 PROVE f[k] = g[k]
    <3>1. CASE k > L
      BY <3>1
    <3>2. CASE ~(k > L)
      <4>1. (k \in Bad <=> Refused(u, k)) /\ byte[k] = ByteOf(u, k) /\ next[k] = NextAt(u, k)
        BY <1>3, <3>2
      <4>. QED BY <3>2, <4>1
    <3>. QED BY <3>1, <3>2
  <2>2. f = g
    BY <2>1
  <2>3. h = g
    BY <1>4 DEF FromEnd
  <2>4. h = f
    BY <2>2, <2>3
  <2>. QED BY <2>4 DEF Rests, L
<1>. QED BY <1>5 DEF Rest

\* What lsp_uri writes for one byte.
Piece(c) == IF c \in Safe THEN <<c>> ELSE <<Percent, HexDigit(c \div 16), HexDigit(c % 16)>>
Written(s) == FlattenSeq([k \in DOMAIN s |-> Piece(s[k])])
Plain == (1..255) \ {92}
CharByte == 1..255

LEMMA UriIs ==
    \A s : lsp_uri(s) = IF s = <<>> \/ s[1] # Slash \/ Len(s) >= PathCap \/ ~jx_utf8_valid(s) THEN {}
                        ELSE {Scheme \o Written(s)}
BY Zenon DEF lsp_uri, Written, Piece

LEMMA Pieced ==
    ASSUME NEW c \in 0..255
    PROVE  Piece(c) \in Seq(0..255) /\ Len(Piece(c)) \in {1, 3}
<1>1. c \div 16 \in 0..15 /\ c % 16 \in 0..15
  OBVIOUS
<1>2. CASE c \in Safe
  <2>1. Piece(c) = <<c>>
    BY <1>2 DEF Piece
  <2>. QED BY <2>1
<1>3. CASE c \notin Safe
  <2>. DEFINE a == HexDigit(c \div 16)
              b == HexDigit(c % 16)
  <2>1. a \in 0..255 /\ b \in 0..255 /\ Percent \in 0..255
    BY <1>1, Hexes DEF Percent
  <2>. HIDE DEF a, b
  <2>2. Piece(c) = <<Percent, a, b>>
    BY <1>3 DEF Piece, a, b
  <2>. QED BY <2>1, <2>2
<1>. QED BY <1>2, <1>3

\* Where a byte was written, that byte is read; a backslash is refused.
LEMMA PieceRead ==
    ASSUME NEW u, Len(u) \in Nat, NEW q \in Nat \ {0}, NEW c \in 1..255, q + Len(Piece(c)) <= Len(u) + 1,
           \A j \in 1..Len(Piece(c)) : u[(q - 1) + j] = Piece(c)[j]
    PROVE  (Refused(u, q) <=> c = 92) /\ ByteOf(u, q) = c /\ NextAt(u, q) = q + Len(Piece(c)) /\ q <= Len(u)
<1>1. c \in 0..255 /\ c # 0
  OBVIOUS
<1>2. (q - 1) + 1 = q /\ (q - 1) + 2 = q + 1 /\ (q - 1) + 3 = q + 2
  OBVIOUS
<1>3. CASE c \in Safe
  <2>1. Piece(c) = <<c>> /\ Len(Piece(c)) = 1 /\ Piece(c)[1] = c
    BY <1>3 DEF Piece
  <2>2. u[q] = c
    BY <1>2, <2>1
  <2>3. c # Percent /\ c # 63 /\ c # 35
    BY <1>3 DEF Safe, Slash, Percent
  <2>. QED BY <1>1, <2>1, <2>2, <2>3 DEF Refused, BadAt, ByteOf, NextAt
<1>4. CASE c \notin Safe
  <2>. DEFINE a == c \div 16
              b == c % 16
              x == HexDigit(a)
              y == HexDigit(b)
  <2>1. a \in 0..15 /\ b \in 0..15 /\ c = 16 * a + b
    BY <1>1
  <2>2. hex(x) = a /\ hex(y) = b
    BY <2>1, Hexes
  <2>. HIDE DEF a, b, x, y
  <2>3. Piece(c) = <<Percent, x, y>>
    BY <1>4 DEF Piece, x, y, a, b
  <2>4. Len(Piece(c)) = 3 /\ Piece(c)[1] = Percent /\ Piece(c)[2] = x /\ Piece(c)[3] = y
    BY <2>3
  <2>5. u[q] = Percent /\ u[q + 1] = x /\ u[q + 2] = y
    BY <1>2, <2>4
  <2>6. q + 2 <= Len(u)
    BY <2>4
  <2>7. ByteOf(u, q) = c /\ NextAt(u, q) = q + 3
    BY <2>1, <2>2, <2>5 DEF ByteOf, NextAt
  <2>8. ~BadAt(u, q)
    BY <2>1, <2>2, <2>5, <2>6 DEF BadAt
  <2>. QED BY <1>1, <2>4, <2>6, <2>7, <2>8 DEF Refused
<1>. QED BY <1>3, <1>4

LEMMA Whole ==
    ASSUME NEW S, NEW s \in Seq(S)
    PROVE  /\ From(s, 1) = s /\ From(s, Len(s) + 1) = <<>>
           /\ \A k \in 1..Len(s) : <<s[k]>> \o From(s, k + 1) = From(s, k)
<1>1. Len(s) \in Nat /\ \A i \in 1..Len(s) : s[i] \in S
  BY ElementOfSeq, LenProperties
<1>2. \A k \in Nat \ {0} :
          /\ From(s, k) \in Seq(S)
          /\ Len(From(s, k)) = IF k <= Len(s) THEN Len(s) - k + 1 ELSE 0
          /\ \A i \in 1..Len(s) - k + 1 : From(s, k)[i] = s[k + i - 1]
  BY FromSlice
<1>3. From(s, 1) = s
  <2>. DEFINE f == From(s, 1)
  <2>1. f \in Seq(S) /\ Len(f) = (IF 1 <= Len(s) THEN Len(s) - 1 + 1 ELSE 0) /\ \A i \in 1..Len(s) - 1 + 1 : f[i] = s[1 + i - 1]
    BY <1>2
  <2>. HIDE DEF f
  <2>2. f \in Seq(S) /\ s \in Seq(S) /\ Len(f) = Len(s) /\ \A i \in 1..Len(f) : f[i] = s[i]
    BY <1>1, <2>1
  <2>3. f = s
    BY <2>2, SeqEqual
  <2>. QED BY <2>3 DEF f
<1>4. From(s, Len(s) + 1) = <<>>
  <2>. DEFINE f == From(s, Len(s) + 1)
  <2>1. f \in Seq(S) /\ Len(f) = 0
    BY <1>1, <1>2
  <2>. HIDE DEF f
  <2>2. f = <<>>
    BY <2>1, EmptySeq
  <2>. QED BY <2>2 DEF f
<1>5. ASSUME NEW k \in 1..Len(s) PROVE <<s[k]>> \o From(s, k + 1) = From(s, k)
  <2>. DEFINE p == <<s[k]>>
              f == From(s, k + 1)
              g == From(s, k)
  <2>1. k \in Nat \ {0} /\ k + 1 \in Nat \ {0} /\ k <= Len(s)
    BY <1>1
  <2>2. p \in Seq(S) /\ Len(p) = 1 /\ p[1] = s[k]
    BY <1>1
  <2>3. /\ f \in Seq(S) /\ Len(f) = (IF k + 1 <= Len(s) THEN Len(s) - (k + 1) + 1 ELSE 0)
        /\ \A i \in 1..Len(s) - (k + 1) + 1 : f[i] = s[(k + 1) + i - 1]
    BY <1>2, <2>1
  <2>4. /\ g \in Seq(S) /\ Len(g) = (IF k <= Len(s) THEN Len(s) - k + 1 ELSE 0)
        /\ \A i \in 1..Len(s) - k + 1 : g[i] = s[k + i - 1]
    BY <1>2, <2>1
  <2>. HIDE DEF p, f, g
  <2>5. Len(g) = Len(p) + Len(f)
    BY <1>1, <2>1, <2>2, <2>3, <2>4
  <2>6. \A i \in 1..Len(p) : g[i] = p[i]
    BY <1>1, <2>1, <2>2, <2>4
  <2>7. ASSUME NEW i \in 1..Len(f) PROVE g[Len(p) + i] = f[i]
    <3>1. /\ i \in 1..Len(s) - (k + 1) + 1 /\ 1 + i \in 1..Len(s) - k + 1
          /\ (k + 1) + i - 1 = k + (1 + i) - 1
      BY <1>1, <2>1, <2>3
    <3>. QED BY <2>2, <2>3, <2>4, <3>1
  <2>8. p \o f = g
    BY <2>2, <2>3, <2>4, <2>5, <2>6, <2>7, Joined
  <2>. QED BY <2>8 DEF p, f, g
<1>. QED BY <1>3, <1>4, <1>5

\* The end of a piece is never behind the end of the whole.
LEMMA EndsWithin ==
    ASSUME NEW S, NEW b \in Seq(Seq(S)), NEW off, EndsAt(off, b)
    PROVE  \A k \in 0..Len(b) : off[k] \in Nat /\ off[k] <= Len(FlattenSeq(b))
<1>. DEFINE n == Len(b)
<1>1. n \in Nat /\ \A k \in 1..n : Len(b[k]) \in Nat
  BY ElementOfSeq, LenProperties
<1>2. /\ off \in [0..n -> Nat] /\ Len(FlattenSeq(b)) = off[n]
      /\ \A k \in 1..n : off[k] = off[k - 1] + Len(b[k])
  BY DEF EndsAt
<1>. HIDE DEF n
<1>3. \A k \in 0..n : off[k] \in Nat
  BY <1>2
<1>. DEFINE U == {m \in Nat : m <= n => off[n - m] <= off[n]}
<1>4. 0 \in U
  BY <1>1, <1>3
<1>5. ASSUME NEW m \in U \cap Nat PROVE m + 1 \in U
  <2>1. ASSUME m + 1 <= n PROVE off[n - (m + 1)] <= off[n]
    <3>1. n - m \in 1..n /\ (n - m) - 1 = n - (m + 1) /\ m <= n /\ n - (m + 1) \in 0..n /\ n - m \in 0..n /\ n \in 0..n
      BY <1>1, <2>1
    <3>2. off[n - m] <= off[n] /\ off[n - m] = off[n - (m + 1)] + Len(b[n - m]) /\ Len(b[n - m]) \in Nat
      BY <1>1, <1>2, <3>1
    <3>. QED BY <1>3, <3>1, <3>2
  <2>. QED BY <2>1
<1>6. Nat \subseteq U
  <2>. HIDE DEF U
  <2>. QED BY <1>4, <1>5, SetInduction
<1>7. ASSUME NEW k \in 0..n PROVE off[k] <= off[n]
  <2>1. n - k \in Nat /\ n - k <= n /\ n - (n - k) = k
    BY <1>1
  <2>. QED BY <1>6, <2>1
<1>. QED BY <1>2, <1>3, <1>7 DEF n

\* Reading what was written gives the path, or nothing when a backslash is in it.
LEMMA Reread ==
    ASSUME NEW s \in Seq(CharByte)
    PROVE  /\ Scheme \o Written(s) \in Seq(0..255) /\ Written(s) \in Seq(0..255)
           /\ Decoded(Scheme \o Written(s)) = IF 92 \in ToSet(s) THEN {} ELSE {s}
           /\ Len(Scheme) = 7 /\ Len(Written(s)) \in Nat /\ Len(Written(s)) <= 3 * Len(s)
           /\ \A j \in 1..Len(Written(s)) : (Scheme \o Written(s))[7 + j] = Written(s)[j]
           /\ s # <<>> /\ s[1] = Slash => Len(Written(s)) > 0 /\ Written(s)[1] = Slash
<1>. DEFINE n == Len(s)
            b == [k \in DOMAIN s |-> Piece(s[k])]
            whole == Written(s)
            u == Scheme \o whole
<1>1. n \in Nat /\ DOMAIN s = 1..n /\ \A k \in 1..n : s[k] \in CharByte
  BY ElementOfSeq, LenProperties
<1>2. b \in Seq(Seq(0..255)) /\ Len(b) = n /\ \A k \in 1..n : b[k] = Piece(s[k]) /\ Len(Piece(s[k])) \in {1, 3}
  <2>1. \A k \in 1..n : Piece(s[k]) \in Seq(0..255) /\ Len(Piece(s[k])) \in {1, 3}
    <3>1. \A k \in 1..n : s[k] \in 0..255
      BY <1>1 DEF CharByte
    <3>. QED BY <3>1, Pieced
  <2>2. b = [k \in 1..n |-> Piece(s[k])]
    BY <1>1
  <2>. HIDE DEF b
  <2>3. b \in [1..n -> Seq(0..255)]
    BY <2>1, <2>2
  <2>. QED BY <1>1, <2>1, <2>2, <2>3
<1>3. whole = FlattenSeq(b)
  BY Zenon DEF Written
<1>. HIDE DEF b, whole
<1>4. whole \in Seq(0..255) /\ \E off : EndsAt(off, b)
  BY <1>2, <1>3, Flattened
<1>5. PICK off : EndsAt(off, b)
  BY <1>4
<1>6. /\ off[0] = 0 /\ Len(whole) = off[n]
      /\ \A k \in 1..n : off[k] = off[k - 1] + Len(Piece(s[k]))
      /\ \A k \in 1..n : \A j \in 1..Len(Piece(s[k])) : whole[off[k - 1] + j] = Piece(s[k])[j]
  <2>1. /\ off[0] = 0 /\ Len(FlattenSeq(b)) = off[Len(b)]
        /\ \A k \in 1..Len(b) : off[k] = off[k - 1] + Len(b[k])
        /\ \A k \in 1..Len(b) : \A j \in 1..Len(b[k]) : FlattenSeq(b)[off[k - 1] + j] = b[k][j]
    BY <1>5 DEF EndsAt
  <2>2. /\ off[0] = 0 /\ Len(whole) = off[n]
        /\ \A k \in 1..n : off[k] = off[k - 1] + Len(b[k])
        /\ \A k \in 1..n : \A j \in 1..Len(b[k]) : whole[off[k - 1] + j] = b[k][j]
    BY <1>2, <1>3, <2>1
  <2>3. \A k \in 1..n : b[k] = Piece(s[k])
    BY <1>2
  <2>. HIDE DEF n
  <2>. QED BY <2>2, <2>3
<1>7. \A k \in 0..n : off[k] \in Nat /\ off[k] <= Len(whole)
  BY <1>2, <1>3, <1>5, EndsWithin
<1>8. Scheme \in Seq(0..255) /\ Len(Scheme) = 7
  BY DEF Scheme, Slash
<1>9. /\ u \in Seq(0..255) /\ Len(u) = 7 + Len(whole) /\ Len(whole) \in Nat
      /\ \A j \in 1..Len(whole) : u[7 + j] = whole[j]
  <2>1. /\ Scheme \o whole \in Seq(0..255) /\ Len(Scheme \o whole) = Len(Scheme) + Len(whole)
        /\ \A i \in 1..Len(Scheme) + Len(whole) :
               (Scheme \o whole)[i] = IF i <= Len(Scheme) THEN Scheme[i] ELSE whole[i - Len(Scheme)]
    BY <1>4, <1>8, ConcatProperties
  <2>2. Len(whole) \in Nat
    BY <1>4, LenProperties
  <2>3. ASSUME NEW j \in 1..Len(whole) PROVE u[7 + j] = whole[j]
    <3>1. 7 + j \in 1..7 + Len(whole) /\ ~(7 + j <= 7) /\ (7 + j) - 7 = j
      BY <2>2
    <3>. QED BY <1>8, <2>1, <3>1
  <2>. QED BY <1>8, <2>1, <2>2, <2>3
<1>10. s # <<>> /\ s[1] = Slash => Len(whole) > 0 /\ whole[1] = Slash
  <2>1. ASSUME s # <<>>, s[1] = Slash PROVE Len(whole) > 0 /\ whole[1] = Slash
    <3>1. 1 \in 1..n
      BY <1>1, <2>1, EmptySeq
    <3>2. Piece(s[1]) = <<Slash>>
      BY <2>1 DEF Piece, Safe, Slash
    <3>3. Len(Piece(s[1])) = 1 /\ Piece(s[1])[1] = Slash /\ 1 \in 1..1
      BY <3>2
    <3>4. off[1] = 1 /\ whole[0 + 1] = Slash /\ 1 - 1 = 0
      BY <1>6, <3>1, <3>3
    <3>. QED BY <1>1, <1>7, <3>1, <3>4
  <2>. QED BY <2>1
<1>. HIDE DEF u, n
<1>11. \A k \in 1..Len(u) + 1 :
           Rest(u)[k] = IF k > Len(u) THEN {<<>>}
                        ELSE IF Refused(u, k) THEN {}
                        ELSE {<<ByteOf(u, k)>> \o p : p \in Rest(u)[NextAt(u, k)]}
  <2>. DEFINE h == Rest(u)
  <2>1. Rests(u, h)
    BY <1>9, RestIs
  <2>. HIDE DEF h
  <2>2. \A k \in 1..Len(u) + 1 :
           h[k] = IF k > Len(u) THEN {<<>>}
                  ELSE IF Refused(u, k) THEN {}
                  ELSE {<<ByteOf(u, k)>> \o p : p \in h[NextAt(u, k)]}
    BY <2>1 DEF Rests
  <2>. QED BY <2>2 DEF h
<1>. DEFINE Wrong(k) == \E j \in k..n : s[j] = 92
            U == {m \in Nat : m <= n => Rest(u)[8 + off[n - m]] = IF Wrong((n - m) + 1) THEN {} ELSE {From(s, (n - m) + 1)}}
<1>12. 0 \in U
  <2>1. n - 0 = n /\ 8 + off[n] = Len(u) + 1 /\ Len(u) + 1 \in 1..Len(u) + 1 /\ Len(u) + 1 > Len(u)
    BY <1>1, <1>6, <1>9
  <2>2. Rest(u)[8 + off[n]] = {<<>>}
    BY <1>11, <2>1
  <2>3. From(s, n + 1) = <<>>
    BY Whole DEF n
  <2>4. ~Wrong(n + 1)
    BY <1>1
  <2>. QED BY <2>1, <2>2, <2>3, <2>4
<1>13. ASSUME NEW m \in U \cap Nat PROVE m + 1 \in U
  <2>. HIDE DEF Wrong
  <2>1. ASSUME m + 1 <= n
        PROVE  Rest(u)[8 + off[n - (m + 1)]] = IF Wrong((n - (m + 1)) + 1) THEN {} ELSE {From(s, (n - (m + 1)) + 1)}
    <3>. DEFINE k == n - m
                q == 8 + off[k - 1]
    <3>1. k \in 1..n /\ n - (m + 1) = k - 1 /\ m <= n /\ k - 1 \in 0..n /\ k \in 0..n /\ (n - (m + 1)) + 1 = k
      BY <1>1, <2>1
    <3>2. Rest(u)[8 + off[k]] = IF Wrong(k + 1) THEN {} ELSE {From(s, k + 1)}
      BY <3>1
    <3>. HIDE DEF k
    <3>3. /\ off[k - 1] \in Nat /\ off[k] \in Nat /\ off[k] <= Len(whole)
          /\ off[k] = off[k - 1] + Len(Piece(s[k])) /\ Len(Piece(s[k])) \in {1, 3}
      BY <1>2, <1>6, <1>7, <3>1
    <3>4. /\ q \in Nat \ {0} /\ q + Len(Piece(s[k])) = 8 + off[k] /\ 8 + off[k] <= Len(u) + 1 /\ Len(u) \in Nat
      <4>. DEFINE w == Len(Piece(s[k]))
      <4>1. /\ off[k - 1] \in Nat /\ off[k] \in Nat /\ off[k] <= Len(whole) /\ off[k] = off[k - 1] + w /\ w \in Nat
            /\ Len(u) = 7 + Len(whole) /\ Len(whole) \in Nat
        BY <1>9, <3>3
      <4>. HIDE DEF w
      <4>2. /\ q \in Nat \ {0} /\ q + w = 8 + off[k] /\ 8 + off[k] <= Len(u) + 1 /\ Len(u) \in Nat
        BY <4>1
      <4>. QED BY <4>2 DEF w
    <3>5. ASSUME NEW j \in 1..Len(Piece(s[k])) PROVE u[(q - 1) + j] = Piece(s[k])[j]
      <4>1. off[k - 1] + j \in 1..Len(whole) /\ (q - 1) + j = 7 + (off[k - 1] + j)
        <5>. DEFINE w == Len(Piece(s[k]))
                    o == off[k - 1]
                    top == Len(whole)
        <5>1. w \in Nat /\ o \in Nat /\ o + w <= top /\ top \in Nat /\ j \in 1..w /\ q = 8 + o
          BY <1>9, <3>3
        <5>. HIDE DEF w, o, top, q
        <5>2. j \in Nat /\ 1 <= j /\ j <= w
          BY <5>1
        <5>3. o + j \in 1..top
          BY <5>1, <5>2
        <5>4. (q - 1) + j = 7 + (o + j)
          BY <5>1, <5>2
        <5>. QED BY <5>3, <5>4 DEF o, top
      <4>. QED BY <1>6, <1>9, <3>1, <4>1
    <3>. HIDE DEF q
    <3>6. s[k] \in 1..255
      BY <1>1, <3>1 DEF CharByte
    <3>7. (Refused(u, q) <=> s[k] = 92) /\ ByteOf(u, q) = s[k] /\ NextAt(u, q) = q + Len(Piece(s[k])) /\ q <= Len(u)
      BY <3>4, <3>5, <3>6, PieceRead
    <3>8. q \in 1..Len(u) + 1 /\ ~(q > Len(u))
      BY <3>4, <3>7
    <3>9. Rest(u)[q] = IF s[k] = 92 THEN {} ELSE {<<s[k]>> \o p : p \in Rest(u)[8 + off[k]]}
      <4>1. Rest(u)[q] = IF q > Len(u) THEN {<<>>}
                         ELSE IF Refused(u, q) THEN {}
                         ELSE {<<ByteOf(u, q)>> \o p : p \in Rest(u)[NextAt(u, q)]}
        BY <1>11, <3>8, Zenon
      <4>2. Rest(u)[q] = IF s[k] = 92 THEN {} ELSE {<<ByteOf(u, q)>> \o p : p \in Rest(u)[NextAt(u, q)]}
        BY <3>7, <3>8, <4>1, Zenon
      <4>3. NextAt(u, q) = 8 + off[k] /\ ByteOf(u, q) = s[k]
        BY <3>4, <3>7
      <4>. QED BY <4>2, <4>3, Zenon
    <3>10. Wrong(k) <=> s[k] = 92 \/ Wrong(k + 1)
      <4>1. k \in 1..n /\ n \in Nat
        BY <1>1, <3>1
      <4>2. \A j \in k..n : j = k \/ j \in k + 1..n
        BY <4>1
      <4>3. k \in k..n /\ \A j \in k + 1..n : j \in k..n
        BY <4>1
      <4>. QED BY <4>2, <4>3 DEF Wrong
    <3>11. <<s[k]>> \o From(s, k + 1) = From(s, k)
      BY <3>1, Whole DEF n
    <3>12. Rest(u)[q] = IF Wrong(k) THEN {} ELSE {From(s, k)}
      <4>1. CASE s[k] = 92
        BY <3>9, <3>10, <4>1
      <4>2. CASE s[k] # 92 /\ Wrong(k + 1)
        BY <3>2, <3>9, <3>10, <4>2
      <4>3. CASE s[k] # 92 /\ ~Wrong(k + 1)
        <5>1. Rest(u)[q] = {<<s[k]>> \o From(s, k + 1)}
          BY <3>2, <3>9, <4>3
        <5>. QED BY <3>10, <3>11, <4>3, <5>1
      <4>. QED BY <4>1, <4>2, <4>3
    <3>. QED BY <3>1, <3>12 DEF q
  <2>. QED BY <2>1
<1>14. Rest(u)[8] = IF 92 \in ToSet(s) THEN {} ELSE {s}
  <2>1. n \in U
    <3>. HIDE DEF U
    <3>. QED BY <1>1, <1>12, <1>13, SetInduction
  <2>2. n - n = 0 /\ 8 + off[0] = 8 /\ 0 + 1 = 1 /\ n <= n /\ n \in Nat
    BY <1>1, <1>6
  <2>3. From(s, 1) = s
    BY Whole
  <2>4. Wrong(1) <=> 92 \in ToSet(s)
    BY <1>1 DEF ToSet
  <2>5. Rest(u)[8 + off[n - n]] = IF Wrong((n - n) + 1) THEN {} ELSE {From(s, (n - n) + 1)}
    BY <2>1, <2>2
  <2>. HIDE DEF Wrong
  <2>. QED BY <2>2, <2>3, <2>4, <2>5
<1>15. Decoded(u) = IF 92 \in ToSet(s) THEN {} ELSE {s}
  <2>1. Len(Scheme) + 1 = 8
    BY <1>8
  <2>. QED BY <1>14, <2>1, DecodedIs, Zenon
\* a byte is written as three at most
<1>. DEFINE V == {m \in Nat : m <= n => off[m] <= 3 * m}
<1>16. 0 \in V
  BY <1>6
<1>17. ASSUME NEW m \in V \cap Nat PROVE m + 1 \in V
  <2>1. ASSUME m + 1 <= n PROVE off[m + 1] <= 3 * (m + 1)
    <3>1. m + 1 \in 1..n /\ (m + 1) - 1 = m /\ m <= n /\ m \in 0..n
      BY <1>1, <2>1
    <3>2. off[m] <= 3 * m /\ off[m] \in Nat /\ off[m + 1] = off[m] + Len(Piece(s[m + 1])) /\ Len(Piece(s[m + 1])) \in {1, 3}
      BY <1>2, <1>6, <1>7, <3>1
    <3>. DEFINE w == Len(Piece(s[m + 1]))
    <3>3. w = 1 \/ w = 3
      BY <3>2
    <3>. HIDE DEF w
    <3>4. off[m] <= 3 * m /\ off[m] \in Nat /\ off[m + 1] = off[m] + w /\ m \in Nat
      BY <3>2 DEF w
    <3>. QED BY <3>3, <3>4
  <2>. QED BY <2>1
<1>18. Len(whole) <= 3 * n
  <2>1. n \in V
    <3>. HIDE DEF V
    <3>. QED BY <1>1, <1>16, <1>17, SetInduction
  <2>. QED BY <1>1, <1>6, <2>1
<1>. QED BY <1>4, <1>8, <1>9, <1>10, <1>15, <1>18 DEF u, whole, n

LEMMA SchemeSlash ==
    /\ Scheme \in Seq(0..255) /\ Len(Scheme) = 7 /\ Slash \in 0..255
    /\ Append(Scheme, Slash) \in Seq(0..255) /\ Len(Append(Scheme, Slash)) = 8
    /\ Append(Scheme, Slash)[8] = Slash /\ \A i \in 1..7 : Append(Scheme, Slash)[i] = Scheme[i]
<1>1. Scheme \in Seq(0..255) /\ Len(Scheme) = 7 /\ Slash \in 0..255
  BY DEF Scheme, Slash
<1>2. /\ Append(Scheme, Slash) \in Seq(0..255) /\ Len(Append(Scheme, Slash)) = Len(Scheme) + 1
      /\ Append(Scheme, Slash)[Len(Scheme) + 1] = Slash
      /\ \A i \in 1..Len(Scheme) : Append(Scheme, Slash)[i] = Scheme[i]
  <2>1. ASSUME NEW S, NEW s \in Seq(S), NEW c \in S
        PROVE  /\ Append(s, c) \in Seq(S) /\ Len(Append(s, c)) = Len(s) + 1
               /\ Append(s, c)[Len(s) + 1] = c
               /\ \A i \in 1..Len(s) : Append(s, c)[i] = s[i]
    BY AppendProperties
  <2>. DEFINE S == 0..255
              s == Scheme
              c == Slash
  <2>2. s \in Seq(S) /\ c \in S
    BY <1>1
  <2>. HIDE DEF S, s, c
  <2>3. /\ Append(s, c) \in Seq(S) /\ Len(Append(s, c)) = Len(s) + 1
        /\ Append(s, c)[Len(s) + 1] = c
        /\ \A i \in 1..Len(s) : Append(s, c)[i] = s[i]
    BY <2>1, <2>2
  <2>. QED BY <2>3 DEF S, s, c
<1>. QED BY <1>1, <1>2

\* A URI of the scheme has a path of its own exactly when the next byte is a slash.
LEMMA OwnPath ==
    ASSUME NEW t \in Seq(0..255)
    PROVE  /\ Scheme \o t \in Seq(0..255) /\ Len(Scheme \o t) = 7 + Len(t)
           /\ IsPrefix(Append(Scheme, Slash), Scheme \o t) <=> Len(t) > 0 /\ (Scheme \o t)[8] = Slash
           /\ Len(t) > 0 => (Scheme \o t)[8] = t[1]
<1>. DEFINE a == Append(Scheme, Slash)
            v == Scheme \o t
<1>1. /\ v \in Seq(0..255) /\ Len(v) = Len(Scheme) + Len(t)
      /\ \A i \in 1..Len(Scheme) + Len(t) : v[i] = IF i <= Len(Scheme) THEN Scheme[i] ELSE t[i - Len(Scheme)]
  BY SchemeSlash, ConcatProperties
<1>2. /\ a \in Seq(0..255) /\ Len(a) = 8 /\ a[8] = Slash /\ (\A i \in 1..7 : a[i] = Scheme[i]) /\ Len(Scheme) = 7
  BY SchemeSlash
<1>3. Len(t) \in Nat
  BY LenProperties
<1>4. IsPrefix(a, v) <=> Len(a) <= Len(v) /\ SubSeq(a, 1, Len(a)) = SubSeq(v, 1, Len(a))
  BY Zenon DEF IsPrefix
<1>. HIDE DEF a, v
<1>5. Len(v) = 7 + Len(t) /\ (\A i \in 1..7 : v[i] = Scheme[i]) /\ (Len(t) > 0 => v[8] = t[1])
  BY <1>1, <1>2, <1>3
<1>6. ASSUME Len(t) > 0 PROVE SubSeq(a, 1, 8) = SubSeq(v, 1, 8) <=> v[8] = Slash
  <2>. DEFINE x == SubSeq(a, 1, 8)
              y == SubSeq(v, 1, 8)
  <2>1. 8 \in 0..Len(a) /\ 8 \in 0..Len(v) /\ 1 \in Nat \ {0} /\ 1 <= 8 /\ 8 - 1 + 1 = 8 /\ \A i \in 1..8 : 1 + i - 1 = i
    BY <1>2, <1>3, <1>5, <1>6
  <2>2. x \in Seq(0..255) /\ Len(x) = 8 /\ \A i \in 1..8 : x[i] = a[i]
    <3>1. ASSUME NEW m \in 0..Len(a), NEW k \in Nat \ {0}
          PROVE  /\ SubSeq(a, k, m) \in Seq(0..255)
                 /\ Len(SubSeq(a, k, m)) = IF k <= m THEN m - k + 1 ELSE 0
                 /\ \A i \in 1..m - k + 1 : SubSeq(a, k, m)[i] = a[k + i - 1]
      <4>1. a \in Seq(0..255)
        BY <1>2
      <4>. HIDE DEF x
      <4>. QED BY <4>1, Slice
    <3>. HIDE DEF x
    <3>2. /\ x \in Seq(0..255) /\ Len(x) = (IF 1 <= 8 THEN 8 - 1 + 1 ELSE 0)
          /\ \A i \in 1..8 - 1 + 1 : x[i] = a[1 + i - 1]
      BY <2>1, <3>1 DEF x
    <3>. QED BY <2>1, <3>2
  <2>3. y \in Seq(0..255) /\ Len(y) = 8 /\ \A i \in 1..8 : y[i] = v[i]
    <3>1. ASSUME NEW m \in 0..Len(v), NEW k \in Nat \ {0}
          PROVE  /\ SubSeq(v, k, m) \in Seq(0..255)
                 /\ Len(SubSeq(v, k, m)) = IF k <= m THEN m - k + 1 ELSE 0
                 /\ \A i \in 1..m - k + 1 : SubSeq(v, k, m)[i] = v[k + i - 1]
      BY <1>1, Slice
    <3>. HIDE DEF y
    <3>2. /\ y \in Seq(0..255) /\ Len(y) = (IF 1 <= 8 THEN 8 - 1 + 1 ELSE 0)
          /\ \A i \in 1..8 - 1 + 1 : y[i] = v[1 + i - 1]
      BY <2>1, <3>1 DEF y
    <3>. QED BY <2>1, <3>2
  <2>. HIDE DEF x, y
  <2>4. ASSUME v[8] = Slash PROVE x = y
    <3>1. ASSUME NEW i \in 1..8 PROVE x[i] = y[i]
      <4>1. i = 8 \/ i \in 1..7
        OBVIOUS
      <4>. QED BY <1>2, <1>5, <2>2, <2>3, <2>4, <4>1
    <3>2. Len(x) = Len(y) /\ \A i \in 1..Len(x) : x[i] = y[i]
      BY <2>2, <2>3, <3>1
    <3>. QED BY <2>2, <2>3, <3>2, SeqEqual
  <2>5. ASSUME x = y PROVE v[8] = Slash
    <3>1. 8 \in 1..8
      OBVIOUS
    <3>. QED BY <1>2, <2>2, <2>3, <2>5, <3>1
  <2>. QED BY <2>4, <2>5 DEF x, y
<1>7. IsPrefix(a, v) <=> Len(t) > 0 /\ v[8] = Slash
  <2>1. Len(a) <= Len(v) <=> Len(t) > 0
    BY <1>2, <1>3, <1>5
  <2>. QED BY <1>2, <1>4, <1>6, <2>1
<1>. QED BY <1>1, <1>5, <1>7 DEF a, v

\* What is read never holds a NUL or a backslash.
LEMMA ReadPlain ==
    ASSUME NEW u \in Seq(0..255), Len(u) >= 8, u[8] = Slash, NEW p \in Decoded(u)
    PROVE  p \in Seq(Plain) /\ p # <<>>
<1>. DEFINE L == Len(u)
            h == Rest(u)
<1>1. L \in Nat
  BY LenProperties
<1>2. Rests(u, h)
  BY RestIs
<1>3. Len(Scheme) + 1 = 8
  BY DEF Scheme
<1>4. Decoded(u) = h[8]
  BY <1>3, DecodedIs, Zenon
<1>. HIDE DEF h
<1>5. \A k \in 1..L + 1 : h[k] = IF k > L THEN {<<>>}
                                ELSE IF Refused(u, k) THEN {}
                                ELSE {<<ByteOf(u, k)>> \o t : t \in h[NextAt(u, k)]}
  BY <1>2 DEF Rests
<1>6. \A k \in 1..L : Refused(u, k) \/ (ByteOf(u, k) \in Plain /\ NextAt(u, k) \in k + 1..L + 1)
  BY Symbol DEF Refused, Plain
<1>. HIDE DEF L
<1>7. \A c \in Plain : \A t \in Seq(Plain) : <<c>> \o t \in Seq(Plain) /\ <<c>> \o t # <<>>
  <2>1. ASSUME NEW c \in Plain, NEW t \in Seq(Plain) PROVE <<c>> \o t \in Seq(Plain) /\ <<c>> \o t # <<>>
    <3>1. <<c>> \in Seq(Plain) /\ Len(<<c>>) = 1
      OBVIOUS
    <3>. DEFINE a == <<c>>
    <3>2. a \in Seq(Plain) /\ Len(a) = 1
      BY <3>1
    <3>. HIDE DEF a
    <3>3. a \o t \in Seq(Plain) /\ Len(a \o t) = 1 + Len(t) /\ Len(t) \in Nat
      BY <3>2, ConcatProperties, LenProperties
    <3>4. a \o t # <<>>
      BY <3>3
    <3>. QED BY <3>3, <3>4 DEF a
  <2>. QED BY <2>1
<1>. DEFINE U == {m \in Nat : \A k \in 1..L + 1 : k + m >= L + 1 => h[k] \subseteq Seq(Plain)}
<1>8. 0 \in U
  <2>1. ASSUME NEW k \in 1..L + 1, k + 0 >= L + 1 PROVE h[k] \subseteq Seq(Plain)
    <3>1. k > L
      BY <1>1, <2>1
    <3>2. h[k] = {<<>>}
      BY <1>5, <3>1
    <3>. QED BY <3>2
  <2>. QED BY <2>1
<1>9. ASSUME NEW m \in U \cap Nat PROVE m + 1 \in U
  <2>1. ASSUME NEW k \in 1..L + 1, k + (m + 1) >= L + 1 PROVE h[k] \subseteq Seq(Plain)
    <3>1. CASE k > L
      <4>1. h[k] = {<<>>}
        BY <1>5, <3>1
      <4>. QED BY <4>1
    <3>2. CASE ~(k > L) /\ Refused(u, k)
      BY <1>5, <3>2
    <3>3. CASE ~(k > L) /\ ~Refused(u, k)
      <4>1. k \in 1..L
        BY <1>1, <3>3
      <4>2. ByteOf(u, k) \in Plain /\ NextAt(u, k) \in k + 1..L + 1
        BY <1>6, <3>3, <4>1
      <4>3. NextAt(u, k) \in 1..L + 1 /\ NextAt(u, k) + m >= L + 1
        BY <1>1, <2>1, <4>1, <4>2
      <4>4. h[NextAt(u, k)] \subseteq Seq(Plain)
        BY <1>9, <4>3
      <4>5. h[k] = {<<ByteOf(u, k)>> \o t : t \in h[NextAt(u, k)]}
        BY <1>5, <3>3
      <4>. QED BY <1>7, <4>2, <4>4, <4>5
    <3>. QED BY <3>1, <3>2, <3>3
  <2>. QED BY <2>1
<1>10. \A k \in 1..L + 1 : h[k] \subseteq Seq(Plain)
  <2>1. L \in U
    <3>. HIDE DEF U
    <3>. QED BY <1>1, <1>8, <1>9, SetInduction
  <2>2. \A k \in 1..L + 1 : k + L >= L + 1
    BY <1>1
  <2>. QED BY <2>1, <2>2
<1>11. 8 \in 1..L /\ 8 \in 1..L + 1 /\ ~(8 > L)
  BY <1>1 DEF L
<1>12. p \in Seq(Plain)
  BY <1>4, <1>10, <1>11
<1>13. ~Refused(u, 8)
  BY <1>4, <1>5, <1>11
<1>14. ByteOf(u, 8) \in Plain /\ NextAt(u, 8) \in 8 + 1..L + 1
  BY <1>6, <1>11, <1>13
<1>15. PICK t \in h[NextAt(u, 8)] : p = <<ByteOf(u, 8)>> \o t
  <2>1. h[8] = IF 8 > L THEN {<<>>}
               ELSE IF Refused(u, 8) THEN {}
               ELSE {<<ByteOf(u, 8)>> \o t : t \in h[NextAt(u, 8)]}
    BY <1>5, <1>11, Zenon
  <2>2. h[8] = {<<ByteOf(u, 8)>> \o t : t \in h[NextAt(u, 8)]}
    BY <1>11, <1>13, <2>1, Zenon
  <2>. QED BY <1>4, <2>2, Zenon
<1>16. t \in Seq(Plain)
  BY <1>1, <1>10, <1>14
<1>. QED BY <1>7, <1>12, <1>14, <1>15, <1>16

\* For every C string: the URI of a path is read as that path, or refused when the
\* path has a backslash, and a path read from any URI has one URI of its own, which is
\* read as that path: the containment check and the server mean the same file
\* (lsp_uri.c), whatever texts jx_utf8_valid lets pass.
THEOREM UrisAreExact ==
    ASSUME PathCap \in Nat, NEW s \in Seq(1..255)
    PROVE  UriExact(s)
<1>1. ASSUME NEW p \in Seq(1..255), NEW u \in lsp_uri(p)
      PROVE  lsp_uri(p) = {u} /\ lsp_path(u) = IF 92 \in ToSet(p) THEN {} ELSE {p}
  <2>. DEFINE whole == Written(p)
              w == Scheme \o whole
  <2>1. p # <<>> /\ p[1] = Slash /\ Len(p) < PathCap /\ jx_utf8_valid(p) /\ lsp_uri(p) = {w}
    <3>1. Len(p) \in Nat
      BY LenProperties
    <3>2. p # <<>> /\ p[1] = Slash /\ ~(Len(p) >= PathCap) /\ jx_utf8_valid(p) /\ lsp_uri(p) = {w}
      BY UriIs
    <3>. QED BY <3>1, <3>2
  <2>2. /\ w \in Seq(0..255) /\ Decoded(w) = (IF 92 \in ToSet(p) THEN {} ELSE {p}) /\ Len(Scheme) = 7
        /\ Len(whole) \in Nat /\ Len(whole) <= 3 * Len(p)
        /\ (\A j \in 1..Len(whole) : w[7 + j] = whole[j]) /\ Len(whole) > 0 /\ whole[1] = Slash
    <3>1. p \in Seq(CharByte)
      BY DEF CharByte
    <3>. QED BY <2>1, <3>1, Reread
  <2>3. IsPrefix(Append(Scheme, Slash), w) /\ Len(w) = 7 + Len(whole)
    <3>1. whole \in Seq(0..255)
      <4>1. p \in Seq(CharByte)
        BY DEF CharByte
      <4>. QED BY <4>1, Reread
    <3>2. w[8] = whole[1]
      BY <2>2, <3>1, OwnPath
    <3>. QED BY <2>2, <3>1, <3>2, OwnPath
  <2>4. ~(Len(w) > 3 * PathCap + 7)
    <3>1. Len(p) \in Nat
      BY LenProperties
    <3>. HIDE DEF w, whole
    <3>. QED BY <2>1, <2>2, <2>3, <3>1
  <2>. HIDE DEF w, whole
  <2>5. lsp_path(w) = {x \in Decoded(w) : x[1] = Slash /\ Len(x) < PathCap /\ jx_utf8_valid(x)}
    BY <2>3, <2>4, Zenon DEF lsp_path
  <2>6. lsp_path(w) = IF 92 \in ToSet(p) THEN {} ELSE {p}
    BY <2>1, <2>2, <2>5
  <2>. QED BY <2>1, <2>6
<1>2. ASSUME NEW p \in lsp_path(Scheme \o s) PROVE \E u \in lsp_uri(p) : lsp_path(u) = {p}
  <2>. DEFINE v == Scheme \o s
  <2>1. IsPrefix(Append(Scheme, Slash), v) /\ p \in Decoded(v) /\ p[1] = Slash /\ Len(p) < PathCap /\ jx_utf8_valid(p)
    BY DEF lsp_path
  <2>2. s \in Seq(0..255)
    OBVIOUS
  <2>3. v \in Seq(0..255) /\ Len(v) >= 8 /\ v[8] = Slash
    <3>1. Len(s) \in Nat
      BY LenProperties
    <3>. QED BY <2>1, <2>2, <3>1, OwnPath
  <2>. HIDE DEF v
  <2>4. p \in Seq(Plain) /\ p # <<>>
    BY <2>1, <2>3, ReadPlain
  <2>5. p \in Seq(1..255) /\ 92 \notin ToSet(p)
    <3>1. \A k \in 1..Len(p) : p[k] \in Plain
      BY <2>4, ElementOfSeq
    <3>. QED BY <2>4, <3>1 DEF Plain, ToSet
  <2>6. ~(Len(p) >= PathCap)
    <3>1. Len(p) \in Nat
      BY <2>4, LenProperties
    <3>. QED BY <2>1, <3>1
  <2>7. Scheme \o Written(p) \in lsp_uri(p)
    BY <2>1, <2>4, <2>6, UriIs
  <2>. QED BY <1>1, <2>5, <2>7
<1>. QED BY <1>1, <1>2 DEF UriExact

=============================================================================
