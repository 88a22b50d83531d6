------------------------------ MODULE FsProofs ------------------------------
(***************************************************************************)
(* What the fs tool changes and reports, for every tree with links, every  *)
(* set of grants and every sequence of calls.                              *)
(***************************************************************************)
EXTENDS Fs, Induction, SequenceTheorems, FiniteSetTheorems, TLAPS

-----------------------------------------------------------------------------
(* Sequences and their beginnings *)

LEMMA Cuts ==
    ASSUME NEW S, NEW s \in Seq(S), NEW k \in 0..Len(s)
    PROVE  /\ SubSeq(s, 1, k) \in Seq(S) /\ Len(SubSeq(s, 1, k)) = k
           /\ \A i \in 1..k : SubSeq(s, 1, k)[i] = s[i]
<1>1. Len(s) \in Nat /\ \A i \in 1..k : s[i] \in S
  BY ElementOfSeq, LenProperties
<1>2. k \in Int /\ (IF 1 <= k THEN k - 1 + 1 ELSE 0) = k /\ k - 1 + 1 = k
  BY <1>1
<1>3. SubSeq(s, 1, k) \in Seq(S) /\ Len(SubSeq(s, 1, k)) = k
  BY <1>1, <1>2, SubSeqProperties
<1>4. \A i \in 1..k : SubSeq(s, 1, k)[i] = s[1 + i - 1]
  BY <1>1, <1>2, SubSeqProperties
<1>. QED BY <1>1, <1>3, <1>4

LEMMA CutOfCut ==
    ASSUME NEW S, NEW s \in Seq(S), NEW k \in 0..Len(s), NEW j \in 0..k
    PROVE  SubSeq(SubSeq(s, 1, k), 1, j) = SubSeq(s, 1, j)
<1>1. Len(s) \in Nat /\ j \in 0..Len(s)
  BY LenProperties
<1>2. SubSeq(s, 1, k) \in Seq(S) /\ Len(SubSeq(s, 1, k)) = k /\ \A i \in 1..k : SubSeq(s, 1, k)[i] = s[i]
  BY Cuts
<1>3. SubSeq(s, 1, j) \in Seq(S) /\ Len(SubSeq(s, 1, j)) = j /\ \A i \in 1..j : SubSeq(s, 1, j)[i] = s[i]
  BY <1>1, Cuts
<1>4. /\ SubSeq(SubSeq(s, 1, k), 1, j) \in Seq(S) /\ Len(SubSeq(SubSeq(s, 1, k), 1, j)) = j
      /\ \A i \in 1..j : SubSeq(SubSeq(s, 1, k), 1, j)[i] = SubSeq(s, 1, k)[i]
  BY <1>2, Cuts
<1>. QED BY <1>1, <1>2, <1>3, <1>4, SeqEqual

\* A sequence that is not empty is its front and its last element.
LEMMA Ends ==
    ASSUME NEW S, NEW s \in Seq(S), s # <<>>
    PROVE  /\ Len(s) \in Nat \ {0} /\ Front(s) \in Seq(S) /\ Len(Front(s)) = Len(s) - 1 /\ Last(s) \in S
           /\ s = Append(Front(s), Last(s)) /\ Front(s) = SubSeq(s, 1, Len(s) - 1) /\ Last(s) = s[Len(s)]
<1>1. Len(s) \in Nat \ {0}
  BY EmptySeq
<1>2. Last(s) \in S /\ Front(s) = SubSeq(s, 1, Len(s) - 1) /\ Last(s) = s[Len(s)]
  BY <1>1, ElementOfSeq DEF Front, Last
<1>3. /\ Front(s) \in Seq(S) /\ Len(Front(s)) = Len(s) - 1
      /\ \A i \in 1..Len(s) - 1 : Front(s)[i] = s[i]
  <2>1. Len(s) - 1 \in 0..Len(s)
    BY <1>1
  <2>. QED BY <1>2, <2>1, Cuts
<1>4. /\ Append(Front(s), Last(s)) \in Seq(S) /\ Len(Append(Front(s), Last(s))) = Len(s)
      /\ \A i \in 1..Len(s) : Append(Front(s), Last(s))[i] = s[i]
  BY <1>1, <1>2, <1>3, AppendProperties
<1>5. s = Append(Front(s), Last(s))
  BY <1>4, SeqEqual
<1>. QED BY <1>1, <1>2, <1>3, <1>5

LEMMA Appended ==
    ASSUME NEW S, NEW s \in Seq(S), NEW e \in S
    PROVE  /\ Append(s, e) \in Seq(S) /\ Append(s, e) # <<>> /\ Len(Append(s, e)) = Len(s) + 1
           /\ Front(Append(s, e)) = s /\ Last(Append(s, e)) = e
           /\ \A k \in 0..Len(s) : SubSeq(Append(s, e), 1, k) = SubSeq(s, 1, k)
<1>1. /\ Append(s, e) \in Seq(S) /\ Append(s, e) # <<>> /\ Len(Append(s, e)) = Len(s) + 1
      /\ Append(s, e)[Len(s) + 1] = e /\ Len(s) \in Nat
      /\ \A i \in 1..Len(s) : Append(s, e)[i] = s[i]
  BY AppendProperties, LenProperties
<1>2. Last(Append(s, e)) = e
  BY <1>1 DEF Last
<1>3. ASSUME NEW k \in 0..Len(s) PROVE SubSeq(Append(s, e), 1, k) = SubSeq(s, 1, k)
  <2>1. /\ SubSeq(s, 1, k) \in Seq(S) /\ Len(SubSeq(s, 1, k)) = k
        /\ \A i \in 1..k : SubSeq(s, 1, k)[i] = s[i]
    BY Cuts
  <2>2. /\ SubSeq(Append(s, e), 1, k) \in Seq(S) /\ Len(SubSeq(Append(s, e), 1, k)) = k
        /\ \A i \in 1..k : SubSeq(Append(s, e), 1, k)[i] = Append(s, e)[i]
    <3>1. k \in 0..Len(Append(s, e))
      BY <1>1
    <3>. QED BY <1>1, <3>1, Cuts
  <2>. QED BY <1>1, <2>1, <2>2, SeqEqual
<1>4. Front(Append(s, e)) = s
  <2>1. Front(Append(s, e)) = SubSeq(Append(s, e), 1, Len(s))
    BY <1>1 DEF Front
  <2>. QED BY <1>1, <1>3, <2>1, SubSeqFull
<1>. QED BY <1>1, <1>2, <1>3, <1>4

LEMMA Prefix ==
    ASSUME NEW S, NEW p \in Seq(S), NEW q \in Seq(S)
    PROVE  /\ IsPrefix(p, q) <=> Len(p) <= Len(q) /\ p = SubSeq(q, 1, Len(p))
           /\ IsPrefix(p, q) <=> Len(p) <= Len(q) /\ \A i \in 1..Len(p) : p[i] = q[i]
<1>1. Len(p) \in Nat /\ Len(q) \in Nat /\ DOMAIN p = 1..Len(p) /\ DOMAIN q = 1..Len(q)
  BY LenProperties
<1>2. ASSUME Len(p) <= Len(q)
      PROVE  p = SubSeq(q, 1, Len(p)) <=> \A i \in 1..Len(p) : p[i] = q[i]
  <2>1. /\ SubSeq(q, 1, Len(p)) \in Seq(S) /\ Len(SubSeq(q, 1, Len(p))) = Len(p)
        /\ \A i \in 1..Len(p) : SubSeq(q, 1, Len(p))[i] = q[i]
    BY <1>1, <1>2, Cuts
  <2>. QED BY <2>1, SeqEqual
<1>3. IsPrefix(p, q) <=> Len(p) <= Len(q) /\ p = SubSeq(q, 1, Len(p))
  BY <1>1, <1>2, SubSeqFull DEF IsPrefix
<1>. QED BY <1>2, <1>3

LEMMA PrefixOrder ==
    ASSUME NEW S, NEW p \in Seq(S), NEW q \in Seq(S), NEW r \in Seq(S)
    PROVE  /\ IsPrefix(p, p) /\ IsPrefix(<<>>, p)
           /\ IsPrefix(p, q) /\ IsPrefix(q, r) => IsPrefix(p, r)
           /\ IsPrefix(p, q) /\ IsPrefix(q, p) => p = q
           /\ IsPrefix(p, r) /\ IsPrefix(q, r) => IsPrefix(p, q) \/ IsPrefix(q, p)
<1>1. Len(p) \in Nat /\ Len(q) \in Nat /\ Len(r) \in Nat /\ Len(<<>>) = 0 /\ <<>> \in Seq(S)
  BY LenProperties, EmptySeq
<1>. DEFINE Pre(x, y) == Len(x) <= Len(y) /\ \A i \in 1..Len(x) : x[i] = y[i]
<1>2. \A x, y \in Seq(S) : IsPrefix(x, y) <=> Pre(x, y)
  BY Prefix
<1>3. Pre(p, p) /\ Pre(<<>>, p)
  BY <1>1
<1>4. Pre(p, q) /\ Pre(q, r) => Pre(p, r)
  BY <1>1
<1>5. Pre(p, q) /\ Pre(q, p) => p = q
  BY <1>1, SeqEqual
<1>6. Pre(p, r) /\ Pre(q, r) => Pre(p, q) \/ Pre(q, p)
  BY <1>1
<1>. HIDE DEF Pre
<1>. QED BY <1>1, <1>2, <1>3, <1>4, <1>5, <1>6

LEMMA PrefixEnds ==
    ASSUME NEW S, NEW p \in Seq(S), NEW q \in Seq(S)
    PROVE  /\ \A k \in 0..Len(q) : IsPrefix(SubSeq(q, 1, k), q)
           /\ \A e \in S : IsPrefix(q, Append(q, e)) /\ (IsPrefix(p, q) => IsPrefix(p, Append(q, e)))
           /\ q # <<>> /\ IsPrefix(p, q) /\ p # q => IsPrefix(p, Front(q))
           /\ q # <<>> => IsPrefix(Front(q), q)
<1>1. Len(p) \in Nat /\ Len(q) \in Nat
  BY LenProperties
<1>2. ASSUME NEW k \in 0..Len(q) PROVE IsPrefix(SubSeq(q, 1, k), q)
  <2>1. /\ SubSeq(q, 1, k) \in Seq(S) /\ Len(SubSeq(q, 1, k)) = k
        /\ \A i \in 1..k : SubSeq(q, 1, k)[i] = q[i]
    BY Cuts
  <2>2. /\ Len(SubSeq(q, 1, k)) <= Len(q)
        /\ \A i \in 1..Len(SubSeq(q, 1, k)) : SubSeq(q, 1, k)[i] = q[i]
    BY <1>1, <2>1
  <2>. QED BY <2>1, <2>2, Prefix
<1>3. ASSUME NEW e \in S
      PROVE  IsPrefix(q, Append(q, e)) /\ (IsPrefix(p, q) => IsPrefix(p, Append(q, e)))
  <2>1. Append(q, e) \in Seq(S) /\ Len(Append(q, e)) = Len(q) + 1 /\ \A i \in 1..Len(q) : Append(q, e)[i] = q[i]
    BY AppendProperties
  <2>2. Len(q) <= Len(Append(q, e))
    BY <1>1, <2>1
  <2>3. IsPrefix(q, Append(q, e))
    BY <2>1, <2>2, Prefix
  <2>. QED BY <2>1, <2>3, PrefixOrder
<1>4. ASSUME q # <<>>, IsPrefix(p, q), p # q PROVE IsPrefix(p, Front(q))
  <2>1. Len(p) <= Len(q) /\ \A i \in 1..Len(p) : p[i] = q[i]
    BY <1>4, Prefix
  <2>2. Len(p) # Len(q)
    BY <1>4, <2>1, SeqEqual
  <2>3. Front(q) = SubSeq(q, 1, Len(q) - 1) /\ Len(q) - 1 \in 0..Len(q)
    BY <1>1, <1>4, Ends
  <2>4. /\ Front(q) \in Seq(S) /\ Len(Front(q)) = Len(q) - 1
        /\ \A i \in 1..Len(q) - 1 : Front(q)[i] = q[i]
    BY <2>3, Cuts
  <2>5. Len(p) \in Nat /\ Len(q) \in Nat /\ Len(p) <= Len(q) - 1
    BY <1>1, <2>1, <2>2
  <2>6. \A i \in 1..Len(p) : i \in 1..Len(q) - 1 /\ p[i] = Front(q)[i]
    BY <2>1, <2>4, <2>5
  <2>. QED BY <2>4, <2>5, <2>6, Prefix
<1>5. ASSUME q # <<>> PROVE IsPrefix(Front(q), q)
  <2>1. Front(q) = SubSeq(q, 1, Len(q) - 1) /\ Len(q) - 1 \in 0..Len(q)
    BY <1>1, <1>5, Ends
  <2>. QED BY <1>2, <2>1
<1>. QED BY <1>2, <1>3, <1>4, <1>5

\* What holds of the empty sequence and is kept by Append holds of all.
LEMMA AppendInduction ==
    ASSUME NEW S, NEW T, <<>> \in T, \A s \in T \cap Seq(S) : \A e \in S : Append(s, e) \in T
    PROVE  Seq(S) \subseteq T
<1>. DEFINE U == {n \in Nat : \A s \in Seq(S) : Len(s) = n => s \in T}
<1>1. 0 \in U
  BY EmptySeq
<1>2. ASSUME NEW n \in U \cap Nat PROVE n + 1 \in U
  <2>1. ASSUME NEW s \in Seq(S), Len(s) = n + 1 PROVE s \in T
    <3>1. s # <<>>
      BY <2>1, EmptySeq
    <3>2. Front(s) \in Seq(S) /\ Len(Front(s)) = Len(s) - 1 /\ Last(s) \in S /\ s = Append(Front(s), Last(s))
      BY <3>1, Ends
    <3>3. Front(s) \in T
      BY <2>1, <3>2
    <3>. QED BY <3>2, <3>3
  <2>. QED BY <2>1
<1>3. Nat \subseteq U
  <2>. HIDE DEF U
  <2>. QED BY <1>1, <1>2, SetInduction
<1>4. \A s \in Seq(S) : Len(s) \in Nat
  BY LenProperties
<1>. QED BY <1>3, <1>4

LEMMA CutNext ==
    ASSUME NEW S, NEW s \in Seq(S), NEW k \in 1..Len(s)
    PROVE  SubSeq(s, 1, k) = Append(SubSeq(s, 1, k - 1), s[k])
<1>1. Len(s) \in Nat /\ k - 1 \in 0..Len(s) /\ k \in 0..Len(s) /\ s[k] \in S
  BY LenProperties, ElementOfSeq
<1>2. SubSeq(s, 1, k) \in Seq(S) /\ Len(SubSeq(s, 1, k)) = k /\ \A i \in 1..k : SubSeq(s, 1, k)[i] = s[i]
  BY <1>1, Cuts
<1>3. /\ SubSeq(s, 1, k - 1) \in Seq(S) /\ Len(SubSeq(s, 1, k - 1)) = k - 1
      /\ \A i \in 1..k - 1 : SubSeq(s, 1, k - 1)[i] = s[i]
  BY <1>1, Cuts
<1>4. /\ Append(SubSeq(s, 1, k - 1), s[k]) \in Seq(S) /\ Len(Append(SubSeq(s, 1, k - 1), s[k])) = k
      /\ \A i \in 1..k : Append(SubSeq(s, 1, k - 1), s[k])[i] = s[i]
  BY <1>1, <1>3, AppendProperties
<1>. QED BY <1>1, <1>2, <1>4, SeqEqual

LEMMA PrefixConcat ==
    ASSUME NEW S, NEW x \in Seq(S), NEW y \in Seq(S)
    PROVE  x \o y \in Seq(S) /\ Len(x \o y) = Len(x) + Len(y) /\ IsPrefix(x, x \o y)
<1>1. /\ Len(x) \in Nat /\ Len(y) \in Nat /\ x \o y \in Seq(S) /\ Len(x \o y) = Len(x) + Len(y)
      /\ \A i \in 1..Len(x) + Len(y) : (x \o y)[i] = IF i <= Len(x) THEN x[i] ELSE y[i - Len(x)]
  BY LenProperties, ConcatProperties
<1>2. Len(x) <= Len(x \o y) /\ \A i \in 1..Len(x) : x[i] = (x \o y)[i]
  BY <1>1
<1>. QED BY <1>1, <1>2, Prefix

-----------------------------------------------------------------------------
(* The invariant: what the frames of a command may reach *)

\* What comes before the last name of p is where p says it is, or nowhere.
Lexical(t, p) == p = <<>> \/ os_realpath(t, Front(p)) \in {Front(p), Missing, Failed}
Straight(t, p) == \A k \in 0..Len(p) - 1 : os_realpath(t, SubSeq(p, 1, k)) \in {SubSeq(p, 1, k), Missing, Failed}
Writable(p) == Covered(op.eff, p, {"w"})

Writes == {"create", "overwrite", "append", "mkdir"}
Parents == {"parent", "parent?"}
Dos == Writes \cup Parents \cup {"fill", "refuse", "drop", "rmdir", "unlink", "tree", "entries", "file", "data",
                                 "link", "rename", "walk", "listing", "keep"}
FrameType == [do : Dos, at : Seq(Name), from : Seq(Int), depth : Nat, left : SUBSET Name]

FsTypeOK ==
    /\ IsTree(tree) /\ granted \in Grants /\ asked \in Nat /\ counted \in Nat
    /\ work \in Seq(FrameType)
    /\ outcome = "running" => /\ op.cmd \in Writes \cup {"remove", "copy", "move", "list"}
                              /\ op.a \in Seq(Name) /\ op.b \in Seq(Name)
                              /\ \A e \in op.eff : e.path \in Seq(Name)

\* The parents of the path, then the call itself; or the content.
Preparing ==
    /\ Straight(tree, op.a)
    /\ Is(tree, op.a, "link") => Is(op.before, op.a, "link")
    /\ \A i \in 1..Len(work) :
         IF i = Len(work) THEN work[i].do \in {op.cmd, "refuse"} /\ work[i].at = op.a
         ELSE work[i].do \in Parents /\ IsPrefix(work[i].at, op.a) /\ work[i].at # op.a
Filling ==
    /\ Len(work) = 1 /\ work[1].do = "fill" /\ Is(tree, work[1].at, "file")
    /\ Writable(work[1].at) \/ ThroughLink
WritingInv == Writable(op.a) /\ (work = <<>> \/ Preparing \/ Filling)

\* No link is passed on the way.
RemovingFrames ==
    {g \in FrameType :
        /\ g.do \in {"drop", "rmdir"} /\ IsPrefix(op.a, g.at)
        /\ \A k \in 0..Len(g.at) - 1 : ~Is(tree, SubSeq(g.at, 1, k), "link")
        /\ g.do = "rmdir" => ~Is(tree, g.at, "link")}
RemovingInv == Writable(op.a) /\ work \in Seq(RemovingFrames)

\* Below the innermost frame there are directories that are being copied.
CopiedDirs == {g \in FrameType : g.do = "entries" /\ IsPrefix(op.b, g.at) /\ Is(tree, g.at, "dir")}
CopyingFrames ==
    CopiedDirs \cup
    {g \in FrameType :
        /\ IsPrefix(op.b, g.at)
        /\ \/ g.do = "refuse"
           \/ g.do \in {"tree", "file", "link"} /\ Lexical(tree, g.at)
           \/ g.do = "data" /\ Is(tree, g.at, "file") /\ Is(tree, g.from, "file")}
CopyingInv ==
    /\ Writable(op.b)
    /\ work # <<>> => Head(work) \in CopyingFrames /\ Tail(work) \in Seq(CopiedDirs)

\* A rename, or a copy and an unlink.
Unlinking(i) == work[i].do = "unlink" /\ work[i].at = op.a /\ Is(tree, op.a, "file")
MovingInv ==
    /\ Writable(op.a) /\ Writable(op.b)
    /\ \/ work = <<>>
       \/ /\ Len(work) = 1 /\ work[1].do = "rename" /\ work[1].from = op.a /\ work[1].at = op.b
          /\ op.a \in DOMAIN tree /\ ~Is(tree, op.a, "link") /\ Lexical(tree, op.b)
       \/ /\ Len(work) = 2 /\ Unlinking(2) /\ work[1].do = "file" /\ work[1].from = op.a /\ work[1].at = op.b
          /\ Lexical(tree, op.b)
       \/ /\ Len(work) = 2 /\ Unlinking(2) /\ work[1].do = "data" /\ work[1].from = op.a /\ work[1].at = op.b
          /\ Is(tree, op.b, "file")
       \/ Len(work) = 1 /\ Unlinking(1)

ListingInv == \A i \in 1..Len(work) : work[i].do \in {"walk", "listing", "keep"}

FsInv ==
    /\ FsTypeOK
    /\ outcome = "running" =>
         /\ op.cmd \in Writes => WritingInv
         /\ op.cmd = "remove" => RemovingInv
         /\ op.cmd = "copy" => CopyingInv
         /\ op.cmd = "move" => MovingInv
         /\ op.cmd = "list" => ListingInv

-----------------------------------------------------------------------------
(* Resolution *)

\* What a path can lead to: nothing, or what is in the tree and is no link.
Ends1(t) == {Missing, Failed} \cup {q \in DOMAIN t : t[q].kind # "link"}

LEMMA Marks ==
    /\ Missing \in Seq(Int) /\ Failed \in Seq(Int) /\ Missing # Failed
    /\ Missing \notin Seq(Name) /\ Failed \notin Seq(Name)
    /\ Name \subseteq Int /\ Dot \notin Name /\ DotDot \notin Name /\ Seq(Name) \subseteq Seq(Int)
<1>1. Name \subseteq Int /\ Dot \notin Name /\ DotDot \notin Name
  BY DEF Name, Dot, DotDot
<1>2. Seq(Name) \subseteq Seq(Int)
  BY <1>1, SeqMonotonic
<1>3. Len(Missing) = 1 /\ Missing[1] = -9 /\ Len(Failed) = 1 /\ Failed[1] = -8
  BY DEF Missing, Failed
<1>4. Missing \notin Seq(Name) /\ Failed \notin Seq(Name)
  <2>1. \A s \in Seq(Name) : Len(s) = 1 => s[1] \in Name
    BY ElementOfSeq
  <2>2. -9 \notin Name /\ -8 \notin Name
    BY DEF Name
  <2>. QED BY <1>3, <2>1, <2>2
<1>5. Missing \in Seq(Int) /\ Failed \in Seq(Int)
  BY DEF Missing, Failed
<1>6. Missing # Failed
  <2>1. -9 # -8
    OBVIOUS
  <2>. QED BY <1>3, <2>1
<1>. QED BY <1>1, <1>2, <1>4, <1>5, <1>6

LEMMA Nodes ==
    ASSUME NEW node \in Node
    PROVE  /\ node.data \in Seq(Int) /\ node.kind \in {"dir", "file", "link"}
           /\ node.kind = "dir" => node = Dir
           /\ node.kind = "file" => node = FileOf(node.data)
           /\ node.kind = "link" => node = LinkTo(node.data)
<1>1. Dir.data \in Seq(Int) /\ Dir.kind = "dir"
  BY EmptySeq DEF Dir
<1>. QED BY <1>1 DEF Node, FileOf, LinkTo

\* The directory a path of the tree is in.
LEMMA InTree ==
    ASSUME NEW t, IsTree(t), NEW q \in DOMAIN t
    PROVE  /\ q \in Seq(Name) /\ q \in Seq(Int) /\ t[q] \in Node /\ t[q].data \in Seq(Int)
           /\ q # <<>> => Is(t, Front(q), "dir") /\ Last(q) \in Name
           /\ \A k \in 0..Len(q) - 1 : Is(t, SubSeq(q, 1, k), "dir")
<1>1. q \in Seq(Name) /\ t[q] \in Node /\ \A k \in 0..Len(q) - 1 : Is(t, SubSeq(q, 1, k), "dir")
  BY DEF IsTree
<1>2. ASSUME q # <<>> PROVE Is(t, Front(q), "dir") /\ Last(q) \in Name
  <2>1. Len(q) \in Nat \ {0} /\ Last(q) \in Name /\ Front(q) = SubSeq(q, 1, Len(q) - 1)
    BY <1>1, <1>2, Ends
  <2>. QED BY <1>1, <2>1
<1>. QED BY <1>1, <1>2, Marks, Nodes

LEMMA JoinType ==
    ASSUME NEW t, IsTree(t), NEW far \in [Seq(Int) -> Seq(Int)], NEW at \in Seq(Int), NEW name
    PROVE  /\ Join(t, far, at, name) \in Seq(Int)
           /\ far \in [Seq(Int) -> Ends1(t)] /\ at \in Ends1(t) => Join(t, far, at, name) \in Ends1(t)
<1>. DEFINE next == Append(at, name)
<1>1. CASE at = Failed \/ ~Is(t, at, "dir")
  BY <1>1, Marks DEF Join, Ends1
<1>2. CASE at # Failed /\ Is(t, at, "dir") /\ name = Dot
  BY <1>2, Marks DEF Join, Ends1
<1>3. CASE at # Failed /\ Is(t, at, "dir") /\ name # Dot /\ name = DotDot
  <2>1. Join(t, far, at, name) = IF at = <<>> THEN at ELSE Front(at)
    BY <1>3 DEF Join
  <2>2. at # <<>> => Is(t, Front(at), "dir")
    BY <1>3, InTree DEF Is
  <2>3. at # <<>> => Front(at) \in Seq(Int) /\ Front(at) \in Ends1(t)
    BY <2>2, InTree DEF Is, Ends1
  <2>. QED BY <2>1, <2>3
<1>4. CASE at # Failed /\ Is(t, at, "dir") /\ name # Dot /\ name # DotDot
  <2>1. Join(t, far, at, name) = IF next \notin DOMAIN t THEN Missing
                                 ELSE IF Is(t, next, "link") THEN far[t[next].data] ELSE next
    BY <1>4 DEF Join
  <2>2. CASE next \notin DOMAIN t
    BY <2>1, <2>2, Marks DEF Ends1
  <2>3. CASE next \in DOMAIN t /\ Is(t, next, "link")
    <3>1. t[next].data \in Seq(Int)
      BY <2>3, InTree
    <3>. QED BY <2>1, <2>3, <3>1
  <2>4. CASE next \in DOMAIN t /\ ~Is(t, next, "link")
    <3>1. next \in Seq(Int)
      BY <2>4, InTree
    <3>. QED BY <2>1, <2>4, <3>1 DEF Ends1, Is
  <2>. QED BY <2>2, <2>3, <2>4
<1>. QED BY <1>1, <1>2, <1>3, <1>4

LEMMA AlongUnfold ==
    ASSUME NEW t, IsTree(t), NEW far \in [Seq(Int) -> Seq(Int)], NEW p
    PROVE  /\ Along(t, far, p) \in [Nat -> Seq(Int)]
           /\ Along(t, far, p)[0] = <<>>
           /\ \A k \in Nat \ {0} : Along(t, far, p)[k] = Join(t, far, Along(t, far, p)[k - 1], p[k])
<1>. DEFINE P(g) == g = [k \in Nat |-> IF k = 0 THEN <<>> ELSE Join(t, far, g[k - 1], p[k])]
            step == [k \in Nat |-> [x \in Seq(Int) |-> Join(t, far, x, p[k])]]
<1>1. step \in [Nat -> [Seq(Int) -> Seq(Int)]] /\ \A k \in Nat : \A x \in Seq(Int) : step[k][x] = Join(t, far, x, p[k])
  BY JoinType
<1>2. \E g : Iterates(g, Seq(Int), <<>>, step)
  <2>1. <<>> \in Seq(Int)
    BY EmptySeq
  <2>. HIDE DEF step
  <2>. QED BY <1>1, <2>1, Iteration
<1>3. PICK g : Iterates(g, Seq(Int), <<>>, step)
  BY <1>2
<1>4. P(g)
  <2>1. \A n \in Nat : (IF n = 0 THEN <<>> ELSE step[n][g[n - 1]]) = (IF n = 0 THEN <<>> ELSE Join(t, far, g[n - 1], p[n]))
    <3>1. \A n \in Nat : n # 0 => n - 1 \in Nat /\ g[n - 1] \in Seq(Int)
      BY <1>3 DEF Iterates
    <3>. HIDE DEF step
    <3>. QED BY <1>1, <3>1
  <2>. HIDE DEF step
  <2>. QED BY <1>3, <2>1 DEF Iterates
<1>5. Along(t, far, p) = CHOOSE h : P(h)
  BY Zenon DEF Along
<1>6. P(Along(t, far, p))
  <2>. HIDE DEF P
  <2>. QED BY <1>4, <1>5
<1>. DEFINE a == Along(t, far, p)
<1>7. a[0] = <<>> /\ \A k \in Nat \ {0} : a[k] = Join(t, far, a[k - 1], p[k])
  BY <1>6
<1>8. a \in [Nat -> Seq(Int)]
  <2>. DEFINE U == {n \in Nat : a[n] \in Seq(Int)}
  <2>1. 0 \in U
    BY <1>7, EmptySeq
  <2>2. ASSUME NEW n \in U \cap Nat PROVE n + 1 \in U
    <3>1. n + 1 \in Nat \ {0} /\ (n + 1) - 1 = n /\ a[n] \in Seq(Int)
      OBVIOUS
    <3>2. a[n + 1] = Join(t, far, a[n], p[n + 1])
      BY <1>7, <3>1
    <3>. HIDE DEF a
    <3>. QED BY <3>1, <3>2, JoinType
  <2>3. Nat \subseteq U
    <3>. HIDE DEF U
    <3>. QED BY <2>1, <2>2, SetInduction
  <2>4. \A n \in Nat : a[n] \in Seq(Int)
    BY <2>3
  <2>5. a = [k \in Nat |-> a[k]]
    BY <1>6
  <2>. HIDE DEF a
  <2>. QED BY <2>4, <2>5
<1>. QED BY <1>7, <1>8

LEMMA EndsType ==
    ASSUME NEW t, IsTree(t)
    PROVE  Ends1(t) \subseteq Seq(Int) /\ <<>> \in Ends1(t) /\ Failed \in Ends1(t) /\ <<>> \in DOMAIN t
<1>1. <<>> \in DOMAIN t /\ t[<<>>].kind # "link"
  BY DEF IsTree, Is
<1>. QED BY <1>1, InTree, Marks DEF Ends1

LEMMA AlongEnds ==
    ASSUME NEW t, IsTree(t), NEW far \in [Seq(Int) -> Ends1(t)], NEW p
    PROVE  \A k \in Nat : Along(t, far, p)[k] \in Ends1(t)
<1>. DEFINE a == Along(t, far, p)
            U == {n \in Nat : a[n] \in Ends1(t)}
<1>1. far \in [Seq(Int) -> Seq(Int)]
  BY EndsType
<1>2. a \in [Nat -> Seq(Int)] /\ a[0] = <<>> /\ \A k \in Nat \ {0} : a[k] = Join(t, far, a[k - 1], p[k])
  BY <1>1, AlongUnfold
<1>3. 0 \in U
  BY <1>2, EndsType
<1>4. ASSUME NEW n \in U \cap Nat PROVE n + 1 \in U
  <2>1. n + 1 \in Nat \ {0} /\ (n + 1) - 1 = n /\ a[n] \in Ends1(t) /\ a[n] \in Seq(Int)
    BY EndsType
  <2>2. a[n + 1] = Join(t, far, a[n], p[n + 1])
    BY <1>2, <2>1
  <2>. HIDE DEF a
  <2>. QED BY <1>1, <2>1, <2>2, JoinType, SMTT(25)
<1>5. Nat \subseteq U
  <2>. HIDE DEF U
  <2>. QED BY <1>3, <1>4, SetInduction
<1>. QED BY <1>5

\* The names that come first lead to the same place whatever follows.
LEMMA AlongSame ==
    ASSUME NEW t, IsTree(t), NEW far \in [Seq(Int) -> Seq(Int)], NEW p \in Seq(Int), NEW n \in Int
    PROVE  \A k \in 0..Len(p) : Along(t, far, Append(p, n))[k] = Along(t, far, p)[k]
<1>. DEFINE a == Along(t, far, p)
            b == Along(t, far, Append(p, n))
            U == {k \in Nat : k <= Len(p) => b[k] = a[k]}
<1>1. /\ a[0] = <<>> /\ \A k \in Nat \ {0} : a[k] = Join(t, far, a[k - 1], p[k])
      /\ b[0] = <<>> /\ \A k \in Nat \ {0} : b[k] = Join(t, far, b[k - 1], Append(p, n)[k])
  <2>1. a[0] = <<>> /\ \A k \in Nat \ {0} : a[k] = Join(t, far, a[k - 1], p[k])
    BY AlongUnfold
  <2>2. ASSUME NEW q, q = Append(p, n)
        PROVE  /\ Along(t, far, q)[0] = <<>>
               /\ \A k \in Nat \ {0} : Along(t, far, q)[k] = Join(t, far, Along(t, far, q)[k - 1], q[k])
    BY AlongUnfold
  <2>. QED BY <2>1, <2>2
<1>2. Len(p) \in Nat /\ \A k \in 1..Len(p) : Append(p, n)[k] = p[k]
  BY AppendProperties, LenProperties
<1>. HIDE DEF a, b
<1>3. 0 \in U
  BY <1>1
<1>4. ASSUME NEW k \in U \cap Nat PROVE k + 1 \in U
  <2>1. CASE k + 1 <= Len(p)
    <3>1. k + 1 \in Nat \ {0} /\ (k + 1) - 1 = k /\ k <= Len(p) /\ k + 1 \in 1..Len(p)
      BY <1>2, <2>1
    <3>2. a[k + 1] = Join(t, far, a[k], p[k + 1]) /\ b[k + 1] = Join(t, far, b[k], p[k + 1])
      BY <1>1, <1>2, <3>1
    <3>3. b[k] = a[k]
      BY <3>1
    <3>. QED BY <3>1, <3>2, <3>3
  <2>. QED BY <2>1
<1>5. Nat \subseteq U
  <2>. HIDE DEF U
  <2>. QED BY <1>3, <1>4, SetInduction
<1>6. \A k \in 0..Len(p) : b[k] = a[k]
  BY <1>2, <1>5
<1>. QED BY <1>6 DEF a, b

LEMMA ThroughUnfold ==
    ASSUME NEW t, IsTree(t)
    PROVE  /\ Through(t) \in [Nat -> [Seq(Int) -> Seq(Int)]]
           /\ Through(t)[0] = [p \in Seq(Int) |-> Failed]
           /\ \A h \in Nat \ {0} : Through(t)[h] = [p \in Seq(Int) |-> Along(t, Through(t)[h - 1], p)[Len(p)]]
<1>. DEFINE X == [Seq(Int) -> Seq(Int)]
            first == [p \in Seq(Int) |-> Failed]
            next(F) == [p \in Seq(Int) |-> Along(t, F, p)[Len(p)]]
            P(g) == g = [h \in Nat |-> IF h = 0 THEN [p \in Seq(Int) |-> Failed]
                                       ELSE [p \in Seq(Int) |-> Along(t, g[h - 1], p)[Len(p)]]]
            step == [h \in Nat |-> [F \in X |-> next(F)]]
<1>1. \A F \in X : next(F) \in X
  <2>1. ASSUME NEW F \in X, NEW p \in Seq(Int) PROVE Along(t, F, p)[Len(p)] \in Seq(Int)
    BY AlongUnfold, LenProperties
  <2>. QED BY <2>1
<1>2. first \in X
  BY Marks
<1>3. step \in [Nat -> [X -> X]] /\ \A h \in Nat : \A F \in X : step[h][F] = next(F)
  <2>. HIDE DEF X, next
  <2>. QED BY <1>1
<1>4. \E g : Iterates(g, X, first, step)
  <2>. HIDE DEF X, step, first
  <2>. QED BY <1>2, <1>3, Iteration
<1>5. PICK g : Iterates(g, X, first, step)
  BY <1>4
<1>6. P(g)
  <2>1. g \in [Nat -> X] /\ \A n \in Nat : g[n] = IF n = 0 THEN first ELSE step[n][g[n - 1]]
    <3>. HIDE DEF X, step, first
    <3>. QED BY <1>5 DEF Iterates
  <2>2. \A n \in Nat : g[n] = IF n = 0 THEN first ELSE next(g[n - 1])
    <3>1. \A n \in Nat : n # 0 => n - 1 \in Nat /\ g[n - 1] \in X
      BY <2>1
    <3>. HIDE DEF X, step, first, next
    <3>. QED BY <1>3, <2>1, <3>1
  <2>3. g = [n \in Nat |-> IF n = 0 THEN first ELSE next(g[n - 1])]
    <3>. HIDE DEF X, step, first, next
    <3>. QED BY <2>1, <2>2
  <2>. QED BY <2>3
<1>7. Through(t) = CHOOSE l : P(l)
  BY Zenon DEF Through
<1>8. P(Through(t))
  <2>. HIDE DEF P
  <2>. QED BY <1>6, <1>7
<1>. DEFINE l == Through(t)
<1>9. l[0] = first /\ \A h \in Nat \ {0} : l[h] = next(l[h - 1])
  <2>. DEFINE body == [h \in Nat |-> IF h = 0 THEN first ELSE next(l[h - 1])]
  <2>1. l = body
    BY <1>8
  <2>. HIDE DEF l, first, next
  <2>2. body[0] = first /\ \A h \in Nat \ {0} : body[h] = next(l[h - 1])
    OBVIOUS
  <2>. QED BY <2>1, <2>2
<1>10. l \in [Nat -> X]
  <2>. DEFINE U == {n \in Nat : l[n] \in X}
  <2>1. l = [h \in Nat |-> l[h]]
    BY <1>8
  <2>. HIDE DEF l, X, first, next
  <2>2. 0 \in U
    BY <1>2, <1>9
  <2>3. ASSUME NEW n \in U \cap Nat PROVE n + 1 \in U
    <3>1. n + 1 \in Nat \ {0} /\ (n + 1) - 1 = n /\ l[n] \in X
      OBVIOUS
    <3>. QED BY <1>1, <1>9, <3>1
  <2>4. Nat \subseteq U
    <3>. HIDE DEF U
    <3>. QED BY <2>2, <2>3, SetInduction
  <2>. QED BY <2>1, <2>4
<1>. QED BY <1>9, <1>10

LEMMA ThroughEnds ==
    ASSUME NEW t, IsTree(t)
    PROVE  \A h \in Nat : Through(t)[h] \in [Seq(Int) -> Ends1(t)]
<1>. DEFINE l == Through(t)
            U == {n \in Nat : l[n] \in [Seq(Int) -> Ends1(t)]}
<1>1. /\ l[0] = [p \in Seq(Int) |-> Failed]
      /\ \A h \in Nat \ {0} : l[h] = [p \in Seq(Int) |-> Along(t, l[h - 1], p)[Len(p)]]
  BY ThroughUnfold
<1>2. 0 \in U
  BY <1>1, EndsType
<1>3. ASSUME NEW n \in U \cap Nat PROVE n + 1 \in U
  <2>1. n + 1 \in Nat \ {0} /\ (n + 1) - 1 = n /\ l[n] \in [Seq(Int) -> Ends1(t)]
    OBVIOUS
  <2>. HIDE DEF l
  <2>2. l[n + 1] = [p \in Seq(Int) |-> Along(t, l[n], p)[Len(p)]]
    BY <1>1, <2>1
  <2>3. \A p \in Seq(Int) : Along(t, l[n], p)[Len(p)] \in Ends1(t)
    BY <2>1, AlongEnds, LenProperties
  <2>. QED BY <2>1, <2>2, <2>3
<1>4. Nat \subseteq U
  <2>. HIDE DEF U
  <2>. QED BY <1>2, <1>3, SetInduction
<1>. QED BY <1>4

\* Resolution one name at a time.
Far(t) == Through(t)[HopMax - 1]

LEMMA Resolution ==
    ASSUME NEW t, IsTree(t)
    PROVE  /\ Far(t) \in [Seq(Int) -> Ends1(t)]
           /\ os_realpath(t, <<>>) = <<>>
           /\ \A p \in Seq(Int) : os_realpath(t, p) \in Ends1(t)
           /\ \A p \in Seq(Int) : \A n \in Int :
                os_realpath(t, Append(p, n)) = Join(t, Far(t), os_realpath(t, p), n)
<1>1. HopMax - 1 \in Nat /\ HopMax \in Nat \ {0}
  BY DEF HopMax
<1>2. Far(t) \in [Seq(Int) -> Ends1(t)] /\ Far(t) \in [Seq(Int) -> Seq(Int)]
  BY <1>1, ThroughEnds, EndsType DEF Far
<1>3. \A p \in Seq(Int) : os_realpath(t, p) = Along(t, Far(t), p)[Len(p)]
  <2>1. Through(t)[HopMax] = [p \in Seq(Int) |-> Along(t, Through(t)[HopMax - 1], p)[Len(p)]]
    BY <1>1, ThroughUnfold
  <2>. QED BY <2>1 DEF Far, os_realpath
<1>4. os_realpath(t, <<>>) = <<>>
  <2>1. <<>> \in Seq(Int) /\ Len(<<>>) = 0
    BY EmptySeq
  <2>. QED BY <1>2, <1>3, <2>1, AlongUnfold, ZenonT(40)
<1>5. \A p \in Seq(Int) : os_realpath(t, p) \in Ends1(t)
  <2>1. ASSUME NEW p \in Seq(Int), NEW F \in [Seq(Int) -> Ends1(t)] PROVE Along(t, F, p)[Len(p)] \in Ends1(t)
    BY AlongEnds, LenProperties
  <2>. QED BY <1>2, <1>3, <2>1
<1>6. ASSUME NEW p \in Seq(Int), NEW n \in Int
      PROVE  os_realpath(t, Append(p, n)) = Join(t, Far(t), os_realpath(t, p), n)
  <2>1. /\ Append(p, n) \in Seq(Int) /\ Len(Append(p, n)) = Len(p) + 1 /\ Append(p, n)[Len(p) + 1] = n
        /\ Len(p) \in Nat
    BY AppendProperties, LenProperties
  <2>2. Len(p) + 1 \in Nat \ {0} /\ (Len(p) + 1) - 1 = Len(p) /\ Len(p) \in 0..Len(p)
    BY <2>1
  <2>3. Along(t, Far(t), Append(p, n))[Len(p) + 1] = Join(t, Far(t), Along(t, Far(t), Append(p, n))[Len(p)], n)
    <3>1. ASSUME NEW q, NEW F \in [Seq(Int) -> Seq(Int)], NEW k \in Nat \ {0}
          PROVE  Along(t, F, q)[k] = Join(t, F, Along(t, F, q)[k - 1], q[k])
      BY AlongUnfold
    <3>. QED BY <1>2, <2>1, <2>2, <3>1, ZenonT(30)
  <2>4. Along(t, Far(t), Append(p, n))[Len(p)] = Along(t, Far(t), p)[Len(p)]
    BY <1>2, <2>2, AlongSame
  <2>. QED BY <1>3, <2>1, <2>3, <2>4
<1>. QED BY <1>2, <1>4, <1>5, <1>6

\* One name more.
LEMMA Onward ==
    ASSUME NEW t, IsTree(t), NEW p \in Seq(Int), NEW n \in Int
    PROVE  /\ os_realpath(t, p) # Failed /\ ~Is(t, os_realpath(t, p), "dir")
              => os_realpath(t, Append(p, n)) = Missing
           /\ os_realpath(t, p) \in {Missing, Failed} => os_realpath(t, Append(p, n)) = os_realpath(t, p)
           /\ Is(t, os_realpath(t, p), "dir") /\ n \in Name =>
                LET q == Append(os_realpath(t, p), n)
                IN /\ q \notin DOMAIN t => os_realpath(t, Append(p, n)) = Missing
                   /\ q \in DOMAIN t /\ ~Is(t, q, "link") => os_realpath(t, Append(p, n)) = q
<1>1. os_realpath(t, Append(p, n)) = Join(t, Far(t), os_realpath(t, p), n)
  BY Resolution
<1>2. ~Is(t, Missing, "dir") /\ ~Is(t, Failed, "dir") /\ Missing # Failed
  BY Marks, InTree DEF Is
<1>3. n \in Name => n # Dot /\ n # DotDot
  BY Marks
<1>. QED BY <1>1, <1>2, <1>3 DEF Join

\* A path of the tree that is no link resolves to itself.
LEMMA Itself ==
    ASSUME NEW t, IsTree(t)
    PROVE  \A q \in DOMAIN t : ~Is(t, q, "link") => os_realpath(t, q) = q
<1>. DEFINE T == {s \in Seq(Name) : s \in DOMAIN t /\ ~Is(t, s, "link") => os_realpath(t, s) = s}
<1>1. <<>> \in T
  BY Resolution, EmptySeq
<1>2. ASSUME NEW s \in T \cap Seq(Name), NEW e \in Name PROVE Append(s, e) \in T
  <2>1. Append(s, e) \in Seq(Name) /\ Append(s, e) # <<>> /\ Front(Append(s, e)) = s
    BY Appended
  <2>2. ASSUME Append(s, e) \in DOMAIN t, ~Is(t, Append(s, e), "link")
        PROVE  os_realpath(t, Append(s, e)) = Append(s, e)
    <3>1. Is(t, s, "dir")
      BY <2>1, <2>2, InTree
    <3>2. s \in DOMAIN t /\ ~Is(t, s, "link")
      BY <3>1 DEF Is
    <3>3. os_realpath(t, s) = s
      BY <3>2
    <3>4. s \in Seq(Int) /\ e \in Int
      BY Marks
    <3>. QED BY <2>2, <3>1, <3>3, <3>4, Onward
  <2>. QED BY <2>1, <2>2
<1>3. Seq(Name) \subseteq T
  <2>. HIDE DEF T
  <2>. QED BY <1>1, <1>2, AppendInduction
<1>. QED BY <1>3, InTree

\* What leads nowhere leads nowhere however it goes on.
LEMMA Nowhere ==
    ASSUME NEW t, IsTree(t), NEW p \in Seq(Int), os_realpath(t, p) \in {Missing, Failed}
    PROVE  \A q \in Seq(Int) : IsPrefix(p, q) => os_realpath(t, q) = os_realpath(t, p)
<1>. DEFINE T == {s \in Seq(Int) : IsPrefix(p, s) => os_realpath(t, s) = os_realpath(t, p)}
<1>1. <<>> \in T
  <2>1. <<>> \in Seq(Int)
    BY EmptySeq
  <2>2. IsPrefix(p, <<>>) => p = <<>>
    BY <2>1, PrefixOrder
  <2>. QED BY <2>1, <2>2
<1>2. ASSUME NEW s \in T \cap Seq(Int), NEW e \in Int PROVE Append(s, e) \in T
  <2>1. Append(s, e) \in Seq(Int) /\ Append(s, e) # <<>> /\ Front(Append(s, e)) = s
    BY Appended
  <2>2. ASSUME IsPrefix(p, Append(s, e)) PROVE os_realpath(t, Append(s, e)) = os_realpath(t, p)
    <3>1. CASE p = Append(s, e)
      BY <3>1
    <3>2. CASE p # Append(s, e)
      <4>1. IsPrefix(p, s)
        BY <2>1, <2>2, <3>2, PrefixEnds
      <4>2. os_realpath(t, s) = os_realpath(t, p)
        BY <4>1
      <4>. QED BY <4>2, Onward
    <3>. QED BY <3>1, <3>2
  <2>. QED BY <2>1, <2>2
<1>3. Seq(Int) \subseteq T
  <2>. HIDE DEF T
  <2>. QED BY <1>1, <1>2, AppendInduction
<1>. QED BY <1>3

\* A path that passes no link is itself or missing.
LEMMA NoLink ==
    ASSUME NEW t, IsTree(t)
    PROVE  \A p \in Seq(Name) : (\A k \in 0..Len(p) : ~Is(t, SubSeq(p, 1, k), "link"))
                                => os_realpath(t, p) = IF p \in DOMAIN t THEN p ELSE Missing
<1>. DEFINE Clear(p) == \A k \in 0..Len(p) : ~Is(t, SubSeq(p, 1, k), "link")
            T == {s \in Seq(Name) : Clear(s) => os_realpath(t, s) = IF s \in DOMAIN t THEN s ELSE Missing}
<1>1. <<>> \in T
  BY Resolution, EmptySeq, EndsType
<1>2. ASSUME NEW s \in T \cap Seq(Name), NEW e \in Name PROVE Append(s, e) \in T
  <2>1. /\ Append(s, e) \in Seq(Name) /\ Append(s, e) # <<>> /\ Front(Append(s, e)) = s
        /\ Len(Append(s, e)) = Len(s) + 1 /\ Len(s) \in Nat
        /\ \A k \in 0..Len(s) : SubSeq(Append(s, e), 1, k) = SubSeq(s, 1, k)
    BY Appended, LenProperties
  <2>2. ASSUME Clear(Append(s, e))
        PROVE  os_realpath(t, Append(s, e)) = IF Append(s, e) \in DOMAIN t THEN Append(s, e) ELSE Missing
    <3>1. Clear(s)
      <4>1. ASSUME NEW k \in 0..Len(s) PROVE k \in 0..Len(Append(s, e))
        BY <2>1
      <4>. QED BY <2>1, <2>2, <4>1
    <3>2. ~Is(t, Append(s, e), "link") /\ ~Is(t, s, "link")
      <4>1. Len(s) + 1 \in 0..Len(Append(s, e)) /\ Len(s) \in 0..Len(s)
        BY <2>1
      <4>2. SubSeq(Append(s, e), 1, Len(s) + 1) = Append(s, e) /\ SubSeq(s, 1, Len(s)) = s
        BY <2>1, SubSeqFull
      <4>. QED BY <2>2, <3>1, <4>1, <4>2
    <3>3. os_realpath(t, s) = IF s \in DOMAIN t THEN s ELSE Missing
      BY <3>1
    <3>4. s \in Seq(Int) /\ e \in Int
      BY Marks
    <3>5. Append(s, e) \in DOMAIN t => Is(t, s, "dir")
      BY <2>1, InTree
    <3>6. Missing # Failed /\ Failed \notin Seq(Name) /\ ~Is(t, Missing, "dir")
      BY Marks, InTree DEF Is
    <3>7. CASE Is(t, s, "dir")
      <4>1. os_realpath(t, s) = s
        BY <3>3, <3>7 DEF Is
      <4>. QED BY <3>2, <3>4, <3>7, <4>1, Onward
    <3>8. CASE ~Is(t, s, "dir")
      <4>1. os_realpath(t, s) # Failed /\ ~Is(t, os_realpath(t, s), "dir")
        BY <3>3, <3>6, <3>8
      <4>. QED BY <3>4, <3>5, <3>8, <4>1, Onward
    <3>. QED BY <3>7, <3>8
  <2>. QED BY <2>1, <2>2
<1>3. Seq(Name) \subseteq T
  <2>. HIDE DEF T
  <2>. QED BY <1>1, <1>2, AppendInduction
<1>. QED BY <1>3

-----------------------------------------------------------------------------
(* Canonicalization *)

LEMMA OfTree ==
    ASSUME NEW t, IsTree(t), NEW c \in DOMAIN t
    PROVE  Straight(t, c) /\ Lexical(t, c)
<1>1. ASSUME NEW k \in 0..Len(c) - 1 PROVE os_realpath(t, SubSeq(c, 1, k)) = SubSeq(c, 1, k)
  <2>1. Is(t, SubSeq(c, 1, k), "dir")
    BY InTree
  <2>. QED BY <2>1, Itself DEF Is
<1>2. ASSUME c # <<>> PROVE os_realpath(t, Front(c)) = Front(c)
  <2>1. Is(t, Front(c), "dir")
    BY <1>2, InTree
  <2>. QED BY <2>1, Itself DEF Is
<1>. QED BY <1>1, <1>2 DEF Straight, Lexical

LEMMA StraightLexical ==
    ASSUME NEW t, NEW c \in Seq(Name), Straight(t, c)
    PROVE  Lexical(t, c) /\ \A k \in 0..Len(c) : Straight(t, SubSeq(c, 1, k)) /\ Lexical(t, SubSeq(c, 1, k))
<1>0. Len(c) \in Nat
  BY LenProperties
<1>1. ASSUME NEW d \in Seq(Name), Straight(t, d) PROVE Lexical(t, d)
  <2>1. CASE d # <<>>
    <3>1. Front(d) = SubSeq(d, 1, Len(d) - 1) /\ Len(d) \in Nat \ {0}
      BY <2>1, Ends
    <3>2. Len(d) - 1 \in 0..Len(d) - 1
      BY <3>1
    <3>. QED BY <1>1, <3>1, <3>2 DEF Straight, Lexical
  <2>. QED BY <2>1 DEF Lexical
<1>2. ASSUME NEW k \in 0..Len(c) PROVE SubSeq(c, 1, k) \in Seq(Name) /\ Straight(t, SubSeq(c, 1, k))
  <2>1. SubSeq(c, 1, k) \in Seq(Name) /\ Len(SubSeq(c, 1, k)) = k
    BY Cuts
  <2>2. ASSUME NEW j \in 0..k - 1 PROVE SubSeq(SubSeq(c, 1, k), 1, j) = SubSeq(c, 1, j) /\ j \in 0..Len(c) - 1
    <3>1. j \in 0..k /\ j \in 0..Len(c) - 1
      BY <1>0
    <3>. QED BY <3>1, CutOfCut
  <2>3. \A j \in 0..k - 1 : os_realpath(t, SubSeq(SubSeq(c, 1, k), 1, j))
                              \in {SubSeq(SubSeq(c, 1, k), 1, j), Missing, Failed}
    BY <2>2 DEF Straight
  <2>. QED BY <2>1, <2>3 DEF Straight
<1>. QED BY <1>1, <1>2

\* What astools_path_canonical returns passes no link but in its last place, and
\* what exists is none.
LEMMA Canonical ==
    ASSUME NEW t, IsTree(t), NEW p \in Text, NEW c, c = astools_path_canonical(t, p), c # Failed
    PROVE  /\ c \in Seq(Name) /\ Straight(t, c)
           /\ os_realpath(t, c) \notin {Missing, Failed} => c \in DOMAIN t /\ ~Is(t, c, "link")
<1>. DEFINE up(k) == os_realpath(t, SubSeq(p, 1, k))
            Deepest(k) == up(k) # Missing /\ \A j \in k + 1..Len(p) - 1 : up(j) = Missing
            d == CHOOSE k \in 0..Len(p) - 1 : Deepest(k)
<1>1. p \in Seq(Int) /\ Len(p) \in Nat /\ \A k \in 0..Len(p) : SubSeq(p, 1, k) \in Seq(Int)
  <2>1. Name \cup {Dot, DotDot} \subseteq Int
    BY DEF Name, Dot, DotDot
  <2>2. p \in Seq(Int)
    BY <2>1, SeqMonotonic DEF Text
  <2>. QED BY <2>2, LenProperties, Cuts
<1>2. CASE os_realpath(t, p) # Missing
  <2>1. c = os_realpath(t, p)
    BY <1>2 DEF astools_path_canonical
  <2>2. c \in DOMAIN t /\ ~Is(t, c, "link")
    BY <1>1, <1>2, <2>1, Resolution DEF Ends1, Is
  <2>. QED BY <2>2, OfTree, InTree
<1>3. CASE os_realpath(t, p) = Missing
  <2>1. c = IF up(d) = Failed \/ \E j \in d + 1..Len(p) : p[j] \in {Dot, DotDot} THEN Failed
            ELSE up(d) \o SubSeq(p, d + 1, Len(p))
    BY <1>3 DEF astools_path_canonical
  <2>. HIDE DEF d
  <2>2. p # <<>> /\ Len(p) # 0 /\ up(0) = <<>>
    <3>1. SubSeq(p, 1, 0) = <<>>
      BY SubSeqEmpty, 0 < 1
    <3>2. up(0) = <<>>
      BY <3>1, Resolution
    <3>. QED BY <1>1, <1>3, <3>2, Resolution, EmptySeq, EndsType, Marks
  <2>3. \E k \in 0..Len(p) - 1 : Deepest(k)
    <3>. DEFINE U == {n \in 1..Len(p) : up(Len(p) - n) # Missing}
    <3>1. Len(p) \in U
      BY <1>1, <2>2, Marks, EmptySeq
    <3>2. U \subseteq Nat /\ U # {}
      BY <3>1
    <3>3. PICK n \in U : \A m \in U : n <= m
      <4>. HIDE DEF U
      <4>. QED BY <3>2, Least
    <3>4. Len(p) - n \in 0..Len(p) - 1 /\ up(Len(p) - n) # Missing
      BY <1>1, <3>3
    <3>5. ASSUME NEW j \in (Len(p) - n) + 1..Len(p) - 1 PROVE up(j) = Missing
      <4>1. Len(p) - j \in 1..Len(p) /\ Len(p) - j < n /\ Len(p) - (Len(p) - j) = j
        BY <1>1, <3>3
      <4>. QED BY <1>1, <3>3, <4>1
    <3>. QED BY <3>4, <3>5
  <2>4. d \in 0..Len(p) - 1 /\ Deepest(d)
    <3>. HIDE DEF Deepest
    <3>. QED BY <2>3 DEF d
  <2>. DEFINE x == up(d)
              y == SubSeq(p, d + 1, Len(p))
              n == p[d + 1]
  <2>5. d \in Nat /\ d + 1 \in 1..Len(p) /\ d \in 0..Len(p) /\ d + 1 \in 0..Len(p) /\ (d + 1) - 1 = d
    BY <1>1, <2>4
  <2>6. \A j \in d + 1..Len(p) : p[j] \in Name
    <3>1. \A j \in d + 1..Len(p) : p[j] \in Name \cup {Dot, DotDot}
      BY <1>1, <2>5, ElementOfSeq DEF Text
    <3>. QED BY <2>1, <3>1
  <2>7. y \in Seq(Name) /\ n \in Name /\ Len(y) = Len(p) - d /\ y[1] = n
    BY <1>1, <2>5, <2>6, SubSeqProperties
  <2>8. x \in DOMAIN t /\ ~Is(t, x, "link")
    BY <1>1, <2>1, <2>4, <2>5, Resolution DEF Ends1, Is
  <2>9. x \in Seq(Name) /\ x \in Seq(Int) /\ os_realpath(t, x) = x /\ Len(x) \in Nat /\ n \in Int
    BY <2>7, <2>8, InTree, Itself, LenProperties, Marks
  <2>10. c = x \o y
    BY <2>1
  <2>. HIDE DEF x, y, n
  <2>11. /\ c \in Seq(Name) /\ Len(c) = Len(x) + Len(y) /\ IsPrefix(x, c) /\ x = SubSeq(c, 1, Len(x))
         /\ c[Len(x) + 1] = n /\ c \in Seq(Int) /\ Len(x) + 1 \in 1..Len(c)
    <3>1. c \in Seq(Name) /\ Len(c) = Len(x) + Len(y) /\ IsPrefix(x, c)
      BY <2>7, <2>9, <2>10, PrefixConcat
    <3>2. Len(x) + 1 \in 1..Len(c) /\ Len(y) \in Nat \ {0}
      BY <1>1, <2>5, <2>7, <2>9, <3>1, SMTT(25)
    <3>3. c[Len(x) + 1] = y[1]
      BY <2>7, <2>9, <2>10, <3>1, <3>2, ConcatProperties
    <3>. QED BY <2>7, <2>9, <3>1, <3>2, <3>3, Prefix, Marks
  <2>12. os_realpath(t, Append(x, n)) = Missing
    <3>1. SubSeq(p, 1, d + 1) = Append(SubSeq(p, 1, d), n)
      BY <1>1, <2>5, CutNext DEF n
    <3>2. os_realpath(t, SubSeq(p, 1, d + 1)) = Missing
      <4>1. CASE d + 1 = Len(p)
        BY <1>1, <1>3, <4>1, SubSeqFull
      <4>2. CASE d + 1 # Len(p)
        <5>1. d + 1 \in d + 1..Len(p) - 1
          BY <1>1, <2>5, <4>2
        <5>. QED BY <2>4, <5>1
      <4>. QED BY <4>1, <4>2
    <3>3. os_realpath(t, Append(SubSeq(p, 1, d), n)) = Join(t, Far(t), x, n)
      BY <1>1, <2>5, <2>9, Resolution DEF x
    <3>4. os_realpath(t, Append(x, n)) = Join(t, Far(t), x, n)
      BY <2>9, Resolution
    <3>. QED BY <3>1, <3>2, <3>3, <3>4
  <2>13. ASSUME NEW k \in Len(x) + 1..Len(c) PROVE os_realpath(t, SubSeq(c, 1, k)) = Missing
    <3>1. k \in 0..Len(c) /\ Len(x) + 1 \in 0..k /\ Len(x) + 1 \in 0..Len(c) /\ Len(c) \in Nat
      BY <2>9, <2>11
    <3>2. SubSeq(c, 1, Len(x) + 1) = Append(x, n)
      <4>1. SubSeq(c, 1, Len(x) + 1) = Append(SubSeq(c, 1, (Len(x) + 1) - 1), c[Len(x) + 1])
        BY <2>11, CutNext
      <4>2. (Len(x) + 1) - 1 = Len(x)
        BY <2>9
      <4>. QED BY <2>11, <4>1, <4>2
    <3>3. SubSeq(c, 1, k) \in Seq(Int) /\ Len(SubSeq(c, 1, k)) = k
      BY <2>11, <3>1, Cuts
    <3>4. SubSeq(SubSeq(c, 1, k), 1, Len(x) + 1) = SubSeq(c, 1, Len(x) + 1)
      BY <2>11, <3>1, CutOfCut
    <3>5. IsPrefix(Append(x, n), SubSeq(c, 1, k))
      <4>1. Len(x) + 1 \in 0..Len(SubSeq(c, 1, k))
        BY <3>1, <3>3
      <4>. QED BY <3>2, <3>3, <3>4, <4>1, PrefixEnds
    <3>6. Append(x, n) \in Seq(Int)
      BY <2>9, Appended
    <3>. QED BY <2>12, <3>3, <3>5, <3>6, Nowhere
  <2>14. ASSUME NEW k \in 0..Len(x) PROVE os_realpath(t, SubSeq(c, 1, k)) = SubSeq(c, 1, k)
    <3>1. SubSeq(c, 1, k) = SubSeq(x, 1, k)
      <4>1. Len(x) \in 0..Len(c)
        BY <2>9, <2>11
      <4>. QED BY <2>11, <4>1, CutOfCut
    <3>2. CASE k = Len(x)
      BY <2>9, <3>1, <3>2, SubSeqFull
    <3>3. CASE k # Len(x)
      <4>1. k \in 0..Len(x) - 1
        BY <2>9, <3>3
      <4>2. Is(t, SubSeq(x, 1, k), "dir")
        BY <2>8, <4>1, InTree
      <4>. QED BY <3>1, <4>2, Itself DEF Is
    <3>. QED BY <3>2, <3>3
  <2>15. Straight(t, c)
    <3>1. ASSUME NEW k \in 0..Len(c) - 1 PROVE k \in 0..Len(x) \/ k \in Len(x) + 1..Len(c)
      BY <2>9, <2>11
    <3>. QED BY <2>13, <2>14, <3>1 DEF Straight
  <2>16. os_realpath(t, c) = Missing
    <3>1. Len(c) \in Len(x) + 1..Len(c)
      BY <2>9, <2>11
    <3>. QED BY <2>11, <2>13, <3>1, SubSeqFull
  <2>. QED BY <2>11, <2>15, <2>16
<1>. QED BY <1>2, <1>3

-----------------------------------------------------------------------------
(* Changes of the tree *)

Leaf(t, p) == \A q \in DOMAIN t : IsPrefix(p, q) => q = p

\* What is in no directory, or in none that has entries, has nothing under it.
LEMMA Leaves ==
    ASSUME NEW t, IsTree(t), NEW p \in DOMAIN t, ~Is(t, p, "dir") \/ Children(t, p) = {}
    PROVE  Leaf(t, p)
<1>1. ASSUME NEW q \in DOMAIN t, IsPrefix(p, q), q # p PROVE FALSE
  <2>1. p \in Seq(Name) /\ q \in Seq(Name) /\ Len(p) \in Nat /\ Len(q) \in Nat
    BY InTree, LenProperties
  <2>2. Len(p) <= Len(q) /\ p = SubSeq(q, 1, Len(p)) /\ Len(p) # Len(q)
    BY <1>1, <2>1, Prefix, SubSeqFull
  <2>3. Is(t, p, "dir")
    <3>1. Len(p) \in 0..Len(q) - 1
      BY <2>1, <2>2
    <3>. QED BY <2>2, <3>1, InTree
  <2>4. PICK r : r = SubSeq(q, 1, Len(p) + 1)
    OBVIOUS
  <2>5. r \in DOMAIN t
    <3>1. CASE Len(p) + 1 = Len(q)
      BY <1>1, <2>1, <2>4, <3>1, SubSeqFull
    <3>2. CASE Len(p) + 1 # Len(q)
      <4>1. Len(p) + 1 \in 0..Len(q) - 1
        BY <2>1, <2>2, <3>2
      <4>. QED BY <2>4, <4>1, InTree DEF Is
    <3>. QED BY <3>1, <3>2
  <2>6. Len(p) + 1 \in 0..Len(q) /\ Len(p) \in 0..Len(p) + 1
    BY <2>1, <2>2
  <2>7. r \in Seq(Name) /\ Len(r) = Len(p) + 1 /\ SubSeq(r, 1, Len(p)) = p
    BY <2>1, <2>2, <2>4, <2>6, Cuts, CutOfCut
  <2>8. Len(p) <= Len(r)
    BY <2>1, <2>7
  <2>9. IsPrefix(p, r)
    BY <2>1, <2>7, <2>8, Prefix
  <2>. QED BY <1>1, <2>3, <2>5, <2>7, <2>9 DEF Children
<1>. QED BY <1>1 DEF Leaf

LEMMA NodeTypes == Dir \in Node /\ \A s \in Seq(Int) : FileOf(s) \in Node /\ LinkTo(s) \in Node
<1>1. <<>> \in Seq(Int)
  BY EmptySeq
<1>. QED BY <1>1 DEF Dir, FileOf, LinkTo, Node

LEMMA PutNew ==
    ASSUME IsTree(tree), NEW p \in Seq(Name), p # <<>>, Is(tree, Front(p), "dir"), p \notin DOMAIN tree, NEW node \in Node
    PROVE  IsTree(Put(p, node))
<1>. DEFINE u == Put(p, node)
            d == Front(p)
<1>1. DOMAIN u = DOMAIN tree \cup {p} /\ u[p] = node /\ \A q \in DOMAIN tree : u[q] = tree[q]
  BY DEF Put
<1>2. d \in Seq(Name) /\ d \in DOMAIN tree
  BY InTree DEF Is
<1>3. /\ p \in Seq(Name) /\ p # <<>> /\ Len(p) = Len(d) + 1 /\ Len(d) \in Nat
      /\ \A k \in 0..Len(d) : SubSeq(p, 1, k) = SubSeq(d, 1, k)
  <2>1. d \in Seq(Name) /\ Last(p) \in Name /\ p = Append(d, Last(p))
    BY Ends
  <2>. HIDE DEF d
  <2>. QED BY <2>1, Appended, LenProperties
<1>4. IsFiniteSet(DOMAIN u) /\ DOMAIN u \subseteq Seq(Name)
  <2>1. IsFiniteSet(DOMAIN tree) /\ DOMAIN tree \subseteq Seq(Name)
    BY DEF IsTree
  <2>2. IsFiniteSet(DOMAIN tree \cup {p})
    BY <2>1, FS_AddElement
  <2>. HIDE DEF u
  <2>. QED BY <1>1, <1>3, <2>1, <2>2
<1>5. u \in [DOMAIN u -> Node] /\ Is(u, <<>>, "dir")
  <2>1. \A q \in DOMAIN u : u[q] \in Node
    BY <1>1, InTree
  <2>2. u = [q \in DOMAIN u |-> u[q]]
    BY DEF Put
  <2>3. Is(u, <<>>, "dir")
    BY <1>1 DEF IsTree, Is
  <2>. HIDE DEF u
  <2>. QED BY <2>1, <2>2, <2>3
<1>6. ASSUME NEW q \in DOMAIN u, NEW k \in 0..Len(q) - 1 PROVE Is(u, SubSeq(q, 1, k), "dir")
  <2>1. Is(tree, SubSeq(q, 1, k), "dir")
    <3>1. CASE q = p
      <4>1. k \in 0..Len(d)
        BY <1>3, <3>1
      <4>2. CASE k = Len(d)
        <5>1. SubSeq(p, 1, k) = d
          BY <1>2, <1>3, <4>1, <4>2, SubSeqFull
        <5>. QED BY <3>1, <5>1
      <4>3. CASE k # Len(d)
        <5>1. k \in 0..Len(d) - 1
          BY <1>3, <4>1, <4>3
        <5>. QED BY <1>2, <1>3, <3>1, <4>1, <5>1, InTree
      <4>. QED BY <4>2, <4>3
    <3>2. CASE q # p
      BY <1>1, <3>2, InTree
    <3>. QED BY <3>1, <3>2
  <2>. QED BY <1>1, <2>1 DEF Is
<1>. QED BY <1>4, <1>5, <1>6 DEF IsTree

LEMMA PutOld ==
    ASSUME IsTree(tree), NEW p, Is(tree, p, "file"), NEW s \in Seq(Int)
    PROVE  IsTree(Put(p, FileOf(s)))
<1>. DEFINE u == Put(p, FileOf(s))
<1>1. DOMAIN u = DOMAIN tree /\ u[p] = FileOf(s) /\ \A q \in DOMAIN tree : q # p => u[q] = tree[q]
  BY DEF Put, Is
<1>2. u \in [DOMAIN u -> Node]
  <2>1. \A q \in DOMAIN u : u[q] \in Node
    BY <1>1, InTree, NodeTypes
  <2>2. u = [q \in DOMAIN u |-> u[q]]
    BY DEF Put
  <2>. HIDE DEF u
  <2>. QED BY <2>1, <2>2
<1>3. \A q : Is(tree, q, "dir") => Is(u, q, "dir")
  BY <1>1 DEF Is
<1>4. \A q \in DOMAIN u : \A k \in 0..Len(q) - 1 : Is(u, SubSeq(q, 1, k), "dir")
  BY <1>1, <1>3, InTree
<1>. HIDE DEF u
<1>5. IsTree(u)
  BY <1>1, <1>2, <1>3, <1>4 DEF IsTree
<1>. QED BY <1>5 DEF u

LEMMA CutLeaf ==
    ASSUME IsTree(tree), NEW p, p # <<>>, Leaf(tree, p)
    PROVE  IsTree(Cut(p))
<1>. DEFINE u == Cut(p)
<1>1. DOMAIN u = DOMAIN tree \ {p} /\ u = [q \in DOMAIN u |-> u[q]] /\ \A q \in DOMAIN u : u[q] = tree[q]
  BY DEF Cut
<1>. HIDE DEF u
<1>2. IsFiniteSet(DOMAIN u) /\ DOMAIN u \subseteq Seq(Name)
  BY <1>1, FS_Subset DEF IsTree
<1>3. u \in [DOMAIN u -> Node]
  BY <1>1, InTree
<1>4. Is(u, <<>>, "dir")
  BY <1>1 DEF IsTree, Is
<1>5. ASSUME NEW q \in DOMAIN u, NEW k \in 0..Len(q) - 1 PROVE Is(u, SubSeq(q, 1, k), "dir")
  <2>1. q \in DOMAIN tree /\ q # p /\ q \in Seq(Name) /\ k \in 0..Len(q)
    BY <1>1, InTree, LenProperties
  <2>2. Is(tree, SubSeq(q, 1, k), "dir")
    BY <2>1, InTree
  <2>3. IsPrefix(SubSeq(q, 1, k), q)
    BY <2>1, PrefixEnds
  <2>4. SubSeq(q, 1, k) # p
    BY <2>1, <2>3 DEF Leaf
  <2>. QED BY <1>1, <2>2, <2>4 DEF Is
<1>6. IsTree(u)
  BY <1>2, <1>3, <1>4, <1>5 DEF IsTree
<1>. QED BY <1>6 DEF u

\* Where what is under src lies after src has become dst.
Onto(src, dst, q) == dst \o SubSeq(q, Len(src) + 1, Len(q))

LEMMA OntoElements ==
    ASSUME NEW S, NEW src \in Seq(S), NEW dst \in Seq(S), NEW q \in Seq(S), IsPrefix(src, q)
    PROVE  /\ Onto(src, dst, q) \in Seq(S) /\ Len(Onto(src, dst, q)) = Len(dst) + Len(q) - Len(src)
           /\ IsPrefix(dst, Onto(src, dst, q))
           /\ \A i \in 1..Len(dst) + Len(q) - Len(src) :
                Onto(src, dst, q)[i] = IF i <= Len(dst) THEN dst[i] ELSE q[i - Len(dst) + Len(src)]
<1>. DEFINE rest == SubSeq(q, Len(src) + 1, Len(q))
<1>1. Len(src) \in Nat /\ Len(dst) \in Nat /\ Len(q) \in Nat /\ Len(src) <= Len(q)
  BY LenProperties, Prefix
<1>2. \A i \in Len(src) + 1..Len(q) : q[i] \in S
  <2>1. \A i \in 1..Len(q) : q[i] \in S
    BY ElementOfSeq
  <2>. QED BY <1>1, <2>1
<1>3. /\ rest \in Seq(S)
      /\ Len(rest) = IF Len(src) + 1 <= Len(q) THEN Len(q) - (Len(src) + 1) + 1 ELSE 0
      /\ \A i \in 1..Len(q) - (Len(src) + 1) + 1 : rest[i] = q[Len(src) + 1 + i - 1]
  <2>1. Len(src) + 1 \in Int /\ Len(q) \in Int
    BY <1>1
  <2>. QED BY <1>2, <2>1, SubSeqProperties
<1>4. Len(rest) = Len(q) - Len(src) /\ \A i \in 1..Len(q) - Len(src) : rest[i] = q[Len(src) + i]
  BY <1>1, <1>3
<1>. HIDE DEF rest
<1>5. /\ dst \o rest \in Seq(S) /\ Len(dst \o rest) = Len(dst) + Len(rest) /\ IsPrefix(dst, dst \o rest)
      /\ \A i \in 1..Len(dst) + Len(rest) : (dst \o rest)[i] = IF i <= Len(dst) THEN dst[i] ELSE rest[i - Len(dst)]
  BY <1>3, PrefixConcat, ConcatProperties
<1>6. ASSUME NEW i \in 1..Len(dst) + Len(q) - Len(src)
      PROVE  (dst \o rest)[i] = IF i <= Len(dst) THEN dst[i] ELSE q[i - Len(dst) + Len(src)]
  <2>1. i \in 1..Len(dst) + Len(rest) /\ (i > Len(dst) => i - Len(dst) \in 1..Len(q) - Len(src))
    BY <1>1, <1>4
  <2>2. i > Len(dst) => rest[i - Len(dst)] = q[Len(src) + (i - Len(dst))]
    BY <1>4, <2>1
  <2>3. Len(src) + (i - Len(dst)) = i - Len(dst) + Len(src)
    BY <1>1
  <2>. QED BY <1>1, <1>5, <2>1, <2>2, <2>3
<1>7. Len(dst) + Len(rest) = Len(dst) + Len(q) - Len(src)
  BY <1>1, <1>4
<1>8. Onto(src, dst, q) = dst \o rest
  BY DEF Onto, rest
<1>. QED BY <1>5, <1>6, <1>7, <1>8

LEMMA OntoOrder ==
    ASSUME NEW S, NEW src \in Seq(S), NEW dst \in Seq(S), NEW q \in Seq(S), IsPrefix(src, q)
    PROVE  /\ Onto(src, src, q) = q /\ Onto(src, dst, src) = dst
           /\ \A r \in Seq(S) : IsPrefix(src, r) /\ Onto(src, dst, r) = Onto(src, dst, q) => r = q
           /\ \A k \in Len(dst)..Len(Onto(src, dst, q)) :
                LET r == SubSeq(q, 1, k - Len(dst) + Len(src))
                IN /\ k - Len(dst) + Len(src) \in 0..Len(q) /\ r \in Seq(S) /\ IsPrefix(src, r)
                   /\ SubSeq(Onto(src, dst, q), 1, k) = Onto(src, dst, r)
<1>1. Len(src) \in Nat /\ Len(dst) \in Nat /\ Len(q) \in Nat /\ Len(src) <= Len(q)
  BY LenProperties, Prefix
<1>2. \A i \in 1..Len(src) : src[i] = q[i]
  BY Prefix
<1>3. Onto(src, src, q) = q
  <2>1. /\ Onto(src, src, q) \in Seq(S) /\ Len(Onto(src, src, q)) = Len(src) + Len(q) - Len(src)
        /\ \A i \in 1..Len(src) + Len(q) - Len(src) :
             Onto(src, src, q)[i] = IF i <= Len(src) THEN src[i] ELSE q[i - Len(src) + Len(src)]
    BY OntoElements
  <2>2. Len(src) + Len(q) - Len(src) = Len(q) /\ \A i \in 1..Len(q) : i - Len(src) + Len(src) = i
    BY <1>1
  <2>3. \A i \in 1..Len(q) : Onto(src, src, q)[i] = q[i]
    BY <1>1, <1>2, <2>1, <2>2
  <2>. QED BY <2>1, <2>2, <2>3, SeqEqual
<1>4. Onto(src, dst, src) = dst
  <2>1. /\ Onto(src, dst, src) \in Seq(S) /\ Len(Onto(src, dst, src)) = Len(dst) + Len(src) - Len(src)
        /\ \A i \in 1..Len(dst) + Len(src) - Len(src) :
             Onto(src, dst, src)[i] = IF i <= Len(dst) THEN dst[i] ELSE src[i - Len(dst) + Len(src)]
    <3>1. IsPrefix(src, src)
      BY PrefixOrder
    <3>. QED BY <3>1, OntoElements
  <2>2. Len(dst) + Len(src) - Len(src) = Len(dst)
    BY <1>1
  <2>3. \A i \in 1..Len(dst) : Onto(src, dst, src)[i] = dst[i]
    BY <1>1, <2>1, <2>2
  <2>. QED BY <2>1, <2>2, <2>3, SeqEqual
<1>5. ASSUME NEW r \in Seq(S), IsPrefix(src, r), Onto(src, dst, r) = Onto(src, dst, q) PROVE r = q
  <2>1. Len(r) \in Nat /\ Len(src) <= Len(r) /\ \A i \in 1..Len(src) : src[i] = r[i]
    BY <1>5, LenProperties, Prefix
  <2>2. /\ Len(Onto(src, dst, r)) = Len(dst) + Len(r) - Len(src)
        /\ \A i \in 1..Len(dst) + Len(r) - Len(src) :
             Onto(src, dst, r)[i] = IF i <= Len(dst) THEN dst[i] ELSE r[i - Len(dst) + Len(src)]
    BY <1>5, OntoElements
  <2>3. /\ Len(Onto(src, dst, q)) = Len(dst) + Len(q) - Len(src)
        /\ \A i \in 1..Len(dst) + Len(q) - Len(src) :
             Onto(src, dst, q)[i] = IF i <= Len(dst) THEN dst[i] ELSE q[i - Len(dst) + Len(src)]
    BY OntoElements
  <2>4. Len(r) = Len(q)
    BY <1>1, <1>5, <2>1, <2>2, <2>3
  <2>5. ASSUME NEW i \in 1..Len(q) PROVE r[i] = q[i]
    <3>1. CASE i <= Len(src)
      BY <1>1, <1>2, <2>1, <3>1
    <3>2. CASE i > Len(src)
      <4>. DEFINE j == i - Len(src) + Len(dst)
      <4>1. j \in 1..Len(dst) + Len(q) - Len(src) /\ j > Len(dst) /\ j - Len(dst) + Len(src) = i
        BY <1>1, <3>2
      <4>. HIDE DEF j
      <4>2. Onto(src, dst, r)[j] = r[i] /\ Onto(src, dst, q)[j] = q[i]
        <5>1. j \in 1..Len(dst) + Len(r) - Len(src) /\ ~(j <= Len(dst))
          BY <1>1, <2>4, <4>1
        <5>2. Onto(src, dst, r)[j] = r[j - Len(dst) + Len(src)]
          BY <2>2, <5>1
        <5>3. Onto(src, dst, q)[j] = q[j - Len(dst) + Len(src)]
          BY <2>3, <4>1, <5>1
        <5>. QED BY <4>1, <5>2, <5>3
      <4>. QED BY <1>5, <4>2
    <3>. QED BY <1>1, <3>1, <3>2
  <2>. QED BY <2>4, <2>5, SeqEqual
<1>6. ASSUME NEW k \in Len(dst)..Len(Onto(src, dst, q)), NEW r, r = SubSeq(q, 1, k - Len(dst) + Len(src))
      PROVE  /\ k - Len(dst) + Len(src) \in 0..Len(q) /\ r \in Seq(S) /\ IsPrefix(src, r)
             /\ SubSeq(Onto(src, dst, q), 1, k) = Onto(src, dst, r)
  <2>. DEFINE y == Onto(src, dst, q)
              m == k - Len(dst) + Len(src)
  <2>1. /\ y \in Seq(S) /\ Len(y) = Len(dst) + Len(q) - Len(src)
        /\ \A i \in 1..Len(dst) + Len(q) - Len(src) :
             y[i] = IF i <= Len(dst) THEN dst[i] ELSE q[i - Len(dst) + Len(src)]
    BY OntoElements
  <2>. HIDE DEF y
  <2>2. m \in 0..Len(q) /\ k \in 0..Len(y) /\ Len(src) <= m /\ k = Len(dst) + m - Len(src)
    BY <1>1, <2>1 DEF y
  <2>. HIDE DEF m
  <2>3. r \in Seq(S) /\ Len(r) = m /\ \A i \in 1..m : r[i] = q[i]
    BY <1>6, <2>2, Cuts DEF m
  <2>4. IsPrefix(src, r)
    <3>1. Len(src) <= Len(r) /\ \A i \in 1..Len(src) : src[i] = r[i]
      <4>1. \A i \in 1..Len(src) : i \in 1..m
        BY <1>1, <2>2
      <4>2. Len(src) <= Len(r)
        BY <2>2, <2>3
      <4>. QED BY <1>2, <2>3, <4>1, <4>2
    <3>. QED BY <2>3, <3>1, Prefix
  <2>5. /\ Onto(src, dst, r) \in Seq(S) /\ Len(Onto(src, dst, r)) = Len(dst) + m - Len(src)
        /\ \A i \in 1..Len(dst) + m - Len(src) :
             Onto(src, dst, r)[i] = IF i <= Len(dst) THEN dst[i] ELSE r[i - Len(dst) + Len(src)]
    BY <2>3, <2>4, OntoElements, ZenonT(40)
  <2>6. SubSeq(y, 1, k) \in Seq(S) /\ Len(SubSeq(y, 1, k)) = k /\ \A i \in 1..k : SubSeq(y, 1, k)[i] = y[i]
    BY <2>1, <2>2, Cuts
  <2>7. ASSUME NEW i \in 1..k PROVE Onto(src, dst, r)[i] = SubSeq(y, 1, k)[i]
    <3>1. SubSeq(y, 1, k)[i] = IF i <= Len(dst) THEN dst[i] ELSE q[i - Len(dst) + Len(src)]
      <4>1. i \in 1..Len(dst) + Len(q) - Len(src)
        BY <1>1, <2>1, <2>2
      <4>. QED BY <2>1, <2>6, <4>1
    <3>2. Onto(src, dst, r)[i] = IF i <= Len(dst) THEN dst[i] ELSE r[i - Len(dst) + Len(src)]
      BY <2>2, <2>5
    <3>3. i > Len(dst) => i - Len(dst) + Len(src) \in 1..m
      BY <1>1, <2>2
    <3>. QED BY <1>1, <2>2, <2>3, <3>1, <3>2, <3>3
  <2>8. Len(Onto(src, dst, r)) = k
    BY <2>2, <2>5
  <2>9. SubSeq(y, 1, k) = Onto(src, dst, r)
    BY <2>5, <2>6, <2>7, <2>8, SeqEqual
  <2>. QED BY <2>2, <2>3, <2>4, <2>9 DEF y, m
<1>. QED BY <1>3, <1>4, <1>5, <1>6

\* What rename(2) leaves where it is, and what it moves.
Stay(src, dst) == {q \in DOMAIN tree : ~IsPrefix(src, q) /\ q # dst}
Under(t, p) == {q \in DOMAIN t : IsPrefix(p, q)}

LEMMA RenamedTree ==
    ASSUME IsTree(tree), NEW src \in DOMAIN tree, src # <<>>,
           NEW dst \in Seq(Name), dst # <<>>, Is(tree, Front(dst), "dir"),
           IsPrefix(src, dst) => src = dst,
           dst \in DOMAIN tree /\ src # dst => Leaf(tree, dst)
    PROVE  /\ IsTree(Renamed(src, dst))
           /\ DOMAIN Renamed(src, dst) = Stay(src, dst) \cup {Onto(src, dst, m) : m \in Under(tree, src)}
           /\ \A q \in Stay(src, dst) : Renamed(src, dst)[q] = tree[q]
           /\ \A m \in Under(tree, src) : Renamed(src, dst)[Onto(src, dst, m)] = tree[m]
<1>. DEFINE u == Renamed(src, dst)
            stay == Stay(src, dst)
            moved == Under(tree, src)
            to(q) == Onto(src, dst, q)
<1>1. u = [q \in stay \cup {to(m) : m \in moved} |->
             IF q \in stay THEN tree[q] ELSE tree[CHOOSE m \in moved : to(m) = q]]
  BY DEF Renamed, Stay, Under, Onto
<1>. HIDE DEF u
<1>2. DOMAIN tree \subseteq Seq(Name) /\ src \in Seq(Name)
  BY InTree
<1>3. ASSUME NEW m \in moved PROVE to(m) \in Seq(Name) /\ IsPrefix(dst, to(m)) /\ to(m) \notin stay
  <2>1. m \in Seq(Name) /\ m \in DOMAIN tree /\ IsPrefix(src, m)
    BY <1>2 DEF Under
  <2>2. to(m) \in Seq(Name) /\ IsPrefix(dst, to(m))
    BY <1>2, <2>1, OntoElements
  <2>3. ASSUME to(m) \in stay PROVE FALSE
    <3>1. to(m) \in DOMAIN tree /\ to(m) # dst /\ ~IsPrefix(src, to(m))
      BY <2>3 DEF Stay
    <3>2. dst \in DOMAIN tree
      <4>1. dst = SubSeq(to(m), 1, Len(dst)) /\ Len(dst) <= Len(to(m)) /\ Len(dst) \in Nat /\ Len(to(m)) \in Nat
        BY <2>2, Prefix, LenProperties
      <4>2. Len(dst) # Len(to(m))
        BY <2>2, <3>1, <4>1, SubSeqFull
      <4>3. Len(dst) \in 0..Len(to(m)) - 1
        BY <4>1, <4>2
      <4>. QED BY <3>1, <4>1, <4>3, InTree DEF Is
    <3>3. CASE src = dst
      BY <2>2, <3>1, <3>3
    <3>4. CASE src # dst
      BY <2>2, <3>1, <3>2, <3>4 DEF Leaf
    <3>. QED BY <3>3, <3>4
  <2>. QED BY <2>2, <2>3
<1>4. \A m \in moved : m \in Seq(Name) /\ m \in DOMAIN tree /\ IsPrefix(src, m)
  BY <1>2 DEF Under
<1>5. DOMAIN u = stay \cup {to(m) : m \in moved}
  BY <1>1
<1>6. \A q \in stay : u[q] = tree[q]
  BY <1>1
<1>7. ASSUME NEW m \in moved PROVE u[to(m)] = tree[m]
  <2>1. u[to(m)] = tree[CHOOSE r \in moved : to(r) = to(m)]
    BY <1>1, <1>3
  <2>2. \A r \in moved : to(r) = to(m) => r = m
    BY <1>2, <1>4, OntoOrder
  <2>3. (CHOOSE r \in moved : to(r) = to(m)) = m
    <3>. HIDE DEF moved, to
    <3>. QED BY <2>2
  <2>. QED BY <2>1, <2>3
<1>8. IsFiniteSet(DOMAIN u) /\ DOMAIN u \subseteq Seq(Name)
  <2>1. IsFiniteSet(DOMAIN tree)
    BY DEF IsTree
  <2>2. IsFiniteSet(stay) /\ IsFiniteSet(moved)
    BY <2>1, FS_Subset DEF Stay, Under
  <2>3. IsFiniteSet({to(m) : m \in moved})
    <3>. DEFINE g == [m \in moved |-> to(m)]
                T == {to(m) : m \in moved}
    <3>1. g \in [moved -> T] /\ \A y \in T : \E m \in moved : g[m] = y
      <4>. HIDE DEF moved, to
      <4>. QED OBVIOUS
    <3>. HIDE DEF moved, T, g
    <3>2. g \in Surjection(moved, T)
      BY <3>1 DEF Surjection
    <3>3. IsFiniteSet(T)
      BY <2>2, <3>2, FS_Surjection
    <3>. QED BY <3>3 DEF T
  <2>4. IsFiniteSet(stay \cup {to(m) : m \in moved})
    <3>. HIDE DEF moved, to, stay
    <3>. QED BY <2>2, <2>3, FS_Union
  <2>. QED BY <1>2, <1>3, <1>5, <2>4 DEF Stay
<1>9. u \in [DOMAIN u -> Node]
  <2>1. u = [q \in DOMAIN u |-> u[q]]
    BY <1>1
  <2>2. ASSUME NEW q \in DOMAIN u PROVE u[q] \in Node
    <3>1. CASE q \in stay
      BY <1>6, <3>1, InTree DEF Stay
    <3>2. CASE \E m \in moved : q = to(m)
      BY <1>4, <1>7, <3>2, InTree
    <3>. QED BY <1>5, <3>1, <3>2
  <2>. QED BY <2>1, <2>2
<1>10. Is(u, <<>>, "dir")
  <2>1. Is(tree, <<>>, "dir")
    BY DEF IsTree
  <2>2. ~IsPrefix(src, <<>>)
    BY <1>2, PrefixOrder, EmptySeq
  <2>3. <<>> \in stay
    BY <2>1, <2>2 DEF Stay, Is
  <2>. QED BY <1>5, <1>6, <2>1, <2>3 DEF Is
<1>11. ASSUME NEW q \in DOMAIN u, NEW k \in 0..Len(q) - 1 PROVE Is(u, SubSeq(q, 1, k), "dir")
  <2>1. CASE q \in stay
    <3>1. q \in DOMAIN tree /\ q \in Seq(Name) /\ ~IsPrefix(src, q) /\ q # dst /\ Len(q) \in Nat /\ k \in 0..Len(q)
      BY <1>2, <2>1, LenProperties DEF Stay
    <3>2. Is(tree, SubSeq(q, 1, k), "dir") /\ SubSeq(q, 1, k) \in Seq(Name) /\ Len(SubSeq(q, 1, k)) = k
      BY <3>1, InTree, Cuts
    <3>3. IsPrefix(SubSeq(q, 1, k), q) /\ SubSeq(q, 1, k) # q
      BY <3>1, <3>2, PrefixEnds
    <3>4. ~IsPrefix(src, SubSeq(q, 1, k))
      BY <1>2, <3>1, <3>2, <3>3, PrefixOrder
    <3>5. SubSeq(q, 1, k) # dst
      <4>1. CASE src = dst
        BY <1>2, <3>4, <4>1, PrefixOrder
      <4>2. CASE src # dst
        BY <3>1, <3>2, <3>3, <4>2 DEF Leaf, Is
      <4>. QED BY <4>1, <4>2
    <3>6. SubSeq(q, 1, k) \in stay
      BY <3>2, <3>4, <3>5 DEF Stay, Is
    <3>. QED BY <1>5, <1>6, <3>2, <3>6 DEF Is
  <2>2. CASE \E m \in moved : q = to(m)
    <3>1. PICK m \in moved : q = to(m)
      BY <2>2
    <3>2. m \in Seq(Name) /\ m \in DOMAIN tree /\ IsPrefix(src, m) /\ q \in Seq(Name) /\ IsPrefix(dst, q)
      BY <1>3, <1>4, <3>1
    <3>3. Len(q) \in Nat /\ Len(dst) \in Nat /\ Len(src) \in Nat /\ Len(m) \in Nat /\ Len(q) = Len(dst) + Len(m) - Len(src)
      <4>1. Len(q) \in Nat /\ Len(dst) \in Nat /\ Len(src) \in Nat /\ Len(m) \in Nat
        BY <1>2, <3>2, LenProperties
      <4>2. Len(to(m)) = Len(dst) + Len(m) - Len(src)
        BY <1>2, <3>2, OntoElements
      <4>. QED BY <3>1, <4>1, <4>2
    <3>4. CASE k < Len(dst)
      <4>1. SubSeq(q, 1, k) = SubSeq(dst, 1, k)
        <5>1. dst = SubSeq(q, 1, Len(dst)) /\ Len(dst) \in 0..Len(q) /\ k \in 0..Len(dst)
          BY <3>2, <3>3, <3>4, Prefix
        <5>. QED BY <3>2, <5>1, CutOfCut
      <4>2. Len(Front(dst)) = Len(dst) - 1 /\ Front(dst) \in Seq(Name) /\ Front(dst) = SubSeq(dst, 1, Len(dst) - 1)
        BY Ends
      <4>3. Is(tree, SubSeq(dst, 1, k), "dir")
        <5>1. CASE k = Len(dst) - 1
          BY <4>2, <5>1
        <5>2. CASE k # Len(dst) - 1
          <6>1. k \in 0..Len(Front(dst)) - 1 /\ k \in 0..Len(dst) - 1 /\ Len(dst) - 1 \in 0..Len(dst)
            BY <3>3, <3>4, <4>2, <5>2
          <6>2. Front(dst) \in DOMAIN tree
            BY DEF Is
          <6>3. Is(tree, SubSeq(Front(dst), 1, k), "dir")
            BY <6>1, <6>2, InTree
          <6>4. SubSeq(SubSeq(dst, 1, Len(dst) - 1), 1, k) = SubSeq(dst, 1, k)
            BY <6>1, CutOfCut
          <6>. QED BY <4>2, <6>3, <6>4
        <5>. QED BY <5>1, <5>2
      <4>4. k \in 0..Len(dst)
        BY <3>3, <3>4
      <4>5. SubSeq(dst, 1, k) \in Seq(Name) /\ Len(SubSeq(dst, 1, k)) = k /\ IsPrefix(SubSeq(dst, 1, k), dst)
        BY <4>4, Cuts, PrefixEnds
      <4>6. SubSeq(dst, 1, k) # dst
        BY <3>4, <4>5
      <4>7. ~IsPrefix(src, SubSeq(dst, 1, k))
        <5>1. ASSUME IsPrefix(src, SubSeq(dst, 1, k)) PROVE FALSE
          <6>1. IsPrefix(src, dst)
            BY <1>2, <4>5, <5>1, PrefixOrder
          <6>2. src = dst
            BY <6>1
          <6>. QED BY <1>2, <4>5, <4>6, <5>1, <6>2, PrefixOrder
        <5>. QED BY <5>1
      <4>8. SubSeq(dst, 1, k) \in stay
        BY <4>3, <4>6, <4>7 DEF Stay, Is
      <4>. QED BY <1>5, <1>6, <4>1, <4>3, <4>8 DEF Is
    <3>5. CASE k >= Len(dst)
      <4>. DEFINE j == k - Len(dst) + Len(src)
                  r == SubSeq(m, 1, j)
      <4>1. k \in Len(dst)..Len(to(m))
        BY <3>1, <3>3, <3>5
      <4>2. j \in 0..Len(m) /\ r \in Seq(Name) /\ IsPrefix(src, r) /\ SubSeq(q, 1, k) = to(r)
        BY <1>2, <3>1, <3>2, <4>1, OntoOrder
      <4>3. j \in 0..Len(m) - 1
        BY <3>3, <3>5, <4>2
      <4>4. Is(tree, r, "dir")
        BY <3>2, <4>3, InTree
      <4>. HIDE DEF j, r
      <4>5. r \in moved
        BY <4>2, <4>4 DEF Under, Is
      <4>6. u[to(r)] = tree[r] /\ to(r) \in DOMAIN u
        BY <1>5, <1>7, <4>5
      <4>. QED BY <4>2, <4>4, <4>6 DEF Is
    <3>. QED BY <3>3, <3>4, <3>5
  <2>. QED BY <1>5, <2>1, <2>2
<1>12. IsTree(u)
  BY <1>8, <1>9, <1>10, <1>11 DEF IsTree
<1>. QED BY <1>5, <1>6, <1>7, <1>12 DEF u

-----------------------------------------------------------------------------
(* Where a system call acts, and the stack of frames *)

LEMMA Placing ==
    ASSUME IsTree(tree), NEW p \in Seq(Int), Parent(p), Last(p) \in Name
    PROVE  Place(p) \in Seq(Name) /\ Place(p) # <<>> /\ Is(tree, Front(Place(p)), "dir") /\ Last(Place(p)) = Last(p)
<1>. DEFINE d == os_realpath(tree, Front(p))
<1>1. Is(tree, d, "dir") /\ Place(p) = Append(d, Last(p)) /\ d \in Seq(Name)
  BY InTree DEF Parent, Place, Is
<1>. HIDE DEF d
<1>. QED BY <1>1, Appended

LEMMA Held ==
    ASSUME IsTree(tree), NEW p, Holds(p)
    PROVE  Place(p) \in DOMAIN tree /\ Place(p) \in Seq(Name) /\ (~HoldsA(p, "dir") => Place(p) # <<>> /\ Leaf(tree, Place(p)))
<1>1. Place(p) \in DOMAIN tree /\ Place(p) \in Seq(Name)
  BY InTree DEF Holds
<1>2. ASSUME ~HoldsA(p, "dir") PROVE Place(p) # <<>> /\ Leaf(tree, Place(p))
  <2>1. ~Is(tree, Place(p), "dir")
    BY <1>1, <1>2 DEF HoldsA, Is
  <2>. QED BY <1>1, <2>1, Leaves DEF IsTree
<1>. QED BY <1>1, <1>2

\* Where nothing comes between, a path is where it says.
LEMMA There ==
    ASSUME IsTree(tree), NEW p \in Seq(Name), Lexical(tree, p)
    PROVE  /\ Parent(p) => Place(p) = p /\ Is(tree, Front(p), "dir") /\ p # <<>> /\ Last(p) \in Name
           /\ Holds(p) => Place(p) = p /\ p \in DOMAIN tree
<1>1. ASSUME Parent(p) PROVE Place(p) = p /\ Is(tree, Front(p), "dir") /\ p # <<>> /\ Last(p) \in Name
  <2>1. p # <<>> /\ Is(tree, os_realpath(tree, Front(p)), "dir")
    BY <1>1 DEF Parent
  <2>2. ~Is(tree, Missing, "dir") /\ ~Is(tree, Failed, "dir")
    BY Marks, InTree DEF Is
  <2>3. os_realpath(tree, Front(p)) = Front(p)
    BY <2>1, <2>2 DEF Lexical
  <2>4. p = Append(Front(p), Last(p)) /\ Last(p) \in Name
    BY <2>1, Ends
  <2>. QED BY <2>1, <2>3, <2>4 DEF Place
<1>2. ASSUME Holds(p) PROVE Place(p) = p /\ p \in DOMAIN tree
  BY <1>1, <1>2 DEF Holds, Place
<1>. QED BY <1>1, <1>2

LEMMA FrontInt == ASSUME NEW p \in Seq(Int), p # <<>> PROVE Front(p) \in Seq(Int)
BY Ends

\* What is not written anew.
LEMMA PutKeeps ==
    ASSUME NEW p, NEW node
    PROVE  /\ DOMAIN Put(p, node) = DOMAIN tree \cup {p} /\ Put(p, node)[p] = node
           /\ \A q \in DOMAIN tree : q # p => Put(p, node)[q] = tree[q]
           /\ \A q, kind : q # p => (Is(Put(p, node), q, kind) <=> Is(tree, q, kind))
           /\ \A kind : Is(Put(p, node), p, kind) <=> node.kind = kind
BY DEF Put, Is

LEMMA CutKeeps ==
    ASSUME NEW p
    PROVE  /\ DOMAIN Cut(p) = DOMAIN tree \ {p} /\ \A q \in DOMAIN tree \ {p} : Cut(p)[q] = tree[q]
           /\ \A q, kind : Is(Cut(p), q, kind) <=> q # p /\ Is(tree, q, kind)
BY DEF Cut, Is

LEMMA FrameTypes ==
    ASSUME NEW do \in Dos, NEW at \in Seq(Name), NEW from \in Seq(Int), NEW depth \in Nat
    PROVE  /\ Frame(do, at) \in FrameType /\ Pair(do, from, at, depth) \in FrameType
           /\ Frame(do, at).do = do /\ Frame(do, at).at = at
           /\ Pair(do, from, at, depth).do = do /\ Pair(do, from, at, depth).at = at
           /\ Pair(do, from, at, depth).from = from
<1>1. <<>> \in Seq(Int) /\ {} \in SUBSET Name
  BY EmptySeq
<1>. QED BY <1>1 DEF Frame, Pair, FrameType

LEMMA Stack ==
    ASSUME NEW S, NEW w \in Seq(S), w # <<>>
    PROVE  /\ Len(w) \in Nat \ {0} /\ Head(w) = w[1] /\ Head(w) \in S
           /\ Tail(w) \in Seq(S) /\ Len(Tail(w)) = Len(w) - 1
           /\ \A i \in 1..Len(w) - 1 : Tail(w)[i] = w[i + 1]
           /\ \A x \in S : /\ <<x>> \o Tail(w) \in Seq(S) /\ Len(<<x>> \o Tail(w)) = Len(w)
                           /\ (<<x>> \o Tail(w))[1] = x
                           /\ \A i \in 2..Len(w) : (<<x>> \o Tail(w))[i] = w[i]
           /\ \A x, y \in S : /\ <<x, y>> \o Tail(w) \in Seq(S) /\ Len(<<x, y>> \o Tail(w)) = Len(w) + 1
                              /\ (<<x, y>> \o Tail(w))[1] = x /\ (<<x, y>> \o Tail(w))[2] = y
                              /\ \A i \in 3..Len(w) + 1 : (<<x, y>> \o Tail(w))[i] = w[i - 1]
<1>1. /\ Len(w) \in Nat \ {0} /\ Head(w) = w[1] /\ Head(w) \in S
      /\ Tail(w) \in Seq(S) /\ Len(Tail(w)) = Len(w) - 1
      /\ \A i \in 1..Len(w) - 1 : Tail(w)[i] = w[i + 1]
  BY EmptySeq, HeadTailProperties
<1>2. ASSUME NEW x \in S
      PROVE  /\ <<x>> \o Tail(w) \in Seq(S) /\ Len(<<x>> \o Tail(w)) = Len(w)
             /\ (<<x>> \o Tail(w))[1] = x
             /\ \A i \in 2..Len(w) : (<<x>> \o Tail(w))[i] = w[i]
  <2>1. <<x>> \in Seq(S) /\ Len(<<x>>) = 1 /\ <<x>>[1] = x
    OBVIOUS
  <2>2. /\ <<x>> \o Tail(w) \in Seq(S) /\ Len(<<x>> \o Tail(w)) = 1 + (Len(w) - 1)
        /\ \A i \in 1..1 + (Len(w) - 1) : (<<x>> \o Tail(w))[i] = IF i <= 1 THEN <<x>>[i] ELSE Tail(w)[i - 1]
    BY <1>1, <2>1, ConcatProperties
  <2>3. ASSUME NEW i \in 2..Len(w) PROVE (<<x>> \o Tail(w))[i] = w[i]
    <3>1. i \in 1..1 + (Len(w) - 1) /\ ~(i <= 1) /\ i - 1 \in 1..Len(w) - 1 /\ (i - 1) + 1 = i
      BY <1>1
    <3>. QED BY <1>1, <2>2, <3>1
  <2>4. 1 \in 1..1 + (Len(w) - 1)
    BY <1>1
  <2>. QED BY <1>1, <2>1, <2>2, <2>3, <2>4
<1>3. ASSUME NEW x \in S, NEW y \in S
      PROVE  /\ <<x, y>> \o Tail(w) \in Seq(S) /\ Len(<<x, y>> \o Tail(w)) = Len(w) + 1
             /\ (<<x, y>> \o Tail(w))[1] = x /\ (<<x, y>> \o Tail(w))[2] = y
             /\ \A i \in 3..Len(w) + 1 : (<<x, y>> \o Tail(w))[i] = w[i - 1]
  <2>1. <<x, y>> \in Seq(S) /\ Len(<<x, y>>) = 2 /\ <<x, y>>[1] = x /\ <<x, y>>[2] = y
    OBVIOUS
  <2>2. /\ <<x, y>> \o Tail(w) \in Seq(S) /\ Len(<<x, y>> \o Tail(w)) = 2 + (Len(w) - 1)
        /\ \A i \in 1..2 + (Len(w) - 1) : (<<x, y>> \o Tail(w))[i] = IF i <= 2 THEN <<x, y>>[i] ELSE Tail(w)[i - 2]
    BY <1>1, <2>1, ConcatProperties
  <2>3. ASSUME NEW i \in 3..Len(w) + 1 PROVE (<<x, y>> \o Tail(w))[i] = w[i - 1]
    <3>1. i \in 1..2 + (Len(w) - 1) /\ ~(i <= 2) /\ i - 2 \in 1..Len(w) - 1 /\ (i - 2) + 1 = i - 1
      BY <1>1
    <3>. QED BY <1>1, <2>2, <3>1
  <2>4. 1 \in 1..2 + (Len(w) - 1) /\ 2 \in 1..2 + (Len(w) - 1)
    BY <1>1
  <2>. QED BY <1>1, <2>1, <2>2, <2>3, <2>4
<1>. QED BY <1>1, <1>2, <1>3

\* What exists behind no link is where it says it is.
LEMMA NoDetour ==
    ASSUME NEW t, IsTree(t), NEW p \in Seq(Name), Lexical(t, p), ~Is(t, p, "link"),
           os_realpath(t, p) \notin {Missing, Failed}
    PROVE  os_realpath(t, p) = p
<1>1. CASE p = <<>>
  BY <1>1, Resolution
<1>2. CASE p # <<>>
  <2>1. PICK d \in Seq(Name), n \in Name : p = Append(d, n) /\ Front(p) = d
    BY <1>2, Ends
  <2>2. d \in Seq(Int) /\ n \in Int /\ p \in Seq(Int)
    BY Marks
  <2>3. /\ os_realpath(t, d) # Failed /\ ~Is(t, os_realpath(t, d), "dir") => os_realpath(t, p) = Missing
        /\ os_realpath(t, d) \in {Missing, Failed} => os_realpath(t, p) = os_realpath(t, d)
        /\ Is(t, os_realpath(t, d), "dir") =>
             LET q == Append(os_realpath(t, d), n)
             IN /\ q \notin DOMAIN t => os_realpath(t, p) = Missing
                /\ q \in DOMAIN t /\ ~Is(t, q, "link") => os_realpath(t, p) = q
    BY <2>1, <2>2, Onward
  <2>4. os_realpath(t, d) = d
    BY <1>2, <2>1, <2>3 DEF Lexical
  <2>. QED BY <2>1, <2>3, <2>4, Marks
<1>. QED BY <1>1, <1>2

-----------------------------------------------------------------------------
(* A call begins *)

LEMMA EffTypes ==
    ASSUME IsTree(tree), granted \in Grants
    PROVE  \A e \in eff : e.path \in Seq(Name)
<1>1. ASSUME NEW perms, \A q \in perms : q.path \in Text PROVE \A r \in canon_push(tree, perms) : r.path \in Seq(Name)
  BY <1>1, Canonical DEF canon_push
<1>2. \A q \in Request : q.path \in Text
  <2>1. Name \subseteq Name \cup {Dot, DotDot}
    OBVIOUS
  <2>. QED BY <2>1, FsAssumption, SeqMonotonic DEF Text, Request
<1>3. \A q \in granted : q.path \in Text
  BY FsAssumption DEF Permission
<1>4. \A r \in canon_push(tree, Request) \cup canon_push(tree, granted) : r.path \in Seq(Name)
  BY <1>1, <1>2, <1>3
<1>. QED BY <1>4 DEF eff, astools_policy_effective

LEMMA CheckedPath ==
    ASSUME IsTree(tree), NEW a \in Text, NEW access, NEW must_exist \in BOOLEAN,
           NEW r, r = Checked(a, access, must_exist)
    PROVE  /\ r.code \in {"ok", "io", "denied", "invalid"}
           /\ r.code = "ok" => /\ r.path \in Seq(Name) /\ Straight(tree, r.path) /\ Covered(eff, r.path, access)
                               /\ must_exist => r.path \in DOMAIN tree /\ ~Is(tree, r.path, "link")
<1>. DEFINE p == Workspace \o a
            canon == astools_path_canonical(tree, p)
<1>1. p \in Text
  <2>1. Name \subseteq Name \cup {Dot, DotDot}
    OBVIOUS
  <2>2. Workspace \in Text
    BY <2>1, FsAssumption, SeqMonotonic DEF Text
  <2>. QED BY <2>2, ConcatProperties DEF Text
<1>2. r = IF canon = Failed THEN [code |-> "io", path |-> <<>>]
          ELSE IF ~Covered(eff, canon, access) THEN [code |-> "denied", path |-> <<>>]
          ELSE IF must_exist /\ os_realpath(tree, canon) \in {Missing, Failed} THEN [code |-> "invalid", path |-> <<>>]
          ELSE [code |-> "ok", path |-> canon]
  BY DEF Checked, walk_type
<1>3. canon # Failed => /\ canon \in Seq(Name) /\ Straight(tree, canon)
                        /\ os_realpath(tree, canon) \notin {Missing, Failed} => canon \in DOMAIN tree /\ ~Is(tree, canon, "link")
  <2>. HIDE DEF p
  <2>. QED BY <1>1, Canonical
<1>. HIDE DEF canon
<1>. QED BY <1>2, <1>3

\* The frames of the parents, and the last one.
LEMMA ParentFrames ==
    ASSUME NEW p \in Seq(Name), NEW do \in Parents, NEW last \in FrameType
    PROVE  LET w == ensure_parent_dirs(p, do) \o <<last>>
           IN /\ w \in Seq(FrameType) /\ Len(w) \in Nat \ {0} /\ w[Len(w)] = last
              /\ \A i \in 1..Len(w) - 1 : w[i].do = do /\ IsPrefix(w[i].at, p) /\ w[i].at # p
<1>. DEFINE e == ensure_parent_dirs(p, do)
            w == e \o <<last>>
<1>1. Len(p) \in Nat /\ do \in Dos
  BY LenProperties DEF Parents, Dos
<1>2. ASSUME NEW k \in 1..Len(p) - 1
      PROVE  /\ Frame(do, SubSeq(p, 1, k)) \in FrameType /\ Frame(do, SubSeq(p, 1, k)).do = do
             /\ Frame(do, SubSeq(p, 1, k)).at = SubSeq(p, 1, k)
             /\ IsPrefix(SubSeq(p, 1, k), p) /\ SubSeq(p, 1, k) # p
  <2>1. k \in 0..Len(p) /\ k # Len(p)
    BY <1>1
  <2>2. SubSeq(p, 1, k) \in Seq(Name) /\ Len(SubSeq(p, 1, k)) = k /\ IsPrefix(SubSeq(p, 1, k), p)
    BY <2>1, Cuts, PrefixEnds
  <2>3. <<>> \in Seq(Int) /\ 0 \in Nat
    BY EmptySeq
  <2>. QED BY <1>1, <2>1, <2>2, <2>3, FrameTypes
<1>3. PICK n \in Nat : 1..n = 1..Len(p) - 1
  <2>1. CASE Len(p) = 0
    <3>1. 1..0 = 1..Len(p) - 1
      BY <2>1
    <3>. QED BY <3>1
  <2>2. CASE Len(p) # 0
    BY <1>1, <2>2
  <2>. QED BY <2>1, <2>2
<1>4. e \in [1..n -> FrameType] /\ \A k \in 1..n : e[k] = Frame(do, SubSeq(p, 1, k))
  BY <1>2, <1>3 DEF ensure_parent_dirs
<1>5. e \in Seq(FrameType)
  BY <1>4, SeqDef
<1>. HIDE DEF e
<1>6. Len(e) = n
  BY <1>4, <1>5, LenProperties
<1>7. <<last>> \in Seq(FrameType) /\ Len(<<last>>) = 1 /\ <<last>>[1] = last
  OBVIOUS
<1>8. /\ w \in Seq(FrameType) /\ Len(w) = n + 1
      /\ \A i \in 1..n + 1 : w[i] = IF i <= n THEN e[i] ELSE <<last>>[i - n]
  BY <1>5, <1>6, <1>7, ConcatProperties DEF e
<1>9. w[Len(w)] = last
  <2>1. n + 1 \in 1..n + 1 /\ ~(n + 1 <= n) /\ (n + 1) - n = 1
    OBVIOUS
  <2>. QED BY <1>7, <1>8, <2>1
<1>10. ASSUME NEW i \in 1..Len(w) - 1 PROVE w[i].do = do /\ IsPrefix(w[i].at, p) /\ w[i].at # p
  <2>1. i \in 1..n /\ i \in 1..n + 1 /\ i <= n
    BY <1>8
  <2>2. w[i] = Frame(do, SubSeq(p, 1, i))
    BY <1>4, <1>8, <2>1
  <2>. QED BY <1>2, <1>3, <2>1, <2>2
<1>11. /\ w \in Seq(FrameType) /\ Len(w) \in Nat \ {0} /\ w[Len(w)] = last
       /\ \A i \in 1..Len(w) - 1 : w[i].do = do /\ IsPrefix(w[i].at, p) /\ w[i].at # p
  <2>. HIDE DEF w
  <2>. QED BY <1>8, <1>9, <1>10
<1>. QED BY <1>11 DEF e

LEMMA OneFrame ==
    ASSUME NEW x \in FrameType
    PROVE  <<x>> \in Seq(FrameType) /\ Len(<<x>>) = 1 /\ <<x>>[1] = x /\ <<>> \o <<x>> = <<x>>
<1>1. <<x>> \in Seq(FrameType)
  OBVIOUS
<1>. QED BY <1>1, ConcatEmptySeq

LEMMA Prepared ==
    ASSUME NEW p \in Seq(Name), NEW do \in Parents, NEW last \in FrameType, NEW parents
    PROVE  LET w == (IF parents THEN ensure_parent_dirs(p, do) ELSE <<>>) \o <<last>>
           IN /\ w \in Seq(FrameType)
              /\ \A i \in 1..Len(w) : IF i = Len(w) THEN w[i] = last
                                      ELSE w[i].do \in Parents /\ IsPrefix(w[i].at, p) /\ w[i].at # p
<1>. DEFINE w == (IF parents THEN ensure_parent_dirs(p, do) ELSE <<>>) \o <<last>>
<1>1. CASE parents
  <2>1. w = ensure_parent_dirs(p, do) \o <<last>>
    BY <1>1
  <2>2. /\ w \in Seq(FrameType) /\ Len(w) \in Nat \ {0} /\ w[Len(w)] = last
        /\ \A i \in 1..Len(w) - 1 : w[i].do = do /\ IsPrefix(w[i].at, p) /\ w[i].at # p
    <3>. HIDE DEF w
    <3>. QED BY <2>1, ParentFrames
  <2>3. \A i \in 1..Len(w) : i # Len(w) => i \in 1..Len(w) - 1
    BY <2>2
  <2>. QED BY <2>2, <2>3
<1>2. CASE ~parents
  <2>1. w = <<last>>
    BY <1>2, OneFrame
  <2>2. w \in Seq(FrameType) /\ Len(w) = 1 /\ w[1] = last
    BY <2>1, OneFrame
  <2>3. \A i \in 1..Len(w) : i = Len(w) /\ i = 1
    BY <2>2
  <2>4. /\ w \in Seq(FrameType)
        /\ \A i \in 1..Len(w) : IF i = Len(w) THEN w[i] = last
                                ELSE w[i].do \in Parents /\ IsPrefix(w[i].at, p) /\ w[i].at # p
    <3>. HIDE DEF w
    <3>. QED BY <2>2, <2>3
  <2>. QED BY <2>4
<1>. QED BY <1>1, <1>2

LEMMA RunWriting ==
    ASSUME IsTree(tree), NEW c \in FsCall, c.cmd \in Writes, NEW a, a.path \in Seq(Name), Straight(tree, a.path),
           Covered(eff, a.path, {"w"}), NEW b, Run(c, a, b), tree' = tree
    PROVE  work' \in Seq(FrameType) /\ WritingInv'
<1>. DEFINE p == a.path
<1>1. /\ op'.cmd = c.cmd /\ op'.a = p /\ op'.eff = eff /\ op'.before = tree
  BY DEF Run
<1>2. Writable(op.a)'
  BY <1>1 DEF Writable
<1>3. Straight(tree, op.a)' /\ (Is(tree, op.a, "link") => Is(op.before, op.a, "link"))'
  BY <1>1 DEF Straight
<1>4. ASSUME NEW last \in FrameType, last.do \in {c.cmd, "refuse"}, last.at = p, NEW do \in Parents, NEW parents,
             work' = (IF parents THEN ensure_parent_dirs(p, do) ELSE <<>>) \o <<last>>
      PROVE  work' \in Seq(FrameType) /\ Preparing'
  <2>1. /\ work' \in Seq(FrameType)
        /\ \A i \in 1..Len(work') : IF i = Len(work') THEN work'[i] = last
                                    ELSE work'[i].do \in Parents /\ IsPrefix(work'[i].at, p) /\ work'[i].at # p
    <3>. DEFINE w == (IF parents THEN ensure_parent_dirs(p, do) ELSE <<>>) \o <<last>>
    <3>1. /\ w \in Seq(FrameType)
          /\ \A i \in 1..Len(w) : IF i = Len(w) THEN w[i] = last
                                  ELSE w[i].do \in Parents /\ IsPrefix(w[i].at, p) /\ w[i].at # p
      BY <1>4, Prepared, SMTT(25)
    <3>. HIDE DEF w
    <3>. QED BY <1>4, <3>1 DEF w
  <2>. QED BY <1>1, <1>3, <1>4, <2>1 DEF Preparing
<1>5. <<>> \in Seq(Int) /\ 0 \in Nat /\ c.cmd \in Dos /\ "refuse" \in Dos /\ "mkdir" \in Dos
  BY EmptySeq DEF Writes, Dos
<1>6. \A do \in Dos : Frame(do, p) \in FrameType /\ Frame(do, p).do = do /\ Frame(do, p).at = p
  BY <1>5, FrameTypes, ZenonT(40)
<1>7. CASE c.cmd \in {"create", "overwrite", "append"}
  <2>1. work' = (IF c.flag THEN ensure_parent_dirs(p, "parent") ELSE <<>>) \o <<Frame(c.cmd, p)>>
    BY <1>7 DEF Run, cmd_write
  <2>2. "parent" \in Parents
    BY DEF Parents
  <2>3. work' \in Seq(FrameType) /\ Preparing'
    BY <1>4, <1>5, <1>6, <2>1, <2>2
  <2>. QED BY <1>2, <2>3 DEF WritingInv
<1>8. CASE c.cmd = "mkdir"
  <2>. DEFINE real == os_realpath(tree, p)
  <2>1. work' = IF Is(tree, real, "dir") THEN <<>>
                ELSE IF real \in DOMAIN tree THEN <<Frame("refuse", p)>>
                ELSE (IF c.flag THEN ensure_parent_dirs(p, "parent?") ELSE <<>>) \o <<Frame("mkdir", p)>>
    BY <1>8 DEF Run, cmd_mkdir
  <2>2. "parent?" \in Parents
    BY DEF Parents
  <2>3. CASE work' = <<>>
    BY <1>2, <2>3, EmptySeq DEF WritingInv
  <2>4. CASE work' = <<Frame("refuse", p)>>
    <3>1. work' = (IF FALSE THEN ensure_parent_dirs(p, "parent?") ELSE <<>>) \o <<Frame("refuse", p)>>
      BY <1>5, <1>6, <2>4, OneFrame
    <3>2. work' \in Seq(FrameType) /\ Preparing'
      BY <1>4, <1>5, <1>6, <2>2, <3>1
    <3>. QED BY <1>2, <3>2 DEF WritingInv
  <2>5. CASE work' = (IF c.flag THEN ensure_parent_dirs(p, "parent?") ELSE <<>>) \o <<Frame("mkdir", p)>>
    <3>1. work' \in Seq(FrameType) /\ Preparing'
      BY <1>4, <1>5, <1>6, <1>8, <2>2, <2>5
    <3>. QED BY <1>2, <3>1 DEF WritingInv
  <2>. QED BY <2>1, <2>3, <2>4, <2>5
<1>. QED BY <1>7, <1>8 DEF Writes

LEMMA RunRemoving ==
    ASSUME IsTree(tree), NEW c \in FsCall, c.cmd = "remove", NEW a, a.path \in DOMAIN tree, ~Is(tree, a.path, "link"),
           Covered(eff, a.path, {"w"}), NEW b, Run(c, a, b), tree' = tree
    PROVE  work' \in Seq(FrameType) /\ RemovingInv'
<1>. DEFINE p == a.path
            do == IF HoldsA(p, "dir") /\ ~c.flag THEN "rmdir" ELSE "drop"
            x == Frame(do, p)
<1>1. op'.a = p /\ op'.eff = eff /\ work' = <<x>>
  BY DEF Run, cmd_remove
<1>2. Writable(op.a)'
  BY <1>1 DEF Writable
<1>3. p \in Seq(Name) /\ IsPrefix(p, p)
  BY InTree, PrefixOrder
<1>4. x \in FrameType /\ x.do \in {"drop", "rmdir"} /\ x.at = p
  <2>1. do \in Dos /\ do \in {"drop", "rmdir"} /\ <<>> \in Seq(Int) /\ 0 \in Nat
    BY EmptySeq DEF Dos
  <2>. HIDE DEF do
  <2>. QED BY <1>3, <2>1, FrameTypes, ZenonT(40)
<1>5. \A k \in 0..Len(p) - 1 : ~Is(tree, SubSeq(p, 1, k), "link")
  BY InTree DEF Is
<1>. HIDE DEF x
<1>6. x \in RemovingFrames'
  BY <1>1, <1>3, <1>4, <1>5 DEF RemovingFrames
<1>7. work' \in Seq(FrameType) /\ (work \in Seq(RemovingFrames))'
  BY <1>1, <1>4, <1>6
<1>. QED BY <1>2, <1>7 DEF RemovingInv

LEMMA RunCopying ==
    ASSUME IsTree(tree), NEW c \in FsCall, c.cmd = "copy", NEW a, a.path \in Seq(Name),
           NEW b, b.path \in Seq(Name), Straight(tree, b.path), Covered(eff, b.path, {"w"}), Run(c, a, b), tree' = tree
    PROVE  work' \in Seq(FrameType) /\ CopyingInv'
<1>1. op'.b = b.path /\ op'.eff = eff
  BY DEF Run
<1>2. PICK do \in {"tree", "file", "refuse"} : work' = <<Pair(do, a.path, b.path, 0)>>
  BY DEF Run, cmd_copy
<1>. DEFINE x == Pair(do, a.path, b.path, 0)
<1>3. x \in FrameType /\ x.do = do /\ x.at = b.path
  <2>1. do \in Dos /\ a.path \in Seq(Int) /\ 0 \in Nat
    BY Marks DEF Dos
  <2>. QED BY <2>1, FrameTypes
<1>. HIDE DEF x
<1>4. work' \in Seq(FrameType) /\ Len(work') = 1 /\ work'[1] = x
  BY <1>2, <1>3, OneFrame DEF x
<1>5. Writable(op.b)' /\ IsPrefix(b.path, b.path) /\ Lexical(tree, b.path)
  BY <1>1, PrefixOrder, StraightLexical DEF Writable
<1>6. Lexical(tree, b.path)'
  BY <1>5 DEF Lexical
<1>7. x \in CopyingFrames'
  BY <1>1, <1>3, <1>5, <1>6 DEF CopyingFrames
<1>8. Head(work') = x /\ Tail(work') = <<>>
  <2>1. work' = <<x>>
    BY <1>2 DEF x
  <2>2. Head(<<x>>) = x /\ Tail(<<x>>) = <<>>
    OBVIOUS
  <2>. QED BY <2>1, <2>2
<1>. QED BY <1>4, <1>5, <1>7, <1>8, EmptySeq DEF CopyingInv

LEMMA RunMoving ==
    ASSUME IsTree(tree), NEW c \in FsCall, c.cmd = "move", NEW a, a.path \in DOMAIN tree, ~Is(tree, a.path, "link"),
           Covered(eff, a.path, {"w"}),
           NEW b, b.path \in Seq(Name), Straight(tree, b.path), Covered(eff, b.path, {"w"}), Run(c, a, b), tree' = tree
    PROVE  work' \in Seq(FrameType) /\ MovingInv'
<1>1. op'.a = a.path /\ op'.b = b.path /\ op'.eff = eff
  BY DEF Run
<1>2. work' = <<Pair("rename", a.path, b.path, 0)>>
  BY DEF Run, cmd_move
<1>. DEFINE x == Pair("rename", a.path, b.path, 0)
<1>3. x \in FrameType /\ x.do = "rename" /\ x.at = b.path /\ x.from = a.path
  <2>1. "rename" \in Dos /\ a.path \in Seq(Int) /\ 0 \in Nat
    BY InTree DEF Dos
  <2>. QED BY <2>1, FrameTypes
<1>. HIDE DEF x
<1>4. work' \in Seq(FrameType) /\ Len(work') = 1 /\ work'[1] = x
  BY <1>2, <1>3, OneFrame DEF x
<1>5. Writable(op.a)' /\ Writable(op.b)' /\ Lexical(tree, b.path)
  BY <1>1, StraightLexical DEF Writable
<1>6. Lexical(tree, b.path)'
  BY <1>5 DEF Lexical
<1>. QED BY <1>1, <1>3, <1>4, <1>5, <1>6 DEF MovingInv

\* What the pre-flight lets through.
LetThrough(c, a, b) ==
    /\ a.code \in {"ok", "io", "denied", "invalid"} /\ b.code \in {"ok", "io", "denied", "invalid"}
    /\ a.code = "ok" => a.path \in Seq(Name) /\ Straight(tree, a.path)
    /\ a.code = "ok" /\ c.cmd \notin {"copy", "list"} => Covered(eff, a.path, {"w"})
    /\ a.code = "ok" /\ c.cmd \in {"remove", "move", "copy", "list"} => a.path \in DOMAIN tree /\ ~Is(tree, a.path, "link")
    /\ b.code = "ok" => b.path \in Seq(Name)
    /\ b.code = "ok" /\ c.cmd \in {"copy", "move"} => Straight(tree, b.path) /\ Covered(eff, b.path, {"w"})

LEMMA CallPaths ==
    ASSUME FsTypeOK, NEW c \in FsCalls, Call(c)
    PROVE  \E a, b : LetThrough(c, a, b) /\ (Denied(a, b) \/ Run(c, a, b))
<1>1. IsTree(tree) /\ granted \in Grants
  BY DEF FsTypeOK
<1>2. c \in FsCall /\ c.a \in Text /\ c.b \in Text
  BY FsAssumption DEF FsCall
<1>. DEFINE a == First(c)
            b == Second(c)
            w == {"w"}
<1>3. /\ a.code \in {"ok", "io", "denied", "invalid"}
      /\ a.code = "ok" => a.path \in Seq(Name) /\ Straight(tree, a.path)
      /\ a.code = "ok" /\ c.cmd \notin {"copy", "list"} => Covered(eff, a.path, {"w"})
      /\ a.code = "ok" /\ c.cmd \in {"remove", "move", "copy", "list"} => a.path \in DOMAIN tree /\ ~Is(tree, a.path, "link")
  <2>1. CASE c.cmd \in {"create", "overwrite", "append", "mkdir"}
    <3>1. a = Checked(c.a, {"w"}, FALSE)
      BY <2>1 DEF First
    <3>. HIDE DEF a
    <3>. QED BY <1>1, <1>2, <2>1, <3>1, CheckedPath
  <2>2. CASE c.cmd \in {"remove", "move"}
    <3>1. a = Checked(c.a, {"w"}, TRUE)
      BY <2>2 DEF First
    <3>. HIDE DEF a
    <3>. QED BY <1>1, <1>2, <2>2, <3>1, CheckedPath
  <2>3. CASE c.cmd \in {"copy", "list"}
    <3>1. a = Checked(c.a, {"r"}, TRUE)
      BY <2>3 DEF First
    <3>. HIDE DEF a
    <3>. QED BY <1>1, <1>2, <2>3, <3>1, CheckedPath
  <2>. QED BY <1>2, <2>1, <2>2, <2>3 DEF FsCall
<1>4. /\ b.code \in {"ok", "io", "denied", "invalid"}
      /\ b.code = "ok" => b.path \in Seq(Name)
      /\ b.code = "ok" /\ c.cmd \in {"copy", "move"} => Straight(tree, b.path) /\ Covered(eff, b.path, {"w"})
  <2>1. CASE c.cmd \in {"copy", "move"}
    <3>1. b = Checked(c.b, {"w"}, FALSE)
      BY <2>1 DEF Second
    <3>. HIDE DEF b
    <3>. QED BY <1>1, <1>2, <2>1, <3>1, CheckedPath
  <2>2. CASE c.cmd \notin {"copy", "move"}
    <3>1. b = [code |-> "ok", path |-> <<>>]
      BY <2>2 DEF Second
    <3>. QED BY <2>2, <3>1, EmptySeq
  <2>. QED BY <2>1, <2>2
<1>5. Denied(a, b) \/ Run(c, a, b)
  BY DEF Call
<1>. HIDE DEF a, b
<1>. QED BY <1>3, <1>4, <1>5 DEF LetThrough

LEMMA CallStep ==
    ASSUME FsTypeOK, NEW c \in FsCalls, Call(c)
    PROVE  FsInv'
<1>1. IsTree(tree) /\ granted \in Grants /\ asked \in Nat /\ tree' = tree /\ granted' = granted /\ asked' = asked + 1 /\ counted' = 0
  BY DEF FsTypeOK, Call
<1>2. c \in FsCall
  BY FsAssumption
<1>3. PICK a, b : LetThrough(c, a, b) /\ (Denied(a, b) \/ Run(c, a, b))
  BY CallPaths
<1>4. LetThrough(c, a, b)
  BY <1>3
<1>6. CASE Denied(a, b)
  <2>1. outcome' # "running" /\ work' = <<>>
    BY <1>4, <1>6 DEF LetThrough, Denied
  <2>2. asked' \in Nat /\ counted' \in Nat /\ work' \in Seq(FrameType) /\ IsTree(tree)' /\ (granted \in Grants)'
    BY <1>1, <2>1, EmptySeq
  <2>. QED BY <2>1, <2>2 DEF FsInv, FsTypeOK
<1>7. CASE Run(c, a, b)
  <2>1. /\ a.code = "ok" /\ b.code = "ok" /\ outcome' = "running"
        /\ op'.cmd = c.cmd /\ op'.a = a.path /\ op'.b = b.path
    BY <1>7 DEF Run
  <2>2. asked' \in Nat /\ counted' \in Nat /\ IsTree(tree)' /\ (granted \in Grants)'
    BY <1>1
  <2>3. op'.cmd \in Writes \cup {"remove", "copy", "move", "list"} /\ op'.a \in Seq(Name) /\ op'.b \in Seq(Name)
    BY <1>2, <1>4, <2>1 DEF LetThrough, FsCall, Writes
  <2>5. \A e \in op'.eff : e.path \in Seq(Name)
    BY <1>1, <1>7, EffTypes DEF Run
  <2>4. /\ work' \in Seq(FrameType)
        /\ c.cmd \in Writes => WritingInv'
        /\ c.cmd = "remove" => RemovingInv'
        /\ c.cmd = "copy" => CopyingInv'
        /\ c.cmd = "move" => MovingInv'
        /\ c.cmd = "list" => ListingInv'
    <3>1. CASE c.cmd \in Writes
      <4>1. c.cmd \notin {"copy", "list", "remove", "move"}
        BY <3>1 DEF Writes
      <4>. QED BY <1>1, <1>2, <1>4, <1>7, <2>1, <3>1, <4>1, RunWriting DEF LetThrough
    <3>2. CASE c.cmd = "remove"
      <4>1. work' \in Seq(FrameType) /\ RemovingInv'
        BY <1>1, <1>2, <1>4, <1>7, <2>1, <3>2, RunRemoving DEF LetThrough
      <4>. QED BY <3>2, <4>1 DEF Writes
    <3>3. CASE c.cmd = "copy"
      <4>1. work' \in Seq(FrameType) /\ CopyingInv'
        BY <1>1, <1>2, <1>4, <1>7, <2>1, <3>3, RunCopying DEF LetThrough
      <4>. QED BY <3>3, <4>1 DEF Writes
    <3>4. CASE c.cmd = "move"
      <4>1. work' \in Seq(FrameType) /\ MovingInv'
        BY <1>1, <1>2, <1>4, <1>7, <2>1, <3>4, RunMoving DEF LetThrough
      <4>. QED BY <3>4, <4>1 DEF Writes
    <3>5. CASE c.cmd = "list"
      <4>1. work' = <<Frame("walk", a.path)>>
        BY <1>7, <3>5 DEF Run
      <4>2. Frame("walk", a.path) \in FrameType /\ Frame("walk", a.path).do = "walk"
        <5>1. "walk" \in Dos /\ <<>> \in Seq(Int) /\ 0 \in Nat
          BY EmptySeq DEF Dos
        <5>. QED BY <1>4, <2>1, <5>1, FrameTypes DEF LetThrough
      <4>3. work' \in Seq(FrameType) /\ Len(work') = 1 /\ work'[1].do = "walk"
        BY <4>1, <4>2, OneFrame
      <4>. QED BY <3>5, <4>3 DEF Writes, ListingInv
    <3>. QED BY <1>2, <3>1, <3>2, <3>3, <3>4, <3>5 DEF FsCall, Writes
  <2>. QED BY <2>1, <2>2, <2>3, <2>4, <2>5 DEF FsInv, FsTypeOK
<1>. QED BY <1>3, <1>6, <1>7

-----------------------------------------------------------------------------
(* fs.write and fs.mkdir *)

LEMMA CoveredBelow ==
    ASSUME NEW effs, \A e \in effs : e.path \in Seq(Name), NEW p \in Seq(Name), NEW q \in Seq(Name),
           Covered(effs, p, {"w"})
    PROVE  /\ IsPrefix(p, q) => Covered(effs, q, {"w"})
           /\ IsPrefix(q, p) => Covered(effs, q, {"w"}) \/ \E e \in effs : {"w"} \subseteq e.access /\ IsPrefix(q, e.path)
<1>1. PICK e \in effs : {"w"} \subseteq e.access /\ IsPrefix(e.path, p) /\ e.path \in Seq(Name)
  BY DEF Covered, astools_path_under
<1>2. IsPrefix(p, q) => IsPrefix(e.path, q)
  BY <1>1, PrefixOrder
<1>3. IsPrefix(q, p) => IsPrefix(e.path, q) \/ IsPrefix(q, e.path)
  BY <1>1, PrefixOrder
<1>. QED BY <1>1, <1>2, <1>3 DEF Covered, astools_path_under

\* A missing parent that is made leaves the path where it is.
LEMMA StraightPut ==
    ASSUME IsTree(tree), NEW p \in Seq(Name), NEW q \in Seq(Name), q # <<>>, IsPrefix(q, p), q \notin DOMAIN tree,
           Is(tree, Front(q), "dir"), IsTree(Put(q, Dir))
    PROVE  Straight(Put(q, Dir), p)
<1>. DEFINE u == Put(q, Dir)
<1>1. /\ DOMAIN u = DOMAIN tree \cup {q} /\ Is(u, q, "dir")
      /\ \A x, kind : x # q => (Is(u, x, kind) <=> Is(tree, x, kind))
  <2>1. Dir.kind = "dir"
    BY DEF Dir
  <2>. QED BY <2>1, PutKeeps
<1>. HIDE DEF u
<1>0. Len(p) \in Nat /\ Len(q) \in Nat /\ Len(q) # 0 /\ Len(q) <= Len(p)
  BY LenProperties, EmptySeq, Prefix
<1>2. Len(p) \in Nat /\ Len(q) \in Nat \ {0} /\ Len(q) <= Len(p) /\ q = SubSeq(p, 1, Len(q)) /\ p \in Seq(Int) /\ q \in Seq(Int)
  BY LenProperties, EmptySeq, Prefix, Marks
<1>3. \A d : Is(u, d, "dir") => os_realpath(u, d) = d
  BY Itself DEF Is, u
<1>4. ASSUME NEW k \in 0..Len(p) - 1
      PROVE  os_realpath(u, SubSeq(p, 1, k)) \in {SubSeq(p, 1, k), Missing, Failed}
  <2>0. SubSeq(p, 1, k) \in Seq(Name) /\ SubSeq(p, 1, k) \in Seq(Int) /\ Len(SubSeq(p, 1, k)) = k
    <3>1. k \in 0..Len(p)
      BY <1>2
    <3>. QED BY <3>1, Cuts, Marks
  <2>1. CASE k <= Len(q)
    <3>1. SubSeq(q, 1, k) = SubSeq(p, 1, k)
      <4>1. Len(q) \in 0..Len(p) /\ k \in 0..Len(q)
        BY <1>2, <2>1
      <4>. QED BY <1>2, <4>1, CutOfCut
    <3>2. CASE k = Len(q)
      BY <1>1, <1>3, <3>1, <3>2, SubSeqFull
    <3>3. CASE k # Len(q)
      <4>1. k \in 0..Len(q) - 1
        BY <1>0, <2>1, <3>3
      <4>2. q \in DOMAIN u
        BY <1>1
      <4>3. Is(u, SubSeq(q, 1, k), "dir")
        BY <4>1, <4>2, InTree DEF u
      <4>. QED BY <1>3, <3>1, <4>3
    <3>. QED BY <3>2, <3>3
  <2>2. CASE k > Len(q)
    <3>. DEFINE m == Len(q) + 1
                r == SubSeq(p, 1, m)
    <3>1. m \in 1..Len(p) /\ m \in 0..Len(p) /\ m - 1 = Len(q) /\ m \in 0..k /\ k \in 0..Len(p) /\ m \in 0..Len(SubSeq(p, 1, k))
      BY <1>2, <2>0, <2>2
    <3>2. r = Append(q, p[m]) /\ p[m] \in Name /\ p[m] \in Int
      BY <1>2, <3>1, CutNext, ElementOfSeq, Marks
    <3>. HIDE DEF r, m
    <3>3. r \in Seq(Name) /\ r # <<>> /\ Front(r) = q /\ r \in Seq(Int) /\ r # q
      <4>1. r \in Seq(Name) /\ r # <<>> /\ Front(r) = q /\ Len(r) = Len(q) + 1
        BY <3>2, Appended
      <4>2. Len(r) # Len(q)
        BY <1>0, <4>1
      <4>. QED BY <4>1, <4>2, Marks
    <3>4. r \notin DOMAIN u
      <4>1. ASSUME r \in DOMAIN tree PROVE FALSE
        <5>1. Is(tree, Front(r), "dir")
          BY <3>3, <4>1, InTree
        <5>. QED BY <3>3, <5>1 DEF Is
      <4>. QED BY <1>1, <3>3, <4>1
    <3>5. os_realpath(u, r) = Missing
      <4>1. os_realpath(u, q) = q
        BY <1>1, <1>3
      <4>2. IsTree(u)
        BY DEF u
      <4>3. os_realpath(u, Append(q, p[m])) = Missing
        <5>1. /\ Is(u, os_realpath(u, q), "dir") /\ Append(os_realpath(u, q), p[m]) \notin DOMAIN u
              /\ q \in Seq(Int) /\ p[m] \in Int /\ p[m] \in Name
          BY <1>1, <1>2, <3>2, <3>4, <4>1
        <5>. QED BY <4>2, <5>1, Onward
      <4>. QED BY <3>2, <4>3
    <3>6. IsPrefix(r, SubSeq(p, 1, k))
      <4>1. SubSeq(SubSeq(p, 1, k), 1, m) = r
        BY <3>1, CutOfCut DEF r
      <4>. QED BY <2>0, <3>1, <4>1, PrefixEnds
    <3>7. IsTree(u)
      BY DEF u
    <3>. QED BY <2>0, <3>3, <3>5, <3>6, <3>7, Nowhere
  <2>. QED BY <1>2, <2>1, <2>2
<1>. QED BY <1>4 DEF Straight, u

LEMMA BeyondUnfold ==
    ASSUME IsTree(tree), NEW p \in Seq(Int)
    PROVE  Beyond(p) \in Seq(Int) /\ (~HoldsA(p, "link") => Beyond(p) = p)
<1>. DEFINE on(x) == IF HoldsA(x, "link") THEN tree[Place(x)].data ELSE x
            P(g) == g = [h \in Nat |-> IF h = 0 THEN p
                                       ELSE IF HoldsA(g[h - 1], "link") THEN tree[Place(g[h - 1])].data
                                       ELSE g[h - 1]]
            step == [h \in Nat |-> [x \in Seq(Int) |-> on(x)]]
            b == CHOOSE g : P(g)
<1>1. \A x \in Seq(Int) : on(x) \in Seq(Int)
  BY InTree DEF HoldsA, Holds
<1>2. step \in [Nat -> [Seq(Int) -> Seq(Int)]] /\ \A h \in Nat : \A x \in Seq(Int) : step[h][x] = on(x)
  <2>. HIDE DEF on
  <2>. QED BY <1>1
<1>3. \E g : Iterates(g, Seq(Int), p, step)
  <2>. HIDE DEF step
  <2>. QED BY <1>2, Iteration
<1>4. PICK g : Iterates(g, Seq(Int), p, step)
  BY <1>3
<1>5. P(g)
  <2>. HIDE DEF step, on
  <2>1. g \in [Nat -> Seq(Int)] /\ g = [n \in Nat |-> IF n = 0 THEN p ELSE step[n][g[n - 1]]]
    BY <1>4 DEF Iterates
  <2>2. \A n \in Nat : n # 0 => n - 1 \in Nat /\ g[n - 1] \in Seq(Int)
    BY <2>1
  <2>3. g = [n \in Nat |-> IF n = 0 THEN p ELSE on(g[n - 1])]
    BY <1>2, <2>1, <2>2
  <2>. QED BY <2>3 DEF on
<1>6. P(b)
  <2>. HIDE DEF P
  <2>. QED BY <1>5
<1>7. Beyond(p) = b[HopMax] /\ HopMax \in Nat
  BY Zenon DEF Beyond, HopMax
<1>8. b[0] = p /\ \A h \in Nat \ {0} : b[h] = on(b[h - 1])
  BY <1>6
<1>. HIDE DEF b, on
<1>9. b[HopMax] \in Seq(Int)
  <2>. DEFINE U == {n \in Nat : b[n] \in Seq(Int)}
  <2>1. 0 \in U
    BY <1>8
  <2>2. ASSUME NEW n \in U \cap Nat PROVE n + 1 \in U
    <3>1. n + 1 \in Nat \ {0} /\ (n + 1) - 1 = n /\ b[n] \in Seq(Int)
      OBVIOUS
    <3>. QED BY <1>1, <1>8, <3>1
  <2>3. Nat \subseteq U
    <3>. HIDE DEF U
    <3>. QED BY <2>1, <2>2, SetInduction
  <2>. QED BY <1>7, <2>3
<1>10. ASSUME ~HoldsA(p, "link") PROVE b[HopMax] = p
  <2>. DEFINE U == {n \in Nat : b[n] = p}
  <2>1. 0 \in U
    BY <1>8
  <2>2. ASSUME NEW n \in U \cap Nat PROVE n + 1 \in U
    <3>1. n + 1 \in Nat \ {0} /\ (n + 1) - 1 = n /\ b[n] = p
      OBVIOUS
    <3>. QED BY <1>8, <1>10, <3>1 DEF on
  <2>3. Nat \subseteq U
    <3>. HIDE DEF U
    <3>. QED BY <2>1, <2>2, SetInduction
  <2>. QED BY <1>7, <2>3
<1>. QED BY <1>7, <1>9, <1>10

LEMMA TopFrame ==
    ASSUME work \in Seq(FrameType), work # <<>>
    PROVE  /\ f \in FrameType /\ f = work[1] /\ Len(work) \in Nat \ {0}
           /\ f.do \in Dos /\ f.at \in Seq(Name) /\ f.at \in Seq(Int) /\ f.from \in Seq(Int)
           /\ f.depth \in Nat /\ f.left \subseteq Name
<1>1. f \in FrameType /\ f = work[1] /\ Len(work) \in Nat \ {0}
  BY Stack DEF f
<1>. QED BY <1>1, Marks DEF FrameType

LEMMA NewNode ==
    ASSUME IsTree(tree), NEW p \in Seq(Int), Free(p), NEW node \in Node
    PROVE  IsTree(Put(Place(p), node)) /\ Place(p) \notin DOMAIN tree /\ Place(p) \in Seq(Name)
<1>1. Parent(p) /\ Last(p) \in Name /\ Place(p) \notin DOMAIN tree
  BY DEF Free
<1>2. Place(p) \in Seq(Name) /\ Place(p) # <<>> /\ Is(tree, Front(Place(p)), "dir")
  BY <1>1, Placing
<1>. QED BY <1>1, <1>2, PutNew

\* A step that only writes at p touches nothing else.
LEMMA TouchedAt ==
    ASSUME NEW p
    PROVE  /\ \A node : tree' = Put(p, node) => Touched \subseteq {p}
           /\ tree' = Cut(p) => Touched \subseteq {p}
           /\ tree' = tree => Touched = {}
BY DEF Touched, Put, Cut

Goal == /\ FsInv'
        /\ \A p \in Touched : Writable(p) \/ OnTheWay(p) \/ ThroughLink

LEMMA TouchedGoal ==
    ASSUME FsInv', NEW p, Touched \subseteq {p}, Writable(p) \/ OnTheWay(p) \/ ThroughLink
    PROVE  Goal
BY DEF Goal

\* A step within a command leaves what the command is about alone.
LEMMA WithinWriting ==
    ASSUME FsTypeOK, outcome = "running", op.cmd \in Writes, Frozen, counted' \in Nat,
           IsTree(tree)', work' \in Seq(FrameType), WritingInv'
    PROVE  FsInv'
<1>1. op' = op /\ outcome' = outcome /\ granted' = granted /\ asked' = asked
  BY DEF Frozen
<1>2. op.cmd \notin {"remove", "copy", "move", "list"}
  BY DEF Writes
<1>. QED BY <1>1, <1>2 DEF FsInv, FsTypeOK

LEMMA MakeParentStep ==
    ASSUME FsTypeOK, outcome = "running", op.cmd \in Writes, WritingInv, MakeParent
    PROVE  Goal
<1>1. IsTree(tree) /\ work \in Seq(FrameType) /\ op.a \in Seq(Name) /\ counted \in Nat /\ \A e \in op.eff : e.path \in Seq(Name)
  BY DEF FsTypeOK
<1>2. work # <<>> /\ f.do \in Parents /\ work' = Tail(work) /\ Frozen /\ counted' = counted
  BY DEF MakeParent, Top, Return, Parents, Same0
<1>3. f = work[1] /\ f.at \in Seq(Name) /\ f.at \in Seq(Int) /\ Len(work) \in Nat \ {0}
  BY <1>1, <1>2, TopFrame
<1>4. Preparing /\ Writable(op.a)
  <2>1. ~Filling
    BY <1>2, <1>3 DEF Filling, Parents
  <2>. QED BY <1>2, <2>1 DEF WritingInv
<1>5. 1 # Len(work) /\ IsPrefix(f.at, op.a) /\ f.at # op.a
  <2>1. op.cmd \notin Parents /\ "refuse" \notin Parents
    BY DEF Writes, Parents
  <2>2. 1 \in 1..Len(work)
    BY <1>3
  <2>. QED BY <1>2, <1>3, <1>4, <2>1, <2>2 DEF Preparing
<1>6. Straight(tree, op.a) /\ Lexical(tree, f.at)
  <2>1. Straight(tree, op.a)
    BY <1>4 DEF Preparing
  <2>2. Len(f.at) \in 0..Len(op.a) /\ f.at = SubSeq(op.a, 1, Len(f.at))
    BY <1>1, <1>3, <1>5, Prefix, LenProperties
  <2>. QED BY <1>1, <2>1, <2>2, StraightLexical
<1>7. work' \in Seq(FrameType) /\ Len(work') = Len(work) - 1 /\ \A i \in 1..Len(work) - 1 : work'[i] = work[i + 1]
  BY <1>1, <1>2, Stack
<1>8. \A i \in 1..Len(work') :
        IF i = Len(work') THEN work'[i].do \in {op.cmd, "refuse"} /\ work'[i].at = op.a
        ELSE work'[i].do \in Parents /\ IsPrefix(work'[i].at, op.a) /\ work'[i].at # op.a
  <2>1. ASSUME NEW i \in 1..Len(work')
        PROVE  i + 1 \in 1..Len(work) /\ work'[i] = work[i + 1] /\ (i = Len(work') <=> i + 1 = Len(work))
    BY <1>3, <1>7
  <2>. QED BY <1>4, <2>1 DEF Preparing
<1>9. op' = op
  BY <1>2 DEF Frozen
<1>10. CASE tree' = tree
  <2>1. Preparing'
    BY <1>4, <1>8, <1>9, <1>10 DEF Preparing, Straight
  <2>2. WritingInv' /\ IsTree(tree)' /\ counted' \in Nat
    BY <1>1, <1>2, <1>4, <1>9, <1>10, <2>1 DEF WritingInv, Writable
  <2>3. FsInv'
    BY <1>2, <1>7, <2>2, WithinWriting
  <2>. QED BY <1>10, <2>3, TouchedAt DEF Goal
<1>11. CASE Free(f.at) /\ tree' = Put(Place(f.at), Dir)
  <2>1. Place(f.at) = f.at /\ Is(tree, Front(f.at), "dir") /\ f.at # <<>> /\ f.at \notin DOMAIN tree
    BY <1>1, <1>3, <1>6, <1>11, There DEF Free
  <2>2. IsTree(Put(f.at, Dir))
    BY <1>1, <1>3, <1>11, <2>1, NewNode, NodeTypes
  <2>3. Straight(Put(f.at, Dir), op.a)
    BY <1>1, <1>3, <1>5, <2>1, <2>2, StraightPut
  <2>4. Is(Put(f.at, Dir), op.a, "link") => Is(tree, op.a, "link")
    BY <1>5 DEF Put, Is
  <2>5. tree' = Put(f.at, Dir)
    BY <1>11, <2>1
  <2>6. Straight(tree, op.a)' /\ (Is(tree, op.a, "link") => Is(op.before, op.a, "link"))' /\ IsTree(tree)'
    BY <1>4, <1>9, <2>2, <2>3, <2>4, <2>5 DEF Preparing
  <2>7. Preparing'
    BY <1>8, <1>9, <2>6 DEF Preparing
  <2>8. WritingInv' /\ counted' \in Nat
    BY <1>1, <1>2, <1>4, <1>9, <2>7 DEF WritingInv, Writable
  <2>9. FsInv'
    BY <1>2, <1>7, <2>6, <2>8, WithinWriting
  <2>10. Writable(f.at) \/ OnTheWay(f.at)
    <3>1. Writable(f.at) \/ \E e \in op.eff : {"w"} \subseteq e.access /\ IsPrefix(f.at, e.path)
      BY <1>1, <1>3, <1>4, <1>5, CoveredBelow DEF Writable
    <3>2. Is(tree', f.at, "dir")
      <4>1. Dir.kind = "dir"
        BY DEF Dir
      <4>. QED BY <2>5, <4>1, PutKeeps
    <3>. QED BY <2>1, <3>1, <3>2 DEF OnTheWay
  <2>. QED BY <2>5, <2>9, <2>10, TouchedAt, TouchedGoal
<1>. QED BY <1>10, <1>11 DEF MakeParent

LEMMA FinalFrame ==
    ASSUME FsTypeOK, outcome = "running", op.cmd \in Writes, WritingInv, work # <<>>, f.do \in Writes
    PROVE  /\ Len(work) = 1 /\ f.at = op.a /\ f.do = op.cmd /\ Preparing /\ Writable(op.a)
           /\ Tail(work) = <<>> /\ Lexical(tree, op.a)
<1>1. work \in Seq(FrameType) /\ op.a \in Seq(Name)
  BY DEF FsTypeOK
<1>2. f = work[1] /\ Len(work) \in Nat \ {0}
  BY <1>1, TopFrame
<1>3. Preparing /\ Writable(op.a)
  <2>1. ~Filling
    BY <1>2 DEF Filling, Writes
  <2>. QED BY <2>1 DEF WritingInv
<1>4. Len(work) = 1 /\ f.at = op.a /\ f.do = op.cmd
  <2>1. f.do \notin Parents /\ f.do # "refuse" /\ 1 \in 1..Len(work)
    BY <1>2 DEF Writes, Parents
  <2>. QED BY <1>2, <1>3, <2>1 DEF Preparing
<1>5. Tail(work) = <<>>
  <2>1. Tail(work) \in Seq(FrameType) /\ Len(Tail(work)) = 0
    BY <1>1, <1>4, Stack
  <2>. QED BY <2>1, EmptySeq
<1>6. Lexical(tree, op.a)
  BY <1>1, <1>3, StraightLexical DEF Preparing
<1>. QED BY <1>3, <1>4, <1>5, <1>6

LEMMA WrittenDone ==
    ASSUME FsTypeOK, outcome = "running", op.cmd \in Writes, WritingInv, Frozen, counted' \in Nat,
           IsTree(tree)', work' = <<>>
    PROVE  FsInv'
<1>1. work' \in Seq(FrameType)
  BY EmptySeq
<1>2. WritingInv'
  BY DEF WritingInv, Writable, Frozen
<1>. QED BY <1>1, <1>2, WithinWriting

LEMMA MakeDirStep ==
    ASSUME FsTypeOK, outcome = "running", op.cmd \in Writes, WritingInv, MakeDir
    PROVE  Goal
<1>1. IsTree(tree) /\ op.a \in Seq(Name) /\ op.a \in Seq(Int)
  BY Marks DEF FsTypeOK
<1>2. work # <<>> /\ f.do \in Writes /\ work' = Tail(work) /\ Frozen /\ counted' = 1
  BY DEF MakeDir, Top, Return, Writes
<1>3. f.at = op.a /\ Writable(op.a) /\ work' = <<>> /\ Lexical(tree, op.a)
  BY <1>2, FinalFrame
<1>4. Free(op.a) /\ tree' = Put(Place(op.a), Dir)
  BY <1>3 DEF MakeDir
<1>5. IsTree(tree)' /\ Place(op.a) = op.a
  BY <1>1, <1>3, <1>4, NewNode, NodeTypes, There DEF Free
<1>6. FsInv'
  BY <1>2, <1>3, <1>5, WrittenDone
<1>. QED BY <1>3, <1>4, <1>5, <1>6, TouchedAt, TouchedGoal

\* A file is opened where the path says, or through a link in its last place.
LEMMA Filled ==
    ASSUME FsTypeOK, outcome = "running", op.cmd \in Writes, WritingInv, work # <<>>, f.do \in Writes,
           NEW p \in Seq(Name), work' = <<Frame("fill", p)>> \o Tail(work), Frozen, counted' = counted,
           IsTree(tree)', Is(tree', p, "file"), Writable(p) \/ ThroughLink
    PROVE  FsInv'
<1>1. Tail(work) = <<>> /\ Writable(op.a)
  BY FinalFrame
<1>. DEFINE x == Frame("fill", p)
<1>2. x \in FrameType /\ x.do = "fill" /\ x.at = p
  <2>1. "fill" \in Dos /\ <<>> \in Seq(Int) /\ 0 \in Nat
    BY EmptySeq DEF Dos
  <2>. QED BY <2>1, FrameTypes
<1>. HIDE DEF x
<1>3. work' = <<x>>
  <2>1. <<x>> \in Seq(FrameType)
    BY <1>2
  <2>2. work' = <<x>> \o <<>>
    BY <1>1 DEF x
  <2>. QED BY <2>1, <2>2, ConcatEmptySeq
<1>4. work' \in Seq(FrameType) /\ Len(work') = 1 /\ work'[1] = x
  BY <1>2, <1>3, OneFrame
<1>5. Filling'
  BY <1>2, <1>4 DEF Filling, Writable, ThroughLink, Frozen
<1>6. WritingInv'
  BY <1>1, <1>5 DEF WritingInv, Writable, Frozen
<1>7. counted' \in Nat
  BY DEF FsTypeOK
<1>. QED BY <1>4, <1>6, <1>7, WithinWriting

LEMMA OpenOldStep ==
    ASSUME FsTypeOK, outcome = "running", op.cmd \in Writes, WritingInv, OpenOld
    PROVE  Goal
<1>. DEFINE real == os_realpath(tree, op.a)
<1>1. IsTree(tree) /\ op.a \in Seq(Name) /\ op.a \in Seq(Int)
  BY Marks DEF FsTypeOK
<1>2. work # <<>> /\ f.do \in Writes /\ Frozen /\ counted' = counted /\ f.do \in {"overwrite", "append"}
  BY DEF OpenOld, Top, Writes, Same0
<1>3. f.at = op.a /\ f.do = op.cmd /\ Writable(op.a) /\ Lexical(tree, op.a) /\ Preparing
  BY <1>2, FinalFrame
<1>4. /\ Is(tree, real, "file") /\ work' = <<Frame("fill", real)>> \o Tail(work)
      /\ tree' = IF f.do = "append" THEN tree ELSE Put(real, FileOf(<<>>))
  BY <1>3 DEF OpenOld, Calls
<1>. HIDE DEF real
<1>5. real \in Seq(Name) /\ real \in DOMAIN tree
  BY <1>1, <1>4, InTree DEF Is
<1>6. IsTree(tree)' /\ Is(tree', real, "file") /\ Touched \subseteq {real}
  <2>1. CASE tree' = tree
    BY <1>1, <1>4, <2>1, TouchedAt
  <2>2. CASE tree' = Put(real, FileOf(<<>>))
    <3>1. FileOf(<<>>).kind = "file" /\ <<>> \in Seq(Int)
      BY EmptySeq DEF FileOf
    <3>2. IsTree(Put(real, FileOf(<<>>)))
      BY <1>1, <1>4, <3>1, PutOld
    <3>. QED BY <2>2, <3>1, <3>2, PutKeeps, TouchedAt
  <2>. QED BY <1>4, <2>1, <2>2
<1>7. Writable(real) \/ ThroughLink
  <2>1. CASE Is(tree, op.a, "link")
    BY <1>2, <1>3, <2>1 DEF Preparing, ThroughLink
  <2>2. CASE ~Is(tree, op.a, "link")
    <3>1. real \notin {Missing, Failed}
      BY <1>5, Marks
    <3>2. real = op.a
      BY <1>1, <1>3, <2>2, <3>1, NoDetour DEF real
    <3>. QED BY <1>3, <3>2
  <2>. QED BY <2>1, <2>2
<1>8. FsInv'
  BY <1>2, <1>4, <1>5, <1>6, <1>7, Filled
<1>. QED BY <1>6, <1>7, <1>8, TouchedGoal

LEMMA OpenNewStep ==
    ASSUME FsTypeOK, outcome = "running", op.cmd \in Writes, WritingInv, OpenNew
    PROVE  Goal
<1>1. IsTree(tree) /\ op.a \in Seq(Name) /\ op.a \in Seq(Int)
  BY Marks DEF FsTypeOK
<1>2. work # <<>> /\ f.do \in Writes /\ Frozen /\ counted' = counted /\ f.do \in {"create", "overwrite", "append"}
  BY DEF OpenNew, Top, Writes, Same0
<1>3. f.at = op.a /\ f.do = op.cmd /\ Writable(op.a) /\ Lexical(tree, op.a) /\ Preparing
  BY <1>2, FinalFrame
<1>4. PICK p : /\ p = IF f.do = "create" THEN f.at ELSE Beyond(f.at)
               /\ Free(p) /\ tree' = Put(Place(p), FileOf(<<>>))
               /\ work' = <<Frame("fill", Place(p))>> \o Tail(work)
  BY DEF OpenNew, Calls
<1>5. p \in Seq(Int) /\ (p = op.a \/ ThroughLink)
  <2>1. CASE f.do = "create"
    BY <1>1, <1>3, <1>4, <2>1
  <2>2. CASE f.do # "create" /\ HoldsA(op.a, "link")
    <3>1. Is(tree, op.a, "link")
      BY <1>1, <1>3, <2>2, There DEF HoldsA, Is
    <3>2. ThroughLink
      BY <1>2, <1>3, <2>2, <3>1 DEF Preparing, ThroughLink
    <3>. QED BY <1>1, <1>3, <1>4, <2>2, <3>2, BeyondUnfold
  <2>3. CASE f.do # "create" /\ ~HoldsA(op.a, "link")
    BY <1>1, <1>3, <1>4, <2>3, BeyondUnfold
  <2>. QED BY <2>1, <2>2, <2>3
<1>6. FileOf(<<>>) \in Node /\ FileOf(<<>>).kind = "file"
  BY NodeTypes, EmptySeq DEF FileOf
<1>7. IsTree(tree)' /\ Place(p) \in Seq(Name)
  BY <1>1, <1>4, <1>5, <1>6, NewNode
<1>8. Is(tree', Place(p), "file")
  BY <1>4, <1>6, PutKeeps
<1>9. Writable(Place(p)) \/ ThroughLink
  <2>1. CASE p = op.a
    <3>1. Place(p) = op.a
      BY <1>1, <1>3, <1>4, <2>1, There DEF Free
    <3>. QED BY <1>3, <3>1
  <2>. QED BY <1>5, <2>1
<1>10. FsInv'
  BY <1>2, <1>4, <1>7, <1>8, <1>9, Filled
<1>. QED BY <1>4, <1>9, <1>10, TouchedAt, TouchedGoal

LEMMA FillStep ==
    ASSUME FsTypeOK, outcome = "running", op.cmd \in Writes, WritingInv, Fill
    PROVE  Goal
<1>1. IsTree(tree) /\ work \in Seq(FrameType)
  BY DEF FsTypeOK
<1>2. work # <<>> /\ f.do = "fill" /\ work' = Tail(work) /\ Frozen /\ counted' = 1
  BY DEF Fill, Top, Return
<1>3. f = work[1] /\ Len(work) \in Nat \ {0}
  BY <1>1, <1>2, TopFrame
<1>4. Filling
  <2>1. ASSUME Preparing PROVE FALSE
    <3>1. 1 \in 1..Len(work)
      BY <1>3
    <3>. QED BY <1>2, <1>3, <2>1, <3>1 DEF Preparing, Writes, Parents
  <2>. QED BY <1>2, <2>1 DEF WritingInv
<1>5. Is(tree, f.at, "file") /\ (Writable(f.at) \/ ThroughLink) /\ work' = <<>>
  <2>1. Tail(work) \in Seq(FrameType) /\ Len(Tail(work)) = 0
    BY <1>1, <1>2, <1>4, Stack DEF Filling
  <2>. QED BY <1>2, <1>3, <1>4, <2>1, EmptySeq DEF Filling
<1>. DEFINE s == Append(tree[f.at].data, New)
<1>6. s \in Seq(Int) /\ tree' = Put(f.at, FileOf(s))
  <2>1. tree[f.at].data \in Seq(Int) /\ New \in Int
    BY <1>1, <1>5, InTree DEF Is, New
  <2>. QED BY <2>1, AppendProperties DEF Fill
<1>. HIDE DEF s
<1>7. IsTree(tree)'
  BY <1>1, <1>5, <1>6, PutOld
<1>8. FsInv'
  BY <1>2, <1>5, <1>7, WrittenDone
<1>. QED BY <1>5, <1>6, <1>8, TouchedAt, TouchedGoal

\* A call that fails or is done changes nothing.
LEMMA OverStep ==
    ASSUME FsInv, outcome = "running", Fails \/ Finish
    PROVE  Goal
<1>1. outcome' # "running" /\ tree' = tree /\ granted' = granted /\ asked' = asked /\ counted' = counted
  BY DEF Fails, Finish
<1>2. work' \in Seq(FrameType)
  BY EmptySeq DEF Fails, Finish
<1>3. FsInv'
  BY <1>1, <1>2 DEF FsInv, FsTypeOK
<1>. QED BY <1>1, <1>3, TouchedAt DEF Goal

LEMMA WritingStep ==
    ASSUME FsInv, outcome = "running", op.cmd \in Writes, FsNext
    PROVE  Goal
<1>1. FsTypeOK /\ WritingInv /\ work \in Seq(FrameType)
  BY DEF FsInv, FsTypeOK
<1>2. CASE work = <<>>
  <2>1. Finish
    BY <1>2 DEF FsNext, Call, Fails, MakeParent, MakeDir, OpenOld, OpenNew, Fill, Unlinked, EnterRemoved, RemoveEntry,
                RemoveDir, EnterCopied, CopyEntry, Copied, OpenCopy, CopyData, MakeLink, MakeRoom, Rename1, Across,
                EnterListed, SkipListed, ListEntry, Listed, Keep, Top
  <2>. QED BY <2>1, OverStep
<1>3. CASE work # <<>>
  <2>1. f.do \in Writes \cup Parents \cup {"fill", "refuse"}
    <3>1. f = work[1] /\ Len(work) \in Nat \ {0} /\ 1 \in 1..Len(work)
      BY <1>1, <1>3, TopFrame
    <3>. QED BY <1>1, <1>3, <3>1 DEF WritingInv, Preparing, Filling
  <2>2. Fails \/ Finish \/ MakeParent \/ MakeDir \/ OpenOld \/ OpenNew \/ Fill
    BY <2>1 DEF FsNext, Call, Unlinked, EnterRemoved, RemoveEntry, Writes, Parents,
                RemoveDir, EnterCopied, CopyEntry, Copied, OpenCopy, CopyData, MakeLink, MakeRoom, Rename1, Across,
                EnterListed, SkipListed, ListEntry, Listed, Keep, Top
  <2>. QED BY <1>1, <2>2, OverStep, MakeParentStep, MakeDirStep, OpenOldStep, OpenNewStep, FillStep
<1>. QED BY <1>2, <1>3

-----------------------------------------------------------------------------
(* fs.remove *)

LEMMA WithinRemoving ==
    ASSUME FsTypeOK, outcome = "running", op.cmd = "remove", Frozen, counted' \in Nat,
           IsTree(tree)', Writable(op.a), (work \in Seq(RemovingFrames))'
    PROVE  FsInv'
<1>1. op' = op /\ outcome' = outcome /\ granted' = granted /\ asked' = asked
  BY DEF Frozen
<1>2. op.cmd \notin Writes
  BY DEF Writes
<1>3. work' \in Seq(FrameType)
  <2>1. RemovingFrames' \subseteq FrameType
    BY DEF RemovingFrames
  <2>. QED BY <2>1, SeqMonotonic
<1>4. RemovingInv'
  BY <1>1 DEF RemovingInv, Writable
<1>. QED BY <1>1, <1>2, <1>3, <1>4 DEF FsInv, FsTypeOK

\* What is removed adds no link.
LEMMA RemovingFewer ==
    ASSUME op' = op, \A p : Is(tree', p, "link") => Is(tree, p, "link")
    PROVE  RemovingFrames \subseteq RemovingFrames'
BY DEF RemovingFrames

LEMMA RemovingTop ==
    ASSUME FsTypeOK, work # <<>>, work \in Seq(RemovingFrames)
    PROVE  /\ f \in RemovingFrames /\ Tail(work) \in Seq(RemovingFrames)
           /\ f \in FrameType /\ f.at \in Seq(Name) /\ IsPrefix(op.a, f.at) /\ f.do \in {"drop", "rmdir"} /\ f.depth \in Nat
           /\ f.left \subseteq Name
           /\ Lexical(tree, f.at)
           /\ Holds(f.at) => Place(f.at) = f.at /\ f.at \in DOMAIN tree
<1>1. f \in RemovingFrames /\ Tail(work) \in Seq(RemovingFrames)
  BY Stack DEF f
<1>2. /\ f \in FrameType /\ f.at \in Seq(Name) /\ IsPrefix(op.a, f.at) /\ f.do \in {"drop", "rmdir"} /\ f.depth \in Nat
      /\ f.left \subseteq Name
      /\ \A k \in 0..Len(f.at) - 1 : ~Is(tree, SubSeq(f.at, 1, k), "link")
  BY <1>1 DEF RemovingFrames, FrameType
<1>3. Lexical(tree, f.at)
  <2>1. CASE f.at # <<>>
    <3>. DEFINE d == Front(f.at)
    <3>1. Len(f.at) \in Nat \ {0} /\ d \in Seq(Name) /\ Len(d) = Len(f.at) - 1 /\ d = SubSeq(f.at, 1, Len(f.at) - 1)
      BY <1>2, <2>1, Ends
    <3>2. ASSUME NEW k \in 0..Len(d) PROVE ~Is(tree, SubSeq(d, 1, k), "link")
      <4>1. k \in 0..Len(f.at) - 1 /\ Len(f.at) - 1 \in 0..Len(f.at)
        BY <3>1
      <4>2. SubSeq(d, 1, k) = SubSeq(f.at, 1, k)
        BY <1>2, <3>1, <4>1, CutOfCut
      <4>. QED BY <1>2, <4>1, <4>2
    <3>3. os_realpath(tree, d) \in {d, Missing}
      <4>. HIDE DEF d
      <4>. QED BY <3>1, <3>2, NoLink DEF FsTypeOK
    <3>. QED BY <3>3 DEF Lexical
  <2>. QED BY <2>1 DEF Lexical
<1>4. Holds(f.at) => Place(f.at) = f.at /\ f.at \in DOMAIN tree
  BY <1>2, <1>3, There DEF FsTypeOK
<1>. QED BY <1>1, <1>2, <1>3, <1>4

\* The names in a directory.
LEMMA Names ==
    ASSUME NEW t, IsTree(t), NEW p \in Seq(Int)
    PROVE  dir_names(t, p) \subseteq Name
<1>. DEFINE d == os_realpath(t, p)
<1>1. Len(d) \in Nat
  BY Resolution, EndsType, LenProperties
<1>2. ASSUME NEW q \in Children(t, d) PROVE Last(q) \in Name
  <2>1. q \in DOMAIN t /\ Len(q) = Len(d) + 1
    BY DEF Children
  <2>2. q # <<>>
    BY <1>1, <2>1, EmptySeq
  <2>. QED BY <2>1, <2>2, InTree
<1>. QED BY <1>2 DEF dir_names

LEMMA RemovedStep ==
    ASSUME FsTypeOK, outcome = "running", op.cmd = "remove", RemovingInv,
           work # <<>>, Holds(f.at), Leaf(tree, f.at), f.at # <<>>, tree' = Cut(Place(f.at)),
           counted' = counted + 1, Return, Frozen
    PROVE  Goal
<1>1. IsTree(tree) /\ counted \in Nat /\ op.a \in Seq(Name) /\ Writable(op.a) /\ \A e \in op.eff : e.path \in Seq(Name)
  BY DEF FsTypeOK, RemovingInv
<1>2. /\ Tail(work) \in Seq(RemovingFrames) /\ f.at \in Seq(Name) /\ IsPrefix(op.a, f.at) /\ Place(f.at) = f.at
  BY RemovingTop DEF RemovingInv
<1>3. IsTree(tree)' /\ tree' = Cut(f.at)
  BY <1>1, <1>2, CutLeaf
<1>4. RemovingFrames \subseteq RemovingFrames'
  <2>1. \A p : Is(tree', p, "link") => Is(tree, p, "link")
    BY <1>3 DEF Cut, Is
  <2>. QED BY <2>1, RemovingFewer DEF Frozen
<1>5. (work \in Seq(RemovingFrames))'
  BY <1>2, <1>4, SeqMonotonic DEF Return
<1>6. FsInv'
  BY <1>1, <1>3, <1>5, WithinRemoving
<1>7. Writable(f.at)
  BY <1>1, <1>2, CoveredBelow DEF Writable
<1>. QED BY <1>3, <1>6, <1>7, TouchedAt, TouchedGoal

LEMMA UnlinkedStep ==
    ASSUME FsTypeOK, outcome = "running", op.cmd = "remove", RemovingInv, Unlinked
    PROVE  Goal
<1>1. work # <<>> /\ Holds(f.at) /\ ~HoldsA(f.at, "dir")
  BY DEF Unlinked, Top
<1>2. Place(f.at) = f.at /\ IsTree(tree)
  BY <1>1, RemovingTop DEF RemovingInv, FsTypeOK
<1>3. Leaf(tree, f.at) /\ f.at # <<>>
  BY <1>1, <1>2, Held
<1>. QED BY <1>1, <1>3, RemovedStep DEF Unlinked

LEMMA RemoveDirStep ==
    ASSUME FsTypeOK, outcome = "running", op.cmd = "remove", RemovingInv, RemoveDir
    PROVE  Goal
<1>1. work # <<>> /\ Holds(f.at) /\ Children(tree, Place(f.at)) = {} /\ Place(f.at) # <<>>
  BY DEF RemoveDir, Top, HoldsA
<1>2. Place(f.at) = f.at /\ f.at \in DOMAIN tree /\ IsTree(tree)
  BY <1>1, RemovingTop DEF RemovingInv, FsTypeOK
<1>3. Leaf(tree, f.at)
  BY <1>1, <1>2, Leaves
<1>. QED BY <1>1, <1>2, <1>3, RemovedStep DEF RemoveDir

\* A step that changes no tree and replaces the innermost frame.
LEMMA RemovingOn ==
    ASSUME FsTypeOK, outcome = "running", op.cmd = "remove", RemovingInv, UNCHANGED tree, Frozen, Same0,
           (work \in Seq(RemovingFrames))'
    PROVE  Goal
<1>1. IsTree(tree)' /\ counted' \in Nat /\ Writable(op.a)
  BY DEF FsTypeOK, Same0, RemovingInv
<1>2. FsInv'
  BY <1>1, WithinRemoving
<1>. QED BY <1>2, TouchedAt DEF Goal

LEMMA EnterRemovedStep ==
    ASSUME FsTypeOK, outcome = "running", op.cmd = "remove", RemovingInv, EnterRemoved
    PROVE  Goal
<1>. DEFINE x == [f EXCEPT !.do = "rmdir", !.left = dir_names(tree, f.at)]
<1>1. /\ work # <<>> /\ HoldsA(f.at, "dir") /\ tree' = tree /\ Frozen /\ Same0
      /\ work' = <<x>> \o Tail(work)
  BY DEF EnterRemoved, Top, Calls
<1>2. /\ f \in RemovingFrames /\ Tail(work) \in Seq(RemovingFrames) /\ f \in FrameType /\ f.at \in Seq(Name)
      /\ Place(f.at) = f.at
  BY <1>1, RemovingTop DEF RemovingInv, HoldsA
<1>3. dir_names(tree, f.at) \subseteq Name
  BY <1>2, Names, Marks DEF FsTypeOK
<1>4. ~Is(tree, f.at, "link")
  BY <1>1, <1>2 DEF HoldsA, Is
<1>5. x \in FrameType /\ x.do = "rmdir" /\ x.at = f.at
  BY <1>2, <1>3 DEF FrameType, Dos
<1>. HIDE DEF x
<1>6. x \in RemovingFrames
  BY <1>2, <1>4, <1>5 DEF RemovingFrames
<1>7. work' \in Seq(RemovingFrames)
  BY <1>1, <1>2, <1>6, Stack DEF RemovingInv
<1>8. RemovingFrames' = RemovingFrames
  BY <1>1 DEF RemovingFrames, Frozen
<1>. QED BY <1>1, <1>7, <1>8, RemovingOn

LEMMA RemoveEntryStep ==
    ASSUME FsTypeOK, outcome = "running", op.cmd = "remove", RemovingInv, RemoveEntry
    PROVE  Goal
<1>1. work # <<>> /\ f.do = "rmdir" /\ tree' = tree /\ Frozen /\ Same0
  BY DEF RemoveEntry, Top
<1>2. PICK n \in f.left : work' = <<Pair("drop", <<>>, Append(f.at, n), f.depth + 1), Rest(n)>> \o Tail(work)
  BY DEF RemoveEntry, Calls
<1>. DEFINE x == Pair("drop", <<>>, Append(f.at, n), f.depth + 1)
            y == Rest(n)
<1>3. /\ f \in RemovingFrames /\ Tail(work) \in Seq(RemovingFrames) /\ f \in FrameType /\ f.at \in Seq(Name)
      /\ IsPrefix(op.a, f.at) /\ f.depth \in Nat /\ n \in Name /\ f.left \subseteq Name
  BY <1>1, RemovingTop DEF RemovingInv
<1>4. op.a \in Seq(Name)
  BY DEF FsTypeOK
<1>5. y \in RemovingFrames
  <2>1. y \in FrameType /\ y.do = f.do /\ y.at = f.at
    BY <1>3 DEF Rest, FrameType
  <2>. HIDE DEF y
  <2>. QED BY <1>3, <2>1 DEF RemovingFrames
<1>6. x \in RemovingFrames
  <2>1. /\ Append(f.at, n) \in Seq(Name) /\ Len(Append(f.at, n)) = Len(f.at) + 1 /\ Len(f.at) \in Nat
        /\ \A k \in 0..Len(f.at) : SubSeq(Append(f.at, n), 1, k) = SubSeq(f.at, 1, k)
    BY <1>3, Appended, LenProperties
  <2>2. x \in FrameType /\ x.do = "drop" /\ x.at = Append(f.at, n)
    <3>. DEFINE at == Append(f.at, n)
                depth == f.depth + 1
                none == <<>>
                do == "drop"
    <3>1. none \in Seq(Int) /\ depth \in Nat /\ do \in Dos /\ at \in Seq(Name)
      BY <1>3, <2>1, EmptySeq DEF Dos
    <3>2. x = Pair(do, none, at, depth)
      OBVIOUS
    <3>. HIDE DEF at, depth, x, none, do
    <3>3. x \in FrameType /\ x.do = do /\ x.at = at
      BY <3>1, <3>2, FrameTypes
    <3>. QED BY <3>3 DEF at, do
  <2>3. IsPrefix(op.a, Append(f.at, n))
    BY <1>3, <1>4, PrefixEnds
  <2>4. ASSUME NEW k \in 0..Len(Append(f.at, n)) - 1 PROVE ~Is(tree, SubSeq(Append(f.at, n), 1, k), "link")
    <3>1. k \in 0..Len(f.at)
      BY <2>1
    <3>2. CASE k = Len(f.at)
      <4>1. SubSeq(f.at, 1, k) = f.at
        BY <1>3, <3>2, SubSeqFull
      <4>. QED BY <1>1, <1>3, <2>1, <3>1, <4>1 DEF RemovingFrames
    <3>3. CASE k # Len(f.at)
      <4>1. k \in 0..Len(f.at) - 1
        BY <2>1, <3>1, <3>3
      <4>. QED BY <1>3, <2>1, <3>1, <4>1 DEF RemovingFrames
    <3>. QED BY <3>2, <3>3
  <2>. HIDE DEF x
  <2>. QED BY <2>2, <2>3, <2>4 DEF RemovingFrames
<1>7. work' \in Seq(RemovingFrames)
  <2>. HIDE DEF x, y
  <2>1. work' = <<x, y>> \o Tail(work)
    BY <1>2 DEF x, y
  <2>. QED BY <1>1, <1>3, <1>5, <1>6, <2>1, Stack DEF RemovingInv
<1>8. RemovingFrames' = RemovingFrames
  BY <1>1 DEF RemovingFrames, Frozen
<1>. QED BY <1>1, <1>7, <1>8, RemovingOn

LEMMA RemovingStep ==
    ASSUME FsInv, outcome = "running", op.cmd = "remove", FsNext
    PROVE  Goal
<1>1. FsTypeOK /\ RemovingInv
  BY DEF FsInv
<1>2. CASE work = <<>>
  <2>1. Finish
    BY <1>2 DEF FsNext, Call, Fails, MakeParent, MakeDir, OpenOld, OpenNew, Fill, Unlinked, EnterRemoved, RemoveEntry,
                RemoveDir, EnterCopied, CopyEntry, Copied, OpenCopy, CopyData, MakeLink, MakeRoom, Rename1, Across,
                EnterListed, SkipListed, ListEntry, Listed, Keep, Top
  <2>. QED BY <2>1, OverStep
<1>3. CASE work # <<>>
  <2>1. f.do \in {"drop", "rmdir"}
    BY <1>1, <1>3, RemovingTop DEF RemovingInv
  <2>2. Fails \/ Finish \/ Unlinked \/ EnterRemoved \/ RemoveEntry \/ RemoveDir
    BY <2>1 DEF FsNext, Call, MakeParent, MakeDir, OpenOld, OpenNew, Fill,
                EnterCopied, CopyEntry, Copied, OpenCopy, CopyData, MakeLink, MakeRoom, Rename1, Across,
                EnterListed, SkipListed, ListEntry, Listed, Keep, Top
  <2>. QED BY <1>1, <2>2, OverStep, UnlinkedStep, EnterRemovedStep, RemoveEntryStep, RemoveDirStep
<1>. QED BY <1>2, <1>3

-----------------------------------------------------------------------------
(* fs.copy *)

LEMMA WithinCopying ==
    ASSUME FsTypeOK, outcome = "running", op.cmd = "copy", Frozen, counted' \in Nat,
           IsTree(tree)', work' \in Seq(FrameType), CopyingInv'
    PROVE  FsInv'
<1>1. op' = op /\ outcome' = outcome /\ granted' = granted /\ asked' = asked
  BY DEF Frozen
<1>2. op.cmd \notin Writes
  BY DEF Writes
<1>. QED BY <1>1, <1>2 DEF FsInv, FsTypeOK

\* Frames put before others.
LEMMA Ahead ==
    ASSUME NEW S, NEW t \in Seq(S)
    PROVE  /\ t # <<>> => Head(t) \in S /\ Tail(t) \in Seq(S)
           /\ \A x : <<x>> \o t # <<>> /\ Head(<<x>> \o t) = x /\ Tail(<<x>> \o t) = t
           /\ \A x : \A y \in S : Head(<<x, y>> \o t) = x /\ Tail(<<x, y>> \o t) \in Seq(S)
<1>1. Len(t) \in Nat /\ (t # <<>> => Head(t) \in S /\ Tail(t) \in Seq(S))
  BY LenProperties, HeadTailProperties
<1>2. ASSUME NEW x PROVE <<x>> \o t # <<>> /\ Head(<<x>> \o t) = x /\ Tail(<<x>> \o t) = t
  <2>. DEFINE A == S \cup {x}
              w == <<x>> \o t
  <2>1. <<x>> \in Seq(A) /\ Len(<<x>>) = 1 /\ <<x>>[1] = x /\ t \in Seq(A)
    BY SeqMonotonic
  <2>2. /\ w \in Seq(A) /\ Len(w) = 1 + Len(t)
        /\ \A i \in 1..1 + Len(t) : w[i] = IF i <= 1 THEN <<x>>[i] ELSE t[i - 1]
    BY <2>1, ConcatProperties
  <2>. HIDE DEF w
  <2>3. w # <<>> /\ Len(w) # 0
    BY <1>1, <2>2, EmptySeq
  <2>4. /\ Head(w) = w[1] /\ Tail(w) \in Seq(A) /\ Len(Tail(w)) = Len(w) - 1
        /\ \A i \in 1..Len(w) - 1 : Tail(w)[i] = w[i + 1]
    BY <2>2, <2>3, Stack
  <2>5. 1 \in 1..1 + Len(t) /\ Len(Tail(w)) = Len(t)
    BY <1>1, <2>2, <2>4
  <2>6. ASSUME NEW i \in 1..Len(t) PROVE Tail(w)[i] = t[i]
    <3>1. i \in 1..Len(w) - 1 /\ i + 1 \in 1..1 + Len(t) /\ ~(i + 1 <= 1) /\ (i + 1) - 1 = i
      BY <1>1, <2>2
    <3>. QED BY <2>2, <2>4, <3>1
  <2>7. Tail(w) = t
    BY <2>1, <2>4, <2>5, <2>6, SeqEqual
  <2>. QED BY <2>1, <2>2, <2>3, <2>4, <2>5, <2>7 DEF w
<1>3. ASSUME NEW x, NEW y \in S PROVE Head(<<x, y>> \o t) = x /\ Tail(<<x, y>> \o t) \in Seq(S)
  <2>. DEFINE A == S \cup {x}
              w == <<x, y>> \o t
  <2>1. <<x, y>> \in Seq(A) /\ Len(<<x, y>>) = 2 /\ <<x, y>>[1] = x /\ <<x, y>>[2] = y /\ t \in Seq(A)
    BY SeqMonotonic
  <2>2. /\ w \in Seq(A) /\ Len(w) = 2 + Len(t)
        /\ \A i \in 1..2 + Len(t) : w[i] = IF i <= 2 THEN <<x, y>>[i] ELSE t[i - 2]
    BY <2>1, ConcatProperties
  <2>. HIDE DEF w
  <2>3. w # <<>> /\ Len(w) # 0
    BY <1>1, <2>2, EmptySeq
  <2>4. /\ Head(w) = w[1] /\ Tail(w) \in Seq(A) /\ Len(Tail(w)) = Len(w) - 1
        /\ \A i \in 1..Len(w) - 1 : Tail(w)[i] = w[i + 1]
    BY <2>2, <2>3, Stack
  <2>5. 1 \in 1..2 + Len(t)
    BY <1>1
  <2>6. ASSUME NEW i \in 1..Len(Tail(w)) PROVE Tail(w)[i] \in S
    <3>1. i + 1 \in 1..2 + Len(t) /\ i \in 1..Len(w) - 1 /\ i \in Int
      BY <1>1, <2>2, <2>4
    <3>2. CASE i = 1
      <4>1. w[2] = y
        <5>1. 2 \in 1..2 + Len(t)
          BY <1>1
        <5>. QED BY <2>1, <2>2, <5>1
      <4>. QED BY <2>4, <3>1, <3>2, <4>1
    <3>3. CASE i # 1
      <4>1. i - 1 \in 1..Len(t) /\ ~(i + 1 <= 2) /\ (i + 1) - 2 = i - 1
        BY <1>1, <3>1, <3>3
      <4>2. t[i - 1] \in S
        BY <4>1, ElementOfSeq
      <4>. QED BY <2>2, <2>4, <3>1, <4>1, <4>2
    <3>. QED BY <3>2, <3>3
  <2>7. Tail(w) \in Seq(S)
    <3>. DEFINE v == Tail(w)
                n == Len(v)
    <3>1. v \in Seq(A) /\ n \in Nat /\ \A i \in 1..n : v[i] \in S
      BY <2>4, <2>6, LenProperties
    <3>2. v \in [1..n -> A]
      BY <3>1, LenProperties
    <3>. HIDE DEF v, n
    <3>3. v \in [1..n -> S]
      BY <3>1, <3>2
    <3>4. v \in Seq(S)
      BY <3>1, <3>3, SeqDef
    <3>. QED BY <3>4 DEF v
  <2>. QED BY <2>1, <2>2, <2>4, <2>5, <2>7 DEF w
<1>. QED BY <1>1, <1>2, <1>3

LEMMA CopyingTop ==
    ASSUME FsTypeOK, outcome = "running", CopyingInv, work # <<>>
    PROVE  /\ f \in CopyingFrames /\ f \in FrameType /\ f.at \in Seq(Name) /\ f.at \in Seq(Int) /\ f.from \in Seq(Int)
           /\ f.depth \in Nat /\ f.left \subseteq Name
           /\ IsPrefix(op.b, f.at) /\ Writable(f.at)
           /\ f.do = "entries" => f \in CopiedDirs
           /\ f.do = "data" => Is(tree, f.at, "file") /\ Is(tree, f.from, "file")
           /\ f.do \in {"tree", "file", "link"} =>
                 /\ Parent(f.at) => Place(f.at) = f.at /\ Is(tree, Front(f.at), "dir")
                 /\ Holds(f.at) => Place(f.at) = f.at /\ f.at \in DOMAIN tree
           /\ f.do \in {"entries", "refuse", "tree", "file", "link", "data"}
           /\ Tail(work) \in Seq(CopiedDirs) /\ Tail(work) \in Seq(FrameType)
<1>1. IsTree(tree) /\ op.b \in Seq(Name) /\ work \in Seq(FrameType) /\ \A e \in op.eff : e.path \in Seq(Name)
  BY DEF FsTypeOK
<1>2. f \in CopyingFrames /\ Tail(work) \in Seq(CopiedDirs) /\ Writable(op.b)
  BY DEF CopyingInv, f
<1>3. /\ f \in FrameType /\ f.at \in Seq(Name) /\ f.at \in Seq(Int) /\ f.from \in Seq(Int)
      /\ f.depth \in Nat /\ f.left \subseteq Name
  BY <1>1, TopFrame
<1>4. /\ f.do \in {"entries", "refuse", "tree", "file", "link", "data"} /\ IsPrefix(op.b, f.at)
      /\ f.do = "entries" => f \in CopiedDirs
      /\ f.do = "data" => Is(tree, f.at, "file") /\ Is(tree, f.from, "file")
      /\ f.do \in {"tree", "file", "link"} => Lexical(tree, f.at)
  BY <1>2 DEF CopyingFrames, CopiedDirs
<1>5. Writable(f.at)
  BY <1>1, <1>2, <1>3, <1>4, CoveredBelow DEF Writable
<1>6. ASSUME f.do \in {"tree", "file", "link"}
      PROVE  /\ Parent(f.at) => Place(f.at) = f.at /\ Is(tree, Front(f.at), "dir")
             /\ Holds(f.at) => Place(f.at) = f.at /\ f.at \in DOMAIN tree
  BY <1>1, <1>3, <1>4, <1>6, There
<1>7. Tail(work) \in Seq(FrameType)
  BY <1>1, Stack
<1>. QED BY <1>2, <1>3, <1>4, <1>5, <1>6, <1>7

\* A step that leaves directories what they are, touches only what its frame is
\* about and puts good frames before the directories.
LEMMA CopyingOn ==
    ASSUME FsTypeOK, outcome = "running", op.cmd = "copy", CopyingInv, work # <<>>, Frozen, counted' \in Nat,
           IsTree(tree)', Touched \subseteq {f.at}, \A p : Is(tree, p, "dir") => Is(tree', p, "dir"),
           \/ work' = Tail(work)
           \/ \E x \in CopyingFrames' : work' = <<x>> \o Tail(work)
           \/ \E x \in CopyingFrames', y \in CopiedDirs' : work' = <<x, y>> \o Tail(work)
    PROVE  Goal
<1>1. Writable(f.at) /\ Tail(work) \in Seq(CopiedDirs) /\ Tail(work) \in Seq(FrameType)
  BY CopyingTop
<1>2. op' = op /\ Writable(op.b)
  BY DEF Frozen, CopyingInv
<1>3. CopiedDirs \subseteq CopiedDirs' /\ CopiedDirs' \subseteq CopyingFrames' /\ CopyingFrames' \subseteq FrameType
  BY <1>2 DEF CopiedDirs, CopyingFrames
<1>4. Tail(work) \in Seq(CopiedDirs')
  BY <1>1, <1>3, SeqMonotonic
<1>5. /\ work' \in Seq(FrameType)
      /\ work' # <<>> => Head(work') \in CopyingFrames' /\ Tail(work') \in Seq(CopiedDirs')
  <2>1. CASE work' = Tail(work)
    BY <1>1, <1>3, <1>4, <2>1, Ahead
  <2>2. CASE \E x \in CopyingFrames' : work' = <<x>> \o Tail(work)
    <3>1. PICK x \in CopyingFrames' : work' = <<x>> \o Tail(work)
      BY <2>2
    <3>2. work' \in Seq(FrameType)
      BY <1>3, <3>1, Stack DEF FsTypeOK
    <3>. QED BY <1>4, <3>1, <3>2, Ahead
  <2>3. CASE \E x \in CopyingFrames', y \in CopiedDirs' : work' = <<x, y>> \o Tail(work)
    <3>1. PICK x \in CopyingFrames', y \in CopiedDirs' : work' = <<x, y>> \o Tail(work)
      BY <2>3
    <3>2. work' \in Seq(FrameType)
      BY <1>3, <3>1, Stack DEF FsTypeOK
    <3>. QED BY <1>4, <3>1, <3>2, Ahead
  <2>. QED BY <2>1, <2>2, <2>3
<1>6. CopyingInv'
  BY <1>2, <1>5 DEF CopyingInv, Writable
<1>7. FsInv'
  BY <1>5, <1>6, WithinCopying
<1>. QED BY <1>1, <1>7, TouchedGoal

\* What is put in a place that holds no directory.
LEMMA DirsKept ==
    ASSUME NEW p, NEW node, ~Is(tree, p, "dir") \/ node.kind = "dir"
    PROVE  /\ \A q : Is(tree, q, "dir") => Is(Put(p, node), q, "dir")
           /\ ~Is(tree, p, "dir") => \A q : Is(tree, q, "dir") => Is(Cut(p), q, "dir")
BY DEF Put, Cut, Is

LEMMA EnterCopiedStep ==
    ASSUME FsTypeOK, outcome = "running", op.cmd = "copy", CopyingInv, EnterCopied
    PROVE  Goal
<1>. DEFINE x == [f EXCEPT !.do = "entries", !.left = dir_names(tree', f.from)]
<1>1. /\ work # <<>> /\ f.do = "tree" /\ Frozen /\ counted' = counted /\ work' = <<x>> \o Tail(work)
      /\ \/ Free(f.at) /\ tree' = Put(Place(f.at), Dir)
         \/ HoldsA(f.at, "dir") /\ tree' = tree
  BY DEF EnterCopied, Top, Calls, Same0
<1>2. /\ f \in FrameType /\ f.at \in Seq(Name) /\ f.at \in Seq(Int) /\ f.from \in Seq(Int) /\ IsPrefix(op.b, f.at)
      /\ Parent(f.at) => Place(f.at) = f.at
      /\ Holds(f.at) => Place(f.at) = f.at
  BY <1>1, CopyingTop
<1>3. IsTree(tree) /\ counted \in Nat /\ op' = op
  BY <1>1 DEF FsTypeOK, Frozen
<1>4. /\ IsTree(tree)' /\ Touched \subseteq {f.at} /\ Is(tree', f.at, "dir")
      /\ \A p : Is(tree, p, "dir") => Is(tree', p, "dir")
  <2>1. CASE Free(f.at) /\ tree' = Put(Place(f.at), Dir)
    <3>1. Place(f.at) = f.at /\ f.at \notin DOMAIN tree /\ IsTree(Put(Place(f.at), Dir))
      BY <1>2, <1>3, <2>1, NewNode, NodeTypes DEF Free
    <3>2. Dir.kind = "dir"
      BY DEF Dir
    <3>3. tree' = Put(f.at, Dir)
      BY <2>1, <3>1
    <3>4. Is(tree', f.at, "dir") /\ Touched \subseteq {f.at}
      BY <3>2, <3>3, PutKeeps, TouchedAt
    <3>5. \A p : Is(tree, p, "dir") => Is(tree', p, "dir")
      BY <3>2, <3>3 DEF Put, Is
    <3>. QED BY <2>1, <3>1, <3>4, <3>5
  <2>2. CASE HoldsA(f.at, "dir") /\ tree' = tree
    <3>1. Is(tree, f.at, "dir")
      BY <1>2, <2>2 DEF HoldsA, Holds, Is
    <3>. QED BY <1>3, <2>2, <3>1, TouchedAt
  <2>. QED BY <1>1, <2>1, <2>2
<1>5. dir_names(tree', f.from) \subseteq Name
  <2>. DEFINE u == tree'
  <2>1. IsTree(u)
    BY <1>4
  <2>. HIDE DEF u
  <2>2. dir_names(u, f.from) \subseteq Name
    BY <1>2, <2>1, Names
  <2>. QED BY <2>2 DEF u
<1>6. x \in FrameType /\ x.do = "entries" /\ x.at = f.at
  BY <1>2, <1>5 DEF FrameType, Dos
<1>. HIDE DEF x
<1>7. x \in CopyingFrames'
  BY <1>2, <1>3, <1>4, <1>6 DEF CopyingFrames, CopiedDirs
<1>. QED BY <1>1, <1>3, <1>4, <1>7, CopyingOn

\* The frame of an entry, at a name in a directory that is being copied.
LEMMA EntryFrames ==
    ASSUME FsTypeOK, NEW at \in Seq(Name), Is(tree, at, "dir"), NEW n \in Name, NEW from \in Seq(Int), f.depth \in Nat
    PROVE  LET src == Append(from, n)
               dst == Append(at, n)
           IN /\ dst \in Seq(Name) /\ Lexical(tree, dst)
              /\ Entry(src, dst) = <<>> \/ \E x \in FrameType : /\ Entry(src, dst) = <<x>> /\ x.at = dst
                                                                /\ x.do \in {"tree", "file", "link"}
<1>. DEFINE src == Append(from, n)
            dst == Append(at, n)
<1>1. IsTree(tree) /\ src \in Seq(Int) /\ n \in Int
  BY Marks, AppendProperties DEF FsTypeOK
<1>2. dst \in Seq(Name) /\ Front(dst) = at
  BY Appended
<1>3. os_realpath(tree, at) = at
  BY <1>1, Itself DEF Is
<1>4. Lexical(tree, dst)
  BY <1>2, <1>3 DEF Lexical
<1>. HIDE DEF src, dst
<1>5. ASSUME Holds(src)
      PROVE  \E x \in FrameType : Entry(src, dst) = <<x>> /\ x.at = dst /\ x.do \in {"tree", "file", "link"}
  <2>1. tree[Place(src)] \in Node /\ tree[Place(src)].data \in Seq(Int)
    BY <1>1, <1>5, InTree DEF Holds
  <2>. DEFINE data == tree[Place(src)].data
              down == f.depth + 1
              X(x) == Entry(src, dst) = <<x>> /\ x.at = dst /\ x.do \in {"tree", "file", "link"}
  <2>2. data \in Seq(Int) /\ down \in Nat /\ 0 \in Nat /\ "tree" \in Dos /\ "file" \in Dos /\ "link" \in Dos
    BY <2>1 DEF Dos
  <2>3. /\ tree[Place(src)].kind \in {"dir", "file", "link"}
        /\ tree[Place(src)].kind = "dir" => Entry(src, dst) = <<Pair("tree", src, dst, down)>>
        /\ tree[Place(src)].kind = "file" => Entry(src, dst) = <<Pair("file", src, dst, 0)>>
        /\ tree[Place(src)].kind = "link" => Entry(src, dst) = <<Pair("link", data, dst, 0)>>
    BY <1>5, <2>1, Nodes DEF Entry
  <2>. HIDE DEF data, down
  <2>4. CASE tree[Place(src)].kind = "dir"
    <3>1. Pair("tree", src, dst, down) \in FrameType /\ X(Pair("tree", src, dst, down))
      BY <1>1, <1>2, <2>2, <2>3, <2>4, FrameTypes
    <3>. QED BY <3>1
  <2>5. CASE tree[Place(src)].kind = "file"
    <3>1. Pair("file", src, dst, 0) \in FrameType /\ X(Pair("file", src, dst, 0))
      BY <1>1, <1>2, <2>2, <2>3, <2>5, FrameTypes
    <3>. QED BY <3>1
  <2>6. CASE tree[Place(src)].kind = "link"
    <3>1. Pair("link", data, dst, 0) \in FrameType /\ X(Pair("link", data, dst, 0))
      BY <1>1, <1>2, <2>2, <2>3, <2>6, FrameTypes
    <3>. QED BY <3>1
  <2>. QED BY <2>3, <2>4, <2>5, <2>6
<1>6. ~Holds(src) => Entry(src, dst) = <<>>
  BY DEF Entry
<1>. QED BY <1>2, <1>4, <1>5, <1>6 DEF src, dst

LEMMA AppendTwo == \A x, y : Append(<<x>>, y) = <<x, y>>
<1>1. ASSUME NEW x, NEW y PROVE Append(<<x>>, y) = <<x, y>>
  <2>. DEFINE S == {x, y}
              v == Append(<<x>>, y)
              w == <<x, y>>
  <2>1. <<x>> \in Seq(S) /\ Len(<<x>>) = 1 /\ <<x>>[1] = x /\ y \in S
    OBVIOUS
  <2>2. w \in Seq(S) /\ Len(w) = 2 /\ w[1] = x /\ w[2] = y
    OBVIOUS
  <2>3. v \in Seq(S) /\ Len(v) = 2 /\ v[1] = x /\ v[2] = y
    BY <2>1, AppendProperties
  <2>. HIDE DEF v, w
  <2>4. \A i \in 1..2 : v[i] = w[i]
    BY <2>2, <2>3
  <2>5. v = w
    BY <2>2, <2>3, <2>4, SeqEqual
  <2>. QED BY <2>5 DEF v, w
<1>. QED BY <1>1

LEMMA CopyEntryStep ==
    ASSUME FsTypeOK, outcome = "running", op.cmd = "copy", CopyingInv, CopyEntry
    PROVE  Goal
<1>1. work # <<>> /\ f.do = "entries" /\ Frozen /\ counted' = counted /\ tree' = tree
  BY DEF CopyEntry, Top, Same0
<1>2. PICK n \in f.left : work' = Append(Entry(Append(f.from, n), Append(f.at, n)), Rest(n)) \o Tail(work)
  BY DEF CopyEntry, Calls
<1>. DEFINE e == Entry(Append(f.from, n), Append(f.at, n))
            y == Rest(n)
            dst == Append(f.at, n)
<1>3. /\ f \in FrameType /\ f.at \in Seq(Name) /\ f.from \in Seq(Int) /\ f.depth \in Nat /\ IsPrefix(op.b, f.at)
      /\ f \in CopiedDirs /\ f.left \subseteq Name /\ n \in Name
  BY <1>1, CopyingTop
<1>4. IsTree(tree)' /\ counted' \in Nat /\ op' = op /\ op.b \in Seq(Name)
  BY <1>1 DEF FsTypeOK, Frozen
<1>5. Is(tree, f.at, "dir")
  BY <1>3 DEF CopiedDirs
<1>6. y \in CopiedDirs
  <2>1. y \in FrameType /\ y.do = f.do /\ y.at = f.at
    BY <1>3 DEF Rest, FrameType
  <2>. HIDE DEF y
  <2>. QED BY <1>1, <1>3, <1>5, <2>1 DEF CopiedDirs
<1>7. /\ dst \in Seq(Name) /\ Lexical(tree, dst)
      /\ e = <<>> \/ \E x \in FrameType : e = <<x>> /\ x.at = dst /\ x.do \in {"tree", "file", "link"}
  BY <1>3, <1>5, EntryFrames
<1>8. IsPrefix(op.b, dst)
  BY <1>3, <1>4, PrefixEnds
<1>9. CopiedDirs' = CopiedDirs /\ CopyingFrames' = CopyingFrames
  BY <1>1, <1>4 DEF CopiedDirs, CopyingFrames, Lexical
<1>. HIDE DEF e, y, dst
<1>10. work' = Append(e, y) \o Tail(work)
  BY <1>2 DEF e, y
<1>11. \/ \E x \in CopyingFrames' : work' = <<x>> \o Tail(work)
       \/ \E x \in CopyingFrames', z \in CopiedDirs' : work' = <<x, z>> \o Tail(work)
  <2>1. CASE e = <<>>
    <3>1. Append(e, y) = <<y>>
      BY <2>1
    <3>2. y \in CopyingFrames
      BY <1>6 DEF CopyingFrames
    <3>. QED BY <1>9, <1>10, <3>1, <3>2
  <2>2. CASE \E x \in FrameType : e = <<x>> /\ x.at = dst /\ x.do \in {"tree", "file", "link"}
    <3>1. PICK x \in FrameType : e = <<x>> /\ x.at = dst /\ x.do \in {"tree", "file", "link"}
      BY <2>2
    <3>2. Append(e, y) = <<x, y>>
      BY <3>1, AppendTwo
    <3>3. x \in CopyingFrames
      BY <1>7, <1>8, <3>1 DEF CopyingFrames
    <3>. QED BY <1>6, <1>9, <1>10, <3>2, <3>3
  <2>. QED BY <1>7, <2>1, <2>2
<1>12. Touched \subseteq {f.at} /\ \A p : Is(tree, p, "dir") => Is(tree', p, "dir")
  BY <1>1, TouchedAt
<1>. QED BY <1>1, <1>4, <1>11, <1>12, CopyingOn

LEMMA CopiedStep ==
    ASSUME FsTypeOK, outcome = "running", op.cmd = "copy", CopyingInv, Copied
    PROVE  Goal
<1>1. work # <<>> /\ Frozen /\ counted' = counted /\ tree' = tree /\ work' = Tail(work)
  BY DEF Copied, Top, Same0, Return
<1>2. IsTree(tree)' /\ counted' \in Nat
  BY <1>1 DEF FsTypeOK
<1>3. Touched \subseteq {f.at} /\ \A p : Is(tree, p, "dir") => Is(tree', p, "dir")
  BY <1>1, TouchedAt
<1>. QED BY <1>1, <1>2, <1>3, CopyingOn

LEMMA OpenCopyStep ==
    ASSUME FsTypeOK, outcome = "running", op.cmd = "copy", CopyingInv, OpenCopy
    PROVE  Goal
<1>. DEFINE real == os_realpath(tree, f.from)
            x == Pair("data", real, f.at, 0)
<1>1. /\ work # <<>> /\ f.do = "file" /\ Frozen /\ counted' = counted /\ Is(tree, real, "file")
      /\ Free(f.at) \/ HoldsA(f.at, "file")
      /\ tree' = Put(Place(f.at), FileOf(<<>>))
      /\ work' = <<Pair("data", real, Place(f.at), 0)>> \o Tail(work)
  BY DEF OpenCopy, Top, Calls, Same0
<1>2. /\ f.at \in Seq(Name) /\ f.at \in Seq(Int) /\ IsPrefix(op.b, f.at)
      /\ Parent(f.at) => Place(f.at) = f.at
      /\ Holds(f.at) => Place(f.at) = f.at /\ f.at \in DOMAIN tree
  BY <1>1, CopyingTop
<1>3. IsTree(tree) /\ counted \in Nat /\ op' = op
  BY <1>1 DEF FsTypeOK, Frozen
<1>4. Place(f.at) = f.at
  BY <1>1, <1>2 DEF Free, HoldsA
<1>5. FileOf(<<>>) \in Node /\ FileOf(<<>>).kind = "file" /\ <<>> \in Seq(Int)
  BY NodeTypes, EmptySeq DEF FileOf
<1>6. IsTree(Put(f.at, FileOf(<<>>))) /\ ~Is(tree, f.at, "dir")
  <2>1. CASE Free(f.at)
    <3>1. IsTree(Put(f.at, FileOf(<<>>)))
      BY <1>2, <1>3, <1>4, <1>5, <2>1, NewNode
    <3>. QED BY <1>4, <2>1, <3>1 DEF Free, Is
  <2>2. CASE HoldsA(f.at, "file")
    <3>1. Is(tree, f.at, "file")
      BY <1>2, <1>4, <2>2 DEF HoldsA, Is
    <3>. QED BY <1>3, <1>5, <3>1, PutOld DEF Is
  <2>. QED BY <1>1, <2>1, <2>2
<1>. HIDE DEF real
<1>7. /\ tree' = Put(f.at, FileOf(<<>>)) /\ IsTree(tree)' /\ Is(tree', f.at, "file") /\ Is(tree', real, "file")
      /\ Touched \subseteq {f.at}
  <2>1. tree' = Put(f.at, FileOf(<<>>))
    BY <1>1, <1>4
  <2>2. Is(tree', f.at, "file") /\ Is(tree', real, "file")
    BY <1>1, <1>5, <2>1 DEF Put, Is
  <2>. QED BY <1>6, <2>1, <2>2, TouchedAt
<1>8. \A p : Is(tree, p, "dir") => Is(tree', p, "dir")
  BY <1>6, <1>7, DirsKept
<1>9. x \in FrameType /\ x.do = "data" /\ x.at = f.at /\ x.from = real
  <2>1. real \in Seq(Int) /\ 0 \in Nat /\ "data" \in Dos
    BY <1>1, <1>3, InTree DEF Is, Dos
  <2>. QED BY <1>2, <2>1, FrameTypes
<1>10. work' = <<x>> \o Tail(work)
  BY <1>1, <1>4
<1>. HIDE DEF x
<1>11. x \in CopyingFrames'
  BY <1>2, <1>3, <1>7, <1>9 DEF CopyingFrames
<1>. QED BY <1>1, <1>3, <1>7, <1>8, <1>10, <1>11, CopyingOn

LEMMA CopyDataStep ==
    ASSUME FsTypeOK, outcome = "running", op.cmd = "copy", CopyingInv, CopyData
    PROVE  Goal
<1>. DEFINE s == tree[f.from].data
<1>1. /\ work # <<>> /\ f.do = "data" /\ Frozen /\ counted' = counted + Len(s) /\ work' = Tail(work)
      /\ tree' = Put(f.at, FileOf(s))
  BY DEF CopyData, Top, Return
<1>2. Is(tree, f.at, "file") /\ Is(tree, f.from, "file")
  BY <1>1, CopyingTop
<1>3. IsTree(tree) /\ counted \in Nat
  BY DEF FsTypeOK
<1>4. s \in Seq(Int) /\ Len(s) \in Nat
  BY <1>2, <1>3, InTree, LenProperties DEF Is
<1>. HIDE DEF s
<1>5. IsTree(tree)' /\ counted' \in Nat /\ Touched \subseteq {f.at}
  BY <1>1, <1>2, <1>3, <1>4, PutOld, TouchedAt, SMTT(25)
<1>6. \A p : Is(tree, p, "dir") => Is(tree', p, "dir")
  <2>1. ~Is(tree, f.at, "dir")
    BY <1>2 DEF Is
  <2>. QED BY <1>1, <2>1, DirsKept
<1>. QED BY <1>1, <1>5, <1>6, CopyingOn

LEMMA MakeLinkStep ==
    ASSUME FsTypeOK, outcome = "running", op.cmd = "copy", CopyingInv, MakeLink
    PROVE  Goal
<1>1. /\ work # <<>> /\ f.do = "link" /\ Frozen /\ counted' = counted /\ work' = Tail(work)
      /\ Free(f.at) /\ tree' = Put(Place(f.at), LinkTo(f.from))
  BY DEF MakeLink, Top, Return, Same0
<1>2. f.at \in Seq(Name) /\ f.at \in Seq(Int) /\ f.from \in Seq(Int) /\ (Parent(f.at) => Place(f.at) = f.at)
  BY <1>1, CopyingTop
<1>3. IsTree(tree) /\ counted \in Nat /\ LinkTo(f.from) \in Node
  BY <1>2, NodeTypes DEF FsTypeOK
<1>4. Place(f.at) = f.at /\ IsTree(Put(Place(f.at), LinkTo(f.from))) /\ f.at \notin DOMAIN tree
  BY <1>1, <1>2, <1>3, NewNode DEF Free
<1>5. tree' = Put(f.at, LinkTo(f.from))
  BY <1>1, <1>4
<1>6. IsTree(tree)' /\ Touched \subseteq {f.at}
  BY <1>1, <1>4, <1>5, TouchedAt
<1>7. \A p : Is(tree, p, "dir") => Is(tree', p, "dir")
  <2>1. ~Is(tree, f.at, "dir")
    BY <1>4 DEF Is
  <2>. QED BY <1>5, <2>1, DirsKept
<1>. QED BY <1>1, <1>3, <1>6, <1>7, CopyingOn

LEMMA MakeRoomStep ==
    ASSUME FsTypeOK, outcome = "running", op.cmd = "copy", CopyingInv, MakeRoom
    PROVE  Goal
<1>1. /\ work # <<>> /\ f.do = "link" /\ Frozen /\ counted' = counted /\ work' = work
      /\ Holds(f.at) /\ ~HoldsA(f.at, "dir") /\ tree' = Cut(Place(f.at))
  BY DEF MakeRoom, Top, Same0
<1>2. /\ f \in FrameType /\ f.at \in Seq(Name) /\ f.at \in Seq(Int) /\ IsPrefix(op.b, f.at)
      /\ Place(f.at) = f.at /\ f.at \in DOMAIN tree
      /\ Parent(f.at) => Is(tree, Front(f.at), "dir")
  BY <1>1, CopyingTop
<1>3. IsTree(tree) /\ counted \in Nat /\ op' = op
  BY <1>1 DEF FsTypeOK, Frozen
<1>4. f.at # <<>> /\ Leaf(tree, f.at)
  BY <1>1, <1>2, <1>3, Held
<1>5. tree' = Cut(f.at) /\ IsTree(tree)' /\ Touched \subseteq {f.at}
  BY <1>1, <1>2, <1>3, <1>4, CutLeaf, TouchedAt
<1>6. ~Is(tree, f.at, "dir") /\ \A p : Is(tree, p, "dir") => Is(tree', p, "dir")
  <2>1. ~Is(tree, f.at, "dir")
    BY <1>1, <1>2 DEF HoldsA, Is
  <2>2. \A p : Is(tree, p, "dir") => Is(tree', p, "dir")
    BY <1>5, <2>1 DEF Cut, Is
  <2>. QED BY <2>1, <2>2
<1>7. Lexical(tree, f.at)'
  <2>. DEFINE u == tree'
              d == Front(f.at)
  <2>1. IsTree(u) /\ Is(u, d, "dir")
    BY <1>1, <1>2, <1>4, <1>5, <1>6 DEF Holds
  <2>2. op'.b = op.b /\ work' = work
    BY <1>1, <1>3
  <2>. HIDE DEF u, d
  <2>3. os_realpath(u, d) = d
    BY <2>1, Itself DEF Is
  <2>4. Lexical(u, f.at)
    BY <2>3 DEF Lexical, d
  <2>. QED BY <1>1, <2>4 DEF u, f
<1>8. f \in CopyingFrames'
  <2>1. Lexical(tree', f.at)
    BY <1>1, <1>7 DEF f
  <2>. QED BY <1>1, <1>2, <1>3, <2>1 DEF CopyingFrames
<1>9. work' = <<f>> \o Tail(work)
  <2>1. work \in Seq(FrameType)
    BY DEF FsTypeOK
  <2>2. work = <<f>> \o Tail(work)
    <3>. DEFINE v == <<f>> \o Tail(work)
    <3>1. /\ v \in Seq(FrameType) /\ Len(v) = Len(work) /\ v[1] = f /\ f = work[1]
          /\ \A i \in 2..Len(work) : v[i] = work[i]
      BY <1>1, <1>2, <2>1, Stack, TopFrame
    <3>. HIDE DEF v
    <3>2. \A i \in 1..Len(work) : v[i] = work[i]
      <4>1. ASSUME NEW i \in 1..Len(work) PROVE i = 1 \/ i \in 2..Len(work)
        BY <2>1, LenProperties
      <4>. QED BY <3>1, <4>1
    <3>3. work = v
      BY <2>1, <3>1, <3>2, SeqEqual
    <3>. QED BY <3>3 DEF v
  <2>. QED BY <1>1, <2>2
<1>. QED BY <1>1, <1>3, <1>5, <1>6, <1>8, <1>9, CopyingOn

LEMMA CopyingStep ==
    ASSUME FsInv, outcome = "running", op.cmd = "copy", FsNext
    PROVE  Goal
<1>1. FsTypeOK /\ CopyingInv
  BY DEF FsInv, Writes
<1>2. CASE work = <<>>
  <2>1. Finish
    BY <1>2 DEF FsNext, Call, Fails, MakeParent, MakeDir, OpenOld, OpenNew, Fill, Unlinked, EnterRemoved, RemoveEntry,
                RemoveDir, EnterCopied, CopyEntry, Copied, OpenCopy, CopyData, MakeLink, MakeRoom, Rename1, Across,
                EnterListed, SkipListed, ListEntry, Listed, Keep, Top
  <2>. QED BY <2>1, OverStep
<1>3. CASE work # <<>>
  <2>1. f.do \in {"entries", "refuse", "tree", "file", "link", "data"}
    BY <1>1, <1>3, CopyingTop
  <2>2. \/ Fails \/ Finish \/ EnterCopied \/ CopyEntry \/ Copied \/ OpenCopy
        \/ CopyData \/ MakeLink \/ MakeRoom
    BY <2>1 DEF FsNext, Call, MakeParent, MakeDir, OpenOld, OpenNew, Fill, Unlinked, EnterRemoved, RemoveEntry,
                RemoveDir, Rename1, Across, EnterListed, SkipListed, ListEntry, Listed, Keep, Top
  <2>. QED BY <1>1, <2>2, OverStep, EnterCopiedStep, CopyEntryStep, CopiedStep, OpenCopyStep, CopyDataStep,
              MakeLinkStep, MakeRoomStep
<1>. QED BY <1>2, <1>3

-----------------------------------------------------------------------------
(* fs.move *)

LEMMA MovingTop ==
    ASSUME FsTypeOK, outcome = "running", op.cmd = "move", MovingInv, work # <<>>
    PROVE  /\ IsTree(tree) /\ op.a \in Seq(Name) /\ op.b \in Seq(Name) /\ op.a \in Seq(Int) /\ op.b \in Seq(Int)
           /\ counted \in Nat /\ Writable(op.a) /\ Writable(op.b) /\ f = work[1] /\ f \in FrameType
           /\ \/ /\ f.do = "rename" /\ f.from = op.a /\ f.at = op.b /\ Len(work) = 1
                 /\ op.a \in DOMAIN tree /\ ~Is(tree, op.a, "link") /\ Lexical(tree, op.b)
              \/ f.do = "file" /\ f.from = op.a /\ f.at = op.b /\ Len(work) = 2 /\ Unlinking(2) /\ Lexical(tree, op.b)
              \/ f.do = "data" /\ f.from = op.a /\ f.at = op.b /\ Len(work) = 2 /\ Unlinking(2) /\ Is(tree, op.b, "file")
              \/ f.do = "unlink" /\ f.at = op.a /\ Len(work) = 1 /\ Is(tree, op.a, "file")
<1>1. /\ IsTree(tree) /\ op.a \in Seq(Name) /\ op.b \in Seq(Name) /\ op.a \in Seq(Int) /\ op.b \in Seq(Int)
      /\ counted \in Nat /\ work \in Seq(FrameType)
  BY Marks DEF FsTypeOK
<1>2. f = work[1] /\ f \in FrameType
  BY <1>1, TopFrame
<1>. QED BY <1>1, <1>2 DEF MovingInv, Unlinking

LEMMA WithinMoving ==
    ASSUME FsTypeOK, outcome = "running", op.cmd = "move", Frozen, counted' \in Nat, IsTree(tree)',
           work' \in Seq(FrameType), MovingInv', \A p \in Touched : Writable(p)
    PROVE  Goal
<1>1. op' = op /\ outcome' = outcome /\ granted' = granted /\ asked' = asked
  BY DEF Frozen
<1>2. op.cmd \notin Writes
  BY DEF Writes
<1>3. FsInv'
  BY <1>1, <1>2 DEF FsInv, FsTypeOK
<1>. QED BY <1>3 DEF Goal

LEMMA Rename1Step ==
    ASSUME FsTypeOK, outcome = "running", op.cmd = "move", MovingInv, Rename1
    PROVE  Goal
<1>. DEFINE src == op.a
            dst == op.b
<1>1. work # <<>> /\ f.do = "rename" /\ Frozen /\ counted' = counted /\ work' = Tail(work)
  BY DEF Rename1, Top, Return, Same0
<1>2. /\ IsTree(tree) /\ src \in Seq(Name) /\ dst \in Seq(Name) /\ src \in Seq(Int) /\ dst \in Seq(Int)
      /\ counted \in Nat /\ Writable(src) /\ Writable(dst) /\ f.from = src /\ f.at = dst /\ Len(work) = 1
      /\ src \in DOMAIN tree /\ Lexical(tree, dst)
  BY <1>1, MovingTop
<1>3. /\ Holds(src) /\ Place(src) \notin {<<>>, Mount} /\ Parent(dst)
      /\ IsPrefix(Place(src), Place(dst)) => Place(src) = Place(dst)
      /\ Place(dst) \in DOMAIN tree /\ Place(src) # Place(dst) =>
            IF HoldsA(src, "dir") THEN HoldsA(dst, "dir") /\ Children(tree, Place(dst)) = {}
            ELSE ~HoldsA(dst, "dir")
      /\ tree' = Renamed(Place(src), Place(dst))
  BY <1>2 DEF Rename1
<1>4. Place(src) = src /\ Place(dst) = dst /\ dst # <<>> /\ Is(tree, Front(dst), "dir") /\ src # <<>>
  <2>1. Lexical(tree, src)
    BY <1>2, OfTree
  <2>. QED BY <1>2, <1>3, <2>1, There
<1>5. ASSUME dst \in DOMAIN tree, src # dst PROVE Leaf(tree, dst)
  <2>1. Children(tree, dst) = {} \/ ~HoldsA(dst, "dir")
    BY <1>3, <1>4, <1>5
  <2>2. Children(tree, dst) = {} \/ ~Is(tree, dst, "dir")
    BY <1>3, <1>4, <1>5, <2>1 DEF HoldsA, Holds, Is
  <2>. QED BY <1>2, <1>5, <2>2, Leaves
<1>. HIDE DEF src, dst
<1>6. /\ IsTree(Renamed(src, dst))
      /\ DOMAIN Renamed(src, dst) = Stay(src, dst) \cup {Onto(src, dst, m) : m \in Under(tree, src)}
      /\ \A q \in Stay(src, dst) : Renamed(src, dst)[q] = tree[q]
  <2>1. IsPrefix(src, dst) => src = dst
    BY <1>3, <1>4
  <2>2. dst \in DOMAIN tree /\ src # dst => Leaf(tree, dst)
    BY <1>5
  <2>. QED BY <1>2, <1>4, <2>1, <2>2, RenamedTree
<1>7. tree' = Renamed(src, dst)
  BY <1>3, <1>4
<1>8. ASSUME NEW p \in Touched PROVE p \in Seq(Name) /\ (IsPrefix(src, p) \/ IsPrefix(dst, p))
  <2>1. p \notin Stay(src, dst)
    BY <1>6, <1>7, <1>8 DEF Touched, Stay
  <2>2. CASE p \in DOMAIN tree
    <3>1. p \in Seq(Name) /\ (IsPrefix(src, p) \/ p = dst)
      BY <1>2, <2>1, <2>2, InTree DEF Stay
    <3>. QED BY <1>2, <3>1, PrefixOrder
  <2>3. CASE p \notin DOMAIN tree
    <3>1. PICK m \in Under(tree, src) : p = Onto(src, dst, m)
      BY <1>6, <1>7, <1>8, <2>1, <2>3 DEF Touched
    <3>2. m \in Seq(Name) /\ IsPrefix(src, m)
      BY <1>2, <3>1, InTree DEF Under
    <3>. QED BY <1>2, <3>1, <3>2, OntoElements
  <2>. QED BY <2>2, <2>3
<1>9. \A p \in Touched : Writable(p)
  <2>1. \A e \in op.eff : e.path \in Seq(Name)
    BY DEF FsTypeOK
  <2>. QED BY <1>2, <1>8, <2>1, CoveredBelow DEF Writable
<1>10. work' = <<>>
  <2>1. Tail(work) \in Seq(FrameType) /\ Len(Tail(work)) = 0
    BY <1>1, <1>2, Stack DEF FsTypeOK
  <2>. QED BY <1>1, <2>1, EmptySeq
<1>11. MovingInv' /\ work' \in Seq(FrameType)
  <2>1. Writable(op.a)' /\ Writable(op.b)'
    BY <1>1, <1>2 DEF Frozen, Writable, src, dst
  <2>. QED BY <1>10, <2>1, EmptySeq DEF MovingInv
<1>. QED BY <1>1, <1>2, <1>6, <1>7, <1>9, <1>11, WithinMoving

LEMMA AcrossStep ==
    ASSUME FsTypeOK, outcome = "running", op.cmd = "move", MovingInv, Across
    PROVE  Goal
<1>. DEFINE x == Pair("file", op.a, op.b, 0)
            y == Frame("unlink", op.a)
<1>1. work # <<>> /\ f.do = "rename" /\ Frozen /\ counted' = counted /\ tree' = tree
  BY DEF Across, Top, Same0
<1>2. /\ IsTree(tree) /\ op.a \in Seq(Name) /\ op.b \in Seq(Name) /\ op.a \in Seq(Int) /\ op.b \in Seq(Int)
      /\ counted \in Nat /\ Writable(op.a) /\ Writable(op.b) /\ f.from = op.a /\ f.at = op.b /\ Len(work) = 1
      /\ op.a \in DOMAIN tree /\ Lexical(tree, op.b)
  BY <1>1, MovingTop
<1>3. HoldsA(op.a, "file") /\ work' = <<x, y>> \o Tail(work)
  BY <1>2 DEF Across, Calls, across
<1>4. Is(tree, op.a, "file")
  BY <1>2, <1>3, OfTree, There DEF HoldsA, Is
<1>5. x \in FrameType /\ x.do = "file" /\ x.from = op.a /\ x.at = op.b
  <2>1. "file" \in Dos /\ 0 \in Nat
    BY DEF Dos
  <2>. QED BY <1>2, <2>1, FrameTypes
<1>6. y \in FrameType /\ y.do = "unlink" /\ y.at = op.a
  <2>1. "unlink" \in Dos /\ 0 \in Nat /\ <<>> \in Seq(Int)
    BY EmptySeq DEF Dos
  <2>. QED BY <1>2, <2>1, FrameTypes
<1>. HIDE DEF x, y
<1>7. work' \in Seq(FrameType) /\ Len(work') = 2 /\ work'[1] = x /\ work'[2] = y
  BY <1>1, <1>2, <1>3, <1>5, <1>6, Stack DEF FsTypeOK
<1>8. MovingInv'
  <2>1. (Writable(op.a) /\ Writable(op.b) /\ Lexical(tree, op.b) /\ Unlinking(2))'
    BY <1>1, <1>2, <1>4, <1>6, <1>7 DEF Frozen, Writable, Lexical, Unlinking
  <2>2. op' = op
    BY <1>1 DEF Frozen
  <2>. QED BY <1>5, <1>7, <2>1, <2>2 DEF MovingInv
<1>9. Touched = {}
  BY <1>1, TouchedAt
<1>. QED BY <1>1, <1>2, <1>7, <1>8, <1>9, WithinMoving

LEMMA MovedOpen ==
    ASSUME FsTypeOK, outcome = "running", op.cmd = "move", MovingInv, OpenCopy
    PROVE  Goal
<1>. DEFINE x == Pair("data", op.a, op.b, 0)
<1>1. /\ work # <<>> /\ f.do = "file" /\ Frozen /\ counted' = counted
      /\ Free(f.at) \/ HoldsA(f.at, "file")
      /\ tree' = Put(Place(f.at), FileOf(<<>>))
      /\ work' = <<Pair("data", os_realpath(tree, f.from), Place(f.at), 0)>> \o Tail(work)
  BY DEF OpenCopy, Top, Calls, Same0
<1>2. /\ IsTree(tree) /\ op.a \in Seq(Name) /\ op.b \in Seq(Name) /\ op.a \in Seq(Int) /\ op.b \in Seq(Int)
      /\ counted \in Nat /\ Writable(op.a) /\ Writable(op.b) /\ f.from = op.a /\ f.at = op.b /\ Len(work) = 2
      /\ Unlinking(2) /\ Lexical(tree, op.b)
  BY <1>1, MovingTop
<1>3. Is(tree, op.a, "file") /\ os_realpath(tree, op.a) = op.a
  <2>1. Is(tree, op.a, "file")
    BY <1>2 DEF Unlinking
  <2>. QED BY <1>2, <2>1, Itself DEF Is
<1>4. /\ Place(op.b) = op.b
      /\ Holds(op.b) => op.b \in DOMAIN tree
  BY <1>1, <1>2, There DEF Free, HoldsA
<1>5. FileOf(<<>>) \in Node /\ FileOf(<<>>).kind = "file" /\ <<>> \in Seq(Int)
  BY NodeTypes, EmptySeq DEF FileOf
<1>6. IsTree(Put(op.b, FileOf(<<>>)))
  <2>1. CASE Free(op.b)
    BY <1>2, <1>4, <1>5, <2>1, NewNode
  <2>2. CASE HoldsA(op.b, "file")
    <3>1. Is(tree, op.b, "file")
      BY <1>4, <2>2 DEF HoldsA, Is
    <3>. QED BY <1>2, <1>5, <3>1, PutOld
  <2>. QED BY <1>1, <1>2, <2>1, <2>2
<1>7. tree' = Put(op.b, FileOf(<<>>)) /\ work' = <<x>> \o Tail(work)
  BY <1>1, <1>2, <1>3, <1>4
<1>8. Is(tree', op.a, "file") /\ Is(tree', op.b, "file") /\ Touched \subseteq {op.b}
  <2>1. Is(tree', op.a, "file") /\ Is(tree', op.b, "file")
    BY <1>3, <1>5, <1>7 DEF Put, Is
  <2>. QED BY <1>7, <2>1, TouchedAt
<1>9. x \in FrameType /\ x.do = "data" /\ x.from = op.a /\ x.at = op.b
  <2>1. "data" \in Dos /\ 0 \in Nat
    BY DEF Dos
  <2>. QED BY <1>2, <2>1, FrameTypes
<1>. HIDE DEF x
<1>10. work' \in Seq(FrameType) /\ Len(work') = 2 /\ work'[1] = x /\ work'[2] = work[2]
  <2>1. /\ work' \in Seq(FrameType) /\ Len(work') = Len(work) /\ work'[1] = x
        /\ \A i \in 2..Len(work) : work'[i] = work[i]
    BY <1>1, <1>7, <1>9, Stack DEF FsTypeOK
  <2>. QED BY <1>2, <2>1
<1>11. MovingInv'
  <2>1. op' = op
    BY <1>1 DEF Frozen
  <2>2. (Writable(op.a) /\ Writable(op.b) /\ Unlinking(2))'
    BY <1>2, <1>8, <1>10, <2>1 DEF Writable, Unlinking
  <2>. QED BY <1>8, <1>9, <1>10, <2>1, <2>2 DEF MovingInv
<1>12. IsTree(tree)'
  BY <1>6, <1>7
<1>. QED BY <1>1, <1>2, <1>8, <1>10, <1>11, <1>12, WithinMoving

LEMMA MovedData ==
    ASSUME FsTypeOK, outcome = "running", op.cmd = "move", MovingInv, CopyData
    PROVE  Goal
<1>. DEFINE s == tree[op.a].data
<1>1. /\ work # <<>> /\ f.do = "data" /\ Frozen /\ counted' = counted + Len(tree[f.from].data) /\ work' = Tail(work)
      /\ tree' = Put(f.at, FileOf(tree[f.from].data))
  BY DEF CopyData, Top, Return
<1>2. /\ IsTree(tree) /\ op.a \in Seq(Name) /\ op.b \in Seq(Name)
      /\ counted \in Nat /\ Writable(op.a) /\ Writable(op.b) /\ f.from = op.a /\ f.at = op.b /\ Len(work) = 2
      /\ Unlinking(2) /\ Is(tree, op.b, "file")
  BY <1>1, MovingTop
<1>3. s \in Seq(Int) /\ Len(s) \in Nat /\ Is(tree, op.a, "file")
  BY <1>2, InTree, LenProperties DEF Unlinking, Is
<1>4. tree' = Put(op.b, FileOf(s)) /\ counted' = counted + Len(s)
  BY <1>1, <1>2
<1>. HIDE DEF s
<1>5. IsTree(tree)' /\ counted' \in Nat /\ Touched \subseteq {op.b}
  <2>1. IsTree(Put(op.b, FileOf(s)))
    BY <1>2, <1>3, PutOld
  <2>2. counted' \in Nat
    BY <1>2, <1>3, <1>4
  <2>. QED BY <1>4, <2>1, <2>2, TouchedAt
<1>6. Is(tree', op.a, "file")
  BY <1>3, <1>4 DEF Put, Is, FileOf
<1>7. work' \in Seq(FrameType) /\ Len(work') = 1 /\ work'[1] = work[2]
  <2>1. /\ Tail(work) \in Seq(FrameType) /\ Len(Tail(work)) = Len(work) - 1
        /\ \A i \in 1..Len(work) - 1 : Tail(work)[i] = work[i + 1]
    BY <1>1, Stack DEF FsTypeOK
  <2>2. 1 \in 1..Len(work) - 1 /\ 1 + 1 = 2 /\ Len(work) - 1 = 1
    BY <1>2
  <2>3. Tail(work)[1] = work[2]
    BY <2>1, <2>2
  <2>. QED BY <1>1, <2>1, <2>2, <2>3
<1>8. MovingInv'
  <2>1. op' = op
    BY <1>1 DEF Frozen
  <2>2. (Writable(op.a) /\ Writable(op.b) /\ Unlinking(1))'
    BY <1>2, <1>6, <1>7, <2>1 DEF Writable, Unlinking
  <2>. QED BY <1>7, <2>2 DEF MovingInv
<1>. QED BY <1>1, <1>2, <1>5, <1>7, <1>8, WithinMoving

LEMMA MovedGone ==
    ASSUME FsTypeOK, outcome = "running", op.cmd = "move", MovingInv, Unlinked
    PROVE  Goal
<1>1. /\ work # <<>> /\ f.do \in {"drop", "unlink"} /\ Frozen /\ counted' = counted + 1 /\ work' = Tail(work)
      /\ Holds(f.at) /\ ~HoldsA(f.at, "dir") /\ tree' = Cut(Place(f.at))
  BY DEF Unlinked, Top, Return
<1>2. /\ IsTree(tree) /\ op.a \in Seq(Name) /\ counted \in Nat /\ Writable(op.a) /\ Writable(op.b)
      /\ f.at = op.a /\ Len(work) = 1 /\ Is(tree, op.a, "file")
  BY <1>1, MovingTop
<1>3. Place(op.a) = op.a
  BY <1>1, <1>2, OfTree, There DEF Is
<1>4. Leaf(tree, op.a) /\ op.a # <<>> /\ tree' = Cut(op.a)
  BY <1>1, <1>2, <1>3, Held
<1>5. IsTree(tree)' /\ Touched \subseteq {op.a}
  BY <1>2, <1>4, CutLeaf, TouchedAt
<1>6. work' = <<>>
  <2>1. Tail(work) \in Seq(FrameType) /\ Len(Tail(work)) = 0
    BY <1>1, <1>2, Stack DEF FsTypeOK
  <2>. QED BY <1>1, <2>1, EmptySeq
<1>7. MovingInv' /\ work' \in Seq(FrameType)
  <2>1. Writable(op.a)' /\ Writable(op.b)'
    BY <1>1, <1>2 DEF Frozen, Writable
  <2>. QED BY <1>6, <2>1, EmptySeq DEF MovingInv
<1>8. counted' \in Nat
  BY <1>1, <1>2
<1>. QED BY <1>1, <1>2, <1>5, <1>7, <1>8, WithinMoving

LEMMA MovingStep ==
    ASSUME FsInv, outcome = "running", op.cmd = "move", FsNext
    PROVE  Goal
<1>1. FsTypeOK /\ MovingInv
  BY DEF FsInv, Writes
<1>2. CASE work = <<>>
  <2>1. Finish
    BY <1>2 DEF FsNext, Call, Fails, MakeParent, MakeDir, OpenOld, OpenNew, Fill, Unlinked, EnterRemoved, RemoveEntry,
                RemoveDir, EnterCopied, CopyEntry, Copied, OpenCopy, CopyData, MakeLink, MakeRoom, Rename1, Across,
                EnterListed, SkipListed, ListEntry, Listed, Keep, Top
  <2>. QED BY <2>1, OverStep
<1>3. CASE work # <<>>
  <2>1. f.do \in {"rename", "file", "data", "unlink"}
    BY <1>1, <1>3, MovingTop
  <2>2. Fails \/ Finish \/ Rename1 \/ Across \/ OpenCopy \/ CopyData \/ Unlinked
    BY <2>1 DEF FsNext, Call, MakeParent, MakeDir, OpenOld, OpenNew, Fill, EnterRemoved, RemoveEntry,
                RemoveDir, EnterCopied, CopyEntry, Copied, MakeLink, MakeRoom,
                EnterListed, SkipListed, ListEntry, Listed, Keep, Top
  <2>. QED BY <1>1, <2>2, OverStep, Rename1Step, AcrossStep, MovedOpen, MovedData, MovedGone
<1>. QED BY <1>2, <1>3

-----------------------------------------------------------------------------
(* fs.list *)

LEMMA ListingTop ==
    ASSUME FsTypeOK, ListingInv, work # <<>>
    PROVE  /\ f \in FrameType /\ f.do \in {"walk", "listing", "keep"} /\ f.at \in Seq(Name) /\ f.depth \in Nat
           /\ f.left \subseteq Name /\ Tail(work) \in Seq(FrameType) /\ Len(work) \in Nat \ {0}
           /\ \A i \in 1..Len(Tail(work)) : Tail(work)[i].do \in {"walk", "listing", "keep"}
<1>1. work \in Seq(FrameType)
  BY DEF FsTypeOK
<1>2. f = work[1] /\ f \in FrameType /\ f.at \in Seq(Name) /\ f.depth \in Nat /\ f.left \subseteq Name
  BY <1>1, TopFrame
<1>3. /\ Len(work) \in Nat \ {0} /\ Tail(work) \in Seq(FrameType) /\ Len(Tail(work)) = Len(work) - 1
      /\ \A i \in 1..Len(work) - 1 : Tail(work)[i] = work[i + 1]
  BY <1>1, Stack
<1>4. f.do \in {"walk", "listing", "keep"}
  BY <1>2, <1>3 DEF ListingInv
<1>5. \A i \in 1..Len(Tail(work)) : Tail(work)[i].do \in {"walk", "listing", "keep"}
  BY <1>3 DEF ListingInv
<1>. QED BY <1>2, <1>3, <1>4, <1>5

ListFrames == {g \in FrameType : g.do \in {"walk", "listing", "keep"}}

\* A step that changes no tree and puts such frames before the others.
LEMMA ListingOn ==
    ASSUME FsTypeOK, outcome = "running", op.cmd = "list", ListingInv, work # <<>>, Frozen, counted' \in Nat,
           tree' = tree, NEW s \in Seq(ListFrames), work' = s \o Tail(work)
    PROVE  Goal
<1>1. /\ Tail(work) \in Seq(FrameType) /\ \A i \in 1..Len(Tail(work)) : Tail(work)[i].do \in {"walk", "listing", "keep"}
  BY ListingTop
<1>2. Tail(work) \in Seq(ListFrames)
  <2>. DEFINE t == Tail(work)
              n == Len(t)
  <2>1. t \in Seq(FrameType) /\ n \in Nat /\ t \in [1..n -> FrameType] /\ \A i \in 1..n : t[i].do \in {"walk", "listing", "keep"}
    BY <1>1, LenProperties
  <2>. HIDE DEF t, n
  <2>2. t \in [1..n -> ListFrames]
    BY <2>1 DEF ListFrames
  <2>3. t \in Seq(ListFrames)
    BY <2>1, <2>2, SeqDef
  <2>. QED BY <2>3 DEF t
<1>3. work' \in Seq(ListFrames)
  BY <1>2, ConcatProperties
<1>4. work' \in Seq(FrameType)
  BY <1>3, SeqMonotonic DEF ListFrames
<1>5. ListingInv'
  <2>1. \A i \in 1..Len(work') : work'[i] \in ListFrames
    BY <1>3, ElementOfSeq
  <2>. QED BY <2>1 DEF ListingInv, ListFrames
<1>6. FsInv'
  <2>1. op' = op /\ outcome' = outcome /\ granted' = granted /\ asked' = asked /\ op.cmd \notin Writes
    BY DEF Frozen, Writes
  <2>. QED BY <1>4, <1>5, <2>1 DEF FsInv, FsTypeOK
<1>. QED BY <1>6, TouchedAt DEF Goal

LEMMA ListEntryStep ==
    ASSUME FsTypeOK, outcome = "running", op.cmd = "list", ListingInv, ListEntry
    PROVE  Goal
<1>1. work # <<>> /\ f.do = "listing" /\ tree' = tree /\ Frozen /\ counted' = counted /\ counted \in Nat
  BY DEF ListEntry, Top, Same0, FsTypeOK
<1>2. f \in FrameType /\ f.at \in Seq(Name) /\ f.depth \in Nat /\ f.left \subseteq Name
  BY <1>1, ListingTop
<1>3. PICK n \in f.left :
         LET q == Append(f.at, n)
             below == IF op.flag /\ HoldsA(q, "dir") /\ f.depth < DepthMax
                      THEN <<Pair("walk", <<>>, q, f.depth + 1)>> ELSE <<>>
             itself == IF Holds(q) THEN <<Frame("keep", q)>> ELSE <<>>
         IN work' = (below \o itself \o <<Rest(n)>>) \o Tail(work)
  BY DEF ListEntry, Calls
<1>. DEFINE q == Append(f.at, n)
            dp == f.depth + 1
            none == <<>>
            walk == "walk"
            keep == "keep"
            x == Pair(walk, none, q, dp)
            k == Frame(keep, q)
            y == Rest(n)
            below == IF op.flag /\ HoldsA(q, "dir") /\ f.depth < DepthMax THEN <<x>> ELSE <<>>
            itself == IF Holds(q) THEN <<k>> ELSE <<>>
<1>4. work' = (below \o itself \o <<y>>) \o Tail(work)
  BY <1>3
<1>5. y \in ListFrames
  <2>1. y \in FrameType /\ y.do = f.do
    BY <1>2 DEF Rest, FrameType
  <2>. HIDE DEF y
  <2>. QED BY <1>1, <2>1 DEF ListFrames
<1>6. q \in Seq(Name) /\ dp \in Nat /\ none \in Seq(Int) /\ walk \in Dos /\ keep \in Dos /\ 0 \in Nat
  <2>1. q \in Seq(Name)
    BY <1>2, AppendProperties
  <2>. QED BY <1>2, <2>1, EmptySeq DEF Dos
<1>7. x \in ListFrames /\ k \in ListFrames
  <2>1. walk \in {"walk", "listing", "keep"} /\ keep \in {"walk", "listing", "keep"}
    OBVIOUS
  <2>. HIDE DEF q, dp, none, walk, keep
  <2>2. x \in FrameType /\ x.do = walk /\ k \in FrameType /\ k.do = keep
    BY <1>6, FrameTypes
  <2>. QED BY <2>1, <2>2 DEF ListFrames
<1>. HIDE DEF x, k, y
<1>8. below \in Seq(ListFrames) /\ itself \in Seq(ListFrames) /\ <<y>> \in Seq(ListFrames)
  BY <1>5, <1>7, EmptySeq
<1>. HIDE DEF below, itself
<1>9. below \o itself \o <<y>> \in Seq(ListFrames)
  BY <1>8, ConcatProperties
<1>. QED BY <1>1, <1>4, <1>9, ListingOn

LEMMA ListingStep ==
    ASSUME FsInv, outcome = "running", op.cmd = "list", FsNext
    PROVE  Goal
<1>1. FsTypeOK /\ ListingInv /\ counted \in Nat /\ IsTree(tree)
  BY DEF FsInv, FsTypeOK, Writes
<1>2. CASE work = <<>>
  <2>1. Finish
    BY <1>2 DEF FsNext, Call, Fails, MakeParent, MakeDir, OpenOld, OpenNew, Fill, Unlinked, EnterRemoved, RemoveEntry,
                RemoveDir, EnterCopied, CopyEntry, Copied, OpenCopy, CopyData, MakeLink, MakeRoom, Rename1, Across,
                EnterListed, SkipListed, ListEntry, Listed, Keep, Top
  <2>. QED BY <2>1, OverStep
<1>3. CASE work # <<>>
  <2>1. /\ f \in FrameType /\ f.do \in {"walk", "listing", "keep"} /\ f.at \in Seq(Name) /\ Tail(work) \in Seq(FrameType)
    BY <1>1, <1>3, ListingTop
  <2>2. Fails \/ Finish \/ EnterListed \/ SkipListed \/ ListEntry \/ Listed \/ Keep
    BY <2>1 DEF FsNext, Call, MakeParent, MakeDir, OpenOld, OpenNew, Fill, Unlinked, EnterRemoved, RemoveEntry,
                RemoveDir, EnterCopied, CopyEntry, Copied, OpenCopy, CopyData, MakeLink, MakeRoom, Rename1, Across, Top
  <2>3. CASE EnterListed
    <3>. DEFINE x == [f EXCEPT !.do = "listing", !.left = dir_names(tree, f.at)]
    <3>1. tree' = tree /\ Frozen /\ counted' = counted /\ work' = <<x>> \o Tail(work)
      BY <2>3 DEF EnterListed, Calls, Same0
    <3>2. dir_names(tree, f.at) \subseteq Name
      BY <1>1, <2>1, Names, Marks
    <3>3. x \in FrameType /\ x.do = "listing"
      BY <2>1, <3>2 DEF FrameType, Dos
    <3>. HIDE DEF x
    <3>4. <<x>> \in Seq(ListFrames)
      <4>1. x \in ListFrames
        BY <3>3 DEF ListFrames
      <4>. QED BY <4>1
    <3>. QED BY <1>1, <1>3, <3>1, <3>4, ListingOn
  <2>4. CASE SkipListed \/ Listed \/ Keep
    <3>1. tree' = tree /\ Frozen /\ counted' \in Nat /\ work' = Tail(work)
      BY <1>1, <2>4 DEF SkipListed, Listed, Keep, Return, Same0
    <3>2. <<>> \in Seq(ListFrames) /\ work' = <<>> \o Tail(work)
      BY <2>1, <3>1, EmptySeq, ConcatEmptySeq
    <3>. QED BY <1>1, <1>3, <3>1, <3>2, ListingOn
  <2>. QED BY <1>1, <2>2, <2>3, <2>4, OverStep, ListEntryStep
<1>. QED BY <1>2, <1>3

-----------------------------------------------------------------------------
(* The specification *)

LEMMA FsInitial == FsInit => FsInv
<1>1. <<>> \in Seq(FrameType)
  BY EmptySeq
<1>. QED BY <1>1, FsAssumption DEF FsInit, FsInv, FsTypeOK

LEMMA FsUnchanged == FsInv /\ UNCHANGED fsVars => FsInv'
<1>. SUFFICES ASSUME FsInv, UNCHANGED fsVars PROVE FsInv'
  OBVIOUS
<1>1. /\ tree' = tree /\ granted' = granted /\ asked' = asked /\ op' = op /\ work' = work
      /\ outcome' = outcome /\ counted' = counted
  BY DEF fsVars
<1>2. WritingInv => WritingInv'
  BY <1>1 DEF WritingInv, Preparing, Filling, Writable, ThroughLink, Straight
<1>3. RemovingInv => RemovingInv'
  BY <1>1 DEF RemovingInv, RemovingFrames, Writable
<1>4. CopyingInv => CopyingInv'
  BY <1>1 DEF CopyingInv, CopyingFrames, CopiedDirs, Writable, Lexical
<1>5. MovingInv => MovingInv'
  BY <1>1 DEF MovingInv, Unlinking, Writable, Lexical
<1>6. ListingInv => ListingInv'
  BY <1>1 DEF ListingInv
<1>. QED BY <1>1, <1>2, <1>3, <1>4, <1>5, <1>6 DEF FsInv, FsTypeOK

LEMMA FsStep ==
    ASSUME FsInv, FsNext
    PROVE  FsInv' /\ \A p \in Touched : Covered(op.eff, p, {"w"}) \/ OnTheWay(p) \/ ThroughLink
<1>1. CASE outcome = "running"
  <2>1. op.cmd \in Writes \cup {"remove", "copy", "move", "list"}
    BY <1>1 DEF FsInv, FsTypeOK
  <2>2. Goal
    BY <1>1, <2>1, WritingStep, RemovingStep, CopyingStep, MovingStep, ListingStep
  <2>. QED BY <2>2 DEF Goal, Writable
<1>2. CASE outcome # "running"
  <2>1. (\E c \in FsCalls : Call(c)) \/ UNCHANGED fsVars
    BY <1>2 DEF FsNext, Fails, Finish, MakeParent, MakeDir, OpenOld, OpenNew, Fill, Unlinked, EnterRemoved, RemoveEntry,
                RemoveDir, EnterCopied, CopyEntry, Copied, OpenCopy, CopyData, MakeLink, MakeRoom, Rename1, Across,
                EnterListed, SkipListed, ListEntry, Listed, Keep, Top, Running
  <2>2. tree' = tree
    BY <2>1 DEF Call, fsVars
  <2>3. Touched = {}
    BY <2>2, TouchedAt
  <2>4. FsInv'
    <3>1. CASE \E c \in FsCalls : Call(c)
      BY <3>1, CallStep DEF FsInv
    <3>2. CASE UNCHANGED fsVars
      BY <3>2, FsUnchanged
    <3>. QED BY <2>1, <3>1, <3>2
  <2>. QED BY <2>3, <2>4
<1>. QED BY <1>1, <1>2

\* In every reachable state of the fs tool the frames that are left lead only where
\* the call was let: the inductive invariant behind Granted.
THEOREM FsSafety == FsSpec => []FsInv
<1>1. FsInv /\ [FsNext]_fsVars => FsInv'
  <2>1. ASSUME FsInv, FsNext PROVE FsInv'
    BY <2>1, FsStep
  <2>2. ASSUME FsInv, UNCHANGED fsVars PROVE FsInv'
    BY <2>2, FsUnchanged
  <2>. QED BY <2>1, <2>2
<1>. QED BY <1>1, FsInitial, PTL DEF FsSpec

\* Whatever links the tree holds, whatever is granted and wherever a command stops,
\* std/tool_fs.c changes only what the pre-flight of policy.c let it write, the
\* directories on the way there, and what a link that leads nowhere names.
THEOREM FsGranted == FsSpec => Granted
<1>. DEFINE A == \A p \in Touched : Covered(op.eff, p, {"w"}) \/ OnTheWay(p) \/ ThroughLink
<1>1. FsInv /\ [FsNext]_fsVars => [A]_fsVars
  <2>1. ASSUME FsInv, FsNext PROVE A
    BY <2>1, FsStep
  <2>. QED BY <2>1
<1>2. FsSpec => [][FsNext]_fsVars
  BY DEF FsSpec
<1>. HIDE DEF A
<1>3. FsSpec => [][A]_fsVars
  BY <1>1, <1>2, FsSafety, PTL
<1>. QED BY <1>3 DEF Granted, A

-----------------------------------------------------------------------------
(* The invariant: what has been done and what the frames have still to do *)

Before(p) == {x \in DOMAIN op.before : IsPrefix(p, x)}

\* fs.remove: what is gone was below the path and was counted; the path itself
\* is what the outermost frame is about.
RemovedInv ==
    LET t == op.before
        n == Len(work)
    IN /\ DOMAIN tree \subseteq DOMAIN t /\ \A q \in DOMAIN tree : tree[q] = t[q]
       /\ \A q \in DOMAIN t \ DOMAIN tree : IsPrefix(op.a, q)
       /\ counted = Cardinality(DOMAIN t) - Cardinality(DOMAIN tree)
       /\ IF work = <<>> THEN \A q \in DOMAIN tree : ~IsPrefix(op.a, q)
          ELSE work[n].at = op.a

\* fs.copy: the source is as it was, and every entry of it has its copy or is
\* still to come.
Apart == ~IsPrefix(op.a, op.b) /\ ~IsPrefix(op.b, op.a)
Copy(x) == Onto(op.a, op.b, x)
HasCopy(x) == Copy(x) \in DOMAIN tree /\ tree[Copy(x)] = op.before[x]
Awaits(g, x) ==
    \/ g.do = "refuse"
    \/ g.do = "tree" /\ IsPrefix(g.from, x)
    \/ g.do = "entries" /\ \E n \in g.left : IsPrefix(Append(g.from, n), x)
    \/ g.do \in {"file", "data", "link"} /\ g.at = Copy(x)
Copies(g) ==
    \/ g.do = "refuse"
    \/ /\ g.do \in {"tree", "entries"} /\ g.from \in Before(op.a) /\ g.at = Copy(g.from)
       /\ op.before[g.from].kind = "dir"
    \/ /\ g.do \in {"file", "data"} /\ g.from \in Before(op.a) /\ g.at = Copy(g.from)
       /\ op.before[g.from].kind = "file"
    \/ g.do = "link" /\ \E x \in Before(op.a) : g.at = Copy(x) /\ op.before[x] = LinkTo(g.from)
SourceKept == /\ \A q \in DOMAIN tree : IsPrefix(op.a, q) => q \in DOMAIN op.before
              /\ \A q \in Before(op.a) : q \in DOMAIN tree /\ tree[q] = op.before[q]
CopiedInv ==
    Apart => /\ SourceKept
             /\ \A g \in Range(work) : Copies(g)
             /\ \A x \in Before(op.a) : HasCopy(x) \/ \E g \in Range(work) : Awaits(g, x)

\* fs.move: the source is there until it is at its new place.
MovedInv ==
    LET t == op.before
    IN IF work = <<>> THEN Same(t, op.a, tree, op.b) /\ (Apart => op.a \notin DOMAIN tree)
       ELSE /\ Same(t, op.a, tree, op.a)
            /\ work[1].do = "rename" => tree = t
            /\ work[1].do # "rename" => op.a # op.b /\ Is(t, op.a, "file")
            /\ work[1].do = "unlink" => op.b \in DOMAIN tree /\ tree[op.b] = t[op.a]

\* fs.list: every entry that is no longer due was seen, and the smallest of those
\* are kept.
Depth == IF op.flag THEN DepthMax ELSE 0
All == {q \in DOMAIN tree : IsPrefix(op.a, q) /\ Len(q) - Len(op.a) \in 1..Depth + 1}
Due(g) ==
    {q \in All : \/ g.do = "walk" /\ IsPrefix(g.at, q) /\ g.at # q
                 \/ g.do = "listing" /\ \E n \in g.left : IsPrefix(Append(g.at, n), q)
                 \/ g.do = "keep" /\ g.at = q}
Seen == {q \in All : \A g \in Range(work) : q \notin Due(g)}
Apiece(w) == \A i, j \in 1..Len(w) : i < j => Due(w[i]) \cap Due(w[j]) = {}
Lists(g) ==
    \/ /\ g.do \in {"walk", "listing"} /\ g.at \in DOMAIN tree /\ IsPrefix(op.a, g.at) /\ ~Is(tree, g.at, "link")
       /\ Len(g.at) - Len(op.a) = g.depth /\ g.depth <= Depth
    \/ g.do = "keep" /\ g.at \in All
Smallest(set, of, k) ==
    /\ set \subseteq of /\ Cardinality(set) <= k + 1
    /\ Cardinality(set) <= k => set = of
    /\ \A y \in set, x \in of \ set : Less(y, x)
ListedInv ==
    counted = 0 => /\ \A g \in Range(work) : Lists(g)
                   /\ Apiece(work)
                   /\ Smallest(kept, Seen, op.limit)

ResultInv ==
    /\ FilesTrue
    /\ outcome = "running" =>
         /\ IsTree(op.before) /\ op.limit \in Nat
         /\ op.cmd = "remove" => RemovedInv
         /\ op.cmd = "copy" => CopiedInv
         /\ op.cmd = "move" => MovedInv
         /\ op.cmd = "list" => ListedInv

-----------------------------------------------------------------------------
(* Frames put on a stack *)

LEMMA Ranges ==
    ASSUME NEW S, NEW w \in Seq(S)
    PROVE  /\ Range(w) = {w[i] : i \in 1..Len(w)} /\ (w = <<>> => Range(w) = {})
           /\ w # <<>> => Range(w) = {Head(w)} \cup Range(Tail(w))
           /\ \A x \in S : <<x>> \o w \in Seq(S) /\ Range(<<x>> \o w) = {x} \cup Range(w)
<1>1. ASSUME NEW v \in Seq(S) PROVE Range(v) = {v[i] : i \in 1..Len(v)}
  BY LenProperties DEF Range
<1>2. w = <<>> => Range(w) = {}
  <2>1. ASSUME w = <<>> PROVE 1..Len(w) = {}
    BY <2>1
  <2>2. Range(w) = {w[i] : i \in 1..Len(w)}
    BY <1>1
  <2>3. ASSUME w = <<>> PROVE {w[i] : i \in 1..Len(w)} = {}
    <3>. DEFINE d == 1..Len(w)
    <3>1. d = {}
      BY <2>1, <2>3
    <3>. HIDE DEF d
    <3>2. {w[i] : i \in d} = {}
      BY <3>1
    <3>. QED BY <3>2 DEF d
  <2>. QED BY <2>2, <2>3
<1>3. ASSUME NEW x \in S PROVE <<x>> \o w \in Seq(S) /\ Range(<<x>> \o w) = {x} \cup Range(w)
  <2>. DEFINE v == <<x>> \o w
  <2>1. <<x>> \in Seq(S) /\ Len(<<x>>) = 1 /\ <<x>>[1] = x /\ Len(w) \in Nat
    BY LenProperties
  <2>2. v \in Seq(S) /\ Len(v) = 1 + Len(w) /\ \A i \in 1..1 + Len(w) : v[i] = IF i <= 1 THEN <<x>>[i] ELSE w[i - 1]
    BY <2>1, ConcatProperties
  <2>. HIDE DEF v
  <2>3. v[1] = x /\ \A i \in 1..Len(w) : v[i + 1] = w[i] /\ i + 1 \in 1..Len(v)
    BY <2>1, <2>2
  <2>4. \A i \in 1..Len(v) : i = 1 \/ (i - 1 \in 1..Len(w) /\ v[i] = w[i - 1])
    BY <2>1, <2>2
  <2>5. 1 \in 1..Len(v)
    BY <2>1, <2>2
  <2>6. Range(v) = {v[i] : i \in 1..Len(v)} /\ Range(w) = {w[i] : i \in 1..Len(w)}
    BY <1>1, <2>2
  <2>7. Range(v) \subseteq {x} \cup Range(w)
    <3>1. \A i \in 1..Len(v) : v[i] \in {x} \cup {w[j] : j \in 1..Len(w)}
      BY <2>3, <2>4
    <3>. QED BY <2>6, <3>1
  <2>8. x \in Range(v) /\ Range(w) \subseteq Range(v)
    BY <2>3, <2>5, <2>6
  <2>. QED BY <2>2, <2>7, <2>8 DEF v
<1>4. ASSUME w # <<>> PROVE Range(w) = {Head(w)} \cup Range(Tail(w))
  <2>1. /\ Len(w) \in Nat \ {0} /\ Head(w) = w[1] /\ Tail(w) \in Seq(S) /\ Len(Tail(w)) = Len(w) - 1
        /\ \A i \in 1..Len(w) - 1 : Tail(w)[i] = w[i + 1]
    BY <1>4, Stack
  <2>2. Range(w) = {w[i] : i \in 1..Len(w)} /\ Range(Tail(w)) = {Tail(w)[i] : i \in 1..Len(w) - 1}
    BY <1>1, <2>1
  <2>. DEFINE t == Tail(w)
  <2>3. \A i \in 1..Len(w) : i = 1 \/ (i - 1 \in 1..Len(w) - 1 /\ w[i] = t[i - 1])
    BY <2>1
  <2>4. 1 \in 1..Len(w) /\ \A i \in 1..Len(w) - 1 : i + 1 \in 1..Len(w) /\ t[i] = w[i + 1]
    BY <2>1
  <2>. HIDE DEF t
  <2>5. Range(w) = {w[1]} \cup {t[i] : i \in 1..Len(w) - 1}
    BY <2>2, <2>3, <2>4
  <2>. QED BY <2>1, <2>2, <2>5 DEF t
<1>. QED BY <1>1, <1>2, <1>3, <1>4

\* Two frames are put there one after the other.
LEMMA RangeOfTwo ==
    ASSUME NEW S, NEW w \in Seq(S), NEW x \in S, NEW y \in S
    PROVE  /\ <<x, y>> \o w \in Seq(S) /\ <<x, y>> \o w = <<x>> \o (<<y>> \o w)
           /\ \A e : e \in Range(<<x, y>> \o w) <=> e = x \/ e = y \/ e \in Range(w)
<1>1. <<x>> \in Seq(S) /\ <<y>> \in Seq(S)
  OBVIOUS
<1>2. <<x>> \o <<y>> = <<x, y>>
  <2>. DEFINE v == <<x>> \o <<y>>
              u == <<x, y>>
  <2>1. <<x>> \in Seq(S) /\ <<y>> \in Seq(S) /\ Len(<<x>>) = 1 /\ Len(<<y>>) = 1 /\ <<x>>[1] = x /\ <<y>>[1] = y
    OBVIOUS
  <2>2. v \in Seq(S) /\ Len(v) = 2 /\ v[1] = x /\ v[2] = y
    BY <2>1, ConcatProperties
  <2>3. u \in Seq(S) /\ Len(u) = 2 /\ u[1] = x /\ u[2] = y
    OBVIOUS
  <2>. HIDE DEF u, v
  <2>4. \A i \in 1..2 : v[i] = u[i]
    BY <2>2, <2>3
  <2>5. v = u
    BY <2>2, <2>3, <2>4, SeqEqual
  <2>. QED BY <2>5 DEF u, v
<1>3. (<<x>> \o <<y>>) \o w = <<x>> \o (<<y>> \o w)
  BY <1>1, ConcatAssociative
<1>4. <<x, y>> \o w = <<x>> \o (<<y>> \o w)
  BY <1>2, <1>3
<1>. DEFINE v == <<y>> \o w
<1>5. v \in Seq(S) /\ Range(v) = {y} \cup Range(w)
  BY Ranges
<1>6. <<x, y>> \o w = <<x>> \o v
  BY <1>4
<1>. HIDE DEF v
<1>7. <<x>> \o v \in Seq(S) /\ Range(<<x>> \o v) = {x} \cup Range(v)
  BY <1>5, Ranges
<1>. QED BY <1>4, <1>5, <1>6, <1>7

-----------------------------------------------------------------------------
(* Names below a directory *)

LEMMA Below ==
    ASSUME NEW S, NEW p \in Seq(S), NEW q \in Seq(S), NEW n \in S
    PROVE  /\ IsPrefix(Append(p, n), q) <=> IsPrefix(p, q) /\ Len(q) > Len(p) /\ q[Len(p) + 1] = n
           /\ IsPrefix(p, q) /\ p # q => Len(q) > Len(p) /\ q[Len(p) + 1] \in S
           /\ IsPrefix(p, q) => Len(q) >= Len(p)
<1>1. Len(p) \in Nat /\ Len(q) \in Nat
  BY LenProperties
<1>2. /\ Append(p, n) \in Seq(S) /\ Len(Append(p, n)) = Len(p) + 1 /\ Append(p, n)[Len(p) + 1] = n
      /\ \A i \in 1..Len(p) : Append(p, n)[i] = p[i]
  BY AppendProperties
<1>3. IsPrefix(p, q) <=> Len(p) <= Len(q) /\ \A i \in 1..Len(p) : p[i] = q[i]
  BY Prefix
<1>4. IsPrefix(Append(p, n), q) <=> Len(p) + 1 <= Len(q) /\ \A i \in 1..Len(p) + 1 : Append(p, n)[i] = q[i]
  <2>. DEFINE a == Append(p, n)
  <2>. HIDE DEF a
  <2>1. IsPrefix(a, q) <=> Len(a) <= Len(q) /\ \A i \in 1..Len(a) : a[i] = q[i]
    BY <1>2, Prefix, ZenonT(30) DEF a
  <2>. QED BY <1>2, <2>1 DEF a
<1>5. \A i \in 1..Len(p) + 1 : i \in 1..Len(p) \/ i = Len(p) + 1
  BY <1>1
<1>6. Len(p) + 1 \in 1..Len(p) + 1 /\ 1..Len(p) \subseteq 1..Len(p) + 1
  BY <1>1
<1>7. (\A i \in 1..Len(p) + 1 : Append(p, n)[i] = q[i]) <=> (\A i \in 1..Len(p) : p[i] = q[i]) /\ q[Len(p) + 1] = n
  BY <1>2, <1>5, <1>6
<1>8. ASSUME IsPrefix(p, q), p # q PROVE Len(q) > Len(p) /\ q[Len(p) + 1] \in S
  <2>1. Len(p) # Len(q)
    BY <1>3, <1>8, SeqEqual
  <2>2. Len(q) > Len(p) /\ Len(p) + 1 \in 1..Len(q)
    BY <1>1, <1>3, <1>8, <2>1
  <2>. QED BY <2>2, ElementOfSeq
<1>9. Len(q) > Len(p) <=> Len(p) + 1 <= Len(q)
  BY <1>1
<1>10. Len(p) + 1 <= Len(q) => Len(p) <= Len(q)
  BY <1>1
<1>. QED BY <1>1, <1>3, <1>4, <1>7, <1>8, <1>9, <1>10

\* readdir gives the first name of everything below.
LEMMA FirstNames ==
    ASSUME NEW t, IsTree(t), NEW p \in DOMAIN t, ~Is(t, p, "link")
    PROVE  /\ os_realpath(t, p) = p
           /\ \A n \in dir_names(t, p) : n \in Name /\ Append(p, n) \in DOMAIN t
           /\ \A q \in DOMAIN t : IsPrefix(p, q) /\ p # q => \E n \in dir_names(t, p) : IsPrefix(Append(p, n), q)
<1>1. os_realpath(t, p) = p /\ p \in Seq(Name) /\ p \in Seq(Int) /\ Len(p) \in Nat
  BY Itself, InTree, LenProperties
<1>2. dir_names(t, p) = {Last(q) : q \in Children(t, p)}
  BY <1>1 DEF dir_names
<1>3. ASSUME NEW q \in Children(t, p)
      PROVE  Last(q) \in Name /\ Append(p, Last(q)) = q
  <2>1. q \in DOMAIN t /\ q \in Seq(Name) /\ Len(q) = Len(p) + 1 /\ IsPrefix(p, q)
    BY InTree DEF Children
  <2>2. q # <<>>
    BY <1>1, <2>1, EmptySeq
  <2>3. /\ Front(q) \in Seq(Name) /\ Len(Front(q)) = Len(q) - 1 /\ Last(q) \in Name /\ q = Append(Front(q), Last(q))
        /\ Front(q) = SubSeq(q, 1, Len(q) - 1)
    BY <2>1, <2>2, Ends
  <2>4. p = SubSeq(q, 1, Len(p)) /\ Len(q) - 1 = Len(p)
    BY <1>1, <2>1, Prefix
  <2>. QED BY <2>3, <2>4
<1>4. \A n \in dir_names(t, p) : n \in Name /\ Append(p, n) \in DOMAIN t
  BY <1>2, <1>3 DEF Children
<1>5. ASSUME NEW q \in DOMAIN t, IsPrefix(p, q), p # q PROVE \E n \in dir_names(t, p) : IsPrefix(Append(p, n), q)
  <2>. DEFINE k == Len(p) + 1
              c == SubSeq(q, 1, k)
              n == q[k]
  <2>1. q \in Seq(Name) /\ Len(q) \in Nat
    BY InTree, LenProperties
  <2>2. Len(q) > Len(p) /\ n \in Name
    BY <1>1, <1>5, <2>1, Below
  <2>3. k \in 1..Len(q) /\ k \in 0..Len(q) /\ k - 1 = Len(p)
    BY <1>1, <2>1, <2>2
  <2>4. p = SubSeq(q, 1, Len(p))
    BY <1>1, <1>5, <2>1, Prefix
  <2>. HIDE DEF k
  <2>5. c = Append(p, n) /\ c \in Seq(Name) /\ Len(c) = k
    BY <2>1, <2>3, <2>4, CutNext, Cuts
  <2>6. c \in DOMAIN t
    <3>1. CASE k = Len(q)
      BY <2>1, <3>1, SubSeqFull
    <3>2. CASE k # Len(q)
      <4>1. k \in 0..Len(q) - 1
        BY <2>1, <2>3, <3>2
      <4>. QED BY <4>1, InTree DEF Is
    <3>. QED BY <3>1, <3>2
  <2>7. IsPrefix(p, c) /\ IsPrefix(c, q)
    BY <1>1, <2>1, <2>2, <2>3, <2>5, PrefixEnds
  <2>8. c \in Children(t, p)
    BY <2>5, <2>6, <2>7 DEF Children, k
  <2>. HIDE DEF c, n
  <2>9. Last(c) = n
    <3>1. Last(Append(p, n)) = n
      BY <1>1, <2>2, Appended
    <3>. QED BY <2>5, <3>1
  <2>10. n \in dir_names(t, p)
    BY <1>2, <2>8, <2>9
  <2>. QED BY <2>5, <2>7, <2>10
<1>. QED BY <1>1, <1>4, <1>5

-----------------------------------------------------------------------------
(* The result of fs.remove *)

LEMMA Outermost ==
    ASSUME NEW S, NEW w \in Seq(S), w # <<>>
    PROVE  /\ IF Tail(w) = <<>> THEN Head(w) = w[Len(w)] ELSE Tail(w)[Len(Tail(w))] = w[Len(w)]
           /\ \A x \in S : /\ <<x>> \o Tail(w) # <<>>
                           /\ (<<x>> \o Tail(w))[Len(<<x>> \o Tail(w))] = IF Tail(w) = <<>> THEN x ELSE w[Len(w)]
           /\ \A x, y \in S : /\ <<x, y>> \o Tail(w) # <<>>
                              /\ (<<x, y>> \o Tail(w))[Len(<<x, y>> \o Tail(w))] = IF Tail(w) = <<>> THEN y ELSE w[Len(w)]
<1>1. /\ Len(w) \in Nat \ {0} /\ Head(w) = w[1] /\ Tail(w) \in Seq(S) /\ Len(Tail(w)) = Len(w) - 1
      /\ \A i \in 1..Len(w) - 1 : Tail(w)[i] = w[i + 1]
  BY Stack
<1>2. Tail(w) = <<>> <=> Len(w) = 1
  BY <1>1, EmptySeq, SMTT(25)
<1>3. IF Tail(w) = <<>> THEN Head(w) = w[Len(w)] ELSE Tail(w)[Len(Tail(w))] = w[Len(w)]
  <2>1. CASE Len(w) = 1
    BY <1>1, <1>2, <2>1
  <2>2. CASE Len(w) # 1
    <3>1. Len(w) - 1 \in 1..Len(w) - 1 /\ (Len(w) - 1) + 1 = Len(w)
      BY <1>1, <2>2
    <3>. QED BY <1>1, <1>2, <2>2, <3>1
  <2>. QED BY <2>1, <2>2
<1>4. ASSUME NEW x \in S
      PROVE  /\ <<x>> \o Tail(w) # <<>>
             /\ (<<x>> \o Tail(w))[Len(<<x>> \o Tail(w))] = IF Tail(w) = <<>> THEN x ELSE w[Len(w)]
  <2>. DEFINE v == <<x>> \o Tail(w)
  <2>1. v \in Seq(S) /\ Len(v) = Len(w) /\ v[1] = x /\ \A i \in 2..Len(w) : v[i] = w[i]
    BY Stack
  <2>. HIDE DEF v
  <2>2. v # <<>>
    BY <1>1, <2>1, EmptySeq
  <2>3. Len(w) # 1 => Len(w) \in 2..Len(w)
    BY <1>1
  <2>4. v[Len(v)] = IF Tail(w) = <<>> THEN x ELSE w[Len(w)]
    BY <1>2, <2>1, <2>3
  <2>. QED BY <2>2, <2>4 DEF v
<1>5. ASSUME NEW x \in S, NEW y \in S
      PROVE  /\ <<x, y>> \o Tail(w) # <<>>
             /\ (<<x, y>> \o Tail(w))[Len(<<x, y>> \o Tail(w))] = IF Tail(w) = <<>> THEN y ELSE w[Len(w)]
  <2>. DEFINE v == <<x, y>> \o Tail(w)
  <2>1. v \in Seq(S) /\ Len(v) = Len(w) + 1 /\ v[2] = y /\ \A i \in 3..Len(w) + 1 : v[i] = w[i - 1]
    BY Stack
  <2>. HIDE DEF v
  <2>2. v # <<>>
    BY <1>1, <2>1, EmptySeq
  <2>3. Len(w) # 1 => Len(w) + 1 \in 3..Len(w) + 1 /\ (Len(w) + 1) - 1 = Len(w)
    BY <1>1
  <2>4. v[Len(v)] = IF Tail(w) = <<>> THEN y ELSE w[Len(w)]
    BY <1>2, <2>1, <2>3
  <2>. QED BY <2>2, <2>4 DEF v
<1>. QED BY <1>3, <1>4, <1>5

\* One entry less.
LEMMA RemovedOne ==
    ASSUME FsTypeOK, IsTree(op.before), outcome = "running", RemovingInv, RemovedInv,
           work # <<>>, Holds(f.at), Leaf(tree, f.at), tree' = Cut(Place(f.at)),
           counted' = counted + 1, Return, Frozen
    PROVE  RemovedInv'
<1>. DEFINE t == op.before
<1>1. IsTree(tree) /\ op.a \in Seq(Name) /\ op' = op /\ work' = Tail(work) /\ counted \in Nat
  BY DEF FsTypeOK, Frozen, Return
<1>2. /\ f.at \in Seq(Name) /\ IsPrefix(op.a, f.at) /\ Place(f.at) = f.at /\ f.at \in DOMAIN tree
  BY RemovingTop DEF RemovingInv
<1>3. DOMAIN tree' = DOMAIN tree \ {f.at} /\ \A q \in DOMAIN tree' : tree'[q] = tree[q]
  BY <1>2, CutKeeps
<1>4. Cardinality(DOMAIN tree') = Cardinality(DOMAIN tree) - 1
  BY <1>1, <1>2, <1>3, FS_RemoveElement DEF IsTree
<1>5. /\ DOMAIN tree \subseteq DOMAIN t /\ \A q \in DOMAIN tree : tree[q] = t[q]
      /\ \A q \in DOMAIN t \ DOMAIN tree : IsPrefix(op.a, q)
      /\ counted = Cardinality(DOMAIN t) - Cardinality(DOMAIN tree)
      /\ work[Len(work)].at = op.a
  BY DEF RemovedInv
<1>6. Cardinality(DOMAIN t) \in Nat /\ Cardinality(DOMAIN tree) \in Nat
  BY <1>1, FS_CardinalityType DEF IsTree
<1>7. counted' = Cardinality(DOMAIN t) - Cardinality(DOMAIN tree')
  BY <1>4, <1>5, <1>6
<1>8. IF Tail(work) = <<>> THEN Head(work) = work[Len(work)] ELSE Tail(work)[Len(Tail(work))] = work[Len(work)]
  BY Outermost DEF FsTypeOK
<1>9. CASE Tail(work) = <<>>
  <2>1. f.at = op.a
    BY <1>5, <1>8, <1>9 DEF f
  <2>2. \A q \in DOMAIN tree' : ~IsPrefix(op.a, q)
    BY <1>3, <2>1 DEF Leaf
  <2>. QED BY <1>1, <1>2, <1>3, <1>5, <1>7, <1>9, <2>2 DEF RemovedInv
<1>10. CASE Tail(work) # <<>>
  <2>1. work'[Len(work')].at = op.a
    BY <1>1, <1>5, <1>8, <1>10
  <2>. QED BY <1>1, <1>2, <1>3, <1>5, <1>7, <1>10, <2>1 DEF RemovedInv
<1>. QED BY <1>9, <1>10

LEMMA RemovedOn ==
    ASSUME FsInv, outcome = "running", op.cmd = "remove", IsTree(op.before), RemovedInv, FsNext, outcome' = "running"
    PROVE  RemovedInv'
<1>1. FsTypeOK /\ RemovingInv /\ IsTree(tree)
  BY DEF FsInv, FsTypeOK
<1>2. work # <<>> /\ ~Finish /\ ~Fails /\ \A c \in FsCalls : ~Call(c)
  BY DEF FsNext, Finish, Fails, Call, MakeParent, MakeDir, OpenOld, OpenNew, Fill, Unlinked, EnterRemoved, RemoveEntry,
         RemoveDir, EnterCopied, CopyEntry, Copied, OpenCopy, CopyData, MakeLink, MakeRoom, Rename1, Across,
         EnterListed, SkipListed, ListEntry, Listed, Keep, Top
<1>3. Unlinked \/ EnterRemoved \/ RemoveEntry \/ RemoveDir
  <2>1. f.do \in {"drop", "rmdir"}
    BY <1>1, <1>2, RemovingTop DEF RemovingInv
  <2>. QED BY <1>2, <2>1 DEF FsNext, MakeParent, MakeDir, OpenOld, OpenNew, Fill,
                EnterCopied, CopyEntry, Copied, OpenCopy, CopyData, MakeLink, MakeRoom, Rename1, Across,
                EnterListed, SkipListed, ListEntry, Listed, Keep, Top
<1>4. /\ f \in FrameType /\ f.at \in Seq(Name) /\ (Holds(f.at) => Place(f.at) = f.at /\ f.at \in DOMAIN tree)
      /\ f.left \subseteq Name /\ f.depth \in Nat
  BY <1>1, <1>2, RemovingTop DEF RemovingInv
<1>5. CASE Unlinked
  <2>1. Holds(f.at) /\ Leaf(tree, f.at)
    BY <1>1, <1>4, <1>5, Held DEF Unlinked
  <2>. QED BY <1>1, <1>2, <1>5, <2>1, RemovedOne DEF Unlinked
<1>6. CASE RemoveDir
  <2>1. Holds(f.at) /\ Leaf(tree, f.at)
    BY <1>1, <1>4, <1>6, Leaves DEF RemoveDir, HoldsA
  <2>. QED BY <1>1, <1>2, <1>6, <2>1, RemovedOne DEF RemoveDir
<1>7. CASE EnterRemoved \/ RemoveEntry
  <2>1. tree' = tree /\ counted' = counted /\ op' = op
    BY <1>7 DEF EnterRemoved, RemoveEntry, Frozen, Same0
  <2>2. work' # <<>> /\ work'[Len(work')].at = op.a
    <3>1. work[Len(work)].at = op.a /\ work \in Seq(FrameType)
      BY <1>1, <1>2 DEF RemovedInv, FsTypeOK
    <3>2. Tail(work) = <<>> => f.at = op.a
      BY <1>2, <3>1, Outermost DEF f
    <3>3. CASE EnterRemoved
      <4>. DEFINE x == [f EXCEPT !.do = "rmdir", !.left = dir_names(tree, f.at)]
      <4>1. work' = <<x>> \o Tail(work)
        BY <3>3 DEF EnterRemoved, Calls
      <4>2. dir_names(tree, f.at) \subseteq Name
        BY <1>1, <1>4, Names, Marks
      <4>3. x \in FrameType /\ x.at = f.at
        BY <1>4, <4>2 DEF FrameType, Dos
      <4>. HIDE DEF x
      <4>. QED BY <1>2, <3>1, <3>2, <4>1, <4>3, Outermost
    <3>4. CASE RemoveEntry
      <4>1. PICK n \in f.left : work' = <<Pair("drop", <<>>, Append(f.at, n), f.depth + 1), Rest(n)>> \o Tail(work)
        BY <3>4 DEF RemoveEntry, Calls
      <4>. DEFINE x == Pair("drop", <<>>, Append(f.at, n), f.depth + 1)
                  y == Rest(n)
      <4>2. y \in FrameType /\ y.at = f.at
        BY <1>4 DEF Rest, FrameType
      <4>3. x \in FrameType
        <5>. DEFINE at == Append(f.at, n)
                    depth == f.depth + 1
        <5>1. at \in Seq(Name) /\ depth \in Nat /\ "drop" \in Dos /\ <<>> \in Seq(Int) /\ 0 \in Nat
          BY <1>4, AppendProperties, EmptySeq DEF Dos
        <5>. HIDE DEF at, depth
        <5>2. Pair("drop", <<>>, at, depth) \in FrameType
          BY <5>1, FrameTypes
        <5>. QED BY <5>2 DEF at, depth
      <4>. HIDE DEF x, y
      <4>4. work' = <<x, y>> \o Tail(work)
        BY <4>1 DEF x, y
      <4>. QED BY <1>2, <3>1, <3>2, <4>2, <4>3, <4>4, Outermost
    <3>. QED BY <1>7, <3>3, <3>4
  <2>. QED BY <1>2, <2>1, <2>2 DEF RemovedInv
<1>. QED BY <1>3, <1>5, <1>6, <1>7

\* When nothing is left to do, what the call reports is so.
LEMMA RemovedEnd ==
    ASSUME IsTree(tree), RemovedInv, work = <<>>
    PROVE  /\ tree = [q \in {x \in DOMAIN op.before : ~IsPrefix(op.a, x)} |-> op.before[q]]
           /\ counted = Cardinality(DOMAIN op.before) - Cardinality(DOMAIN tree)
<1>1. DOMAIN tree = {x \in DOMAIN op.before : ~IsPrefix(op.a, x)} /\ \A q \in DOMAIN tree : tree[q] = op.before[q]
  BY DEF RemovedInv
<1>2. tree = [q \in DOMAIN tree |-> tree[q]]
  BY DEF IsTree
<1>3. [q \in DOMAIN tree |-> tree[q]] = [q \in {x \in DOMAIN op.before : ~IsPrefix(op.a, x)} |-> op.before[q]]
  BY <1>1
<1>. QED BY <1>2, <1>3 DEF RemovedInv

-----------------------------------------------------------------------------
(* The result of fs.move *)

LEMMA SameFile ==
    ASSUME NEW t, IsTree(t), NEW p, Is(t, p, "file"), NEW u, NEW q \in DOMAIN u, u[q] = t[p], q \in Seq(Name)
    PROVE  Same(t, p, u, q)
<1>1. p \in Seq(Name) /\ Leaf(t, p)
  BY InTree, Leaves DEF Is
<1>2. ASSUME NEW x \in DOMAIN t, IsPrefix(p, x)
      PROVE  Onto(p, q, x) \in DOMAIN u /\ u[Onto(p, q, x)] = t[x]
  <2>1. x = p
    BY <1>1, <1>2 DEF Leaf
  <2>2. IsPrefix(p, p) /\ Onto(p, q, p) = q
    BY <1>1, PrefixOrder, OntoOrder
  <2>. QED BY <2>1, <2>2
<1>. QED BY <1>2 DEF Same, Onto

LEMMA SameSelf ==
    ASSUME NEW t, IsTree(t), NEW p \in Seq(Name)
    PROVE  Same(t, p, t, p)
<1>1. ASSUME NEW x \in DOMAIN t, IsPrefix(p, x) PROVE Onto(p, p, x) = x
  BY <1>1, InTree, OntoOrder
<1>. QED BY <1>1 DEF Same, Onto

LEMMA RenamedOn ==
    ASSUME FsInv, outcome = "running", op.cmd = "move", IsTree(op.before), MovedInv, Rename1
    PROVE  MovedInv'
<1>. DEFINE src == op.a
            dst == op.b
<1>1. work # <<>> /\ f.do = "rename" /\ op' = op /\ work' = Tail(work) /\ FsTypeOK /\ MovingInv
  BY DEF Rename1, Top, Return, Frozen, FsInv, Writes
<1>2. /\ IsTree(tree) /\ src \in Seq(Name) /\ dst \in Seq(Name) /\ src \in Seq(Int) /\ dst \in Seq(Int)
      /\ f.from = src /\ f.at = dst /\ f = work[1] /\ Len(work) = 1 /\ src \in DOMAIN tree /\ Lexical(tree, dst)
  BY <1>1, MovingTop
<1>3. /\ Holds(src) /\ Place(src) \notin {<<>>, Mount} /\ Parent(dst)
      /\ IsPrefix(Place(src), Place(dst)) => Place(src) = Place(dst)
      /\ Place(dst) \in DOMAIN tree /\ Place(src) # Place(dst) =>
            IF HoldsA(src, "dir") THEN HoldsA(dst, "dir") /\ Children(tree, Place(dst)) = {}
            ELSE ~HoldsA(dst, "dir")
      /\ tree' = Renamed(Place(src), Place(dst))
  BY <1>2 DEF Rename1
<1>4. Place(src) = src /\ Place(dst) = dst /\ dst # <<>> /\ Is(tree, Front(dst), "dir") /\ src # <<>>
  <2>1. Lexical(tree, src)
    BY <1>2, OfTree
  <2>. QED BY <1>2, <1>3, <2>1, There
<1>5. ASSUME dst \in DOMAIN tree, src # dst PROVE Leaf(tree, dst)
  <2>1. Children(tree, dst) = {} \/ ~HoldsA(dst, "dir")
    BY <1>3, <1>4, <1>5
  <2>2. Children(tree, dst) = {} \/ ~Is(tree, dst, "dir")
    BY <1>3, <1>4, <1>5, <2>1 DEF HoldsA, Holds, Is
  <2>. QED BY <1>2, <1>5, <2>2, Leaves
<1>6. tree = op.before
  BY <1>1, <1>2 DEF MovedInv
<1>. HIDE DEF src, dst
<1>7. /\ DOMAIN Renamed(src, dst) = Stay(src, dst) \cup {Onto(src, dst, m) : m \in Under(tree, src)}
      /\ \A m \in Under(tree, src) : Renamed(src, dst)[Onto(src, dst, m)] = tree[m]
  <2>1. IsPrefix(src, dst) => src = dst
    BY <1>3, <1>4
  <2>2. dst \in DOMAIN tree /\ src # dst => Leaf(tree, dst)
    BY <1>5
  <2>. QED BY <1>2, <1>4, <2>1, <2>2, RenamedTree
<1>8. tree' = Renamed(src, dst)
  BY <1>3, <1>4
<1>9. Same(tree, src, tree', dst)
  BY <1>7, <1>8 DEF Same, Onto, Under
<1>10. ASSUME ~IsPrefix(dst, src) PROVE src \notin DOMAIN tree'
  <2>1. src \notin Stay(src, dst)
    BY <1>2, PrefixOrder DEF Stay
  <2>2. ASSUME NEW m \in Under(tree, src), src = Onto(src, dst, m) PROVE FALSE
    <3>1. m \in Seq(Name) /\ IsPrefix(src, m)
      BY <1>2, InTree DEF Under
    <3>2. IsPrefix(dst, Onto(src, dst, m))
      BY <1>2, <3>1, OntoElements
    <3>. QED BY <1>10, <2>2, <3>2
  <2>. QED BY <1>7, <1>8, <2>1, <2>2
<1>11. work' = <<>>
  <2>1. Tail(work) \in Seq(FrameType) /\ Len(Tail(work)) = 0
    BY <1>1, <1>2, Stack DEF FsTypeOK
  <2>. QED BY <1>1, <2>1, EmptySeq
<1>12. /\ Same(op.before, op.a, tree', op.b)
       /\ Apart => op.a \notin DOMAIN tree'
  BY <1>6, <1>9, <1>10 DEF src, dst, Apart
<1>. QED BY <1>1, <1>11, <1>12 DEF MovedInv, Apart

\* The copy that stands for a rename across devices.
LEMMA AcrossOn ==
    ASSUME FsInv, FsInv', outcome = "running", outcome' = "running", op.cmd = "move", IsTree(op.before), MovedInv,
           Across \/ OpenCopy \/ CopyData \/ Unlinked
    PROVE  MovedInv'
<1>. DEFINE t == op.before
<1>1. work # <<>> /\ op' = op /\ FsTypeOK /\ MovingInv /\ (f.do # "rename" \/ Across)
  BY DEF Across, OpenCopy, CopyData, Unlinked, Top, Frozen, FsInv, Writes
<1>S. work \in Seq(FrameType) /\ (work' # <<>> => work'[1] = Head(work'))
  <2>1. work \in Seq(FrameType)
    BY <1>1 DEF FsTypeOK
  <2>2. work' \in Seq(FrameType)
    BY DEF FsInv, FsTypeOK
  <2>. QED BY <2>1, <2>2, Stack
<1>T. ASSUME work' # <<>>, work'[1].do # "rename", op.a # op.b, Is(t, op.a, "file"), Same(t, op.a, tree', op.a),
             work'[1].do = "unlink" => op.b \in DOMAIN tree' /\ tree'[op.b] = t[op.a]
      PROVE  MovedInv'
  BY <1>1, <1>T DEF MovedInv
<1>2. /\ IsTree(tree) /\ op.a \in Seq(Name) /\ op.b \in Seq(Name) /\ op.a \in Seq(Int) /\ op.b \in Seq(Int)
      /\ f = work[1] /\ f \in FrameType
      /\ \/ /\ f.do = "rename" /\ f.from = op.a /\ f.at = op.b /\ Len(work) = 1
            /\ op.a \in DOMAIN tree /\ ~Is(tree, op.a, "link") /\ Lexical(tree, op.b)
         \/ f.do = "file" /\ f.from = op.a /\ f.at = op.b /\ Len(work) = 2 /\ Unlinking(2) /\ Lexical(tree, op.b)
         \/ f.do = "data" /\ f.from = op.a /\ f.at = op.b /\ Len(work) = 2 /\ Unlinking(2) /\ Is(tree, op.b, "file")
         \/ f.do = "unlink" /\ f.at = op.a /\ Len(work) = 1 /\ Is(tree, op.a, "file")
  BY <1>1, MovingTop
<1>3. /\ Same(t, op.a, tree, op.a)
      /\ f.do = "rename" => tree = t
      /\ f.do # "rename" => op.a # op.b /\ Is(t, op.a, "file")
      /\ f.do = "unlink" => op.b \in DOMAIN tree /\ tree[op.b] = t[op.a]
  BY <1>1, <1>2 DEF MovedInv
<1>4. Is(t, op.a, "file") => op.a \in DOMAIN tree /\ tree[op.a] = t[op.a]
  <2>1. IsPrefix(op.a, op.a) /\ Onto(op.a, op.a, op.a) = op.a
    BY <1>2, PrefixOrder, OntoOrder
  <2>. QED BY <1>3, <2>1 DEF Same, Onto, Is
<1>5. CASE Across
  <2>1. /\ tree' = tree /\ f.do = "rename" /\ HoldsA(op.a, "file") /\ OnMount(Place(op.a)) # OnMount(Place(op.b))
        /\ work' = <<Pair("file", op.a, op.b, 0), Frame("unlink", op.a)>> \o Tail(work)
    BY <1>2, <1>5 DEF Across, Top, Calls, across
  <2>2. op.a # op.b
    BY <2>1
  <2>3. Is(t, op.a, "file")
    <3>1. Place(op.a) = op.a
      BY <1>2, <2>1, OfTree, There DEF HoldsA
    <3>. QED BY <1>3, <2>1, <3>1 DEF HoldsA, Holds, Is
  <2>4. work' # <<>> /\ work'[1].do = "file"
    <3>. DEFINE x == Pair("file", op.a, op.b, 0)
                y == Frame("unlink", op.a)
    <3>1. x \in FrameType /\ x.do = "file"
      <4>1. "file" \in Dos /\ 0 \in Nat
        BY DEF Dos
      <4>. QED BY <1>2, <4>1, FrameTypes
    <3>2. y \in FrameType
      <4>1. "unlink" \in Dos /\ 0 \in Nat /\ <<>> \in Seq(Int)
        BY EmptySeq DEF Dos
      <4>. QED BY <1>2, <4>1, FrameTypes
    <3>. HIDE DEF x, y
    <3>3. work' = <<x, y>> \o Tail(work)
      BY <2>1 DEF x, y
    <3>4. /\ (<<x, y>> \o Tail(work)) \in Seq(FrameType) /\ Len(<<x, y>> \o Tail(work)) = Len(work) + 1
          /\ (<<x, y>> \o Tail(work))[1] = x
      BY <1>1, <1>S, <3>1, <3>2, Stack
    <3>5. Len(work') = Len(work) + 1 /\ work'[1] = x
      BY <3>3, <3>4
    <3>6. Len(work') # 0
      BY <1>1, <1>S, <3>5, Stack
    <3>. QED BY <3>1, <3>5, <3>6, EmptySeq
  <2>5. Same(t, op.a, tree', op.a)
    BY <1>3, <2>1
  <2>. QED BY <1>T, <2>2, <2>3, <2>4, <2>5
<1>6. \/ op.a # op.b /\ Is(t, op.a, "file") /\ op.a \in DOMAIN tree /\ tree[op.a] = t[op.a]
      \/ Across
  BY <1>1, <1>3, <1>4
<1>7. ASSUME op.a \in DOMAIN tree', tree'[op.a] = t[op.a], ~Across PROVE Same(t, op.a, tree', op.a)
  <2>. DEFINE u == tree'
  <2>1. op.a \in DOMAIN u /\ u[op.a] = t[op.a]
    BY <1>7
  <2>2. Is(t, op.a, "file")
    BY <1>6, <1>7
  <2>. HIDE DEF u
  <2>3. Same(t, op.a, u, op.a)
    BY <1>2, <2>1, <2>2, SameFile
  <2>. QED BY <2>3 DEF u
<1>8. CASE OpenCopy
  <2>. DEFINE x == Pair("data", os_realpath(tree, f.from), Place(f.at), 0)
  <2>1. /\ f.do = "file" /\ (Free(op.b) \/ HoldsA(op.b, "file")) /\ tree' = Put(Place(op.b), FileOf(<<>>))
        /\ work' = <<x>> \o Tail(work) /\ ~Across
    BY <1>2, <1>8 DEF OpenCopy, Across, Top, Calls
  <2>2. Place(op.b) = op.b
    BY <1>2, <2>1, There DEF Free, HoldsA
  <2>3. tree'[op.a] = t[op.a] /\ op.a \in DOMAIN tree'
    BY <1>6, <2>1, <2>2 DEF Put
  <2>4. x.do = "data"
    BY DEF Pair, Frame
  <2>. HIDE DEF x
  <2>5. work' # <<>> /\ work'[1].do = "data"
    <3>1. Tail(work) \in Seq(FrameType)
      BY <1>1, <1>S, Stack
    <3>2. work' # <<>> /\ Head(work') = x
      BY <2>1, <3>1, Ahead
    <3>. QED BY <1>S, <2>4, <3>2
  <2>. QED BY <1>6, <1>7, <1>T, <2>1, <2>3, <2>5
<1>9. CASE CopyData
  <2>1. f.do = "data" /\ tree' = Put(op.b, FileOf(tree[op.a].data)) /\ work' = Tail(work) /\ ~Across
    BY <1>2, <1>9 DEF CopyData, Across, Top, Return
  <2>2. FileOf(tree[op.a].data) = t[op.a]
    <3>1. t[op.a] \in Node /\ t[op.a].kind = "file"
      BY <1>6, <2>1, InTree DEF Is
    <3>. QED BY <1>6, <2>1, <3>1, Nodes
  <2>3. /\ tree'[op.a] = t[op.a] /\ op.a \in DOMAIN tree'
        /\ tree'[op.b] = t[op.a] /\ op.b \in DOMAIN tree'
    BY <1>6, <2>1, <2>2 DEF Put
  <2>4. work' # <<>> /\ work'[1] = work[2]
    <3>. DEFINE s == Tail(work)
    <3>1. /\ s \in Seq(FrameType) /\ Len(s) = Len(work) - 1
          /\ \A i \in 1..Len(work) - 1 : s[i] = work[i + 1]
      BY <1>1, <1>S, Stack
    <3>2. Len(work) = 2 /\ work' = s
      BY <1>2, <2>1
    <3>. HIDE DEF s
    <3>3. 1 \in 1..Len(work) - 1 /\ 1 + 1 = 2 /\ Len(work) - 1 = 1
      BY <3>2
    <3>4. s[1] = work[2] /\ Len(s) = 1
      BY <3>1, <3>3
    <3>5. s # <<>>
      <4>1. s \in Seq(FrameType)
        BY <3>1
      <4>2. Len(s) # 0
        BY <3>4
      <4>. QED BY <4>1, <4>2, EmptySeq
    <3>. QED BY <3>2, <3>4, <3>5
  <2>5. work'[1].do = "unlink"
    BY <1>2, <2>1, <2>4 DEF Unlinking
  <2>. QED BY <1>6, <1>7, <1>T, <2>1, <2>3, <2>4, <2>5
<1>10. CASE Unlinked
  <2>1. f.do = "unlink" /\ f.at = op.a /\ Holds(op.a) /\ tree' = Cut(Place(op.a)) /\ work' = Tail(work) /\ Len(work) = 1 /\ ~Across
    BY <1>2, <1>10 DEF Unlinked, Across, Top, Return
  <2>2. Place(op.a) = op.a
    BY <1>2, <1>6, <2>1, OfTree, There
  <2>3. op.a \notin DOMAIN tree' /\ op.b \in DOMAIN tree' /\ tree'[op.b] = t[op.a]
    BY <1>3, <2>1, <2>2 DEF Cut
  <2>4. Same(t, op.a, tree', op.b)
    <3>. DEFINE u == tree'
    <3>1. op.b \in DOMAIN u /\ u[op.b] = t[op.a] /\ Is(t, op.a, "file")
      BY <1>3, <2>1, <2>3
    <3>. HIDE DEF u
    <3>2. Same(t, op.a, u, op.b)
      BY <1>2, <3>1, SameFile
    <3>. QED BY <3>2 DEF u
  <2>5. work' = <<>>
    <3>1. Tail(work) \in Seq(FrameType) /\ Len(Tail(work)) = 0
      BY <1>1, <1>S, <2>1, Stack
    <3>. QED BY <2>1, <3>1, EmptySeq
  <2>6. op.a \notin DOMAIN tree'
    BY <2>3
  <2>. QED BY <1>1, <2>4, <2>5, <2>6 DEF MovedInv
<1>. QED BY <1>5, <1>8, <1>9, <1>10

LEMMA MovedOn ==
    ASSUME FsInv, FsInv', outcome = "running", op.cmd = "move", IsTree(op.before), MovedInv, FsNext, outcome' = "running"
    PROVE  MovedInv'
<1>1. FsTypeOK /\ MovingInv
  BY DEF FsInv, Writes
<1>2. work # <<>> /\ ~Finish /\ ~Fails /\ \A c \in FsCalls : ~Call(c)
  BY DEF FsNext, Finish, Fails, Call, MakeParent, MakeDir, OpenOld, OpenNew, Fill, Unlinked, EnterRemoved, RemoveEntry,
         RemoveDir, EnterCopied, CopyEntry, Copied, OpenCopy, CopyData, MakeLink, MakeRoom, Rename1, Across,
         EnterListed, SkipListed, ListEntry, Listed, Keep, Top
<1>3. Rename1 \/ Across \/ OpenCopy \/ CopyData \/ Unlinked
  <2>1. f.do \in {"rename", "file", "data", "unlink"}
    BY <1>1, <1>2, MovingTop
  <2>. QED BY <1>2, <2>1 DEF FsNext, MakeParent, MakeDir, OpenOld, OpenNew, Fill, EnterRemoved, RemoveEntry,
                RemoveDir, EnterCopied, CopyEntry, Copied, MakeLink, MakeRoom,
                EnterListed, SkipListed, ListEntry, Listed, Keep, Top
<1>. QED BY <1>3, RenamedOn, AcrossOn

-----------------------------------------------------------------------------
(* The result of fs.copy *)

LEMMA OntoNext ==
    ASSUME NEW S, NEW src \in Seq(S), NEW dst \in Seq(S), NEW q \in Seq(S), IsPrefix(src, q), NEW n \in S
    PROVE  Onto(src, dst, Append(q, n)) = Append(Onto(src, dst, q), n)
<1>. DEFINE r == Append(q, n)
            x == Onto(src, dst, r)
            y == Onto(src, dst, q)
            k == Len(dst) + Len(q) - Len(src)
<1>1. /\ r \in Seq(S) /\ Len(r) = Len(q) + 1 /\ r[Len(q) + 1] = n /\ \A i \in 1..Len(q) : r[i] = q[i]
      /\ Len(q) \in Nat /\ Len(src) \in Nat /\ Len(dst) \in Nat
  BY AppendProperties, LenProperties
<1>2. IsPrefix(src, r) /\ Len(src) <= Len(q)
  BY PrefixEnds, Below
<1>3. /\ x \in Seq(S) /\ Len(x) = Len(dst) + Len(r) - Len(src)
      /\ \A i \in 1..Len(dst) + Len(r) - Len(src) : x[i] = IF i <= Len(dst) THEN dst[i] ELSE r[i - Len(dst) + Len(src)]
  <2>1. ASSUME NEW s \in Seq(S), IsPrefix(src, s)
        PROVE  /\ Onto(src, dst, s) \in Seq(S) /\ Len(Onto(src, dst, s)) = Len(dst) + Len(s) - Len(src)
               /\ \A i \in 1..Len(dst) + Len(s) - Len(src) :
                    Onto(src, dst, s)[i] = IF i <= Len(dst) THEN dst[i] ELSE s[i - Len(dst) + Len(src)]
    BY <2>1, OntoElements
  <2>. QED BY <1>1, <1>2, <2>1
<1>. HIDE DEF r, x
<1>4. /\ y \in Seq(S) /\ Len(y) = k
      /\ \A i \in 1..k : y[i] = IF i <= Len(dst) THEN dst[i] ELSE q[i - Len(dst) + Len(src)]
  BY OntoElements
<1>5. k \in Nat /\ Len(dst) <= k /\ Len(x) = k + 1 /\ Len(dst) + Len(r) - Len(src) = k + 1
  BY <1>1, <1>2, <1>3
<1>. HIDE DEF y
<1>6. /\ Append(y, n) \in Seq(S) /\ Len(Append(y, n)) = k + 1 /\ Append(y, n)[k + 1] = n
      /\ \A i \in 1..k : Append(y, n)[i] = y[i]
  BY <1>4, AppendProperties
<1>7. ASSUME NEW i \in 1..k + 1 PROVE x[i] = Append(y, n)[i]
  <2>1. x[i] = IF i <= Len(dst) THEN dst[i] ELSE r[i - Len(dst) + Len(src)]
    BY <1>3, <1>5
  <2>2. CASE i = k + 1
    <3>1. ~(i <= Len(dst)) /\ i - Len(dst) + Len(src) = Len(q) + 1
      BY <1>1, <1>5, <2>2
    <3>. QED BY <1>1, <1>6, <2>1, <2>2, <3>1
  <2>3. CASE i # k + 1
    <3>1. i \in 1..k
      BY <1>5, <2>3
    <3>2. i > Len(dst) => i - Len(dst) + Len(src) \in 1..Len(q)
      BY <1>1, <1>2, <3>1
    <3>3. i > Len(dst) => r[i - Len(dst) + Len(src)] = q[i - Len(dst) + Len(src)]
      BY <1>1, <3>2
    <3>4. i <= Len(dst) \/ i > Len(dst)
      BY <1>1, <3>1
    <3>. QED BY <1>1, <1>4, <1>6, <2>1, <3>1, <3>3, <3>4
  <2>. QED BY <2>2, <2>3
<1>. HIDE DEF k
<1>8. x = Append(y, n)
  BY <1>3, <1>5, <1>6, <1>7, SeqEqual
<1>. QED BY <1>8 DEF x, y, r

LEMMA Untouched ==
    ASSUME NEW p, p \notin Touched
    PROVE  (p \in DOMAIN tree <=> p \in DOMAIN tree') /\ (p \in DOMAIN tree => tree'[p] = tree[p])
BY DEF Touched

\* A copy writes at its destination only.
LEMMA SourceStays ==
    ASSUME op.a \in Seq(Name), op.b \in Seq(Name), IsTree(op.before), IsTree(tree), IsTree(tree'), Apart, SourceKept,
           op' = op, NEW at \in Seq(Name), IsPrefix(op.b, at), Touched \subseteq {at}
    PROVE  SourceKept'
<1>1. ASSUME NEW q \in Seq(Name), IsPrefix(op.a, q) PROVE q \notin Touched
  <2>1. q # at
    BY <1>1, PrefixOrder DEF Apart
  <2>. QED BY <2>1
<1>2. ASSUME NEW q \in DOMAIN tree', IsPrefix(op.a, q) PROVE q \in DOMAIN op.before
  <2>1. q \in Seq(Name)
    BY InTree
  <2>. QED BY <1>1, <1>2, <2>1, Untouched DEF SourceKept
<1>3. ASSUME NEW q \in Before(op.a) PROVE q \in DOMAIN tree' /\ tree'[q] = op.before[q]
  <2>1. q \in Seq(Name) /\ IsPrefix(op.a, q)
    BY InTree DEF Before
  <2>. QED BY <1>1, <2>1, Untouched DEF SourceKept
<1>. QED BY <1>2, <1>3 DEF SourceKept, Before

\* The frames that come in the place of the innermost one await what it awaited,
\* unless that has got its copy.
LEMMA CopiedBy ==
    ASSUME FsTypeOK, IsTree(op.before), op.a \in Seq(Name), op.b \in Seq(Name), Apart, CopiedInv, SourceKept', op' = op,
           work # <<>>, NEW new, Range(work') \subseteq new \cup Range(Tail(work)), new \subseteq Range(work'),
           Range(Tail(work)) \subseteq Range(work'), \A g \in new : Copies(g),
           \A x \in Before(op.a) : Awaits(f, x) \/ Copy(x) \in Touched => HasCopy(x)' \/ \E g \in new : Awaits(g, x)
    PROVE  CopiedInv'
<1>1. Range(work) = {f} \cup Range(Tail(work))
  BY Ranges DEF FsTypeOK, f
<1>2. /\ \A g \in Range(work) : Copies(g)
      /\ \A x \in Before(op.a) : HasCopy(x) \/ \E g \in Range(work) : Awaits(g, x)
  BY DEF CopiedInv
<1>3. \A g \in Range(work') : Copies(g)
  BY <1>1, <1>2
<1>4. ASSUME NEW x \in Before(op.a) PROVE HasCopy(x)' \/ \E g \in Range(work') : Awaits(g, x)
  <2>1. CASE Awaits(f, x) \/ Copy(x) \in Touched
    BY <2>1
  <2>2. CASE ~Awaits(f, x) /\ Copy(x) \notin Touched
    <3>1. CASE HasCopy(x)
      BY <2>2, <3>1, Untouched DEF HasCopy, Copy
    <3>2. CASE \E g \in Range(work) : Awaits(g, x)
      BY <1>1, <2>2, <3>2
    <3>. QED BY <1>2, <3>1, <3>2
  <2>. QED BY <2>1, <2>2
<1>5. /\ \A g : Copies(g) => Copies(g)'
      /\ \A g, x : Awaits(g, x) => Awaits(g, x)'
      /\ Before(op.a)' = Before(op.a)
  BY DEF Copies, Awaits, Before, Copy
<1>6. (\A g \in Range(work) : Copies(g))'
  BY <1>3, <1>5
<1>7. (\A x \in Before(op.a) : HasCopy(x) \/ \E g \in Range(work) : Awaits(g, x))'
  BY <1>4, <1>5
<1>. QED BY <1>6, <1>7 DEF CopiedInv

\* What the innermost frame says of the source.
LEMMA CopiedTop ==
    ASSUME FsTypeOK, IsTree(op.before), op.a \in Seq(Name), op.b \in Seq(Name), Apart, CopiedInv, work # <<>>
    PROVE  /\ SourceKept /\ Copies(f) /\ work \in Seq(FrameType) /\ Tail(work) \in Seq(FrameType)
           /\ f.do \in {"tree", "entries", "file", "data"} =>
                /\ f.from \in Before(op.a) /\ f.at = Copy(f.from) /\ f.from \in DOMAIN tree /\ f.from \in Seq(Name)
                /\ IsPrefix(op.a, f.from) /\ tree[f.from] = op.before[f.from]
                /\ ~Is(tree, f.from, "link") /\ os_realpath(tree, f.from) = f.from
                /\ IF f.do \in {"tree", "entries"} THEN op.before[f.from] = Dir
                   ELSE op.before[f.from] = FileOf(op.before[f.from].data)
           /\ f.do \in {"tree", "entries", "file", "data"} => \A x \in Before(op.a) : Copy(x) = f.at => x = f.from
<1>1. SourceKept /\ Copies(f) /\ work \in Seq(FrameType) /\ Tail(work) \in Seq(FrameType) /\ IsTree(tree)
  <2>1. work \in Seq(FrameType) /\ IsTree(tree)
    BY DEF FsTypeOK
  <2>2. Tail(work) \in Seq(FrameType) /\ f \in Range(work)
    BY <2>1, Stack, Ranges DEF f
  <2>3. SourceKept /\ Copies(f)
    BY <2>2 DEF CopiedInv
  <2>. QED BY <2>1, <2>2, <2>3
<1>2. ASSUME f.do \in {"tree", "entries", "file", "data"}
      PROVE  /\ f.from \in Before(op.a) /\ f.at = Copy(f.from) /\ f.from \in DOMAIN tree /\ f.from \in Seq(Name)
             /\ IsPrefix(op.a, f.from) /\ tree[f.from] = op.before[f.from] /\ op.before[f.from] \in Node
             /\ op.before[f.from].kind = IF f.do \in {"tree", "entries"} THEN "dir" ELSE "file"
  <2>1. /\ f.from \in Before(op.a) /\ f.at = Copy(f.from)
        /\ op.before[f.from].kind = IF f.do \in {"tree", "entries"} THEN "dir" ELSE "file"
    BY <1>1, <1>2 DEF Copies
  <2>2. f.from \in DOMAIN op.before /\ IsPrefix(op.a, f.from)
    BY <2>1 DEF Before
  <2>. QED BY <1>1, <2>1, <2>2, InTree DEF SourceKept
<1>3. ASSUME f.do \in {"tree", "entries", "file", "data"}
      PROVE  /\ ~Is(tree, f.from, "link") /\ os_realpath(tree, f.from) = f.from
             /\ IF f.do \in {"tree", "entries"} THEN op.before[f.from] = Dir
                ELSE op.before[f.from] = FileOf(op.before[f.from].data)
  <2>1. ~Is(tree, f.from, "link")
    BY <1>2, <1>3 DEF Is
  <2>2. os_realpath(tree, f.from) = f.from
    BY <1>1, <1>2, <1>3, <2>1, Itself
  <2>. QED BY <1>2, <1>3, <2>1, <2>2, Nodes
<1>4. ASSUME f.do \in {"tree", "entries", "file", "data"}, NEW x \in Before(op.a), Copy(x) = f.at PROVE x = f.from
  <2>1. x \in Seq(Name) /\ IsPrefix(op.a, x)
    BY InTree DEF Before
  <2>. QED BY <1>1, <1>2, <1>4, <2>1, OntoOrder DEF Copy
<1>. QED BY <1>1, <1>2, <1>3, <1>4

LEMMA CopiedWith ==
    ASSUME FsInv, FsInv', outcome = "running", op.cmd = "copy", IsTree(op.before), Apart, CopiedInv,
           work # <<>>, op' = op, Touched \subseteq {f.at}, NEW new,
           \/ new = {} /\ work' = Tail(work)
           \/ new = {f} /\ work' = work
           \/ \E x \in FrameType : new = {x} /\ work' = <<x>> \o Tail(work)
           \/ \E x, y \in FrameType : new = {x, y} /\ work' = <<x, y>> \o Tail(work),
           \A g \in new : Copies(g),
           \A x \in Before(op.a) : Awaits(f, x) \/ Copy(x) \in Touched => HasCopy(x)' \/ \E g \in new : Awaits(g, x)
    PROVE  CopiedInv'
<1>1. FsTypeOK /\ CopyingInv /\ op.a \in Seq(Name) /\ op.b \in Seq(Name) /\ IsTree(tree) /\ work \in Seq(FrameType)
  BY DEF FsInv, FsTypeOK, Writes
<1>2. IsTree(tree')
  BY DEF FsInv, FsTypeOK
<1>3. f.at \in Seq(Name) /\ IsPrefix(op.b, f.at)
  BY <1>1, CopyingTop
<1>4. SourceKept /\ Tail(work) \in Seq(FrameType)
  BY <1>1, CopiedTop
<1>5. SourceKept'
  <2>. DEFINE at == f.at
  <2>1. at \in Seq(Name) /\ IsPrefix(op.b, at) /\ Touched \subseteq {at}
    BY <1>3
  <2>. HIDE DEF at
  <2>. QED BY <1>1, <1>2, <1>4, <2>1, SourceStays
<1>6. Range(work') = new \cup Range(Tail(work))
  <2>. DEFINE t == Tail(work)
  <2>1. t \in Seq(FrameType) /\ Range(work) = {f} \cup Range(t)
    BY <1>1, <1>4, Ranges DEF f
  <2>. HIDE DEF t
  <2>2. ASSUME NEW x \in FrameType, NEW y \in FrameType, new = {x, y}, work' = <<x, y>> \o t
        PROVE  Range(work') = new \cup Range(t)
    <3>1. \A e : e \in Range(<<x, y>> \o t) <=> e = x \/ e = y \/ e \in Range(t)
      BY <2>1, RangeOfTwo
    <3>2. \A e : e \in Range(work') <=> e \in new \cup Range(t)
      BY <2>2, <3>1
    <3>. QED BY <3>2
  <2>3. ASSUME NEW x \in FrameType, new = {x}, work' = <<x>> \o t PROVE Range(work') = new \cup Range(t)
    BY <2>1, <2>3, Ranges
  <2>. QED BY <2>1, <2>2, <2>3 DEF t
<1>. QED BY <1>1, <1>5, <1>6, CopiedBy

LEMMA EnterCopiedOn ==
    ASSUME FsInv, FsInv', outcome = "running", op.cmd = "copy", IsTree(op.before), Apart, CopiedInv, EnterCopied
    PROVE  CopiedInv'
<1>. DEFINE x == [f EXCEPT !.do = "entries", !.left = dir_names(tree', f.from)]
<1>1. /\ work # <<>> /\ f.do = "tree" /\ op' = op /\ work' = <<x>> \o Tail(work)
      /\ \/ Free(f.at) /\ tree' = Put(Place(f.at), Dir)
         \/ HoldsA(f.at, "dir") /\ tree' = tree
  BY DEF EnterCopied, Top, Calls, Frozen
<1>2. FsTypeOK /\ CopyingInv /\ op.a \in Seq(Name) /\ op.b \in Seq(Name) /\ IsTree(tree)
  BY DEF FsInv, FsTypeOK, Writes
<1>3. IsTree(tree') /\ work' \in Seq(FrameType)
  BY DEF FsInv, FsTypeOK
<1>4. /\ f \in FrameType /\ f.at \in Seq(Name) /\ IsPrefix(op.b, f.at)
      /\ Parent(f.at) => Place(f.at) = f.at
      /\ Holds(f.at) => Place(f.at) = f.at /\ f.at \in DOMAIN tree
  BY <1>1, <1>2, CopyingTop
<1>5. Touched \subseteq {f.at} /\ f.at \in DOMAIN tree' /\ tree'[f.at] = Dir
  <2>1. CASE Free(f.at) /\ tree' = Put(Place(f.at), Dir)
    <3>1. Place(f.at) = f.at
      BY <1>4, <2>1 DEF Free
    <3>2. tree' = Put(f.at, Dir)
      BY <2>1, <3>1
    <3>3. f.at \in DOMAIN tree' /\ tree'[f.at] = Dir
      BY <3>2 DEF Put
    <3>. QED BY <3>2, <3>3, TouchedAt
  <2>2. CASE HoldsA(f.at, "dir") /\ tree' = tree
    <3>1. f.at \in DOMAIN tree /\ tree[f.at].kind = "dir"
      BY <1>4, <2>2 DEF HoldsA
    <3>2. tree[f.at] = Dir
      BY <1>2, <3>1, InTree, Nodes
    <3>. QED BY <2>2, <3>1, <3>2, TouchedAt
  <2>. QED BY <1>1, <2>1, <2>2
<1>6. /\ Copies(f) /\ f.from \in Before(op.a) /\ f.at = Copy(f.from) /\ f.from \in Seq(Name)
      /\ op.before[f.from] = Dir /\ Tail(work) \in Seq(FrameType) /\ SourceKept
      /\ \A y \in Before(op.a) : Copy(y) = f.at => y = f.from
  BY <1>1, <1>2, CopiedTop
<1>7. x \in FrameType
  <2>1. Head(work') = x
    BY <1>1, <1>6, Ahead
  <2>2. work' # <<>>
    BY <1>1, <1>6, Ahead
  <2>. QED BY <1>3, <2>1, <2>2, Stack
<1>8. Copies(x)
  BY <1>1, <1>6 DEF Copies, Dir
<1>9. SourceKept'
  BY <1>1, <1>2, <1>3, <1>4, <1>5, <1>6, SourceStays
<1>10. ASSUME NEW y \in Before(op.a), Awaits(f, y) \/ Copy(y) \in Touched
       PROVE  HasCopy(y)' \/ Awaits(x, y)
  <2>1. IsPrefix(f.from, y)
    <3>1. CASE Awaits(f, y)
      BY <1>1, <3>1 DEF Awaits
    <3>2. CASE Copy(y) \in Touched
      BY <1>5, <1>6, <3>2, PrefixOrder
    <3>. QED BY <1>10, <3>1, <3>2
  <2>2. CASE y = f.from
    BY <1>1, <1>5, <1>6, <2>2 DEF HasCopy, Copy
  <2>3. CASE y # f.from
    <3>. DEFINE u == tree'
    <3>1. Before(op.a)' = Before(op.a) /\ op.before' = op.before
      BY <1>1 DEF Before
    <3>2. y \in DOMAIN u /\ f.from \in DOMAIN u /\ u[f.from] = Dir
      BY <1>6, <1>9, <3>1 DEF SourceKept
    <3>3. ~Is(u, f.from, "link") /\ IsTree(u)
      BY <1>3, <3>2 DEF Is, Dir
    <3>. HIDE DEF u
    <3>4. \E n \in dir_names(u, f.from) : IsPrefix(Append(f.from, n), y)
      BY <2>1, <2>3, <3>2, <3>3, FirstNames
    <3>5. x.do = "entries" /\ x.left = dir_names(tree', f.from) /\ x.from = f.from
      BY <1>4 DEF FrameType
    <3>. HIDE DEF x
    <3>. QED BY <3>4, <3>5 DEF Awaits, u
  <2>. QED BY <2>2, <2>3
<1>. HIDE DEF x
<1>. DEFINE new == {x}
<1>11. \E z \in FrameType : new = {z} /\ work' = <<z>> \o Tail(work)
  BY <1>1, <1>7
<1>12. /\ \A g \in new : Copies(g)
       /\ \A y \in Before(op.a) : Awaits(f, y) \/ Copy(y) \in Touched => HasCopy(y)' \/ \E g \in new : Awaits(g, y)
  BY <1>8, <1>10
<1>. HIDE DEF new
<1>. QED BY <1>1, <1>5, <1>11, <1>12, CopiedWith

\* An entry's frame is about its copy, and awaits all that is below it.
LEMMA EntryCopies ==
    ASSUME FsInv, outcome = "running", op.cmd = "copy", IsTree(op.before), Apart, CopiedInv,
           work # <<>>, f.do = "entries", NEW n \in f.left
    PROVE  LET src == Append(f.from, n)
               e == Entry(src, Append(f.at, n))
           IN \/ e = <<>> /\ src \notin DOMAIN tree
              \/ \E x \in FrameType :
                   e = <<x>> /\ Copies(x) /\ \A y \in Before(op.a) : IsPrefix(src, y) => Awaits(x, y)
<1>. DEFINE src == Append(f.from, n)
            dst == Append(f.at, n)
            e == Entry(src, dst)
            down == f.depth + 1
<1>1. FsTypeOK /\ CopyingInv /\ op.a \in Seq(Name) /\ op.b \in Seq(Name) /\ IsTree(tree)
  BY DEF FsInv, FsTypeOK, Writes
<1>2. f.at \in Seq(Name) /\ n \in Name /\ down \in Nat
  BY <1>1, CopyingTop
<1>3. /\ SourceKept /\ f.from \in Before(op.a) /\ f.at = Copy(f.from) /\ f.from \in DOMAIN tree /\ f.from \in Seq(Name)
      /\ IsPrefix(op.a, f.from) /\ tree[f.from] = op.before[f.from] /\ op.before[f.from] = Dir
      /\ os_realpath(tree, f.from) = f.from
  BY <1>1, CopiedTop
<1>4. /\ src \in Seq(Name) /\ src # <<>> /\ Front(src) = f.from /\ Last(src) = n /\ dst \in Seq(Name)
  BY <1>2, <1>3, Appended
<1>5. IsPrefix(op.a, src)
  BY <1>1, <1>2, <1>3, PrefixEnds
<1>6. dst = Copy(src)
  <2>1. \A a, b, q \in Seq(Name) : \A m \in Name : IsPrefix(a, q) => Onto(a, b, Append(q, m)) = Append(Onto(a, b, q), m)
    BY OntoNext
  <2>2. Onto(op.a, op.b, Append(f.from, n)) = Append(Onto(op.a, op.b, f.from), n)
    BY <1>1, <1>2, <1>3, <2>1
  <2>. QED BY <1>3, <2>2 DEF Copy
<1>. HIDE DEF src, dst
<1>7. Place(src) = src /\ (Holds(src) <=> src \in DOMAIN tree)
  <2>1. Append(f.from, n) = src
    BY DEF src
  <2>2. Is(tree, f.from, "dir")
    BY <1>3 DEF Is, Dir
  <2>3. Parent(src)
    BY <1>3, <1>4, <2>2 DEF Parent
  <2>. QED BY <1>3, <1>4, <2>1, <2>3 DEF Place, Holds
<1>8. CASE src \notin DOMAIN tree
  <2>1. e = <<>>
    BY <1>7, <1>8 DEF Entry
  <2>. QED BY <1>8, <2>1 DEF src, dst
<1>9. CASE src \in DOMAIN tree
  <2>1. /\ src \in Before(op.a) /\ tree[src] = op.before[src] /\ tree[src] \in Node /\ src \in DOMAIN op.before
    BY <1>1, <1>3, <1>5, <1>9, InTree DEF SourceKept, Before
  <2>. DEFINE data == tree[src].data
              X(x) == e = <<x>> /\ Copies(x) /\ \A y \in Before(op.a) : IsPrefix(src, y) => Awaits(x, y)
  <2>2. /\ tree[src].kind \in {"dir", "file", "link"}
        /\ tree[src].kind = "dir" => e = <<Pair("tree", src, dst, down)>>
        /\ tree[src].kind = "file" => e = <<Pair("file", src, dst, 0)>>
        /\ tree[src].kind = "link" => e = <<Pair("link", data, dst, 0)>> /\ tree[src] = LinkTo(data)
    BY <1>7, <1>9, <2>1, Nodes DEF Entry
  <2>3. /\ data \in Seq(Int) /\ 0 \in Nat /\ "tree" \in Dos /\ "file" \in Dos /\ "link" \in Dos
        /\ src \in Seq(Int) /\ dst \in Seq(Name)
    BY <1>4, <2>1, Nodes, Marks DEF Dos
  <2>4. ASSUME tree[src].kind # "dir", NEW y \in Before(op.a), IsPrefix(src, y) PROVE y = src
    <3>1. y \in DOMAIN tree
      BY <1>3 DEF SourceKept
    <3>2. Leaf(tree, src)
      BY <1>1, <1>9, <2>4, Leaves DEF Is
    <3>. QED BY <2>4, <3>1, <3>2 DEF Leaf
  <2>. HIDE DEF data, down, e
  <2>5. CASE tree[src].kind = "dir"
    <3>. DEFINE x == Pair("tree", src, dst, down)
    <3>1. x \in FrameType /\ x.do = "tree" /\ x.at = dst /\ x.from = src
      BY <1>2, <2>3, FrameTypes
    <3>2. e = <<x>>
      BY <2>2, <2>5
    <3>. HIDE DEF x
    <3>3. Copies(x)
      BY <1>6, <2>1, <2>5, <3>1 DEF Copies
    <3>4. \A y \in Before(op.a) : IsPrefix(src, y) => Awaits(x, y)
      BY <3>1 DEF Awaits
    <3>. QED BY <3>1, <3>2, <3>3, <3>4 DEF e, src, dst
  <2>6. CASE tree[src].kind = "file"
    <3>. DEFINE x == Pair("file", src, dst, 0)
    <3>1. x \in FrameType /\ x.do = "file" /\ x.at = dst /\ x.from = src
      BY <2>3, FrameTypes
    <3>2. e = <<x>>
      BY <2>2, <2>6
    <3>. HIDE DEF x
    <3>3. Copies(x)
      BY <1>6, <2>1, <2>6, <3>1 DEF Copies
    <3>4. \A y \in Before(op.a) : IsPrefix(src, y) => Awaits(x, y)
      BY <1>6, <2>4, <2>6, <3>1 DEF Awaits
    <3>. QED BY <3>1, <3>2, <3>3, <3>4 DEF e, src, dst
  <2>7. CASE tree[src].kind = "link"
    <3>. DEFINE x == Pair("link", data, dst, 0)
    <3>1. x \in FrameType /\ x.do = "link" /\ x.at = dst /\ x.from = data
      BY <2>3, FrameTypes
    <3>2. e = <<x>>
      BY <2>2, <2>7
    <3>. HIDE DEF x
    <3>3. Copies(x)
      BY <1>6, <2>1, <2>2, <2>7, <3>1 DEF Copies
    <3>4. \A y \in Before(op.a) : IsPrefix(src, y) => Awaits(x, y)
      BY <1>6, <2>4, <2>7, <3>1 DEF Awaits
    <3>. QED BY <3>1, <3>2, <3>3, <3>4 DEF e, src, dst
  <2>. QED BY <2>2, <2>5, <2>6, <2>7
<1>. QED BY <1>8, <1>9

LEMMA CopyEntryOn ==
    ASSUME FsInv, FsInv', outcome = "running", op.cmd = "copy", IsTree(op.before), Apart, CopiedInv, CopyEntry
    PROVE  CopiedInv'
<1>1. work # <<>> /\ f.do = "entries" /\ tree' = tree /\ op' = op
  BY DEF CopyEntry, Top, Frozen
<1>2. PICK n \in f.left : work' = Append(Entry(Append(f.from, n), Append(f.at, n)), Rest(n)) \o Tail(work)
  BY DEF CopyEntry, Calls
<1>. DEFINE e == Entry(Append(f.from, n), Append(f.at, n))
            z == Rest(n)
            src == Append(f.from, n)
<1>3. FsTypeOK /\ CopyingInv /\ op.a \in Seq(Name) /\ op.b \in Seq(Name) /\ IsTree(tree)
  BY DEF FsInv, FsTypeOK, Writes
<1>4. f \in FrameType /\ n \in Name /\ f.left \subseteq Name
  BY <1>1, <1>3, CopyingTop
<1>5. SourceKept /\ Copies(f) /\ f.from \in Seq(Name)
  BY <1>1, <1>3, CopiedTop
<1>6. z \in FrameType /\ z.do = "entries" /\ z.at = f.at /\ z.from = f.from /\ z.left = f.left \ {n}
  BY <1>1, <1>4 DEF Rest, FrameType
<1>7. \/ e = <<>> /\ src \notin DOMAIN tree
      \/ \E x \in FrameType :
           e = <<x>> /\ Copies(x) /\ \A y \in Before(op.a) : IsPrefix(src, y) => Awaits(x, y)
  BY <1>1, EntryCopies
<1>8. Touched = {}
  BY <1>1, TouchedAt
<1>. HIDE DEF z, e
<1>9. Copies(z)
  BY <1>1, <1>5, <1>6 DEF Copies
<1>10. ASSUME NEW y \in Before(op.a), Awaits(f, y) PROVE Awaits(z, y) \/ IsPrefix(src, y)
  BY <1>1, <1>6, <1>10 DEF Awaits
<1>11. ASSUME NEW y \in Before(op.a), IsPrefix(src, y) PROVE src \in DOMAIN tree
  <2>1. y \in DOMAIN tree /\ y \in Seq(Name)
    BY <1>3, <1>5, InTree DEF SourceKept
  <2>2. src \in Seq(Name) /\ Len(src) \in Nat /\ Len(y) \in Nat
    BY <1>4, <1>5, <2>1, Appended, LenProperties
  <2>. HIDE DEF src
  <2>3. src = SubSeq(y, 1, Len(src)) /\ Len(src) <= Len(y)
    BY <1>11, <2>1, <2>2, Prefix
  <2>4. CASE Len(src) = Len(y)
    BY <2>1, <2>3, <2>4, SubSeqFull
  <2>5. CASE Len(src) # Len(y)
    <3>1. Len(src) \in 0..Len(y) - 1
      BY <2>2, <2>3, <2>5
    <3>2. SubSeq(y, 1, Len(src)) \in DOMAIN tree
      BY <1>3, <2>1, <3>1, InTree DEF Is
    <3>. QED BY <2>3, <3>2
  <2>. QED BY <2>4, <2>5
<1>. HIDE DEF src
<1>12. work' = Append(e, z) \o Tail(work)
  BY <1>2 DEF e, z
<1>13. CASE e = <<>> /\ src \notin DOMAIN tree
  <2>. DEFINE new == {z}
  <2>1. work' = <<z>> \o Tail(work)
    <3>1. Append(e, z) = <<z>>
      BY <1>13
    <3>. QED BY <1>12, <3>1
  <2>2. \E x \in FrameType : new = {x} /\ work' = <<x>> \o Tail(work)
    BY <1>6, <2>1
  <2>3. /\ \A g \in new : Copies(g)
        /\ \A y \in Before(op.a) : Awaits(f, y) \/ Copy(y) \in Touched => HasCopy(y)' \/ \E g \in new : Awaits(g, y)
    BY <1>8, <1>9, <1>10, <1>11, <1>13
  <2>. HIDE DEF new
  <2>. QED BY <1>1, <1>8, <2>2, <2>3, CopiedWith
<1>14. ASSUME NEW x \in FrameType, e = <<x>>, Copies(x), \A y \in Before(op.a) : IsPrefix(src, y) => Awaits(x, y)
       PROVE  CopiedInv'
  <2>. DEFINE new == {x, z}
  <2>1. work' = <<x, z>> \o Tail(work)
    <3>1. Append(e, z) = <<x, z>>
      BY <1>14, AppendTwo
    <3>. QED BY <1>12, <3>1
  <2>2. \E u, v \in FrameType : new = {u, v} /\ work' = <<u, v>> \o Tail(work)
    BY <1>6, <2>1
  <2>3. /\ \A g \in new : Copies(g)
        /\ \A y \in Before(op.a) : Awaits(f, y) \/ Copy(y) \in Touched => HasCopy(y)' \/ \E g \in new : Awaits(g, y)
    BY <1>8, <1>9, <1>10, <1>14
  <2>. HIDE DEF new
  <2>. QED BY <1>1, <1>8, <2>2, <2>3, CopiedWith
<1>. QED BY <1>7, <1>13, <1>14

LEMMA CopiedDirOn ==
    ASSUME FsInv, FsInv', outcome = "running", op.cmd = "copy", IsTree(op.before), Apart, CopiedInv, Copied
    PROVE  CopiedInv'
<1>1. work # <<>> /\ f.do = "entries" /\ f.left = {} /\ tree' = tree /\ op' = op /\ work' = Tail(work)
  BY DEF Copied, Top, Return, Frozen
<1>2. Touched = {} /\ \A y : ~Awaits(f, y)
  BY <1>1, TouchedAt DEF Awaits
<1>. DEFINE new == {}
<1>3. /\ \A g \in new : Copies(g)
      /\ \A y \in Before(op.a) : Awaits(f, y) \/ Copy(y) \in Touched => HasCopy(y)' \/ \E g \in new : Awaits(g, y)
      /\ new = {} /\ work' = Tail(work)
  BY <1>1, <1>2
<1>. HIDE DEF new
<1>. QED BY <1>1, <1>2, <1>3, CopiedWith

LEMMA OpenCopyOn ==
    ASSUME FsInv, FsInv', outcome = "running", op.cmd = "copy", IsTree(op.before), Apart, CopiedInv, OpenCopy
    PROVE  CopiedInv'
<1>. DEFINE x == Pair("data", os_realpath(tree, f.from), Place(f.at), 0)
<1>1. /\ work # <<>> /\ f.do = "file" /\ (Free(f.at) \/ HoldsA(f.at, "file")) /\ op' = op
      /\ tree' = Put(Place(f.at), FileOf(<<>>)) /\ work' = <<x>> \o Tail(work)
  BY DEF OpenCopy, Top, Calls, Frozen
<1>2. FsTypeOK /\ CopyingInv /\ op.a \in Seq(Name) /\ op.b \in Seq(Name) /\ IsTree(tree)
  BY DEF FsInv, FsTypeOK, Writes
<1>3. f.at \in Seq(Name) /\ Place(f.at) = f.at
  BY <1>1, <1>2, CopyingTop DEF Free, HoldsA
<1>4. Copies(f) /\ os_realpath(tree, f.from) = f.from /\ f.from \in Seq(Int) /\ f.at = Copy(f.from)
  BY <1>1, <1>2, CopiedTop, Marks
<1>5. x \in FrameType /\ x.do = "data" /\ x.at = f.at /\ x.from = f.from
  <2>1. "data" \in Dos /\ 0 \in Nat
    BY DEF Dos
  <2>. QED BY <1>3, <1>4, <2>1, FrameTypes
<1>. HIDE DEF x
<1>6. Copies(x)
  BY <1>1, <1>4, <1>5 DEF Copies
<1>7. Touched \subseteq {f.at}
  BY <1>1, <1>3, TouchedAt
<1>. DEFINE new == {x}
<1>8. \E z \in FrameType : new = {z} /\ work' = <<z>> \o Tail(work)
  BY <1>1, <1>5
<1>9. /\ \A g \in new : Copies(g)
      /\ \A y \in Before(op.a) : Awaits(f, y) \/ Copy(y) \in Touched => HasCopy(y)' \/ \E g \in new : Awaits(g, y)
  BY <1>1, <1>5, <1>6, <1>7 DEF Awaits
<1>. HIDE DEF new
<1>. QED BY <1>1, <1>7, <1>8, <1>9, CopiedWith

LEMMA CopyDataOn ==
    ASSUME FsInv, FsInv', outcome = "running", op.cmd = "copy", IsTree(op.before), Apart, CopiedInv, CopyData
    PROVE  CopiedInv'
<1>1. /\ work # <<>> /\ f.do = "data" /\ op' = op
      /\ tree' = Put(f.at, FileOf(tree[f.from].data)) /\ work' = Tail(work)
  BY DEF CopyData, Top, Return, Frozen
<1>2. FsTypeOK /\ CopyingInv /\ op.a \in Seq(Name) /\ op.b \in Seq(Name) /\ IsTree(tree)
  BY DEF FsInv, FsTypeOK, Writes
<1>3. /\ f.at = Copy(f.from) /\ tree[f.from] = op.before[f.from]
      /\ op.before[f.from] = FileOf(op.before[f.from].data)
      /\ \A y \in Before(op.a) : Copy(y) = f.at => y = f.from
  BY <1>1, <1>2, CopiedTop
<1>4. Touched \subseteq {f.at} /\ f.at \in DOMAIN tree' /\ tree'[f.at] = op.before[f.from]
  <2>1. Touched \subseteq {f.at}
    BY <1>1, TouchedAt
  <2>2. f.at \in DOMAIN tree' /\ tree'[f.at] = FileOf(tree[f.from].data)
    BY <1>1 DEF Put
  <2>. QED BY <1>3, <2>1, <2>2
<1>5. ASSUME NEW y \in Before(op.a), Awaits(f, y) \/ Copy(y) \in Touched PROVE HasCopy(y)'
  <2>1. Copy(y) = f.at
    BY <1>1, <1>4, <1>5 DEF Awaits
  <2>. QED BY <1>1, <1>3, <1>4, <2>1 DEF HasCopy, Copy
<1>. DEFINE new == {}
<1>6. /\ \A g \in new : Copies(g)
      /\ \A y \in Before(op.a) : Awaits(f, y) \/ Copy(y) \in Touched => HasCopy(y)' \/ \E g \in new : Awaits(g, y)
      /\ new = {} /\ work' = Tail(work)
  BY <1>1, <1>5
<1>. HIDE DEF new
<1>. QED BY <1>1, <1>4, <1>6, CopiedWith

LEMMA LinkOn ==
    ASSUME FsInv, FsInv', outcome = "running", op.cmd = "copy", IsTree(op.before), Apart, CopiedInv, MakeLink \/ MakeRoom
    PROVE  CopiedInv'
<1>1. work # <<>> /\ f.do = "link" /\ op' = op
  BY DEF MakeLink, MakeRoom, Top, Frozen
<1>2. FsTypeOK /\ CopyingInv /\ op.a \in Seq(Name) /\ op.b \in Seq(Name) /\ IsTree(tree)
  BY DEF FsInv, FsTypeOK, Writes
<1>3. Copies(f)
  BY <1>1, <1>2, CopiedTop
<1>4. /\ Parent(f.at) => Place(f.at) = f.at
      /\ Holds(f.at) => Place(f.at) = f.at
  BY <1>1, <1>2, CopyingTop
<1>5. CASE MakeLink
  <2>1. Place(f.at) = f.at /\ tree' = Put(f.at, LinkTo(f.from)) /\ work' = Tail(work)
    BY <1>4, <1>5 DEF MakeLink, Free, Return
  <2>2. Touched \subseteq {f.at} /\ f.at \in DOMAIN tree' /\ tree'[f.at] = LinkTo(f.from)
    BY <2>1, TouchedAt DEF Put
  <2>3. PICK src \in Before(op.a) : f.at = Copy(src) /\ op.before[src] = LinkTo(f.from)
    BY <1>1, <1>3 DEF Copies
  <2>4. ASSUME NEW y \in Before(op.a), Copy(y) = f.at PROVE y = src
    <3>1. y \in Seq(Name) /\ IsPrefix(op.a, y) /\ src \in Seq(Name) /\ IsPrefix(op.a, src)
      BY InTree DEF Before
    <3>. QED BY <1>2, <2>3, <2>4, <3>1, OntoOrder DEF Copy
  <2>5. ASSUME NEW y \in Before(op.a), Awaits(f, y) \/ Copy(y) \in Touched PROVE HasCopy(y)'
    <3>1. Copy(y) = f.at
      BY <1>1, <2>2, <2>5 DEF Awaits
    <3>. QED BY <1>1, <2>2, <2>3, <2>4, <3>1 DEF HasCopy, Copy
  <2>. DEFINE new == {}
  <2>6. /\ \A g \in new : Copies(g)
        /\ \A y \in Before(op.a) : Awaits(f, y) \/ Copy(y) \in Touched => HasCopy(y)' \/ \E g \in new : Awaits(g, y)
        /\ new = {} /\ work' = Tail(work)
    BY <2>1, <2>5
  <2>. HIDE DEF new
  <2>. QED BY <1>1, <2>2, <2>6, CopiedWith
<1>6. CASE MakeRoom
  <2>1. tree' = Cut(f.at) /\ work' = work
    BY <1>4, <1>6 DEF MakeRoom
  <2>2. Touched \subseteq {f.at}
    BY <2>1, TouchedAt
  <2>. DEFINE new == {f}
  <2>3. /\ \A g \in new : Copies(g)
        /\ \A y \in Before(op.a) : Awaits(f, y) \/ Copy(y) \in Touched => HasCopy(y)' \/ \E g \in new : Awaits(g, y)
        /\ new = {f} /\ work' = work
    BY <1>1, <1>3, <2>1, <2>2 DEF Awaits
  <2>. HIDE DEF new
  <2>. QED BY <1>1, <2>2, <2>3, CopiedWith
<1>. QED BY <1>5, <1>6

LEMMA CopiedOn ==
    ASSUME FsInv, FsInv', outcome = "running", op.cmd = "copy", IsTree(op.before), CopiedInv, FsNext, outcome' = "running"
    PROVE  CopiedInv'
<1>1. FsTypeOK /\ CopyingInv
  BY DEF FsInv, Writes
<1>2. work # <<>> /\ op' = op /\ ~Finish /\ ~Fails /\ \A c \in FsCalls : ~Call(c)
  BY DEF FsNext, Finish, Fails, Call, MakeParent, MakeDir, OpenOld, OpenNew, Fill, Unlinked, EnterRemoved, RemoveEntry,
         RemoveDir, EnterCopied, CopyEntry, Copied, OpenCopy, CopyData, MakeLink, MakeRoom, Rename1, Across,
         EnterListed, SkipListed, ListEntry, Listed, Keep, Top, Frozen
<1>3. EnterCopied \/ CopyEntry \/ Copied \/ OpenCopy \/ CopyData \/ MakeLink \/ MakeRoom
  <2>1. f.do \in {"entries", "refuse", "tree", "file", "link", "data"}
    BY <1>1, <1>2, CopyingTop
  <2>. QED BY <1>2, <2>1 DEF FsNext, MakeParent, MakeDir, OpenOld, OpenNew, Fill, Unlinked, EnterRemoved, RemoveEntry,
                RemoveDir, Rename1, Across, EnterListed, SkipListed, ListEntry, Listed, Keep, Top
<1>4. CASE Apart
  BY <1>3, <1>4, EnterCopiedOn, CopyEntryOn, CopiedDirOn, OpenCopyOn, CopyDataOn, LinkOn
<1>5. CASE ~Apart
  BY <1>2, <1>5 DEF CopiedInv, Apart
<1>. QED BY <1>4, <1>5

\* When nothing is left to do, everything has its copy.
LEMMA CopiedEnd ==
    ASSUME IsTree(op.before), op.a \in Seq(Name), CopiedInv, Apart, work = <<>>
    PROVE  Same(op.before, op.a, tree, op.b) /\ Same(op.before, op.a, tree, op.a)
<1>1. Range(work) = {}
  BY Ranges, EmptySeq
<1>2. /\ \A q \in Before(op.a) : q \in DOMAIN tree /\ tree[q] = op.before[q]
      /\ \A x \in Before(op.a) : HasCopy(x)
  BY <1>1 DEF CopiedInv, SourceKept
<1>3. \A x \in Before(op.a) : Onto(op.a, op.a, x) = x
  BY InTree, OntoOrder DEF Before
<1>. QED BY <1>2, <1>3 DEF Same, HasCopy, Copy, Onto, Before

-----------------------------------------------------------------------------
(* The order of the entries *)

LEMMA LessAt ==
    ASSUME NEW p \in Seq(Name), NEW q \in Seq(Name)
    PROVE  /\ Len(p) \in Nat /\ Len(q) \in Nat /\ \A i \in 1..Len(p) : p[i] \in Nat
           /\ Less(p, q) <=> \E k \in 1..Len(q) : /\ \A j \in 1..k - 1 : j \in 1..Len(p) /\ p[j] = q[j]
                                                  /\ k \in 1..Len(p) => p[k] < q[k]
<1>1. Len(p) \in Nat /\ Len(q) \in Nat /\ DOMAIN p = 1..Len(p) /\ DOMAIN q = 1..Len(q)
  BY LenProperties
<1>2. \A i \in 1..Len(p) : p[i] \in Nat
  BY ElementOfSeq DEF Name
<1>. QED BY <1>1, <1>2 DEF Less

LEMMA LessTransitive ==
    ASSUME NEW p \in Seq(Name), NEW q \in Seq(Name), NEW r \in Seq(Name), Less(p, q), Less(q, r)
    PROVE  Less(p, r)
<1>1. /\ Len(p) \in Nat /\ Len(q) \in Nat /\ Len(r) \in Nat
      /\ \A i \in 1..Len(p) : p[i] \in Nat
      /\ \A i \in 1..Len(q) : q[i] \in Nat
      /\ \A i \in 1..Len(r) : r[i] \in Nat
  BY LessAt
<1>2. PICK k \in 1..Len(q) : /\ \A j \in 1..k - 1 : j \in 1..Len(p) /\ p[j] = q[j]
                             /\ k \in 1..Len(p) => p[k] < q[k]
  BY LessAt
<1>3. PICK l \in 1..Len(r) : /\ \A j \in 1..l - 1 : j \in 1..Len(q) /\ q[j] = r[j]
                             /\ l \in 1..Len(q) => q[l] < r[l]
  BY LessAt
<1>4. \E m \in 1..Len(r) : /\ \A j \in 1..m - 1 : j \in 1..Len(p) /\ p[j] = r[j]
                           /\ m \in 1..Len(p) => p[m] < r[m]
  <2>1. CASE k <= l
    <3>1. \A j \in 1..k - 1 : j \in 1..l - 1
      BY <1>1, <2>1
    <3>2. \A j \in 1..k - 1 : j \in 1..Len(p) /\ p[j] = r[j]
      BY <1>2, <1>3, <3>1
    <3>3. k \in 1..Len(r)
      BY <1>1, <2>1
    <3>4. k \in 1..Len(p) => p[k] < r[k]
      <4>1. CASE k = l
        BY <1>1, <1>2, <1>3, <4>1
      <4>2. CASE k # l
        <5>1. k \in 1..l - 1
          BY <1>1, <2>1, <4>2
        <5>2. q[k] = r[k]
          BY <1>3, <5>1
        <5>. QED BY <1>2, <5>2
      <4>. QED BY <4>1, <4>2
    <3>. QED BY <3>2, <3>3, <3>4
  <2>2. CASE ~(k <= l)
    <3>1. l \in 1..k - 1 /\ \A j \in 1..l - 1 : j \in 1..k - 1
      BY <1>1, <2>2
    <3>2. \A j \in 1..l - 1 : j \in 1..Len(p) /\ p[j] = r[j]
      BY <1>2, <1>3, <3>1
    <3>3. p[l] = q[l] /\ l \in 1..Len(q)
      BY <1>1, <1>2, <3>1
    <3>. QED BY <1>3, <3>2, <3>3
  <2>. QED BY <2>1, <2>2
<1>. QED BY <1>4, LessAt

LEMMA LessTotal ==
    ASSUME NEW p \in Seq(Name), NEW q \in Seq(Name)
    PROVE  /\ ~Less(p, p) /\ ~(Less(p, q) /\ Less(q, p))
           /\ p = q \/ Less(p, q) \/ Less(q, p)
<1>1. ASSUME NEW s \in Seq(Name) PROVE ~Less(s, s)
  <2>1. /\ Len(s) \in Nat /\ \A i \in 1..Len(s) : s[i] \in Nat
        /\ Less(s, s) => \E k \in 1..Len(s) : s[k] < s[k]
    BY LessAt
  <2>. QED BY <2>1
<1>2. ~(Less(p, q) /\ Less(q, p))
  BY <1>1, LessTransitive
<1>3. ASSUME p # q PROVE Less(p, q) \/ Less(q, p)
  <2>1. /\ Len(p) \in Nat /\ Len(q) \in Nat
        /\ \A i \in 1..Len(p) : p[i] \in Nat
        /\ \A i \in 1..Len(q) : q[i] \in Nat
    BY LessAt
  <2>. DEFINE Agree(k) == k \in 1..Len(p) /\ k \in 1..Len(q) /\ p[k] = q[k]
              T == {k \in Nat : (k \in 1..Len(p) \/ k \in 1..Len(q)) /\ ~Agree(k)}
  <2>2. T # {}
    <3>1. CASE Len(p) = Len(q)
      <4>1. \E i \in 1..Len(p) : p[i] # q[i]
        BY <1>3, <3>1, SeqEqual
      <4>. QED BY <2>1, <4>1
    <3>2. CASE Len(p) < Len(q)
      <4>1. Len(q) \in T
        BY <2>1, <3>2
      <4>. QED BY <4>1
    <3>3. CASE Len(q) < Len(p)
      <4>1. Len(p) \in T
        BY <2>1, <3>3
      <4>. QED BY <4>1
    <3>. QED BY <2>1, <3>1, <3>2, <3>3
  <2>3. T \subseteq Nat
    OBVIOUS
  <2>4. PICK k \in T : \A m \in T : k <= m
    <3>. HIDE DEF T
    <3>. QED BY <2>2, <2>3, Least
  <2>5. k \in Nat /\ (k \in 1..Len(p) \/ k \in 1..Len(q)) /\ ~Agree(k)
    OBVIOUS
  <2>6. ASSUME NEW j \in 1..k - 1 PROVE Agree(j)
    <3>1. j \in Nat /\ j < k /\ j \notin T
      BY <2>4, <2>5
    <3>2. j \in 1..Len(p) \/ j \in 1..Len(q)
      BY <2>1, <2>5, <3>1
    <3>. QED BY <3>1, <3>2
  <2>7. CASE k \notin 1..Len(p)
    <3>1. k \in 1..Len(q) /\ \A j \in 1..k - 1 : j \in 1..Len(p) /\ p[j] = q[j]
      BY <2>5, <2>6, <2>7
    <3>. HIDE DEF T
    <3>. QED BY <2>7, <3>1, LessAt
  <2>8. CASE k \notin 1..Len(q)
    <3>1. k \in 1..Len(p) /\ \A j \in 1..k - 1 : j \in 1..Len(q) /\ q[j] = p[j]
      BY <2>5, <2>6, <2>8
    <3>. HIDE DEF T
    <3>. QED BY <2>8, <3>1, LessAt
  <2>9. CASE k \in 1..Len(p) /\ k \in 1..Len(q)
    <3>1. p[k] < q[k] \/ q[k] < p[k]
      BY <2>1, <2>5, <2>9
    <3>2. \A j \in 1..k - 1 : j \in 1..Len(p) /\ j \in 1..Len(q) /\ p[j] = q[j]
      BY <2>6
    <3>. HIDE DEF T
    <3>3. p[k] < q[k] => Less(p, q)
      BY <2>9, <3>2, LessAt
    <3>4. q[k] < p[k] => Less(q, p)
      BY <2>9, <3>2, LessAt
    <3>. QED BY <3>1, <3>3, <3>4
  <2>. QED BY <2>7, <2>8, <2>9
<1>. QED BY <1>1, <1>2, <1>3

-----------------------------------------------------------------------------
(* The entries that are kept *)

LEMMA KeptCounts ==
    ASSUME NEW of, IsFiniteSet(of), NEW k \in Nat, NEW set, Smallest(set, of, k)
    PROVE  /\ IsFiniteSet(set) /\ set \subseteq of /\ Cardinality(set) \in Nat /\ Cardinality(of) \in Nat
           /\ Cardinality(set) <= Cardinality(of)
           /\ Cardinality(set) <= k => set = of
           /\ Cardinality(set) > k => Cardinality(set) = k + 1
<1>1. set \subseteq of /\ Cardinality(set) <= k + 1 /\ (Cardinality(set) <= k => set = of)
  BY DEF Smallest
<1>2. IsFiniteSet(set) /\ Cardinality(set) <= Cardinality(of)
  BY <1>1, FS_Subset
<1>3. Cardinality(set) \in Nat /\ Cardinality(of) \in Nat
  BY <1>2, FS_CardinalityType
<1>. QED BY <1>1, <1>2, <1>3

\* ent_keep keeps the smallest.
LEMMA KeepSmallest ==
    ASSUME NEW of, of \subseteq Seq(Name), IsFiniteSet(of), op.limit \in Nat, Smallest(kept, of, op.limit),
           NEW q \in Seq(Name), q \notin of, ent_keep(q)
    PROVE  Smallest(kept', of \cup {q}, op.limit)
<1>. DEFINE k == op.limit
            new == of \cup {q}
<1>1. /\ IsFiniteSet(kept) /\ kept \subseteq of /\ Cardinality(kept) \in Nat
      /\ Cardinality(kept) <= k => kept = of
      /\ Cardinality(kept) > k => Cardinality(kept) = k + 1
  BY KeptCounts
<1>2. \A y \in kept, x \in of \ kept : Less(y, x)
  BY DEF Smallest
<1>3. k \in Nat
  OBVIOUS
<1>4. CASE Cardinality(kept) <= k
  <2>1. kept' = kept \cup {q} /\ kept = of
    BY <1>1, <1>4 DEF ent_keep
  <2>2. Cardinality(kept \cup {q}) = Cardinality(kept) + 1
    BY <1>1, FS_AddElement
  <2>3. Cardinality(kept') <= k + 1
    BY <1>1, <1>3, <1>4, <2>1, <2>2
  <2>. QED BY <2>1, <2>3 DEF Smallest
<1>5. CASE ~(Cardinality(kept) <= k)
  <2>1. PICK last \in kept : /\ \A x \in kept : x = last \/ Less(x, last)
                             /\ kept' = IF Less(q, last) THEN (kept \ {last}) \cup {q} ELSE kept
    BY <1>5 DEF ent_keep
  <2>2. Cardinality(kept) = k + 1 /\ last \in of /\ last \in Seq(Name) /\ q \notin kept /\ last # q
    BY <1>1, <1>3, <1>5
  <2>3. CASE Less(q, last)
    <3>1. kept' = (kept \ {last}) \cup {q}
      BY <2>1, <2>3
    <3>2. Cardinality(kept') = k + 1
      <4>1. IsFiniteSet(kept \ {last}) /\ Cardinality(kept \ {last}) = Cardinality(kept) - 1
        BY <1>1, FS_RemoveElement
      <4>2. Cardinality((kept \ {last}) \cup {q}) = Cardinality(kept \ {last}) + 1
        BY <2>2, <4>1, FS_AddElement
      <4>. QED BY <1>3, <2>2, <3>1, <4>1, <4>2
    <3>3. ASSUME NEW y \in kept', NEW x \in new \ kept' PROVE Less(y, x)
      <4>1. x = last \/ x \in of \ kept
        BY <3>1
      <4>2. y = q \/ (y \in kept /\ y # last)
        BY <3>1
      <4>3. x \in Seq(Name) /\ y \in Seq(Name)
        BY <1>1, <2>2, <4>1, <4>2
      <4>4. Less(y, last)
        BY <2>1, <2>3, <4>2
      <4>5. x # last => Less(last, x)
        BY <1>2, <4>1
      <4>. QED BY <2>2, <4>3, <4>4, <4>5, LessTransitive
    <3>4. kept' \subseteq new
      BY <1>1, <3>1
    <3>5. Cardinality(kept') <= k + 1 /\ ~(Cardinality(kept') <= k)
      BY <1>3, <3>2
    <3>. QED BY <3>3, <3>4, <3>5 DEF Smallest
  <2>4. CASE ~Less(q, last)
    <3>1. kept' = kept
      BY <2>1, <2>4
    <3>2. Less(last, q)
      BY <2>2, <2>4, LessTotal
    <3>3. ASSUME NEW y \in kept', NEW x \in new \ kept' PROVE Less(y, x)
      <4>1. x = q \/ x \in of \ kept
        BY <3>1
      <4>2. y \in kept /\ y \in Seq(Name)
        BY <1>1, <3>1
      <4>3. Less(y, q)
        BY <2>1, <2>2, <3>2, <4>2, LessTransitive
      <4>. QED BY <1>2, <4>1, <4>2, <4>3
    <3>4. kept' \subseteq new /\ Cardinality(kept') <= k + 1 /\ ~(Cardinality(kept') <= k)
      BY <1>1, <1>3, <2>2, <3>1
    <3>. QED BY <3>3, <3>4 DEF Smallest
  <2>. QED BY <2>3, <2>4
<1>. QED BY <1>4, <1>5

\* The smallest limit + 1 are enough to tell the first limit of them.
LEMMA SmallestExact ==
    ASSUME NEW of, of \subseteq Seq(Name), IsFiniteSet(of), op.limit \in Nat, Smallest(kept, of, op.limit)
    PROVE  /\ Entries = {q \in of : Cardinality({x \in of : Less(x, q)}) < op.limit}
           /\ Truncated <=> Cardinality(of) > op.limit
<1>. DEFINE k == op.limit
<1>1. /\ IsFiniteSet(kept) /\ kept \subseteq of /\ Cardinality(kept) \in Nat /\ Cardinality(of) \in Nat
      /\ Cardinality(kept) <= Cardinality(of)
      /\ Cardinality(kept) <= k => kept = of
      /\ Cardinality(kept) > k => Cardinality(kept) = k + 1
  BY KeptCounts
<1>2. \A y \in kept, x \in of \ kept : Less(y, x)
  BY DEF Smallest
<1>3. k \in Nat
  OBVIOUS
<1>4. CASE Cardinality(kept) <= k
  <2>1. kept = of
    BY <1>1, <1>4
  <2>. QED BY <2>1 DEF Entries, Truncated
<1>5. CASE ~(Cardinality(kept) <= k)
  <2>1. Cardinality(kept) = k + 1 /\ Cardinality(kept) > k /\ Cardinality(of) > k
    BY <1>1, <1>3, <1>5
  <2>2. ASSUME NEW q \in kept PROVE {x \in of : Less(x, q)} = {x \in kept : Less(x, q)}
    <3>1. ASSUME NEW x \in of \ kept PROVE ~Less(x, q)
      BY <1>1, <1>2, LessTotal
    <3>. QED BY <1>1, <3>1
  <2>3. ASSUME NEW q \in of, q \notin kept PROVE ~(Cardinality({x \in of : Less(x, q)}) < k)
    <3>. DEFINE less == {x \in of : Less(x, q)}
    <3>1. kept \subseteq less
      BY <1>1, <1>2, <2>3
    <3>2. IsFiniteSet(less)
      BY FS_Subset
    <3>. HIDE DEF less
    <3>3. Cardinality(kept) <= Cardinality(less) /\ Cardinality(less) \in Nat
      BY <3>1, <3>2, FS_Subset, FS_CardinalityType
    <3>4. ~(Cardinality(less) < k)
      BY <1>3, <2>1, <3>3
    <3>. QED BY <3>4 DEF less
  <2>4. Entries = {q \in of : Cardinality({x \in of : Less(x, q)}) < k}
    BY <1>1, <2>2, <2>3 DEF Entries
  <2>. QED BY <2>1, <2>4 DEF Truncated
<1>. QED BY <1>4, <1>5

-----------------------------------------------------------------------------
(* The result of fs.list *)

\* Frames that do their part, and what they have still to give.
Laid(w) == w \in Seq(FrameType) /\ (\A g \in Range(w) : Lists(g)) /\ Apiece(w)
Pending(w) == UNION {Due(g) : g \in Range(w)}

LEMMA LaidUnder ==
    ASSUME NEW w, Laid(w), w # <<>>
    PROVE  LET x == Head(w)
               t == Tail(w)
           IN /\ Lists(x) /\ Laid(t) /\ Due(x) \cap Pending(t) = {} /\ Pending(w) = Due(x) \cup Pending(t)
<1>. DEFINE x == Head(w)
            t == Tail(w)
<1>1. /\ Len(w) \in Nat \ {0} /\ x = w[1] /\ x \in FrameType /\ t \in Seq(FrameType) /\ Len(t) = Len(w) - 1
      /\ \A i \in 1..Len(w) - 1 : t[i] = w[i + 1]
  BY Stack DEF Laid
<1>2. Range(w) = {x} \cup Range(t)
  BY Ranges DEF Laid
<1>. HIDE DEF x, t
<1>3. \A i, j \in 1..Len(w) : i < j => Due(w[i]) \cap Due(w[j]) = {}
  BY DEF Laid, Apiece
<1>4. Apiece(t)
  <2>1. ASSUME NEW i \in 1..Len(t), NEW j \in 1..Len(t), i < j PROVE Due(t[i]) \cap Due(t[j]) = {}
    <3>1. i + 1 \in 1..Len(w) /\ j + 1 \in 1..Len(w) /\ i + 1 < j + 1 /\ t[i] = w[i + 1] /\ t[j] = w[j + 1]
      BY <1>1, <2>1
    <3>. QED BY <1>3, <3>1
  <2>. QED BY <2>1 DEF Apiece
<1>5. ASSUME NEW g \in Range(t) PROVE Due(x) \cap Due(g) = {}
  <2>1. PICK i \in 1..Len(t) : g = t[i]
    BY <1>1, Ranges
  <2>2. 1 \in 1..Len(w) /\ i + 1 \in 1..Len(w) /\ 1 < i + 1 /\ g = w[i + 1]
    BY <1>1, <2>1
  <2>. QED BY <1>1, <1>3, <2>2
<1>6. Due(x) \cap Pending(t) = {} /\ Pending(w) = Due(x) \cup Pending(t)
  BY <1>2, <1>5 DEF Pending
<1>7. Lists(x) /\ Laid(t)
  BY <1>1, <1>2, <1>4 DEF Laid
<1>. QED BY <1>6, <1>7 DEF x, t

LEMMA LaidOver ==
    ASSUME NEW w, Laid(w), NEW x \in FrameType, Lists(x), Due(x) \cap Pending(w) = {}
    PROVE  Laid(<<x>> \o w) /\ Pending(<<x>> \o w) = Due(x) \cup Pending(w)
<1>. DEFINE v == <<x>> \o w
<1>1. w \in Seq(FrameType) /\ (\A g \in Range(w) : Lists(g))
      /\ \A i, j \in 1..Len(w) : i < j => Due(w[i]) \cap Due(w[j]) = {}
  BY DEF Laid, Apiece
<1>2. v \in Seq(FrameType) /\ Range(v) = {x} \cup Range(w)
  BY <1>1, Ranges
<1>3. /\ Len(w) \in Nat /\ Len(v) = Len(w) + 1 /\ v[1] = x
      /\ \A i \in 1..Len(v) : i # 1 => i - 1 \in 1..Len(w) /\ v[i] = w[i - 1]
  <2>1. <<x>> \in Seq(FrameType) /\ Len(<<x>>) = 1 /\ <<x>>[1] = x /\ w \in Seq(FrameType) /\ Len(w) \in Nat
    BY <1>1, LenProperties
  <2>2. Len(v) = 1 + Len(w) /\ \A i \in 1..1 + Len(w) : v[i] = IF i <= 1 THEN <<x>>[i] ELSE w[i - 1]
    BY <2>1, ConcatProperties
  <2>. HIDE DEF v
  <2>. QED BY <2>1, <2>2
<1>. HIDE DEF v
<1>4. ASSUME NEW i \in 1..Len(w) PROVE Due(x) \cap Due(w[i]) = {}
  <2>1. w[i] \in Range(w)
    BY <1>1, Ranges
  <2>. QED BY <2>1 DEF Pending
<1>5. ASSUME NEW i \in 1..Len(v), NEW j \in 1..Len(v), i < j PROVE Due(v[i]) \cap Due(v[j]) = {}
  <2>1. j # 1 /\ j - 1 \in 1..Len(w) /\ v[j] = w[j - 1]
    BY <1>3, <1>5
  <2>2. CASE i = 1
    BY <1>3, <1>4, <2>1, <2>2
  <2>3. CASE i # 1
    <3>1. i - 1 \in 1..Len(w) /\ v[i] = w[i - 1] /\ i - 1 < j - 1
      BY <1>3, <1>5, <2>3
    <3>. QED BY <1>1, <2>1, <3>1
  <2>. QED BY <2>2, <2>3
<1>6. Laid(v) /\ Pending(v) = Due(x) \cup Pending(w)
  BY <1>1, <1>2, <1>5 DEF Laid, Apiece, Pending
<1>. QED BY <1>6 DEF v

\* A step of a list that is complete: the invariant holds of the frames it leaves.
LEMMA ListedBy ==
    ASSUME FsTypeOK, op.limit \in Nat, ListedInv, counted = 0, tree' = tree, op' = op, counted' = counted, Laid(work'),
           Smallest(kept', All \ Pending(work'), op.limit)
    PROVE  ListedInv'
<1>1. /\ \A g : Lists(g)' = Lists(g)
      /\ \A g : Due(g)' = Due(g)
      /\ All' = All
  BY DEF Lists, Due, All, Depth
<1>2. (\A g \in Range(work) : Lists(g))' /\ Apiece(work)'
  BY <1>1 DEF Laid, Apiece
<1>3. Seen' = All \ Pending(work')
  BY <1>1 DEF Seen, Pending
<1>. QED BY <1>2, <1>3 DEF ListedInv, Smallest, Less

LEMMA ListedNow ==
    ASSUME FsTypeOK, outcome = "running", ListedInv, counted = 0
    PROVE  /\ Laid(work) /\ Smallest(kept, All \ Pending(work), op.limit)
           /\ All \subseteq DOMAIN tree /\ All \subseteq Seq(Name) /\ IsFiniteSet(All) /\ \A g : Due(g) \subseteq All
<1>1. Laid(work) /\ Seen = All \ Pending(work)
  BY DEF ListedInv, Laid, FsTypeOK, Seen, Pending
<1>2. Smallest(kept, Seen, op.limit)
  BY DEF ListedInv
<1>3. All \subseteq DOMAIN tree /\ \A g : Due(g) \subseteq All
  BY DEF All, Due
<1>4. IsFiniteSet(DOMAIN tree) /\ DOMAIN tree \subseteq Seq(Name)
  BY DEF FsTypeOK, IsTree
<1>. QED BY <1>1, <1>2, <1>3, <1>4, FS_Subset

LEMMA ListedTop ==
    ASSUME FsInv, outcome = "running", op.cmd = "list", ListedInv, counted = 0, work # <<>>
    PROVE  /\ FsTypeOK /\ IsTree(tree) /\ op.a \in Seq(Name) /\ f \in FrameType /\ f.do \in {"walk", "listing", "keep"}
           /\ f.at \in Seq(Name) /\ f.depth \in Nat /\ f.left \subseteq Name
           /\ Lists(f) /\ Laid(Tail(work)) /\ Due(f) \cap Pending(Tail(work)) = {}
           /\ Smallest(kept, All \ (Due(f) \cup Pending(Tail(work))), op.limit)
           /\ All \subseteq DOMAIN tree /\ All \subseteq Seq(Name) /\ IsFiniteSet(All) /\ \A g : Due(g) \subseteq All
           /\ Tail(work) \in Seq(FrameType)
<1>1. FsTypeOK /\ ListingInv /\ IsTree(tree) /\ op.a \in Seq(Name)
  BY DEF FsInv, FsTypeOK, Writes
<1>2. /\ f \in FrameType /\ f.do \in {"walk", "listing", "keep"} /\ f.at \in Seq(Name) /\ f.depth \in Nat
      /\ f.left \subseteq Name /\ Tail(work) \in Seq(FrameType)
  BY <1>1, ListingTop
<1>3. /\ Laid(work) /\ Smallest(kept, All \ Pending(work), op.limit)
      /\ All \subseteq DOMAIN tree /\ All \subseteq Seq(Name) /\ IsFiniteSet(All) /\ \A g : Due(g) \subseteq All
  BY <1>1, ListedNow
<1>4. Lists(f) /\ Laid(Tail(work)) /\ Due(f) \cap Pending(Tail(work)) = {} /\ Pending(work) = Due(f) \cup Pending(Tail(work))
  BY <1>3, LaidUnder DEF f
<1>. QED BY <1>1, <1>2, <1>3, <1>4

LEMMA EnterListedOn ==
    ASSUME FsInv, outcome = "running", op.cmd = "list", op.limit \in Nat, ListedInv, counted = 0, EnterListed
    PROVE  ListedInv'
<1>. DEFINE x == [f EXCEPT !.do = "listing", !.left = dir_names(tree, f.at)]
            t == Tail(work)
<1>1. /\ work # <<>> /\ f.do = "walk" /\ work' = <<x>> \o t /\ tree' = tree /\ op' = op /\ counted' = counted /\ kept' = kept
  BY DEF EnterListed, Top, Calls, Frozen, Same0
<1>2. /\ FsTypeOK /\ IsTree(tree) /\ f \in FrameType /\ f.at \in Seq(Name) /\ Lists(f) /\ Laid(t)
      /\ Due(f) \cap Pending(t) = {} /\ Smallest(kept, All \ (Due(f) \cup Pending(t)), op.limit)
      /\ All \subseteq DOMAIN tree /\ All \subseteq Seq(Name)
  BY <1>1, ListedTop
<1>3. f.at \in DOMAIN tree /\ ~Is(tree, f.at, "link")
  BY <1>1, <1>2 DEF Lists
<1>4. /\ \A n \in dir_names(tree, f.at) : n \in Name
      /\ \A q \in DOMAIN tree : IsPrefix(f.at, q) /\ f.at # q => \E n \in dir_names(tree, f.at) : IsPrefix(Append(f.at, n), q)
  BY <1>2, <1>3, FirstNames
<1>5. /\ x \in FrameType /\ x.do = "listing" /\ x.at = f.at /\ x.depth = f.depth /\ x.left = dir_names(tree, f.at)
  <2>1. dir_names(tree, f.at) \subseteq Name /\ "listing" \in Dos
    BY <1>4 DEF Dos
  <2>. QED BY <1>2, <2>1 DEF FrameType
<1>. HIDE DEF x, t
<1>6. Lists(x)
  BY <1>1, <1>2, <1>5 DEF Lists
<1>7. Due(x) = Due(f)
  <2>1. ASSUME NEW q \in All PROVE (\E n \in x.left : IsPrefix(Append(f.at, n), q)) <=> IsPrefix(f.at, q) /\ f.at # q
    <3>1. q \in Seq(Name) /\ q \in DOMAIN tree
      BY <1>2
    <3>2. ASSUME NEW n \in x.left, IsPrefix(Append(f.at, n), q) PROVE IsPrefix(f.at, q) /\ f.at # q
      <4>1. n \in Name
        BY <1>4, <1>5
      <4>2. IsPrefix(f.at, q) /\ Len(q) > Len(f.at)
        BY <1>2, <3>1, <3>2, <4>1, Below
      <4>3. Len(q) \in Nat
        BY <3>1, LenProperties
      <4>. QED BY <4>2, <4>3
    <3>. QED BY <1>4, <1>5, <3>1, <3>2
  <2>. QED BY <1>1, <1>5, <2>1 DEF Due
<1>8. Laid(<<x>> \o t) /\ Pending(<<x>> \o t) = Due(f) \cup Pending(t)
  BY <1>2, <1>5, <1>6, <1>7, LaidOver
<1>. QED BY <1>1, <1>2, <1>8, ListedBy

LEMMA ListedDirOn ==
    ASSUME FsInv, outcome = "running", op.cmd = "list", op.limit \in Nat, ListedInv, counted = 0, Listed
    PROVE  ListedInv'
<1>1. /\ work # <<>> /\ f.do = "listing" /\ f.left = {} /\ work' = Tail(work)
      /\ tree' = tree /\ op' = op /\ counted' = counted /\ kept' = kept
  BY DEF Listed, Top, Return, Frozen, Same0
<1>2. /\ FsTypeOK /\ Laid(Tail(work)) /\ Smallest(kept, All \ (Due(f) \cup Pending(Tail(work))), op.limit)
  BY <1>1, ListedTop
<1>3. Due(f) = {}
  BY <1>1 DEF Due
<1>4. All \ (Due(f) \cup Pending(Tail(work))) = All \ Pending(Tail(work))
  BY <1>3
<1>. QED BY <1>1, <1>2, <1>4, ListedBy

LEMMA KeepOn ==
    ASSUME FsInv, outcome = "running", op.cmd = "list", op.limit \in Nat, ListedInv, counted = 0, Keep
    PROVE  ListedInv'
<1>. DEFINE t == Tail(work)
            of == All \ (Due(f) \cup Pending(t))
            q == f.at
<1>1. /\ work # <<>> /\ f.do = "keep" /\ ent_keep(q) /\ work' = t
      /\ tree' = tree /\ op' = op /\ counted' = counted
  BY DEF Keep, Top, Return, Frozen
<1>2. /\ FsTypeOK /\ Lists(f) /\ Laid(t) /\ Due(f) \cap Pending(t) = {} /\ Smallest(kept, of, op.limit)
      /\ All \subseteq Seq(Name) /\ IsFiniteSet(All)
  BY <1>1, ListedTop
<1>3. q \in All /\ Due(f) = {q}
  BY <1>1, <1>2 DEF Lists, Due
<1>4. of \subseteq Seq(Name) /\ IsFiniteSet(of) /\ q \notin of /\ q \in Seq(Name) /\ of \cup {q} = All \ Pending(t)
  BY <1>2, <1>3, FS_Subset
<1>. HIDE DEF of, t, q
<1>5. Smallest(kept', of \cup {q}, op.limit)
  BY <1>1, <1>2, <1>4, KeepSmallest
<1>6. Laid(work') /\ Smallest(kept', All \ Pending(work'), op.limit)
  BY <1>1, <1>2, <1>4, <1>5
<1>. QED BY <1>1, <1>2, <1>6, ListedBy

\* At most one frame, which gives what D holds.
Gives(s, D) == \/ s = <<>> /\ D = {}
               \/ \E x \in FrameType : s = <<x>> /\ Lists(x) /\ Due(x) = D

LEMMA LaidMaybe ==
    ASSUME NEW w, Laid(w), NEW s, NEW D, Gives(s, D), D \cap Pending(w) = {}
    PROVE  s \in Seq(FrameType) /\ Laid(s \o w) /\ Pending(s \o w) = D \cup Pending(w)
<1>1. w \in Seq(FrameType)
  BY DEF Laid
<1>2. CASE s = <<>> /\ D = {}
  <2>1. <<>> \o w = w /\ <<>> \in Seq(FrameType)
    BY <1>1, ConcatEmptySeq, EmptySeq
  <2>. QED BY <1>2, <2>1
<1>3. ASSUME NEW x \in FrameType, s = <<x>>, Lists(x), Due(x) = D
      PROVE  s \in Seq(FrameType) /\ Laid(s \o w) /\ Pending(s \o w) = D \cup Pending(w)
  <2>1. Laid(<<x>> \o w) /\ Pending(<<x>> \o w) = Due(x) \cup Pending(w)
    BY <1>3, LaidOver
  <2>2. <<x>> \in Seq(FrameType)
    OBVIOUS
  <2>. QED BY <1>3, <2>1, <2>2
<1>. QED BY <1>2, <1>3 DEF Gives

\* An entry, what is below it, and the entries beside it are apart.
LEMMA EntryDue ==
    ASSUME FsInv, outcome = "running", op.cmd = "list", ListedInv, counted = 0, work # <<>>, f.do = "listing", NEW n \in f.left
    PROVE  LET q == Append(f.at, n)
               inside == {x \in All : IsPrefix(q, x) /\ q # x}
               self == {x \in All : x = q}
               r == Rest(n)
           IN /\ r \in FrameType /\ Lists(r) /\ Due(f) = inside \cup self \cup Due(r)
              /\ inside \cap self = {} /\ inside \cap Due(r) = {} /\ self \cap Due(r) = {}
<1>. DEFINE q == Append(f.at, n)
            r == Rest(n)
<1>1. /\ FsTypeOK /\ IsTree(tree) /\ f \in FrameType /\ f.at \in Seq(Name) /\ Lists(f)
      /\ All \subseteq DOMAIN tree /\ All \subseteq Seq(Name) /\ f.left \subseteq Name /\ n \in Name
  BY ListedTop
<1>2. r \in FrameType /\ r.do = "listing" /\ r.at = f.at /\ r.depth = f.depth /\ r.left = f.left \ {n}
  BY <1>1 DEF Rest, FrameType
<1>. HIDE DEF r
<1>3. Lists(r)
  BY <1>1, <1>2 DEF Lists
<1>4. q \in Seq(Name) /\ IsPrefix(q, q)
  <2>1. q \in Seq(Name)
    BY <1>1, Appended
  <2>. HIDE DEF q
  <2>. QED BY <2>1, PrefixOrder
<1>5. Due(f) = {x \in All : \E m \in f.left : IsPrefix(Append(f.at, m), x)}
  BY DEF Due
<1>6. Due(r) = {x \in All : \E m \in f.left \ {n} : IsPrefix(Append(f.at, m), x)}
  BY <1>2 DEF Due
<1>7. ASSUME NEW x \in Due(r) PROVE ~IsPrefix(q, x)
  <2>1. PICK m \in f.left \ {n} : IsPrefix(Append(f.at, m), x)
    BY <1>6
  <2>2. x \in Seq(Name) /\ m \in Name /\ m # n
    BY <1>1, <1>6
  <2>3. x[Len(f.at) + 1] = m
    BY <1>1, <2>1, <2>2, Below
  <2>4. IsPrefix(Append(f.at, n), x) => x[Len(f.at) + 1] = n
    BY <1>1, <2>2, Below
  <2>. QED BY <2>2, <2>3, <2>4
<1>8. Due(f) = {x \in All : IsPrefix(q, x)} \cup Due(r)
  BY <1>5, <1>6
<1>. HIDE DEF q
<1>9. {x \in All : IsPrefix(q, x)} = {x \in All : IsPrefix(q, x) /\ q # x} \cup {x \in All : x = q}
  BY <1>4
<1>10. /\ {x \in All : IsPrefix(q, x) /\ q # x} \cap {x \in All : x = q} = {}
       /\ {x \in All : IsPrefix(q, x) /\ q # x} \cap Due(r) = {}
       /\ {x \in All : x = q} \cap Due(r) = {}
  BY <1>4, <1>7
<1>. QED BY <1>2, <1>3, <1>8, <1>9, <1>10 DEF q, r

LEMMA EntryGives ==
    ASSUME FsInv, outcome = "running", op.cmd = "list", ListedInv, counted = 0, work # <<>>, f.do = "listing", NEW n \in f.left
    PROVE  LET q == Append(f.at, n)
               below == IF op.flag /\ HoldsA(q, "dir") /\ f.depth < DepthMax
                        THEN <<Pair("walk", <<>>, q, f.depth + 1)>> ELSE <<>>
               itself == IF Holds(q) THEN <<Frame("keep", q)>> ELSE <<>>
           IN /\ Gives(below, {x \in All : IsPrefix(q, x) /\ q # x})
              /\ Gives(itself, {x \in All : x = q})
<1>. DEFINE q == Append(f.at, n)
            down == f.depth + 1
            inside == {x \in All : IsPrefix(q, x) /\ q # x}
            self == {x \in All : x = q}
<1>1. /\ FsTypeOK /\ IsTree(tree) /\ op.a \in Seq(Name) /\ f \in FrameType /\ f.at \in Seq(Name) /\ Lists(f) /\ f.depth \in Nat
      /\ All \subseteq DOMAIN tree /\ All \subseteq Seq(Name) /\ f.left \subseteq Name /\ n \in Name
  BY ListedTop
<1>2. /\ f.at \in DOMAIN tree /\ IsPrefix(op.a, f.at) /\ ~Is(tree, f.at, "link")
      /\ Len(f.at) - Len(op.a) = f.depth /\ f.depth <= Depth
  BY <1>1 DEF Lists
<1>3. /\ q \in Seq(Name) /\ q # <<>> /\ Front(q) = f.at /\ Last(q) = n /\ Len(q) = Len(f.at) + 1 /\ IsPrefix(op.a, q)
  BY <1>1, <1>2, Appended, PrefixEnds
<1>4. os_realpath(tree, f.at) = f.at
  BY <1>1, <1>2, Itself
<1>5. Append(f.at, n) = q
  OBVIOUS
<1>. HIDE DEF q
<1>6. Len(q) - Len(op.a) = down /\ down \in Nat /\ down >= 1 /\ Depth \in Nat /\ Len(op.a) \in Nat /\ Len(q) \in Nat
      /\ down <= Depth + 1
  <2>1. Len(f.at) \in Nat /\ Len(op.a) \in Nat
    BY <1>1, LenProperties
  <2>2. Depth \in Nat
    BY FsAssumption DEF Depth
  <2>. DEFINE lat == Len(f.at)
              la == Len(op.a)
  <2>3. lat \in Nat /\ la \in Nat /\ f.depth \in Nat /\ lat - la = f.depth /\ f.depth <= Depth /\ Len(q) = lat + 1
    BY <1>1, <1>2, <1>3, <2>1
  <2>. HIDE DEF lat, la
  <2>4. Len(q) - la = down /\ down \in Nat /\ down >= 1 /\ Len(q) \in Nat /\ down <= Depth + 1
    BY <2>2, <2>3
  <2>. QED BY <2>2, <2>3, <2>4 DEF la
<1>. HIDE DEF down
<1>7. q \in DOMAIN tree => Is(tree, f.at, "dir")
  BY <1>1, <1>3, InTree
<1>8. /\ Holds(q) <=> q \in DOMAIN tree
      /\ HoldsA(q, "dir") <=> Is(tree, q, "dir")
  <2>1. Place(q) = q
    BY <1>3, <1>4, <1>5 DEF Place
  <2>2. Holds(q) <=> q \in DOMAIN tree
    BY <1>3, <1>4, <1>7, <2>1 DEF Holds, Parent
  <2>. QED BY <2>1, <2>2 DEF HoldsA, Is
<1>9. q \in DOMAIN tree => q \in All
  <2>1. Len(q) - Len(op.a) \in 1..Depth + 1
    BY <1>6
  <2>. QED BY <1>3, <2>1 DEF All
<1>10. ASSUME NEW x \in inside PROVE q \in DOMAIN tree /\ Is(tree, q, "dir") /\ down <= Depth
  <2>1. x \in DOMAIN tree /\ x \in Seq(Name) /\ IsPrefix(q, x) /\ q # x /\ Len(x) - Len(op.a) \in 1..Depth + 1 /\ Len(x) \in Nat
    BY <1>1, LenProperties DEF All
  <2>2. Len(x) > Len(q)
    BY <1>3, <2>1, Below
  <2>3. q = SubSeq(x, 1, Len(q))
    BY <1>3, <2>1, Prefix
  <2>4. Len(q) \in 0..Len(x) - 1
    BY <1>6, <2>1, <2>2
  <2>5. Is(tree, q, "dir")
    BY <1>1, <2>1, <2>3, <2>4, InTree
  <2>6. down <= Depth
    BY <1>6, <2>1, <2>2
  <2>. QED BY <2>5, <2>6 DEF Is
<1>. HIDE DEF inside
<1>11. Gives(IF Holds(q) THEN <<Frame("keep", q)>> ELSE <<>>, self)
  <2>1. CASE Holds(q)
    <3>. DEFINE x == Frame("keep", q)
    <3>1. x \in FrameType /\ x.do = "keep" /\ x.at = q
      <4>1. "keep" \in Dos /\ 0 \in Nat /\ <<>> \in Seq(Int)
        BY EmptySeq DEF Dos
      <4>. QED BY <1>3, <4>1, FrameTypes
    <3>. HIDE DEF x
    <3>2. Lists(x) /\ Due(x) = self
      BY <1>8, <1>9, <2>1, <3>1 DEF Lists, Due
    <3>. HIDE DEF self
    <3>3. Gives(<<x>>, self)
      BY <3>1, <3>2 DEF Gives
    <3>. QED BY <2>1, <3>3 DEF x
  <2>2. CASE ~Holds(q)
    <3>1. self = {}
      BY <1>1, <1>8, <2>2
    <3>. QED BY <2>2, <3>1 DEF Gives
  <2>. QED BY <2>1, <2>2
<1>12. Gives(IF op.flag /\ HoldsA(q, "dir") /\ f.depth < DepthMax THEN <<Pair("walk", <<>>, q, down)>> ELSE <<>>, inside)
  <2>. DEFINE go == op.flag /\ HoldsA(q, "dir") /\ f.depth < DepthMax
  <2>1. CASE go
    <3>. DEFINE x == Pair("walk", <<>>, q, down)
    <3>1. x \in FrameType /\ x.do = "walk" /\ x.at = q /\ x.depth = down
      <4>1. "walk" \in Dos /\ <<>> \in Seq(Int)
        BY EmptySeq DEF Dos
      <4>2. x.depth = down
        BY DEF Pair, Frame
      <4>3. x \in FrameType /\ x.do = "walk" /\ x.at = q
        <5>. DEFINE do == "walk"
                    none == <<>>
        <5>1. do \in Dos /\ none \in Seq(Int) /\ q \in Seq(Name) /\ down \in Nat
          BY <1>3, <1>6, <4>1
        <5>. HIDE DEF do, none
        <5>2. /\ Pair(do, none, q, down) \in FrameType
              /\ Pair(do, none, q, down).do = do /\ Pair(do, none, q, down).at = q
          BY <5>1, FrameTypes
        <5>. QED BY <5>2 DEF do, none
      <4>. QED BY <4>2, <4>3
    <3>. HIDE DEF x
    <3>2. Depth = DepthMax /\ down <= Depth
      <4>1. Depth = DepthMax
        BY <2>1 DEF Depth
      <4>2. f.depth + 1 <= DepthMax
        BY <1>1, <2>1, FsAssumption
      <4>. QED BY <4>1, <4>2 DEF down
    <3>3. q \in DOMAIN tree /\ ~Is(tree, q, "link")
      BY <1>8, <2>1 DEF Is
    <3>4. Lists(x)
      BY <1>3, <1>6, <3>1, <3>2, <3>3 DEF Lists
    <3>5. Due(x) = inside
      BY <3>1 DEF Due, inside
    <3>6. Gives(<<x>>, inside)
      BY <3>1, <3>4, <3>5 DEF Gives
    <3>. QED BY <2>1, <3>6 DEF x
  <2>2. CASE ~go
    <3>1. ASSUME NEW x \in inside PROVE FALSE
      <4>1. Is(tree, q, "dir") /\ down <= Depth
        BY <1>10
      <4>2. op.flag /\ Depth = DepthMax
        BY <1>1, <1>6, <4>1 DEF Depth, down
      <4>3. f.depth < DepthMax
        BY <1>1, <4>1, <4>2, FsAssumption DEF down
      <4>. QED BY <1>8, <2>2, <4>1, <4>2, <4>3
    <3>2. inside = {}
      BY <3>1
    <3>. QED BY <2>2, <3>2 DEF Gives
  <2>. QED BY <2>1, <2>2
<1>. QED BY <1>11, <1>12 DEF q, down, inside

LEMMA ListEntryOn ==
    ASSUME FsInv, outcome = "running", op.cmd = "list", op.limit \in Nat, ListedInv, counted = 0, ListEntry
    PROVE  ListedInv'
<1>. DEFINE t == Tail(work)
            q(n) == Append(f.at, n)
            b(n) == IF op.flag /\ HoldsA(q(n), "dir") /\ f.depth < DepthMax
                    THEN <<Pair("walk", <<>>, q(n), f.depth + 1)>> ELSE <<>>
            i(n) == IF Holds(q(n)) THEN <<Frame("keep", q(n))>> ELSE <<>>
<1>1. /\ work # <<>> /\ f.do = "listing" /\ tree' = tree /\ op' = op /\ counted' = counted /\ kept' = kept
      /\ \E n \in f.left : work' = (b(n) \o i(n) \o <<Rest(n)>>) \o t
  BY DEF ListEntry, Top, Calls, Frozen, Same0
<1>2. PICK n \in f.left : work' = (b(n) \o i(n) \o <<Rest(n)>>) \o t
  BY <1>1
<1>. DEFINE below == b(n)
            itself == i(n)
            r == Rest(n)
            inside == {x \in All : IsPrefix(q(n), x) /\ q(n) # x}
            self == {x \in All : x = q(n)}
<1>3. FsTypeOK /\ Laid(t) /\ Due(f) \cap Pending(t) = {} /\ Smallest(kept, All \ (Due(f) \cup Pending(t)), op.limit)
  BY <1>1, ListedTop
<1>4. /\ r \in FrameType /\ Lists(r) /\ Due(f) = inside \cup self \cup Due(r)
      /\ inside \cap self = {} /\ inside \cap Due(r) = {} /\ self \cap Due(r) = {}
  BY <1>1, EntryDue
<1>5. Gives(below, inside) /\ Gives(itself, self)
  BY <1>1, EntryGives
<1>6. work' = (below \o itself \o <<r>>) \o t
  BY <1>2
<1>. HIDE DEF below, itself, r, inside, self, t, q, b, i
<1>7. Laid(<<r>> \o t) /\ Pending(<<r>> \o t) = Due(r) \cup Pending(t)
  <2>1. Due(r) \cap Pending(t) = {}
    BY <1>3, <1>4
  <2>. QED BY <1>3, <1>4, <2>1, LaidOver
<1>. DEFINE w1 == <<r>> \o t
            w2 == itself \o w1
            w3 == below \o w2
<1>8. Laid(w1) /\ Pending(w1) = Due(r) \cup Pending(t)
  BY <1>7
<1>9. itself \in Seq(FrameType) /\ Laid(w2) /\ Pending(w2) = self \cup Pending(w1)
  <2>. HIDE DEF w1
  <2>1. self \cap Pending(w1) = {}
    BY <1>3, <1>4, <1>8
  <2>. QED BY <1>5, <1>8, <2>1, LaidMaybe
<1>10. below \in Seq(FrameType) /\ Laid(w3) /\ Pending(w3) = inside \cup Pending(w2)
  <2>. HIDE DEF w1, w2
  <2>1. inside \cap Pending(w2) = {}
    BY <1>3, <1>4, <1>8, <1>9
  <2>. QED BY <1>5, <1>9, <2>1, LaidMaybe
<1>11. Pending(w3) = Due(f) \cup Pending(t)
  <2>. HIDE DEF w1, w2, w3
  <2>. QED BY <1>4, <1>8, <1>9, <1>10
<1>12. work' = w3
  <2>. DEFINE o == <<r>>
  <2>1. o \in Seq(FrameType) /\ t \in Seq(FrameType)
    BY <1>3, <1>4 DEF Laid
  <2>2. work' = ((below \o itself) \o o) \o t /\ w3 = below \o (itself \o (o \o t))
    BY <1>6
  <2>. HIDE DEF o, w1, w2, w3
  <2>3. below \o itself \in Seq(FrameType) /\ o \o t \in Seq(FrameType)
    BY <1>9, <1>10, <2>1, PrefixConcat
  <2>4. ((below \o itself) \o o) \o t = (below \o itself) \o (o \o t)
    BY <2>1, <2>3, ConcatAssociative, SMTT(25)
  <2>5. (below \o itself) \o (o \o t) = below \o (itself \o (o \o t))
    <3>. DEFINE v == o \o t
    <3>1. v \in Seq(FrameType) /\ below \in Seq(FrameType) /\ itself \in Seq(FrameType)
      BY <1>9, <1>10, <2>3
    <3>. HIDE DEF v
    <3>2. (below \o itself) \o v = below \o (itself \o v)
      BY <3>1, ConcatAssociative
    <3>. QED BY <3>2 DEF v
  <2>. QED BY <2>2, <2>4, <2>5
<1>. HIDE DEF w1, w2, w3
<1>13. Laid(work') /\ Smallest(kept', All \ Pending(work'), op.limit)
  BY <1>1, <1>3, <1>10, <1>11, <1>12
<1>. QED BY <1>1, <1>3, <1>13, ListedBy

LEMMA ListedOn ==
    ASSUME FsInv, outcome = "running", op.cmd = "list", op.limit \in Nat, ListedInv, FsNext, outcome' = "running"
    PROVE  ListedInv'
<1>1. FsTypeOK /\ ListingInv
  BY DEF FsInv, Writes
<1>2. work # <<>> /\ op' = op /\ ~Finish /\ ~Fails /\ \A c \in FsCalls : ~Call(c)
  BY DEF FsNext, Finish, Fails, Call, MakeParent, MakeDir, OpenOld, OpenNew, Fill, Unlinked, EnterRemoved, RemoveEntry,
         RemoveDir, EnterCopied, CopyEntry, Copied, OpenCopy, CopyData, MakeLink, MakeRoom, Rename1, Across,
         EnterListed, SkipListed, ListEntry, Listed, Keep, Top, Frozen
<1>3. EnterListed \/ SkipListed \/ ListEntry \/ Listed \/ Keep
  <2>1. f.do \in {"walk", "listing", "keep"}
    BY <1>1, <1>2, ListingTop
  <2>. QED BY <1>2, <2>1 DEF FsNext, MakeParent, MakeDir, OpenOld, OpenNew, Fill, Unlinked, EnterRemoved, RemoveEntry,
                RemoveDir, EnterCopied, CopyEntry, Copied, OpenCopy, CopyData, MakeLink, MakeRoom, Rename1, Across, Top
<1>4. counted \in Nat
  BY <1>1 DEF FsTypeOK
<1>5. CASE counted = 0 /\ ~SkipListed
  BY <1>3, <1>5, EnterListedOn, ListEntryOn, ListedDirOn, KeepOn
<1>6. CASE SkipListed
  <2>1. counted' = counted + 1
    BY <1>6 DEF SkipListed
  <2>2. counted' # 0
    BY <1>4, <2>1
  <2>. QED BY <2>2 DEF ListedInv
<1>7. CASE counted # 0 /\ ~SkipListed
  <2>1. counted' = counted
    BY <1>3, <1>7 DEF EnterListed, ListEntry, Listed, Keep, Same0
  <2>. QED BY <1>7, <2>1 DEF ListedInv
<1>. QED BY <1>5, <1>6, <1>7

\* When nothing is left to do, the smallest of all are kept.
LEMMA ListedEnd ==
    ASSUME FsTypeOK, outcome = "running", op.limit \in Nat, ListedInv, counted = 0, work = <<>>
    PROVE  /\ Entries = {q \in All : Cardinality({x \in All : Less(x, q)}) < op.limit}
           /\ Truncated <=> Cardinality(All) > op.limit
<1>1. /\ Smallest(kept, All \ Pending(work), op.limit) /\ All \subseteq Seq(Name) /\ IsFiniteSet(All)
  BY ListedNow
<1>2. Range(work) = {}
  BY Ranges, EmptySeq
<1>3. All \ Pending(work) = All
  BY <1>2 DEF Pending
<1>. QED BY <1>1, <1>3, SmallestExact

-----------------------------------------------------------------------------
(* A call that begins *)

LEMMA RangeOfOne ==
    ASSUME NEW x \in FrameType
    PROVE  <<x>> \in Seq(FrameType) /\ <<x>> # <<>> /\ Len(<<x>>) = 1 /\ <<x>>[1] = x /\ Range(<<x>>) = {x}
<1>. DEFINE v == <<x>>
<1>1. v \in Seq(FrameType) /\ Len(v) = 1 /\ v[1] = x
  BY OneFrame
<1>. HIDE DEF v
<1>2. Range(v) = {v[i] : i \in 1..Len(v)} /\ v # <<>>
  BY <1>1, Ranges, EmptySeq
<1>3. \A i \in 1..Len(v) : v[i] = x
  BY <1>1
<1>4. 1 \in 1..Len(v)
  BY <1>1
<1>5. Range(v) = {x}
  BY <1>1, <1>2, <1>3, <1>4
<1>. QED BY <1>1, <1>2, <1>5 DEF v

LEMMA BeginRemoved ==
    ASSUME IsTree(tree), NEW c \in FsCall, c.cmd = "remove", NEW a, a.path \in DOMAIN tree,
           NEW b, Run(c, a, b), tree' = tree, counted' = 0
    PROVE  RemovedInv'
<1>. DEFINE x == Frame(IF HoldsA(a.path, "dir") /\ ~c.flag THEN "rmdir" ELSE "drop", a.path)
<1>1. work' = <<x>> /\ op'.a = a.path /\ op'.before = tree
  BY DEF Run, cmd_remove
<1>2. x \in FrameType /\ x.at = a.path
  <2>. DEFINE do == IF HoldsA(a.path, "dir") /\ ~c.flag THEN "rmdir" ELSE "drop"
  <2>1. do \in Dos /\ a.path \in Seq(Name) /\ <<>> \in Seq(Int) /\ 0 \in Nat
    BY InTree, EmptySeq DEF Dos
  <2>. HIDE DEF do
  <2>2. Frame(do, a.path) \in FrameType /\ Frame(do, a.path).at = a.path
    BY <2>1, FrameTypes
  <2>. QED BY <2>2 DEF do
<1>. HIDE DEF x
<1>3. work' # <<>> /\ work'[Len(work')].at = op'.a
  BY <1>1, <1>2, RangeOfOne
<1>4. Cardinality(DOMAIN tree) - Cardinality(DOMAIN tree) = 0
  <2>1. Cardinality(DOMAIN tree) \in Nat
    BY FS_CardinalityType DEF IsTree
  <2>. QED BY <2>1
<1>. QED BY <1>1, <1>3, <1>4 DEF RemovedInv

LEMMA BeginMoved ==
    ASSUME IsTree(tree), NEW c \in FsCall, c.cmd = "move", NEW a, a.path \in DOMAIN tree,
           NEW b, b.path \in Seq(Name), Run(c, a, b), tree' = tree
    PROVE  MovedInv'
<1>. DEFINE x == Pair("rename", a.path, b.path, 0)
<1>1. work' = <<x>> /\ op'.a = a.path /\ op'.b = b.path /\ op'.before = tree
  BY DEF Run, cmd_move
<1>2. x \in FrameType /\ x.do = "rename"
  <2>1. "rename" \in Dos /\ a.path \in Seq(Int) /\ 0 \in Nat
    BY InTree DEF Dos
  <2>. QED BY <2>1, FrameTypes
<1>. HIDE DEF x
<1>3. work' # <<>> /\ work'[1].do = "rename"
  BY <1>1, <1>2, RangeOfOne
<1>4. Same(tree, a.path, tree, a.path)
  BY InTree, SameSelf
<1>. QED BY <1>1, <1>3, <1>4 DEF MovedInv

LEMMA BeginCopied ==
    ASSUME IsTree(tree), NEW c \in FsCall, c.cmd = "copy", NEW a, a.path \in DOMAIN tree, ~Is(tree, a.path, "link"),
           NEW b, b.path \in Seq(Name), Run(c, a, b), tree' = tree
    PROVE  CopiedInv'
<1>. DEFINE src == a.path
            dst == b.path
<1>1. work' = cmd_copy(src, dst, c.flag) /\ op'.a = src /\ op'.b = dst /\ op'.before = tree
  BY DEF Run
<1>2. /\ src \in Seq(Name) /\ src \in Seq(Int) /\ dst \in Seq(Name) /\ os_realpath(tree, src) = src /\ src \in DOMAIN tree
      /\ IsPrefix(src, src) /\ Onto(src, dst, src) = dst
  BY InTree, Itself, PrefixOrder, OntoOrder
<1>. HIDE DEF src, dst
<1>3. \E x \in FrameType :
        /\ work' = <<x>> /\ x.at = dst /\ x.from = src
        /\ \/ x.do = "tree" /\ tree[src].kind = "dir"
           \/ x.do = "file" /\ tree[src].kind = "file"
           \/ x.do = "refuse"
  <2>. DEFINE do == IF tree[src].kind = "dir" THEN IF c.flag THEN "tree" ELSE "refuse"
                    ELSE IF tree[src].kind = "file" THEN "file" ELSE "refuse"
              x == Pair(do, src, dst, 0)
  <2>1. work' = <<x>>
    BY <1>1, <1>2 DEF cmd_copy, Is
  <2>2. /\ do \in Dos /\ 0 \in Nat
        /\ \/ do = "tree" /\ tree[src].kind = "dir"
           \/ do = "file" /\ tree[src].kind = "file"
           \/ do = "refuse"
    BY DEF Dos
  <2>. HIDE DEF do
  <2>3. x \in FrameType /\ x.do = do /\ x.at = dst /\ x.from = src
    BY <1>2, <2>2, FrameTypes
  <2>. QED BY <2>1, <2>2, <2>3
<1>4. PICK x \in FrameType :
        /\ work' = <<x>> /\ x.at = dst /\ x.from = src
        /\ \/ x.do = "tree" /\ tree[src].kind = "dir"
           \/ x.do = "file" /\ tree[src].kind = "file"
           \/ x.do = "refuse"
  BY <1>3
<1>6. Range(work') = {x}
  BY <1>4, RangeOfOne
<1>7. Before(op.a)' = {q \in DOMAIN tree : IsPrefix(src, q)}
  BY <1>1 DEF Before
<1>8. Copies(x)'
  <2>1. Copy(src)' = dst
    BY <1>1, <1>2 DEF Copy
  <2>2. src \in Before(op.a)'
    BY <1>2, <1>7
  <2>3. op'.before[src].kind = tree[src].kind
    BY <1>1
  <2>. QED BY <1>4, <2>1, <2>2, <2>3 DEF Copies
<1>9. ASSUME NEW y \in DOMAIN tree, IsPrefix(src, y) PROVE Awaits(x, y)'
  <2>1. CASE x.do = "file"
    <3>1. Leaf(tree, src)
      BY <1>2, <1>4, <2>1, Leaves DEF Is
    <3>2. y = src
      BY <1>9, <3>1 DEF Leaf
    <3>3. Copy(y)' = dst
      BY <1>1, <1>2, <3>2 DEF Copy
    <3>. QED BY <1>4, <2>1, <3>3 DEF Awaits
  <2>2. CASE x.do # "file"
    BY <1>4, <1>9, <2>2 DEF Awaits
  <2>. QED BY <2>1, <2>2
<1>10. SourceKept'
  BY <1>1, <1>7 DEF SourceKept
<1>11. (\A g \in Range(work) : Copies(g))'
  BY <1>6, <1>8
<1>12. (\A y \in Before(op.a) : HasCopy(y) \/ \E g \in Range(work) : Awaits(g, y))'
  BY <1>6, <1>7, <1>9
<1>. QED BY <1>10, <1>11, <1>12 DEF CopiedInv

LEMMA BeginListed ==
    ASSUME IsTree(tree), NEW c \in FsCall, c.cmd = "list", NEW a, a.path \in DOMAIN tree, ~Is(tree, a.path, "link"),
           NEW b, Run(c, a, b), tree' = tree, kept' = {}
    PROVE  ListedInv'
<1>. DEFINE x == Frame("walk", a.path)
            top == a.path
<1>1. work' = <<x>> /\ op'.a = top /\ op'.limit = c.limit /\ c.limit \in Nat
  BY DEF Run, FsCall
<1>2. x \in FrameType /\ x.do = "walk" /\ x.at = top /\ x.depth = 0 /\ top \in Seq(Name)
  <2>. DEFINE do == "walk"
  <2>1. do \in Dos /\ top \in Seq(Name)
    BY InTree DEF Dos
  <2>2. <<>> \in Seq(Int) /\ 0 \in Nat
    BY EmptySeq
  <2>. HIDE DEF do, top
  <2>3. Frame(do, top) \in FrameType /\ Frame(do, top).do = do /\ Frame(do, top).at = top
    BY <2>1, <2>2, FrameTypes
  <2>4. Frame(do, top).depth = 0
    BY DEF Frame
  <2>. QED BY <2>1, <2>3, <2>4 DEF do, top
<1>. HIDE DEF x
<1>3. Range(work') = {x} /\ Len(work') = 1
  BY <1>1, <1>2, RangeOfOne
<1>4. IsPrefix(top, top) /\ Len(top) \in Nat
  BY <1>2, PrefixOrder, LenProperties
<1>5. Depth' \in Nat
  BY FsAssumption DEF Depth
<1>6. top \in DOMAIN tree /\ ~Is(tree, top, "link")
  OBVIOUS
<1>. HIDE DEF top
<1>7. Lists(x)'
  <2>1. Len(top) - Len(top) = 0 /\ 0 <= Depth'
    BY <1>4, <1>5
  <2>. QED BY <1>1, <1>2, <1>4, <1>6, <2>1 DEF Lists
<1>8. ASSUME NEW q \in All' PROVE q \in Due(x)'
  <2>1. IsPrefix(top, q) /\ Len(q) - Len(top) >= 1
    BY <1>1, <1>5 DEF All
  <2>2. top # q
    BY <1>4, <2>1
  <2>. QED BY <1>1, <1>2, <2>1, <2>2 DEF Due
<1>9. Seen' = {}
  BY <1>3, <1>8 DEF Seen
<1>10. Apiece(work)'
  <2>1. ASSUME NEW i \in 1..Len(work'), NEW j \in 1..Len(work'), i < j PROVE FALSE
    BY <1>3, <2>1
  <2>. QED BY <2>1 DEF Apiece
<1>11. Smallest(kept, Seen, op.limit)'
  <2>1. Cardinality({}) = 0 /\ 0 <= c.limit + 1
    BY <1>1, FS_EmptySet
  <2>. QED BY <1>1, <1>9, <2>1 DEF Smallest
<1>12. (\A g \in Range(work) : Lists(g))'
  BY <1>3, <1>7
<1>. QED BY <1>10, <1>11, <1>12 DEF ListedInv

-----------------------------------------------------------------------------
(* Results *)

LEMMA ResultUnchanged ==
    ASSUME ResultInv, UNCHANGED fsVars
    PROVE  ResultInv'
<1>1. /\ tree' = tree /\ op' = op /\ work' = work /\ outcome' = outcome /\ counted' = counted /\ kept' = kept
  BY DEF fsVars
<1>2. FilesTrue'
  BY <1>1 DEF ResultInv, FilesTrue, ResultTrue, ListExact, Entries, Truncated
<1>3. RemovedInv => RemovedInv'
  BY <1>1 DEF RemovedInv
<1>4. CopiedInv => CopiedInv'
  BY <1>1 DEF CopiedInv, Apart, SourceKept, Before, Copies, HasCopy, Awaits, Copy, Onto
<1>5. MovedInv => MovedInv'
  BY <1>1 DEF MovedInv, Apart
<1>6. ListedInv => ListedInv'
  <2>1. All' = All /\ \A g : Lists(g)' <=> Lists(g)
    BY <1>1 DEF All, Depth, Lists
  <2>2. \A g : Due(g)' = Due(g)
    BY <1>1, <2>1 DEF Due
  <2>3. Seen' = Seen
    BY <1>1, <2>1, <2>2 DEF Seen
  <2>4. Apiece(work) => Apiece(work)'
    BY <1>1, <2>2 DEF Apiece
  <2>5. Smallest(kept, Seen, op.limit) => Smallest(kept, Seen, op.limit)'
    BY <1>1, <2>3 DEF Smallest
  <2>. QED BY <1>1, <2>1, <2>4, <2>5 DEF ListedInv
<1>. QED BY <1>1, <1>2, <1>3, <1>4, <1>5, <1>6 DEF ResultInv

LEMMA ResultCall ==
    ASSUME FsTypeOK, NEW c \in FsCalls, Call(c)
    PROVE  ResultInv'
<1>1. IsTree(tree) /\ tree' = tree /\ counted' = 0 /\ kept' = {}
  BY DEF FsTypeOK, Call
<1>2. c \in FsCall
  BY FsAssumption
<1>3. PICK a, b : LetThrough(c, a, b) /\ (Denied(a, b) \/ Run(c, a, b))
  BY CallPaths
<1>4. LetThrough(c, a, b)
  BY <1>3
<1>5. CASE Denied(a, b)
  <2>1. outcome' # "running" /\ op'.cmd = "none"
    BY <1>4, <1>5 DEF LetThrough, Denied, NoOp
  <2>2. FilesTrue'
    BY <2>1 DEF FilesTrue, ResultTrue, ListExact
  <2>. QED BY <2>1, <2>2 DEF ResultInv
<1>6. CASE Run(c, a, b)
  <2>1. /\ a.code = "ok" /\ b.code = "ok" /\ outcome' = "running"
        /\ op'.cmd = c.cmd /\ op'.before = tree /\ op'.limit = c.limit /\ c.limit \in Nat
    BY <1>2, <1>6 DEF Run, FsCall
  <2>2. FilesTrue'
    BY <2>1 DEF FilesTrue, ResultTrue, ListExact
  <2>3. c.cmd = "remove" => RemovedInv'
    BY <1>1, <1>2, <1>4, <1>6, <2>1, BeginRemoved DEF LetThrough
  <2>4. c.cmd = "copy" => CopiedInv'
    BY <1>1, <1>2, <1>4, <1>6, <2>1, BeginCopied DEF LetThrough
  <2>5. c.cmd = "move" => MovedInv'
    BY <1>1, <1>2, <1>4, <1>6, <2>1, BeginMoved DEF LetThrough
  <2>6. c.cmd = "list" => ListedInv'
    BY <1>1, <1>2, <1>4, <1>6, <2>1, BeginListed DEF LetThrough
  <2>. QED BY <1>1, <2>1, <2>2, <2>3, <2>4, <2>5, <2>6 DEF ResultInv
<1>. QED BY <1>3, <1>5, <1>6

\* Nothing is left to be done.
LEMMA ResultFinish ==
    ASSUME FsTypeOK, ResultInv, Finish
    PROVE  ResultInv'
<1>1. /\ outcome = "running" /\ outcome' = "ok" /\ work = <<>>
      /\ tree' = tree /\ op' = op /\ work' = work /\ counted' = counted /\ kept' = kept
  BY DEF Finish, Running
<1>2. IsTree(tree) /\ IsTree(op.before) /\ op.a \in Seq(Name) /\ op.limit \in Nat
  BY <1>1 DEF FsTypeOK, ResultInv
<1>3. ASSUME op.cmd = "remove"
      PROVE  /\ tree = [q \in {x \in DOMAIN op.before : ~IsPrefix(op.a, x)} |-> op.before[q]]
             /\ counted = Cardinality(DOMAIN op.before) - Cardinality(DOMAIN tree)
  <2>1. RemovedInv
    BY <1>1, <1>3 DEF ResultInv
  <2>. QED BY <1>1, <1>2, <2>1, RemovedEnd
<1>4. ASSUME op.cmd = "copy", Apart PROVE Same(op.before, op.a, tree, op.b) /\ Same(op.before, op.a, tree, op.a)
  <2>1. CopiedInv
    BY <1>1, <1>4 DEF ResultInv
  <2>. QED BY <1>1, <1>2, <1>4, <2>1, CopiedEnd
<1>5. ASSUME op.cmd = "move" PROVE Same(op.before, op.a, tree, op.b) /\ (Apart => op.a \notin DOMAIN tree)
  <2>1. MovedInv
    BY <1>1, <1>5 DEF ResultInv
  <2>. QED BY <1>1, <2>1 DEF MovedInv
<1>6. ResultTrue'
  <2>1. /\ op.cmd = "remove" =>
             /\ tree = [q \in {x \in DOMAIN op.before : ~IsPrefix(op.a, x)} |-> op.before[q]]
             /\ counted = Cardinality(DOMAIN op.before) - Cardinality(DOMAIN tree)
        /\ op.cmd = "copy" /\ Apart => Same(op.before, op.a, tree, op.b) /\ Same(op.before, op.a, tree, op.a)
        /\ op.cmd = "move" => Same(op.before, op.a, tree, op.b) /\ (Apart => op.a \notin DOMAIN tree)
    BY <1>3, <1>4, <1>5
  <2>. QED BY <1>1, <2>1 DEF ResultTrue, Apart
<1>7. ListExact'
  <2>1. ASSUME op.cmd = "list", counted = 0
        PROVE  /\ Entries = {q \in All : Cardinality({x \in All : Less(x, q)}) < op.limit}
               /\ Truncated <=> Cardinality(All) > op.limit
    <3>1. ListedInv
      BY <1>1, <2>1 DEF ResultInv
    <3>. QED BY <1>1, <1>2, <2>1, <3>1, ListedEnd
  <2>2. All = {q \in DOMAIN tree : /\ IsPrefix(op.a, q)
                                   /\ Len(q) - Len(op.a) \in 1..(IF op.flag THEN DepthMax + 1 ELSE 1)}
    <3>1. Depth + 1 = IF op.flag THEN DepthMax + 1 ELSE 1
      BY DEF Depth
    <3>. QED BY <3>1 DEF All
  <2>3. Entries' = Entries /\ Truncated' = Truncated
    BY <1>1 DEF Entries, Truncated
  <2>4. op.cmd = "list" /\ counted = 0 =>
           /\ Entries = {q \in All : Cardinality({x \in All : Less(x, q)}) < op.limit}
           /\ Truncated <=> Cardinality(All) > op.limit
    BY <2>1
  <2>. QED BY <1>1, <2>2, <2>3, <2>4 DEF ListExact
<1>. QED BY <1>1, <1>6, <1>7 DEF ResultInv, FilesTrue

\* A move that fails has not lost its source.
LEMMA ResultFails ==
    ASSUME FsTypeOK, ResultInv, Fails
    PROVE  ResultInv'
<1>1. outcome = "running" /\ outcome' = "failed" /\ work # <<>> /\ tree' = tree /\ op' = op
  BY DEF Fails, Running
<1>2. op.cmd = "move" => Same(op.before, op.a, tree, op.a)
  BY <1>1 DEF ResultInv, MovedInv
<1>3. FilesTrue'
  BY <1>1, <1>2 DEF FilesTrue, ResultTrue, ListExact
<1>. QED BY <1>1, <1>3 DEF ResultInv

LEMMA ResultStep ==
    ASSUME FsInv, FsInv', ResultInv, FsNext
    PROVE  ResultInv'
<1>1. FsTypeOK
  BY DEF FsInv
<1>2. CASE outcome # "running"
  <2>1. (\E c \in FsCalls : Call(c)) \/ UNCHANGED fsVars
    BY <1>2 DEF FsNext, Fails, Finish, MakeParent, MakeDir, OpenOld, OpenNew, Fill, Unlinked, EnterRemoved, RemoveEntry,
                RemoveDir, EnterCopied, CopyEntry, Copied, OpenCopy, CopyData, MakeLink, MakeRoom, Rename1, Across,
                EnterListed, SkipListed, ListEntry, Listed, Keep, Top, Running
  <2>2. CASE \E c \in FsCalls : Call(c)
    BY <1>1, <2>2, ResultCall
  <2>. QED BY <2>1, <2>2, ResultUnchanged
<1>3. CASE outcome = "running"
  <2>1. Fails \/ Finish \/ Frozen
    BY <1>3 DEF FsNext, Call, MakeParent, MakeDir, OpenOld, OpenNew, Fill, Unlinked, EnterRemoved, RemoveEntry,
                RemoveDir, EnterCopied, CopyEntry, Copied, OpenCopy, CopyData, MakeLink, MakeRoom, Rename1, Across,
                EnterListed, SkipListed, ListEntry, Listed, Keep
  <2>2. CASE Frozen
    <3>1. outcome' = "running" /\ op' = op
      BY <1>3, <2>2 DEF Frozen
    <3>2. FilesTrue'
      BY <3>1 DEF FilesTrue, ResultTrue, ListExact
    <3>3. IsTree(op.before) /\ op.limit \in Nat
      BY <1>3 DEF ResultInv
    <3>4. op.cmd = "remove" => RemovedInv'
      BY <1>3, <3>1, <3>3, RemovedOn DEF ResultInv
    <3>5. op.cmd = "copy" => CopiedInv'
      BY <1>3, <3>1, <3>3, CopiedOn DEF ResultInv
    <3>6. op.cmd = "move" => MovedInv'
      BY <1>3, <3>1, <3>3, MovedOn DEF ResultInv
    <3>7. op.cmd = "list" => ListedInv'
      BY <1>3, <3>1, <3>3, ListedOn DEF ResultInv
    <3>. QED BY <3>1, <3>2, <3>3, <3>4, <3>5, <3>6, <3>7 DEF ResultInv
  <2>. QED BY <1>1, <2>1, <2>2, ResultFinish, ResultFails
<1>. QED BY <1>2, <1>3

\* Whatever a tree holds and however a command's system calls fall out, what
\* std/tool_fs.c reports is true: a removed tree is gone and was counted, a copy
\* holds what its source holds, a move is complete or has lost nothing, and a list
\* has the first of the entries there are.
THEOREM FsResults == FsSpec => []FilesTrue
<1>1. FsInit => ResultInv
  BY DEF FsInit, NoOp, ResultInv, FilesTrue, ResultTrue, ListExact
<1>2. ResultInv /\ FsInv /\ FsInv' /\ [FsNext]_fsVars => ResultInv'
  <2>1. ASSUME ResultInv, FsInv, FsInv', FsNext PROVE ResultInv'
    BY <2>1, ResultStep
  <2>2. ASSUME ResultInv, UNCHANGED fsVars PROVE ResultInv'
    BY <2>2, ResultUnchanged
  <2>. QED BY <2>1, <2>2
<1>3. ResultInv => FilesTrue
  BY DEF ResultInv
<1>. QED BY <1>1, <1>2, <1>3, FsSafety, PTL DEF FsSpec

=============================================================================
