---- MODULE CopyProofs ----
(***************************************************************************)
(* Proofs about FileTransfer for all files, all ways the reads split them, *)
(* any number of rewrites and every fault: the types, with the bound on    *)
(* what is posted or waits; that a child reports success only for an exact *)
(* copy; and the refinement of VerifiedCopy.  Then, from where the two     *)
(* programs stand, that nothing is outstanding when a side has finished,   *)
(* that a child ends with whatever was sent last, that an unchanged file is *)
(* never refused, that the programs never wait for each other, that        *)
(* without faults they can only come to rest with the file copied, and     *)
(* that they come to rest: a bound on the work of both.                    *)
(***************************************************************************)
EXTENDS FileTransfer, SequenceTheorems, TLAPS

-----------------------------------------------------------------------------
\* Sequences and what is in them.
Elems(s) == {s[i] : i \in 1 .. Len(s)}

\* The elements of a sequence made longer or shorter.
LEMMA ElemsFacts ==
  ASSUME NEW S, NEW s \in Seq(S), NEW t \in Seq(S)
  PROVE  /\ Elems(s) \subseteq S
         /\ s \o t \in Seq(S) /\ Len(s \o t) = Len(s) + Len(t)
         /\ Elems(s \o t) \subseteq Elems(s) \union Elems(t)
         /\ Len(s) \in Nat /\ Len(t) \in Nat
         /\ s # <<>> => /\ Head(s) \in Elems(s) /\ Head(s) \in S
                        /\ Tail(s) \in Seq(S) /\ Elems(Tail(s)) \subseteq Elems(s)
                        /\ Len(Tail(s)) = Len(s) - 1 /\ Len(s) >= 1
<1>1. Len(s) \in Nat /\ Len(t) \in Nat
  BY LenProperties
<1>2. Elems(s) \subseteq S
  BY ElementOfSeq DEF Elems
<1>3. /\ s \o t \in Seq(S) /\ Len(s \o t) = Len(s) + Len(t)
      /\ \A i \in 1 .. Len(s) + Len(t) :
           (s \o t)[i] = IF i <= Len(s) THEN s[i] ELSE t[i - Len(s)]
  BY ConcatProperties
<1>4. Elems(s \o t) \subseteq Elems(s) \union Elems(t)
  <2> SUFFICES ASSUME NEW i \in 1 .. Len(s) + Len(t)
               PROVE  (s \o t)[i] \in Elems(s) \union Elems(t)
    BY <1>3 DEF Elems
  <2>1. CASE i <= Len(s)
    <3>1. i \in 1 .. Len(s)
      BY <1>1, <2>1
    <3> QED
      BY <1>3, <2>1, <3>1 DEF Elems
  <2>2. CASE ~(i <= Len(s))
    <3>1. i - Len(s) \in 1 .. Len(t)
      BY <1>1, <2>2
    <3> QED
      BY <1>3, <2>2, <3>1 DEF Elems
  <2> QED
    BY <2>1, <2>2
<1>5. ASSUME s # <<>>
      PROVE  /\ Head(s) \in Elems(s) /\ Head(s) \in S
             /\ Tail(s) \in Seq(S) /\ Elems(Tail(s)) \subseteq Elems(s)
             /\ Len(Tail(s)) = Len(s) - 1 /\ Len(s) >= 1
  <2>1. /\ Head(s) \in S /\ Tail(s) \in Seq(S) /\ Len(Tail(s)) = Len(s) - 1
        /\ \A i \in 1 .. Len(Tail(s)) : Tail(s)[i] = s[i + 1]
    BY <1>5, HeadTailProperties
  <2>2. Len(s) >= 1
    BY <1>1, <1>5, EmptySeq
  <2>3. Head(s) \in Elems(s)
    <3>1. 1 \in 1 .. Len(s)
      BY <1>1, <2>2
    <3>2. Head(s) = s[1]
      OBVIOUS
    <3> QED
      BY <3>1, <3>2 DEF Elems
  <2>4. Elems(Tail(s)) \subseteq Elems(s)
    <3> SUFFICES ASSUME NEW i \in 1 .. Len(s) - 1
                 PROVE  s[i + 1] \in Elems(s)
      BY <2>1 DEF Elems
    <3>1. i + 1 \in 1 .. Len(s)
      BY <1>1
    <3> QED
      BY <3>1 DEF Elems
  <2> QED
    BY <2>1, <2>2, <2>3, <2>4
<1> QED
  BY <1>1, <1>2, <1>3, <1>4, <1>5

\* The empty sequence, and one element more.
LEMMA ElemsAppend ==
  ASSUME NEW S, NEW s \in Seq(S), NEW e \in S
  PROVE  /\ Append(s, e) \in Seq(S) /\ Len(Append(s, e)) = Len(s) + 1
         /\ Elems(Append(s, e)) \subseteq Elems(s) \union {e}
         /\ Elems(<<>>) = {} /\ <<>> \in Seq(S) /\ Len(<<>>) = 0 /\ Len(s) \in Nat
<1>1. /\ Append(s, e) \in Seq(S) /\ Len(Append(s, e)) = Len(s) + 1
      /\ Append(s, e)[Len(s) + 1] = e
      /\ \A i \in 1 .. Len(s) : Append(s, e)[i] = s[i]
  BY AppendProperties
<1>2. Len(s) \in Nat /\ <<>> \in Seq(S) /\ Len(<<>>) = 0
  BY LenProperties, EmptySeq
<1>3. Elems(Append(s, e)) \subseteq Elems(s) \union {e}
  <2> SUFFICES ASSUME NEW i \in 1 .. Len(s) + 1
               PROVE  Append(s, e)[i] \in Elems(s) \union {e}
    BY <1>1 DEF Elems
  <2>1. i \in 1 .. Len(s) \/ i = Len(s) + 1
    BY <1>2
  <2> QED
    BY <1>1, <2>1 DEF Elems
<1>4. Elems(<<>>) = {}
  BY <1>2 DEF Elems
<1> QED
  BY <1>1, <1>2, <1>3, <1>4

\* A sequence extended keeps its beginning.
LEMMA Extended ==
  ASSUME NEW S, NEW s \in Seq(S), NEW t \in Seq(S)
  PROVE  SubSeq(s \o t, 1, Len(s)) = s
<1> DEFINE f == s \o t
           a == SubSeq(f, 1, Len(s))
<1>1. /\ f \in Seq(S) /\ Len(f) = Len(s) + Len(t)
      /\ \A i \in 1 .. Len(s) + Len(t) : f[i] = IF i <= Len(s) THEN s[i] ELSE t[i - Len(s)]
  BY ConcatProperties
<1>2. Len(s) \in Nat /\ Len(t) \in Nat
  BY LenProperties
<1> HIDE DEF f
<1>3. \A i \in 1 .. Len(s) : f[i] = s[i] /\ f[i] \in S
  <2> TAKE i \in 1 .. Len(s)
  <2>1. i \in 1 .. Len(s) + Len(t) /\ i <= Len(s)
    BY <1>2
  <2> QED
    BY <1>1, <2>1, ElementOfSeq
<1>4. a \in Seq(S) /\ Len(a) = Len(s) /\ \A i \in 1 .. Len(s) : a[i] = f[i]
  BY <1>2, <1>3, SubSeqProperties
<1> QED
  BY <1>3, <1>4, SeqEqual DEF f

\* A part of a sequence, and two adjacent parts joined.
LEMMA Parts ==
  ASSUME NEW S, NEW f \in Seq(S), NEW i \in 0 .. Len(f), NEW j \in i .. Len(f)
  PROVE  /\ SubSeq(f, i + 1, j) \in Seq(S) /\ Len(SubSeq(f, i + 1, j)) = j - i
         /\ SubSeq(f, 1, i) \o SubSeq(f, i + 1, j) = SubSeq(f, 1, j)
<1>1. Len(f) \in Nat /\ \A k \in 1 .. Len(f) : f[k] \in S
  BY LenProperties, ElementOfSeq
<1>2. SubSeq(f, i + 1, j) \in Seq(S) /\ Len(SubSeq(f, i + 1, j)) = j - i
  BY <1>1, SubSeqProperties
<1>3. 1 \in 1 .. Len(f) + 1 /\ i \in 1 - 1 .. Len(f) /\ j \in i .. Len(f)
  BY <1>1
<1>4. SubSeq(f, 1, i) \o SubSeq(f, i + 1, j) = SubSeq(f, 1, j)
  BY <1>3, ConcatAdjacentSubSeq, Zenon
<1> QED
  BY <1>2, <1>4

-----------------------------------------------------------------------------
\* The inductive invariant.  The types, by who owns the variables.
ParentTypes ==
  /\ file \in Files /\ changes \in 0 .. MaxChanges
  /\ hashed \in Seq(Blocks) /\ pos \in Nat /\ sequence \in Nat

ControlTypes == pc \in [Ends -> Labels] /\ current \in [Ends -> Messages]

\* What a side has posted, and what waits there.
Room(p) == rx[p] + Len(cq[p]) + Len(pending[p])

LinkTypes ==
  /\ tx \in [Ends -> {"none", "wire", "acked", "completed", "error"}]
  /\ msg \in [Ends -> Messages]
  /\ rx \in [Ends -> 0 .. 1]
  /\ cq \in [Ends -> Seq(Messages)] /\ pending \in [Ends -> Seq(Messages)]
  /\ \A p \in Ends : Room(p) <= 1

ChildTypes ==
  /\ phase \in {"AwaitMetadata", "Receiving", "Complete"}
  /\ promised \in Seq(Blocks) \union {NoFile}
  /\ next \in Nat /\ got \in Seq(Blocks) /\ output \in Seq(Blocks)

\* The child reposts when it has taken the message that its RECV was for.
Taken == pc["child"] = "Got" => Room("child") = 0

\* The first pass is over; unless somebody has rewritten it, it has read the file.
Announced ==
  /\ pc["parent"] \notin {"Wait", "Got", "Hash"}
  /\ changes = 0 => hashed = file

FirstPass ==
  /\ pc["parent"] \in {"Wait", "Got"} => pos = 0 /\ hashed = <<>>
  /\ pc["parent"] = "Hash" /\ changes = 0 =>
       pos \in 0 .. Len(file) /\ hashed = SubSeq(file, 1, pos)
  /\ pc["parent"] \in {"Metadata", "Drain", "Read", "Done"} => Announced

\* Metadata and End carry what the first pass has read.
Faithful(m) ==
  /\ m.kind \in {"Metadata", "End"} => m.data = hashed /\ Announced
  /\ m.kind = "Data" => m.data # <<>>

\* The parent's last message, and those that the child has not looked into.
InFlight ==
  {msg["parent"], current["child"]} \union Elems(cq["child"]) \union Elems(pending["child"])

AllFaithful == \A m \in InFlight : Faithful(m)

ReceiverData ==
  /\ phase = "AwaitMetadata" => promised = NoFile /\ got = <<>> /\ output = <<>>
  /\ phase # "AwaitMetadata" =>
       promised = hashed /\ Announced /\ Len(got) <= Len(promised)
  /\ pc["child"] # "Failed" => output = got
  /\ pc["child"] \in {"Flush", "Done"} => phase = "Complete"
  /\ phase = "Complete" => got = promised

Types == ParentTypes /\ ControlTypes /\ LinkTypes /\ ChildTypes /\ Taken
IInv == Types /\ FirstPass /\ AllFaithful /\ ReceiverData

\* The types of the invariant are those of the specification.
LEMMA TypesSuffice == IInv => TypeOK
  BY DEF IInv, Types, ParentTypes, ControlTypes, LinkTypes, ChildTypes, Room, TypeOK

\* A child is done only with an exact copy.
LEMMA DataSuffices == IInv => ExactCopy
  BY DEF IInv, ReceiverData, Announced, ExactCopy

\* The contents of a file, and the messages of the programs.
LEMMA FileFacts == /\ Files \subseteq Seq(Blocks) /\ NoFile \notin Seq(Blocks)
                   /\ Chunk \in Nat /\ MaxChanges \in Nat
                   /\ Ends = {"parent", "child"}
                   /\ Peer("parent") = "child" /\ Peer("child") = "parent"
                   /\ Labels = {"Request", "Create", "Wait", "Got", "Accept", "Flush", "Hash",
                                "Metadata", "Read", "Drain", "Done", "Failed", "Refused"}
  BY FileTransferAssumption DEF Ends, Peer, Labels, Over

\* Messages are built from their fields.
LEMMA MessageFacts ==
  /\ \A kind \in Kinds, n \in Nat, data \in Seq(Blocks) :
       /\ Message(kind, n, data) \in Messages
       /\ Message(kind, n, data).kind = kind /\ Message(kind, n, data).data = data
  /\ \A m \in Messages : m.kind \in Kinds /\ m.data \in Seq(Blocks)
  /\ Nothing \in Messages /\ Nothing.kind = "none"
  /\ <<>> \in Seq(Blocks)
<1>1. <<>> \in Seq(Blocks)
  BY EmptySeq
<1> QED
  BY <1>1 DEF Message, Messages, Nothing, Kinds

\* A parent that has announced its file keeps to it, and so do its messages.
Keeps == Announced => Announced' /\ hashed' = hashed

LEMMA Carried ==
  ASSUME AllFaithful, Keeps, \A m \in InFlight' : m \in InFlight \/ Faithful(m)'
  PROVE  AllFaithful'
<1> SUFFICES ASSUME NEW m \in InFlight' PROVE Faithful(m)'
  BY DEF AllFaithful
<1>1. CASE m \in InFlight
  <2>1. Faithful(m)
    BY <1>1 DEF AllFaithful
  <2> QED
    BY <2>1 DEF Faithful, Keeps
<1> QED
  BY <1>1

\* The child's data is as it was.
LEMMA ReceiverKept ==
  ASSUME ReceiverData, Keeps, UNCHANGED childVars,
         \/ pc'["child"] = pc["child"]
         \/ pc'["child"] \notin {"Flush", "Done"} /\ pc["child"] # "Failed"
  PROVE  ReceiverData'
  BY DEF ReceiverData, Keeps, childVars

\* A step that leaves the parent where it is.
LEMMA ParentKept ==
  ASSUME FirstPass, ParentTypes, UNCHANGED <<file, changes, parentVars>>,
         pc'["parent"] = pc["parent"]
  PROVE  FirstPass' /\ ParentTypes' /\ Keeps
  BY DEF FirstPass, ParentTypes, Keeps, Announced, parentVars

\* A step that leaves the messages where they are.
LEMMA LinkKept ==
  ASSUME LinkTypes, UNCHANGED linkVars
  PROVE  LinkTypes' /\ Room("child")' = Room("child")
  BY DEF LinkTypes, linkVars, Room

\* The initial states.
LEMMA InitInv == Init => IInv
<1> SUFFICES ASSUME Init PROVE IInv
  OBVIOUS
<1>1. <<>> \in Seq(Blocks) /\ <<>> \in Seq(Messages) /\ Len(<<>>) = 0 /\ Elems(<<>>) = {}
  <2>1. Len(<<>>) = 0 /\ <<>> \in Seq(Blocks) /\ <<>> \in Seq(Messages)
    BY EmptySeq
  <2> QED
    BY <2>1 DEF Elems
<1>2. ParentTypes /\ ChildTypes
  BY <1>1, FileFacts DEF Init, ParentTypes, ChildTypes
<1>3. ControlTypes
  BY FileFacts, MessageFacts DEF Init, ControlTypes
<1>4. LinkTypes
  BY <1>1, FileFacts, MessageFacts DEF Init, LinkTypes, Room
<1>5. Taken
  BY FileFacts DEF Init, Taken
<1>6. FirstPass
  BY FileFacts DEF Init, FirstPass, Announced
<1>7. AllFaithful
  <2>1. InFlight = {Nothing}
    BY <1>1, FileFacts DEF Init, InFlight
  <2> QED
    BY <2>1, MessageFacts DEF AllFaithful, Faithful
<1>8. ReceiverData
  BY FileFacts DEF Init, ReceiverData
<1> QED
  BY <1>2, <1>3, <1>4, <1>5, <1>6, <1>7, <1>8 DEF IInv, Types

-----------------------------------------------------------------------------
\* The steps of both programs.

\* A step that only moves one end to a label that says nothing of its data.
LEMMA OnlyMoves ==
  ASSUME IInv, NEW p \in Ends, NEW l \in Labels, pc' = [pc EXCEPT ![p] = l],
         UNCHANGED <<file, changes, parentVars, linkVars, current, childVars>>,
         p = "parent" => l \in {"Failed", "Got"} \/ (l = "Hash" /\ pc[p] = "Got"),
         p = "child" => l \notin {"Got", "Flush", "Done"} /\ pc[p] # "Failed",
         p = "parent" /\ l = "Got" => pc[p] = "Wait"
  PROVE  IInv'
<1>1. ParentTypes' /\ ChildTypes'
  BY DEF IInv, Types, ParentTypes, ChildTypes, parentVars, childVars
<1>2. ControlTypes' /\ LinkTypes'
  BY LinkKept DEF IInv, Types, ControlTypes
<1>3. Taken'
  BY LinkKept, FileFacts DEF IInv, Types, ControlTypes, Taken
<1>4. Keeps
  BY FileFacts DEF IInv, Types, ControlTypes, Keeps, Announced, parentVars
<1>5. FirstPass'
  <2>1. CASE p = "parent"
    <3>1. pc'["parent"] = l
      BY <2>1, FileFacts DEF IInv, Types, ControlTypes
    <3>2. CASE l = "Failed"
      BY <3>1, <3>2 DEF FirstPass
    <3>3. CASE l = "Got"
      BY <2>1, <3>1, <3>3 DEF IInv, FirstPass, parentVars
    <3>4. CASE l = "Hash" /\ pc[p] = "Got"
      <4>1. pos = 0 /\ hashed = <<>> /\ pos' = pos /\ hashed' = hashed /\ file' = file
        BY <2>1, <3>4 DEF IInv, FirstPass, parentVars
      <4>2. file \in Seq(Blocks)
        BY FileFacts DEF IInv, Types, ParentTypes
      <4>3. SubSeq(file, 1, 0) = <<>> /\ 0 \in 0 .. Len(file)
        BY <4>2, SubSeqEmpty, LenProperties
      <4> QED
        BY <3>1, <3>4, <4>1, <4>3 DEF FirstPass
    <3> QED
      BY <2>1, <3>2, <3>3, <3>4
  <2>2. CASE p = "child"
    BY <2>2, ParentKept, FileFacts DEF IInv, Types, ControlTypes
  <2> QED
    BY <2>1, <2>2, FileFacts
<1>6. AllFaithful'
  <2>1. InFlight' = InFlight
    BY DEF InFlight, linkVars
  <2> QED
    BY <1>4, <2>1, Carried DEF IInv
<1>7. ReceiverData'
  BY <1>4, ReceiverKept, FileFacts DEF IInv, Types, ControlTypes
<1> QED
  BY <1>1, <1>2, <1>3, <1>5, <1>6, <1>7 DEF IInv, Types

\* A call that fails ends its program.
LEMMA FailsInv ==
  ASSUME IInv, NEW p \in Ends, NEW fault, NEW labels, FailsBy(p, fault, labels),
         "Failed" \notin labels
  PROVE  IInv'
<1>1. pc[p] # "Failed" /\ "Failed" \in Labels
  BY FileFacts DEF FailsBy
<1>2. pc' = [pc EXCEPT ![p] = "Failed"]
  BY DEF FailsBy, Fails, Goto
<1> QED
  BY <1>1, <1>2, OnlyMoves DEF FailsBy

\* A message is posted: one at a time from each side.
LEMMA PostsLink ==
  ASSUME LinkTypes, NEW p \in Ends, NEW m \in Messages, Posts(p, m)
  PROVE  /\ LinkTypes' /\ Room("child")' = Room("child")
         /\ cq' = cq /\ pending' = pending
         /\ p = "parent" => msg'["parent"] = m
         /\ p = "child" => msg'["parent"] = msg["parent"]
  BY FileFacts DEF LinkTypes, Posts, Room

\* TakeRequest and CreateOutput.
LEMMA MovesInv == ASSUME IInv, TakeRequest \/ CreateOutput PROVE IInv'
<1>1. CASE TakeRequest
  <2>1. \E l \in {"Hash", "Failed"} : pc' = [pc EXCEPT !["parent"] = l]
    BY <1>1 DEF TakeRequest, Goto
  <2>2. "Hash" \in Labels /\ "Failed" \in Labels
    BY FileFacts
  <2>3. pc["parent"] = "Got"
    BY <1>1 DEF TakeRequest
  <2>4. UNCHANGED <<file, changes, parentVars, linkVars, current, childVars>>
    BY <1>1 DEF TakeRequest
  <2> QED
    BY <2>1, <2>2, <2>3, <2>4, OnlyMoves, FileFacts
<1>2. CASE CreateOutput
  <2>1. /\ pc' = [pc EXCEPT !["child"] = "Wait"] /\ pc["child"] = "Create"
        /\ "Wait" \in Labels
        /\ UNCHANGED <<file, changes, parentVars, linkVars, current, childVars>>
    BY <1>2, FileFacts DEF CreateOutput, Goto
  <2> QED
    BY <2>1, OnlyMoves, FileFacts
<1> QED
  BY <1>1, <1>2

\* The file is rewritten.
LEMMA RewriteInv == ASSUME IInv, Rewrite PROVE IInv'
<1>0. /\ changes' # 0 /\ changes' \in 0 .. MaxChanges /\ file' \in Files
      /\ UNCHANGED <<pc, parentVars, linkVars, current, childVars>>
  BY FileFacts DEF IInv, Types, ParentTypes, Rewrite
<1>1. Types'
  <2>1. ParentTypes' /\ ChildTypes' /\ ControlTypes'
    BY <1>0 DEF IInv, Types, ParentTypes, ChildTypes, ControlTypes, parentVars, childVars
  <2> QED
    BY <1>0, <2>1, LinkKept DEF IInv, Types, Taken
<1>2. Keeps
  BY <1>0 DEF Keeps, Announced, parentVars
<1>3. FirstPass'
  BY <1>0 DEF IInv, FirstPass, Announced, parentVars
<1>4. AllFaithful'
  <2>1. InFlight' = InFlight
    BY <1>0 DEF InFlight, linkVars
  <2> QED
    BY <1>2, <2>1, Carried DEF IInv
<1>5. ReceiverData'
  BY <1>0, <1>2, ReceiverKept DEF IInv
<1> QED
  BY <1>1, <1>3, <1>4, <1>5 DEF IInv

\* The first pass reads on, or is over.
LEMMA HashInv == ASSUME IInv, Hash PROVE IInv'
<1>0. /\ pc["parent"] = "Hash" /\ ~Announced
      /\ UNCHANGED <<file, changes, sequence, linkVars, current, childVars>>
      /\ file \in Seq(Blocks) /\ hashed \in Seq(Blocks) /\ pos \in Nat /\ Len(file) \in Nat
  BY FileFacts, LenProperties DEF Hash, Announced, IInv, Types, ParentTypes
<1>1. Keeps
  BY <1>0 DEF Keeps
<1>2. InFlight' = InFlight
  BY <1>0 DEF InFlight, linkVars
<1>3. AllFaithful'
  BY <1>1, <1>2, Carried DEF IInv
<1>4. CASE \E c \in ChunksAt(pos) :
             hashed' = hashed \o c /\ pos' = pos + Len(c) /\ UNCHANGED pc
  <2>1. PICK c \in ChunksAt(pos) :
             hashed' = hashed \o c /\ pos' = pos + Len(c) /\ UNCHANGED pc
    BY <1>4
  <2>2. PICK j \in {k \in pos + 1 .. Len(file) : k <= pos + Chunk} :
             c = SubSeq(file, pos + 1, j)
    BY <2>1 DEF ChunksAt
  <2>3. pos \in 0 .. Len(file) /\ j \in pos .. Len(file) /\ j \in Nat
    BY <1>0, <2>2
  <2>4. /\ c \in Seq(Blocks) /\ Len(c) = j - pos
        /\ SubSeq(file, 1, pos) \o c = SubSeq(file, 1, j)
    BY <1>0, <2>2, <2>3, Parts
  <2>5. pos' = j /\ hashed' \in Seq(Blocks)
    BY <1>0, <2>1, <2>3, <2>4, ConcatProperties
  <2>6. Types'
    <3>1. ParentTypes' /\ ChildTypes' /\ ControlTypes'
      <4>1. pc' = pc
        BY <2>1
      <4> QED
        BY <1>0, <2>3, <2>5, <4>1
        DEF IInv, Types, ParentTypes, ChildTypes, ControlTypes, childVars
    <3> QED
      BY <1>0, <2>1, <3>1, LinkKept DEF IInv, Types, Taken
  <2>7. FirstPass'
    <3>1. pc'["parent"] = "Hash" /\ file' = file /\ changes' = changes
      BY <1>0, <2>1
    <3>2. changes = 0 => hashed' = SubSeq(file, 1, pos')
      BY <1>0, <2>1, <2>4, <2>5 DEF IInv, FirstPass
    <3>3. pos' \in 0 .. Len(file)
      BY <1>0, <2>3, <2>5
    <3> QED
      BY <3>1, <3>2, <3>3 DEF FirstPass
  <2>8. ReceiverData'
    BY <1>0, <1>1, <2>1, ReceiverKept DEF IInv
  <2> QED
    BY <1>3, <2>6, <2>7, <2>8 DEF IInv
<1>5. CASE ChunksAt(pos) = {} /\ pos' = 0 /\ Goto("parent", "Metadata") /\ UNCHANGED hashed
  <2>1. pos \in 0 .. Len(file) => pos = Len(file)
    <3> SUFFICES ASSUME pos \in 0 .. Len(file), pos # Len(file) PROVE FALSE
      OBVIOUS
    <3>1. pos + 1 \in {k \in pos + 1 .. Len(file) : k <= pos + Chunk}
      BY <1>0, FileTransferAssumption
    <3> QED
      BY <1>5, <3>1 DEF ChunksAt
  <2>2. /\ pc'["parent"] = "Metadata" /\ pc'["child"] = pc["child"] /\ 0 \in Nat
        /\ pc' \in [Ends -> Labels]
    BY <1>5, FileFacts DEF Goto, IInv, Types, ControlTypes
  <2>3. Types'
    <3>1. ParentTypes' /\ ChildTypes' /\ ControlTypes'
      BY <1>0, <1>5, <2>2 DEF IInv, Types, ParentTypes, ChildTypes, ControlTypes, childVars
    <3> QED
      BY <1>0, <2>2, <3>1, LinkKept DEF IInv, Types, Taken
  <2>4. FirstPass'
    <3>1. changes = 0 => hashed = file
      BY <1>0, <2>1, SubSeqFull DEF IInv, FirstPass
    <3> QED
      BY <1>0, <1>5, <2>2, <3>1 DEF FirstPass, Announced
  <2>5. ReceiverData'
    BY <1>0, <1>1, <2>2, ReceiverKept DEF IInv
  <2> QED
    BY <1>3, <2>3, <2>4, <2>5 DEF IInv
<1> QED
  BY <1>4, <1>5 DEF Hash

\* The three messages of the parent and the request.
LEMMA PostInv ==
  ASSUME IInv, NEW p \in Ends, NEW m \in Messages, NEW l \in Labels, Posts(p, m),
         pc' = [pc EXCEPT ![p] = l],
         UNCHANGED <<file, changes, hashed, sequence, current, childVars>>, pos' \in Nat,
         p = "child" => l = "Create" /\ pc[p] = "Request" /\ UNCHANGED pos,
         p = "parent" => l = "Drain" /\ Announced /\ Faithful(m)
  PROVE  IInv'
<1>1. /\ LinkTypes' /\ Room("child")' = Room("child") /\ cq' = cq /\ pending' = pending
      /\ p = "parent" => msg'["parent"] = m
      /\ p = "child" => msg'["parent"] = msg["parent"]
  BY PostsLink DEF IInv, Types
<1>2. /\ pc' \in [Ends -> Labels] /\ pc'[p] = l
      /\ \A q \in Ends : q # p => pc'[q] = pc[q]
  BY DEF IInv, Types, ControlTypes
<1>3. Types'
  <2>1. ParentTypes' /\ ChildTypes' /\ ControlTypes'
    BY <1>2 DEF IInv, Types, ParentTypes, ChildTypes, ControlTypes, childVars
  <2>2. Taken'
    BY <1>1, <1>2, FileFacts DEF IInv, Types, Taken
  <2> QED
    BY <1>1, <2>1, <2>2 DEF Types
<1>4. Keeps
  BY <1>2, FileFacts DEF Keeps, Announced
<1>5. FirstPass'
  <2>1. CASE p = "parent"
    BY <1>2, <2>1, FileFacts DEF FirstPass, Announced
  <2>2. CASE p = "child"
    BY <1>2, <2>2, FileFacts DEF IInv, FirstPass, Announced
  <2> QED
    BY <2>1, <2>2, FileFacts
<1>6. AllFaithful'
  <2>1. InFlight' \subseteq InFlight \union {msg'["parent"]}
    BY <1>1 DEF InFlight
  <2>2. p = "child" => InFlight' = InFlight
    BY <1>1 DEF InFlight
  <2>3. p = "parent" => Faithful(m)'
    BY <1>4 DEF Faithful, Keeps
  <2> QED
    BY <1>1, <1>4, <2>1, <2>2, <2>3, Carried, FileFacts DEF IInv
<1>7. ReceiverData'
  BY <1>2, <1>4, ReceiverKept, FileFacts DEF IInv
<1> QED
  BY <1>3, <1>5, <1>6, <1>7 DEF IInv

\* SendRequest.
LEMMA RequestInv == ASSUME IInv, SendRequest PROVE IInv'
<1>1. Message("Request", 0, <<>>) \in Messages /\ "Create" \in Labels
  BY MessageFacts, FileFacts DEF Kinds
<1>2. /\ pc["child"] = "Request" /\ Posts("child", Message("Request", 0, <<>>))
      /\ pc' = [pc EXCEPT !["child"] = "Create"]
      /\ UNCHANGED <<file, changes, hashed, pos, sequence, current, childVars>>
      /\ pos \in Nat
  BY DEF SendRequest, Goto, parentVars, IInv, Types, ParentTypes
<1> QED
  BY <1>1, <1>2, PostInv, FileFacts

\* SendMetadata.
LEMMA MetadataInv == ASSUME IInv, SendMetadata PROVE IInv'
<1> DEFINE m == Message("Metadata", 0, hashed)
<1>1. m \in Messages /\ "Drain" \in Labels /\ m.kind = "Metadata" /\ m.data = hashed
  BY MessageFacts, FileFacts DEF Kinds, IInv, Types, ParentTypes
<1> HIDE DEF m
<1>2. /\ pc["parent"] = "Metadata" /\ Posts("parent", m)
      /\ pc' = [pc EXCEPT !["parent"] = "Drain"]
      /\ UNCHANGED <<file, changes, hashed, pos, sequence, current, childVars>>
      /\ pos \in Nat
  BY DEF SendMetadata, Goto, parentVars, IInv, Types, ParentTypes, m
<1>3. Announced /\ Faithful(m)
  BY <1>1, <1>2 DEF IInv, FirstPass, Faithful
<1> QED
  BY <1>1, <1>2, <1>3, PostInv, FileFacts

\* SendData: what a read returns is never empty.
LEMMA DataInv == ASSUME IInv, SendData PROVE IInv'
<1>0. /\ pc["parent"] = "Read" /\ pc' = [pc EXCEPT !["parent"] = "Drain"]
      /\ UNCHANGED <<file, changes, hashed, sequence, current, childVars>>
      /\ pos \in Nat /\ hashed \in Seq(Blocks) /\ sequence \in Nat
      /\ "Drain" \in Labels /\ file \in Seq(Blocks) /\ Len(file) \in Nat
  BY FileFacts, LenProperties DEF SendData, Goto, IInv, Types, ParentTypes
<1>1. Announced
  BY <1>0 DEF IInv, FirstPass
<1>2. ASSUME NEW c \in ChunksAt(pos), Posts("parent", Message("Data", sequence, c)),
             pos' = pos + Len(c)
      PROVE  IInv'
  <2>1. PICK j \in {k \in pos + 1 .. Len(file) : k <= pos + Chunk} :
             c = SubSeq(file, pos + 1, j)
    BY DEF ChunksAt
  <2>2. pos \in 0 .. Len(file) /\ j \in pos .. Len(file) /\ j - pos > 0
    BY <1>0, <2>1
  <2>3. c \in Seq(Blocks) /\ Len(c) = j - pos
    BY <1>0, <2>1, <2>2, Parts
  <2>4. c # <<>> /\ pos' \in Nat
    BY <1>0, <1>2, <2>2, <2>3, EmptySeq
  <2> DEFINE m == Message("Data", sequence, c)
  <2>5. m \in Messages /\ m.kind = "Data" /\ m.data = c
    BY <1>0, <2>3, MessageFacts DEF Kinds
  <2> HIDE DEF m
  <2>6. Faithful(m)
    BY <2>4, <2>5 DEF Faithful
  <2>7. Posts("parent", m)
    BY <1>2 DEF m
  <2> QED
    BY <1>0, <1>1, <2>4, <2>5, <2>6, <2>7, PostInv, FileFacts
<1>3. ASSUME Posts("parent", EndMessage), UNCHANGED pos
      PROVE  IInv'
  <2>1. EndMessage \in Messages /\ EndMessage.kind = "End" /\ EndMessage.data = hashed
    BY <1>0, MessageFacts DEF EndMessage, Kinds
  <2>2. Faithful(EndMessage)
    BY <1>1, <2>1 DEF Faithful
  <2> QED
    BY <1>0, <1>1, <1>3, <2>1, <2>2, PostInv, FileFacts
<1> QED
  BY <1>2, <1>3 DEF SendData

\* The message that a wait returns was on the JFC or kept from it.
LEMMA WaitInv == ASSUME IInv, NEW p \in Ends, Wait(p) PROVE IInv'
<1> DEFINE ms == pending[p] \o cq[p]
<1>0. /\ pc[p] = "Wait" /\ UNCHANGED <<file, changes, parentVars, childVars>>
      /\ pc \in [Ends -> Labels] /\ "Failed" \in Labels /\ "Got" \in Labels
      /\ pending[p] \in Seq(Messages) /\ cq[p] \in Seq(Messages)
      /\ Ends = {"parent", "child"}
  BY FileFacts DEF Wait, IInv, Types, ControlTypes, LinkTypes
<1>1. CASE tx[p] = "error"
  <2>1. pc' = [pc EXCEPT ![p] = "Failed"] /\ UNCHANGED <<linkVars, current>>
    BY <1>1 DEF Wait, Fails, Goto
  <2> QED
    BY <1>0, <2>1, OnlyMoves
<1>2. CASE tx[p] # "error"
  <2>0. /\ cq' = [cq EXCEPT ![p] = <<>>]
        /\ tx' = [tx EXCEPT ![p] = IF SendDone(p) THEN "none" ELSE @]
        /\ msg' = msg /\ rx' = rx
    BY <1>2 DEF Wait
  <2>1. /\ ms \in Seq(Messages) /\ Len(ms) = Len(pending[p]) + Len(cq[p])
        /\ Elems(ms) \subseteq Elems(pending[p]) \union Elems(cq[p])
        /\ Len(pending[p]) \in Nat /\ Len(cq[p]) \in Nat
    BY <1>0, ElemsFacts
  <2>2. Elems(<<>>) = {} /\ <<>> \in Seq(Messages) /\ Len(<<>>) = 0
    BY EmptySeq DEF Elems
  <2>3. tx' \in [Ends -> {"none", "wire", "acked", "completed", "error"}]
    BY <2>0 DEF IInv, Types, LinkTypes
  <2>4. cq' \in [Ends -> Seq(Messages)]
    BY <2>0, <2>2 DEF IInv, Types, LinkTypes
  <2> HIDE DEF ms
  <2>5. CASE ms # <<>> /\ SendDone(p)
    <3>1. /\ current' = [current EXCEPT ![p] = Head(ms)]
          /\ pending' = [pending EXCEPT ![p] = Tail(ms)]
          /\ pc' = [pc EXCEPT ![p] = "Got"]
      BY <1>2, <2>5 DEF Wait, Goto, Queue, ms
    <3>2. /\ Head(ms) \in Elems(ms) /\ Head(ms) \in Messages
          /\ Tail(ms) \in Seq(Messages) /\ Elems(Tail(ms)) \subseteq Elems(ms)
          /\ Len(Tail(ms)) = Len(ms) - 1 /\ Len(ms) >= 1
      BY <2>1, <2>5, ElemsFacts
    <3>3. /\ pending' \in [Ends -> Seq(Messages)] /\ current' \in [Ends -> Messages]
          /\ pc' \in [Ends -> Labels]
      BY <1>0, <3>1, <3>2 DEF IInv, Types, LinkTypes, ControlTypes
    <3>4. /\ \A q \in Ends : q # p => Room(q)' = Room(q) /\ pc'[q] = pc[q]
          /\ Room(p)' = Room(p) - 1 /\ Room(p) = 1
          /\ pc'[p] = "Got"
      <4>1. \A q \in Ends : q # p => Room(q)' = Room(q) /\ pc'[q] = pc[q]
        BY <1>0, <2>0, <3>1 DEF Room
      <4>2. cq'[p] = <<>> /\ pending'[p] = Tail(ms) /\ rx'[p] = rx[p] /\ pc'[p] = "Got"
        BY <1>0, <2>0, <3>1 DEF IInv, Types, LinkTypes
      <4>3. rx[p] \in 0 .. 1 /\ Room(p) <= 1
        BY DEF IInv, Types, LinkTypes
      <4>4. /\ Room(p) = rx[p] + Len(cq[p]) + Len(pending[p])
            /\ Room(p)' = rx'[p] + Len(cq'[p]) + Len(pending'[p])
        BY DEF Room
      <4>5. Len(cq'[p]) = 0 /\ Len(pending'[p]) = Len(ms) - 1
        BY <2>2, <3>2, <4>2, Zenon
      <4>6. Room(p)' = Room(p) - 1 /\ Room(p) = 1
        <5> DEFINE r == rx[p]  a == Len(pending[p])  b == Len(cq[p])
        <5>1. Room(p) = r + b + a /\ Room(p)' = r + 0 + (Len(ms) - 1) /\ Len(ms) = a + b
          BY <2>1, <4>2, <4>4, <4>5, Zenon
        <5>2. r \in 0 .. 1 /\ a \in Nat /\ b \in Nat /\ Len(ms) >= 1
          BY <2>1, <3>2, <4>3
        <5> HIDE DEF r, a, b
        <5> QED
          BY <4>3, <5>1, <5>2
      <4> QED
        BY <4>1, <4>2, <4>3, <4>6
    <3>5. Types'
      <4>1. ParentTypes' /\ ChildTypes' /\ ControlTypes'
        BY <1>0, <3>3
        DEF IInv, Types, ParentTypes, ChildTypes, ControlTypes, parentVars, childVars
      <4>2. LinkTypes'
        <5>1. \A q \in Ends : Room(q)' <= 1
          <6>1. \A q \in Ends : Room(q) <= 1
            BY DEF IInv, Types, LinkTypes
          <6>2. Room(p)' <= 1
            BY <3>4
          <6> QED
            BY <3>4, <6>1, <6>2
        <5> QED
          BY <2>0, <2>3, <2>4, <3>3, <5>1 DEF IInv, Types, LinkTypes
      <4>3. Taken'
        <5>1. p = "child" => Room("child")' = 0
          BY <3>4
        <5>2. p = "parent" => Room("child")' = Room("child") /\ pc'["child"] = pc["child"]
          BY <1>0, <3>4
        <5> QED
          BY <1>0, <5>1, <5>2 DEF IInv, Types, Taken
      <4> QED
        BY <4>1, <4>2, <4>3 DEF Types
    <3>6. Keeps
      BY <1>0, <3>4 DEF Keeps, Announced, parentVars
    <3>7. FirstPass'
      BY <1>0, <3>4 DEF IInv, FirstPass, Announced, parentVars
    <3>8. AllFaithful'
      <4>1. CASE p = "child"
        <5>1. /\ cq'["child"] = <<>> /\ pending'["child"] = Tail(ms)
              /\ current'["child"] = Head(ms)
          BY <1>0, <2>0, <3>1, <4>1 DEF IInv, Types, LinkTypes, ControlTypes
        <5>2. InFlight' \subseteq InFlight
          BY <2>0, <2>1, <2>2, <3>2, <4>1, <5>1 DEF InFlight
        <5> QED
          BY <3>6, <5>2, Carried DEF IInv
      <4>2. CASE p = "parent"
        <5>1. InFlight' = InFlight
          BY <1>0, <2>0, <3>1, <4>2 DEF IInv, Types, LinkTypes, ControlTypes, InFlight
        <5> QED
          BY <3>6, <5>1, Carried DEF IInv
      <4> QED
        BY <1>0, <4>1, <4>2
    <3>9. ReceiverData'
      BY <1>0, <3>4, <3>6, ReceiverKept DEF IInv
    <3> QED
      BY <3>5, <3>7, <3>8, <3>9 DEF IInv
  <2>6. CASE ~(ms # <<>> /\ SendDone(p))
    <3>1. /\ pending' = [pending EXCEPT ![p] = ms] /\ current' = current /\ pc' = pc
      BY <1>2, <2>6 DEF Wait, Queue, ms
    <3>2. pending' \in [Ends -> Seq(Messages)]
      BY <2>1, <3>1 DEF IInv, Types, LinkTypes
    <3>3. \A q \in Ends : Room(q)' = Room(q)
      <4>1. \A q \in Ends : q # p => Room(q)' = Room(q)
        BY <2>0, <3>1 DEF Room
      <4>2. cq'[p] = <<>> /\ pending'[p] = ms /\ rx'[p] = rx[p]
        BY <1>0, <2>0, <3>1 DEF IInv, Types, LinkTypes
      <4>3. rx[p] \in 0 .. 1
        BY DEF IInv, Types, LinkTypes
      <4>4. /\ Room(p) = rx[p] + Len(cq[p]) + Len(pending[p])
            /\ Room(p)' = rx'[p] + Len(cq'[p]) + Len(pending'[p])
        BY DEF Room
      <4>5. Len(cq'[p]) = 0 /\ Len(pending'[p]) = Len(pending[p]) + Len(cq[p])
        BY <2>1, <2>2, <4>2, Zenon
      <4>6. Room(p)' = Room(p)
        <5> DEFINE r == rx[p]  a == Len(pending[p])  b == Len(cq[p])
        <5>1. Room(p) = r + b + a /\ Room(p)' = r + 0 + (a + b)
          BY <4>2, <4>4, <4>5, Zenon
        <5>2. r \in 0 .. 1 /\ a \in Nat /\ b \in Nat
          BY <2>1, <4>3
        <5> HIDE DEF r, a, b
        <5> QED
          BY <5>1, <5>2
      <4> QED
        BY <4>1, <4>6
    <3>4. Types'
      <4>1. ParentTypes' /\ ChildTypes' /\ ControlTypes'
        BY <1>0, <3>1
        DEF IInv, Types, ParentTypes, ChildTypes, ControlTypes, parentVars, childVars
      <4>2. LinkTypes'
        <5>1. \A q \in Ends : Room(q)' <= 1
          BY <3>3 DEF IInv, Types, LinkTypes
        <5> QED
          BY <2>0, <2>3, <2>4, <3>2, <5>1 DEF IInv, Types, LinkTypes
      <4>3. Taken'
        BY <1>0, <3>1, <3>3 DEF IInv, Types, Taken
      <4> QED
        BY <4>1, <4>2, <4>3 DEF Types
    <3>5. Keeps /\ FirstPass'
      BY <1>0, <3>1, ParentKept DEF IInv, Types
    <3>6. AllFaithful'
      <4>1. CASE p = "child"
        <5>1. cq'["child"] = <<>> /\ pending'["child"] = ms
          BY <1>0, <2>0, <3>1, <4>1 DEF IInv, Types, LinkTypes
        <5>2. InFlight' \subseteq InFlight
          BY <2>0, <2>1, <2>2, <3>1, <4>1, <5>1 DEF InFlight
        <5> QED
          BY <3>5, <5>2, Carried DEF IInv
      <4>2. CASE p = "parent"
        <5>1. InFlight' = InFlight
          BY <1>0, <2>0, <3>1, <4>2 DEF IInv, Types, LinkTypes, InFlight
        <5> QED
          BY <3>5, <5>1, Carried DEF IInv
      <4> QED
        BY <1>0, <4>1, <4>2
    <3>7. ReceiverData'
      BY <1>0, <3>1, <3>5, ReceiverKept DEF IInv
    <3> QED
      BY <3>4, <3>5, <3>6, <3>7 DEF IInv
  <2> QED
    BY <2>5, <2>6
<1> QED
  BY <1>1, <1>2

\* The second pass goes on, or is over.
LEMMA DrainInv == ASSUME IInv, Drain PROVE IInv'
<1>0. /\ pc["parent"] = "Drain" /\ UNCHANGED <<file, changes, hashed, pos, current, childVars>>
      /\ {"Failed", "Read", "Done"} \subseteq Labels
  BY FileFacts DEF Drain
<1>1. CASE Fails("parent") /\ UNCHANGED <<linkVars, sequence>>
  <2>1. /\ pc' = [pc EXCEPT !["parent"] = "Failed"]
        /\ UNCHANGED <<file, changes, parentVars, linkVars, current, childVars>>
    BY <1>0, <1>1 DEF Fails, Goto, parentVars
  <2> QED
    BY <1>0, <2>1, OnlyMoves, FileFacts
<1>2. ASSUME tx' = [tx EXCEPT !["parent"] = "none"], UNCHANGED <<msg, rx, cq, pending>>,
             sequence' = sequence + (IF msg["parent"].kind = "Data" THEN 1 ELSE 0),
             Goto("parent", IF msg["parent"].kind = "End" THEN "Done" ELSE "Read")
      PROVE  IInv'
  <2>1. /\ pc'["parent"] \in {"Read", "Done"} /\ pc'["child"] = pc["child"]
        /\ pc' \in [Ends -> Labels] /\ sequence' \in Nat
    BY <1>0, <1>2, FileFacts DEF Goto, IInv, Types, ControlTypes, ParentTypes
  <2>2. ParentTypes' /\ ChildTypes' /\ ControlTypes'
    BY <1>0, <2>1 DEF IInv, Types, ParentTypes, ChildTypes, ControlTypes, childVars
  <2>3. LinkTypes' /\ Room("child")' = Room("child")
    BY <1>2 DEF IInv, Types, LinkTypes, Room
  <2>4. Taken'
    BY <2>1, <2>3 DEF IInv, Types, Taken
  <2>5. Announced /\ Announced' /\ Keeps
    BY <1>0, <2>1 DEF IInv, FirstPass, Announced, Keeps
  <2>6. FirstPass'
    BY <2>1, <2>5 DEF FirstPass
  <2>7. AllFaithful'
    <3>1. InFlight' = InFlight
      BY <1>0, <1>2 DEF InFlight
    <3> QED
      BY <2>5, <3>1, Carried DEF IInv
  <2>8. ReceiverData'
    BY <1>0, <2>1, <2>5, ReceiverKept DEF IInv
  <2> QED
    BY <2>2, <2>3, <2>4, <2>6, <2>7, <2>8 DEF IInv, Types
<1> QED
  BY <1>1, <1>2 DEF Drain

\* The child's recv_ready.
LEMMA RepostInv == ASSUME IInv, Repost PROVE IInv'
<1>0. /\ pc["child"] = "Got" /\ pc' = [pc EXCEPT !["child"] = "Accept"]
      /\ UNCHANGED <<file, changes, parentVars, tx, msg, cq, pending, current, childVars>>
      /\ "Accept" \in Labels
  BY FileFacts DEF Repost, Goto
<1>1. pc'["parent"] = pc["parent"] /\ pc'["child"] = "Accept" /\ pc' \in [Ends -> Labels]
  BY <1>0, FileFacts DEF IInv, Types, ControlTypes
<1>2. ParentTypes' /\ ChildTypes' /\ ControlTypes'
  BY <1>0, <1>1
  DEF IInv, Types, ParentTypes, ChildTypes, ControlTypes, parentVars, childVars
<1>3. rx["child"] = 0
  <2>1. /\ Room("child") = 0 /\ rx["child"] \in 0 .. 1
        /\ cq["child"] \in Seq(Messages) /\ pending["child"] \in Seq(Messages)
    BY <1>0, FileFacts DEF IInv, Types, Taken, LinkTypes
  <2>2. Len(cq["child"]) \in Nat /\ Len(pending["child"]) \in Nat
    BY <2>1, LenProperties
  <2> QED
    BY <2>1, <2>2 DEF Room
<1>4. rx' \in [Ends -> 0 .. 1] /\ rx'["parent"] = rx["parent"]
  BY <1>3, FileFacts DEF Repost, Reposts, IInv, Types, LinkTypes
<1>5. Room("child")' <= 1
  <2>1. /\ Room("child") = 0 /\ rx'["child"] \in 0 .. 1 /\ cq' = cq /\ pending' = pending
        /\ cq["child"] \in Seq(Messages) /\ pending["child"] \in Seq(Messages)
    BY <1>0, <1>4, FileFacts DEF IInv, Types, Taken, LinkTypes
  <2>2. Len(cq["child"]) \in Nat /\ Len(pending["child"]) \in Nat
    BY <2>1, LenProperties
  <2>3. /\ Room("child") = rx["child"] + Len(cq["child"]) + Len(pending["child"])
        /\ Room("child")' = rx'["child"] + Len(cq["child"]) + Len(pending["child"])
    BY <2>1 DEF Room
  <2> DEFINE a == Len(cq["child"])  b == Len(pending["child"])
  <2>4. 0 = 0 + a + b /\ Room("child")' = rx'["child"] + a + b
    BY <1>3, <2>1, <2>3
  <2>5. a \in Nat /\ b \in Nat /\ rx'["child"] \in 0 .. 1
    BY <2>1, <2>2
  <2> HIDE DEF a, b
  <2> QED
    BY <2>4, <2>5
<1>6. LinkTypes'
  <2>1. Room("parent")' = Room("parent")
    BY <1>0, <1>4 DEF Room
  <2> QED
    BY <1>0, <1>4, <1>5, <2>1, FileFacts DEF IInv, Types, LinkTypes
<1>7. Taken'
  BY <1>1 DEF Taken
<1>8. Keeps /\ FirstPass'
  BY <1>0, <1>1, ParentKept DEF IInv, Types
<1>9. AllFaithful'
  <2>1. InFlight' = InFlight
    BY <1>0 DEF InFlight
  <2> QED
    BY <1>8, <2>1, Carried DEF IInv
<1>10. ReceiverData'
  BY <1>0, <1>1, <1>8, ReceiverKept DEF IInv
<1> QED
  BY <1>2, <1>6, <1>7, <1>8, <1>9, <1>10 DEF IInv, Types

\* The provider moves a message to the other side's JFC.
LEMMA DeliverInv == ASSUME IInv, NEW p \in Ends, Deliver(p) PROVE IInv'
<1>0. /\ rx[Peer(p)] > 0 /\ Peer(p) \in Ends
      /\ tx' = [tx EXCEPT ![p] = "acked"]
      /\ rx' = [rx EXCEPT ![Peer(p)] = @ - 1]
      /\ cq' = [cq EXCEPT ![Peer(p)] = Append(@, msg[p])]
      /\ UNCHANGED <<file, changes, pc, parentVars, msg, pending, current, childVars>>
      /\ msg[p] \in Messages /\ cq[Peer(p)] \in Seq(Messages) /\ rx[Peer(p)] \in 0 .. 1
      /\ pending[Peer(p)] \in Seq(Messages)
  BY FileFacts DEF Deliver, IInv, Types, LinkTypes
<1>1. ParentTypes' /\ ChildTypes' /\ ControlTypes'
  BY <1>0 DEF IInv, Types, ParentTypes, ChildTypes, ControlTypes, parentVars, childVars
<1>2. /\ Append(cq[Peer(p)], msg[p]) \in Seq(Messages)
      /\ Len(Append(cq[Peer(p)], msg[p])) = Len(cq[Peer(p)]) + 1
      /\ Elems(Append(cq[Peer(p)], msg[p])) \subseteq Elems(cq[Peer(p)]) \union {msg[p]}
      /\ Len(cq[Peer(p)]) \in Nat /\ Len(pending[Peer(p)]) \in Nat
  BY <1>0, ElemsAppend, LenProperties
<1>3. /\ tx' \in [Ends -> {"none", "wire", "acked", "completed", "error"}]
      /\ rx' \in [Ends -> 0 .. 1] /\ cq' \in [Ends -> Seq(Messages)]
  BY <1>0, <1>2 DEF IInv, Types, LinkTypes
<1>4. \A q \in Ends : Room(q)' = Room(q)
  <2>1. \A q \in Ends : q # Peer(p) => Room(q)' = Room(q)
    BY <1>0 DEF Room
  <2>2. /\ rx'[Peer(p)] = rx[Peer(p)] - 1 /\ pending'[Peer(p)] = pending[Peer(p)]
        /\ Len(cq'[Peer(p)]) = Len(cq[Peer(p)]) + 1
    BY <1>0, <1>2 DEF IInv, Types, LinkTypes
  <2>3. Room(Peer(p))' = Room(Peer(p))
    <3> DEFINE r == rx[Peer(p)]  a == Len(cq[Peer(p)])  b == Len(pending[Peer(p)])
    <3>1. Room(Peer(p)) = r + a + b /\ Room(Peer(p))' = (r - 1) + (a + 1) + b
      BY <1>0, <2>2 DEF Room
    <3>2. r \in 0 .. 1 /\ a \in Nat /\ b \in Nat
      BY <1>0, <1>2
    <3> HIDE DEF r, a, b
    <3> QED
      BY <3>1, <3>2
  <2> QED
    BY <2>1, <2>3
<1>5. LinkTypes'
  <2>1. \A q \in Ends : Room(q)' <= 1
    BY <1>4 DEF IInv, Types, LinkTypes
  <2> QED
    BY <1>0, <1>3, <2>1 DEF IInv, Types, LinkTypes
<1>6. Taken'
  BY <1>0, <1>4, FileFacts DEF IInv, Types, Taken
<1>7. Keeps /\ FirstPass'
  BY <1>0, ParentKept DEF IInv, Types
<1>8. AllFaithful'
  <2>1. CASE p = "parent"
    <3>1. /\ Peer(p) = "child" /\ cq'["child"] = Append(cq["child"], msg["parent"])
      BY <1>0, <2>1, FileFacts DEF IInv, Types, LinkTypes
    <3>2. InFlight' \subseteq InFlight
      BY <1>0, <1>2, <2>1, <3>1 DEF InFlight
    <3> QED
      BY <1>7, <3>2, Carried DEF IInv
  <2>2. CASE p = "child"
    <3>1. InFlight' = InFlight
      BY <1>0, <2>2, FileFacts DEF IInv, Types, LinkTypes, InFlight
    <3> QED
      BY <1>7, <3>1, Carried DEF IInv
  <2> QED
    BY <2>1, <2>2, FileFacts
<1>9. ReceiverData'
  BY <1>0, <1>7, ReceiverKept DEF IInv
<1> QED
  BY <1>1, <1>5, <1>6, <1>7, <1>8, <1>9 DEF IInv, Types

\* CompleteSend, RetriesExceeded and Leave: a SEND changes its state, or its process is gone.
LEMMA SendStateInv ==
  ASSUME IInv, NEW p \in Ends, NEW state \in {"none", "completed", "error"},
         tx' = [tx EXCEPT ![p] = state],
         rx' = rx \/ rx' = [rx EXCEPT ![p] = 0],
         pc[p] \in Over \/ rx' = rx,
         UNCHANGED <<file, changes, pc, parentVars, msg, cq, pending, current, childVars>>
  PROVE  IInv'
<1>1. ParentTypes' /\ ChildTypes' /\ ControlTypes'
  BY DEF IInv, Types, ParentTypes, ChildTypes, ControlTypes, parentVars, childVars
<1>2. \A q \in Ends : /\ cq[q] \in Seq(Messages) /\ pending[q] \in Seq(Messages)
                      /\ rx[q] \in 0 .. 1 /\ rx'[q] \in 0 .. 1 /\ rx'[q] <= rx[q]
  <2>1. \A q \in Ends : /\ cq[q] \in Seq(Messages) /\ pending[q] \in Seq(Messages)
                        /\ rx[q] \in 0 .. 1
    BY DEF IInv, Types, LinkTypes
  <2>2. CASE rx' = rx
    BY <2>1, <2>2
  <2>3. CASE rx' = [rx EXCEPT ![p] = 0]
    <3>1. \A q \in Ends : rx'[q] = (IF q = p THEN 0 ELSE rx[q])
      BY <2>3 DEF IInv, Types, LinkTypes
    <3> QED
      BY <2>1, <3>1
  <2> QED
    BY <2>1, <2>2, <2>3
<1>3. \A q \in Ends : Room(q)' <= 1
  <2> TAKE q \in Ends
  <2>1. Len(cq[q]) \in Nat /\ Len(pending[q]) \in Nat
    BY <1>2, LenProperties
  <2>2. Room(q) <= 1
    BY DEF IInv, Types, LinkTypes
  <2> QED
    BY <1>2, <2>1, <2>2 DEF Room
<1>4. LinkTypes'
  <2>1. rx' \in [Ends -> 0 .. 1]
    <3>1. rx \in [Ends -> 0 .. 1]
      BY DEF IInv, Types, LinkTypes
    <3> QED
      BY <3>1
  <2>2. tx' \in [Ends -> {"none", "wire", "acked", "completed", "error"}]
    BY DEF IInv, Types, LinkTypes
  <2> QED
    BY <1>3, <2>1, <2>2 DEF IInv, Types, LinkTypes
<1>5. Taken'
  <2>1. rx' = rx => Room("child")' = Room("child")
    BY DEF Room
  <2>2. p = "child" /\ rx' # rx => pc["child"] # "Got"
    BY DEF Over
  <2>3. p = "parent" => Room("child")' = Room("child")
    BY FileFacts DEF IInv, Types, LinkTypes, Room
  <2> QED
    BY <2>1, <2>2, <2>3, FileFacts DEF IInv, Types, Taken
<1>6. Keeps /\ FirstPass'
  BY ParentKept DEF IInv, Types
<1>7. AllFaithful'
  <2>1. InFlight' = InFlight
    BY DEF InFlight
  <2> QED
    BY <1>6, <2>1, Carried DEF IInv
<1>8. ReceiverData'
  BY <1>6, ReceiverKept DEF IInv
<1> QED
  BY <1>1, <1>4, <1>5, <1>6, <1>7, <1>8 DEF IInv, Types

\* ReceiveState::accept.
LEMMA AcceptInv == ASSUME IInv, Accept PROVE IInv'
<1> DEFINE m == current["child"]
<1>0. /\ pc["child"] = "Accept" /\ UNCHANGED <<file, changes, parentVars, linkVars, current>>
      /\ m \in Messages /\ m \in InFlight /\ m.data \in Seq(Blocks)
      /\ got \in Seq(Blocks) /\ output \in Seq(Blocks) /\ output = got
      /\ {"Wait", "Failed", "Flush", "Refused"} \subseteq Labels
  BY FileFacts, MessageFacts
  DEF Accept, IInv, Types, ControlTypes, ChildTypes, ReceiverData, InFlight
<1>1. Faithful(m)
  BY <1>0 DEF IInv, AllFaithful
<1> HIDE DEF m
<1>2. ASSUME NEW l \in {"Wait", "Failed", "Flush", "Refused"}, Goto("child", l),
             ChildTypes', ReceiverData'
      PROVE  IInv'
  <2>1. /\ pc' \in [Ends -> Labels] /\ pc'["child"] = l /\ pc'["parent"] = pc["parent"]
    BY <1>0, <1>2, FileFacts DEF Goto, IInv, Types, ControlTypes
  <2>2. LinkTypes' /\ Taken' /\ ControlTypes'
    BY <1>0, <1>2, <2>1, LinkKept DEF IInv, Types, ControlTypes, Taken
  <2>3. ParentTypes' /\ Keeps /\ FirstPass'
    BY <1>0, <2>1, ParentKept DEF IInv, Types
  <2>4. AllFaithful'
    <3>1. InFlight' = InFlight
      BY <1>0 DEF InFlight, linkVars
    <3> QED
      BY <2>3, <3>1, Carried DEF IInv
  <2> QED
    BY <1>2, <2>2, <2>3, <2>4 DEF IInv, Types
<1>3. ASSUME NEW l, Goto("child", l)
      PROVE  /\ pc'["child"] = l
             /\ hashed' = hashed /\ (Announced => Announced')
  BY <1>0, <1>3, FileFacts DEF Goto, IInv, Types, ControlTypes, Announced, parentVars
<1>4. CASE AcceptMetadata(m)
  <2>1. /\ phase = "AwaitMetadata" /\ phase' = "Receiving" /\ promised' = m.data
        /\ m.kind = "Metadata" /\ Goto("child", "Wait")
        /\ UNCHANGED <<next, got, output>>
    BY <1>4 DEF AcceptMetadata
  <2>2. got = <<>> /\ m.data = hashed /\ Announced
    BY <1>1, <2>1 DEF IInv, ReceiverData, Faithful
  <2>3. Len(got') <= Len(promised')
    BY <1>0, <2>1, <2>2, LenProperties, EmptySeq
  <2>4. ReceiverData'
    BY <1>0, <1>3, <2>1, <2>2, <2>3 DEF ReceiverData
  <2>5. ChildTypes'
    BY <1>0, <2>1 DEF IInv, Types, ChildTypes
  <2> QED
    BY <1>2, <2>1, <2>4, <2>5
<1>5. CASE AcceptData(m)
  <2>1. /\ phase = "Receiving" /\ Fits(m) /\ phase' = phase /\ promised' = promised
        /\ promised = hashed /\ Announced
    BY <1>5 DEF AcceptData, IInv, ReceiverData
  <2>2. CASE /\ output' = output \o m.data /\ got' = got \o m.data /\ next' = next + 1
             /\ Goto("child", "Wait")
    <3>1. got \o m.data \in Seq(Blocks) /\ Len(got \o m.data) = Len(got) + Len(m.data)
      BY <1>0, ConcatProperties
    <3>2. output' = got' /\ got' \in Seq(Blocks) /\ Len(got') <= Len(promised')
      BY <1>0, <2>1, <2>2, <3>1 DEF Fits
    <3>3. ReceiverData'
      BY <1>3, <2>1, <2>2, <3>2 DEF ReceiverData
    <3>4. ChildTypes'
      BY <2>1, <2>2, <3>2 DEF IInv, Types, ChildTypes
    <3> QED
      BY <1>2, <2>2, <3>3, <3>4
  <2>3. CASE /\ \E k \in 0 .. Len(m.data) : output' = output \o SubSeq(m.data, 1, k)
             /\ Fails("child") /\ UNCHANGED <<got, next>>
    <3>1. PICK k \in 0 .. Len(m.data) : output' = output \o SubSeq(m.data, 1, k)
      BY <2>3
    <3>2. SubSeq(m.data, 1, k) \in Seq(Blocks)
      <4>1. 0 \in 0 .. Len(m.data) /\ k \in 0 .. Len(m.data)
        BY <1>0, <3>1, LenProperties
      <4>2. SubSeq(m.data, 0 + 1, k) \in Seq(Blocks)
        BY <1>0, <4>1, Parts
      <4> QED
        BY <4>2
    <3>3. output' \in Seq(Blocks)
      BY <1>0, <3>1, <3>2, ConcatProperties
    <3>4. Goto("child", "Failed")
      BY <2>3 DEF Fails
    <3>5. ReceiverData'
      BY <1>3, <2>1, <2>3, <3>4 DEF IInv, ReceiverData
    <3>6. ChildTypes'
      BY <2>1, <2>3, <3>3 DEF IInv, Types, ChildTypes
    <3> QED
      BY <1>2, <3>4, <3>5, <3>6
  <2> QED
    BY <1>5, <2>2, <2>3 DEF AcceptData
<1>6. CASE AcceptEnd(m)
  <2>1. /\ phase = "Receiving" /\ phase' = "Complete" /\ Goto("child", "Flush")
        /\ UNCHANGED <<promised, next, got, output>> /\ got = promised
    BY <1>6 DEF AcceptEnd, Complete
  <2>2. ReceiverData'
    BY <1>0, <1>3, <2>1 DEF IInv, ReceiverData
  <2>3. ChildTypes'
    BY <2>1 DEF IInv, Types, ChildTypes
  <2> QED
    BY <1>2, <2>1, <2>2, <2>3
<1>7. CASE Refuse(m)
  <2>1. Goto("child", "Refused") /\ UNCHANGED childVars
    BY <1>7 DEF Refuse
  <2>2. Keeps
    BY <1>3, <2>1 DEF Keeps
  <2>3. ReceiverData'
    BY <1>0, <1>3, <2>1, <2>2, ReceiverKept DEF IInv
  <2>4. ChildTypes'
    BY <2>1 DEF IInv, Types, ChildTypes, childVars
  <2> QED
    BY <1>2, <2>1, <2>3, <2>4
<1> QED
  BY <1>4, <1>5, <1>6, <1>7 DEF Accept, m

\* The child's last step before it reports success.
LEMMA FlushInv == ASSUME IInv, Flush PROVE IInv'
<1>0. /\ pc["child"] = "Flush" /\ pc' = [pc EXCEPT !["child"] = "Done"]
      /\ UNCHANGED <<file, changes, parentVars, linkVars, current, childVars>>
      /\ "Done" \in Labels
  BY FileFacts DEF Flush, Goto
<1>1. pc'["parent"] = pc["parent"] /\ pc'["child"] = "Done" /\ pc' \in [Ends -> Labels]
  BY <1>0, FileFacts DEF IInv, Types, ControlTypes
<1>2. ParentTypes' /\ Keeps /\ FirstPass'
  BY <1>0, <1>1, ParentKept DEF IInv, Types
<1>3. Types'
  BY <1>0, <1>1, <1>2, LinkKept DEF IInv, Types, ControlTypes, ChildTypes, childVars, Taken
<1>4. AllFaithful'
  <2>1. InFlight' = InFlight
    BY <1>0 DEF InFlight, linkVars
  <2> QED
    BY <1>2, <2>1, Carried DEF IInv
<1>5. ReceiverData'
  BY <1>0, <1>1, <1>2 DEF IInv, ReceiverData, Keeps, childVars
<1> QED
  BY <1>2, <1>3, <1>4, <1>5 DEF IInv

-----------------------------------------------------------------------------
\* Every step keeps the invariant.
LEMMA StepInv == IInv /\ [Next]_vars => IInv'
<1> SUFFICES ASSUME IInv, [Next]_vars PROVE IInv'
  OBVIOUS
<1>1. CASE ParentStep
  BY <1>1, WaitInv, DrainInv, MovesInv, HashInv, MetadataInv, DataInv, FileFacts DEF ParentStep
<1>2. CASE ChildStep
  BY <1>2, RequestInv, MovesInv, WaitInv, RepostInv, AcceptInv, FlushInv, FileFacts
  DEF ChildStep
<1>3. CASE CallFails
  BY <1>3, FailsInv, FileFacts DEF CallFails
<1>4. ASSUME NEW p \in Ends, TimesOut(p) PROVE IInv'
  BY <1>4, FailsInv DEF TimesOut
<1>5. CASE Network
  <2>1. ASSUME NEW p \in Ends, CompleteSend(p) PROVE IInv'
    BY <2>1, SendStateInv DEF CompleteSend
  <2> QED
    BY <1>5, <2>1, DeliverInv DEF Network
<1>6. CASE Rewrite
  BY <1>6, RewriteInv
<1>7. ASSUME NEW p \in Ends, RetriesExceeded(p) PROVE IInv'
  BY <1>7, SendStateInv DEF RetriesExceeded
<1>8. ASSUME NEW p \in Ends, Leave(p) PROVE IInv'
  BY <1>8, SendStateInv DEF Leave
<1>9. CASE UNCHANGED vars
  <2>1. /\ UNCHANGED <<file, changes, parentVars, linkVars, current, childVars>> /\ pc' = pc
    BY <1>9 DEF vars
  <2>2. Types' /\ Keeps /\ FirstPass'
    BY <2>1, LinkKept, ParentKept
    DEF IInv, Types, ControlTypes, ChildTypes, childVars, Taken
  <2>3. AllFaithful'
    <3>1. InFlight' = InFlight
      BY <2>1 DEF InFlight, linkVars
    <3> QED
      BY <2>2, <3>1, Carried DEF IInv
  <2>4. ReceiverData'
    BY <2>1, <2>2, ReceiverKept DEF IInv
  <2> QED
    BY <2>2, <2>3, <2>4 DEF IInv
<1> QED
  BY <1>1, <1>2, <1>3, <1>4, <1>5, <1>6, <1>7, <1>8, <1>9 DEF Next

\* The invariant holds in every state.
LEMMA Invariance == Spec => []IInv
  BY InitInv, StepInv, PTL DEF Spec

\* The variables stay in their types; on each side at most one message is expected,
\* on the JFC or popped from it: one receive slot is enough for the file mode of both
\* programs.
THEOREM TypeCorrect == Spec => []TypeOK
  BY Invariance, TypesSuffice, PTL

\* Both programs in file mode: however the reads split the file, whatever fails, and
\* also when the file is rewritten between or during the passes, a child that reports
\* success has written what the parent announced.
THEOREM CopyExact == Spec => []ExactCopy
  BY Invariance, DataSuffices, PTL

-----------------------------------------------------------------------------
\* Refinement.

\* The initial states.
LEMMA InitCopies == Init => Copy!Init
  BY FileFacts DEF Init, Copy!Init, Verdict

\* What the verdict says of the child's label.
LEMMA VerdictFacts ==
  ASSUME ControlTypes, NEW l, pc' = [pc EXCEPT !["child"] = l]
  PROVE  /\ l \in {"Failed", "Refused"} => Verdict' = "failed"
         /\ l = "Done" => Verdict' = "complete"
         /\ l \notin {"Done", "Failed", "Refused"} => Verdict' = "none"
         /\ pc["child"] \notin {"Done", "Failed", "Refused"} => Verdict = "none"
  BY FileFacts DEF ControlTypes, Verdict

\* A child that gives up keeps what it has written.
LEMMA GivesUp ==
  ASSUME ControlTypes, pc["child"] \notin {"Done", "Failed", "Refused"},
         NEW l \in {"Failed", "Refused"}, pc' = [pc EXCEPT !["child"] = l],
         UNCHANGED childVars
  PROVE  Copy!Next
  BY VerdictFacts DEF Copy!Next, Copy!GiveUp, childVars

\* The abstract steps of accept.
LEMMA AcceptCopies == ASSUME IInv, Accept PROVE [Copy!Next]_Copy!vars
<1> DEFINE m == current["child"]
<1>0. /\ pc["child"] = "Accept" /\ UNCHANGED <<file, changes, parentVars, linkVars, current>>
      /\ m \in Messages /\ m \in InFlight /\ m.data \in Seq(Blocks) /\ ControlTypes
      /\ got \in Seq(Blocks) /\ output \in Seq(Blocks) /\ output = got
      /\ promised \in Seq(Blocks) \union {NoFile}
  BY FileFacts, MessageFacts
  DEF Accept, IInv, Types, ControlTypes, ChildTypes, ReceiverData, InFlight
<1>1. Faithful(m)
  BY <1>0 DEF IInv, AllFaithful
<1> HIDE DEF m
<1>2. CASE AcceptMetadata(m)
  <2>1. /\ phase = "AwaitMetadata" /\ promised' = m.data /\ output' = output
        /\ pc' = [pc EXCEPT !["child"] = "Wait"]
    BY <1>2 DEF AcceptMetadata, Goto
  <2>2. output = <<>> /\ promised = NoFile
    BY <2>1 DEF IInv, ReceiverData
  <2>3. Verdict = "none" /\ Verdict' = "none"
    BY <1>0, <2>1, FileFacts DEF ControlTypes, Verdict
  <2> QED
    BY <1>0, <2>1, <2>2, <2>3 DEF Copy!Next, Copy!Announce
<1>3. CASE AcceptData(m)
  <2>1. /\ phase = "Receiving" /\ Fits(m) /\ promised' = promised /\ m.kind = "Data"
    BY <1>3 DEF AcceptData
  <2>2. promised # NoFile /\ m.data # <<>> /\ promised \in Seq(Blocks)
    BY <1>0, <1>1, <2>1, FileFacts DEF IInv, Types, ParentTypes, ReceiverData, Faithful
  <2>3. Len(m.data) \in Nat \ {0} /\ Len(output) \in Nat /\ Len(promised) \in Nat
    BY <1>0, <2>2, LenProperties, EmptySeq
  <2>4. CASE output' = output \o m.data /\ Goto("child", "Wait")
    <3>1. /\ Len(output') = Len(output) + Len(m.data)
          /\ SubSeq(output', 1, Len(output)) = output
      BY <1>0, <2>4, ConcatProperties, Extended
    <3>2. Len(output') \in Len(output) + 1 .. Len(promised)
      BY <1>0, <2>1, <2>3, <3>1 DEF Fits
    <3>3. Verdict = "none" /\ Verdict' = "none"
      BY <1>0, <2>4, FileFacts DEF ControlTypes, Verdict, Goto
    <3> QED
      BY <2>1, <2>2, <3>1, <3>2, <3>3 DEF Copy!Next, Copy!Write
  <2>5. CASE /\ \E k \in 0 .. Len(m.data) : output' = output \o SubSeq(m.data, 1, k)
             /\ Fails("child")
    <3>1. PICK k \in 0 .. Len(m.data) : output' = output \o SubSeq(m.data, 1, k)
      BY <2>5
    <3>2. SubSeq(m.data, 1, k) \in Seq(Blocks) /\ Len(SubSeq(m.data, 1, k)) = k
      <4>1. 0 \in 0 .. Len(m.data) /\ k \in 0 .. Len(m.data)
        BY <2>3, <3>1
      <4>2. SubSeq(m.data, 0 + 1, k) \in Seq(Blocks) /\ Len(SubSeq(m.data, 0 + 1, k)) = k - 0
        BY <1>0, <4>1, Parts
      <4> QED
        BY <4>1, <4>2
    <3>3. /\ Len(output') = Len(output) + k
          /\ SubSeq(output', 1, Len(output)) = output
      BY <1>0, <3>1, <3>2, ConcatProperties, Extended
    <3>4. Len(output') <= Len(promised)
      BY <1>0, <2>1, <2>3, <3>1, <3>3 DEF Fits
    <3>5. Verdict = "none" /\ Verdict' = "failed"
      BY <1>0, <2>5, VerdictFacts DEF Fails, Goto
    <3> QED
      BY <2>1, <2>2, <3>3, <3>4, <3>5 DEF Copy!Next, Copy!GiveUp
  <2> QED
    BY <1>3, <2>4, <2>5 DEF AcceptData
<1>4. CASE AcceptEnd(m)
  <2>1. pc' = [pc EXCEPT !["child"] = "Flush"] /\ UNCHANGED <<promised, output>>
    BY <1>4 DEF AcceptEnd, Goto
  <2>2. Verdict = "none" /\ Verdict' = "none"
    BY <1>0, <2>1, FileFacts DEF ControlTypes, Verdict
  <2> QED
    BY <2>1, <2>2 DEF Copy!vars
<1>5. CASE Refuse(m)
  <2>1. pc' = [pc EXCEPT !["child"] = "Refused"] /\ UNCHANGED childVars
    BY <1>5 DEF Refuse, Goto
  <2> QED
    BY <1>0, <2>1, GivesUp
<1> QED
  BY <1>2, <1>3, <1>4, <1>5 DEF Accept, m

\* Every step is one of the abstract copy, or changes nothing of it.
LEMMA StepCopies == IInv /\ [Next]_vars => [Copy!Next]_Copy!vars
<1> SUFFICES ASSUME IInv, [Next]_vars PROVE [Copy!Next]_Copy!vars
  OBVIOUS
<1>0. ControlTypes /\ Ends = {"parent", "child"}
  BY FileFacts DEF IInv, Types
<1>1. ASSUME UNCHANGED childVars, pc'["child"] = pc["child"]
      PROVE  [Copy!Next]_Copy!vars
  BY <1>1 DEF Copy!vars, childVars, Verdict
<1>2. ASSUME UNCHANGED childVars, NEW l, pc' = [pc EXCEPT !["parent"] = l]
      PROVE  [Copy!Next]_Copy!vars
  <2>1. pc'["child"] = pc["child"]
    BY <1>0, <1>2 DEF ControlTypes
  <2> QED
    BY <1>1, <1>2, <2>1
<1>3. ASSUME UNCHANGED childVars, NEW l, pc' = [pc EXCEPT !["child"] = l],
             {pc["child"], l} \intersect {"Done", "Failed", "Refused"} = {}
      PROVE  [Copy!Next]_Copy!vars
  BY <1>0, <1>3, VerdictFacts DEF Copy!vars, childVars
<1>4. ASSUME NEW p \in Ends, NEW fault, NEW labels, FailsBy(p, fault, labels),
             labels \intersect {"Done", "Failed", "Refused"} = {}
      PROVE  [Copy!Next]_Copy!vars
  <2>1. /\ UNCHANGED childVars /\ pc' = [pc EXCEPT ![p] = "Failed"]
        /\ pc[p] \notin {"Done", "Failed", "Refused"}
    BY <1>4 DEF FailsBy, Fails, Goto
  <2> QED
    BY <1>0, <1>2, <2>1, GivesUp
<1>5. ASSUME NEW p \in Ends, Wait(p) PROVE [Copy!Next]_Copy!vars
  <2>1. UNCHANGED childVars /\ pc[p] = "Wait"
    BY <1>5 DEF Wait
  <2>2. \/ pc' = pc
        \/ pc' = [pc EXCEPT ![p] = "Failed"]
        \/ pc' = [pc EXCEPT ![p] = "Got"]
    BY <1>5 DEF Wait, Fails, Goto
  <2> QED
    BY <1>0, <1>1, <1>2, <1>3, <2>1, <2>2, GivesUp
<1>6. CASE ParentStep
  <2>1. \/ /\ UNCHANGED childVars
           /\ (\E l : pc' = [pc EXCEPT !["parent"] = l]) \/ pc' = pc
        \/ Wait("parent")
    BY <1>6
    DEF ParentStep, Drain, TakeRequest, Hash, SendMetadata, SendData, Fails, Goto
  <2> QED
    BY <1>0, <1>1, <1>2, <1>5, <2>1
<1>7. CASE ChildStep
  <2>1. CASE SendRequest \/ CreateOutput \/ Repost
    <3>1. /\ UNCHANGED childVars
          /\ \/ pc["child"] = "Request" /\ pc' = [pc EXCEPT !["child"] = "Create"]
             \/ pc["child"] = "Create" /\ pc' = [pc EXCEPT !["child"] = "Wait"]
             \/ pc["child"] = "Got" /\ pc' = [pc EXCEPT !["child"] = "Accept"]
      BY <2>1 DEF SendRequest, CreateOutput, Repost, Goto
    <3> QED
      BY <1>3, <3>1
  <2>2. CASE Flush
    <3>1. /\ pc["child"] = "Flush" /\ pc' = [pc EXCEPT !["child"] = "Done"]
          /\ UNCHANGED childVars
      BY <2>2 DEF Flush, Goto
    <3>2. output = promised
      BY <3>1 DEF IInv, ReceiverData
    <3>3. Verdict = "none" /\ Verdict' = "complete"
      BY <1>0, <3>1, VerdictFacts
    <3> QED
      BY <3>1, <3>2, <3>3 DEF Copy!Next, Copy!Complete, childVars
  <2> QED
    BY <1>0, <1>5, <1>7, <2>1, <2>2, AcceptCopies DEF ChildStep
<1>8. CASE CallFails
  BY <1>0, <1>4, <1>8 DEF CallFails
<1>9. ASSUME NEW p \in Ends, TimesOut(p) PROVE [Copy!Next]_Copy!vars
  BY <1>4, <1>9 DEF TimesOut
<1>10. ASSUME \/ Network \/ Rewrite \/ UNCHANGED vars
              \/ \E p \in Ends : RetriesExceeded(p) \/ Leave(p)
       PROVE  [Copy!Next]_Copy!vars
  <2>1. UNCHANGED childVars /\ pc' = pc
    BY <1>10 DEF Network, Deliver, CompleteSend, Rewrite, vars, RetriesExceeded, Leave
  <2> QED
    BY <1>1, <2>1
<1> QED
  BY <1>6, <1>7, <1>8, <1>9, <1>10 DEF Next

\* The file mode of both programs implements a verified copy: what is written only
\* grows, within the announced length, and is reported complete when it is the
\* announced content, for all files and through every failure.
THEOREM CopyImplemented == Spec => ImplementsCopy
  BY InitCopies, Invariance, StepCopies, PTL DEF Spec, ImplementsCopy

-----------------------------------------------------------------------------
\* What each step does to the messages that wait on a side.
QueueTypes ==
  \A p \in Ends :
    /\ Queue(p) \in Seq(Messages) /\ Len(Queue(p)) \in Nat
    /\ rx[p] \in 0 .. 1 /\ Room(p) \in 0 .. 1 /\ Room(p) = rx[p] + Len(Queue(p))
    /\ Queue(p) = <<>> <=> Len(Queue(p)) = 0

\* A side has a RECV posted or one message waiting.
LEMMA QueueFacts == LinkTypes => QueueTypes
<1> SUFFICES ASSUME LinkTypes, NEW p \in Ends
             PROVE  /\ Queue(p) \in Seq(Messages) /\ Len(Queue(p)) \in Nat
                    /\ rx[p] \in 0 .. 1 /\ Room(p) \in 0 .. 1
                    /\ Room(p) = rx[p] + Len(Queue(p))
                    /\ Queue(p) = <<>> <=> Len(Queue(p)) = 0
  BY DEF QueueTypes
<1>1. /\ pending[p] \in Seq(Messages) /\ cq[p] \in Seq(Messages)
      /\ rx[p] \in 0 .. 1 /\ Room(p) <= 1
  BY DEF LinkTypes
<1>2. /\ Len(pending[p]) \in Nat /\ Len(cq[p]) \in Nat
      /\ Queue(p) \in Seq(Messages) /\ Len(Queue(p)) = Len(pending[p]) + Len(cq[p])
  BY <1>1, LenProperties, ConcatProperties DEF Queue
<1>3. Queue(p) = <<>> <=> Len(Queue(p)) = 0
  BY <1>2, EmptySeq
<1> DEFINE r == rx[p]  a == Len(pending[p])  b == Len(cq[p])
<1>4. Room(p) = r + b + a /\ Len(Queue(p)) = a + b
  BY <1>2 DEF Room
<1>5. r \in 0 .. 1 /\ a \in Nat /\ b \in Nat
  BY <1>1, <1>2
<1> HIDE DEF r, a, b
<1>6. Room(p) \in 0 .. 1 /\ Room(p) = r + Len(Queue(p))
  BY <1>1, <1>4, <1>5
<1>7. Len(Queue(p)) \in Nat
  BY <1>4, <1>5
<1> QED
  BY <1>1, <1>2, <1>3, <1>6, <1>7, Zenon DEF r

\* A wait fails, leaves a message where it is, or returns the one that waits.
WaitReturns(p) ==
  /\ pc' = [pc EXCEPT ![p] = "Got"] /\ tx'[p] = "none"
  /\ Len(Queue(p)) = 1 /\ Queue(p)' = <<>>
  /\ current' = [current EXCEPT ![p] = Head(Queue(p))]
WaitGoesOn(p) ==
  /\ pc' = pc /\ current' = current /\ Queue(p)' = Queue(p)
  /\ tx'[p] = tx[p] \/ (tx[p] = "completed" /\ tx'[p] = "none")
WaitFails(p) ==
  /\ pc' = [pc EXCEPT ![p] = "Failed"]
  /\ UNCHANGED <<linkVars, current>> /\ Queue(p)' = Queue(p)

LEMMA WaitFacts ==
  ASSUME LinkTypes, NEW p \in Ends, Wait(p)
  PROVE  /\ pc[p] = "Wait" /\ UNCHANGED <<file, changes, parentVars, childVars, rx, msg>>
         /\ \A q \in Ends : q # p => Queue(q)' = Queue(q) /\ tx'[q] = tx[q]
         /\ WaitReturns(p) \/ WaitGoesOn(p) \/ WaitFails(p)
<1>1. QueueTypes /\ <<>> \in Seq(Messages) /\ Len(<<>>) = 0
  BY QueueFacts, EmptySeq
<1>2. /\ pc[p] = "Wait" /\ UNCHANGED <<file, changes, parentVars, childVars>>
  BY DEF Wait
<1>3. CASE tx[p] = "error"
  <2>1. pc' = [pc EXCEPT ![p] = "Failed"] /\ UNCHANGED <<linkVars, current>>
    BY <1>3 DEF Wait, Fails, Goto
  <2> QED
    BY <1>2, <2>1 DEF WaitFails, Queue, linkVars
<1>4. CASE tx[p] # "error"
  <2>0. /\ cq' = [cq EXCEPT ![p] = <<>>]
        /\ tx' = [tx EXCEPT ![p] = IF SendDone(p) THEN "none" ELSE @]
        /\ msg' = msg /\ rx' = rx
    BY <1>4 DEF Wait
  <2>1. /\ cq'[p] = <<>> /\ tx'[p] = (IF SendDone(p) THEN "none" ELSE tx[p])
        /\ \A q \in Ends : q # p => cq'[q] = cq[q] /\ tx'[q] = tx[q]
    BY <2>0 DEF LinkTypes
  <2>2. CASE Queue(p) # <<>> /\ SendDone(p)
    <3>1. /\ current' = [current EXCEPT ![p] = Head(Queue(p))]
          /\ pending' = [pending EXCEPT ![p] = Tail(Queue(p))]
          /\ pc' = [pc EXCEPT ![p] = "Got"]
      BY <1>4, <2>2 DEF Wait, Goto
    <3>2. Len(Queue(p)) = 1
      <4> DEFINE l == Len(Queue(p))  r == rx[p]
      <4>1. l \in Nat /\ l # 0 /\ r \in 0 .. 1 /\ r + l \in 0 .. 1
        BY <1>1, <2>2, Zenon DEF QueueTypes
      <4> HIDE DEF l, r
      <4>2. l = 1
        BY <4>1
      <4> QED
        BY <4>2 DEF l
    <3>3. Tail(Queue(p)) \in Seq(Messages) /\ Len(Tail(Queue(p))) = 0
      BY <1>1, <2>2, <3>2, HeadTailProperties DEF QueueTypes
    <3>4. Tail(Queue(p)) = <<>> /\ <<>> \o <<>> = <<>>
      BY <1>1, <3>3, EmptySeq, ConcatEmptySeq
    <3>5. /\ pending'[p] = Tail(Queue(p))
          /\ \A q \in Ends : q # p => pending'[q] = pending[q]
      BY <3>1 DEF LinkTypes
    <3>6. Queue(p)' = <<>>
      BY <2>1, <3>4, <3>5 DEF Queue
    <3>7. \A q \in Ends : q # p => Queue(q)' = Queue(q)
      BY <2>1, <3>5 DEF Queue
    <3> QED
      BY <1>2, <2>0, <2>1, <2>2, <3>1, <3>2, <3>6, <3>7 DEF WaitReturns
  <2>3. CASE ~(Queue(p) # <<>> /\ SendDone(p))
    <3>1. /\ pending' = [pending EXCEPT ![p] = Queue(p)] /\ current' = current /\ pc' = pc
      BY <1>4, <2>3 DEF Wait
    <3>2. /\ pending'[p] = Queue(p)
          /\ \A q \in Ends : q # p => pending'[q] = pending[q]
      BY <3>1 DEF LinkTypes
    <3>3. Queue(p) \o <<>> = Queue(p)
      BY <1>1, ConcatEmptySeq DEF QueueTypes
    <3>4. Queue(p)' = Queue(p)
      <4>1. Queue(p)' = pending'[p] \o cq'[p]
        BY DEF Queue
      <4> QED
        BY <2>1, <3>2, <3>3, <4>1
    <3>5. \A q \in Ends : q # p => Queue(q)' = Queue(q)
      BY <2>1, <3>2 DEF Queue
    <3>6. tx'[p] = tx[p] \/ (tx[p] = "completed" /\ tx'[p] = "none")
      BY <2>1 DEF SendDone
    <3> QED
      BY <1>2, <2>0, <2>1, <3>1, <3>4, <3>5, <3>6 DEF WaitGoesOn
  <2> QED
    BY <2>2, <2>3
<1> QED
  BY <1>3, <1>4

\* The provider moves a message where nothing waits.
LEMMA DeliverFacts ==
  ASSUME LinkTypes, NEW p \in Ends, Deliver(p)
  PROVE  /\ UNCHANGED <<file, changes, pc, parentVars, msg, current, childVars>>
         /\ tx[p] = "wire" /\ tx' = [tx EXCEPT ![p] = "acked"]
         /\ \A q \in Ends : q # Peer(p) => Queue(q)' = Queue(q) /\ rx'[q] = rx[q]
         /\ \A q \in Ends : Room(q)' = Room(q)
         /\ Queue(Peer(p)) = <<>> /\ Queue(Peer(p))' = <<msg[p]>>
         /\ rx[Peer(p)] = 1 /\ rx'[Peer(p)] = 0
<1> DEFINE o == Peer(p)
<1>0. QueueTypes /\ o \in Ends /\ msg[p] \in Messages /\ rx[o] > 0
  BY QueueFacts, FileFacts DEF LinkTypes, Deliver
<1>1. rx[o] = 1 /\ Len(Queue(o)) = 0 /\ Queue(o) = <<>>
  <2> DEFINE l == Len(Queue(o))  r == rx[o]
  <2>1. l \in Nat /\ r \in 0 .. 1 /\ r > 0 /\ r + l \in 0 .. 1
    BY <1>0, Zenon DEF QueueTypes
  <2> HIDE DEF l, r
  <2>2. l = 0 /\ r = 1
    BY <2>1
  <2> QED
    BY <1>0, <2>2, Zenon DEF l, r, QueueTypes
<1>2. pending[o] \in Seq(Messages) /\ cq[o] \in Seq(Messages)
  BY <1>0 DEF LinkTypes
<1>3. Len(pending[o]) = 0 /\ Len(cq[o]) = 0
  <2> DEFINE a == Len(pending[o])  b == Len(cq[o])
  <2>1. a + b = 0 /\ a \in Nat /\ b \in Nat
    <3>1. Len(pending[o] \o cq[o]) = a + b
      BY <1>2, ConcatProperties
    <3>2. a \in Nat /\ b \in Nat
      BY <1>2, LenProperties
    <3> QED
      BY <1>1, <3>1, <3>2, Zenon DEF Queue
  <2> HIDE DEF a, b
  <2>2. a = 0 /\ b = 0
    BY <2>1
  <2> QED
    BY <2>2 DEF a, b
<1>4. pending[o] = <<>> /\ cq[o] = <<>>
  BY <1>2, <1>3, EmptySeq
<1>5. /\ rx' = [rx EXCEPT ![o] = rx[o] - 1] /\ tx[p] = "wire"
      /\ tx' = [tx EXCEPT ![p] = "acked"]
      /\ cq' = [cq EXCEPT ![o] = Append(cq[o], msg[p])]
      /\ UNCHANGED <<file, changes, pc, parentVars, msg, pending, current, childVars>>
  BY DEF Deliver
<1> HIDE DEF o
<1>6. /\ \A q \in Ends : q # o => cq'[q] = cq[q] /\ rx'[q] = rx[q]
      /\ cq'[o] = Append(cq[o], msg[p]) /\ rx'[o] = 0
  BY <1>0, <1>1, <1>5 DEF LinkTypes
<1>7. Append(<<>>, msg[p]) = <<msg[p]>> /\ <<>> \o <<msg[p]>> = <<msg[p]>>
  OBVIOUS
<1>8. Queue(o)' = <<msg[p]>>
  <2>1. Queue(o)' = pending'[o] \o cq'[o]
    BY DEF Queue
  <2> QED
    BY <1>4, <1>5, <1>6, <1>7, <2>1
<1>9. \A q \in Ends : q # o => Queue(q)' = Queue(q) /\ Room(q)' = Room(q)
  BY <1>5, <1>6 DEF Queue, Room
<1>10. Room(o)' = Room(o)
  <2>1. Len(Append(cq[o], msg[p])) = Len(cq[o]) + 1
    BY <1>0, <1>2, AppendProperties
  <2>2. /\ Room(o) = 1 + Len(cq[o]) + Len(pending[o])
        /\ Room(o)' = 0 + (Len(cq[o]) + 1) + Len(pending[o])
    BY <1>1, <1>5, <1>6, <2>1 DEF Room
  <2>3. Room(o) = 1 + 0 + 0 /\ Room(o)' = 0 + (0 + 1) + 0
    BY <1>3, <2>2, Zenon
  <2> QED
    BY <2>3
<1> QED
  BY <1>1, <1>5, <1>6, <1>8, <1>9, <1>10 DEF o

-----------------------------------------------------------------------------
\* What is left of a program's posts and messages, by where it stands.
ParentIdle ==
  /\ pc["parent"] \in {"Wait", "Got", "Hash", "Metadata", "Read", "Done"} =>
       tx["parent"] = "none"
  /\ pc["parent"] \notin {"Wait", "Failed"} => Room("parent") = 0
ChildIdle ==
  /\ pc["child"] \in {"Got", "Accept", "Flush", "Done"} => tx["child"] = "none"
  /\ \/ pc["child"] \in {"Flush", "Done"}
     \/ pc["child"] = "Accept" /\ current["child"].kind \notin {"Metadata", "Data"}
     => Room("child") = 0
  /\ pc["child"] \in {"Request", "Create", "Wait"} => current["child"].kind # "End"

\* The SEND of End has reached the child, and where End then is.
EndDelivered ==
  \/ pc["parent"] = "Done"
  \/ /\ pc["parent"] = "Drain" /\ msg["parent"].kind = "End"
     /\ tx["parent"] \in {"acked", "completed"}
EndArrived ==
  \/ current["child"].kind = "End"
  \/ Queue("child") # <<>> /\ Head(Queue("child")).kind = "End"
EndComes ==
  EndDelivered /\ pc["child"] \notin {"Failed", "Refused"} => EndArrived

Idle == ParentIdle /\ ChildIdle /\ EndComes

\* A step that moves neither program on, but may end one.
LEMMA ParentKeepsIdle ==
  ASSUME ParentIdle, pc'["parent"] \in {pc["parent"], "Failed"},
         Room("parent") = 0 => Room("parent")' = 0,
         \/ tx'["parent"] \in {tx["parent"], "none"}
         \/ tx["parent"] # "none"
  PROVE  ParentIdle'
  BY DEF ParentIdle

LEMMA ChildKeepsIdle ==
  ASSUME ChildIdle, pc'["child"] \in {pc["child"], "Failed", "Refused"},
         current'["child"] = current["child"],
         Room("child") = 0 => Room("child")' = 0,
         \/ tx'["child"] \in {tx["child"], "none"}
         \/ tx["child"] # "none"
  PROVE  ChildIdle'
  BY DEF ChildIdle

LEMMA EndKept ==
  ASSUME EndComes, EndDelivered' => EndDelivered,
         pc'["child"] \in {"Failed", "Refused"} \/ pc["child"] \notin {"Failed", "Refused"},
         current'["child"] = current["child"], Queue("child")' = Queue("child")
  PROVE  EndComes'
  BY DEF EndComes, EndArrived

\* A step that leaves the JFCs and the posted RECVs alone.
LEMMA WaitingKept ==
  ASSUME UNCHANGED <<rx, cq, pending>>
  PROVE  \A p \in Ends : Room(p)' = Room(p) /\ Queue(p)' = Queue(p)
  BY DEF Room, Queue

\* The initial states.
LEMMA InitIdle == Init => Idle
<1> SUFFICES ASSUME Init PROVE Idle
  OBVIOUS
<1>1. /\ pc["parent"] = "Wait" /\ pc["child"] = "Request" /\ tx["parent"] = "none"
      /\ current["child"].kind = "none"
  BY FileFacts, MessageFacts DEF Init
<1> QED
  BY <1>1 DEF Idle, ParentIdle, ChildIdle, EndComes, EndDelivered

\* A call that fails.
LEMMA FailsIdle ==
  ASSUME IInv, Idle, NEW p \in Ends, NEW fault, NEW labels, FailsBy(p, fault, labels),
         "Failed" \notin labels
  PROVE  Idle'
<1>1. /\ pc[p] # "Failed" /\ pc' = [pc EXCEPT ![p] = "Failed"] /\ pc \in [Ends -> Labels]
      /\ UNCHANGED <<linkVars, current>>
  BY DEF FailsBy, Fails, Goto, IInv, Types, ControlTypes
<1>2. /\ pc'[p] = "Failed" /\ \A q \in Ends : pc'[q] \in {pc[q], "Failed"}
      /\ p = "parent" => pc'["child"] = pc["child"]
      /\ UNCHANGED <<tx, msg, rx, cq, pending>>
  BY <1>1, FileFacts DEF linkVars
<1>3. /\ \A q \in Ends : Room(q)' = Room(q) /\ Queue(q)' = Queue(q)
      /\ "parent" \in Ends /\ "child" \in Ends
  BY <1>2, WaitingKept, FileFacts
<1>4. ParentIdle' /\ ChildIdle'
  BY <1>1, <1>2, <1>3, ParentKeepsIdle, ChildKeepsIdle DEF Idle
<1>5. EndComes'
  <2>1. EndDelivered' => EndDelivered
    BY <1>2, <1>3 DEF EndDelivered
  <2>2. pc'["child"] \in {pc["child"], "Failed"}
    BY <1>2, <1>3
  <2> QED
    BY <1>1, <1>3, <2>1, <2>2, EndKept DEF Idle, EndComes
<1> QED
  BY <1>4, <1>5 DEF Idle

\* The waits.
LEMMA WaitIdle == ASSUME IInv, Idle, NEW p \in Ends, Wait(p) PROVE Idle'
<1>0. /\ pc[p] = "Wait" /\ rx' = rx /\ msg' = msg
      /\ \A q \in Ends : q # p => Queue(q)' = Queue(q) /\ tx'[q] = tx[q]
      /\ WaitReturns(p) \/ WaitGoesOn(p) \/ WaitFails(p)
      /\ pc \in [Ends -> Labels] /\ current \in [Ends -> Messages]
      /\ QueueTypes /\ QueueTypes' /\ "parent" \in Ends /\ "child" \in Ends
      /\ Ends = {"parent", "child"}
  <2>1. QueueTypes /\ QueueTypes'
    <3>1. LinkTypes /\ LinkTypes'
      BY WaitInv DEF IInv, Types
    <3> QED
      BY <3>1, QueueFacts, PTL
  <2> QED
    BY <2>1, WaitFacts, FileFacts DEF IInv, Types, ControlTypes
<1>1. \A q \in Ends : Queue(q)' = Queue(q) => Room(q)' = Room(q)
  BY <1>0, Zenon DEF QueueTypes
<1>2. CASE WaitReturns(p)
  <2>1. /\ pc'[p] = "Got" /\ tx'[p] = "none" /\ Queue(p) # <<>>
        /\ current'[p] = Head(Queue(p))
        /\ \A q \in Ends : q # p => pc'[q] = pc[q] /\ current'[q] = current[q]
    <3>1. Len(Queue(p)) # 0
      BY <1>2 DEF WaitReturns
    <3> QED
      BY <1>0, <1>2, <3>1 DEF WaitReturns, QueueTypes
  <2>2. Room(p)' = 0
    <3> DEFINE r == rx[p]
    <3>1. r \in 0 .. 1 /\ r + 1 \in 0 .. 1 /\ Room(p)' = r + Len(<<>>)
      BY <1>0, <1>2, Zenon DEF QueueTypes, WaitReturns
    <3>2. Len(<<>>) = 0
      BY EmptySeq
    <3> HIDE DEF r
    <3> QED
      BY <3>1, <3>2
  <2>3. CASE p = "parent"
    <3>1. ParentIdle'
      BY <2>1, <2>2, <2>3 DEF ParentIdle
    <3>2. ChildIdle'
      BY <1>0, <1>1, <2>1, <2>3, ChildKeepsIdle DEF Idle
    <3>3. EndDelivered' => EndDelivered
      BY <2>1, <2>3 DEF EndDelivered
    <3>4. EndComes'
      BY <1>0, <2>1, <2>3, <3>3, EndKept DEF Idle, EndComes
    <3> QED
      BY <3>1, <3>2, <3>4 DEF Idle
  <2>4. CASE p = "child"
    <3>1. ParentIdle'
      BY <1>0, <1>1, <2>1, <2>4, ParentKeepsIdle DEF Idle
    <3>2. ChildIdle'
      BY <2>1, <2>2, <2>4 DEF ChildIdle
    <3>3. EndDelivered' => EndDelivered
      BY <1>0, <2>1, <2>4 DEF EndDelivered
    <3>4. EndComes'
      <4>1. current["child"].kind # "End"
        BY <1>0, <2>4 DEF Idle, ChildIdle
      <4> QED
        BY <1>0, <2>1, <2>4, <3>3, <4>1 DEF Idle, EndComes, EndArrived
    <3> QED
      BY <3>1, <3>2, <3>4 DEF Idle
  <2> QED
    BY <1>0, <2>3, <2>4
<1>3. CASE WaitGoesOn(p) \/ WaitFails(p)
  <2>1. /\ \A q \in Ends : pc'[q] = pc[q] \/ (q = p /\ pc'[q] = "Failed")
        /\ current' = current
        /\ \A q \in Ends : Queue(q)' = Queue(q) /\ tx'[q] \in {tx[q], "none"}
    BY <1>0, <1>3 DEF WaitGoesOn, WaitFails, linkVars
  <2>2. ParentIdle' /\ ChildIdle'
    BY <1>0, <1>1, <2>1, ParentKeepsIdle, ChildKeepsIdle DEF Idle
  <2>3. EndDelivered' => EndDelivered
    BY <1>0, <2>1 DEF EndDelivered
  <2>4. EndComes'
    BY <1>0, <2>1, <2>3, EndKept DEF Idle, EndComes
  <2> QED
    BY <2>2, <2>4 DEF Idle
<1> QED
  BY <1>0, <1>2, <1>3

\* The parent's other steps.
LEMMA ParentStepIdle ==
  ASSUME IInv, Idle, Drain \/ TakeRequest \/ Hash \/ SendMetadata \/ SendData PROVE Idle'
<1>0. /\ pc \in [Ends -> Labels] /\ tx \in [Ends -> {"none", "wire", "acked", "completed", "error"}]
      /\ msg \in [Ends -> Messages] /\ "parent" \in Ends /\ "child" \in Ends
  BY FileFacts DEF IInv, Types, ControlTypes, LinkTypes
<1>1. /\ UNCHANGED <<rx, cq, pending, current>> /\ pc'["child"] = pc["child"]
      /\ tx'["child"] = tx["child"] /\ pc["parent"] \notin {"Wait", "Failed"}
  BY <1>0
  DEF Drain, TakeRequest, Hash, SendMetadata, SendData, Posts, Goto, Fails, linkVars
<1>2. \A q \in Ends : Room(q)' = Room(q) /\ Queue(q)' = Queue(q)
  BY <1>1, WaitingKept
<1>3. ChildIdle'
  BY <1>0, <1>1, <1>2, ChildKeepsIdle DEF Idle
<1>4. ParentIdle'
  <2>1. Room("parent")' = 0
    BY <1>0, <1>1, <1>2 DEF Idle, ParentIdle
  <2>2. \/ pc'["parent"] \in {"Failed", "Drain"} \/ tx'["parent"] = "none"
    BY <1>0
    DEF Idle, ParentIdle, Drain, TakeRequest, Hash, SendMetadata, SendData, Posts, Goto,
        Fails, linkVars
  <2> QED
    BY <2>1, <2>2 DEF ParentIdle
<1>5. EndDelivered' => EndDelivered
  <2>1. CASE Drain
    BY <1>0, <2>1 DEF EndDelivered, Drain, Drained, Goto, Fails
  <2>2. CASE TakeRequest \/ Hash
    BY <1>0, <2>2 DEF EndDelivered, TakeRequest, Hash, Goto
  <2>3. CASE SendMetadata \/ SendData
    <3>1. tx'["parent"] = "wire" /\ pc'["parent"] = "Drain"
      BY <1>0, <2>3 DEF SendMetadata, SendData, Posts, Goto
    <3> QED
      BY <3>1 DEF EndDelivered
  <2> QED
    BY <2>1, <2>2, <2>3
<1>6. EndComes'
  BY <1>0, <1>1, <1>2, <1>5, EndKept DEF Idle, EndComes
<1> QED
  BY <1>3, <1>4, <1>6 DEF Idle

\* The child's other steps.
LEMMA ChildStepIdle ==
  ASSUME IInv, Idle, SendRequest \/ CreateOutput \/ Repost \/ Accept \/ Flush PROVE Idle'
<1>0. /\ pc \in [Ends -> Labels] /\ tx \in [Ends -> {"none", "wire", "acked", "completed", "error"}]
      /\ msg \in [Ends -> Messages] /\ rx \in [Ends -> 0 .. 1]
      /\ "parent" \in Ends /\ "child" \in Ends
  BY FileFacts DEF IInv, Types, ControlTypes, LinkTypes
<1>1. /\ UNCHANGED <<cq, pending, current>> /\ pc'["parent"] = pc["parent"]
      /\ tx'["parent"] = tx["parent"] /\ msg'["parent"] = msg["parent"]
      /\ rx'["parent"] = rx["parent"] /\ pc["child"] \notin {"Failed", "Refused"}
  BY <1>0
  DEF SendRequest, CreateOutput, Repost, Accept, AcceptMetadata, AcceptData, AcceptEnd,
      Refuse, Flush, Posts, Goto, Fails, linkVars
<1>2. Room("parent")' = Room("parent") /\ \A q \in Ends : Queue(q)' = Queue(q)
  BY <1>1 DEF Room, Queue
<1>3. ParentIdle'
  BY <1>0, <1>1, <1>2, ParentKeepsIdle DEF Idle
<1>4. EndComes'
  <2>1. EndDelivered' => EndDelivered
    BY <1>1 DEF EndDelivered
  <2> QED
    BY <1>0, <1>1, <1>2, <2>1, EndKept DEF Idle
<1>5. CASE SendRequest \/ CreateOutput
  <2>1. pc["child"] \in {"Request", "Create"} /\ pc'["child"] \in {"Create", "Wait"}
    BY <1>0, <1>5 DEF SendRequest, CreateOutput, Goto
  <2>2. ChildIdle'
    BY <1>1, <2>1 DEF Idle, ChildIdle
  <2> QED
    BY <1>3, <1>4, <2>2 DEF Idle
<1>6. CASE Repost
  <2>1. /\ pc["child"] = "Got" /\ pc'["child"] = "Accept" /\ tx' = tx
        /\ rx' = [rx EXCEPT !["child"] = @ + Reposts(current["child"].kind)]
    BY <1>0, <1>6 DEF Repost, Goto
  <2>2. Room("child") = 0
    BY <2>1 DEF IInv, Types, Taken
  <2>3. current["child"].kind \notin {"Metadata", "Data"} => Room("child")' = Room("child")
    BY <1>0, <1>1, <2>1 DEF Reposts, Room
  <2>4. ChildIdle'
    BY <1>1, <2>1, <2>2, <2>3 DEF Idle, ChildIdle
  <2> QED
    BY <1>3, <1>4, <2>4 DEF Idle
<1>7. CASE Accept
  <2>1. /\ pc["child"] = "Accept" /\ tx' = tx /\ rx' = rx
        /\ Room("child")' = Room("child")
    BY <1>7 DEF Accept, linkVars, Room
  <2>2. \/ pc'["child"] = "Wait" /\ current["child"].kind # "End"
        \/ pc'["child"] = "Flush" /\ current["child"].kind = "End"
        \/ pc'["child"] \in {"Failed", "Refused"}
    BY <1>0, <1>7
    DEF Accept, AcceptMetadata, AcceptData, AcceptEnd, Refuse, Goto, Fails
  <2>3. ChildIdle'
    BY <1>1, <2>1, <2>2 DEF Idle, ChildIdle
  <2> QED
    BY <1>3, <1>4, <2>3 DEF Idle
<1>8. CASE Flush
  <2>1. /\ pc["child"] = "Flush" /\ pc'["child"] = "Done" /\ tx' = tx
        /\ Room("child")' = Room("child")
    BY <1>0, <1>8 DEF Flush, Goto, linkVars, Room
  <2>2. ChildIdle'
    BY <1>1, <2>1 DEF Idle, ChildIdle
  <2> QED
    BY <1>3, <1>4, <2>2 DEF Idle
<1> QED
  BY <1>5, <1>6, <1>7, <1>8

\* The provider delivers a message.
LEMMA DeliverIdle == ASSUME IInv, Idle, NEW p \in Ends, Deliver(p) PROVE Idle'
<1>0. /\ tx \in [Ends -> {"none", "wire", "acked", "completed", "error"}]
      /\ Ends = {"parent", "child"} /\ Peer("parent") = "child" /\ Peer("child") = "parent"
      /\ msg["parent"] \in Messages /\ QueueTypes
  BY FileFacts, QueueFacts DEF IInv, Types, LinkTypes
<1>1. /\ UNCHANGED <<pc, msg, current>>
      /\ tx[p] = "wire" /\ tx' = [tx EXCEPT ![p] = "acked"]
      /\ \A q \in Ends : q # Peer(p) => Queue(q)' = Queue(q)
      /\ \A q \in Ends : Room(q)' = Room(q)
      /\ Queue(Peer(p)) = <<>> /\ Queue(Peer(p))' = <<msg[p]>>
  BY DeliverFacts DEF IInv, Types
<1>2. \A q \in Ends : tx'[q] = tx[q] \/ tx[q] # "none"
  BY <1>0, <1>1
<1>3. ParentIdle' /\ ChildIdle'
  BY <1>0, <1>1, <1>2, ParentKeepsIdle, ChildKeepsIdle DEF Idle
<1>4. EndComes'
  <2>1. CASE p = "parent"
    <3>1. Queue("child") = <<>> /\ Queue("child")' = <<msg["parent"]>>
      BY <1>0, <1>1, <2>1
    <3>2. Head(<<msg["parent"]>>) = msg["parent"] /\ <<msg["parent"]>> # <<>>
      OBVIOUS
    <3>3. EndDelivered' => msg["parent"].kind = "End" \/ EndDelivered
      BY <1>1 DEF EndDelivered
    <3>4. EndArrived' <=> current["child"].kind = "End" \/ msg["parent"].kind = "End"
      BY <1>1, <3>1, <3>2 DEF EndArrived
    <3>5. EndArrived => current["child"].kind = "End"
      BY <3>1 DEF EndArrived
    <3> QED
      BY <1>1, <3>3, <3>4, <3>5 DEF Idle, EndComes
  <2>2. CASE p = "child"
    <3>1. EndDelivered' => EndDelivered
      BY <1>0, <1>1, <2>2 DEF EndDelivered
    <3>2. Queue("child")' = Queue("child")
      BY <1>0, <1>1, <2>2
    <3> QED
      BY <1>0, <1>1, <3>1, <3>2, EndKept DEF Idle, EndComes
  <2> QED
    BY <1>0, <2>1, <2>2
<1> QED
  BY <1>3, <1>4 DEF Idle

\* CompleteSend, RetriesExceeded and Leave.
LEMMA SendStateIdle ==
  ASSUME IInv, Idle, NEW p \in Ends, CompleteSend(p) \/ RetriesExceeded(p) \/ Leave(p)
  PROVE  Idle'
<1>0. /\ tx \in [Ends -> {"none", "wire", "acked", "completed", "error"}]
      /\ rx \in [Ends -> 0 .. 1] /\ QueueTypes
      /\ Ends = {"parent", "child"}
  BY FileFacts, QueueFacts DEF IInv, Types, LinkTypes
<1>1. UNCHANGED <<pc, msg, cq, pending, current>>
  BY DEF CompleteSend, RetriesExceeded, Leave
<1>2. \A q \in Ends : Queue(q)' = Queue(q)
  BY <1>1 DEF Queue
<1>3. \A q \in Ends : tx'[q] \in {tx[q], "none"} \/ tx[q] # "none"
  BY <1>0 DEF CompleteSend, RetriesExceeded, Leave
<1>4. \A q \in Ends : Room(q) = 0 => Room(q)' = 0
  <2> SUFFICES ASSUME NEW q \in Ends, Room(q) = 0 PROVE Room(q)' = 0
    OBVIOUS
  <2>1. rx[q] = 0
    <3> DEFINE r == rx[q]  l == Len(Queue(q))
    <3>1. r \in 0 .. 1 /\ l \in Nat /\ r + l = 0
      BY <1>0, Zenon DEF QueueTypes
    <3> HIDE DEF r, l
    <3>2. r = 0
      BY <3>1
    <3> QED
      BY <3>2 DEF r
  <2>2. rx'[q] = rx[q]
    BY <1>0, <2>1 DEF CompleteSend, RetriesExceeded, Leave
  <2> QED
    BY <1>1, <2>2 DEF Room
<1>5. ParentIdle' /\ ChildIdle'
  BY <1>0, <1>1, <1>3, <1>4, ParentKeepsIdle, ChildKeepsIdle DEF Idle
<1>6. EndDelivered' => EndDelivered
  BY <1>0, <1>1 DEF EndDelivered, CompleteSend, RetriesExceeded, Leave
<1>7. EndComes'
  BY <1>0, <1>1, <1>2, <1>6, EndKept DEF Idle, EndComes
<1> QED
  BY <1>5, <1>7 DEF Idle

\* Every step keeps it.
LEMMA StepIdle == IInv /\ Idle /\ [Next]_vars => Idle'
<1> SUFFICES ASSUME IInv, Idle, [Next]_vars PROVE Idle'
  OBVIOUS
<1>1. CASE ParentStep
  BY <1>1, WaitIdle, ParentStepIdle, FileFacts DEF ParentStep
<1>2. CASE ChildStep
  BY <1>2, WaitIdle, ChildStepIdle, FileFacts DEF ChildStep
<1>3. CASE CallFails
  BY <1>3, FailsIdle, FileFacts DEF CallFails
<1>4. ASSUME NEW p \in Ends, TimesOut(p) PROVE Idle'
  BY <1>4, FailsIdle DEF TimesOut
<1>5. CASE Network
  BY <1>5, DeliverIdle, SendStateIdle DEF Network
<1>6. ASSUME NEW p \in Ends, RetriesExceeded(p) \/ Leave(p) PROVE Idle'
  BY <1>6, SendStateIdle
<1>7. CASE Rewrite \/ UNCHANGED vars
  <2>1. UNCHANGED <<pc, tx, msg, rx, cq, pending, current>>
    BY <1>7 DEF Rewrite, vars, linkVars
  <2>2. UNCHANGED Queue("child") /\ UNCHANGED Room("child") /\ UNCHANGED Room("parent")
    BY <2>1 DEF Queue, Room
  <2>3. ParentIdle' /\ ChildIdle'
    BY <2>1, <2>2 DEF Idle, ParentIdle, ChildIdle
  <2>4. EndComes'
    BY <2>1, <2>2 DEF Idle, EndComes, EndDelivered, EndArrived
  <2> QED
    BY <2>3, <2>4 DEF Idle
<1> QED
  BY <1>1, <1>2, <1>3, <1>4, <1>5, <1>6, <1>7 DEF Next

\* Both hold in every state.
LEMMA IdleAlways == Spec => [](IInv /\ Idle)
<1>1. Init => IInv /\ Idle
  BY InitInv, InitIdle
<1>2. (IInv /\ Idle) /\ [Next]_vars => (IInv /\ Idle)'
  BY StepInv, StepIdle
<1> QED
  BY <1>1, <1>2, PTL DEF Spec

\* Both programs at a successful end have neither a WR posted nor a message unread, for
\* all files and whatever happens on the way: the RECVs that the child reposts are
\* exactly as many as the parent has messages for.
THEOREM NothingLeft == Spec => []NothingOutstanding
<1>1. ASSUME IInv, Idle PROVE NothingOutstanding
  <2> SUFFICES ASSUME NEW p \in Ends, pc[p] = "Done"
               PROVE  rx[p] = 0 /\ tx[p] = "none" /\ cq[p] = <<>> /\ pending[p] = <<>>
    BY DEF NothingOutstanding
  <2>1. tx[p] = "none" /\ Room(p) = 0
    BY <1>1, FileFacts DEF Idle, ParentIdle, ChildIdle
  <2>2. /\ rx[p] \in 0 .. 1
        /\ cq[p] \in Seq(Messages) /\ pending[p] \in Seq(Messages)
    BY <1>1 DEF IInv, Types, LinkTypes
  <2> DEFINE r == rx[p]  a == Len(cq[p])  b == Len(pending[p])
  <2>3. r \in 0 .. 1 /\ a \in Nat /\ b \in Nat /\ r + a + b = 0
    BY <2>1, <2>2, LenProperties DEF Room
  <2> HIDE DEF r, a, b
  <2>4. r = 0 /\ a = 0 /\ b = 0
    BY <2>3
  <2> QED
    BY <2>1, <2>2, <2>4, EmptySeq DEF r, a, b
<1> QED
  BY <1>1, IdleAlways, PTL

\* A parent that ends well has had End delivered: a child that has not given up has it
\* before it, however late the provider reports the SEND.
THEOREM EndReachesChild == Spec => []DeliveredToEnd
<1>1. ASSUME IInv, Idle PROVE DeliveredToEnd
  <2> SUFFICES ASSUME pc["parent"] = "Done", pc["child"] \notin {"Failed", "Refused"},
                      current["child"].kind # "End"
               PROVE  \E i \in DOMAIN Queue("child") : Queue("child")[i].kind = "End"
    BY DEF DeliveredToEnd
  <2>1. Queue("child") # <<>> /\ Head(Queue("child")).kind = "End"
    BY <1>1 DEF Idle, EndComes, EndDelivered, EndArrived
  <2>2. Queue("child") \in Seq(Messages)
    BY <1>1, QueueFacts, FileFacts DEF IInv, Types, QueueTypes
  <2>3. Head(Queue("child")) = Queue("child")[1] /\ 1 \in DOMAIN Queue("child")
    BY <2>1, <2>2, EmptySeq, LenProperties
  <2> QED
    BY <2>1, <2>3
<1> QED
  BY <1>1, IdleAlways, PTL

-----------------------------------------------------------------------------
\* The messages on their way, as a chain from what the receiver expects to where the
\* sender is.  Message number n is the right one at position i of a file.
Length(m) == IF m.kind = "Data" THEN Len(m.data) ELSE 0
Right(f, m, n, i) ==
  \/ m.kind = "Metadata" /\ m.sequence = 0 /\ n = 0
  \/ /\ m.kind = "Data" /\ n = m.sequence + 1 /\ i + Len(m.data) <= Len(f)
     /\ m.data = SubSeq(f, i + 1, i + Len(m.data))
  \/ m.kind = "End" /\ n = m.sequence + 1 /\ i = Len(f)

\* A place that holds a message or none leads from n, i to k, j.
Stage(f, present, m, n, i, k, j) ==
  /\ k \in Nat /\ j \in Nat
  /\ present => Right(f, m, n, i) /\ k = n + 1 /\ j = i + Length(m)
  /\ ~present => k = n /\ j = i

\* The three places: the child's hands (h, c), its queue q, the parent's SEND (s, m).
Chained(f, h, c, q, s, m, n, i, k, j) ==
  \E n1, i1, n2, i2 : /\ Stage(f, h, c, n, i, n1, i1)
                      /\ Stage(f, q # <<>>, Head(q), n1, i1, n2, i2)
                      /\ Stage(f, s, m, n2, i2, k, j)

\* A waiting message comes into the child's hands.
LEMMA ChainTaken ==
  ASSUME NEW f, NEW c, NEW q, q # <<>>, NEW s, NEW m, NEW n \in Nat, NEW i \in Nat,
         NEW k, NEW j, Chained(f, FALSE, c, q, s, m, n, i, k, j)
  PROVE  Chained(f, TRUE, Head(q), <<>>, s, m, n, i, k, j)
<1>1. PICK n1, i1, n2, i2 : /\ Stage(f, FALSE, c, n, i, n1, i1)
                            /\ Stage(f, q # <<>>, Head(q), n1, i1, n2, i2)
                            /\ Stage(f, s, m, n2, i2, k, j)
  BY Zenon DEF Chained
<1>2. Stage(f, TRUE, Head(q), n, i, n2, i2)
  BY <1>1, Zenon DEF Stage
<1>3. Stage(f, <<>> # <<>>, Head(<<>>), n2, i2, n2, i2)
  BY <1>2, Zenon DEF Stage
<1> QED
  BY <1>1, <1>2, <1>3, Zenon DEF Chained

\* A message that is sent comes into the queue.
LEMMA ChainDelivered ==
  ASSUME NEW f, NEW h, NEW c, NEW m, NEW n, NEW i, NEW k, NEW j,
         Chained(f, h, c, <<>>, TRUE, m, n, i, k, j)
  PROVE  Chained(f, h, c, <<m>>, FALSE, m, n, i, k, j)
<1>1. PICK n1, i1, n2, i2 : /\ Stage(f, h, c, n, i, n1, i1)
                            /\ Stage(f, <<>> # <<>>, Head(<<>>), n1, i1, n2, i2)
                            /\ Stage(f, TRUE, m, n2, i2, k, j)
  BY Zenon DEF Chained
<1>2. Head(<<m>>) = m /\ <<m>> # <<>>
  OBVIOUS
<1>3. n2 = n1 /\ i2 = i1
  BY <1>1, Zenon DEF Stage
<1>4. Stage(f, <<m>> # <<>>, Head(<<m>>), n1, i1, k, j)
  BY <1>1, <1>2, <1>3, Zenon DEF Stage
<1>5. Stage(f, FALSE, m, k, j, k, j)
  BY <1>1, Zenon DEF Stage
<1> QED
  BY <1>1, <1>4, <1>5, Zenon DEF Chained

\* The message in the child's hands is the right one, and the next starts after it.
LEMMA ChainAccepted ==
  ASSUME NEW f, NEW c, NEW q, NEW s, NEW m, NEW n, NEW i, NEW k, NEW j,
         Chained(f, TRUE, c, q, s, m, n, i, k, j)
  PROVE  /\ Right(f, c, n, i)
         /\ Chained(f, FALSE, c, q, s, m, n + 1, i + Length(c), k, j)
<1>1. PICK n1, i1, n2, i2 : /\ Stage(f, TRUE, c, n, i, n1, i1)
                            /\ Stage(f, q # <<>>, Head(q), n1, i1, n2, i2)
                            /\ Stage(f, s, m, n2, i2, k, j)
  BY Zenon DEF Chained
<1>2. Right(f, c, n, i) /\ n1 = n + 1 /\ i1 = i + Length(c)
  BY <1>1, Zenon DEF Stage
<1>3. Stage(f, FALSE, c, n + 1, i + Length(c), n1, i1)
  BY <1>1, <1>2, Zenon DEF Stage
<1> QED
  BY <1>1, <1>2, <1>3, Zenon DEF Chained

\* The right message is posted.
LEMMA ChainPosted ==
  ASSUME NEW f, NEW h, NEW c, NEW q, NEW o, NEW m \in Messages, NEW n, NEW i,
         NEW k \in Nat, NEW j \in Nat,
         Chained(f, h, c, q, FALSE, o, n, i, k, j), Right(f, m, k, j)
  PROVE  Chained(f, h, c, q, TRUE, m, n, i, k + 1, j + Length(m))
<1>1. PICK n1, i1, n2, i2 : /\ Stage(f, h, c, n, i, n1, i1)
                            /\ Stage(f, q # <<>>, Head(q), n1, i1, n2, i2)
                            /\ Stage(f, FALSE, o, n2, i2, k, j)
  BY Zenon DEF Chained
<1>2. n2 = k /\ i2 = j
  BY <1>1, Zenon DEF Stage
<1>3. k + 1 \in Nat /\ j + Length(m) \in Nat
  <2>1. Length(m) \in Nat
    BY MessageFacts, LenProperties DEF Length
  <2> QED
    BY <2>1
<1>4. Stage(f, TRUE, m, n2, i2, k + 1, j + Length(m))
  BY <1>2, <1>3, Zenon DEF Stage
<1> QED
  BY <1>1, <1>4, Zenon DEF Chained

\* A SEND that is gone with its process leaves the rest.
LEMMA ChainCut ==
  ASSUME NEW f, NEW h, NEW c, NEW q, NEW s, NEW m, NEW o, NEW n, NEW i, NEW k, NEW j,
         Chained(f, h, c, q, s, m, n, i, k, j)
  PROVE  \E l \in Nat, r \in Nat : Chained(f, h, c, q, FALSE, o, n, i, l, r)
<1>1. PICK n1, i1, n2, i2 : /\ Stage(f, h, c, n, i, n1, i1)
                            /\ Stage(f, q # <<>>, Head(q), n1, i1, n2, i2)
                            /\ Stage(f, s, m, n2, i2, k, j)
  BY Zenon DEF Chained
<1>2. n2 \in Nat /\ i2 \in Nat /\ Stage(f, FALSE, o, n2, i2, n2, i2)
  BY <1>1, Zenon DEF Stage
<1>3. Chained(f, h, c, q, FALSE, o, n, i, n2, i2)
  BY <1>1, <1>2, Zenon DEF Chained
<1> QED
  BY <1>2, <1>3

-----------------------------------------------------------------------------
\* While nobody touches the file: where the sender is in its second pass, what the
\* receiver has accepted, and that the chain leads from one to the other.
SenderAt ==
  /\ pc["parent"] \in {"Wait", "Got", "Hash", "Metadata"} => sequence = 0
  /\ pc["parent"] = "Metadata" => pos = 0
  /\ pc["parent"] = "Drain" =>
       /\ msg["parent"].kind \in {"Metadata", "Data", "End"}
       /\ msg["parent"].kind = "Data" => msg["parent"].sequence = sequence
       /\ msg["parent"].kind = "Metadata" => sequence = 0
  /\ pc["parent"] \in {"Read", "Drain"} => pos <= Len(file)

ReceiverAt ==
  /\ pc["child"] # "Refused"
  /\ pc["child"] \notin {"Flush", "Done"} => phase # "Complete"
  /\ phase = "AwaitMetadata" => next = 0
  /\ Len(got) <= Len(file) /\ got = SubSeq(file, 1, Len(got))

\* The number of a message, of the next one to accept, and of the next one to send.
Number(m) == IF m.kind = "Metadata" THEN 0 ELSE m.sequence + 1
Accepted ==
  IF phase = "AwaitMetadata" THEN 0 ELSE IF phase = "Receiving" THEN next + 1 ELSE next + 2
Sent(k, j) ==
  /\ pc["parent"] \in {"Wait", "Got", "Hash", "Metadata"} => k = 0 /\ j = 0
  /\ pc["parent"] = "Read" => k = sequence + 1 /\ j = pos
  /\ pc["parent"] = "Drain" => k = Number(msg["parent"]) + 1 /\ j = pos

Holding == pc["child"] \in {"Got", "Accept"}
Sending == tx["parent"] \in {"wire", "error"}
Reaches(k, j) ==
  Chained(file, Holding, current["child"], Queue("child"), Sending, msg["parent"],
          Accepted, Len(got), k, j)
Chain == \E k, j \in Nat : Sent(k, j) /\ Reaches(k, j)

Flow == changes = 0 => SenderAt /\ (pc["child"] # "Failed" => ReceiverAt /\ Chain)

\* A sequence is the part of itself from its beginning to its end.
LEMMA Whole == ASSUME NEW S, NEW s \in Seq(S) PROVE SubSeq(s, 1, Len(s)) = s
<1>1. s \o <<>> = s /\ <<>> \in Seq(S)
  BY ConcatEmptySeq, EmptySeq
<1>2. SubSeq(s \o <<>>, 1, Len(s)) = s
  BY <1>1, Extended
<1> QED
  BY <1>1, <1>2

\* The initial states.
LEMMA InitFlow == Init => Flow
<1> SUFFICES ASSUME Init PROVE Flow
  OBVIOUS
<1>1. /\ pc["parent"] = "Wait" /\ pc["child"] = "Request" /\ tx["parent"] = "none"
      /\ sequence = 0 /\ phase = "AwaitMetadata" /\ next = 0 /\ got = <<>>
      /\ file \in Seq(Blocks)
  BY FileFacts DEF Init
<1>2. Len(<<>>) = 0 /\ Len(file) \in Nat /\ SubSeq(file, 1, 0) = <<>>
  BY <1>1, EmptySeq, LenProperties, SubSeqEmpty
<1>3. SenderAt /\ ReceiverAt
  BY <1>1, <1>2 DEF SenderAt, ReceiverAt
<1>4. Queue("child") = <<>>
  BY FileFacts DEF Init, Queue
<1>5. Reaches(0, 0)
  <2>1. ~Holding /\ ~Sending /\ Accepted = 0 /\ Len(got) = 0
    BY <1>1, <1>2 DEF Holding, Sending, Accepted
  <2>2. \A m : Stage(file, FALSE, m, 0, 0, 0, 0)
    BY DEF Stage
  <2>3. /\ Stage(file, Holding, current["child"], Accepted, Len(got), 0, 0)
        /\ Stage(file, Queue("child") # <<>>, Head(Queue("child")), 0, 0, 0, 0)
        /\ Stage(file, Sending, msg["parent"], 0, 0, 0, 0)
    <3>1. Holding = FALSE /\ Sending = FALSE /\ (Queue("child") # <<>>) = FALSE
      BY <1>4, <2>1 DEF Holding, Sending
    <3> QED
      BY <2>1, <2>2, <3>1
  <2> QED
    BY <2>3, Zenon DEF Reaches, Chained
<1>6. Sent(0, 0)
  BY <1>1 DEF Sent
<1> QED
  BY <1>3, <1>5, <1>6 DEF Flow, Chain

\* A step that leaves the receiver and all messages in their places.
LEMMA FlowKept ==
  ASSUME Flow, UNCHANGED <<file, changes, childVars>>,
         changes = 0 => SenderAt',
         pc'["child"] # "Failed" =>
           /\ pc["child"] # "Failed"
           /\ pc'["child"] # "Refused" \/ pc'["child"] = pc["child"]
           /\ pc'["child"] \notin {"Flush", "Done"} => pc["child"] \notin {"Flush", "Done"}
           /\ Holding' = Holding,
         Holding => current'["child"] = current["child"],
         Queue("child")' = Queue("child"), Sending' = Sending,
         Sending => msg'["parent"] = msg["parent"],
         \A k, j \in Nat : Sent(k, j) => Sent(k, j)'
  PROVE  Flow'
<1> SUFFICES ASSUME changes = 0, pc'["child"] # "Failed" PROVE ReceiverAt' /\ Chain'
  BY DEF Flow
<1>1. ReceiverAt /\ Chain
  BY DEF Flow
<1>2. ReceiverAt'
  BY <1>1 DEF ReceiverAt, childVars
<1>3. PICK k \in Nat, j \in Nat : Sent(k, j) /\ Reaches(k, j)
  BY <1>1 DEF Chain
<1>4. Reaches(k, j)'
  <2>1. PICK n1, i1, n2, i2 :
          /\ Stage(file, Holding, current["child"], Accepted, Len(got), n1, i1)
          /\ Stage(file, Queue("child") # <<>>, Head(Queue("child")), n1, i1, n2, i2)
          /\ Stage(file, Sending, msg["parent"], n2, i2, k, j)
    BY <1>3, Zenon DEF Reaches, Chained
  <2>2. Accepted' = Accepted /\ got' = got
    BY DEF Accepted, childVars
  <2>3. Stage(file, Holding', current'["child"], Accepted, Len(got), n1, i1)
    <3>1. (Holding' <=> Holding) /\ (Holding => current'["child"] = current["child"])
      OBVIOUS
    <3> QED
      BY <2>1, <3>1, Zenon DEF Stage
  <2>4. Stage(file, Sending', msg'["parent"], n2, i2, k, j)
    BY <2>1, Zenon DEF Stage
  <2>5. /\ Stage(file, Holding, current["child"], Accepted, Len(got), n1, i1)'
        /\ Stage(file, Queue("child") # <<>>, Head(Queue("child")), n1, i1, n2, i2)'
        /\ Stage(file, Sending, msg["parent"], n2, i2, k, j)'
    BY <2>1, <2>2, <2>3, <2>4
  <2> QED
    BY <2>5 DEF Reaches, Chained
<1> QED
  BY <1>2, <1>3, <1>4 DEF Chain

\* A call that fails.
LEMMA FailsFlow ==
  ASSUME IInv, Flow, NEW p \in Ends, NEW fault, NEW labels, FailsBy(p, fault, labels)
  PROVE  Flow'
<1>1. /\ pc' = [pc EXCEPT ![p] = "Failed"] /\ pc \in [Ends -> Labels]
      /\ UNCHANGED <<file, changes, parentVars, linkVars, current, childVars>>
      /\ Ends = {"parent", "child"}
  BY FileFacts DEF FailsBy, Fails, Goto, IInv, Types, ControlTypes
<1>2. /\ UNCHANGED <<tx, msg, pos, sequence>> /\ Queue("child")' = Queue("child")
  BY <1>1 DEF linkVars, parentVars, Queue
<1>3. pc'["child"] = "Failed" \/ pc'["child"] = pc["child"]
  BY <1>1
<1>4. pc'["parent"] = "Failed" \/ pc'["parent"] = pc["parent"]
  BY <1>1
<1>5. changes = 0 => SenderAt'
  BY <1>1, <1>2, <1>4 DEF Flow, SenderAt
<1>6. \A k, j \in Nat : Sent(k, j) => Sent(k, j)'
  BY <1>2, <1>4 DEF Sent
<1>7. Sending' = Sending /\ (pc'["child"] # "Failed" => Holding' = Holding)
  BY <1>2, <1>3 DEF Sending, Holding
<1> QED
  BY <1>1, <1>2, <1>3, <1>5, <1>6, <1>7, FlowKept

\* The waits: the parent has nothing on its way, the child takes what waits.
LEMMA WaitFlow == ASSUME IInv, Idle, Flow, NEW p \in Ends, Wait(p) PROVE Flow'
<1>0. /\ pc[p] = "Wait"
      /\ UNCHANGED <<file, changes, parentVars, childVars, rx, msg, pos, sequence>>
      /\ \A q \in Ends : q # p => Queue(q)' = Queue(q) /\ tx'[q] = tx[q]
      /\ WaitReturns(p) \/ WaitGoesOn(p) \/ WaitFails(p)
      /\ pc \in [Ends -> Labels] /\ current \in [Ends -> Messages]
      /\ Ends = {"parent", "child"}
  BY WaitFacts, FileFacts DEF IInv, Types, ControlTypes, parentVars
<1>1. CASE p = "parent"
  <2>1. /\ pc'["child"] = pc["child"] /\ current'["child"] = current["child"]
        /\ Queue("child")' = Queue("child")
        /\ pc'["parent"] \in {"Wait", "Got", "Failed"}
    BY <1>0, <1>1 DEF WaitReturns, WaitGoesOn, WaitFails
  <2>2. Sending' = Sending
    <3>1. tx["parent"] = "none"
      BY <1>0, <1>1 DEF Idle, ParentIdle
    <3>2. tx'["parent"] = "none"
      BY <1>0, <1>1, <3>1 DEF WaitReturns, WaitGoesOn, WaitFails, linkVars
    <3> QED
      BY <3>1, <3>2 DEF Sending
  <2>3. changes = 0 => SenderAt'
    BY <1>0, <1>1, <2>1 DEF Flow, SenderAt
  <2>4. \A k, j \in Nat : Sent(k, j) => Sent(k, j)'
    BY <1>0, <1>1, <2>1 DEF Sent
  <2>5. Holding' = Holding
    BY <2>1 DEF Holding
  <2> QED
    BY <1>0, <2>1, <2>2, <2>3, <2>4, <2>5, FlowKept
<1>2. CASE p = "child"
  <2>0. pc'["parent"] = pc["parent"] /\ tx'["parent"] = tx["parent"]
    BY <1>0, <1>2 DEF WaitReturns, WaitGoesOn, WaitFails
  <2>1. changes = 0 => SenderAt'
    BY <1>0, <2>0 DEF Flow, SenderAt
  <2>2. \A k, j \in Nat : Sent(k, j) => Sent(k, j)'
    BY <1>0, <2>0 DEF Sent
  <2>3. Sending' = Sending
    BY <2>0 DEF Sending
  <2>4. CASE WaitGoesOn(p) \/ WaitFails(p)
    <3>1. /\ pc'["child"] \in {"Wait", "Failed"} /\ current' = current
          /\ Queue("child")' = Queue("child")
      BY <1>0, <1>2, <2>4 DEF WaitGoesOn, WaitFails
    <3>2. pc'["child"] # "Failed" => Holding' = Holding
      BY <1>0, <1>2, <3>1 DEF Holding
    <3> QED
      BY <1>0, <1>2, <2>1, <2>2, <2>3, <3>1, <3>2, FlowKept
  <2>5. CASE WaitReturns(p)
    <3> SUFFICES ASSUME changes = 0 PROVE ReceiverAt' /\ Chain'
      BY <1>0, <2>1 DEF Flow
    <3>1. /\ pc'["child"] = "Got" /\ Queue("child")' = <<>>
          /\ current'["child"] = Head(Queue("child"))
      BY <1>0, <1>2, <2>5 DEF WaitReturns
    <3>2. Queue("child") # <<>>
      <4>1. Len(Queue("child")) = 1 /\ Len(<<>>) = 0
        BY <1>2, <2>5, EmptySeq DEF WaitReturns
      <4> QED
        BY <4>1
    <3>3. ReceiverAt /\ Chain /\ ReceiverAt'
      <4>1. ReceiverAt /\ Chain
        BY <1>0, <1>2 DEF Flow
      <4> QED
        BY <1>0, <1>2, <3>1, <4>1 DEF ReceiverAt, childVars
    <3>4. PICK k \in Nat, j \in Nat : Sent(k, j) /\ Reaches(k, j)
      BY <3>3 DEF Chain
    <3>5. Accepted \in Nat /\ Len(got) \in Nat /\ Accepted' = Accepted /\ got' = got
      <4>1. got \in Seq(Blocks) /\ next \in Nat
        BY DEF IInv, Types, ChildTypes
      <4> QED
        BY <1>0, <4>1, LenProperties DEF Accepted, childVars
    <3>6. Holding = FALSE /\ Holding' = TRUE
      BY <1>0, <1>2, <3>1 DEF Holding
    <3>7. Chained(file, FALSE, current["child"], Queue("child"), Sending, msg["parent"],
                  Accepted, Len(got), k, j)
      BY <3>4, <3>6 DEF Reaches
    <3>8. Chained(file, TRUE, Head(Queue("child")), <<>>, Sending, msg["parent"],
                  Accepted, Len(got), k, j)
      <4> DEFINE q == Queue("child")
      <4> HIDE DEF q
      <4>1. q # <<>> /\ Chained(file, FALSE, current["child"], q, Sending, msg["parent"],
                                Accepted, Len(got), k, j)
        BY <3>2, <3>7 DEF q
      <4>2. Chained(file, TRUE, Head(q), <<>>, Sending, msg["parent"],
                    Accepted, Len(got), k, j)
        BY <3>5, <4>1, ChainTaken
      <4> QED
        BY <4>2 DEF q
    <3>9. Reaches(k, j)'
      <4>1. Holding' = TRUE /\ Sending' = Sending /\ file' = file /\ msg' = msg
        BY <1>0, <2>3, <3>6 DEF Holding
      <4> QED
        BY <3>1, <3>5, <3>8, <4>1 DEF Reaches
    <3> QED
      BY <2>2, <3>3, <3>4, <3>9 DEF Chain
  <2> QED
    BY <1>0, <2>4, <2>5
<1> QED
  BY <1>0, <1>1, <1>2

\* TakeRequest, Hash and Drain: nothing of the second pass moves.
LEMMA ParentMovesFlow ==
  ASSUME IInv, Idle, Flow, TakeRequest \/ Hash \/ Drain PROVE Flow'
<1>0. /\ pc \in [Ends -> Labels] /\ "parent" \in Ends /\ "child" \in Ends
      /\ tx \in [Ends -> {"none", "wire", "acked", "completed", "error"}]
      /\ msg["parent"] \in Messages /\ sequence \in Nat
  BY FileFacts DEF IInv, Types, ControlTypes, LinkTypes, ParentTypes
<1>1. /\ UNCHANGED <<file, changes, childVars, current, msg, cq, pending>>
      /\ pc'["child"] = pc["child"] /\ Queue("child")' = Queue("child")
  BY <1>0 DEF TakeRequest, Hash, Drain, Goto, Fails, linkVars, Queue
<1>2. Holding' = Holding
  BY <1>1 DEF Holding
<1>3. CASE TakeRequest \/ Hash
  <2>1. /\ pc["parent"] \in {"Got", "Hash"}
        /\ pc'["parent"] \in {"Hash", "Failed", "Metadata"}
        /\ pc'["parent"] = "Metadata" => pos' = 0
        /\ sequence' = sequence /\ tx' = tx
    BY <1>0, <1>3 DEF TakeRequest, Hash, Goto, parentVars, linkVars
  <2>2. changes = 0 => SenderAt'
    BY <2>1 DEF Flow, SenderAt
  <2>3. \A k, j \in Nat : Sent(k, j) => Sent(k, j)'
    BY <2>1 DEF Sent
  <2>4. Sending' = Sending
    BY <2>1 DEF Sending
  <2> QED
    BY <1>1, <1>2, <2>2, <2>3, <2>4, FlowKept
<1>4. CASE Drain
  <2>1. \/ pc'["parent"] = "Failed" /\ tx' = tx
        \/ /\ tx["parent"] = "completed" /\ tx'["parent"] = "none"
           /\ sequence' = sequence + (IF msg["parent"].kind = "Data" THEN 1 ELSE 0)
           /\ pc'["parent"] = (IF msg["parent"].kind = "End" THEN "Done" ELSE "Read")
    BY <1>0, <1>4 DEF Drain, Drained, Goto, Fails, linkVars
  <2>2. pc["parent"] = "Drain" /\ pos' = pos
    BY <1>4 DEF Drain
  <2>3. Sending' = Sending
    BY <2>1 DEF Sending
  <2>4. changes = 0 => SenderAt'
    BY <1>1, <2>1, <2>2 DEF Flow, SenderAt
  <2> SUFFICES ASSUME changes = 0 PROVE Flow'
    BY <1>1 DEF Flow
  <2>5. SenderAt
    BY DEF Flow
  <2>6. \A k, j \in Nat : Sent(k, j) => Sent(k, j)'
    <3>1. CASE pc'["parent"] \in {"Failed", "Done"}
      BY <3>1 DEF Sent
    <3>2. CASE pc'["parent"] = "Read"
      <4>1. sequence' + 1 = Number(msg["parent"]) + 1
        <5>1. /\ msg["parent"].kind = "Data" => msg["parent"].sequence = sequence
              /\ msg["parent"].kind = "Metadata" => sequence = 0
              /\ msg["parent"].kind \in {"Metadata", "Data"}
              /\ sequence' = sequence + (IF msg["parent"].kind = "Data" THEN 1 ELSE 0)
          BY <2>1, <2>2, <2>5, <3>2 DEF SenderAt
        <5> QED
          BY <1>0, <5>1 DEF Number
      <4> QED
        BY <2>2, <3>2, <4>1 DEF Sent
    <3> QED
      BY <2>1, <3>1, <3>2
  <2> QED
    BY <1>1, <1>2, <2>3, <2>4, <2>6, FlowKept
<1> QED
  BY <1>3, <1>4

\* The parent posts the message that comes next.
LEMMA PostFlow ==
  ASSUME IInv, Idle, Flow, NEW m \in Messages, Posts("parent", m),
         UNCHANGED <<file, changes, current, childVars>>,
         pc' = [pc EXCEPT !["parent"] = "Drain"], tx["parent"] = "none",
         changes = 0 =>
           /\ SenderAt'
           /\ \A k, j \in Nat :
                Sent(k, j) => /\ Right(file, m, k, j)
                              /\ k + 1 = Number(m) + 1 /\ j + Length(m) = pos'
  PROVE  Flow'
<1>0. /\ pc'["child"] = pc["child"] /\ pc'["parent"] = "Drain"
      /\ tx'["parent"] = "wire" /\ msg'["parent"] = m
      /\ UNCHANGED <<cq, pending>> /\ Queue("child")' = Queue("child")
  BY FileFacts DEF Posts, Queue, IInv, Types, ControlTypes, LinkTypes
<1> SUFFICES ASSUME changes = 0, pc["child"] # "Failed" PROVE ReceiverAt' /\ Chain'
  BY <1>0 DEF Flow
<1>1. ReceiverAt /\ Chain
  BY DEF Flow
<1>2. ReceiverAt'
  BY <1>0, <1>1 DEF ReceiverAt, childVars
<1>3. PICK k \in Nat, j \in Nat : Sent(k, j) /\ Reaches(k, j)
  BY <1>1 DEF Chain
<1>4. Sending = FALSE /\ Sending' = TRUE
  BY <1>0 DEF Sending
<1>5. Chained(file, Holding, current["child"], Queue("child"), FALSE, msg["parent"],
              Accepted, Len(got), k, j)
  BY <1>3, <1>4 DEF Reaches
<1>6. Right(file, m, k, j) /\ k + 1 = Number(m) + 1 /\ j + Length(m) = pos'
  BY <1>3
<1>7. Chained(file, Holding, current["child"], Queue("child"), TRUE, m,
              Accepted, Len(got), k + 1, j + Length(m))
  <2> DEFINE h == Holding  q == Queue("child")  n == Accepted  i == Len(got)
  <2> HIDE DEF h, q, n, i
  <2>1. Chained(file, h, current["child"], q, FALSE, msg["parent"], n, i, k, j)
    BY <1>5 DEF h, q, n, i
  <2>2. Chained(file, h, current["child"], q, TRUE, m, n, i, k + 1, j + Length(m))
    BY <1>6, <2>1, ChainPosted
  <2> QED
    BY <2>2 DEF h, q, n, i
<1>8. Reaches(k + 1, j + Length(m))'
  <2>1. Holding' = Holding /\ Accepted' = Accepted /\ got' = got /\ current' = current
    BY <1>0 DEF Holding, Accepted, childVars
  <2> QED
    BY <1>0, <1>4, <1>7, <2>1 DEF Reaches
<1>9. Sent(k + 1, j + Length(m))'
  BY <1>0, <1>6 DEF Sent
<1>10. k + 1 \in Nat /\ j + Length(m) \in Nat
  <2>1. Length(m) \in Nat
    BY MessageFacts, LenProperties DEF Length
  <2> QED
    BY <2>1
<1> QED
  BY <1>2, <1>8, <1>9, <1>10 DEF Chain

\* SendMetadata and SendData.
LEMMA SendFlow == ASSUME IInv, Idle, Flow, SendMetadata \/ SendData PROVE Flow'
<1>0. /\ pc \in [Ends -> Labels] /\ "parent" \in Ends /\ msg \in [Ends -> Messages]
      /\ hashed \in Seq(Blocks) /\ pos \in Nat /\ sequence \in Nat
      /\ file \in Seq(Blocks) /\ Len(file) \in Nat
  BY FileFacts, LenProperties DEF IInv, Types, ControlTypes, LinkTypes, ParentTypes
<1>1. \A kind, n, data : /\ Message(kind, n, data).kind = kind
                         /\ Message(kind, n, data).sequence = n
                         /\ Message(kind, n, data).data = data
  BY DEF Message
<1>2. tx["parent"] = "none"
  BY DEF Idle, ParentIdle, SendMetadata, SendData
<1>3. changes = 0 => SenderAt
  BY DEF Flow
<1>4. CASE SendMetadata
  <2> DEFINE m == Message("Metadata", 0, hashed)
  <2>1. /\ m.kind = "Metadata" /\ m.sequence = 0 /\ m \in Messages
    BY <1>0, <1>1, MessageFacts DEF Kinds
  <2>2. /\ pc["parent"] = "Metadata" /\ Posts("parent", m)
        /\ pc' = [pc EXCEPT !["parent"] = "Drain"]
        /\ UNCHANGED <<file, changes, pos, sequence, current, childVars>>
    BY <1>4 DEF SendMetadata, Goto, parentVars
  <2> HIDE DEF m
  <2>3. pc'["parent"] = "Drain" /\ msg'["parent"] = m
    BY <1>0, <2>2 DEF Posts
  <2>4. changes = 0 => SenderAt'
    BY <1>0, <1>3, <2>1, <2>2, <2>3 DEF SenderAt
  <2>5. ASSUME changes = 0, NEW k \in Nat, NEW j \in Nat, Sent(k, j)
        PROVE  Right(file, m, k, j) /\ k + 1 = Number(m) + 1 /\ j + Length(m) = pos'
    <3>1. k = 0 /\ j = 0 /\ pos' = 0
      BY <1>3, <2>2, <2>5 DEF Sent, SenderAt
    <3> QED
      BY <2>1, <3>1 DEF Right, Number, Length
  <2> QED
    BY <1>2, <2>1, <2>2, <2>4, <2>5, PostFlow
<1>5. CASE SendData
  <2>0. /\ pc["parent"] = "Read" /\ pc' = [pc EXCEPT !["parent"] = "Drain"]
        /\ UNCHANGED <<file, changes, sequence, current, childVars>>
    BY <1>5 DEF SendData, Goto
  <2>1. \A k, j \in Nat : Sent(k, j) => k = sequence + 1 /\ j = pos
    BY <2>0 DEF Sent
  <2>2. ASSUME NEW c \in ChunksAt(pos), Posts("parent", Message("Data", sequence, c)),
               pos' = pos + Len(c)
        PROVE  Flow'
    <3>1. PICK e \in {k \in pos + 1 .. Len(file) : k <= pos + Chunk} :
               c = SubSeq(file, pos + 1, e)
      BY DEF ChunksAt
    <3>2. pos \in 0 .. Len(file) /\ e \in pos .. Len(file)
      BY <1>0, <3>1
    <3>3. c \in Seq(Blocks) /\ Len(c) = e - pos
      BY <1>0, <3>1, <3>2, Parts
    <3>4. pos' = e /\ c = SubSeq(file, pos + 1, pos + Len(c)) /\ pos + Len(c) <= Len(file)
      <4> DEFINE l == Len(c)
      <4>1. l = e - pos /\ e \in pos .. Len(file) /\ c = SubSeq(file, pos + 1, e)
        BY <3>1, <3>2, <3>3
      <4> HIDE DEF l
      <4>2. pos + l = e /\ e <= Len(file)
        BY <1>0, <4>1
      <4> QED
        BY <2>2, <4>1, <4>2 DEF l
    <3> DEFINE m == Message("Data", sequence, c)
    <3>5. /\ m.kind = "Data" /\ m.sequence = sequence /\ m.data = c /\ m \in Messages
      BY <1>0, <1>1, <3>3, MessageFacts DEF Kinds
    <3>6. Posts("parent", m)
      BY <2>2
    <3> HIDE DEF m
    <3>7. pc'["parent"] = "Drain" /\ msg'["parent"] = m
      BY <1>0, <2>0, <3>6 DEF Posts
    <3>8. changes = 0 => SenderAt'
      BY <1>0, <2>0, <3>2, <3>4, <3>5, <3>7 DEF SenderAt
    <3>9. ASSUME changes = 0, NEW k \in Nat, NEW j \in Nat, Sent(k, j)
          PROVE  Right(file, m, k, j) /\ k + 1 = Number(m) + 1 /\ j + Length(m) = pos'
      <4>1. k = sequence + 1 /\ j = pos
        BY <2>1, <3>9
      <4> QED
        BY <2>2, <3>4, <3>5, <4>1 DEF Right, Number, Length
    <3> QED
      BY <1>2, <2>0, <3>5, <3>6, <3>8, <3>9, PostFlow
  <2>3. ASSUME ChunksAt(pos) = {}, Posts("parent", EndMessage), UNCHANGED pos
        PROVE  Flow'
    <3> DEFINE m == EndMessage
    <3>1. m.kind = "End" /\ m.sequence = sequence /\ m \in Messages
      BY <1>0, <1>1, MessageFacts DEF EndMessage, Kinds
    <3> HIDE DEF m
    <3>2. pc'["parent"] = "Drain" /\ msg'["parent"] = m
      BY <1>0, <2>0, <2>3 DEF Posts, m
    <3>3. pos >= Len(file)
      <4> SUFFICES ASSUME pos < Len(file) PROVE FALSE
        BY <1>0
      <4>1. pos + 1 \in pos + 1 .. Len(file) /\ pos + 1 <= pos + Chunk
        BY <1>0, FileTransferAssumption
      <4>2. SubSeq(file, pos + 1, pos + 1) \in ChunksAt(pos)
        BY <4>1 DEF ChunksAt
      <4> QED
        BY <2>3, <4>2
    <3>4. changes = 0 => pos = Len(file)
      BY <1>0, <1>3, <2>0, <3>3 DEF SenderAt
    <3>5. changes = 0 => SenderAt'
      BY <1>0, <2>0, <2>3, <3>1, <3>2, <3>4 DEF SenderAt
    <3>6. ASSUME changes = 0, NEW k \in Nat, NEW j \in Nat, Sent(k, j)
          PROVE  Right(file, m, k, j) /\ k + 1 = Number(m) + 1 /\ j + Length(m) = pos'
      <4>1. k = sequence + 1 /\ j = pos
        BY <2>1, <3>6
      <4> QED
        BY <1>0, <2>3, <3>1, <3>4, <3>6, <4>1 DEF Right, Number, Length
    <3>7. Posts("parent", m)
      BY <2>3 DEF m
    <3> QED
      BY <1>2, <2>0, <3>1, <3>5, <3>6, <3>7, PostFlow
  <2> QED
    BY <1>5, <2>2, <2>3 DEF SendData
<1> QED
  BY <1>4, <1>5

\* SendRequest, CreateOutput, Repost and Flush: the child looks into no message.
LEMMA ChildMovesFlow ==
  ASSUME IInv, Flow, SendRequest \/ CreateOutput \/ Repost \/ Flush PROVE Flow'
<1>0. /\ pc \in [Ends -> Labels] /\ "parent" \in Ends /\ "child" \in Ends
      /\ tx \in [Ends -> {"none", "wire", "acked", "completed", "error"}]
      /\ msg \in [Ends -> Messages]
  BY FileFacts DEF IInv, Types, ControlTypes, LinkTypes
<1>1. /\ UNCHANGED <<file, changes, pos, sequence, cq, pending, current, childVars>>
      /\ pc'["parent"] = pc["parent"] /\ tx'["parent"] = tx["parent"]
      /\ msg'["parent"] = msg["parent"]
      /\ \/ pc["child"] \in {"Request", "Create"} /\ pc'["child"] \in {"Create", "Wait"}
         \/ pc["child"] = "Got" /\ pc'["child"] = "Accept"
         \/ pc["child"] = "Flush" /\ pc'["child"] = "Done"
  BY <1>0
  DEF SendRequest, CreateOutput, Repost, Flush, Posts, Goto, parentVars, linkVars
<1>2. Queue("child")' = Queue("child") /\ Sending' = Sending /\ Holding' = Holding
  BY <1>1 DEF Queue, Sending, Holding
<1>3. changes = 0 => SenderAt'
  BY <1>1 DEF Flow, SenderAt
<1>4. \A k, j \in Nat : Sent(k, j) => Sent(k, j)'
  BY <1>1 DEF Sent
<1>5. /\ pc["child"] # "Failed" /\ pc'["child"] # "Refused"
      /\ pc'["child"] \notin {"Flush", "Done"} => pc["child"] \notin {"Flush", "Done"}
  BY <1>1
<1> QED
  BY <1>1, <1>2, <1>3, <1>4, <1>5, FlowKept

\* The child looks into the message that the chain says it has: it is accepted.
LEMMA AcceptFlow == ASSUME IInv, Flow, Accept PROVE Flow'
<1> DEFINE m == current["child"]
<1>0. /\ pc["child"] = "Accept" /\ pc \in [Ends -> Labels] /\ "child" \in Ends
      /\ UNCHANGED <<file, changes, parentVars, linkVars, current>>
      /\ m \in Messages /\ m \in InFlight /\ m.data \in Seq(Blocks) /\ m.sequence \in Nat
      /\ got \in Seq(Blocks) /\ next \in Nat /\ file \in Seq(Blocks)
      /\ phase \in {"AwaitMetadata", "Receiving", "Complete"}
      /\ AcceptMetadata(m) \/ AcceptData(m) \/ AcceptEnd(m) \/ Refuse(m)
  BY FileFacts, MessageFacts
  DEF Accept, IInv, Types, ControlTypes, ChildTypes, ParentTypes, InFlight, Messages
<1>1. Faithful(m)
  BY <1>0 DEF IInv, AllFaithful
<1> HIDE DEF m
<1>2. /\ pc'["parent"] = pc["parent"] /\ UNCHANGED <<tx, msg, pos, sequence>>
      /\ Queue("child")' = Queue("child") /\ Sending' = Sending
  <2>1. \E l : pc' = [pc EXCEPT !["child"] = l]
    BY <1>0 DEF AcceptMetadata, AcceptData, AcceptEnd, Refuse, Goto, Fails
  <2> QED
    BY <1>0, <2>1 DEF parentVars, linkVars, Queue, Sending
<1>3. changes = 0 => SenderAt'
  BY <1>0, <1>2 DEF Flow, SenderAt
<1> SUFFICES ASSUME changes = 0, pc'["child"] # "Failed" PROVE ReceiverAt' /\ Chain'
  BY <1>0, <1>3 DEF Flow
<1>4. ReceiverAt /\ Chain
  BY <1>0 DEF Flow
<1>5. PICK k \in Nat, j \in Nat : Sent(k, j) /\ Reaches(k, j)
  BY <1>4 DEF Chain
<1>6. /\ Right(file, m, Accepted, Len(got))
      /\ Chained(file, FALSE, m, Queue("child"), Sending, msg["parent"],
                 Accepted + 1, Len(got) + Length(m), k, j)
  <2> DEFINE q == Queue("child")  s == Sending  n == Accepted  i == Len(got)
  <2>1. Holding = TRUE
    BY <1>0 DEF Holding
  <2>2. Chained(file, TRUE, m, q, s, msg["parent"], n, i, k, j)
    BY <1>5, <2>1 DEF Reaches, m
  <2> HIDE DEF q, s, n, i
  <2>3. /\ Right(file, m, n, i)
        /\ Chained(file, FALSE, m, q, s, msg["parent"], n + 1, i + Length(m), k, j)
    BY <2>2, ChainAccepted
  <2> QED
    BY <2>3 DEF q, s, n, i
\* A step that accepts the message.
<1>7. ASSUME pc'["child"] \in {"Wait", "Flush"}, ReceiverAt', Accepted' = Accepted + 1,
             Len(got') = Len(got) + Length(m)
      PROVE  ReceiverAt' /\ Chain'
  <2>1. Holding' = FALSE /\ current'["child"] = m
    BY <1>0, <1>7 DEF Holding, m
  <2>2. Reaches(k, j)'
    BY <1>0, <1>2, <1>6, <1>7, <2>1 DEF Reaches
  <2>3. Sent(k, j)'
    BY <1>2, <1>5 DEF Sent
  <2> QED
    BY <1>7, <2>2, <2>3 DEF Chain
<1>8. /\ phase # "Complete"
      /\ phase = "AwaitMetadata" => next = 0 /\ got = <<>> /\ Len(got) = 0
      /\ phase = "Receiving" => promised = file /\ hashed = file
      /\ Len(got) \in Nat /\ Len(file) \in Nat /\ Len(got) <= Len(file)
      /\ got = SubSeq(file, 1, Len(got))
  BY <1>0, <1>4, LenProperties, EmptySeq DEF ReceiverAt, IInv, ReceiverData, Announced
<1>9. CASE m.kind = "Metadata"
  <2>1. phase = "AwaitMetadata" /\ m.sequence = 0
    BY <1>0, <1>6, <1>8, <1>9 DEF Right, Accepted
  <2>2. /\ phase' = "Receiving" /\ Goto("child", "Wait") /\ UNCHANGED <<next, got>>
    BY <1>0, <1>9, <2>1 DEF AcceptMetadata, AcceptData, AcceptEnd, Refuse
  <2>3. pc'["child"] = "Wait"
    BY <1>0, <2>2 DEF Goto
  <2>4. ReceiverAt'
    BY <1>0, <1>4, <2>2, <2>3 DEF ReceiverAt
  <2>5. Accepted' = Accepted + 1 /\ Len(got') = Len(got) + Length(m)
    BY <1>8, <1>9, <2>1, <2>2 DEF Accepted, Length
  <2> QED
    BY <1>7, <2>3, <2>4, <2>5
<1>10. CASE m.kind = "Data"
  <2>1. /\ Accepted = m.sequence + 1 /\ Len(got) + Len(m.data) <= Len(file)
        /\ m.data = SubSeq(file, Len(got) + 1, Len(got) + Len(m.data))
    BY <1>6, <1>10 DEF Right
  <2>2. phase = "Receiving" /\ m.sequence = next
    BY <1>0, <1>8, <2>1 DEF Accepted
  <2>3. Fits(m)
    BY <1>8, <2>1, <2>2 DEF Fits
  <2>4. /\ phase' = phase /\ got' = got \o m.data /\ next' = next + 1
        /\ Goto("child", "Wait")
    <3>1. AcceptData(m)
      BY <1>0, <1>10, <2>2, <2>3 DEF AcceptMetadata, AcceptEnd, Refuse
    <3>2. ~Fails("child")
      BY <1>0 DEF Fails, Goto
    <3> QED
      BY <3>1, <3>2 DEF AcceptData
  <2>5. pc'["child"] = "Wait"
    BY <1>0, <2>4 DEF Goto
  <2>6. /\ Len(got') = Len(got) + Len(m.data) /\ Len(got') <= Len(file)
        /\ got' = SubSeq(file, 1, Len(got'))
    <3> DEFINE i == Len(got)  l == Len(m.data)
    <3>1. l \in Nat /\ i \in Nat /\ i + l <= Len(file) /\ Len(file) \in Nat
      BY <1>0, <1>8, <2>1, LenProperties
    <3>2. Len(got') = i + l
      BY <1>0, <2>4, ConcatProperties
    <3>3. got' = SubSeq(file, 1, i) \o SubSeq(file, i + 1, i + l)
      BY <1>8, <2>1, <2>4, Zenon
    <3> HIDE DEF i, l
    <3>4. i \in 0 .. Len(file) /\ i + l \in i .. Len(file)
      BY <3>1
    <3>5. got' = SubSeq(file, 1, i + l)
      BY <1>0, <3>3, <3>4, Parts
    <3>6. Len(got') <= Len(file) /\ got' = SubSeq(file, 1, Len(got'))
      BY <3>1, <3>2, <3>5
    <3> QED
      BY <3>2, <3>6 DEF i, l
  <2>7. ReceiverAt'
    BY <1>0, <1>4, <2>2, <2>4, <2>5, <2>6 DEF ReceiverAt
  <2>8. Accepted' = Accepted + 1 /\ Len(got') = Len(got) + Length(m)
    BY <1>0, <1>10, <2>2, <2>4, <2>6 DEF Accepted, Length
  <2> QED
    BY <1>7, <2>5, <2>7, <2>8
<1>11. CASE m.kind = "End"
  <2>1. Accepted = m.sequence + 1 /\ Len(got) = Len(file)
    BY <1>6, <1>11 DEF Right
  <2>2. phase = "Receiving" /\ m.sequence = next
    BY <1>0, <1>8, <2>1 DEF Accepted
  <2>3. got = file
    BY <1>0, <1>8, <2>1, Whole
  <2>4. Complete(m)
    BY <1>1, <1>8, <1>11, <2>2, <2>3 DEF Complete, Faithful
  <2>5. /\ phase' = "Complete" /\ Goto("child", "Flush") /\ UNCHANGED <<next, got>>
    BY <1>0, <1>11, <2>2, <2>4 DEF AcceptMetadata, AcceptData, AcceptEnd, Refuse
  <2>6. pc'["child"] = "Flush"
    BY <1>0, <2>5 DEF Goto
  <2>7. ReceiverAt'
    BY <1>0, <1>4, <2>5, <2>6 DEF ReceiverAt
  <2>8. Accepted' = Accepted + 1 /\ Len(got') = Len(got) + Length(m)
    BY <1>0, <1>8, <1>11, <2>2, <2>5 DEF Accepted, Length
  <2> QED
    BY <1>7, <2>6, <2>7, <2>8
<1> QED
  BY <1>6, <1>9, <1>10, <1>11 DEF Right

\* The provider delivers a message.
LEMMA DeliverFlow == ASSUME IInv, Flow, NEW p \in Ends, Deliver(p) PROVE Flow'
<1>0. /\ UNCHANGED <<file, changes, pc, msg, current, childVars, pos, sequence>>
      /\ tx[p] = "wire" /\ tx' = [tx EXCEPT ![p] = "acked"]
      /\ tx \in [Ends -> {"none", "wire", "acked", "completed", "error"}]
      /\ \A q \in Ends : q # Peer(p) => Queue(q)' = Queue(q)
      /\ Queue(Peer(p)) = <<>> /\ Queue(Peer(p))' = <<msg[p]>>
      /\ Ends = {"parent", "child"} /\ Peer("parent") = "child" /\ Peer("child") = "parent"
  BY DeliverFacts, FileFacts DEF IInv, Types, LinkTypes, parentVars
<1>1. changes = 0 => SenderAt'
  BY <1>0 DEF Flow, SenderAt
<1>2. \A k, j \in Nat : Sent(k, j) => Sent(k, j)'
  BY <1>0 DEF Sent
<1>3. Holding' = Holding
  BY <1>0 DEF Holding
<1>4. CASE p = "child"
  <2>1. Queue("child")' = Queue("child") /\ tx'["parent"] = tx["parent"]
    BY <1>0, <1>4
  <2>2. Sending' = Sending
    BY <2>1 DEF Sending
  <2> QED
    BY <1>0, <1>1, <1>2, <1>3, <2>1, <2>2, FlowKept
<1>5. CASE p = "parent"
  <2> SUFFICES ASSUME changes = 0, pc["child"] # "Failed" PROVE ReceiverAt' /\ Chain'
    BY <1>0, <1>1 DEF Flow
  <2>1. ReceiverAt /\ Chain
    BY DEF Flow
  <2>2. ReceiverAt'
    BY <1>0, <2>1 DEF ReceiverAt, childVars
  <2>3. PICK k \in Nat, j \in Nat : Sent(k, j) /\ Reaches(k, j)
    BY <2>1 DEF Chain
  <2>4. /\ Sending = TRUE /\ Sending' = FALSE
        /\ Queue("child") = <<>> /\ Queue("child")' = <<msg["parent"]>>
    BY <1>0, <1>5 DEF Sending
  <2>5. Chained(file, Holding, current["child"], <<msg["parent"]>>, FALSE, msg["parent"],
                Accepted, Len(got), k, j)
    <3> DEFINE h == Holding  n == Accepted  i == Len(got)
    <3>1. Chained(file, h, current["child"], <<>>, TRUE, msg["parent"], n, i, k, j)
      BY <2>3, <2>4 DEF Reaches
    <3> HIDE DEF h, n, i
    <3>2. Chained(file, h, current["child"], <<msg["parent"]>>, FALSE, msg["parent"],
                  n, i, k, j)
      BY <3>1, ChainDelivered
    <3> QED
      BY <3>2 DEF h, n, i
  <2>6. Reaches(k, j)'
    <3>1. Accepted' = Accepted /\ got' = got
      BY <1>0 DEF Accepted, childVars
    <3> QED
      BY <1>0, <1>3, <2>4, <2>5, <3>1 DEF Reaches
  <2> QED
    BY <1>2, <2>2, <2>3, <2>6 DEF Chain
<1> QED
  BY <1>0, <1>4, <1>5

\* CompleteSend, RetriesExceeded and Leave.
LEMMA SendStateFlow ==
  ASSUME IInv, Flow, NEW p \in Ends, CompleteSend(p) \/ RetriesExceeded(p) \/ Leave(p)
  PROVE  Flow'
<1>0. /\ UNCHANGED <<file, changes, pc, msg, cq, pending, current, childVars, pos, sequence>>
      /\ tx \in [Ends -> {"none", "wire", "acked", "completed", "error"}]
      /\ "parent" \in Ends
  BY FileFacts
  DEF CompleteSend, RetriesExceeded, Leave, IInv, Types, LinkTypes, parentVars
<1>1. changes = 0 => SenderAt'
  BY <1>0 DEF Flow, SenderAt
<1>2. \A k, j \in Nat : Sent(k, j) => Sent(k, j)'
  BY <1>0 DEF Sent
<1>3. Holding' = Holding /\ Queue("child")' = Queue("child")
  BY <1>0 DEF Holding, Queue
<1>4. CASE Sending' = Sending
  BY <1>0, <1>1, <1>2, <1>3, <1>4, FlowKept
<1>5. CASE Sending' # Sending
  <2>1. Sending' = FALSE /\ pc["parent"] \in Over
    BY <1>0, <1>5 DEF CompleteSend, RetriesExceeded, Leave, Sending
  <2> SUFFICES ASSUME changes = 0, pc["child"] # "Failed" PROVE ReceiverAt' /\ Chain'
    BY <1>0, <1>1 DEF Flow
  <2>2. ReceiverAt /\ Chain
    BY DEF Flow
  <2>3. ReceiverAt'
    BY <1>0, <2>2 DEF ReceiverAt, childVars
  <2>4. PICK k \in Nat, j \in Nat : Sent(k, j) /\ Reaches(k, j)
    BY <2>2 DEF Chain
  <2>5. \E l \in Nat, r \in Nat :
          Chained(file, Holding, current["child"], Queue("child"), FALSE, msg["parent"],
                  Accepted, Len(got), l, r)
    <3> DEFINE h == Holding  q == Queue("child")  s == Sending
               n == Accepted  i == Len(got)
    <3>1. Chained(file, h, current["child"], q, s, msg["parent"], n, i, k, j)
      BY <2>4 DEF Reaches
    <3> HIDE DEF h, q, s, n, i
    <3>2. \E l \in Nat, r \in Nat :
            Chained(file, h, current["child"], q, FALSE, msg["parent"], n, i, l, r)
      BY <3>1, ChainCut
    <3> QED
      BY <3>2 DEF h, q, n, i
  <2>6. \A l, r : Sent(l, r)'
    BY <1>0, <2>1 DEF Sent, Over
  <2>7. Accepted' = Accepted /\ got' = got
    BY <1>0 DEF Accepted, childVars
  <2> QED
    BY <1>0, <1>3, <2>1, <2>3, <2>5, <2>6, <2>7 DEF Chain, Reaches
<1> QED
  BY <1>4, <1>5

\* Every step keeps the chain.
LEMMA StepFlow == IInv /\ Idle /\ Flow /\ [Next]_vars => Flow'
<1> SUFFICES ASSUME IInv, Idle, Flow, [Next]_vars PROVE Flow'
  OBVIOUS
<1>1. CASE ParentStep
  BY <1>1, WaitFlow, ParentMovesFlow, SendFlow, FileFacts DEF ParentStep
<1>2. CASE ChildStep
  BY <1>2, WaitFlow, ChildMovesFlow, AcceptFlow, FileFacts DEF ChildStep
<1>3. CASE CallFails
  BY <1>3, FailsFlow, FileFacts DEF CallFails
<1>4. ASSUME NEW p \in Ends, TimesOut(p) PROVE Flow'
  BY <1>4, FailsFlow DEF TimesOut
<1>5. CASE Network
  BY <1>5, DeliverFlow, SendStateFlow DEF Network
<1>6. ASSUME NEW p \in Ends, RetriesExceeded(p) \/ Leave(p) PROVE Flow'
  BY <1>6, SendStateFlow
<1>7. CASE Rewrite
  BY <1>7 DEF Rewrite, Flow, IInv, Types, ParentTypes
<1>8. CASE UNCHANGED vars
  <2>1. UNCHANGED <<file, changes, pc, pos, sequence, tx, msg, cq, pending, current, childVars>>
    BY <1>8 DEF vars, parentVars, linkVars
  <2>2. /\ Queue("child")' = Queue("child") /\ Sending' = Sending /\ Holding' = Holding
    BY <2>1 DEF Queue, Sending, Holding
  <2>3. changes = 0 => SenderAt'
    BY <2>1 DEF Flow, SenderAt
  <2>4. \A k, j \in Nat : Sent(k, j) => Sent(k, j)'
    BY <2>1 DEF Sent
  <2> QED
    BY <2>1, <2>2, <2>3, <2>4, FlowKept
<1> QED
  BY <1>1, <1>2, <1>3, <1>4, <1>5, <1>6, <1>7, <1>8 DEF Next

\* For every file, every way its reads split it and every failure of a call, a deadline or
\* the provider, the child refuses nothing unless somebody has rewritten the file: the
\* numbers, lengths and counts of the two programs agree.
THEOREM RefusesOnlyChanges == Spec => []OnlyChangesRefused
<1>1. Init => IInv /\ Idle /\ Flow
  BY InitInv, InitIdle, InitFlow
<1>2. (IInv /\ Idle /\ Flow) /\ [Next]_vars => (IInv /\ Idle /\ Flow)'
  BY StepInv, StepIdle, StepFlow
<1>3. IInv /\ Flow => OnlyChangesRefused
  BY DEF IInv, Types, ParentTypes, Flow, ReceiverAt, OnlyChangesRefused
<1> QED
  BY <1>1, <1>2, <1>3, PTL DEF Spec

-----------------------------------------------------------------------------
\* Nobody waits for nothing.

\* The request: not yet sent, on its way to a posted RECV, or with the parent.
RequestOnce ==
  /\ pc["child"] = "Request" =>
       /\ pc["parent"] \in {"Wait", "Failed"}
       /\ Queue("parent") = <<>> /\ tx["child"] = "none"
  /\ pc["parent"] = "Wait" =>
       /\ Room("parent") = 1
       /\ pc["child"] \in {"Create", "Wait", "Got", "Accept"} =>
            tx["child"] = "wire" \/ Queue("parent") # <<>>
  /\ pc["parent"] \notin {"Wait", "Failed"} \/ Queue("parent") # <<>> =>
       tx["child"] # "wire"

\* A child that waits has a RECV posted or its message.
Ready ==
  \/ pc["child"] \in {"Request", "Create", "Wait"}
  \/ pc["child"] = "Accept" /\ current["child"].kind \in {"Metadata", "Data"}
  => Room("child") = 1

\* The parent's SEND: outstanding while it drains, and over once End has arrived.
LastSend ==
  /\ pc["parent"] = "Drain" => tx["parent"] # "none"
  /\ EndArrived => pc["parent"] \in Over \/ EndDelivered
  /\ pc["child"] \in {"Flush", "Done"} => current["child"].kind = "End"

\* Where the two programs can stand.
Places ==
  /\ pc["parent"] \in {"Wait", "Got", "Hash", "Metadata", "Read", "Drain", "Done", "Failed"}
  /\ pc["child"] \in {"Request", "Create", "Wait", "Got", "Accept", "Flush"} \union Over

\* With IInv, Idle and Places, inductive.
Turns == RequestOnce /\ Ready /\ LastSend

\* Each program keeps to its places.
LEMMA InitPlaces == Init => Places
  BY FileFacts DEF Init, Places, Over

LEMMA StepPlaces == IInv /\ Places /\ [Next]_vars => Places'
<1> SUFFICES ASSUME IInv, Places, [Next]_vars PROVE Places'
  OBVIOUS
<1>0. pc \in [Ends -> Labels] /\ Ends = {"parent", "child"}
  BY FileFacts DEF IInv, Types, ControlTypes
<1>1. ASSUME pc' = pc PROVE Places'
  BY <1>1 DEF Places
<1>2. ASSUME NEW p \in Ends, pc' = [pc EXCEPT ![p] = "Failed"] \/ pc' = pc PROVE Places'
  BY <1>0, <1>2 DEF Places, Over
<1>3. CASE CallFails
  BY <1>2, <1>3, FileFacts DEF CallFails, FailsBy, Fails, Goto
<1>4. ASSUME NEW p \in Ends, TimesOut(p) PROVE Places'
  BY <1>2, <1>4 DEF TimesOut, FailsBy, Fails, Goto
<1>5. ASSUME NEW p \in Ends,
             Deliver(p) \/ CompleteSend(p) \/ RetriesExceeded(p) \/ Leave(p)
      PROVE  Places'
  BY <1>1, <1>5 DEF Deliver, CompleteSend, RetriesExceeded, Leave
<1>6. CASE Rewrite \/ UNCHANGED vars
  BY <1>1, <1>6 DEF Rewrite, vars
<1>7. ASSUME NEW p \in Ends, Wait(p) PROVE Places'
  <2>1. \/ pc' = [pc EXCEPT ![p] = "Got"] \/ pc' = [pc EXCEPT ![p] = "Failed"] \/ pc' = pc
    BY <1>7 DEF Wait, Fails, Goto
  <2> QED
    BY <1>0, <1>2, <2>1 DEF Places, Over
<1>8. CASE Drain \/ TakeRequest \/ Hash \/ SendMetadata \/ SendData
  <2>1. PICK l \in {"Failed", "Done", "Read", "Hash", "Metadata", "Drain"} :
          pc' = [pc EXCEPT !["parent"] = l] \/ pc' = pc
    BY <1>8 DEF Drain, TakeRequest, Hash, SendMetadata, SendData, Fails, Goto
  <2> QED
    BY <1>0, <2>1 DEF Places
<1>9. CASE SendRequest \/ CreateOutput \/ Repost \/ Accept \/ Flush
  <2>1. PICK l \in {"Create", "Wait", "Accept", "Flush", "Done", "Failed", "Refused"} :
          pc' = [pc EXCEPT !["child"] = l]
    BY <1>9
    DEF SendRequest, CreateOutput, Repost, Accept, AcceptMetadata, AcceptData, AcceptEnd,
        Refuse, Flush, Fails, Goto
  <2> QED
    BY <1>0, <2>1 DEF Places, Over
<1> QED
  BY <1>1, <1>3, <1>4, <1>5, <1>6, <1>7, <1>8, <1>9, FileFacts
  DEF Next, ParentStep, ChildStep, Network

\* A step that leaves the parent's messages where they are.
LEMMA RequestKept ==
  ASSUME RequestOnce, Queue("parent")' = Queue("parent"),
         \/ pc'["child"] = pc["child"]
         \/ /\ pc'["child"] # "Request"
            /\ pc'["child"] \in {"Create", "Wait", "Got", "Accept"} =>
                 pc["child"] \in {"Create", "Wait", "Got", "Accept"},
         pc'["parent"] = "Wait" => pc["parent"] = "Wait" /\ Room("parent")' = Room("parent"),
         pc["parent"] \in {"Wait", "Failed"} => pc'["parent"] \in {"Wait", "Failed"},
         \/ tx'["child"] = tx["child"]
         \/ tx["child"] \notin {"none", "wire"} /\ tx'["child"] # "wire"
  PROVE  RequestOnce'
  BY DEF RequestOnce

\* A step that leaves the child and its messages where they are, or ends it.
LEMMA ReadyKept ==
  ASSUME Ready, pc'["child"] \in {pc["child"], "Failed", "Refused"},
         current'["child"] = current["child"],
         pc'["child"] = pc["child"] /\ pc["child"] \notin Over =>
           Room("child")' = Room("child")
  PROVE  Ready'
  BY DEF Ready, Over

\* A step that leaves the parent's SEND where it is, or ends the parent.
LEMMA LastKept ==
  ASSUME LastSend, EndArrived' => EndArrived,
         pc'["parent"] \in {pc["parent"], "Failed"},
         pc'["parent"] = "Drain" =>
           /\ tx'["parent"] # "none" /\ msg'["parent"] = msg["parent"]
           /\ tx["parent"] \in {"acked", "completed"} => tx'["parent"] \in {"acked", "completed"},
         pc'["child"] \in {"Flush", "Done"} => current'["child"].kind = "End"
  PROVE  LastSend'
  BY DEF LastSend, EndDelivered, Over

\* The initial states.
LEMMA InitTurns == Init => Turns
<1> SUFFICES ASSUME Init PROVE Turns
  OBVIOUS
<1>1. /\ pc["parent"] = "Wait" /\ pc["child"] = "Request"
      /\ tx["parent"] = "none" /\ tx["child"] = "none"
      /\ current["child"].kind = "none"
      /\ \A p \in Ends : rx[p] = 1 /\ cq[p] = <<>> /\ pending[p] = <<>>
      /\ "parent" \in Ends /\ "child" \in Ends
  BY FileFacts, MessageFacts DEF Init
<1>2. Len(<<>>) = 0 /\ <<>> \o <<>> = <<>>
  BY EmptySeq
<1>3. \A p \in Ends : Queue(p) = <<>> /\ Room(p) = 1
  BY <1>1, <1>2 DEF Queue, Room
<1> QED
  BY <1>1, <1>3 DEF Turns, RequestOnce, Ready, LastSend, EndArrived

\* A call that fails.
LEMMA FailsTurns ==
  ASSUME IInv, Turns, NEW p \in Ends, NEW fault, NEW labels, FailsBy(p, fault, labels),
         "Failed" \notin labels
  PROVE  Turns'
<1>1. /\ pc[p] # "Failed" /\ pc' = [pc EXCEPT ![p] = "Failed"] /\ pc \in [Ends -> Labels]
      /\ UNCHANGED <<linkVars, current>>
  BY DEF FailsBy, Fails, Goto, IInv, Types, ControlTypes
<1>2. /\ \A q \in Ends : pc'[q] \in {pc[q], "Failed"}
      /\ UNCHANGED <<tx, msg, rx, cq, pending>>
  BY <1>1 DEF linkVars
<1>3. /\ \A q \in Ends : Room(q)' = Room(q) /\ Queue(q)' = Queue(q)
      /\ "parent" \in Ends /\ "child" \in Ends
  BY <1>2, WaitingKept, FileFacts
<1>4. RequestOnce'
  BY <1>2, <1>3, RequestKept DEF Turns
<1>5. Ready'
  BY <1>1, <1>2, <1>3, ReadyKept DEF Turns
<1>6. LastSend'
  <2>1. EndArrived' => EndArrived
    BY <1>1, <1>3 DEF EndArrived
  <2>2. pc'["child"] \in {"Flush", "Done"} => current'["child"].kind = "End"
    BY <1>1, <1>2, <1>3 DEF Turns, LastSend
  <2>3. pc'["parent"] = "Drain" => tx'["parent"] # "none"
    BY <1>2, <1>3 DEF Turns, LastSend
  <2> QED
    BY <1>2, <1>3, <2>1, <2>2, <2>3, LastKept DEF Turns
<1> QED
  BY <1>4, <1>5, <1>6 DEF Turns

\* The waits.
LEMMA WaitTurns == ASSUME IInv, Idle, Turns, NEW p \in Ends, Wait(p) PROVE Turns'
<1>0. /\ pc[p] = "Wait" /\ rx' = rx /\ msg' = msg
      /\ \A q \in Ends : q # p => Queue(q)' = Queue(q) /\ tx'[q] = tx[q]
      /\ WaitReturns(p) \/ WaitGoesOn(p) \/ WaitFails(p)
      /\ pc \in [Ends -> Labels] /\ current \in [Ends -> Messages]
      /\ QueueTypes /\ QueueTypes' /\ "parent" \in Ends /\ "child" \in Ends
      /\ Ends = {"parent", "child"}
  <2>1. QueueTypes /\ QueueTypes'
    <3>1. LinkTypes /\ LinkTypes'
      BY WaitInv DEF IInv, Types
    <3> QED
      BY <3>1, QueueFacts, PTL
  <2> QED
    BY <2>1, WaitFacts, FileFacts DEF IInv, Types, ControlTypes
<1>1. \A q \in Ends : Queue(q)' = Queue(q) => Room(q)' = Room(q)
  BY <1>0, Zenon DEF QueueTypes
<1>2. CASE WaitReturns(p)
  <2>1. /\ pc'[p] = "Got" /\ tx'[p] = "none" /\ Queue(p) # <<>> /\ Queue(p)' = <<>>
        /\ current'[p] = Head(Queue(p))
        /\ \A q \in Ends : q # p => pc'[q] = pc[q] /\ current'[q] = current[q]
    <3>1. Len(Queue(p)) # 0
      BY <1>2 DEF WaitReturns
    <3> QED
      BY <1>0, <1>2, <3>1 DEF WaitReturns, QueueTypes
  <2>2. CASE p = "parent"
    <3>1. RequestOnce'
      BY <1>0, <2>1, <2>2 DEF Turns, RequestOnce
    <3>2. Ready'
      BY <1>0, <1>1, <2>1, <2>2, ReadyKept DEF Turns
    <3>3. EndArrived' => EndArrived
      BY <1>0, <2>1, <2>2 DEF EndArrived
    <3>4. LastSend'
      BY <1>0, <2>1, <2>2, <3>3 DEF Turns, LastSend, EndDelivered, Over
    <3> QED
      BY <3>1, <3>2, <3>4 DEF Turns
  <2>3. CASE p = "child"
    <3>1. RequestOnce'
      <4>1. tx["child"] = "wire" => tx["child"] = tx'["child"]
        BY <1>2, <2>1, <2>3 DEF Wait, SendDone, WaitReturns
      <4> QED
        BY <1>0, <1>1, <2>1, <2>3, <4>1 DEF Turns, RequestOnce
    <3>2. Ready'
      BY <2>1, <2>3 DEF Ready
    <3>3. EndArrived' => EndArrived
      BY <2>1, <2>3 DEF EndArrived
    <3>4. LastSend'
      BY <1>0, <2>1, <2>3, <3>3, LastKept DEF Turns, LastSend
    <3> QED
      BY <3>1, <3>2, <3>4 DEF Turns
  <2> QED
    BY <1>0, <2>2, <2>3
<1>3. CASE WaitGoesOn(p) \/ WaitFails(p)
  <2>1. /\ \A q \in Ends : pc'[q] = pc[q] \/ (q = p /\ pc'[q] = "Failed")
        /\ current' = current
        /\ \A q \in Ends : /\ Queue(q)' = Queue(q)
                           /\ tx'[q] = tx[q] \/ (tx[q] = "completed" /\ tx'[q] = "none")
    BY <1>0, <1>3 DEF WaitGoesOn, WaitFails, linkVars
  <2>2. RequestOnce'
    BY <1>0, <1>1, <2>1, RequestKept DEF Turns
  <2>3. Ready'
    BY <1>0, <1>1, <2>1, ReadyKept DEF Turns
  <2>4. EndArrived' => EndArrived
    BY <1>0, <2>1 DEF EndArrived
  <2>5. LastSend'
    BY <1>0, <2>1, <2>4, LastKept DEF Turns, LastSend
  <2> QED
    BY <2>2, <2>3, <2>5 DEF Turns
<1> QED
  BY <1>0, <1>2, <1>3

\* The parent's other steps.
LEMMA ParentStepTurns ==
  ASSUME IInv, Turns, Drain \/ TakeRequest \/ Hash \/ SendMetadata \/ SendData
  PROVE  Turns'
<1>0. /\ pc \in [Ends -> Labels]
      /\ tx \in [Ends -> {"none", "wire", "acked", "completed", "error"}]
      /\ msg \in [Ends -> Messages] /\ "parent" \in Ends /\ "child" \in Ends
  BY FileFacts DEF IInv, Types, ControlTypes, LinkTypes
<1>1. /\ UNCHANGED <<rx, cq, pending, current>> /\ pc'["child"] = pc["child"]
      /\ tx'["child"] = tx["child"]
      /\ pc["parent"] \notin {"Wait", "Failed"} /\ pc'["parent"] # "Wait"
  BY <1>0
  DEF Drain, TakeRequest, Hash, SendMetadata, SendData, Posts, Goto, Fails, linkVars
<1>2. \A q \in Ends : Room(q)' = Room(q) /\ Queue(q)' = Queue(q)
  BY <1>1, WaitingKept
<1>3. RequestOnce' /\ Ready'
  BY <1>0, <1>1, <1>2, RequestKept, ReadyKept DEF Turns
<1>4. EndArrived' => EndArrived
  BY <1>0, <1>1, <1>2 DEF EndArrived
<1>5. LastSend'
  <2>1. CASE Drain
    <3>1. /\ pc["parent"] = "Drain"
          /\ \/ pc'["parent"] \in {"Done", "Failed"}
             \/ msg["parent"].kind # "End" /\ pc'["parent"] = "Read"
      BY <1>0, <2>1 DEF Drain, Goto, Fails
    <3> QED
      BY <1>1, <1>4, <3>1 DEF Turns, LastSend, EndDelivered, Over
  <2>2. CASE TakeRequest \/ Hash \/ SendMetadata \/ SendData
    <3>1. /\ pc["parent"] \in {"Got", "Hash", "Metadata", "Read"}
          /\ pc'["parent"] = "Drain" => tx'["parent"] = "wire"
      BY <1>0, <2>2 DEF TakeRequest, Hash, SendMetadata, SendData, Posts, Goto
    <3>2. ~EndArrived'
      BY <1>4, <3>1 DEF Turns, LastSend, EndDelivered, Over
    <3> QED
      BY <1>1, <3>1, <3>2 DEF Turns, LastSend
  <2> QED
    BY <2>1, <2>2
<1> QED
  BY <1>3, <1>5 DEF Turns

\* The child's other steps.
LEMMA ChildStepTurns ==
  ASSUME IInv, Turns, SendRequest \/ CreateOutput \/ Repost \/ Accept \/ Flush
  PROVE  Turns'
<1>0. /\ pc \in [Ends -> Labels]
      /\ tx \in [Ends -> {"none", "wire", "acked", "completed", "error"}]
      /\ msg \in [Ends -> Messages] /\ rx \in [Ends -> 0 .. 1]
      /\ "parent" \in Ends /\ "child" \in Ends
  BY FileFacts DEF IInv, Types, ControlTypes, LinkTypes
<1>1. /\ UNCHANGED <<cq, pending, current>> /\ pc'["parent"] = pc["parent"]
      /\ tx'["parent"] = tx["parent"] /\ msg'["parent"] = msg["parent"]
      /\ rx'["parent"] = rx["parent"]
  BY <1>0
  DEF SendRequest, CreateOutput, Repost, Accept, AcceptMetadata, AcceptData, AcceptEnd,
      Refuse, Flush, Posts, Goto, Fails, linkVars
<1>2. Room("parent")' = Room("parent") /\ \A q \in Ends : Queue(q)' = Queue(q)
  BY <1>1 DEF Room, Queue
<1>3. EndArrived' => EndArrived
  BY <1>0, <1>1, <1>2 DEF EndArrived
<1>4. ASSUME pc'["child"] \in {"Flush", "Done"} => current["child"].kind = "End"
      PROVE  LastSend'
  BY <1>1, <1>3, <1>4, LastKept DEF Turns, LastSend
<1>5. CASE SendRequest
  <2>1. /\ pc["child"] = "Request" /\ pc'["child"] = "Create" /\ tx'["child"] = "wire"
        /\ rx' = rx
    BY <1>0, <1>5 DEF SendRequest, Posts, Goto
  <2>2. RequestOnce'
    BY <1>0, <1>1, <1>2, <2>1 DEF Turns, RequestOnce
  <2>3. Ready'
    BY <1>1, <2>1 DEF Turns, Ready, Room
  <2> QED
    BY <1>4, <2>1, <2>2, <2>3 DEF Turns
<1>6. CASE CreateOutput
  <2>1. pc["child"] = "Create" /\ pc'["child"] = "Wait" /\ tx' = tx /\ rx' = rx
    BY <1>0, <1>6 DEF CreateOutput, Goto, linkVars
  <2>2. Ready'
    BY <1>1, <2>1 DEF Turns, Ready, Room
  <2> QED
    BY <1>0, <1>1, <1>2, <1>4, <2>1, <2>2, RequestKept DEF Turns
<1>7. CASE Repost
  <2>1. /\ pc["child"] = "Got" /\ pc'["child"] = "Accept" /\ tx' = tx
        /\ rx' = [rx EXCEPT !["child"] = @ + Reposts(current["child"].kind)]
    BY <1>0, <1>7 DEF Repost, Goto
  <2>2. Ready'
    <3> SUFFICES ASSUME current["child"].kind \in {"Metadata", "Data"}
                 PROVE  Room("child")' = 1
      BY <1>1, <2>1 DEF Ready
    <3> DEFINE r == rx["child"]  a == Len(cq["child"])  b == Len(pending["child"])
    <3>1. Room("child") = 0
      BY <2>1 DEF IInv, Types, Taken
    <3>2. r + a + b = 0 /\ r \in 0 .. 1 /\ a \in Nat /\ b \in Nat
      <4>1. cq["child"] \in Seq(Messages) /\ pending["child"] \in Seq(Messages)
        BY <1>0 DEF IInv, Types, LinkTypes
      <4> QED
        BY <1>0, <3>1, <4>1, LenProperties DEF Room
    <3>3. Room("child")' = r + 1 + a + b
      BY <1>0, <1>1, <2>1 DEF Reposts, Room
    <3> HIDE DEF r, a, b
    <3> QED
      BY <3>2, <3>3
  <2> QED
    BY <1>0, <1>1, <1>2, <1>4, <2>1, <2>2, RequestKept DEF Turns
<1>8. CASE Accept
  <2>1. /\ pc["child"] = "Accept" /\ tx' = tx /\ Room("child")' = Room("child")
    BY <1>8 DEF Accept, linkVars, Room
  <2>2. \/ pc'["child"] = "Wait" /\ current["child"].kind \in {"Metadata", "Data"}
        \/ pc'["child"] = "Flush" /\ current["child"].kind = "End"
        \/ pc'["child"] \in {"Failed", "Refused"}
    BY <1>0, <1>8
    DEF Accept, AcceptMetadata, AcceptData, AcceptEnd, Refuse, Goto, Fails
  <2>3. Ready'
    BY <2>1, <2>2 DEF Turns, Ready
  <2> QED
    BY <1>0, <1>1, <1>2, <1>4, <2>1, <2>2, <2>3, RequestKept DEF Turns
<1>9. CASE Flush
  <2>1. pc["child"] = "Flush" /\ pc'["child"] = "Done" /\ tx' = tx
    BY <1>0, <1>9 DEF Flush, Goto, linkVars
  <2>2. Ready'
    BY <2>1 DEF Ready
  <2> QED
    BY <1>0, <1>1, <1>2, <1>4, <2>1, <2>2, RequestKept DEF Turns, LastSend
<1> QED
  BY <1>5, <1>6, <1>7, <1>8, <1>9

\* The provider delivers a message.
LEMMA DeliverTurns ==
  ASSUME IInv, Idle, Places, Turns, NEW p \in Ends, Deliver(p) PROVE Turns'
<1>0. /\ tx \in [Ends -> {"none", "wire", "acked", "completed", "error"}]
      /\ Ends = {"parent", "child"} /\ Peer("parent") = "child" /\ Peer("child") = "parent"
  BY FileFacts DEF IInv, Types, LinkTypes
<1>1. /\ UNCHANGED <<pc, msg, current>>
      /\ tx[p] = "wire" /\ tx' = [tx EXCEPT ![p] = "acked"]
      /\ \A q \in Ends : q # Peer(p) => Queue(q)' = Queue(q)
      /\ \A q \in Ends : Room(q)' = Room(q)
      /\ Queue(Peer(p)) = <<>> /\ Queue(Peer(p))' = <<msg[p]>>
  BY DeliverFacts DEF IInv, Types
<1>2. Ready'
  BY <1>0, <1>1, ReadyKept DEF Turns
<1>3. \A m : Head(<<m>>) = m /\ <<m>> # <<>>
  OBVIOUS
<1>4. CASE p = "parent"
  <2>1. Queue("parent")' = Queue("parent") /\ tx'["child"] = tx["child"]
    BY <1>0, <1>1, <1>4
  <2>2. RequestOnce'
    BY <1>0, <1>1, <2>1, RequestKept DEF Turns
  <2>3. EndArrived' => EndArrived \/ msg["parent"].kind = "End"
    BY <1>0, <1>1, <1>3, <1>4 DEF EndArrived
  <2>4. tx'["parent"] = "acked"
    BY <1>0, <1>1, <1>4
  <2>5. EndArrived => pc["parent"] \in Over
    BY <1>1, <1>4 DEF Turns, LastSend, EndDelivered, Over
  <2>6. LastSend'
    <3>1. EndArrived' => pc["parent"] \in Over \/ EndDelivered'
      <4> SUFFICES ASSUME EndArrived', pc["parent"] \notin Over PROVE EndDelivered'
        OBVIOUS
      <4>1. msg["parent"].kind = "End"
        BY <2>3, <2>5
      <4>2. pc["parent"] = "Drain"
        BY <1>0, <1>1, <1>4 DEF Idle, ParentIdle, Places, Over
      <4> QED
        BY <1>1, <2>4, <4>1, <4>2 DEF EndDelivered
    <3> QED
      BY <1>1, <2>4, <3>1 DEF Turns, LastSend
  <2> QED
    BY <1>2, <2>2, <2>6 DEF Turns
<1>5. CASE p = "child"
  <2>1. /\ Queue("child")' = Queue("child") /\ tx'["parent"] = tx["parent"]
        /\ tx'["child"] = "acked" /\ tx["child"] = "wire"
        /\ Queue("parent")' # <<>>
    BY <1>0, <1>1, <1>3, <1>5
  <2>2. RequestOnce'
    BY <1>0, <1>1, <2>1 DEF Turns, RequestOnce
  <2>3. LastSend'
    BY <1>1, <2>1 DEF Turns, LastSend, EndArrived, EndDelivered
  <2> QED
    BY <1>2, <2>2, <2>3 DEF Turns
<1> QED
  BY <1>0, <1>4, <1>5

\* CompleteSend, RetriesExceeded and Leave.
LEMMA SendStateTurns ==
  ASSUME IInv, Turns, NEW p \in Ends, CompleteSend(p) \/ RetriesExceeded(p) \/ Leave(p)
  PROVE  Turns'
<1>0. /\ tx \in [Ends -> {"none", "wire", "acked", "completed", "error"}]
      /\ rx \in [Ends -> 0 .. 1] /\ QueueTypes
      /\ Ends = {"parent", "child"} /\ Peer("child") = "parent"
  BY QueueFacts, FileFacts DEF IInv, Types, LinkTypes
<1>1. UNCHANGED <<pc, msg, cq, pending, current>>
  BY DEF CompleteSend, RetriesExceeded, Leave
<1>2. \A q \in Ends : Queue(q)' = Queue(q)
  BY <1>1 DEF Queue
<1>3. \A q \in Ends : pc[q] \notin Over => rx'[q] = rx[q] /\ Room(q)' = Room(q)
  <2> SUFFICES ASSUME NEW q \in Ends, pc[q] \notin Over
               PROVE  rx'[q] = rx[q] /\ Room(q)' = Room(q)
    OBVIOUS
  <2>1. rx'[q] = rx[q]
    BY <1>0 DEF CompleteSend, RetriesExceeded, Leave
  <2> QED
    BY <1>1, <2>1 DEF Room
<1>4. \A q \in Ends :
        \/ tx'[q] = tx[q]
        \/ pc[q] \in Over /\ tx'[q] = "none"
        \/ tx[q] = "acked" /\ tx'[q] = "completed"
        \/ tx[q] = "wire" /\ tx'[q] = "error" /\ rx[Peer(q)] = 0
  BY <1>0 DEF CompleteSend, RetriesExceeded, Leave
<1>5. Ready'
  BY <1>0, <1>1, <1>3, ReadyKept DEF Turns
<1>6. RequestOnce'
  <2>1. pc["parent"] = "Wait" /\ Queue("parent") = <<>> => rx["parent"] = 1
    <3> SUFFICES ASSUME pc["parent"] = "Wait", Queue("parent") = <<>>
                 PROVE  rx["parent"] = 1
      OBVIOUS
    <3> DEFINE r == rx["parent"]  l == Len(Queue("parent"))
    <3>1. Room("parent") = 1
      BY DEF Turns, RequestOnce
    <3>2. r \in 0 .. 1 /\ r + l = 1 /\ l = 0
      BY <1>0, <3>1, Zenon DEF QueueTypes
    <3> HIDE DEF r, l
    <3>3. r = 1
      BY <3>2
    <3> QED
      BY <3>3 DEF r
  <2>2. pc["parent"] = "Wait" => Room("parent")' = Room("parent")
    BY <1>0, <1>3 DEF Over
  <2> QED
    BY <1>0, <1>1, <1>2, <1>4, <2>1, <2>2 DEF Turns, RequestOnce, Over
<1>7. LastSend'
  BY <1>0, <1>1, <1>2, <1>4 DEF Turns, LastSend, EndArrived, EndDelivered, Over
<1> QED
  BY <1>5, <1>6, <1>7 DEF Turns

\* Every step keeps it.
LEMMA StepTurns == IInv /\ Idle /\ Places /\ Turns /\ [Next]_vars => Turns'
<1> SUFFICES ASSUME IInv, Idle, Places, Turns, [Next]_vars PROVE Turns'
  OBVIOUS
<1>1. CASE ParentStep
  BY <1>1, WaitTurns, ParentStepTurns, FileFacts DEF ParentStep
<1>2. CASE ChildStep
  BY <1>2, WaitTurns, ChildStepTurns, FileFacts DEF ChildStep
<1>3. CASE CallFails
  BY <1>3, FailsTurns, FileFacts DEF CallFails
<1>4. ASSUME NEW p \in Ends, TimesOut(p) PROVE Turns'
  BY <1>4, FailsTurns DEF TimesOut
<1>5. CASE Network
  BY <1>5, DeliverTurns, SendStateTurns DEF Network
<1>6. ASSUME NEW p \in Ends, RetriesExceeded(p) \/ Leave(p) PROVE Turns'
  BY <1>6, SendStateTurns
<1>7. CASE Rewrite \/ UNCHANGED vars
  <2>1. UNCHANGED <<pc, tx, msg, rx, cq, pending, current>>
    BY <1>7 DEF Rewrite, vars, linkVars
  <2>2. UNCHANGED Queue("child") /\ UNCHANGED Queue("parent")
        /\ UNCHANGED Room("child") /\ UNCHANGED Room("parent")
    BY <2>1 DEF Queue, Room
  <2> QED
    BY <2>1, <2>2 DEF Turns, RequestOnce, Ready, LastSend, EndArrived, EndDelivered
<1> QED
  BY <1>1, <1>2, <1>3, <1>4, <1>5, <1>6, <1>7 DEF Next

\* It holds in every state.
LEMMA TurnsAlways == Spec => [](IInv /\ Idle /\ Places /\ Turns)
<1>1. Init => IInv /\ Idle /\ Places /\ Turns
  BY InitInv, InitIdle, InitPlaces, InitTurns
<1>2. (IInv /\ Idle /\ Places /\ Turns) /\ [Next]_vars => (IInv /\ Idle /\ Places /\ Turns)'
  BY StepInv, StepIdle, StepPlaces, StepTurns
<1> QED
  BY <1>1, <1>2, PTL DEF Spec

\* The turns exclude a standoff.
LEMMA TurnsSuffice == ASSUME IInv, Idle, Places, Turns PROVE NoStandoff
<1> SUFFICES ASSUME Waiting("parent"), Waiting("child"), NothingUnderWay
             PROVE  pc["parent"] = "Done" /\ pc["child"] = "Done"
  BY FileFacts DEF NoStandoff
<1>0. /\ QueueTypes /\ "parent" \in Ends /\ "child" \in Ends
      /\ Peer("parent") = "child" /\ Peer("child") = "parent"
      /\ tx \in [Ends -> {"none", "wire", "acked", "completed", "error"}]
  BY FileFacts, QueueFacts DEF IInv, Types, LinkTypes
<1>1. \A p \in Ends : Room(p) = 1 /\ rx[p] = 0 => Queue(p) # <<>>
  <2> SUFFICES ASSUME NEW p \in Ends, Room(p) = 1, rx[p] = 0 PROVE Queue(p) # <<>>
    OBVIOUS
  <2> DEFINE r == rx[p]  l == Len(Queue(p))
  <2>1. r = 0 /\ r + l = 1 /\ l \in Nat
    BY <1>0, Zenon DEF QueueTypes
  <2> HIDE DEF r, l
  <2>2. l # 0
    BY <2>1
  <2> QED
    BY <1>0, <2>2, Zenon DEF l, QueueTypes
<1>2. \A p \in Ends : pc[p] = "Wait" => Queue(p) = <<>> \/ tx[p] = "wire"
  <2> SUFFICES ASSUME NEW p \in Ends, pc[p] = "Wait", tx[p] # "wire" PROVE Queue(p) = <<>>
    OBVIOUS
  <2>1. Waiting(p) /\ tx[p] # "acked"
    BY FileFacts DEF NothingUnderWay
  <2>2. tx[p] \in {"none", "completed", "error"}
    BY <1>0, <2>1
  <2> QED
    BY <2>1, <2>2 DEF Waiting, SendDone
<1>3. pc["child"] \in {"Wait", "Done"} /\ pc["parent"] \in {"Wait", "Drain", "Done"}
  BY DEF Waiting, Places, Over
<1>4. tx["child"] = "wire" => rx["parent"] = 0
  BY <1>0 DEF NothingUnderWay
<1>5. pc["child"] = "Wait" => Queue("child") = <<>> \/ tx["child"] = "wire"
  BY <1>0, <1>2
<1>6. pc["parent"] # "Wait"
  <2> SUFFICES ASSUME pc["parent"] = "Wait" PROVE FALSE
    OBVIOUS
  <2>1. pc["child"] = "Wait"
    BY <1>3 DEF IInv, ReceiverData, Announced
  <2>2. Room("parent") = 1 /\ (tx["child"] = "wire" \/ Queue("parent") # <<>>)
    BY <2>1 DEF Turns, RequestOnce
  <2>3. Queue("parent") # <<>>
    BY <1>0, <1>1, <1>4, <2>2
  <2>4. tx["parent"] = "none"
    BY DEF Idle, ParentIdle
  <2> QED
    BY <1>0, <1>2, <2>3, <2>4
<1>7. tx["child"] # "wire"
  BY <1>3, <1>6 DEF Turns, RequestOnce
<1>8. pc["parent"] # "Drain"
  <2> SUFFICES ASSUME pc["parent"] = "Drain" PROVE FALSE
    OBVIOUS
  <2>1. tx["parent"] = "wire" /\ rx["child"] = 0
    BY <1>0 DEF Waiting, NothingUnderWay, Turns, LastSend
  <2>2. ~EndDelivered
    BY <2>1 DEF EndDelivered
  <2>3. ~EndArrived
    BY <2>2 DEF Turns, LastSend, Over
  <2>4. pc["child"] = "Wait"
    BY <1>3, <2>3 DEF EndArrived, Turns, LastSend
  <2>5. Room("child") = 1
    BY <2>4 DEF Turns, Ready
  <2> QED
    BY <1>0, <1>1, <1>5, <1>7, <2>1, <2>4, <2>5
<1>9. pc["child"] = "Done"
  <2> SUFFICES ASSUME pc["child"] = "Wait" PROVE FALSE
    BY <1>3
  <2>1. EndArrived
    BY <1>3, <1>6, <1>8 DEF Idle, EndComes, EndDelivered
  <2>2. current["child"].kind # "End"
    BY DEF Idle, ChildIdle
  <2> QED
    BY <1>5, <1>7, <2>1, <2>2 DEF EndArrived
<1> QED
  BY <1>3, <1>6, <1>8, <1>9

\* The two programs of a file transfer never wait for each other, for all files and
\* whatever fails on the way: while neither has given up, one of them can go on or the
\* provider has a SEND to deliver or to report, until both are done.  A RECV is posted
\* for every message, and every message is the next turn of the program that gets it.
THEOREM NobodyWaitsInVain == Spec => []NoStandoff
  BY TurnsAlways, TurnsSuffice, PTL

-----------------------------------------------------------------------------
\* Without faults no program fails.

\* A program only fails by a fault.
NoFailures == \A p \in Ends : pc[p] # "Failed"

\* The parent is sent nothing but the request, and no SEND fails.
Undisturbed ==
  /\ NoFailures
  /\ \A p \in Ends : tx[p] # "error"
  /\ tx["child"] = "wire" => msg["child"].kind = "Request"
  /\ Queue("parent") # <<>> => Head(Queue("parent")).kind = "Request"
  /\ pc["parent"] = "Got" => current["parent"].kind = "Request"

\* A step that leaves the messages to the parent, and the SENDs in order.
LEMMA UndisturbedKept ==
  ASSUME Undisturbed, \A p \in Ends : pc'[p] # "Failed",
         \A p \in Ends : tx'[p] \in {tx[p], "none", "wire", "acked", "completed"},
         tx'["child"] = "wire" =>
           \/ msg'["child"].kind = "Request"
           \/ tx["child"] = "wire" /\ msg'["child"] = msg["child"],
         Queue("parent")' = Queue("parent"),
         pc'["parent"] = "Got" =>
           pc["parent"] = "Got" /\ current'["parent"] = current["parent"]
  PROVE  Undisturbed'
  BY DEF Undisturbed, NoFailures

\* The initial states.
LEMMA InitUndisturbed == Init => Undisturbed
<1> SUFFICES ASSUME Init PROVE Undisturbed
  OBVIOUS
<1>1. <<>> \o <<>> = <<>>
  OBVIOUS
<1>2. Queue("parent") = <<>>
  BY <1>1, FileFacts DEF Init, Queue
<1> QED
  BY <1>2, FileFacts DEF Init, Undisturbed, NoFailures

\* Every step keeps it when nothing may go wrong.
LEMMA StepUndisturbed ==
  ASSUME Faults = {}, IInv, Idle, Undisturbed, [Next]_vars
  PROVE  Undisturbed'
<1>0. /\ pc \in [Ends -> Labels] /\ current \in [Ends -> Messages]
      /\ tx \in [Ends -> {"none", "wire", "acked", "completed", "error"}]
      /\ msg \in [Ends -> Messages] /\ QueueTypes
      /\ Ends = {"parent", "child"} /\ Peer("parent") = "child" /\ Peer("child") = "parent"
      /\ \A p \in Ends : pc[p] # "Failed" /\ tx[p] # "error"
  BY FileFacts, QueueFacts
  DEF IInv, Types, ControlTypes, LinkTypes, Undisturbed, NoFailures
<1>1. ASSUME UNCHANGED <<cq, pending>> PROVE Queue("parent")' = Queue("parent")
  BY <1>1 DEF Queue
<1>2. ASSUME NEW p \in Ends, Wait(p) PROVE Undisturbed'
  <2>1. /\ \A q \in Ends : q # p => Queue(q)' = Queue(q) /\ tx'[q] = tx[q]
        /\ WaitReturns(p) \/ WaitGoesOn(p) \/ WaitFails(p)
        /\ msg' = msg
    BY <1>2, WaitFacts DEF IInv, Types
  <2>2. pc' = [pc EXCEPT ![p] = "Got"] \/ pc' = pc
    BY <1>0, <1>2 DEF Wait, Goto
  <2>3. ~WaitFails(p)
    BY <1>0, <2>2 DEF WaitFails
  <2>4. CASE WaitGoesOn(p)
    BY <1>0, <2>1, <2>4, UndisturbedKept DEF WaitGoesOn
  <2>5. CASE WaitReturns(p) /\ p = "child"
    BY <1>0, <2>1, <2>5, UndisturbedKept DEF WaitReturns
  <2>6. CASE WaitReturns(p) /\ p = "parent"
    <3>1. /\ Queue("parent")' = <<>> /\ tx'["parent"] = "none" /\ tx'["child"] = tx["child"]
          /\ current'["parent"] = Head(Queue("parent")) /\ Queue("parent") # <<>>
      <4>1. Len(Queue("parent")) # 0
        BY <2>6 DEF WaitReturns
      <4> QED
        BY <1>0, <2>1, <2>6, <4>1 DEF WaitReturns, QueueTypes
    <3> QED
      BY <1>0, <2>1, <2>2, <3>1 DEF Undisturbed, NoFailures
  <2> QED
    BY <1>0, <2>1, <2>3, <2>4, <2>5, <2>6
<1>3. CASE Drain
  <2>1. cq["parent"] = <<>>
    <3>1. Room("parent") = 0
      BY <1>3 DEF Drain, Idle, ParentIdle
    <3> DEFINE r == rx["parent"]  a == Len(cq["parent"])  b == Len(pending["parent"])
    <3>2. /\ r \in 0 .. 1 /\ a \in Nat /\ b \in Nat /\ r + a + b = 0
          /\ cq["parent"] \in Seq(Messages)
      BY <1>0, <3>1, LenProperties DEF IInv, Types, LinkTypes, Room
    <3> HIDE DEF r, a, b
    <3>3. a = 0
      BY <3>2
    <3> QED
      BY <3>2, <3>3, EmptySeq DEF a
  <2>2. /\ tx' = [tx EXCEPT !["parent"] = "none"] /\ UNCHANGED <<msg, cq, pending>>
        /\ \E l \in {"Done", "Read"} : pc' = [pc EXCEPT !["parent"] = l]
    BY <1>0, <1>3, <2>1 DEF Drain, Goto
  <2> QED
    BY <1>0, <1>1, <2>2, UndisturbedKept
<1>4. CASE TakeRequest \/ Hash \/ SendMetadata \/ SendData
  <2>1. /\ \E l \in {"Hash", "Metadata", "Drain"} :
             pc' = [pc EXCEPT !["parent"] = l] \/ (pc' = pc /\ pc["parent"] = "Hash")
        /\ UNCHANGED <<cq, pending>>
        /\ tx' = tx \/ tx' = [tx EXCEPT !["parent"] = "wire"]
        /\ msg'["child"] = msg["child"]
    BY <1>0, <1>4
    DEF TakeRequest, Hash, SendMetadata, SendData, Posts, Goto, linkVars, Undisturbed
  <2> QED
    BY <1>0, <1>1, <2>1, UndisturbedKept
<1>5. CASE SendRequest
  <2>1. /\ pc' = [pc EXCEPT !["child"] = "Create"] /\ UNCHANGED <<cq, pending, current>>
        /\ tx' = [tx EXCEPT !["child"] = "wire"]
        /\ msg'["child"].kind = "Request"
    BY <1>0, <1>5 DEF SendRequest, Posts, Goto, Message
  <2> QED
    BY <1>0, <1>1, <2>1, UndisturbedKept
<1>6. CASE CreateOutput \/ Repost \/ Accept \/ Flush
  <2>1. /\ \E l \in {"Wait", "Accept", "Flush", "Done", "Refused"} :
             pc' = [pc EXCEPT !["child"] = l]
        /\ UNCHANGED <<tx, msg, cq, pending, current>>
    BY <1>6
    DEF CreateOutput, Repost, Accept, AcceptMetadata, AcceptData, AcceptEnd, Refuse, Flush,
        Goto, linkVars
  <2> QED
    BY <1>0, <1>1, <2>1, UndisturbedKept
<1>7. CASE CallFails \/ \E p \in Ends : TimesOut(p) \/ RetriesExceeded(p)
  BY <1>7 DEF CallFails, TimesOut, FailsBy, RetriesExceeded
<1>8. ASSUME NEW p \in Ends, Deliver(p) PROVE Undisturbed'
  <2>1. /\ UNCHANGED <<pc, msg, current>>
        /\ tx[p] = "wire" /\ tx' = [tx EXCEPT ![p] = "acked"]
        /\ \A q \in Ends : q # Peer(p) => Queue(q)' = Queue(q)
        /\ Queue(Peer(p))' = <<msg[p]>>
    BY <1>8, DeliverFacts DEF IInv, Types
  <2>2. CASE p = "parent"
    BY <1>0, <2>1, <2>2, UndisturbedKept
  <2>3. CASE p = "child"
    <3>1. Head(<<msg["child"]>>) = msg["child"]
      OBVIOUS
    <3> QED
      BY <1>0, <2>1, <2>3, <3>1 DEF Undisturbed, NoFailures
  <2> QED
    BY <1>0, <2>2, <2>3
<1>9. ASSUME NEW p \in Ends, CompleteSend(p) \/ Leave(p) PROVE Undisturbed'
  <2>1. /\ UNCHANGED <<pc, msg, cq, pending, current>>
        /\ \A q \in Ends : tx'[q] \in {tx[q], "none", "completed"}
    BY <1>0, <1>9 DEF CompleteSend, Leave
  <2> QED
    BY <1>0, <1>1, <2>1, UndisturbedKept
<1>10. CASE Rewrite \/ UNCHANGED vars
  <2>1. UNCHANGED <<pc, tx, msg, cq, pending, current>>
    BY <1>10 DEF Rewrite, vars, linkVars
  <2> QED
    BY <1>0, <1>1, <2>1, UndisturbedKept
<1> QED
  BY <1>0, <1>2, <1>3, <1>4, <1>5, <1>6, <1>7, <1>8, <1>9, <1>10
  DEF Next, ParentStep, ChildStep, Network

\* Where nothing may go wrong, no program ends with an error: none of the checks of the
\* programs and of their polls refuses what the other side does.
THEOREM FailsOnlyByFaults == ASSUME Faults = {} PROVE Spec => []NoFailures
<1>1. Init => IInv /\ Idle /\ Undisturbed
  BY InitInv, InitIdle, InitUndisturbed
<1>2. (IInv /\ Idle /\ Undisturbed) /\ [Next]_vars => (IInv /\ Idle /\ Undisturbed)'
  BY StepInv, StepIdle, StepUndisturbed
<1>3. Undisturbed => NoFailures
  BY DEF Undisturbed
<1> QED
  BY <1>1, <1>2, <1>3, PTL DEF Spec

\* Neither program can go on by itself, and the provider has nothing for them.
Settled ==
  /\ \A p \in Ends : Waiting(p) \/ pc[p] \in {"Failed", "Refused"}
  /\ NothingUnderWay

\* A file that nobody has rewritten is copied when the transfer comes to rest.
SettledDone ==
  changes = 0 /\ Settled => (\A p \in Ends : pc[p] = "Done") /\ output = file

\* run of both programs in file mode (parent.rs, child.rs): a transfer without faults of
\* a file that nobody rewrites can come to rest only in one way, with both programs done
\* and the output the file.
THEOREM FaultlessCopies == ASSUME Faults = {} PROVE Spec => []SettledDone
<1>1. ASSUME Places, NoStandoff, NoFailures, OnlyChangesRefused, ExactCopy
      PROVE  SettledDone
  BY <1>1, FileFacts
  DEF Places, NoStandoff, NoFailures, OnlyChangesRefused, ExactCopy, SettledDone, Settled
<1> QED
  BY <1>1, TurnsAlways, NobodyWaitsInVain, FailsOnlyByFaults, RefusesOnlyChanges, CopyExact,
     PTL

-----------------------------------------------------------------------------
\* The work that is left, for files of n blocks at the most: a number that every step
\* lowers.

\* What a parent has before it at a label: the first pass, then a message for each
\* block it has not read, then End.
ParentLeft(n, label, i, kind) ==
  IF label = "Wait" THEN 11 * n + 21
  ELSE IF label = "Got" THEN 11 * n + 20
  ELSE IF label = "Hash" THEN 10 * n + 19 + (n - i)
  ELSE IF label = "Metadata" THEN 10 * n + 18
  ELSE IF label = "Read" THEN 10 * (n - i) + 9
  ELSE IF label = "Drain" THEN (IF kind = "End" THEN 1 ELSE 10 * (n - i) + 10)
  ELSE 0

\* What a child has before it but for the messages that wait for it.
ChildLeft(label) ==
  IF label = "Request" THEN 10
  ELSE IF label = "Got" THEN 4
  ELSE IF label \in {"Create", "Accept"} THEN 2
  ELSE IF label \in {"Wait", "Flush"} THEN 1
  ELSE 0

\* The way of a SEND, and of the message it brings.
SendLeft(state) ==
  IF state = "wire" THEN 7 ELSE IF state = "acked" THEN 2
  ELSE IF state \in {"completed", "error"} THEN 1 ELSE 0
LinkLeft(p) == SendLeft(tx[p]) + rx[p] + 5 * Len(cq[p]) + 4 * Len(pending[p])

ParentWork(n) == ParentLeft(n, pc["parent"], pos, msg["parent"].kind)
ChildWork == ChildLeft(pc["child"])
WorkLeft(n) ==
  (MaxChanges - changes) + ParentWork(n) + ChildWork + LinkLeft("parent") + LinkLeft("child")

Shrinks(n) == WorkLeft(n)' < WorkLeft(n)

\* What the labels of the parent count.
LEMMA ParentLabels ==
  ASSUME NEW n \in Nat, NEW i \in 0 .. n, NEW kind
  PROVE  /\ ParentLeft(n, "Wait", i, kind) = 11 * n + 21
         /\ ParentLeft(n, "Got", i, kind) = 11 * n + 20
         /\ ParentLeft(n, "Hash", i, kind) = 10 * n + 19 + (n - i)
         /\ ParentLeft(n, "Metadata", i, kind) = 10 * n + 18
         /\ ParentLeft(n, "Read", i, kind) = 10 * (n - i) + 9
         /\ kind = "End" => ParentLeft(n, "Drain", i, kind) = 1
         /\ kind # "End" => ParentLeft(n, "Drain", i, kind) = 10 * (n - i) + 10
         /\ \A l \in Over : ParentLeft(n, l, i, kind) = 0
  BY DEF ParentLeft, Over

\* It is never negative.
LEMMA ParentNumber ==
  ASSUME NEW n \in Nat, NEW i \in 0 .. n, NEW kind, NEW l
  PROVE  ParentLeft(n, l, i, kind) \in Nat
<1>1. /\ 11 * n + 21 \in Nat /\ 11 * n + 20 \in Nat /\ 10 * n + 18 \in Nat
      /\ 10 * n + 19 + (n - i) \in Nat
      /\ 10 * (n - i) + 9 \in Nat /\ 10 * (n - i) + 10 \in Nat /\ 0 \in Nat /\ 1 \in Nat
  OBVIOUS
<1> QED
  BY <1>1, Zenon DEF ParentLeft

\* And those of the child.
LEMMA ChildLabels ==
  /\ ChildLeft("Request") = 10 /\ ChildLeft("Got") = 4
  /\ ChildLeft("Create") = 2 /\ ChildLeft("Accept") = 2
  /\ ChildLeft("Wait") = 1 /\ ChildLeft("Flush") = 1
  /\ \A l \in Over : ChildLeft(l) = 0
  BY DEF ChildLeft, Over

\* And the places of a SEND.
LEMMA SendPlaces ==
  /\ SendLeft("wire") = 7 /\ SendLeft("acked") = 2
  /\ SendLeft("completed") = 1 /\ SendLeft("error") = 1 /\ SendLeft("none") = 0
  BY DEF SendLeft

\* No position is past the longest file.
Short(n) == pos <= n

\* All are numbers.
LEMMA PartsNumbers ==
  ASSUME IInv, NEW n \in Nat, Short(n)
  PROVE  /\ MaxChanges - changes \in Nat /\ pos \in 0 .. n
         /\ ParentWork(n) \in Nat /\ ChildWork \in Nat
         /\ \A p \in Ends : /\ SendLeft(tx[p]) \in Nat /\ rx[p] \in Nat
                            /\ Len(cq[p]) \in Nat /\ Len(pending[p]) \in Nat
                            /\ LinkLeft(p) \in Nat
         /\ WorkLeft(n) \in Nat
<1>1. MaxChanges - changes \in Nat /\ pos \in 0 .. n
  BY FileFacts DEF IInv, Types, ParentTypes, Short
<1>2. ParentWork(n) \in Nat
  BY <1>1, ParentNumber DEF ParentWork
<1>3. ChildWork \in Nat
  BY DEF ChildWork, ChildLeft
<1>4. ASSUME NEW p \in Ends
      PROVE  /\ SendLeft(tx[p]) \in Nat /\ rx[p] \in Nat
             /\ Len(cq[p]) \in Nat /\ Len(pending[p]) \in Nat
  <2>1. cq[p] \in Seq(Messages) /\ pending[p] \in Seq(Messages) /\ rx[p] \in 0 .. 1
    BY DEF IInv, Types, LinkTypes
  <2>2. SendLeft(tx[p]) \in Nat
    BY DEF SendLeft
  <2>3. Len(cq[p]) \in Nat /\ Len(pending[p]) \in Nat
    BY <2>1, LenProperties
  <2>4. rx[p] \in Nat
    BY <2>1
  <2> QED
    BY <2>2, <2>3, <2>4
<1>5. \A p \in Ends : LinkLeft(p) \in Nat
  <2>1. \A s, r, c, d \in Nat : s + r + 5 * c + 4 * d \in Nat
    OBVIOUS
  <2> QED
    BY <1>4, <2>1, Zenon DEF LinkLeft
<1>6. LinkLeft("parent") \in Nat /\ LinkLeft("child") \in Nat
  BY <1>5, FileFacts
<1> QED
  BY <1>1, <1>2, <1>3, <1>4, <1>5, <1>6 DEF WorkLeft

\* The same of the state after a step.
LEMMA NumbersNext ==
  ASSUME NEW n \in Nat
  PROVE  IInv' /\ Short(n)' =>
           (/\ ParentWork(n) \in Nat /\ ChildWork \in Nat
            /\ LinkLeft("parent") \in Nat /\ LinkLeft("child") \in Nat)'
<1>1. IInv /\ Short(n) => /\ ParentWork(n) \in Nat /\ ChildWork \in Nat
                         /\ LinkLeft("parent") \in Nat /\ LinkLeft("child") \in Nat
  BY PartsNumbers, FileFacts
<1> QED
  BY <1>1, PTL

\* The parts of the sum, before and after a step.
LEMMA SumShrinks ==
  ASSUME IInv, IInv', NEW n \in Nat, Short(n), Short(n)',
         \/ /\ changes' = changes
            /\ ParentWork(n)' + ChildWork' + LinkLeft("parent")' + LinkLeft("child")'
                 < ParentWork(n) + ChildWork + LinkLeft("parent") + LinkLeft("child")
         \/ /\ changes' = changes + 1
            /\ ParentWork(n)' + ChildWork' + LinkLeft("parent")' + LinkLeft("child")'
                 = ParentWork(n) + ChildWork + LinkLeft("parent") + LinkLeft("child")
  PROVE  Shrinks(n)
<1> DEFINE P == ParentWork(n)  C == ChildWork  A == LinkLeft("parent")  B == LinkLeft("child")
           Q == ParentWork(n)'  D == ChildWork'  E == LinkLeft("parent")'  F == LinkLeft("child")'
<1>1. /\ P \in Int /\ C \in Int /\ A \in Int /\ B \in Int /\ MaxChanges - changes \in Int
      /\ WorkLeft(n) = (MaxChanges - changes) + P + C + A + B
  BY PartsNumbers, FileFacts DEF WorkLeft
<1>2. /\ Q \in Int /\ D \in Int /\ E \in Int /\ F \in Int
      /\ WorkLeft(n)' = (MaxChanges - changes') + Q + D + E + F
  <2>1. (/\ ParentWork(n) \in Nat /\ ChildWork \in Nat /\ LinkLeft("parent") \in Nat
         /\ LinkLeft("child") \in Nat)'
    BY NumbersNext
  <2> QED
    BY <2>1 DEF WorkLeft
<1>3. changes \in Int /\ MaxChanges \in Int
  BY FileFacts DEF IInv, Types, ParentTypes
<1>4. \/ changes' = changes /\ Q + D + E + F < P + C + A + B
      \/ changes' = changes + 1 /\ Q + D + E + F = P + C + A + B
  OBVIOUS
<1> HIDE DEF P, C, A, B, Q, D, E, F
<1>5. (MaxChanges - changes') + Q + D + E + F < (MaxChanges - changes) + P + C + A + B
  BY <1>1, <1>2, <1>3, <1>4
<1> QED
  BY <1>1, <1>2, <1>5 DEF Shrinks

\* A step that only moves a program, and neither the file nor the link.
LEMMA MoveShrinks ==
  ASSUME IInv, IInv', NEW n \in Nat, Short(n),
         UNCHANGED <<changes, pos, linkVars>>,
         \/ /\ pc'["child"] = pc["child"]
            /\ ParentLeft(n, pc'["parent"], pos, msg["parent"].kind) < ParentWork(n)
         \/ pc'["parent"] = pc["parent"] /\ ChildLeft(pc'["child"]) < ChildWork
  PROVE  Shrinks(n)
<1>1. /\ LinkLeft("parent")' = LinkLeft("parent") /\ LinkLeft("child")' = LinkLeft("child")
      /\ Short(n)' /\ changes' = changes
  BY DEF linkVars, LinkLeft, Short
<1>2. /\ ParentWork(n)' = ParentLeft(n, pc'["parent"], pos, msg["parent"].kind)
      /\ ChildWork' = ChildLeft(pc'["child"])
  BY DEF linkVars, ParentWork, ChildWork
<1>3. \/ ChildWork' = ChildWork /\ ParentWork(n)' < ParentWork(n)
      \/ ParentWork(n)' = ParentWork(n) /\ ChildWork' < ChildWork
  BY <1>2 DEF ParentWork, ChildWork
<1>4. /\ ParentWork(n) \in Int /\ ChildWork \in Int
      /\ LinkLeft("parent") \in Int /\ LinkLeft("child") \in Int
  BY PartsNumbers, FileFacts
<1>5. ParentWork(n)' \in Int /\ ChildWork' \in Int
  BY <1>1, NumbersNext
<1>6. ParentWork(n)' + ChildWork' + LinkLeft("parent")' + LinkLeft("child")'
        < ParentWork(n) + ChildWork + LinkLeft("parent") + LinkLeft("child")
  BY <1>1, <1>3, <1>4, <1>5
<1> QED
  BY <1>1, <1>6, SumShrinks

\* A program that ends, for whatever reason.
LEMMA EndShrinks ==
  ASSUME IInv, IInv', Places, NEW n \in Nat, Short(n), NEW p \in Ends, NEW l \in Over,
         pc[p] \notin Over, pc' = [pc EXCEPT ![p] = l], UNCHANGED <<changes, pos, linkVars>>
  PROVE  Shrinks(n)
<1>1. pc'[p] = l /\ \A q \in Ends : q # p => pc'[q] = pc[q]
  BY DEF IInv, Types, ControlTypes
<1>2. pos \in 0 .. n
  BY PartsNumbers
<1>3. CASE p = "parent"
  <2>1. ParentLeft(n, l, pos, msg["parent"].kind) = 0
    BY <1>2, ParentLabels
  <2>2. ParentWork(n) > 0
    BY <1>2, <1>3, ParentLabels DEF ParentWork, Places, Over
  <2> QED
    BY <1>1, <1>3, <2>1, <2>2, MoveShrinks, FileFacts
<1>4. CASE p = "child"
  <2>1. ChildLeft(l) = 0 /\ ChildWork > 0
    BY <1>4, ChildLabels DEF ChildWork, Places
  <2> QED
    BY <1>1, <1>4, <2>1, MoveShrinks, FileFacts
<1> QED
  BY <1>3, <1>4, FileFacts

\* A step of the parent that only moves it.
LEMMA ParentMoveShrinks ==
  ASSUME IInv, IInv', NEW n \in Nat, Short(n), NEW l, Goto("parent", l),
         UNCHANGED <<changes, pos, linkVars>>,
         ParentLeft(n, l, pos, msg["parent"].kind) < ParentWork(n)
  PROVE  Shrinks(n)
<1>1. pc'["parent"] = l /\ pc'["child"] = pc["child"]
  BY FileFacts DEF IInv, Types, ControlTypes, Goto
<1> QED
  BY <1>1, MoveShrinks

\* And one of the child.
LEMMA ChildMoveShrinks ==
  ASSUME IInv, IInv', NEW n \in Nat, Short(n), NEW l, Goto("child", l),
         UNCHANGED <<changes, pos, linkVars>>, ChildLeft(l) < ChildWork
  PROVE  Shrinks(n)
<1>1. pc'["child"] = l /\ pc'["parent"] = pc["parent"]
  BY FileFacts DEF IInv, Types, ControlTypes, Goto
<1> QED
  BY <1>1, MoveShrinks

\* A failing call or an expired deadline.
LEMMA FailsShrinks ==
  ASSUME IInv, IInv', Places, NEW n \in Nat, Short(n), NEW p \in Ends, NEW fault, NEW labels,
         labels \intersect Over = {}, FailsBy(p, fault, labels)
  PROVE  Shrinks(n)
<1>1. /\ pc' = [pc EXCEPT ![p] = "Failed"] /\ pc[p] \notin Over /\ "Failed" \in Over
      /\ UNCHANGED <<changes, pos, linkVars>>
  BY DEF FailsBy, Fails, Goto, parentVars, Over
<1> QED
  BY <1>1, EndShrinks

\* A step that changes one link, and the programs by d at the most.
LEMMA OneLinkShrinks ==
  ASSUME IInv, IInv', NEW n \in Nat, Short(n), Short(n)', NEW p \in Ends, NEW d \in Int,
         changes' = changes, LinkLeft(Peer(p))' = LinkLeft(Peer(p)),
         ParentWork(n)' + ChildWork' <= ParentWork(n) + ChildWork + d,
         LinkLeft(p)' + d < LinkLeft(p)
  PROVE  Shrinks(n)
<1>2. /\ ParentWork(n) \in Int /\ ChildWork \in Int
      /\ LinkLeft("parent") \in Int /\ LinkLeft("child") \in Int
  BY PartsNumbers, FileFacts
<1>3. /\ ParentWork(n)' \in Int /\ ChildWork' \in Int
      /\ LinkLeft("parent")' \in Int /\ LinkLeft("child")' \in Int
  BY NumbersNext
<1>4. \A P, Q, C, D, A, B, E, F \in Int :
        B = F /\ Q + D <= P + C + d /\ E + d < A
        => Q + D + E + F < P + C + A + B /\ Q + D + F + E < P + C + B + A
  OBVIOUS
<1>5. ParentWork(n)' + ChildWork' + LinkLeft("parent")' + LinkLeft("child")'
        < ParentWork(n) + ChildWork + LinkLeft("parent") + LinkLeft("child")
  <2>1. CASE p = "parent"
    <3>1. Peer(p) = "child"
      BY <2>1, FileFacts
    <3> QED
      BY <1>2, <1>3, <1>4, <2>1, <3>1, Zenon
  <2>2. CASE p = "child"
    <3>1. Peer(p) = "parent"
      BY <2>2, FileFacts
    <3> QED
      BY <1>2, <1>3, <1>4, <2>2, <3>1, Zenon
  <2> QED
    BY <2>1, <2>2, FileFacts
<1> QED
  BY <1>5, SumShrinks

\* A poll of wait_for_message that finds something.
LEMMA WaitShrinks ==
  ASSUME IInv, IInv', Places, NEW n \in Nat, Short(n), NEW p \in Ends, Wait(p), vars' # vars
  PROVE  Shrinks(n)
<1>1. CASE tx[p] = "error"
  <2>1. /\ pc' = [pc EXCEPT ![p] = "Failed"] /\ pc[p] = "Wait"
        /\ UNCHANGED <<changes, pos, linkVars>>
    BY <1>1 DEF Wait, Fails, Goto, parentVars
  <2>2. pc[p] \notin Over /\ "Failed" \in Over
    BY <2>1 DEF Over
  <2> QED
    BY <2>1, <2>2, EndShrinks
<1>2. CASE tx[p] # "error"
  <2> DEFINE o == Peer(p)
             r == rx[p]  c == Len(cq[p])  d == Len(pending[p])  s == SendLeft(tx[p])
             d2 == Len(pending'[p])  s2 == SendLeft(tx'[p])
  <2>0. /\ cq' = [cq EXCEPT ![p] = <<>>]
        /\ tx' = [tx EXCEPT ![p] = IF SendDone(p) THEN "none" ELSE @]
        /\ rx' = rx /\ msg' = msg /\ changes' = changes /\ pos' = pos /\ pc[p] = "Wait"
    BY <1>2 DEF Wait, parentVars
  <2>1. /\ cq'[p] = <<>> /\ tx'[p] = (IF SendDone(p) THEN "none" ELSE tx[p])
        /\ cq'[o] = cq[o] /\ tx'[o] = tx[o] /\ pending'[o] = pending[o] /\ pc'[o] = pc[o]
        /\ o \in Ends /\ Len(<<>>) = 0
    <3>1. o \in Ends /\ o # p
      BY FileFacts
    <3>2. pending'[o] = pending[o] /\ pc'[o] = pc[o]
      BY <1>2, <3>1 DEF Wait, Goto, IInv, Types, LinkTypes, ControlTypes
    <3> QED
      BY <2>0, <3>1, <3>2, EmptySeq DEF IInv, Types, LinkTypes
  <2>2. r \in Nat /\ c \in Nat /\ d \in Nat /\ s \in Nat /\ Len(Queue(p)) = d + c
    <3>1. Len(Queue(p)) = d + c
      BY ConcatProperties DEF Queue, IInv, Types, LinkTypes
    <3> QED
      BY <3>1, PartsNumbers
  <2>3. s2 <= s /\ s2 \in Nat
    BY <2>1, <2>2, SendPlaces DEF SendDone
  <2>4. /\ LinkLeft(p) = s + r + 5 * c + 4 * d
        /\ LinkLeft(p)' = s2 + r + 5 * 0 + 4 * d2 /\ LinkLeft(o)' = LinkLeft(o)
    <3>1. Len(cq'[p]) = 0 /\ rx'[p] = rx[p] /\ rx'[o] = rx[o]
      BY <2>0, <2>1
    <3> QED
      BY <2>1, <3>1, Zenon DEF LinkLeft
  <2>5. CASE Queue(p) # <<>> /\ SendDone(p)
    <3>1. /\ pending' = [pending EXCEPT ![p] = Tail(Queue(p))]
          /\ pc' = [pc EXCEPT ![p] = "Got"]
      BY <1>2, <2>5 DEF Wait, Goto
    <3>2. d2 = d + c - 1
      <4>1. Queue(p) \in Seq(Messages) /\ pending'[p] = Tail(Queue(p))
        BY <3>1, QueueFacts DEF QueueTypes, IInv, Types, LinkTypes
      <4>2. Len(Tail(Queue(p))) = Len(Queue(p)) - 1
        BY <2>5, <4>1, HeadTailProperties
      <4>3. d2 = Len(Queue(p)) - 1
        BY <4>1, <4>2, Zenon
      <4> QED
        BY <2>2, <4>3
    <3>3. /\ ParentWork(n)' + ChildWork' <= ParentWork(n) + ChildWork + 3
          /\ ParentWork(n)' \in Int /\ ChildWork' \in Int
      <4>1. pc'[p] = "Got" /\ pos \in 0 .. n
        BY <3>1, PartsNumbers DEF IInv, Types, ControlTypes
      <4>2. CASE p = "parent"
        <5>1. ParentWork(n) = 11 * n + 21 /\ ParentWork(n)' = 11 * n + 20
          BY <2>0, <4>1, <4>2, ParentLabels DEF ParentWork
        <5>2. ChildWork' = ChildWork /\ ChildWork \in Int
          BY <2>1, <4>2, PartsNumbers, FileFacts DEF ChildWork
        <5>3. \A C \in Int : /\ 11 * n + 20 + C <= 11 * n + 21 + C + 3
                             /\ 11 * n + 20 \in Int
          OBVIOUS
        <5> QED
          BY <5>1, <5>2, <5>3, Zenon
      <4>3. CASE p = "child"
        <5>1. ChildWork = 1 /\ ChildWork' = 4
          BY <2>0, <4>1, <4>3, ChildLabels DEF ChildWork
        <5>2. ParentWork(n)' = ParentWork(n)
          BY <2>0, <2>1, <4>3, FileFacts DEF ParentWork
        <5> QED
          BY <5>1, <5>2, PartsNumbers
      <4> QED
        BY <4>2, <4>3, FileFacts
    <3>5. LinkLeft(p)' + 3 < LinkLeft(p)
      <4> HIDE DEF r, c, d, s, d2, s2
      <4> QED
        BY <2>2, <2>3, <2>4, <3>2
    <3>6. Short(n)'
      BY <2>0 DEF Short
    <3> QED
      BY <2>4, <3>3, <3>5, OneLinkShrinks, <2>0, <3>6
  <2>6. CASE ~(Queue(p) # <<>> /\ SendDone(p))
    <3>1. /\ pending' = [pending EXCEPT ![p] = Queue(p)] /\ current' = current /\ pc' = pc
      BY <1>2, <2>6 DEF Wait
    <3>2. d2 = d + c
      BY <2>2, <3>1 DEF IInv, Types, LinkTypes
    <3>3. ParentWork(n)' + ChildWork' <= ParentWork(n) + ChildWork + 0
      <4>1. ParentWork(n)' = ParentWork(n) /\ ChildWork' = ChildWork
        BY <2>0, <3>1 DEF ParentWork, ChildWork
      <4> QED
        BY <4>1, PartsNumbers
    <3>4. c > 0 \/ s2 < s
      <4> SUFFICES ASSUME c = 0, s2 = s PROVE FALSE
        BY <2>2, <2>3
      <4>1. cq[p] = <<>>
        BY EmptySeq DEF IInv, Types, LinkTypes
      <4>2. Queue(p) = pending[p]
        BY <4>1, ConcatEmptySeq DEF Queue, IInv, Types, LinkTypes
      <4>3. cq' = cq /\ pending' = pending
        BY <2>0, <3>1, <4>1, <4>2 DEF IInv, Types, LinkTypes
      <4>4. tx' = tx
        <5>1. tx'[p] = tx[p]
          BY <2>1, SendPlaces DEF SendDone
        <5> QED
          BY <2>0, <2>1, <5>1 DEF IInv, Types, LinkTypes
      <4> QED
        BY <2>0, <3>1, <4>3, <4>4 DEF Wait, vars, linkVars
    <3>5. LinkLeft(p)' + 0 < LinkLeft(p)
      <4> HIDE DEF r, c, d, s, d2, s2
      <4> QED
        BY <2>2, <2>3, <2>4, <3>2, <3>4
    <3>6. Short(n)'
      BY <2>0 DEF Short
    <3> QED
      BY <2>0, <2>4, <3>3, <3>5, <3>6, OneLinkShrinks
  <2> QED
    BY <2>5, <2>6
<1> QED
  BY <1>1, <1>2

\* The longest file has n blocks.
NoLonger(n) == \A f \in Files : Len(f) <= n

\* What a read returns: a part of the file, a block at least.
LEMMA ChunkFacts ==
  ASSUME IInv, NEW n \in Nat, NoLonger(n), NEW c \in ChunksAt(pos)
  PROVE  Len(c) \in Nat /\ Len(c) >= 1 /\ pos + Len(c) <= n /\ pos \in Nat
<1>1. PICK j \in pos + 1 .. Len(file) : c = SubSeq(file, pos + 1, j)
  BY DEF ChunksAt
<1>2. /\ file \in Seq(Blocks) /\ Len(file) <= n /\ Len(file) \in Nat /\ pos \in Nat
      /\ pos \in 0 .. Len(file) /\ j \in pos .. Len(file)
  <2>1. file \in Seq(Blocks) /\ Len(file) <= n /\ pos \in Nat
    BY FileFacts DEF IInv, Types, ParentTypes, NoLonger
  <2> QED
    BY <1>1, <2>1, LenProperties
<1>3. Len(c) = j - pos
  BY <1>1, <1>2, Parts
<1> QED
  BY <1>1, <1>2, <1>3

\* The steps that read leave the position within the file.
LEMMA ShortStep ==
  ASSUME NEW n \in Nat, NoLonger(n)
  PROVE  IInv /\ Short(n) /\ [Next]_vars => Short(n)'
<1> SUFFICES ASSUME IInv, Short(n), [Next]_vars PROVE Short(n)'
  OBVIOUS
<1>1. CASE pos' = pos
  BY <1>1 DEF Short
<1>2. CASE Hash \/ SendData
  <2>1. \/ pos' = pos \/ pos' = 0 \/ \E c \in ChunksAt(pos) : pos' = pos + Len(c)
    BY <1>2 DEF Hash, SendData
  <2> QED
    BY <2>1, ChunkFacts DEF Short
<1>3. pos' = pos \/ Hash \/ SendData
  BY DEF Next, ParentStep, ChildStep, CallFails, Network, Wait, Drain, TakeRequest,
     SendMetadata, SendRequest, CreateOutput, Repost, Accept, Flush, FailsBy, Deliver,
     CompleteSend, Rewrite, TimesOut, RetriesExceeded, Leave, parentVars, vars
<1> QED
  BY <1>1, <1>2, <1>3

\* Hash lowers what is left of the first pass.
LEMMA HashShrinks ==
  ASSUME IInv, IInv', NEW n \in Nat, NoLonger(n), Short(n), Short(n)', Hash
  PROVE  Shrinks(n)
<1>1. /\ pc["parent"] = "Hash" /\ changes' = changes /\ msg' = msg
      /\ LinkLeft("parent")' = LinkLeft("parent") /\ LinkLeft("child")' = LinkLeft("child")
  BY DEF Hash, linkVars, LinkLeft
<1>2. pos \in 0 .. n /\ pos' \in 0 .. n
  BY PartsNumbers DEF IInv, Types, ParentTypes, Short
<1>3. ParentWork(n) = 10 * n + 19 + (n - pos)
  BY <1>1, <1>2, ParentLabels DEF ParentWork
<1>4. ParentWork(n)' < ParentWork(n) /\ pc'["child"] = pc["child"]
  <2>1. CASE \E c \in ChunksAt(pos) :
               hashed' = hashed \o c /\ pos' = pos + Len(c) /\ UNCHANGED pc
    <3>1. pos' > pos /\ pc' = pc
      BY <1>2, <2>1, ChunkFacts
    <3>2. ParentWork(n)' = 10 * n + 19 + (n - pos')
      BY <1>1, <1>2, <3>1, ParentLabels DEF ParentWork
    <3>3. \A i, j \in 0 .. n : j > i => 10 * n + 19 + (n - j) < 10 * n + 19 + (n - i)
      OBVIOUS
    <3> QED
      BY <1>2, <1>3, <3>1, <3>2, <3>3, Zenon
  <2>2. CASE ChunksAt(pos) = {} /\ pos' = 0 /\ Goto("parent", "Metadata") /\ UNCHANGED hashed
    <3>1. pc'["parent"] = "Metadata" /\ pc'["child"] = pc["child"]
      BY <2>2, FileFacts DEF Goto, IInv, Types, ControlTypes
    <3>2. ParentWork(n)' = 10 * n + 18
      <4>1. ParentLeft(n, "Metadata", pos', msg'["parent"].kind) = 10 * n + 18
        BY <1>2, ParentLabels
      <4> QED
        BY <3>1, <4>1 DEF ParentWork
    <3>3. \A i \in 0 .. n : 10 * n + 18 < 10 * n + 19 + (n - i)
      OBVIOUS
    <3> QED
      BY <1>2, <1>3, <3>1, <3>2, <3>3, Zenon
  <2> QED
    BY <2>1, <2>2 DEF Hash
<1>5. ChildWork' = ChildWork
  BY <1>4 DEF ChildWork
<1>6. /\ ParentWork(n)' + ChildWork' <= ParentWork(n) + ChildWork + (0-1)
      /\ LinkLeft("parent")' + (0-1) < LinkLeft("parent")
  <2>1. /\ ParentWork(n) \in Int /\ ParentWork(n)' \in Int /\ ChildWork \in Int
        /\ LinkLeft("parent") \in Int
    BY PartsNumbers, NumbersNext, FileFacts
  <2>2. \A P, Q, C, A \in Int : Q < P => Q + C <= P + C + (0-1) /\ A + (0-1) < A
    OBVIOUS
  <2> QED
    BY <1>1, <1>4, <1>5, <2>1, <2>2, Zenon
<1> QED
  BY <1>1, <1>6, FileFacts, OneLinkShrinks

\* A SEND costs seven, and what posts it pays eight.
LEMMA PostShrinks ==
  ASSUME IInv, IInv', NEW n \in Nat, Short(n), Short(n)', NEW p \in Ends, NEW m,
         Posts(p, m), changes' = changes,
         \/ pc'["child"] = pc["child"] /\ ParentWork(n)' + 8 <= ParentWork(n)
         \/ ParentWork(n)' = ParentWork(n) /\ ChildWork' + 8 <= ChildWork
  PROVE  Shrinks(n)
<1>1. /\ tx'[p] = "wire" /\ tx'[Peer(p)] = tx[Peer(p)]
      /\ rx' = rx /\ cq' = cq /\ pending' = pending /\ Peer(p) \in Ends
  BY FileFacts DEF Posts, IInv, Types, LinkTypes
<1>2. LinkLeft(Peer(p))' = LinkLeft(Peer(p))
  BY <1>1 DEF LinkLeft
<1>3. LinkLeft(p)' + (0-8) < LinkLeft(p)
  <2> DEFINE s == SendLeft(tx[p])  r == rx[p]  c == Len(cq[p])  d == Len(pending[p])
  <2>1. s \in Nat /\ r \in Nat /\ c \in Nat /\ d \in Nat
    BY PartsNumbers
  <2>2. LinkLeft(p) = s + r + 5 * c + 4 * d /\ LinkLeft(p)' = 7 + r + 5 * c + 4 * d
    BY <1>1, SendPlaces DEF LinkLeft
  <2> HIDE DEF s, r, c, d
  <2> QED
    BY <2>1, <2>2
<1>4. ParentWork(n)' + ChildWork' <= ParentWork(n) + ChildWork + (0-8)
  <2>1. \/ ChildWork' = ChildWork /\ ParentWork(n)' + 8 <= ParentWork(n)
        \/ ParentWork(n)' = ParentWork(n) /\ ChildWork' + 8 <= ChildWork
    BY DEF ChildWork
  <2>2. /\ ParentWork(n) \in Int /\ ParentWork(n)' \in Int
        /\ ChildWork \in Int /\ ChildWork' \in Int
    BY PartsNumbers, NumbersNext
  <2>3. \A P, Q, C, D \in Int :
          \/ D = C /\ Q + 8 <= P
          \/ Q = P /\ D + 8 <= C
          => Q + D <= P + C + (0-8)
    OBVIOUS
  <2> QED
    BY <2>1, <2>2, <2>3, Zenon
<1> QED
  BY <1>2, <1>3, <1>4, OneLinkShrinks

\* Metadata, Data and End.
LEMMA SendShrinks ==
  ASSUME IInv, IInv', NEW n \in Nat, NoLonger(n), Short(n), Short(n)',
         SendMetadata \/ SendData
  PROVE  Shrinks(n)
<1>1. /\ changes' = changes /\ pc'["parent"] = "Drain" /\ pc'["child"] = pc["child"]
  BY FileFacts DEF SendMetadata, SendData, Goto, IInv, Types, ControlTypes
<1>2. pos \in 0 .. n /\ pos' \in 0 .. n
  BY PartsNumbers DEF IInv, Types, ParentTypes, Short
<1>3. CASE SendMetadata
  <2> DEFINE m == Message("Metadata", 0, hashed)
  <2>1. Posts("parent", m) /\ msg'["parent"] = m /\ m.kind = "Metadata"
        /\ pc["parent"] = "Metadata"
    BY <1>3, FileFacts DEF SendMetadata, Posts, Message, IInv, Types, LinkTypes
  <2>2. ParentWork(n) = 10 * n + 18 /\ ParentWork(n)' = 10 * (n - pos') + 10
    <3>1. ParentLeft(n, "Drain", pos', m.kind) = 10 * (n - pos') + 10
      BY <1>2, <2>1, ParentLabels
    <3>2. ParentLeft(n, "Metadata", pos, msg["parent"].kind) = 10 * n + 18
      BY <1>2, ParentLabels
    <3> QED
      BY <1>1, <2>1, <3>1, <3>2 DEF ParentWork
  <2>3. ParentWork(n)' + 8 <= ParentWork(n)
    <3>1. \A i \in 0 .. n : 10 * (n - i) + 10 + 8 <= 10 * n + 18
      OBVIOUS
    <3> QED
      BY <1>2, <2>2, <3>1, Zenon
  <2> HIDE DEF m
  <2> QED
    BY <1>1, <2>1, <2>3, FileFacts, PostShrinks
<1>4. CASE SendData
  <2>0. pc["parent"] = "Read" /\ ParentWork(n) = 10 * (n - pos) + 9
    <3>1. ParentLeft(n, "Read", pos, msg["parent"].kind) = 10 * (n - pos) + 9
      BY <1>2, ParentLabels
    <3> QED
      BY <1>4, <3>1 DEF ParentWork, SendData
  <2>1. ASSUME NEW c \in ChunksAt(pos), Posts("parent", Message("Data", sequence, c)),
               pos' = pos + Len(c)
        PROVE  Shrinks(n)
    <3> DEFINE m == Message("Data", sequence, c)
    <3>1. msg'["parent"] = m /\ m.kind = "Data"
      BY <2>1, FileFacts DEF Posts, Message, IInv, Types, LinkTypes
    <3>2. ParentWork(n)' = 10 * (n - pos') + 10
      <4>1. ParentLeft(n, "Drain", pos', m.kind) = 10 * (n - pos') + 10
        BY <1>2, <3>1, ParentLabels
      <4> QED
        BY <1>1, <3>1, <4>1 DEF ParentWork
    <3>3. ParentWork(n)' + 8 <= ParentWork(n)
      BY <1>2, <2>0, <2>1, <3>2, ChunkFacts
    <3> HIDE DEF m
    <3> QED
      BY <1>1, <2>1, <3>3, FileFacts, PostShrinks
  <2>2. ASSUME Posts("parent", EndMessage) PROVE Shrinks(n)
    <3>1. msg'["parent"] = EndMessage /\ EndMessage.kind = "End"
      BY <2>2, FileFacts DEF Posts, Message, EndMessage, IInv, Types, LinkTypes
    <3>2. ParentWork(n)' = 1
      BY <1>1, <1>2, <3>1, ParentLabels DEF ParentWork
    <3>3. ParentWork(n)' + 8 <= ParentWork(n)
      BY <1>2, <2>0, <3>2
    <3> QED
      BY <1>1, <2>2, <3>3, FileFacts, PostShrinks
  <2> QED
    BY <1>4, <2>1, <2>2 DEF SendData
<1> QED
  BY <1>3, <1>4

\* Drain takes the report of the SEND.
LEMMA DrainShrinks ==
  ASSUME IInv, IInv', Places, NEW n \in Nat, Short(n), Drain
  PROVE  Shrinks(n)
<1>0. /\ pc["parent"] = "Drain" /\ changes' = changes /\ pos' = pos /\ msg' = msg
      /\ "parent" \in Ends /\ "Failed" \in Over /\ "Drain" \notin Over
  BY FileFacts DEF Drain, Over, linkVars
<1>1. CASE Fails("parent") /\ UNCHANGED linkVars
  BY <1>0, <1>1, EndShrinks DEF Fails, Goto
<1>2. CASE /\ tx["parent"] = "completed" /\ tx' = [tx EXCEPT !["parent"] = "none"]
           /\ Goto("parent", IF msg["parent"].kind = "End" THEN "Done" ELSE "Read")
           /\ UNCHANGED <<rx, cq, pending>>
  <2>1. /\ tx'["parent"] = "none" /\ tx'["child"] = tx["child"]
        /\ pc'["parent"] = (IF msg["parent"].kind = "End" THEN "Done" ELSE "Read")
        /\ pc'["child"] = pc["child"]
    BY <1>2, FileFacts DEF Goto, IInv, Types, LinkTypes, ControlTypes
  <2>2. LinkLeft("child")' = LinkLeft("child")
    BY <1>2, <2>1 DEF LinkLeft
  <2>3. LinkLeft("parent")' + 0 < LinkLeft("parent")
    <3> DEFINE r == rx["parent"]  c == Len(cq["parent"])  d == Len(pending["parent"])
    <3>1. r \in Nat /\ c \in Nat /\ d \in Nat
      BY PartsNumbers, FileFacts
    <3>2. /\ LinkLeft("parent") = 1 + r + 5 * c + 4 * d
          /\ LinkLeft("parent")' = 0 + r + 5 * c + 4 * d
      BY <1>2, <2>1, SendPlaces DEF LinkLeft
    <3> HIDE DEF r, c, d
    <3> QED
      BY <3>1, <3>2
  <2>4. ParentWork(n)' <= ParentWork(n)
    <3>1. pos \in 0 .. n
      BY PartsNumbers
    <3>2. ParentLeft(n, pc'["parent"], pos, msg["parent"].kind)
            <= ParentLeft(n, "Drain", pos, msg["parent"].kind)
      <4>1. CASE msg["parent"].kind = "End"
        <5>1. /\ ParentLeft(n, "Drain", pos, msg["parent"].kind) = 1
              /\ ParentLeft(n, "Done", pos, msg["parent"].kind) = 0
          BY <3>1, <4>1, ParentLabels DEF Over
        <5> QED
          BY <2>1, <4>1, <5>1
      <4>2. CASE msg["parent"].kind # "End"
        <5>1. /\ ParentLeft(n, "Drain", pos, msg["parent"].kind) = 10 * (n - pos) + 10
              /\ ParentLeft(n, "Read", pos, msg["parent"].kind) = 10 * (n - pos) + 9
          BY <3>1, <4>2, ParentLabels
        <5>2. \A i \in 0 .. n : 10 * (n - i) + 9 <= 10 * (n - i) + 10
          OBVIOUS
        <5> QED
          BY <2>1, <3>1, <4>2, <5>1, <5>2, Zenon
      <4> QED
        BY <4>1, <4>2
    <3> QED
      BY <1>0, <3>2 DEF ParentWork
  <2>5. Short(n)' /\ ParentWork(n)' + ChildWork' <= ParentWork(n) + ChildWork + 0
    <3>1. Short(n)' /\ ChildWork' = ChildWork
      BY <1>0, <2>1 DEF Short, ChildWork
    <3>2. ParentWork(n) \in Int /\ ParentWork(n)' \in Int /\ ChildWork \in Int
      BY <3>1, PartsNumbers, NumbersNext
    <3> QED
      BY <2>4, <3>1, <3>2
  <2> QED
    BY <1>0, <2>2, <2>3, <2>5, FileFacts, OneLinkShrinks
<1> QED
  BY <1>1, <1>2 DEF Drain, Drained, linkVars

\* Repost puts up a RECV.
LEMMA RepostShrinks ==
  ASSUME IInv, IInv', NEW n \in Nat, Short(n), Repost
  PROVE  Shrinks(n)
<1>1. /\ pc["child"] = "Got" /\ pc'["child"] = "Accept" /\ pc'["parent"] = pc["parent"]
      /\ UNCHANGED <<changes, pos, msg, tx, cq, pending>> /\ rx'["parent"] = rx["parent"]
      /\ rx'["child"] <= rx["child"] + 1
  <2>1. rx'["child"] = rx["child"] + Reposts(current["child"].kind) /\ rx["child"] \in 0 .. 1
    BY FileFacts DEF Repost, IInv, Types, LinkTypes
  <2>2. rx'["child"] <= rx["child"] + 1
    BY <2>1 DEF Reposts
  <2> QED
    BY <2>2, FileFacts DEF Repost, Goto, parentVars, IInv, Types, LinkTypes, ControlTypes
<1>2. Short(n)' /\ LinkLeft("parent")' = LinkLeft("parent") /\ ParentWork(n)' = ParentWork(n)
  BY <1>1 DEF Short, LinkLeft, ParentWork
<1>3. ChildWork = 4 /\ ChildWork' = 2
  BY <1>1, ChildLabels DEF ChildWork
<1>4. LinkLeft("child")' + (0-2) < LinkLeft("child")
  <2> DEFINE s == SendLeft(tx["child"])  c == Len(cq["child"])  d == Len(pending["child"])
             r == rx["child"]  r2 == rx'["child"]
  <2>1. s \in Nat /\ c \in Nat /\ d \in Nat /\ r \in Nat /\ r2 \in Nat /\ r2 <= r + 1
    <3>1. r2 \in 0 .. 1
      BY FileFacts DEF IInv, Types, LinkTypes
    <3>2. s \in Nat /\ c \in Nat /\ d \in Nat /\ r \in Nat
      BY PartsNumbers, FileFacts, Zenon
    <3>3. r2 <= r + 1
      BY <1>1
    <3> HIDE DEF s, c, d, r, r2
    <3> QED
      BY <3>1, <3>2, <3>3
  <2>2. LinkLeft("child") = s + r + 5 * c + 4 * d /\ LinkLeft("child")' = s + r2 + 5 * c + 4 * d
    BY <1>1 DEF LinkLeft
  <2> HIDE DEF s, c, d, r, r2
  <2> QED
    BY <2>1, <2>2
<1>5. ParentWork(n)' + ChildWork' <= ParentWork(n) + ChildWork + (0-2)
  BY <1>2, <1>3, PartsNumbers
<1> QED
  BY <1>1, <1>2, <1>4, <1>5, FileFacts, OneLinkShrinks

\* Accept and the other steps of the child that only move it, and SendRequest.
LEMMA ChildShrinks ==
  ASSUME IInv, IInv', NEW n \in Nat, Short(n), SendRequest \/ CreateOutput \/ Accept \/ Flush
  PROVE  Shrinks(n)
<1>1. CASE SendRequest
  <2> DEFINE m == Message("Request", 0, <<>>)
  <2>1. /\ Posts("child", m) /\ pc["child"] = "Request" /\ pc'["child"] = "Create"
        /\ pc'["parent"] = pc["parent"] /\ changes' = changes /\ pos' = pos
        /\ msg'["parent"] = msg["parent"]
    BY <1>1, FileFacts DEF SendRequest, Posts, Goto, parentVars, IInv, Types, LinkTypes,
       ControlTypes
  <2>2. Short(n)' /\ ParentWork(n)' = ParentWork(n)
    BY <2>1 DEF Short, ParentWork
  <2>3. ChildWork' + 8 <= ChildWork
    BY <2>1, ChildLabels DEF ChildWork
  <2> HIDE DEF m
  <2> QED
    BY <2>1, <2>2, <2>3, FileFacts, PostShrinks
<1>2. CASE CreateOutput
  <2>1. Goto("child", "Wait") /\ UNCHANGED <<changes, pos, linkVars>> /\ pc["child"] = "Create"
    BY <1>2 DEF CreateOutput, parentVars
  <2>2. ChildLeft("Wait") < ChildWork
    BY <2>1, ChildLabels DEF ChildWork
  <2> QED
    BY <2>1, <2>2, ChildMoveShrinks
<1>3. CASE Flush
  <2>1. Goto("child", "Done") /\ UNCHANGED <<changes, pos, linkVars>> /\ pc["child"] = "Flush"
    BY <1>3 DEF Flush, parentVars
  <2>2. ChildLeft("Done") < ChildWork
    BY <2>1, ChildLabels DEF ChildWork, Over
  <2> QED
    BY <2>1, <2>2, ChildMoveShrinks
<1>4. CASE Accept
  <2>1. PICK l \in {"Wait", "Failed", "Flush", "Refused"} :
          Goto("child", l) /\ UNCHANGED <<changes, pos, linkVars>> /\ pc["child"] = "Accept"
    BY <1>4 DEF Accept, AcceptMetadata, AcceptData, AcceptEnd, Refuse, Fails, parentVars
  <2>2. ChildLeft(l) < ChildWork
    BY <2>1, ChildLabels DEF ChildWork, Over
  <2> QED
    BY <2>1, <2>2, ChildMoveShrinks
<1> QED
  BY <1>1, <1>2, <1>3, <1>4

\* TakeRequest.
LEMMA TakeShrinks ==
  ASSUME IInv, IInv', NEW n \in Nat, Short(n), TakeRequest
  PROVE  Shrinks(n)
<1>1. PICK l \in {"Hash", "Failed"} :
        Goto("parent", l) /\ UNCHANGED <<changes, pos, linkVars>> /\ pc["parent"] = "Got"
  BY DEF TakeRequest, parentVars
<1>2. pos \in 0 .. n /\ pos \in Nat
  BY PartsNumbers
<1>3. ParentWork(n) = 11 * n + 20
  BY <1>1, <1>2, ParentLabels DEF ParentWork
<1>4. ParentLeft(n, l, pos, msg["parent"].kind) \in {10 * n + 19 + (n - pos), 0}
  BY <1>1, <1>2, ParentLabels DEF Over
<1>5. \A i \in 0 .. n : 10 * n + 19 + (n - i) < 11 * n + 20 /\ 0 < 11 * n + 20
  OBVIOUS
<1> QED
  BY <1>1, <1>2, <1>3, <1>4, <1>5, ParentMoveShrinks

\* The provider reports or gives up, and a program that is over leaves.
LEMMA SendStateShrinks ==
  ASSUME IInv, IInv', NEW n \in Nat, Short(n), NEW p \in Ends,
         CompleteSend(p) \/ RetriesExceeded(p) \/ Leave(p)
  PROVE  Shrinks(n)
<1>1. /\ UNCHANGED <<changes, pos, pc, msg, cq, pending>>
      /\ tx'[Peer(p)] = tx[Peer(p)] /\ rx'[Peer(p)] = rx[Peer(p)]
  BY FileFacts DEF CompleteSend, RetriesExceeded, Leave, parentVars, IInv, Types, LinkTypes
<1>2. /\ Short(n)' /\ LinkLeft(Peer(p))' = LinkLeft(Peer(p))
      /\ ParentWork(n)' = ParentWork(n) /\ ChildWork' = ChildWork
  BY <1>1 DEF Short, LinkLeft, ParentWork, ChildWork
<1>3. SendLeft(tx[p])' + rx'[p] < SendLeft(tx[p]) + rx[p] /\ rx'[p] \in Nat
  <2>1. rx[p] \in 0 .. 1 /\ SendLeft(tx[p]) \in Nat
    BY PartsNumbers DEF IInv, Types, LinkTypes
  <2>2. CASE CompleteSend(p)
    <3>1. tx[p] = "acked" /\ tx'[p] = "completed" /\ rx'[p] = rx[p]
      BY <2>2 DEF CompleteSend, IInv, Types, LinkTypes
    <3> QED
      BY <2>1, <3>1, SendPlaces
  <2>3. CASE RetriesExceeded(p)
    <3>1. tx[p] = "wire" /\ tx'[p] = "error" /\ rx'[p] = rx[p]
      BY <2>3 DEF RetriesExceeded, IInv, Types, LinkTypes
    <3> QED
      BY <2>1, <3>1, SendPlaces
  <2>4. CASE Leave(p)
    <3>1. tx'[p] = "none" /\ rx'[p] = 0 /\ (rx[p] # 0 \/ tx[p] # "none")
      BY <2>4 DEF Leave, IInv, Types, LinkTypes
    <3>2. tx[p] # "none" => SendLeft(tx[p]) > 0
      <4>1. tx[p] \in {"none", "wire", "acked", "completed", "error"}
        BY DEF IInv, Types, LinkTypes
      <4> QED
        BY <4>1, SendPlaces
    <3> QED
      BY <2>1, <3>1, <3>2, SendPlaces
  <2> QED
    BY <2>2, <2>3, <2>4
<1>4. LinkLeft(p)' + 0 < LinkLeft(p)
  <2> DEFINE s == SendLeft(tx[p])  r == rx[p]  c == Len(cq[p])  d == Len(pending[p])
             s2 == SendLeft(tx[p])'  r2 == rx'[p]
  <2>1. s \in Nat /\ r \in Nat /\ c \in Nat /\ d \in Nat /\ s2 \in Nat /\ r2 \in Nat /\ s2 + r2 < s + r
    <3>1. s2 \in Nat
      BY DEF SendLeft
    <3> QED
      BY <1>3, <3>1, PartsNumbers
  <2>2. LinkLeft(p) = s + r + 5 * c + 4 * d /\ LinkLeft(p)' = s2 + r2 + 5 * c + 4 * d
    BY <1>1 DEF LinkLeft
  <2> HIDE DEF s, r, c, d, s2, r2
  <2> QED
    BY <2>1, <2>2
<1>5. ParentWork(n)' + ChildWork' <= ParentWork(n) + ChildWork + 0
  BY <1>2, PartsNumbers
<1> QED
  BY <1>1, <1>2, <1>4, <1>5, OneLinkShrinks

\* A message costs its receiver less than its way.
LEMMA DeliverShrinks ==
  ASSUME IInv, IInv', NEW n \in Nat, Short(n), NEW p \in Ends, Deliver(p)
  PROVE  Shrinks(n)
<1> DEFINE o == Peer(p)
<1>1. /\ UNCHANGED <<changes, pos, pc, msg, pending>> /\ o \in Ends /\ o # p
      /\ tx[p] = "wire" /\ tx'[p] = "acked" /\ tx'[o] = tx[o]
      /\ rx'[p] = rx[p] /\ rx'[o] = rx[o] - 1 /\ cq'[p] = cq[p] /\ cq'[o] = Append(cq[o], msg[p])
  BY FileFacts DEF Deliver, parentVars, IInv, Types, LinkTypes
<1>2. Short(n)' /\ ParentWork(n)' = ParentWork(n) /\ ChildWork' = ChildWork
  BY <1>1 DEF Short, ParentWork, ChildWork
<1>3. LinkLeft(p)' = LinkLeft(p) - 5
  <2> DEFINE r == rx[p]  c == Len(cq[p])  d == Len(pending[p])
  <2>1. r \in Nat /\ c \in Nat /\ d \in Nat
    BY PartsNumbers
  <2>2. LinkLeft(p) = 7 + r + 5 * c + 4 * d /\ LinkLeft(p)' = 2 + r + 5 * c + 4 * d
    BY <1>1, SendPlaces DEF LinkLeft
  <2> HIDE DEF r, c, d
  <2> QED
    BY <2>1, <2>2
<1>4. LinkLeft(o)' = LinkLeft(o) + 4
  <2> DEFINE s == SendLeft(tx[o])  r == rx[o]  c == Len(cq[o])  d == Len(pending[o])
             r2 == rx'[o]  c2 == Len(cq'[o])
  <2>1. s \in Nat /\ r \in Nat /\ c \in Nat /\ d \in Nat
    BY <1>1, PartsNumbers
  <2>2. c2 = c + 1 /\ r2 = r - 1
    <3>1. cq[o] \in Seq(Messages) /\ msg[p] \in Messages
      BY <1>1 DEF IInv, Types, LinkTypes
    <3>2. Len(Append(cq[o], msg[p])) = Len(cq[o]) + 1
      BY <3>1, AppendProperties
    <3> QED
      BY <1>1, <3>2
  <2>3. LinkLeft(o) = s + r + 5 * c + 4 * d /\ LinkLeft(o)' = s + r2 + 5 * c2 + 4 * d
    BY <1>1 DEF LinkLeft
  <2> HIDE DEF s, r, c, d, r2, c2
  <2> QED
    BY <2>1, <2>2, <2>3
<1>5. LinkLeft("parent")' + LinkLeft("child")' = LinkLeft("parent") + LinkLeft("child") - 1
  <2>1. LinkLeft("parent") \in Int /\ LinkLeft("child") \in Int
    BY PartsNumbers, FileFacts
  <2>2. CASE p = "parent"
    BY <1>3, <1>4, <2>1, <2>2, FileFacts
  <2>3. CASE p = "child"
    BY <1>3, <1>4, <2>1, <2>3, FileFacts
  <2> QED
    BY <2>2, <2>3, FileFacts
<1>6. /\ ParentWork(n) \in Int /\ ChildWork \in Int
      /\ LinkLeft("parent") \in Int /\ LinkLeft("child") \in Int
      /\ LinkLeft("parent")' \in Int /\ LinkLeft("child")' \in Int
  BY <1>2, PartsNumbers, NumbersNext, FileFacts
<1>7. ParentWork(n)' + ChildWork' + LinkLeft("parent")' + LinkLeft("child")'
        < ParentWork(n) + ChildWork + LinkLeft("parent") + LinkLeft("child")
  BY <1>2, <1>5, <1>6
<1> QED
  BY <1>1, <1>2, <1>7, SumShrinks

\* The rewrites are counted.
LEMMA RewriteShrinks ==
  ASSUME IInv, IInv', NEW n \in Nat, Short(n), Rewrite
  PROVE  Shrinks(n)
<1>1. changes' = changes + 1 /\ UNCHANGED <<pos, pc, linkVars>>
  BY DEF Rewrite, parentVars
<1>2. /\ Short(n)' /\ ParentWork(n)' = ParentWork(n) /\ ChildWork' = ChildWork
      /\ LinkLeft("parent")' = LinkLeft("parent") /\ LinkLeft("child")' = LinkLeft("child")
  BY <1>1 DEF Short, ParentWork, ChildWork, LinkLeft, linkVars
<1> QED
  BY <1>1, <1>2, SumShrinks

\* Every step.
LEMMA StepShrinks ==
  ASSUME NEW n \in Nat, NoLonger(n)
  PROVE  IInv /\ IInv' /\ Places /\ Short(n) /\ Short(n)' /\ [Next]_vars => [Shrinks(n)]_vars
<1> SUFFICES ASSUME IInv, IInv', Places, Short(n), Short(n)', Next, vars' # vars
             PROVE  Shrinks(n)
  OBVIOUS
<1>1. CASE ParentStep
  BY <1>1, WaitShrinks, DrainShrinks, TakeShrinks, HashShrinks, SendShrinks, FileFacts
     DEF ParentStep
<1>2. CASE ChildStep
  BY <1>2, WaitShrinks, RepostShrinks, ChildShrinks, FileFacts DEF ChildStep
<1>3. CASE CallFails
  <2>1. PICK p \in Ends, fault \in {"io", "post"},
             labels \in SUBSET {"Hash", "Read", "Create", "Flush", "Metadata", "Request", "Got"} :
          FailsBy(p, fault, labels)
    <3>1. \/ FailsBy("parent", "io", {"Hash", "Read"}) \/ FailsBy("child", "io", {"Create", "Flush"})
          \/ FailsBy("parent", "post", {"Metadata", "Read"})
          \/ FailsBy("child", "post", {"Request"}) \/ FailsBy("child", "post", {"Got"})
      BY <1>3 DEF CallFails
    <3> QED
      BY <3>1, FileFacts
  <2>2. labels \intersect Over = {}
    BY DEF Over
  <2> QED
    BY <2>1, <2>2, FailsShrinks
<1>4. ASSUME NEW p \in Ends, TimesOut(p) PROVE Shrinks(n)
  <2>1. FailsBy(p, "timeout", {"Wait", "Drain"}) /\ {"Wait", "Drain"} \intersect Over = {}
    BY <1>4 DEF TimesOut, Over
  <2> QED
    BY <2>1, FailsShrinks
<1>5. ASSUME NEW p \in Ends, RetriesExceeded(p) \/ Leave(p) \/ CompleteSend(p) PROVE Shrinks(n)
  BY <1>5, SendStateShrinks
<1>6. ASSUME NEW p \in Ends, Deliver(p) PROVE Shrinks(n)
  BY <1>6, DeliverShrinks
<1>7. CASE Rewrite
  BY <1>7, RewriteShrinks
<1> QED
  BY <1>1, <1>2, <1>3, <1>4, <1>5, <1>6, <1>7 DEF Next, Network

\* The file mode of both programs, the provider and whoever rewrites the file: for files
\* of a bounded length, every step that changes anything lowers a natural number, whatever
\* fails.  No behaviour goes on for ever; that it does not stop too early is NoStandoff.
THEOREM BoundedWork ==
  ASSUME NEW n \in Nat, NoLonger(n)
  PROVE  Spec => [](WorkLeft(n) \in Nat) /\ [][Shrinks(n)]_vars
<1>1. Init => Short(n)
  BY DEF Init, Short
<1>2. IInv /\ Short(n) => WorkLeft(n) \in Nat
  BY PartsNumbers
<1> QED
  BY <1>1, <1>2, InitInv, StepInv, InitPlaces, StepPlaces, ShortStep, StepShrinks, PTL DEF Spec

\* The number to start with: eleven for each block of the longest file.
THEOREM WorkAtFirst ==
  ASSUME NEW n \in Nat PROVE Init => WorkLeft(n) = MaxChanges + 11 * n + 33
<1> SUFFICES ASSUME Init PROVE WorkLeft(n) = MaxChanges + 11 * n + 33
  OBVIOUS
<1>1. ParentWork(n) = 11 * n + 21
  BY FileFacts DEF Init, ParentWork, ParentLeft
<1>2. ChildWork = 10 /\ changes = 0
  BY FileFacts, ChildLabels DEF Init, ChildWork
<1>3. LinkLeft("parent") = 1 /\ LinkLeft("child") = 1
  <2>1. \A p \in Ends : /\ Len(cq[p]) = 0 /\ Len(pending[p]) = 0 /\ rx[p] = 1
                        /\ SendLeft(tx[p]) = 0
    BY EmptySeq, SendPlaces DEF Init
  <2> QED
    BY <2>1, FileFacts DEF LinkLeft
<1>4. WorkLeft(n) = (MaxChanges - 0) + (11 * n + 21) + 10 + 1 + 1
  BY <1>1, <1>2, <1>3, Zenon DEF WorkLeft
<1>5. \A m \in Nat : (m - 0) + (11 * n + 21) + 10 + 1 + 1 = m + 11 * n + 33
  OBVIOUS
<1> QED
  BY <1>4, <1>5, FileFacts

=============================================================================
