---- MODULE WireProofs ----
(***************************************************************************)
(* What holds of the wire forms of WireMessages for every frame, message,  *)
(* payload limit, digest length and range of checksums.                    *)
(***************************************************************************)
EXTENDS WireMessages, SequenceTheorems, TLAPS

Versions == {2, 3}

-----------------------------------------------------------------------------
\* Sequences, cut and joined.

\* A sequence is its first k elements and the rest.
LEMMA Join ==
  ASSUME NEW f \in Seq(Nat), NEW k \in 0 .. Len(f)
  PROVE  /\ SubSeq(f, 1, k) \in Seq(Nat) /\ Len(SubSeq(f, 1, k)) = k
         /\ SubSeq(f, k + 1, Len(f)) \in Seq(Nat)
         /\ Len(SubSeq(f, k + 1, Len(f))) = Len(f) - k
         /\ \A i \in 1 .. Len(f) - k : SubSeq(f, k + 1, Len(f))[i] = f[k + i]
         /\ SubSeq(f, 1, k) \o SubSeq(f, k + 1, Len(f)) = f
<1>1. Len(f) \in Nat /\ \A i \in 1 .. Len(f) : f[i] \in Nat
  BY LenProperties, ElementOfSeq
<1>2. SubSeq(f, 1, k) \in Seq(Nat) /\ Len(SubSeq(f, 1, k)) = k
  BY <1>1, SubSeqProperties
<1>3. /\ SubSeq(f, k + 1, Len(f)) \in Seq(Nat)
      /\ Len(SubSeq(f, k + 1, Len(f))) = Len(f) - k
      /\ \A i \in 1 .. Len(f) - k : SubSeq(f, k + 1, Len(f))[i] = f[k + i]
  BY <1>1, SubSeqProperties
<1>4. SubSeq(f, 1, k) \o SubSeq(f, k + 1, Len(f)) = SubSeq(f, 1, Len(f))
  <2>1. 1 \in 1 .. Len(f) + 1 /\ k \in 1 - 1 .. Len(f) /\ Len(f) \in k .. Len(f)
    BY <1>1
  <2> QED
    BY <2>1, ConcatAdjacentSubSeq, Zenon
<1>5. SubSeq(f, 1, Len(f)) = f
  BY SubSeqFull
<1> QED
  BY <1>2, <1>3, <1>4, <1>5

\* Two sequences joined are found again where they were.
LEMMA Cut ==
  ASSUME NEW s \in Seq(Nat), NEW t \in Seq(Nat)
  PROVE  /\ s \o t \in Seq(Nat) /\ Len(s \o t) = Len(s) + Len(t)
         /\ \A i \in 1 .. Len(s) : (s \o t)[i] = s[i]
         /\ SubSeq(s \o t, 1, Len(s)) = s
         /\ SubSeq(s \o t, Len(s) + 1, Len(s \o t)) = t
<1> DEFINE f == s \o t
           a == SubSeq(f, 1, Len(s))
           b == SubSeq(f, Len(s) + 1, Len(f))
<1>1. /\ f \in Seq(Nat) /\ Len(f) = Len(s) + Len(t)
      /\ \A i \in 1 .. Len(s) + Len(t) : f[i] = IF i <= Len(s) THEN s[i] ELSE t[i - Len(s)]
  BY ConcatProperties
<1>2. Len(s) \in Nat /\ Len(t) \in Nat
  BY LenProperties
<1> HIDE DEF f
<1>3. \A i \in 1 .. Len(s) : f[i] = s[i]
  BY <1>1, <1>2
<1>4. a = s
  <2>1. a \in Seq(Nat) /\ Len(a) = Len(s)
    BY <1>1, <1>2, Join
  <2>2. \A i \in 1 .. Len(s) : f[i] \in Nat
    BY <1>1, <1>2, ElementOfSeq
  <2>3. \A i \in 1 .. Len(s) : a[i] = f[i]
    BY <1>2, <2>2, SubSeqProperties
  <2> QED
    BY <1>3, <2>1, <2>3, SeqEqual
<1>5. b = t
  <2>1. b \in Seq(Nat) /\ Len(b) = Len(t) /\ \A i \in 1 .. Len(t) : b[i] = f[Len(s) + i]
    BY <1>1, <1>2, Join
  <2>2. ASSUME NEW i \in 1 .. Len(t)
        PROVE  f[Len(s) + i] = t[i]
    <3>1. Len(s) + i \in 1 .. Len(s) + Len(t) /\ ~(Len(s) + i <= Len(s))
          /\ (Len(s) + i) - Len(s) = i
      BY <1>2
    <3> QED
      BY <1>1, <3>1, Zenon
  <2> QED
    BY <2>1, <2>2, SeqEqual
<1> QED
  BY <1>1, <1>3, <1>4, <1>5 DEF f

-----------------------------------------------------------------------------
\* Messages.

\* The count of a text, where there is one, is the last field before it.
Count(v, m) == IF Counted(v, m.type) THEN <<Len(m.text)>> ELSE <<>>

\* Where the fields of fixed width end and the text of a payload begins.
LEMMA Layout ==
  ASSUME NEW v \in Versions, NEW type \in TypesOf(v)
  PROVE  /\ NumsOf(v, type) \in 0 .. 3
         /\ TextAt(v, type) \in Nat /\ TextAt(v, type) - 1 \in Nat
         /\ Counted(v, type) => TextAt(v, type) - 1 = NumsOf(v, type) + 1
         /\ ~Counted(v, type) => TextAt(v, type) - 1 = NumsOf(v, type)
BY DEF Versions, TypesOf, NumsOf, TextAt, Counted

\* decode reads every unit of an accepted frame: encode writes the same ones.
LEMMA DecodeEncode ==
  ASSUME NEW v \in Versions, NEW f \in Seq(Nat), Decodes(v, f)
  PROVE  Encodable(v, Decode(v, f)) /\ Encode(v, Decode(v, f)) = f
<1> DEFINE m == Decode(v, f)
           p == Rest(f)
           n == NumsOf(v, f[3])
           k == TextAt(v, f[3]) - 1
<1>1. Header(v, f) /\ Fits(v, f[3], p)
  BY DEF Decodes
<1>2. /\ f[3] \in TypesOf(v) /\ Len(f) \in Nat /\ Len(f) >= 6
      /\ f[1] = Magic /\ f[2] = v /\ f[6] <= MaxPayload /\ Len(f) = 6 + f[6]
  BY <1>1, LenProperties DEF Header, HeaderLen
<1>3. p \in Seq(Nat) /\ Len(p) = f[6] /\ f[6] \in Nat
  <2>1. HeaderLen \in 0 .. Len(f) /\ HeaderLen = 6
    BY <1>2 DEF HeaderLen
  <2>2. p \in Seq(Nat) /\ Len(p) = Len(f) - HeaderLen
    BY <2>1, Join, Zenon DEF Rest
  <2> QED
    BY <1>2, <2>1, <2>2, LenProperties
<1>4. /\ n \in 0 .. 3 /\ k \in Nat /\ Len(p) >= k
      /\ Counted(v, f[3]) => k = n + 1 /\ Len(p) = k + p[k] /\ p[k] # 0
      /\ ~Counted(v, f[3]) => k = n
  BY <1>1, <1>2, Layout DEF Fits
<1>5. /\ m.type = f[3] /\ m.request_id = f[4] /\ m.sequence = f[5]
      /\ m.nums = SubSeq(p, 1, n) /\ m.text = SubSeq(p, k + 1, Len(p))
  <2>1. k + 1 = TextAt(v, f[3])
    BY <1>2, Layout
  <2> QED
    BY <2>1 DEF Decode, Text
<1> HIDE DEF m, p, n, k
<1>6. k \in 0 .. Len(p) /\ Len(m.text) = Len(p) - k
  <2>1. k \in 0 .. Len(p)
    BY <1>3, <1>4
  <2> QED
    BY <1>3, <1>5, <2>1, Join, Zenon
<1>7. Count(v, m) = SubSeq(p, n + 1, k)
  <2>1. CASE Counted(v, f[3])
    <3>0. k \in 1 .. Len(p) /\ k \in Nat
      BY <1>3, <1>4, <2>1
    <3>1. \A i \in k .. k : p[i] \in Nat
      <4>1. p[k] \in Nat
        BY <1>3, <3>0, ElementOfSeq, Zenon
      <4> QED
        BY <3>0, <4>1
    <3>2. /\ SubSeq(p, k, k) \in Seq(Nat) /\ Len(SubSeq(p, k, k)) = 1
          /\ SubSeq(p, k, k)[1] = p[k]
      BY <1>4, <3>1, SubSeqProperties
    <3>3. p[k] = Len(m.text) /\ p[k] \in Nat
      BY <1>3, <1>4, <1>6, <2>1, <3>1
    <3>4. SubSeq(p, k, k) = <<p[k]>>
      <4>1. /\ <<p[k]>> \in Seq(Nat) /\ Len(<<p[k]>>) = 1 /\ <<p[k]>>[1] = p[k]
        BY <3>3
      <4>2. \A i \in 1 .. 1 : SubSeq(p, k, k)[i] = <<p[k]>>[i]
        BY <3>2, <4>1
      <4> QED
        BY <3>2, <4>1, <4>2, SeqEqual, Zenon
    <3> QED
      BY <1>4, <1>5, <2>1, <3>3, <3>4 DEF Count
  <2>2. CASE ~Counted(v, f[3])
    BY <1>4, <1>5, <2>2, SubSeqEmpty DEF Count
  <2> QED
    BY <2>1, <2>2
<1>8. Payload(v, m) = p
  <2>1. SubSeq(p, 1, n) \o SubSeq(p, n + 1, k) = SubSeq(p, 1, k)
    <3>1. n \in Nat /\ k \in Nat /\ n <= k /\ k <= Len(p) /\ Len(p) \in Nat
      BY <1>3, <1>4
    <3>2. 1 \in 1 .. Len(p) + 1 /\ n \in 1 - 1 .. Len(p) /\ k \in n .. Len(p)
      BY <3>1
    <3> QED
      BY <1>3, <3>2, ConcatAdjacentSubSeq, Zenon
  <2>2. SubSeq(p, 1, k) \o SubSeq(p, k + 1, Len(p)) = p
    BY <1>3, <1>6, Join, Zenon
  <2> QED
    BY <1>5, <1>7, <2>1, <2>2 DEF Payload, Count
<1>9. Encode(v, m) = f
  <2> DEFINE h == <<Magic, v, m.type, m.request_id, m.sequence, Len(p)>>
             g == SubSeq(f, 1, 6)
  <2>1. \A i \in 1 .. 6 : f[i] \in Nat
    BY <1>2, ElementOfSeq
  <2>2. g \in Seq(Nat) /\ Len(g) = 6 /\ \A i \in 1 .. 6 : g[i] = f[i]
    BY <2>1, SubSeqProperties
  <2>3. h \in Seq(Nat) /\ Len(h) = 6 /\ \A i \in 1 .. 6 : h[i] = f[i]
    BY <1>2, <1>3, <1>5, <2>1
  <2>4. h = g
    BY <2>2, <2>3, SeqEqual
  <2>5. g \o p = f
    BY <1>2, Join DEF p, Rest, HeaderLen
  <2> QED
    BY <1>8, <2>4, <2>5 DEF Encode
<1>10. Encodable(v, m)
  <2>1. v = 3 => ValidCommon(m)
    BY DEF Decodes, m
  <2>2. Len(Payload(v, m)) <= MaxPayload
    BY <1>2, <1>3, <1>8
  <2>3. ASSUME m.type \in {Request, Data, Error}, v = 2
        PROVE  m.text # <<>>
    <3>1. Len(p) > k
      <4>1. CASE f[3] = Request
        BY <1>3, <1>4, <4>1, ElementOfSeq DEF Counted
      <4>2. CASE f[3] = Error
        BY <1>1, <4>2 DEF Fits, k
      <4>3. CASE f[3] = Data
        <5>1. p # <<>> /\ ~Counted(v, f[3]) /\ n = 0
          BY <2>3, <4>3 DEF Decodes, p, n, Counted, NumsOf, Request, Metadata, Data, End, Error
        <5> QED
          BY <1>3, <1>4, <5>1, EmptySeq
      <4> QED
        BY <1>5, <2>3, <4>1, <4>2, <4>3
    <3> QED
      BY <1>3, <1>6, <3>1, EmptySeq
  <2> QED
    BY <2>1, <2>2, <2>3 DEF Encodable, Versions
<1> QED
  BY <1>9, <1>10 DEF m

\* A message as its types allow it, with natural numbers for its fields.
WellFormed(v, m) ==
  /\ m = [type |-> m.type, request_id |-> m.request_id, sequence |-> m.sequence,
          nums |-> m.nums, text |-> m.text]
  /\ m.request_id \in Nat /\ m.sequence \in Nat
  /\ m.nums \in Seq(Nat) /\ m.text \in Seq(Nat)
  /\ Holds(v, m)

\* The layout of a payload, and what its fields are.
LEMMA PayloadFields ==
  ASSUME NEW v \in Versions, NEW m, WellFormed(v, m)
  PROVE  LET p == Payload(v, m)
             k == TextAt(v, m.type) - 1
         IN  /\ p \in Seq(Nat) /\ Len(p) = k + Len(m.text)
             /\ SubSeq(p, 1, NumsOf(v, m.type)) = m.nums
             /\ SubSeq(p, TextAt(v, m.type), Len(p)) = m.text
             /\ \A i \in 1 .. NumsOf(v, m.type) : p[i] = m.nums[i]
             /\ Counted(v, m.type) => p[k] = Len(m.text)
<1> DEFINE n == NumsOf(v, m.type)
           k == TextAt(v, m.type) - 1
           c == Count(v, m)
           a == m.nums \o c
           p == Payload(v, m)
<1>1. /\ m.nums \in Seq(Nat) /\ m.text \in Seq(Nat) /\ Len(m.nums) = n
      /\ Len(m.text) \in Nat /\ m.type \in TypesOf(v)
  BY LenProperties DEF WellFormed, Holds
<1>2. /\ n \in 0 .. 3 /\ k \in Nat /\ k + 1 = TextAt(v, m.type)
      /\ Counted(v, m.type) => k = n + 1
      /\ ~Counted(v, m.type) => k = n
  BY <1>1, Layout
<1>3. c \in Seq(Nat) /\ n + Len(c) = k
  <2>1. CASE Counted(v, m.type)
    BY <1>1, <1>2, <2>1 DEF Count
  <2>2. CASE ~Counted(v, m.type)
    BY <1>1, <1>2, <2>2 DEF Count
  <2> QED
    BY <2>1, <2>2
<1> HIDE DEF n, k, c
<1>4. /\ a \in Seq(Nat) /\ Len(a) = k
      /\ \A i \in 1 .. n : a[i] = m.nums[i]
      /\ SubSeq(a, 1, n) = m.nums /\ SubSeq(a, n + 1, k) = c
  <2>1. /\ a \in Seq(Nat) /\ Len(a) = Len(m.nums) + Len(c)
        /\ \A i \in 1 .. Len(m.nums) : a[i] = m.nums[i]
        /\ SubSeq(a, 1, Len(m.nums)) = m.nums
        /\ SubSeq(a, Len(m.nums) + 1, Len(a)) = c
    BY <1>1, <1>3, Cut, Zenon
  <2>2. Len(a) = k
    BY <1>1, <1>3, <2>1
  <2> QED
    BY <1>1, <2>1, <2>2, Zenon
<1>5. p = a \o m.text
  BY DEF Payload, c, Count
<1> HIDE DEF a, p
<1>6. /\ p \in Seq(Nat) /\ Len(p) = k + Len(m.text)
      /\ \A i \in 1 .. k : p[i] = a[i]
      /\ SubSeq(p, 1, k) = a /\ SubSeq(p, k + 1, Len(p)) = m.text
  <2>1. /\ p \in Seq(Nat) /\ Len(p) = Len(a) + Len(m.text)
        /\ \A i \in 1 .. Len(a) : p[i] = a[i]
        /\ SubSeq(p, 1, Len(a)) = a
        /\ SubSeq(p, Len(a) + 1, Len(p)) = m.text
    BY <1>1, <1>4, <1>5, Cut, Zenon
  <2> QED
    BY <1>4, <2>1, Zenon
<1>7. n \in Nat /\ n <= k /\ k <= Len(p)
  BY <1>1, <1>2, <1>6
<1>8. \A i \in 1 .. n : p[i] = m.nums[i]
  <2>1. ASSUME NEW i \in 1 .. n
        PROVE  i \in 1 .. k
    BY <1>2, <1>7
  <2> QED
    BY <1>4, <1>6, <2>1, Zenon
<1>9. SubSeq(p, 1, n) = m.nums
  <2>0. n \in 0 .. Len(p) /\ Len(p) \in Nat
    BY <1>1, <1>2, <1>6, <1>7
  <2>1. SubSeq(p, 1, n) \in Seq(Nat) /\ Len(SubSeq(p, 1, n)) = n
    BY <1>6, <2>0, Join, Zenon
  <2>2. ASSUME NEW i \in 1 .. n
        PROVE  p[i] \in Nat
    <3>1. i \in 1 .. Len(p)
      BY <2>0
    <3> QED
      BY <1>6, <3>1, ElementOfSeq, Zenon
  <2>3. \A i \in 1 .. n : SubSeq(p, 1, n)[i] = p[i]
    BY <1>7, <2>2, SubSeqProperties
  <2> QED
    BY <1>1, <1>8, <2>1, <2>3, SeqEqual
<1>10. ASSUME Counted(v, m.type)
       PROVE  p[k] = Len(m.text)
  <2>1. k = n + 1 /\ c = <<Len(m.text)>> /\ n + 1 \in 1 .. k
    BY <1>2, <1>7, <1>10 DEF c, Count
  <2>2. a[n + 1] \in Nat
    BY <1>4, <2>1, ElementOfSeq
  <2>3. SubSeq(a, n + 1, n + 1)[1] = a[n + 1]
    BY <1>2, <2>2, SubSeqProperties
  <2>4. a[n + 1] = Len(m.text)
    <3>1. SubSeq(a, n + 1, n + 1) = <<Len(m.text)>>
      BY <1>4, <2>1, Zenon
    <3>2. <<Len(m.text)>>[1] = Len(m.text)
      BY <1>1
    <3> QED
      BY <2>3, <3>1, <3>2, Zenon
  <2> QED
    BY <1>6, <2>1, <2>4
<1> QED
  BY <1>2, <1>6, <1>8, <1>9, <1>10 DEF n, k, p

\* What encode writes, decode accepts and reads back.
LEMMA EncodeDecode ==
  ASSUME NEW v \in Versions, NEW m, WellFormed(v, m), Encodable(v, m)
  PROVE  /\ Encode(v, m) \in Seq(Nat)
         /\ Decodes(v, Encode(v, m)) /\ Decode(v, Encode(v, m)) = m
<1> DEFINE t == m.type
           n == NumsOf(v, t)
           k == TextAt(v, t) - 1
           p == Payload(v, m)
           f == Encode(v, m)
           h == <<Magic, v, t, m.request_id, m.sequence, Len(p)>>
<1>1. /\ p \in Seq(Nat) /\ Len(p) = k + Len(m.text)
      /\ SubSeq(p, 1, n) = m.nums
      /\ SubSeq(p, TextAt(v, t), Len(p)) = m.text
      /\ \A i \in 1 .. n : p[i] = m.nums[i]
      /\ Counted(v, t) => p[k] = Len(m.text)
  BY PayloadFields
<1>2. /\ t \in TypesOf(v) /\ t \in Nat /\ Len(m.text) \in Nat
      /\ n \in 0 .. 3 /\ k \in Nat
  <2>1. t \in TypesOf(v) /\ Len(m.text) \in Nat
    BY LenProperties DEF WellFormed, Holds
  <2>2. t \in Nat
    BY <2>1 DEF TypesOf
  <2> QED
    BY <2>1, <2>2, Layout
<1> HIDE DEF n, k, p
<1>3. /\ h \in Seq(Nat) /\ Len(h) = 6
      /\ h[1] = Magic /\ h[2] = v /\ h[3] = t /\ h[4] = m.request_id
      /\ h[5] = m.sequence /\ h[6] = Len(p)
  BY <1>1, <1>2, LenProperties DEF Magic, Versions, WellFormed
<1>4. f = h \o p
  BY DEF Encode, p
<1> HIDE DEF h, f
<1>5. /\ f \in Seq(Nat) /\ Len(f) = 6 + Len(p)
      /\ \A i \in 1 .. 6 : f[i] = h[i]
      /\ SubSeq(f, 6 + 1, Len(f)) = p
  <2>1. /\ f \in Seq(Nat) /\ Len(f) = Len(h) + Len(p)
        /\ \A i \in 1 .. Len(h) : f[i] = h[i]
        /\ SubSeq(f, Len(h) + 1, Len(f)) = p
    BY <1>1, <1>3, <1>4, Cut, Zenon
  <2> QED
    BY <1>3, <2>1
<1>6. Rest(f) = p
  BY <1>5 DEF Rest, HeaderLen
<1>7. f[1] = Magic /\ f[2] = v /\ f[3] = t /\ f[4] = m.request_id
      /\ f[5] = m.sequence /\ f[6] = Len(p)
  BY <1>3, <1>5
<1>8. Header(v, f)
  <2>1. Len(p) <= MaxPayload
    BY DEF Encodable, p
  <2> QED
    BY <1>1, <1>2, <1>5, <1>7, <2>1 DEF Header, HeaderLen
<1>9. Text(v, t, p) = m.text
  BY <1>1 DEF Text
<1>10. Decode(v, f) = m
  BY <1>1, <1>6, <1>7, <1>9 DEF Decode, WellFormed, n
<1>11. m.text # <<>> => Len(m.text) # 0
  BY EmptySeq DEF WellFormed
<1>12. Fits(v, t, p)
  <2>1. Len(p) >= k
    BY <1>1, <1>2
  <2>2. Counted(v, t) => p[k] # 0 /\ Len(p) = k + p[k]
    <3>1. Counted(v, t) => Len(m.text) # 0
      BY <1>11
         DEF Counted, Versions, Encodable, ValidCommon, ValidDigest, Request, Data, Metadata
    <3> QED
      BY <1>1, <3>1
  <2>3. t = Error => Len(p) > k
    BY <1>1, <1>2, <1>11 DEF Encodable, ValidCommon, Versions
  <2>4. t = End => Len(p) = k
    BY <1>1, <1>2 DEF WellFormed, Holds
  <2>5. t = Metadata /\ v = 2 => Len(p) = k + DigestLen
    BY <1>1 DEF WellFormed, Holds
  <2>6. t = Metadata /\ v = 3 =>
          /\ p[k] <= MaxDigest /\ p[3] \in {Crc32, Sha256}
          /\ ValidDigest(p[3], m.text)
    <3>1. t = Metadata /\ v = 3 => n = 3 /\ Counted(v, t)
      BY DEF n, NumsOf, Counted, Metadata, Request, Error, End
    <3>2. ASSUME t = Metadata, v = 3
          PROVE  /\ p[3] = m.nums[3] /\ p[k] = Len(m.text)
                 /\ m.nums[3] \in {Crc32, Sha256} /\ ValidDigest(m.nums[3], m.text)
      <4>1. p[3] = m.nums[3] /\ p[k] = Len(m.text)
        <5>1. 3 \in 1 .. n /\ Counted(v, t)
          BY <3>1, <3>2
        <5> QED
          BY <1>1, <5>1, Zenon
      <4>2. m.nums[3] \in {Crc32, Sha256}
        BY <3>2 DEF WellFormed, Holds
      <4>3. ValidDigest(m.nums[3], m.text)
        BY <3>2 DEF Encodable, ValidCommon
      <4> QED
        BY <4>1, <4>2, <4>3
    <3>3. \A a \in {Crc32, Sha256} : ValidDigest(a, m.text) => Len(m.text) <= MaxDigest
      BY <1>2, WireAssumption DEF ValidDigest
    <3> QED
      BY <3>2, <3>3
  <2>7. IsString(v, t) => IsUtf8(m.text)
    BY DEF WellFormed, Holds
  <2> QED
    BY <1>9, <2>1, <2>2, <2>3, <2>4, <2>5, <2>6, <2>7 DEF Fits, k, Versions
<1>13. v = 2 => (t = Data => p # <<>>)
  BY <1>1, <1>2, <1>11, EmptySeq DEF Encodable
<1> QED
  BY <1>5, <1>6, <1>7, <1>8, <1>10, <1>12, <1>13 DEF Decodes, f, Encodable

-----------------------------------------------------------------------------
\* Descriptors.

\* An accepted descriptor frame is what serialize writes for the descriptor read.
LEMMA DescriptorForms ==
  ASSUME NEW f \in Seq(Nat), Deserializes(f)
  PROVE  ValidDescriptor(Deserialize(f)) /\ Serialize(Deserialize(f)) = f
<1> DEFINE g == SubSeq(f, 1, DescriptorLen)
           h == <<f[1], f[2], f[3], f[4], f[5]>>
<1>1. DescriptorLen = 5 /\ Len(f) \in Nat /\ DescriptorLen \in 0 .. Len(f)
  BY LenProperties DEF Deserializes, DescriptorLen
<1>2. \A i \in 1 .. 5 : f[i] \in Nat
  BY <1>1, ElementOfSeq
<1>3. g \in Seq(Nat) /\ Len(g) = 5 /\ \A i \in 1 .. 5 : g[i] = f[i]
  BY <1>1, <1>2, SubSeqProperties
<1>4. h \in Seq(Nat) /\ Len(h) = 5 /\ \A i \in 1 .. 5 : h[i] = f[i]
  BY <1>2
<1>5. g = h
  <2>1. Len(g) = Len(h) /\ \A i \in 1 .. Len(g) : g[i] = h[i]
    BY <1>3, <1>4
  <2> QED
    BY <1>3, <1>4, <2>1, SeqEqual, Zenon
<1>6. g \o SubSeq(f, DescriptorLen + 1, Len(f)) = f
  BY <1>1, Join, Zenon
<1>7. Serialize(Deserialize(f)) = h \o SubSeq(f, DescriptorLen + 1, Len(f))
  BY DEF Serialize, Deserialize
<1> QED
  BY <1>5, <1>6, <1>7 DEF Deserializes

Descriptors ==
  [version : Nat, transport_type : Nat, eid_index : Nat, jetty_id : Nat,
   opaque_len : Nat, opaque_data : Seq(Nat)]

\* A valid descriptor serialises to a frame that is accepted and reads as it was.
LEMMA DescriptorRead ==
  ASSUME NEW d \in Descriptors, ValidDescriptor(d)
  PROVE  /\ Serialize(d) \in Seq(Nat)
         /\ Deserializes(Serialize(d)) /\ Deserialize(Serialize(d)) = d
<1> DEFINE h == <<d.version, d.transport_type, d.eid_index, d.jetty_id, d.opaque_len>>
           o == d.opaque_data
           f == Serialize(d)
<1>1. /\ h \in Seq(Nat) /\ Len(h) = 5 /\ o \in Seq(Nat)
      /\ h[1] = d.version /\ h[2] = d.transport_type /\ h[3] = d.eid_index
      /\ h[4] = d.jetty_id /\ h[5] = d.opaque_len
  BY DEF Descriptors
<1>2. f = h \o o
  BY DEF Serialize
<1>3. d = [version |-> d.version, transport_type |-> d.transport_type,
           eid_index |-> d.eid_index, jetty_id |-> d.jetty_id,
           opaque_len |-> d.opaque_len, opaque_data |-> o]
  BY DEF Descriptors
<1> HIDE DEF h, o, f
<1>4. /\ f \in Seq(Nat) /\ Len(f) = Len(h) + Len(o)
      /\ \A i \in 1 .. Len(h) : f[i] = h[i]
      /\ SubSeq(f, Len(h) + 1, Len(f)) = o
  BY <1>1, <1>2, Cut, Zenon
<1>5. Len(h) = DescriptorLen
  BY <1>1 DEF DescriptorLen
<1>6. SubSeq(f, DescriptorLen + 1, Len(f)) = o
  BY <1>4, <1>5, Zenon
<1>7. /\ f[1] = d.version /\ f[2] = d.transport_type /\ f[3] = d.eid_index
      /\ f[4] = d.jetty_id /\ f[5] = d.opaque_len
  BY <1>1, <1>4
<1>8. Deserialize(f) = d
  BY <1>3, <1>6, <1>7 DEF Deserialize
<1>9. Len(f) >= DescriptorLen
  <2>1. Len(o) \in Nat
    BY <1>1, LenProperties
  <2>2. Len(f) = 5 + Len(o)
    BY <1>1, <1>4, Zenon
  <2> QED
    BY <2>1, <2>2 DEF DescriptorLen
<1> QED
  BY <1>4, <1>8, <1>9 DEF Deserializes, f

-----------------------------------------------------------------------------
\* The three codecs.

\* A decoder takes nothing but what its encoder writes.
LEMMA AcceptsCanonical ==
  ASSUME NEW c \in Codecs, NEW f \in Seq(Nat), Accepts(c, f)
  PROVE  Sends(c, Reads(c, f)) /\ Writes(c, Reads(c, f)) = f
<1>1. CASE c = "jetty"
  BY <1>1, DescriptorForms DEF Accepts, Sends, Reads, Writes
<1>2. CASE c # "jetty"
  <2>1. VersionOf(c) \in Versions
    BY DEF VersionOf, Versions
  <2> QED
    BY <1>2, <2>1, DecodeEncode DEF Accepts, Sends, Reads, Writes
<1> QED
  BY <1>1, <1>2

\* The first two units tell the codecs apart.
LEMMA AcceptsOne ==
  ASSUME NEW c \in Codecs, NEW d \in Codecs, NEW f, Accepts(c, f), Accepts(d, f)
  PROVE  c = d
<1>1. ASSUME NEW e \in Codecs, Accepts(e, f), e # "jetty"
      PROVE  f[1] = Magic /\ f[2] = VersionOf(e)
  BY <1>1 DEF Accepts, Decodes, Header
<1>2. Accepts("jetty", f) => f[1] = DescriptorVersion
  BY DEF Accepts, Deserializes, Deserialize, ValidDescriptor
<1>3. Magic # DescriptorVersion
  BY DEF Magic, DescriptorVersion
<1>4. VersionOf("v2") # VersionOf("v3")
  BY DEF VersionOf
<1> QED
  BY <1>1, <1>2, <1>3, <1>4 DEF Codecs

\* A message of the bounded sets is one that the types allow.
LEMMA SendableTyped ==
  ASSUME NEW c \in Codecs, NEW m \in Sendable(c), Sends(c, m)
  PROVE  /\ Writes(c, m) \in Seq(Nat)
         /\ Accepts(c, Writes(c, m)) /\ Reads(c, Writes(c, m)) = m
<1>1. CASE c = "jetty"
  <2>1. m \in Descriptors
    <3>1. Numbers \subseteq Nat /\ Texts \subseteq Seq(Nat) /\ 0 .. MaxOpaque + 1 \subseteq Nat
      BY WireAssumption
    <3>2. m \in [version : Numbers, transport_type : {1}, eid_index : {0}, jetty_id : Numbers,
                 opaque_len : 0 .. MaxOpaque + 1, opaque_data : Texts]
      BY <1>1 DEF Sendable
    <3>3. /\ m.version \in Nat /\ m.transport_type \in Nat /\ m.eid_index \in Nat
          /\ m.jetty_id \in Nat /\ m.opaque_len \in Nat /\ m.opaque_data \in Seq(Nat)
      <4>1. /\ m.version \in Numbers /\ m.transport_type = 1 /\ m.eid_index = 0
            /\ m.jetty_id \in Numbers /\ m.opaque_data \in Texts
            /\ m.opaque_len \in 0 .. MaxOpaque + 1
        BY <3>2
      <4>2. m.opaque_len \in Nat
        BY <3>1, <4>1, Zenon
      <4>3. m.version \in Nat /\ m.jetty_id \in Nat /\ m.opaque_data \in Seq(Nat)
        BY <3>1, <4>1, Zenon
      <4> QED
        BY <4>1, <4>2, <4>3
    <3>4. m = [version |-> m.version, transport_type |-> m.transport_type,
               eid_index |-> m.eid_index, jetty_id |-> m.jetty_id,
               opaque_len |-> m.opaque_len, opaque_data |-> m.opaque_data]
      BY <3>2
    <3> QED
      BY <3>3, <3>4 DEF Descriptors
  <2> QED
    BY <1>1, <2>1, DescriptorRead DEF Sends, Writes, Accepts, Reads
<1>2. CASE c # "jetty"
  <2> DEFINE v == VersionOf(c)
  <2>1. v \in Versions
    BY DEF VersionOf, Versions
  <2>2. /\ m \in [type : TypesOf(v), request_id : Numbers, sequence : Numbers,
                  nums : Bodies, text : Texts]
        /\ Holds(v, m)
    BY <1>2 DEF Sendable
  <2>3. m.nums \in Seq(Nat)
    <3>1. PICK n \in 0 .. 3 : m.nums \in [1 .. n -> Numbers]
      BY <2>2 DEF Bodies
    <3>2. m.nums \in [1 .. n -> Nat] /\ n \in Nat
      BY <3>1, WireAssumption
    <3> QED
      BY <3>2, SeqDef
  <2>4. WellFormed(v, m)
    BY <2>2, <2>3, WireAssumption DEF WellFormed
  <2> QED
    BY <1>2, <2>1, <2>4, EncodeDecode DEF Sends, Writes, Accepts, Reads
<1> QED
  BY <1>1, <1>2

\* The frame is a sequence, and an unedited one is the message's.
IInv ==
  /\ codec \in Codecs /\ edits \in Nat /\ frame \in Seq(Nat)
  /\ frame # None /\ edits = 0 =>
       message \in Sendable(codec) /\ Sends(codec, message) /\ frame = Writes(codec, message)

\* An edit leaves a sequence of numbers.
LEMMA EditTyped ==
  ASSUME NEW f \in Seq(Nat), f # None, NEW g \in Edited(f)
  PROVE  g \in Seq(Nat) /\ Adjusted(g) \in Seq(Nat)
<1>1. Len(f) \in Nat \ {0} /\ DOMAIN f = 1 .. Len(f)
  BY LenProperties, EmptySeq DEF None
<1>2. g \in Seq(Nat)
  <2>1. ASSUME NEW i \in DOMAIN f, NEW u \in Units
        PROVE  [f EXCEPT ![i] = u] \in Seq(Nat)
    <3>1. i \in 1 .. Len(f) /\ u \in Nat
      BY <1>1, WireAssumption
    <3> QED
      BY <3>1, ExceptSeq
  <2>2. ASSUME NEW u \in Units
        PROVE  Append(f, u) \in Seq(Nat)
    BY WireAssumption, AppendProperties
  <2>3. SubSeq(f, 1, Len(f) - 1) \in Seq(Nat)
    <3>1. Len(f) - 1 \in 0 .. Len(f)
      BY <1>1
    <3> QED
      BY <3>1, Join, Zenon
  <2>4. \/ \E i \in DOMAIN f, u \in Units : g = [f EXCEPT ![i] = u]
        \/ \E u \in Units : g = Append(f, u)
        \/ g = SubSeq(f, 1, Len(f) - 1)
    BY DEF Edited
  <2> QED
    BY <2>1, <2>2, <2>3, <2>4
<1>3. Adjusted(g) \in Seq(Nat)
  <2>1. CASE Len(g) < HeaderLen
    BY <1>2, <2>1 DEF Adjusted
  <2>2. CASE ~(Len(g) < HeaderLen)
    <3>1. HeaderLen \in 1 .. Len(g) /\ Len(g) - HeaderLen \in Nat
      BY <1>2, <2>2, LenProperties DEF HeaderLen
    <3> QED
      BY <1>2, <2>2, <3>1, ExceptSeq DEF Adjusted
  <2> QED
    BY <2>1, <2>2
<1> QED
  BY <1>2, <1>3

\* Every frame that is built is a sequence of units.
THEOREM Invariance == Spec => []IInv
<1>1. Init => IInv
  BY EmptySeq DEF Init, IInv, None
<1>2. ASSUME IInv, [Next]_vars
      PROVE  IInv'
  <2>1. ASSUME NEW m \in Sendable(codec), Send(m)
        PROVE  IInv'
    <3>1. Sends(codec, m) => Writes(codec, m) \in Seq(Nat)
      BY <1>2, SendableTyped DEF IInv
    <3> QED
      BY <1>2, <2>1, <3>1, EmptySeq DEF Send, IInv, None
  <2>2. CASE Edit
    <3>1. PICK f \in Edited(frame) : frame' = f \/ frame' = Adjusted(f)
      BY <2>2 DEF Edit
    <3>2. frame' \in Seq(Nat)
      BY <1>2, <2>2, <3>1, EditTyped DEF Edit, IInv
    <3>3. edits' # 0 /\ edits' \in Nat /\ codec' = codec
      BY <1>2, <2>2 DEF Edit, IInv
    <3> QED
      BY <1>2, <3>2, <3>3 DEF IInv
  <2>3. CASE UNCHANGED vars
    BY <1>2, <2>3 DEF IInv, vars
  <2> QED
    BY <1>2, <2>1, <2>2, <2>3 DEF Next
<1> QED
  BY <1>1, <1>2, PTL DEF Spec

\* decode accepts and reads back all that encode writes, for both versions and for
\* the descriptor.
THEOREM WireRoundTrip == Spec => []RoundTrip
<1>1. IInv => RoundTrip
  BY SendableTyped DEF IInv, RoundTrip
<1> QED
  BY <1>1, Invariance, PTL

\* No frame has two meanings, a message has one wire form, and what decode accepts
\* could have been sent.
THEOREM WireCanonical == Spec => []Canonical
<1>1. IInv => OneReading
  BY AcceptsOne DEF OneReading
<1>2. IInv => Canonical
  BY <1>1, AcceptsCanonical DEF IInv, Canonical
<1> QED
  BY <1>2, Invariance, PTL

====
