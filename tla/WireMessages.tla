---- MODULE WireMessages ----
(***************************************************************************)
(* The wire forms of the data messages, version 2 and integration version  *)
(* 3 (src/src/message.rs), and of the Jetty descriptor that the out-of-    *)
(* band handshake carries (src/src/jetty.rs), and the frames a receiver    *)
(* may meet: what an encoder has written, and what some edits make of it.  *)
(*                                                                         *)
(* A frame is a sequence of units.  A field of fixed width is one unit,    *)
(* whatever its width, and a byte of a text or of a payload is one unit,   *)
(* so a length in bytes becomes the same length in units.                  *)
(***************************************************************************)
EXTENDS Integers, Sequences

CONSTANTS
  MaxPayload,    \* MAX_DATA_PAYLOAD_LEN
  DigestLen,     \* SHA256_DIGEST_LEN, of the raw digest of version 2
  MaxDigest,     \* MAX_DIGEST_VALUE_LEN, also the length of a SHA-256 in hex
  CrcSpan,       \* 2^32
  MaxOpaque,     \* MAX_JETTY_DESCRIPTOR_LEN
  MaxEdits,      \* bound: edits of one frame
  Numbers, Texts,  \* bounds: what the fields and the texts of messages are
  Units            \* bound: what an edit writes

ASSUME WireAssumption ==
  /\ MaxPayload \in Nat /\ DigestLen \in Nat \ {0} /\ MaxDigest \in Nat \ {0}
  /\ CrcSpan \in Nat \ {0} /\ MaxOpaque \in Nat /\ MaxEdits \in Nat
  /\ Numbers \subseteq Nat /\ Units \subseteq Nat
  /\ Texts \subseteq Seq(Nat)

VARIABLES codec, message, frame, edits
vars == <<codec, message, frame, edits>>

\* MessageType, IntegrationMessageTypeV3.
Ping == 1
Pong == 2
Request == 3
Metadata == 4
Data == 5
End == 6
Error == 7
TypesOf(version) == IF version = 2 THEN 1 .. 7 ELSE 3 .. 7

\* DigestAlgorithm.
Crc32 == 1
Sha256 == 2

\* The bytes told apart: decimal digits, a hexadecimal letter, another
\* character; anything else is not UTF-8.
Digits == 0 .. 9
HexLetter == 10
OtherChar == 11
IsUtf8(text) == \A i \in DOMAIN text : text[i] <= OtherChar

Decimal(text) ==
  LET value[n \in 0 .. Len(text)] ==
        IF n = 0 THEN 0 ELSE 10 * value[n - 1] + text[n]
  IN value[Len(text)]

\* DigestDescriptor::validate.  to_string writes a number without leading zeros.
ValidDigest(algorithm, value) ==
  /\ Len(value) \in 1 .. MaxDigest
  /\ algorithm = Crc32 =>
       /\ \A i \in DOMAIN value : value[i] \in Digits
       /\ Decimal(value) < CrcSpan
       /\ Len(value) = 1 \/ value[1] # 0
  /\ algorithm = Sha256 =>
       /\ Len(value) = MaxDigest
       /\ \A i \in DOMAIN value : value[i] \in Digits \union {HexLetter}

-----------------------------------------------------------------------------
\* Message and IntegrationMessageV3.  The numbers of a body are in nums, in the
\* order of the wire; its text, digest or payload is in text.

\* How many fields of fixed width a payload starts with.
NumsOf(version, type) ==
  IF type \in {Request, Error} THEN 1
  ELSE IF type = End THEN 2
  ELSE IF type = Metadata THEN version
  ELSE 0

\* The length of the text is a field of its own, after the others.
Counted(version, type) == type = Request \/ (type = Metadata /\ version = 3)

IsString(version, type) == type \in {Request, Error} \/ Counted(version, type)

\* What the types Message and IntegrationMessageV3 can hold: a String is UTF-8,
\* an algorithm is one of the enumeration, a raw digest has its length.
Holds(version, m) ==
  /\ m.type \in TypesOf(version)
  /\ Len(m.nums) = NumsOf(version, m.type)
  /\ IsString(version, m.type) => IsUtf8(m.text)
  /\ m.type = End => m.text = <<>>
  /\ m.type = Metadata =>
       IF version = 2 THEN Len(m.text) = DigestLen
       ELSE m.nums[3] \in {Crc32, Sha256}

\* encode_payload.
Payload(version, m) ==
  m.nums \o (IF Counted(version, m.type) THEN <<Len(m.text)>> ELSE <<>>) \o m.text

\* validate_common, of version 3 only.
ValidCommon(m) ==
  /\ m.request_id # 0
  /\ m.type \in {Request, Error} => m.sequence = 0 /\ m.text # <<>>
  /\ m.type = Metadata => m.sequence = 0 /\ ValidDigest(m.nums[3], m.text)
  /\ m.type = Data => m.text # <<>>
  /\ m.type = End => m.nums[2] = m.sequence

\* encode, when it returns a frame, and the frame.
Encodable(version, m) ==
  /\ version = 3 => ValidCommon(m)
  /\ version = 2 => (m.type \in {Request, Data, Error} => m.text # <<>>)
  /\ Len(Payload(version, m)) <= MaxPayload

Magic == 4
HeaderLen == 6

EncodeUncounted(version, m) ==
  <<Magic, version, m.type, m.request_id, m.sequence, Len(m.text)>>
    \o Payload(version, m)
Encode(version, m) ==
  <<Magic, version, m.type, m.request_id, m.sequence, Len(Payload(version, m))>>
    \o Payload(version, m)

\* decode: the header, in the order of the code, and the rest of the frame.
Header(version, f) ==
  /\ Len(f) >= HeaderLen
  /\ f[1] = Magic /\ f[2] = version /\ f[3] \in TypesOf(version)
  /\ f[6] <= MaxPayload /\ Len(f) = HeaderLen + f[6]

Rest(f) == SubSeq(f, HeaderLen + 1, Len(f))

\* Where the text of a payload starts.
TextAt(version, type) ==
  NumsOf(version, type) + (IF Counted(version, type) THEN 1 ELSE 0) + 1

Text(version, type, p) == SubSeq(p, TextAt(version, type), Len(p))

\* decode_payload, when it returns a body.
FitsTrailing(version, type, p) ==
  LET n == TextAt(version, type) - 1 IN
  /\ Len(p) >= n
  /\ Counted(version, type) => p[n] # 0 /\ Len(p) >= n + p[n]
  /\ type = Error => Len(p) > n
  /\ type = End => Len(p) = n
  /\ type = Metadata =>
       IF version = 2 THEN Len(p) = n + DigestLen
       ELSE /\ p[n] <= MaxDigest /\ p[3] \in {Crc32, Sha256}
            /\ ValidDigest(p[3], Text(version, type, p))
  /\ IsString(version, type) => IsUtf8(Text(version, type, p))
Fits(version, type, p) ==
  LET n == TextAt(version, type) - 1 IN
  /\ Len(p) >= n
  /\ Counted(version, type) => p[n] # 0 /\ Len(p) = n + p[n]
  /\ type = Error => Len(p) > n
  /\ type = End => Len(p) = n
  /\ type = Metadata =>
       IF version = 2 THEN Len(p) = n + DigestLen
       ELSE /\ p[n] <= MaxDigest /\ p[3] \in {Crc32, Sha256}
            /\ ValidDigest(p[3], Text(version, type, p))
  /\ IsString(version, type) => IsUtf8(Text(version, type, p))

Decode(version, f) ==
  [type |-> f[3], request_id |-> f[4], sequence |-> f[5],
   nums |-> SubSeq(Rest(f), 1, NumsOf(version, f[3])),
   text |-> Text(version, f[3], Rest(f))]

Decodes(version, f) ==
  /\ Header(version, f)
  /\ Fits(version, f[3], Rest(f))
  /\ version = 2 => (f[3] = Data => Rest(f) # <<>>)
  /\ version = 3 => ValidCommon(Decode(version, f))

-----------------------------------------------------------------------------
\* JettyDescriptor: version, transport_type, eid_index, jetty_id, opaque_len,
\* and the opaque bytes.
DescriptorVersion == 1
DescriptorLen == 5

\* validate.
ValidDescriptor(d) ==
  /\ d.version = DescriptorVersion
  /\ d.opaque_len # 0 /\ d.opaque_len = Len(d.opaque_data)
  /\ d.opaque_len <= MaxOpaque

Serialize(d) ==
  <<d.version, d.transport_type, d.eid_index, d.jetty_id, d.opaque_len>>
    \o d.opaque_data

Deserialize(f) ==
  [version |-> f[1], transport_type |-> f[2], eid_index |-> f[3],
   jetty_id |-> f[4], opaque_len |-> f[5],
   opaque_data |-> SubSeq(f, DescriptorLen + 1, Len(f))]

Deserializes(f) == Len(f) >= DescriptorLen /\ ValidDescriptor(Deserialize(f))

-----------------------------------------------------------------------------
\* The three codecs side by side: a version, or "jetty".
Codecs == {"v2", "v3", "jetty"}
VersionOf(c) == IF c = "v2" THEN 2 ELSE 3

Accepts(c, f) == IF c = "jetty" THEN Deserializes(f) ELSE Decodes(VersionOf(c), f)
Reads(c, f) == IF c = "jetty" THEN Deserialize(f) ELSE Decode(VersionOf(c), f)
Sends(c, m) == IF c = "jetty" THEN ValidDescriptor(m) ELSE Encodable(VersionOf(c), m)
Writes(c, m) == IF c = "jetty" THEN Serialize(m) ELSE Encode(VersionOf(c), m)

\* What a program can put into the public fields.
Bodies == UNION {[1 .. n -> Numbers] : n \in 0 .. 3}
Sendable(c) ==
  IF c = "jetty"
  THEN [version : Numbers, transport_type : {1}, eid_index : {0}, jetty_id : Numbers,
        opaque_len : 0 .. MaxOpaque + 1, opaque_data : Texts]
  ELSE {m \in [type : TypesOf(VersionOf(c)), request_id : Numbers, sequence : Numbers,
               nums : Bodies, text : Texts] : Holds(VersionOf(c), m)}

None == <<>>

Init == codec \in Codecs /\ message = None /\ frame = None /\ edits = 0

\* A refused message leaves no frame.
Send(m) ==
  /\ message' = m
  /\ frame' = IF Sends(codec, m) THEN Writes(codec, m) ELSE None
  /\ UNCHANGED <<codec, edits>>

\* Another writer's frame, as the tests of message.rs make theirs: a unit changed,
\* dropped or added, with the length of the header adjusted or not.
Adjusted(f) ==
  IF Len(f) < HeaderLen THEN f ELSE [f EXCEPT ![HeaderLen] = Len(f) - HeaderLen]

Edited(f) ==
  {[f EXCEPT ![i] = u] : i \in DOMAIN f, u \in Units}
    \union {Append(f, u) : u \in Units} \union {SubSeq(f, 1, Len(f) - 1)}

Edit ==
  /\ frame # None /\ edits < MaxEdits
  /\ \E f \in Edited(frame) : frame' = f \/ frame' = Adjusted(f)
  /\ edits' = edits + 1
  /\ UNCHANGED <<codec, message>>

Next == (message = None /\ \E m \in Sendable(codec) : Send(m)) \/ Edit

Spec == Init /\ [][Next]_vars

-----------------------------------------------------------------------------
\* What an encoder has written, its decoder accepts and reads as it was: no check
\* of decode refuses what encode lets pass.
RoundTrip ==
  frame # None /\ edits = 0 =>
    Accepts(codec, frame) /\ Reads(codec, frame) = message

\* No frame is a message of both versions, which give Metadata two meanings, and
\* no message is taken for a descriptor
\* (v2_and_v3_decoders_do_not_reinterpret_each_other).
OneReading ==
  \A c, d \in Codecs : Accepts(c, frame) /\ Accepts(d, frame) => c = d

\* Whatever the frame, at most one decoder accepts it, and only what its encoder
\* writes for the message read: no second wire form, no ignored byte, no length
\* believed unchecked, and no message that could not be sent.
Canonical ==
  /\ OneReading
  /\ \A c \in Codecs :
       Accepts(c, frame) => /\ Sends(c, Reads(c, frame))
                            /\ Writes(c, Reads(c, frame)) = frame
====
