------------------------- MODULE FrameCodecProofs --------------------------
(***************************************************************************)
(* Proofs about FrameCodec for every byte size, overhead of encryption,    *)
(* JSON code, set of packets, keys and limits.                             *)
(*                                                                         *)
(* The first part is about lengths and limits.  The second follows the     *)
(* contents of a packet: JSON and back, bytes and back, and then the       *)
(* invariant that ties what encode has written to what decode has read.    *)
(***************************************************************************)
EXTENDS FrameCodec, TLAPS

\* Leaves are first-order reasoning unless they name SMT.
USE Zenon

---------------------------------------------------------------------------
\* Bytes

\* The bytes of two buffers, one after the other.
LEMMA Cat ==
  ASSUME NEW s \in Seq(Bytes), NEW t \in Seq(Bytes)
  PROVE  s \o t \in Seq(Bytes) /\ Len(s \o t) = Len(s) + Len(t) /\ Len(s \o t) \in Nat
  BY SMT

\* A length reduced to a byte is a byte.
LEMMA ModByte == ASSUME NEW n \in Nat PROVE n % Base \in Bytes
  BY CodecAssumption, SMT DEF Bytes

\* A length is written as four bytes.
LEMMA BeBytes == ASSUME NEW n \in Nat PROVE be(n) \in Seq(Bytes) /\ Len(be(n)) = 4
<1>1. Base * Base \in Nat \ {0} /\ Base * Base * Base \in Nat \ {0}
  <2>1. \A a, b \in Nat \ {0} : a * b \in Nat \ {0}
    BY SMT
  <2> QED BY <2>1, CodecAssumption, SMT
<1>2. \A d \in Nat \ {0} : n \div d \in Nat
  BY SMT
<1>3. \A d \in Nat \ {0} : (n \div d) % Base \in Bytes
  BY <1>2, ModByte
<1> DEFINE b1 == (n \div (Base * Base * Base)) % Base
           b2 == (n \div (Base * Base)) % Base
           b3 == (n \div Base) % Base
           b4 == n % Base
<1>4. b1 \in Bytes /\ b2 \in Bytes
  BY <1>1, <1>3
<1>5. b3 \in Bytes
  BY <1>3, CodecAssumption, SMT
<1>6. b4 \in Bytes
  BY ModByte
<1>7. be(n) = <<b1, b2, b3, b4>>
  BY DEF be
<1> HIDE DEF b1, b2, b3, b4
<1> QED BY <1>4, <1>5, <1>6, <1>7, SMT

\* Reading a buffer of bytes gives a byte.
LEMMA ByteIsByte == ASSUME NEW s \in Seq(Bytes), NEW i \in Int PROVE Byte(s, i) \in Bytes
  BY CodecAssumption, SMT DEF Byte, Bytes

\* Four bytes are read as a length.
LEMMA U32Nat == ASSUME NEW s \in Seq(Bytes), NEW i \in Int PROVE u32(s, i) \in Nat
<1>1. \A x \in Nat, b \in Bytes : x * Base + b \in Nat
  <2>1. \A a, b \in Nat : a * b \in Nat
    BY SMT
  <2> QED BY <2>1, CodecAssumption, SMT DEF Bytes
<1>2. Bytes \subseteq Nat
  BY SMT DEF Bytes
<1>3. Byte(s, i) \in Bytes /\ Byte(s, i + 1) \in Bytes
      /\ Byte(s, i + 2) \in Bytes /\ Byte(s, i + 3) \in Bytes
  BY ByteIsByte, SMT
<1>4. Byte(s, i) * Base + Byte(s, i + 1) \in Nat
  BY <1>1, <1>2, <1>3
<1>5. (Byte(s, i) * Base + Byte(s, i + 1)) * Base + Byte(s, i + 2) \in Nat
  BY <1>1, <1>3, <1>4
<1> QED BY <1>1, <1>3, <1>5 DEF u32

\* A slice of a buffer of bytes is one, of the length asked for.
LEMMA SliceBytes ==
  ASSUME NEW s \in Seq(Bytes), NEW a \in Nat, NEW n \in Nat
  PROVE  Slice(s, a, a + n) \in Seq(Bytes) /\ Len(Slice(s, a, a + n)) = n
<1>1. (a + n) - a = n
  BY SMT
<1>2. \A i \in 1 .. n : Byte(s, a + i - 1) \in Bytes
  BY ByteIsByte, SMT
<1> QED BY <1>1, <1>2, SMT DEF Slice

\* The text of an attachment consists of bytes and replacement characters.
LEMMA LossyText == ASSUME NEW s \in Seq(Bytes) PROVE lossy(s) \in Seq(0 .. Base)
<1>1. \A i \in DOMAIN s : s[i] \in 0 .. Base
  BY CodecAssumption, SMT DEF Bytes
<1> QED BY <1>1, CodecAssumption, SMT DEF lossy, Replacement

\* Encryption adds a nonce and a tag.
LEMMA EncryptedBytes ==
  ASSUME NEW s \in Seq(Bytes)
  PROVE  Encrypted(s) \in Seq(Bytes) /\ Len(Encrypted(s)) = NonceLen + Len(s) + TagLen
<1>1. ASSUME NEW n \in Nat PROVE Zeros(n) \in Seq(Bytes) /\ Len(Zeros(n)) = n
  <2>1. 0 \in Bytes
    BY CodecAssumption, SMT DEF Bytes
  <2> QED BY <2>1, SMT DEF Zeros
<1>2. \A s1, s2 \in Seq(Bytes) : s1 \o s2 \in Seq(Bytes) /\ Len(s1 \o s2) = Len(s1) + Len(s2)
  BY SMT
<1> DEFINE nonce == Zeros(NonceLen)
           tag == Zeros(TagLen)
<1>3. /\ nonce \in Seq(Bytes) /\ Len(nonce) = NonceLen
      /\ tag \in Seq(Bytes) /\ Len(tag) = TagLen
  BY <1>1, CodecAssumption
<1>4. Encrypted(s) = (nonce \o s) \o tag
  BY DEF Encrypted
<1> HIDE DEF nonce, tag
<1>5. nonce \o s \in Seq(Bytes) /\ Len(nonce \o s) = NonceLen + Len(s)
  BY <1>2, <1>3
<1> QED BY <1>2, <1>3, <1>4, <1>5

\* An attachment is written as bytes.
LEMMA WireBytes == ASSUME NEW a \in Attachment PROVE write_wire(a) \in Seq(Bytes)
<1>1. \A s \in Seq(Bytes) : <<u8(Len(s))>> \in Seq(Bytes)
  BY ModByte, SMT DEF u8
<1>2. be(Len(a.data)) \in Seq(Bytes)
  BY BeBytes, SMT DEF Attachment
<1>3. \A s, t \in Seq(Bytes) : s \o t \in Seq(Bytes)
  BY SMT
<1> QED BY <1>1, <1>2, <1>3 DEF write_wire, Attachment

\* A message type is a byte.
LEMMA MessageTypeByte == ASSUME NEW v \in Variants PROVE message_type(v) \in Bytes
  BY CodecAssumption, SMT DEF message_type, Variants, K, Bytes

---------------------------------------------------------------------------
\* The types, and reads within the buffer

\* A codec that has not begun to encode is well typed and has read nothing.
LEMMA InitType == Init => TypeOK /\ ReadsInside
<1> SUFFICES ASSUME Init PROVE TypeOK /\ ReadsInside
  OBVIOUS
<1>1. <<>> \in Seq(Bytes) /\ <<>> \in Seq(Attachment) /\ <<>> \in Seq(Seq(0 .. Base)) /\ Len(<<>>) = 0
  BY SMT
<1>2. 0 \in Bytes
  BY CodecAssumption, SMT DEF Bytes
<1>3. sealed \in [key : Keys \cup {NoKey}, payload : Seq(Bytes), plain : Seq(Bytes)]
  BY <1>1 DEF Init
<1>4. part \in 1 .. 4 /\ Len(att) = part - 1 /\ pos \in Nat /\ pos <= Len(buf)
  BY <1>1, SMT DEF Init
<1> QED BY <1>1, <1>2, <1>3, <1>4 DEF Init, TypeOK, ReadsInside

\* EncodeMeta starts the payload with the JSON text between its length and the
\* number of attachments: at least five bytes.
LEMMA EncodeMetaBytes ==
  ASSUME TypeOK, EncodeMeta
  PROVE  /\ buf' \in Seq(Bytes) /\ Len(buf') >= 5
         /\ todo' \in Seq(Attachment)
<1> DEFINE json == Text[Serialize(packet)]
           lead == be(Len(json))
           number == <<u8(Len(packet.attachments))>>
<1>1. json \in Seq(Bytes) /\ packet.attachments \in Seq(Attachment)
  BY TextAssumption, PacketAssumption DEF TypeOK
<1>2. Len(json) \in Nat /\ Len(packet.attachments) \in Nat
  <2>1. \A s \in Seq(Bytes) : Len(s) \in Nat
    BY SMT
  <2>2. \A s \in Seq(Attachment) : Len(s) \in Nat
    BY SMT
  <2> QED BY <1>1, <2>1, <2>2
<1>3. lead \in Seq(Bytes) /\ Len(lead) = 4
  BY <1>2, BeBytes
<1>4. u8(Len(packet.attachments)) \in Bytes
  BY <1>2, ModByte DEF u8
<1>5. number \in Seq(Bytes) /\ Len(number) = 1
  BY <1>4, SMT
<1>6. buf' = (lead \o json) \o number /\ todo' = packet.attachments
  BY DEF EncodeMeta
<1> HIDE DEF lead, json, number
<1>7. lead \o json \in Seq(Bytes) /\ Len(lead \o json) = 4 + Len(json)
  BY <1>1, <1>3, Cat
<1>8. buf' \in Seq(Bytes) /\ Len(buf') = 4 + Len(json) + 1
  BY <1>5, <1>6, <1>7, Cat
<1>9. Len(buf') >= 5
  BY <1>2, <1>8, SMT
<1> QED BY <1>1, <1>6, <1>8, <1>9

\* The payload of EncodeFinish and the frame it makes of it.
LEMMA EncodeFinishBytes ==
  ASSUME TypeOK, EncodeFinish,
         NEW payload, payload = IF sender.key = NoKey THEN buf ELSE Encrypted(buf)
  PROVE  /\ payload \in Seq(Bytes)
         /\ Len(payload) = Len(buf) + (IF sender.key = NoKey THEN 0 ELSE NonceLen + TagLen)
         /\ phase' = "sent" =>
               /\ frame' \in Seq(Bytes) /\ Len(frame') = 5 + Len(payload)
               /\ Len(buf) <= max_payload /\ Len(payload) <= max_payload
         /\ phase' = "refused" =>
               /\ frame' = frame
               /\ Len(buf) > max_payload \/ Len(payload) > max_payload
         /\ phase' \in {"sent", "refused"}
<1>1. buf \in Seq(Bytes) /\ Len(buf) \in Nat
  BY SMT DEF TypeOK
<1>2. /\ payload \in Seq(Bytes)
      /\ Len(payload) = Len(buf) + (IF sender.key = NoKey THEN 0 ELSE NonceLen + TagLen)
  <2>1. CASE sender.key = NoKey
    <3>1. payload = buf
      BY <2>1
    <3> QED BY <1>1, <2>1, <3>1, SMT
  <2>2. CASE sender.key # NoKey
    <3>1. payload = Encrypted(buf)
      BY <2>2
    <3>2. NonceLen + Len(buf) + TagLen = Len(buf) + (NonceLen + TagLen)
      BY <1>1, CodecAssumption, SMT
    <3> QED BY <1>1, <2>2, <3>1, <3>2, EncryptedBytes
  <2> QED BY <2>1, <2>2
<1>3. Len(payload) \in Nat
  BY <1>2, SMT
<1> DEFINE lead == be(1 + Len(payload))
           type == <<message_type(packet.variant)>>
<1>4. lead \in Seq(Bytes) /\ Len(lead) = 4
  BY <1>3, BeBytes, SMT
<1>5. message_type(packet.variant) \in Bytes
  BY MessageTypeByte, PacketAssumption DEF TypeOK, WellFormed
<1>6. type \in Seq(Bytes) /\ Len(type) = 1
  BY <1>5, SMT
<1>7. \/ /\ phase' = "refused" /\ frame' = frame
         /\ Len(buf) > max_payload \/ Len(payload) > max_payload
      \/ /\ phase' = "sent" /\ frame' = (lead \o type) \o payload
         /\ ~(Len(buf) > max_payload) /\ ~(Len(payload) > max_payload)
  BY DEF EncodeFinish
<1> HIDE DEF lead, type
<1>8. max_payload \in Nat
  <2>1. sender.max \in Nat
    BY CodecAssumption DEF TypeOK
  <2> QED BY <2>1, SMT DEF max_payload, SaturatingSub
<1>10. lead \o type \in Seq(Bytes) /\ Len(lead \o type) = 5
  <2>1. lead \o type \in Seq(Bytes) /\ Len(lead \o type) = Len(lead) + Len(type)
    BY ONLY <1>4, <1>6, Cat
  <2> QED BY ONLY <1>4, <1>6, <2>1
<1>11. (lead \o type) \o payload \in Seq(Bytes) /\ Len((lead \o type) \o payload) = 5 + Len(payload)
  BY <1>2, <1>10, Cat
<1>12. ~(Len(buf) > max_payload) => Len(buf) <= max_payload
  BY <1>1, <1>8, SMT
<1>13. ~(Len(payload) > max_payload) => Len(payload) <= max_payload
  BY <1>3, <1>8, SMT
<1> QED BY <1>2, <1>7, <1>11, <1>12, <1>13

\* What EncodeAttachment appends are bytes.
LEMMA EncodeAttachmentBytes ==
  ASSUME TypeOK, EncodeAttachment
  PROVE  buf' \in Seq(Bytes) /\ Len(buf') >= Len(buf) /\ todo' \in Seq(Attachment)
<1>1. Head(todo) \in Attachment /\ Tail(todo) \in Seq(Attachment)
  BY SMT DEF TypeOK, EncodeAttachment
<1>2. write_wire(Head(todo)) \in Seq(Bytes)
  BY <1>1, WireBytes
<1>3. Len(write_wire(Head(todo))) \in Nat /\ buf \in Seq(Bytes) /\ Len(buf) \in Nat
  BY <1>2, SMT DEF TypeOK
<1>4. buf' \in Seq(Bytes) /\ Len(buf') = Len(buf) + Len(write_wire(Head(todo)))
  BY <1>2, <1>3, Cat DEF EncodeAttachment
<1> QED BY <1>1, <1>3, <1>4, SMT DEF EncodeAttachment

\* A frame that changed on the way still consists of bytes.
LEMMA AlterBytes == ASSUME TypeOK, Alter PROVE frame' \in Seq(Bytes)
<1>0. frame \in Seq(Bytes) /\ Len(frame) \in Nat
  BY SMT DEF TypeOK
<1>1. ASSUME NEW i \in 1 .. Len(frame), NEW b \in Changes
      PROVE  [frame EXCEPT ![i] = b] \in Seq(Bytes)
  BY <1>0, <1>1, CodecAssumption, SMT
<1>2. ASSUME NEW n \in 0 .. Len(frame) - 1
      PROVE  SubSeq(frame, 1, n) \in Seq(Bytes)
  BY <1>0, <1>2, SMT
<1>3. ASSUME NEW n \in 5 .. Len(frame) - 1
      PROVE  be(n - 4) \o SubSeq(frame, 5, n) \in Seq(Bytes)
  <2>1. SubSeq(frame, 5, n) \in Seq(Bytes)
    BY <1>0, SMT
  <2>2. be(n - 4) \in Seq(Bytes)
    <3>1. n - 4 \in Nat
      BY <1>0, SMT
    <3> QED BY <3>1, BeBytes
  <2> QED BY <2>1, <2>2, Cat
<1> QED BY <1>1, <1>2, <1>3 DEF Alter

\* decode's buffer after the payload is opened.
LEMMA DecodePayloadBytes == ASSUME TypeOK, ReadsInside, DecodePayload PROVE buf' \in Seq(Bytes)
<1>1. buf \in Seq(Bytes) /\ Len(buf) \in Nat /\ sealed.plain \in Seq(Bytes)
  BY SMT DEF TypeOK
<1>2. Slice(buf, 5, Len(buf)) \in Seq(Bytes)
  <2>1. CASE Len(buf) >= 5
    <3>1. Len(buf) - 5 \in Nat /\ 5 + (Len(buf) - 5) = Len(buf)
      BY <1>1, <2>1, SMT
    <3>2. Slice(buf, 5, 5 + (Len(buf) - 5)) \in Seq(Bytes)
      BY <1>1, <3>1, SliceBytes
    <3> QED BY <3>1, <3>2
  <2>2. CASE Len(buf) < 5
    <3>1. 1 .. Len(buf) - 5 = 1 .. 0
      BY <1>1, <2>2, SMT
    <3>2. [i \in 1 .. 0 |-> Byte(buf, 5 + i - 1)] \in Seq(Bytes)
      BY SMT
    <3> QED BY <3>1, <3>2 DEF Slice
  <2> QED BY <1>1, <2>1, <2>2, SMT
<1> QED BY <1>1, <1>2 DEF DecodePayload

---------------------------------------------------------------------------
\* The inductive invariant

\* The payload has its length, JSON and count before the attachments are written,
\* and nothing is read before a frame arrives.
Composed ==
    /\ phase = "attachments" => Len(buf) >= 5
    /\ phase \in {"meta", "attachments"} => pos = 0

\* What the server's reader has made sure of when it hands a frame to decode.
Gated ==
    /\ phase \in {"gate", "header"} => buf = frame
    /\ (receiver.server /\ phase = "header") =>
          Len(buf) >= 5 /\ u32(buf, 0) = Len(buf) - 4 /\ Len(buf) <= receiver.max
    /\ (receiver.server /\ phase \in {"payload", "body", "read"}) => Len(frame) >= 5

IInv == TypeOK /\ ReadsInside /\ Composed /\ LimitExact /\ Gated /\ LengthErrorsAnswered

\* The inductive invariant holds before encode begins.
LEMMA InitInv == Init => IInv
  BY InitType DEF Init, IInv, Composed, LimitExact, Gated, LengthErrorsAnswered

\* Where a frame goes when it arrives.
LEMMA ArrivePhase ==
  ASSUME TypeOK, Arrive
  PROVE  phase' \in {"header", "closed", "gate"} /\ (receiver.server => phase' # "header")
<1>1. Len(frame) \in Nat /\ receiver.max \in Nat
  <2>1. frame \in Seq(Bytes) /\ receiver.max \in Limits
    BY DEF TypeOK
  <2>2. Len(frame) \in Nat
    BY <2>1, SMT
  <2>3. receiver.max \in Nat
    BY <2>1, CodecAssumption
  <2> QED BY <2>2, <2>3
<1>2. Len(frame) > receiver.max \/ Len(frame) <= receiver.max
  BY <1>1, SMT
<1>3. CASE ~receiver.server
  BY <1>3 DEF Arrive
<1>4. CASE receiver.server
  BY <1>2, <1>4 DEF Arrive
<1> QED BY <1>3, <1>4

\* Encoding and the way preserve the types and reads within the buffer.
LEMMA SendType ==
  ASSUME TypeOK, ReadsInside, Composed,
         EncodeMeta \/ EncodeAttachment \/ EncodeFinish \/ Alter \/ Arrive \/ Gate
  PROVE  TypeOK' /\ ReadsInside'
<1> USE DEF wireVars, partVars
<1>0. Len(buf) \in Nat /\ Len(frame) \in Nat
  BY SMT DEF TypeOK
<1>1. CASE EncodeMeta
  <2>1. buf' \in Seq(Bytes) /\ todo' \in Seq(Attachment)
    BY <1>1, EncodeMetaBytes
  <2>2. /\ phase' = "attachments" /\ pos' = 0
        /\ UNCHANGED <<sender, receiver, packet, wireVars, kind, partVars>>
    BY <1>1 DEF EncodeMeta, Composed
  <2>3. Len(buf') \in Nat
    BY <2>1, SMT
  <2> QED BY <2>1, <2>2, <2>3, SMT DEF TypeOK, ReadsInside
<1>2. CASE EncodeAttachment
  <2>1. pos' = 0 /\ Len(buf') \in Nat
    BY <1>2, EncodeAttachmentBytes, SMT DEF EncodeAttachment, Composed
  <2> QED BY <1>2, <2>1, EncodeAttachmentBytes, SMT DEF EncodeAttachment, TypeOK, ReadsInside
<1>3. CASE EncodeFinish
  <2> DEFINE payload == IF sender.key = NoKey THEN buf ELSE Encrypted(buf)
  <2>1. payload \in Seq(Bytes)
    BY <1>3, EncodeFinishBytes
  <2>2. frame' \in Seq(Bytes)
    BY <1>3, EncodeFinishBytes DEF TypeOK
  <2>3. \/ sealed' = sealed
        \/ sealed' = [key |-> sender.key, payload |-> payload, plain |-> buf]
    BY <1>3 DEF EncodeFinish
  <2>4. sealed' \in [key : Keys \cup {NoKey}, payload : Seq(Bytes), plain : Seq(Bytes)]
    <3> HIDE DEF payload
    <3> QED BY <2>1, <2>3, SMT DEF TypeOK
  <2>5. phase' \in {"sent", "refused"}
    BY <1>3, EncodeFinishBytes
  <2> HIDE DEF payload
  <2> QED BY <1>3, <2>2, <2>4, <2>5 DEF EncodeFinish, TypeOK, ReadsInside
<1>4. CASE Alter
  BY <1>4, AlterBytes DEF Alter, TypeOK, ReadsInside
<1>5. CASE Arrive
  <2>1. phase' \in {"header", "closed", "gate"}
    BY <1>5, ArrivePhase
  <2>2. /\ buf' = frame /\ pos' = 0
        /\ UNCHANGED <<sender, receiver, packet, todo, wireVars, kind, partVars>>
    BY <1>5 DEF Arrive
  <2>3. ReadsInside'
    BY <1>0, <2>2, SMT DEF ReadsInside
  <2> QED BY <2>1, <2>2, <2>3 DEF TypeOK
<1>6. CASE Gate
  <2>1. phase' \in {"answered", "header"} /\ pos' \in Nat /\ pos' <= Len(buf)
    BY <1>0, <1>6, SMT DEF Gate, TypeOK, ReadsInside
  <2> QED BY <1>6, <2>1 DEF Gate, TypeOK, ReadsInside
<1> QED BY <1>1, <1>2, <1>3, <1>4, <1>5, <1>6

\* decode preserves the types and reads within the buffer.
LEMMA DecodeType ==
  ASSUME TypeOK, ReadsInside,
         DecodeHeader \/ DecodePayload \/ DecodeMeta \/ ReadText \/ ReadData \/ DecodeFinish
  PROVE  TypeOK' /\ ReadsInside'
<1> USE DEF wireVars, partVars, Fail
<1>0. buf \in Seq(Bytes) /\ Len(buf) \in Nat /\ pos \in Nat /\ pos <= Len(buf)
  BY SMT DEF TypeOK, ReadsInside
<1>1. CASE DecodeHeader
  <2>1. Byte(buf, 4) \in Bytes
    BY <1>0, ByteIsByte, SMT
  <2>2. /\ phase' \in {"failed", "payload"} /\ kind' \in {kind, Byte(buf, 4)}
        /\ pos' = pos \/ (pos' \in {4, 5} /\ Len(buf) >= 5)
    BY <1>1 DEF DecodeHeader
  <2>3. pos' \in Nat /\ pos' <= Len(buf)
    BY <1>0, <2>2, SMT
  <2>4. kind' \in Bytes
    BY <2>1, <2>2 DEF TypeOK
  <2> QED BY <1>1, <2>2, <2>3, <2>4 DEF DecodeHeader, TypeOK, ReadsInside
<1>2. CASE DecodePayload
  <2>1. buf' \in Seq(Bytes) /\ phase' \in {"failed", "body"}
    BY <1>2, DecodePayloadBytes DEF DecodePayload
  <2>2. pos' \in Nat /\ pos' <= Len(buf')
    BY <1>0, <1>2, <2>1, SMT DEF DecodePayload
  <2> QED BY <1>2, <2>1, <2>2 DEF DecodePayload, TypeOK, ReadsInside
<1>3. CASE DecodeMeta
  <2>1. u32(buf, 0) \in Nat /\ Byte(buf, 4 + u32(buf, 0)) \in Bytes
    BY <1>0, U32Nat, ByteIsByte, SMT
  <2>2. /\ phase' \in {"failed", "read"}
        /\ \/ pos' = pos
           \/ pos' = 4 /\ Len(buf) >= 5
           \/ pos' = 4 + u32(buf, 0) + 1 /\ Len(buf) >= 4 + u32(buf, 0) + 1
        /\ count' \in {count, Byte(buf, 4 + u32(buf, 0))}
    BY <1>3 DEF DecodeMeta
  <2>3. pos' \in Nat /\ pos' <= Len(buf)
    BY <1>0, <2>1, <2>2, SMT
  <2>4. count' \in Bytes
    BY <2>1, <2>2 DEF TypeOK
  <2> QED BY <1>3, <2>2, <2>3, <2>4 DEF DecodeMeta, TypeOK, ReadsInside
<1>4. CASE ReadText
  <2> DEFINE n == Byte(buf, pos)
             text == lossy(Slice(buf, pos + 1, pos + 1 + n))
  <2>1. n \in Nat
    BY <1>0, ByteIsByte, SMT DEF Bytes
  <2>2. text \in Seq(0 .. Base)
    BY <1>0, <2>1, SliceBytes, LossyText, SMT
  <2>3. \/ /\ phase' = "failed" /\ pos' \in {pos, pos + 1} /\ pos' <= Len(buf)
           /\ part' = part /\ att' = att
        \/ /\ phase' = phase /\ pos' = pos + 1 + n /\ pos' <= Len(buf)
           /\ part' = part + 1 /\ att' = Append(att, text)
    BY <1>0, <1>4, <2>1, SMT DEF ReadText
  <2> HIDE DEF n, text
  <2>4. part \in 1 .. 3
    BY <1>4 DEF ReadText
  <2>5. part' \in 1 .. 4 /\ att' \in Seq(Seq(0 .. Base)) /\ Len(att') = part' - 1
    <3>1. att \in Seq(Seq(0 .. Base)) /\ Len(att) = part - 1
      BY DEF TypeOK
    <3>2. CASE part' = part /\ att' = att
      BY <2>4, <3>1, <3>2, SMT
    <3>3. CASE part' = part + 1 /\ att' = Append(att, text)
      <4>1. att' \in Seq(Seq(0 .. Base)) /\ Len(att') = Len(att) + 1
        BY <2>2, <3>1, <3>3, SMT
      <4> QED BY <2>4, <3>1, <3>3, <4>1, SMT
    <3> QED BY <2>3, <3>2, <3>3
  <2>6. pos' \in Nat /\ pos' <= Len(buf)
    BY <1>0, <2>1, <2>3, SMT
  <2>7. phase' \in {"failed", phase}
    BY <2>3
  <2> QED BY <1>4, <2>5, <2>6, <2>7 DEF ReadText, TypeOK, ReadsInside
<1>5. CASE ReadData
  <2>1. u32(buf, pos) \in Nat
    BY <1>0, U32Nat, SMT
  <2>2. \/ phase' = "failed" /\ part' = part /\ att' = att /\ count' = count
        \/ phase' = phase /\ part' = 1 /\ att' = <<>> /\ count' = count - 1
    BY <1>5 DEF ReadData
  <2>3. pos' \in Nat /\ pos' <= Len(buf)
    BY <1>0, <1>5, <2>1, SMT DEF ReadData
  <2>4. count' \in Bytes
    <3>1. count \in 0 .. Base - 1 /\ count > 0
      BY <1>5 DEF ReadData, TypeOK, Bytes
    <3>2. count' = count \/ count' = count - 1
      BY <2>2
    <3> QED BY <3>1, <3>2, CodecAssumption, SMT DEF Bytes
  <2>5. part' \in 1 .. 4 /\ att' \in Seq(Seq(0 .. Base)) /\ Len(att') = part' - 1
    <3>1. part \in 1 .. 4 /\ att \in Seq(Seq(0 .. Base)) /\ Len(att) = part - 1
      BY DEF TypeOK
    <3>2. <<>> \in Seq(Seq(0 .. Base)) /\ Len(<<>>) = 1 - 1
      BY SMT
    <3>3. CASE part' = part /\ att' = att
      BY <3>1, <3>3
    <3>4. CASE part' = 1 /\ att' = <<>>
      BY <3>2, <3>4, SMT
    <3> QED BY <2>2, <3>3, <3>4
  <2>6. phase' \in {"failed", phase}
    BY <2>2
  <2> QED BY <1>5, <2>3, <2>4, <2>5, <2>6 DEF ReadData, TypeOK, ReadsInside
<1>6. CASE DecodeFinish
  <2>1. phase' \in {"failed", "done"}
    BY <1>6 DEF DecodeFinish
  <2> QED BY <1>6, <2>1 DEF DecodeFinish, TypeOK, ReadsInside
<1> QED BY <1>1, <1>2, <1>3, <1>4, <1>5, <1>6

\* A finished encode has kept the limit, or refused what would break it.
LEMMA LimitStep ==
  ASSUME TypeOK, Composed, LimitExact, [Next]_vars
  PROVE  LimitExact'
<1> USE DEF wireVars, partVars, Fail
<1> DEFINE extra == IF sender.key = NoKey THEN 0 ELSE NonceLen + TagLen
<1>0. /\ buf \in Seq(Bytes) /\ Len(buf) \in Nat /\ sender.max \in Nat
      /\ extra \in Nat
  <2>1. buf \in Seq(Bytes) /\ Len(buf) \in Nat
    BY SMT DEF TypeOK
  <2>2. sender.max \in Nat
    BY CodecAssumption DEF TypeOK
  <2>3. extra \in Nat
    BY CodecAssumption, SMT
  <2> QED BY <2>1, <2>2, <2>3
<1>1. CASE EncodeFinish
  <2> DEFINE payload == IF sender.key = NoKey THEN buf ELSE Encrypted(buf)
  <2>1. /\ Len(payload) = Len(buf) + extra
        /\ phase' = "sent" =>
              /\ Len(frame') = 5 + Len(payload)
              /\ Len(buf) <= max_payload /\ Len(payload) <= max_payload
        /\ phase' = "refused" => Len(buf) > max_payload \/ Len(payload) > max_payload
    BY <1>1, EncodeFinishBytes
  <2>2. Len(buf) >= 5 /\ buf' = buf /\ sender' = sender
    BY <1>1 DEF EncodeFinish, Composed
  <2> HIDE DEF payload, extra
  <2>3. max_payload = IF sender.max < 5 THEN 0 ELSE sender.max - 5
    BY DEF max_payload, SaturatingSub
  <2>4. phase' = "refused" => 5 + Len(buf) + extra > sender.max
    BY <1>0, <2>1, <2>2, <2>3, SMT
  <2>5. phase' = "sent" => Len(frame') = 5 + Len(buf) + extra /\ 5 + Len(buf) + extra <= sender.max
    BY <1>0, <2>1, <2>2, <2>3, SMT
  <2> QED BY <2>2, <2>4, <2>5 DEF LimitExact, extra
<1>2. CASE Alter
  BY <1>2 DEF Alter, LimitExact
<1>3. CASE UNCHANGED vars
  BY <1>3 DEF vars, LimitExact
<1>4. CASE EncodeMeta \/ EncodeAttachment
  BY <1>4 DEF EncodeMeta, EncodeAttachment, LimitExact
<1>5. CASE Arrive
  <2>1. phase' \notin {"refused", "sent"}
    BY <1>5, ArrivePhase
  <2> QED BY <2>1 DEF LimitExact
<1>6. CASE Gate
  BY <1>6 DEF Gate, LimitExact
<1>7. CASE DecodeHeader \/ DecodePayload \/ DecodeMeta
  BY <1>7 DEF DecodeHeader, DecodePayload, DecodeMeta, LimitExact
<1>8. CASE ReadText \/ ReadData \/ DecodeFinish
  <2>1. phase' \in {"failed", "read", "done"}
    BY <1>8 DEF ReadText, ReadData, DecodeFinish
  <2> QED BY <2>1 DEF LimitExact
<1> QED BY <1>1, <1>2, <1>3, <1>4, <1>5, <1>6, <1>7, <1>8 DEF Next

\* The payload starts with five bytes and nothing is read before a frame arrives.
LEMMA ComposedStep ==
  ASSUME TypeOK, Composed, [Next]_vars
  PROVE  Composed'
<1> USE DEF wireVars, partVars, Fail
<1>0. Len(buf) \in Nat
  BY SMT DEF TypeOK
<1>1. CASE EncodeMeta
  BY <1>1, EncodeMetaBytes DEF EncodeMeta, Composed
<1>2. CASE EncodeAttachment
  <2>1. Len(buf') >= Len(buf) /\ Len(buf') \in Nat
    BY <1>2, EncodeAttachmentBytes, SMT
  <2>2. Len(buf) >= 5 /\ pos = 0 /\ pos' = pos
    BY <1>2 DEF EncodeAttachment, Composed
  <2> QED BY <1>0, <2>1, <2>2, SMT DEF Composed
<1>3. CASE EncodeFinish
  BY <1>3 DEF EncodeFinish, Composed
<1>4. CASE UNCHANGED vars
  BY <1>4 DEF vars, Composed
<1>5. CASE Alter \/ Gate \/ DecodeHeader \/ DecodePayload \/ DecodeMeta
  <2>1. phase' \notin {"meta", "attachments"}
    BY <1>5 DEF Alter, Gate, DecodeHeader, DecodePayload, DecodeMeta
  <2> QED BY <2>1 DEF Composed
<1>6. CASE Arrive
  BY <1>6, ArrivePhase DEF Composed
<1>7. CASE ReadText \/ ReadData \/ DecodeFinish
  <2>1. phase' \in {"failed", "read", "done"}
    BY <1>7 DEF ReadText, ReadData, DecodeFinish
  <2> QED BY <2>1 DEF Composed
<1> QED BY <1>1, <1>2, <1>3, <1>4, <1>5, <1>6, <1>7 DEF Next

\* The reader of a server hands decode only frames whose length is right, and
\* decode takes them past its own checks of the length.
LEMMA GatedStep ==
  ASSUME TypeOK, Gated, LengthErrorsAnswered, [Next]_vars
  PROVE  Gated' /\ LengthErrorsAnswered'
<1> USE DEF wireVars, partVars, Fail
<1>0. /\ buf \in Seq(Bytes) /\ Len(buf) \in Nat /\ u32(buf, 0) \in Nat
      /\ Len(frame) \in Nat
  <2>1. buf \in Seq(Bytes) /\ Len(buf) \in Nat /\ Len(frame) \in Nat
    BY SMT DEF TypeOK
  <2> QED BY <2>1, U32Nat, SMT
<1>m. receiver.max \in Nat
  BY CodecAssumption DEF TypeOK
<1>1. CASE EncodeMeta \/ EncodeAttachment
  BY <1>1 DEF EncodeMeta, EncodeAttachment, Gated, LengthErrorsAnswered
<1>2. CASE EncodeFinish
  BY <1>2 DEF EncodeFinish, Gated, LengthErrorsAnswered
<1>3. CASE Alter
  BY <1>3 DEF Alter, Gated, LengthErrorsAnswered
<1>4. CASE Arrive
  <2>1. /\ phase' \in {"header", "closed", "gate"} /\ (receiver.server => phase' # "header")
        /\ buf' = frame /\ frame' = frame /\ receiver' = receiver
    BY <1>4, ArrivePhase DEF Arrive
  <2> QED BY <2>1 DEF Gated, LengthErrorsAnswered
<1>5. CASE Gate
  <2>1. /\ buf = frame /\ UNCHANGED <<buf, frame, receiver>>
        /\ \/ phase' = "answered"
           \/ /\ phase' = "header" /\ Len(buf) >= 5 /\ u32(buf, 0) = Len(buf) - 4
              /\ ~(Len(buf) > receiver.max)
    BY <1>5 DEF Gate, Gated
  <2>2. ~(Len(buf) > receiver.max) => Len(buf) <= receiver.max
    BY <1>0, <1>m, SMT
  <2> QED BY <2>1, <2>2 DEF Gated, LengthErrorsAnswered
<1>6. CASE DecodeHeader
  <2>1. UNCHANGED <<buf, frame, receiver>> /\ buf = frame /\ phase' \in {"failed", "payload"}
    BY <1>6 DEF DecodeHeader, Gated
  <2>2. CASE receiver.server
    <3>1. Len(buf) >= 5 /\ u32(buf, 0) = Len(buf) - 4 /\ Len(buf) <= receiver.max
      BY <1>6, <2>2 DEF DecodeHeader, Gated
    <3>2. ~(Len(buf) < 5) /\ ~(Len(buf) > receiver.max)
      BY <1>0, <1>m, <3>1, SMT
    <3>3. phase' = "payload" \/ out' = [error |-> "UnknownMessageType"]
      BY <1>6, <3>1, <3>2 DEF DecodeHeader
    <3> QED BY <2>1, <3>1, <3>3, SMT DEF Gated, LengthErrorsAnswered
  <2>3. CASE ~receiver.server
    BY <2>1, <2>3 DEF Gated, LengthErrorsAnswered
  <2> QED BY <2>2, <2>3
<1>7. CASE DecodePayload \/ DecodeMeta \/ ReadText \/ ReadData \/ DecodeFinish
  <2>1. /\ UNCHANGED <<frame, receiver>> /\ phase \in {"payload", "body", "read"}
        /\ \/ phase' \in {"body", "read", "done"}
           \/ /\ phase' = "failed"
              /\ out' \in {[error |-> e] : e \in {"DecryptionFailed", "FrameTooShort",
                             "InvalidAttachmentEncoding", "Json", "MessageTypeMismatch"}}
    <3>1. CASE DecodePayload
      BY <1>7, <3>1 DEF DecodePayload
    <3>2. CASE DecodeMeta
      BY <1>7, <3>2 DEF DecodeMeta
    <3>3. CASE ReadText
      BY <1>7, <3>3 DEF ReadText
    <3>4. CASE ReadData
      BY <1>7, <3>4 DEF ReadData
    <3>5. CASE DecodeFinish
      BY <1>7, <3>5 DEF DecodeFinish
    <3> QED BY <1>7, <3>1, <3>2, <3>3, <3>4, <3>5
  <2>2. receiver.server => Len(frame) >= 5
    BY <2>1 DEF Gated
  <2> QED BY <2>1, <2>2, SMT DEF Gated, LengthErrorsAnswered
<1>8. CASE UNCHANGED vars
  BY <1>8 DEF vars, Gated, LengthErrorsAnswered
<1> QED BY <1>1, <1>2, <1>3, <1>4, <1>5, <1>6, <1>7, <1>8 DEF Next

\* The invariant is inductive.
LEMMA Inductive == IInv /\ [Next]_vars => IInv'
<1> SUFFICES ASSUME IInv, [Next]_vars PROVE IInv'
  OBVIOUS
<1>1. TypeOK' /\ ReadsInside'
  <2>1. CASE UNCHANGED vars
    BY <2>1 DEF IInv, TypeOK, ReadsInside, vars, wireVars, partVars
  <2> QED BY <2>1, SendType, DecodeType DEF IInv, Next
<1>2. Composed'
  BY ComposedStep DEF IInv
<1>3. LimitExact'
  BY LimitStep DEF IInv
<1>4. Gated' /\ LengthErrorsAnswered'
  BY GatedStep DEF IInv
<1> QED BY <1>1, <1>2, <1>3, <1>4 DEF IInv

\* Every state of encode, the way and decode satisfies the inductive invariant.
LEMMA Invariance == Spec => []IInv
  BY InitInv, Inductive, PTL DEF Spec

---------------------------------------------------------------------------
\* Packet bodies and their JSON

\* The kinds of field in Layout
FieldKinds == {"u64", "string", "object", "bool", "u16", "option", "error", "value", "metadata"}

\* The keys of a variant are none of the tag's and the attachments', and each has
\* one of the kinds of field.
LEMMA LayoutTable ==
  ASSUME NEW v \in Variants
  PROVE  /\ "k" \notin DOMAIN Layout[v] /\ "a" \notin DOMAIN Layout[v]
         /\ \A key \in DOMAIN Layout[v] : Layout[v][key] \in FieldKinds
  BY SMT DEF Variants, Layout, K, FieldKinds

\* The tag of a variant is read back as that variant.
LEMMA Tags ==
  ASSUME NEW v \in Variants
  PROVE  /\ K[v] \in 0 .. 5
         /\ \A w \in Variants : K[w] = K[v] => w = v
  BY SMT DEF Variants, K

\* An object is read as the function it was made of.
LEMMA ObjParts ==
  ASSUME NEW f
  PROVE  Is("obj", Obj(f)) /\ Obj(f).obj = f /\ Obj(f) # Absent /\ Obj(f) # Error
  BY SMT DEF Is, Obj, Absent, Error

\* A number is read as itself.
LEMMA NumParts ==
  ASSUME NEW n \in Nat
  PROVE  AsU64(Num(n)) /\ Num(n).num = n /\ Num(n) # Absent /\ Num(n) # Error
  BY SMT DEF AsU64, Is, Num, Absent, Error

\* There are 16-bit numbers.
LEMMA U16Nat == U16 \in Nat /\ U16 > 0
  BY SMT DEF U16

\* take_u16 does not truncate a number of 16 bits.
LEMMA U16Range ==
  ASSUME NEW n \in 0 .. U16 - 1
  PROVE  n \in Nat /\ n < U16 /\ n % U16 = n
  BY U16Nat, SMT

\* An ErrorPayload is read back with its status, and with its details unless they
\* are null.
LEMMA ErrorBack ==
  ASSUME NEW e, e # Absent, HasType("error", e)
  PROVE  ErrorOf(ErrorJson(e)) = Kept("error", e) /\ Kept("error", e) # Error
<1>1. e = [status |-> e.status, details |-> e.details] /\ e.status \in 0 .. U16 - 1
  BY DEF HasType
<1> DEFINE keys == {"status"} \cup (IF e.details = Absent THEN {} ELSE {"details"})
           f == [key \in keys |-> IF key = "status" THEN Num(e.status) ELSE e.details]
<1>2. ErrorJson(e) = Obj(f)
  BY DEF ErrorJson
<1>3. At(f, "status") = Num(e.status)
  BY DEF At
<1>4. At(f, "details") = e.details
  <2>1. CASE e.details = Absent
    <3>1. "details" \notin keys
      BY <2>1, SMT
    <3> QED BY <3>1, <2>1 DEF At
  <2>2. CASE e.details # Absent
    <3>1. "details" \in keys /\ "details" # "status"
      BY <2>2, SMT
    <3> QED BY <3>1 DEF At
  <2> QED BY <2>1, <2>2
<1> HIDE DEF f
<1>5. e.status \in Nat /\ e.status < U16
  BY <1>1, U16Range
<1>o. Is("obj", Obj(f)) /\ Obj(f).obj = f
  BY ObjParts
<1>n. AsU64(Num(e.status)) /\ Num(e.status).num = e.status
  BY <1>5, NumParts
<1>6. ErrorOf(ErrorJson(e)) =
        [status |-> e.status, details |-> IF e.details = Null THEN Absent ELSE e.details]
  BY <1>2, <1>3, <1>4, <1>5, <1>o, <1>n DEF ErrorOf
<1>7. Kept("error", e) = [status |-> e.status,
                          details |-> IF e.details = Null THEN Absent ELSE e.details]
  BY <1>1, SMT DEF Kept
<1>8. Kept("error", e) # Error
  BY <1>7, SMT DEF Error
<1> HIDE DEF keys
<1> QED BY ONLY <1>6, <1>7, <1>8

\* The conversion of a field undoes what Serialize made of it, up to Kept.
LEMMA FieldBack ==
  ASSUME NEW type \in FieldKinds, NEW v, HasType(type, v)
  PROVE  Take(type, Entry(type, v)) = Kept(type, v) /\ Kept(type, v) # Error
<1> USE DEF HasType, Take, Entry, Kept
<1>0. Null # Absent /\ Null # Error /\ Absent # Error /\ EmptyObj # Absent
  BY SMT DEF Null, Absent, Error, EmptyObj, Obj
<1>1. CASE type = "u64"
  <2>1. v # Error
    BY <1>1, SMT DEF AsU64, Is, Error
  <2> QED BY <1>1, <2>1
<1>2. CASE type = "string"
  <2>1. v # Error
    BY <1>2, SMT DEF Is, Error
  <2> QED BY <1>2, <2>1
<1>3. CASE type = "object"
  <2>1. v # Error /\ v # Absent
    BY <1>3, SMT DEF Is, Error, Absent
  <2> QED BY <1>3, <2>1
<1>4. CASE type = "bool"
  <2>1. v # Error
    BY <1>4, SMT DEF Is, Error
  <2> QED BY <1>4, <2>1
<1>5. CASE type = "u16"
  <2>1. AsU64(v) /\ v.num \in 0 .. U16 - 1 /\ v = Num(v.num)
    BY <1>5
  <2>2. v.num % U16 = v.num /\ v.num \in Nat
    BY <2>1, U16Range
  <2>3. v # Error
    BY <2>1, <2>2, NumParts
  <2> QED BY <1>5, <2>1, <2>2, <2>3
<1>6. CASE type = "option"
  <2>1. v # Error
    BY <1>6, SMT DEF AsU64, Is, Error, Absent
  <2>2. ~AsU64(Absent)
    BY SMT DEF AsU64, Is, Absent
  <2> QED BY <1>6, <2>1, <2>2
<1>7. CASE type = "error"
  <2>1. CASE v = Absent
    BY <1>0, <1>7, <2>1 DEF Kept
  <2>2. CASE v # Absent
    <3>1. ErrorJson(v) # Absent
      BY ObjParts DEF ErrorJson
    <3>2. HasType("error", v)
      BY <1>7
    <3>3. ErrorOf(ErrorJson(v)) = Kept("error", v) /\ Kept("error", v) # Error
      BY <2>2, <3>2, ErrorBack
    <3> QED BY <1>7, <2>2, <3>1, <3>3
  <2> QED BY <2>1, <2>2
<1>8. CASE type = "value"
  BY <1>0, <1>8
<1>9. CASE type = "metadata"
  BY <1>0, <1>9 DEF metadata_is_empty
<1> QED BY <1>1, <1>2, <1>3, <1>4, <1>5, <1>6, <1>7, <1>8, <1>9 DEF FieldKinds

\* Deserialize undoes Serialize: whatever the variant and the values of its fields,
\* the body comes back in its normal form, with the attachments of the frame.
THEOREM RoundTrip ==
  ASSUME NEW b, WellFormed(b)
  PROVE  LET d == Deserialize(Serialize(b))
         IN  /\ d # Error /\ d.variant = b.variant
             /\ set_attachments(d, b.attachments) = Canonical(b)
<1> DEFINE layout == Layout[b.variant]
           present == {key \in DOMAIN layout : Entry(layout[key], b.fields[key]) # Absent}
           f == [key \in {"k"} \cup present |->
                    IF key = "k" THEN Num(K[b.variant]) ELSE Entry(layout[key], b.fields[key])]
           kept == [key \in DOMAIN layout |-> Kept(layout[key], b.fields[key])]
<1>1. /\ b = [variant |-> b.variant, fields |-> b.fields, attachments |-> b.attachments]
      /\ b.variant \in Variants
      /\ \A key \in DOMAIN layout : HasType(layout[key], b.fields[key])
      /\ ~CarriesAttachments(b.variant) => b.attachments = <<>>
  BY DEF WellFormed
<1>2. /\ "k" \notin DOMAIN layout /\ "a" \notin DOMAIN layout
      /\ \A key \in DOMAIN layout : layout[key] \in FieldKinds
  BY <1>1, LayoutTable
<1>3. Serialize(b) = Obj(f)
  BY DEF Serialize
<1>4. At(f, "k") = Num(K[b.variant])
  BY DEF At
<1>5. At(f, "a") = Absent
  <2>1. "a" # "k"
    OBVIOUS
  <2> QED BY <1>2, <2>1 DEF At
<1>6. ASSUME NEW key \in DOMAIN layout
      PROVE  At(f, key) = Entry(layout[key], b.fields[key])
  <2>1. key # "k"
    BY <1>2
  <2>2. CASE key \in present
    BY <2>1, <2>2 DEF At
  <2>3. CASE key \notin present
    <3>1. Entry(layout[key], b.fields[key]) = Absent
      BY <2>3
    <3> QED BY <2>1, <2>3, <3>1 DEF At
  <2> QED BY <2>2, <2>3
<1> DEFINE taken == [key \in DOMAIN layout |-> Take(layout[key], At(f, key))]
<1>7. taken = kept /\ \A key \in DOMAIN taken : taken[key] # Error
  <2>1. ASSUME NEW key \in DOMAIN layout
        PROVE  /\ Take(layout[key], At(f, key)) = Kept(layout[key], b.fields[key])
               /\ Kept(layout[key], b.fields[key]) # Error
    <3>1. layout[key] \in FieldKinds /\ HasType(layout[key], b.fields[key])
      BY <1>1, <1>2
    <3> HIDE DEF layout, f
    <3> QED BY <1>6, <3>1, FieldBack
  <2> HIDE DEF layout, f
  <2> QED BY <2>1
<1> DEFINE named == {v \in Variants : AsU64(Num(K[b.variant])) /\ Num(K[b.variant]).num < U8
                                       /\ K[v] = Num(K[b.variant]).num}
<1>8. named = {b.variant}
  <2>1. K[b.variant] \in 0 .. 5 /\ \A w \in Variants : K[w] = K[b.variant] => w = b.variant
    BY <1>1, Tags
  <2>2. K[b.variant] \in Nat /\ K[b.variant] < U8
    BY <2>1, SMT DEF U8
  <2>3. AsU64(Num(K[b.variant])) /\ Num(K[b.variant]).num = K[b.variant]
    BY <2>2, NumParts
  <2> QED BY <1>1, <2>1, <2>2, <2>3
<1>9. (CHOOSE x \in named : TRUE) = b.variant
  BY <1>8
<1>10. ~AttachmentsError(b.variant, Absent)
  BY DEF AttachmentsError
<1>11. Deserialize(Serialize(b)) = [variant |-> b.variant, fields |-> taken, attachments |-> <<>>]
  <2>1. Is("obj", Obj(f)) /\ Obj(f).obj = f
    BY ObjParts
  <2> HIDE DEF f
  <2> QED BY <1>3, <1>4, <1>5, <1>7, <1>8, <1>9, <1>10, <2>1 DEF Deserialize
<1> DEFINE d == [variant |-> b.variant, fields |-> kept, attachments |-> <<>>]
<1>12. Deserialize(Serialize(b)) = d
  BY <1>7, <1>11
<1>13. Canonical(b) = [variant |-> b.variant, fields |-> kept, attachments |-> b.attachments]
  <2>1. Canonical(b) = [b EXCEPT !.fields = kept]
    BY DEF Canonical
  <2> HIDE DEF kept
  <2> QED BY <1>1, <2>1, SMT
<1> HIDE DEF kept
<1>14. d.variant = b.variant /\ d # Error
  BY SMT DEF Error
<1>15. set_attachments(d, b.attachments) =
         [variant |-> b.variant, fields |-> kept, attachments |-> b.attachments]
  <2>1. CASE CarriesAttachments(b.variant)
    BY <2>1, SMT DEF set_attachments
  <2>2. CASE ~CarriesAttachments(b.variant)
    BY <1>1, <2>2, <1>14 DEF set_attachments
  <2> QED BY <2>1, <2>2
<1> QED BY <1>12, <1>13, <1>14, <1>15

---------------------------------------------------------------------------
\* Reading bytes back

\* The bytes w stand in s from position p on.
Holds(s, p, w) == p + Len(w) <= Len(s) /\ \A j \in 1 .. Len(w) : s[p + j] = w[j]

\* A buffer holds itself.
LEMMA HoldsSelf == ASSUME NEW s \in Seq(Bytes) PROVE Holds(s, 0, s)
  BY SMT DEF Holds

\* A buffer holds two parts in a row exactly when it holds each in its place.
LEMMA HoldsCat ==
  ASSUME NEW s \in Seq(Bytes), NEW p \in Nat, NEW u \in Seq(Bytes), NEW v \in Seq(Bytes)
  PROVE  Holds(s, p, u \o v) <=> Holds(s, p, u) /\ Holds(s, p + Len(u), v)
<1>1. /\ Len(u) \in Nat /\ Len(v) \in Nat /\ Len(s) \in Nat /\ Len(u \o v) = Len(u) + Len(v)
      /\ \A j \in 1 .. Len(u) : (u \o v)[j] = u[j]
      /\ \A j \in 1 .. Len(v) : (u \o v)[Len(u) + j] = v[j]
  BY SMT
<1>2. ASSUME Holds(s, p, u \o v)
      PROVE  Holds(s, p, u) /\ Holds(s, p + Len(u), v)
  <2>1. ASSUME NEW j \in 1 .. Len(u) PROVE s[p + j] = u[j]
    <3>1. j \in 1 .. Len(u \o v)
      BY <1>1, <2>1, SMT
    <3> QED BY <1>1, <1>2, <3>1 DEF Holds
  <2>2. ASSUME NEW j \in 1 .. Len(v) PROVE s[p + Len(u) + j] = v[j]
    <3>1. Len(u) + j \in 1 .. Len(u \o v) /\ p + (Len(u) + j) = p + Len(u) + j
      BY <1>1, <2>2, SMT
    <3> QED BY <1>1, <1>2, <3>1 DEF Holds
  <2>3. p + Len(u) <= Len(s) /\ p + Len(u) + Len(v) <= Len(s)
    BY <1>1, <1>2, SMT DEF Holds
  <2> QED BY <2>1, <2>2, <2>3 DEF Holds
<1>3. ASSUME Holds(s, p, u), Holds(s, p + Len(u), v)
      PROVE  Holds(s, p, u \o v)
  <2>1. ASSUME NEW j \in 1 .. Len(u \o v) PROVE s[p + j] = (u \o v)[j]
    <3>1. CASE j \in 1 .. Len(u)
      BY <1>1, <1>3, <3>1 DEF Holds
    <3>2. CASE j \notin 1 .. Len(u)
      <4>1. j - Len(u) \in 1 .. Len(v) /\ Len(u) + (j - Len(u)) = j
            /\ p + Len(u) + (j - Len(u)) = p + j
        BY <1>1, <2>1, <3>2, SMT
      <4>2. s[p + Len(u) + (j - Len(u))] = v[j - Len(u)]
        BY <1>3, <4>1 DEF Holds
      <4>3. (u \o v)[Len(u) + (j - Len(u))] = v[j - Len(u)]
        BY <1>1, <4>1
      <4> QED BY <4>1, <4>2, <4>3
    <3> QED BY <3>1, <3>2
  <2>2. p + Len(u \o v) <= Len(s)
    BY <1>1, <1>3, SMT DEF Holds
  <2> QED BY <2>1, <2>2 DEF Holds
<1> QED BY <1>2, <1>3

\* A buffer that grows holds what is appended and what it held before.
LEMMA HoldsAppended ==
  ASSUME NEW s \in Seq(Bytes), NEW t \in Seq(Bytes)
  PROVE  /\ Holds(s \o t, Len(s), t)
         /\ \A p \in Nat, w \in Seq(Bytes) : Holds(s, p, w) => Holds(s \o t, p, w)
<1>1. /\ Len(s) \in Nat /\ Len(t) \in Nat /\ Len(s \o t) = Len(s) + Len(t)
      /\ \A j \in 1 .. Len(s) : (s \o t)[j] = s[j]
      /\ \A j \in 1 .. Len(t) : (s \o t)[Len(s) + j] = t[j]
  BY SMT
<1>2. Holds(s \o t, Len(s), t)
  BY <1>1, SMT DEF Holds
<1>3. ASSUME NEW p \in Nat, NEW w \in Seq(Bytes), Holds(s, p, w)
      PROVE  Holds(s \o t, p, w)
  <2>1. Len(w) \in Nat /\ p + Len(w) <= Len(s \o t)
    BY <1>1, <1>3, SMT DEF Holds
  <2>2. ASSUME NEW j \in 1 .. Len(w) PROVE (s \o t)[p + j] = w[j]
    <3>1. p + j \in 1 .. Len(s)
      BY <1>1, <1>3, <2>1, SMT DEF Holds
    <3> QED BY <1>1, <1>3, <3>1 DEF Holds
  <2> QED BY <2>1, <2>2 DEF Holds
<1> QED BY <1>2, <1>3

\* The slice of a buffer where it holds w is w.
LEMMA HoldsSlice ==
  ASSUME NEW s \in Seq(Bytes), NEW p \in Nat, NEW w \in Seq(Bytes), Holds(s, p, w)
  PROVE  Slice(s, p, p + Len(w)) = w
<1>1. Len(w) \in Nat /\ Len(s) \in Nat /\ (p + Len(w)) - p = Len(w) /\ p + Len(w) <= Len(s)
  BY SMT DEF Holds
<1>2. ASSUME NEW i \in 1 .. Len(w) PROVE Byte(s, p + i - 1) = w[i]
  <2>1. (p + i - 1) + 1 \in 1 .. Len(s) /\ (p + i - 1) + 1 = p + i
    BY <1>1, SMT
  <2> QED BY <2>1 DEF Byte, Holds
<1>3. w = [i \in 1 .. Len(w) |-> w[i]]
  <2>1. w \in [1 .. Len(w) -> Bytes]
    BY SMT
  <2> QED BY <2>1
<1>4. Slice(s, p, p + Len(w)) = [i \in 1 .. Len(w) |-> Byte(s, p + i - 1)]
  <2>1. 1 .. (p + Len(w)) - p = 1 .. Len(w)
    BY <1>1
  <2> QED BY <2>1 DEF Slice
<1> QED BY <1>2, <1>3, <1>4

\* A byte that was written is read back.
LEMMA HoldsByte ==
  ASSUME NEW s \in Seq(Bytes), NEW p \in Nat, NEW b \in Bytes, Holds(s, p, <<b>>)
  PROVE  Byte(s, p) = b /\ p + 1 <= Len(s)
<1>1. Len(<<b>>) = 1 /\ <<b>>[1] = b /\ 1 \in 1 .. 1
  BY SMT
<1>2. p + 1 <= Len(s) /\ s[p + 1] = b
  BY <1>1 DEF Holds
<1>3. p + 1 \in 1 .. Len(s)
  BY <1>2, SMT
<1> QED BY <1>2, <1>3 DEF Byte

\* A positive factor cancels.
LEMMA Cancel ==
  ASSUME NEW x \in Int, NEW y \in Int, NEW d \in Nat \ {0}, x * d < y * d
  PROVE  x < y
<1> SUFFICES ASSUME x >= y PROVE FALSE
  BY SMT
<1>1. (x - y) * d >= 0
  BY SMT
<1>2. (x - y) * d = x * d - y * d
  BY SMT
<1> QED BY <1>1, <1>2, SMT

\* The quotient by d is the number of times d goes into n.
LEMMA DivRange ==
  ASSUME NEW n \in Nat, NEW d \in Nat \ {0}
  PROVE  n \div d \in Nat /\ (n \div d) * d <= n /\ n < ((n \div d) + 1) * d
<1>1. n \div d \in Nat
  BY SMT
<1>2. n = d * (n \div d) + (n % d) /\ n % d \in 0 .. d - 1
  BY SMT
<1> DEFINE q == n \div d
           r == n % d
<1>3. q \in Nat /\ n = d * q + r /\ r \in 0 .. d - 1
  BY <1>1, <1>2
<1> HIDE DEF q, r
<1>4. d * q = q * d /\ (q + 1) * d = q * d + d
  BY <1>3, SMT
<1>5. q * d <= n /\ n < (q + 1) * d
  BY <1>3, <1>4, SMT
<1> QED BY <1>3, <1>5 DEF q

\* A digit is what is left of a quotient when the digits before it are taken away.
LEMMA Digit ==
  ASSUME NEW n \in Nat, NEW d \in Nat \ {0}, NEW b \in Nat \ {0}
  PROVE  n \div d = (n \div (d * b)) * b + ((n \div d) % b)
<1> DEFINE q == n \div d
           Q == n \div (d * b)
<1>1. d * b \in Nat \ {0}
  BY SMT
<1>2. q \in Nat /\ q * d <= n /\ n < (q + 1) * d
  BY DivRange
<1>3. Q \in Nat /\ Q * (d * b) <= n /\ n < (Q + 1) * (d * b)
  BY <1>1, DivRange
<1> HIDE DEF q, Q
<1>4. Q * (d * b) = (Q * b) * d /\ (Q + 1) * (d * b) = (Q * b + b) * d /\ Q * b \in Nat
  BY <1>3, SMT
<1>5. (Q * b) * d < (q + 1) * d /\ q * d < (Q * b + b) * d
  BY <1>2, <1>3, <1>4, SMT
<1>6. Q * b < q + 1
  BY <1>2, <1>4, <1>5, Cancel, SMT
<1>7. q < Q * b + b
  BY <1>2, <1>4, <1>5, Cancel, SMT
<1>8. q - Q * b \in 0 .. b - 1 /\ q = b * Q + (q - Q * b)
  BY <1>2, <1>3, <1>4, <1>6, <1>7, SMT
<1>9. q % b = q - Q * b
  <2>1. ASSUME NEW r \in 0 .. b - 1, q = b * Q + r PROVE q % b = r
    BY ONLY <1>2, <1>3, <2>1, SMT
  <2> QED BY <1>8, <2>1
<1> QED BY <1>2, <1>4, <1>9, SMT DEF q, Q

\* Four bytes hold the numbers below this one.
Quad == Base * Base * Base * Base

\* The digits of a length below Quad add up to it: the cast to u32 loses nothing.
LEMMA BeDigits ==
  ASSUME NEW n \in Nat, n < Quad
  PROVE  n = ((be(n)[1] * Base + be(n)[2]) * Base + be(n)[3]) * Base + be(n)[4]
<1> DEFINE b1 == be(n)[1]
           b2 == be(n)[2]
           b3 == be(n)[3]
           b4 == be(n)[4]
<1>0. Base \in Nat \ {0} /\ Base * Base \in Nat \ {0} /\ Base * Base * Base \in Nat \ {0}
  BY CodecAssumption, SMT
<1>1. /\ b1 = (n \div (Base * Base * Base)) % Base /\ b2 = (n \div (Base * Base)) % Base
      /\ b3 = (n \div Base) % Base /\ b4 = n % Base
  BY SMT DEF be
<1> HIDE DEF b1, b2, b3, b4
<1>2. n = (n \div Base) * Base + b4
  BY <1>0, <1>1, SMT
<1>3. n \div Base = (n \div (Base * Base)) * Base + b3
  BY <1>0, <1>1, Digit
<1>4. n \div (Base * Base) = (n \div (Base * Base * Base)) * Base + b2
  BY <1>0, <1>1, Digit
<1>5. n \div (Base * Base * Base) = b1
  <2> DEFINE d == Base * Base * Base
             q == n \div d
  <2>1. q \in Nat /\ q * d <= n
    BY <1>0, DivRange
  <2>2. d \in Nat \ {0} /\ n < Base * d
    BY <1>0, SMT DEF Quad
  <2> HIDE DEF d, q
  <2>3. q * d < Base * d
    BY <1>0, <2>1, <2>2, SMT
  <2>4. q < Base
    BY <1>0, <2>1, <2>2, <2>3, Cancel, SMT
  <2>5. q % Base = q
    BY <1>0, <2>1, <2>4, SMT
  <2> QED BY <1>1, <2>5 DEF q, d
<1>6. n = ((b1 * Base + b2) * Base + b3) * Base + b4
  BY <1>2, <1>3, <1>4, <1>5
<1> QED BY <1>6 DEF b1, b2, b3, b4

\* A u32 length that was written is read back.
LEMMA HoldsBe ==
  ASSUME NEW s \in Seq(Bytes), NEW p \in Nat, NEW n \in Nat, n < Quad, Holds(s, p, be(n))
  PROVE  u32(s, p) = n /\ p + 4 <= Len(s)
<1>1. be(n) \in Seq(Bytes) /\ Len(be(n)) = 4
  BY BeBytes
<1>4. p + 4 <= Len(s) /\ \A j \in 1 .. 4 : s[p + j] = be(n)[j]
  BY <1>1 DEF Holds
<1>5. /\ Byte(s, p) = be(n)[1] /\ Byte(s, p + 1) = be(n)[2]
      /\ Byte(s, p + 2) = be(n)[3] /\ Byte(s, p + 3) = be(n)[4]
  <2>1. /\ p + 1 \in 1 .. Len(s) /\ (p + 1) + 1 \in 1 .. Len(s)
        /\ (p + 2) + 1 \in 1 .. Len(s) /\ (p + 3) + 1 \in 1 .. Len(s)
        /\ (p + 1) + 1 = p + 2 /\ (p + 2) + 1 = p + 3 /\ (p + 3) + 1 = p + 4
        /\ 1 \in 1 .. 4 /\ 2 \in 1 .. 4 /\ 3 \in 1 .. 4 /\ 4 \in 1 .. 4
    BY <1>4, SMT
  <2> QED BY <1>4, <2>1 DEF Byte
<1>6. u32(s, p) = ((be(n)[1] * Base + be(n)[2]) * Base + be(n)[3]) * Base + be(n)[4]
  BY <1>5 DEF u32
<1> QED BY <1>4, <1>6, BeDigits

\* Four bytes are a number below Quad.
LEMMA U32Bound ==
  ASSUME NEW s \in Seq(Bytes), NEW i \in Int
  PROVE  u32(s, i) < Quad
<1>1. Base \in Nat /\ Base > 2 /\ Base * Base \in Nat /\ Base * Base * Base \in Nat
  BY CodecAssumption, SMT
<1>2. /\ Byte(s, i) \in 0 .. Base - 1 /\ Byte(s, i + 1) \in 0 .. Base - 1
      /\ Byte(s, i + 2) \in 0 .. Base - 1 /\ Byte(s, i + 3) \in 0 .. Base - 1
  <2>1. i + 1 \in Int /\ i + 2 \in Int /\ i + 3 \in Int
    BY SMT
  <2> QED BY <2>1, ByteIsByte DEF Bytes
<1>3. ASSUME NEW x \in Nat, NEW m \in Nat, x < m, NEW b \in 0 .. Base - 1
      PROVE  x * Base + b \in Nat /\ x * Base + b < m * Base
  <2>1. x * Base \in Nat /\ (x + 1) * Base = x * Base + Base /\ x + 1 <= m
    BY <1>1, <1>3, SMT
  <2>2. (x + 1) * Base <= m * Base
    <3>1. (m - (x + 1)) * Base >= 0 /\ (m - (x + 1)) * Base = m * Base - (x + 1) * Base
      BY <1>1, <1>3, SMT
    <3> QED BY <1>1, <3>1, SMT
  <2> QED BY <1>1, <1>3, <2>1, <2>2, SMT
<1> DEFINE x1 == Byte(s, i)
           x2 == x1 * Base + Byte(s, i + 1)
           x3 == x2 * Base + Byte(s, i + 2)
<1>4. x1 \in Nat /\ x1 < Base
  BY <1>1, <1>2, SMT
<1>5. x2 \in Nat /\ x2 < Base * Base
  <2> HIDE DEF x1
  <2> QED BY <1>1, <1>2, <1>3, <1>4
<1>6. x3 \in Nat /\ x3 < Base * Base * Base
  <2> HIDE DEF x2
  <2> QED BY <1>1, <1>2, <1>3, <1>5
<1>7. x3 * Base + Byte(s, i + 3) < Base * Base * Base * Base
  <2> HIDE DEF x3
  <2> QED BY <1>1, <1>2, <1>3, <1>6
<1> QED BY <1>7 DEF u32, Quad

\* from_utf8_lossy keeps text.
LEMMA LossyKeeps == ASSUME NEW w \in Seq(Chars) PROVE lossy(w) = w
<1>1. w \in [1 .. Len(w) -> Chars] /\ DOMAIN w = 1 .. Len(w)
  BY SMT
<1> QED BY <1>1 DEF lossy

\* The texts of an attachment, and where each part of it begins.
Texts(a) == <<a.id, a.name, a.content_type>>
Start(a, j) ==
    CASE j = 1 -> 0
      [] j = 2 -> 1 + Len(a.id)
      [] j = 3 -> 1 + Len(a.id) + 1 + Len(a.name)
      [] j = 4 -> 1 + Len(a.id) + 1 + Len(a.name) + 1 + Len(a.content_type)

\* Where write_wire puts the texts, their lengths and the data.
LEMMA WireParts ==
  ASSUME NEW s \in Seq(Bytes), NEW p \in Nat, NEW a \in Attachment, Holds(s, p, write_wire(a))
  PROVE  /\ \A j \in 1 .. 3 :
              /\ Start(a, j) \in Nat /\ Texts(a)[j] \in Seq(Bytes)
              /\ Holds(s, p + Start(a, j), <<u8(Len(Texts(a)[j]))>>)
              /\ Holds(s, p + Start(a, j) + 1, Texts(a)[j])
              /\ Start(a, j + 1) = Start(a, j) + 1 + Len(Texts(a)[j])
         /\ Start(a, 4) \in Nat
         /\ Holds(s, p + Start(a, 4), be(Len(a.data)))
         /\ Holds(s, p + Start(a, 4) + 4, a.data)
         /\ Len(write_wire(a)) = Start(a, 4) + 4 + Len(a.data)
<1> DEFINE l1 == <<u8(Len(a.id))>>
           l2 == <<u8(Len(a.name))>>
           l3 == <<u8(Len(a.content_type))>>
           l4 == be(Len(a.data))
<1>1. /\ a.id \in Seq(Bytes) /\ a.name \in Seq(Bytes)
      /\ a.content_type \in Seq(Bytes) /\ a.data \in Seq(Bytes)
  BY DEF Attachment
<1>2. /\ Len(a.id) \in Nat /\ Len(a.name) \in Nat
      /\ Len(a.content_type) \in Nat /\ Len(a.data) \in Nat
  BY <1>1, SMT
<1>3. \A n \in Nat : <<u8(n)>> \in Seq(Bytes) /\ Len(<<u8(n)>>) = 1
  <2> SUFFICES ASSUME NEW n \in Nat PROVE <<u8(n)>> \in Seq(Bytes) /\ Len(<<u8(n)>>) = 1
    OBVIOUS
  <2>1. u8(n) \in Bytes
    BY ModByte DEF u8
  <2> QED BY <2>1, SMT
<1>4. /\ l1 \in Seq(Bytes) /\ Len(l1) = 1 /\ l2 \in Seq(Bytes) /\ Len(l2) = 1
      /\ l3 \in Seq(Bytes) /\ Len(l3) = 1 /\ l4 \in Seq(Bytes) /\ Len(l4) = 4
  BY <1>2, <1>3, BeBytes
<1> DEFINE w1 == l1 \o a.id
           w2 == w1 \o l2
           w3 == w2 \o a.name
           w4 == w3 \o l3
           w5 == w4 \o a.content_type
           w6 == w5 \o l4
<1>5. write_wire(a) = w6 \o a.data
  BY DEF write_wire
<1> HIDE DEF l1, l2, l3, l4
<1>6. w1 \in Seq(Bytes) /\ Len(w1) = 1 + Len(a.id)
  <2>1. w1 \in Seq(Bytes) /\ Len(w1) = Len(l1) + Len(a.id)
    BY <1>1, <1>4, Cat
  <2> QED BY ONLY <1>4, <2>1
<1> HIDE DEF w1
<1>7. w2 \in Seq(Bytes) /\ Len(w2) = 1 + Len(a.id) + 1
  BY <1>4, <1>6, Cat
<1> HIDE DEF w2
<1>8. w3 \in Seq(Bytes) /\ Len(w3) = 1 + Len(a.id) + 1 + Len(a.name)
  BY <1>1, <1>7, Cat
<1> HIDE DEF w3
<1>9. w4 \in Seq(Bytes) /\ Len(w4) = 1 + Len(a.id) + 1 + Len(a.name) + 1
  BY <1>4, <1>8, Cat
<1> HIDE DEF w4
<1>10. w5 \in Seq(Bytes) /\ Len(w5) = 1 + Len(a.id) + 1 + Len(a.name) + 1 + Len(a.content_type)
  BY <1>1, <1>9, Cat
<1> HIDE DEF w5
<1>11. w6 \in Seq(Bytes) /\ Len(w6) = Len(w5) + 4
  BY <1>4, <1>10, Cat
<1> HIDE DEF w6
<1>12. Holds(s, p, w6) /\ Holds(s, p + Len(w6), a.data)
  <2>1. Holds(s, p, w6 \o a.data)
    BY <1>5
  <2> QED BY <1>1, <1>11, <2>1, HoldsCat
<1>13. Holds(s, p, w5) /\ Holds(s, p + Len(w5), l4)
  BY <1>4, <1>10, <1>12, HoldsCat DEF w6
<1>14. Holds(s, p, w4) /\ Holds(s, p + Len(w4), a.content_type)
  BY <1>1, <1>9, <1>13, HoldsCat DEF w5
<1>15. Holds(s, p, w3) /\ Holds(s, p + Len(w3), l3)
  BY <1>4, <1>8, <1>14, HoldsCat DEF w4
<1>16. Holds(s, p, w2) /\ Holds(s, p + Len(w2), a.name)
  BY <1>1, <1>7, <1>15, HoldsCat DEF w3
<1>17. Holds(s, p, w1) /\ Holds(s, p + Len(w1), l2)
  BY <1>4, <1>6, <1>16, HoldsCat DEF w2
<1>18. Holds(s, p, l1) /\ Holds(s, p + Len(l1), a.id)
  BY <1>1, <1>4, <1>17, HoldsCat DEF w1
<1>19. /\ Start(a, 1) = 0 /\ Start(a, 2) = 1 + Len(a.id)
       /\ Start(a, 3) = 1 + Len(a.id) + 1 + Len(a.name)
       /\ Start(a, 4) = 1 + Len(a.id) + 1 + Len(a.name) + 1 + Len(a.content_type)
  BY SMT DEF Start
<1>20. Texts(a)[1] = a.id /\ Texts(a)[2] = a.name /\ Texts(a)[3] = a.content_type
  BY SMT DEF Texts
<1>21. /\ Start(a, 1) \in Nat /\ Start(a, 2) \in Nat /\ Start(a, 3) \in Nat /\ Start(a, 4) \in Nat
       /\ p + Start(a, 1) = p /\ p + Start(a, 1) + 1 = p + 1
       /\ p + Start(a, 2) = p + Len(w1) /\ p + Start(a, 2) + 1 = p + Len(w2)
       /\ p + Start(a, 3) = p + Len(w3) /\ p + Start(a, 3) + 1 = p + Len(w4)
       /\ p + Start(a, 4) = p + Len(w5) /\ p + Start(a, 4) + 4 = p + Len(w6)
       /\ Start(a, 2) = Start(a, 1) + 1 + Len(a.id)
       /\ Start(a, 3) = Start(a, 2) + 1 + Len(a.name)
       /\ Start(a, 4) = Start(a, 3) + 1 + Len(a.content_type)
  <2> DEFINE i == Len(a.id)
             n == Len(a.name)
             c == Len(a.content_type)
  <2>1. i \in Nat /\ n \in Nat /\ c \in Nat
    BY <1>2
  <2>2. /\ Len(w1) = 1 + i /\ Len(w2) = 1 + i + 1 /\ Len(w3) = 1 + i + 1 + n
        /\ Len(w4) = 1 + i + 1 + n + 1 /\ Len(w5) = 1 + i + 1 + n + 1 + c
        /\ Len(w6) = 1 + i + 1 + n + 1 + c + 4
    BY <1>6, <1>7, <1>8, <1>9, <1>10, <1>11
  <2>3. /\ Start(a, 1) = 0 /\ Start(a, 2) = 1 + i
        /\ Start(a, 3) = 1 + i + 1 + n /\ Start(a, 4) = 1 + i + 1 + n + 1 + c
    BY <1>19
  <2> HIDE DEF i, n, c
  <2>4. p \in Nat
    OBVIOUS
  <2>5. /\ Start(a, 1) \in Nat /\ Start(a, 2) \in Nat /\ Start(a, 3) \in Nat /\ Start(a, 4) \in Nat
        /\ p + Start(a, 1) = p /\ p + Start(a, 1) + 1 = p + 1
    BY ONLY <2>1, <2>3, <2>4
  <2>6. /\ p + Start(a, 2) = p + Len(w1) /\ p + Start(a, 2) + 1 = p + Len(w2)
        /\ p + Start(a, 3) = p + Len(w3) /\ p + Start(a, 3) + 1 = p + Len(w4)
        /\ p + Start(a, 4) = p + Len(w5) /\ p + Start(a, 4) + 4 = p + Len(w6)
    <3>1. /\ Start(a, 2) = Len(w1) /\ Start(a, 2) + 1 = Len(w2)
          /\ Start(a, 3) = Len(w3) /\ Start(a, 3) + 1 = Len(w4)
          /\ Start(a, 4) = Len(w5) /\ Start(a, 4) + 4 = Len(w6)
      BY ONLY <2>2, <2>3
    <3>2. ASSUME NEW x \in Nat PROVE p + x + 1 = p + (x + 1) /\ p + x + 4 = p + (x + 4)
      BY ONLY <2>4, <3>2
    <3> QED BY <2>5, <3>1, <3>2
  <2>7. /\ Start(a, 2) = Start(a, 1) + 1 + i
        /\ Start(a, 3) = Start(a, 2) + 1 + n
        /\ Start(a, 4) = Start(a, 3) + 1 + c
    BY ONLY <2>1, <2>3
  <2> QED BY <2>5, <2>6, <2>7 DEF i, n, c
<1>22. Len(write_wire(a)) = Start(a, 4) + 4 + Len(a.data)
  <2>1. Len(write_wire(a)) = Len(w6) + Len(a.data)
    BY <1>1, <1>5, <1>11, Cat
  <2> QED BY <1>10, <1>11, <1>19, <2>1
<1>23. \A j \in 1 .. 3 :
         /\ Start(a, j) \in Nat /\ Texts(a)[j] \in Seq(Bytes)
         /\ Holds(s, p + Start(a, j), <<u8(Len(Texts(a)[j]))>>)
         /\ Holds(s, p + Start(a, j) + 1, Texts(a)[j])
         /\ Start(a, j + 1) = Start(a, j) + 1 + Len(Texts(a)[j])
  <2> SUFFICES ASSUME NEW j \in 1 .. 3
               PROVE  /\ Start(a, j) \in Nat /\ Texts(a)[j] \in Seq(Bytes)
                      /\ Holds(s, p + Start(a, j), <<u8(Len(Texts(a)[j]))>>)
                      /\ Holds(s, p + Start(a, j) + 1, Texts(a)[j])
                      /\ Start(a, j + 1) = Start(a, j) + 1 + Len(Texts(a)[j])
    OBVIOUS
  <2>0. 1 + 1 = 2 /\ 2 + 1 = 3 /\ 3 + 1 = 4
    BY SMT
  <2>1. CASE j = 1
    BY <1>1, <1>4, <1>18, <1>20, <1>21, <2>0, <2>1 DEF l1
  <2>2. CASE j = 2
    BY <1>1, <1>16, <1>17, <1>20, <1>21, <2>0, <2>2 DEF l2
  <2>3. CASE j = 3
    BY <1>1, <1>14, <1>15, <1>20, <1>21, <2>0, <2>3 DEF l3
  <2>4. j = 1 \/ j = 2 \/ j = 3
    BY SMT
  <2> QED BY <2>1, <2>2, <2>3, <2>4
<1> QED BY <1>12, <1>13, <1>21, <1>22, <1>23 DEF l4

---------------------------------------------------------------------------
\* What encode writes, and how far decode has read it

\* The JSON text of a packet, and what encode writes before the attachments.
Json(body) == Text[Serialize(body)]
Lead(body) == be(Len(Json(body))) \o Json(body) \o <<u8(Len(body.attachments))>>

\* s is the lead and the first k attachments; the i-th ends at off[i].
Laid(s, off, body, k) ==
    /\ off \in [0 .. k -> Nat] /\ off[0] = Len(Lead(body)) /\ off[k] = Len(s)
    /\ \A i \in 1 .. k :
         /\ off[i] = off[i - 1] + Len(write_wire(body.attachments[i]))
         /\ Holds(s, off[i - 1], write_wire(body.attachments[i]))

\* The first k attachments have been written.
Written(s, body, k) == Holds(s, 0, Lead(body)) /\ \E off : Laid(s, off, body, k)

\* The JSON of a packet and its lead are bytes, of these lengths.
LEMMA LeadBytes ==
  ASSUME NEW b \in Packets
  PROVE  /\ Json(b) \in Seq(Bytes) /\ Len(Json(b)) \in Nat
         /\ b.attachments \in Seq(Attachment) /\ Len(b.attachments) \in Nat
         /\ be(Len(Json(b))) \in Seq(Bytes) /\ Len(be(Len(Json(b)))) = 4
         /\ <<u8(Len(b.attachments))>> \in Seq(Bytes) /\ Len(<<u8(Len(b.attachments))>>) = 1
         /\ be(Len(Json(b))) \o Json(b) \in Seq(Bytes)
         /\ Len(be(Len(Json(b))) \o Json(b)) = 4 + Len(Json(b))
         /\ Lead(b) \in Seq(Bytes) /\ Len(Lead(b)) = 4 + Len(Json(b)) + 1
<1>1. Json(b) \in Seq(Bytes) /\ b.attachments \in Seq(Attachment)
  BY PacketAssumption, TextAssumption DEF Json
<1>2. Len(Json(b)) \in Nat /\ Len(b.attachments) \in Nat
  BY <1>1, SMT
<1> DEFINE lead == be(Len(Json(b)))
           number == <<u8(Len(b.attachments))>>
<1>3. lead \in Seq(Bytes) /\ Len(lead) = 4
  BY <1>2, BeBytes
<1>4. number \in Seq(Bytes) /\ Len(number) = 1
  <2>1. u8(Len(b.attachments)) \in Bytes
    BY <1>2, ModByte DEF u8
  <2> QED BY <2>1, SMT
<1>5. Lead(b) = (lead \o Json(b)) \o number
  BY DEF Lead
<1> HIDE DEF lead, number
<1>6. lead \o Json(b) \in Seq(Bytes) /\ Len(lead \o Json(b)) = 4 + Len(Json(b))
  <2>1. lead \o Json(b) \in Seq(Bytes) /\ Len(lead \o Json(b)) = Len(lead) + Len(Json(b))
    BY <1>1, <1>3, Cat
  <2> QED BY ONLY <1>3, <2>1
<1>7. Lead(b) \in Seq(Bytes) /\ Len(Lead(b)) = Len(lead \o Json(b)) + Len(number)
  BY <1>4, <1>5, <1>6, Cat
<1>8. Len(Lead(b)) = 4 + Len(Json(b)) + 1
  BY ONLY <1>4, <1>6, <1>7
<1> QED BY <1>1, <1>2, <1>3, <1>4, <1>6, <1>7, <1>8 DEF lead, number

\* Before the first attachment the lead alone is written.
LEMMA WrittenLead == ASSUME NEW b \in Packets PROVE Written(Lead(b), b, 0)
<1> DEFINE off == [i \in 0 .. 0 |-> Len(Lead(b))]
<1>1. Lead(b) \in Seq(Bytes) /\ Len(Lead(b)) \in Nat
  BY LeadBytes, SMT
<1>2. Holds(Lead(b), 0, Lead(b))
  BY <1>1, HoldsSelf
<1>3. 0 \in 0 .. 0 /\ 1 .. 0 = {}
  BY SMT
<1>4. Laid(Lead(b), off, b, 0)
  <2> HIDE DEF Lead
  <2> QED BY <1>1, <1>3 DEF Laid
<1> QED BY <1>2, <1>4 DEF Written

\* write_wire adds the next attachment to those written.
LEMMA WrittenMore ==
  ASSUME NEW b \in Packets, NEW s \in Seq(Bytes), NEW k \in Nat, k < Len(b.attachments),
         Written(s, b, k)
  PROVE  Written(s \o write_wire(b.attachments[k + 1]), b, k + 1)
<1> DEFINE w == write_wire(b.attachments[k + 1])
           t == s \o w
<1>1. b.attachments[k + 1] \in Attachment
  BY LeadBytes, SMT
<1>2. w \in Seq(Bytes) /\ t \in Seq(Bytes)
  BY <1>1, WireBytes, Cat
<1>3. Len(w) \in Nat /\ Len(s) \in Nat /\ Len(t) = Len(s) + Len(w)
  BY <1>2, Cat, SMT
<1>4. Lead(b) \in Seq(Bytes)
  BY LeadBytes
<1>5. Holds(t, 0, Lead(b))
  BY <1>2, <1>4, HoldsAppended DEF Written
<1>6. PICK off : Laid(s, off, b, k)
  BY DEF Written
<1> DEFINE more == [i \in 0 .. k + 1 |-> IF i \in 0 .. k THEN off[i] ELSE Len(t)]
<1>7. /\ off \in [0 .. k -> Nat] /\ off[0] = Len(Lead(b)) /\ off[k] = Len(s)
      /\ \A i \in 1 .. k : /\ off[i] = off[i - 1] + Len(write_wire(b.attachments[i]))
                           /\ Holds(s, off[i - 1], write_wire(b.attachments[i]))
  BY <1>6 DEF Laid
<1>8. /\ 0 \in 0 .. k /\ k \in 0 .. k /\ k + 1 \in 0 .. k + 1 /\ k + 1 \notin 0 .. k
      /\ (k + 1) - 1 = k /\ 0 .. k \subseteq 0 .. k + 1
      /\ \A i \in 0 .. k + 1 : i \in 0 .. k \/ i = k + 1
      /\ \A i \in 1 .. k + 1 : i \in 1 .. k \/ i = k + 1
      /\ \A i \in 1 .. k : i \in 0 .. k /\ i - 1 \in 0 .. k
  BY SMT
<1>9. \A i \in 1 .. k : b.attachments[i] \in Attachment
  BY LeadBytes, SMT
<1> HIDE DEF w, t
<1>10. more[k + 1] = Len(t) /\ \A i \in 0 .. k : more[i] = off[i]
  BY <1>8
<1>11. more \in [0 .. k + 1 -> Nat]
  <2>1. Len(t) \in Nat
    BY <1>3, SMT
  <2> QED BY <1>7, <2>1
<1> HIDE DEF more
<1>12. ASSUME NEW i \in 1 .. k + 1
       PROVE  /\ more[i] = more[i - 1] + Len(write_wire(b.attachments[i]))
              /\ Holds(t, more[i - 1], write_wire(b.attachments[i]))
  <2>1. CASE i = k + 1
    <3>1. more[i] = Len(t) /\ more[i - 1] = Len(s)
      BY <1>7, <1>8, <1>10, <2>1
    <3>2. Holds(t, Len(s), w)
      BY <1>2, HoldsAppended DEF t
    <3> QED BY <1>3, <2>1, <3>1, <3>2 DEF w
  <2>2. CASE i \in 1 .. k
    <3>1. more[i] = off[i] /\ more[i - 1] = off[i - 1] /\ off[i - 1] \in Nat
      BY <1>7, <1>8, <1>10, <2>2
    <3>2. write_wire(b.attachments[i]) \in Seq(Bytes)
      BY <1>9, <2>2, WireBytes
    <3>3. Holds(s, off[i - 1], write_wire(b.attachments[i]))
      BY <1>7, <2>2
    <3>4. Holds(t, off[i - 1], write_wire(b.attachments[i]))
      BY <1>2, <3>1, <3>2, <3>3, HoldsAppended DEF t
    <3> QED BY <1>7, <2>2, <3>1, <3>4
  <2> QED BY <1>8, <2>1, <2>2
<1>13. Laid(t, more, b, k + 1)
  BY <1>7, <1>8, <1>10, <1>11, <1>12 DEF Laid
<1> QED BY <1>5, <1>13 DEF Written, t, w

\* A length that fits a u8 survives the cast.
LEMMA SmallLength == ASSUME NEW n \in Nat, n < Base PROVE u8(n) = n /\ n \in Bytes
<1>1. Base \in Nat
  BY CodecAssumption
<1>2. n % Base = n /\ n \in 0 .. Base - 1
  BY ONLY n \in Nat, n < Base, <1>1, SMT
<1> QED BY <1>2 DEF u8, Bytes

\* decode reads the length, the JSON and the count that encode wrote.
LEMMA LeadRead ==
  ASSUME NEW b \in Packets, NEW s \in Seq(Bytes), Holds(s, 0, Lead(b)),
         Len(s) < Quad, Len(b.attachments) < Base
  PROVE  /\ Len(s) >= 5 /\ Len(s) >= 4 + u32(s, 0) + 1
         /\ u32(s, 0) = Len(Json(b)) /\ Slice(s, 4, 4 + Len(Json(b))) = Json(b)
         /\ Byte(s, 4 + Len(Json(b))) = Len(b.attachments)
<1> DEFINE json == Json(b)
           lead == be(Len(json))
           number == <<u8(Len(b.attachments))>>
<1>1. /\ json \in Seq(Bytes) /\ Len(json) \in Nat /\ Len(b.attachments) \in Nat
      /\ lead \in Seq(Bytes) /\ Len(lead) = 4
      /\ number \in Seq(Bytes) /\ Len(number) = 1
      /\ lead \o json \in Seq(Bytes) /\ Len(lead \o json) = 4 + Len(json)
      /\ Len(Lead(b)) = 4 + Len(json) + 1
  BY LeadBytes
<1>2. Lead(b) = (lead \o json) \o number
  BY DEF Lead
<1> HIDE DEF json, lead, number
<1>3. Len(s) \in Nat /\ 4 + Len(json) + 1 <= Len(s)
  BY <1>1, SMT DEF Holds
<1>4. Holds(s, 0, lead \o json) /\ Holds(s, 0 + Len(lead \o json), number)
  <2>1. Holds(s, 0, (lead \o json) \o number) /\ 0 \in Nat
    BY <1>2, SMT
  <2>2. lead \o json \in Seq(Bytes) /\ number \in Seq(Bytes)
    BY <1>1
  <2> QED BY ONLY s \in Seq(Bytes), <2>1, <2>2, HoldsCat, Zenon
<1>5. Holds(s, 0, lead) /\ Holds(s, 0 + Len(lead), json)
  BY <1>1, <1>4, HoldsCat
<1>6. 0 + Len(lead) = 4 /\ 0 + Len(lead \o json) = 4 + Len(json) /\ 4 + Len(json) \in Nat
  BY <1>1, SMT
<1>7. Len(json) < Quad
  <2>1. Quad \in Nat
    BY CodecAssumption, SMT DEF Quad
  <2> QED BY <1>1, <1>3, <2>1, SMT
<1>8. u32(s, 0) = Len(json)
  BY <1>1, <1>5, <1>7, HoldsBe DEF lead
<1>9. Slice(s, 4, 4 + Len(json)) = json
  BY <1>1, <1>5, <1>6, HoldsSlice
<1>10. u8(Len(b.attachments)) = Len(b.attachments) /\ Len(b.attachments) \in Bytes
  BY <1>1, SmallLength
<1>11. Byte(s, 4 + Len(json)) = Len(b.attachments)
  <2>1. Holds(s, 4 + Len(json), <<Len(b.attachments)>>)
    BY <1>4, <1>6, <1>10 DEF number
  <2> QED BY <1>6, <1>10, <2>1, HoldsByte
<1>12. Len(s) >= 5 /\ Len(s) >= 4 + u32(s, 0) + 1
  BY <1>1, <1>3, <1>8, SMT
<1> QED BY <1>8, <1>9, <1>11, <1>12 DEF json

\* decode finds the message type, the payload and, if it fits a u32, the length of
\* a frame as it was encoded.
LEMMA FrameParts ==
  ASSUME NEW payload \in Seq(Bytes), NEW t \in Bytes, NEW f,
         f = be(1 + Len(payload)) \o <<t>> \o payload
  PROVE  /\ f \in Seq(Bytes) /\ Len(f) = 5 + Len(payload)
         /\ Byte(f, 4) = t /\ Slice(f, 5, Len(f)) = payload
         /\ 1 + Len(payload) < Quad => u32(f, 0) = 1 + Len(payload)
<1> DEFINE lead == be(1 + Len(payload))
<1>1. Len(payload) \in Nat /\ 1 + Len(payload) \in Nat
  BY SMT
<1>2. lead \in Seq(Bytes) /\ Len(lead) = 4
  BY <1>1, BeBytes
<1>3. <<t>> \in Seq(Bytes) /\ Len(<<t>>) = 1
  BY SMT
<1>4. f = (lead \o <<t>>) \o payload
  OBVIOUS
<1> HIDE DEF lead
<1>5. lead \o <<t>> \in Seq(Bytes) /\ Len(lead \o <<t>>) = 5
  <2>1. lead \o <<t>> \in Seq(Bytes) /\ Len(lead \o <<t>>) = Len(lead) + Len(<<t>>)
    BY <1>2, <1>3, Cat
  <2> QED BY ONLY <1>2, <1>3, <2>1
<1>6. f \in Seq(Bytes) /\ Len(f) = 5 + Len(payload)
  BY <1>4, <1>5, Cat
<1>7. Holds(f, 0, f)
  BY <1>6, HoldsSelf
<1>8. Holds(f, 0, lead \o <<t>>) /\ Holds(f, 0 + 5, payload)
  <2>1. Holds(f, 0, (lead \o <<t>>) \o payload)
    BY <1>4, <1>7
  <2>2. 0 \in Nat
    BY SMT
  <2>3. Holds(f, 0, lead \o <<t>>) /\ Holds(f, 0 + Len(lead \o <<t>>), payload)
    BY ONLY payload \in Seq(Bytes), <1>5, <1>6, <2>1, <2>2, HoldsCat, Zenon
  <2> QED BY <1>5, <2>3
<1>9. Holds(f, 0, lead) /\ Holds(f, 0 + 4, <<t>>)
  BY <1>2, <1>3, <1>6, <1>8, HoldsCat
<1>10. 0 + 5 = 5 /\ 0 + 4 = 4
  BY SMT
<1>11. Byte(f, 4) = t
  BY <1>6, <1>9, <1>10, HoldsByte
<1>12. Slice(f, 5, Len(f)) = payload
  <2>1. 5 \in Nat
    BY SMT
  <2> QED BY <1>6, <1>8, <1>10, <2>1, HoldsSlice
<1>13. 1 + Len(payload) < Quad => u32(f, 0) = 1 + Len(payload)
  BY <1>1, <1>6, <1>9, HoldsBe DEF lead
<1> QED BY <1>6, <1>11, <1>12, <1>13

\* read_wire reads a text that write_wire wrote, and then stands at the next part.
LEMMA TextRead ==
  ASSUME NEW s \in Seq(Bytes), NEW p \in Nat, NEW a \in Attachment, Holds(s, p, write_wire(a)),
         NEW j \in 1 .. 3, Len(Texts(a)[j]) < Base, Texts(a)[j] \in Seq(Chars)
  PROVE  LET q == p + Start(a, j)
             n == Byte(s, q)
         IN  /\ q \in Nat /\ q < Len(s) /\ n \in Nat /\ q + 1 + n <= Len(s)
             /\ lossy(Slice(s, q + 1, q + 1 + n)) = Texts(a)[j]
             /\ q + 1 + n = p + Start(a, j + 1)
<1> DEFINE w == Texts(a)[j]
           q == p + Start(a, j)
<1>1. /\ Start(a, j) \in Nat /\ w \in Seq(Bytes)
      /\ Holds(s, q, <<u8(Len(w))>>) /\ Holds(s, q + 1, w)
      /\ Start(a, j + 1) = Start(a, j) + 1 + Len(w)
  BY WireParts
<1>0. Len(w) < Base /\ w \in Seq(Chars)
  OBVIOUS
<1> HIDE DEF w
<1>2. q \in Nat /\ q + 1 \in Nat /\ Len(w) \in Nat /\ Len(s) \in Nat
  BY <1>1, SMT
<1>3. u8(Len(w)) = Len(w) /\ Len(w) \in Bytes
  BY <1>0, <1>2, SmallLength
<1>4. Byte(s, q) = Len(w) /\ q + 1 <= Len(s)
  BY <1>1, <1>2, <1>3, HoldsByte
<1>5. Slice(s, q + 1, q + 1 + Len(w)) = w
  BY <1>1, <1>2, HoldsSlice
<1>6. q + 1 + Len(w) <= Len(s) /\ q < Len(s)
  BY <1>1, <1>2, <1>4, SMT DEF Holds
<1>7. q + 1 + Len(w) = p + Start(a, j + 1)
  BY <1>1, <1>2, SMT
<1>8. lossy(w) = w
  BY <1>0, LossyKeeps
<1> QED BY <1>2, <1>4, <1>5, <1>6, <1>7, <1>8 DEF w

\* read_wire reads the data that write_wire wrote, and then stands at the end.
LEMMA DataRead ==
  ASSUME NEW s \in Seq(Bytes), NEW p \in Nat, NEW a \in Attachment, Holds(s, p, write_wire(a)),
         Len(s) < Quad, NEW q, q = p + Start(a, 4)
  PROVE  LET n == u32(s, q)
         IN  /\ q + 4 <= Len(s) /\ q + 4 + n <= Len(s)
             /\ Slice(s, q + 4, q + 4 + n) = a.data
             /\ q + 4 + n = p + Len(write_wire(a))
<1> DEFINE w == a.data
<1>1. /\ Start(a, 4) \in Nat /\ Holds(s, q, be(Len(w))) /\ Holds(s, q + 4, w)
      /\ Len(write_wire(a)) = Start(a, 4) + 4 + Len(w)
  BY WireParts
<1>0. w \in Seq(Bytes)
  BY DEF Attachment
<1> HIDE DEF w
<1>2. q \in Nat /\ q + 4 \in Nat /\ Len(w) \in Nat /\ Len(s) \in Nat
  BY <1>0, <1>1, SMT
<1>3. q + 4 + Len(w) <= Len(s) /\ q + 4 <= Len(s)
  <2>1. q + 4 + Len(w) <= Len(s)
    BY <1>1 DEF Holds
  <2> QED BY ONLY <1>2, <2>1, SMT
<1>4. Len(w) < Quad
  <2>1. Quad \in Nat
    BY CodecAssumption, SMT DEF Quad
  <2> QED BY <1>2, <1>3, <2>1, SMT
<1>5. u32(s, q) = Len(w)
  BY <1>1, <1>2, <1>4, HoldsBe
<1>6. Slice(s, q + 4, q + 4 + Len(w)) = w
  BY <1>0, <1>1, <1>2, HoldsSlice
<1>7. q + 4 + Len(w) = p + Len(write_wire(a))
  BY ONLY p \in Nat, q = p + Start(a, 4), <1>1, <1>2, SMT
<1> QED BY <1>3, <1>5, <1>6, <1>7 DEF w

\* The JSON text of a packet is parsed as the value it was made of.
LEMMA JsonBack == ASSUME NEW b \in Packets PROVE FromSlice(Json(b)) = Deserialize(Serialize(b))
<1> DEFINE parsed == {v \in DOMAIN Text : Text[v] = Json(b)}
<1>1. parsed = {Serialize(b)}
  BY PacketAssumption, TextAssumption DEF Json
<1>2. (CHOOSE v \in parsed : TRUE) = Serialize(b)
  BY <1>1
<1> QED BY <1>1, <1>2 DEF FromSlice

---------------------------------------------------------------------------
\* The inductive invariant of what encode writes and decode reads

\* encode has written the attachments that are not left to do.
Encoding ==
    phase = "attachments" =>
        LET k == Len(packet.attachments) - Len(todo)
        IN  /\ k \in Nat
            /\ \A i \in 1 .. Len(todo) : todo[i] = packet.attachments[k + i]
            /\ Written(buf, packet, k)

\* What was sealed is the whole packet, and the frame is as it was encoded
\* unless it changed on the way.
Sealed ==
    phase \notin {"meta", "attachments", "refused"} =>
        /\ Written(sealed.plain, packet, Len(packet.attachments))
        /\ sealed.key = sender.key
        /\ sealed.payload = IF sender.key = NoKey THEN sealed.plain ELSE Encrypted(sealed.plain)
        /\ 5 + Len(sealed.payload) <= sender.max
        /\ ~altered => frame = be(1 + Len(sealed.payload)) \o <<message_type(packet.variant)>>
                                 \o sealed.payload

\* decode works on what was sealed: it has a key, or nobody touched the frame.
Genuine == receiver.key # NoKey \/ (~altered /\ receiver.key = sender.key)

\* What decode has made of the frame before it reads attachments.
Opened ==
    /\ phase \in {"gate", "header", "payload"} => buf = frame
    /\ phase = "payload" => Len(buf) >= 5 /\ Len(buf) < Quad + 4
    /\ phase \in {"payload", "body", "read"} /\ ~altered => kind = message_type(packet.variant)
    /\ phase \in {"body", "read"} /\ Genuine => buf = sealed.plain /\ Len(buf) < Quad
    /\ phase \notin {"read", "failed", "done"} => part = 1 /\ att = <<>> /\ atts = <<>>

\* decode has read the JSON, some attachments and some texts of the next one,
\* and stands where the part after these begins.
Reading ==
    (phase = "read" /\ Genuine /\ Fits(packet)) =>
        LET A == packet.attachments
            k == Len(atts)
        IN  /\ meta = Json(packet)
            /\ atts \in Seq(Attachment) /\ k + count = Len(A)
            /\ \A i \in 1 .. k : atts[i] = A[i]
            /\ \A j \in 1 .. part - 1 : att[j] = Texts(A[k + 1])[j]
            /\ count = 0 => part = 1
            /\ \E off : /\ Laid(buf, off, packet, Len(A))
                        /\ pos = off[k] + (IF count = 0 THEN 0 ELSE Start(A[k + 1], part))

\* A peer with the same key and no lower limit, and a frame nobody touched.
Undisturbed == ~altered /\ Fits(packet) /\ receiver.key = sender.key /\ receiver.max >= sender.max

\* No check turns such a frame down.
Accepted == Undisturbed => phase \notin {"failed", "answered", "closed"}

\* What was sealed is what is delivered.
Decoded == (phase = "done" /\ Genuine /\ Fits(packet)) => out = Envelope(packet)

\* encode writes the attachments one after the other.
LEMMA EncodingStep ==
  ASSUME TypeOK, Encoding, [Next]_vars
  PROVE  Encoding'
<1> USE DEF wireVars, partVars, Fail
<1>0. packet \in Packets /\ buf \in Seq(Bytes) /\ todo \in Seq(Attachment)
  BY DEF TypeOK
<1>a. packet.attachments \in Seq(Attachment) /\ Len(packet.attachments) \in Nat
  BY <1>0, LeadBytes
<1>1. CASE EncodeMeta
  <2>1. buf' = Lead(packet) /\ packet' = packet /\ todo' = packet.attachments
    BY <1>1 DEF EncodeMeta, Lead, Json
  <2>2. Len(packet.attachments) - Len(packet.attachments) = 0 /\ 0 \in Nat
        /\ \A i \in 1 .. Len(packet.attachments) : 0 + i = i
    BY <1>a, SMT
  <2>3. Written(buf', packet', 0)
    BY <1>0, <2>1, WrittenLead
  <2> QED BY <2>1, <2>2, <2>3 DEF Encoding
<1>2. CASE EncodeAttachment
  <2> DEFINE k == Len(packet.attachments) - Len(todo)
  <2>1. /\ k \in Nat /\ \A i \in 1 .. Len(todo) : todo[i] = packet.attachments[k + i]
        /\ Written(buf, packet, k)
    BY <1>2 DEF EncodeAttachment, Encoding
  <2>2. /\ packet' = packet /\ todo' = Tail(todo) /\ todo # <<>>
        /\ buf' = buf \o write_wire(Head(todo))
    BY <1>2 DEF EncodeAttachment
  <2>3. /\ Len(todo) \in Nat /\ 1 \in 1 .. Len(todo) /\ Head(todo) = todo[1]
        /\ Len(todo') = Len(todo) - 1
        /\ \A i \in 1 .. Len(todo') : todo'[i] = todo[i + 1] /\ i + 1 \in 1 .. Len(todo)
    BY <1>0, <2>2, SMT
  <2>4. /\ k < Len(packet.attachments) /\ k + 1 \in Nat
        /\ Len(packet.attachments) - Len(todo') = k + 1
    BY <1>a, <2>1, <2>3, SMT
  <2> HIDE DEF k
  <2>5. \A i \in 1 .. Len(todo') : k + (i + 1) = (k + 1) + i
    BY ONLY <2>1, SMT
  <2>6. Written(buf', packet', k + 1)
    <3>1. Head(todo) = packet.attachments[k + 1]
      BY <2>1, <2>3
    <3> QED BY <1>0, <2>1, <2>2, <2>4, <3>1, WrittenMore
  <2>7. \A i \in 1 .. Len(todo') : todo'[i] = packet.attachments[(k + 1) + i]
    BY <2>1, <2>3, <2>5
  <2> QED BY <2>2, <2>4, <2>6, <2>7 DEF Encoding
<1>3. CASE EncodeFinish
  BY <1>3 DEF EncodeFinish, Encoding
<1>4. CASE UNCHANGED vars
  BY <1>4 DEF vars, Encoding
<1>5. CASE Alter \/ Gate \/ DecodeHeader \/ DecodePayload \/ DecodeMeta
  <2>1. phase' # "attachments"
    BY <1>5 DEF Alter, Gate, DecodeHeader, DecodePayload, DecodeMeta
  <2> QED BY <2>1 DEF Encoding
<1>6. CASE Arrive
  BY <1>6, ArrivePhase DEF Encoding
<1>7. CASE ReadText \/ ReadData \/ DecodeFinish
  <2>1. phase' \in {"failed", "read", "done"}
    BY <1>7 DEF ReadText, ReadData, DecodeFinish
  <2> QED BY <2>1 DEF Encoding
<1> QED BY <1>1, <1>2, <1>3, <1>4, <1>5, <1>6, <1>7 DEF Next

\* encode seals the whole packet, and nothing changes what was sealed.
LEMMA SealedStep ==
  ASSUME TypeOK, Composed, Encoding, Sealed, [Next]_vars
  PROVE  Sealed'
<1> USE DEF wireVars, partVars
<1>1. CASE EncodeMeta \/ EncodeAttachment
  BY <1>1 DEF EncodeMeta, EncodeAttachment, Sealed
<1>2. CASE EncodeFinish
  <2> DEFINE payload == IF sender.key = NoKey THEN buf ELSE Encrypted(buf)
  <2>1. CASE phase' = "refused"
    BY <2>1 DEF Sealed
  <2>2. CASE phase' # "refused"
    <3>1. /\ UNCHANGED <<sender, packet>> /\ todo = <<>>
          /\ ~(Len(payload) > max_payload)
          /\ frame' = be(1 + Len(payload)) \o <<message_type(packet.variant)>> \o payload
          /\ sealed' = [key |-> sender.key, payload |-> payload, plain |-> buf]
      BY <1>2, <2>2 DEF EncodeFinish
    <3>2. sealed'.key = sender.key /\ sealed'.payload = payload /\ sealed'.plain = buf
      BY <3>1
    <3>3. Written(buf, packet, Len(packet.attachments))
      <4>1. Written(buf, packet, Len(packet.attachments) - Len(todo))
        BY <1>2 DEF EncodeFinish, Encoding
      <4>2. Len(packet.attachments) - 0 = Len(packet.attachments) /\ Len(<<>>) = 0
        <5>1. Len(packet.attachments) \in Nat
          BY LeadBytes DEF TypeOK
        <5> QED BY <5>1, SMT
      <4> QED BY <3>1, <4>1, <4>2
    <3>5. 5 + Len(payload) <= sender.max
      <4>1. /\ payload \in Seq(Bytes)
            /\ Len(payload) = Len(buf) + (IF sender.key = NoKey THEN 0 ELSE NonceLen + TagLen)
        BY <1>2, EncodeFinishBytes
      <4>2. Len(buf) >= 5 /\ buf \in Seq(Bytes) /\ sender.max \in Nat
        BY <1>2, CodecAssumption DEF EncodeFinish, Composed, TypeOK
      <4> HIDE DEF payload
      <4>3. Len(payload) \in Nat /\ Len(payload) >= 5
        BY <4>1, <4>2, CodecAssumption, SMT
      <4>4. ~(Len(payload) > IF sender.max < 5 THEN 0 ELSE sender.max - 5)
        BY <3>1 DEF max_payload, SaturatingSub
      <4> QED BY ONLY <4>2, <4>3, <4>4, SMT
    <3> QED BY <3>1, <3>2, <3>3, <3>5 DEF Sealed
  <2> QED BY <2>1, <2>2
<1>3. CASE Alter
  BY <1>3 DEF Alter, Sealed
<1>4. CASE UNCHANGED vars
  BY <1>4 DEF vars, Sealed
<1>5. CASE Arrive \/ Gate \/ DecodeHeader \/ DecodePayload \/ DecodeMeta \/ ReadText \/ ReadData
           \/ DecodeFinish
  <2>1. /\ phase \notin {"meta", "attachments", "refused"}
        /\ UNCHANGED <<sender, packet, sealed, frame, altered>>
    BY <1>5 DEF Arrive, Gate, DecodeHeader, DecodePayload, DecodeMeta, ReadText, ReadData,
                DecodeFinish
  <2> QED BY <2>1 DEF Sealed
<1> QED BY <1>1, <1>2, <1>3, <1>4, <1>5 DEF Next

\* decode opens what was sealed, and nothing else when it has a key.
LEMMA OpenedStep ==
  ASSUME TypeOK, Sealed, Opened, [Next]_vars
  PROVE  Opened'
<1> USE DEF wireVars, partVars, Fail
<1>0. /\ packet \in Packets /\ buf \in Seq(Bytes) /\ frame \in Seq(Bytes)
      /\ sealed.payload \in Seq(Bytes) /\ sealed.plain \in Seq(Bytes)
  BY DEF TypeOK
<1>q. Quad \in Nat
  BY CodecAssumption, SMT DEF Quad
<1>1. CASE EncodeMeta \/ EncodeAttachment
  BY <1>1 DEF EncodeMeta, EncodeAttachment, Opened
<1>2. CASE EncodeFinish
  <2>1. phase' \in {"refused", "sent"} /\ UNCHANGED partVars /\ phase = "attachments"
    BY <1>2 DEF EncodeFinish
  <2> QED BY <2>1 DEF Opened
<1>3. CASE Alter
  BY <1>3 DEF Alter, Opened
<1>4. CASE Arrive
  <2>1. /\ phase' \in {"header", "closed", "gate"} /\ phase = "sent" /\ buf' = frame
        /\ UNCHANGED <<frame, partVars>>
    BY <1>4, ArrivePhase DEF Arrive
  <2> QED BY <2>1 DEF Opened
<1>5. CASE Gate
  <2>1. phase' \in {"answered", "header"} /\ phase = "gate" /\ UNCHANGED <<buf, frame, partVars>>
    BY <1>5 DEF Gate
  <2> QED BY <2>1 DEF Opened
<1>6. CASE DecodeHeader
  <2>1. /\ phase' \in {"failed", "payload"} /\ phase = "header"
        /\ UNCHANGED <<buf, frame, altered, packet, partVars>> /\ buf = frame
        /\ phase' = "payload" => /\ kind' = Byte(buf, 4) /\ Len(buf) >= 5
                                 /\ u32(buf, 0) = Len(buf) - 4
    BY <1>6 DEF DecodeHeader, Opened
  <2>2. phase' = "payload" => Len(buf) < Quad + 4
    <3>1. u32(buf, 0) < Quad /\ u32(buf, 0) \in Nat /\ Len(buf) \in Nat
      BY <1>0, U32Bound, U32Nat, SMT
    <3> QED BY ONLY <1>q, <2>1, <3>1, SMT
  <2>3. (phase' = "payload" /\ ~altered) => kind' = message_type(packet.variant)
    <3>1. ~altered => Byte(frame, 4) = message_type(packet.variant)
      <4>1. message_type(packet.variant) \in Bytes
        BY <1>0, PacketAssumption, MessageTypeByte DEF WellFormed
      <4> QED BY <1>0, <2>1, <4>1, FrameParts DEF Sealed
    <3> QED BY <2>1, <3>1
  <2> QED BY <2>1, <2>2, <2>3 DEF Opened
<1>7. CASE DecodePayload
  <2> DEFINE payload == Slice(buf, 5, Len(buf))
  <2>1. /\ phase' \in {"failed", "body"} /\ phase = "payload"
        /\ UNCHANGED <<frame, altered, packet, sender, receiver, sealed, kind, partVars>>
        /\ phase' = "body" =>
              /\ receiver.key = NoKey \/ Opens(payload, receiver.key)
              /\ buf' = IF receiver.key = NoKey THEN payload ELSE sealed.plain
    BY <1>7 DEF DecodePayload
  <2>2. buf = frame /\ Len(buf) >= 5 /\ Len(buf) < Quad + 4 /\ part = 1 /\ att = <<>> /\ atts = <<>>
        /\ (~altered => kind = message_type(packet.variant))
    BY <2>1 DEF Opened
  <2>3. ASSUME phase' = "body", Genuine PROVE buf' = sealed.plain /\ Len(sealed.plain) < Quad
    <3>1. Len(buf) \in Nat /\ Len(sealed.payload) \in Nat /\ Len(sealed.plain) \in Nat
      BY <1>0, SMT
    <3>2. CASE receiver.key = NoKey
      <4>1. ~altered /\ sender.key = NoKey
        BY <2>3, <3>2 DEF Genuine
      <4>2. frame = be(1 + Len(sealed.payload)) \o <<message_type(packet.variant)>> \o sealed.payload
        BY <2>1, <4>1 DEF Sealed
      <4>3. message_type(packet.variant) \in Bytes
        BY <1>0, PacketAssumption, MessageTypeByte DEF WellFormed
      <4>4. Len(frame) = 5 + Len(sealed.payload) /\ Slice(frame, 5, Len(frame)) = sealed.payload
        BY <1>0, <4>2, <4>3, FrameParts
      <4>5. sealed.payload = sealed.plain
        BY <2>1, <4>1 DEF Sealed
      <4>6. Len(sealed.plain) < Quad
        BY ONLY <1>q, <2>2, <3>1, <4>4, <4>5, SMT
      <4> QED BY <2>1, <2>2, <2>3, <3>2, <4>4, <4>5, <4>6
    <3>3. CASE receiver.key # NoKey
      <4>1. payload = sealed.payload /\ receiver.key = sealed.key /\ buf' = sealed.plain
        BY <2>1, <2>3, <3>3 DEF Opens
      <4>2. sealed.payload = Encrypted(sealed.plain)
        BY <2>1, <3>3, <4>1 DEF Sealed
      <4>3. Len(sealed.payload) = NonceLen + Len(sealed.plain) + TagLen
        BY <1>0, <4>2, EncryptedBytes
      <4>4. Len(payload) = Len(buf) - 5
        <5>1. 5 \in Nat /\ Len(buf) - 5 \in Nat /\ 5 + (Len(buf) - 5) = Len(buf)
          BY <2>2, <3>1, SMT
        <5>2. Len(Slice(buf, 5, 5 + (Len(buf) - 5))) = Len(buf) - 5
          BY <1>0, <5>1, SliceBytes
        <5> QED BY <5>1, <5>2
      <4>5. NonceLen \in Nat /\ TagLen \in Nat
        BY CodecAssumption
      <4> HIDE DEF payload
      <4>6. Len(sealed.plain) < Quad
        BY ONLY <1>q, <2>2, <3>1, <4>1, <4>3, <4>4, <4>5, SMT
      <4> QED BY <4>1, <4>6
    <3> QED BY <3>2, <3>3
  <2>4. Genuine' <=> Genuine
    BY <2>1 DEF Genuine
  <2> HIDE DEF payload
  <2> QED BY <2>1, <2>2, <2>3, <2>4 DEF Opened
<1>8. CASE DecodeMeta
  <2>1. /\ phase = "body" /\ phase' \in {"failed", "read"}
        /\ UNCHANGED <<buf, altered, packet, sender, receiver, sealed, kind>>
    BY <1>8 DEF DecodeMeta
  <2> QED BY <2>1 DEF Opened, Genuine
<1>9. CASE ReadText \/ ReadData
  <2>1. /\ phase = "read" /\ phase' \in {"failed", "read"}
        /\ UNCHANGED <<buf, altered, packet, sender, receiver, sealed, kind>>
    BY <1>9 DEF ReadText, ReadData
  <2> QED BY <2>1 DEF Opened, Genuine
<1>10. CASE DecodeFinish
  <2>1. phase' \in {"failed", "done"}
    BY <1>10 DEF DecodeFinish
  <2> QED BY <2>1 DEF Opened
<1>11. CASE UNCHANGED vars
  BY <1>11 DEF vars, Opened, Genuine
<1> QED BY <1>1, <1>2, <1>3, <1>4, <1>5, <1>6, <1>7, <1>8, <1>9, <1>10, <1>11 DEF Next

\* The attachment after the first k stands where the k-th ends.
LEMMA LaidNext ==
  ASSUME NEW s, NEW off, NEW b, NEW n \in Nat, Laid(s, off, b, n), NEW k \in Nat, k < n
  PROVE  /\ off[k] \in Nat /\ Holds(s, off[k], write_wire(b.attachments[k + 1]))
         /\ off[k + 1] = off[k] + Len(write_wire(b.attachments[k + 1]))
<1>1. k \in 0 .. n /\ k + 1 \in 1 .. n /\ (k + 1) - 1 = k
  BY ONLY n \in Nat, k \in Nat, k < n, SMT
<1> QED BY <1>1 DEF Laid

\* The texts of an attachment that fits are text, of lengths that fit a u8.
LEMMA FittingText ==
  ASSUME NEW b \in Packets, Fits(b), NEW i \in 1 .. Len(b.attachments), NEW j \in 1 .. 3
  PROVE  /\ b.attachments[i] \in Attachment
         /\ Len(Texts(b.attachments[i])[j]) < Base /\ Texts(b.attachments[i])[j] \in Seq(Chars)
<1> DEFINE a == b.attachments[i]
<1>1. a \in Attachment
  BY LeadBytes, SMT
<1>2. \A text \in {a.id, a.name, a.content_type} : Len(text) < Base /\ text \in Seq(Chars)
  BY DEF Fits
<1>3. j = 1 \/ j = 2 \/ j = 3
  BY SMT
<1>4. Texts(a)[1] = a.id /\ Texts(a)[2] = a.name /\ Texts(a)[3] = a.content_type
  BY SMT DEF Texts
<1>5. Texts(a)[j] \in {a.id, a.name, a.content_type}
  BY <1>3, <1>4
<1> QED BY <1>1, <1>2, <1>5

\* decode finds the JSON and the number of attachments of the packet.
LEMMA DecodeMetaReads ==
  ASSUME TypeOK, Sealed, Opened, DecodeMeta, Genuine, Fits(packet)
  PROVE  phase' = "read" /\ Reading'
<1> DEFINE A == packet.attachments
<1>1. packet \in Packets /\ buf \in Seq(Bytes)
  BY DEF TypeOK
<1>2. /\ phase = "body" /\ buf = sealed.plain /\ Len(buf) < Quad
      /\ part = 1 /\ att = <<>> /\ atts = <<>>
  BY DEF DecodeMeta, Opened
<1>3. Written(buf, packet, Len(A)) /\ Len(A) < Base
  BY <1>2 DEF Sealed, Fits
<1>4. /\ Len(buf) >= 5 /\ Len(buf) >= 4 + u32(buf, 0) + 1
      /\ u32(buf, 0) = Len(Json(packet)) /\ Slice(buf, 4, 4 + Len(Json(packet))) = Json(packet)
      /\ Byte(buf, 4 + Len(Json(packet))) = Len(A)
  BY <1>1, <1>2, <1>3, LeadRead DEF Written
<1>5. ~(Len(buf) < 5) /\ ~(Len(buf) < 4 + u32(buf, 0) + 1)
  <2>1. Len(buf) \in Nat /\ u32(buf, 0) \in Nat
    BY <1>1, U32Nat, SMT
  <2> QED BY ONLY <1>4, <2>1, SMT
<1>6. /\ phase' = "read" /\ meta' = Json(packet) /\ count' = Len(A)
      /\ pos' = 4 + Len(Json(packet)) + 1 /\ UNCHANGED <<packet, buf, part, att, atts>>
  BY <1>4, <1>5 DEF DecodeMeta
<1>7. PICK off : Laid(buf, off, packet, Len(A))
  BY <1>3 DEF Written
<1>8. off[0] = pos'
  BY <1>1, <1>6, <1>7, LeadBytes DEF Laid
<1>9. /\ Len(A) \in Nat /\ off[0] \in Nat
  <2>1. Len(A) \in Nat
    BY <1>1, LeadBytes
  <2>2. 0 \in 0 .. Len(A)
    BY <2>1, SMT
  <2> QED BY <1>7, <2>1, <2>2 DEF Laid
<1>10. off[0] + 0 = off[0] /\ 0 + Len(A) = Len(A) /\ 1 .. 0 = {} /\ 1 - 1 = 0
  BY ONLY <1>9, SMT
<1>11. Start(A[0 + 1], 1) = 0
  BY SMT DEF Start
<1>12. <<>> \in Seq(Attachment) /\ Len(<<>>) = 0
  BY SMT
<1>13. pos' = off[0] + (IF count' = 0 THEN 0 ELSE Start(A[0 + 1], 1))
  BY <1>8, <1>10, <1>11
<1>14. Len(atts') = 0 /\ atts' \in Seq(Attachment) /\ part' - 1 = 0 /\ part' = 1
       /\ packet' = packet /\ buf' = buf
  BY <1>2, <1>6, <1>10, <1>12
<1>15. \E o : /\ Laid(buf', o, packet', Len(packet'.attachments))
              /\ pos' = o[Len(atts')] + (IF count' = 0 THEN 0
                                        ELSE Start(packet'.attachments[Len(atts') + 1], part'))
  BY <1>7, <1>13, <1>14
<1>16. /\ Len(atts') + count' = Len(packet'.attachments) /\ meta' = Json(packet')
       /\ \A i \in 1 .. Len(atts') : atts'[i] = packet'.attachments[i]
       /\ \A j \in 1 .. part' - 1 : att'[j] = Texts(packet'.attachments[Len(atts') + 1])[j]
  BY <1>6, <1>10, <1>14
<1> QED BY <1>6, <1>14, <1>15, <1>16 DEF Reading

\* Where decode stands in the attachment at hand.
LEMMA ReadingAt ==
  ASSUME TypeOK, Reading, Genuine, Fits(packet), phase = "read", count > 0,
         NEW k, k = Len(atts), NEW a, a = packet.attachments[k + 1]
  PROVE  /\ k \in Nat /\ k < Len(packet.attachments) /\ k + 1 \in 1 .. Len(packet.attachments)
         /\ a \in Attachment
         /\ \E off : /\ Laid(buf, off, packet, Len(packet.attachments))
                     /\ off[k] \in Nat /\ Holds(buf, off[k], write_wire(a))
                     /\ off[k + 1] = off[k] + Len(write_wire(a))
                     /\ pos = off[k] + Start(a, part)
<1> DEFINE A == packet.attachments
<1>1. packet \in Packets /\ count \in Bytes
  BY DEF TypeOK
<1>2. count \in Nat /\ count # 0
  BY <1>1, CodecAssumption, SMT DEF Bytes
<1>3. A \in Seq(Attachment) /\ Len(A) \in Nat
  BY <1>1, LeadBytes
<1>4. atts \in Seq(Attachment) /\ k + count = Len(A)
  BY DEF Reading
<1>5. k \in Nat
  BY <1>4, SMT
<1>6. k < Len(A) /\ k + 1 \in 1 .. Len(A)
  BY ONLY <1>2, <1>3, <1>4, <1>5, SMT
<1>7. a \in Attachment
  BY <1>3, <1>6, SMT
<1>8. PICK off : Laid(buf, off, packet, Len(A)) /\ pos = off[k] + Start(a, part)
  BY <1>2 DEF Reading
<1>9. /\ off[k] \in Nat /\ Holds(buf, off[k], write_wire(a))
      /\ off[k + 1] = off[k] + Len(write_wire(a))
  <2>1. /\ off[k] \in Nat /\ Holds(buf, off[k], write_wire(packet.attachments[k + 1]))
        /\ off[k + 1] = off[k] + Len(write_wire(packet.attachments[k + 1]))
    BY <1>3, <1>5, <1>6, <1>8, LaidNext, SMT
  <2> QED BY <2>1
<1> QED BY <1>5, <1>6, <1>7, <1>8, <1>9

\* read_wire reads the next text of the attachment at hand.
LEMMA ReadTextReads ==
  ASSUME TypeOK, Opened, Reading, ReadText, Genuine, Fits(packet)
  PROVE  phase' = "read" /\ Reading'
<1> DEFINE k == Len(atts)
           a == packet.attachments[k + 1]
           n == Byte(buf, pos)
<1>1. /\ packet \in Packets /\ buf \in Seq(Bytes) /\ att \in Seq(Seq(0 .. Base))
      /\ Len(att) = part - 1
  BY DEF TypeOK
<1>2. phase = "read" /\ count > 0 /\ part \in 1 .. 3 /\ count # 0
  <2>1. phase = "read" /\ count > 0 /\ part \in 1 .. 3
    BY DEF ReadText
  <2>2. count # 0
    BY <2>1, SMT
  <2> QED BY <2>1, <2>2
<1>3. /\ k \in Nat /\ k + 1 \in 1 .. Len(packet.attachments) /\ a \in Attachment
      /\ \E off : /\ Laid(buf, off, packet, Len(packet.attachments))
                  /\ off[k] \in Nat /\ Holds(buf, off[k], write_wire(a))
                  /\ pos = off[k] + Start(a, part)
  BY <1>2, ReadingAt
<1>4. Len(Texts(a)[part]) < Base /\ Texts(a)[part] \in Seq(Chars)
  BY <1>1, <1>2, <1>3, FittingText
<1>5. /\ meta = Json(packet) /\ atts \in Seq(Attachment) /\ k + count = Len(packet.attachments)
      /\ \A i \in 1 .. k : atts[i] = packet.attachments[i]
      /\ \A j \in 1 .. part - 1 : att[j] = Texts(a)[j]
  BY <1>2 DEF Reading
<1> HIDE DEF k, a
<1>6. PICK off : /\ Laid(buf, off, packet, Len(packet.attachments))
                 /\ off[k] \in Nat /\ Holds(buf, off[k], write_wire(a))
                 /\ pos = off[k] + Start(a, part)
  BY <1>3
<1>7. /\ pos \in Nat /\ pos < Len(buf) /\ n \in Nat /\ pos + 1 + n <= Len(buf)
      /\ lossy(Slice(buf, pos + 1, pos + 1 + n)) = Texts(a)[part]
      /\ pos + 1 + n = off[k] + Start(a, part + 1)
  <2>1. Texts(a)[part] \in Seq(Chars) /\ Len(Texts(a)[part]) < Base
    BY <1>4
  <2>2. n = Byte(buf, pos)
    OBVIOUS
  <2> HIDE DEF n
  <2>3. /\ buf \in Seq(Bytes) /\ off[k] \in Nat /\ a \in Attachment
        /\ Holds(buf, off[k], write_wire(a)) /\ part \in 1 .. 3 /\ pos = off[k] + Start(a, part)
    BY <1>1, <1>2, <1>3, <1>6
  <2> QED BY ONLY <2>1, <2>2, <2>3, TextRead, Zenon
<1>8. ~(pos >= Len(buf)) /\ ~(pos + 1 + n > Len(buf))
  <2>1. Len(buf) \in Nat
    BY <1>1, SMT
  <2> HIDE DEF n
  <2> QED BY ONLY <1>7, <2>1, SMT
<1>9. /\ phase' = "read" /\ att' = Append(att, Texts(a)[part])
      /\ pos' = off[k] + Start(a, part + 1) /\ part' = part + 1
      /\ UNCHANGED <<packet, buf, meta, count, atts>>
  BY <1>2, <1>7, <1>8 DEF ReadText, Fail
<1>10. \A j \in 1 .. part' - 1 : att'[j] = Texts(a)[j]
  <2>1. (part + 1) - 1 = part /\ part \in Nat
    BY <1>2, SMT
  <2>2. ASSUME NEW j \in 1 .. part PROVE att'[j] = Texts(a)[j]
    <3>1. /\ att'[part] = Texts(a)[part]
          /\ \A i \in 1 .. part - 1 : att'[i] = att[i]
      BY <1>1, <1>2, <1>9, SMT
    <3>2. j = part \/ j \in 1 .. part - 1
      BY <2>1, SMT
    <3> QED BY <1>5, <3>1, <3>2
  <2> QED BY <1>9, <2>1, <2>2
<1>11. Len(atts') = k /\ packet'.attachments[k + 1] = a
  BY <1>9 DEF k, a
<1>12. \E o : /\ Laid(buf', o, packet', Len(packet'.attachments))
              /\ pos' = o[Len(atts')] + (IF count' = 0 THEN 0
                                        ELSE Start(packet'.attachments[Len(atts') + 1], part'))
  BY <1>2, <1>6, <1>9, <1>11
<1>13. /\ Len(atts') + count' = Len(packet'.attachments) /\ meta' = Json(packet')
       /\ atts' \in Seq(Attachment) /\ count' # 0
       /\ \A i \in 1 .. Len(atts') : atts'[i] = packet'.attachments[i]
       /\ \A j \in 1 .. part' - 1 : att'[j] = Texts(packet'.attachments[Len(atts') + 1])[j]
  BY <1>2, <1>5, <1>9, <1>10, <1>11
<1> QED BY <1>9, <1>12, <1>13 DEF Reading

\* read_wire reads the data and goes on with the next attachment.
LEMMA ReadDataReads ==
  ASSUME TypeOK, Opened, Reading, ReadData, Genuine, Fits(packet)
  PROVE  phase' = "read" /\ Reading'
<1> DEFINE k == Len(atts)
           a == packet.attachments[k + 1]
           n == u32(buf, pos)
<1>1. packet \in Packets /\ buf \in Seq(Bytes) /\ count \in Bytes
  BY DEF TypeOK
<1>2. phase = "read" /\ count > 0 /\ part = 4
  BY DEF ReadData
<1>3. /\ k \in Nat /\ k + 1 \in 1 .. Len(packet.attachments) /\ a \in Attachment
      /\ \E off : /\ Laid(buf, off, packet, Len(packet.attachments))
                  /\ off[k] \in Nat /\ Holds(buf, off[k], write_wire(a))
                  /\ off[k + 1] = off[k] + Len(write_wire(a))
                  /\ pos = off[k] + Start(a, part)
  BY <1>2, ReadingAt
<1>4. Len(buf) < Quad
  BY <1>2 DEF Opened
<1>5. /\ meta = Json(packet) /\ atts \in Seq(Attachment) /\ k + count = Len(packet.attachments)
      /\ \A i \in 1 .. k : atts[i] = packet.attachments[i]
      /\ \A j \in 1 .. part - 1 : att[j] = Texts(a)[j]
  BY <1>2 DEF Reading
<1>m. packet.attachments[k + 1] = a /\ k = Len(atts)
  OBVIOUS
<1> HIDE DEF k, a
<1>6. PICK off : /\ Laid(buf, off, packet, Len(packet.attachments))
                 /\ off[k] \in Nat /\ Holds(buf, off[k], write_wire(a))
                 /\ off[k + 1] = off[k] + Len(write_wire(a))
                 /\ pos = off[k] + Start(a, 4)
  BY <1>2, <1>3
<1>7. /\ pos + 4 <= Len(buf) /\ pos + 4 + n <= Len(buf)
      /\ Slice(buf, pos + 4, pos + 4 + n) = a.data
      /\ pos + 4 + n = off[k + 1]
  BY <1>1, <1>3, <1>4, <1>6, DataRead
<1>8. ~(pos + 4 > Len(buf)) /\ ~(pos + 4 + n > Len(buf))
  <2>1. Len(buf) \in Nat /\ pos \in Nat
    BY <1>1, SMT DEF TypeOK
  <2>2. n \in Nat
    BY <1>1, <2>1, U32Nat, SMT
  <2> HIDE DEF n
  <2> QED BY ONLY <1>7, <2>1, <2>2, SMT
<1>9. a = [id |-> att[1], name |-> att[2], content_type |-> att[3], data |-> a.data]
  <2>1. att[1] = a.id /\ att[2] = a.name /\ att[3] = a.content_type
    <3>1. Texts(a)[1] = a.id /\ Texts(a)[2] = a.name /\ Texts(a)[3] = a.content_type
      BY SMT DEF Texts
    <3>2. 1 \in 1 .. 4 - 1 /\ 2 \in 1 .. 4 - 1 /\ 3 \in 1 .. 4 - 1
      BY SMT
    <3> QED BY <1>2, <1>5, <3>1, <3>2
  <2> QED BY <1>3, <2>1 DEF Attachment
<1>10. /\ phase' = "read" /\ atts' = Append(atts, a)
       /\ pos' = off[k + 1] /\ count' = count - 1 /\ part' = 1 /\ att' = <<>>
       /\ UNCHANGED <<packet, buf, meta>>
  <2>1. /\ phase' = phase /\ count' = count - 1 /\ part' = 1 /\ att' = <<>>
        /\ atts' = Append(atts, [id |-> att[1], name |-> att[2], content_type |-> att[3],
                                 data |-> Slice(buf, pos + 4, pos + 4 + n)])
        /\ pos' = pos + 4 + n /\ UNCHANGED <<packet, buf, meta>>
    BY <1>8 DEF ReadData, Fail
  <2> QED BY <1>2, <1>7, <1>9, <2>1
<1>11. /\ atts' \in Seq(Attachment) /\ Len(atts') = k + 1 /\ atts'[k + 1] = a
       /\ \A i \in 1 .. k : atts'[i] = atts[i]
  BY <1>3, <1>5, <1>10, <1>m, SMT
<1>12. \A i \in 1 .. k + 1 : atts'[i] = packet.attachments[i]
  <2>1. \A i \in 1 .. k + 1 : i = k + 1 \/ i \in 1 .. k
    BY ONLY <1>3, SMT
  <2> QED BY <1>5, <1>11, <1>m, <2>1
<1>13. (k + 1) + count' = Len(packet.attachments) /\ 1 .. (1 - 1) = {}
  <2>1. count \in Nat
    BY <1>1, CodecAssumption, SMT DEF Bytes
  <2>2. count' = count - 1
    BY <1>10
  <2>3. (k + 1) + (count - 1) = k + count /\ 1 .. (1 - 1) = {}
    BY ONLY <1>3, <2>1, SMT
  <2> QED BY <1>5, <2>2, <2>3
<1>14. pos' = off[k + 1] + 0 /\ \A x : Start(x, 1) = 0
  <2>1. off[k + 1] \in Nat
    <3>1. k + 1 \in 0 .. Len(packet.attachments)
      <4>1. Len(packet.attachments) \in Nat
        BY <1>1, LeadBytes
      <4> QED BY ONLY <1>3, <4>1, SMT
    <3> QED BY <1>6, <3>1 DEF Laid
  <2>2. off[k + 1] + 0 = off[k + 1]
    BY ONLY <2>1, SMT
  <2>3. \A x : Start(x, 1) = 0
    BY SMT DEF Start
  <2> QED BY <1>10, <2>2, <2>3
<1>15. \E o : /\ Laid(buf', o, packet', Len(packet'.attachments))
              /\ pos' = o[Len(atts')] + (IF count' = 0 THEN 0
                                        ELSE Start(packet'.attachments[Len(atts') + 1], part'))
  BY <1>6, <1>10, <1>11, <1>14
<1>16. /\ Len(atts') + count' = Len(packet'.attachments) /\ meta' = Json(packet')
       /\ \A i \in 1 .. Len(atts') : atts'[i] = packet'.attachments[i]
       /\ \A j \in 1 .. part' - 1 : att'[j] = Texts(packet'.attachments[Len(atts') + 1])[j]
  BY <1>5, <1>10, <1>11, <1>12, <1>13
<1> QED BY <1>10, <1>11, <1>15, <1>16 DEF Reading

\* With all attachments read, decode makes the packet of them.
LEMMA DecodeFinishReads ==
  ASSUME TypeOK, Opened, Reading, DecodeFinish, Genuine, Fits(packet)
  PROVE  Decoded' /\ (~altered => phase' = "done")
<1> DEFINE body == FromSlice(meta)
<1>1. packet \in Packets /\ WellFormed(packet) /\ packet.attachments \in Seq(Attachment)
  BY PacketAssumption DEF TypeOK
<1>2. phase = "read" /\ count = 0 /\ UNCHANGED <<packet, receiver, sender, altered>>
  BY DEF DecodeFinish, wireVars
<1>3. /\ meta = Json(packet) /\ atts \in Seq(Attachment)
      /\ Len(atts) + count = Len(packet.attachments)
      /\ \A i \in 1 .. Len(atts) : atts[i] = packet.attachments[i]
  BY <1>2 DEF Reading
<1>4. atts = packet.attachments
  <2>1. Len(atts) = Len(packet.attachments)
    BY <1>2, <1>3, SMT
  <2>2. /\ atts \in [1 .. Len(atts) -> Attachment]
        /\ packet.attachments \in [1 .. Len(packet.attachments) -> Attachment]
    BY <1>1, <1>3, SMT
  <2>3. /\ atts = [i \in 1 .. Len(atts) |-> atts[i]]
        /\ packet.attachments = [i \in 1 .. Len(atts) |-> packet.attachments[i]]
    BY <2>1, <2>2
  <2> QED BY <1>3, <2>3
<1>5. body = Deserialize(Serialize(packet))
  BY <1>1, <1>3, JsonBack
<1>6. /\ body # Error /\ body.variant = packet.variant
      /\ set_attachments(body, atts) = Canonical(packet)
  BY <1>1, <1>4, <1>5, RoundTrip
<1> HIDE DEF body
<1>7. phase' \in {"failed", "done"}
      /\ (phase' = "done" =>
            /\ message_type(packet.variant) = kind
            /\ out' = [message_type |-> kind, body |-> Canonical(packet)])
      /\ (message_type(packet.variant) = kind => phase' = "done")
  BY <1>6 DEF DecodeFinish, Fail, body
<1>8. ~altered => message_type(packet.variant) = kind
  BY <1>2 DEF Opened
<1>9. phase' = "done" => out' = Envelope(packet')
  BY <1>2, <1>7 DEF Envelope
<1> QED BY <1>7, <1>8, <1>9 DEF Decoded

\* While nothing but what was sealed is decoded, decode follows the layout and
\* ends with the packet.
LEMMA ReadingStep ==
  ASSUME TypeOK, Sealed, Opened, Reading, Decoded, [Next]_vars
  PROVE  Reading' /\ Decoded'
<1> USE DEF wireVars, partVars, Fail
<1>1. CASE UNCHANGED vars
  BY <1>1 DEF vars, Reading, Decoded, Genuine
<1>2. CASE EncodeMeta \/ EncodeAttachment \/ EncodeFinish \/ Alter \/ Gate \/ DecodeHeader
           \/ DecodePayload
  <2>1. phase' \notin {"read", "done"}
    BY <1>2 DEF EncodeMeta, EncodeAttachment, EncodeFinish, Alter, Gate, DecodeHeader, DecodePayload
  <2> QED BY <2>1 DEF Reading, Decoded
<1>3. CASE Arrive
  BY <1>3, ArrivePhase DEF Reading, Decoded
<1>4. CASE DecodeMeta
  <2>1. phase' \in {"failed", "read"} /\ UNCHANGED <<packet, sender, receiver, altered>>
    BY <1>4 DEF DecodeMeta
  <2>2. (Genuine' <=> Genuine) /\ (Fits(packet') <=> Fits(packet))
    BY <2>1 DEF Genuine
  <2>3. Genuine /\ Fits(packet) => Reading'
    BY <1>4, DecodeMetaReads
  <2> QED BY <2>1, <2>2, <2>3 DEF Reading, Decoded
<1>5. CASE ReadText
  <2>1. phase' \in {"failed", "read"} /\ UNCHANGED <<packet, sender, receiver, altered>>
    BY <1>5 DEF ReadText
  <2>2. (Genuine' <=> Genuine) /\ (Fits(packet') <=> Fits(packet))
    BY <2>1 DEF Genuine
  <2>3. Genuine /\ Fits(packet) => Reading'
    BY <1>5, ReadTextReads
  <2> QED BY <2>1, <2>2, <2>3 DEF Reading, Decoded
<1>6. CASE ReadData
  <2>1. phase' \in {"failed", "read"} /\ UNCHANGED <<packet, sender, receiver, altered>>
    BY <1>6 DEF ReadData
  <2>2. (Genuine' <=> Genuine) /\ (Fits(packet') <=> Fits(packet))
    BY <2>1 DEF Genuine
  <2>3. Genuine /\ Fits(packet) => Reading'
    BY <1>6, ReadDataReads
  <2> QED BY <2>1, <2>2, <2>3 DEF Reading, Decoded
<1>7. CASE DecodeFinish
  <2>1. phase' \in {"failed", "done"} /\ UNCHANGED <<packet, sender, receiver, altered>>
    BY <1>7 DEF DecodeFinish
  <2>2. (Genuine' <=> Genuine) /\ (Fits(packet') <=> Fits(packet))
    BY <2>1 DEF Genuine
  <2>3. Genuine /\ Fits(packet) => Decoded'
    BY <1>7, DecodeFinishReads
  <2> QED BY <2>1, <2>2, <2>3 DEF Reading, Decoded
<1> QED BY <1>1, <1>2, <1>3, <1>4, <1>5, <1>6, <1>7 DEF Next

\* The sizes and the header of a frame that nobody touched.
LEMMA IntactFrame ==
  ASSUME \A l \in Limits : l < Quad,
         TypeOK, Sealed, Undisturbed, phase \notin {"meta", "attachments", "refused"}
  PROVE  /\ Len(frame) \in Nat /\ Len(frame) >= 5 /\ Len(frame) <= receiver.max
         /\ u32(frame, 0) = Len(frame) - 4 /\ u32(frame, 0) <= receiver.max
         /\ Byte(frame, 4) \in 0 .. 2 /\ Slice(frame, 5, Len(frame)) = sealed.payload
<1>1. /\ packet \in Packets /\ sealed.payload \in Seq(Bytes) /\ sender.max \in Limits
      /\ receiver.max \in Limits
  BY DEF TypeOK
<1>2. /\ frame = be(1 + Len(sealed.payload)) \o <<message_type(packet.variant)>> \o sealed.payload
      /\ 5 + Len(sealed.payload) <= sender.max /\ receiver.max >= sender.max
  BY DEF Sealed, Undisturbed
<1>3. packet.variant \in Variants /\ message_type(packet.variant) \in Bytes
  BY <1>1, PacketAssumption, MessageTypeByte DEF WellFormed
<1>4. /\ Len(frame) = 5 + Len(sealed.payload) /\ Byte(frame, 4) = message_type(packet.variant)
      /\ Slice(frame, 5, Len(frame)) = sealed.payload
      /\ 1 + Len(sealed.payload) < Quad => u32(frame, 0) = 1 + Len(sealed.payload)
  BY <1>1, <1>2, <1>3, FrameParts
<1>5. /\ sender.max < Quad /\ sender.max \in Nat /\ receiver.max \in Nat
      /\ Len(sealed.payload) \in Nat /\ Quad \in Nat
  <2>1. Quad \in Nat
    BY CodecAssumption, SMT DEF Quad
  <2>2. Len(sealed.payload) \in Nat
    BY <1>1, SMT
  <2> QED BY <1>1, <2>1, <2>2, CodecAssumption
<1>6. 1 + Len(sealed.payload) < Quad
  BY ONLY <1>2, <1>5, SMT
<1>7. message_type(packet.variant) \in 0 .. 2
  BY <1>3, SMT DEF message_type, Variants, K
<1>8. /\ Len(frame) \in Nat /\ Len(frame) >= 5 /\ Len(frame) <= receiver.max
      /\ u32(frame, 0) = Len(frame) - 4 /\ u32(frame, 0) <= receiver.max
  <2>1. /\ Len(frame) = 5 + Len(sealed.payload) /\ u32(frame, 0) = 1 + Len(sealed.payload)
        /\ 5 + Len(sealed.payload) <= sender.max /\ receiver.max >= sender.max
    BY <1>2, <1>4, <1>6
  <2> QED BY ONLY <1>5, <2>1, SMT
<1> QED BY <1>4, <1>7, <1>8

\* No check turns down a frame that encode let through.
LEMMA AcceptedStep ==
  ASSUME \A l \in Limits : l < Quad,
         TypeOK, Sealed, Opened, Reading, Accepted, [Next]_vars
  PROVE  Accepted'
<1> USE DEF wireVars, partVars, Fail
<1> DEFINE down == {"failed", "answered", "closed"}
<1>1. CASE UNCHANGED vars
  BY <1>1 DEF vars, Accepted, Undisturbed
<1>2. CASE EncodeMeta \/ EncodeAttachment \/ EncodeFinish \/ Alter
  <2>1. phase' \in {"attachments", "refused", "sent"}
    BY <1>2 DEF EncodeMeta, EncodeAttachment, EncodeFinish, Alter
  <2> QED BY <2>1 DEF Accepted
<1>3. CASE Arrive \/ Gate \/ DecodeHeader \/ DecodePayload \/ DecodeMeta \/ ReadText \/ ReadData
           \/ DecodeFinish
  <2>1. /\ UNCHANGED <<sender, receiver, packet, altered>>
        /\ phase \notin {"meta", "attachments", "refused"}
    BY <1>3 DEF Arrive, Gate, DecodeHeader, DecodePayload, DecodeMeta, ReadText, ReadData,
                DecodeFinish
  <2> SUFFICES ASSUME Undisturbed PROVE phase' \notin down
    BY <2>1 DEF Accepted, Undisturbed
  <2>2. Genuine /\ Fits(packet) /\ ~altered /\ receiver.key = sender.key
    BY DEF Undisturbed, Genuine
  <2>3. /\ Len(frame) \in Nat /\ Len(frame) >= 5 /\ Len(frame) <= receiver.max
        /\ u32(frame, 0) = Len(frame) - 4 /\ u32(frame, 0) <= receiver.max
        /\ Byte(frame, 4) \in 0 .. 2 /\ Slice(frame, 5, Len(frame)) = sealed.payload
    BY <2>1, IntactFrame
  <2>4. /\ ~(Len(frame) < 5) /\ ~(Len(frame) > receiver.max)
        /\ ~(u32(frame, 0) > receiver.max)
    <3>1. receiver.max \in Nat /\ u32(frame, 0) \in Nat
      <4>1. frame \in Seq(Bytes) /\ receiver.max \in Limits
        BY DEF TypeOK
      <4>2. 0 \in Int
        BY SMT
      <4> QED BY <4>1, <4>2, CodecAssumption, U32Nat
    <3> QED BY ONLY <2>3, <3>1, SMT
  <2>5. CASE Arrive
    <3>1. CASE ~receiver.server
      BY <2>5, <3>1 DEF Arrive
    <3>2. CASE receiver.server
      BY <2>3, <2>4, <2>5, <3>2 DEF Arrive
    <3> QED BY <3>1, <3>2
  <2>6. CASE Gate
    <3>1. buf = frame
      BY <2>6 DEF Gate, Opened
    <3> QED BY <2>3, <2>4, <2>6, <3>1 DEF Gate
  <2>7. CASE DecodeHeader
    <3>1. buf = frame
      BY <2>7 DEF DecodeHeader, Opened
    <3> QED BY <2>3, <2>4, <2>7, <3>1 DEF DecodeHeader
  <2>8. CASE DecodePayload
    <3>1. phase = "payload" /\ buf = frame
      BY <2>8 DEF DecodePayload, Opened
    <3>2. receiver.key # NoKey => Opens(sealed.payload, receiver.key)
      <4>1. sealed.key = receiver.key
        BY <2>1, <2>2 DEF Sealed
      <4>2. receiver.key # NoKey => Len(sealed.payload) >= NonceLen
        <5>1. sealed.plain \in Seq(Bytes)
          BY DEF TypeOK
        <5>2. receiver.key # NoKey => Len(sealed.payload) = NonceLen + Len(sealed.plain) + TagLen
          BY <2>1, <2>2, <5>1, EncryptedBytes DEF Sealed
        <5>3. Len(sealed.plain) \in Nat /\ NonceLen \in Nat /\ TagLen \in Nat
          BY <5>1, CodecAssumption, SMT
        <5> QED BY ONLY <5>2, <5>3, SMT
      <4> QED BY <4>1, <4>2 DEF Opens
    <3> QED BY <2>3, <2>8, <3>1, <3>2 DEF DecodePayload
  <2>9. CASE DecodeMeta
    BY <2>2, <2>9, DecodeMetaReads
  <2>10. CASE ReadText
    BY <2>2, <2>10, ReadTextReads
  <2>11. CASE ReadData
    BY <2>2, <2>11, ReadDataReads
  <2>12. CASE DecodeFinish
    BY <2>2, <2>12, DecodeFinishReads
  <2> QED BY <1>3, <2>5, <2>6, <2>7, <2>8, <2>9, <2>10, <2>11, <2>12
<1> QED BY <1>1, <1>2, <1>3 DEF Next

\* The inductive invariant of what encode writes and decode reads.
CodecInv == IInv /\ Encoding /\ Sealed /\ Opened /\ Reading /\ Decoded

\* It holds before encode begins.
LEMMA CodecInit == Init => CodecInv /\ Accepted
<1> SUFFICES ASSUME Init PROVE CodecInv /\ Accepted
  OBVIOUS
<1>1. IInv
  BY InitInv
<1>2. phase = "meta" /\ part = 1 /\ att = <<>> /\ atts = <<>>
  BY DEF Init
<1> QED BY <1>1, <1>2 DEF CodecInv, Encoding, Sealed, Opened, Reading, Decoded, Accepted

\* Every step of encode, of the way and of decode keeps it.
LEMMA CodecStep == CodecInv /\ [Next]_vars => CodecInv'
<1> SUFFICES ASSUME CodecInv, [Next]_vars PROVE CodecInv'
  OBVIOUS
<1>1. IInv'
  BY Inductive DEF CodecInv
<1>2. Encoding'
  BY EncodingStep DEF CodecInv, IInv
<1>3. Sealed'
  BY SealedStep DEF CodecInv, IInv
<1>4. Opened'
  BY OpenedStep DEF CodecInv, IInv
<1>5. Reading' /\ Decoded'
  BY ReadingStep DEF CodecInv, IInv
<1> QED BY <1>1, <1>2, <1>3, <1>4, <1>5 DEF CodecInv

---------------------------------------------------------------------------
\* Theorems

\* encode and decode work on bytes throughout, and an attachment's texts are read
\* one after the other.
THEOREM TypeCorrect == Spec => []TypeOK
<1>1. IInv => TypeOK
  BY DEF IInv
<1> QED BY <1>1, Invariance, PTL

\* No frame, encoded, changed or cut short, makes the server's length check or
\* decode read past the end of a buffer.
THEOREM StaysInside == Spec => []ReadsInside
<1>1. IInv => ReadsInside
  BY DEF IInv
<1> QED BY <1>1, Invariance, PTL

\* encode refuses a packet exactly when its frame would exceed max_frame_bytes.
THEOREM LimitIsExact == Spec => []LimitExact
<1>1. IInv => LimitExact
  BY DEF IInv
<1> QED BY <1>1, Invariance, PTL

\* A wrong length never ends a server's connection through decode.
THEOREM LengthsAreAnswered == Spec => []LengthErrorsAnswered
<1>1. IInv => LengthErrorsAnswered
  BY DEF IInv
<1> QED BY <1>1, Invariance, PTL

\* What an encrypted connection delivers is the packet that was sent, for every
\* packet, key and limit, even when a byte of the frame changed or its end is missing.
THEOREM SealedIsIntact == Spec => []SealedIntact
<1>1. CodecInv => SealedIntact
  BY DEF CodecInv, Decoded, Genuine, SealedIntact
<1> QED BY <1>1, CodecInit, CodecStep, PTL DEF Spec

\* A frame that encode let through is decoded to the packet by a peer with the same
\* key and no lower limit, provided that the limits fit the u32 length fields.
THEOREM FramesAreDelivered ==
  ASSUME \A l \in Limits : l < Quad
  PROVE  Spec => []Delivered
<1>1. CodecInv /\ Accepted /\ [Next]_vars => Accepted'
  BY AcceptedStep DEF CodecInv, IInv
<1>2. CodecInv /\ Accepted => Delivered
  <2> SUFFICES ASSUME CodecInv, Accepted,
                      phase \in {"done", "failed", "answered", "closed"}, Undisturbed
               PROVE  phase = "done" /\ out = Envelope(packet)
    BY DEF Delivered, Undisturbed
  <2>1. phase = "done"
    BY DEF Accepted
  <2>2. Genuine /\ Fits(packet)
    BY DEF Undisturbed, Genuine
  <2> QED BY <2>1, <2>2 DEF CodecInv, Decoded
<1> QED BY <1>1, <1>2, CodecInit, CodecStep, PTL DEF Spec
=============================================================================
