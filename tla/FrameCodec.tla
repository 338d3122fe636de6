----------------------------- MODULE FrameCodec ----------------------------
(***************************************************************************)
(* One frame from FrameCodec::encode to FrameCodec::decode, byte by byte:  *)
(*                                                                         *)
(*   frame_len:u32 | message_type:u8 | payload                             *)
(*   payload: meta_len:u32 | JSON | att_count:u8 | attachments             *)
(*   attachment: three texts, each after its u8 length, then data after    *)
(*               its u32 length                                            *)
(*                                                                         *)
(* A byte is a digit in base Base, so that a small Base brings the limits  *)
(* of the u8 fields within reach.  Encryption is ideal: a payload opens    *)
(* only under the key that sealed it and only as it was sealed.  JSON text *)
(* is a code for JSON values; what codes nothing does not parse.           *)
(*                                                                         *)
(* `pos` counts the bytes of the buffer at hand that have been used; a     *)
(* slice or an index past the end of the buffer would panic.               *)
(***************************************************************************)
EXTENDS PacketBody, Sequences

CONSTANTS
    Base,               \* values of a byte
    NonceLen, TagLen,   \* what encryption adds
    Chars,              \* bytes that are text
    Text,               \* JSON values to their text
    Packets,            \* bodies that are sent
    Keys,               \* keys of a codec
    NoKey,              \* a plaintext codec
    Limits,             \* values of max_frame_bytes
    Changes             \* values a changed byte takes on the way

Bytes == 0 .. Base - 1

ASSUME CodecAssumption ==
    /\ Base \in Nat /\ Base > 2
    /\ NonceLen \in Nat /\ TagLen \in Nat
    /\ Limits \subseteq Nat
    /\ Chars \subseteq Bytes /\ Changes \subseteq Bytes

\* The code is one: different values have different texts
ASSUME TextAssumption ==
    /\ \A v \in DOMAIN Text : Text[v] \in Seq(Bytes)
    /\ \A v, w \in DOMAIN Text : Text[v] = Text[w] => v = w

Attachment == [id : Seq(Bytes), name : Seq(Bytes), content_type : Seq(Bytes), data : Seq(Bytes)]

ASSUME PacketAssumption ==
    \A body \in Packets :
        /\ WellFormed(body)
        /\ body.attachments \in Seq(Attachment)
        /\ Serialize(body) \in DOMAIN Text

VARIABLES
    sender, receiver,   \* their codecs: [key, max]; the receiver is a server or not
    packet,             \* the body that is sent
    phase,
    todo,               \* encode: attachments still to write
    buf,                \* the buffer at hand
    sealed,             \* what the sender has encrypted
    frame,              \* the encoded frame, as it arrives
    altered,            \* it is not the frame the sender encoded
    pos,
    kind,               \* decode: the header's message type
    meta,               \* decode: the JSON text
    count,              \* decode: attachments still to read
    part, att,          \* decode: the attachment being read
    atts,               \* decode: the attachments read
    out                 \* the envelope delivered, or the error

wireVars == <<sealed, frame, altered>>
partVars == <<meta, count, part, att, atts>>
vars == <<sender, receiver, packet, phase, todo, buf, wireVars, pos, kind, partVars, out>>

---------------------------------------------------------------------------
\* Bytes

\* u32::to_be_bytes of a usize cast to u32, and from_be_bytes
be(n) == <<(n \div (Base * Base * Base)) % Base, (n \div (Base * Base)) % Base,
           (n \div Base) % Base, n % Base>>

\* A usize cast to u8
u8(n) == n % Base

\* Reads are total; whether they were within the buffer is pos's business
Byte(s, i) == IF i + 1 \in 1 .. Len(s) THEN s[i + 1] ELSE 0
Slice(s, a, b) == [i \in 1 .. b - a |-> Byte(s, a + i - 1)]
u32(s, i) ==
    ((Byte(s, i) * Base + Byte(s, i + 1)) * Base + Byte(s, i + 2)) * Base + Byte(s, i + 3)

\* String::from_utf8_lossy: U+FFFD, which is no byte, for what is not text
Replacement == Base
lossy(s) == [i \in DOMAIN s |-> IF s[i] \in Chars THEN s[i] ELSE Replacement]

Zeros(n) == [i \in 1 .. n |-> 0]

SaturatingSub(a, b) == IF a < b THEN 0 ELSE a - b
max_payload == SaturatingSub(sender.max, 5)

Init ==
    /\ sender \in [key : Keys \cup {NoKey}, max : Limits]
    /\ receiver \in [key : Keys \cup {NoKey}, max : Limits, server : BOOLEAN]
    /\ packet \in Packets
    /\ phase = "meta" /\ todo = <<>> /\ buf = <<>>
    /\ sealed = [key |-> NoKey, payload |-> <<>>, plain |-> <<>>]
    /\ frame = <<>> /\ altered = FALSE
    /\ pos = 0 /\ kind = 0 /\ meta = <<>> /\ count = 0 /\ part = 1 /\ att = <<>> /\ atts = <<>>
    /\ out = Absent

---------------------------------------------------------------------------
\* encode: the composite payload, then the size checks, encryption and header

EncodeMeta ==
    LET json == Text[Serialize(packet)]
    IN  /\ phase = "meta" /\ phase' = "attachments"
        /\ buf' = be(Len(json)) \o json \o <<u8(Len(packet.attachments))>>
        /\ todo' = packet.attachments
        /\ UNCHANGED <<sender, receiver, packet, wireVars, pos, kind, partVars, out>>

write_wire(a) ==
    <<u8(Len(a.id))>> \o a.id \o <<u8(Len(a.name))>> \o a.name
        \o <<u8(Len(a.content_type))>> \o a.content_type \o be(Len(a.data)) \o a.data

EncodeAttachment ==
    /\ phase = "attachments" /\ todo # <<>>
    /\ buf' = buf \o write_wire(Head(todo))
    /\ todo' = Tail(todo)
    /\ UNCHANGED <<sender, receiver, packet, phase, wireVars, pos, kind, partVars, out>>

\* nonce, ciphertext and tag
Encrypted(plain) == Zeros(NonceLen) \o plain \o Zeros(TagLen)

\* Mutant of EncodeFinish: it checks the size before encryption only.
EncodeFinishUnsealed ==
    LET payload == IF sender.key = NoKey THEN buf ELSE Encrypted(buf)
    IN  /\ phase = "attachments" /\ todo = <<>>
        /\ IF Len(buf) > max_payload
             THEN phase' = "refused" /\ UNCHANGED <<frame, sealed>>
             ELSE /\ phase' = "sent"
                  /\ frame' = be(1 + Len(payload)) \o <<message_type(packet.variant)>> \o payload
                  /\ sealed' = [key |-> sender.key, payload |-> payload, plain |-> buf]
        /\ UNCHANGED <<sender, receiver, packet, todo, buf, altered, pos, kind, partVars, out>>

EncodeFinish ==
    LET payload == IF sender.key = NoKey THEN buf ELSE Encrypted(buf)
        header == be(1 + Len(payload)) \o <<message_type(packet.variant)>>
    IN  /\ phase = "attachments" /\ todo = <<>>
        /\ IF Len(buf) > max_payload \/ Len(payload) > max_payload
             THEN phase' = "refused" /\ UNCHANGED <<frame, sealed>>
             ELSE /\ phase' = "sent"
                  /\ frame' = header \o payload
                  /\ sealed' = [key |-> sender.key, payload |-> payload, plain |-> buf]
        /\ UNCHANGED <<sender, receiver, packet, todo, buf, altered, pos, kind, partVars, out>>

---------------------------------------------------------------------------
\* The way: the frame, or one that another implementation might send instead

Alter ==
    /\ phase = "sent" /\ ~altered /\ altered' = TRUE
    /\ \/ \E i \in 1 .. Len(frame), b \in Changes : frame' = [frame EXCEPT ![i] = b]
       \/ \E n \in 0 .. Len(frame) - 1 : frame' = SubSeq(frame, 1, n)
       \/ \E n \in 5 .. Len(frame) - 1 : frame' = be(n - 4) \o SubSeq(frame, 5, n)
    /\ UNCHANGED <<sender, receiver, packet, phase, todo, buf, sealed, pos, kind, partVars, out>>

\* A client decodes what it reads.  A server's WebSocket takes no message larger
\* than max_frame_bytes, and its reader loop looks at the length first.
Arrive ==
    /\ phase = "sent"
    /\ phase' = CASE ~receiver.server                                  -> "header"
                  [] receiver.server /\ Len(frame) > receiver.max      -> "closed"
                  [] receiver.server /\ Len(frame) <= receiver.max     -> "gate"
    /\ buf' = frame /\ pos' = 0
    /\ UNCHANGED <<sender, receiver, packet, todo, wireVars, kind, partVars, out>>

\* Mutant of Gate: the limit is exclusive.
GateExclusive ==
    /\ phase = "gate" /\ pos' = IF Len(buf) < 5 THEN pos ELSE 4
    /\ phase' = IF Len(buf) < 5 \/ u32(buf, 0) # Len(buf) - 4 \/ Len(buf) >= receiver.max
                  THEN "answered" ELSE "header"
    /\ UNCHANGED <<sender, receiver, packet, todo, buf, wireVars, kind, partVars, out>>

\* Mutant of Gate: it does not compare the declared length with the actual one.
GateTrusts ==
    /\ phase = "gate" /\ pos' = IF Len(buf) < 5 THEN pos ELSE 4
    /\ phase' = IF Len(buf) < 5 \/ u32(buf, 0) > receiver.max \/ Len(buf) > receiver.max
                  THEN "answered" ELSE "header"
    /\ UNCHANGED <<sender, receiver, packet, todo, buf, wireVars, kind, partVars, out>>

\* The error frames of the reader loop: the connection goes on
Gate ==
    LET declared == u32(buf, 0)
    IN  /\ phase = "gate"
        /\ \/ Len(buf) < 5 /\ phase' = "answered" /\ UNCHANGED pos
           \/ /\ Len(buf) >= 5 /\ pos' = 4
              /\ phase' = IF declared > receiver.max \/ declared # Len(buf) - 4 \/ Len(buf) > receiver.max
                            THEN "answered" ELSE "header"
        /\ UNCHANGED <<sender, receiver, packet, todo, buf, wireVars, kind, partVars, out>>

---------------------------------------------------------------------------
\* decode

Fail(error) == phase' = "failed" /\ out' = [error |-> error]

DecodeHeader ==
    /\ phase = "header"
    /\ \/ /\ Len(buf) < 5
          /\ Fail("FrameTooShort") /\ UNCHANGED <<pos, kind>>
       \/ /\ Len(buf) >= 5 /\ u32(buf, 0) # Len(buf) - 4
          /\ Fail("FrameLengthMismatch") /\ pos' = 4 /\ UNCHANGED kind
       \/ /\ Len(buf) >= 5 /\ u32(buf, 0) = Len(buf) - 4 /\ Len(buf) > receiver.max
          /\ Fail("FrameTooLarge") /\ pos' = 4 /\ UNCHANGED kind
       \/ /\ Len(buf) >= 5 /\ u32(buf, 0) = Len(buf) - 4 /\ Len(buf) <= receiver.max
          /\ pos' = 5 /\ kind' = Byte(buf, 4)
          /\ IF Byte(buf, 4) \in 0 .. 2
               THEN phase' = "payload" /\ UNCHANGED out
               ELSE Fail("UnknownMessageType")
    /\ UNCHANGED <<sender, receiver, packet, todo, buf, wireVars, partVars>>

\* decrypt_chacha20, decrypt_aes256
Opens(payload, key) ==
    Len(payload) >= NonceLen /\ key = sealed.key /\ payload = sealed.payload

DecodePayload ==
    LET payload == Slice(buf, 5, Len(buf))
    IN  /\ phase = "payload"
        /\ IF receiver.key = NoKey \/ Opens(payload, receiver.key)
             THEN /\ phase' = "body" /\ pos' = 0
                  /\ buf' = IF receiver.key = NoKey THEN payload ELSE sealed.plain
                  /\ UNCHANGED out
             ELSE Fail("DecryptionFailed") /\ UNCHANGED <<buf, pos>>
        /\ UNCHANGED <<sender, receiver, packet, todo, wireVars, kind, partVars>>

DecodeMeta ==
    LET meta_len == u32(buf, 0)
    IN  /\ phase = "body"
        /\ \/ /\ Len(buf) < 5
              /\ Fail("FrameTooShort") /\ UNCHANGED <<meta, count, pos>>
           \/ /\ Len(buf) >= 5 /\ Len(buf) < 4 + meta_len + 1
              /\ Fail("FrameTooShort") /\ pos' = 4 /\ UNCHANGED <<meta, count>>
           \/ /\ Len(buf) >= 5 /\ Len(buf) >= 4 + meta_len + 1
              /\ meta' = Slice(buf, 4, 4 + meta_len)
              /\ count' = Byte(buf, 4 + meta_len)
              /\ pos' = 4 + meta_len + 1
              /\ phase' = "read" /\ UNCHANGED out
        /\ UNCHANGED <<sender, receiver, packet, todo, buf, wireVars, kind, part, att, atts>>

\* Mutant of ReadText: the bound is off by one.
ReadTextOffByOne ==
    LET n == Byte(buf, pos)
    IN  /\ phase = "read" /\ count > 0 /\ part \in 1 .. 3
        /\ IF pos >= Len(buf) \/ pos + n > Len(buf)
             THEN Fail("InvalidAttachmentEncoding") /\ UNCHANGED <<pos, part, att>>
             ELSE /\ att' = Append(att, lossy(Slice(buf, pos + 1, pos + 1 + n)))
                  /\ pos' = pos + 1 + n /\ part' = part + 1
                  /\ UNCHANGED <<phase, out>>
        /\ UNCHANGED <<sender, receiver, packet, todo, buf, wireVars, kind, meta, count, atts>>

\* read_wire: id, name and content_type ...
ReadText ==
    LET n == Byte(buf, pos)
    IN  /\ phase = "read" /\ count > 0 /\ part \in 1 .. 3
        /\ \/ /\ pos >= Len(buf)
              /\ Fail("InvalidAttachmentEncoding") /\ UNCHANGED <<pos, part, att>>
           \/ /\ pos < Len(buf) /\ pos + 1 + n > Len(buf)
              /\ Fail("InvalidAttachmentEncoding") /\ pos' = pos + 1 /\ UNCHANGED <<part, att>>
           \/ /\ pos < Len(buf) /\ pos + 1 + n <= Len(buf)
              /\ att' = Append(att, lossy(Slice(buf, pos + 1, pos + 1 + n)))
              /\ pos' = pos + 1 + n
              /\ part' = part + 1
              /\ UNCHANGED <<phase, out>>
        /\ UNCHANGED <<sender, receiver, packet, todo, buf, wireVars, kind, meta, count, atts>>

\* Mutant of ReadData: it starts the next attachment with the texts of this one.
ReadDataKeepsTexts ==
    LET n == u32(buf, pos)
    IN  /\ phase = "read" /\ count > 0 /\ part = 4
        /\ IF pos + 4 > Len(buf) \/ pos + 4 + n > Len(buf)
             THEN Fail("InvalidAttachmentEncoding") /\ UNCHANGED <<pos, part, atts, count>>
             ELSE /\ atts' = Append(atts, [id |-> att[1], name |-> att[2], content_type |-> att[3],
                                           data |-> Slice(buf, pos + 4, pos + 4 + n)])
                  /\ pos' = pos + 4 + n /\ count' = count - 1 /\ part' = 1
                  /\ UNCHANGED <<phase, out>>
        /\ UNCHANGED <<sender, receiver, packet, todo, buf, wireVars, kind, meta, att>>

\* ... then data
ReadData ==
    LET n == u32(buf, pos)
    IN  /\ phase = "read" /\ count > 0 /\ part = 4
        /\ \/ /\ pos + 4 > Len(buf)
              /\ Fail("InvalidAttachmentEncoding") /\ UNCHANGED <<pos, part, att, atts, count>>
           \/ /\ pos + 4 <= Len(buf) /\ pos + 4 + n > Len(buf)
              /\ Fail("InvalidAttachmentEncoding") /\ pos' = pos + 4
              /\ UNCHANGED <<part, att, atts, count>>
           \/ /\ pos + 4 <= Len(buf) /\ pos + 4 + n <= Len(buf)
              /\ atts' = Append(atts, [id |-> att[1], name |-> att[2], content_type |-> att[3],
                                       data |-> Slice(buf, pos + 4, pos + 4 + n)])
              /\ pos' = pos + 4 + n
              /\ count' = count - 1 /\ part' = 1 /\ att' = <<>>
              /\ UNCHANGED <<phase, out>>
        /\ UNCHANGED <<sender, receiver, packet, todo, buf, wireVars, kind, meta>>

\* serde_json::from_slice into a PacketBody
FromSlice(s) ==
    LET parsed == {v \in DOMAIN Text : Text[v] = s}
    IN  IF parsed = {} THEN Error ELSE Deserialize(CHOOSE v \in parsed : TRUE)

\* Mutant of DecodeFinish: it does not compare the header's message type with the body's.
DecodeFinishAnyType ==
    LET body == FromSlice(meta)
    IN  /\ phase = "read" /\ count = 0
        /\ IF body = Error THEN Fail("Json")
           ELSE phase' = "done" /\ out' = [message_type |-> kind, body |-> set_attachments(body, atts)]
        /\ UNCHANGED <<sender, receiver, packet, todo, buf, wireVars, pos, kind, partVars>>

DecodeFinish ==
    LET body == FromSlice(meta)
    IN  /\ phase = "read" /\ count = 0
        /\ CASE body = Error -> Fail("Json")
             [] body # Error /\ message_type(body.variant) # kind -> Fail("MessageTypeMismatch")
             [] OTHER ->
                  phase' = "done" /\ out' = [message_type |-> kind, body |-> set_attachments(body, atts)]
        /\ UNCHANGED <<sender, receiver, packet, todo, buf, wireVars, pos, kind, partVars>>

Next ==
    \/ EncodeMeta \/ EncodeAttachment \/ EncodeFinish
    \/ Alter \/ Arrive \/ Gate
    \/ DecodeHeader \/ DecodePayload \/ DecodeMeta \/ ReadText \/ ReadData \/ DecodeFinish

Spec == Init /\ [][Next]_vars

---------------------------------------------------------------------------
\* Properties

\* The state of encode and decode; the texts read are those of the attachment at hand.
TypeOK ==
    /\ sender \in [key : Keys \cup {NoKey}, max : Limits]
    /\ receiver \in [key : Keys \cup {NoKey}, max : Limits, server : BOOLEAN]
    /\ packet \in Packets
    /\ phase \in {"meta", "attachments", "refused", "sent", "closed", "gate", "answered",
                  "header", "payload", "body", "read", "failed", "done"}
    /\ todo \in Seq(Attachment)
    /\ buf \in Seq(Bytes) /\ frame \in Seq(Bytes) /\ altered \in BOOLEAN
    /\ sealed \in [key : Keys \cup {NoKey}, payload : Seq(Bytes), plain : Seq(Bytes)]
    /\ pos \in Nat /\ kind \in Bytes /\ count \in Bytes
    /\ part \in 1 .. 4 /\ att \in Seq(Seq(0 .. Base)) /\ Len(att) = part - 1

\* Lengths that fit the u8 fields they are written to, of texts that are text
Fits(body) ==
    /\ Len(body.attachments) < Base
    /\ \A i \in 1 .. Len(body.attachments) :
         LET a == body.attachments[i]
         IN  \A text \in {a.id, a.name, a.content_type} :
               Len(text) < Base /\ text \in Seq(Chars)

Envelope(body) == [message_type |-> message_type(body.variant), body |-> Canonical(body)]

\* No frame makes decode, or the length check of the server's reader, index or
\* slice past the end of a buffer, whatever its length fields claim.
ReadsInside == pos <= Len(buf)

\* A frame that encode let through reaches a peer with the same key and no lower
\* limit, and decodes to the packet that was sent in its normal form, provided
\* its attachments fit the u8 length fields: no check on the way turns it down.
Delivered ==
    (/\ phase \in {"done", "failed", "answered", "closed"} /\ ~altered /\ Fits(packet)
     /\ receiver.key = sender.key /\ receiver.max >= sender.max)
        => phase = "done" /\ out = Envelope(packet)

\* What an encrypted connection delivers is what was sent, even when the frame
\* changed on the way: the header is not encrypted, but a changed length or
\* message type does not get past decode.
SealedIntact ==
    (phase = "done" /\ receiver.key # NoKey /\ Fits(packet)) => out = Envelope(packet)

\* encode refuses exactly the frames that would be larger than max_frame_bytes,
\* the bytes that encryption adds included.
LimitExact ==
    LET size == 5 + Len(buf) + (IF sender.key = NoKey THEN 0 ELSE NonceLen + TagLen)
    IN  /\ phase = "refused" => size > sender.max
        /\ phase = "sent" /\ ~altered => Len(frame) = size /\ size <= sender.max

\* The server's reader answers a frame whose length is wrong and reads on: decode,
\* whose errors end the connection, never finds the length wrong after it.
LengthErrorsAnswered ==
    (receiver.server /\ phase = "failed")
        => /\ out.error \notin {"FrameLengthMismatch", "FrameTooLarge"}
           /\ out.error = "FrameTooShort" => Len(frame) >= 5
=============================================================================
