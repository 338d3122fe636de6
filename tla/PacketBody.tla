---------------------------- MODULE PacketBody -----------------------------
(***************************************************************************)
(* Packet bodies and their JSON form: one-letter keys, a numeric tag "k",  *)
(* fields left out when they say nothing, and the defaults, truncations    *)
(* and errors with which they are read back.                               *)
(*                                                                         *)
(* A JSON value is a record with one field named after its kind.  A body   *)
(* is [variant, fields, attachments], its fields indexed by JSON key.      *)
(***************************************************************************)
EXTENDS Integers

Null == [null |-> TRUE]
Num(n) == [num |-> n]
Str(s) == [str |-> s]
Bool(b) == [bool |-> b]
Obj(f) == [obj |-> f]
EmptyObj == Obj(<<>>)

Absent == [absent |-> TRUE]     \* no such key, or Option::None
Error == [error |-> TRUE]       \* a failed conversion

Is(kind, v) == kind \in DOMAIN v
AsU64(v) == Is("num", v) /\ v.num >= 0

At(f, key) == IF key \in DOMAIN f THEN f[key] ELSE Absent

---------------------------------------------------------------------------
\* Variants: tag, JSON keys and how each key is converted

K == [ApiRequest |-> 0, EventEmit |-> 1, ApiResponse |-> 2,
      EventAck |-> 3, AuthRequest |-> 4, AuthResponse |-> 5]
Variants == DOMAIN K

Layout ==
    [ApiRequest   |-> [i |-> "u64", r |-> "string", p |-> "value", m |-> "metadata"],
     ApiResponse  |-> [i |-> "u64", o |-> "bool", s |-> "u16", d |-> "value",
                       er |-> "error", m |-> "metadata"],
     EventEmit    |-> [i |-> "u64", n |-> "string", d |-> "object", m |-> "metadata",
                       e |-> "bool"],
     EventAck     |-> [i |-> "u64", o |-> "bool", rc |-> "value", er |-> "error"],
     AuthRequest  |-> [c |-> "string"],
     AuthResponse |-> [o |-> "bool", st |-> "option", er |-> "error"]]

message_type(variant) ==
    CASE variant \in {"ApiRequest", "ApiResponse"}   -> 0
      [] variant \in {"EventEmit", "EventAck"}       -> 1
      [] variant \in {"AuthRequest", "AuthResponse"} -> 2

CarriesAttachments(variant) == variant \in {"ApiRequest", "EventEmit"}

set_attachments(body, atts) ==
    IF CarriesAttachments(body.variant) THEN [body EXCEPT !.attachments = atts] ELSE body

---------------------------------------------------------------------------
\* Serialize

metadata_is_empty(v) == v \in {Null, EmptyObj}

\* ErrorPayload: details are skipped when None
ErrorJson(e) ==
    LET keys == {"status"} \cup (IF e.details = Absent THEN {} ELSE {"details"})
    IN  Obj([key \in keys |-> IF key = "status" THEN Num(e.status) ELSE e.details])

\* The entry a field becomes, Absent when it is skipped
Entry(kind, v) ==
    CASE kind = "metadata" -> IF metadata_is_empty(v) THEN Absent ELSE v
      [] kind = "error"    -> IF v = Absent THEN Absent ELSE ErrorJson(v)
      [] OTHER             -> v

Serialize(body) ==
    LET layout == Layout[body.variant]
        present == {key \in DOMAIN layout : Entry(layout[key], body.fields[key]) # Absent}
    IN  Obj([key \in {"k"} \cup present |->
                IF key = "k" THEN Num(K[body.variant]) ELSE Entry(layout[key], body.fields[key])])

---------------------------------------------------------------------------
\* Deserialize

U8 == 256
U16 == 65536

\* ErrorPayload's derived conversion: status must fit u16, null details are None
ErrorOf(v) ==
    LET status == IF Is("obj", v) THEN At(v.obj, "status") ELSE Absent
        details == At(v.obj, "details")
    IN  IF AsU64(status) /\ status.num < U16
        THEN [status |-> status.num, details |-> IF details = Null THEN Absent ELSE details]
        ELSE Error

\* take_u64, take_string, take_object, take_bool, take_u16, take_error, and
\* remove(..).unwrap_or(Null)
Take(kind, v) ==
    CASE kind = "u64"    -> IF AsU64(v) THEN v ELSE Error
      [] kind = "string" -> IF Is("str", v) THEN v ELSE Error
      [] kind = "object" -> CASE v = Absent   -> EmptyObj
                              [] Is("obj", v) -> v
                              [] OTHER        -> Error
      [] kind = "bool"   -> IF Is("bool", v) THEN v ELSE Bool(FALSE)
      [] kind = "u16"    -> IF AsU64(v) THEN Num(v.num % U16) ELSE Num(0)
      [] kind = "option" -> IF AsU64(v) THEN v ELSE Absent
      [] kind = "error"  -> IF v = Absent THEN Absent ELSE ErrorOf(v)
      [] kind \in {"value", "metadata"} -> IF v = Absent THEN Null ELSE v

\* The "a" key is converted, and so can fail, although the attachments of the
\* frame then replace it.  FileAttachment's own conversion is external: the list
\* is well formed or not.
AttachmentsError(variant, v) ==
    CarriesAttachments(variant) /\ v # Absent /\ ~Is("attachments", v)

Deserialize(v) ==
    LET k == IF Is("obj", v) THEN At(v.obj, "k") ELSE Absent
        named == {variant \in Variants : AsU64(k) /\ k.num < U8 /\ K[variant] = k.num}
        variant == CHOOSE x \in named : TRUE
        fields == [key \in DOMAIN Layout[variant] |->
                      Take(Layout[variant][key], At(v.obj, key))]
    IN  IF \/ named = {}
           \/ \E key \in DOMAIN fields : fields[key] = Error
           \/ AttachmentsError(variant, At(v.obj, "a"))
        THEN Error
        ELSE [variant |-> variant, fields |-> fields, attachments |-> <<>>]

---------------------------------------------------------------------------

\* The types of the fields: u64, String, Map, bool, u16, Option<u64>,
\* Option<ErrorPayload> and Value
HasType(kind, v) ==
    CASE kind = "u64"    -> AsU64(v)
      [] kind = "string" -> Is("str", v)
      [] kind = "object" -> Is("obj", v)
      [] kind = "bool"   -> Is("bool", v)
      [] kind = "u16"    -> AsU64(v) /\ v.num \in 0 .. U16 - 1 /\ v = Num(v.num)
      [] kind = "option" -> v = Absent \/ AsU64(v)
      [] kind = "error"  -> \/ v = Absent
                            \/ /\ v = [status |-> v.status, details |-> v.details]
                               /\ v.status \in 0 .. U16 - 1
      [] kind \in {"value", "metadata"} -> v \notin {Absent, Error}

WellFormed(body) ==
    /\ body = [variant |-> body.variant, fields |-> body.fields, attachments |-> body.attachments]
    /\ body.variant \in Variants
    /\ \A key \in DOMAIN Layout[body.variant] :
          HasType(Layout[body.variant][key], body.fields[key])
    /\ ~CarriesAttachments(body.variant) => body.attachments = <<>>

\* What survives the journey: metadata {} reads back as null, and details null
\* as None; everything else is kept.
Kept(kind, v) ==
    CASE kind = "metadata" -> IF v = EmptyObj THEN Null ELSE v
      [] kind = "error"    ->
            IF v # Absent /\ v.details = Null THEN [v EXCEPT !.details = Absent] ELSE v
      [] OTHER -> v

Canonical(body) ==
    LET layout == Layout[body.variant]
    IN  [body EXCEPT !.fields = [key \in DOMAIN layout |-> Kept(layout[key], @[key])]]
=============================================================================
