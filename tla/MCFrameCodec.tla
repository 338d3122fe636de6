--------------------------- MODULE MCFrameCodec ----------------------------
(***************************************************************************)
(* FrameCodec with bytes of four values: texts of four bytes and lists of  *)
(* four attachments overflow their length fields.                          *)
(***************************************************************************)
EXTENDS FrameCodec, FiniteSetsExt, TLC

MCChars == {1, 2}
MCChanges == {0, 1, 3}
MCLimits == {4, 15, 48}

Meta == Obj("x" :> Num(1))
Problem(details) == [status |-> 500, details |-> details]
Problems == {Problem(Absent), Problem(Null), Problem(Num(1))}

Body(variant, fields, files) == [variant |-> variant, fields |-> fields, attachments |-> files]

ApiRequest(m, files) ==
    Body("ApiRequest", [i |-> Num(7), r |-> Str("r"), p |-> Null, m |-> m], files)
ApiResponse(s, er, m) ==
    Body("ApiResponse", [i |-> Num(7), o |-> Bool(er = Absent), s |-> Num(s), d |-> Null,
                         er |-> er, m |-> m], <<>>)
EventEmit(e, files) ==
    Body("EventEmit", [i |-> Num(7), n |-> Str("n"), d |-> EmptyObj, m |-> Null,
                       e |-> Bool(e)], files)
EventAck(rc, er) ==
    Body("EventAck", [i |-> Num(7), o |-> Bool(er = Absent), rc |-> rc, er |-> er], <<>>)
AuthRequest == Body("AuthRequest", [c |-> Str("c")], <<>>)
AuthResponse(st, er) ==
    Body("AuthResponse", [o |-> Bool(er = Absent), st |-> st, er |-> er], <<>>)

File(name, data) == [id |-> <<1>>, name |-> name, content_type |-> <<>>, data |-> data]
Small == File(<<>>, <<>>)

MCPackets ==
    {ApiRequest(m, <<>>) : m \in {Null, EmptyObj, Meta}}
    \cup {ApiRequest(Null, <<File(<<2, 1, 2>>, <<0, 3>>)>>),
          ApiRequest(Null, <<File(<<2, 1, 2, 1>>, <<>>)>>),
          ApiRequest(Null, <<Small, Small, Small, Small>>)}
    \cup {ApiResponse(200, Absent, EmptyObj), ApiResponse(65535, Problem(Null), Meta)}
    \cup {EventEmit(TRUE, <<>>), EventEmit(FALSE, <<Small, File(<<2>>, [i \in 1 .. 15 |-> i % 4])>>)}
    \cup {EventAck(Num(1), Absent)} \cup {EventAck(Null, er) : er \in Problems}
    \cup {AuthRequest, AuthResponse(Num(60), Absent), AuthResponse(Absent, Problem(Absent))}

\* JSON that parses and is no body, or not one that encode writes
Foreign ==
    {Null, EmptyObj, Obj("k" :> Str("0")), Obj("k" :> Num(-1)), Obj("k" :> Num(9)),
     Obj("k" :> Num(256)), Obj("k" :> Num(4)),
     Obj([k |-> Num(0), i |-> Num(7), r |-> Str("r")]),
     Obj([k |-> Num(0), i |-> Num(7), r |-> Str("r"), a |-> Null]),
     Obj([k |-> Num(0), i |-> Num(-7), r |-> Str("r")]),
     Obj([k |-> Num(1), i |-> Num(7), n |-> Str("n")]),
     Obj([k |-> Num(1), i |-> Num(7), n |-> Str("n"), d |-> Num(1)]),
     Obj([k |-> Num(2), i |-> Num(7), s |-> Num(65536)]),
     Obj([k |-> Num(3), i |-> Num(7), er |-> Null]),
     Obj([k |-> Num(5), st |-> Str("x")])}

Digits(n) == <<n \div 16, (n \div 4) % 4, n % 4>>
MCText ==
    FoldSet(LAMBDA v, text : text @@ (v :> Digits(Cardinality(DOMAIN text))), <<>>,
            {Serialize(body) : body \in MCPackets} \cup Foreign)
=============================================================================
