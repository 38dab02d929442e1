----------------------------- MODULE ThriftWire -----------------------------
(***************************************************************************)
(* Messages and values in the dialect of a connection: "binary" (written   *)
(* with a version, read with and without), "strict", "loose" and           *)
(* "compact".  A value is <<type, x>> for a scalar, <<type, fields>> for a *)
(* struct with fields <<id, value>>, and <<type, types, items>> for a      *)
(* list, a set, and a map, whose items are key, value, key, value...       *)
(***************************************************************************)
EXTENDS ThriftTransport, FiniteSets
LOCAL INSTANCE SequencesExt
Binary  == INSTANCE ThriftBinary
Compact == INSTANCE ThriftCompact

CONSTANT SkipDepth   \* DEFAULT_RECURSION_DEPTH

Collections == {TType.MAP, TType.SET, TType.LIST}

WriteFieldBegin(d, type, id, last, x) ==
    IF d = "compact" THEN Compact!WriteFieldBegin(type, id, last, x)
    ELSE Binary!WriteFieldBegin(type, id)

WriteCollectionBegin(d, type, types, n) ==
    CASE d = "compact" /\ type = TType.MAP -> Compact!WriteMapBegin(types[1], types[2], n \div 2)
      [] d = "compact" /\ type # TType.MAP -> Compact!WriteListBegin(types[1], n)
      [] d # "compact" /\ type = TType.MAP -> Binary!WriteMapBegin(types[1], types[2], n \div 2)
      [] d # "compact" /\ type # TType.MAP -> Binary!WriteListBegin(types[1], n)

RECURSIVE WriteValue(_, _)

WriteField(d, id, last, v) ==
    WriteFieldBegin(d, v[1], id, last, v[2])
      \o (IF d = "compact" /\ v[1] = TType.BOOL THEN <<>> ELSE WriteValue(d, v))

WriteStruct(d, fields) ==
    FlattenSeq([i \in DOMAIN fields |->
        WriteField(d, fields[i][1], IF i = 1 THEN 0 ELSE fields[i - 1][1], fields[i][2])])
      \o <<TType.STOP>>

WriteValue(d, v) ==
    CASE v[1] = TType.STRUCT -> WriteStruct(d, v[2])
      [] v[1] \in Collections ->
            WriteCollectionBegin(d, v[1], v[2], Len(v[3]))
              \o FlattenSeq([i \in DOMAIN v[3] |-> WriteValue(d, v[3][i])])
      [] v[1] \notin Collections \cup {TType.STRUCT} ->
            IF d = "compact" THEN Compact!WriteScalar(v[1], v[2]) ELSE Binary!WriteScalar(v[1], v[2])
-----------------------------------------------------------------------------
(* Reading a value of a type that the wire names.  Skip reads in the same  *)
(* way and drops the value; it is the reader that limits the depth.        *)
Scalars == {TType.BOOL, TType.BYTE, TType.DOUBLE, TType.I16, TType.I32, TType.I64,
            TType.STR, TType.UUID}

ReadFieldBegin(d, last, s) ==
    IF d = "compact" THEN Compact!ReadFieldBegin(last, s) ELSE Binary!ReadFieldBegin(s)

ReadScalar(d, type, bool, s) ==
    IF d = "compact" THEN Compact!ReadScalar(type, bool, s) ELSE Binary!ReadScalar(type, s)

ReadCollectionBegin(d, type, s) ==
    CASE d = "compact" /\ type = TType.MAP -> Compact!ReadMapBegin(s)
      [] d = "compact" /\ type # TType.MAP -> Compact!ReadListBegin(s)
      [] d # "compact" /\ type = TType.MAP -> Binary!ReadMapBegin(s)
      [] d # "compact" /\ type # TType.MAP -> Binary!ReadListBegin(s)

RECURSIVE Skip(_, _, _, _, _)

RECURSIVE ReadFields(_, _, _, _)
ReadFields(d, depth, last, s) ==
    Then(ReadFieldBegin(d, last, s), LAMBDA field, r :
        IF field.type = TType.STOP THEN Got(<<>>, r)
        ELSE Then(Skip(d, field.type, field.bool, depth, r), LAMBDA v, q :
             Then(ReadFields(d, depth, field.id, q), LAMBDA more, p :
                Got(<<<<field.id, v>>>> \o more, p))))

RECURSIVE ReadItems(_, _, _, _, _, _)
ReadItems(d, types, i, n, depth, s) ==
    IF i > n THEN Got(<<>>, s)
    ELSE Then(Skip(d, types[1 + ((i - 1) % Len(types))], <<>>, depth, s), LAMBDA v, r :
         Then(ReadItems(d, types, i + 1, n, depth, r), LAMBDA more, q : Got(<<v>> \o more, q)))

Skip(d, type, bool, depth, s) ==
    IF depth <= 0 THEN Bad(s)
    ELSE CASE type \in Scalars ->
                Then(ReadScalar(d, type, bool, s), LAMBDA x, r : Got(<<type, x>>, r))
           [] type = TType.STRUCT ->
                Then(ReadFields(d, depth - 1, 0, s), LAMBDA fields, r : Got(<<type, fields>>, r))
           [] type \in Collections ->
                Then(ReadCollectionBegin(d, type, s), LAMBDA c, r :
                Then(ReadItems(d, c.types, 1, c.size * Len(c.types), depth - 1, r),
                     LAMBDA items, q : Got(<<type, c.types, items>>, q)))
           [] OTHER -> Bad(s)

(* Generated code reads a struct it knows, and skips the arguments of a    *)
(* method it does not know as a value.                                     *)
ReadStruct(d, s) == ReadFields(d, SkipDepth, 0, s)
SkipStruct(d, s) == ReadFields(d, SkipDepth - 1, 0, s)

ReadMessageHead(d, s) ==
    IF d = "compact" THEN Compact!ReadMessageBegin(s) ELSE Binary!ReadMessageBegin(d = "strict", s)
-----------------------------------------------------------------------------
(* THeaderProtocol.WriteMessageBegin chooses the codec of the transport    *)
(* and copies the sequence id into the header.                             *)
WriteMessage(t, name, type, seq, body) ==
    LET d == Dialect(t)
        u == IF t.kind = "header" THEN [t EXCEPT !.seq = seq, !.dialect = d] ELSE t
        begin == IF d = "compact" THEN Compact!WriteMessageBegin(name, type, seq)
                 ELSE Binary!WriteMessageBegin(d # "loose", name, type, seq)
    IN  Write(u, begin \o body)

(* tApplicationException.Write: field 1 is the message, field 2 the type.  *)
CALL == 1
REPLY == 2
EXCEPTION == 3
ONEWAY == 4
ExceptionFields(type) == <<<<1, <<TType.STR, <<33>>>>>>, <<2, <<TType.I32, type>>>>>>

(* tApplicationException.Read: type 0 where field 2 is missing.            *)
ExceptionType(fields) ==
    LET types == {i \in DOMAIN fields : fields[i][1] = 2 /\ fields[i][2][1] = TType.I32}
    IN  IF types = {} THEN 0 ELSE fields[CHOOSE i \in types : \A j \in types : j <= i][2][2]

(* THeaderProtocol.ReadMessageBegin, before the message: a header may name *)
(* a protocol that there is none for; that is answered, in the dialect     *)
(* used last.                                                              *)
InvalidProtocol == 9
Prepare(t) ==
    IF t.kind # "header" THEN Got(0, t)
    ELSE Then(ReadFrame(t), LAMBDA none, r :
            IF Dialect(r) # "none" THEN Got(0, [r EXCEPT !.dialect = Dialect(r)])
            ELSE LET begin == IF r.dialect = "compact"
                              THEN Compact!WriteMessageBegin(<<>>, EXCEPTION, 0)
                              ELSE Binary!WriteMessageBegin(TRUE, <<>>, EXCEPTION, 0)
                 IN  Bad(Flush(Write(r, begin \o WriteStruct(r.dialect, ExceptionFields(InvalidProtocol))))))

(* The next message, with D for what follows its head.                     *)
Message(t, D(_, _, _)) ==
    Then(Prepare(t), LAMBDA none, r :
        LET d == Dialect(r)
        IN  Decoded(r, LAMBDA s : Then(ReadMessageHead(d, s), LAMBDA m, q : D(d, m, q))))
=============================================================================
