---------------------------- MODULE ThriftBinary ----------------------------
(***************************************************************************)
(* TBinaryProtocol (binary_protocol.go): how a message, a field, a         *)
(* collection and a scalar are written, and decoded from bytes.  Types are *)
(* the codes of type.go.                                                   *)
(***************************************************************************)
EXTENDS ThriftBytes

MinSize(type) ==
    CASE type \in {TType.DOUBLE, TType.I64} -> 8
      [] type = TType.I16 -> 2
      [] type \in {TType.I32, TType.STR, TType.MAP, TType.SET, TType.LIST} -> 4
      [] type = TType.UUID -> 16
      [] OTHER -> 1

WriteString(s) == BigEndian(Len(s), 4) \o s

WriteMessageBegin(strict, name, type, seq) ==
    IF strict THEN <<128, 1, 0, type>> \o WriteString(name) \o BigEndian(seq, 4)
    ELSE WriteString(name) \o <<type>> \o BigEndian(seq, 4)

WriteFieldBegin(type, id) == <<type>> \o BigEndian(id, 2)
WriteMapBegin(key, value, n) == <<key, value>> \o BigEndian(n, 4)
WriteListBegin(elem, n) == <<elem>> \o BigEndian(n, 4)

(* Doubles and UUIDs are the bytes they are made of.                       *)
WriteScalar(type, v) ==
    CASE type = TType.BOOL -> <<IF v THEN 1 ELSE 0>>
      [] type = TType.BYTE -> BigEndian(v, 1)
      [] type = TType.I16 -> BigEndian(v, 2)
      [] type = TType.I32 -> BigEndian(v, 4)
      [] type = TType.I64 -> BigEndian(IF v < 0 THEN -1 ELSE 0, 4) \o BigEndian(v, 4)
      [] type = TType.STR -> WriteString(v)
      [] type \in {TType.DOUBLE, TType.UUID} -> v
-----------------------------------------------------------------------------
ReadByte(s) == Then(Take(1, s), LAMBDA b, r : Got(b[1], r))
ReadI16(s)  == Then(Take(2, s), LAMBDA b, r : Got(Signed(b[1] * 256 + b[2], 65536), r))
ReadI32(s)  == Then(Take(4, s), LAMBDA b, r : Got(Int32(b), r))

ReadString(s) ==
    Then(ReadI32(s), LAMBDA n, r : IF CheckSize(n) THEN Take(n, r) ELSE Bad(r))

ReadVersioned(size, s) ==
    IF size \div 65536 # -32767 THEN Bad(s)
    ELSE Then(ReadString(s), LAMBDA name, r :
         Then(ReadI32(r), LAMBDA seq, q :
            Got([name |-> name, type |-> size % 256, seq |-> seq], q)))

ReadUnversioned(size, s) ==
    Then(Take(size, s), LAMBDA name, r :
    Then(ReadByte(r), LAMBDA type, q :
    Then(ReadI32(q), LAMBDA seq, p :
        Got([name |-> name, type |-> Signed(type, 256), seq |-> seq], p))))

ReadMessageBegin(strict, s) ==
    Then(ReadI32(s), LAMBDA size, r :
        IF size < 0 THEN ReadVersioned(size, r)
        ELSE IF strict THEN Bad(r)
        ELSE ReadUnversioned(size, r))

ReadFieldBegin(s) ==
    Then(ReadByte(s), LAMBDA type, r :
        IF type = TType.STOP THEN Got([type |-> TType.STOP, id |-> 0, bool |-> <<>>], r)
        ELSE Then(ReadI16(r), LAMBDA id, q : Got([type |-> type, id |-> id, bool |-> <<>>], q)))

ReadSize(types, least, s) ==
    Then(ReadI32(s), LAMBDA n, r :
        IF CheckSize(Times32(n, least)) THEN Got([types |-> types, size |-> n], r) ELSE Bad(r))

ReadMapBegin(s) ==
    Then(Take(2, s), LAMBDA b, r : ReadSize(b, MinSize(b[1]) + MinSize(b[2]), r))
ReadListBegin(s) == Then(Take(1, s), LAMBDA b, r : ReadSize(b, MinSize(b[1]), r))

ReadScalar(type, s) ==
    CASE type = TType.BOOL -> Then(ReadByte(s), LAMBDA b, r : Got(b = 1, r))
      [] type = TType.BYTE -> Then(ReadByte(s), LAMBDA b, r : Got(Signed(b, 256), r))
      [] type = TType.I16 -> ReadI16(s)
      [] type = TType.I32 -> ReadI32(s)
      [] type = TType.I64 -> Then(Take(8, s), LAMBDA b, r : Got(Int32(After(4, b)), r))
      [] type = TType.DOUBLE -> Take(8, s)
      [] type = TType.UUID -> Take(16, s)
      [] type = TType.STR -> ReadString(s)
=============================================================================
