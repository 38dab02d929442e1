--------------------------- MODULE ThriftCompact ---------------------------
(***************************************************************************)
(* TCompactProtocol (compact_protocol.go), with the operators of           *)
(* ThriftBinary.  A field id is written as the distance from the last one  *)
(* where it fits, and the value of a boolean field with the field's type.  *)
(* What the protocol keeps between two calls (the stack of last field ids) *)
(* is empty again, or hidden by the next struct, whatever became of a call.*)
(***************************************************************************)
EXTENDS ThriftBytes, SequencesExt

(* ttypeToCompactType and getTType; TRUE has code 1 and FALSE 2.           *)
CompactType(type) ==
    CASE type = TType.STOP -> 0     [] type = TType.BOOL -> 1   [] type = TType.BYTE -> 3
      [] type = TType.I16 -> 4      [] type = TType.I32 -> 5    [] type = TType.I64 -> 6
      [] type = TType.DOUBLE -> 7   [] type = TType.STR -> 8    [] type = TType.LIST -> 9
      [] type = TType.SET -> 10     [] type = TType.MAP -> 11   [] type = TType.STRUCT -> 12
      [] type = TType.UUID -> 13

KnownTypes == 0..13
getTType(code) ==
    <<TType.BOOL, TType.BOOL, TType.BYTE, TType.I16, TType.I32, TType.I64, TType.DOUBLE,
      TType.STR, TType.LIST, TType.SET, TType.MAP, TType.STRUCT, TType.UUID>>[code]
TypeOrStop(code) == IF code \in KnownTypes \ {0} THEN getTType(code) ELSE TType.STOP

MinSize(type) ==
    CASE type = TType.DOUBLE -> 8 [] type = TType.UUID -> 16 [] OTHER -> 1

(* int32ToZigzag, (n << 1) ^ (n >> 31) in 32 bits, and back.               *)
Quarter == 1073741824
Zigzag(n) ==
    LET m == IF n >= Quarter THEN n - Quarter - Quarter
             ELSE IF n < -Quarter THEN n + Quarter + Quarter
             ELSE n
    IN  IF n >= 0 THEN 2 * m ELSE -(2 * m + 1)
Unzigzag(n) ==
    LET half == IF n >= 0 THEN n \div 2 ELSE (n \div 2) + Quarter + Quarter
    IN  IF n % 2 = 0 THEN half ELSE -half - 1

WriteMessageBegin(name, type, seq) ==
    <<130, 1 + 32 * (type % 8)>> \o Varint(seq) \o VarString(name)

WriteFieldBegin(type, id, last, v) ==
    LET code == IF type = TType.BOOL THEN (IF v THEN 1 ELSE 2) ELSE CompactType(type)
    IN  IF id > last /\ id - last <= 15 THEN <<16 * (id - last) + code>>
        ELSE <<code>> \o Varint(Zigzag(id))

WriteMapBegin(key, value, n) ==
    IF n = 0 THEN <<0>> ELSE Varint(n) \o <<16 * CompactType(key) + CompactType(value)>>

WriteListBegin(elem, n) ==
    IF n <= 14 THEN <<16 * n + CompactType(elem)>> ELSE <<240 + CompactType(elem)>> \o Varint(n)

(* The 64-bit integers of the model fit in 32 bits with room to zigzag.    *)
WriteScalar(type, v) ==
    CASE type = TType.BOOL -> <<IF v THEN 1 ELSE 2>>
      [] type = TType.BYTE -> BigEndian(v, 1)
      [] type \in {TType.I16, TType.I32, TType.I64} -> Varint(Zigzag(v))
      [] type = TType.DOUBLE -> Reverse(v)
      [] type = TType.UUID -> v
      [] type = TType.STR -> VarString(v)
-----------------------------------------------------------------------------
ReadI32(s) == Then(ReadVarint(s), LAMBDA n, r : Got(Unzigzag(n), r))
ReadI16(s) == Then(ReadI32(s), LAMBDA n, r : Got(Signed(n, 65536), r))

(* The rest of a message's head, after its version and its type.           *)
ReadSeqAndName(type, s) ==
    Then(ReadVarint(s), LAMBDA seq, r :
    Then(ReadVarString(r), LAMBDA name, q : Got([name |-> name, type |-> type, seq |-> seq], q)))

ReadMessageBegin(s) ==
    Then(Take(1, s), LAMBDA id, r :
        IF id # <<130>> THEN Bad(r)
        ELSE Then(Take(1, r), LAMBDA b, q :
            IF b[1] % 32 # 1 THEN Bad(q) ELSE ReadSeqAndName(b[1] \div 32, q)))

(* A field's header, after the field with id last; bool is the value of a  *)
(* boolean field.                                                          *)
FieldOf(code, id, s) ==
    IF code \notin KnownTypes THEN Bad(s)
    ELSE Got([type |-> getTType(code), id |-> id,
              bool |-> IF code <= 2 THEN <<code = 1>> ELSE <<>>], s)

ReadFieldBegin(last, s) ==
    Then(Take(1, s), LAMBDA b, r :
        LET code  == b[1] % 16
            delta == b[1] \div 16
        IN  IF code = 0 THEN Got([type |-> TType.STOP, id |-> 0, bool |-> <<>>], r)
            ELSE Then(IF delta = 0 THEN ReadI16(r) ELSE Got(Signed(last + delta, 65536), r),
                      LAMBDA id, q : FieldOf(code, id, q)))

MapOf(types, n, s) ==
    IF CheckSize(Times32(n, MinSize(types[1]) + MinSize(types[2])))
    THEN Got([types |-> types, size |-> n], s) ELSE Bad(s)

ReadMapBegin(s) ==
    Then(ReadVarint(s), LAMBDA n, r :
    Then(IF n = 0 THEN Got(<<0>>, r) ELSE Take(1, r), LAMBDA b, q :
        MapOf(<<TypeOrStop(b[1] \div 16), TypeOrStop(b[1] % 16)>>, n, q)))

ListOf(code, n, s) ==
    IF code \in KnownTypes /\ CheckSize(Times32(n, MinSize(TypeOrStop(code))))
    THEN Got([types |-> <<TypeOrStop(code)>>, size |-> n], s) ELSE Bad(s)

ReadListBegin(s) ==
    Then(Take(1, s), LAMBDA b, r :
    Then(IF b[1] \div 16 = 15 THEN ReadVarint(r) ELSE Got(b[1] \div 16, r), LAMBDA n, q :
        ListOf(b[1] % 16, n, q)))

ReadScalar(type, bool, s) ==
    CASE type = TType.BOOL /\ bool # <<>> -> Got(bool[1], s)
      [] type = TType.BOOL /\ bool = <<>> -> Then(Take(1, s), LAMBDA b, r : Got(b[1] = 1, r))
      [] type = TType.BYTE -> Then(Take(1, s), LAMBDA b, r : Got(Signed(b[1], 256), r))
      [] type = TType.I16 -> ReadI16(s)
      [] type \in {TType.I32, TType.I64} -> ReadI32(s)
      [] type = TType.DOUBLE -> Then(Take(8, s), LAMBDA b, r : Got(Reverse(b), r))
      [] type = TType.UUID -> Take(16, s)
      [] type = TType.STR -> ReadVarString(s)
=============================================================================
