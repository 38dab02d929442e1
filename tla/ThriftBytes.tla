---------------------------- MODULE ThriftBytes -----------------------------
(***************************************************************************)
(* What the protocols and transports of a Thrift connection write and read *)
(* bytes with: integers of fixed width, varints, strings, and the frames   *)
(* of TFramedTransport.                                                    *)
(*                                                                         *)
(* A read yields Got(value, rest), or Bad when it fails, or Need when it   *)
(* waits for bytes that have not arrived.  The rest is a sequence of bytes *)
(* for what is decoded in memory, and for a transport the transport as the *)
(* read leaves it, because a read that waited in vain has taken what was   *)
(* there.                                                                  *)
(***************************************************************************)
EXTENDS Integers, Sequences

CONSTANTS
    MaxMessage,   \* TConfiguration.MaxMessageSize
    MaxFrame      \* TConfiguration.MaxFrameSize

MaxInt32 == 2147483647

(* Both are int32, and TConfiguration takes its defaults for limits that   *)
(* are not positive.                                                       *)
ASSUME LimitsAssumption ==
    \A n \in {MaxMessage, MaxFrame} : n \in Nat /\ 0 < n /\ n <= MaxInt32

Got(v, rest) == [tag |-> "got", val |-> v, at |-> rest]
Need(rest)   == [tag |-> "need", val |-> <<>>, at |-> rest]
Bad(rest)    == [tag |-> "bad", val |-> <<>>, at |-> rest]

(* K(x), where the singletons make TLC evaluate x once.                    *)
With(x, K(_)) == CHOOSE y \in {K(z) : z \in {x}} : TRUE
Then(r, K(_, _)) == With(r, LAMBDA x : IF x.tag = "got" THEN K(x.val, x.at) ELSE x)

Least(a, b) == IF a < b THEN a ELSE b
First(k, s) == SubSeq(s, 1, k)
After(k, s) == SubSeq(s, k + 1, Len(s))

(* Big-endian integers of k <= 4 bytes, and 32 bits read back with a sign. *)
Weights == <<1, 256, 65536, 16777216>>
BigEndian(n, k) == [i \in 1..k |-> (n \div Weights[k - i + 1]) % 256]
Int32(b) ==
    ((IF b[1] < 128 THEN b[1] ELSE b[1] - 256) * 16777216)
      + (b[2] * 65536) + (b[3] * 256) + b[4]

(* The type codes of type.go.                                               *)
TType == [STOP |-> 0, BOOL |-> 2, BYTE |-> 3, DOUBLE |-> 4, I16 |-> 6, I32 |-> 8, I64 |-> 10,
          STR |-> 11, STRUCT |-> 12, MAP |-> 13, SET |-> 14, LIST |-> 15, UUID |-> 16]

Signed(n, width) == IF n % width < width \div 2 THEN n % width ELSE (n % width) - width

(* n * m in 32 bits: a size times the least size of an element.            *)
Times32(n, m) ==
    LET low  == (n % 65536) * m
        high == (((n \div 65536) * m) + (low \div 65536)) % 65536
    IN  (IF high < 32768 THEN high ELSE high - 65536) * 65536 + (low % 65536)

(* The first bytes by which a message or a header is known.                *)
IsVersion1(s) == s[1] = 128 /\ s[2] = 1
IsCompact(s)  == s[1] = 130 /\ s[2] % 32 = 1
IsMagic(s)    == s[1] = 15 /\ s[2] = 255

CheckSize(n) == n >= 0 /\ n <= MaxMessage
-----------------------------------------------------------------------------
(* Decoding in memory.                                                     *)
Take(k, s) == IF Len(s) < k THEN Need(s) ELSE Got(First(k, s), After(k, s))

(* TCompactProtocol.writeVarint32: seven bits a byte, the lowest first,    *)
(* and the four highest of 32 in a fifth byte.                             *)
VarWeights == <<1, 128, 16384, 2097152, 268435456>>

VarintSize(n) ==
    CASE n < 0 \/ n >= VarWeights[5] -> 5
      [] 0 <= n /\ n < VarWeights[2] -> 1
      [] VarWeights[2] <= n /\ n < VarWeights[3] -> 2
      [] VarWeights[3] <= n /\ n < VarWeights[4] -> 3
      [] VarWeights[4] <= n /\ n < VarWeights[5] -> 4

Varint(n) ==
    [i \in 1..VarintSize(n) |->
        ((n \div VarWeights[i]) % (IF i = 5 THEN 16 ELSE 128))
          + (IF i < VarintSize(n) THEN 128 ELSE 0)]

(* TCompactProtocol.readVarint32: any number of bytes, truncated to 32     *)
(* bits.                                                                   *)
Truncated(groups) ==
    LET g(i) == IF i <= Len(groups) THEN groups[i] % 128 ELSE 0
        top  == g(5) % 16
    IN  g(1) + (g(2) * 128) + (g(3) * 16384) + (g(4) * 2097152)
          + ((IF top < 8 THEN top ELSE top - 16) * 268435456)

ReadVarint(s) ==
    LET ends == {i \in DOMAIN s : s[i] < 128}
        n    == CHOOSE i \in ends : \A j \in ends : i <= j
    IN  IF ends = {} THEN Need(s) ELSE Got(Truncated(First(n, s)), After(n, s))

ReadVarString(s) ==
    Then(ReadVarint(s), LAMBDA n, r : IF CheckSize(n) THEN Take(n, r) ELSE Bad(r))

VarString(s) == Varint(Len(s)) \o s
-----------------------------------------------------------------------------
(* Framing.                                                                *)
Frame_CountsItself(bytes) == BigEndian(Len(bytes) + 4, 4) \o bytes
Frame(bytes) == BigEndian(Len(bytes), 4) \o bytes

(* TFramedTransport.readFrame.  The size is read away, and a body that     *)
(* does not arrive in time stays readable in readBuf.                      *)
ReadPlainFrame(t) ==
    LET size == Int32(First(4, t.raw))
        body == After(4, t.raw)
    IN  IF Len(t.raw) < 4 THEN Need([t EXCEPT !.raw = <<>>])
        ELSE IF size < 0 \/ size > MaxFrame THEN Bad([t EXCEPT !.raw = body])
        ELSE IF Len(body) < size THEN Need([t EXCEPT !.raw = <<>>, !.cur = body])
        ELSE Got(0, [t EXCEPT !.raw = After(size, body), !.cur = First(size, body)])
=============================================================================
