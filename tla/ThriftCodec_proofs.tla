------------------------- MODULE ThriftCodec_proofs -------------------------
(***************************************************************************)
(* What TBinaryProtocol, TCompactProtocol and TFramedTransport write is    *)
(* what they read back, for every value that fits and every limit:         *)
(* integers, varints, strings, the heads of messages, the headers of       *)
(* fields and collections, scalars, frames.  What is cut short waits for   *)
(* the rest, and what a header transport looks at to tell the protocols    *)
(* apart does.                                                             *)
(*                                                                         *)
(* A read is given the bytes that a write made, followed by any rest, and  *)
(* has to yield the value and that rest, so that reads follow one another  *)
(* as the writes did.                                                      *)
(***************************************************************************)
EXTENDS ThriftBytes, TLAPS

Binary  == INSTANCE ThriftBinary
Compact == INSTANCE ThriftCompact

Byte  == 0..255
Bytes == Seq(Byte)

(* int16 and int32.  The provers are given the bounds, never the interval. *)
Short == {n \in Int : -32768 <= n /\ n <= 32767}
Word  == {n \in Int : -2147483648 <= n /\ n <= 2147483647}
-----------------------------------------------------------------------------
(* Bytes, and what a read takes of them.                                   *)
LEMMA WordForm == ASSUME NEW n \in Word PROVE n \in Int /\ -2147483648 <= n /\ n <= 2147483647
BY SMT DEF Word

LEMMA BytesForm ==
  ASSUME NEW s \in Bytes
  PROVE  /\ Len(s) \in Nat /\ DOMAIN s = 1 .. Len(s) /\ \A i \in 1 .. Len(s) : s[i] \in 0..255
<1>1. Len(s) \in Nat /\ DOMAIN s = 1 .. Len(s)
  BY SMT DEF Bytes
<1>2. \A i \in 1 .. Len(s) : s[i] \in Byte
  BY SMT DEF Bytes
<1> QED
  BY <1>1, <1>2, Zenon DEF Byte

LEMMA ShortForm == ASSUME NEW s \in Bytes, Len(s) <= MaxMessage \/ Len(s) <= MaxFrame
  PROVE Len(s) \in Word /\ Len(s) \in Nat
<1>1. MaxMessage <= 2147483647 /\ MaxFrame <= 2147483647 /\ MaxMessage \in Nat /\ MaxFrame \in Nat
  BY LimitsAssumption, SMT DEF MaxInt32
<1>2. Len(s) \in Nat
  BY SMT DEF Bytes
<1> QED BY <1>1, <1>2, SMT DEF Word

LEMMA SeqOne == ASSUME NEW a \in 0..255 PROVE <<a>> \in Bytes /\ Len(<<a>>) = 1
BY SMT DEF Bytes, Byte
LEMMA SeqTwo == ASSUME NEW a \in 0..255, NEW b \in 0..255 PROVE <<a, b>> \in Bytes /\ Len(<<a, b>>) = 2
BY SMT DEF Bytes, Byte
LEMMA SeqFour == ASSUME NEW a \in 0..255, NEW b \in 0..255, NEW c \in 0..255, NEW d \in 0..255
  PROVE <<a,b,c,d>> \in Bytes /\ Len(<<a,b,c,d>>) = 4
BY SMT DEF Bytes, Byte

LEMMA TakeAll ==
  ASSUME NEW s \in Bytes, NEW r \in Bytes, NEW k, k = Len(s)
  PROVE  /\ s \o r \in Bytes /\ Len(s \o r) = k + Len(r)
         /\ k \in Nat /\ Len(r) \in Nat
         /\ First(k, s \o r) = s /\ After(k, s \o r) = r
         /\ Take(k, s \o r) = Got(s, r)
<1>1. s \o r \in Bytes /\ Len(s \o r) = Len(s) + Len(r) /\ Len(s) \in Nat /\ Len(r) \in Nat
  BY SMT DEF Bytes
<1>2. First(Len(s), s \o r) = s
  BY <1>1, SMT DEF First, Bytes
<1>3. After(Len(s), s \o r) = r
  BY <1>1, SMT DEF After, Bytes
<1> QED
  BY <1>1, <1>2, <1>3, SMT DEF Take

(* Concatenations regrouped from the left; named so that a proof can cite  *)
(* the equation it means.                                                  *)
Regroup3(a, b, c)       == (a \o b) \o c = a \o (b \o c)
Regroup4(a, b, c, d)    == ((a \o b) \o c) \o d = a \o (b \o (c \o d))
Regroup5(a, b, c, d, e) == (((a \o b) \o c) \o d) \o e = a \o (b \o (c \o (d \o e)))

LEMMA Regroup ==
  /\ \A a, b, c \in Bytes : Regroup3(a, b, c)
  /\ \A a, b, c, d \in Bytes : Regroup4(a, b, c, d)
  /\ \A a, b, c, d, e \in Bytes : Regroup5(a, b, c, d, e)
<1>1. \A a, b, c \in Bytes : Regroup3(a, b, c)
  BY SMT DEF Bytes, Regroup3
<1>2. \A a, b, c, d \in Bytes : Regroup4(a, b, c, d)
  BY SMT DEF Bytes, Regroup4
<1>3. ASSUME NEW a \in Bytes, NEW b \in Bytes, NEW c \in Bytes, NEW d \in Bytes, NEW e \in Bytes
      PROVE  Regroup5(a, b, c, d, e)
  <2>1. d \o e \in Bytes /\ (a \o b) \o c \in Bytes
    BY SMT DEF Bytes
  <2>2. Regroup4(a, b, c, d \o e) /\ Regroup3((a \o b) \o c, d, e)
    BY <1>1, <1>2, <2>1, SMT
  <2> QED
    BY <2>2, Zenon DEF Regroup3, Regroup4, Regroup5
<1> QED
  BY <1>1, <1>2, <1>3, Zenon

LEMMA TakeFour ==
  ASSUME NEW s \in Bytes, NEW r \in Bytes, Len(s) = 4
  PROVE  /\ First(4, s \o r) = s /\ After(4, s \o r) = r
         /\ Take(4, s \o r) = Got(s, r) /\ Len(s \o r) = 4 + Len(r)
BY TakeAll, Zenon

LEMMA Prefix ==
  ASSUME NEW s \in Bytes, NEW k \in Nat, k < Len(s)
  PROVE  /\ First(k, s) \in Bytes /\ Len(First(k, s)) = k
         /\ \A i \in 1..k : First(k, s)[i] = s[i]
BY SMT DEF First, Bytes

LEMMA Suffix ==
  ASSUME NEW s \in Bytes, NEW k \in Nat, k <= Len(s)
  PROVE  Len(After(k, s)) = Len(s) - k
BY SMT DEF After, Bytes

LEMMA StartsAlike ==
  ASSUME NEW s \in Bytes, NEW r \in Bytes, Len(s) >= 2
  PROVE  (s \o r)[1] = s[1] /\ (s \o r)[2] = s[2]
BY SMT DEF Bytes
-----------------------------------------------------------------------------
(* Integers of fixed width.                                                *)
LEMMA ByteSplit ==
  ASSUME NEW n \in Int
  PROVE  /\ n \div 256 \in Int /\ n % 256 \in 0..255
         /\ n = (256 * (n \div 256)) + (n % 256)
         /\ (n \div 256) \div 256 = n \div 65536
         /\ (n \div 65536) \div 256 = n \div 16777216
         /\ n % 65536 = (((n \div 256) % 256) * 256) + (n % 256)
<1>1. /\ n \div 256 \in Int /\ n % 256 \in 0..255
      /\ n = (256 * (n \div 256)) + (n % 256)
  BY SMT
<1>2. (n \div 256) \div 256 = n \div 65536
  BY SMT
<1>3. (n \div 65536) \div 256 = n \div 16777216
  BY SMT
<1>4. n % 65536 = (((n \div 256) % 256) * 256) + (n % 256)
  BY <1>1, <1>2, SMT
<1> QED
  BY <1>1, <1>2, <1>3, <1>4, SMT

LEMMA BigEndianForm == ASSUME NEW n \in Int, NEW k \in Nat, k <= 4
 PROVE BigEndian(n, k) \in Bytes /\ Len(BigEndian(n, k)) = k
<1>1. BigEndian(n, k) = [i \in 1..k |-> (n \div Weights[k - i + 1]) % 256]
  BY DEF BigEndian
<1>2. \A i \in 1..k : (n \div Weights[k - i + 1]) % 256 \in Byte
  <2>1. ASSUME NEW i \in 1..k PROVE (n \div Weights[k - i + 1]) % 256 \in Byte
     <3>1. PICK w \in Int : w = Weights[k - i + 1] /\ w > 0
       BY SMT DEF Weights
     <3>2. PICK q \in Int : q = n \div w
       BY <3>1, SMT
     <3>3. q % 256 \in Byte
       BY SMT DEF Byte
     <3> QED BY <3>1, <3>2, <3>3
  <2> QED BY <2>1
<1> QED BY <1>1, <1>2, SMT DEF Bytes

LEMMA FourBytes ==
  ASSUME NEW n \in Word
  PROVE  /\ BigEndian(n, 4) \in Bytes /\ Len(BigEndian(n, 4)) = 4
         /\ Int32(BigEndian(n, 4)) = n
         /\ n >= 0 => BigEndian(n, 4)[1] < 128
<1> DEFINE q1 == n \div 256
           q2 == n \div 65536
           q3 == n \div 16777216
<1>0. n \in Int
  BY SMT DEF Word
<1>1. n \in Int /\ -2147483648 <= n /\ n <= 2147483647
  BY SMT DEF Word
<1>2. /\ q1 \in Int /\ q2 \in Int /\ q3 \in Int
      /\ q2 = q1 \div 256 /\ q3 = q2 \div 256
  BY <1>1, ByteSplit, SMT
<1>3. n % 256 \in 0..255 /\ n = (256 * q1) + (n % 256)
  BY <1>1, ByteSplit, SMT
<1>4. BigEndian(n, 4) = <<q3 % 256, q2 % 256, q1 % 256, n % 256>>
  BY <1>1, SMT DEF BigEndian, Weights
<1> HIDE DEF q1, q2, q3
<1>5. /\ q1 % 256 \in 0..255 /\ q1 = (256 * q2) + (q1 % 256)
      /\ q2 % 256 \in 0..255 /\ q2 = (256 * q3) + (q2 % 256)
      /\ q3 % 256 \in 0..255
  BY <1>2, ByteSplit, SMT
<1>6. -128 <= q3 /\ q3 <= 127
  BY <1>1, <1>2, <1>3, <1>5, SMT
<1>7. q3 % 256 = IF q3 < 0 THEN q3 + 256 ELSE q3
  BY <1>2, <1>6, SMT
<1>8. (IF q3 % 256 < 128 THEN q3 % 256 ELSE (q3 % 256) - 256) = q3
  BY <1>2, <1>6, <1>7, SMT
<1>9. (q3 * 16777216) + ((q2 % 256) * 65536) + ((q1 % 256) * 256) + (n % 256) = n
  BY <1>1, <1>2, <1>3, <1>5, SMT
<1>10. BigEndian(n, 4) \in Bytes /\ Len(BigEndian(n, 4)) = 4
  <2>1. 4 \in Nat /\ 4 <= 4
    BY SMT
  <2> QED
    BY <1>0, <2>1, BigEndianForm, Zenon
<1>11. Int32(BigEndian(n, 4)) = n
  BY <1>4, <1>8, <1>9, SMT DEF Int32
<1>12. n >= 0 => BigEndian(n, 4)[1] < 128
  <2>1. n >= 0 => q3 >= 0
    BY <1>1, <1>2, <1>3, <1>5, SMT
  <2> QED
    BY <1>2, <1>4, <1>6, <1>7, <2>1, SMT
<1> QED
  BY <1>10, <1>11, <1>12

LEMMA BigEndian2 ==
  ASSUME NEW n \in Int
  PROVE  BigEndian(n, 2) \in Bytes /\ Len(BigEndian(n, 2)) = 2
<1>1. 2 \in Nat /\ 2 <= 4
  BY SMT
<1> QED
  BY <1>1, BigEndianForm, Zenon

LEMMA TwoBytes ==
  ASSUME NEW n \in Int, -32768 <= n, n <= 32767
  PROVE  /\ BigEndian(n, 2) \in Bytes /\ Len(BigEndian(n, 2)) = 2
         /\ Signed((BigEndian(n, 2)[1] * 256) + BigEndian(n, 2)[2], 65536) = n
         /\ Signed(n, 65536) = n
<1> DEFINE w == (((n \div 256) % 256) * 256) + (n % 256)
<1>1. BigEndian(n, 2) = <<(n \div 256) % 256, n % 256>>
  BY SMT DEF BigEndian, Weights
<1>2. (n \div 256) % 256 \in 0..255 /\ n % 256 \in 0..255
  BY ByteSplit, SMT
<1>3. w = n % 65536
  BY ByteSplit, SMT
<1>4. (BigEndian(n, 2)[1] * 256) + BigEndian(n, 2)[2] = w
  BY <1>1, SMT
<1>5. BigEndian(n, 2) \in Bytes /\ Len(BigEndian(n, 2)) = 2
  BY BigEndian2
<1> HIDE DEF w
<1>6. w = IF n < 0 THEN n + 65536 ELSE n
  BY <1>3, SMT
<1>7. w % 65536 = w /\ w \in Int /\ 65536 \div 2 = 32768
  BY <1>6, SMT
<1>8. Signed(w, 65536) = n
  BY <1>6, <1>7, SMT DEF Signed
<1>9. Signed(n, 65536) = n
  BY <1>3, <1>6, <1>7, SMT DEF Signed
<1> QED
  BY <1>4, <1>5, <1>8, <1>9

LEMMA OneByte ==
  ASSUME NEW n \in Int, -128 <= n, n <= 255
  PROVE  /\ BigEndian(n, 1) = <<n % 256>> /\ n % 256 \in 0..255
         /\ n <= 127 => Signed(n % 256, 256) = n
         /\ 0 <= n => n % 256 = n
<1>1. BigEndian(n, 1) = <<n % 256>>
  BY SMT DEF BigEndian, Weights
<1>2. n % 256 \in 0..255
  BY SMT
<1>3. n % 256 = IF n < 0 THEN n + 256 ELSE n
  BY SMT
<1>4. (n % 256) % 256 = n % 256 /\ 256 \div 2 = 128
  BY SMT
<1>5. n <= 127 => Signed(n % 256, 256) = n
  BY <1>3, <1>4, SMT DEF Signed
<1> QED
  BY <1>1, <1>2, <1>3, <1>5, SMT

LEMMA Halves ==
  ASSUME NEW n \in Int, 0 <= n
  PROVE  /\ n \div 65536 \in Int /\ n % 65536 \in Int
         /\ 0 <= n \div 65536 /\ 0 <= n % 65536 /\ n % 65536 <= 65535
         /\ n = (65536 * (n \div 65536)) + (n % 65536)
BY SMT

LEMMA Times ==
  ASSUME NEW a \in Nat, NEW b \in Nat, NEW m \in Nat
  PROVE  /\ a * m \in Nat /\ b * m \in Nat
         /\ ((65536 * a) + b) * m = (65536 * (a * m)) + (b * m)
BY SMT

LEMMA Wrapped ==
  ASSUME NEW c \in Nat, NEW d \in Nat, NEW p \in Nat, p = (65536 * d) + c, p <= 2147483647
  PROVE  LET h == (d + (c \div 65536)) % 65536
         IN  (IF h < 32768 THEN h ELSE h - 65536) * 65536 + (c % 65536) = p
<1> DEFINE e == c \div 65536
           f == c % 65536
<1>1. e \in Int /\ f \in Int /\ 0 <= e /\ 0 <= f /\ f <= 65535 /\ c = (65536 * e) + f
  BY Halves, SMT
<1> HIDE DEF e, f
<1>2. d + e \in Int /\ 0 <= d + e /\ d + e <= 32767
  BY <1>1, SMT
<1>3. (d + e) % 65536 = d + e
  BY <1>2, SMT
<1>4. ((d + e) * 65536) + f = p
  BY <1>1, SMT
<1>5. (IF (d + e) % 65536 < 32768 THEN (d + e) % 65536 ELSE ((d + e) % 65536) - 65536) * 65536 + f = p
  BY <1>1, <1>2, <1>3, <1>4, SMT
<1> QED
  BY <1>5 DEF e, f

(* A product that fits in 32 bits is what the code computes.               *)
LEMMA ProductFits ==
  ASSUME NEW n \in Nat, NEW m \in Nat, n * m <= 2147483647
  PROVE  Times32(n, m) = n * m
<1> DEFINE a == n \div 65536
           b == n % 65536
<1>1. a \in Nat /\ b \in Nat /\ n = (65536 * a) + b
  BY Halves, SMT
<1> HIDE DEF a, b
<1>2. PICK c \in Nat, d \in Nat : c = b * m /\ d = a * m /\ n * m = (65536 * d) + c
  BY <1>1, Times, SMT
<1>3. n * m \in Nat
  BY <1>2, SMT
<1>4. LET h == (d + (c \div 65536)) % 65536
      IN  (IF h < 32768 THEN h ELSE h - 65536) * 65536 + (c % 65536) = n * m
  BY <1>2, <1>3, Wrapped, SMT
<1> QED
  BY <1>1, <1>2, <1>4, SMT DEF Times32, a, b
-----------------------------------------------------------------------------
(* Varints.                                                                *)
(* The group of seven bits that has the weight w, and the last one of four. *)
Group(n, i) == (n \div VarWeights[i]) % (IF i = 5 THEN 16 ELSE 128)

LEMMA VarWeightsAre ==
  /\ VarWeights[1] = 1 /\ VarWeights[2] = 128 /\ VarWeights[3] = 16384
  /\ VarWeights[4] = 2097152 /\ VarWeights[5] = 268435456
BY SMT DEF VarWeights

LEMMA SevenBits ==
  ASSUME NEW n \in Int
  PROVE  /\ n \div 128 \in Int /\ n % 128 \in 0..127 /\ n = (128 * (n \div 128)) + (n % 128)
         /\ n \div 1 = n
         /\ (n \div 128) \div 128 = n \div 16384
         /\ (n \div 16384) \div 128 = n \div 2097152
         /\ (n \div 2097152) \div 128 = n \div 268435456
<1>1. n \div 128 \in Int /\ n % 128 \in 0..127 /\ n = (128 * (n \div 128)) + (n % 128)
  BY SMT
<1>2. n \div 1 = n
  BY SMT
<1>3. (n \div 128) \div 128 = n \div 16384
  BY SMT
<1>4. (n \div 16384) \div 128 = n \div 2097152
  BY SMT
<1>5. (n \div 2097152) \div 128 = n \div 268435456
  BY SMT
<1> QED
  BY <1>1, <1>2, <1>3, <1>4, <1>5, SMT

LEMMA Groups ==
  ASSUME NEW n \in Word
  PROVE  /\ \A i \in 1..4 : Group(n, i) \in 0..127
         /\ Group(n, 5) \in 0..15
         /\ n = Group(n, 1) + (Group(n, 2) * 128) + (Group(n, 3) * 16384) + (Group(n, 4) * 2097152)
                  + ((IF Group(n, 5) < 8 THEN Group(n, 5) ELSE Group(n, 5) - 16) * 268435456)
         /\ 0 <= n /\ n < 268435456 => Group(n, 5) = 0
         /\ 0 <= n /\ n < 2097152 => Group(n, 4) = 0
         /\ 0 <= n /\ n < 16384 => Group(n, 3) = 0
         /\ 0 <= n /\ n < 128 => Group(n, 2) = 0
<1> DEFINE q1 == n \div 128
           q2 == n \div 16384
           q3 == n \div 2097152
           q4 == n \div 268435456
<1>1. n \in Int /\ -2147483648 <= n /\ n <= 2147483647
  BY SMT DEF Word
<1>2. /\ q1 \in Int /\ q2 \in Int /\ q3 \in Int /\ q4 \in Int
      /\ q2 = q1 \div 128 /\ q3 = q2 \div 128 /\ q4 = q3 \div 128
  BY <1>1, SevenBits, SMT
<1>3. n % 128 \in 0..127 /\ n = (128 * q1) + (n % 128)
  BY <1>1, SevenBits, SMT
<1>4. /\ Group(n, 1) = n % 128 /\ Group(n, 2) = q1 % 128 /\ Group(n, 3) = q2 % 128
      /\ Group(n, 4) = q3 % 128 /\ Group(n, 5) = q4 % 16
  BY <1>1, VarWeightsAre, SevenBits, SMT DEF Group
<1> HIDE DEF q1, q2, q3, q4
<1>5. /\ q1 % 128 \in 0..127 /\ q1 = (128 * q2) + (q1 % 128)
      /\ q2 % 128 \in 0..127 /\ q2 = (128 * q3) + (q2 % 128)
      /\ q3 % 128 \in 0..127 /\ q3 = (128 * q4) + (q3 % 128)
  BY <1>2, SevenBits, SMT
<1>6. -8 <= q4 /\ q4 <= 7
  BY <1>1, <1>2, <1>3, <1>5, SMT
<1>7. q4 % 16 = IF q4 < 0 THEN q4 + 16 ELSE q4
  BY <1>2, <1>6, SMT
<1>8. (IF q4 % 16 < 8 THEN q4 % 16 ELSE (q4 % 16) - 16) = q4 /\ q4 % 16 \in 0..15
  BY <1>2, <1>6, <1>7, SMT
<1>9. n = (n % 128) + ((q1 % 128) * 128) + ((q2 % 128) * 16384) + ((q3 % 128) * 2097152) + (q4 * 268435456)
  BY <1>1, <1>2, <1>3, <1>5, SMT
<1>10. /\ 0 <= n /\ n < 268435456 => q4 % 16 = 0
       /\ 0 <= n /\ n < 2097152 => q3 % 128 = 0
       /\ 0 <= n /\ n < 16384 => q2 % 128 = 0
       /\ 0 <= n /\ n < 128 => q1 % 128 = 0
  BY <1>1, <1>2, <1>3, <1>5, <1>6, <1>7, SMT
<1>11. \A i \in 1..4 : Group(n, i) \in 0..127
  <2>1. ASSUME NEW i \in 1..4 PROVE i = 1 \/ i = 2 \/ i = 3 \/ i = 4
    BY SMT
  <2> QED
    BY <1>3, <1>4, <1>5, <2>1, SMT
<1> QED
  BY <1>4, <1>8, <1>9, <1>10, <1>11, SMT

LEMMA VarintForm ==
  ASSUME NEW n \in Word
  PROVE  /\ VarintSize(n) \in 1..5
         /\ Varint(n) \in Bytes /\ Len(Varint(n)) = VarintSize(n)
         /\ \A i \in 1..5 : i < VarintSize(n) => Varint(n)[i] >= 128
         /\ Varint(n)[VarintSize(n)] < 128
         /\ \A i \in 1..5 : (IF i <= VarintSize(n) THEN Varint(n)[i] % 128 ELSE 0) = Group(n, i)
<1> DEFINE k == VarintSize(n)
<1>1. n \in Int
  BY SMT DEF Word
<1>2. /\ k \in 1..5
      /\ k < 5 => 0 <= n /\ n < 268435456
      /\ k < 4 => n < 2097152
      /\ k < 3 => n < 16384
      /\ k < 2 => n < 128
  BY <1>1, VarWeightsAre, SMT DEF VarintSize
<1>3. \A i \in 1..5 : Group(n, i) \in 0..127 /\ (i = 5 => Group(n, i) \in 0..15) /\ (i > k => Group(n, i) = 0)
  <2>1. ASSUME NEW i \in 1..5 PROVE i \in 1..4 \/ i = 5
    BY SMT
  <2>2. ASSUME NEW i \in 1..4 PROVE i > k => Group(n, i) = 0
    BY <1>2, Groups, SMT
  <2> HIDE DEF k
  <2> QED
    BY <1>2, <2>1, <2>2, Groups, SMT
<1>4. Varint(n) = [i \in 1..k |-> Group(n, i) + (IF i < k THEN 128 ELSE 0)]
  BY DEF Varint, Group
<1> HIDE DEF k
<1>5. \A i \in 1..k : Group(n, i) + (IF i < k THEN 128 ELSE 0) \in Byte
  BY <1>2, <1>3, SMT DEF Byte
<1>6. Varint(n) \in Bytes /\ Len(Varint(n)) = k
  BY <1>2, <1>4, <1>5, SMT DEF Bytes
<1>7. \A i \in 1..5 : i < k => Varint(n)[i] = Group(n, i) + 128
  BY <1>2, <1>4, SMT
<1>8. Varint(n)[k] = Group(n, k) /\ Group(n, k) \in 0..127
  <2>1. Group(n, k) \in 0..127 /\ k \in 1..k
    BY <1>2, <1>3, SMT
  <2>2. Varint(n)[k] = Group(n, k) + 0
    BY <1>4, <2>1, SMT
  <2> QED
    BY <2>1, <2>2, SMT
<1>9. \A i \in 1..5 : (IF i <= k THEN Varint(n)[i] % 128 ELSE 0) = Group(n, i)
  <2>1. \A g \in 0..127 : (g + 128) % 128 = g /\ g % 128 = g
    BY SMT
  <2>2. ASSUME NEW i \in 1..5 PROVE i < k \/ i = k \/ i > k
    BY <1>2, SMT
  <2> QED
    BY <1>2, <1>3, <1>7, <1>8, <2>1, <2>2, SMT
<1>10. \A i \in 1..5 : i < k => Varint(n)[i] >= 128
  BY <1>3, <1>7, SMT
<1>11. Varint(n)[k] < 128
  BY <1>8, SMT
<1>12. k = VarintSize(n) /\ k \in 1..5
  BY <1>2, SMT DEF k
<1> QED
  BY <1>6, <1>9, <1>10, <1>11, <1>12, Zenon

LEMMA TruncatedVarint ==
  ASSUME NEW n \in Word
  PROVE  Truncated(Varint(n)) = n
<1> DEFINE g(i) == IF i <= Len(Varint(n)) THEN Varint(n)[i] % 128 ELSE 0
           top  == g(5) % 16
<1>1. /\ g(1) = Group(n, 1) /\ g(2) = Group(n, 2) /\ g(3) = Group(n, 3)
      /\ g(4) = Group(n, 4) /\ g(5) = Group(n, 5)
  <2>1. Len(Varint(n)) = VarintSize(n) /\ VarintSize(n) \in 1..5
    BY VarintForm, Zenon
  <2>2. \A i \in 1..5 : (IF i <= VarintSize(n) THEN Varint(n)[i] % 128 ELSE 0) = Group(n, i)
    BY VarintForm, Zenon
  <2>3. \A i \in 1..5 : g(i) = Group(n, i)
    BY <2>1, <2>2, Zenon
  <2> HIDE DEF g
  <2> QED
    BY <2>3, SMT
<1>2. Truncated(Varint(n)) = g(1) + (g(2) * 128) + (g(3) * 16384) + (g(4) * 2097152)
          + ((IF top < 8 THEN top ELSE top - 16) * 268435456)
  BY SMT DEF Truncated
<1> HIDE DEF g
<1>3. top = Group(n, 5)
  BY <1>1, Groups, SMT
<1> HIDE DEF top
<1> QED
  BY <1>1, <1>2, <1>3, Groups, SMT

(* writeVarint32 and readVarint32: every 32-bit word is read back, and no  *)
(* byte beyond its own is taken, whatever follows.                         *)
THEOREM VarintReadBack ==
  ASSUME NEW n \in Word, NEW rest \in Bytes
  PROVE  ReadVarint(Varint(n) \o rest) = Got(n, rest)
<1> DEFINE s    == Varint(n) \o rest
           ends == {i \in DOMAIN s : s[i] < 128}
<1>1. PICK k \in 1..5 : k = VarintSize(n)
  BY VarintForm, Zenon
<1>2. Varint(n) \in Bytes /\ Len(Varint(n)) = k
  BY <1>1, VarintForm, Zenon
<1>3. First(k, s) = Varint(n) /\ After(k, s) = rest
  BY <1>2, TakeAll, Zenon
<1>4. DOMAIN s = 1 .. k + Len(rest) /\ Len(rest) \in Nat /\ \A i \in 1..k : s[i] = Varint(n)[i]
  BY <1>2, SMT DEF Bytes
<1>5. k \in ends
  <2>1. s[k] < 128
    BY <1>1, <1>4, VarintForm, SMT
  <2> QED
    BY <1>4, <2>1, SMT
<1>6. \A j \in ends : k <= j
  <2>1. ASSUME NEW j \in ends, j < k PROVE FALSE
    <3>1. j \in 1..k /\ j \in 1..5 /\ s[j] < 128
      BY <1>4, <2>1, SMT
    <3>2. Varint(n)[j] >= 128
      BY <1>1, <2>1, <3>1, VarintForm, SMT
    <3>3. Varint(n)[j] \in 0..255
      BY <1>2, <3>1, BytesForm, Zenon
    <3>4. s[j] = Varint(n)[j]
      BY <1>4, <3>1, Zenon
    <3>5. PICK v \in 0..255 : v = Varint(n)[j]
      BY <3>3, Zenon
    <3>6. v < 128 /\ v >= 128
      BY <3>1, <3>2, <3>4, <3>5, Zenon
    <3> QED
      BY <3>6, SMT
  <2> QED
    BY <1>4, <2>1, SMT
<1>7. \A i \in ends : i \in Int
  BY <1>4, SMT
<1>8. (CHOOSE i \in ends : \A j \in ends : i <= j) = k
  <2> HIDE DEF ends
  <2>1. \A i \in ends : (\A j \in ends : i <= j) => i = k
    BY <1>5, <1>6, <1>7, SMT
  <2> QED
    BY <1>5, <1>6, <2>1, Zenon
<1>9. ends # {}
  BY <1>5
<1> QED
  BY <1>3, <1>8, <1>9, TruncatedVarint, Zenon DEF ReadVarint

(* readVarint32: no proper prefix of a varint is taken for one; the read   *)
(* waits for the bytes that are missing.                                   *)
THEOREM VarintCut ==
  ASSUME NEW n \in Word, NEW k \in Nat, k < VarintSize(n)
  PROVE  ReadVarint(First(k, Varint(n))) = Need(First(k, Varint(n)))
<1>1. PICK size \in 1..5 : size = VarintSize(n)
  BY VarintForm, Zenon
<1>2. PICK b \in Bytes : b = Varint(n) /\ Len(b) = size /\ \A i \in 1..5 : i < size => b[i] >= 128
  BY <1>1, VarintForm, Zenon
<1>3. PICK s \in Bytes : s = First(k, b) /\ Len(s) = k /\ \A i \in 1..k : s[i] = b[i]
  <2>1. k < Len(b)
    BY <1>1, <1>2, Zenon
  <2> QED
    BY <2>1, Prefix, Zenon
<1>4. DOMAIN s = 1..k
  BY <1>3, BytesForm, Zenon
<1>5. ASSUME NEW i \in 1..k
      PROVE  ~(s[i] < 128)
  <2>1. i \in 1..5 /\ i < size
    BY <1>1, SMT
  <2>2. PICK v \in 0..255 : v = b[i]
    <3>1. i \in 1..Len(b)
      BY <1>2, <2>1, SMT
    <3> QED
      BY <3>1, BytesForm, Zenon
  <2>3. v >= 128
    BY <1>2, <2>1, <2>2, Zenon
  <2>4. ~(v < 128)
    BY <2>3, SMT
  <2> QED
    BY <1>3, <2>2, <2>4, Zenon
<1>6. {i \in DOMAIN s : s[i] < 128} = {}
  BY <1>4, <1>5, Zenon
<1> QED
  BY <1>2, <1>3, <1>6, Zenon DEF ReadVarint
-----------------------------------------------------------------------------
(* Frames.                                                                 *)
(* TFramedTransport.Flush and readFrame: the receiver has the bytes that   *)
(* were written, exactly those, and leaves what follows the frame.         *)
THEOREM FrameReadBack ==
  ASSUME NEW b \in Bytes, Len(b) <= MaxFrame, NEW rest \in Bytes, NEW t, t.raw = Frame(b) \o rest
  PROVE  ReadPlainFrame(t) = Got(0, [t EXCEPT !.raw = rest, !.cur = b])
<1>1. Len(b) \in Word /\ Len(b) \in Nat
  BY ShortForm
<1>2. PICK h \in Bytes : h = BigEndian(Len(b), 4) /\ Len(h) = 4 /\ Int32(h) = Len(b)
  BY <1>1, FourBytes, Zenon
<1>3. PICK r \in Bytes :
      /\ r = b \o rest
      /\ First(Len(b), r) = b
      /\ After(Len(b), r) = rest
      /\ Len(r) = Len(b) + Len(rest)
  BY TakeAll, Zenon
<1>4. t.raw = h \o r
  <2>1. Regroup3(h, b, rest)
    BY Regroup, SMT
  <2> QED
    BY <1>2, <1>3, <2>1, Zenon DEF Frame, Regroup3
<1>5. First(4, t.raw) = h /\ After(4, t.raw) = r /\ Len(t.raw) = 4 + Len(r)
  BY <1>2, <1>4, TakeFour, Zenon
<1>6. MaxFrame \in Nat /\ Len(rest) \in Nat
  BY LimitsAssumption, BytesForm
<1>7. ~(Len(t.raw) < 4) /\ ~(Len(b) < 0) /\ ~(Len(b) > MaxFrame) /\ ~(Len(r) < Len(b))
  BY <1>1, <1>3, <1>5, <1>6, SMT
<1> QED
  BY <1>2, <1>3, <1>5, <1>7, Zenon DEF ReadPlainFrame

(* TFramedTransport.readFrame: wherever a frame is cut, in its size or in  *)
(* its body, the read waits; it yields no body and reports no bad size.    *)
THEOREM FrameCut ==
  ASSUME NEW b \in Bytes, Len(b) <= MaxFrame, NEW k \in Nat, k < Len(Frame(b)),
         NEW t, t.raw = First(k, Frame(b))
  PROVE  ReadPlainFrame(t).tag = "need"
<1>1. Len(b) \in Word /\ Len(b) \in Nat
  BY ShortForm
<1>2. PICK h \in Bytes : h = BigEndian(Len(b), 4) /\ Len(h) = 4 /\ Int32(h) = Len(b)
  BY <1>1, FourBytes, Zenon
<1>3. PICK f \in Bytes : f = h \o b /\ f = Frame(b) /\ Len(f) = 4 + Len(b)
  BY <1>2, TakeFour, TakeAll, Zenon DEF Frame
<1>4. PICK s \in Bytes : s = First(k, f) /\ Len(s) = k /\ t.raw = s
  BY <1>3, Prefix, Zenon
<1>5. CASE k < 4
  <2>1. ReadPlainFrame(t) = Need([t EXCEPT !.raw = <<>>])
    BY <1>4, <1>5, Zenon DEF ReadPlainFrame
  <2> QED
    BY <2>1, SMT DEF Need
<1>6. CASE ~(k < 4)
  <2>1. First(4, s) = h
    <3>1. h = [i \in 1..4 |-> f[i]]
      BY <1>2, <1>3, SMT DEF Bytes
    <3>2. \A i \in 1..4 : s[i] = f[i]
      BY <1>3, <1>4, <1>6, Prefix, SMT
    <3>3. First(4, s) = [i \in 1..4 |-> s[i]]
      BY <1>4, <1>6, SMT DEF First, Bytes
    <3> QED
      BY <3>1, <3>2, <3>3, SMT
  <2>2. PICK r : r = After(4, s) /\ Len(r) = k - 4
    <3>1. 4 <= Len(s) /\ 4 \in Nat
      BY <1>4, <1>6, SMT
    <3>2. Len(After(4, s)) = Len(s) - 4
      BY <3>1, Suffix, Zenon
    <3> QED
      BY <1>4, <3>2, Zenon
  <2>3. MaxFrame \in Nat
    BY LimitsAssumption
  <2>4. ~(Len(s) < 4) /\ ~(Len(b) < 0) /\ ~(Len(b) > MaxFrame) /\ Len(r) < Len(b)
    BY <1>1, <1>3, <1>4, <1>6, <2>2, <2>3, SMT
  <2>5. ReadPlainFrame(t) = Need([t EXCEPT !.raw = <<>>, !.cur = r])
    BY <1>2, <1>4, <2>1, <2>2, <2>4, Zenon DEF ReadPlainFrame
  <2> QED
    BY <2>5, SMT DEF Need
<1> QED
  BY <1>5, <1>6
-----------------------------------------------------------------------------
(* TBinaryProtocol.                                                        *)
LEMMA BinaryBytes ==
  /\ \A k, s : Binary!Take(k, s) = Take(k, s)
  /\ \A b : Binary!Int32(b) = Int32(b)
  /\ \A n, k : Binary!BigEndian(n, k) = BigEndian(n, k)
  /\ \A n, w : Binary!Signed(n, w) = Signed(n, w)
  /\ \A n, m : Binary!Times32(n, m) = Times32(n, m)
  /\ \A n : Binary!CheckSize(n) <=> CheckSize(n)
  /\ \A k, s : Binary!After(k, s) = After(k, s)
BY SMT
   DEF Take, Int32, BigEndian, Weights, Binary!Take, Binary!Int32, Binary!BigEndian, Binary!Weights,
  Got, Need, First, After, Binary!Got, Binary!Need, Binary!First, Binary!After,
  Signed, Binary!Signed, Times32, Binary!Times32, CheckSize, Binary!CheckSize

LEMMA BinaryReadI32 ==
  ASSUME NEW n \in Word, NEW rest \in Bytes, NEW b, b = BigEndian(n, 4)
  PROVE  Binary!ReadI32(b \o rest) = Got(n, rest)
<1>1. b \in Bytes /\ Len(b) = 4 /\ Int32(b) = n
  BY FourBytes, Zenon
<1>2. Binary!Take(4, b \o rest) = Got(b, rest)
  BY <1>1, TakeFour, BinaryBytes, Zenon
<1>3. Binary!Int32(b) = n
  BY <1>1, BinaryBytes, Zenon
<1> QED
  BY <1>2, <1>3, SMT DEF Binary!ReadI32, Binary!Then, Binary!With, Binary!Got, Got

LEMMA BinaryReadByte ==
  ASSUME NEW b \in 0..255, NEW rest \in Bytes
  PROVE  Binary!ReadByte(<<b>> \o rest) = Got(b, rest)
<1>1. <<b>> \in Bytes /\ 1 = Len(<<b>>)
  BY SeqOne, Zenon
<1>2. Binary!Take(1, <<b>> \o rest) = Got(<<b>>, rest)
  BY <1>1, TakeAll, BinaryBytes, Zenon
<1>3. <<b>>[1] = b
  BY SMT
<1> QED
  BY <1>2, <1>3, SMT DEF Binary!ReadByte, Binary!Then, Binary!With, Binary!Got, Got

LEMMA BinaryReadI16 ==
  ASSUME NEW n \in Short, NEW rest \in Bytes, NEW b, b = BigEndian(n, 2)
  PROVE  Binary!ReadI16(b \o rest) = Got(n, rest)
<1>1. b \in Bytes /\ 2 = Len(b) /\ Signed((b[1] * 256) + b[2], 65536) = n
  BY TwoBytes, SMT DEF Short
<1>2. Binary!Take(2, b \o rest) = Got(b, rest)
  <2>1. b \in Bytes /\ 2 = Len(b)
    BY <1>1, SMT
  <2> QED
    BY <2>1, TakeAll, BinaryBytes, Zenon
<1>3. Binary!Signed((b[1] * 256) + b[2], 65536) = n
  BY <1>1, SMT DEF Signed, Binary!Signed
<1> QED
  BY <1>2, <1>3, SMT DEF Binary!ReadI16, Binary!Then, Binary!With, Binary!Got, Got

LEMMA BinaryReadString ==
  ASSUME NEW s \in Bytes, Len(s) <= MaxMessage, NEW rest \in Bytes, NEW b, b = Binary!WriteString(s)
  PROVE  /\ b \in Bytes /\ Binary!ReadString(b \o rest) = Got(s, rest)
         /\ b = BigEndian(Len(s), 4) \o s
<1>1. PICK n \in Word : n = Len(s) /\ n \in Nat /\ n <= MaxMessage
  BY ShortForm, Zenon
<1>2. PICK h \in Bytes : h = BigEndian(n, 4)
  BY FourBytes, Zenon
<1>3. b = h \o s
  BY <1>1, <1>2, BinaryBytes, Zenon DEF Binary!WriteString
<1>4. PICK r \in Bytes : r = s \o rest /\ Take(n, r) = Got(s, rest)
  BY <1>1, TakeAll, Zenon
<1>5. b \o rest = h \o r /\ b \in Bytes
  <2>1. Regroup3(h, s, rest)
    BY Regroup, SMT
  <2>2. h \o s \in Bytes
    BY TakeAll, Zenon
  <2> QED
    BY <1>3, <1>4, <2>1, <2>2, Zenon DEF Regroup3
<1>6. Binary!ReadI32(h \o r) = Got(n, r)
  BY <1>2, BinaryReadI32, Zenon
<1>7. Binary!Take(n, r) = Got(s, rest)
  BY <1>4, BinaryBytes, Zenon
<1>8. Binary!CheckSize(n)
  BY <1>1, SMT DEF Binary!CheckSize
<1>9. Binary!ReadString(h \o r) = Got(s, rest)
  BY <1>6, <1>7, <1>8, SMT DEF Binary!ReadString, Binary!Then, Binary!With, Got
<1> QED
  BY <1>1, <1>2, <1>3, <1>5, <1>9, Zenon

LEMMA BinaryVersioned ==
  ASSUME NEW size \in Int, size \div 65536 = -32767, NEW s, NEW name, NEW r, NEW seq, NEW q,
         Binary!ReadString(s) = Got(name, r), Binary!ReadI32(r) = Got(seq, q)
  PROVE  Binary!ReadVersioned(size, s) = Got([name |-> name, type |-> size % 256, seq |-> seq], q)
BY SMT DEF Binary!ReadVersioned, Binary!Then, Binary!With, Binary!Got, Got

(* TBinaryProtocol.WriteMessageBegin and ReadMessageBegin, strict: name,   *)
(* type and sequence number are read back.                                 *)
THEOREM BinaryHead ==
  ASSUME NEW name \in Bytes, Len(name) <= MaxMessage, NEW type \in 0..127, NEW seq \in Word,
         NEW rest \in Bytes
  PROVE  Binary!ReadMessageBegin(TRUE, Binary!WriteMessageBegin(TRUE, name, type, seq) \o rest)
           = Got([name |-> name, type |-> type, seq |-> seq], rest)
<1> DEFINE msg == Binary!WriteMessageBegin(TRUE, name, type, seq)
<1>1. PICK v \in Bytes : v = <<128, 1, 0, type>> /\ Len(v) = 4
  <2>1. <<128, 1, 0, type>> \in Bytes /\ Len(<<128, 1, 0, type>>) = 4
    BY SMT DEF Bytes, Byte
  <2> QED
    BY <2>1, SMT

<1>2. PICK size \in Int :
      /\ size = Int32(v)
      /\ size < 0
      /\ size \div 65536 = -32767
      /\ size % 256 = type
  <2>1. Int32(v) = -2147418112 + type
    BY <1>1, SMT DEF Int32
  <2>2. (-2147418112 + type) \in Int /\ -2147418112 + type < 0
    BY SMT
  <2>3. (-2147418112 + type) \div 65536 = -32767 /\ (-2147418112 + type) % 256 = type
    BY SMT
  <2> QED
    BY <2>1, <2>2, <2>3, SMT
<1>3. PICK str \in Bytes : str = Binary!WriteString(name)
  BY BinaryReadString, Zenon
<1>4. PICK num \in Bytes : num = BigEndian(seq, 4)
  BY FourBytes, Zenon
<1>5. msg = (v \o str) \o num
  BY <1>1, <1>3, <1>4, BinaryBytes, Zenon DEF Binary!WriteMessageBegin
<1>6. PICK q \in Bytes : q = num \o rest
  BY TakeAll, Zenon
<1>7. PICK r \in Bytes : r = str \o q
  BY TakeAll, Zenon
<1>8. msg \o rest = v \o r
  <2>1. Regroup4(v, str, num, rest)
    BY Regroup, SMT
  <2> QED
    BY <1>5, <1>6, <1>7, <2>1, Zenon DEF Regroup4
<1>9. Binary!ReadI32(v \o r) = Got(size, r)
  <2>1. Binary!Take(4, v \o r) = Got(v, r) /\ Binary!Int32(v) = size
    <3>1. size = Int32(v)
      BY <1>2, SMT
    <3> QED
      BY <1>1, <3>1, TakeFour, BinaryBytes, Zenon
  <2> QED
    BY <2>1, SMT DEF Binary!ReadI32, Binary!Then, Binary!With, Binary!Got, Got
<1>10. Binary!ReadString(r) = Got(name, q) /\ Binary!ReadI32(q) = Got(seq, rest)
  <2>1. Binary!ReadString(str \o q) = Got(name, q)
    BY <1>3, BinaryReadString, Zenon
  <2>2. Binary!ReadI32(num \o rest) = Got(seq, rest)
    BY <1>4, BinaryReadI32, Zenon
  <2> QED
    BY <1>6, <1>7, <2>1, <2>2, Zenon
<1>11. Binary!ReadVersioned(size, r) = Got([name |-> name, type |-> type, seq |-> seq], rest)
  BY <1>2, <1>10, BinaryVersioned, SMT
<1>12. size < 0
  BY <1>2, SMT
<1> HIDE DEF msg
<1>13. Binary!ReadMessageBegin(TRUE, v \o r)
      = Got([name |-> name, type |-> type, seq |-> seq], rest)
  BY <1>9, <1>11, <1>12, SMT DEF Binary!ReadMessageBegin, Binary!Then, Binary!With, Got
<1> QED
  BY <1>8, <1>13, Zenon DEF msg

(* The same without a version: a reader that is not strict reads the head  *)
(* back, and a strict one refuses it.                                      *)
THEOREM BinaryOldHead ==
  ASSUME NEW name \in Bytes, Len(name) <= MaxMessage, NEW type \in 0..127, NEW seq \in Word,
         NEW rest \in Bytes
  PROVE  LET msg == Binary!WriteMessageBegin(FALSE, name, type, seq) \o rest
         IN  /\ Binary!ReadMessageBegin(FALSE, msg)
               = Got([name |-> name, type |-> type, seq |-> seq], rest)
             /\ Binary!ReadMessageBegin(TRUE, msg).tag = "bad"
<1> DEFINE msg == Binary!WriteMessageBegin(FALSE, name, type, seq) \o rest
           head == [name |-> name, type |-> type, seq |-> seq]
<1>1. PICK size \in Word : size = Len(name) /\ size \in Nat
  BY ShortForm, Zenon
<1>2. PICK v \in Bytes : v = BigEndian(size, 4)
  BY FourBytes, Zenon
<1>3. PICK b \in Bytes : b = <<type>>
  <2>1. <<type>> \in Bytes
    BY SMT DEF Bytes, Byte
  <2> QED
    BY <2>1, Zenon
<1>4. PICK num \in Bytes : num = BigEndian(seq, 4)
  BY FourBytes, Zenon
<1>5. msg = v \o (name \o (b \o (num \o rest)))
  <2>1. Regroup5(v, name, b, num, rest)
    BY Regroup, SMT
  <2> QED
    BY <1>1, <1>2, <1>3, <1>4, <2>1, BinaryBytes, Zenon
       DEF Binary!WriteMessageBegin, Binary!WriteString, Regroup5
<1>6. PICK p \in Bytes : p = num \o rest
  BY TakeAll, Zenon
<1>7. PICK q \in Bytes : q = b \o p
  BY TakeAll, Zenon
<1>8. PICK r \in Bytes : r = name \o q /\ Take(size, r) = Got(name, q)
  BY <1>1, TakeAll, Zenon
<1>9. Binary!ReadI32(v \o r) = Got(size, r)
  BY <1>2, BinaryReadI32, Zenon
<1>10. Binary!Take(size, r) = Got(name, q)
  BY <1>8, BinaryBytes, Zenon
<1>11. Binary!ReadByte(q) = Got(type, p)
  <2>1. type \in 0..255
    BY SMT
  <2> QED
    BY <1>3, <1>7, <2>1, BinaryReadByte, Zenon
<1>12. Binary!ReadI32(p) = Got(seq, rest)
  BY <1>4, <1>6, BinaryReadI32, Zenon
<1>13. Binary!ReadUnversioned(size, r) = Got(head, rest)
  <2>1. Binary!Signed(type, 256) = type
    BY SMT DEF Binary!Signed
  <2> QED
    BY <1>10, <1>11, <1>12, <2>1, SMT
       DEF Binary!ReadUnversioned, Binary!Then, Binary!With, Binary!Got, Got
<1>14. ~(size < 0)
  BY <1>1, SMT
<1> HIDE DEF msg, head
<1>15. Binary!ReadMessageBegin(FALSE, v \o r) = Got(head, rest)
  BY <1>9, <1>13, <1>14, SMT DEF Binary!ReadMessageBegin, Binary!Then, Binary!With, Got
<1>16. Binary!ReadMessageBegin(TRUE, v \o r) = Bad(r)
  BY <1>9, <1>14, SMT DEF Binary!ReadMessageBegin, Binary!Then, Binary!With, Got, Binary!Bad, Bad
<1>17. Bad(r).tag = "bad"
  BY DEF Bad
<1> QED
  BY <1>5, <1>6, <1>7, <1>8, <1>15, <1>16, <1>17, Zenon DEF msg, head

(* TBinaryProtocol's field headers, the one that ends a struct included.   *)
THEOREM BinaryField ==
  ASSUME NEW type \in 1..127, NEW id \in Short, NEW rest \in Bytes
  PROVE  /\ Binary!ReadFieldBegin(Binary!WriteFieldBegin(type, id) \o rest)
              = Got([type |-> type, id |-> id, bool |-> <<>>], rest)
         /\ Binary!ReadFieldBegin(<<TType.STOP>> \o rest)
              = Got([type |-> TType.STOP, id |-> 0, bool |-> <<>>], rest)
<1>1. type \in 0..255 /\ type # 0 /\ 0 \in 0..255 /\ Binary!TType.STOP = 0 /\ TType.STOP = 0
  BY SMT DEF TType, Binary!TType
<1>2. PICK b \in Bytes : b = <<type>>
  BY <1>1, SeqOne, Zenon
<1>3. PICK num \in Bytes : num = BigEndian(id, 2)
  <2>1. id \in Int
    BY SMT DEF Short
  <2> QED
    BY <2>1, BigEndian2, Zenon
<1>4. PICK r \in Bytes : r = num \o rest
  BY TakeAll, Zenon
<1>5. Binary!WriteFieldBegin(type, id) \o rest = b \o r
  <2>1. Regroup3(b, num, rest)
    BY Regroup, SMT
  <2> QED
    BY <1>2, <1>3, <1>4, <2>1, BinaryBytes, Zenon DEF Binary!WriteFieldBegin, Regroup3
<1>6. Binary!ReadByte(b \o r) = Got(type, r)
  BY <1>1, <1>2, BinaryReadByte, Zenon
<1>7. Binary!ReadI16(r) = Got(id, rest)
  BY <1>3, <1>4, BinaryReadI16, Zenon
<1>8. Binary!ReadFieldBegin(b \o r) = Got([type |-> type, id |-> id, bool |-> <<>>], rest)
  BY <1>1, <1>6, <1>7, SMT DEF Binary!ReadFieldBegin, Binary!Then, Binary!With, Binary!Got, Got
<1>9. Binary!ReadByte(<<0>> \o rest) = Got(0, rest)
  BY <1>1, BinaryReadByte, Zenon
<1>10. Binary!ReadFieldBegin(<<0>> \o rest) = Got([type |-> 0, id |-> 0, bool |-> <<>>], rest)
  BY <1>1, <1>9, SMT DEF Binary!ReadFieldBegin, Binary!Then, Binary!With, Binary!Got, Got
<1> QED
  BY <1>1, <1>5, <1>8, <1>10, Zenon

LEMMA BinaryLeast ==
  ASSUME NEW t \in 0..255
  PROVE  Binary!MinSize(t) \in 1..16
BY SMT DEF Binary!MinSize, Binary!TType

LEMMA BinarySize ==
  ASSUME NEW m \in Nat, NEW n \in Nat, n * m <= MaxMessage, m > 0
  PROVE  /\ n \in Word
         /\ \A types : \A rest \in Bytes :
              Binary!ReadSize(types, m, BigEndian(n, 4) \o rest)
                    = Got([types |-> types, size |-> n], rest)
<1>1. n <= n * m /\ n * m \in Nat
  BY SMT
<1>2. MaxMessage \in Int /\ MaxMessage <= 2147483647
  BY LimitsAssumption, SMT DEF MaxInt32
<1>3. n \in Word
  BY <1>1, <1>2, SMT DEF Word
<1>4. Times32(n, m) = n * m
  BY <1>1, <1>2, ProductFits, SMT
<1>5. Binary!CheckSize(n * m)
  BY <1>1, SMT DEF Binary!CheckSize
<1>6. Binary!CheckSize(Binary!Times32(n, m))
  BY <1>4, <1>5, BinaryBytes, Zenon
<1>7. ASSUME NEW types, NEW rest \in Bytes
      PROVE  Binary!ReadSize(types, m, BigEndian(n, 4) \o rest)
               = Got([types |-> types, size |-> n], rest)
  <2>1. PICK s : s = BigEndian(n, 4) \o rest /\ Binary!ReadI32(s) = Got(n, rest)
    BY <1>3, BinaryReadI32, Zenon
  <2>2. Binary!ReadSize(types, m, s) = Got([types |-> types, size |-> n], rest)
    BY <1>6, <2>1, SMT DEF Binary!ReadSize, Binary!Then, Binary!With, Binary!Got, Got
  <2> QED
    BY <2>1, <2>2, Zenon
<1> QED
  BY <1>3, <1>7, Zenon

(* TBinaryProtocol's lists and sets: the element type and the size are     *)
(* read back wherever the least bytes of the elements are within the limit *)
(* (checkSizeForProtocol computes that product in 32 bits).                *)
THEOREM BinaryList ==
  ASSUME NEW elem \in 0..255, NEW n \in Nat, n * Binary!MinSize(elem) <= MaxMessage,
         NEW rest \in Bytes
  PROVE  Binary!ReadListBegin(Binary!WriteListBegin(elem, n) \o rest)
           = Got([types |-> <<elem>>, size |-> n], rest)
<1>1. PICK m \in Nat : m = Binary!MinSize(elem) /\ m > 0 /\ n * m <= MaxMessage
  BY BinaryLeast, SMT
<1>2. /\ n \in Word
      /\ \A types : \A s \in Bytes :
           Binary!ReadSize(types, m, BigEndian(n, 4) \o s) = Got([types |-> types, size |-> n], s)
  BY <1>1, BinarySize, Zenon
<1>3. PICK num \in Bytes : num = BigEndian(n, 4)
  BY <1>2, FourBytes, Zenon
<1>4. PICK b \in Bytes : b = <<elem>> /\ 1 = Len(b)
  BY SeqOne, Zenon
<1>5. PICK r \in Bytes : r = num \o rest
  BY TakeAll, Zenon
<1>6. Binary!WriteListBegin(elem, n) \o rest = b \o r
  <2>1. Regroup3(b, num, rest)
    BY Regroup, SMT
  <2> QED
    BY <1>3, <1>4, <1>5, <2>1, BinaryBytes, Zenon DEF Binary!WriteListBegin, Regroup3
<1>7. Binary!Take(1, b \o r) = Got(b, r)
  BY <1>4, TakeAll, BinaryBytes, Zenon
<1>8. Binary!ReadSize(b, m, r) = Got([types |-> b, size |-> n], rest)
  <2>1. Binary!ReadSize(b, m, num \o rest) = Got([types |-> b, size |-> n], rest)
    BY <1>2, <1>3, Zenon
  <2> QED
    BY <1>5, <2>1, Zenon
<1>9. b[1] = elem
  BY <1>4, SMT
<1>10. Binary!ReadListBegin(b \o r) = Got([types |-> b, size |-> n], rest)
  BY <1>1, <1>7, <1>8, <1>9, SMT DEF Binary!ReadListBegin, Binary!Then, Binary!With, Got
<1> QED
  BY <1>4, <1>6, <1>10, Zenon

(* The same of TBinaryProtocol's maps.                                     *)
THEOREM BinaryMap ==
  ASSUME NEW key \in 0..255, NEW value \in 0..255, NEW n \in Nat,
         n * (Binary!MinSize(key) + Binary!MinSize(value)) <= MaxMessage, NEW rest \in Bytes
  PROVE  Binary!ReadMapBegin(Binary!WriteMapBegin(key, value, n) \o rest)
           = Got([types |-> <<key, value>>, size |-> n], rest)
<1>1. PICK m \in Nat :
      /\ m = Binary!MinSize(key) + Binary!MinSize(value)
      /\ m > 0
      /\ n * m <= MaxMessage
  <2>1. PICK x \in 1..16 : x = Binary!MinSize(key)
    BY BinaryLeast, Zenon
  <2>2. PICK y \in 1..16 : y = Binary!MinSize(value)
    BY BinaryLeast, Zenon
  <2> QED
    BY <2>1, <2>2, SMT
<1>2. /\ n \in Word
      /\ \A types : \A s \in Bytes :
           Binary!ReadSize(types, m, BigEndian(n, 4) \o s) = Got([types |-> types, size |-> n], s)
  BY <1>1, BinarySize, Zenon
<1>3. PICK num \in Bytes : num = BigEndian(n, 4)
  BY <1>2, FourBytes, Zenon
<1>4. PICK b \in Bytes : b = <<key, value>> /\ 2 = Len(b)
  BY SeqTwo, Zenon
<1>5. PICK r \in Bytes : r = num \o rest
  BY TakeAll, Zenon
<1>6. Binary!WriteMapBegin(key, value, n) \o rest = b \o r
  <2>1. Regroup3(b, num, rest)
    BY Regroup, SMT
  <2> QED
    BY <1>3, <1>4, <1>5, <2>1, BinaryBytes, Zenon DEF Binary!WriteMapBegin, Regroup3
<1>7. Binary!Take(2, b \o r) = Got(b, r)
  BY <1>4, TakeAll, BinaryBytes, Zenon
<1>8. Binary!ReadSize(b, m, r) = Got([types |-> b, size |-> n], rest)
  <2>1. Binary!ReadSize(b, m, num \o rest) = Got([types |-> b, size |-> n], rest)
    BY <1>2, <1>3, Zenon
  <2> QED
    BY <1>5, <2>1, Zenon
<1>9. b[1] = key /\ b[2] = value
  BY <1>4, SMT
<1>10. Binary!ReadMapBegin(b \o r) = Got([types |-> b, size |-> n], rest)
  BY <1>1, <1>7, <1>8, <1>9, SMT DEF Binary!ReadMapBegin, Binary!Then, Binary!With, Got
<1> QED
  BY <1>4, <1>6, <1>10, Zenon

(* The 64-bit integers of the model, which fit in 32 bits with room to     *)
(* zigzag.                                                                 *)
HalfWord == {n \in Int : -1073741824 <= n /\ n <= 1073741823}

LEMMA HalfWords ==
  ASSUME NEW n \in HalfWord
  PROVE  n \in Word
BY SMT DEF HalfWord, Word

(* What a scalar of each type may be.                                      *)
Fits(type, v) ==
  \/ type = TType.BOOL /\ v \in BOOLEAN
  \/ type = TType.BYTE /\ v \in Int /\ -128 <= v /\ v <= 127
  \/ type = TType.I16 /\ v \in Short
  \/ type = TType.I32 /\ v \in Word
  \/ type = TType.I64 /\ v \in HalfWord
  \/ type = TType.STR /\ v \in Bytes /\ Len(v) <= MaxMessage
  \/ type = TType.DOUBLE /\ v \in Bytes /\ Len(v) = 8
  \/ type = TType.UUID /\ v \in Bytes /\ Len(v) = 16

(* TBinaryProtocol reads back every scalar it writes.                      *)
THEOREM BinaryScalar ==
  ASSUME NEW type, NEW v, Fits(type, v), NEW rest \in Bytes
  PROVE  Binary!ReadScalar(type, Binary!WriteScalar(type, v) \o rest) = Got(v, rest)
<1>1. CASE type = TType.BOOL /\ v \in BOOLEAN
  <2>1. PICK b \in 0..255 : b = (IF v THEN 1 ELSE 0)
    BY SMT
  <2>2. Binary!WriteScalar(type, v) = <<b>>
    BY <1>1, <2>1, SMT DEF Binary!WriteScalar, TType, Binary!TType
  <2>3. PICK s \in Bytes : s = <<b>> \o rest /\ Binary!ReadByte(s) = Got(b, rest)
    BY <2>1, SeqOne, TakeAll, BinaryReadByte, Zenon
  <2>4. Binary!ReadScalar(type, s) = Got(b = 1, rest)
    BY <1>1, <2>3, SMT
       DEF Binary!ReadScalar, TType, Binary!TType, Binary!Then, Binary!With, Binary!Got, Got
  <2>5. (b = 1) = v
    BY <1>1, <2>1, SMT
  <2> QED
    BY <2>2, <2>3, <2>4, <2>5, Zenon
<1>2. CASE type = TType.BYTE /\ v \in Int /\ -128 <= v /\ v <= 127
  <2>1. PICK b \in 0..255 : b = v % 256
    BY <1>2, SMT
  <2>2. BigEndian(v, 1) = <<b>> /\ Signed(b, 256) = v
    BY <1>2, <2>1, OneByte, SMT
  <2>3. Binary!WriteScalar(type, v) = <<b>>
    <3>1. Binary!WriteScalar(type, v) = Binary!BigEndian(v, 1)
      BY <1>2, SMT DEF Binary!WriteScalar, TType, Binary!TType
    <3> QED
      BY <2>2, <3>1, BinaryBytes, Zenon
  <2>4. Binary!ReadByte(<<b>> \o rest) = Got(b, rest)
    BY BinaryReadByte, Zenon
  <2>5. Binary!Signed(b, 256) = v
    BY <2>2, SMT DEF Signed, Binary!Signed
  <2>6. Binary!ReadScalar(type, <<b>> \o rest) = Got(v, rest)
    BY <1>2, <2>4, <2>5, SMT
       DEF Binary!ReadScalar, TType, Binary!TType, Binary!Then, Binary!With, Binary!Got, Got
  <2> QED
    BY <2>3, <2>6, Zenon
<1>3. CASE type = TType.I16 /\ v \in Short
  <2>1. /\ Binary!WriteScalar(type, v) = Binary!BigEndian(v, 2)
        /\ \A s : Binary!ReadScalar(type, s) = Binary!ReadI16(s)
    BY <1>3, SMT DEF Binary!WriteScalar, Binary!ReadScalar, TType, Binary!TType
  <2> QED
    BY <1>3, <2>1, BinaryReadI16, BinaryBytes, Zenon
<1>4. CASE type = TType.I32 /\ v \in Word
  <2>1. /\ Binary!WriteScalar(type, v) = Binary!BigEndian(v, 4)
        /\ \A s : Binary!ReadScalar(type, s) = Binary!ReadI32(s)
    BY <1>4, SMT DEF Binary!WriteScalar, Binary!ReadScalar, TType, Binary!TType
  <2> QED
    BY <1>4, <2>1, BinaryReadI32, BinaryBytes, Zenon
<1>5. CASE type = TType.I64 /\ v \in HalfWord
  <2>1. PICK h \in Word : h = (IF v < 0 THEN -1 ELSE 0)
    BY SMT DEF Word
  <2>2. PICK high \in Bytes : high = BigEndian(h, 4) /\ Len(high) = 4
    BY FourBytes, Zenon
  <2>3. PICK low \in Bytes : low = BigEndian(v, 4) /\ Len(low) = 4 /\ Int32(low) = v
    BY <1>5, HalfWords, FourBytes, Zenon
  <2>4. PICK b \in Bytes : b = high \o low /\ 8 = Len(b) /\ After(4, b) = low
    <3>1. After(4, high \o low) = low /\ high \o low \in Bytes /\ Len(high \o low) = 4 + Len(low)
      BY <2>2, TakeFour, TakeAll, Zenon
    <3>2. Len(low) = 4 /\ 4 + 4 = 8
      BY <2>3
    <3> QED
      BY <3>1, <3>2, Zenon
  <2>5. Binary!WriteScalar(type, v) = b
    <3>1. Binary!WriteScalar(type, v) = Binary!BigEndian(h, 4) \o Binary!BigEndian(v, 4)
      BY <1>5, <2>1, SMT DEF Binary!WriteScalar, TType, Binary!TType
    <3> QED
      BY <2>2, <2>3, <2>4, <3>1, BinaryBytes, Zenon
  <2>6. Binary!Take(8, b \o rest) = Got(b, rest)
    BY <2>4, TakeAll, BinaryBytes, Zenon
  <2>7. Binary!Int32(Binary!After(4, b)) = v
    BY <2>3, <2>4, BinaryBytes, Zenon
  <2>8. Binary!ReadScalar(type, b \o rest) = Got(v, rest)
    BY <1>5, <2>6, <2>7, SMT
       DEF Binary!ReadScalar, TType, Binary!TType, Binary!Then, Binary!With, Binary!Got, Got
  <2> QED
    BY <2>5, <2>8, Zenon
<1>6. CASE type = TType.STR /\ v \in Bytes /\ Len(v) <= MaxMessage
  <2>1. /\ Binary!WriteScalar(type, v) = Binary!WriteString(v)
        /\ \A s : Binary!ReadScalar(type, s) = Binary!ReadString(s)
    BY <1>6, SMT DEF Binary!WriteScalar, Binary!ReadScalar, TType, Binary!TType
  <2> QED
    BY <1>6, <2>1, BinaryReadString, Zenon
<1>7. CASE type = TType.DOUBLE /\ v \in Bytes /\ Len(v) = 8
  <2>1. Binary!WriteScalar(type, v) = v /\ \A s : Binary!ReadScalar(type, s) = Binary!Take(8, s)
    BY <1>7, SMT DEF Binary!WriteScalar, Binary!ReadScalar, TType, Binary!TType
  <2> QED
    BY <1>7, <2>1, TakeAll, BinaryBytes, Zenon
<1>8. CASE type = TType.UUID /\ v \in Bytes /\ Len(v) = 16
  <2>1. Binary!WriteScalar(type, v) = v /\ \A s : Binary!ReadScalar(type, s) = Binary!Take(16, s)
    BY <1>8, SMT DEF Binary!WriteScalar, Binary!ReadScalar, TType, Binary!TType
  <2> QED
    BY <1>8, <2>1, TakeAll, BinaryBytes, Zenon
<1> QED
  BY <1>1, <1>2, <1>3, <1>4, <1>5, <1>6, <1>7, <1>8, Zenon DEF Fits
-----------------------------------------------------------------------------
(* TCompactProtocol.                                                       *)
LEMMA CompactBytes ==
  /\ \A k, s : Compact!Take(k, s) = Take(k, s)
  /\ \A n, k : Compact!BigEndian(n, k) = BigEndian(n, k)
  /\ \A n, w : Compact!Signed(n, w) = Signed(n, w)
  /\ \A n, m : Compact!Times32(n, m) = Times32(n, m)
  /\ \A n : Compact!CheckSize(n) <=> CheckSize(n)
BY SMT DEF Take, BigEndian, Weights, Compact!Take, Compact!BigEndian, Compact!Weights,
  Got, Need, First, After, Compact!Got, Compact!Need, Compact!First, Compact!After,
  Signed, Compact!Signed, Times32, Compact!Times32, CheckSize, Compact!CheckSize

LEMMA CompactVarint ==
  /\ \A n : Compact!Varint(n) = Varint(n)
  /\ \A s : Compact!ReadVarint(s) = ReadVarint(s)
  /\ \A s : Compact!VarString(s) = VarString(s)
<1>1. \A n : Compact!VarintSize(n) = VarintSize(n)
  BY DEF VarintSize, Compact!VarintSize, VarWeights, Compact!VarWeights
<1>2. \A n : Compact!Varint(n) = Varint(n)
  <2>1. Compact!VarWeights = VarWeights
    BY SMT DEF VarWeights, Compact!VarWeights
  <2> QED
    BY <1>1, <2>1, Zenon DEF Varint, Compact!Varint
<1>3. \A s : Compact!Truncated(s) = Truncated(s)
  BY DEF Truncated, Compact!Truncated
<1>4. \A s : Compact!ReadVarint(s) = ReadVarint(s)
  BY <1>3, Zenon
     DEF ReadVarint, Compact!ReadVarint, Got, Need, First, After, Compact!Got, Compact!Need,
         Compact!First, Compact!After
<1> QED
  BY <1>2, <1>4, Zenon DEF VarString, Compact!VarString

LEMMA DoubleReversed ==
  ASSUME NEW s \in Bytes
  PROVE  /\ Compact!Reverse(s) \in Bytes /\ Len(Compact!Reverse(s)) = Len(s)
         /\ Compact!Reverse(Compact!Reverse(s)) = s
BY SMT DEF Compact!Reverse, Bytes

(* int32ToZigzag and zigzagToInt32 are inverses on all 32-bit words, in    *)
(* both orders: no word is without a code and no two share one.            *)
THEOREM ZigzagBack ==
  ASSUME NEW n \in Word
  PROVE  /\ Compact!Zigzag(n) \in Word /\ Compact!Unzigzag(Compact!Zigzag(n)) = n
         /\ Compact!Unzigzag(n) \in Word /\ Compact!Zigzag(Compact!Unzigzag(n)) = n
<1>1. n \in Int /\ -2147483648 <= n /\ n <= 2147483647
  BY SMT DEF Word
<1>2. Compact!Zigzag(n) \in Word /\ Compact!Unzigzag(Compact!Zigzag(n)) = n
  BY <1>1, SMT DEF Word, Compact!Zigzag, Compact!Unzigzag, Compact!Quarter
<1>3. Compact!Unzigzag(n) \in Word /\ Compact!Zigzag(Compact!Unzigzag(n)) = n
  BY <1>1, SMT DEF Word, Compact!Zigzag, Compact!Unzigzag, Compact!Quarter
<1> QED
  BY <1>2, <1>3, Zenon

LEMMA CompactReadI32 ==
  ASSUME NEW n \in Word, NEW rest \in Bytes
  PROVE  /\ Varint(Compact!Zigzag(n)) \in Bytes
         /\ Compact!ReadI32(Varint(Compact!Zigzag(n)) \o rest) = Got(n, rest)
<1>1. PICK z \in Word : z = Compact!Zigzag(n) /\ Compact!Unzigzag(z) = n
  BY ZigzagBack, Zenon
<1>2. PICK b \in Bytes : b = Varint(z)
  BY VarintForm, Zenon
<1>3. Compact!ReadVarint(b \o rest) = Got(z, rest)
  BY <1>2, VarintReadBack, CompactVarint, Zenon
<1>4. Compact!ReadI32(b \o rest) = Got(n, rest)
  BY <1>1, <1>3, SMT DEF Compact!ReadI32, Compact!Then, Compact!With, Compact!Got, Got
<1> QED
  BY <1>1, <1>2, <1>4, Zenon

LEMMA ShortWord ==
  ASSUME NEW n \in Short
  PROVE  n \in Word /\ n \in Int
BY SMT DEF Short, Word

LEMMA ShortSigned ==
  ASSUME NEW n \in Short
  PROVE  Signed(n, 65536) = n
<1>1. n \in Int /\ -32768 <= n /\ n <= 32767
  BY SMT DEF Short
<1> QED
  BY <1>1, TwoBytes, SMT

LEMMA CompactReadI16 ==
  ASSUME NEW n \in Short, NEW rest \in Bytes
  PROVE  /\ Varint(Compact!Zigzag(n)) \in Bytes
         /\ Compact!ReadI16(Varint(Compact!Zigzag(n)) \o rest) = Got(n, rest)
<1>1. n \in Word
  BY ShortWord, Zenon
<1>2. PICK b \in Bytes : b = Varint(Compact!Zigzag(n))
  BY <1>1, CompactReadI32, Zenon
<1>3. Compact!ReadI32(b \o rest) = Got(n, rest)
  BY <1>1, <1>2, CompactReadI32, Zenon
<1>4. Compact!Signed(n, 65536) = n
  BY ShortSigned, SMT DEF Signed, Compact!Signed
<1>5. Compact!ReadI16(b \o rest) = Got(n, rest)
  BY <1>3, <1>4, SMT DEF Compact!ReadI16, Compact!Then, Compact!With, Compact!Got, Got
<1> QED
  BY <1>2, <1>5, Zenon

LEMMA CompactReadString ==
  ASSUME NEW s \in Bytes, Len(s) <= MaxMessage, NEW rest \in Bytes
  PROVE  /\ VarString(s) \in Bytes
         /\ Compact!ReadVarString(VarString(s) \o rest) = Got(s, rest)
<1>1. PICK n \in Word : n = Len(s) /\ n \in Nat /\ n <= MaxMessage
  BY ShortForm, Zenon
<1>2. PICK h \in Bytes : h = Varint(n)
  BY VarintForm, Zenon
<1>3. Regroup3(h, s, rest)
  BY Regroup, SMT
<1>4. PICK b \in Bytes : b = h \o s
  BY TakeAll, Zenon
<1>5. PICK r \in Bytes : r = s \o rest /\ Take(n, r) = Got(s, rest)
  BY <1>1, TakeAll, Zenon
<1>6. Compact!ReadVarint(h \o r) = Got(n, r)
  BY <1>2, VarintReadBack, CompactVarint, Zenon
<1>7. Compact!Take(n, r) = Got(s, rest)
  BY <1>5, CompactBytes, Zenon
<1>8. Compact!CheckSize(n)
  BY <1>1, SMT DEF Compact!CheckSize
<1>9. Compact!ReadVarString(h \o r) = Got(s, rest)
  BY <1>6, <1>7, <1>8, SMT DEF Compact!ReadVarString, Compact!Then, Compact!With, Got
<1> QED
  BY <1>1, <1>2, <1>3, <1>4, <1>5, <1>9, Zenon DEF VarString, Regroup3

(* TCompactProtocol.WriteMessageBegin and ReadMessageBegin: the type in    *)
(* the three high bits of a byte, the sequence number as a varint.         *)
THEOREM CompactHead ==
  ASSUME NEW name \in Bytes, Len(name) <= MaxMessage, NEW type \in 0..7, NEW seq \in Word,
         NEW rest \in Bytes
  PROVE  Compact!ReadMessageBegin(Compact!WriteMessageBegin(name, type, seq) \o rest)
           = Got([name |-> name, type |-> type, seq |-> seq], rest)
<1> DEFINE head == [name |-> name, type |-> type, seq |-> seq]
<1>1. PICK c \in 0..255 : c = 1 + (32 * (type % 8)) /\ c % 32 = 1 /\ c \div 32 = type
  BY SMT
<1>2. PICK id \in Bytes : id = <<130>> /\ 1 = Len(id)
  <2>1. 130 \in 0..255
    BY SMT
  <2> QED
    BY <2>1, SeqOne, Zenon
<1>3. PICK b \in Bytes : b = <<c>> /\ 1 = Len(b)
  BY SeqOne, Zenon
<1>4. PICK num \in Bytes : num = Varint(seq)
  BY VarintForm, Zenon
<1>5. PICK str \in Bytes : str = VarString(name)
  BY CompactReadString, Zenon
<1>6. <<130, c>> = id \o b
  BY <1>2, <1>3, SMT
<1>7. Compact!WriteMessageBegin(name, type, seq) \o rest = id \o (b \o (num \o (str \o rest)))
  <2>1. Regroup5(id, b, num, str, rest)
    BY Regroup, SMT
  <2>2. Compact!WriteMessageBegin(name, type, seq) = (<<130, c>> \o num) \o str
    BY <1>1, <1>4, <1>5, CompactVarint, Zenon DEF Compact!WriteMessageBegin
  <2> QED
    BY <1>6, <2>1, <2>2, Zenon DEF Regroup5
<1>8. PICK p \in Bytes : p = str \o rest
  BY TakeAll, Zenon
<1>9. PICK q \in Bytes : q = num \o p
  BY TakeAll, Zenon
<1>10. PICK r \in Bytes : r = b \o q
  BY TakeAll, Zenon
<1>11. Compact!Take(1, id \o r) = Got(id, r)
  BY <1>2, TakeAll, CompactBytes, Zenon
<1>12. Compact!Take(1, r) = Got(b, q)
  BY <1>3, <1>10, TakeAll, CompactBytes, Zenon
<1>13. Compact!ReadVarint(q) = Got(seq, p)
  BY <1>4, <1>9, VarintReadBack, CompactVarint, Zenon
<1>14. Compact!ReadVarString(p) = Got(name, rest)
  BY <1>5, <1>8, CompactReadString, Zenon
<1>15. Compact!ReadSeqAndName(type, q) = Got(head, rest)
  BY <1>13, <1>14, SMT DEF Compact!ReadSeqAndName, Compact!Then, Compact!With, Compact!Got, Got
<1>16. id = <<130>> /\ b[1] % 32 = 1 /\ b[1] \div 32 = type
  BY <1>1, <1>2, <1>3, SMT
<1> HIDE DEF head
<1>17. Compact!ReadMessageBegin(id \o r) = Got(head, rest)
  BY <1>11, <1>12, <1>15, <1>16, SMT DEF Compact!ReadMessageBegin, Compact!Then, Compact!With, Got
<1> QED
  BY <1>7, <1>8, <1>9, <1>10, <1>17, Zenon DEF head

(* What a field or an element may be.                                      *)
Types ==
  {TType.BOOL, TType.BYTE, TType.DOUBLE, TType.I16, TType.I32, TType.I64, TType.STR,
   TType.STRUCT, TType.MAP, TType.SET, TType.LIST, TType.UUID}

LEMMA CompactTypes ==
  ASSUME NEW type \in Types
  PROVE  /\ Compact!CompactType(type) \in 1..13
         /\ Compact!getTType(Compact!CompactType(type)) = type
         /\ Compact!CompactType(type) <= 2 => type = TType.BOOL
         /\ type # TType.STOP /\ type \in Int
<1>1. \/ type = 2 \/ type = 3 \/ type = 4 \/ type = 6 \/ type = 8 \/ type = 10
      \/ type = 11 \/ type = 12 \/ type = 13 \/ type = 14 \/ type = 15 \/ type = 16
  BY SMT DEF Types, TType
<1> DEFINE Good(t) == /\ Compact!CompactType(t) \in 1..13
                      /\ Compact!getTType(Compact!CompactType(t)) = t
                      /\ Compact!CompactType(t) <= 2 => t = TType.BOOL
<1>2. Good(2) /\ Good(3) /\ Good(4) /\ Good(6)
  BY SMT DEF Compact!CompactType, Compact!getTType, Compact!TType, TType
<1>3. Good(8) /\ Good(10) /\ Good(11) /\ Good(12)
  BY SMT DEF Compact!CompactType, Compact!getTType, Compact!TType, TType
<1>4. Good(13) /\ Good(14) /\ Good(15) /\ Good(16)
  BY SMT DEF Compact!CompactType, Compact!getTType, Compact!TType, TType
<1>5. type # TType.STOP /\ type \in Int
  BY <1>1, SMT DEF TType
<1> HIDE DEF Good
<1>6. Good(type)
  BY <1>1, <1>2, <1>3, <1>4, SMT
<1> QED
  BY <1>5, <1>6 DEF Good

(* A byte made of two halves.                                              *)
LEMMA Nibbles ==
  ASSUME NEW a \in 0..15, NEW c \in 0..15
  PROVE  /\ (16 * a) + c \in 0..255
         /\ ((16 * a) + c) \div 16 = a /\ ((16 * a) + c) % 16 = c
BY SMT

LEMMA SizeFits ==
  ASSUME NEW m \in Nat, NEW n \in Nat, n * m <= MaxMessage, m > 0
  PROVE  n \in Word /\ Compact!CheckSize(Compact!Times32(n, m))
<1>1. n <= n * m /\ n * m \in Nat
  BY SMT
<1>2. MaxMessage \in Int /\ MaxMessage <= 2147483647
  BY LimitsAssumption, SMT DEF MaxInt32
<1>3. n \in Word
  BY <1>1, <1>2, SMT DEF Word
<1>4. Times32(n, m) = n * m
  BY <1>1, <1>2, ProductFits, SMT
<1>5. Compact!CheckSize(n * m)
  BY <1>1, SMT DEF Compact!CheckSize
<1>6. Compact!CheckSize(Compact!Times32(n, m))
  BY <1>4, <1>5, CompactBytes, Zenon
<1> QED
  BY <1>3, <1>6, Zenon

(* The code a field is written with, and what is read of it.               *)
LEMMA CompactCode ==
  ASSUME NEW type \in Types, NEW v, type = TType.BOOL => v \in BOOLEAN
  PROVE  LET code == IF type = TType.BOOL THEN (IF v THEN 1 ELSE 2) ELSE Compact!CompactType(type)
         IN  /\ code \in 1..13 /\ Compact!getTType(code) = type
             /\ (IF code <= 2 THEN <<code = 1>> ELSE <<>>) = (IF type = TType.BOOL THEN <<v>> ELSE <<>>)
<1>1. CASE type = TType.BOOL
  <2>1. /\ Compact!getTType(1) = TType.BOOL /\ Compact!getTType(2) = TType.BOOL
    BY SMT DEF Compact!getTType, Compact!TType, TType
  <2> QED
    BY <1>1, <2>1, SMT
<1>2. CASE type # TType.BOOL
  BY <1>2, CompactTypes, SMT
<1> QED
  BY <1>1, <1>2

(* TCompactProtocol's field headers.  An id close above the last one is    *)
(* written as the distance and read back from it, any other in full; a     *)
(* boolean's value is read back from its type.                             *)
THEOREM CompactField ==
  ASSUME NEW type \in Types, NEW id \in Short, NEW last \in Short,
         NEW v, type = TType.BOOL => v \in BOOLEAN, NEW rest \in Bytes
  PROVE  /\ Compact!ReadFieldBegin(last, Compact!WriteFieldBegin(type, id, last, v) \o rest)
              = Got([type |-> type, id |-> id,
                     bool |-> IF type = TType.BOOL THEN <<v>> ELSE <<>>], rest)
         /\ Compact!ReadFieldBegin(last, <<TType.STOP>> \o rest)
              = Got([type |-> TType.STOP, id |-> 0, bool |-> <<>>], rest)
<1>1. PICK code \in 1..13 :
        /\ code = IF type = TType.BOOL THEN (IF v THEN 1 ELSE 2) ELSE Compact!CompactType(type)
        /\ Compact!getTType(code) = type
        /\ (IF code <= 2 THEN <<code = 1>> ELSE <<>>) = (IF type = TType.BOOL THEN <<v>> ELSE <<>>)
  BY CompactCode, Zenon
<1>2. PICK bool : bool = IF type = TType.BOOL THEN <<v>> ELSE <<>>
  OBVIOUS
<1>3. id \in Int /\ last \in Int /\ TType.BOOL = Compact!TType.BOOL
  BY ShortWord, SMT DEF TType, Compact!TType
<1> DEFINE field == [type |-> type, id |-> id, bool |-> bool]
<1>4. code # 0 /\ Compact!FieldOf(code, id, rest) = Got(field, rest)
  <2>1. code \in Compact!KnownTypes /\ code # 0
    BY SMT DEF Compact!KnownTypes
  <2> QED
    BY <1>1, <1>2, <2>1, Zenon DEF Compact!FieldOf, Compact!Got, Got
<1> HIDE DEF field
<1>5. ASSUME id > last /\ id - last <= 15
      PROVE  Compact!ReadFieldBegin(last, Compact!WriteFieldBegin(type, id, last, v) \o rest)
               = Got(field, rest)
  <2>1. PICK delta \in 1..15 : delta = id - last /\ last + delta = id
    BY <1>3, <1>5, SMT
  <2>2. PICK c \in 0..255 : c = (16 * delta) + code /\ c \div 16 = delta /\ c % 16 = code
    BY Nibbles, SMT
  <2>3. PICK b \in Bytes : b = <<c>> /\ 1 = Len(b)
    BY SeqOne, Zenon
  <2>4. Compact!WriteFieldBegin(type, id, last, v) = b
    BY <1>1, <1>3, <1>5, <2>1, <2>2, <2>3, SMT DEF Compact!WriteFieldBegin
  <2>5. Compact!Take(1, b \o rest) = Got(b, rest)
    BY <2>3, TakeAll, CompactBytes, Zenon
  <2>6. Compact!Signed(last + delta, 65536) = id
    BY <2>1, ShortSigned, CompactBytes, SMT
  <2>7. b[1] % 16 = code /\ b[1] \div 16 = delta /\ delta # 0
    BY <2>2, <2>3, SMT
  <2>8. Compact!ReadFieldBegin(last, b \o rest) = Got(field, rest)
    BY <1>4, <2>5, <2>6, <2>7, SMT
       DEF Compact!ReadFieldBegin, Compact!Then, Compact!With, Compact!Got, Got
  <2> QED
    BY <2>4, <2>8, Zenon
<1>6. ASSUME ~(id > last /\ id - last <= 15)
      PROVE  Compact!ReadFieldBegin(last, Compact!WriteFieldBegin(type, id, last, v) \o rest)
               = Got(field, rest)
  <2>1. code \in 0..255 /\ code % 16 = code /\ code \div 16 = 0
    BY SMT
  <2>2. PICK b \in Bytes : b = <<code>> /\ 1 = Len(b)
    BY <2>1, SeqOne, Zenon
  <2>3. PICK num \in Bytes :
        /\ num = Varint(Compact!Zigzag(id))
        /\ Compact!ReadI16(num \o rest) = Got(id, rest)
    BY CompactReadI16, Zenon
  <2>4. Compact!WriteFieldBegin(type, id, last, v) = b \o num
    <3>1. Compact!WriteFieldBegin(type, id, last, v) = <<code>> \o Compact!Varint(Compact!Zigzag(id))
      BY <1>1, <1>3, <1>6, SMT DEF Compact!WriteFieldBegin
    <3> QED
      BY <2>2, <2>3, <3>1, CompactVarint, Zenon
  <2>5. PICK r \in Bytes : r = num \o rest
    BY TakeAll, Zenon
  <2>6. Compact!WriteFieldBegin(type, id, last, v) \o rest = b \o r
    <3>1. Regroup3(b, num, rest)
      BY Regroup, SMT
    <3> QED
      BY <2>4, <2>5, <3>1, Zenon DEF Regroup3
  <2>7. Compact!Take(1, b \o r) = Got(b, r)
    BY <2>2, TakeAll, CompactBytes, Zenon
  <2>8. b[1] % 16 = code /\ b[1] \div 16 = 0
    BY <2>1, <2>2, SMT
  <2>9. Compact!ReadI16(r) = Got(id, rest)
    BY <2>3, <2>5, Zenon
  <2>10. Compact!ReadFieldBegin(last, b \o r) = Got(field, rest)
    BY <1>4, <2>7, <2>8, <2>9, SMT
       DEF Compact!ReadFieldBegin, Compact!Then, Compact!With, Compact!Got, Got
  <2> QED
    BY <2>6, <2>10, Zenon
<1>7. Compact!ReadFieldBegin(last, <<TType.STOP>> \o rest)
      = Got([type |-> TType.STOP, id |-> 0, bool |-> <<>>], rest)
  <2>1. TType.STOP = 0 /\ Compact!TType.STOP = 0 /\ 0 \in 0..255
    BY SMT DEF TType, Compact!TType
  <2>2. PICK b \in Bytes : b = <<0>> /\ 1 = Len(b)
    BY <2>1, SeqOne, Zenon
  <2>3. Compact!Take(1, b \o rest) = Got(b, rest)
    BY <2>2, TakeAll, CompactBytes, Zenon
  <2>4. b[1] % 16 = 0
    BY <2>2, SMT
  <2>5. Compact!ReadFieldBegin(last, b \o rest) = Got([type |-> 0, id |-> 0, bool |-> <<>>], rest)
    BY <2>1, <2>3, <2>4, SMT
       DEF Compact!ReadFieldBegin, Compact!Then, Compact!With, Compact!Got, Got
  <2> QED
    BY <2>1, <2>2, <2>5, Zenon
<1> QED
  BY <1>2, <1>5, <1>6, <1>7, Zenon DEF field

LEMMA CompactLeast ==
  ASSUME NEW t
  PROVE  Compact!MinSize(t) \in 1..16
BY SMT DEF Compact!MinSize

LEMMA CompactNibble ==
  ASSUME NEW type \in Types, NEW a \in 0..15
  PROVE  \E c \in 0..255 : /\ c = (16 * a) + Compact!CompactType(type)
                           /\ c \div 16 = a /\ c % 16 \in Compact!KnownTypes
                           /\ Compact!TypeOrStop(c % 16) = type
<1>1. PICK code \in 1..13 : code = Compact!CompactType(type) /\ Compact!getTType(code) = type
  BY CompactTypes, Zenon
<1>2. PICK c \in 0..255 : c = (16 * a) + code /\ c \div 16 = a /\ c % 16 = code
  BY Nibbles, SMT
<1>3. code \in Compact!KnownTypes /\ code \in Compact!KnownTypes \ {0}
  BY SMT DEF Compact!KnownTypes
<1>4. Compact!TypeOrStop(code) = type
  BY <1>1, <1>3, Zenon DEF Compact!TypeOrStop
<1> QED
  BY <1>1, <1>2, <1>3, <1>4, Zenon

(* TCompactProtocol's lists and sets, short (the size in the type's byte)  *)
(* and long.                                                               *)
THEOREM CompactList ==
  ASSUME NEW elem \in Types, NEW n \in Nat, n * Compact!MinSize(elem) <= MaxMessage,
         NEW rest \in Bytes
  PROVE  Compact!ReadListBegin(Compact!WriteListBegin(elem, n) \o rest)
           = Got([types |-> <<elem>>, size |-> n], rest)
<1> DEFINE list == [types |-> <<elem>>, size |-> n]
<1>1. PICK m \in 1..16 : m = Compact!MinSize(elem)
  BY CompactLeast, Zenon
<1>2. n \in Word /\ Compact!CheckSize(Compact!Times32(n, m))
  BY <1>1, SizeFits, SMT
<1>3. ASSUME NEW k \in Compact!KnownTypes, Compact!TypeOrStop(k) = elem
      PROVE  Compact!ListOf(k, n, rest) = Got(list, rest)
  BY <1>1, <1>2, <1>3, Zenon DEF Compact!ListOf, Compact!Got, Got
<1> HIDE DEF list
<1>4. ASSUME n <= 14
      PROVE  Compact!ReadListBegin(Compact!WriteListBegin(elem, n) \o rest) = Got(list, rest)
  <2>1. n \in 0..15 /\ n # 15
    BY <1>4, SMT
  <2>2. PICK c \in 0..255 :
          /\ c = (16 * n) + Compact!CompactType(elem)
          /\ c \div 16 = n /\ c % 16 \in Compact!KnownTypes /\ Compact!TypeOrStop(c % 16) = elem
    BY <2>1, CompactNibble, Zenon
  <2>3. PICK b \in Bytes : b = <<c>> /\ 1 = Len(b)
    BY SeqOne, Zenon
  <2>4. Compact!WriteListBegin(elem, n) = b
    BY <1>4, <2>2, <2>3, Zenon DEF Compact!WriteListBegin
  <2>5. Compact!Take(1, b \o rest) = Got(b, rest)
    BY <2>3, TakeAll, CompactBytes, Zenon
  <2>6. b[1] \div 16 = n /\ Compact!ListOf(b[1] % 16, n, rest) = Got(list, rest)
    <3>1. b[1] = c
      BY <2>3, SMT
    <3> QED
      BY <1>3, <2>2, <3>1, Zenon
  <2>7. Compact!ReadListBegin(b \o rest) = Got(list, rest)
    BY <2>1, <2>5, <2>6, SMT
       DEF Compact!ReadListBegin, Compact!Then, Compact!With, Compact!Got, Got
  <2> QED
    BY <2>4, <2>7, Zenon
<1>5. ASSUME ~(n <= 14)
      PROVE  Compact!ReadListBegin(Compact!WriteListBegin(elem, n) \o rest) = Got(list, rest)
  <2>1. 15 \in 0..15 /\ 16 * 15 = 240
    BY SMT
  <2>2. PICK c \in 0..255 :
          /\ c = (16 * 15) + Compact!CompactType(elem)
          /\ c \div 16 = 15 /\ c % 16 \in Compact!KnownTypes /\ Compact!TypeOrStop(c % 16) = elem
    BY <2>1, CompactNibble, Zenon
  <2>3. PICK b \in Bytes : b = <<c>> /\ 1 = Len(b)
    BY SeqOne, Zenon
  <2>4. PICK num \in Bytes : num = Varint(n)
    BY <1>2, VarintForm, Zenon
  <2>5. PICK r \in Bytes : r = num \o rest
    BY TakeAll, Zenon
  <2>6. Compact!WriteListBegin(elem, n) \o rest = b \o r
    <3>1. Regroup3(b, num, rest)
      BY Regroup, SMT
    <3>2. c = 240 + Compact!CompactType(elem)
      BY <2>2, SMT
    <3>3. Compact!WriteListBegin(elem, n) = b \o num
      BY <1>5, <2>3, <2>4, <3>2, CompactVarint, SMT DEF Compact!WriteListBegin
    <3> QED
      BY <2>5, <3>1, <3>3, Zenon DEF Regroup3
  <2>7. Compact!Take(1, b \o r) = Got(b, r)
    BY <2>3, TakeAll, CompactBytes, Zenon
  <2>8. Compact!ReadVarint(r) = Got(n, rest)
    BY <1>2, <2>4, <2>5, VarintReadBack, CompactVarint, Zenon
  <2>9. b[1] \div 16 = 15 /\ Compact!ListOf(b[1] % 16, n, rest) = Got(list, rest)
    <3>1. b[1] = c
      BY <2>3, SMT
    <3> QED
      BY <1>3, <2>2, <3>1, Zenon
  <2>10. (IF b[1] \div 16 = 15 THEN Compact!ReadVarint(r) ELSE Compact!Got(b[1] \div 16, r))
        = Got(n, rest)
    BY <2>8, <2>9, SMT
  <2>11. Compact!ReadListBegin(b \o r) = Got(list, rest)
    BY <2>7, <2>9, <2>10, SMT
       DEF Compact!ReadListBegin, Compact!Then, Compact!With, Compact!Got, Got
  <2> QED
    BY <2>6, <2>11, Zenon
<1> QED
  BY <1>4, <1>5, Zenon DEF list

LEMMA VarintZero == Varint(0) = <<0>>
<1>1. 0 \in Word
  BY SMT DEF Word
<1>2. VarintSize(0) = 1
  BY SMT DEF VarintSize, VarWeights
<1>3. (0 \div VarWeights[1]) % (IF 1 = 5 THEN 16 ELSE 128) = 0
  BY SMT DEF VarWeights
<1>4. Varint(0)
      = [i \in 1..1 |-> ((0 \div VarWeights[i]) % (IF i = 5 THEN 16 ELSE 128)) + (IF i < 1 THEN 128 ELSE 0)]
  BY <1>2, Zenon DEF Varint
<1> QED
  BY <1>3, <1>4, SMT

(* TCompactProtocol's maps.  An empty one is a single byte, which loses    *)
(* its types.                                                              *)
THEOREM CompactMap ==
  ASSUME NEW key \in Types, NEW value \in Types, NEW n \in Nat,
         n * (Compact!MinSize(key) + Compact!MinSize(value)) <= MaxMessage, NEW rest \in Bytes
  PROVE  Compact!ReadMapBegin(Compact!WriteMapBegin(key, value, n) \o rest)
           = Got([types |-> IF n = 0 THEN <<TType.STOP, TType.STOP>> ELSE <<key, value>>,
                  size |-> n], rest)
<1>1. ASSUME n = 0
      PROVE  Compact!ReadMapBegin(Compact!WriteMapBegin(key, value, n) \o rest)
               = Got([types |-> <<TType.STOP, TType.STOP>>, size |-> n], rest)
  <2>1. PICK b \in Bytes : b = <<0>> /\ Compact!WriteMapBegin(key, value, n) = b
    <3>1. <<0>> \in Bytes
      BY SMT DEF Bytes, Byte
    <3> QED
      BY <1>1, <3>1, Zenon DEF Compact!WriteMapBegin
  <2>2. Compact!ReadVarint(b \o rest) = Got(n, rest)
    <3>1. 0 \in Word
      BY SMT DEF Word
    <3> QED
      BY <1>1, <2>1, <3>1, VarintZero, VarintReadBack, CompactVarint, Zenon
  <2>3. <<0>>[1] \div 16 = 0 /\ <<0>>[1] % 16 = 0
    BY SMT
  <2>4. Compact!TypeOrStop(0) = TType.STOP
    BY SMT DEF Compact!TypeOrStop, Compact!TType, TType
  <2>5. Compact!MinSize(TType.STOP) = 1
    BY SMT DEF Compact!MinSize, TType, Compact!TType
  <2>6. Compact!CheckSize(Compact!Times32(n, 1 + 1))
    <3>1. MaxMessage \in Nat
      BY LimitsAssumption
    <3>2. n * (1 + 1) <= MaxMessage /\ 1 + 1 \in Nat /\ 1 + 1 > 0
      BY <1>1, <3>1, SMT
    <3> QED
      BY <3>2, SizeFits, Zenon
  <2>7. Compact!MapOf(<<TType.STOP, TType.STOP>>, n, rest)
        = Got([types |-> <<TType.STOP, TType.STOP>>, size |-> n], rest)
    BY <2>5, <2>6, SMT DEF Compact!MapOf, Compact!Got, Got
  <2>8. Compact!ReadMapBegin(b \o rest)
        = Got([types |-> <<TType.STOP, TType.STOP>>, size |-> n], rest)
    BY <1>1, <2>2, <2>3, <2>4, <2>7, SMT
       DEF Compact!ReadMapBegin, Compact!Then, Compact!With, Compact!Got, Got
  <2> QED
    BY <2>1, <2>8, Zenon
<1>2. ASSUME n # 0
      PROVE  Compact!ReadMapBegin(Compact!WriteMapBegin(key, value, n) \o rest)
               = Got([types |-> <<key, value>>, size |-> n], rest)
  <2>1. PICK m \in Nat :
        /\ m = Compact!MinSize(key) + Compact!MinSize(value)
        /\ m > 0
        /\ n * m <= MaxMessage
    <3>1. PICK x \in 1..16 : x = Compact!MinSize(key)
      BY CompactLeast, Zenon
    <3>2. PICK y \in 1..16 : y = Compact!MinSize(value)
      BY CompactLeast, Zenon
    <3> QED
      BY <3>1, <3>2, SMT
  <2>2. n \in Word /\ Compact!CheckSize(Compact!Times32(n, m))
    BY <2>1, SizeFits, Zenon
  <2>3. PICK a \in 1..13 : a = Compact!CompactType(key) /\ Compact!TypeOrStop(a) = key
    <3>1. PICK a \in 1..13 : a = Compact!CompactType(key) /\ Compact!getTType(a) = key
      BY CompactTypes, Zenon
    <3>2. a \in Compact!KnownTypes \ {0}
      BY SMT DEF Compact!KnownTypes
    <3> QED
      BY <3>1, <3>2, Zenon DEF Compact!TypeOrStop
  <2>4. PICK e \in 1..13 : e = Compact!CompactType(value) /\ Compact!TypeOrStop(e) = value
    <3>1. PICK e \in 1..13 : e = Compact!CompactType(value) /\ Compact!getTType(e) = value
      BY CompactTypes, Zenon
    <3>2. e \in Compact!KnownTypes \ {0}
      BY SMT DEF Compact!KnownTypes
    <3> QED
      BY <3>1, <3>2, Zenon DEF Compact!TypeOrStop
  <2>5. PICK c \in 0..255 : c = (16 * a) + e /\ c \div 16 = a /\ c % 16 = e
    BY Nibbles, SMT
  <2>6. PICK b \in Bytes : b = <<c>> /\ 1 = Len(b)
    BY SeqOne, Zenon
  <2>7. PICK num \in Bytes : num = Varint(n)
    BY <2>2, VarintForm, Zenon
  <2>8. PICK r \in Bytes : r = b \o rest
    BY TakeAll, Zenon
  <2>9. Compact!WriteMapBegin(key, value, n) \o rest = num \o r
    <3>1. Regroup3(num, b, rest)
      BY Regroup, SMT
    <3>2. Compact!WriteMapBegin(key, value, n) = num \o b
      BY <1>2, <2>3, <2>4, <2>5, <2>6, <2>7, CompactVarint, Zenon DEF Compact!WriteMapBegin
    <3> QED
      BY <2>8, <3>1, <3>2, Zenon DEF Regroup3
  <2>10. Compact!ReadVarint(num \o r) = Got(n, r)
    BY <2>2, <2>7, VarintReadBack, CompactVarint, Zenon
  <2>11. Compact!Take(1, r) = Got(b, rest)
    BY <2>6, <2>8, TakeAll, CompactBytes, Zenon
  <2>12. b[1] \div 16 = a /\ b[1] % 16 = e
    BY <2>5, <2>6, SMT
  <2>13. Compact!MapOf(<<key, value>>, n, rest) = Got([types |-> <<key, value>>, size |-> n], rest)
    BY <2>1, <2>2, SMT DEF Compact!MapOf, Compact!Got, Got
  <2>14. Compact!ReadMapBegin(num \o r) = Got([types |-> <<key, value>>, size |-> n], rest)
    BY <1>2, <2>3, <2>4, <2>10, <2>11, <2>12, <2>13, SMT
       DEF Compact!ReadMapBegin, Compact!Then, Compact!With, Compact!Got, Got
  <2> QED
    BY <2>9, <2>14, Zenon
<1> QED
  BY <1>1, <1>2, Zenon

(* TCompactProtocol reads back every scalar it writes.                     *)
THEOREM CompactScalar ==
  ASSUME NEW type, NEW v, Fits(type, v), NEW rest \in Bytes
  PROVE  Compact!ReadScalar(type, <<>>, Compact!WriteScalar(type, v) \o rest) = Got(v, rest)
<1>1. CASE type = TType.BOOL /\ v \in BOOLEAN
  <2>1. PICK c \in 0..255 : c = (IF v THEN 1 ELSE 2)
    BY SMT
  <2>2. PICK b \in Bytes : b = <<c>> /\ 1 = Len(b)
    BY SeqOne, Zenon
  <2>3. Compact!WriteScalar(type, v) = b
    BY <1>1, <2>1, <2>2, SMT DEF Compact!WriteScalar, TType, Compact!TType
  <2>4. Compact!Take(1, b \o rest) = Got(b, rest)
    BY <2>2, TakeAll, CompactBytes, Zenon
  <2>5. (b[1] = 1) = v
    BY <1>1, <2>1, <2>2, SMT
  <2>6. Compact!ReadScalar(type, <<>>, b \o rest) = Got(b[1] = 1, rest)
    BY <1>1, <2>4, SMT
       DEF Compact!ReadScalar, TType, Compact!TType, Compact!Then, Compact!With, Compact!Got, Got
  <2> QED
    BY <2>3, <2>5, <2>6, Zenon
<1>2. CASE type = TType.BYTE /\ v \in Int /\ -128 <= v /\ v <= 127
  <2>1. PICK c \in 0..255 : c = v % 256 /\ BigEndian(v, 1) = <<c>> /\ Signed(c, 256) = v
    <3>1. v % 256 \in 0..255
      BY <1>2, SMT
    <3> QED
      BY <1>2, <3>1, OneByte, SMT
  <2>2. PICK b \in Bytes : b = <<c>> /\ 1 = Len(b)
    BY SeqOne, Zenon
  <2>3. Compact!WriteScalar(type, v) = b
    <3>1. Compact!WriteScalar(type, v) = Compact!BigEndian(v, 1)
      BY <1>2, SMT DEF Compact!WriteScalar, TType, Compact!TType
    <3>2. BigEndian(v, 1) = b
      BY <2>1, <2>2, SMT
    <3> QED
      BY <3>1, <3>2, CompactBytes, Zenon
  <2>4. Compact!Take(1, b \o rest) = Got(b, rest)
    BY <2>2, TakeAll, CompactBytes, Zenon
  <2>5. Compact!Signed(b[1], 256) = v
    <3>1. b[1] = c
      BY <2>2, SMT
    <3> QED
      BY <2>1, <3>1, SMT DEF Signed, Compact!Signed
  <2>6. Compact!ReadScalar(type, <<>>, b \o rest) = Got(v, rest)
    BY <1>2, <2>4, <2>5, SMT
       DEF Compact!ReadScalar, TType, Compact!TType, Compact!Then, Compact!With, Compact!Got, Got
  <2> QED
    BY <2>3, <2>6, Zenon
<1>3. CASE type = TType.I16 /\ v \in Short
  <2>1. /\ Compact!WriteScalar(type, v) = Compact!Varint(Compact!Zigzag(v))
        /\ \A s : Compact!ReadScalar(type, <<>>, s) = Compact!ReadI16(s)
    BY <1>3, SMT DEF Compact!WriteScalar, Compact!ReadScalar, TType, Compact!TType
  <2> QED
    BY <1>3, <2>1, CompactReadI16, CompactVarint, Zenon
<1>4. CASE type = TType.I32 /\ v \in Word
  <2>1. /\ Compact!WriteScalar(type, v) = Compact!Varint(Compact!Zigzag(v))
        /\ \A s : Compact!ReadScalar(type, <<>>, s) = Compact!ReadI32(s)
    BY <1>4, SMT DEF Compact!WriteScalar, Compact!ReadScalar, TType, Compact!TType
  <2> QED
    BY <1>4, <2>1, CompactReadI32, CompactVarint, Zenon
<1>8. CASE type = TType.I64 /\ v \in HalfWord
  <2>1. /\ Compact!WriteScalar(type, v) = Compact!Varint(Compact!Zigzag(v))
        /\ \A s : Compact!ReadScalar(type, <<>>, s) = Compact!ReadI32(s)
    BY <1>8, SMT DEF Compact!WriteScalar, Compact!ReadScalar, TType, Compact!TType
  <2> QED
    BY <1>8, <2>1, HalfWords, CompactReadI32, CompactVarint, Zenon
<1>5. CASE type = TType.STR /\ v \in Bytes /\ Len(v) <= MaxMessage
  <2>1. /\ Compact!WriteScalar(type, v) = Compact!VarString(v)
        /\ \A s : Compact!ReadScalar(type, <<>>, s) = Compact!ReadVarString(s)
    BY <1>5, SMT DEF Compact!WriteScalar, Compact!ReadScalar, TType, Compact!TType
  <2> QED
    BY <1>5, <2>1, CompactReadString, CompactVarint, Zenon
<1>6. CASE type = TType.DOUBLE /\ v \in Bytes /\ Len(v) = 8
  <2>1. PICK b \in Bytes : b = Compact!Reverse(v) /\ 8 = Len(b) /\ Compact!Reverse(b) = v
    BY <1>6, DoubleReversed, Zenon
  <2>2. Compact!WriteScalar(type, v) = b
    BY <1>6, <2>1, SMT DEF Compact!WriteScalar, TType, Compact!TType
  <2>3. Compact!Take(8, b \o rest) = Got(b, rest)
    BY <2>1, TakeAll, CompactBytes, Zenon
  <2>4. Compact!ReadScalar(type, <<>>, b \o rest) = Got(v, rest)
    BY <1>6, <2>1, <2>3, SMT
       DEF Compact!ReadScalar, TType, Compact!TType, Compact!Then, Compact!With, Compact!Got, Got
  <2> QED
    BY <2>2, <2>4, Zenon
<1>7. CASE type = TType.UUID /\ v \in Bytes /\ Len(v) = 16
  <2>1. /\ Compact!WriteScalar(type, v) = v
        /\ \A s : Compact!ReadScalar(type, <<>>, s) = Compact!Take(16, s)
    BY <1>7, SMT DEF Compact!WriteScalar, Compact!ReadScalar, TType, Compact!TType
  <2> QED
    BY <1>7, <2>1, TakeAll, CompactBytes, Zenon
<1> QED
  BY <1>1, <1>2, <1>3, <1>4, <1>5, <1>6, <1>7, <1>8, Zenon DEF Fits
-----------------------------------------------------------------------------
(* What a header transport tells apart.                                    *)
(* THeaderTransport.ReadFrame tells a client's protocol by its first two   *)
(* bytes: a strict binary message, a compact one and the size of a frame   *)
(* are each taken for what they are.                                       *)
THEOREM ProtocolsTold ==
  ASSUME NEW name \in Bytes, Len(name) <= MaxMessage, NEW type \in 0..127, NEW kind \in 0..7,
         NEW seq \in Word,
         NEW b \in Bytes, Len(b) <= MaxFrame, NEW rest \in Bytes
  PROVE  LET binary  == Binary!WriteMessageBegin(TRUE, name, type, seq) \o rest
             compact == Compact!WriteMessageBegin(name, kind, seq) \o rest
             frame   == Frame(b) \o rest
         IN  /\ IsVersion1(binary) /\ ~IsCompact(binary) /\ ~IsMagic(binary)
             /\ IsCompact(compact) /\ ~IsVersion1(compact) /\ ~IsMagic(compact)
             /\ ~IsVersion1(frame) /\ ~IsCompact(frame)
<1> DEFINE binary  == Binary!WriteMessageBegin(TRUE, name, type, seq) \o rest
           compact == Compact!WriteMessageBegin(name, kind, seq) \o rest
           frame   == Frame(b) \o rest
<1>1. binary[1] = 128 /\ binary[2] = 1
  <2>1. PICK v \in Bytes : v = <<128, 1, 0, type>> /\ Len(v) = 4
    <3>1. <<128, 1, 0, type>> \in Bytes /\ Len(<<128, 1, 0, type>>) = 4
      BY SMT DEF Bytes, Byte
    <3> QED
      BY <3>1, SMT
  <2>2. PICK str \in Bytes : str = Binary!WriteString(name)
    BY BinaryReadString, Zenon
  <2>3. PICK num \in Bytes : num = BigEndian(seq, 4)
    BY FourBytes, Zenon
  <2>4. PICK r \in Bytes : r = str \o (num \o rest)
    BY TakeAll, Zenon
  <2>5. binary = v \o r
    <3>1. Regroup4(v, str, num, rest)
      BY Regroup, SMT
    <3> QED
      BY <2>1, <2>2, <2>3, <2>4, <3>1, BinaryBytes, Zenon DEF Binary!WriteMessageBegin, Regroup4
  <2>6. (v \o r)[1] = v[1] /\ (v \o r)[2] = v[2]
    <3>1. Len(v) >= 2
      BY <2>1, SMT
    <3> QED
      BY <3>1, StartsAlike, SMT
  <2>7. v[1] = 128 /\ v[2] = 1
    BY <2>1, SMT
  <2> QED
    BY <2>5, <2>6, <2>7, Zenon
<1>2. compact[1] = 130 /\ compact[2] % 32 = 1
  <2>1. PICK c \in 0..255 : c = 1 + (32 * (kind % 8)) /\ c % 32 = 1
    BY SMT
  <2>2. PICK v \in Bytes : v = <<130, c>> /\ Len(v) = 2
    <3>1. <<130, c>> \in Bytes /\ Len(<<130, c>>) = 2
      BY SMT DEF Bytes, Byte
    <3> QED
      BY <3>1, SMT
  <2>3. PICK num \in Bytes : num = Varint(seq)
    BY VarintForm, Zenon
  <2>4. PICK str \in Bytes : str = VarString(name)
    BY CompactReadString, Zenon
  <2>5. PICK r \in Bytes : r = num \o (str \o rest)
    BY TakeAll, Zenon
  <2>6. compact = v \o r
    <3>1. Regroup4(v, num, str, rest)
      BY Regroup, SMT
    <3> QED
      BY <2>1, <2>2, <2>3, <2>4, <2>5, <3>1, CompactVarint, Zenon
         DEF Compact!WriteMessageBegin, Regroup4
  <2>8. (v \o r)[1] = v[1] /\ (v \o r)[2] = v[2]
    <3>1. Len(v) >= 2
      BY <2>2, SMT
    <3> QED
      BY <3>1, StartsAlike, SMT
  <2>7. v[1] = 130 /\ v[2] % 32 = 1
    BY <2>1, <2>2, SMT
  <2> QED
    BY <2>6, <2>8, <2>7, Zenon
<1>3. frame[1] < 128 /\ frame[1] \in 0..255
  <2>1. Len(b) \in Word /\ Len(b) \in Nat
    BY ShortForm
  <2>2. PICK h \in Bytes : h = BigEndian(Len(b), 4) /\ Len(h) = 4 /\ (Len(b) >= 0 => h[1] < 128)
    BY <2>1, FourBytes, Zenon
  <2>3. PICK r \in Bytes : r = b \o rest
    BY TakeAll, Zenon
  <2>4. frame = h \o r
    <3>1. Regroup3(h, b, rest)
      BY Regroup, SMT
    <3> QED
      BY <2>2, <2>3, <3>1, Zenon DEF Frame, Regroup3
  <2>5. (h \o r)[1] = h[1]
    BY <2>2, StartsAlike, SMT
  <2>6. h[1] \in 0..255 /\ h[1] < 128
    <3>1. 1 \in 1..Len(h) /\ Len(b) >= 0
      BY <2>1, <2>2, SMT
    <3> QED
      BY <2>2, <3>1, BytesForm, Zenon
  <2> QED
    BY <2>4, <2>5, <2>6, Zenon
<1> HIDE DEF binary, compact, frame
<1>4. IsVersion1(binary) /\ ~IsCompact(binary) /\ ~IsMagic(binary)
  BY <1>1, SMT DEF IsVersion1, IsCompact, IsMagic
<1>5. IsCompact(compact) /\ ~IsVersion1(compact) /\ ~IsMagic(compact)
  BY <1>2, SMT DEF IsVersion1, IsCompact, IsMagic
<1>6. ~IsVersion1(frame) /\ ~IsCompact(frame)
  BY <1>3, SMT DEF IsVersion1, IsCompact
<1> QED
  BY <1>4, <1>5, <1>6, Zenon DEF binary, compact, frame
=============================================================================
