-------------------------- MODULE ThriftTransport --------------------------
(***************************************************************************)
(* The transports a Thrift connection is read from and written to: a raw   *)
(* socket, TFramedTransport (framed_transport.go) and THeaderTransport     *)
(* (header_transport.go), with the varints of TCompactProtocol, in which   *)
(* the header of a frame is written.                                       *)
(*                                                                         *)
(* A transport is a record.  Its bytes are those of the connection: raw    *)
(* has what arrived and was not taken by the transport yet, cur what is    *)
(* left of the current frame.                                              *)
(***************************************************************************)
EXTENDS ThriftBytes
LOCAL INSTANCE SequencesExt

(* Dialects a connection is configured with, and protocol ids of a header. *)
BinaryID  == 0
CompactID == 2
Zlib      == 1

Transport(kind, dialect, proto, transforms, stale) ==
    [kind |-> kind, dialect |-> dialect, transforms |-> transforms, stale |-> stale,
     raw |-> <<>>, cur |-> <<>>, open |-> FALSE, part |-> <<>>,
     ctype |-> "unknown", proto |-> proto, writeTransforms |-> transforms,
     readHeaders |-> <<>>, writeHeaders |-> <<>>, seq |-> 0,
     wbuf |-> <<>>, out |-> <<>>]
-----------------------------------------------------------------------------
(* zlib, as the marker its streams begin with.                             *)
Deflate(bytes) == <<120, 156>> \o bytes
Inflate(t) ==
    LET u == [t EXCEPT !.cur = After(Least(2, Len(t.cur)), t.cur)]
    IN  IF Len(t.cur) >= 2 /\ First(2, t.cur) = <<120, 156>> THEN Got(0, u) ELSE Bad(u)

(* THeaderTransport.parseHeaders.  h is what is left of the header block;  *)
(* an error leaves the payload in the frame.                               *)
RECURSIVE TransformIDs(_, _, _)
TransformIDs(n, h, t) ==
    IF n <= 0 THEN Got([ids |-> <<>>, left |-> h], t)
    ELSE LET id == ReadVarint(h)
             dedupe == IF id.val = Zlib /\ ~Contains(t.writeTransforms, Zlib)
                       THEN <<Zlib>> ELSE <<>>
         IN  IF id.tag # "got" THEN Bad(t)
             ELSE Then(TransformIDs(n - 1, id.at, [t EXCEPT !.writeTransforms = @ \o dedupe]),
                       LAMBDA v, u : Got([v EXCEPT !.ids = <<id.val>> \o @], u))

RECURSIVE Undo(_, _)
Undo(ids, t) ==
    IF ids = <<>> THEN Got(0, t)
    ELSE Then(CASE Last(ids) = 0 -> Got(0, t)
                [] Last(ids) = Zlib -> Inflate(t)
                [] OTHER -> Bad(t),
              LAMBDA v, u : Undo(Front(ids), u))

RECURSIVE KeyValues(_, _)
KeyValues(n, h) ==
    IF n <= 0 THEN Got(<<>>, h)
    ELSE Then(ReadVarString(h), LAMBDA k, a :
         Then(ReadVarString(a), LAMBDA v, b :
         Then(KeyValues(n - 1, b), LAMBDA more, c : Got(<<<<k, v>>>> \o more, c))))

RECURSIVE Infos(_)
Infos(h) ==
    LET type == ReadVarint(h)
    IN  IF type.tag # "got" \/ type.val # 1 THEN Got(<<>>, h)
        ELSE Then(ReadVarint(type.at), LAMBDA n, a :
             Then(KeyValues(n, a), LAMBDA kv, b :
             Then(Infos(b), LAMBDA more, c : Got(kv \o more, c))))

HeaderBlock(h, t) ==
    LET proto == ReadVarint(h)
        count == ReadVarint(proto.at)
        u     == [t EXCEPT !.proto = proto.val, !.writeTransforms = t.transforms]
    IN  IF proto.tag # "got" THEN Bad(t)
        ELSE IF count.tag # "got" THEN Bad(u)
        ELSE Then(TransformIDs(count.val, count.at, u), LAMBDA v, w :
             Then(Undo(v.ids, w), LAMBDA none, x :
                LET infos == Infos(v.left)
                IN  IF infos.tag = "got" THEN Got(0, [x EXCEPT !.readHeaders = infos.val])
                    ELSE Bad(x)))

ParseHeaders(size, t) ==
    LET length == 4 * (t.cur[9] * 256 + t.cur[10])
        rest   == After(10, t.cur)
        u      == [t EXCEPT !.cur = rest, !.seq = Int32(SubSeq(t.cur, 5, 8))]
    IN  IF Len(t.cur) < 10 THEN Bad([t EXCEPT !.cur = <<>>])
        ELSE IF size >= 10 /\ size - 10 < length THEN Bad(u)
        ELSE IF Len(rest) < length THEN Bad([u EXCEPT !.cur = <<>>])
        ELSE HeaderBlock(First(length, rest), [u EXCEPT !.cur = After(length, rest)])

(* What a complete frame is: a message with a header, or a bare one.  The  *)
(* detection looks at four bytes even when the frame has fewer, and sees   *)
(* stale bytes of the recycled buffer then.                                *)
Detect(size, t) ==
    LET start == t.cur \o t.stale
    IN  IF IsMagic(start) THEN ParseHeaders(size, [t EXCEPT !.ctype = "headers"])
        ELSE IF IsVersion1(start) THEN Got(0, [t EXCEPT !.ctype = "framed binary"])
        ELSE IF IsCompact(start) THEN Got(0, [t EXCEPT !.ctype = "framed compact"])
        ELSE Bad([t EXCEPT !.cur = <<>>, !.open = FALSE])

THeaderMaxFrameSize == 1073741823

FramedTypes == {"headers", "framed binary", "framed compact"}
NeedReadFrame(t) == t.ctype = "unknown" \/ (t.ctype \in FramedTypes /\ ~t.open)

(* THeaderTransport.ReadFrame.  The four bytes are peeked at, a body that  *)
(* does not arrive in time stays behind in frameBuffer without its size.   *)
ReadFrame(t) ==
    LET size == Int32(First(4, t.raw))
        body == After(4, t.raw)
    IN  IF ~NeedReadFrame(t) THEN Got(0, t)
        ELSE IF Len(t.raw) < 4 THEN Need(t)
        ELSE IF IsVersion1(t.raw) THEN Got(0, [t EXCEPT !.ctype = "unframed binary"])
        ELSE IF IsCompact(t.raw) THEN Got(0, [t EXCEPT !.ctype = "unframed compact"])
        ELSE IF size < 0 \/ size > THeaderMaxFrameSize \/ size > MaxFrame THEN Bad(t)
        ELSE IF Len(body) < size THEN Need([t EXCEPT !.raw = <<>>, !.part = @ \o body])
        ELSE Detect(size, [t EXCEPT !.raw = After(size, body), !.part = <<>>, !.open = TRUE,
                                    !.cur = t.part \o First(size, body)])

ReadRaw(k, t) ==
    LET n == Least(k, Len(t.raw))
    IN  [tag |-> IF n = k THEN "got" ELSE "need", val |-> First(n, t.raw),
         at |-> [t EXCEPT !.raw = After(n, @)]]

(* Read(k, t) reads k bytes, across frames where needed; when there are    *)
(* not as many, the result has those there were.  The read that empties a  *)
(* frame ends it.                                                          *)
RECURSIVE Read(_, _)
ReadOfFrame(k, t) ==
    LET n == Least(k, Len(t.cur))
        u == [t EXCEPT !.cur = After(n, @), !.open = n < Len(t.cur)]
    IN  IF n = k THEN Got(First(k, t.cur), u)
        ELSE With(Read(k - n, u), LAMBDA r : [r EXCEPT !.val = t.cur \o @])

Read(k, t) ==
    CASE k = 0 -> Got(<<>>, t)
      [] k > 0 /\ t.kind = "raw" -> ReadRaw(k, t)
      [] k > 0 /\ t.kind = "framed" ->
            Then(IF t.cur = <<>> THEN ReadPlainFrame(t) ELSE Got(0, t),
                 LAMBDA v, r : ReadOfFrame(k, r))
      [] k > 0 /\ t.kind = "header" ->
            Then(ReadFrame(t), LAMBDA v, r : IF r.open THEN ReadOfFrame(k, r) ELSE ReadRaw(k, r))

(* The decoder D, which takes a sequence of bytes, on what can be read.    *)
Decoded(t, D(_)) ==
    With(Read(Len(t.raw) + Len(t.part) + Len(t.cur) + 1, t), LAMBDA all :
    With(D(all.val), LAMBDA r :
        IF r.tag = "need" THEN all
        ELSE [r EXCEPT !.at = Read(Len(all.val) - Len(@), t).at]))
-----------------------------------------------------------------------------
(* Writing.  A raw socket sends at once, the others when they are flushed. *)
Write(t, bytes) ==
    IF t.kind = "raw" THEN [t EXCEPT !.out = @ \o bytes] ELSE [t EXCEPT !.wbuf = @ \o bytes]

HeaderFields(t) ==
    Varint(t.proto) \o Varint(Len(t.writeTransforms)) \o t.writeTransforms
      \o (IF t.writeHeaders = <<>> THEN <<>>
          ELSE <<1>> \o Varint(Len(t.writeHeaders))
                 \o FlattenSeq([i \in DOMAIN t.writeHeaders |->
                        VarString(t.writeHeaders[i][1]) \o VarString(t.writeHeaders[i][2])]))

Padded(s) == s \o [i \in 1..((4 - (Len(s) % 4)) % 4) |-> 0]

(* TransformWriter.AddTransform, for one transform after the other.        *)
Transformed(transforms, bytes) ==
    FoldLeft(LAMBDA b, id : IF id = Zlib THEN Deflate(b) ELSE b, bytes, transforms)

WithHeader(t) ==
    LET block == Padded(HeaderFields(t))
    IN  <<15, 255, 0, 0>> \o BigEndian(t.seq, 4) \o BigEndian(Len(block) \div 4, 2) \o block
          \o Transformed(t.writeTransforms, t.wbuf)

Flush_AsBuilt(t) ==
    LET bytes == CASE t.kind = "framed" -> Frame(t.wbuf)
                   [] t.kind = "header" -> Frame(WithHeader(t))
                   [] OTHER -> t.wbuf
    IN  IF t.wbuf = <<>> THEN t ELSE [t EXCEPT !.wbuf = <<>>, !.out = @ \o bytes]

(* THeaderTransport.Flush answers in the form that ReadFrame detected.     *)
Flush(t) ==
    LET ctype == IF t.kind = "header" /\ t.ctype = "unknown" THEN "headers" ELSE t.ctype
        bytes == CASE t.kind = "framed" \/ ctype \in FramedTypes \ {"headers"} -> Frame(t.wbuf)
                   [] ctype = "headers" -> Frame(WithHeader(t))
                   [] OTHER -> t.wbuf
    IN  IF t.wbuf = <<>> THEN t
        ELSE [t EXCEPT !.ctype = ctype, !.wbuf = <<>>, !.out = @ \o bytes]

(* THeaderTransport.Protocol and THeaderProtocolID.GetProtocol: the codec  *)
(* of the next message.                                                    *)
Dialect(t) ==
    CASE t.kind # "header" -> t.dialect
      [] t.ctype \in {"framed binary", "unframed binary"} -> "binary"
      [] t.ctype \in {"framed compact", "unframed compact"} -> "compact"
      [] t.ctype \in {"unknown", "headers"} /\ t.proto = BinaryID -> "binary"
      [] t.ctype \in {"unknown", "headers"} /\ t.proto = CompactID -> "compact"
      [] OTHER -> "none"
=============================================================================
