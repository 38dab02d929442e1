----------------------------- MODULE ThriftRPC -----------------------------
(***************************************************************************)
(* Calls over one connection: TStandardClient (client.go) at one end, the  *)
(* loop of processRequests (simple_server.go) with a multiplexed or plain  *)
(* processor at the other, and between them every byte of the dialect the  *)
(* client was built with.  The generated code and the handler are external:*)
(* a service that returns its argument, "e", and a oneway method, "o".     *)
(*                                                                         *)
(* A client that gives up on an answer, or whose arguments fail to write,  *)
(* may go on with the next call on the same connection.                    *)
(***************************************************************************)
EXTENDS ThriftWire
LOCAL INSTANCE SequencesExt

CONSTANTS
    Stacks,    \* how client and server are built
    Clients,   \* what a client does: newer, whether each end sends a field that
               \* the other does not know; args, the arguments of its first
               \* call; kinds, the kinds of calls; headers, whether it passes
               \* some; and how many calls, timeouts and failed sends at most
    Extra      \* the value of the unknown field

VARIABLES
    stack,    \* how the ends are built
    user,     \* what the client does
    client,   \* the transport of the client
    seqId,    \* TStandardClient.seqId
    calls,    \* the calls made, with their outcomes
    pending,  \* the last one waits for its answer
    server,   \* the transport of the server
    serving,  \* the server has not closed the connection
    handled,  \* what the handlers were given
    timeouts  \* answers that were given up

vars == <<stack, user, client, seqId, calls, pending, server, serving, handled, timeouts>>

(* Methods, with the services they are addressed to when multiplexed.      *)
Echo    == <<101>>
Oneway  == <<111>>
Unknown == <<117>>
Service == <<115>>
Nowhere == <<110>>
Separator == 58

WireName(c) == IF stack.multiplexed THEN c.service \o <<Separator>> \o c.method ELSE c.method

IsReply(o) == o[1] = "reply"
Waiting == <<"waiting">>
Count(o) == Cardinality({i \in DOMAIN calls : calls[i].outcome = o})

TypeOK ==
    /\ stack \in Stacks /\ user \in Clients
    /\ seqId = Len(calls) /\ seqId <= user.calls
    /\ pending = (calls # <<>> /\ calls[Len(calls)].outcome = Waiting)
    /\ \A t \in {client, server} :
          /\ t.open => t.ctype \in FramedTypes \/ t.kind = "framed"
          /\ t.kind # "header" => t.part = <<>> /\ t.ctype = "unknown"
          /\ t.out = <<>>
    /\ serving \in BOOLEAN /\ timeouts \in 0..user.timeouts
    /\ Len(handled) <= Len(calls)

Init ==
    /\ stack \in Stacks /\ user \in Clients
    /\ client = stack.client /\ server = stack.server
    /\ seqId = 0 /\ calls = <<>> /\ pending = FALSE
    /\ serving = TRUE /\ handled = <<>> /\ timeouts = 0
-----------------------------------------------------------------------------
(* Outcomes: <<"reply", value>>, <<"exception", type>>, and errors of one  *)
(* word.                                                                   *)
Fields(v) == <<<<1, v>>>> \o (IF user.newer THEN <<<<20, Extra>>>> ELSE <<>>)

FieldOf(fields, id) ==
    LET of == {i \in DOMAIN fields : fields[i][1] = id}
    IN  IF of = {} THEN <<>> ELSE fields[CHOOSE i \in of : \A j \in of : j <= i][2]

(* TStandardClient.Send, up to the arguments: the headers of the call and  *)
(* the beginning of the message.                                           *)
Headers(c) == IF c.header = <<>> THEN <<>> ELSE <<<<<<107>>, c.header>>>>
Prepared_Adding(c) ==
    IF client.kind = "header" THEN [client EXCEPT !.writeHeaders = Headers(c) \o @] ELSE client
Prepared(c) == IF client.kind = "header" THEN [client EXCEPT !.writeHeaders = Headers(c)] ELSE client

Sends_FailedUncounted(t, outcome, c) ==
    /\ client' = [t EXCEPT !.out = <<>>]
    /\ server' = IF serving THEN [server EXCEPT !.raw = @ \o t.out] ELSE server
    /\ seqId' = IF outcome = <<"invalid">> THEN seqId ELSE seqId + 1
    /\ calls' = Append(calls, [c EXCEPT !.outcome = outcome])
    /\ pending' = (outcome = Waiting)
    /\ UNCHANGED <<stack, user, serving, handled, timeouts>>

Sends(t, outcome, c) ==
    /\ client' = [t EXCEPT !.out = <<>>]
    /\ server' = IF serving THEN [server EXCEPT !.raw = @ \o t.out] ELSE server
    /\ seqId' = seqId + 1
    /\ calls' = Append(calls, [c EXCEPT !.outcome = outcome])
    /\ pending' = (outcome = Waiting)
    /\ UNCHANGED <<stack, user, serving, handled, timeouts>>

(* TStandardClient.Call: a oneway call is sent as a CALL and returns.      *)
Call(c) ==
    LET t == Prepared(c)
        d == Dialect(t)
        oneway == c.oneway
    IN  /\ ~pending /\ seqId < user.calls
        /\ IF d = "none" THEN Sends(t, <<"unsent">>, c)
           ELSE Sends(Flush(WriteMessage(t, WireName(c), CALL, seqId + 1,
                                         WriteStruct(d, Fields(c.arg)))),
                      IF oneway THEN <<"sent">> ELSE Waiting, c)

(* args.Write fails at its first field: what was written before stays in   *)
(* the buffer, or is on its way already.                                   *)
CallInvalid(c) ==
    LET t == Prepared(c)
        d == Dialect(t)
    IN  /\ ~pending /\ seqId < user.calls /\ Count(<<"invalid">>) < user.failures /\ d # "none"
        /\ Sends(WriteMessage(t, WireName(c), CALL, seqId + 1,
                              WriteFieldBegin(d, TType.STRUCT, 1, 0, <<>>)), <<"invalid">>, c)

Received_AnySequence(d, m, c, s) ==
    IF m.name # c.method THEN Got(<<"wrong method">>, s)
    ELSE Then(ReadStruct(d, s), LAMBDA fields, r :
            Got(IF m.type = EXCEPTION THEN <<"exception", ExceptionType(fields)>>
                ELSE <<"reply", FieldOf(fields, 0)>>, r))

(* TStandardClient.Recv, with the generated reading of a result.  An error *)
(* leaves the rest of the message unread.                                  *)
Received(d, m, c, s) ==
    IF m.name # c.method THEN Got(<<"wrong method">>, s)
    ELSE IF m.seq # seqId THEN Got(<<"bad sequence id">>, s)
    ELSE IF m.type \notin {EXCEPTION, REPLY} THEN Got(<<"bad type">>, s)
    ELSE Then(ReadStruct(d, s), LAMBDA fields, r :
            Got(IF m.type = EXCEPTION THEN <<"exception", ExceptionType(fields)>>
                ELSE <<"reply", FieldOf(fields, 0)>>, r))

Recv(t) == Message(t, LAMBDA d, m, s : Received(d, m, calls[Len(calls)], s))

Returns(outcome, t) ==
    /\ client' = [t EXCEPT !.out = <<>>]
    /\ server' = IF serving THEN [server EXCEPT !.raw = @ \o t.out] ELSE server
    /\ calls' = [calls EXCEPT ![Len(calls)].outcome = outcome]
    /\ pending' = FALSE
    /\ UNCHANGED <<stack, user, seqId, serving, handled>>

Return ==
    /\ pending
    /\ \E r \in {Recv(client)} :
           \/ r.tag = "got" /\ Returns(r.val, r.at)
           \/ r.tag = "bad" /\ Returns(<<"unreadable">>, r.at)
           \/ r.tag = "need" /\ ~serving /\ Returns(<<"closed">>, r.at)
    /\ UNCHANGED timeouts

(* The time is up when n bytes have arrived that are not enough.           *)
Timeout(n) ==
    /\ pending /\ timeouts < user.timeouts
    /\ \E r \in {Recv([client EXCEPT !.raw = First(n, @)])} :
           /\ r.tag = "need"
           /\ Returns(<<"timeout">>, [r.at EXCEPT !.raw = @ \o After(n, client.raw)])
    /\ timeouts' = timeouts + 1
-----------------------------------------------------------------------------
(* The server.  A step is one turn of the loop in processRequests: it      *)
(* happens when all the bytes are there that it reads.                     *)
UnknownMethod == 1
ProtocolError == 7

(* What a request comes to: what the handler is given, how it is answered, *)
(* and whether the connection is closed then.                              *)
NoAnswer == [type |-> 0, fields |-> <<>>]
Exception(type) == [type |-> EXCEPTION, fields |-> ExceptionFields(type)]
Done(m, given, answer, close) ==
    [name |-> m.name, seq |-> m.seq, given |-> given, answer |-> answer, close |-> close]

(* Generated code: read the arguments, call the handler, write the result. *)
Process(d, m, s) ==
    With(IF m.name \in {Echo, Oneway} THEN ReadStruct(d, s) ELSE SkipStruct(d, s), LAMBDA args :
        LET arg    == FieldOf(args.val, 1)
            result == IF arg = <<>> THEN <<>>
                      ELSE <<<<0, arg>>>> \o (IF user.newer THEN <<<<20, Extra>>>> ELSE <<>>)
            given  == <<[method |-> m.name, arg |-> arg]>>
        IN  IF args.tag = "need" THEN args
            ELSE Got(IF m.name \notin {Echo, Oneway} THEN Done(m, <<>>, Exception(UnknownMethod), FALSE)
                     ELSE IF args.tag = "bad" THEN Done(m, <<>>, Exception(ProtocolError), TRUE)
                     ELSE IF m.name = Oneway THEN Done(m, given, NoAnswer, FALSE)
                     ELSE Done(m, given, [type |-> REPLY, fields |-> result], FALSE), args.at))

(* TMultiplexedProcessor.Process, without a default processor.             *)
Dispatch(d, m, s) ==
    LET at == {i \in DOMAIN m.name : m.name[i] = Separator}
        i  == CHOOSE j \in at : \A k \in at : j <= k
        to == IF stack.multiplexed /\ at # {} THEN First(i - 1, m.name) ELSE <<>>
    IN  IF stack.multiplexed /\ (m.type \notin {CALL, ONEWAY} \/ to # Service)
        THEN Got(Done(m, <<>>, NoAnswer, TRUE), s)
        ELSE Process(d, IF stack.multiplexed THEN [m EXCEPT !.name = After(i, @)] ELSE m, s)

Turn(t) == Message(t, LAMBDA d, m, s : Dispatch(d, m, s))

Answered(t, done) ==
    IF done.answer = NoAnswer \/ Dialect(t) = "none" THEN t
    ELSE Flush(WriteMessage(t, done.name, done.answer.type, done.seq,
                            WriteStruct(Dialect(t), done.answer.fields)))

ServerStep ==
    /\ serving
    /\ \E r \in {Turn(server)} :
           /\ r.tag # "need"
           /\ \E t \in {IF r.tag = "got" THEN Answered(r.at, r.val) ELSE r.at} :
                 /\ server' = [t EXCEPT !.out = <<>>]
                 /\ client' = [client EXCEPT !.raw = @ \o t.out]
           /\ serving' = (r.tag = "got" /\ ~r.val.close)
           /\ handled' = IF r.tag = "got"
                         THEN handled \o [i \in DOMAIN r.val.given |->
                                [method |-> r.val.given[i].method, arg |-> r.val.given[i].arg,
                                 header |-> r.at.readHeaders]]
                         ELSE handled
    /\ UNCHANGED <<stack, user, seqId, calls, pending, timeouts>>
-----------------------------------------------------------------------------
Later == <<TType.I32, 4200 + seqId>>

ACall(kind, arg, header) ==
    [method |-> kind.method, service |-> kind.service, oneway |-> kind.oneway,
     arg |-> arg, header |-> header, outcome |-> Waiting]

Args(kind) == IF calls = <<>> /\ kind.method = Echo THEN user.args ELSE {Later}
HeaderValues == IF client.kind = "header" /\ user.headers THEN {<<>>, <<seqId>>} ELSE {<<>>}

Next ==
    \/ \E kind \in user.kinds : \E arg \in Args(kind), header \in HeaderValues :
          Call(ACall(kind, arg, header))
    \/ \E kind \in user.kinds : CallInvalid(ACall(kind, Later, <<>>))
    \/ ServerStep
    \/ Return
    \/ \E n \in 0..Len(client.raw) : Timeout(n)

Spec == Init /\ [][Next]_vars
-----------------------------------------------------------------------------
(* An empty map loses its types in the compact protocol.                   *)
Same(v, w) ==
    \/ v = w
    \/ v # <<>> /\ w # <<>> /\ v[1] = TType.MAP /\ w[1] = TType.MAP /\ v[3] = <<>> /\ w[3] = <<>>

(* A reply is the reply to the call that returns it, whatever was given up *)
(* or left half-written or half-read on the connection before.             *)
NeverWrongAnswer ==
    \A i \in DOMAIN calls :
        IsReply(calls[i].outcome) =>
            /\ calls[i].method = Echo
            /\ Same(calls[i].outcome[2], calls[i].arg)

(* Handlers are given what callers passed, in the order of the calls and   *)
(* each once, with the headers of that call and no others: what a failed   *)
(* Send left behind is never taken for a call.  Without a version in front *)
(* of a message it can be: the zero byte that the next message begins with *)
(* ends the arguments of the one before.                                   *)
HandledAsSent ==
    stack.client.dialect # "loose" \/ Count(<<"invalid">>) = 0 =>
        \E f \in [DOMAIN handled -> DOMAIN calls] :
            /\ \A i, j \in DOMAIN handled : i < j => f[i] < f[j]
            /\ \A i \in DOMAIN handled :
                  LET c == calls[f[i]]
                  IN  /\ c.outcome # <<"invalid">>
                      /\ handled[i].method = c.method
                      /\ stack.multiplexed => c.service = Service
                      /\ Same(handled[i].arg, c.arg)
                      /\ handled[i].header = Headers(c)

(* A two-way call gets its own answer, in every dialect and between ends   *)
(* of different versions, as long as neither it nor a call before it timed *)
(* out, failed half-way or went to a service that is not there, which      *)
(* closes the connection, and no call before it was a oneway call of a     *)
(* method the server does not know: the exception that it is answered with *)
(* is left unread and is taken for the answer to the next call.            *)
Expected(c) ==
    IF c.method = Echo THEN <<"reply", c.arg>> ELSE <<"exception", UnknownMethod>>

Clean(i) ==
    /\ \A j \in 1..i :
         /\ calls[j].outcome \notin {<<"timeout">>, <<"invalid">>}
         /\ calls[j].service = Service
    /\ \A j \in 1..(i - 1) : ~(calls[j].method = Unknown /\ calls[j].oneway)

CleanCallsSucceed ==
    \A i \in DOMAIN calls :
        Clean(i) /\ ~calls[i].oneway /\ calls[i].outcome # Waiting =>
            LET o == calls[i].outcome
                e == Expected(calls[i])
            IN  o[1] = e[1] /\ IF IsReply(o) THEN Same(o[2], e[2]) ELSE o = e

(* The two ends never wait for each other: while the answer to a clean     *)
(* call is out, the server has a whole request to read or the client a     *)
(* whole answer, as each counts the bytes of the other's messages.         *)
NeverStuck ==
    pending /\ Clean(Len(calls)) =>
        \/ Recv(client).tag # "need"
        \/ serving /\ Turn(server).tag # "need"
=============================================================================
