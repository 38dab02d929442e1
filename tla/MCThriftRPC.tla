---------------------------- MODULE MCThriftRPC ----------------------------
(* Instances of ThriftRPC: dialects, and values of every type.             *)
EXTENDS ThriftRPC

I(n) == <<TType.I32, n>>
S(b) == <<TType.STR, b>>

MCValues ==
    {I(-7),
     <<TType.MAP, <<TType.STR, TType.I32>>, <<S(<<97>>), I(300), S(<<>>), I(-1)>>>>,
     <<TType.MAP, <<TType.STR, TType.I32>>, <<>>>>,
     <<TType.LIST, <<TType.BOOL>>, <<<<TType.BOOL, TRUE>>, <<TType.BOOL, FALSE>>>>>>,
     <<TType.STRUCT, <<<<3, <<TType.BOOL, FALSE>>>>, <<40, <<TType.I16, -300>>>>, <<2, I(5)>>>>>>}

MCExtra ==
    <<TType.STRUCT,
      <<<<1, <<TType.BOOL, TRUE>>>>, <<2, <<TType.BYTE, -2>>>>, <<3, <<TType.I16, 513>>>>,
        <<4, <<TType.I64, -70000>>>>, <<5, <<TType.DOUBLE, <<64, 9, 33, 251, 84, 68, 45, 24>>>>>>,
        <<6, <<TType.UUID, [i \in 1..16 |-> 16 * i - 1]>>>>,
        <<30, <<TType.SET, <<TType.LIST>>, <<<<TType.LIST, <<TType.I32>>, [i \in 1..15 |-> I(i)]>>>>>>>>,
        <<31, <<TType.MAP, <<TType.STR, TType.STRUCT>>, <<S(<<98>>), <<TType.STRUCT, <<>>>>>>>>>>>>>>

Plain(kind, d) == Transport(kind, d, BinaryID, <<>>, <<>>)
Header(proto, transforms, stale) ==
    Transport("header", IF proto = CompactID THEN "compact" ELSE "binary", proto, transforms, stale)

Stack(c, s, multiplexed) == [client |-> c, server |-> s, multiplexed |-> multiplexed]

MCStacks ==
    {Stack(Plain(kind, d), Plain(kind, d), d = "binary") :
        kind \in {"raw", "framed"}, d \in {"binary", "strict", "loose", "compact"}}
  \cup {Stack(Plain(kind, d), Header(proto, <<>>, <<0, 0>>), FALSE) :
        kind \in {"raw", "framed"}, d \in {"strict", "compact"}, proto \in {BinaryID, CompactID}}
  \cup {Stack(Header(proto, transforms, stale), Header(BinaryID, <<>>, <<0, 0>>), proto = CompactID) :
        proto \in {BinaryID, CompactID}, transforms \in {<<>>, <<Zlib>>},
        stale \in {<<0, 0>>, <<15, 255>>, <<128, 1>>, <<130, 33>>}}

Kind(method, service, oneway) == [method |-> method, service |-> service, oneway |-> oneway]
Calls2   == {Kind(Echo, Service, FALSE), Kind(Unknown, Service, FALSE)}
AllKinds == Calls2 \cup {Kind(Oneway, Service, TRUE), Kind(Unknown, Service, TRUE),
                         Kind(Echo, Nowhere, FALSE)}

User(newer, args, kinds, headers, n, impatient, failing) ==
    [newer |-> newer, args |-> args, kinds |-> kinds, headers |-> headers,
     calls |-> n, timeouts |-> impatient, failures |-> failing]

MCClients ==
    {User(FALSE, MCValues, AllKinds, TRUE, 2, 0, 0),          \* every value and kind of call
     User(TRUE, {I(-7)}, Calls2, FALSE, 2, 0, 0),             \* ends of different versions
     User(FALSE, {S(<<97>>)}, {Kind(Echo, Service, FALSE)}, FALSE, 4, 2, 0),  \* an impatient one
     User(FALSE, {I(-7)}, Calls2, FALSE, 4, 0, 2)}            \* one that fails to write
=============================================================================
