---------------------------- MODULE MCS3Lifecycle ----------------------------
(***************************************************************************)
(* Plain, list, map and struct columns with no, some, clashing and all IDs *)
(* pinned; a decimal in both spellings; integers that are cut and that a   *)
(* float32 or a float64 cannot tell apart; declared, ignored and           *)
(* engine-written properties; format versions 2, 3 and an unsupported one. *)
(***************************************************************************)
EXTENDS S3Lifecycle

Plain(b)   == [base |-> b, args |-> <<>>, spaced |-> FALSE]
Decimal(x) == [base |-> "decimal", args |-> <<9, 2>>, spaced |-> x]
Col(n, t)  == [name |-> n, type |-> t, block |-> NoBlock, attrs |-> "optional", defaults |-> NoDefault]
With(n, b) == [name |-> n, type |-> NoType, block |-> b, attrs |-> "optional", defaults |-> NoDefault]
Part(n, b) == [name |-> n, type |-> Plain(b)]
List(id)   == [kind |-> "list", ids |-> <<id>>, parts |-> <<Part("element", "int")>>]
Map(k, v)  == [kind |-> "map", ids |-> <<k, v>>,
               parts |-> <<Part("key", "string"), Part("value", "int")>>]
Struct(ids) == [kind |-> "struct", ids |-> ids,
                parts |-> SubSeq(<<Part("x", "int"), Part("y", "date")>>, 1, Len(ids))]
Numeric(n, whole) == [k \in {"number"} |-> [n |-> n, whole |-> whole]]
IntCol(n)     == [Col("n", Plain("int")) EXCEPT !.defaults = Numeric(n, TRUE)]
LongCol(n)    == [Col("n", Plain("long")) EXCEPT !.defaults = Numeric(n, TRUE)]

FloatCol(n)   == [Col("n", Plain("float")) EXCEPT !.defaults = Numeric(n, TRUE)]

A == Col("a", Plain("int"))

Value(t)    == [text |-> t, json |-> NoJSON]
Json(t, j)  == [text |-> t, json |-> j]
Prop(n, v, t) == [name |-> n, value |-> v, type |-> t]

Model(f)        == [fields |-> f, props |-> <<>>, ignore |-> {}, version |-> "2"]
Props(p, i)     == [Model(<<A>>) EXCEPT !.props = p, !.ignore = i]
Version3(f)     == [Model(f) EXCEPT !.version = "3"]

Owner(v)  == Prop("owner", Value(v), "text")
TypeIs(v) == Prop("table_type", Value(v), "text")

MCConfigs ==
    {Model(<<A, With("l", List(Null))>>),
     Model(<<With("l", List(1)), A>>),
     Model(<<With("l", List(2)), With("s", Struct(<<2>>))>>),
     Model(<<With("m", Map(Null, Null)), With("l", List(Null)), A>>),
     Model(<<With("m", Map(4, Null)), A>>),
     Model(<<With("m", Map(Null, 4)), With("l", List(3))>>),
     Model(<<With("s", Struct(<<Null, 3>>)), With("l", List(Null))>>),
     Model(<<Col("m", Plain("int")), With("l", List(9))>>),
     Model(<<Col("d", Decimal(FALSE))>>),
     Model(<<Col("a", Plain("long")), Col("d", Decimal(TRUE))>>),
     Version3(<<A, IntCol(40)>>),
     Version3(<<LongCol(41)>>),
     Version3(<<FloatCol(21)>>),
     [Model(<<IntCol(3)>>) EXCEPT !.version = "4"],
     Model(<<[A EXCEPT !.block = List(2)]>>),
     Props(<<Owner("me"), TypeIs("iceberg")>>, {}),
     Props(<<TypeIs("other"), Owner("me")>>, {}),
     Props(<<>>, {"owner", "stats"}),
     Props(<<Prop("json", Json("{a: 1}", "a1"), "json")>>, {}),
     Props(<<Prop("json", Json("{ a : 1 }", "a1"), "text")>>, {})}

MCAdditions == {Col("b", Plain("date")), With("k", List(Null)), With("k", List(7))}
MCWrites    == {<<"mapping", Json("[]", "empty")>>, <<"stats", Value("1")>>}
MCCanWiden  == {<<Plain("int"), Plain("long")>>}
MCPropOrder == <<"json", "mapping", "owner", "stats", "table_type">>
MCInjected  == [n \in {"table_type"} |-> Value("iceberg")]
MCEngineKeys == {"mapping"}
==============================================================================
