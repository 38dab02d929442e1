------------------------------ MODULE MCS3Table ------------------------------
(***************************************************************************)
(* Three columns, a wider definition that a column may be updated to, two  *)
(* partition fields, and configurations that extend, shrink, widen,        *)
(* reorder and empty one another.                                          *)
(***************************************************************************)
EXTENDS S3Table

Col(n)  == [name |-> n, def |-> "int"]
Wide(n) == [name |-> n, def |-> "long"]
Part(n, s) == [name |-> n, source |-> s]
Model(f, p) == [fields |-> f, parts |-> p]

MCConfigs ==
    {Model(<<Col("a")>>, <<>>),
     Model(<<Col("a"), Col("b")>>, <<>>),
     Model(<<Col("a"), Col("b"), Col("c")>>, <<>>),
     Model(<<Wide("a")>>, <<Part("p", "a")>>),
     Model(<<Col("b"), Col("a")>>, <<>>),
     Model(<<Col("a"), Col("b")>>, <<Part("p", "a")>>),
     Model(<<Col("a"), Col("b")>>, <<Part("q", "b"), Part("p", "a")>>),
     Model(<<Col("a"), Col("b")>>, <<Part("p", "b"), Part("q", "a")>>),
     Model(<<Col("a"), Col("b")>>, <<Part("p", "b")>>),
     Model(<<>>, <<>>)}

(* Two columns, of which one after the other is configured away.           *)
MCShrinking ==
    {Model(<<Col("a"), Col("b")>>, <<>>),
     Model(<<Col("a")>>, <<>>),
     Model(<<Col("b")>>, <<>>)}
MCCanBecome == {<<"int", "long">>}
MCStranger  == Col("b")
==============================================================================
