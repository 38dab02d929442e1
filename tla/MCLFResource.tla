----------------------------- MODULE MCLFResource -----------------------------
(***************************************************************************)
(* One database with one table or a wildcard in it, two permissions valid  *)
(* for every kind of block, and the attribute values that take different   *)
(* paths through the code.                                                 *)
(***************************************************************************)
EXTENDS LFResource

CONSTANTS select, drop

MCFlag    == {select, drop}
MCOrder   == <<"catalog", "database", "table", "wildcard">>
MCParent  == [catalog |-> "catalog", database |-> "database",
              table |-> "database", wildcard |-> "database"]
Attr(p, g) == [P |-> p, G |-> g]
Blocks(c, d, t, w) == [catalog |-> c, database |-> d, table |-> t, wildcard |-> w]
MCWritten ==
    {Blocks(Unset, d, t, w) :
        d \in {Absent, Unset, Attr({}, Nil), Attr({select}, Nil), Attr({select}, {select})},
        t \in {Absent, Attr({drop}, Nil), Attr(Nil, {drop})},
        w \in {Absent, Attr({ALL}, {drop})}}
    \cup
    {Blocks(c, d, Absent, Absent) :
        c \in {Attr({drop}, Nil), Attr({select, drop}, {})},
        d \in {Absent, Attr({select}, Nil)}}

MCHoldings ==
    {Blocks(None, None, None, None),
     Blocks(None, Attr({select}, {select}), Attr({drop}, {}), None),
     Blocks(Attr({drop}, {}), Attr({select, drop}, {}), None, Attr({select, drop}, {drop}))}
===============================================================================
