------------------------------ MODULE S3Schema ------------------------------
(***************************************************************************)
(* How s3_table_resource.go turns the field blocks of a configuration into *)
(* an Iceberg schema and back: which IDs the columns and the parts of      *)
(* nested columns get, which types and defaults are accepted, and what a   *)
(* schema reads back as.                                                   *)
(*                                                                         *)
(* A field is [name, type, block, attrs, defaults]:                        *)
(*   type      a type [base, args, spaced], NoType in a nested column      *)
(*   block     what a list_type, map_type or struct_type block holds:      *)
(*             [kind, ids, parts], one ID and one [name, type] for the     *)
(*             element, for key and value, or for every sub-field; an ID   *)
(*             that is not set is Null.  NoBlock if there is none.         *)
(*   attrs     required and doc, which pass through unchanged              *)
(*   defaults  the default_string, default_number and default_bool that    *)
(*             are set, as a function; a number is [n, whole]              *)
(* "spaced" tells decimal(18, 4) from decimal(18,4).                       *)
(***************************************************************************)
EXTENDS Integers, Sequences, FiniteSets, SequencesExt, Selection

CONSTANTS
    Null,         \* an ID that is null or unknown
    IntWidth,     \* bits of an int; 32 in the code
    LongWidth,    \* bits of a long; 64 in the code
    FloatWidth,   \* integers up to 2^FloatWidth are exact as float32; 24
    ExactWidth    \* integers up to 2^ExactWidth are exact as float64; 53

ASSUME WidthAssumption ==
    /\ {IntWidth, LongWidth, FloatWidth, ExactWidth} \subseteq Nat \ {0}
    /\ IntWidth < LongWidth /\ FloatWidth < ExactWidth
ASSUME NullAssumption == Null \notin Int
------------------------------------------------------------------------------
(* What the attributes and blocks of a field block can hold.               *)
NoType  == [base |-> "none", args |-> <<>>, spaced |-> FALSE]
NoBlock == [kind |-> "none", ids |-> <<>>, parts |-> <<>>]

Arity == [none |-> {0}, list |-> {1}, map |-> {2}, struct |-> Nat]

IsType(t) == t = [base |-> t.base, args |-> t.args, spaced |-> t.spaced]

IsBlock(b) ==
    /\ b = [kind |-> b.kind, ids |-> b.ids, parts |-> b.parts]
    /\ b.kind \in DOMAIN Arity
    /\ IsList(b.ids) /\ IsList(b.parts)
    /\ Len(b.ids) = Len(b.parts) /\ Len(b.ids) \in Arity[b.kind]
    /\ \A k \in DOMAIN b.ids : b.ids[k] \in Int \cup {Null}
    /\ \A k \in DOMAIN b.parts :
          LET q == b.parts[k] IN q = [name |-> q.name, type |-> q.type] /\ IsType(q.type)

IsField(f) ==
    /\ f = [name |-> f.name, type |-> f.type, block |-> f.block, attrs |-> f.attrs,
             defaults |-> f.defaults]
    /\ IsType(f.type) /\ IsBlock(f.block)
    /\ DOMAIN f.defaults \subseteq {"string", "number", "bool"}
------------------------------------------------------------------------------
(* Nested IDs.  They are known by their places: <<i, k>> is the k-th ID of *)
(* the i-th field.                                                         *)
Places(fields) == UNION {{i} \X DOMAIN fields[i].block.ids : i \in DOMAIN fields}
ID(fields, p)  == fields[p[1]].block.ids[p[2]]

(* A list without element type or a map without key type has no slots.     *)
HasSlots(b) == b.kind \in {"list", "map"} => b.parts[1].type # NoType
Slots(fields) == {p \in Places(fields) : HasSlots(fields[p[1]].block)}

Unset(fields)  == {p \in Slots(fields) : ID(fields, p) = Null}
Pinned(fields) == {ID(fields, p) : p \in Places(fields)} \ {Null}

IsHalfPinned(b) == b.kind = "map" /\ (b.ids[1] = Null) # (b.ids[2] = Null)

(* The fields with other IDs, a function of the places.                    *)
WithIDs(fields, ids) ==
    [i \in DOMAIN fields |->
        [fields[i] EXCEPT !.block.ids = [k \in DOMAIN @ |-> ids[<<i, k>>]]]]

(* How many places of a set come before a place or are it.                 *)
Number(places, p) ==
    Cardinality({q \in places : q[1] < p[1] \/ (q[1] = p[1] /\ q[2] <= p[2])})

(* The first n positive integers that are not taken, in order.             *)
FirstFree(n, taken) ==
    [k \in 1 .. n |-> Nth((1 .. n + Cardinality(taken)) \ taken, k)]

(* validateNestedIDUniqueness: no two slots and no slot and column agree.  *)
NestedIDsUnique_Columns(fields, fieldIDs) ==
    \A p \in Slots(fields) : ID(fields, p) \notin ToSet(fieldIDs)
NestedIDsUnique(fields, fieldIDs) ==
    \A p \in Slots(fields) :
       /\ ID(fields, p) \notin ToSet(fieldIDs)
       /\ \A q \in Slots(fields) : ID(fields, p) = ID(fields, q) => p = q

(* None set: the columns are 1..N and the slots are numbered after them,   *)
(* in the order of the configuration.                                      *)
AutoAssigned(fields) ==
    WithIDs(fields, [p \in Places(fields) |->
        IF p \in Slots(fields) THEN Len(fields) + Number(Slots(fields), p)
        ELSE ID(fields, p)])

(* resolveNestedIDs: the IDs of columns and slots, and whether it succeeds.*)
(* All set: the columns take the numbers that the slots leave.  No slots:  *)
(* the columns are 1..N.  (The pairing of key and value can no longer fail *)
(* after the first test.)                                                  *)
FieldIDs(fields) ==
    FirstFree(Len(fields),
              IF Slots(fields) # {} /\ Unset(fields) = {} THEN Pinned(fields) ELSE {})

ResolveNestedIDs(fields) ==
    IF Unset(fields) = {} THEN fields ELSE AutoAssigned(fields)

NestedIDsResolve(fields) ==
    /\ Unset(fields) \in {{}, Slots(fields)}
    /\ Unset(fields) = {} => NestedIDsUnique(fields, FieldIDs(fields))

(* fillMissingNestedIDs: what the error message tells the user to write.   *)
(* A map is filled when its key has no ID, key and value together; one     *)
(* whose key has an ID is left as it is.                                   *)
ToFill(fields) ==
    {p \in Places(fields) :
        IF fields[p[1]].block.kind = "map" THEN ID(fields, <<p[1], 1>>) = Null
        ELSE ID(fields, p) = Null}

FillReserved_Columns(fields) == DOMAIN fields
FillReserved(fields) == DOMAIN fields \cup Pinned(fields)

FillMissingNestedIDs(fields) ==
    LET fresh == FirstFree(Cardinality(ToFill(fields)), FillReserved(fields))
    IN  WithIDs(fields, [p \in Places(fields) |->
            IF p \in ToFill(fields) THEN fresh[Number(ToFill(fields), p)] ELSE ID(fields, p)])
------------------------------------------------------------------------------
(* Types.                                                                  *)
PlainTypes ==
    {"boolean", "int", "long", "float", "double", "date", "time", "timestamp",
     "timestamptz", "string", "binary", "uuid"}

(* parseIcebergType accepts a type written with or without the space ...   *)
ParseIcebergType(t) ==
    \/ t.base \in PlainTypes /\ t.args = <<>>
    \/ t.base = "fixed" /\ Len(t.args) = 1 /\ t.args[1] > 0
    \/ t.base = "decimal" /\ Len(t.args) = 2 /\ t.args[1] > 0 /\ t.args[2] >= 0

(* ... and iceberg-go prints it with the space.                            *)
Printed(t) == [t EXCEPT !.spaced = (t.base = "decimal")]

(* fieldModelToIcebergType: some type is given and every part of it parses.*)
TypesParse(f) ==
    IF f.type # NoType THEN ParseIcebergType(f.type)
    ELSE /\ f.block.kind # "none"
         /\ \A k \in DOMAIN f.block.parts : ParseIcebergType(f.block.parts[k].type)

(* Only the iceberg type remains of what is written.                       *)
StoredParts(parts) == [k \in DOMAIN parts |-> [parts[k] EXCEPT !.type = Printed(@)]]
StoredType(f) ==
    [f EXCEPT !.type = Printed(@),
              !.block = IF f.type # NoType THEN NoBlock
                        ELSE [f.block EXCEPT !.parts = StoredParts(f.block.parts)]]
------------------------------------------------------------------------------
(* Defaults.                                                               *)
NoDefault == [k \in {} |-> Null]
Fits(n, w) == -(2 ^ (w - 1)) <= n /\ n < 2 ^ (w - 1)
Wrapped(n, w) == ((n + 2 ^ (w - 1)) % 2 ^ w) - 2 ^ (w - 1)

(* An integer as a float that tells those up to 2^w apart.  (Downwards and *)
(* to an even one here; the code's conversions go to the nearest float.)   *)
Rounded(n, w) == IF n \in -(2 ^ w) .. 2 ^ w THEN n ELSE n - (n % 2)

(* getFieldDefault fails on two defaults, on one that is not of the kind   *)
(* of the column, on an integer that is not one, and on the columns that   *)
(* take no default.                                                        *)
DefaultFails(f) ==
    /\ f.defaults # NoDefault
    /\ \/ f.type = NoType
       \/ Cardinality(DOMAIN f.defaults) > 1
       \/ LET kind == CHOOSE k \in DOMAIN f.defaults : TRUE
          IN  ~ \/ f.type.base = "boolean" /\ kind = "bool"
                \/ f.type.base = "string" /\ kind = "string"
                \/ f.type.base \in {"float", "double"} /\ kind = "number"
                \/ /\ f.type.base \in {"int", "long"} /\ kind = "number"
                   /\ f.defaults.number.whole /\ Fits(f.defaults.number.n, LongWidth)

(* An integer that fits a long and not an int is cut to the int; a number  *)
(* of a float or double column becomes a float32 or a float64.             *)
StoredNumber(base, n) ==
    CASE base = "int"    -> Wrapped(n, IntWidth)
      [] base = "float"  -> Rounded(Rounded(n, ExactWidth), FloatWidth)
      [] base = "double" -> Rounded(n, ExactWidth)
      [] OTHER           -> n

StoredDefault(f) ==
    IF "number" \in DOMAIN f.defaults
    THEN [f.defaults EXCEPT !.number.n = StoredNumber(f.type.base, @)]
    ELSE f.defaults

(* A default number comes back as a float64.                               *)
ReadDefault(d) ==
    IF "number" \in DOMAIN d THEN [d EXCEPT !.number.n = Rounded(@, ExactWidth)] ELSE d
------------------------------------------------------------------------------
(* ValidateConfig: a table has fields, each with one kind of type and its  *)
(* parts, and nested IDs that resolve.                                     *)
TypeGiven(f) ==
    /\ (f.type # NoType) # (f.block.kind # "none")
    /\ f.block.kind # "struct" => \A k \in DOMAIN f.block.parts : f.block.parts[k].type # NoType

ValidateConfig(fields) ==
    /\ fields # <<>>
    /\ \A i \in DOMAIN fields : TypeGiven(fields[i])
    /\ NestedIDsResolve(fields)

(* BuildSchema: the columns that CreateTable is called with, and whether   *)
(* they can be built.  A default on a nested column is passed over.        *)
SchemaBuilds(fields) ==
    /\ NestedIDsResolve(fields)
    /\ \A i \in DOMAIN fields :
          TypesParse(fields[i]) /\ (fields[i].type # NoType => ~DefaultFails(fields[i]))

BuildSchema(fields) ==
    [i \in DOMAIN fields |->
        LET f == StoredType(ResolveNestedIDs(fields)[i])
        IN  [id |-> FieldIDs(fields)[i], name |-> f.name, type |-> f.type, block |-> f.block,
             attrs |-> f.attrs,
             default |-> IF f.type = NoType THEN NoDefault ELSE StoredDefault(f)]]

(* icebergToFieldModel, schemaToFieldModels: what the columns of a table   *)
(* read back as.                                                           *)
SchemaToFieldModels(columns) ==
    [i \in DOMAIN columns |->
        [name |-> columns[i].name, type |-> columns[i].type, block |-> columns[i].block,
         attrs |-> columns[i].attrs, defaults |-> ReadDefault(columns[i].default)]]

(* fieldModelsEqual: numbers are compared by their addresses, so that two  *)
(* columns with a default number are never equal.                          *)
FieldModelsEqual(a, b) == a = b /\ "number" \notin DOMAIN a.defaults
==============================================================================
