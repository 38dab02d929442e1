----------------------------- MODULE S3Lifecycle -----------------------------
(***************************************************************************)
(* A bai_s3tables_table resource over many runs of terraform apply: the    *)
(* user edits the configuration, leaves nested IDs to the provider, pins   *)
(* them, or writes what a message told; query engines write properties of  *)
(* the table; the resource is forgotten and imported.                      *)
(*                                                                         *)
(* One Apply is a whole run: Read, ValidateConfig, Terraform's proposal,   *)
(* ModifyPlan, then Create, Update or nothing.  What goes wrong within a   *)
(* run is in S3Table; this module is about what is carried from one run to *)
(* the next: IDs, properties, defaults and the format version.             *)
(*                                                                         *)
(* A model (configuration, plan or state) is [fields, props, ignore,       *)
(* version].  A table is [columns, props, version, last].                  *)
(***************************************************************************)
EXTENDS S3Schema, S3Properties

CONSTANTS
    Configs,      \* the models the user may write
    Additions,    \* the fields the user may append
    Writes,       \* the pairs <<name, value>> that engines write
    CanWiden,     \* the pairs of types a column may be changed by
    MaxEdits,     \* bound: edits of the configuration
    MaxWrites     \* bound: properties written by engines, and imports

(* Columns are known by their names; Iceberg refuses two of one name.      *)
Distinct(s) == \A i, j \in DOMAIN s : s[i].name = s[j].name => i = j

IsModel(m) ==
    /\ m = [fields |-> m.fields, props |-> m.props, ignore |-> m.ignore, version |-> m.version]
    /\ IsList(m.fields) /\ Distinct(m.fields)
    /\ \A i \in DOMAIN m.fields : IsField(m.fields[i])
    /\ \A i \in DOMAIN m.props : m.props[i].type \in {"text", "json"}
    /\ Declared(m.props) \cup m.ignore \subseteq ToSet(PropOrder)

ASSUME ConfigsAssumption ==
    /\ \A m \in Configs : IsModel(m)
    /\ \A f \in Additions : IsField(f)
ASSUME BoundsAssumption == MaxEdits \in Nat /\ MaxWrites \in Nat

Absent == [absent |-> TRUE]   \* no resource; no table

VARIABLES
    config,       \* what the user wrote, or Absent
    state,        \* what Terraform stores, or Absent
    tainted,      \* the stored resource is to be replaced
    table,        \* the table in the catalog, or Absent
    outcome,      \* how the last run with this configuration ended
    told,         \* the fields that the last message tells to write, if any
    cured,        \* history: the user wrote what a refusal told, nothing else
    hinted,       \* history: the user completed the IDs as told, nothing else
    settled,      \* history: a run succeeded, and nothing it tracks changed
    imported,     \* history: the state comes from an import
    edits, writes

vars == <<config, state, tainted, table, outcome, told, cured, hinted, settled,
          imported, edits, writes>>

Good == {"created", "updated", "unchanged"}
------------------------------------------------------------------------------
(* The catalog.  A new table keeps the IDs it is given or numbers columns  *)
(* and nested parts afresh; an added column always gets fresh IDs.         *)
Numbered(columns) ==
    {columns, [i \in DOMAIN columns |-> [AutoAssigned(columns)[i] EXCEPT !.id = i]]}

MaxID(columns) ==
    Max({columns[i].id : i \in DOMAIN columns} \cup Pinned(columns) \cup {0})

TableVersion(props) == IF "format-version" \in DOMAIN props THEN "3" ELSE "2"

(* Only version 3 has default values.                                      *)
Creatable(columns, props) ==
    TableVersion(props) = "2" => \A i \in DOMAIN columns : columns[i].default = NoDefault

(* Columns that are added one after another; the number of a column and of *)
(* the parts of its block follow the last one given.                       *)
NewPlaces(fields) == UNION {{m} \X (0 .. Len(fields[m].block.ids)) : m \in DOMAIN fields}
AddedColumns(fields, last) ==
    LET id(m, k) == last + Number(NewPlaces(fields), <<m, k>>)
    IN  [m \in DOMAIN fields |->
            LET f == StoredType(fields[m])
            IN  [id |-> id(m, 0), name |-> f.name, type |-> f.type,
                 block |-> [f.block EXCEPT !.ids = [k \in DOMAIN @ |-> id(m, k)]],
                 attrs |-> f.attrs, default |-> StoredDefault(f)]]

(* Metadata of a version 2 table that still has "next-row-id" is rejected  *)
(* by iceberg-go; the provider's HTTP transport takes it out.              *)
StripV3Fields(meta) ==
    IF meta.version \in {"1", "2"} THEN [meta EXCEPT !.nextRowID = FALSE] ELSE meta
Loadable(t) ==
    LET meta == StripV3Fields([version |-> t.version, nextRowID |-> TRUE])
    IN  meta.version = "2" => ~meta.nextRowID
------------------------------------------------------------------------------
(* setModelFromTable: before is the model it overwrites.                   *)
View(t, ignore, before) ==
    [fields  |-> SchemaToFieldModels(t.columns),
     props   |-> PropertiesToPropertyModels(t.props, ignore, before),
     ignore  |-> ignore,
     version |-> t.version]

(* Read.                                                                   *)
Refreshed ==
    IF state = Absent \/ table = Absent THEN Absent
    ELSE View(table, state.ignore, state.props)

(* Terraform proposes the state's value for an ID that is not set, looking *)
(* it up by the position of the field.                                     *)
Proposed(s) ==
    LET prior(i, k) ==
            IF /\ i \in DOMAIN s.fields
               /\ s.fields[i].block.kind = config.fields[i].block.kind
               /\ k \in DOMAIN s.fields[i].block.ids
            THEN s.fields[i].block.ids[k] ELSE Null
    IN  [config EXCEPT !.fields = WithIDs(config.fields, [p \in Places(config.fields) |->
            IF ID(config.fields, p) # Null THEN ID(config.fields, p) ELSE prior(p[1], p[2])])]

(* If anything differs, every ID that the user did not set is unknown when *)
(* ModifyPlan numbers them.                                                *)
Planned == [config EXCEPT !.fields = ResolveNestedIDs(config.fields)]

NoMessage == <<>>

(* The messages.  A map whose key has an ID and whose value has none is    *)
(* printed with value_id = 0; a refusal prints the IDs of the state.       *)
Hint(fields) ==
    LET full == FillMissingNestedIDs(fields)
    IN  WithIDs(full, [p \in Places(full) |->
            IF ID(full, p) = Null THEN 0 ELSE ID(full, p)])

StateIDs_Positions(fields, s) ==
    WithIDs(fields, [p \in Places(fields) |->
        IF p \in Places(s.fields) THEN ID(s.fields, p) ELSE ID(fields, p)])
StateIDs(fields, s) ==
    LET same(i) == {j \in DOMAIN s.fields :
                       /\ s.fields[j].name = fields[i].name
                       /\ Len(s.fields[j].block.ids) = Len(fields[i].block.ids)}
    IN  WithIDs(fields, [p \in Places(fields) |->
            IF same(p[1]) = {} THEN ID(fields, p)
            ELSE s.fields[CHOOSE j \in same(p[1]) : TRUE].block.ids[p[2]]])
------------------------------------------------------------------------------
(* A run with a resource: what it reports, stores and tells.               *)
End(result, s, message) ==
    /\ outcome' = result
    /\ state' = s
    /\ told' = message
    /\ settled' = (result \in Good)
    /\ imported' = (imported /\ result = "invalid")
    /\ UNCHANGED <<config, cured, hinted, edits, writes>>

Run == config # Absent /\ (table # Absent => Loadable(table))

ApplyInvalid ==
    /\ Run /\ ~ValidateConfig(config.fields)
    /\ End("invalid", state,
           IF NestedIDsResolve(config.fields) THEN NoMessage ELSE Hint(config.fields))
    /\ UNCHANGED <<table, tainted>>

Valid == Run /\ ValidateConfig(config.fields)

(* ModifyPlan warns about the IDs that it made up.                         *)
Warning == IF Planned.fields # config.fields THEN Planned.fields ELSE NoMessage

ApplyUnchanged ==
    /\ Valid /\ Refreshed # Absent /\ ~tainted
    /\ Proposed(Refreshed) = Refreshed
    /\ End("unchanged", Refreshed, NoMessage)
    /\ UNCHANGED <<table, tainted>>
------------------------------------------------------------------------------
(* Create, also for a tainted resource, whose table is purged first.  The  *)
(* table as the catalog answers it is the state; if Terraform finds that   *)
(* it is not what was planned, the resource is tainted.                    *)
NewProps == BuildProperties(config.props, config.version)

Creates == Valid /\ (Refreshed = Absent \/ tainted)

CreateAccepted ==
    /\ VersionSupported(config.version)
    /\ SchemaBuilds(Planned.fields)
    /\ Creatable(BuildSchema(Planned.fields), NewProps)
    /\ table = Absent \/ Refreshed # Absent

Created_AsPlanned(t) == Planned
Created(t) == View(t, config.ignore, config.props)

ApplyCreate ==
    /\ Creates /\ CreateAccepted
    /\ \E columns \in Numbered(BuildSchema(Planned.fields)) :
          table' = [columns |-> columns, props |-> NewProps,
                    version |-> TableVersion(NewProps), last |-> MaxID(columns)]
    /\ tainted' = (Created(table') # Planned)
    /\ End(IF tainted' THEN "inconsistent" ELSE "created", Created(table'), Warning)

ApplyCreateFails ==
    /\ Creates /\ ~CreateAccepted
    /\ table' = IF Refreshed = Absent THEN table ELSE Absent
    /\ tainted' = FALSE
    /\ End("failed", Absent, Warning)
------------------------------------------------------------------------------
(* Update: what is staged is the difference between state and plan.        *)
Updates(s) == Valid /\ s # Absent /\ ~tainted /\ Proposed(s) # s

ColumnNames(fields) == {fields[i].name : i \in DOMAIN fields}
Named(fields, n) == fields[CHOOSE i \in DOMAIN fields : fields[i].name = n]

Added(s)   == ColumnNames(Planned.fields) \ ColumnNames(s.fields)
Changed(s) == {n \in ColumnNames(Planned.fields) \cap ColumnNames(s.fields) :
                  ~FieldModelsEqual(Named(s.fields, n), Named(Planned.fields, n))}

(* The catalog does not update a list, map or struct, whatever changes.    *)
NestedRefused(s) == \E n \in Changed(s) : Named(s.fields, n).block # NoBlock

Convertible(s) ==
    \A n \in Added(s) \cup Changed(s) :
       LET f == Named(Planned.fields, n) IN TypesParse(f) /\ ~DefaultFails(f)

Widens(s) ==
    \A n \in Changed(s) :
       /\ Named(Planned.fields, n).type # NoType
       /\ LET new == Printed(Named(Planned.fields, n).type)
          IN  new = Named(s.fields, n).type \/ <<Named(s.fields, n).type, new>> \in CanWiden

(* Every check comes before the commit.                                    *)
Staged(s) ==
    /\ Convertible(s) /\ ~NestedRefused(s) /\ Widens(s)
    /\ PropChangesAllowed(s.props, config.props, config.ignore)

UpdatedColumn(s, c) ==
    LET f == StoredType(Named(Planned.fields, c.name))
    IN  IF c.name \in Changed(s)
        THEN [c EXCEPT !.type = f.type, !.attrs = f.attrs, !.default = StoredDefault(f)]
        ELSE c

(* Kept columns stay in place; new ones follow in any order.               *)
UpdatedTables(s) ==
    LET names == ColumnNames(Planned.fields)
        old   == Pick(table.columns, {i \in DOMAIN table.columns : table.columns[i].name \in names})
        kept  == [i \in DOMAIN old |-> UpdatedColumn(s, old[i])]
        new(order) == [m \in DOMAIN order |-> Named(Planned.fields, order[m])]
    IN  {[table EXCEPT !.columns = kept \o AddedColumns(new(order), table.last),
                       !.last = @ + Cardinality(NewPlaces(new(order)))] :
            order \in SetToSeqs(Added(s))}

Committed(s) ==
    {IF Creatable(t.columns, table.props) THEN t ELSE table : t \in UpdatedTables(s)}

ApplyRefused ==
    /\ Updates(Refreshed) /\ ~Staged(Refreshed)
    /\ IF Convertible(Refreshed) /\ NestedRefused(Refreshed)
       THEN End("nested", Refreshed, StateIDs(config.fields, Refreshed))
       ELSE End("refused", Refreshed, Warning)
    /\ UNCHANGED <<table, tainted>>

(* fieldsEqual also compares the precision of numbers, which depends on    *)
(* how Terraform encoded them.                                             *)
MayMatch(fields) == fields = Planned.fields
MayDiffer(fields) ==
    fields # Planned.fields \/ \E i \in DOMAIN fields : "number" \in DOMAIN fields[i].defaults

(* The reloaded table becomes the state; Terraform compares it with the    *)
(* plan.                                                                   *)
ApplyUpdate ==
    /\ Updates(Refreshed) /\ Staged(Refreshed)
    /\ table' \in Committed(Refreshed)
    /\ LET s == View(table', config.ignore, config.props)
       IN  /\ MayMatch(s.fields)
           /\ End(IF s = Planned THEN "updated" ELSE "inconsistent", s, Warning)
    /\ UNCHANGED tainted

(* The wait for the planned fields ends without finding them.              *)
ApplyUnrecognised ==
    /\ Updates(Refreshed) /\ Staged(Refreshed)
    /\ table' \in Committed(Refreshed)
    /\ MayDiffer(SchemaToFieldModels(table'.columns))
    /\ End("failed", Refreshed, Warning)
    /\ UNCHANGED tainted

Destroy ==
    /\ config = Absent /\ state # Absent
    /\ table' = Absent /\ tainted' = FALSE
    /\ End("destroyed", Absent, NoMessage)

Apply == ApplyInvalid \/ ApplyUnchanged \/ ApplyCreate \/ ApplyCreateFails
            \/ ApplyRefused \/ ApplyUpdate \/ ApplyUnrecognised \/ Destroy
------------------------------------------------------------------------------
Reset == outcome' = "none" /\ told' = NoMessage

Edit ==
    /\ edits < MaxEdits /\ edits' = edits + 1
    /\ \/ config' \in Configs \cup {Absent} /\ config' # config
       \/ /\ config # Absent
          /\ \E f \in Additions :
                /\ f.name \notin ColumnNames(config.fields)
                /\ config' = [config EXCEPT !.fields = Append(@, f)]
    /\ Reset
    /\ cured' = FALSE /\ hinted' = FALSE /\ settled' = FALSE
    /\ UNCHANGED <<state, tainted, table, imported, writes>>

(* What is nested, here or in the state, is in the state but for its IDs.  *)
WithoutIDs(f) == [f EXCEPT !.block.ids = <<>>]
OnlyIDsDiffer(fields, s) ==
    LET nested(n) == \E g \in ToSet(s.fields) : g.name = n /\ g.block # NoBlock
    IN  \A f \in ToSet(fields) :
           f.block # NoBlock \/ nested(f.name) =>
              \E g \in ToSet(s.fields) : WithoutIDs(g) = WithoutIDs(f)

(* Types are given, no ID is pinned twice and no map half.                 *)
WellMade(fields) ==
    /\ \A i \in DOMAIN fields : TypeGiven(fields[i]) /\ ~IsHalfPinned(fields[i].block)
    /\ \A p, q \in Slots(fields) \ Unset(fields) : ID(fields, p) = ID(fields, q) => p = q

(* The user writes the IDs that the last message tells.                    *)
Follow ==
    /\ told # NoMessage /\ told # config.fields
    /\ config' = [config EXCEPT !.fields = told]
    /\ cured' = (outcome = "nested" /\ OnlyIDsDiffer(told, state))
    /\ hinted' = (outcome = "invalid" /\ WellMade(config.fields))
    /\ Reset
    /\ settled' = FALSE
    /\ UNCHANGED <<state, tainted, table, imported, edits, writes>>

(* A property whose change the user is to notice.                          *)
Tracked(n) ==
    config # Absent /\ n \notin config.ignore
    /\ (n \in AutoIgnoredProps => n \in Declared(config.props))

Written(props, n, v) == [x \in DOMAIN props \cup {n} |-> IF x = n THEN v ELSE props[x]]

EngineWrites ==
    /\ table # Absent /\ writes < MaxWrites /\ writes' = writes + 1
    /\ \E w \in Writes :
          /\ table' = [table EXCEPT !.props = Written(@, w[1], w[2])]
          /\ settled' = (settled /\ ~Tracked(w[1]))
          /\ outcome' = IF Tracked(w[1]) THEN "none" ELSE outcome
    /\ UNCHANGED <<config, state, tainted, told, cured, hinted, imported, edits>>

(* ImportState sets the four identifying attributes; Read does the rest,   *)
(* without ignore_properties and without declared properties.              *)
Import ==
    /\ config # Absent /\ table # Absent /\ Loadable(table) /\ ~imported
    /\ writes < MaxWrites /\ writes' = writes + 1
    /\ state' = View(table, {}, <<>>)
    /\ tainted' = FALSE
    /\ imported' = TRUE
    /\ Reset
    /\ UNCHANGED <<config, table, cured, hinted, settled, edits>>

Init ==
    /\ config \in Configs
    /\ state = Absent /\ tainted = FALSE /\ table = Absent
    /\ outcome = "none" /\ told = NoMessage
    /\ cured = FALSE /\ hinted = FALSE /\ settled = FALSE /\ imported = FALSE
    /\ edits = 0 /\ writes = 0

Next == Apply \/ Edit \/ Follow \/ EngineWrites \/ Import

Spec == Init /\ [][Next]_vars
------------------------------------------------------------------------------
(* The steps of Apply: all others edit, follow a message, write or import. *)
Ran == UNCHANGED <<config, edits, writes>>

(* Beyond types: a table never has two columns or nested parts with the    *)
(* same ID, or one beyond its counter: what resolveNestedIDs and           *)
(* complementFieldIDs number is unique as a whole.                         *)
ColumnIDs(columns) == [i \in DOMAIN columns |-> columns[i].id]

IDsUnique(columns, last) ==
    /\ \A i, j \in DOMAIN columns : columns[i].id = columns[j].id => i = j
    /\ \A p \in Places(columns) : ID(columns, p) \notin ToSet(ColumnIDs(columns))
    /\ \A p, q \in Places(columns) : ID(columns, p) = ID(columns, q) => p = q
    /\ \A id \in ToSet(ColumnIDs(columns)) \cup Pinned(columns) : id \in Int /\ id <= last

TypeOK ==
    /\ outcome \in Good \cup {"none", "invalid", "inconsistent", "failed", "refused", "nested",
                              "destroyed"}
    /\ tainted => state # Absent
    /\ table # Absent => IDsUnique(table.columns, table.last)

(* A run that reports success, or nothing to do, left the table with what  *)
(* the configuration says: columns, types, defaults (as far as a float64   *)
(* tells), every pinned ID, every declared property and the version.       *)
SaysField(f, c) ==
    /\ c.name = f.name /\ c.type = f.type /\ c.attrs = f.attrs
    /\ ReadDefault(c.default) = f.defaults
    /\ c.block.kind = f.block.kind /\ c.block.parts = f.block.parts
    /\ \A k \in DOMAIN f.block.ids : f.block.ids[k] \in {Null, c.block.ids[k]}

SuccessMeansStored ==
    outcome \in Good =>
        /\ Len(table.columns) = Len(config.fields)
        /\ \A i \in DOMAIN config.fields : SaysField(config.fields[i], table.columns[i])
        /\ \A n \in Declared(config.props) :
              n \in DOMAIN table.props /\ table.props[n] = ByName(config.props)[n].value
        /\ table.version = config.version

(* Once a run has succeeded, further runs find nothing to do, whatever     *)
(* engines write that the configuration does not declare or has ignored.   *)
SettledStaysSettled ==
    [][Ran /\ settled /\ ~imported => outcome' = "unchanged"]_vars

(* An import of a table that the configuration made ends well at the next  *)
(* run, if no nested ID is left to the provider, no property ignored and   *)
(* no default is a number.                                                 *)
NoNumbers(fields) == \A i \in DOMAIN fields : "number" \notin DOMAIN fields[i].defaults

ImportConverges ==
    [][Ran /\ settled /\ imported
          /\ Unset(config.fields) = {} /\ config.ignore = {} /\ NoNumbers(config.fields)
          => outcome' \in Good]_vars

(* The refusal of a nested column can be cured as its message says: with   *)
(* the IDs it tells, the update is not refused again because of IDs, how-  *)
(* ever many runs follow.                                                  *)
RefusalIsCurable == [][Ran /\ cured => outcome' # "nested"]_vars

(* A configuration completed as the hint says is valid, unless it pins one *)
(* ID twice or half a map; and the hint changes none of its pins.          *)
HintIsValid ==
    [][/\ Ran /\ hinted => outcome' # "invalid"
       /\ hinted' /\ ~hinted =>
             \A p \in Slots(config.fields) :
                ID(config.fields, p) \in {Null, ID(config'.fields, p)}]_vars

(* An update is refused for its properties only if one really differs from *)
(* the table's: declared and not there, there and not declared, or of      *)
(* another value - where JSON counts by what it means, not how it is       *)
(* written - and not because of what is ignored or engines write.  (A      *)
(* property that the state still ignores counts as not there, and so does  *)
(* the format version, which is never read back.)                          *)
SameValue(p, v) ==
    IF p.type = "json" \/ NoJSON \notin {p.value.json, v.json}
    THEN v.json # NoJSON /\ p.value.json = v.json
    ELSE p.value.text = v.text

DiffersFromTable(n) ==
    /\ n \notin config.ignore
    /\ IF n \in Declared(config.props)
       THEN \/ n \notin DOMAIN table.props \/ n = "format-version" \/ n \in state.ignore
            \/ ~SameValue(ByName(config.props)[n], table.props[n])
       ELSE n \in DOMAIN table.props \ AutoIgnoredProps

RefusalHasReason ==
    [][Ran /\ outcome' = "refused" /\ Added(Refreshed) \cup Changed(Refreshed) = {}
          => \E n \in ToSet(PropOrder) : DiffersFromTable(n)]_vars

(* A configuration that says what the table is, with every nested ID, is   *)
(* applied without an error from whatever state earlier runs left, unless  *)
(* the resource is tainted and replaced, or the configuration declares a   *)
(* property that the state still ignores or a number.                      *)
DescribesTable ==
    /\ config # Absent /\ table # Absent /\ state # Absent /\ ~tainted
    /\ config = View(table, config.ignore, config.props)
    /\ Declared(config.props) \cap state.ignore = {}
    /\ NoNumbers(config.fields)

FaithfulConfigApplies == [][Ran /\ DescribesTable => outcome' \in Good]_vars
==============================================================================
