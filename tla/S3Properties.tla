---------------------------- MODULE S3Properties ----------------------------
(***************************************************************************)
(* The property blocks of a table (s3_table_resource.go): what is sent to  *)
(* the catalog, which of the table's properties are read back, and which   *)
(* differences between state and plan are an error.                        *)
(*                                                                         *)
(* A declared property is [name, value, type] with type "text" or "json";  *)
(* a value is [text, json], json telling what the text means as JSON, or   *)
(* Null if it is not JSON.  The properties of a table are a function from  *)
(* names to values.                                                        *)
(***************************************************************************)
EXTENDS Integers, Sequences, FiniteSets, SequencesExt, Functions, Selection

CONSTANTS
    PropOrder,    \* the names of properties, sorted
    Injected,     \* autoIgnoredProps with a default: from names to values
    EngineKeys,   \* autoIgnoredProps without one: written by query engines
    NoJSON        \* what a text that is not JSON means

ASSUME OrderAssumption ==
    /\ IsList(PropOrder)
    /\ \A i, j \in DOMAIN PropOrder : PropOrder[i] = PropOrder[j] => i = j

AutoIgnoredProps == DOMAIN Injected \cup EngineKeys

Declared(props) == {props[i].name : i \in DOMAIN props}

(* Maps built from a list keep the last of several entries for a name.     *)
ByName(props) ==
    [n \in Declared(props) |->
        props[CHOOSE i \in DOMAIN props :
                 props[i].name = n /\ \A j \in i + 1 .. Len(props) : props[j].name # n]]

(* BuildProperties: defaults are added unless the user overrides them.     *)
VersionSupported(version) == version \in {"2", "3"}

BuildProperties(props, version) ==
    LET declared == [n \in Declared(props) |-> ByName(props)[n].value]
        stored   == declared @@ Injected
    IN  IF version = "3" THEN ("format-version" :> [text |-> "3", json |-> "3"]) @@ stored
        ELSE stored

(* setModelFromTable, propertiesToPropertyModels: sorted by name, always   *)
(* of type text; what is ignored is left out, and so is what S3 Tables and *)
(* engines write unless the model had it before.                           *)
Visible_AllOnceDeclared(n, ignore, before) ==
    /\ n # "format-version" /\ n \notin ignore
    /\ n \in AutoIgnoredProps => Declared(before) \cap AutoIgnoredProps # {}
Visible(n, ignore, before) ==
    /\ n # "format-version"
    /\ n \notin ignore
    /\ n \in AutoIgnoredProps => n \in Declared(before)

ReadBack(table, ignore, before) ==
    {i \in DOMAIN PropOrder :
        PropOrder[i] \in DOMAIN table /\ Visible(PropOrder[i], ignore, before)}

PropertiesToPropertyModels(table, ignore, before) ==
    LET names == Pick(PropOrder, ReadBack(table, ignore, before))
    IN  [i \in DOMAIN names |-> [name |-> names[i], value |-> table[names[i]], type |-> "text"]]

(* checkPropValueEqual: JSON is compared by what it means.                 *)
PropValueEqual_Text(state, plan, type) == state.text = plan.text
PropValueEqual(state, plan, type) ==
    IF state.json # NoJSON /\ plan.json # NoJSON
    THEN state.json = plan.json
    ELSE type # "json" /\ state.text = plan.text

(* checkPropChanges: properties cannot be changed.  A property that the    *)
(* engines write counts only if it is planned, and may be missing from the *)
(* state.                                                                  *)
EffectiveState_Ignored(state, plan, ignore) ==
    {n \in Declared(state) : n \in AutoIgnoredProps => n \in Declared(plan)}
EffectiveState(state, plan, ignore) ==
    {n \in Declared(state) \ ignore : n \in AutoIgnoredProps => n \in Declared(plan)}
EffectivePlan(plan, ignore) == Declared(plan) \ ignore

PropChangesAllowed_NoBootstrap(state, plan, ignore) ==
    /\ EffectivePlan(plan, ignore) = EffectiveState(state, plan, ignore)
    /\ \A n \in EffectivePlan(plan, ignore) :
          PropValueEqual(ByName(state)[n].value, ByName(plan)[n].value, ByName(plan)[n].type)
PropChangesAllowed(state, plan, ignore) ==
    /\ \A n \in EffectivePlan(plan, ignore) :
          IF n \in EffectiveState(state, plan, ignore)
          THEN PropValueEqual(ByName(state)[n].value, ByName(plan)[n].value, ByName(plan)[n].type)
          ELSE n \in AutoIgnoredProps
    /\ EffectiveState(state, plan, ignore) \subseteq EffectivePlan(plan, ignore)
==============================================================================
