------------------------------- MODULE S3Table -------------------------------
(***************************************************************************)
(* The life of one bai_s3tables_table resource (s3_table_resource.go): the *)
(* user edits the configuration, Terraform refreshes, plans and applies,   *)
(* an update loads the table, stages the difference between state and      *)
(* plan, commits it and reloads until the catalog shows the plan.          *)
(*                                                                         *)
(* The catalog keeps every version of the table in log.  A load may return *)
(* an older version than the last one, but never one older than the        *)
(* provider has seen.  Other writers may change or drop the table.         *)
(*                                                                         *)
(* A model (configuration, plan or state) is a sequence of columns [name,  *)
(* def] and a sequence of partition fields [name, source].  All the        *)
(* attributes of a column but its name are one value, def; properties and  *)
(* nested field IDs are not in this module.                                *)
(***************************************************************************)
EXTENDS Integers, Sequences, SequencesExt, Selection

CONSTANTS
    Configs,      \* the models the user may write
    CanBecome,    \* the pairs <<old, new>> of defs a column may be updated by
    Stranger,     \* a column that other writers may add
    MaxRetries,   \* refreshMaxRetries
    MaxStale,     \* bound: loads that return an old version
    MaxEdits,     \* bound: edits of the configuration
    MaxDrift,     \* bound: changes by other writers
    MaxFaults     \* bound: lost calls, cancellations and crashes

ASSUME BoundsAssumption ==
    {MaxRetries, MaxStale, MaxEdits, MaxDrift, MaxFaults} \subseteq Nat

(* Columns and partition fields are known by their names; a table with two *)
(* of one name is refused by Iceberg.                                      *)
Distinct(s) == \A i, j \in DOMAIN s : s[i].name = s[j].name => i = j

IsColumn(c) == c = [name |-> c.name, def |-> c.def]

IsModel(m) ==
    /\ m = [fields |-> m.fields, parts |-> m.parts]
    /\ IsList(m.fields) /\ Distinct(m.fields)
    /\ \A i \in DOMAIN m.fields : IsColumn(m.fields[i])
    /\ IsList(m.parts) /\ Distinct(m.parts)

ASSUME ModelAssumption ==
    /\ \A m \in Configs : IsModel(m)
    /\ IsColumn(Stranger)

Absent == [absent |-> TRUE]   \* no resource; no table

VARIABLES
    config,       \* what the user wrote, or Absent
    state,        \* what Terraform stores, or Absent
    plan,         \* the plan being applied
    log,          \* the versions of the table, or Absent where it is dropped
    foreign,      \* history: the versions made by other writers
    seen,         \* the version the provider loaded last
    shown,        \* history: the version that the last plan was made from
    pc,           \* where in Create, Update or Delete the provider is
    base,         \* the version that the last change started from
    staged,       \* the version that the transaction commits
    attempt,      \* attempt of refreshUntilConsistent
    outcome,      \* how the last run with this configuration ended
    stale, edits, drifts, faults

vars == <<config, state, plan, log, foreign, seen, shown, pc, base, staged, attempt,
          outcome, stale, edits, drifts, faults>>
bounds == <<edits, drifts, faults>>

Current == Last(log)

Names(s)  == {s[i].name : i \in DOMAIN s}
Get(s, n) == s[CHOOSE i \in DOMAIN s : s[i].name = n]

(* setModelFromTable: what a version of the table looks like as a model.   *)
View(v) ==
    [fields |-> [i \in DOMAIN v.fields |->
                    [name |-> v.fields[i].name, def |-> v.fields[i].def]],
     parts  |-> v.parts]

(* Where a list has other names than those of a set.                       *)
Without(s, names) == {i \in DOMAIN s : s[i].name \notin names}

(* The differences between two lists that are compared by name.            *)
Removed(old, new) == Names(old) \ Names(new)
Added(old, new)   == Names(new) \ Names(old)
Changed(old, new) == {n \in Names(old) \cap Names(new) : Get(old, n) # Get(new, n)}

Columns(fields, first) ==
    [i \in DOMAIN fields |->
        [name |-> fields[i].name, def |-> fields[i].def, id |-> first + i - 1]]

Init ==
    /\ config \in {c \in Configs : c.fields # <<>>}
    /\ state = Absent /\ plan = Absent
    /\ log = <<Absent>> /\ foreign = {}
    /\ seen = 1 /\ shown = 1
    /\ pc = "idle"
    /\ base = 1 /\ staged = Absent
    /\ attempt = 0
    /\ outcome = "none"
    /\ stale = 0 /\ edits = 0 /\ drifts = 0 /\ faults = 0
------------------------------------------------------------------------------
(* A load returns one of the versions since the last one seen.             *)
Loads(i) ==
    /\ i \in seen .. Len(log)
    /\ i < Len(log) => stale < MaxStale
    /\ seen' = i
    /\ stale' = IF i < Len(log) THEN stale + 1 ELSE stale

Fault == faults < MaxFaults /\ faults' = faults + 1 /\ UNCHANGED <<edits, drifts>>

(* The run ends; the state it leaves is said by the action.                *)
End(result) == pc' = "idle" /\ outcome' = result /\ plan' = Absent

Transaction == <<base, staged, attempt>>

Edit ==
    /\ pc = "idle" /\ edits < MaxEdits
    /\ edits' = edits + 1
    /\ config' \in Configs \cup {Absent} /\ config' # config
    /\ outcome' = "none"
    /\ UNCHANGED <<state, plan, log, foreign, shown, seen, pc, Transaction, stale, drifts, faults>>

(* Another writer drops a column that no partition field uses, adds one,   *)
(* or drops the table.                                                     *)
Drift ==
    /\ drifts < MaxDrift /\ drifts' = drifts + 1
    /\ Current # Absent
    /\ \E v \in {Absent}
               \cup {[Current EXCEPT !.fields = Pick(@, Without(@, {n}))] :
                       n \in Names(Current.fields)
                                \ {Current.parts[i].source : i \in DOMAIN Current.parts}}
               \cup {[Current EXCEPT !.fields = @ \o Columns(<<Stranger>>, Current.next),
                                     !.next = @ + 1] :
                       s \in {Stranger.name} \ Names(Current.fields)} :
          log' = Append(log, v)
    /\ foreign' = foreign \cup {Len(log')}
    /\ UNCHANGED <<config, state, plan, seen, shown, pc, Transaction, outcome, stale, edits, faults>>

(* terraform apply: Read refreshes the state - a table that is gone takes  *)
(* the resource out of it - and the difference to the configuration says   *)
(* what to do.                                                             *)
Action(c, s) ==
    IF c = s THEN "idle"
    ELSE IF s = Absent THEN "create"
    ELSE IF c = Absent THEN "delete"
    ELSE "update"

Begin ==
    /\ pc = "idle"
    /\ IF state = Absent
       THEN state' = state /\ UNCHANGED <<seen, stale>>
       ELSE \E i \in seen .. Len(log) :
               Loads(i) /\ state' = IF log[i] = Absent THEN Absent ELSE View(log[i])
    /\ pc' = Action(config, state')
    /\ plan' = IF pc' = "idle" THEN Absent ELSE config
    /\ outcome' = IF pc' = "idle" THEN "unchanged" ELSE "none"
    /\ shown' = seen'
    /\ UNCHANGED <<config, log, foreign, Transaction, bounds>>
------------------------------------------------------------------------------
(* Create: the table is made as planned and its answer becomes the state;  *)
(* a table that is already there is an error.                              *)
NewTable ==
    [fields |-> Columns(plan.fields, 1), parts |-> plan.parts, next |-> Len(plan.fields) + 1]

Create ==
    /\ pc = "create" /\ Current = Absent
    /\ log' = Append(log, NewTable)
    /\ seen' = Len(log') /\ base' = Len(log')
    /\ state' = View(Last(log'))
    /\ End("created")
    /\ UNCHANGED <<config, foreign, shown, staged, attempt, stale, bounds>>

CreateExists ==
    /\ pc = "create" /\ Current # Absent
    /\ End("failed")
    /\ UNCHANGED <<config, state, log, foreign, shown, seen, Transaction, stale, bounds>>

(* CreateTable, the conversion of its answer or the write of the state     *)
(* fails: the table may be there, the resource is not in the state.        *)
CreateFails ==
    /\ pc = "create" /\ Fault
    /\ log' = log \/ (Current = Absent /\ log' = Append(log, NewTable))
    /\ End("failed")
    /\ UNCHANGED <<config, state, foreign, shown, seen, Transaction, stale>>
------------------------------------------------------------------------------
Deletes_FromTable ==
    IF Current = Absent THEN {} ELSE Names(Current.fields) \ Names(plan.fields)
(* ApplySchemaChanges: the columns to delete, update and add are computed  *)
(* from the state and applied to the columns of the loaded table.          *)
Deletes == Removed(state.fields, plan.fields)
Updates == Changed(state.fields, plan.fields)
Adds    == Added(state.fields, plan.fields)

SchemaStages(columns) ==
    /\ Deletes \cup Updates \subseteq Names(columns)
    /\ Adds \cap Names(columns) = {}
    /\ \A n \in Updates : <<Get(columns, n).def, Get(plan.fields, n).def>> \in CanBecome

(* Kept columns stay where they are; added ones follow in any order, the   *)
(* order in which Go walks over a map.                                     *)
NewColumns(table) ==
    LET kept == Pick(table.fields, Without(table.fields, Deletes))
    IN  {[i \in DOMAIN kept |->
             IF kept[i].name \in Updates
             THEN [kept[i] EXCEPT !.def = Get(plan.fields, kept[i].name).def]
             ELSE kept[i]]
         \o Columns([i \in DOMAIN order |-> Get(plan.fields, order[i])], table.next) :
            order \in SetToSeqs(Adds)}

(* ApplyPartitionChanges: a changed field is removed and added again.      *)
PartDeletes == Removed(state.parts, plan.parts) \cup Changed(state.parts, plan.parts)
PartAdds    == Added(state.parts, plan.parts) \cup Changed(state.parts, plan.parts)

PartsStage(table, columns) ==
    /\ PartDeletes \subseteq Names(table.parts)
    /\ PartAdds \cap (Names(table.parts) \ PartDeletes) = {}
    /\ \A n \in PartAdds : Get(plan.parts, n).source \in Names(columns)

NewParts(table) ==
    LET kept == Pick(table.parts, Without(table.parts, PartDeletes))
    IN  {kept \o [i \in DOMAIN order |-> Get(plan.parts, order[i])] :
            order \in SetToSeqs(PartAdds)}

(* What must hold for the update to get as far as its commit.              *)
Stageable(table) ==
    /\ table # Absent
    /\ plan.fields # <<>>
    /\ SchemaStages(table.fields)

(* Update up to the commit: load, refuse to remove every column, stage.    *)
Stage ==
    /\ pc = "update"
    /\ \E i \in seen .. Len(log) :
          /\ Loads(i)
          /\ Stageable(log[i])
          /\ \E columns \in NewColumns(log[i]) :
                /\ PartsStage(log[i], columns)
                /\ \E parts \in NewParts(log[i]) :
                      staged' = [fields |-> columns, parts |-> parts,
                                 next |-> log[i].next + Cardinality(Adds)]
          /\ base' = i
    /\ pc' = "commit"
    /\ UNCHANGED <<config, state, plan, log, foreign, shown, attempt, outcome, bounds>>

StageFails ==
    /\ pc = "update"
    /\ \E i \in seen .. Len(log) :
          /\ Loads(i)
          /\ Stageable(log[i]) => \A columns \in NewColumns(log[i]) : ~PartsStage(log[i], columns)
    /\ End("failed")
    /\ UNCHANGED <<config, state, log, foreign, shown, Transaction, bounds>>

(* A transaction with nothing staged is not sent.  The catalog takes one   *)
(* only if nobody has changed the table since it was loaded.  Whether the  *)
(* answer is an error makes no difference to what Update does next.        *)
Nothing == Deletes \cup Updates \cup Adds \cup PartDeletes \cup PartAdds = {}

CommitLands_Unchecked ==
    /\ pc = "commit"
    /\ log' = IF Nothing THEN log ELSE Append(log, staged)
    /\ pc' = "verify" /\ attempt' = 0
    /\ UNCHANGED <<config, state, plan, foreign, shown, seen, base, staged, outcome, stale, bounds>>
CommitLands ==
    /\ pc = "commit"
    /\ IF Nothing THEN UNCHANGED log
       ELSE base = Len(log) /\ log' = Append(log, staged)
    /\ pc' = "verify" /\ attempt' = 0
    /\ UNCHANGED <<config, state, plan, foreign, shown, seen, base, staged, outcome, stale, bounds>>

CommitRefused ==
    /\ pc = "commit" /\ ~Nothing /\ base # Len(log)
    /\ pc' = "verify" /\ attempt' = 0
    /\ UNCHANGED <<config, state, plan, log, foreign, shown, seen, base, staged, outcome, stale, bounds>>

CommitLost ==
    /\ pc = "commit" /\ ~Nothing /\ Fault
    /\ pc' = "verify" /\ attempt' = 0
    /\ UNCHANGED <<config, state, plan, log, foreign, shown, seen, base, staged, outcome, stale>>
------------------------------------------------------------------------------
(* fieldsEqual compares by position, partitionsMatch by name.              *)
Shows(v, model) ==
    /\ v # Absent
    /\ View(v).fields = model.fields
    /\ Len(v.parts) = Len(model.parts) /\ ToSet(v.parts) = ToSet(model.parts)
Matches(v) == Shows(v, plan)

(* The state after an update is what was loaded.                           *)
Result(v) == View(v)

(* refreshUntilConsistent: the loaded model becomes the state.  Terraform  *)
(* reports a state that differs from the plan as inconsistent.             *)
Verify ==
    /\ pc = "verify"
    /\ \E i \in seen .. Len(log) :
          /\ Loads(i)
          /\ Matches(log[i])
          /\ state' = Result(log[i])
    /\ End(IF state' = plan THEN "updated" ELSE "inconsistent")
    /\ UNCHANGED <<config, log, foreign, shown, Transaction, bounds>>

Again_NotLast(n) == n + 1 < MaxRetries
Again_OneMore(n) == n <= MaxRetries
Again(n) == n < MaxRetries

TryAgain_Uncounted ==
    IF Again(attempt)
    THEN UNCHANGED <<attempt, pc, outcome, plan>>
    ELSE attempt' = attempt /\ End("failed")
TryAgain_GivesIn ==
    IF Again(attempt)
    THEN attempt' = attempt + 1 /\ UNCHANGED <<pc, outcome, plan>>
    ELSE attempt' = attempt /\ End("updated")
TryAgain ==
    IF Again(attempt)
    THEN attempt' = attempt + 1 /\ UNCHANGED <<pc, outcome, plan>>
    ELSE attempt' = attempt /\ End("failed")

VerifyDiffers ==
    /\ pc = "verify"
    /\ \E i \in seen .. Len(log) : Loads(i) /\ ~Matches(log[i])
    /\ TryAgain
    /\ UNCHANGED <<config, state, log, foreign, shown, base, staged, bounds>>

VerifyFails ==
    /\ pc = "verify" /\ Fault
    /\ TryAgain
    /\ UNCHANGED <<config, state, log, foreign, shown, seen, base, staged, stale>>
------------------------------------------------------------------------------
(* Delete: PurgeTable; a table that is not found counts as deleted.        *)
Delete ==
    /\ pc = "delete"
    /\ log' = IF Current = Absent THEN log ELSE Append(log, Absent)
    /\ seen' = Len(log')
    /\ state' = Absent
    /\ End("deleted")
    /\ UNCHANGED <<config, foreign, shown, Transaction, stale, bounds>>

DeleteFails ==
    /\ pc = "delete" /\ Fault
    /\ log' = log \/ (Current # Absent /\ log' = Append(log, Absent))
    /\ End("failed")
    /\ UNCHANGED <<config, state, foreign, shown, seen, Transaction, stale>>

(* The provider is killed, or cancelled while it waits, or cannot load the *)
(* table to update.                                                        *)
Crash ==
    /\ pc # "idle" /\ Fault
    /\ End("failed")
    /\ UNCHANGED <<config, state, log, foreign, shown, seen, Transaction, stale>>

Update   == Stage \/ StageFails \/ CommitLands \/ CommitRefused \/ CommitLost
                \/ Verify \/ VerifyDiffers \/ VerifyFails
Provider == Create \/ CreateExists \/ CreateFails \/ Update \/ Delete \/ DeleteFails
Next == Edit \/ Drift \/ Begin \/ Provider \/ Crash

Spec     == Init /\ [][Next]_vars
FairSpec == Spec /\ WF_vars(Provider)
------------------------------------------------------------------------------
(* Beyond types: no version numbers its columns twice or beyond its        *)
(* counter, or names two columns the same.                                 *)
TypeOK ==
    /\ config \in Configs \cup {Absent}
    /\ plan \in Configs \cup {Absent}
    /\ seen \in DOMAIN log /\ base \in DOMAIN log /\ foreign \subseteq DOMAIN log
    /\ \A v \in ToSet(log) \ {Absent} :
          \A i, j \in DOMAIN v.fields :
             /\ v.fields[i].id < v.next
             /\ i # j => v.fields[i].id # v.fields[j].id /\ v.fields[i].name # v.fields[j].name
    /\ pc \in {"idle", "create", "update", "commit", "verify", "delete"}
    /\ attempt \in 0 .. MaxRetries
    /\ outcome \in {"none", "created", "updated", "inconsistent", "unchanged", "deleted", "failed"}

(* A create or update that reports success left the table as configured,   *)
(* but for the order of its partition fields, whether or not its commit    *)
(* was answered, whatever versions the loads returned and whatever earlier *)
(* runs left behind - unless another writer changed the table after the    *)
(* load that the update started from, or an earlier delete dropped it but  *)
(* was answered with an error, and loads go on to show the table.          *)
SuccessIsReal ==
    outcome \in {"created", "updated"} /\ foreign \cap (base + 1 .. Len(log)) = {}
        => Shows(Current, config) \/ (Current = Absent /\ faults > 0)

(* The columns of a version by what stays the same of a column.            *)
Identities(v) ==
    IF v = Absent THEN {}
    ELSE {[id |-> v.fields[i].id, name |-> v.fields[i].name] : i \in DOMAIN v.fields}

(* A commit takes out of the table, with its data, only columns of a name  *)
(* that the plan showed as removed, and only the column that was shown:    *)
(* not one that this provider has added since.  One that another writer    *)
(* has put in its place since then goes too, as Update knows columns by    *)
(* their names.                                                            *)
DropsOnlyPlanned ==
    [][CommitLands /\ log' # log =>
          \A c \in Identities(Current) \ Identities(Current') :
             /\ c.name \in Removed(state.fields, plan.fields)
             /\ \/ c \in Identities(log[shown])
                \/ \E i \in foreign :
                      i > shown /\ c \in Identities(log[i]) \ Identities(log[i - 1])]_vars

(* The plan keeps the columns and partition fields of the state in their   *)
(* order and adds at most one of each at the end.                          *)
Extends(old, new) ==
    LET kept == Pick(old, Without(old, Removed(old, new)))
    IN  /\ Cardinality(Added(old, new)) <= 1
        /\ Len(kept) <= Len(new)
        /\ \A i \in DOMAIN kept : new[i].name = kept[i].name

(* The wait is long enough: an update that landed and only extends the     *)
(* table is not reported as failed while the catalog lags by no more loads *)
(* than it is tried again, unless loads fail or another writer interferes. *)
LandedIsRecognised ==
    [][VerifyDiffers /\ outcome' = "failed" /\ Current = staged /\ View(log[base]) = state
          /\ Extends(state.fields, plan.fields) /\ foreign \cap (base + 1 .. Len(log)) = {}
          => stale' > MaxRetries \/ faults' > 0]_vars

(* What a run is to do, and how the last one ended, as S3Promise has it.   *)
Job == IF pc = "idle" THEN Absent ELSE [old |-> state, new |-> plan]

Ending ==
    IF outcome \in {"none", "unchanged"} THEN "none"
    ELSE IF outcome = "failed" THEN "failed"
    ELSE "done"

Promise == INSTANCE S3Promise WITH
    known <- seen, job <- Job, tried <- (pc = "verify"), outcome <- Ending

(* Whatever is loaded, lost, retried or changed by others in between, a    *)
(* run is one atomic change of the table as it is when the change is made, *)
(* of what the plan mentions and nothing else, or none at all, and what it *)
(* reports as applied it has seen.                                         *)
KeepsPromise == Promise!Spec

(* Every run of the provider ends.                                         *)
ProviderReturns == pc # "idle" ~> pc = "idle"

(* README: columns can be added without recreating the table - a landed    *)
(* update that keeps all columns of the state and adds others is not       *)
(* reported as failed when the catalog answers every load at once.         *)
ColumnsCanBeAdded ==
    [][VerifyDiffers /\ outcome' = "failed" /\ Current = staged /\ stale' = 0 /\ faults' = 0
          => ~(Deletes = {} /\ Updates = {} /\ Adds # {})]_vars

(* s3_table_resource.go:585: a table must keep at least one column.        *)
KeepsAColumn ==
    [][CommitLands /\ log' # log => Current'.fields # <<>>]_vars

(* README: partition fields can be added without recreating the table - an *)
(* update that keeps all partition fields and adds others leaves the state *)
(* that Terraform planned.                                                 *)
PartitionFieldsCanBeAdded ==
    [][Verify /\ PartDeletes = {} /\ PartAdds # {} => outcome' = "updated"]_vars
==============================================================================
