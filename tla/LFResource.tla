------------------------------ MODULE LFResource ------------------------------
(***************************************************************************)
(* The life of one bai_lakeformation_permissions resource: the user edits  *)
(* its configuration, Terraform refreshes, plans and applies, the provider *)
(* walks over the catalog, database, table and wildcard blocks, and other  *)
(* administrators change permissions at AWS meanwhile.                     *)
(*                                                                         *)
(* A model (configuration, plan or state) maps every block to its pair     *)
(* [P, G] of permission attributes, or to Absent.  applyResource on one    *)
(* block is one step here: a success reaches the plan, up to the grant     *)
(* options that AWS refuses to revoke, and a failure stops anywhere on the *)
(* way, which is what LFApply shows of it.                                 *)
(***************************************************************************)
EXTENDS LFPermissions, Sequences, Integers

CONSTANTS
    Order,        \* the blocks, in the order the provider walks over them
    Parent,       \* Parent[r]: the database block that r is written in, or r
    Wildcards,    \* the wildcard blocks; other nested blocks are tables
    Absent,       \* the value of a block that is not there
    Written,      \* the models the user may write, accepted or not
    Holdings,     \* what AWS may hold at the start, on all blocks
    Pinned,       \* permissions granted as SUPER_USER: grant option is fixed
    MaxEdits,     \* bound: edits of the configuration
    MaxDrift,     \* bound: changes at AWS by somebody else
    MaxFaults     \* bound: applies that fail

Res    == {Order[i] : i \in 1 .. Len(Order)}
Nested == {r \in Res : Parent[r] # r}

VARIABLES
    config,       \* what the user wrote, or Absent when the resource is removed
    state,        \* what Terraform stores, or Absent
    plan,         \* the plan being applied
    aws,          \* aws[r]: the pair the principal holds on r
    op,           \* "idle", "create", "update" or "delete"
    at,           \* the next block of the walk
    outcome,      \* how the last run with this configuration ended
    drifted,      \* history: blocks changed by others since the last refresh
    edits, drifts, faults

vars == <<config, state, plan, aws, op, at, outcome, drifted, edits, drifts, faults>>

Unset == [P |-> Nil, G |-> Nil]
None  == [P |-> {}, G |-> {}]
Model == [Res -> [P : Block, G : Block] \cup {Absent}]
Held  == [Res -> [P : SUBSET Flag, G : SUBSET Flag]]

ASSUME OrderAssumption    == Len(Order) \in Nat
ASSUME AbsentAssumption   == Absent \notin Model \cup [P : Block, G : Block]
ASSUME WrittenAssumption  == Written \subseteq Model
ASSUME PinnedAssumption   == Pinned \subseteq Flag
ASSUME HoldingsAssumption == \A h \in Holdings : h \in Held /\ \A r \in Res : h[r].G \subseteq h[r].P

(* Block r of model m; a block that is not there reads as two nil pointers.*)
Get(m, r) == IF m[r] = Absent THEN Unset ELSE m[r]

Full(perms) == Expand(perms, Flag)
Wanted(pair) == [P |-> Full(PermsToAPI(pair.P)), G |-> Full(PermsToAPI(pair.G))]

(* What ValidateResource accepts.                                          *)
Accepted(m) ==
    /\ \A r \in Res : ValidPair(Get(m, r).P, Get(m, r).G, Flag)
    /\ \A r \in Nested : m[r] # Unset
    /\ \A r \in Nested \ Wildcards, w \in Wildcards :
          Parent[r] = Parent[w] => m[r] = Absent \/ m[w] = Absent

(* A table or wildcard is written inside its database block.               *)
WellFormed(m) == \A r \in Nested : m[r] # Absent => m[Parent[r]] # Absent

Configs == {m \in Written : WellFormed(m) /\ Accepted(m)}

Init ==
    /\ config \in Configs
    /\ state = Absent
    /\ plan = Absent
    /\ aws \in Holdings
    /\ op = "idle" /\ at = 1 /\ outcome = "none"
    /\ drifted = {}
    /\ edits = 0 /\ drifts = 0 /\ faults = 0
------------------------------------------------------------------------------
(* The blocks that Create, Read and Delete act on: a catalog or database   *)
(* with permissions set, and every table and wildcard that is there.       *)
Managed(m) == {r \in Res : m[r] # Absent /\ (r \in Nested \/ m[r].P # Nil)}

(* readPermissions, from the lists that listLFPerms returns.               *)
Refreshed(m) ==
    [r \in Res |->
        IF r \in Managed(m)
        THEN [P |-> RefreshPerms(m[r].P, CollapseImplicitAll(aws[r].P, Flag)),
              G |-> RefreshPerms(m[r].G, CollapseImplicitAll(aws[r].G, Flag))]
        ELSE m[r]]

(* defaultPermissions.                                                     *)
Filled(m) ==
    [r \in Res |->
        IF m[r] = Absent THEN Absent
        ELSE [P |-> FillPerms(m[r].P, m[r].G), G |-> FillGrantable(m[r].P, m[r].G)]]

(* Terraform proposes the prior value of a computed attribute the user     *)
(* left unset; only when the proposal differs from the prior state are     *)
(* these attributes unknown again, and resolveUnknownToNull unsets them.   *)
Proposed(c, s) ==
    LET Prior(new, old) == IF new = Nil THEN old ELSE new
    IN  [r \in Res |->
            IF c[r] = Absent \/ s[r] = Absent THEN c[r]
            ELSE [P |-> Prior(c[r].P, s[r].P), G |-> Prior(c[r].G, s[r].G)]]

(* The blocks updatePermissions applies: those of the plan that differ     *)
(* from the state.  Blocks that only the state has are not visited.        *)
Outdated(s, new) ==
    {r \in Res : NeedsUpdate(Get(s, r).P, Get(new, r).P, Get(s, r).G, Get(new, r).G)}

Targets_NothingToGrant ==
    CASE op = "create" -> {r \in Managed(plan) : plan[r].P # {}}
      [] op = "update" -> Outdated(state, plan)
      [] op = "delete" -> Managed(state)
Targets_NoWildcard ==
    CASE op = "create" -> Managed(plan)
      [] op = "update" -> Outdated(state, plan)
      [] op = "delete" -> Managed(state) \ Wildcards
Targets ==
    CASE op = "create" -> Managed(plan)
      [] op = "update" -> Outdated(state, plan)
      [] op = "delete" -> Managed(state)

Goal(r) == IF op = "delete" THEN None ELSE Wanted(Get(plan, r))

(* ALL on either side: applyDiff revokes all that is held and grants the   *)
(* plan.                                                                   *)
AllPath(r) ==
    \/ ALL \in CollapseImplicitAll(aws[r].P, Flag)
    \/ op # "delete" /\ ALL \in PermsToAPI(Get(plan, r).P)

(* A grant option of a permission that goes is revoked with it; when one   *)
(* of them is pinned AWS answers with a SUPER_USER error and applyDiff     *)
(* fails.                                                                  *)
Blocked(r) ==
    (IF AllPath(r) THEN aws[r].G ELSE aws[r].G \ Goal(r).P) \cap Pinned # {}

(* keepRevokeG: the grant options to be taken from permissions that stay,  *)
(* in one call.  When one of them is pinned that call is answered with the *)
(* same error, and applyDiff leaves all of them and goes on.               *)
KeepRevokeG(r) ==
    IF AllPath(r) THEN {} ELSE (aws[r].G \cap Goal(r).P) \ Goal(r).G
LeftOver(r) == IF KeepRevokeG(r) \cap Pinned # {} THEN KeepRevokeG(r) ELSE {}
------------------------------------------------------------------------------
(* The user edits the configuration or removes the resource from it.       *)
Edit ==
    /\ op = "idle" /\ edits < MaxEdits
    /\ edits' = edits + 1
    /\ config' \in Configs \cup {Absent} /\ config' # config
    /\ outcome' = "none"
    /\ UNCHANGED <<state, plan, aws, op, at, drifted, drifts, faults>>

(* Read refreshes the state (nothing to read before Create).               *)
Read == IF state = Absent THEN Absent ELSE Refreshed(state)

(* terraform apply: refresh, and plan from the refreshed state.  Without a *)
(* difference there is nothing to apply.                                   *)
Start(kind, newPlan) ==
    /\ op = "idle"
    /\ state' = Read
    /\ op' = kind /\ plan' = newPlan /\ at' = 1
    /\ drifted' = {}
    /\ UNCHANGED <<config, aws, edits, drifts, faults>>

StartCreate ==
    /\ config # Absent /\ state = Absent
    /\ Start("create", Filled(config)) /\ outcome' = "none"
StartUpdate ==
    /\ config # Absent /\ state # Absent /\ Proposed(config, Read) # Read
    /\ Start("update", Filled(config)) /\ outcome' = "none"
NoChanges ==
    /\ config # Absent /\ state # Absent /\ Proposed(config, Read) = Read
    /\ Start("idle", Absent) /\ outcome' = "unchanged"
StartDelete ==
    /\ config = Absent /\ state # Absent
    /\ Start("delete", Absent) /\ outcome' = "none"

Run == StartCreate \/ StartUpdate \/ NoChanges \/ StartDelete

(* The next block of the walk needs nothing.                               *)
Skip ==
    /\ op # "idle" /\ at <= Len(Order) /\ Order[at] \notin Targets
    /\ at' = at + 1
    /\ UNCHANGED <<config, state, plan, aws, op, outcome, drifted, edits, drifts, faults>>

(* applyResource succeeds on the next block.                               *)
Apply ==
    /\ op # "idle" /\ at <= Len(Order) /\ Order[at] \in Targets
    /\ LET r == Order[at]
       IN  /\ ~Blocked(r)
           /\ aws' = [aws EXCEPT ![r] = [P |-> Goal(r).P, G |-> Goal(r).G \cup LeftOver(r)]]
    /\ drifted' = drifted \ {Order[at]}
    /\ at' = at + 1
    /\ UNCHANGED <<config, state, plan, op, outcome, edits, drifts, faults>>

(* The walk stops and the state is not written.                            *)
Abandon ==
    /\ op' = "idle" /\ outcome' = "failed" /\ plan' = Absent /\ at' = 1
    /\ UNCHANGED <<config, state, drifted, edits, drifts>>

(* AWS refuses the first revoke of applyDiff with a SUPER_USER error.      *)
Refused ==
    /\ op # "idle" /\ at <= Len(Order) /\ Order[at] \in Targets
    /\ Blocked(Order[at])
    /\ Abandon
    /\ UNCHANGED <<aws, faults>>

(* applyResource fails, or the provider is killed: what was planned may be *)
(* partly there and what was not may be partly gone, but for the pinned    *)
(* grant options.                                                          *)
Fail ==
    /\ op # "idle" /\ at <= Len(Order) /\ Order[at] \in Targets
    /\ faults < MaxFaults /\ faults' = faults + 1
    /\ LET r == Order[at]
       IN  \E P \in SUBSET (aws[r].P \cup Goal(r).P),
              G \in SUBSET (aws[r].G \cup Goal(r).G) :
              /\ aws[r].G \cap Pinned \subseteq G /\ G \subseteq P
              /\ aws' = [aws EXCEPT ![r] = [P |-> P, G |-> G]]
    /\ Abandon

(* Create and Update store the plan, Delete drops the resource.            *)
Finish ==
    /\ op # "idle" /\ at > Len(Order)
    /\ state' = plan
    /\ op' = "idle" /\ plan' = Absent /\ at' = 1
    /\ outcome' = CASE op = "create" -> "created"
                    [] op = "update" -> "updated"
                    [] op = "delete" -> "deleted"
    /\ UNCHANGED <<config, aws, drifted, edits, drifts, faults>>

(* Somebody else changes what the principal holds on one block.            *)
Drift ==
    /\ drifts < MaxDrift /\ drifts' = drifts + 1
    /\ \E r \in Res, P \in SUBSET Flag : \E G \in SUBSET P :
          /\ aws' = [aws EXCEPT ![r] = [P |-> P, G |-> G]]
          /\ aws' # aws
          /\ drifted' = drifted \cup {r}
    /\ UNCHANGED <<config, state, plan, op, at, outcome, edits, faults>>

Walk == Skip \/ Apply \/ Refused \/ Fail \/ Finish
Next == Edit \/ Run \/ Walk \/ Drift

Spec == Init /\ [][Next]_vars
------------------------------------------------------------------------------
Applied == op = "idle" /\ outcome \in {"created", "updated", "unchanged"}

TypeOK ==
    /\ config \in Configs \cup {Absent}
    /\ state \in Model \cup {Absent}
    /\ plan \in Model \cup {Absent}
    /\ aws \in Held /\ \A r \in Res : aws[r].G \subseteq aws[r].P
    /\ op \in {"idle", "create", "update", "delete"}
    /\ at \in 1 .. Len(Order) + 1
    /\ outcome \in {"none", "created", "updated", "unchanged", "deleted", "failed"}
    /\ drifted \subseteq Res

(* After a run that reports success - also one that finds nothing to       *)
(* change - the principal holds everything the configuration declares,     *)
(* whatever earlier runs failed half way and whatever had drifted before   *)
(* the run.                                                                *)
DeclaredIsHeld ==
    Applied => \A r \in Res \ drifted : config[r] # Absent =>
        /\ Wanted(config[r]).P \subseteq aws[r].P
        /\ Wanted(config[r]).G \subseteq aws[r].G

(* The pair held on r is w, but for grant options beyond w that are left   *)
(* because a pinned one is among them.                                     *)
Reached(r, w) ==
    /\ aws[r].P = w.P
    /\ w.G \subseteq aws[r].G
    /\ aws[r].G = w.G \/ (aws[r].G \ w.G) \cap Pinned # {}

(* After a successful Create the principal holds on every managed block    *)
(* exactly the permissions of the plan and all of its grant options,       *)
(* whatever it held before and whatever earlier applies left behind.       *)
(* Grant options beyond the plan are left only where AWS refuses to revoke *)
(* one of them.                                                            *)
CreatedAsPlanned ==
    op = "idle" /\ outcome = "created" =>
        \A r \in Managed(state) \ drifted : Reached(r, Wanted(state[r]))

(* A run that succeeded is followed by one that plans no change, unless    *)
(* something drifted: collapsing, refreshing and filling the pairs agree   *)
(* with what was applied.                                                  *)
NoPerpetualDiff ==
    Applied /\ drifted = {} => Proposed(config, Read) = Read

(* A block whose permissions the configuration leaves unset is never       *)
(* touched at AWS, and neither is one that is not in the resource at all.  *)
UnmanagedUntouched ==
    [][\A r \in Res : Walk /\ aws'[r] # aws[r] =>
          Get(IF op = "delete" THEN state ELSE plan, r) # Unset]_vars

(* Delete succeeds only once nothing is held on any block of the state,    *)
(* after failures and repeats of earlier deletes too.                      *)
DeletedCompletely ==
    [][op = "delete" /\ outcome' = "deleted" =>
          \A r \in Managed(state) \ drifted : aws[r] = None]_vars

(* README: removing a database, table or wildcard block revokes all        *)
(* associated permissions on the next apply.                               *)
RemovedBlockRevoked ==
    [][op = "update" /\ outcome' = "updated" =>
          \A r \in Managed(state) \ drifted : plan[r] = Absent => aws[r] = None]_vars

(* README: where grantable_permissions is omitted, the grant options of    *)
(* the permissions that stay are untouched.                                *)
OmittedGrantableUntouched ==
    [][\A r \in Res :
          Walk /\ op # "delete" /\ config[r] # Absent /\ config[r].G = Nil =>
              aws[r].G \cap aws'[r].P \subseteq aws'[r].G]_vars
==============================================================================
