---------------------------- MODULE LFPermissions ----------------------------
(***************************************************************************)
(* The permission algebra of lakeformation_permissions_resource.go.        *)
(*                                                                         *)
(* A `permissions` or `grantable_permissions` attribute (a pointer to a    *)
(* Permissions struct) is Nil, or the set of its true flags.  A list of    *)
(* permissions exchanged with AWS is the set of its elements: order and    *)
(* repetitions are never observed by the code.                             *)
(*                                                                         *)
(* Here and in the other modules a definition Name_Suffix is a faulty      *)
(* variant of Name, kept to show which property notices the fault.         *)
(***************************************************************************)
EXTENDS FiniteSets

CONSTANTS
    Flag,   \* the individual permissions (SELECT, DESCRIBE, ...)
    ALL,    \* the literal permission ALL
    Nil     \* an attribute that is not set (a nil *Permissions)

ASSUME FlagAssumption == ALL \notin Flag /\ Flag # {}
ASSUME NilAssumption  == \A S \in SUBSET (Flag \cup {ALL}) : S # Nil

Perms == SUBSET (Flag \cup {ALL})
Block == Perms \cup {Nil}

(* The list sent to AWS for a block: ALL hides every other flag.           *)
PermsToAPI(block) ==
    IF block = Nil THEN {} ELSE IF ALL \in block THEN {ALL} ELSE block

CollapseImplicitAll_Never(perms, valid) == perms
(* collapseImplicitAll: a list that names every individual permission that *)
(* is valid for the kind of resource is read as ALL.                       *)
CollapseImplicitAll(perms, valid) ==
    IF perms # {} /\ ALL \notin perms /\ valid \subseteq perms THEN {ALL} ELSE perms

(* What a list stands for at the service: ALL is every valid permission.   *)
Expand(perms, valid) == IF ALL \in perms THEN valid ELSE perms

RefreshPerms_AsDeclared(declared, current) == declared
(* refreshPerms: only declared flags survive, and only while active.       *)
RefreshPerms(declared, current) ==
    IF declared = Nil THEN Nil
    ELSE {f \in declared : f \in current \/ ALL \in current}

FillPerms_Empty(perms, grantable) ==
    IF perms = Nil /\ grantable # Nil THEN {} ELSE perms
(* fillPermPair, as the new value of each half of the pair.                *)
FillPerms(perms, grantable) == IF perms = Nil THEN grantable ELSE perms
FillGrantable(perms, grantable) ==
    IF perms # Nil /\ grantable = Nil THEN {} ELSE grantable

(* checkPerms: ALL stands alone; otherwise only flags valid for the kind,  *)
(* and never all of them one by one.                                       *)
CheckPerms(block, valid) ==
    \/ block = Nil
    \/ block = {ALL}
    \/ block \subseteq valid /\ block # valid

(* checkSupersetPerms: what may be granted on must itself be granted.      *)
CheckSupersetPerms(perms, grantable) ==
    \/ perms = Nil
    \/ ALL \in perms
    \/ PermsToAPI(grantable) \subseteq PermsToAPI(perms)

(* The part of ValidateResource that concerns one pair of blocks.          *)
ValidPair(perms, grantable, valid) ==
    /\ CheckPerms(perms, valid)
    /\ CheckPerms(grantable, valid)
    /\ CheckSupersetPerms(perms, grantable)

NeedsUpdate_NilIsEmpty(stP, plP, stG, plG) ==
    \/ PermsToAPI(stP) # PermsToAPI(plP)
    \/ PermsToAPI(stG) # PermsToAPI(plG)
(* needsUpdate: a pair the plan leaves unset is never touched; otherwise   *)
(* state and plan are compared as API lists.                               *)
NeedsUpdate(stP, plP, stG, plG) ==
    /\ ~(plP = Nil /\ plG = Nil)
    /\ \/ PermsToAPI(stP) # PermsToAPI(plP)
       \/ PermsToAPI(stG) # PermsToAPI(plG)
==============================================================================
