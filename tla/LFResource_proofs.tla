--------------------------- MODULE LFResource_proofs ---------------------------
(***************************************************************************)
(* Theorems about LFResource, for every set of permissions and blocks, all *)
(* configurations that may be written, and any number of edits, drifts and *)
(* failed applies.                                                         *)
(***************************************************************************)
EXTENDS LFResource, TLAPS

------------------------------------------------------------------------------
(* Block r of model m is in place: what it wants is held.                  *)
Holds(m, r) ==
    /\ Wanted(Get(m, r)).P \subseteq aws[r].P
    /\ Wanted(Get(m, r)).G \subseteq aws[r].G

(* What filling and refreshing make sure of: a block whose permissions are *)
(* unset has no grant options either, and is not a table or wildcard.      *)
Whole(m) ==
    /\ m \in Model
    /\ \A r \in Res : m[r] # Absent /\ m[r].P = Nil => m[r].G = Nil /\ r \notin Nested

ModelInv == /\ state # Absent => Whole(state)
            /\ plan # Absent => Whole(plan)

WalkInv ==
    /\ op = "idle" => plan = Absent
    /\ op # "idle" => outcome = "none"
    /\ op = "create" => config # Absent /\ plan = Filled(config) /\ state = Absent
    /\ op = "update" => config # Absent /\ plan = Filled(config) /\ state # Absent
    /\ op = "delete" => plan = Absent /\ state # Absent

(* What the walk has reached on block i of the order, if nobody else has   *)
(* changed it: the plan, up to grant options that stay, in a create,       *)
(* nothing in a delete, and in an update at least the plan, or still the   *)
(* state of a block that is to come.                                       *)
ReachedInv(i) ==
    Order[i] \notin drifted =>
        /\ op = "create" /\ i < at /\ Order[i] \in Managed(plan) =>
              Reached(Order[i], Wanted(plan[Order[i]]))
        /\ op = "delete" /\ i < at /\ Order[i] \in Managed(state) => aws[Order[i]] = None
        /\ op = "update" =>
              Holds(plan, Order[i]) \/ (at <= i /\ Holds(state, Order[i]))

(* After a run that reports success the state is what the configuration    *)
(* declares, completed by the plan, and it is held.                        *)
AppliedInv ==
    Applied =>
        /\ config # Absent /\ state # Absent /\ Proposed(config, state) = state
        /\ \A r \in Res \ drifted : Holds(state, r)

IndInv ==
    /\ TypeOK /\ ModelInv /\ WalkInv
    /\ \A i \in 1 .. Len(Order) : ReachedInv(i)
    /\ AppliedInv /\ CreatedAsPlanned
------------------------------------------------------------------------------
(* Facts about the permission algebra.                                     *)
LEMMA WantedType ==
    ASSUME NEW pair \in [P : Block, G : Block]
    PROVE  Wanted(pair) \in [P : SUBSET Flag, G : SUBSET Flag]
  BY NilAssumption DEF Wanted, Full, Expand, PermsToAPI, Block, Perms

LEMMA UnsetWantsNothing == Wanted(Unset) = None
  BY FlagAssumption DEF Wanted, Unset, None, Full, Expand, PermsToAPI

(* Validation keeps grant options within the permissions.                  *)
LEMMA ValidGrantable ==
    ASSUME NEW P \in Block, NEW G \in Block, ValidPair(P, G, Flag)
    PROVE  Full(PermsToAPI(FillGrantable(P, G))) \subseteq Full(PermsToAPI(FillPerms(P, G)))
  <1> USE FlagAssumption, NilAssumption
  <1>1. CASE P = Nil
    BY <1>1 DEF FillGrantable, FillPerms, Full, PermsToAPI
  <1>2. CASE P # Nil /\ ALL \in P
    BY <1>2 DEF FillGrantable, FillPerms, Full, PermsToAPI, Expand, Block, Perms
  <1>3. CASE P # Nil /\ ALL \notin P
    BY <1>3 DEF FillGrantable, FillPerms, Full, PermsToAPI, Expand, Block, Perms,
                ValidPair, CheckSupersetPerms
  <1> QED BY <1>1, <1>2, <1>3

(* A refreshed attribute stands for permissions that are held, and is the  *)
(* declared one if that was held.                                          *)
LEMMA RefreshFacts ==
    ASSUME NEW declared \in Block, NEW held \in SUBSET Flag,
           NEW new, new = RefreshPerms(declared, CollapseImplicitAll(held, Flag))
    PROVE  /\ new \in Block
           /\ new = Nil <=> declared = Nil
           /\ Full(PermsToAPI(new)) \subseteq held
           /\ Full(PermsToAPI(declared)) \subseteq held => new = declared
  <1> USE FlagAssumption, NilAssumption
  <1> DEFINE current == CollapseImplicitAll(held, Flag)
  <1>1. ALL \in current => held = Flag
    BY DEF CollapseImplicitAll
  <1>2. ALL \notin current => current = held
    BY DEF CollapseImplicitAll
  <1>3. held = Flag => ALL \in current
    BY DEF CollapseImplicitAll
  <1>4. CASE declared = Nil
    BY <1>4 DEF RefreshPerms, PermsToAPI, Full, Expand, Block
  <1>5. CASE declared # Nil
    <2>1. /\ new = {f \in declared : f \in current \/ ALL \in current}
          /\ declared \in Perms
      BY <1>5 DEF RefreshPerms, Block
    <2>2. new \in Perms /\ new # Nil
      BY <2>1 DEF Perms
    <2>3. Full(PermsToAPI(new)) \subseteq held
      BY <1>1, <1>2, <2>1, <2>2 DEF Full, PermsToAPI, Expand, Perms
    <2>4. ASSUME Full(PermsToAPI(declared)) \subseteq held PROVE new = declared
      <3>1. CASE ALL \in declared
        BY <3>1, <1>3, <1>5, <2>1, <2>4 DEF Full, PermsToAPI, Expand
      <3>2. CASE ALL \notin declared
        BY <3>2, <1>1, <1>2, <1>5, <2>1, <2>4 DEF Full, PermsToAPI, Expand
      <3> QED BY <3>1, <3>2
    <2> QED BY <1>5, <2>2, <2>3, <2>4 DEF Block
  <1> QED BY <1>4, <1>5
------------------------------------------------------------------------------
(* Facts about models.                                                     *)
LEMMA BlockPair ==
    ASSUME NEW m \in Model, NEW r \in Res, m[r] # Absent
    PROVE  /\ m[r] \in [P : Block, G : Block]
           /\ m[r] = [P |-> m[r].P, G |-> m[r].G]
  BY DEF Model

LEMMA GetType ==
    ASSUME NEW m \in Model, NEW r \in Res
    PROVE  Get(m, r) \in [P : Block, G : Block]
  BY BlockPair DEF Get, Unset, Block

LEMMA ModelIsThere ==
    ASSUME NEW m \in Model
    PROVE  m # Absent
  BY AbsentAssumption

LEMMA ConfigFacts ==
    ASSUME NEW c \in Configs
    PROVE  /\ c \in Model /\ Accepted(c)
           /\ \A r \in Res : c[r] # Absent => ValidPair(c[r].P, c[r].G, Flag)
  BY WrittenAssumption DEF Configs, Accepted, Get

LEMMA FilledFacts ==
    ASSUME NEW c \in Configs
    PROVE  /\ Whole(Filled(c)) /\ Filled(c) # Absent
           /\ \A r \in Res : Wanted(Get(Filled(c), r)).G \subseteq Wanted(Get(Filled(c), r)).P
           /\ Proposed(c, Filled(c)) = Filled(c)
  <1> DEFINE m == Filled(c)
  <1>1. c \in Model
    BY ConfigFacts
  <1>2. ASSUME NEW r \in Res, c[r] = Absent PROVE m[r] = Absent
    BY <1>2 DEF Filled
  <1>3. ASSUME NEW r \in Res, c[r] # Absent
        PROVE  /\ m[r].P = FillPerms(c[r].P, c[r].G)
               /\ m[r].G = FillGrantable(c[r].P, c[r].G)
               /\ m[r] = [P |-> m[r].P, G |-> m[r].G]
               /\ m[r] \in [P : Block, G : Block] /\ m[r] # Absent
    <2>1. m[r] = [P |-> FillPerms(c[r].P, c[r].G), G |-> FillGrantable(c[r].P, c[r].G)]
      BY <1>3 DEF Filled
    <2>2. c[r].P \in Block /\ c[r].G \in Block
      BY <1>1, <1>3, BlockPair
    <2>3. FillPerms(c[r].P, c[r].G) \in Block /\ FillGrantable(c[r].P, c[r].G) \in Block
      BY <2>2 DEF FillPerms, FillGrantable, Block, Perms
    <2>4. m[r].P = FillPerms(c[r].P, c[r].G) /\ m[r].G = FillGrantable(c[r].P, c[r].G)
      BY <2>1
    <2>5. m[r] \in [P : Block, G : Block]
      BY <2>1, <2>3
    <2> QED BY <2>1, <2>4, <2>5, AbsentAssumption
  <1>0. m = [r \in Res |-> m[r]]
    BY DEF Filled
  <1> HIDE DEF m
  <1>4. m \in Model
    <2>1. m = [r \in Res |-> m[r]]
      BY <1>0
    <2>2. \A r \in Res : m[r] \in [P : Block, G : Block] \cup {Absent}
      BY <1>2, <1>3
    <2> QED BY <2>1, <2>2 DEF Model
  <1>5. ASSUME NEW r \in Res, m[r] # Absent, m[r].P = Nil
        PROVE  m[r].G = Nil /\ r \notin Nested
    <2>1. c[r] # Absent
      BY <1>2, <1>5
    <2>2. /\ m[r].P = FillPerms(c[r].P, c[r].G)
          /\ m[r].G = FillGrantable(c[r].P, c[r].G)
      BY <2>1, <1>3
    <2>3. c[r].P = Nil /\ c[r].G = Nil
      BY <2>2, <1>5, NilAssumption DEF FillPerms
    <2>4. m[r].G = Nil
      BY <2>2, <2>3 DEF FillGrantable
    <2>5. c[r] = Unset
      BY <2>1, <2>3, <1>1, BlockPair DEF Unset
    <2>6. r \notin Nested
      BY <2>5, ConfigFacts DEF Accepted
    <2> QED BY <2>4, <2>6
  <1>6. Whole(m) /\ m # Absent
    BY <1>4, <1>5, ModelIsThere DEF Whole
  <1>7. ASSUME NEW r \in Res PROVE Wanted(Get(m, r)).G \subseteq Wanted(Get(m, r)).P
    <2>1. CASE c[r] = Absent
      BY <2>1, <1>2, UnsetWantsNothing DEF Get, None
    <2>2. CASE c[r] # Absent
      <3>1. c[r].P \in Block /\ c[r].G \in Block /\ ValidPair(c[r].P, c[r].G, Flag)
        BY <2>2, <1>1, BlockPair, ConfigFacts
      <3>2. /\ Wanted(Get(m, r)).P = Full(PermsToAPI(FillPerms(c[r].P, c[r].G)))
            /\ Wanted(Get(m, r)).G = Full(PermsToAPI(FillGrantable(c[r].P, c[r].G)))
        BY <2>2, <1>3 DEF Get, Wanted
      <3> QED BY <3>1, <3>2, ValidGrantable
    <2> QED BY <2>1, <2>2
  <1>8. Proposed(c, m) = m
    <2>1. ASSUME NEW r \in Res PROVE Proposed(c, m)[r] = m[r]
      <3>1. CASE c[r] = Absent
        BY <3>1, <1>2 DEF Proposed
      <3>2. CASE c[r] # Absent
        <4>1. m[r] # Absent /\ m[r] = [P |-> m[r].P, G |-> m[r].G]
              /\ m[r].P = FillPerms(c[r].P, c[r].G) /\ m[r].G = FillGrantable(c[r].P, c[r].G)
          BY <3>2, <1>3
        <4>2. /\ (IF c[r].P = Nil THEN m[r].P ELSE c[r].P) = m[r].P
              /\ (IF c[r].G = Nil THEN m[r].G ELSE c[r].G) = m[r].G
          BY <4>1 DEF FillPerms, FillGrantable
        <4> QED BY <3>2, <4>1, <4>2 DEF Proposed
      <3> QED BY <3>1, <3>2
    <2>2. Proposed(c, m) = [r \in Res |-> Proposed(c, m)[r]] /\ m = [r \in Res |-> m[r]]
      BY <1>0 DEF Proposed
    <2> QED BY <2>1, <2>2
  <1> QED BY <1>6, <1>7, <1>8 DEF m

LEMMA RefreshedFacts ==
    ASSUME NEW m, Whole(m), aws \in Held
    PROVE  /\ Whole(Refreshed(m)) /\ Refreshed(m) # Absent
           /\ \A r \in Res : Holds(Refreshed(m), r)
           /\ (\A r \in Res : Holds(m, r)) => Refreshed(m) = m
  <1> DEFINE n == Refreshed(m)
  <1> USE DEF Whole
  <1>1. ASSUME NEW r \in Managed(m)
        PROVE  /\ r \in Res /\ m[r] # Absent /\ n[r] # Absent
               /\ n[r] \in [P : Block, G : Block]
               /\ n[r].P = Nil => m[r].P = Nil
               /\ n[r].G = Nil <=> m[r].G = Nil
               /\ Get(n, r) = n[r] /\ Get(m, r) = m[r] /\ Holds(n, r)
               /\ Holds(m, r) => n[r] = m[r]
    <2>1. r \in Res /\ m[r] # Absent
      BY DEF Managed
    <2>2. /\ m[r] \in [P : Block, G : Block] /\ m[r] = [P |-> m[r].P, G |-> m[r].G]
          /\ m[r].P \in Block /\ m[r].G \in Block
      BY <2>1, BlockPair
    <2>3. n[r] = [P |-> RefreshPerms(m[r].P, CollapseImplicitAll(aws[r].P, Flag)),
                  G |-> RefreshPerms(m[r].G, CollapseImplicitAll(aws[r].G, Flag))]
      BY <2>1 DEF Refreshed
    <2>4. /\ n[r].P = RefreshPerms(m[r].P, CollapseImplicitAll(aws[r].P, Flag))
          /\ n[r].G = RefreshPerms(m[r].G, CollapseImplicitAll(aws[r].G, Flag))
      BY <2>3
    <2>5. aws[r].P \in SUBSET Flag /\ aws[r].G \in SUBSET Flag
      BY <2>1 DEF Held
    <2>6. /\ n[r].P \in Block /\ (n[r].P = Nil <=> m[r].P = Nil)
          /\ Full(PermsToAPI(n[r].P)) \subseteq aws[r].P
          /\ Full(PermsToAPI(m[r].P)) \subseteq aws[r].P => n[r].P = m[r].P
      BY <2>2, <2>4, <2>5, RefreshFacts
    <2>7. /\ n[r].G \in Block /\ (n[r].G = Nil <=> m[r].G = Nil)
          /\ Full(PermsToAPI(n[r].G)) \subseteq aws[r].G
          /\ Full(PermsToAPI(m[r].G)) \subseteq aws[r].G => n[r].G = m[r].G
      BY <2>2, <2>4, <2>5, RefreshFacts
    <2>8. n[r] = [P |-> n[r].P, G |-> n[r].G]
      BY <2>3
    <2>9. n[r] \in [P : Block, G : Block] /\ n[r] # Absent
      BY <2>6, <2>7, <2>8, AbsentAssumption
    <2>10. Get(n, r) = n[r] /\ Get(m, r) = m[r]
      BY <2>1, <2>9 DEF Get
    <2>11. Holds(n, r)
      BY <2>6, <2>7, <2>10 DEF Holds, Wanted
    <2>12. Holds(m, r) => n[r] = m[r]
      BY <2>2, <2>6, <2>7, <2>8, <2>10 DEF Holds, Wanted
    <2> QED BY <2>1, <2>6, <2>7, <2>9, <2>10, <2>11, <2>12
  <1>2. ASSUME NEW r \in Res \ Managed(m)
        PROVE  n[r] = m[r] /\ Get(n, r) = Unset /\ Holds(n, r)
    <2>1. n[r] = m[r]
      BY DEF Refreshed
    <2>2. Get(n, r) = Unset
      <3>1. CASE m[r] = Absent
        BY <2>1, <3>1 DEF Get
      <3>2. CASE m[r] # Absent
        <4>1. m[r].P = Nil /\ m[r].G = Nil
          BY <3>2 DEF Managed
        <4> QED BY <2>1, <3>2, <4>1, BlockPair DEF Get, Unset
      <3> QED BY <3>1, <3>2
    <2>3. Holds(n, r)
      BY <2>2, UnsetWantsNothing DEF Holds, None
    <2> QED BY <2>1, <2>2, <2>3
  <1>3. n = [r \in Res |-> n[r]]
    BY DEF Refreshed
  <1>4. \A r \in Res : n[r] \in [P : Block, G : Block] \cup {Absent}
    BY <1>1, <1>2 DEF Model
  <1>5. n \in Model
    BY <1>3, <1>4 DEF Model
  <1>6. ASSUME NEW r \in Res, n[r] # Absent, n[r].P = Nil
        PROVE  n[r].G = Nil /\ r \notin Nested
    BY <1>1, <1>2, <1>6
  <1>7. ASSUME \A r \in Res : Holds(m, r) PROVE n = m
    <2>1. \A r \in Res : n[r] = m[r]
      BY <1>1, <1>2, <1>7
    <2>2. m = [r \in Res |-> m[r]]
      BY DEF Model
    <2> QED BY <1>3, <2>1, <2>2
  <1> QED BY <1>1, <1>2, <1>5, <1>6, <1>7, ModelIsThere
------------------------------------------------------------------------------
(* The beginning of a run, and edits.                                      *)
LEMMA ReadFacts ==
    ASSUME IndInv
    PROVE  /\ Read = Absent <=> state = Absent
           /\ Read \in Model \cup {Absent}
           /\ Read # Absent => Whole(Read) /\ \A r \in Res : Holds(Read, r)
  <1>1. CASE state = Absent
    BY <1>1 DEF Read
  <1>2. CASE state # Absent
    <2>1. Whole(state) /\ aws \in Held
      BY <1>2 DEF IndInv, ModelInv, TypeOK
    <2>2. Read = Refreshed(state)
      BY <1>2 DEF Read
    <2> QED BY <1>2, <2>1, <2>2, RefreshedFacts DEF Whole
  <1> QED BY <1>1, <1>2

LEMMA StartStep ==
    ASSUME IndInv, Run
    PROVE  IndInv'
  <1> USE DEF IndInv
  <1>1. /\ op = "idle" /\ state' = Read /\ at' = 1 /\ drifted' = {}
        /\ config' = config /\ aws' = aws
    BY DEF Run, Start, StartCreate, StartUpdate, NoChanges, StartDelete
  <1>2. /\ op' \in {"create", "update"} =>
              config # Absent /\ plan' = Filled(config) /\ outcome' = "none"
        /\ op' \notin {"create", "update"} => plan' = Absent
        /\ op' = "create" => state = Absent
        /\ op' \in {"update", "delete"} => state # Absent
        /\ op' = "idle" =>
              /\ config # Absent /\ state # Absent /\ Proposed(config, Read) = Read
              /\ outcome' = "unchanged"
        /\ op' \in {"idle", "create", "update", "delete"}
        /\ outcome' \in {"none", "unchanged"}
        /\ op' # "idle" => outcome' = "none"
    BY DEF Run, Start, StartCreate, StartUpdate, NoChanges, StartDelete
  <1>3. config # Absent => config \in Configs
    BY DEF TypeOK
  <1>4. plan' # Absent => Whole(plan') /\ plan' = Filled(config)
    BY <1>2, <1>3, FilledFacts
  <1>5. TypeOK'
    <2>1. state' \in Model \cup {Absent} /\ plan' \in Model \cup {Absent}
      BY <1>1, <1>4, ReadFacts DEF Whole
    <2>2. at' \in 1 .. Len(Order) + 1
      BY <1>1, OrderAssumption
    <2> QED BY <1>1, <1>2, <2>1, <2>2 DEF TypeOK
  <1>6. ModelInv'
    BY <1>1, <1>4, ReadFacts DEF ModelInv, Whole
  <1>7. WalkInv'
    BY <1>1, <1>2, ReadFacts DEF WalkInv, Filled
  <1>8. state' # Absent => \A r \in Res : Holds(state, r)'
    BY <1>1, ReadFacts DEF Holds
  <1>9. ASSUME NEW i \in 1 .. Len(Order) PROVE ReachedInv(i)'
    <2>1. Order[i] \in Res
      BY DEF Res
    <2>2. at' <= i /\ ~(i < at')
      BY <1>1, OrderAssumption
    <2>3. op' = "update" => Holds(state, Order[i])'
      BY <1>1, <1>2, <1>8, <2>1, ReadFacts
    <2> QED BY <2>2, <2>3 DEF ReachedInv, Holds
  <1>10. AppliedInv'
    BY <1>1, <1>2, <1>8, ReadFacts DEF AppliedInv, Applied, Holds, Proposed
  <1>11. CreatedAsPlanned'
    BY <1>2 DEF CreatedAsPlanned
  <1> QED BY <1>5, <1>6, <1>7, <1>9, <1>10, <1>11

LEMMA EditStep ==
    ASSUME IndInv, Edit
    PROVE  IndInv'
  <1> USE DEF IndInv, Edit
  <1>1. TypeOK' /\ ModelInv'
    BY DEF TypeOK, ModelInv, Whole
  <1>2. WalkInv'
    BY DEF WalkInv
  <1>3. \A i \in 1 .. Len(Order) : ReachedInv(i)'
    BY DEF ReachedInv
  <1>4. AppliedInv' /\ CreatedAsPlanned'
    BY DEF AppliedInv, Applied, CreatedAsPlanned
  <1> QED BY <1>1, <1>2, <1>3, <1>4

LEMMA DriftStep ==
    ASSUME IndInv, Drift
    PROVE  IndInv'
  <1> USE DEF IndInv
  <1>1. PICK r \in Res, P \in SUBSET Flag : \E G \in SUBSET P :
            /\ aws' = [aws EXCEPT ![r] = [P |-> P, G |-> G]]
            /\ drifted' = drifted \cup {r}
    BY DEF Drift
  <1>2. PICK G \in SUBSET P : aws' = [aws EXCEPT ![r] = [P |-> P, G |-> G]]
                             /\ drifted' = drifted \cup {r}
    BY <1>1
  <1>3. UNCHANGED <<config, state, plan, op, at, outcome>>
    BY DEF Drift
  <1>4. aws' \in Held /\ \A q \in Res : aws'[q].G \subseteq aws'[q].P
    BY <1>2 DEF TypeOK, Held
  <1>5. \A q \in Res \ drifted' : q \notin drifted /\ aws'[q] = aws[q]
    BY <1>2 DEF TypeOK, Held
  <1>6. TypeOK'
    BY <1>2, <1>3, <1>4 DEF TypeOK
  <1>7. ModelInv' /\ WalkInv'
    BY <1>3 DEF ModelInv, Whole, WalkInv
  <1>8. ASSUME NEW i \in 1 .. Len(Order) PROVE ReachedInv(i)'
    <2>1. Order[i] \in Res
      BY DEF Res
    <2> QED BY <1>3, <1>5, <2>1 DEF ReachedInv, Reached, Holds, Managed
  <1>9. AppliedInv' /\ CreatedAsPlanned'
    BY <1>3, <1>5 DEF AppliedInv, Applied, CreatedAsPlanned, Reached, Holds, Managed
  <1> QED BY <1>6, <1>7, <1>8, <1>9
------------------------------------------------------------------------------
(* The walk.                                                               *)
LEMMA GoalFacts ==
    ASSUME IndInv, op # "idle", NEW r \in Res
    PROVE  /\ Goal(r) \in [P : SUBSET Flag, G : SUBSET Flag]
           /\ Goal(r).G \subseteq Goal(r).P
           /\ op = "delete" => Goal(r) = None
           /\ op \in {"create", "update"} => Goal(r) = Wanted(Get(plan, r))
  <1> USE DEF IndInv
  <1>1. CASE op = "delete"
    BY <1>1 DEF Goal, None
  <1>2. CASE op # "delete"
    <2>1. config \in Configs /\ plan = Filled(config) /\ plan \in Model
      BY <1>2, FilledFacts DEF TypeOK, WalkInv, Whole
    <2>2. Goal(r) = Wanted(Get(plan, r))
      BY <1>2 DEF Goal
    <2> QED BY <1>2, <2>1, <2>2, FilledFacts, GetType, WantedType
  <1> QED BY <1>1, <1>2

(* Skipping a block of an update loses nothing: where plan and state give  *)
(* the same lists, what holds the state holds the plan.                    *)
LEMMA SkippedHolds ==
    ASSUME NEW r \in Res, r \notin Outdated(state, plan), Holds(state, r)
    PROVE  Holds(plan, r)
  <1>1. CASE Get(plan, r).P = Nil /\ Get(plan, r).G = Nil
    BY <1>1, FlagAssumption DEF Holds, Wanted, PermsToAPI, Full, Expand
  <1>2. CASE ~(Get(plan, r).P = Nil /\ Get(plan, r).G = Nil)
    BY <1>2 DEF Outdated, NeedsUpdate, Holds, Wanted
  <1> QED BY <1>1, <1>2

LEMMA SkipStep ==
    ASSUME IndInv, Skip
    PROVE  IndInv'
  <1> USE DEF IndInv
  <1>1. /\ op # "idle" /\ at \in 1 .. Len(Order) /\ Order[at] \notin Targets
        /\ at' = at + 1 /\ Order[at] \in Res
        /\ UNCHANGED <<config, state, plan, aws, op, outcome, drifted>>
    BY OrderAssumption DEF Skip, TypeOK, Res
  <1>2. TypeOK'
    BY <1>1, OrderAssumption DEF TypeOK
  <1>3. ModelInv' /\ WalkInv'
    BY <1>1 DEF ModelInv, Whole, WalkInv
  <1>4. ASSUME NEW i \in 1 .. Len(Order) PROVE ReachedInv(i)'
    <2>1. i < at' => i < at \/ i = at
      BY <1>1, OrderAssumption
    <2>2. ~(at' <= i) => ~(at <= i) \/ i = at
      BY <1>1, OrderAssumption
    <2>3. op = "create" => Order[at] \notin Managed(plan)
      BY <1>1 DEF Targets
    <2>4. op = "delete" => Order[at] \notin Managed(state)
      BY <1>1 DEF Targets
    <2>5. op = "update" => (Holds(state, Order[at]) => Holds(plan, Order[at]))
      BY <1>1, SkippedHolds DEF Targets
    <2>6. /\ Managed(plan') = Managed(plan) /\ Managed(state') = Managed(state)
          /\ Holds(plan, Order[i])' <=> Holds(plan, Order[i])
          /\ Holds(state, Order[i])' <=> Holds(state, Order[i])
          /\ Reached(Order[i], Wanted(plan[Order[i]]))'
                <=> Reached(Order[i], Wanted(plan[Order[i]]))
      BY <1>1 DEF Managed, Holds, Reached
    <2> QED BY <1>1, <2>1, <2>2, <2>3, <2>4, <2>5, <2>6 DEF ReachedInv
  <1>5. AppliedInv' /\ CreatedAsPlanned'
    BY <1>1 DEF AppliedInv, Applied, CreatedAsPlanned
  <1> QED BY <1>2, <1>3, <1>4, <1>5

LEMMA ApplyStep ==
    ASSUME IndInv, Apply
    PROVE  IndInv'
  <1> USE DEF IndInv
  <1> DEFINE r == Order[at]
  <1>1. /\ op # "idle" /\ at \in 1 .. Len(Order) /\ r \in Res /\ r \in Targets
        /\ aws' = [aws EXCEPT ![r] = [P |-> Goal(r).P, G |-> Goal(r).G \cup LeftOver(r)]]
        /\ drifted' = drifted \ {r} /\ at' = at + 1
        /\ UNCHANGED <<config, state, plan, op, outcome>>
    BY OrderAssumption DEF Apply, TypeOK, Res
  <1> HIDE DEF r
  <1>2. /\ Goal(r) \in [P : SUBSET Flag, G : SUBSET Flag]
        /\ Goal(r).G \subseteq Goal(r).P
        /\ op = "delete" => Goal(r) = None
        /\ op \in {"create", "update"} => Goal(r) = Wanted(Get(plan, r))
    BY <1>1, GoalFacts
  <1>3. /\ aws'[r].P = Goal(r).P /\ aws'[r].G = Goal(r).G \cup LeftOver(r)
        /\ aws'[r] = [P |-> aws'[r].P, G |-> aws'[r].G]
        /\ \A q \in Res \ {r} : aws'[q] = aws[q]
    BY <1>1 DEF TypeOK, Held
  <1>0. /\ LeftOver(r) \subseteq Goal(r).P \ Goal(r).G
        /\ LeftOver(r) # {} => LeftOver(r) \cap Pinned # {}
    BY DEF LeftOver, KeepRevokeG
  <1>4. aws' \in Held /\ \A q \in Res : aws'[q].G \subseteq aws'[q].P
    BY <1>0, <1>1, <1>2, <1>3 DEF TypeOK, Held
  <1>5. TypeOK'
    BY <1>1, <1>4, OrderAssumption DEF TypeOK
  <1>6. ModelInv' /\ WalkInv'
    BY <1>1 DEF ModelInv, Whole, WalkInv
  <1>7. ASSUME NEW i \in 1 .. Len(Order) PROVE ReachedInv(i)'
    <2>1. Order[i] \in Res
      BY DEF Res
    <2>2. CASE Order[i] = r
      <3>1. op = "create" /\ r \in Managed(plan) =>
               Reached(Order[i], Wanted(plan[Order[i]]))'
        <4> SUFFICES ASSUME op = "create" /\ r \in Managed(plan)
                     PROVE  Reached(Order[i], Wanted(plan[Order[i]]))'
          OBVIOUS
        <4> DEFINE want == Wanted(plan[r])
        <4>1. Goal(r) = want
          BY <1>2 DEF Managed, Get
        <4> HIDE DEF want
        <4>2. aws'[r].P = want.P /\ aws'[r].G = want.G \cup LeftOver(r)
          BY <1>3, <4>1
        <4>3. \/ aws'[r].G = want.G
              \/ (aws'[r].G \ want.G) \cap Pinned # {}
          BY <1>0, <4>1, <4>2
        <4>4. Wanted(plan[Order[i]])' = want
          BY <1>1, <2>2 DEF want, Wanted
        <4> QED BY <2>2, <4>2, <4>3, <4>4 DEF Reached
      <3>2. op = "delete" => aws'[Order[i]] = None
        <4> SUFFICES ASSUME op = "delete" PROVE aws'[r] = None
          BY <2>2
        <4>1. Goal(r).P = {} /\ Goal(r).G = {} /\ LeftOver(r) = {}
          BY <1>0, <1>2 DEF None
        <4> QED BY <1>3, <4>1 DEF None
      <3>3. op = "update" => /\ Wanted(Get(plan', r)).P \subseteq aws'[r].P
                             /\ Wanted(Get(plan', r)).G \subseteq aws'[r].G
        BY <1>1, <1>2, <1>3
      <3>4. op = "update" => Holds(plan, Order[i])'
        BY <2>2, <3>3 DEF Holds, Get
      <3>5. Managed(plan') = Managed(plan)
        BY <1>1
      <3> QED BY <1>1, <2>2, <3>1, <3>2, <3>4, <3>5 DEF ReachedInv
    <2>3. CASE Order[i] # r
      <3>1. Order[i] \notin drifted' => Order[i] \notin drifted
        BY <1>1, <2>3
      <3>2. i # at
        BY <2>3 DEF r
      <3>3. (i < at' => i < at) /\ (at <= i => at' <= i)
        BY <1>1, <3>2, OrderAssumption
      <3>4. /\ aws'[Order[i]] = aws[Order[i]]
            /\ Managed(plan') = Managed(plan) /\ Managed(state') = Managed(state)
            /\ Holds(plan, Order[i])' <=> Holds(plan, Order[i])
            /\ Holds(state, Order[i])' <=> Holds(state, Order[i])
            /\ Reached(Order[i], Wanted(plan[Order[i]]))'
                  <=> Reached(Order[i], Wanted(plan[Order[i]]))
        BY <1>1, <1>3, <2>1, <2>3 DEF Managed, Holds, Reached
      <3>5. ReachedInv(i)
        OBVIOUS
      <3> QED BY <1>1, <3>1, <3>3, <3>4, <3>5 DEF ReachedInv
    <2> QED BY <2>2, <2>3
  <1>8. AppliedInv' /\ CreatedAsPlanned'
    BY <1>1 DEF AppliedInv, Applied, CreatedAsPlanned
  <1> QED BY <1>5, <1>6, <1>7, <1>8

LEMMA RefusedStep ==
    ASSUME IndInv, Refused
    PROVE  IndInv'
  <1> USE DEF IndInv
  <1>1. /\ op' = "idle" /\ outcome' = "failed" /\ plan' = Absent /\ at' = 1
        /\ UNCHANGED <<config, state, aws, drifted>>
    BY DEF Refused, Abandon
  <1>2. TypeOK'
    BY <1>1, OrderAssumption DEF TypeOK
  <1>3. ModelInv' /\ WalkInv'
    BY <1>1 DEF ModelInv, Whole, WalkInv
  <1>4. \A i \in 1 .. Len(Order) : ReachedInv(i)'
    BY <1>1 DEF ReachedInv
  <1>5. AppliedInv' /\ CreatedAsPlanned'
    BY <1>1 DEF AppliedInv, Applied, CreatedAsPlanned
  <1> QED BY <1>2, <1>3, <1>4, <1>5

LEMMA FailStep ==
    ASSUME IndInv, Fail
    PROVE  IndInv'
  <1> USE DEF IndInv
  <1> DEFINE r == Order[at]
  <1>1. /\ op # "idle" /\ r \in Res
        /\ op' = "idle" /\ outcome' = "failed" /\ plan' = Absent /\ at' = 1
        /\ UNCHANGED <<config, state, drifted>>
    BY OrderAssumption DEF Fail, Abandon, TypeOK, Res
  <1>2. PICK P \in SUBSET (aws[r].P \cup Goal(r).P), G \in SUBSET (aws[r].G \cup Goal(r).G) :
            G \subseteq P /\ aws' = [aws EXCEPT ![r] = [P |-> P, G |-> G]]
    BY DEF Fail
  <1> HIDE DEF r
  <1>3. P \in SUBSET Flag /\ G \in SUBSET Flag
    BY <1>1, <1>2, GoalFacts DEF TypeOK, Held
  <1>4. aws' \in Held /\ \A q \in Res : aws'[q].G \subseteq aws'[q].P
    BY <1>1, <1>2, <1>3 DEF TypeOK, Held
  <1>5. TypeOK'
    BY <1>1, <1>4, OrderAssumption DEF TypeOK
  <1>6. ModelInv' /\ WalkInv'
    BY <1>1 DEF ModelInv, Whole, WalkInv
  <1>7. \A i \in 1 .. Len(Order) : ReachedInv(i)'
    BY <1>1 DEF ReachedInv
  <1>8. AppliedInv' /\ CreatedAsPlanned'
    BY <1>1 DEF AppliedInv, Applied, CreatedAsPlanned
  <1> QED BY <1>5, <1>6, <1>7, <1>8

(* At the end of the walk every block has been visited.                    *)
LEMMA FinishStep ==
    ASSUME IndInv, Finish
    PROVE  IndInv'
  <1> USE DEF IndInv
  <1>1. /\ op # "idle" /\ at > Len(Order)
        /\ state' = plan /\ op' = "idle" /\ plan' = Absent /\ at' = 1
        /\ outcome' = CASE op = "create" -> "created"
                         [] op = "update" -> "updated"
                         [] op = "delete" -> "deleted"
        /\ UNCHANGED <<config, aws, drifted>>
    BY DEF Finish
  <1>2. /\ op = "create" => outcome' = "created"
        /\ op = "update" => outcome' = "updated"
        /\ op = "delete" => outcome' = "deleted"
        /\ op \in {"create", "update", "delete"}
    BY <1>1 DEF TypeOK
  <1>3. TypeOK'
    BY <1>1, <1>2, OrderAssumption DEF TypeOK
  <1>4. ModelInv' /\ WalkInv'
    BY <1>1 DEF ModelInv, Whole, WalkInv
  <1>5. \A i \in 1 .. Len(Order) : ReachedInv(i)'
    BY <1>1 DEF ReachedInv
  <1>6. ASSUME NEW r \in Res \ drifted
        PROVE  /\ op = "create" /\ r \in Managed(plan) => Reached(r, Wanted(plan[r]))
               /\ op = "update" => Holds(plan, r)
    <2>1. PICK i \in 1 .. Len(Order) : r = Order[i]
      BY DEF Res
    <2>2. i < at /\ ~(at <= i)
      BY <1>1, OrderAssumption DEF TypeOK
    <2>3. ReachedInv(i)
      OBVIOUS
    <2> QED BY <2>1, <2>2, <2>3 DEF ReachedInv
  <1>7. CreatedAsPlanned'
    BY <1>1, <1>2, <1>6 DEF CreatedAsPlanned, Managed, Reached
  <1>8. AppliedInv'
    <2> SUFFICES ASSUME op \in {"create", "update"}
                 PROVE  /\ config # Absent /\ plan # Absent /\ Proposed(config, plan) = plan
                        /\ \A r \in Res \ drifted : Holds(plan, r)
      BY <1>1, <1>2 DEF AppliedInv, Applied, Holds, Proposed
    <2>1. config \in Configs /\ config # Absent /\ plan = Filled(config)
      BY DEF TypeOK, WalkInv
    <2>2. plan # Absent /\ Proposed(config, plan) = plan /\ Whole(plan)
      BY <2>1, FilledFacts
    <2>3. ASSUME NEW r \in Res \ drifted PROVE Holds(plan, r)
      <3>1. CASE op = "update"
        BY <1>6, <3>1
      <3>2. CASE op = "create" /\ r \in Managed(plan)
        BY <1>6, <3>2 DEF Holds, Managed, Get, Reached
      <3>3. CASE op = "create" /\ r \notin Managed(plan)
        <4>1. Get(plan, r) = Unset
          <5>1. CASE plan[r] = Absent
            BY <5>1 DEF Get
          <5>2. CASE plan[r] # Absent
            <6>1. plan[r].P = Nil /\ plan[r].G = Nil
              BY <2>2, <3>3, <5>2 DEF Managed, Whole
            <6> QED BY <2>2, <5>2, <6>1, BlockPair DEF Get, Unset, Whole
          <5> QED BY <5>1, <5>2
        <4> QED BY <4>1, UnsetWantsNothing DEF Holds, None
      <3> QED BY <3>1, <3>2, <3>3
    <2> QED BY <2>1, <2>2, <2>3
  <1> QED BY <1>3, <1>4, <1>5, <1>7, <1>8
------------------------------------------------------------------------------
LEMMA InitIndInv == Init => IndInv
  <1> SUFFICES ASSUME Init PROVE IndInv
    OBVIOUS
  <1> USE DEF Init
  <1>1. TypeOK
    BY OrderAssumption, HoldingsAssumption DEF TypeOK
  <1>2. ModelInv /\ WalkInv
    BY DEF ModelInv, WalkInv
  <1>3. \A i \in 1 .. Len(Order) : ReachedInv(i)
    BY DEF ReachedInv
  <1>4. AppliedInv /\ CreatedAsPlanned
    BY DEF AppliedInv, Applied, CreatedAsPlanned
  <1> QED BY <1>1, <1>2, <1>3, <1>4 DEF IndInv

LEMMA NextIndInv == IndInv /\ [Next]_vars => IndInv'
  <1> SUFFICES ASSUME IndInv, [Next]_vars PROVE IndInv'
    OBVIOUS
  <1>1. CASE UNCHANGED vars
    BY <1>1 DEF vars, IndInv, TypeOK, ModelInv, Whole, WalkInv, ReachedInv, Holds, Managed,
                AppliedInv, Applied, CreatedAsPlanned, Reached
  <1> QED BY <1>1, EditStep, StartStep, SkipStep, ApplyStep, RefusedStep, FailStep, FinishStep,
             DriftStep
          DEF Next, Walk

(* The inductive invariant holds in every reachable state.                 *)
THEOREM Invariance == Spec => []IndInv
  BY InitIndInv, NextIndInv, PTL DEF Spec

(* The variables keep their types: in particular no step makes AWS hold a  *)
(* grant option without its permission.                                    *)
THEOREM TypeCorrect == Spec => []TypeOK
  <1>1. IndInv => TypeOK
    BY DEF IndInv
  <1> QED BY <1>1, Invariance, PTL

(* What the configuration declares is held after a run that reports        *)
(* success: the state is held, and the configuration is a part of it.      *)
THEOREM Declared == Spec => []DeclaredIsHeld
  <1>1. IndInv => DeclaredIsHeld
    <2> SUFFICES ASSUME IndInv, Applied, NEW r \in Res \ drifted, config[r] # Absent
                 PROVE  /\ Wanted(config[r]).P \subseteq aws[r].P
                        /\ Wanted(config[r]).G \subseteq aws[r].G
      BY DEF DeclaredIsHeld
    <2>1. /\ config # Absent /\ state # Absent /\ Proposed(config, state) = state
          /\ Holds(state, r)
      BY DEF IndInv, AppliedInv
    <2>2. config \in Model /\ state \in Model
      BY <2>1, ConfigFacts DEF IndInv, TypeOK
    <2>3. /\ state[r] # Absent
          /\ config[r].P # Nil => state[r].P = config[r].P
          /\ config[r].G # Nil => state[r].G = config[r].G
      <3>1. Proposed(config, state)[r] = state[r]
        BY <2>1
      <3>2. CASE state[r] = Absent
        BY <3>1, <3>2 DEF Proposed
      <3>3. CASE state[r] # Absent
        <4>1. state[r] = [P |-> IF config[r].P = Nil THEN state[r].P ELSE config[r].P,
                          G |-> IF config[r].G = Nil THEN state[r].G ELSE config[r].G]
          BY <3>1, <3>3 DEF Proposed
        <4> QED BY <3>3, <4>1
      <3> QED BY <3>2, <3>3
    <2>4. /\ Full(PermsToAPI(state[r].P)) \subseteq aws[r].P
          /\ Full(PermsToAPI(state[r].G)) \subseteq aws[r].G
      BY <2>1, <2>3 DEF Holds, Get, Wanted
    <2>5. Full(PermsToAPI(Nil)) = {}
      BY FlagAssumption DEF Full, PermsToAPI, Expand
    <2> QED BY <2>3, <2>4, <2>5 DEF Wanted
  <1> QED BY <1>1, Invariance, PTL

(* After a successful Create the permissions of the plan and no others are *)
(* held, and all of its grant options; others are left only with a pinned  *)
(* one among them.                                                         *)
THEOREM Created == Spec => []CreatedAsPlanned
  <1>1. IndInv => CreatedAsPlanned
    BY DEF IndInv
  <1> QED BY <1>1, Invariance, PTL

(* A run that succeeded is followed by one that plans no change: where     *)
(* everything is held, refreshing changes nothing.                         *)
THEOREM NothingToChange == Spec => []NoPerpetualDiff
  <1>1. IndInv => NoPerpetualDiff
    <2> SUFFICES ASSUME IndInv, Applied, drifted = {}
                 PROVE  Proposed(config, Read) = Read
      BY DEF NoPerpetualDiff
    <2>1. /\ state # Absent /\ Proposed(config, state) = state
          /\ \A r \in Res : Holds(state, r)
      BY DEF IndInv, AppliedInv
    <2>2. Whole(state) /\ aws \in Held
      BY <2>1 DEF IndInv, ModelInv, TypeOK
    <2>3. Read = state
      BY <2>1, <2>2, RefreshedFacts DEF Read
    <2> QED BY <2>1, <2>3
  <1> QED BY <1>1, Invariance, PTL

(* What Create, Update and Delete walk over: never a block that is unset. *)
LEMMA TargetIsSet ==
    ASSUME IndInv, op # "idle", NEW r \in Targets
    PROVE  Get(IF op = "delete" THEN state ELSE plan, r) # Unset
  <1> USE DEF IndInv
  <1>1. ASSUME NEW m, Whole(m), r \in Managed(m) PROVE Get(m, r) # Unset
    <2>1. r \in Res /\ m[r] # Absent /\ m[r].P # Nil
      BY <1>1 DEF Managed, Whole
    <2> QED BY <2>1 DEF Get, Unset
  <1>2. CASE op = "delete"
    BY <1>1, <1>2 DEF Targets, WalkInv, ModelInv
  <1>3. CASE op = "create"
    <2>1. plan # Absent
      BY <1>3, FilledFacts DEF WalkInv, TypeOK
    <2> QED BY <1>1, <1>3, <2>1 DEF Targets, ModelInv
  <1>4. CASE op = "update"
    <2>1. r \in Outdated(state, plan)
      BY <1>4 DEF Targets
    <2>2. ~(Get(plan, r).P = Nil /\ Get(plan, r).G = Nil)
      BY <2>1 DEF Outdated, NeedsUpdate
    <2> QED BY <1>4, <2>2 DEF Unset
  <1> QED BY <1>2, <1>3, <1>4 DEF TypeOK

(* A block whose permissions are unset is not touched: no step of an       *)
(* operation changes what is held on it, since the walk acts only on       *)
(* targets, and none of them is unset.                                     *)
THEOREM Untouched == Spec => UnmanagedUntouched
  <1> DEFINE Untouching == \A r \in Res : Walk /\ aws'[r] # aws[r] =>
                              Get(IF op = "delete" THEN state ELSE plan, r) # Unset
  <1>1. IndInv /\ [Next]_vars => [Untouching]_vars
    <2> SUFFICES ASSUME IndInv, Walk, NEW r \in Res, aws'[r] # aws[r]
                 PROVE  Get(IF op = "delete" THEN state ELSE plan, r) # Unset
      OBVIOUS
    <2>1. op # "idle" /\ r \in Targets
      <3>1. aws \in Held
        BY DEF IndInv, TypeOK
      <3>2. CASE Skip \/ Refused \/ Finish
        BY <3>2 DEF Skip, Refused, Finish
      <3>3. CASE Apply
        BY <3>1, <3>3 DEF Apply, Held
      <3>4. CASE Fail
        BY <3>1, <3>4 DEF Fail, Held
      <3> QED BY <3>2, <3>3, <3>4 DEF Walk
    <2> QED BY <2>1, TargetIsSet
  <1>2. Spec => [][Untouching]_vars
    BY <1>1, Invariance, PTL DEF Spec
  <1> QED BY <1>2 DEF UnmanagedUntouched

(* A delete that succeeds has left nothing on any block of the state.      *)
THEOREM Deleted == Spec => DeletedCompletely
  <1> DEFINE Emptied == op = "delete" /\ outcome' = "deleted" =>
                           \A r \in Managed(state) \ drifted : aws[r] = None
  <1>1. IndInv /\ [Next]_vars => [Emptied]_vars
    <2> SUFFICES ASSUME IndInv, Next, op = "delete", outcome' = "deleted",
                        NEW r \in Managed(state) \ drifted
                 PROVE  aws[r] = None
      OBVIOUS
    <2> USE DEF IndInv
    <2>1. outcome = "none"
      BY DEF WalkInv
    <2>2. Finish
      <3>1. ~Edit /\ ~Run
        BY DEF Edit, Run, Start, StartCreate, StartUpdate, NoChanges, StartDelete
      <3>2. ~Skip /\ ~Apply /\ ~Drift
        BY <2>1 DEF Skip, Apply, Drift
      <3>3. ~Refused /\ ~Fail
        BY DEF Refused, Fail, Abandon
      <3> QED BY <3>1, <3>2, <3>3 DEF Next, Walk
    <2>3. r \in Res
      BY DEF Managed
    <2>4. PICK i \in 1 .. Len(Order) : r = Order[i]
      BY <2>3 DEF Res
    <2>5. i < at
      BY <2>2, OrderAssumption DEF Finish, TypeOK
    <2>6. ReachedInv(i)
      OBVIOUS
    <2> QED BY <2>4, <2>5, <2>6 DEF ReachedInv
  <1>2. Spec => [][Emptied]_vars
    BY <1>1, Invariance, PTL DEF Spec
  <1> QED BY <1>2 DEF DeletedCompletely
==============================================================================
