--------------------------- MODULE S3Table_proofs ----------------------------
(***************************************************************************)
(* What S3Table promises for every set of configurations and every bound:  *)
(* versions stay well formed, a reported success is real, a commit drops   *)
(* only what the plan showed, the wait is long enough, and the resource as *)
(* a whole keeps the promise of S3Promise.                                 *)
(*                                                                         *)
(* An update spans three steps - stage, commit, verify - between which     *)
(* other writers change the table.  The invariant carries over them what   *)
(* the staged version has to do with the version it was staged from        *)
(* (Stages) and which versions the log can hold after that one (Landing).  *)
(* A second one (Lineage) says where the columns of a version come from.   *)
(***************************************************************************)
EXTENDS S3Table, Selection_proofs

IsTableColumn(c) == c = [name |-> c.name, def |-> c.def, id |-> c.id]

(* A version of a table that Iceberg takes.                                *)
IsVersion(v) ==
  /\ v = [fields |-> v.fields, parts |-> v.parts, next |-> v.next]
  /\ v.next \in Int
  /\ IsList(v.fields) /\ Distinct(v.fields)
  /\ \A i \in DOMAIN v.fields :
        /\ IsTableColumn(v.fields[i])
        /\ v.fields[i].id \in Int /\ v.fields[i].id < v.next
  /\ \A i, j \in DOMAIN v.fields : v.fields[i].id = v.fields[j].id => i = j
  /\ IsList(v.parts) /\ Distinct(v.parts)

LEMMA VersionNotAbsent ==
  ASSUME NEW v, IsVersion(v)
  PROVE  v # Absent
<1>1. DOMAIN v = {"fields", "parts", "next"}
  BY DEF IsVersion
<1>2. DOMAIN Absent = {"absent"}
  BY DEF Absent
<1> QED
  BY <1>1, <1>2

LEMMA ModelNotAbsent ==
  ASSUME NEW m, IsModel(m)
  PROVE  m # Absent
<1>1. DOMAIN m = {"fields", "parts"}
  BY DEF IsModel
<1>2. DOMAIN Absent = {"absent"}
  BY DEF Absent
<1> QED
  BY <1>1, <1>2

(* A list knows its elements by their names.                               *)
LEMMA GetByName ==
  ASSUME NEW s, Distinct(s)
  PROVE  /\ \A i \in DOMAIN s : s[i].name \in Names(s) /\ Get(s, s[i].name) = s[i]
         /\ \A n \in Names(s) : \E i \in DOMAIN s : s[i].name = n /\ Get(s, n) = s[i]
BY DEF Distinct, Names, Get

LEMMA ColumnsForm ==
  ASSUME NEW f, IsList(f), NEW first \in Int
  PROVE  /\ IsList(Columns(f, first)) /\ Len(Columns(f, first)) = Len(f)
         /\ DOMAIN Columns(f, first) = 1 .. Len(f)
         /\ \A i \in 1 .. Len(f) : /\ IsTableColumn(Columns(f, first)[i])
                                  /\ Columns(f, first)[i].name = f[i].name
                                  /\ Columns(f, first)[i].def = f[i].def
                                  /\ Columns(f, first)[i].id = first + i - 1
<1>1. DOMAIN f = 1 .. Len(f) /\ Len(f) \in Nat
  BY ListDomain
<1>2. DOMAIN Columns(f, first) = 1 .. Len(f)
  BY <1>1 DEF Columns
<1>3. \A i \in 1 .. Len(f) :
         Columns(f, first)[i] = [name |-> f[i].name, def |-> f[i].def, id |-> first + i - 1]
  BY <1>1 DEF Columns
<1>4. Columns(f, first) = [i \in 1 .. Len(f) |-> Columns(f, first)[i]]
  BY <1>1 DEF Columns
<1>5. IsList(Columns(f, first)) /\ Len(Columns(f, first)) = Len(f)
  BY <1>1, <1>2, <1>4, FunctionIsList
<1>6. ASSUME NEW i \in 1 .. Len(f)
      PROVE  /\ IsTableColumn(Columns(f, first)[i])
             /\ Columns(f, first)[i].name = f[i].name
             /\ Columns(f, first)[i].def = f[i].def
             /\ Columns(f, first)[i].id = first + i - 1
  <2> DEFINE c == Columns(f, first)[i]
             d == first + i - 1
  <2>1. c = [name |-> f[i].name, def |-> f[i].def, id |-> d]
    BY <1>3
  <2> HIDE DEF c, d
  <2>2. IsTableColumn(c) /\ c.name = f[i].name /\ c.def = f[i].def /\ c.id = d
    BY <2>1 DEF IsTableColumn
  <2> QED
    BY <2>2 DEF c, d
<1> QED
  BY <1>2, <1>5, <1>6

(* A table is made as planned.                                             *)
LEMMA NewTableAsPlanned ==
  ASSUME IsModel(plan)
  PROVE  IsVersion(NewTable) /\ Shows(NewTable, plan) /\ IsModel(View(NewTable))
<1> DEFINE C == Columns(plan.fields, 1)
           n == Len(plan.fields)
<1>1. /\ IsList(plan.fields) /\ Distinct(plan.fields)
      /\ DOMAIN plan.fields = 1 .. n /\ n \in Nat
      /\ plan.fields = [i \in 1 .. n |-> plan.fields[i]]
      /\ \A i \in 1 .. n : IsColumn(plan.fields[i])
      /\ IsList(plan.parts) /\ Distinct(plan.parts)
  BY ListDomain DEF IsModel
<1>2. /\ IsList(C) /\ DOMAIN C = 1 .. n
      /\ \A i \in 1 .. n : /\ IsTableColumn(C[i]) /\ C[i].id = 1 + i - 1
                          /\ C[i].name = plan.fields[i].name /\ C[i].def = plan.fields[i].def
  BY <1>1, ColumnsForm
<1>3. NewTable = [fields |-> C, parts |-> plan.parts, next |-> n + 1]
  BY DEF NewTable
<1> HIDE DEF C, n
<1>4. IsVersion(NewTable)
  <2>1. NewTable.fields = C /\ NewTable.parts = plan.parts /\ NewTable.next = n + 1
    BY <1>3
  <2>2. \A i \in 1 .. n : C[i].name = plan.fields[i].name /\ C[i].id = i
    BY <1>1, <1>2
  <2>3. Distinct(C)
    BY <1>1, <1>2, <2>2 DEF Distinct
  <2>4. \A i \in DOMAIN C : /\ IsTableColumn(C[i])
                            /\ C[i].id \in Int /\ C[i].id < n + 1
    BY <1>1, <1>2, <2>2
  <2>5. \A i, j \in DOMAIN C : C[i].id = C[j].id => i = j
    BY <1>2, <2>2
  <2> QED
    BY <1>1, <1>2, <1>3, <2>1, <2>3, <2>4, <2>5 DEF IsVersion
<1>5. View(NewTable).fields = plan.fields
  <2>1. View(NewTable).fields = [i \in 1 .. n |-> [name |-> C[i].name, def |-> C[i].def]]
    BY <1>2, <1>3 DEF View
  <2>2. \A i \in 1 .. n : [name |-> C[i].name, def |-> C[i].def] = plan.fields[i]
    BY <1>1, <1>2 DEF IsColumn
  <2> QED
    BY <2>1, <2>2, <1>1
<1>6. Shows(NewTable, plan)
  BY <1>3, <1>4, <1>5, VersionNotAbsent DEF Shows
<1>7. View(NewTable) = [fields |-> View(NewTable).fields, parts |-> plan.parts]
  BY <1>3 DEF View
<1>8. View(NewTable) = plan
  BY <1>5, <1>7 DEF IsModel
<1> QED
  BY <1>4, <1>6, <1>8

(* What a version looks like is a model.                                   *)
LEMMA ViewIsModel ==
  ASSUME NEW v, IsVersion(v)
  PROVE  /\ IsModel(View(v)) /\ View(v).parts = v.parts
         /\ DOMAIN View(v).fields = DOMAIN v.fields
         /\ \A i \in DOMAIN v.fields : /\ View(v).fields[i].name = v.fields[i].name
                                       /\ View(v).fields[i].def = v.fields[i].def
<1> DEFINE f == [i \in DOMAIN v.fields |->
                    [name |-> v.fields[i].name, def |-> v.fields[i].def]]
<1>1. View(v) = [fields |-> f, parts |-> v.parts]
  BY DEF View
<1>2. DOMAIN v.fields = 1 .. Len(v.fields) /\ Len(v.fields) \in Nat
  BY ListDomain DEF IsVersion
<1>3. f = [i \in 1 .. Len(v.fields) |-> f[i]] /\ DOMAIN f = 1 .. Len(v.fields)
  BY <1>2
<1>4. \A i \in DOMAIN v.fields :
         IsColumn(f[i]) /\ f[i].name = v.fields[i].name /\ f[i].def = v.fields[i].def
  BY DEF IsColumn
<1> HIDE DEF f
<1>5. IsList(f)
  BY <1>2, <1>3, FunctionIsList
<1>6. Distinct(f)
  BY <1>2, <1>3, <1>4 DEF IsVersion, Distinct
<1>7. IsModel(View(v))
  <2>1. View(v).fields = f /\ View(v).parts = v.parts
    BY <1>1
  <2>2. View(v) = [fields |-> View(v).fields, parts |-> View(v).parts]
    BY <1>1
  <2>3. \A i \in DOMAIN f : IsColumn(f[i])
    BY <1>2, <1>3, <1>4
  <2>4. IsList(v.parts) /\ Distinct(v.parts)
    BY DEF IsVersion
  <2> QED
    BY <2>1, <2>2, <2>3, <2>4, <1>5, <1>6 DEF IsModel
<1>8. View(v).fields = f /\ View(v).parts = v.parts
  BY <1>1
<1> QED
  BY <1>2, <1>3, <1>4, <1>7, <1>8
------------------------------------------------------------------------------
LEMMA NamesFinite ==
  ASSUME NEW s, IsList(s)
  PROVE  IsFiniteSet(Names(s))
<1> DEFINE f == [i \in 1 .. Len(s) |-> s[i].name]
<1>1. DOMAIN s = 1 .. Len(s) /\ Len(s) \in Nat
  BY ListDomain
<1>2. f \in Surjection(1 .. Len(s), Names(s))
  BY <1>1 DEF Surjection, Names
<1>3. IsFiniteSet(1 .. Len(s))
  BY <1>1, FS_Interval
<1> QED
  BY <1>2, <1>3, FS_Surjection

LEMMA AddsFinite ==
  ASSUME IsModel(state), IsModel(plan)
  PROVE  /\ IsFiniteSet(Adds) /\ Cardinality(Adds) \in Nat
         /\ IsFiniteSet(PartAdds) /\ Cardinality(PartAdds) \in Nat
<1>1. IsFiniteSet(Names(plan.fields)) /\ IsFiniteSet(Names(plan.parts))
  BY NamesFinite DEF IsModel
<1>2. Adds \subseteq Names(plan.fields) /\ PartAdds \subseteq Names(plan.parts)
  BY DEF Adds, PartAdds, Added, Changed
<1>3. IsFiniteSet(Adds) /\ IsFiniteSet(PartAdds)
  BY <1>1, <1>2, FS_Subset
<1> QED
  BY <1>3, FS_CardinalityType

(* The columns of a staged version: those that are kept, where they were,  *)
(* then those that are added.                                              *)
KeptAt(v) == Without(v.fields, Deletes)

IsKept(d, c) ==
  /\ IsTableColumn(d) /\ d.name = c.name /\ d.id = c.id
  /\ d.def = IF c.name \in Updates THEN Get(plan.fields, c.name).def ELSE c.def

IsAdded(d, n, id) ==
  /\ n \in Adds
  /\ IsTableColumn(d) /\ d.name = n /\ d.id = id
  /\ d.def = Get(plan.fields, n).def

ColumnsStaged(v, columns, order) ==
  /\ Cardinality(KeptAt(v)) \in Nat /\ Cardinality(Adds) \in Nat
  /\ IsList(columns)
  /\ DOMAIN columns = 1 .. Cardinality(KeptAt(v)) + Cardinality(Adds)
  /\ \A i \in 1 .. Cardinality(KeptAt(v)) :
        Nth(KeptAt(v), i) \in KeptAt(v) /\ IsKept(columns[i], v.fields[Nth(KeptAt(v), i)])
  /\ \A i \in 1 .. Cardinality(Adds) :
        IsAdded(columns[Cardinality(KeptAt(v)) + i], order[i], v.next + i - 1)

LEMMA StagesColumns ==
  ASSUME IsModel(state), IsModel(plan), NEW v, IsVersion(v), NEW columns \in NewColumns(v)
  PROVE  \E order \in SetToSeqs(Adds) : ColumnsStaged(v, columns, order)
<1> DEFINE K    == KeptAt(v)
           kept == Pick(v.fields, K)
           upd  == [i \in DOMAIN kept |->
                       IF kept[i].name \in Updates
                       THEN [kept[i] EXCEPT !.def = Get(plan.fields, kept[i].name).def]
                       ELSE kept[i]]
           got(order)  == [i \in DOMAIN order |-> Get(plan.fields, order[i])]
<1>1. PICK order \in SetToSeqs(Adds) : columns = upd \o Columns(got(order), v.next)
  BY DEF NewColumns, KeptAt
<1> DEFINE a == Cardinality(Adds)
           c == Cardinality(K)
           g == got(order)
           new == Columns(g, v.next)
<1>2. a \in Nat /\ order \in [1 .. a -> Adds]
  BY AddsFinite DEF SetToSeqs
<1>3. K \in SUBSET DOMAIN v.fields /\ IsList(v.fields) /\ v.next \in Int
  BY DEF KeptAt, Without, IsVersion
<1> HIDE DEF K
<1>4. /\ c \in Nat /\ DOMAIN kept = 1 .. c
      /\ \A i \in 1 .. c : Nth(K, i) \in K /\ kept[i] = v.fields[Nth(K, i)]
  BY <1>3, PickFacts
<1>5. /\ IsList(upd) /\ Len(upd) = c
      /\ \A i \in 1 .. c : IsKept(upd[i], v.fields[Nth(K, i)])
  <2>1. DOMAIN upd = 1 .. c /\ upd = [i \in 1 .. c |-> upd[i]]
    BY <1>4
  <2>2. IsList(upd) /\ Len(upd) = c
    BY <2>1, <1>4, FunctionIsList
  <2>3. ASSUME NEW i \in 1 .. c
        PROVE  IsKept(upd[i], v.fields[Nth(K, i)])
    <3> DEFINE e == v.fields[Nth(K, i)]
               d == Get(plan.fields, e.name).def
               u == upd[i]
    <3>1. IsTableColumn(e)
      BY <1>3, <1>4 DEF IsVersion
    <3>2. u = IF e.name \in Updates THEN [e EXCEPT !.def = d] ELSE e
      BY <1>4
    <3>3. d = Get(plan.fields, e.name).def
      OBVIOUS
    <3> HIDE DEF e, d, u
    <3>4. CASE e.name \in Updates
      <4>1. u = [name |-> e.name, def |-> d, id |-> e.id]
        BY <3>1, <3>2, <3>4 DEF IsTableColumn
      <4>2. IsTableColumn(u) /\ u.name = e.name /\ u.id = e.id /\ u.def = d
        BY <4>1 DEF IsTableColumn
      <4>3. IsKept(u, e)
        BY <4>2, <3>3, <3>4 DEF IsKept
      <4> QED
        BY <4>3 DEF e, u
    <3>5. CASE e.name \notin Updates
      <4>1. IsKept(u, e)
        BY <3>1, <3>2, <3>5 DEF IsKept
      <4> QED
        BY <4>1 DEF e, u
    <3> QED
      BY <3>4, <3>5
  <2> QED
    BY <2>2, <2>3
<1>6. /\ IsList(g) /\ Len(g) = a
      /\ \A i \in 1 .. a : order[i] \in Adds /\ g[i] = Get(plan.fields, order[i])
  <2>1. DOMAIN g = 1 .. a /\ g = [i \in 1 .. a |-> g[i]]
    BY <1>2
  <2> QED
    BY <2>1, <1>2, FunctionIsList
<1>7. \A n \in Adds : Get(plan.fields, n).name = n
  BY GetByName DEF Adds, Added, IsModel
<1> HIDE DEF upd, g, a
<1>8. /\ IsList(new) /\ Len(new) = a
      /\ \A i \in 1 .. a : IsAdded(new[i], order[i], v.next + i - 1)
  <2>1. /\ IsList(new) /\ Len(new) = a
        /\ \A i \in 1 .. a : /\ IsTableColumn(new[i]) /\ new[i].name = g[i].name
                             /\ new[i].def = g[i].def /\ new[i].id = v.next + i - 1
    BY <1>3, <1>6, ColumnsForm
  <2> HIDE DEF new
  <2> QED
    BY <2>1, <1>6, <1>7 DEF IsAdded
<1> HIDE DEF new, kept, c
<1>9. columns = upd \o new
  BY <1>1 DEF new, g
<1>10. DOMAIN upd = 1 .. c /\ DOMAIN new = 1 .. a
  BY <1>5, <1>8, ListDomain
<1>11. /\ IsList(columns) /\ DOMAIN columns = 1 .. c + a
       /\ \A i \in 1 .. c : columns[i] = upd[i]
       /\ \A i \in 1 .. a : columns[c + i] = new[i]
  BY <1>5, <1>8, <1>9, <1>10, ConcatLists
<1>12. ColumnsStaged(v, columns, order)
  BY <1>2, <1>4, <1>5, <1>8, <1>11 DEF ColumnsStaged, K, a, c
<1> QED
  BY <1>12

(* The staged columns keep names and IDs apart.                            *)
LEMMA StagedColumnsDistinct ==
  ASSUME IsModel(state), IsModel(plan), NEW v, IsVersion(v), SchemaStages(v.fields),
         NEW columns, NEW order \in SetToSeqs(Adds), ColumnsStaged(v, columns, order)
  PROVE  /\ Distinct(columns)
         /\ \A i \in DOMAIN columns : /\ IsTableColumn(columns[i]) /\ columns[i].id \in Int
                                      /\ columns[i].id < v.next + Cardinality(Adds)
         /\ \A i, j \in DOMAIN columns : columns[i].id = columns[j].id => i = j
<1> DEFINE K == KeptAt(v)
           c == Cardinality(K)
           a == Cardinality(Adds)
           F == v.fields
<1>1. /\ c \in Nat /\ a \in Nat /\ DOMAIN columns = 1 .. c + a
      /\ \A i \in 1 .. c : Nth(K, i) \in K /\ IsKept(columns[i], F[Nth(K, i)])
      /\ \A i \in 1 .. a : IsAdded(columns[c + i], order[i], v.next + i - 1)
  BY DEF ColumnsStaged
<1>2. /\ IsList(F) /\ Distinct(F) /\ v.next \in Int
      /\ \A i \in DOMAIN F : F[i].id \in Int /\ F[i].id < v.next /\ F[i].name \in Names(F)
      /\ \A i, j \in DOMAIN F : F[i].id = F[j].id => i = j
  BY DEF IsVersion, Names
<1>3. K \in SUBSET DOMAIN F
  BY DEF KeptAt, Without
<1>4. \A i, j \in 1 .. a : order[i] = order[j] => i = j
  BY AddsFinite, OrderOfSet
<1>5. \A i, j \in 1 .. c : Nth(K, i) = Nth(K, j) => i = j
  BY <1>2, <1>3, PickFacts
<1>6. Adds \cap Names(F) = {}
  BY DEF SchemaStages
<1> HIDE DEF K, c, a, F
<1>7. ASSUME NEW i \in DOMAIN columns
      PROVE  \/ i \in 1 .. c /\ Nth(K, i) \in DOMAIN F /\ IsKept(columns[i], F[Nth(K, i)])
             \/ i - c \in 1 .. a /\ IsAdded(columns[i], order[i - c], v.next + (i - c) - 1)
  <2>1. CASE i <= c
    BY <2>1, <1>1, <1>3
  <2>2. CASE ~(i <= c)
    <3>1. i - c \in 1 .. a /\ c + (i - c) = i
      BY <2>2, <1>1
    <3> QED
      BY <3>1, <1>1
  <2> QED
    BY <2>1, <2>2
<1>8. ASSUME NEW i \in DOMAIN columns
      PROVE  /\ IsTableColumn(columns[i]) /\ columns[i].id \in Int
             /\ columns[i].id < v.next + a
             /\ (i \in 1 .. c => columns[i].id < v.next /\ columns[i].name \in Names(F))
             /\ (i \notin 1 .. c => columns[i].id >= v.next /\ columns[i].name \in Adds)
  <2>1. CASE i \in 1 .. c /\ Nth(K, i) \in DOMAIN F /\ IsKept(columns[i], F[Nth(K, i)])
    <3>1. /\ IsTableColumn(columns[i]) /\ columns[i].id \in Int
          /\ columns[i].id < v.next /\ columns[i].name \in Names(F)
      BY <2>1, <1>2 DEF IsKept
    <3> QED
      BY <2>1, <3>1, <1>1, <1>2
  <2>2. CASE i - c \in 1 .. a /\ IsAdded(columns[i], order[i - c], v.next + (i - c) - 1)
    <3>1. /\ IsTableColumn(columns[i]) /\ columns[i].name \in Adds
          /\ columns[i].id = v.next + (i - c) - 1
      BY <2>2 DEF IsAdded
    <3>2. i \in Int
      BY <1>1
    <3> QED
      BY <2>2, <3>1, <3>2, <1>1, <1>2
  <2> QED
    BY <1>7, <2>1, <2>2
<1>9. ASSUME NEW i \in DOMAIN columns, NEW j \in DOMAIN columns,
             columns[i].name = columns[j].name \/ columns[i].id = columns[j].id
      PROVE  i = j
  <2>1. CASE i \in 1 .. c /\ j \in 1 .. c
    <3>1. Nth(K, i) = Nth(K, j)
      BY <2>1, <1>1, <1>2, <1>3, <1>9 DEF IsKept, Distinct
    <3> QED
      BY <3>1, <2>1, <1>5
  <2>2. CASE i \notin 1 .. c /\ j \notin 1 .. c
    <3>1. /\ i - c \in 1 .. a /\ columns[i].name = order[i - c]
          /\ columns[i].id = v.next + (i - c) - 1
      BY <2>2, <1>7 DEF IsAdded
    <3>2. /\ j - c \in 1 .. a /\ columns[j].name = order[j - c]
          /\ columns[j].id = v.next + (j - c) - 1
      BY <2>2, <1>7 DEF IsAdded
    <3>3. i \in Int /\ j \in Int
      BY <1>1
    <3>4. i - c = j - c
      <4>1. CASE columns[i].name = columns[j].name
        BY <4>1, <3>1, <3>2, <1>4
      <4>2. CASE columns[i].id = columns[j].id
        <5>1. v.next + (i - c) - 1 = v.next + (j - c) - 1
          BY <4>2, <3>1, <3>2
        <5>2. v.next \in Int /\ c \in Nat
          BY <1>1, <1>2
        <5> QED
          BY <5>1, <5>2, <3>3
      <4> QED
        BY <4>1, <4>2, <1>9
    <3> QED
      BY <3>3, <3>4, <1>1
  <2>3. CASE ~(i \in 1 .. c <=> j \in 1 .. c)
    BY <2>3, <1>2, <1>6, <1>8, <1>9
  <2> QED
    BY <2>1, <2>2, <2>3
<1> QED
  BY <1>8, <1>9 DEF Distinct, a

(* The partition fields of a staged version, likewise.                     *)
PartsStaged(v, parts) ==
  /\ IsList(parts) /\ Distinct(parts)
  /\ \A i \in DOMAIN parts :
        \/ \E j \in Without(v.parts, PartDeletes) : parts[i] = v.parts[j]
        \/ parts[i].name \in PartAdds /\ parts[i] = Get(plan.parts, parts[i].name)
  /\ \A j \in Without(v.parts, PartDeletes) : \E i \in DOMAIN parts : parts[i] = v.parts[j]
  /\ \A n \in PartAdds : \E i \in DOMAIN parts : parts[i] = Get(plan.parts, n)

LEMMA StagesParts ==
  ASSUME IsModel(state), IsModel(plan), NEW v, IsVersion(v), NEW columns,
         PartsStage(v, columns), NEW parts \in NewParts(v)
  PROVE  PartsStaged(v, parts)
<1> DEFINE K    == Without(v.parts, PartDeletes)
           kept == Pick(v.parts, K)
           new(order) == [i \in DOMAIN order |-> Get(plan.parts, order[i])]
<1>1. PICK order \in SetToSeqs(PartAdds) : parts = kept \o new(order)
  BY DEF NewParts
<1> DEFINE a == Cardinality(PartAdds)
           c == Cardinality(K)
           added == new(order)
<1>2. /\ a \in Nat /\ order \in [1 .. a -> PartAdds]
      /\ \A i, j \in 1 .. a : order[i] = order[j] => i = j
      /\ \A n \in PartAdds : \E i \in 1 .. a : order[i] = n
  BY AddsFinite, OrderOfSet
<1>3. K \in SUBSET DOMAIN v.parts /\ IsList(v.parts) /\ Distinct(v.parts)
  BY DEF Without, IsVersion
<1>4. \A j \in K : v.parts[j].name \notin PartAdds
  BY DEF PartsStage, Without, Names
<1> HIDE DEF K
<1>5. /\ c \in Nat /\ IsList(kept) /\ Len(kept) = c /\ DOMAIN kept = 1 .. c
      /\ \A i \in 1 .. c : Nth(K, i) \in K /\ kept[i] = v.parts[Nth(K, i)]
      /\ \A j \in K : Rank(K, j) \in 1 .. c /\ kept[Rank(K, j)] = v.parts[j]
      /\ \A i, j \in 1 .. c : i # j => Nth(K, i) # Nth(K, j)
  BY <1>3, PickFacts
<1>6. /\ DOMAIN added = 1 .. a /\ IsList(added) /\ Len(added) = a
      /\ \A i \in 1 .. a : added[i] = Get(plan.parts, order[i])
  <2>1. DOMAIN added = 1 .. a /\ added = [i \in 1 .. a |-> added[i]]
    BY <1>2
  <2> QED
    BY <2>1, <1>2, FunctionIsList
<1>7. \A n \in PartAdds : Get(plan.parts, n).name = n
  BY GetByName DEF PartAdds, Added, Changed, IsModel
<1> HIDE DEF kept, added, a, c
<1>8. parts = kept \o added
  BY <1>1 DEF added
<1>9. /\ IsList(parts)
      /\ \A i \in DOMAIN kept : i \in DOMAIN parts /\ parts[i] = kept[i]
      /\ \A i \in DOMAIN added : c + i \in DOMAIN parts /\ parts[c + i] = added[i]
      /\ \A i \in DOMAIN parts :
            \/ i \in DOMAIN kept /\ parts[i] = kept[i]
            \/ i \notin DOMAIN kept /\ i - c \in DOMAIN added /\ parts[i] = added[i - c]
      /\ DOMAIN parts \subseteq Int
  BY <1>5, <1>6, <1>8, ConcatLists
<1>10. ASSUME NEW i \in DOMAIN parts
       PROVE  \/ i \in 1 .. c /\ Nth(K, i) \in K /\ parts[i] = v.parts[Nth(K, i)]
              \/ /\ i \notin 1 .. c /\ i - c \in 1 .. a /\ parts[i].name = order[i - c]
                 /\ order[i - c] \in PartAdds /\ parts[i] = Get(plan.parts, parts[i].name)
  BY <1>2, <1>5, <1>6, <1>7, <1>9
<1>11. ASSUME NEW i \in DOMAIN parts, NEW j \in DOMAIN parts, parts[i].name = parts[j].name
       PROVE  i = j
  <2>1. CASE i \in 1 .. c /\ j \in 1 .. c
    <3>1. Nth(K, i) = Nth(K, j)
      BY <2>1, <1>3, <1>10, <1>11 DEF Distinct
    <3> QED
      BY <3>1, <2>1, <1>5
  <2>2. CASE i \notin 1 .. c /\ j \notin 1 .. c
    <3>1. i - c = j - c
      BY <2>2, <1>2, <1>10, <1>11
    <3> QED
      BY <3>1, <1>5, <1>9
  <2>3. CASE i \in 1 .. c /\ j \notin 1 .. c
    BY <2>3, <1>4, <1>10, <1>11
  <2>4. CASE i \notin 1 .. c /\ j \in 1 .. c
    BY <2>4, <1>4, <1>10, <1>11
  <2> QED
    BY <2>1, <2>2, <2>3, <2>4
<1>12. Distinct(parts)
  BY <1>11 DEF Distinct
<1>13. \A i \in DOMAIN parts :
          \/ \E j \in K : parts[i] = v.parts[j]
          \/ parts[i].name \in PartAdds /\ parts[i] = Get(plan.parts, parts[i].name)
  BY <1>10
<1>14. \A j \in K : \E i \in DOMAIN parts : parts[i] = v.parts[j]
  BY <1>5, <1>9
<1>15. \A n \in PartAdds : \E i \in DOMAIN parts : parts[i] = Get(plan.parts, n)
  <2>1. ASSUME NEW n \in PartAdds
        PROVE  \E i \in DOMAIN parts : parts[i] = Get(plan.parts, n)
    <3>1. PICK k \in 1 .. a : order[k] = n
      BY <1>2
    <3>2. c + k \in DOMAIN parts /\ parts[c + k] = added[k]
      BY <1>6, <1>9
    <3> QED
      BY <3>1, <3>2, <1>6
  <2> QED
    BY <2>1
<1> QED
  BY <1>9, <1>12, <1>13, <1>14, <1>15 DEF PartsStaged, K
(* What S3Promise asks of a change, in terms of what is staged.  The       *)
(* members of a list with one name: at most one.                           *)
LEMMA OfByName ==
  ASSUME NEW s, Distinct(s), NEW n
  PROVE  Promise!Of(s, n) = IF n \in Names(s) THEN {Get(s, n)} ELSE {}
<1>1. CASE n \in Names(s)
  <2>1. PICK i \in DOMAIN s : s[i].name = n /\ Get(s, n) = s[i]
    BY <1>1, GetByName
  <2>2. \A j \in DOMAIN s : s[j].name = n => j = i
    BY <2>1 DEF Distinct
  <2>3. Promise!Of(s, n) = {s[i]}
    BY <2>1, <2>2 DEF Promise!Of, Promise!Members
  <2> QED
    BY <1>1, <2>1, <2>3
<1>2. CASE n \notin Names(s)
  BY <1>2 DEF Promise!Of, Promise!Members, Names
<1> QED
  BY <1>1, <1>2

(* The staged columns are those of the loaded version, altered as planned. *)
LEMMA ColumnsAltered ==
  ASSUME IsModel(state), IsModel(plan), NEW v, IsVersion(v),
         NEW columns, NEW order \in SetToSeqs(Adds), ColumnsStaged(v, columns, order)
  PROVE  Promise!Altered(v.fields, columns, v.next, state.fields, plan.fields)
<1> DEFINE S == state.fields
           P == plan.fields
           K == KeptAt(v)
           c == Cardinality(K)
           a == Cardinality(Adds)
           dropped == Promise!NamesOf(S) \ Promise!NamesOf(P)
           added   == Promise!NamesOf(P) \ Promise!NamesOf(S)
<1>1. dropped = Deletes /\ added = Adds
  BY DEF Promise!NamesOf, Names, Deletes, Adds, Removed, Added
<1>2. /\ c \in Nat /\ a \in Nat /\ DOMAIN columns = 1 .. c + a
      /\ \A j \in 1 .. c : Nth(K, j) \in K /\ IsKept(columns[j], v.fields[Nth(K, j)])
      /\ \A j \in 1 .. a : IsAdded(columns[c + j], order[j], v.next + j - 1)
  BY DEF ColumnsStaged
<1>3. /\ v.next \in Int /\ IsList(v.fields) /\ K \in SUBSET DOMAIN v.fields
      /\ K = {i \in DOMAIN v.fields : v.fields[i].name \notin Deletes}
      /\ \A i \in DOMAIN v.fields : v.fields[i].id \in Int /\ v.fields[i].id < v.next
      /\ \A i, j \in DOMAIN v.fields : v.fields[i].id = v.fields[j].id => i = j
  BY DEF IsVersion, KeptAt, Without
<1>4. /\ IsFiniteSet(K) /\ K \in SUBSET Int
      /\ \A i \in K : Rank(K, i) \in 1 .. c /\ Nth(K, Rank(K, i)) = i
      /\ \A j, k \in 1 .. c : j < k => Nth(K, j) < Nth(K, k)
  <2>1. IsFiniteSet(K) /\ K \in SUBSET Int
    BY <1>3, PickFacts, ListDomain
  <2> QED
    BY <2>1, NthOfRank, NthGrows
<1>5. \A n \in Adds : \E j \in 1 .. a : order[j] = n
  BY AddsFinite, OrderOfSet
<1>6. Distinct(S) /\ Distinct(P) /\ \A i \in DOMAIN P : IsColumn(P[i])
  BY DEF IsModel
<1>7. ASSUME NEW n \in Updates \cup Adds
      PROVE  [name |-> n, def |-> Get(P, n).def] \in Promise!Members(P)
  <2>1. n \in Names(P)
    BY DEF Updates, Adds, Changed, Added
  <2>2. PICK i \in DOMAIN P : P[i].name = n /\ Get(P, n) = P[i]
    BY <2>1, <1>6, GetByName
  <2>3. P[i] = [name |-> n, def |-> Get(P, n).def]
    BY <2>2, <1>6 DEF IsColumn
  <2> QED
    BY <2>2, <2>3 DEF Promise!Members
<1>8. ASSUME NEW n \in Updates
      PROVE  Promise!Of(S, n) # Promise!Of(P, n)
  <2>1. n \in Names(S) /\ n \in Names(P) /\ Get(S, n) # Get(P, n)
    BY DEF Updates, Changed
  <2>2. Promise!Of(S, n) = {Get(S, n)} /\ Promise!Of(P, n) = {Get(P, n)}
    BY <2>1, <1>6, OfByName
  <2> QED
    BY <2>1, <2>2
<1> HIDE DEF K, c, a, S, P, dropped, added
(* A column that is staged is a kept one or an added one.                  *)
<1>9. ASSUME NEW j \in 1 .. c
      PROVE  /\ Nth(K, j) \in DOMAIN v.fields /\ v.fields[Nth(K, j)].name \notin Deletes
             /\ v.fields[Nth(K, j)].id = columns[j].id
             /\ Promise!SameColumn(v.fields[Nth(K, j)], columns[j], S, P)
  <2>1. Nth(K, j) \in K /\ IsKept(columns[j], v.fields[Nth(K, j)])
    BY <1>2
  <2>2. CASE v.fields[Nth(K, j)].name \in Updates
    BY <2>1, <2>2, <1>3, <1>7, <1>8 DEF IsKept, Promise!SameColumn, P
  <2>3. CASE v.fields[Nth(K, j)].name \notin Updates
    BY <2>1, <2>3, <1>3 DEF IsKept, Promise!SameColumn
  <2> QED
    BY <2>2, <2>3
<1>10. ASSUME NEW j \in DOMAIN columns, j \notin 1 .. c
       PROVE  /\ j - c \in 1 .. a /\ columns[j].name = order[j - c]
              /\ columns[j].name \in Adds /\ columns[j].id \in Int /\ columns[j].id >= v.next
              /\ [name |-> columns[j].name, def |-> columns[j].def] \in Promise!Members(P)
  <2>1. j - c \in 1 .. a /\ c + (j - c) = j
    BY <1>2, <1>10
  <2>2. IsAdded(columns[j], order[j - c], v.next + (j - c) - 1)
    BY <2>1, <1>2
  <2>3. columns[j].id = v.next + (j - c) - 1
    BY <2>2 DEF IsAdded
  <2> QED
    BY <2>1, <2>2, <2>3, <1>2, <1>3, <1>7 DEF IsAdded, P
<1>11. ASSUME NEW i \in DOMAIN v.fields, v.fields[i].name \notin Deletes
       PROVE  \E j \in DOMAIN columns : Promise!SameColumn(v.fields[i], columns[j], S, P)
  <2>1. Rank(K, i) \in 1 .. c /\ Nth(K, Rank(K, i)) = i
    BY <1>3, <1>4, <1>11
  <2>2. Rank(K, i) \in DOMAIN columns
    BY <2>1, <1>2
  <2> QED
    BY <2>1, <2>2, <1>9
<1>12. ASSUME NEW j \in DOMAIN columns
       PROVE  \/ \E i \in DOMAIN v.fields : v.fields[i].name \notin Deletes /\ v.fields[i].id = columns[j].id
              \/ /\ columns[j].name \in Adds /\ columns[j].id >= v.next
                 /\ [name |-> columns[j].name, def |-> columns[j].def] \in Promise!Members(P)
  BY <1>9, <1>10
<1>13. Adds \subseteq Promise!NamesOf(columns)
  <2>1. ASSUME NEW n \in Adds PROVE \E j \in DOMAIN columns : columns[j].name = n
    <3>1. PICK k \in 1 .. a : order[k] = n
      BY <1>5
    <3>2. c + k \in DOMAIN columns /\ columns[c + k].name = n
      BY <3>1, <1>2 DEF IsAdded
    <3> QED
      BY <3>2
  <2> QED
    BY <2>1 DEF Promise!NamesOf
<1>14. ASSUME NEW j \in DOMAIN columns, NEW k \in DOMAIN columns, j < k,
              NEW i \in DOMAIN v.fields, v.fields[i].id = columns[k].id
       PROVE  \E h \in DOMAIN v.fields : h < i /\ v.fields[h].id = columns[j].id
  <2>1. k \in 1 .. c
    <3>1. v.next \in Int /\ v.fields[i].id \in Int /\ v.fields[i].id < v.next
      BY <1>3, <1>14
    <3>2. ASSUME k \notin 1 .. c PROVE columns[k].id >= v.next
      BY <3>2, <1>10
    <3> QED
      BY <3>1, <3>2, <1>14
  <2>2. j \in 1 .. c
    BY <2>1, <1>2, <1>14
  <2>3. Nth(K, k) = i
    BY <2>1, <1>3, <1>9, <1>14
  <2>4. Nth(K, j) < i
    BY <2>1, <2>2, <2>3, <1>4, <1>14
  <2> QED
    BY <2>2, <2>4, <1>9
<1> QED
  BY <1>1, <1>11, <1>12, <1>13, <1>14 DEF Promise!Altered, S, P, dropped, added

(* The staged partition fields are those of the loaded version, likewise.  *)
LEMMA PartsRepartitioned ==
  ASSUME IsModel(state), IsModel(plan), NEW v, IsVersion(v), NEW columns,
         PartsStage(v, columns), NEW parts, PartsStaged(v, parts)
  PROVE  Promise!Repartitioned(v.parts, parts, state.parts, plan.parts)
<1> DEFINE S == state.parts
           P == plan.parts
           D == {n \in Promise!NamesOf(S) \cup Promise!NamesOf(P) : Promise!Of(S, n) # Promise!Of(P, n)}
<1>1. Distinct(S) /\ Distinct(P)
  BY DEF IsModel
<1>2. Promise!NamesOf(S) = Names(S) /\ Promise!NamesOf(P) = Names(P)
  BY DEF Promise!NamesOf, Names
<1>3. ASSUME NEW n \in Names(S) \cup Names(P)
      PROVE  Promise!Of(S, n) # Promise!Of(P, n) <=> n \in PartDeletes \cup PartAdds
  <2>1. /\ Promise!Of(S, n) = IF n \in Names(S) THEN {Get(S, n)} ELSE {}
        /\ Promise!Of(P, n) = IF n \in Names(P) THEN {Get(P, n)} ELSE {}
    BY <1>1, OfByName
  <2> QED
    BY <2>1 DEF PartDeletes, PartAdds, Removed, Added, Changed
<1>4. PartDeletes \cup PartAdds \subseteq Names(S) \cup Names(P)
  BY DEF PartDeletes, PartAdds, Removed, Added, Changed
<1>5. D = PartDeletes \cup PartAdds
  BY <1>2, <1>3, <1>4
<1>6. \A n \in Names(P) : n \in D <=> n \in PartAdds
  BY <1>5 DEF PartDeletes, PartAdds, Removed, Added, Changed
<1>7. \A j \in Without(v.parts, PartDeletes) : v.parts[j].name \notin PartAdds
  BY DEF PartsStage, Without, Names
<1>8. \A n \in PartAdds : n \in Names(P) /\ n \in D /\ Get(P, n).name = n
  BY <1>1, <1>5, GetByName DEF PartAdds, Added, Changed
<1> HIDE DEF D, S, P
<1>9. ASSUME NEW p \in Promise!Members(parts)
      PROVE  \/ p \in Promise!Members(v.parts) /\ p.name \notin D
             \/ p \in Promise!Members(P) /\ p.name \in D
  <2>1. PICK i \in DOMAIN parts : p = parts[i]
    BY DEF Promise!Members
  <2>2. CASE \E j \in Without(v.parts, PartDeletes) : parts[i] = v.parts[j]
    <3>1. PICK j \in Without(v.parts, PartDeletes) : p = v.parts[j]
      BY <2>1, <2>2
    <3>2. j \in DOMAIN v.parts /\ p.name \notin PartDeletes /\ p.name \notin PartAdds
      BY <3>1, <1>7 DEF Without
    <3> QED
      BY <3>1, <3>2, <1>5 DEF Promise!Members
  <2>3. CASE parts[i].name \in PartAdds /\ parts[i] = Get(plan.parts, parts[i].name)
    <3>1. PICK k \in DOMAIN P : P[k].name = p.name /\ Get(P, p.name) = P[k]
      BY <2>1, <2>3, <1>1, <1>8, GetByName
    <3> QED
      BY <3>1, <2>1, <2>3, <1>8 DEF Promise!Members, P
  <2> QED
    BY <2>2, <2>3 DEF PartsStaged
<1>10. ASSUME NEW p \in Promise!Members(v.parts), p.name \notin D
       PROVE  p \in Promise!Members(parts)
  <2>1. PICK j \in DOMAIN v.parts : p = v.parts[j]
    BY DEF Promise!Members
  <2>2. j \in Without(v.parts, PartDeletes)
    BY <2>1, <1>5, <1>10 DEF Without
  <2> QED
    BY <2>1, <2>2 DEF PartsStaged, Promise!Members
<1>11. ASSUME NEW p \in Promise!Members(P), p.name \in D
       PROVE  p \in Promise!Members(parts)
  <2>1. PICK k \in DOMAIN P : p = P[k]
    BY DEF Promise!Members
  <2>2. p.name \in Names(P) /\ Get(P, p.name) = p
    BY <2>1, <1>1, GetByName
  <2>3. p.name \in PartAdds
    BY <2>2, <1>6, <1>11
  <2>4. \E i \in DOMAIN parts : parts[i] = Get(P, p.name)
    BY <2>3 DEF PartsStaged, P
  <2> QED
    BY <2>2, <2>4 DEF Promise!Members
<1>12. Promise!Members(parts) = {p \in Promise!Members(v.parts) : p.name \notin D}
                                  \cup {p \in Promise!Members(P) : p.name \in D}
  BY <1>9, <1>10, <1>11
<1> QED
  BY <1>12 DEF Promise!Repartitioned, D, S, P
------------------------------------------------------------------------------
(* What a staged version w has to do with the version v it was staged from *)
(* and with the state s and the plan p: it keeps every column the plan did *)
(* not show as removed, and what it adds has names that v does not have;   *)
(* if v is as planned already, w is; and w is as planned if v is as in the *)
(* state and the plan extends it.                                          *)
Stages(s, p, v, w) ==
  /\ IsVersion(v) /\ IsVersion(w)
  /\ \A i \in DOMAIN v.fields :
        \/ v.fields[i].name \in Removed(s.fields, p.fields)
        \/ \E j \in DOMAIN w.fields : /\ w.fields[j].id = v.fields[i].id
                                      /\ w.fields[j].name = v.fields[i].name
  /\ \A j \in DOMAIN w.fields :
        \/ w.fields[j].name \notin Names(v.fields)
        \/ \E i \in DOMAIN v.fields : /\ v.fields[i].id = w.fields[j].id
                                      /\ v.fields[i].name = w.fields[j].name
  /\ Promise!Altered(v.fields, w.fields, v.next, s.fields, p.fields)
  /\ Promise!Repartitioned(v.parts, w.parts, s.parts, p.parts)
  /\ Shows(v, p) => Shows(w, p)
  /\ View(v) = s /\ Extends(s.fields, p.fields) => Shows(w, p)

LEMMA PartsAsPlanned ==
  ASSUME IsModel(plan), NEW v, NEW parts, PartsStaged(v, parts),
         \A j \in Without(v.parts, PartDeletes) : v.parts[j] \in ToSet(plan.parts),
         \A q \in ToSet(plan.parts) :
            \/ q.name \in PartAdds
            \/ \E j \in Without(v.parts, PartDeletes) : v.parts[j] = q
  PROVE  Len(parts) = Len(plan.parts) /\ ToSet(parts) = ToSet(plan.parts)
<1>1. /\ IsList(plan.parts) /\ Distinct(plan.parts) /\ IsList(parts) /\ Distinct(parts)
  BY DEF IsModel, PartsStaged
<1>2. PartAdds \subseteq Names(plan.parts)
  BY DEF PartAdds, Added, Changed
<1>3. /\ \A n \in PartAdds : Get(plan.parts, n) \in ToSet(plan.parts)
      /\ \A q \in ToSet(plan.parts) : Get(plan.parts, q.name) = q
  BY <1>1, <1>2, GetByName DEF ToSet
<1>4. ASSUME NEW i \in DOMAIN parts
      PROVE  parts[i] \in ToSet(plan.parts)
  BY <1>3 DEF PartsStaged
<1>5. ASSUME NEW q \in ToSet(plan.parts)
      PROVE  q \in ToSet(parts)
  <2>1. CASE q.name \in PartAdds
    BY <2>1, <1>3 DEF PartsStaged, ToSet
  <2>2. CASE \E j \in Without(v.parts, PartDeletes) : v.parts[j] = q
    BY <2>2 DEF PartsStaged, ToSet
  <2> QED
    BY <2>1, <2>2
<1>6. ToSet(parts) = ToSet(plan.parts)
  BY <1>4, <1>5 DEF ToSet
<1>7. Cardinality(ToSet(parts)) = Len(parts)
  BY <1>1, DistinctLength DEF Distinct, ToSet
<1>8. Cardinality(ToSet(plan.parts)) = Len(plan.parts)
  BY <1>1, DistinctLength DEF Distinct, ToSet
<1> QED
  BY <1>6, <1>7, <1>8

(* A table that is already as planned is staged as planned.                *)
LEMMA AlreadyAsPlanned ==
  ASSUME IsModel(state), IsModel(plan), NEW v, IsVersion(v), SchemaStages(v.fields),
         NEW columns, NEW order \in SetToSeqs(Adds), ColumnsStaged(v, columns, order),
         NEW parts, PartsStaged(v, parts), Shows(v, plan)
  PROVE  /\ DOMAIN columns = DOMAIN plan.fields
         /\ \A i \in DOMAIN columns : /\ columns[i].name = plan.fields[i].name
                                      /\ columns[i].def = plan.fields[i].def
         /\ Len(parts) = Len(plan.parts) /\ ToSet(parts) = ToSet(plan.parts)
<1> DEFINE F == v.fields
           P == plan.fields
           n == Len(P)
<1>1. /\ DOMAIN F = 1 .. n /\ DOMAIN P = 1 .. n /\ n \in Nat /\ Distinct(P)
      /\ \A i \in 1 .. n : F[i].name = P[i].name /\ F[i].def = P[i].def
  <2>1. View(v).fields = P
    BY DEF Shows
  <2>2. IsList(P) /\ Distinct(P)
    BY DEF IsModel
  <2> QED
    BY <2>1, <2>2, ViewIsModel, ListDomain
<1>2. Names(F) = Names(P)
  BY <1>1 DEF Names
<1>3. Deletes = {} /\ Adds = {}
  BY <1>2 DEF SchemaStages, Deletes, Adds, Removed, Added
<1>4. KeptAt(v) = 1 .. n
  BY <1>1, <1>3 DEF KeptAt, Without
<1>5. Cardinality(KeptAt(v)) = n /\ \A i \in 1 .. n : Nth(KeptAt(v), i) = i
  BY <1>1, <1>4, NthOfAll
<1>6. Cardinality(Adds) = 0
  BY <1>3, FS_EmptySet
<1>7. DOMAIN columns = 1 .. n /\ \A i \in 1 .. n : IsKept(columns[i], F[i])
  BY <1>1, <1>5, <1>6 DEF ColumnsStaged
<1>8. \A i \in 1 .. n : Get(P, P[i].name) = P[i]
  BY <1>1, GetByName
<1>9. \A i \in 1 .. n : columns[i].name = P[i].name /\ columns[i].def = P[i].def
  BY <1>1, <1>7, <1>8 DEF IsKept
<1>10. ToSet(v.parts) = ToSet(plan.parts)
  BY DEF Shows
<1>11. \A j \in Without(v.parts, PartDeletes) : v.parts[j] \in ToSet(plan.parts)
  BY <1>10 DEF Without, ToSet
<1>12. ASSUME NEW q \in ToSet(plan.parts)
       PROVE  \/ q.name \in PartAdds
              \/ \E j \in Without(v.parts, PartDeletes) : v.parts[j] = q
  <2>1. PICK j \in DOMAIN v.parts : v.parts[j] = q
    BY <1>10 DEF ToSet
  <2>2. q.name \in Names(plan.parts)
    BY DEF Names, ToSet
  <2>3. CASE q.name \in PartDeletes
    BY <2>2, <2>3 DEF PartDeletes, PartAdds, Removed
  <2>4. CASE q.name \notin PartDeletes
    BY <2>1, <2>4 DEF Without
  <2> QED
    BY <2>3, <2>4
<1>13. Len(parts) = Len(plan.parts) /\ ToSet(parts) = ToSet(plan.parts)
  BY <1>11, <1>12, PartsAsPlanned
<1> QED
  BY <1>1, <1>7, <1>9, <1>13

(* A table that is as the state says, and a plan that extends the state:   *)
(* what is staged is what is planned.                                      *)
LEMMA ExtendedAsPlanned ==
  ASSUME IsModel(state), IsModel(plan), NEW v, IsVersion(v),
         NEW columns, NEW order \in SetToSeqs(Adds), ColumnsStaged(v, columns, order),
         NEW parts, PartsStaged(v, parts),
         View(v) = state, Extends(state.fields, plan.fields)
  PROVE  /\ DOMAIN columns = DOMAIN plan.fields
         /\ \A i \in DOMAIN columns : /\ columns[i].name = plan.fields[i].name
                                      /\ columns[i].def = plan.fields[i].def
         /\ Len(parts) = Len(plan.parts) /\ ToSet(parts) = ToSet(plan.parts)
<1> DEFINE F == v.fields
           S == state.fields
           P == plan.fields
           K == KeptAt(v)
           c == Cardinality(K)
           a == Cardinality(Adds)
           n == Len(P)
<1>1. /\ DOMAIN F = DOMAIN S /\ v.parts = state.parts
      /\ \A i \in DOMAIN S : F[i].name = S[i].name /\ F[i].def = S[i].def
  BY ViewIsModel
<1>2. /\ DOMAIN P = 1 .. n /\ n \in Nat /\ Distinct(P) /\ IsList(S) /\ Distinct(S)
      /\ \A i \in DOMAIN S : IsColumn(S[i])
      /\ \A i \in DOMAIN P : IsColumn(P[i])
  BY ListDomain DEF IsModel
<1>3. K = Without(S, Removed(S, P)) /\ K \in SUBSET DOMAIN S
  BY <1>1 DEF KeptAt, Without, Deletes
<1>4. /\ IsFiniteSet(K) /\ DOMAIN Pick(S, K) = 1 .. c /\ Len(Pick(S, K)) = c
      /\ \A i \in 1 .. c : Nth(K, i) \in K /\ Pick(S, K)[i] = S[Nth(K, i)]
      /\ \A i \in K : Rank(K, i) \in 1 .. c /\ Pick(S, K)[Rank(K, i)] = S[i]
  BY <1>2, <1>3, PickFacts
<1>5. /\ a <= 1 /\ c <= n
      /\ \A i \in 1 .. c : P[i].name = S[Nth(K, i)].name
      /\ \A i \in K : P[Rank(K, i)].name = S[i].name
  <2> HIDE DEF K, S, P
  <2>1. Extends(S, P) /\ Adds = Added(S, P)
    BY DEF S, P, Adds
  <2>2. /\ a <= 1 /\ Len(Pick(S, K)) <= n
        /\ \A i \in DOMAIN Pick(S, K) : P[i].name = Pick(S, K)[i].name
    BY <2>1, <1>3 DEF Extends
  <2> QED
    BY <2>2, <1>4
<1>6. /\ c \in Nat /\ a \in Nat /\ DOMAIN columns = 1 .. c + a
      /\ \A i \in 1 .. c : Nth(K, i) \in K /\ IsKept(columns[i], F[Nth(K, i)])
      /\ \A i \in 1 .. a : IsAdded(columns[c + i], order[i], v.next + i - 1)
  BY DEF ColumnsStaged
<1>7. IsFiniteSet(Adds)
  BY AddsFinite
<1>8. \A i \in DOMAIN P : P[i].name \in Names(P) /\ Get(P, P[i].name) = P[i]
  BY <1>2, GetByName
<1>9. \A i \in DOMAIN S : S[i].name \in Names(S) /\ Get(S, S[i].name) = S[i]
  BY <1>2, GetByName
<1>10. K = {i \in DOMAIN S : S[i].name \in Names(P)}
  BY <1>3, <1>9 DEF Without, Removed
<1>11. /\ Adds = {m \in Names(P) : m \notin Names(S)}
       /\ Updates = {m \in Names(S) \cap Names(P) : Get(S, m) # Get(P, m)}
  BY DEF Adds, Added, Updates, Changed
<1> HIDE DEF K, c, a, F, S, P, n
(* The columns that the plan has after the kept ones are the added ones.   *)
<1>12. ASSUME NEW i \in 1 .. n
       PROVE  i \in 1 .. c <=> P[i].name \notin Adds
  <2>1. ASSUME i \in 1 .. c PROVE P[i].name \notin Adds
    BY <2>1, <1>3, <1>4, <1>5, <1>9, <1>11
  <2>2. ASSUME P[i].name \notin Adds PROVE i \in 1 .. c
    <3>1. PICK j \in DOMAIN S : S[j].name = P[i].name
      BY <2>2, <1>2, <1>8, <1>11 DEF Names
    <3>2. j \in K
      BY <3>1, <1>2, <1>8, <1>10
    <3>3. Rank(K, j) \in 1 .. c /\ P[Rank(K, j)].name = P[i].name
      BY <3>1, <3>2, <1>4, <1>5
    <3>4. Rank(K, j) \in 1 .. n
      BY <3>3, <1>2, <1>5, <1>6
    <3>5. Rank(K, j) = i
      BY <3>3, <3>4, <1>2 DEF Distinct
    <3> QED
      BY <3>3, <3>5
  <2> QED
    BY <2>1, <2>2
<1>13. \A x, y \in Adds : x = y
  <2>1. CASE a = 0
    BY <2>1, <1>7, FS_EmptySet DEF a
  <2>2. CASE a = 1
    BY <2>2, <1>7, FS_Singleton DEF a
  <2> QED
    BY <2>1, <2>2, <1>5, <1>6
<1>14. n = c + a
  <2>1. CASE a = 0
    <3>1. Adds = {}
      BY <2>1, <1>7, FS_EmptySet DEF a
    <3>2. n \in 1 .. n => n \in 1 .. c
      BY <3>1, <1>12
    <3> QED
      BY <2>1, <3>2, <1>2, <1>5, <1>6
  <2>2. CASE a = 1
    <3>1. PICK x : x \in Adds
      BY <2>2, <1>7, FS_Singleton DEF a
    <3>2. PICK j \in DOMAIN P : P[j].name = x
      BY <3>1, <1>11 DEF Names
    <3>3. j \in 1 .. n /\ j \notin 1 .. c
      BY <3>1, <3>2, <1>2, <1>12
    <3>4. c + 1 <= n
      BY <3>3, <1>2, <1>6
    <3>5. ~(c + 2 <= n)
      <4>1. SUFFICES ASSUME c + 2 <= n PROVE FALSE
        OBVIOUS
      <4>2. c + 1 \in 1 .. n /\ c + 2 \in 1 .. n /\ c + 1 \notin 1 .. c /\ c + 2 \notin 1 .. c
        BY <4>1, <1>2, <1>6
      <4>3. P[c + 1].name \in Adds /\ P[c + 2].name \in Adds
        BY <4>2, <1>12
      <4>4. c + 1 = c + 2
        BY <4>2, <4>3, <1>2, <1>13 DEF Distinct
      <4> QED
        BY <4>4, <1>6
    <3> QED
      BY <2>2, <3>4, <3>5, <1>2, <1>6
  <2> QED
    BY <2>1, <2>2, <1>5, <1>6
<1>15. ASSUME NEW i \in DOMAIN columns
       PROVE  columns[i].name = P[i].name /\ columns[i].def = P[i].def
  <2>1. i \in 1 .. n /\ i \in DOMAIN P
    BY <1>2, <1>6, <1>14
  <2>2. CASE i \in 1 .. c
    <3> DEFINE k == Nth(K, i)
    <3>1. k \in DOMAIN S /\ IsKept(columns[i], F[k]) /\ S[k].name = P[i].name
      BY <2>2, <1>3, <1>5, <1>6
    <3> HIDE DEF k
    <3>2. F[k].name = P[i].name /\ F[k].def = S[k].def
      BY <3>1, <1>1 DEF F, S
    <3>3. Get(P, P[i].name) = P[i] /\ Get(S, P[i].name) = S[k]
      BY <2>1, <3>1, <1>8, <1>9
    <3>4. CASE P[i].name \in Updates
      BY <3>1, <3>2, <3>3, <3>4 DEF IsKept, P
    <3>5. CASE P[i].name \notin Updates
      <4>1. S[k] = P[i]
        BY <2>1, <3>1, <3>3, <3>5, <1>8, <1>9, <1>11
      <4> QED
        BY <4>1, <3>1, <3>2, <3>5 DEF IsKept
    <3> QED
      BY <3>4, <3>5
  <2>3. CASE i \notin 1 .. c
    <3>1. i - c \in 1 .. a /\ c + (i - c) = i
      BY <2>3, <1>6
    <3>2. PICK m, id : IsAdded(columns[i], m, id)
      BY <3>1, <1>6
    <3>3. m = P[i].name
      BY <2>1, <2>3, <3>2, <1>12, <1>13 DEF IsAdded
    <3> QED
      BY <2>1, <3>2, <3>3, <1>8 DEF IsAdded, P
  <2> QED
    BY <2>2, <2>3
<1>16. DOMAIN columns = DOMAIN P
  BY <1>2, <1>6, <1>14
<1>17. /\ \A q \in ToSet(plan.parts) : q.name \in Names(plan.parts) /\ Get(plan.parts, q.name) = q
       /\ \A q \in ToSet(state.parts) : q.name \in Names(state.parts) /\ Get(state.parts, q.name) = q
       /\ \A m \in Names(plan.parts) : Get(plan.parts, m) \in ToSet(plan.parts)
       /\ \A m \in Names(state.parts) : \E j \in DOMAIN state.parts :
             state.parts[j].name = m /\ Get(state.parts, m) = state.parts[j]
  BY GetByName DEF IsModel, ToSet
<1>18. ASSUME NEW j \in Without(v.parts, PartDeletes)
       PROVE  v.parts[j] \in ToSet(plan.parts)
  <2> DEFINE q == state.parts[j]
  <2>1. v.parts[j] = q /\ q \in ToSet(state.parts) /\ q.name \notin PartDeletes
    BY <1>1 DEF Without, ToSet
  <2> HIDE DEF q
  <2>2. q.name \in Names(plan.parts) /\ Get(state.parts, q.name) = Get(plan.parts, q.name)
    BY <2>1, <1>17 DEF PartDeletes, Removed, Changed
  <2> QED
    BY <2>1, <2>2, <1>17
<1>19. ASSUME NEW q \in ToSet(plan.parts)
       PROVE  \/ q.name \in PartAdds
              \/ \E j \in Without(v.parts, PartDeletes) : v.parts[j] = q
  <2>1. SUFFICES ASSUME q.name \notin PartAdds
                 PROVE  \E j \in Without(v.parts, PartDeletes) : v.parts[j] = q
    OBVIOUS
  <2>2. /\ q.name \in Names(state.parts) \cap Names(plan.parts)
        /\ Get(state.parts, q.name) = q /\ q.name \notin PartDeletes
    BY <2>1, <1>17 DEF PartAdds, PartDeletes, Added, Removed, Changed
  <2>3. PICK j \in DOMAIN state.parts : state.parts[j].name = q.name /\ state.parts[j] = q
    BY <2>2, <1>17
  <2> QED
    BY <2>2, <2>3, <1>1 DEF Without
<1>20. Len(parts) = Len(plan.parts) /\ ToSet(parts) = ToSet(plan.parts)
  BY <1>18, <1>19, PartsAsPlanned
<1> QED
  BY <1>15, <1>16, <1>20 DEF P

(* Everything a later step needs to know of a version that was staged.     *)
LEMMA StagedStages ==
  ASSUME IsModel(state), IsModel(plan), NEW v, IsVersion(v), Stageable(v),
         NEW columns \in NewColumns(v), PartsStage(v, columns),
         NEW parts \in NewParts(v),
         NEW w, w = [fields |-> columns, parts |-> parts, next |-> v.next + Cardinality(Adds)]
  PROVE  Stages(state, plan, v, w)
<1> DEFINE K == KeptAt(v)
           c == Cardinality(K)
           a == Cardinality(Adds)
<1>1. PICK order \in SetToSeqs(Adds) : ColumnsStaged(v, columns, order)
  BY StagesColumns
<1>2. PartsStaged(v, parts)
  BY StagesParts
<1>3. SchemaStages(v.fields)
  BY DEF Stageable
<1>4. w.fields = columns /\ w.parts = parts /\ w.next = v.next + a
  OBVIOUS
<1>5. /\ Distinct(columns)
      /\ \A i \in DOMAIN columns : /\ IsTableColumn(columns[i]) /\ columns[i].id \in Int
                                   /\ columns[i].id < v.next + a
      /\ \A i, j \in DOMAIN columns : columns[i].id = columns[j].id => i = j
  BY <1>1, <1>3, StagedColumnsDistinct
<1>6. /\ c \in Nat /\ a \in Nat /\ IsList(columns) /\ DOMAIN columns = 1 .. c + a
      /\ \A i \in 1 .. c : Nth(K, i) \in K /\ IsKept(columns[i], v.fields[Nth(K, i)])
      /\ \A i \in 1 .. a : IsAdded(columns[c + i], order[i], v.next + i - 1)
  BY <1>1 DEF ColumnsStaged
<1>7. /\ v.next \in Int /\ IsList(v.fields) /\ K \in SUBSET DOMAIN v.fields
      /\ \A i \in DOMAIN v.fields : v.fields[i].name \notin Deletes => i \in K
  BY DEF IsVersion, KeptAt, Without
<1> HIDE DEF K, c, a
<1>8. IsVersion(w)
  <2>1. v.next + a \in Int
    BY <1>6, <1>7
  <2>2. IsList(parts) /\ Distinct(parts)
    BY <1>2 DEF PartsStaged
  <2>3. w = [fields |-> w.fields, parts |-> w.parts, next |-> w.next]
    OBVIOUS
  <2> QED
    BY <2>1, <2>2, <2>3, <1>4, <1>5, <1>6 DEF IsVersion
<1>9. \A i \in K : Rank(K, i) \in 1 .. c /\ Nth(K, Rank(K, i)) = i
  <2>1. IsFiniteSet(K)
    BY <1>7, PickFacts
  <2>2. K \in SUBSET Int
    BY <1>7, ListDomain
  <2> QED
    BY <2>1, <2>2, NthOfRank DEF c
<1>10. ASSUME NEW i \in DOMAIN v.fields, v.fields[i].name \notin Deletes
       PROVE  \E j \in DOMAIN w.fields : /\ w.fields[j].id = v.fields[i].id
                                         /\ w.fields[j].name = v.fields[i].name
  <2>1. i \in K
    BY <1>7, <1>10
  <2>2. Rank(K, i) \in DOMAIN columns /\ IsKept(columns[Rank(K, i)], v.fields[i])
    BY <2>1, <1>6, <1>9
  <2> QED
    BY <2>2, <1>4 DEF IsKept
<1>11. ASSUME NEW j \in DOMAIN w.fields
       PROVE  \/ w.fields[j].name \notin Names(v.fields)
              \/ \E i \in DOMAIN v.fields : /\ v.fields[i].id = w.fields[j].id
                                            /\ v.fields[i].name = w.fields[j].name
  <2>1. CASE j \in 1 .. c
    BY <2>1, <1>4, <1>6, <1>7 DEF IsKept
  <2>2. CASE j \notin 1 .. c
    <3>1. j - c \in 1 .. a /\ c + (j - c) = j
      BY <2>2, <1>4, <1>6
    <3>2. IsAdded(columns[j], order[j - c], v.next + (j - c) - 1)
      BY <3>1, <1>6
    <3>3. columns[j].name \in Adds
      BY <3>2 DEF IsAdded
    <3> QED
      BY <3>3, <1>3, <1>4 DEF SchemaStages
  <2> QED
    BY <2>1, <2>2
<1>12. ASSUME DOMAIN columns = DOMAIN plan.fields,
              \A i \in DOMAIN columns : /\ columns[i].name = plan.fields[i].name
                                        /\ columns[i].def = plan.fields[i].def,
              Len(parts) = Len(plan.parts), ToSet(parts) = ToSet(plan.parts)
       PROVE  Shows(w, plan)
  <2>1. w # Absent
    BY <1>8, VersionNotAbsent
  <2>2. View(w).fields = [i \in DOMAIN columns |-> [name |-> columns[i].name, def |-> columns[i].def]]
    BY <1>4 DEF View
  <2>3. plan.fields = [i \in DOMAIN plan.fields |-> plan.fields[i]]
    BY ListDomain DEF IsModel
  <2>4. \A i \in DOMAIN plan.fields :
           plan.fields[i] = [name |-> plan.fields[i].name, def |-> plan.fields[i].def]
    BY DEF IsModel, IsColumn
  <2>5. View(w).fields = plan.fields
    <3> DEFINE f == [i \in DOMAIN columns |-> [name |-> columns[i].name, def |-> columns[i].def]]
               P == plan.fields
    <3>1. \A i \in DOMAIN P : f[i] = P[i]
      BY <2>4, <1>12
    <3>2. f = [i \in DOMAIN P |-> f[i]] /\ P = [i \in DOMAIN P |-> P[i]]
      BY <2>3, <1>12
    <3> HIDE DEF f, P
    <3>3. f = P
      BY <3>1, <3>2
    <3> QED
      BY <3>3, <2>2 DEF f, P
  <2> QED
    BY <2>1, <2>5, <1>4, <1>12 DEF Shows
<1>13. Shows(v, plan) => Shows(w, plan)
  BY <1>1, <1>2, <1>3, <1>12, AlreadyAsPlanned
<1>14. View(v) = state /\ Extends(state.fields, plan.fields) => Shows(w, plan)
  BY <1>1, <1>2, <1>12, ExtendedAsPlanned
<1>15. /\ Promise!Altered(v.fields, w.fields, v.next, state.fields, plan.fields)
       /\ Promise!Repartitioned(v.parts, w.parts, state.parts, plan.parts)
  BY <1>1, <1>2, <1>4, ColumnsAltered, PartsRepartitioned
<1> QED
  BY <1>8, <1>10, <1>11, <1>13, <1>14, <1>15 DEF Stages, Deletes
------------------------------------------------------------------------------
Outcomes ==
  {"none", "created", "updated", "inconsistent", "unchanged", "deleted", "failed"}

Typed ==
  /\ config \in Configs \cup {Absent}
  /\ state = Absent \/ IsModel(state)
  /\ IsList(log) /\ \A i \in DOMAIN log : log[i] = Absent \/ IsVersion(log[i])
  /\ seen \in DOMAIN log /\ base \in DOMAIN log /\ foreign \subseteq DOMAIN log
  /\ attempt \in 0 .. MaxRetries /\ stale \in Nat /\ faults \in Nat
  /\ pc \in {"idle", "create", "update", "commit", "verify", "delete"}
  /\ outcome \in Outcomes

(* A run goes by the plan it started with, which is what the user wrote.   *)
Running ==
  /\ plan = IF pc = "idle" THEN Absent ELSE config
  /\ pc # "idle" => outcome = "none"
  /\ pc \in {"create", "update", "commit", "verify"} => plan \in Configs
  /\ pc \in {"update", "commit", "verify"} => state # Absent
  /\ pc = "create" => state = Absent
  /\ pc = "delete" => plan = Absent /\ state # Absent

(* Nobody else has changed the table since the change that began at base.  *)
Alone == foreign \cap (base + 1 .. Len(log)) = {}

(* Of the versions this provider made, it has seen all but the last one,   *)
(* or the table is dropped, by a delete that was answered with an error.   *)
Seen ==
  state # Absent /\ Len(log) \notin foreign =>
     IF Current = Absent THEN faults > 0 ELSE Len(log) <= seen + 1

(* An update starts from a state that is not the plan.  If it is alone, it *)
(* lands on the version it started from or not at all - then an earlier    *)
(* run had landed already, and the update started from what that run saw.  *)
(* Once it has landed, every load that differs was an old one.             *)
Landing ==
  /\ pc \in {"update", "commit", "verify"} => state # plan
  /\ pc = "update" => log[seen] # Absent /\ state = View(log[seen])
  /\ pc \in {"commit", "verify"} => base <= seen /\ Stages(state, plan, log[base], staged)
  /\ pc = "commit" /\ Alone /\ Current # Absent =>
        \/ Len(log) = base
        \/ Len(log) = base + 1 /\ state = View(log[base])
  /\ pc = "verify" /\ Alone /\ Current # Absent =>
        \/ Len(log) = base
        \/ Len(log) = base + 1 /\ (Current = staged \/ state = View(log[base]))
  /\ pc = "verify" /\ Alone /\ Len(log) = base + 1 /\ Current = staged
        /\ Shows(staged, plan) /\ faults = 0
        => attempt <= stale

Inv == Typed /\ Running /\ Seen /\ Landing /\ SuccessIsReal
------------------------------------------------------------------------------
(* Other writers leave a well-formed table.                                *)
LEMMA DroppedIsVersion ==
  ASSUME NEW v, IsVersion(v), NEW n
  PROVE  IsVersion([v EXCEPT !.fields = Pick(@, Without(@, {n}))])
<1> DEFINE F == v.fields
           K == Without(F, {n})
           f == Pick(F, K)
           w == [v EXCEPT !.fields = Pick(@, Without(@, {n}))]
<1>1. /\ IsList(F) /\ Distinct(F) /\ K \in SUBSET DOMAIN F
      /\ \A i \in DOMAIN F : /\ IsTableColumn(F[i])
                             /\ F[i].id \in Int /\ F[i].id < v.next
      /\ \A i, j \in DOMAIN F : F[i].id = F[j].id => i = j
  BY DEF IsVersion, Without
<1>2. w = [fields |-> f, parts |-> v.parts, next |-> v.next]
  BY DEF IsVersion
<1> HIDE DEF K, F, w
<1>3. /\ IsList(f)
      /\ \A k \in DOMAIN f : Nth(K, k) \in K /\ f[k] = F[Nth(K, k)]
      /\ \A k, l \in DOMAIN f : k # l => Nth(K, k) # Nth(K, l)
  BY <1>1, PickFacts
<1> HIDE DEF f
<1>4. w.fields = f /\ w.parts = v.parts /\ w.next = v.next
      /\ w = [fields |-> w.fields, parts |-> w.parts, next |-> w.next]
  BY <1>2
<1>5. Distinct(f)
  BY <1>1, <1>3 DEF Distinct
<1>6. \A i \in DOMAIN f : IsTableColumn(f[i]) /\ f[i].id \in Int /\ f[i].id < v.next
  BY <1>1, <1>3
<1>7. \A i, j \in DOMAIN f : f[i].id = f[j].id => i = j
  BY <1>1, <1>3
<1>8. v.next \in Int /\ IsList(v.parts) /\ Distinct(v.parts)
  BY DEF IsVersion
<1>9. IsVersion(w)
  BY <1>3, <1>4, <1>5, <1>6, <1>7, <1>8 DEF IsVersion
<1> QED
  BY <1>9 DEF w

LEMMA GrownIsVersion ==
  ASSUME NEW v, IsVersion(v), Stranger.name \notin Names(v.fields)
  PROVE  IsVersion([v EXCEPT !.fields = @ \o Columns(<<Stranger>>, v.next), !.next = @ + 1])
<1> DEFINE F == v.fields
           t == <<Stranger>>
           g == Columns(t, v.next)
           f == F \o g
           w == [v EXCEPT !.fields = @ \o Columns(<<Stranger>>, v.next), !.next = @ + 1]
<1>1. /\ IsList(F) /\ Distinct(F) /\ v.next \in Int
      /\ \A i \in DOMAIN F : /\ IsTableColumn(F[i]) /\ F[i].name \in Names(F)
                             /\ F[i].id \in Int /\ F[i].id < v.next
      /\ \A i, j \in DOMAIN F : F[i].id = F[j].id => i = j
  BY DEF IsVersion, Names
<1>2. w = [fields |-> f, parts |-> v.parts, next |-> v.next + 1]
  <2> DEFINE n == v.next + 1
  <2>1. w = [v EXCEPT !.fields = f, !.next = n]
    OBVIOUS
  <2>2. v = [fields |-> v.fields, parts |-> v.parts, next |-> v.next]
    BY DEF IsVersion
  <2> HIDE DEF f, n, w
  <2>3. w = [fields |-> f, parts |-> v.parts, next |-> n]
    BY <2>1, <2>2
  <2> QED
    BY <2>3 DEF n
<1>3. IsList(t) /\ Len(t) = 1 /\ t[1] = Stranger
  <2>1. t \in Seq({Stranger}) /\ Len(t) = 1 /\ t[1] = Stranger
    OBVIOUS
  <2> QED
    BY <2>1, SequenceIsList
<1> HIDE DEF F, t, w
<1>4. /\ IsList(g) /\ DOMAIN g = 1 .. 1
      /\ \A i \in 1 .. 1 : /\ IsTableColumn(g[i]) /\ g[i].name = t[i].name
                           /\ g[i].id = v.next + i - 1
  BY <1>1, <1>3, ColumnsForm
<1>5. /\ IsTableColumn(g[1]) /\ g[1].name = Stranger.name /\ g[1].id = v.next
      /\ \A i \in DOMAIN g : i = 1
  BY <1>1, <1>3, <1>4
<1> HIDE DEF g
<1>6. /\ IsList(f)
      /\ \A i \in DOMAIN f : \/ i \in DOMAIN F /\ f[i] = F[i]
                             \/ i \notin DOMAIN F /\ i - Len(F) \in DOMAIN g /\ f[i] = g[i - Len(F)]
      /\ DOMAIN f \subseteq Int /\ Len(F) \in Nat
  <2>1. Len(F) \in Nat /\ Len(g) \in Nat
    BY <1>1, <1>4, ListDomain
  <2>2. DOMAIN f = 1 .. Len(F) + Len(g)
    BY <1>1, <1>4, ConcatLists
  <2>3. DOMAIN f \subseteq Int
    BY <2>1, <2>2
  <2>4. /\ IsList(f)
        /\ \A i \in DOMAIN f :
              \/ i \in DOMAIN F /\ f[i] = F[i]
              \/ i \notin DOMAIN F /\ i - Len(F) \in DOMAIN g /\ f[i] = g[i - Len(F)]
    BY <1>1, <1>4, ConcatLists
  <2> QED
    BY <2>1, <2>3, <2>4
<1> HIDE DEF f
<1>7. ASSUME NEW i \in DOMAIN f
      PROVE  \/ i \in DOMAIN F /\ f[i] = F[i]
             \/ i \notin DOMAIN F /\ i = Len(F) + 1 /\ f[i] = g[1]
  BY <1>5, <1>6
<1>8. ASSUME NEW i \in DOMAIN f
      PROVE  IsTableColumn(f[i]) /\ f[i].id \in Int /\ f[i].id < v.next + 1
  BY <1>1, <1>5, <1>7
<1>9. Stranger.name \notin Names(F)
  BY DEF F
<1>10. ASSUME NEW i \in DOMAIN f, NEW j \in DOMAIN f,
              f[i].name = f[j].name \/ f[i].id = f[j].id
       PROVE  i = j
  <2>1. CASE i \in DOMAIN F /\ j \in DOMAIN F
    <3>1. F[i].name = F[j].name \/ F[i].id = F[j].id
      BY <2>1, <1>7, <1>10
    <3> QED
      BY <2>1, <3>1, <1>1 DEF Distinct
  <2>2. CASE i \notin DOMAIN F /\ j \notin DOMAIN F
    BY <2>2, <1>7
  <2>3. CASE i \in DOMAIN F /\ j \notin DOMAIN F
    BY <2>3, <1>1, <1>5, <1>7, <1>9, <1>10
  <2>4. CASE i \notin DOMAIN F /\ j \in DOMAIN F
    BY <2>4, <1>1, <1>5, <1>7, <1>9, <1>10
  <2> QED
    BY <2>1, <2>2, <2>3, <2>4
<1>11. w.fields = f /\ w.parts = v.parts /\ w.next = v.next + 1
       /\ w = [fields |-> w.fields, parts |-> w.parts, next |-> w.next]
  BY <1>2
<1>12. IsVersion(w)
  <2>1. v.next + 1 \in Int /\ IsList(v.parts) /\ Distinct(v.parts)
    BY <1>1 DEF IsVersion
  <2>2. Distinct(f)
    BY <1>10 DEF Distinct
  <2> QED
    BY <2>1, <2>2, <1>6, <1>8, <1>10, <1>11 DEF IsVersion
<1> QED
  BY <1>12 DEF w
------------------------------------------------------------------------------
(* The log only grows; what is loaded is one of its versions.              *)
LEMMA LogGrows ==
  ASSUME Typed, NEW v, log' = Append(log, v), v = Absent \/ IsVersion(v)
  PROVE  /\ IsList(log') /\ \A i \in DOMAIN log' : log'[i] = Absent \/ IsVersion(log'[i])
         /\ Len(log) \in Nat /\ Len(log') = Len(log) + 1
         /\ DOMAIN log = 1 .. Len(log) /\ DOMAIN log' = 1 .. Len(log')
         /\ \A i \in DOMAIN log : i \in DOMAIN log' /\ log'[i] = log[i]
         /\ Current' = v /\ log'[Len(log')] = v
<1>1. IsList(log) /\ \A i \in DOMAIN log : log[i] = Absent \/ IsVersion(log[i])
  BY DEF Typed
<1>2. /\ IsList(log') /\ Len(log') = Len(log) + 1 /\ Len(log) \in Nat
      /\ DOMAIN log = 1 .. Len(log) /\ DOMAIN log' = 1 .. Len(log) + 1
      /\ \A i \in 1 .. Len(log) : log'[i] = log[i]
      /\ log'[Len(log) + 1] = v
  BY <1>1, AppendList
<1>3. ASSUME NEW i \in DOMAIN log' PROVE log'[i] = Absent \/ IsVersion(log'[i])
  <2>1. i \in 1 .. Len(log) \/ i = Len(log) + 1
    BY <1>2
  <2> QED
    BY <2>1, <1>1, <1>2
<1> QED
  BY <1>2, <1>3 DEF Current, Last

LEMMA LoadFacts ==
  ASSUME Typed, NEW i \in seen .. Len(log), Loads(i)
  PROVE  /\ i \in DOMAIN log /\ i \in Nat /\ seen' = i /\ seen' \in DOMAIN log
         /\ seen <= i /\ i <= Len(log) /\ Len(log) \in Nat /\ seen \in Nat
         /\ stale' \in Nat /\ stale <= stale'
         /\ i < Len(log) => stale' = stale + 1
         /\ log[i] = Absent \/ IsVersion(log[i])
<1>1. DOMAIN log = 1 .. Len(log) /\ Len(log) \in Nat
  BY ListDomain DEF Typed
<1>2. seen \in DOMAIN log /\ stale \in Nat
  BY DEF Typed
<1>3. i \in DOMAIN log /\ i \in Nat /\ seen \in Nat
  BY <1>1, <1>2
<1> QED
  BY <1>1, <1>2, <1>3 DEF Loads, Typed

LEMMA StartInv == Init => Inv
<1> SUFFICES ASSUME Init PROVE Inv
  OBVIOUS
<1>1. /\ config \in Configs /\ state = Absent /\ plan = Absent /\ log = <<Absent>>
      /\ foreign = {} /\ seen = 1 /\ pc = "idle" /\ base = 1 /\ attempt = 0
      /\ outcome = "none" /\ stale = 0 /\ faults = 0
  BY DEF Init
<1>2. log \in Seq({Absent}) /\ Len(log) = 1 /\ log[1] = Absent /\ DOMAIN log = 1 .. 1
  BY <1>1
<1>3. IsList(log)
  BY <1>2, SequenceIsList
<1>4. MaxRetries \in Nat
  BY BoundsAssumption
<1>5. Typed
  BY <1>1, <1>2, <1>3, <1>4 DEF Typed, Outcomes
<1> QED
  BY <1>1, <1>5 DEF Inv, Running, Seen, Landing, SuccessIsReal

LEMMA EditInv == Inv /\ Edit => Inv'
<1> SUFFICES ASSUME Inv, Edit PROVE Inv'
  OBVIOUS
<1> USE DEF Inv
<1>1. /\ pc = "idle" /\ config' \in Configs \cup {Absent} /\ outcome' = "none"
      /\ UNCHANGED <<state, plan, log, foreign, seen, pc, base, staged, attempt, stale, faults>>
  BY DEF Edit, Transaction
<1>2. Typed'
  BY <1>1 DEF Typed, Outcomes
<1>3. Running'
  BY <1>1 DEF Running
<1>4. Seen'
  BY <1>1 DEF Seen, Current
<1>5. Landing' /\ SuccessIsReal'
  BY <1>1 DEF Landing, SuccessIsReal
<1> QED
  BY <1>2, <1>3, <1>4, <1>5

(* What another writer leaves behind.                                      *)
LEMMA DriftAppends ==
  ASSUME Inv, Drift
  PROVE  \E v : log' = Append(log, v) /\ (v = Absent \/ IsVersion(v))
<1>1. Typed /\ Current # Absent
  BY DEF Inv, Drift
<1>2. IsVersion(Current)
  <2>1. Len(log) \in DOMAIN log
    BY <1>1, ListDomain DEF Typed
  <2> QED
    BY <2>1, <1>1 DEF Typed, Current, Last
<1>3. CASE log' = Append(log, Absent)
  BY <1>3
<1>4. CASE \E n : log' = Append(log, [Current EXCEPT !.fields = Pick(@, Without(@, {n}))])
  BY <1>4, <1>2, DroppedIsVersion
<1>5. CASE /\ Stranger.name \notin Names(Current.fields)
           /\ log' = Append(log, [Current EXCEPT
                                     !.fields = @ \o Columns(<<Stranger>>, Current.next),
                                     !.next = @ + 1])
  BY <1>5, <1>2, GrownIsVersion
<1> QED
  BY <1>3, <1>4, <1>5 DEF Drift

LEMMA DriftInv == Inv /\ Drift => Inv'
<1> SUFFICES ASSUME Inv, Drift PROVE Inv'
  OBVIOUS
<1>0. Typed /\ Running /\ Seen /\ Landing /\ SuccessIsReal
  BY DEF Inv
<1>1. /\ Current # Absent /\ foreign' = foreign \cup {Len(log')}
      /\ UNCHANGED <<config, state, plan, seen, pc, base, staged, attempt, outcome, stale, faults>>
  BY DEF Drift, Transaction
<1>3. \E v : log' = Append(log, v) /\ (v = Absent \/ IsVersion(v))
  BY DriftAppends
<1>4. /\ IsList(log') /\ \A i \in DOMAIN log' : log'[i] = Absent \/ IsVersion(log'[i])
      /\ Len(log) \in Nat /\ Len(log') = Len(log) + 1
      /\ DOMAIN log = 1 .. Len(log) /\ DOMAIN log' = 1 .. Len(log')
      /\ \A i \in DOMAIN log : i \in DOMAIN log' /\ log'[i] = log[i]
  BY <1>0, <1>3, LogGrows
<1>5. base \in DOMAIN log /\ seen \in DOMAIN log /\ foreign \subseteq DOMAIN log
  BY <1>0 DEF Typed
<1>6. Typed'
  BY <1>0, <1>1, <1>4, <1>5 DEF Typed
<1>7. ~Alone' /\ Len(log') \in foreign'
  <2>1. Len(log') \in base + 1 .. Len(log')
    BY <1>4, <1>5
  <2> QED
    BY <2>1, <1>1 DEF Alone
<1>8. Running'
  BY <1>0, <1>1 DEF Running
<1>9. Seen'
  BY <1>7 DEF Seen
<1>10. Landing'
  BY <1>0, <1>1, <1>4, <1>5, <1>7 DEF Landing
<1>11. SuccessIsReal'
  BY <1>7 DEF SuccessIsReal, Alone
<1> QED
  BY <1>6, <1>8, <1>9, <1>10, <1>11 DEF Inv

(* A run starts from the table as it was looked at, towards what the user  *)
(* wrote.                                                                  *)
LEMMA BeginFacts ==
  ASSUME Inv, Begin
  PROVE  /\ pc = "idle" /\ pc' = Action(config, state')
         /\ plan' = IF pc' = "idle" THEN Absent ELSE config
         /\ outcome' = IF pc' = "idle" THEN "unchanged" ELSE "none"
         /\ UNCHANGED <<config, log, foreign, base, staged, attempt, faults>>
         /\ seen' \in DOMAIN log /\ stale' \in Nat /\ seen <= seen' /\ seen \in Nat
         /\ state' = Absent \/ IsModel(state')
         /\ state' # Absent => /\ state # Absent
                               /\ IsVersion(log[seen']) /\ state' = View(log[seen'])
         /\ pc' \in {"idle", "create", "delete", "update"}
         /\ pc' = "create" => state' = Absent /\ config \in Configs
         /\ pc' = "update" => state' # Absent /\ config \in Configs /\ state' # config
         /\ pc' = "delete" => config = Absent /\ state' # Absent
<1>0. Typed
  BY DEF Inv
<1>1. /\ pc = "idle" /\ pc' = Action(config, state')
      /\ plan' = IF pc' = "idle" THEN Absent ELSE config
      /\ outcome' = IF pc' = "idle" THEN "unchanged" ELSE "none"
      /\ UNCHANGED <<config, log, foreign, base, staged, attempt, faults>>
  BY DEF Begin, Transaction, bounds
<1>2. /\ seen' \in DOMAIN log /\ stale' \in Nat /\ seen <= seen' /\ seen \in Nat
      /\ state' = Absent \/ IsModel(state')
      /\ state' # Absent => /\ state # Absent
                            /\ IsVersion(log[seen']) /\ state' = View(log[seen'])
  <2>1. CASE state = Absent
    <3>1. state' = state /\ UNCHANGED <<seen, stale>>
      BY <2>1 DEF Begin
    <3>2. seen \in DOMAIN log /\ stale \in Nat /\ DOMAIN log = 1 .. Len(log) /\ Len(log) \in Nat
      BY <1>0, ListDomain DEF Typed
    <3> QED
      BY <2>1, <3>1, <3>2
  <2>2. CASE state # Absent
    <3>1. PICK i \in seen .. Len(log) :
             Loads(i) /\ state' = IF log[i] = Absent THEN Absent ELSE View(log[i])
      BY <2>2 DEF Begin
    <3>2. /\ seen' = i /\ seen' \in DOMAIN log /\ stale' \in Nat /\ seen <= i /\ seen \in Nat
          /\ log[i] = Absent \/ IsVersion(log[i])
      BY <3>1, <1>0, LoadFacts
    <3>3. CASE log[i] = Absent
      BY <3>1, <3>2, <3>3
    <3>4. CASE log[i] # Absent
      BY <2>2, <3>1, <3>2, <3>4, ViewIsModel
    <3> QED
      BY <3>3, <3>4
  <2> QED
    BY <2>1, <2>2
<1>3. /\ pc' \in {"idle", "create", "delete", "update"}
      /\ pc' = "create" => state' = Absent /\ config \in Configs
      /\ pc' = "update" => state' # Absent /\ config \in Configs /\ state' # config
      /\ pc' = "delete" => config = Absent /\ state' # Absent
  BY <1>0, <1>1, <1>2, ModelNotAbsent DEF Action, Typed
<1> QED
  BY <1>1, <1>2, <1>3

LEMMA BeginInv == Inv /\ Begin => Inv'
<1> SUFFICES ASSUME Inv, Begin PROVE Inv'
  OBVIOUS
<1>0. Typed /\ Running /\ Seen /\ Landing /\ SuccessIsReal
  BY DEF Inv
<1>1. /\ pc = "idle" /\ pc' = Action(config, state')
      /\ plan' = IF pc' = "idle" THEN Absent ELSE config
      /\ outcome' = IF pc' = "idle" THEN "unchanged" ELSE "none"
      /\ UNCHANGED <<config, log, foreign, base, staged, attempt, faults>>
  BY BeginFacts
<1>2. /\ seen' \in DOMAIN log /\ stale' \in Nat /\ seen <= seen' /\ seen \in Nat
      /\ state' = Absent \/ IsModel(state')
      /\ state' # Absent => /\ state # Absent
                            /\ IsVersion(log[seen']) /\ state' = View(log[seen'])
  BY BeginFacts
<1>3. /\ pc' \in {"idle", "create", "delete", "update"}
      /\ pc' = "create" => state' = Absent /\ config \in Configs
      /\ pc' = "update" => state' # Absent /\ config \in Configs /\ state' # config
      /\ pc' = "delete" => config = Absent /\ state' # Absent
  BY BeginFacts
<1>4. Typed'
  BY <1>0, <1>1, <1>2, <1>3 DEF Typed, Outcomes
<1>5. Running'
  BY <1>1, <1>3 DEF Running
<1>6. Seen'
  <2>1. DOMAIN log = 1 .. Len(log) /\ Len(log) \in Nat
    BY <1>0, ListDomain DEF Typed
  <2>2. Current' = Current
    BY <1>1 DEF Current
  <2> QED
    BY <2>1, <2>2, <1>0, <1>1, <1>2 DEF Seen
<1>7. Landing'
  <2>1. pc' = "update" => log'[seen'] # Absent /\ state' = View(log'[seen']) /\ state' # plan'
    BY <1>1, <1>2, <1>3, VersionNotAbsent
  <2> QED
    BY <2>1, <1>3 DEF Landing
<1>8. SuccessIsReal'
  BY <1>1 DEF SuccessIsReal
<1> QED
  BY <1>4, <1>5, <1>6, <1>7, <1>8 DEF Inv
------------------------------------------------------------------------------
(* A run that fails with the table as it was leaves nothing to account for. *)
LEMMA GivesUp ==
  ASSUME Inv, End("failed"), UNCHANGED <<config, state, log, foreign, base>>,
         seen' \in DOMAIN log, seen <= seen', attempt' \in 0 .. MaxRetries,
         stale' \in Nat, faults' \in Nat, faults <= faults'
  PROVE  Inv'
<1>0. Typed /\ Running /\ Seen
  BY DEF Inv
<1>1. pc' = "idle" /\ outcome' = "failed" /\ plan' = Absent
  BY DEF End
<1>2. /\ DOMAIN log = 1 .. Len(log) /\ Len(log) \in Nat
      /\ seen \in DOMAIN log /\ faults \in Nat
  BY <1>0, ListDomain DEF Typed
<1>3. Typed'
  BY <1>0, <1>1 DEF Typed, Outcomes
<1>4. Running'
  BY <1>1 DEF Running
<1>5. Seen'
  <2>1. Current' = Current
    BY DEF Current
  <2>2. Len(log) <= seen + 1 => Len(log) <= seen' + 1
    BY <1>2
  <2>3. faults > 0 => faults' > 0
    BY <1>2
  <2> QED
    BY <2>1, <2>2, <2>3, <1>0 DEF Seen
<1>6. Landing' /\ SuccessIsReal'
  BY <1>1 DEF Landing, SuccessIsReal
<1> QED
  BY <1>3, <1>4, <1>5, <1>6 DEF Inv

LEMMA FaultCounts == Typed /\ Fault => faults' \in Nat /\ faults <= faults' /\ faults' > 0
BY DEF Typed, Fault

(* The last version is one of the log.                                     *)
LEMMA CurrentVersion ==
  ASSUME Typed
  PROVE  /\ DOMAIN log = 1 .. Len(log) /\ Len(log) \in Nat /\ Len(log) \in DOMAIN log
         /\ Current = log[Len(log)] /\ (Current = Absent \/ IsVersion(Current))
         /\ seen \in Nat /\ base \in Nat /\ seen <= Len(log) /\ base <= Len(log)
<1>1. DOMAIN log = 1 .. Len(log) /\ Len(log) \in Nat
  BY ListDomain DEF Typed
<1>2. seen \in DOMAIN log /\ base \in DOMAIN log
  BY DEF Typed
<1>3. Len(log) \in DOMAIN log
  BY <1>1, <1>2
<1>4. Current = log[Len(log)]
  BY DEF Current, Last
<1> QED
  BY <1>1, <1>2, <1>3, <1>4 DEF Typed

LEMMA CreateInv == Inv /\ Create => Inv'
<1> SUFFICES ASSUME Inv, Create PROVE Inv'
  OBVIOUS
<1>0. Typed /\ Running
  BY DEF Inv
<1>1. /\ pc = "create" /\ log' = Append(log, NewTable)
      /\ seen' = Len(log') /\ base' = Len(log') /\ state' = View(Last(log'))
      /\ pc' = "idle" /\ outcome' = "created" /\ plan' = Absent
      /\ UNCHANGED <<config, foreign, attempt, stale, faults>>
  BY DEF Create, End, bounds
<1>2. IsModel(plan) /\ plan = config
  BY <1>0, <1>1, ModelAssumption DEF Running
<1>3. IsVersion(NewTable) /\ Shows(NewTable, config) /\ IsModel(View(NewTable))
  BY <1>2, NewTableAsPlanned
<1>4. /\ IsList(log') /\ \A i \in DOMAIN log' : log'[i] = Absent \/ IsVersion(log'[i])
      /\ Len(log) \in Nat /\ Len(log') = Len(log) + 1
      /\ DOMAIN log' = 1 .. Len(log')
      /\ \A i \in DOMAIN log : i \in DOMAIN log'
      /\ Current' = NewTable
  BY <1>0, <1>1, <1>3, LogGrows
<1>5. state' = View(NewTable)
  BY <1>1, <1>4 DEF Current
<1>6. Typed'
  BY <1>0, <1>1, <1>3, <1>4, <1>5 DEF Typed, Outcomes
<1>7. Running' /\ Landing'
  BY <1>1 DEF Running, Landing
<1>8. Seen'
  BY <1>1, <1>3, <1>4, VersionNotAbsent DEF Seen
<1>9. SuccessIsReal'
  <2>1. Shows(Current', config')
    BY <1>1, <1>3, <1>4
  <2>2. Shows(Current, config)'
    BY <2>1 DEF Shows, View
  <2> QED
    BY <2>2 DEF SuccessIsReal
<1> QED
  BY <1>6, <1>7, <1>8, <1>9 DEF Inv

LEMMA CreateExistsInv == Inv /\ CreateExists => Inv'
<1> SUFFICES ASSUME Inv, CreateExists PROVE Inv'
  OBVIOUS
<1>1. /\ End("failed")
      /\ UNCHANGED <<config, state, log, foreign, seen, base, attempt, stale, faults>>
  BY DEF CreateExists, Transaction, bounds
<1>2. Typed
  BY DEF Inv
<1>3. seen \in DOMAIN log /\ attempt \in 0 .. MaxRetries /\ stale \in Nat /\ faults \in Nat
  BY <1>2 DEF Typed
<1>4. seen <= seen
  BY <1>2, CurrentVersion
<1> QED
  BY <1>1, <1>3, <1>4, GivesUp

LEMMA CreateFailsInv == Inv /\ CreateFails => Inv'
<1> SUFFICES ASSUME Inv, CreateFails PROVE Inv'
  OBVIOUS
<1>0. Typed /\ Running
  BY DEF Inv
<1>1. /\ pc = "create" /\ End("failed") /\ Fault
      /\ UNCHANGED <<config, state, foreign, seen, base, attempt, stale>>
      /\ pc' = "idle" /\ outcome' = "failed" /\ plan' = Absent
  BY DEF CreateFails, End, Transaction
<1>2. /\ faults' \in Nat /\ faults <= faults'
      /\ seen \in DOMAIN log /\ seen <= seen
      /\ attempt \in 0 .. MaxRetries /\ stale \in Nat
  BY <1>0, <1>1, FaultCounts, CurrentVersion DEF Typed
<1>3. CASE log' = log
  BY <1>1, <1>2, <1>3, GivesUp
<1>4. CASE log' = Append(log, NewTable)
  <2>1. IsModel(plan) /\ state = Absent
    BY <1>0, <1>1, ModelAssumption DEF Running
  <2>2. IsVersion(NewTable)
    BY <2>1, NewTableAsPlanned
  <2>3. /\ IsList(log') /\ \A i \in DOMAIN log' : log'[i] = Absent \/ IsVersion(log'[i])
        /\ \A i \in DOMAIN log : i \in DOMAIN log'
    BY <1>0, <1>4, <2>2, LogGrows
  <2>4. Typed'
    BY <1>0, <1>1, <1>2, <2>3 DEF Typed, Outcomes
  <2>5. Running' /\ Seen' /\ Landing' /\ SuccessIsReal'
    BY <1>1, <2>1 DEF Running, Seen, Landing, SuccessIsReal
  <2> QED
    BY <2>4, <2>5 DEF Inv
<1> QED
  BY <1>3, <1>4 DEF CreateFails

LEMMA DeleteInv == Inv /\ Delete => Inv'
<1> SUFFICES ASSUME Inv, Delete PROVE Inv'
  OBVIOUS
<1>0. Typed
  BY DEF Inv
<1>1. /\ log' = IF Current = Absent THEN log ELSE Append(log, Absent)
      /\ seen' = Len(log') /\ state' = Absent
      /\ pc' = "idle" /\ outcome' = "deleted" /\ plan' = Absent
      /\ UNCHANGED <<config, foreign, base, attempt, stale, faults>>
  BY DEF Delete, End, Transaction, bounds
<1>2. /\ IsList(log') /\ \A i \in DOMAIN log' : log'[i] = Absent \/ IsVersion(log'[i])
      /\ \A i \in DOMAIN log : i \in DOMAIN log'
      /\ Len(log') \in DOMAIN log'
  <2>1. CASE log' = log
    BY <2>1, <1>0, CurrentVersion DEF Typed
  <2>2. CASE log' = Append(log, Absent)
    BY <2>2, <1>0, LogGrows
  <2> QED
    BY <1>1, <2>1, <2>2
<1>3. Typed'
  BY <1>0, <1>1, <1>2 DEF Typed, Outcomes
<1>4. Running' /\ Seen' /\ Landing' /\ SuccessIsReal'
  BY <1>1 DEF Running, Seen, Landing, SuccessIsReal
<1> QED
  BY <1>3, <1>4 DEF Inv

LEMMA DeleteFailsInv == Inv /\ DeleteFails => Inv'
<1> SUFFICES ASSUME Inv, DeleteFails PROVE Inv'
  OBVIOUS
<1>0. Typed
  BY DEF Inv
<1>1. /\ End("failed") /\ Fault
      /\ UNCHANGED <<config, state, foreign, seen, base, attempt, stale>>
      /\ pc' = "idle" /\ outcome' = "failed" /\ plan' = Absent
  BY DEF DeleteFails, End, Transaction
<1>2. /\ faults' \in Nat /\ faults <= faults' /\ faults' > 0
      /\ seen \in DOMAIN log /\ seen <= seen
      /\ attempt \in 0 .. MaxRetries /\ stale \in Nat
  BY <1>0, <1>1, FaultCounts, CurrentVersion DEF Typed
<1>3. CASE log' = log
  BY <1>1, <1>2, <1>3, GivesUp
<1>4. CASE log' = Append(log, Absent)
  <2>1. /\ IsList(log') /\ \A i \in DOMAIN log' : log'[i] = Absent \/ IsVersion(log'[i])
        /\ \A i \in DOMAIN log : i \in DOMAIN log'
        /\ Current' = Absent
    BY <1>0, <1>4, LogGrows
  <2>2. Typed'
    BY <1>0, <1>1, <1>2, <2>1 DEF Typed, Outcomes
  <2>3. Running' /\ Seen' /\ Landing' /\ SuccessIsReal'
    BY <1>1, <1>2, <2>1 DEF Running, Seen, Landing, SuccessIsReal
  <2> QED
    BY <2>2, <2>3 DEF Inv
<1> QED
  BY <1>3, <1>4 DEF DeleteFails

LEMMA CrashInv == Inv /\ Crash => Inv'
<1> SUFFICES ASSUME Inv, Crash PROVE Inv'
  OBVIOUS
<1>0. Typed
  BY DEF Inv
<1>1. /\ End("failed") /\ Fault
      /\ UNCHANGED <<config, state, log, foreign, seen, base, attempt, stale>>
  BY DEF Crash, Transaction
<1>2. /\ faults' \in Nat /\ faults <= faults'
      /\ seen \in DOMAIN log /\ seen <= seen
      /\ attempt \in 0 .. MaxRetries /\ stale \in Nat
  BY <1>0, <1>1, FaultCounts, CurrentVersion DEF Typed
<1> QED
  BY <1>1, <1>2, GivesUp

LEMMA StageFailsInv == Inv /\ StageFails => Inv'
<1> SUFFICES ASSUME Inv, StageFails PROVE Inv'
  OBVIOUS
<1>0. Typed
  BY DEF Inv
<1>1. /\ End("failed")
      /\ UNCHANGED <<config, state, log, foreign, base, attempt, faults>>
  BY DEF StageFails, Transaction, bounds
<1>2. PICK i \in seen .. Len(log) : Loads(i)
  BY DEF StageFails
<1>3. seen' \in DOMAIN log /\ seen <= seen' /\ stale' \in Nat
  BY <1>0, <1>2, LoadFacts
<1>4. attempt' \in 0 .. MaxRetries /\ faults' \in Nat /\ faults <= faults'
  BY <1>0, <1>1 DEF Typed
<1> QED
  BY <1>1, <1>3, <1>4, GivesUp
------------------------------------------------------------------------------
LEMMA StageInv == Inv /\ Stage => Inv'
<1> SUFFICES ASSUME Inv, Stage PROVE Inv'
  OBVIOUS
<1>0. Typed /\ Running /\ Seen /\ Landing
  BY DEF Inv
<1>1. /\ pc = "update" /\ pc' = "commit"
      /\ UNCHANGED <<config, state, plan, log, foreign, attempt, outcome, faults>>
  BY DEF Stage, bounds
<1>2. PICK i \in seen .. Len(log) :
         /\ Loads(i) /\ Stageable(log[i]) /\ base' = i
         /\ \E columns \in NewColumns(log[i]) :
               /\ PartsStage(log[i], columns)
               /\ \E parts \in NewParts(log[i]) :
                     staged' = [fields |-> columns, parts |-> parts,
                                next |-> log[i].next + Cardinality(Adds)]
  BY DEF Stage
<1>3. /\ i \in DOMAIN log /\ i \in Nat /\ seen' = i /\ seen \in Nat /\ seen <= i
      /\ i <= Len(log) /\ Len(log) \in Nat /\ stale' \in Nat
      /\ log[i] = Absent \/ IsVersion(log[i])
  BY <1>0, <1>2, LoadFacts
<1>4. IsVersion(log[i])
  BY <1>2, <1>3 DEF Stageable
<1>5. IsModel(state) /\ IsModel(plan) /\ state # Absent /\ state # plan
  BY <1>0, <1>1, ModelAssumption DEF Typed, Running, Landing
<1>6. Stages(state, plan, log[i], staged')
  BY <1>2, <1>4, <1>5, StagedStages
<1>7. Typed'
  BY <1>0, <1>1, <1>2, <1>3 DEF Typed
<1>8. Running'
  BY <1>0, <1>1 DEF Running
<1>9. Seen'
  <2>1. Current' = Current
    BY <1>1 DEF Current
  <2>2. Len(log) <= seen + 1 => Len(log) <= seen' + 1
    BY <1>3
  <2> QED
    BY <2>1, <2>2, <1>0, <1>1 DEF Seen
<1>10. ASSUME Alone', Current # Absent
       PROVE  Len(log) = i \/ (Len(log) = i + 1 /\ state = View(log[i]))
  <2>1. SUFFICES ASSUME i < Len(log) PROVE Len(log) = i + 1 /\ state = View(log[i])
    BY <1>3
  <2>2. Len(log) \in i + 1 .. Len(log)
    BY <2>1, <1>3
  <2>3. Len(log) \notin foreign
    BY <2>2, <1>1, <1>2, <1>10 DEF Alone
  <2>4. Len(log) <= seen + 1
    BY <2>3, <1>0, <1>5, <1>10 DEF Seen
  <2>5. i = seen /\ Len(log) = i + 1
    BY <2>1, <2>4, <1>3
  <2> QED
    BY <2>5, <1>0, <1>1 DEF Landing
<1>11. Landing'
  <2>1. Current' = Current /\ base' = i /\ log' = log /\ state' = state /\ plan' = plan
    BY <1>1, <1>2 DEF Current
  <2>2. base' <= seen'
    BY <1>2, <1>3
  <2>3. Stages(state', plan', log'[base'], staged')
    BY <2>1, <1>6
  <2>4. Alone' /\ Current' # Absent =>
          \/ Len(log') = base'
          \/ Len(log') = base' + 1 /\ state' = View(log'[base'])
    BY <2>1, <1>10
  <2>5. state' # plan'
    BY <2>1, <1>5
  <2> QED
    BY <2>2, <2>3, <2>4, <2>5, <1>1 DEF Landing
<1>12. SuccessIsReal'
  BY <1>0, <1>1 DEF Running, SuccessIsReal
<1> QED
  BY <1>7, <1>8, <1>9, <1>11, <1>12 DEF Inv

(* From commit to verify with the log as it was.                           *)
LEMMA NotCommitted ==
  ASSUME Inv, pc = "commit", pc' = "verify", attempt' = 0, faults' \in Nat, faults <= faults',
         UNCHANGED <<config, state, plan, log, foreign, seen, base, staged, outcome, stale>>
  PROVE  Inv'
<1>0. Typed /\ Running /\ Seen /\ Landing
  BY DEF Inv
<1>1. faults \in Nat /\ stale \in Nat /\ 0 \in 0 .. MaxRetries
  BY <1>0, BoundsAssumption DEF Typed
<1>2. Typed'
  BY <1>0, <1>1 DEF Typed
<1>3. Running'
  BY <1>0 DEF Running
<1>4. Seen'
  BY <1>0, <1>1 DEF Seen, Current
<1>5. Landing'
  <2>1. Current' = Current /\ (Alone' <=> Alone)
    BY DEF Current, Alone
  <2>2. attempt' <= stale'
    BY <1>1
  <2> QED
    BY <2>1, <2>2, <1>0 DEF Landing
<1>6. SuccessIsReal'
  BY <1>0 DEF Running, SuccessIsReal
<1> QED
  BY <1>2, <1>3, <1>4, <1>5, <1>6 DEF Inv

LEMMA CommitInv == Inv /\ (CommitLands \/ CommitRefused \/ CommitLost) => Inv'
<1> SUFFICES ASSUME Inv, CommitLands \/ CommitRefused \/ CommitLost PROVE Inv'
  OBVIOUS
<1>0. Typed /\ Running /\ Seen /\ Landing
  BY DEF Inv
<1>1. /\ pc = "commit" /\ pc' = "verify" /\ attempt' = 0
      /\ UNCHANGED <<config, state, plan, foreign, seen, base, staged, outcome, stale>>
      /\ faults' \in Nat /\ faults <= faults'
  BY <1>0, FaultCounts DEF Typed, CommitLands, CommitRefused, CommitLost, bounds
<1>2. CASE log' = log
  BY <1>1, <1>2, NotCommitted
<1>3. CASE base = Len(log) /\ log' = Append(log, staged)
  <2>1. /\ base <= seen /\ Stages(state, plan, log[base], staged) /\ state # plan
        /\ state # Absent
    BY <1>0, <1>1 DEF Landing, Running
  <2>2. IsVersion(staged)
    BY <2>1 DEF Stages
  <2>3. /\ IsList(log') /\ \A i \in DOMAIN log' : log'[i] = Absent \/ IsVersion(log'[i])
        /\ Len(log) \in Nat /\ Len(log') = Len(log) + 1
        /\ \A i \in DOMAIN log : i \in DOMAIN log' /\ log'[i] = log[i]
        /\ Current' = staged
    BY <1>0, <1>3, <2>2, LogGrows
  <2>4. /\ seen \in DOMAIN log /\ seen \in Nat /\ base \in DOMAIN log
        /\ foreign \subseteq DOMAIN log /\ stale \in Nat /\ 0 \in 0 .. MaxRetries
    BY <1>0, BoundsAssumption, CurrentVersion DEF Typed
  <2>5. Typed'
    BY <1>0, <1>1, <2>3, <2>4 DEF Typed
  <2>6. Running'
    BY <1>0, <1>1 DEF Running
  <2>7. Seen'
    <3>1. Len(log') <= seen' + 1 /\ Current' # Absent
      BY <1>1, <1>3, <2>1, <2>2, <2>3, <2>4, VersionNotAbsent
    <3> QED
      BY <3>1 DEF Seen
  <2>8. Landing'
    <3>1. Len(log') = base' + 1 /\ Current' = staged' /\ attempt' <= stale'
      BY <1>1, <1>3, <2>3, <2>4
    <3>2. base' <= seen' /\ Stages(state', plan', log'[base'], staged') /\ state' # plan'
      BY <1>1, <2>1, <2>3, <2>4
    <3> QED
      BY <3>1, <3>2, <1>1 DEF Landing
  <2>9. SuccessIsReal'
    BY <1>0, <1>1 DEF Running, SuccessIsReal
  <2> QED
    BY <2>5, <2>6, <2>7, <2>8, <2>9 DEF Inv
<1> QED
  BY <1>2, <1>3 DEF CommitLands, CommitRefused, CommitLost

(* What the loads of a verification have to do with the table: one that    *)
(* shows the plan and becomes the state is the table's last version, or    *)
(* the version the update started from when that shows the plan as well.   *)
LEMMA VerifyInv == Inv /\ Verify => Inv'
<1> SUFFICES ASSUME Inv, Verify PROVE Inv'
  OBVIOUS
<1>0. Typed /\ Running /\ Seen /\ Landing
  BY DEF Inv
<1>1. /\ pc = "verify" /\ pc' = "idle" /\ plan' = Absent
      /\ outcome' = IF state' = plan THEN "updated" ELSE "inconsistent"
      /\ UNCHANGED <<config, log, foreign, base, attempt, faults>>
  BY DEF Verify, End, Transaction, bounds
<1>2. PICK i \in seen .. Len(log) : Loads(i) /\ Matches(log[i]) /\ state' = View(log[i])
  BY DEF Verify, Result
<1>3. /\ i \in DOMAIN log /\ i \in Nat /\ seen' = i /\ seen \in Nat /\ seen <= i
      /\ i <= Len(log) /\ Len(log) \in Nat /\ stale' \in Nat
      /\ log[i] = Absent \/ IsVersion(log[i])
  BY <1>0, <1>2, LoadFacts
<1>4. IsVersion(log[i]) /\ Shows(log[i], plan)
  BY <1>2, <1>3 DEF Matches, Shows
<1>5. IsModel(state')
  BY <1>2, <1>4, ViewIsModel
<1>6. /\ plan = config /\ state # Absent /\ state # plan /\ base <= seen /\ base \in Nat
      /\ Stages(state, plan, log[base], staged)
  BY <1>0, <1>1, CurrentVersion DEF Running, Landing
<1>7. Current' = Current /\ Current = log[Len(log)]
  BY <1>0, <1>1, CurrentVersion DEF Current
<1>8. Typed'
  BY <1>0, <1>1, <1>3, <1>5 DEF Typed, Outcomes
<1>9. Running' /\ Landing'
  BY <1>1 DEF Running, Landing
<1>10. Seen'
  <2>1. Len(log) <= seen + 1 => Len(log) <= seen' + 1
    BY <1>3
  <2> QED
    BY <2>1, <1>0, <1>1, <1>6, <1>7 DEF Seen
<1>11. ASSUME state' = plan, Alone
       PROVE  Shows(Current, plan) \/ (Current = Absent /\ faults > 0)
  <2>1. CASE i = Len(log)
    BY <2>1, <1>4, <1>7
  <2>2. CASE i < Len(log)
    <3>1. Len(log) \in base + 1 .. Len(log)
      BY <2>2, <1>3, <1>6
    <3>2. Len(log) \notin foreign
      BY <3>1, <1>11 DEF Alone
    <3>3. CASE Current = Absent
      BY <3>2, <3>3, <1>0, <1>6 DEF Seen
    <3>4. CASE Current # Absent
      <4>1. Len(log) = base + 1 /\ (Current = staged \/ state = View(log[base]))
        <5>1. Len(log) # base
          BY <2>2, <1>3, <1>6
        <5> QED
          BY <5>1, <3>4, <1>0, <1>1, <1>11 DEF Landing
      <4>2. i = base
        BY <4>1, <2>2, <1>3, <1>6
      <4>3. Current = staged
        BY <4>1, <4>2, <1>2, <1>6, <1>11
      <4> QED
        BY <4>2, <4>3, <1>4, <1>6 DEF Stages
    <3> QED
      BY <3>3, <3>4
  <2> QED
    BY <2>1, <2>2, <1>3
<1>12. SuccessIsReal'
  <2>1. SUFFICES ASSUME outcome' \in {"created", "updated"}, Alone'
                 PROVE  Shows(Current', config') \/ (Current' = Absent /\ faults' > 0)
    BY DEF SuccessIsReal, Alone, Shows, View
  <2>2. state' = plan /\ Alone
    BY <2>1, <1>1 DEF Alone
  <2> QED
    BY <2>2, <1>1, <1>6, <1>7, <1>11
<1> QED
  BY <1>8, <1>9, <1>10, <1>12 DEF Inv

LEMMA VerifyDiffersInv == Inv /\ VerifyDiffers => Inv'
<1> SUFFICES ASSUME Inv, VerifyDiffers PROVE Inv'
  OBVIOUS
<1>0. Typed /\ Running /\ Seen /\ Landing
  BY DEF Inv
<1>1. /\ pc = "verify" /\ TryAgain
      /\ UNCHANGED <<config, state, log, foreign, base, staged, faults>>
  BY DEF VerifyDiffers, bounds
<1>2. PICK i \in seen .. Len(log) : Loads(i) /\ ~Matches(log[i])
  BY DEF VerifyDiffers
<1>3. /\ seen' = i /\ seen' \in DOMAIN log /\ seen \in Nat /\ seen <= i /\ i \in Nat
      /\ i <= Len(log) /\ Len(log) \in Nat /\ stale' \in Nat /\ stale <= stale'
      /\ i < Len(log) => stale' = stale + 1
  BY <1>0, <1>2, LoadFacts
<1>4. /\ attempt \in 0 .. MaxRetries /\ MaxRetries \in Nat /\ faults \in Nat /\ stale \in Nat
      /\ base \in Nat /\ Current = log[Len(log)]
  BY <1>0, BoundsAssumption, CurrentVersion DEF Typed
<1>5. CASE ~Again(attempt)
  <2>1. attempt' \in 0 .. MaxRetries /\ End("failed")
    BY <1>1, <1>4, <1>5 DEF TryAgain
  <2>2. seen <= seen' /\ faults' \in Nat /\ faults <= faults'
    BY <1>1, <1>3, <1>4
  <2> QED
    BY <2>1, <2>2, <1>1, <1>3, GivesUp
<1>6. CASE Again(attempt)
  <2>1. attempt' = attempt + 1 /\ UNCHANGED <<pc, outcome, plan>>
    BY <1>1, <1>6 DEF TryAgain
  <2>2. attempt' \in 0 .. MaxRetries
    BY <2>1, <1>4, <1>6 DEF Again
  <2>3. Typed'
    BY <2>1, <2>2, <1>0, <1>1, <1>3 DEF Typed
  <2>4. Running'
    BY <2>1, <1>0, <1>1 DEF Running
  <2>5. Current' = Current /\ (Alone' <=> Alone)
    BY <1>1 DEF Current, Alone
  <2>6. Seen'
    <3>1. Len(log) <= seen + 1 => Len(log) <= seen' + 1
      BY <1>3
    <3> QED
      BY <3>1, <2>5, <1>0, <1>1 DEF Seen
  <2>7. Landing'
    <3>1. base' <= seen'
      <4>1. base <= seen
        BY <1>0, <1>1 DEF Landing
      <4> QED
        BY <4>1, <1>1, <1>3, <1>4
    <3>2. ASSUME Alone, Len(log) = base + 1, Current = staged, Shows(staged, plan), faults = 0
          PROVE  attempt' <= stale'
      <4>1. i # Len(log)
        BY <3>2, <1>2, <1>4 DEF Matches
      <4>2. attempt <= stale
        BY <3>2, <1>0, <1>1 DEF Landing
      <4> QED
        BY <4>1, <4>2, <2>1, <1>3, <1>4
    <3>3. /\ state' = state /\ plan' = plan /\ log' = log /\ base' = base /\ staged' = staged
          /\ faults' = faults /\ pc' = "verify"
      BY <2>1, <1>1
    <3>4. Shows(staged', plan') = Shows(staged, plan)
      BY <3>3
    <3>5. Shows(staged, plan)' <=> Shows(staged, plan)
      BY <3>3 DEF Shows, View
    <3> QED
      BY <3>1, <3>2, <3>3, <3>5, <2>5, <1>0, <1>1 DEF Landing
  <2>8. SuccessIsReal'
    BY <2>1, <1>0, <1>1 DEF Running, SuccessIsReal
  <2> QED
    BY <2>3, <2>4, <2>6, <2>7, <2>8 DEF Inv
<1> QED
  BY <1>5, <1>6

LEMMA VerifyFailsInv == Inv /\ VerifyFails => Inv'
<1> SUFFICES ASSUME Inv, VerifyFails PROVE Inv'
  OBVIOUS
<1>0. Typed /\ Running /\ Seen /\ Landing
  BY DEF Inv
<1>1. /\ pc = "verify" /\ TryAgain
      /\ UNCHANGED <<config, state, log, foreign, seen, base, staged, stale>>
      /\ faults' \in Nat /\ faults <= faults' /\ faults' > 0
  BY <1>0, FaultCounts DEF VerifyFails
<1>2. /\ attempt \in 0 .. MaxRetries /\ MaxRetries \in Nat /\ faults \in Nat /\ stale \in Nat
      /\ seen \in DOMAIN log /\ seen <= seen
  BY <1>0, BoundsAssumption, CurrentVersion DEF Typed
<1>3. CASE ~Again(attempt)
  <2>1. attempt' \in 0 .. MaxRetries /\ End("failed")
    BY <1>1, <1>2, <1>3 DEF TryAgain
  <2> QED
    BY <2>1, <1>1, <1>2, GivesUp
<1>4. CASE Again(attempt)
  <2>1. attempt' = attempt + 1 /\ UNCHANGED <<pc, outcome, plan>>
    BY <1>1, <1>4 DEF TryAgain
  <2>2. attempt' \in 0 .. MaxRetries
    BY <2>1, <1>2, <1>4 DEF Again
  <2>3. Typed'
    BY <2>1, <2>2, <1>0, <1>1 DEF Typed
  <2>4. Running'
    BY <2>1, <1>0, <1>1 DEF Running
  <2>5. Current' = Current /\ (Alone' <=> Alone)
    BY <1>1 DEF Current, Alone
  <2>6. Seen'
    BY <2>5, <1>0, <1>1 DEF Seen
  <2>7. Landing'
    <3>1. faults' # 0
      BY <1>1
    <3> QED
      BY <3>1, <2>1, <2>5, <1>0, <1>1 DEF Landing
  <2>8. SuccessIsReal'
    BY <2>1, <1>0, <1>1 DEF Running, SuccessIsReal
  <2> QED
    BY <2>3, <2>4, <2>6, <2>7, <2>8 DEF Inv
<1> QED
  BY <1>3, <1>4
------------------------------------------------------------------------------
LEMMA StepInv == Inv /\ [Next]_vars => Inv'
<1> SUFFICES ASSUME Inv, [Next]_vars PROVE Inv'
  OBVIOUS
<1>1. CASE UNCHANGED vars
  <2>1. UNCHANGED <<config, state, plan, log, foreign, seen, pc, base, staged, attempt,
                    outcome, stale, faults>>
    BY <1>1 DEF vars
  <2>2. Typed' /\ Running' /\ Seen'
    BY <2>1 DEF Inv, Typed, Running, Seen, Current
  <2>3. /\ Current' = Current /\ (Alone' <=> Alone)
        /\ Shows(staged, plan)' <=> Shows(staged, plan)
        /\ Shows(Current, config)' <=> Shows(Current, config)
    BY <2>1 DEF Current, Alone, Shows, View
  <2>4. Landing'
    BY <2>1, <2>3 DEF Inv, Landing
  <2>5. SuccessIsReal'
    BY <2>1, <2>3 DEF Inv, SuccessIsReal
  <2> QED
    BY <2>2, <2>4, <2>5 DEF Inv
<1>2. CASE Edit
  BY <1>2, EditInv
<1>3. CASE Drift
  BY <1>3, DriftInv
<1>4. CASE Begin
  BY <1>4, BeginInv
<1>5. CASE Create \/ CreateExists \/ CreateFails
  BY <1>5, CreateInv, CreateExistsInv, CreateFailsInv
<1>6. CASE Stage \/ StageFails
  BY <1>6, StageInv, StageFailsInv
<1>7. CASE CommitLands \/ CommitRefused \/ CommitLost
  BY <1>7, CommitInv
<1>8. CASE Verify \/ VerifyDiffers \/ VerifyFails
  BY <1>8, VerifyInv, VerifyDiffersInv, VerifyFailsInv
<1>9. CASE Delete \/ DeleteFails \/ Crash
  BY <1>9, DeleteInv, DeleteFailsInv, CrashInv
<1> QED
  BY <1>1, <1>2, <1>3, <1>4, <1>5, <1>6, <1>7, <1>8, <1>9 DEF Next, Provider, Update

(* The invariant of the resource: runs go by their plan, the provider has  *)
(* seen what it made, an update lands on what it was staged from.          *)
THEOREM Invariance == Spec => []Inv
<1> QED
  BY StartInv, StepInv, PTL DEF Spec

(* Every version of the table that the catalog comes to hold, by this      *)
(* provider's changes or by others', numbers its columns uniquely and      *)
(* below its counter and gives no name twice.                              *)
THEOREM TypeCorrect == Spec => []TypeOK
<1>1. Inv => TypeOK
  <2> SUFFICES ASSUME Typed, Running PROVE TypeOK
    BY DEF Inv
  <2>1. plan \in Configs \cup {Absent}
    BY DEF Typed, Running
  <2>2. ASSUME NEW v \in ToSet(log) \ {Absent}
        PROVE  \A i, j \in DOMAIN v.fields :
                  /\ v.fields[i].id < v.next
                  /\ i # j => v.fields[i].id # v.fields[j].id /\ v.fields[i].name # v.fields[j].name
    BY DEF Typed, IsVersion, Distinct, ToSet
  <2> QED
    BY <2>1, <2>2 DEF Typed, TypeOK, Outcomes
<1> QED
  BY <1>1, Invariance, PTL

(* No run reports as applied what the table does not show, but for the     *)
(* exceptions that SuccessIsReal states.                                   *)
THEOREM SuccessReal == Spec => []SuccessIsReal
<1>1. Inv => SuccessIsReal
  BY DEF Inv
<1> QED
  BY <1>1, Invariance, PTL

(* What a commit that reaches the catalog puts there.                      *)
LEMMA CommitFacts ==
  ASSUME Inv, CommitLands, log' # log
  PROVE  /\ Current = log[base] /\ Current' = staged
         /\ Stages(state, plan, Current, staged)
<1>0. Typed /\ Landing
  BY DEF Inv
<1>1. pc = "commit" /\ base = Len(log) /\ log' = Append(log, staged)
  BY DEF CommitLands
<1>2. Stages(state, plan, log[base], staged) /\ Current = log[base]
  BY <1>0, <1>1, CurrentVersion DEF Landing
<1>3. IsVersion(staged)
  BY <1>2 DEF Stages
<1>4. Current' = staged
  BY <1>0, <1>1, <1>3, LogGrows
<1> QED
  BY <1>2, <1>4

------------------------------------------------------------------------------
(* Where the columns of a version come from: another version s has them    *)
(* already, or one of the versions after s brought them in.                *)
Inherits(s, v) ==
  \A x \in Identities(log[v]) :
     \/ x \in Identities(log[s])
     \/ \E i \in s + 1 .. v : x \in Identities(log[i]) \ Identities(log[i - 1])

(* What version i brings in has names that the version before did not.     *)
NewNames(i) ==
  log[i - 1] # Absent =>
     \A x \in Identities(log[i]) \ Identities(log[i - 1]) : x.name \notin Names(log[i - 1].fields)

(* Of the versions that this provider made, and that are not drops, the    *)
(* last one may not be seen yet, and an update may be planned without it.  *)
OwnUpTo(n) == \A i \in DOMAIN log \ foreign : log[i] = Absent \/ i <= n + 1

Lineage ==
  /\ shown \in DOMAIN log
  /\ \A v \in DOMAIN log : \A s \in 1 .. v : Inherits(s, v)
  /\ \A i \in DOMAIN log \ foreign : i = 1 \/ NewNames(i)
  /\ state # Absent => OwnUpTo(seen)
  /\ pc \in {"update", "commit"} =>
        log[shown] # Absent /\ state = View(log[shown]) /\ OwnUpTo(shown)

(* Steps that leave the table alone.                                       *)
LEMMA LogStays ==
  ASSUME Inv, Lineage, UNCHANGED <<log, foreign, shown>>,
         seen' \in DOMAIN log, seen <= seen',
         state' # Absent => state # Absent,
         pc' \in {"update", "commit"} => pc \in {"update", "commit"} /\ state' = state
  PROVE  Lineage'
<1>1. seen \in Nat /\ seen' \in Nat /\ DOMAIN log \subseteq Nat
  BY CurrentVersion DEF Inv
<1>2. \A v \in DOMAIN log : \A s \in 1 .. v : Inherits(s, v)'
  BY DEF Lineage, Inherits
<1>3. \A i \in DOMAIN log \ foreign : i = 1 \/ NewNames(i)'
  BY DEF Lineage, NewNames
<1>4. state' # Absent => OwnUpTo(seen)'
  BY <1>1 DEF Lineage, OwnUpTo
<1>5. pc' \in {"update", "commit"} =>
         log[shown] # Absent /\ state' = View(log[shown]) /\ OwnUpTo(shown)'
  BY DEF Lineage, OwnUpTo
<1> QED
  BY <1>2, <1>3, <1>4, <1>5 DEF Lineage

(* Steps that make a version.  What it has that the version before had not *)
(* it brings in itself, everything else it inherits.                       *)
LEMMA LogAppends ==
  ASSUME Inv, Lineage, NEW w, w = Absent \/ IsVersion(w),
         log' = Append(log, w), shown' = shown, foreign \subseteq foreign',
         \/ Len(log') \in foreign' \/ w = Absent \/ Current = Absent
         \/ \A x \in Identities(w) \ Identities(Current) : x.name \notin Names(Current.fields),
         state' # Absent =>
            \/ seen' = Len(log')
            \/ /\ state # Absent /\ seen' = seen
               /\ Len(log') \in foreign' \/ w = Absent \/ Len(log') <= seen + 1,
         pc' \in {"update", "commit"} =>
            pc \in {"update", "commit"} /\ state' = state /\ Len(log') \in foreign'
  PROVE  Lineage'
<1>0. PICK n \in Nat : n = Len(log)
  BY CurrentVersion DEF Inv
<1>1. /\ n \in Nat /\ Len(log') = n + 1 /\ n \in DOMAIN log /\ Current = log[n]
      /\ DOMAIN log = 1 .. n /\ DOMAIN log' = 1 .. n + 1
      /\ \A i \in 1 .. n : log'[i] = log[i]
      /\ log'[n + 1] = w
      /\ seen \in Nat
  BY <1>0, LogGrows, CurrentVersion DEF Inv
<1>2. ASSUME NEW v \in 1 .. n, NEW s \in 1 .. v PROVE Inherits(s, v)'
  <2>1. Inherits(s, v)
    BY <1>1 DEF Lineage
  <2>2. v \in 1 .. n /\ s \in 1 .. n
    BY <1>1
  <2>3. \A i \in s + 1 .. v : i \in 1 .. n /\ i - 1 \in 1 .. n
    BY <1>1
  <2> QED
    BY <2>1, <2>2, <2>3, <1>1 DEF Inherits
<1>3. ASSUME NEW s \in 1 .. n + 1, NEW x \in Identities(w)
      PROVE  \/ x \in Identities(log'[s])
             \/ \E i \in s + 1 .. n + 1 : x \in Identities(log'[i]) \ Identities(log'[i - 1])
  <2>1. CASE s = n + 1
    BY <2>1, <1>1
  <2>2. CASE s \in 1 .. n /\ x \in Identities(log[n])
    <3>1. n \in 1 .. n
      BY <1>1
    <3>2. Inherits(s, n)'
      BY <2>2, <3>1, <1>2
    <3>3. x \in Identities(log'[n])
      BY <2>2, <3>1, <1>1
    <3>4. \/ x \in Identities(log'[s])
          \/ \E i \in s + 1 .. n : x \in Identities(log'[i]) \ Identities(log'[i - 1])
      BY <3>2, <3>3 DEF Inherits
    <3>5. s + 1 .. n \subseteq s + 1 .. n + 1
      BY <1>1
    <3> QED
      BY <3>4, <3>5
  <2>3. CASE s \in 1 .. n /\ x \notin Identities(log[n])
    <3>1. n \in 1 .. n /\ n + 1 \in s + 1 .. n + 1 /\ (n + 1) - 1 = n
      BY <2>3, <1>1
    <3>2. x \in Identities(log'[n + 1]) \ Identities(log'[n])
      BY <2>3, <3>1, <1>1
    <3> QED
      BY <3>1, <3>2
  <2>4. s = n + 1 \/ s \in 1 .. n
    BY <1>1
  <2> QED
    BY <2>1, <2>2, <2>3, <2>4
<1>4. \A s \in 1 .. n + 1 : Inherits(s, n + 1)'
  BY <1>1, <1>3 DEF Inherits
<1>5. \A v \in DOMAIN log' : \A s \in 1 .. v : Inherits(s, v)'
  <2>1. \A v \in DOMAIN log' : v \in 1 .. n \/ v = n + 1
    BY <1>1
  <2> QED
    BY <2>1, <1>2, <1>4
<1>6. ASSUME NEW i \in DOMAIN log' \ foreign', i # 1 PROVE NewNames(i)'
  <2>1. CASE i \in 1 .. n
    <3>1. NewNames(i) /\ i - 1 \in 1 .. n
      BY <2>1, <1>1, <1>6 DEF Lineage
    <3> QED
      BY <2>1, <3>1, <1>1 DEF NewNames
  <2>2. CASE i = n + 1
    <3>1. i - 1 = n /\ n \in 1 .. n
      BY <2>2, <1>1, <1>6
    <3>2. log'[i] = w /\ log'[i - 1] = Current
      BY <2>2, <3>1, <1>1
    <3>3. w = Absent => Identities(w) = {}
      BY DEF Identities
    <3>4. \/ w = Absent \/ Current = Absent
          \/ \A x \in Identities(w) \ Identities(Current) : x.name \notin Names(Current.fields)
      BY <2>2, <1>1, <1>6
    <3> QED
      BY <3>2, <3>3, <3>4 DEF NewNames
  <2> QED
    BY <2>1, <2>2, <1>1
<1>7. ASSUME state' # Absent PROVE OwnUpTo(seen)'
  <2> SUFFICES ASSUME NEW i \in 1 .. n + 1, i \notin foreign', log'[i] # Absent
               PROVE  i <= seen' + 1
    BY <1>1 DEF OwnUpTo
  <2>1. CASE seen' = Len(log')
    BY <2>1, <1>1
  <2>2. CASE seen' # Len(log')
    <3>1. /\ state # Absent /\ seen' = seen /\ OwnUpTo(seen)
          /\ Len(log') \in foreign' \/ w = Absent \/ Len(log') <= seen + 1
      BY <2>2, <1>7 DEF Lineage
    <3>2. CASE i \in 1 .. n
      BY <3>1, <3>2, <1>1 DEF OwnUpTo
    <3>3. CASE i = n + 1
      BY <3>1, <3>3, <1>1
    <3> QED
      BY <3>2, <3>3, <1>1
  <2> QED
    BY <2>1, <2>2
<1>8. ASSUME pc' \in {"update", "commit"}
      PROVE  log'[shown] # Absent /\ state' = View(log'[shown]) /\ OwnUpTo(shown)'
  <2>1. /\ log[shown] # Absent /\ state = View(log[shown]) /\ OwnUpTo(shown)
        /\ shown \in 1 .. n /\ state' = state /\ n + 1 \in foreign'
    BY <1>1, <1>8 DEF Lineage
  <2>2. ASSUME NEW i \in 1 .. n + 1, i \notin foreign', log'[i] # Absent
        PROVE  i <= shown' + 1
    <3>1. i \in 1 .. n
      BY <2>1, <2>2, <1>1
    <3> QED
      BY <2>1, <2>2, <3>1, <1>1 DEF OwnUpTo
  <2> QED
    BY <2>1, <2>2, <1>1 DEF OwnUpTo
<1> QED
  BY <1>1, <1>5, <1>6, <1>7, <1>8 DEF Lineage

LEMMA StartLineage == Init => Lineage
<1> SUFFICES ASSUME Init PROVE Lineage
  OBVIOUS
<1>1. log = <<Absent>> /\ state = Absent /\ shown = 1 /\ pc = "idle"
  BY DEF Init
<1>2. DOMAIN log = 1 .. 1 /\ log[1] = Absent
  BY <1>1
<1>3. \A v \in DOMAIN log : \A s \in 1 .. v : Inherits(s, v)
  BY <1>2 DEF Inherits, Identities
<1> QED
  BY <1>1, <1>2, <1>3 DEF Lineage

(* A run is planned from what was looked at; of the versions that this     *)
(* provider made, only the next one can be missing from it.                *)
LEMMA BeginLineage == Inv /\ Lineage /\ Begin => Lineage'
<1> SUFFICES ASSUME Inv, Lineage, Begin PROVE Lineage'
  OBVIOUS
<1>1. /\ UNCHANGED <<log, foreign>> /\ shown' = seen'
      /\ pc' = Action(config, state')
      /\ IF state = Absent
         THEN state' = state /\ UNCHANGED <<seen, stale>>
         ELSE \E i \in seen .. Len(log) :
                 Loads(i) /\ state' = IF log[i] = Absent THEN Absent ELSE View(log[i])
  BY DEF Begin
<1>2. Typed /\ seen \in Nat /\ DOMAIN log \subseteq Nat /\ seen \in DOMAIN log
  BY CurrentVersion DEF Inv, Typed
<1>3. /\ seen' \in DOMAIN log /\ seen' \in Nat /\ seen <= seen'
      /\ state' # Absent =>
            state # Absent /\ log[seen'] # Absent /\ state' = View(log[seen'])
  <2>1. CASE state = Absent
    BY <2>1, <1>1, <1>2
  <2>2. CASE state # Absent
    <3>1. PICK i \in seen .. Len(log) :
             Loads(i) /\ state' = IF log[i] = Absent THEN Absent ELSE View(log[i])
      BY <2>2, <1>1
    <3> QED
      BY <2>2, <3>1, <1>2, LoadFacts
  <2> QED
    BY <2>1, <2>2
<1>4. state' # Absent => OwnUpTo(seen)'
  BY <1>1, <1>2, <1>3 DEF Lineage, OwnUpTo
<1>5. pc' \in {"update", "commit"} => state' # Absent
  BY <1>1 DEF Action
<1>6. pc' \in {"update", "commit"} => OwnUpTo(shown)'
  BY <1>1, <1>4, <1>5 DEF OwnUpTo
<1>7. \A v \in DOMAIN log : \A s \in 1 .. v : Inherits(s, v)'
  BY <1>1 DEF Lineage, Inherits
<1>8. \A i \in DOMAIN log \ foreign : i = 1 \/ NewNames(i)'
  BY <1>1 DEF Lineage, NewNames
<1> QED
  BY <1>1, <1>3, <1>4, <1>5, <1>6, <1>7, <1>8 DEF Lineage

LEMMA QuietLineage ==
  ASSUME Inv, Lineage, log' = log,
         \/ Edit \/ Provider \/ Crash
  PROVE  Lineage'
<1>0. Typed /\ Running /\ seen \in Nat /\ seen \in DOMAIN log
  BY CurrentVersion DEF Inv, Typed
<1>1. foreign' = foreign /\ shown' = shown
  BY DEF Edit, Crash, Provider, Create, CreateExists, CreateFails, Delete, DeleteFails, Update,
         Stage, StageFails, CommitLands, CommitRefused, CommitLost, Verify, VerifyDiffers,
         VerifyFails
<1>2. seen' \in DOMAIN log /\ seen <= seen'
  <2>1. CASE seen' = seen
    BY <2>1, <1>0
  <2>2. CASE \E i \in seen .. Len(log) : Loads(i)
    BY <2>2, <1>0, LoadFacts
  <2>3. CASE seen' = Len(log')
    BY <2>3, <1>0, CurrentVersion
  <2> QED
    BY <2>1, <2>2, <2>3
       DEF Edit, Crash, Provider, Create, CreateExists, CreateFails, Delete, DeleteFails, Update,
           Stage, StageFails, CommitLands, CommitRefused, CommitLost, Verify, VerifyDiffers,
           VerifyFails, Transaction
<1>3. ~Create
  <2> SUFFICES ASSUME Create PROVE FALSE
    OBVIOUS
  <2>1. log = Append(log, NewTable)
    BY DEF Create
  <2> QED
    BY <2>1, <1>0, AppendList DEF Typed
<1>4. state' # Absent => state # Absent
  BY <1>0, <1>3 DEF Edit, Crash, Provider, CreateExists, CreateFails, Delete, DeleteFails, Update,
         Stage, StageFails, CommitLands, CommitRefused, CommitLost, Verify, VerifyDiffers,
         VerifyFails, Running
<1>5. pc' \in {"update", "commit"} => pc \in {"update", "commit"} /\ state' = state
  BY <1>3 DEF Edit, Crash, Provider, CreateExists, CreateFails, Delete, DeleteFails, Update,
         Stage, StageFails, CommitLands, CommitRefused, CommitLost, Verify, VerifyDiffers,
         VerifyFails, TryAgain, End
<1> QED
  BY <1>1, <1>2, <1>4, <1>5, LogStays

(* What the steps that make a version append to the log.                   *)
LEMMA DriftLineage == Inv /\ Lineage /\ Drift => Lineage'
<1> SUFFICES ASSUME Inv, Lineage, Drift PROVE Lineage'
  OBVIOUS
<1>1. PICK w : log' = Append(log, w) /\ (w = Absent \/ IsVersion(w))
  BY DriftAppends
<1>2. /\ foreign' = foreign \cup {Len(log')}
      /\ UNCHANGED <<state, seen, shown, pc>>
  BY DEF Drift
<1> QED
  BY <1>1, <1>2, LogAppends

LEMMA CreateLineage ==
  ASSUME Inv, Lineage, log' # log, Create \/ CreateFails
  PROVE  Lineage'
<1>1. /\ pc = "create" /\ Current = Absent /\ log' = Append(log, NewTable)
      /\ UNCHANGED <<foreign, shown>> /\ pc' = "idle"
      /\ seen' = Len(log') \/ state' = state
  BY DEF Create, CreateFails, End
<1>2. IsModel(plan) /\ state = Absent
  BY <1>1, ModelAssumption DEF Inv, Running
<1>3. IsVersion(NewTable)
  BY <1>2, NewTableAsPlanned
<1> QED
  BY <1>1, <1>2, <1>3, LogAppends

LEMMA DeleteLineage ==
  ASSUME Inv, Lineage, log' # log, Delete \/ DeleteFails
  PROVE  Lineage'
<1>1. /\ log' = Append(log, Absent) /\ UNCHANGED <<foreign, shown>> /\ pc' = "idle"
      /\ state' = Absent \/ (state' = state /\ seen' = seen)
  BY DEF Delete, DeleteFails, End
<1> QED
  BY <1>1, LogAppends

LEMMA CommitLineage ==
  ASSUME Inv, Lineage, log' # log, CommitLands
  PROVE  Lineage'
<1>1. /\ log' = Append(log, staged) /\ pc = "commit" /\ base = Len(log) /\ pc' = "verify"
      /\ UNCHANGED <<state, foreign, shown, seen>>
  BY DEF CommitLands
<1>2. Stages(state, plan, Current, staged)
  BY CommitFacts
<1>3. IsVersion(staged) /\ IsVersion(Current)
  BY <1>2 DEF Stages
<1>4. \A x \in Identities(staged) \ Identities(Current) : x.name \notin Names(Current.fields)
  <2> SUFFICES ASSUME NEW x \in Identities(staged), x.name \in Names(Current.fields)
               PROVE  x \in Identities(Current)
    OBVIOUS
  <2>1. staged # Absent /\ Current # Absent
    BY <1>3, VersionNotAbsent
  <2>2. PICK j \in DOMAIN staged.fields :
           x = [id |-> staged.fields[j].id, name |-> staged.fields[j].name]
    BY <2>1 DEF Identities
  <2>3. PICK i \in DOMAIN Current.fields : /\ Current.fields[i].id = staged.fields[j].id
                                           /\ Current.fields[i].name = staged.fields[j].name
    BY <2>2, <1>2 DEF Stages
  <2> QED
    BY <2>1, <2>2, <2>3 DEF Identities
<1>5. Len(log') = Len(log) + 1 /\ Len(log) <= seen /\ seen \in Nat /\ Len(log) \in Nat
  BY <1>1, <1>3, LogGrows, CurrentVersion DEF Inv, Landing
<1>6. Len(log') <= seen + 1
  BY <1>5
<1>7. state' # Absent => state # Absent
  BY <1>1
<1> QED
  BY <1>1, <1>3, <1>4, <1>6, <1>7, LogAppends

LEMMA StepLineage == Inv /\ Lineage /\ [Next]_vars => Lineage'
<1> SUFFICES ASSUME Inv, Lineage, [Next]_vars PROVE Lineage'
  OBVIOUS
<1>1. CASE UNCHANGED vars
  <2>1. /\ UNCHANGED <<log, foreign, shown, seen, state, pc>>
        /\ seen \in DOMAIN log /\ seen <= seen
    BY <1>1, CurrentVersion DEF vars, Inv, Typed
  <2> QED
    BY <2>1, LogStays
<1>2. CASE log' = log /\ (Edit \/ Provider \/ Crash)
  BY <1>2, QuietLineage
<1>3. CASE log' # log /\ (Edit \/ Provider \/ Crash)
  <2>1. Create \/ CreateFails \/ Delete \/ DeleteFails \/ CommitLands
    BY <1>3 DEF Edit, Crash, Provider, CreateExists, Update, Stage, StageFails, CommitRefused,
                CommitLost, Verify, VerifyDiffers, VerifyFails
  <2> QED
    BY <1>3, <2>1, CreateLineage, DeleteLineage, CommitLineage
<1> QED
  BY <1>1, <1>2, <1>3, BeginLineage, DriftLineage DEF Next

(* Data goes only with columns whose removal the plan showed.  The staged  *)
(* version keeps every other column of the version it replaces.  A removed *)
(* name is in the version that was shown; a column of that name that is    *)
(* not was brought in by a version after it.  Only the next one of those   *)
(* can be this provider's, and what it brings in has other names.          *)
THEOREM DropsPlannedOnly == Spec => DropsOnlyPlanned
<1> DEFINE Planned ==
             \A c \in Identities(Current) \ Identities(Current') :
                /\ c.name \in Removed(state.fields, plan.fields)
                /\ \/ c \in Identities(log[shown])
                   \/ \E i \in foreign :
                         i > shown /\ c \in Identities(log[i]) \ Identities(log[i - 1])
<1>1. ASSUME Inv, Lineage, CommitLands, log' # log PROVE Planned
  <2> SUFFICES ASSUME NEW c \in Identities(Current), c \notin Identities(Current')
               PROVE  /\ c.name \in Removed(state.fields, plan.fields)
                      /\ \/ c \in Identities(log[shown])
                         \/ \E i \in foreign :
                               i > shown /\ c \in Identities(log[i]) \ Identities(log[i - 1])
    OBVIOUS
  <2>1. /\ Current' = staged /\ Stages(state, plan, Current, staged)
        /\ IsVersion(Current) /\ IsVersion(staged)
    BY <1>1, CommitFacts DEF Stages
  <2>2. Current # Absent /\ staged # Absent
    BY <2>1, VersionNotAbsent
  <2>3. PICK k \in DOMAIN Current.fields :
           c = [id |-> Current.fields[k].id, name |-> Current.fields[k].name]
    BY <2>2 DEF Identities
  <2>4. c.name \in Removed(state.fields, plan.fields)
    <3>1. CASE \E j \in DOMAIN staged.fields : /\ staged.fields[j].id = Current.fields[k].id
                                               /\ staged.fields[j].name = Current.fields[k].name
      BY <3>1, <2>1, <2>2, <2>3 DEF Identities
    <3> QED
      BY <3>1, <2>1, <2>3 DEF Stages
  <2>5. /\ log[shown] # Absent /\ state = View(log[shown]) /\ OwnUpTo(shown)
        /\ shown \in DOMAIN log
    BY <1>1 DEF Lineage, CommitLands
  <2>6. c.name \in Names(log[shown].fields)
    <3>1. IsVersion(log[shown])
      BY <2>5, <1>1 DEF Inv, Typed
    <3>2. Names(state.fields) = Names(log[shown].fields)
      BY <3>1, <2>5, ViewIsModel DEF Names
    <3> QED
      BY <3>2, <2>4 DEF Removed
  <2>7. /\ Current = log[Len(log)] /\ Len(log) \in DOMAIN log
        /\ DOMAIN log = 1 .. Len(log) /\ Len(log) \in Nat
    BY <1>1, CurrentVersion DEF Inv
  <2>8. Inherits(shown, Len(log))
    BY <2>5, <2>7, <1>1 DEF Lineage
  <2>9. CASE \E i \in shown + 1 .. Len(log) : c \in Identities(log[i]) \ Identities(log[i - 1])
    <3>1. PICK i \in shown + 1 .. Len(log) : c \in Identities(log[i]) \ Identities(log[i - 1])
      BY <2>9
    <3>2. i \in DOMAIN log /\ i > shown /\ i # 1 /\ shown \in Nat /\ i \in Nat
      BY <3>1, <2>5, <2>7
    <3>3. log[i] # Absent
      BY <3>1 DEF Identities
    <3>4. ASSUME i \notin foreign PROVE FALSE
      <4>1. i <= shown + 1
        BY <3>2, <3>3, <3>4, <2>5 DEF OwnUpTo
      <4>2. i - 1 = shown
        BY <4>1, <3>2
      <4>3. NewNames(i)
        BY <3>2, <3>4, <1>1 DEF Lineage
      <4>4. c.name \notin Names(log[shown].fields)
        BY <4>2, <4>3, <3>1, <2>5 DEF NewNames
      <4> QED
        BY <4>4, <2>6
    <3> QED
      BY <2>4, <3>1, <3>2, <3>4
  <2> QED
    BY <2>4, <2>7, <2>8, <2>9 DEF Inherits
<1>2. Inv /\ Lineage /\ [Next]_vars => [CommitLands /\ log' # log => Planned]_vars
  BY <1>1
<1> QED
  BY <1>2, StartLineage, StepLineage, Invariance, PTL DEF Spec, DropsOnlyPlanned

(* Each retry of an update that landed costs a stale load, so the wait can *)
(* only run out when there were more of them than retries.                 *)
THEOREM LandedRecognised == Spec => LandedIsRecognised
<1>1. Inv /\ [Next]_vars =>
        [VerifyDiffers /\ outcome' = "failed" /\ Current = staged /\ View(log[base]) = state
            /\ Extends(state.fields, plan.fields) /\ foreign \cap (base + 1 .. Len(log)) = {}
            => stale' > MaxRetries \/ faults' > 0]_vars
  <2> SUFFICES ASSUME Inv, VerifyDiffers, outcome' = "failed", Current = staged,
                      View(log[base]) = state, Extends(state.fields, plan.fields),
                      Alone, ~(faults' > 0)
               PROVE  stale' > MaxRetries
    BY DEF Alone
  <2>0. Typed /\ Running /\ Landing
    BY DEF Inv
  <2>1. pc = "verify" /\ TryAgain /\ faults' = faults
    BY DEF VerifyDiffers, bounds
  <2>2. PICK i \in seen .. Len(log) : Loads(i) /\ ~Matches(log[i])
    BY DEF VerifyDiffers
  <2>3. /\ seen \in Nat /\ seen <= i /\ i \in Nat /\ i <= Len(log) /\ Len(log) \in Nat
        /\ stale' \in Nat
        /\ i < Len(log) => stale' = stale + 1
    BY <2>0, <2>2, LoadFacts
  <2>4. /\ attempt \in 0 .. MaxRetries /\ MaxRetries \in Nat /\ faults = 0 /\ stale \in Nat
        /\ base \in Nat /\ Current = log[Len(log)]
    BY <2>0, <2>1, BoundsAssumption, CurrentVersion DEF Typed
  <2>5. attempt = MaxRetries
    <3>1. ~Again(attempt)
      BY <2>0, <2>1 DEF TryAgain, Running
    <3> QED
      BY <3>1, <2>4 DEF Again
  <2>6. base <= seen /\ Stages(state, plan, log[base], staged)
    BY <2>0, <2>1 DEF Landing
  <2>7. Shows(staged, plan) /\ Current # Absent
    BY <2>6, VersionNotAbsent DEF Stages
  <2>8. i # Len(log)
    BY <2>2, <2>4, <2>7 DEF Matches
  <2>9. Len(log) = base + 1
    <3>1. Len(log) # base
      BY <2>3, <2>6, <2>8, <2>4
    <3> QED
      BY <3>1, <2>0, <2>1, <2>7 DEF Landing
  <2>10. attempt <= stale
    BY <2>0, <2>1, <2>4, <2>7, <2>9 DEF Landing
  <2> QED
    BY <2>3, <2>4, <2>5, <2>8, <2>10
<1> QED
  BY <1>1, Invariance, PTL DEF Spec, LandedIsRecognised
------------------------------------------------------------------------------
(* The resource keeps the promise: each action is one of S3Promise, seen   *)
(* through the refinement mapping.                                         *)
LEMMA JobForm ==
  /\ pc = "idle" => Job = Absent
  /\ pc # "idle" => Job # Absent /\ Job.old = state /\ Job.new = plan
  /\ pc' = "idle" => Job' = Absent
  /\ pc' # "idle" => Job' # Absent /\ Job'.old = state' /\ Job'.new = plan'
<1>1. DOMAIN Absent = {"absent"}
  BY DEF Absent
<1>2. ASSUME NEW old, NEW new PROVE [old |-> old, new |-> new] # Absent
  <2>1. DOMAIN [old |-> old, new |-> new] = {"old", "new"}
    OBVIOUS
  <2> QED
    BY <1>1, <2>1
<1> QED
  BY <1>2 DEF Job

LEMMA ShownAsPlanned ==
  ASSUME NEW v, NEW m, m # Absent, Shows(v, m)
  PROVE  Promise!AsPlanned(v, m)
BY DEF Shows, View, ToSet, Promise!AsPlanned, Promise!Resource, Promise!Members

(* A version that the log gains is a change of the promise where it is one *)
(* the promise allows and the run has not tried before.                    *)
LEMMA ChangesTo ==
  ASSUME Typed, pc # "idle", pc # "verify",
         NEW v, v = Absent \/ IsVersion(v), log' = Append(log, v),
         Promise!Allowed(Current, v, state, plan)
  PROVE  Promise!Changes
<1>1. Len(log') = Len(log) + 1 /\ log'[Len(log')] = v
  BY LogGrows
<1>2. Promise!Table = Current /\ Promise!Table' = v
  BY <1>1, CurrentVersion DEF Promise!Table
<1> QED
  BY <1>1, <1>2, JobForm DEF Promise!Changes, Promise!Grows

(* A run that ends, having left the table alone or changed it as allowed.  *)
LEMMA Returns ==
  ASSUME pc # "idle", pc' = "idle", log' = log \/ Promise!Changes,
         seen' \in seen .. Len(log'),
         \/ outcome' = "failed"
         \/ /\ outcome' \in {"created", "updated", "inconsistent", "deleted"}
            /\ Promise!AsPlanned(log'[seen'], plan)
  PROVE  Promise!Return
<1>1. \/ Ending' = "failed"
      \/ Ending' = "done" /\ Promise!AsPlanned(log'[seen'], Job.new)
  BY JobForm DEF Ending
<1> QED
  BY <1>1, JobForm DEF Promise!Return, Promise!Looks

LEMMA StartsPromise == Init => Promise!Init
BY DEF Init, Promise!Init, Job, Ending

LEMMA EditPromise == Typed /\ Edit => Promise!Rest
<1> SUFFICES ASSUME Typed, Edit PROVE Promise!Rest
  OBVIOUS
<1>1. pc = "idle" /\ pc' = "idle" /\ outcome' = "none" /\ UNCHANGED <<log, seen>>
  BY DEF Edit
<1>2. seen' \in seen .. Len(log')
  BY <1>1, CurrentVersion
<1> QED
  BY <1>1, <1>2, JobForm DEF Promise!Rest, Promise!Looks, Ending

LEMMA DriftPromise == Inv /\ Drift => Promise!Others
<1> SUFFICES ASSUME Inv, Drift PROVE Promise!Others
  OBVIOUS
<1>0. Typed /\ Typed'
  BY DriftInv DEF Inv
<1>1. /\ \E v : log' = Append(log, v)
      /\ UNCHANGED <<state, plan, seen, pc, outcome>>
  BY DEF Drift
<1>2. PICK v : log' = Append(log, v)
  BY <1>1
<1>3. Len(log') = Len(log) + 1 /\ log'[Len(log')] = v
  BY <1>0, <1>2, AppendList DEF Typed
<1>4. Promise!Grows
  BY <1>2, <1>3 DEF Promise!Grows, Promise!Table
<1> QED
  BY <1>1, <1>4 DEF Promise!Others, Job, Ending

LEMMA BeginPromise == Inv /\ Begin => Promise!Rest \/ Promise!Start
<1> SUFFICES ASSUME Inv, Begin PROVE Promise!Rest \/ Promise!Start
  OBVIOUS
<1>0. Typed
  BY DEF Inv
<1>1. /\ pc = "idle" /\ pc' = Action(config, state') /\ log' = log
      /\ plan' = IF pc' = "idle" THEN Absent ELSE config
      /\ outcome' = IF pc' = "idle" THEN "unchanged" ELSE "none"
      /\ seen' \in DOMAIN log /\ seen <= seen'
      /\ state' # Absent => IsVersion(log[seen']) /\ state' = View(log[seen'])
  BY BeginFacts
<1>2. Promise!Looks /\ (pc = "verify") = FALSE /\ (pc' = "verify") = FALSE
  BY <1>0, <1>1, CurrentVersion DEF Promise!Looks, Action
<1>3. Ending' = "none"
  BY <1>1 DEF Ending
<1>4. CASE pc' = "idle"
  BY <1>1, <1>2, <1>3, <1>4, JobForm DEF Promise!Rest
<1>5. CASE pc' # "idle"
  <2>1. Job = Absent /\ Job' # Absent /\ Job'.old = state' /\ Job'.new = config
    BY <1>1, <1>5, JobForm
  <2>2. config # state'
    BY <1>1, <1>5 DEF Action
  <2>3. state' = Absent \/ (log'[seen'] # Absent /\ state' = Promise!Resource(log'[seen']))
    BY <1>1, VersionNotAbsent DEF View, Promise!Resource
  <2> QED
    BY <1>1, <1>2, <1>3, <2>1, <2>2, <2>3 DEF Promise!Start
<1> QED
  BY <1>4, <1>5

LEMMA CreatePromise == Inv /\ (Create \/ CreateExists \/ CreateFails) => Promise!Return
<1> SUFFICES ASSUME Inv, Create \/ CreateExists \/ CreateFails PROVE Promise!Return
  OBVIOUS
<1>0. Typed /\ Running
  BY DEF Inv
<1>1. pc = "create" /\ pc' = "idle"
  BY DEF Create, CreateExists, CreateFails, End
<1>2. state = Absent /\ IsModel(plan) /\ plan # Absent
  BY <1>0, <1>1, ModelAssumption, ModelNotAbsent DEF Running
<1>3. /\ IsVersion(NewTable) /\ NewTable # Absent
      /\ Promise!AsPlanned(NewTable, plan)
  BY <1>2, NewTableAsPlanned, VersionNotAbsent, ShownAsPlanned
<1>4. ASSUME Current = Absent, log' = Append(log, NewTable)
      PROVE  Promise!Changes /\ Len(log') = Len(log) + 1 /\ log'[Len(log')] = NewTable
  <2>1. Promise!Allowed(Current, NewTable, state, plan)
    BY <1>2, <1>3, <1>4 DEF Promise!Allowed
  <2> QED
    BY <1>0, <1>1, <1>3, <1>4, <2>1, ChangesTo, LogGrows
<1>5. CASE Create
  <2>1. /\ Current = Absent /\ log' = Append(log, NewTable) /\ seen' = Len(log')
        /\ outcome' = "created"
    BY <1>5 DEF Create, End
  <2>2. seen' \in seen .. Len(log') /\ log'[seen'] = NewTable
    BY <1>0, <1>4, <2>1, CurrentVersion
  <2> QED
    BY <1>1, <1>3, <1>4, <2>1, <2>2, Returns
<1>6. CASE CreateExists \/ CreateFails
  <2>1. /\ log' = log \/ (Current = Absent /\ log' = Append(log, NewTable))
        /\ seen' = seen /\ outcome' = "failed"
    BY <1>6 DEF CreateExists, CreateFails, End
  <2>2. log' = log \/ Promise!Changes
    BY <1>4, <2>1
  <2>3. seen' \in seen .. Len(log')
    BY <1>0, <1>4, <2>1, CurrentVersion
  <2> QED
    BY <1>1, <2>1, <2>2, <2>3, Returns
<1> QED
  BY <1>5, <1>6

LEMMA DeletePromise == Inv /\ (Delete \/ DeleteFails) => Promise!Return
<1> SUFFICES ASSUME Inv, Delete \/ DeleteFails PROVE Promise!Return
  OBVIOUS
<1>0. Typed /\ Running
  BY DEF Inv
<1>1. pc = "delete" /\ pc' = "idle"
  BY DEF Delete, DeleteFails, End
<1>2. plan = Absent
  BY <1>0, <1>1 DEF Running
<1>3. Promise!AsPlanned(Absent, plan)
  BY <1>2 DEF Promise!AsPlanned
<1>4. ASSUME Current # Absent, log' = Append(log, Absent)
      PROVE  Promise!Changes /\ Len(log') = Len(log) + 1 /\ log'[Len(log')] = Absent
  <2>1. Promise!Allowed(Current, Absent, state, plan)
    BY <1>2, <1>4 DEF Promise!Allowed
  <2> QED
    BY <1>0, <1>1, <1>4, <2>1, ChangesTo, LogGrows
<1>5. CASE Delete
  <2>1. /\ log' = IF Current = Absent THEN log ELSE Append(log, Absent)
        /\ seen' = Len(log') /\ outcome' = "deleted"
    BY <1>5 DEF Delete, End
  <2>2. (log' = log \/ Promise!Changes) /\ seen' \in seen .. Len(log') /\ log'[seen'] = Absent
    <3>1. CASE Current = Absent
      BY <1>0, <2>1, <3>1, CurrentVersion
    <3>2. CASE Current # Absent
      BY <1>0, <1>4, <2>1, <3>2, CurrentVersion
    <3> QED
      BY <3>1, <3>2
  <2> QED
    BY <1>1, <1>3, <2>1, <2>2, Returns
<1>6. CASE DeleteFails
  <2>1. /\ log' = log \/ (Current # Absent /\ log' = Append(log, Absent))
        /\ seen' = seen /\ outcome' = "failed"
    BY <1>6 DEF DeleteFails, End
  <2>2. (log' = log \/ Promise!Changes) /\ seen' \in seen .. Len(log')
    BY <1>0, <1>4, <2>1, CurrentVersion
  <2> QED
    BY <1>1, <2>1, <2>2, Returns
<1> QED
  BY <1>5, <1>6

LEMMA CrashPromise == Inv /\ (Crash \/ StageFails) => Promise!Return
<1> SUFFICES ASSUME Inv, Crash \/ StageFails PROVE Promise!Return
  OBVIOUS
<1>0. Typed
  BY DEF Inv
<1>1. pc # "idle" /\ pc' = "idle" /\ outcome' = "failed" /\ log' = log
  BY DEF Crash, StageFails, End
<1>2. CASE Crash
  <2>1. seen' \in seen .. Len(log')
    BY <1>0, <1>1, <1>2, CurrentVersion DEF Crash
  <2> QED
    BY <1>1, <2>1, Returns
<1>3. CASE StageFails
  <2>1. PICK i \in seen .. Len(log) : Loads(i)
    BY <1>3 DEF StageFails
  <2>2. seen' \in seen .. Len(log')
    BY <1>0, <1>1, <2>1, LoadFacts
  <2> QED
    BY <1>1, <2>2, Returns
<1> QED
  BY <1>2, <1>3

LEMMA StagePromise == Inv /\ Stage => Promise!Look
<1> SUFFICES ASSUME Inv, Stage PROVE Promise!Look
  OBVIOUS
<1>0. Typed
  BY DEF Inv
<1>1. /\ pc = "update" /\ pc' = "commit"
      /\ UNCHANGED <<state, plan, log, outcome>>
  BY DEF Stage
<1>2. PICK i \in seen .. Len(log) : Loads(i)
  BY DEF Stage
<1>3. Promise!Looks
  BY <1>0, <1>1, <1>2, LoadFacts DEF Promise!Looks
<1>4. Job' = Job /\ Job # Absent /\ Ending' = Ending /\ (pc' = "verify") = (pc = "verify")
  BY <1>1, JobForm DEF Job, Ending
<1> QED
  BY <1>1, <1>3, <1>4 DEF Promise!Look

(* The commit is where the promise has its one change: Stages says it is   *)
(* an allowed one of the version that is current when it lands.            *)
LEMMA CommitPromise == Inv /\ (CommitLands \/ CommitRefused \/ CommitLost) => Promise!Try
<1> SUFFICES ASSUME Inv, CommitLands \/ CommitRefused \/ CommitLost PROVE Promise!Try
  OBVIOUS
<1>0. Typed /\ Running
  BY DEF Inv
<1>1. /\ pc = "commit" /\ pc' = "verify"
      /\ UNCHANGED <<state, plan, seen, outcome>>
  BY DEF CommitLands, CommitRefused, CommitLost
<1>2. log' = log \/ Promise!Changes
  <2> SUFFICES ASSUME CommitLands, log' # log PROVE Promise!Changes
    BY DEF CommitRefused, CommitLost
  <2>1. log' = Append(log, staged) /\ Stages(state, plan, Current, staged)
    BY CommitFacts DEF CommitLands
  <2>2. /\ IsVersion(Current) /\ Current # Absent
        /\ IsVersion(staged) /\ staged # Absent
    BY <2>1, VersionNotAbsent DEF Stages
  <2>3. state # Absent /\ plan # Absent
    BY <1>0, <1>1, ModelAssumption, ModelNotAbsent DEF Running
  <2>4. Promise!Allowed(Current, staged, state, plan)
    BY <2>1, <2>2, <2>3 DEF Stages, Promise!Allowed
  <2> QED
    BY <1>0, <1>1, <2>1, <2>2, <2>4, ChangesTo
<1>3. Job' = Job /\ Job # Absent /\ Ending' = Ending
  BY <1>1, JobForm DEF Job, Ending
<1> QED
  BY <1>1, <1>2, <1>3 DEF Promise!Try

LEMMA VerifyPromise == Inv /\ Verify => Promise!Return
<1> SUFFICES ASSUME Inv, Verify PROVE Promise!Return
  OBVIOUS
<1>0. Typed /\ Running
  BY DEF Inv
<1>1. /\ pc = "verify" /\ pc' = "idle" /\ log' = log
      /\ outcome' \in {"updated", "inconsistent"}
  BY DEF Verify, End
<1>2. PICK i \in seen .. Len(log) : Loads(i) /\ Matches(log[i])
  BY DEF Verify
<1>3. seen' = i /\ seen' \in seen .. Len(log')
  BY <1>0, <1>1, <1>2, LoadFacts
<1>4. plan # Absent
  BY <1>0, <1>1, ModelAssumption, ModelNotAbsent DEF Running
<1>5. Promise!AsPlanned(log'[seen'], plan)
  BY <1>1, <1>2, <1>3, <1>4, ShownAsPlanned DEF Matches
<1> QED
  BY <1>1, <1>3, <1>5, Returns

LEMMA VerifyAgainPromise ==
  Inv /\ (VerifyDiffers \/ VerifyFails) => Promise!Look \/ Promise!Return
<1> SUFFICES ASSUME Inv, VerifyDiffers \/ VerifyFails PROVE Promise!Look \/ Promise!Return
  OBVIOUS
<1>0. Typed
  BY DEF Inv
<1>1. pc = "verify" /\ log' = log /\ state' = state /\ TryAgain
  BY DEF VerifyDiffers, VerifyFails
<1>2. seen' \in seen .. Len(log')
  <2>1. CASE VerifyDiffers
    <3>1. PICK i \in seen .. Len(log) : Loads(i)
      BY <2>1 DEF VerifyDiffers
    <3> QED
      BY <1>0, <1>1, <3>1, LoadFacts
  <2>2. CASE VerifyFails
    BY <1>0, <1>1, <2>2, CurrentVersion DEF VerifyFails
  <2> QED
    BY <2>1, <2>2
<1>3. CASE Again(attempt)
  <2>1. UNCHANGED <<pc, outcome, plan>>
    BY <1>1, <1>3 DEF TryAgain
  <2>2. Job' = Job /\ Job # Absent /\ Ending' = Ending
    BY <1>1, <2>1, JobForm DEF Job, Ending
  <2> QED
    BY <1>1, <1>2, <2>1, <2>2 DEF Promise!Look, Promise!Looks
<1>4. CASE ~Again(attempt)
  <2>1. pc' = "idle" /\ outcome' = "failed"
    BY <1>1, <1>4 DEF TryAgain, End
  <2> QED
    BY <1>1, <1>2, <2>1, Returns
<1> QED
  BY <1>3, <1>4

LEMMA StepPromise == Inv /\ [Next]_vars => [Promise!Next]_(Promise!vars)
<1> SUFFICES ASSUME Inv, [Next]_vars PROVE [Promise!Next]_(Promise!vars)
  OBVIOUS
<1>0. Typed
  BY DEF Inv
<1>1. CASE UNCHANGED vars
  BY <1>1 DEF vars, Promise!vars, Job, Ending
<1>2. CASE Edit \/ Drift \/ Begin
  BY <1>0, <1>2, EditPromise, DriftPromise, BeginPromise DEF Promise!Next
<1>3. CASE Create \/ CreateExists \/ CreateFails \/ Delete \/ DeleteFails \/ Crash \/ StageFails
  BY <1>3, CreatePromise, DeletePromise, CrashPromise DEF Promise!Next
<1>4. CASE Stage
  BY <1>4, StagePromise DEF Promise!Next
<1>5. CASE CommitLands \/ CommitRefused \/ CommitLost
  BY <1>5, CommitPromise DEF Promise!Next
<1>6. CASE Verify \/ VerifyDiffers \/ VerifyFails
  BY <1>6, VerifyPromise, VerifyAgainPromise DEF Promise!Next
<1> QED
  BY <1>1, <1>2, <1>3, <1>4, <1>5, <1>6 DEF Next, Provider, Update

(* The resource implements its promise: with everything that can be lost,  *)
(* late, tried again or done by others in between, a run changes the table *)
(* at most once, in one step, only as the plan says and as the table then  *)
(* is, and reports success only for what it has seen.                      *)
THEOREM Implements == Spec => KeepsPromise
<1> QED
  BY StartsPromise, StepPromise, Invariance, PTL DEF Spec, KeepsPromise, Promise!Spec
------------------------------------------------------------------------------
(* What ProviderReturns rests on, for every limit and however many loads   *)
(* are stale and calls fail.                                               *)
StepsLeft(phase) ==
  CASE phase = "update" -> 3
    [] phase = "commit" -> 2
    [] phase \in {"verify", "create", "delete"} -> 1
    [] phase = "idle" -> 0

(* The run is further on, or begins one of the loads that are left to it.  *)
Nearer ==
  \/ StepsLeft(pc') < StepsLeft(pc)
  \/ pc = "verify" /\ pc' = "verify" /\ attempt' = attempt + 1 /\ attempt' <= MaxRetries

NoStepBack ==
  [][/\ Provider \/ Crash => Nearer
     /\ pc = "idle" \/ Nearer \/ UNCHANGED <<pc, attempt>>]_vars

LEMMA ProviderStepCounts == Typed /\ (Provider \/ Crash) => Nearer
<1> SUFFICES ASSUME Typed, Provider \/ Crash PROVE Nearer
  OBVIOUS
<1>1. CASE Create \/ CreateExists \/ CreateFails \/ Delete \/ DeleteFails
  BY <1>1 DEF Create, CreateExists, CreateFails, Delete, DeleteFails, End, Nearer, StepsLeft
<1>2. CASE Stage \/ StageFails
  BY <1>2 DEF Stage, StageFails, End, Nearer, StepsLeft
<1>3. CASE CommitLands \/ CommitRefused \/ CommitLost
  BY <1>3 DEF CommitLands, CommitRefused, CommitLost, Nearer, StepsLeft
<1>4. CASE Verify
  BY <1>4 DEF Verify, End, Nearer, StepsLeft
<1>5. CASE VerifyDiffers \/ VerifyFails
  <2>1. pc = "verify" /\ TryAgain
    BY <1>5 DEF VerifyDiffers, VerifyFails
  <2>2. CASE Again(attempt)
    <3>1. attempt \in Nat /\ MaxRetries \in Nat /\ attempt < MaxRetries
      BY <2>2, BoundsAssumption DEF Typed, Again
    <3>2. attempt' = attempt + 1 /\ pc' = pc
      BY <2>1, <2>2 DEF TryAgain
    <3> QED
      BY <2>1, <3>1, <3>2 DEF Nearer
  <2>3. CASE ~Again(attempt)
    BY <2>1, <2>3 DEF TryAgain, End, Nearer, StepsLeft
  <2> QED
    BY <2>2, <2>3
<1>6. CASE Crash
  BY <1>6 DEF Crash, End, Typed, Nearer, StepsLeft
<1> QED
  BY <1>1, <1>2, <1>3, <1>4, <1>5, <1>6 DEF Provider, Update

(* A run stages once, commits once and then loads at most MaxRetries + 1   *)
(* times: every step of the provider takes it nearer its end, and no edit  *)
(* and no other writer sets it back.                                       *)
THEOREM EveryStepCounts == Spec => NoStepBack
<1>1. ASSUME Inv, [Next]_vars
      PROVE  /\ Provider \/ Crash => Nearer
             /\ pc = "idle" \/ Nearer \/ UNCHANGED <<pc, attempt>>
  <2>1. Typed
    BY <1>1 DEF Inv
  <2>2. CASE Edit \/ Drift \/ Begin \/ UNCHANGED vars
    BY <2>1, <2>2, ProviderStepCounts DEF Edit, Drift, Begin, Transaction, vars
  <2>3. CASE Provider \/ Crash
    BY <2>1, <2>3, ProviderStepCounts
  <2> QED
    BY <1>1, <2>2, <2>3 DEF Next
<1>2. Inv /\ [Next]_vars
      => [/\ Provider \/ Crash => Nearer
          /\ pc = "idle" \/ Nearer \/ UNCHANGED <<pc, attempt>>]_vars
  BY <1>1
<1> QED
  BY <1>2, Invariance, PTL DEF Spec, NoStepBack
==============================================================================
