------------------------- MODULE S3Lifecycle_proofs -------------------------
(***************************************************************************)
(* What S3Lifecycle promises for every set of configurations, every table  *)
(* and every bound.                                                        *)
(***************************************************************************)
EXTENDS S3Lifecycle, S3Schema_proofs

(* What is read back is declared once each, with the table's value.        *)
LEMMA PropsRead ==
  ASSUME NEW t, NEW ignore, NEW before,
         NEW P, P = PropertiesToPropertyModels(t, ignore, before)
  PROVE  /\ Declared(P) = {PropOrder[i] : i \in ReadBack(t, ignore, before)}
         /\ \A n \in Declared(P) : ByName(P)[n].value = t[n] /\ ByName(P)[n].type = "text"
         /\ IsList(P) /\ \A i \in DOMAIN P : P[i].type = "text"
<1> DEFINE R == ReadBack(t, ignore, before)
           names == Pick(PropOrder, R)
<1>1. IsList(PropOrder) /\ \A i, j \in DOMAIN PropOrder : PropOrder[i] = PropOrder[j] => i = j
  BY OrderAssumption
<1>2. R \in SUBSET DOMAIN PropOrder
  BY DEF ReadBack
<1> HIDE DEF R
<1>3. /\ IsFiniteSet(R) /\ Cardinality(R) \in Nat
      /\ IsList(names) /\ Len(names) = Cardinality(R) /\ DOMAIN names = 1 .. Cardinality(R)
      /\ \A k \in DOMAIN names : Nth(R, k) \in R /\ names[k] = PropOrder[Nth(R, k)]
      /\ \A i \in R : Rank(R, i) \in DOMAIN names /\ names[Rank(R, i)] = PropOrder[i]
  BY <1>1, <1>2, PickFacts
<1>4. R \in SUBSET Int
  BY <1>1, <1>2, ListDomain
<1>5. \A k \in DOMAIN names : Rank(R, Nth(R, k)) = k
  BY <1>3, <1>4, NthInSet
<1> HIDE DEF names
<1>6. \A k, l \in DOMAIN names : names[k] = names[l] => k = l
  BY <1>1, <1>2, <1>3, <1>5
<1>7. P = [k \in DOMAIN names |-> [name |-> names[k], value |-> t[names[k]], type |-> "text"]]
  BY DEF PropertiesToPropertyModels, names, R
<1>8. /\ DOMAIN P = DOMAIN names
      /\ \A k \in DOMAIN P : /\ P[k].name = names[k] /\ P[k].value = t[names[k]]
                             /\ P[k].type = "text"
  BY <1>7
<1>9. Declared(P) = {PropOrder[i] : i \in R}
  <2>1. ASSUME NEW k \in DOMAIN P
        PROVE  P[k].name \in {PropOrder[i] : i \in R}
    BY <1>3, <1>8
  <2>2. ASSUME NEW i \in R
        PROVE  PropOrder[i] \in Declared(P)
    BY <1>3, <1>8 DEF Declared
  <2> QED
    BY <2>1, <2>2 DEF Declared
<1>10. IsList(P) /\ Len(P) = Cardinality(R)
  <2>1. P = [k \in 1 .. Cardinality(R) |-> P[k]] /\ DOMAIN P = 1 .. Cardinality(R)
    BY <1>3, <1>7
  <2> QED
    BY <1>3, <2>1, FunctionIsList
<1>11. ASSUME NEW n \in Declared(P)
       PROVE  ByName(P)[n].value = t[n] /\ ByName(P)[n].type = "text"
  <2> DEFINE LastOf(i) == P[i].name = n /\ \A j \in i + 1 .. Len(P) : P[j].name # n
             c == CHOOSE i \in DOMAIN P : LastOf(i)
  <2>1. PICK k \in DOMAIN P : P[k].name = n
    BY DEF Declared
  <2>2. k \in Int /\ DOMAIN P = 1 .. Len(P) /\ Len(P) \in Nat
    BY <1>3, <1>8, <1>10
  <2>3. LastOf(k)
    <3>1. ASSUME NEW j \in k + 1 .. Len(P)
          PROVE  P[j].name # n
      <4>1. j \in DOMAIN P /\ j # k
        BY <2>2
      <4> QED
        BY <1>6, <1>8, <2>1, <4>1
    <3> QED
      BY <2>1, <3>1
  <2> HIDE DEF LastOf
  <2>4. c \in DOMAIN P /\ LastOf(c)
    BY <2>3
  <2>5. ByName(P)[n] = P[c]
    BY DEF ByName, LastOf
  <2>6. P[c].name = n
    BY <2>4 DEF LastOf
  <2> HIDE DEF c
  <2> QED
    BY <1>8, <2>4, <2>5, <2>6
<1> QED
  BY <1>8, <1>9, <1>10, <1>11 DEF R

LEMMA PropsAgree ==
  ASSUME NEW t, NEW u, NEW ignore, NEW other, NEW b, NEW c,
         ReadBack(t, ignore, b) = ReadBack(u, other, c),
         \A i \in ReadBack(t, ignore, b) : t[PropOrder[i]] = u[PropOrder[i]]
  PROVE  PropertiesToPropertyModels(t, ignore, b) = PropertiesToPropertyModels(u, other, c)
<1> DEFINE R == ReadBack(t, ignore, b)
           names == Pick(PropOrder, R)
<1>1. R \in SUBSET DOMAIN PropOrder
  BY DEF ReadBack
<1>2. ReadBack(u, other, c) = R /\ \A i \in R : t[PropOrder[i]] = u[PropOrder[i]]
  OBVIOUS
<1> HIDE DEF R
<1>3. \A k \in DOMAIN names : Nth(R, k) \in R /\ names[k] = PropOrder[Nth(R, k)]
  BY <1>1, OrderAssumption, PickFacts
<1> HIDE DEF names
<1>4. \A k \in DOMAIN names : t[names[k]] = u[names[k]]
  BY <1>2, <1>3
<1>5. PropertiesToPropertyModels(t, ignore, b) =
        [k \in DOMAIN names |-> [name |-> names[k], value |-> t[names[k]], type |-> "text"]]
  BY DEF PropertiesToPropertyModels, names, R
<1>6. PropertiesToPropertyModels(u, other, c) =
        [k \in DOMAIN names |-> [name |-> names[k], value |-> u[names[k]], type |-> "text"]]
  BY <1>2 DEF PropertiesToPropertyModels, names
<1> QED
  BY <1>4, <1>5, <1>6

(* Reading back again gives the same.                                      *)
LEMMA PropsStable ==
  ASSUME NEW t, NEW ignore, NEW b, NEW P, P = PropertiesToPropertyModels(t, ignore, b)
  PROVE  P = PropertiesToPropertyModels(t, ignore, P)
<1> DEFINE R == ReadBack(t, ignore, b)
<1>1. Declared(P) = {PropOrder[i] : i \in R}
  BY PropsRead
<1>2. ReadBack(t, ignore, P) = R
  <2>1. ASSUME NEW i \in DOMAIN PropOrder
        PROVE  i \in ReadBack(t, ignore, P) <=> i \in R
    <3>1. PropOrder[i] \in Declared(P) <=> i \in R
      <4>1. R \subseteq DOMAIN PropOrder
        BY DEF ReadBack
      <4> HIDE DEF R
      <4> QED
        BY <1>1, <4>1, OrderAssumption
    <3> QED
      BY <3>1 DEF ReadBack, Visible
  <2> QED
    BY <2>1 DEF ReadBack
<1> QED
  BY <1>2, PropsAgree

(* Values that are both the table's are equal, so that a configuration     *)
(* that says what the table has is let through.                            *)
LEMMA OwnPropsAllowed ==
  ASSUME NEW t, NEW old, NEW b, NEW ignore,
         NEW s, s = PropertiesToPropertyModels(t, old, b),
         NEW P, P = PropertiesToPropertyModels(t, ignore, P),
         Declared(P) \cap old = {}
  PROVE  PropChangesAllowed(s, P, ignore)
<1>1. /\ Declared(s) = {PropOrder[i] : i \in ReadBack(t, old, b)}
      /\ \A n \in Declared(s) : ByName(s)[n].value = t[n]
  BY PropsRead
<1>2. /\ Declared(P) = {PropOrder[i] : i \in ReadBack(t, ignore, P)}
      /\ \A n \in Declared(P) : ByName(P)[n].value = t[n] /\ ByName(P)[n].type = "text"
  BY PropsRead
<1>3. ASSUME NEW n \in EffectivePlan(P, ignore)
      PROVE  IF n \in EffectiveState(s, P, ignore)
             THEN PropValueEqual(ByName(s)[n].value, ByName(P)[n].value, ByName(P)[n].type)
             ELSE n \in AutoIgnoredProps
  <2>1. n \in Declared(P) /\ n \notin ignore /\ n \notin old
    BY DEF EffectivePlan
  <2>2. CASE n \in EffectiveState(s, P, ignore)
    <3>1. n \in Declared(s)
      BY <2>2 DEF EffectiveState
    <3>2. ByName(s)[n].value = t[n] /\ ByName(P)[n].value = t[n] /\ ByName(P)[n].type = "text"
      BY <1>1, <1>2, <2>1, <3>1
    <3> QED
      BY <2>2, <3>2 DEF PropValueEqual
  <2>3. CASE n \notin EffectiveState(s, P, ignore)
    <3>1. PICK i \in DOMAIN PropOrder :
             n = PropOrder[i] /\ n \in DOMAIN t /\ Visible(n, ignore, P)
      BY <1>2, <2>1 DEF ReadBack
    <3>2. n \notin Declared(s)
      BY <2>1, <2>3 DEF EffectiveState
    <3>3. ~Visible(n, old, b)
      BY <1>1, <3>1, <3>2 DEF ReadBack
    <3> QED
      BY <2>1, <2>3, <3>1, <3>3 DEF Visible
  <2> QED
    BY <2>2, <2>3
<1>4. ASSUME NEW n \in EffectiveState(s, P, ignore)
      PROVE  n \in EffectivePlan(P, ignore)
  <2>1. n \in Declared(s) /\ n \notin ignore /\ (n \in AutoIgnoredProps => n \in Declared(P))
    BY DEF EffectiveState
  <2>2. PICK i \in DOMAIN PropOrder :
           n = PropOrder[i] /\ n \in DOMAIN t /\ Visible(n, old, b)
    BY <1>1, <2>1 DEF ReadBack
  <2>3. Visible(n, ignore, P)
    BY <2>1, <2>2 DEF Visible
  <2>4. n \in Declared(P)
    BY <1>2, <2>2, <2>3 DEF ReadBack
  <2> QED
    BY <2>1, <2>4 DEF EffectivePlan
<1> QED
  BY <1>3, <1>4 DEF PropChangesAllowed
------------------------------------------------------------------------------
(* A table as the catalog keeps it.                                        *)
IsTableColumn(c) ==
  /\ c = [id |-> c.id, name |-> c.name, type |-> c.type, block |-> c.block, attrs |-> c.attrs,
          default |-> c.default]
  /\ c.id \in Int /\ IsType(c.type) /\ IsBlock(c.block)
  /\ \A k \in DOMAIN c.block.ids : c.block.ids[k] \in Int
  /\ TypeGiven(c)
  /\ c.type = NoType => c.default = NoDefault

IsTable(t) ==
  /\ t = [columns |-> t.columns, props |-> t.props, version |-> t.version, last |-> t.last]
  /\ t.last \in Int
  /\ IsList(t.columns) /\ t.columns # <<>> /\ Distinct(t.columns)
  /\ \A i \in DOMAIN t.columns : IsTableColumn(t.columns[i])
  /\ IDsUnique(t.columns, t.last)

LEMMA ShownFacts ==
  ASSUME NEW t, IsTable(t), NEW fs, fs = SchemaToFieldModels(t.columns)
  PROVE  /\ HasBlocks(fs) /\ Len(fs) = Len(t.columns) /\ DOMAIN fs = DOMAIN t.columns
         /\ fs # <<>> /\ Distinct(fs) /\ Unset(fs) = {} /\ Slots(fs) = Places(fs)
         /\ \A i \in DOMAIN t.columns :
               /\ fs[i] = [name |-> t.columns[i].name, type |-> t.columns[i].type,
                           block |-> t.columns[i].block, attrs |-> t.columns[i].attrs,
                           defaults |-> ReadDefault(t.columns[i].default)]
               /\ TypeGiven(fs[i])
         /\ \A p \in Places(fs) : ID(fs, p) \in Int
         /\ \A p, q \in Places(fs) : ID(fs, p) = ID(fs, q) => p = q
<1> DEFINE cs == t.columns
<1>1. /\ IsList(cs) /\ cs # <<>> /\ Distinct(cs)
      /\ \A i \in DOMAIN cs : IsTableColumn(cs[i])
      /\ NestedIDsUnique(cs, ColumnIDs(cs))
  BY DEF IsTable, IDsUnique, NestedIDsUnique, Slots
<1> HIDE DEF cs
<1>2. /\ DOMAIN fs = DOMAIN cs
      /\ \A i \in DOMAIN cs :
            fs[i] = [name |-> cs[i].name, type |-> cs[i].type, block |-> cs[i].block,
                     attrs |-> cs[i].attrs, defaults |-> ReadDefault(cs[i].default)]
  BY DEF SchemaToFieldModels, cs
<1>3. IsList(fs) /\ Len(fs) = Len(cs)
  <2>1. DOMAIN cs = 1 .. Len(cs) /\ Len(cs) \in Nat
    BY <1>1, ListDomain
  <2>2. fs = [i \in 1 .. Len(cs) |-> fs[i]]
    BY <2>1 DEF SchemaToFieldModels, cs
  <2> QED
    BY <1>2, <2>1, <2>2, FunctionIsList
<1>a. ASSUME NEW i \in DOMAIN cs
      PROVE  /\ fs[i].name = cs[i].name /\ fs[i].type = cs[i].type
             /\ fs[i].block = cs[i].block
             /\ fs[i] = [x \in DOMAIN fs[i] |-> fs[i][x]] /\ "block" \in DOMAIN fs[i]
  <2> DEFINE f == fs[i]
             c == cs[i]
             d == ReadDefault(c.default)
  <2>1. f = [name |-> c.name, type |-> c.type, block |-> c.block, attrs |-> c.attrs, defaults |-> d]
    BY <1>2
  <2> HIDE DEF f, c, d
  <2>2. /\ f.name = c.name /\ f.type = c.type /\ f.block = c.block
        /\ f = [x \in DOMAIN f |-> f[x]] /\ "block" \in DOMAIN f
    BY <2>1
  <2> QED
    BY <2>2 DEF f, c
<1>4. \A i \in DOMAIN cs : /\ fs[i].name = cs[i].name /\ fs[i].type = cs[i].type
                           /\ fs[i].block = cs[i].block
  BY <1>a
<1>5. \A i \in DOMAIN fs : /\ fs[i] = [x \in DOMAIN fs[i] |-> fs[i][x]]
                           /\ "block" \in DOMAIN fs[i]
  BY <1>a, <1>2
<1>6. \A i \in DOMAIN cs : IsBlock(cs[i].block) /\ TypeGiven(cs[i])
  BY <1>1 DEF IsTableColumn
<1>7. HasBlocks(fs)
  BY <1>2, <1>3, <1>4, <1>5, <1>6 DEF HasBlocks
<1>8. \A i \in DOMAIN fs : TypeGiven(fs[i])
  BY <1>2, <1>4, <1>6 DEF TypeGiven
<1>9. Slots(fs) = Places(fs)
  BY <1>7, <1>8, SlotsOfGiven
<1>10. ASSUME NEW p \in Places(fs)
       PROVE  ID(fs, p) \in Int
  <2>1. p[1] \in DOMAIN cs /\ p[2] \in DOMAIN cs[p[1]].block.ids
    BY <1>2, <1>4, <1>7, PlacesFacts
  <2>2. cs[p[1]].block.ids[p[2]] \in Int
    BY <1>1, <2>1 DEF IsTableColumn
  <2> QED
    BY <1>4, <2>1, <2>2 DEF ID
<1>11. Unset(fs) = {}
  BY <1>9, <1>10, NullAssumption DEF Unset
<1>12. fs # <<>>
  <2>1. Len(fs) = Len(cs) /\ Len(<<>>) = 0
    BY <1>3
  <2> QED
    BY <1>1, <2>1, EmptyList
<1>13. Distinct(fs)
  BY <1>1, <1>2, <1>4 DEF Distinct
<1>14. Places(cs) = Places(fs) /\ Slots(cs) = Slots(fs) /\ \A p \in Places(fs) : ID(cs, p) = ID(fs, p)
  <2>1. \A i \in DOMAIN cs : fs[i].block = cs[i].block
    BY <1>4
  <2>2. Places(cs) = Places(fs)
    BY <1>2, <2>1 DEF Places
  <2>3. \A p \in Places(fs) : p[1] \in DOMAIN cs
    BY <1>2, <1>7, PlacesFacts
  <2> QED
    BY <2>1, <2>2, <2>3 DEF Slots, ID
<1>15. \A p, q \in Places(fs) : ID(fs, p) = ID(fs, q) => p = q
  BY <1>1, <1>9, <1>14 DEF NestedIDsUnique
<1> QED
  BY <1>2, <1>3, <1>7, <1>8, <1>9, <1>10, <1>11, <1>12, <1>13, <1>15 DEF cs

LEMMA ShownNames ==
  ASSUME NEW t, IsTable(t), NEW fs, fs = SchemaToFieldModels(t.columns)
  PROVE  /\ DOMAIN fs = DOMAIN t.columns
         /\ \A i \in DOMAIN t.columns :
               /\ fs[i].name = t.columns[i].name /\ fs[i].type = t.columns[i].type
               /\ fs[i].block = t.columns[i].block /\ fs[i].attrs = t.columns[i].attrs
               /\ fs[i].defaults = ReadDefault(t.columns[i].default)
<1> SUFFICES ASSUME NEW i \in DOMAIN t.columns
             PROVE  /\ fs[i].name = t.columns[i].name /\ fs[i].type = t.columns[i].type
                    /\ fs[i].block = t.columns[i].block /\ fs[i].attrs = t.columns[i].attrs
                    /\ fs[i].defaults = ReadDefault(t.columns[i].default)
  BY ShownFacts
<1> DEFINE f == fs[i]
           c == t.columns[i]
           d == ReadDefault(c.default)
<1>1. f = [name |-> c.name, type |-> c.type, block |-> c.block, attrs |-> c.attrs, defaults |-> d]
  BY ShownFacts
<1> HIDE DEF f, c, d
<1>2. /\ f.name = c.name /\ f.type = c.type /\ f.block = c.block /\ f.attrs = c.attrs
      /\ f.defaults = d
  BY <1>1
<1> QED
  BY <1>2 DEF f, c, d
------------------------------------------------------------------------------
(* The invariant.  Reports and the history variables promise something     *)
(* about the configuration and the table, which both change under them.    *)
Outcomes == Good \cup {"none", "invalid", "inconsistent", "failed", "refused", "nested",
                       "destroyed"}

Tells(m, message) == HasBlocks(message) /\ Alike(m.fields, message)

Typed ==
  /\ config = Absent \/ IsModel(config)
  /\ table = Absent \/ IsTable(table)
  /\ tainted => state # Absent
  /\ told = NoMessage \/ (config # Absent /\ Tells(config, told))
  /\ outcome \in Outcomes
  /\ edits \in Nat /\ writes \in Nat

(* The table is as the configuration says.                                 *)
Records(m, t) ==
  /\ Alike(m.fields, SchemaToFieldModels(t.columns))
  /\ KeepsPins(m.fields, SchemaToFieldModels(t.columns))
  /\ m.props = PropertiesToPropertyModels(t.props, m.ignore, m.props)
  /\ m.version = t.version

Stored == config # Absent /\ table # Absent /\ Records(config, table)

Success ==
  /\ outcome \in Good => Stored
  /\ settled => Stored /\ ValidateConfig(config.fields)
  /\ settled /\ ~imported =>
        /\ state # Absent /\ ~tainted
        /\ state.ignore = config.ignore /\ state.props = config.props
  /\ imported => state # Absent /\ ~tainted /\ state.ignore = {}

(* All that is nested, in the configuration or in the table, is the same.  *)
SameNested(m, t) ==
  LET fs == SchemaToFieldModels(t.columns)
  IN  \A f \in ToSet(m.fields) :
         f.block # NoBlock \/ (\E g \in ToSet(fs) : g.name = f.name /\ g.block # NoBlock)
            => f \in ToSet(fs)

Managed == config # Absent /\ state # Absent /\ table # Absent /\ ~tainted

Messages ==
  /\ outcome = "nested" =>
        /\ Managed /\ told = StateIDs(config.fields, state)
        /\ state.fields = SchemaToFieldModels(table.columns)
  /\ outcome = "invalid" /\ told # NoMessage => told = Hint(config.fields)
  /\ cured => Managed /\ SameNested(config, table)
  /\ hinted => config # Absent /\ ValidateConfig(config.fields)

Inv == Typed /\ Success /\ Messages
------------------------------------------------------------------------------
LEMMA ModelFacts ==
  ASSUME NEW m, IsModel(m)
  PROVE  /\ m # Absent /\ IsFields(m.fields) /\ HasBlocks(m.fields)
         /\ m = [fields |-> m.fields, props |-> m.props, ignore |-> m.ignore, version |-> m.version]
<1>1. m = [fields |-> m.fields, props |-> m.props, ignore |-> m.ignore, version |-> m.version]
  BY DEF IsModel
<1>2. DOMAIN m = {"fields", "props", "ignore", "version"}
  BY <1>1
<1>3. DOMAIN Absent = {"absent"}
  BY DEF Absent
<1>4. IsFields(m.fields)
  BY DEF IsModel, IsFields
<1> QED
  BY <1>1, <1>2, <1>3, <1>4, FieldsHaveBlocks

LEMMA ViewFacts ==
  ASSUME NEW t, NEW ignore, NEW before, NEW V, V = View(t, ignore, before)
  PROVE  /\ V # Absent
         /\ V.fields = SchemaToFieldModels(t.columns)
         /\ V.props = PropertiesToPropertyModels(t.props, ignore, before)
         /\ V.ignore = ignore /\ V.version = t.version
         /\ V = [fields |-> V.fields, props |-> V.props, ignore |-> V.ignore,
                 version |-> V.version]
<1>1. DOMAIN V = {"fields", "props", "ignore", "version"}
  BY DEF View
<1>2. DOMAIN Absent = {"absent"}
  BY DEF Absent
<1> QED
  BY <1>1, <1>2 DEF View

LEMMA TableNotAbsent ==
  ASSUME NEW t, IsTable(t)
  PROVE  t # Absent
<1>1. DOMAIN t = {"columns", "props", "version", "last"}
  BY DEF IsTable
<1>2. DOMAIN Absent = {"absent"}
  BY DEF Absent
<1> QED
  BY <1>1, <1>2

LEMMA PlannedFacts ==
  ASSUME IsModel(config)
  PROVE  /\ Planned.fields = ResolveNestedIDs(config.fields)
         /\ Planned.props = config.props /\ Planned.ignore = config.ignore
         /\ Planned.version = config.version
         /\ Planned = [fields |-> Planned.fields, props |-> Planned.props,
                       ignore |-> Planned.ignore, version |-> Planned.version]
         /\ IsFields(Planned.fields) /\ HasBlocks(Planned.fields) /\ Unset(Planned.fields) = {}
         /\ Alike(config.fields, Planned.fields)
         /\ ValidateConfig(config.fields) => KeepsPins(config.fields, Planned.fields)
         /\ Unset(config.fields) = {} => Planned = config
<1> DEFINE r == ResolveNestedIDs(config.fields)
<1>1. /\ IsFields(config.fields)
      /\ config = [fields |-> config.fields, props |-> config.props, ignore |-> config.ignore,
                   version |-> config.version]
  BY ModelFacts
<1>2. /\ IsFields(r) /\ Alike(config.fields, r) /\ Unset(r) = {}
      /\ Unset(config.fields) \in {{}, Slots(config.fields)} => KeepsPins(config.fields, r)
  BY <1>1, ResolvedFacts
<1>3. ValidateConfig(config.fields) => Unset(config.fields) \in {{}, Slots(config.fields)}
  BY DEF ValidateConfig, NestedIDsResolve
<1>4. Unset(config.fields) = {} => r = config.fields
  BY DEF ResolveNestedIDs
<1> HIDE DEF r
<1>5. Planned = [config EXCEPT !.fields = r]
  BY DEF Planned, r
<1>6. Planned = [fields |-> r, props |-> config.props, ignore |-> config.ignore,
                 version |-> config.version]
  BY <1>1, <1>5
<1>7. /\ Planned.fields = r /\ Planned.props = config.props /\ Planned.ignore = config.ignore
      /\ Planned.version = config.version
  BY <1>6
<1>8. HasBlocks(r)
  BY <1>2, FieldsHaveBlocks
<1> QED
  BY <1>1, <1>2, <1>3, <1>4, <1>6, <1>7, <1>8 DEF r

(* What Terraform proposes.                                                *)
LEMMA ProposedFacts ==
  ASSUME IsModel(config), NEW t, IsTable(t), NEW s, s.fields = SchemaToFieldModels(t.columns),
         NEW Q, Q = Proposed(s)
  PROVE  /\ HasBlocks(Q.fields) /\ Alike(config.fields, Q.fields)
         /\ KeepsPins(config.fields, Q.fields)
         /\ Q.props = config.props /\ Q.ignore = config.ignore /\ Q.version = config.version
         /\ Q = [fields |-> Q.fields, props |-> Q.props, ignore |-> Q.ignore,
                 version |-> Q.version]
         /\ Alike(config.fields, s.fields) /\ KeepsPins(config.fields, s.fields)
               => Q.fields = s.fields
<1> DEFINE fs == config.fields
           gs == s.fields
           prior(i, k) ==
              IF /\ i \in DOMAIN gs
                 /\ gs[i].block.kind = fs[i].block.kind
                 /\ k \in DOMAIN gs[i].block.ids
              THEN gs[i].block.ids[k] ELSE Null
           ids == [p \in Places(fs) |-> IF ID(fs, p) # Null THEN ID(fs, p) ELSE prior(p[1], p[2])]
           hs == WithIDs(fs, ids)
<1>1. /\ IsFields(fs) /\ HasBlocks(fs)
      /\ config = [fields |-> fs, props |-> config.props, ignore |-> config.ignore,
                   version |-> config.version]
  BY ModelFacts
<1>2. HasBlocks(gs)
  BY ShownFacts
<1>3. \A i, k : prior(i, k) \in Int \cup {Null}
  <2> SUFFICES ASSUME NEW i, NEW k, i \in DOMAIN gs, k \in DOMAIN gs[i].block.ids
               PROVE  gs[i].block.ids[k] \in Int \cup {Null}
    OBVIOUS
  <2> QED
    BY <1>2 DEF HasBlocks, IsBlock
<1>4. \A p \in Places(fs) : /\ ID(fs, p) \in Int \cup {Null}
                            /\ p[1] \in DOMAIN fs /\ p[2] \in DOMAIN fs[p[1]].block.ids
  BY <1>1, PlacesFacts
<1>5. ASSUME Alike(fs, gs), KeepsPins(fs, gs)
      PROVE  \A p \in Places(fs) : ids[p] = ID(gs, p)
  <2> SUFFICES ASSUME NEW p \in Places(fs)
               PROVE  ids[p] = ID(gs, p)
    OBVIOUS
  <2>1. p[1] \in DOMAIN gs /\ p[2] \in DOMAIN gs[p[1]].block.ids
        /\ gs[p[1]].block.kind = fs[p[1]].block.kind
    <3> HIDE DEF prior, ids, hs, fs, gs
    <3>1. /\ DOMAIN gs = DOMAIN fs
          /\ \A i \in DOMAIN fs : DOMAIN gs[i].block.ids = DOMAIN fs[i].block.ids
      BY <1>1, <1>2, <1>5, AlikePlaces
    <3>2. p[1] \in DOMAIN fs /\ p[2] \in DOMAIN fs[p[1]].block.ids
      BY <1>4
    <3>3. gs[p[1]].block.kind = fs[p[1]].block.kind
      BY <1>5, <3>2 DEF Alike
    <3> QED
      BY <3>1, <3>2, <3>3
  <2>2. ID(fs, p) \in {Null, ID(gs, p)}
    BY <1>5 DEF KeepsPins
  <2>3. prior(p[1], p[2]) = ID(gs, p)
    BY <2>1 DEF ID
  <2> HIDE DEF prior, fs, gs
  <2> QED
    BY <2>2, <2>3
<1>6. \A p \in Places(fs) : ids[p] \in Int \cup {Null} /\ (ID(fs, p) # Null => ids[p] = ID(fs, p))
  <2> HIDE DEF prior, fs, gs
  <2> QED
    BY <1>3, <1>4
<1>7. Q = [config EXCEPT !.fields = hs]
  BY DEF Proposed
<1> HIDE DEF ids, prior
<1>8. /\ HasBlocks(hs) /\ Alike(fs, hs) /\ Places(hs) = Places(fs)
      /\ \A p \in Places(fs) : ID(hs, p) = ids[p]
  BY <1>1, <1>6, WithIDsFacts
<1>9. KeepsPins(fs, hs)
  BY <1>6, <1>8 DEF KeepsPins
<1>10. ASSUME Alike(fs, gs), KeepsPins(fs, gs)
       PROVE  hs = gs
  <2>1. Places(gs) = Places(fs) /\ DOMAIN gs = DOMAIN fs /\ DOMAIN hs = DOMAIN fs
    BY <1>1, <1>2, <1>8, <1>10, AlikePlaces
  <2>2. \A p \in Places(gs) : ID(hs, p) = ID(gs, p)
    BY <1>5, <1>8, <1>10, <2>1
  <2>3. Alike(gs, hs)
    BY <1>8, <1>10, <2>1 DEF Alike
  <2> QED
    BY <1>2, <1>8, <2>2, <2>3, AlikeEqual
<1> HIDE DEF hs, fs, gs
<1>11. Q = [fields |-> hs, props |-> config.props, ignore |-> config.ignore,
            version |-> config.version]
  BY <1>1, <1>7
<1>12. /\ Q.fields = hs /\ Q.props = config.props /\ Q.ignore = config.ignore
       /\ Q.version = config.version
  BY <1>11
<1> QED
  BY <1>8, <1>9, <1>10, <1>11, <1>12 DEF fs, gs
------------------------------------------------------------------------------
(* What a run has to show for the invariant.                               *)
LEMMA RunStep ==
  ASSUME Inv, NEW result, NEW s, NEW message, End(result, s, message),
         result \in Outcomes,
         table' = Absent \/ IsTable(table'),
         tainted' => s # Absent,
         message = NoMessage \/ (config # Absent /\ Tells(config, message)),
         result \in Good =>
            /\ config # Absent /\ table' # Absent /\ Records(config, table')
            /\ ValidateConfig(config.fields)
            /\ s # Absent /\ ~tainted'
            /\ s.ignore = config.ignore /\ s.props = config.props,
         result = "invalid" =>
            /\ s = state /\ tainted' = tainted
            /\ message # NoMessage => message = Hint(config.fields),
         result = "nested" =>
            /\ config # Absent /\ s # Absent /\ table' # Absent /\ ~tainted'
            /\ message = StateIDs(config.fields, s)
            /\ s.fields = SchemaToFieldModels(table'.columns),
         cured =>
            /\ config # Absent /\ s # Absent /\ table' # Absent /\ ~tainted'
            /\ SameNested(config, table')
  PROVE  Inv'
<1>1. /\ outcome' = result /\ state' = s /\ told' = message /\ settled' = (result \in Good)
      /\ imported' = (imported /\ result = "invalid")
      /\ config' = config /\ cured' = cured /\ hinted' = hinted /\ edits' = edits
      /\ writes' = writes
  BY DEF End
<1>2. Typed /\ Success /\ Messages
  BY DEF Inv
<1>3. Typed'
  <2>1. config' = Absent \/ IsModel(config')
    BY <1>1, <1>2 DEF Typed
  <2>2. told' = NoMessage \/ (config' # Absent /\ Tells(config', told'))
    BY <1>1
  <2>3. edits' \in Nat /\ writes' \in Nat
    BY <1>1, <1>2 DEF Typed
  <2>4. tainted' => state' # Absent
    BY <1>1
  <2>5. outcome' \in Outcomes
    BY <1>1
  <2> QED
    BY <2>1, <2>2, <2>3, <2>4, <2>5 DEF Typed, Outcomes, Good
<1>4. Success'
  <2>1. result \in Good => Stored'
    BY <1>1 DEF Stored
  <2>2. outcome' \in Good' => Stored'
    BY <1>1, <2>1 DEF Good
  <2>3. settled' => Stored' /\ ValidateConfig(config'.fields)
    BY <1>1, <2>1
  <2>4. settled' /\ ~imported' =>
           /\ state' # Absent /\ ~tainted'
           /\ state'.ignore = config'.ignore /\ state'.props = config'.props
    BY <1>1
  <2>5. imported' => state' # Absent /\ ~tainted' /\ state'.ignore = {}
    BY <1>1, <1>2 DEF Success
  <2> QED
    BY <2>2, <2>3, <2>4, <2>5 DEF Success
<1>5. Messages'
  <2>1. outcome' = "nested" =>
           /\ Managed' /\ told' = StateIDs(config'.fields, state')
           /\ state'.fields = SchemaToFieldModels(table'.columns)
    BY <1>1 DEF Managed
  <2>2. outcome' = "invalid" /\ told' # NoMessage => told' = Hint(config'.fields)
    BY <1>1
  <2>3. cured' => Managed' /\ SameNested(config', table')
    BY <1>1 DEF Managed
  <2>4. hinted' => config' # Absent /\ ValidateConfig(config'.fields)
    BY <1>1, <1>2 DEF Messages
  <2> QED
    BY <2>1, <2>2, <2>3, <2>4 DEF Messages
<1> QED
  BY <1>3, <1>4, <1>5 DEF Inv
------------------------------------------------------------------------------
LEMMA AlikeTrans ==
  ASSUME NEW fs, HasBlocks(fs), NEW gs, HasBlocks(gs), NEW hs, Alike(fs, gs), Alike(gs, hs)
  PROVE  Alike(fs, hs)
<1>1. DOMAIN gs = DOMAIN fs
  BY AlikePlaces
<1> QED
  BY <1>1 DEF Alike

(* All messages tell IDs and nothing else.                                 *)
LEMMA HintTells ==
  ASSUME NEW m, IsModel(m)
  PROVE  Tells(m, Hint(m.fields))
<1> DEFINE fs == m.fields
           full == FillMissingNestedIDs(fs)
           ids == [p \in Places(full) |-> IF ID(full, p) = Null THEN 0 ELSE ID(full, p)]
           hs == WithIDs(full, ids)
<1>1. IsFields(fs) /\ HasBlocks(fs)
  BY ModelFacts
<1>2. IsFields(full) /\ Alike(fs, full) /\ HasBlocks(full)
  BY <1>1, FilledFacts, FieldsHaveBlocks
<1>3. hs = Hint(fs)
  BY DEF Hint
<1> HIDE DEF full
<1>4. \A p \in Places(full) : ID(full, p) \in Int \cup {Null}
  BY <1>2, PlacesFacts
<1>5. \A p \in Places(full) : ids[p] \in Int \cup {Null}
  BY <1>4
<1> HIDE DEF ids
<1>6. HasBlocks(hs) /\ Alike(full, hs)
  BY <1>2, <1>5, WithIDsFacts
<1> HIDE DEF fs, hs
<1>7. Alike(fs, hs)
  BY <1>1, <1>2, <1>6, AlikeTrans
<1> QED
  BY <1>3, <1>6, <1>7 DEF Tells, fs

LEMMA WarningTells ==
  ASSUME IsModel(config)
  PROVE  Warning = NoMessage \/ Tells(config, Warning)
BY PlannedFacts DEF Warning, Tells

(* The state's column of the same name, if it has one with as many parts.  *)
LEMMA StateIDsFacts ==
  ASSUME NEW m, IsModel(m), NEW t, IsTable(t), NEW s, s.fields = SchemaToFieldModels(t.columns)
  PROVE  /\ Tells(m, StateIDs(m.fields, s))
         /\ \A i \in DOMAIN m.fields, j \in DOMAIN s.fields :
               /\ s.fields[j].name = m.fields[i].name
               /\ Len(s.fields[j].block.ids) = Len(m.fields[i].block.ids)
               => \A k \in DOMAIN m.fields[i].block.ids :
                     ID(StateIDs(m.fields, s), <<i, k>>) = s.fields[j].block.ids[k]
<1> DEFINE fs == m.fields
           gs == s.fields
           same(i) == {j \in DOMAIN gs : /\ gs[j].name = fs[i].name
                                         /\ Len(gs[j].block.ids) = Len(fs[i].block.ids)}
           ids == [p \in Places(fs) |->
                     IF same(p[1]) = {} THEN ID(fs, p)
                     ELSE gs[CHOOSE j \in same(p[1]) : TRUE].block.ids[p[2]]]
           hs == WithIDs(fs, ids)
<1>1. IsFields(fs) /\ HasBlocks(fs)
  BY ModelFacts
<1>2. HasBlocks(gs) /\ Distinct(gs)
  BY ShownFacts
<1>3. hs = StateIDs(fs, s)
  BY DEF StateIDs
<1> HIDE DEF fs, gs, hs
<1>4. /\ \A p \in Places(fs) : /\ ID(fs, p) \in Int \cup {Null}
                               /\ p[1] \in DOMAIN fs /\ p[2] \in DOMAIN fs[p[1]].block.ids
      /\ \A i \in DOMAIN fs : \A k \in DOMAIN fs[i].block.ids : <<i, k>> \in Places(fs)
  BY <1>1, PlacesFacts
<1>5. ASSUME NEW p \in Places(fs), NEW j \in same(p[1])
      PROVE  /\ ids[p] = gs[j].block.ids[p[2]]
             /\ gs[j].block.ids[p[2]] \in Int \cup {Null}
  <2>1. (CHOOSE x \in same(p[1]) : TRUE) \in same(p[1])
    BY <1>5
  <2>2. \A x \in same(p[1]) : x = j
    BY <1>2 DEF Distinct
  <2>3. (CHOOSE x \in same(p[1]) : TRUE) = j
    BY <2>1, <2>2
  <2>4. IsBlock(gs[j].block) /\ IsBlock(fs[p[1]].block)
        /\ Len(gs[j].block.ids) = Len(fs[p[1]].block.ids)
    BY <1>1, <1>2, <1>4 DEF HasBlocks
  <2>5. DOMAIN gs[j].block.ids = DOMAIN fs[p[1]].block.ids
    BY <2>4, BlockFacts
  <2>6. gs[j].block.ids[p[2]] \in Int \cup {Null}
    BY <1>4, <2>4, <2>5 DEF IsBlock
  <2>7. same(p[1]) # {}
    BY <1>5
  <2> HIDE DEF same
  <2> QED
    BY <2>3, <2>6, <2>7
<1>6. \A p \in Places(fs) : ids[p] \in Int \cup {Null}
  <2> SUFFICES ASSUME NEW p \in Places(fs)
               PROVE  ids[p] \in Int \cup {Null}
    OBVIOUS
  <2>1. CASE same(p[1]) = {}
    <3> HIDE DEF same
    <3> QED
      BY <1>4, <2>1
  <2>2. CASE same(p[1]) # {}
    BY <1>5, <2>2
  <2> QED
    BY <2>1, <2>2
<1> HIDE DEF ids
<1>7. HasBlocks(hs) /\ Alike(fs, hs) /\ \A p \in Places(fs) : ID(hs, p) = ids[p]
  BY <1>1, <1>6, WithIDsFacts DEF hs
<1>8. ASSUME NEW i \in DOMAIN fs, NEW j \in DOMAIN gs,
             gs[j].name = fs[i].name, Len(gs[j].block.ids) = Len(fs[i].block.ids),
             NEW k \in DOMAIN fs[i].block.ids
      PROVE  ID(hs, <<i, k>>) = gs[j].block.ids[k]
  <2> DEFINE p == <<i, k>>
  <2>1. p \in Places(fs) /\ p[1] = i /\ p[2] = k
    BY <1>4
  <2>2. j \in same(p[1])
    BY <1>8, <2>1
  <2> HIDE DEF p, same
  <2>3. ID(hs, p) = gs[j].block.ids[k]
    BY <1>5, <1>7, <2>1, <2>2
  <2> QED
    BY <2>3 DEF p
<1> QED
  BY <1>3, <1>7, <1>8 DEF Tells, fs, gs

LEMMA InvalidStep ==
  ASSUME Inv, ApplyInvalid
  PROVE  Inv'
<1>1. IsModel(config) /\ config # Absent /\ (table = Absent \/ IsTable(table))
  BY DEF Inv, Typed, ApplyInvalid, Run
<1> DEFINE msg == IF NestedIDsResolve(config.fields) THEN NoMessage ELSE Hint(config.fields)
<1>2. End("invalid", state, msg) /\ table' = table /\ tainted' = tainted
  BY DEF ApplyInvalid
<1>3. msg = NoMessage \/ msg = Hint(config.fields)
  OBVIOUS
<1> HIDE DEF msg
<1>4. msg = NoMessage \/ Tells(config, msg)
  BY <1>1, <1>3, HintTells
<1>5. /\ tainted' => state # Absent
      /\ cured => /\ config # Absent /\ state # Absent /\ table' # Absent /\ ~tainted'
                  /\ SameNested(config, table')
  BY <1>2 DEF Inv, Typed, Messages, Managed
<1>6. "invalid" \in Outcomes /\ "invalid" \notin Good /\ "invalid" # "nested"
  BY DEF Outcomes, Good
<1>7. table' = Absent \/ IsTable(table')
  BY <1>1, <1>2
<1> QED
  BY <1>1, <1>2, <1>3, <1>4, <1>5, <1>6, <1>7, RunStep
------------------------------------------------------------------------------
LEMMA RefreshedFacts ==
  ASSUME Inv, NEW R, R = Refreshed, R # Absent
  PROVE  /\ state # Absent /\ table # Absent /\ IsTable(table)
         /\ R = View(table, state.ignore, state.props)
         /\ R.fields = SchemaToFieldModels(table.columns)
         /\ R.props = PropertiesToPropertyModels(table.props, state.ignore, state.props)
         /\ R.ignore = state.ignore /\ R.version = table.version
         /\ R = [fields |-> R.fields, props |-> R.props, ignore |-> R.ignore,
                 version |-> R.version]
<1>1. state # Absent /\ table # Absent /\ R = View(table, state.ignore, state.props)
  BY DEF Refreshed
<1>2. IsTable(table)
  BY <1>1 DEF Inv, Typed
<1> QED
  BY <1>1, <1>2, ViewFacts

LEMMA ValidFacts ==
  ASSUME Inv, Valid
  PROVE  IsModel(config) /\ config # Absent /\ ValidateConfig(config.fields)
BY DEF Inv, Typed, Valid, Run

LEMMA UnchangedRecords ==
  ASSUME Inv, Valid, NEW R, R = Refreshed, R # Absent, Proposed(R) = R
  PROVE  Records(config, table) /\ R.ignore = config.ignore /\ R.props = config.props
<1>1. IsModel(config)
  BY ValidFacts
<1>2. /\ IsTable(table) /\ R.fields = SchemaToFieldModels(table.columns)
      /\ R.props = PropertiesToPropertyModels(table.props, state.ignore, state.props)
      /\ R.ignore = state.ignore /\ R.version = table.version
  BY RefreshedFacts
<1>3. /\ Alike(config.fields, R.fields) /\ KeepsPins(config.fields, R.fields)
      /\ R.props = config.props /\ R.ignore = config.ignore /\ R.version = config.version
  BY <1>1, <1>2, ProposedFacts
<1>4. config.props = PropertiesToPropertyModels(table.props, config.ignore, state.props)
  BY <1>2, <1>3
<1>5. config.props = PropertiesToPropertyModels(table.props, config.ignore, config.props)
  BY <1>4, PropsStable
<1> QED
  BY <1>2, <1>3, <1>5 DEF Records

LEMMA UnchangedStep ==
  ASSUME Inv, ApplyUnchanged
  PROVE  Inv'
<1> DEFINE R == Refreshed
<1>1. /\ End("unchanged", R, NoMessage) /\ table' = table /\ tainted' = tainted
      /\ Valid /\ R # Absent /\ ~tainted /\ Proposed(R) = R
  BY DEF ApplyUnchanged
<1>2. IsModel(config) /\ config # Absent /\ ValidateConfig(config.fields)
  BY <1>1, ValidFacts
<1>3. /\ state # Absent /\ table # Absent /\ IsTable(table)
  BY <1>1, RefreshedFacts
<1>4. Records(config, table) /\ R.ignore = config.ignore /\ R.props = config.props
  BY <1>1, UnchangedRecords
<1> HIDE DEF R
<1>5. cured => SameNested(config, table)
  BY DEF Inv, Messages
<1>6. /\ "unchanged" \in Outcomes /\ "unchanged" # "invalid" /\ "unchanged" # "nested"
  BY DEF Outcomes, Good
<1> QED
  BY <1>1, <1>2, <1>3, <1>4, <1>5, <1>6, RunStep
------------------------------------------------------------------------------
(* A new table.                                                            *)
AreColumns(cs) ==
  /\ IsList(cs) /\ cs # <<>> /\ Distinct(cs)
  /\ \A i \in DOMAIN cs : IsTableColumn(cs[i])
  /\ \A i, j \in DOMAIN cs : cs[i].id = cs[j].id => i = j
  /\ NestedIDsUnique(cs, ColumnIDs(cs))

LEMMA ColumnBlocks ==
  ASSUME NEW cs, IsList(cs), \A i \in DOMAIN cs : IsTableColumn(cs[i])
  PROVE  /\ HasBlocks(cs) /\ Slots(cs) = Places(cs)
         /\ \A p \in Places(cs) : ID(cs, p) \in Int
<1>1. ASSUME NEW c, IsTableColumn(c)
      PROVE  /\ c = [x \in DOMAIN c |-> c[x]] /\ "block" \in DOMAIN c /\ IsBlock(c.block)
             /\ TypeGiven(c)
             /\ DOMAIN c = {"id", "name", "type", "block", "attrs", "default"}
  <2>1. c = [id |-> c.id, name |-> c.name, type |-> c.type, block |-> c.block,
             attrs |-> c.attrs, default |-> c.default]
    BY <1>1 DEF IsTableColumn
  <2>2. c = [x \in DOMAIN c |-> c[x]]
    BY <2>1
  <2>3. DOMAIN c = {"id", "name", "type", "block", "attrs", "default"}
    BY <2>1
  <2> QED
    BY <1>1, <2>2, <2>3 DEF IsTableColumn
<1>2. HasBlocks(cs)
  BY <1>1 DEF HasBlocks
<1>3. Slots(cs) = Places(cs)
  BY <1>1, <1>2, SlotsOfGiven
<1>4. \A p \in Places(cs) : p[1] \in DOMAIN cs /\ p[2] \in DOMAIN cs[p[1]].block.ids
  BY <1>2, PlacesFacts
<1> QED
  BY <1>2, <1>3, <1>4 DEF IsTableColumn, ID

LEMMA MadeTable ==
  ASSUME NEW cs, AreColumns(cs), NEW props, NEW version,
         NEW t, t = [columns |-> cs, props |-> props, version |-> version, last |-> MaxID(cs)]
  PROVE  IsTable(t)
<1> DEFINE I == {cs[i].id : i \in DOMAIN cs}
           S == I \cup Pinned(cs) \cup {0}
<1>1. /\ IsList(cs) /\ DOMAIN cs = 1 .. Len(cs) /\ Len(cs) \in Nat
      /\ \A i \in DOMAIN cs : cs[i].id \in Int
      /\ HasBlocks(cs)
  BY ListDomain, ColumnBlocks DEF AreColumns, IsTableColumn
<1>2. IsFiniteSet(Pinned(cs)) /\ Pinned(cs) \in SUBSET Int
  BY <1>1, PlacesFacts
<1>3. IsFiniteSet(I)
  <2> DEFINE f == [i \in DOMAIN cs |-> cs[i].id]
  <2>1. f \in Surjection(DOMAIN cs, I)
    BY DEF Surjection
  <2>2. IsFiniteSet(DOMAIN cs)
    BY <1>1, FS_Interval
  <2> QED
    BY <2>1, <2>2, FS_Surjection
<1>4. I \in SUBSET Int /\ ToSet(ColumnIDs(cs)) = I
  BY <1>1 DEF ToSet, ColumnIDs
<1>5. MaxID(cs) = Max(S)
  BY DEF MaxID
<1> HIDE DEF I
<1>6. IsFiniteSet(S)
  <2>1. IsFiniteSet(I \cup Pinned(cs))
    BY <1>2, <1>3, FS_Union
  <2> QED
    BY <2>1, FS_AddElement
<1>7. S \in SUBSET Int /\ 0 \in S /\ I \subseteq S /\ Pinned(cs) \subseteq S
  <2>1. I \subseteq Int /\ Pinned(cs) \subseteq Int /\ {0} \subseteq Int
    BY <1>2, <1>4
  <2>2. S \subseteq Int
    BY <2>1
  <2> QED
    BY <2>2
<1> HIDE DEF S
<1>8. MaxID(cs) \in Int /\ \A x \in S : x <= MaxID(cs)
  BY <1>5, <1>6, <1>7, MaxFacts
<1>9. \A id \in ToSet(ColumnIDs(cs)) \cup Pinned(cs) : id \in Int /\ id <= MaxID(cs)
  BY <1>4, <1>7, <1>8
<1>10. IDsUnique(cs, MaxID(cs))
  <2>1. Slots(cs) = Places(cs)
    BY ColumnBlocks DEF AreColumns
  <2> QED
    BY <1>9, <2>1 DEF IDsUnique, AreColumns, NestedIDsUnique
<1>11. t.columns = cs /\ t.last = MaxID(cs)
       /\ t = [columns |-> t.columns, props |-> t.props, version |-> t.version, last |-> t.last]
  OBVIOUS
<1> QED
  BY <1>8, <1>10, <1>11 DEF IsTable, AreColumns

(* The IDs of a new table as they are given.                               *)
LEMMA BuiltColumns ==
  ASSUME NEW fs, IsFields(fs), fs # <<>>, Distinct(fs), \A i \in DOMAIN fs : TypeGiven(fs[i]),
         Unset(fs) = {}, SchemaBuilds(fs)
  PROVE  AreColumns(BuildSchema(fs))
<1> DEFINE cs == BuildSchema(fs)
           ids == FieldIDs(fs)
<1>1. HasBlocks(fs) /\ IsList(fs) /\ DOMAIN fs = 1 .. Len(fs) /\ Len(fs) \in Nat
      /\ Slots(fs) = Places(fs)
  BY FieldsHaveBlocks, ListDomain, SlotsOfGiven DEF IsFields
<1>2. /\ IsFiniteSet(Pinned(fs))
      /\ \A p \in Places(fs) : /\ p[1] \in DOMAIN fs /\ p[2] \in DOMAIN fs[p[1]].block.ids
                               /\ ID(fs, p) \in Int \cup {Null}
      /\ \A i \in DOMAIN fs : \A k \in DOMAIN fs[i].block.ids :
            <<i, k>> \in Places(fs) /\ ID(fs, <<i, k>>) = fs[i].block.ids[k]
  BY <1>1, PlacesFacts
<1>3. \A p \in Places(fs) : ID(fs, p) \in Int
  BY <1>1, <1>2 DEF Unset
<1>4. /\ DOMAIN ids = 1 .. Len(fs) /\ \A i \in DOMAIN fs : ids[i] \in Int
      /\ \A i, j \in DOMAIN fs : ids[i] = ids[j] => i = j
  <2>1. ids = FirstFree(Len(fs), Pinned(fs))
    <3>1. Slots(fs) = {} => Pinned(fs) = {}
      BY <1>1 DEF Pinned
    <3> QED
      BY <3>1 DEF FieldIDs
  <2> QED
    BY <1>1, <1>2, <2>1, FreshNumbers
<1>5. NestedIDsUnique(fs, ids)
  BY DEF SchemaBuilds, NestedIDsResolve
<1> HIDE DEF ids
<1>6. ASSUME NEW i \in DOMAIN fs
      PROVE  /\ IsTableColumn(cs[i]) /\ cs[i].name = fs[i].name /\ cs[i].id = ids[i]
             /\ cs[i].block.ids = fs[i].block.ids
  <2> DEFINE f == fs[i]
             g == StoredType(f)
             n == ids[i]
             d == IF g.type = NoType THEN NoDefault ELSE StoredDefault(g)
             c == cs[i]
  <2>1. ResolveNestedIDs(fs) = fs
    BY DEF ResolveNestedIDs
  <2>2. c = [id |-> n, name |-> g.name, type |-> g.type, block |-> g.block,
             attrs |-> g.attrs, default |-> d]
    BY <2>1 DEF BuildSchema, ids
  <2>3. IsField(f) /\ TypeGiven(f) /\ TypesParse(f)
    BY DEF IsFields, SchemaBuilds
  <2>4. /\ g.name = f.name /\ IsType(g.type) /\ IsBlock(g.block) /\ TypeGiven(g)
        /\ g.block.ids = f.block.ids
    BY <2>3, StoredTypeFacts
  <2>5. \A k \in DOMAIN f.block.ids : f.block.ids[k] \in Int
    BY <1>2, <1>3
  <2>6. n \in Int /\ (g.type = NoType => d = NoDefault)
    BY <1>4
  <2> HIDE DEF f, g, n, c, d
  <2>7. /\ c.id = n /\ c.name = g.name /\ c.type = g.type /\ c.block = g.block
        /\ c.attrs = g.attrs /\ c.default = d
    BY <2>2
  <2>8. c = [id |-> c.id, name |-> c.name, type |-> c.type, block |-> c.block,
             attrs |-> c.attrs, default |-> c.default]
    BY <2>2, <2>7
  <2>9. TypeGiven(c)
    BY <2>4, <2>7 DEF TypeGiven
  <2>10. IsTableColumn(c)
    BY <2>4, <2>5, <2>6, <2>7, <2>8, <2>9 DEF IsTableColumn
  <2> QED
    BY <2>4, <2>7, <2>10 DEF c, f, n
<1>7. DOMAIN cs = DOMAIN fs
  BY DEF BuildSchema
<1>8. IsList(cs) /\ Len(cs) = Len(fs)
  <2>1. cs = [i \in 1 .. Len(fs) |-> cs[i]]
    BY <1>1 DEF BuildSchema
  <2> QED
    BY <1>1, <1>7, <2>1, FunctionIsList
<1> HIDE DEF cs
<1>9. cs # <<>>
  <2>1. Len(cs) = Len(fs) /\ Len(<<>>) = 0
    BY <1>8
  <2> QED
    BY <1>1, <2>1, EmptyList
<1>10. Distinct(cs)
  BY <1>6, <1>7 DEF Distinct
<1>11. \A i, j \in DOMAIN cs : cs[i].id = cs[j].id => i = j
  BY <1>4, <1>6, <1>7
<1>12. NestedIDsUnique(cs, ColumnIDs(cs))
  <2>1. HasBlocks(cs) /\ Slots(cs) = Places(cs)
    BY <1>6, <1>7, <1>8, ColumnBlocks
  <2>2. Places(cs) = Places(fs)
    BY <1>6, <1>7 DEF Places
  <2>3. \A p \in Places(fs) : ID(cs, p) = ID(fs, p)
    BY <1>2, <1>6 DEF ID
  <2>4. ToSet(ColumnIDs(cs)) = ToSet(ids)
    BY <1>1, <1>4, <1>6, <1>7 DEF ToSet, ColumnIDs
  <2> QED
    BY <1>1, <1>5, <2>1, <2>2, <2>3, <2>4 DEF NestedIDsUnique
<1> QED
  BY <1>6, <1>7, <1>8, <1>9, <1>10, <1>11, <1>12 DEF AreColumns, cs

(* The IDs of a new table numbered afresh.                                 *)
LEMMA RenumberedColumns ==
  ASSUME NEW cs, AreColumns(cs)
  PROVE  AreColumns([i \in DOMAIN cs |-> [AutoAssigned(cs)[i] EXCEPT !.id = i]])
<1> DEFINE es == AutoAssigned(cs)
           ds == [i \in DOMAIN cs |-> [es[i] EXCEPT !.id = i]]
<1>0. DOMAIN ds = DOMAIN cs /\ \A i \in DOMAIN cs : ds[i] = [es[i] EXCEPT !.id = i]
  OBVIOUS
<1>a. ds = [i \in DOMAIN cs |-> ds[i]]
  OBVIOUS
<1> HIDE DEF ds
<1>1. /\ IsList(cs) /\ DOMAIN cs = 1 .. Len(cs) /\ Len(cs) \in Nat /\ cs # <<>>
      /\ HasBlocks(cs) /\ Slots(cs) = Places(cs)
      /\ \A i \in DOMAIN cs : IsTableColumn(cs[i])
      /\ Distinct(cs)
  BY ListDomain, ColumnBlocks DEF AreColumns
<1>2. /\ HasBlocks(es) /\ Alike(cs, es) /\ Slots(es) = Slots(cs) /\ Places(es) = Places(cs)
      /\ \A p \in Slots(cs) : ID(es, p) \in Int /\ ID(es, p) > Len(cs)
      /\ \A p, q \in Slots(cs) : ID(es, p) = ID(es, q) => p = q
  BY <1>1, AutoAssignedFacts
<1> HIDE DEF es
<1>3. /\ DOMAIN es = DOMAIN cs
      /\ \A i \in DOMAIN cs : DOMAIN es[i].block.ids = DOMAIN cs[i].block.ids
  BY <1>1, <1>2, AlikePlaces
<1>b. \A i \in DOMAIN es : \A k \in DOMAIN es[i].block.ids :
         <<i, k>> \in Places(es) /\ ID(es, <<i, k>>) = es[i].block.ids[k]
  BY <1>2, PlacesFacts
<1>4. \A i \in DOMAIN cs : \A k \in DOMAIN es[i].block.ids :
         <<i, k>> \in Places(es) /\ ID(es, <<i, k>>) = es[i].block.ids[k]
  BY <1>3, <1>b
<1>5. ASSUME NEW i \in DOMAIN cs
      PROVE  /\ IsTableColumn(ds[i]) /\ ds[i].name = cs[i].name /\ ds[i].id = i
             /\ ds[i].block = es[i].block
  <2> DEFINE c == cs[i]
             a == es[i]
             d == ds[i]
  <2>1. /\ c = [id |-> c.id, name |-> c.name, type |-> c.type, block |-> c.block,
                attrs |-> c.attrs, default |-> c.default]
        /\ IsType(c.type) /\ TypeGiven(c) /\ (c.type = NoType => c.default = NoDefault)
    BY <1>1 DEF IsTableColumn
  <2>2. /\ a = [x \in DOMAIN a |-> a[x]] /\ IsBlock(a.block) /\ DOMAIN a = DOMAIN c
        /\ \A x \in DOMAIN c \ {"block"} : a[x] = c[x]
        /\ a.block.kind = c.block.kind /\ a.block.parts = c.block.parts
    BY <1>2, <1>3 DEF HasBlocks, Alike
  <2>3. d = [a EXCEPT !.id = i]
    BY <1>0
  <2>4. \A k \in DOMAIN a.block.ids : a.block.ids[k] \in Int
    <3>1. \A k \in DOMAIN es[i].block.ids : ID(es, <<i, k>>) \in Int
      BY <1>1, <1>2, <1>4
    <3> QED
      BY <1>4, <3>1
  <2>5. i \in Int
    BY <1>1
  <2> HIDE DEF a, c, d
  <2>6. DOMAIN a = {"id", "name", "type", "block", "attrs", "default"}
    BY <2>1, <2>2
  <2>7. d = [id |-> i, name |-> a.name, type |-> a.type, block |-> a.block,
             attrs |-> a.attrs, default |-> a.default]
    BY <2>2, <2>3, <2>6
  <2>8. a.name = c.name /\ a.type = c.type /\ a.default = c.default
    BY <2>2, <2>6
  <2>9. /\ d.id = i /\ d.name = c.name /\ d.type = c.type /\ d.block = a.block
        /\ d.attrs = a.attrs /\ d.default = c.default
    BY <2>7, <2>8
  <2>10. d = [id |-> d.id, name |-> d.name, type |-> d.type, block |-> d.block,
              attrs |-> d.attrs, default |-> d.default]
    BY <2>7, <2>9
  <2>11. TypeGiven(d)
    BY <2>1, <2>2, <2>9 DEF TypeGiven
  <2>12. IsTableColumn(d)
    BY <2>1, <2>2, <2>4, <2>5, <2>9, <2>10, <2>11 DEF IsTableColumn
  <2> QED
    BY <2>9, <2>12 DEF a, c, d
<1>6. DOMAIN ds = DOMAIN cs
  BY <1>0
<1>7. IsList(ds) /\ Len(ds) = Len(cs)
  <2>1. ds = [i \in 1 .. Len(cs) |-> ds[i]]
    BY <1>1, <1>a
  <2> QED
    BY <1>1, <1>6, <2>1, FunctionIsList
<1>8. ds # <<>>
  <2>1. Len(ds) = Len(cs) /\ Len(<<>>) = 0
    BY <1>7
  <2> QED
    BY <1>1, <2>1, EmptyList
<1>9. Distinct(ds) /\ \A i, j \in DOMAIN ds : ds[i].id = ds[j].id => i = j
  <2>1. \A i, j \in DOMAIN cs : ds[i].name = ds[j].name => i = j
    BY <1>1, <1>5 DEF Distinct
  <2>2. \A i, j \in DOMAIN cs : ds[i].id = ds[j].id => i = j
    BY <1>5
  <2> QED
    BY <1>6, <2>1, <2>2 DEF Distinct
<1>10. NestedIDsUnique(ds, ColumnIDs(ds))
  <2>1. Places(ds) = Places(cs) /\ Slots(ds) = Slots(cs)
    <3>1. HasBlocks(ds) /\ Slots(ds) = Places(ds)
      BY <1>5, <1>6, <1>7, ColumnBlocks
    <3>2. \A i \in DOMAIN cs : ds[i].block.ids = es[i].block.ids
      BY <1>5
    <3>3. Places(ds) = Places(es)
      BY <1>3, <1>6, <3>2 DEF Places
    <3> QED
      BY <1>1, <1>2, <3>1, <3>3
  <2>2. \A p \in Places(cs) : ID(ds, p) = ID(es, p)
    <3>1. \A p \in Places(cs) : p[1] \in DOMAIN cs
      BY <1>1, PlacesFacts
    <3> QED
      BY <1>5, <3>1 DEF ID
  <2>3. \A x \in ToSet(ColumnIDs(ds)) : x \in 1 .. Len(cs)
    <3>1. /\ DOMAIN ColumnIDs(ds) = DOMAIN cs
          /\ \A i \in DOMAIN cs : ColumnIDs(ds)[i] = i
      BY <1>5, <1>6 DEF ColumnIDs
    <3> QED
      BY <1>1, <3>1 DEF ToSet
  <2>4. ASSUME NEW p \in Places(cs)
        PROVE  ID(ds, p) \notin ToSet(ColumnIDs(ds))
    <3>1. ID(ds, p) \in Int /\ ID(ds, p) > Len(cs) /\ Len(cs) \in Nat
      BY <1>1, <1>2, <2>2
    <3>2. ID(ds, p) \notin 1 .. Len(cs)
      BY <3>1
    <3> QED
      BY <2>3, <3>2
  <2>5. \A p, q \in Places(cs) : ID(ds, p) = ID(ds, q) => p = q
    BY <1>1, <1>2, <2>2
  <2>6. Slots(ds) = Places(cs)
    BY <1>1, <2>1
  <2> QED
    BY <2>4, <2>5, <2>6 DEF NestedIDsUnique
<1> QED
  BY <1>5, <1>6, <1>7, <1>8, <1>9, <1>10 DEF AreColumns, ds, es
------------------------------------------------------------------------------
(* What is planned is a list of fields as the configuration gives them.    *)
LEMMA PlannedGiven ==
  ASSUME IsModel(config), ValidateConfig(config.fields), NEW fs, fs = Planned.fields
  PROVE  /\ IsFields(fs) /\ fs # <<>> /\ Distinct(fs) /\ Unset(fs) = {}
         /\ \A i \in DOMAIN fs : TypeGiven(fs[i])
<1> DEFINE cf == config.fields
<1>1. /\ IsFields(cf) /\ HasBlocks(cf) /\ Distinct(cf)
      /\ cf # <<>> /\ \A i \in DOMAIN cf : TypeGiven(cf[i])
  BY ModelFacts DEF ValidateConfig, IsModel
<1>2. IsFields(fs) /\ HasBlocks(fs) /\ Unset(fs) = {} /\ Alike(cf, fs)
  BY PlannedFacts
<1> HIDE DEF cf
<1>3. DOMAIN fs = DOMAIN cf /\ Len(fs) = Len(cf) /\ \A i \in DOMAIN cf : fs[i].name = cf[i].name
  BY <1>1, <1>2, AlikePlaces, AlikeFields DEF Alike
<1>4. \A i \in DOMAIN cf : TypeGiven(fs[i])
  BY <1>1, <1>2, AlikeGiven
<1>5. fs # <<>>
  <2>1. Len(<<>>) = 0 /\ IsList(cf)
    BY <1>1 DEF IsFields
  <2> QED
    BY <1>1, <1>3, <2>1, EmptyList
<1>6. Distinct(fs)
  BY <1>1, <1>3 DEF Distinct
<1> QED
  BY <1>2, <1>3, <1>4, <1>5, <1>6

LEMMA CreatesFresh ==
  ASSUME Inv, Creates
  PROVE  ~cured
<1>1. \A V : V = View(table, state.ignore, state.props) => V # Absent
  BY ViewFacts
<1>2. Refreshed = Absent => state = Absent \/ table = Absent
  BY <1>1 DEF Refreshed
<1> QED
  BY <1>2 DEF Creates, Inv, Messages, Managed

LEMMA CreateStep ==
  ASSUME Inv, ApplyCreate
  PROVE  Inv'
<1> DEFINE B == BuildSchema(Planned.fields)
<1>1. IsModel(config) /\ config # Absent /\ ValidateConfig(config.fields)
  BY ValidFacts DEF ApplyCreate, Creates
<1>2. AreColumns(B)
  BY <1>1, PlannedGiven, BuiltColumns DEF ApplyCreate, CreateAccepted
<1>3. PICK columns \in Numbered(B) :
         table' = [columns |-> columns, props |-> NewProps,
                   version |-> TableVersion(NewProps), last |-> MaxID(columns)]
  BY DEF ApplyCreate
<1>4. AreColumns(columns)
  <2> HIDE DEF B
  <2> QED
    BY <1>2, <1>3, RenumberedColumns DEF Numbered
<1> HIDE DEF B
<1> DEFINE t == table'
<1>5. IsTable(t)
  BY <1>3, <1>4, MadeTable
<1>6. t # Absent
  BY <1>5, TableNotAbsent
<1> DEFINE V == Created(t)
           result == IF tainted' THEN "inconsistent" ELSE "created"
<1>7. /\ V # Absent
      /\ V.fields = SchemaToFieldModels(t.columns)
      /\ V.props = PropertiesToPropertyModels(t.props, config.ignore, config.props)
      /\ V.ignore = config.ignore /\ V.version = t.version
  BY ViewFacts DEF Created
<1>8. tainted' = (V # Planned) /\ End(result, V, Warning)
  BY DEF ApplyCreate
<1> HIDE DEF t, V
<1>9. ASSUME V = Planned
      PROVE  Records(config, t) /\ V.ignore = config.ignore /\ V.props = config.props
  BY <1>1, <1>7, <1>9, PlannedFacts DEF Records
<1>10. ~cured
  BY CreatesFresh DEF ApplyCreate
<1>11. /\ result \in Outcomes /\ result # "invalid" /\ result # "nested"
       /\ result \in Good => V = Planned /\ ~tainted'
  BY <1>8 DEF Outcomes, Good
<1>12. Warning = NoMessage \/ (config # Absent /\ Tells(config, Warning))
  BY <1>1, WarningTells
<1>13. tainted' => V # Absent
  BY <1>7
<1> HIDE DEF result
<1> QED
  BY <1>1, <1>5, <1>6, <1>7, <1>8, <1>9, <1>10, <1>11, <1>12, <1>13, RunStep DEF t

LEMMA CreateFailsStep ==
  ASSUME Inv, ApplyCreateFails
  PROVE  Inv'
<1>1. IsModel(config) /\ config # Absent
  BY ValidFacts DEF ApplyCreateFails, Creates
<1>2. End("failed", Absent, Warning) /\ ~tainted' /\ table' \in {table, Absent}
  BY DEF ApplyCreateFails
<1>3. table' = Absent \/ IsTable(table')
  BY <1>2 DEF Inv, Typed
<1>4. ~cured
  BY CreatesFresh DEF ApplyCreateFails
<1>5. "failed" \in Outcomes /\ "failed" \notin Good /\ "failed" \notin {"invalid", "nested"}
  BY DEF Outcomes, Good
<1> QED
  BY <1>1, <1>2, <1>3, <1>4, <1>5, WarningTells, RunStep

LEMMA DestroyStep ==
  ASSUME Inv, Destroy
  PROVE  Inv'
<1>1. /\ config = Absent /\ End("destroyed", Absent, NoMessage)
      /\ table' = Absent /\ ~tainted'
  BY DEF Destroy
<1>2. ~cured
  BY <1>1 DEF Inv, Messages, Managed
<1>3. "destroyed" \in Outcomes /\ "destroyed" \notin Good
      /\ "destroyed" \notin {"invalid", "nested"}
  BY DEF Outcomes, Good
<1> QED
  BY <1>1, <1>2, <1>3, RunStep
------------------------------------------------------------------------------
(* The IDs of columns and of their parts are distinct and of a set.        *)
AreIDs(cs, S) ==
  \A i, j \in DOMAIN cs :
     /\ cs[i].id \in S /\ (cs[i].id = cs[j].id => i = j)
     /\ \A k \in DOMAIN cs[i].block.ids :
           /\ cs[i].block.ids[k] \in S /\ cs[i].block.ids[k] # cs[j].id
           /\ \A l \in DOMAIN cs[j].block.ids :
                 cs[i].block.ids[k] = cs[j].block.ids[l] => i = j /\ k = l

UpTo(last) == {x \in Int : x <= last}

LEMMA IDsUniqueMeans ==
  ASSUME NEW cs, IsList(cs), \A i \in DOMAIN cs : IsTableColumn(cs[i]), NEW last
  PROVE  IDsUnique(cs, last) <=> AreIDs(cs, UpTo(last))
<1>1. /\ HasBlocks(cs) /\ Slots(cs) = Places(cs) /\ \A p \in Places(cs) : ID(cs, p) \in Int
  BY ColumnBlocks
<1>2. /\ \A p \in Places(cs) :
            p = <<p[1], p[2]>> /\ p[1] \in DOMAIN cs /\ p[2] \in DOMAIN cs[p[1]].block.ids
      /\ \A i \in DOMAIN cs : \A k \in DOMAIN cs[i].block.ids :
            <<i, k>> \in Places(cs) /\ ID(cs, <<i, k>>) = cs[i].block.ids[k]
      /\ \A p \in Places(cs) : ID(cs, p) # Null => ID(cs, p) \in Pinned(cs)
  BY <1>1, PlacesFacts
<1>3. \A p \in Places(cs) : ID(cs, p) = cs[p[1]].block.ids[p[2]]
  BY DEF ID
<1>4. /\ ToSet(ColumnIDs(cs)) = {cs[i].id : i \in DOMAIN cs}
      /\ Pinned(cs) = {ID(cs, p) : p \in Places(cs)}
  BY <1>1, NullAssumption DEF ToSet, ColumnIDs, Pinned
<1>5. ASSUME IDsUnique(cs, last)
      PROVE  AreIDs(cs, UpTo(last))
  <2>1. /\ \A i, j \in DOMAIN cs : cs[i].id = cs[j].id => i = j
        /\ \A p \in Places(cs) : ID(cs, p) \notin ToSet(ColumnIDs(cs))
        /\ \A p, q \in Places(cs) : ID(cs, p) = ID(cs, q) => p = q
        /\ \A id \in ToSet(ColumnIDs(cs)) \cup Pinned(cs) : id \in Int /\ id <= last
    BY <1>5 DEF IDsUnique
  <2>2. ASSUME NEW i \in DOMAIN cs
        PROVE  cs[i].id \in UpTo(last)
    BY <1>4, <2>1 DEF UpTo
  <2>3. ASSUME NEW i \in DOMAIN cs, NEW j \in DOMAIN cs, NEW k \in DOMAIN cs[i].block.ids
        PROVE  /\ cs[i].block.ids[k] \in UpTo(last) /\ cs[i].block.ids[k] # cs[j].id
               /\ \A l \in DOMAIN cs[j].block.ids :
                     cs[i].block.ids[k] = cs[j].block.ids[l] => i = j /\ k = l
    <3> DEFINE p == <<i, k>>
    <3>1. p \in Places(cs) /\ ID(cs, p) = cs[i].block.ids[k]
      BY <1>2
    <3> HIDE DEF p
    <3>2. ID(cs, p) \in UpTo(last) /\ ID(cs, p) # cs[j].id
      BY <1>4, <2>1, <3>1 DEF UpTo
    <3>3. ASSUME NEW l \in DOMAIN cs[j].block.ids, cs[i].block.ids[k] = cs[j].block.ids[l]
          PROVE  i = j /\ k = l
      <4>1. <<j, l>> \in Places(cs) /\ ID(cs, <<j, l>>) = cs[j].block.ids[l]
        BY <1>2
      <4>2. p = <<j, l>>
        BY <2>1, <3>1, <3>3, <4>1
      <4> QED
        BY <4>2 DEF p
    <3> QED
      BY <3>1, <3>2, <3>3
  <2> QED
    BY <2>1, <2>2, <2>3 DEF AreIDs
<1>6. ASSUME AreIDs(cs, UpTo(last))
      PROVE  IDsUnique(cs, last)
  <2>1. \A i, j \in DOMAIN cs : cs[i].id \in UpTo(last) /\ (cs[i].id = cs[j].id => i = j)
    BY <1>6 DEF AreIDs
  <2>2. ASSUME NEW p \in Places(cs)
        PROVE  ID(cs, p) \in UpTo(last) /\ ID(cs, p) \notin ToSet(ColumnIDs(cs))
    BY <1>2, <1>3, <1>4, <1>6 DEF AreIDs
  <2>3. ASSUME NEW p \in Places(cs), NEW q \in Places(cs), ID(cs, p) = ID(cs, q)
        PROVE  p = q
    <3>1. p[1] = q[1] /\ p[2] = q[2]
      BY <1>2, <1>3, <1>6, <2>3 DEF AreIDs
    <3> QED
      BY <1>2, <3>1
  <2>4. \A id \in ToSet(ColumnIDs(cs)) \cup Pinned(cs) : id \in Int /\ id <= last
    BY <1>4, <2>1, <2>2 DEF UpTo
  <2> QED
    BY <2>1, <2>2, <2>3, <2>4 DEF IDsUnique
<1> QED
  BY <1>5, <1>6

(* Some of the columns, changed in what is not an ID.                      *)
LEMMA IDsKept ==
  ASSUME NEW cs, NEW S, AreIDs(cs, S), NEW us, NEW at,
         \A k \in DOMAIN us : /\ at[k] \in DOMAIN cs
                              /\ us[k].id = cs[at[k]].id
                              /\ us[k].block.ids = cs[at[k]].block.ids,
         \A k, l \in DOMAIN us : at[k] = at[l] => k = l
  PROVE  AreIDs(us, S)
<1> SUFFICES ASSUME NEW i \in DOMAIN us, NEW j \in DOMAIN us
             PROVE  /\ us[i].id \in S /\ (us[i].id = us[j].id => i = j)
                    /\ \A k \in DOMAIN us[i].block.ids :
                          /\ us[i].block.ids[k] \in S /\ us[i].block.ids[k] # us[j].id
                          /\ \A l \in DOMAIN us[j].block.ids :
                                us[i].block.ids[k] = us[j].block.ids[l] => i = j /\ k = l
  BY DEF AreIDs
<1>1. at[i] \in DOMAIN cs /\ at[j] \in DOMAIN cs
  OBVIOUS
<1>2. /\ us[i].id = cs[at[i]].id /\ us[i].block.ids = cs[at[i]].block.ids
      /\ us[j].id = cs[at[j]].id /\ us[j].block.ids = cs[at[j]].block.ids
  OBVIOUS
<1> QED
  BY <1>1, <1>2 DEF AreIDs

LEMMA IDsJoined ==
  ASSUME NEW cs, NEW ds, NEW S, NEW T, IsList(cs), IsList(ds), AreIDs(cs, S), AreIDs(ds, T),
         S \cap T = {}
  PROVE  AreIDs(cs \o ds, S \cup T)
<1> DEFINE es == cs \o ds
           n == Len(cs)
<1>1. \A i \in DOMAIN es : \/ i \in DOMAIN cs /\ es[i] = cs[i]
                           \/ i \notin DOMAIN cs /\ i - n \in DOMAIN ds /\ es[i] = ds[i - n]
  BY ConcatLists
<1>2. DOMAIN es \subseteq Int /\ n \in Int
  BY ConcatLists, ListDomain
<1> HIDE DEF es, n
<1> SUFFICES ASSUME NEW i \in DOMAIN es, NEW j \in DOMAIN es
             PROVE  /\ es[i].id \in S \cup T /\ (es[i].id = es[j].id => i = j)
                    /\ \A k \in DOMAIN es[i].block.ids :
                          /\ es[i].block.ids[k] \in S \cup T /\ es[i].block.ids[k] # es[j].id
                          /\ \A l \in DOMAIN es[j].block.ids :
                                es[i].block.ids[k] = es[j].block.ids[l] => i = j /\ k = l
  BY DEF AreIDs, es
<1>3. i \in Int /\ j \in Int
  BY <1>2
<1>4. CASE i \in DOMAIN cs /\ j \in DOMAIN cs
  BY <1>1, <1>4 DEF AreIDs
<1>5. CASE i \notin DOMAIN cs /\ j \notin DOMAIN cs
  <2>1. i - n \in DOMAIN ds /\ es[i] = ds[i - n] /\ j - n \in DOMAIN ds /\ es[j] = ds[j - n]
    BY <1>1, <1>5
  <2>2. i - n = j - n => i = j
    BY <1>2, <1>3
  <2> DEFINE a == i - n
             b == j - n
  <2> HIDE DEF a, b
  <2>3. a \in DOMAIN ds /\ es[i] = ds[a] /\ b \in DOMAIN ds /\ es[j] = ds[b] /\ (a = b => i = j)
    BY <2>1, <2>2 DEF a, b
  <2> QED
    BY <2>3 DEF AreIDs
<1>6. ASSUME NEW x \in DOMAIN es, NEW y \in DOMAIN es, x \in DOMAIN cs, y \notin DOMAIN cs
      PROVE  /\ es[x].id \in S /\ es[y].id \in T
             /\ \A k \in DOMAIN es[x].block.ids : es[x].block.ids[k] \in S
             /\ \A k \in DOMAIN es[y].block.ids : es[y].block.ids[k] \in T
  <2> DEFINE b == y - n
  <2>1. es[x] = cs[x] /\ b \in DOMAIN ds /\ es[y] = ds[b]
    BY <1>1, <1>6
  <2> HIDE DEF b
  <2> QED
    BY <1>6, <2>1 DEF AreIDs
<1> QED
  BY <1>4, <1>5, <1>6

(* Added columns and their parts are numbered after the last ID given.     *)
After(last, n) == {x \in Int : last < x /\ x <= last + n}

LEMMA NewPlacesFacts ==
  ASSUME NEW ns, HasBlocks(ns)
  PROVE  /\ ArePlaces(NewPlaces(ns)) /\ Cardinality(NewPlaces(ns)) \in Nat
         /\ \A m \in DOMAIN ns :
               /\ <<m, 0>> \in NewPlaces(ns)
               /\ \A k \in DOMAIN ns[m].block.ids : <<m, k>> \in NewPlaces(ns) /\ k # 0
<1> DEFINE upto(m) == 0 .. Len(ns[m].block.ids)
           at(m) == {m} \X upto(m)
           D == DOMAIN ns
           S == {at(m) : m \in D}
<1>1. D = 1 .. Len(ns) /\ Len(ns) \in Nat
  BY ListDomain DEF HasBlocks
<1>2. \A m \in D : /\ DOMAIN ns[m].block.ids = 1 .. Len(ns[m].block.ids)
                   /\ Len(ns[m].block.ids) \in Nat
  BY BlockFacts DEF HasBlocks
<1>3. NewPlaces(ns) = UNION S
  BY DEF NewPlaces
<1>4. \A m \in D : IsFiniteSet(upto(m)) /\ upto(m) \subseteq Int
  BY <1>2, FS_Interval
<1>5. ASSUME NEW m \in D
      PROVE  /\ <<m, 0>> \in at(m)
             /\ \A k \in DOMAIN ns[m].block.ids : <<m, k>> \in at(m) /\ k # 0
  BY <1>2
<1> HIDE DEF upto, D
<1>6. ASSUME NEW m \in D
      PROVE  IsFiniteSet(at(m)) /\ at(m) \subseteq Int \X Int
  <2>0. IsFiniteSet({m})
    BY FS_Singleton
  <2>1. IsFiniteSet({m}) /\ m \in Int
    BY <1>1, <2>0
  <2> DEFINE one == {m}
             r == upto(m)
  <2>2. IsFiniteSet(one) /\ IsFiniteSet(r) /\ one \subseteq Int /\ r \subseteq Int
    BY <1>4, <2>1
  <2> HIDE DEF one, r
  <2>3. IsFiniteSet(one \X r) /\ one \X r \subseteq Int \X Int
    BY <2>2, FS_Product
  <2> QED
    BY <2>3 DEF one, r
<1> HIDE DEF at
<1>7. IsFiniteSet(S) /\ \A T \in S : IsFiniteSet(T)
  <2> DEFINE f == [m \in D |-> at(m)]
  <2>1. f \in Surjection(D, S)
    BY DEF Surjection
  <2>2. IsFiniteSet(D)
    BY <1>1, FS_Interval
  <2> QED
    BY <1>6, <2>1, <2>2, FS_Surjection
<1>8. \A T \in S : T \subseteq Int \X Int
  BY <1>6
<1> HIDE DEF S
<1>9. IsFiniteSet(UNION S) /\ UNION S \subseteq Int \X Int
  <2>1. IsFiniteSet(UNION S)
    BY <1>7, FS_UNION
  <2> QED
    BY <1>8, <2>1
<1>10. \A m \in D : at(m) \subseteq UNION S
  BY DEF S
<1> QED
  BY <1>3, <1>5, <1>9, <1>10, NumberFacts DEF ArePlaces, D, at

LEMMA AddedFacts ==
  ASSUME NEW ns, IsFields(ns),
         \A m \in DOMAIN ns : TypeGiven(ns[m]) /\ TypesParse(ns[m]) /\ ~DefaultFails(ns[m]),
         NEW last \in Int
  PROVE  /\ IsList(AddedColumns(ns, last)) /\ Len(AddedColumns(ns, last)) = Len(ns)
         /\ DOMAIN AddedColumns(ns, last) = DOMAIN ns
         /\ \A m \in DOMAIN ns :
               /\ IsTableColumn(AddedColumns(ns, last)[m])
               /\ AddedColumns(ns, last)[m].name = ns[m].name
               /\ AddedColumns(ns, last)[m].block.kind \in {ns[m].block.kind, "none"}
         /\ AreIDs(AddedColumns(ns, last), After(last, Cardinality(NewPlaces(ns))))
<1> DEFINE cs == AddedColumns(ns, last)
           NP == NewPlaces(ns)
           n == Cardinality(NP)
           id(m, k) == last + Number(NP, <<m, k>>)
<1>1. HasBlocks(ns) /\ IsList(ns) /\ DOMAIN ns = 1 .. Len(ns) /\ Len(ns) \in Nat
  BY FieldsHaveBlocks, ListDomain DEF IsFields
<1>2. /\ ArePlaces(NP) /\ n \in Nat
      /\ \A m \in DOMAIN ns :
            /\ <<m, 0>> \in NP
            /\ \A k \in DOMAIN ns[m].block.ids : <<m, k>> \in NP /\ k # 0
  BY <1>1, NewPlacesFacts
<1>3. \A m \in DOMAIN ns :
         cs[m] = [id |-> id(m, 0), name |-> StoredType(ns[m]).name, type |-> StoredType(ns[m]).type,
                  block |-> [StoredType(ns[m]).block EXCEPT
                               !.ids = [k \in DOMAIN @ |-> id(m, k)]],
                  attrs |-> StoredType(ns[m]).attrs, default |-> StoredDefault(StoredType(ns[m]))]
  BY DEF AddedColumns
<1>4. DOMAIN cs = DOMAIN ns /\ cs = [m \in DOMAIN ns |-> cs[m]]
  BY DEF AddedColumns
<1> HIDE DEF cs, NP, n
<1>5. /\ \A p \in NP : Number(NP, p) \in 1 .. n
      /\ \A p, q \in NP : Number(NP, p) = Number(NP, q) => p = q
  BY <1>2, NumberFacts DEF n
<1> HIDE DEF id
<1>6. ASSUME NEW m, NEW k, <<m, k>> \in NP
      PROVE  id(m, k) \in After(last, n)
  <2> DEFINE x == Number(NP, <<m, k>>)
  <2>1. x \in 1 .. n
    BY <1>5, <1>6
  <2>2. id(m, k) = last + x
    BY DEF id
  <2> HIDE DEF x
  <2> QED
    BY <1>2, <2>1, <2>2 DEF After
<1>7. ASSUME NEW m, NEW k, NEW j, NEW l, <<m, k>> \in NP, <<j, l>> \in NP, id(m, k) = id(j, l)
      PROVE  m = j /\ k = l
  <2> DEFINE x == Number(NP, <<m, k>>)
             y == Number(NP, <<j, l>>)
  <2>1. x \in 1 .. n /\ y \in 1 .. n
    BY <1>5, <1>7
  <2>2. id(m, k) = last + x /\ id(j, l) = last + y
    BY DEF id
  <2>3. x = y => <<m, k>> = <<j, l>>
    BY <1>5, <1>7
  <2> HIDE DEF x, y
  <2>4. x \in Int /\ y \in Int
    BY <1>2, <2>1
  <2>5. last + x = last + y
    BY <1>7, <2>2
  <2>6. x = y
    BY <2>4, <2>5
  <2> QED
    BY <2>3, <2>6
<1>8. ASSUME NEW m \in DOMAIN ns
      PROVE  /\ IsTableColumn(cs[m]) /\ cs[m].name = ns[m].name /\ cs[m].id = id(m, 0)
             /\ cs[m].block.kind = ns[m].block.kind
             /\ DOMAIN cs[m].block.ids = DOMAIN ns[m].block.ids
             /\ \A k \in DOMAIN ns[m].block.ids : cs[m].block.ids[k] = id(m, k)
  <2> DEFINE f == ns[m]
             g == StoredType(f)
             b == g.block
             ids == [k \in DOMAIN b.ids |-> id(m, k)]
             e == [b EXCEPT !.ids = ids]
             d == StoredDefault(g)
             z == id(m, 0)
             c == cs[m]
  <2>1. IsField(f) /\ TypeGiven(f) /\ TypesParse(f) /\ ~DefaultFails(f)
    BY DEF IsFields
  <2>2. /\ g.name = f.name /\ g.attrs = f.attrs /\ g.defaults = f.defaults
        /\ IsType(g.type) /\ IsBlock(g.block) /\ TypeGiven(g)
        /\ g.block.kind = f.block.kind /\ g.block.ids = f.block.ids
        /\ (g.type = NoType) = (f.type = NoType)
        /\ g.type = Printed(f.type)
    BY <2>1, StoredTypeFacts
  <2>3. c = [id |-> z, name |-> g.name, type |-> g.type, block |-> e, attrs |-> g.attrs,
             default |-> d]
    BY <1>3
  <2>4. g.type = NoType => d = NoDefault
    <3> SUFFICES ASSUME g.type = NoType
                 PROVE  d = NoDefault
      OBVIOUS
    <3>1. f.type = NoType /\ f.defaults = NoDefault
      BY <2>1, <2>2 DEF DefaultFails
    <3>2. g.defaults = NoDefault
      BY <2>2, <3>1
    <3> HIDE DEF g
    <3> QED
      BY <3>2 DEF StoredDefault, NoDefault
  <2>5. \A k \in DOMAIN f.block.ids : id(m, k) \in Int
    BY <1>2, <1>6 DEF After
  <2>6. z \in Int
    BY <1>2, <1>6 DEF After
  <2>7. IsBlock(b) /\ b.ids = f.block.ids /\ b.kind = f.block.kind
    BY <2>2
  <2>8. \A k \in DOMAIN f.block.ids : <<m, k>> \in NP
    BY <1>2
  <2> HIDE DEF f, g, b, c, d, z
  <2>9. /\ e.kind = b.kind /\ e.parts = b.parts /\ e.ids = ids
        /\ e = [kind |-> e.kind, ids |-> e.ids, parts |-> e.parts]
    <3> HIDE DEF ids
    <3> QED
      BY <2>7 DEF IsBlock
  <2>10. DOMAIN ids = DOMAIN b.ids /\ (\A k \in DOMAIN b.ids : ids[k] = id(m, k))
         /\ ids = [k \in DOMAIN b.ids |-> ids[k]]
    OBVIOUS
  <2> HIDE DEF e, ids
  <2>11. DOMAIN b.ids = 1 .. Len(b.ids) /\ Len(b.ids) \in Nat
    BY <2>7, BlockFacts
  <2>12. IsList(ids) /\ Len(ids) = Len(b.ids)
    BY <2>10, <2>11, FunctionIsList
  <2>13. \A k \in DOMAIN ids : ids[k] \in Int
    BY <2>5, <2>7, <2>10
  <2>14. IsBlock(e)
    BY <2>7, <2>9, <2>12, <2>13 DEF IsBlock
  <2>15. /\ c.id = z /\ c.name = g.name /\ c.type = g.type /\ c.block = e
         /\ c.attrs = g.attrs /\ c.default = d
    BY <2>3
  <2>16. c = [id |-> c.id, name |-> c.name, type |-> c.type, block |-> c.block,
              attrs |-> c.attrs, default |-> c.default]
    BY <2>3, <2>15
  <2>17. TypeGiven(c)
    <3>1. g.block = b
      BY DEF b
    <3> QED
      BY <2>2, <2>9, <2>15, <3>1 DEF TypeGiven
  <2>18. IsTableColumn(c)
    BY <2>2, <2>4, <2>6, <2>9, <2>13, <2>14, <2>15, <2>16, <2>17 DEF IsTableColumn
  <2>19. /\ c.name = f.name /\ c.id = z /\ c.block.kind = f.block.kind
         /\ DOMAIN c.block.ids = DOMAIN f.block.ids
         /\ \A k \in DOMAIN f.block.ids : c.block.ids[k] = id(m, k)
    BY <2>2, <2>7, <2>9, <2>10, <2>15
  <2> QED
    BY <2>18, <2>19 DEF c, f, z
<1>9. IsList(cs) /\ Len(cs) = Len(ns)
  <2>1. cs = [m \in 1 .. Len(ns) |-> cs[m]] /\ DOMAIN cs = 1 .. Len(ns)
    BY <1>1, <1>4
  <2> QED
    BY <1>1, <2>1, FunctionIsList
<1>10. AreIDs(cs, After(last, n))
  <2> SUFFICES ASSUME NEW i \in DOMAIN cs, NEW j \in DOMAIN cs
               PROVE  /\ cs[i].id \in After(last, n) /\ (cs[i].id = cs[j].id => i = j)
                      /\ \A k \in DOMAIN cs[i].block.ids :
                            /\ cs[i].block.ids[k] \in After(last, n)
                            /\ cs[i].block.ids[k] # cs[j].id
                            /\ \A l \in DOMAIN cs[j].block.ids :
                                  cs[i].block.ids[k] = cs[j].block.ids[l] => i = j /\ k = l
    BY DEF AreIDs
  <2>1. /\ cs[i].id = id(i, 0) /\ cs[j].id = id(j, 0) /\ <<i, 0>> \in NP /\ <<j, 0>> \in NP
        /\ \A k \in DOMAIN cs[i].block.ids :
              cs[i].block.ids[k] = id(i, k) /\ <<i, k>> \in NP /\ k # 0
        /\ \A l \in DOMAIN cs[j].block.ids :
              cs[j].block.ids[l] = id(j, l) /\ <<j, l>> \in NP /\ l # 0
    BY <1>2, <1>4, <1>8
  <2>2. cs[i].id \in After(last, n) /\ (cs[i].id = cs[j].id => i = j)
    BY <1>6, <1>7, <2>1
  <2>3. ASSUME NEW k \in DOMAIN cs[i].block.ids
        PROVE  /\ cs[i].block.ids[k] \in After(last, n) /\ cs[i].block.ids[k] # cs[j].id
               /\ \A l \in DOMAIN cs[j].block.ids :
                     cs[i].block.ids[k] = cs[j].block.ids[l] => i = j /\ k = l
    <3>1. cs[i].block.ids[k] = id(i, k) /\ <<i, k>> \in NP /\ k # 0
      BY <2>1
    <3>2. cs[i].block.ids[k] \in After(last, n)
      BY <1>6, <3>1
    <3>3. cs[i].block.ids[k] # cs[j].id
      BY <1>7, <2>1, <3>1
    <3>4. ASSUME NEW l \in DOMAIN cs[j].block.ids, cs[i].block.ids[k] = cs[j].block.ids[l]
          PROVE  i = j /\ k = l
      <4>1. cs[j].block.ids[l] = id(j, l) /\ <<j, l>> \in NP
        BY <2>1
      <4> QED
        BY <1>7, <3>1, <3>4, <4>1
    <3> QED
      BY <3>2, <3>3, <3>4
  <2> QED
    BY <2>2, <2>3
<1> QED
  BY <1>4, <1>8, <1>9, <1>10 DEF cs, n, NP
------------------------------------------------------------------------------
(* An updated table.                                                       *)
LEMMA NamedFacts ==
  ASSUME NEW fs, Distinct(fs)
  PROVE  /\ \A i \in DOMAIN fs : Named(fs, fs[i].name) = fs[i] /\ fs[i].name \in ColumnNames(fs)
         /\ \A n \in ColumnNames(fs) : \E i \in DOMAIN fs : fs[i].name = n /\ Named(fs, n) = fs[i]
<1>1. ASSUME NEW i \in DOMAIN fs
      PROVE  Named(fs, fs[i].name) = fs[i]
  <2>1. \A j \in DOMAIN fs : fs[j].name = fs[i].name => j = i
    BY DEF Distinct
  <2> DEFINE c == CHOOSE j \in DOMAIN fs : fs[j].name = fs[i].name
  <2>2. c \in DOMAIN fs /\ fs[c].name = fs[i].name
    OBVIOUS
  <2>3. Named(fs, fs[i].name) = fs[c]
    BY DEF Named
  <2> HIDE DEF c
  <2> QED
    BY <2>1, <2>2, <2>3
<1> QED
  BY <1>1 DEF ColumnNames

(* A column that stays: only type, attributes and default may change, and  *)
(* nothing of a list, map or struct.                                       *)
LEMMA KeptColumn ==
  ASSUME Inv, Valid, NEW R, R = Refreshed, R # Absent,
         Convertible(R), ~NestedRefused(R), Widens(R),
         NEW i \in DOMAIN table.columns,
         table.columns[i].name \in ColumnNames(Planned.fields)
  PROVE  /\ IsTableColumn(UpdatedColumn(R, table.columns[i]))
         /\ UpdatedColumn(R, table.columns[i]).name = table.columns[i].name
         /\ UpdatedColumn(R, table.columns[i]).id = table.columns[i].id
         /\ UpdatedColumn(R, table.columns[i]).block = table.columns[i].block
         /\ table.columns[i].block # NoBlock =>
               UpdatedColumn(R, table.columns[i]) = table.columns[i]
<1> DEFINE c == table.columns[i]
           u == UpdatedColumn(R, c)
           n == c.name
           fs == Planned.fields
           gs == R.fields
           f == Named(fs, n)
           g == StoredType(f)
           d == StoredDefault(g)
<1>1. IsModel(config) /\ ValidateConfig(config.fields)
  BY ValidFacts
<1>2. IsFields(fs) /\ Distinct(fs) /\ \A j \in DOMAIN fs : TypeGiven(fs[j])
  BY <1>1, PlannedGiven
<1>3. IsTable(table) /\ gs = SchemaToFieldModels(table.columns)
  BY RefreshedFacts
<1>4. Distinct(gs) /\ i \in DOMAIN gs /\ gs[i].name = n /\ gs[i].block = c.block
  <2>1. /\ Distinct(gs) /\ DOMAIN gs = DOMAIN table.columns
        /\ gs[i] = [name |-> n, type |-> c.type, block |-> c.block, attrs |-> c.attrs,
                    defaults |-> ReadDefault(c.default)]
    BY <1>3, ShownFacts
  <2> HIDE DEF c, n, gs
  <2> QED
    BY <2>1 DEF c
<1>5. Named(gs, n).block = c.block
  BY <1>4, NamedFacts
<1>6. PICK j \in DOMAIN fs : fs[j].name = n /\ f = fs[j]
  BY <1>2, NamedFacts
<1>7. IsField(f) /\ TypeGiven(f)
  BY <1>2, <1>6 DEF IsFields
<1>8. IsTableColumn(c)
  BY <1>3 DEF IsTable
<1>9. u = IF n \in Changed(R)
          THEN [c EXCEPT !.type = g.type, !.attrs = g.attrs, !.default = d] ELSE c
  BY DEF UpdatedColumn
<1>10. ASSUME n \in Changed(R)
       PROVE  /\ f.type # NoType /\ TypesParse(f) /\ c.block = NoBlock
  BY <1>5, <1>10 DEF Widens, Convertible, NestedRefused
<1> HIDE DEF c, u, n, fs, gs, f, g, d
<1>11. CASE n \in Changed(R)
  <2>1. f.type # NoType /\ TypesParse(f) /\ c.block = NoBlock
    BY <1>10, <1>11
  <2>2. IsType(g.type) /\ g.type # NoType
    BY <1>7, <2>1, StoredTypeFacts DEF g
  <2>3. /\ c = [id |-> c.id, name |-> c.name, type |-> c.type, block |-> c.block,
                attrs |-> c.attrs, default |-> c.default]
        /\ c.id \in Int /\ IsBlock(c.block)
        /\ \A k \in DOMAIN c.block.ids : c.block.ids[k] \in Int
    BY <1>8 DEF IsTableColumn
  <2>4. u = [id |-> c.id, name |-> c.name, type |-> g.type, block |-> c.block,
             attrs |-> g.attrs, default |-> d]
    BY <1>9, <1>11, <2>3
  <2>5. /\ u.id = c.id /\ u.name = c.name /\ u.type = g.type /\ u.block = c.block
        /\ u.attrs = g.attrs /\ u.default = d
    BY <2>4
  <2>6. u = [id |-> u.id, name |-> u.name, type |-> u.type, block |-> u.block,
             attrs |-> u.attrs, default |-> u.default]
    BY <2>4, <2>5
  <2>7. TypeGiven(u)
    <3>1. u.block.kind = "none" /\ DOMAIN u.block.parts = {}
      BY <2>1, <2>5 DEF NoBlock
    <3> QED
      BY <2>2, <2>5, <3>1 DEF TypeGiven
  <2>8. IsTableColumn(u)
    BY <2>2, <2>3, <2>5, <2>6, <2>7 DEF IsTableColumn
  <2> QED
    BY <2>1, <2>5, <2>8 DEF u, c
<1>12. CASE n \notin Changed(R)
  <2>1. u = c
    BY <1>9, <1>12
  <2> QED
    BY <1>8, <2>1 DEF u, c
<1> QED
  BY <1>11, <1>12

(* What is new is a list of fields of the configuration.                   *)
LEMMA NewFields ==
  ASSUME Inv, Valid, NEW R, R # Absent, Convertible(R),
         NEW order \in SetToSeqs(Added(R)),
         NEW ns, ns = [m \in DOMAIN order |-> Named(Planned.fields, order[m])]
  PROVE  /\ IsFields(ns)
         /\ \A m \in DOMAIN ns :
               /\ TypeGiven(ns[m]) /\ TypesParse(ns[m]) /\ ~DefaultFails(ns[m])
               /\ ns[m].name \in Added(R) /\ ns[m] \in ToSet(Planned.fields)
         /\ Distinct(ns)
         /\ \A n \in Added(R) : \E m \in DOMAIN ns : ns[m].name = n
         /\ Added(R) = {} => ns = <<>>
<1> DEFINE fs == Planned.fields
           A == Added(R)
           c == Cardinality(A)
<1>1. IsModel(config) /\ ValidateConfig(config.fields)
  BY ValidFacts
<1>2. IsFields(fs) /\ Distinct(fs) /\ \A j \in DOMAIN fs : TypeGiven(fs[j])
  BY <1>1, PlannedGiven
<1>3. IsFiniteSet(A)
  <2> DEFINE N == ColumnNames(fs)
             g == [i \in DOMAIN fs |-> fs[i].name]
  <2>1. DOMAIN fs = 1 .. Len(fs) /\ Len(fs) \in Nat
    BY <1>2, ListDomain DEF IsFields
  <2>2. IsFiniteSet(DOMAIN fs)
    BY <2>1, FS_Interval
  <2>3. g \in Surjection(DOMAIN fs, N)
    BY DEF Surjection, ColumnNames
  <2>4. A \in SUBSET N
    BY DEF Added
  <2> HIDE DEF N, A
  <2>5. IsFiniteSet(N)
    BY <2>2, <2>3, FS_Surjection
  <2> QED
    BY <2>4, <2>5, FS_Subset
<1>4. \A n \in A : n \in ColumnNames(fs)
  BY DEF Added
<1>5. \A n \in A : LET f == Named(fs, n) IN TypesParse(f) /\ ~DefaultFails(f)
  BY DEF Convertible
<1> HIDE DEF A, fs
<1>6. /\ order \in [1 .. c -> A] /\ c \in Nat
      /\ \A i, j \in 1 .. c : order[i] = order[j] => i = j
      /\ \A x \in A : \E i \in 1 .. c : order[i] = x
  BY <1>3, OrderOfSet DEF A
<1>7. /\ DOMAIN ns = 1 .. c /\ \A m \in 1 .. c : ns[m] = Named(fs, order[m])
      /\ ns = [m \in 1 .. c |-> ns[m]]
  <2> HIDE DEF c
  <2> QED
    BY <1>6 DEF fs
<1> HIDE DEF c
<1>8. ASSUME NEW m \in 1 .. c
      PROVE  /\ TypeGiven(ns[m]) /\ TypesParse(ns[m]) /\ ~DefaultFails(ns[m]) /\ IsField(ns[m])
             /\ ns[m].name = order[m] /\ order[m] \in A
             /\ ns[m] \in ToSet(fs)
  <2>1. order[m] \in A
    BY <1>6
  <2>2. PICK i \in DOMAIN fs : fs[i].name = order[m] /\ Named(fs, order[m]) = fs[i]
    BY <1>2, <1>4, <2>1, NamedFacts
  <2>3. ns[m] = fs[i]
    BY <1>7, <2>2
  <2>4. TypesParse(ns[m]) /\ ~DefaultFails(ns[m])
    BY <1>5, <1>7, <2>1
  <2> QED
    BY <1>2, <2>1, <2>2, <2>3, <2>4 DEF IsFields, ToSet
<1>9. IsList(ns) /\ Len(ns) = c
  BY <1>6, <1>7, FunctionIsList
<1>10. Distinct(ns)
  BY <1>6, <1>7, <1>8 DEF Distinct
<1>11. A = {} => ns = <<>>
  <2> SUFFICES ASSUME A = {}
               PROVE  ns = <<>>
    OBVIOUS
  <2>1. c = 0
    BY FS_EmptySet DEF c
  <2> QED
    BY <1>9, <2>1, EmptyList
<1> QED
  BY <1>6, <1>7, <1>8, <1>9, <1>10, <1>11 DEF IsFields, A, fs

Stays(i)    == table.columns[i].name \in ColumnNames(Planned.fields)
Tables(R, u) ==
  /\ IsTable(u) /\ u.props = table.props /\ u.version = table.version
  /\ \A i \in DOMAIN table.columns :
        Stays(i) => \E k \in DOMAIN u.columns : u.columns[k] = UpdatedColumn(R, table.columns[i])
  /\ \A k \in DOMAIN u.columns :
        \/ \E i \in DOMAIN table.columns :
              Stays(i) /\ u.columns[k] = UpdatedColumn(R, table.columns[i])
        \/ \E f \in ToSet(Planned.fields) :
              /\ f.name \in Added(R) /\ u.columns[k].name = f.name
              /\ u.columns[k].block.kind \in {f.block.kind, "none"}

(* The columns that stay come first, and the new ones follow.              *)
LEMMA UpdatedTable ==
  ASSUME Inv, Valid, NEW R, R = Refreshed, R # Absent,
         Convertible(R), ~NestedRefused(R), Widens(R), NEW u \in UpdatedTables(R)
  PROVE  Tables(R, u)
<1> DEFINE cs == table.columns
           fs == Planned.fields
           gs == R.fields
           names == ColumnNames(fs)
           I == {i \in DOMAIN cs : cs[i].name \in names}
           old == Pick(cs, I)
           kept == [k \in DOMAIN old |-> UpdatedColumn(R, old[k])]
           last == table.last
<1>1. PICK order \in SetToSeqs(Added(R)) :
         LET ns == [m \in DOMAIN order |-> Named(fs, order[m])]
         IN  u = [table EXCEPT !.columns = kept \o AddedColumns(ns, table.last),
                               !.last = @ + Cardinality(NewPlaces(ns))]
  BY DEF UpdatedTables
<1> DEFINE ns == [m \in DOMAIN order |-> Named(fs, order[m])]
           added == AddedColumns(ns, last)
           n == Cardinality(NewPlaces(ns))
           new == kept \o added
<1>2. u = [table EXCEPT !.columns = new, !.last = last + n]
  BY <1>1
<1>3. IsTable(table) /\ gs = SchemaToFieldModels(cs)
  BY RefreshedFacts
<1>4. /\ table = [columns |-> cs, props |-> table.props, version |-> table.version,
                  last |-> last]
      /\ last \in Int /\ IsList(cs) /\ Distinct(cs)
      /\ \A i \in DOMAIN cs : IsTableColumn(cs[i])
      /\ IDsUnique(cs, last)
  BY <1>3 DEF IsTable
<1>5. DOMAIN gs = DOMAIN cs /\ \A i \in DOMAIN cs : gs[i].name = cs[i].name
  BY <1>3, ShownNames
<1>6. IsModel(config) /\ ValidateConfig(config.fields)
  BY ValidFacts
<1>7. fs # <<>> /\ IsList(fs)
  BY <1>6, PlannedGiven DEF IsFields
<1>8. /\ IsFields(ns)
      /\ \A m \in DOMAIN ns :
            /\ TypeGiven(ns[m]) /\ TypesParse(ns[m]) /\ ~DefaultFails(ns[m])
            /\ ns[m].name \in Added(R) /\ ns[m] \in ToSet(fs)
      /\ Distinct(ns)
      /\ \A x \in Added(R) : \E m \in DOMAIN ns : ns[m].name = x
  BY NewFields
<1>9. ASSUME NEW i \in DOMAIN cs, i \in I
      PROVE  /\ IsTableColumn(UpdatedColumn(R, cs[i]))
             /\ UpdatedColumn(R, cs[i]).name = cs[i].name
             /\ UpdatedColumn(R, cs[i]).id = cs[i].id
             /\ UpdatedColumn(R, cs[i]).block = cs[i].block
  <2>1. i \in DOMAIN table.columns /\ table.columns[i].name \in ColumnNames(Planned.fields)
    BY <1>9
  <2> HIDE DEF I, names, fs, gs, old, kept
  <2> QED
    BY <2>1, KeptColumn
<1>10. I \in SUBSET DOMAIN cs /\ \A i \in DOMAIN cs : i \in I <=> Stays(i)
  BY DEF Stays
<1>11. \A i \in I : cs[i].name \notin Added(R)
  BY <1>5, <1>10 DEF Added, ColumnNames
<1>12. \A j \in DOMAIN fs : fs[j].name \in Added(R) \/ \E i \in I : cs[i].name = fs[j].name
  BY <1>5 DEF Added, ColumnNames
<1> HIDE DEF ns, I, fs, names, cs, gs, last
<1>13. /\ Cardinality(I) \in Nat /\ IsList(old) /\ DOMAIN old = 1 .. Cardinality(I)
       /\ \A k \in DOMAIN old : Nth(I, k) \in I /\ old[k] = cs[Nth(I, k)]
       /\ \A i \in I : Rank(I, i) \in DOMAIN old /\ old[Rank(I, i)] = cs[i]
       /\ \A k, l \in DOMAIN old : k # l => Nth(I, k) # Nth(I, l)
  BY <1>4, <1>10, PickFacts
<1> HIDE DEF old
<1>14. /\ DOMAIN kept = 1 .. Cardinality(I) /\ \A k \in DOMAIN kept : kept[k] = UpdatedColumn(R, old[k])
       /\ kept = [k \in 1 .. Cardinality(I) |-> kept[k]]
  BY <1>13
<1> HIDE DEF kept
<1>15. IsList(kept) /\ Len(kept) = Cardinality(I)
  BY <1>13, <1>14, FunctionIsList
<1>16. ASSUME NEW k \in DOMAIN kept
       PROVE  /\ Nth(I, k) \in I /\ Nth(I, k) \in DOMAIN cs
              /\ kept[k] = UpdatedColumn(R, cs[Nth(I, k)])
              /\ IsTableColumn(kept[k]) /\ kept[k].name = cs[Nth(I, k)].name
              /\ kept[k].id = cs[Nth(I, k)].id
              /\ kept[k].block = cs[Nth(I, k)].block
  <2>1. Nth(I, k) \in I /\ old[k] = cs[Nth(I, k)]
    BY <1>13, <1>14
  <2>2. kept[k] = UpdatedColumn(R, cs[Nth(I, k)])
    BY <1>14, <2>1
  <2> QED
    BY <1>9, <1>10, <2>1, <2>2
<1>17. /\ IsList(added) /\ Len(added) = Len(ns) /\ DOMAIN added = DOMAIN ns
       /\ \A m \in DOMAIN ns : /\ IsTableColumn(added[m]) /\ added[m].name = ns[m].name
                               /\ added[m].block.kind \in {ns[m].block.kind, "none"}
       /\ AreIDs(added, After(last, n))
  BY <1>4, <1>8, AddedFacts
<1>18. n \in Nat
  BY <1>8, FieldsHaveBlocks, NewPlacesFacts
<1> HIDE DEF added, n
<1>19. /\ IsList(new)
       /\ \A k \in DOMAIN kept : k \in DOMAIN new /\ new[k] = kept[k]
       /\ \A m \in DOMAIN added : Len(kept) + m \in DOMAIN new /\ new[Len(kept) + m] = added[m]
       /\ \A k \in DOMAIN new : \/ k \in DOMAIN kept /\ new[k] = kept[k]
                                \/ /\ k \notin DOMAIN kept /\ k - Len(kept) \in DOMAIN added
                                   /\ new[k] = added[k - Len(kept)]
  BY <1>15, <1>17, ConcatLists
<1>20. AreIDs(new, UpTo(last + n))
  <2> DEFINE at == [k \in DOMAIN kept |-> Nth(I, k)]
  <2>1. AreIDs(cs, UpTo(last))
    BY <1>4, IDsUniqueMeans
  <2>2. \A k \in DOMAIN kept : /\ at[k] \in DOMAIN cs /\ kept[k].id = cs[at[k]].id
                               /\ kept[k].block.ids = cs[at[k]].block.ids
    BY <1>16
  <2>3. \A k, l \in DOMAIN kept : at[k] = at[l] => k = l
    BY <1>13, <1>14
  <2> HIDE DEF at
  <2>4. AreIDs(kept, UpTo(last))
    BY <2>1, <2>2, <2>3, IDsKept
  <2>5. UpTo(last) \cap After(last, n) = {}
    BY <1>4 DEF UpTo, After
  <2>6. UpTo(last) \cup After(last, n) = UpTo(last + n)
    BY <1>4, <1>18 DEF UpTo, After
  <2> QED
    BY <1>15, <1>17, <2>4, <2>5, <2>6, IDsJoined
<1> HIDE DEF new
<1>21. \A k \in DOMAIN new : IsTableColumn(new[k])
  BY <1>16, <1>17, <1>19
<1>22. Distinct(new)
  <2> SUFFICES ASSUME NEW k \in DOMAIN new, NEW l \in DOMAIN new, new[k].name = new[l].name
               PROVE  k = l
    BY DEF Distinct
  <2>1. ASSUME NEW x \in DOMAIN new, x \in DOMAIN kept
        PROVE  new[x].name \notin Added(R)
    BY <1>11, <1>16, <1>19, <2>1
  <2>2. ASSUME NEW x \in DOMAIN new, x \notin DOMAIN kept
        PROVE  /\ x - Len(kept) \in DOMAIN ns /\ new[x].name = ns[x - Len(kept)].name
               /\ new[x].name \in Added(R)
    BY <1>8, <1>17, <1>19, <2>2
  <2>3. CASE k \in DOMAIN kept /\ l \in DOMAIN kept
    <3>1. cs[Nth(I, k)].name = cs[Nth(I, l)].name
      BY <1>16, <1>19, <2>3
    <3>2. Nth(I, k) = Nth(I, l)
      BY <1>4, <1>16, <2>3, <3>1 DEF Distinct
    <3> QED
      BY <1>13, <1>14, <2>3, <3>2
  <2>4. CASE k \notin DOMAIN kept /\ l \notin DOMAIN kept
    <3> DEFINE a == k - Len(kept)
               b == l - Len(kept)
    <3>1. a \in DOMAIN ns /\ b \in DOMAIN ns /\ ns[a].name = ns[b].name
      BY <2>2, <2>4
    <3>2. a = b => k = l
      <4>1. k \in Int /\ l \in Int /\ Len(kept) \in Int
        BY <1>15, <1>19, ListDomain
      <4> QED
        BY <4>1
    <3> HIDE DEF a, b
    <3> QED
      BY <1>8, <3>1, <3>2 DEF Distinct
  <2> QED
    BY <2>1, <2>2, <2>3, <2>4
<1>23. DOMAIN new # {}
  <2>1. PICK j \in DOMAIN fs : TRUE
    <3>1. DOMAIN fs = 1 .. Len(fs) /\ Len(fs) \in Nat /\ Len(fs) # 0
      BY <1>7, EmptyList, ListDomain
    <3> QED
      BY <3>1
  <2>2. CASE fs[j].name \in Added(R)
    BY <1>8, <1>17, <1>19, <2>2
  <2>3. CASE \E i \in I : cs[i].name = fs[j].name
    BY <1>13, <1>14, <1>19, <2>3
  <2> QED
    BY <1>12, <2>2, <2>3
<1>24. u = [columns |-> new, props |-> table.props, version |-> table.version, last |-> last + n]
  BY <1>2, <1>4
<1>25. /\ u.columns = new /\ u.props = table.props /\ u.version = table.version
       /\ u.last = last + n
       /\ u = [columns |-> u.columns, props |-> u.props, version |-> u.version, last |-> u.last]
  BY <1>24
<1>26. IsTable(u)
  <2>1. new # <<>>
    BY <1>23
  <2>2. IDsUnique(new, last + n)
    BY <1>19, <1>20, <1>21, IDsUniqueMeans
  <2>3. last + n \in Int
    BY <1>4, <1>18
  <2> QED
    BY <1>19, <1>21, <1>22, <1>25, <2>1, <2>2, <2>3 DEF IsTable
<1>27. ASSUME NEW i \in DOMAIN cs, Stays(i)
       PROVE  \E k \in DOMAIN new : new[k] = UpdatedColumn(R, cs[i])
  <2>1. Rank(I, i) \in DOMAIN old /\ old[Rank(I, i)] = cs[i]
    BY <1>10, <1>13, <1>27
  <2> QED
    BY <1>13, <1>14, <1>19, <2>1
<1>28. ASSUME NEW k \in DOMAIN new
       PROVE  \/ \E i \in DOMAIN cs : Stays(i) /\ new[k] = UpdatedColumn(R, cs[i])
              \/ \E f \in ToSet(fs) : /\ f.name \in Added(R) /\ new[k].name = f.name
                                      /\ new[k].block.kind \in {f.block.kind, "none"}
  <2>1. CASE k \in DOMAIN kept
    BY <1>10, <1>16, <1>19, <2>1
  <2>2. CASE k \notin DOMAIN kept
    <3> DEFINE a == k - Len(kept)
    <3>1. a \in DOMAIN ns /\ new[k] = added[a]
      BY <1>17, <1>19, <2>2
    <3> HIDE DEF a
    <3> QED
      BY <1>8, <1>17, <3>1
  <2> QED
    BY <2>1, <2>2
<1> QED
  BY <1>25, <1>26, <1>27, <1>28 DEF Tables, cs, fs

(* A refused change is the only one of what is nested.                     *)
LEMMA NestedStays ==
  ASSUME Inv, Valid, NEW R, R = Refreshed, R # Absent,
         Convertible(R), ~NestedRefused(R), Widens(R), NEW u, Tables(R, u),
         SameNested(config, table)
  PROVE  SameNested(config, u)
<1> DEFINE cs == table.columns
           cf == config.fields
           fs == Planned.fields
           gs == R.fields
           us == u.columns
           hs == SchemaToFieldModels(us)
<1>1. IsModel(config) /\ ValidateConfig(config.fields)
  BY ValidFacts
<1>2. /\ IsTable(table) /\ gs = SchemaToFieldModels(cs)
  BY RefreshedFacts
<1>3. /\ DOMAIN gs = DOMAIN cs /\ Distinct(gs)
      /\ \A i \in DOMAIN cs : gs[i].name = cs[i].name /\ gs[i].block = cs[i].block
  BY <1>2, ShownFacts, ShownNames
<1>4. /\ IsTable(u)
      /\ \A i \in DOMAIN cs : Stays(i) => \E k \in DOMAIN us : us[k] = UpdatedColumn(R, cs[i])
      /\ \A k \in DOMAIN us : \/ \E i \in DOMAIN cs : Stays(i) /\ us[k] = UpdatedColumn(R, cs[i])
                              \/ \E f \in ToSet(fs) :
                                    /\ f.name \in Added(R) /\ us[k].name = f.name
                                    /\ us[k].block.kind \in {f.block.kind, "none"}
  BY DEF Tables
<1>5. /\ DOMAIN hs = DOMAIN us
      /\ \A k \in DOMAIN us : hs[k].name = us[k].name /\ hs[k].block = us[k].block
      /\ \A k \in DOMAIN us : IsBlock(us[k].block)
  BY <1>4, ShownNames DEF IsTable, IsTableColumn
<1>6. \A i \in DOMAIN cs, k \in DOMAIN us : us[k] = cs[i] => hs[k] = gs[i]
  BY <1>2 DEF SchemaToFieldModels
<1>7. \A i \in DOMAIN cs : Stays(i) => /\ UpdatedColumn(R, cs[i]).name = cs[i].name
                                       /\ UpdatedColumn(R, cs[i]).block = cs[i].block
                                       /\ cs[i].block # NoBlock => UpdatedColumn(R, cs[i]) = cs[i]
  <2> SUFFICES ASSUME NEW i \in DOMAIN cs, Stays(i)
               PROVE  /\ UpdatedColumn(R, cs[i]).name = cs[i].name
                      /\ UpdatedColumn(R, cs[i]).block = cs[i].block
                      /\ cs[i].block # NoBlock => UpdatedColumn(R, cs[i]) = cs[i]
    OBVIOUS
  <2>1. i \in DOMAIN table.columns /\ table.columns[i].name \in ColumnNames(Planned.fields)
    BY DEF Stays
  <2> HIDE DEF fs, gs, us, hs, cf
  <2> QED
    BY <2>1, KeptColumn
<1>8. /\ DOMAIN fs = DOMAIN cf /\ Distinct(fs)
      /\ \A j \in DOMAIN cf : fs[j].name = cf[j].name /\ fs[j].block.kind = cf[j].block.kind
  <2>1. IsFields(cf) /\ HasBlocks(cf)
    BY <1>1, ModelFacts
  <2>2. IsFields(fs) /\ HasBlocks(fs) /\ Alike(cf, fs)
    BY <1>1, PlannedFacts
  <2>3. Distinct(fs)
    BY <1>1, PlannedGiven
  <2> HIDE DEF cf, fs
  <2>4. DOMAIN fs = DOMAIN cf
    BY <2>1, <2>2, AlikePlaces
  <2>5. \A j \in DOMAIN cf : fs[j].name = cf[j].name
    BY <2>1, <2>2, AlikeFields
  <2>6. \A j \in DOMAIN cf : fs[j].block.kind = cf[j].block.kind
    BY <2>2 DEF Alike
  <2> QED
    BY <2>3, <2>4, <2>5, <2>6
<1>9. \A f \in ToSet(cf) : f.block # NoBlock \/ (\E g \in ToSet(gs) : g.name = f.name /\ g.block # NoBlock)
                              => f \in ToSet(gs)
  BY <1>2 DEF SameNested
<1>10. \A i \in DOMAIN cs : Stays(i) <=> \E j \in DOMAIN fs : fs[j].name = cs[i].name
  BY DEF Stays, ColumnNames
<1>11. \A n \in Added(R) : \A i \in DOMAIN gs : gs[i].name # n
  BY DEF Added, ColumnNames
<1> HIDE DEF cs, cf, fs, gs, us, hs
<1>12. ASSUME NEW f \in ToSet(cf), f \in ToSet(gs), f.block # NoBlock
       PROVE  f \in ToSet(hs)
  <2>1. PICK j \in DOMAIN cf : f = cf[j]
    BY DEF ToSet
  <2>2. PICK i \in DOMAIN cs : f = gs[i]
    BY <1>3, <1>12 DEF ToSet
  <2>3. Stays(i)
    <3>1. fs[j].name = f.name /\ j \in DOMAIN fs
      BY <1>8, <2>1
    <3>2. f.name = cs[i].name
      BY <1>3, <2>2
    <3> QED
      BY <1>10, <3>1, <3>2
  <2>4. PICK k \in DOMAIN us : us[k] = UpdatedColumn(R, cs[i])
    BY <1>4, <2>3
  <2>5. us[k] = cs[i]
    BY <1>3, <1>7, <1>12, <2>2, <2>3, <2>4
  <2> QED
    BY <1>5, <1>6, <2>2, <2>5 DEF ToSet
<1>13. ASSUME NEW f \in ToSet(cf), NEW g \in ToSet(hs), g.name = f.name, g.block # NoBlock
       PROVE  f \in ToSet(gs) /\ f.block # NoBlock
  <2>1. PICK j \in DOMAIN cf : f = cf[j]
    BY DEF ToSet
  <2>2. PICK k \in DOMAIN us : g = hs[k]
    BY <1>5 DEF ToSet
  <2>3. us[k].name = f.name /\ us[k].block # NoBlock /\ IsBlock(us[k].block)
    BY <1>5, <1>13, <2>2
  <2>4. CASE \E i \in DOMAIN cs : Stays(i) /\ us[k] = UpdatedColumn(R, cs[i])
    <3>1. PICK i \in DOMAIN cs : Stays(i) /\ us[k] = UpdatedColumn(R, cs[i])
      BY <2>4
    <3>2. gs[i].name = f.name /\ gs[i].block # NoBlock /\ gs[i] \in ToSet(gs)
      BY <1>3, <1>7, <2>3, <3>1 DEF ToSet
    <3>3. f \in ToSet(gs)
      BY <1>9, <3>2
    <3>4. PICK x \in DOMAIN gs : f = gs[x]
      BY <3>3 DEF ToSet
    <3>5. x = i
      BY <1>3, <3>2, <3>4 DEF Distinct
    <3> QED
      BY <3>2, <3>3, <3>4, <3>5
  <2>5. CASE \E e \in ToSet(fs) : /\ e.name \in Added(R) /\ us[k].name = e.name
                                  /\ us[k].block.kind \in {e.block.kind, "none"}
    <3>1. PICK x \in DOMAIN fs : /\ fs[x].name \in Added(R) /\ us[k].name = fs[x].name
                                 /\ us[k].block.kind \in {fs[x].block.kind, "none"}
      BY <2>5 DEF ToSet
    <3>2. us[k].block.kind # "none"
      BY <2>3, NoneIsNoBlock
    <3>3. x = j
      BY <1>8, <2>1, <2>3, <3>1 DEF Distinct
    <3>4. f.block.kind # "none"
      BY <1>8, <2>1, <3>1, <3>2, <3>3
    <3>5. f.block # NoBlock
      BY <3>4 DEF NoBlock
    <3>6. f \in ToSet(gs)
      BY <1>9, <3>5
    <3>7. \E i \in DOMAIN gs : gs[i].name = f.name
      BY <3>6 DEF ToSet
    <3> QED
      BY <1>11, <2>3, <3>1, <3>7
  <2> QED
    BY <1>4, <2>4, <2>5
<1> QED
  BY <1>9, <1>12, <1>13 DEF SameNested, cf, hs, us

LEMMA CommittedFacts ==
  ASSUME Inv, NEW R, R = Refreshed, Updates(R), Staged(R), NEW t \in Committed(R)
  PROVE  IsTable(t) /\ (cured => SameNested(config, t))
<1>1. Valid /\ R # Absent /\ Convertible(R) /\ ~NestedRefused(R) /\ Widens(R)
  BY DEF Updates, Staged
<1>2. PICK u \in UpdatedTables(R) : t = IF Creatable(u.columns, table.props) THEN u ELSE table
  BY DEF Committed
<1>3. IsTable(table)
  BY <1>1, RefreshedFacts
<1>4. Tables(R, u)
  BY <1>1, UpdatedTable
<1>5. cured => SameNested(config, table)
  BY DEF Inv, Messages
<1>6. cured => SameNested(config, u)
  BY <1>1, <1>4, <1>5, NestedStays
<1> QED
  BY <1>2, <1>3, <1>4, <1>5, <1>6 DEF Tables
------------------------------------------------------------------------------
LEMMA RefusedStep ==
  ASSUME Inv, ApplyRefused
  PROVE  Inv'
<1> DEFINE R == Refreshed
<1>1. Updates(R) /\ table' = table /\ tainted' = tainted
  BY DEF ApplyRefused
<1>2. \/ End("nested", R, StateIDs(config.fields, R))
      \/ End("refused", R, Warning)
  BY DEF ApplyRefused
<1>3. R # Absent /\ ~tainted /\ IsModel(config) /\ config # Absent
  BY <1>1, ValidFacts DEF Updates
<1>4. /\ table # Absent /\ IsTable(table) /\ R.fields = SchemaToFieldModels(table.columns)
  BY <1>3, RefreshedFacts
<1> HIDE DEF R
<1>5. cured => SameNested(config, table)
  BY DEF Inv, Messages
<1>6. /\ {"nested", "refused"} \subseteq Outcomes /\ "nested" \notin Good /\ "refused" \notin Good
  BY DEF Outcomes, Good
<1>7. CASE End("nested", R, StateIDs(config.fields, R))
  <2>1. Tells(config, StateIDs(config.fields, R))
    BY <1>3, <1>4, StateIDsFacts
  <2> QED
    BY <1>1, <1>3, <1>4, <1>5, <1>6, <1>7, <2>1, RunStep
<1>8. CASE End("refused", R, Warning)
  <2>1. Warning = NoMessage \/ Tells(config, Warning)
    BY <1>3, WarningTells
  <2> QED
    BY <1>1, <1>3, <1>4, <1>5, <1>6, <1>8, <2>1, RunStep
<1> QED
  BY <1>2, <1>7, <1>8

LEMMA UpdateStep ==
  ASSUME Inv, ApplyUpdate
  PROVE  Inv'
<1> DEFINE R == Refreshed
           t == table'
           V == View(t, config.ignore, config.props)
           result == IF V = Planned THEN "updated" ELSE "inconsistent"
<1>1. Updates(R) /\ Staged(R) /\ t \in Committed(R) /\ tainted' = tainted
      /\ End(result, V, Warning)
  BY DEF ApplyUpdate
<1>2. R # Absent /\ ~tainted /\ IsModel(config) /\ config # Absent
      /\ ValidateConfig(config.fields)
  BY <1>1, ValidFacts DEF Updates
<1>3. IsTable(t) /\ (cured => SameNested(config, t))
  <2> HIDE DEF t
  <2> QED
    BY <1>1, CommittedFacts
<1>4. /\ V # Absent
      /\ V.fields = SchemaToFieldModels(t.columns)
      /\ V.props = PropertiesToPropertyModels(t.props, config.ignore, config.props)
      /\ V.ignore = config.ignore /\ V.version = t.version
  BY ViewFacts
<1>5. t # Absent
  BY <1>3, TableNotAbsent
<1> HIDE DEF R, t, V
<1>6. ASSUME V = Planned
      PROVE  Records(config, t) /\ V.ignore = config.ignore /\ V.props = config.props
  BY <1>2, <1>4, <1>6, PlannedFacts DEF Records
<1>7. /\ result \in Outcomes /\ result # "invalid" /\ result # "nested"
      /\ result \in Good => V = Planned
  BY DEF Outcomes, Good
<1>8. Warning = NoMessage \/ (config # Absent /\ Tells(config, Warning))
  BY <1>2, WarningTells
<1> HIDE DEF result
<1> QED
  BY <1>1, <1>2, <1>3, <1>4, <1>5, <1>6, <1>7, <1>8, RunStep DEF t

LEMMA UnrecognisedStep ==
  ASSUME Inv, ApplyUnrecognised
  PROVE  Inv'
<1> DEFINE R == Refreshed
           t == table'
<1>1. Updates(R) /\ Staged(R) /\ t \in Committed(R) /\ tainted' = tainted
      /\ End("failed", R, Warning)
  BY DEF ApplyUnrecognised
<1>2. R # Absent /\ ~tainted /\ IsModel(config) /\ config # Absent
  BY <1>1, ValidFacts DEF Updates
<1>3. IsTable(t) /\ (cured => SameNested(config, t))
  <2> HIDE DEF t
  <2> QED
    BY <1>1, CommittedFacts
<1>4. t # Absent
  BY <1>3, TableNotAbsent
<1> HIDE DEF R, t
<1>5. "failed" \in Outcomes /\ "failed" \notin Good /\ "failed" \notin {"invalid", "nested"}
  BY DEF Outcomes, Good
<1>6. Warning = NoMessage \/ (config # Absent /\ Tells(config, Warning))
  BY <1>2, WarningTells
<1> QED
  BY <1>1, <1>2, <1>3, <1>4, <1>5, <1>6, RunStep DEF t
------------------------------------------------------------------------------
(* What is not a run: edits, messages that are followed, engines, imports. *)
LEMMA ExtendedModel ==
  ASSUME NEW m, IsModel(m), NEW f, IsField(f), f.name \notin ColumnNames(m.fields),
         NEW n, n = [m EXCEPT !.fields = Append(@, f)]
  PROVE  IsModel(n)
<1> DEFINE fs == m.fields
           gs == Append(fs, f)
<1>1. /\ m = [fields |-> fs, props |-> m.props, ignore |-> m.ignore, version |-> m.version]
      /\ IsList(fs) /\ Distinct(fs) /\ \A i \in DOMAIN fs : IsField(fs[i])
      /\ \A i \in DOMAIN m.props : m.props[i].type \in {"text", "json"}
      /\ Declared(m.props) \cup m.ignore \subseteq ToSet(PropOrder)
  BY DEF IsModel
<1>2. \A i \in DOMAIN fs : fs[i].name # f.name
  BY DEF ColumnNames
<1>3. n = [m EXCEPT !.fields = gs]
  OBVIOUS
<1> HIDE DEF fs
<1>4. /\ IsList(gs) /\ Len(fs) \in Nat /\ DOMAIN fs = 1 .. Len(fs)
      /\ DOMAIN gs = 1 .. Len(fs) + 1
      /\ \A i \in 1 .. Len(fs) : gs[i] = fs[i]
      /\ gs[Len(fs) + 1] = f
  BY <1>1, AppendList
<1> HIDE DEF gs
<1>5. \A i \in DOMAIN gs : (i \in DOMAIN fs /\ gs[i] = fs[i]) \/ (i = Len(fs) + 1 /\ gs[i] = f)
  BY <1>4
<1>6. \A i \in DOMAIN gs : IsField(gs[i])
  BY <1>1, <1>5
<1>7. Distinct(gs)
  BY <1>1, <1>2, <1>5 DEF Distinct
<1>8. n = [fields |-> gs, props |-> m.props, ignore |-> m.ignore, version |-> m.version]
  BY <1>1, <1>3
<1>9. n.fields = gs /\ n.props = m.props /\ n.ignore = m.ignore /\ n.version = m.version
  BY <1>8
<1> QED
  BY <1>1, <1>4, <1>6, <1>7, <1>8, <1>9 DEF IsModel

LEMMA EditStep ==
  ASSUME Inv, Edit
  PROVE  Inv'
<1>1. config' = Absent \/ IsModel(config')
  <2>1. CASE config' \in Configs \cup {Absent}
    BY <2>1, ConfigsAssumption
  <2>2. CASE /\ config # Absent
             /\ \E f \in Additions : /\ f.name \notin ColumnNames(config.fields)
                                     /\ config' = [config EXCEPT !.fields = Append(@, f)]
    <3>1. PICK f \in Additions : /\ f.name \notin ColumnNames(config.fields)
                                 /\ config' = [config EXCEPT !.fields = Append(@, f)]
      BY <2>2
    <3>2. IsModel(config) /\ IsField(f)
      BY <2>2, ConfigsAssumption DEF Inv, Typed
    <3> QED
      BY <3>1, <3>2, ExtendedModel
  <2> QED
    BY <2>1, <2>2 DEF Edit
<1>2. /\ outcome' = "none" /\ told' = NoMessage /\ ~cured' /\ ~hinted' /\ ~settled'
      /\ state' = state /\ tainted' = tainted /\ table' = table /\ imported' = imported
      /\ writes' = writes /\ edits' = edits + 1
  BY DEF Edit, Reset
<1>3. Typed'
  BY <1>1, <1>2 DEF Inv, Typed, Outcomes, IsTable
<1>4. Success'
  BY <1>2 DEF Inv, Success, Good
<1>5. Messages'
  BY <1>2 DEF Messages
<1> QED
  BY <1>3, <1>4, <1>5 DEF Inv

(* What the hint tells is the completed configuration, if it is well made. *)
LEMMA HintFacts ==
  ASSUME NEW fs, IsFields(fs), fs # <<>>, \A i \in DOMAIN fs : TypeGiven(fs[i]),
         \A i \in DOMAIN fs : ~IsHalfPinned(fs[i].block),
         \A p, q \in Slots(fs) \ Unset(fs) : ID(fs, p) = ID(fs, q) => p = q
  PROVE  ValidateConfig(Hint(fs)) /\ KeepsPins(fs, Hint(fs))
<1> DEFINE full == FillMissingNestedIDs(fs)
           ids == [p \in Places(full) |-> IF ID(full, p) = Null THEN 0 ELSE ID(full, p)]
           hs == WithIDs(full, ids)
<1>1. /\ ValidateConfig(full) /\ KeepsPins(fs, full) /\ \A p \in Places(fs) : ID(full, p) \in Int
  BY CompletedIsValid
<1>2. IsFields(full) /\ HasBlocks(full) /\ Places(full) = Places(fs)
  BY FilledFacts, FieldsHaveBlocks
<1>3. hs = Hint(fs)
  BY DEF Hint
<1> HIDE DEF full
<1>4. \A p \in Places(full) : ids[p] = ID(full, p) /\ ids[p] \in Int
  BY <1>1, <1>2, NullAssumption
<1> HIDE DEF ids
<1>5. HasBlocks(hs) /\ Alike(full, hs) /\ \A p \in Places(full) : ID(hs, p) = ids[p]
  BY <1>2, <1>4, WithIDsFacts
<1> HIDE DEF hs
<1>6. hs = full
  BY <1>2, <1>4, <1>5, AlikeEqual
<1> QED
  BY <1>1, <1>3, <1>6

(* What is the same but for the IDs, and has the same IDs, is the same.    *)
LEMMA SameField ==
  ASSUME NEW f, NEW g, f = [x \in DOMAIN f |-> f[x]], g = [x \in DOMAIN g |-> g[x]],
         "block" \in DOMAIN f, "block" \in DOMAIN g, IsBlock(f.block), IsBlock(g.block),
         WithoutIDs(f) = WithoutIDs(g)
  PROVE  /\ DOMAIN f = DOMAIN g /\ \A x \in DOMAIN f \ {"block"} : f[x] = g[x]
         /\ f.block.kind = g.block.kind /\ f.block.parts = g.block.parts
         /\ Len(f.block.ids) = Len(g.block.ids)
         /\ f.block.ids = g.block.ids => f = g
<1> DEFINE a == f.block
           b == g.block
           a0 == [a EXCEPT !.ids = <<>>]
           b0 == [b EXCEPT !.ids = <<>>]
<1>1. /\ a = [kind |-> a.kind, ids |-> a.ids, parts |-> a.parts] /\ Len(a.ids) = Len(a.parts)
      /\ b = [kind |-> b.kind, ids |-> b.ids, parts |-> b.parts] /\ Len(b.ids) = Len(b.parts)
  BY DEF IsBlock
<1>2. WithoutIDs(f) = [f EXCEPT !.block = a0] /\ WithoutIDs(g) = [g EXCEPT !.block = b0]
  BY DEF WithoutIDs
<1>3. a \in {f["block"]} /\ b \in {g["block"]}
  OBVIOUS
<1> HIDE DEF a, b
<1>4. a0 = [kind |-> a.kind, ids |-> <<>>, parts |-> a.parts]
      /\ b0 = [kind |-> b.kind, ids |-> <<>>, parts |-> b.parts]
  BY <1>1
<1>5. /\ DOMAIN WithoutIDs(f) = DOMAIN f /\ DOMAIN WithoutIDs(g) = DOMAIN g
      /\ WithoutIDs(f)["block"] = a0 /\ WithoutIDs(g)["block"] = b0
      /\ \A x \in DOMAIN f \ {"block"} : WithoutIDs(f)[x] = f[x]
      /\ \A x \in DOMAIN g \ {"block"} : WithoutIDs(g)[x] = g[x]
  <2> HIDE DEF a0, b0
  <2> QED
    BY <1>2
<1>6. DOMAIN f = DOMAIN g /\ a0 = b0 /\ \A x \in DOMAIN f \ {"block"} : f[x] = g[x]
  BY <1>5
<1>7. a0.kind = a.kind /\ a0.parts = a.parts /\ b0.kind = b.kind /\ b0.parts = b.parts
  BY <1>4
<1>8. a.kind = b.kind /\ a.parts = b.parts
  BY <1>6, <1>7
<1>9. a.ids = b.ids => a = b
  BY <1>1, <1>8
<1>10. a = b => f = g
  BY <1>3, <1>6
<1> QED
  BY <1>1, <1>6, <1>8, <1>9, <1>10 DEF a, b

(* The configuration with the IDs that a message told.                     *)
LEMMA FollowedModel ==
  ASSUME NEW m, IsModel(m), NEW message, Tells(m, message),
         NEW n, n = [m EXCEPT !.fields = message]
  PROVE  /\ IsModel(n) /\ n.fields = message /\ n.props = m.props /\ n.ignore = m.ignore
         /\ n.version = m.version
<1>1. /\ m = [fields |-> m.fields, props |-> m.props, ignore |-> m.ignore, version |-> m.version]
      /\ Distinct(m.fields)
      /\ \A i \in DOMAIN m.props : m.props[i].type \in {"text", "json"}
      /\ Declared(m.props) \cup m.ignore \subseteq ToSet(PropOrder)
      /\ IsFields(m.fields) /\ HasBlocks(m.fields)
  BY ModelFacts DEF IsModel
<1>2. HasBlocks(message) /\ Alike(m.fields, message)
  BY DEF Tells
<1>3. /\ IsFields(message) /\ DOMAIN message = DOMAIN m.fields
      /\ \A i \in DOMAIN m.fields : message[i].name = m.fields[i].name
  BY <1>1, <1>2, AlikeFields, AlikePlaces
<1>4. Distinct(message)
  BY <1>1, <1>3 DEF Distinct
<1>5. n = [fields |-> message, props |-> m.props, ignore |-> m.ignore, version |-> m.version]
  BY <1>1
<1>6. n.fields = message /\ n.props = m.props /\ n.ignore = m.ignore /\ n.version = m.version
  BY <1>5
<1> QED
  BY <1>1, <1>3, <1>4, <1>5, <1>6 DEF IsModel, IsFields

(* With the IDs of the state, all that is nested is the state's.           *)
LEMMA CuredBy ==
  ASSUME NEW m, IsModel(m), NEW t, IsTable(t), NEW s, s.fields = SchemaToFieldModels(t.columns),
         NEW message, message = StateIDs(m.fields, s), OnlyIDsDiffer(message, s),
         NEW n, n.fields = message
  PROVE  SameNested(n, t)
<1> DEFINE gs == s.fields
           fs == m.fields
<1>1. HasBlocks(gs)
  BY ShownFacts
<1>2. /\ HasBlocks(message) /\ Alike(fs, message)
      /\ \A i \in DOMAIN fs, j \in DOMAIN gs :
            /\ gs[j].name = fs[i].name
            /\ Len(gs[j].block.ids) = Len(fs[i].block.ids)
            => \A k \in DOMAIN fs[i].block.ids : ID(message, <<i, k>>) = gs[j].block.ids[k]
  BY StateIDsFacts DEF Tells
<1>3. IsFields(fs) /\ HasBlocks(fs)
  BY ModelFacts
<1>4. /\ DOMAIN message = DOMAIN fs
      /\ \A i \in DOMAIN fs : DOMAIN message[i].block.ids = DOMAIN fs[i].block.ids
      /\ \A i \in DOMAIN fs : message[i].name = fs[i].name
      /\ \A i \in DOMAIN fs : IsField(message[i])
  BY <1>2, <1>3, AlikePlaces, AlikeFields DEF IsFields
<1>5. \A i \in DOMAIN fs : \A k \in DOMAIN message[i].block.ids :
         ID(message, <<i, k>>) = message[i].block.ids[k]
  BY DEF ID
<1>6. \A f \in ToSet(message) :
         f.block # NoBlock \/ (\E g \in ToSet(gs) : g.name = f.name /\ g.block # NoBlock)
            => \E g \in ToSet(gs) : WithoutIDs(g) = WithoutIDs(f)
  BY DEF OnlyIDsDiffer
<1> HIDE DEF gs, fs
<1>7. ASSUME NEW f \in ToSet(message),
             f.block # NoBlock \/ (\E g \in ToSet(gs) : g.name = f.name /\ g.block # NoBlock)
      PROVE  f \in ToSet(gs)
  <2>1. PICK i \in DOMAIN fs : f = message[i]
    BY <1>4 DEF ToSet
  <2>2. PICK g \in ToSet(gs) : WithoutIDs(g) = WithoutIDs(f)
    BY <1>6, <1>7
  <2>3. PICK j \in DOMAIN gs : g = gs[j]
    BY DEF ToSet
  <2>4. /\ g = [x \in DOMAIN g |-> g[x]] /\ "block" \in DOMAIN g /\ IsBlock(g.block)
    BY <1>1, <2>3 DEF HasBlocks
  <2>5. /\ f = [x \in DOMAIN f |-> f[x]] /\ "block" \in DOMAIN f /\ IsBlock(f.block)
    BY <1>2, <1>4, <2>1 DEF HasBlocks
  <2>6. /\ DOMAIN f = DOMAIN g /\ \A x \in DOMAIN f \ {"block"} : f[x] = g[x]
        /\ Len(f.block.ids) = Len(g.block.ids)
        /\ f.block.ids = g.block.ids => f = g
    BY <2>2, <2>4, <2>5, SameField
  <2>7. "name" \in DOMAIN f
    <3>1. f = [name |-> f.name, type |-> f.type, block |-> f.block, attrs |-> f.attrs,
               defaults |-> f.defaults]
      BY <1>4, <2>1 DEF IsField
    <3> QED
      BY <3>1
  <2>8. gs[j].name = fs[i].name
    BY <1>4, <2>1, <2>3, <2>6, <2>7
  <2>9. /\ DOMAIN f.block.ids = 1 .. Len(f.block.ids)
        /\ f.block.ids = [k \in DOMAIN f.block.ids |-> f.block.ids[k]]
        /\ DOMAIN g.block.ids = 1 .. Len(g.block.ids)
        /\ g.block.ids = [k \in DOMAIN g.block.ids |-> g.block.ids[k]]
    BY <2>4, <2>5, BlockFacts
  <2>10. IsBlock(fs[i].block)
    BY <1>3 DEF HasBlocks
  <2>11. Len(fs[i].block.ids) = Len(f.block.ids)
    <3>1. DOMAIN fs[i].block.ids = 1 .. Len(fs[i].block.ids) /\ Len(fs[i].block.ids) \in Nat
      BY <2>10, BlockFacts
    <3>2. DOMAIN fs[i].block.ids = 1 .. Len(f.block.ids) /\ Len(f.block.ids) \in Nat
      BY <1>4, <2>1, <2>5, <2>9, BlockFacts
    <3> QED
      BY <3>1, <3>2
  <2>12. \A k \in DOMAIN f.block.ids : f.block.ids[k] = g.block.ids[k]
    <3>1. \A k \in DOMAIN fs[i].block.ids : ID(message, <<i, k>>) = g.block.ids[k]
      BY <1>2, <2>3, <2>6, <2>8, <2>11
    <3> QED
      BY <1>4, <1>5, <2>1, <3>1
  <2>13. f.block.ids = g.block.ids
    BY <2>6, <2>9, <2>12
  <2> QED
    BY <2>6, <2>13
<1> QED
  BY <1>7 DEF SameNested, gs

LEMMA FollowStep ==
  ASSUME Inv, Follow
  PROVE  Inv'
<1>1. /\ told # NoMessage /\ config' = [config EXCEPT !.fields = told]
      /\ cured' = (outcome = "nested" /\ OnlyIDsDiffer(told, state))
      /\ hinted' = (outcome = "invalid" /\ WellMade(config.fields))
      /\ outcome' = "none" /\ told' = NoMessage /\ ~settled'
      /\ state' = state /\ tainted' = tainted /\ table' = table /\ imported' = imported
      /\ edits' = edits /\ writes' = writes
  BY DEF Follow, Reset
<1>2. /\ IsModel(config) /\ config # Absent /\ Tells(config, told)
      /\ table = Absent \/ IsTable(table)
  BY <1>1 DEF Inv, Typed
<1>3. IsModel(config') /\ config'.fields = told
  BY <1>1, <1>2, FollowedModel
<1>4. config' # Absent
  BY <1>3, ModelFacts
<1>5. Typed'
  BY <1>1, <1>3 DEF Inv, Typed, Outcomes, IsTable
<1>6. Success'
  BY <1>1 DEF Inv, Success, Good
<1>7. ASSUME cured'
      PROVE  Managed' /\ SameNested(config', table')
  <2>1. /\ outcome = "nested" /\ OnlyIDsDiffer(told, state)
        /\ Managed /\ told = StateIDs(config.fields, state)
        /\ state.fields = SchemaToFieldModels(table.columns)
    BY <1>1, <1>7 DEF Inv, Messages
  <2>2. Managed'
    BY <1>1, <1>4, <2>1 DEF Managed
  <2>3. SameNested(config', table)
    BY <1>2, <1>3, <2>1, CuredBy DEF Managed
  <2> QED
    BY <1>1, <2>2, <2>3
<1>8. ASSUME hinted'
      PROVE  ValidateConfig(config'.fields)
  <2> DEFINE fs == config.fields
  <2>1. told = Hint(fs)
    BY <1>1, <1>8 DEF Inv, Messages
  <2>2. IsFields(fs) /\ HasBlocks(fs) /\ HasBlocks(told) /\ Alike(fs, told)
    BY <1>2, ModelFacts DEF Tells
  <2>4. fs # <<>>
    <3> SUFFICES ASSUME fs = <<>>
                 PROVE  FALSE
      OBVIOUS
    <3>1. Len(told) = Len(fs) /\ Len(<<>>) = 0 /\ IsList(told)
      BY <2>2 DEF Alike, HasBlocks
    <3>2. told = <<>>
      BY <3>1, EmptyList
    <3> QED
      BY <1>1, <3>2 DEF NoMessage
  <2>5. /\ \A i \in DOMAIN fs : TypeGiven(fs[i])
        /\ \A i \in DOMAIN fs : ~IsHalfPinned(fs[i].block)
        /\ \A p, q \in Slots(fs) \ Unset(fs) : ID(fs, p) = ID(fs, q) => p = q
    BY <1>1, <1>8 DEF WellMade
  <2> HIDE DEF fs
  <2>6. ValidateConfig(Hint(fs))
    BY <2>2, <2>4, <2>5, HintFacts
  <2> QED
    BY <1>3, <2>1, <2>6
<1>9. Messages'
  <2>1. outcome' # "nested" /\ told' = NoMessage /\ NoMessage' = NoMessage
    BY <1>1 DEF NoMessage
  <2> QED
    BY <1>4, <1>7, <1>8, <2>1 DEF Messages
<1> QED
  BY <1>5, <1>6, <1>9 DEF Inv

(* A property that engines write and the configuration does not track.     *)
LEMMA UntrackedWrite ==
  ASSUME NEW m, NEW t, NEW n, NEW v, n \in m.ignore \/ (n \in AutoIgnoredProps /\ n \notin Declared(m.props)),
         NEW u, u = Written(t.props, n, v)
  PROVE  PropertiesToPropertyModels(u, m.ignore, m.props) =
         PropertiesToPropertyModels(t.props, m.ignore, m.props)
<1>1. /\ DOMAIN u = DOMAIN t.props \cup {n}
      /\ \A x \in DOMAIN t.props : x # n => u[x] = t.props[x]
  BY DEF Written
<1>2. ~Visible(n, m.ignore, m.props)
  BY DEF Visible
<1>3. ReadBack(u, m.ignore, m.props) = ReadBack(t.props, m.ignore, m.props)
  BY <1>1, <1>2 DEF ReadBack
<1>4. \A i \in ReadBack(u, m.ignore, m.props) : u[PropOrder[i]] = t.props[PropOrder[i]]
  BY <1>1, <1>2, <1>3 DEF ReadBack
<1> QED
  BY <1>3, <1>4, PropsAgree

LEMMA WriteStep ==
  ASSUME Inv, EngineWrites
  PROVE  Inv'
<1>1. PICK w \in Writes :
         /\ table' = [table EXCEPT !.props = Written(@, w[1], w[2])]
         /\ settled' = (settled /\ ~Tracked(w[1]))
         /\ outcome' = IF Tracked(w[1]) THEN "none" ELSE outcome
  BY DEF EngineWrites
<1>2. /\ table # Absent /\ writes' = writes + 1
      /\ config' = config /\ state' = state /\ tainted' = tainted /\ told' = told
      /\ cured' = cured /\ hinted' = hinted /\ imported' = imported /\ edits' = edits
  BY DEF EngineWrites
<1>3. IsTable(table)
  BY <1>2 DEF Inv, Typed
<1> DEFINE u == Written(table.props, w[1], w[2])
           t == table'
<1>4. table' = [table EXCEPT !.props = u]
  BY <1>1
<1>5. table = [columns |-> table.columns, props |-> table.props, version |-> table.version,
               last |-> table.last]
  BY <1>3 DEF IsTable
<1> HIDE DEF u, t
<1>6. t = [columns |-> table.columns, props |-> u, version |-> table.version, last |-> table.last]
  BY <1>4, <1>5 DEF t
<1>7. /\ t.columns = table.columns /\ t.props = u /\ t.version = table.version
      /\ t.last = table.last
      /\ t = [columns |-> t.columns, props |-> t.props, version |-> t.version, last |-> t.last]
  BY <1>6
<1>8. IsTable(t)
  BY <1>3, <1>7 DEF IsTable
<1>9. t # Absent
  BY <1>8, TableNotAbsent
<1>10. outcome' \in {"none", outcome}
  BY <1>1
<1>11. Typed'
  <2>1. table' = Absent \/ IsTable(table')
    BY <1>8 DEF t
  <2>2. outcome' \in Outcomes /\ edits' \in Nat /\ writes' \in Nat
    BY <1>2, <1>10 DEF Inv, Typed, Outcomes, Good
  <2>3. told' = NoMessage \/ (config' # Absent /\ Tells(config', told'))
    BY <1>2 DEF Inv, Typed
  <2>4. /\ config' = Absent \/ IsModel(config')
        /\ tainted' => state' # Absent
    BY <1>2 DEF Inv, Typed
  <2> QED
    BY <2>1, <2>2, <2>3, <2>4 DEF Typed, Outcomes, Good
<1>12. ASSUME ~Tracked(w[1]), Stored
       PROVE  Stored'
  <2>1. config # Absent /\ Records(config, table)
    BY <1>12 DEF Stored
  <2>2. \/ w[1] \in config.ignore
        \/ w[1] \in AutoIgnoredProps /\ w[1] \notin Declared(config.props)
    BY <1>12, <2>1 DEF Tracked
  <2>3. PropertiesToPropertyModels(u, config.ignore, config.props) =
        PropertiesToPropertyModels(table.props, config.ignore, config.props)
    BY <2>2, UntrackedWrite DEF u
  <2>4. Records(config, t)
    BY <1>7, <2>1, <2>3 DEF Records
  <2> QED
    BY <1>2, <1>9, <2>1, <2>4 DEF Stored, t
<1>13. Success'
  <2>1. outcome' \in Good' => Stored'
    BY <1>1, <1>10, <1>12 DEF Inv, Success, Good
  <2>2. settled' => Stored' /\ ValidateConfig(config'.fields)
    BY <1>1, <1>2, <1>12 DEF Inv, Success
  <2>3. settled' /\ ~imported' =>
           /\ state' # Absent /\ ~tainted'
           /\ state'.ignore = config'.ignore /\ state'.props = config'.props
    BY <1>1, <1>2 DEF Inv, Success
  <2>4. imported' => state' # Absent /\ ~tainted' /\ state'.ignore = {}
    BY <1>2 DEF Inv, Success
  <2> QED
    BY <2>1, <2>2, <2>3, <2>4 DEF Success
<1>14. Messages'
  <2>1. SameNested(config, table) => SameNested(config, t)
    BY <1>7 DEF SameNested
  <2>2. Managed => Managed'
    BY <1>2, <1>9 DEF Managed, t
  <2>3. outcome' = "nested" =>
           /\ Managed' /\ told' = StateIDs(config'.fields, state')
           /\ state'.fields = SchemaToFieldModels(table'.columns)
    BY <1>2, <1>7, <1>10, <2>2 DEF Inv, Messages, t
  <2>4. outcome' = "invalid" /\ told' # NoMessage => told' = Hint(config'.fields)
    BY <1>2, <1>10 DEF Inv, Messages
  <2>5. cured' => Managed' /\ SameNested(config', table')
    BY <1>2, <2>1, <2>2 DEF Inv, Messages, t
  <2>6. hinted' => config' # Absent /\ ValidateConfig(config'.fields)
    BY <1>2 DEF Inv, Messages
  <2> QED
    BY <2>3, <2>4, <2>5, <2>6 DEF Messages
<1> QED
  BY <1>11, <1>13, <1>14 DEF Inv

LEMMA ImportStep ==
  ASSUME Inv, Import
  PROVE  Inv'
<1> DEFINE V == View(table, {}, <<>>)
<1>1. /\ config # Absent /\ table # Absent /\ state' = V /\ ~tainted' /\ imported'
      /\ writes' = writes + 1 /\ outcome' = "none" /\ told' = NoMessage
      /\ config' = config /\ table' = table /\ cured' = cured /\ hinted' = hinted
      /\ settled' = settled /\ edits' = edits
  BY DEF Import, Reset
<1>2. V # Absent /\ V.ignore = {}
  BY ViewFacts
<1> HIDE DEF V
<1>3. Typed'
  BY <1>1, <1>2 DEF Inv, Typed, Outcomes, IsTable
<1>4. Success'
  BY <1>1, <1>2 DEF Inv, Success, Good, Stored
<1>5. Messages'
  BY <1>1, <1>2 DEF Inv, Messages, Managed
<1> QED
  BY <1>3, <1>4, <1>5 DEF Inv
------------------------------------------------------------------------------
LEMMA InitInv ==
  ASSUME Init
  PROVE  Inv
<1>1. IsModel(config)
  BY ConfigsAssumption DEF Init
<1> QED
  BY <1>1 DEF Init, Inv, Typed, Success, Messages, Outcomes, Good

LEMMA NextInv ==
  ASSUME Inv, [Next]_vars
  PROVE  Inv'
<1>1. CASE Apply
  BY <1>1, InvalidStep, UnchangedStep, CreateStep, CreateFailsStep, RefusedStep, UpdateStep,
     UnrecognisedStep, DestroyStep DEF Apply
<1>2. CASE Edit \/ Follow \/ EngineWrites \/ Import
  BY <1>2, EditStep, FollowStep, WriteStep, ImportStep
<1>3. CASE UNCHANGED vars
  BY <1>3 DEF vars, Inv, Typed, Success, Messages, Stored, Managed, Outcomes, Good
<1> QED
  BY <1>1, <1>2, <1>3 DEF Next

(* The invariant holds whatever the user, the engines and the runs do.     *)
THEOREM Invariant == Spec => []Inv
<1>1. Init => Inv
  BY InitInv
<1>2. Inv /\ [Next]_vars => Inv'
  BY NextInv
<1> QED
  BY <1>1, <1>2, PTL DEF Spec
------------------------------------------------------------------------------
(* A table in the catalog has no two IDs alike and none beyond its         *)
(* counter, whoever numbered them.                                         *)
THEOREM TypeCorrect == Spec => []TypeOK
<1>1. Inv => TypeOK
  BY DEF Inv, Typed, TypeOK, IsTable, Outcomes
<1> QED
  BY <1>1, Invariant, PTL

LEMMA StoredSaysField ==
  ASSUME Inv, Stored, NEW i \in DOMAIN config.fields
  PROVE  SaysField(config.fields[i], table.columns[i])
<1> DEFINE fs == config.fields
           gs == SchemaToFieldModels(table.columns)
           f == fs[i]
           c == table.columns[i]
<1>1. IsModel(config) /\ IsTable(table) /\ Records(config, table)
  BY DEF Inv, Typed, Stored
<1>2. IsFields(fs) /\ HasBlocks(fs)
  BY <1>1, ModelFacts
<1>3. HasBlocks(gs)
  BY <1>1, ShownFacts
<1>4. Alike(fs, gs) /\ KeepsPins(fs, gs)
  BY <1>1 DEF Records
<1>5. DOMAIN gs = DOMAIN table.columns /\ DOMAIN gs = DOMAIN fs
  <2> HIDE DEF fs, gs
  <2>1. DOMAIN gs = DOMAIN fs
    BY <1>2, <1>3, <1>4, AlikePlaces
  <2> QED
    BY <1>1, <2>1, ShownNames DEF gs
<1>6. /\ gs[i].name = c.name /\ gs[i].type = c.type /\ gs[i].block = c.block
      /\ gs[i].attrs = c.attrs /\ gs[i].defaults = ReadDefault(c.default)
  BY <1>1, <1>5, ShownNames
<1>7. /\ gs[i].name = f.name /\ gs[i].type = f.type /\ gs[i].attrs = f.attrs
      /\ gs[i].defaults = f.defaults
      /\ gs[i].block.kind = f.block.kind /\ gs[i].block.parts = f.block.parts
  <2> HIDE DEF gs
  <2> QED
    BY <1>2, <1>3, <1>4, AlikeFields DEF Alike
<1>8. ASSUME NEW k \in DOMAIN f.block.ids
      PROVE  f.block.ids[k] \in {Null, c.block.ids[k]}
  <2> DEFINE p == <<i, k>>
  <2>1. p \in Places(fs) /\ ID(fs, p) = f.block.ids[k]
    BY <1>2, PlacesFacts
  <2>2. ID(gs, p) = c.block.ids[k]
    <3> HIDE DEF gs
    <3> QED
      BY <1>6 DEF ID
  <2> HIDE DEF p
  <2> QED
    BY <1>4, <2>1, <2>2 DEF KeepsPins
<1> HIDE DEF f, c, gs
<1> QED
  BY <1>6, <1>7, <1>8 DEF SaysField, f, c

(* A run that reports success left in the catalog what the configuration   *)
(* says.                                                                   *)
THEOREM SuccessStored == Spec => []SuccessMeansStored
<1>1. Inv => SuccessMeansStored
  <2> SUFFICES ASSUME Inv, outcome \in Good
               PROVE  /\ Len(table.columns) = Len(config.fields)
                      /\ \A i \in DOMAIN config.fields :
                            SaysField(config.fields[i], table.columns[i])
                      /\ \A n \in Declared(config.props) :
                            /\ n \in DOMAIN table.props
                            /\ table.props[n] = ByName(config.props)[n].value
                      /\ table.version = config.version
    BY DEF SuccessMeansStored
  <2>1. Stored
    BY DEF Inv, Success
  <2>2. IsTable(table) /\ Records(config, table)
    BY <2>1 DEF Inv, Typed, Stored
  <2>3. Len(table.columns) = Len(config.fields)
    BY <2>2, ShownFacts DEF Records, Alike
  <2>4. ASSUME NEW n \in Declared(config.props)
        PROVE  n \in DOMAIN table.props /\ table.props[n] = ByName(config.props)[n].value
    <3>1. config.props = PropertiesToPropertyModels(table.props, config.ignore, config.props)
      BY <2>2 DEF Records
    <3>2. /\ Declared(config.props) =
                {PropOrder[i] : i \in ReadBack(table.props, config.ignore, config.props)}
          /\ ByName(config.props)[n].value = table.props[n]
      BY <3>1, PropsRead
    <3> QED
      BY <3>2 DEF ReadBack
  <2>5. table.version = config.version
    BY <2>2 DEF Records
  <2> QED
    BY <2>1, <2>3, <2>4, <2>5, StoredSaysField
<1> QED
  BY <1>1, Invariant, PTL
------------------------------------------------------------------------------
(* What is not a run of apply changes the configuration or is counted.     *)
LEMMA OnlyRuns ==
  ASSUME Inv, Next, Ran
  PROVE  Apply
<1>1. edits \in Nat /\ writes \in Nat /\ config' = config /\ edits' = edits /\ writes' = writes
  BY DEF Inv, Typed, Ran
<1>2. ~Edit /\ ~EngineWrites /\ ~Import
  BY <1>1 DEF Edit, EngineWrites, Import
<1>3. ~Follow
  <2> SUFFICES ASSUME Follow
               PROVE  FALSE
    OBVIOUS
  <2>1. told # NoMessage /\ told # config.fields /\ config' = [config EXCEPT !.fields = told]
    BY DEF Follow
  <2>2. IsModel(config) /\ Tells(config, told)
    BY <2>1 DEF Inv, Typed
  <2>3. config'.fields = told
    BY <2>1, <2>2, FollowedModel
  <2> QED
    BY <1>1, <2>1, <2>3
<1> QED
  BY <1>2, <1>3 DEF Next

(* How each way to run ends.                                               *)
LEMMA Ends ==
  ASSUME Inv, Apply
  PROVE  \/ outcome' = "invalid" /\ ~ValidateConfig(config.fields)
         \/ outcome' = "unchanged"
         \/ outcome' = "destroyed" /\ config = Absent
         \/ Creates /\ outcome' \in {"inconsistent", "created", "failed"}
         \/ ApplyRefused /\ outcome' \in {"nested", "refused"}
         \/ ApplyUpdate \/ ApplyUnrecognised
<1>1. CASE ApplyInvalid
  BY <1>1 DEF ApplyInvalid, End
<1>2. CASE ApplyUnchanged
  BY <1>2 DEF ApplyUnchanged, End
<1>3. CASE ApplyCreate
  <2>1. outcome' = IF tainted' THEN "inconsistent" ELSE "created"
    BY <1>3 DEF ApplyCreate, End
  <2> QED
    BY <1>3, <2>1 DEF ApplyCreate
<1>4. CASE ApplyCreateFails
  BY <1>4 DEF ApplyCreateFails, End
<1>5. CASE ApplyRefused
  BY <1>5 DEF ApplyRefused, End
<1>6. CASE Destroy
  BY <1>6 DEF Destroy, End
<1> QED
  BY <1>1, <1>2, <1>3, <1>4, <1>5, <1>6 DEF Apply

LEMMA UpdateEnds ==
  ASSUME ApplyUpdate \/ ApplyUnrecognised
  PROVE  outcome' \in {"updated", "inconsistent", "failed"}
<1>1. CASE ApplyUpdate
  <2> DEFINE r == IF View(table', config.ignore, config.props) = Planned
                  THEN "updated" ELSE "inconsistent"
  <2>1. outcome' = r
    BY <1>1 DEF ApplyUpdate, End
  <2> QED
    BY <2>1
<1>2. CASE ApplyUnrecognised
  BY <1>2 DEF ApplyUnrecognised, End
<1> QED
  BY <1>1, <1>2

LEMMA NotFresh ==
  ASSUME Creates, state # Absent, table # Absent, ~tainted
  PROVE  FALSE
<1>1. \A V : V = View(table, state.ignore, state.props) => V # Absent
  BY ViewFacts
<1> QED
  BY <1>1 DEF Creates, Refreshed

(* Refreshing what was recorded gives what Terraform proposes.             *)
LEMMA NothingToDo ==
  ASSUME Inv, settled, ~imported, NEW R, R = Refreshed, R # Absent
  PROVE  Proposed(R) = R
<1> DEFINE Q == Proposed(R)
<1>1. Records(config, table) /\ IsModel(config)
  BY DEF Inv, Typed, Success, Stored
<1>2. state.ignore = config.ignore /\ state.props = config.props
  BY DEF Inv, Success
<1>3. /\ IsTable(table) /\ R.fields = SchemaToFieldModels(table.columns)
      /\ R.props = PropertiesToPropertyModels(table.props, state.ignore, state.props)
      /\ R.ignore = state.ignore /\ R.version = table.version
      /\ R = [fields |-> R.fields, props |-> R.props, ignore |-> R.ignore,
              version |-> R.version]
  BY RefreshedFacts
<1>4. Alike(config.fields, R.fields) /\ KeepsPins(config.fields, R.fields)
  BY <1>1, <1>3 DEF Records
<1>5. /\ Q.fields = R.fields
      /\ Q.props = config.props /\ Q.ignore = config.ignore /\ Q.version = config.version
      /\ Q = [fields |-> Q.fields, props |-> Q.props, ignore |-> Q.ignore,
              version |-> Q.version]
  <2> HIDE DEF Q
  <2> QED
    BY <1>1, <1>3, <1>4, ProposedFacts DEF Q
<1>6. R.props = config.props /\ R.version = config.version /\ R.ignore = config.ignore
  BY <1>1, <1>2, <1>3 DEF Records
<1> HIDE DEF Q
<1> QED
  BY <1>3, <1>5, <1>6 DEF Q

(* After a success, further runs find nothing to do.                       *)
THEOREM SettledStays == Spec => SettledStaysSettled
<1>1. ASSUME Inv, Next, Ran, settled, ~imported
      PROVE  outcome' = "unchanged"
  <2>1. Apply
    BY <1>1, OnlyRuns
  <2>2. /\ Stored /\ ValidateConfig(config.fields) /\ state # Absent /\ ~tainted
        /\ config # Absent /\ table # Absent
    BY <1>1 DEF Inv, Success, Stored
  <2>3. ~Updates(Refreshed)
    BY <1>1, NothingToDo DEF Updates
  <2>4. ~ApplyRefused /\ ~ApplyUpdate /\ ~ApplyUnrecognised
    BY <2>3 DEF ApplyRefused, ApplyUpdate, ApplyUnrecognised
  <2>5. ~Creates
    BY <2>2, NotFresh
  <2> QED
    BY <1>1, <2>1, <2>2, <2>4, <2>5, Ends
<1>2. Inv /\ [Next]_vars => [Ran /\ settled /\ ~imported => outcome' = "unchanged"]_vars
  BY <1>1
<1> QED
  BY <1>2, Invariant, PTL DEF Spec, SettledStaysSettled
------------------------------------------------------------------------------
(* What follows when the configuration says what the table is.             *)
LEMMA DescribedFacts ==
  ASSUME Inv, DescribesTable, NEW R, R = Refreshed
  PROVE  /\ R # Absent /\ IsTable(table) /\ IsModel(config) /\ config # Absent
         /\ config.fields = SchemaToFieldModels(table.columns) /\ R.fields = config.fields
         /\ config.props = PropertiesToPropertyModels(table.props, config.ignore, config.props)
         /\ ValidateConfig(config.fields) /\ Planned = config
         /\ Added(R) = {} /\ Changed(R) = {}
         /\ PropChangesAllowed(R.props, config.props, config.ignore)
<1>1. /\ config # Absent /\ table # Absent /\ state # Absent /\ ~tainted
      /\ config = View(table, config.ignore, config.props)
      /\ Declared(config.props) \cap state.ignore = {}
      /\ NoNumbers(config.fields)
  BY DEF DescribesTable
<1>2. IsModel(config) /\ IsTable(table)
  BY <1>1 DEF Inv, Typed
<1>3. R # Absent
  <2>1. \A V : V = View(table, state.ignore, state.props) => V # Absent
    BY ViewFacts
  <2> QED
    BY <1>1, <2>1 DEF Refreshed
<1>4. /\ R.fields = SchemaToFieldModels(table.columns)
      /\ R.props = PropertiesToPropertyModels(table.props, state.ignore, state.props)
  BY <1>3, RefreshedFacts
<1>5. /\ config.fields = SchemaToFieldModels(table.columns)
      /\ config.props = PropertiesToPropertyModels(table.props, config.ignore, config.props)
  BY <1>1, ViewFacts
<1> DEFINE fs == config.fields
<1>6. /\ fs # <<>> /\ Distinct(fs) /\ Unset(fs) = {} /\ Slots(fs) = Places(fs)
      /\ \A i \in DOMAIN fs : TypeGiven(fs[i])
      /\ \A p, q \in Places(fs) : ID(fs, p) = ID(fs, q) => p = q
  BY <1>2, <1>5, ShownFacts
<1>7. IsFields(fs)
  BY <1>2, ModelFacts
<1>8. ValidateConfig(fs)
  <2> HIDE DEF fs
  <2> QED
    BY <1>6, <1>7, CompleteIsValid
<1>9. Planned = config
  BY <1>2, <1>6, PlannedFacts
<1>10. R.fields = fs
  BY <1>4, <1>5
<1>11. Added(R) = {}
  BY <1>9, <1>10 DEF Added
<1>12. Changed(R) = {}
  <2> SUFFICES ASSUME NEW n \in Changed(R)
               PROVE  FALSE
    OBVIOUS
  <2>1. n \in ColumnNames(fs) /\ ~FieldModelsEqual(Named(fs, n), Named(fs, n))
    BY <1>9, <1>10 DEF Changed
  <2>2. PICK i \in DOMAIN fs : Named(fs, n) = fs[i]
    BY <1>6, <2>1, NamedFacts
  <2>3. "number" \in DOMAIN fs[i].defaults
    BY <2>1, <2>2 DEF FieldModelsEqual
  <2> QED
    BY <1>1, <2>2, <2>3 DEF NoNumbers
<1>13. PropChangesAllowed(R.props, config.props, config.ignore)
  BY <1>1, <1>4, <1>5, OwnPropsAllowed
<1> QED
  BY <1>1, <1>2, <1>3, <1>5, <1>8, <1>9, <1>10, <1>11, <1>12, <1>13

(* Without changed or added columns the table stays as it is.              *)
NothingToStage(s) == Added(s) = {} /\ Changed(s) = {} /\ s.fields = Planned.fields

LEMMA NothingUpdated ==
  ASSUME Inv, Valid, NEW R, R = Refreshed, R # Absent,
         NothingToStage(R), NEW t \in Committed(R)
  PROVE  /\ t.columns = table.columns /\ t.props = table.props /\ t.version = table.version
<1> DEFINE cs == table.columns
           fs == Planned.fields
           I == {i \in DOMAIN cs : cs[i].name \in ColumnNames(fs)}
           old == Pick(cs, I)
           kept == [k \in DOMAIN old |-> UpdatedColumn(R, old[k])]
<1>1. PICK u \in UpdatedTables(R) : t = IF Creatable(u.columns, table.props) THEN u ELSE table
  BY DEF Committed
<1>2. Convertible(R) /\ ~NestedRefused(R) /\ Widens(R)
  BY DEF NothingToStage, Convertible, NestedRefused, Widens
<1>3. Tables(R, u)
  BY <1>2, UpdatedTable
<1>4. PICK order \in SetToSeqs(Added(R)) :
         LET ns == [m \in DOMAIN order |-> Named(fs, order[m])]
         IN  u = [table EXCEPT !.columns = kept \o AddedColumns(ns, table.last),
                               !.last = @ + Cardinality(NewPlaces(ns))]
  BY DEF UpdatedTables
<1> DEFINE ns == [m \in DOMAIN order |-> Named(fs, order[m])]
           added == AddedColumns(ns, table.last)
           n == Cardinality(NewPlaces(ns))
<1>5. u = [table EXCEPT !.columns = kept \o added, !.last = table.last + n]
  BY <1>4
<1>6. /\ IsTable(table) /\ R.fields = SchemaToFieldModels(cs)
  BY RefreshedFacts
<1>7. IsList(cs) /\ table.last \in Int
      /\ table = [columns |-> cs, props |-> table.props, version |-> table.version,
                  last |-> table.last]
  BY <1>6 DEF IsTable
<1>8. /\ IsFields(ns) /\ ns = <<>>
      /\ \A m \in DOMAIN ns : TypeGiven(ns[m]) /\ TypesParse(ns[m]) /\ ~DefaultFails(ns[m])
  <2>1. /\ IsFields(ns)
        /\ \A m \in DOMAIN ns : TypeGiven(ns[m]) /\ TypesParse(ns[m]) /\ ~DefaultFails(ns[m])
        /\ Added(R) = {} => ns = <<>>
    BY <1>2, NewFields
  <2> HIDE DEF ns
  <2> QED
    BY <2>1 DEF NothingToStage
<1>9. I = DOMAIN cs
  <2>1. DOMAIN R.fields = DOMAIN cs /\ \A i \in DOMAIN cs : R.fields[i].name = cs[i].name
    BY <1>6, ShownNames
  <2>2. \A i \in DOMAIN cs : cs[i].name \in ColumnNames(R.fields)
    BY <2>1 DEF ColumnNames
  <2> HIDE DEF cs, fs
  <2> QED
    BY <2>2 DEF fs, NothingToStage
<1> HIDE DEF ns
<1>10. IsList(added) /\ Len(added) = 0
  <2>1. IsList(added) /\ Len(added) = Len(ns)
    BY <1>7, <1>8, AddedFacts
  <2> QED
    BY <1>8, <2>1
<1> HIDE DEF added, n, cs, fs, I
<1>11. DOMAIN cs = 1 .. Len(cs) /\ Len(cs) \in Nat
  BY <1>7, ListDomain
<1>12. Cardinality(I) = Len(cs) /\ \A k \in 1 .. Len(cs) : Nth(I, k) = k
  BY <1>9, <1>11, NthOfAll
<1>13. DOMAIN old = 1 .. Len(cs) /\ \A k \in 1 .. Len(cs) : old[k] = cs[k]
  BY <1>12 DEF Pick
<1> HIDE DEF old
<1>14. \A c : UpdatedColumn(R, c) = c
  BY DEF UpdatedColumn, NothingToStage
<1>15. /\ DOMAIN kept = 1 .. Len(cs) /\ \A k \in 1 .. Len(cs) : kept[k] = cs[k]
       /\ kept = [k \in 1 .. Len(cs) |-> kept[k]]
  BY <1>13, <1>14
<1> HIDE DEF kept
<1>16. IsList(kept) /\ Len(kept) = Len(cs)
  BY <1>11, <1>15, FunctionIsList
<1> DEFINE new == kept \o added
<1>17. /\ IsList(new) /\ Len(new) = Len(cs)
       /\ \A k \in 1 .. Len(cs) : new[k] = cs[k]
  BY <1>10, <1>11, <1>15, <1>16, ConcatLists
<1>18. new = cs
  BY <1>7, <1>17, ListsEqual
<1> HIDE DEF new
<1>19. u = [columns |-> new, props |-> table.props, version |-> table.version,
            last |-> table.last + n]
  BY <1>5, <1>7 DEF new
<1>20. u.columns = cs
  BY <1>18, <1>19
<1> QED
  BY <1>1, <1>3, <1>20 DEF Tables, cs

(* It is then applied without an error.                                    *)
LEMMA DescribedApplies ==
  ASSUME Inv, Next, Ran, DescribesTable
  PROVE  outcome' \in Good
<1> DEFINE R == Refreshed
<1>1. Apply
  BY OnlyRuns
<1>2. table # Absent /\ state # Absent /\ ~tainted
  BY DEF DescribesTable
<1>3. /\ R # Absent /\ IsTable(table) /\ IsModel(config) /\ config # Absent
      /\ config.fields = SchemaToFieldModels(table.columns) /\ R.fields = config.fields
      /\ config.props = PropertiesToPropertyModels(table.props, config.ignore, config.props)
      /\ ValidateConfig(config.fields) /\ Planned = config
      /\ Added(R) = {} /\ Changed(R) = {}
      /\ PropChangesAllowed(R.props, config.props, config.ignore)
  BY DescribedFacts
<1>4. config = View(table, config.ignore, config.props) /\ NoNumbers(config.fields)
  BY DEF DescribesTable
<1>5. ~Creates
  BY <1>2, NotFresh
<1>6. ~ApplyRefused
  <2>1. Staged(R)
    BY <1>3 DEF Staged, Convertible, NestedRefused, Widens
  <2> QED
    BY <2>1 DEF ApplyRefused
<1>7. ASSUME Updates(R), table' \in Committed(R)
      PROVE  /\ SchemaToFieldModels(table'.columns) = Planned.fields
             /\ View(table', config.ignore, config.props) = Planned
  <2> DEFINE t == table'
  <2>1. t.columns = table.columns /\ t.props = table.props /\ t.version = table.version
    <3> HIDE DEF t, R
    <3>1. Valid
      BY <1>7 DEF Updates
    <3>2. t \in Committed(R)
      BY <1>7 DEF t
    <3>3. R = Refreshed
      BY DEF R
    <3>4. NothingToStage(R)
      BY <1>3 DEF NothingToStage
    <3> QED
      BY <1>3, <3>1, <3>2, <3>3, <3>4, NothingUpdated
  <2> HIDE DEF t
  <2>2. View(t, config.ignore, config.props) = View(table, config.ignore, config.props)
    BY <2>1 DEF View
  <2> QED
    BY <1>3, <1>4, <2>1, <2>2 DEF t
<1>8. ApplyUpdate => outcome' = "updated"
  <2> SUFFICES ASSUME ApplyUpdate
               PROVE  outcome' = "updated"
    OBVIOUS
  <2>1. Updates(R) /\ table' \in Committed(R)
    BY DEF ApplyUpdate
  <2>2. outcome' = IF View(table', config.ignore, config.props) = Planned
                   THEN "updated" ELSE "inconsistent"
    BY DEF ApplyUpdate, End
  <2>3. View(table', config.ignore, config.props) = Planned
    BY <1>7, <2>1
  <2> QED
    BY <2>2, <2>3
<1>9. ~ApplyUnrecognised
  <2> SUFFICES ASSUME ApplyUnrecognised
               PROVE  FALSE
    OBVIOUS
  <2>1. /\ Updates(R) /\ table' \in Committed(R)
        /\ MayDiffer(SchemaToFieldModels(table'.columns))
    BY DEF ApplyUnrecognised
  <2>2. MayDiffer(config.fields)
    BY <1>3, <1>7, <2>1
  <2> QED
    BY <1>3, <1>4, <2>2 DEF MayDiffer, NoNumbers
<1> HIDE DEF R
<1> QED
  BY <1>1, <1>3, <1>5, <1>6, <1>8, <1>9, Ends DEF Good

(* A configuration that says what the table is is applied without error.   *)
THEOREM FaithfulApplies == Spec => FaithfulConfigApplies
<1>1. Inv /\ [Next]_vars => [Ran /\ DescribesTable => outcome' \in Good]_vars
  BY DescribedApplies DEF Good
<1> QED
  BY <1>1, Invariant, PTL DEF Spec, FaithfulConfigApplies

(* The configuration that made a table says what it is.                    *)
LEMMA ImportedIsDescribed ==
  ASSUME Inv, settled, imported, Unset(config.fields) = {}, config.ignore = {},
         NoNumbers(config.fields)
  PROVE  DescribesTable
<1> DEFINE fs == config.fields
           gs == SchemaToFieldModels(table.columns)
           V == View(table, config.ignore, config.props)
<1>1. Stored /\ ValidateConfig(fs) /\ state # Absent /\ ~tainted /\ state.ignore = {}
  BY DEF Inv, Success
<1>2. /\ config # Absent /\ table # Absent /\ IsModel(config) /\ IsTable(table)
      /\ Records(config, table)
  BY <1>1 DEF Stored, Inv, Typed
<1>3. /\ Alike(fs, gs) /\ KeepsPins(fs, gs)
      /\ config.props = PropertiesToPropertyModels(table.props, config.ignore, config.props)
      /\ config.version = table.version
  BY <1>2 DEF Records
<1>4. /\ HasBlocks(fs)
      /\ config = [fields |-> fs, props |-> config.props, ignore |-> config.ignore,
                   version |-> config.version]
  BY <1>2, ModelFacts
<1>5. HasBlocks(gs)
  BY <1>2, ShownFacts
<1>6. Slots(fs) = Places(fs)
  BY <1>1, <1>4, SlotsOfGiven DEF ValidateConfig
<1>7. /\ V.fields = gs
      /\ V.props = PropertiesToPropertyModels(table.props, config.ignore, config.props)
      /\ V.ignore = config.ignore /\ V.version = table.version
      /\ V = [fields |-> V.fields, props |-> V.props, ignore |-> V.ignore,
              version |-> V.version]
  <2> HIDE DEF V
  <2> QED
    BY ViewFacts DEF V
<1> HIDE DEF gs, V
<1>8. gs = fs
  <2>1. \A p \in Places(fs) : ID(gs, p) = ID(fs, p)
    BY <1>3, <1>6 DEF KeepsPins, Unset
  <2> QED
    BY <1>3, <1>4, <1>5, <2>1, AlikeEqual
<1>9. config = V
  BY <1>3, <1>4, <1>7, <1>8
<1> QED
  BY <1>1, <1>2, <1>9 DEF DescribesTable, V

(* An import of a table that the configuration made ends well.             *)
THEOREM ImportEndsWell == Spec => ImportConverges
<1>1. Inv /\ [Next]_vars =>
        [Ran /\ settled /\ imported
         /\ Unset(config.fields) = {} /\ config.ignore = {} /\ NoNumbers(config.fields)
         => outcome' \in Good]_vars
  BY ImportedIsDescribed, DescribedApplies DEF Good
<1> QED
  BY <1>1, Invariant, PTL DEF Spec, ImportConverges
------------------------------------------------------------------------------
(* What is nested and the same needs no update.                            *)
LEMMA CuredNotRefused ==
  ASSUME Inv, cured, NEW R, R = Refreshed, Updates(R)
  PROVE  ~NestedRefused(R)
<1> DEFINE cs == table.columns
           fs == config.fields
           gs == R.fields
<1>1. Valid /\ R # Absent
  BY DEF Updates
<1>2. IsModel(config) /\ HasBlocks(fs) /\ Distinct(fs)
  <2>1. IsModel(config)
    BY <1>1, ValidFacts
  <2> QED
    BY <2>1, ModelFacts DEF IsModel
<1>3. /\ IsTable(table) /\ gs = SchemaToFieldModels(cs)
  BY <1>1, RefreshedFacts
<1>4. /\ DOMAIN gs = DOMAIN cs /\ Distinct(gs) /\ HasBlocks(gs)
      /\ \A p \in Places(gs) : ID(gs, p) \in Int
  BY <1>3, ShownFacts
<1>5. \A f \in ToSet(fs) :
         f.block # NoBlock \/ (\E g \in ToSet(gs) : g.name = f.name /\ g.block # NoBlock)
            => f \in ToSet(gs)
  BY <1>3 DEF Inv, Messages, SameNested
<1> HIDE DEF fs, gs, cs
<1>6. Unset(fs) = {}
  <2> SUFFICES ASSUME NEW p \in Unset(fs)
               PROVE  FALSE
    OBVIOUS
  <2>1. /\ p \in Places(fs) /\ p[1] \in DOMAIN fs /\ p[2] \in DOMAIN fs[p[1]].block.ids
        /\ ID(fs, p) = Null
    BY <1>2, PlacesFacts DEF Unset
  <2>2. fs[p[1]].block # NoBlock
    BY <2>1 DEF NoBlock
  <2>3. fs[p[1]] \in ToSet(gs)
    BY <1>5, <2>1, <2>2 DEF ToSet
  <2>4. PICK j \in DOMAIN gs : gs[j] = fs[p[1]]
    BY <2>3 DEF ToSet
  <2>5. p[2] \in DOMAIN gs[j].block.ids
    BY <2>1, <2>4
  <2>6. <<j, p[2]>> \in Places(gs) /\ ID(gs, <<j, p[2]>>) = gs[j].block.ids[p[2]]
    BY <1>4, <2>4, <2>5, PlacesFacts
  <2>7. ID(fs, p) = gs[j].block.ids[p[2]]
    BY <2>4 DEF ID
  <2> QED
    BY <1>4, <2>1, <2>6, <2>7, NullAssumption
<1>7. Planned.fields = fs
  BY <1>2, <1>6, PlannedFacts DEF fs
<1>8. SUFFICES ASSUME NEW n \in Changed(R), Named(gs, n).block # NoBlock
               PROVE  FALSE
  BY DEF NestedRefused, gs
<1>9. /\ n \in ColumnNames(fs) /\ n \in ColumnNames(gs)
      /\ ~FieldModelsEqual(Named(gs, n), Named(fs, n))
  BY <1>7, <1>8 DEF Changed, gs
<1>10. PICK i \in DOMAIN fs : fs[i].name = n /\ Named(fs, n) = fs[i]
  BY <1>2, <1>9, NamedFacts
<1>11. PICK j \in DOMAIN gs : gs[j].name = n /\ Named(gs, n) = gs[j]
  BY <1>4, <1>9, NamedFacts
<1>12. fs[i] \in ToSet(gs)
  <2>1. fs[i] \in ToSet(fs) /\ gs[j] \in ToSet(gs) /\ gs[j].name = fs[i].name
        /\ gs[j].block # NoBlock
    BY <1>8, <1>10, <1>11 DEF ToSet
  <2> QED
    BY <1>5, <2>1
<1>13. fs[i] = gs[j]
  <2>1. PICK k \in DOMAIN gs : gs[k] = fs[i]
    BY <1>12 DEF ToSet
  <2>2. gs[k].name = gs[j].name
    BY <1>10, <1>11, <2>1
  <2> QED
    BY <1>4, <2>1, <2>2 DEF Distinct
<1>14. "number" \notin DOMAIN gs[j].defaults
  <2>1. IsTableColumn(cs[j]) /\ gs[j].block = cs[j].block
        /\ gs[j].defaults = ReadDefault(cs[j].default)
    BY <1>3, <1>4, ShownNames DEF IsTable, cs
  <2>2. cs[j].block # NoBlock /\ IsBlock(cs[j].block)
    BY <1>8, <1>11, <2>1 DEF IsTableColumn
  <2>3. cs[j].block.kind # "none"
    BY <2>2, NoneIsNoBlock
  <2>4. cs[j].default = NoDefault
    BY <2>1, <2>3 DEF IsTableColumn, TypeGiven
  <2>5. ReadDefault(NoDefault) = NoDefault /\ DOMAIN NoDefault = {}
    BY DEF ReadDefault, NoDefault
  <2> QED
    BY <2>1, <2>4, <2>5
<1> QED
  BY <1>9, <1>10, <1>11, <1>13, <1>14 DEF FieldModelsEqual

(* Once cured by the IDs that it told, a refusal does not come back.       *)
THEOREM RefusalCured == Spec => RefusalIsCurable
<1>1. ASSUME Inv, Next, Ran, cured
      PROVE  outcome' # "nested"
  <2>1. Apply
    BY <1>1, OnlyRuns
  <2>2. ASSUME ApplyRefused
        PROVE  outcome' # "nested"
    <3>1. Updates(Refreshed)
      BY <2>2 DEF ApplyRefused
    <3>2. ~NestedRefused(Refreshed)
      BY <1>1, <3>1, CuredNotRefused
    <3> QED
      BY <2>2, <3>2 DEF ApplyRefused, End
  <2> QED
    BY <1>1, <2>1, <2>2, Ends, UpdateEnds
<1>2. Inv /\ [Next]_vars => [Ran /\ cured => outcome' # "nested"]_vars
  BY <1>1
<1> QED
  BY <1>2, Invariant, PTL DEF Spec, RefusalIsCurable

(* The hint is what the user is to write: with its IDs the configuration   *)
(* is valid, and it leaves the user's own IDs as they are.                 *)
THEOREM HintValid == Spec => HintIsValid
<1>1. ASSUME Inv, Next, Ran, hinted
      PROVE  outcome' # "invalid"
  <2>1. Apply
    BY <1>1, OnlyRuns
  <2>2. config # Absent /\ ValidateConfig(config.fields)
    BY <1>1 DEF Inv, Messages
  <2> QED
    BY <1>1, <2>1, <2>2, Ends, UpdateEnds
<1>2. ASSUME Inv, Next, hinted', ~hinted
      PROVE  \A p \in Slots(config.fields) :
                ID(config.fields, p) \in {Null, ID(config'.fields, p)}
  <2>1. Follow
    BY <1>2 DEF Next, Apply, ApplyInvalid, ApplyUnchanged, ApplyCreate, ApplyCreateFails,
                ApplyRefused, ApplyUpdate, ApplyUnrecognised, Destroy, End, Edit,
                EngineWrites, Import
  <2>2. /\ told # NoMessage /\ config' = [config EXCEPT !.fields = told]
        /\ outcome = "invalid" /\ WellMade(config.fields)
    BY <1>2, <2>1 DEF Follow
  <2>3. IsModel(config) /\ Tells(config, told) /\ told = Hint(config.fields)
    BY <1>2, <2>2 DEF Inv, Typed, Messages
  <2>4. config'.fields = told
    BY <2>2, <2>3, FollowedModel
  <2> DEFINE fs == config.fields
  <2>5. IsFields(fs) /\ HasBlocks(fs) /\ HasBlocks(told) /\ Alike(fs, told)
    BY <2>3, ModelFacts DEF Tells
  <2>6. /\ \A i \in DOMAIN fs : TypeGiven(fs[i])
        /\ \A i \in DOMAIN fs : ~IsHalfPinned(fs[i].block)
        /\ \A p, q \in Slots(fs) \ Unset(fs) : ID(fs, p) = ID(fs, q) => p = q
    BY <2>2 DEF WellMade
  <2> HIDE DEF fs
  <2>7. fs # <<>>
    <3> SUFFICES ASSUME fs = <<>>
                 PROVE  FALSE
      OBVIOUS
    <3>1. Len(told) = Len(fs) /\ Len(<<>>) = 0 /\ IsList(told)
      BY <2>5 DEF Alike, HasBlocks
    <3>2. told = <<>>
      BY <3>1, EmptyList
    <3> QED
      BY <2>2, <3>2 DEF NoMessage
  <2>8. KeepsPins(fs, Hint(fs)) /\ Slots(fs) \subseteq Places(fs)
    BY <2>5, <2>6, <2>7, HintFacts, PlacesFacts
  <2>9. told = Hint(fs)
    BY <2>3 DEF fs
  <2>10. \A p \in Slots(fs) : ID(fs, p) \in {Null, ID(told, p)}
    BY <2>8, <2>9 DEF KeepsPins
  <2> QED
    BY <2>4, <2>10 DEF fs
<1>3. Inv /\ [Next]_vars =>
        [/\ Ran /\ hinted => outcome' # "invalid"
         /\ hinted' /\ ~hinted =>
               \A p \in Slots(config.fields) :
                  ID(config.fields, p) \in {Null, ID(config'.fields, p)}]_vars
  BY <1>1, <1>2
<1> QED
  BY <1>3, Invariant, PTL DEF Spec, HintIsValid

(* Values that checkPropValueEqual tells apart are not the same.           *)
LEMMA ToldApart ==
  ASSUME NEW p, NEW v, ~PropValueEqual(v, p.value, p.type)
  PROVE  ~SameValue(p, v)
<1>1. CASE v.json # NoJSON /\ p.value.json # NoJSON
  BY <1>1 DEF PropValueEqual, SameValue
<1>2. CASE ~(v.json # NoJSON /\ p.value.json # NoJSON)
  <2>1. p.type = "json" \/ v.text # p.value.text
    BY <1>2 DEF PropValueEqual
  <2>2. CASE p.type = "json"
    BY <1>2, <2>2 DEF SameValue
  <2>3. CASE p.type # "json"
    BY <1>2, <2>1, <2>3 DEF SameValue
  <2> QED
    BY <2>2, <2>3
<1> QED
  BY <1>1, <1>2

(* A change of properties that is not let through is a real one.           *)
LEMMA RefusedDiffers ==
  ASSUME Inv, Valid, NEW R, R = Refreshed, R # Absent,
         ~PropChangesAllowed(R.props, config.props, config.ignore)
  PROVE  \E n \in ToSet(PropOrder) : DiffersFromTable(n)
<1> DEFINE t == table.props
           S == R.props
           P == config.props
           G == config.ignore
<1>1. S = PropertiesToPropertyModels(t, state.ignore, state.props)
  BY RefreshedFacts
<1>2. Declared(P) \subseteq ToSet(PropOrder)
  BY ValidFacts DEF IsModel
<1> HIDE DEF S
<1>3. /\ Declared(S) = {PropOrder[i] : i \in ReadBack(t, state.ignore, state.props)}
      /\ \A n \in Declared(S) : ByName(S)[n].value = t[n]
  BY <1>1, PropsRead
<1>4. \A n \in Declared(S) : n \in ToSet(PropOrder) /\ n \in DOMAIN t
  BY <1>3 DEF ReadBack, ToSet
<1>5. \A n \in ToSet(PropOrder) :
         n \in Declared(S) \/ n \notin DOMAIN t \/ ~Visible(n, state.ignore, state.props)
  BY <1>3 DEF ReadBack, ToSet
<1>6. \/ \E n \in EffectivePlan(P, G) :
            ~ IF n \in EffectiveState(S, P, G)
              THEN PropValueEqual(ByName(S)[n].value, ByName(P)[n].value, ByName(P)[n].type)
              ELSE n \in AutoIgnoredProps
      \/ \E n \in EffectiveState(S, P, G) : n \notin EffectivePlan(P, G)
  BY DEF PropChangesAllowed, S
<1>7. ASSUME NEW n \in EffectivePlan(P, G), n \in EffectiveState(S, P, G),
             ~PropValueEqual(ByName(S)[n].value, ByName(P)[n].value, ByName(P)[n].type)
      PROVE  \E x \in ToSet(PropOrder) : DiffersFromTable(x)
  <2>1. n \in Declared(P) /\ n \notin G /\ n \in Declared(S)
    BY <1>7 DEF EffectivePlan, EffectiveState
  <2>2. ~SameValue(ByName(P)[n], t[n])
    BY <1>3, <1>7, <2>1, ToldApart
  <2>3. DiffersFromTable(n)
    BY <2>1, <2>2 DEF DiffersFromTable
  <2> QED
    BY <1>2, <2>1, <2>3
<1>8. ASSUME NEW n \in EffectivePlan(P, G), n \notin EffectiveState(S, P, G),
             n \notin AutoIgnoredProps
      PROVE  \E x \in ToSet(PropOrder) : DiffersFromTable(x)
  <2>1. n \in Declared(P) /\ n \notin G /\ n \in ToSet(PropOrder)
    BY <1>2 DEF EffectivePlan
  <2>2. n \notin Declared(S)
    BY <1>8, <2>1 DEF EffectiveState
  <2>3. n \notin DOMAIN t \/ n = "format-version" \/ n \in state.ignore
    BY <1>5, <1>8, <2>1, <2>2 DEF Visible
  <2>4. DiffersFromTable(n)
    BY <2>1, <2>3 DEF DiffersFromTable
  <2> QED
    BY <2>1, <2>4
<1>9. ASSUME NEW n \in EffectiveState(S, P, G), n \notin EffectivePlan(P, G)
      PROVE  \E x \in ToSet(PropOrder) : DiffersFromTable(x)
  <2>1. n \in Declared(S) /\ n \notin G /\ n \notin Declared(P) /\ n \notin AutoIgnoredProps
    BY <1>9 DEF EffectiveState, EffectivePlan
  <2>2. n \in ToSet(PropOrder) /\ n \in DOMAIN t
    BY <1>4, <2>1
  <2>3. DiffersFromTable(n)
    BY <2>1, <2>2 DEF DiffersFromTable
  <2> QED
    BY <2>2, <2>3
<1> QED
  BY <1>6, <1>7, <1>8, <1>9

(* An update that is refused although no column changes is refused for a   *)
(* property that the table has not, or not with this value.                *)
THEOREM RefusalExplained == Spec => RefusalHasReason
<1>1. ASSUME Inv, Next, Ran, outcome' = "refused",
             Added(Refreshed) \cup Changed(Refreshed) = {}
      PROVE  \E n \in ToSet(PropOrder) : DiffersFromTable(n)
  <2> DEFINE R == Refreshed
  <2>1. Apply
    BY <1>1, OnlyRuns
  <2>2. ApplyRefused
    BY <1>1, <2>1, Ends, UpdateEnds
  <2>3. Updates(R) /\ ~Staged(R)
    BY <2>2 DEF ApplyRefused
  <2>4. Valid /\ R # Absent
    BY <2>3 DEF Updates
  <2>5. Added(R) = {} /\ Changed(R) = {}
    BY <1>1
  <2>6. ~PropChangesAllowed(R.props, config.props, config.ignore)
    <3> HIDE DEF R
    <3> QED
      BY <2>3, <2>5 DEF Staged, Convertible, NestedRefused, Widens
  <2>7. R = Refreshed
    OBVIOUS
  <2> HIDE DEF R
  <2> QED
    BY <1>1, <2>4, <2>6, <2>7, RefusedDiffers
<1>2. Inv /\ [Next]_vars =>
        [Ran /\ outcome' = "refused" /\ Added(Refreshed) \cup Changed(Refreshed) = {}
         => \E n \in ToSet(PropOrder) : DiffersFromTable(n)]_vars
  BY <1>1
<1> QED
  BY <1>2, Invariant, PTL DEF Spec, RefusalHasReason
==============================================================================
