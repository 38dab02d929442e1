-------------------------- MODULE S3Schema_proofs ---------------------------
(***************************************************************************)
(* What the numbering of nested IDs gives for every list of fields: the    *)
(* IDs that resolveNestedIDs and fillMissingNestedIDs make up are distinct *)
(* from each other, from the pinned ones and from the columns', nothing    *)
(* but IDs is changed, and what is completed as told is valid.             *)
(***************************************************************************)
EXTENDS S3Schema, Selection_proofs

(* The largest element of a finite set of integers.                        *)
LEMMA MaxFacts ==
  ASSUME NEW S \in SUBSET Int, IsFiniteSet(S), S # {}
  PROVE  Max(S) \in S /\ Max(S) \in Int /\ \A x \in S : x <= Max(S)
<1> DEFINE n == Cardinality(S)
           m == Nth(S, n)
<1>1. n \in Nat /\ n # 0
  BY FS_CardinalityType, FS_EmptySet
<1>2. m \in S /\ Rank(S, m) = n
  BY <1>1, NthInSet
<1>3. ASSUME NEW x \in S
      PROVE  x <= m
  <2>1. x \in Int /\ m \in Int
    BY <1>2
  <2>2. Rank(S, x) \in 1 .. n
    BY RankRange
  <2>3. m < x => n < Rank(S, x)
    BY <1>2, RankGrows
  <2> HIDE DEF m, n
  <2> QED
    BY <1>1, <2>1, <2>2, <2>3
<1>4. \E x \in S : \A y \in S : x >= y
  <2>1. \A y \in S : m \in Int /\ y \in Int /\ m >= y
    <3> SUFFICES ASSUME NEW y \in S
                 PROVE  m \in Int /\ y \in Int /\ m >= y
      OBVIOUS
    <3>1. m \in Int /\ y \in Int /\ y <= m
      BY <1>2, <1>3
    <3> HIDE DEF m
    <3> QED
      BY <3>1
  <2> QED
    BY <1>2, <2>1
<1>5. Max(S) \in S /\ \A y \in S : Max(S) >= y
  BY <1>4 DEF Max
<1>6. ASSUME NEW x \in S
      PROVE  x <= Max(S)
  <2>1. x \in Int /\ Max(S) \in Int /\ Max(S) >= x
    BY <1>5
  <2> QED
    BY <2>1
<1> QED
  BY <1>5, <1>6

(* The fresh numbers avoid what is taken and are distinct.                 *)
LEMMA FreshNumbers ==
  ASSUME NEW n \in Nat, NEW taken, IsFiniteSet(taken)
  PROVE  /\ IsList(FirstFree(n, taken)) /\ Len(FirstFree(n, taken)) = n
         /\ DOMAIN FirstFree(n, taken) = 1 .. n
         /\ \A k \in 1 .. n : FirstFree(n, taken)[k] \in Int /\ FirstFree(n, taken)[k] > 0
                              /\ FirstFree(n, taken)[k] \notin taken
         /\ \A k, l \in 1 .. n : FirstFree(n, taken)[k] = FirstFree(n, taken)[l] => k = l
<1> DEFINE f == FirstFree(n, taken)
           t == Cardinality(taken)
           A == 1 .. n + t
           S == A \ taken
<1>1. t \in Nat /\ n + t \in Nat
  BY FS_CardinalityType
<1>2. IsFiniteSet(A) /\ Cardinality(A) = n + t
  BY <1>1, FS_Interval
<1>3. Cardinality(A \cap taken) <= t /\ IsFiniteSet(A \cap taken)
  BY FS_Intersection
<1>4. IsFiniteSet(S) /\ Cardinality(S) = n + t - Cardinality(A \cap taken)
  <2> HIDE DEF A
  <2>1. IsFiniteSet(A \ taken) /\ Cardinality(A \ taken) = Cardinality(A) - Cardinality(A \cap taken)
    BY <1>2, FS_Difference
  <2>2. S = A \ taken
    OBVIOUS
  <2> HIDE DEF S, t
  <2>3. Cardinality(A \cap taken) \in Nat
    BY <1>3, FS_CardinalityType
  <2>4. Cardinality(S) = Cardinality(A) - Cardinality(A \cap taken) /\ IsFiniteSet(S)
    BY <2>1, <2>2
  <2> QED
    BY <1>1, <1>2, <2>3, <2>4
<1>5. Cardinality(A \cap taken) \in Nat /\ Cardinality(S) \in Nat
  BY <1>3, <1>4, FS_CardinalityType
<1>6. S \in SUBSET Int /\ \A x \in S : x \in Int /\ x > 0 /\ x \notin taken
  BY <1>1
<1>7. DOMAIN f = 1 .. n /\ \A k \in 1 .. n : f[k] = Nth(S, k)
  BY DEF FirstFree
<1>8. f = [i \in 1 .. n |-> f[i]]
  BY DEF FirstFree
<1>9. IsList(f) /\ Len(f) = n
  BY <1>7, <1>8, FunctionIsList
<1> HIDE DEF f, S, A, t
<1>10. n <= Cardinality(S)
  BY <1>1, <1>3, <1>4, <1>5
<1>11. \A k \in 1 .. n : k \in 1 .. Cardinality(S)
  BY <1>5, <1>10
<1>12. \A k \in 1 .. n : f[k] \in S /\ Rank(S, f[k]) = k
  BY <1>4, <1>6, <1>7, <1>11, NthInSet
<1>13. \A k, l \in 1 .. n : f[k] = f[l] => k = l
  BY <1>12
<1> QED
  BY <1>6, <1>7, <1>9, <1>12, <1>13 DEF f
------------------------------------------------------------------------------
(* A place is a pair of numbers; places are counted in their order.        *)
ArePlaces(P) == IsFiniteSet(P) /\ P \subseteq Int \X Int

Before(q, p) == q[1] < p[1] \/ (q[1] = p[1] /\ q[2] <= p[2])

LEMMA BeforeOrder ==
  ASSUME NEW p \in Int \X Int, NEW q \in Int \X Int
  PROVE  /\ Before(p, p)
         /\ Before(p, q) \/ Before(q, p)
         /\ Before(p, q) /\ Before(q, p) => p = q
         /\ \A r \in Int \X Int : Before(r, p) /\ Before(p, q) => Before(r, q)
<1>1. /\ p[1] \in Int /\ p[2] \in Int /\ q[1] \in Int /\ q[2] \in Int
      /\ p = <<p[1], p[2]>> /\ q = <<q[1], q[2]>>
  OBVIOUS
<1>2. \A r \in Int \X Int : r[1] \in Int /\ r[2] \in Int
  OBVIOUS
<1> QED
  BY <1>1, <1>2 DEF Before

LEMMA NumberFacts ==
  ASSUME NEW P, ArePlaces(P)
  PROVE  /\ Cardinality(P) \in Nat
         /\ \A p \in P : Number(P, p) \in 1 .. Cardinality(P)
         /\ \A p, q \in P : Number(P, p) = Number(P, q) => p = q
<1> DEFINE upto(p) == {q \in P : q[1] < p[1] \/ (q[1] = p[1] /\ q[2] <= p[2])}
<1>0. Cardinality(P) \in Nat /\ \A p \in P : p \in Int \X Int
  BY FS_CardinalityType DEF ArePlaces
<1>1. ASSUME NEW p \in P
      PROVE  /\ IsFiniteSet(upto(p)) /\ Cardinality(upto(p)) \in Nat
             /\ Cardinality(upto(p)) <= Cardinality(P)
             /\ Number(P, p) = Cardinality(upto(p))
             /\ upto(p) = {q \in P : Before(q, p)}
  <2>1. upto(p) \in SUBSET P /\ IsFiniteSet(P)
    BY DEF ArePlaces
  <2>2. IsFiniteSet(upto(p)) /\ Cardinality(upto(p)) <= Cardinality(P)
    BY <2>1, FS_Subset
  <2> QED
    BY <2>2, FS_CardinalityType DEF Number, Before
<1> HIDE DEF upto
<1>2. ASSUME NEW p \in P
      PROVE  Number(P, p) \in 1 .. Cardinality(P)
  <2>1. p \in upto(p)
    BY <1>0, <1>1, BeforeOrder
  <2>2. upto(p) # {}
    BY <2>1
  <2>3. Cardinality(upto(p)) # 0
    BY <1>1, <2>2, FS_EmptySet
  <2> QED
    BY <1>0, <1>1, <2>3
<1>3. ASSUME NEW p \in P, NEW q \in P, Before(p, q), Number(P, p) = Number(P, q)
      PROVE  p = q
  <2>1. upto(p) \subseteq upto(q)
    BY <1>0, <1>1, <1>3, BeforeOrder
  <2>2. upto(p) = upto(q)
    BY <1>1, <1>3, <2>1, FS_Subset
  <2>3. q \in upto(p)
    BY <1>0, <1>1, <2>2, BeforeOrder
  <2>4. Before(q, p)
    BY <1>1, <2>3
  <2> QED
    BY <1>0, <1>3, <2>4, BeforeOrder
<1>4. ASSUME NEW p \in P, NEW q \in P, Number(P, p) = Number(P, q)
      PROVE  p = q
  <2>1. Before(p, q) \/ Before(q, p)
    BY <1>0, BeforeOrder
  <2> QED
    BY <1>3, <1>4, <2>1
<1> QED
  BY <1>0, <1>2, <1>4
------------------------------------------------------------------------------
(* Fields of a model and columns of a table both have blocks.              *)
HasBlocks(fs) ==
  /\ IsList(fs)
  /\ \A i \in DOMAIN fs : /\ fs[i] = [x \in DOMAIN fs[i] |-> fs[i][x]]
                          /\ "block" \in DOMAIN fs[i] /\ IsBlock(fs[i].block)
IsFields(fs) == IsList(fs) /\ \A i \in DOMAIN fs : IsField(fs[i])

LEMMA FieldsHaveBlocks ==
  ASSUME NEW fs, IsFields(fs)
  PROVE  HasBlocks(fs)
<1>1. ASSUME NEW f, IsField(f)
      PROVE  /\ f = [x \in DOMAIN f |-> f[x]]
             /\ "block" \in DOMAIN f /\ IsBlock(f.block)
  <2>1. f = [name |-> f.name, type |-> f.type, block |-> f.block, attrs |-> f.attrs,
             defaults |-> f.defaults]
    BY <1>1 DEF IsField
  <2>2. "block" \in DOMAIN f
    BY <2>1
  <2>3. f = [x \in DOMAIN f |-> f[x]]
    BY <2>1
  <2> QED
    BY <1>1, <2>2, <2>3 DEF IsField
<1> QED
  BY <1>1 DEF IsFields, HasBlocks

LEMMA BlockFacts ==
  ASSUME NEW b, IsBlock(b)
  PROVE  /\ Len(b.ids) \in Nat /\ DOMAIN b.ids = 1 .. Len(b.ids)
         /\ DOMAIN b.parts = 1 .. Len(b.ids)
         /\ b.ids = [k \in DOMAIN b.ids |-> b.ids[k]]
         /\ b.kind = "none" => DOMAIN b.ids = {} /\ DOMAIN b.parts = {}
         /\ b.kind \in {"none", "list", "map", "struct"}
         /\ b.kind = "list" => Len(b.ids) = 1
         /\ b.kind = "map" => Len(b.ids) = 2
<1>1. /\ Len(b.ids) \in Nat /\ DOMAIN b.ids = 1 .. Len(b.ids)
      /\ DOMAIN b.parts = 1 .. Len(b.ids)
      /\ b.ids = [k \in 1 .. Len(b.ids) |-> b.ids[k]]
  BY ListDomain DEF IsBlock
<1>2. b.kind \in {"none", "list", "map", "struct"} /\ Len(b.ids) \in Arity[b.kind]
  BY DEF IsBlock, Arity
<1>3. /\ b.kind = "none" => Len(b.ids) = 0
      /\ b.kind = "list" => Len(b.ids) = 1
      /\ b.kind = "map" => Len(b.ids) = 2
  <2>1. Arity["none"] = {0} /\ Arity["list"] = {1} /\ Arity["map"] = {2}
    BY DEF Arity
  <2> QED
    BY <1>2, <2>1
<1> QED
  BY <1>1, <1>2, <1>3

LEMMA EmptyList ==
  ASSUME NEW s, IsList(s), Len(s) = 0
  PROVE  s = <<>>
<1> DEFINE E == {s[i] : i \in DOMAIN s}
<1>1. s \in Seq(E)
  BY DEF IsList
<1> HIDE DEF E
<1> QED
  BY <1>1

LEMMA NoneIsNoBlock ==
  ASSUME NEW b, IsBlock(b), b.kind = "none"
  PROVE  b = NoBlock
<1>1. IsList(b.ids) /\ IsList(b.parts) /\ Len(b.ids) = 0 /\ Len(b.parts) = 0
  BY DEF IsBlock, Arity
<1>2. b.ids = <<>> /\ b.parts = <<>>
  BY <1>1, EmptyList
<1> QED
  BY <1>2 DEF IsBlock, NoBlock

LEMMA PlacesFacts ==
  ASSUME NEW fs, HasBlocks(fs)
  PROVE  /\ ArePlaces(Places(fs)) /\ ArePlaces(Slots(fs))
         /\ \A p \in Places(fs) :
               /\ p = <<p[1], p[2]>> /\ p[1] \in DOMAIN fs /\ p[2] \in DOMAIN fs[p[1]].block.ids
               /\ ID(fs, p) \in Int \cup {Null}
         /\ \A i \in DOMAIN fs : \A k \in DOMAIN fs[i].block.ids :
               <<i, k>> \in Places(fs) /\ ID(fs, <<i, k>>) = fs[i].block.ids[k]
         /\ Slots(fs) \subseteq Places(fs)
         /\ IsFiniteSet(Pinned(fs)) /\ Pinned(fs) \in SUBSET Int
         /\ \A p \in Places(fs) : ID(fs, p) # Null => ID(fs, p) \in Pinned(fs)
<1>1. DOMAIN fs = 1 .. Len(fs) /\ Len(fs) \in Nat
  BY ListDomain DEF HasBlocks
<1>2. \A i \in DOMAIN fs : /\ DOMAIN fs[i].block.ids = 1 .. Len(fs[i].block.ids)
                           /\ Len(fs[i].block.ids) \in Nat
  BY BlockFacts DEF HasBlocks
<1> DEFINE at(i) == {i} \X DOMAIN fs[i].block.ids
           S == {at(i) : i \in DOMAIN fs}
<1>3. \A p : p \in Places(fs) <=> \E i \in DOMAIN fs : p \in at(i)
  BY DEF Places
<1>4. ASSUME NEW p \in Places(fs)
      PROVE  /\ p = <<p[1], p[2]>> /\ p[1] \in DOMAIN fs
             /\ p[2] \in DOMAIN fs[p[1]].block.ids
             /\ ID(fs, p) \in Int \cup {Null}
             /\ p \in Int \X Int
  <2>1. PICK i \in DOMAIN fs : p \in at(i)
    BY <1>3
  <2>2. PICK k \in DOMAIN fs[i].block.ids : p = <<i, k>>
    BY <2>1
  <2>3. i \in Int /\ k \in Int
    BY <1>1, <1>2
  <2>4. fs[i].block.ids[k] \in Int \cup {Null}
    BY DEF HasBlocks, IsBlock
  <2> QED
    BY <2>2, <2>3, <2>4 DEF ID
<1>5. \A i \in DOMAIN fs : \A k \in DOMAIN fs[i].block.ids :
         <<i, k>> \in Places(fs) /\ ID(fs, <<i, k>>) = fs[i].block.ids[k]
  BY <1>3 DEF ID
<1>6. IsFiniteSet(Places(fs))
  <2>1. \A i \in DOMAIN fs : IsFiniteSet(at(i))
    <3> SUFFICES ASSUME NEW i \in DOMAIN fs
                 PROVE  IsFiniteSet(at(i))
      OBVIOUS
    <3> DEFINE D == DOMAIN fs[i].block.ids
    <3>0. IsFiniteSet({i})
      BY FS_Singleton
    <3>1. IsFiniteSet(D)
      BY <1>2, FS_Interval
    <3> DEFINE I == {i}
    <3>2. IsFiniteSet(I)
      BY <3>0
    <3> HIDE DEF D, I
    <3>3. IsFiniteSet(I \X D)
      BY <3>1, <3>2, FS_Product
    <3> QED
      BY <3>3 DEF D, I
  <2> DEFINE g == [i \in DOMAIN fs |-> at(i)]
  <2>2. g \in Surjection(DOMAIN fs, S)
    BY DEF Surjection
  <2>3. IsFiniteSet(DOMAIN fs)
    BY <1>1, FS_Interval
  <2>4. IsFiniteSet(S)
    BY <2>2, <2>3, FS_Surjection
  <2>5. \A T \in S : IsFiniteSet(T)
    BY <2>1
  <2>6. Places(fs) = UNION S
    BY DEF Places
  <2> HIDE DEF S
  <2> QED
    BY <2>4, <2>5, <2>6, FS_UNION
<1>7. Slots(fs) \subseteq Places(fs)
  BY DEF Slots
<1>8. IsFiniteSet(Slots(fs))
  BY <1>6, <1>7, FS_Subset
<1>9. IsFiniteSet(Pinned(fs))
  <2> DEFINE T == {ID(fs, p) : p \in Places(fs)}
             g == [p \in Places(fs) |-> ID(fs, p)]
  <2>1. g \in Surjection(Places(fs), T)
    BY DEF Surjection
  <2>2. IsFiniteSet(T)
    BY <1>6, <2>1, FS_Surjection
  <2>3. Pinned(fs) \in SUBSET T
    BY DEF Pinned
  <2> HIDE DEF T
  <2> QED
    BY <2>2, <2>3, FS_Subset
<1>10. Pinned(fs) \in SUBSET Int /\ \A p \in Places(fs) : ID(fs, p) # Null => ID(fs, p) \in Pinned(fs)
  BY <1>4 DEF Pinned
<1> QED
  BY <1>4, <1>5, <1>6, <1>7, <1>8, <1>9, <1>10 DEF ArePlaces
------------------------------------------------------------------------------
(* Two lists that are the same but for the IDs.                            *)
Alike(fs, gs) ==
  /\ Len(gs) = Len(fs)
  /\ \A i \in DOMAIN fs :
        /\ DOMAIN gs[i] = DOMAIN fs[i]
        /\ \A x \in DOMAIN fs[i] \ {"block"} : gs[i][x] = fs[i][x]
        /\ gs[i].block.kind = fs[i].block.kind
        /\ gs[i].block.parts = fs[i].block.parts

LEMMA AlikePlaces ==
  ASSUME NEW fs, HasBlocks(fs), NEW gs, HasBlocks(gs), Alike(fs, gs)
  PROVE  /\ DOMAIN gs = DOMAIN fs
         /\ \A i \in DOMAIN fs : DOMAIN gs[i].block.ids = DOMAIN fs[i].block.ids
         /\ Places(gs) = Places(fs) /\ Slots(gs) = Slots(fs)
<1>1. DOMAIN gs = DOMAIN fs
  BY ListDomain DEF HasBlocks, Alike
<1>2. ASSUME NEW i \in DOMAIN fs
      PROVE  DOMAIN gs[i].block.ids = DOMAIN fs[i].block.ids
  <2>1. IsBlock(fs[i].block) /\ IsBlock(gs[i].block) /\ gs[i].block.parts = fs[i].block.parts
    BY <1>1 DEF HasBlocks, Alike
  <2>2. DOMAIN gs[i].block.ids = DOMAIN gs[i].block.parts
        /\ DOMAIN fs[i].block.ids = DOMAIN fs[i].block.parts
    BY <2>1, BlockFacts
  <2> QED
    BY <2>1, <2>2
<1>3. Places(gs) = Places(fs)
  <2>1. \A i \in DOMAIN fs : {i} \X DOMAIN gs[i].block.ids = {i} \X DOMAIN fs[i].block.ids
    BY <1>2
  <2> QED
    BY <1>1, <2>1 DEF Places
<1>4. \A i \in DOMAIN fs : HasSlots(gs[i].block) = HasSlots(fs[i].block)
  BY DEF Alike, HasSlots
<1>5. \A p \in Places(fs) : p[1] \in DOMAIN fs
  BY PlacesFacts
<1>6. Slots(gs) = Slots(fs)
  BY <1>3, <1>4, <1>5 DEF Slots
<1> QED
  BY <1>1, <1>2, <1>3, <1>6

LEMMA AlikeEqual ==
  ASSUME NEW fs, HasBlocks(fs), NEW gs, HasBlocks(gs), Alike(fs, gs),
         \A p \in Places(fs) : ID(gs, p) = ID(fs, p)
  PROVE  gs = fs
<1>1. /\ DOMAIN gs = DOMAIN fs
      /\ \A i \in DOMAIN fs : DOMAIN gs[i].block.ids = DOMAIN fs[i].block.ids
  BY AlikePlaces
<1>2. ASSUME NEW i \in DOMAIN fs
      PROVE  gs[i] = fs[i]
  <2> DEFINE a == fs[i].block
             b == gs[i].block
  <2>1. IsBlock(a) /\ IsBlock(b) /\ b.kind = a.kind /\ b.parts = a.parts
    BY <1>1 DEF HasBlocks, Alike
  <2>2. \A k \in DOMAIN a.ids : b.ids[k] = a.ids[k]
    <3>1. \A k \in DOMAIN a.ids : /\ <<i, k>> \in Places(fs)
                                  /\ ID(fs, <<i, k>>) = a.ids[k]
      BY PlacesFacts
    <3>2. \A k \in DOMAIN a.ids : ID(gs, <<i, k>>) = b.ids[k]
      BY DEF ID
    <3> QED
      BY <3>1, <3>2
  <2>3. DOMAIN b.ids = DOMAIN a.ids
    BY <1>1
  <2> HIDE DEF a, b
  <2>4. b.ids = a.ids
    <3>1. IsList(a.ids) /\ IsList(b.ids)
      BY <2>1 DEF IsBlock
    <3>2. DOMAIN a.ids = 1 .. Len(a.ids) /\ DOMAIN b.ids = 1 .. Len(b.ids)
          /\ Len(a.ids) \in Nat /\ Len(b.ids) \in Nat
      BY <3>1, ListDomain
    <3>3. Len(a.ids) = Len(b.ids)
      BY <3>2, <2>3
    <3> QED
      BY <2>2, <3>1, <3>2, <3>3, ListsEqual
  <2>5. b = a
    BY <2>1, <2>4 DEF IsBlock
  <2>6. gs[i].block = fs[i].block
    BY <2>5 DEF a, b
  <2>7. DOMAIN gs[i] = DOMAIN fs[i] /\ \A x \in DOMAIN fs[i] : gs[i][x] = fs[i][x]
    BY <2>6 DEF Alike
  <2>8. gs[i] = [x \in DOMAIN gs[i] |-> gs[i][x]] /\ fs[i] = [x \in DOMAIN fs[i] |-> fs[i][x]]
    BY <1>1 DEF HasBlocks
  <2> QED
    BY <2>7, <2>8
<1>3. IsList(fs) /\ IsList(gs) /\ Len(fs) = Len(gs)
  BY DEF HasBlocks, Alike
<1>4. DOMAIN fs = 1 .. Len(fs)
  BY <1>3, ListDomain
<1> QED
  BY <1>2, <1>3, <1>4, ListsEqual

LEMMA AlikeFields ==
  ASSUME NEW fs, IsFields(fs), NEW gs, HasBlocks(gs), Alike(fs, gs)
  PROVE  /\ IsFields(gs)
         /\ \A i \in DOMAIN fs : /\ gs[i].name = fs[i].name /\ gs[i].type = fs[i].type
                                 /\ gs[i].attrs = fs[i].attrs /\ gs[i].defaults = fs[i].defaults
<1>1. DOMAIN gs = DOMAIN fs
  BY FieldsHaveBlocks, AlikePlaces
<1>2. ASSUME NEW i \in DOMAIN fs
      PROVE  /\ IsField(gs[i])
             /\ gs[i].name = fs[i].name /\ gs[i].type = fs[i].type
             /\ gs[i].attrs = fs[i].attrs /\ gs[i].defaults = fs[i].defaults
  <2> DEFINE f == fs[i]
             g == gs[i]
  <2>1. /\ IsField(f) /\ IsBlock(g.block)
        /\ g = [x \in DOMAIN g |-> g[x]] /\ DOMAIN g = DOMAIN f
        /\ \A x \in DOMAIN f \ {"block"} : g[x] = f[x]
    BY <1>1 DEF IsFields, HasBlocks, Alike
  <2> HIDE DEF f, g
  <2>2. DOMAIN f = {"name", "type", "block", "attrs", "defaults"}
    BY <2>1 DEF IsField
  <2>3. g = [name |-> g.name, type |-> g.type, block |-> g.block, attrs |-> g.attrs,
             defaults |-> g.defaults]
    BY <2>1, <2>2
  <2>4. g.name = f.name /\ g.type = f.type /\ g.attrs = f.attrs /\ g.defaults = f.defaults
    BY <2>1, <2>2
  <2>5. IsField(g)
    BY <2>1, <2>3, <2>4 DEF IsField
  <2> QED
    BY <2>4, <2>5 DEF f, g
<1> QED
  BY <1>1, <1>2 DEF IsFields, HasBlocks

LEMMA WithIDsFacts ==
  ASSUME NEW fs, HasBlocks(fs), NEW ids, \A p \in Places(fs) : ids[p] \in Int \cup {Null},
         NEW gs, gs = WithIDs(fs, ids)
  PROVE  /\ HasBlocks(gs) /\ Alike(fs, gs)
         /\ Places(gs) = Places(fs) /\ Slots(gs) = Slots(fs)
         /\ \A p \in Places(fs) : ID(gs, p) = ids[p]
<1> DEFINE nums(i) == [k \in DOMAIN fs[i].block.ids |-> ids[<<i, k>>]]
<1>1. DOMAIN fs = 1 .. Len(fs) /\ Len(fs) \in Nat
  BY ListDomain DEF HasBlocks
<1>2. DOMAIN gs = DOMAIN fs /\ \A i \in DOMAIN fs : gs[i] = [fs[i] EXCEPT !.block.ids = nums(i)]
  BY DEF WithIDs
<1>3. IsList(gs) /\ Len(gs) = Len(fs)
  <2>1. gs = [i \in 1 .. Len(fs) |-> gs[i]]
    BY <1>1 DEF WithIDs
  <2> QED
    BY <1>1, <1>2, <2>1, FunctionIsList
<1>4. ASSUME NEW i \in DOMAIN fs
      PROVE  /\ gs[i] = [x \in DOMAIN gs[i] |-> gs[i][x]]
             /\ DOMAIN gs[i] = DOMAIN fs[i]
             /\ "block" \in DOMAIN fs[i]
             /\ \A x \in DOMAIN fs[i] \ {"block"} : gs[i][x] = fs[i][x]
             /\ gs[i].block.kind = fs[i].block.kind
             /\ gs[i].block.parts = fs[i].block.parts
             /\ gs[i].block.ids = nums(i)
             /\ IsBlock(gs[i].block)
  <2> DEFINE f == fs[i]
             a == f.block
             n == nums(i)
             g == gs[i]
             b == [a EXCEPT !.ids = n]
  <2>1. IsBlock(a) /\ "block" \in DOMAIN f
    BY DEF HasBlocks
  <2>2. g = [f EXCEPT !.block = b]
    BY <1>2
  <2>3. DOMAIN n = DOMAIN a.ids /\ \A k \in DOMAIN a.ids : n[k] \in Int \cup {Null}
    <3>1. \A k \in DOMAIN a.ids : <<i, k>> \in Places(fs)
      BY PlacesFacts
    <3> QED
      BY <3>1
  <2>4. IsList(n) /\ Len(n) = Len(a.ids)
    <3>1. DOMAIN a.ids = 1 .. Len(a.ids) /\ Len(a.ids) \in Nat
      BY <2>1, BlockFacts
    <3>2. n = [k \in 1 .. Len(a.ids) |-> n[k]]
      BY <3>1
    <3> HIDE DEF n, a
    <3> QED
      BY <2>3, <3>1, <3>2, FunctionIsList
  <2> HIDE DEF n, f, a, g
  <2>5. a = [kind |-> a.kind, ids |-> a.ids, parts |-> a.parts]
    BY <2>1 DEF IsBlock
  <2>6. b = [kind |-> a.kind, ids |-> n, parts |-> a.parts]
    BY <2>5
  <2>7. b.kind = a.kind /\ b.parts = a.parts /\ b.ids = n
    BY <2>6
  <2>8. b = [kind |-> b.kind, ids |-> b.ids, parts |-> b.parts]
    BY <2>6
  <2> HIDE DEF b
  <2>9. IsBlock(b)
    <3>1. /\ a.kind \in DOMAIN Arity /\ IsList(a.parts) /\ Len(a.ids) = Len(a.parts)
          /\ Len(a.ids) \in Arity[a.kind]
          /\ \A k \in DOMAIN a.parts :
                LET q == a.parts[k] IN q = [name |-> q.name, type |-> q.type] /\ IsType(q.type)
      BY <2>1 DEF IsBlock
    <3> QED
      BY <2>3, <2>4, <2>7, <2>8, <3>1 DEF IsBlock
  <2>10. /\ g = [x \in DOMAIN g |-> g[x]] /\ DOMAIN g = DOMAIN f
         /\ \A x \in DOMAIN f \ {"block"} : g[x] = f[x]
         /\ g.block = b
    BY <2>1, <2>2
  <2> QED
    BY <2>1, <2>7, <2>9, <2>10 DEF f, a, g, n
<1> HIDE DEF nums
<1>5. HasBlocks(gs)
  BY <1>2, <1>3, <1>4 DEF HasBlocks
<1>6. Alike(fs, gs)
  BY <1>3, <1>4 DEF Alike
<1>7. ASSUME NEW p \in Places(fs)
      PROVE  ID(gs, p) = ids[p]
  <2>1. p = <<p[1], p[2]>> /\ p[1] \in DOMAIN fs /\ p[2] \in DOMAIN fs[p[1]].block.ids
    BY PlacesFacts
  <2>2. ID(gs, p) = nums(p[1])[p[2]]
    BY <1>4, <2>1 DEF ID
  <2>3. nums(p[1])[p[2]] = ids[<<p[1], p[2]>>]
    BY <2>1 DEF nums
  <2> QED
    BY <2>1, <2>2, <2>3
<1> QED
  BY <1>5, <1>6, <1>7, AlikePlaces
------------------------------------------------------------------------------
(* Where pins are, they stay.                                              *)
KeepsPins(fs, gs) == \A p \in Places(fs) : ID(fs, p) \in {Null, ID(gs, p)}

LEMMA SlotsOfGiven ==
  ASSUME NEW fs, HasBlocks(fs), \A i \in DOMAIN fs : TypeGiven(fs[i])
  PROVE  Slots(fs) = Places(fs)
<1>1. ASSUME NEW i \in DOMAIN fs, DOMAIN fs[i].block.ids # {}
      PROVE  HasSlots(fs[i].block)
  <2> DEFINE b == fs[i].block
  <2>1. IsBlock(b) /\ DOMAIN b.ids # {}
    BY <1>1 DEF HasBlocks
  <2>2. b.kind # "struct" => \A k \in DOMAIN b.parts : b.parts[k].type # NoType
    BY DEF TypeGiven
  <2> HIDE DEF b
  <2>3. DOMAIN b.parts = DOMAIN b.ids /\ DOMAIN b.ids = 1 .. Len(b.ids) /\ Len(b.ids) \in Nat
        /\ b.kind \in {"none", "list", "map", "struct"}
        /\ (b.kind = "list" => Len(b.ids) = 1) /\ (b.kind = "map" => Len(b.ids) = 2)
    BY <2>1, BlockFacts
  <2>4. ASSUME b.kind \in {"list", "map"}
        PROVE  1 \in DOMAIN b.parts
    <3>1. Len(b.ids) = 1 \/ Len(b.ids) = 2
      BY <2>3, <2>4
    <3>2. 1 \in 1 .. Len(b.ids)
      BY <3>1
    <3> QED
      BY <2>3, <3>2
  <2>5. HasSlots(b)
    BY <2>2, <2>4 DEF HasSlots
  <2> QED
    BY <2>5 DEF b
<1>2. \A p \in Places(fs) : p[1] \in DOMAIN fs /\ p[2] \in DOMAIN fs[p[1]].block.ids
  BY PlacesFacts
<1> QED
  BY <1>1, <1>2 DEF Slots

LEMMA AlikeGiven ==
  ASSUME NEW fs, IsFields(fs), NEW gs, HasBlocks(gs), Alike(fs, gs)
  PROVE  \A i \in DOMAIN fs : TypeGiven(gs[i]) = TypeGiven(fs[i])
<1>1. \A i \in DOMAIN fs : /\ gs[i].type = fs[i].type /\ gs[i].block.kind = fs[i].block.kind
                           /\ gs[i].block.parts = fs[i].block.parts
  BY AlikeFields DEF Alike
<1> QED
  BY <1>1 DEF TypeGiven

(* Numbered after the columns.                                             *)
LEMMA AutoAssignedFacts ==
  ASSUME NEW fs, HasBlocks(fs), NEW gs, gs = AutoAssigned(fs)
  PROVE  /\ HasBlocks(gs) /\ Alike(fs, gs) /\ Slots(gs) = Slots(fs) /\ Places(gs) = Places(fs)
         /\ \A p \in Slots(fs) : ID(gs, p) \in Int /\ ID(gs, p) > Len(fs)
         /\ \A p \in Places(fs) \ Slots(fs) : ID(gs, p) = ID(fs, p)
         /\ \A p, q \in Slots(fs) : ID(gs, p) = ID(gs, q) => p = q
<1> DEFINE n == Len(fs)
           num(p) == n + Number(Slots(fs), p)
           ids == [p \in Places(fs) |-> IF p \in Slots(fs) THEN num(p) ELSE ID(fs, p)]
<1>1. n \in Nat
  BY ListDomain DEF HasBlocks
<1>2. ArePlaces(Slots(fs)) /\ Slots(fs) \subseteq Places(fs)
      /\ \A p \in Places(fs) : ID(fs, p) \in Int \cup {Null}
  BY PlacesFacts
<1>3. /\ Cardinality(Slots(fs)) \in Nat
      /\ \A p \in Slots(fs) : Number(Slots(fs), p) \in 1 .. Cardinality(Slots(fs))
      /\ \A p, q \in Slots(fs) : Number(Slots(fs), p) = Number(Slots(fs), q) => p = q
  BY <1>2, NumberFacts
<1>4. gs = WithIDs(fs, ids)
  BY DEF AutoAssigned
<1>5. /\ \A p \in Slots(fs) : num(p) \in Int /\ num(p) > n
      /\ \A p, q \in Slots(fs) : num(p) = num(q) => p = q
  <2> HIDE DEF n
  <2> QED
    BY <1>1, <1>3
<1> HIDE DEF num
<1>6. /\ \A p \in Slots(fs) : ids[p] = num(p)
      /\ \A p \in Places(fs) \ Slots(fs) : ids[p] = ID(fs, p)
  BY <1>2
<1>7. \A p \in Places(fs) : ids[p] \in Int \cup {Null}
  BY <1>2, <1>5, <1>6
<1> HIDE DEF ids
<1>8. /\ HasBlocks(gs) /\ Alike(fs, gs) /\ Slots(gs) = Slots(fs) /\ Places(gs) = Places(fs)
      /\ \A p \in Places(fs) : ID(gs, p) = ids[p]
  BY <1>4, <1>7, WithIDsFacts
<1> QED
  BY <1>2, <1>5, <1>6, <1>8

LEMMA ResolvedFacts ==
  ASSUME NEW fs, IsFields(fs), NEW gs, gs = ResolveNestedIDs(fs)
  PROVE  /\ IsFields(gs) /\ Alike(fs, gs) /\ Unset(gs) = {}
         /\ Unset(fs) \in {{}, Slots(fs)} => KeepsPins(fs, gs)
<1>1. HasBlocks(fs)
  BY FieldsHaveBlocks
<1>2. CASE Unset(fs) = {}
  <2>1. gs = fs
    BY <1>2 DEF ResolveNestedIDs
  <2> QED
    BY <1>2, <2>1 DEF Alike, KeepsPins
<1>3. CASE Unset(fs) # {}
  <2>1. gs = AutoAssigned(fs)
    BY <1>3 DEF ResolveNestedIDs
  <2>2. /\ HasBlocks(gs) /\ Alike(fs, gs) /\ Slots(gs) = Slots(fs)
        /\ \A p \in Slots(fs) : ID(gs, p) \in Int
        /\ \A p \in Places(fs) \ Slots(fs) : ID(gs, p) = ID(fs, p)
    BY <1>1, <2>1, AutoAssignedFacts
  <2>3. Unset(gs) = {}
    BY <2>2, NullAssumption DEF Unset
  <2>4. Unset(fs) = Slots(fs) => KeepsPins(fs, gs)
    BY <2>2 DEF Unset, KeepsPins
  <2> QED
    BY <1>3, <2>2, <2>3, <2>4, AlikeFields
<1> QED
  BY <1>2, <1>3

(* A complete list of fields whose slots have distinct IDs is valid: the   *)
(* columns take what they leave.                                           *)
LEMMA CompleteIsValid ==
  ASSUME NEW fs, IsFields(fs), fs # <<>>, \A i \in DOMAIN fs : TypeGiven(fs[i]),
         Unset(fs) = {},
         \A p, q \in Slots(fs) : ID(fs, p) = ID(fs, q) => p = q
  PROVE  ValidateConfig(fs)
<1>1. HasBlocks(fs) /\ Len(fs) \in Nat
  BY FieldsHaveBlocks, ListDomain DEF IsFields
<1>2. /\ IsFiniteSet(Pinned(fs)) /\ Slots(fs) \subseteq Places(fs)
      /\ \A p \in Places(fs) : ID(fs, p) # Null => ID(fs, p) \in Pinned(fs)
  BY <1>1, PlacesFacts
<1> SUFFICES ASSUME Slots(fs) # {}
             PROVE  ValidateConfig(fs)
  BY DEF ValidateConfig, NestedIDsResolve, NestedIDsUnique
<1>3. FieldIDs(fs) = FirstFree(Len(fs), Pinned(fs))
  BY DEF FieldIDs
<1>4. ToSet(FieldIDs(fs)) \cap Pinned(fs) = {}
  <2>1. \A k \in DOMAIN FirstFree(Len(fs), Pinned(fs)) :
           FirstFree(Len(fs), Pinned(fs))[k] \notin Pinned(fs)
    BY <1>1, <1>2, FreshNumbers
  <2> QED
    BY <1>3, <2>1 DEF ToSet
<1>5. \A p \in Slots(fs) : ID(fs, p) \in Pinned(fs)
  BY <1>2 DEF Unset
<1>6. NestedIDsUnique(fs, FieldIDs(fs))
  BY <1>4, <1>5 DEF NestedIDsUnique
<1>7. NestedIDsResolve(fs)
  BY <1>6 DEF NestedIDsResolve
<1> QED
  BY <1>7 DEF ValidateConfig
------------------------------------------------------------------------------
(* What the error message tells to write.                                  *)
LEMMA FilledFacts ==
  ASSUME NEW fs, IsFields(fs), NEW gs, gs = FillMissingNestedIDs(fs)
  PROVE  /\ IsFields(gs) /\ Alike(fs, gs) /\ Places(gs) = Places(fs) /\ Slots(gs) = Slots(fs)
         /\ \A p \in ToFill(fs) : ID(gs, p) \in Int /\ ID(gs, p) \notin FillReserved(fs)
         /\ \A p \in Places(fs) \ ToFill(fs) : ID(gs, p) = ID(fs, p)
         /\ \A p, q \in ToFill(fs) : ID(gs, p) = ID(gs, q) => p = q
<1> DEFINE F == ToFill(fs)
           n == Cardinality(F)
           fresh == FirstFree(n, FillReserved(fs))
           ids == [p \in Places(fs) |-> IF p \in F THEN fresh[Number(F, p)] ELSE ID(fs, p)]
<1>1. HasBlocks(fs) /\ DOMAIN fs = 1 .. Len(fs) /\ Len(fs) \in Nat
  BY FieldsHaveBlocks, ListDomain DEF IsFields
<1>2. /\ ArePlaces(Places(fs)) /\ IsFiniteSet(Pinned(fs))
      /\ \A p \in Places(fs) : ID(fs, p) \in Int \cup {Null}
  BY <1>1, PlacesFacts
<1>3. F \subseteq Places(fs)
  BY DEF ToFill
<1>4. ArePlaces(F)
  <2> HIDE DEF F
  <2>1. IsFiniteSet(F)
    BY <1>2, <1>3, FS_Subset DEF ArePlaces
  <2> QED
    BY <1>2, <1>3, <2>1 DEF ArePlaces
<1> HIDE DEF F
<1>5. /\ n \in Nat /\ \A p \in F : Number(F, p) \in 1 .. n
      /\ \A p, q \in F : Number(F, p) = Number(F, q) => p = q
  BY <1>4, NumberFacts
<1>6. IsFiniteSet(FillReserved(fs))
  <2>1. IsFiniteSet(DOMAIN fs)
    BY <1>1, FS_Interval
  <2> QED
    BY <1>2, <2>1, FS_Union DEF FillReserved
<1> HIDE DEF n
<1>7. /\ \A k \in 1 .. n : fresh[k] \in Int /\ fresh[k] \notin FillReserved(fs)
      /\ \A k, l \in 1 .. n : fresh[k] = fresh[l] => k = l
  BY <1>5, <1>6, FreshNumbers
<1> HIDE DEF fresh
<1>8. /\ \A p \in F : ids[p] = fresh[Number(F, p)]
      /\ \A p \in Places(fs) \ F : ids[p] = ID(fs, p)
  BY <1>3
<1>9. gs = WithIDs(fs, ids)
  BY DEF FillMissingNestedIDs, F, n, fresh
<1> HIDE DEF ids
<1>10. \A p \in F : ids[p] \in Int /\ ids[p] \notin FillReserved(fs)
  BY <1>5, <1>7, <1>8
<1>11. \A p, q \in F : ids[p] = ids[q] => p = q
  BY <1>5, <1>7, <1>8
<1>12. \A p \in Places(fs) : ids[p] \in Int \cup {Null}
  BY <1>2, <1>8, <1>10
<1>13. /\ HasBlocks(gs) /\ Alike(fs, gs) /\ Places(gs) = Places(fs) /\ Slots(gs) = Slots(fs)
       /\ \A p \in Places(fs) : ID(gs, p) = ids[p]
  BY <1>1, <1>9, <1>12, WithIDsFacts
<1>14. IsFields(gs)
  BY <1>13, AlikeFields
<1>15. /\ \A p \in F : ID(gs, p) = ids[p]
       /\ \A p \in Places(fs) \ F : ID(gs, p) = ID(fs, p)
  BY <1>3, <1>8, <1>13
<1> QED
  BY <1>10, <1>11, <1>13, <1>14, <1>15 DEF F

(* fillMissingNestedIDs completes a configuration to a valid one without   *)
(* changing a pin, provided it gives its types and neither pins one ID     *)
(* twice nor half a map.                                                   *)
THEOREM CompletedIsValid ==
  ASSUME NEW fs, IsFields(fs), fs # <<>>, \A i \in DOMAIN fs : TypeGiven(fs[i]),
         \A i \in DOMAIN fs : ~IsHalfPinned(fs[i].block),
         \A p, q \in Slots(fs) \ Unset(fs) : ID(fs, p) = ID(fs, q) => p = q,
         NEW gs, gs = FillMissingNestedIDs(fs)
  PROVE  /\ ValidateConfig(gs) /\ KeepsPins(fs, gs) /\ \A p \in Places(fs) : ID(gs, p) \in Int
<1>1. HasBlocks(fs) /\ Slots(fs) = Places(fs)
  BY FieldsHaveBlocks, SlotsOfGiven
<1>2. /\ \A p \in Places(fs) :
            /\ p = <<p[1], p[2]>> /\ p[1] \in DOMAIN fs /\ p[2] \in DOMAIN fs[p[1]].block.ids
            /\ ID(fs, p) \in Int \cup {Null}
      /\ \A p \in Places(fs) : ID(fs, p) # Null => ID(fs, p) \in Pinned(fs)
  BY <1>1, PlacesFacts
<1>3. ASSUME NEW p \in Places(fs)
      PROVE  p \in ToFill(fs) <=> ID(fs, p) = Null
  <2> DEFINE b == fs[p[1]].block
  <2>1. IsBlock(b) /\ ~IsHalfPinned(b) /\ p[2] \in DOMAIN b.ids
    BY <1>1, <1>2 DEF HasBlocks
  <2>2. ID(fs, p) = b.ids[p[2]] /\ ID(fs, <<p[1], 1>>) = b.ids[1]
    BY DEF ID
  <2>3. p \in ToFill(fs) <=> IF b.kind = "map" THEN b.ids[1] = Null ELSE ID(fs, p) = Null
    BY <2>2 DEF ToFill
  <2> HIDE DEF b
  <2>4. CASE b.kind = "map"
    <3>1. p[2] \in 1 .. 2
      <4>1. DOMAIN b.ids = 1 .. Len(b.ids) /\ Len(b.ids) = 2
        BY <2>1, <2>4, BlockFacts
      <4> QED
        BY <2>1, <4>1
    <3>2. (b.ids[1] = Null) = (b.ids[2] = Null)
      BY <2>1, <2>4 DEF IsHalfPinned
    <3>3. p[2] = 1 \/ p[2] = 2
      BY <3>1
    <3> QED
      BY <2>2, <2>3, <2>4, <3>2, <3>3
  <2>5. CASE b.kind # "map"
    BY <2>3, <2>5
  <2> QED
    BY <2>4, <2>5
<1>4. /\ IsFields(gs) /\ Alike(fs, gs) /\ Places(gs) = Places(fs) /\ Slots(gs) = Slots(fs)
      /\ \A p \in ToFill(fs) : ID(gs, p) \in Int /\ ID(gs, p) \notin FillReserved(fs)
      /\ \A p \in Places(fs) \ ToFill(fs) : ID(gs, p) = ID(fs, p)
      /\ \A p, q \in ToFill(fs) : ID(gs, p) = ID(gs, q) => p = q
  BY FilledFacts
<1>5. ASSUME NEW p \in Places(fs)
      PROVE  ID(gs, p) \in Int /\ (ID(fs, p) # Null => ID(gs, p) = ID(fs, p))
  BY <1>2, <1>3, <1>4
<1>6. KeepsPins(fs, gs)
  BY <1>5 DEF KeepsPins
<1>7. Unset(gs) = {}
  BY <1>1, <1>4, <1>5, NullAssumption DEF Unset
<1>8. ASSUME NEW p \in Slots(gs), NEW q \in Slots(gs), ID(gs, p) = ID(gs, q)
      PROVE  p = q
  <2>1. p \in Places(fs) /\ q \in Places(fs)
    BY <1>1, <1>4, <1>8
  <2>2. CASE p \in ToFill(fs) /\ q \in ToFill(fs)
    BY <1>4, <1>8, <2>2
  <2>3. CASE p \in ToFill(fs) /\ q \notin ToFill(fs)
    <3>1. ID(gs, q) \in FillReserved(fs)
      BY <1>2, <1>3, <1>4, <2>1, <2>3 DEF FillReserved
    <3> QED
      BY <1>4, <1>8, <2>3, <3>1
  <2>4. CASE p \notin ToFill(fs) /\ q \in ToFill(fs)
    <3>1. ID(gs, p) \in FillReserved(fs)
      BY <1>2, <1>3, <1>4, <2>1, <2>4 DEF FillReserved
    <3> QED
      BY <1>4, <1>8, <2>4, <3>1
  <2>5. CASE p \notin ToFill(fs) /\ q \notin ToFill(fs)
    <3>1. ID(fs, p) = ID(fs, q) /\ ID(fs, p) # Null /\ ID(fs, q) # Null
      BY <1>3, <1>4, <1>8, <2>1, <2>5
    <3> QED
      BY <1>1, <2>1, <3>1 DEF Unset
  <2> QED
    BY <2>2, <2>3, <2>4, <2>5
<1>9. \A i \in DOMAIN gs : TypeGiven(gs[i])
  BY <1>1, <1>4, FieldsHaveBlocks, AlikePlaces, AlikeGiven
<1>10. gs # <<>>
  <2>1. IsList(fs) /\ Len(gs) = Len(fs) /\ Len(<<>>) = 0
    BY <1>4 DEF IsFields, Alike
  <2> QED
    BY <2>1, EmptyList
<1>11. ValidateConfig(gs)
  BY <1>4, <1>7, <1>8, <1>9, <1>10, CompleteIsValid
<1> QED
  BY <1>5, <1>6, <1>11
------------------------------------------------------------------------------
(* A type that iceberg-go prints is one that was given.                    *)
LEMMA PrintedFacts ==
  ASSUME NEW t, IsType(t)
  PROVE  /\ IsType(Printed(t)) /\ Printed(t).base = t.base /\ Printed(t).args = t.args
         /\ ParseIcebergType(t) => t # NoType /\ Printed(t) # NoType
         /\ t = NoType => Printed(t) = NoType
<1> DEFINE u == Printed(t)
<1>1. t = [base |-> t.base, args |-> t.args, spaced |-> t.spaced]
  BY DEF IsType
<1>2. u = [base |-> t.base, args |-> t.args, spaced |-> (t.base = "decimal")]
  BY <1>1 DEF Printed
<1> HIDE DEF u
<1>3. u.base = t.base /\ u.args = t.args /\ IsType(u)
  BY <1>2 DEF IsType
<1>4. ParseIcebergType(t) => t.base # "none"
  BY DEF ParseIcebergType, PlainTypes
<1>5. NoType.base = "none"
  BY DEF NoType
<1>6. ASSUME t = NoType PROVE u = NoType
  <2>1. t.base = "none" /\ t.args = <<>>
    BY <1>6 DEF NoType
  <2>2. (t.base = "decimal") = FALSE
    BY <2>1
  <2> QED
    BY <1>2, <2>1, <2>2 DEF NoType
<1> QED
  BY <1>3, <1>4, <1>5, <1>6 DEF u

LEMMA StoredTypeFacts ==
  ASSUME NEW f, IsField(f), TypeGiven(f), TypesParse(f), NEW g, g = StoredType(f)
  PROVE  /\ g.name = f.name /\ g.attrs = f.attrs /\ g.defaults = f.defaults
         /\ IsType(g.type) /\ IsBlock(g.block) /\ TypeGiven(g)
         /\ g.block.kind = f.block.kind /\ g.block.ids = f.block.ids
         /\ (g.type = NoType) = (f.type = NoType)
         /\ g.type = Printed(f.type)
<1> DEFINE a == f.block
           parts == StoredParts(a.parts)
           b == IF f.type # NoType THEN NoBlock ELSE [a EXCEPT !.parts = parts]
           u == Printed(f.type)
<1>1. /\ f = [name |-> f.name, type |-> f.type, block |-> a, attrs |-> f.attrs,
             defaults |-> f.defaults]
      /\ IsType(f.type) /\ IsBlock(a)
  BY DEF IsField
<1>2. g = [f EXCEPT !.type = u, !.block = b]
  BY DEF StoredType
<1>3. /\ (f.type # NoType) # (a.kind # "none")
      /\ a.kind # "struct" => \A k \in DOMAIN a.parts : a.parts[k].type # NoType
  BY DEF TypeGiven
<1>4. /\ f.type # NoType => ParseIcebergType(f.type)
      /\ f.type = NoType => \A k \in DOMAIN a.parts : ParseIcebergType(a.parts[k].type)
  BY DEF TypesParse
<1>5. IsType(u) /\ (u = NoType) = (f.type = NoType)
  BY <1>1, <1>4, PrintedFacts
<1>6. ASSUME NEW k \in DOMAIN a.parts, f.type = NoType
      PROVE  /\ parts[k] = [name |-> parts[k].name, type |-> parts[k].type]
             /\ IsType(parts[k].type) /\ parts[k].type # NoType
  <2> DEFINE q == a.parts[k]
             v == Printed(q.type)
  <2>1. q = [name |-> q.name, type |-> q.type] /\ IsType(q.type) /\ ParseIcebergType(q.type)
    BY <1>1, <1>4, <1>6 DEF IsBlock
  <2>2. IsType(v) /\ v # NoType
    BY <2>1, PrintedFacts
  <2>3. parts[k] = [q EXCEPT !.type = v]
    BY DEF StoredParts
  <2> HIDE DEF q, v, parts
  <2>4. parts[k] = [name |-> q.name, type |-> v]
    BY <2>1, <2>3
  <2>5. parts[k].type = v /\ parts[k].name = q.name
    BY <2>4
  <2> QED
    BY <2>2, <2>4, <2>5
<1>7. DOMAIN parts = DOMAIN a.parts /\ IsList(a.parts)
  BY <1>1 DEF IsBlock, StoredParts
<1>8. IsList(parts) /\ Len(parts) = Len(a.parts)
  <2>1. DOMAIN a.parts = 1 .. Len(a.parts) /\ Len(a.parts) \in Nat
    BY <1>7, ListDomain
  <2>2. parts = [k \in 1 .. Len(a.parts) |-> parts[k]]
    BY <2>1 DEF StoredParts
  <2> HIDE DEF parts, a
  <2> QED
    BY <1>7, <2>1, <2>2, FunctionIsList
<1> HIDE DEF parts
<1>9. IsBlock(b) /\ b.kind = a.kind /\ b.ids = a.ids
  <2>1. CASE f.type # NoType
    <3>1. b = NoBlock /\ a = NoBlock
      BY <1>1, <1>3, <2>1, NoneIsNoBlock
    <3> HIDE DEF a, b
    <3> QED
      BY <1>1, <3>1
  <2>2. CASE f.type = NoType
    <3>1. b = [a EXCEPT !.parts = parts]
      BY <2>2
    <3>2. a = [kind |-> a.kind, ids |-> a.ids, parts |-> a.parts]
      BY <1>1 DEF IsBlock
    <3> HIDE DEF a, b
    <3>3. b = [kind |-> a.kind, ids |-> a.ids, parts |-> parts]
      BY <3>1, <3>2
    <3>4. b.kind = a.kind /\ b.ids = a.ids /\ b.parts = parts
      BY <3>3
    <3>5. b = [kind |-> b.kind, ids |-> b.ids, parts |-> b.parts]
      BY <3>3, <3>4
    <3>6. /\ a.kind \in DOMAIN Arity /\ IsList(a.ids) /\ Len(a.ids) = Len(a.parts)
          /\ Len(a.ids) \in Arity[a.kind]
          /\ \A k \in DOMAIN a.ids : a.ids[k] \in Int \cup {Null}
      BY <1>1 DEF IsBlock
    <3>7. \A k \in DOMAIN parts :
             LET q == parts[k] IN q = [name |-> q.name, type |-> q.type] /\ IsType(q.type)
      BY <1>6, <1>7, <2>2
    <3> QED
      BY <1>8, <3>4, <3>5, <3>6, <3>7 DEF IsBlock
  <2> QED
    BY <2>1, <2>2
<1>10. b.kind # "struct" => \A k \in DOMAIN b.parts : b.parts[k].type # NoType
  <2>1. CASE f.type # NoType
    <3>1. b.parts = <<>>
      BY <2>1 DEF NoBlock
    <3> QED
      BY <3>1
  <2>2. CASE f.type = NoType
    <3>1. b.parts = parts
      <4>1. a = [kind |-> a.kind, ids |-> a.ids, parts |-> a.parts]
        BY <1>1 DEF IsBlock
      <4>2. b = [a EXCEPT !.parts = parts]
        BY <2>2
      <4> HIDE DEF a, b
      <4> QED
        BY <4>1, <4>2
    <3> QED
      BY <1>6, <1>7, <2>2, <3>1
  <2> QED
    BY <2>1, <2>2
<1> HIDE DEF a, b, u
<1>11. g = [name |-> f.name, type |-> u, block |-> b, attrs |-> f.attrs,
            defaults |-> f.defaults]
  BY <1>1, <1>2
<1>12. /\ g.name = f.name /\ g.attrs = f.attrs /\ g.defaults = f.defaults
       /\ g.type = u /\ g.block = b
  BY <1>11
<1>13. TypeGiven(g)
  BY <1>3, <1>5, <1>9, <1>10, <1>12 DEF TypeGiven
<1> QED
  BY <1>5, <1>9, <1>12, <1>13 DEF a, u
==============================================================================
