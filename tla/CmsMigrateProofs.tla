-------------------------- MODULE CmsMigrateProofs --------------------------
(***************************************************************************)
(* Theorems about CmsMigrate, for any number of runs, any definitions      *)
(* (valid or not) and any use of the console.                              *)
(***************************************************************************)
EXTENDS CmsMigrate, TLAPS

USE CmsMigrateAssumption

Before(p, q) == p[1] < q[1] \/ (p[1] = q[1] /\ p[2] < q[2])

-----------------------------------------------------------------------------
(* The walk through a definition. *)

(* The components of a definition have their types. *)
LEMMA SchemaParts ==
  ASSUME NEW d \in Schema, NEW i \in 1..Len(d.models)
  PROVE  /\ Len(d.models) \in Nat
         /\ d.models[i] \in Model
         /\ Len(d.models[i].fields) \in Nat
         /\ d.models[i].alias \in Aliases
         /\ \A j \in 1..Len(d.models[i].fields) : d.models[i].fields[j] \in Field
<1>1. d.models \in Seq(Model)
  BY DEF Schema
<1>2. d.models[i] \in Model /\ Len(d.models) \in Nat
  BY <1>1
<1>3. d.models[i].fields \in Seq(Field)
  BY <1>2 DEF Model
<1>. QED
  BY <1>2, <1>3 DEF Model

(* A position is the project or lies within a model. *)
LEMMA PositionParts ==
  ASSUME NEW d \in Schema, NEW p \in Positions(d)
  PROVE  /\ p \in Nat \X Nat
         /\ p = <<p[1], p[2]>>
         /\ \/ p[1] = 0 /\ p[2] = 0
            \/ /\ p[1] \in 1..Len(d.models)
               /\ p[2] \in 0..Len(d.models[p[1]].fields)
<1>0. Len(d.models) \in Nat
  BY DEF Schema
<1>1. CASE p = <<0, 0>>
  BY <1>1
<1>2. CASE p # <<0, 0>>
  <2>1. PICK i \in 1..Len(d.models) : p \in {<<i, j>> : j \in 0..Len(d.models[i].fields)}
    BY <1>2 DEF Positions
  <2>2. PICK j \in 0..Len(d.models[i].fields) : p = <<i, j>>
    BY <2>1
  <2>3. Len(d.models[i].fields) \in Nat
    BY SchemaParts
  <2>. QED
    BY <1>0, <2>2, <2>3
<1>. QED
  BY <1>1, <1>2

(* The other direction. *)
LEMMA PositionExists ==
  ASSUME NEW d \in Schema
  PROVE  /\ <<0, 0>> \in Positions(d)
         /\ \A i \in 1..Len(d.models) : \A j \in 0..Len(d.models[i].fields) : <<i, j>> \in Positions(d)
  BY DEF Positions

(* After goes to the least later position, or to the end. *)
LEMMA AfterWalks ==
  ASSUME NEW d \in Schema, NEW p \in Positions(d), Validate(d)
  PROVE  /\ After(d, p) \in Nat \X Nat
         /\ After(d, p) \in Positions(d) \cup {End(d)}
         /\ \A q \in Positions(d) : Before(q, After(d, p)) => q = p \/ Before(q, p)
<1>. DEFINE n == Len(d.models)
<1>0. n \in Nat /\ n > 0
  BY DEF Schema, Validate
<1>1. CASE p[1] > 0 /\ p[2] < Len(d.models[p[1]].fields)
  <2>1. /\ p[1] \in 1..n /\ p[2] \in Nat
        /\ Len(d.models[p[1]].fields) \in Nat
        /\ p = <<p[1], p[2]>>
    BY <1>1, <1>0, PositionParts, SchemaParts
  <2>2. After(d, p) = <<p[1], p[2] + 1>>
    BY <1>1 DEF After
  <2>3. p[2] + 1 \in 0..Len(d.models[p[1]].fields)
    BY <1>1, <2>1
  <2>4. After(d, p) \in Positions(d)
    BY <2>1, <2>2, <2>3, PositionExists
  <2>5. ASSUME NEW q \in Positions(d), Before(q, After(d, p)), ~Before(q, p)
        PROVE  q = p
    <3>1. q \in Nat \X Nat /\ q = <<q[1], q[2]>>
      BY PositionParts
    <3>2. q[1] = p[1] /\ q[2] = p[2]
      BY <2>1, <2>2, <2>5, <3>1, <1>0 DEF Before
    <3>. QED
      BY <2>1, <3>1, <3>2
  <2>6. After(d, p) \in Nat \X Nat
    BY <2>1, <2>2, <1>0
  <2>. QED
    BY <2>4, <2>5, <2>6
<1>2. CASE ~(p[1] > 0 /\ p[2] < Len(d.models[p[1]].fields))
  <2>1. p[1] \in 0..n /\ p[2] \in Nat /\ p = <<p[1], p[2]>>
    BY <1>0, PositionParts
  <2>2. After(d, p) = <<p[1] + 1, 0>>
    BY <1>2 DEF After
  <2>3. After(d, p) \in Positions(d) \cup {End(d)}
    <3>1. CASE p[1] = n
      BY <2>2, <3>1 DEF End
    <3>2. CASE p[1] # n
      <4>1. p[1] + 1 \in 1..n
        BY <2>1, <3>2, <1>0
      <4>2. 0 \in 0..Len(d.models[p[1] + 1].fields)
        BY <4>1, SchemaParts
      <4>. QED
        BY <2>2, <4>1, <4>2, PositionExists
    <3>. QED
      BY <3>1, <3>2
  <2>4. ASSUME NEW q \in Positions(d), Before(q, After(d, p)), ~Before(q, p)
        PROVE  q = p
    <3>1. /\ q \in Nat \X Nat /\ q = <<q[1], q[2]>>
          /\ \/ q[1] = 0 /\ q[2] = 0
             \/ q[1] \in 1..n /\ q[2] \in 0..Len(d.models[q[1]].fields)
      BY PositionParts
    <3>2. q[1] = p[1] /\ q[2] >= p[2]
      BY <2>1, <2>2, <2>4, <3>1, <1>0 DEF Before
    <3>3. CASE q[1] = 0
      BY <2>1, <3>1, <3>2, <3>3, <1>0
    <3>4. CASE q[1] # 0
      <4>1. /\ q[1] \in 1..n /\ q[2] \in 0..Len(d.models[q[1]].fields)
            /\ Len(d.models[q[1]].fields) \in Nat
        BY <3>1, <3>4, SchemaParts
      <4>2. p[2] >= Len(d.models[p[1]].fields)
        BY <1>2, <2>1, <3>2, <4>1
      <4>3. q[2] = p[2]
        BY <2>1, <3>2, <4>1, <4>2
      <4>. QED
        BY <2>1, <3>1, <3>2, <4>3
    <3>. QED
      BY <3>3, <3>4
  <2>5. After(d, p) \in Nat \X Nat
    BY <2>1, <2>2, <1>0
  <2>. QED
    BY <2>3, <2>4, <2>5
<1>. QED
  BY <1>1, <1>2

(* What lies before a position, and itself, lies before the next. *)
LEMMA AfterLater ==
  ASSUME NEW d \in Schema, NEW p \in Positions(d), NEW q \in Positions(d),
         q = p \/ Before(q, p)
  PROVE  Before(q, After(d, p))
<1>1. p \in Nat \X Nat /\ q \in Nat \X Nat
  BY PositionParts
<1>. QED
  BY <1>1 DEF After, Before

(* Every position lies before the end, and none before the project. *)
LEMMA WalkBounds ==
  ASSUME NEW d \in Schema, NEW p \in Positions(d)
  PROVE  /\ End(d) \in Nat \X Nat
         /\ Before(p, End(d))
         /\ ~Before(p, <<0, 0>>)
         /\ ~Before(p, p)
         /\ p # End(d)
<1>1. Len(d.models) \in Nat
  BY DEF Schema
<1>. QED
  BY <1>1, PositionParts DEF End, Before

(* A valid definition has one position for each path. *)
LEMMA PathsDiffer ==
  ASSUME NEW d \in Schema, NEW p \in Positions(d), NEW q \in Positions(d),
         Validate(d), Path(d, p) = Path(d, q)
  PROVE  p = q
<1>1. /\ p = <<p[1], p[2]>> /\ q = <<q[1], q[2]>>
      /\ p \in Nat \X Nat /\ q \in Nat \X Nat
      /\ p[1] = 0 => p[2] = 0
      /\ q[1] = 0 => q[2] = 0
      /\ p[1] # 0 => p[1] \in 1..Len(d.models) /\ p[2] \in 0..Len(d.models[p[1]].fields)
      /\ q[1] # 0 => q[1] \in 1..Len(d.models) /\ q[2] \in 0..Len(d.models[q[1]].fields)
  BY PositionParts
<1>2. /\ Path(d, p).model = Path(d, q).model
      /\ Path(d, p).field = Path(d, q).field
  OBVIOUS
<1>3. p[1] = q[1]
  <2>1. p[1] # 0 => Path(d, p).model = d.models[p[1]].alias /\ d.models[p[1]].alias \in Aliases
    BY <1>1, SchemaParts DEF Path, ModelAt
  <2>2. q[1] # 0 => Path(d, q).model = d.models[q[1]].alias /\ d.models[q[1]].alias \in Aliases
    BY <1>1, SchemaParts DEF Path, ModelAt
  <2>3. (p[1] = 0 => Path(d, p).model = None) /\ (q[1] = 0 => Path(d, q).model = None)
    BY DEF Path
  <2>4. \A i, j \in 1..Len(d.models) : d.models[i].alias = d.models[j].alias => i = j
    BY DEF Validate, Distinct, Alias
  <2>5. CASE p[1] = 0 \/ q[1] = 0
    BY <1>2, <2>1, <2>2, <2>3, <2>5
  <2>6. CASE p[1] # 0 /\ q[1] # 0
    BY <1>1, <1>2, <2>1, <2>2, <2>4, <2>6
  <2>. QED
    BY <2>5, <2>6
<1>4. CASE p[1] = 0
  BY <1>1, <1>3, <1>4
<1>5. CASE p[1] # 0
  <2>. DEFINE m == d.models[p[1]]
  <2>0. p[1] \in 1..Len(d.models) /\ Len(m.fields) \in Nat
    BY <1>1, <1>5, SchemaParts
  <2>1. \A j \in 1..Len(m.fields) : m.fields[j].alias \in Aliases
    <3>1. \A j \in 1..Len(m.fields) : m.fields[j] \in Field
      BY <2>0, SchemaParts
    <3>. QED
      BY <3>1 DEF Field
  <2>2. p[2] # 0 => Path(d, p).field = m.fields[p[2]].alias /\ p[2] \in 1..Len(m.fields)
    BY <1>1, <1>5, <2>0 DEF Path, FieldAt, ModelAt
  <2>3. q[2] # 0 => Path(d, q).field = m.fields[q[2]].alias /\ q[2] \in 1..Len(m.fields)
    BY <1>1, <1>3, <1>5, <2>0 DEF Path, FieldAt, ModelAt
  <2>4. (p[2] = 0 => Path(d, p).field = None) /\ (q[2] = 0 => Path(d, q).field = None)
    BY DEF Path
  <2>5. \A i, j \in 1..Len(m.fields) : m.fields[i].alias = m.fields[j].alias => i = j
    <3>1. ValidModel(m)
      BY <2>0 DEF Validate
    <3>. QED
      BY <3>1 DEF ValidModel, Distinct, Alias
  <2>6. p[2] = q[2]
    <3>1. CASE p[2] = 0 \/ q[2] = 0
      BY <1>2, <2>1, <2>2, <2>3, <2>4, <3>1
    <3>2. CASE p[2] # 0 /\ q[2] # 0
      BY <1>2, <2>2, <2>3, <2>5, <3>2
    <3>. QED
      BY <3>1, <3>2
  <2>. QED
    BY <1>1, <1>3, <2>6
<1>. QED
  BY <1>4, <1>5

(* A path, its kind, its container, and what is created at it. *)
LEMMA PathParts ==
  ASSUME NEW r \in Runs, NEW p \in Positions(Definition[r])
  PROVE  /\ Definition[r] \in Schema
         /\ Path(Definition[r], p) \in Paths
         /\ Path(Definition[r], p).field # None <=> IsField(p)
         /\ IsField(p) => FieldAt(Definition[r], p) \in Field
         /\ Made(Definition[r], p) \in Declared(Path(Definition[r], p))
<1>. DEFINE d == Definition[r]
<1>1. d \in Schema
  OBVIOUS
<1>2. /\ p[2] \in Nat
      /\ p[1] = 0 => p[2] = 0
      /\ p[1] # 0 => p[1] \in 1..Len(d.models) /\ p[2] \in 0..Len(d.models[p[1]].fields)
  BY <1>1, PositionParts
<1>3. Path(d, p) \in Paths
  BY DEF Paths
<1>4. IsField(p) => FieldAt(d, p) \in Field
  <2>. SUFFICES ASSUME IsField(p) PROVE FieldAt(d, p) \in Field
    OBVIOUS
  <2>1. p[1] \in 1..Len(d.models) /\ p[2] \in 1..Len(d.models[p[1]].fields)
    <3>1. p[1] \in 1..Len(d.models) /\ p[2] \in 0..Len(d.models[p[1]].fields) /\ p[2] > 0
      BY <1>2 DEF IsField
    <3>2. Len(d.models[p[1]].fields) \in Nat
      BY <1>1, <3>1, SchemaParts
    <3>. QED
      BY <3>1, <3>2
  <2>. QED
    BY <1>1, <2>1, SchemaParts DEF FieldAt, ModelAt
<1>5. Path(d, p).field # None <=> IsField(p)
  BY <1>2, <1>4 DEF Path, IsField, Field
<1>6. Made(d, p) \in Declared(Path(d, p))
  BY DEF Declared
<1>. QED
  BY <1>1, <1>3, <1>4, <1>5, <1>6

(* The container of a resource is the resource of an earlier position. *)
LEMMA HolderBefore ==
  ASSUME NEW r \in Runs, NEW p \in Positions(Definition[r]),
         Holder(Path(Definition[r], p)) # Path(Definition[r], p)
  PROVE  \E q \in Positions(Definition[r]) :
           /\ Before(q, p)
           /\ ~IsField(q)
           /\ Path(Definition[r], q) = Holder(Path(Definition[r], p))
<1>. DEFINE d == Definition[r]
<1>1. /\ d \in Schema
      /\ p \in Nat \X Nat
      /\ p[1] = 0 => p[2] = 0
      /\ p[1] # 0 => p[1] \in 1..Len(d.models) /\ p[2] \in 0..Len(d.models[p[1]].fields)
  BY PositionParts
<1>2. CASE IsField(p)
  <2>. DEFINE q == <<p[1], 0>>
  <2>1. p[1] # 0 /\ p[2] > 0
    BY <1>1, <1>2 DEF IsField
  <2>2. q \in Positions(d)
    <3>1. 0 \in 0..Len(d.models[p[1]].fields)
      BY <1>1, <2>1, SchemaParts
    <3>. QED
      BY <1>1, <2>1, <3>1, PositionExists
  <2>3. Path(d, p).field # None
    BY <1>2, PathParts
  <2>4. Path(d, q) = Holder(Path(d, p))
    BY <2>1, <2>3 DEF Path, Holder, ModelAt
  <2>5. Before(q, p) /\ ~IsField(q)
    BY <2>1, <1>1 DEF Before, IsField
  <2>. QED
    BY <2>2, <2>4, <2>5
<1>3. CASE ~IsField(p)
  <2>. DEFINE q == <<0, 0>>
  <2>1. p[2] = 0
    BY <1>1, <1>3 DEF IsField
  <2>2. Path(d, p).field = None
    BY <2>1 DEF Path
  <2>3. Holder(Path(d, p)) = [project |-> d.project, model |-> None, field |-> None]
    BY <2>1, <2>2 DEF Path, Holder
  <2>4. p[1] # 0
    BY <2>1, <2>3 DEF Path
  <2>5. Path(d, q) = Holder(Path(d, p))
    BY <2>3 DEF Path
  <2>6. q \in Positions(d) /\ Before(q, p) /\ ~IsField(q)
    BY <1>1, <2>4, PositionExists DEF Before, IsField
  <2>. QED
    BY <2>5, <2>6
<1>. QED
  BY <1>2, <1>3

-----------------------------------------------------------------------------
(* The steps, seen by one run. *)

Live(r) == Running(r) \/ pc[r] = "ok"

Unchanged(q) ==
  /\ pc'[q] = pc[q] /\ at'[q] = at[q]
  /\ created'[q] = created[q] /\ warned'[q] = warned[q]

Failed(r) == pc'[r] = "failed" /\ at'[r] = <<0, 0>> /\ created'[r] = {} /\ warned'[r] = {}

Advanced(r) ==
  /\ at'[r] = After(Definition[r], at[r])
  /\ pc'[r] = IF After(Definition[r], at[r]) = End(Definition[r]) THEN "ok" ELSE "find"

Noted(r) ==
  warned'[r] = warned[r] \cup
    {path \in {Here(r)} : IsField(at[r]) /\ Drifts(Shown(cms[Here(r)]), FieldAt(Definition[r], at[r]))}

(* What a step of a run that is under way does. *)
LEMMA RunStepCases ==
  ASSUME TypeOK, NEW r \in Runs, RunStep(r) \/ Kill(r)
  PROVE  /\ Running(r)
         /\ UNCHANGED <<edits, touched>>
         /\ \A q \in Runs \ {r} : Unchanged(q)
         /\ pc' \in [Runs -> Labels]
         /\ at' = [at EXCEPT ![r] = at'[r]]
         /\ created' = [created EXCEPT ![r] = created'[r]]
         /\ warned' = [warned EXCEPT ![r] = warned'[r]]
         /\ \/ Failed(r) /\ cms' = cms
            \/ /\ Failed(r)
               /\ cms[Here(r)] = Absent
               /\ cms' = [cms EXCEPT ![Here(r)] = Made(Definition[r], at[r])]
            \/ /\ pc'[r] \in {"create", "refetch"}
               /\ cms' = cms /\ at'[r] = at[r]
               /\ created'[r] = created[r] /\ warned'[r] = warned[r]
            \/ /\ Advanced(r) /\ cms' = cms
               /\ cms[Here(r)] # Absent
               /\ created'[r] = created[r] /\ Noted(r)
            \/ /\ Advanced(r)
               /\ cms[Here(r)] = Absent
               /\ cms' = [cms EXCEPT ![Here(r)] = Made(Definition[r], at[r])]
               /\ created'[r] = created[r] \cup {Here(r)} /\ warned'[r] = warned[r]
<1>. USE DEF Failed, Unchanged, Running, Labels
<1>0. /\ pc \in [Runs -> Labels] /\ at \in [Runs -> Nat \X Nat]
      /\ created \in [Runs -> SUBSET Paths] /\ warned \in [Runs -> SUBSET Paths]
  BY DEF TypeOK, ResultTypeOK
<1>1. ASSUME Fail(r)
      PROVE  /\ Failed(r)
             /\ \A q \in Runs \ {r} : Unchanged(q)
             /\ pc' \in [Runs -> Labels]
             /\ at' = [at EXCEPT ![r] = at'[r]]
             /\ created' = [created EXCEPT ![r] = created'[r]]
             /\ warned' = [warned EXCEPT ![r] = warned'[r]]
  BY <1>0, <1>1 DEF Fail, Goto
<1>2. ASSUME NEW claim, NEW drift, Resolved(r, claim, drift)
      PROVE  /\ \/ Failed(r)
                \/ /\ Advanced(r)
                   /\ created'[r] = created[r] \cup claim
                   /\ warned'[r] = warned[r] \cup drift
             /\ \A q \in Runs \ {r} : Unchanged(q)
             /\ pc' \in [Runs -> Labels]
             /\ at' = [at EXCEPT ![r] = at'[r]]
             /\ created' = [created EXCEPT ![r] = created'[r]]
             /\ warned' = [warned EXCEPT ![r] = warned'[r]]
  <2>1. CASE Fail(r)
    BY <1>1, <2>1
  <2>2. CASE ~Fail(r)
    BY <1>0, <1>2, <2>2 DEF Resolved, Advance, Advanced, Goto
  <2>. QED
    BY <2>1, <2>2
<1>3. CASE Kill(r)
  BY <1>1, <1>3 DEF Kill
<1>4. ASSUME Found(r)
      PROVE  /\ \/ Failed(r)
                \/ Advanced(r) /\ created'[r] = created[r] /\ Noted(r)
             /\ \A q \in Runs \ {r} : Unchanged(q)
             /\ pc' \in [Runs -> Labels]
             /\ at' = [at EXCEPT ![r] = at'[r]]
             /\ created' = [created EXCEPT ![r] = created'[r]]
             /\ warned' = [warned EXCEPT ![r] = warned'[r]]
  <2>. DEFINE drift == {path \in {Here(r)} :
               IsField(at[r]) /\ Drifts(Shown(cms[Here(r)]), FieldAt(Definition[r], at[r]))}
  <2>1. Resolved(r, {}, drift)
    BY <1>4 DEF Found
  <2>2. created[r] \cup {} = created[r]
    OBVIOUS
  <2>3. Noted(r) <=> warned'[r] = warned[r] \cup drift
    BY DEF Noted
  <2>. HIDE DEF drift
  <2>. QED
    BY <1>2, <2>1, <2>2, <2>3
<1>5. CASE Find(r)
  <2>1. CASE Fail(r)
    BY <1>1, <1>5, <2>1 DEF Find
  <2>2. CASE Sees(Here(r)) /\ Found(r)
    <3>1. cms[Here(r)] # Absent /\ UNCHANGED <<cms, edits, touched>> /\ Running(r)
      BY <1>5, <2>2 DEF Find, Sees
    <3>. QED
      BY <1>4, <2>2, <3>1
  <2>3. CASE Goto(r, "create") /\ UNCHANGED <<at, created, warned>>
    BY <1>0, <1>5, <2>3 DEF Find, Goto
  <2>. QED
    BY <1>5, <2>1, <2>2, <2>3 DEF Find
<1>6. CASE Refetch(r)
  <2>1. CASE Fail(r)
    BY <1>1, <1>6, <2>1 DEF Refetch
  <2>2. CASE Sees(Here(r)) /\ Refound(r)
    <3>1. cms[Here(r)] # Absent /\ UNCHANGED <<cms, edits, touched>> /\ Running(r)
      BY <1>6, <2>2 DEF Refetch, Sees
    <3>. QED
      BY <1>4, <2>2, <3>1 DEF Refound
  <2>. QED
    BY <1>6, <2>1, <2>2 DEF Refetch
<1>7. CASE Create(r)
  <2>0. Running(r) /\ UNCHANGED <<edits, touched>>
    BY <1>7 DEF Create
  <2>1. CASE /\ ~Conflicts(Here(r)) /\ Resolved(r, {Here(r)}, {})
             /\ cms' = [cms EXCEPT ![Here(r)] = Made(Definition[r], at[r])]
    <3>1. cms[Here(r)] = Absent
      BY <2>1 DEF Conflicts
    <3>2. warned[r] \cup {} = warned[r]
      OBVIOUS
    <3>3. /\ \/ Failed(r)
             \/ Advanced(r) /\ created'[r] = created[r] \cup {Here(r)} /\ warned'[r] = warned[r]
          /\ \A q \in Runs \ {r} : Unchanged(q)
          /\ pc' \in [Runs -> Labels]
          /\ at' = [at EXCEPT ![r] = at'[r]]
          /\ created' = [created EXCEPT ![r] = created'[r]]
          /\ warned' = [warned EXCEPT ![r] = warned'[r]]
      BY <1>2, <2>1, <3>2
    <3>. QED
      BY <2>0, <2>1, <3>1, <3>3
  <2>2. CASE Goto(r, "refetch") /\ UNCHANGED <<cms, at, created, warned>>
    BY <1>0, <2>0, <2>2 DEF Goto
  <2>3. CASE Fail(r) /\ UNCHANGED cms
    BY <1>1, <2>0, <2>3
  <2>4. CASE /\ ~Conflicts(Here(r)) /\ Fail(r)
             /\ cms' = [cms EXCEPT ![Here(r)] = Made(Definition[r], at[r])]
    BY <1>1, <2>0, <2>4 DEF Conflicts
  <2>. QED
    BY <1>7, <2>1, <2>2, <2>3, <2>4 DEF Create
<1>. QED
  BY <1>3, <1>5, <1>6, <1>7 DEF RunStep

(* What an operator's edit does. *)
LEMMA EditEffect ==
  ASSUME TypeOK, NEW path \in Paths, NEW value \in Shapes \cup {Container, Absent},
         Edit(path, value)
  PROVE  /\ UNCHANGED runs
         /\ edits' = edits + 1 /\ edits' \in 0..MaxEdits
         /\ value \in IF path.field = None THEN {Container} ELSE Stored \cup {Absent}
         /\ cms' = [cms EXCEPT ![path] = value]
         /\ touched' \in [Runs -> SUBSET Paths]
         /\ \A r \in Runs :
              touched'[r] = IF Live(r) THEN touched[r] \cup {path} ELSE touched[r]
<1>1. edits \in 0..MaxEdits /\ touched \in [Runs -> SUBSET Paths]
  BY DEF TypeOK, ResultTypeOK
<1>. QED
  BY <1>1 DEF Edit, Live

(* The resource a run is at, and what it may create there. *)
LEMMA HereParts ==
  ASSUME TypeOK, NEW r \in Runs, Running(r)
  PROVE  /\ at[r] \in Positions(Definition[r])
         /\ Validate(Definition[r])
         /\ Definition[r] \in Schema
         /\ Here(r) \in Paths
         /\ Made(Definition[r], at[r]) # Absent
         /\ Made(Definition[r], at[r]) \in
              IF Here(r).field = None THEN {Container, Absent} ELSE Stored \cup {Absent}
         /\ IsField(at[r]) => FieldAt(Definition[r], at[r]).type \in Types
         /\ IsField(at[r]) => SameShape(Made(Definition[r], at[r]), FieldAt(Definition[r], at[r]))
<1>. DEFINE d == Definition[r]
            p == at[r]
<1>1. p \in Positions(d) /\ Validate(d)
  BY DEF TypeOK, AtTypeOK
<1>2. /\ d \in Schema /\ Here(r) \in Paths
      /\ Here(r).field # None <=> IsField(p)
      /\ IsField(p) => FieldAt(d, p) \in Field
  BY <1>1, PathParts DEF Here
<1>3. IsField(p) => FieldAt(d, p).type \in Types
  <2>. SUFFICES ASSUME IsField(p) PROVE FieldAt(d, p).type \in Types
    OBVIOUS
  <2>1. p[1] \in 1..Len(d.models) /\ p[2] \in 0..Len(d.models[p[1]].fields) /\ p[2] > 0
    BY <1>1, <1>2, PositionParts DEF IsField
  <2>2. Len(d.models[p[1]].fields) \in Nat
    BY <1>2, <2>1, SchemaParts
  <2>3. ValidModel(d.models[p[1]])
    BY <1>1, <2>1 DEF Validate
  <2>4. p[2] \in 1..Len(d.models[p[1]].fields)
    BY <2>1, <2>2
  <2>5. \A j \in 1..Len(d.models[p[1]].fields) : d.models[p[1]].fields[j].type \in Types
    BY <2>3 DEF ValidModel
  <2>. QED
    BY <2>4, <2>5 DEF FieldAt, ModelAt
<1>4. IsField(p) => Made(d, p) \in Stored /\ SameShape(Made(d, p), FieldAt(d, p))
  BY <1>2, <1>3 DEF Made, Sent, Field, Stored, SameShape
<1>5. ~IsField(p) => Made(d, p) = Container
  BY DEF Made
<1>. QED
  BY <1>1, <1>2, <1>3, <1>4, <1>5

-----------------------------------------------------------------------------
(* Type correctness. *)

LEMMA TypeInit == Init => TypeOK
<1>. SUFFICES ASSUME Init PROVE TypeOK
  OBVIOUS
<1>1. cms \in [Paths -> Values]
  BY DEF Init, Values
<1>2. \A path \in Paths :
        cms[path] \in IF path.field = None THEN {Container, Absent} ELSE Stored \cup {Absent}
  BY DEF Init
<1>3. pc \in [Runs -> Labels] /\ at \in [Runs -> Nat \X Nat]
  BY DEF Init, Labels
<1>4. AtTypeOK
  BY PositionExists DEF Init, AtTypeOK, Running
<1>5. ResultTypeOK /\ edits \in 0..MaxEdits
  BY DEF Init, ResultTypeOK
<1>. QED
  BY <1>1, <1>2, <1>3, <1>4, <1>5 DEF TypeOK

LEMMA TypeStep == TypeOK /\ [Next]_vars => TypeOK'
<1>. SUFFICES ASSUME TypeOK, [Next]_vars PROVE TypeOK'
  OBVIOUS
<1>0. /\ cms \in [Paths -> Values]
      /\ pc \in [Runs -> Labels] /\ at \in [Runs -> Nat \X Nat]
      /\ created \in [Runs -> SUBSET Paths] /\ warned \in [Runs -> SUBSET Paths]
      /\ touched \in [Runs -> SUBSET Paths]
  BY DEF TypeOK, ResultTypeOK
<1>1. ASSUME NEW r \in Runs, Start(r) PROVE TypeOK'
  <2>1. /\ pc' \in [Runs -> Labels] /\ at' \in [Runs -> Nat \X Nat]
        /\ UNCHANGED <<cms, edits>>
    BY <1>0, <1>1 DEF Start, Goto, Labels
  <2>2. ResultTypeOK'
    BY <1>0, <1>1 DEF Start, ResultTypeOK
  <2>3. AtTypeOK'
    <3>. SUFFICES ASSUME NEW q \in Runs
                  PROVE /\ at'[q] \in Positions(Definition[q]) \cup {End(Definition[q])}
                        /\ Running(q)' => Validate(Definition[q]) /\ at'[q] \in Positions(Definition[q])
                        /\ pc'[q] = "ok" => Validate(Definition[q]) /\ at'[q] = End(Definition[q])
      BY DEF AtTypeOK
    <3>1. CASE q = r
      <4>1. at'[r] = <<0, 0>> /\ <<0, 0>> \in Positions(Definition[r])
        BY <1>0, <1>1, PositionExists DEF Start
      <4>2. pc'[r] = IF Validate(Definition[r]) THEN "find" ELSE "failed"
        BY <1>0, <1>1 DEF Start, Goto
      <4>. QED
        BY <3>1, <4>1, <4>2 DEF Running
    <3>2. CASE q # r
      <4>1. at'[q] = at[q] /\ pc'[q] = pc[q]
        BY <1>0, <1>1, <3>2 DEF Start, Goto
      <4>. QED
        BY <4>1 DEF TypeOK, AtTypeOK, Running
    <3>. QED
      BY <3>1, <3>2
  <2>. QED
    BY <2>1, <2>2, <2>3 DEF TypeOK
<1>2. ASSUME NEW r \in Runs, RunStep(r) \/ Kill(r) PROVE TypeOK'
  <2>. DEFINE d == Definition[r]
  <2>1. /\ Running(r) /\ UNCHANGED <<edits, touched>>
        /\ pc' \in [Runs -> Labels]
        /\ at' = [at EXCEPT ![r] = at'[r]]
        /\ created' = [created EXCEPT ![r] = created'[r]]
        /\ warned' = [warned EXCEPT ![r] = warned'[r]]
        /\ \A q \in Runs \ {r} : Unchanged(q)
    BY <1>2, RunStepCases
  <2>2. at[r] \in Positions(d) /\ Validate(d) /\ d \in Schema /\ Here(r) \in Paths
    BY <2>1, HereParts
  <2>3. /\ cms' \in [Paths -> Values]
        /\ \A path \in Paths :
             cms'[path] \in IF path.field = None THEN {Container, Absent} ELSE Stored \cup {Absent}
    <3>1. cms' = cms \/ cms' = [cms EXCEPT ![Here(r)] = Made(d, at[r])]
      BY <1>2, RunStepCases
    <3>2. Made(d, at[r]) \in IF Here(r).field = None THEN {Container, Absent} ELSE Stored \cup {Absent}
      BY <2>1, HereParts
    <3>3. \A path \in Paths :
            cms[path] \in IF path.field = None THEN {Container, Absent} ELSE Stored \cup {Absent}
      BY DEF TypeOK
    <3>4. Made(d, at[r]) \in Values
      BY <3>2 DEF Values
    <3>5. CASE cms' = cms
      BY <1>0, <3>3, <3>5
    <3>6. CASE cms' = [cms EXCEPT ![Here(r)] = Made(d, at[r])]
      <4>1. cms' \in [Paths -> Values]
        BY <1>0, <3>4, <3>6
      <4>2. ASSUME NEW path \in Paths
            PROVE cms'[path] \in IF path.field = None THEN {Container, Absent} ELSE Stored \cup {Absent}
        <5>1. CASE path = Here(r)
          BY <1>0, <3>2, <3>6, <5>1
        <5>2. CASE path # Here(r)
          BY <1>0, <3>3, <3>6, <5>2
        <5>. QED
          BY <5>1, <5>2
      <4>. QED
        BY <4>1, <4>2
    <3>. QED
      BY <3>1, <3>5, <3>6
  <2>4. created'[r] \subseteq Paths /\ warned'[r] \subseteq Paths
    BY <1>0, <1>2, <2>2, RunStepCases DEF Failed, Noted
  <2>5. ResultTypeOK'
    BY <1>0, <2>1, <2>4 DEF ResultTypeOK
  <2>6. /\ at'[r] \in Nat \X Nat
        /\ at'[r] \in Positions(d) \cup {End(d)}
        /\ pc'[r] \in {"find", "create", "refetch"} => at'[r] \in Positions(d)
        /\ pc'[r] = "ok" => at'[r] = End(d)
    <3>1. CASE Failed(r)
      BY <2>2, <3>1, PositionExists DEF Failed
    <3>2. CASE pc'[r] \in {"create", "refetch"} /\ at'[r] = at[r]
      BY <2>2, <3>2, PositionParts
    <3>3. CASE Advanced(r)
      BY <2>2, <3>3, AfterWalks DEF Advanced
    <3>. QED
      BY <1>2, <3>1, <3>2, <3>3, RunStepCases
  <2>7. AtTypeOK'
    <3>. SUFFICES ASSUME NEW q \in Runs
                  PROVE /\ at'[q] \in Positions(Definition[q]) \cup {End(Definition[q])}
                        /\ Running(q)' => Validate(Definition[q]) /\ at'[q] \in Positions(Definition[q])
                        /\ pc'[q] = "ok" => Validate(Definition[q]) /\ at'[q] = End(Definition[q])
      BY DEF AtTypeOK
    <3>1. CASE q = r
      BY <2>2, <2>6, <3>1 DEF Running
    <3>2. CASE q # r
      <4>1. at'[q] = at[q] /\ pc'[q] = pc[q]
        BY <2>1, <3>2 DEF Unchanged
      <4>. QED
        BY <4>1 DEF TypeOK, AtTypeOK, Running
    <3>. QED
      BY <3>1, <3>2
  <2>8. at' \in [Runs -> Nat \X Nat]
    BY <1>0, <2>1, <2>6
  <2>. QED
    BY <2>1, <2>3, <2>5, <2>7, <2>8 DEF TypeOK
<1>3. ASSUME NEW path \in Paths, NEW value \in Shapes \cup {Container, Absent}, Edit(path, value)
      PROVE  TypeOK'
  <2>1. /\ UNCHANGED runs /\ edits' \in 0..MaxEdits
        /\ value \in IF path.field = None THEN {Container} ELSE Stored \cup {Absent}
        /\ cms' = [cms EXCEPT ![path] = value]
        /\ touched' \in [Runs -> SUBSET Paths]
    BY <1>3, EditEffect
  <2>2. cms' \in [Paths -> Values]
    BY <1>0, <2>1 DEF Values
  <2>3. ASSUME NEW q \in Paths
        PROVE cms'[q] \in IF q.field = None THEN {Container, Absent} ELSE Stored \cup {Absent}
    <3>1. cms[q] \in IF q.field = None THEN {Container, Absent} ELSE Stored \cup {Absent}
      BY DEF TypeOK
    <3>2. CASE q = path
      BY <1>0, <2>1, <3>2
    <3>3. CASE q # path
      BY <1>0, <2>1, <3>1, <3>3
    <3>. QED
      BY <3>2, <3>3
  <2>4. AtTypeOK'
    BY <2>1 DEF TypeOK, AtTypeOK, Running, runs
  <2>5. ResultTypeOK' /\ pc' \in [Runs -> Labels] /\ at' \in [Runs -> Nat \X Nat]
    BY <1>0, <2>1 DEF ResultTypeOK, runs
  <2>. QED
    BY <2>1, <2>2, <2>3, <2>4, <2>5 DEF TypeOK
<1>4. CASE UNCHANGED vars
  BY <1>4 DEF TypeOK, AtTypeOK, ResultTypeOK, Running, vars, runs
<1>. QED
  BY <1>1, <1>2, <1>3, <1>4 DEF Next

(* The job stays within its types for any definitions, also invalid ones,   *)
(* and any number of overlapping runs: only positions of the definition are *)
(* visited, and only shapes that the CMS knows are stored.                  *)
THEOREM TypeCorrect == Spec => []TypeOK
  BY TypeInit, TypeStep, PTL DEF Spec

-----------------------------------------------------------------------------
(* The inductive invariant.  What a run has walked past stays as the run    *)
(* left it: only operators take a field away or alter it, and while the run *)
(* is live every use of the console on its paths is in touched.             *)

(* What was ensured is there, or it is a field an operator was at. *)
Ensured(r, p) ==
  LET path == Path(Definition[r], p) IN
  cms[path] # Absent \/ (IsField(p) /\ path \in touched[r])

(* A field passed is warned of exactly if it differs. *)
Judged(r, p) ==
  LET path == Path(Definition[r], p) IN
  IsField(p) /\ path \notin touched[r] =>
    (path \in warned[r] <=> ~SameShape(cms[path], FieldAt(Definition[r], p)))

Passed(r) == {p \in Positions(Definition[r]) : Before(p, at[r])}

(* What a run claims to have created is there, or an operator was at it. *)
Claims(r) ==
  /\ created[r] # {} => Live(r)
  /\ \A path \in created[r] : cms[path] # Absent \/ path \in touched[r]

WalkInv(r) ==
  Live(r) =>
    /\ \A p \in Passed(r) : Ensured(r, p) /\ Judged(r, p)
    /\ warned[r] \subseteq {Path(Definition[r], p) : p \in Passed(r)}

IInv ==
  /\ TypeOK
  /\ \A r \in Runs : WalkInv(r) /\ Claims(r)
  /\ ClaimedOnce

(* A run that takes no part keeps its invariant when the schema only grows. *)
LEMMA GrowthKeeps ==
  ASSUME TypeOK, NEW r \in Runs, WalkInv(r), Claims(r),
         Unchanged(r), touched'[r] = touched[r],
         \A path \in Paths : cms'[path] = cms[path] \/ (cms[path] = Absent /\ cms'[path] # Absent)
  PROVE  (WalkInv(r) /\ Claims(r))'
<1>1. Live(r)' <=> Live(r)
  BY DEF Live, Running, Unchanged
<1>2. Passed(r)' = Passed(r)
  BY DEF Passed, Unchanged
<1>3. WalkInv(r)'
  <2>. SUFFICES ASSUME Live(r)
                PROVE  /\ \A p \in Passed(r) : Ensured(r, p)' /\ Judged(r, p)'
                       /\ warned[r] \subseteq {Path(Definition[r], p) : p \in Passed(r)}
    BY <1>1, <1>2 DEF WalkInv, Unchanged
  <2>1. ASSUME NEW p \in Passed(r)
        PROVE  Ensured(r, p)' /\ Judged(r, p)'
    <3>1. Path(Definition[r], p) \in Paths
      BY PathParts DEF Passed
    <3>2. Ensured(r, p) /\ Judged(r, p)
      BY DEF WalkInv
    <3>3. Ensured(r, p)'
      BY <3>1, <3>2 DEF Ensured
    <3>4. Judged(r, p)'
      <4>. SUFFICES ASSUME IsField(p), Path(Definition[r], p) \notin touched[r]
                    PROVE  Path(Definition[r], p) \in warned[r]
                             <=> ~SameShape(cms'[Path(Definition[r], p)], FieldAt(Definition[r], p))
        BY DEF Judged, Unchanged, SameShape
      <4>1. cms'[Path(Definition[r], p)] = cms[Path(Definition[r], p)]
        BY <3>1, <3>2 DEF Ensured
      <4>. QED
        BY <3>2, <4>1 DEF Judged
    <3>. QED
      BY <3>3, <3>4
  <2>. QED
    BY <2>1 DEF WalkInv
<1>4. Claims(r)'
  <2>1. created[r] \subseteq Paths
    BY DEF TypeOK, ResultTypeOK
  <2>. QED
    BY <1>1, <2>1 DEF Claims, Unchanged
<1>. QED
  BY <1>3, <1>4

(* An operator's edit keeps every run's invariant: the run's touched has it. *)
LEMMA EditKeeps ==
  ASSUME TypeOK, NEW r \in Runs, WalkInv(r), Claims(r),
         NEW path \in Paths, NEW value \in Shapes \cup {Container, Absent}, Edit(path, value)
  PROVE  (WalkInv(r) /\ Claims(r))'
<1>0. cms \in [Paths -> Values]
  BY DEF TypeOK
<1>1. /\ UNCHANGED runs
      /\ value \in IF path.field = None THEN {Container} ELSE Stored \cup {Absent}
      /\ cms' = [cms EXCEPT ![path] = value]
      /\ touched'[r] = IF Live(r) THEN touched[r] \cup {path} ELSE touched[r]
  BY EditEffect
<1>2. Live(r)' <=> Live(r)
  BY <1>1 DEF Live, Running, runs
<1>3. Passed(r)' = Passed(r)
  BY <1>1 DEF Passed, runs
<1>4. WalkInv(r)'
  <2>. SUFFICES ASSUME Live(r)
                PROVE  /\ \A p \in Passed(r) : Ensured(r, p)' /\ Judged(r, p)'
                       /\ warned[r] \subseteq {Path(Definition[r], p) : p \in Passed(r)}
    BY <1>1, <1>2, <1>3 DEF WalkInv, runs
  <2>1. ASSUME NEW p \in Passed(r)
        PROVE  Ensured(r, p)' /\ Judged(r, p)'
    <3>. DEFINE mine == Path(Definition[r], p)
    <3>1. mine \in Paths /\ (mine.field # None <=> IsField(p))
      BY PathParts DEF Passed
    <3>2. Ensured(r, p) /\ Judged(r, p)
      BY DEF WalkInv
    <3>3. CASE path = mine
      <4>1. mine \in touched'[r]
        BY <1>1, <3>3
      <4>2. ~IsField(p) => cms'[mine] # Absent
        BY <1>0, <1>1, <3>1, <3>3 DEF Values
      <4>. QED
        BY <4>1, <4>2 DEF Ensured, Judged
    <3>4. CASE path # mine
      <4>1. cms'[mine] = cms[mine] /\ (mine \in touched'[r] <=> mine \in touched[r])
        BY <1>0, <1>1, <3>1, <3>4
      <4>2. warned'[r] = warned[r]
        BY <1>1 DEF runs
      <4>3. Ensured(r, p)'
        BY <3>2, <4>1 DEF Ensured
      <4>4. Judged(r, p)'
        BY <3>2, <4>1, <4>2 DEF Judged, SameShape
      <4>. QED
        BY <4>3, <4>4
    <3>. QED
      BY <3>3, <3>4
  <2>. QED
    BY <2>1 DEF WalkInv
<1>5. Claims(r)'
  <2>1. created[r] \subseteq Paths /\ created'[r] = created[r]
    BY <1>1 DEF TypeOK, ResultTypeOK, runs
  <2>2. ASSUME NEW own \in created[r] PROVE cms'[own] # Absent \/ own \in touched'[r]
    <3>1. Live(r) /\ own \in Paths /\ (cms[own] # Absent \/ own \in touched[r])
      BY <2>1 DEF Claims
    <3>. QED
      BY <1>0, <1>1, <3>1
  <2>. QED
    BY <1>2, <2>1, <2>2 DEF Claims
<1>. QED
  BY <1>4, <1>5

(* The drift that a lookup shows is the drift there is. *)
LEMMA DriftSeen ==
  ASSUME NEW stored \in Stored, NEW want \in Field, want.type \in Types
  PROVE  Drifts(Shown(stored), want) <=> ~SameShape(stored, want)
  BY DEF Drifts, Shown, SameShape, Stored, Field

(* A run that advances has ensured and judged one position more. *)
LEMMA AdvanceKeeps ==
  ASSUME TypeOK, NEW r \in Runs, WalkInv(r), Running(r),
         Advanced(r), touched'[r] = touched[r],
         \/ cms' = cms /\ cms[Here(r)] # Absent /\ Noted(r)
         \/ /\ cms[Here(r)] = Absent
            /\ cms' = [cms EXCEPT ![Here(r)] = Made(Definition[r], at[r])]
            /\ warned'[r] = warned[r]
  PROVE  WalkInv(r)'
<1>. DEFINE d == Definition[r]
            here == Path(d, at[r])
<1>0. /\ cms \in [Paths -> Values]
      /\ \A path \in Paths :
           cms[path] \in IF path.field = None THEN {Container, Absent} ELSE Stored \cup {Absent}
  BY DEF TypeOK
<1>1. /\ at[r] \in Positions(d) /\ Validate(d) /\ d \in Schema
      /\ Here(r) = here /\ here \in Paths
      /\ Made(d, at[r]) # Absent
      /\ IsField(at[r]) => SameShape(Made(d, at[r]), FieldAt(d, at[r]))
  BY HereParts DEF Here
<1>2. Live(r)
  BY DEF Live
<1>3. /\ \A p \in Passed(r) : Ensured(r, p) /\ Judged(r, p)
      /\ warned[r] \subseteq {Path(d, p) : p \in Passed(r)}
  BY <1>2 DEF WalkInv
<1>4. Passed(r)' \subseteq Passed(r) \cup {at[r]}
  BY <1>1, AfterWalks DEF Passed, Advanced
<1>5. \A p \in Passed(r) : Path(d, p) # here /\ Path(d, p) \in Paths
  <2>. SUFFICES ASSUME NEW p \in Passed(r) PROVE Path(d, p) # here /\ Path(d, p) \in Paths
    OBVIOUS
  <2>1. p \in Positions(d) /\ Before(p, at[r])
    BY DEF Passed
  <2>2. p # at[r]
    BY <1>1, <2>1, WalkBounds
  <2>. QED
    BY <1>1, <2>1, <2>2, PathsDiffer, PathParts
<1>6. here \notin warned[r]
  BY <1>3, <1>5
<1>7. \A path : path # here => (path \in warned'[r] <=> path \in warned[r])
  BY <1>1 DEF Noted
<1>8. \A path \in Paths : path # here => cms'[path] = cms[path]
  BY <1>0, <1>1
<1>9. ASSUME NEW p \in Passed(r) PROVE Ensured(r, p)' /\ Judged(r, p)'
  <2>1. Path(d, p) # here /\ Path(d, p) \in Paths /\ Ensured(r, p) /\ Judged(r, p)
    BY <1>3, <1>5
  <2>2. /\ cms'[Path(d, p)] = cms[Path(d, p)]
        /\ Path(d, p) \in warned'[r] <=> Path(d, p) \in warned[r]
    BY <1>7, <1>8, <2>1
  <2>3. Ensured(r, p)'
    BY <2>1, <2>2 DEF Ensured
  <2>4. Judged(r, p)'
    BY <2>1, <2>2 DEF Judged, SameShape
  <2>. QED
    BY <2>3, <2>4
<1>10. cms'[here] # Absent
  BY <1>0, <1>1
<1>11. ASSUME IsField(at[r])
       PROVE  here \in warned'[r] <=> ~SameShape(cms'[here], FieldAt(d, at[r]))
  <2>1. CASE cms' = cms /\ cms[here] # Absent /\ Noted(r)
    <3>1. FieldAt(d, at[r]) \in Field /\ here.field # None
      BY <1>1, <1>11, PathParts
    <3>2. cms[here] \in Stored
      BY <1>0, <1>1, <2>1, <3>1
    <3>3. FieldAt(d, at[r]).type \in Types
      BY <1>11, HereParts
    <3>4. here \in warned'[r] <=> Drifts(Shown(cms[here]), FieldAt(d, at[r]))
      BY <1>1, <1>6, <1>11, <2>1 DEF Noted
    <3>. QED
      BY <2>1, <3>1, <3>2, <3>3, <3>4, DriftSeen
  <2>2. CASE cms' = [cms EXCEPT ![here] = Made(d, at[r])] /\ warned'[r] = warned[r]
    <3>1. cms'[here] = Made(d, at[r])
      BY <1>0, <1>1, <2>2
    <3>. QED
      BY <1>1, <1>6, <1>11, <2>2, <3>1
  <2>. QED
    BY <1>1, <2>1, <2>2
<1>12. ASSUME NEW p \in Positions(d), p = at[r] PROVE Ensured(r, p)' /\ Judged(r, p)'
  <2>1. Ensured(r, p)'
    BY <1>10, <1>12 DEF Ensured
  <2>2. Judged(r, p)'
    BY <1>11, <1>12 DEF Judged, SameShape
  <2>. QED
    BY <2>1, <2>2
<1>13. \A p \in Passed(r)' : Ensured(r, p)' /\ Judged(r, p)'
  <2>. SUFFICES ASSUME NEW p \in Passed(r)' PROVE Ensured(r, p)' /\ Judged(r, p)'
    OBVIOUS
  <2>1. CASE p \in Passed(r)
    BY <1>9, <2>1
  <2>2. CASE p = at[r]
    BY <1>1, <1>12, <2>2
  <2>. QED
    BY <1>4, <2>1, <2>2
<1>14. Passed(r) \cup {at[r]} \subseteq Passed(r)'
  BY <1>1, AfterLater DEF Passed, Advanced
<1>15. warned'[r] \subseteq {Path(d, p) : p \in Passed(r)'}
  <2>1. warned'[r] \subseteq warned[r] \cup {here}
    BY <1>1 DEF Noted
  <2>. QED
    BY <1>3, <1>14, <2>1
<1>. QED
  BY <1>13, <1>15 DEF WalkInv

LEMMA InvInit == Init => IInv
<1>. SUFFICES ASSUME Init PROVE IInv
  OBVIOUS
<1>1. ASSUME NEW r \in Runs PROVE WalkInv(r) /\ Claims(r)
  BY <1>1 DEF Init, WalkInv, Claims, Live, Running
<1>2. ClaimedOnce
  BY DEF Init, ClaimedOnce
<1>. QED
  BY <1>1, <1>2, TypeInit DEF IInv

LEMMA InvStep == IInv /\ [Next]_vars => IInv'
<1>. SUFFICES ASSUME IInv, [Next]_vars PROVE IInv'
  OBVIOUS
<1>0. /\ TypeOK /\ TypeOK'
      /\ cms \in [Paths -> Values]
      /\ pc \in [Runs -> Labels] /\ at \in [Runs -> Nat \X Nat]
      /\ created \in [Runs -> SUBSET Paths] /\ warned \in [Runs -> SUBSET Paths]
      /\ touched \in [Runs -> SUBSET Paths]
      /\ \A r \in Runs : WalkInv(r) /\ Claims(r)
      /\ ClaimedOnce
  BY TypeStep DEF IInv, TypeOK, ResultTypeOK
<1>1. ASSUME NEW r \in Runs, Start(r) PROVE IInv'
  <2>1. /\ cms' = cms
        /\ \A q \in Runs \ {r} : Unchanged(q) /\ touched'[q] = touched[q]
        /\ at'[r] = <<0, 0>> /\ created'[r] = {} /\ warned'[r] = {}
    BY <1>0, <1>1 DEF Start, Goto, Unchanged
  <2>2. ASSUME NEW q \in Runs PROVE (WalkInv(q) /\ Claims(q))'
    <3>1. CASE q = r
      <4>1. Passed(r)' = {}
        <5>1. Definition[r] \in Schema
          OBVIOUS
        <5>. QED
          BY <2>1, <5>1, WalkBounds DEF Passed
      <4>. QED
        BY <2>1, <3>1, <4>1 DEF WalkInv, Claims
    <3>2. CASE q # r
      BY <1>0, <2>1, <3>2, GrowthKeeps
    <3>. QED
      BY <3>1, <3>2
  <2>3. ClaimedOnce'
    BY <1>0, <2>1 DEF ClaimedOnce, Unchanged
  <2>. QED
    BY <1>0, <2>2, <2>3 DEF IInv
<1>2. ASSUME NEW r \in Runs, RunStep(r) \/ Kill(r) PROVE IInv'
  <2>1. /\ Running(r) /\ UNCHANGED <<edits, touched>>
        /\ \A q \in Runs \ {r} : Unchanged(q)
    BY <1>0, <1>2, RunStepCases
  <2>2. /\ Here(r) \in Paths /\ Made(Definition[r], at[r]) # Absent
    BY <1>0, <2>1, HereParts
  <2>3. \A path \in Paths : cms'[path] = cms[path] \/ (cms[path] = Absent /\ cms'[path] # Absent)
    <3>1. \/ cms' = cms
          \/ cms[Here(r)] = Absent /\ cms' = [cms EXCEPT ![Here(r)] = Made(Definition[r], at[r])]
      BY <1>0, <1>2, RunStepCases
    <3>. QED
      BY <1>0, <2>2, <3>1
  <2>4. \A q \in Runs \ {r} : (WalkInv(q) /\ Claims(q))'
    BY <1>0, <2>1, <2>3, GrowthKeeps
  <2>5. WalkInv(r)'
    <3>1. CASE Failed(r)
      BY <3>1 DEF Failed, WalkInv, Live, Running
    <3>2. CASE /\ pc'[r] \in {"create", "refetch"} /\ cms' = cms /\ at'[r] = at[r]
               /\ created'[r] = created[r] /\ warned'[r] = warned[r]
      <4>1. Live(r) /\ touched'[r] = touched[r]
        BY <2>1 DEF Live
      <4>. QED
        BY <1>0, <3>2, <4>1 DEF WalkInv, Passed, Ensured, Judged, SameShape
    <3>3. CASE Advanced(r) /\ cms' = cms /\ cms[Here(r)] # Absent /\ Noted(r)
      BY <1>0, <2>1, <3>3, AdvanceKeeps
    <3>4. CASE /\ Advanced(r) /\ cms[Here(r)] = Absent
               /\ cms' = [cms EXCEPT ![Here(r)] = Made(Definition[r], at[r])]
               /\ warned'[r] = warned[r]
      BY <1>0, <2>1, <3>4, AdvanceKeeps
    <3>. QED
      BY <1>0, <1>2, <3>1, <3>2, <3>3, <3>4, RunStepCases
  <2>6. \/ Failed(r)
        \/ /\ Live(r)'
           /\ \/ created'[r] = created[r]
              \/ created'[r] = created[r] \cup {Here(r)} /\ cms[Here(r)] = Absent
                   /\ cms' = [cms EXCEPT ![Here(r)] = Made(Definition[r], at[r])]
    BY <1>0, <1>2, RunStepCases DEF Live, Running, Advanced
  <2>7. Claims(r)'
    <3>1. created[r] \subseteq Paths /\ touched'[r] = touched[r] /\ Claims(r)
      BY <1>0, <2>1
    <3>2. CASE Failed(r)
      BY <3>2 DEF Failed, Claims
    <3>3. CASE Live(r)' /\ created'[r] = created[r]
      BY <2>3, <3>1, <3>3 DEF Claims
    <3>4. CASE /\ Live(r)' /\ created'[r] = created[r] \cup {Here(r)}
               /\ cms' = [cms EXCEPT ![Here(r)] = Made(Definition[r], at[r])]
      <4>1. cms'[Here(r)] # Absent
        BY <1>0, <2>2, <3>4
      <4>. QED
        BY <2>3, <3>1, <3>4, <4>1 DEF Claims
    <3>. QED
      BY <2>6, <3>2, <3>3, <3>4
  <2>8. ClaimedOnce'
    <3>1. ASSUME NEW q \in Runs, q # r
          PROVE  created'[q] \cap created'[r] \subseteq touched'[q] \cup touched'[r]
      <4>1. /\ created'[q] = created[q] /\ UNCHANGED touched
            /\ created[q] \cap created[r] \subseteq touched[q] \cup touched[r]
            /\ \A path \in created[q] : cms[path] # Absent \/ path \in touched[q]
        BY <1>0, <2>1, <3>1 DEF Unchanged, ClaimedOnce, Claims
      <4>2. \/ created'[r] = {}
            \/ created'[r] = created[r]
            \/ created'[r] = created[r] \cup {Here(r)} /\ cms[Here(r)] = Absent
        BY <2>6 DEF Failed
      <4>3. CASE created'[r] = {}
        BY <4>3
      <4>4. CASE created'[r] = created[r]
        BY <4>1, <4>4
      <4>5. CASE created'[r] = created[r] \cup {Here(r)} /\ cms[Here(r)] = Absent
        <5>1. Here(r) \in created[q] => Here(r) \in touched[q]
          BY <4>1, <4>5
        <5>. QED
          BY <4>1, <4>5, <5>1
      <4>. QED
        BY <4>2, <4>3, <4>4, <4>5
    <3>2. ASSUME NEW p \in Runs \ {r}, NEW q \in Runs \ {r}, p # q
          PROVE  created'[p] \cap created'[q] \subseteq touched'[p] \cup touched'[q]
      BY <1>0, <2>1, <3>2 DEF Unchanged, ClaimedOnce
    <3>3. ASSUME NEW p \in Runs, NEW q \in Runs, p # q
          PROVE  created'[p] \cap created'[q] \subseteq touched'[p] \cup touched'[q]
      <4>1. CASE q = r
        BY <3>1, <3>3, <4>1
      <4>2. CASE p = r
        BY <3>1, <3>3, <4>2
      <4>3. CASE p # r /\ q # r
        BY <3>2, <3>3, <4>3
      <4>. QED
        BY <4>1, <4>2, <4>3
    <3>. QED
      BY <3>3 DEF ClaimedOnce
  <2>9. \A q \in Runs : (WalkInv(q) /\ Claims(q))'
    BY <2>4, <2>5, <2>7
  <2>. QED
    BY <1>0, <2>8, <2>9 DEF IInv
<1>3. ASSUME NEW path \in Paths, NEW value \in Shapes \cup {Container, Absent}, Edit(path, value)
      PROVE  IInv'
  <2>1. \A r \in Runs : (WalkInv(r) /\ Claims(r))'
    BY <1>0, <1>3, EditKeeps
  <2>2. created' = created /\ \A r \in Runs : touched[r] \subseteq touched'[r]
    BY <1>0, <1>3, EditEffect DEF runs
  <2>3. ClaimedOnce'
    BY <1>0, <2>2 DEF ClaimedOnce
  <2>. QED
    BY <1>0, <2>1, <2>3 DEF IInv
<1>4. CASE UNCHANGED vars
  <2>1. ASSUME NEW r \in Runs PROVE (WalkInv(r) /\ Claims(r))'
    BY <1>0, <1>4, GrowthKeeps DEF vars, runs, Unchanged
  <2>2. ClaimedOnce'
    BY <1>0, <1>4 DEF ClaimedOnce, vars, runs
  <2>. QED
    BY <1>0, <2>1, <2>2 DEF IInv
<1>. QED
  BY <1>1, <1>2, <1>3, <1>4 DEF Next

LEMMA Invariant == Spec => []IInv
  BY InvInit, InvStep, PTL DEF Spec

(* A run that has exited 0 has passed every position. *)
LEMMA AllPassed ==
  ASSUME TypeOK, NEW r \in Runs, pc[r] = "ok"
  PROVE  Live(r) /\ Passed(r) = Positions(Definition[r])
<1>1. at[r] = End(Definition[r]) /\ Definition[r] \in Schema
  BY DEF TypeOK, AtTypeOK
<1>. QED
  BY <1>1, WalkBounds DEF Passed, Live

-----------------------------------------------------------------------------
(* The properties. *)

(* A migration that exits 0 has ensured its whole definition, however many  *)
(* other runs create, fail and stop meanwhile, and whatever they declare.   *)
THEOREM SuccessHolds == Spec => []SuccessEnsures
<1>1. IInv => SuccessEnsures
  <2>. SUFFICES ASSUME IInv, NEW r \in Runs, pc[r] = "ok", NEW p \in Positions(Definition[r])
                PROVE  cms[Path(Definition[r], p)] # Absent \/ Path(Definition[r], p) \in touched[r]
    BY DEF SuccessEnsures
  <2>1. Live(r) /\ p \in Passed(r)
    BY AllPassed DEF IInv
  <2>. QED
    BY <2>1 DEF IInv, WalkInv, Ensured
<1>. QED
  BY <1>1, Invariant, PTL

(* A migration that exits 0 has warned of exactly the fields whose type,    *)
(* required or multiple differ, also of those another run created for it.   *)
THEOREM DriftHolds == Spec => []DriftIsReported
<1>1. IInv => DriftIsReported
  <2>. SUFFICES ASSUME IInv, NEW r \in Runs, pc[r] = "ok", NEW p \in Positions(Definition[r]),
                       IsField(p), Path(Definition[r], p) \notin touched[r]
                PROVE  Path(Definition[r], p) \in warned[r]
                         <=> ~SameShape(cms[Path(Definition[r], p)], FieldAt(Definition[r], p))
    BY DEF DriftIsReported
  <2>1. Live(r) /\ p \in Passed(r)
    BY AllPassed DEF IInv
  <2>2. Judged(r, p)
    BY <2>1 DEF IInv, WalkInv
  <2>. QED
    BY <2>2 DEF Judged
<1>. QED
  BY <1>1, Invariant, PTL

(* No two runs claim the same creation. *)
THEOREM ClaimsHold == Spec => []ClaimedOnce
  BY Invariant, PTL DEF IInv

(* The runs, which look up and create in separate calls, overlap, disagree  *)
(* and stop halfway, together implement a schema that only grows.           *)
THEOREM StoreImplemented == Spec => ImplementsStore
<1>1. Init => Store!Init
  BY DEF Init, Store!Init
<1>2. IInv /\ [Next]_vars => [Store!Next]_<<cms, edits>>
  <2>. SUFFICES ASSUME IInv, [Next]_vars PROVE [Store!Next]_<<cms, edits>>
    OBVIOUS
  <2>0. TypeOK /\ cms \in [Paths -> Values]
    BY DEF IInv, TypeOK
  <2>1. ASSUME NEW r \in Runs, Start(r) PROVE UNCHANGED <<cms, edits>>
    BY <2>1 DEF Start
  <2>2. ASSUME NEW r \in Runs, RunStep(r) \/ Kill(r) PROVE [Store!Next]_<<cms, edits>>
    <3>1. Running(r) /\ UNCHANGED edits
      BY <2>0, <2>2, RunStepCases
    <3>2. CASE cms' = cms
      BY <3>1, <3>2
    <3>3. CASE /\ cms[Here(r)] = Absent
               /\ cms' = [cms EXCEPT ![Here(r)] = Made(Definition[r], at[r])]
      <4>1. at[r] \in Positions(Definition[r]) /\ Here(r) \in Paths
        BY <2>0, <3>1, HereParts
      <4>2. Made(Definition[r], at[r]) \in Declared(Here(r))
        BY <4>1, PathParts DEF Here
      <4>3. Holder(Here(r)) # Here(r) => cms[Holder(Here(r))] # Absent
        <5>. SUFFICES ASSUME Holder(Here(r)) # Here(r) PROVE cms[Holder(Here(r))] # Absent
          OBVIOUS
        <5>1. PICK q \in Positions(Definition[r]) :
                /\ Before(q, at[r]) /\ ~IsField(q)
                /\ Path(Definition[r], q) = Holder(Here(r))
          BY <4>1, HolderBefore DEF Here
        <5>2. Ensured(r, q)
          BY <3>1, <5>1 DEF IInv, WalkInv, Live, Passed
        <5>. QED
          BY <5>1, <5>2 DEF Ensured
      <4>4. Store!Grow(Here(r))
        BY <3>1, <3>3, <4>2, <4>3 DEF Store!Grow
      <4>. QED
        BY <4>1, <4>4 DEF Store!Next
    <3>. QED
      BY <2>0, <2>2, <3>2, <3>3, RunStepCases
  <2>3. ASSUME NEW path \in Paths, NEW value \in Shapes \cup {Container, Absent},
               Edit(path, value)
        PROVE  Store!Next
    <3>1. value \in Values
      BY DEF Values
    <3>2. Store!Edit(path)
      BY <2>0, <2>3, <3>1, EditEffect DEF Store!Edit
    <3>. QED
      BY <3>2 DEF Store!Next
  <2>. QED
    BY <2>1, <2>2, <2>3 DEF Next, vars
<1>. QED
  BY <1>1, <1>2, Invariant, PTL DEF Spec, ImplementsStore, Store!Spec
=============================================================================
