----------------------------- MODULE CmsMigrate -----------------------------
(***************************************************************************)
(* The CMS migration job: EnsureSchema walks a definition (project, then   *)
(* each model followed by its fields) and, for each of them, looks it up   *)
(* and creates it if it is missing.  A creation that meets a conflict is   *)
(* looked up again.  A field that exists with another shape is reported    *)
(* as drift and left alone.  The first error ends the run; the operator    *)
(* runs the job again.                                                     *)
(*                                                                         *)
(* Runs may overlap, and may carry different definitions (two versions of  *)
(* the job).  Operators edit the schema in the CMS console meanwhile.  One *)
(* step is one HTTP call.                                                  *)
(***************************************************************************)
EXTENDS Naturals, Sequences, FiniteSets

CONSTANTS
  Runs,        (* executions of the job                                      *)
  Definition,  (* [Runs -> the SchemaDefinition compiled into the job]       *)
  Aliases,     (* the aliases in use                                         *)
  None,        (* no alias                                                   *)
  Types,       (* the field types of the domain                              *)
  Unspecified, (* the zero FieldType                                         *)
  CmsTypes,    (* the types a field of the CMS may have                      *)
  Absent,      (* no such resource in the CMS                                *)
  Container,   (* a project or a model                                       *)
  Shapes,      (* the field shapes operators choose in the console           *)
  MaxEdits,    (* bound: how often operators use the console                 *)
  Faults       (* the failures that may happen                               *)

FaultKinds ==
  { "get",       (* a GET fails, its retries included                        *)
    "post",      (* a POST fails and does nothing                            *)
    "ack",       (* a POST takes effect and its answer is lost or unreadable *)
    "noschema",  (* the CMS names no schemaId for a model                    *)
    "kill" }     (* the task is terminated                                   *)

Field ==
  [alias : Aliases, type : Types \cup {Unspecified},
   required : BOOLEAN, unique : BOOLEAN, multiple : BOOLEAN]
Model == [alias : Aliases, key : Aliases \cup {None}, fields : Seq(Field)]
Schema == [project : Aliases, models : Seq(Model)]

(* What the CMS keeps of a field. *)
Stored == [type : CmsTypes, required : BOOLEAN, unique : BOOLEAN, multiple : BOOLEAN]

ASSUME CmsMigrateAssumption ==
  /\ None \notin Aliases
  /\ Unspecified \notin Types
  /\ Types \subseteq CmsTypes
  /\ Definition \in [Runs -> Schema]
  /\ Shapes \subseteq Stored
  /\ Absent \notin Stored \cup {Container}
  /\ MaxEdits \in Nat
  /\ Faults \subseteq FaultKinds

-----------------------------------------------------------------------------
(* The order of Execute: <<0, 0>> is the project, <<i, 0>> the i-th model   *)
(* and <<i, j>> its j-th field.                                             *)

Positions(d) ==
  {<<0, 0>>} \cup UNION {{<<i, j>> : j \in 0..Len(d.models[i].fields)} : i \in 1..Len(d.models)}

End(d) == <<Len(d.models) + 1, 0>>

(* The position after p. *)
After(d, p) ==
  IF p[1] > 0 /\ p[2] < Len(d.models[p[1]].fields)
    THEN <<p[1], p[2] + 1>>
    ELSE <<p[1] + 1, 0>>

IsField(p) == p[2] > 0
ModelAt(d, p) == d.models[p[1]]
FieldAt(d, p) == ModelAt(d, p).fields[p[2]]

(* Where the resource of a position is in the CMS. *)
Path(d, p) ==
  [project |-> d.project,
   model   |-> IF p[1] = 0 THEN None ELSE ModelAt(d, p).alias,
   field   |-> IF p[2] = 0 THEN None ELSE FieldAt(d, p).alias]

Paths == UNION {{Path(Definition[r], p) : p \in Positions(Definition[r])} : r \in Runs}

(* A field belongs to a model, a model to a project, a project to itself. *)
Holder(path) ==
  IF path.field # None
    THEN [path EXCEPT !.field = None]
    ELSE [path EXCEPT !.model = None]

Distinct(s, key(_)) == \A i, j \in 1..Len(s) : key(s[i]) = key(s[j]) => i = j
Alias(x) == x.alias

ValidModel(m) ==
  /\ Len(m.fields) > 0                                               (* R4 *)
  /\ Distinct(m.fields, Alias)                                       (* R5 *)
  /\ \A j \in 1..Len(m.fields) : m.fields[j].type \in Types          (* R6 *)
  /\ \E j \in 1..Len(m.fields) :                                     (* R7 *)
       m.fields[j].alias = m.key /\ m.fields[j].required /\ m.fields[j].unique

(* SchemaDefinition.Validate.  Aliases are well formed (R1). *)
Validate(d) ==
  /\ Len(d.models) > 0                                               (* R2 *)
  /\ Distinct(d.models, Alias)                                       (* R3 *)
  /\ \A i \in 1..Len(d.models) : ValidModel(d.models[i])

-----------------------------------------------------------------------------
(* A field as CreateField makes it and as a GET shows it. *)

(* createFieldBody has no unique flag, so the CMS leaves it off. *)
Sent(f) ==
  [type |-> f.type, required |-> f.required, unique |-> FALSE, multiple |-> f.multiple]

(* FieldDTO and fieldTypeFromAPI. *)
Shown(stored) ==
  [type |-> IF stored.type \in Types THEN stored.type ELSE Unspecified,
   required |-> stored.required, unique |-> FALSE, multiple |-> stored.multiple]

(* Variant: only the types are compared. *)
DriftsInType(got, want) == got.type # want.type

(* detectFieldDrift; uniqueness is not compared. *)
Drifts(got, want) ==
  \/ got.type # want.type
  \/ got.required # want.required
  \/ got.multiple # want.multiple

(* What a successful creation at p leaves in the CMS. *)
Made(d, p) == IF IsField(p) THEN Sent(FieldAt(d, p)) ELSE Container

Values == Stored \cup {Container, Absent}

-----------------------------------------------------------------------------
VARIABLES
  cms,      (* [Paths -> Stored, Container or Absent]                        *)
  pc,       (* idle, find, create, refetch, ok (exit 0), failed (exit 1)     *)
  at,       (* the position in the definition                                *)
  created,  (* EnsureSchemaResult: what the run says it created              *)
  warned,   (* EnsureSchemaResult.DriftWarnings                              *)
  edits,    (* how often operators have used the console                     *)
  touched   (* history: [Runs -> the paths they used it on since it started] *)

runs == <<pc, at, created, warned>>
vars == <<cms, runs, edits, touched>>

Here(r) == Path(Definition[r], at[r])

Init ==
  /\ cms = [path \in Paths |-> Absent]
  /\ pc = [r \in Runs |-> "idle"]
  /\ at = [r \in Runs |-> <<0, 0>>]
  /\ created = [r \in Runs |-> {}]
  /\ warned = [r \in Runs |-> {}]
  /\ edits = 0
  /\ touched = [r \in Runs |-> {}]

Running(r) == pc[r] \in {"find", "create", "refetch"}
Goto(r, label) == pc' = [pc EXCEPT ![r] = label]

(* On to the next resource; after the last one the job exits 0. *)
Advance(r) ==
  LET next == After(Definition[r], at[r]) IN
  /\ at' = [at EXCEPT ![r] = next]
  /\ Goto(r, IF next = End(Definition[r]) THEN "ok" ELSE "find")

(* Variant: the error is logged and the walk goes on. *)
FailSkipped(r) == Advance(r) /\ UNCHANGED <<created, warned>>

(* Fail-fast: Execute returns, its result is dropped and the job exits 1. *)
Fail(r) ==
  /\ Goto(r, "failed")
  /\ at' = [at EXCEPT ![r] = <<0, 0>>]
  /\ created' = [created EXCEPT ![r] = {}]
  /\ warned' = [warned EXCEPT ![r] = {}]

(* The resource is there and goes into the result.  A model without a       *)
(* schemaId ends the run, whoever created it.                               *)
Resolved(r, claim, drift) ==
  \/ /\ Advance(r)
     /\ created' = [created EXCEPT ![r] = @ \cup claim]
     /\ warned' = [warned EXCEPT ![r] = @ \cup drift]
  \/ "noschema" \in Faults /\ at[r][1] > 0 /\ ~IsField(at[r]) /\ Fail(r)

(* The resource was there already: nothing is changed, drift is recorded. *)
Found(r) ==
  LET drifts == IsField(at[r]) /\ Drifts(Shown(cms[Here(r)]), FieldAt(Definition[r], at[r])) IN
  Resolved(r, {}, {path \in {Here(r)} : drifts})

(* An operator starts the job. *)
Start(r) ==
  /\ ~Running(r)
  /\ Goto(r, IF Validate(Definition[r]) THEN "find" ELSE "failed")
  /\ at' = [at EXCEPT ![r] = <<0, 0>>]
  /\ created' = [created EXCEPT ![r] = {}]
  /\ warned' = [warned EXCEPT ![r] = {}]
  /\ touched' = [touched EXCEPT ![r] = {}]
  /\ UNCHANGED <<cms, edits>>

(* Variant: the listing does not reach the resource. *)
SeesNothing(path) == FALSE

(* Variant: the first project or model of the listing is taken. *)
SeesFirst(path) ==
  \E p \in Paths :
    /\ p.field = path.field
    /\ \/ p = path
       \/ path.field = None /\ (p.model = None <=> path.model = None)
    /\ cms[p] # Absent

(* FindProjectByAlias, FindModelByAlias, FindFieldByAlias. *)
Sees(path) == cms[path] # Absent

Find(r) ==
  /\ pc[r] = "find"
  /\ \/ "get" \in Faults /\ Fail(r)
     \/ Sees(Here(r)) /\ Found(r)
     \/ ~Sees(Here(r)) /\ Goto(r, "create") /\ UNCHANGED <<at, created, warned>>
  /\ UNCHANGED <<cms, edits, touched>>

(* The CMS (external) answers 409 when the alias is taken. *)
Conflicts(path) == cms[path] # Absent

(* CreateProject, CreateModel, CreateField: one POST, never repeated. *)
Create(r) ==
  LET take == cms' = [cms EXCEPT ![Here(r)] = Made(Definition[r], at[r])] IN
  /\ pc[r] = "create"
  /\ \/ ~Conflicts(Here(r)) /\ take /\ Resolved(r, {Here(r)}, {})
     \/ /\ Conflicts(Here(r))
        /\ Goto(r, "refetch")
        /\ UNCHANGED <<cms, at, created, warned>>
     \/ "post" \in Faults /\ Fail(r) /\ UNCHANGED cms
     \/ "ack" \in Faults /\ ~Conflicts(Here(r)) /\ take /\ Fail(r)
  /\ UNCHANGED <<edits, touched>>

(* Variant: the resource counts as created by this run after all. *)
RefoundAsOwn(r) == Resolved(r, {Here(r)}, {})

(* A conflict: another writer was faster, and its shape may differ. *)
Refound(r) == Found(r)

(* The lookup after a conflict; it may fail, or find nothing any more. *)
Refetch(r) ==
  /\ pc[r] = "refetch"
  /\ \/ "get" \in Faults /\ Fail(r)
     \/ Sees(Here(r)) /\ Refound(r)
     \/ ~Sees(Here(r)) /\ Fail(r)
  /\ UNCHANGED <<cms, edits, touched>>

(* The task times out after 120s or is evicted. *)
Kill(r) ==
  /\ "kill" \in Faults
  /\ Running(r)
  /\ Fail(r)
  /\ UNCHANGED <<cms, edits, touched>>

(* An operator (external) creates a resource, or alters or deletes a field. *)
Edit(path, value) ==
  /\ edits < MaxEdits
  /\ value # cms[path]
  /\ path.field = None => value = Container
  /\ path.field # None => value \in Shapes \cup {Absent}
  /\ Holder(path) # path => cms[Holder(path)] # Absent
  /\ cms' = [cms EXCEPT ![path] = value]
  /\ edits' = edits + 1
  /\ touched' = [r \in Runs |->
                   IF Running(r) \/ pc[r] = "ok" THEN touched[r] \cup {path} ELSE touched[r]]
  /\ UNCHANGED runs

-----------------------------------------------------------------------------
RunStep(r) ==
  \/ Find(r)
  \/ Create(r)
  \/ Refetch(r)

Next ==
  \/ \E r \in Runs : Start(r) \/ RunStep(r) \/ Kill(r)
  \/ \E path \in Paths, value \in Shapes \cup {Container, Absent} : Edit(path, value)

Spec == Init /\ [][Next]_vars

(* A run that is under way gets on, and operators run the job again.        *)
Fairness == \A r \in Runs : WF_vars(RunStep(r)) /\ WF_vars(Start(r))

FairSpec == Spec /\ Fairness

-----------------------------------------------------------------------------
Labels == {"idle", "find", "create", "refetch", "ok", "failed"}

ResultTypeOK ==
  /\ created \in [Runs -> SUBSET Paths]
  /\ warned \in [Runs -> SUBSET Paths]
  /\ touched \in [Runs -> SUBSET Paths]

(* A run in the middle is at a resource of its valid definition, one that   *)
(* has exited 0 is past the last.                                           *)
AtTypeOK ==
  \A r \in Runs :
    /\ at[r] \in Positions(Definition[r]) \cup {End(Definition[r])}
    /\ Running(r) => Validate(Definition[r]) /\ at[r] \in Positions(Definition[r])
    /\ pc[r] = "ok" => Validate(Definition[r]) /\ at[r] = End(Definition[r])

(* Every variable stays within its type; in particular only shapes that the *)
(* CMS knows are ever stored.                                               *)
TypeOK ==
  /\ cms \in [Paths -> Values]
  /\ \A path \in Paths :
       cms[path] \in IF path.field = None THEN {Container, Absent} ELSE Stored \cup {Absent}
  /\ pc \in [Runs -> Labels]
  /\ at \in [Runs -> Nat \X Nat]
  /\ AtTypeOK
  /\ ResultTypeOK
  /\ edits \in 0..MaxEdits

(* NFR-CSS-REL-01: when the job exits 0, everything its definition declares *)
(* is in the CMS, whatever raced with it or failed before; only what an     *)
(* operator has touched meanwhile may be missing.                           *)
SuccessEnsures ==
  \A r \in Runs : pc[r] = "ok" =>
    \A p \in Positions(Definition[r]) :
      LET path == Path(Definition[r], p) IN
      cms[path] # Absent \/ path \in touched[r]

SameShape(stored, want) ==
  <<stored.type, stored.required, stored.multiple>> = <<want.type, want.required, want.multiple>>

(* When the job exits 0, it has warned of exactly the fields whose type,    *)
(* required or multiple differ from the definition, also when another run   *)
(* with another definition won the race to create them.                     *)
DriftIsReported ==
  \A r \in Runs : pc[r] = "ok" =>
    \A p \in Positions(Definition[r]) :
      LET path == Path(Definition[r], p) IN
      IsField(p) /\ path \notin touched[r] =>
        (path \in warned[r] <=> ~SameShape(cms[path], FieldAt(Definition[r], p)))

(* No resource is claimed as created by two runs, unless an operator        *)
(* deleted it between them ("without claiming the create as our own").      *)
ClaimedOnce ==
  \A q, r \in Runs : q # r =>
    created[q] \cap created[r] \subseteq touched[q] \cup touched[r]

(* What the definitions want at a path. *)
Declared(path) ==
  UNION {{Made(Definition[r], p) :
            p \in {q \in Positions(Definition[r]) : Path(Definition[r], q) = path}} : r \in Runs}

(* However runs overlap, fail or disagree, the schema grows as SchemaStore  *)
(* says: nothing that exists is rewritten, and containers come first.       *)
Store == INSTANCE SchemaStore
ImplementsStore == Store!Spec

(* A call fails, a task is killed, or an operator is at the console. (A     *)
(* lookup after a conflict that finds nothing is no failed call.)           *)
Mishap ==
  \/ edits' # edits
  \/ \E r \in Runs :
       /\ Running(r)
       /\ pc'[r] = "failed"
       /\ ~(pc[r] = "refetch" /\ ~Sees(Here(r)))

(* "Partial state is left intact for the next idempotent run to pick up":   *)
(* wherever earlier runs stopped, and although other runs overlap, running  *)
(* the job again succeeds once calls no longer fail.                        *)
Converges ==
  <>[][~Mishap]_vars =>
    \A r \in Runs : Validate(Definition[r]) => []<>(pc[r] = "ok")
=============================================================================
