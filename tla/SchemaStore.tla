---------------------------- MODULE SchemaStore -----------------------------
(***************************************************************************)
(* What the operators of the CMS may rely on while migrations run: the     *)
(* schema only grows, by one declared project, model or field at a time,   *)
(* each inside a container that is already there, and nothing that exists  *)
(* is ever altered or removed, except by the operators themselves.         *)
(*                                                                         *)
(* CmsMigrate implements it although its runs find and create separately,  *)
(* overlap, declare different schemas and stop halfway.                    *)
(***************************************************************************)
EXTENDS Naturals

CONSTANTS Paths,          (* projects, models and fields                     *)
          Values,         (* what may be found at a path                     *)
          Absent,         (* nothing there                                   *)
          Holder(_),      (* the model of a field, the project of a model    *)
          Declared(_)     (* what the definitions want at a path             *)

VARIABLES cms, edits

Init ==
  /\ cms = [p \in Paths |-> Absent]
  /\ edits = 0

Grow(p) ==
  /\ cms[p] = Absent
  /\ Holder(p) # p => cms[Holder(p)] # Absent
  /\ \E value \in Declared(p) : cms' = [cms EXCEPT ![p] = value]
  /\ UNCHANGED edits

Edit(p) ==
  /\ \E value \in Values : cms' = [cms EXCEPT ![p] = value]
  /\ edits' = edits + 1

Next == \E p \in Paths : Grow(p) \/ Edit(p)

Spec == Init /\ [][Next]_<<cms, edits>>
=============================================================================
