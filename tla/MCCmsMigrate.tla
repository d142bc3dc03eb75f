---------------------------- MODULE MCCmsMigrate ----------------------------
(* Small instances of CmsMigrate. *)
EXTENDS CmsMigrate

CONSTANTS old, new, broken

KeyCd ==
  [alias |-> "key_cd", type |-> "text", required |-> TRUE, unique |-> TRUE, multiple |-> FALSE]
Title(required) ==
  [alias |-> "title", type |-> "text", required |-> required, unique |-> FALSE, multiple |-> FALSE]

Incident(fields) == [alias |-> "incident", key |-> "key_cd", fields |-> fields]
Audit == [alias |-> "audit", key |-> "key_cd", fields |-> <<KeyCd>>]

(* Two versions of the job disagree about a field, and the later one has a  *)
(* second model; a third declares a field twice, which Validate refuses.    *)
Versions ==
  [r \in Runs |->
     [project |-> "map",
      models  |-> CASE r = old -> <<Incident(<<KeyCd, Title(FALSE)>>)>>
                    [] r = new -> <<Incident(<<KeyCd, Title(TRUE)>>), Audit>>
                    [] r = broken -> <<Incident(<<KeyCd, Title(TRUE), Title(FALSE)>>)>>]]

(* An operator gives a field a type the job does not know, and makes it     *)
(* unique, which the job cannot.                                            *)
Console == {[type |-> "integer", required |-> FALSE, unique |-> TRUE, multiple |-> FALSE]}
=============================================================================
