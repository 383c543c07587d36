------------------------------ MODULE S7Fields ------------------------------
(***************************************************************************)
(* The fields that a client converts: a floating-point one (S7Float) or a   *)
(* STRING (S7String).  A field is of one type and the conversions share no  *)
(* state, so that a behaviour is about one field.                           *)
(***************************************************************************)
EXTENDS S7Float, S7String

VARIABLE field      \* "number" or "string"

fieldVars == <<field, floatVars, stringVars>>

FieldInit ==
  /\ field \in {"number", "string"}
  /\ FloatInit
  /\ StringInit

FieldNext ==
  /\ UNCHANGED field
  /\ \/ field = "number" /\ FloatNext /\ UNCHANGED stringVars
     \/ field = "string" /\ StringNext /\ UNCHANGED floatVars

FieldSpec == FieldInit /\ [][FieldNext]_fieldVars
=============================================================================
