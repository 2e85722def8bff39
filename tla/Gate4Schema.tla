---------------------------- MODULE Gate4Schema ----------------------------
(***************************************************************************)
(* Gate 4's decision (gateway/gate4_schema.py): the arguments of an action *)
(* against the schema registered for it.  An argument is what pydantic     *)
(* makes of it: [kind |-> "number", value |-> v], or a kind alone.         *)
(***************************************************************************)
EXTENDS Integers

CONSTANT MaxAmount     \* 10_000, the upper bound of an amount

ASSUME AmountAssumption == MaxAmount \in Nat

Schemas == {"readRecord", "updateRecord"}

(* A record_id is "text", text with an unsafe character, of another type   *)
(* or missing.                                                             *)
RecordIdKinds == {"text", "unsafe", "nonText", "missing"}

(* An amount pydantic accepts as a float is a number, infinite or NaN.     *)
AmountKinds == {"number", "posInf", "negInf", "nan", "nonNumber", "missing"}

ArgsType == [recordId : RecordIdKinds, amount : AmountKinds, value : Int]

SafeRecordId(args) == args.recordId = "text"

IsFloat(args) == args.amount \in {"number", "posInf", "negInf", "nan"}

(* `v < 0` and `v > 10_000`: both are false of NaN. *)
BelowZero(args) ==
  \/ args.amount = "negInf"
  \/ args.amount = "number" /\ args.value < 0

AboveMax(args) ==
  \/ args.amount = "posInf"
  \/ args.amount = "number" /\ args.value > MaxAmount

SaneAmount(args) == IsFloat(args) /\ ~(BelowZero(args) \/ AboveMax(args))

WellFormed(action, args) ==
  /\ action \in Schemas
  /\ SafeRecordId(args)
  /\ action = "updateRecord" => SaneAmount(args)
=============================================================================
