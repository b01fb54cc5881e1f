----------------------------- MODULE MCConditions -----------------------------
(* Conditions of chores for TLC.  A forecast has two days of two hours.    *)
EXTENDS ConditionEvaluator

(* freezing: the reading that conditions on the current weather ask for. *)
CONSTANT freezing

Sound(source) == [of |-> source, test |-> "sound"]

Both == [logic |-> "and", conditions |-> <<Sound("amount"), Sound("current")>>]

Either == [logic |-> "or", conditions |-> <<Sound("current"), Sound("events")>>]

(* The example of the schema: titles compared for equality. *)
Meeting == [logic |-> "and", conditions |-> <<[of |-> "events", test |-> "never"]>>]

(* A threshold that is no number. *)
Mistyped == [logic |-> "or", conditions |-> <<[of |-> "amount", test |-> "clash"], Sound("current")>>]

Always == [logic |-> "and", conditions |-> <<>>]

AllConfigs == {Both, Either, Meeting, Mistyped, Always}

===============================================================================
