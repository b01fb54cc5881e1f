--------------------------- MODULE ChoresRefinement ---------------------------
(***************************************************************************)
(* The chores service keeps the ledger of occurrences: a chore of the      *)
(* ledger is a master, an occurrence an instance, the counter              *)
(* occurrence_count.                                                       *)
(***************************************************************************)
EXTENDS ChoresService

Life ==
    [m \in Masters |-> CASE masters[m] = NoRow -> "unknown"
                         [] masters[m] = Gone  -> "purged"
                         [] OTHER              -> "open"]

Made == [m \in Masters |-> InstancesOf(m)]

Counted == [m \in Masters |-> IF Exists(masters[m]) THEN masters[m].occ ELSE 0]

Ledger == INSTANCE OccurrenceLedger
            WITH Chores <- Masters, Occurrences <- InstIds,
                 life <- Life, made <- Made, counted <- Counted

(* Every step of every handler is a step of the ledger or leaves it alone: *)
(* no interleaving, abort or restart makes an occurrence twice, loses one  *)
(* without its master, or lets the counter run ahead.                      *)
KeepsLedger == Ledger!Spec

===============================================================================
