--------------------------- MODULE MCTSDBBackfill ---------------------------
(* Two runs of the command on one machine.                                  *)
EXTENDS TSDBBackfill, TLC

RulesOnly == {{"rules"}}

AnyParts == SUBSET {"series", "rules"}

Symmetry == Permutations(Jobs)
=============================================================================
