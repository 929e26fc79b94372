------------------------------ MODULE Backfill ------------------------------
(***************************************************************************)
(* What runs of slom generate prometheus-tsdb promise of the TSDB directory,*)
(* without the processes and temporary files they work with: a run adds the *)
(* blocks of the series, then the blocks computed from its rules, and ends  *)
(* once. There is no transaction: a run that fails or is killed leaves what *)
(* it added.                                                                *)
(***************************************************************************)
EXTENDS Naturals

CONSTANTS Jobs, Commands, SeriesBlocks

VARIABLES
    wants,   \* what each job was asked for
    outcome, \* "running", then how it ended
    made,    \* rule blocks computed for it so far
    added    \* the blocks it added: pairs of a kind and a number

Series == {"series"} \X (1..SeriesBlocks)

Rules(j) == {"rules"} \X (1..made[j])

SeriesAdded(j) == "series" \in wants[j] => Series \subseteq added[j]

Init ==
    /\ wants \in [Jobs -> Commands]
    /\ outcome = [j \in Jobs |-> "running"]
    /\ made = [j \in Jobs |-> 0]
    /\ added = [j \in Jobs |-> {}]

(* promtool adds the series, and goes on when the run is killed, or fails to *)
(* read its output, meanwhile.                                              *)
AddSeries(j) ==
    /\ "series" \in wants[j] /\ made[j] = 0
    /\ outcome[j] \in {"running", "error", "killed"}
    /\ \E b \in Series \ added[j] : added' = [added EXCEPT ![j] = @ \cup {b}]
    /\ UNCHANGED <<wants, outcome, made>>

(* A block is computed from rules, with all of the series in place and none *)
(* of the other rule blocks, which would be read as samples.                *)
Make(j) ==
    /\ "rules" \in wants[j] /\ SeriesAdded(j) /\ added[j] \subseteq Series
    /\ outcome[j] \in {"running", "error", "killed"}
    /\ made' = [made EXCEPT ![j] = @ + 1]
    /\ UNCHANGED <<wants, outcome, added>>

Add(j) ==
    /\ outcome[j] = "running"
    /\ \E b \in Rules(j) \ added[j] : added' = [added EXCEPT ![j] = @ \cup {b}]
    /\ UNCHANGED <<wants, outcome, made>>

End(j) ==
    /\ outcome[j] = "running"
    /\ \/ /\ SeriesAdded(j) /\ Rules(j) \subseteq added[j]
          /\ outcome' = [outcome EXCEPT ![j] = "ok"]
       \/ \E o \in {"error", "killed"} : outcome' = [outcome EXCEPT ![j] = o]
    /\ UNCHANGED <<wants, made, added>>

Next == \E j \in Jobs : AddSeries(j) \/ Make(j) \/ Add(j) \/ End(j)

Spec == Init /\ [][Next]_<<wants, outcome, made, added>>
=============================================================================
