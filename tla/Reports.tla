--------------------------------- MODULE Reports ---------------------------------
(***************************************************************************)
(* The read side: the pages, lists and badges (WorkViews) and the          *)
(* statistics (Statistics).  They read different columns, so that a      *)
(* behaviour explores one of them and leaves the other at its beginning.   *)
(***************************************************************************)
EXTENDS WorkViews

CONSTANTS Slots, Payloads, LegacyRows, Inters, Subs, Factors, Ends, MaxDay, Counts,
          Capacity,
          MaxRows    \* bound on the rows of the pages, a machine counting twice

VARIABLES
    focus,    \* what the behaviour explores
    acts      \* the rows the statistics read

Stats ==
    INSTANCE Statistics WITH Slots <- Slots, Payloads <- Payloads,
        LegacyRows <- LegacyRows, Inters <- Inters, Subs <- Subs, Factors <- Factors,
        Ends <- Ends, MaxDay <- MaxDay, Counts <- Counts, Capacity <- Capacity,
        Null <- Null, acts <- acts

ASSUME ReportsAssumption == Stats!ConstantsFit

rvars == <<evars, focus, acts>>

ReportsInit ==
    /\ EquipmentInit
    /\ \/ focus = "pages" /\ acts = [k \in Slots |-> Null]
       \/ focus = "statistics" /\ Stats!StatsInit

\* Bound: the pages hold few rows at a time.
RowsShown ==
    2 * Cardinality(Existing) + Cardinality(Asking)
      + Cardinality({i \in Interventions : db.intervention[i].status # "none"})
      + Cardinality({t \in ManualTasks : db.task[t].status # "none"})
      + Cardinality({k \in Actions : action[k] # Null})
      + Cardinality({p \in Purchases : asked[p] # Null})
FewRows == RowsShown <= MaxRows

ReportsNext ==
    /\ UNCHANGED focus
    /\ \/ focus = "pages" /\ EquipmentNext /\ FewRows' /\ UNCHANGED acts
       \/ focus = "statistics" /\ Stats!StatsNext /\ UNCHANGED evars

ReportsSpec == ReportsInit /\ [][ReportsNext]_rvars

------------------------------------------------------------------------------
(* The properties of the two parts *)

\* The parts of the load and of the status of the service add up.
ChargeAdds == focus = "statistics" => Stats!ChargeAdds

\* No hour is in two periods, and only those of a period's last day are in none.
PeriodsAccount == focus = "statistics" => Stats!PeriodsAccount

\* The colour of the whole is between those of its parts.
RatesBracket == focus = "statistics" => Stats!RatesBracket

\* One more action hides no anomaly and breaks no report.
ReportsGrow == Stats!ReportsGrow

===============================================================================
