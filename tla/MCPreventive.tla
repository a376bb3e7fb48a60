---------------------------- MODULE MCPreventive ----------------------------
(* A small catalogue of plan definitions for PreventiveGeneration. *)
EXTENDS PreventiveGeneration, TLC

CONSTANTS m1

OneClass == m1 :> "press"
Periodic(n, auto) == [trigger |-> "periodicity", period |-> n, threshold |-> Null,
                      auto |-> auto, class |-> "press"]
Hourly(n) == [trigger |-> "hours", period |-> Null, threshold |-> n,
              auto |-> FALSE, class |-> "press"]
SmallDefinitions == {Periodic(1, TRUE), Periodic(2, FALSE), Hourly(1)}

\* Nothing is said of what follows a generation that is torn.
Untorn == ~torn

Symmetry == Permutations(Workers)
==============================================================================
