------------------------------ MODULE MCPlanner ------------------------------
(* One field with two places, two areas, one or two settings, and two       *)
(* calculations or cancellations and two selections.                        *)
EXTENDS Planner, TLC

\* The places and the areas are interchangeable.
MCSymmetry == Permutations(Places) \cup Permutations(Areas)

===============================================================================
