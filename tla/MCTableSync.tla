---------------------------- MODULE MCTableSync ----------------------------
EXTENDS TableSync
CONSTANTS m1, m2, k1

MCSynDefault == [m \in Machines |-> [k \in Knobs |-> IF m = m1 THEN 0 ELSE 1]]

\* A sound of the other machine, unlike its defaults.
MCPatches == {[machine |-> m2, syn |-> [k \in Knobs |-> 0], page |-> 1, lfo |-> 1]}
=============================================================================
