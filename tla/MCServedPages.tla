---------------------------- MODULE MCServedPages ----------------------------
EXTENDS ServedPages
CONSTANTS m1, m2, k1

\* Defaults that differ between machines, so that one's values cannot pass for another's.
MCSynDefault == [m \in Machines |-> [k \in Knobs |-> IF m = m1 THEN 0 ELSE 1]]

\* One sound of each machine, unlike its defaults.
MCPatches == {[machine |-> m, syn |-> [k \in Knobs |-> IF m = m1 THEN 1 ELSE 0], page |-> 1, lfo |-> 1] : m \in Machines}
=============================================================================
