------------------------------ MODULE MCServer ------------------------------
(* Instances of Server for TLC. *)
EXTENDS Server, TLC

CONSTANTS n1, n2, n3

MCIds == {n1, n2}

\* One node more than the table of server_table holds.
MCThreeIds == {n1, n2, n3}

\* A reading that raises an alert and one that raises none, of two variables.
MCReadings == { <<"TEMP", 401>>, <<"HUM", 850>> }

\* One more, which replaces the first.
MCThreeReadings == MCReadings \cup { <<"TEMP", 300>> }

MCVarNames == {"TEMP", "HUM"}

MCSymmetry == Permutations(Ids)
=============================================================================
