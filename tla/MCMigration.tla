---------------------------- MODULE MCMigration -----------------------------
(* A table in a database, with a column whose type has no index; two       *)
(* processes.                                                              *)
EXTENDS Migration, TLC

CONSTANTS d, t, c, i, m1, m2

MCDatabases == {d}
MCTables    == {t}
MCColumns   == {c}
MCIndexes   == {i}
MCRefused   == {i}
MCIn        == [o \in {t, c, i} |-> CASE o = t -> d [] o = c -> t [] o = i -> c]
MCRunners   == {m1, m2}

MCSymmetry  == Permutations(MCRunners)
=============================================================================
