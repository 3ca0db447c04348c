----------------------------- MODULE MCTaskGroup -----------------------------
(* Small instances of TaskGroup for TLC. *)
EXTENDS TaskGroup

CONSTANTS main, k1, k2, k3, g1, g2

MainOnly    == {main}
TwoTasks    == {k1, k2}
ThreeTasks  == {k1, k2, k3}
OneGroup    == {g1}
TwoGroups   == {g1, g2}
=============================================================================
