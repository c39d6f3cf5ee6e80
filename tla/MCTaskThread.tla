---------------------------- MODULE MCTaskThread ----------------------------
(* Two callers (the GTK main thread and one more) post up to MaxTasks tasks *)
(* of every kind to one Thread.                                             *)
EXTENDS TaskThread, TLC

CONSTANTS main, other, plain, stopping, endless, empty

MCCallers == {main, other}
MCTasks == {plain, stopping, endless, empty}
MCStopTasks == {stopping}
MCEndlessTasks == {endless}
MCEmptyTasks == {empty}

CallerSymmetry == Permutations(MCCallers)
=============================================================================
