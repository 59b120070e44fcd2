--------------------------- MODULE MCSessionWriteLock ---------------------------
(* Two tasks of a gateway, whose run loop listens to the termination signals, and *)
(* one of another process contend for a session.                                  *)
EXTENDS SessionWriteLock, TLC

CONSTANTS gateway, other, run, compaction, command

AllProcs      == {gateway, other}
Gateway       == {gateway}
AllTasks      == {run, compaction, command}
TaskProcesses == (run :> gateway) @@ (compaction :> gateway) @@ (command :> other)
OneTaskEach   == {run, command}
EachProcess   == (run :> gateway) @@ (command :> other)
GatewayTasks  == Permutations({run, compaction})
=================================================================================
