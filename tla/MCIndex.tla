------------------------------- MODULE MCIndex -------------------------------
(***************************************************************************)
(* Instances of Index for TLC.                                             *)
(***************************************************************************)
EXTENDS Index

\* Short chains with two reorgs and every failure, or without an RPC failure,
\* which lets an update end early; and a chain long enough for
\* savepoints to be dropped, with one reorg of up to two blocks.
IndexSetups ==
  {[savepoint_interval |-> 2, max_savepoints |-> 2, commit_interval |-> 2, window |-> 2,
    initial_blocks |-> 1, max_blocks |-> 5, max_reorgs |-> 2, max_orphans |-> 2,
    faults |-> {"crash", "rpc", "shutdown", "shorter"}],
   [savepoint_interval |-> 2, max_savepoints |-> 2, commit_interval |-> 2, window |-> 2,
    initial_blocks |-> 1, max_blocks |-> 4, max_reorgs |-> 2, max_orphans |-> 2,
    faults |-> {"crash", "shutdown", "shorter"}],
   [savepoint_interval |-> 4, max_savepoints |-> 2, commit_interval |-> 100, window |-> 2,
    initial_blocks |-> 7, max_blocks |-> 14, max_reorgs |-> 1, max_orphans |-> 2,
    faults |-> {"shutdown", "shorter"}]}
=============================================================================
