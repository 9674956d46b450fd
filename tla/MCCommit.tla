------------------------------ MODULE MCCommit ------------------------------
(***************************************************************************)
(* Instances of Commit for TLC.                                            *)
(***************************************************************************)
EXTENDS Commit, TLC

CONSTANTS r1, r2, k1, k2, k3

\* Every root has order keys of its own, one root two of them, so that an
\* upgrade can change the key.
OwnKeysOf == (r1 :> {k1, k2} @@ r2 :> {k3})

\* Proofs without a fork all have the empty key, as the embedded calendar's do.
SameKeyOf == [r \in Roots |-> {k1}]

Setup(commands, faults, roots, time) ==
  [commands |-> commands, faults |-> faults, roots |-> roots, time |-> time]

\* Two commitments, then one with time passing and appends to the log cut
\* short, then one that is encoded again and timestamped with --force.
FaultSetups ==
  {Setup({"timestamp", "upgrade", "import"}, {"crash", "io"}, {r1, r2}, 1),
   Setup({"timestamp", "upgrade", "import"}, {"crash", "io", "torn"}, {r1}, 2),
   Setup({"timestamp", "force", "upgrade", "reencode"}, {"crash", "io", "torn"}, {r1}, 2)}

PlainSetups == {Setup({"timestamp"}, {}, {r1, r2}, 1)}
=============================================================================
