------------------------------- MODULE Merkle -------------------------------
(***************************************************************************)
(* Merkle trees and OpenTimestamps proofs of crates/lord-calendar:         *)
(* merkle.rs builds roots and inclusion paths, proof.rs turns paths into   *)
(* proof steps.  Hashes are free terms: two values are equal only when     *)
(* they were built alike.  Indices are zero-based, as in the code.         *)
(***************************************************************************)
EXTENDS Naturals, Sequences, SequencesExt

Leaf(i) == <<"leaf", i>>
Cat(l, r) == <<"cat", l, r>>

\* Sha256 applied twice to a value.
Sha256d(x) == <<"sha256d", x>>

\* cat_sha256d and bitcoin_merkle_pair
Pair(l, r) == Sha256d(Cat(l, r))

\* How often a level of n nodes is halved before one node is left.
Depth[n \in Nat] == IF n <= 1 THEN 0 ELSE 1 + Depth[(n + 1) \div 2]

PaddedWithFirst(level) ==
  IF Len(level) % 2 = 1 THEN Append(level, Head(level)) ELSE level

\* One pass of the ots_merkle_root loop: an odd level repeats its last node.
Padded(level) ==
  IF Len(level) % 2 = 1 THEN Append(level, Last(level)) ELSE level

OtsNextLevel(level) ==
  LET p == Padded(level)
  IN  [i \in 1 .. Len(p) \div 2 |-> Pair(p[2 * i - 1], p[2 * i])]

OtsLevels(leaves) ==
  LET lv[k \in Nat] == IF k = 0 THEN leaves ELSE OtsNextLevel(lv[k - 1])
  IN  lv

ots_merkle_root(leaves) == OtsLevels(leaves)[Depth[Len(leaves)]][1]

\* One pass of the bitcoin_tx_merkle_path loop: idx2 = min(idx1 + 1, len - 1).
TxNextLevel(level) ==
  [i \in 1 .. (Len(level) + 1) \div 2 |->
     Pair(level[2 * i - 1],
          level[IF 2 * i <= Len(level) THEN 2 * i ELSE Len(level)])]

TxLevels(leaves) ==
  LET lv[k \in Nat] == IF k = 0 THEN leaves ELSE TxNextLevel(lv[k - 1])
  IN  lv

\* The index of a leaf's ancestor k levels up.
Ancestor(index, k) == index \div 2^k

\* merkle_path: the sibling at every level, and whether we are its left.
merkle_path(leaves, index) ==
  [k \in 1 .. Depth[Len(leaves)] |->
     LET level == Padded(OtsLevels(leaves)[k - 1])
         idx == Ancestor(index, k - 1)
     IN  [isLeft |-> idx % 2 = 0,
          sibling |-> level[IF idx % 2 = 0 THEN idx + 2 ELSE idx]]]

\* bitcoin_tx_merkle_path: the last node of an odd level is its own sibling.
bitcoin_tx_merkle_path(leaves, index) ==
  [k \in 1 .. Depth[Len(leaves)] |->
     LET level == TxLevels(leaves)[k - 1]
         idx == Ancestor(index, k - 1)
         sib == IF idx % 2 = 1 THEN idx - 1
                ELSE IF idx + 1 < Len(level) THEN idx + 1 ELSE idx
     IN  [isLeft |-> idx % 2 = 0, sibling |-> level[sib + 1]]]

\* The value the code computes by hashing from a leaf along a path.
Climb(start, path) ==
  FoldLeft(LAMBDA acc, s : IF s.isLeft THEN Pair(acc, s.sibling)
                           ELSE Pair(s.sibling, acc),
           start, path)

-----------------------------------------------------------------------------
\* Proof steps.  A step list is read first to last by a verifier.

SiblingOp(s) == [op |-> IF s.isLeft THEN "append" ELSE "prepend",
                 arg |-> s.sibling]
ShaOp == [op |-> "sha256d", arg |-> <<>>]

\* merkle_path_steps walks the path in reverse and nests each step around
\* the previous one: the steps come out leaf first, without hash steps, and
\* the outermost `output` is what hashing in reverse order gives.
merkle_path_steps(path) == [k \in DOMAIN path |-> SiblingOp(path[k])]
merkle_path_output(digest, path) == Climb(digest, Reverse(path))

\* inclusion_path_steps walks the path forward with the same nesting, so
\* its steps come out root first; each sibling is followed by two Sha256.
inclusion_path_steps(path) ==
  FlattenSeq([k \in DOMAIN path |-> <<SiblingOp(Reverse(path)[k]), ShaOp>>])

\* tx_commitment_to_txid_step: prefix, suffix and two Sha256 lead from the
\* OP_RETURN commitment to the txid.
Txid(commitment) == <<"txid", commitment>>
TxStep == <<[op |-> "tx", arg |-> <<>>]>>

\* bitcoin_confirmed_proof_bytes: whether it succeeds for leaf `index` ...
ProofBuilt(leaves, index, blockTxids, position) ==
  LET digest == leaves[index + 1]
      commitment == ots_merkle_root(leaves)
  IN  /\ \/ digest = commitment
         \/ merkle_path_output(digest, merkle_path(leaves, index)) = commitment
      /\ bitcoin_tx_merkle_path(blockTxids, position) # <<>>

\* ... and the steps of the proof.
ConfirmedProof(leaves, index, blockTxids, position) ==
  merkle_path_steps(merkle_path(leaves, index)) \o TxStep
    \o inclusion_path_steps(bitcoin_tx_merkle_path(blockTxids, position))

\* The opentimestamps crate (external) executes the steps of a parsed proof.
Execute(x, s) ==
  CASE s.op = "append"  -> Cat(x, s.arg)
    [] s.op = "prepend" -> Cat(s.arg, x)
    [] s.op = "sha256d" -> Sha256d(x)
    [] s.op = "tx"      -> Txid(x)

Replay(start, steps) == FoldLeft(Execute, start, steps)

-----------------------------------------------------------------------------
\* Reference: node p of level k of the tree over n leaves, where a missing
\* right sibling is the last node of the level.  The root is node 0 of the
\* top level.
TreeNode(leaves) ==
  LET n == Len(leaves)
      node[kp \in Nat \X Nat] ==
        LET last == (n - 1) \div 2^kp[1]
            p == IF kp[2] > last THEN last ELSE kp[2]
        IN  IF kp[1] = 0 THEN leaves[p + 1]
            ELSE Pair(node[<<kp[1] - 1, 2 * p>>], node[<<kp[1] - 1, 2 * p + 1>>])
  IN  node

TreeRoot(leaves) == TreeNode(leaves)[<<Depth[Len(leaves)], 0>>]
=============================================================================
