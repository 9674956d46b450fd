------------------------------ MODULE MockCore ------------------------------
(***************************************************************************)
(* crates/mockcore: the Bitcoin node with a wallet that lord runs against. *)
(* A transaction's id is its place in txs; an outpoint is <<txid, vout>>   *)
(* with vouts counted from 1; a block is the sequence of its transactions  *)
(* and its hash is its place in blocks.  A script is 0 for an address      *)
(* outside the wallet, n > 0 for the wallet's n-th address, OP_RETURN for  *)
(* an unspendable output.                                                  *)
(*                                                                         *)
(* mine_block asserts that every input is unspent, so a transaction that   *)
(* spends a spent output only makes the node panic: the operations that    *)
(* make one spend outputs no mempool transaction spends.                   *)
(***************************************************************************)
EXTENDS Vectors, Integers, Sequences, FiniteSets, SequencesExt, FiniteSetsExt

CONSTANTS Subsidy,    \* what Height::subsidy allows a block
          MaxHeight,  \* bound: blocks mined
          MaxTxs      \* bound: transactions, coinbases included

ASSUME MockCoreAssumption ==
  Subsidy \in Nat \ {0} /\ MaxHeight \in Nat /\ MaxTxs \in Nat \ {0}

VARIABLES txs, blocks, mempool, transactions, utxos, locked, addresses

coreVars == <<txs, blocks, mempool, transactions, utxos, locked, addresses>>

OP_RETURN == -1
NullOutPoint == <<0, 0>>
Output(value, script) == [value |-> value, script |-> script]
OutPointsOf(t) == {t} \X DOMAIN txs[t].out
TxOut(op) == txs[op[1]].out[op[2]]
Values(outs) == FoldLeft(LAMBDA acc, o: acc + o.value, 0, outs)
InputValue(ins) == FoldLeft(LAMBDA acc, op: acc + TxOut(op).value, 0, ins)

\* State::new: the genesis block, whose coinbase is neither in transactions
\* nor in utxos.
CoreInit ==
  /\ txs = <<[in |-> <<NullOutPoint>>, out |-> <<Output(Subsidy, 0)>>]>>
  /\ blocks = <<<<1>>>>
  /\ mempool = <<>> /\ transactions = {} /\ utxos = {} /\ locked = {} /\ addresses = 0

is_wallet_address(script) == script \in 1 .. addresses

Spendable == {op \in utxos : \A k \in DOMAIN mempool : \A j \in DOMAIN txs[mempool[k]].in :
                                txs[mempool[k]].in[j] # op}

\* A block of the whole mempool; its coinbase pays the subsidy asked for and
\* the fees to a new address.
mine_block(subsidy) ==
  LET coinbase == Len(txs) + 1
      fee(t) == InputValue(txs[t].in) - Values(txs[t].out)
      fees == FoldLeft(LAMBDA acc, t: acc + fee(t), 0, mempool)
      all == Append(txs, [in |-> <<NullOutPoint>>, out |-> <<Output(subsidy + fees, addresses + 1)>>])
      block == <<coinbase>> \o mempool
      created == UNION {{op \in {t} \X DOMAIN all[t].out : all[t].out[op[2]].script # OP_RETURN}
                        : t \in ToSet(block)}
      spent == UNION {ToSet(all[t].in) : t \in ToSet(block)}
  IN  /\ Len(blocks) <= MaxHeight
      /\ Len(txs) < MaxTxs
      /\ subsidy + fees \in Nat  \* an Amount: its arithmetic panics otherwise
      /\ txs' = all
      /\ blocks' = Append(blocks, block)
      /\ mempool' = <<>>
      /\ transactions' = transactions \cup ToSet(block)
      /\ utxos' = (utxos \cup created) \ spent
      /\ addresses' = addresses + 1
      /\ UNCHANGED locked

\* A new transaction enters the mempool.
Push(ins, outs) ==
  /\ Len(txs) < MaxTxs
  /\ txs' = Append(txs, [in |-> ins, out |-> outs])
  /\ mempool' = Append(mempool, Len(txs) + 1)
  /\ UNCHANGED <<blocks, transactions, utxos, locked>>

\* A transaction from a template: inputs named by their place in the chain,
\* the outputs' values given, the rest of the inputs' value paid as a fee.
broadcast_tx(ins, outs) ==
  /\ ToSet(ins) \subseteq Spendable
  /\ Values(outs) <= InputValue(ins)
  /\ Push(ins, outs)
  /\ UNCHANGED addresses

\* send_to_address: one unlocked output of at least the amount, whoever owns
\* it; both outputs pay the same script.  fee stands for the rate times the size.
send_to_address(script, value, fee, op) ==
  /\ op \in Spendable \ locked
  /\ TxOut(op).value >= value + fee
  /\ Push(<<op>>, <<Output(value, script), Output(TxOut(op).value - value - fee, script)>>)
  /\ UNCHANGED addresses

\* The wallet's unlocked outputs.
list_unspent == {op \in utxos \ locked : is_wallet_address(TxOut(op).script)}
list_lock_unspent == locked \cap utxos

\* fund_raw_transaction adds unlocked outputs of the wallet to the given
\* inputs, the largest first, until they exceed what is needed; the change
\* goes to a new address, behind the given outputs, and pays the fee.  NoTx stands for "insufficient funds".
NoTx == [in |-> <<>>, out |-> <<>>]

larger(a, b) ==
  \/ TxOut(a).value > TxOut(b).value
  \/ TxOut(a).value = TxOut(b).value /\ (a[1] > b[1] \/ (a[1] = b[1] /\ a[2] > b[2]))
own_utxos(given) == sorted((list_unspent \cap Spendable) \ ToSet(given), larger)

Enough(given, own, need) ==
  LET enough == {n \in DOMAIN own : InputValue(given \o SubSeq(own, 1, n)) > need}
  IN  given \o SubSeq(own, 1, IF enough = {} THEN Len(own) ELSE Min(enough))
selected(given, own, need) ==
  IF need <= InputValue(given) THEN given ELSE Enough(given, own, need)

WithChange(ins, outs, fee) ==
  LET change == InputValue(ins) - Values(outs)
      funded == IF change > 0 THEN Append(outs, Output(change, addresses + 1)) ELSE outs
  IN  [in |-> ins, out |-> [funded EXCEPT ![Len(funded)].value = @ - fee]]
fund_from(own, given, outs, estimated_fee, fee) ==
  LET need == Values(outs) + estimated_fee
      tx(ins) == IF need > InputValue(ins) \/ ins = <<>> THEN NoTx ELSE WithChange(ins, outs, fee)
  IN  tx(selected(given, own, need))
fund_raw_transaction(given, outs, estimated_fee, fee) ==
  fund_from(own_utxos(given), given, outs, estimated_fee, fee)

\* send_raw_transaction of a funded and signed transaction.
send_raw_transaction(tx) ==
  /\ tx # NoTx
  /\ \A k \in DOMAIN tx.out : tx.out[k].value \in Nat /\ tx.out[k].script # OP_RETURN
  /\ Push(tx.in, tx.out)
  /\ addresses' = IF \E k \in DOMAIN tx.out : tx.out[k].script = addresses + 1
                  THEN addresses + 1 ELSE addresses

\* lock_unspent asserts that no output is locked already.
lock_unspent(ops) ==
  /\ ops # {} /\ ops \cap locked = {}
  /\ locked' = locked \cup ops
  /\ UNCHANGED <<txs, blocks, mempool, transactions, utxos, addresses>>

\* The answers lord reads: heights count from 0, None is <<>>.
HeightOf(t) == CHOOSE h \in 0 .. Len(blocks) - 1 : \E k \in DOMAIN blocks[h + 1] : blocks[h + 1][k] = t
get_block_count == Len(blocks) - 1
get_tx_out(op) ==
  IF op \in utxos THEN <<[confirmations |-> Len(blocks) - HeightOf(op[1]), out |-> TxOut(op)]>> ELSE <<>>
get_raw_transaction(t) ==
  IF t \in transactions
    THEN <<[confirmations |-> get_block_count - HeightOf(t), vout |-> txs[t].out]>>
    ELSE <<>>
=============================================================================
