------------------------------ MODULE SatIndex ------------------------------
(***************************************************************************)
(* The utxo side of the index (src/index/updater.rs, utxo_entry.rs): which *)
(* sats every unspent output holds, which outputs pay a script, and where  *)
(* the rare sats are, built block by block over the chain of MockCore.     *)
(*                                                                         *)
(* An update writes to an LMDB write transaction and a cache of new        *)
(* outputs; a commit flushes the cache into the transaction and makes it   *)
(* durable; a crash loses both.  Reorgs are the subject of module Index.   *)
(***************************************************************************)
EXTENDS OrdinalTheory, TLC

CONSTANTS BaseBits, DeltaBits  \* widths of a stored sat range: 51 and 37 bits

ASSUME SatIndexAssumption ==
  /\ BaseBits \in Nat /\ DeltaBits \in Nat
  /\ Subsidy * (MaxHeight + 1) < 2^BaseBits /\ Subsidy < 2^DeltaBits

VARIABLES index,  \* the indexes that are on: [sats, addresses]
          db,     \* the committed tables
          wtx,    \* the tables as the open write transaction sees them
          cache,  \* utxo_cache
          panic   \* an assertion of the updater failed

vars == <<coreVars, index, db, wtx, cache, panic>>

\* outpoint_to_utxo_entry, script_pubkey_to_outpoint, sat_to_satpoint, the
\* LostSats statistic, and the number of rows of height_to_block_header.
EmptyTables == [height |-> 0, utxo |-> <<>>, spk |-> {}, rare |-> <<>>, lost |-> 0]

Init ==
  /\ CoreInit
  /\ index \in {[sats |-> s, addresses |-> a] : s \in BOOLEAN, a \in BOOLEAN} \ {[sats |-> FALSE, addresses |-> FALSE]}
  /\ db = EmptyTables /\ wtx = EmptyTables /\ cache = <<>> /\ panic = FALSE

-----------------------------------------------------------------------------
\* Entries

\* SatRange::store packs the first sat and the length into one number.
store(range) ==
  (range[1] + (range[2] - range[1]) * 2^BaseBits) % 2^(BaseBits + DeltaBits)
load(n) == LET base == n % 2^BaseBits IN <<base, base + n \div 2^BaseBits>>
Size(n) == n \div 2^BaseBits

\* A UtxoEntry holds its ranges, or its value without a sat index, and its
\* script with an address index.
NoScript == -2
EmptyScript == -3
Entry(ranges, value, script) ==
  [ranges |-> IF index.sats THEN ranges ELSE <<>>,
   value |-> IF index.sats THEN 0 ELSE value,
   script |-> IF index.addresses THEN script ELSE NoScript]
empty == Entry(<<>>, 0, EmptyScript)
total_value(entry) ==
  IF index.sats THEN FoldLeft(LAMBDA acc, n: acc + Size(n), 0, entry.ranges) ELSE entry.value
merged(a, b) == Entry(a.ranges \o b.ranges, 0, EmptyScript)

\* Sat::common, for a subsidy that never halves: only a block's first sat is rare.
common(sat) == sat % Subsidy # 0

Without(f, x) == [y \in DOMAIN f \ {x} |-> f[y]]

-----------------------------------------------------------------------------
\* index_utxo_entries

\* The loop of index_transaction_sats for one output: sats move from the input
\* ranges, the pending one first, until the output is full.
FillOutput(a, op, value) ==
  LET moved(f, stored) ==
        LET range == load(stored)
            n == IF range[2] - range[1] > f.remaining THEN f.remaining ELSE range[2] - range[1]
            middle == range[1] + n
        IN  IF f.remaining = 0 THEN [f EXCEPT !.rest = Append(@, stored)]
            ELSE [rest |-> IF middle < range[2] THEN Append(f.rest, store(<<middle, range[2]>>)) ELSE f.rest,
                  got |-> Append(f.got, store(<<range[1], middle>>)),
                  rare |-> IF common(range[1]) THEN f.rare
                           ELSE (range[1] :> <<op, value - f.remaining>>) @@ f.rare,
                  remaining |-> f.remaining - n]
  IN  FoldLeft(moved, [rest |-> <<>>, got |-> <<>>, rare |-> a.rare, remaining |-> value], a.rest)

\* The ranges of every output of transaction t, and the ranges left over; the
\* ranges must cover the outputs.
index_transaction_sats(s, t, inputs) ==
  FoldLeft(LAMBDA a, v:
             LET f == FillOutput(a, <<t, v>>, txs[t].out[v].value)
             IN  [rest |-> f.rest, outs |-> Append(a.outs, f.got), rare |-> f.rare,
                  panic |-> a.panic \/ f.remaining > 0],
           [rest |-> inputs, outs |-> <<>>, rare |-> s.wtx.rare, panic |-> s.panic],
           [v \in DOMAIN txs[t].out |-> v])

DeleteScript(spk, e, op) == spk \ {<<e.script, op>>}

\* Spends one output: from the cache, or else from the tables, which also
\* drops its script.
TakeInput(s, op) ==
  IF op \in DOMAIN s.cache
    THEN [s EXCEPT !.cache = Without(@, op), !.taken = @ \o s.cache[op].ranges]
  ELSE IF op \in DOMAIN s.wtx.utxo
    THEN LET e == s.wtx.utxo[op] IN
         [s EXCEPT !.wtx.utxo = Without(@, op), !.taken = @ \o e.ranges,
                   !.wtx.spk = DeleteScript(@, e, op),
                   !.panic = @ \/ (index.addresses /\ <<e.script, op>> \notin s.wtx.spk)]
  ELSE [s EXCEPT !.panic = TRUE]

\* One transaction; what it pays as fees goes to the coinbase, and what the
\* coinbase leaves is lost.
IndexTransaction(s, t, isCoinbase) ==
  LET spent == IF isCoinbase THEN [s EXCEPT !.taken = s.coinbase]
               ELSE FoldLeft(TakeInput, [s EXCEPT !.taken = <<>>], txs[t].in)
      a == IF index.sats THEN index_transaction_sats(spent, t, spent.taken)
           ELSE [rest |-> <<>>, outs |-> [v \in DOMAIN txs[t].out |-> <<>>],
                 rare |-> spent.wtx.rare, panic |-> spent.panic]
      entries == [op \in OutPointsOf(t) |->
                    Entry(a.outs[op[2]], TxOut(op).value, TxOut(op).script)]
  IN  IF a.panic THEN [spent EXCEPT !.panic = TRUE]
      ELSE [spent EXCEPT !.wtx.rare = a.rare, !.cache = entries @@ @,
                         !.coinbase = IF isCoinbase THEN <<>> ELSE @ \o a.rest,
                         !.lost = IF isCoinbase THEN a.rest ELSE <<>>]

\* Lost sats go to the entry of the null outpoint, after those lost before.
IndexLostSats(s) ==
  IF s.lost = <<>> \/ s.panic THEN s
  ELSE LET at(k) == s.wtx.lost + FoldLeft(LAMBDA acc, n: acc + Size(n), 0, SubSeq(s.lost, 1, k - 1))
           rare == {k \in DOMAIN s.lost : ~common(load(s.lost[k])[1])}
           old == IF NullOutPoint \in DOMAIN s.cache THEN s.cache[NullOutPoint] ELSE empty
       IN  [s EXCEPT
              !.wtx.rare = [sat \in {load(s.lost[k])[1] : k \in rare} |->
                              <<NullOutPoint, at(CHOOSE k \in rare : load(s.lost[k])[1] = sat)>>] @@ @,
              !.wtx.lost = at(Len(s.lost) + 1),
              !.cache = (NullOutPoint :> merged(old, Entry(s.lost, 0, EmptyScript))) @@ @]

index_utxo_entries(block) ==
  LET first == Subsidy * wtx.height
      s0 == [wtx |-> wtx, cache |-> cache, panic |-> FALSE, taken |-> <<>>, lost |-> <<>>,
             coinbase |-> IF index.sats THEN <<store(<<first, first + Subsidy>>)>> ELSE <<>>]
      s1 == FoldLeft(LAMBDA s, t: IndexTransaction(s, t, FALSE), s0, Tail(block))
  IN  IndexLostSats(IndexTransaction(s1, Head(block), TRUE))

\* index_block: the next block of the node's chain.
IndexBlock ==
  /\ ~panic /\ wtx.height < Len(blocks)
  /\ \E s \in {index_utxo_entries(blocks[wtx.height + 1])} :
       IF s.panic THEN panic' = TRUE /\ UNCHANGED <<wtx, cache>>
       ELSE /\ wtx' = [s.wtx EXCEPT !.height = @ + 1]
            /\ cache' = s.cache
            /\ UNCHANGED panic
  /\ UNCHANGED <<coreVars, index, db>>

\* Mutant: the ranges lost since the last commit replace the earlier ones.
FlushedOverwrites(op) == cache[op]

\* Updater::commit: after some blocks or at the end of the update.  The
\* cached entry of the null outpoint is merged with the one in the tables.
Flushed(op) ==
  IF op = NullOutPoint /\ op \in DOMAIN wtx.utxo THEN merged(wtx.utxo[op], cache[op]) ELSE cache[op]
Commit ==
  /\ ~panic /\ wtx.height > db.height
  /\ LET flushed == [op \in DOMAIN cache |-> Flushed(op)]
         tables == [wtx EXCEPT !.utxo = flushed @@ @,
                               !.spk = @ \cup (IF index.addresses
                                               THEN {<<flushed[op].script, op>> : op \in DOMAIN cache}
                                               ELSE {})]
     IN  db' = tables /\ wtx' = tables
  /\ cache' = <<>>
  /\ UNCHANGED <<coreVars, index, panic>>

\* The process stops; LMDB drops the write transaction.
Crash ==
  /\ wtx # db
  /\ wtx' = db /\ cache' = <<>> /\ panic' = FALSE
  /\ UNCHANGED <<coreVars, index, db>>

-----------------------------------------------------------------------------
\* Queries of the committed tables; None is <<>>.

contains_output(op) == op \in DOMAIN db.utxo
list(op) ==
  IF index.sats /\ contains_output(op)
    THEN <<[k \in DOMAIN db.utxo[op].ranges |-> load(db.utxo[op].ranges[k])]>> ELSE <<>>
rare_sat_satpoint(sat) == IF sat \in DOMAIN db.rare THEN <<db.rare[sat]>> ELSE <<>>
get_address_info(script) == {op \in DOMAIN db.utxo : <<script, op>> \in db.spk}
get_sat_balances_for_outputs(ops) ==
  FoldSet(LAMBDA op, acc: acc + total_value(db.utxo[op]), 0, {op \in ops : contains_output(op)})

\* With either index on, the utxo index is full.
is_output_spent(op) == op \notin {NullOutPoint, <<1, 1>>} /\ ~contains_output(op)

\* The overlaps of the entry of op with [first, last), each with its satpoint.
Overlaps(op, first, last) ==
  LET ranges == list(op)[1]
      offset(k) == FoldLeft(LAMBDA acc, r: acc + r[2] - r[1], 0, SubSeq(ranges, 1, k - 1))
      from(k) == Max({ranges[k][1], first})
  IN  {[start |-> from(k), size |-> Min({ranges[k][2], last}) - from(k),
        satpoint |-> <<op, offset(k) + from(k) - ranges[k][1]>>]
       : k \in {j \in DOMAIN ranges : ranges[j][2] > first /\ ranges[j][1] < last}}
find_range(first, last) ==
  IF db.height < (last - 1) \div Subsidy + 1 THEN <<>>
  ELSE <<UNION {Overlaps(op, first, last) : op \in DOMAIN db.utxo}>>
find(sat) ==
  LET hits == UNION {Overlaps(op, sat, sat + 1) : op \in DOMAIN db.utxo} IN
  IF db.height <= sat \div Subsidy \/ hits = {} THEN <<>> ELSE <<(CHOOSE h \in hits : TRUE).satpoint>>

-----------------------------------------------------------------------------
\* The node

InputLists == {<<op>> : op \in Spendable}
                \cup {ins \in Spendable \X Spendable : ins[1] # ins[2]}
OutputLists == {<<>>, <<Output(0, 0)>>, <<Output(1, OP_RETURN), Output(1, 0)>>}
                 \cup {<<Output(v, 0)>> : v \in {1, Subsidy + 1}}
                 \cup {<<Output(v, 0), Output(1, 0)>> : v \in 1 .. Subsidy}

CoreStep ==
  \/ \E subsidy \in {0, Subsidy - 1, Subsidy} : mine_block(subsidy)
  \/ \E ins \in InputLists, outs \in OutputLists : broadcast_tx(ins, outs)
  \/ \E op \in Spendable, fee \in 0 .. 1 : send_to_address(0, 1, fee, op)
  \/ \E estimate \in 0 .. 1 : send_raw_transaction(fund_raw_transaction(<<>>, <<Output(1, 0)>>, estimate, estimate))

Next ==
  \/ CoreStep /\ UNCHANGED <<index, db, wtx, cache, panic>>
  \/ IndexBlock \/ Commit \/ Crash

Spec == Init /\ [][Next]_vars

-----------------------------------------------------------------------------
\* Properties.

SatsIn(ranges) ==
  FoldLeft(LAMBDA acc, n: acc \o [k \in 1 .. Size(n) |-> load(n)[1] + k - 1], <<>>, ranges)

\* Every committed output holds exactly the sats that ordinal theory gives it,
\* in order, and the null outpoint the lost ones, however the blocks were
\* spread over commits and crashes: splitting ranges over outputs, handing
\* fees to the coinbase and merging lost ranges lose and double nothing.
SatsFollowOrdinalTheory ==
  LET theory == Theory(db.height)
      real == DOMAIN db.utxo \ {NullOutPoint}
  IN  /\ real = DOMAIN theory.held
      /\ \A op \in real : total_value(db.utxo[op]) = TxOut(op).value
      /\ index.sats =>
           /\ \A op \in real : SatsIn(db.utxo[op].ranges) = theory.held[op]
           /\ theory.lost = IF contains_output(NullOutPoint)
                            THEN SatsIn(db.utxo[NullOutPoint].ranges) ELSE <<>>
           /\ db.lost = Len(theory.lost)

\* The table of rare sats, written when a sat moves and never cleaned, agrees
\* with the search through all ranges, and a range query finds each of its
\* sats once, where find finds it.
RareSatsFoundWhereTheyAre ==
  index.sats =>
    /\ \A h \in 0 .. db.height - 1 :
         find(Subsidy * h) # <<>> /\ rare_sat_satpoint(Subsidy * h) = find(Subsidy * h)
    /\ \A last \in 1 .. Subsidy * db.height : \A first \in 0 .. last - 1 :
         LET found == find_range(first, last)[1] IN
         /\ FoldSet(LAMBDA f, acc: acc + f.size, 0, found) = last - first
         /\ \A f \in found : find(f.start) = <<f.satpoint>>

\* The script table lists the unspent outputs of every script and nothing
\* else, so the updater never meets an input it cannot find (where it would
\* panic), the balances of all scripts (lost sats count for the empty one) add
\* up to what the blocks created, and at the tip the index and the node agree
\* on what is spent.
AddressTableMatchesUtxos ==
  /\ ~panic
  /\ index.addresses =>
       \A op \in DOMAIN db.utxo \ {NullOutPoint} :
         {script \in {pair[1] : pair \in db.spk} : op \in get_address_info(script)} = {TxOut(op).script}
  /\ \A pair \in db.spk : contains_output(pair[2])
  /\ index.addresses /\ index.sats =>
       FoldSet(LAMBDA script, acc: acc + get_sat_balances_for_outputs(get_address_info(script)), 0,
               {pair[1] : pair \in db.spk}) = db.height * Subsidy
  /\ db.height = Len(blocks) =>
       \A t \in DOMAIN txs : get_raw_transaction(t) # <<>> =>
         \A op \in {t} \X DOMAIN get_raw_transaction(t)[1].vout :
           TxOut(op).script # OP_RETURN => (is_output_spent(op) <=> get_tx_out(op) = <<>>)
=============================================================================
