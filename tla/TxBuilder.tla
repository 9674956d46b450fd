------------------------------ MODULE TxBuilder ------------------------------
(***************************************************************************)
(* src/wallet/transaction_builder.rs: the construction of a transaction    *)
(* that sends one sat of the wallet to a recipient.  A builder is a record *)
(* and every method of the pipeline maps a builder to the next one; "err"  *)
(* is the error a method returned, or the panic of an assertion.           *)
(*                                                                         *)
(* Outpoints are numbers in the order of the BTreeMap, scripts are records *)
(* of their serialised size and dust limit, and the fee rate is kept in    *)
(* half sats per vbyte.  Amounts are bounded by MaxAmount, which stands    *)
(* for u64::MAX.                                                           *)
(***************************************************************************)
LOCAL INSTANCE Integers
LOCAL INSTANCE Sequences
LOCAL INSTANCE FiniteSets
LOCAL INSTANCE SequencesExt

MaxAmount == 2^30
ADDITIONAL_INPUT_VBYTES == 57
ADDITIONAL_OUTPUT_VBYTES == 43
MAX_POSTAGE == 20000
TARGET_POSTAGE == 10000

\* FeeRate::fee: rounded to the nearest sat, saturating.
FeeOf(rate, vsize) ==
  LET f == (rate * vsize + 1) \div 2 IN IF f > MaxAmount THEN MaxAmount ELSE f

\* Transaction::vsize with one Schnorr signature per input: four weight units
\* per byte outside the witness.
VSize(inputs, outputs) ==
  (42 + 230 * inputs
    + FoldLeft(LAMBDA acc, o: acc + 4 * (9 + o.script.size), 0, outputs) + 3) \div 4

estimate_vbytes(b) == VSize(Len(b.inputs), b.outputs)
estimate_fee(b) == FeeOf(b.rate, estimate_vbytes(b))

Fail(b, err) == [b EXCEPT !.err = err]
Panic(b, err) == [b EXCEPT !.err = err, !.panic = TRUE]
Then(b, Step(_)) == IF b.err = "" THEN Step(b) ELSE b
ChangeDust(b) == Last(b.unused).dust
LastValue(b) == Last(b.outputs).value
SetLastValue(b, v) == [b EXCEPT !.outputs[Len(b.outputs)].value = v]
TotalOut(b) == FoldLeft(LAMBDA acc, o: acc + o.value, 0, b.outputs)

\* The wallet w holds amounts, inscriptions (a set of satpoints), locked and
\* runic outpoints; req the outgoing satpoint, recipient, change, rate, target.
TransactionBuilder(w, req) ==
  [amounts |-> w.amounts, inscriptions |-> w.inscriptions,
   locked |-> w.locked, runic |-> w.runic,
   outgoing |-> req.outgoing, recipient |-> req.recipient,
   change |-> req.change, unused |-> req.change, rate |-> req.rate,
   target |-> req.target, utxos |-> DOMAIN w.amounts,
   inputs |-> <<>>, outputs |-> <<>>, err |-> "", panic |-> FALSE]

\* Sats in front of the outgoing one, in the order of the inputs.
calculate_sat_offset(b) ==
  LET at == CHOOSE k \in DOMAIN b.inputs : b.inputs[k] = b.outgoing.outpoint
  IN  b.outgoing.offset
        + FoldLeft(LAMBDA acc, k: acc + b.amounts[k], 0, SubSeq(b.inputs, 1, at - 1))

CheckRequest(b) ==
  LET value == b.target.value IN
  IF b.change[1] = b.change[2] THEN Fail(b, "DuplicateAddress")
  ELSE IF b.recipient.op_return THEN b
  ELSE IF \E k \in 1 .. 2 : b.change[k] = b.recipient THEN Fail(b, "DuplicateAddress")
  ELSE IF b.target.kind # "Postage" /\ value < b.recipient.dust THEN Fail(b, "Dust")
  ELSE b

AbsDiff(a, c) == IF a > c THEN a - c ELSE c - a

\* Whether a candidate worth cur replaces the best one so far.
Better(cur, best, target, under) ==
  LET meets(v) == IF under THEN v <= target ELSE v >= target
      missed == IF under THEN best > target ELSE best < target
      closer == AbsDiff(cur, target) < AbsDiff(best, target)
  IN  \/ closer /\ (meets(cur) \/ missed)
      \/ missed /\ meets(cur)

CardinalsOrInscribed(b) == b.utxos \ (b.runic \cup b.locked)   \* inscriptions are not looked up

Cardinals(b) ==
  {u \in b.utxos : /\ u \notin b.runic \cup b.locked
                   /\ \A s \in b.inscriptions : s.outpoint # u}

\* 0 when there is no cardinal utxo left (NotEnoughCardinalUtxos).
select_cardinal_utxo(b, target, under) ==
  FoldLeft(LAMBDA best, u: IF best = 0 \/ Better(b.amounts[u], b.amounts[best], target, under)
                           THEN u ELSE best,
           0, SetToSortSeq(Cardinals(b), <))

select_outgoing(b) ==
  LET op == b.outgoing.outpoint  off == b.outgoing.offset IN
  IF \E s \in b.inscriptions : /\ s.outpoint = op /\ s.offset # off
                               /\ off < s.offset + ChangeDust(b)
    THEN Fail(b, "UtxoContainsAdditionalInscriptions")
  ELSE IF op \notin DOMAIN b.amounts THEN Fail(b, "NotInWallet")
  ELSE IF off >= b.amounts[op] THEN Fail(b, "OutOfRange")
  ELSE [b EXCEPT !.utxos = @ \ {op}, !.inputs = Append(@, op),
                 !.outputs = Append(@, [script |-> b.recipient, value |-> b.amounts[op]])]

\* Splits the sats in front of the outgoing one off into a change output.
align_outgoing(b) ==
  LET off == calculate_sat_offset(b) IN
  IF off = 0 THEN b
  ELSE [b EXCEPT !.outputs = <<[script |-> Last(b.unused), value |-> off],
                               [script |-> b.recipient, value |-> LastValue(b) - off]>>,
                 !.unused = Front(@)]

RECURSIVE PadAlignment(_)
PadAlignment(b) ==
  LET need == ChangeDust(b) - b.outputs[1].value
      u == select_cardinal_utxo(b, need, TRUE)
  IN  IF need <= 0 THEN b
      ELSE IF u = 0 THEN Fail(b, "NotEnoughCardinalUtxos")
      ELSE PadAlignment([b EXCEPT !.utxos = @ \ {u}, !.inputs = <<u>> \o @,
                                  !.outputs[1].value = @ + b.amounts[u]])

pad_alignment_output(b) ==
  IF b.outputs[1].script = b.recipient THEN b ELSE PadAlignment(b)

RECURSIVE CoverDeficit(_, _)
CoverDeficit(b, deficit) ==
  LET extra == FeeOf(b.rate, ADDITIONAL_INPUT_VBYTES)
      u == select_cardinal_utxo(b, deficit + extra, FALSE)
      benefit == b.amounts[u] - extra
      c == [SetLastValue(b, LastValue(b) + b.amounts[u])
              EXCEPT !.utxos = @ \ {u}, !.inputs = Append(@, u)]
  IN  IF deficit <= 0 THEN b
      ELSE IF deficit + extra > MaxAmount THEN Fail(b, "ValueOverflow")
      ELSE IF u = 0 \/ benefit < 0 THEN Fail(b, "NotEnoughCardinalUtxos")
      ELSE CoverDeficit(c, IF benefit > deficit THEN 0 ELSE deficit - benefit)

add_value(b) ==
  LET least == IF b.target.kind = "Postage" THEN Last(b.outputs).script.dust
               ELSE b.target.value
      total == least + estimate_fee(b)
  IN  IF total > MaxAmount THEN Fail(b, "ValueOverflow")
      ELSE CoverDeficit(b, total - LastValue(b))

\* Cuts the recipient's output down to the target when what is left over pays
\* for a change output.
strip_value(b) ==
  LET value == TotalOut(b) - calculate_sat_offset(b)
      excess == value - estimate_fee(b)
      postage == b.target.kind = "Postage"
      max == IF postage THEN MAX_POSTAGE ELSE b.target.value
      target == IF postage THEN TARGET_POSTAGE ELSE b.target.value
      fee == FeeOf(b.rate, estimate_vbytes(b) + ADDITIONAL_OUTPUT_VBYTES)
  IN  IF excess < 0 \/ excess <= max \/ value - target <= ChangeDust(b) + fee THEN b
      ELSE [SetLastValue(b, target) EXCEPT
              !.outputs = Append(@, [script |-> Last(b.unused), value |-> value - target]),
              !.unused = Front(@)]

deduct_fee(b) ==
  LET fee == estimate_fee(b) IN
  IF TotalOut(b) - fee <= calculate_sat_offset(b)
    THEN Panic(b, "deducting fee does not consume sat")
  ELSE IF LastValue(b) < fee THEN Panic(b, "last output can pay fee")
  ELSE SetLastValue(b, LastValue(b) - fee)

SumIn(b) == FoldLeft(LAMBDA acc, k: acc + b.amounts[k], 0, b.inputs)

\* The first sat of every output.
Starts(outputs) ==
  [k \in DOMAIN outputs |->
     FoldLeft(LAMBDA acc, o: acc + o.value, 0, SubSeq(outputs, 1, k - 1))]

\* The assertions of TransactionBuilder::build.
OutgoingSpentOnce(b) ==
  /\ b.outgoing.outpoint \in DOMAIN b.amounts
  /\ b.outgoing.offset < b.amounts[b.outgoing.outpoint]
  /\ Cardinality({k \in DOMAIN b.inputs : b.inputs[k] = b.outgoing.outpoint}) = 1

OutgoingFirstInRecipient(b) ==
  \E k \in DOMAIN b.outputs : /\ b.outputs[k].script = b.recipient
                              /\ b.outputs[k].value > 0
                              /\ Starts(b.outputs)[k] = calculate_sat_offset(b)

Appearances(b, script) == Cardinality({k \in DOMAIN b.outputs : b.outputs[k].script = script})

ScriptsDistinct(b) ==
  /\ Appearances(b, b.recipient) = 1
  /\ \A k \in 1 .. 2 : Appearances(b, b.change[k]) <= 1
  /\ \A k \in DOMAIN b.outputs : b.outputs[k].script \in {b.recipient, b.change[1], b.change[2]}

RecipientValueFits(b) ==
  LET slop == FeeOf(b.rate, ADDITIONAL_OUTPUT_VBYTES)
      value == (CHOOSE o \in ToSet(b.outputs) : o.script = b.recipient).value
      dust == IF b.change[1].dust > b.change[2].dust THEN b.change[1].dust ELSE b.change[2].dust
  IN  CASE b.target.kind = "Postage" -> value <= MAX_POSTAGE + slop
        [] b.target.kind = "ExactPostage" -> value <= b.target.value + slop
        [] OTHER -> value >= b.target.value /\ value - b.target.value <= dust + slop

FeeExact(b) == SumIn(b) - TotalOut(b) = estimate_fee(b)

NoDust(b) == \A k \in DOMAIN b.outputs : b.outputs[k].value >= b.outputs[k].script.dust

Build(b) ==
  IF ~OutgoingSpentOnce(b) THEN Panic(b, "inputs spend outgoing sat")
  ELSE IF ~OutgoingFirstInRecipient(b) THEN Panic(b, "outgoing sat is sent to recipient")
  ELSE IF ~ScriptsDistinct(b) THEN Panic(b, "outputs are change or recipient")
  ELSE IF ~RecipientValueFits(b) THEN Panic(b, "excess postage is stripped")
  ELSE IF ~FeeExact(b) THEN Panic(b, "fee estimation is correct")
  ELSE IF ~NoDust(b) THEN Panic(b, "all outputs are above dust limit")
  ELSE b

build_transaction(w, req) ==
  Then(Then(Then(Then(Then(Then(Then(Then(TransactionBuilder(w, req), CheckRequest),
    select_outgoing), align_outgoing), pad_alignment_output), add_value),
    strip_value), deduct_fee), Build)

\* Where ordinal theory puts the sat of a spent satpoint: the number of the
\* output that holds it, or 0 when it is paid as a fee.
LandsIn(b, sat) ==
  LET at == CHOOSE k \in DOMAIN b.inputs : b.inputs[k] = sat.outpoint
      pos == sat.offset + FoldLeft(LAMBDA acc, k: acc + b.amounts[k], 0,
                                   SubSeq(b.inputs, 1, at - 1))
      in == {k \in DOMAIN b.outputs : /\ Starts(b.outputs)[k] <= pos
                                      /\ pos < Starts(b.outputs)[k] + b.outputs[k].value}
  IN  IF in = {} THEN 0 ELSE CHOOSE k \in in : TRUE
=============================================================================
