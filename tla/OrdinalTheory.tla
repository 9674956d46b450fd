---------------------------- MODULE OrdinalTheory ----------------------------
(***************************************************************************)
(* Ordinal theory, sat by sat, over the chain of MockCore: the sats of     *)
(* every unspent output after the first n blocks, and the lost ones in the *)
(* order they were lost.  This is the reference that the sat index is      *)
(* checked against and that the wallet's promises are stated with.         *)
(***************************************************************************)
EXTENDS MockCore

Pieces(sats, outs) ==
  LET start(v) == Values(SubSeq(outs, 1, v - 1))
  IN  [v \in DOMAIN outs |-> SubSeq(sats, start(v) + 1, start(v) + outs[v].value)]

Spend(r, t, sats) ==
  LET p == Pieces(sats, txs[t].out)
      kept == DOMAIN r.held \ ToSet(txs[t].in)
  IN  [held |-> [op \in kept |-> r.held[op]] @@ [op \in OutPointsOf(t) |-> p[op[2]]],
       fees |-> r.fees \o SubSeq(sats, Values(txs[t].out) + 1, Len(sats)), lost |-> r.lost]

ApplyBlock(r, height) ==
  LET block == blocks[height + 1]
      inputs(q, t) == FoldLeft(LAMBDA acc, op: acc \o q.held[op], <<>>, txs[t].in)
      minted == [k \in 1 .. Subsidy |-> Subsidy * height + k - 1]
      q == FoldLeft(LAMBDA acc, t: Spend(acc, t, inputs(acc, t)), [r EXCEPT !.fees = minted], Tail(block))
      c == Spend([q EXCEPT !.fees = <<>>], Head(block), q.fees)
  IN  [c EXCEPT !.lost = r.lost \o c.fees]

Theory(n) ==
  FoldLeft(ApplyBlock, [held |-> <<>>, fees |-> <<>>, lost |-> <<>>], [h \in 1 .. n |-> h - 1])
=============================================================================
