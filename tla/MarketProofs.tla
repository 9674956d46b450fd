---------------------------- MODULE MarketProofs ----------------------------
(***************************************************************************)
(* What a settled storage contract rests on, proved for any number of      *)
(* processes, contracts, prices and invoices, with and without crashes and *)
(* failing stores: the four safety properties of Market.                   *)
(*                                                                         *)
(* None of them is inductive.  A command settles from what it read steps   *)
(* earlier, so the invariant says of every command what its program        *)
(* counter promises about the stores (Commands), and ties the market's     *)
(* invoice hashes to the invoices of the LDK node, two stores that no      *)
(* transaction spans (Hashed, Returned, Invoiced).                         *)
(***************************************************************************)
EXTENDS Market, SequenceTheorems, TLAPS

PCs == {"idle", "create", "persistHash", "persistReceipt", "bind", "settle"}
Invoice == [root : Roots, amount : Nat, state : {"open", "paid", "expired"}]
Command == [pc : PCs, root : Roots \cup {NoRoot}, hash : Nat, amount : Nat, app : AppSettings]

\* The types of the stores, the rails, the settings and the commands.
TypeOK ==
  /\ setup \in Setup
  /\ contracts \subseteq Roots /\ proofs \subseteq Roots
  /\ hash \in [Roots -> Nat]
  /\ pricing \in [Roots -> Nat]
  /\ invoices \in Seq(Invoice)
  /\ settings \in [amount : Nat, app : AppSettings]
  /\ cmd \in [Procs -> Command]
  /\ settled \subseteq [root : Roots, amount : Nat, hash : Nat]

\* What the program counter of a command promises: it works on a contract; one
\* that is past the gate has a challenge proof; one that is about to persist a
\* hash has the invoice of that hash.
Promise(c) ==
  /\ c.pc # "idle" => c.root \in contracts
  /\ c.pc \in {"bind", "settle"} => c.root \in proofs
  /\ c.pc = "persistHash" => c.hash \in 1 .. Len(invoices) /\ invoices[c.hash].root = c.root

Commands == \A p \in Procs : Promise(cmd[p])

\* The hash of a contract is that of an invoice of this contract.
Hashed ==
  \A r \in Roots : hash[r] # NoHash =>
    hash[r] \in 1 .. Len(invoices) /\ invoices[hash[r]].root = r

\* An invoice whose text was returned is the one its contract names.
Returned ==
  \A h \in returned : h \in 1 .. Len(invoices) /\ hash[invoices[h].root] = h

\* Invoices are made by a Lightning build for amounts of the Lightning rail,
\* and only an invoice that was returned is paid.
Invoiced ==
  \A h \in 1 .. Len(invoices) :
    /\ OnLightning(invoices[h].amount) /\ ~StubLightning
    /\ invoices[h].state = "paid" => h \in returned

\* What a settlement was based on is still there.
Based ==
  \A s \in settled :
    /\ s.root \in contracts \cap proofs
    /\ OnLightning(s.amount) /\ s.hash # NoHash =>
         /\ s.hash \in 1 .. Len(invoices)
         /\ invoices[s.hash] = [root |-> s.root, amount |-> s.amount, state |-> "paid"]
    /\ ~OnLightning(s.amount) => contract_binding(s.root, s.amount) \in ledger

MarketInv == TypeOK /\ Commands /\ Hashed /\ Returned /\ Invoiced /\ Based

-----------------------------------------------------------------------------
\* Init

\* Nothing is stored, invoiced or settled at first.
LEMMA MarketInit == Init => MarketInv
<1> SUFFICES ASSUME Init PROVE MarketInv
  OBVIOUS
<1> USE MarketAssumption DEF Init
<1>1. TypeOK
  <2>1. setup \in Setup
    OBVIOUS
  <2>2. settings \in [amount : Nat, app : AppSettings]
    BY <2>1 DEF Setup
  <2>3. cmd \in [Procs -> Command]
    BY DEF Idle, Command, PCs, AppSettings, NoHash, NoPrice
  <2>4. invoices \in Seq(Invoice)
    OBVIOUS
  <2> QED BY <2>1, <2>2, <2>3, <2>4 DEF TypeOK, NoHash, NoPrice
<1>2. Commands
  BY DEF Commands, Promise, Idle
<1>3. Len(invoices) = 0
  OBVIOUS
<1> QED
  BY <1>1, <1>2, <1>3 DEF MarketInv, Hashed, Returned, Invoiced, Based

-----------------------------------------------------------------------------
\* The stores only grow

\* Invoices keep their root and amount, and a paid one stays paid.
InvoicesKept ==
  \A h \in 1 .. Len(invoices) :
    /\ h \in 1 .. Len(invoices')
    /\ invoices'[h].root = invoices[h].root /\ invoices'[h].amount = invoices[h].amount
    /\ invoices[h].state = "paid" => invoices'[h] = invoices[h]

\* No command deletes a contract, a proof, a payment or an invoice.
StoresGrow ==
  /\ setup' = setup
  /\ contracts \subseteq contracts' /\ proofs \subseteq proofs' /\ ledger \subseteq ledger'
  /\ InvoicesKept

\* While the stores only grow, what settlements were based on remains.
LEMMA BasedKept ==
  ASSUME MarketInv, StoresGrow, settled' = settled
  PROVE  Based'
<1> SUFFICES ASSUME NEW s \in settled
             PROVE  /\ s.root \in contracts' \cap proofs'
                    /\ OnLightning(s.amount) /\ s.hash # NoHash =>
                         /\ s.hash \in 1 .. Len(invoices')
                         /\ invoices'[s.hash] = [root |-> s.root, amount |-> s.amount, state |-> "paid"]
                    /\ ~OnLightning(s.amount) => contract_binding(s.root, s.amount) \in ledger'
  BY DEF Based, OnLightning, contract_binding, Row
<1> QED
  BY DEF MarketInv, Based, StoresGrow, InvoicesKept

\* Hashes that are not rewritten keep naming an invoice of their contract.
LEMMA HashedKept ==
  ASSUME MarketInv, StoresGrow, hash' = hash
  PROVE  Hashed'
  BY DEF MarketInv, Hashed, StoresGrow, InvoicesKept

\* The same for the invoices that were returned.
LEMMA ReturnedKept ==
  ASSUME MarketInv, StoresGrow, hash' = hash, returned' = returned
  PROVE  Returned'
<1> SUFFICES ASSUME NEW h \in returned
             PROVE  h \in 1 .. Len(invoices') /\ hash[invoices'[h].root] = h
  BY DEF Returned
<1> QED
  BY DEF MarketInv, Returned, StoresGrow, InvoicesKept

\* Commands that do not move keep what their program counter promises.
LEMMA CommandsKept ==
  ASSUME MarketInv, StoresGrow, NEW p \in Procs, cmd'[p] = cmd[p]
  PROVE  Promise(cmd[p])'
  BY DEF MarketInv, Commands, Promise, StoresGrow, InvoicesKept

\* Invoices that are not touched are as before.
LEMMA InvoicesUntouched ==
  ASSUME TypeOK, invoices' = invoices
  PROVE  InvoicesKept
  BY DEF InvoicesKept

\* A command that ends, or is killed, leaves the types alone.
LEMMA ReturnTyped ==
  ASSUME TypeOK, NEW p \in Procs, Return(p)
  PROVE  cmd' \in [Procs -> Command] /\ cmd'[p] = Idle /\ \A q \in Procs : q # p => cmd'[q] = cmd[q]
<1>1. Idle \in Command
  BY DEF Idle, Command, PCs, AppSettings, NoHash, NoPrice
<1> QED BY <1>1 DEF TypeOK, Return

-----------------------------------------------------------------------------
\* Steps that move no command

\* Serving, contracts, challenges, prices, settings, the challenge fee and the
\* loss of a blob (lib.rs, settlement.rs, serve.rs).
LEMMA StoreStep ==
  ASSUME MarketInv,
         \/ Serve \/ Interrupt
         \/ \E r \in setup.roots :
              \/ RequestContract(r) \/ Challenge(r) \/ PayChallengeFee(r) \/ BlobLost(r)
              \/ \E a \in setup.prices : SetPricing(r, a)
         \/ \E a \in setup.prices, app \in setup.apps : SetSettings([amount |-> a, app |-> app])
  PROVE  MarketInv'
<1>1. setup.roots \subseteq Roots /\ setup.prices \subseteq Nat /\ setup.apps \subseteq AppSettings
  BY MarketAssumption DEF MarketInv, TypeOK, Setup
<1> DEFINE Moves ==
      /\ UNCHANGED <<setup, hash, invoices, returned, cmd, settled>>
      /\ contracts \subseteq contracts' /\ contracts' \subseteq Roots
      /\ proofs \subseteq proofs' /\ proofs' \subseteq Roots
      /\ ledger \subseteq ledger'
      /\ pricing' \in [Roots -> Nat]
      /\ settings' \in [amount : Nat, app : AppSettings]
<1>2. Moves
  <2> USE <1>1 DEF MarketInv, TypeOK, market, rails
  <2>1. CASE Serve \/ Interrupt
    BY <2>1 DEF Serve, Interrupt
  <2>2. ASSUME NEW r \in setup.roots, RequestContract(r) \/ Challenge(r)
        PROVE  Moves
    BY <2>2 DEF RequestContract, Challenge, Challenged
  <2>3. ASSUME NEW r \in setup.roots, PayChallengeFee(r) \/ BlobLost(r)
        PROVE  Moves
    BY <2>3 DEF PayChallengeFee, pay_micro, BlobLost
  <2>4. ASSUME NEW r \in setup.roots, NEW a \in setup.prices, SetPricing(r, a)
        PROVE  Moves
    BY <2>4 DEF SetPricing
  <2>5. ASSUME NEW a \in setup.prices, NEW app \in setup.apps,
               SetSettings([amount |-> a, app |-> app])
        PROVE  Moves
    BY <2>5 DEF SetSettings
  <2> QED BY <2>1, <2>2, <2>3, <2>4, <2>5
<1>3. StoresGrow
  BY <1>2, InvoicesUntouched DEF StoresGrow, MarketInv
<1>4. TypeOK'
  BY <1>2 DEF MarketInv, TypeOK
<1>5. Commands'
  BY <1>2, <1>3, CommandsKept DEF Commands
<1>6. Invoiced'
  BY <1>2 DEF MarketInv, Invoiced, StubLightning, OnLightning
<1> QED
  BY <1>2, <1>3, <1>4, <1>5, <1>6, HashedKept, ReturnedKept, BasedKept DEF MarketInv

\* An invoice expires, or one that was returned is paid: an open invoice is in
\* no settlement, so none loses what it was based on.
LEMMA InvoiceStep ==
  ASSUME MarketInv, NEW h \in Hashes, InvoiceEnds(h)
  PROVE  MarketInv'
<1>1. PICK st \in {"expired", "paid"} :
        /\ st = "paid" => h \in returned
        /\ invoices' = [invoices EXCEPT ![h].state = st]
  BY DEF InvoiceEnds
<1>2. UNCHANGED <<setup, contracts, hash, pricing, proofs, ledger, returned, settings, cmd, settled>>
  BY DEF InvoiceEnds, market
<1>3. h \in 1 .. Len(invoices) /\ invoices[h].state = "open" /\ invoices \in Seq(Invoice)
  BY DEF InvoiceEnds, MarketInv, TypeOK
<1> DEFINE ended == [invoices[h] EXCEPT !.state = st]
<1>4. invoices[h] \in Invoice /\ ended \in Invoice
  <2>1. invoices[h] \in Invoice
    BY <1>3, ElementOfSeq
  <2> QED BY <2>1 DEF Invoice
<1>5. /\ invoices' = [invoices EXCEPT ![h] = ended]
      /\ ended.root = invoices[h].root /\ ended.amount = invoices[h].amount /\ ended.state = st
  BY <1>1, <1>4 DEF Invoice
<1> HIDE DEF ended
<1>6. /\ invoices' \in Seq(Invoice) /\ Len(invoices') = Len(invoices)
      /\ \A j \in 1 .. Len(invoices) : invoices'[j] = IF j = h THEN ended ELSE invoices[j]
  BY <1>3, <1>4, <1>5, ExceptSeq
<1>7. StoresGrow
  BY <1>2, <1>3, <1>5, <1>6 DEF StoresGrow, InvoicesKept
<1>8. TypeOK'
  BY <1>2, <1>6 DEF MarketInv, TypeOK
<1>9. Commands'
  BY <1>2, <1>7, CommandsKept DEF Commands
<1>10. Invoiced'
  <2> SUFFICES ASSUME NEW j \in 1 .. Len(invoices')
               PROVE  /\ OnLightning(invoices'[j].amount) /\ ~StubLightning'
                      /\ invoices'[j].state = "paid" => j \in returned'
    BY DEF Invoiced, OnLightning
  <2> QED
    BY <1>1, <1>2, <1>3, <1>5, <1>6 DEF MarketInv, Invoiced, StubLightning, OnLightning
<1> QED
  BY <1>2, <1>7, <1>8, <1>9, <1>10, HashedKept, ReturnedKept, BasedKept DEF MarketInv

-----------------------------------------------------------------------------
\* Steps of a command

\* Only p moves, to a state whose promise holds, and the stores only grow.
LEMMA OneMoves ==
  ASSUME MarketInv, StoresGrow, NEW p \in Procs,
         \A q \in Procs : q # p => cmd'[q] = cmd[q],
         Promise(cmd[p])'
  PROVE  Commands'
<1> SUFFICES ASSUME NEW q \in Procs
             PROVE  Promise(cmd[q])'
  BY DEF Commands
<1>1. CASE q = p
  BY <1>1
<1>2. CASE q # p
  BY <1>2, CommandsKept
<1> QED BY <1>1, <1>2

\* The command reads lord.yaml, the contract and perhaps the gate.
LEMMA StartTyped ==
  ASSUME TypeOK, NEW p \in Procs, NEW r \in Roots, NEW pc \in PCs, NEW a \in Nat,
         Start(p, r, pc, a)
  PROVE  /\ cmd' \in [Procs -> Command]
         /\ cmd'[p].pc = pc /\ cmd'[p].root = r
         /\ \A q \in Procs : q # p => cmd'[q] = cmd[q]
<1>1. settings.app \in AppSettings
  BY DEF TypeOK
<1>2. [pc |-> pc, root |-> r, hash |-> NoHash, amount |-> a, app |-> settings.app] \in Command
  BY <1>1 DEF Command, NoHash
<1> QED BY <1>2 DEF TypeOK, Start

\* The price of a contract is an amount.
LEMMA PriceTyped ==
  ASSUME TypeOK, NEW r \in Roots, NEW default \in Nat, NEW a \in contract_amount_sats(r, default)
  PROVE  a \in Nat
  BY DEF TypeOK, contract_amount_sats, Price

\* Commands start, bind a price, persist a receipt or are killed; they make
\* no invoice, record no hash and settle nothing.
LEMMA QuietStep ==
  ASSUME MarketInv, NEW p \in Procs,
         \/ \E r \in setup.roots : CreateInvoice(p, r) \/ SettleGate(p, r)
         \/ SettleBind(p) \/ PersistReceipt(p) \/ Crash(p)
  PROVE  MarketInv'
<1> DEFINE Moves ==
      /\ UNCHANGED <<setup, contracts, hash, pricing, ledger, invoices, returned, settings, settled>>
      /\ proofs \subseteq proofs' /\ proofs' \subseteq Roots
      /\ cmd' \in [Procs -> Command]
      /\ \A q \in Procs : q # p => cmd'[q] = cmd[q]
      /\ cmd'[p].pc # "idle" => cmd'[p].root \in contracts
      /\ cmd'[p].pc \in {"bind", "settle"} => cmd'[p].root \in proofs'
      /\ cmd'[p].pc # "persistHash"
<1>1. Moves
  <2>1. TypeOK /\ contracts \subseteq Roots /\ proofs \subseteq Roots /\ settings.amount \in Nat
    BY DEF MarketInv, TypeOK
  <2>2. ASSUME NEW r \in setup.roots, CreateInvoice(p, r)
        PROVE  Moves
    <3>1. r \in contracts /\ r \in Roots
      BY <2>1, <2>2 DEF CreateInvoice, ensure_contract_exists
    <3>2. PICK a \in contract_amount_sats(r, settings.amount) : Start(p, r, "create", a)
      BY <2>2 DEF CreateInvoice
    <3>3. a \in Nat
      BY <2>1, <3>1, PriceTyped
    <3> QED BY <2>1, <2>2, <3>1, <3>2, <3>3, StartTyped DEF CreateInvoice, market, rails, PCs
  <2>3. ASSUME NEW r \in setup.roots, SettleGate(p, r)
        PROVE  Moves
    <3>1. r \in contracts /\ r \in Roots
      BY <2>1, <2>3 DEF SettleGate, ensure_contract_exists
    <3>2. r \in proofs' /\ proofs \subseteq proofs' /\ proofs' \subseteq Roots
      BY <2>1, <2>3, <3>1 DEF SettleGate, Gate, Challenged
    <3>3. Start(p, r, "bind", settings.amount)
      BY <2>3 DEF SettleGate
    <3> QED BY <2>1, <2>3, <3>1, <3>2, <3>3, StartTyped DEF SettleGate, rails, PCs
  <2>4. CASE SettleBind(p)
    <3>1. PICK a \in contract_amount_sats(cmd[p].root, cmd[p].amount) :
            cmd' = [cmd EXCEPT ![p].pc = "settle", ![p].amount = a]
      BY <2>4 DEF SettleBind
    <3>2. cmd[p].pc = "bind" /\ cmd[p].root \in contracts /\ cmd[p].root \in proofs
      BY <2>4 DEF SettleBind, MarketInv, Commands, Promise
    <3>3. cmd[p] \in Command /\ cmd[p].amount \in Nat
      BY <2>1 DEF TypeOK, Command
    <3>4. a \in Nat
      BY <2>1, <3>1, <3>2, <3>3, PriceTyped
    <3>5. /\ cmd' \in [Procs -> Command]
          /\ cmd'[p].pc = "settle" /\ cmd'[p].root = cmd[p].root
          /\ \A q \in Procs : q # p => cmd'[q] = cmd[q]
      BY <2>1, <3>1, <3>3, <3>4 DEF TypeOK, Command, PCs
    <3> QED BY <2>1, <2>4, <3>2, <3>5 DEF SettleBind, market, rails
  <2>5. CASE PersistReceipt(p) \/ Crash(p)
    <3>1. Return(p)
      BY <2>5 DEF PersistReceipt, Crash
    <3>2. /\ cmd' \in [Procs -> Command] /\ cmd'[p].pc = "idle"
          /\ \A q \in Procs : q # p => cmd'[q] = cmd[q]
      BY <2>1, <3>1, ReturnTyped DEF Idle
    <3> QED BY <2>1, <2>5, <3>2 DEF PersistReceipt, Crash, market, rails
  <2> QED BY <2>2, <2>3, <2>4, <2>5
<1>2. StoresGrow
  BY <1>1, InvoicesUntouched DEF StoresGrow, MarketInv
<1>3. TypeOK'
  BY <1>1 DEF MarketInv, TypeOK
<1>4. Promise(cmd[p])'
  BY <1>1 DEF Promise
<1>5. Commands'
  BY <1>1, <1>2, <1>4, OneMoves
<1>6. Invoiced'
  BY <1>1 DEF MarketInv, Invoiced, StubLightning, OnLightning
<1> QED
  BY <1>1, <1>2, <1>3, <1>5, <1>6, HashedKept, ReturnedKept, BasedKept DEF MarketInv

\* create_invoice_for_contract asks the rail of the price: a new invoice gets
\* a hash of its own and is neither named by a contract nor returned yet.
LEMMA AskRailStep ==
  ASSUME MarketInv, NEW p \in Procs, AskRail(p)
  PROVE  MarketInv'
<1> DEFINE c == cmd[p]
           new == [root |-> c.root, amount |-> c.amount, state |-> "open"]
<1>1. /\ UNCHANGED <<setup, contracts, hash, pricing, proofs, returned, settings, settled>>
      /\ c.pc = "create" /\ c.root \in contracts
  BY DEF AskRail, market, MarketInv, Commands, Promise
<1>2. /\ TypeOK /\ invoices \in Seq(Invoice) /\ contracts \subseteq Roots /\ c \in Command
  BY DEF MarketInv, TypeOK
<1>3. CASE /\ OnLightning(c.amount) /\ Lightning(c.app)
           /\ create_contract_invoice(c.root, c.amount)
           /\ cmd' = [cmd EXCEPT ![p].pc = "persistHash", ![p].hash = Len(invoices) + 1]
           /\ UNCHANGED ledger
  <2>1. new \in Invoice /\ Len(invoices) \in Nat
    BY <1>1, <1>2, LenProperties DEF Invoice, Command
  <2>2. /\ invoices' \in Seq(Invoice) /\ Len(invoices') = Len(invoices) + 1
        /\ \A j \in 1 .. Len(invoices) : invoices'[j] = invoices[j]
        /\ invoices'[Len(invoices) + 1] = new
    BY <1>2, <1>3, <2>1, AppendProperties DEF create_contract_invoice
  <2>3. StoresGrow
    BY <1>1, <1>3, <2>1, <2>2 DEF StoresGrow, InvoicesKept
  <2>4. /\ cmd' \in [Procs -> Command]
        /\ cmd'[p].pc = "persistHash" /\ cmd'[p].root = c.root /\ cmd'[p].hash = Len(invoices) + 1
        /\ \A q \in Procs : q # p => cmd'[q] = cmd[q]
    <3> DEFINE moved == [c EXCEPT !.pc = "persistHash", !.hash = Len(invoices) + 1]
    <3>1. cmd' = [cmd EXCEPT ![p] = moved]
      BY <1>3
    <3>2. c.hash \in Nat /\ Len(invoices) + 1 \in Nat /\ "persistHash" \in PCs
      BY <1>2, <2>1 DEF Command, PCs
    <3>3. /\ moved \in Command
          /\ moved.pc = "persistHash" /\ moved.root = c.root /\ moved.hash = Len(invoices) + 1
      BY <1>2, <3>2 DEF Command
    <3> HIDE DEF moved
    <3> QED BY <1>2, <3>1, <3>3 DEF TypeOK
  <2>5. TypeOK'
    BY <1>1, <1>2, <2>2, <2>4 DEF TypeOK
  <2>6. Promise(cmd[p])'
    BY <1>1, <2>1, <2>2, <2>4 DEF Promise
  <2>7. Commands'
    BY <2>3, <2>4, <2>6, OneMoves
  <2>8. Invoiced'
    <3> SUFFICES ASSUME NEW j \in 1 .. Len(invoices')
                 PROVE  /\ OnLightning(invoices'[j].amount) /\ ~StubLightning'
                        /\ invoices'[j].state = "paid" => j \in returned'
      BY DEF Invoiced, OnLightning
    <3>1. CASE j \in 1 .. Len(invoices)
      BY <1>1, <2>2, <3>1 DEF MarketInv, Invoiced, StubLightning
    <3>2. CASE j = Len(invoices) + 1
      BY <1>1, <1>3, <2>2, <3>2 DEF Lightning, StubLightning
    <3> QED BY <2>1, <2>2, <3>1, <3>2
  <2> QED
    BY <1>1, <2>3, <2>5, <2>7, <2>8, HashedKept, ReturnedKept, BasedKept DEF MarketInv
<1>4. CASE /\ \/ pay_micro(contract_binding(c.root, c.amount)) /\ cmd' = [cmd EXCEPT ![p].pc = "persistReceipt"]
              \/ Return(p) /\ UNCHANGED ledger
           /\ UNCHANGED invoices
  <2>1. ledger \subseteq ledger'
    BY <1>4 DEF pay_micro
  <2>2. StoresGrow
    BY <1>1, <1>2, <1>4, <2>1, InvoicesUntouched DEF StoresGrow
  <2>3. /\ cmd' \in [Procs -> Command]
        /\ cmd'[p] = Idle \/ (cmd'[p].pc = "persistReceipt" /\ cmd'[p].root = c.root)
        /\ \A q \in Procs : q # p => cmd'[q] = cmd[q]
    <3>1. CASE cmd' = [cmd EXCEPT ![p].pc = "persistReceipt"]
      BY <1>2, <3>1 DEF TypeOK, Command, PCs
    <3>2. CASE Return(p)
      BY <1>2, <3>2, ReturnTyped
    <3> QED BY <1>4, <3>1, <3>2
  <2>4. TypeOK'
    BY <1>1, <1>2, <1>4, <2>3 DEF TypeOK
  <2>5. Promise(cmd[p])'
    BY <1>1, <2>3 DEF Promise, Idle
  <2>6. Commands'
    BY <2>2, <2>3, <2>5, OneMoves
  <2>7. Invoiced'
    BY <1>1, <1>4 DEF MarketInv, Invoiced, StubLightning, OnLightning
  <2> QED
    BY <1>1, <2>2, <2>4, <2>6, <2>7, HashedKept, ReturnedKept, BasedKept DEF MarketInv
<1> QED BY <1>3, <1>4 DEF AskRail

\* persist_invoice_hash writes where no hash is and returns the invoice, or
\* refuses: so an invoice that was returned is never displaced.
LEMMA PersistHashStep ==
  ASSUME MarketInv, NEW p \in Procs, PersistHash(p)
  PROVE  MarketInv'
<1> DEFINE c == cmd[p]
<1>1. /\ UNCHANGED <<setup, contracts, pricing, proofs, ledger, invoices, settings, settled>>
      /\ c.pc = "persistHash" /\ Return(p)
  BY DEF PersistHash
<1>2. /\ TypeOK /\ hash \in [Roots -> Nat] /\ invoices \in Seq(Invoice) /\ contracts \subseteq Roots
  BY DEF MarketInv, TypeOK
<1>3. /\ c.root \in Roots
      /\ c.hash \in 1 .. Len(invoices) /\ invoices[c.hash].root = c.root
  BY <1>1, <1>2 DEF MarketInv, Commands, Promise
<1>4. StoresGrow
  BY <1>1, <1>2, InvoicesUntouched DEF StoresGrow
<1>5. cmd' \in [Procs -> Command] /\ cmd'[p] = Idle /\ \A q \in Procs : q # p => cmd'[q] = cmd[q]
  BY <1>1, <1>2, ReturnTyped
<1>6. Commands'
  <2>1. Promise(cmd[p])'
    BY <1>5 DEF Promise, Idle
  <2> QED BY <1>4, <1>5, <2>1, OneMoves
<1>7. Based'
  BY <1>1, <1>4, BasedKept
<1>8. CASE /\ hash[c.root] = NoHash
           /\ hash' = [hash EXCEPT ![c.root] = c.hash]
           /\ returned' = returned \cup {c.hash}
  <2>1. TypeOK'
    BY <1>1, <1>2, <1>3, <1>5, <1>8 DEF TypeOK
  <2>2. Hashed'
    BY <1>1, <1>2, <1>3, <1>8 DEF MarketInv, Hashed
  <2>3. Returned'
    <3> SUFFICES ASSUME NEW h \in returned'
                 PROVE  h \in 1 .. Len(invoices) /\ hash'[invoices[h].root] = h
      BY <1>1 DEF Returned
    <3>1. CASE h = c.hash
      BY <1>2, <1>3, <1>8, <3>1
    <3>2. CASE h \in returned
      <4>1. h \in 1 .. Len(invoices) /\ hash[invoices[h].root] = h /\ h # NoHash
        BY <3>2 DEF MarketInv, Returned, NoHash
      <4>2. invoices[h] \in Invoice
        BY <1>2, <4>1, ElementOfSeq
      <4>3. invoices[h].root \in Roots /\ invoices[h].root # c.root
        BY <1>8, <4>1, <4>2 DEF Invoice
      <4> QED BY <1>2, <1>8, <4>1, <4>3
    <3> QED BY <1>8, <3>1, <3>2
  <2>4. Invoiced'
    BY <1>1, <1>8 DEF MarketInv, Invoiced, StubLightning, OnLightning
  <2> QED BY <1>6, <1>7, <2>1, <2>2, <2>3, <2>4 DEF MarketInv
<1>9. CASE UNCHANGED <<hash, returned>>
  <2>1. TypeOK'
    BY <1>1, <1>2, <1>5, <1>9 DEF TypeOK
  <2>2. Invoiced'
    BY <1>1, <1>9 DEF MarketInv, Invoiced, StubLightning, OnLightning
  <2> QED
    BY <1>4, <1>6, <1>7, <1>9, <2>1, <2>2, HashedKept, ReturnedKept DEF MarketInv
<1> QED BY <1>8, <1>9 DEF PersistHash

\* settle_storage_contract answers from the credentials and the payments that
\* are stored now, although gate and price were read earlier.
LEMMA SettleStep ==
  ASSUME MarketInv, NEW p \in Procs, SettleCheck(p)
  PROVE  MarketInv'
<1> DEFINE c == cmd[p]
           s0 == [root |-> c.root, amount |-> c.amount, hash |-> hash[c.root]]
<1>1. /\ UNCHANGED <<setup, contracts, hash, pricing, proofs, receipts, ledger, invoices, returned, settings>>
      /\ c.pc = "settle" /\ Return(p)
  BY DEF SettleCheck, market, rails
<1>2. /\ TypeOK /\ hash \in [Roots -> Nat] /\ invoices \in Seq(Invoice) /\ c \in Command
      /\ contracts \subseteq Roots
  BY DEF MarketInv, TypeOK
<1>3. c.root \in contracts /\ c.root \in proofs /\ c.root \in Roots
  BY <1>1, <1>2 DEF MarketInv, Commands, Promise
<1>4. StoresGrow
  BY <1>1, <1>2, InvoicesUntouched DEF StoresGrow
<1>5. cmd' \in [Procs -> Command] /\ cmd'[p] = Idle /\ \A q \in Procs : q # p => cmd'[q] = cmd[q]
  BY <1>1, <1>2, ReturnTyped
<1>6. Commands'
  <2>1. Promise(cmd[p])'
    BY <1>5 DEF Promise, Idle
  <2> QED BY <1>4, <1>5, <2>1, OneMoves
<1>7. Hashed' /\ Returned'
  BY <1>1, <1>4, HashedKept, ReturnedKept
<1>8. Invoiced'
  BY <1>1 DEF MarketInv, Invoiced, StubLightning, OnLightning
<1>9. CASE settle_contract(c.root, c.amount, c.app) /\ settled' = settled \cup {s0}
  <2>1. s0 \in [root : Roots, amount : Nat, hash : Nat]
    BY <1>2, <1>3 DEF Command
  <2>2. TypeOK'
    BY <1>1, <1>2, <1>5, <1>9, <2>1 DEF TypeOK
  <2>3. ASSUME OnLightning(c.amount), hash[c.root] # NoHash
        PROVE  /\ hash[c.root] \in 1 .. Len(invoices)
               /\ invoices[hash[c.root]] = [root |-> c.root, amount |-> c.amount, state |-> "paid"]
    <3>1. /\ invoices[hash[c.root]].state = "paid"
          /\ invoices[hash[c.root]].amount = c.amount
      BY <1>9, <2>3 DEF settle_contract, Paid
    <3>2. hash[c.root] \in 1 .. Len(invoices) /\ invoices[hash[c.root]].root = c.root
      BY <1>3, <2>3 DEF MarketInv, Hashed
    <3>3. invoices[hash[c.root]] \in Invoice
      BY <1>2, <3>2, ElementOfSeq
    <3> QED BY <3>1, <3>2, <3>3 DEF Invoice
  <2>4. ASSUME ~OnLightning(c.amount)
        PROVE  contract_binding(c.root, c.amount) \in ledger
    BY <1>9, <2>4 DEF settle_contract, verify_micro, HasPayment
  <2>5. Based'
    <3> SUFFICES ASSUME NEW s \in settled'
                 PROVE  /\ s.root \in contracts \cap proofs
                        /\ OnLightning(s.amount) /\ s.hash # NoHash =>
                             /\ s.hash \in 1 .. Len(invoices)
                             /\ invoices[s.hash] = [root |-> s.root, amount |-> s.amount, state |-> "paid"]
                        /\ ~OnLightning(s.amount) => contract_binding(s.root, s.amount) \in ledger
      BY <1>1 DEF Based, OnLightning, contract_binding, Row
    <3>1. CASE s = s0
      BY <1>3, <2>3, <2>4, <3>1
    <3>2. CASE s \in settled
      BY <3>2 DEF MarketInv, Based
    <3> QED BY <1>9, <3>1, <3>2
  <2> QED BY <1>6, <1>7, <1>8, <2>2, <2>5 DEF MarketInv
<1>10. CASE UNCHANGED settled
  <2>1. TypeOK'
    BY <1>1, <1>2, <1>5, <1>10 DEF TypeOK
  <2> QED BY <1>4, <1>6, <1>7, <1>8, <1>10, <2>1, BasedKept DEF MarketInv
<1> QED BY <1>9, <1>10 DEF SettleCheck

-----------------------------------------------------------------------------

\* The market's stores and the rails stay in step in every behaviour, with
\* any number of racing, failing and killed commands.
THEOREM MarketInvariant == Spec => []MarketInv
<1>1. MarketInv /\ [Next]_vars => MarketInv'
  <2> SUFFICES ASSUME MarketInv, [Next]_vars
               PROVE  MarketInv'
    OBVIOUS
  <2>1. CASE UNCHANGED vars
    <3>1. /\ UNCHANGED <<setup, contracts, hash, pricing, proofs, ledger, invoices, returned, settings, cmd, settled>>
          /\ TypeOK
      BY <2>1 DEF vars, market, rails, MarketInv
    <3>2. StoresGrow
      BY <3>1, InvoicesUntouched DEF StoresGrow
    <3>3. TypeOK'
      BY <3>1 DEF TypeOK
    <3>4. Commands'
      BY <3>1, <3>2, CommandsKept DEF Commands
    <3>5. Invoiced'
      BY <3>1 DEF MarketInv, Invoiced, StubLightning, OnLightning
    <3> QED BY <3>1, <3>2, <3>3, <3>4, <3>5, HashedKept, ReturnedKept, BasedKept DEF MarketInv
  <2>2. ASSUME NEW p \in setup.procs, NEW r \in setup.roots, CreateInvoice(p, r) \/ SettleGate(p, r)
        PROVE  MarketInv'
    <3>1. p \in Procs
      BY DEF MarketInv, TypeOK, Setup
    <3> QED BY <2>2, <3>1, QuietStep
  <2>3. ASSUME NEW p \in Procs, SettleBind(p) \/ PersistReceipt(p) \/ Crash(p)
        PROVE  MarketInv'
    BY <2>3, QuietStep
  <2>4. CASE Next
    BY <2>2, <2>3, <2>4, StoreStep, InvoiceStep, AskRailStep, PersistHashStep, SettleStep DEF Next
  <2> QED BY <2>1, <2>4
<1> QED BY MarketInit, <1>1, PTL DEF Spec

\* A settled contract passed a Bao challenge (ensure_bao_challenge_gate).
THEOREM SettledAfterChallenge == Spec => []SettledWasChallenged
<1>1. MarketInv => SettledWasChallenged
  BY DEF MarketInv, Based, SettledWasChallenged
<1> QED BY MarketInvariant, <1>1, PTL

\* A contract settled with its invoice hash was paid through its own invoice,
\* at the amount it was settled at (settle_contract_on_node).
THEOREM SettledByOwnInvoice == Spec => []HashedSettledByOwnInvoice
<1>1. MarketInv => HashedSettledByOwnInvoice
  BY DEF MarketInv, Based, HashedSettledByOwnInvoice
<1> QED BY MarketInvariant, <1>1, PTL

\* An invoice that was paid is the one its contract names, and settles it at
\* the price it was made for (persist_invoice_hash, settle_contract).
THEOREM PaidInvoicesSettle == Spec => []PaidIsSettleable
<1>1. MarketInv => PaidIsSettleable
  <2> SUFFICES ASSUME MarketInv, NEW h \in DOMAIN invoices, invoices[h].state = "paid"
               PROVE  /\ hash[invoices[h].root] = h
                      /\ /\ Price(invoices[h].root, settings.amount) = invoices[h].amount
                         /\ coordinator_for_chain(settings.app) /\ ~serving
                         => settle_contract(invoices[h].root, invoices[h].amount, settings.app)
    BY DEF PaidIsSettleable
  <2>1. h \in 1 .. Len(invoices)
    BY DEF MarketInv, TypeOK
  <2>2. hash[invoices[h].root] = h
    BY <2>1 DEF MarketInv, Invoiced, Returned
  <2>3. OnLightning(invoices[h].amount) /\ ~StubLightning
    BY <2>1 DEF MarketInv, Invoiced
  <2>4. Paid(h, invoices[h].amount)
    BY DEF Paid
  <2> QED BY <2>2, <2>3, <2>4 DEF settle_contract, Lightning, with_node
<1> QED BY MarketInvariant, <1>1, PTL
=============================================================================
