------------------------------- MODULE Market -------------------------------
(***************************************************************************)
(* Storage contracts and their settlement: crates/lord-market (lib.rs,     *)
(* settlement.rs, store.rs), the coordinator of crates/lord-payments, the  *)
(* ledger and provider of crates/lord-ecash and the node and invoices of   *)
(* crates/lord-lightning.                                                  *)
(*                                                                         *)
(* Creating an invoice and recording its credential are two steps over two *)
(* stores (the LDK node or the ecash ledger, then the market LMDB), and    *)
(* settling reads the gate, the price, the credentials and the payments    *)
(* one after the other.  Commands run in several processes, each with the  *)
(* settings that lord.yaml had when it started and with an LDK node of its *)
(* own, while `lord lightning serve` may hold the node and lord.yaml may   *)
(* be edited.                                                              *)
(***************************************************************************)
EXTENDS Processes, Naturals, Sequences

CONSTANTS
  Prices,       \* contract amounts in sats
  Fee,          \* market_challenge_fee_sats
  Threshold,    \* ecash_settlement_threshold_sats
  Setups,       \* the installations to examine
  MaxInvoices,  \* bound on the invoices of the LDK node
  Faults,       \* which failures happen
  NoRoot

\* SettlementAppSettings: the mint URLs are missing, allowed or not allowed.
AppSettings == [enabled : BOOLEAN, mints : {"none", "allowed", "refused"}]

\* An installation: the features of the build, the processes, the roots with a
\* timestamped intact, those whose blob may be lost, the prices, whether
\* prices change after contracts were requested, the ecash settings that
\* lord.yaml may hold, and whether the Lightning node is served.
Setup == [features : SUBSET {"lightning", "ecash"}, procs : SUBSET Procs, roots : SUBSET Roots,
          fragile : SUBSET Roots, prices : SUBSET Prices, repricing : BOOLEAN, apps : SUBSET AppSettings,
          serves : BOOLEAN]

ASSUME MarketAssumption ==
  /\ NoRoot \notin Roots
  /\ Prices \subseteq Nat \ {0}
  /\ Fee \in Nat \ {0}
  /\ Threshold \in Nat \ {0}
  /\ Setups \subseteq Setup
  /\ MaxInvoices \in Nat
  /\ Faults \subseteq {"crash", "io"}

\* A BOLT11 payment hash is the invoice's number.
Hashes == 1 .. MaxInvoices
NoHash == 0
NoPrice == 0

VARIABLES
  setup,       \* the installation; never changes
  intact,      \* roots whose local blob verifies
  contracts,   \* CONTRACT_BY_ROOT
  hash,        \* StorageContract::invoice_hash
  pricing,     \* CONTRACT_PRICING
  proofs,      \* CHALLENGE_PROOFS
  receipts,    \* ECASH_RECEIPTS; a receipt only names root and purpose
  ledger,      \* rows of ecash/micro_payments.jsonl
  invoices,    \* BOLT11 invoices of the LDK node
  returned,    \* hashes of the invoices whose text a command returned
  serving,     \* does `lord lightning serve` run?
  settings,    \* lord.yaml: market_contract_amount_sats and the ecash keys
  cmd,         \* what each process is doing
  settled      \* every `settled: true` so far, with what it was based on

market == <<contracts, hash, pricing, proofs, receipts>>
rails == <<ledger, invoices, returned, serving>>
vars == <<setup, intact, market, rails, settings, cmd, settled>>

Idle == [pc |-> "idle", root |-> NoRoot, hash |-> NoHash, amount |-> NoPrice,
         app |-> [enabled |-> FALSE, mints |-> "none"]]

Init ==
  /\ setup \in Setups
  /\ intact = setup.roots
  /\ contracts = {}
  /\ hash = [r \in Roots |-> NoHash]
  /\ pricing = [r \in Roots |-> NoPrice]
  /\ proofs = {}
  /\ receipts = {}
  /\ ledger = {}
  /\ invoices = <<>>
  /\ returned = {}
  /\ serving = FALSE
  /\ settings \in [amount : setup.prices, app : setup.apps]
  /\ cmd = [p \in Procs |-> Idle]
  /\ settled = {}

Fails == "io" \in Faults
Return(p) == cmd' = [cmd EXCEPT ![p] = Idle]

\* The command of p starts: it has read lord.yaml and found the contract.
ensure_contract_exists(r) == r \in contracts
Start(p, r, pc, a) ==
  /\ cmd[p].pc = "idle"
  /\ cmd' = [cmd EXCEPT ![p] = [pc |-> pc, root |-> r, hash |-> NoHash,
                                amount |-> a, app |-> settings.app]]

\* contract_amount_sats: the contract's own price, else the settings' amount;
\* also when the store cannot be opened.
Price(r, default) == IF pricing[r] = NoPrice THEN default ELSE pricing[r]
contract_amount_sats(r, default) == {Price(r, default)} \cup (IF Fails THEN {default} ELSE {})

Row(r, purpose, a) == [root |-> r, purpose |-> purpose, amount |-> a]
contract_binding(r, a) == Row(r, "storage_contract", a)
challenge_binding(r) == Row(r, "challenge_fee", Fee)

-----------------------------------------------------------------------------
\* The rails.

\* rail_for_amount
OnLightning(a) == a >= Threshold

live_ecash_requested(app) == app.enabled /\ app.mints # "none"
validate_mint_allowlist(app) == app.mints # "refused"
validate_for_use(app) == (app.enabled => app.mints # "none") /\ validate_mint_allowlist(app)

\* coordinator_for_chain_with_lightning fails on ecash settings that do not
\* validate, whichever rail is needed; without the features the rails are stubs.
coordinator_for_chain(app) == "ecash" \in setup.features => validate_for_use(app)
StubLightning == "lightning" \notin setup.features
MicroRail(app) ==
  {"lightning", "ecash"} \subseteq setup.features /\ live_ecash_requested(app)

\* with_node starts a node for the call: the commands pass no shared node, and
\* the address is taken while another node listens on it.
with_node == ~serving

Lightning(app) == coordinator_for_chain(app) /\ ~StubLightning /\ with_node
Ecash(app) == coordinator_for_chain(app) /\ MicroRail(app)

\* create_contract_invoice_on_node
create_contract_invoice(r, a) ==
  invoices' = Append(invoices, [root |-> r, amount |-> a, state |-> "open"])

\* pay_micro appends the payment to the ledger.
pay_micro(row) == ledger' = ledger \cup {row}

\* settle_contract_on_node: an inbound payment that succeeded, of the amount,
\* and with the expected hash if there is one
PaidAny(h, a) ==
  \E i \in DOMAIN invoices : invoices[i].state = "paid" /\ invoices[i].amount = a
Paid(h, a) ==
  \E i \in DOMAIN invoices :
    /\ invoices[i].state = "paid"
    /\ h # NoHash => i = h
    /\ invoices[i].amount = a

\* has_payment
HasPayment(row) == row \in ledger

\* verify_micro
verify_micro(row) == HasPayment(row)

\* run_until_interrupt, wait_for_shutdown: the node listens until a signal.
Serve ==
  /\ setup.serves /\ ~serving /\ ~StubLightning
  /\ serving' = TRUE
  /\ UNCHANGED <<setup, intact, market, ledger, invoices, returned, settings, cmd, settled>>

Interrupt ==
  /\ serving
  /\ serving' = FALSE
  /\ UNCHANGED <<setup, intact, market, ledger, invoices, returned, settings, cmd, settled>>

-----------------------------------------------------------------------------
\* lib.rs

\* request_storage_contract of a timestamped commitment
RequestContract(r) ==
  /\ r \notin contracts
  /\ contracts' = contracts \cup {r}
  /\ UNCHANGED <<setup, intact, hash, pricing, proofs, receipts, rails, settings, cmd,
                 settled>>

\* challenge_replication: the proof is written only after the blob verified.
Challenged(r) == r \in contracts /\ r \in intact /\ proofs' = proofs \cup {r}

Challenge(r) ==
  /\ Challenged(r)
  /\ UNCHANGED <<setup, intact, contracts, hash, pricing, receipts, rails, settings, cmd,
                 settled>>

\* put_contract_pricing, and an edit of lord.yaml
SetPricing(r, a) ==
  /\ setup.repricing \/ r \notin contracts
  /\ pricing' = [pricing EXCEPT ![r] = a]
  /\ UNCHANGED <<setup, intact, contracts, hash, proofs, receipts, rails, settings, cmd,
                 settled>>

SetSettings(s) ==
  /\ s.amount # settings.amount => setup.repricing \/ contracts = {}
  /\ settings' = s
  /\ UNCHANGED <<setup, intact, market, rails, cmd, settled>>

-----------------------------------------------------------------------------
\* create_invoice_for_contract

\* The contract and its price are read ...
CreateInvoice(p, r) ==
  /\ ensure_contract_exists(r)
  /\ \E a \in contract_amount_sats(r, settings.amount) : Start(p, r, "create", a)
  /\ UNCHANGED <<setup, intact, market, rails, settings, settled>>

\* ... and the rail of that price is asked, or refuses.
AskRail(p) ==
  LET c == cmd[p] IN
  /\ c.pc = "create"
  /\ \/ /\ OnLightning(c.amount) /\ Lightning(c.app)
        /\ Len(invoices) < MaxInvoices
        /\ create_contract_invoice(c.root, c.amount)
        /\ cmd' = [cmd EXCEPT ![p].pc = "persistHash", ![p].hash = Len(invoices) + 1]
        /\ UNCHANGED ledger
     \/ /\ ~OnLightning(c.amount) /\ Ecash(c.app)
        /\ pay_micro(contract_binding(c.root, c.amount))
        /\ cmd' = [cmd EXCEPT ![p].pc = "persistReceipt"]
        /\ UNCHANGED invoices
     \/ /\ Fails \/ ~(IF OnLightning(c.amount) THEN Lightning(c.app) ELSE Ecash(c.app))
        /\ Return(p)
        /\ UNCHANGED <<ledger, invoices>>
  /\ UNCHANGED <<setup, intact, market, returned, serving, settings, settled>>

PersistOverwrites(p) ==
  LET c == cmd[p] IN
  /\ c.pc = "persistHash"
  /\ hash' = [hash EXCEPT ![c.root] = c.hash]
  /\ returned' = returned \cup {c.hash}
  /\ Return(p)
  /\ UNCHANGED <<setup, intact, contracts, pricing, proofs, receipts, ledger, invoices,
                 serving, settings, settled>>

\* persist_invoice_hash refuses to overwrite: then, and when the write fails,
\* the invoice is never returned.
PersistHash(p) ==
  LET c == cmd[p] IN
  /\ c.pc = "persistHash"
  /\ \/ /\ hash[c.root] = NoHash
        /\ hash' = [hash EXCEPT ![c.root] = c.hash]
        /\ returned' = returned \cup {c.hash}
     \/ /\ hash[c.root] # NoHash \/ Fails
        /\ UNCHANGED <<hash, returned>>
  /\ Return(p)
  /\ UNCHANGED <<setup, intact, contracts, pricing, proofs, receipts, ledger, invoices,
                 serving, settings, settled>>

\* persist_ecash_receipt: the receipt of a root never differs from another.
PersistReceipt(p) ==
  /\ cmd[p].pc = "persistReceipt"
  /\ \/ receipts' = receipts \cup {cmd[p].root}
     \/ Fails /\ UNCHANGED receipts
  /\ Return(p)
  /\ UNCHANGED <<setup, intact, contracts, hash, pricing, proofs, rails, settings, settled>>

\* pay_challenge_fee: always on the ecash rail
PayChallengeFee(r) ==
  /\ ensure_contract_exists(r)
  /\ Ecash(settings.app)
  /\ pay_micro(challenge_binding(r))
  /\ UNCHANGED <<setup, intact, market, invoices, returned, serving, settings, cmd, settled>>

-----------------------------------------------------------------------------
\* settle_storage_contract

\* ensure_bao_challenge_gate: an inline challenge, or a persisted proof
GateOpen(r) == UNCHANGED proofs
Gate(r) == Challenged(r) \/ (r \in proofs /\ UNCHANGED proofs)

SettleGate(p, r) ==
  /\ ensure_contract_exists(r)
  /\ Gate(r)
  /\ Start(p, r, "bind", settings.amount)
  /\ UNCHANGED <<setup, intact, contracts, hash, pricing, receipts, rails, settings, settled>>

SettleBind(p) ==
  /\ cmd[p].pc = "bind"
  /\ \E a \in contract_amount_sats(cmd[p].root, cmd[p].amount) :
       cmd' = [cmd EXCEPT ![p].pc = "settle", ![p].amount = a]
  /\ UNCHANGED <<setup, intact, market, rails, settings, settled>>

\* SettlementCoordinator::settle_contract with the credentials stored now:
\* contract_invoice_hash on Lightning, contract_ecash_receipt on ecash
settle_contract(r, a, app) ==
  IF OnLightning(a)
  THEN Lightning(app) /\ Paid(hash[r], a)
  ELSE Ecash(app) /\ r \in receipts /\ verify_micro(contract_binding(r, a))

SettleCheck(p) ==
  LET c == cmd[p]
      settles == settle_contract(c.root, c.amount, c.app) IN
  /\ c.pc = "settle"
  /\ \/ /\ settles
        /\ settled' = settled \cup
             {[root |-> c.root, amount |-> c.amount, hash |-> hash[c.root]]}
     \/ (~settles \/ Fails) /\ UNCHANGED settled
  /\ Return(p)
  /\ UNCHANGED <<setup, intact, market, rails, settings>>

-----------------------------------------------------------------------------
\* The environment.

BlobLost(r) ==
  /\ intact' = intact \ {r}
  /\ r \in setup.fragile
  /\ UNCHANGED <<setup, market, rails, settings, cmd, settled>>

\* A payer pays an invoice it was given, while a node is up to receive it; an
\* invoice expires after an hour.
InvoiceEnds(h) ==
  /\ h \in DOMAIN invoices
  /\ invoices[h].state = "open"
  /\ \/ invoices' = [invoices EXCEPT ![h].state = "expired"]
     \/ /\ h \in returned
        /\ serving \/ (with_node /\ \E p \in Procs : cmd[p].pc = "settle")
        /\ invoices' = [invoices EXCEPT ![h].state = "paid"]
  /\ UNCHANGED <<setup, intact, market, ledger, returned, serving, settings, cmd, settled>>

\* A command is killed between its two steps.
Crash(p) ==
  /\ "crash" \in Faults
  /\ cmd[p].pc # "idle"
  /\ Return(p)
  /\ UNCHANGED <<setup, intact, market, rails, settings, settled>>

Next ==
  \/ Serve \/ Interrupt
  \/ \E r \in setup.roots :
       \/ RequestContract(r) \/ Challenge(r) \/ PayChallengeFee(r) \/ BlobLost(r)
       \/ \E a \in setup.prices : SetPricing(r, a)
       \/ \E p \in setup.procs : CreateInvoice(p, r) \/ SettleGate(p, r)
  \/ \E a \in setup.prices, app \in setup.apps : SetSettings([amount |-> a, app |-> app])
  \/ \E h \in Hashes : InvoiceEnds(h)
  \/ \E p \in Procs : \/ AskRail(p) \/ PersistHash(p) \/ PersistReceipt(p)
                      \/ SettleBind(p) \/ SettleCheck(p) \/ Crash(p)

Spec == Init /\ [][Next]_vars

-----------------------------------------------------------------------------
\* Properties.

\* A settled contract passed a Bao challenge, whatever happened to the blob
\* and to the command that challenged it since (ensure_bao_challenge_gate).
SettledWasChallenged == \A s \in settled : s.root \in contracts \cap proofs

\* A contract that was settled on Lightning with its invoice hash was paid
\* through its own invoice, for the amount it was settled at: no other
\* contract's payment and no payment of an older price counts.  (Without a
\* recorded hash the payment of another contract does count.)
HashedSettledByOwnInvoice ==
  \A s \in settled :
    OnLightning(s.amount) /\ s.hash # NoHash =>
      invoices[s.hash] = [root |-> s.root, amount |-> s.amount, state |-> "paid"]

\* An invoice that a payer could get hold of and has paid settles its contract
\* whenever the contract has the price it was made for, the ecash settings are
\* usable and no other node listens: of the invoices that racing and failing
\* commands create, only the one whose hash was persisted is returned.
PaidIsSettleable ==
  \A h \in DOMAIN invoices :
    LET i == invoices[h] IN
    i.state = "paid" =>
      /\ hash[i.root] = h
      /\ /\ Price(i.root, settings.amount) = i.amount
         /\ coordinator_for_chain(settings.app) /\ ~serving
         => settle_contract(i.root, i.amount, settings.app)
=============================================================================
