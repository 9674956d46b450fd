------------------------------- MODULE Wallet -------------------------------
(***************************************************************************)
(* The wallet commands (src/wallet.rs, src/wallet/, src/subcommand/wallet) *)
(* between the node of MockCore and the index of SatIndex, which they ask  *)
(* over RPC and HTTP.                                                      *)
(*                                                                         *)
(* A command opens its store, loads the node's wallet, waits for the       *)
(* server, and takes three snapshots one after the other (unspent outputs, *)
(* locked outputs, what the index knows of them); it then builds, signs    *)
(* and broadcasts a transaction.  Blocks, payments, locks, the indexer and *)
(* other commands go on in between.                                        *)
(***************************************************************************)
EXTENDS SatIndex

CONSTANTS Procs,       \* wallet commands that run side by side
          Spenders,    \* those that run in scope "spend"
          MaxTries,    \* attempts at finding the server in sync: 20
          IndexHeight, \* bounds of the chain that is only indexed
          IndexTxs,
          Mnemonics    \* seed phrases

ASSUME WalletAssumption == Spenders \subseteq Procs

VARIABLES scope,    \* what runs: "index", "create" or "spend"; never changes
          lmdb,     \* the wallet's LMDB store: "none", "unversioned" or "current"
          core,     \* the node's wallet: [exists, descriptors]
          printed,  \* mnemonics that `create` printed or `restore` reported success
                    \* for, and whether the node had imported both descriptors
          cmd,      \* the command of each process
          sent      \* transactions broadcast so far, and what became of them

walletVars == <<lmdb, core, printed, cmd, sent>>
indexVars == <<index, db, wtx, cache, panic>>

Recipient == 0   \* somebody else's address
Paper == -4      \* the address of the private key that is swept

\* The receive and the change descriptor of a seed.
Descriptors(seed) == {seed} \X {"receive", "change"}

\* seen: the transactions that were confirmed when the outputs were listed
Idle == [pc |-> "idle", kind |-> "none", sat |-> -1, count |-> 0, tries |-> 0, seen |-> {},
         utxos |-> {}, locked |-> {}, info |-> <<>>, tx |-> NoTx, swept |-> <<>>, seed |-> ""]

WalletInit ==
  /\ Init
  /\ scope \in {"index", "create", "spend"}
  /\ scope # "index" => index = [sats |-> TRUE, addresses |-> TRUE]
  /\ lmdb = IF scope = "spend" THEN "current" ELSE "none"
  /\ core = IF scope = "spend" THEN [exists |-> TRUE, descriptors |-> Descriptors("")]
            ELSE [exists |-> FALSE, descriptors |-> {}]
  /\ printed = {} /\ sent = {}
  /\ cmd = [p \in Procs |-> Idle]

Goto(p, pc) == cmd' = [cmd EXCEPT ![p].pc = pc]
\* Bound: in scope "spend" a process runs one command.
Exit(p) == cmd' = [cmd EXCEPT ![p] = IF scope = "spend" THEN [Idle EXCEPT !.pc = "exited"] ELSE Idle]

-----------------------------------------------------------------------------
\* WalletStore::open

\* The table and the version are two transactions; a table without a version
\* counts as version 0, which is refused.
NextStep(p) == IF cmd[p].kind \in {"create", "restore"} THEN "create_wallet" ELSE "load"
open_store(p) ==
  /\ cmd[p].pc = "open" /\ lmdb = "none"
  /\ lmdb' = "unversioned"
  /\ Goto(p, "version")
  /\ UNCHANGED <<coreVars, core, printed, sent>>

validate_schema_version(p) ==
  /\ cmd[p].pc = "open" /\ lmdb # "none"
  /\ IF lmdb = "current" THEN Goto(p, NextStep(p)) ELSE Exit(p)
  /\ UNCHANGED <<coreVars, lmdb, core, printed, sent>>

initialize_schema_version(p) ==
  /\ cmd[p].pc = "version"
  /\ lmdb' = "current"
  /\ Goto(p, NextStep(p))
  /\ UNCHANGED <<coreVars, core, printed, sent>>

-----------------------------------------------------------------------------
\* create and restore

Started(p, kind, seed) ==
  /\ cmd[p].pc = "idle"
  /\ cmd' = [cmd EXCEPT ![p] = [Idle EXCEPT !.pc = "open", !.kind = kind, !.seed = seed]]
  /\ UNCHANGED <<coreVars, lmdb, core, printed, sent>>

\* create leaves it to the node to refuse a wallet that exists; restore looks
\* first, and then does the same.
Create(p, seed) == Started(p, "create", seed)
Restore(p, seed) == ~core.exists /\ Started(p, "restore", seed)

\* Mutant: a wallet of that name that exists is taken over.
create_wallet_reuses(p) ==
  /\ cmd[p].pc = "create_wallet"
  /\ core' = [core EXCEPT !.exists = TRUE] /\ Goto(p, "import")
  /\ UNCHANGED <<coreVars, lmdb, printed, sent>>

\* Bitcoin Core refuses a name that exists (mockcore does not).
create_wallet(p) ==
  /\ cmd[p].pc = "create_wallet"
  /\ \/ ~core.exists /\ core' = [core EXCEPT !.exists = TRUE] /\ Goto(p, "import")
     \/ core.exists /\ UNCHANGED core /\ Exit(p)
  /\ UNCHANGED <<coreVars, lmdb, printed, sent>>

\* The node may import a descriptor or not.  The answer says so for each of the
\* two, but initialize looks at the error of the whole call only, and takes two
\* of those (-4 "Wallet already loading.", -35) for success as well.
import_descriptors(p) ==
  /\ cmd[p].pc = "import"
  /\ \E imported \in SUBSET Descriptors(cmd[p].seed) :
       /\ core' = [core EXCEPT !.descriptors = @ \cup imported]
       /\ \/ UNCHANGED printed    \* another error, or the answer is lost
          \/ printed' = printed \cup {[seed |-> cmd[p].seed, whole |-> imported = Descriptors(cmd[p].seed)]}
  /\ Exit(p)
  /\ UNCHANGED <<coreVars, lmdb, sent>>

\* Two descriptors are counted, whatever their seeds.
check_descriptors == Cardinality(core.descriptors) = 2

-----------------------------------------------------------------------------
\* WalletConstructor::construct, build

\* What the command is to do is chosen when the wallet is built.
Construct(p) ==
  /\ cmd[p].pc = "idle"
  /\ cmd' = [cmd EXCEPT ![p].pc = "open"]
  /\ UNCHANGED <<coreVars, lmdb, core, printed, sent>>

\* load_wallet, check_descriptors, get_block_count
load_wallet(p) ==
  /\ cmd[p].pc = "load"
  /\ IF core.exists /\ check_descriptors
     THEN cmd' = [cmd EXCEPT ![p].pc = "sync", ![p].count = get_block_count + 1]
     ELSE Exit(p)
  /\ UNCHANGED <<coreVars, lmdb, core, printed, sent>>

\* The server's block count is polled, unless --no-sync.
Sync(p) ==
  /\ cmd[p].pc = "sync"
  /\ \/ cmd' = [cmd EXCEPT ![p].pc = "utxos", ![p].tries = 0]    \* --no-sync, or db.height >= count
     \/ /\ db.height < cmd[p].count
        /\ IF cmd[p].tries < MaxTries THEN cmd' = [cmd EXCEPT ![p].tries = @ + 1] ELSE Exit(p)
  /\ UNCHANGED <<coreVars, lmdb, core, printed, sent>>

\* Mutant: only outputs with a second confirmation are listed.
get_utxos_deep(p) ==
  /\ cmd[p].pc = "utxos"
  /\ cmd' = [cmd EXCEPT ![p].pc = "locked", ![p].seen = transactions,
               ![p].utxos = {op \in list_unspent : get_tx_out(op)[1].confirmations > 1}]
  /\ UNCHANGED <<coreVars, lmdb, core, printed, sent>>

get_utxos(p) ==
  /\ cmd[p].pc = "utxos"
  /\ cmd' = [cmd EXCEPT ![p].pc = "locked", ![p].seen = transactions, ![p].utxos = list_unspent]
  /\ UNCHANGED <<coreVars, lmdb, core, printed, sent>>

\* Locked outputs that are still unspent also count as the wallet's.
get_locked_utxos(p) ==
  LET unspent == {op \in list_lock_unspent : get_tx_out(op) # <<>>} IN
  /\ cmd[p].pc = "locked"
  /\ cmd' = [cmd EXCEPT ![p].pc = "info", ![p].locked = unspent, ![p].utxos = @ \cup unspent]
  /\ UNCHANGED <<coreVars, lmdb, core, printed, sent>>

get_output_info(p) ==
  /\ cmd[p].pc = "info"
  /\ cmd' = [cmd EXCEPT ![p].pc = "build", ![p].info = [op \in cmd[p].utxos |-> list(op)]]
  /\ UNCHANGED <<coreVars, lmdb, core, printed, sent>>

-----------------------------------------------------------------------------
\* send and sweep

\* The change and receive addresses that a command asked for are the node's.
Built(p, kind, sat, tx, swept, used) ==
  /\ cmd' = [cmd EXCEPT ![p] = [Idle EXCEPT !.pc = "sign", !.kind = kind, !.sat = sat, !.tx = tx,
                                 !.swept = swept, !.utxos = cmd[p].utxos, !.seen = cmd[p].seen]]
  /\ addresses' = addresses + used
  /\ UNCHANGED <<txs, blocks, mempool, transactions, utxos, locked, lmdb, core, printed, sent>>

Refused(p) == Exit(p) /\ UNCHANGED <<coreVars, lmdb, core, printed, sent>>

\* Change that the wallet paid itself in a transaction that is not confirmed:
\* Bitcoin Core spends it (mockcore does not), although listunspent leaves it out.
unconfirmed_change ==
  {op \in UNION {OutPointsOf(t) : t \in ToSet(mempool)} :
     /\ is_wallet_address(TxOut(op).script)
     /\ \A i \in ToSet(txs[op[1]].in) : is_wallet_address(TxOut(i).script)
     /\ \A t \in ToSet(mempool) : op \notin ToSet(txs[t].in)}

\* The node adds inputs and puts the change behind the outputs it is given
\* (fund_raw_transaction.rs): confirmed outputs, and when they do not do
\* unconfirmed change (bound: one output of it).  NoTx is "not enough cardinal
\* utxos".
Funded(given, outs, fee) ==
  {fund_raw_transaction(given, outs, fee, fee)}
    \cup {fund_from(Append(own_utxos(given), op), given, outs, fee, fee) : op \in unconfirmed_change}

\* create_unsigned_send_amount_transaction
SendAmount(p) ==
  /\ cmd[p].pc = "build"
  /\ \E fee \in 0 .. 1 : \E tx \in Funded(<<>>, <<Output(1, Recipient)>>, fee) :
       IF tx = NoTx THEN Refused(p) ELSE Built(p, "amount", -1, tx, <<>>, 1)

\* find_sat_in_outputs: <<>> when no output's ranges hold the sat
Hits(info, sat) ==
  UNION {{op} \X {k \in DOMAIN info[op][1] : info[op][1][k][1] <= sat /\ sat < info[op][1][k][2]}
         : op \in {o \in DOMAIN info : info[o] # <<>>}}

find_sat_in_outputs(info, sat) ==
  IF Hits(info, sat) = {} THEN <<>>
  ELSE LET h == CHOOSE x \in Hits(info, sat) : TRUE
           ranges == info[h[1]][1]
           before == FoldLeft(LAMBDA acc, r: acc + r[2] - r[1], 0, SubSeq(ranges, 1, h[2] - 1))
       IN  <<<<h[1], before + sat - ranges[h[2]][1]>>>>

\* `wallet sats`: refused when an output of the wallet has no ranges.
get_wallet_sat_ranges(info) ==
  IF \E op \in DOMAIN info : info[op] = <<>> THEN <<>>
  ELSE LET inFront(op, k) == FoldLeft(LAMBDA acc, r: acc + r[2] - r[1], 0, SubSeq(info[op][1], 1, k - 1))
           places == UNION {{op} \X DOMAIN info[op][1] : op \in DOMAIN info}
       IN  <<{[first |-> info[at[1]][1][at[2]][1], last |-> info[at[1]][1][at[2]][2],
               point |-> <<at[1], inFront(at[1], at[2])>>] : at \in places}>>

\* Sats::find walks the sorted sats and the sorted ranges side by side; i and
\* j are the places it has come to.
find_needles(needles, ranges) ==
  LET hay == SetToSortSeq(ranges, LAMBDA a, b: a.first < b.first)
      walked(w, n) ==
        LET sat == needles[w.i]
            h == hay[w.j]
        IN  IF w.i > Len(needles) \/ w.j > Len(hay) THEN w
            ELSE [i |-> IF sat >= h.last THEN w.i ELSE w.i + 1,
                  j |-> IF sat >= h.last THEN w.j + 1 ELSE w.j,
                  found |-> IF h.first <= sat /\ sat < h.last
                            THEN (sat :> <<h.point[1], h.point[2] + sat - h.first>>) @@ w.found ELSE w.found]
  IN  FoldLeft(walked, [i |-> 1, j |-> 1, found |-> <<>>], [n \in 1 .. Len(needles) + Len(hay) |-> n]).found

\* Mutant: a range of common sats in front of a rare one is not counted.
rare_sats_uncounted(ranges) ==
  LET rare == {r \in ranges : ~common(r.first)} IN
  [sat \in {r.first : r \in rare} |-> <<(CHOOSE r \in rare : r.first = sat).point[1], 0>>]

\* Sats::rare_sats: only the first sat of a range can be rare.
rare_sats(ranges) ==
  LET rare == {r \in ranges : ~common(r.first)} IN
  [sat \in {r.first : r \in rare} |-> (CHOOSE r \in rare : r.first = sat).point]

\* What TransactionBuilder may build for a satpoint: the outgoing output, with
\* a cardinal output in front as padding or behind for the fee, the sats in
\* front of the outgoing one in a change output, and change at the end.
Cardinals(c, op) == (c.utxos \ c.locked) \ {op}
BuilderInputs(c, point) ==
  {<<point[1]>>} \cup {<<point[1], u>> : u \in Cardinals(c, point[1])}
    \cup (IF point[2] = 0 THEN {} ELSE {<<u, point[1]>> : u \in Cardinals(c, point[1])})

\* Mutant: the sats in front of the outgoing one are not split off.
BuilderOutputsUnaligned(ins, point) == {<<Output(InputValue(ins), Recipient)>>}

BuilderOutputs(ins, point) ==
  LET lead == point[2] + (IF ins[1] = point[1] THEN 0 ELSE TxOut(ins[1]).value)
      rest == InputValue(ins) - lead
      aligned == IF lead = 0 THEN <<>> ELSE <<Output(lead, addresses + 1)>>
  IN  {Append(aligned, Output(v, Recipient)) : v \in {1, rest} \cap 1 .. rest}
        \cup {aligned \o <<Output(v, Recipient), Output(rest - v, addresses + 2)>> : v \in {1} \cap 1 .. rest - 1}

\* create_unsigned_send_satpoint_transaction of the sat's satpoint
SendSat(p, sat) ==
  LET c == cmd[p]
      found == find_sat_in_outputs(c.info, sat) IN
  /\ c.pc = "build"
  /\ IF found = <<>> THEN Refused(p)
     ELSE \E ins \in BuilderInputs(c, found[1]) : \E outs \in BuilderOutputs(ins, found[1]) :
            Built(p, "sat", sat, [in |-> ins, out |-> outs], <<>>, 2)

OutPointLess(a, b) == a[1] < b[1] \/ (a[1] = b[1] /\ a[2] < b[2])

\* Sweep::run: every output that the index lists for the key's address, each
\* with an output of its value, and the wallet's own outputs for the fee
Sweep(p) ==
  LET swept == sorted(get_address_info(Paper), OutPointLess)
      outs == [k \in DOMAIN swept |-> Output(TxOut(swept[k]).value, addresses + 1)] IN
  /\ cmd[p].pc = "build"
  /\ IF swept = <<>> \/ ~(get_address_info(Paper) \subseteq utxos) THEN Refused(p)
     ELSE \E fee \in 0 .. 1 : \E tx \in Funded(swept, outs, fee) :
            IF tx = NoTx THEN Refused(p) ELSE Built(p, "sweep", -1, tx, swept, 1)

\* sign_and_broadcast_transaction: --dry-run stops after signing; the node
\* refuses inputs that are spent.  The fee is computed from the snapshot after
\* the broadcast, and the command panics on an input that is not in it.
sign_and_broadcast_transaction(p) ==
  LET c == cmd[p] IN
  /\ c.pc = "sign"
  /\ Exit(p)
  /\ \/ UNCHANGED <<coreVars, sent>>
     \/ /\ ToSet(c.tx.in) \subseteq Spendable \cup unconfirmed_change
        /\ send_raw_transaction(c.tx)
        /\ sent' = sent \cup
             {[tx |-> Len(txs) + 1, kind |-> c.kind, sat |-> c.sat, swept |-> c.swept,
               seen |-> c.seen,
               panicked |-> c.kind # "sweep" /\ ~(ToSet(c.tx.in) \subseteq c.utxos)]}
  /\ UNCHANGED <<lmdb, core, printed>>

-----------------------------------------------------------------------------
\* A command is killed.
Killed(p) ==
  /\ scope = "create" /\ cmd[p].pc # "idle"
  /\ Exit(p)
  /\ UNCHANGED <<coreVars, lmdb, core, printed, sent>>

\* Blocks, one transaction of the wallet that pays the key that is swept, the
\* miners or somebody else, with change, and an output that is locked.
\* One transaction of the wallet is followed until it is confirmed.
SpendEnvironment ==
  \/ (sent = {} \/ mempool # <<>>) /\ mine_block(Subsidy)
  \/ /\ sent = {}
     /\ \A t \in DOMAIN txs : Len(txs[t].out) = 1
     /\ \E op \in Spendable, n \in {0, 2} : broadcast_tx(<<op>>, [k \in 1 .. n |-> Output(1, Paper)])
  \/ /\ sent = {}
     /\ \A t \in DOMAIN txs : Len(txs[t].out) = 1
     /\ send_raw_transaction(fund_raw_transaction(<<>>, <<Output(1, Recipient)>>, 0, 0))
  \/ \E op \in list_unspent : sent = {} /\ locked = {} /\ lock_unspent({op})

CommandStep(p) ==
  \/ open_store(p) \/ validate_schema_version(p) \/ initialize_schema_version(p)
  \/ create_wallet(p) \/ import_descriptors(p)
  \/ load_wallet(p) \/ Sync(p) \/ get_utxos(p) \/ get_locked_utxos(p) \/ get_output_info(p)
  \/ SendAmount(p) \/ Sweep(p) \/ (\E sat \in 0 .. Subsidy * Len(blocks) - 1 : SendSat(p, sat))
  \/ sign_and_broadcast_transaction(p)
  \/ Killed(p)

WalletNext ==
  /\ UNCHANGED scope
  /\ \/ scope = "index" /\ Len(blocks) <= IndexHeight + 1 /\ Len(txs) <= IndexTxs
        /\ Next /\ UNCHANGED walletVars
        /\ Len(blocks') <= IndexHeight + 1 /\ Len(txs') <= IndexTxs
     \/ scope = "create" /\ UNCHANGED indexVars
        /\ \E p \in Procs : \/ \E m \in Mnemonics : Create(p, m) \/ Restore(p, m)
                            \/ Construct(p) \/ CommandStep(p)
     \/ scope = "spend" /\ UNCHANGED indexVars
        /\ \/ SpendEnvironment /\ UNCHANGED walletVars
           \/ \E p \in Spenders : (sent = {} /\ Construct(p)) \/ CommandStep(p)
     \/ scope = "spend" /\ sent = {} /\ UNCHANGED walletVars
        /\ ((wtx.height = db.height /\ IndexBlock) \/ Commit)

WalletSpec == WalletInit /\ [][WalletNext]_<<vars, scope, walletVars>>

-----------------------------------------------------------------------------
\* Properties.

\* In scope "index" blocks are of any shape and the indexer crashes: still every
\* output has the sats that ordinal theory gives it, the rare ones are found
\* where they are, and the address table lists exactly the unspent outputs
\* (module SatIndex says what each of them means).
SatsIndexed ==
  scope = "index" => SatsFollowOrdinalTheory /\ RareSatsFoundWhereTheyAre /\ AddressTableMatchesUtxos

Confirmed(s) == s.tx \in transactions
SatsBefore(s) == Theory(HeightOf(s.tx)).held
SatsAfter(s) == Theory(HeightOf(s.tx) + 1).held

\* `send <sat>` sends that sat: once the transaction is confirmed, the sat is
\* the first one of the recipient's output, although it was looked up in an
\* index that may lag or run ahead of the node, in snapshots taken at three
\* different times (find_sat_in_outputs, TransactionBuilder).  And `sweep` moves
\* every output of the key as a whole: an output of the wallet holds exactly its
\* sats in their order, and the fee comes from outputs of the wallet
\* (Sweep::run, fund_raw_transaction).
SentSatsArrive ==
  \A s \in sent : Confirmed(s) =>
    /\ s.kind = "sat" =>
         \E op \in OutPointsOf(s.tx) : /\ TxOut(op).script = Recipient
                                       /\ SatsAfter(s)[op] # <<>> /\ Head(SatsAfter(s)[op]) = s.sat
    /\ s.kind = "sweep" =>
         \A k \in DOMAIN s.swept : SatsAfter(s)[<<s.tx, k>>] = SatsBefore(s)[s.swept[k]]

\* `wallet sats` tells where `wallet send` finds a sat: the walk over sorted
\* sats and ranges misses none of the sats looked for, and no rare sat hides
\* inside a range, where rare_sats would not see it.
SatsListedWhereSendFinds ==
  \A p \in Procs : cmd[p].pc = "build" =>
    LET info == cmd[p].info
        ranges == get_wallet_sat_ranges(info)
        all == [k \in 1 .. Subsidy * Len(blocks) |-> k - 1]
        Agrees(found, sats) ==
          \A sat \in sats : find_sat_in_outputs(info, sat) = IF sat \in DOMAIN found THEN <<found[sat]>> ELSE <<>>
    IN  ranges # <<>> =>
          /\ Agrees(find_needles(all, ranges[1]), ToSet(all))
          /\ Agrees(rare_sats(ranges[1]), {sat \in ToSet(all) : ~common(sat)})

\* A command that broadcast a transaction also reports it.  The exception is
\* `send <amount>` when the node funded it with an output of a transaction that
\* was not confirmed when the command listed the wallet's outputs, the wallet's
\* own change for one: then the command panics ("input not found in utxos") with
\* the transaction already sent.  Whatever was confirmed by then is in its
\* snapshots, although outputs are locked and spent between them.
BroadcastIsReported ==
  \A s \in sent : s.panicked =>
    s.kind = "amount" /\ \E op \in ToSet(txs[s.tx].in) : op[1] \notin s.seen

\* Of the commands that create or restore a wallet, however they are interleaved
\* or killed, one puts its seed into it: the node's wallet has no descriptor of
\* another seed than one that was printed, and both of that one unless the node
\* did not import them.  And a wallet that was left half made (the command was
\* killed before the import, or a descriptor was not imported) is never used:
\* every command that goes on past load_wallet has the pair of one seed.
MnemonicOpensWallet ==
  /\ \A m \in printed : /\ core.descriptors \subseteq Descriptors(m.seed)
                         /\ m.whole => core.descriptors = Descriptors(m.seed)
  /\ \A p \in Procs : cmd[p].pc \in {"sync", "utxos", "locked", "info", "build", "sign"} =>
       \E d \in core.descriptors : core.descriptors = Descriptors(d[1])
=============================================================================
