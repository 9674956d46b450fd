----------------------------- MODULE Algorithms -----------------------------
(***************************************************************************)
(* The pure algorithms of the program, called on every input of a bounded  *)
(* set: merkle trees and proofs, the wallet's transaction builder, the     *)
(* notations of sats, order keys, store migrations, archives and content   *)
(* checks of lord-storage, the merging of settings, and the verification   *)
(* of timestamps.  Init chooses the input, one action per algorithm        *)
(* computes the result, and the properties compare results with reference  *)
(* definitions.                                                            *)
(***************************************************************************)
EXTENDS Ordinals, Integers, Sequences, FiniteSets, SequencesExt, FiniteSetsExt, TLC

CONSTANTS MaxLeaves, MaxTxs,                                      \* merkle
          MaxByte, SentinelLen, MAX_OTS_ORDER_PATH_LEN, SCHEMA_VERSION, \* storage
          MaxU32,                                                 \* attestations
          None, Err

ASSUME AlgorithmsAssumption ==
  /\ MaxLeaves \in Nat \ {0} /\ MaxTxs \in Nat \ {0, 1}
  /\ MaxByte \in Nat \ {0, 1} /\ SentinelLen \in Nat \ {0}
  /\ MaxU32 \in Nat \ {0, 1}

Mk == INSTANCE Merkle
Tx == INSTANCE TxBuilder
St == INSTANCE Storage
Se == INSTANCE Settings
At == INSTANCE Attest

VARIABLES call, result

callVars == <<call, result>>

-----------------------------------------------------------------------------
\* Inputs

MerkleCalls ==
  {[alg |-> "merkle", n |-> n, i |-> i, m |-> m, j |-> j] :
     n \in 1 .. MaxLeaves, i \in 0 .. MaxLeaves - 1, m \in 2 .. MaxTxs, j \in 1 .. MaxTxs - 1}

Leaves(c) == [k \in 1 .. c.n |-> Mk!Leaf(k)]

\* A block holds a coinbase first, so the anchor is never at position 0.
BlockTxids(c) ==
  [k \in 1 .. c.m |-> IF k = c.j + 1 THEN Mk!Txid(Mk!ots_merkle_root(Leaves(c))) ELSE <<"other", k>>]

P2tr(n) == [id |-> n, size |-> 34, dust |-> 330, op_return |-> FALSE]
Recipients == {P2tr(3), [id |-> 4, size |-> 22, dust |-> 294, op_return |-> FALSE],
               [id |-> 5, size |-> 11, dust |-> 0, op_return |-> TRUE]}
Targets == {[kind |-> "Postage", value |-> 0]}
             \cup {[kind |-> k, value |-> v] : k \in {"Value", "ExactPostage"}, v \in {200, 330, 10000}}
Amounts == {1, 400, 9999, 20500, 33333}
Wallets ==
  [amounts : {<<a, b, c>> : a \in Amounts, b \in Amounts, c \in Amounts},
   inscriptions : {{[outpoint |-> 1, offset |-> o]} : o \in {0, 5, 340}} \cup {{[outpoint |-> 2, offset |-> 0]}, {}},
   locked : {{}}, runic : {{}}]
Requests ==
  [outgoing : {[outpoint |-> 1, offset |-> o] : o \in {0, 5, 340, 700}}, recipient : Recipients,
   change : {<<P2tr(1), P2tr(2)>>}, rate : {0, 1, 20, 150}, target : Targets]

SatStrings ==
  [form : {"int"}, n : 0 .. LAST]
    \cup [form : {"degree"}, hour : 0 .. 30, minute : 0 .. SUBSIDY_HALVING_INTERVAL,
          second : 0 .. DIFFCHANGE_INTERVAL, third : {0, 1}]

Keys(len) == UNION {[1 .. l -> 0 .. MaxByte] : l \in 0 .. len}

Attested == [data |-> "attestation", next |-> <<>>]
Dead == [data |-> "op", next |-> <<>>]
Proofs[depth \in Nat] ==
  IF depth = 0 THEN {Attested, Dead}
  ELSE LET below == Proofs[depth - 1] IN
       {Attested, Dead} \cup {[data |-> "op", next |-> <<p>>] : p \in below}
         \cup {[data |-> "fork", next |-> <<p, q>>] : p \in below, q \in below}

\* A store of roots 1 and 2 at some schema.  Keys before schema 4 have
\* SentinelLen bytes and are stored raw; today's paths are shorter.
ShortProofs == {Attested, [data |-> "fork", next |-> <<Dead, Attested>>],
                [data |-> "fork", next |-> <<[data |-> "fork", next |-> <<Dead, Attested>>], Dead>>], Dead}
OldKeys == {k \in [1 .. SentinelLen -> 0 .. MaxByte] : \A i \in 1 .. SentinelLen - 1 : k[i] \in {0, MaxByte}}
Metas(schema) ==
  [proof : {None}, key : {None}, created_at : {7}, timestamped_at : {None}]
    \cup (IF schema = 1 THEN {}
          ELSE [proof : ShortProofs \cup {Err}, created_at : {7}, timestamped_at : {None},
                key : {None} \cup OldKeys])
StoreWith(schema, meta) ==
  [schema |-> schema, meta |-> meta,
   order |-> [k \in {meta[r].key : r \in 1 .. 2} \ {None} |-> CHOOSE r \in 1 .. 2 : meta[r].key = k]]
Logged(root, time) == [root |-> root, timestamped_at |-> time]
Logs == {<<>>, <<Logged(1, 8), Err, Logged(2, 9), Logged(1, 10)>>}
OpenCall ==
  \E schema \in 1 .. 3 : \E meta \in [1 .. 2 -> Metas(schema)], log \in (IF schema = 2 THEN Logs ELSE {<<>>}) :
    /\ meta[1].key # meta[2].key \/ meta[1].key = None
    /\ call = [alg |-> "open", store |-> StoreWith(schema, meta), log |-> log]

PathsOfFiles == {<<"a">>, <<"b">>, <<"b", "a">>, <<"b", "c">>, <<"c", "a", "b">>}
SourceDirs == UNION {[ps -> {"x", "y"}] : ps \in {ps \in SUBSET PathsOfFiles : Cardinality(ps) \in 1 .. 3}}

Roots == {"r1", "r2"}
Formats == {4, 5, 6, 12, 8}
Files ==
  {None, Err}
    \cup [header : BOOLEAN, hash : Roots, format : Formats, mac : {St!PublicKey, "key"},
          prefix : {None, 0, 2, 4}, payload : {Err} \cup [root : Roots, len : {2, 4}], size : {0, 8, 9}]

\* The same few fields in several layers; None leaves a field out.
Given(fields) == [f \in {g \in DOMAIN fields : fields[g] # None} |-> fields[f]]
Layer(fields) == [f \in Se!Fields |-> IF f \in DOMAIN Given(fields) THEN fields[f] ELSE Se!Default[f]]
InDefaultDir == Append(Se!DefaultDataDir, "ord.yaml")
InOtherDir == <<"d", "lord.yaml">>
Unparsable == <<"c">>
Merged(cli, env, file) ==
  [alg |-> "settings",
   options |-> [chain_flag |-> None, chain_argument |-> None] @@ cli,
   env |-> Given(env),
   files |-> [p \in {InDefaultDir, InOtherDir, Unparsable} |->
                CASE p = InDefaultDir -> Layer(file)
                  [] p = InOtherDir -> Layer([commit_interval |-> 1])
                  [] p = Unparsable -> Err]]

NoOption == [index_sats |-> FALSE]
Credentials == [bitcoin_rpc_username : {None, "a"}, bitcoin_rpc_password : {None, "b"}]
EcashFields ==
  [ecash_mint_urls : {None, <<<<"HTTPS", "m", 0>>>>, <<<<"https", "n", 0>>>>},
   ecash_mint_allowlist : {None, <<<<"https", "m", 1>>>>}, ecash_settlement_threshold_sats : {None, 0}]
Preferences(on, off) ==
  [encrypted_only_preference : {on, off}, open_to_unencrypted : {on, off}, market_contract_amount_sats : {None, 0, 3}]
Offers == [capacity_gib : {0, 1}, encrypted_only : BOOLEAN, open_to_unencrypted : BOOLEAN]
SettingsCall ==
  \/ \E c \in Credentials, e \in Credentials, f \in Credentials : call = Merged(c, e, f)
  \/ \E c \in [chain_argument : {None, "regtest"}, data_dir : {None, <<"d">>}, index : {None, <<"i">>}],
        e \in [chain : {None, "signet", "bogus"}, config : {None, Unparsable}, index_sats : {None, "", "0"},
              data_dir : {None, <<"e">>}],
        f \in [chain : {None, "mainnet"}, index_sats : BOOLEAN, cookie_file : {None, <<"k">>}] :
       call = Merged(c, e, f)
  \/ \E e \in EcashFields, f \in EcashFields, on \in {"", "1"}, off \in BOOLEAN :
       call = Merged(NoOption, e @@ [ecash_enabled |-> on], f @@ [ecash_enabled |-> off])
  \/ \E e \in Preferences("1", ""), f \in Preferences(TRUE, FALSE) : call = Merged(NoOption, e, f)
  \/ \E e \in [calendar_url : {None, <<"e">>, <<"e", "/">>}, calendar_enabled : {"", "1"}, chain : {None, "regtest"}],
        f \in [calendar_url : {None, <<"f", "/", "/timestamp">>, <<"f", "/timestamp", "/">>}, calendar_enabled : BOOLEAN] :
       call = Merged(NoOption, e, f)

\* Timestamps: up to two operations and two forks deep, with heights in and
\* beyond u32, broken steps of every kind, and attestations of every kind.
Stamp(kind, height, output, next) == [kind |-> kind, height |-> height, output |-> output, next |-> next]
LeafSteps(d) ==
  {Stamp("bitcoin", h, d, <<>>) : h \in {1, 2, MaxU32 + 2}}
    \cup {Stamp(k, 0, d, <<>>) : k \in {"pending", "unknown"}} \cup {Stamp("bitcoin", 1, <<"broken">>, <<>>)}
OpSteps(d, below) ==
  LET to == At!execute(d) IN
  {Stamp("op", 0, to, <<s>>) : s \in below}
    \cup {Stamp("op", 0, to, <<>>),
          Stamp("op", 0, <<"broken">>, <<Stamp("pending", 0, <<"broken">>, <<>>)>>)}
ForkSteps(d, left, right) == {Stamp("fork", 0, d, <<l, r>>) : l \in left, r \in right}
FirstSteps ==
  LET d == <<>>
      one == At!execute(d)
      branches == LeafSteps(d) \cup OpSteps(d, LeafSteps(one))
      nested == ForkSteps(d, LeafSteps(d), LeafSteps(d))
  IN branches \cup OpSteps(d, ForkSteps(one, LeafSteps(one), LeafSteps(one)))
       \cup {Stamp("fork", 0, d, <<>>), Stamp("fork", 0, <<"broken">>, <<>>)}
       \cup ForkSteps(d, branches, branches \cup nested)
HeaderSources == [roots : [1 .. 2 -> {None, Err, <<>>, <<"op">>}], tip : {Err, 1, 3}]
VerifyCalls ==
  [alg : {"verify"}, file : [bound : BOOLEAN, step : FirstSteps], rpc : {None} \cup HeaderSources]
    \cup [alg : {"verify"}, file : {None, Err}, rpc : {None} \cup HeaderSources]

-----------------------------------------------------------------------------
CallInit ==
  /\ result = None
  /\ \/ call \in {c \in MerkleCalls : c.i < c.n /\ c.j < c.m}
     \/ call \in [alg : {"send"}, wallet : Wallets, request : Requests]
     \/ call \in [alg : {"sat"}, string : SatStrings]
     \/ call \in [alg : {"keys"}, a : Keys(3), b : Keys(3)]
     \/ call \in [alg : {"proof"}, step : Proofs[3]]
     \/ OpenCall
     \/ call \in [alg : {"pack"}, files : SourceDirs]
     \/ call \in [alg : {"content"}, file : Files, meta : [path_ok : BOOLEAN, format : {4, 5, 8, 12}],
                   key_file : {Err, "key"}]
     \/ SettingsCall
     \/ call \in VerifyCalls

Called(alg, value) == result = None /\ call.alg = alg /\ result' = value /\ UNCHANGED call

CallMerkle ==
  Called("merkle",
    LET leaves == Leaves(call)
        txids == BlockTxids(call)
        built == Mk!ProofBuilt(leaves, call.i, txids, call.j)
    IN [root |-> Mk!ots_merkle_root(leaves),
        climbed |-> Mk!Climb(Mk!Leaf(call.i + 1), Mk!merkle_path(leaves, call.i)),
        header |-> Mk!Climb(txids[call.j + 1], Mk!bitcoin_tx_merkle_path(txids, call.j)),
        built |-> built,
        replayed |-> IF built THEN Mk!Replay(Mk!Leaf(call.i + 1), Mk!ConfirmedProof(leaves, call.i, txids, call.j))
                     ELSE <<>>])
CallSend == Called("send", Tx!build_transaction(call.wallet, call.request))
CallSat ==
  Called("sat", LET s == call.string IN
    IF s.form = "degree" THEN from_degree(s)
    ELSE [name |-> SatFromStr([form |-> "name", letters |-> name(s.n)]), degree |-> from_degree(Degree(s.n)),
          decimal |-> from_decimal(DecimalSat(s.n)), varint |-> decode(encode_to_vec(s.n)),
          charms |-> ToSet(CharmsOf(charms(s.n))), cycle |-> cycle(s.n), period |-> period(s.n)])
CallKeys ==
  Called("keys", [a |-> St!encode_order_key_for_lmdb(call.a), b |-> St!encode_order_key_for_lmdb(call.b)])
CallProof == Called("proof", St!order_key_from_timestamp(call.step))
CallOpen == Called("open", St!ensure_schema_version(call.store, <<1, 2>>, call.log))
CallPack == Called("pack", St!pack_compat_manifest(call.files))
CallContent ==
  Called("content",
    [content |-> St!decode_public_commitment_content(call.file, "r1", call.meta, 3, St!max_encoded_bytes_for_decode(1, 3, 1)),
     verified |-> St!verify_commitment(call.file, "r1", call.meta, call.key_file, 1)])
CallSettings == Called("settings", Se!merge(call.options, call.env, call.files))
CallVerify ==
  Called("verify",
    [command |-> [digest_only \in BOOLEAN |-> At!Verify(call.file, call.rpc, digest_only, FALSE, TRUE)],
     full |-> [cross_store \in BOOLEAN |-> At!Verify(call.file, call.rpc, FALSE, TRUE, cross_store)],
     served |-> At!verify_ots_proof_file(call.file, call.rpc),
     logged |-> IF call.file \in {None, Err} THEN None ELSE At!attestation_height_from_step(call.file.step)])

CallNext ==
  \/ CallMerkle \/ CallSend \/ CallSat \/ CallKeys \/ CallProof \/ CallOpen
  \/ CallPack \/ CallContent \/ CallSettings \/ CallVerify

CallSpec == CallInit /\ [][CallNext]_callVars

Done(alg) == result # None /\ call.alg = alg

-----------------------------------------------------------------------------
\* Properties

\* Hashing a digest along its merkle_path from the leaf up reaches the batch
\* root, and from the txid along bitcoin_tx_merkle_path the header's merkle
\* root, the check that block_merkle_path_steps makes; both trees are Bitcoin's,
\* with the last node of an odd level paired with itself.
MerklePathsLead ==
  Done("merkle") =>
    /\ result.root = Mk!TreeRoot(Leaves(call))
    /\ result.climbed = result.root
    /\ result.header = Mk!TreeRoot(BlockTxids(call))

\* Once the anchor of a batch is confirmed, every digest of the batch gets a
\* proof (bitcoin_confirmed_proof_bytes), and executing its steps from the
\* digest gives the merkle root of the block: `commit verify` confirms it.
ConfirmedProofsVerify ==
  Done("merkle") => result.built /\ result.replayed = Mk!TreeRoot(BlockTxids(call))

\* The builder never spends an inscribed output but the one that is sent from,
\* and an inscription of that output stays with the wallet: it is neither paid
\* to the recipient nor lost to the fee (select_outgoing, align_outgoing,
\* select_cardinal_utxo).  And however the amounts, the fee rate and the dust
\* limits fall, a send with default postage trips none of the builder's
\* assertions: the fee is exact, no output is dust, and the sat arrives first
\* in the recipient's output.
SendKeepsInscriptions ==
  Done("send") =>
    /\ result.err = "" =>
         \A s \in call.wallet.inscriptions :
           s # call.request.outgoing /\ s.outpoint \in ToSet(result.inputs) =>
             LET k == Tx!LandsIn(result, s) IN k # 0 /\ result.outputs[k].script # call.request.recipient
    /\ call.request.target.kind = "Postage" => ~result.panic

\* The name, the degree and the decimal of a sat read back as that sat (its
\* percentile, a rounded fraction, need not), the sat was minted in the block
\* its degree and decimal name, and a degree that is accepted is the degree of
\* the sat it names unless its height overflows a word, which release builds
\* let wrap around.  The fast path of
\* common, the charms and the cycle agree with the degree: the charm bits name
\* its one rarity, and the nineball charm exactly the sats of block 9.
NotationsRoundTrip ==
  Done("sat") =>
    LET s == call.string
        wraps == (s.hour * CYCLE_EPOCHS + CYCLE_EPOCHS - 1) * SUBSIDY_HALVING_INTERVAL + s.minute >= 2^WordBits
    IN IF s.form = "int"
       THEN /\ result.name = Ok(s.n) /\ result.degree = Ok(s.n) /\ result.decimal = Ok(s.n)
            /\ MintedAt(s.n, DecimalSat(s.n).height)
            /\ common(s.n) <=> Rarity(s.n) = "common"
            /\ result.charms \ {"nineball", "coin", "palindrome"} = {Rarity(s.n)} \ {"common"}
            /\ "nineball" \in result.charms <=> MintedAt(s.n, 9)
            /\ result.cycle = Degree(s.n).hour
            /\ result.period * DIFFCHANGE_INTERVAL + Degree(s.n).second = DecimalSat(s.n).height
            /\ s.n < 2^VarBits => result.varint = [ok |-> TRUE, n |-> s.n, used |-> Len(encode_to_vec(s.n))]
       ELSE result.ok => wraps \/ \A f \in DOMAIN Degree(result.sat) : Degree(result.sat)[f] = s[f]

\* The attestations of a proof with their depth and the forks on the way.
RECURSIVE Attestations(_)
Attestations(step) ==
  IF step.data = "attestation" THEN {[depth |-> 0, path |-> <<>>]}
  ELSE UNION {{[depth |-> a.depth + 1, path |-> (IF step.data = "fork" THEN <<i - 1>> ELSE <<>>) \o a.path] :
                 a \in Attestations(step.next[i])} : i \in DOMAIN step.next}

\* The order key of a proof is the path to the attestation nearest to the
\* digest, the leftmost of them (order_key_from_timestamp), and LMDB's byte
\* order of the stored keys is the order of the paths, the empty path and the
\* sentinel included; every stored key decodes to its path.  The one
\* exception: a path of at least SentinelLen forks that takes child
\* MaxByte - 1 every time sorts behind the sentinel.
OrderKeysFollowProofs ==
  /\ Done("proof") =>
       LET all == Attestations(call.step)
           nearest == {a \in all : \A b \in all : a.depth <= b.depth}
       IN IF all = {} THEN result = St!NO_ATTESTATION_SENTINEL
          ELSE \E a \in nearest :
                 /\ result = a.path
                 /\ \A b \in nearest : a = b \/ St!compare_order_keys(a.path, b.path)
  /\ Done("keys") =>
       LET sentinel == St!NO_ATTESTATION_SENTINEL
           storable(k) == k = sentinel \/ \A i \in DOMAIN k : k[i] # MaxByte
           beyond(k) == Len(k) >= SentinelLen /\ \A i \in 1 .. SentinelLen : k[i] = MaxByte - 1
       IN /\ result.a # Err <=> storable(call.a)
          /\ result.a # Err => St!decode_order_key_from_lmdb(result.a) = call.a
          /\ storable(call.a) /\ storable(call.b) /\ ~(beyond(call.a) /\ call.b = sentinel)
               /\ ~(beyond(call.b) /\ call.a = sentinel) =>
             (St!compare_order_keys(result.a, result.b) <=> St!compare_order_keys(call.a, call.b))

\* A store that opens at schema 1 or 3 lists exactly the commitments whose
\* proof can be read, each under the key of its proof, and its metadata agree;
\* it opens unless two proofs share a key or the sentinel changes hands
\* (ensure_schema_version).  A store at schema 2 gets the times of its
\* timestamps from the last entries of the log that parse.
MigrationReindexes ==
  Done("open") =>
    LET metas == call.store.meta
        key(r) == St!order_key_from_proof_bytes(metas[r].proof)
        keyed == {r \in 1 .. 2 : metas[r].proof # None /\ key(r) # Err}
        sentinel == St!NO_ATTESTATION_SENTINEL
        logged == [r \in 1 .. 2 |-> SelectLastInSeq(call.log, LAMBDA b : b # Err /\ b.root = r)]
    IN IF call.store.schema = 2
       THEN \A r \in 1 .. 2 :
              result.meta[r].timestamped_at =
                IF metas[r].key = None THEN None
                ELSE IF logged[r] = 0 THEN metas[r].created_at ELSE call.log[logged[r]].timestamped_at
       ELSE IF result = Err
       THEN \/ keyed = 1 .. 2 /\ key(1) = key(2)
            \/ 1 \in keyed /\ key(1) = sentinel /\ metas[2].key = sentinel
       ELSE /\ result.schema = SCHEMA_VERSION
            /\ {r \in 1 .. 2 : result.meta[r].key # None} = keyed
            /\ LET listed == St!list_commitments_by_order(result) IN
               /\ listed # Err
               /\ ToSet(listed) = {[key |-> key(r), root |-> r] : r \in keyed}
               /\ \A r \in keyed : result.meta[r].key = key(r)

\* "Migrations chain in place on open": whatever schema a store comes from, a
\* timestamped commitment whose proof can be read has the key of its proof
\* once the store is open (migrate_v2_to_v3, migrate_v3_to_v4).
MigrationsChain ==
  Done("open") /\ result # Err =>
    \A r \in 1 .. 2 :
      LET meta == call.store.meta[r]
          key == IF meta.proof = None THEN Err ELSE St!order_key_from_proof_bytes(meta.proof)
      IN meta.key # None /\ key # Err => result.meta[r].key = key

\* A packed directory verifies as exactly its files; the archive's root binds
\* them: with a blob added it is refused, and with one missing it is refused
\* or still lists the same files (pack_compat_manifest, verify_casey_archive).
\* And what /content serves is public and within the limit and, of a format
\* with Bao data, the payload of the root that was asked for, which
\* verify_commitment accepts; nothing is withheld that verifies and whose file,
\* length prefix and payload are within the limits.
StoredFilesBound ==
  /\ Done("pack") =>
       LET files == {<<p, call.files[p]>> : p \in DOMAIN call.files}
           added == [result EXCEPT !.files = @ \cup {St!FileHash("foreign")}]
           dropped(b) == [result EXCEPT !.files = @ \ {b}]
       IN /\ result = Err <=> \E p, q \in DOMAIN call.files : IsStrictPrefix(p, q)
          /\ result # Err =>
               /\ St!verify_casey_archive(result) = files
               /\ St!verify_casey_archive(added) = Err
               /\ \A b \in result.files : St!verify_casey_archive(dropped(b)) \in {Err, files}
               /\ St!ensure_casey_bindings_match_sidecar(files, call.files)
               /\ \A b \in result.files : St!fingerprint_for_archive(dropped(b)) \in {Err, St!fingerprint_for_archive(result)}
  /\ Done("content") =>
       LET served == "payload" \in DOMAIN result.content
           public == St!IsPublic(call.meta.format)
           bao == St!Verifiable(call.meta.format)
       IN /\ served => public /\ result.content.payload.len <= 3
          /\ served /\ bao => result.verified /\ result.content.payload.root = "r1"
          /\ result.verified /\ public /\ call.file.size \in 1 .. 8 /\ call.file.payload.len <= 3
               /\ call.file.prefix # None => (call.file.prefix <= 3 <=> served)

\* The layers as a reader of the documentation would find a value.
FirstGiven(seq) ==
  LET given == SelectSeq(seq, LAMBDA v : v # None) IN IF given = <<>> THEN None ELSE Head(given)
CliValue(f) ==
  IF f = "chain" THEN FirstGiven(<<call.options.chain_flag, call.options.chain_argument>>)
  ELSE IF f \in DOMAIN call.options THEN call.options[f] ELSE None
EnvValue(f) == IF f \in DOMAIN call.env THEN call.env[f] ELSE None
FileUsed ==
  LET dir == FirstGiven(<<CliValue("data_dir"), EnvValue("data_dir")>>) IN
  IF EnvValue("config") # None THEN Err
  ELSE IF dir = None THEN call.files[InDefaultDir]
  ELSE IF dir = <<"d">> THEN call.files[InOtherDir] ELSE Layer([commit_interval |-> None])
Effective(f) ==
  IF f \in Se!Flags
  THEN CliValue(f) = TRUE \/ EnvValue(f) \notin {None, ""} \/ FileUsed[f]
  ELSE FirstGiven(<<CliValue(f), EnvValue(f), FileUsed[f]>>)
Coherent ==
  LET mints == Effective("ecash_mint_urls")
      allowed == Effective("ecash_mint_allowlist")
  IN /\ (Effective("bitcoin_rpc_username") = None) = (Effective("bitcoin_rpc_password") = None)
     /\ ~(Effective("encrypted_only_preference") /\ Effective("open_to_unencrypted"))
     /\ Effective("market_contract_amount_sats") # 0
     /\ Effective("ecash_enabled") => mints # None /\ Effective("ecash_settlement_threshold_sats") # 0
     /\ mints # None /\ allowed # None => mints[1][2] = allowed[1][2]

\* Settings are accepted exactly when every layer parses and the values that
\* win, each from the highest layer that sets it, agree with one another; and
\* where a command then reads and writes follows the chain that won and the
\* directories that won, whichever layers they came from: no mix of a
\* directory of one chain with the port or cookie of another.  Credentials that
\* are given replace the cookie.  A timestamp goes to the calendar that the
\* command line, the settings or a running listener names, in this order, and
\* an upgrade asks the same host; its path is wrong for a URL that ends in
\* "/timestamp/".  And a provider that prefers encryption, in any layer, has no
\* offer that readers of the public namespace find or that takes plain data.
SettingsCoherent ==
  Done("settings") =>
    /\ result # Err <=> FileUsed # Err /\ EnvValue("chain") # "bogus" /\ Coherent
    /\ result # Err =>
         LET chain == FirstGiven(<<Effective("chain"), "mainnet">>)
             below(dir) == IF chain = "mainnet" THEN dir ELSE Append(dir, chain)
             data == below(FirstGiven(<<Effective("data_dir"), Se!DefaultDataDir>>))
         IN /\ result.chain = chain /\ result.data_dir = data
            /\ result.index = FirstGiven(<<Effective("index"), Append(data, "index")>>)
            /\ result.cookie_file =
                 FirstGiven(<<Effective("cookie_file"), Append(below(Se!DefaultBitcoinDir), ".cookie")>>)
            /\ result.index_sats = Effective("index_sats")
            /\ result.bitcoin_rpc_url[2] = chain
            /\ Se!bitcoin_credentials(result) =
                 IF Effective("bitcoin_rpc_username") = None THEN <<"cookie", result.cookie_file>>
                 ELSE <<Effective("bitcoin_rpc_username"), Effective("bitcoin_rpc_password")>>
            /\ \A cli \in {None, <<"c", "/timestamp">>}, active \in {None, <<"a", "/timestamp">>} :
                 LET embedded == IF chain = "regtest" \/ Effective("calendar_enabled")
                                 THEN FirstGiven(<<active, Se!ListenUrl>>) ELSE None
                     url == FirstGiven(<<cli, Effective("calendar_url"), embedded, Se!DEFAULT_CALENDAR_URL>>)
                 IN /\ Se!TimestampUrl(result, active, cli) = url
                    /\ Se!UpgradeUrl(result, active, cli) =
                         IF url = <<"f", "/timestamp", "/">> THEN <<"f", "/timestamp", "/upgrade">>
                         ELSE <<Head(url), "/upgrade">>
            /\ LET published == {Se!publish_provider_offer(result, o) : o \in Offers} \ {Err} IN
               /\ published # {}
               /\ Effective("encrypted_only_preference") =>
                    /\ Se!list_offers_in_namespace(published, "Public") = {}
                    /\ \A o \in published : ~o.open_to_unencrypted
               /\ Effective("open_to_unencrypted") => Se!list_offers_in_namespace(published, "Odd") = {}

\* The attestations of a timestamp in the order in which a reader meets them,
\* each with the digest of its path; a path that does not compute is "broken".
RECURSIVE Ends(_, _)
Ends(step, d) ==
  LET broken == <<[kind |-> "broken", height |-> 0, digest |-> d]>> IN
  CASE step.kind = "op" ->
         IF step.output # At!execute(d) \/ step.next = <<>> THEN broken ELSE Ends(step.next[1], At!execute(d))
    [] step.output # d -> broken
    [] step.kind = "fork" -> FlattenSeq([i \in DOMAIN step.next |-> Ends(step.next[i], d)])
    [] OTHER -> <<[kind |-> step.kind, height |-> step.height, digest |-> d]>>

\* `lord commit verify` confirms a proof exactly when one of its paths computes
\* the merkle root of a block of the node's chain, and reports the first such
\* block.  A proof it accepts without a confirmation is one that the chain
\* cannot decide, or has a pending attestation (which outweighs a contradicted
\* one); without the commitment's digest nothing is accepted.  --full only ever
\* accepts less, what /commitments shows has the same verdict, and the height
\* that an upgrade logs is the confirmed one when there is only one to choose.
AttestedByTheChain ==
  Done("verify") =>
    IF call.file \in {None, Err} THEN \A b \in BOOLEAN : result.command[b] = Err /\ result.full[b] = Err
    ELSE
    LET ends == Ends(call.file.step, <<>>)
        root(e) == IF call.rpc # None /\ e.height \in 1 .. 2 THEN call.rpc.roots[e.height] ELSE None
        first == SelectInSeq(ends, LAMBDA e : e.kind = "bitcoin" /\ root(e) = e.digest)
        some(kind) == \E i \in DOMAIN ends : ends[i].kind = kind
        contradicted(e) == \/ e.kind = "broken"
                           \/ e.kind = "bitcoin" /\ (e.height > MaxU32 \/ root(e) \notin {None, Err, e.digest})
        undecided == ~some("unknown") /\ (some("pending") \/ \A i \in DOMAIN ends : ~contradicted(ends[i]))
        online == result.command[FALSE]
        bitcoin == {i \in DOMAIN ends : ends[i].kind = "bitcoin"}
    IN /\ online # Err <=> call.rpc # None /\ call.file.bound /\ (first # 0 \/ undecided)
       /\ result.command[TRUE] # Err <=> call.file.bound
       /\ online # Err =>
            /\ online.attestation.status = "confirmed" <=> first # 0
            /\ first # 0 => online.attestation.height = ends[first].height
            /\ first # 0 /\ Cardinality(bitcoin) = 1 /\ ~some("broken") => result.logged = ends[first].height
            /\ online.attestation = result.served
       /\ result.full[TRUE] = online /\ result.full[FALSE] = Err
=============================================================================
