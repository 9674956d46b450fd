------------------------------- MODULE Server -------------------------------
(***************************************************************************)
(* The process of "lord server": the main thread (src/lib.rs,              *)
(* src/subcommand/server.rs), the index thread, the thread of the Ctrl-C   *)
(* handler, and the requests, which share the index's store mutex, the     *)
(* INDEXER mutex and the SHUTTING_DOWN flag.                               *)
(*                                                                         *)
(* A handler is the sequence of the blocking steps it takes: "read" locks  *)
(* the store, reads a table and unlocks; "hold" locks it until the answer; *)
(* "rpc" asks bitcoind; "disk" opens the commitment store.  What a handler *)
(* renders is left out; an error or an empty answer of a step may end the  *)
(* handler there.                                                          *)
(***************************************************************************)
EXTENDS Naturals, Sequences, FiniteSets

CONSTANTS Requests,      \* clients, one request each
          Routes,        \* the handlers they may ask for with a sat index
          WithoutSats,   \* and without one
          IndexSats,     \* the installations considered: with a sat index, without, or both
          IndexAddresses, TxIndex,  \* what else the index has
          MaxBlocks,     \* bound: blocks the node mines
          MaxPresses     \* bound: how often Ctrl-C is pressed

VARIABLES store,     \* who holds the store mutex
          indexed,   \* blocks committed to the index
          tip,       \* blocks of the node
          requests,  \* per request: its route's steps still to take
          main, indexer, handler,  \* where the three threads are
          INDEXER,   \* the join handle: "none", "some", "taken"
          guard,     \* who holds the INDEXER mutex
          shutting,  \* SHUTTING_DOWN
          pressed,   \* how often Ctrl-C was pressed,
          handled,   \* and how many of these the handler's thread has taken up
          listeners, \* the handles in LISTENERS and the accept loop
          index_sats \* is there a sat index?  Never changes

ctrlc == <<pressed, handled>>
vars == <<store, indexed, tip, requests, main, indexer, handler, INDEXER, guard, shutting, ctrlc, listeners>>

-----------------------------------------------------------------------------
\* The index's methods

block_height == <<"read">>
block_hash == <<"read">>
block_time == <<"read">>
block_header_at_height == <<"read">>
rare_sat_satpoint == <<"read">>
get_address_info == <<"read">>
contains_output == <<"read">>
list == IF index_sats THEN <<"read">> ELSE <<>>
get_transaction == IF TxIndex THEN <<"rpc">> ELSE <<>>
get_unspent_or_unconfirmed_output == <<"rpc">>

\* Each part locks the store for itself: the parts may come from two versions.
get_output_info == list \o contains_output \o get_unspent_or_unconfirmed_output \o get_transaction

\* Calls list while it holds the store: with a sat index list locks it too, which
\* std's Mutex does not allow.
get_utxo_recursive == <<"hold">> \o list

\* Mutant: reads the balances while it holds the lock of the address table.
AddressInfoNested == <<"hold", "read">>
address_info == IF IndexAddresses THEN get_address_info \o <<"read">> ELSE <<>>

-----------------------------------------------------------------------------
\* The handlers

status == <<"read">>
blocks == <<"read">>
rare_txt == <<"read">>
clock == block_height
satpoint == get_output_info
address == address_info
satscard == address_info
transaction == get_transaction
blockhash == block_hash
blockheight_string == block_height
tx == get_transaction
utxo == get_utxo_recursive
removed == <<>>
static_asset == <<>>
update == <<>>  \* answers 404 but in the integration tests

is_bao_root_query == <<"disk">>
search == is_bao_root_query \o <<"rpc">>
fallback == is_bao_root_query \o <<"rpc">>
sat == rare_sat_satpoint \o block_time \o block_header_at_height \o get_transaction
block == <<"rpc", "rpc">> \o block_height
input == <<"rpc", "rpc">>
blockinfo == block_hash \o <<"rpc", "rpc", "rpc">>
blocktime_string == block_height \o block_time
outputs == get_output_info \o get_output_info
outputs_address == IF IndexAddresses THEN get_address_info \o get_output_info ELSE <<>>
commitment_detail == <<"disk", "disk", "rpc">>
commitments_list_paginated == <<"disk">>
commitment_content == <<"disk", "disk">>

sat_recursive == IF index_sats THEN sat ELSE <<>>

Handler(route) ==
  CASE route = "status" -> status [] route = "blocks" -> blocks [] route = "rare.txt" -> rare_txt
    [] route = "clock" -> clock [] route = "satpoint" -> satpoint [] route = "address" -> address
    [] route = "satscard" -> satscard [] route = "tx" -> transaction [] route = "sat" -> sat
    [] route = "output" -> get_output_info [] route = "outputs" -> outputs
    [] route = "outputs_address" -> outputs_address [] route = "block" -> block [] route = "input" -> input
    [] route = "search" -> search [] route = "fallback" -> fallback
    [] route = "removed" -> removed [] route = "static" -> static_asset [] route = "update" -> update
    [] route = "r/blockhash" -> blockhash [] route = "r/blockheight" -> blockheight_string
    [] route = "r/blocktime" -> blocktime_string [] route = "r/blockinfo" -> blockinfo
    [] route = "r/tx" -> tx [] route = "r/sat" -> sat_recursive [] route = "r/utxo" -> utxo
    [] route = "commitment" -> commitment_detail [] route = "commitments" -> commitments_list_paginated
    [] route = "content" -> commitment_content

-----------------------------------------------------------------------------

Idle == [state |-> "none", steps |-> <<>>]

Init ==
  /\ store = "free" /\ guard = "free"
  /\ indexed = 0 /\ tip = 0
  /\ requests = [r \in Requests |-> Idle]
  /\ main = "opening" /\ indexer = "none" /\ handler = "idle"
  /\ INDEXER = "none" /\ shutting = FALSE /\ listeners = "unknown"
  /\ pressed = 0 /\ handled = 0
  /\ index_sats \in IndexSats

\* "exited" after the index thread was joined, "killed" by the handler's process::exit.
Alive == main \notin {"exited", "killed"}

\* The main thread: opens the index, registers its listener, starts the index
\* thread, hands over its join handle, and serves.
RegisterListener ==
  /\ main = "opening"
  /\ main' = "spawn" /\ listeners' = "registered"
  /\ UNCHANGED <<store, indexed, tip, requests, indexer, handler, INDEXER, guard, shutting, ctrlc>>
SpawnIndexThread ==
  /\ main = "spawn"
  /\ main' = "replace" /\ indexer' = "check"
  /\ UNCHANGED <<store, indexed, tip, requests, handler, INDEXER, guard, shutting, ctrlc, listeners>>
ReplaceIndexer ==
  /\ main = "replace" /\ guard = "free"
  /\ main' = "serve" /\ INDEXER' = "some"
  /\ UNCHANGED <<store, indexed, tip, requests, indexer, handler, guard, shutting, ctrlc, listeners>>

\* The address cannot be bound: the error ends the command.
BindFails ==
  /\ main = "serve" /\ listeners = "registered"
  /\ main' = "finish"
  /\ UNCHANGED <<store, indexed, tip, requests, indexer, handler, INDEXER, guard, shutting, ctrlc, listeners>>

\* The accept loop ends when its handle is told to shut down; requests that
\* are still open after the grace period are dropped.
StopServing ==
  /\ main = "serve" /\ listeners = "draining"
  /\ main' = "finish" /\ listeners' = "closed"
  /\ requests' = [r \in Requests |->
       IF requests[r].state = "open" /\ store # r THEN [requests[r] EXCEPT !.state = "dropped"] ELSE requests[r]]
  /\ UNCHANGED <<store, indexed, tip, indexer, handler, INDEXER, guard, shutting, ctrlc>>

\* Mutant: the guard is dropped once the handle is taken.
TakeIndexerUnlocked(thread) ==
  /\ guard = "free"
  /\ IF INDEXER = "some" THEN INDEXER' = "taken" /\ shutting' = TRUE /\ UNCHANGED guard
     ELSE UNCHANGED <<INDEXER, guard, shutting>>

\* gracefully_shut_down_indexer, on the main thread and on the handler's: the
\* INDEXER mutex stays locked while the thread is joined.
TakeIndexer(thread) ==
  /\ guard = "free"
  /\ IF INDEXER = "some" THEN INDEXER' = "taken" /\ guard' = thread /\ shutting' = TRUE
     ELSE UNCHANGED <<INDEXER, guard, shutting>>

MainTakes ==
  /\ main = "finish" /\ TakeIndexer("main")
  /\ main' = IF INDEXER = "some" THEN "join" ELSE "exited"
  /\ UNCHANGED <<store, indexed, tip, requests, indexer, handler, ctrlc, listeners>>
MainJoins ==
  /\ main = "join" /\ indexer = "ended"
  /\ main' = "exited" /\ guard' = "free"
  /\ UNCHANGED <<store, indexed, tip, requests, indexer, handler, INDEXER, shutting, ctrlc, listeners>>

\* A signal: the ctrlc crate counts it for its one thread, which calls the
\* handler for one signal after the other.
PressCtrlC ==
  /\ Alive /\ pressed < MaxPresses
  /\ pressed' = pressed + 1
  /\ UNCHANGED <<store, indexed, tip, requests, main, indexer, handler, INDEXER, guard, shutting, handled, listeners>>

\* The handler: if the flag was set before, by an earlier signal or by a main
\* thread that is joining, the process ends there and then; else the
\* listeners and the index thread are stopped.
HandlerWakes ==
  /\ Alive /\ handler = "idle" /\ handled < pressed
  /\ handled' = handled + 1 /\ shutting' = TRUE
  /\ IF shutting THEN main' = "killed" /\ UNCHANGED handler ELSE handler' = "listeners" /\ UNCHANGED main
  /\ UNCHANGED <<store, indexed, tip, requests, indexer, INDEXER, guard, pressed, listeners>>
HandlerDrains ==
  /\ Alive /\ handler = "listeners"
  /\ handler' = "take"
  /\ listeners' = IF listeners \in {"registered", "listening"} THEN "draining" ELSE listeners
  /\ UNCHANGED <<store, indexed, tip, requests, main, indexer, INDEXER, guard, shutting, ctrlc>>
HandlerTakes ==
  /\ Alive /\ handler = "take" /\ TakeIndexer("handler")
  /\ handler' = IF INDEXER = "some" THEN "join" ELSE "idle"
  /\ UNCHANGED <<store, indexed, tip, requests, main, indexer, ctrlc, listeners>>
HandlerJoins ==
  /\ Alive /\ handler = "join" /\ indexer = "ended"
  /\ handler' = "idle" /\ guard' = IF guard = "handler" THEN "free" ELSE guard
  /\ UNCHANGED <<store, indexed, tip, requests, main, indexer, INDEXER, shutting, ctrlc, listeners>>

\* Mutant: the loop does not look at the flag.
IndexerIgnoresFlag ==
  /\ Alive /\ indexer = "check" /\ indexer' = "lock"
  /\ UNCHANGED <<store, indexed, tip, requests, main, handler, INDEXER, guard, shutting, ctrlc, listeners>>

\* The index thread: update under the store mutex, sleep, until told to stop.
IndexerChecks ==
  /\ Alive /\ indexer = "check"
  /\ indexer' = IF shutting THEN "ended" ELSE "lock"
  /\ UNCHANGED <<store, indexed, tip, requests, main, handler, INDEXER, guard, shutting, ctrlc, listeners>>
IndexerLocks ==
  /\ Alive /\ indexer = "lock" /\ store = "free"
  /\ indexer' = "update" /\ store' = "indexer"
  /\ UNCHANGED <<indexed, tip, requests, main, handler, INDEXER, guard, shutting, ctrlc, listeners>>
IndexerCommits ==
  /\ Alive /\ indexer = "update" /\ indexed < tip
  /\ indexed' = indexed + 1
  /\ indexer' = IF shutting THEN "unlock" ELSE "update"
  /\ UNCHANGED <<store, tip, requests, main, handler, INDEXER, guard, shutting, ctrlc, listeners>>
IndexerUnlocks ==
  /\ Alive
  /\ indexer = "unlock" \/ (indexer = "update" /\ indexed = tip)
  /\ indexer' = "sleep" /\ store' = "free"
  /\ UNCHANGED <<indexed, tip, requests, main, handler, INDEXER, guard, shutting, ctrlc, listeners>>
IndexerWakes ==
  /\ Alive /\ indexer = "sleep"
  /\ indexer' = "check"
  /\ UNCHANGED <<store, indexed, tip, requests, main, handler, INDEXER, guard, shutting, ctrlc, listeners>>

\* Requests
Accept(r, route) ==
  /\ main = "serve" /\ listeners \in {"registered", "listening"} /\ requests[r].state = "none"
  /\ requests' = [requests EXCEPT ![r] = [state |-> "open", steps |-> Handler(route)]]
  /\ listeners' = "listening"
  /\ UNCHANGED <<store, indexed, tip, main, indexer, handler, INDEXER, guard, shutting, ctrlc>>

Open(r) == Alive /\ requests[r].state = "open"
At(r, steps) == Open(r) /\ requests[r].steps # <<>> /\ Head(requests[r].steps) \in steps
Advance(r) == \E rest \in {Tail(requests[r].steps), <<>>} : requests' = [requests EXCEPT ![r].steps = rest]

\* A lock that is taken and released within one call.
Read(r) ==
  /\ At(r, {"read"}) /\ store = "free" /\ Advance(r)
  /\ UNCHANGED <<store, indexed, tip, main, indexer, handler, INDEXER, guard, shutting, ctrlc, listeners>>
Hold(r) ==
  /\ At(r, {"hold"}) /\ store = "free" /\ store' = r /\ Advance(r)
  /\ UNCHANGED <<indexed, tip, main, indexer, handler, INDEXER, guard, shutting, ctrlc, listeners>>
Call(r) ==
  /\ At(r, {"rpc", "disk"}) /\ Advance(r)
  /\ UNCHANGED <<store, indexed, tip, main, indexer, handler, INDEXER, guard, shutting, ctrlc, listeners>>
Answer(r) ==
  /\ Open(r) /\ requests[r].steps = <<>>
  /\ requests' = [requests EXCEPT ![r].state = "answered"]
  /\ store' = IF store = r THEN "free" ELSE store
  /\ UNCHANGED <<indexed, tip, main, indexer, handler, INDEXER, guard, shutting, ctrlc, listeners>>

Mine ==
  /\ Alive /\ tip < MaxBlocks
  /\ tip' = tip + 1
  /\ UNCHANGED <<store, indexed, requests, main, indexer, handler, INDEXER, guard, shutting, ctrlc, listeners>>

RequestStep(r) == Read(r) \/ Hold(r) \/ Call(r) \/ Answer(r)
MainStep == RegisterListener \/ SpawnIndexThread \/ ReplaceIndexer \/ StopServing \/ MainTakes \/ MainJoins
HandlerStep == HandlerWakes \/ HandlerDrains \/ HandlerTakes \/ HandlerJoins
IndexerStep == IndexerChecks \/ IndexerLocks \/ IndexerCommits \/ IndexerUnlocks \/ IndexerWakes

Asked == IF index_sats THEN Routes ELSE WithoutSats

Next ==
  /\ \/ MainStep \/ BindFails \/ HandlerStep \/ IndexerStep \/ PressCtrlC \/ Mine
     \/ \E r \in Requests : RequestStep(r) \/ \E route \in Asked : Accept(r, route)
  /\ UNCHANGED index_sats

Spec == Init /\ [][Next]_<<vars, index_sats>>

\* Every thread runs on; a store mutex that is free again and again, as it is
\* while the index thread sleeps, is obtained by whoever waits for it.
FairSpec ==
  /\ Spec
  /\ WF_vars(MainStep) /\ WF_vars(HandlerStep) /\ WF_vars(IndexerStep) /\ SF_vars(IndexerLocks)
  /\ \A r \in Requests : WF_vars(Call(r)) /\ WF_vars(Answer(r)) /\ SF_vars(Read(r)) /\ SF_vars(Hold(r))

-----------------------------------------------------------------------------
\* Every request that is accepted is answered, or dropped by the shutdown: no
\* handler waits for a lock that its own call chain holds, and none can keep
\* the index thread and the other requests waiting forever.
RequestsAnswered ==
  \A r \in Requests : requests[r].state = "open" ~> (requests[r].state # "open" \/ ~Alive)

\* "Shutting down gracefully": a Ctrl-C that finds the listener registered,
\* wherever the index thread is in its update, a second one at any time, and
\* a command that has failed all end the process.  (A first Ctrl-C that comes
\* before the listener is registered stops the index thread alone.)
ShutdownCompletes ==
  ((handler = "listeners" /\ listeners # "unknown") \/ pressed >= 2 \/ main = "finish") ~> ~Alive

\* The process ends under a running update only where the user asks for it: a
\* graceful end waits for the index thread, whichever of the main thread and
\* the Ctrl-C handler takes the join handle, and the handler's own exit does
\* so only on a second Ctrl-C, or when the command has failed and the main
\* thread waits for the index thread.
NoExitDuringUpdate ==
  /\ main = "exited" => indexer \in {"none", "ended"}
  /\ main = "killed" /\ indexer \notin {"none", "ended"} => handled >= 2 \/ guard = "main"
=============================================================================
