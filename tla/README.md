# TLA+ models of rgb-lightning-sample

rgb-lightning-sample is a command-line Lightning node whose channels can carry
RGB assets. This directory holds TLA+ models of its own logic (the code under
`src/src`), TLC configurations for them and TLAPS proofs. The Lightning
library (LDK, in a fork that knows RGB), the on-chain wallet (BDK), the RGB
runtime, the proxy server, Bitcoin Core and Electrum are external: they appear
only as far as the program's code relies on them, and the definitions that
stand for them are marked external in `PROJECT.json`.

## 1. The system

A node is one process with several concurrent activities:

* the **command loop** (`poll_for_user_input`, `cli.rs`) executes one command
  at a time;
* the **event handler** (`handle_ldk_events`, `main.rs`) is called by the
  background processor, one event at a time, in another thread; an event that
  was handled when the process dies before the channel manager is saved is
  delivered again;
* **spawned tasks**: forwarding of pending HTLCs after a delay, the second half
  of a channel funding, the accept loop, the reconnection loop, polling of fee
  estimates.

They share memory tables, files of the data directory and two locks.

| Component | State | Operations | Correct means |
|---|---|---|---|
| Swap protocol | `maker_trades`, `whitelisted_trades` (memory, lost on restart), RGB payment info file | `makerinit`, `taker`, `makerexecute`, `HTLCIntercepted`, `PaymentClaimable/Claimed/Sent/Failed` | the taker gives only what it accepted, once, and both legs or none; agreed swaps settle; every swap ends |
| Payment records | `inbound_payments`, `outbound_payments` (memory) | `sendpayment`, `keysend`, `coloredkeysend`, `makerexecute`, `getinvoice`, payment events | statuses are true, and final ones are reached |
| RGB runtime and wallet locks | the runtime of the data directory, the wallet's mutex | every operation that touches assets or on-chain funds | no deadlock, every lock given back, nobody drops another's lock |
| RGB UTXO file | `rgb_utxos` | `createutxos`, `issueasset`, `receiveasset`, `sendasset`, funding, sweeping | an output that holds an asset is listed as coloured and is not spent for its sats |
| Channel funding | channel info files, consignments, funding transaction | `opencoloredchannel`, `FundingGenerationReady` and its task, `ChannelReady` | no asset is lost; the change comes back to the balance; a coloured channel is funded as such |
| On-chain transfers | blinded UTXO files, consignments at the proxy | `receiveasset`, `sendasset`, `refresh` | what is broadcast can be claimed; a file is removed only for a mined transfer; change stays visible |
| Sweeping | transfer info files, `rgb_utxos` | `SpendableOutputs` | replay after a crash loses nothing |
| Connections, shutdown | `stop_listen_connect`, the connected peers, `channel_peer_data` | accept loop, reconnection task, `connectpeer`, `disconnectpeer`, open commands, end of `start_ldk` | no connection is started once the peers were disconnected; channel peers are tried again |
| Bitcoin Core client | fee table | polling task, reads by the library | rates of one poll, never below the library's minimum |
| Start-up | keys seed, monitors, manager, `rgb_utxos` | `start_ldk` up to the command loop | one key for ever, nothing on disk forgotten |
| Disk helpers, arguments, hex | - | - | plain I/O, parsing, formatting |

How they interact: a swap is a payment of the maker to itself through the
taker. `makerinit` creates a payment hash and prints a swap string, the taker's
user whitelists the string, `makerexecute` builds one route out of two legs
(maker to taker, taker to maker) and sends it; the taker's node intercepts the
HTLC and compares its two sides with the whitelist. Commands insert payment
records, events update them. Operations on assets open the RGB runtime and,
inside it, lock the wallet.

What is hard here: commands and events interleave freely around shared tables,
files and locks; a state that is looked up when an event is handled may be gone
by then; the memory tables are lost on restart while HTLCs, events and files
survive; the two legs of a swap settle at different times on different nodes;
amounts are unchecked or saturating u64. `PROJECT.json` lists these hazards
line by line with the properties that answer to them.

## 2. Modules

| Module | Models |
|---|---|
| `SwapTerms` | the arithmetic of swaps: `swap.rs`, the HTLC amounts of `maker_execute`, the check of `HTLCIntercepted` |
| `AtomicSwap` | abstract specification: what a swap promises the taker |
| `Swap` | the swap protocol between two nodes, with faults |
| `MCSwap` | small instances of `Swap` |
| `SwapProofs` | inductive invariant of `Swap`, safety theorems, `Swap` implements `AtomicSwap` |
| `Payments` | the payment tables of one node |
| `MCPayments` | small instances |
| `PaymentsProofs` | inductive invariant and theorems of `Payments` |
| `RuntimeLock` | the lock operations of every command, event and task |
| `MCRuntimeLock` | small instances |
| `RuntimeLockProofs` | paths that are lawful for the locks held; theorems |
| `RgbUtxos` | the file `rgb_utxos` between commands, events and crashes |
| `RgbUtxosProofs` | the life of an output as inductive invariant; theorems |
| `ChannelFunding`, `MCChannelFunding` | coloured channels from the command to `ChannelReady`, with amounts |
| `ChannelFundingProofs` | the laws of totals; its amounts, its balance and its info file, proved |
| `OnchainTransfer` | payer, proxy and receiver of an on-chain transfer |
| `OnchainTransferProofs` | its inductive invariant and theorems |
| `Connections` | peer connections and the orderly exit |
| `ConnectionsProofs` | no new attempt after the stop, proved |
| `Startup` | `start_ldk` over what is on disk |
| `StartupProofs` | the inductive invariants and theorems of `Startup` and of `BitcoindClient` |
| `BitcoindClient` | the fee table and its polling task |

### SwapTerms and Swap

`SwapTerms` has no state. An `Option<u64>` is an amount or `None`, an
`Option<ContractId>` an asset or `NoAsset`. `U64` is the number of u64 values,
a parameter, so that TLC can use a small one and the proofs any; products wrap
as in a release build. In a dev build an overflow aborts the process while it
reads a command, before anything changed: that is a restart, which `Swap` has.

`SwapHtlc` gives the two HTLCs the taker sees. `maker_execute` sets
`payment_amount`, `rgb_amount` and the last hop's `fee_msat` of each leg; the
amounts that result on the wire come from the library's onion construction and
are inferred from those settings: when the maker buys, `amount_msats +
HTLC_MIN_MSAT` comes in and `HTLC_MIN_MSAT` leaves with the asset; when it
sells, `HTLC_MIN_MSAT` comes in with the asset and `amount_msats` leaves. Both
grow by what hops after the taker keep (`fee`).

`Swap` keeps the tables under their names. `pay[h]` is the stage of the maker's
payment, with the taker's and the maker's share of it in one variable because
a payment is in one place at a time; `htlc[h]` is its HTLC pair; `chan` says
whether a channel is usable, listed but closing, or closed; `stale_event[h]`
that the taker still has an `HTLCIntercepted` event of an HTLC that timed out.
`taker_rgb` is what `get_rgb_total_amount` returns at the taker. `bound`,
`accepts`, `forwards`, `msat`, `rgb`, `retyped` and `fell` are history
variables: the last two record that a payment in flight was executed again with
other terms, and that an asset left the taker's wallet after an acceptance.
Correspondence:

* `makerinit`, `taker`, `makerexecute`: the commands. Refused commands change
  nothing and are the negation of the guard, with one exception: a
  `makerexecute` whose payment the channel manager refuses has already written
  the payment info file. Users type printed strings or, with `EditedStrings`,
  any string with a hash the maker created.
* `RejectSwap`, `ForwardSwap`, `InterceptPanics`: the three outcomes of the
  `HTLCIntercepted` handler. The handler is one step: it holds the whitelist's
  lock from its lookup to its end, and the channel lookups before it are
  covered by the other orders of `closechannel`/`forceclosechannel`. A panic
  ends the process (`panic = "abort"`), which restarts without whitelist.
  The branch for HTLCs that are not swaps (main.rs:996) is left out: the
  library raises this event only for the swap flag `makerexecute` sets.
* `PendingHTLCsForwardable`, `PaymentClaimable`, `PaymentClaimed`,
  `PaymentSent`, `PaymentFailed`: the other handlers. `ClaimFirstLeg`,
  `HtlcTimesOut`, `ForgetPaymentId` are the channel managers' own steps.
* `BalanceChanges`: any other command or event of the taker's node that moves an
  asset on chain, in either direction; `makerexecute` and the handlers never
  look at the balance. The maker's own balance matters only to `makerinit`,
  which prints a string or not: `MakerRgb` is the most it owns.
* `TakerRestart`, `MakerRestart`: the trade tables are empty again; events that
  were handled but not saved come back.

The legs are direct, as in the repository's swap tests; longer routes enter
through `Fees`. The status the payment tables show is `Payments`' business.

### Payments

One node's tables next to what the channel manager knows. A send is two steps,
`SendCall` and `InsertRecord`, because `send_payment`, `keysend` and
`maker_execute` call the channel manager first and lock the table afterwards;
`get_invoice` holds the lock throughout and is one step. Records are reduced to
their status.

### RuntimeLock

Each operation is reduced to its sequences of lock operations, one for each way
through it, `ok` to its end and `err` for early exits; `exit` remembers which
one a thread is on. The runtime is taken by
`get_rgb_runtime` and given back only by an explicit `drop_rgb_runtime`; the
wallet's guard goes with its scope. So an early exit without
`drop_rgb_runtime` leaves the runtime open (`"nobody"`), and the wallet free.
`refresh` handles one pending UTXO per call here; in the code it repeats the
same sequence. Uses of the runtime inside the library, and restarts, are not
modelled.

### RgbUtxos

Two threads, the command loop and the event handler, with one frame of local
variables each. Every read and every write of `rgb_utxos`, every lock that may
have to be waited for, every broadcast and every failing `expect` is a step.
Outputs are numbered in the order of their creation, which is the order of the
file (`utxos.push`), so "the first uncoloured output" is the least. Amounts are
left out: the asset inputs of a send or a funding and the existence of change
are chosen freely. `view` is the wallet's picture of the chain at its last
sync. `stale`, `reused`, `wasted`, `orphaned` and `burnt` are history
variables: a copy of the file was used or written although the file had
changed; an output was marked a second time; an output was marked for a send
that failed; a crash kept a swept output off the list; an allocation was lost.
An event with several spendable outputs is one sweep per output. A restart
takes for granted that the manager was saved once; the first starts are in
`Startup`.

### ChannelFunding

The amounts of one asset: allocations on outputs, which of them are in the
contract's history (`accepted`), coloured channels by stage. `CheckBalance` to
`write_rgb_channel_info` are the command, `FundingGenerationReady` and
`PostConsignment` the event and its task, `BroadcastFunding`, `PeerAccepts` and
`FundingFails` the library and the peer. `FundingLocked` and `ChannelCloses`
are what may happen to a broadcast funding; only after the first does
`ChannelReady` accept the funding's consignment. The subtraction of main.rs:242
aborts when the inputs are short, as in a dev build.

A send is four steps with the runtime open: `sendasset` chooses the inputs,
`PostOfSendFails` or `broadcast_tx` follows, then `accept_transfer`; a crash may
come between any two, and `broadcast_tx` aborts when a funding has taken one of
the inputs or the server does not answer, in the latter case with or without the
transaction being out. Steps that need the runtime wait for it (`RuntimeFree`),
for ever once it was left open (`lost`): by a failed post, by the funding's task
(main.rs:398), or by a command of `LeaveRuntimeOpen`. `spentSince`, `hasty` and
`cut` record that the asset was spent after a channel's balance check, that its
event was handled before the command had written the info file, and the change
of sends that the end of the process cut off between broadcast and acceptance.

### OnchainTransfer

One payer, one receiver and the proxy. Each request of the payer may be lost
before or after the proxy stored the consignment; a command that ends with an
error leaves the RGB runtime open, so the payer is restarted; the user sends
again until a send completes. Transfers are of one unit. `refresh` is the loop
of cli.rs:612-671: it reads the directory (`read_dir`), takes the files in an
order about which nothing is known (`NextFile`), and for each asks the proxy,
goes on when there is no answer, accepts what it got and removes the file; an
unmined transfer is accepted with a warning and its file stays. A transfer that
fails validation aborts the process (cli.rs:655), and the files after it are not
looked at. Both nodes may crash between any two steps.

### Connections

The accept loop, the reconnection task, the command loop and the end of
`start_ldk`, each as far as the code has an await or a lock between two of its
parts. Whether an attempt succeeds is up to the peer. `known` is
`channel_peer_data`, `gone` the peers whose host name stopped resolving: one
such line makes `read_channel_peer_data` fail as a whole. `late` records that
a channel was updated after the last save of the manager.

### Startup and BitcoindClient

`Startup` is `start_ldk` step by step over the four things that survive the
process. The seed file is created and filled in two steps; whether a start is
the first is told by the manager's file alone. A crash may come at every step;
`cut` records one of a running node that had not saved its manager yet.

`BitcoindClient` is the polling task: three requests, three stores, a sleep.
`stored` is the poll a rate comes from. The conversion of `convert.rs` is
modelled, without the saturation of its 32-bit cast (171 bitcoins per 1000
vbytes, beyond TLC's integers).

## 3. Runs

| Run | Checks | Bounds |
|---|---|---|
| `swap_edited` | `TypeOK`, `HeldHtlcIsOneSided`, `ForwardHonoursDeal`, `AcceptanceUsedOnce`, `InfoWrongOnlyIfRetyped`, `ImplementsAtomicSwap`, `UncoveredOnlyIfSpent` | one hash, five terms typed at will on either side, two assets, three channels, `U64 = 16`, two acceptances, restarts and timeouts, one of the taker's balances between 1 and 2 |
| `swap_agreed` | `AgreedSwapSettles` | two hashes, printed strings, fees 0 and 1, no faults |
| `swap_faults` | `SwapEnds` | one hash, all faults, two acceptances |
| `payments` | `TypeOK`, `SucceededWasPaid`, `StuckPendingCameEarly`, `ClaimedIsRecorded` | two payments each way, resends, restarts |
| `locks` | `TypeOK`, `DeadlockNeedsColoredFunding`, `DropsOnlyItsOwn`, `RuntimeLostOnlyThere`, `OperationsFinish` | all operations, all exits, two tasks, two descriptors per sweep |
| `utxos` | `TypeOK`, `LossNeedsStaleCopyOrCrash`, `HandedOutOnce`, `AssetsAreListed`, `MarkedIsUsed` | one contract, one coin, five outputs, one output per `createutxos`, one restart |
| `funding` | `TypeOK`, `NothingIsLost`, `HiddenChangeHasCause`, `UncoveredOnlyIfSpentSince`, `VanillaOnlyIfHasty`, `ChangeIsAccepted` | two channels of 2 and 1, a supply of 2 and 1 on two outputs, five outputs, sends of any amount, one restart besides those after a panic |
| `connections` | `NoNewAttemptAfterStop`, `ChannelPeersAreTried` | two peers, one of them with a host name |
| `transfer` | `TypeOK`, `PaidIsClaimable`, `DoneIsMined`, `HiddenChangeNeedsCrash`, `MinedIsCredited` | two blinded outputs, a supply of 2, three sends, one crash of either node |
| `startup` | `SameKey`, `NothingForgottenOnceSaved` | four starts, two channels, two outputs |
| `fee_rates` | `RatesOfOnePoll`, `NeverBelowMinimum` | three polls; an estimate below the minimum, one above, none |
| `connections_stopped` | finding | as `connections` |

Why the bounds are enough: swaps with different hashes share only the clock and
the channels, so one hash suffices where all strings are allowed and two show
that nothing is shared by accident. The five terms contain both sides, two
amounts, the same asset at several prices, two assets, a product that wraps to
zero (2 * 8 with `U64 = 16`), an asset the maker does not know and a sale that
the taker covers at first and, once its balance has fallen from 2 to 1, no
longer; two acceptances per hash are the fewest with which one can be
used twice or changed in flight. In `RuntimeLock` two locks need two threads
for a cycle, and there are four. A sweep of two descriptors is the shortest
that locks the wallet twice. Five outputs in `RgbUtxos` are a coin, a swept
asset, the two outputs of a `createutxos` that runs while the funding of a
channel with that asset waits, and the funding's change: the shortest history
in which a funding writes an old copy with an asset in it. The amounts in
`ChannelFunding` let either channel be funded with and without change, from
one output or both, and the larger one not at all after a send or the other
channel. With three sends to two blinded outputs, one can be repeated to the
same output, and one that is posted and never broadcast can lie in the
receiver's way before one that is mined. A seed, a monitor and a manager can each be
missing after a crash, so the fourth start is the first that can meet what
three earlier ones left behind. Two polls make rates differ, the third shows
that they agree again.

Runs with `CHECK_DEADLOCK FALSE` are those where the system may really stop:
all swaps settled, everything spent or the bound on outputs or starts reached,
the process ended, or, in `locks`, the program stuck, which is what its
invariants are about.

**Fairness.** The background processor keeps handling events and messages are
delivered (weak fairness of handlers and of the library's steps); HTLCs nobody
resolves time out on chain. `PaymentSent` is strongly fair: a maker that
restarts for ever gets `PaymentClaimed` before it each time. In `RuntimeLock`
lock operations are strongly fair: a lock that is released again and again is
obtained in the end. In `ChannelFunding` an event `ChannelReady` that is queued is handled: the
background processor delivers it, again after a restart, and its handler gets
the runtime in the end if others open and close it (strong fairness); a send
that was begun goes on, and the operator starts an aborted node again. That the
peer sends `channel_ready`, that a funding is mined or that a channel stays open
is not assumed: a funding may stay broadcast, or close, for ever. In
`Connections` only the node's own reconnection task and the steps of a command
that has begun are fair. In `OnchainTransfer` transactions are mined, the
receiver's user goes on calling `refresh` and starts the node again when it
aborted, a refresh that was begun goes on, and the proxy, asked again and again
for the same consignment, serves it at last (strong fairness of the request, not
of the order of the files, which may be the worst one every time). So the
liveness properties assume an operator in these two modules, and nothing about
the peers.

### What the runs show

The passing runs say where things may go wrong as precisely as that they go
right elsewhere:

* A deadlock over the two locks exists, and `DeadlockNeedsColoredFunding` shows
  that main.rs:328 is the one place to change. `RuntimeLostOnlyThere` names the
  six operations whose error exits leave the runtime open, and
  `OperationsFinish` that these two are the only ways in which an operation can
  wait for ever.
* `rgb_utxos` is read before the wallet is locked and written back whole by
  `FundingGenerationReady` (main.rs:258-362), and by commands without any lock.
  Assets can be lost and outputs handed out twice, but only through such an old
  copy, or a crash inside a sweep.
* A funding can fail to cover its channel only if the asset was spent between
  the command's check and the event, and can miss its asset only if the event
  overtakes the command.
* Change is missing from the balance until `ChannelReady`, for good when the
  channel closes before it or when the process ends between a send's broadcast
  and its acceptance, and in no other case (`HiddenChangeHasCause`); once the
  event is there the change comes back unless the runtime was left open
  (`ChangeIsAccepted`).
* `makerexecute` with other terms makes the info file of the payment in flight
  wrong (`InfoWrongOnlyIfRetyped`), and a sale can be forwarded that the taker
  no longer covers, if the asset left after the acceptance
  (`UncoveredOnlyIfSpent`); nothing else does either.
* An on-chain transfer can be claimed whatever was lost on the way; a crash
  between broadcast and acceptance is the one way to lose sight of change. A
  mined transfer is credited in the end unless another file, of a send that was
  posted and never broadcast, aborts every refresh before it: without that
  exception TLC shows the loop (`MinedIsCredited`).
* A crash before the first save of the manager is the one way in which
  `start_ldk` forgets monitors or asset outputs.

**Finding** (violation run `connections_stopped`). The comment at
main.rs:1606-1607 says that disconnecting the peers "ensures we don't continue
updating our channel data after we've stopped the background processor". A
connection attempt that tested `stop_listen_connect` before it was set
completes after `disconnect_all_peers`; its peer's messages then update
channels after the last save.

### Other statements the model refutes

Several modules end with formulas that state what a comment, an `expect` or the
user documentation says, and that TLC refutes within seconds when they are
added to the module's configuration (an INVARIANT, or a PROPERTY for the
temporal ones). They are not runs of their own.

| Formula | Statement | How it fails |
|---|---|---|
| `Swap.ShouldAlwaysBeAValidChannel` | `expect("Should always be a valid channel")`, main.rs:1019, 1024 | a channel force-closed after the interception is not listed |
| `Swap.ForwardShouldBeValid` | `expect("Forward should be valid")`, main.rs:1085 | a channel that is being closed is listed but not usable; the trade has left the whitelist already |
| `Swap.InterceptedHtlcIsHeld` | `fail_intercepted_htlc(..).unwrap()`, main.rs:1036, 1055, 1069 | the HTLC timed out before its event was handled |
| `Swap.SalesAreCovered` | "We are selling assets, do we have enough?", cli.rs:1207 | the answer is used later: the asset leaves the wallet between `taker` and the forward |
| `Payments.SentPaymentIsReported` (with `FairSpec`, `Restarts` and `Resend` FALSE) | tests/common.sh:540 waits for "EVENT: successfully sent payment" | `PaymentSent` is handled before the record is inserted (cli.rs:2054) |
| `RgbUtxos.UtxoFound` | `expect("UTXO found")`, cli.rs:317, 478, 573 | a funding writes an old copy of the file |
| `RgbUtxos.ValidUtxos` | `expect("valid utxos")`, main.rs:277 | a `sendasset` spends the inputs a funding has chosen |
| `RgbUtxos.SweepCanBeRepeated` | `expect("valid utxos")`, main.rs:739, 861 | the event is delivered again after a crash, at every start from then on |
| `ChannelFunding.ColoredIsFundedColored` | src/README.md:207-212, "the RGB amount to allocate to the channel" | `FundingGenerationReady` runs before the info file is written (cli.rs:833) |
| `ChannelFunding.FundingIsCovered` | the balance check, "ERROR: do not have enough RGB assets", cli.rs:787 | nothing is reserved; another channel or a send spends the asset before the event |
| `ChannelFunding.AbleToBroadcast` | `expect("able to broadcast")`, bdk_utils.rs:64 | a funding that is broadcast while the send posts its consignment takes its inputs; or the server does not answer |
| `Connections.RegularlyReconnect` (with `FairSpec`) | "Regularly reconnect to channel peers", main.rs:1524 | one host name that no longer resolves makes the whole file unreadable |
| `OnchainTransfer.RefreshCompletes` | src/README.md:174-175, "once the send operation is complete, call the `refresh` command" | until the transaction is mined, `refresh` warns and keeps the file (cli.rs:661) |
| `Startup.SeedIsWhole` | `assert_eq!(seed.len(), 32)`, main.rs:1203 | a crash between the creation and the write of `keys_seed` |
| `Startup.MonitorsGiven` | "Give ChannelMonitors to ChainMonitor", main.rs:1364 | monitors on disk are dropped when the manager was never saved |
| `Startup.ListInitialisedOnFirstRun` | "initialize RGB UTXOs file on first run", main.rs:1319 | the list is emptied again after a crash before the first save |

The first three of `Swap` need `"close"` or `"timeout"` among the `Faults`, as in
`MCSwap_faults.cfg`; the fourth a balance that falls, as in `MCSwap_edited.cfg`.

## 4. Proofs

All theorems hold for every value of the constants that satisfies the named
assumptions (`SwapTermsAssumption`, `SwapAssumption`, `PaymentsAssumption`,
`RuntimeLockAssumption`, `RgbUtxosAssumption`, `ChannelFundingAssumption`,
`OnchainTransferAssumption`, `ConnectionsAssumption`, `StartupAssumption`,
`BitcoindClientAssumption`): types of the constants and sentinels that are not
values. In particular the bounds on outputs, restarts, sends, starts and polls
are arbitrary. Two assumptions say more than a type. `UTXO_NUM` is positive in
`RgbUtxos`; in the code it is 4 (cli.rs:83). In `ChannelFunding` the
first outputs are numbered `1, 2, ...`, so `Supply` is a sequence; outputs are
only names, so this is no restriction.

* `SwapProofs`, safety: `TypeCorrect`, `HeldHtlcIsOneSidedAlways`,
  `ForwardHonoursDealAlways`, `AcceptanceUsedOnceAlways`, from the invariant
  `IInv`, their conjunction. None is inductive alone: typing needs that a
  payment being claimed has an HTLC pair; the check of `HTLCIntercepted`
  compares a difference that saturates at zero, so it implies that the deal is
  honoured (`CheckIsSufficient`) only for the one-sided pairs the maker builds
  (`SwapHtlcOneSided`). `UncoveredOnlyIfSpentAlways`, an action property, adds
  that every whitelisted sale is covered by the balance or the balance fell
  since its acceptance (`DealsAreCovered`), and then uses that the forward
  honours the deal. `InfoWrongOnlyIfRetypedAlways` holds for strings typed at
  will: the file is right when the payment is sent, and a later `makerexecute`
  either writes the same asset and amount or is noted (`FileDescribes`).
* `SwapProofs`, refinement: `SwapImplementsAtomicSwap`. The refinement mapping
  counts the first leg as the taker's own from the maker's claim of the second
  leg on, because the taker then holds the preimage. `taker` is `Accept`,
  `ForwardSwap` is `Lock`, `PaymentClaimable` is `Settle`, a failure after
  forwarding is `Release`, restarts and panics of the taker are `Restart`;
  every other step leaves the abstract state alone. It rests on `IInv`.
* `PaymentsProofs`: `TypeCorrect`, `SucceededWasPaidAlways`,
  `StuckPendingCameEarlyAlways`. The invariant adds that what the channel
  manager counts as sent was paid, that no command inserts `Succeeded`, and
  that an unfinished command whose payment is over has missed its event.
* `RuntimeLockProofs`: `TypeCorrect`, `DropsOnlyItsOwnAlways`,
  `DeadlockNeedsColoredFundingAlways`, `RuntimeLostOnlyThereAlways`, for any
  number of tasks and of swept outputs. The properties speak of one lock
  operation, a thread's state is a whole path of them. The invariant says that
  the rest of the path is `Lawful` for the locks the thread holds: there is a
  sequence of holdings, from its own to one it may end with, in which every
  lock operation is a legal `Move`; opening the runtime under the wallet is
  legal only for a coloured funding, and ending with the runtime only on an
  error exit of `LeavesRuntimeOpen`. `ProgramsAreLawful` shows it for every
  path of every operation when it starts, and a step takes the first holding
  off. `Lawful` quantifies over the sequences of holdings, which makes it slow
  for TLC: this invariant is only proved.
* `RgbUtxosProofs`: `TypeCorrect`, `LossNeedsStaleCopyOrCrashAlways`,
  `HandedOutOnceAlways`, `AssetsAreListedAlways`, `MarkedIsUsedAlways`. What an
  operation may do to the file and to the chain depends on when it chose its
  outputs, so the invariant follows an output from its number (`Fresh`) over
  the list (`Listing`) and the commands that reserved it (`Reserved`) to the
  transactions that name it (`Chosen`), and says where allocations are
  (`Allocated`). The two threads' copies of the file enter through the wallet's
  mutex (`WalletHeld`), which createutxos and the events keep until they have
  written. Types hold always; all the rest holds until an operation uses a copy
  after the file changed (`stale`), and the proof shows for every write that
  the copy is the file or `stale` is set.
* `ChannelFundingProofs`, the info file: `VanillaOnlyIfHastyAlways`,
  `HiddenChangeHasCauseAlways`. The invariant `IInv` adds that a channel
  without info file still has its command (`FileIsLast`) and that every output
  outside the history belongs to a funding that is not ready, to the send in
  progress or to one that was cut off (`UnknownIsPending`).
* `ChannelFundingProofs`, amounts: `TypeCorrect`, `NothingIsLostAlways`,
  `UncoveredOnlyIfSpentSinceAlways`, from the invariant `AInv`. Fundings and the
  send in progress are treated alike, as `Payers` with a transaction that is
  still to be broadcast: its change output is new and of no other payer
  (`ChangeIsNew`), its inputs hold the amount and the change as long as they are
  unspent (`PendingIsBalanced`), and a balance check is good until the asset is
  spent (`StillCovered`). `Total` is a fold of the community modules, which is a
  recursive definition; that a total exists for every finite set, does not
  depend on the order (`TotalRemove`) and splits over a subset (`TotalSplit`)
  is proved from it through a smallest counterexample, since the induction
  theorems of the library cannot be used.
* `OnchainTransferProofs`: `TypeCorrect`, `PaidIsClaimableAlways`,
  `DoneIsMinedAlways`, `HiddenChangeNeedsCrashAlways`. The invariant ties the
  payer's command to the last transfer made (`PayerInStep`), what the proxy and
  `refresh` hold to the blinded output they hold it under (`ProxyInStep`,
  `RefreshInStep`), and missing change to a command or a crash
  (`MissingChange`).
* `ConnectionsProofs`: `TypeCorrect`, `NoNewAttemptAfterStopAlways`, an action
  property, from `ExitOrder`: when the peers are disconnected the flag is set
  and the command loop, which does not look at it, is over.
* `StartupProofs`, start-up: `TypeCorrect`, `SameKeyAlways`,
  `NothingForgottenOnceSavedAlways`. The invariant describes the disk between
  two starts: a manager belongs to the seed on disk (`OneSeed`), and without an
  early crash a disk without a manager holds nothing else (`DiskIsComplete`).
* `StartupProofs`, Bitcoin Core client: `ClientTypeCorrect`,
  `RatesOfOnePollAlways`, `NeverBelowMinimumAlways`. The invariant `ClientIInv`
  follows the task through its three stores (`StoredInOrder`) and its estimates
  (`EstimatesAreValid`). The names of `BitcoindClient`'s specification
  (`ClientSpec`, ...) differ from those of `Startup` so that one module can
  extend both.

Every invariant that a passing run checks is proved, and so are the action
properties and the refinement. Only model-checked are the liveness properties
(`AgreedSwapSettles`, `SwapEnds`, `ClaimedIsRecorded`, `OperationsFinish`,
`ChangeIsAccepted`, `ChannelPeersAreTried`, `MinedIsCredited`), which depend on
fairness and are out of the prover's reach. The type invariants of
`Connections`, `Startup` and `BitcoindClient` are only proved. No module
declares a recursive operator.

## 5. Not modelled, and what is left

Worth adding next: `RgbUtxos` with an event of several spendable outputs, as
one sweep that fails in the middle; and the safety halves of the liveness
properties (what an operation that has not finished is waiting for).

Not modelled, and not planned: argument parsing, hexadecimal conversion, error
texts, the log, the network graph and the scorer, JSON conversions and RPC
calls without state; they are I/O or formatting. Signing, address derivation,
chain synchronisation, the channel protocol and the validation of consignments
belong to the libraries and appear only through their results. How the amounts
of a swept channel are read from the closing transaction (main.rs:600-735) is
reduced to whether the output carries an asset, and a descriptor that is skipped
because its transfer is not Valid (main.rs:671-673) is no step: its output never
comes to the wallet. In `Startup` a seed file that cannot be read for another
reason than its absence, which main.rs:1202 treats as absence, does not occur.
`ChannelFunding` covers channels of amount zero (cli.rs:762-767) in its
theorems; the instance TLC checks has none. A send of zero finds no input and
aborts before anything changed, which is a restart there.
