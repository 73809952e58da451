---------------------------- MODULE RuntimeLock -----------------------------
(***************************************************************************)
(* The two locks of a node: the RGB runtime of the data directory, taken   *)
(* by get_rgb_runtime and given back by an explicit drop_rgb_runtime, and  *)
(* the mutex of the on-chain wallet, whose guard gives it back at the end  *)
(* of its scope.                                                           *)
(*                                                                         *)
(* The command loop (src/src/cli.rs), the event handler and the tasks the  *)
(* event handler spawns (src/src/main.rs) run concurrently.  Of what they  *)
(* do only the lock operations are kept: an operation is a set of paths, a *)
(* path the sequence of its lock operations from start to end.  `ok' holds *)
(* the paths to the operation's end, `err' those that leave early with an  *)
(* error or a warning.  What decides between them (balances, the proxy,    *)
(* the validity of a transfer) does not depend on the locks.               *)
(***************************************************************************)
EXTENDS Integers, Sequences

CONSTANTS
    Operations,   \* the operations that are started
    Outcomes,     \* which paths they take: a subset of {"ok", "err"}
    Tasks,        \* spawned tasks, at most this many at a time
    MaxOutputs    \* descriptors in one SpendableOutputs event

ASSUME RuntimeLockAssumption ==
    /\ Outcomes \subseteq {"ok", "err"}
    /\ MaxOutputs \in Nat
    /\ {"cli", "events", "free", "nobody"} \cap Tasks = {}

(* Lock operations. *)
GetRuntime == "get_rgb_runtime"
DropRuntime == "drop_rgb_runtime"
LockWallet == "wallet lock"
DropWallet == "wallet guard dropped"

-----------------------------------------------------------------------------
(* Helpers and commands. *)

(* get_asset_owned_values and get_rgb_total_amount: the wallet is synced   *)
(* under its lock, whether or not the contract is known.                   *)
OwnedValues == <<LockWallet, DropWallet>>

(* Balance check of a command: the error exit, taken for an unknown        *)
(* contract, has no drop_rgb_runtime.                                      *)
BalanceOk == <<GetRuntime>> \o OwnedValues \o <<DropRuntime>>
BalanceErr == <<GetRuntime>> \o OwnedValues

listunspent == [ok |-> {<<LockWallet, DropWallet>>}, err |-> {}]

getaddress == [ok |-> {<<LockWallet, DropWallet>>}, err |-> {}]

(* Mutant: a helper that locks the wallet is called under the wallet's lock. *)
createutxosLocksTwice ==
    [ok |-> {<<LockWallet>> \o OwnedValues \o <<DropWallet>>}, err |-> {}]

createutxos == [ok |-> {<<LockWallet, DropWallet>>},
                err |-> {<<LockWallet, DropWallet>>}]

issueasset == [ok |-> {<<GetRuntime, DropRuntime>>}, err |-> {<<>>}]

(* Mutant: the error exit's missing call is missing from the good one. *)
assetbalanceForgets == [ok |-> {BalanceErr}, err |-> {BalanceErr}]

assetbalance == [ok |-> {BalanceOk}, err |-> {BalanceErr}]

(***************************************************************************)
(* sendasset asks twice for the owned values.  It leaves without           *)
(* drop_rgb_runtime when the contract is unknown, the balance too low or   *)
(* the blinded UTXO malformed; when there is no UTXO for the change; and   *)
(* when the consignment cannot be posted, with the wallet locked.          *)
(***************************************************************************)
SendAssetInputs == <<GetRuntime>> \o OwnedValues \o OwnedValues

(* Mutant: the transaction is prepared before the runtime is opened. *)
sendassetWalletFirst ==
    [ok  |-> {<<LockWallet, GetRuntime, DropRuntime, DropWallet>>},
     err |-> {BalanceErr}]

sendasset ==
    [ok  |-> {SendAssetInputs \o <<LockWallet, DropRuntime, DropWallet>>},
     err |-> {BalanceErr,
              SendAssetInputs,
              SendAssetInputs \o <<LockWallet, DropWallet>>}]

(* Mutant: the runtime is given back a second time. *)
receiveassetDropsTwice ==
    [ok |-> {<<GetRuntime, DropRuntime, DropRuntime>>}, err |-> {<<>>}]

receiveasset == [ok |-> {<<GetRuntime, DropRuntime>>}, err |-> {<<>>}]

(* One pending blinded UTXO per refresh: not there yet, not valid, done. *)
refresh ==
    [ok  |-> {<<>>, <<GetRuntime, DropRuntime, LockWallet, DropWallet>>},
     err |-> {<<>>, <<GetRuntime, DropRuntime>>}]

(* open_channel syncs the wallet before create_channel. *)
open_channel == <<LockWallet, DropWallet>>

openchannel == [ok |-> {open_channel}, err |-> {<<>>, open_channel}]

opencoloredchannel ==
    [ok  |-> {BalanceOk \o open_channel},
     err |-> {BalanceErr, BalanceOk, BalanceOk \o open_channel}]

(* A sale needs no balance check. *)
makerinit == [ok |-> {<<>>, BalanceOk}, err |-> {BalanceErr, BalanceOk}]

taker == [ok |-> {<<>>, BalanceOk}, err |-> {<<>>, BalanceErr, BalanceOk}]

-----------------------------------------------------------------------------
(* Events and the task of a funded channel. *)

FundingVanilla == [ok |-> {<<LockWallet, DropWallet>>}, err |-> {}]

(* A colored channel is funded in two rounds; in the second the runtime is *)
(* opened while the wallet is locked.                                      *)
FundingColored ==
    [ok  |-> {BalanceOk \o <<LockWallet, GetRuntime, DropRuntime, DropWallet>>},
     err |-> {}]

(* The spawned task: the proxy refuses the consignment, or it is invalid   *)
(* and the task returns with the runtime open.                             *)
FundingTask == [ok |-> {<<GetRuntime, DropRuntime>>},
                err |-> {<<>>, <<GetRuntime>>}]

(* A sweep locks the wallet once per descriptor it does not skip. *)
SpendableOutputs ==
    [ok  |-> {<<GetRuntime>>
               \o [i \in 1 .. 2 * n |->
                     IF i % 2 = 1 THEN LockWallet ELSE DropWallet]
               \o <<DropRuntime>> : n \in 0 .. MaxOutputs},
     err |-> {}]

ChannelReady == [ok |-> {<<>>, <<GetRuntime, DropRuntime>>}, err |-> {}]

Programs ==
    [listunspent |-> listunspent, getaddress |-> getaddress,
     createutxos |-> createutxos, issueasset |-> issueasset,
     assetbalance |-> assetbalance, sendasset |-> sendasset,
     receiveasset |-> receiveasset, refresh |-> refresh,
     openchannel |-> openchannel, opencoloredchannel |-> opencoloredchannel,
     makerinit |-> makerinit, taker |-> taker,
     FundingVanilla |-> FundingVanilla, FundingColored |-> FundingColored,
     FundingTask |-> FundingTask, SpendableOutputs |-> SpendableOutputs,
     ChannelReady |-> ChannelReady]

Events == {"FundingVanilla", "FundingColored", "SpendableOutputs",
           "ChannelReady"}

Commands == DOMAIN Programs \ (Events \cup {"FundingTask"})

-----------------------------------------------------------------------------
VARIABLES
    runtime,   \* who opened the RGB runtime, "free", or "nobody": left open
    wallet,    \* who holds the wallet's mutex, or "free"
    op,        \* what each thread is doing, "idle" between operations
    exit,      \* how its operation will end, "ok" or "err"
    todo,      \* its remaining lock operations
    lost       \* history: the operation that left the runtime open, its exit

vars == <<runtime, wallet, op, exit, todo, lost>>

Threads == {"cli", "events"} \cup Tasks

NotLost == <<>>

TypeOK ==
    /\ runtime \in Threads \cup {"free", "nobody"}
    /\ wallet \in Threads \cup {"free"}
    /\ op \in [Threads -> DOMAIN Programs \cup {"idle"}]
    /\ \A t \in Threads :
         todo[t] \in Seq({GetRuntime, DropRuntime, LockWallet, DropWallet})
    /\ exit \in [Threads -> {"ok", "err"}]
    /\ lost \in ((DOMAIN Programs) \X {"ok", "err"}) \cup {NotLost}

Init ==
    /\ runtime = "free"
    /\ wallet = "free"
    /\ op = [t \in Threads |-> "idle"]
    /\ exit = [t \in Threads |-> "ok"]
    /\ todo = [t \in Threads |-> <<>>]
    /\ lost = NotLost

IdleTasks == {t \in Tasks : op[t] = "idle"}

(* The command loop reads the next command, the background processor hands *)
(* the next event to handle_ldk_events: one at a time each.                *)
Start(t, o, k, path) ==
    /\ op[t] = "idle"
    /\ o = "FundingColored" => IdleTasks # {}     \* bound on spawned tasks
    /\ op' = [op EXCEPT ![t] = o]
    /\ exit' = [exit EXCEPT ![t] = k]
    /\ todo' = [todo EXCEPT ![t] = path]
    /\ UNCHANGED <<runtime, wallet, lost>>

Consume(t) == todo' = [todo EXCEPT ![t] = Tail(@)]

Wants(t, step) == op[t] # "idle" /\ todo[t] # <<>> /\ Head(todo[t]) = step

(* External: get_rgb_runtime waits until the runtime is free. *)
get_rgb_runtime(t) ==
    /\ Wants(t, GetRuntime)
    /\ runtime = "free"
    /\ runtime' = t
    /\ Consume(t)
    /\ UNCHANGED <<wallet, op, exit, lost>>

drop_rgb_runtime(t) ==
    /\ Wants(t, DropRuntime)
    /\ runtime' = "free"
    /\ Consume(t)
    /\ UNCHANGED <<wallet, op, exit, lost>>

lock_wallet(t) ==
    /\ Wants(t, LockWallet)
    /\ wallet = "free"
    /\ wallet' = t
    /\ Consume(t)
    /\ UNCHANGED <<runtime, op, exit, lost>>

(* Mutant: the guard is forgotten like the runtime is. *)
forget_wallet(t) ==
    /\ Wants(t, DropWallet)
    /\ wallet' = "nobody"
    /\ Consume(t)
    /\ UNCHANGED <<runtime, op, exit, lost>>

drop_wallet(t) ==
    /\ Wants(t, DropWallet)
    /\ wallet' = "free"
    /\ Consume(t)
    /\ UNCHANGED <<runtime, op, exit, lost>>

(* The operation returns; a runtime it did not drop stays open for ever.   *)
(* Funding a colored channel leaves a task behind.                         *)
Return(t) ==
    /\ op[t] # "idle" /\ todo[t] = <<>>
    /\ runtime' = IF runtime = t THEN "nobody" ELSE runtime
    /\ lost' = IF runtime = t THEN <<op[t], exit[t]>> ELSE lost
    /\ IF op[t] = "FundingColored"
       THEN \E task \in IdleTasks, k \in Outcomes :
              \E path \in FundingTask[k] :
                /\ op' = [op EXCEPT ![t] = "idle", ![task] = "FundingTask"]
                /\ exit' = [exit EXCEPT ![t] = "ok", ![task] = k]
                /\ todo' = [todo EXCEPT ![task] = path]
       ELSE /\ op' = [op EXCEPT ![t] = "idle"]
            /\ exit' = [exit EXCEPT ![t] = "ok"]
            /\ UNCHANGED todo
    /\ UNCHANGED wallet

LockStep(t) ==
    get_rgb_runtime(t) \/ drop_rgb_runtime(t) \/ lock_wallet(t) \/ drop_wallet(t)

Next ==
    \/ \E o \in Operations \cap Commands, k \in Outcomes :
         \E path \in Programs[o][k] : Start("cli", o, k, path)
    \/ \E o \in Operations \cap Events, k \in Outcomes :
         \E path \in Programs[o][k] : Start("events", o, k, path)
    \/ \E t \in Threads : LockStep(t) \/ Return(t)

Spec == Init /\ [][Next]_vars

(* Threads run on, and a lock that keeps being released is obtained in the *)
(* end by whoever waits for it.                                            *)
Fairness ==
    \A t \in Threads : SF_vars(LockStep(t)) /\ WF_vars(Return(t))

FairSpec == Spec /\ Fairness

-----------------------------------------------------------------------------
(* Properties. *)

(* Two threads wait for each other's lock. *)
WaitCycle(t, u) ==
    /\ runtime = t /\ Wants(t, LockWallet)
    /\ wallet = u /\ Wants(u, GetRuntime)

(* All of the program but one place takes the runtime before the wallet: a *)
(* deadlock over the two locks always has FundingGenerationReady of a      *)
(* colored channel, at main.rs:328, as the holder of the wallet.           *)
DeadlockNeedsColoredFunding ==
    \A t, u \in Threads : WaitCycle(t, u) => op[u] = "FundingColored"

(* A thread releases only what it holds: no operation drops the runtime or *)
(* the wallet while another one is using it.                               *)
DropsOnlyItsOwn ==
    \A t \in Threads : /\ Wants(t, DropRuntime) => runtime = t
                       /\ Wants(t, DropWallet) => wallet = t

(* The operations that can leave the runtime open are these; every other   *)
(* one, and every one of these when it succeeds, gives it back.            *)
LeavesRuntimeOpen ==
    {"assetbalance", "sendasset", "opencoloredchannel", "makerinit", "taker",
     "FundingTask"}

RuntimeLostOnlyThere ==
    runtime = "nobody" => lost \in LeavesRuntimeOpen \X {"err"}

(* However commands, events and tasks interleave, every operation finishes *)
(* unless one of them has left the runtime open or two of them wait for    *)
(* each other's lock: nothing else can keep a thread waiting for ever.     *)
OperationsFinish ==
    \A t \in Threads :
      op[t] # "idle" ~> \/ op[t] = "idle" \/ runtime = "nobody"
                       \/ \E u, v \in Threads : WaitCycle(u, v)
=============================================================================
