------------------------------ MODULE RgbUtxos ------------------------------
(***************************************************************************)
(* The outputs a node keeps for assets.                                    *)
(*                                                                         *)
(* The file rgb_utxos lists the wallet's outputs that must not be spent    *)
(* for their satoshis, each coloured (used by an asset) or not.  Commands  *)
(* (src/src/cli.rs) and events (src/src/main.rs) read it, change their     *)
(* copy and write the copy back; some hold the wallet's mutex or the RGB   *)
(* runtime meanwhile, some neither.  Every read and every write of the     *)
(* file is a step here, and so is everything that waits for a lock.        *)
(*                                                                         *)
(* Outputs are numbered in the order in which transactions create them,    *)
(* which is the order of the file.  Amounts are left out: which inputs a   *)
(* transfer needs and whether it has change is chosen freely.  A panic     *)
(* aborts the process (Cargo.toml, panic = "abort").                       *)
(***************************************************************************)
EXTENDS Integers

CONSTANTS
    Contracts,    \* RGB contracts
    NoAsset,      \* the contract of a vanilla channel
    Coins,        \* outputs 1 .. Coins are the wallet's first satoshis
    MaxOut,       \* bound: no output beyond this one is created
    UTXO_NUM,     \* outputs for assets that createutxos makes
    MaxCrashes    \* bound on restarts

ASSUME RgbUtxosAssumption ==
    /\ NoAsset \notin Contracts
    /\ Coins \in Nat /\ MaxOut \in Nat /\ UTXO_NUM \in Nat \ {0} /\ MaxCrashes \in Nat
    /\ Coins <= MaxOut

VARIABLES
    file,       \* rgb_utxos: [listed, colored], sets of outputs
    unspent,    \* the wallet's outputs that no broadcast transaction spends
    view,       \* the same, as of the wallet's last sync
    holds,      \* holds[o]: the contracts with an allocation on o
    promised,   \* outputs whose blinded form was handed to a payer
    issued,     \* contracts issued here
    next,       \* the next output's number
    opening,    \* channels that LDK will ask to fund
    pending,    \* funding transactions given to LDK or on their way there
    wallet,     \* holder of the wallet's mutex, or "free"
    runtime,    \* holder of the RGB runtime, "free", or "nobody": left open
    thread,     \* what "cli" and "events" are doing
    panic,      \* the assertion that failed, or "none"
    crashes,
    unsaved,    \* a sweep LDK has not saved as handled: "no", "swept", "again"
    stale,      \* history: a copy was used or written after the file changed
    reused,     \* history: an output was marked for an asset a second time
    wasted,     \* history: outputs marked for the change of a failed send
    orphaned,   \* history: swept assets that a crash kept off the list
    burnt       \* history: an allocation was lost

chain == <<unspent, holds, burnt>>
seals == <<promised, issued>>
ldk == <<opening, pending>>
locks == <<wallet, runtime>>
faults == <<panic, crashes, unsaved, orphaned>>
marks == <<reused, wasted>>
vars == <<file, chain, view, seals, next, ldk, locks, thread, faults, stale, marks>>

Outs == 1 .. MaxOut
Kinds == Contracts \cup {NoAsset}
Threads == {"cli", "events"}
Files == {f \in [listed : SUBSET Outs, colored : SUBSET Outs] :
            f.colored \subseteq f.listed}
Fundings == [kind : Kinds, picked : SUBSET Outs, inputs : SUBSET Outs,
             out : Outs, change : BOOLEAN]
Steps == {"idle", "create", "created", "check", "get", "mark", "write", "seal",
          "build", "post", "read", "fund", "send", "swept", "sweptread"}
Commands == {"none", "createutxos", "issueasset", "receiveasset", "sendasset",
             "funding", "sweep"}
Panics == {"none", "at least one unlocked UTXO", "UTXO found", "valid utxos",
           "valid psbt finish", "able to broadcast", "subtract with overflow",
           "valid utxos of a sweep"}

(* Local variables of an operation. *)
Frames == [at : Steps, op : Commands, kind : Kinds, copy : Files, out : 0 .. MaxOut,
           picked : SUBSET Outs, inputs : SUBSET Outs, change : BOOLEAN]

NoFile == [listed |-> {}, colored |-> {}]

Idle == [at |-> "idle", op |-> "none", kind |-> NoAsset, copy |-> NoFile, out |-> 0,
         picked |-> {}, inputs |-> {}, change |-> FALSE]

TypeOK ==
    /\ file \in Files
    /\ unspent \in SUBSET Outs
    /\ view \in SUBSET Outs
    /\ holds \in [Outs -> SUBSET Contracts]
    /\ promised \in SUBSET Outs
    /\ issued \in SUBSET Contracts
    /\ next \in 1 .. MaxOut + 1
    /\ opening \in SUBSET Kinds
    /\ pending \in SUBSET Fundings
    /\ wallet \in Threads \cup {"free"}
    /\ runtime \in Threads \cup {"free", "nobody"}
    /\ thread \in [Threads -> Frames]
    /\ panic \in Panics
    /\ crashes \in 0 .. MaxCrashes
    /\ unsaved \in {"no", "swept", "again"}
    /\ stale \in BOOLEAN
    /\ reused \in BOOLEAN /\ wasted \in SUBSET Outs
    /\ orphaned \in SUBSET Outs
    /\ burnt \in BOOLEAN

(* The file is created empty on the first start (main.rs). *)
Init ==
    /\ file = NoFile
    /\ unspent = 1 .. Coins /\ view = 1 .. Coins
    /\ holds = [o \in Outs |-> {}]
    /\ promised = {} /\ issued = {}
    /\ next = Coins + 1
    /\ opening = {} /\ pending = {}
    /\ wallet = "free" /\ runtime = "free"
    /\ thread = [t \in Threads |-> Idle]
    /\ panic = "none" /\ crashes = 0
    /\ unsaved = "no" /\ stale = FALSE
    /\ reused = FALSE /\ wasted = {} /\ orphaned = {} /\ burnt = FALSE

-----------------------------------------------------------------------------
(* Helpers. *)

Running(t, at) == panic = "none" /\ thread[t].at = at

Goto(t, at) == thread' = [thread EXCEPT ![t].at = at]

Finish(t) == thread' = [thread EXCEPT ![t] = Idle]

(* An expect() that fails. *)
Abort(message) ==
    /\ panic' = message
    /\ UNCHANGED <<file, chain, view, seals, next, ldk, locks, thread, crashes,
                   unsaved, orphaned, stale, marks>>

Uncolored(f) == f.listed \ f.colored

Push(f, outs, asset) ==
    [listed |-> f.listed \cup outs,
     colored |-> IF asset THEN f.colored \cup outs ELSE f.colored]

NotesStale(t) == stale' = (stale \/ thread[t].copy # file)

Owned(kind) == {o \in unspent : kind \in holds[o]}

(***************************************************************************)
(* A broadcast transaction spends `inputs' and creates `outs'.  The        *)
(* allocations of `kind' on `picked' move, to `dest' if it is not 0 and to *)
(* someone else's output otherwise; every other allocation on an input is  *)
(* lost, and so is one that arrives on an output that is spent.            *)
(***************************************************************************)
Transact(inputs, outs, picked, kind, dest) ==
    LET after == (unspent \ inputs) \cup outs IN
    /\ unspent' = after
    /\ holds' = [o \in Outs |->
                   IF o \in inputs THEN {}
                   ELSE IF o = dest /\ o \in after THEN holds[o] \cup {kind}
                   ELSE holds[o]]
    /\ burnt' = \/ burnt
                \/ \E o \in inputs : \E c \in holds[o] : ~(o \in picked /\ c = kind)
                \/ dest # 0 /\ dest \notin after

-----------------------------------------------------------------------------
(* createutxos: the wallet is locked throughout. *)

(* Mutant: the file is not consulted. *)
SpendableByAnyone(f) == view

(* Coins a transaction may take besides the ones it names. *)
Spendable(f) == view \ f.listed

CreateRead ==
    /\ Running("cli", "idle") /\ wallet = "free"
    /\ view' = unspent
    /\ \/ /\ unspent \ file.listed # {}
          /\ next + UTXO_NUM <= MaxOut                \* bound on outputs
          /\ wallet' = "cli"
          /\ thread' = [thread EXCEPT !["cli"] =
                          [Idle EXCEPT !.at = "create", !.op = "createutxos",
                                       !.copy = file]]
       \/ /\ unspent \ file.listed = {}               \* not enough funds
          /\ UNCHANGED <<wallet, thread>>
    /\ UNCHANGED <<file, chain, seals, next, ldk, runtime, faults, stale, marks>>

(* The new outputs come first, the change of the transaction last. *)
CreateBroadcast ==
    LET me == thread["cli"] IN
    /\ Running("cli", "create")
    /\ \E coin \in Spendable(me.copy) :
         IF coin \notin unspent
         THEN Abort("able to broadcast")
         ELSE /\ next + UTXO_NUM <= MaxOut            \* bound on outputs
              /\ Transact({coin}, next .. next + UTXO_NUM, {}, NoAsset, 0)
              /\ next' = next + UTXO_NUM + 1
              /\ thread' = [thread EXCEPT !["cli"].at = "created",
                                          !["cli"].out = next]
              /\ NotesStale("cli")
              /\ UNCHANGED <<file, view, seals, ldk, locks, faults, marks>>

CreateWrite ==
    LET me == thread["cli"] IN
    /\ Running("cli", "created")
    /\ file' = Push(me.copy, me.out .. me.out + UTXO_NUM - 1, FALSE)
    /\ view' = unspent
    /\ wallet' = "free"
    /\ Finish("cli")
    /\ NotesStale("cli")
    /\ UNCHANGED <<chain, seals, next, ldk, runtime, faults, marks>>

-----------------------------------------------------------------------------
(***************************************************************************)
(* issueasset, receiveasset and the change of sendasset need an output:    *)
(* check_uncolored_utxos looks whether there is one, get_utxo takes the    *)
(* first, and the command reads the file a third time to mark it.          *)
(***************************************************************************)
issueasset(c) ==
    /\ Running("cli", "idle")
    /\ c \notin issued
    /\ thread' = [thread EXCEPT !["cli"] =
                    [Idle EXCEPT !.at = "check", !.op = "issueasset", !.kind = c]]
    /\ UNCHANGED <<file, chain, view, seals, next, ldk, locks, faults, stale, marks>>

receiveasset ==
    /\ Running("cli", "idle")
    /\ thread' = [thread EXCEPT !["cli"] =
                    [Idle EXCEPT !.at = "check", !.op = "receiveasset"]]
    /\ UNCHANGED <<file, chain, view, seals, next, ldk, locks, faults, stale, marks>>

(* sendasset leaves its runtime open when there is no output. *)
check_uncolored_utxos ==
    /\ Running("cli", "check")
    /\ IF Uncolored(file) # {}
       THEN Goto("cli", "get") /\ UNCHANGED runtime
       ELSE /\ Finish("cli")
            /\ runtime' = IF runtime = "cli" THEN "nobody" ELSE runtime
    /\ UNCHANGED <<file, chain, view, seals, next, ldk, wallet, faults, stale, marks>>

get_utxo ==
    /\ Running("cli", "get")
    /\ \/ /\ Uncolored(file) = {}
          /\ Abort("at least one unlocked UTXO")
       \/ \E o \in Uncolored(file) :
            /\ \A p \in Uncolored(file) : o <= p
            /\ thread' = [thread EXCEPT !["cli"].at = "mark", !["cli"].out = o]
            /\ UNCHANGED <<file, chain, view, seals, next, ldk, locks, faults,
                           stale, marks>>

(* Mutant: the output is marked whether the file has it or not. *)
MarkReadUnchecked ==
    /\ Running("cli", "mark")
    /\ thread' = [thread EXCEPT !["cli"].at = "write", !["cli"].copy = file]
    /\ UNCHANGED <<file, chain, view, seals, next, ldk, locks, faults, stale, marks>>

MarkRead ==
    LET me == thread["cli"] IN
    /\ Running("cli", "mark")
    /\ IF me.out \notin file.listed
       THEN Abort("UTXO found")
       ELSE /\ thread' = [thread EXCEPT !["cli"].at = "write", !["cli"].copy = file]
            /\ UNCHANGED <<file, chain, view, seals, next, ldk, locks, faults,
                           stale, marks>>

(* Mutant: the output is not marked. *)
MarkForgotten(f, o) == f

Mark(f, o) == [f EXCEPT !.colored = @ \cup {o}]

MarkWrite ==
    LET me == thread["cli"] IN
    /\ Running("cli", "write")
    /\ file' = Mark(me.copy, me.out)
    /\ reused' = (\/ reused \/ me.out \in promised \/ holds[me.out] # {}
                  \/ me.out \notin unspent)
    /\ NotesStale("cli")
    /\ Goto("cli", IF me.op = "sendasset" THEN "build" ELSE "seal")
    /\ UNCHANGED <<chain, view, seals, next, ldk, locks, faults, wasted>>

(* Mutant: the seal is not kept. *)
PromiseForgotten(o) == promised' = promised

(* store_seal_secret and the blinded file keep the seal for a payer. *)
Promise(o) == promised' = promised \cup {o}

(* The supply is put on the output, whether it is unspent or not. *)
issue_contract(c, o) == Transact({}, {}, {}, c, o)

(* The output is used for the supply, or promised to a payer. *)
Seal ==
    LET me == thread["cli"] IN
    /\ Running("cli", "seal") /\ runtime = "free"
    /\ \/ /\ me.op = "issueasset"
          /\ issued' = issued \cup {me.kind}
          /\ issue_contract(me.kind, me.out)
          /\ UNCHANGED promised
       \/ /\ me.op = "receiveasset"
          /\ Promise(me.out)
          /\ UNCHANGED <<chain, issued>>
    /\ Finish("cli")
    /\ UNCHANGED <<file, view, next, ldk, locks, faults, stale, marks>>

(* External: a payer's transaction is mined and refresh accepts it. *)
TransferArrives(o, c) ==
    /\ o \in promised
    /\ promised' = promised \ {o}
    /\ Transact({}, {}, {}, c, o)
    /\ UNCHANGED <<file, view, issued, next, ldk, locks, thread, faults, stale,
                   marks>>

-----------------------------------------------------------------------------
(***************************************************************************)
(* sendasset holds the runtime from its first step.                        *)
(***************************************************************************)

(* The wallet is synced under its lock, the inputs are chosen among what   *)
(* it owns.  An unknown contract or too low a balance leaves the runtime   *)
(* open.                                                                   *)
SendSelect(c) ==
    /\ Running("cli", "idle") /\ runtime = "free" /\ wallet = "free"
    /\ next <= MaxOut                                 \* bound on outputs
    /\ view' = unspent
    /\ \/ /\ runtime' = "nobody"
          /\ UNCHANGED thread
       \/ \E picked \in SUBSET Owned(c) \ {{}}, change \in BOOLEAN :
            /\ runtime' = "cli"
            /\ thread' = [thread EXCEPT !["cli"] =
                 [Idle EXCEPT !.at = IF change THEN "check" ELSE "build",
                              !.op = "sendasset", !.kind = c, !.picked = picked,
                              !.change = change]]
    /\ UNCHANGED <<file, chain, seals, next, ldk, wallet, faults, stale, marks>>

(* add_utxos knows the outputs the wallet saw at its last sync. *)
SendBuild ==
    LET me == thread["cli"] IN
    /\ Running("cli", "build") /\ wallet = "free"
    /\ IF ~ me.picked \subseteq view
       THEN Abort("valid utxos")
       ELSE /\ wallet' = "cli"
            /\ Goto("cli", "post")
            /\ UNCHANGED <<file, chain, view, seals, next, ldk, runtime, faults,
                           stale, marks>>

(* The consignment is posted first.  If that fails the command ends with   *)
(* the runtime open and the change's output marked.                        *)
SendPost ==
    LET me == thread["cli"] IN
    /\ Running("cli", "post")
    /\ \/ /\ runtime' = "nobody" /\ wallet' = "free"
          /\ wasted' = wasted \cup (IF me.change THEN {me.out} ELSE {})
          /\ Finish("cli")
          /\ UNCHANGED <<file, chain, view, seals, next, ldk, faults, stale, reused>>
       \/ /\ ~ me.picked \subseteq unspent
          /\ Abort("able to broadcast")
       \/ /\ me.picked \subseteq unspent
          /\ next <= MaxOut                           \* bound on outputs
          /\ Transact(me.picked, {next}, me.picked, me.kind, me.out)
          /\ next' = next + 1
          /\ view' = unspent'
          /\ runtime' = "free" /\ wallet' = "free"
          /\ Finish("cli")
          /\ UNCHANGED <<file, seals, ldk, faults, stale, marks>>

-----------------------------------------------------------------------------
(***************************************************************************)
(* Channels: openchannel and opencoloredchannel, then the event            *)
(* FundingGenerationReady.                                                 *)
(***************************************************************************)

(* open_channel syncs the wallet; a coloured channel needs a balance. *)
open_channel(kind) ==
    /\ Running("cli", "idle") /\ wallet = "free"
    /\ kind # NoAsset => runtime = "free" /\ Owned(kind) # {}
    /\ next <= MaxOut                                 \* bound on outputs
    /\ view' = unspent
    /\ opening' = opening \cup {kind}
    /\ UNCHANGED <<file, chain, seals, next, pending, locks, thread, faults,
                   stale, marks>>

(* The asset's inputs are chosen with the runtime open, which is closed    *)
(* again.  With nothing left to choose from the change is negative.        *)
FundingSelect(kind) ==
    /\ Running("events", "idle") /\ unsaved # "again"
    /\ kind \in opening
    /\ \/ /\ kind = NoAsset
          /\ opening' = opening \ {kind}
          /\ thread' = [thread EXCEPT !["events"] =
                          [Idle EXCEPT !.at = "read", !.op = "funding"]]
          /\ UNCHANGED <<file, chain, view, seals, next, pending, locks, faults,
                         stale, marks>>
       \/ /\ kind # NoAsset /\ runtime = "free" /\ wallet = "free"
          /\ Owned(kind) = {}
          /\ Abort("subtract with overflow")
       \/ /\ kind # NoAsset /\ runtime = "free" /\ wallet = "free"
          /\ opening' = opening \ {kind}
          /\ view' = unspent
          /\ \E picked \in SUBSET Owned(kind) \ {{}}, change \in BOOLEAN :
               thread' = [thread EXCEPT !["events"] =
                 [Idle EXCEPT !.at = "read", !.op = "funding", !.kind = kind,
                              !.picked = picked, !.change = change]]
          /\ UNCHANGED <<file, chain, seals, next, pending, locks, faults,
                         stale, marks>>

(* The file is read before the wallet is locked. *)
FundingRead ==
    /\ Running("events", "read")
    /\ thread' = [thread EXCEPT !["events"].at = "fund", !["events"].copy = file]
    /\ UNCHANGED <<file, chain, view, seals, next, ldk, locks, faults, stale, marks>>

unspendable_utxos(f, picked) == f.listed \ (picked \cap f.colored)

(* Coin selection adds at most one coin here; a vanilla channel needs one. *)
FundingBuild ==
    LET me == thread["events"]
        coins == view \ (unspendable_utxos(me.copy, me.picked) \cup me.picked)
    IN
    /\ Running("events", "fund") /\ wallet = "free"
    /\ next <= MaxOut                                 \* bound on outputs
    /\ \/ /\ ~ me.picked \subseteq view
          /\ Abort("valid utxos")
       \/ /\ me.picked = {} /\ coins = {}
          /\ Abort("valid psbt finish")
       \/ /\ me.picked \subseteq view
          /\ \E extra \in {{}} \cup {{o} : o \in coins} :
               /\ me.picked \cup extra # {}
               /\ thread' = [thread EXCEPT
                    !["events"].at = "send", !["events"].out = next,
                    !["events"].inputs = me.picked \cup extra]
          /\ next' = next + 1
          /\ wallet' = "events"
          /\ NotesStale("events")
          /\ UNCHANGED <<file, chain, view, seals, ldk, runtime, faults, marks>>

(* send_rgb needs the runtime.  The change goes to the transaction's own   *)
(* output; it is added to the copy, and the copy written.                  *)
FundingSend ==
    LET me == thread["events"] IN
    /\ Running("events", "send")
    /\ me.kind # NoAsset => runtime = "free"
    /\ IF me.change
       THEN file' = Push(me.copy, {me.out}, TRUE) /\ NotesStale("events")
       ELSE UNCHANGED <<file, stale>>
    /\ pending' = pending \cup
         {[kind |-> me.kind, picked |-> me.picked, inputs |-> me.inputs,
           out |-> me.out, change |-> me.change]}
    /\ wallet' = "free"
    /\ Finish("events")
    /\ UNCHANGED <<chain, view, seals, next, opening, runtime, faults, marks>>

(* The spawned task cannot post the consignment, finds it invalid, or the  *)
(* channel went away: the transaction is never broadcast.                  *)
FundingAbandoned(f) ==
    /\ f \in pending
    /\ pending' = pending \ {f}
    /\ UNCHANGED <<file, chain, view, seals, next, opening, locks, thread,
                   faults, stale, marks>>

(* External: LDK broadcasts a funding once the peer has signed.  The task  *)
(* lets only balanced transfers through.                                   *)
FundingBroadcast(f) ==
    /\ f \in pending
    /\ f.inputs \subseteq unspent
    /\ \A o \in f.inputs \ f.picked : f.kind \notin holds[o]
    /\ pending' = pending \ {f}
    /\ Transact(f.inputs, {f.out}, f.picked, f.kind, IF f.change THEN f.out ELSE 0)
    /\ UNCHANGED <<file, view, seals, next, opening, locks, thread, faults,
                   stale, marks>>

-----------------------------------------------------------------------------
(* SpendableOutputs: a channel with or without asset is swept into the     *)
(* wallet; both locks are held until the output is listed.  A descriptor   *)
(* whose transfer is not Valid is skipped with a warning (main.rs:671):    *)
(* that is no step here, its output never comes to the wallet.             *)
SweepBroadcast(kind) ==
    /\ Running("events", "idle") /\ unsaved = "no"
    /\ runtime = "free" /\ wallet = "free"
    /\ next <= MaxOut                                 \* bound on outputs
    /\ Transact({}, {next}, {}, kind, IF kind = NoAsset THEN 0 ELSE next)
    /\ next' = next + 1
    /\ view' = unspent'
    /\ unsaved' = "swept"
    /\ IF kind = NoAsset
       THEN UNCHANGED <<locks, thread>>
       ELSE /\ runtime' = "events" /\ wallet' = "events"
            /\ thread' = [thread EXCEPT !["events"] =
                 [Idle EXCEPT !.at = "swept", !.op = "sweep", !.kind = kind,
                              !.out = next]]
    /\ UNCHANGED <<file, seals, ldk, panic, crashes, orphaned, stale, marks>>

SweepRead ==
    /\ Running("events", "swept")
    /\ thread' = [thread EXCEPT !["events"].at = "sweptread",
                                !["events"].copy = file]
    /\ UNCHANGED <<file, chain, view, seals, next, ldk, locks, faults, stale, marks>>

SweepWrite ==
    LET me == thread["events"] IN
    /\ Running("events", "sweptread")
    /\ file' = Push(me.copy, {me.out}, TRUE)
    /\ NotesStale("events")
    /\ wallet' = "free" /\ runtime' = "free"
    /\ Finish("events")
    /\ UNCHANGED <<chain, view, seals, next, ldk, faults, marks>>

(* External: the background processor saves the channel manager. *)
ManagerSaved ==
    /\ Running("events", "idle") /\ unsaved = "swept"
    /\ unsaved' = "no"
    /\ UNCHANGED <<file, chain, view, seals, next, ldk, locks, thread, panic,
                   crashes, orphaned, stale, marks>>

(* The event comes again: its output is spent, which add_utxos or          *)
(* broadcast_tx reports.                                                   *)
SweepAgain ==
    /\ Running("events", "idle") /\ unsaved = "again"
    /\ runtime = "free" /\ wallet = "free"
    /\ Abort("valid utxos of a sweep")

(* The process dies, of a panic or otherwise, and starts again.  Channels  *)
(* that were not funded are forgotten; a funding may still be broadcast.   *)
Restart ==
    /\ crashes < MaxCrashes
    /\ crashes' = crashes + 1
    /\ panic' = "none"
    /\ thread' = [t \in Threads |-> Idle]
    /\ wallet' = "free" /\ runtime' = "free"
    /\ opening' = {}
    /\ unsaved' = IF unsaved = "swept" THEN "again" ELSE unsaved
    /\ orphaned' = IF thread["events"].op = "sweep"
                   THEN orphaned \cup {thread["events"].out} ELSE orphaned
    /\ UNCHANGED <<file, chain, view, seals, next, pending, stale, marks>>

-----------------------------------------------------------------------------
Next ==
    \/ CreateRead \/ CreateBroadcast \/ CreateWrite
    \/ \E c \in Contracts : issueasset(c)
    \/ receiveasset
    \/ check_uncolored_utxos \/ get_utxo \/ MarkRead \/ MarkWrite \/ Seal
    \/ \E o \in Outs, c \in Contracts : TransferArrives(o, c)
    \/ \E c \in Contracts : SendSelect(c)
    \/ SendBuild \/ SendPost
    \/ \E kind \in Kinds : open_channel(kind) \/ FundingSelect(kind)
    \/ FundingRead \/ FundingBuild \/ FundingSend
    \/ \E f \in pending : FundingAbandoned(f) \/ FundingBroadcast(f)
    \/ \E kind \in Kinds : SweepBroadcast(kind)
    \/ SweepRead \/ SweepWrite \/ ManagerSaved \/ SweepAgain
    \/ Restart

Spec == Init /\ [][Next]_vars

-----------------------------------------------------------------------------
(* Properties. *)

(* An asset is lost, spent for its satoshis or put on a spent output, only *)
(* if some operation used a copy of rgb_utxos after the file had changed,  *)
(* or a crash came between the broadcast of a sweep (main.rs:896) and the  *)
(* write that lists its output (main.rs:911).                              *)
LossNeedsStaleCopyOrCrash == burnt => stale \/ orphaned # {}

(* get_utxo hands out unused and unspent outputs only, again unless the    *)
(* file was written from an old copy.                                      *)
HandedOutOnce == reused => stale

(* Every output with an asset is on the list, coloured, except while the   *)
(* sweep that created it holds the wallet: createutxos and fundings cannot *)
(* pick it.                                                                *)
AssetsAreListed ==
    \A o \in Outs :
      holds[o] # {} =>
        \/ o \in file.colored
        \/ thread["events"].op = "sweep" /\ thread["events"].out = o
        \/ stale \/ o \in orphaned

(* An output marked for an asset carries one, or is promised to a payer,   *)
(* or a command is about to use it.  The outputs that are marked for       *)
(* nothing come from sends whose consignment could not be posted           *)
(* (cli.rs:539), from crashes and from old copies.                         *)
MarkedIsUsed ==
    \A o \in file.colored \cap unspent :
      \/ holds[o] # {} \/ o \in promised \/ o = thread["cli"].out
      \/ o \in wasted \/ stale \/ crashes > 0

-----------------------------------------------------------------------------
(* What the repository says or asserts and the model refutes (README). *)

(* The output a command got from get_utxo is still listed when the command *)
(* marks it: cli.rs:317, 478 and 573 assert "UTXO found".                  *)
UtxoFound == panic # "UTXO found"

(* The inputs FundingGenerationReady chose are still the wallet's when it  *)
(* builds the transaction: main.rs:277 asserts "valid utxos".              *)
ValidUtxos == panic # "valid utxos"

(* An event SpendableOutputs that is delivered again finds its outputs     *)
(* unspent: main.rs:739 and 861 assert "valid utxos", bdk_utils.rs:64      *)
(* "able to broadcast".                                                    *)
SweepCanBeRepeated == panic # "valid utxos of a sweep"
=============================================================================
