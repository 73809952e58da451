--------------------------- MODULE ChannelFunding ---------------------------
(***************************************************************************)
(* Funding of coloured channels, from the command to the usable channel,   *)
(* with the amounts of one asset.                                          *)
(*                                                                         *)
(* opencoloredchannel (src/src/cli.rs) checks the balance, lets the        *)
(* channel manager send open_channel and then writes the channel's info    *)
(* file.  Once the peer has answered, the event FundingGenerationReady     *)
(* (src/src/main.rs) reads that file, chooses the asset's inputs anew and  *)
(* builds the funding; a spawned task posts the consignment and hands the  *)
(* transaction over, the library broadcasts it, and the event ChannelReady *)
(* accepts the transfer, change included, into the contract's history.     *)
(* Meanwhile sendasset posts, broadcasts and accepts transfers of its own, *)
(* with the RGB runtime open: the steps that need the runtime wait, and    *)
(* wait for ever once a command has ended without closing it.              *)
(* The event's own steps and the locks around them are in RgbUtxos and     *)
(* RuntimeLock.                                                            *)
(***************************************************************************)
EXTENDS Integers, Sequences, FiniteSetsExt

CONSTANTS
    Channels,      \* channels that may be opened, each once
    Amount,        \* Amount[ch]: its chan_amt_rgb
    Supply,        \* Supply[o]: the allocation on output o at the start
    MaxOut,        \* bound: no output beyond this one is created
    MaxRestarts    \* bound on restarts

NoChannel == "none"
Sending == "send"    \* sendasset, where a channel is expected

ASSUME ChannelFundingAssumption ==
    /\ NoChannel \notin Channels /\ Sending \notin Channels
    /\ Amount \in [Channels -> Nat]
    /\ MaxOut \in Nat /\ MaxRestarts \in Nat
    /\ Supply \in Seq(Nat) /\ Len(Supply) < MaxOut

VARIABLES
    alloc,       \* alloc[o]: the allocation on the wallet's output o
    unspent,     \* the wallet's unspent outputs
    accepted,    \* outputs whose allocation is in the contract's history
    sent,        \* what was sent on chain
    next,        \* the next output's number
    command,     \* the channel opencoloredchannel works on, or NoChannel
    info,        \* channels with an info file under their temporary id
    stage,       \* stage[ch], seen from the channel manager
    funding,     \* funding[ch]: the transaction
    send,        \* the send in progress
    lost,        \* has a command ended without closing the runtime?
    panic,       \* the channel whose funding, or Sending, aborted the process
    restarts,
    spentSince,  \* history: channels after whose check the asset was spent
    hasty,       \* history: channels whose event overtook their command
    cut          \* history: change of sends cut off before accept_transfer

wealth == <<alloc, unspent, accepted, sent, next>>
cli == <<command, send, lost>>
notes == <<spentSince, hasty, cut>>
vars == <<wealth, cli, info, stage, funding, panic, restarts, notes>>

Outs == 1 .. MaxOut

Stages == {"none", "checked", "opening", "generating", "posting", "given",
           "broadcast", "locked", "ready", "closed", "failed"}

Fundings == [colored : BOOLEAN, inputs : SUBSET Outs, change : Nat, out : 0 .. MaxOut]
NoFunding == [colored |-> FALSE, inputs |-> {}, change |-> 0, out |-> 0]

Sends == [at : {"none", "post", "accept"}, inputs : SUBSET Outs, change : Nat,
          out : 0 .. MaxOut, amount : Nat]
NoSend == [at |-> "none", inputs |-> {}, change |-> 0, out |-> 0, amount |-> 0]

Total(amounts, S) == MapThenSumSet(LAMBDA x : amounts[x], S)

TypeOK ==
    /\ alloc \in [Outs -> Nat]
    /\ unspent \in SUBSET Outs /\ accepted \in SUBSET Outs
    /\ sent \in Nat
    /\ next \in 1 .. MaxOut + 1
    /\ command \in Channels \cup {NoChannel}
    /\ info \in SUBSET Channels
    /\ stage \in [Channels -> Stages]
    /\ funding \in [Channels -> Fundings]
    /\ send \in Sends
    /\ lost \in BOOLEAN
    /\ panic \in Channels \cup {NoChannel, Sending}
    /\ restarts \in 0 .. MaxRestarts
    /\ spentSince \in SUBSET Channels /\ hasty \in SUBSET Channels
    /\ cut \in SUBSET Outs

Init ==
    /\ alloc = [o \in Outs |-> IF o \in DOMAIN Supply THEN Supply[o] ELSE 0]
    /\ unspent = DOMAIN Supply /\ accepted = DOMAIN Supply
    /\ sent = 0
    /\ next = Len(Supply) + 1
    /\ command = NoChannel
    /\ info = {}
    /\ stage = [ch \in Channels |-> "none"]
    /\ funding = [ch \in Channels |-> NoFunding]
    /\ send = NoSend /\ lost = FALSE
    /\ panic = NoChannel /\ restarts = 0
    /\ spentSince = {} /\ hasty = {} /\ cut = {}

Running == panic = NoChannel

(* get_rgb_runtime returns: no send has the runtime open, and none was     *)
(* left open.                                                              *)
RuntimeFree == send = NoSend /\ ~ lost

Move(ch, s) == stage' = [stage EXCEPT ![ch] = s]

-----------------------------------------------------------------------------
(* Balance and inputs. *)

(* The wallet is synced first: outputs that a broadcast funding spends are *)
(* gone, its change is there but not in the history.                       *)
get_asset_owned_values == {o \in unspent \cap accepted : alloc[o] > 0}

get_rgb_total_amount == Total(alloc, get_asset_owned_values)

(* Inputs are taken until they cover the amount, none for an amount of     *)
(* zero; the order is that of hashes, so any.                              *)
rgb_inputs(amount) ==
    {S \in SUBSET get_asset_owned_values :
       \/ /\ Total(alloc, S) >= amount
          /\ S = {} \/ \E last \in S : Total(alloc, S \ {last}) < amount
       \/ S = get_asset_owned_values /\ Total(alloc, S) < amount}

(* Mutant: the change of the whole balance. *)
rgb_change_amountOfAll(inputs, amount) == get_rgb_total_amount - amount

rgb_change_amount(inputs, amount) == Total(alloc, inputs) - amount

(* Mutant: the subtraction wraps around. *)
SubtractsWrapping(inputs, amount) == TRUE

(* The subtraction is done in u64: it panics when the inputs are short. *)
Subtracts(inputs, amount) == Total(alloc, inputs) >= amount

(* Mutant: any amount will do. *)
EnoughForgotten(amount) == TRUE

Enough(amount) == amount <= get_rgb_total_amount

(* A broadcast transaction moves the allocations on its inputs. *)
Spend(inputs, out, change) ==
    /\ unspent' = (unspent \ inputs) \cup {out}
    /\ alloc' = [o \in Outs |-> IF o \in inputs THEN 0
                                ELSE IF o = out THEN change ELSE alloc[o]]
    /\ spentSince' = Channels
    /\ UNCHANGED <<hasty, cut>>

-----------------------------------------------------------------------------
(* Commands. *)

CheckBalance(ch) ==
    /\ Running /\ command = NoChannel /\ RuntimeFree /\ stage[ch] = "none"
    /\ Enough(Amount[ch])
    /\ command' = ch
    /\ Move(ch, "checked")
    /\ spentSince' = spentSince \ {ch}
    /\ UNCHANGED <<wealth, send, lost, info, funding, panic, restarts, hasty, cut>>

(* The peer is connected and create_channel sends open_channel, or the     *)
(* command ends.                                                           *)
open_channel(ch) ==
    /\ Running /\ command = ch /\ stage[ch] = "checked"
    /\ \/ Move(ch, "opening") /\ UNCHANGED command
       \/ Move(ch, "failed") /\ command' = NoChannel
    /\ UNCHANGED <<wealth, send, lost, info, funding, panic, restarts, notes>>

(* Mutant: only the last channel has an info file. *)
write_only_rgb_channel_info(ch) ==
    /\ Running /\ command = ch /\ stage[ch] # "checked"
    /\ info' = {ch}
    /\ command' = NoChannel
    /\ UNCHANGED <<wealth, send, lost, stage, funding, panic, restarts, notes>>

write_rgb_channel_info(ch) ==
    /\ Running /\ command = ch /\ stage[ch] # "checked"
    /\ info' = info \cup {ch}
    /\ command' = NoChannel
    /\ UNCHANGED <<wealth, send, lost, stage, funding, panic, restarts, notes>>

(* sendasset up to its post: the runtime is open and stays so.  `next'     *)
(* stands for the output marked for the change.  (A send of zero finds no  *)
(* input and aborts the process, a Restart.)                               *)
sendasset(amount) ==
    /\ Running /\ command = NoChannel /\ RuntimeFree
    /\ next <= MaxOut                                 \* bound on outputs
    /\ Enough(amount)
    /\ \E inputs \in rgb_inputs(amount) :
         send' = [at |-> "post", inputs |-> inputs, out |-> next,
                  change |-> rgb_change_amount(inputs, amount), amount |-> amount]
    /\ next' = next + 1
    /\ UNCHANGED <<alloc, unspent, accepted, sent, command, lost, info, stage,
                   funding, panic, restarts, notes>>

(* "ERROR: unable to post consignment". *)
PostOfSendFails ==
    /\ Running /\ send.at = "post"
    /\ send' = NoSend /\ lost' = TRUE
    /\ UNCHANGED <<wealth, command, info, stage, funding, panic, restarts, notes>>

(* The consignment is posted and the transaction broadcast, which panics   *)
(* when a funding took one of the inputs meanwhile, and when the server    *)
(* does not answer, whether the transaction reached it or not.             *)
broadcast_tx ==
    /\ Running /\ send.at = "post"
    /\ \/ /\ send.inputs \subseteq unspent
          /\ Spend(send.inputs, send.out, send.change)
          /\ sent' = sent + send.amount
          /\ send' = [send EXCEPT !.at = "accept"]
          /\ panic' \in {NoChannel, Sending}
       \/ /\ panic' = Sending
          /\ UNCHANGED <<alloc, unspent, sent, send, notes>>
    /\ UNCHANGED <<accepted, next, command, lost, info, stage, funding, restarts>>

(* Mutant: the transfer is not accepted. *)
accept_transferNothing ==
    /\ Running /\ send.at = "accept"
    /\ send' = NoSend
    /\ UNCHANGED <<wealth, command, lost, info, stage, funding, panic, restarts,
                   notes>>

(* The transfer, change included, enters the history, and the runtime is   *)
(* closed.                                                                 *)
accept_transfer ==
    /\ Running /\ send.at = "accept"
    /\ accepted' = accepted \cup {send.out}
    /\ send' = NoSend
    /\ UNCHANGED <<alloc, unspent, sent, next, command, lost, info, stage,
                   funding, panic, restarts, notes>>

(* A command that opens the runtime ends with an error and leaves it open: *)
(* assetbalance, sendasset, opencoloredchannel or taker for a contract the *)
(* node does not know or an amount it does not have (RuntimeLock has them  *)
(* all).                                                                   *)
LeaveRuntimeOpen ==
    /\ Running /\ command = NoChannel /\ RuntimeFree
    /\ lost' = TRUE
    /\ UNCHANGED <<wealth, command, send, info, stage, funding, panic, restarts,
                   notes>>

-----------------------------------------------------------------------------
(* The event FundingGenerationReady and its task. *)

(* External: the peer accepts the channel. *)
PeerAccepts(ch) ==
    /\ Running /\ stage[ch] = "opening"
    /\ Move(ch, "generating")
    /\ UNCHANGED <<wealth, cli, info, funding, panic, restarts, notes>>

(* Without an info file the channel is funded with bitcoins alone; what    *)
(* becomes of it then is not followed.  With one, inputs that no longer    *)
(* cover the amount make the subtraction panic.                            *)
FundingGenerationReady(ch) ==
    /\ Running /\ stage[ch] = "generating" /\ send = NoSend   \* wallet lock
    /\ \/ /\ ch \notin info
          /\ Move(ch, "given")
          /\ UNCHANGED <<next, funding, panic>>
       \/ /\ ch \in info /\ RuntimeFree
          /\ next <= MaxOut                           \* bound on outputs
          /\ \E inputs \in rgb_inputs(Amount[ch]) :
               IF ~ Subtracts(inputs, Amount[ch])
               THEN panic' = ch /\ UNCHANGED <<next, stage, funding>>
               ELSE /\ funding' = [funding EXCEPT ![ch] =
                         [colored |-> TRUE, inputs |-> inputs, out |-> next,
                          change |-> rgb_change_amount(inputs, Amount[ch])]]
                    /\ next' = next + 1
                    /\ Move(ch, "posting")
                    /\ UNCHANGED panic
    /\ hasty' = IF command = ch THEN hasty \cup {ch} ELSE hasty
    /\ UNCHANGED <<alloc, unspent, accepted, sent, cli, info, restarts,
                   spentSince, cut>>

(* The task.  When the post fails it returns, and the channel waits for    *)
(* its funding until it is given up; else the transfer is validated, and   *)
(* the task hands the transaction over, or returns with the runtime open.  *)
PostConsignment(ch) ==
    /\ Running /\ stage[ch] = "posting"
    /\ \/ Move(ch, "failed") /\ UNCHANGED lost
       \/ RuntimeFree /\ Move(ch, "given") /\ UNCHANGED lost
       \/ RuntimeFree /\ Move(ch, "failed") /\ lost' = TRUE
    /\ UNCHANGED <<wealth, command, send, info, funding, panic, restarts, notes>>

(* External: the library broadcasts once the peer has signed.              *)
BroadcastFunding(ch) ==
    LET tx == funding[ch] IN
    /\ Running /\ stage[ch] = "given" /\ tx.colored
    /\ tx.inputs \subseteq unspent
    /\ Spend(tx.inputs, tx.out, tx.change)
    /\ Move(ch, "broadcast")
    /\ UNCHANGED <<accepted, sent, next, cli, info, funding, panic, restarts>>

(* External: the peer goes away or refuses, or an input was spent by       *)
(* another transaction, an error that broadcast_transaction only logs.     *)
FundingFails(ch) ==
    /\ Running /\ stage[ch] \in {"opening", "generating", "given"}
    /\ Move(ch, "failed")
    /\ UNCHANGED <<wealth, cli, info, funding, panic, restarts, notes>>

(* External: the funding is mined, the peer sends channel_ready, and the   *)
(* event ChannelReady is queued.                                           *)
FundingLocked(ch) ==
    /\ Running /\ stage[ch] = "broadcast"
    /\ Move(ch, "locked")
    /\ UNCHANGED <<wealth, cli, info, funding, panic, restarts, notes>>

(* External: either end closes the channel before it is ready, and there   *)
(* will be no event.                                                       *)
ChannelCloses(ch) ==
    /\ Running /\ stage[ch] = "broadcast"
    /\ Move(ch, "closed")
    /\ UNCHANGED <<wealth, cli, info, funding, panic, restarts, notes>>

(* Mutant: the consignment is not accepted. *)
ChannelReadyForgets(ch) ==
    /\ Running /\ stage[ch] = "locked" /\ RuntimeFree
    /\ Move(ch, "ready")
    /\ UNCHANGED <<wealth, cli, info, funding, panic, restarts, notes>>

(* The funding's consignment is loaded and accepted. *)
ChannelReady(ch) ==
    /\ Running /\ stage[ch] = "locked" /\ RuntimeFree
    /\ accepted' = accepted \cup {funding[ch].out}
    /\ Move(ch, "ready")
    /\ UNCHANGED <<alloc, unspent, sent, next, cli, info, funding, panic,
                   restarts, notes>>

(* The process ends, of a panic or otherwise, and starts again: channels   *)
(* whose funding was not signed are forgotten, and a transfer that a send  *)
(* has broadcast is never accepted.                                        *)
Restart ==
    /\ Running => restarts < MaxRestarts              \* bound on restarts
    /\ restarts' = IF Running THEN restarts + 1 ELSE restarts
    /\ panic' = NoChannel
    /\ command' = NoChannel /\ send' = NoSend /\ lost' = FALSE
    /\ stage' = [ch \in Channels |->
                   IF stage[ch] \in {"none", "broadcast", "locked", "ready", "closed"}
                   THEN stage[ch] ELSE "failed"]
    /\ cut' = IF send.at = "accept" THEN cut \cup {send.out} ELSE cut
    /\ UNCHANGED <<wealth, info, funding, spentSince, hasty>>

-----------------------------------------------------------------------------
Next ==
    \/ \E ch \in Channels :
         \/ CheckBalance(ch) \/ open_channel(ch) \/ write_rgb_channel_info(ch)
         \/ PeerAccepts(ch) \/ FundingGenerationReady(ch) \/ PostConsignment(ch)
         \/ BroadcastFunding(ch) \/ FundingFails(ch)
         \/ FundingLocked(ch) \/ ChannelCloses(ch) \/ ChannelReady(ch)
    \/ \E amount \in 1 .. get_rgb_total_amount : sendasset(amount)
    \/ PostOfSendFails \/ broadcast_tx \/ accept_transfer
    \/ LeaveRuntimeOpen
    \/ Restart

Spec == Init /\ [][Next]_vars

(* A send that was begun goes on.  An event that is queued is handled: the *)
(* background processor delivers it, again after a restart, and its        *)
(* handler gets the runtime in the end when others open and close it.  An  *)
(* operator starts a node again that aborted.  Nobody has to answer, mine  *)
(* or keep a channel.                                                      *)
Fairness ==
    /\ \A ch \in Channels : SF_vars(ChannelReady(ch))
    /\ WF_vars(PostOfSendFails \/ broadcast_tx)
    /\ WF_vars(accept_transfer)
    /\ WF_vars(~ Running /\ Restart)

FairSpec == Spec /\ Fairness

-----------------------------------------------------------------------------
(* Properties. *)

InChannels ==
    Total(Amount, {ch \in Channels :
                     /\ stage[ch] \in {"broadcast", "locked", "ready", "closed"}
                     /\ funding[ch].colored})

(* Whatever overlaps, fails or restarts: what the wallet holds, what was   *)
(* sent and what the funded channels hold is the whole supply.             *)
NothingIsLost ==
    Total(alloc, unspent) + sent + InChannels = Total(Supply, DOMAIN Supply)

(* The balance the node shows, and selects inputs from, misses nothing but *)
(* the change of fundings that wait for ChannelReady or were closed        *)
(* without it, of the send that is between broadcast_tx and                *)
(* accept_transfer, and of sends that the end of the process cut off       *)
(* there.                                                                  *)
HiddenChangeHasCause ==
    \A o \in unspent : alloc[o] > 0 /\ o \notin accepted =>
      \/ \E ch \in Channels : /\ stage[ch] \in {"broadcast", "locked", "closed"}
                              /\ funding[ch].out = o
      \/ send.at = "accept" /\ send.out = o
      \/ o \in cut

(* The balance check of the command is enough unless the asset was spent   *)
(* between the command and the event: only then can the change be          *)
(* negative (main.rs:242).                                                 *)
UncoveredOnlyIfSpentSince == panic \in Channels => panic \in spentSince

(* A channel opened with opencoloredchannel is funded without the asset    *)
(* only if its event was handled between create_channel and the end of the *)
(* command, which writes the info file last (cli.rs:833): files of other   *)
(* channels, failures and restarts do not matter.                          *)
VanillaOnlyIfHasty ==
    \A ch \in Channels :
      stage[ch] = "given" /\ ~ funding[ch].colored => ch \in hasty

(* Once the event ChannelReady of a funding is queued, its change comes    *)
(* back to the balance, whatever sends, aborts and restarts get in the     *)
(* way, unless the runtime is left open for good.                          *)
ChangeIsAccepted ==
    \A ch \in Channels :
      stage[ch] = "locked" ~> (funding[ch].out \in accepted \/ []lost)

-----------------------------------------------------------------------------
(* What the repository says or asserts and the model refutes (README). *)

(* A channel opened with opencoloredchannel is funded with the asset.      *)
(* README.md: the command is followed by "the RGB amount to allocate to    *)
(* the channel".                                                           *)
ColoredIsFundedColored ==
    \A ch \in Channels : stage[ch] = "given" => funding[ch].colored

(* The command refuses a channel the balance does not cover ("ERROR: do    *)
(* not have enough RGB assets", cli.rs:787), so the event can fund it.     *)
FundingIsCovered == panic \notin Channels

(* broadcast_tx(..).expect("able to broadcast"), bdk_utils.rs:64: the      *)
(* broadcast of a send succeeds.                                           *)
AbleToBroadcast == panic # Sending
=============================================================================
